--------------------------- MODULE IpcStreamSink ---------------------------
(***************************************************************************)
(* StreamSink (src/src/io/ipc/write/stream_async.rs): StreamWriter as a    *)
(* Sink.  As in FileSink the underlying writer is in the sink, in the task *)
(* or gone, and a task advances only inside a poll; start_send encodes the *)
(* chunk before it takes the writer.                                       *)
(***************************************************************************)
EXTENDS IpcEncoding

CONSTANTS
  MaxChunks,   \* bound on the chunks sent
  MaxFaults    \* bound on the I/O errors

VARIABLES
  wire,                     \* the underlying AsyncWrite
  writer,                   \* the sink holds it
  task,                     \* the future, and how many of its messages are written
  tracker,                  \* StreamSink's dictionary_tracker
  closing,                  \* a close() is being awaited
  closed,                   \* history: poll_close returned Ok
  accepted,                 \* history: the chunks start_send returned Ok for
  failed,                   \* history: the task that failed, with the messages it wrote
  used,                     \* history: the tracker when a writer last used it
  faults

vars == << wire, writer, task, tracker, closing, closed, accepted, failed, used, faults >>

NoTask     == [kind |-> "none", chunk |-> NoChunk, columns |-> << >>, done |-> 0]
StartTask  == [NoTask EXCEPT !.kind = "start"]
FinishTask == [NoTask EXCEPT !.kind = "finish"]

\* The task that writes the dictionaries of `columns`, in order, then the record.
WriteTask(c, columns) == [kind |-> "write", chunk |-> c, columns |-> columns, done |-> 0]

\* What a task writes, message after message.
Messages(t) ==
  CASE t.kind = "none"   -> << >>
    [] t.kind = "start"  -> << Packet(Schema) >>
    [] t.kind = "finish" -> << EndOfStream >>
    [] t.kind = "write"  ->
         Append([n \in 1 .. Len(t.columns) |->
                   LET i == t.columns[n]
                   IN  Packet(Dict(Fields[i], t.chunk.dicts[i]))],
                Packet(Record(t.chunk.keys)))

Ended(t) == t.done = Len(Messages(t))

WriterAfter(t) == IF t.kind = "none" THEN writer ELSE t.kind # "finish"

Init ==
  /\ wire = << >>
  /\ writer = FALSE
  /\ task = StartTask
  /\ tracker = EmptyTracker
  /\ closing = FALSE /\ closed = FALSE
  /\ accepted = << >> /\ failed = NoTask /\ used = EmptyTracker /\ faults = 0
-----------------------------------------------------------------------------
\* Inside a poll the task writes its next message.
PollTask ==
  /\ ~Ended(task)
  /\ wire' = wire \o Messages(task)[task.done + 1]
  /\ task' = [task EXCEPT !.done = @ + 1]
  /\ UNCHANGED << writer, tracker, closing, closed, accepted, failed, used, faults >>

\* The task fails, and the writer is dropped with it.
PollFails ==
  /\ ~Ended(task)
  /\ faults < MaxFaults
  /\ LET packet == Messages(task)[task.done + 1]
     IN  \E n \in 0 .. Len(packet) :
           /\ wire' = wire \o SubSeq(packet, 1, n)
           /\ failed' = IF n = Len(packet) THEN [task EXCEPT !.done = @ + 1] ELSE task
  /\ task' = NoTask
  /\ faults' = faults + 1
  /\ closing' = FALSE
  /\ UNCHANGED << writer, tracker, closed, accepted, used >>

\* poll_ready, poll_flush: the task has completed.
PollReady ==
  /\ task # NoTask /\ Ended(task)
  /\ task' = NoTask /\ writer' = WriterAfter(task)
  /\ UNCHANGED << wire, tracker, closing, closed, accepted, failed, used, faults >>

\* A bug: what to emit is decided after the tracker has been updated.
StartSendTrackedFirst(c) ==
  /\ ~closing /\ task = NoTask /\ writer
  /\ Len(accepted) < MaxChunks
  /\ tracker' = Tracked(tracker, c.dicts, FALSE)
  /\ writer' = FALSE
  /\ task' = WriteTask(c, Ascending(Emitted(tracker', c.dicts)))
  /\ accepted' = Append(accepted, c)
  /\ used' = tracker'
  /\ UNCHANGED << wire, closing, closed, failed, faults >>

\* start_send, after a poll_ready that returned Ok.
StartSend(c) ==
  /\ ~closing /\ task = NoTask /\ writer
  /\ Len(accepted) < MaxChunks
  /\ tracker' = Tracked(tracker, c.dicts, FALSE)
  /\ writer' = FALSE
  /\ task' = WriteTask(c, Ascending(Emitted(tracker, c.dicts)))
  /\ accepted' = Append(accepted, c)
  /\ used' = tracker'
  /\ UNCHANGED << wire, closing, closed, failed, faults >>

\* start_send without a writer: the chunk is encoded all the same.
StartSendClosed(c) ==
  /\ ~closing /\ task = NoTask /\ ~writer
  /\ tracker' = Tracked(tracker, c.dicts, FALSE)
  /\ UNCHANGED << wire, writer, task, closing, closed, accepted, failed, used, faults >>

\* The caller awaits close(), and may give that up.
Close ==
  /\ ~closed
  /\ closing' = ~closing
  /\ UNCHANGED << wire, writer, task, tracker, closed, accepted, failed, used, faults >>

\* poll_close, once the task is complete: the finish task, or Ok.
PollClose ==
  /\ closing /\ Ended(task)
  /\ IF WriterAfter(task)
       THEN task' = FinishTask /\ UNCHANGED << closing, closed >>
       ELSE task' = NoTask /\ closing' = FALSE /\ closed' = TRUE
  /\ writer' = FALSE
  /\ UNCHANGED << wire, tracker, accepted, failed, used, faults >>

Next ==
  \/ PollTask \/ PollFails \/ PollReady
  \/ \E c \in Chunks : StartSend(c) \/ StartSendClosed(c)
  \/ Close \/ PollClose

\* The futures of AsyncWrite wake the task that awaits close(), which is polled again.
Fairness == WF_vars(closing /\ PollTask) /\ WF_vars(PollClose)

Spec == Init /\ [][Next]_vars /\ Fairness
-----------------------------------------------------------------------------
Tasks ==
  [kind: {"none", "start", "write", "finish"}, chunk: Chunks \cup {NoChunk},
   columns: Seq(Columns), done: Nat]

TypeOK ==
  /\ wire \in Seq(StreamCells)
  /\ writer \in BOOLEAN /\ closing \in BOOLEAN /\ closed \in BOOLEAN
  /\ {task, failed} \subseteq Tasks
  /\ task.done <= Len(Messages(task))
  /\ {tracker, used} \subseteq Tracker
  /\ accepted \in Seq(Chunks)
  /\ faults \in Nat

\* The writer is in the sink, or in the one task that works, or it was lost to
\* an error or given up by finish.
OneWriter ==
  /\ writer => task = NoTask
  /\ writer \/ task # NoTask => failed = NoTask
  /\ closed => ~writer /\ task = NoTask

\* The dictionaries of a chunk are written in the order of its columns, and a
\* chunk that is being written is the last accepted.
TaskIsOfTheChunk ==
  \A t \in {task, failed} :
    /\ t.kind = "none" => t = NoTask
    /\ t.kind = "write" =>
         /\ \A m, n \in 1 .. Len(t.columns) : m < n => t.columns[m] < t.columns[n]
         /\ accepted # << >> /\ t.chunk = accepted[Len(accepted)]

\* What a lost or finished sink still encodes is the only thing it tracks for nothing.
TrackerIsUsed == writer \/ task # NoTask => used = tracker

\* The finish task has written its mark, or has completed.
Finishing ==
  /\ failed = NoTask /\ ~writer
  /\ task.kind \in {"none", "finish"} /\ Ended(task)

Marks == {n \in 1 .. Len(wire) : wire[n] = Zero}

EndsWithMark ==
  /\ Len(wire) >= Len(EndOfStream)
  /\ SubSeq(wire, Len(wire) - Len(EndOfStream) + 1, Len(wire)) = EndOfStream

\* The mark is on the wire as soon as the finish task has written it, at its end.
MarkIsTheEnd ==
  failed = NoTask =>
    IF Finishing THEN EndsWithMark /\ Marks = {Len(wire)} ELSE Marks = {}

SinkInv == TypeOK /\ OneWriter /\ TaskIsOfTheChunk /\ TrackerIsUsed /\ MarkIsTheEnd

\* A close that returns Ok with no error before it has written the
\* end-of-stream mark, and nothing after it, whichever polls drove the tasks.
ClosedIsFinished ==
  closed /\ failed = NoTask => EndsWithMark /\ Cardinality(Marks) = 1

\* A close() that is awaited returns, with Ok or with an error.
CloseReturns == closing ~> ~closing
-----------------------------------------------------------------------------
(***************************************************************************)
(* The sink puts on the wire what StreamWriter would.                      *)
(***************************************************************************)
LastTask == IF failed # NoTask THEN failed ELSE task

Writing == failed = NoTask /\ task.kind = "write" /\ ~Ended(task)

WriterStarted == task.kind # "start" \/ Ended(task)

WriterCall == CASE Writing -> "write" [] failed # NoTask -> "dropped" [] OTHER -> "idle"

WriterChunk == IF Writing THEN task.chunk ELSE NoChunk

WriterPending ==
  IF Writing THEN {task.columns[n] : n \in task.done + 1 .. Len(task.columns)} ELSE {}

WriterSent ==
  IF LastTask.kind = "write" /\ ~Ended(LastTask)
  THEN SubSeq(accepted, 1, Len(accepted) - 1) ELSE accepted

WriterControls ==
  CASE LastTask.kind = "start" -> (IF Ended(LastTask) \/ failed # NoTask THEN 1 ELSE 0)
    [] Finishing \/ (failed # NoTask /\ failed.kind = "finish") -> 2
    [] OTHER -> 1

Writer == INSTANCE IpcStreamWriter WITH
  started <- WriterStarted, finished <- Finishing, tracker <- used, call <- WriterCall,
  chunk <- WriterChunk,
  pending <- WriterPending, sent <- WriterSent, controls <- WriterControls, MaxControls <- 2

\* Every step of the sink is a step of StreamWriter on the same bytes, or none:
\* what readers make of a StreamWriter's stream they make of the sink's.
SinkIsStreamWriter == Writer!WriterInit /\ [][Writer!WriterNext]_(Writer!wvars)
=============================================================================

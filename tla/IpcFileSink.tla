---------------------------- MODULE IpcFileSink ----------------------------
(***************************************************************************)
(* FileSink (src/src/io/ipc/write/file_async.rs): the Sink that writes an  *)
(* IPC file with boxed futures.  At any time the underlying writer is      *)
(* either in the sink, or inside the task (the future), or gone: an error  *)
(* of the task or of encode_chunk drops it.  A task advances only inside   *)
(* poll_ready, poll_flush and poll_close; its blocks reach the sink when   *)
(* it completes.  Any of these polls may be abandoned (its future dropped) *)
(* while the task is pending.                                              *)
(***************************************************************************)
EXTENDS IpcEncoding

CONSTANTS
  MaxChunks,   \* bound on the chunks sent
  MaxFaults,   \* bound on the I/O errors
  Stops        \* the dictionaries after which encode_dictionary may refuse a chunk
               \* for its ipc_fields or its type

ASSUME StopsAssumption == Stops \subseteq 0 .. Len(Fields)

VARIABLES
  file,                     \* the underlying AsyncWrite
  writer,                   \* the sink holds it
  task,                     \* the future, and how many of its messages are written
  offset, dictBlocks, recBlocks, tracker,   \* FileSink's fields
  closing,                  \* a close() is being awaited
  closed,                   \* history: poll_close returned Ok
  accepted,                 \* history: the chunks start_send returned Ok for
  refused,                  \* history: start_send returned an error of encode_chunk
  lost,                     \* history: the ids it left in the tracker, their
                            \* dictionaries unwritten
  failed,                   \* history: the task that failed
  faults

vars == << file, writer, task, offset, dictBlocks, recBlocks, tracker,
           closing, closed, accepted, refused, lost, failed, faults >>

NoFooter == Footer(<< >>, << >>)

NoTask    == [kind |-> "none", chunk |-> NoChunk, columns |-> << >>, footer |-> NoFooter, done |-> 0]
StartTask == [NoTask EXCEPT !.kind = "start"]
FinishTask(ds, rs) ==
  [kind |-> "finish", chunk |-> NoChunk, columns |-> << >>, footer |-> Footer(ds, rs), done |-> 0]

\* The task that writes the dictionaries of `columns`, in order, then the record.
WriteTask(c, columns) ==
  [kind |-> "write", chunk |-> c, columns |-> columns, footer |-> NoFooter, done |-> 0]

\* What a task writes, message after message.
Messages(t) ==
  CASE t.kind = "none"   -> << >>
    [] t.kind = "start"  -> << << Magic >> \o Message(Schema) >>
    [] t.kind = "finish" -> << << Cont >>, FooterCells(t.footer) >>
    [] t.kind = "write"  ->
         Append([n \in 1 .. Len(t.columns) |->
                   LET i == t.columns[n]
                   IN  Message(Dict(Fields[i], t.chunk.dicts[i]))],
                Message(Record(t.chunk.keys)))

Ended(t) == t.done = Len(Messages(t))

\* A bug: the offset after a chunk forgets its dictionary messages.
OffsetAfterRecord(t) ==
  CASE t.kind = "none"   -> offset
    [] t.kind = "start"  -> HeaderSize
    [] t.kind = "write"  -> offset + MessageSize
    [] t.kind = "finish" -> 0

\* The output of a task (WriteOutput), as poll_write stores it.
OffsetAfter(t) ==
  CASE t.kind = "none"   -> offset
    [] t.kind = "start"  -> HeaderSize
    [] t.kind = "write"  -> offset + MessageSize * (Len(t.columns) + 1)
    [] t.kind = "finish" -> 0

WriterAfter(t) == IF t.kind = "none" THEN writer ELSE t.kind # "finish"

DictBlocksOf(t) == [n \in 1 .. Len(t.columns) |-> offset + MessageSize * (n - 1)]

RecBlocksOf(t) ==
  IF t.kind = "write" THEN << offset + MessageSize * Len(t.columns) >> ELSE << >>

DictBlocksAfter(t) == dictBlocks \o DictBlocksOf(t)
RecBlocksAfter(t)  == recBlocks \o RecBlocksOf(t)

Init ==
  /\ file = << >>
  /\ writer = FALSE
  /\ task = StartTask
  /\ offset = 0 /\ dictBlocks = << >> /\ recBlocks = << >>
  /\ tracker = EmptyTracker
  /\ closing = FALSE /\ closed = FALSE
  /\ accepted = << >> /\ refused = FALSE /\ lost = {} /\ failed = NoTask /\ faults = 0
-----------------------------------------------------------------------------
\* Inside a poll the task writes its next message.
PollTask ==
  /\ ~Ended(task)
  /\ file' = file \o Messages(task)[task.done + 1]
  /\ task' = [task EXCEPT !.done = @ + 1]
  /\ UNCHANGED << writer, offset, dictBlocks, recBlocks, tracker, closing,
                  closed, accepted, refused, lost, failed, faults >>

\* The payload of a message that failed is unusable, however much of it got there.
NextCells(t) == IF t.kind = "write" THEN Message(Torn) ELSE Messages(t)[t.done + 1]

\* A bug: the failed task stays in the sink, to be polled again.
PollFailsKeepsTask ==
  /\ ~Ended(task)
  /\ faults < MaxFaults
  /\ \E torn \in TornPrefixes(NextCells(task)) : file' = file \o torn
  /\ failed' = task
  /\ faults' = faults + 1
  /\ closing' = FALSE
  /\ UNCHANGED << task, writer, offset, dictBlocks, recBlocks, tracker, closed,
                  accepted, refused, lost >>

\* The task fails: poll_write drops it, with the writer inside, and returns the
\* error to poll_ready, poll_flush or poll_close.
PollFails ==
  /\ ~Ended(task)
  /\ faults < MaxFaults
  /\ \E torn \in TornPrefixes(NextCells(task)) : file' = file \o torn
  /\ task' = NoTask /\ failed' = task
  /\ faults' = faults + 1
  /\ closing' = FALSE
  /\ UNCHANGED << writer, offset, dictBlocks, recBlocks, tracker, closed,
                  accepted, refused, lost >>

\* poll_ready, poll_flush: the task has completed, its output becomes the sink's.
PollReady ==
  /\ task # NoTask /\ Ended(task)
  /\ task' = NoTask
  /\ writer' = WriterAfter(task) /\ offset' = OffsetAfter(task)
  /\ dictBlocks' = DictBlocksAfter(task) /\ recBlocks' = RecBlocksAfter(task)
  /\ UNCHANGED << file, tracker, closing, closed, accepted, refused, lost, failed, faults >>

\* start_send, after a poll_ready that returned Ok.
StartSend(c) ==
  /\ ~closing /\ task = NoTask /\ writer
  /\ Len(accepted) < MaxChunks
  /\ Encodable(tracker, c.dicts, TRUE)
  /\ writer' = FALSE
  /\ tracker' = Tracked(tracker, c.dicts, TRUE)
  /\ task' = WriteTask(c, Ascending(Emitted(tracker, c.dicts)))
  /\ accepted' = Append(accepted, c)
  /\ UNCHANGED << file, offset, dictBlocks, recBlocks, closing, closed, refused, lost, failed, faults >>

\* start_send: encode_chunk fails, after the writer was taken out of the sink.
StartSendRefused(c) ==
  /\ ~closing /\ task = NoTask /\ writer
  /\ \E n \in Refusals(tracker, c.dicts, TRUE, Stops) :
       /\ tracker' = Recorded(tracker, c.dicts, 1 .. n)
       /\ lost' = Left(tracker, c.dicts, n)
  /\ writer' = FALSE
  /\ refused' = TRUE
  /\ UNCHANGED << file, task, offset, dictBlocks, recBlocks, closing, closed,
                  accepted, failed, faults >>

\* The caller awaits close(), and may give that up.
Close ==
  /\ ~closed
  /\ closing' = ~closing
  /\ UNCHANGED << file, writer, task, offset, dictBlocks, recBlocks, tracker,
                  closed, accepted, refused, lost, failed, faults >>

\* A bug: poll_close does not wait for the task, and finds no writer.
PollCloseAtOnce ==
  /\ closing
  /\ IF writer
       THEN /\ task' = FinishTask(dictBlocks, recBlocks)
            /\ dictBlocks' = << >> /\ recBlocks' = << >>
            /\ UNCHANGED << closing, closed >>
       ELSE /\ task' = task
            /\ UNCHANGED << dictBlocks, recBlocks >>
            /\ closing' = FALSE /\ closed' = TRUE
  /\ writer' = FALSE
  /\ UNCHANGED << offset, file, tracker, accepted, refused, lost, failed, faults >>

\* A bug: poll_close stays pending when there is no writer left to finish.
PollClosePending ==
  /\ closing /\ Ended(task) /\ WriterAfter(task)
  /\ task' = FinishTask(DictBlocksAfter(task), RecBlocksAfter(task))
  /\ dictBlocks' = << >> /\ recBlocks' = << >>
  /\ writer' = FALSE
  /\ offset' = OffsetAfter(task)
  /\ UNCHANGED << file, tracker, closing, closed, accepted, refused, lost, failed, faults >>

\* poll_close, once poll_write is Ready(Ok): the finish task, or Ok when there
\* is no writer -- because the finish task has completed, or for another reason.
PollClose ==
  /\ closing /\ Ended(task)
  /\ IF WriterAfter(task)
       THEN /\ task' = FinishTask(DictBlocksAfter(task), RecBlocksAfter(task))
            /\ dictBlocks' = << >> /\ recBlocks' = << >>
            /\ UNCHANGED << closing, closed >>
       ELSE /\ task' = NoTask
            /\ dictBlocks' = DictBlocksAfter(task) /\ recBlocks' = RecBlocksAfter(task)
            /\ closing' = FALSE /\ closed' = TRUE
  /\ writer' = FALSE
  /\ offset' = OffsetAfter(task)
  /\ UNCHANGED << file, tracker, accepted, refused, lost, failed, faults >>

Next ==
  \/ PollTask \/ PollFails \/ PollReady
  \/ \E c \in Chunks : StartSend(c) \/ StartSendRefused(c)
  \/ Close \/ PollClose

\* The futures of AsyncWrite wake the task that awaits close(), which is polled again.
Fairness == WF_vars(closing /\ PollTask) /\ WF_vars(PollClose)

Spec == Init /\ [][Next]_vars /\ Fairness
-----------------------------------------------------------------------------
Tasks ==
  [kind: {"none", "start", "write", "finish"}, chunk: Chunks \cup {NoChunk},
   columns: Seq(Columns), footer: Footers, done: Nat]

TypeOK ==
  /\ file \in Seq(Cells)
  /\ writer \in BOOLEAN /\ closing \in BOOLEAN /\ closed \in BOOLEAN /\ refused \in BOOLEAN
  /\ {task, failed} \subseteq Tasks
  /\ task.done <= Len(Messages(task))
  /\ offset \in Nat /\ dictBlocks \in Blocks /\ recBlocks \in Blocks
  /\ tracker \in Tracker /\ lost \subseteq Ids
  /\ accepted \in Seq(Chunks)
  /\ faults \in Nat

\* The writer is in the sink, or in the one task that works, or it was lost to
\* an error or given up by finish.
OneWriter ==
  /\ writer => task = NoTask
  /\ writer \/ task # NoTask => failed = NoTask /\ ~refused
  /\ ~writer /\ task = NoTask => failed # NoTask \/ refused \/ offset = 0
  /\ closed => ~writer /\ task = NoTask
  /\ lost # {} => refused

\* The dictionaries of a chunk are written in the order of its columns, and a
\* chunk that is being written is the last accepted.
TaskIsOfTheChunk ==
  \A t \in {task, failed} :
    /\ t.kind = "none" => t = NoTask
    /\ t.kind # "write" => t.columns = << >>
    /\ t.kind = "write" =>
         /\ \A m, n \in 1 .. Len(t.columns) : m < n => t.columns[m] < t.columns[n]
         /\ accepted # << >> /\ t.chunk = accepted[Len(accepted)]

\* The task at work, or the one that was when the writer was lost.
Last == IF failed # NoTask THEN failed ELSE task

\* There is an offset between the header and the footer only.
OffsetIsOfTheTask ==
  /\ failed # NoTask => ~Ended(failed)
  /\ Last.kind = "start" => offset = 0
  /\ writer \/ (Last.kind \in {"write", "finish"} /\ ~Ended(Last)) => offset # 0
  /\ offset = 0 \/ Last.kind = "finish" => dictBlocks = << >> /\ recBlocks = << >>

\* Where the file ends, until an error leaves it anywhere.
FileEnd(t) ==
  CASE t.kind = "start"  -> HeaderSize * t.done
    [] t.kind = "write"  -> offset + MessageSize * t.done
    [] t.kind = "finish" -> offset + (IF t.done = 2 THEN 1 + FooterSize ELSE t.done)
    [] OTHER -> offset

Finished ==
  failed = NoTask /\ (IF task.kind = "finish" THEN Ended(task) ELSE task = NoTask /\ offset = 0)

FileIsOfTheTask ==
  failed = NoTask =>
    /\ (task = NoTask /\ offset = 0) \/ Len(file) = FileEnd(task)
    /\ IF Finished THEN HasFooter(file) ELSE \A n \in 1 .. Len(file) : file[n].kind # "footer"

SinkInv == TypeOK /\ OneWriter /\ TaskIsOfTheChunk /\ OffsetIsOfTheTask /\ FileIsOfTheTask

\* A close that returns Ok, if no call failed before, leaves a file that reads
\* back every chunk start_send accepted -- whichever polls drove the tasks and
\* were given up in between.
ClosedReadsBack ==
  closed /\ failed = NoTask /\ ~refused =>
    /\ HasFooter(file)
    /\ Readable(file, LastFooter(file).dictionaries, LastFooter(file).records)
    /\ Decode(file, LastFooter(file).dictionaries, LastFooter(file).records) = accepted

\* The footer is written when the sink is closed (file_async.rs:20: "the file
\* footer is automatically written when the sink is closed").
CloseWritesFooter == closed => HasFooter(file)

\* A close() that is awaited returns, with Ok or with an error.
CloseReturns == closing ~> ~closing
-----------------------------------------------------------------------------
(***************************************************************************)
(* The sink writes the file FileWriter would: a message FileWriter has     *)
(* counted as soon as it is written is counted here when its task polls it *)
(* out, although the sink learns of it only when the task completes.       *)
(***************************************************************************)

Writing == failed = NoTask /\ task.kind = "write" /\ ~Ended(task)

WriteCut == Last.kind = "write" /\ ~Ended(Last)

\* FileWriter takes its blocks after the end-of-stream mark is written.
NotTaken == Last.kind = "finish" /\ Last.done = 0
Taken == failed = NoTask /\ task.kind = "finish" /\ task.done = 1

WriterState ==
  CASE Last.kind = "start" /\ ~Ended(Last) -> "None"
    [] Finished -> "Finished"
    [] OTHER -> "Started"

WriterOffset ==
  CASE WriterState = "None" -> 0
    [] WriterState = "Finished" -> Len(file) - FooterSize - 1
    [] WriterState = "Started" /\ Last.kind = "start" -> HeaderSize
    [] WriterState = "Started" /\ Last.kind = "write" -> offset + MessageSize * Last.done
    [] OTHER -> offset

WriterDicts ==
  IF NotTaken THEN Last.footer.dictionaries
  ELSE dictBlocks \o (IF WriteCut THEN SubSeq(DictBlocksOf(Last), 1, Last.done)
                      ELSE DictBlocksOf(Last))

WriterRecs ==
  IF NotTaken THEN Last.footer.records
  ELSE recBlocks \o (IF WriteCut THEN << >> ELSE RecBlocksOf(Last))

WriterCall == CASE Writing -> "write" [] Taken -> "finish" [] OTHER -> "idle"

WriterChunk == IF Writing THEN task.chunk ELSE NoChunk

WriterPending ==
  IF Writing THEN {task.columns[n] : n \in task.done + 1 .. Len(task.columns)} ELSE {}

WriterFooter == IF Taken THEN task.footer ELSE NoFooter

WriterAccepted == IF WriteCut THEN SubSeq(accepted, 1, Len(accepted) - 1) ELSE accepted

WriterCommitted == IF HasFooter(file) THEN accepted ELSE << >>

Sync == INSTANCE IpcFileWriter WITH
  pos <- Len(file), state <- WriterState, blockOffset <- WriterOffset,
  dictBlocks <- WriterDicts, recBlocks <- WriterRecs,
  call <- WriterCall, chunk <- WriterChunk, pending <- WriterPending, footer <- WriterFooter,
  accepted <- WriterAccepted, committed <- WriterCommitted, broken <- failed # NoTask,
  spoiled <- FALSE,
  sessions <- 0, MaxSessions <- 0, RetryAfterError <- FALSE, Unreadable <- NoDict

\* Every step of the sink is a step of FileWriter on the same bytes, or none:
\* what is proved of FileWriter's file holds of the sink's.
SinkIsFileWriter == Sync!Spec
=============================================================================

----------------------------- MODULE ParquetSink -----------------------------
(***************************************************************************)
(* FileSink of Parquet (src/src/io/parquet/write/sink.rs).  As in the IPC  *)
(* sinks, the writer -- here a FileStreamer of parquet2 -- is in the sink, *)
(* in the task or gone, and a task advances only inside a poll.  The       *)
(* columns of a chunk are encoded inside the task, one by one as the row   *)
(* group is written, so what cannot be encoded is found out there.         *)
(* Positions are counted from behind the magic bytes of the file, which    *)
(* FileStreamer writes.                                                    *)
(***************************************************************************)
EXTENDS Integers, Sequences

CONSTANTS
  Values,      \* what a column of a chunk may hold
  NoPages,     \* a column with a page that fails when it is written
  NoColumn,    \* a column array_to_columns refuses
  Entries,     \* what a user may put into the metadata
  Width,       \* the number of fields, and of columns
  MaxChunks,   \* bound on the chunks sent
  MaxFaults    \* bound on the I/O errors

VARIABLES
  file,        \* the underlying AsyncWrite: columns, torn columns and footers
  writer,      \* the Option<FileStreamer> of the sink
  task,        \* the future, and how many of its steps are done
  metadata,    \* FileSink's metadata
  closing,     \* a close() is being awaited
  closed,      \* history: poll_close returned Ok
  accepted,    \* history: the chunks start_send returned Ok for
  inserted,    \* history: the metadata ever put in
  failed,      \* history: how the task ended that took the writer with it
  faults

vars == << file, writer, task, metadata, closing, closed, accepted, inserted, failed, faults >>

Chunks == [1 .. Width -> Values \cup {NoPages, NoColumn}]

Column(v)    == [kind |-> "column", value |-> v, groups |-> << >>, metadata |-> {}]
Torn         == Column(NoPages)
Footer(gs, es) == [kind |-> "footer", value |-> NoPages, groups |-> gs, metadata |-> es]

\* A FileStreamer: where it writes next, and where its row groups begin.
NewStreamer == [offset |-> 0, groups |-> << >>]
None        == << >>
Some(s)     == << s >>

NoTask == [kind |-> "none", chunk |-> << >>, streamer |-> NewStreamer, metadata |-> {}, done |-> 0]
WriteTask(s, c)   == [NoTask EXCEPT !.kind = "write", !.streamer = s, !.chunk = c]
FinishTask(s, es) == [NoTask EXCEPT !.kind = "finish", !.streamer = s, !.metadata = es]

\* What a task writes, step after step; the last of finish closes the AsyncWrite.
Steps(t) ==
  CASE t.kind = "none"   -> << >>
    [] t.kind = "write"  -> [i \in 1 .. Len(t.chunk) |-> << Column(t.chunk[i]) >>]
    [] t.kind = "finish" -> << << Footer(t.streamer.groups, t.metadata) >>, << >> >>

Ended(t) == t.done = Len(Steps(t))

\* The row group the task has written is known to the streamer it gives back.
Streamed(t) ==
  [offset |-> t.streamer.offset + Len(t.chunk), groups |-> Append(t.streamer.groups, t.streamer.offset)]

WriterAfter(t) ==
  CASE t.kind = "none"   -> writer
    [] t.kind = "write"  -> Some(Streamed(t))
    [] t.kind = "finish" -> None

\* The column the task comes to next, if it writes one.
Upcoming(t) == IF t.kind = "write" /\ ~Ended(t) THEN {t.chunk[t.done + 1]} ELSE {}

\* The task has gone, with the writer inside.
Lost(how) == task' = NoTask /\ failed' = how /\ closing' = FALSE

Init ==
  /\ file = << >>
  /\ writer = Some(NewStreamer)
  /\ task = NoTask
  /\ metadata = {}
  /\ closing = FALSE /\ closed = FALSE
  /\ accepted = << >> /\ inserted = {} /\ failed = "no" /\ faults = 0
-----------------------------------------------------------------------------
\* The user puts an entry into the public field.
Insert(e) ==
  /\ ~closing /\ e \notin inserted
  /\ metadata' = metadata \cup {e} /\ inserted' = inserted \cup {e}
  /\ UNCHANGED << file, writer, task, closing, closed, accepted, failed, faults >>

\* Inside a poll the task writes its next column, or the footer, or closes the file.
PollTask ==
  /\ ~Ended(task) /\ Upcoming(task) \subseteq Values
  /\ file' = file \o Steps(task)[task.done + 1]
  /\ task' = [task EXCEPT !.done = @ + 1]
  /\ UNCHANGED << writer, metadata, closing, closed, accepted, inserted, failed, faults >>

\* The write fails; what of it is on the file cannot be used.
PollFails ==
  /\ ~Ended(task) /\ Upcoming(task) \subseteq Values
  /\ faults < MaxFaults
  /\ \/ file' = file
     \/ Steps(task)[task.done + 1] # << >> /\ file' = Append(file, Torn)
  /\ Lost("error")
  /\ faults' = faults + 1
  /\ UNCHANGED << writer, metadata, closed, accepted, inserted >>

\* A page of the column cannot be encoded: the pages before it are written.
EncodingFails ==
  /\ NoPages \in Upcoming(task)
  /\ file' \in {file, Append(file, Torn)}
  /\ Lost("error")
  /\ UNCHANGED << writer, metadata, closed, accepted, inserted, faults >>

\* row_group_iter unwraps what array_to_columns returns: the poll panics.  The task
\* stays, and panics again whenever it is polled.
EncodingPanics ==
  /\ NoColumn \in Upcoming(task)
  /\ failed' = "panic" /\ closing' = FALSE
  /\ UNCHANGED << file, writer, task, metadata, closed, accepted, inserted, faults >>

\* poll_ready, poll_flush: the task has completed.
PollReady ==
  /\ task # NoTask /\ Ended(task)
  /\ task' = NoTask /\ writer' = WriterAfter(task)
  /\ UNCHANGED << file, metadata, closing, closed, accepted, inserted, failed, faults >>

\* start_send, after a poll_ready that returned Ok.  A chunk of another width, and a
\* sink without a writer, are refused and change nothing.
StartSend(c) ==
  /\ ~closing /\ task = NoTask /\ writer # None
  /\ Len(accepted) < MaxChunks
  /\ writer' = None
  /\ task' = WriteTask(Head(writer), c)
  /\ accepted' = Append(accepted, c)
  /\ UNCHANGED << file, metadata, closing, closed, inserted, failed, faults >>

\* The caller awaits close(), and may give that up.
Close ==
  /\ ~closed
  /\ closing' = ~closing
  /\ UNCHANGED << file, writer, task, metadata, closed, accepted, inserted, failed, faults >>

\* poll_close, once poll_complete is Ready(Ok): the finish task, with the metadata
\* taken out of the sink, or Ok when there is no writer -- finished, or lost.
PollClose ==
  /\ closing /\ Ended(task)
  /\ IF WriterAfter(task) # None
       THEN /\ task' = FinishTask(Head(WriterAfter(task)), metadata)
            /\ metadata' = {}
            /\ UNCHANGED << closing, closed >>
       ELSE /\ task' = NoTask /\ closing' = FALSE /\ closed' = TRUE
            /\ UNCHANGED metadata
  /\ writer' = None
  /\ UNCHANGED << file, accepted, inserted, failed, faults >>

Next ==
  \/ \E e \in Entries : Insert(e)
  \/ PollTask \/ PollFails \/ EncodingFails \/ EncodingPanics \/ PollReady
  \/ \E c \in Chunks : StartSend(c)
  \/ Close \/ PollClose

\* The futures of AsyncWrite wake the task that awaits close(), which is polled again.
Fairness ==
  /\ WF_vars(closing /\ (PollTask \/ EncodingFails \/ EncodingPanics))
  /\ WF_vars(PollClose)

Spec == Init /\ [][Next]_vars /\ Fairness
-----------------------------------------------------------------------------
Streamers == [offset: Nat, groups: Seq(Nat)]

TypeOK ==
  /\ file \in Seq([kind: {"column", "footer"}, value: Values \cup {NoPages},
                   groups: Seq(Nat), metadata: SUBSET Entries])
  /\ writer = None \/ (writer = Some(Head(writer)) /\ Head(writer) \in Streamers)
  /\ task \in [kind: {"none", "write", "finish"}, chunk: {<< >>} \cup Chunks,
               streamer: Streamers, metadata: SUBSET Entries, done: Nat]
  /\ task.done <= Len(Steps(task))
  /\ {closing, closed} \subseteq BOOLEAN
  /\ accepted \in Seq(Chunks)
  /\ inserted \subseteq Entries /\ metadata \subseteq inserted
  /\ failed \in {"no", "error", "panic"}
  /\ faults \in Nat

LastCell == file[Len(file)]

HasFooter == file # << >> /\ LastCell.kind = "footer"

\* The writer is in the sink, or in the one task that works, or it was lost to an
\* error or given up by finish.
OneWriter ==
  /\ writer # None => task = NoTask
  /\ writer # None \/ (task # NoTask /\ NoColumn \notin Upcoming(task)) => failed = "no"
  /\ writer = None /\ task = NoTask => failed # "no" \/ HasFooter

\* What a streamer in the sink counts is what is on the file.
CountsAreOfTheFile ==
  writer # None =>
    /\ Head(writer).offset = Len(file)
    /\ Len(Head(writer).groups) = Len(accepted)

SinkInv == TypeOK /\ OneWriter /\ CountsAreOfTheFile

\* The columns of the row group that begins at `start`.
RowGroupAt(start) == [i \in 1 .. Width |-> file[start + i].value]

\* A close that returns Ok, if no task failed before, leaves a file whose one footer
\* reads back every chunk start_send accepted; an entry of the metadata is in it or,
\* if it came after poll_close had taken them, still in the sink.
ClosedReadsBack ==
  closed /\ failed = "no" =>
    /\ HasFooter
    /\ \A n \in 1 .. Len(file) - 1 : file[n].kind = "column"
    /\ LET groups == LastCell.groups
       IN  [n \in 1 .. Len(groups) |-> RowGroupAt(groups[n])] = accepted
    /\ LastCell.metadata \cup metadata = inserted
    /\ LastCell.metadata \cap metadata = {}

\* A close() that is awaited returns, with Ok, with an error or with a panic.
CloseReturns == closing ~> ~closing
=============================================================================

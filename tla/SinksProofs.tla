----------------------------- MODULE SinksProofs -----------------------------
(***************************************************************************)
(* The three sinks: that of IPC files, that of Parquet, and all of them    *)
(* together (that of IPC streams alone is in IpcStreamSinkProofs).         *)
(*                                                                         *)
(* Of a FileSink of IPC, SinkInv is inductive, and every step is a step of *)
(* FileWriter on the same bytes, so what is proved of FileWriter's file    *)
(* holds of the sink's: a clean close leaves a file that reads back what   *)
(* was sent, for any columns, dictionaries, chunks, polls and I/O errors.  *)
(*                                                                         *)
(* That a file of Parquet reads back needs what ParquetSink does not keep  *)
(* anywhere: where in the file the row groups are that the FileStreamer of *)
(* the sink, of the write task and of the finish task has counted, and     *)
(* which chunks they hold.                                                 *)
(***************************************************************************)
EXTENDS MCSinks, IpcEncodingProofs

-----------------------------------------------------------------------------
(* Tasks.                                                                   *)

\* The messages of a task, and which of them comes next.
LEMMA TaskFacts ==
  ASSUME NEW t \in Tasks
  PROVE  /\ t.kind = "none" => Messages(t) = << >>
         /\ t.kind = "start" => Messages(t) = << << Magic >> \o Message(Schema) >>
         /\ t.kind = "finish" => Messages(t) = << << Cont >>, FooterCells(t.footer) >>
         /\ t.kind = "write" =>
              /\ Len(Messages(t)) = Len(t.columns) + 1
              /\ \A n \in 1 .. Len(t.columns) :
                   Messages(t)[n] = Message(Dict(Fields[t.columns[n]], t.chunk.dicts[t.columns[n]]))
              /\ Messages(t)[Len(t.columns) + 1] = Message(Record(t.chunk.keys))
<1>1. CASE t.kind # "write"
  BY <1>1 DEF Messages, Tasks
<1>2. CASE t.kind = "write"
  <2> DEFINE dicts == [n \in 1 .. Len(t.columns) |->
                         Message(Dict(Fields[t.columns[n]], t.chunk.dicts[t.columns[n]]))]
             record == Message(Record(t.chunk.keys))
  <2>1. Messages(t) = Append(dicts, record)
    BY <1>2 DEF Messages
  <2>2. Len(t.columns) \in Nat
    BY DEF Tasks
  <2>3. /\ \A n \in 1 .. Len(t.columns) :
             dicts[n] = Message(Dict(Fields[t.columns[n]], t.chunk.dicts[t.columns[n]]))
        /\ dicts \in Seq({dicts[n] : n \in 1 .. Len(t.columns)}) /\ Len(dicts) = Len(t.columns)
    BY <2>2
  <2> HIDE DEF dicts, record
  <2>4. /\ Len(Append(dicts, record)) = Len(t.columns) + 1
        /\ \A n \in 1 .. Len(t.columns) : Append(dicts, record)[n] = dicts[n]
        /\ Append(dicts, record)[Len(t.columns) + 1] = record
    BY <2>2, <2>3
  <2> QED BY <1>2, <2>1, <2>3, <2>4 DEF record
<1> QED BY <1>1, <1>2

\* Which tasks have come to their end.
LEMMA EndedFacts ==
  ASSUME NEW t \in Tasks, t.done <= Len(Messages(t))
  PROVE  /\ t.kind = "none" => t.done = 0 /\ Ended(t)
         /\ t.kind = "start" => t.done \in {0, 1} /\ (Ended(t) <=> t.done = 1)
         /\ t.kind = "finish" => t.done \in {0, 1, 2} /\ (Ended(t) <=> t.done = 2)
         /\ t.kind = "write" =>
              /\ t.done \in 0 .. Len(t.columns) + 1
              /\ Ended(t) <=> t.done = Len(t.columns) + 1
<1>1. t.done \in Nat /\ Len(t.columns) \in Nat
  BY DEF Tasks
<1>2. CASE t.kind # "write"
  <2>1. Len(Messages(t)) = IF t.kind = "none" THEN 0 ELSE IF t.kind = "start" THEN 1 ELSE 2
    BY <1>2, TaskFacts DEF Tasks
  <2> QED BY <1>1, <1>2, <2>1 DEF Ended
<1>3. CASE t.kind = "write"
  BY <1>1, <1>3, TaskFacts DEF Ended
<1> QED BY <1>2, <1>3

\* The tasks the sink makes.
LEMMA MadeTasks ==
  /\ NoTask \in Tasks /\ StartTask \in Tasks
  /\ NoTask.kind = "none" /\ StartTask.kind = "start"
  /\ NoTask.done = 0 /\ StartTask.done = 0 /\ NoTask.columns = << >> /\ StartTask.columns = << >>
  /\ \A ds, rs \in Blocks :
       /\ FinishTask(ds, rs) \in Tasks
       /\ FinishTask(ds, rs).kind = "finish" /\ FinishTask(ds, rs).done = 0
       /\ FinishTask(ds, rs).columns = << >> /\ FinishTask(ds, rs).footer = Footer(ds, rs)
  /\ \A c \in Chunks, columns \in Seq(Columns) :
       /\ WriteTask(c, columns) \in Tasks
       /\ WriteTask(c, columns).kind = "write" /\ WriteTask(c, columns).done = 0
       /\ WriteTask(c, columns).chunk = c /\ WriteTask(c, columns).columns = columns
<1>0. << >> \in Blocks /\ NoFooter \in Footers
  <2>1. << >> \in Blocks
    BY DEF Blocks
  <2> QED BY <2>1, CellFacts DEF NoFooter
<1>1. /\ NoTask \in Tasks /\ NoTask.kind = "none" /\ NoTask.done = 0 /\ NoTask.columns = << >>
      /\ NoTask = [kind |-> "none", chunk |-> NoChunk, columns |-> << >>, footer |-> NoFooter,
                   done |-> 0]
  BY <1>0 DEF NoTask, Tasks
<1>2. StartTask = [kind |-> "start", chunk |-> NoChunk, columns |-> << >>, footer |-> NoFooter,
                   done |-> 0]
  BY <1>1 DEF StartTask
<1>3. /\ StartTask \in Tasks /\ StartTask.kind = "start" /\ StartTask.done = 0
      /\ StartTask.columns = << >>
  BY <1>0, <1>2 DEF Tasks
<1>4. ASSUME NEW c \in Chunks, NEW columns \in Seq(Columns)
      PROVE  /\ WriteTask(c, columns) \in Tasks
             /\ WriteTask(c, columns).kind = "write" /\ WriteTask(c, columns).done = 0
             /\ WriteTask(c, columns).chunk = c /\ WriteTask(c, columns).columns = columns
  BY <1>0 DEF WriteTask, Tasks
<1>5. ASSUME NEW ds \in Blocks, NEW rs \in Blocks
      PROVE  /\ FinishTask(ds, rs) \in Tasks
             /\ FinishTask(ds, rs).kind = "finish" /\ FinishTask(ds, rs).done = 0
             /\ FinishTask(ds, rs).columns = << >> /\ FinishTask(ds, rs).footer = Footer(ds, rs)
  <2>1. Footer(ds, rs) \in Footers
    BY CellFacts
  <2> QED BY <2>1 DEF FinishTask, Tasks
<1> QED BY <1>1, <1>3, <1>4, <1>5

\* No task has nothing to write.
LEMMA NobodyEnded == Ended(NoTask) /\ NoTask.kind = "none"
BY MadeTasks, TaskFacts DEF Ended

\* A task that has written a message is the same task.
LEMMA OneMessageOn ==
  ASSUME NEW t \in Tasks, t.done <= Len(Messages(t)), ~Ended(t),
         NEW u, u = [t EXCEPT !.done = @ + 1]
  PROVE  /\ u \in Tasks /\ u.done <= Len(Messages(u))
         /\ u.kind = t.kind /\ u.chunk = t.chunk /\ u.columns = t.columns /\ u.footer = t.footer
         /\ u.done = t.done + 1
<1>1. /\ u \in Tasks /\ u.kind = t.kind /\ u.chunk = t.chunk /\ u.columns = t.columns
      /\ u.footer = t.footer /\ u.done = t.done + 1
  BY DEF Tasks
<1>2. Len(Messages(u)) = Len(Messages(t))
  <2>1. CASE t.kind = "write"
    BY <1>1, <2>1, TaskFacts
  <2>2. CASE t.kind # "write"
    BY <1>1, <2>2, TaskFacts DEF Tasks
  <2> QED BY <2>1, <2>2
<1>3. t.done \in Nat /\ Len(Messages(t)) \in Nat
  <2>1. t.done \in Nat /\ Len(t.columns) \in Nat
    BY DEF Tasks
  <2>2. CASE t.kind = "write"
    BY <2>1, <2>2, TaskFacts
  <2>3. CASE t.kind # "write"
    <3>1. Len(Messages(t)) = IF t.kind = "none" THEN 0 ELSE IF t.kind = "start" THEN 1 ELSE 2
      BY <2>3, TaskFacts DEF Tasks
    <3> QED BY <2>1, <3>1
  <2> QED BY <2>2, <2>3
<1>4. t.done # Len(Messages(t))
  BY DEF Ended
<1> QED BY <1>1, <1>2, <1>3, <1>4

\* What a task that has not ended writes next.
LEMMA Upcoming ==
  ASSUME TypeOK, TaskIsOfTheChunk, ~Ended(task), NEW packet, packet = Messages(task)[task.done + 1]
  PROVE  /\ packet \in Seq(Cells) /\ task.kind # "none"
         /\ task.kind = "start" =>
              task.done = 0 /\ packet = << Magic >> \o Message(Schema) /\ Len(packet) = HeaderSize
         /\ task.kind = "finish" =>
              \/ task.done = 0 /\ packet = << Cont >> /\ Len(packet) = 1
              \/ task.done = 1 /\ packet = FooterCells(task.footer) /\ Len(packet) = FooterSize
         /\ task.kind = "write" => Len(packet) = MessageSize
         /\ task.kind = "write" /\ task.done < Len(task.columns) =>
              \E i \in Columns : /\ i = task.columns[task.done + 1]
                                 /\ packet = Message(Dict(Fields[i], task.chunk.dicts[i]))
         /\ task.kind = "write" /\ task.done >= Len(task.columns) =>
              task.done = Len(task.columns) /\ packet = Message(Record(task.chunk.keys))
         /\ ~(task.kind = "finish" /\ task.done = 1) =>
              \A n \in 1 .. Len(packet) : packet[n].kind # "footer"
<1>1. /\ task \in Tasks /\ task.done <= Len(Messages(task)) /\ Len(task.columns) \in Nat
      /\ task.columns \in Seq(Columns) /\ task.footer \in Footers /\ task.done \in Nat
  BY DEF TypeOK, Tasks
<1>2. Magic \in Cells /\ Cont \in Cells /\ Schema \in Cells
  BY CellFacts
<1>3. CASE task.kind = "none"
  BY <1>1, <1>3, EndedFacts
<1>4. CASE task.kind = "start"
  <2>1. task.done = 0 /\ packet = << Magic >> \o Message(Schema)
    BY <1>1, <1>4, TaskFacts, EndedFacts
  <2>2. packet = << Magic, Cont, Schema >>
    BY <2>1 DEF Message
  <2>3. packet \in Seq(Cells) /\ Len(packet) = 3
    BY <1>2, <2>2
  <2>4. \A n \in 1 .. Len(packet) : packet[n].kind # "footer"
    BY <2>2, <2>3 DEF Magic, Cont, Schema
  <2> QED BY <1>4, <2>1, <2>3, <2>4 DEF HeaderSize, MessageSize
<1>5. CASE task.kind = "finish"
  <2>1. \/ task.done = 0 /\ packet = << Cont >>
        \/ task.done = 1 /\ packet = FooterCells(task.footer)
    BY <1>1, <1>5, TaskFacts, EndedFacts
  <2>2. CASE task.done = 0 /\ packet = << Cont >>
    <3>0. << Cont >> \in Seq(Cells)
      BY <1>2
    <3>1. packet \in Seq(Cells)
      BY <2>2, <3>0, Zenon
    <3>2. Len(packet) = 1
      BY <2>2
    <3>3. \A n \in 1 .. Len(packet) : packet[n].kind # "footer"
      BY <2>2, <3>2 DEF Cont
    <3> QED BY <1>5, <2>2, <3>1, <3>2, <3>3
  <2>3. CASE task.done = 1 /\ packet = FooterCells(task.footer)
    BY <1>1, <1>5, <2>3, FooterCellsFacts
  <2> QED BY <2>1, <2>2, <2>3
<1>6. ASSUME task.kind = "write" PROVE task.chunk \in Chunks
  BY <1>6 DEF TypeOK, TaskIsOfTheChunk
<1>7. ASSUME NEW x \in Cells, x.kind # "footer", packet = Message(x)
      PROVE  /\ packet \in Seq(Cells) /\ Len(packet) = MessageSize
             /\ \A n \in 1 .. Len(packet) : packet[n].kind # "footer"
  <2>1. packet = << Cont, x >>
    BY <1>7 DEF Message
  <2> QED BY <1>2, <1>7, <2>1 DEF MessageSize, Cont
<1>8. CASE task.kind = "write" /\ task.done < Len(task.columns)
  <2>0. task.done + 1 \in 1 .. Len(task.columns)
    BY <1>1, <1>8
  <2>1. PICK i \in Columns : i = task.columns[task.done + 1]
    BY <1>1, <2>0
  <2>2. packet = Message(Dict(Fields[i], task.chunk.dicts[i]))
    BY <1>1, <1>8, <2>0, <2>1, TaskFacts
  <2>3. Fields[i] \in Ids /\ task.chunk.dicts[i] \in Values
    BY <1>6, <1>8, <2>1, FieldsAssumption DEF Columns, Chunks
  <2>4. /\ Dict(Fields[i], task.chunk.dicts[i]) \in Cells
        /\ Dict(Fields[i], task.chunk.dicts[i]).kind # "footer"
    BY <2>3, CellFacts DEF Dict
  <2>5. /\ packet \in Seq(Cells) /\ Len(packet) = MessageSize
        /\ \A n \in 1 .. Len(packet) : packet[n].kind # "footer"
    BY <1>7, <2>2, <2>4
  <2>6. \E j \in Columns : /\ j = task.columns[task.done + 1]
                           /\ packet = Message(Dict(Fields[j], task.chunk.dicts[j]))
    BY <2>1, <2>2
  <2>7. ~(task.done >= Len(task.columns)) /\ task.kind \notin {"none", "start", "finish"}
    BY <1>1, <1>8
  <2> QED BY <2>5, <2>6, <2>7, Zenon
<1>9. CASE task.kind = "write" /\ task.done >= Len(task.columns)
  <2>1. task.done = Len(task.columns)
    BY <1>1, <1>9, EndedFacts
  <2>2. packet = Message(Record(task.chunk.keys))
    BY <1>1, <1>9, <2>1, TaskFacts
  <2>3. Record(task.chunk.keys) \in Cells /\ Record(task.chunk.keys).kind # "footer"
    BY <1>6, <1>9, CellFacts DEF Chunks, Record
  <2>4. /\ packet \in Seq(Cells) /\ Len(packet) = MessageSize
        /\ \A n \in 1 .. Len(packet) : packet[n].kind # "footer"
    BY <1>7, <2>2, <2>3
  <2> QED BY <1>9, <2>1, <2>2, <2>4
<1> QED BY <1>1, <1>3, <1>4, <1>5, <1>8, <1>9 DEF Tasks

\* The blocks a task leaves.
LEMMA BlocksOfTask ==
  ASSUME NEW t \in Tasks, offset \in Nat
  PROVE  /\ DictBlocksOf(t) \in Blocks /\ Len(DictBlocksOf(t)) = Len(t.columns)
         /\ \A n \in 1 .. Len(t.columns) : DictBlocksOf(t)[n] = offset + MessageSize * (n - 1)
         /\ t.columns = << >> => DictBlocksOf(t) = << >>
         /\ RecBlocksOf(t) \in Blocks /\ (t.kind # "write" => RecBlocksOf(t) = << >>)
<1>1. Len(t.columns) \in Nat
  BY DEF Tasks
<1>2. \A n \in 1 .. Len(t.columns) : offset + 2 * (n - 1) \in Nat
  BY <1>1
<1>3. DictBlocksOf(t) = [n \in 1 .. Len(t.columns) |-> offset + 2 * (n - 1)]
  BY DEF DictBlocksOf, MessageSize
<1>4. DictBlocksOf(t) \in Blocks /\ Len(DictBlocksOf(t)) = Len(t.columns)
  BY <1>1, <1>2, <1>3 DEF Blocks
<1>5. t.columns = << >> => DictBlocksOf(t) = << >>
  BY <1>3
<1>6. RecBlocksOf(t) \in Blocks
  <2>1. offset + 2 * Len(t.columns) \in Nat
    BY <1>1
  <2>2. << offset + 2 * Len(t.columns) >> \in Blocks /\ << >> \in Blocks
    BY <2>1 DEF Blocks
  <2> QED BY <2>2 DEF RecBlocksOf, MessageSize
<1> QED BY <1>3, <1>4, <1>5, <1>6 DEF RecBlocksOf, MessageSize
-----------------------------------------------------------------------------
(* The sink, action by action.                                              *)

\* A sink is made with the task that starts the file.
LEMMA SinkInit == Init => SinkInv
<1> SUFFICES ASSUME Init PROVE SinkInv
  OBVIOUS
<1>1. EmptyTracker \in Tracker
  BY DEF EmptyTracker, Tracker
<1>2. << >> \in Seq(Cells) /\ << >> \in Seq(Chunks) /\ << >> \in Blocks
  BY DEF Blocks
<1>3. /\ task \in Tasks /\ failed = NoTask /\ NoTask \in Tasks /\ task.kind = "start"
      /\ task.done = 0 /\ task.columns = << >> /\ task # NoTask
  BY MadeTasks DEF Init
<1>4. Len(Messages(task)) = 1
  BY <1>3, TaskFacts
<1>5. TypeOK
  <2>1. {task, failed} \subseteq Tasks /\ task.done <= Len(Messages(task))
    BY <1>3, <1>4
  <2>2. /\ file \in Seq(Cells) /\ accepted \in Seq(Chunks) /\ faults \in Nat
        /\ offset \in Nat /\ dictBlocks \in Blocks /\ recBlocks \in Blocks
    BY <1>2 DEF Init
  <2>3. /\ writer \in BOOLEAN /\ closing \in BOOLEAN /\ closed \in BOOLEAN /\ refused \in BOOLEAN
        /\ tracker \in Tracker /\ lost \subseteq Ids
    BY <1>1 DEF Init
  <2> QED BY <2>1, <2>2, <2>3 DEF TypeOK
<1>6. OneWriter /\ TaskIsOfTheChunk
  BY <1>3, MadeTasks DEF Init, OneWriter, TaskIsOfTheChunk
<1>7. OffsetIsOfTheTask
  BY <1>3 DEF Init, OffsetIsOfTheTask, Last
<1>8. FileIsOfTheTask
  <2>1. Len(file) = 0 /\ FileEnd(task) = 0
    BY <1>3 DEF Init, FileEnd, HeaderSize, MessageSize
  <2>2. ~Finished
    BY <1>3 DEF Finished
  <2> QED BY <2>1, <2>2 DEF FileIsOfTheTask
<1> QED BY <1>5, <1>6, <1>7, <1>8 DEF SinkInv

\* What is known of a task at work.
LEMMA AtWork ==
  ASSUME SinkInv, task # NoTask
  PROVE  /\ task \in Tasks /\ task.done <= Len(Messages(task))
         /\ task.kind \in {"start", "write", "finish"}
         /\ writer = FALSE /\ failed = NoTask /\ closed = FALSE /\ refused = FALSE /\ Last = task
         /\ Len(file) = FileEnd(task) /\ (Finished <=> task.kind = "finish" /\ Ended(task))
<1>1. /\ task \in Tasks /\ task.done <= Len(Messages(task))
      /\ task.kind \in {"start", "write", "finish"}
      /\ writer = FALSE /\ failed = NoTask /\ closed = FALSE /\ refused = FALSE
  BY DEF SinkInv, TypeOK, OneWriter, TaskIsOfTheChunk, Tasks
<1> QED BY <1>1 DEF SinkInv, FileIsOfTheTask, Finished, Last

\* What the parts of the invariant that are about types need of a step.
LEMMA StillTyped ==
  ASSUME TypeOK, UNCHANGED << closed, accepted, faults, refused, lost >>,
         file' \in Seq(Cells), writer' \in BOOLEAN, closing' \in BOOLEAN,
         task' \in Tasks, failed' \in Tasks, task'.done <= Len(Messages(task')),
         offset' \in Nat, dictBlocks' \in Blocks, recBlocks' \in Blocks, tracker' \in Tracker
  PROVE  TypeOK'
BY DEF TypeOK

\* The file a task writes ends a message further.
LEMMA EndMoves ==
  ASSUME offset \in Nat, NEW t \in Tasks, NEW u \in Tasks, u.kind = t.kind,
         u.done = t.done + 1, t.kind \in {"start", "write", "finish"}, NEW n \in Nat,
         t.kind = "start" => t.done = 0 /\ n = HeaderSize,
         t.kind = "finish" => (t.done = 0 /\ n = 1) \/ (t.done = 1 /\ n = FooterSize),
         t.kind = "write" => n = MessageSize
  PROVE  FileEnd(u) = FileEnd(t) + n
<1>1. t.done \in Nat /\ FooterSize \in Nat
  BY FooterSizeAssumption DEF Tasks
<1>2. CASE t.kind = "start"
  BY <1>1, <1>2 DEF FileEnd, HeaderSize, MessageSize
<1>3. CASE t.kind = "write"
  BY <1>1, <1>3 DEF FileEnd, MessageSize
<1>4. CASE t.kind = "finish"
  <2>1. FileEnd(t) = offset + (IF t.done = 2 THEN 1 + FooterSize ELSE t.done)
    BY <1>4 DEF FileEnd
  <2>2. FileEnd(u) = offset + (IF u.done = 2 THEN 1 + FooterSize ELSE u.done)
    BY <1>4 DEF FileEnd
  <2> QED BY <1>1, <1>4, <2>1, <2>2
<1> QED BY <1>2, <1>3, <1>4

\* A message is written.
LEMMA PollTaskStep ==
  ASSUME SinkInv, PollTask
  PROVE  SinkInv'
<1> DEFINE packet == Messages(task)[task.done + 1]
<1>1. /\ ~Ended(task) /\ file' = file \o packet /\ task' = [task EXCEPT !.done = @ + 1]
      /\ UNCHANGED << writer, offset, dictBlocks, recBlocks, tracker, closing, closed, accepted,
                      refused, lost, failed, faults >>
  BY DEF PollTask
<1>2. task # NoTask
  BY <1>1, NobodyEnded
<1>3. /\ task \in Tasks /\ task.done <= Len(Messages(task)) /\ writer = FALSE /\ failed = NoTask
      /\ task.kind \in {"start", "write", "finish"} /\ file \in Seq(Cells) /\ Last = task
      /\ Len(file) = FileEnd(task) /\ ~Finished
  BY <1>1, <1>2, AtWork DEF SinkInv, TypeOK
<1>4. /\ task' \in Tasks /\ task'.done <= Len(Messages(task')) /\ task'.done = task.done + 1
      /\ task'.kind = task.kind /\ task'.chunk = task.chunk /\ task'.columns = task.columns
      /\ task'.footer = task.footer
  BY <1>1, <1>3, OneMessageOn
<1>5. /\ packet \in Seq(Cells)
      /\ task.kind = "start" => task.done = 0 /\ Len(packet) = HeaderSize
      /\ task.kind = "finish" =>
           \/ task.done = 0 /\ Len(packet) = 1
           \/ task.done = 1 /\ packet = FooterCells(task.footer) /\ Len(packet) = FooterSize
      /\ task.kind = "write" => Len(packet) = MessageSize
      /\ ~(task.kind = "finish" /\ task.done = 1) =>
           \A n \in 1 .. Len(packet) : packet[n].kind # "footer"
  <2>1. TypeOK /\ TaskIsOfTheChunk /\ packet = Messages(task)[task.done + 1]
    BY DEF SinkInv
  <2> HIDE DEF packet
  <2> QED BY <1>1, <2>1, Upcoming
<1> HIDE DEF packet
<1>6. file' \in Seq(Cells) /\ Len(file') = Len(file) + Len(packet)
      /\ Len(file) \in Nat /\ Len(packet) \in Nat
  <2>1. packet \in Seq(Cells) /\ file \in Seq(Cells) /\ file' = file \o packet
    BY <1>1, <1>3, <1>5
  <2>2. file' \in Seq(Cells) /\ Len(file') = Len(file) + Len(packet)
    BY <2>1, Behind
  <2>3. Len(file) \in Nat /\ Len(packet) \in Nat
    BY <2>1
  <2> QED BY <2>2, <2>3
<1>7. TypeOK'
  BY <1>1, <1>3, <1>4, <1>6, StillTyped DEF SinkInv, TypeOK
<1>8. task' # NoTask
  BY <1>3, <1>4, MadeTasks
<1>9. OneWriter' /\ TaskIsOfTheChunk'
  BY <1>1, <1>2, <1>3, <1>4, <1>8 DEF SinkInv, OneWriter, TaskIsOfTheChunk
<1>10. OffsetIsOfTheTask'
  <2>1. Last' = task' /\ failed' = NoTask
    BY <1>1, <1>3 DEF Last
  <2> QED BY <1>1, <1>3, <1>4, <2>1 DEF SinkInv, OffsetIsOfTheTask
<1>11. FileIsOfTheTask'
  <2>1. Len(file') = FileEnd(task)'
    <3>1. offset \in Nat
      BY DEF SinkInv, TypeOK
    <3>2. FileEnd(task') = FileEnd(task) + Len(packet)
      <4>1. Len(packet) \in Nat
        BY <1>6
      <4> QED BY <1>3, <1>4, <1>5, <3>1, <4>1, EndMoves
    <3>3. FileEnd(task)' = FileEnd(task')
      BY <1>1 DEF FileEnd
    <3> QED BY <1>3, <1>6, <3>2, <3>3
  <2>2. \A n \in 1 .. Len(file) : file[n].kind # "footer"
    BY <1>3 DEF SinkInv, FileIsOfTheTask
  <2>3. CASE task.kind = "finish" /\ task.done = 1
    <3>1. task.footer \in Footers
      BY <1>3 DEF Tasks
    <3>2. HasFooter(file')
      <4>1. packet \in Seq(Cells) /\ packet = FooterCells(task.footer)
        BY <1>5, <2>3
      <4>2. file \in Seq(Cells) /\ file' = file \o packet
        BY <1>1, <1>3
      <4> QED BY <3>1, <4>1, <4>2, FooterBehind
    <3>3. Ended(task')
      BY <1>4, <2>3, EndedFacts
    <3>4. Finished'
      BY <1>1, <1>3, <1>4, <2>3, <3>3 DEF Finished, Ended
    <3> QED BY <2>1, <3>2, <3>4 DEF FileIsOfTheTask
  <2>4. CASE ~(task.kind = "finish" /\ task.done = 1)
    <3>1. \A n \in 1 .. Len(file') : file'[n].kind # "footer"
      BY <1>1, <1>3, <1>5, <2>2, <2>4, NoFooterBehind
    <3>2. task.kind = "finish" => ~Ended(task')
      BY <1>4, <1>5, <2>4, EndedFacts
    <3>3. ~Finished'
      BY <1>4, <1>8, <3>2 DEF Finished, Ended
    <3> QED BY <2>1, <3>1, <3>3 DEF FileIsOfTheTask
  <2> QED BY <2>3, <2>4
<1> QED BY <1>7, <1>9, <1>10, <1>11 DEF SinkInv

\* The task fails: nothing more is promised of the file.
LEMMA PollFailsStep ==
  ASSUME SinkInv, PollFails
  PROVE  SinkInv'
<1>1. /\ ~Ended(task) /\ task' = NoTask /\ failed' = task /\ faults' = faults + 1
      /\ closing' = FALSE
      /\ UNCHANGED << writer, offset, dictBlocks, recBlocks, tracker, closed, accepted, refused,
                      lost >>
  BY DEF PollFails
<1>2. PICK torn \in TornPrefixes(NextCells(task)) : file' = file \o torn
  BY DEF PollFails
<1>3. task # NoTask
  BY <1>1, NobodyEnded
<1>4. /\ task \in Tasks /\ task.done <= Len(Messages(task)) /\ writer = FALSE /\ failed = NoTask
      /\ task.kind \in {"start", "write", "finish"} /\ file \in Seq(Cells) /\ Last = task
  BY <1>3, AtWork DEF SinkInv, TypeOK
<1>5. NextCells(task) \in Seq(Cells)
  <2>1. CASE task.kind = "write"
    BY <2>1, CellFacts, MessageFacts DEF NextCells
  <2>2. CASE task.kind # "write"
    <3> DEFINE packet == Messages(task)[task.done + 1]
    <3>1. packet = Messages(task)[task.done + 1] /\ NextCells(task) = packet
      BY <2>2 DEF NextCells
    <3> HIDE DEF packet
    <3>2. packet \in Seq(Cells)
      BY <1>1, <3>1, Upcoming DEF SinkInv
    <3> QED BY <3>1, <3>2
  <2> QED BY <2>1, <2>2
<1>6. torn \in Seq(Cells)
  BY <1>5, TornFacts
<1>7. file' \in Seq(Cells)
  BY <1>2, <1>4, <1>6
<1>8. TypeOK'
  <2>1. {task', failed'} \subseteq Tasks /\ task'.done <= Len(Messages(task'))
    BY <1>1, <1>4, MadeTasks, TaskFacts
  <2>2. /\ writer' \in BOOLEAN /\ closing' \in BOOLEAN /\ closed' \in BOOLEAN
        /\ refused' \in BOOLEAN /\ lost' \subseteq Ids /\ tracker' \in Tracker
    BY <1>1 DEF SinkInv, TypeOK
  <2>3. /\ accepted' \in Seq(Chunks) /\ faults' \in Nat /\ offset' \in Nat
        /\ dictBlocks' \in Blocks /\ recBlocks' \in Blocks
    BY <1>1 DEF SinkInv, TypeOK
  <2> QED BY <1>7, <2>1, <2>2, <2>3 DEF TypeOK
<1>9. OneWriter' /\ TaskIsOfTheChunk'
  BY <1>1, <1>3, <1>4, MadeTasks DEF SinkInv, OneWriter, TaskIsOfTheChunk
<1>10. OffsetIsOfTheTask'
  <2>1. Last' = task /\ (Ended(failed)' <=> Ended(task))
    BY <1>1, <1>3 DEF Last, Ended, Messages
  <2> QED BY <1>1, <1>4, <2>1 DEF SinkInv, OffsetIsOfTheTask, Ended, Messages
<1>11. FileIsOfTheTask'
  BY <1>1, <1>3 DEF FileIsOfTheTask
<1> QED BY <1>8, <1>9, <1>10, <1>11 DEF SinkInv

\* What a completed task leaves, or what there is without a task.
LEMMA Completed ==
  ASSUME SinkInv, Ended(task)
  PROVE  /\ OffsetAfter(task) \in Nat /\ WriterAfter(task) \in BOOLEAN
         /\ DictBlocksAfter(task) \in Blocks /\ RecBlocksAfter(task) \in Blocks
         /\ WriterAfter(task) =>
              /\ failed = NoTask /\ refused = FALSE /\ closed = FALSE
              /\ OffsetAfter(task) # 0 /\ Len(file) = OffsetAfter(task)
              /\ \A n \in 1 .. Len(file) : file[n].kind # "footer"
         /\ task # NoTask /\ ~WriterAfter(task) =>
              /\ OffsetAfter(task) = 0 /\ HasFooter(file)
              /\ DictBlocksAfter(task) = << >> /\ RecBlocksAfter(task) = << >>
         /\ task = NoTask =>
              /\ WriterAfter(task) = writer /\ OffsetAfter(task) = offset
              /\ DictBlocksAfter(task) = dictBlocks /\ RecBlocksAfter(task) = recBlocks
<1>1. /\ task \in Tasks /\ task.done <= Len(Messages(task)) /\ offset \in Nat
      /\ dictBlocks \in Blocks /\ recBlocks \in Blocks /\ writer \in BOOLEAN
  BY DEF SinkInv, TypeOK
<1>2. Len(task.columns) \in Nat /\ task.done \in Nat
  BY <1>1 DEF Tasks
<1>3. OffsetAfter(task) \in Nat /\ WriterAfter(task) \in BOOLEAN
  <2>1. WriterAfter(task) \in BOOLEAN
    BY <1>1 DEF WriterAfter
  <2>2. task.kind \in {"none", "start", "write", "finish"}
    BY <1>1 DEF Tasks
  <2>3. offset + 2 * (Len(task.columns) + 1) \in Nat
    BY <1>1, <1>2
  <2>4. OffsetAfter(task) \in Nat
    BY <1>1, <2>2, <2>3 DEF OffsetAfter, HeaderSize, MessageSize
  <2> QED BY <2>1, <2>4
<1>4. DictBlocksAfter(task) \in Blocks /\ RecBlocksAfter(task) \in Blocks
  <2>1. DictBlocksOf(task) \in Blocks /\ RecBlocksOf(task) \in Blocks
    BY <1>1, BlocksOfTask
  <2>2. \A x, y \in Blocks : x \o y \in Blocks
    BY DEF Blocks
  <2> QED BY <1>1, <2>1, <2>2 DEF DictBlocksAfter, RecBlocksAfter
<1>5. ASSUME task.columns = << >>, task.kind # "write"
      PROVE  DictBlocksAfter(task) = dictBlocks /\ RecBlocksAfter(task) = recBlocks
  <2>1. DictBlocksOf(task) = << >> /\ RecBlocksOf(task) = << >>
    BY <1>1, <1>5, BlocksOfTask
  <2>2. \A x \in Blocks : x \o << >> = x
    BY DEF Blocks
  <2> QED BY <1>1, <2>1, <2>2 DEF DictBlocksAfter, RecBlocksAfter
<1>6. CASE task = NoTask
  <2>1. task.kind = "none" /\ task.columns = << >>
    BY <1>6, MadeTasks
  <2>2. WriterAfter(task) = writer /\ OffsetAfter(task) = offset
    BY <2>1 DEF WriterAfter, OffsetAfter
  <2>3. DictBlocksAfter(task) = dictBlocks /\ RecBlocksAfter(task) = recBlocks
    BY <1>5, <2>1
  <2>4. ASSUME writer
        PROVE  /\ failed = NoTask /\ refused = FALSE /\ closed = FALSE
               /\ offset # 0 /\ Len(file) = offset
               /\ \A n \in 1 .. Len(file) : file[n].kind # "footer"
    <3>1. failed = NoTask /\ refused = FALSE /\ closed = FALSE
      BY <2>4 DEF SinkInv, OneWriter, TypeOK
    <3>2. offset # 0
      BY <2>4 DEF SinkInv, OffsetIsOfTheTask
    <3>3. FileEnd(task) = offset /\ ~Finished
      BY <1>6, <2>1, <3>2 DEF FileEnd, Finished
    <3> QED BY <3>1, <3>2, <3>3 DEF SinkInv, FileIsOfTheTask
  <2> QED BY <1>3, <1>4, <1>6, <2>2, <2>3, <2>4
<1>7. CASE task # NoTask
  <2>1. /\ task.kind \in {"start", "write", "finish"}
        /\ writer = FALSE /\ failed = NoTask /\ closed = FALSE /\ refused = FALSE /\ Last = task
        /\ Len(file) = FileEnd(task) /\ (Finished <=> task.kind = "finish")
    BY <1>7, AtWork
  <2>2. CASE task.kind = "finish"
    <3>1. OffsetAfter(task) = 0 /\ ~WriterAfter(task)
      BY <2>2 DEF OffsetAfter, WriterAfter
    <3>2. HasFooter(file)
      BY <2>1, <2>2 DEF SinkInv, FileIsOfTheTask
    <3>3. task.columns = << >>
      BY <2>2 DEF SinkInv, TaskIsOfTheChunk
    <3>4. dictBlocks = << >> /\ recBlocks = << >>
      BY <2>1, <2>2 DEF SinkInv, OffsetIsOfTheTask
    <3>5. DictBlocksAfter(task) = << >> /\ RecBlocksAfter(task) = << >>
      BY <1>5, <2>2, <3>3, <3>4
    <3> QED BY <1>3, <1>4, <1>7, <3>1, <3>2, <3>5
  <2>3. CASE task.kind # "finish"
    <3>1. WriterAfter(task)
      BY <2>1, <2>3 DEF WriterAfter
    <3>2. \A n \in 1 .. Len(file) : file[n].kind # "footer"
      BY <2>1, <2>3 DEF SinkInv, FileIsOfTheTask
    <3>3. OffsetAfter(task) # 0 /\ FileEnd(task) = OffsetAfter(task)
      <4>1. CASE task.kind = "start"
        <5>1. task.done = 1
          BY <1>1, <4>1, EndedFacts
        <5> QED BY <4>1, <5>1 DEF OffsetAfter, FileEnd, HeaderSize, MessageSize
      <4>2. CASE task.kind = "write"
        <5>1. task.done = Len(task.columns) + 1
          BY <1>1, <4>2, EndedFacts
        <5> QED BY <1>1, <1>2, <4>2, <5>1 DEF OffsetAfter, FileEnd, MessageSize
      <4> QED BY <2>1, <2>3, <4>1, <4>2
    <3> QED BY <1>3, <1>4, <1>7, <2>1, <3>1, <3>2, <3>3
  <2> QED BY <2>2, <2>3
<1> QED BY <1>6, <1>7

\* The sink takes what a task left: what is promised of a sink without one.
LEMMA NoTaskLeft ==
  ASSUME TypeOK', task' = NoTask, failed' = NoTask, lost' # {} => refused',
         writer' => ~refused' /\ ~closed' /\ offset' # 0 /\ Len(file') = offset'
                    /\ \A n \in 1 .. Len(file') : file'[n].kind # "footer",
         ~writer' => offset' = 0 /\ dictBlocks' = << >> /\ recBlocks' = << >> /\ HasFooter(file')
  PROVE  SinkInv'
<1>1. NoTask.kind = "none"
  BY MadeTasks
<1>2. OneWriter' /\ TaskIsOfTheChunk'
  <2>1. OneWriter'
    BY <1>1 DEF OneWriter, TypeOK
  <2>2. NoTask.columns = << >>
    BY MadeTasks
  <2>3. TaskIsOfTheChunk'
    BY <1>1, <2>2 DEF TaskIsOfTheChunk
  <2> QED BY <2>1, <2>3
<1>3. OffsetIsOfTheTask'
  <2>1. Last' = NoTask
    BY DEF Last
  <2> QED BY <1>1, <2>1 DEF OffsetIsOfTheTask
<1>4. FileIsOfTheTask'
  <2>1. FileEnd(task)' = offset' /\ (Finished' <=> offset' = 0)
    BY <1>1 DEF FileEnd, Finished
  <2> QED BY <2>1 DEF FileIsOfTheTask, TypeOK
<1> QED BY <1>2, <1>3, <1>4 DEF SinkInv

\* The output of a completed task becomes the sink's.
LEMMA PollReadyStep ==
  ASSUME SinkInv, PollReady
  PROVE  SinkInv'
<1>1. /\ task # NoTask /\ Ended(task) /\ task' = NoTask
      /\ writer' = WriterAfter(task) /\ offset' = OffsetAfter(task)
      /\ dictBlocks' = DictBlocksAfter(task) /\ recBlocks' = RecBlocksAfter(task)
      /\ UNCHANGED << file, tracker, closing, closed, accepted, refused, lost, failed, faults >>
  BY DEF PollReady
<1>2. failed = NoTask
  BY <1>1, AtWork
<1>3. TypeOK'
  <2>1. NoTask \in Tasks /\ NoTask.done <= Len(Messages(NoTask))
    BY MadeTasks, TaskFacts
  <2> QED BY <1>1, <2>1, Completed, StillTyped DEF SinkInv, TypeOK
<1>4. lost' # {} => refused'
  BY <1>1 DEF SinkInv, OneWriter
<1> QED BY <1>1, <1>2, <1>3, <1>4, Completed, NoTaskLeft

\* start_send takes the writer out of the sink and makes the task of the chunk.
LEMMA StartSendStep ==
  ASSUME SinkInv, NEW c \in Chunks, StartSend(c)
  PROVE  SinkInv'
<1> DEFINE columns == Ascending(Emitted(tracker, c.dicts))
<1>1. /\ task = NoTask /\ writer /\ writer' = FALSE /\ tracker' = Tracked(tracker, c.dicts, TRUE)
      /\ task' = WriteTask(c, columns) /\ accepted' = Append(accepted, c)
      /\ UNCHANGED << file, offset, dictBlocks, recBlocks, closing, closed, refused, lost, failed,
                      faults >>
  BY DEF StartSend
<1>2. columns \in Seq(Columns) /\ \A m, n \in 1 .. Len(columns) : m < n => columns[m] < columns[n]
  <2> DEFINE S == Emitted(tracker, c.dicts)
  <2>1. S \subseteq Columns
    BY DEF Emitted
  <2> HIDE DEF S
  <2>2. Ascending(S) \in Seq(S)
        /\ \A m, n \in 1 .. Len(Ascending(S)) : m < n => Ascending(S)[m] < Ascending(S)[n]
    BY <2>1, AscendingOrder
  <2>3. Ascending(S) \in Seq(Columns)
    BY <2>1, <2>2
  <2> QED BY <2>2, <2>3 DEF S
<1> HIDE DEF columns
<1>3. /\ task' \in Tasks /\ task'.kind = "write" /\ task'.done = 0 /\ task'.chunk = c
      /\ task'.columns = columns
  BY <1>1, <1>2, MadeTasks
<1>4. task' # NoTask
  BY <1>3, MadeTasks
<1>5. /\ failed = NoTask /\ refused = FALSE /\ closed = FALSE /\ offset # 0 /\ Len(file) = offset
      /\ \A n \in 1 .. Len(file) : file[n].kind # "footer"
  BY <1>1, NobodyEnded, Completed
<1>6. accepted' # << >> /\ accepted'[Len(accepted')] = c /\ accepted' \in Seq(Chunks)
  BY <1>1 DEF SinkInv, TypeOK
<1>7. TypeOK'
  <2>1. {task', failed'} \subseteq Tasks
    BY <1>1, <1>3 DEF SinkInv, TypeOK
  <2>2. Len(Messages(task')) = Len(columns) + 1 /\ Len(columns) \in Nat
    BY <1>2, <1>3, TaskFacts
  <2>3. tracker' \in Tracker
    BY <1>1, TrackedType DEF SinkInv, TypeOK
  <2>4. /\ writer' \in BOOLEAN /\ closing' \in BOOLEAN /\ closed' \in BOOLEAN
        /\ refused' \in BOOLEAN /\ lost' \subseteq Ids /\ file' \in Seq(Cells) /\ faults' \in Nat
        /\ offset' \in Nat
        /\ dictBlocks' \in Blocks /\ recBlocks' \in Blocks
    BY <1>1 DEF SinkInv, TypeOK
  <2>5. task'.done <= Len(Messages(task'))
    BY <1>3, <2>2
  <2> QED BY <1>6, <2>1, <2>3, <2>4, <2>5 DEF TypeOK
<1>8. OneWriter'
  BY <1>1, <1>4, <1>5 DEF SinkInv, OneWriter
<1>9. TaskIsOfTheChunk'
  <2>1. failed' = NoTask /\ NoTask.kind = "none" /\ NoTask.columns = << >>
    BY <1>1, <1>5, MadeTasks
  <2>2. /\ \A m, n \in 1 .. Len(task'.columns) : m < n => task'.columns[m] < task'.columns[n]
        /\ accepted' # << >> /\ task'.chunk = accepted'[Len(accepted')]
    BY <1>2, <1>3, <1>6
  <2>3. \A t \in {task', failed'} : t = task' \/ t = NoTask
    BY <2>1
  <2> QED BY <1>3, <2>1, <2>2, <2>3 DEF TaskIsOfTheChunk
<1>10. OffsetIsOfTheTask'
  <2>1. Last' = task' /\ failed' = NoTask
    BY <1>1, <1>5 DEF Last
  <2> QED BY <1>1, <1>3, <1>5, <2>1 DEF OffsetIsOfTheTask
<1>11. FileIsOfTheTask'
  <2>1. offset \in Nat
    BY DEF SinkInv, TypeOK
  <2>2. FileEnd(task)' = offset /\ ~Finished'
    BY <1>1, <1>3, <1>4, <2>1 DEF FileEnd, Finished, MessageSize
  <2> QED BY <1>1, <1>5, <2>2 DEF FileIsOfTheTask
<1> QED BY <1>7, <1>8, <1>9, <1>10, <1>11 DEF SinkInv

\* Whatever an encode_chunk that fails has recorded, and lost.
LEMMA RefusedRecords ==
  ASSUME tracker \in Tracker, NEW c \in Chunks, NEW n \in Refusals(tracker, c.dicts, TRUE, Stops)
  PROVE  Recorded(tracker, c.dicts, 1 .. n) \in Tracker /\ Left(tracker, c.dicts, n) \subseteq Ids
<1>1. n \in 0 .. Len(Fields)
  BY DEF Refusals
<1>2. 1 .. n \subseteq Columns
  BY <1>1, FieldsAssumption DEF Columns
<1>3. Left(tracker, c.dicts, n) \subseteq Ids
  BY FieldsAssumption DEF Left, Emitted, Columns
<1> QED BY <1>2, <1>3, RecordedType

\* A chunk that is refused costs the sink its writer.
LEMMA StartSendRefusedStep ==
  ASSUME SinkInv, NEW c \in Chunks, StartSendRefused(c)
  PROVE  SinkInv'
<1>1. /\ task = NoTask /\ writer /\ writer' = FALSE /\ refused' = TRUE
      /\ UNCHANGED << file, task, offset, dictBlocks, recBlocks, closing, closed, accepted,
                      failed, faults >>
  BY DEF StartSendRefused
<1>2. /\ failed = NoTask /\ refused = FALSE /\ closed = FALSE /\ offset # 0 /\ Len(file) = offset
      /\ \A n \in 1 .. Len(file) : file[n].kind # "footer"
  BY <1>1, NobodyEnded, Completed
<1>3. NoTask.kind = "none"
  BY MadeTasks
<1>4. TypeOK'
  <2>1. tracker' \in Tracker /\ lost' \subseteq Ids
    BY RefusedRecords DEF StartSendRefused, SinkInv, TypeOK
  <2>2. task'.done <= Len(Messages(task'))
    BY <1>1, MadeTasks DEF SinkInv, TypeOK, Messages
  <2> QED BY <1>1, <2>1, <2>2 DEF SinkInv, TypeOK
<1>5. OneWriter' /\ TaskIsOfTheChunk'
  BY <1>1, <1>2, <1>3 DEF SinkInv, OneWriter, TaskIsOfTheChunk
<1>6. OffsetIsOfTheTask'
  <2>1. Last' = NoTask
    BY <1>1, <1>2 DEF Last
  <2> QED BY <1>1, <1>2, <1>3, <2>1 DEF OffsetIsOfTheTask
<1>7. FileIsOfTheTask'
  <2>1. FileEnd(task)' = offset /\ ~Finished'
    BY <1>1, <1>2, <1>3 DEF FileEnd, Finished
  <2> QED BY <1>1, <1>2, <2>1 DEF FileIsOfTheTask
<1> QED BY <1>4, <1>5, <1>6, <1>7 DEF SinkInv

\* A close that is awaited, or given up, changes nothing else.
LEMMA SameFile ==
  ASSUME SinkInv, closing' \in BOOLEAN, closed' \in BOOLEAN, closed' => ~writer /\ task = NoTask,
         UNCHANGED << file, writer, task, offset, dictBlocks, recBlocks, tracker, accepted,
                      refused, lost, failed, faults >>
  PROVE  SinkInv'
<1>1. TypeOK'
  BY DEF SinkInv, TypeOK, Messages
<1>2. OneWriter' /\ TaskIsOfTheChunk'
  BY DEF SinkInv, OneWriter, TaskIsOfTheChunk
<1>3. OffsetIsOfTheTask'
  BY DEF SinkInv, OffsetIsOfTheTask, Last, Ended, Messages
<1>4. FileIsOfTheTask'
  BY DEF SinkInv, FileIsOfTheTask, FileEnd, Finished, Ended, Messages
<1> QED BY <1>1, <1>2, <1>3, <1>4 DEF SinkInv

\* poll_close makes the finish task, or finds no writer to finish.
LEMMA PollCloseStep ==
  ASSUME SinkInv, PollClose
  PROVE  SinkInv'
<1>1. /\ Ended(task) /\ writer' = FALSE /\ offset' = OffsetAfter(task)
      /\ UNCHANGED << file, tracker, accepted, refused, lost, failed, faults >>
  BY DEF PollClose
<1>2. CASE WriterAfter(task)
  <2>1. /\ task' = FinishTask(DictBlocksAfter(task), RecBlocksAfter(task))
        /\ dictBlocks' = << >> /\ recBlocks' = << >> /\ UNCHANGED << closing, closed >>
    BY <1>2 DEF PollClose
  <2>2. /\ failed = NoTask /\ refused = FALSE /\ closed = FALSE
        /\ OffsetAfter(task) \in Nat \ {0} /\ Len(file) = OffsetAfter(task)
        /\ \A n \in 1 .. Len(file) : file[n].kind # "footer"
        /\ DictBlocksAfter(task) \in Blocks /\ RecBlocksAfter(task) \in Blocks
    BY <1>1, <1>2, Completed
  <2>3. /\ task' \in Tasks /\ task'.kind = "finish" /\ task'.done = 0 /\ task'.columns = << >>
    BY <2>1, <2>2, MadeTasks
  <2>4. task' # NoTask
    BY <2>3, MadeTasks
  <2>5. Len(Messages(task')) = 2 /\ ~Ended(task')
    BY <2>3, TaskFacts DEF Ended
  <2>6. TypeOK'
    <3>1. << >> \in Blocks
      BY DEF Blocks
    <3>2. task'.done <= Len(Messages(task'))
      BY <2>3, <2>5
    <3> QED BY <1>1, <2>1, <2>2, <2>3, <3>1, <3>2 DEF SinkInv, TypeOK
  <2>7. OneWriter'
    BY <1>1, <2>1, <2>2, <2>4 DEF SinkInv, OneWriter
  <2>8. TaskIsOfTheChunk'
    <3>1. failed' = NoTask /\ NoTask.kind = "none" /\ NoTask.columns = << >>
      BY <1>1, <2>2, MadeTasks
    <3> QED BY <2>3, <3>1 DEF TaskIsOfTheChunk
  <2>9. OffsetIsOfTheTask'
    <3>1. Last' = task' /\ failed' = NoTask
      BY <1>1, <2>2 DEF Last
    <3> QED BY <1>1, <2>1, <2>2, <2>3, <3>1 DEF OffsetIsOfTheTask
  <2>10. FileIsOfTheTask'
    <3>1. FileEnd(task)' = OffsetAfter(task)
      BY <1>1, <2>2, <2>3 DEF FileEnd
    <3>2. ~Finished'
      BY <2>3, <2>5 DEF Finished, Ended
    <3> QED BY <1>1, <2>2, <3>1, <3>2 DEF FileIsOfTheTask
  <2> QED BY <2>6, <2>7, <2>8, <2>9, <2>10 DEF SinkInv
<1>3. CASE ~WriterAfter(task)
  <2>1. /\ task' = NoTask /\ closing' = FALSE /\ closed' = TRUE
        /\ dictBlocks' = DictBlocksAfter(task) /\ recBlocks' = RecBlocksAfter(task)
    BY <1>3 DEF PollClose
  <2>2. CASE task = NoTask
    <3>1. ~writer /\ UNCHANGED << writer, task, offset, dictBlocks, recBlocks >>
      BY <1>1, <1>3, <2>1, <2>2, Completed DEF SinkInv, TypeOK
    <3> QED BY <1>1, <2>1, <2>2, <3>1, SameFile
  <2>3. CASE task # NoTask
    <3>1. failed = NoTask
      BY <2>3, AtWork
    <3>2. TypeOK'
      <4>1. NoTask \in Tasks /\ NoTask.done <= Len(Messages(NoTask))
        BY MadeTasks, TaskFacts
      <4> QED BY <1>1, <2>1, <4>1, Completed DEF SinkInv, TypeOK
    <3>3. lost' # {} => refused'
      BY <1>1 DEF SinkInv, OneWriter
    <3> QED BY <1>1, <1>3, <2>1, <2>3, <3>1, <3>2, <3>3, Completed, NoTaskLeft
  <2> QED BY <2>2, <2>3
<1> QED BY <1>2, <1>3
-----------------------------------------------------------------------------
(* What always holds of a sink.                                             *)

LEMMA SinkStep == SinkInv /\ [Next]_vars => SinkInv'
<1> SUFFICES ASSUME SinkInv, [Next]_vars PROVE SinkInv'
  OBVIOUS
<1>1. CASE PollTask
  BY <1>1, PollTaskStep
<1>2. CASE PollFails
  BY <1>2, PollFailsStep
<1>3. CASE PollReady
  BY <1>3, PollReadyStep
<1>4. ASSUME NEW c \in Chunks, StartSend(c) \/ StartSendRefused(c) PROVE SinkInv'
  BY <1>4, StartSendStep, StartSendRefusedStep
<1>5. CASE Close
  <2>1. /\ ~closed /\ closing' = ~closing
        /\ UNCHANGED << file, writer, task, offset, dictBlocks, recBlocks, tracker, closed,
                        accepted, refused, lost, failed, faults >>
    BY <1>5 DEF Close
  <2>2. closing' \in BOOLEAN /\ closed' \in BOOLEAN
    BY <2>1 DEF SinkInv, TypeOK
  <2> QED BY <2>1, <2>2, SameFile
<1>6. CASE PollClose
  BY <1>6, PollCloseStep
<1>7. CASE UNCHANGED vars
  BY <1>7, SameFile DEF vars, SinkInv, OneWriter, TypeOK
<1> QED BY <1>1, <1>2, <1>3, <1>4, <1>5, <1>6, <1>7 DEF Next

\* SinkInv: the writer is in the sink, in the one task at work or lost; a task
\* carries the last accepted chunk; the file ends where the task and the sink's
\* offset say, and has a footer exactly when the finish task has completed.
THEOREM SinkIsSafe == Spec => []SinkInv
<1>1. Init => SinkInv
  BY SinkInit
<1>2. SinkInv /\ [Next]_vars => SinkInv'
  BY SinkStep
<1> QED BY <1>1, <1>2, PTL DEF Spec
-----------------------------------------------------------------------------
(* The FileWriter a sink shows.                                             *)

\* The sink is about to start the file, is between two calls, or is done.
Starting == failed = NoTask /\ task.kind = "start" /\ ~Ended(task)
Resting ==
  failed = NoTask /\ ~Finished /\ (Ended(task) \/ (task.kind = "finish" /\ task.done = 0))

Idle == WriterCall = "idle" /\ WriterChunk = NoChunk /\ WriterPending = {} /\ WriterFooter = NoFooter

ShowsNew ==
  /\ WriterState = "None" /\ WriterOffset = 0 /\ WriterDicts = << >> /\ WriterRecs = << >>
  /\ Idle /\ WriterAccepted = accepted /\ WriterCommitted = << >>

ShowsResting ==
  /\ WriterState = "Started" /\ Idle /\ WriterAccepted = accepted /\ WriterCommitted = << >>
  /\ WriterOffset = IF task.kind = "finish" THEN offset ELSE OffsetAfter(task)
  /\ WriterDicts =
       IF task.kind = "finish" THEN task.footer.dictionaries ELSE DictBlocksAfter(task)
  /\ WriterRecs = IF task.kind = "finish" THEN task.footer.records ELSE RecBlocksAfter(task)

ShowsWriting ==
  /\ WriterState = "Started" /\ WriterCall = "write" /\ WriterChunk = task.chunk
  /\ WriterPending = {task.columns[n] : n \in task.done + 1 .. Len(task.columns)}
  /\ WriterFooter = NoFooter
  /\ WriterOffset = offset + MessageSize * task.done
  /\ WriterDicts = dictBlocks \o SubSeq(DictBlocksOf(task), 1, task.done)
  /\ WriterRecs = recBlocks
  /\ WriterAccepted = SubSeq(accepted, 1, Len(accepted) - 1) /\ WriterCommitted = << >>

ShowsTaken ==
  /\ WriterState = "Started" /\ WriterCall = "finish" /\ WriterChunk = NoChunk
  /\ WriterPending = {} /\ WriterFooter = task.footer
  /\ WriterOffset = offset /\ WriterDicts = << >> /\ WriterRecs = << >>
  /\ WriterAccepted = accepted /\ WriterCommitted = << >>

ShowsFinished ==
  /\ WriterState = "Finished" /\ Idle
  /\ WriterOffset = Len(file) - FooterSize - 1 /\ WriterDicts = << >> /\ WriterRecs = << >>
  /\ WriterAccepted = accepted /\ WriterCommitted = accepted

ShowsFailed ==
  /\ WriterState = (IF failed.kind = "start" THEN "None" ELSE "Started") /\ Idle
  /\ WriterOffset = (IF failed.kind = "start" THEN 0
                     ELSE IF failed.kind = "write" THEN offset + MessageSize * failed.done
                     ELSE offset)
  /\ WriterDicts = (IF failed.kind = "finish" /\ failed.done = 0 THEN failed.footer.dictionaries
                    ELSE IF failed.kind = "write"
                      THEN dictBlocks \o SubSeq(DictBlocksOf(failed), 1, failed.done)
                    ELSE dictBlocks)
  /\ WriterRecs = (IF failed.kind = "finish" /\ failed.done = 0 THEN failed.footer.records
                   ELSE recBlocks)
  /\ WriterAccepted = (IF failed.kind = "write" THEN SubSeq(accepted, 1, Len(accepted) - 1)
                       ELSE accepted)
  /\ WriterCommitted = IF HasFooter(file) THEN accepted ELSE << >>

\* The blocks a task that is not of a chunk adds to the sink's.
LEMMA NoBlocks ==
  ASSUME TypeOK, TaskIsOfTheChunk, NEW t \in {task, failed}, t.kind # "write"
  PROVE  dictBlocks \o DictBlocksOf(t) = dictBlocks /\ recBlocks \o RecBlocksOf(t) = recBlocks
<1>1. t \in Tasks /\ t.columns = << >> /\ offset \in Nat
  BY DEF TypeOK, TaskIsOfTheChunk
<1>2. DictBlocksOf(t) = << >> /\ RecBlocksOf(t) = << >>
  BY <1>1, BlocksOfTask
<1>3. dictBlocks \in Seq(Nat) /\ recBlocks \in Seq(Nat)
  BY DEF TypeOK, Blocks
<1> QED BY <1>2, <1>3

\* Until the footer is written there is none.
LEMMA NothingCommitted ==
  ASSUME SinkInv, failed = NoTask
  PROVE  /\ ~Finished => WriterCommitted = << >>
         /\ Finished => WriterCommitted = accepted
<1>1. ASSUME ~Finished PROVE ~HasFooter(file)
  <2>1. file \in Seq(Cells) /\ \A n \in 1 .. Len(file) : file[n].kind # "footer"
    BY <1>1 DEF SinkInv, TypeOK, FileIsOfTheTask
  <2> QED BY <2>1, NoFooterCell
<1>2. ASSUME Finished PROVE HasFooter(file)
  BY <1>2 DEF SinkInv, FileIsOfTheTask
<1> QED BY <1>1, <1>2 DEF WriterCommitted

LEMMA NewShown ==
  ASSUME SinkInv, Starting
  PROVE  ShowsNew
<1>1. failed = NoTask /\ task.kind = "start" /\ ~Ended(task) /\ Last = task /\ ~Finished
  BY NobodyEnded DEF Starting, Last, Finished
<1>2. ~Writing /\ ~Taken /\ ~NotTaken /\ ~WriteCut
  BY <1>1 DEF Writing, Taken, NotTaken, WriteCut
<1>3. WriterState = "None"
  BY <1>1 DEF WriterState
<1>4. WriterOffset = 0
  BY <1>3 DEF WriterOffset
<1>5. offset = 0 /\ dictBlocks = << >> /\ recBlocks = << >>
  BY <1>1 DEF SinkInv, OffsetIsOfTheTask
<1>6. WriterDicts = << >> /\ WriterRecs = << >>
  BY <1>1, <1>2, <1>5, NoBlocks DEF WriterDicts, WriterRecs, SinkInv
<1>7. Idle
  BY <1>2 DEF Idle, WriterCall, WriterChunk, WriterPending, WriterFooter
<1>8. WriterAccepted = accepted /\ WriterCommitted = << >>
  BY <1>1, <1>2, NothingCommitted DEF WriterAccepted
<1> QED BY <1>3, <1>4, <1>6, <1>7, <1>8 DEF ShowsNew

LEMMA RestingShown ==
  ASSUME SinkInv, Resting
  PROVE  ShowsResting
<1>1. /\ failed = NoTask /\ Last = task /\ ~Finished
      /\ task \in Tasks /\ task.done <= Len(Messages(task)) /\ offset \in Nat
  BY DEF Resting, Last, SinkInv, TypeOK
<1>2. \/ Ended(task) /\ task.kind # "finish"
      \/ task.kind = "finish" /\ task.done = 0 /\ ~Ended(task)
  <2>1. task.kind = "finish" => ~Ended(task)
    BY <1>1 DEF Finished
  <2> QED BY <2>1 DEF Resting
<1>3. ~Writing /\ ~Taken /\ ~WriteCut /\ (NotTaken <=> task.kind = "finish")
  BY <1>1, <1>2 DEF Writing, Taken, NotTaken, WriteCut
<1>4. WriterState = "Started"
  BY <1>1, <1>2 DEF WriterState
<1>5. Idle
  BY <1>3 DEF Idle, WriterCall, WriterChunk, WriterPending, WriterFooter
<1>6. WriterAccepted = accepted /\ WriterCommitted = << >>
  BY <1>1, <1>3, NothingCommitted DEF WriterAccepted
<1>7. WriterOffset = IF task.kind = "finish" THEN offset ELSE OffsetAfter(task)
  <2>1. CASE task.kind = "finish" \/ task.kind = "none"
    BY <1>1, <1>4, <2>1 DEF WriterOffset, OffsetAfter
  <2>2. CASE task.kind = "start"
    BY <1>1, <1>4, <2>2 DEF WriterOffset, OffsetAfter
  <2>3. CASE task.kind = "write"
    <3>1. task.done = Len(task.columns) + 1
      BY <1>1, <1>2, <2>3, EndedFacts
    <3> QED BY <1>1, <1>4, <2>3, <3>1 DEF WriterOffset, OffsetAfter
  <2> QED BY <1>1, <2>1, <2>2, <2>3 DEF Tasks
<1>8. WriterDicts = IF task.kind = "finish" THEN task.footer.dictionaries ELSE DictBlocksAfter(task)
  BY <1>1, <1>3 DEF WriterDicts, DictBlocksAfter
<1>9. WriterRecs = IF task.kind = "finish" THEN task.footer.records ELSE RecBlocksAfter(task)
  BY <1>1, <1>3 DEF WriterRecs, RecBlocksAfter
<1> QED BY <1>4, <1>5, <1>6, <1>7, <1>8, <1>9 DEF ShowsResting

LEMMA WritingShown ==
  ASSUME SinkInv, Writing
  PROVE  ShowsWriting
<1>1. failed = NoTask /\ task.kind = "write" /\ ~Ended(task) /\ Last = task /\ ~Finished
  BY NobodyEnded DEF Writing, Last, Finished
<1>2. WriteCut /\ ~NotTaken /\ ~Taken
  BY <1>1 DEF WriteCut, NotTaken, Taken
<1>3. WriterState = "Started" /\ WriterOffset = offset + MessageSize * task.done
  <2>1. WriterState = "Started"
    BY <1>1 DEF WriterState
  <2> QED BY <1>1, <2>1 DEF WriterOffset
<1>4. WriterDicts = dictBlocks \o SubSeq(DictBlocksOf(task), 1, task.done)
  BY <1>1, <1>2 DEF WriterDicts
<1>5. WriterRecs = recBlocks
  <2>1. recBlocks \o << >> = recBlocks
    BY DEF SinkInv, TypeOK, Blocks
  <2> QED BY <1>2, <2>1 DEF WriterRecs
<1>6. /\ WriterCall = "write" /\ WriterChunk = task.chunk /\ WriterFooter = NoFooter
      /\ WriterPending = {task.columns[n] : n \in task.done + 1 .. Len(task.columns)}
  BY <1>2 DEF WriterCall, WriterChunk, WriterPending, WriterFooter
<1>7. WriterAccepted = SubSeq(accepted, 1, Len(accepted) - 1) /\ WriterCommitted = << >>
  BY <1>1, <1>2, NothingCommitted DEF WriterAccepted
<1> QED BY <1>3, <1>4, <1>5, <1>6, <1>7 DEF ShowsWriting

LEMMA TakenShown ==
  ASSUME SinkInv, Taken
  PROVE  ShowsTaken
<1>1. failed = NoTask /\ task.kind = "finish" /\ task.done = 1 /\ Last = task
  BY DEF Taken, Last
<1>2. ~Ended(task) /\ ~Finished
  <2>1. task \in Tasks /\ task.done <= Len(Messages(task))
    BY DEF SinkInv, TypeOK
  <2> QED BY <1>1, <2>1, EndedFacts DEF Finished
<1>3. ~WriteCut /\ ~NotTaken /\ ~Writing
  BY <1>1 DEF WriteCut, NotTaken, Writing
<1>4. WriterState = "Started" /\ WriterOffset = offset
  <2>1. WriterState = "Started"
    BY <1>1, <1>2 DEF WriterState
  <2> QED BY <1>1, <2>1 DEF WriterOffset
<1>5. dictBlocks = << >> /\ recBlocks = << >>
  BY <1>1 DEF SinkInv, OffsetIsOfTheTask
<1>6. WriterDicts = << >> /\ WriterRecs = << >>
  BY <1>1, <1>3, <1>5, NoBlocks DEF WriterDicts, WriterRecs, SinkInv
<1>7. /\ WriterCall = "finish" /\ WriterChunk = NoChunk /\ WriterFooter = task.footer
      /\ WriterPending = {}
  BY <1>3 DEF WriterCall, WriterChunk, WriterPending, WriterFooter
<1>8. WriterAccepted = accepted /\ WriterCommitted = << >>
  BY <1>1, <1>2, <1>3, NothingCommitted DEF WriterAccepted
<1> QED BY <1>4, <1>6, <1>7, <1>8 DEF ShowsTaken

LEMMA FinishedShown ==
  ASSUME SinkInv, Finished
  PROVE  ShowsFinished
<1>1. failed = NoTask /\ Last = task
  BY DEF Finished, Last
<1>2. task.kind \in {"finish", "none"} /\ Ended(task)
  BY NobodyEnded DEF Finished
<1>3. ~Taken /\ ~NotTaken /\ ~Writing /\ ~WriteCut
  <2>1. task \in Tasks /\ task.done <= Len(Messages(task))
    BY DEF SinkInv, TypeOK
  <2>2. task.kind = "finish" => task.done = 2
    BY <1>2, <2>1, EndedFacts
  <2> QED BY <1>1, <1>2, <2>2 DEF Taken, NotTaken, Writing, WriteCut
<1>4. WriterState = "Finished" /\ WriterOffset = Len(file) - FooterSize - 1
  <2>1. WriterState = "Finished"
    BY <1>1, <1>2 DEF WriterState
  <2> QED BY <2>1 DEF WriterOffset
<1>5. dictBlocks = << >> /\ recBlocks = << >>
  BY <1>1 DEF SinkInv, OffsetIsOfTheTask, Finished
<1>6. WriterDicts = << >> /\ WriterRecs = << >>
  BY <1>1, <1>2, <1>3, <1>5, NoBlocks DEF WriterDicts, WriterRecs, SinkInv
<1>7. Idle
  BY <1>3 DEF Idle, WriterCall, WriterChunk, WriterPending, WriterFooter
<1>8. WriterAccepted = accepted /\ WriterCommitted = accepted
  BY <1>1, <1>3, NothingCommitted DEF WriterAccepted
<1> QED BY <1>4, <1>6, <1>7, <1>8 DEF ShowsFinished

LEMMA FailedShown ==
  ASSUME SinkInv, failed # NoTask
  PROVE  ShowsFailed
<1>1. Last = failed /\ ~Ended(failed) /\ failed \in Tasks
  BY DEF Last, SinkInv, OffsetIsOfTheTask, TypeOK
<1>2. failed.kind \in {"start", "write", "finish"}
  BY <1>1 DEF Tasks, SinkInv, TaskIsOfTheChunk
<1>3. /\ ~Writing /\ ~Taken /\ ~Finished /\ (WriteCut <=> failed.kind = "write")
      /\ (NotTaken <=> failed.kind = "finish" /\ failed.done = 0)
  BY <1>1 DEF Writing, Taken, Finished, WriteCut, NotTaken
<1>4. WriterState = IF failed.kind = "start" THEN "None" ELSE "Started"
  BY <1>1, <1>3 DEF WriterState
<1>5. WriterOffset = (IF failed.kind = "start" THEN 0
                     ELSE IF failed.kind = "write" THEN offset + MessageSize * failed.done
                     ELSE offset)
  BY <1>1, <1>2, <1>4 DEF WriterOffset
<1>6. WriterDicts = (IF failed.kind = "finish" /\ failed.done = 0 THEN failed.footer.dictionaries
                    ELSE IF failed.kind = "write"
                      THEN dictBlocks \o SubSeq(DictBlocksOf(failed), 1, failed.done)
                    ELSE dictBlocks)
  BY <1>1, <1>3, NoBlocks DEF WriterDicts, SinkInv
<1>7. WriterRecs = (IF failed.kind = "finish" /\ failed.done = 0 THEN failed.footer.records
                    ELSE recBlocks)
  <2>1. recBlocks \o << >> = recBlocks
    BY DEF SinkInv, TypeOK, Blocks
  <2> QED BY <1>1, <1>3, <2>1, NoBlocks DEF WriterRecs, SinkInv
<1>8. Idle
  BY <1>3 DEF Idle, WriterCall, WriterChunk, WriterPending, WriterFooter
<1>9. WriterAccepted = (IF failed.kind = "write" THEN SubSeq(accepted, 1, Len(accepted) - 1)
                        ELSE accepted)
  BY <1>3 DEF WriterAccepted
<1> QED BY <1>4, <1>5, <1>6, <1>7, <1>8, <1>9 DEF ShowsFailed, WriterCommitted

\* What the sink shows, in every state and after every step.
Shows ==
  /\ Starting => ShowsNew
  /\ Resting => ShowsResting
  /\ Writing => ShowsWriting
  /\ Taken => ShowsTaken
  /\ Finished => ShowsFinished
  /\ failed # NoTask => ShowsFailed

LEMMA Shown == SinkInv => Shows
BY NewShown, RestingShown, WritingShown, TakenShown, FinishedShown, FailedShown DEF Shows

LEMMA ShownNext == SinkInv' => Shows'
BY Shown, PTL
-----------------------------------------------------------------------------
(* Every step is a step of FileWriter, or none.                             *)

\* The instance speaks of the same cells and the same encoding.
LEMMA SameEncoding ==
  /\ Sync!Cont = Cont /\ Sync!Torn = Torn /\ Sync!NoChunk = NoChunk /\ Sync!NoFooter = NoFooter
  /\ Sync!StartCells = << Magic >> \o Message(Schema)
  /\ Sync!HeaderSize = HeaderSize /\ Sync!MessageSize = MessageSize
  /\ Sync!EmptyTracker = EmptyTracker /\ Sync!Chunks = Chunks
  /\ \A x : Sync!Message(x) = Message(x) /\ Sync!FooterCells(x) = FooterCells(x)
  /\ \A d, v : Sync!Dict(d, v) = Dict(d, v) /\ Sync!Footer(d, v) = Footer(d, v)
  /\ \A k : Sync!Record(k) = Record(k)
  /\ \A f, n, c : Sync!WriteAt(f, n, c) = WriteAt(f, n, c)
  /\ \A c : Sync!TornPrefixes(c) = TornPrefixes(c)
  /\ \A f : Sync!HasFooter(f) <=> HasFooter(f)
  /\ \A t, ds : Sync!Emitted(t, ds) = Emitted(t, ds)
  /\ \A t, ds, b : /\ Sync!Tracked(t, ds, b) = Tracked(t, ds, b)
                   /\ Sync!Encodable(t, ds, b) <=> Encodable(t, ds, b)
  /\ \A t, ds, S : Sync!Recorded(t, ds, S) = Recorded(t, ds, S)
  /\ \A t, ds, b, S : Sync!Refusals(t, ds, b, S) = Refusals(t, ds, b, S)
  /\ \A t, ds, n : Sync!Left(t, ds, n) = Left(t, ds, n)
<1>1. Sync!Columns = Columns
  BY DEF Sync!Columns, Columns
<1>2. /\ Sync!Cont = Cont /\ Sync!Torn = Torn /\ Sync!NoChunk = NoChunk /\ Sync!Magic = Magic
      /\ Sync!Schema = Schema /\ Sync!Trailer = Trailer
      /\ Sync!EmptyTracker = EmptyTracker /\ Sync!Chunks = Chunks
  BY <1>1 DEF Sync!Cont, Cont, Sync!Torn, Torn, Sync!NoChunk, NoChunk, Sync!Magic, Magic,
     Sync!Schema, Schema, Sync!Trailer, Trailer, Sync!EmptyTracker, EmptyTracker,
     Sync!Chunks, Chunks
<1>3. /\ \A d, v : Sync!Dict(d, v) = Dict(d, v) /\ Sync!Footer(d, v) = Footer(d, v)
      /\ \A k : Sync!Record(k) = Record(k)
      /\ Sync!HeaderSize = HeaderSize /\ Sync!MessageSize = MessageSize
  BY DEF Sync!Dict, Dict, Sync!Footer, Footer, Sync!Record, Record, Sync!HeaderSize, HeaderSize,
     Sync!MessageSize, MessageSize
<1>4. \A x : Sync!Message(x) = Message(x) /\ Sync!FooterCells(x) = FooterCells(x)
  BY <1>2 DEF Sync!Message, Message, Sync!FooterCells, FooterCells
<1>5. Sync!StartCells = << Magic >> \o Message(Schema) /\ Sync!NoFooter = NoFooter
  BY <1>2, <1>3, <1>4 DEF Sync!StartCells, Sync!NoFooter, NoFooter
<1>6. \A f, n, c : Sync!WriteAt(f, n, c) = WriteAt(f, n, c)
  BY <1>2 DEF Sync!WriteAt, WriteAt
<1>7. \A c : Sync!TornPrefixes(c) = TornPrefixes(c)
  BY <1>2 DEF Sync!TornPrefixes, TornPrefixes
<1>8. \A f : Sync!HasFooter(f) <=> HasFooter(f)
  BY <1>2 DEF Sync!HasFooter, HasFooter, Sync!FooterStart, FooterStart
<1>9. ASSUME NEW S PROVE Sync!Greatest(S) = Greatest(S)
  BY DEF Sync!Greatest, Greatest
<1>10. ASSUME NEW t, NEW ds, NEW i PROVE Sync!Seen(t, ds, i) = Seen(t, ds, i)
  BY <1>9 DEF Sync!Seen, Seen
<1>11. ASSUME NEW t, NEW ds, NEW i PROVE Sync!Emits(t, ds, i) <=> Emits(t, ds, i)
  BY <1>10 DEF Sync!Emits, Emits
<1>12. ASSUME NEW t, NEW ds, NEW i PROVE Sync!Replaces(t, ds, i) <=> Replaces(t, ds, i)
  BY <1>10, <1>11 DEF Sync!Replaces, Replaces
<1>13. ASSUME NEW t, NEW ds, NEW b PROVE Sync!Inserted(t, ds, b) = Inserted(t, ds, b)
  BY <1>1, <1>12 DEF Sync!Inserted, Inserted
<1>14. ASSUME NEW t, NEW ds, NEW S PROVE Sync!Recorded(t, ds, S) = Recorded(t, ds, S)
  BY <1>9 DEF Sync!Recorded, Recorded
<1>15. ASSUME NEW t, NEW ds, NEW b
       PROVE  /\ Sync!Tracked(t, ds, b) = Tracked(t, ds, b)
              /\ Sync!Encodable(t, ds, b) <=> Encodable(t, ds, b)
  BY <1>1, <1>13, <1>14 DEF Sync!Tracked, Tracked, Sync!Encodable, Encodable
<1>16. ASSUME NEW t, NEW ds PROVE Sync!Emitted(t, ds) = Emitted(t, ds)
  BY <1>1, <1>11 DEF Sync!Emitted, Emitted
<1>17. ASSUME NEW t, NEW ds, NEW b, NEW S PROVE Sync!Refusals(t, ds, b, S) = Refusals(t, ds, b, S)
  BY <1>1, <1>13 DEF Sync!Refusals, Refusals
<1>18. ASSUME NEW t, NEW ds, NEW n PROVE Sync!Left(t, ds, n) = Left(t, ds, n)
  BY <1>16 DEF Sync!Left, Left
<1> QED BY <1>2, <1>3, <1>4, <1>5, <1>6, <1>7, <1>8, <1>14, <1>15, <1>16, <1>17, <1>18

\* What is put behind the file is put where FileWriter stands.
LEMMA PutBehind ==
  ASSUME file \in Seq(Cells), NEW c \in Seq(Cells), file' = file \o c
  PROVE  Sync!Put(c)
<1>1. file' = Sync!WriteAt(file, Len(file), c)
  BY WriteAtEnd, SameEncoding
<1>2. Len(file') = Len(file) + Len(c)
  BY Behind
<1> QED BY <1>1, <1>2 DEF Sync!Put

\* A new sink is a new FileWriter.
LEMMA SinkInitWrites == Init => Sync!Init
<1> SUFFICES ASSUME Init PROVE Sync!Init
  OBVIOUS
<1>1. SinkInv
  BY SinkInit
<1>2. /\ task \in Tasks /\ failed = NoTask /\ task.kind = "start" /\ task.done = 0
      /\ task.done <= Len(Messages(task))
  BY <1>1, MadeTasks DEF Init, SinkInv, TypeOK
<1>3. Starting
  BY <1>2, EndedFacts DEF Starting
<1>4. ShowsNew
  BY <1>1, <1>3, NewShown
<1>5. (failed # NoTask) = FALSE /\ Len(file) = 0
  BY <1>2 DEF Init
<1> QED BY <1>4, <1>5, SameEncoding DEF Init, Sync!Init, ShowsNew, Idle

\* The blocks of the dictionaries of a task, one after the other.
LEMMA NextBlock ==
  ASSUME offset \in Nat, dictBlocks \in Blocks, NEW t \in Tasks
  PROVE  /\ t.done < Len(t.columns) =>
              dictBlocks \o SubSeq(DictBlocksOf(t), 1, t.done + 1) =
              Append(dictBlocks \o SubSeq(DictBlocksOf(t), 1, t.done), offset + MessageSize * t.done)
         /\ t.done = Len(t.columns) => SubSeq(DictBlocksOf(t), 1, t.done) = DictBlocksOf(t)
         /\ dictBlocks \o SubSeq(DictBlocksOf(t), 1, 0) = dictBlocks
         /\ t.columns = << >> => dictBlocks \o DictBlocksOf(t) = dictBlocks
<1> DEFINE blocks == DictBlocksOf(t)
<1>1. /\ blocks \in Seq(Nat) /\ Len(blocks) = Len(t.columns) /\ t.done \in Nat
      /\ Len(t.columns) \in Nat /\ dictBlocks \in Seq(Nat)
      /\ t.columns = << >> => blocks = << >>
  BY BlocksOfTask DEF Blocks, Tasks
<1>2. t.done < Len(t.columns) => blocks[t.done + 1] = offset + MessageSize * t.done
  <2>1. t.done < Len(t.columns) => t.done + 1 \in 1 .. Len(t.columns) /\ t.done + 1 - 1 = t.done
    BY <1>1
  <2> QED BY <1>1, <2>1, BlocksOfTask
<1> HIDE DEF blocks
<1>3. ASSUME t.done < Len(t.columns)
      PROVE  dictBlocks \o SubSeq(blocks, 1, t.done + 1) =
             Append(dictBlocks \o SubSeq(blocks, 1, t.done), blocks[t.done + 1])
  <2> DEFINE ahead == SubSeq(blocks, 1, t.done)
             block == blocks[t.done + 1]
  <2>1. ahead \in Seq(Nat) /\ block \in Nat
    BY <1>1, <1>3, SMTT(30)
  <2>2. SubSeq(blocks, 1, t.done + 1) = Append(ahead, block)
    <3> DEFINE longer == SubSeq(blocks, 1, t.done + 1)
    <3>1. /\ longer \in Seq(Nat) /\ Len(longer) = t.done + 1
          /\ \A n \in 1 .. t.done + 1 : longer[n] = blocks[n]
      BY <1>1, <1>3
    <3>2. /\ Len(ahead) = t.done /\ \A n \in 1 .. t.done : ahead[n] = blocks[n]
      BY <1>1, <1>3
    <3> HIDE DEF longer, ahead, block
    <3>3. Append(ahead, block) \in Seq(Nat) /\ Len(Append(ahead, block)) = t.done + 1
      BY <1>1, <2>1, <3>2
    <3>4. \A n \in 1 .. t.done : Append(ahead, block)[n] = blocks[n]
      BY <1>1, <2>1, <3>2
    <3>5. Append(ahead, block)[t.done + 1] = blocks[t.done + 1]
      BY <1>1, <2>1, <3>2 DEF block
    <3>6. \A n \in 1 .. t.done + 1 : longer[n] = Append(ahead, block)[n]
      <4>1. \A n \in 1 .. t.done + 1 : n \in 1 .. t.done \/ n = t.done + 1
        BY <1>1
      <4> QED BY <3>1, <3>4, <3>5, <4>1, Zenon
    <3>7. longer = Append(ahead, block)
      BY <3>1, <3>3, <3>6, SMTT(30)
    <3> QED BY <3>7 DEF longer
  <2> HIDE DEF ahead, block
  <2>3. dictBlocks \o Append(ahead, block) = Append(dictBlocks \o ahead, block)
    BY <1>1, <2>1, SMTT(30)
  <2> QED BY <2>2, <2>3 DEF ahead, block
<1>4. t.done = Len(t.columns) => SubSeq(blocks, 1, t.done) = blocks
  BY <1>1
<1>5. dictBlocks \o SubSeq(blocks, 1, 0) = dictBlocks
  BY <1>1
<1>6. t.columns = << >> => dictBlocks \o blocks = dictBlocks
  BY <1>1
<1> QED BY <1>2, <1>3, <1>4, <1>5, <1>6 DEF blocks

\* The columns of the task from the nth on.
Ahead(n) == {task.columns[m] : m \in n .. Len(task.columns)}

\* The dictionary a task writes next is that of the least column it has left.
LEMMA DictionaryAhead ==
  ASSUME TypeOK, TaskIsOfTheChunk, ~Ended(task), task.kind = "write", task.done < Len(task.columns),
         NEW packet, packet = Messages(task)[task.done + 1]
  PROVE  \E i \in Columns :
           /\ packet = Message(Dict(Fields[i], task.chunk.dicts[i]))
           /\ i \in Ahead(task.done + 1) /\ \A j \in Ahead(task.done + 1) : i <= j
           /\ Ahead(task.done + 2) = Ahead(task.done + 1) \ {i}
<1>1. task.done \in Nat /\ Len(task.columns) \in Nat /\ task.done + 1 \in 1 .. Len(task.columns)
  BY DEF TypeOK, Tasks
<1>2. PICK i \in Columns : /\ i = task.columns[task.done + 1]
                           /\ packet = Message(Dict(Fields[i], task.chunk.dicts[i]))
  BY Upcoming
<1>3. /\ task.columns \in Seq(Columns)
      /\ \A m, n \in 1 .. Len(task.columns) : m < n => task.columns[m] < task.columns[n]
  BY DEF TypeOK, Tasks, TaskIsOfTheChunk
<1>4. i \in Ahead(task.done + 1) /\ \A j \in Ahead(task.done + 1) : i <= j
  <2>1. i \in Ahead(task.done + 1)
    BY <1>1, <1>2, SMTT(30) DEF Ahead
  <2>2. ASSUME NEW m \in task.done + 1 .. Len(task.columns) PROVE i <= task.columns[m]
    <3>1. m \in 1 .. Len(task.columns) /\ task.columns[m] \in Columns /\ i \in Int
          /\ (m = task.done + 1 \/ task.done + 1 < m)
      BY <1>1, <1>3, SMTT(30) DEF Columns
    <3> QED BY <1>1, <1>2, <1>3, <3>1, SMTT(30) DEF Columns
  <2> QED BY <2>1, <2>2 DEF Ahead
<1>5. Ahead(task.done + 2) = Ahead(task.done + 1) \ {i}
  <2>1. ASSUME NEW m \in task.done + 2 .. Len(task.columns) PROVE task.columns[m] # i
    <3>1. m \in 1 .. Len(task.columns) /\ task.done + 1 < m /\ task.columns[m] \in Columns
      BY <1>1, <1>3
    <3>2. task.columns[task.done + 1] < task.columns[m]
      BY <1>1, <1>3, <3>1
    <3> QED BY <1>2, <3>1, <3>2, SMTT(30) DEF Columns
  <2>2. Ahead(task.done + 1) = {i} \cup Ahead(task.done + 2)
    <3>1. \A m : m \in task.done + 1 .. Len(task.columns) <=>
                 m = task.done + 1 \/ m \in task.done + 2 .. Len(task.columns)
      BY <1>1
    <3> QED BY <1>2, <3>1 DEF Ahead
  <2>3. i \notin Ahead(task.done + 2)
    BY <2>1 DEF Ahead
  <2> QED BY <2>2, <2>3
<1>6. \E j \in Columns :
        /\ packet = Message(Dict(Fields[j], task.chunk.dicts[j]))
        /\ j \in Ahead(task.done + 1) /\ \A k \in Ahead(task.done + 1) : j <= k
        /\ Ahead(task.done + 2) = Ahead(task.done + 1) \ {j}
  <2> WITNESS i \in Columns
  <2> QED BY <1>2, <1>4, <1>5
<1> QED BY <1>6

\* A message of a task is a step of FileWriter.
LEMMA PollTaskWrites ==
  ASSUME SinkInv, SinkInv', PollTask
  PROVE  Sync!Next
<1> DEFINE packet == Messages(task)[task.done + 1]
<1>1. /\ ~Ended(task) /\ file' = file \o packet /\ task' = [task EXCEPT !.done = @ + 1]
      /\ UNCHANGED << writer, offset, dictBlocks, recBlocks, tracker, accepted, lost, failed,
                      faults >>
  BY DEF PollTask
<1>2. task # NoTask
  BY <1>1, NobodyEnded
<1>3. /\ task \in Tasks /\ task.done <= Len(Messages(task)) /\ failed = NoTask
      /\ task.kind \in {"start", "write", "finish"} /\ ~Finished /\ file \in Seq(Cells)
      /\ offset \in Nat /\ dictBlocks \in Blocks /\ recBlocks \in Blocks
  BY <1>1, <1>2, AtWork DEF SinkInv, TypeOK
<1>4. /\ task' \in Tasks /\ task'.done <= Len(Messages(task')) /\ task'.done = task.done + 1
      /\ task'.kind = task.kind /\ task'.chunk = task.chunk /\ task'.columns = task.columns
      /\ task'.footer = task.footer
  BY <1>1, <1>3, OneMessageOn
<1>5. TypeOK /\ TaskIsOfTheChunk /\ packet = Messages(task)[task.done + 1]
  BY DEF SinkInv
<1>6. (Ended(task') <=> Ended(task)') /\ failed' = NoTask /\ task' # NoTask
      /\ (failed # NoTask)' = FALSE /\ (failed # NoTask) = FALSE
      /\ lost = {} /\ UNCHANGED Sync!losses
  <2>1. lost = {}
    BY <1>2 DEF SinkInv, OneWriter
  <2> QED BY <1>1, <1>3, <1>4, <2>1, MadeTasks DEF Ended, Sync!losses
<1>7. Shows /\ Shows'
  BY Shown, ShownNext
<1> HIDE DEF packet
<1>8. packet \in Seq(Cells)
  BY <1>1, <1>5, Upcoming
<1>9. Sync!Put(packet)
  BY <1>1, <1>3, <1>8, PutBehind
<1>10. CASE task.kind = "start"
  <2>1. task.done = 0 /\ packet = << Magic >> \o Message(Schema)
    BY <1>1, <1>5, <1>10, Upcoming
  <2>2. Ended(task')
    BY <1>4, <1>10, <2>1, EndedFacts
  <2>3. Starting /\ Resting'
    BY <1>1, <1>3, <1>4, <1>6, <1>10, <2>2 DEF Starting, Resting, Finished
  <2>4. ShowsNew /\ ShowsResting'
    BY <1>7, <2>3 DEF Shows
  <2>5. WriterOffset = 0 /\ WriterOffset' = 0 + HeaderSize
    BY <1>4, <1>10, <2>4 DEF ShowsNew, ShowsResting, OffsetAfter, HeaderSize, MessageSize
  <2>6. offset = 0 /\ dictBlocks = << >> /\ recBlocks = << >> /\ task.columns = << >>
    BY <1>3, <1>10 DEF SinkInv, OffsetIsOfTheTask, TaskIsOfTheChunk, Last
  <2>7. WriterDicts' = << >> /\ WriterRecs' = << >>
    <3>1. DictBlocksOf(task') = << >> /\ RecBlocksOf(task') = << >>
      BY <1>3, <1>4, <1>10, <2>6, BlocksOfTask
    <3>2. DictBlocksOf(task)' = << >> /\ RecBlocksOf(task)' = << >>
      BY <1>1, <3>1 DEF DictBlocksOf, RecBlocksOf
    <3> QED BY <1>1, <1>4, <1>10, <2>4, <2>6, <3>2 DEF ShowsResting, DictBlocksAfter, RecBlocksAfter
  <2>8. /\ WriterState = "None" /\ WriterState' = "Started" /\ WriterCall = "idle"
        /\ UNCHANGED << WriterDicts, WriterRecs, tracker, WriterCall, WriterChunk, WriterPending,
                        WriterFooter, WriterAccepted, WriterCommitted, faults >>
    BY <1>1, <2>4, <2>7 DEF ShowsNew, ShowsResting, Idle
  <2>9. Sync!Start
    BY <1>6, <1>9, <2>1, <2>5, <2>8, SameEncoding DEF Sync!Start, Sync!Usable
  <2> QED BY <2>9 DEF Sync!Next
<1>11. CASE task.kind = "finish" /\ task.done = 0
  <2>1. packet = << Cont >>
    BY <1>1, <1>5, <1>11, Upcoming
  <2>2. ~Ended(task')
    BY <1>4, <1>11, EndedFacts
  <2>3. Resting /\ Taken'
    BY <1>1, <1>3, <1>4, <1>6, <1>11 DEF Resting, Taken
  <2>4. ShowsResting /\ ShowsTaken'
    BY <1>7, <2>3 DEF Shows
  <2>5. task.footer = Footer(WriterDicts, WriterRecs)
    <3>1. task.footer \in Footers
      BY <1>3 DEF Tasks
    <3> QED BY <1>11, <2>4, <3>1 DEF ShowsResting, Footers, Footer
  <2>6. /\ WriterState = "Started" /\ WriterCall = "idle" /\ WriterCall' = "finish"
        /\ WriterDicts' = << >> /\ WriterRecs' = << >>
        /\ WriterFooter' = Sync!Footer(WriterDicts, WriterRecs)
        /\ UNCHANGED << WriterOffset, WriterState, tracker, WriterChunk, WriterPending,
                        WriterAccepted, WriterCommitted, faults >>
    BY <1>1, <1>4, <1>11, <2>4, <2>5, SameEncoding DEF ShowsResting, ShowsTaken, Idle
  <2>7. Sync!FinishEos
    BY <1>6, <1>9, <2>1, <2>6, SameEncoding DEF Sync!FinishEos, Sync!Usable
  <2> QED BY <2>7 DEF Sync!Next
<1>12. CASE task.kind = "finish" /\ task.done = 1
  <2>1. packet = FooterCells(task.footer) /\ Len(packet) = FooterSize
    BY <1>1, <1>5, <1>12, Upcoming
  <2>2. Ended(task')
    BY <1>4, <1>12, EndedFacts
  <2>3. Taken /\ Finished'
    BY <1>3, <1>4, <1>6, <1>12, <2>2 DEF Taken, Finished
  <2>4. ShowsTaken /\ ShowsFinished'
    BY <1>7, <2>3 DEF Shows
  <2>5. WriterOffset' = WriterOffset
    <3>1. Len(file) = offset + 1
      BY <1>2, <1>3, <1>12, AtWork DEF FileEnd
    <3>2. Len(file') = Len(file) + FooterSize /\ FooterSize \in Nat
      BY <1>1, <1>3, <1>8, <2>1, Behind, FooterSizeAssumption
    <3> QED BY <1>3, <2>4, <3>1, <3>2 DEF ShowsTaken, ShowsFinished
  <2>6. /\ WriterCall = "finish" /\ WriterCall' = "idle" /\ WriterState' = "Finished"
        /\ WriterCommitted' = WriterAccepted /\ WriterFooter' = Sync!NoFooter
        /\ UNCHANGED << WriterDicts, WriterRecs, tracker, WriterChunk, WriterPending,
                        WriterAccepted, faults >>
    BY <1>1, <2>4, SameEncoding DEF ShowsTaken, ShowsFinished, Idle
  <2>7. Sync!FinishFooter
    <3>1. Sync!Put(Sync!FooterCells(WriterFooter))
      BY <1>9, <2>1, <2>4, SameEncoding DEF ShowsTaken
    <3> QED BY <1>6, <2>5, <2>6, <3>1 DEF Sync!FinishFooter, Sync!blocks
  <2> QED BY <2>7 DEF Sync!Next
<1>13. CASE task.kind = "write" /\ task.done < Len(task.columns)
  <2>1. task.done \in Nat /\ Len(task.columns) \in Nat
    BY <1>3 DEF Tasks
  <2>2. PICK i \in Columns :
          /\ packet = Message(Dict(Fields[i], task.chunk.dicts[i]))
          /\ i \in Ahead(task.done + 1) /\ \A j \in Ahead(task.done + 1) : i <= j
          /\ Ahead(task.done + 2) = Ahead(task.done + 1) \ {i}
    BY <1>1, <1>5, <1>13, DictionaryAhead
  <2>3. ~Ended(task')
    BY <1>4, <1>13, <2>1, EndedFacts
  <2>4. Writing /\ Writing'
    BY <1>1, <1>3, <1>4, <1>6, <1>13, <2>3 DEF Writing
  <2>5. ShowsWriting /\ ShowsWriting'
    BY <1>7, <2>4 DEF Shows
  <2>6. WriterPending = Ahead(task.done + 1) /\ WriterPending' = Ahead(task.done + 2)
    <3>1. WriterPending = Ahead(task.done + 1)
      BY <2>5 DEF ShowsWriting, Ahead
    <3>2. WriterPending' = {task'.columns[n] : n \in task'.done + 1 .. Len(task'.columns)}
      BY <2>5 DEF ShowsWriting
    <3>3. task'.done + 1 = task.done + 2
      BY <1>4, <2>1
    <3>4. WriterPending' = {task.columns[n] : n \in task.done + 2 .. Len(task.columns)}
      BY <1>4, <3>2, <3>3
    <3> QED BY <3>1, <3>4 DEF Ahead
  <2>7. WriterDicts' = Append(WriterDicts, WriterOffset)
    <3>1. WriterDicts' = dictBlocks \o SubSeq(DictBlocksOf(task), 1, task.done + 1)
      <4>1. DictBlocksOf(task)' = DictBlocksOf(task)
        BY <1>1, <1>4 DEF DictBlocksOf
      <4> QED BY <1>1, <1>4, <2>5, <4>1 DEF ShowsWriting
    <3>2. WriterDicts = dictBlocks \o SubSeq(DictBlocksOf(task), 1, task.done)
          /\ WriterOffset = offset + MessageSize * task.done
      BY <2>5 DEF ShowsWriting
    <3> QED BY <1>3, <1>13, <3>1, <3>2, NextBlock
  <2>8. WriterOffset' = WriterOffset + MessageSize
    <3>1. WriterOffset' = offset + MessageSize * (task.done + 1)
      BY <1>1, <1>4, <2>5 DEF ShowsWriting
    <3>2. WriterOffset = offset + MessageSize * task.done
      BY <2>5 DEF ShowsWriting
    <3> QED BY <1>3, <2>1, <3>1, <3>2 DEF MessageSize
  <2>9. /\ WriterCall = "write" /\ WriterChunk = task.chunk
        /\ UNCHANGED << WriterRecs, WriterState, tracker, WriterCall, WriterChunk, WriterFooter,
                        WriterAccepted, WriterCommitted, faults >>
    BY <1>1, <1>4, <2>5 DEF ShowsWriting
  <2>10. Sync!WriteDictionary
    <3>1. /\ i \in WriterPending /\ \A j \in WriterPending : i <= j
          /\ Sync!Put(Sync!Message(Sync!Dict(Fields[i], WriterChunk.dicts[i])))
          /\ WriterPending' = WriterPending \ {i}
      BY <1>9, <2>2, <2>6, <2>9, SameEncoding
    <3> QED BY <1>6, <2>7, <2>8, <2>9, <3>1, SameEncoding DEF Sync!WriteDictionary
  <2> QED BY <2>10 DEF Sync!Next
<1>14. CASE task.kind = "write" /\ task.done >= Len(task.columns)
  <2>1. task.done = Len(task.columns) /\ packet = Message(Record(task.chunk.keys))
    BY <1>1, <1>5, <1>14, Upcoming
  <2>2. Ended(task') /\ Len(task.columns) \in Nat
    BY <1>3, <1>4, <1>14, <2>1, EndedFacts DEF Tasks
  <2>3. Writing /\ Resting'
    BY <1>1, <1>3, <1>4, <1>6, <1>14, <2>2 DEF Writing, Resting, Finished
  <2>4. ShowsWriting /\ ShowsResting'
    BY <1>7, <2>3 DEF Shows
  <2>5. WriterPending = {}
    BY <2>1, <2>2, <2>4 DEF ShowsWriting
  <2>6. WriterAccepted' = Append(WriterAccepted, WriterChunk)
    <3>1. /\ accepted \in Seq(Chunks) /\ accepted # << >> /\ task.chunk = accepted[Len(accepted)]
      BY <1>5, <1>14 DEF TypeOK, TaskIsOfTheChunk
    <3>2. accepted = Append(SubSeq(accepted, 1, Len(accepted) - 1), accepted[Len(accepted)])
      BY <3>1
    <3> QED BY <1>1, <2>4, <3>1, <3>2 DEF ShowsWriting, ShowsResting
  <2>7. WriterOffset = offset + MessageSize * Len(task.columns)
        /\ WriterOffset' = WriterOffset + MessageSize
    <3>1. WriterOffset' = offset + MessageSize * (Len(task.columns) + 1)
      BY <1>1, <1>4, <1>14, <2>4 DEF ShowsResting, OffsetAfter
    <3>2. WriterOffset = offset + MessageSize * Len(task.columns)
      BY <2>1, <2>4 DEF ShowsWriting
    <3> QED BY <1>3, <2>2, <3>1, <3>2 DEF MessageSize
  <2>8. WriterDicts' = WriterDicts
    <3>1. WriterDicts' = dictBlocks \o DictBlocksOf(task)
      <4>1. DictBlocksOf(task)' = DictBlocksOf(task)
        BY <1>1, <1>4 DEF DictBlocksOf
      <4> QED BY <1>1, <1>4, <1>14, <2>4, <4>1 DEF ShowsResting, DictBlocksAfter
    <3>2. WriterDicts = dictBlocks \o SubSeq(DictBlocksOf(task), 1, task.done)
      BY <2>4 DEF ShowsWriting
    <3>3. SubSeq(DictBlocksOf(task), 1, task.done) = DictBlocksOf(task)
      BY <1>3, <2>1, NextBlock
    <3> QED BY <3>1, <3>2, <3>3
  <2>9. WriterRecs' = Append(WriterRecs, WriterOffset)
    <3>1. WriterRecs' = recBlocks \o << WriterOffset >>
      <4>1. RecBlocksOf(task)' = << offset + MessageSize * Len(task.columns) >>
        BY <1>1, <1>4, <1>14 DEF RecBlocksOf
      <4> QED BY <1>1, <1>4, <1>14, <2>4, <2>7, <4>1 DEF ShowsResting, RecBlocksAfter
    <3>2. WriterRecs = recBlocks
      BY <2>4 DEF ShowsWriting
    <3>3. offset + MessageSize * Len(task.columns) \in Nat
      BY <1>3, <2>2 DEF MessageSize
    <3>4. ASSUME NEW b \in Nat PROVE recBlocks \o << b >> = Append(recBlocks, b)
      BY <1>3 DEF Blocks
    <3> QED BY <2>7, <3>1, <3>2, <3>3, <3>4
  <2>10. /\ WriterCall = "write" /\ WriterCall' = "idle" /\ WriterChunk' = NoChunk
         /\ WriterChunk = task.chunk
         /\ UNCHANGED << WriterState, tracker, WriterPending, WriterFooter, WriterCommitted,
                         faults >>
    BY <1>1, <2>4, <2>5 DEF ShowsWriting, ShowsResting, Idle
  <2>11. Sync!WriteRecord
    <3>1. Sync!Put(Sync!Message(Sync!Record(WriterChunk.keys)))
      BY <1>9, <2>1, <2>10, SameEncoding
    <3> QED BY <1>6, <2>5, <2>6, <2>7, <2>8, <2>9, <2>10, <3>1, SameEncoding
             DEF Sync!WriteRecord, Sync!losses
  <2> QED BY <2>11 DEF Sync!Next
<1>15. task.done \in Nat /\ Len(task.columns) \in Nat
  BY <1>3 DEF Tasks
<1>16. task.kind = "finish" => task.done \in {0, 1}
  BY <1>1, <1>5, Upcoming
<1> QED BY <1>3, <1>10, <1>11, <1>12, <1>13, <1>14, <1>15, <1>16

\* Nothing that a failed write leaves makes a footer, unless it was one.
LEMMA TornNoFooter ==
  ASSUME NEW f \in Seq(Cells), NEW c \in Seq(Cells), NEW torn \in TornPrefixes(c),
         NEW g, g = f \o torn,
         \A n \in 1 .. Len(f) : f[n].kind # "footer",
         \A n \in 1 .. Len(c) : c[n].kind # "footer"
  PROVE  ~HasFooter(g)
<1>1. torn \in Seq(Cells) /\ \A n \in 1 .. Len(torn) : torn[n].kind # "footer"
  <2>1. torn \in Seq(Cells) /\ Len(torn) <= Len(c)
        /\ \A n \in 1 .. Len(torn) : torn[n] = c[n] \/ torn[n] = Torn
    BY TornFacts
  <2>2. ASSUME NEW n \in 1 .. Len(torn) PROVE torn[n].kind # "footer"
    <3>1. n \in 1 .. Len(c)
      BY <2>1
    <3>2. c[n].kind # "footer" /\ Torn.kind # "footer"
      BY <3>1 DEF Torn
    <3>3. torn[n] = c[n] \/ torn[n] = Torn
      BY <2>1
    <3> QED BY <3>2, <3>3
  <2> QED BY <2>1, <2>2
<1>2. g \in Seq(Cells)
  BY <1>1, Behind
<1>3. \A n \in 1 .. Len(g) : g[n].kind # "footer"
  BY <1>1, NoFooterBehind
<1> QED BY <1>2, <1>3, NoFooterCell

\* What FileWriter writes, or may leave of it, that is no footer.
LEMMA PlainCells ==
  ASSUME NEW c, c \in {<< Magic >> \o Message(Schema), Message(Torn), << Cont >>}
  PROVE  c \in Seq(Cells) /\ \A n \in 1 .. Len(c) : c[n].kind # "footer"
<1>1. /\ {Magic, Cont, Schema, Torn} \subseteq Cells
      /\ Magic.kind # "footer" /\ Cont.kind # "footer" /\ Schema.kind # "footer"
      /\ Torn.kind # "footer"
  BY CellFacts DEF Magic, Cont, Schema, Torn
<1>2. CASE c = << Magic >> \o Message(Schema)
  <2>1. c \in Seq(Cells) /\ Len(c) = 3 /\ c[1] = Magic /\ c[2] = Cont /\ c[3] = Schema
    <3> DEFINE start == << Magic >> \o Message(Schema)
    <3>1. start \in Seq(Cells) /\ Len(start) = 3
          /\ start[1] = Magic /\ start[2] = Cont /\ start[3] = Schema
      BY CellFacts DEF Message
    <3>2. c = start
      BY <1>2
    <3> HIDE DEF start
    <3> QED BY <3>1, <3>2
  <2> QED BY <1>1, <2>1
<1>3. CASE c = Message(Torn)
  <2>1. c = << Cont, Torn >>
    BY <1>3 DEF Message
  <2>2. << Cont, Torn >> \in Seq(Cells)
    BY <1>1
  <2>3. c \in Seq(Cells)
    BY <2>1, <2>2, Zenon
  <2>4. \A n \in 1 .. Len(c) : c[n].kind # "footer"
    BY <1>1, <2>1
  <2> QED BY <2>3, <2>4
<1>4. CASE c = << Cont >>
  <2>1. << Cont >> \in Seq(Cells)
    BY <1>1
  <2>2. c \in Seq(Cells)
    BY <1>4, <2>1, Zenon
  <2>3. \A n \in 1 .. Len(c) : c[n].kind # "footer"
    BY <1>1, <1>4
  <2> QED BY <2>2, <2>3
<1> QED BY <1>2, <1>3, <1>4

\* A write of the sink that fails is one of FileWriter's.
LEMMA PutFailsBehind ==
  ASSUME file \in Seq(Cells), NEW c \in Seq(Cells), NEW torn \in TornPrefixes(c),
         file' = file \o torn, faults < MaxFaults, faults' = faults + 1, failed' # NoTask
  PROVE  Sync!PutFails(c)
<1>1. torn \in Seq(Cells)
  BY TornFacts
<1>2. Sync!Put(torn)
  BY <1>1, PutBehind
<1>3. torn \in Sync!TornPrefixes(c)
  BY SameEncoding
<1>4. (failed # NoTask)' = TRUE
  OBVIOUS
<1> QED BY <1>2, <1>3, <1>4 DEF Sync!PutFails

\* A task fails as FileWriter's call does.
LEMMA PollFailsWrites ==
  ASSUME SinkInv, SinkInv', PollFails
  PROVE  Sync!Next
<1>1. /\ ~Ended(task) /\ task' = NoTask /\ failed' = task /\ faults' = faults + 1
      /\ faults < MaxFaults
      /\ UNCHANGED << writer, offset, dictBlocks, recBlocks, tracker, accepted, lost >>
  BY DEF PollFails
<1>2. PICK torn \in TornPrefixes(NextCells(task)) : file' = file \o torn
  BY DEF PollFails
<1>3. task # NoTask
  BY <1>1, NobodyEnded
<1>4. /\ task \in Tasks /\ task.done <= Len(Messages(task)) /\ failed = NoTask
      /\ task.kind \in {"start", "write", "finish"} /\ ~Finished /\ file \in Seq(Cells)
      /\ offset \in Nat /\ dictBlocks \in Blocks /\ recBlocks \in Blocks /\ Last = task
  BY <1>1, <1>3, AtWork DEF SinkInv, TypeOK
<1>5. \A n \in 1 .. Len(file) : file[n].kind # "footer"
  BY <1>4 DEF SinkInv, FileIsOfTheTask
<1>6. (failed # NoTask) = FALSE /\ failed' # NoTask /\ UNCHANGED Sync!losses
  BY <1>1, <1>3, <1>4 DEF Sync!losses
<1>7. Shows /\ ShowsFailed'
  BY <1>6, Shown, ShownNext DEF Shows
<1>8. ASSUME NEW c \in Seq(Cells), NextCells(task) = c
      PROVE  /\ Sync!PutFails(c)
             /\ (\A n \in 1 .. Len(c) : c[n].kind # "footer") => ~HasFooter(file')
  <2>1. torn \in TornPrefixes(c)
    BY <1>8
  <2>2. Sync!PutFails(c)
    BY <1>1, <1>2, <1>4, <1>6, <2>1, PutFailsBehind
  <2>3. ASSUME \A n \in 1 .. Len(c) : c[n].kind # "footer" PROVE ~HasFooter(file')
    BY <1>2, <1>4, <1>5, <2>1, <2>3, TornNoFooter
  <2> QED BY <2>2, <2>3
<1>9. CASE task.kind = "start"
  <2>1. Starting
    BY <1>1, <1>4, <1>9 DEF Starting
  <2>2. ShowsNew
    BY <1>7, <2>1 DEF Shows
  <2>3. NextCells(task) = << Magic >> \o Message(Schema)
    BY <1>1, <1>9, Upcoming DEF NextCells, SinkInv
  <2>4. /\ << Magic >> \o Message(Schema) \in Seq(Cells)
        /\ \A n \in 1 .. Len(<< Magic >> \o Message(Schema)) :
             (<< Magic >> \o Message(Schema))[n].kind # "footer"
    BY PlainCells
  <2>5. Sync!PutFails(Sync!StartCells) /\ ~HasFooter(file')
    BY <1>8, <2>3, <2>4, SameEncoding
  <2>6. offset = 0 /\ dictBlocks = << >> /\ recBlocks = << >>
    BY <1>4, <1>9 DEF SinkInv, OffsetIsOfTheTask
  <2>7. /\ WriterState = "None" /\ WriterCall = "idle"
        /\ UNCHANGED << WriterState, WriterOffset, WriterDicts, WriterRecs, tracker, WriterCall,
                        WriterChunk, WriterPending, WriterFooter, WriterAccepted,
                        WriterCommitted >>
    BY <1>1, <1>7, <1>9, <2>2, <2>5, <2>6 DEF ShowsNew, ShowsFailed, Idle
  <2>8. Sync!StartFails
    BY <1>6, <2>5, <2>7 DEF Sync!StartFails, Sync!Usable, Sync!blocks
  <2> QED BY <2>8 DEF Sync!Next
<1>10. CASE task.kind = "write"
  <2>1. Writing
    BY <1>1, <1>4, <1>10 DEF Writing
  <2>2. ShowsWriting
    BY <1>7, <2>1 DEF Shows
  <2>3. NextCells(task) = Message(Torn)
    BY <1>10 DEF NextCells
  <2>4. /\ Message(Torn) \in Seq(Cells)
        /\ \A n \in 1 .. Len(Message(Torn)) : Message(Torn)[n].kind # "footer"
    BY PlainCells
  <2>5. Sync!PutFails(Sync!Message(Sync!Torn)) /\ ~HasFooter(file')
    BY <1>8, <2>3, <2>4, SameEncoding
  <2>6. DictBlocksOf(failed)' = DictBlocksOf(task)
    BY <1>1 DEF DictBlocksOf
  <2>7. /\ WriterCall = "write" /\ WriterCall' = "idle" /\ WriterChunk' = NoChunk
        /\ WriterPending' = {}
        /\ UNCHANGED << WriterState, WriterOffset, WriterDicts, WriterRecs, tracker,
                        WriterFooter, WriterAccepted, WriterCommitted >>
    BY <1>1, <1>7, <1>10, <2>2, <2>5, <2>6 DEF ShowsWriting, ShowsFailed, Idle
  <2>8. Sync!WriteFails
    BY <1>6, <2>5, <2>7, SameEncoding DEF Sync!WriteFails, Sync!blocks
  <2> QED BY <2>8 DEF Sync!Next
<1>11. CASE task.kind = "finish" /\ task.done = 0
  <2>1. Resting
    BY <1>4, <1>11 DEF Resting
  <2>2. ShowsResting
    BY <1>7, <2>1 DEF Shows
  <2>3. NextCells(task) = << Cont >>
    BY <1>1, <1>11, Upcoming DEF NextCells, SinkInv
  <2>4. << Cont >> \in Seq(Cells) /\ \A n \in 1 .. Len(<< Cont >>) : << Cont >>[n].kind # "footer"
    BY PlainCells
  <2>5. Sync!PutFails(<< Sync!Cont >>) /\ ~HasFooter(file')
    BY <1>8, <2>3, <2>4, SameEncoding
  <2>6. /\ WriterState = "Started" /\ WriterCall = "idle" /\ WriterCall' = "idle"
        /\ WriterFooter' = Sync!NoFooter
        /\ UNCHANGED << WriterState, WriterOffset, WriterDicts, WriterRecs, tracker, WriterChunk,
                        WriterPending, WriterAccepted, WriterCommitted >>
    BY <1>1, <1>7, <1>11, <2>2, <2>5, SameEncoding DEF ShowsResting, ShowsFailed, Idle
  <2>7. Sync!FinishFails
    BY <1>6, <2>5, <2>6 DEF Sync!FinishFails, Sync!Usable, Sync!blocks
  <2> QED BY <2>7 DEF Sync!Next
<1>12. CASE task.kind = "finish" /\ task.done = 1
  <2>1. Taken
    BY <1>4, <1>12 DEF Taken
  <2>2. ShowsTaken
    BY <1>7, <2>1 DEF Shows
  <2>3. NextCells(task) = FooterCells(task.footer)
    BY <1>1, <1>12, Upcoming DEF NextCells, SinkInv
  <2>4. FooterCells(task.footer) \in Seq(Cells)
    BY <1>4, FooterCellsFacts DEF Tasks
  <2>5. Sync!PutFails(Sync!FooterCells(WriterFooter))
    BY <1>8, <2>2, <2>3, <2>4, SameEncoding DEF ShowsTaken
  <2>6. dictBlocks = << >> /\ recBlocks = << >>
    BY <1>4, <1>12 DEF SinkInv, OffsetIsOfTheTask
  <2>7. /\ WriterCall = "finish" /\ WriterCall' = "idle" /\ WriterFooter' = Sync!NoFooter
        /\ WriterCommitted' = (IF Sync!HasFooter(file') THEN WriterAccepted ELSE WriterCommitted)
        /\ UNCHANGED << WriterState, WriterOffset, WriterDicts, WriterRecs, tracker, WriterChunk,
                        WriterPending, WriterAccepted >>
    BY <1>1, <1>7, <1>12, <2>2, <2>6, SameEncoding DEF ShowsTaken, ShowsFailed, Idle
  <2>8. Sync!FinishFails
    BY <1>6, <2>5, <2>7 DEF Sync!FinishFails, Sync!blocks
  <2> QED BY <2>8 DEF Sync!Next
<1>13. task.kind = "finish" => task.done \in {0, 1}
  BY <1>1, Upcoming DEF SinkInv
<1> QED BY <1>4, <1>9, <1>10, <1>11, <1>12, <1>13

\* What a sink without a task shows: a FileWriter between calls.
LEMMA NobodyShown ==
  ASSUME SinkInv, task = NoTask, writer
  PROVE  /\ failed = NoTask /\ WriterState = "Started" /\ Idle
         /\ WriterOffset = offset /\ WriterDicts = dictBlocks /\ WriterRecs = recBlocks
         /\ WriterAccepted = accepted /\ WriterCommitted = << >>
<1>1. failed = NoTask /\ offset # 0 /\ task.kind = "none" /\ Ended(task)
  BY NobodyEnded DEF SinkInv, OneWriter, OffsetIsOfTheTask
<1>2. Resting
  BY <1>1 DEF Resting, Finished
<1>3. ShowsResting
  BY <1>2, RestingShown
<1> QED BY <1>1, <1>3, Completed DEF ShowsResting

\* An accepted chunk is one that FileWriter starts to write.
LEMMA StartSendWrites ==
  ASSUME SinkInv, SinkInv', NEW c \in Chunks, StartSend(c)
  PROVE  Sync!Next
<1> DEFINE emitted == Emitted(tracker, c.dicts)
<1>1. /\ task = NoTask /\ writer /\ tracker' = Tracked(tracker, c.dicts, TRUE)
      /\ Len(accepted) < MaxChunks /\ Encodable(tracker, c.dicts, TRUE)
      /\ task' = WriteTask(c, Ascending(emitted)) /\ accepted' = Append(accepted, c)
      /\ UNCHANGED << file, offset, dictBlocks, recBlocks, lost, failed, faults >>
  BY DEF StartSend
<1>2. /\ failed = NoTask /\ WriterState = "Started" /\ Idle
      /\ WriterOffset = offset /\ WriterDicts = dictBlocks /\ WriterRecs = recBlocks
      /\ WriterAccepted = accepted /\ WriterCommitted = << >>
  BY <1>1, NobodyShown
<1>3. /\ Ascending(emitted) \in Seq(Columns)
      /\ emitted = {Ascending(emitted)[n] : n \in 1 .. Len(Ascending(emitted))}
  <2>1. emitted \subseteq Columns
    BY DEF Emitted
  <2> QED BY <2>1, AscendingColumns
<1> HIDE DEF emitted
<1>4. /\ task' \in Tasks /\ task'.kind = "write" /\ task'.done = 0
      /\ task'.chunk = c /\ task'.columns = Ascending(emitted)
  BY <1>1, <1>3, MadeTasks
<1>5. ShowsWriting'
  <2>1. Len(task'.columns) \in Nat /\ task'.done <= Len(Messages(task'))
    BY <1>3, <1>4, TaskFacts
  <2>2. ~Ended(task')
    BY <1>4, <2>1, EndedFacts
  <2>3. Writing'
    BY <1>1, <1>2, <1>4, <2>2 DEF Writing, Ended
  <2> QED BY <2>3, ShownNext DEF Shows
<1>6. WriterPending' = emitted
  <2>1. WriterPending' = {task'.columns[n] : n \in 1 .. Len(task'.columns)}
    BY <1>4, <1>5 DEF ShowsWriting
  <2> QED BY <1>3, <1>4, <2>1
<1>7. WriterAccepted' = accepted
  <2>1. accepted \in Seq(Chunks)
    BY DEF SinkInv, TypeOK
  <2>2. accepted = SubSeq(Append(accepted, c), 1, Len(Append(accepted, c)) - 1)
    BY <2>1
  <2> QED BY <1>1, <1>5, <2>2 DEF ShowsWriting
<1>8. WriterOffset' = offset
  <2>1. offset \in Nat
    BY DEF SinkInv, TypeOK
  <2> QED BY <1>1, <1>4, <1>5, <2>1 DEF ShowsWriting, MessageSize
<1>9. WriterDicts' = dictBlocks /\ WriterRecs' = recBlocks
  <2>1. offset \in Nat /\ dictBlocks \in Blocks /\ task' \in Tasks
    BY <1>4 DEF SinkInv, TypeOK
  <2>2. dictBlocks \o SubSeq(DictBlocksOf(task'), 1, 0) = dictBlocks
    BY <2>1, NextBlock
  <2>3. DictBlocksOf(task') = DictBlocksOf(task)'
    BY <1>1 DEF DictBlocksOf
  <2> QED BY <1>1, <1>4, <1>5, <2>2, <2>3 DEF ShowsWriting
<1>10. Sync!Write(c)
  <2>1. /\ tracker' = Sync!Tracked(tracker, c.dicts, TRUE)
        /\ WriterPending' = Sync!Emitted(tracker, c.dicts)
        /\ Sync!Encodable(tracker, c.dicts, TRUE)
    BY <1>1, <1>6, SameEncoding DEF emitted
  <2>2. /\ WriterCall = "idle" /\ WriterCall' = "write" /\ WriterChunk' = c
        /\ Len(WriterAccepted) < MaxChunks
        /\ UNCHANGED << file, WriterOffset, WriterDicts, WriterRecs, WriterState, WriterFooter,
                        WriterAccepted, WriterCommitted, faults >>
    BY <1>1, <1>2, <1>4, <1>5, <1>7, <1>8, <1>9 DEF ShowsWriting, Idle
  <2>3. (failed # NoTask) = FALSE /\ (failed # NoTask)' = FALSE /\ Len(file)' = Len(file)
        /\ UNCHANGED Sync!losses
    BY <1>1, <1>2 DEF Sync!losses
  <2> QED BY <1>2, <2>1, <2>2, <2>3 DEF Sync!Write, Sync!Usable, Sync!blocks, Sync!disk
<1> QED BY <1>10, SameEncoding DEF Sync!Next

\* What the sink shows is of its file, its task and its blocks.
LEMMA ShowsTheSame ==
  ASSUME UNCHANGED << file, task, offset, dictBlocks, recBlocks, accepted, failed >>
  PROVE  UNCHANGED << Len(file), WriterState, WriterOffset, WriterDicts, WriterRecs, WriterCall,
                      WriterChunk, WriterPending, WriterFooter, WriterAccepted, WriterCommitted,
                      failed # NoTask >>
<1>1. Last' = Last
  BY DEF Last
<1>2. /\ DictBlocksOf(Last)' = DictBlocksOf(Last) /\ RecBlocksOf(Last)' = RecBlocksOf(Last)
      /\ Ended(Last)' = Ended(Last) /\ Ended(task)' = Ended(task)
  BY <1>1 DEF DictBlocksOf, RecBlocksOf, Ended
<1>3. Finished' = Finished
  BY <1>2 DEF Finished
<1>4. Writing' = Writing /\ Taken' = Taken /\ WriteCut' = WriteCut /\ NotTaken' = NotTaken
  BY <1>1, <1>2 DEF Writing, Taken, WriteCut, NotTaken
<1>5. WriterState' = WriterState
  BY <1>1, <1>2, <1>3 DEF WriterState
<1>6. WriterOffset' = WriterOffset
  BY <1>1, <1>5 DEF WriterOffset
<1>7. WriterDicts' = WriterDicts
  BY <1>1, <1>2, <1>4 DEF WriterDicts
<1>8. WriterRecs' = WriterRecs
  BY <1>1, <1>2, <1>4 DEF WriterRecs
<1>9. WriterCall' = WriterCall /\ WriterChunk' = WriterChunk /\ WriterPending' = WriterPending
  BY <1>4 DEF WriterCall, WriterChunk, WriterPending
<1>10. WriterFooter' = WriterFooter /\ WriterAccepted' = WriterAccepted
       /\ WriterCommitted' = WriterCommitted
  BY <1>4 DEF WriterFooter, WriterAccepted, WriterCommitted
<1> QED BY <1>5, <1>6, <1>7, <1>8, <1>9, <1>10

\* A refused chunk is refused by FileWriter.
LEMMA StartSendRefusedWrites ==
  ASSUME SinkInv, NEW c \in Chunks, StartSendRefused(c)
  PROVE  Sync!Next
<1>1. /\ task = NoTask /\ writer
      /\ UNCHANGED << file, task, offset, dictBlocks, recBlocks, accepted, failed, faults >>
  BY DEF StartSendRefused
<1>2. failed = NoTask /\ WriterState = "Started" /\ WriterCall = "idle"
  BY <1>1, NobodyShown DEF Idle
<1>3. UNCHANGED << Len(file), WriterState, WriterOffset, WriterDicts, WriterRecs, WriterCall,
                   WriterChunk, WriterPending, WriterFooter, WriterAccepted, WriterCommitted,
                   failed # NoTask >>
  BY <1>1, ShowsTheSame
<1>4. Sync!WriteRefused(c)
  <2>1. lost = {}
    BY <1>1 DEF SinkInv, OneWriter
  <2>2. \E n \in Sync!Refusals(tracker, c.dicts, TRUE, Stops) :
          /\ tracker' = Sync!Recorded(tracker, c.dicts, 1 .. n)
          /\ lost' = lost \cup Sync!Left(tracker, c.dicts, n)
    BY <2>1, SameEncoding DEF StartSendRefused
  <2>3. (failed # NoTask) = FALSE
    BY <1>2
  <2> QED BY <1>1, <1>2, <1>3, <2>2, <2>3
          DEF Sync!WriteRefused, Sync!Usable, Sync!blocks, Sync!losses, Sync!disk
<1> QED BY <1>4, SameEncoding DEF Sync!Next

\* Without a task there is nothing to take over.
NothingAfter ==
  task = NoTask =>
    /\ OffsetAfter(task) = offset /\ DictBlocksAfter(task) = dictBlocks
    /\ RecBlocksAfter(task) = recBlocks

LEMMA NobodyAfter == SinkInv => NothingAfter
BY NobodyEnded, Completed DEF NothingAfter

LEMMA NobodyAfterNext == SinkInv' => NothingAfter'
BY NobodyAfter, PTL

\* When the sink takes over what a task left, FileWriter does nothing.
LEMMA TakingOverWritesNothing ==
  ASSUME SinkInv, SinkInv', PollReady \/ PollClose, task # NoTask \/ WriterAfter(task)
  PROVE  UNCHANGED Sync!vars
<1>1. /\ Ended(task) /\ offset' = OffsetAfter(task)
      /\ UNCHANGED << file, tracker, accepted, lost, failed, faults >>
  BY DEF PollReady, PollClose
<1>2. task \in Tasks /\ task.done <= Len(Messages(task)) /\ failed = NoTask
  BY Completed, <1>1, AtWork DEF SinkInv, TypeOK
<1>3. Shows /\ Shows' /\ (failed # NoTask)' = (failed # NoTask) /\ Len(file)' = Len(file)
      /\ failed' = NoTask
  BY <1>1, <1>2, Shown, ShownNext
<1>4. CASE task.kind = "finish"
  <2>1. Finished
    BY <1>1, <1>2, <1>4 DEF Finished
  <2>2. ~WriterAfter(task)
    BY <1>4 DEF WriterAfter
  <2>3. task' = NoTask
    BY <2>2 DEF PollReady, PollClose
  <2>4. offset' = 0
    BY <1>1, <1>4 DEF OffsetAfter
  <2>5. Finished'
    BY <1>3, <2>3, <2>4, NobodyEnded DEF Finished
  <2>6. ShowsFinished /\ ShowsFinished'
    BY <1>3, <2>1, <2>5 DEF Shows
  <2> QED BY <1>1, <1>3, <2>6
          DEF ShowsFinished, Idle, Sync!vars, Sync!blocks, Sync!losses, Sync!disk
<1>5. CASE task.kind # "finish"
  <2>1. WriterAfter(task)
    BY <1>5, NobodyEnded, MadeTasks DEF WriterAfter, SinkInv, TaskIsOfTheChunk
  <2>2. OffsetAfter(task) # 0 /\ DictBlocksAfter(task) \in Blocks /\ RecBlocksAfter(task) \in Blocks
    BY <1>1, <2>1, Completed
  <2>3. ~Finished
    <3>1. task = NoTask => offset # 0
      BY <2>2, NobodyAfter DEF NothingAfter
    <3> QED BY <1>5, <3>1 DEF Finished
  <2>4. ShowsResting
    BY <1>1, <1>2, <1>3, <2>3 DEF Resting, Shows
  <2>5. CASE PollReady
    <3>1. /\ task' = NoTask /\ dictBlocks' = DictBlocksAfter(task)
          /\ recBlocks' = RecBlocksAfter(task)
      BY <2>5 DEF PollReady
    <3>2. Ended(task)' /\ task'.kind = "none"
      BY <3>1, NobodyEnded DEF Ended
    <3>3. ~Finished'
      BY <1>1, <2>2, <3>2 DEF Finished
    <3>4. ShowsResting'
      BY <1>3, <3>2, <3>3 DEF Resting, Shows
    <3>5. /\ OffsetAfter(task)' = offset' /\ DictBlocksAfter(task)' = dictBlocks'
          /\ RecBlocksAfter(task)' = recBlocks'
      BY <3>1, NobodyAfterNext DEF NothingAfter
    <3>6. UNCHANGED << WriterOffset, WriterDicts, WriterRecs >>
      BY <1>1, <1>5, <2>4, <3>1, <3>2, <3>4, <3>5 DEF ShowsResting
    <3> QED BY <1>1, <1>3, <2>4, <3>4, <3>6
            DEF ShowsResting, Idle, Sync!vars, Sync!blocks, Sync!losses, Sync!disk
  <2>6. CASE PollClose
    <3>1. task' = FinishTask(DictBlocksAfter(task), RecBlocksAfter(task))
      BY <2>1, <2>6 DEF PollClose
    <3>2. /\ task' \in Tasks /\ task'.kind = "finish" /\ task'.done = 0
          /\ task'.footer = Footer(DictBlocksAfter(task), RecBlocksAfter(task))
      BY <2>2, <3>1, MadeTasks
    <3>3. ~Ended(task')
      <4>1. task'.done <= Len(Messages(task'))
        BY <3>2, TaskFacts
      <4> QED BY <3>2, <4>1, EndedFacts
    <3>4. Resting'
      BY <1>3, <3>2, <3>3 DEF Resting, Finished, Ended
    <3>5. ShowsResting'
      BY <1>3, <3>4 DEF Shows
    <3>6. /\ task'.footer.dictionaries = DictBlocksAfter(task)
          /\ task'.footer.records = RecBlocksAfter(task)
      BY <3>2 DEF Footer
    <3>7. UNCHANGED << WriterOffset, WriterDicts, WriterRecs >>
      BY <1>1, <1>5, <2>4, <3>2, <3>5, <3>6 DEF ShowsResting
    <3> QED BY <1>1, <1>3, <2>4, <3>5, <3>7
            DEF ShowsResting, Idle, Sync!vars, Sync!blocks, Sync!losses, Sync!disk
  <2> QED BY <2>5, <2>6
<1> QED BY <1>4, <1>5

\* The steps that touch neither the file nor the task are none of FileWriter's.
LEMMA OthersWriteNothing ==
  ASSUME UNCHANGED << file, task, offset, dictBlocks, recBlocks, tracker, accepted, lost, failed,
                      faults >>
  PROVE  UNCHANGED Sync!vars
BY ShowsTheSame DEF Sync!vars, Sync!blocks, Sync!losses, Sync!disk

\* Every step of the sink is a step of FileWriter, or none.
LEMMA SinkStepWrites == SinkInv /\ SinkInv' /\ [Next]_vars => [Sync!Next]_(Sync!vars)
<1> SUFFICES ASSUME SinkInv, SinkInv', [Next]_vars PROVE [Sync!Next]_(Sync!vars)
  OBVIOUS
<1>1. CASE PollTask
  BY <1>1, PollTaskWrites
<1>2. CASE PollFails
  BY <1>2, PollFailsWrites
<1>3. ASSUME NEW c \in Chunks, StartSend(c) \/ StartSendRefused(c) PROVE Sync!Next
  BY <1>3, StartSendWrites, StartSendRefusedWrites
<1>4. CASE PollReady
  <2>1. task # NoTask
    BY <1>4 DEF PollReady
  <2> QED BY <1>4, <2>1, TakingOverWritesNothing
<1>5. CASE PollClose
  <2>1. CASE task # NoTask \/ WriterAfter(task)
    BY <1>5, <2>1, TakingOverWritesNothing
  <2>2. CASE task = NoTask /\ ~WriterAfter(task)
    <3>1. /\ task' = NoTask /\ offset' = OffsetAfter(task)
          /\ dictBlocks' = DictBlocksAfter(task) /\ recBlocks' = RecBlocksAfter(task)
          /\ UNCHANGED << file, tracker, accepted, lost, failed, faults >>
      BY <1>5, <2>2 DEF PollClose
    <3> QED BY <2>2, <3>1, NobodyAfter, OthersWriteNothing DEF NothingAfter
  <2> QED BY <2>1, <2>2
<1>6. CASE Close \/ UNCHANGED vars
  <2>1. UNCHANGED << file, task, offset, dictBlocks, recBlocks, tracker, accepted, lost, failed,
                     faults >>
    BY <1>6 DEF Close, vars
  <2> QED BY <2>1, OthersWriteNothing
<1> QED BY <1>1, <1>2, <1>3, <1>4, <1>5, <1>6 DEF Next

\* SinkIsFileWriter: what a FileSink does to its file, message by message, error
\* by error, whichever polls drive it, is what a FileWriter may do.
THEOREM SinkImplementsFileWriter == Spec => SinkIsFileWriter
<1>1. Init => Sync!Init
  BY SinkInitWrites
<1>2. SinkInv /\ SinkInv' /\ [Next]_vars => [Sync!Next]_(Sync!vars)
  BY SinkStepWrites
<1>3. Spec => []SinkInv
  BY SinkIsSafe
<1>4. Spec => Sync!Spec
  BY <1>1, <1>2, <1>3, PTL DEF Spec, Sync!Spec
<1> QED BY <1>4 DEF SinkIsFileWriter
-----------------------------------------------------------------------------
(* What was proved of FileWriter's file, said of the sink's.                *)

Written == INSTANCE IpcFileWriterProofs WITH
  pos <- Len(file), state <- WriterState, blockOffset <- WriterOffset,
  dictBlocks <- WriterDicts, recBlocks <- WriterRecs,
  call <- WriterCall, chunk <- WriterChunk, pending <- WriterPending, footer <- WriterFooter,
  accepted <- WriterAccepted, committed <- WriterCommitted, broken <- failed # NoTask,
  spoiled <- FALSE,
  sessions <- 0, MaxSessions <- 0, RetryAfterError <- FALSE, Unreadable <- NoDict

\* It writes the same cells and encodes the same way.
LEMMA SameCells ==
  /\ Written!Cont = Sync!Cont /\ Written!Torn = Sync!Torn /\ Written!NoChunk = Sync!NoChunk
  /\ Written!NoFooter = Sync!NoFooter /\ Written!StartCells = Sync!StartCells
  /\ Written!HeaderSize = Sync!HeaderSize /\ Written!MessageSize = Sync!MessageSize
  /\ Written!EmptyTracker = Sync!EmptyTracker /\ Written!Chunks = Sync!Chunks
  /\ \A x : /\ Written!Message(x) = Sync!Message(x)
            /\ Written!FooterCells(x) = Sync!FooterCells(x)
  /\ \A d, v : Written!Dict(d, v) = Sync!Dict(d, v) /\ Written!Footer(d, v) = Sync!Footer(d, v)
  /\ \A k : Written!Record(k) = Sync!Record(k)
  /\ \A f, n, c : Written!WriteAt(f, n, c) = Sync!WriteAt(f, n, c)
  /\ \A c : Written!TornPrefixes(c) = Sync!TornPrefixes(c)
  /\ \A f : Written!HasFooter(f) <=> Sync!HasFooter(f)
<1>1. Written!Columns = Sync!Columns
  BY DEF Written!Columns, Sync!Columns
<1>2. /\ Written!Cont = Sync!Cont /\ Written!Torn = Sync!Torn /\ Written!NoChunk = Sync!NoChunk
      /\ Written!Magic = Sync!Magic /\ Written!Schema = Sync!Schema
      /\ Written!Trailer = Sync!Trailer /\ Written!EmptyTracker = Sync!EmptyTracker
      /\ Written!Chunks = Sync!Chunks
  BY <1>1 DEF Written!Cont, Sync!Cont, Written!Torn, Sync!Torn, Written!NoChunk, Sync!NoChunk,
     Written!Magic, Sync!Magic, Written!Schema, Sync!Schema, Written!Trailer, Sync!Trailer,
     Written!EmptyTracker, Sync!EmptyTracker, Written!Chunks, Sync!Chunks
<1>3. /\ \A d, v : /\ Written!Dict(d, v) = Sync!Dict(d, v)
                   /\ Written!Footer(d, v) = Sync!Footer(d, v)
      /\ \A k : Written!Record(k) = Sync!Record(k)
      /\ Written!HeaderSize = Sync!HeaderSize /\ Written!MessageSize = Sync!MessageSize
  BY DEF Written!Dict, Sync!Dict, Written!Footer, Sync!Footer, Written!Record, Sync!Record,
     Written!HeaderSize, Sync!HeaderSize, Written!MessageSize, Sync!MessageSize
<1>4. \A x : Written!Message(x) = Sync!Message(x) /\ Written!FooterCells(x) = Sync!FooterCells(x)
  BY <1>2 DEF Written!Message, Sync!Message, Written!FooterCells, Sync!FooterCells
<1>5. Written!StartCells = Sync!StartCells /\ Written!NoFooter = Sync!NoFooter
  BY <1>2, <1>3, <1>4 DEF Written!StartCells, Sync!StartCells, Written!NoFooter, Sync!NoFooter
<1>6. \A f, n, c : Written!WriteAt(f, n, c) = Sync!WriteAt(f, n, c)
  BY <1>2 DEF Written!WriteAt, Sync!WriteAt
<1>7. \A c : Written!TornPrefixes(c) = Sync!TornPrefixes(c)
  BY <1>2 DEF Written!TornPrefixes, Sync!TornPrefixes
<1>8. \A f : Written!HasFooter(f) <=> Sync!HasFooter(f)
  BY <1>2 DEF Written!HasFooter, Sync!HasFooter, Written!FooterStart, Sync!FooterStart
<1> QED BY <1>2, <1>3, <1>4, <1>5, <1>6, <1>7, <1>8

LEMMA SameTracking ==
  /\ \A t, ds : Written!Emitted(t, ds) = Sync!Emitted(t, ds)
  /\ \A t, ds, b : /\ Written!Tracked(t, ds, b) = Sync!Tracked(t, ds, b)
                   /\ Written!Encodable(t, ds, b) <=> Sync!Encodable(t, ds, b)
  /\ \A t, ds, S : Written!Recorded(t, ds, S) = Sync!Recorded(t, ds, S)
  /\ \A t, ds, b, S : Written!Refusals(t, ds, b, S) = Sync!Refusals(t, ds, b, S)
  /\ \A t, ds, n : Written!Left(t, ds, n) = Sync!Left(t, ds, n)
<1>1. Written!Columns = Sync!Columns
  BY DEF Written!Columns, Sync!Columns
<1>2. ASSUME NEW S PROVE Written!Greatest(S) = Sync!Greatest(S)
  BY DEF Written!Greatest, Sync!Greatest
<1>3. ASSUME NEW t, NEW ds, NEW i PROVE Written!Seen(t, ds, i) = Sync!Seen(t, ds, i)
  BY <1>2 DEF Written!Seen, Sync!Seen
<1>4. ASSUME NEW t, NEW ds, NEW i PROVE Written!Emits(t, ds, i) <=> Sync!Emits(t, ds, i)
  BY <1>3 DEF Written!Emits, Sync!Emits
<1>5. ASSUME NEW t, NEW ds, NEW i PROVE Written!Replaces(t, ds, i) <=> Sync!Replaces(t, ds, i)
  BY <1>3, <1>4 DEF Written!Replaces, Sync!Replaces
<1>6. ASSUME NEW t, NEW ds, NEW b PROVE Written!Inserted(t, ds, b) = Sync!Inserted(t, ds, b)
  BY <1>1, <1>5 DEF Written!Inserted, Sync!Inserted
<1>7. ASSUME NEW t, NEW ds, NEW S PROVE Written!Recorded(t, ds, S) = Sync!Recorded(t, ds, S)
  BY <1>2 DEF Written!Recorded, Sync!Recorded
<1>8. ASSUME NEW t, NEW ds, NEW b
      PROVE  /\ Written!Tracked(t, ds, b) = Sync!Tracked(t, ds, b)
             /\ Written!Encodable(t, ds, b) <=> Sync!Encodable(t, ds, b)
  BY <1>1, <1>6, <1>7 DEF Written!Tracked, Sync!Tracked, Written!Encodable, Sync!Encodable
<1>9. ASSUME NEW t, NEW ds PROVE Written!Emitted(t, ds) = Sync!Emitted(t, ds)
  BY <1>1, <1>4 DEF Written!Emitted, Sync!Emitted
<1>10. ASSUME NEW t, NEW ds, NEW b, NEW S
       PROVE  Written!Refusals(t, ds, b, S) = Sync!Refusals(t, ds, b, S)
  BY <1>1, <1>6 DEF Written!Refusals, Sync!Refusals
<1>11. ASSUME NEW t, NEW ds, NEW n PROVE Written!Left(t, ds, n) = Sync!Left(t, ds, n)
  BY <1>9 DEF Written!Left, Sync!Left
<1> QED BY <1>7, <1>8, <1>9, <1>10, <1>11

\* It is the same FileWriter, which here is not reopened.
LEMMA SameWriter ==
  /\ Sync!Init => Written!Init
  /\ [Sync!Next]_(Sync!vars) => [Written!Next]_(Written!vars)
<1>1. Sync!Init => Written!Init
  BY SameCells DEF Sync!Init, Written!Init
<1>2. ASSUME NEW c, Sync!Put(c) PROVE Written!Put(c)
  BY <1>2, SameCells DEF Sync!Put, Written!Put
<1>3. ASSUME NEW c, Sync!PutFails(c) PROVE Written!PutFails(c)
  BY <1>2, <1>3, SameCells DEF Sync!PutFails, Written!PutFails
<1>4. Sync!Usable <=> Written!Usable
  BY DEF Sync!Usable, Written!Usable
<1>5. ASSUME Sync!Start \/ Sync!StartFails PROVE Written!Start \/ Written!StartFails
  BY <1>2, <1>3, <1>4, <1>5, SameCells
     DEF Sync!Start, Written!Start, Sync!StartFails, Written!StartFails, Sync!blocks, Sync!losses,
         Written!blocks, Written!losses
<1>6. ASSUME NEW c, Sync!Write(c) PROVE Written!Write(c)
  BY <1>4, <1>6, SameTracking
     DEF Sync!Write, Written!Write, Sync!blocks, Sync!losses, Written!blocks, Written!losses,
         Sync!disk, Written!disk
<1>7. ASSUME NEW c, Sync!WriteRefused(c) PROVE Written!WriteRefused(c)
  BY <1>4, <1>7, SameTracking
     DEF Sync!WriteRefused, Written!WriteRefused, Sync!blocks, Sync!losses, Written!blocks,
         Written!losses, Sync!disk, Written!disk
<1>8. ASSUME Sync!WriteDictionary PROVE Written!WriteDictionary
  BY <1>2, <1>8, SameCells
  DEF Sync!WriteDictionary, Written!WriteDictionary, Sync!losses, Written!losses
<1>9. ASSUME Sync!WriteRecord PROVE Written!WriteRecord
  BY <1>2, <1>9, SameCells DEF Sync!WriteRecord, Written!WriteRecord
<1>10. ASSUME Sync!WriteFails PROVE Written!WriteFails
  BY <1>3, <1>10, SameCells
  DEF Sync!WriteFails, Written!WriteFails, Sync!blocks, Sync!losses, Written!blocks, Written!losses
<1>11. ASSUME Sync!FinishEos PROVE Written!FinishEos
  BY <1>2, <1>4, <1>11, SameCells DEF Sync!FinishEos, Written!FinishEos, Sync!losses, Written!losses
<1>12. ASSUME Sync!FinishFooter PROVE Written!FinishFooter
  BY <1>2, <1>12, SameCells
  DEF Sync!FinishFooter, Written!FinishFooter, Sync!blocks, Sync!losses, Written!blocks,
      Written!losses
<1>13. ASSUME Sync!FinishFails PROVE Written!FinishFails
  BY <1>3, <1>4, <1>13, SameCells
     DEF Sync!FinishFails, Written!FinishFails, Sync!blocks, Sync!losses, Written!blocks,
         Written!losses
<1>14. ASSUME Sync!DropWriter PROVE Written!DropWriter
  BY <1>14, SameCells
     DEF Sync!DropWriter, Written!DropWriter, Sync!blocks, Sync!losses, Written!blocks,
         Written!losses, Sync!disk, Written!disk
<1>15. ~Sync!TryFromFile
  BY DEF Sync!TryFromFile
<1>16. ASSUME Sync!Next PROVE Written!Next
  <2>1. Sync!Chunks = Written!Chunks
    BY SameCells
  <2> QED BY <1>5, <1>6, <1>7, <1>8, <1>9, <1>10, <1>11, <1>12, <1>13, <1>14, <1>15, <1>16, <2>1
          DEF Sync!Next, Written!Next
<1>17. ASSUME UNCHANGED Sync!vars PROVE UNCHANGED Written!vars
  BY <1>17
  DEF Sync!vars, Sync!blocks, Sync!losses, Sync!disk, Written!vars, Written!blocks, Written!losses,
      Written!disk
<1> QED BY <1>1, <1>16, <1>17

\* It reads a file the same way.
LEMMA SameReading ==
  ASSUME NEW f
  PROVE  /\ Written!HasFooter(f) <=> HasFooter(f)
         /\ Written!LastFooter(f) = LastFooter(f)
         /\ \A ds, rs : /\ Written!Readable(f, ds, rs) <=> Readable(f, ds, rs)
                        /\ Written!Decode(f, ds, rs) = Decode(f, ds, rs)
<1>1. Written!Columns = Columns
  BY DEF Written!Columns, Columns
<1>2. Written!HasFooter(f) <=> HasFooter(f)
  BY SameCells, SameEncoding
<1>3. Written!LastFooter(f) = LastFooter(f)
  BY DEF Written!LastFooter, LastFooter, Written!FooterStart, FooterStart
<1>4. ASSUME NEW b PROVE Written!Payload(f, b) = Payload(f, b)
  BY DEF Written!Payload, Payload, Written!MessageSize, MessageSize, Written!Torn, Torn
<1>5. ASSUME NEW ds, NEW d PROVE Written!DictOf(f, ds, d) = DictOf(f, ds, d)
  <2>1. \A S : Written!Greatest(S) = Greatest(S)
    BY DEF Written!Greatest, Greatest
  <2> QED BY <1>4, <2>1 DEF Written!DictOf, DictOf
<1>6. ASSUME NEW ds, NEW rs
      PROVE  /\ Written!Readable(f, ds, rs) <=> Readable(f, ds, rs)
             /\ Written!Decode(f, ds, rs) = Decode(f, ds, rs)
  BY <1>1, <1>4, <1>5 DEF Written!Readable, Readable, Written!Decode, Decode
<1> QED BY <1>2, <1>3, <1>6

\* A sink that closed without an error has finished its file.
LEMMA CloseFinishes ==
  ASSUME SinkInv, closed, failed = NoTask, ~refused
  PROVE  Finished /\ HasFooter(file) /\ WriterCommitted = accepted
<1>1. task = NoTask /\ ~writer
  BY DEF SinkInv, OneWriter
<1>2. offset = 0
  BY <1>1 DEF SinkInv, OneWriter
<1>3. Finished
  BY <1>1, <1>2, NobodyEnded DEF Finished
<1>4. HasFooter(file)
  BY <1>3 DEF SinkInv, FileIsOfTheTask
<1> QED BY <1>3, <1>4 DEF WriterCommitted

\* ClosedReadsBack: a close that returns Ok, if no call failed before, leaves a
\* file that reads back every chunk start_send accepted -- whichever polls drove
\* the tasks and were given up in between, if no two columns share a dictionary id.
THEOREM ClosedSinkReadsBack ==
  ASSUME UniqueFields
  PROVE  Spec => []ClosedReadsBack
<1>1. Written!Contract
  BY DEF UniqueFields, Columns, Written!Contract, Written!UniqueFields, Written!Columns
<1>2. Written!Init => Written!IInv
  BY Written!InitStep, FieldsAssumption, NoDictAssumption, FooterSizeAssumption, StopsAssumption
     DEF Written!IInv, Written!Intact
<1>3. Written!IInv /\ [Written!Next]_(Written!vars) => Written!IInv'
  BY <1>1, Written!NextStep, FieldsAssumption, NoDictAssumption, FooterSizeAssumption,
     StopsAssumption
<1>4. SinkInv /\ Written!IInv => ClosedReadsBack
  <2> SUFFICES ASSUME SinkInv, Written!IInv, closed, failed = NoTask, ~refused
               PROVE  /\ HasFooter(file)
                      /\ Readable(file, LastFooter(file).dictionaries, LastFooter(file).records)
                      /\ Decode(file, LastFooter(file).dictionaries, LastFooter(file).records)
                         = accepted
    BY DEF ClosedReadsBack
  <2>1. HasFooter(file) /\ WriterCommitted = accepted
    BY CloseFinishes
  <2>2. Written!HasFooter(file) /\ Written!LastFooter(file) = LastFooter(file)
    BY <2>1, SameReading
  <2>3. Written!ReadsAs(file, LastFooter(file).dictionaries, LastFooter(file).records,
                        WriterCommitted)
    BY <2>2 DEF Written!IInv, Written!Intact, Written!FooterInv
  <2> QED BY <2>1, <2>3, SameReading DEF Written!ReadsAs
<1> QED BY <1>2, <1>3, <1>4, SameWriter, SinkIsSafe, SinkImplementsFileWriter, PTL
        DEF SinkIsFileWriter, Sync!Spec
-----------------------------------------------------------------------------
(* The sink of Parquet: its file.                                           *)

\* The cells up to the n-th of the file f are columns.
ColumnsTo(f, n) == \A i \in 1 .. n : f[i].kind = "column"

\* The row groups gs, all before cell n of the file f, hold the first m chunks of cs.
GroupsHold(f, cs, gs, m, n) ==
  /\ Len(gs) = m
  /\ \A k \in 1 .. m :
       /\ gs[k] + Width <= n
       /\ \A i \in 1 .. Width : f[gs[k] + i].value = cs[k][i]

\* What a FileStreamer has counted is on the file; there is no footer.
Counted(f, cs, streamer, m) ==
  /\ streamer.offset <= Len(f)
  /\ ColumnsTo(f, Len(f))
  /\ GroupsHold(f, cs, streamer.groups, m, streamer.offset)

\* The file f ends with a footer: that of its row groups, which hold cs.
FooterEnds(f, cs, gs, es) ==
  /\ Len(f) # 0 /\ f[Len(f)] = Parquet!Footer(gs, es)
  /\ ColumnsTo(f, Len(f) - 1)
  /\ GroupsHold(f, cs, gs, Len(cs), Len(f) - 1)

\* Every entry put in is in the footer or still in the sink.
EntriesKept(es) == es \cup parquetMetadata = parquetInserted /\ es \cap parquetMetadata = {}

WriterInSink ==
  parquetWriter # Parquet!None =>
    /\ Counted(parquetFile, parquetAccepted, Head(parquetWriter), Len(parquetAccepted))
    /\ Head(parquetWriter).offset = Len(parquetFile)
    /\ parquetMetadata = parquetInserted

\* The write task writes the last chunk accepted, behind the others.
WriterInWrite ==
  parquetTask.kind = "write" =>
    /\ parquetTask.chunk \in Parquet!Chunks
    /\ Len(parquetAccepted) # 0
    /\ parquetTask.chunk = parquetAccepted[Len(parquetAccepted)]
    /\ Counted(parquetFile, parquetAccepted, parquetTask.streamer, Len(parquetAccepted) - 1)
    /\ Len(parquetFile) = parquetTask.streamer.offset + parquetTask.done
    /\ \A i \in 1 .. parquetTask.done :
         parquetFile[parquetTask.streamer.offset + i].value = parquetTask.chunk[i]
    /\ parquetMetadata = parquetInserted

WriterInFinish ==
  parquetTask.kind = "finish" =>
    /\ IF parquetTask.done = 0
         THEN /\ Counted(parquetFile, parquetAccepted, parquetTask.streamer, Len(parquetAccepted))
              /\ parquetTask.streamer.offset = Len(parquetFile)
         ELSE FooterEnds(parquetFile, parquetAccepted, parquetTask.streamer.groups, parquetTask.metadata)
    /\ EntriesKept(parquetTask.metadata)

\* Without an error the writer is gone when the footer is on the file.
WriterGone ==
  parquetFailed = "no" /\ parquetTask = Parquet!NoTask /\ parquetWriter = Parquet!None =>
    \E gs \in Seq(Nat), es \in SUBSET Entries :
      FooterEnds(parquetFile, parquetAccepted, gs, es) /\ EntriesKept(es)

NoTaskIsOne == parquetTask.kind = "none" => parquetTask = Parquet!NoTask

ParquetInv ==
  /\ Parquet!TypeOK /\ Parquet!OneWriter /\ NoTaskIsOne
  /\ WriterInSink /\ WriterInWrite /\ WriterInFinish /\ WriterGone

\* The type of a cell of the file.
ParquetCells ==
  [kind: {"column", "footer"}, value: Values \cup {NoPages},
   groups: Seq(Nat), metadata: SUBSET Entries]

\* The type of a task.
ParquetTasks ==
  [kind: {"none", "write", "finish"}, chunk: {<< >>} \cup Parquet!Chunks,
   streamer: Parquet!Streamers, metadata: SUBSET Entries, done: Nat]
-----------------------------------------------------------------------------
\* What is on a file stays where it is when the file grows.
LEMMA GroupsStay ==
  ASSUME NEW f, NEW g, NEW cs, NEW ds, NEW gs \in Seq(Nat), NEW m \in Nat, NEW n \in Nat,
         NEW p \in Nat, n <= p,
         GroupsHold(f, cs, gs, m, n),
         \A i \in 1 .. n : g[i] = f[i],
         \A k \in 1 .. m : ds[k] = cs[k]
  PROVE  GroupsHold(g, ds, gs, m, p)
<1>1. Len(gs) = m
  BY DEF GroupsHold
<1>2. ASSUME NEW k \in 1 .. m PROVE gs[k] \in Nat /\ gs[k] + Width <= p
  BY <1>1, <1>2, ParquetAssumption DEF GroupsHold
<1>3. ASSUME NEW k \in 1 .. m, NEW i \in 1 .. Width PROVE g[gs[k] + i].value = ds[k][i]
  <2>1. gs[k] + i \in 1 .. n
    BY <1>2, ParquetAssumption DEF GroupsHold
  <2>2. f[gs[k] + i].value = cs[k][i]
    BY DEF GroupsHold
  <2> QED BY <2>1, <2>2
<1> QED BY <1>1, <1>2, <1>3 DEF GroupsHold

\* A row group that is written is one more.
LEMMA GroupsGrow ==
  ASSUME NEW f, NEW cs, NEW gs \in Seq(Nat), NEW m \in Nat, NEW n \in Nat,
         GroupsHold(f, cs, gs, m, n),
         \A i \in 1 .. Width : f[n + i].value = cs[m + 1][i]
  PROVE  GroupsHold(f, cs, Append(gs, n), m + 1, n + Width)
<1> DEFINE hs == Append(gs, n)
<1>1. Len(gs) = m
  BY DEF GroupsHold
<1>2. Len(hs) = m + 1 /\ hs[m + 1] = n /\ \A k \in 1 .. m : hs[k] = gs[k]
  BY <1>1
<1> HIDE DEF hs
<1>3. ASSUME NEW k \in 1 .. m + 1
      PROVE  hs[k] + Width <= n + Width /\ \A i \in 1 .. Width : f[hs[k] + i].value = cs[k][i]
  <2>1. CASE k = m + 1
    BY <1>2, <2>1, ParquetAssumption
  <2>2. CASE k \in 1 .. m
    <3>1. gs[k] \in Nat /\ gs[k] + Width <= n
      BY <1>1, <2>2 DEF GroupsHold
    <3>2. \A i \in 1 .. Width : f[gs[k] + i].value = cs[k][i]
      BY <2>2 DEF GroupsHold
    <3>3. hs[k] = gs[k]
      BY <1>2, <2>2
    <3>4. gs[k] + Width <= n + Width
      BY <3>1, ParquetAssumption
    <3> QED BY <3>2, <3>3, <3>4
  <2>3. k = m + 1 \/ k \in 1 .. m
    OBVIOUS
  <2> QED BY <2>1, <2>2, <2>3
<1>4. GroupsHold(f, cs, hs, m + 1, n + Width)
  BY <1>2, <1>3 DEF GroupsHold
<1> QED BY <1>4 DEF hs

\* What a task writes.
LEMMA ParquetSteps ==
  ASSUME ParquetInv
  PROVE  /\ parquetTask.kind = "none" =>
              parquetTask = Parquet!NoTask /\ Parquet!Ended(parquetTask)
         /\ parquetTask.kind = "write" =>
              /\ Len(parquetTask.chunk) = Width
              /\ Len(Parquet!Steps(parquetTask)) = Width
              /\ \A i \in 1 .. Width :
                   Parquet!Steps(parquetTask)[i] = << Parquet!Column(parquetTask.chunk[i]) >>
         /\ parquetTask.kind = "finish" =>
              Parquet!Steps(parquetTask) =
                << << Parquet!Footer(parquetTask.streamer.groups, parquetTask.metadata) >>, << >> >>
<1>1. CASE parquetTask.kind = "none"
  <2>1. parquetTask = Parquet!NoTask
    BY <1>1 DEF ParquetInv, NoTaskIsOne
  <2>2. Parquet!Steps(parquetTask) = << >> /\ parquetTask.done = 0
    BY <2>1 DEF Parquet!Steps, Parquet!NoTask
  <2> QED BY <1>1, <2>1, <2>2 DEF Parquet!Ended
<1>2. CASE parquetTask.kind = "write"
  <2>1. parquetTask.chunk \in [1 .. Width -> Values \cup {NoPages, NoColumn}]
    BY <1>2 DEF ParquetInv, WriterInWrite, Parquet!Chunks
  <2>2. Len(parquetTask.chunk) = Width
    BY <2>1, ParquetAssumption
  <2>3. Parquet!Steps(parquetTask) = [i \in 1 .. Width |-> << Parquet!Column(parquetTask.chunk[i]) >>]
    BY <1>2, <2>2 DEF Parquet!Steps
  <2> QED BY <1>2, <2>2, <2>3, ParquetAssumption
<1>3. CASE parquetTask.kind = "finish"
  BY <1>3 DEF Parquet!Steps
<1> QED BY <1>1, <1>2, <1>3 DEF ParquetInv, Parquet!TypeOK
LEMMA CellAppended ==
  ASSUME NEW S, NEW f \in Seq(S), NEW x \in S
  PROVE  /\ f \o << x >> \in Seq(S)
         /\ Len(f \o << x >>) = Len(f) + 1
         /\ (f \o << x >>)[Len(f) + 1] = x
         /\ \A i \in 1 .. Len(f) : (f \o << x >>)[i] = f[i]
OBVIOUS

\* The parts of TypeOK that the steps below speak of.
LEMMA ParquetTypes ==
  ASSUME ParquetInv
  PROVE  /\ parquetFile \in Seq(ParquetCells) /\ Len(parquetFile) \in Nat
         /\ parquetAccepted \in Seq(Parquet!Chunks) /\ Len(parquetAccepted) \in Nat
         /\ parquetTask \in ParquetTasks
         /\ parquetTask.done \in Nat
         /\ parquetTask.streamer.offset \in Nat /\ parquetTask.streamer.groups \in Seq(Nat)
         /\ parquetTask.metadata \subseteq Entries
BY DEF ParquetInv, Parquet!TypeOK, Parquet!Streamers, ParquetCells, ParquetTasks

LEMMA TaskAdvanced ==
  ASSUME NEW t \in ParquetTasks, NEW u, u = [t EXCEPT !.done = t.done + 1]
  PROVE  /\ u \in ParquetTasks
         /\ u.kind = t.kind /\ u.chunk = t.chunk /\ u.streamer = t.streamer
         /\ u.metadata = t.metadata /\ u.done = t.done + 1
BY DEF ParquetTasks

\* At first the sink has a FileStreamer that has counted nothing.
LEMMA ParquetStart == Parquet!Init => ParquetInv
<1> SUFFICES ASSUME Parquet!Init PROVE ParquetInv
  OBVIOUS
<1>1. /\ parquetFile = << >> /\ parquetWriter = << Parquet!NewStreamer >>
      /\ parquetTask = Parquet!NoTask /\ parquetTask.kind = "none" /\ parquetTask.done = 0
      /\ parquetAccepted = << >> /\ parquetFailed = "no"
      /\ parquetMetadata = {} /\ parquetInserted = {}
  BY DEF Parquet!Init, Parquet!Some, Parquet!NoTask
<1>2. Parquet!NewStreamer \in Parquet!Streamers
  BY DEF Parquet!NewStreamer, Parquet!Streamers
<1>3. Parquet!TypeOK
  <2>1. Head(parquetWriter) = Parquet!NewStreamer
    BY <1>1
  <2>2. Parquet!Steps(parquetTask) = << >>
    BY <1>1 DEF Parquet!Steps
  <2>3. parquetTask \in ParquetTasks
    BY <1>1, <1>2 DEF Parquet!NoTask, ParquetTasks
  <2>4. /\ parquetClosing \in BOOLEAN /\ parquetClosed \in BOOLEAN /\ parquetFaults \in Nat
        /\ parquetAccepted \in Seq(Parquet!Chunks) /\ parquetFile \in Seq(ParquetCells)
    <3>1. parquetAccepted \in Seq(Parquet!Chunks)
      BY <1>1
    <3>2. parquetFile \in Seq(ParquetCells)
      BY <1>1
    <3> QED BY <3>1, <3>2 DEF Parquet!Init
  <2>5. parquetTask.done <= Len(Parquet!Steps(parquetTask))
    BY <1>1, <2>2
  <2>6. parquetWriter = << Head(parquetWriter) >> /\ Head(parquetWriter) \in Parquet!Streamers
    BY <1>1, <1>2, <2>1
  <2> QED BY <1>1, <2>3, <2>4, <2>5, <2>6
          DEF Parquet!TypeOK, Parquet!Some, ParquetTasks, ParquetCells
<1>4. parquetWriter # Parquet!None /\ Head(parquetWriter).offset = 0 /\ Head(parquetWriter).groups = << >>
  BY <1>1 DEF Parquet!None, Parquet!NewStreamer
<1>5. WriterInSink
  BY <1>1, <1>4 DEF WriterInSink, Counted, ColumnsTo, GroupsHold
<1> QED BY <1>1, <1>3, <1>4, <1>5
        DEF ParquetInv, Parquet!OneWriter, NoTaskIsOne, WriterInWrite, WriterInFinish, WriterGone
-----------------------------------------------------------------------------
\* A column that the write task writes.
LEMMA ColumnWritten ==
  ASSUME ParquetInv, Parquet!PollTask, parquetTask.kind = "write"
  PROVE  ParquetInv'
<1> DEFINE n == parquetTask.done + 1
           x == Parquet!Column(parquetTask.chunk[n])
           s == parquetTask.streamer
<1>1. /\ parquetFile \in Seq(ParquetCells) /\ Len(parquetFile) \in Nat
      /\ parquetAccepted \in Seq(Parquet!Chunks) /\ Len(parquetAccepted) \in Nat
      /\ parquetTask.done \in Nat /\ s.offset \in Nat /\ s.groups \in Seq(Nat)
  BY ParquetTypes
<1>2. /\ n \in 1 .. Width /\ Parquet!Steps(parquetTask)[n] = << x >>
      /\ parquetTask.chunk[n] \in Values
  <2>1. parquetTask.done # Width /\ parquetTask.done <= Width
    BY ParquetSteps DEF Parquet!PollTask, Parquet!Ended, ParquetInv, Parquet!TypeOK
  <2>2. n \in 1 .. Width
    BY <1>1, <2>1, ParquetAssumption
  <2>3. Parquet!Upcoming(parquetTask) = {parquetTask.chunk[n]}
    BY DEF Parquet!PollTask, Parquet!Upcoming
  <2> QED BY <2>2, <2>3, ParquetSteps DEF Parquet!PollTask
<1>3. x \in ParquetCells /\ x.kind = "column" /\ x.value = parquetTask.chunk[n]
  BY <1>2 DEF Parquet!Column, ParquetCells
<1>4. /\ parquetFile' \in Seq(ParquetCells) /\ Len(parquetFile') = Len(parquetFile) + 1
      /\ parquetFile'[Len(parquetFile) + 1] = x
      /\ \A i \in 1 .. Len(parquetFile) : parquetFile'[i] = parquetFile[i]
  <2>1. parquetFile' = parquetFile \o << x >>
    BY <1>2 DEF Parquet!PollTask
  <2> HIDE DEF x
  <2> QED BY <1>1, <1>3, <2>1, CellAppended
<1>5. /\ parquetTask' = [parquetTask EXCEPT !.done = n]
      /\ UNCHANGED << parquetWriter, parquetMetadata, parquetClosing, parquetClosed,
                      parquetAccepted, parquetInserted, parquetFailed, parquetFaults >>
  BY DEF Parquet!PollTask
<1>6. /\ parquetTask'.kind = "write" /\ parquetTask'.chunk = parquetTask.chunk
      /\ parquetTask'.streamer = s /\ parquetTask'.metadata = parquetTask.metadata
      /\ parquetTask'.done = n
      /\ parquetTask' \in ParquetTasks
  BY <1>5, ParquetTypes, TaskAdvanced
<1>7. Parquet!TypeOK'
  <2>1. Len(Parquet!Steps(parquetTask')) = Len(parquetTask.chunk)
    BY <1>6, ParquetSteps, ParquetAssumption DEF Parquet!Steps
  <2>2. parquetTask'.done <= Len(Parquet!Steps(parquetTask'))
    BY <1>2, <1>6, <2>1, ParquetSteps
  <2> QED BY <1>4, <1>5, <1>6, <2>2 DEF ParquetInv, Parquet!TypeOK, ParquetCells, ParquetTasks
<1>8. parquetWriter = Parquet!None /\ parquetFailed = "no"
  <2>1. parquetTask # Parquet!NoTask
    BY DEF Parquet!NoTask
  <2>2. NoColumn \notin Parquet!Upcoming(parquetTask)
    BY ParquetAssumption DEF Parquet!PollTask
  <2> QED BY <2>1, <2>2 DEF ParquetInv, Parquet!OneWriter
<1>9. parquetTask' # Parquet!NoTask
  BY <1>6 DEF Parquet!NoTask
<1>10. WriterInWrite'
  <2> DEFINE m == Len(parquetAccepted)
  <2>1. /\ parquetTask.chunk \in Parquet!Chunks /\ m # 0 /\ parquetTask.chunk = parquetAccepted[m]
        /\ Counted(parquetFile, parquetAccepted, s, m - 1)
        /\ Len(parquetFile) = s.offset + parquetTask.done
        /\ \A i \in 1 .. parquetTask.done : parquetFile[s.offset + i].value = parquetTask.chunk[i]
        /\ parquetMetadata = parquetInserted
    BY DEF ParquetInv, WriterInWrite
  <2>2. Len(parquetFile') = s.offset + n
    BY <1>1, <1>4, <2>1
  <2>3. ASSUME NEW i \in 1 .. n PROVE parquetFile'[s.offset + i].value = parquetTask.chunk[i]
    <3>1. CASE i = n
      <4>1. s.offset + n = Len(parquetFile) + 1
        <5>1. Len(parquetFile) = s.offset + parquetTask.done
          BY <2>1
        <5> HIDE DEF s
        <5> QED BY <1>1, <5>1
      <4>2. parquetFile'[s.offset + n] = x
        BY <1>4, <4>1
      <4> HIDE DEF n
      <4> QED BY <1>3, <3>1, <4>2
    <3>2. CASE i \in 1 .. parquetTask.done
      <4>1. s.offset + i \in 1 .. Len(parquetFile)
        BY <1>1, <2>1, <3>2
      <4> QED BY <1>4, <2>1, <3>2, <4>1
    <3> QED BY <1>1, <3>1, <3>2
  <2>4. Counted(parquetFile', parquetAccepted, s, m - 1)
    <3>1. ColumnsTo(parquetFile', Len(parquetFile'))
      BY <1>1, <1>3, <1>4, <2>1 DEF Counted, ColumnsTo
    <3>2. GroupsHold(parquetFile', parquetAccepted, s.groups, m - 1, s.offset)
      <4>1. m - 1 \in Nat /\ s.offset <= s.offset
        BY <1>1, <2>1
      <4>2. \A i \in 1 .. s.offset : parquetFile'[i] = parquetFile[i]
        BY <1>1, <1>4, <2>1
      <4> QED BY <1>1, <2>1, <4>1, <4>2, GroupsStay, ZenonT(30) DEF Counted
    <3> QED BY <1>1, <1>2, <2>2, <3>1, <3>2 DEF Counted
  <2> QED BY <1>5, <1>6, <2>1, <2>2, <2>3, <2>4 DEF WriterInWrite
<1> QED BY <1>5, <1>6, <1>7, <1>8, <1>9, <1>10
        DEF ParquetInv, Parquet!OneWriter, NoTaskIsOne, WriterInSink, WriterInFinish, WriterGone

\* The footer, and then the end of the file.
LEMMA FooterWritten ==
  ASSUME ParquetInv, Parquet!PollTask, parquetTask.kind = "finish"
  PROVE  ParquetInv'
<1> DEFINE gs == parquetTask.streamer.groups
           es == parquetTask.metadata
           x == Parquet!Footer(gs, es)
<1>1. /\ parquetFile \in Seq(ParquetCells) /\ Len(parquetFile) \in Nat
      /\ parquetAccepted \in Seq(Parquet!Chunks) /\ Len(parquetAccepted) \in Nat
      /\ parquetTask.done \in Nat /\ gs \in Seq(Nat) /\ es \in SUBSET Entries
      /\ parquetTask \in ParquetTasks
  BY ParquetTypes
<1>2. /\ Parquet!Steps(parquetTask) = << << x >>, << >> >>
      /\ parquetTask.done = 0 \/ parquetTask.done = 1
  <2>1. Parquet!Steps(parquetTask) = << << x >>, << >> >>
    BY ParquetSteps
  <2>2. parquetTask.done # 2 /\ parquetTask.done <= 2
    BY <2>1 DEF Parquet!PollTask, Parquet!Ended, ParquetInv, Parquet!TypeOK
  <2> QED BY <1>1, <2>1, <2>2
<1>3. /\ parquetTask' = [parquetTask EXCEPT !.done = parquetTask.done + 1]
      /\ UNCHANGED << parquetWriter, parquetMetadata, parquetClosing, parquetClosed,
                      parquetAccepted, parquetInserted, parquetFailed, parquetFaults >>
      /\ parquetFile' = parquetFile \o Parquet!Steps(parquetTask)[parquetTask.done + 1]
  BY DEF Parquet!PollTask
<1>4. /\ parquetTask'.kind = "finish" /\ parquetTask'.streamer = parquetTask.streamer
      /\ parquetTask'.metadata = es /\ parquetTask'.done = parquetTask.done + 1
      /\ parquetTask' \in ParquetTasks
  BY <1>1, <1>3, TaskAdvanced
<1>5. x \in ParquetCells
  BY <1>1 DEF Parquet!Footer, ParquetCells
<1>6. /\ parquetFile' \in Seq(ParquetCells)
      /\ FooterEnds(parquetFile', parquetAccepted, gs, es)
  <2>1. CASE parquetTask.done = 0
    <3>1. /\ parquetFile' \in Seq(ParquetCells) /\ Len(parquetFile') = Len(parquetFile) + 1
          /\ parquetFile'[Len(parquetFile) + 1] = x
          /\ \A i \in 1 .. Len(parquetFile) : parquetFile'[i] = parquetFile[i]
      <4>1. parquetFile' = parquetFile \o << x >>
        BY <1>2, <1>3, <2>1
      <4> HIDE DEF x
      <4> QED BY <1>1, <1>5, <4>1, CellAppended
    <3>2. /\ ColumnsTo(parquetFile, Len(parquetFile))
          /\ GroupsHold(parquetFile, parquetAccepted, gs, Len(parquetAccepted), Len(parquetFile))
      BY <2>1 DEF ParquetInv, WriterInFinish, Counted
    <3>3. GroupsHold(parquetFile', parquetAccepted, gs, Len(parquetAccepted), Len(parquetFile))
      <4> DEFINE n == Len(parquetFile)
                 m == Len(parquetAccepted)
      <4>1. n \in Nat /\ m \in Nat /\ n <= n /\ gs \in Seq(Nat)
        BY <1>1
      <4> HIDE DEF n, m, gs
      <4> QED BY <3>1, <3>2, <4>1, GroupsStay DEF n, m
    <3>4. ColumnsTo(parquetFile', Len(parquetFile))
      BY <3>1, <3>2 DEF ColumnsTo
    <3>5. Len(parquetFile') - 1 = Len(parquetFile) /\ Len(parquetFile') # 0
      BY <1>1, <3>1
    <3>6. parquetFile'[Len(parquetFile')] = x
      BY <3>1
    <3> QED BY <3>1, <3>3, <3>4, <3>5, <3>6 DEF FooterEnds
  <2>2. CASE parquetTask.done = 1
    <3>1. parquetFile' = parquetFile
      <4>1. parquetFile' = parquetFile \o << >>
        BY <1>2, <1>3, <2>2
      <4> QED BY <1>1, <4>1
    <3> QED BY <1>1, <2>2, <3>1 DEF ParquetInv, WriterInFinish
  <2> QED BY <1>2, <2>1, <2>2
<1>7. Parquet!TypeOK'
  <2>1. Parquet!Steps(parquetTask') = Parquet!Steps(parquetTask)
    BY <1>4 DEF Parquet!Steps
  <2>2. parquetTask'.done <= Len(Parquet!Steps(parquetTask'))
    BY <1>2, <1>4, <2>1
  <2> QED BY <1>3, <1>4, <1>6, <2>2 DEF ParquetInv, Parquet!TypeOK, ParquetCells, ParquetTasks
<1>8. parquetWriter = Parquet!None /\ parquetFailed = "no"
  <2>1. parquetTask # Parquet!NoTask /\ NoColumn \notin Parquet!Upcoming(parquetTask)
    BY DEF Parquet!NoTask, Parquet!Upcoming
  <2> QED BY <2>1 DEF ParquetInv, Parquet!OneWriter
<1>9. parquetTask' # Parquet!NoTask
  BY <1>4 DEF Parquet!NoTask
<1>10. WriterInFinish'
  <2>1. parquetTask'.done # 0
    BY <1>1, <1>4
  <2>2. EntriesKept(es)'
    BY <1>3 DEF ParquetInv, WriterInFinish, EntriesKept
  <2> QED BY <1>3, <1>4, <1>6, <2>1, <2>2 DEF WriterInFinish, EntriesKept
<1> QED BY <1>3, <1>4, <1>7, <1>8, <1>9, <1>10
        DEF ParquetInv, Parquet!OneWriter, NoTaskIsOne, WriterInSink, WriterInWrite, WriterGone

\* A task that fails takes the writer with it, one that panics keeps it for good.
LEMMA ParquetFailures ==
  ASSUME ParquetInv, Parquet!PollFails \/ Parquet!EncodingFails \/ Parquet!EncodingPanics
  PROVE  ParquetInv'
<1>1. /\ parquetFile \in Seq(ParquetCells) /\ parquetTask \in ParquetTasks
      /\ parquetTask.kind # "none" => parquetTask # Parquet!NoTask
  BY ParquetTypes DEF Parquet!NoTask
<1>2. parquetTask.kind # "none"
  BY ParquetSteps DEF Parquet!PollFails, Parquet!EncodingFails, Parquet!EncodingPanics, Parquet!Upcoming
<1>3. parquetWriter = Parquet!None /\ parquetWriter' = parquetWriter
  BY <1>1, <1>2 DEF ParquetInv, Parquet!OneWriter, Parquet!PollFails, Parquet!EncodingFails,
                    Parquet!EncodingPanics
<1>4. CASE Parquet!PollFails \/ Parquet!EncodingFails
  <2>1. /\ parquetTask' = Parquet!NoTask /\ parquetFailed' = "error" /\ parquetClosing' = FALSE
        /\ parquetFaults' \in Nat
        /\ UNCHANGED << parquetMetadata, parquetClosed, parquetAccepted, parquetInserted >>
        /\ parquetFile' = parquetFile \/ parquetFile' = Append(parquetFile, Parquet!Torn)
    BY <1>4 DEF ParquetInv, Parquet!TypeOK, Parquet!PollFails, Parquet!EncodingFails, Parquet!Lost
  <2>2. parquetFile' \in Seq(ParquetCells)
    <3>1. Parquet!Torn \in ParquetCells
      <4>1. << >> \in Seq(Nat)
        OBVIOUS
      <4> QED BY <4>1 DEF Parquet!Torn, Parquet!Column, ParquetCells
    <3> HIDE DEF ParquetCells
    <3> QED BY <1>1, <2>1, <3>1
  <2>3. /\ parquetTask'.kind = "none" /\ parquetTask'.done = 0 /\ Len(Parquet!Steps(parquetTask')) = 0
        /\ parquetTask' \in ParquetTasks
    <3>1. Parquet!NoTask \in ParquetTasks
      BY DEF Parquet!NoTask, Parquet!NewStreamer, ParquetTasks, Parquet!Streamers
    <3> QED BY <2>1, <3>1 DEF Parquet!NoTask, Parquet!Steps
  <2>4. Parquet!TypeOK'
    <3>1. parquetTask'.done <= Len(Parquet!Steps(parquetTask'))
      BY <2>3
    <3>2. /\ parquetClosing' \in BOOLEAN /\ parquetClosed' \in BOOLEAN
          /\ parquetFailed' \in {"no", "error", "panic"}
      BY <2>1 DEF ParquetInv, Parquet!TypeOK
    <3> QED BY <1>3, <2>1, <2>2, <2>3, <3>1, <3>2
            DEF ParquetInv, Parquet!TypeOK, ParquetCells, ParquetTasks
  <2> QED BY <1>3, <2>1, <2>3, <2>4
          DEF ParquetInv, Parquet!OneWriter, NoTaskIsOne, WriterInSink, WriterInWrite,
              WriterInFinish, WriterGone
<1>5. CASE Parquet!EncodingPanics
  <2>1. /\ parquetFailed' = "panic" /\ parquetClosing' = FALSE
        /\ UNCHANGED << parquetFile, parquetWriter, parquetTask, parquetMetadata, parquetClosed,
                        parquetAccepted, parquetInserted, parquetFaults >>
        /\ NoColumn \in Parquet!Upcoming(parquetTask)
    BY <1>5 DEF Parquet!EncodingPanics
  <2>2. NoColumn \in Parquet!Upcoming(parquetTask')
    BY <2>1
  <2>3. Parquet!TypeOK'
    BY <2>1 DEF ParquetInv, Parquet!TypeOK
  <2> QED BY <1>1, <1>2, <1>3, <2>1, <2>2, <2>3
          DEF ParquetInv, Parquet!OneWriter, NoTaskIsOne, WriterInSink, WriterInWrite,
              WriterInFinish, WriterGone, EntriesKept
<1> QED BY <1>4, <1>5

\* The caller's own steps touch neither the file nor the writer.
LEMMA ParquetCalls ==
  ASSUME ParquetInv, Parquet!Close \/ \E e \in Entries : Parquet!Insert(e)
  PROVE  ParquetInv'
<1>1. /\ UNCHANGED << parquetFile, parquetWriter, parquetTask, parquetClosed, parquetAccepted,
                      parquetFailed, parquetFaults >>
      /\ parquetClosing' \in BOOLEAN
      /\ \/ UNCHANGED << parquetMetadata, parquetInserted >>
         \/ \E e \in Entries : /\ e \notin parquetInserted
                               /\ parquetMetadata' = parquetMetadata \cup {e}
                               /\ parquetInserted' = parquetInserted \cup {e}
  BY DEF Parquet!Close, Parquet!Insert, ParquetInv, Parquet!TypeOK
<1>2. /\ parquetInserted' \subseteq Entries /\ parquetMetadata' \subseteq parquetInserted'
      /\ parquetMetadata = parquetInserted => parquetMetadata' = parquetInserted'
  BY <1>1 DEF ParquetInv, Parquet!TypeOK
<1>3. ASSUME NEW es, EntriesKept(es)
      PROVE  es \cup parquetMetadata' = parquetInserted' /\ es \cap parquetMetadata' = {}
  BY <1>1, <1>3 DEF EntriesKept
<1>4. Parquet!TypeOK'
  BY <1>1, <1>2 DEF ParquetInv, Parquet!TypeOK
<1>5. Parquet!OneWriter' /\ NoTaskIsOne'
  BY <1>1 DEF ParquetInv, Parquet!OneWriter, NoTaskIsOne, Parquet!HasFooter, Parquet!LastCell
<1>6. WriterInSink' /\ WriterInWrite'
  BY <1>1, <1>2 DEF ParquetInv, WriterInSink, WriterInWrite
<1>7. WriterInFinish'
  BY <1>1, <1>3 DEF ParquetInv, WriterInFinish, EntriesKept
<1>8. WriterGone'
  BY <1>1, <1>3 DEF ParquetInv, WriterGone, EntriesKept
<1> QED BY <1>4, <1>5, <1>6, <1>7, <1>8 DEF ParquetInv

\* A file that ends with a footer has one.
LEMMA FooterIsOne ==
  ASSUME NEW gs, NEW es, FooterEnds(parquetFile, parquetAccepted, gs, es),
         parquetFile \in Seq(ParquetCells)
  PROVE  Parquet!HasFooter
BY DEF FooterEnds, Parquet!HasFooter, Parquet!LastCell, Parquet!Footer

\* What poll_ready and poll_close find when the task has completed: a FileStreamer that
\* has counted all of the file, or none, and then the footer, unless there was an error.
LEMMA TaskCompleted ==
  ASSUME ParquetInv, Parquet!Ended(parquetTask), NEW w, w = Parquet!WriterAfter(parquetTask)
  PROVE  /\ w # Parquet!None =>
              /\ w = Parquet!Some(Head(w)) /\ Head(w) \in Parquet!Streamers
              /\ Counted(parquetFile, parquetAccepted, Head(w), Len(parquetAccepted))
              /\ Head(w).offset = Len(parquetFile)
              /\ parquetMetadata = parquetInserted /\ parquetFailed = "no"
         /\ w = Parquet!None /\ parquetFailed = "no" =>
              \E gs \in Seq(Nat), es \in SUBSET Entries :
                FooterEnds(parquetFile, parquetAccepted, gs, es) /\ EntriesKept(es)
<1> DEFINE s == parquetTask.streamer
           m == Len(parquetAccepted)
<1>1. /\ parquetFile \in Seq(ParquetCells) /\ Len(parquetFile) \in Nat /\ m \in Nat
      /\ parquetTask.done \in Nat /\ s.offset \in Nat /\ s.groups \in Seq(Nat)
      /\ parquetTask.metadata \in SUBSET Entries /\ parquetTask \in ParquetTasks
  BY ParquetTypes
<1>2. parquetTask # Parquet!NoTask => parquetFailed = "no" /\ parquetWriter = Parquet!None
  BY DEF ParquetInv, Parquet!OneWriter, Parquet!Upcoming
<1>3. CASE parquetTask.kind = "none"
  <2>1. parquetTask = Parquet!NoTask /\ w = parquetWriter
    BY <1>3, ParquetSteps DEF Parquet!WriterAfter
  <2> QED BY <2>1 DEF ParquetInv, Parquet!TypeOK, Parquet!OneWriter, WriterInSink, WriterGone
<1>4. CASE parquetTask.kind = "write"
  <2> DEFINE u == Parquet!Streamed(parquetTask)
  <2>1. w = << u >> /\ parquetTask # Parquet!NoTask
    BY <1>4 DEF Parquet!WriterAfter, Parquet!Some, Parquet!NoTask
  <2>2. /\ parquetTask.done = Width /\ Len(parquetTask.chunk) = Width
        /\ m # 0 /\ parquetTask.chunk = parquetAccepted[m]
        /\ Counted(parquetFile, parquetAccepted, s, m - 1)
        /\ Len(parquetFile) = s.offset + Width
        /\ \A i \in 1 .. Width : parquetFile[s.offset + i].value = parquetTask.chunk[i]
        /\ parquetMetadata = parquetInserted
    BY <1>4, ParquetSteps DEF ParquetInv, WriterInWrite, Parquet!Ended
  <2>3. /\ u.offset = s.offset + Width /\ u.groups = Append(s.groups, s.offset)
        /\ u.offset \in Nat /\ u.groups \in Seq(Nat) /\ u \in Parquet!Streamers
    BY <1>1, <2>2, ParquetAssumption, SMTT(30) DEF Parquet!Streamed, Parquet!Streamers
  <2>4. GroupsHold(parquetFile, parquetAccepted, u.groups, m, u.offset)
    <3>1. m - 1 \in Nat /\ (m - 1) + 1 = m
      BY <1>1, <2>2
    <3>2. GroupsHold(parquetFile, parquetAccepted, s.groups, m - 1, s.offset)
      BY <2>2 DEF Counted
    <3>3. \A i \in 1 .. Width : parquetFile[s.offset + i].value = parquetAccepted[(m - 1) + 1][i]
      BY <2>2, <3>1
    <3>4. GroupsHold(parquetFile, parquetAccepted, Append(s.groups, s.offset), (m - 1) + 1, s.offset + Width)
      <4> HIDE DEF m, s
      <4> QED BY <1>1, <3>1, <3>2, <3>3, GroupsGrow
    <3> QED BY <2>3, <3>1, <3>4
  <2>5. Counted(parquetFile, parquetAccepted, u, m) /\ u.offset = Len(parquetFile)
    <3>1. u.offset = Len(parquetFile) /\ u.offset <= Len(parquetFile)
      BY <2>2, <2>3
    <3> HIDE DEF u
    <3> QED BY <2>2, <2>4, <3>1 DEF Counted
  <2>6. Head(w) = u /\ w = Parquet!Some(Head(w)) /\ w # Parquet!None
    <3> HIDE DEF u
    <3> QED BY <2>1 DEF Parquet!Some, Parquet!None
  <2> HIDE DEF u
  <2> QED BY <1>2, <2>1, <2>2, <2>3, <2>5, <2>6
<1>5. CASE parquetTask.kind = "finish"
  <2>1. w = Parquet!None /\ parquetTask.done # 0
    <3>1. Len(Parquet!Steps(parquetTask)) = 2
      BY <1>5, ParquetSteps
    <3> QED BY <1>5, <3>1 DEF Parquet!WriterAfter, Parquet!Ended
  <2>2. /\ FooterEnds(parquetFile, parquetAccepted, s.groups, parquetTask.metadata)
        /\ EntriesKept(parquetTask.metadata)
    BY <1>5, <2>1 DEF ParquetInv, WriterInFinish
  <2> QED BY <1>1, <2>1, <2>2
<1> QED BY <1>1, <1>3, <1>4, <1>5 DEF ParquetTasks

\* A sink without a task: with a FileStreamer that has counted the file, or without.
LEMMA ParquetIdle ==
  ASSUME ParquetInv, parquetTask' = Parquet!NoTask,
         UNCHANGED << parquetFile, parquetMetadata, parquetAccepted, parquetInserted,
                      parquetFailed, parquetFaults >>,
         parquetClosing' \in BOOLEAN, parquetClosed' \in BOOLEAN,
         parquetWriter' # Parquet!None =>
           /\ parquetWriter' = Parquet!Some(Head(parquetWriter'))
           /\ Head(parquetWriter') \in Parquet!Streamers
           /\ Counted(parquetFile, parquetAccepted, Head(parquetWriter'), Len(parquetAccepted))
           /\ Head(parquetWriter').offset = Len(parquetFile)
           /\ parquetMetadata = parquetInserted /\ parquetFailed = "no",
         parquetWriter' = Parquet!None /\ parquetFailed = "no" =>
           \E gs \in Seq(Nat), es \in SUBSET Entries :
             FooterEnds(parquetFile, parquetAccepted, gs, es) /\ EntriesKept(es)
  PROVE  ParquetInv'
<1>1. /\ parquetTask'.kind = "none" /\ parquetTask'.done = 0
      /\ Len(Parquet!Steps(parquetTask')) = 0 /\ parquetTask' \in ParquetTasks
  <2>1. Parquet!NoTask \in ParquetTasks
    BY DEF Parquet!NoTask, Parquet!NewStreamer, ParquetTasks, Parquet!Streamers
  <2> QED BY <2>1 DEF Parquet!NoTask, Parquet!Steps
<1>2. Parquet!TypeOK'
  <2>1. parquetTask'.done <= Len(Parquet!Steps(parquetTask'))
    BY <1>1
  <2> QED BY <1>1, <2>1 DEF ParquetInv, Parquet!TypeOK, ParquetCells, ParquetTasks
<1>3. Parquet!OneWriter'
  <2>1. parquetWriter' = Parquet!None /\ parquetFailed = "no" => Parquet!HasFooter
    BY ParquetTypes, FooterIsOne
  <2>2. parquetWriter' = Parquet!None /\ parquetFailed' = "no" => Parquet!HasFooter'
    BY <2>1 DEF Parquet!HasFooter, Parquet!LastCell
  <2> QED BY <2>2 DEF Parquet!OneWriter
<1>4. WriterInSink' /\ WriterGone'
  BY DEF WriterInSink, WriterGone, EntriesKept
<1> QED BY <1>1, <1>2, <1>3, <1>4 DEF ParquetInv, NoTaskIsOne, WriterInWrite, WriterInFinish

LEMMA ParquetReady ==
  ASSUME ParquetInv, Parquet!PollReady
  PROVE  ParquetInv'
<1>1. /\ Parquet!Ended(parquetTask) /\ parquetTask' = Parquet!NoTask
      /\ parquetWriter' = Parquet!WriterAfter(parquetTask)
      /\ UNCHANGED << parquetFile, parquetMetadata, parquetClosing, parquetClosed, parquetAccepted,
                      parquetInserted, parquetFailed, parquetFaults >>
      /\ parquetClosing' \in BOOLEAN /\ parquetClosed' \in BOOLEAN
  BY DEF Parquet!PollReady, ParquetInv, Parquet!TypeOK
<1> QED BY <1>1, TaskCompleted, ParquetIdle

\* start_send gives the FileStreamer to the task of the chunk.
LEMMA ParquetSend ==
  ASSUME ParquetInv, NEW c \in Parquet!Chunks, Parquet!StartSend(c)
  PROVE  ParquetInv'
<1> DEFINE s == Head(parquetWriter)
           m == Len(parquetAccepted)
<1>1. /\ parquetWriter # Parquet!None /\ parquetWriter' = Parquet!None
      /\ parquetTask' = Parquet!WriteTask(s, c)
      /\ parquetAccepted' = Append(parquetAccepted, c)
      /\ UNCHANGED << parquetFile, parquetMetadata, parquetClosing, parquetClosed,
                      parquetInserted, parquetFailed, parquetFaults >>
  BY DEF Parquet!StartSend
<1>2. /\ s \in Parquet!Streamers /\ s.offset \in Nat /\ s.groups \in Seq(Nat)
      /\ Counted(parquetFile, parquetAccepted, s, m) /\ s.offset = Len(parquetFile)
      /\ parquetMetadata = parquetInserted /\ parquetFailed = "no"
  BY <1>1 DEF ParquetInv, Parquet!TypeOK, Parquet!OneWriter, WriterInSink, Parquet!Streamers
<1>3. parquetAccepted \in Seq(Parquet!Chunks) /\ m \in Nat
  BY ParquetTypes
<1>4. /\ parquetAccepted' \in Seq(Parquet!Chunks) /\ Len(parquetAccepted') = m + 1
      /\ parquetAccepted'[m + 1] = c
      /\ \A k \in 1 .. m : parquetAccepted'[k] = parquetAccepted[k]
  BY <1>1, <1>3
<1>5. /\ parquetTask'.kind = "write" /\ parquetTask'.chunk = c /\ parquetTask'.streamer = s
      /\ parquetTask'.done = 0 /\ parquetTask' \in ParquetTasks
      /\ parquetTask' # Parquet!NoTask
  <2>1. parquetTask' = [kind |-> "write", chunk |-> c, streamer |-> s, metadata |-> {}, done |-> 0]
    BY <1>1 DEF Parquet!WriteTask, Parquet!NoTask
  <2> QED BY <1>2, <2>1 DEF ParquetTasks, Parquet!NoTask
<1>6. Parquet!TypeOK'
  <2>1. Len(Parquet!Steps(parquetTask')) = Width
    <3>1. Len(c) = Width
      BY ParquetAssumption DEF Parquet!Chunks
    <3> QED BY <1>5, <3>1, ParquetAssumption DEF Parquet!Steps
  <2>2. parquetTask'.done <= Len(Parquet!Steps(parquetTask'))
    BY <1>5, <2>1, ParquetAssumption
  <2> QED BY <1>1, <1>4, <1>5, <2>2 DEF ParquetInv, Parquet!TypeOK, ParquetCells, ParquetTasks
<1>7. WriterInWrite'
  <2>1. GroupsHold(parquetFile, parquetAccepted', s.groups, m, s.offset)
    <3>1. GroupsHold(parquetFile, parquetAccepted, s.groups, m, s.offset) /\ s.offset <= s.offset
      BY <1>2 DEF Counted
    <3> HIDE DEF m, s
    <3> QED BY <1>2, <1>3, <1>4, <3>1, GroupsStay
  <2>2. Counted(parquetFile, parquetAccepted', s, m)
    BY <1>2, <2>1 DEF Counted
  <2>3. Len(parquetAccepted') # 0 /\ Len(parquetAccepted') - 1 = m
    BY <1>3, <1>4
  <2>4. Len(parquetFile) = s.offset + 0
    BY <1>2
  <2>5. parquetAccepted'[Len(parquetAccepted')] = c
    BY <1>4
  <2>6. Counted(parquetFile', parquetAccepted', parquetTask'.streamer, Len(parquetAccepted') - 1)
    BY <1>1, <1>5, <2>2, <2>3
  <2>7. \A i \in 1 .. parquetTask'.done :
          parquetFile'[parquetTask'.streamer.offset + i].value = parquetTask'.chunk[i]
    BY <1>5
  <2> HIDE DEF m, s
  <2> QED BY <1>1, <1>2, <1>5, <2>3, <2>4, <2>5, <2>6, <2>7 DEF WriterInWrite
<1> QED BY <1>1, <1>2, <1>5, <1>6, <1>7
        DEF ParquetInv, Parquet!OneWriter, NoTaskIsOne, WriterInSink, WriterInFinish, WriterGone

\* poll_close gives the FileStreamer to the finish task, or finds none.
LEMMA ParquetCloses ==
  ASSUME ParquetInv, Parquet!PollClose
  PROVE  ParquetInv'
<1> DEFINE w == Parquet!WriterAfter(parquetTask)
<1>1. /\ Parquet!Ended(parquetTask) /\ parquetWriter' = Parquet!None
      /\ UNCHANGED << parquetFile, parquetAccepted, parquetInserted, parquetFailed, parquetFaults >>
  BY DEF Parquet!PollClose
<1>2. CASE w # Parquet!None
  <2> DEFINE s == Head(w)
  <2>1. /\ s \in Parquet!Streamers
        /\ Counted(parquetFile, parquetAccepted, s, Len(parquetAccepted))
        /\ s.offset = Len(parquetFile)
        /\ parquetMetadata = parquetInserted /\ parquetFailed = "no"
    BY <1>1, <1>2, TaskCompleted
  <2>2. /\ parquetTask' = Parquet!FinishTask(s, parquetMetadata) /\ parquetMetadata' = {}
        /\ UNCHANGED << parquetClosing, parquetClosed >>
    BY <1>2 DEF Parquet!PollClose
  <2>3. /\ parquetTask'.kind = "finish" /\ parquetTask'.streamer = s /\ parquetTask'.done = 0
        /\ parquetTask'.metadata = parquetMetadata /\ parquetTask' \in ParquetTasks
        /\ parquetTask' # Parquet!NoTask /\ Parquet!Upcoming(parquetTask') = {}
    <3>1. parquetTask' = [kind |-> "finish", chunk |-> << >>, streamer |-> s,
                          metadata |-> parquetMetadata, done |-> 0]
      BY <2>2 DEF Parquet!FinishTask, Parquet!NoTask
    <3>2. parquetMetadata \in SUBSET Entries
      BY DEF ParquetInv, Parquet!TypeOK
    <3> HIDE DEF s
    <3> QED BY <2>1, <3>1, <3>2 DEF ParquetTasks, Parquet!NoTask, Parquet!Upcoming
  <2>4. Parquet!TypeOK'
    <3>1. Len(Parquet!Steps(parquetTask')) = 2
      BY <2>3 DEF Parquet!Steps
    <3>2. parquetTask'.done <= Len(Parquet!Steps(parquetTask'))
      BY <2>3, <3>1
    <3>3. /\ parquetClosing' \in BOOLEAN /\ parquetClosed' \in BOOLEAN
          /\ parquetFile' \in Seq(ParquetCells) /\ parquetAccepted' \in Seq(Parquet!Chunks)
          /\ parquetInserted' \subseteq Entries /\ parquetMetadata' \subseteq parquetInserted'
          /\ parquetFailed' \in {"no", "error", "panic"} /\ parquetFaults' \in Nat
      BY <1>1, <2>2 DEF ParquetInv, Parquet!TypeOK, ParquetCells
    <3> QED BY <1>1, <2>3, <3>2, <3>3 DEF Parquet!TypeOK, ParquetCells, ParquetTasks
  <2>5. WriterInFinish'
    <3> HIDE DEF s
    <3> QED BY <1>1, <2>1, <2>2, <2>3 DEF WriterInFinish, EntriesKept
  <2> QED BY <1>1, <2>1, <2>3, <2>4, <2>5
          DEF ParquetInv, Parquet!OneWriter, NoTaskIsOne, WriterInSink, WriterInWrite, WriterGone
<1>3. CASE w = Parquet!None
  <2>1. /\ parquetTask' = Parquet!NoTask /\ parquetClosing' = FALSE /\ parquetClosed' = TRUE
        /\ parquetMetadata' = parquetMetadata
    BY <1>3 DEF Parquet!PollClose
  <2>2. parquetFailed = "no" =>
          \E gs \in Seq(Nat), es \in SUBSET Entries :
            FooterEnds(parquetFile, parquetAccepted, gs, es) /\ EntriesKept(es)
    BY <1>1, <1>3, TaskCompleted
  <2> QED BY <1>1, <2>1, <2>2, ParquetIdle
<1> QED BY <1>2, <1>3

LEMMA ParquetStep == ParquetInv /\ [Parquet!Next]_parquetVars => ParquetInv'
<1> SUFFICES ASSUME ParquetInv, [Parquet!Next]_parquetVars PROVE ParquetInv'
  OBVIOUS
<1>1. CASE Parquet!PollTask
  <2>1. parquetTask.kind # "none"
    BY <1>1, ParquetSteps DEF Parquet!PollTask
  <2>2. parquetTask.kind \in {"write", "finish"}
    BY <2>1, ParquetTypes DEF ParquetTasks
  <2> QED BY <1>1, <2>2, ColumnWritten, FooterWritten
<1>2. CASE Parquet!PollFails \/ Parquet!EncodingFails \/ Parquet!EncodingPanics
  BY <1>2, ParquetFailures
<1>3. CASE Parquet!Close \/ \E e \in Entries : Parquet!Insert(e)
  BY <1>3, ParquetCalls
<1>4. CASE Parquet!PollReady \/ \E c \in Parquet!Chunks : Parquet!StartSend(c)
  BY <1>4, ParquetReady, ParquetSend
<1>5. CASE Parquet!PollClose
  BY <1>5, ParquetCloses
<1>6. CASE UNCHANGED parquetVars
  BY <1>6 DEF parquetVars, ParquetInv, Parquet!TypeOK, Parquet!OneWriter, NoTaskIsOne, WriterInSink,
              WriterInWrite, WriterInFinish, WriterGone, EntriesKept, Parquet!HasFooter, Parquet!LastCell
<1> QED BY <1>1, <1>2, <1>3, <1>4, <1>5, <1>6 DEF Parquet!Next

\* The sink of Parquet holds its writer in one place, or lost it to an error or gave it
\* up by finish; what a FileStreamer in the sink counts is what is on the file (FileSink
\* of parquet/write/sink.rs).
THEOREM ParquetSinkIsSafe == Parquet!Init /\ [][Parquet!Next]_parquetVars => []Parquet!SinkInv
<1>1. ParquetInv => Parquet!SinkInv
  <2>1. ParquetInv => Parquet!CountsAreOfTheFile
    BY DEF ParquetInv, WriterInSink, Counted, GroupsHold, Parquet!CountsAreOfTheFile
  <2> QED BY <2>1 DEF ParquetInv, Parquet!SinkInv
<1> QED BY <1>1, ParquetStart, ParquetStep, PTL

\* A closed sink has neither a writer nor a task, and gets none.
ClosedIsIdle == parquetClosed => parquetWriter = Parquet!None /\ parquetTask = Parquet!NoTask

LEMMA ClosedIdleStep ==
  ASSUME ParquetInv, ClosedIsIdle, [Parquet!Next]_parquetVars
  PROVE  ClosedIsIdle'
<1>1. Parquet!Ended(Parquet!NoTask) /\ Parquet!Upcoming(Parquet!NoTask) = {}
      /\ Parquet!WriterAfter(Parquet!NoTask) = parquetWriter
  BY DEF Parquet!NoTask, Parquet!Ended, Parquet!Steps, Parquet!Upcoming, Parquet!WriterAfter
<1>2. CASE Parquet!PollTask \/ Parquet!PollFails \/ Parquet!EncodingFails \/ Parquet!EncodingPanics
  BY <1>1, <1>2 DEF ClosedIsIdle, Parquet!PollTask, Parquet!PollFails, Parquet!EncodingFails,
                    Parquet!EncodingPanics, Parquet!Lost
<1>3. CASE Parquet!PollReady \/ \E c \in Parquet!Chunks : Parquet!StartSend(c)
  BY <1>3 DEF ClosedIsIdle, Parquet!PollReady, Parquet!StartSend
<1>4. CASE Parquet!PollClose
  <2>1. CASE Parquet!WriterAfter(parquetTask) # Parquet!None
    BY <1>1, <1>4, <2>1 DEF ClosedIsIdle, Parquet!PollClose
  <2>2. CASE Parquet!WriterAfter(parquetTask) = Parquet!None
    BY <1>4, <2>2 DEF ClosedIsIdle, Parquet!PollClose
  <2> QED BY <2>1, <2>2
<1>5. CASE Parquet!Close \/ (\E e \in Entries : Parquet!Insert(e)) \/ UNCHANGED parquetVars
  BY <1>5 DEF ClosedIsIdle, Parquet!Close, Parquet!Insert, parquetVars
<1> QED BY <1>2, <1>3, <1>4, <1>5 DEF Parquet!Next

\* The footer of a file that was closed without an error leads to every chunk.
LEMMA ClosedParquet == ParquetInv /\ ClosedIsIdle => Parquet!ClosedReadsBack
<1> SUFFICES ASSUME ParquetInv, ClosedIsIdle, parquetClosed, parquetFailed = "no"
             PROVE  /\ Parquet!HasFooter
                    /\ \A n \in 1 .. Len(parquetFile) - 1 : parquetFile[n].kind = "column"
                    /\ [n \in 1 .. Len(Parquet!LastCell.groups) |->
                          Parquet!RowGroupAt(Parquet!LastCell.groups[n])] = parquetAccepted
                    /\ Parquet!LastCell.metadata \cup parquetMetadata = parquetInserted
                    /\ Parquet!LastCell.metadata \cap parquetMetadata = {}
  BY DEF Parquet!ClosedReadsBack
<1>1. PICK gs \in Seq(Nat), es \in SUBSET Entries :
        FooterEnds(parquetFile, parquetAccepted, gs, es) /\ EntriesKept(es)
  BY DEF ClosedIsIdle, ParquetInv, WriterGone
<1>2. Parquet!HasFooter
  BY <1>1, ParquetTypes, FooterIsOne
<1>3. Parquet!LastCell.groups = gs /\ Parquet!LastCell.metadata = es
  BY <1>1 DEF FooterEnds, Parquet!LastCell, Parquet!Footer
<1>4. \A n \in 1 .. Len(parquetFile) - 1 : parquetFile[n].kind = "column"
  BY <1>1 DEF FooterEnds, ColumnsTo
<1>5. [n \in 1 .. Len(gs) |-> Parquet!RowGroupAt(gs[n])] = parquetAccepted
  <2>1. parquetAccepted \in Seq(Parquet!Chunks) /\ Len(gs) = Len(parquetAccepted)
    BY <1>1, ParquetTypes DEF FooterEnds, GroupsHold
  <2>2. ASSUME NEW n \in 1 .. Len(gs) PROVE Parquet!RowGroupAt(gs[n]) = parquetAccepted[n]
    <3>1. parquetAccepted[n] \in [1 .. Width -> Values \cup {NoPages, NoColumn}]
      BY <2>1 DEF Parquet!Chunks
    <3>2. \A i \in 1 .. Width : parquetFile[gs[n] + i].value = parquetAccepted[n][i]
      BY <1>1, <2>1 DEF FooterEnds, GroupsHold
    <3> QED BY <3>1, <3>2 DEF Parquet!RowGroupAt
  <2> QED BY <2>1, <2>2
<1> QED BY <1>1, <1>2, <1>3, <1>4, <1>5 DEF EntriesKept

\* A close() of the sink of Parquet that returns Ok, with no error before it, leaves a file
\* whose one footer leads to the row group of every chunk start_send accepted, with the
\* metadata that was put in before poll_close took it (parquet/write/sink.rs).
THEOREM ClosedParquetReadsBack ==
  Parquet!Init /\ [][Parquet!Next]_parquetVars => []Parquet!ClosedReadsBack
<1>1. Parquet!Init => ClosedIsIdle
  BY DEF Parquet!Init, ClosedIsIdle
<1> QED BY <1>1, ParquetStart, ParquetStep, ClosedIdleStep, ClosedParquet, PTL
-----------------------------------------------------------------------------
(* The sinks together.  The sink of IPC streams of MCSinks is the one of    *)
(* IpcStreamSinkProofs.                                                     *)

Streamed == INSTANCE IpcStreamSinkProofs WITH
  wire <- streamWire, writer <- streamWriter, task <- streamTask, tracker <- streamTracker,
  closing <- streamClosing, closed <- streamClosed, accepted <- streamAccepted,
  failed <- streamFailed, used <- streamUsed, faults <- streamFaults

LEMMA SameStreamCells ==
  /\ Streamed!EndOfStream = Stream!EndOfStream /\ Streamed!NoChunk = Stream!NoChunk
  /\ Streamed!EmptyTracker = Stream!EmptyTracker /\ Streamed!Columns = Stream!Columns
  /\ Streamed!Schema = Stream!Schema /\ Streamed!Zero = Stream!Zero
  /\ Streamed!Chunks = Stream!Chunks /\ Streamed!Tracker = Stream!Tracker
  /\ Streamed!StreamCells = Stream!StreamCells
  /\ \A x : Streamed!Packet(x) = Stream!Packet(x)
  /\ \A d, v : Streamed!Dict(d, v) = Stream!Dict(d, v)
  /\ \A k : Streamed!Record(k) = Stream!Record(k)
  /\ \A S : Streamed!Ascending(S) = Stream!Ascending(S)
  /\ \A t, ds : Streamed!Emitted(t, ds) = Stream!Emitted(t, ds)
  /\ \A t, ds, b : Streamed!Tracked(t, ds, b) = Stream!Tracked(t, ds, b)
<1>1. /\ Streamed!Schema = Stream!Schema /\ Streamed!EndOfStream = Stream!EndOfStream
      /\ Streamed!NoChunk = Stream!NoChunk /\ Streamed!EmptyTracker = Stream!EmptyTracker
      /\ Streamed!Columns = Stream!Columns /\ Streamed!Zero = Stream!Zero
      /\ Streamed!Tracker = Stream!Tracker
  BY DEF Streamed!Schema, Stream!Schema, Streamed!EndOfStream, Stream!EndOfStream, Streamed!NoChunk,
     Stream!NoChunk, Streamed!EmptyTracker, Stream!EmptyTracker, Streamed!Columns, Stream!Columns,
     Streamed!Half1, Stream!Half1, Streamed!Half2, Stream!Half2, Streamed!Zero, Stream!Zero,
     Streamed!Tracker, Stream!Tracker
<1>2. Streamed!Chunks = Stream!Chunks
  BY <1>1 DEF Streamed!Chunks, Stream!Chunks
<1>3. /\ \A x : Streamed!Packet(x) = Stream!Packet(x)
      /\ \A d, v : Streamed!Dict(d, v) = Stream!Dict(d, v)
      /\ \A k : Streamed!Record(k) = Stream!Record(k)
  BY <1>1 DEF Streamed!Packet, Stream!Packet, Streamed!Dict, Stream!Dict, Streamed!Record,
     Stream!Record, Streamed!Half1, Stream!Half1, Streamed!Half2, Stream!Half2, Streamed!Length,
     Stream!Length, Streamed!Body, Stream!Body
<1>4. Streamed!StreamCells = Stream!StreamCells
  BY <1>1 DEF Streamed!StreamCells, Stream!StreamCells, Streamed!Half1, Stream!Half1, Streamed!Half2,
     Stream!Half2, Streamed!Length, Stream!Length, Streamed!Body, Stream!Body
<1>5. ASSUME NEW S PROVE Streamed!Greatest(S) = Stream!Greatest(S)
  BY DEF Streamed!Greatest, Stream!Greatest
<1>6. ASSUME NEW S PROVE Streamed!Ascending(S) = Stream!Ascending(S)
  BY DEF Streamed!Ascending, Stream!Ascending, Streamed!Cardinality, Stream!Cardinality
<1>7. ASSUME NEW t, NEW ds, NEW i PROVE Streamed!Emits(t, ds, i) <=> Stream!Emits(t, ds, i)
  BY <1>5 DEF Streamed!Emits, Stream!Emits, Streamed!Seen, Stream!Seen
<1>8. ASSUME NEW t, NEW ds, NEW i PROVE Streamed!Replaces(t, ds, i) <=> Stream!Replaces(t, ds, i)
  BY <1>5, <1>7 DEF Streamed!Replaces, Stream!Replaces, Streamed!Seen, Stream!Seen
<1>9. ASSUME NEW t, NEW ds PROVE Streamed!Emitted(t, ds) = Stream!Emitted(t, ds)
  BY <1>1, <1>7 DEF Streamed!Emitted, Stream!Emitted
<1>10. ASSUME NEW t, NEW ds, NEW b PROVE Streamed!Tracked(t, ds, b) = Stream!Tracked(t, ds, b)
  <2>1. Streamed!Inserted(t, ds, b) = Stream!Inserted(t, ds, b)
    BY <1>1, <1>8 DEF Streamed!Inserted, Stream!Inserted
  <2> QED BY <1>5, <2>1 DEF Streamed!Tracked, Stream!Tracked, Streamed!Recorded, Stream!Recorded
<1> QED BY <1>1, <1>2, <1>3, <1>4, <1>6, <1>9, <1>10

LEMMA SameStreamTasks ==
  /\ Streamed!NoTask = Stream!NoTask /\ Streamed!StartTask = Stream!StartTask
  /\ Streamed!FinishTask = Stream!FinishTask
  /\ \A c, is : Streamed!WriteTask(c, is) = Stream!WriteTask(c, is)
  /\ \A t : /\ Streamed!Messages(t) = Stream!Messages(t)
            /\ Streamed!Ended(t) <=> Stream!Ended(t)
            /\ Streamed!WriterAfter(t) = Stream!WriterAfter(t)
<1>1. /\ Streamed!NoTask = Stream!NoTask
      /\ \A c, is : Streamed!WriteTask(c, is) = Stream!WriteTask(c, is)
  BY SameStreamCells DEF Streamed!NoTask, Stream!NoTask, Streamed!WriteTask, Stream!WriteTask
<1>2. Streamed!StartTask = Stream!StartTask /\ Streamed!FinishTask = Stream!FinishTask
  BY <1>1 DEF Streamed!StartTask, Stream!StartTask, Streamed!FinishTask, Stream!FinishTask
<1>3. ASSUME NEW t PROVE Streamed!Messages(t) = Stream!Messages(t)
  BY SameStreamCells DEF Streamed!Messages, Stream!Messages
<1>4. ASSUME NEW t PROVE Streamed!WriterAfter(t) = Stream!WriterAfter(t)
  BY DEF Streamed!WriterAfter, Stream!WriterAfter
<1>5. ASSUME NEW t PROVE Streamed!Ended(t) <=> Stream!Ended(t)
  BY <1>3 DEF Streamed!Ended, Stream!Ended
<1> QED BY <1>1, <1>2, <1>3, <1>4, <1>5

LEMMA SameStreamSteps ==
  /\ Stream!Init => Streamed!Init
  /\ [Stream!Next]_streamVars => [Streamed!Next]_(Streamed!vars)
<1>1. Stream!Init => Streamed!Init
  BY SameStreamCells, SameStreamTasks DEF Stream!Init, Streamed!Init
<1>2. Stream!PollTask => Streamed!PollTask
  BY SameStreamTasks DEF Stream!PollTask, Streamed!PollTask
<1>3. Stream!PollFails => Streamed!PollFails
  BY SameStreamTasks DEF Stream!PollFails, Streamed!PollFails
<1>4. Stream!PollReady => Streamed!PollReady
  BY SameStreamTasks DEF Stream!PollReady, Streamed!PollReady
<1>5. ASSUME NEW c PROVE Stream!StartSend(c) => Streamed!StartSend(c)
  BY SameStreamCells, SameStreamTasks DEF Stream!StartSend, Streamed!StartSend
<1>6. ASSUME NEW c PROVE Stream!StartSendClosed(c) => Streamed!StartSendClosed(c)
  BY SameStreamCells, SameStreamTasks DEF Stream!StartSendClosed, Streamed!StartSendClosed
<1>7. Stream!Close => Streamed!Close
  BY DEF Stream!Close, Streamed!Close
<1>8. Stream!PollClose => Streamed!PollClose
  BY SameStreamTasks DEF Stream!PollClose, Streamed!PollClose
<1>9. Stream!Next => Streamed!Next
  <2>1. Stream!Chunks = Streamed!Chunks
    BY SameStreamCells
  <2> QED BY <1>2, <1>3, <1>4, <1>5, <1>6, <1>7, <1>8, <2>1 DEF Stream!Next, Streamed!Next
<1>10. UNCHANGED streamVars => UNCHANGED Streamed!vars
  BY DEF streamVars, Streamed!vars
<1> QED BY <1>1, <1>9, <1>10

LEMMA SameStreamProperties ==
  /\ Streamed!SinkInv => Stream!SinkInv
  /\ Streamed!ClosedIsFinished => Stream!ClosedIsFinished
<1>1. Streamed!TypeOK => Stream!TypeOK
  <2>1. Streamed!Tasks = Stream!Tasks
    BY SameStreamCells DEF Streamed!Tasks, Stream!Tasks
  <2> QED BY <2>1, SameStreamCells, SameStreamTasks DEF Streamed!TypeOK, Stream!TypeOK
<1>2. Streamed!OneWriter /\ Streamed!TaskIsOfTheChunk /\ Streamed!TrackerIsUsed =>
        Stream!OneWriter /\ Stream!TaskIsOfTheChunk /\ Stream!TrackerIsUsed
  BY SameStreamTasks DEF Streamed!OneWriter, Stream!OneWriter, Streamed!TaskIsOfTheChunk,
     Stream!TaskIsOfTheChunk, Streamed!TrackerIsUsed, Stream!TrackerIsUsed
<1>3. /\ Streamed!Marks = Stream!Marks /\ (Streamed!EndsWithMark <=> Stream!EndsWithMark)
      /\ (Streamed!Finishing <=> Stream!Finishing)
  BY SameStreamCells, SameStreamTasks DEF Streamed!Marks, Stream!Marks, Streamed!EndsWithMark,
     Stream!EndsWithMark, Streamed!Finishing, Stream!Finishing
<1>4. Streamed!MarkIsTheEnd => Stream!MarkIsTheEnd
  BY <1>3, SameStreamTasks DEF Streamed!MarkIsTheEnd, Stream!MarkIsTheEnd
<1>5. Streamed!ClosedIsFinished => Stream!ClosedIsFinished
  <2>1. ASSUME NEW S PROVE Streamed!Cardinality(S) = Stream!Cardinality(S)
    BY DEF Streamed!Cardinality, Stream!Cardinality
  <2>2. Streamed!Cardinality(Streamed!Marks) = Stream!Cardinality(Stream!Marks)
    BY <1>3, <2>1
  <2> QED BY <1>3, <2>2, SameStreamTasks DEF Streamed!ClosedIsFinished, Stream!ClosedIsFinished
<1> QED BY <1>1, <1>2, <1>4, <1>5 DEF Streamed!SinkInv, Stream!SinkInv

\* What is used of MCSinks: every step is one of one sink.
LEMMA OneSinkAtATime ==
  SinksSpec => /\ Spec
               /\ Stream!Init /\ [][Stream!Next]_streamVars
               /\ Parquet!Init /\ [][Parquet!Next]_parquetVars
<1>1. SinksInit => Init /\ Stream!Init /\ Parquet!Init
  BY DEF SinksInit
<1>2. [SinksNext]_<< vars, streamVars, parquetVars, sink >> =>
        [Next]_vars /\ [Stream!Next]_streamVars /\ [Parquet!Next]_parquetVars
  BY DEF SinksNext
<1> QED BY <1>1, <1>2, PTL DEF SinksSpec, Spec

LEMMA StreamSinkIsSafe ==
  Stream!Init /\ [][Stream!Next]_streamVars => []Stream!SinkInv /\ []Stream!ClosedIsFinished
<1>1. Streamed!Init => Streamed!SinkInv
  BY Streamed!SinkInit, FieldsAssumption, NoDictAssumption, FooterSizeAssumption
<1>2. Streamed!SinkInv /\ [Streamed!Next]_(Streamed!vars) => Streamed!SinkInv'
  BY Streamed!SinkStep, FieldsAssumption, NoDictAssumption, FooterSizeAssumption
<1>3. Streamed!SinkInv => Streamed!ClosedIsFinished
  BY Streamed!ClosedFinishes, FieldsAssumption, NoDictAssumption, FooterSizeAssumption
<1> QED BY <1>1, <1>2, <1>3, SameStreamSteps, SameStreamProperties, PTL

\* The StreamWriter that a sink of streams shows encodes alike in both instances.
LEMMA SameStreamWriter ==
  /\ Streamed!Writer!Schema = Stream!Writer!Schema /\ Streamed!Writer!EndOfStream = Stream!Writer!EndOfStream
  /\ Streamed!Writer!NoChunk = Stream!Writer!NoChunk
  /\ Streamed!Writer!EmptyTracker = Stream!Writer!EmptyTracker
  /\ Streamed!Writer!Chunks = Stream!Writer!Chunks
  /\ \A x : Streamed!Writer!Packet(x) = Stream!Writer!Packet(x)
  /\ \A d, v : Streamed!Writer!Dict(d, v) = Stream!Writer!Dict(d, v)
  /\ \A k : Streamed!Writer!Record(k) = Stream!Writer!Record(k)
  /\ \A t, ds : Streamed!Writer!Emitted(t, ds) = Stream!Writer!Emitted(t, ds)
  /\ \A t, ds, b : Streamed!Writer!Tracked(t, ds, b) = Stream!Writer!Tracked(t, ds, b)
<1>1. /\ Streamed!Writer!Schema = Stream!Writer!Schema
      /\ Streamed!Writer!EndOfStream = Stream!Writer!EndOfStream
      /\ Streamed!Writer!NoChunk = Stream!Writer!NoChunk
      /\ Streamed!Writer!EmptyTracker = Stream!Writer!EmptyTracker
      /\ Streamed!Writer!Columns = Stream!Writer!Columns
  BY DEF Streamed!Writer!Schema, Stream!Writer!Schema, Streamed!Writer!EndOfStream,
     Stream!Writer!EndOfStream, Streamed!Writer!NoChunk, Stream!Writer!NoChunk,
     Streamed!Writer!EmptyTracker, Stream!Writer!EmptyTracker, Streamed!Writer!Columns,
     Stream!Writer!Columns, Streamed!Writer!Half1, Stream!Writer!Half1, Streamed!Writer!Half2,
     Stream!Writer!Half2, Streamed!Writer!Zero, Stream!Writer!Zero
<1>2. Streamed!Writer!Chunks = Stream!Writer!Chunks
  BY <1>1 DEF Streamed!Writer!Chunks, Stream!Writer!Chunks
<1>3. /\ \A x : Streamed!Writer!Packet(x) = Stream!Writer!Packet(x)
      /\ \A d, v : Streamed!Writer!Dict(d, v) = Stream!Writer!Dict(d, v)
      /\ \A k : Streamed!Writer!Record(k) = Stream!Writer!Record(k)
  BY <1>1 DEF Streamed!Writer!Packet, Stream!Writer!Packet, Streamed!Writer!Dict, Stream!Writer!Dict,
     Streamed!Writer!Record, Stream!Writer!Record, Streamed!Writer!Half1, Stream!Writer!Half1,
     Streamed!Writer!Half2, Stream!Writer!Half2, Streamed!Writer!Length, Stream!Writer!Length,
     Streamed!Writer!Body, Stream!Writer!Body
<1>4. ASSUME NEW S PROVE Streamed!Writer!Greatest(S) = Stream!Writer!Greatest(S)
  BY DEF Streamed!Writer!Greatest, Stream!Writer!Greatest
<1>5. ASSUME NEW t, NEW ds, NEW i
      PROVE  Streamed!Writer!Emits(t, ds, i) <=> Stream!Writer!Emits(t, ds, i)
  BY <1>4 DEF Streamed!Writer!Emits, Stream!Writer!Emits, Streamed!Writer!Seen, Stream!Writer!Seen
<1>6. ASSUME NEW t, NEW ds, NEW i
      PROVE  Streamed!Writer!Replaces(t, ds, i) <=> Stream!Writer!Replaces(t, ds, i)
  BY <1>4, <1>5 DEF Streamed!Writer!Replaces, Stream!Writer!Replaces, Streamed!Writer!Seen,
     Stream!Writer!Seen
<1>7. ASSUME NEW t, NEW ds PROVE Streamed!Writer!Emitted(t, ds) = Stream!Writer!Emitted(t, ds)
  BY <1>1, <1>5 DEF Streamed!Writer!Emitted, Stream!Writer!Emitted
<1>8. ASSUME NEW t, NEW ds, NEW b
      PROVE  Streamed!Writer!Tracked(t, ds, b) = Stream!Writer!Tracked(t, ds, b)
  <2>1. Streamed!Writer!Inserted(t, ds, b) = Stream!Writer!Inserted(t, ds, b)
    BY <1>1, <1>6 DEF Streamed!Writer!Inserted, Stream!Writer!Inserted
  <2> QED BY <1>4, <2>1 DEF Streamed!Writer!Tracked, Stream!Writer!Tracked,
                            Streamed!Writer!Recorded, Stream!Writer!Recorded
<1> QED BY <1>1, <1>2, <1>3, <1>7, <1>8

\* What of a writer they show.
SameShown ==
  /\ Streamed!WriterStarted = Stream!WriterStarted /\ Streamed!WriterCall = Stream!WriterCall
  /\ Streamed!Finishing = Stream!Finishing
  /\ Streamed!WriterChunk = Stream!WriterChunk /\ Streamed!WriterPending = Stream!WriterPending
  /\ Streamed!WriterSent = Stream!WriterSent /\ Streamed!WriterControls = Stream!WriterControls

LEMMA ShowTheSame == SameShown
<1>1. /\ Streamed!LastTask = Stream!LastTask /\ Streamed!Writing = Stream!Writing
      /\ Streamed!Finishing = Stream!Finishing
  BY SameStreamTasks DEF Streamed!LastTask, Stream!LastTask, Streamed!Writing, Stream!Writing,
     Streamed!Finishing, Stream!Finishing
<1> QED
  BY <1>1, SameStreamTasks, SameStreamCells DEF Streamed!WriterStarted, Stream!WriterStarted,
     Streamed!WriterCall, Stream!WriterCall, Streamed!WriterChunk, Stream!WriterChunk,
     Streamed!WriterPending, Stream!WriterPending, Streamed!WriterSent, Stream!WriterSent,
     Streamed!WriterControls, Stream!WriterControls, SameShown

LEMMA SameWriterSteps ==
  /\ Streamed!Writer!WriterInit => Stream!Writer!WriterInit
  /\ [Streamed!Writer!WriterNext]_(Streamed!Writer!wvars) => [Stream!Writer!WriterNext]_(Stream!Writer!wvars)
<1>1. SameShown'
  BY ShowTheSame, PTL
<1>2. SameShown /\ SameShown'
  BY <1>1, ShowTheSame
<1>3. Streamed!Writer!WriterInit => Stream!Writer!WriterInit
  BY <1>2, SameStreamWriter DEF SameShown, Streamed!Writer!WriterInit, Stream!Writer!WriterInit
<1>4. Streamed!Writer!Start => Stream!Writer!Start
  BY <1>2, SameStreamWriter DEF SameShown, Streamed!Writer!Start, Stream!Writer!Start
<1>5. Streamed!Writer!Finish => Stream!Writer!Finish
  BY <1>2, SameStreamWriter DEF SameShown, Streamed!Writer!Finish, Stream!Writer!Finish
<1>6. Streamed!Writer!DropWriter => Stream!Writer!DropWriter
  BY <1>2, SameStreamWriter DEF SameShown, Streamed!Writer!DropWriter, Stream!Writer!DropWriter
<1>7. Streamed!Writer!ControlFails => Stream!Writer!ControlFails
  <2>1. Streamed!Writer!Packet(Streamed!Writer!Schema) = Stream!Writer!Packet(Stream!Writer!Schema)
    BY SameStreamWriter
  <2> QED BY <1>2, <2>1, SameStreamWriter DEF SameShown, Streamed!Writer!ControlFails, Stream!Writer!ControlFails
<1>8. ASSUME NEW c, Streamed!Writer!Write(c) PROVE Stream!Writer!Write(c)
  BY <1>2, <1>8, SameStreamWriter DEF SameShown, Streamed!Writer!Write, Stream!Writer!Write
<1>9. Streamed!Writer!WriteDictionary => Stream!Writer!WriteDictionary
  BY <1>2, SameStreamWriter DEF SameShown, Streamed!Writer!WriteDictionary, Stream!Writer!WriteDictionary
<1>10. Streamed!Writer!WriteRecord => Stream!Writer!WriteRecord
  BY <1>2, SameStreamWriter DEF SameShown, Streamed!Writer!WriteRecord, Stream!Writer!WriteRecord
<1>11. Streamed!Writer!WriteFails => Stream!Writer!WriteFails
  <2>1. Streamed!Writer!NextMessage = Stream!Writer!NextMessage
    BY <1>2, SameStreamWriter DEF SameShown, Streamed!Writer!NextMessage, Stream!Writer!NextMessage
  <2> QED BY <1>2, <2>1, SameStreamWriter DEF SameShown, Streamed!Writer!WriteFails, Stream!Writer!WriteFails
<1>12. Streamed!Writer!WriterNext => Stream!Writer!WriterNext
  <2>1. CASE \E c \in Streamed!Writer!Chunks : Streamed!Writer!Write(c)
    BY <1>8, <2>1, SameStreamWriter DEF Stream!Writer!WriterNext
  <2> QED BY <1>4, <1>5, <1>6, <1>7, <1>9, <1>10, <1>11, <2>1 DEF Streamed!Writer!WriterNext, Stream!Writer!WriterNext
<1>13. UNCHANGED Streamed!Writer!wvars => UNCHANGED Stream!Writer!wvars
  BY <1>2 DEF SameShown, Streamed!Writer!wvars, Stream!Writer!wvars
<1> QED BY <1>3, <1>12, <1>13

\* WritersAreKept: the writer of a sink of IPC files, of IPC streams or of Parquet is in
\* the sink, in its task, or gone to an error or to finish (file_async.rs, stream_async.rs,
\* parquet/write/sink.rs).
THEOREM WritersKept == SinksSpec => []WritersAreKept
<1>1. SinkInv /\ Stream!SinkInv /\ Parquet!SinkInv => WritersAreKept
  BY DEF WritersAreKept
<1> QED BY <1>1, OneSinkAtATime, SinkIsSafe, StreamSinkIsSafe, ParquetSinkIsSafe, PTL

\* SinkIsStreamWriter: what the sink of IPC streams puts on the wire, among the others too,
\* is what a StreamWriter does that is started once and finished at most once
\* (stream_async.rs, stream.rs).
THEOREM SinkWritesStreams == SinksSpec => SinkIsStreamWriter
<1>1. Streamed!Init => Streamed!SinkInv /\ Streamed!Writer!WriterInit
  BY Streamed!SinkInit, Streamed!SinkInitWrites, FieldsAssumption, NoDictAssumption, FooterSizeAssumption
<1>2. Streamed!SinkInv /\ [Streamed!Next]_(Streamed!vars) => Streamed!SinkInv'
  BY Streamed!SinkStep, FieldsAssumption, NoDictAssumption, FooterSizeAssumption
<1>3. Streamed!SinkInv /\ Streamed!SinkInv' /\ [Streamed!Next]_(Streamed!vars) =>
        [Streamed!Writer!WriterNext]_(Streamed!Writer!wvars)
  BY Streamed!StepWrites, FieldsAssumption, NoDictAssumption, FooterSizeAssumption
<1>4. Streamed!Init /\ [][Streamed!Next]_(Streamed!vars) =>
        Streamed!Writer!WriterInit /\ [][Streamed!Writer!WriterNext]_(Streamed!Writer!wvars)
  BY <1>1, <1>2, <1>3, PTL
<1> QED
  BY <1>4, OneSinkAtATime, SameStreamSteps, SameWriterSteps, PTL
  DEF SinkIsStreamWriter, Stream!SinkIsStreamWriter

\* ClosesAreFinal: a clean close of any sink is the end, with all of the chunks on the file
\* or the one mark at the end of the stream, if no two fields share a dictionary id.
THEOREM ClosesFinal ==
  ASSUME UniqueFields
  PROVE  SinksSpec => []ClosesAreFinal
<1>1. ClosedReadsBack /\ Stream!ClosedIsFinished /\ Parquet!ClosedReadsBack => ClosesAreFinal
  BY DEF ClosesAreFinal
<1>2. Spec => []ClosedReadsBack
  BY ClosedSinkReadsBack
<1> QED BY <1>1, <1>2, OneSinkAtATime, StreamSinkIsSafe, ClosedParquetReadsBack, PTL
=============================================================================

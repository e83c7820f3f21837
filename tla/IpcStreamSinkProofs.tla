------------------------ MODULE IpcStreamSinkProofs ------------------------
(***************************************************************************)
(* SinkInv is inductive, so a closed StreamSink has finished its stream,   *)
(* and what it puts on the wire is what StreamWriter would, for any        *)
(* columns, dictionaries, chunks, polls and I/O errors.                    *)
(***************************************************************************)
EXTENDS IpcStreamSink, IpcEncodingProofs

-----------------------------------------------------------------------------
(* Tasks.                                                                   *)

\* The messages of a task, and which of them comes next.
LEMMA TaskFacts ==
  ASSUME NEW t \in Tasks
  PROVE  /\ t.kind = "none" => Messages(t) = << >>
         /\ t.kind = "start" => Messages(t) = << Packet(Schema) >>
         /\ t.kind = "finish" => Messages(t) = << EndOfStream >>
         /\ t.kind = "write" =>
              /\ Len(Messages(t)) = Len(t.columns) + 1
              /\ \A n \in 1 .. Len(t.columns) :
                   Messages(t)[n] = Packet(Dict(Fields[t.columns[n]], t.chunk.dicts[t.columns[n]]))
              /\ Messages(t)[Len(t.columns) + 1] = Packet(Record(t.chunk.keys))
<1>1. CASE t.kind # "write"
  BY <1>1 DEF Messages, Tasks
<1>2. CASE t.kind = "write"
  <2> DEFINE dicts == [n \in 1 .. Len(t.columns) |->
                         Packet(Dict(Fields[t.columns[n]], t.chunk.dicts[t.columns[n]]))]
             record == Packet(Record(t.chunk.keys))
  <2>1. Messages(t) = Append(dicts, record)
    BY <1>2 DEF Messages
  <2>2. Len(t.columns) \in Nat
    BY DEF Tasks
  <2>3. /\ \A n \in 1 .. Len(t.columns) :
             dicts[n] = Packet(Dict(Fields[t.columns[n]], t.chunk.dicts[t.columns[n]]))
        /\ dicts \in Seq({dicts[n] : n \in 1 .. Len(t.columns)}) /\ Len(dicts) = Len(t.columns)
    BY <2>2
  <2> HIDE DEF dicts, record
  <2>4. /\ Len(Append(dicts, record)) = Len(t.columns) + 1
        /\ \A n \in 1 .. Len(t.columns) : Append(dicts, record)[n] = dicts[n]
        /\ Append(dicts, record)[Len(t.columns) + 1] = record
    BY <2>2, <2>3
  <2> QED BY <1>2, <2>1, <2>3, <2>4 DEF record
<1> QED BY <1>1, <1>2

\* Which tasks have come to their end.
LEMMA EndedFacts ==
  ASSUME NEW t \in Tasks, t.done <= Len(Messages(t))
  PROVE  /\ t.kind = "none" => Ended(t)
         /\ t.kind \in {"start", "finish"} => t.done \in {0, 1} /\ (Ended(t) <=> t.done = 1)
         /\ t.kind = "write" =>
              /\ t.done \in 0 .. Len(t.columns) + 1
              /\ Ended(t) <=> t.done = Len(t.columns) + 1
<1>1. t.done \in Nat /\ Len(t.columns) \in Nat
  BY DEF Tasks
<1>2. CASE t.kind # "write"
  <2>1. Len(Messages(t)) = IF t.kind = "none" THEN 0 ELSE 1
    BY <1>2, TaskFacts DEF Tasks
  <2> QED BY <1>1, <1>2, <2>1 DEF Ended
<1>3. CASE t.kind = "write"
  BY <1>1, <1>3, TaskFacts DEF Ended
<1> QED BY <1>2, <1>3

\* The tasks the sink makes.
LEMMA MadeTasks ==
  /\ NoTask \in Tasks /\ StartTask \in Tasks /\ FinishTask \in Tasks
  /\ NoTask.kind = "none" /\ StartTask.kind = "start" /\ FinishTask.kind = "finish"
  /\ NoTask.done = 0 /\ StartTask.done = 0 /\ FinishTask.done = 0
  /\ \A c \in Chunks, columns \in Seq(Columns) :
       /\ WriteTask(c, columns) \in Tasks
       /\ WriteTask(c, columns).kind = "write" /\ WriteTask(c, columns).done = 0
       /\ WriteTask(c, columns).chunk = c /\ WriteTask(c, columns).columns = columns
<1>1. /\ NoTask \in Tasks /\ NoTask.kind = "none" /\ NoTask.done = 0
      /\ NoTask = [kind |-> "none", chunk |-> NoChunk, columns |-> << >>, done |-> 0]
  BY DEF NoTask, Tasks
<1>2. /\ StartTask = [kind |-> "start", chunk |-> NoChunk, columns |-> << >>, done |-> 0]
      /\ FinishTask = [kind |-> "finish", chunk |-> NoChunk, columns |-> << >>, done |-> 0]
  BY <1>1 DEF StartTask, FinishTask
<1>3. /\ StartTask \in Tasks /\ FinishTask \in Tasks
      /\ StartTask.kind = "start" /\ FinishTask.kind = "finish"
      /\ StartTask.done = 0 /\ FinishTask.done = 0
  BY <1>2 DEF Tasks
<1>4. ASSUME NEW c \in Chunks, NEW columns \in Seq(Columns)
      PROVE  /\ WriteTask(c, columns) \in Tasks
             /\ WriteTask(c, columns).kind = "write" /\ WriteTask(c, columns).done = 0
             /\ WriteTask(c, columns).chunk = c /\ WriteTask(c, columns).columns = columns
  BY DEF WriteTask, Tasks
<1> QED BY <1>1, <1>3, <1>4

\* What a task that has not ended writes next.
LEMMA Upcoming ==
  ASSUME TypeOK, TaskIsOfTheChunk, ~Ended(task), NEW packet, packet = Messages(task)[task.done + 1]
  PROVE  /\ packet \in Seq(StreamCells) /\ task.kind # "none"
         /\ task.kind = "start" => task.done = 0 /\ packet = Packet(Schema)
         /\ task.kind = "finish" => task.done = 0 /\ packet = EndOfStream
         /\ task.kind = "write" /\ task.done < Len(task.columns) =>
              \E i \in Columns : /\ i = task.columns[task.done + 1]
                                 /\ Dict(Fields[i], task.chunk.dicts[i]) \in StreamCells
                                 /\ packet = Packet(Dict(Fields[i], task.chunk.dicts[i]))
         /\ task.kind = "write" /\ task.done >= Len(task.columns) =>
              /\ task.done = Len(task.columns) /\ Record(task.chunk.keys) \in StreamCells
              /\ packet = Packet(Record(task.chunk.keys))
<1>1. task \in Tasks /\ task.done <= Len(Messages(task)) /\ Len(task.columns) \in Nat
      /\ task.columns \in Seq(Columns)
  BY DEF TypeOK, Tasks
<1>0. task.kind = "write" => task.chunk \in Chunks
  BY DEF TypeOK, TaskIsOfTheChunk
<1>2. CASE task.kind \in {"none", "start", "finish"}
  BY <1>1, <1>2, TaskFacts, EndedFacts, PacketFacts
<1>3. CASE task.kind = "write" /\ task.done < Len(task.columns)
  <2>0. task.done + 1 \in 1 .. Len(task.columns)
    BY <1>1, <1>3 DEF Tasks
  <2>1. PICK i \in Columns : i = task.columns[task.done + 1]
    BY <1>1, <2>0
  <2>2. packet = Packet(Dict(Fields[i], task.chunk.dicts[i]))
    BY <1>1, <1>3, <2>0, <2>1, TaskFacts
  <2>3. Fields[i] \in Ids /\ task.chunk.dicts[i] \in Values
    BY <1>0, <1>3, <2>1, FieldsAssumption DEF Columns, Chunks
  <2>4. Dict(Fields[i], task.chunk.dicts[i]) \in StreamCells
    BY <2>3, PacketFacts
  <2>5. packet \in Seq(StreamCells)
    BY <2>2, <2>4, PacketFacts
  <2>6. \E j \in Columns : /\ j = task.columns[task.done + 1]
                           /\ Dict(Fields[j], task.chunk.dicts[j]) \in StreamCells
                           /\ packet = Packet(Dict(Fields[j], task.chunk.dicts[j]))
    <3> WITNESS i \in Columns
    <3> QED BY <2>1, <2>2, <2>4
  <2>7. ~(task.done >= Len(task.columns)) /\ task.kind \notin {"none", "start", "finish"}
    BY <1>1, <1>3 DEF Tasks
  <2> QED BY <2>5, <2>6, <2>7, Zenon
<1>4. CASE task.kind = "write" /\ task.done >= Len(task.columns)
  <2>1. task.done = Len(task.columns)
    BY <1>1, <1>4, EndedFacts DEF Tasks
  <2>2. packet = Packet(Record(task.chunk.keys))
    BY <1>1, <1>4, <2>1, TaskFacts
  <2>3. task.chunk.keys \in Keys
    BY <1>0, <1>4 DEF Chunks
  <2> QED BY <1>4, <2>1, <2>2, <2>3, PacketFacts
<1> QED BY <1>1, <1>2, <1>3, <1>4 DEF Tasks

\* A task that has written a message is the same task.
LEMMA OneMessageOn ==
  ASSUME NEW t \in Tasks, t.done <= Len(Messages(t)), ~Ended(t),
         NEW u, u = [t EXCEPT !.done = @ + 1]
  PROVE  /\ u \in Tasks /\ u.done <= Len(Messages(u))
         /\ u.kind = t.kind /\ u.chunk = t.chunk /\ u.columns = t.columns
         /\ u.done = t.done + 1
<1>1. /\ u \in Tasks /\ u.kind = t.kind /\ u.chunk = t.chunk /\ u.columns = t.columns
      /\ u.done = t.done + 1
  BY DEF Tasks
<1>2. Len(Messages(u)) = Len(Messages(t))
  <2>1. CASE t.kind = "write"
    BY <1>1, <2>1, TaskFacts
  <2>2. CASE t.kind # "write"
    BY <1>1, <2>2, TaskFacts DEF Tasks
  <2> QED BY <2>1, <2>2
<1>3. t.done \in Nat /\ Len(Messages(t)) \in Nat /\ t.done # Len(Messages(t))
  <2>1. t.done \in Nat /\ Len(t.columns) \in Nat
    BY DEF Tasks
  <2>2. CASE t.kind = "write"
    BY <2>1, <2>2, TaskFacts DEF Ended
  <2>3. CASE t.kind # "write"
    BY <2>1, <2>3, TaskFacts DEF Ended, Tasks
  <2> QED BY <2>2, <2>3
<1> QED BY <1>1, <1>2, <1>3
-----------------------------------------------------------------------------
(* The mark.                                                                *)

\* Three cells are those of the mark.
LEMMA SameThree ==
  ASSUME NEW S, NEW s \in Seq(S), NEW t \in Seq(S), Len(s) = 3, Len(t) = 3,
         s[1] = t[1], s[2] = t[2], s[3] = t[3]
  PROVE  s = t
<1>1. \A n \in 1 .. Len(s) : s[n] = t[n]
  <2> TAKE n \in 1 .. Len(s)
  <2>1. n = 1 \/ n = 2 \/ n = 3
    OBVIOUS
  <2> QED BY <2>1
<1> QED BY <1>1

\* A message that is no mark leaves the wire without one.
LEMMA NoMarkWritten ==
  ASSUME wire \in Seq(StreamCells), Marks = {}, NEW p \in Seq(StreamCells),
         \A n \in 1 .. Len(p) : p[n] # Zero, wire' = wire \o p
  PROVE  Marks' = {}
<1>1. ASSUME NEW n \in 1 .. Len(wire') PROVE wire'[n] # Zero
  <2>1. CASE n <= Len(wire)
    BY <2>1 DEF Marks
  <2>2. CASE n > Len(wire)
    <3>1. n - Len(wire) \in 1 .. Len(p) /\ wire'[n] = p[n - Len(wire)]
      BY <2>2
    <3> QED BY <3>1
  <2> QED BY <2>1, <2>2
<1> QED BY <1>1 DEF Marks

\* The mark of the end is where what it is written to ends.
LEMMA MarkBehind ==
  ASSUME NEW w \in Seq(StreamCells), \A n \in 1 .. Len(w) : w[n] # Zero,
         NEW p \in Seq(StreamCells), p = EndOfStream, NEW q, q = w \o p
  PROVE  /\ q \in Seq(StreamCells) /\ Len(q) >= Len(EndOfStream)
         /\ SubSeq(q, Len(q) - Len(EndOfStream) + 1, Len(q)) = EndOfStream
         /\ {n \in 1 .. Len(q) : q[n] = Zero} = {Len(q)}
<1>1. Len(p) = 3 /\ Len(EndOfStream) = 3
  BY PacketFacts
<1>2. /\ Len(w) \in Nat /\ Len(q) = Len(w) + 3 /\ q \in Seq(StreamCells)
      /\ \A n \in 1 .. Len(w) : q[n] = w[n]
      /\ \A n \in 1 .. 3 : q[Len(w) + n] = p[n]
  <2>1. /\ q \in Seq(StreamCells) /\ Len(q) = Len(w) + Len(p)
        /\ \A n \in 1 .. Len(w) : q[n] = w[n]
        /\ \A n \in 1 .. Len(p) : q[Len(w) + n] = p[n]
    BY Behind
  <2> QED BY <1>1, <2>1
<1>3. \A n \in 1 .. 3 : p[n] = Zero <=> n = 3
  BY <1>1, MarkInEndOfStream
<1>4. {n \in 1 .. Len(q) : q[n] = Zero} = {Len(q)}
  <2>1. ASSUME NEW n \in 1 .. Len(q) PROVE q[n] = Zero <=> n = Len(q)
    <3>1. CASE n <= Len(w)
      BY <1>2, <3>1
    <3>2. CASE n > Len(w)
      <4>1. n - Len(w) \in 1 .. 3 /\ n = Len(w) + (n - Len(w))
        BY <1>2, <3>2
      <4>2. q[n] = p[n - Len(w)]
        BY <1>2, <4>1
      <4> QED BY <1>2, <1>3, <4>1, <4>2
    <3> QED BY <1>2, <3>1, <3>2
  <2>2. Len(q) \in 1 .. Len(q)
    BY <1>2
  <2> QED BY <2>1, <2>2
<1>5. SubSeq(q, Len(q) - 3 + 1, Len(q)) = p
  <2> DEFINE end == SubSeq(q, Len(q) - 3 + 1, Len(q))
  <2>1. Len(q) - 3 + 1 = Len(w) + 1
    BY <1>2
  <2>2. Len(end) = 3 /\ end[1] = p[1] /\ end[2] = p[2] /\ end[3] = p[3]
    BY <1>2, <2>1
  <2>3. end \in Seq(StreamCells)
    BY <1>2, <2>1
  <2>4. end = p
    <3> HIDE DEF end
    <3> QED BY <1>1, <2>2, <2>3, SameThree
  <2> QED BY <2>4
<1> QED BY <1>1, <1>2, <1>4, <1>5

\* The mark of the end is where the wire ends.
LEMMA MarkWritten ==
  ASSUME wire \in Seq(StreamCells), Marks = {}, wire' = wire \o EndOfStream
  PROVE  EndsWithMark' /\ Marks' = {Len(wire')}
<1>1. \A n \in 1 .. Len(wire) : wire[n] # Zero
  BY DEF Marks
<1>2. EndOfStream \in Seq(StreamCells)
  BY PacketFacts
<1>3. /\ Len(wire') >= Len(EndOfStream)
      /\ SubSeq(wire', Len(wire') - Len(EndOfStream) + 1, Len(wire')) = EndOfStream
      /\ {n \in 1 .. Len(wire') : wire'[n] = Zero} = {Len(wire')}
  BY <1>1, <1>2, MarkBehind
<1> QED BY <1>3 DEF EndsWithMark, Marks
-----------------------------------------------------------------------------
(* The sink, action by action.                                              *)

\* A sink is made with the task that starts the stream.
LEMMA SinkInit == Init => SinkInv
<1> SUFFICES ASSUME Init PROVE SinkInv
  OBVIOUS
<1>1. EmptyTracker \in Tracker
  BY DEF EmptyTracker, Tracker
<1>2. << >> \in Seq(StreamCells) /\ << >> \in Seq(Chunks) /\ Len(wire) = 0
  BY DEF Init
<1>3. TypeOK
  <2>1. Len(Messages(StartTask)) = 1
    BY MadeTasks, TaskFacts
  <2>2. {task, failed} \subseteq Tasks /\ task.done = 0
    BY MadeTasks DEF Init
  <2>3. task.done <= Len(Messages(task))
    BY <2>1, <2>2 DEF Init
  <2>4. wire \in Seq(StreamCells) /\ accepted \in Seq(Chunks) /\ faults \in Nat
    BY <1>2 DEF Init
  <2>5. /\ writer \in BOOLEAN /\ closing \in BOOLEAN /\ closed \in BOOLEAN
        /\ {tracker, used} \subseteq Tracker
    BY <1>1 DEF Init
  <2> QED BY <2>2, <2>3, <2>4, <2>5 DEF TypeOK
<1>4. OneWriter /\ TaskIsOfTheChunk /\ TrackerIsUsed
  BY MadeTasks DEF Init, OneWriter, TaskIsOfTheChunk, TrackerIsUsed
<1>5. MarkIsTheEnd
  BY <1>2, MadeTasks DEF Init, MarkIsTheEnd, Finishing, Marks
<1> QED BY <1>3, <1>4, <1>5 DEF SinkInv

\* What is known of a task at work.
LEMMA AtWork ==
  ASSUME SinkInv, task # NoTask
  PROVE  /\ task \in Tasks /\ task.done <= Len(Messages(task))
         /\ task.kind \in {"start", "write", "finish"}
         /\ writer = FALSE /\ failed = NoTask /\ closed = FALSE /\ used = tracker
BY DEF SinkInv, TypeOK, OneWriter, TaskIsOfTheChunk, TrackerIsUsed, Tasks

\* No task has nothing to write.
LEMMA NobodyEnded == Ended(NoTask) /\ NoTask.kind = "none"
BY MadeTasks, EndedFacts, TaskFacts

\* A message is written.
LEMMA PollTaskStep ==
  ASSUME SinkInv, PollTask
  PROVE  SinkInv'
<1> DEFINE packet == Messages(task)[task.done + 1]
<1>1. /\ ~Ended(task) /\ wire' = wire \o packet /\ task' = [task EXCEPT !.done = @ + 1]
      /\ UNCHANGED << writer, tracker, closing, closed, accepted, failed, used, faults >>
  BY DEF PollTask
<1>2. task # NoTask
  BY <1>1, NobodyEnded
<1>3. /\ task \in Tasks /\ task.done <= Len(Messages(task)) /\ writer = FALSE /\ failed = NoTask
      /\ task.kind \in {"start", "write", "finish"} /\ wire \in Seq(StreamCells)
  BY <1>2, AtWork DEF SinkInv, TypeOK
<1>4. /\ task' \in Tasks /\ task'.done <= Len(Messages(task')) /\ task'.done = task.done + 1
      /\ task'.kind = task.kind /\ task'.chunk = task.chunk /\ task'.columns = task.columns
  BY <1>1, <1>3, OneMessageOn
<1>5. /\ packet \in Seq(StreamCells)
      /\ task.kind = "finish" => task.done = 0 /\ packet = EndOfStream
      /\ task.kind # "finish" => \A n \in 1 .. Len(packet) : packet[n] # Zero
  <2> HIDE DEF packet
  <2>1. /\ packet \in Seq(StreamCells)
        /\ task.kind = "finish" => task.done = 0 /\ packet = EndOfStream
        /\ task.kind # "finish" => \E x \in StreamCells : x # Zero /\ packet = Packet(x)
    <3>1. TypeOK /\ TaskIsOfTheChunk /\ packet = Messages(task)[task.done + 1]
      BY DEF SinkInv, packet
    <3>2. Schema # Zero /\ Schema \in StreamCells /\ (\A d, v : Dict(d, v) # Zero)
          /\ \A k : Record(k) # Zero
      <4>1. ASSUME NEW d, NEW v PROVE Dict(d, v) # Zero
        BY DEF Dict, Zero
      <4>2. ASSUME NEW k PROVE Record(k) # Zero
        BY DEF Record, Zero
      <4>3. Schema # Zero
        BY DEF Schema, Zero
      <4> QED BY <4>1, <4>2, <4>3, PacketFacts
    <3>3. CASE task.kind \in {"start", "finish"}
      BY <1>1, <3>1, <3>2, <3>3, Upcoming
    <3>4. CASE task.kind = "write" /\ task.done < Len(task.columns)
      BY <1>1, <3>1, <3>2, <3>4, Upcoming
    <3>5. CASE task.kind = "write" /\ task.done >= Len(task.columns)
      BY <1>1, <3>1, <3>2, <3>5, Upcoming
    <3>6. task.done \in Nat /\ Len(task.columns) \in Nat
      BY <1>3 DEF Tasks
    <3> QED BY <1>3, <3>3, <3>4, <3>5, <3>6
  <2> QED BY <2>1, NoMarkInPacket
<1> HIDE DEF packet
<1>6. TypeOK'
  <2>1. wire' \in Seq(StreamCells)
    BY <1>1, <1>3, <1>5
  <2> QED BY <1>1, <1>4, <2>1 DEF SinkInv, TypeOK, Tasks
<1>7. task' # NoTask
  BY <1>3, <1>4, MadeTasks
<1>8. OneWriter' /\ TaskIsOfTheChunk' /\ TrackerIsUsed'
  BY <1>1, <1>2, <1>3, <1>4, <1>7
     DEF SinkInv, OneWriter, TaskIsOfTheChunk, TrackerIsUsed
<1>9. MarkIsTheEnd'
  <2>1. Marks = {}
    BY <1>1, <1>3 DEF SinkInv, MarkIsTheEnd, Finishing
  <2>2. CASE task.kind = "finish"
    <3>1. EndsWithMark' /\ Marks' = {Len(wire')}
      BY <1>1, <1>3, <1>5, <2>1, <2>2, MarkWritten
    <3>2. Ended(task')
      BY <1>3, <1>4, <1>5, <2>2, EndedFacts
    <3>3. Finishing'
      BY <1>1, <1>3, <1>4, <2>2, <3>2 DEF Finishing, Ended
    <3> QED BY <3>1, <3>3 DEF MarkIsTheEnd
  <2>3. CASE task.kind # "finish"
    <3>1. Marks' = {}
      BY <1>1, <1>3, <1>5, <2>1, <2>3, NoMarkWritten
    <3>2. ~Finishing'
      BY <1>3, <1>4, <2>3 DEF Finishing
    <3> QED BY <3>1, <3>2 DEF MarkIsTheEnd
  <2> QED BY <2>2, <2>3
<1> QED BY <1>6, <1>8, <1>9 DEF SinkInv

\* The task fails: nothing more is promised of the wire.
LEMMA PollFailsStep ==
  ASSUME SinkInv, PollFails
  PROVE  SinkInv'
<1> DEFINE packet == Messages(task)[task.done + 1]
<1>1. /\ ~Ended(task) /\ task' = NoTask /\ faults' = faults + 1 /\ closing' = FALSE
      /\ UNCHANGED << writer, tracker, closed, accepted, used >>
      /\ \E n \in 0 .. Len(packet) :
           /\ wire' = wire \o SubSeq(packet, 1, n)
           /\ failed' = task \/ failed' = [task EXCEPT !.done = @ + 1]
  BY DEF PollFails
<1>2. task # NoTask
  BY <1>1, NobodyEnded
<1>3. /\ task \in Tasks /\ task.done <= Len(Messages(task)) /\ writer = FALSE
      /\ task.kind \in {"start", "write", "finish"} /\ wire \in Seq(StreamCells)
  BY <1>2, AtWork DEF SinkInv, TypeOK
<1>4. /\ failed' \in Tasks /\ failed'.kind = task.kind /\ failed'.chunk = task.chunk
      /\ failed'.columns = task.columns
  BY <1>1, <1>3, OneMessageOn
<1>5. packet \in Seq(StreamCells)
  BY <1>1, Upcoming DEF SinkInv
<1> HIDE DEF packet
<1>6. wire' \in Seq(StreamCells)
  BY <1>1, <1>3, <1>5
<1>7. TypeOK'
  <2>1. {task', failed'} \subseteq Tasks /\ task'.done <= Len(Messages(task'))
    BY <1>1, <1>4, MadeTasks, TaskFacts
  <2>2. /\ writer' \in BOOLEAN /\ closing' \in BOOLEAN /\ closed' \in BOOLEAN
        /\ {tracker', used'} \subseteq Tracker
    BY <1>1 DEF SinkInv, TypeOK
  <2>3. accepted' \in Seq(Chunks) /\ faults' \in Nat
    BY <1>1 DEF SinkInv, TypeOK
  <2> QED BY <1>6, <2>1, <2>2, <2>3 DEF TypeOK
<1>8. failed' # NoTask
  BY <1>3, <1>4, MadeTasks
<1>9. OneWriter' /\ TaskIsOfTheChunk' /\ TrackerIsUsed'
  BY <1>1, <1>2, <1>3, <1>4, <1>8, MadeTasks
     DEF SinkInv, OneWriter, TaskIsOfTheChunk, TrackerIsUsed
<1> QED BY <1>7, <1>8, <1>9 DEF SinkInv, MarkIsTheEnd

\* The writer comes back to the sink, or the stream has been finished.
LEMMA PollReadyStep ==
  ASSUME SinkInv, PollReady
  PROVE  SinkInv'
<1>1. /\ task # NoTask /\ Ended(task) /\ task' = NoTask /\ writer' = WriterAfter(task)
      /\ UNCHANGED << wire, tracker, closing, closed, accepted, failed, used, faults >>
  BY DEF PollReady
<1>2. /\ task \in Tasks /\ task.kind \in {"start", "write", "finish"}
      /\ writer = FALSE /\ failed = NoTask /\ closed = FALSE /\ used = tracker
  BY <1>1, AtWork
<1>3. writer' = (task.kind # "finish")
  BY <1>1, <1>2 DEF WriterAfter
<1>4. TypeOK'
  <2>1. task' \in Tasks /\ task'.done <= Len(Messages(task'))
    BY <1>1, MadeTasks, TaskFacts
  <2> QED BY <1>1, <1>3, <2>1 DEF SinkInv, TypeOK
<1>5. OneWriter' /\ TaskIsOfTheChunk' /\ TrackerIsUsed'
  BY <1>1, <1>2, <1>3, MadeTasks
     DEF SinkInv, OneWriter, TaskIsOfTheChunk, TrackerIsUsed
<1>6. MarkIsTheEnd'
  <2>1. Finishing <=> task.kind = "finish"
    BY <1>1, <1>2 DEF Finishing
  <2>2. Finishing' <=> task.kind = "finish"
    <3>1. Ended(task') /\ task'.kind = "none"
      BY <1>1, NobodyEnded DEF Ended
    <3> QED BY <1>1, <1>2, <1>3, <3>1 DEF Finishing, Ended
  <2> QED BY <1>1, <2>1, <2>2 DEF SinkInv, MarkIsTheEnd, Marks, EndsWithMark
<1> QED BY <1>4, <1>5, <1>6 DEF SinkInv

\* A chunk is accepted; its dictionaries are to be written in the order of its columns.
LEMMA StartSendStep ==
  ASSUME SinkInv, NEW c \in Chunks, StartSend(c)
  PROVE  SinkInv'
<1> DEFINE columns == Ascending(Emitted(tracker, c.dicts))
<1>1. /\ task = NoTask /\ writer /\ writer' = FALSE /\ tracker' = Tracked(tracker, c.dicts, FALSE)
      /\ task' = WriteTask(c, columns) /\ accepted' = Append(accepted, c) /\ used' = tracker'
      /\ UNCHANGED << wire, closing, closed, failed, faults >>
  BY DEF StartSend
<1>2. /\ columns \in Seq(Columns)
      /\ \A m, n \in 1 .. Len(columns) : m < n => columns[m] < columns[n]
  <2>1. Emitted(tracker, c.dicts) \subseteq Columns
    BY DEF Emitted
  <2> QED BY <2>1, AscendingColumns
<1>3. failed = NoTask /\ closed = FALSE /\ tracker \in Tracker
  BY <1>1 DEF SinkInv, OneWriter, TypeOK
<1> HIDE DEF columns
<1>4. /\ task' \in Tasks /\ task'.kind = "write" /\ task'.done = 0
      /\ task'.chunk = c /\ task'.columns = columns
  BY <1>1, <1>2, MadeTasks
<1>5. accepted' \in Seq(Chunks) /\ accepted' # << >> /\ accepted'[Len(accepted')] = c
  BY <1>1 DEF SinkInv, TypeOK
<1>6. TypeOK'
  <2>1. Len(Messages(task')) = Len(columns) + 1 /\ Len(columns) \in Nat
    BY <1>2, <1>4, TaskFacts
  <2>2. tracker' \in Tracker /\ used' \in Tracker
    BY <1>1, <1>3, TrackedType
  <2>3. {task', failed'} \subseteq Tasks /\ task'.done <= Len(Messages(task'))
    BY <1>1, <1>4, <2>1 DEF SinkInv, TypeOK
  <2>4. /\ wire' \in Seq(StreamCells) /\ faults' \in Nat
        /\ writer' \in BOOLEAN /\ closing' \in BOOLEAN /\ closed' \in BOOLEAN
    BY <1>1 DEF SinkInv, TypeOK
  <2> QED BY <1>5, <2>2, <2>3, <2>4 DEF TypeOK
<1>7. OneWriter'
  BY <1>1, <1>3 DEF OneWriter
<1>8. TaskIsOfTheChunk'
  <2>1. failed' = NoTask /\ NoTask.kind # "write"
    BY <1>1, <1>3, MadeTasks
  <2> QED BY <1>2, <1>4, <1>5, <2>1 DEF TaskIsOfTheChunk
<1>9. TrackerIsUsed'
  BY <1>1 DEF TrackerIsUsed
<1>10. MarkIsTheEnd'
  <2>1. Marks = {} /\ Marks' = Marks
    BY <1>1, <1>3 DEF SinkInv, MarkIsTheEnd, Finishing, Marks
  <2>2. ~Finishing'
    BY <1>4 DEF Finishing
  <2> QED BY <2>1, <2>2 DEF MarkIsTheEnd
<1> QED BY <1>6, <1>7, <1>8, <1>9, <1>10 DEF SinkInv

\* The chunk is encoded by a sink that has lost its writer, or has finished.
LEMMA StartSendClosedStep ==
  ASSUME SinkInv, NEW c \in Chunks, StartSendClosed(c)
  PROVE  SinkInv'
<1>1. /\ task = NoTask /\ ~writer /\ tracker' = Tracked(tracker, c.dicts, FALSE)
      /\ UNCHANGED << wire, writer, task, closing, closed, accepted, failed, used, faults >>
  BY DEF StartSendClosed
<1>2. tracker' \in Tracker
  BY <1>1, TrackedType DEF SinkInv, TypeOK
<1>3. TypeOK'
  BY <1>1, <1>2 DEF SinkInv, TypeOK, Messages
<1>4. OneWriter' /\ TaskIsOfTheChunk' /\ TrackerIsUsed'
  BY <1>1 DEF SinkInv, OneWriter, TaskIsOfTheChunk, TrackerIsUsed
<1>5. MarkIsTheEnd'
  BY <1>1 DEF SinkInv, MarkIsTheEnd, Finishing, Ended, Messages, EndsWithMark, Marks
<1> QED BY <1>3, <1>4, <1>5 DEF SinkInv

\* The caller awaits close(), or gives it up.
LEMMA CloseStep ==
  ASSUME SinkInv, Close
  PROVE  SinkInv'
<1>1. /\ closing' = ~closing
      /\ UNCHANGED << wire, writer, task, tracker, closed, accepted, failed, used, faults >>
  BY DEF Close
<1>2. TypeOK'
  BY <1>1 DEF SinkInv, TypeOK, Messages
<1>3. OneWriter' /\ TaskIsOfTheChunk' /\ TrackerIsUsed'
  BY <1>1 DEF SinkInv, OneWriter, TaskIsOfTheChunk, TrackerIsUsed
<1>4. MarkIsTheEnd'
  BY <1>1 DEF SinkInv, MarkIsTheEnd, Finishing, Ended, Messages, EndsWithMark, Marks
<1> QED BY <1>2, <1>3, <1>4 DEF SinkInv

\* The stream is to be finished, or close() returns Ok.
LEMMA PollCloseStep ==
  ASSUME SinkInv, PollClose
  PROVE  SinkInv'
<1>1. /\ Ended(task) /\ writer' = FALSE
      /\ UNCHANGED << wire, tracker, accepted, failed, used, faults >>
  BY DEF PollClose
<1>2. CASE WriterAfter(task)
  <2>1. task' = FinishTask /\ UNCHANGED << closing, closed >>
    BY <1>2 DEF PollClose
  <2>2. /\ failed = NoTask /\ closed = FALSE /\ used = tracker
        /\ ~Finishing
    <3>1. CASE task = NoTask
      BY <1>2, <3>1, MadeTasks DEF WriterAfter, SinkInv, OneWriter, TrackerIsUsed, Finishing
    <3>2. CASE task # NoTask
      BY <1>2, <3>2, AtWork DEF WriterAfter, Finishing
    <3> QED BY <3>1, <3>2
  <2>3. task' \in Tasks /\ task'.kind = "finish" /\ task'.done = 0 /\ task' # NoTask
    BY <2>1, MadeTasks
  <2>4. Len(Messages(task')) = 1
    BY <2>3, TaskFacts
  <2>5. TypeOK'
    <3>1. {task', failed'} \subseteq Tasks /\ task'.done <= Len(Messages(task'))
      BY <1>1, <2>3, <2>4 DEF SinkInv, TypeOK
    <3>2. /\ writer' \in BOOLEAN /\ closing' \in BOOLEAN /\ closed' \in BOOLEAN
          /\ {tracker', used'} \subseteq Tracker
      BY <1>1, <2>1 DEF SinkInv, TypeOK
    <3>3. wire' \in Seq(StreamCells) /\ accepted' \in Seq(Chunks) /\ faults' \in Nat
      BY <1>1 DEF SinkInv, TypeOK
    <3> QED BY <3>1, <3>2, <3>3 DEF TypeOK
  <2>6. OneWriter' /\ TrackerIsUsed'
    BY <1>1, <2>1, <2>2 DEF OneWriter, TrackerIsUsed
  <2>7. TaskIsOfTheChunk'
    BY <1>1, <2>2, <2>3, MadeTasks DEF TaskIsOfTheChunk
  <2>8. MarkIsTheEnd'
    <3>1. ~Finishing'
      BY <2>3, <2>4 DEF Finishing, Ended
    <3> QED BY <1>1, <2>2, <3>1 DEF SinkInv, MarkIsTheEnd, Marks
  <2> QED BY <2>5, <2>6, <2>7, <2>8 DEF SinkInv
<1>3. CASE ~WriterAfter(task)
  <2>1. task' = NoTask /\ closing' = FALSE /\ closed' = TRUE
    BY <1>3 DEF PollClose
  <2>2. task.kind \in {"none", "finish"} /\ ~writer
    <3>1. CASE task = NoTask
      BY <1>3, <3>1, MadeTasks DEF WriterAfter
    <3>2. CASE task # NoTask
      BY <1>3, <3>2, AtWork DEF WriterAfter
    <3> QED BY <3>1, <3>2
  <2>3. TypeOK'
    <3>1. {task', failed'} \subseteq Tasks /\ task'.done <= Len(Messages(task'))
      BY <1>1, <2>1, MadeTasks, TaskFacts DEF SinkInv, TypeOK
    <3>2. /\ writer' \in BOOLEAN /\ closing' \in BOOLEAN /\ closed' \in BOOLEAN
          /\ {tracker', used'} \subseteq Tracker
      BY <1>1, <2>1 DEF SinkInv, TypeOK
    <3>3. wire' \in Seq(StreamCells) /\ accepted' \in Seq(Chunks) /\ faults' \in Nat
      BY <1>1 DEF SinkInv, TypeOK
    <3> QED BY <3>1, <3>2, <3>3 DEF TypeOK
  <2>4. OneWriter' /\ TrackerIsUsed' /\ TaskIsOfTheChunk'
    BY <1>1, <2>1, MadeTasks DEF SinkInv, OneWriter, TrackerIsUsed, TaskIsOfTheChunk
  <2>5. MarkIsTheEnd'
    <3>1. failed = NoTask => Finishing
      BY <1>1, <2>2 DEF Finishing
    <3>2. Ended(task') /\ task'.kind = "none"
      BY <2>1, NobodyEnded DEF Ended
    <3>3. failed = NoTask => Finishing'
      BY <1>1, <3>2 DEF Finishing, Ended
    <3> QED BY <1>1, <3>1, <3>3 DEF SinkInv, MarkIsTheEnd, Marks, EndsWithMark
  <2> QED BY <2>3, <2>4, <2>5 DEF SinkInv
<1> QED BY <1>2, <1>3

\* Every step of the sink keeps its invariant.
LEMMA SinkStep == SinkInv /\ [Next]_vars => SinkInv'
<1> SUFFICES ASSUME SinkInv, [Next]_vars PROVE SinkInv'
  OBVIOUS
<1>1. CASE PollTask \/ PollFails \/ PollReady
  BY <1>1, PollTaskStep, PollFailsStep, PollReadyStep
<1>2. CASE \E c \in Chunks : StartSend(c) \/ StartSendClosed(c)
  BY <1>2, StartSendStep, StartSendClosedStep
<1>3. CASE Close \/ PollClose
  BY <1>3, CloseStep, PollCloseStep
<1>4. CASE UNCHANGED vars
  <2>1. UNCHANGED << wire, writer, task, tracker, closing, closed, accepted, failed, used, faults >>
    BY <1>4 DEF vars
  <2>2. TypeOK'
    BY <2>1 DEF SinkInv, TypeOK, Messages
  <2>3. OneWriter' /\ TaskIsOfTheChunk' /\ TrackerIsUsed'
    BY <2>1 DEF SinkInv, OneWriter, TaskIsOfTheChunk, TrackerIsUsed
  <2>4. MarkIsTheEnd'
    BY <2>1 DEF SinkInv, MarkIsTheEnd, Finishing, Ended, Messages, EndsWithMark, Marks
  <2> QED BY <2>2, <2>3, <2>4 DEF SinkInv
<1> QED BY <1>1, <1>2, <1>3, <1>4 DEF Next

\* At all times the writer is in one place, or was lost to an error or given up by
\* finish; and the end-of-stream mark is on the wire once the finish task has run, behind
\* everything else, and not before (StreamSink of stream_async.rs).
THEOREM SinkIsSafe == Spec => []SinkInv
<1>1. Init => SinkInv
  BY SinkInit
<1>2. SinkInv /\ [Next]_vars => SinkInv'
  BY SinkStep
<1> QED BY <1>1, <1>2, PTL DEF Spec

\* A closed sink has finished its stream.
LEMMA ClosedFinishes == SinkInv => ClosedIsFinished
<1> SUFFICES ASSUME SinkInv, closed, failed = NoTask
             PROVE  EndsWithMark /\ Cardinality(Marks) = 1
  BY DEF ClosedIsFinished
<1>1. ~writer /\ task = NoTask
  BY DEF SinkInv, OneWriter
<1>2. Finishing
  BY <1>1, NobodyEnded DEF Finishing
<1>3. EndsWithMark /\ Marks = {Len(wire)}
  BY <1>2 DEF SinkInv, MarkIsTheEnd
<1> QED BY <1>3, FS_Singleton

\* A close() of the StreamSink that returns Ok, with no error before it, has written the
\* end-of-stream mark once, and nothing after it (poll_close of stream_async.rs).
THEOREM ClosedSinkIsFinished == Spec => []ClosedIsFinished
<1> QED BY ClosedFinishes, SinkIsSafe, PTL
-----------------------------------------------------------------------------
(* What StreamWriter would have on the same bytes.                          *)

\* While a chunk is being written.
ShowsWriting ==
  /\ WriterStarted = TRUE /\ Finishing = FALSE /\ WriterCall = "write" /\ WriterChunk = task.chunk
  /\ WriterPending = {task.columns[n] : n \in task.done + 1 .. Len(task.columns)}
  /\ WriterSent = SubSeq(accepted, 1, Len(accepted) - 1) /\ WriterControls = 1

\* While the stream is started, or has been, and no chunk is being written.
ShowsIdle ==
  /\ WriterCall = "idle" /\ WriterChunk = NoChunk /\ WriterPending = {} /\ WriterSent = accepted
  /\ WriterStarted \in BOOLEAN /\ Finishing \in BOOLEAN
  /\ WriterStarted <=> ~(task.kind = "start" /\ task.done = 0)
  /\ Finishing <=> ~writer /\ task.kind \in {"none", "finish"} /\ Ended(task)
  /\ WriterControls = IF ~WriterStarted THEN 0 ELSE IF Finishing THEN 2 ELSE 1

\* Once a task has failed.
ShowsFailed ==
  /\ WriterStarted = TRUE /\ Finishing = FALSE /\ WriterCall = "dropped"
  /\ WriterChunk = NoChunk /\ WriterPending = {}
  /\ WriterSent = IF failed.kind = "write" /\ ~Ended(failed)
                  THEN SubSeq(accepted, 1, Len(accepted) - 1) ELSE accepted
  /\ WriterControls = IF failed.kind = "finish" THEN 2 ELSE 1

\* Which of these it is.
LEMMA Shown ==
  SinkInv => /\ Writing => ShowsWriting
             /\ failed = NoTask /\ ~Writing => ShowsIdle
             /\ failed # NoTask => ShowsFailed
<1> SUFFICES ASSUME SinkInv
             PROVE  /\ Writing => ShowsWriting
                    /\ failed = NoTask /\ ~Writing => ShowsIdle
                    /\ failed # NoTask => ShowsFailed
  OBVIOUS
<1>1. task \in Tasks /\ failed \in Tasks /\ task.done <= Len(Messages(task))
  BY DEF SinkInv, TypeOK
<1>2. ASSUME Writing PROVE ShowsWriting
  <2>1. failed = NoTask /\ LastTask = task /\ task.kind = "write" /\ ~Ended(task)
    BY <1>2 DEF Writing, LastTask
  <2>2. WriterStarted = TRUE /\ Finishing = FALSE /\ WriterCall = "write" /\ WriterControls = 1
    BY <1>2, <2>1 DEF WriterStarted, Finishing, WriterCall, WriterControls
  <2> QED BY <1>2, <2>1, <2>2 DEF ShowsWriting, WriterChunk, WriterPending, WriterSent
<1>3. ASSUME failed = NoTask, ~Writing PROVE ShowsIdle
  <2>1. LastTask = task /\ ~(task.kind = "write" /\ ~Ended(task))
    BY <1>3 DEF Writing, LastTask
  <2>2. /\ WriterCall = "idle" /\ WriterChunk = NoChunk /\ WriterPending = {}
        /\ WriterSent = accepted
    BY <1>3, <2>1 DEF WriterCall, WriterChunk, WriterPending, WriterSent
  <2>3. /\ WriterStarted \in BOOLEAN /\ Finishing \in BOOLEAN
        /\ WriterStarted <=> ~(task.kind = "start" /\ ~Ended(task))
        /\ Finishing <=> ~writer /\ task.kind \in {"none", "finish"} /\ Ended(task)
    BY <1>3 DEF WriterStarted, Finishing
  <2>4. task.kind = "start" => (~Ended(task) <=> task.done = 0)
    BY <1>1, EndedFacts
  <2>5. WriterControls = IF ~WriterStarted THEN 0 ELSE IF Finishing THEN 2 ELSE 1
    BY <1>3, <2>1, <2>3 DEF WriterControls
  <2> QED BY <2>2, <2>3, <2>4, <2>5 DEF ShowsIdle
<1>4. ASSUME failed # NoTask PROVE ShowsFailed
  <2>1. LastTask = failed /\ task = NoTask /\ task.kind = "none" /\ ~Writing /\ failed.kind # "none"
    BY <1>4, MadeTasks DEF LastTask, SinkInv, OneWriter, TaskIsOfTheChunk, Writing
  <2>2. WriterStarted = TRUE /\ Finishing = FALSE /\ WriterCall = "dropped"
    BY <1>4, <2>1 DEF WriterStarted, Finishing, WriterCall
  <2>3. WriterControls = IF failed.kind = "finish" THEN 2 ELSE 1
    BY <1>4, <2>1, <2>2 DEF WriterControls
  <2> QED BY <2>1, <2>2, <2>3 DEF ShowsFailed, WriterChunk, WriterPending, WriterSent
<1> QED BY <1>2, <1>3, <1>4

\* The same of the state a step leads to.
LEMMA ShownNext ==
  SinkInv' => /\ Writing' => ShowsWriting'
              /\ (failed = NoTask)' /\ ~Writing' => ShowsIdle'
              /\ (failed # NoTask)' => ShowsFailed'
BY Shown, PTL

\* StreamWriter is given the encoding of the sink.
LEMMA SameEncoding ==
  /\ Writer!Schema = Schema /\ Writer!EndOfStream = EndOfStream /\ Writer!NoChunk = NoChunk
  /\ Writer!EmptyTracker = EmptyTracker /\ Writer!Chunks = Chunks
  /\ \A x : Writer!Packet(x) = Packet(x)
  /\ \A d, v : Writer!Dict(d, v) = Dict(d, v)
  /\ \A k : Writer!Record(k) = Record(k)
  /\ \A t, ds : Writer!Emitted(t, ds) = Emitted(t, ds)
  /\ \A t, ds, b : Writer!Tracked(t, ds, b) = Tracked(t, ds, b)
<1>1. Writer!Columns = Columns
  BY DEF Writer!Columns, Columns
<1>2. /\ Writer!Schema = Schema /\ Writer!EndOfStream = EndOfStream /\ Writer!NoChunk = NoChunk
      /\ Writer!EmptyTracker = EmptyTracker /\ Writer!Chunks = Chunks
  BY <1>1 DEF Writer!Schema, Schema, Writer!EndOfStream, EndOfStream, Writer!NoChunk, NoChunk,
     Writer!EmptyTracker, EmptyTracker, Writer!Chunks, Chunks, Writer!Half1, Half1,
     Writer!Half2, Half2, Writer!Zero, Zero
<1>3. /\ \A x : Writer!Packet(x) = Packet(x)
      /\ \A d, v : Writer!Dict(d, v) = Dict(d, v)
      /\ \A k : Writer!Record(k) = Record(k)
  BY <1>2 DEF Writer!Packet, Packet, Writer!Dict, Dict, Writer!Record, Record, Writer!Half1, Half1,
     Writer!Half2, Half2, Writer!Length, Length, Writer!Body, Body
<1>4. ASSUME NEW S PROVE Writer!Greatest(S) = Greatest(S)
  BY DEF Writer!Greatest, Greatest
<1>5. ASSUME NEW t, NEW ds, NEW i PROVE Writer!Seen(t, ds, i) = Seen(t, ds, i)
  BY <1>4 DEF Writer!Seen, Seen
<1>6. ASSUME NEW t, NEW ds, NEW i PROVE Writer!Emits(t, ds, i) <=> Emits(t, ds, i)
  BY <1>5 DEF Writer!Emits, Emits
<1>7. ASSUME NEW t, NEW ds, NEW i PROVE Writer!Replaces(t, ds, i) <=> Replaces(t, ds, i)
  BY <1>5, <1>6 DEF Writer!Replaces, Replaces
<1>8. ASSUME NEW t, NEW ds, NEW b PROVE Writer!Inserted(t, ds, b) = Inserted(t, ds, b)
  BY <1>1, <1>7 DEF Writer!Inserted, Inserted
<1>9. ASSUME NEW t, NEW ds, NEW b PROVE Writer!Tracked(t, ds, b) = Tracked(t, ds, b)
  BY <1>4, <1>8 DEF Writer!Tracked, Tracked, Writer!Recorded, Recorded
<1>10. ASSUME NEW t, NEW ds PROVE Writer!Emitted(t, ds) = Emitted(t, ds)
  BY <1>1, <1>6 DEF Writer!Emitted, Emitted
<1> QED BY <1>2, <1>3, <1>9, <1>10

\* A new sink is a new StreamWriter that is about to be started.
LEMMA SinkInitWrites == Init => Writer!WriterInit
<1> SUFFICES ASSUME Init PROVE Writer!WriterInit
  OBVIOUS
<1>1. SinkInv
  BY SinkInit
<1>2. failed = NoTask /\ task.kind = "start" /\ task.done = 0
  BY MadeTasks DEF Init
<1>3. ShowsIdle
  BY <1>1, <1>2, Shown DEF Writing
<1> QED BY <1>2, <1>3, SameEncoding DEF Init, Writer!WriterInit, ShowsIdle

\* The columns of the task from the nth on.
Ahead(n) == {task.columns[m] : m \in n .. Len(task.columns)}

\* The dictionary a task writes next is that of the least column it has left.
LEMMA DictionaryAhead ==
  ASSUME TypeOK, TaskIsOfTheChunk, ~Ended(task), task.kind = "write", task.done < Len(task.columns),
         NEW packet, packet = Messages(task)[task.done + 1]
  PROVE  \E i \in Columns :
           /\ packet = Packet(Dict(Fields[i], task.chunk.dicts[i]))
           /\ i \in Ahead(task.done + 1) /\ \A j \in Ahead(task.done + 1) : i <= j
           /\ Ahead(task.done + 2) = Ahead(task.done + 1) \ {i}
<1>1. task.done \in Nat /\ Len(task.columns) \in Nat /\ task.done + 1 \in 1 .. Len(task.columns)
  BY DEF TypeOK, Tasks
<1>2. PICK i \in Columns : /\ i = task.columns[task.done + 1]
                           /\ packet = Packet(Dict(Fields[i], task.chunk.dicts[i]))
  BY Upcoming
<1>3. /\ task.columns \in Seq(Columns)
      /\ \A m, n \in 1 .. Len(task.columns) : m < n => task.columns[m] < task.columns[n]
  BY DEF TypeOK, Tasks, TaskIsOfTheChunk
<1>4. i \in Ahead(task.done + 1) /\ \A j \in Ahead(task.done + 1) : i <= j
  <2>1. i \in Ahead(task.done + 1)
    BY <1>1, <1>2, SMTT(30) DEF Ahead
  <2>2. ASSUME NEW m \in task.done + 1 .. Len(task.columns) PROVE i <= task.columns[m]
    <3>1. m \in 1 .. Len(task.columns) /\ task.columns[m] \in Columns /\ i \in Int
          /\ (m = task.done + 1 \/ task.done + 1 < m)
      BY <1>1, <1>3, SMTT(30) DEF Columns
    <3> QED BY <1>1, <1>2, <1>3, <3>1, SMTT(30) DEF Columns
  <2> QED BY <2>1, <2>2 DEF Ahead
<1>5. Ahead(task.done + 2) = Ahead(task.done + 1) \ {i}
  <2>1. ASSUME NEW m \in task.done + 2 .. Len(task.columns) PROVE task.columns[m] # i
    <3>1. m \in 1 .. Len(task.columns) /\ task.done + 1 < m /\ task.columns[m] \in Columns
      BY <1>1, <1>3
    <3>2. task.columns[task.done + 1] < task.columns[m]
      BY <1>1, <1>3, <3>1
    <3> QED BY <1>2, <3>1, <3>2, SMTT(30) DEF Columns
  <2>2. Ahead(task.done + 1) = {i} \cup Ahead(task.done + 2)
    <3>1. \A m : m \in task.done + 1 .. Len(task.columns) <=>
                 m = task.done + 1 \/ m \in task.done + 2 .. Len(task.columns)
      BY <1>1
    <3> QED BY <1>2, <3>1 DEF Ahead
  <2>3. i \notin Ahead(task.done + 2)
    BY <2>1 DEF Ahead
  <2> QED BY <2>2, <2>3
<1>6. \E j \in Columns :
        /\ packet = Packet(Dict(Fields[j], task.chunk.dicts[j]))
        /\ j \in Ahead(task.done + 1) /\ \A k \in Ahead(task.done + 1) : j <= k
        /\ Ahead(task.done + 2) = Ahead(task.done + 1) \ {j}
  <2> WITNESS i \in Columns
  <2> QED BY <1>2, <1>4, <1>5
<1> QED BY <1>6

\* A message of a task is a step of StreamWriter.
LEMMA PollTaskWrites ==
  ASSUME SinkInv, SinkInv', PollTask
  PROVE  Writer!WriterNext
<1> DEFINE packet == Messages(task)[task.done + 1]
<1>1. /\ ~Ended(task) /\ wire' = wire \o packet /\ task' = [task EXCEPT !.done = @ + 1]
      /\ UNCHANGED << writer, accepted, failed, used >>
  BY DEF PollTask
<1>2. task # NoTask
  BY <1>1, NobodyEnded
<1>3. /\ task \in Tasks /\ task.done <= Len(Messages(task)) /\ writer = FALSE /\ failed = NoTask
      /\ task.kind \in {"start", "write", "finish"}
  BY <1>2, AtWork
<1>4. /\ task' \in Tasks /\ task'.done <= Len(Messages(task')) /\ task'.done = task.done + 1
      /\ task'.kind = task.kind /\ task'.chunk = task.chunk /\ task'.columns = task.columns
  BY <1>1, <1>3, OneMessageOn
<1>5. TypeOK /\ TaskIsOfTheChunk /\ packet = Messages(task)[task.done + 1]
  BY DEF SinkInv
<1>6. Ended(task') <=> Ended(task)'
  BY DEF Ended
<1> HIDE DEF packet
<1>7. CASE task.kind = "start"
  <2>1. task.done = 0 /\ packet = Packet(Schema) /\ Ended(task')
    <3>1. task.done = 0 /\ packet = Packet(Schema)
      BY <1>1, <1>5, <1>7, Upcoming
    <3>2. Ended(task')
      BY <1>4, <1>7, <3>1, EndedFacts
    <3> QED BY <3>1, <3>2
  <2>2. ShowsIdle /\ ShowsIdle'
    BY <1>1, <1>3, <1>4, <1>7, Shown, ShownNext DEF Writing
  <2>3. WriterStarted = FALSE /\ Finishing = FALSE /\ WriterStarted' = TRUE /\ Finishing' = FALSE
    BY <1>4, <1>7, <2>1, <2>2 DEF ShowsIdle
  <2>4. Writer!Start
    BY <1>1, <2>1, <2>2, <2>3, SameEncoding DEF ShowsIdle, Writer!Start
  <2> QED BY <2>4 DEF Writer!WriterNext
<1>8. CASE task.kind = "finish"
  <2>1. task.done = 0 /\ packet = EndOfStream /\ Ended(task')
    <3>1. task.done = 0 /\ packet = EndOfStream
      BY <1>1, <1>5, <1>8, Upcoming
    <3>2. Ended(task')
      BY <1>4, <1>8, <3>1, EndedFacts
    <3> QED BY <3>1, <3>2
  <2>2. ShowsIdle /\ ShowsIdle'
    BY <1>1, <1>3, <1>4, <1>8, Shown, ShownNext DEF Writing
  <2>3. WriterStarted = TRUE /\ Finishing = FALSE /\ WriterStarted' = TRUE /\ Finishing' = TRUE
    BY <1>1, <1>3, <1>4, <1>6, <1>8, <2>1, <2>2 DEF ShowsIdle
  <2>4. Writer!Finish
    BY <1>1, <2>1, <2>2, <2>3, SameEncoding DEF ShowsIdle, Writer!Finish
  <2> QED BY <2>4 DEF Writer!WriterNext
<1>9. CASE task.kind = "write" /\ task.done < Len(task.columns)
  <2>1. task.done \in Nat /\ Len(task.columns) \in Nat
    BY <1>3 DEF Tasks
  <2>2. PICK i \in Columns :
          /\ packet = Packet(Dict(Fields[i], task.chunk.dicts[i]))
          /\ i \in Ahead(task.done + 1) /\ \A j \in Ahead(task.done + 1) : i <= j
          /\ Ahead(task.done + 2) = Ahead(task.done + 1) \ {i}
    BY <1>1, <1>5, <1>9, DictionaryAhead
  <2>3. ~Ended(task')
    BY <1>4, <1>9, <2>1, EndedFacts
  <2>4. ShowsWriting /\ ShowsWriting'
    BY <1>1, <1>3, <1>4, <1>6, <1>9, <2>3, Shown, ShownNext DEF Writing
  <2>5. WriterPending = Ahead(task.done + 1) /\ WriterPending' = Ahead(task.done + 2)
    BY <1>4, <2>1, <2>4 DEF ShowsWriting, Ahead
  <2>6. /\ wire' = wire \o Packet(Dict(Fields[i], WriterChunk.dicts[i])) /\ WriterCall = "write"
        /\ UNCHANGED << WriterStarted, Finishing, used, WriterCall, WriterChunk, WriterSent,
                        WriterControls >>
    BY <1>1, <1>4, <2>2, <2>4 DEF ShowsWriting
  <2>7. Writer!WriteDictionary
    BY <2>2, <2>5, <2>6, SameEncoding DEF Writer!WriteDictionary
  <2> QED BY <2>7 DEF Writer!WriterNext
<1>10. CASE task.kind = "write" /\ task.done >= Len(task.columns)
  <2>1. task.done = Len(task.columns) /\ packet = Packet(Record(task.chunk.keys))
    BY <1>1, <1>5, <1>10, Upcoming
  <2>2. Ended(task') /\ Len(task.columns) \in Nat
    BY <1>3, <1>4, <1>10, <2>1, EndedFacts DEF Tasks
  <2>3. ShowsWriting /\ ShowsIdle'
    BY <1>1, <1>3, <1>4, <1>6, <1>10, <2>2, Shown, ShownNext DEF Writing
  <2>4. WriterPending = {}
    BY <2>1, <2>2, <2>3 DEF ShowsWriting
  <2>5. WriterSent' = Append(WriterSent, WriterChunk)
    <3>1. /\ accepted \in Seq(Chunks) /\ accepted # << >> /\ task.chunk = accepted[Len(accepted)]
      BY <1>5, <1>10 DEF TypeOK, TaskIsOfTheChunk
    <3>2. accepted = Append(SubSeq(accepted, 1, Len(accepted) - 1), accepted[Len(accepted)])
      BY <3>1
    <3> QED BY <1>1, <2>3, <3>1, <3>2 DEF ShowsWriting, ShowsIdle
  <2>6. WriterStarted' = TRUE /\ Finishing' = FALSE /\ WriterControls' = 1
    BY <1>4, <1>10, <2>3 DEF ShowsIdle
  <2>7. Writer!WriteRecord
    BY <1>1, <2>1, <2>3, <2>4, <2>5, <2>6, SameEncoding DEF ShowsWriting, ShowsIdle, Writer!WriteRecord
  <2> QED BY <2>7 DEF Writer!WriterNext
<1>11. task.done \in Nat /\ Len(task.columns) \in Nat
  BY <1>3 DEF Tasks
<1> QED BY <1>3, <1>7, <1>8, <1>9, <1>10, <1>11

\* A message that is cut short is one StreamWriter cuts short.
LEMMA PollFailsWrites ==
  ASSUME SinkInv, SinkInv', PollFails
  PROVE  Writer!WriterNext
<1> DEFINE packet == Messages(task)[task.done + 1]
<1>1. /\ ~Ended(task) /\ task' = NoTask /\ UNCHANGED << writer, accepted, used >>
  BY DEF PollFails
<1>2. task # NoTask
  BY <1>1, NobodyEnded
<1>3. /\ task \in Tasks /\ task.done <= Len(Messages(task)) /\ writer = FALSE /\ failed = NoTask
      /\ task.kind \in {"start", "write", "finish"}
  BY <1>2, AtWork
<1>4. TypeOK /\ TaskIsOfTheChunk /\ packet = Messages(task)[task.done + 1]
  BY DEF SinkInv
<1>5. PICK n \in 0 .. Len(packet) :
        /\ wire' = wire \o SubSeq(packet, 1, n)
        /\ failed' = IF n = Len(packet) THEN [task EXCEPT !.done = @ + 1] ELSE task
  BY DEF PollFails
<1> HIDE DEF packet
<1>6. /\ failed' \in Tasks /\ failed'.kind = task.kind /\ failed'.columns = task.columns
      /\ failed'.done = (IF n = Len(packet) THEN task.done + 1 ELSE task.done)
      /\ failed'.done <= Len(Messages(failed'))
  BY <1>1, <1>3, <1>5, OneMessageOn
<1>7. failed' # NoTask
  BY <1>3, <1>6, MadeTasks
<1>8. ShowsFailed'
  BY <1>7, ShownNext
<1>9. Ended(failed') <=> Ended(failed)'
  BY DEF Ended
<1>10. CASE task.kind \in {"start", "finish"}
  <2>1. packet = IF task.kind = "start" THEN Packet(Schema) ELSE EndOfStream
    BY <1>1, <1>4, <1>10, Upcoming
  <2>2. ShowsIdle
    BY <1>3, <1>10, Shown DEF Writing
  <2>3. task.done = 0
    BY <1>1, <1>4, <1>10, Upcoming
  <2>4. /\ WriterStarted' = TRUE /\ Finishing' = FALSE /\ WriterCall' = "dropped"
        /\ WriterChunk' = NoChunk /\ WriterPending' = {} /\ WriterSent' = accepted
        /\ WriterControls' = IF task.kind = "finish" THEN 2 ELSE 1
    BY <1>1, <1>6, <1>8, <1>10 DEF ShowsFailed
  <2>5. /\ WriterStarted = (task.kind = "finish") /\ Finishing = FALSE /\ WriterCall = "idle"
        /\ WriterChunk = NoChunk /\ WriterPending = {} /\ WriterSent = accepted
        /\ WriterControls = IF task.kind = "finish" THEN 1 ELSE 0
    BY <1>1, <1>10, <2>2, <2>3 DEF ShowsIdle
  <2>6. Writer!ControlFails
    <3>1. CASE task.kind = "start"
      <4>1. packet = Packet(Schema)
        BY <2>1, <3>1
      <4>2. Writer!Packet(Writer!Schema) = packet
        BY <4>1, SameEncoding
      <4>3. \E m \in 0 .. Len(Writer!Packet(Writer!Schema)) :
              wire' = wire \o SubSeq(Writer!Packet(Writer!Schema), 1, m)
        BY <1>5, <4>2
      <4>4. WriterControls < 2 /\ WriterControls' = WriterControls + 1
        BY <2>4, <2>5, <3>1
      <4>5. UNCHANGED << Finishing, used, WriterChunk, WriterPending, WriterSent >>
        BY <1>1, <2>4, <2>5
      <4> QED BY <2>4, <2>5, <4>3, <4>4, <4>5 DEF Writer!ControlFails
    <3>2. CASE task.kind = "finish"
      <4>1. packet = EndOfStream
        BY <2>1, <3>2
      <4>2. Writer!EndOfStream = packet
        BY <4>1, SameEncoding
      <4>3. \E m \in 0 .. Len(Writer!EndOfStream) : wire' = wire \o SubSeq(Writer!EndOfStream, 1, m)
        BY <1>5, <4>2
      <4>4. WriterControls < 2 /\ WriterControls' = WriterControls + 1
        BY <2>4, <2>5, <3>2
      <4>5. UNCHANGED << WriterStarted, Finishing, used, WriterChunk, WriterPending, WriterSent >>
        BY <1>1, <2>4, <2>5, <3>2
      <4> QED BY <2>4, <2>5, <4>3, <4>4, <4>5 DEF Writer!ControlFails
    <3> QED BY <1>10, <3>1, <3>2
  <2> QED BY <2>6 DEF Writer!WriterNext
<1>11. CASE task.kind = "write"
  <2>1. ShowsWriting
    BY <1>1, <1>3, <1>11, Shown DEF Writing
  <2>2. task.done \in Nat /\ Len(task.columns) \in Nat
    BY <1>3 DEF Tasks
  <2>3. /\ accepted \in Seq(Chunks) /\ accepted # << >> /\ task.chunk = accepted[Len(accepted)]
    BY <1>4, <1>11 DEF TypeOK, TaskIsOfTheChunk
  <2>4. \E message :
          /\ message \in Writer!NextMessage /\ packet = Packet(message)
          /\ WriterSent' = IF WriterPending = {} /\ n = Len(packet)
                           THEN Append(WriterSent, WriterChunk) ELSE WriterSent
    <3>1. CASE task.done < Len(task.columns)
      <4>1. PICK i \in Columns :
              /\ packet = Packet(Dict(Fields[i], task.chunk.dicts[i]))
              /\ i \in Ahead(task.done + 1) /\ \A j \in Ahead(task.done + 1) : i <= j
        BY <1>1, <1>4, <1>11, <3>1, DictionaryAhead
      <4>2. WriterPending = Ahead(task.done + 1) /\ WriterChunk = task.chunk
        BY <2>1 DEF ShowsWriting, Ahead
      <4>3. Dict(Fields[i], task.chunk.dicts[i]) \in Writer!NextMessage
        BY <4>1, <4>2, SameEncoding DEF Writer!NextMessage
      <4>4. ~Ended(failed')
        BY <1>6, <1>11, <2>2, <3>1, EndedFacts
      <4>5. WriterSent' = WriterSent /\ WriterPending # {}
        BY <1>1, <1>6, <1>8, <1>9, <1>11, <2>1, <4>1, <4>2, <4>4 DEF ShowsFailed, ShowsWriting
      <4> QED BY <4>1, <4>3, <4>5
    <3>2. CASE task.done >= Len(task.columns)
      <4>1. task.done = Len(task.columns) /\ packet = Packet(Record(task.chunk.keys))
        BY <1>1, <1>4, <1>11, <3>2, Upcoming
      <4>2. WriterPending = {} /\ WriterChunk = task.chunk
        BY <2>1, <2>2, <4>1 DEF ShowsWriting
      <4>3. Record(task.chunk.keys) \in Writer!NextMessage
        BY <4>2, SameEncoding DEF Writer!NextMessage
      <4>4. Ended(failed') <=> n = Len(packet)
        BY <1>6, <1>11, <2>2, <4>1, EndedFacts
      <4>5. accepted = Append(SubSeq(accepted, 1, Len(accepted) - 1), task.chunk)
        BY <2>3
      <4>6. WriterSent' = IF n = Len(packet) THEN Append(WriterSent, WriterChunk) ELSE WriterSent
        BY <1>1, <1>6, <1>8, <1>9, <1>11, <2>1, <4>2, <4>4, <4>5 DEF ShowsFailed, ShowsWriting
      <4> QED BY <4>1, <4>2, <4>3, <4>6
    <3> QED BY <2>2, <3>1, <3>2
  <2>5. /\ WriterCall = "write" /\ WriterCall' = "dropped" /\ WriterChunk' = NoChunk
        /\ WriterPending' = {} /\ UNCHANGED << WriterStarted, Finishing, used, WriterControls >>
    BY <1>1, <1>6, <1>8, <1>11, <2>1 DEF ShowsFailed, ShowsWriting
  <2>6. Writer!WriteFails
    BY <1>5, <2>4, <2>5, SameEncoding DEF Writer!WriteFails
  <2> QED BY <2>6 DEF Writer!WriterNext
<1> QED BY <1>3, <1>10, <1>11

\* What an accepted chunk starts is what StreamWriter starts.
LEMMA StartSendWrites ==
  ASSUME SinkInv, SinkInv', NEW c \in Chunks, StartSend(c)
  PROVE  Writer!WriterNext
<1> DEFINE emitted == Emitted(tracker, c.dicts)
<1>1. /\ task = NoTask /\ writer /\ tracker' = Tracked(tracker, c.dicts, FALSE)
      /\ Len(accepted) < MaxChunks
      /\ task' = WriteTask(c, Ascending(emitted)) /\ accepted' = Append(accepted, c)
      /\ used' = tracker' /\ UNCHANGED << wire, failed >>
  BY DEF StartSend
<1>2. failed = NoTask /\ used = tracker
  BY <1>1 DEF SinkInv, OneWriter, TrackerIsUsed
<1>3. /\ Ascending(emitted) \in Seq(Columns)
      /\ emitted = {Ascending(emitted)[n] : n \in 1 .. Len(Ascending(emitted))}
  <2>1. emitted \subseteq Columns
    BY DEF Emitted
  <2> QED BY <2>1, AscendingColumns
<1> HIDE DEF emitted
<1>4. /\ task' \in Tasks /\ task'.kind = "write" /\ task'.done = 0
      /\ task'.chunk = c /\ task'.columns = Ascending(emitted)
  BY <1>1, <1>3, MadeTasks
<1>5. ShowsIdle
  BY <1>1, <1>2, MadeTasks, Shown DEF Writing
<1>6. ShowsWriting'
  <2>1. Len(task'.columns) \in Nat /\ task'.done <= Len(Messages(task'))
    BY <1>3, <1>4, TaskFacts
  <2>2. ~Ended(task')
    BY <1>4, <2>1, EndedFacts
  <2>3. Writing'
    BY <1>1, <1>2, <1>4, <2>2 DEF Writing, Ended
  <2> QED BY <2>3, ShownNext
<1>7. WriterStarted = TRUE /\ Finishing = FALSE /\ WriterControls = 1
  BY <1>1, <1>5, MadeTasks DEF ShowsIdle
<1>8. WriterPending' = emitted
  BY <1>3, <1>4, <1>6 DEF ShowsWriting
<1>9. WriterSent' = accepted
  <2>1. accepted \in Seq(Chunks)
    BY DEF SinkInv, TypeOK
  <2>2. accepted = SubSeq(Append(accepted, c), 1, Len(Append(accepted, c)) - 1)
    BY <2>1
  <2> QED BY <1>1, <1>6, <2>2 DEF ShowsWriting
<1>10. Writer!Write(c)
  <2>1. used' = Writer!Tracked(used, c.dicts, FALSE) /\ WriterPending' = Writer!Emitted(used, c.dicts)
    BY <1>1, <1>2, <1>8, SameEncoding DEF emitted
  <2>2. /\ WriterCall = "idle" /\ WriterCall' = "write" /\ WriterChunk' = c /\ WriterSent = accepted
        /\ UNCHANGED << WriterStarted, Finishing, WriterControls >>
    BY <1>4, <1>5, <1>6, <1>7 DEF ShowsIdle, ShowsWriting
  <2> QED BY <1>1, <1>7, <1>9, <2>1, <2>2 DEF Writer!Write
<1> QED BY <1>10, SameEncoding DEF Writer!WriterNext

\* The other steps of the sink are between those of StreamWriter.
LEMMA OthersWriteNothing ==
  ASSUME SinkInv, SinkInv',
         PollReady \/ PollClose \/ Close \/ (\E c \in Chunks : StartSendClosed(c)) \/ UNCHANGED vars
  PROVE  UNCHANGED Writer!wvars
<1>1. UNCHANGED << wire, accepted, failed, used >>
  BY DEF PollReady, PollClose, Close, StartSendClosed, vars
<1>2. CASE failed # NoTask
  <2>1. ShowsFailed /\ ShowsFailed'
    BY <1>1, <1>2, Shown, ShownNext
  <2>2. Ended(failed') <=> Ended(failed)
    BY <1>1
  <2> QED BY <1>1, <2>1, <2>2 DEF ShowsFailed, Ended, Writer!wvars
<1>3. CASE failed = NoTask /\ (PollReady \/ PollClose)
  <2>1. Ended(task)
    BY <1>3 DEF PollReady, PollClose
  <2>2. ShowsIdle
    BY <1>3, <2>1, Shown DEF Writing
  <2>3. task \in Tasks /\ task.done <= Len(Messages(task))
    BY DEF SinkInv, TypeOK
  <2>4. WriterStarted
    <3>1. task.kind = "start" => task.done = 1
      BY <2>1, <2>3, EndedFacts
    <3> QED BY <2>2, <3>1 DEF ShowsIdle
  <2>5. CASE task' = NoTask
    <3>1. Ended(task)' /\ task'.kind = "none"
      BY <2>5, NobodyEnded DEF Ended
    <3>2. ShowsIdle'
      BY <1>1, <1>3, <3>1, ShownNext DEF Writing
    <3>3. WriterStarted'
      BY <3>1, <3>2 DEF ShowsIdle
    <3>4. writer' <=> (IF task.kind = "none" THEN writer ELSE task.kind # "finish")
      BY <1>3, <2>5, MadeTasks DEF PollReady, PollClose, WriterAfter
    <3>5. task.kind # "none" => ~writer
      BY MadeTasks DEF SinkInv, OneWriter
    <3>6. Finishing' <=> Finishing
      BY <2>1, <2>2, <2>3, <3>1, <3>2, <3>4, <3>5 DEF ShowsIdle, Tasks
    <3> QED BY <1>1, <2>2, <2>4, <3>2, <3>3, <3>6 DEF ShowsIdle, Writer!wvars
  <2>6. CASE task' # NoTask
    <3>1. task' = FinishTask /\ WriterAfter(task)
      BY <1>3, <2>6 DEF PollReady, PollClose
    <3>2. task'.kind = "finish" /\ task'.done = 0 /\ task' \in Tasks
      BY <3>1, MadeTasks
    <3>3. ~Ended(task')
      <4>1. task'.done <= Len(Messages(task'))
        BY <3>2, TaskFacts
      <4> QED BY <3>2, <4>1, EndedFacts
    <3>4. ShowsIdle'
      BY <1>1, <1>3, <3>2, ShownNext DEF Writing
    <3>5. WriterStarted' /\ ~Finishing'
      BY <3>2, <3>3, <3>4 DEF ShowsIdle, Ended
    <3>6. ~Finishing
      BY <2>2, <3>1 DEF ShowsIdle, WriterAfter
    <3> QED BY <1>1, <2>2, <2>4, <3>4, <3>5, <3>6 DEF ShowsIdle, Writer!wvars
  <2> QED BY <2>5, <2>6
<1>4. CASE failed = NoTask /\ ~(PollReady \/ PollClose)
  <2>1. UNCHANGED << task, writer >>
    BY <1>4 DEF Close, StartSendClosed, vars
  <2>2. Ended(task)' <=> Ended(task)
    BY <2>1 DEF Ended, Messages
  <2>3. Finishing' = Finishing /\ WriterStarted' = WriterStarted
    BY <1>1, <2>1, <2>2 DEF Finishing, WriterStarted
  <2>4. Writing' = Writing
    BY <1>1, <2>1, <2>2 DEF Writing
  <2>5. CASE Writing
    <3>1. ShowsWriting /\ ShowsWriting'
      BY <2>4, <2>5, Shown, ShownNext
    <3> QED BY <1>1, <2>1, <3>1 DEF ShowsWriting, Writer!wvars
  <2>6. CASE ~Writing
    <3>1. ShowsIdle /\ ShowsIdle'
      BY <1>1, <1>4, <2>4, <2>6, Shown, ShownNext
    <3> QED BY <1>1, <2>3, <3>1 DEF ShowsIdle, Writer!wvars
  <2> QED BY <2>5, <2>6
<1> QED BY <1>2, <1>3, <1>4

\* Every step of the sink is one of StreamWriter, or none.
LEMMA StepWrites ==
  ASSUME SinkInv, SinkInv', [Next]_vars
  PROVE  [Writer!WriterNext]_(Writer!wvars)
<1>1. CASE PollTask \/ PollFails
  BY <1>1, PollTaskWrites, PollFailsWrites
<1>2. CASE \E c \in Chunks : StartSend(c)
  BY <1>2, StartSendWrites
<1>3. CASE PollReady \/ PollClose \/ Close \/ (\E c \in Chunks : StartSendClosed(c)) \/ UNCHANGED vars
  BY <1>3, OthersWriteNothing
<1> QED BY <1>1, <1>2, <1>3 DEF Next

\* What a StreamSink puts on the wire, step by step, is what a StreamWriter does that
\* is started once and finished at most once, and is dropped at the first error.
THEOREM SinkImplementsWriter == Spec => SinkIsStreamWriter
<1> QED BY SinkInitWrites, StepWrites, SinkIsSafe, PTL DEF Spec, SinkIsStreamWriter
-----------------------------------------------------------------------------
(* What is proved of StreamWriter, proved of the sink.                      *)

Sent == INSTANCE IpcStreamWriterProofs WITH
  started <- WriterStarted, finished <- Finishing, tracker <- used, call <- WriterCall,
  chunk <- WriterChunk, pending <- WriterPending, sent <- WriterSent, controls <- WriterControls,
  MaxControls <- 2

\* It is the same StreamWriter.
LEMMA SameWriter ==
  /\ Writer!WriterInit => Sent!WriterInit
  /\ [Writer!WriterNext]_(Writer!wvars) => [Sent!WriterNext]_(Sent!wvars)
<1>1. /\ Sent!Schema = Schema /\ Sent!EndOfStream = EndOfStream /\ Sent!NoChunk = NoChunk
      /\ Sent!EmptyTracker = EmptyTracker /\ Sent!Columns = Columns
  BY DEF Sent!Schema, Schema, Sent!EndOfStream, EndOfStream, Sent!NoChunk, NoChunk,
     Sent!EmptyTracker, EmptyTracker, Sent!Columns, Columns, Sent!Half1, Half1,
     Sent!Half2, Half2, Sent!Zero, Zero
<1>2. Sent!Chunks = Chunks
  BY <1>1 DEF Sent!Chunks, Chunks
<1>3. /\ \A x : Sent!Packet(x) = Packet(x)
      /\ \A d, v : Sent!Dict(d, v) = Dict(d, v)
      /\ \A k : Sent!Record(k) = Record(k)
  BY <1>1 DEF Sent!Packet, Packet, Sent!Dict, Dict, Sent!Record, Record, Sent!Half1, Half1,
     Sent!Half2, Half2, Sent!Length, Length, Sent!Body, Body
<1>4. ASSUME NEW t, NEW ds, NEW i PROVE Sent!Emits(t, ds, i) <=> Emits(t, ds, i)
  BY DEF Sent!Emits, Emits, Sent!Seen, Seen, Sent!Greatest, Greatest
<1>5. /\ \A t, ds : Sent!Emitted(t, ds) = Emitted(t, ds)
      /\ \A t, ds : Sent!Tracked(t, ds, FALSE) = Tracked(t, ds, FALSE)
  <2>1. ASSUME NEW t, NEW ds PROVE Sent!Emitted(t, ds) = Emitted(t, ds)
    BY <1>1, <1>4 DEF Sent!Emitted, Emitted
  <2>2. ASSUME NEW t, NEW ds PROVE Sent!Inserted(t, ds, FALSE) = Inserted(t, ds, FALSE)
    BY <1>1 DEF Sent!Inserted, Inserted
  <2>3. ASSUME NEW t, NEW ds PROVE Sent!Tracked(t, ds, FALSE) = Tracked(t, ds, FALSE)
    <3>1. ASSUME NEW S PROVE Sent!Greatest(S) = Greatest(S)
      BY DEF Sent!Greatest, Greatest
    <3> QED BY <2>2, <3>1 DEF Sent!Tracked, Tracked, Sent!Recorded, Recorded
  <2> QED BY <2>1, <2>3
<1>6. Writer!WriterInit => Sent!WriterInit
  BY <1>1, SameEncoding DEF Writer!WriterInit, Sent!WriterInit
<1>7. Writer!Start \/ Writer!Finish \/ Writer!ControlFails \/ Writer!DropWriter => Sent!WriterNext
  <2>1. Writer!Start => Sent!Start
    BY <1>1, <1>3, SameEncoding DEF Writer!Start, Sent!Start
  <2>2. Writer!Finish => Sent!Finish
    BY <1>1, SameEncoding DEF Writer!Finish, Sent!Finish
  <2>3. Writer!DropWriter => Sent!DropWriter
    BY <1>1, SameEncoding DEF Writer!DropWriter, Sent!DropWriter
  <2>4. Writer!ControlFails => Sent!ControlFails
    <3>1. Writer!Packet(Writer!Schema) = Sent!Packet(Sent!Schema) /\ Writer!EndOfStream = Sent!EndOfStream
      BY <1>1, <1>3, SameEncoding
    <3> QED BY <3>1 DEF Writer!ControlFails, Sent!ControlFails
  <2> QED BY <2>1, <2>2, <2>3, <2>4 DEF Sent!WriterNext
<1>8. ASSUME NEW c, Writer!Write(c) PROVE Sent!Write(c)
  BY <1>5, <1>8, SameEncoding DEF Writer!Write, Sent!Write
<1>9. Writer!WriteDictionary => Sent!WriteDictionary
  BY <1>3, SameEncoding DEF Writer!WriteDictionary, Sent!WriteDictionary
<1>10. Writer!WriteRecord => Sent!WriteRecord
  BY <1>1, <1>3, SameEncoding DEF Writer!WriteRecord, Sent!WriteRecord
<1>11. Writer!WriteFails => Sent!WriteFails
  <2>1. Sent!NextMessage = Writer!NextMessage
    BY <1>3, SameEncoding DEF Sent!NextMessage, Writer!NextMessage
  <2> QED BY <1>1, <1>3, <2>1, SameEncoding DEF Writer!WriteFails, Sent!WriteFails
<1>12. Writer!WriterNext => Sent!WriterNext
  <2>1. CASE \E c \in Writer!Chunks : Writer!Write(c)
    BY <1>2, <1>8, <2>1, SameEncoding DEF Sent!WriterNext
  <2>2. CASE Writer!WriteDictionary \/ Writer!WriteRecord \/ Writer!WriteFails
    BY <1>9, <1>10, <1>11, <2>2 DEF Sent!WriterNext
  <2> QED BY <1>7, <2>1, <2>2 DEF Writer!WriterNext
<1>13. UNCHANGED Writer!wvars => UNCHANGED Sent!wvars
  BY DEF Writer!wvars, Sent!wvars
<1> QED BY <1>6, <1>12, <1>13

\* Whatever is put on the wire of a StreamSink is a stream: messages that follow each other,
\* the record of every chunk start_send accepted but the one at work, in that order, each
\* behind the dictionaries of its chunk, and nothing behind the mark of the end.  The fields
\* have ids of their own, as default_ipc_fields numbers them (stream_async.rs, common.rs).
THEOREM SinkSendsItsChunks ==
  ASSUME UniqueFields
  PROVE  Spec => []Sent!WriterInv
<1>1. Sent!UniqueFields
  BY DEF UniqueFields, Columns, Sent!UniqueFields, Sent!Columns
<1>2. Sent!WriterInit => Sent!WriterInv
  BY Sent!WriterInvInit, FieldsAssumption, NoDictAssumption, FooterSizeAssumption
<1>3. Sent!WriterInv /\ [Sent!WriterNext]_(Sent!wvars) => Sent!WriterInv'
  <2>1. ASSUME Sent!WriterInv, Sent!WriterNext PROVE Sent!WriterInv'
    BY <1>1, <2>1, Sent!WriterInvStep, FieldsAssumption, NoDictAssumption, FooterSizeAssumption
  <2>2. ASSUME Sent!WriterInv, UNCHANGED Sent!wvars PROVE Sent!WriterInv'
    BY <2>2, Sent!WriterStill, FieldsAssumption, NoDictAssumption, FooterSizeAssumption
  <2> QED BY <2>1, <2>2
<1> QED BY <1>2, <1>3, SameWriter, SinkImplementsWriter, PTL DEF SinkIsStreamWriter
=============================================================================

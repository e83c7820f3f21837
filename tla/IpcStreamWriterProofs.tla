----------------------- MODULE IpcStreamWriterProofs -----------------------
(***************************************************************************)
(* What StreamWriter puts on the wire, whatever is called in which order:  *)
(* cells of a stream, behind those already there.                          *)
(***************************************************************************)
EXTENDS IpcStreamWriter, IpcEncodingProofs

-----------------------------------------------------------------------------
(* The wire.                                                                *)

\* What a call puts on the wire comes behind what is there.
Extends(before, after) ==
  /\ after \in Seq(StreamCells)
  /\ Len(after) >= Len(before)
  /\ \A n \in 1 .. Len(before) : after[n] = before[n]

\* Appending cells extends the wire.
LEMMA AppendExtends ==
  ASSUME NEW w \in Seq(StreamCells), NEW p \in Seq(StreamCells)
  PROVE  Extends(w, w \o p)
BY DEF Extends

\* So does appending a part of a message.
LEMMA PartExtends ==
  ASSUME NEW w \in Seq(StreamCells), NEW p \in Seq(StreamCells), NEW n \in 0 .. Len(p)
  PROVE  Extends(w, w \o SubSeq(p, 1, n))
<1>1. SubSeq(p, 1, n) \in Seq(StreamCells)
  OBVIOUS
<1> QED BY <1>1, AppendExtends
-----------------------------------------------------------------------------
\* A new writer has put nothing on the wire.
LEMMA WriterInitStep == WriterInit => WriterTypeOK
<1>1. EmptyTracker \in Tracker
  BY DEF EmptyTracker, Tracker
<1>2. << >> \in Seq(StreamCells) /\ << >> \in Seq(Chunks)
  OBVIOUS
<1>3. ASSUME WriterInit PROVE WriterTypeOK
  <2>1. wire \in Seq(StreamCells) /\ sent \in Seq(Chunks) /\ tracker \in Tracker
    BY <1>1, <1>2, <1>3 DEF WriterInit
  <2> QED BY <1>3, <2>1 DEF WriterInit, WriterTypeOK
<1> QED BY <1>3

\* Every call of StreamWriter keeps its fields well formed and only adds to
\* the wire, cut short by an error or not.
LEMMA WriterStep ==
  ASSUME WriterTypeOK, WriterNext
  PROVE  WriterTypeOK' /\ Extends(wire, wire')
<1> USE DEF WriterTypeOK
<1>1. CASE Start
  BY <1>1, PacketFacts, AppendExtends DEF Start, Extends
<1>2. ASSUME NEW c \in Chunks, Write(c) PROVE WriterTypeOK' /\ Extends(wire, wire')
  <2>1. tracker' \in Tracker
    BY <1>2, TrackedType DEF Write
  <2>2. pending' \subseteq Columns
    BY <1>2 DEF Write, Emitted
  <2>3. Extends(wire, wire)
    BY DEF Extends
  <2> QED BY <1>2, <2>1, <2>2, <2>3 DEF Write
<1>3. CASE WriteDictionary
  <2>1. PICK i \in pending : /\ wire' = wire \o Packet(Dict(Fields[i], chunk.dicts[i]))
                             /\ pending' = pending \ {i}
    BY <1>3 DEF WriteDictionary
  <2>2. Fields[i] \in Ids /\ chunk.dicts[i] \in Values
    <3>1. i \in Columns /\ chunk \in Chunks
      BY <1>3 DEF WriteDictionary
    <3> QED BY <3>1, FieldsAssumption DEF Columns, Chunks
  <2>3. Extends(wire, wire')
    BY <2>1, <2>2, PacketFacts, AppendExtends
  <2> QED BY <1>3, <2>1, <2>3 DEF WriteDictionary, Extends
<1>4. CASE WriteRecord
  <2>1. chunk.keys \in Keys
    BY <1>4 DEF WriteRecord, Chunks
  <2>2. Extends(wire, wire')
    BY <1>4, <2>1, PacketFacts, AppendExtends DEF WriteRecord
  <2> QED BY <1>4, <2>2 DEF WriteRecord, Extends
<1>5. CASE WriteFails
  <2>1. PICK message \in NextMessage : \E n \in 0 .. Len(Packet(message)) :
          /\ wire' = wire \o SubSeq(Packet(message), 1, n)
          /\ sent' = IF pending = {} /\ n = Len(Packet(message)) THEN Append(sent, chunk) ELSE sent
    BY <1>5 DEF WriteFails
  <2>2. message \in StreamCells
    <3>1. CASE pending = {}
      BY <1>5, <3>1, PacketFacts DEF WriteFails, NextMessage, Chunks
    <3>2. CASE pending # {}
      <4>1. PICK i \in pending : message = Dict(Fields[i], chunk.dicts[i])
        BY <2>1, <3>2 DEF NextMessage
      <4>2. Fields[i] \in Ids /\ chunk.dicts[i] \in Values
        BY <1>5, FieldsAssumption, SMTT(30) DEF WriteFails, Columns, Chunks
      <4> QED BY <4>1, <4>2, PacketFacts
    <3> QED BY <3>1, <3>2
  <2>3. Packet(message) \in Seq(StreamCells)
    BY <2>2, PacketFacts
  <2>4. Extends(wire, wire')
    BY <2>1, <2>3, PartExtends
  <2>5. sent' \in Seq(Chunks)
    BY <1>5, <2>1 DEF WriteFails
  <2> QED BY <1>5, <2>4, <2>5 DEF WriteFails, Extends
<1>6. CASE Finish
  BY <1>6, PacketFacts, AppendExtends DEF Finish, Extends
<1>7. CASE ControlFails
  <2>1. Packet(Schema) \in Seq(StreamCells) /\ EndOfStream \in Seq(StreamCells)
    BY PacketFacts
  <2>2. Extends(wire, wire') /\ started' \in BOOLEAN
    BY <1>7, <2>1, PartExtends DEF ControlFails
  <2> QED BY <1>7, <2>2 DEF ControlFails, Extends
<1>8. CASE DropWriter
  BY <1>8 DEF DropWriter, Extends
<1> QED BY <1>1, <1>2, <1>3, <1>4, <1>5, <1>6, <1>7, <1>8 DEF WriterNext
-----------------------------------------------------------------------------
(* What the first cells of a stream say.                                    *)

\* Cells that define no dictionary of an id change nothing for it.
LEMMA DefinesOn ==
  ASSUME NEW w, NEW d, NEW v, NEW n \in Nat, NEW m \in Nat, n <= m,
         Defines(w, n, d, v), \A k \in n + 1 .. m : ~IsDictOf(w[k], d)
  PROVE  Defines(w, m, d, v)
<1>1. CASE v = NoDict /\ \A k \in 1 .. n : ~IsDictOf(w[k], d)
  <2>1. \A k \in 1 .. m : k \in 1 .. n \/ k \in n + 1 .. m
    OBVIOUS
  <2> QED BY <1>1, <2>1 DEF Defines
<1>2. CASE \E k \in 1 .. n : w[k] = Dict(d, v) /\ \A j \in k + 1 .. n : ~IsDictOf(w[j], d)
  <2>1. PICK k \in 1 .. n : w[k] = Dict(d, v) /\ \A j \in k + 1 .. n : ~IsDictOf(w[j], d)
    BY <1>2
  <2>2. \A j \in k + 1 .. m : j \in k + 1 .. n \/ j \in n + 1 .. m
    OBVIOUS
  <2>3. k \in 1 .. m
    OBVIOUS
  <2> QED BY <2>1, <2>2, <2>3 DEF Defines
<1> QED BY <1>1, <1>2 DEF Defines

\* Two streams that begin with the same n cells define the same there.
LEMMA DefinesKept ==
  ASSUME NEW w, NEW after, NEW d, NEW v, NEW n \in Nat,
         \A m \in 1 .. n : after[m] = w[m]
  PROVE  Defines(after, n, d, v) <=> Defines(w, n, d, v)
<1>1. \A m \in 1 .. n, k \in Nat : k \in m + 1 .. n => k \in 1 .. n
  OBVIOUS
<1> QED BY <1>1 DEF Defines

\* A dictionary is defined where it stands.
LEMMA DefinesDict ==
  ASSUME NEW w, NEW d, NEW v, NEW n \in Nat \ {0}, w[n] = Dict(d, v)
  PROVE  Defines(w, n, d, v)
BY DEF Defines

\* There is one last dictionary.
LEMMA DefinesOne ==
  ASSUME NEW w, NEW d, NEW u, NEW v, NEW n \in Nat, Defines(w, n, d, u), Defines(w, n, d, v)
  PROVE  u = v
<1>1. \A x : IsDictOf(Dict(d, x), d) /\ Dict(d, x).value = x
  BY DEF IsDictOf, Dict
<1>2. ASSUME NEW k \in 1 .. n, w[k] = Dict(d, u), \A j \in k + 1 .. n : ~IsDictOf(w[j], d),
             NEW m \in 1 .. n, w[m] = Dict(d, v), \A j \in m + 1 .. n : ~IsDictOf(w[j], d)
      PROVE  u = v
  <2>1. ~(k < m) /\ ~(m < k)
    BY <1>1, <1>2
  <2>2. k = m
    BY <2>1
  <2> QED BY <1>1, <1>2, <2>2
<1>3. ASSUME NEW k \in 1 .. n, w[k] = Dict(d, u) PROVE ~\A m \in 1 .. n : ~IsDictOf(w[m], d)
  BY <1>1, <1>3
<1>4. ASSUME NEW k \in 1 .. n, w[k] = Dict(d, v) PROVE ~\A m \in 1 .. n : ~IsDictOf(w[m], d)
  BY <1>1, <1>4
<1> QED BY <1>2, <1>3, <1>4 DEF Defines

\* The number of records is a number.
LEMMA RecordsType ==
  ASSUME NEW w, NEW n \in Nat
  PROVE  IsFiniteSet(RecordCells(w, n)) /\ RecordsIn(w, n) \in Nat
<1>1. RecordCells(w, n) \in SUBSET (1 .. n)
  BY DEF RecordCells
<1>2. IsFiniteSet(1 .. n)
  BY FS_Interval
<1>3. IsFiniteSet(RecordCells(w, n))
  BY <1>1, <1>2, FS_Subset
<1> QED BY <1>3, FS_CardinalityType DEF RecordsIn

\* Cells that are no records do not count.
LEMMA RecordsOn ==
  ASSUME NEW w, NEW n \in Nat, NEW m \in Nat, n <= m, \A k \in n + 1 .. m : w[k].kind # "record"
  PROVE  RecordsIn(w, m) = RecordsIn(w, n)
<1>1. \A k \in 1 .. m : k \in 1 .. n \/ k \in n + 1 .. m
  OBVIOUS
<1>2. RecordCells(w, m) = RecordCells(w, n)
  BY <1>1 DEF RecordCells
<1> QED BY <1>2 DEF RecordsIn

\* Two streams that begin with the same n cells have the same records there.
LEMMA RecordsKept ==
  ASSUME NEW w, NEW after, NEW n \in Nat, \A m \in 1 .. n : after[m] = w[m]
  PROVE  RecordsIn(after, n) = RecordsIn(w, n)
<1>1. RecordCells(after, n) = RecordCells(w, n)
  BY DEF RecordCells
<1> QED BY <1>1 DEF RecordsIn

\* A record counts one.
LEMMA RecordsNext ==
  ASSUME NEW w, NEW n \in Nat, w[n + 1].kind = "record"
  PROVE  RecordsIn(w, n + 1) = RecordsIn(w, n) + 1
<1>1. RecordCells(w, n + 1) = RecordCells(w, n) \cup {n + 1}
  BY DEF RecordCells
<1>2. n + 1 \notin RecordCells(w, n)
  BY DEF RecordCells
<1> QED BY <1>1, <1>2, RecordsType, FS_AddElement DEF RecordsIn

\* The records in front of a cell are among those of more cells.
LEMMA RecordsMonotone ==
  ASSUME NEW w, NEW n \in Nat, NEW m \in Nat, n <= m
  PROVE  RecordsIn(w, n) <= RecordsIn(w, m)
<1>1. RecordCells(w, n) \in SUBSET RecordCells(w, m)
  BY DEF RecordCells
<1> QED BY <1>1, RecordsType, FS_Subset DEF RecordsIn

\* A stream without a cell says nothing.
LEMMA NothingSaid ==
  ASSUME NEW w
  PROVE  RecordsIn(w, 0) = 0 /\ \A d : Defines(w, 0, d, NoDict)
<1>1. RecordCells(w, 0) = {}
  BY DEF RecordCells
<1> QED BY <1>1, FS_EmptySet DEF RecordsIn, Defines
-----------------------------------------------------------------------------
(* Messages, whole and in part, behind what is on the wire.                 *)

\* A message in the order of its cells.
IsMessage(p) ==
  /\ p \in Seq(StreamCells) /\ p # << >>
  /\ p[1] = Half1 /\ EndsMessage(p[Len(p)])
  /\ \A n \in 1 .. Len(p) - 1 : Follows(p[n], p[n + 1])

\* A message may follow a message.
LEMMA MarkerFollows == \A x : EndsMessage(x) => Follows(x, Half1)
<1> TAKE x
<1>1. CASE x = Body
  BY <1>1, Kinds DEF Follows, HasBody
<1>2. CASE x = Schema
  BY <1>2, Kinds DEF Follows, HasBody
<1>3. CASE x = Zero
  BY <1>3, Kinds DEF Follows, HasBody
<1> QED BY <1>1, <1>2, <1>3 DEF EndsMessage

\* The cells that announce no body.
LEMMA BareCells == \A x \in {Half1, Half2, Length, Zero, Body, Schema} : ~HasBody(x)
<1>1. /\ ~HasBody(Half1) /\ ~HasBody(Half2) /\ ~HasBody(Length)
      /\ ~HasBody(Zero) /\ ~HasBody(Body) /\ ~HasBody(Schema)
  BY Kinds DEF HasBody
<1> QED BY <1>1

\* What ends a message is not what announces a body.
LEMMA EndsAreNoHeaders == \A x : EndsMessage(x) => ~HasBody(x)
BY BareCells DEF EndsMessage

\* The cells of a message.
LEMMA PacketCells ==
  ASSUME NEW x \in StreamCells, x = Schema \/ HasBody(x)
  PROVE  /\ IsMessage(Packet(x))
         /\ Len(Packet(x)) = IF x = Schema THEN 4 ELSE 5
         /\ Packet(x)[1] = Half1 /\ Packet(x)[2] = Half2 /\ Packet(x)[3] = Length
         /\ Packet(x)[4] = x /\ (x # Schema => Packet(x)[5] = Body)
<1>1. Packet(x) \in Seq(StreamCells)
  BY PacketFacts
<1>2. {Half1, Half2, Length, Zero, Body, Schema} \subseteq StreamCells
  BY DEF StreamCells
<1>3. CASE x = Schema
  <2>1. Packet(x) = << Half1, Half2, Length, x >>
    BY <1>2, <1>3 DEF Packet
  <2>2. Follows(Half1, Half2) /\ Follows(Half2, Length) /\ Follows(Length, x) /\ EndsMessage(x)
    BY <1>3, Kinds DEF Follows, EndsMessage, HasBody
  <2>3. \A n \in 1 .. Len(Packet(x)) - 1 : Follows(Packet(x)[n], Packet(x)[n + 1])
    <3> TAKE n \in 1 .. Len(Packet(x)) - 1
    <3>1. n = 1 \/ n = 2 \/ n = 3
      BY <2>1
    <3> QED BY <2>1, <2>2, <3>1
  <2> QED BY <1>1, <1>3, <2>1, <2>2, <2>3 DEF IsMessage
<1>4. CASE x # Schema
  <2>1. Packet(x) = << Half1, Half2, Length, x >> \o << Body >>
    BY <1>4 DEF Packet
  <2>3. /\ Len(Packet(x)) = 5 /\ Packet(x)[1] = Half1 /\ Packet(x)[2] = Half2
        /\ Packet(x)[3] = Length /\ Packet(x)[4] = x /\ Packet(x)[5] = Body
    BY <1>2, <2>1
  <2>2. /\ Follows(Half1, Half2) /\ Follows(Half2, Length) /\ Follows(Length, x)
        /\ Follows(x, Body) /\ EndsMessage(Body)
    BY <1>4, Kinds DEF Follows, EndsMessage, HasBody
  <2>4. \A n \in 1 .. Len(Packet(x)) - 1 : Follows(Packet(x)[n], Packet(x)[n + 1])
    <3> TAKE n \in 1 .. Len(Packet(x)) - 1
    <3>1. n = 1 \/ n = 2 \/ n = 3 \/ n = 4
      BY <2>3
    <3> QED BY <2>2, <2>3, <3>1
  <2> QED BY <1>1, <1>4, <2>2, <2>3, <2>4 DEF IsMessage
<1> QED BY <1>3, <1>4

\* So is the mark that ends the stream.
LEMMA EndOfStreamCells ==
  /\ IsMessage(EndOfStream) /\ Len(EndOfStream) = 3
  /\ EndOfStream[1] = Half1 /\ EndOfStream[2] = Half2 /\ EndOfStream[3] = Zero
<1>1. EndOfStream = << Half1, Half2, Zero >> /\ EndOfStream \in Seq(StreamCells)
  BY PacketFacts DEF EndOfStream
<1>2. Follows(Half1, Half2) /\ Follows(Half2, Zero) /\ EndsMessage(Zero)
  BY Kinds DEF Follows, EndsMessage, HasBody
<1>3. \A n \in 1 .. Len(EndOfStream) - 1 : Follows(EndOfStream[n], EndOfStream[n + 1])
  <2> TAKE n \in 1 .. Len(EndOfStream) - 1
  <2>1. n = 1 \/ n = 2
    BY <1>1
  <2> QED BY <1>1, <1>2, <2>1
<1> QED BY <1>1, <1>2, <1>3 DEF IsMessage

\* Neither has a record, a dictionary or, the schema, a mark of the end.
LEMMA ControlCells ==
  /\ \A m \in 1 .. Len(Packet(Schema)) :
       LET x == Packet(Schema)[m] IN x.kind # "record" /\ x.kind # "dictionary" /\ x # Zero
  /\ \A m \in 1 .. Len(EndOfStream) :
       LET x == EndOfStream[m] IN x.kind # "record" /\ x.kind # "dictionary"
<1>1. ASSUME NEW m \in 1 .. Len(Packet(Schema))
      PROVE  LET x == Packet(Schema)[m] IN x.kind # "record" /\ x.kind # "dictionary" /\ x # Zero
  <2>1. m = 1 \/ m = 2 \/ m = 3 \/ m = 4
    BY PacketFacts
  <2>2. Packet(Schema)[m] \in {Half1, Half2, Length, Schema}
    BY <2>1, PacketFacts, PacketCells
  <2> QED BY <2>2, Kinds
<1>2. ASSUME NEW m \in 1 .. Len(EndOfStream)
      PROVE  LET x == EndOfStream[m] IN x.kind # "record" /\ x.kind # "dictionary"
  <2>1. m = 1 \/ m = 2 \/ m = 3
    BY PacketFacts
  <2>2. EndOfStream[m] \in {Half1, Half2, Zero}
    BY <2>1, EndOfStreamCells
  <2> QED BY <2>2, Kinds
<1> QED BY <1>1, <1>2

\* What is on the wire when the first n cells of a message follow it.
LEMMA PartCells ==
  ASSUME NEW w \in Seq(StreamCells), NEW p \in Seq(StreamCells), NEW n \in 0 .. Len(p),
         NEW q, q = w \o SubSeq(p, 1, n)
  PROVE  /\ q \in Seq(StreamCells) /\ Len(q) = Len(w) + n
         /\ \A m \in 1 .. Len(w) : q[m] = w[m]
         /\ \A m \in Len(w) + 1 .. Len(q) : m - Len(w) \in 1 .. n /\ q[m] = p[m - Len(w)]
<1>1. q \in Seq(StreamCells) /\ Len(q) = Len(w) + n
  OBVIOUS
<1>2. \A m \in 1 .. Len(w) : q[m] = w[m]
  OBVIOUS
<1>3. \A m \in Len(w) + 1 .. Len(q) : m - Len(w) \in 1 .. n /\ q[m] = p[m - Len(w)]
  OBVIOUS
<1> QED BY <1>1, <1>2, <1>3

\* A whole message is a part of it.
LEMMA WholeIsPart ==
  ASSUME NEW p \in Seq(StreamCells)
  PROVE  p = SubSeq(p, 1, Len(p)) /\ Len(p) \in 0 .. Len(p)
OBVIOUS

\* A message, or the part of one that was written, keeps the order of the cells.
LEMMA FramedPart ==
  ASSUME NEW w \in Seq(StreamCells), Framed(w), w # << >> => EndsMessage(w[Len(w)]),
         NEW p, IsMessage(p), NEW n \in 0 .. Len(p)
  PROVE  Framed(w \o SubSeq(p, 1, n))
<1> DEFINE q == w \o SubSeq(p, 1, n)
<1>1. p \in Seq(StreamCells)
  BY DEF IsMessage
<1>2. /\ q \in Seq(StreamCells) /\ Len(q) = Len(w) + n /\ Len(w) \in Nat
      /\ \A m \in 1 .. Len(w) : q[m] = w[m]
      /\ \A m \in Len(w) + 1 .. Len(q) : m - Len(w) \in 1 .. n /\ q[m] = p[m - Len(w)]
  BY <1>1, PartCells
<1> HIDE DEF q
<1>3. ASSUME q # << >> PROVE q[1] = Half1
  <2>1. CASE Len(w) = 0
    BY <1>1, <1>2, <1>3, <2>1 DEF IsMessage
  <2>2. CASE Len(w) # 0
    BY <1>2, <2>2 DEF Framed
  <2> QED BY <2>1, <2>2
<1>4. ASSUME NEW m \in 1 .. Len(q) - 1 PROVE Follows(q[m], q[m + 1])
  <2>1. CASE m < Len(w)
    <3>1. m \in 1 .. Len(w) - 1 /\ m \in 1 .. Len(w) /\ m + 1 \in 1 .. Len(w)
      BY <1>2, <2>1
    <3> QED BY <1>2, <3>1 DEF Framed
  <2>2. CASE m = Len(w)
    <3>1. q[m] = w[Len(w)] /\ q[m + 1] = Half1 /\ EndsMessage(w[Len(w)])
      <4>1. m \in 1 .. Len(w) /\ m + 1 \in Len(w) + 1 .. Len(q) /\ (m + 1) - Len(w) = 1
        BY <1>2, <2>2
      <4>2. w # << >>
        BY <2>2
      <4> QED BY <1>2, <2>2, <4>1, <4>2 DEF IsMessage
    <3> QED BY <3>1, MarkerFollows
  <2>3. CASE m > Len(w)
    <3>1. /\ m \in Len(w) + 1 .. Len(q) /\ m + 1 \in Len(w) + 1 .. Len(q)
          /\ (m + 1) - Len(w) = (m - Len(w)) + 1 /\ m - Len(w) \in 1 .. Len(p) - 1
      BY <1>1, <1>2, <2>3
    <3> QED BY <1>2, <3>1 DEF IsMessage
  <2> QED BY <1>2, <2>1, <2>2, <2>3
<1> QED BY <1>3, <1>4 DEF q, Framed
-----------------------------------------------------------------------------
(* The invariant of the writer, conjunct by conjunct: what the message a    *)
(* call writes, or a part of it, adds to the wire.                          *)

\* The cells of a message keep the order of the cells, and a call that returns has
\* written all of them.
LEMMA FramedStep ==
  ASSUME WriterTypeOK, Framed(wire), EndsWhole, call # "dropped",
         NEW p, IsMessage(p), NEW n \in 0 .. Len(p), wire' = wire \o SubSeq(p, 1, n),
         n = Len(p) \/ call' = "dropped"
  PROVE  Framed(wire') /\ EndsWhole'
<1>1. wire \in Seq(StreamCells) /\ p \in Seq(StreamCells) /\ p # << >>
  BY DEF WriterTypeOK, IsMessage
<1>2. Framed(wire')
  BY <1>1, FramedPart DEF EndsWhole
<1>3. /\ Len(wire') = Len(wire) + n
      /\ \A m \in Len(wire) + 1 .. Len(wire') : wire'[m] = p[m - Len(wire)]
  BY <1>1, PartCells
<1>4. ASSUME call' # "dropped" PROVE EndsMessage(wire'[Len(wire')])
  <2>1. n = Len(p) /\ Len(p) \in Nat \ {0} /\ Len(wire) \in Nat
    BY <1>1, <1>4
  <2>2. wire'[Len(wire')] = p[Len(p)]
    BY <1>3, <2>1
  <2> QED BY <2>2 DEF IsMessage
<1> QED BY <1>2, <1>4 DEF EndsWhole

\* Cells without a record leave the records as they are.
LEMMA NothingRecorded ==
  ASSUME WriterTypeOK, WriterTypeOK', EndsWhole, RecordsAreSent, call # "dropped",
         Extends(wire, wire'), sent' = sent,
         \A m \in Len(wire) + 1 .. Len(wire') : wire'[m].kind # "record"
  PROVE  RecordsAreSent'
<1>1. Len(wire) \in Nat /\ Len(wire') \in Nat /\ Len(wire) <= Len(wire')
  BY DEF WriterTypeOK, Extends
<1>2. \A m \in 1 .. Len(wire) : wire'[m] = wire[m]
  BY DEF Extends
<1>3. RecordsIn(wire', Len(wire)) = RecordsIn(wire, Len(wire))
  BY <1>1, <1>2, RecordsKept
<1>4. RecordsIn(wire', Len(wire')) = Len(sent)
  BY <1>1, <1>3, RecordsOn DEF RecordsAreSent
<1>5. ASSUME NEW m \in 1 .. Len(wire') - 1, wire'[m].kind = "record"
      PROVE  /\ RecordsIn(wire', m) \in 1 .. Len(sent)
             /\ IsRecordOf(wire', m, sent[RecordsIn(wire', m)])
  <2>1. m \in 1 .. Len(wire)
    BY <1>1, <1>5
  <2>2. m # Len(wire)
    <3>1. wire[Len(wire)].kind # "record"
      <4>1. EndsMessage(wire[Len(wire)])
        BY <2>1 DEF EndsWhole
      <4> QED BY <4>1, EndsAreNoHeaders DEF HasBody
    <3> QED BY <1>2, <1>5, <2>1, <3>1
  <2>3. m \in 1 .. Len(wire) - 1 /\ wire[m].kind = "record" /\ m \in Nat
    BY <1>1, <1>2, <1>5, <2>1, <2>2
  <2>4. \A k \in 1 .. m : wire'[k] = wire[k]
    BY <1>2, <2>1
  <2>5. RecordsIn(wire', m) = RecordsIn(wire, m)
    BY <2>3, <2>4, RecordsKept
  <2>6. RecordsIn(wire, m) \in 1 .. Len(sent) /\ IsRecordOf(wire, m, sent[RecordsIn(wire, m)])
    BY <2>3 DEF RecordsAreSent
  <2>7. wire'[m] = wire[m]
    BY <1>2, <2>1
  <2> QED BY <2>3, <2>4, <2>5, <2>6, <2>7, DefinesKept DEF IsRecordOf
<1> QED BY <1>4, <1>5 DEF RecordsAreSent

\* Cells without a dictionary leave what is defined as it is.
LEMMA NothingDefined ==
  ASSUME WriterTypeOK, WriterTypeOK', TrackerIsDefined, call # "dropped",
         Extends(wire, wire'), tracker' = tracker, pending' = pending,
         \A m \in Len(wire) + 1 .. Len(wire') : wire'[m].kind # "dictionary"
  PROVE  TrackerIsDefined'
<1>1. Len(wire) \in Nat /\ Len(wire') \in Nat /\ Len(wire) <= Len(wire')
  BY DEF WriterTypeOK, Extends
<1>2. \A m \in 1 .. Len(wire) : wire'[m] = wire[m]
  BY DEF Extends
<1>3. ASSUME NEW d \in Ids, \A i \in pending : Fields[i] # d
      PROVE  Defines(wire', Len(wire'), d, tracker[d])
  <2>1. Defines(wire, Len(wire), d, tracker[d])
    BY <1>3 DEF TrackerIsDefined
  <2>2. Defines(wire', Len(wire), d, tracker[d])
    BY <1>1, <1>2, <2>1, DefinesKept
  <2>3. \A m \in Len(wire) + 1 .. Len(wire') : ~IsDictOf(wire'[m], d)
    BY DEF IsDictOf
  <2> QED BY <1>1, <2>2, <2>3, DefinesOn
<1> QED BY <1>3 DEF TrackerIsDefined

\* Cells that are neither records nor the mark of the end keep it the end.
LEMMA NothingEnds ==
  ASSUME WriterTypeOK, WriterTypeOK', EndsOnce, call # "dropped", Extends(wire, wire'),
         finished' = finished,
         \A m \in Len(wire) + 1 .. Len(wire') : wire'[m].kind # "record" /\ wire'[m] # Zero
  PROVE  EndsOnce'
<1>1. Len(wire) \in Nat /\ Len(wire') \in Nat /\ Len(wire) <= Len(wire')
  BY DEF WriterTypeOK, Extends
<1>2. \A m \in 1 .. Len(wire) : wire'[m] = wire[m]
  BY DEF Extends
<1>3. \A m \in 1 .. Len(wire') : m \in 1 .. Len(wire) \/ m \in Len(wire) + 1 .. Len(wire')
  BY <1>1
<1> QED BY <1>2, <1>3 DEF EndsOnce

\* Nothing but the mark of the end ends a stream that has not ended.
LEMMA NotEnded ==
  ASSUME WriterTypeOK, WriterTypeOK', EndsOnce, call # "dropped", ~finished, Extends(wire, wire'),
         \A m \in Len(wire) + 1 .. Len(wire') : wire'[m] # Zero
  PROVE  \A m \in 1 .. Len(wire') : wire'[m] # Zero
<1>1. Len(wire) \in Nat /\ Len(wire') \in Nat /\ Len(wire) <= Len(wire')
  BY DEF WriterTypeOK, Extends
<1>2. \A m \in 1 .. Len(wire') : m \in 1 .. Len(wire) \/ m \in Len(wire) + 1 .. Len(wire')
  BY <1>1
<1> QED BY <1>2 DEF EndsOnce, Extends
-----------------------------------------------------------------------------
(* The invariant of the writer, call by call.                               *)

\* A schema or the mark of the end, whole or in part.
LEMMA ControlStep ==
  ASSUME WriterInv, WriterTypeOK', call = "idle",
         NEW p \in {Packet(Schema), EndOfStream}, NEW n \in 0 .. Len(p),
         wire' = wire \o SubSeq(p, 1, n), n = Len(p) \/ call' = "dropped",
         call' \in {"idle", "dropped"}, p = Packet(Schema) => finished' = finished,
         p = EndOfStream /\ call' # "dropped" => finished',
         UNCHANGED << tracker, pending, sent >>
  PROVE  WriterInv'
<1>1. WriterTypeOK /\ wire \in Seq(StreamCells) /\ Len(wire) \in Nat /\ pending = {}
  BY DEF WriterInv, WriterTypeOK, WriteIsTracked
<1>2. IsMessage(p) /\ p \in Seq(StreamCells)
  BY PacketFacts, PacketCells, EndOfStreamCells DEF IsMessage
<1>3. /\ wire' \in Seq(StreamCells) /\ Len(wire') = Len(wire) + n
      /\ \A m \in 1 .. Len(wire) : wire'[m] = wire[m]
      /\ \A m \in Len(wire) + 1 .. Len(wire') :
           m - Len(wire) \in 1 .. n /\ wire'[m] = p[m - Len(wire)]
  BY <1>1, <1>2, PartCells
<1>4. Extends(wire, wire')
  BY <1>1, <1>3 DEF Extends
<1>5. \A m \in 1 .. Len(p) : p[m].kind # "record" /\ p[m].kind # "dictionary"
  BY ControlCells
<1>6. \A m \in Len(wire) + 1 .. Len(wire') :
        wire'[m].kind # "record" /\ wire'[m].kind # "dictionary"
  BY <1>3, <1>5
<1>7. Framed(wire') /\ EndsWhole'
  BY <1>1, <1>2, FramedStep DEF WriterInv
<1>8. RecordsAreSent'
  BY <1>1, <1>4, <1>6, NothingRecorded DEF WriterInv
<1>9. TrackerIsDefined'
  BY <1>1, <1>4, <1>6, NothingDefined DEF WriterInv
<1>10. EndsOnce'
  <2>1. CASE p = Packet(Schema)
    <3>1. \A m \in 1 .. Len(p) : p[m] # Zero
      BY <2>1, ControlCells
    <3>2. \A m \in Len(wire) + 1 .. Len(wire') : wire'[m] # Zero
      BY <1>2, <1>3, <3>1
    <3> QED BY <1>1, <1>4, <1>6, <2>1, <3>2, NothingEnds DEF WriterInv
  <2>2. CASE p = EndOfStream
    <3>1. finished' \/ call' = "dropped"
      BY <2>2
    <3>2. ASSUME NEW k \in 1 .. Len(wire'), wire'[k] = Zero,
                 NEW m \in 1 .. Len(wire'), wire'[m].kind = "record"
          PROVE  m < k
      <4>1. m \in 1 .. Len(wire) /\ wire[m].kind = "record"
        BY <1>1, <1>3, <1>6, <3>2
      <4>2. CASE k \in 1 .. Len(wire)
        BY <1>3, <3>2, <4>1, <4>2 DEF WriterInv, EndsOnce
      <4>3. CASE k \notin 1 .. Len(wire)
        BY <1>1, <3>2, <4>1, <4>3
      <4> QED BY <4>2, <4>3
    <3> QED BY <3>1, <3>2 DEF EndsOnce
  <2> QED BY <2>1, <2>2
<1>11. WriteIsTracked'
  BY <1>1 DEF WriteIsTracked
<1> QED BY <1>7, <1>8, <1>9, <1>10, <1>11 DEF WriterInv

\* encode_chunk tracks exactly the dictionaries it is about to write.
LEMMA EncodeStep ==
  ASSUME UniqueFields, WriterInv, WriterTypeOK', NEW c \in Chunks, Write(c)
  PROVE  WriterInv'
<1>1. /\ call = "idle" /\ started /\ ~finished /\ call' = "write" /\ chunk' = c
      /\ tracker' = Tracked(tracker, c.dicts, FALSE) /\ pending' = Emitted(tracker, c.dicts)
      /\ wire' = wire /\ started' = started /\ finished' = finished /\ sent' = sent
  BY DEF Write
<1>2. tracker \in Tracker /\ pending = {}
  BY <1>1 DEF WriterInv, WriterTypeOK, WriteIsTracked
<1>3. WriteIsTracked'
  BY <1>1, <1>2, TrackedDicts DEF WriteIsTracked
<1>4. ASSUME NEW d \in Ids, \A i \in pending' : Fields[i] # d
      PROVE  Defines(wire, Len(wire), d, tracker'[d])
  <2>1. tracker'[d] = tracker[d]
    BY <1>1, <1>2, <1>4, TrackedDicts
  <2> QED BY <1>1, <1>2, <2>1 DEF WriterInv, TrackerIsDefined
<1>5. TrackerIsDefined'
  BY <1>1, <1>4 DEF TrackerIsDefined
<1>6. Framed(wire') /\ EndsWhole' /\ EndsOnce' /\ RecordsAreSent'
  BY <1>1 DEF WriterInv, EndsWhole, EndsOnce, RecordsAreSent
<1> QED BY <1>3, <1>5, <1>6 DEF WriterInv
\* A dictionary or a record, whole or in part: the fourth cell announces the body, and
\* the stream has not ended.
LEMMA BodyStep ==
  ASSUME WriterInv, WriterTypeOK', call = "write", NEW x \in StreamCells, HasBody(x),
         NEW n \in 0 .. Len(Packet(x)), wire' = wire \o SubSeq(Packet(x), 1, n),
         n = Len(Packet(x)) \/ call' = "dropped"
  PROVE  /\ Len(Packet(x)) = 5 /\ Len(wire) \in Nat /\ Len(wire') = Len(wire) + n
         /\ Extends(wire, wire') /\ Framed(wire') /\ EndsWhole' /\ EndsOnce'
         /\ \A m \in Len(wire) + 1 .. Len(wire') :
              IF m = Len(wire) + 4 THEN wire'[m] = x ELSE ~HasBody(wire'[m])
         /\ \A m \in 1 .. Len(wire') : wire'[m] # Zero
<1>1. WriterTypeOK /\ wire \in Seq(StreamCells) /\ Len(wire) \in Nat /\ ~finished
  BY DEF WriterInv, WriterTypeOK, WriteIsTracked
<1>2. x # Schema
  BY Kinds DEF HasBody
<1>3. /\ IsMessage(Packet(x)) /\ Packet(x) \in Seq(StreamCells) /\ Len(Packet(x)) = 5
      /\ Packet(x)[1] = Half1 /\ Packet(x)[2] = Half2 /\ Packet(x)[3] = Length /\ Packet(x)[4] = x /\ Packet(x)[5] = Body
  BY <1>2, PacketCells DEF IsMessage
<1>4. /\ wire' \in Seq(StreamCells) /\ Len(wire') = Len(wire) + n
      /\ \A m \in 1 .. Len(wire) : wire'[m] = wire[m]
      /\ \A m \in Len(wire) + 1 .. Len(wire') :
           m - Len(wire) \in 1 .. n /\ wire'[m] = Packet(x)[m - Len(wire)]
  <2>1. Packet(x) \in Seq(StreamCells) /\ wire \in Seq(StreamCells)
    BY <1>1, <1>3
  <2> QED BY <2>1, PartCells
<1>5. Extends(wire, wire')
  BY <1>1, <1>4 DEF Extends
<1>6. Framed(wire') /\ EndsWhole'
  BY <1>1, <1>3, FramedStep DEF WriterInv
<1>7. ASSUME NEW k \in 1 .. 5, k # 4 PROVE ~HasBody(Packet(x)[k]) /\ Packet(x)[k] # Zero
  <2>1. k = 1 \/ k = 2 \/ k = 3 \/ k = 5
    BY <1>7
  <2>2. Packet(x)[k] \in {Half1, Half2, Length, Body}
    BY <1>3, <2>1
  <2> QED BY <2>2, Kinds DEF HasBody
<1>8. x # Zero
  BY Kinds DEF HasBody
<1>9. ASSUME NEW m \in Len(wire) + 1 .. Len(wire')
      PROVE  /\ IF m = Len(wire) + 4 THEN wire'[m] = x ELSE ~HasBody(wire'[m])
             /\ wire'[m] # Zero
  <2>1. m - Len(wire) \in 1 .. 5 /\ wire'[m] = Packet(x)[m - Len(wire)]
    <3>1. \A k \in 1 .. n : k \in 1 .. 5
      BY <1>3
    <3> QED BY <1>4, <3>1
  <2>2. CASE m = Len(wire) + 4
    BY <1>1, <1>3, <1>8, <2>1, <2>2
  <2>3. CASE m # Len(wire) + 4
    <3>1. m - Len(wire) # 4
      BY <1>1, <2>3
    <3> QED BY <1>7, <2>1, <2>3, <3>1
  <2> QED BY <2>2, <2>3
<1>10. \A m \in 1 .. Len(wire') : wire'[m] # Zero
  BY <1>1, <1>5, <1>9, NotEnded DEF WriterInv
<1>11. EndsOnce'
  BY <1>10 DEF EndsOnce
<1> QED BY <1>1, <1>3, <1>4, <1>5, <1>6, <1>9, <1>10, <1>11

\* A dictionary is that of its column; what it defines is in the tracker.
LEMMA DictionaryStep ==
  ASSUME WriterInv, WriterTypeOK', call = "write",
         NEW i \in pending, NEW x, x = Dict(Fields[i], chunk.dicts[i]),
         NEW n \in 0 .. Len(Packet(x)), wire' = wire \o SubSeq(Packet(x), 1, n),
         n = Len(Packet(x)) \/ call' = "dropped",
         IF call' = "dropped" THEN pending' = {}
         ELSE call' = "write" /\ chunk' = chunk /\ pending' = pending \ {i},
         UNCHANGED << started, finished, tracker, sent >>
  PROVE  WriterInv'
<1>1. i \in Columns /\ Fields[i] \in Ids /\ chunk.dicts[i] \in Values
  <2>1. i \in Columns /\ chunk \in Chunks
    BY DEF WriterInv, WriterTypeOK
  <2>2. Fields[i] \in Ids
    BY <2>1, FieldsAssumption DEF Columns
  <2>3. chunk.dicts \in [Columns -> Values]
    BY <2>1 DEF Chunks
  <2> QED BY <2>1, <2>2, <2>3
<1>2. x \in StreamCells /\ HasBody(x) /\ x.kind = "dictionary" /\ x.id = Fields[i]
  <2>1. x \in StreamCells
    BY <1>1, PacketFacts
  <2>2. x.kind = "dictionary" /\ x.id = Fields[i]
    BY DEF Dict
  <2> QED BY <2>1, <2>2 DEF HasBody
<1>5. /\ Len(Packet(x)) = 5 /\ Len(wire) \in Nat /\ Len(wire') = Len(wire) + n
      /\ Extends(wire, wire') /\ Framed(wire') /\ EndsWhole' /\ EndsOnce'
      /\ \A m \in Len(wire) + 1 .. Len(wire') :
           IF m = Len(wire) + 4 THEN wire'[m] = x ELSE ~HasBody(wire'[m])
  BY <1>2, BodyStep
<1>6. RecordsAreSent'
  <2>1. \A m \in Len(wire) + 1 .. Len(wire') : wire'[m].kind # "record"
    BY <1>2, <1>5 DEF HasBody
  <2> QED BY <1>5, <2>1, NothingRecorded DEF WriterInv
<1>7. WriteIsTracked'
  BY DEF WriterInv, WriteIsTracked
<1>8. ASSUME call' # "dropped", NEW d \in Ids, \A j \in pending' : Fields[j] # d
      PROVE  Defines(wire', Len(wire'), d, tracker[d])
  <2>1. n = 5 /\ pending' = pending \ {i}
    BY <1>5, <1>8
  <2>2. /\ Len(wire) + 4 \in Len(wire) + 1 .. Len(wire') /\ Len(wire) + 4 \in Nat \ {0}
        /\ wire'[Len(wire) + 4] = x /\ Len(wire') \in Nat /\ Len(wire') = Len(wire) + 5
    BY <1>5, <2>1
  <2>3. CASE d = Fields[i]
    <3>1. tracker[d] = chunk.dicts[i]
      BY <1>1, <2>3 DEF WriterInv, WriteIsTracked
    <3>2. PICK here \in Nat \ {0} : here = Len(wire) + 4
      BY <2>2
    <3>3. Defines(wire', here, d, tracker[d])
      BY <2>2, <2>3, <3>1, <3>2, DefinesDict
    <3>4. \A k \in here + 1 .. Len(wire') : ~IsDictOf(wire'[k], d)
      BY <1>5, <2>2, <3>2 DEF IsDictOf, HasBody
    <3>5. here <= Len(wire') /\ Len(wire') \in Nat
      BY <2>2, <3>2
    <3> QED BY <3>3, <3>4, <3>5, DefinesOn
  <2>4. CASE d # Fields[i]
    <3>1. \A j \in pending : Fields[j] # d
      BY <1>8, <2>1, <2>4
    <3>2. Defines(wire, Len(wire), d, tracker[d])
      BY <3>1 DEF WriterInv, TrackerIsDefined
    <3>3. Defines(wire', Len(wire), d, tracker[d])
      BY <1>5, <3>2, DefinesKept DEF Extends
    <3>4. \A k \in Len(wire) + 1 .. Len(wire') : ~IsDictOf(wire'[k], d)
      BY <1>2, <1>5, <2>4 DEF IsDictOf, HasBody
    <3>5. Len(wire) <= Len(wire') /\ Len(wire') \in Nat /\ Len(wire) \in Nat
      BY <1>5, <2>2
    <3> QED BY <3>3, <3>4, <3>5, DefinesOn
  <2> QED BY <2>3, <2>4
<1>9. TrackerIsDefined'
  BY <1>8 DEF TrackerIsDefined
<1> QED BY <1>5, <1>6, <1>7, <1>9 DEF WriterInv
\* A record is that of the chunk, and what it needs is defined in front of it; the chunk
\* is sent when its body is there.
LEMMA RecordStep ==
  ASSUME WriterInv, WriterTypeOK', call = "write", pending = {},
         NEW x, x = Record(chunk.keys),
         NEW n \in 0 .. Len(Packet(x)), wire' = wire \o SubSeq(Packet(x), 1, n),
         n = Len(Packet(x)) \/ call' = "dropped", call' \in {"idle", "dropped"},
         sent' = IF n = Len(Packet(x)) THEN Append(sent, chunk) ELSE sent, pending' = {},
         UNCHANGED << started, finished, tracker >>
  PROVE  WriterInv'
<1>1. chunk \in Chunks /\ chunk.keys \in Keys
  BY DEF WriterInv, WriterTypeOK, Chunks
<1>2. x \in StreamCells /\ HasBody(x) /\ x.kind = "record" /\ x.keys = chunk.keys
  <2>1. x \in StreamCells
    BY <1>1, PacketFacts
  <2>2. x.kind = "record" /\ x.keys = chunk.keys
    BY DEF Record
  <2> QED BY <2>1, <2>2 DEF HasBody
<1>3. /\ Len(Packet(x)) = 5 /\ Len(wire) \in Nat /\ Len(wire') = Len(wire) + n
      /\ Extends(wire, wire') /\ Framed(wire') /\ EndsWhole' /\ EndsOnce'
      /\ \A m \in Len(wire) + 1 .. Len(wire') :
           IF m = Len(wire) + 4 THEN wire'[m] = x ELSE ~HasBody(wire'[m])
  BY <1>2, BodyStep
<1>4. WriteIsTracked' /\ TrackerIsDefined'
  <2>1. \A m \in Len(wire) + 1 .. Len(wire') : wire'[m].kind # "dictionary"
    BY <1>2, <1>3 DEF HasBody
  <2>2. WriterTypeOK /\ TrackerIsDefined /\ pending' = pending
    BY DEF WriterInv
  <2> QED BY <1>3, <2>1, <2>2, NothingDefined DEF WriteIsTracked
<1>5. CASE n < 4
  <2>1. \A m \in Len(wire) + 1 .. Len(wire') : wire'[m].kind # "record"
    BY <1>3, <1>5 DEF HasBody
  <2>2. sent' = sent
    BY <1>3, <1>5
  <2>3. RecordsAreSent'
    BY <1>3, <2>1, <2>2, NothingRecorded DEF WriterInv
  <2> QED BY <1>3, <1>4, <2>3 DEF WriterInv
<1>6. CASE n \in {4, 5}
  <2>1. PICK here \in Nat : here = Len(wire) + 3
    BY <1>3
  <2>2. /\ here + 1 \in 1 .. Len(wire') /\ wire'[here + 1] = x
        /\ \A m \in Len(wire) + 1 .. here : wire'[m].kind # "record" /\ wire'[m].kind # "dictionary"
        /\ \A m \in here + 2 .. Len(wire') : wire'[m].kind # "record"
        /\ \A m \in 1 .. Len(wire) : wire'[m] = wire[m]
    <3>1. here + 1 = Len(wire) + 4 /\ here + 1 \in Len(wire) + 1 .. Len(wire')
      BY <1>3, <1>6, <2>1
    <3>2. here + 1 \in 1 .. Len(wire') /\ wire'[here + 1] = x
      BY <1>3, <3>1
    <3>3. ASSUME NEW m \in Len(wire) + 1 .. here
          PROVE  wire'[m].kind # "record" /\ wire'[m].kind # "dictionary"
      <4>1. m \in Len(wire) + 1 .. Len(wire') /\ m # Len(wire) + 4
        BY <1>3, <1>6, <2>1
      <4> QED BY <1>3, <4>1 DEF HasBody
    <3>4. ASSUME NEW m \in here + 2 .. Len(wire') PROVE wire'[m].kind # "record"
      <4>1. m \in Len(wire) + 1 .. Len(wire') /\ m # Len(wire) + 4
        BY <1>3, <1>6, <2>1
      <4> QED BY <1>3, <4>1 DEF HasBody
    <3> QED BY <1>3, <3>2, <3>3, <3>4 DEF Extends
  <2>3. RecordsIn(wire', Len(wire)) = Len(sent)
    BY <1>3, <2>2, RecordsKept DEF WriterInv, RecordsAreSent
  <2>4. RecordsIn(wire', here) = Len(sent)
    <3>1. Len(wire) \in Nat /\ Len(wire) <= here
      BY <1>3, <2>1
    <3> QED BY <2>2, <2>3, <3>1, RecordsOn
  <2>5. RecordsIn(wire', here + 1) = Len(sent) + 1
    BY <1>2, <2>1, <2>2, <2>4, RecordsNext, ZenonT(30)
  <2>6. RecordsIn(wire', Len(wire')) = Len(sent) + 1
    <3>1. /\ here + 1 <= Len(wire') /\ here + 1 \in Nat /\ Len(wire') \in Nat
          /\ (here + 1) + 1 = here + 2
      BY <1>3, <1>6, <2>1
    <3> QED BY <2>2, <2>5, <3>1, RecordsOn, ZenonT(30)
  <2>7. \A i \in Columns : Defines(wire', here + 1, Fields[i], chunk.dicts[i])
    <3> TAKE i \in Columns
    <3>1. Fields[i] \in Ids
      BY FieldsAssumption DEF Columns
    <3>2. Defines(wire, Len(wire), Fields[i], chunk.dicts[i])
      BY <3>1 DEF WriterInv, TrackerIsDefined, WriteIsTracked
    <3>3. Defines(wire', Len(wire), Fields[i], chunk.dicts[i])
      BY <1>3, <2>2, <3>2, DefinesKept, ZenonT(30)
    <3>4. \A m \in Len(wire) + 1 .. here + 1 : ~IsDictOf(wire'[m], Fields[i])
      <4> TAKE m \in Len(wire) + 1 .. here + 1
      <4>1. m \in Len(wire) + 1 .. here \/ m = here + 1
        BY <1>3, <2>1
      <4> QED BY <1>2, <2>2, <4>1 DEF IsDictOf
    <3>5. Len(wire) <= here + 1 /\ here + 1 \in Nat
      BY <1>3, <2>1
    <3> QED BY <1>3, <3>3, <3>4, <3>5, DefinesOn
  <2>8. IsRecordOf(wire', here + 1, chunk)
    BY <1>2, <2>2, <2>7 DEF IsRecordOf
  <2>9. /\ Len(sent) \in Nat /\ Len(sent') = IF n = 5 THEN Len(sent) + 1 ELSE Len(sent)
        /\ \A k \in 1 .. Len(sent) : sent'[k] = sent[k]
        /\ n = 5 => sent'[Len(sent) + 1] = chunk
    BY <1>1, <1>3 DEF WriterInv, WriterTypeOK
  <2>10. ASSUME NEW m \in 1 .. Len(wire') - 1, wire'[m].kind = "record"
         PROVE  /\ RecordsIn(wire', m) \in 1 .. Len(sent')
                /\ IsRecordOf(wire', m, sent'[RecordsIn(wire', m)])
    <3>1. CASE m \in 1 .. Len(wire)
      <4>1. m # Len(wire)
        <5>1. EndsMessage(wire[Len(wire)])
          BY <3>1 DEF WriterInv, EndsWhole
        <5> QED BY <2>2, <2>10, <3>1, <5>1, EndsAreNoHeaders DEF HasBody
      <4>2. m \in 1 .. Len(wire) - 1 /\ wire[m].kind = "record" /\ m \in Nat /\ wire'[m] = wire[m]
        BY <1>3, <2>2, <2>10, <3>1, <4>1
      <4>3. \A k \in 1 .. m : wire'[k] = wire[k]
        BY <1>3, <2>2, <3>1
      <4>4. RecordsIn(wire', m) = RecordsIn(wire, m)
        BY <4>2, <4>3, RecordsKept
      <4>5. RecordsIn(wire, m) \in 1 .. Len(sent) /\ IsRecordOf(wire, m, sent[RecordsIn(wire, m)])
        BY <4>2 DEF WriterInv, RecordsAreSent
      <4>6. IsRecordOf(wire', m, sent[RecordsIn(wire, m)])
        BY <4>2, <4>3, <4>5, DefinesKept DEF IsRecordOf
      <4> QED BY <2>9, <4>4, <4>5, <4>6
    <3>2. CASE m \notin 1 .. Len(wire)
      <4>1. m = here + 1
        BY <1>3, <2>1, <2>2, <2>10, <3>2
      <4>2. n = 5
        BY <1>3, <1>6, <2>1, <2>10, <4>1
      <4> QED BY <2>5, <2>8, <2>9, <4>1, <4>2
    <3> QED BY <3>1, <3>2
  <2>11. RecordsAreSent'
    <3>1. call' # "dropped" => n = 5
      BY <1>3
    <3>2. /\ RecordsIn(wire', Len(wire')) >= Len(sent')
          /\ call' # "dropped" => RecordsIn(wire', Len(wire')) = Len(sent')
      BY <1>6, <2>6, <2>9, <3>1
    <3> QED BY <2>10, <3>2 DEF RecordsAreSent
  <2> QED BY <1>3, <1>4, <2>11 DEF WriterInv
<1> QED BY <1>3, <1>5, <1>6
\* A writer that has written nothing.
LEMMA WriterInvInit == WriterInit => WriterInv
<1> SUFFICES ASSUME WriterInit PROVE WriterInv
  OBVIOUS
<1>1. WriterTypeOK /\ wire = << >> /\ Len(wire) = 0 /\ sent = << >> /\ pending = {}
  BY WriterInitStep DEF WriterInit
<1>2. Framed(wire) /\ EndsWhole /\ EndsOnce /\ WriteIsTracked
  BY <1>1 DEF Framed, EndsWhole, EndsOnce, WriteIsTracked, WriterInit
<1>3. TrackerIsDefined
  <2>1. \A d \in Ids : tracker[d] = NoDict
    BY DEF WriterInit, EmptyTracker
  <2> QED BY <1>1, <2>1, NothingSaid DEF TrackerIsDefined
<1>4. RecordsAreSent
  BY <1>1, NothingSaid DEF RecordsAreSent
<1> QED BY <1>1, <1>2, <1>3, <1>4 DEF WriterInv

\* Whatever is called in whatever order, and wherever an error cuts it short, if the
\* dictionary ids are distinct.
LEMMA WriterInvStep ==
  ASSUME UniqueFields, WriterInv, WriterNext
  PROVE  WriterInv'
<1>1. WriterTypeOK /\ WriterTypeOK' /\ wire \in Seq(StreamCells)
  BY WriterStep DEF WriterInv, WriterTypeOK
<1>2. /\ Packet(Schema) \in Seq(StreamCells) /\ EndOfStream \in Seq(StreamCells)
      /\ Packet(Schema) # EndOfStream
  <2>1. Len(Packet(Schema)) = 4 /\ Len(EndOfStream) = 3
    BY PacketFacts
  <2>2. Packet(Schema) # EndOfStream
    BY <2>1
  <2> QED BY <2>2, PacketFacts
<1>3. CASE Start
  <2>1. wire' = wire \o SubSeq(Packet(Schema), 1, Len(Packet(Schema)))
    BY <1>2, <1>3, WholeIsPart DEF Start
  <2>2. Len(Packet(Schema)) \in 0 .. Len(Packet(Schema))
    BY <1>2, WholeIsPart
  <2> QED BY <1>1, <1>2, <1>3, <2>1, <2>2, ControlStep DEF Start
<1>4. CASE Finish
  <2>1. wire' = wire \o SubSeq(EndOfStream, 1, Len(EndOfStream))
    BY <1>2, <1>4, WholeIsPart DEF Finish
  <2>2. Len(EndOfStream) \in 0 .. Len(EndOfStream)
    BY <1>2, WholeIsPart
  <2> QED BY <1>1, <1>2, <1>4, <2>1, <2>2, ControlStep DEF Finish
<1>5. CASE ControlFails
  BY <1>1, <1>2, <1>5, ControlStep DEF ControlFails
<1>6. CASE \E c \in Chunks : Write(c)
  BY <1>1, <1>6, EncodeStep
<1>7. CASE WriteDictionary
  <2>1. PICK i \in pending : /\ wire' = wire \o Packet(Dict(Fields[i], chunk.dicts[i]))
                             /\ pending' = pending \ {i}
    BY <1>7 DEF WriteDictionary
  <2>2. PICK x : x = Dict(Fields[i], chunk.dicts[i])
    OBVIOUS
  <2>3. Packet(x) \in Seq(StreamCells)
    <3>1. i \in Columns /\ chunk \in Chunks
      BY <1>7 DEF WriterInv, WriterTypeOK, WriteDictionary
    <3>2. Fields[i] \in Ids
      BY <3>1, FieldsAssumption DEF Columns
    <3>3. chunk.dicts[i] \in Values
      BY <3>1 DEF Chunks
    <3> QED BY <2>2, <3>2, <3>3, PacketFacts
  <2>4. wire' = wire \o SubSeq(Packet(x), 1, Len(Packet(x))) /\ Len(Packet(x)) \in 0 .. Len(Packet(x))
    BY <2>1, <2>2, <2>3, WholeIsPart
  <2> QED BY <1>1, <1>7, <2>1, <2>2, <2>4, DictionaryStep DEF WriteDictionary
<1>8. CASE WriteRecord
  <2>1. PICK x : x = Record(chunk.keys)
    OBVIOUS
  <2>2. Packet(x) \in Seq(StreamCells)
    <3>1. chunk \in Chunks
      BY <1>8 DEF WriterInv, WriterTypeOK, WriteRecord
    <3> QED BY <2>1, <3>1, PacketFacts DEF Chunks
  <2>3. wire' = wire \o SubSeq(Packet(x), 1, Len(Packet(x))) /\ Len(Packet(x)) \in 0 .. Len(Packet(x))
    BY <1>8, <2>1, <2>2, WholeIsPart DEF WriteRecord
  <2> QED BY <1>1, <1>8, <2>1, <2>3, RecordStep DEF WriteRecord
<1>9. CASE WriteFails
  <2>1. PICK x \in NextMessage : \E n \in 0 .. Len(Packet(x)) :
          /\ wire' = wire \o SubSeq(Packet(x), 1, n)
          /\ sent' = IF pending = {} /\ n = Len(Packet(x)) THEN Append(sent, chunk) ELSE sent
    BY <1>9 DEF WriteFails
  <2>2. CASE pending = {}
    <3>1. x = Record(chunk.keys)
      BY <2>1, <2>2 DEF NextMessage
    <3> QED BY <1>1, <1>9, <2>1, <2>2, <3>1, RecordStep DEF WriteFails
  <2>3. CASE pending # {}
    <3>1. PICK i \in pending : x = Dict(Fields[i], chunk.dicts[i])
      BY <2>1, <2>3 DEF NextMessage
    <3> QED BY <1>1, <1>9, <2>1, <2>3, <3>1, DictionaryStep DEF WriteFails
  <2> QED BY <2>2, <2>3
<1>10. CASE DropWriter
  <2>1. UNCHANGED << wire, started, finished, tracker, sent >> /\ call' = "dropped" /\ pending' = {}
    BY <1>10 DEF DropWriter
  <2>2. RecordsAreSent'
    BY <2>1 DEF WriterInv, RecordsAreSent
  <2> QED BY <1>1, <2>1, <2>2
          DEF WriterInv, EndsWhole, EndsOnce, WriteIsTracked, TrackerIsDefined
<1> QED BY <1>3, <1>4, <1>5, <1>6, <1>7, <1>8, <1>9, <1>10 DEF WriterNext
-----------------------------------------------------------------------------
(* What a reader that has got to the n-th cell makes of the next ones.      *)

\* The writer's steps change nothing of what has been read.
LEMMA KnowsKept ==
  ASSUME NEW w \in Seq(StreamCells), NEW after, Extends(w, after),
         NEW n \in 0 .. Len(w), NEW ds, NEW count, Knows(w, n, ds, count)
  PROVE  Knows(after, n, ds, count)
<1>1. n \in Nat /\ \A m \in 1 .. n : after[m] = w[m]
  BY DEF Extends
<1>2. RecordsIn(after, n) = count
  BY <1>1, RecordsKept DEF Knows
<1>3. \A d \in Ids : Defines(after, n, d, ds[d])
  BY <1>1, DefinesKept DEF Knows
<1> QED BY <1>2, <1>3 DEF Knows

\* Cells that announce no body add nothing to it.
LEMMA KnowsOn ==
  ASSUME NEW n \in Nat, NEW m \in Nat, n <= m, NEW ds, NEW count, Knows(wire, n, ds, count),
         \A k \in n + 1 .. m : ~HasBody(wire[k])
  PROVE  Knows(wire, m, ds, count)
<1>1. \A k \in n + 1 .. m : wire[k].kind # "record" /\ \A d : ~IsDictOf(wire[k], d)
  BY DEF HasBody, IsDictOf
<1>2. RecordsIn(wire, m) = count
  BY <1>1, RecordsOn DEF Knows
<1>3. \A d \in Ids : Defines(wire, m, d, ds[d])
  BY <1>1, DefinesOn DEF Knows
<1> QED BY <1>2, <1>3 DEF Knows

\* A header and the body behind it: a dictionary, which replaces the one of its id.
LEMMA DictionaryIsKnown ==
  ASSUME WriterTypeOK, Framed(wire), NEW n \in 1 .. Len(wire) - 1, wire[n].kind = "dictionary",
         NEW ds \in Tracker, NEW count, Knows(wire, n - 1, ds, count)
  PROVE  /\ [ds EXCEPT ![wire[n].id] = wire[n].value] \in Tracker
         /\ Knows(wire, n + 1, [ds EXCEPT ![wire[n].id] = wire[n].value], count)
<1> DEFINE after == [ds EXCEPT ![wire[n].id] = wire[n].value]
<1>1. /\ n \in Nat \ {0} /\ n - 1 \in Nat /\ n + 1 \in Nat /\ n \in 1 .. Len(wire)
      /\ wire[n] \in StreamCells
  BY DEF WriterTypeOK
<1>2. wire[n].id \in Ids /\ wire[n].value \in Values
  BY <1>1, StreamCellFacts
<1>3. wire[n] = Dict(wire[n].id, wire[n].value)
  <2>1. CASE wire[n] \in {Half1, Half2, Length, Zero, Body, Schema}
    BY <2>1, Kinds
  <2>2. CASE wire[n] \in [kind: {"dictionary"}, id: Ids, value: Values]
    BY <2>2 DEF Dict
  <2>3. CASE wire[n] \in [kind: {"record"}, keys: Keys]
    BY <2>3
  <2> QED BY <1>1, <2>1, <2>2, <2>3 DEF StreamCells
<1>4. wire[n + 1] = Body
  BY DEF Framed, Follows, HasBody
<1>5. Body.kind # "record" /\ Body.kind # "dictionary"
  BY Kinds
<1>6. /\ after \in Tracker
      /\ \A d \in Ids : after[d] = IF d = wire[n].id THEN wire[n].value ELSE ds[d]
  BY <1>2 DEF Tracker
<1> HIDE DEF after
<1>7. ASSUME NEW d \in Ids PROVE Defines(wire, n + 1, d, after[d])
  <2>1. Defines(wire, n, d, after[d])
    <3>1. CASE d = wire[n].id
      BY <1>1, <1>3, <1>6, <3>1, DefinesDict
    <3>2. CASE d # wire[n].id
      <4>1. Defines(wire, n - 1, d, after[d])
        BY <1>6, <3>2 DEF Knows
      <4>2. \A k \in (n - 1) + 1 .. n : ~IsDictOf(wire[k], d)
        BY <1>1, <3>2 DEF IsDictOf
      <4> QED BY <1>1, <4>1, <4>2, DefinesOn
    <3> QED BY <3>1, <3>2
  <2>2. \A k \in n + 1 .. n + 1 : ~IsDictOf(wire[k], d)
    BY <1>1, <1>4, <1>5 DEF IsDictOf
  <2> QED BY <1>1, <2>1, <2>2, DefinesOn
<1>8. RecordsIn(wire, n + 1) = count
  <2>1. \A k \in (n - 1) + 1 .. n + 1 : wire[k].kind # "record"
    <3> TAKE k \in (n - 1) + 1 .. n + 1
    <3>1. k = n \/ k = n + 1
      BY <1>1
    <3> QED BY <1>4, <1>5, <3>1
  <2> QED BY <1>1, <2>1, RecordsOn DEF Knows
<1> QED BY <1>6, <1>7, <1>8 DEF Knows, after

\* A record decoded with the dictionaries known in front of it is the chunk that was sent.
LEMMA RecordIsSent ==
  ASSUME WriterInv, NEW n \in 1 .. Len(wire) - 1, wire[n].kind = "record",
         NEW ds \in Tracker, NEW count \in Nat, Knows(wire, n - 1, ds, count)
  PROVE  /\ KnowsAll(ds) /\ count + 1 \in 1 .. Len(sent)
         /\ DecodedWith(wire[n].keys, ds) = sent[count + 1]
         /\ Knows(wire, n + 1, ds, count + 1)
<1>1. /\ n \in Nat /\ n - 1 \in Nat /\ n + 1 \in Nat /\ (n - 1) + 1 = n
      /\ sent \in Seq(Chunks)
  BY DEF WriterInv, WriterTypeOK
<1>2. wire[n + 1] = Body
  BY DEF WriterInv, Framed, Follows, HasBody
<1>3. Body.kind # "record" /\ Body.kind # "dictionary"
  BY Kinds
<1>4. RecordsIn(wire, n) = count + 1
  BY <1>1, RecordsNext DEF Knows
<1>5. RecordsIn(wire, n + 1) = count + 1
  <2>1. \A k \in n + 1 .. n + 1 : wire[k].kind # "record"
    BY <1>1, <1>2, <1>3
  <2> QED BY <1>1, <1>4, <2>1, RecordsOn
<1>6. \A d \in Ids : Defines(wire, n, d, ds[d]) /\ Defines(wire, n + 1, d, ds[d])
  <2> TAKE d \in Ids
  <2>1. \A k \in (n - 1) + 1 .. n : ~IsDictOf(wire[k], d)
    BY <1>1 DEF IsDictOf
  <2>2. \A k \in (n - 1) + 1 .. n + 1 : ~IsDictOf(wire[k], d)
    <3> TAKE k \in (n - 1) + 1 .. n + 1
    <3>1. k = n \/ k = n + 1
      BY <1>1
    <3> QED BY <1>2, <1>3, <3>1 DEF IsDictOf
  <2>3. Defines(wire, n - 1, d, ds[d])
    BY DEF Knows
  <2>4. n - 1 <= n /\ n - 1 <= n + 1
    BY <1>1
  <2> QED BY <1>1, <2>1, <2>2, <2>3, <2>4, DefinesOn
<1>7. PICK c \in Chunks : c = sent[count + 1] /\ IsRecordOf(wire, n, c) /\ count + 1 \in 1 .. Len(sent)
  BY <1>1, <1>4 DEF WriterInv, RecordsAreSent
<1>8. \A i \in Columns : ds[Fields[i]] = c.dicts[i]
  <2> TAKE i \in Columns
  <2>1. Fields[i] \in Ids
    BY FieldsAssumption DEF Columns
  <2>2. Defines(wire, n, Fields[i], c.dicts[i])
    BY <1>7 DEF IsRecordOf
  <2> QED BY <1>1, <1>6, <2>1, <2>2, DefinesOne
<1>9. KnowsAll(ds)
  BY <1>8, NoDictAssumption DEF KnowsAll, Chunks
<1>10. DecodedWith(wire[n].keys, ds) = c
  <2>1. c = [keys |-> c.keys, dicts |-> c.dicts] /\ c.dicts = [i \in Columns |-> c.dicts[i]]
    BY DEF Chunks
  <2>2. [i \in Columns |-> ds[Fields[i]]] = [i \in Columns |-> c.dicts[i]]
    BY <1>8
  <2>3. wire[n].keys = c.keys
    BY <1>7 DEF IsRecordOf
  <2> QED BY <2>1, <2>2, <2>3 DEF DecodedWith
<1> QED BY <1>5, <1>6, <1>7, <1>9, <1>10 DEF Knows

\* At the mark of the end all that was sent has been read.
LEMMA AllIsSentAtTheEnd ==
  ASSUME WriterInv, NEW n \in 1 .. Len(wire), wire[n] = Zero,
         NEW ds, NEW count, Knows(wire, n, ds, count)
  PROVE  count >= Len(sent)
<1>1. Len(wire) \in Nat /\ n \in Nat
  BY DEF WriterInv, WriterTypeOK
<1>2. \A m \in n + 1 .. Len(wire) : wire[m].kind # "record"
  BY <1>1 DEF WriterInv, EndsOnce
<1>3. RecordsIn(wire, Len(wire)) = RecordsIn(wire, n)
  BY <1>1, <1>2, RecordsOn
<1> QED BY <1>3 DEF WriterInv, RecordsAreSent, Knows

\* What the first message is: a schema, or the mark of a stream without one.
LEMMA FirstMessage ==
  ASSUME WriterTypeOK, Framed(wire), Len(wire) >= 3
  PROVE  /\ wire[1] = Half1 /\ wire[2] = Half2 /\ wire[3] \in {Length, Zero}
         /\ Len(wire) >= 4 /\ wire[4] = Schema => \A k \in 1 .. 4 : ~HasBody(wire[k])
<1>1. wire \in Seq(StreamCells) /\ wire # << >> /\ Len(wire) \in Nat
  BY DEF WriterTypeOK
<1>2. wire[1] = Half1
  BY <1>1 DEF Framed
<1>3. wire[2] = Half2
  BY <1>1, <1>2 DEF Framed, Follows
<1>4. wire[3] \in {Length, Zero}
  BY <1>1, <1>3 DEF Framed, Follows
<1>5. ASSUME Len(wire) >= 4, wire[4] = Schema, NEW k \in 1 .. 4 PROVE ~HasBody(wire[k])
  <2>1. k = 1 \/ k = 2 \/ k = 3 \/ k = 4
    OBVIOUS
  <2>2. wire[k] \in {Half1, Half2, Length, Zero, Schema}
    BY <1>2, <1>3, <1>4, <1>5, <2>1
  <2> QED BY <2>2, Kinds DEF HasBody
<1> QED BY <1>2, <1>3, <1>4, <1>5

\* A call sends at most one chunk, behind those sent.
LEMMA SentStep ==
  ASSUME WriterTypeOK, WriterNext
  PROVE  /\ sent' = sent \/ \E c \in Chunks : sent' = Append(sent, c)
         /\ Len(sent') >= Len(sent) /\ \A k \in 1 .. Len(sent) : sent'[k] = sent[k]
<1>1. sent' = sent \/ \E c \in Chunks : sent' = Append(sent, c)
  BY DEF WriterNext, Start, Write, WriteDictionary, WriteRecord, WriteFails, Finish, ControlFails,
         DropWriter, WriterTypeOK
<1>2. sent \in Seq(Chunks)
  BY DEF WriterTypeOK
<1>3. ASSUME NEW c \in Chunks, sent' = Append(sent, c)
      PROVE  Len(sent') >= Len(sent) /\ \A k \in 1 .. Len(sent) : sent'[k] = sent[k]
  BY <1>2, <1>3
<1> QED BY <1>1, <1>2, <1>3

\* The chunks a reader makes are chunks, of the keys of the record and the dictionaries
\* known.
LEMMA DecodedType ==
  ASSUME NEW k \in Keys, NEW d \in Tracker, KnowsAll(d)
  PROVE  DecodedWith(k, d) \in Chunks
<1>1. ASSUME NEW i \in Columns PROVE d[Fields[i]] \in Values
  <2>1. Fields[i] \in Ids
    BY FieldsAssumption DEF Columns
  <2> QED BY <2>1 DEF KnowsAll, Tracker
<1> QED BY <1>1 DEF DecodedWith, Chunks
\* A reader's steps are none of the writer's business.
LEMMA WriterStill ==
  ASSUME WriterInv, UNCHANGED wvars
  PROVE  WriterInv'
BY DEF wvars, WriterInv, WriterTypeOK, EndsWhole, EndsOnce, WriteIsTracked, TrackerIsDefined,
       RecordsAreSent
\* What is sent is sent before the end.
LEMMA SentBeforeTheEnd ==
  ASSUME WriterInv, WriterTypeOK', WriterNext, sent' # sent
  PROVE  \A m \in 1 .. Len(wire') : wire'[m] # Zero
<1>1. WriteRecord \/ WriteFails
  BY DEF WriterNext, Start, Write, WriteDictionary, Finish, ControlFails, DropWriter
<1>2. chunk \in Chunks /\ call = "write"
  BY <1>1 DEF WriterInv, WriterTypeOK, WriteRecord, WriteFails
<1>3. PICK x : x = Record(chunk.keys)
  OBVIOUS
<1>4. x \in StreamCells /\ HasBody(x) /\ Packet(x) \in Seq(StreamCells)
  <2>1. x \in StreamCells /\ Packet(x) \in Seq(StreamCells)
    BY <1>2, <1>3, PacketFacts DEF Chunks
  <2>2. x.kind = "record"
    BY <1>3 DEF Record
  <2> QED BY <2>1, <2>2 DEF HasBody
<1>5. CASE WriteRecord
  <2>1. wire' = wire \o SubSeq(Packet(x), 1, Len(Packet(x))) /\ Len(Packet(x)) \in 0 .. Len(Packet(x))
    BY <1>3, <1>4, <1>5, WholeIsPart DEF WriteRecord
  <2> QED BY <1>2, <1>4, <2>1, BodyStep
<1>6. CASE WriteFails
  <2>1. pending = {}
    BY <1>6 DEF WriteFails
  <2>2. PICK n \in 0 .. Len(Packet(x)) : wire' = wire \o SubSeq(Packet(x), 1, n)
    BY <1>3, <1>6, <2>1 DEF WriteFails, NextMessage
  <2>3. call' = "dropped"
    BY <1>6 DEF WriteFails
  <2> QED BY <1>2, <1>4, <2>2, <2>3, BodyStep
<1> QED BY <1>1, <1>5, <1>6

\* A stream that has ended has ended.
LEMMA EndIsKept ==
  ASSUME WriterTypeOK, Extends(wire, wire'), \E n \in 1 .. Len(wire) : wire[n] = Zero
  PROVE  \E n \in 1 .. Len(wire') : wire'[n] = Zero
<1>1. PICK n \in 1 .. Len(wire) : wire[n] = Zero
  OBVIOUS
<1>2. n \in 1 .. Len(wire') /\ wire'[n] = Zero
  BY <1>1 DEF Extends, WriterTypeOK
<1> QED BY <1>2
=============================================================================

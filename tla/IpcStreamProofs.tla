-------------------------- MODULE IpcStreamProofs --------------------------
(***************************************************************************)
(* StreamReader gets from StreamWriter what was sent: StreamInv is         *)
(* inductive if no two columns share a dictionary id, and under it every   *)
(* step of the two is one of a channel.  So is AsyncStreamInv, of          *)
(* AsyncStreamReader and its future; and WakeInv, which needs nothing of   *)
(* the columns: a stream that awaits a message is never forgotten by the   *)
(* executor.                                                               *)
(***************************************************************************)
EXTENDS IpcStream, IpcAsyncStream, IpcStreamWriterProofs

\* What the types say of the wire and of the place the reader is at.
LEMMA Places ==
  ASSUME TypeOK
  PROVE  /\ wire \in Seq(StreamCells) /\ Len(wire) \in Nat /\ visible \in Nat /\ rpos \in Nat
         /\ rpos <= visible /\ visible <= Len(wire)
         /\ \A n \in 1 .. Len(wire) : wire[n] \in StreamCells
BY DEF TypeOK, WriterTypeOK

\* A cell that is there to be read, and the one in front of it.
LEMMA Reads ==
  ASSUME TypeOK, Available
  PROVE  /\ NextCell = wire[rpos + 1] /\ NextCell \in StreamCells
         /\ rpos + 1 \in Nat /\ rpos + 1 \in 0 .. visible /\ rpos + 1 \in 1 .. Len(wire)
         /\ Framed(wire) /\ rpos >= 1 => Follows(wire[rpos], NextCell)
<1>1. /\ wire \in Seq(StreamCells) /\ Len(wire) \in Nat /\ visible \in Nat /\ rpos \in Nat
      /\ rpos <= visible /\ visible <= Len(wire) /\ rpos < visible
  BY Places DEF Available
<1>2. rpos >= 1 => rpos \in 1 .. Len(wire) - 1
  BY <1>1
<1> QED BY <1>1, <1>2 DEF NextCell, Framed

-----------------------------------------------------------------------------
(* The invariant.                                                           *)

\* Nothing is written, and nothing read.
LEMMA StreamInit == Init => StreamInv
<1> SUFFICES ASSUME Init PROVE StreamInv
  OBVIOUS
<1>1. WriterInv /\ WriterTypeOK
  BY WriterInvInit DEF Init, WriterInv
<1>2. EmptyTracker \in Tracker /\ Schema \in StreamCells /\ << >> \in Seq(Chunks)
  BY PacketFacts DEF EmptyTracker, Tracker
<1>3. Len(wire) = 0 /\ Len(received) = 0 /\ Len(sent) = 0
  BY DEF Init, WriterInit
<1>4. TypeOK
  <2>1. visible \in 0 .. Len(wire) /\ rpos \in 0 .. visible
    BY <1>3 DEF Init
  <2>2. received \in Seq(Chunks) /\ dictionaries \in Tracker /\ header \in StreamCells
    BY <1>2 DEF Init
  <2> QED BY <1>1, <2>1, <2>2 DEF Init, TypeOK
<1>5. ReaderIsInPlace /\ ReceivedIsSent /\ FailsForAReason
  BY <1>3 DEF Init, ReaderIsInPlace, ReceivedIsSent, FailsForAReason
<1>6. ReaderKnows
  <2>1. \A d \in Ids : dictionaries[d] = NoDict
    BY DEF Init, EmptyTracker
  <2> QED BY <1>3, <2>1, NothingSaid DEF Init, ReaderKnows, Knows, Used
<1> QED BY <1>1, <1>4, <1>5, <1>6 DEF StreamInv

\* The writer goes on behind what the reader has read.
LEMMA StreamWriterStep ==
  ASSUME UniqueFields, StreamInv, WriterNext, UNCHANGED rvars
  PROVE  StreamInv'
<1>1. /\ TypeOK /\ WriterTypeOK /\ WriterInv /\ WriterInv' /\ WriterTypeOK' /\ Extends(wire, wire')
      /\ UNCHANGED << visible, rpos, phase, header, dictionaries, received, cut >>
  BY WriterStep, WriterInvStep DEF StreamInv, WriterInv, rvars
<1>2. /\ Len(wire) \in Nat /\ Len(wire') \in Nat /\ Len(wire) <= Len(wire')
      /\ rpos \in Nat /\ rpos <= Len(wire) /\ wire \in Seq(StreamCells)
      /\ \A n \in 1 .. Len(wire) : wire'[n] = wire[n]
  BY <1>1, Places DEF Extends, WriterTypeOK
<1>3. TypeOK'
  BY <1>1, <1>2 DEF TypeOK
<1>4. ReaderIsInPlace'
  <2>1. rpos >= 1 => wire'[rpos] = wire[rpos]
    BY <1>2
  <2>2. phase \in {"idle", "length", "payload", "body"} => rpos >= 1
    BY <1>2, PacketFacts DEF StreamInv, ReaderIsInPlace
  <2> QED BY <1>1, <2>1, <2>2 DEF StreamInv, ReaderIsInPlace
<1>5. ReaderKnows'
  <2>1. Used' = Used
    BY <1>1 DEF Used
  <2>2. Used \in 0 .. Len(wire)
    BY <1>2, PacketFacts DEF Used, StreamInv, ReaderIsInPlace
  <2>3. phase # "failed" => Knows(wire', Used, dictionaries, Len(received))
    BY <1>1, <1>2, <2>2, KnowsKept DEF StreamInv, ReaderKnows
  <2> QED BY <1>1, <2>1, <2>3 DEF ReaderKnows
<1>6. ReceivedIsSent'
  <2>1. Len(sent) \in Nat /\ Len(sent') \in Nat /\ Len(received) \in Nat
    BY <1>1 DEF WriterTypeOK, TypeOK
  <2>2. Len(sent) <= Len(sent') /\ \A k \in 1 .. Len(sent) : sent'[k] = sent[k]
    BY <1>1, <2>1, SentStep
  <2> QED BY <1>1, <2>1, <2>2 DEF StreamInv, ReceivedIsSent
<1>7. FailsForAReason'
  <2>1. OutOfOrder => OutOfOrder'
    <3>1. Len(wire) >= 3 => wire'[3] = wire[3] /\ Len(wire') >= 3
      BY <1>2
    <3>2. \A n \in 1 .. Len(wire) : n \in 1 .. Len(wire') /\ wire'[n] = wire[n]
      BY <1>2
    <3>3. ASSUME \E n \in 1 .. Len(wire) : wire[n] = Schema /\ n # Len(Packet(Schema))
          PROVE  \E n \in 1 .. Len(wire') : wire'[n] = Schema /\ n # Len(Packet(Schema))
      BY <3>2, <3>3
    <3>4. Len(EndOfStream) = 3
      BY PacketFacts
    <3> QED BY <3>1, <3>3, <3>4 DEF OutOfOrder
  <2> QED BY <1>1, <2>1 DEF StreamInv, FailsForAReason
<1> QED BY <1>1, <1>3, <1>4, <1>5, <1>6, <1>7 DEF StreamInv

\* More of the wire becomes visible.
LEMMA DeliverStep ==
  ASSUME StreamInv, Deliver
  PROVE  StreamInv'
<1>1. /\ UNCHANGED << wire, started, finished, tracker, call, chunk, pending, sent, controls >>
      /\ UNCHANGED << rpos, phase, header, dictionaries, received, cut >>
      /\ visible' = visible + 1 /\ visible < Len(wire)
  BY DEF Deliver, wvars
<1>2. TypeOK'
  BY <1>1, Places DEF StreamInv, TypeOK, WriterTypeOK
<1> QED BY <1>1, <1>2
        DEF StreamInv, WriterInv, WriterTypeOK, EndsWhole, EndsOnce, WriteIsTracked,
            TrackerIsDefined, RecordsAreSent, ReaderIsInPlace, ReaderKnows, Used, ReceivedIsSent,
            FailsForAReason, OutOfOrder
\* The schema, or the mark of an early end in its place.
LEMMA MetadataStep ==
  ASSUME StreamInv, ReadMetadata
  PROVE  StreamInv'
<1>1. /\ WriterInv' /\ phase = "metadata" /\ rpos = 0 /\ TypeOK /\ WriterTypeOK /\ Framed(wire)
      /\ UNCHANGED << wire, sent, visible, header, dictionaries, received, cut >>
      /\ Knows(wire, 0, dictionaries, Len(received))
  BY WriterStill
     DEF ReadMetadata, wvars, StreamInv, WriterInv, ReaderIsInPlace, ReaderKnows, Used
<1>2. Len(wire) \in Nat /\ visible \in Nat /\ visible <= Len(wire)
  BY <1>1, Places
<1>3. CASE phase' = "failed"
  <2>1. visible >= 3 /\ wire[3] = Zero /\ rpos' = rpos
    BY <1>1, <1>3, PacketFacts DEF ReadMetadata
  <2>2. OutOfOrder'
    BY <1>1, <1>2, <2>1, PacketFacts DEF OutOfOrder
  <2>3. TypeOK'
    BY <1>1, <1>3, <2>1 DEF TypeOK, WriterInv
  <2> QED BY <1>1, <1>3, <2>2, <2>3
          DEF StreamInv, ReaderIsInPlace, ReaderKnows, ReceivedIsSent, FailsForAReason
<1>4. CASE phase' # "failed"
  <2>1. visible >= 4 /\ wire[4] = Schema /\ rpos' = 4 /\ phase' = "idle"
    BY <1>4, PacketFacts DEF ReadMetadata
  <2>2. \A k \in 1 .. 4 : ~HasBody(wire[k])
    BY <1>1, <1>2, <2>1, FirstMessage
  <2>3. Knows(wire, 4, dictionaries, Len(received))
    <3>1. \A k \in 0 + 1 .. 4 : ~HasBody(wire[k])
      BY <2>2
    <3> QED BY <1>1, <3>1, KnowsOn
  <2>4. TypeOK'
    BY <1>1, <1>2, <2>1 DEF TypeOK, WriterInv
  <2>5. ReaderIsInPlace'
    BY <1>1, <2>1, PacketFacts DEF ReaderIsInPlace, EndsMessage
  <2> QED BY <1>1, <2>1, <2>3, <2>4, <2>5
          DEF StreamInv, ReaderKnows, Used, ReceivedIsSent, FailsForAReason
<1> QED BY <1>3, <1>4

\* The marker, or half of it, or what follows half a marker.
LEMMA MarkerStep ==
  ASSUME StreamInv, ReadMarker
  PROVE  StreamInv'
<1>1. /\ WriterInv' /\ phase = "idle" /\ TypeOK /\ Framed(wire) /\ Available
      /\ UNCHANGED << wire, sent, visible, header, dictionaries, received >>
      /\ Knows(wire, rpos, dictionaries, Len(received)) /\ rpos >= 4
      /\ EndsMessage(wire[rpos]) \/ (wire[rpos] = Half1 /\ cut)
  BY WriterStill, PacketFacts
     DEF ReadMarker, wvars, StreamInv, WriterInv, ReaderIsInPlace, ReaderKnows, Used
<1>2. /\ Len(wire) \in Nat /\ visible \in Nat /\ visible <= Len(wire) /\ rpos \in Nat
      /\ NextCell = wire[rpos + 1] /\ rpos + 1 <= visible /\ Follows(wire[rpos], NextCell)
  BY <1>1, Places, Reads DEF Available
<1>3. CASE NextCell = Half1 /\ rpos + 2 <= visible
  <2>1. rpos' = rpos + 2 /\ phase' = "length" /\ cut' = cut
    BY <1>3 DEF ReadMarker
  <2>2. wire[rpos + 2] = Half2
    <3>1. rpos + 1 \in 1 .. Len(wire) - 1 /\ (rpos + 1) + 1 = rpos + 2
      BY <1>2, <1>3
    <3> QED BY <1>1, <1>2, <1>3, <3>1 DEF Framed, Follows
  <2>3. Knows(wire, rpos + 2, dictionaries, Len(received))
    <3>1. \A k \in rpos + 1 .. rpos + 2 : ~HasBody(wire[k])
      <4> TAKE k \in rpos + 1 .. rpos + 2
      <4>1. k = rpos + 1 \/ k = rpos + 2
        BY <1>2
      <4> QED BY <1>2, <1>3, <2>2, <4>1, BareCells
    <3> QED BY <1>1, <1>2, <3>1, KnowsOn
  <2>4. TypeOK'
    BY <1>1, <1>2, <1>3, <2>1 DEF TypeOK, WriterInv
  <2>5. ReaderIsInPlace'
    BY <1>1, <1>2, <2>1, <2>2, PacketFacts DEF ReaderIsInPlace
  <2>6. ReaderKnows'
    BY <1>1, <2>1, <2>3 DEF ReaderKnows, Used
  <2> QED BY <1>1, <2>1, <2>4, <2>5, <2>6 DEF StreamInv, ReceivedIsSent, FailsForAReason
<1>4. CASE NextCell = Half1 /\ ~(rpos + 2 <= visible)
  <2>1. rpos' = rpos + 1 /\ phase' = phase /\ cut' = TRUE
    BY <1>4 DEF ReadMarker
  <2>2. Knows(wire, rpos + 1, dictionaries, Len(received))
    <3>1. \A k \in rpos + 1 .. rpos + 1 : ~HasBody(wire[k])
      <4> TAKE k \in rpos + 1 .. rpos + 1
      <4>1. k = rpos + 1
        BY <1>2
      <4> QED BY <1>2, <1>4, <4>1, BareCells
    <3> QED BY <1>1, <1>2, <3>1, KnowsOn
  <2>3. TypeOK'
    BY <1>1, <1>2, <1>4, <2>1 DEF TypeOK, WriterInv, ReadMarker
  <2>4. ReaderIsInPlace'
    <3>0. phase' = "idle"
      BY <1>1, <2>1
    <3>1. wire'[rpos'] = Half1 
      BY <1>1, <1>2, <1>4, <2>1
    <3>2. rpos' >= 4 
      BY <1>1, <1>2, <2>1
    <3> QED BY <2>1, <3>0, <3>1, <3>2, PacketFacts DEF ReaderIsInPlace
  <2>5. ReaderKnows'
    BY <1>1, <2>1, <2>2 DEF ReaderKnows, Used
  <2> QED BY <1>1, <2>1, <2>3, <2>4, <2>5 DEF StreamInv, ReceivedIsSent, FailsForAReason
<1>5. CASE NextCell # Half1
  <2>1. rpos' = visible /\ phase' = "failed" /\ cut' = cut
    BY <1>5 DEF ReadMarker
  <2>2. cut
    BY <1>1, <1>2, <1>5 DEF Follows
  <2>3. TypeOK'
    BY <1>1, <1>2, <2>1 DEF TypeOK, WriterInv
  <2> QED BY <1>1, <2>1, <2>2, <2>3
          DEF StreamInv, ReaderIsInPlace, ReaderKnows, ReceivedIsSent, FailsForAReason
<1> QED BY <1>3, <1>4, <1>5

\* A read that meets the end of what is visible.
LEMMA CutStep ==
  ASSUME StreamInv, ReadCut
  PROVE  StreamInv'
<1>1. /\ WriterInv' /\ phase' = "failed" /\ cut' /\ cut' \in BOOLEAN
      /\ UNCHANGED << wire, sent, visible, rpos, header, dictionaries, received >>
  BY WriterStill DEF ReadCut, wvars, StreamInv
<1> QED BY <1>1
        DEF StreamInv, WriterInv, TypeOK, ReaderIsInPlace, ReaderKnows, ReceivedIsSent,
            FailsForAReason
\* The length of a message, or the zero that ends the stream.
LEMMA LengthStep ==
  ASSUME StreamInv, ReadLength
  PROVE  StreamInv'
<1>1. /\ WriterInv' /\ phase = "length" /\ TypeOK /\ Framed(wire) /\ Available
      /\ UNCHANGED << wire, sent, visible, header, dictionaries, received, cut >>
      /\ Knows(wire, rpos, dictionaries, Len(received)) /\ rpos >= 4 /\ wire[rpos] = Half2
      /\ rpos' = rpos + 1 /\ phase' = IF NextCell = Zero THEN "finished" ELSE "payload"
  BY WriterStill, PacketFacts
     DEF ReadLength, wvars, StreamInv, WriterInv, ReaderIsInPlace, ReaderKnows, Used
<1>2. /\ rpos \in Nat /\ rpos + 1 \in Nat /\ rpos + 1 \in 0 .. visible
      /\ NextCell = wire[rpos + 1] /\ Follows(wire[rpos], NextCell)
  BY <1>1, Places, Reads
<1>3. NextCell \in {Length, Zero}
  BY <1>1, <1>2 DEF Follows
<1>4. Knows(wire, rpos + 1, dictionaries, Len(received))
  <2>1. \A k \in rpos + 1 .. rpos + 1 : ~HasBody(wire[k])
    <3> TAKE k \in rpos + 1 .. rpos + 1
    <3>1. k = rpos + 1
      BY <1>2
    <3> QED BY <1>2, <1>3, <3>1, BareCells
  <2> QED BY <1>1, <1>2, <2>1, KnowsOn
<1>5. TypeOK'
  BY <1>1, <1>2 DEF TypeOK, WriterInv
<1>6. ReaderIsInPlace'
  BY <1>1, <1>2, <1>3, PacketFacts DEF ReaderIsInPlace
<1>7. ReaderKnows'
  BY <1>1, <1>4 DEF ReaderKnows, Used
<1> QED BY <1>1, <1>5, <1>6, <1>7 DEF StreamInv, ReceivedIsSent, FailsForAReason

\* What announces a body, or the schema of a second start.
LEMMA PayloadStep ==
  ASSUME StreamInv, ReadPayload
  PROVE  StreamInv'
<1>1. /\ WriterInv' /\ phase = "payload" /\ TypeOK /\ Framed(wire) /\ Available
      /\ UNCHANGED << wire, sent, visible, dictionaries, received, cut >>
      /\ Knows(wire, rpos, dictionaries, Len(received)) /\ rpos >= 4 /\ wire[rpos] = Length
      /\ rpos' = rpos + 1 /\ header' = NextCell
      /\ phase' = IF NextCell = Schema THEN "failed" ELSE "body"
  BY WriterStill, PacketFacts
     DEF ReadPayload, wvars, StreamInv, WriterInv, ReaderIsInPlace, ReaderKnows, Used
<1>2. /\ rpos \in Nat /\ rpos + 1 \in Nat /\ rpos + 1 \in 0 .. visible
      /\ rpos + 1 \in 1 .. Len(wire) /\ NextCell \in StreamCells
      /\ NextCell = wire[rpos + 1] /\ Follows(wire[rpos], NextCell)
  BY <1>1, Places, Reads
<1>3. TypeOK'
  BY <1>1, <1>2 DEF TypeOK, WriterInv
<1>4. CASE NextCell = Schema
  <2>1. OutOfOrder'
    <3>1. rpos + 1 \in 1 .. Len(wire') /\ wire'[rpos + 1] = Schema /\ rpos + 1 # 4
      BY <1>1, <1>2, <1>4
    <3> QED BY <3>1, PacketFacts DEF OutOfOrder
  <2> QED BY <1>1, <1>3, <1>4, <2>1
          DEF StreamInv, ReaderIsInPlace, ReaderKnows, ReceivedIsSent, FailsForAReason
<1>5. CASE NextCell # Schema
  <2>1. HasBody(NextCell)
    BY <1>1, <1>2, <1>5 DEF Follows
  <2>2. ReaderIsInPlace'
    BY <1>1, <1>2, <1>5, <2>1, PacketFacts DEF ReaderIsInPlace
  <2>3. ReaderKnows'
    BY <1>1, <1>2, <1>5 DEF ReaderKnows, Used
  <2> QED BY <1>1, <1>3, <1>5, <2>2, <2>3 DEF StreamInv, ReceivedIsSent, FailsForAReason
<1> QED BY <1>4, <1>5

\* What a body needs to be read: the reader is at its header.
LEMMA AtHeader ==
  ASSUME StreamInv, phase = "body", Available
  PROVE  /\ WriterInv /\ WriterTypeOK /\ Framed(wire) /\ TypeOK
         /\ rpos \in 1 .. Len(wire) - 1 /\ rpos + 1 \in 0 .. visible /\ rpos >= 4
         /\ wire[rpos] = header /\ header \in StreamCells /\ wire[rpos + 1] = Body
         /\ Knows(wire, rpos - 1, dictionaries, Len(received))
         /\ dictionaries \in Tracker /\ Len(received) \in Nat
<1>1. /\ WriterInv /\ WriterTypeOK /\ Framed(wire) /\ TypeOK /\ dictionaries \in Tracker
      /\ Len(received) \in Nat /\ header \in StreamCells
  BY DEF StreamInv, WriterInv, TypeOK
<1>2. /\ wire[rpos] = header /\ HasBody(header) /\ rpos >= 4
      /\ Knows(wire, rpos - 1, dictionaries, Len(received))
  BY PacketFacts DEF StreamInv, ReaderIsInPlace, ReaderKnows, Used
<1>3. /\ rpos \in Nat /\ rpos + 1 \in 0 .. visible /\ rpos + 1 \in 1 .. Len(wire)
      /\ NextCell = wire[rpos + 1] /\ Follows(wire[rpos], NextCell) /\ Len(wire) \in Nat
  BY <1>1, <1>2, Places, Reads
<1>4. rpos \in 1 .. Len(wire) - 1
  BY <1>2, <1>3
<1> QED BY <1>1, <1>2, <1>3, <1>4 DEF Follows

\* The body of a dictionary.
LEMMA DictionaryBodyStep ==
  ASSUME StreamInv, ReadDictionary
  PROVE  StreamInv'
<1>1. /\ WriterInv' /\ phase = "body" /\ header.kind = "dictionary" /\ Available
      /\ UNCHANGED << wire, sent, visible, header, received, cut >>
      /\ rpos' = rpos + 1 /\ phase' = "idle"
      /\ dictionaries' = [dictionaries EXCEPT ![header.id] = header.value]
  BY WriterStill DEF ReadDictionary, wvars, StreamInv
<1>2. /\ WriterTypeOK /\ Framed(wire) /\ TypeOK
      /\ rpos \in 1 .. Len(wire) - 1 /\ rpos + 1 \in 0 .. visible /\ rpos >= 4
      /\ wire[rpos] = header /\ wire[rpos + 1] = Body
      /\ Knows(wire, rpos - 1, dictionaries, Len(received)) /\ dictionaries \in Tracker
  BY <1>1, AtHeader
<1>3. dictionaries' \in Tracker /\ Knows(wire, rpos + 1, dictionaries', Len(received))
  BY <1>1, <1>2, DictionaryIsKnown
<1>4. TypeOK'
  BY <1>1, <1>2, <1>3 DEF TypeOK, WriterInv
<1>5. ReaderIsInPlace'
  BY <1>1, <1>2, PacketFacts DEF ReaderIsInPlace, EndsMessage
<1>6. ReaderKnows'
  BY <1>1, <1>3 DEF ReaderKnows, Used
<1> QED BY <1>1, <1>4, <1>5, <1>6 DEF StreamInv, ReceivedIsSent, FailsForAReason

\* The body of a record, which yields the next chunk that was sent.
LEMMA RecordBody ==
  ASSUME StreamInv, ReadRecord
  PROVE  /\ Len(received) + 1 \in 1 .. Len(sent)
         /\ received' = Append(received, sent[Len(received) + 1]) /\ phase' = "idle"
         /\ Knows(wire, rpos + 1, dictionaries, Len(received) + 1)
<1>1. /\ phase = "body" /\ header.kind = "record" /\ Available
      /\ IF KnowsAll(dictionaries)
           THEN /\ received' = Append(received, DecodedWith(header.keys, dictionaries))
                /\ phase' = "idle"
           ELSE phase' = "failed" /\ received' = received
  BY DEF ReadRecord
<1>2. /\ WriterInv /\ rpos \in 1 .. Len(wire) - 1 /\ wire[rpos] = header
      /\ Knows(wire, rpos - 1, dictionaries, Len(received)) /\ dictionaries \in Tracker
      /\ Len(received) \in Nat
  BY <1>1, AtHeader
<1>3. /\ KnowsAll(dictionaries) /\ Len(received) + 1 \in 1 .. Len(sent)
      /\ DecodedWith(header.keys, dictionaries) = sent[Len(received) + 1]
      /\ Knows(wire, rpos + 1, dictionaries, Len(received) + 1)
  BY <1>1, <1>2, RecordIsSent
<1> QED BY <1>1, <1>3

LEMMA RecordBodyStep ==
  ASSUME StreamInv, ReadRecord
  PROVE  StreamInv'
<1>1. /\ WriterInv' /\ phase = "body" /\ Available /\ rpos' = rpos + 1
      /\ UNCHANGED << wire, sent, visible, header, dictionaries, cut >>
  BY WriterStill DEF ReadRecord, wvars, StreamInv
<1>2. /\ TypeOK /\ rpos \in 1 .. Len(wire) - 1 /\ rpos + 1 \in 0 .. visible /\ rpos >= 4
      /\ wire[rpos + 1] = Body
  BY <1>1, AtHeader
<1>3. /\ Len(received) + 1 \in 1 .. Len(sent)
      /\ received' = Append(received, sent[Len(received) + 1]) /\ phase' = "idle"
      /\ Knows(wire, rpos + 1, dictionaries, Len(received) + 1)
  BY RecordBody
<1>4. received \in Seq(Chunks) /\ sent \in Seq(Chunks) /\ sent[Len(received) + 1] \in Chunks
  BY <1>2, <1>3 DEF TypeOK, WriterTypeOK
<1>5. /\ received' \in Seq(Chunks) /\ Len(received') = Len(received) + 1
      /\ \A k \in 1 .. Len(received) : received'[k] = received[k]
      /\ received'[Len(received) + 1] = sent[Len(received) + 1]
  BY <1>3, <1>4
<1>6. TypeOK'
  BY <1>1, <1>2, <1>3, <1>5 DEF TypeOK, WriterInv
<1>7. ReaderIsInPlace'
  BY <1>1, <1>2, <1>3, PacketFacts DEF ReaderIsInPlace, EndsMessage
<1>8. ReaderKnows'
  BY <1>1, <1>3, <1>5 DEF ReaderKnows, Used
<1>9. ReceivedIsSent'
  <2>1. \A k \in 1 .. Len(received) + 1 : k \in 1 .. Len(received) \/ k = Len(received) + 1
    BY <1>4
  <2> QED BY <1>1, <1>3, <1>5, <2>1 DEF StreamInv, ReceivedIsSent
<1> QED BY <1>1, <1>3, <1>6, <1>7, <1>8, <1>9 DEF StreamInv, FailsForAReason

\* Chunks arrive as they were sent and the reader fails only for a reason, whatever the
\* columns, dictionaries and chunks, whatever is called in whatever order and wherever it
\* is cut short: StreamInv is inductive.
THEOREM StreamIsSafe ==
  ASSUME UniqueFields
  PROVE  Spec => []StreamInv
<1>1. Init => StreamInv
  BY StreamInit
<1>2. StreamInv /\ [Next]_vars => StreamInv'
  <2>1. ASSUME StreamInv, UNCHANGED vars PROVE StreamInv'
    <3>1. WriterInv'
      BY <2>1, WriterStill DEF StreamInv, vars
    <3> QED BY <2>1, <3>1
            DEF vars, wvars, rvars, StreamInv, WriterInv, TypeOK, ReaderIsInPlace, ReaderKnows,
                Used, ReceivedIsSent, FailsForAReason, OutOfOrder
  <2> QED BY <2>1, StreamWriterStep, DeliverStep, MetadataStep, MarkerStep, LengthStep,
             PayloadStep, DictionaryBodyStep, RecordBodyStep, CutStep DEF Next, Read
<1> QED BY <1>1, <1>2, PTL DEF Spec
-----------------------------------------------------------------------------
(* The channel.                                                             *)

\* The two sides of the channel, as Chan has them.
Closed == \E n \in 1 .. Len(wire) : wire[n] = Zero
Side == CASE phase = "finished" -> "ended" [] phase = "failed" -> "lost" [] OTHER -> "open"

\* The writer sends, closes or does neither.
LEMMA WriterOfChannel ==
  ASSUME UniqueFields, StreamInv, WriterNext, UNCHANGED rvars
  PROVE  [Chan!Next]_(Chan!vars)
<1>1. WriterInv /\ WriterTypeOK /\ WriterTypeOK' /\ Extends(wire, wire')
  BY WriterStep DEF StreamInv, WriterInv
<1>2. received' = received /\ Side' = Side
  BY DEF rvars, Side
<1>3. CASE sent' # sent
  <2>1. ~Closed'
    BY <1>1, <1>3, SentBeforeTheEnd DEF Closed
  <2>2. ~Closed
    BY <1>1, <2>1, EndIsKept DEF Closed
  <2>3. \E c \in Chunks : sent' = Append(sent, c)
    BY <1>1, <1>3, SentStep
  <2>4. Chan!Send
    BY <1>2, <2>1, <2>2, <2>3 DEF Chan!Send, Closed, Side
  <2> QED BY <2>4 DEF Chan!Next
<1>4. CASE sent' = sent
  <2>1. CASE Closed' /\ ~Closed
    <3>1. Chan!Close
      BY <1>2, <1>4, <2>1 DEF Chan!Close, Closed, Side
    <3> QED BY <3>1 DEF Chan!Next
  <2>2. CASE Closed \/ ~Closed'
    <3>1. Closed' = Closed
      BY <1>1, <2>2, EndIsKept DEF Closed
    <3>2. UNCHANGED Chan!vars
      BY <1>2, <1>4, <3>1 DEF Chan!vars, Closed, Side
    <3> QED BY <3>2
  <2> QED BY <2>1, <2>2
<1> QED BY <1>3, <1>4

\* A read yields the next chunk, finds the end, loses the stream or does none of these.
LEMMA ReaderOfChannel ==
  ASSUME StreamInv, StreamInv', Read
  PROVE  [Chan!Next]_(Chan!vars)
<1>1. wire' = wire /\ sent' = sent /\ Closed' = Closed
  BY DEF Read, ReadMetadata, ReadMarker, ReadLength, ReadPayload, ReadDictionary, ReadRecord,
         ReadCut, wvars, Closed
<1>2. phase \notin {"failed", "finished"} /\ Side = "open"
  BY DEF Read, ReadMetadata, ReadMarker, ReadLength, ReadPayload, ReadDictionary, ReadRecord,
         ReadCut, Side
<1>3. CASE ReadRecord
  <2>1. /\ Len(received) + 1 \in 1 .. Len(sent) /\ phase' = "idle"
        /\ received' = Append(received, sent[Len(received) + 1])
    BY <1>3, RecordBody
  <2>2. Len(received) < Len(sent) /\ Side' = Side
    <3>1. Len(received) \in Nat /\ Len(sent) \in Nat
      BY DEF StreamInv, TypeOK, WriterTypeOK
    <3>2. Side' = "open"
      BY <2>1 DEF Side
    <3> QED BY <1>2, <2>1, <3>1, <3>2
  <2>3. Chan!Receive
    BY <1>1, <1>2, <2>1, <2>2 DEF Chan!Receive, Closed, Side
  <2> QED BY <2>3 DEF Chan!Next
<1>4. CASE ~ReadRecord /\ phase' = "failed"
  <2>1. received' = received /\ Side' = "lost"
    BY <1>4 DEF Read, ReadMetadata, ReadMarker, ReadLength, ReadPayload, ReadDictionary, ReadCut,
                Side
  <2>2. Chan!Lose
    BY <1>1, <1>2, <2>1 DEF Chan!Lose, Closed, Side
  <2> QED BY <2>2 DEF Chan!Next
<1>5. CASE ~ReadRecord /\ phase' = "finished"
  <2>1. ReadLength /\ NextCell = Zero /\ received' = received /\ rpos' = rpos + 1
    BY <1>5 DEF Read, ReadMetadata, ReadMarker, ReadLength, ReadPayload, ReadDictionary, ReadCut
  <2>2. rpos' \in 1 .. Len(wire) /\ wire[rpos'] = Zero
    BY <2>1, Reads DEF ReadLength, StreamInv
  <2>3. Knows(wire, rpos', dictionaries', Len(received))
    BY <1>1, <1>5, <2>1 DEF StreamInv, ReaderKnows, Used
  <2>4. Len(received) >= Len(sent)
    BY <2>2, <2>3, AllIsSentAtTheEnd DEF StreamInv
  <2>5. received = sent
    <3>1. received \in Seq(Chunks) /\ sent \in Seq(Chunks)
      BY DEF StreamInv, TypeOK, WriterTypeOK
    <3>2. Len(received) = Len(sent) /\ \A k \in 1 .. Len(received) : received[k] = sent[k]
      BY <2>4, <3>1 DEF StreamInv, ReceivedIsSent
    <3> QED BY <3>1, <3>2
  <2>6. Closed /\ Side' = "ended"
    BY <1>5, <2>2 DEF Closed, Side
  <2>7. Chan!End
    BY <1>1, <1>2, <2>1, <2>5, <2>6 DEF Chan!End, Closed, Side
  <2> QED BY <2>7 DEF Chan!Next
<1>6. CASE ~ReadRecord /\ phase' \notin {"failed", "finished"}
  <2>1. received' = received /\ Side' = "open"
    BY <1>6 DEF Read, ReadMetadata, ReadMarker, ReadLength, ReadPayload, ReadDictionary, ReadCut,
                Side
  <2> QED BY <1>1, <1>2, <2>1 DEF Chan!vars, Closed, Side
<1> QED BY <1>3, <1>4, <1>5, <1>6

\* StreamWriter and StreamReader implement the channel.
THEOREM StreamImplementsChannel ==
  ASSUME UniqueFields
  PROVE  Spec => StreamIsChannel
<1>1. Init => Chan!Init
  BY DEF Init, WriterInit, Chan!Init
<1>2. StreamInv /\ StreamInv' /\ [Next]_vars => [Chan!Next]_(Chan!vars)
  <2>1. ASSUME UNCHANGED vars PROVE UNCHANGED Chan!vars
    BY <2>1 DEF vars, wvars, rvars, Chan!vars
  <2>2. ASSUME Deliver PROVE UNCHANGED Chan!vars
    BY <2>2 DEF Deliver, wvars, Chan!vars
  <2> QED BY <2>1, <2>2, WriterOfChannel, ReaderOfChannel DEF Next
<1>3. Spec => []StreamInv
  BY StreamIsSafe
<1> QED BY <1>1, <1>2, <1>3, PTL DEF Spec, StreamIsChannel, Chan!Spec
\* In particular the reader fails only where it met the end of the bytes inside a message
\* or the writer wrote a second schema or the mark of the end in its place.
THEOREM StreamFailsForAReason ==
  ASSUME UniqueFields
  PROVE  Spec => []FailsForAReason
<1>1. StreamInv => FailsForAReason
  BY DEF StreamInv
<1> QED BY <1>1, StreamIsSafe, PTL
-----------------------------------------------------------------------------
(* AsyncStreamReader: no wake-up is lost.                                   *)

\* The first poll finds nothing to wait for: there is no reader yet.
LEMMA WakeInit == AsyncInit => WakeInv
<1>1. EmptyTracker \in Tracker /\ Schema \in StreamCells
  BY PacketFacts DEF EmptyTracker, Tracker
<1>2. ASSUME AsyncInit PROVE AsyncTypeOK
  <2>1. WriterTypeOK
    BY <1>2, WriterInitStep DEF AsyncInit
  <2>2. Len(wire) = 0 /\ yielded \in Seq(Chunks)
    BY <1>2 DEF AsyncInit, WriterInit
  <2>3. arrived \in 0 .. Len(wire) /\ taken \in 0 .. arrived
    BY <1>2, <2>2 DEF AsyncInit
  <2> QED BY <1>1, <1>2, <2>1, <2>2, <2>3 DEF AsyncInit, AsyncTypeOK, Reading
<1> QED BY <1>2 DEF AsyncInit, WakeInv, NoLostWakeup, Reading

\* The writer's steps are none of the reader's business.
LEMMA WakeWriter ==
  ASSUME WakeInv, WriterNext, UNCHANGED asyncReader
  PROVE  WakeInv'
<1>1. WriterTypeOK' /\ Len(wire) \in Nat /\ Len(wire') \in Nat /\ Len(wire') >= Len(wire)
  BY WriterStep DEF WakeInv, AsyncTypeOK, WriterTypeOK, Extends
<1>2. AsyncTypeOK'
  BY <1>1 DEF asyncReader, WakeInv, AsyncTypeOK
<1> QED BY <1>2 DEF asyncReader, WakeInv, NoLostWakeup, AsyncAvailable

\* Bytes and the end of the transport wake whoever is registered.
LEMMA WakeTransport ==
  ASSUME WakeInv, AsyncDeliver \/ CloseTransport
  PROVE  WakeInv'
<1>1. Len(wire) \in Nat
  BY DEF WakeInv, AsyncTypeOK, WriterTypeOK
<1>2. AsyncTypeOK'
  <2>1. WriterTypeOK' /\ wire' = wire
    BY DEF WakeInv, AsyncTypeOK, WriterTypeOK, wvars, AsyncDeliver, CloseTransport
  <2>2. arrived' \in 0 .. Len(wire') /\ taken' \in 0 .. arrived'
    BY <1>1, <2>1 DEF WakeInv, AsyncTypeOK, AsyncDeliver, CloseTransport
  <2>3. woken' \in BOOLEAN /\ registered' \in BOOLEAN /\ eof' \in BOOLEAN
    BY Zenon DEF WakeInv, AsyncTypeOK, AsyncDeliver, CloseTransport, Wake
  <2> QED BY <2>1, <2>2, <2>3 DEF WakeInv, AsyncTypeOK, AsyncDeliver, CloseTransport
<1>3. NoLostWakeup'
  BY DEF WakeInv, AsyncTypeOK, NoLostWakeup, AsyncDeliver, CloseTransport, Wake
<1> QED BY <1>2, <1>3 DEF WakeInv

\* The cell a read finds is one of the stream's.
LEMMA NextCellType ==
  ASSUME AsyncTypeOK, AsyncAvailable
  PROVE  /\ AsyncNextCell \in StreamCells
         /\ taken + 1 \in 0 .. arrived
BY DEF AsyncTypeOK, WriterTypeOK, AsyncAvailable, AsyncNextCell

\* A future that reads on keeps being polled; one that completes, stops
\* reading or yields a chunk and is polled again; one that cannot read leaves
\* its waker.
LEMMA WakeRun ==
  ASSUME WakeInv, Run
  PROVE  WakeInv'
<1> USE DEF WakeInv
<1>0. WriterTypeOK /\ wvars' = wvars => WriterTypeOK'
  BY DEF WriterTypeOK, wvars
<1>1. CASE AsyncReadMetadata
  <2>1. taken' \in 0 .. arrived /\ wvars' = wvars
    BY <1>1, PacketFacts DEF AsyncReadMetadata, AsyncTypeOK
  <2> QED BY <1>0, <1>1, <2>1 DEF AsyncReadMetadata, AsyncTypeOK, wvars, NoLostWakeup, Reading
<1>2. CASE Poll
  BY <1>0, <1>2 DEF Poll, AsyncTypeOK, wvars, NoLostWakeup, Reading
<1>3. CASE Pending
  BY <1>0, <1>3 DEF Pending, AsyncTypeOK, wvars, NoLostWakeup, AsyncAvailable
<1>4. CASE Eof
  BY <1>0, <1>4 DEF Eof, AsyncTypeOK, wvars, NoLostWakeup, Reading
<1>5. CASE AsyncReadMarker
  BY <1>0, <1>5, NextCellType DEF AsyncReadMarker, AsyncTypeOK, wvars, NoLostWakeup, Reading
<1>6. CASE AsyncReadLength
  BY <1>0, <1>6, NextCellType DEF AsyncReadLength, AsyncTypeOK, wvars, NoLostWakeup, Reading
<1>7. CASE AsyncReadPayload
  BY <1>0, <1>7, NextCellType DEF AsyncReadPayload, AsyncTypeOK, wvars, NoLostWakeup, Reading
<1>8. CASE AsyncReadDictionary
  <2>1. message.id \in Ids /\ message.value \in Values
    BY <1>8, StreamCellFacts DEF AsyncReadDictionary, AsyncTypeOK
  <2>2. known' \in Tracker
    BY <1>8, <2>1 DEF AsyncReadDictionary, AsyncTypeOK, Tracker
  <2> QED BY <1>0, <1>8, <2>2, NextCellType
          DEF AsyncReadDictionary, AsyncTypeOK, wvars, NoLostWakeup, Reading
<1>9. CASE AsyncReadRecord
  <2>1. message.keys \in Keys
    BY <1>9, StreamCellFacts DEF AsyncReadRecord, AsyncTypeOK
  <2>2. yielded' \in Seq(Chunks)
    BY <1>9, <2>1, DecodedType DEF AsyncReadRecord, AsyncTypeOK
  <2> QED BY <1>0, <1>9, <2>2, NextCellType
          DEF AsyncReadRecord, AsyncTypeOK, wvars, NoLostWakeup, Reading
<1> QED BY <1>1, <1>2, <1>3, <1>4, <1>5, <1>6, <1>7, <1>8, <1>9 DEF Run, AsyncReadBody

\* As long as the future of AsyncStreamReader reads, it is being polled, is
\* about to be, or its waker is registered where the next byte or the end of
\* the transport will find it.
THEOREM NoWakeupIsLost == AsyncSpec => []WakeInv
<1>1. AsyncInit => WakeInv
  BY WakeInit
<1>2. WakeInv /\ [AsyncNext]_asyncVars => WakeInv'
  <2>1. ASSUME WakeInv, UNCHANGED asyncVars PROVE WakeInv'
    BY <2>1 DEF asyncVars, wvars, asyncReader, WakeInv, AsyncTypeOK, WriterTypeOK,
                NoLostWakeup, AsyncAvailable
  <2> QED BY <2>1, WakeWriter, WakeTransport, WakeRun DEF AsyncNext
<1> QED BY <1>1, <1>2, PTL DEF AsyncSpec
-----------------------------------------------------------------------------
(* AsyncStreamReader: what is yielded is what was sent.                     *)

\* A cell that is there to be read, and the one in front of it.
LEMMA AsyncReads ==
  ASSUME AsyncStreamInv, future \in Reading, AsyncAvailable
  PROVE  /\ AsyncNextCell = wire[taken + 1] /\ AsyncNextCell \in StreamCells
         /\ taken \in Nat /\ taken >= 4
         /\ taken + 1 \in Nat /\ taken + 1 \in 1 .. Len(wire) /\ taken \in 1 .. Len(wire) - 1
         /\ Follows(wire[taken], AsyncNextCell)
<1>1. /\ wire \in Seq(StreamCells) /\ Len(wire) \in Nat /\ arrived \in 0 .. Len(wire)
      /\ taken \in 0 .. arrived /\ taken < arrived /\ taken >= 4
  BY PacketFacts DEF AsyncStreamInv, AsyncTypeOK, WriterTypeOK, AsyncReaderIsInPlace,
                     AsyncAvailable
<1>2. /\ taken \in Nat /\ taken + 1 \in Nat /\ taken + 1 \in 1 .. Len(wire)
      /\ taken \in 1 .. Len(wire) - 1
  BY <1>1
<1> QED BY <1>1, <1>2 DEF AsyncNextCell, Framed, AsyncStreamInv, WriterInv

\* Nothing is written, and nothing read.
LEMMA AsyncStreamInit == AsyncInit => AsyncStreamInv
<1> SUFFICES ASSUME AsyncInit PROVE AsyncStreamInv
  OBVIOUS
<1>1. WriterInv /\ AsyncTypeOK
  BY WriterInvInit, WakeInit DEF AsyncInit, WakeInv
<1>2. Len(yielded) = 0 /\ Len(sent) = 0
  BY DEF AsyncInit, WriterInit
<1>3. AsyncReaderIsInPlace /\ YieldedIsSent
  BY <1>2 DEF AsyncInit, AsyncReaderIsInPlace, YieldedIsSent, Reading
<1>4. AsyncReaderKnows
  <2>1. \A d \in Ids : known[d] = NoDict
    BY DEF AsyncInit, EmptyTracker
  <2> QED BY <1>2, <2>1, NothingSaid DEF AsyncInit, AsyncReaderKnows, Knows, AsyncUsed
<1> QED BY <1>1, <1>3, <1>4 DEF AsyncStreamInv

\* The writer goes on behind what the reader has read.
LEMMA AsyncStreamWriterStep ==
  ASSUME UniqueFields, AsyncStreamInv, AsyncTypeOK', WriterNext, UNCHANGED asyncReader
  PROVE  AsyncStreamInv'
<1>1. /\ AsyncTypeOK /\ WriterTypeOK /\ WriterInv /\ WriterInv' /\ WriterTypeOK'
      /\ Extends(wire, wire')
      /\ UNCHANGED << arrived, taken, future, polling, message, known, yielded >>
  BY WriterStep, WriterInvStep DEF AsyncStreamInv, WriterInv, asyncReader
<1>2. /\ Len(wire) \in Nat /\ Len(wire') \in Nat /\ Len(wire) <= Len(wire')
      /\ taken \in Nat /\ taken <= Len(wire) /\ wire \in Seq(StreamCells)
      /\ \A n \in 1 .. Len(wire) : wire'[n] = wire[n]
  BY <1>1 DEF Extends, WriterTypeOK, AsyncTypeOK
<1>3. future \in Reading => taken >= 4
  BY PacketFacts DEF AsyncStreamInv, AsyncReaderIsInPlace
<1>4. AsyncReaderIsInPlace'
  <2>1. taken >= 1 => wire'[taken] = wire[taken]
    BY <1>2
  <2> QED BY <1>1, <1>2, <1>3, <2>1 DEF AsyncStreamInv, AsyncReaderIsInPlace, Reading
<1>5. AsyncReaderKnows'
  <2>1. AsyncUsed' = AsyncUsed
    BY <1>1 DEF AsyncUsed
  <2>2. AsyncUsed \in 0 .. Len(wire)
    BY <1>2, <1>3 DEF AsyncUsed, Reading
  <2>3. future # "failed" => Knows(wire', AsyncUsed, known, Len(yielded))
    BY <1>1, <1>2, <2>2, KnowsKept DEF AsyncStreamInv, AsyncReaderKnows
  <2> QED BY <1>1, <2>1, <2>3 DEF AsyncReaderKnows
<1>6. YieldedIsSent'
  <2>1. Len(sent) \in Nat /\ Len(sent') \in Nat /\ Len(yielded) \in Nat
    BY <1>1 DEF WriterTypeOK, AsyncTypeOK
  <2>2. Len(sent) <= Len(sent') /\ \A k \in 1 .. Len(sent) : sent'[k] = sent[k]
    BY <1>1, <2>1, SentStep
  <2> QED BY <1>1, <2>1, <2>2 DEF AsyncStreamInv, YieldedIsSent
<1> QED BY <1>1, <1>4, <1>5, <1>6 DEF AsyncStreamInv

\* The schema, or no schema in its place.
LEMMA AsyncMetadataStep ==
  ASSUME AsyncStreamInv, AsyncTypeOK', AsyncReadMetadata
  PROVE  AsyncStreamInv'
<1>1. /\ WriterInv' /\ future = "metadata" /\ taken = 0 /\ AsyncTypeOK /\ WriterTypeOK
      /\ Framed(wire)
      /\ ~polling /\ UNCHANGED << wire, sent, arrived, polling, message, known, yielded >>
      /\ Knows(wire, 0, known, Len(yielded))
  BY WriterStill
     DEF AsyncReadMetadata, wvars, AsyncStreamInv, WriterInv, AsyncReaderIsInPlace,
         AsyncReaderKnows, AsyncUsed, Reading
<1>2. Len(wire) \in Nat /\ arrived \in Nat /\ arrived <= Len(wire)
  BY <1>1 DEF AsyncTypeOK, WriterTypeOK
<1>3. CASE future' = "failed"
  BY <1>1, <1>3 DEF AsyncStreamInv, AsyncReaderIsInPlace, AsyncReaderKnows, YieldedIsSent,
                    Reading
<1>4. CASE future' # "failed"
  <2>1. arrived >= 4 /\ wire[4] = Schema /\ taken' = 4 /\ future' = "marker"
    BY <1>4, PacketFacts DEF AsyncReadMetadata
  <2>2. Knows(wire, 4, known, Len(yielded))
    <3>1. \A k \in 0 + 1 .. 4 : ~HasBody(wire[k])
      BY <1>1, <1>2, <2>1, FirstMessage
    <3> QED BY <1>1, <3>1, KnowsOn
  <2>3. AsyncReaderIsInPlace'
    BY <1>1, <2>1, PacketFacts DEF AsyncReaderIsInPlace, EndsMessage
  <2> QED BY <1>1, <2>1, <2>2, <2>3
        DEF AsyncStreamInv, AsyncReaderKnows, AsyncUsed, YieldedIsSent
<1> QED BY <1>3, <1>4

\* The steps that read nothing.
LEMMA IdleStep ==
  ASSUME AsyncStreamInv, AsyncTypeOK', AsyncDeliver \/ CloseTransport \/ Poll \/ Pending
                                       \/ Eof \/ UNCHANGED asyncVars
  PROVE  AsyncStreamInv'
<1>1. /\ WriterInv'
      /\ UNCHANGED << wire, sent, taken, message, known, yielded >>
      /\ \/ future' = future
         \/ future \in {"marker", "half"} /\ future' = "waiting"
         \/ future' = "failed"
      /\ polling' => future' = future /\ future \in Reading
  BY WriterStill
     DEF AsyncDeliver, CloseTransport, Poll, Pending, Eof, asyncVars, wvars, asyncReader,
         AsyncStreamInv,
         AsyncReaderIsInPlace, Reading
<1> QED BY <1>1
        DEF AsyncStreamInv, AsyncReaderIsInPlace, AsyncReaderKnows, AsyncUsed, YieldedIsSent,
            Reading

\* A cell that announces no body, between the schema and a body.
LEMMA BareStep ==
  ASSUME AsyncStreamInv, AsyncTypeOK', AsyncReadMarker \/ AsyncReadLength
  PROVE  AsyncStreamInv'
<1>1. /\ WriterInv' /\ future \in {"marker", "half", "length"} /\ AsyncAvailable
      /\ UNCHANGED << wire, sent, message, known, yielded >>
      /\ Knows(wire, taken, known, Len(yielded)) /\ taken' = taken + 1
  BY WriterStill
     DEF AsyncReadMarker, AsyncReadLength, wvars, AsyncStreamInv, AsyncReaderKnows, AsyncUsed
<1>2. /\ taken \in Nat /\ taken >= 4 /\ taken + 1 \in Nat
      /\ AsyncNextCell = wire[taken + 1] /\ Follows(wire[taken], AsyncNextCell)
  BY <1>1, AsyncReads DEF Reading
<1>3. \/ future = "marker" /\ future' = "half" /\ AsyncNextCell = Half1
      \/ future = "half" /\ future' = "length" /\ AsyncNextCell = Half2
      \/ future = "length" /\ future' = "ended" /\ AsyncNextCell = Zero
      \/ future = "length" /\ future' = "payload" /\ AsyncNextCell = Length
  BY <1>1, <1>2 DEF AsyncReadMarker, AsyncReadLength, AsyncStreamInv, AsyncReaderIsInPlace,
                    Follows
<1>4. Knows(wire, taken + 1, known, Len(yielded))
  <2>1. \A k \in taken + 1 .. taken + 1 : ~HasBody(wire[k])
    <3> TAKE k \in taken + 1 .. taken + 1
    <3>1. k = taken + 1
      BY <1>2
    <3> QED BY <1>2, <1>3, <3>1, BareCells
  <2> QED BY <1>1, <1>2, <2>1, KnowsOn
<1>5. AsyncReaderIsInPlace'
  <2>1. polling' => future' \in {"half", "length", "payload"}
    BY <1>1, <1>3 DEF AsyncReadMarker, AsyncReadLength
  <2> QED BY <1>1, <1>2, <1>3, <2>1, PacketFacts DEF AsyncReaderIsInPlace, Reading
<1>6. AsyncReaderKnows'
  BY <1>1, <1>3, <1>4 DEF AsyncReaderKnows, AsyncUsed
<1> QED BY <1>1, <1>5, <1>6 DEF AsyncStreamInv, YieldedIsSent

\* What announces a body, or the schema of a second start.
LEMMA AsyncPayloadStep ==
  ASSUME AsyncStreamInv, AsyncTypeOK', AsyncReadPayload
  PROVE  AsyncStreamInv'
<1>1. /\ WriterInv' /\ future = "payload" /\ AsyncAvailable
      /\ UNCHANGED << wire, sent, known, yielded >>
      /\ Knows(wire, taken, known, Len(yielded)) /\ wire[taken] = Length
      /\ taken' = taken + 1 /\ message' = AsyncNextCell
      /\ future' = IF AsyncNextCell = Schema THEN "failed" ELSE "body"
      /\ polling' = (AsyncNextCell # Schema)
  BY WriterStill
     DEF AsyncReadPayload, wvars, AsyncStreamInv, AsyncReaderIsInPlace, AsyncReaderKnows,
         AsyncUsed
<1>2. /\ taken \in Nat /\ taken >= 4 /\ taken + 1 \in Nat
      /\ AsyncNextCell = wire[taken + 1] /\ Follows(wire[taken], AsyncNextCell)
  BY <1>1, AsyncReads DEF Reading
<1>3. CASE AsyncNextCell = Schema
  BY <1>1, <1>3 DEF AsyncStreamInv, AsyncReaderIsInPlace, AsyncReaderKnows, YieldedIsSent,
                    Reading
<1>4. CASE AsyncNextCell # Schema
  <2>1. HasBody(AsyncNextCell)
    BY <1>1, <1>2, <1>4 DEF Follows
  <2>2. AsyncReaderIsInPlace'
    BY <1>1, <1>2, <1>4, <2>1, PacketFacts DEF AsyncReaderIsInPlace, Reading
  <2>3. AsyncReaderKnows'
    BY <1>1, <1>2, <1>4 DEF AsyncReaderKnows, AsyncUsed
  <2> QED BY <1>1, <2>2, <2>3 DEF AsyncStreamInv, YieldedIsSent
<1> QED BY <1>3, <1>4

\* What a body needs to be read: the reader is at its header.
LEMMA AsyncAtHeader ==
  ASSUME AsyncStreamInv, future = "body", AsyncAvailable
  PROVE  /\ WriterInv /\ WriterTypeOK /\ Framed(wire)
         /\ taken \in 1 .. Len(wire) - 1 /\ taken >= 4
         /\ wire[taken] = message /\ wire[taken + 1] = Body
         /\ Knows(wire, taken - 1, known, Len(yielded))
         /\ known \in Tracker /\ Len(yielded) \in Nat
<1>1. /\ WriterInv /\ WriterTypeOK /\ Framed(wire) /\ known \in Tracker
      /\ Len(yielded) \in Nat
  BY DEF AsyncStreamInv, WriterInv, AsyncTypeOK
<1>2. /\ wire[taken] = message /\ HasBody(message)
      /\ Knows(wire, taken - 1, known, Len(yielded))
  BY DEF AsyncStreamInv, AsyncReaderIsInPlace, AsyncReaderKnows, AsyncUsed
<1>3. /\ taken \in 1 .. Len(wire) - 1 /\ taken >= 4
      /\ AsyncNextCell = wire[taken + 1] /\ Follows(wire[taken], AsyncNextCell)
  BY AsyncReads DEF Reading
<1> QED BY <1>1, <1>2, <1>3 DEF Follows

\* The body of a dictionary.
LEMMA AsyncDictionaryBodyStep ==
  ASSUME AsyncStreamInv, AsyncTypeOK', AsyncReadDictionary
  PROVE  AsyncStreamInv'
<1>1. /\ WriterInv' /\ future = "body" /\ message.kind = "dictionary" /\ AsyncAvailable
      /\ UNCHANGED << wire, sent, message, yielded >>
      /\ taken' = taken + 1 /\ future' = "waiting" /\ ~polling'
      /\ known' = [known EXCEPT ![message.id] = message.value]
  BY WriterStill DEF AsyncReadDictionary, wvars, AsyncStreamInv
<1>2. /\ WriterTypeOK /\ Framed(wire) /\ taken \in 1 .. Len(wire) - 1 /\ wire[taken] = message
      /\ Knows(wire, taken - 1, known, Len(yielded)) /\ known \in Tracker
  BY <1>1, AsyncAtHeader
<1>3. Knows(wire, taken + 1, known', Len(yielded))
  BY <1>1, <1>2, DictionaryIsKnown
<1> QED BY <1>1, <1>3
        DEF AsyncStreamInv, AsyncReaderIsInPlace, AsyncReaderKnows, AsyncUsed, YieldedIsSent,
            Reading

\* The body of a record, which yields the next chunk that was sent.
LEMMA AsyncRecordBody ==
  ASSUME AsyncStreamInv, AsyncReadRecord
  PROVE  /\ Len(yielded) + 1 \in 1 .. Len(sent)
         /\ yielded' = Append(yielded, sent[Len(yielded) + 1]) /\ future' = "marker"
         /\ Knows(wire, taken + 1, known, Len(yielded) + 1)
<1>1. /\ future = "body" /\ message.kind = "record" /\ AsyncAvailable
      /\ IF KnowsAll(known)
           THEN /\ yielded' = Append(yielded, DecodedWith(message.keys, known))
                /\ future' = "marker"
           ELSE future' = "failed" /\ yielded' = yielded
  BY DEF AsyncReadRecord
<1>2. /\ WriterInv /\ taken \in 1 .. Len(wire) - 1 /\ wire[taken] = message
      /\ Knows(wire, taken - 1, known, Len(yielded)) /\ known \in Tracker
      /\ Len(yielded) \in Nat
  BY <1>1, AsyncAtHeader
<1>3. /\ KnowsAll(known) /\ Len(yielded) + 1 \in 1 .. Len(sent)
      /\ DecodedWith(message.keys, known) = sent[Len(yielded) + 1]
      /\ Knows(wire, taken + 1, known, Len(yielded) + 1)
  BY <1>1, <1>2, RecordIsSent
<1> QED BY <1>1, <1>3

LEMMA AsyncRecordBodyStep ==
  ASSUME AsyncStreamInv, AsyncTypeOK', AsyncReadRecord
  PROVE  AsyncStreamInv'
<1>1. /\ WriterInv' /\ future = "body" /\ AsyncAvailable /\ taken' = taken + 1 /\ ~polling'
      /\ UNCHANGED << wire, sent, message, known >>
  BY WriterStill DEF AsyncReadRecord, wvars, AsyncStreamInv
<1>2. taken \in 1 .. Len(wire) - 1 /\ taken >= 4 /\ wire[taken + 1] = Body
  BY <1>1, AsyncAtHeader
<1>3. /\ Len(yielded) + 1 \in 1 .. Len(sent)
      /\ yielded' = Append(yielded, sent[Len(yielded) + 1]) /\ future' = "marker"
      /\ Knows(wire, taken + 1, known, Len(yielded) + 1)
  BY AsyncRecordBody
<1>4. yielded \in Seq(Chunks) /\ sent \in Seq(Chunks)
  BY DEF AsyncStreamInv, AsyncTypeOK, WriterTypeOK
<1>5. /\ Len(yielded') = Len(yielded) + 1
      /\ \A k \in 1 .. Len(yielded) : yielded'[k] = yielded[k]
      /\ yielded'[Len(yielded) + 1] = sent[Len(yielded) + 1]
  BY <1>3, <1>4
<1>6. AsyncReaderIsInPlace'
  BY <1>1, <1>2, <1>3, PacketFacts DEF AsyncReaderIsInPlace, EndsMessage
<1>7. AsyncReaderKnows'
  BY <1>1, <1>3, <1>5 DEF AsyncReaderKnows, AsyncUsed
<1>8. YieldedIsSent'
  <2>1. \A k \in 1 .. Len(yielded) + 1 : k \in 1 .. Len(yielded) \/ k = Len(yielded) + 1
    BY <1>4
  <2> QED BY <1>1, <1>3, <1>5, <2>1 DEF AsyncStreamInv, YieldedIsSent
<1> QED BY <1>1, <1>6, <1>7, <1>8 DEF AsyncStreamInv

\* The chunks yielded are the first of those sent, whatever the columns, dictionaries and
\* chunks and whatever is called in whatever order: AsyncStreamInv is inductive.
THEOREM AsyncStreamIsSafe ==
  ASSUME UniqueFields
  PROVE  AsyncSpec => []AsyncStreamInv
<1>1. AsyncInit => AsyncStreamInv
  BY AsyncStreamInit
<1>2. AsyncStreamInv /\ AsyncTypeOK' /\ [AsyncNext]_asyncVars => AsyncStreamInv'
  BY IdleStep, AsyncStreamWriterStep, AsyncMetadataStep, BareStep, AsyncPayloadStep,
     AsyncDictionaryBodyStep,
     AsyncRecordBodyStep DEF AsyncNext, Run, AsyncReadBody
<1>3. AsyncSpec => []WakeInv
  BY NoWakeupIsLost
<1>4. WakeInv => AsyncTypeOK
  BY DEF WakeInv
<1> QED BY <1>1, <1>2, <1>3, <1>4, PTL DEF AsyncSpec
-----------------------------------------------------------------------------
(* AsyncStreamReader: the channel.                                          *)

\* The two sides of the channel, as AsyncChan has them.
AsyncClosed == \E n \in 1 .. Len(wire) : wire[n] = Zero
AsyncSide == CASE future = "ended" -> "ended" [] future = "failed" -> "lost" [] OTHER -> "open"

\* The writer sends, closes or does neither.
LEMMA AsyncWriterOfChannel ==
  ASSUME UniqueFields, AsyncStreamInv, WriterNext, UNCHANGED asyncReader
  PROVE  [AsyncChan!Next]_(AsyncChan!vars)
<1>1. WriterInv /\ WriterTypeOK /\ WriterTypeOK' /\ Extends(wire, wire')
  BY WriterStep DEF AsyncStreamInv, WriterInv
<1>2. yielded' = yielded /\ AsyncSide' = AsyncSide
  BY DEF asyncReader, AsyncSide
<1>3. CASE sent' # sent
  <2>1. ~AsyncClosed'
    BY <1>1, <1>3, SentBeforeTheEnd DEF AsyncClosed
  <2>2. ~AsyncClosed
    BY <1>1, <2>1, EndIsKept DEF AsyncClosed
  <2>3. \E c \in Chunks : sent' = Append(sent, c)
    BY <1>1, <1>3, SentStep
  <2>4. AsyncChan!Send
    BY <1>2, <2>1, <2>2, <2>3 DEF AsyncChan!Send, AsyncClosed, AsyncSide
  <2> QED BY <2>4 DEF AsyncChan!Next
<1>4. CASE sent' = sent
  <2>1. CASE AsyncClosed' /\ ~AsyncClosed
    <3>1. AsyncChan!Close
      BY <1>2, <1>4, <2>1 DEF AsyncChan!Close, AsyncClosed, AsyncSide
    <3> QED BY <3>1 DEF AsyncChan!Next
  <2>2. CASE AsyncClosed \/ ~AsyncClosed'
    <3>1. AsyncClosed' = AsyncClosed
      BY <1>1, <2>2, EndIsKept DEF AsyncClosed
    <3>2. UNCHANGED AsyncChan!vars
      BY <1>2, <1>4, <3>1 DEF AsyncChan!vars, AsyncClosed, AsyncSide
    <3> QED BY <3>2
  <2> QED BY <2>1, <2>2
<1> QED BY <1>3, <1>4

\* A chunk is yielded.
LEMMA RecordOfChannel ==
  ASSUME AsyncStreamInv, AsyncReadRecord
  PROVE  AsyncChan!Receive
<1>1. wire' = wire /\ sent' = sent /\ AsyncClosed' = AsyncClosed /\ future = "body"
  BY DEF AsyncReadRecord, wvars, AsyncClosed
<1>2. /\ Len(yielded) + 1 \in 1 .. Len(sent) /\ future' = "marker"
      /\ yielded' = Append(yielded, sent[Len(yielded) + 1])
  BY AsyncRecordBody
<1>3. AsyncSide = "open" /\ AsyncSide' = "open"
  BY <1>1, <1>2 DEF AsyncSide
<1>4. Len(yielded) < Len(sent)
  <2>1. Len(yielded) \in Nat /\ Len(sent) \in Nat
    BY DEF AsyncStreamInv, AsyncTypeOK, WriterTypeOK
  <2> QED BY <1>2, <2>1
<1> QED BY <1>1, <1>2, <1>3, <1>4 DEF AsyncChan!Receive, AsyncClosed, AsyncSide

\* The stream ends where the writer has ended it.
LEMMA EndOfChannel ==
  ASSUME AsyncStreamInv, AsyncStreamInv', AsyncReadLength, AsyncNextCell = Zero
  PROVE  AsyncChan!End
<1>1. /\ wire' = wire /\ sent' = sent /\ yielded' = yielded /\ AsyncClosed' = AsyncClosed
      /\ future = "length" /\ future' = "ended" /\ taken' = taken + 1 /\ AsyncAvailable
  BY DEF AsyncReadLength, wvars, AsyncClosed
<1>2. taken' \in 1 .. Len(wire) /\ wire[taken'] = Zero
  BY <1>1, AsyncReads DEF Reading
<1>3. Knows(wire, taken', known', Len(yielded))
  BY <1>1 DEF AsyncStreamInv, AsyncReaderKnows, AsyncUsed
<1>4. Len(yielded) >= Len(sent)
  BY <1>2, <1>3, AllIsSentAtTheEnd DEF AsyncStreamInv
<1>5. yielded = sent
  <2>1. yielded \in Seq(Chunks) /\ sent \in Seq(Chunks)
    BY DEF AsyncStreamInv, AsyncTypeOK, WriterTypeOK
  <2>2. Len(yielded) = Len(sent) /\ \A k \in 1 .. Len(yielded) : yielded[k] = sent[k]
    BY <1>4, <2>1 DEF AsyncStreamInv, YieldedIsSent
  <2> QED BY <2>1, <2>2
<1>6. AsyncClosed /\ AsyncSide = "open" /\ AsyncSide' = "ended"
  BY <1>1, <1>2 DEF AsyncClosed, AsyncSide
<1> QED BY <1>1, <1>5, <1>6 DEF AsyncChan!End, AsyncClosed, AsyncSide

\* The other steps lose the stream or leave the channel as it is.
LEMMA OthersOfChannel ==
  ASSUME AsyncStreamInv,
         \/ AsyncDeliver \/ CloseTransport \/ AsyncReadMetadata \/ Poll \/ Pending \/ Eof
         \/ AsyncReadMarker \/ AsyncReadPayload \/ AsyncReadDictionary
         \/ AsyncReadLength /\ AsyncNextCell # Zero
         \/ UNCHANGED asyncVars
  PROVE  [AsyncChan!Next]_(AsyncChan!vars)
<1>1. wire' = wire /\ sent' = sent /\ yielded' = yielded /\ AsyncClosed' = AsyncClosed
  BY DEF AsyncDeliver, CloseTransport, AsyncReadMetadata, Poll, Pending, Eof,
         AsyncReadMarker, AsyncReadPayload,
         AsyncReadDictionary, AsyncReadLength, asyncVars, wvars, asyncReader, AsyncClosed
<1>2. \/ future' = future
      \/ future \notin {"ended", "failed"} /\ future' # "ended"
  BY DEF AsyncDeliver, CloseTransport, AsyncReadMetadata, Poll, Pending, Eof,
         AsyncReadMarker, AsyncReadPayload,
         AsyncReadDictionary, AsyncReadLength, asyncVars, asyncReader, AsyncStreamInv,
         AsyncReaderIsInPlace, Reading
<1>3. CASE future' = future \/ future' # "failed"
  <2>1. AsyncSide' = AsyncSide
    BY <1>2, <1>3 DEF AsyncSide
  <2> QED BY <1>1, <2>1 DEF AsyncChan!vars, AsyncClosed, AsyncSide
<1>4. CASE future' # future /\ future' = "failed"
  <2>1. AsyncSide = "open" /\ AsyncSide' = "lost"
    BY <1>2, <1>4 DEF AsyncSide
  <2>2. AsyncChan!Lose
    BY <1>1, <2>1 DEF AsyncChan!Lose, AsyncClosed, AsyncSide
  <2> QED BY <2>2 DEF AsyncChan!Next
<1> QED BY <1>3, <1>4

\* StreamWriter and AsyncStreamReader implement the channel.
THEOREM AsyncStreamImplementsChannel ==
  ASSUME UniqueFields
  PROVE  AsyncSpec => AsyncStreamIsChannel
<1>1. AsyncInit => AsyncChan!Init
  BY DEF AsyncInit, WriterInit, AsyncChan!Init
<1>2. AsyncStreamInv /\ AsyncStreamInv'
                     /\ [AsyncNext]_asyncVars => [AsyncChan!Next]_(AsyncChan!vars)
  <2> SUFFICES ASSUME AsyncStreamInv, AsyncStreamInv', [AsyncNext]_asyncVars
               PROVE [AsyncChan!Next]_(AsyncChan!vars)
    OBVIOUS
  <2>1. CASE WriterNext /\ UNCHANGED asyncReader
    BY <2>1, AsyncWriterOfChannel
  <2>2. CASE AsyncReadRecord
    BY <2>2, RecordOfChannel DEF AsyncChan!Next
  <2>3. CASE AsyncReadLength /\ AsyncNextCell = Zero
    BY <2>3, EndOfChannel DEF AsyncChan!Next
  <2>4. CASE \/ AsyncDeliver \/ CloseTransport \/ AsyncReadMetadata \/ Poll \/ Pending \/ Eof
             \/ AsyncReadMarker \/ AsyncReadPayload \/ AsyncReadDictionary
             \/ AsyncReadLength /\ AsyncNextCell # Zero
             \/ UNCHANGED asyncVars
    BY <2>4, OthersOfChannel
  <2> QED BY <2>1, <2>2, <2>3, <2>4 DEF AsyncNext, Run, AsyncReadBody
<1>3. AsyncSpec => []AsyncStreamInv
  BY AsyncStreamIsSafe
<1> QED BY <1>1, <1>2, <1>3, PTL DEF AsyncSpec, AsyncStreamIsChannel, AsyncChan!Spec
=============================================================================

--------------------------- MODULE IpcEncodingProofs ---------------------------
(***************************************************************************)
(* What encode_chunk tracks and emits, for every writer of IPC.            *)
(***************************************************************************)
EXTENDS IpcEncoding, FiniteSetTheorems, TLAPS, WellFoundedInduction

-----------------------------------------------------------------------------
(* The tracker.                                                             *)

\* Greatest finds the greatest of some columns or blocks.
LEMMA GreatestOfSome ==
  ASSUME NEW n \in Nat, NEW S, S \subseteq 1 .. n, S # {}
  PROVE  Greatest(S) \in S /\ \A i \in S : i <= Greatest(S)
<1> DEFINE T == {n - i : i \in S}
           R == {pair \in Nat \X Nat : pair[1] < pair[2]}
<1>1. n \in Nat /\ \A i \in S : i \in 1 .. n
  OBVIOUS
<1>2. T \subseteq Nat /\ T # {}
  <2>1. \A i \in S : n - i \in Nat
    BY <1>1
  <2> QED BY <2>1
<1>3. IsWellFoundedOn(R, Nat)
  BY NatLessThanWellFounded, Zenon DEF OpToRel
<1> HIDE DEF R
<1>4. PICK x \in T : \A y \in T : ~ (<< y, x >> \in R)
  <2> HIDE DEF T
  <2> QED BY <1>2, <1>3, WFMin
<1>5. \A y \in T : x <= y
  <2> TAKE y \in T
  <2>1. x \in Nat /\ y \in Nat
    BY <1>2
  <2>2. ~ (y < x)
    BY <1>4, <2>1 DEF R
  <2> QED BY <2>1, <2>2
<1>6. PICK m \in S : x = n - m
  OBVIOUS
<1>7. \A i \in S : i <= m
  <2> TAKE i \in S
  <2>1. n - i \in T
    OBVIOUS
  <2>2. n - m <= n - i
    BY <1>5, <1>6, <2>1
  <2>3. i \in Nat /\ m \in Nat
    BY <1>1
  <2> HIDE DEF T
  <2> QED BY <2>2, <2>3, <1>1
<1> QED BY <1>7 DEF Greatest

\* Dictionaries recorded in a tracker leave a tracker of dictionaries.
LEMMA RecordedType ==
  ASSUME NEW t \in Tracker, NEW c \in Chunks, NEW S, S \subseteq Columns
  PROVE  Recorded(t, c.dicts, S) \in Tracker
<1> DEFINE done(d) == {i \in S : Fields[i] = d}
<1>1. c.dicts \in [Columns -> Values]
  BY DEF Chunks
<1>2. ASSUME NEW d \in Ids, done(d) # {} PROVE c.dicts[Greatest(done(d))] \in Values
  <2>1. done(d) \subseteq Columns
    OBVIOUS
  <2> HIDE DEF done
  <2>2. Greatest(done(d)) \in Columns
    BY <1>2, <2>1, GreatestOfSome, FieldsAssumption DEF Columns
  <2> QED BY <1>1, <2>2
<1>3. ASSUME NEW d \in Ids PROVE t[d] \in Values \cup {NoDict}
  BY DEF Tracker
<1>4. Recorded(t, c.dicts, S) =
        [d \in Ids |-> IF done(d) = {} THEN t[d] ELSE c.dicts[Greatest(done(d))]]
  BY DEF Recorded
<1> HIDE DEF done
<1> QED BY <1>2, <1>3, <1>4 DEF Tracker

\* So does encode_chunk.
LEMMA TrackedType ==
  ASSUME NEW t \in Tracker, NEW c \in Chunks, NEW b \in BOOLEAN
  PROVE  Tracked(t, c.dicts, b) \in Tracker
<1>1. Inserted(t, c.dicts, b) \subseteq Columns
  BY DEF Inserted
<1> QED BY <1>1, RecordedType DEF Tracked
-----------------------------------------------------------------------------
(* Distinct ids: what encode_chunk leaves in the tracker.                   *)

\* The tracker is looked up before this chunk touches the id.
LEMMA SeenOnce ==
  ASSUME UniqueFields, NEW t, NEW ds, NEW i \in Columns
  PROVE  Seen(t, ds, i) = t[Fields[i]]
<1>1. {j \in 1 .. i - 1 : Fields[j] = Fields[i]} = {}
  BY FieldsAssumption DEF UniqueFields, Columns
<1> QED BY <1>1 DEF Seen

\* The tracker ends up with the dictionary of every column that was recorded, and is as it was
\* for every other id.
LEMMA RecordedOnce ==
  ASSUME UniqueFields, NEW t \in Tracker, NEW ds \in [Columns -> Values],
         NEW S, S \subseteq Columns
  PROVE  /\ Recorded(t, ds, S) \in Tracker
         /\ \A i \in S : Recorded(t, ds, S)[Fields[i]] = ds[i]
         /\ \A d \in Ids : (\A i \in S : Fields[i] # d) => Recorded(t, ds, S)[d] = t[d]
<1> DEFINE done(d) == {i \in S : Fields[i] = d}
           val(d) == IF done(d) = {} THEN t[d] ELSE ds[Greatest(done(d))]
<1>1. Recorded(t, ds, S) = [d \in Ids |-> val(d)]
  BY DEF Recorded
<1>2. ASSUME NEW i \in S PROVE Greatest(done(Fields[i])) = i /\ done(Fields[i]) # {}
  <2>1. done(Fields[i]) = {i}
    BY DEF UniqueFields
  <2>2. Greatest({i}) = i
    BY DEF Greatest, Columns
  <2> HIDE DEF done
  <2> QED BY <2>1, <2>2
<1>3. ASSUME NEW i \in S PROVE Fields[i] \in Ids /\ val(Fields[i]) = ds[i]
  <2>1. Fields[i] \in Ids
    BY FieldsAssumption DEF Columns
  <2>2. Greatest(done(Fields[i])) = i /\ done(Fields[i]) # {}
    BY <1>2
  <2> HIDE DEF done
  <2> QED BY <2>1, <2>2
<1>4. ASSUME NEW d \in Ids, \A i \in S : Fields[i] # d PROVE val(d) = t[d]
  BY <1>4
<1>5. ASSUME NEW d \in Ids PROVE val(d) \in Values \cup {NoDict}
  <2>1. CASE \E i \in S : Fields[i] = d
    BY <2>1, <1>3
  <2>2. CASE \A i \in S : Fields[i] # d
    BY <2>2, <1>4 DEF Tracker
  <2> QED BY <2>1, <2>2
<1> HIDE DEF val
<1> QED BY <1>1, <1>3, <1>4, <1>5 DEF Tracker

\* For files: the columns recorded are those insert returned Ok for.
LEMMA TrackedOnce ==
  ASSUME UniqueFields, NEW t \in Tracker, NEW ds \in [Columns -> Values]
  PROVE  /\ Tracked(t, ds, TRUE) \in Tracker
         /\ \A i \in Columns : i \in Inserted(t, ds, TRUE) => Tracked(t, ds, TRUE)[Fields[i]] = ds[i]
         /\ \A d \in Ids : (\A i \in Inserted(t, ds, TRUE) : Fields[i] # d) =>
              Tracked(t, ds, TRUE)[d] = t[d]
<1> DEFINE S == Inserted(t, ds, TRUE)
<1>1. S \subseteq Columns
  BY DEF Inserted
<1>2. Tracked(t, ds, TRUE) = Recorded(t, ds, S)
  BY DEF Tracked
<1> HIDE DEF S
<1>3. /\ Recorded(t, ds, S) \in Tracker
      /\ \A i \in S : Recorded(t, ds, S)[Fields[i]] = ds[i]
      /\ \A d \in Ids : (\A i \in S : Fields[i] # d) => Recorded(t, ds, S)[d] = t[d]
  BY <1>1, RecordedOnce
<1> QED BY <1>1, <1>2, <1>3 DEF S

\* For streams: it ends up with the dictionaries of the chunk, and what it had for an id that needs
\* no dictionary is what it has.
LEMMA TrackedDicts ==
  ASSUME UniqueFields, NEW t \in Tracker, NEW c \in Chunks
  PROVE  /\ \A i \in Columns : Tracked(t, c.dicts, FALSE)[Fields[i]] = c.dicts[i]
         /\ \A d \in Ids : (\A i \in Emitted(t, c.dicts) : Fields[i] # d) =>
              Tracked(t, c.dicts, FALSE)[d] = t[d]
<1> DEFINE done(d) == {i \in Columns : Fields[i] = d}
<1>1. Inserted(t, c.dicts, FALSE) = Columns
  BY DEF Inserted
<1>2. Tracked(t, c.dicts, FALSE) =
        [d \in Ids |-> IF done(d) = {} THEN t[d] ELSE c.dicts[Greatest(done(d))]]
  BY <1>1 DEF Tracked, Recorded
<1>3. ASSUME NEW i \in Columns PROVE Tracked(t, c.dicts, FALSE)[Fields[i]] = c.dicts[i]
  <2>1. Fields[i] \in Ids
    BY FieldsAssumption DEF Columns
  <2>2. done(Fields[i]) = {i}
    BY DEF UniqueFields
  <2>3. Greatest({i}) = i
    BY DEF Greatest, Columns
  <2> HIDE DEF done
  <2> QED BY <1>2, <2>1, <2>2, <2>3
<1>4. ASSUME NEW d \in Ids, \A i \in Emitted(t, c.dicts) : Fields[i] # d
      PROVE  Tracked(t, c.dicts, FALSE)[d] = t[d]
  <2>1. CASE \E i \in Columns : Fields[i] = d
    <3>1. PICK i \in Columns : Fields[i] = d
      BY <2>1
    <3>2. i \notin Emitted(t, c.dicts)
      BY <1>4, <3>1
    <3>3. t[d] = c.dicts[i]
      BY <3>1, <3>2, SeenOnce DEF Emitted, Emits
    <3> QED BY <1>3, <3>1, <3>3
  <2>2. CASE \A i \in Columns : Fields[i] # d
    <3>1. done(d) = {}
      BY <2>2
    <3> HIDE DEF done
    <3> QED BY <1>2, <3>1
  <2> QED BY <2>1, <2>2
<1> QED BY <1>3, <1>4
-----------------------------------------------------------------------------
(* The order of the dictionary messages.                                    *)

\* There are finitely many columns.
LEMMA FiniteColumns ==
  ASSUME NEW S, S \subseteq Columns
  PROVE  IsFiniteSet(S) /\ Cardinality(S) \in Nat /\ S \subseteq Nat
<1>1. Len(Fields) \in Nat
  BY FieldsAssumption
<1>2. IsFiniteSet(Columns) /\ Columns \subseteq Nat
  BY <1>1, FS_Interval DEF Columns
<1>3. IsFiniteSet(S)
  BY <1>2, FS_Subset
<1> QED BY <1>2, <1>3, FS_CardinalityType

\* How many columns of S come before column i.
Rank(S, i) == Cardinality({j \in S : j < i})

\* A later column has more columns before it.
LEMMA RankGrows ==
  ASSUME NEW S, S \subseteq Columns, NEW i \in S, NEW j \in S, i < j
  PROVE  /\ Rank(S, i) \in Nat /\ Rank(S, i) < Rank(S, j)
         /\ Rank(S, j) < Cardinality(S)
<1> DEFINE A == {k \in S : k < i}
           B == {k \in S : k < j}
<1>1. IsFiniteSet(S) /\ Cardinality(S) \in Nat /\ S \subseteq Nat
  BY FiniteColumns
<1>2. A \subseteq B /\ A # B /\ B \subseteq S /\ B # S
  <2>1. i \in B /\ i \notin A /\ j \notin B
    BY <1>1
  <2>2. \A k \in S : k < i => k < j
    BY <1>1
  <2>3. A \subseteq B /\ B \subseteq S
    BY <2>2
  <2> HIDE DEF A, B
  <2> QED BY <2>1, <2>3
<1> HIDE DEF A, B
<1>3. IsFiniteSet(B) /\ Cardinality(B) \in Nat /\ Cardinality(B) <= Cardinality(S)
      /\ Cardinality(B) # Cardinality(S)
  BY <1>1, <1>2, FS_Subset, FS_CardinalityType
<1>4. IsFiniteSet(A) /\ Cardinality(A) \in Nat /\ Cardinality(A) <= Cardinality(B)
      /\ Cardinality(A) # Cardinality(B)
  BY <1>2, <1>3, FS_Subset, FS_CardinalityType
<1> QED BY <1>1, <1>3, <1>4 DEF A, B, Rank

\* Ascending lists the columns of S, each once, in order.
LEMMA AscendingOrder ==
  ASSUME NEW S, S \subseteq Columns
  PROVE  /\ Ascending(S) \in Seq(S)
         /\ \A m, n \in 1 .. Len(Ascending(S)) : m < n => Ascending(S)[m] < Ascending(S)[n]
         /\ S = {Ascending(S)[n] : n \in 1 .. Len(Ascending(S))}
<1> DEFINE size == Cardinality(S)
           rank == [i \in S |-> Rank(S, i) + 1]
<1>1. IsFiniteSet(S) /\ size \in Nat /\ S \subseteq Nat
  BY FiniteColumns
<1>2. \A i \in S : Rank(S, i) \in Nat /\ Rank(S, i) < size
  <2> TAKE i \in S
  <2> DEFINE A == {k \in S : k < i}
  <2>1. A \subseteq S /\ i \notin A
    BY <1>1
  <2> HIDE DEF A
  <2>2. A # S
    BY <2>1
  <2>3. Cardinality(A) \in Nat /\ Cardinality(A) <= size /\ Cardinality(A) # size
    BY <1>1, <2>1, <2>2, FS_Subset, FS_CardinalityType
  <2> QED BY <1>1, <2>3 DEF A, Rank
<1>3. \A i, j \in S : i < j => Rank(S, i) < Rank(S, j)
  BY RankGrows
<1>4. \A i, j \in S : Rank(S, i) = Rank(S, j) => i = j
  <2> TAKE i, j \in S
  <2>1. i < j \/ j < i \/ i = j
    BY <1>1
  <2> QED BY <1>2, <1>3, <2>1
<1>5. rank \in Injection(S, 1 .. size)
  <2>1. rank \in [S -> 1 .. size]
    BY <1>1, <1>2
  <2>2. \A i, j \in S : rank[i] = rank[j] => i = j
    BY <1>2, <1>4
  <2> HIDE DEF rank
  <2> QED BY <2>1, <2>2 DEF Injection, IsInjective
<1>6. IsFiniteSet(1 .. size) /\ Cardinality(1 .. size) = size
  BY <1>1, FS_Interval
<1>7. rank \in Surjection(S, 1 .. size)
  <2> HIDE DEF rank
  <2> QED BY <1>1, <1>5, <1>6, FS_Injection
<1>8. \A n \in 1 .. size : \E i \in S : Rank(S, i) = n - 1
  <2> TAKE n \in 1 .. size
  <2>1. PICK i \in S : rank[i] = n
    BY <1>7 DEF Surjection
  <2> QED BY <1>2, <2>1
<1>9. \A n \in 1 .. size : Ascending(S)[n] \in S /\ Rank(S, Ascending(S)[n]) = n - 1
  <2> TAKE n \in 1 .. size
  <2>1. Ascending(S)[n] = CHOOSE i \in S : Rank(S, i) = n - 1
    BY DEF Ascending, Rank
  <2> QED BY <1>8, <2>1
<1>10. Len(Ascending(S)) = size /\ Ascending(S) \in Seq(S)
  <2>1. Ascending(S) \in [1 .. size -> S]
    BY <1>9 DEF Ascending
  <2> QED BY <1>1, <2>1
<1>11. ASSUME NEW m \in 1 .. size, NEW n \in 1 .. size, m < n
       PROVE  Ascending(S)[m] < Ascending(S)[n]
  <2> DEFINE i == Ascending(S)[m]
             j == Ascending(S)[n]
  <2>1. i \in S /\ j \in S /\ Rank(S, i) < Rank(S, j)
    BY <1>9, <1>11
  <2> HIDE DEF i, j
  <2>2. i # j /\ ~ (j < i)
    BY <1>2, <1>3, <2>1
  <2>3. i < j
    BY <1>1, <2>1, <2>2
  <2> QED BY <2>3 DEF i, j
<1>12. ASSUME NEW i \in S PROVE \E n \in 1 .. size : Ascending(S)[n] = i
  <2>1. Rank(S, i) + 1 \in 1 .. size
    BY <1>1, <1>2
  <2>2. Ascending(S)[Rank(S, i) + 1] = i
    BY <1>2, <1>4, <1>9, <2>1
  <2> QED BY <2>1, <2>2
<1> QED BY <1>9, <1>10, <1>11, <1>12

\* Columns in order are columns.
LEMMA AscendingColumns ==
  ASSUME NEW S, S \subseteq Columns
  PROVE  /\ Ascending(S) \in Seq(Columns)
         /\ \A m, n \in 1 .. Len(Ascending(S)) : m < n => Ascending(S)[m] < Ascending(S)[n]
         /\ S = {Ascending(S)[n] : n \in 1 .. Len(Ascending(S))}
<1> DEFINE c == Ascending(S)
<1>1. c \in Seq(S)
  BY AscendingOrder
<1>2. c \in Seq(Columns)
  <2> HIDE DEF c
  <2> QED BY <1>1
<1> QED BY <1>2, AscendingOrder
-----------------------------------------------------------------------------
(* The cells of a stream.                                                   *)

\* The messages of a stream, and the mark that ends it, are cells of a stream.
LEMMA PacketFacts ==
  /\ Schema \in StreamCells
  /\ \A d \in Ids, v \in Values : Dict(d, v) \in StreamCells
  /\ \A k \in Keys : Record(k) \in StreamCells
  /\ \A x \in StreamCells : Packet(x) \in Seq(StreamCells)
  /\ EndOfStream \in Seq(StreamCells)
  /\ Len(Packet(Schema)) = 4 /\ Len(EndOfStream) = 3
<1>1. {Half1, Half2, Length, Zero, Body, Schema} \subseteq StreamCells
  BY DEF StreamCells
<1>2. /\ \A d \in Ids, v \in Values : Dict(d, v) \in StreamCells
      /\ \A k \in Keys : Record(k) \in StreamCells
  BY DEF StreamCells, Dict, Record
<1>3. ASSUME NEW x \in StreamCells PROVE Packet(x) \in Seq(StreamCells)
  <2>1. << Half1, Half2, Length, x >> \in Seq(StreamCells)
    BY <1>1
  <2>2. (IF x = Schema THEN << >> ELSE << Body >>) \in Seq(StreamCells)
    BY <1>1
  <2> QED BY <2>1, <2>2 DEF Packet
<1>4. EndOfStream \in Seq(StreamCells) /\ Len(EndOfStream) = 3
  BY <1>1 DEF EndOfStream
<1>5. Len(Packet(Schema)) = 4
  BY <1>1 DEF Packet
<1> QED BY <1>1, <1>2, <1>3, <1>4, <1>5

\* What the cells that are dictionaries and records carry.
LEMMA StreamCellFacts ==
  ASSUME NEW x \in StreamCells
  PROVE  /\ x.kind = "dictionary" => x.id \in Ids /\ x.value \in Values
         /\ x.kind = "record" => x.keys \in Keys
<1>1. CASE x \in {Half1, Half2, Length, Zero, Body, Schema}
  <2>1. /\ Half1.kind = "marker, first half" /\ Half2.kind = "marker, second half"
        /\ Length.kind = "length" /\ Zero.kind = "length zero" /\ Body.kind = "body"
        /\ Schema.kind = "schema"
    BY DEF Half1, Half2, Length, Zero, Body, Schema
  <2>2. x.kind # "dictionary" /\ x.kind # "record"
    BY <1>1, <2>1
  <2> QED BY <2>2
<1>2. CASE x \in [kind: {"dictionary"}, id: Ids, value: Values]
  BY <1>2
<1>3. CASE x \in [kind: {"record"}, keys: Keys]
  BY <1>3
<1> QED BY <1>1, <1>2, <1>3 DEF StreamCells

\* The cells are told apart by their kinds.
LEMMA Kinds ==
  /\ Half1.kind = "marker, first half" /\ Half2.kind = "marker, second half"
  /\ Length.kind = "length" /\ Zero.kind = "length zero" /\ Body.kind = "body"
  /\ Schema.kind = "schema"
  /\ \A d, v : /\ Dict(d, v).kind = "dictionary"
              /\ Dict(d, v).id = d /\ Dict(d, v).value = v
  /\ \A k : Record(k).kind = "record" /\ Record(k).keys = k
BY DEF Half1, Half2, Length, Zero, Body, Schema, Dict, Record

\* No message looks like the mark that ends the stream.
LEMMA NoMarkInPacket ==
  ASSUME NEW x \in StreamCells, x # Zero
  PROVE  \A n \in 1 .. Len(Packet(x)) : Packet(x)[n] # Zero
<1>1. Half1 # Zero /\ Half2 # Zero /\ Length # Zero /\ Body # Zero
  BY Kinds
<1>2. CASE x = Schema
  <2>1. Packet(x) = << Half1, Half2, Length, x >>
    BY <1>2 DEF Packet
  <2> QED BY <1>1, <2>1
<1>3. CASE x # Schema
  <2>1. Packet(x) = << Half1, Half2, Length, x >> \o << Body >>
    BY <1>3 DEF Packet
  <2>2. /\ Len(Packet(x)) = 5 /\ Packet(x)[1] = Half1 /\ Packet(x)[2] = Half2
        /\ Packet(x)[3] = Length /\ Packet(x)[4] = x /\ Packet(x)[5] = Body
    BY <2>1
  <2> TAKE n \in 1 .. Len(Packet(x))
  <2>3. n = 1 \/ n = 2 \/ n = 3 \/ n = 4 \/ n = 5
    BY <2>2
  <2> QED BY <1>1, <2>2, <2>3
<1> QED BY <1>2, <1>3

\* The mark that ends the stream has one, at its end.
LEMMA MarkInEndOfStream ==
  \A n \in 1 .. Len(EndOfStream) : EndOfStream[n] = Zero <=> n = 3
<1>1. Half1 # Zero /\ Half2 # Zero
  BY Kinds
<1>2. EndOfStream = << Half1, Half2, Zero >>
  BY DEF EndOfStream
<1> QED BY <1>1, <1>2
-----------------------------------------------------------------------------
(* The cells of a file.                                                     *)

\* The cells by kind, and what each carries.
LEMMA CellFacts ==
  /\ {Magic, Cont, Schema, Torn, Trailer} \subseteq Cells
  /\ Footers \subseteq Cells
  /\ \A x \in Cells : x.kind = "footer" => x \in Footers
  /\ \A x \in Cells : x.kind = "dictionary" => x.id \in Ids /\ x.value \in Values
  /\ \A d \in Ids, v \in Values : Dict(d, v) \in Cells
  /\ \A k \in Keys : Record(k) \in Cells
  /\ \A ds, rs \in Blocks : Footer(ds, rs) \in Footers
BY DEF Cells, Magic, Cont, Schema, Torn, Trailer, Footers, Dict, Record, Footer

\* A message is a continuation and its payload.
LEMMA MessageFacts ==
  ASSUME NEW x \in Cells
  PROVE  /\ Message(x) \in Seq(Cells) /\ Len(Message(x)) = 2
         /\ Message(x)[1] = Cont /\ Message(x)[2] = x
BY CellFacts DEF Message

\* What a failed write leaves is made of its cells and of torn ones.
LEMMA TornFacts ==
  ASSUME NEW c \in Seq(Cells), NEW torn \in TornPrefixes(c)
  PROVE  /\ torn \in Seq(Cells) /\ Len(torn) <= Len(c)
         /\ \A i \in 1 .. Len(torn) : torn[i] = c[i] \/ torn[i] = Torn
<1>1. Len(c) \in Nat /\ Torn \in Cells
  BY CellFacts
<1>2. ASSUME NEW n \in 0 .. Len(c)
      PROVE  /\ SubSeq(c, 1, n) \in Seq(Cells) /\ Len(SubSeq(c, 1, n)) = n
             /\ \A i \in 1 .. n : SubSeq(c, 1, n)[i] = c[i]
  BY <1>1
<1>3. CASE \E n \in 0 .. Len(c) : torn = SubSeq(c, 1, n)
  BY <1>1, <1>2, <1>3
<1>4. CASE \E n \in 0 .. Len(c) - 1 : torn = Append(SubSeq(c, 1, n), Torn)
  <2>1. PICK n \in 0 .. Len(c) - 1 : torn = Append(SubSeq(c, 1, n), Torn)
    BY <1>4
  <2>2. n \in 0 .. Len(c)
    BY <1>1
  <2>3. torn \in Seq(Cells) /\ Len(torn) = n + 1
    BY <1>1, <1>2, <2>1, <2>2
  <2>4. ASSUME NEW i \in 1 .. n + 1 PROVE torn[i] = c[i] \/ torn[i] = Torn
    BY <1>1, <1>2, <2>1, <2>2
  <2> QED BY <1>1, <2>3, <2>4
<1> QED BY <1>3, <1>4 DEF TornPrefixes

\* A footer is its flatbuffer and FooterSize - 1 trailing cells.
LEMMA FooterCellsFacts ==
  ASSUME NEW x \in Footers
  PROVE  /\ FooterCells(x) \in Seq(Cells) /\ Len(FooterCells(x)) = FooterSize
         /\ FooterCells(x)[1] = x
         /\ \A i \in 2 .. FooterSize : FooterCells(x)[i] = Trailer
BY CellFacts, FooterSizeAssumption DEF FooterCells

\* The length and the cells of a file after a write inside or at its end.
LEMMA WriteAtProperties ==
  ASSUME NEW f \in Seq(Cells), NEW p \in Nat, NEW c \in Seq(Cells)
  PROVE  /\ WriteAt(f, p, c) \in Seq(Cells)
         /\ Len(WriteAt(f, p, c)) = IF p + Len(c) > Len(f) THEN p + Len(c) ELSE Len(f)
         /\ \A i \in 1 .. Len(WriteAt(f, p, c)) :
              WriteAt(f, p, c)[i] = IF i \in p + 1 .. p + Len(c) THEN c[i - p]
                                    ELSE IF i <= Len(f) THEN f[i] ELSE Torn
<1> DEFINE len == IF p + Len(c) > Len(f) THEN p + Len(c) ELSE Len(f)
           val(i) == IF i \in p + 1 .. p + Len(c) THEN c[i - p]
                     ELSE IF i <= Len(f) THEN f[i] ELSE Torn
<1>1. len \in Nat /\ Len(f) \in Nat /\ Len(c) \in Nat
  OBVIOUS
<1>2. WriteAt(f, p, c) = [i \in 1 .. len |-> val(i)]
  BY DEF WriteAt
<1>3. Torn \in Cells
  BY DEF Cells
<1>4. ASSUME NEW i \in 1 .. len PROVE val(i) \in Cells
  <2>1. CASE i \in p + 1 .. p + Len(c)
    <3>1. i - p \in 1 .. Len(c)
      BY <2>1, <1>1
    <3> QED BY <3>1, <2>1
  <2>2. CASE i \notin p + 1 .. p + Len(c)
    BY <2>2, <1>1, <1>3
  <2> QED BY <2>1, <2>2
<1> HIDE DEF len, val
<1>5. [i \in 1 .. len |-> val(i)] \in Seq(Cells)
  BY <1>1, <1>4
<1>6. Len([i \in 1 .. len |-> val(i)]) = len
  BY <1>1
<1>7. \A i \in 1 .. len : [j \in 1 .. len |-> val(j)][i] = val(i)
  OBVIOUS
<1> QED BY <1>2, <1>5, <1>6, <1>7 DEF len, val

\* What is put behind something.
LEMMA Behind ==
  ASSUME NEW S, NEW f \in Seq(S), NEW c \in Seq(S), NEW g, g = f \o c
  PROVE  /\ g \in Seq(S) /\ Len(g) = Len(f) + Len(c)
         /\ \A n \in 1 .. Len(f) : g[n] = f[n]
         /\ \A n \in 1 .. Len(c) : g[Len(f) + n] = c[n]
<1>1. g \in Seq(S) /\ Len(g) = Len(f) + Len(c)
  OBVIOUS
<1>2. \A n \in 1 .. Len(f) : g[n] = f[n]
  OBVIOUS
<1>3. \A n \in 1 .. Len(c) : g[Len(f) + n] = c[n]
  OBVIOUS
<1> QED BY <1>1, <1>2, <1>3

\* A write at the end of a file is put behind it.
LEMMA WriteAtEnd ==
  ASSUME NEW f \in Seq(Cells), NEW c \in Seq(Cells)
  PROVE  WriteAt(f, Len(f), c) = f \o c
<1> DEFINE g == WriteAt(f, Len(f), c)
           h == f \o c
<1>1. /\ g \in Seq(Cells) /\ Len(g) = Len(f) + Len(c)
      /\ \A i \in 1 .. Len(g) :
           g[i] = IF i \in Len(f) + 1 .. Len(f) + Len(c) THEN c[i - Len(f)]
                  ELSE IF i <= Len(f) THEN f[i] ELSE Torn
  BY WriteAtProperties
<1>2. /\ h \in Seq(Cells) /\ Len(h) = Len(f) + Len(c)
      /\ \A i \in 1 .. Len(h) : h[i] = IF i <= Len(f) THEN f[i] ELSE c[i - Len(f)]
  OBVIOUS
<1> HIDE DEF g, h
<1>3. \A i \in 1 .. Len(g) : g[i] = h[i]
  BY <1>1, <1>2, SMTT(30)
<1>4. g = h
  BY <1>1, <1>2, <1>3
<1> QED BY <1>4 DEF g, h

\* A file that a footer was put behind has this footer.
LEMMA FooterBehind ==
  ASSUME NEW f \in Seq(Cells), NEW x \in Footers, NEW c \in Seq(Cells), c = FooterCells(x),
         NEW g, g = f \o c
  PROVE  HasFooter(g) /\ LastFooter(g) = x
<1>1. /\ c \in Seq(Cells) /\ Len(c) = FooterSize /\ c[1] = x
      /\ \A i \in 2 .. FooterSize : c[i] = Trailer
      /\ FooterSize \in Nat /\ FooterSize >= 1 /\ x.kind = "footer"
  BY FooterCellsFacts, FooterSizeAssumption DEF Footers
<1>2. Len(g) = Len(f) + Len(c) /\ \A i \in 1 .. Len(c) : g[Len(f) + i] = c[i]
  BY Behind
<1>3. Len(g) = Len(f) + FooterSize /\ Len(f) \in Nat
  BY <1>1, <1>2
<1>4. \A i \in 1 .. FooterSize : g[Len(f) + i] = c[i]
  BY <1>1, <1>2
<1>5. FooterStart(g) = Len(f) + 1 /\ g[Len(f) + 1] = x
  BY <1>1, <1>3, <1>4 DEF FooterStart
<1>6. ASSUME NEW i \in Len(f) + 2 .. Len(g) PROVE g[i] = Trailer
  <2>1. i - Len(f) \in 2 .. FooterSize /\ i = Len(f) + (i - Len(f))
    BY <1>1, <1>3
  <2> QED BY <1>1, <1>4, <2>1
<1> QED BY <1>1, <1>3, <1>5, <1>6 DEF HasFooter, LastFooter

\* Nothing but a footer makes a file with one.
LEMMA NoFooterBehind ==
  ASSUME NEW f \in Seq(Cells), NEW c \in Seq(Cells), NEW g, g = f \o c,
         \A n \in 1 .. Len(f) : f[n].kind # "footer",
         \A n \in 1 .. Len(c) : c[n].kind # "footer"
  PROVE  \A n \in 1 .. Len(g) : g[n].kind # "footer"
<1>1. Len(g) = Len(f) + Len(c) /\ \A n \in 1 .. Len(g) : g[n] = IF n <= Len(f) THEN f[n] ELSE c[n - Len(f)]
  OBVIOUS
<1>2. ASSUME NEW n \in 1 .. Len(g), n > Len(f) PROVE g[n].kind # "footer"
  <2>1. n - Len(f) \in 1 .. Len(c)
    BY <1>1, <1>2
  <2> QED BY <1>1, <1>2, <2>1
<1>3. ASSUME NEW n \in 1 .. Len(g), n <= Len(f) PROVE g[n].kind # "footer"
  BY <1>1, <1>3
<1> QED BY <1>1, <1>2, <1>3

\* A file without a footer cell has no footer.
LEMMA NoFooterCell ==
  ASSUME NEW f \in Seq(Cells), \A n \in 1 .. Len(f) : f[n].kind # "footer"
  PROVE  ~HasFooter(f)
<1>1. FooterStart(f) >= 1 => FooterStart(f) \in 1 .. Len(f)
  BY FooterSizeAssumption DEF FooterStart
<1> QED BY <1>1 DEF HasFooter
=============================================================================

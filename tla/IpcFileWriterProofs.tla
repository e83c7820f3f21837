------------------------ MODULE IpcFileWriterProofs ------------------------
(***************************************************************************)
(* IInv is inductive, so a file with a footer reads back what the last     *)
(* finished session wrote (FooterReadsBack), for any number of columns,    *)
(* ids, dictionaries, chunks, appends and I/O errors.                      *)
(***************************************************************************)
EXTENDS IpcFileWriter, IpcEncodingProofs

-----------------------------------------------------------------------------
(* Writing at a position, and reading what is below it.                     *)

\* A write leaves the messages below its position alone.
LEMMA PayloadKept ==
  ASSUME NEW f \in Seq(Cells), NEW p \in Nat, NEW c \in Seq(Cells), p <= Len(f),
         NEW b \in Nat, b + MessageSize <= p
  PROVE  Payload(WriteAt(f, p, c), b) = Payload(f, b)
<1> DEFINE g == WriteAt(f, p, c)
<1>1. Len(f) \in Nat /\ Len(c) \in Nat
  OBVIOUS
<1>2. Len(g) >= Len(f) /\ Len(g) \in Nat
  BY <1>1, WriteAtProperties
<1>3. b + 2 \in 1 .. Len(g) /\ b + 2 \in 1 .. Len(f)
  BY <1>1, <1>2 DEF MessageSize
<1>4. g[b + 2] = f[b + 2]
  <2>1. b + 2 \notin p + 1 .. p + Len(c) /\ b + 2 <= Len(f)
    BY <1>1 DEF MessageSize
  <2> HIDE DEF g
  <2> QED BY <2>1, <1>3, WriteAtProperties DEF g
<1> QED BY <1>3, <1>4 DEF Payload, MessageSize

-----------------------------------------------------------------------------
(* What a reader finds under an id.                                         *)

\* The only block of an id gives its dictionary.
LEMMA DictOfBlock ==
  ASSUME NEW f, NEW ds \in Blocks, NEW n \in 1 .. Len(ds),
         Payload(f, ds[n]).kind = "dictionary",
         \A m \in 1 .. Len(ds) : Payload(f, ds[m]).id = Payload(f, ds[n]).id => m = n
  PROVE  DictOf(f, ds, Payload(f, ds[n]).id) = Payload(f, ds[n]).value
<1> DEFINE mine == {m \in 1 .. Len(ds) :
                      /\ Payload(f, ds[m]).kind = "dictionary"
                      /\ Payload(f, ds[m]).id = Payload(f, ds[n]).id}
<1>1. mine = {n}
  OBVIOUS
<1>2. Greatest({n}) = n
  BY Len(ds) \in Nat DEF Greatest, Blocks
<1>3. DictOf(f, ds, Payload(f, ds[n]).id)
        = IF mine = {} THEN NoDict ELSE Payload(f, ds[Greatest(mine)]).value
  BY DEF DictOf
<1> HIDE DEF mine
<1> QED BY <1>1, <1>2, <1>3

\* An id without a block has no dictionary.
LEMMA DictOfNone ==
  ASSUME NEW f, NEW ds, NEW d,
         \A m \in 1 .. Len(ds) : Payload(f, ds[m]).id # d
  PROVE  DictOf(f, ds, d) = NoDict
BY DEF DictOf

\* DictOf looks at the payloads of the blocks only.
LEMMA DictOfKept ==
  ASSUME NEW f, NEW g, NEW ds \in Blocks, NEW d,
         \A n \in 1 .. Len(ds) : Payload(g, ds[n]) = Payload(f, ds[n]),
         \A n \in 1 .. Len(ds) : Payload(f, ds[n]).kind = "dictionary",
         \A m, n \in 1 .. Len(ds) : Payload(f, ds[m]).id = Payload(f, ds[n]).id => m = n
  PROVE  DictOf(g, ds, d) = DictOf(f, ds, d)
<1>1. CASE \E n \in 1 .. Len(ds) : Payload(f, ds[n]).id = d
  <2>1. PICK n \in 1 .. Len(ds) : Payload(f, ds[n]).id = d
    BY <1>1
  <2>2. DictOf(f, ds, Payload(f, ds[n]).id) = Payload(f, ds[n]).value
    BY DictOfBlock
  <2>3. Payload(g, ds[n]).kind = "dictionary"
        /\ \A m \in 1 .. Len(ds) : Payload(g, ds[m]).id = Payload(g, ds[n]).id => m = n
    OBVIOUS
  <2>4. DictOf(g, ds, Payload(g, ds[n]).id) = Payload(g, ds[n]).value
    BY <2>3, DictOfBlock
  <2> QED BY <2>1, <2>2, <2>4
<1>2. CASE ~ \E n \in 1 .. Len(ds) : Payload(f, ds[n]).id = d
  BY <1>2, DictOfNone
<1> QED BY <1>1, <1>2

\* A write above the blocks changes nothing a reader finds through them.
LEMMA BlocksKept ==
  ASSUME NEW f \in Seq(Cells), NEW p \in Nat, NEW c \in Seq(Cells), p <= Len(f),
         NEW ds \in Blocks, NEW rs \in Blocks, NEW end \in Int, end <= p,
         BlocksBelow(f, ds, rs, end), NEW log, ReadsAs(f, ds, rs, log)
  PROVE  /\ BlocksBelow(WriteAt(f, p, c), ds, rs, end)
         /\ ReadsAs(WriteAt(f, p, c), ds, rs, log)
         /\ \A d : DictOf(WriteAt(f, p, c), ds, d) = DictOf(f, ds, d)
<1> DEFINE g == WriteAt(f, p, c)
<1>1. \A n \in 1 .. Len(ds) : Payload(g, ds[n]) = Payload(f, ds[n])
  <2> TAKE n \in 1 .. Len(ds)
  <2>1. ds[n] \in Nat /\ ds[n] + MessageSize <= p
    BY DEF Blocks, BlocksBelow, MessageSize
  <2> QED BY <2>1, PayloadKept
<1>2. \A n \in 1 .. Len(rs) : Payload(g, rs[n]) = Payload(f, rs[n])
  <2> TAKE n \in 1 .. Len(rs)
  <2>1. rs[n] \in Nat /\ rs[n] + MessageSize <= p
    BY DEF Blocks, BlocksBelow, MessageSize
  <2> QED BY <2>1, PayloadKept
<1> HIDE DEF g
<1>3. ASSUME NEW d PROVE DictOf(g, ds, d) = DictOf(f, ds, d)
  <2>1. \A n \in 1 .. Len(ds) : Payload(f, ds[n]).kind = "dictionary"
    BY DEF ReadsAs, Readable
  <2>2. \A m, n \in 1 .. Len(ds) : Payload(f, ds[m]).id = Payload(f, ds[n]).id => m = n
    BY DEF BlocksBelow
  <2> QED BY <1>1, <2>1, <2>2, DictOfKept
<1>4. BlocksBelow(g, ds, rs, end)
  BY <1>1 DEF BlocksBelow
<1>5. Readable(g, ds, rs)
  BY <1>1, <1>2, <1>3 DEF ReadsAs, Readable
<1>6. Decode(g, ds, rs) = Decode(f, ds, rs)
  BY <1>2, <1>3 DEF Decode
<1> QED BY <1>3, <1>4, <1>5, <1>6 DEF g, ReadsAs

\* A block of another id is not looked at.
LEMMA DictOfAppend ==
  ASSUME NEW f, NEW g, NEW ds \in Blocks, NEW b \in Nat, NEW d,
         \A n \in 1 .. Len(ds) : Payload(g, ds[n]) = Payload(f, ds[n]),
         \A n \in 1 .. Len(ds) : Payload(f, ds[n]).kind = "dictionary",
         \A m, n \in 1 .. Len(ds) : Payload(f, ds[m]).id = Payload(f, ds[n]).id => m = n,
         Payload(g, b).id # d
  PROVE  DictOf(g, Append(ds, b), d) = DictOf(f, ds, d)
<1> DEFINE es == Append(ds, b)
<1>1. /\ es \in Blocks /\ Len(es) = Len(ds) + 1 /\ Len(ds) \in Nat
      /\ es[Len(ds) + 1] = b /\ \A n \in 1 .. Len(ds) : es[n] = ds[n]
  BY DEF Blocks
<1> HIDE DEF es
<1>2. \A n \in 1 .. Len(es) : n \in 1 .. Len(ds) \/ n = Len(ds) + 1
  BY <1>1
<1>3. CASE \E n \in 1 .. Len(ds) : Payload(f, ds[n]).id = d
  <2>1. PICK n \in 1 .. Len(ds) : Payload(f, ds[n]).id = d
    BY <1>3
  <2>2. DictOf(f, ds, Payload(f, ds[n]).id) = Payload(f, ds[n]).value
    BY DictOfBlock
  <2>3. n \in 1 .. Len(es) /\ es[n] = ds[n]
    BY <1>1
  <2>4. Payload(g, es[n]).kind = "dictionary"
    BY <2>3
  <2>5. ASSUME NEW m \in 1 .. Len(es), Payload(g, es[m]).id = Payload(g, es[n]).id
        PROVE  m = n
    <3>1. m # Len(ds) + 1
      BY <1>1, <2>1, <2>3, <2>5
    <3>2. m \in 1 .. Len(ds)
      BY <1>2, <3>1
    <3>3. Payload(f, ds[m]).id = Payload(f, ds[n]).id
      BY <1>1, <2>3, <2>5, <3>2
    <3> QED BY <3>2, <3>3
  <2>6. DictOf(g, es, Payload(g, es[n]).id) = Payload(g, es[n]).value
    BY <1>1, <2>3, <2>4, <2>5, DictOfBlock
  <2> QED BY <2>1, <2>2, <2>3, <2>6 DEF es
<1>4. CASE ~ \E n \in 1 .. Len(ds) : Payload(f, ds[n]).id = d
  <2>1. \A m \in 1 .. Len(es) : Payload(g, es[m]).id # d
    BY <1>1, <1>2, <1>4
  <2>2. DictOf(g, es, d) = NoDict
    BY <2>1, DictOfNone
  <2>3. \A m \in 1 .. Len(ds) : Payload(f, ds[m]).id # d
    BY <1>4
  <2>4. DictOf(f, ds, d) = NoDict
    BY <2>3, DictOfNone
  <2> QED BY <2>2, <2>4 DEF es
<1> QED BY <1>3, <1>4

-----------------------------------------------------------------------------
(* The cells of a message and of a failed write.                            *)

\* The footer of a writer that is not finishing is well typed.
LEMMA NoFooterFacts == NoFooter \in Footers
<1>1. << >> \in Blocks
  BY DEF Blocks
<1> QED BY <1>1, CellFacts DEF NoFooter

-----------------------------------------------------------------------------
(* Writing messages, marks and torn cells behind a live session.            *)

\* What a write without a footer cell leaves of the footer under it.
LEMMA PlainWrite ==
  ASSUME Intact, Live, call # "finish",
         NEW c \in Seq(Cells), \A i \in 1 .. Len(c) : c[i].kind # "footer",
         file' = WriteAt(file, pos, c), committed' = committed
  PROVE  /\ file' \in Seq(Cells)
         /\ HasFooter(file') => /\ HasFooter(file) /\ Len(c) <= 1
                               /\ FooterStart(file') = FooterStart(file)
                               /\ LastFooter(file') = LastFooter(file)
         /\ FooterInv' /\ NoStrayFooter'
<1> DEFINE start == FooterStart(file)
<1>1. /\ file \in Seq(Cells) /\ pos \in Nat /\ pos <= Len(file) /\ pos = blockOffset
      /\ Len(file) \in Nat /\ Len(c) \in Nat /\ FooterSize \in Nat /\ FooterSize >= 1
  BY FooterSizeAssumption DEF Intact, TypeOK, PositionInv
<1>2. /\ file' \in Seq(Cells)
      /\ Len(file') = IF pos + Len(c) > Len(file) THEN pos + Len(c) ELSE Len(file)
      /\ \A i \in 1 .. Len(file') :
           file'[i] = IF i \in pos + 1 .. pos + Len(c) THEN c[i - pos]
                      ELSE IF i <= Len(file) THEN file[i] ELSE Torn
  <2> DEFINE g == WriteAt(file, pos, c)
  <2>1. /\ g \in Seq(Cells)
        /\ Len(g) = IF pos + Len(c) > Len(file) THEN pos + Len(c) ELSE Len(file)
        /\ \A i \in 1 .. Len(g) :
             g[i] = IF i \in pos + 1 .. pos + Len(c) THEN c[i - pos]
                    ELSE IF i <= Len(file) THEN file[i] ELSE Torn
    BY <1>1, WriteAtProperties
  <2>2. file' = g
    OBVIOUS
  <2> HIDE DEF g
  <2> QED BY <2>1, <2>2
<1>3. ASSUME NEW i \in 1 .. Len(file'), file'[i].kind = "footer"
      PROVE  /\ i \in 1 .. Len(file) /\ i \notin pos + 1 .. pos + Len(c)
             /\ HasFooter(file) /\ i = start
             /\ start = pos + 2 /\ Len(c) <= 1 /\ Len(file') = Len(file)
  <2>1. i \notin pos + 1 .. pos + Len(c)
    <3> SUFFICES ASSUME i \in pos + 1 .. pos + Len(c) PROVE FALSE
      OBVIOUS
    <3>1. file'[i] = c[i - pos] /\ i - pos \in 1 .. Len(c)
      BY <1>1, <1>2
    <3> QED BY <1>3, <3>1
  <2>2. i <= Len(file) /\ file'[i] = file[i]
    BY <1>1, <1>2, <1>3, <2>1 DEF Torn
  <2>3. HasFooter(file) /\ i = start
    BY <1>3, <2>2 DEF Intact, NoStrayFooter
  <2>4. start = pos + 2
    BY <2>3, <1>1 DEF Intact, UntouchedInv
  <2> QED BY <2>1, <2>2, <2>3, <2>4, <1>1, <1>2
<1>4. ASSUME HasFooter(file')
      PROVE  /\ HasFooter(file) /\ Len(c) <= 1
             /\ FooterStart(file') = start /\ file'[start] = file[start]
  <2>1. FooterStart(file') \in 1 .. Len(file') /\ file'[FooterStart(file')].kind = "footer"
    BY <1>1, <1>2, <1>4 DEF HasFooter, FooterStart
  <2>2. /\ HasFooter(file) /\ FooterStart(file') = start /\ Len(c) <= 1
        /\ start \in 1 .. Len(file) /\ start \notin pos + 1 .. pos + Len(c)
    BY <2>1, <1>3
  <2> QED BY <2>1, <2>2, <1>1, <1>2
<1>5. FooterInv'
  <2> SUFFICES ASSUME HasFooter(file') PROVE FooterInv'
    BY DEF FooterInv
  <2> DEFINE ds == LastFooter(file).dictionaries
             rs == LastFooter(file).records
  <2>1. /\ HasFooter(file) /\ FooterStart(file') = start
        /\ LastFooter(file') = LastFooter(file)
    BY <1>4 DEF LastFooter
  <2>2. start - 2 = pos
    BY <2>1, <1>1 DEF Intact, UntouchedInv
  <2>3. ds \in Blocks /\ rs \in Blocks
    BY <2>1 DEF Intact, UntouchedInv, TypeOK, Footer, SessionDicts, SessionRecs, Footers
  <2>4. /\ BlocksBelow(file, ds, rs, start - 2) /\ ReadsAs(file, ds, rs, committed)
        /\ RecordIsLast(ds, rs, start - 2) /\ start - 2 >= 0
    BY <2>1 DEF Intact, FooterInv
  <2>5. /\ BlocksBelow(file', ds, rs, start - 2)
        /\ ReadsAs(file', ds, rs, committed)
    BY <1>1, <2>2, <2>3, <2>4, BlocksKept
  <2> QED BY <2>1, <2>4, <2>5 DEF FooterInv
<1>6. NoStrayFooter'
  <2> SUFFICES ASSUME NEW i \in 1 .. Len(file'), file'[i].kind = "footer"
               PROVE  HasFooter(file') /\ i = FooterStart(file')
    BY DEF NoStrayFooter
  <2>1. /\ HasFooter(file) /\ i = start /\ start = pos + 2 /\ Len(c) <= 1
        /\ Len(file') = Len(file)
    BY <1>3
  <2>2. FooterStart(file') = start
    BY <2>1 DEF FooterStart
  <2>3. ASSUME NEW j \in start + 1 .. Len(file') PROVE file'[j] = Trailer
    <3>1. j \in 1 .. Len(file') /\ j \notin pos + 1 .. pos + Len(c) /\ j <= Len(file)
      BY <1>1, <2>1
    <3>2. file'[j] = file[j]
      BY <1>2, <3>1
    <3> QED BY <2>1, <3>2, <2>3 DEF HasFooter
  <2> QED BY <2>1, <2>2, <2>3 DEF HasFooter
<1> QED BY <1>2, <1>4, <1>5, <1>6 DEF LastFooter

\* A write at a live session's position keeps what its blocks read back as.
LEMMA SessionKept ==
  ASSUME Intact, Live, NEW c \in Seq(Cells), file' = WriteAt(file, pos, c)
  PROVE  /\ BlocksBelow(file', SessionDicts, SessionRecs, blockOffset)
         /\ ReadsAs(file', SessionDicts, SessionRecs, accepted)
         /\ \A d : DictOf(file', SessionDicts, d) = DictOf(file, SessionDicts, d)
<1>1. /\ SessionDicts \in Blocks /\ SessionRecs \in Blocks
      /\ file \in Seq(Cells) /\ pos \in Nat /\ pos <= Len(file) /\ blockOffset \in Int
      /\ blockOffset <= pos
  BY DEF Intact, TypeOK, PositionInv, SessionDicts, SessionRecs, Footers
<1>2. /\ BlocksBelow(file, SessionDicts, SessionRecs, blockOffset)
      /\ ReadsAs(file, SessionDicts, SessionRecs, accepted)
  BY DEF Intact, SessionInv
<1> QED BY <1>1, <1>2, BlocksKept

\* A writer without blocks has written nothing.
LEMMA BlocksOfNothing ==
  ASSUME NEW f, NEW end
  PROVE  /\ BlocksBelow(f, << >>, << >>, end) /\ ReadsAs(f, << >>, << >>, << >>)
         /\ RecordIsLast(<< >>, << >>, end) /\ \A d : DictOf(f, << >>, d) = NoDict
<1>1. Decode(f, << >>, << >>) = << >>
  BY DEF Decode
<1> QED BY <1>1 DEF BlocksBelow, ReadsAs, Readable, RecordIsLast, DictOf

-----------------------------------------------------------------------------
(* One lemma per action.                                                    *)

\* FileWriter::new establishes the invariant.
LEMMA InitStep ==
  ASSUME Init
  PROVE  Intact
<1>1. TypeOK
  <2>1. << >> \in Blocks /\ << >> \in Seq(Cells) /\ << >> \in Seq(Chunks)
    BY DEF Blocks
  <2>3. NoFooter \in Footers
    BY <2>1, CellFacts DEF NoFooter
  <2>2. EmptyTracker \in Tracker
    BY DEF Tracker, EmptyTracker
  <2> QED BY <2>1, <2>2, <2>3 DEF Init, TypeOK
<1>2. ~HasFooter(file)
  BY FooterSizeAssumption DEF Init, HasFooter, FooterStart
<1> QED BY <1>1, <1>2 DEF Init, Intact, CallInv, NewInv, FooterInv, NoStrayFooter, PositionInv,
                         SessionInv, UntouchedInv, TrackerInv, LostInv, Live

\* start keeps the invariant.
LEMMA StartStep ==
  ASSUME Contract, Intact, Start
  PROVE  Intact'
<1>1. /\ StartCells \in Seq(Cells) /\ Len(StartCells) = 3
      /\ StartCells[1] = Magic /\ StartCells[2] = Cont /\ StartCells[3] = Schema
  BY CellFacts DEF StartCells, Message
<1>2. /\ state = "None" /\ call = "idle" /\ ~broken /\ state' = "Started"
      /\ file' = WriteAt(file, pos, StartCells)
      /\ pos' = pos + 3 /\ blockOffset' = blockOffset + 3
      /\ UNCHANGED << dictBlocks, recBlocks, tracker, call, chunk, pending, footer,
                      accepted, committed, broken, lost, spoiled, sessions, faults >>
  BY <1>1 DEF Start, Put, Usable, HeaderSize, MessageSize, Contract, losses
<1>3. /\ file = << >> /\ pos = 0 /\ blockOffset = 0 /\ dictBlocks = << >> /\ recBlocks = << >>
      /\ tracker = EmptyTracker /\ accepted = << >> /\ committed = << >> /\ pending = {}
      /\ lost = {}
  BY <1>2 DEF Intact, NewInv, CallInv, LostInv
<1>4. /\ file' \in Seq(Cells) /\ Len(file') = 3
      /\ file'[1] = Magic /\ file'[2] = Cont /\ file'[3] = Schema
  <2>1. WriteAt(<< >>, 0, StartCells) = [i \in 1 .. 3 |-> StartCells[i]]
    BY <1>1 DEF WriteAt
  <2> QED BY <1>1, <1>2, <1>3, <2>1
<1>5. \A i \in 1 .. Len(file') : file'[i].kind # "footer"
  BY <1>4 DEF Magic, Cont, Schema
<1>6. ~HasFooter(file')
  BY <1>4, <1>5, FooterSizeAssumption DEF HasFooter, FooterStart
<1>7. TypeOK'
  BY <1>2, <1>4 DEF Intact, TypeOK
<1>8. CallInv' /\ NewInv' /\ FooterInv' /\ NoStrayFooter' /\ UntouchedInv'
  BY <1>2, <1>3, <1>5, <1>6
     DEF Intact, CallInv, NewInv, FooterInv, NoStrayFooter, UntouchedInv, Live
<1>9. PositionInv'
  <2>1. pos' = 3 /\ blockOffset' = 3 /\ Len(file') = 3 /\ call' # "finish"
    BY <1>2, <1>3, <1>4
  <2> QED BY <2>1, FooterSizeAssumption DEF PositionInv
<1>10. SessionDicts' = << >> /\ SessionRecs' = << >>
  BY <1>2, <1>3 DEF SessionDicts, SessionRecs
<1>11. SessionInv'
  BY <1>2, <1>3, <1>10, BlocksOfNothing DEF SessionInv
<1>12. TrackerInv'
  BY <1>2, <1>3, <1>10, BlocksOfNothing DEF TrackerInv, EmptyTracker
<1>13. LostInv'
  BY <1>2, <1>3 DEF LostInv
<1> QED BY <1>7, <1>8, <1>9, <1>11, <1>12, <1>13 DEF Intact

\* A start cut short keeps the invariant.
LEMMA StartFailsStep ==
  ASSUME Contract, Intact, StartFails
  PROVE  Intact'
<1>1. /\ StartCells \in Seq(Cells) /\ Len(StartCells) = 3
      /\ StartCells[1] = Magic /\ StartCells[2] = Cont /\ StartCells[3] = Schema
  BY CellFacts DEF StartCells, Message
<1>2. /\ state = "None" /\ call = "idle" /\ ~broken /\ broken' = TRUE
      /\ UNCHANGED << blockOffset, dictBlocks, recBlocks, state, tracker, call, chunk, pending,
                      footer, accepted, committed, lost, spoiled, sessions >>
      /\ faults' = faults + 1
  BY DEF StartFails, PutFails, Usable, Contract, blocks, losses
<1>3. PICK torn \in TornPrefixes(StartCells) :
        file' = WriteAt(file, pos, torn) /\ pos' = pos + Len(torn)
  BY DEF StartFails, PutFails, Put
<1>4. /\ torn \in Seq(Cells) /\ Len(torn) \in Nat
      /\ \A i \in 1 .. Len(torn) : torn[i] = StartCells[i] \/ torn[i] = Torn
      /\ Len(torn) <= 3
  BY <1>1, TornFacts
<1>5. file = << >> /\ pos = 0
  BY <1>2 DEF Intact, NewInv
<1>6. /\ file' \in Seq(Cells) /\ Len(file') = Len(torn)
      /\ \A i \in 1 .. Len(file') : file'[i] = torn[i]
  <2>1. WriteAt(<< >>, 0, torn) = [i \in 1 .. Len(torn) |-> torn[i]]
    BY <1>4 DEF WriteAt
  <2>2. [i \in 1 .. Len(torn) |-> torn[i]] \in Seq(Cells)
    BY <1>4
  <2> QED BY <1>3, <1>4, <1>5, <2>1, <2>2
<1>7. \A i \in 1 .. Len(file') : file'[i].kind # "footer"
  <2> TAKE i \in 1 .. Len(file')
  <2>1. i \in 1 .. 3 /\ i \in 1 .. Len(torn)
    BY <1>4, <1>6
  <2>2. torn[i] \in {Magic, Cont, Schema, Torn}
    BY <2>1, <1>1, <1>4
  <2> QED BY <2>2, <1>6 DEF Magic, Cont, Schema, Torn
<1>8. ~HasFooter(file')
  BY <1>4, <1>6, <1>7, FooterSizeAssumption DEF HasFooter, FooterStart
<1>9. TypeOK'
  BY <1>2, <1>3, <1>4, <1>5, <1>6 DEF Intact, TypeOK
<1>10. ~Live' /\ lost' = {}
  BY <1>2 DEF Intact, LostInv, Live
<1>11. CallInv' /\ NewInv'
  BY <1>2, <1>8 DEF Intact, CallInv, NewInv, Live
<1> QED BY <1>8, <1>9, <1>10, <1>11
        DEF Intact, FooterInv, NoStrayFooter, PositionInv, SessionInv, UntouchedInv, TrackerInv,
            LostInv

\* encode_chunk tracks exactly the dictionaries it is about to emit.
LEMMA WriteStep ==
  ASSUME Contract, Intact, NEW c \in Chunks, Write(c)
  PROVE  Intact'
<1>1. /\ state = "Started" /\ call = "idle" /\ ~broken /\ Live /\ Live'
      /\ Encodable(tracker, c.dicts, TRUE)
      /\ tracker' = Tracked(tracker, c.dicts, TRUE)
      /\ pending' = Emitted(tracker, c.dicts)
      /\ chunk' = c /\ call' = "write"
      /\ UNCHANGED << file, pos, blockOffset, dictBlocks, recBlocks, state, footer, accepted,
                      committed, broken, lost, spoiled, sessions, faults >>
  BY DEF Write, Usable, Contract, Live, disk, blocks, losses
<1>2. /\ c.dicts \in [Columns -> Values] /\ tracker \in Tracker /\ UniqueFields
      /\ pending = {}
  BY <1>1 DEF Chunks, Intact, TypeOK, Contract, CallInv
<1>3. Inserted(tracker, c.dicts, TRUE) = Columns
  BY <1>1 DEF Encodable
<1>4. /\ tracker' \in Tracker
      /\ \A i \in Columns : tracker'[Fields[i]] = c.dicts[i]
      /\ \A d \in Ids : (\A i \in Columns : Fields[i] # d) => tracker'[d] = tracker[d]
  BY <1>1, <1>2, <1>3, TrackedOnce
<1>5. TypeOK'
  BY <1>1, <1>4 DEF Intact, TypeOK, Emitted
<1>6. SessionDicts' = SessionDicts /\ SessionRecs' = SessionRecs
  BY <1>1 DEF SessionDicts, SessionRecs
<1>7. CallInv' /\ NewInv' /\ FooterInv' /\ NoStrayFooter' /\ PositionInv'
  BY <1>1 DEF Intact, CallInv, NewInv, FooterInv, NoStrayFooter, PositionInv
<1>8. SessionInv' /\ UntouchedInv'
  BY <1>1, <1>6 DEF Intact, SessionInv, UntouchedInv
<1>9. \A d \in lost : \A i \in pending' : Fields[i] # d
  <2> SUFFICES ASSUME NEW i \in Columns, i \in pending', Fields[i] \in lost PROVE FALSE
    BY <1>1 DEF Emitted
  <2>1. tracker[Fields[i]] # NoDict
    BY <1>1 DEF Intact, LostInv
  <2>2. Replaces(tracker, c.dicts, i)
    BY <1>1, <1>2, <2>1, SeenOnce DEF Replaces, Emitted
  <2> QED BY <1>3, <2>2 DEF Inserted, Columns
<1>10. ASSUME NEW d \in Ids
       PROVE  DictOf(file, SessionDicts, d)
                = IF d \in lost \/ \E i \in pending' : Fields[i] = d THEN NoDict ELSE tracker'[d]
  <2>1. DictOf(file, SessionDicts, d) = IF d \in lost THEN NoDict ELSE tracker[d]
    BY <1>1, <1>2 DEF Intact, TrackerInv
  <2>2. CASE \A i \in Columns : Fields[i] # d
    BY <2>1, <2>2, <1>1, <1>4 DEF Emitted
  <2>3. CASE \E i \in Columns : Fields[i] = d
    <3>1. PICK i \in Columns : Fields[i] = d
      BY <2>3
    <3>2. Seen(tracker, c.dicts, i) = tracker[d]
      BY <1>2, <3>1, SeenOnce
    <3>3. \A j \in Columns : Fields[j] = d => j = i
      BY <1>2, <3>1 DEF UniqueFields
    <3>4. CASE i \in pending'
      <4>1. ~Replaces(tracker, c.dicts, i) /\ Emits(tracker, c.dicts, i)
        BY <1>1, <1>3, <3>4 DEF Inserted, Emitted, Columns
      <4> QED BY <4>1, <2>1, <3>1, <3>2, <3>4 DEF Replaces
    <3>5. CASE i \notin pending'
      <4>1. tracker[d] = c.dicts[i]
        BY <1>1, <3>2, <3>5 DEF Emitted, Emits
      <4>2. ~ \E j \in pending' : Fields[j] = d
        BY <1>1, <3>3, <3>5 DEF Emitted
      <4> QED BY <4>1, <4>2, <2>1, <3>1, <1>4
    <3> QED BY <3>4, <3>5
  <2> QED BY <2>2, <2>3
<1>11. TrackerInv'
  BY <1>1, <1>4, <1>6, <1>10 DEF TrackerInv
<1>12. LostInv'
  <2>1. ASSUME NEW d \in lost PROVE tracker'[d] # NoDict
    <3>1. d \in Ids /\ tracker[d] # NoDict
      BY <1>1 DEF Intact, TypeOK, LostInv
    <3>2. CASE \A i \in Columns : Fields[i] # d
      BY <1>4, <3>1, <3>2
    <3>3. CASE \E i \in Columns : Fields[i] = d
      BY <1>2, <1>4, <3>3, NoDictAssumption
    <3> QED BY <3>2, <3>3
  <2> QED BY <1>1, <1>9, <2>1 DEF Intact, LostInv, Live
<1> QED BY <1>5, <1>7, <1>8, <1>11, <1>12 DEF Intact

\* Of the columns before the refusal, one with a known id has the dictionary of that id; one
\* with an unknown id makes it a lost one.  With a record in the session every id is known.
LEMMA WriteRefusedStep ==
  ASSUME Contract, Intact, NEW c \in Chunks, WriteRefused(c)
  PROVE  Intact'
<1>1. PICK n \in Refusals(tracker, c.dicts, TRUE, Stops) :
        /\ tracker' = Recorded(tracker, c.dicts, 1 .. n)
        /\ lost' = lost \cup Left(tracker, c.dicts, n)
  BY DEF WriteRefused
<1>2. /\ state = "Started" /\ call = "idle" /\ ~broken /\ Live /\ Live'
      /\ UNCHANGED << file, pos, blockOffset, dictBlocks, recBlocks, state, call, chunk, pending,
                      footer, accepted, committed, broken, spoiled, sessions, faults >>
  BY DEF WriteRefused, Usable, Contract, Live, disk, blocks
<1>3. /\ c.dicts \in [Columns -> Values] /\ tracker \in Tracker /\ UniqueFields
      /\ pending = {} /\ pending' = {}
      /\ SessionDicts = dictBlocks /\ SessionRecs = recBlocks
      /\ SessionDicts' = dictBlocks /\ SessionRecs' = recBlocks
  BY <1>2 DEF Chunks, Intact, TypeOK, Contract, CallInv, SessionDicts, SessionRecs
<1>4. 1 .. n \subseteq Columns /\ 1 .. n \subseteq Inserted(tracker, c.dicts, TRUE)
  <2>1. 1 .. n \subseteq Inserted(tracker, c.dicts, TRUE)
    BY <1>1 DEF Refusals
  <2> QED BY <2>1 DEF Inserted
<1>5. /\ tracker' \in Tracker
      /\ \A i \in 1 .. n : tracker'[Fields[i]] = c.dicts[i]
      /\ \A d \in Ids : (\A i \in 1 .. n : Fields[i] # d) => tracker'[d] = tracker[d]
  <2> DEFINE S == 1 .. n
  <2>1. S \subseteq Columns
    BY <1>4
  <2> HIDE DEF S
  <2>2. /\ Recorded(tracker, c.dicts, S) \in Tracker
        /\ \A i \in S : Recorded(tracker, c.dicts, S)[Fields[i]] = c.dicts[i]
        /\ \A d \in Ids : (\A i \in S : Fields[i] # d) =>
             Recorded(tracker, c.dicts, S)[d] = tracker[d]
    BY <1>3, <2>1, RecordedOnce
  <2> QED BY <1>1, <2>2 DEF S
<1>6. ASSUME NEW i \in 1 .. n
      PROVE  /\ i \in Columns /\ Fields[i] \in Ids /\ c.dicts[i] \in Values
             /\ tracker[Fields[i]] \in {NoDict, c.dicts[i]}
             /\ i \in Emitted(tracker, c.dicts) <=> tracker[Fields[i]] = NoDict
  <2>1. i \in Columns /\ Fields[i] \in Ids /\ c.dicts[i] \in Values
    BY <1>3, <1>4, FieldsAssumption DEF Columns
  <2>2. ~Replaces(tracker, c.dicts, i) /\ Seen(tracker, c.dicts, i) = tracker[Fields[i]]
    BY <1>3, <1>4, <2>1, SeenOnce DEF Inserted, Columns
  <2> QED BY <2>1, <2>2, NoDictAssumption DEF Replaces, Emits, Emitted
<1>7. /\ \A d \in lost' : d \in lost \/ (tracker[d] = NoDict /\ \E i \in 1 .. n : Fields[i] = d)
      /\ lost \subseteq lost'
      /\ \A i \in 1 .. n : tracker[Fields[i]] = NoDict => Fields[i] \in lost'
      /\ lost' \subseteq Ids
  BY <1>1, <1>6 DEF Left, Intact, TypeOK
<1>8. \A d \in lost' : tracker'[d] # NoDict
  <2> TAKE d \in lost'
  <2>1. d \in Ids
    BY <1>7
  <2>2. CASE \E i \in 1 .. n : Fields[i] = d
    BY <1>5, <1>6, <2>2, NoDictAssumption
  <2>3. CASE \A i \in 1 .. n : Fields[i] # d
    BY <1>2, <1>5, <1>7, <2>1, <2>3 DEF Intact, LostInv
  <2> QED BY <2>2, <2>3
<1>9. accepted # << >> => \A i \in Columns : tracker[Fields[i]] # NoDict
  <2> SUFFICES ASSUME accepted # << >>, NEW i \in Columns PROVE tracker[Fields[i]] # NoDict
    OBVIOUS
  <2>1. Fields[i] \in Ids
    BY FieldsAssumption DEF Columns
  <2>2. Readable(file, dictBlocks, recBlocks) /\ Decode(file, dictBlocks, recBlocks) = accepted
    BY <1>2, <1>3 DEF Intact, SessionInv, ReadsAs
  <2>3. recBlocks # << >>
    BY <2>2 DEF Decode
  <2>4. DictOf(file, dictBlocks, Fields[i]) # NoDict
    BY <2>2, <2>3 DEF Readable
  <2>5. lost = {}
    BY <1>2 DEF Intact, LostInv
  <2> QED BY <1>2, <1>3, <2>1, <2>4, <2>5 DEF Intact, TrackerInv
<1>10. LostInv'
  <2>1. accepted # << >> => lost' = {}
    BY <1>2, <1>4, <1>7, <1>9 DEF Intact, LostInv
  <2> QED BY <1>2, <1>3, <1>8, <2>1 DEF LostInv
<1>11. TrackerInv'
  <2>1. ASSUME NEW d \in Ids
        PROVE  DictOf(file, dictBlocks, d) = IF d \in lost' THEN NoDict ELSE tracker'[d]
    <3>1. DictOf(file, dictBlocks, d) = IF d \in lost THEN NoDict ELSE tracker[d]
      BY <1>2, <1>3 DEF Intact, TrackerInv
    <3>2. CASE \E i \in 1 .. n : Fields[i] = d
      BY <1>5, <1>6, <1>7, <3>1, <3>2
    <3>3. CASE \A i \in 1 .. n : Fields[i] # d
      BY <1>5, <1>7, <3>1, <3>3
    <3> QED BY <3>2, <3>3
  <2> QED BY <1>2, <1>3, <2>1 DEF TrackerInv
<1>12. TypeOK' /\ CallInv' /\ FooterInv' /\ NoStrayFooter' /\ PositionInv'
  BY <1>2, <1>5, <1>7 DEF Intact, TypeOK, CallInv, FooterInv, NoStrayFooter, PositionInv
<1>13. NewInv'
  BY <1>2 DEF NewInv
<1>14. SessionInv' /\ UntouchedInv'
  BY <1>2, <1>3 DEF Intact, SessionInv, UntouchedInv
<1> QED BY <1>10, <1>11, <1>12, <1>13, <1>14 DEF Intact

\* A message written behind a live session: it is the payload at the block
\* offset, and it overwrites the footer of the session before.
LEMMA MessageWrite ==
  ASSUME Intact, Live, call # "finish", NEW x \in Cells, x.kind # "footer",
         file' = WriteAt(file, pos, Message(x)), committed' = committed
  PROVE  /\ file' \in Seq(Cells) /\ ~HasFooter(file') /\ FooterInv' /\ NoStrayFooter'
         /\ Len(file') >= pos + 2 /\ Len(file') <= blockOffset + 3 + FooterSize
         /\ Payload(file', blockOffset) = x
<1> DEFINE c == Message(x)
<1>1. /\ c \in Seq(Cells) /\ Len(c) = 2 /\ c[1] = Cont /\ c[2] = x
  BY MessageFacts
<1> HIDE DEF c
<1>2. \A j \in 1 .. Len(c) : c[j].kind # "footer"
  BY <1>1 DEF Cont
<1>3. file' = WriteAt(file, pos, c)
  BY DEF c
<1>4. file' \in Seq(Cells) /\ FooterInv' /\ NoStrayFooter'
  BY <1>1, <1>2, <1>3, PlainWrite
<1>5. ~HasFooter(file')
  <2>1. HasFooter(file') => Len(c) <= 1
    BY <1>1, <1>2, <1>3, PlainWrite
  <2> QED BY <2>1, <1>1
<1>6. /\ file \in Seq(Cells) /\ pos \in Nat /\ pos <= Len(file) /\ pos = blockOffset
      /\ Len(file) \in Nat /\ Len(file) <= blockOffset + 1 + FooterSize
      /\ FooterSize \in Nat
  BY FooterSizeAssumption DEF Intact, TypeOK, PositionInv
<1>7. /\ Len(file') = IF pos + 2 > Len(file) THEN pos + 2 ELSE Len(file)
      /\ pos + 2 \in 1 .. Len(file') /\ file'[pos + 2] = x
  <2> DEFINE g == WriteAt(file, pos, c)
  <2>1. c \in Seq(Cells) /\ file \in Seq(Cells) /\ pos \in Nat
    BY <1>1, <1>6
  <2>2. /\ Len(g) = IF pos + Len(c) > Len(file) THEN pos + Len(c) ELSE Len(file)
        /\ \A j \in 1 .. Len(g) :
             g[j] = IF j \in pos + 1 .. pos + Len(c) THEN c[j - pos]
                    ELSE IF j <= Len(file) THEN file[j] ELSE Torn
    BY <2>1, WriteAtProperties
  <2> HIDE DEF g
  <2>3. Len(g) = IF pos + 2 > Len(file) THEN pos + 2 ELSE Len(file)
    BY <2>2, <1>1
  <2>4. pos + 2 \in 1 .. Len(g) /\ pos + 2 \in pos + 1 .. pos + Len(c) /\ (pos + 2) - pos = 2
    BY <2>3, <1>1, <1>6
  <2>5. g[pos + 2] = c[(pos + 2) - pos]
    BY <2>2, <2>4
  <2> QED BY <2>3, <2>4, <2>5, <1>1, <1>3 DEF g
<1>9. Payload(file', blockOffset) = x
  BY <1>6, <1>7 DEF Payload, MessageSize
<1> QED BY <1>4, <1>5, <1>6, <1>7, <1>9

\* A dictionary message and its block keep the invariant.
LEMMA WriteDictionaryStep ==
  ASSUME Contract, Intact, WriteDictionary
  PROVE  Intact'
<1>1. PICK i \in pending :
        /\ Put(Message(Dict(Fields[i], chunk.dicts[i])))
        /\ pending' = pending \ {i}
  BY DEF WriteDictionary
<1> DEFINE x == Dict(Fields[i], chunk.dicts[i])
<1>2. /\ call = "write" /\ Live /\ state = "Started" /\ ~broken
      /\ chunk \in Chunks /\ UniqueFields /\ i \in Columns
      /\ Fields[i] \in Ids /\ chunk.dicts[i] \in Values /\ pos = blockOffset
      /\ tracker[Fields[i]] = chunk.dicts[i]
  <2>1. /\ call = "write" /\ Live /\ state = "Started" /\ ~broken
        /\ chunk \in Chunks /\ UniqueFields /\ i \in Columns
    BY DEF WriteDictionary, Intact, TypeOK, CallInv, Live, Contract
  <2>2. pos = blockOffset /\ tracker[Fields[i]] = chunk.dicts[i]
    BY <2>1 DEF Intact, PositionInv, TrackerInv
  <2>3. Fields[i] \in Ids /\ chunk.dicts[i] \in Values
    BY <2>1, FieldsAssumption DEF Chunks, Columns
  <2> QED BY <2>1, <2>2, <2>3
<1>3. /\ x \in Cells /\ x.kind = "dictionary" /\ x.id = Fields[i] /\ x.value = chunk.dicts[i]
  BY <1>2, CellFacts DEF Dict
<1> HIDE DEF x
<1>4. Message(x) \in Seq(Cells) /\ Len(Message(x)) = 2
  BY <1>3, MessageFacts
<1>5. /\ file' = WriteAt(file, pos, Message(x)) /\ pos' = pos + 2
      /\ dictBlocks' = Append(dictBlocks, blockOffset) /\ blockOffset' = blockOffset + 2
      /\ UNCHANGED << recBlocks, state, tracker, call, chunk, footer,
                      accepted, committed, broken, lost, spoiled, sessions, faults >>
  BY <1>1, <1>4 DEF WriteDictionary, Put, x, MessageSize, losses
<1>6. /\ file' \in Seq(Cells) /\ ~HasFooter(file') /\ FooterInv' /\ NoStrayFooter'
      /\ Len(file') >= pos + 2 /\ Len(file') <= blockOffset + 3 + FooterSize
      /\ Payload(file', blockOffset) = x
  <2>1. call # "finish" /\ x.kind # "footer" /\ committed' = committed
    BY <1>2, <1>3, <1>5
  <2> QED BY <2>1, <1>2, <1>3, <1>5, MessageWrite
<1>7. /\ BlocksBelow(file', SessionDicts, SessionRecs, blockOffset)
      /\ ReadsAs(file', SessionDicts, SessionRecs, accepted)
      /\ \A d : DictOf(file', SessionDicts, d) = DictOf(file, SessionDicts, d)
  BY <1>2, <1>4, <1>5, SessionKept
<1>8. /\ SessionDicts = dictBlocks /\ SessionRecs = recBlocks
      /\ SessionDicts' = dictBlocks' /\ SessionRecs' = recBlocks
  BY <1>2, <1>5 DEF SessionDicts, SessionRecs
<1>9. /\ file \in Seq(Cells) /\ pos \in Nat /\ pos <= Len(file) /\ blockOffset \in Nat
      /\ dictBlocks \in Blocks /\ recBlocks \in Blocks
      /\ Len(file) <= blockOffset + 1 + FooterSize
  BY <1>2 DEF Intact, TypeOK, PositionInv
<1>10. Payload(file', blockOffset) = x
  BY <1>6
<1>11. /\ dictBlocks' \in Blocks /\ Len(dictBlocks') = Len(dictBlocks) + 1
       /\ Len(dictBlocks) \in Nat /\ dictBlocks'[Len(dictBlocks) + 1] = blockOffset
       /\ \A n \in 1 .. Len(dictBlocks) : dictBlocks'[n] = dictBlocks[n]
       /\ \A n \in 1 .. Len(dictBlocks') : n \in 1 .. Len(dictBlocks) \/ n = Len(dictBlocks) + 1
  BY <1>5, <1>9 DEF Blocks
<1>12. DictOf(file', dictBlocks, Fields[i]) = NoDict
  BY <1>2, <1>7, <1>8 DEF Intact, TrackerInv
<1>13. recBlocks = << >>
  BY <1>2, <1>7, <1>8, <1>12 DEF ReadsAs, Readable
<1>14. /\ \A n \in 1 .. Len(dictBlocks) : Payload(file', dictBlocks[n]).kind = "dictionary"
       /\ \A m, n \in 1 .. Len(dictBlocks) :
            Payload(file', dictBlocks[m]).id = Payload(file', dictBlocks[n]).id => m = n
  BY <1>7, <1>8 DEF ReadsAs, Readable, BlocksBelow
<1>15. \A n \in 1 .. Len(dictBlocks) : Payload(file', dictBlocks[n]).id # Fields[i]
  <2> SUFFICES ASSUME NEW n \in 1 .. Len(dictBlocks), Payload(file', dictBlocks[n]).id = Fields[i]
               PROVE  FALSE
    OBVIOUS
  <2>1. DictOf(file', dictBlocks, Payload(file', dictBlocks[n]).id) = Payload(file', dictBlocks[n]).value
    <3>1. /\ Payload(file', dictBlocks[n]).kind = "dictionary"
          /\ \A m \in 1 .. Len(dictBlocks) :
               Payload(file', dictBlocks[m]).id = Payload(file', dictBlocks[n]).id => m = n
      BY <1>14
    <3> QED BY <1>9, <3>1, DictOfBlock
  <2>2. Payload(file', dictBlocks[n]) \in Cells /\ Payload(file', dictBlocks[n]).kind = "dictionary"
    BY <1>6, <1>14, CellFacts DEF Payload
  <2> QED BY <2>1, <2>2, <1>12, CellFacts, NoDictAssumption
<1>16. SessionInv'
  <2>1. BlocksBelow(file', dictBlocks', recBlocks, blockOffset')
    <3>1. \A n \in 1 .. Len(dictBlocks) : dictBlocks[n] \in Nat /\ dictBlocks[n] + MessageSize <= blockOffset
      BY <1>7, <1>8, <1>9 DEF BlocksBelow, Blocks
    <3>2. \A n \in 1 .. Len(dictBlocks') : dictBlocks'[n] + MessageSize <= blockOffset'
      BY <3>1, <1>5, <1>9, <1>11 DEF MessageSize
    <3>3. ASSUME NEW m \in 1 .. Len(dictBlocks'), NEW n \in 1 .. Len(dictBlocks'),
                 Payload(file', dictBlocks'[m]).id = Payload(file', dictBlocks'[n]).id
          PROVE  m = n
      BY <3>3, <1>3, <1>10, <1>11, <1>14, <1>15
    <3>4. \A n \in 1 .. Len(recBlocks) : FALSE
      BY <1>13
    <3> QED BY <3>2, <3>3, <3>4 DEF BlocksBelow
  <2>2. Readable(file', dictBlocks', recBlocks)
    BY <1>3, <1>10, <1>11, <1>13, <1>14 DEF Readable
  <2>3. Decode(file', dictBlocks', recBlocks) = Decode(file', dictBlocks, recBlocks)
    BY <1>13 DEF Decode
  <2> QED BY <1>2, <1>5, <1>7, <1>8, <2>1, <2>2, <2>3 DEF SessionInv, ReadsAs
<1>17. TrackerInv'
  <2>1. ASSUME NEW d \in Ids
        PROVE  DictOf(file', dictBlocks', d)
                 = IF d \in lost \/ \E j \in pending' : Fields[j] = d THEN NoDict ELSE tracker[d]
    <3>1. CASE d = Fields[i]
      <4>5. d \notin lost
        BY <1>1, <1>2, <3>1 DEF Intact, LostInv
      <4>1. ~ \E j \in pending' : Fields[j] = d
        BY <1>1, <1>2, <3>1 DEF UniqueFields, Intact, TypeOK
      <4> DEFINE es == dictBlocks'  n == Len(dictBlocks) + 1
      <4>2. n \in 1 .. Len(es) /\ Payload(file', es[n]) = x
        BY <1>10, <1>11
      <4>3. \A m \in 1 .. Len(es) : Payload(file', es[m]).id = Payload(file', es[n]).id => m = n
        BY <1>3, <1>11, <1>15, <4>2
      <4>4. DictOf(file', es, Payload(file', es[n]).id) = Payload(file', es[n]).value
        <5> HIDE DEF es, n
        <5> QED BY <1>3, <1>11, <4>2, <4>3, DictOfBlock DEF es
      <4> QED BY <1>2, <1>3, <3>1, <4>1, <4>2, <4>4, <4>5
    <3>2. CASE d # Fields[i]
      <4>1. DictOf(file', Append(dictBlocks, blockOffset), d) = DictOf(file', dictBlocks, d)
        BY <1>3, <1>9, <1>10, <1>14, <3>2, DictOfAppend
      <4>2. (\E j \in pending' : Fields[j] = d) <=> (\E j \in pending : Fields[j] = d)
        BY <1>1, <3>2
      <4>3. DictOf(file', dictBlocks, d)
              = IF d \in lost \/ \E j \in pending : Fields[j] = d THEN NoDict ELSE tracker[d]
        BY <1>2, <1>7, <1>8 DEF Intact, TrackerInv
      <4> QED BY <1>5, <4>1, <4>2, <4>3
    <3> QED BY <3>1, <3>2
  <2> QED BY <1>2, <1>5, <1>8, <2>1 DEF Intact, TrackerInv
<1>18. PositionInv'
  BY <1>2, <1>5, <1>6, <1>9 DEF PositionInv
<1>19. UntouchedInv'
  BY <1>6 DEF UntouchedInv
<1>20. TypeOK'
  BY <1>1, <1>5, <1>6, <1>9, <1>11 DEF Intact, TypeOK
<1>21. CallInv' /\ NewInv'
  BY <1>2, <1>5 DEF Intact, CallInv, NewInv, Live
<1>22. LostInv'
  BY <1>1, <1>2, <1>5 DEF Intact, LostInv, Live
<1> QED BY <1>6, <1>16, <1>17, <1>18, <1>19, <1>20, <1>21, <1>22 DEF Intact

\* The record message makes the chunk readable through the blocks.
LEMMA WriteRecordStep ==
  ASSUME Contract, Intact, WriteRecord, lost = {}
  PROVE  Intact'
<1> DEFINE x == Record(chunk.keys)
<1>1. /\ call = "write" /\ Live /\ state = "Started" /\ ~broken
      /\ chunk \in Chunks /\ pos = blockOffset /\ pending = {}
      /\ \A i \in Columns : tracker[Fields[i]] = chunk.dicts[i]
  BY DEF WriteRecord, Intact, CallInv, Live, PositionInv, TrackerInv
<1>2. chunk.keys \in Keys /\ chunk.dicts \in [Columns -> Values]
      /\ chunk = [keys |-> chunk.keys, dicts |-> chunk.dicts]
  BY <1>1 DEF Chunks
<1>3. x \in Cells /\ x.kind = "record" /\ x.keys = chunk.keys
  BY <1>2, CellFacts DEF Record
<1>4. Message(x) \in Seq(Cells) /\ Len(Message(x)) = 2
  BY <1>3, MessageFacts
<1>5. /\ file' = WriteAt(file, pos, Message(x)) /\ pos' = pos + 2
      /\ recBlocks' = Append(recBlocks, blockOffset) /\ blockOffset' = blockOffset + 2
      /\ accepted' = Append(accepted, chunk) /\ call' = "idle" /\ chunk' = NoChunk
      /\ spoiled' = spoiled
      /\ UNCHANGED << dictBlocks, state, tracker, pending, footer,
                      committed, broken, lost, sessions, faults >>
  BY <1>4 DEF WriteRecord, Put, MessageSize, Intact, TypeOK
<1> HIDE DEF x
<1>6. /\ file' \in Seq(Cells) /\ ~HasFooter(file') /\ FooterInv' /\ NoStrayFooter'
      /\ Len(file') >= pos + 2 /\ Len(file') <= blockOffset + 3 + FooterSize
      /\ Payload(file', blockOffset) = x
  <2>1. call # "finish" /\ x.kind # "footer" /\ committed' = committed
    BY <1>1, <1>3, <1>5
  <2> QED BY <2>1, <1>1, <1>3, <1>5, MessageWrite
<1>7. /\ SessionDicts = dictBlocks /\ SessionRecs = recBlocks
      /\ SessionDicts' = dictBlocks /\ SessionRecs' = recBlocks'
  BY <1>1, <1>5 DEF SessionDicts, SessionRecs
<1>8. /\ BlocksBelow(file', dictBlocks, recBlocks, blockOffset)
      /\ ReadsAs(file', dictBlocks, recBlocks, accepted)
      /\ \A d : DictOf(file', dictBlocks, d) = DictOf(file, dictBlocks, d)
  BY <1>1, <1>4, <1>5, <1>7, SessionKept
<1>9. /\ dictBlocks \in Blocks /\ recBlocks \in Blocks /\ blockOffset \in Nat
      /\ pos \in Nat /\ accepted \in Seq(Chunks)
  BY DEF Intact, TypeOK
<1>10. /\ recBlocks' \in Blocks /\ Len(recBlocks') = Len(recBlocks) + 1
       /\ Len(recBlocks) \in Nat /\ recBlocks'[Len(recBlocks) + 1] = blockOffset
       /\ \A n \in 1 .. Len(recBlocks) : recBlocks'[n] = recBlocks[n]
       /\ \A n \in 1 .. Len(recBlocks') : n \in 1 .. Len(recBlocks) \/ n = Len(recBlocks) + 1
       /\ recBlocks' # << >>
  <2>1. /\ recBlocks' \in Blocks /\ Len(recBlocks') = Len(recBlocks) + 1
        /\ Len(recBlocks) \in Nat /\ recBlocks'[Len(recBlocks) + 1] = blockOffset
        /\ \A n \in 1 .. Len(recBlocks) : recBlocks'[n] = recBlocks[n]
        /\ \A n \in 1 .. Len(recBlocks') : n \in 1 .. Len(recBlocks) \/ n = Len(recBlocks) + 1
    BY <1>5, <1>9 DEF Blocks
  <2>2. recBlocks' # << >>
    BY <2>1
  <2> QED BY <2>1, <2>2
<1>11. \A i \in Columns : Fields[i] \in Ids /\ DictOf(file', dictBlocks, Fields[i]) = chunk.dicts[i]
  <2> TAKE i \in Columns
  <2>1. Fields[i] \in Ids
    BY FieldsAssumption DEF Columns
  <2>2. DictOf(file, dictBlocks, Fields[i]) = tracker[Fields[i]]
    BY <1>1, <1>7, <2>1 DEF Intact, TrackerInv
  <2> QED BY <2>1, <2>2, <1>1, <1>8
<1>12. BlocksBelow(file', dictBlocks, recBlocks', blockOffset')
  <2>1. \A n \in 1 .. Len(dictBlocks) : dictBlocks[n] + MessageSize <= blockOffset'
    BY <1>5, <1>8, <1>9 DEF BlocksBelow, Blocks, MessageSize
  <2>2. \A n \in 1 .. Len(recBlocks') : recBlocks'[n] + MessageSize <= blockOffset'
    <3>1. \A n \in 1 .. Len(recBlocks) : recBlocks[n] \in Nat /\ recBlocks[n] + MessageSize <= blockOffset
      BY <1>8, <1>9 DEF BlocksBelow, Blocks
    <3> QED BY <3>1, <1>5, <1>9, <1>10 DEF MessageSize
  <2> QED BY <2>1, <2>2, <1>8 DEF BlocksBelow
<1>13. Readable(file', dictBlocks, recBlocks')
  <2>1. \A n \in 1 .. Len(recBlocks') : Payload(file', recBlocks'[n]).kind = "record"
    BY <1>3, <1>6, <1>8, <1>10 DEF ReadsAs, Readable
  <2>2. \A i \in Columns : DictOf(file', dictBlocks, Fields[i]) # NoDict
    BY <1>2, <1>11, NoDictAssumption
  <2> QED BY <2>1, <2>2, <1>8 DEF ReadsAs, Readable
<1>14. Decode(file', dictBlocks, recBlocks') = accepted'
  <2> DEFINE dec(b) == [keys |-> Payload(file', b).keys,
                        dicts |-> [i \in Columns |-> DictOf(file', dictBlocks, Fields[i])]]
  <2>1. dec(blockOffset) = chunk
    <3>1. [i \in Columns |-> DictOf(file', dictBlocks, Fields[i])] = chunk.dicts
      BY <1>2, <1>11
    <3> QED BY <3>1, <1>2, <1>3, <1>6
  <2>2. accepted = [n \in 1 .. Len(recBlocks) |-> dec(recBlocks[n])]
    BY <1>8 DEF ReadsAs, Decode
  <2>3. Decode(file', dictBlocks, recBlocks') = [n \in 1 .. Len(recBlocks') |-> dec(recBlocks'[n])]
    BY DEF Decode
  <2> HIDE DEF dec
  <2>4. Len(accepted) = Len(recBlocks)
    BY <2>2, <1>9, <1>10
  <2>5. accepted' = [n \in 1 .. Len(recBlocks) + 1 |->
                      IF n = Len(recBlocks) + 1 THEN chunk ELSE accepted[n]]
    <3>1. accepted' \in Seq(Chunks) /\ Len(accepted') = Len(recBlocks) + 1
      BY <1>1, <1>5, <1>9, <2>4
    <3>2. accepted' = [n \in 1 .. Len(recBlocks) + 1 |-> accepted'[n]]
      BY <3>1
    <3>3. ASSUME NEW n \in 1 .. Len(recBlocks) + 1
          PROVE  accepted'[n] = IF n = Len(recBlocks) + 1 THEN chunk ELSE accepted[n]
      BY <1>1, <1>5, <1>9, <2>4
    <3> QED BY <3>2, <3>3
  <2>6. ASSUME NEW n \in 1 .. Len(recBlocks) + 1
        PROVE  dec(recBlocks'[n]) = IF n = Len(recBlocks) + 1 THEN chunk ELSE accepted[n]
    BY <1>10, <2>1, <2>2
  <2> QED BY <1>10, <2>3, <2>5, <2>6
<1>15. RecordIsLast(dictBlocks, recBlocks', blockOffset')
  BY <1>5, <1>10 DEF RecordIsLast, MessageSize
<1>16. SessionInv'
  BY <1>7, <1>12, <1>13, <1>14, <1>15 DEF SessionInv, ReadsAs
<1>17. TrackerInv'
  BY <1>1, <1>5, <1>7, <1>8 DEF Intact, TrackerInv
<1>18. PositionInv'
  BY <1>1, <1>5, <1>6, <1>9 DEF PositionInv
<1>19. TypeOK'
  <2>1. accepted' \in Seq(Chunks)
    BY <1>1, <1>5, <1>9
  <2> QED BY <2>1, <1>5, <1>6, <1>9, <1>10 DEF Intact, TypeOK
<1>20. CallInv' /\ NewInv' /\ UntouchedInv'
  BY <1>1, <1>5, <1>6 DEF Intact, CallInv, NewInv, UntouchedInv
<1>21. LostInv'
  BY <1>1, <1>5 DEF LostInv
<1> QED BY <1>6, <1>16, <1>17, <1>18, <1>19, <1>20, <1>21 DEF Intact

\* A torn message harms no footer that is still there.
LEMMA WriteFailsStep ==
  ASSUME Contract, Intact, WriteFails
  PROVE  Intact'
<1>1. /\ Message(Torn) \in Seq(Cells) /\ Len(Message(Torn)) = 2
      /\ Message(Torn)[1] = Cont /\ Message(Torn)[2] = Torn
  BY CellFacts, MessageFacts
<1>2. PICK torn \in TornPrefixes(Message(Torn)) :
        file' = WriteAt(file, pos, torn) /\ pos' = pos + Len(torn)
  BY DEF WriteFails, PutFails, Put
<1>3. /\ torn \in Seq(Cells) /\ Len(torn) \in Nat /\ Len(torn) <= 2
      /\ \A i \in 1 .. Len(torn) : torn[i] = Message(Torn)[i] \/ torn[i] = Torn
  BY <1>1, TornFacts
<1>4. \A i \in 1 .. Len(torn) : torn[i].kind # "footer"
  <2> TAKE i \in 1 .. Len(torn)
  <2>1. i \in 1 .. 2
    BY <1>3
  <2>2. torn[i] \in {Cont, Torn}
    BY <2>1, <1>1, <1>3
  <2> QED BY <2>2 DEF Cont, Torn
<1>5. /\ call = "write" /\ Live /\ broken' = TRUE /\ faults' = faults + 1
      /\ call' = "idle" /\ chunk' = NoChunk /\ pending' = {}
      /\ UNCHANGED << blockOffset, dictBlocks, recBlocks, state, tracker, footer,
                      accepted, committed, lost, spoiled, sessions >>
  BY DEF WriteFails, PutFails, Intact, CallInv, blocks, losses
<1>6. file' \in Seq(Cells) /\ FooterInv' /\ NoStrayFooter'
  <2>1. call # "finish" /\ committed' = committed
    BY <1>5
  <2> QED BY <1>2, <1>3, <1>4, <1>5, <2>1, PlainWrite
<1>7. ~Live' /\ state' \notin {"None", "Dropped"}
  BY <1>5 DEF Live
<1>8. TypeOK'
  BY <1>2, <1>3, <1>5, <1>6 DEF Intact, TypeOK
<1> QED BY <1>5, <1>6, <1>7, <1>8
        DEF Intact, CallInv, NewInv, PositionInv, SessionInv, UntouchedInv, TrackerInv, LostInv

\* The end-of-stream mark overwrites no footer.
LEMMA FinishEosStep ==
  ASSUME Contract, Intact, FinishEos
  PROVE  Intact'
<1>1. /\ << Cont >> \in Seq(Cells) /\ Len(<< Cont >>) = 1
      /\ \A i \in 1 .. Len(<< Cont >>) : << Cont >>[i].kind # "footer"
  BY CellFacts DEF Cont
<1> DEFINE c == << Cont >>
<1>2. /\ state = "Started" /\ call = "idle" /\ ~broken /\ Live /\ Live'
      /\ file' = WriteAt(file, pos, c) /\ pos' = pos + 1
      /\ footer' = Footer(dictBlocks, recBlocks) /\ dictBlocks' = << >> /\ recBlocks' = << >>
      /\ call' = "finish"
      /\ UNCHANGED << blockOffset, state, tracker, chunk, pending, accepted,
                      committed, broken, lost, spoiled, sessions, faults >>
  BY <1>1 DEF FinishEos, Usable, Contract, Live, Put, losses
<1>3. c \in Seq(Cells) /\ Len(c) = 1 /\ \A i \in 1 .. Len(c) : c[i].kind # "footer"
  BY <1>1
<1> HIDE DEF c
<1>4. /\ file' \in Seq(Cells) /\ FooterInv' /\ NoStrayFooter'
      /\ HasFooter(file') => /\ HasFooter(file) /\ FooterStart(file') = FooterStart(file)
                            /\ LastFooter(file') = LastFooter(file)
  BY <1>2, <1>3, PlainWrite
<1>5. /\ file \in Seq(Cells) /\ pos \in Nat /\ pos <= Len(file) /\ pos = blockOffset
      /\ Len(file) \in Nat /\ Len(file) <= blockOffset + 1 + FooterSize /\ FooterSize \in Nat \ {0}
      /\ dictBlocks \in Blocks /\ recBlocks \in Blocks
  BY <1>2, FooterSizeAssumption DEF Intact, TypeOK, PositionInv
<1>6. Len(file') = IF pos + 1 > Len(file) THEN pos + 1 ELSE Len(file)
  <2>1. Len(WriteAt(file, pos, c)) = IF pos + Len(c) > Len(file) THEN pos + Len(c) ELSE Len(file)
    BY <1>3, <1>5, WriteAtProperties
  <2> QED BY <2>1, <1>2, <1>3
<1>7. /\ SessionDicts' = dictBlocks /\ SessionRecs' = recBlocks
      /\ SessionDicts = dictBlocks /\ SessionRecs = recBlocks
  BY <1>2 DEF SessionDicts, SessionRecs, Footer
<1>8. /\ BlocksBelow(file', SessionDicts, SessionRecs, blockOffset)
      /\ ReadsAs(file', SessionDicts, SessionRecs, accepted)
      /\ \A d : DictOf(file', SessionDicts, d) = DictOf(file, SessionDicts, d)
  BY <1>2, <1>3, SessionKept
<1>9. SessionInv' /\ TrackerInv'
  BY <1>2, <1>7, <1>8 DEF Intact, SessionInv, TrackerInv
<1>10. UntouchedInv'
  BY <1>2, <1>4, <1>7 DEF Intact, UntouchedInv
<1>11. PositionInv'
  BY <1>2, <1>5, <1>6 DEF PositionInv
<1>12. TypeOK'
  <2>1. footer' \in Footers /\ << >> \in Blocks
    BY <1>2, <1>5, CellFacts DEF Blocks
  <2> QED BY <2>1, <1>2, <1>4, <1>5 DEF Intact, TypeOK
<1>13. CallInv' /\ NewInv'
  BY <1>2 DEF Intact, CallInv, NewInv
<1>14. LostInv'
  BY <1>2 DEF Intact, LostInv
<1> QED BY <1>4, <1>9, <1>10, <1>11, <1>12, <1>13, <1>14 DEF Intact

\* What a footer written (or half written) by finish gives a reader.
LEMMA FooterWrite ==
  ASSUME Contract, Intact, Live, call = "finish",
         NEW torn \in TornPrefixes(FooterCells(footer)) \cup {FooterCells(footer)},
         file' = WriteAt(file, pos, torn),
         HasFooter(file') => committed' = accepted
  PROVE  file' \in Seq(Cells) /\ FooterInv' /\ (HasFooter(file') => NoStrayFooter')
<1> DEFINE c == FooterCells(footer)
<1>1. /\ c \in Seq(Cells) /\ Len(c) = FooterSize /\ c[1] = footer
      /\ \A i \in 2 .. FooterSize : c[i] = Trailer
      /\ FooterSize \in Nat \ {0} /\ footer \in Footers
  BY FooterCellsFacts, FooterSizeAssumption DEF Intact, TypeOK
<1>2. /\ torn \in Seq(Cells) /\ Len(torn) \in Nat /\ Len(torn) <= FooterSize
      /\ \A i \in 1 .. Len(torn) : torn[i] = c[i] \/ torn[i] = Torn
  <2>1. CASE torn = c
    BY <2>1, <1>1
  <2>2. CASE torn \in TornPrefixes(c)
    BY <2>2, <1>1, TornFacts
  <2> QED BY <2>1, <2>2
<1> HIDE DEF c
<1>3. /\ file \in Seq(Cells) /\ pos \in Nat /\ pos <= Len(file) /\ pos = blockOffset + 1
      /\ Len(file) \in Nat /\ blockOffset \in Nat
      /\ SessionDicts = footer.dictionaries /\ SessionRecs = footer.records
  BY DEF Intact, TypeOK, PositionInv, SessionDicts, SessionRecs
<1>4. /\ file' \in Seq(Cells)
      /\ Len(file') = IF pos + Len(torn) > Len(file) THEN pos + Len(torn) ELSE Len(file)
      /\ \A i \in 1 .. Len(file') :
           file'[i] = IF i \in pos + 1 .. pos + Len(torn) THEN torn[i - pos]
                      ELSE IF i <= Len(file) THEN file[i] ELSE Torn
  <2> DEFINE g == WriteAt(file, pos, torn)
  <2>1. /\ g \in Seq(Cells)
        /\ Len(g) = IF pos + Len(torn) > Len(file) THEN pos + Len(torn) ELSE Len(file)
        /\ \A i \in 1 .. Len(g) :
             g[i] = IF i \in pos + 1 .. pos + Len(torn) THEN torn[i - pos]
                    ELSE IF i <= Len(file) THEN file[i] ELSE Torn
    BY <1>2, <1>3, WriteAtProperties
  <2>2. file' = g
    OBVIOUS
  <2> HIDE DEF g
  <2> QED BY <2>1, <2>2
<1>5. ASSUME NEW i \in 1 .. Len(file'), file'[i].kind = "footer"
      PROVE  i = pos + 1 /\ file'[i] = Footer(SessionDicts, SessionRecs)
  <2>1. CASE i \in pos + 1 .. pos + Len(torn)
    <3>1. file'[i] = torn[i - pos] /\ i - pos \in 1 .. Len(torn)
      BY <2>1, <1>2, <1>3, <1>4
    <3>2. torn[i - pos] = c[i - pos] /\ torn[i - pos].kind = "footer"
      BY <3>1, <1>2, <1>5 DEF Torn
    <3>3. i - pos \notin 2 .. FooterSize
      BY <3>2, <1>1 DEF Trailer
    <3>4. i - pos = 1
      BY <3>1, <3>3, <1>1, <1>2
    <3>5. footer = Footer(SessionDicts, SessionRecs)
      BY <1>1, <1>3 DEF Footers, Footer
    <3> QED BY <3>1, <3>2, <3>4, <3>5, <1>1, <1>3, <2>1
  <2>2. CASE i \notin pos + 1 .. pos + Len(torn)
    <3>1. i \in 1 .. Len(file) /\ file'[i] = file[i]
      BY <2>2, <1>3, <1>4, <1>5 DEF Torn
    <3>2. HasFooter(file) /\ i = FooterStart(file)
      BY <3>1, <1>5 DEF Intact, NoStrayFooter
    <3> QED BY <3>1, <3>2, <1>3 DEF Intact, UntouchedInv, LastFooter
  <2> QED BY <2>1, <2>2
<1>6. ASSUME HasFooter(file')
      PROVE  /\ FooterStart(file') = pos + 1
             /\ LastFooter(file') = Footer(SessionDicts, SessionRecs)
  <2>1. FooterStart(file') \in 1 .. Len(file') /\ file'[FooterStart(file')].kind = "footer"
    BY <1>1, <1>2, <1>3, <1>4, <1>6 DEF HasFooter, FooterStart
  <2> QED BY <2>1, <1>5 DEF LastFooter
<1>7. /\ BlocksBelow(file', SessionDicts, SessionRecs, blockOffset)
      /\ ReadsAs(file', SessionDicts, SessionRecs, accepted)
  BY <1>2, SessionKept
<1>8. RecordIsLast(SessionDicts, SessionRecs, blockOffset)
  BY DEF Intact, SessionInv
<1>9. FooterInv'
  <2> SUFFICES ASSUME HasFooter(file') PROVE FooterInv'
    BY DEF FooterInv
  <2>1. /\ LastFooter(file').dictionaries = SessionDicts
        /\ LastFooter(file').records = SessionRecs
        /\ FooterStart(file') - 2 = blockOffset
    BY <1>3, <1>6 DEF Footer
  <2> QED BY <2>1, <1>3, <1>7, <1>8 DEF FooterInv
<1>10. HasFooter(file') => NoStrayFooter'
  BY <1>5, <1>6 DEF NoStrayFooter
<1> QED BY <1>4, <1>9, <1>10

\* The footer finish writes reads back as the accepted chunks.
LEMMA FinishFooterStep ==
  ASSUME Contract, Intact, FinishFooter
  PROVE  Intact'
<1>1. /\ call = "finish" /\ Live /\ state' = "Finished" /\ call' = "idle" /\ footer' = NoFooter
      /\ committed' = accepted
      /\ file' = WriteAt(file, pos, FooterCells(footer)) /\ pos' = pos + Len(FooterCells(footer))
      /\ UNCHANGED << blockOffset, dictBlocks, recBlocks, tracker, chunk, pending, accepted,
                      broken, lost, spoiled, sessions, faults >>
  BY DEF FinishFooter, Put, Intact, CallInv, blocks, losses
<1>2. file' \in Seq(Cells) /\ FooterInv' /\ (HasFooter(file') => NoStrayFooter')
  BY <1>1, FooterWrite
<1>3. ~Live' /\ state' \notin {"None", "Dropped"}
  BY <1>1 DEF Live
<1>4. TypeOK'
  <2>1. footer' \in Footers /\ Len(FooterCells(footer)) \in Nat
    BY <1>1, NoFooterFacts, FooterCellsFacts, FooterSizeAssumption DEF Intact, TypeOK
  <2> QED BY <2>1, <1>1, <1>2 DEF Intact, TypeOK
<1>5. CallInv'
  BY <1>1 DEF Intact, CallInv
<1> QED BY <1>2, <1>3, <1>4, <1>5
        DEF Intact, NoStrayFooter, NewInv, PositionInv, SessionInv, UntouchedInv, TrackerInv,
            LostInv

\* A finish cut short leaves the old footer, the new one, or none.
LEMMA FinishFailsStep ==
  ASSUME Contract, Intact, FinishFails
  PROVE  Intact'
<1>1. /\ call' = "idle" /\ footer' = NoFooter /\ broken' = TRUE /\ faults' = faults + 1
      /\ UNCHANGED << blockOffset, dictBlocks, recBlocks, state, tracker, chunk, pending,
                      accepted, lost, spoiled, sessions >>
  BY DEF FinishFails, PutFails, blocks, losses
<1>2. /\ state = "Started" /\ pending = {} /\ call # "write"
      /\ Live
  BY DEF FinishFails, Usable, Contract, Intact, CallInv, Live
<1>3. footer' \in Footers
  BY <1>1, NoFooterFacts
<1>4. /\ file' \in Seq(Cells) /\ pos' \in Nat /\ committed' \in Seq(Chunks)
      /\ FooterInv' /\ (HasFooter(file') => NoStrayFooter')
  <2>1. CASE state = "Started" /\ Usable /\ PutFails(<< Cont >>) /\ UNCHANGED committed
    <3> DEFINE c == << Cont >>
    <3>1. c \in Seq(Cells) /\ Len(c) = 1 /\ c[1] = Cont
      BY CellFacts
    <3>2. PICK torn \in TornPrefixes(c) :
            file' = WriteAt(file, pos, torn) /\ pos' = pos + Len(torn)
      BY <2>1 DEF PutFails, Put
    <3> HIDE DEF c
    <3>3. /\ torn \in Seq(Cells) /\ Len(torn) \in Nat /\ Len(torn) <= 1
          /\ \A i \in 1 .. Len(torn) : torn[i] = c[i] \/ torn[i] = Torn
      BY <3>1, TornFacts
    <3>4. \A i \in 1 .. Len(torn) : torn[i].kind # "footer"
      BY <3>1, <3>3 DEF Cont, Torn
    <3>5. call # "finish" /\ committed' = committed
      BY <2>1 DEF Usable
    <3>6. file' \in Seq(Cells) /\ FooterInv' /\ NoStrayFooter'
      BY <1>2, <3>2, <3>3, <3>4, <3>5, PlainWrite
    <3> QED BY <3>2, <3>3, <3>5, <3>6 DEF Intact, TypeOK
  <2>2. CASE /\ call = "finish" /\ PutFails(FooterCells(footer))
             /\ committed' = IF HasFooter(file') THEN accepted ELSE committed
    <3>1. FooterCells(footer) \in Seq(Cells)
      BY FooterCellsFacts DEF Intact, TypeOK
    <3>2. PICK torn \in TornPrefixes(FooterCells(footer)) :
            file' = WriteAt(file, pos, torn) /\ pos' = pos + Len(torn)
      BY <2>2 DEF PutFails, Put
    <3>3. Len(torn) \in Nat
      BY <3>1, TornFacts
    <3>4. file' \in Seq(Cells) /\ FooterInv' /\ (HasFooter(file') => NoStrayFooter')
      BY <1>2, <2>2, <3>2, FooterWrite
    <3> QED BY <2>2, <3>2, <3>3, <3>4 DEF Intact, TypeOK
  <2> QED BY <2>1, <2>2 DEF FinishFails
<1>5. ~Live' /\ state' \notin {"None", "Dropped"}
  BY <1>1, <1>2 DEF Live
<1>6. TypeOK'
  BY <1>1, <1>3, <1>4 DEF Intact, TypeOK
<1>7. CallInv'
  BY <1>1, <1>2 DEF CallInv
<1> QED BY <1>4, <1>5, <1>6, <1>7
        DEF Intact, NoStrayFooter, NewInv, PositionInv, SessionInv, UntouchedInv, TrackerInv,
            LostInv

\* Dropping a writer leaves the file alone.
LEMMA DropWriterStep ==
  ASSUME Intact, DropWriter
  PROVE  Intact'
<1>1. /\ state' = "Dropped" /\ broken' = FALSE /\ call' = "idle" /\ chunk' = NoChunk
      /\ pending' = {} /\ footer' = NoFooter
      /\ UNCHANGED << file, pos, blockOffset, dictBlocks, recBlocks, tracker, accepted,
                      committed, spoiled, sessions, faults >>
      /\ lost' = {}
  BY DEF DropWriter, disk, blocks
<1>2. footer' \in Footers
  BY <1>1, NoFooterFacts
<1>3. ~Live' /\ state' # "None"
  BY <1>1 DEF Live
<1>4. TypeOK' /\ FooterInv' /\ NoStrayFooter' /\ CallInv'
  BY <1>1, <1>2, <1>3 DEF Intact, TypeOK, FooterInv, NoStrayFooter, CallInv
<1> QED BY <1>1, <1>3, <1>4
        DEF Intact, NewInv, PositionInv, SessionInv, UntouchedInv, TrackerInv, LostInv

\* try_from_file resumes the state the last finished session ended in.
LEMMA TryFromFileStep ==
  ASSUME Intact, TryFromFile
  PROVE  Intact'
<1> DEFINE ds == LastFooter(file).dictionaries
           rs == LastFooter(file).records
           end == FooterStart(file) - 2
<1>1. /\ state = "Dropped" /\ HasFooter(file) /\ rs # << >>
      /\ pos' = rs[Len(rs)] + MessageSize /\ blockOffset' = rs[Len(rs)] + MessageSize
      /\ dictBlocks' = ds /\ recBlocks' = rs
      /\ tracker' = [d \in Ids |-> DictOf(file, ds, d)]
      /\ state' = "Started" /\ accepted' = committed /\ sessions' = sessions + 1
      /\ UNCHANGED << file, call, chunk, pending, footer, committed, broken, lost, spoiled, faults >>
  BY DEF TryFromFile, AppendPosition, losses
<1>2. call = "idle" /\ pending = {} /\ call' = "idle" /\ pending' = {} /\ lost = {} /\ lost' = {}
  BY <1>1 DEF Intact, CallInv, LostInv, Live
<1>3. /\ file \in Seq(Cells) /\ FooterSize \in Nat \ {0} /\ Len(file) \in Nat
      /\ FooterStart(file) \in 1 .. Len(file) /\ FooterStart(file) = Len(file) - FooterSize + 1
  BY <1>1, FooterSizeAssumption DEF Intact, TypeOK, HasFooter, FooterStart
<1>4. LastFooter(file) \in Footers /\ LastFooter(file) = Footer(ds, rs)
  <2>1. LastFooter(file) \in Cells /\ LastFooter(file).kind = "footer"
    BY <1>1, <1>3 DEF HasFooter, LastFooter
  <2>2. LastFooter(file) \in Footers
    BY <2>1, CellFacts
  <2> HIDE DEF ds, rs
  <2> QED BY <2>2 DEF Footers, Footer, ds, rs
<1>5. ds \in Blocks /\ rs \in Blocks
  BY <1>4 DEF Footers
<1>6. /\ BlocksBelow(file, ds, rs, end) /\ ReadsAs(file, ds, rs, committed)
      /\ RecordIsLast(ds, rs, end) /\ end >= 0
  BY <1>1 DEF Intact, FooterInv
<1> HIDE DEF ds, rs
<1>7. pos' = end /\ blockOffset' = end /\ end \in Nat
  BY <1>1, <1>3, <1>6 DEF RecordIsLast
<1>8. SessionDicts' = ds /\ SessionRecs' = rs
  BY <1>1, <1>2 DEF SessionDicts, SessionRecs
<1>9. \A d \in Ids : DictOf(file, ds, d) \in Values \cup {NoDict}
  <2> TAKE d \in Ids
  <2>1. CASE \E n \in 1 .. Len(ds) : Payload(file, ds[n]).id = d
    <3>1. PICK n \in 1 .. Len(ds) : Payload(file, ds[n]).id = d
      BY <2>1
    <3>2. /\ Payload(file, ds[n]).kind = "dictionary"
          /\ \A m \in 1 .. Len(ds) : Payload(file, ds[m]).id = Payload(file, ds[n]).id => m = n
      BY <1>6 DEF ReadsAs, Readable, BlocksBelow
    <3>3. DictOf(file, ds, Payload(file, ds[n]).id) = Payload(file, ds[n]).value
      BY <1>5, <3>2, DictOfBlock
    <3>4. Payload(file, ds[n]) \in Cells
      BY <1>3, CellFacts DEF Payload
    <3> QED BY <3>1, <3>2, <3>3, <3>4, CellFacts
  <2>2. CASE \A n \in 1 .. Len(ds) : Payload(file, ds[n]).id # d
    BY <2>2, DictOfNone
  <2> QED BY <2>1, <2>2
<1>10. TypeOK'
  <2>1. tracker' \in Tracker
    BY <1>1, <1>9 DEF Tracker
  <2> QED BY <2>1, <1>1, <1>5, <1>7 DEF Intact, TypeOK
<1>11. Live' => ~broken'
  BY DEF Live
<1>12. SessionInv'
  BY <1>1, <1>2, <1>6, <1>7, <1>8 DEF SessionInv
<1>13. TrackerInv'
  BY <1>1, <1>2, <1>8 DEF TrackerInv
<1>14. PositionInv'
  <2>1. call' # "finish" /\ file' = file
    BY <1>1, <1>2
  <2> QED BY <2>1, <1>3, <1>7 DEF PositionInv
<1>15. UntouchedInv'
  BY <1>1, <1>3, <1>4, <1>7, <1>8 DEF UntouchedInv
<1>16. FooterInv' /\ NoStrayFooter' /\ CallInv' /\ NewInv'
  BY <1>1, <1>2 DEF Intact, FooterInv, NoStrayFooter, CallInv, NewInv
<1>17. LostInv'
  BY <1>2 DEF LostInv
<1> QED BY <1>10, <1>12, <1>13, <1>14, <1>15, <1>16, <1>17 DEF Intact
-----------------------------------------------------------------------------
(* Types, whatever was written.                                             *)

\* What a write that completes or fails leaves.
LEMMA PutType ==
  ASSUME TypeOK, NEW cells \in Seq(Cells), Put(cells) \/ PutFails(cells)
  PROVE  file' \in Seq(Cells) /\ pos' \in Nat
<1>1. file \in Seq(Cells) /\ pos \in Nat
  BY DEF TypeOK
<1>2. ASSUME NEW c \in Seq(Cells), Put(c) PROVE file' \in Seq(Cells) /\ pos' \in Nat
  <2>1. file' = WriteAt(file, pos, c) /\ pos' = pos + Len(c)
    BY <1>2 DEF Put
  <2>2. WriteAt(file, pos, c) \in Seq(Cells)
    BY <1>1, WriteAtProperties
  <2>3. pos + Len(c) \in Nat
    BY <1>1
  <2> QED BY <2>1, <2>2, <2>3
<1>3. CASE PutFails(cells)
  <2>1. PICK torn \in TornPrefixes(cells) : Put(torn)
    BY <1>3 DEF PutFails
  <2>2. torn \in Seq(Cells)
    BY TornFacts
  <2> QED BY <1>2, <2>1, <2>2
<1> QED BY <1>2, <1>3

\* A reader finds a dictionary or none.
LEMMA DictOfType ==
  ASSUME NEW f \in Seq(Cells), NEW ds \in Blocks, NEW d
  PROVE  DictOf(f, ds, d) \in Values \cup {NoDict}
<1> DEFINE mine == {n \in 1 .. Len(ds) :
                      /\ Payload(f, ds[n]).kind = "dictionary"
                      /\ Payload(f, ds[n]).id = d}
<1>1. DictOf(f, ds, d) = IF mine = {} THEN NoDict ELSE Payload(f, ds[Greatest(mine)]).value
  BY DEF DictOf
<1>2. \A n \in mine : Payload(f, ds[n]).kind = "dictionary"
  OBVIOUS
<1>3. mine \subseteq 1 .. Len(ds) /\ Len(ds) \in Nat
  BY DEF Blocks
<1> HIDE DEF mine
<1>4. ASSUME mine # {} PROVE Payload(f, ds[Greatest(mine)]).value \in Values
  <2>1. Greatest(mine) \in mine
    BY <1>3, <1>4, GreatestOfSome
  <2>2. \A b : Payload(f, b) \in Cells
    BY CellFacts DEF Payload
  <2> QED BY <1>2, <2>1, <2>2, CellFacts
<1> QED BY <1>1, <1>4

\* Every action keeps the types and, for a caller that drops a broken writer, what is known of
\* the call in progress.
LEMMA TypeStep ==
  ASSUME Contract, TypeOK, CallInv, [Next]_vars
  PROVE  TypeOK' /\ CallInv'
<1>1. StartCells \in Seq(Cells) /\ << Cont >> \in Seq(Cells) /\ Message(Torn) \in Seq(Cells)
      /\ FooterCells(footer) \in Seq(Cells) /\ << >> \in Blocks /\ NoFooter \in Footers
  BY CellFacts, MessageFacts, FooterCellsFacts, NoFooterFacts DEF StartCells, Message, TypeOK, Blocks
<1>2. CASE Start
  BY <1>1, <1>2, PutType DEF Start, TypeOK, CallInv, Usable, Live, losses, HeaderSize, MessageSize
<1>3. CASE StartFails
  BY <1>1, <1>3, PutType
     DEF StartFails, PutFails, TypeOK, CallInv, Usable, Live, blocks, losses
<1>4. ASSUME NEW c \in Chunks, Write(c) PROVE TypeOK' /\ CallInv'
  <2>1. tracker' \in Tracker
    BY <1>4, TrackedType DEF Write, TypeOK
  <2> QED BY <1>4, <2>1
          DEF Write, Usable, Contract, TypeOK, CallInv, Live, Emitted, disk, blocks, losses
<1>5. ASSUME NEW c \in Chunks, WriteRefused(c) PROVE TypeOK' /\ CallInv'
  <2>1. PICK n \in Refusals(tracker, c.dicts, TRUE, Stops) :
          tracker' = Recorded(tracker, c.dicts, 1 .. n) /\ lost' = lost \cup Left(tracker, c.dicts, n)
    BY <1>5 DEF WriteRefused
  <2>2. 1 .. n \subseteq Columns
    BY DEF Refusals, Inserted
  <2>3. tracker' \in Tracker
    BY <2>1, <2>2, RecordedType DEF TypeOK
  <2>4. lost' \subseteq Ids
    BY <2>1, FieldsAssumption DEF Left, Emitted, Columns, TypeOK
  <2> QED BY <1>5, <2>3, <2>4 DEF WriteRefused, TypeOK, CallInv, Live, disk, blocks
<1>6. CASE WriteDictionary
  <2>1. PICK i \in pending : /\ Put(Message(Dict(Fields[i], chunk.dicts[i])))
                            /\ pending' = pending \ {i}
    BY <1>6 DEF WriteDictionary
  <2>2. i \in Columns /\ chunk \in Chunks
    BY <1>6 DEF WriteDictionary, TypeOK, CallInv
  <2>3. Fields[i] \in Ids /\ chunk.dicts[i] \in Values
    BY <2>2, FieldsAssumption DEF Columns, Chunks
  <2>4. file' \in Seq(Cells) /\ pos' \in Nat
    BY <2>1, <2>3, CellFacts, MessageFacts, PutType
  <2> QED BY <1>6, <2>1, <2>4
          DEF WriteDictionary, TypeOK, CallInv, Live, Blocks, losses, MessageSize
<1>7. CASE WriteRecord
  <2>1. chunk \in Chunks /\ chunk.keys \in Keys
    BY <1>7 DEF WriteRecord, CallInv, Chunks
  <2>2. file' \in Seq(Cells) /\ pos' \in Nat
    BY <1>7, <2>1, CellFacts, MessageFacts, PutType DEF WriteRecord
  <2> QED BY <1>7, <2>1, <2>2 DEF WriteRecord, TypeOK, CallInv, Live, Blocks, MessageSize
<1>8. CASE WriteFails
  BY <1>1, <1>8, PutType DEF WriteFails, PutFails, TypeOK, CallInv, Live, blocks, losses
<1>9. CASE FinishEos
  <2>1. Footer(dictBlocks, recBlocks) \in Footers
    BY CellFacts DEF TypeOK
  <2> QED BY <1>1, <1>9, <2>1, PutType
          DEF FinishEos, TypeOK, CallInv, Usable, Contract, Live, losses
<1>10. CASE FinishFooter
  BY <1>1, <1>10, PutType DEF FinishFooter, TypeOK, CallInv, Live, blocks, losses
<1>11. CASE FinishFails
  <2>1. file' \in Seq(Cells) /\ pos' \in Nat /\ faults' = faults + 1 /\ broken' = TRUE
    BY <1>1, <1>11, PutType DEF FinishFails, PutFails
  <2>2. committed' \in {accepted, committed} /\ pending = {}
    BY <1>11 DEF FinishFails, Usable, CallInv
  <2> QED BY <1>1, <1>11, <2>1, <2>2 DEF FinishFails, TypeOK, CallInv, blocks, losses
<1>12. CASE DropWriter
  BY <1>1, <1>12 DEF DropWriter, TypeOK, CallInv, disk, blocks
<1>13. CASE TryFromFile
  <2>1. LastFooter(file) \in Footers
    <3>1. FooterStart(file) \in 1 .. Len(file)
      BY <1>13, FooterSizeAssumption DEF TryFromFile, TypeOK, HasFooter, FooterStart
    <3>2. LastFooter(file) \in Cells /\ LastFooter(file).kind = "footer"
      BY <1>13, <3>1 DEF TryFromFile, TypeOK, HasFooter, LastFooter
    <3> QED BY <3>2, CellFacts
  <2>2. LastFooter(file).dictionaries \in Blocks /\ LastFooter(file).records \in Blocks
    BY <2>1 DEF Footers
  <2>3. LastFooter(file).records[Len(LastFooter(file).records)] \in Nat
    BY <1>13, <2>2 DEF TryFromFile, Blocks
  <2>4. tracker' \in Tracker
    BY <1>13, <2>2, DictOfType DEF TryFromFile, TypeOK, Tracker
  <2> QED BY <1>13, <2>2, <2>3, <2>4
          DEF TryFromFile, TypeOK, CallInv, Live, AppendPosition, MessageSize, losses
<1>14. CASE UNCHANGED vars
  BY <1>14 DEF vars, disk, blocks, losses, TypeOK, CallInv, Live
<1> QED BY <1>2, <1>3, <1>4, <1>5, <1>6, <1>7, <1>8, <1>9, <1>10, <1>11, <1>12, <1>13, <1>14
        DEF Next
-----------------------------------------------------------------------------
\* A step that writes no record without its dictionaries keeps the file intact.
LEMMA IntactStep ==
  ASSUME Contract, Intact, [Next]_vars, ~spoiled'
  PROVE  Intact'
<1>1. CASE Start
  BY <1>1, StartStep
<1>2. CASE StartFails
  BY <1>2, StartFailsStep
<1>3. ASSUME NEW c \in Chunks, Write(c) PROVE Intact'
  BY <1>3, WriteStep
<1>4. ASSUME NEW c \in Chunks, WriteRefused(c) PROVE Intact'
  BY <1>4, WriteRefusedStep
<1>5. CASE WriteDictionary
  BY <1>5, WriteDictionaryStep
<1>6. CASE WriteRecord
  <2>1. lost = {}
    BY <1>6 DEF WriteRecord
  <2> QED BY <1>6, <2>1, WriteRecordStep
<1>7. CASE WriteFails
  BY <1>7, WriteFailsStep
<1>8. CASE FinishEos
  BY <1>8, FinishEosStep
<1>9. CASE FinishFooter
  BY <1>9, FinishFooterStep
<1>10. CASE FinishFails
  BY <1>10, FinishFailsStep
<1>11. CASE DropWriter
  BY <1>11, DropWriterStep
<1>12. CASE TryFromFile
  BY <1>12, TryFromFileStep
<1>13. CASE UNCHANGED vars
  BY <1>13 DEF vars, disk, blocks, losses, Intact, TypeOK, CallInv, NewInv, FooterInv,
     NoStrayFooter, PositionInv, SessionInv, UntouchedInv, TrackerInv, LostInv, Live,
     SessionDicts, SessionRecs
<1> QED BY <1>1, <1>2, <1>3, <1>4, <1>5, <1>6, <1>7, <1>8, <1>9, <1>10, <1>11, <1>12, <1>13
        DEF Next

\* A file once spoiled stays so.
LEMMA SpoiledStays ==
  ASSUME TypeOK, spoiled, [Next]_vars
  PROVE  spoiled'
BY DEF TypeOK, Next, vars, losses, Start, StartFails, Write, WriteRefused, WriteDictionary, WriteRecord,
       WriteFails, FinishEos, FinishFooter, FinishFails, DropWriter, TryFromFile

\* IInv is inductive for every choice of columns, ids, dictionaries and bounds.
LEMMA NextStep ==
  ASSUME Contract, IInv, [Next]_vars
  PROVE  IInv'
<1>1. TypeOK' /\ CallInv'
  BY TypeStep DEF IInv
<1>2. CASE spoiled
  <2>1. spoiled'
    BY <1>2, SpoiledStays DEF IInv
  <2> QED BY <1>1, <2>1 DEF IInv
<1>3. CASE ~spoiled
  <2>1. Intact
    BY <1>3 DEF IInv
  <2>2. spoiled' \/ Intact'
    BY <2>1, IntactStep
  <2> QED BY <1>1, <2>2 DEF IInv
<1> QED BY <1>2, <1>3

\* The writer's state, and what it says of the file, is right at every step of
\* every sequence of sessions (FileWriter and try_from_file), until a record is
\* written after a refused write lost a dictionary.
THEOREM Inductive ==
  ASSUME Contract
  PROVE  Spec => []IInv
<1>1. Init => IInv
  BY InitStep DEF IInv, Intact
<1>2. IInv /\ [Next]_vars => IInv'
  BY NextStep
<1> QED BY <1>1, <1>2, PTL DEF Spec

\* A file that ends in a footer reads back, chunk for chunk, what the last
\* finished session wrote, whatever happened to the writers since.
THEOREM FileReadsBack == Spec => []FooterReadsBack
<1>1. CASE Contract
  <2>1. IInv => FooterReadsBack
    BY DEF IInv, Intact, FooterInv, ReadsAs, FooterReadsBack
  <2> QED BY <1>1, <2>1, Inductive, PTL
<1>2. CASE ~Contract
  <2>1. FooterReadsBack
    BY <1>2 DEF Contract, FooterReadsBack
  <2> QED BY <2>1, PTL
<1> QED BY <1>1, <1>2

\* A dictionary the tracker holds is the one a reader finds, wherever
\* encode_chunk refused chunks (a replacement, a missing id, children that do not
\* match), except that a refusal before the first record leaves dictionaries
\* tracked that were never written; with a record in the session none does.
THEOREM RefusalsLoseEarly ==
  ASSUME Contract
  PROVE  Spec => []OnlyEarlyRefusalsLose
<1>1. IInv => OnlyEarlyRefusalsLose
  <2> SUFFICES ASSUME IInv, state = "Started", call = "idle", ~broken, ~spoiled,
                      NEW d \in Ids, tracker[d] # NoDict, DictOf(file, dictBlocks, d) # tracker[d]
               PROVE  d \in lost /\ recBlocks = << >>
    BY DEF OnlyEarlyRefusalsLose
  <2>1. Intact /\ Live /\ pending = {} /\ SessionDicts = dictBlocks /\ SessionRecs = recBlocks
    BY DEF IInv, Intact, CallInv, Live, SessionDicts, SessionRecs
  <2>2. d \in lost
    BY <2>1 DEF Intact, TrackerInv
  <2>3. accepted = << >>
    BY <2>1, <2>2 DEF Intact, LostInv
  <2>4. Decode(file, dictBlocks, recBlocks) = << >> /\ recBlocks \in Seq(Nat)
    BY <2>1, <2>3 DEF Intact, SessionInv, ReadsAs, TypeOK, Blocks
  <2>5. recBlocks = << >>
    BY <2>4 DEF Decode
  <2> QED BY <2>2, <2>5
<1> QED BY <1>1, Inductive, PTL
-----------------------------------------------------------------------------
(***************************************************************************)
(* FileWriter implements AtomicFile: whoever opens the file sees the whole *)
(* of a finished session or nothing.  Intact says what the refinement        *)
(* mapping evaluates to, and each action is then one of AtomicFile's.      *)
(***************************************************************************)

\* A session is in progress, as the mapping has it.
Open == state \in {"None", "Started"} /\ ~broken /\ ~spoiled

\* The mapped log and file, in terms of the history, while the file is not spoiled.
View ==
  /\ SessionLog = IF Live THEN accepted ELSE << >>
  /\ Stored = IF HasFooter(file) THEN committed ELSE Unreadable

\* What the blocks and the last footer read back as is what was accepted and
\* committed.
LEMMA ViewOfFile == Intact /\ ~spoiled => View
<1> SUFFICES ASSUME Intact, ~spoiled PROVE View
  OBVIOUS
<1>1. Stored = IF HasFooter(file) THEN committed ELSE Unreadable
  BY DEF Intact, FooterInv, ReadsAs, Stored
<1>2. CASE Live
  <2>1. Decode(file, SessionDicts, SessionRecs) = accepted
    BY <1>2 DEF Intact, SessionInv, ReadsAs
  <2>2. SessionLog = Decode(file, SessionDicts, SessionRecs)
    BY <1>2 DEF Live, SessionLog, SessionDicts, SessionRecs
  <2> QED BY <1>1, <1>2, <2>1, <2>2 DEF View
<1>3. CASE ~Live
  <2>1. SessionLog = << >>
    BY <1>3 DEF Live, SessionLog
  <2> QED BY <1>1, <1>3, <2>1 DEF View
<1> QED BY <1>2, <1>3

\* The same after a step.
LEMMA NextViewOfFile == Intact' /\ ~spoiled' => View'
<1>1. Intact /\ ~spoiled => View
  BY ViewOfFile
<1> QED BY <1>1, PTL

\* start, complete or not, leaves no file a reader could open.
LEMMA StartIsAtomic ==
  ASSUME Contract, Intact, Intact', View, View', ~spoiled, ~spoiled', Start \/ StartFails
  PROVE  [Contents!Next]_Contents!vars
<1>1. state = "None" /\ ~broken /\ ~HasFooter(file) /\ accepted = << >> /\ ~Live
  BY DEF Start, StartFails, Usable, Contract, Intact, NewInv, Live
<1>2. SessionLog = << >> /\ Stored = Unreadable /\ Open
  BY <1>1 DEF View, Open
<1>3. CASE Start
  <2>1. state' = "Started" /\ ~broken' /\ accepted' = << >> /\ call' # "finish"
    BY <1>1, <1>3 DEF Start, Usable
  <2>2. ~HasFooter(file')
    <3>1. SUFFICES ASSUME HasFooter(file') PROVE FALSE
      OBVIOUS
    <3>2. FooterStart(file') = blockOffset' + 2
      BY <2>1, <3>1 DEF Intact, UntouchedInv, Live
    <3>3. blockOffset' = 3 /\ file = << >> /\ pos = 0
      BY <1>1, <1>3 DEF Start, Intact, NewInv, HeaderSize, MessageSize
    <3>4. Len(file') = 3 /\ FooterSize \in Nat \ {0}
      <4>1. StartCells \in Seq(Cells) /\ Len(StartCells) = 3
        BY CellFacts DEF StartCells, Message
      <4>2. Len(WriteAt(<< >>, 0, StartCells)) =
              IF 0 + Len(StartCells) > Len(<< >>) THEN 0 + Len(StartCells) ELSE Len(<< >>)
        <5>1. << >> \in Seq(Cells) /\ 0 \in Nat
          OBVIOUS
        <5> QED BY <4>1, <5>1, WriteAtProperties
      <4> QED BY <1>3, <3>3, <4>1, <4>2, FooterSizeAssumption DEF Start, Put
    <3> QED BY <3>2, <3>3, <3>4 DEF FooterStart
  <2>3. SessionLog' = << >> /\ Stored' = Unreadable /\ Open'
    BY <2>1, <2>2 DEF View, Open
  <2> QED BY <1>2, <2>3 DEF Contents!vars, Open
<1>4. CASE StartFails
  <2>1. state' = "None" /\ broken'
    BY <1>1, <1>4 DEF StartFails, PutFails
  <2>2. SessionLog' = << >> /\ Stored' = Unreadable /\ ~Open'
    BY <2>1 DEF View, Open, Live, Intact, NewInv
  <2> QED BY <1>2, <2>2 DEF Contents!Next, Contents!Abandon, Contents!MayBreak, Open
<1> QED BY <1>3, <1>4

\* A write without a footer cell changes no finished file, except to break it.
LEMMA PlainWriteBreaks ==
  ASSUME Intact, View, View', Live, call # "finish",
         NEW c \in Seq(Cells), \A i \in 1 .. Len(c) : c[i].kind # "footer",
         file' = WriteAt(file, pos, c), committed' = committed
  PROVE  Stored' \in {Stored, Unreadable}
<1>1. HasFooter(file') => HasFooter(file)
  BY PlainWrite
<1> QED BY <1>1 DEF View

\* A message or a mark may break the file; only a record adds to the log.
LEMMA MessagesAreAtomic ==
  ASSUME Contract, Intact, Intact', View, View', ~spoiled, ~spoiled',
         WriteDictionary \/ WriteRecord \/ FinishEos
  PROVE  [Contents!Next]_Contents!vars
<1>1. Live /\ call # "finish" /\ SessionLog = accepted /\ Open
  BY DEF WriteDictionary, WriteRecord, FinishEos, Usable, Contract, Intact, CallInv, Live, View, Open
<1>2. state' = "Started" /\ ~broken' /\ committed' = committed /\ SessionLog' = accepted' /\ Open'
  BY <1>1 DEF WriteDictionary, WriteRecord, FinishEos, Live, View, Open
<1>3. Stored' \in {Stored, Unreadable}
  <2>1. ASSUME NEW x \in Cells, x.kind # "footer", file' = WriteAt(file, pos, Message(x))
        PROVE  Stored' \in {Stored, Unreadable}
    <3>1. /\ Message(x) \in Seq(Cells)
          /\ \A i \in 1 .. Len(Message(x)) : Message(x)[i].kind # "footer"
      BY <2>1, MessageFacts DEF Cont
    <3> QED BY <1>1, <1>2, <2>1, <3>1, PlainWriteBreaks
  <2>2. CASE WriteDictionary
    <3>1. PICK i \in pending : file' = WriteAt(file, pos, Message(Dict(Fields[i], chunk.dicts[i])))
      BY <2>2 DEF WriteDictionary, Put
    <3>2. Fields[i] \in Ids /\ chunk.dicts[i] \in Values
      <4>1. i \in Columns /\ chunk \in Chunks
        BY <2>2 DEF WriteDictionary, Intact, TypeOK, CallInv
      <4> QED BY <4>1, FieldsAssumption DEF Columns, Chunks
    <3> QED BY <2>1, <3>1, <3>2, CellFacts DEF Dict
  <2>3. CASE WriteRecord
    <3>1. chunk.keys \in Keys
      BY <2>3 DEF WriteRecord, Intact, CallInv, Chunks
    <3> QED BY <2>1, <2>3, <3>1, CellFacts DEF WriteRecord, Put, Record
  <2>4. CASE FinishEos
    <3>1. << Cont >> \in Seq(Cells) /\ \A i \in 1 .. Len(<< Cont >>) : << Cont >>[i].kind # "footer"
      BY CellFacts DEF Cont
    <3> QED BY <1>1, <1>2, <2>4, <3>1, PlainWriteBreaks DEF FinishEos, Put
  <2> QED BY <2>2, <2>3, <2>4
<1>4. CASE WriteRecord
  <2>1. chunk \in Chunks /\ SessionLog' = Append(SessionLog, chunk)
    BY <1>1, <1>2, <1>4 DEF WriteRecord, Intact, CallInv
  <2> QED BY <1>1, <1>2, <1>3, <2>1
          DEF Contents!Next, Contents!AppendChunk, Contents!MayBreak, Open
<1>5. CASE WriteDictionary \/ FinishEos
  <2>1. SessionLog' = SessionLog
    BY <1>1, <1>2, <1>5 DEF WriteDictionary, FinishEos
  <2> QED BY <1>1, <1>2, <1>3, <2>1 DEF Contents!Next, Contents!Break, Contents!vars, Open
<1> QED BY <1>4, <1>5

\* A write that fails, and a writer that is dropped, abandon the session.
LEMMA FailuresAreAtomic ==
  ASSUME Contract, Intact, Intact', View, View', ~spoiled, ~spoiled', WriteFails \/ DropWriter
  PROVE  [Contents!Next]_Contents!vars
<1>1. ~Live' /\ ~Open' /\ SessionLog' = << >> /\ committed' = committed
  BY DEF WriteFails, DropWriter, PutFails, View, Live, Open, Intact, CallInv
<1>2. CASE WriteFails
  <2>1. Live /\ call # "finish" /\ Open
    BY <1>2 DEF WriteFails, Intact, CallInv, Live, Open
  <2>2. PICK torn \in TornPrefixes(Message(Torn)) : file' = WriteAt(file, pos, torn)
    BY <1>2 DEF WriteFails, PutFails, Put
  <2>3. torn \in Seq(Cells) /\ \A i \in 1 .. Len(torn) : torn[i].kind # "footer"
    <3>1. Torn \in Cells /\ Message(Torn) \in Seq(Cells) /\ Len(Message(Torn)) = 2
          /\ Message(Torn)[1] = Cont /\ Message(Torn)[2] = Torn
      BY CellFacts, MessageFacts
    <3>2. /\ torn \in Seq(Cells) /\ Len(torn) \in Nat /\ Len(torn) <= 2
          /\ \A i \in 1 .. Len(torn) : torn[i] = Message(Torn)[i] \/ torn[i] = Torn
      BY <3>1, TornFacts
    <3>3. ASSUME NEW i \in 1 .. Len(torn) PROVE torn[i].kind # "footer"
      <4>1. i = 1 \/ i = 2
        BY <3>2
      <4> QED BY <3>1, <3>2, <4>1 DEF Cont, Torn
    <3> QED BY <3>2, <3>3
  <2>4. Stored' \in {Stored, Unreadable}
    BY <1>1, <2>1, <2>2, <2>3, PlainWriteBreaks
  <2> QED BY <1>1, <2>1, <2>4 DEF Contents!Next, Contents!Abandon, Contents!MayBreak, Open
<1>3. CASE DropWriter
  <2>1. Stored' = Stored
    BY <1>1, <1>3 DEF DropWriter, View, disk
  <2>2. CASE Open
    BY <1>1, <2>1, <2>2 DEF Contents!Next, Contents!Abandon, Contents!MayBreak, Open
  <2>3. CASE ~Open
    <3>1. SessionLog = << >>
      BY <2>3 DEF View, Live, Open
    <3> QED BY <1>1, <2>1, <2>3, <3>1 DEF Contents!vars, Open
  <2> QED BY <2>2, <2>3
<1> QED BY <1>2, <1>3

\* The footer finish writes is the last thing in the file.
LEMMA FooterIsLast ==
  ASSUME Intact, Live, call = "finish", file' = WriteAt(file, pos, FooterCells(footer))
  PROVE  HasFooter(file')
<1> DEFINE c == FooterCells(footer)
           g == WriteAt(file, pos, c)
<1>1. /\ c \in Seq(Cells) /\ Len(c) = FooterSize /\ c[1] = footer
      /\ \A i \in 2 .. FooterSize : c[i] = Trailer
      /\ FooterSize \in Nat \ {0} /\ footer.kind = "footer"
  BY FooterCellsFacts, FooterSizeAssumption DEF Intact, TypeOK, Footers
<1> HIDE DEF c
<1>2. /\ file \in Seq(Cells) /\ pos \in Nat /\ Len(file) \in Nat
      /\ Len(file) <= pos + FooterSize
  BY DEF Intact, TypeOK, PositionInv
<1>3. /\ Len(g) = pos + FooterSize
      /\ \A i \in pos + 1 .. pos + FooterSize : g[i] = c[i - pos]
  <2>1. /\ Len(g) = IF pos + Len(c) > Len(file) THEN pos + Len(c) ELSE Len(file)
        /\ \A i \in 1 .. Len(g) :
             g[i] = IF i \in pos + 1 .. pos + Len(c) THEN c[i - pos]
                    ELSE IF i <= Len(file) THEN file[i] ELSE Torn
    BY <1>1, <1>2, WriteAtProperties
  <2> HIDE DEF g
  <2>2. Len(g) = pos + FooterSize
    <3>1. Len(c) = FooterSize /\ FooterSize \in Nat
      BY <1>1
    <3>2. Len(g) = IF pos + FooterSize > Len(file) THEN pos + FooterSize ELSE Len(file)
      BY <2>1, <3>1
    <3> QED BY <1>2, <3>1, <3>2
  <2>3. \A i \in pos + 1 .. pos + FooterSize : i \in 1 .. Len(g)
    BY <1>1, <1>2, <2>2
  <2> QED BY <1>1, <2>1, <2>2, <2>3
<1> HIDE DEF g
<1>4. FooterStart(g) = pos + 1 /\ FooterStart(g) >= 1 /\ g[pos + 1].kind = "footer"
  <2>1. pos + 1 \in pos + 1 .. pos + FooterSize /\ (pos + 1) - pos = 1
    BY <1>1, <1>2
  <2>2. g[pos + 1] = footer
    BY <1>1, <1>3, <2>1
  <2>3. FooterStart(g) = pos + 1
    BY <1>1, <1>2, <1>3 DEF FooterStart
  <2> QED BY <1>1, <1>2, <2>2, <2>3
<1>5. ASSUME NEW i \in pos + 2 .. Len(g) PROVE g[i] = Trailer
  <2>1. i \in pos + 1 .. pos + FooterSize /\ i - pos \in 2 .. FooterSize
    BY <1>1, <1>2, <1>3
  <2> QED BY <1>1, <1>3, <2>1
<1>6. HasFooter(g)
  BY <1>2, <1>4, <1>5 DEF HasFooter
<1> QED BY <1>6 DEF g, c

\* The footer commits the session; without all of it the file is as it was or broken.
LEMMA FinishIsAtomic ==
  ASSUME Contract, Intact, Intact', View, View', ~spoiled, ~spoiled', FinishFooter \/ FinishFails
  PROVE  [Contents!Next]_Contents!vars
<1>1. Live /\ Open /\ SessionLog = accepted
  BY DEF FinishFooter, FinishFails, Usable, Contract, Intact, CallInv, Live, Open, View
<1>2. ~Live' /\ ~Open' /\ SessionLog' = << >>
  BY <1>1 DEF FinishFooter, FinishFails, PutFails, Live, Open, View
<1>3. ASSUME HasFooter(file'), committed' = accepted PROVE Contents!Commit
  BY <1>1, <1>2, <1>3 DEF Contents!Commit, View, Open
<1>4. ASSUME Stored' \in {Stored, Unreadable} PROVE Contents!Abandon
  BY <1>1, <1>2, <1>4 DEF Contents!Abandon, Contents!MayBreak, Open
<1>5. CASE FinishFooter
  <2>1. HasFooter(file')
    BY <1>1, <1>5, FooterIsLast DEF FinishFooter, Put
  <2> QED BY <1>3, <1>5, <2>1 DEF FinishFooter, Contents!Next
<1>6. CASE FinishFails
  <2>1. CASE call = "finish" /\ committed' = IF HasFooter(file') THEN accepted ELSE committed
    <3>1. CASE HasFooter(file')
      BY <1>3, <2>1, <3>1 DEF Contents!Next
    <3>2. CASE ~HasFooter(file')
      BY <1>4, <3>2 DEF View, Contents!Next
    <3> QED BY <3>1, <3>2
  <2>2. CASE state = "Started" /\ Usable /\ PutFails(<< Cont >>) /\ UNCHANGED committed
    <3>1. PICK torn \in TornPrefixes(<< Cont >>) : file' = WriteAt(file, pos, torn)
      BY <2>2 DEF PutFails, Put
    <3>2. torn \in Seq(Cells) /\ \A i \in 1 .. Len(torn) : torn[i].kind # "footer"
      <4> DEFINE c == << Cont >>
      <4>1. c \in Seq(Cells) /\ Len(c) = 1 /\ c[1] = Cont
        BY CellFacts
      <4> HIDE DEF c
      <4>2. /\ torn \in Seq(Cells) /\ Len(torn) \in Nat /\ Len(torn) <= 1
            /\ \A i \in 1 .. Len(torn) : torn[i] = c[i] \/ torn[i] = Torn
        <5>1. /\ torn \in Seq(Cells) /\ Len(torn) <= Len(c)
              /\ \A i \in 1 .. Len(torn) : torn[i] = c[i] \/ torn[i] = Torn
          BY <3>1, <4>1, TornFacts DEF c
        <5> QED BY <4>1, <5>1
      <4> QED BY <4>1, <4>2 DEF Cont, Torn
    <3>3. call # "finish" /\ committed' = committed
      BY <2>2 DEF Usable
    <3>4. Stored' \in {Stored, Unreadable}
      BY <1>1, <3>1, <3>2, <3>3, PlainWriteBreaks
    <3> QED BY <1>4, <3>4 DEF Contents!Next
  <2> QED BY <1>6, <2>1, <2>2 DEF FinishFails
<1> QED BY <1>5, <1>6

\* A dropped writer leaves no error behind.
DroppedIsWhole == state = "Dropped" => ~broken

LEMMA DroppedStep ==
  ASSUME TypeOK, CallInv, DroppedIsWhole, [Next]_vars
  PROVE  DroppedIsWhole'
<1>1. call # "idle" => state = "Started"
  BY DEF CallInv, Live
<1>2. CASE \E c \in Chunks : Write(c) \/ WriteRefused(c)
  BY <1>2 DEF Write, WriteRefused, DroppedIsWhole
<1>3. CASE Start \/ StartFails \/ WriteDictionary \/ WriteRecord \/ WriteFails
  BY <1>1, <1>3 DEF Start, StartFails, PutFails, WriteDictionary, WriteRecord, WriteFails,
                    DroppedIsWhole
<1>4. CASE FinishEos \/ FinishFooter \/ FinishFails
  BY <1>1, <1>4 DEF FinishEos, FinishFooter, FinishFails, PutFails, DroppedIsWhole
<1>5. CASE DropWriter \/ TryFromFile \/ UNCHANGED vars
  BY <1>5 DEF DropWriter, TryFromFile, vars, DroppedIsWhole
<1> QED BY <1>2, <1>3, <1>4, <1>5 DEF Next

\* try_from_file takes up the session the file holds.
LEMMA ReopenIsAtomic ==
  ASSUME Intact, Intact', View, View', ~spoiled, ~spoiled', DroppedIsWhole, TryFromFile, Unreadable \notin Seq(Chunks)
  PROVE  Contents!Reopen
<1>1. ~Open /\ HasFooter(file) /\ Stored = committed
  BY DEF TryFromFile, Open, View
<1>2. broken = FALSE
  BY DEF TryFromFile, DroppedIsWhole, Intact, TypeOK
<1>3. Live' /\ Open' /\ SessionLog' = committed /\ Stored' = Stored
  BY <1>1, <1>2 DEF TryFromFile, Live, Open, View
<1>4. Stored # Unreadable
  BY <1>1 DEF Intact, TypeOK
<1> QED BY <1>1, <1>3, <1>4 DEF Contents!Reopen, Open

\* The calls that touch neither the file nor what was accepted.
LEMMA OthersAreAtomic ==
  ASSUME Intact, View, View', ~spoiled, ~spoiled',
         UNCHANGED vars \/ \E c \in Chunks : Write(c) \/ WriteRefused(c)
  PROVE  UNCHANGED Contents!vars
<1>1. UNCHANGED << file, committed, accepted, state, broken >>
  BY DEF vars, disk, Write, WriteRefused
<1>2. SessionLog' = SessionLog /\ Stored' = Stored
  BY <1>1 DEF View, Live
<1> QED BY <1>1, <1>2 DEF Contents!vars

\* A record written without one of its dictionaries gives the session up, and nothing is
\* seen of the file from then on.
LEMMA SpoiledIsAtomic ==
  ASSUME TypeOK, CallInv, [Next]_vars, spoiled'
  PROVE  [Contents!Next]_Contents!vars
<1>1. SessionLog' = << >> /\ Stored' = Unreadable /\ ~Open'
  BY DEF SessionLog, Stored, Open
<1>2. CASE spoiled
  <2>1. SessionLog = << >> /\ Stored = Unreadable /\ ~Open
    BY <1>2 DEF SessionLog, Stored, Open
  <2> QED BY <1>1, <2>1 DEF Contents!vars, Open
<1>3. CASE ~spoiled
  <2>1. WriteRecord
    BY <1>3 DEF Next, vars, losses, Start, StartFails, Write, WriteRefused, WriteDictionary,
       WriteFails, FinishEos, FinishFooter, FinishFails, DropWriter, TryFromFile
  <2>2. Open
    BY <1>3, <2>1 DEF WriteRecord, CallInv, Live, Open
  <2> QED BY <1>1, <2>2 DEF Contents!Next, Contents!Abandon, Contents!MayBreak, Open
<1> QED BY <1>2, <1>3

\* FileWriter, dropped or killed anywhere, failing anywhere and reopened,
\* implements a file that holds the last finished session or does not open.
THEOREM FileWriterIsAtomic ==
  ASSUME Contract, Unreadable \notin Seq(Chunks)
  PROVE  Spec => FileIsAtomic
<1>1. Init => Contents!Init
  <2> SUFFICES ASSUME Init PROVE Contents!Init
    OBVIOUS
  <2>1. Intact /\ ~spoiled
    BY InitStep DEF Init
  <2>2. View
    BY <2>1, ViewOfFile
  <2>3. ~HasFooter(file) /\ ~Live /\ state = "None" /\ broken = FALSE
    BY <2>1 DEF Init, Intact, NewInv, Live
  <2> QED BY <2>1, <2>2, <2>3 DEF Contents!Init, View
<1>2. IInv /\ IInv' /\ DroppedIsWhole /\ [Next]_vars => [Contents!Next]_Contents!vars
  <2> SUFFICES ASSUME IInv, IInv', DroppedIsWhole, [Next]_vars
               PROVE  [Contents!Next]_Contents!vars
    OBVIOUS
  <2>1. CASE spoiled'
    BY <2>1, SpoiledIsAtomic DEF IInv
  <2>2. CASE ~spoiled'
    <3>1. ~spoiled
      BY <2>2, SpoiledStays DEF IInv
    <3>2. Intact /\ Intact'
      BY <2>2, <3>1 DEF IInv
    <3>3. View /\ View'
      BY <2>2, <3>1, <3>2, ViewOfFile, NextViewOfFile
    <3>4. CASE Start \/ StartFails
      BY <2>2, <3>1, <3>2, <3>3, <3>4, StartIsAtomic
    <3>5. CASE WriteDictionary \/ WriteRecord \/ FinishEos
      BY <2>2, <3>1, <3>2, <3>3, <3>5, MessagesAreAtomic
    <3>6. CASE WriteFails \/ DropWriter
      BY <2>2, <3>1, <3>2, <3>3, <3>6, FailuresAreAtomic
    <3>7. CASE FinishFooter \/ FinishFails
      BY <2>2, <3>1, <3>2, <3>3, <3>7, FinishIsAtomic
    <3>8. CASE TryFromFile
      BY <2>2, <3>1, <3>2, <3>3, <3>8, ReopenIsAtomic DEF Contents!Next
    <3>9. CASE UNCHANGED vars \/ \E c \in Chunks : Write(c) \/ WriteRefused(c)
      BY <2>2, <3>1, <3>2, <3>3, <3>9, OthersAreAtomic
    <3> QED BY <3>4, <3>5, <3>6, <3>7, <3>8, <3>9 DEF Next
  <2> QED BY <2>1, <2>2
<1>3. Spec => []IInv
  BY Inductive
<1>4. Init => DroppedIsWhole
  BY DEF Init, DroppedIsWhole
<1>5. IInv /\ DroppedIsWhole /\ [Next]_vars => DroppedIsWhole'
  BY DroppedStep DEF IInv
<1> QED BY <1>1, <1>2, <1>3, <1>4, <1>5, PTL DEF Spec, FileIsAtomic, Contents!Spec
=============================================================================

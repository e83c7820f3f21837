---------------------------- MODULE IpcFileWriter -----------------------------
(***************************************************************************)
(* FileWriter (src/src/io/ipc/write/writer.rs) and FileWriter::try_from_   *)
(* file (src/src/io/ipc/append/mod.rs) over one file that outlives the     *)
(* writers: sessions that start, write chunks and finish, the append that  *)
(* reopens a finished file and overwrites its end-of-stream mark and its   *)
(* footer, I/O errors that tear a message, and writers dropped (or their   *)
(* process killed) between any two messages.                               *)
(***************************************************************************)
EXTENDS IpcEncoding

CONSTANTS
  MaxChunks,   \* bound on the chunks of the file
  MaxSessions, \* bound on the appends to the file
  MaxFaults,   \* bound on the I/O errors
  Stops,       \* the dictionaries after which encode_dictionary may refuse a chunk
               \* for its ipc_fields or its type
  RetryAfterError \* callers go on using a writer that returned an I/O error

ASSUME StopsAssumption == Stops \subseteq 0 .. Len(Fields)
ASSUME RetryAssumption == RetryAfterError \in BOOLEAN

VARIABLES
  file, pos,                \* the underlying Write + Seek
  state,                    \* State, or "Dropped" when there is no writer
  blockOffset, dictBlocks, recBlocks, tracker,   \* FileWriter's fields
  call,                     \* the call in progress
  chunk, pending,           \* write: its chunk, the dictionaries not written yet
  footer,                   \* finish: the footer, built but not written yet
  accepted,                 \* history: the chunks whose write returned Ok
  committed,                \* history: accepted, when finish last returned Ok
  broken,                   \* history: a call of this writer had an I/O error
  lost,                     \* history: ids a refused write left in the tracker, their
                            \* dictionaries unwritten
  spoiled,                  \* history: a record was written while ids were lost
  sessions, faults

disk   == << file, pos >>
blocks == << blockOffset, dictBlocks, recBlocks >>
losses == << lost, spoiled >>
vars   == << disk, blocks, state, tracker, call, chunk, pending, footer,
             accepted, committed, broken, losses, sessions, faults >>

NoFooter == Footer(<< >>, << >>)

Init ==
  /\ file = << >> /\ pos = 0
  /\ state = "None"
  /\ blockOffset = 0 /\ dictBlocks = << >> /\ recBlocks = << >>
  /\ tracker = EmptyTracker
  /\ call = "idle" /\ chunk = NoChunk /\ pending = {} /\ footer = NoFooter
  /\ accepted = << >> /\ committed = << >>
  /\ broken = FALSE /\ lost = {} /\ spoiled = FALSE /\ sessions = 0 /\ faults = 0

\* A caller may call the writer.
Usable == call = "idle" /\ (RetryAfterError \/ ~broken)

\* All of `cells` reach the file.
Put(cells) ==
  /\ file' = WriteAt(file, pos, cells)
  /\ pos' = pos + Len(cells)

\* The write of `cells` fails, and the call returns the error.
PutFails(cells) ==
  /\ faults < MaxFaults
  /\ faults' = faults + 1
  /\ broken' = TRUE
  /\ \E torn \in TornPrefixes(cells) : Put(torn)
-----------------------------------------------------------------------------
StartCells == << Magic >> \o Message(Schema)

Start ==
  /\ state = "None" /\ Usable
  /\ Put(StartCells)
  /\ blockOffset' = blockOffset + HeaderSize
  /\ state' = "Started"
  /\ UNCHANGED << dictBlocks, recBlocks, tracker, call, chunk, pending, footer,
                  accepted, committed, broken, losses, sessions, faults >>

StartFails ==
  /\ state = "None" /\ Usable
  /\ PutFails(StartCells)
  /\ UNCHANGED << blocks, state, tracker, call, chunk, pending, footer,
                  accepted, committed, losses, sessions >>

\* write: encode_chunk, before anything is written.
Write(c) ==
  /\ state = "Started" /\ Usable
  /\ Len(accepted) < MaxChunks
  /\ Encodable(tracker, c.dicts, TRUE)
  /\ tracker' = Tracked(tracker, c.dicts, TRUE)
  /\ pending' = Emitted(tracker, c.dicts)
  /\ chunk' = c
  /\ call' = "write"
  /\ UNCHANGED << disk, blocks, state, footer, accepted, committed, broken, losses, sessions, faults >>

\* write: encode_chunk returns an error, and nothing is written; the dictionaries
\* inserted before it stay in the tracker.
WriteRefused(c) ==
  /\ state = "Started" /\ Usable
  /\ \E n \in Refusals(tracker, c.dicts, TRUE, Stops) :
       /\ tracker' = Recorded(tracker, c.dicts, 1 .. n)
       /\ lost' = lost \cup Left(tracker, c.dicts, n)
  /\ UNCHANGED << disk, blocks, state, call, chunk, pending, footer,
                  accepted, committed, broken, spoiled, sessions, faults >>

\* write: the next encoded dictionary, and its block.
WriteDictionary ==
  /\ call = "write"
  /\ \E i \in pending :
       /\ \A j \in pending : i <= j
       /\ Put(Message(Dict(Fields[i], chunk.dicts[i])))
       /\ pending' = pending \ {i}
  /\ dictBlocks' = Append(dictBlocks, blockOffset)
  /\ blockOffset' = blockOffset + MessageSize
  /\ UNCHANGED << recBlocks, state, tracker, call, chunk, footer,
                  accepted, committed, broken, losses, sessions, faults >>

\* write: the record message, its block, and the return of Ok.
WriteRecord ==
  /\ call = "write" /\ pending = {}
  /\ Put(Message(Record(chunk.keys)))
  /\ recBlocks' = Append(recBlocks, blockOffset)
  /\ blockOffset' = blockOffset + MessageSize
  /\ accepted' = Append(accepted, chunk)
  /\ call' = "idle" /\ chunk' = NoChunk
  /\ spoiled' = (spoiled \/ lost # {})
  /\ UNCHANGED << dictBlocks, state, tracker, pending, footer, committed, broken,
                  lost, sessions, faults >>

WriteFails ==
  /\ call = "write"
  /\ PutFails(Message(Torn))
  /\ call' = "idle" /\ chunk' = NoChunk /\ pending' = {}
  /\ UNCHANGED << blocks, state, tracker, footer, accepted, committed, losses, sessions >>

\* finish: the end-of-stream mark, then the blocks are taken for the footer.
FinishEos ==
  /\ state = "Started" /\ Usable
  /\ Put(<< Cont >>)
  /\ footer' = Footer(dictBlocks, recBlocks)
  /\ dictBlocks' = << >> /\ recBlocks' = << >>
  /\ call' = "finish"
  /\ UNCHANGED << blockOffset, state, tracker, chunk, pending, accepted,
                  committed, broken, losses, sessions, faults >>

FinishFooter ==
  /\ call = "finish"
  /\ Put(FooterCells(footer))
  /\ state' = "Finished"
  /\ committed' = accepted
  /\ call' = "idle" /\ footer' = NoFooter
  /\ UNCHANGED << blocks, tracker, chunk, pending, accepted, broken, losses, sessions, faults >>

\* Either write of finish fails; the blocks were taken before the second.
FinishFails ==
  /\ \/ /\ state = "Started" /\ Usable
        /\ PutFails(<< Cont >>)
        /\ UNCHANGED committed
     \/ /\ call = "finish"
        /\ PutFails(FooterCells(footer))
        /\ committed' = IF HasFooter(file') THEN accepted ELSE committed
  /\ call' = "idle" /\ footer' = NoFooter
  /\ UNCHANGED << blocks, state, tracker, chunk, pending, accepted, losses, sessions >>
-----------------------------------------------------------------------------
\* The writer is dropped (no Drop writes a footer), or its process dies.
DropWriter ==
  /\ state # "Dropped"
  /\ state' = "Dropped"
  /\ broken' = FALSE
  /\ call' = "idle" /\ chunk' = NoChunk /\ pending' = {} /\ footer' = NoFooter
  /\ lost' = {}
  /\ UNCHANGED << disk, blocks, tracker, accepted, committed, spoiled, sessions, faults >>

\* A bug: new messages go where the last one starts, not where it ends.
SeekToLastBlock(last) == last

\* A bug: the offset of the last block is taken as relative (SeekFrom::Current).
SeekFromCurrent(last) == pos + last + MessageSize

\* Where try_from_file seeks to: the end of the last record message.
AppendPosition(last) == last + MessageSize

\* try_from_file on a file whose metadata and dictionaries read back; it
\* refuses one without record batches.
TryFromFile ==
  /\ state = "Dropped"
  /\ sessions < MaxSessions
  /\ HasFooter(file)
  /\ Readable(file, LastFooter(file).dictionaries, << >>)
  /\ LastFooter(file).records # << >>
  /\ LET last == LastFooter(file).records[Len(LastFooter(file).records)] IN
       /\ pos' = AppendPosition(last)
       /\ blockOffset' = AppendPosition(last)
  /\ dictBlocks' = LastFooter(file).dictionaries
  /\ recBlocks' = LastFooter(file).records
  /\ tracker' = [d \in Ids |-> DictOf(file, LastFooter(file).dictionaries, d)]
  /\ state' = "Started"
  /\ accepted' = committed
  /\ sessions' = sessions + 1
  /\ UNCHANGED << file, call, chunk, pending, footer, committed, broken, losses, faults >>

Next ==
  \/ Start \/ StartFails
  \/ \E c \in Chunks : Write(c) \/ WriteRefused(c)
  \/ WriteDictionary \/ WriteRecord \/ WriteFails
  \/ FinishEos \/ FinishFooter \/ FinishFails
  \/ DropWriter \/ TryFromFile

Spec == Init /\ [][Next]_vars
-----------------------------------------------------------------------------
TypeOK ==
  /\ file \in Seq(Cells)
  /\ pos \in Nat
  /\ state \in {"None", "Started", "Finished", "Dropped"}
  /\ blockOffset \in Nat
  /\ dictBlocks \in Blocks /\ recBlocks \in Blocks
  /\ tracker \in Tracker
  /\ call \in {"idle", "write", "finish"}
  /\ chunk \in Chunks \cup {NoChunk}
  /\ pending \subseteq Columns
  /\ footer \in Footers
  /\ accepted \in Seq(Chunks) /\ committed \in Seq(Chunks)
  /\ broken \in BOOLEAN /\ sessions \in Nat /\ faults \in Nat
  /\ lost \subseteq Ids /\ spoiled \in BOOLEAN
-----------------------------------------------------------------------------
\* A file with a footer reads back, chunk for chunk and dictionary for
\* dictionary, what the last finished session wrote -- whatever writers were
\* dropped in between and wherever an append or an I/O error stopped writing it,
\* unless a record was written after a refused write had lost a dictionary.
FooterReadsBack ==
  UniqueFields /\ ~RetryAfterError /\ ~spoiled /\ HasFooter(file) =>
    /\ Readable(file, LastFooter(file).dictionaries, LastFooter(file).records)
    /\ Decode(file, LastFooter(file).dictionaries, LastFooter(file).records) = committed

\* Between calls, every dictionary the tracker takes for written is the one a
\* reader finds under its id through the writer's blocks (common.rs:310: the
\* tracker "keeps track of dictionaries that have been written").
TrackedIsWritten ==
  state = "Started" /\ call = "idle" /\ ~broken =>
    \A d \in Ids : tracker[d] # NoDict =>
      DictOf(file, dictBlocks, d) = tracker[d]

\* That holds of every id but those a write refused before the first record of the
\* session has left in the tracker: with a record in the session, no chunk that
\* encode_chunk refuses, after however many inserts, harms a later one.
OnlyEarlyRefusalsLose ==
  state = "Started" /\ call = "idle" /\ ~broken /\ ~spoiled =>
    \A d \in Ids : tracker[d] # NoDict /\ DictOf(file, dictBlocks, d) # tracker[d] =>
      d \in lost /\ recBlocks = << >>

\* Whoever opens the file sees a whole finished session or nothing.
CONSTANT Unreadable

SessionLog ==
  CASE broken \/ spoiled -> << >>
    [] ~broken /\ ~spoiled /\ state = "Started" /\ call # "finish" -> Decode(file, dictBlocks, recBlocks)
    [] ~broken /\ ~spoiled /\ state = "Started" /\ call = "finish" ->
         Decode(file, footer.dictionaries, footer.records)
    [] OTHER -> << >>

Stored ==
  IF /\ HasFooter(file) /\ ~spoiled
     /\ Readable(file, LastFooter(file).dictionaries, LastFooter(file).records)
  THEN Decode(file, LastFooter(file).dictionaries, LastFooter(file).records)
  ELSE Unreadable

Contents == INSTANCE AtomicFile WITH
  Chunk <- Chunks, log <- SessionLog, stored <- Stored,
  open <- state \in {"None", "Started"} /\ ~broken /\ ~spoiled

\* Every step of a writer is one of AtomicFile's steps: no write, overwrite or
\* drop ever changes a chunk already written or shows a reader half a session.
\* A session whose records lack a lost dictionary counts as given up.
FileIsAtomic == Contents!Spec
-----------------------------------------------------------------------------
(***************************************************************************)
(* The inductive invariant behind FooterReadsBack and OnlyEarlyRefusals-   *)
(* Lose, in named parts: what the blocks of a live writer and of a footer  *)
(* read back as, where the writer stands in the file, which footer cells   *)
(* there can be, and which dictionaries are missing.                       *)
(***************************************************************************)
\* The contract of the theorems: distinct dictionary ids, and a caller that
\* drops a writer after an I/O error.
Contract == UniqueFields /\ ~RetryAfterError

Live == state = "Started" /\ ~broken

\* The blocks of the session, wherever finish has moved them.
SessionDicts == IF call = "finish" THEN footer.dictionaries ELSE dictBlocks
SessionRecs  == IF call = "finish" THEN footer.records ELSE recBlocks

\* The blocks lie below `end`, and only one block has the dictionary of an id.
BlocksBelow(f, ds, rs, end) ==
  /\ \A n \in 1 .. Len(ds) : ds[n] + MessageSize <= end
  /\ \A n \in 1 .. Len(rs) : rs[n] + MessageSize <= end
  /\ \A m, n \in 1 .. Len(ds) :
       Payload(f, ds[m]).id = Payload(f, ds[n]).id => m = n

\* The file read with these blocks gives `log`.
ReadsAs(f, ds, rs, log) ==
  /\ Readable(f, ds, rs)
  /\ Decode(f, ds, rs) = log

\* The last record message ends the data of the session.
RecordIsLast(ds, rs, end) ==
  IF rs = << >> THEN ds = << >> ELSE rs[Len(rs)] + MessageSize = end

FooterInv ==
  HasFooter(file) =>
    LET ds  == LastFooter(file).dictionaries
        rs  == LastFooter(file).records
        end == FooterStart(file) - 2
    IN  /\ BlocksBelow(file, ds, rs, end)
        /\ ReadsAs(file, ds, rs, committed)
        /\ RecordIsLast(ds, rs, end)
        /\ end >= 0

\* A footer that is not the last one's would survive an append.
NoStrayFooter ==
  Live \/ HasFooter(file) =>
    \A i \in 1 .. Len(file) :
      file[i].kind = "footer" => HasFooter(file) /\ i = FooterStart(file)

CallInv ==
  /\ call # "idle" => Live
  /\ call = "write" => chunk \in Chunks
  /\ call # "write" => pending = {}

NewInv ==
  state = "None" =>
    /\ ~broken => file = << >> /\ pos = 0
    /\ ~HasFooter(file)
    /\ blockOffset = 0 /\ dictBlocks = << >> /\ recBlocks = << >>
    /\ tracker = EmptyTracker
    /\ accepted = << >> /\ committed = << >>

PositionInv ==
  Live =>
    /\ pos = IF call = "finish" THEN blockOffset + 1 ELSE blockOffset
    /\ pos <= Len(file)
    /\ Len(file) <= blockOffset + 1 + FooterSize

SessionInv ==
  Live =>
    /\ BlocksBelow(file, SessionDicts, SessionRecs, blockOffset)
    /\ ReadsAs(file, SessionDicts, SessionRecs, accepted)
    /\ call # "write" => RecordIsLast(SessionDicts, SessionRecs, blockOffset)

\* A footer found while a writer is at work is the one it reopened, untouched.
UntouchedInv ==
  Live /\ HasFooter(file) =>
    /\ FooterStart(file) = blockOffset + 2
    /\ LastFooter(file) = Footer(SessionDicts, SessionRecs)
    /\ accepted = committed

TrackerInv ==
  Live =>
    /\ \A d \in Ids :
         DictOf(file, SessionDicts, d) =
           IF d \in lost \/ \E i \in pending : Fields[i] = d THEN NoDict ELSE tracker[d]
    /\ call = "write" => \A i \in Columns : tracker[Fields[i]] = chunk.dicts[i]

\* A dictionary is lost before the session has a record, and never written later.
LostInv ==
  /\ state \in {"None", "Dropped"} => lost = {}
  /\ Live /\ lost # {} => accepted = << >>
  /\ Live => \A d \in lost : tracker[d] # NoDict /\ \A i \in pending : Fields[i] # d

Intact ==
  /\ TypeOK /\ CallInv /\ NewInv /\ FooterInv /\ NoStrayFooter
  /\ PositionInv /\ SessionInv /\ UntouchedInv /\ TrackerInv /\ LostInv

\* Nothing more is kept once a record was written without its dictionary.
IInv == TypeOK /\ CallInv /\ (spoiled \/ Intact)
=============================================================================

-------------------------- MODULE IpcStreamWriter --------------------------
(***************************************************************************)
(* StreamWriter (src/src/io/ipc/write/stream.rs) and what it puts on the   *)
(* wire, one message at a time.                                            *)
(***************************************************************************)
EXTENDS IpcEncoding

CONSTANTS
  MaxChunks,   \* bound on the calls of write
  MaxControls  \* bound on the calls of start and finish

VARIABLES
  wire,               \* the underlying Write
  started,            \* ipc_fields is Some
  finished, tracker,  \* StreamWriter's fields
  call,               \* the call in progress, "dropped" when there is no writer
  chunk, pending,     \* write: its chunk, the dictionaries not written yet
  sent,               \* history: the chunks whose record is on the wire
  controls            \* the calls of start and finish

wvars == << wire, started, finished, tracker, call, chunk, pending, sent, controls >>

WriterInit ==
  /\ wire = << >>
  /\ started = FALSE /\ finished = FALSE
  /\ tracker = EmptyTracker
  /\ call = "idle" /\ chunk = NoChunk /\ pending = {}
  /\ sent = << >> /\ controls = 0

\* start may be called again, and after finish too.
Start ==
  /\ call = "idle"
  /\ controls < MaxControls
  /\ controls' = controls + 1
  /\ started' = TRUE
  /\ wire' = wire \o Packet(Schema)
  /\ UNCHANGED << finished, tracker, call, chunk, pending, sent >>

\* write: encode_chunk, which may replace dictionaries.  Before start it panics.
Write(c) ==
  /\ call = "idle" /\ started /\ ~finished
  /\ Len(sent) < MaxChunks
  /\ tracker' = Tracked(tracker, c.dicts, FALSE)
  /\ pending' = Emitted(tracker, c.dicts)
  /\ chunk' = c
  /\ call' = "write"
  /\ UNCHANGED << wire, started, finished, sent, controls >>

WriteDictionary ==
  /\ call = "write"
  /\ \E i \in pending :
       /\ \A j \in pending : i <= j
       /\ wire' = wire \o Packet(Dict(Fields[i], chunk.dicts[i]))
       /\ pending' = pending \ {i}
  /\ UNCHANGED << started, finished, tracker, call, chunk, sent, controls >>

WriteRecord ==
  /\ call = "write" /\ pending = {}
  /\ wire' = wire \o Packet(Record(chunk.keys))
  /\ sent' = Append(sent, chunk)
  /\ call' = "idle" /\ chunk' = NoChunk
  /\ UNCHANGED << started, finished, tracker, pending, controls >>

\* start or finish is cut short by an I/O error; the caller drops the writer.
ControlFails ==
  /\ call = "idle"
  /\ controls < MaxControls
  /\ controls' = controls + 1
  /\ \/ /\ started' = TRUE
        /\ \E n \in 0 .. Len(Packet(Schema)) : wire' = wire \o SubSeq(Packet(Schema), 1, n)
     \/ /\ UNCHANGED started
        /\ \E n \in 0 .. Len(EndOfStream) : wire' = wire \o SubSeq(EndOfStream, 1, n)
  /\ call' = "dropped"
  /\ UNCHANGED << finished, tracker, chunk, pending, sent >>

\* A bug: finish only marks the writer as finished.
FinishSilent ==
  /\ call = "idle"
  /\ controls < MaxControls
  /\ controls' = controls + 1
  /\ finished' = TRUE
  /\ UNCHANGED << wire, started, tracker, call, chunk, pending, sent >>

\* finish may be called before start, and again.
Finish ==
  /\ call = "idle"
  /\ controls < MaxControls
  /\ controls' = controls + 1
  /\ wire' = wire \o EndOfStream
  /\ finished' = TRUE
  /\ UNCHANGED << started, tracker, call, chunk, pending, sent >>

\* The message write is at.
NextMessage ==
  IF pending = {} THEN {Record(chunk.keys)}
  ELSE {Dict(Fields[i], chunk.dicts[i]) : i \in {k \in pending : \A j \in pending : k <= j}}

\* A message is cut short by an I/O error; the caller then drops the writer.
WriteFails ==
  /\ call = "write"
  /\ \E message \in NextMessage :
       LET packet == Packet(message) IN
       \E n \in 0 .. Len(packet) :
           /\ wire' = wire \o SubSeq(packet, 1, n)
           /\ sent' = IF pending = {} /\ n = Len(packet) THEN Append(sent, chunk) ELSE sent
  /\ call' = "dropped" /\ chunk' = NoChunk /\ pending' = {}
  /\ UNCHANGED << started, finished, tracker, controls >>

DropWriter ==
  /\ call # "dropped"
  /\ call' = "dropped" /\ chunk' = NoChunk /\ pending' = {}
  /\ UNCHANGED << wire, started, finished, tracker, sent, controls >>

WriterNext ==
  \/ Start
  \/ \E c \in Chunks : Write(c)
  \/ WriteDictionary \/ WriteRecord \/ WriteFails
  \/ Finish \/ ControlFails \/ DropWriter

WriterTypeOK ==
  /\ wire \in Seq(StreamCells)
  /\ started \in BOOLEAN /\ finished \in BOOLEAN /\ controls \in Nat
  /\ tracker \in Tracker
  /\ call \in {"idle", "write", "dropped"}
  /\ chunk \in IF call = "write" THEN Chunks ELSE {NoChunk}
  /\ pending \subseteq Columns
  /\ sent \in Seq(Chunks)
-----------------------------------------------------------------------------
(***************************************************************************)
(* What a stream says, whoever reads it: how its cells follow each other,  *)
(* which dictionaries its first n cells define and how many records they   *)
(* have.                                                                   *)
(***************************************************************************)
EndsMessage(cell) == cell \in {Body, Schema, Zero}
HasBody(cell) == cell.kind \in {"dictionary", "record"}

Follows(cell, next) ==
  /\ cell = Half1 => next = Half2
  /\ cell = Half2 => next \in {Length, Zero}
  /\ cell = Length => next = Schema \/ HasBody(next)
  /\ HasBody(cell) => next = Body
  /\ EndsMessage(cell) => next = Half1

Framed(w) ==
  /\ w # << >> => w[1] = Half1
  /\ \A n \in 1 .. Len(w) - 1 : Follows(w[n], w[n + 1])

IsDictOf(cell, d) == cell.kind = "dictionary" /\ cell.id = d

\* The last dictionary of id d among the first n cells is v, NoDict if there is none.
Defines(w, n, d, v) ==
  \/ v = NoDict /\ \A m \in 1 .. n : ~IsDictOf(w[m], d)
  \/ \E m \in 1 .. n : /\ w[m] = Dict(d, v)
                       /\ \A k \in m + 1 .. n : ~IsDictOf(w[k], d)

RecordCells(w, n) == {m \in 1 .. n : w[m].kind = "record"}
RecordsIn(w, n) == Cardinality(RecordCells(w, n))

\* A reader's dictionaries and the number of its chunks are those of the first n cells.
Knows(w, n, ds, count) ==
  /\ \A d \in Ids : Defines(w, n, d, ds[d])
  /\ RecordsIn(w, n) = count

\* The record at m is that of the chunk sent when it was written: its keys, and the
\* dictionaries that are defined in front of it.
IsRecordOf(w, m, c) ==
  /\ w[m].keys = c.keys
  /\ \A i \in Columns : Defines(w, m, Fields[i], c.dicts[i])

\* The records whose bodies are there are those of the chunks sent.
RecordsAreSent ==
  /\ RecordsIn(wire, Len(wire)) >= Len(sent)
  /\ call # "dropped" => RecordsIn(wire, Len(wire)) = Len(sent)
  /\ \A m \in 1 .. Len(wire) - 1 : wire[m].kind = "record" =>
       /\ RecordsIn(wire, m) \in 1 .. Len(sent)
       /\ IsRecordOf(wire, m, sent[RecordsIn(wire, m)])

\* The tracker has what the stream defines, up to what the call has not written yet.
TrackerIsDefined ==
  call # "dropped" =>
    \A d \in Ids : (\A i \in pending : Fields[i] # d) => Defines(wire, Len(wire), d, tracker[d])

\* A call of write is made between start and finish, and has tracked its chunk.
WriteIsTracked ==
  IF call = "write"
  THEN started /\ ~finished /\ \A i \in Columns : tracker[Fields[i]] = chunk.dicts[i]
  ELSE pending = {}

\* Nothing is sent behind the mark of the end.
EndsOnce ==
  \A n \in 1 .. Len(wire) : wire[n] = Zero =>
    /\ finished \/ call = "dropped"
    /\ \A m \in 1 .. Len(wire) : wire[m].kind = "record" => m < n

\* Only a message cut short by an error is not whole, and it is the last.
EndsWhole == call # "dropped" /\ wire # << >> => EndsMessage(wire[Len(wire)])

WriterInv ==
  /\ WriterTypeOK /\ Framed(wire) /\ EndsWhole /\ EndsOnce
  /\ WriteIsTracked /\ TrackerIsDefined /\ RecordsAreSent
=============================================================================

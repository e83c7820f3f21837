----------------------------- MODULE IpcStream -----------------------------
(***************************************************************************)
(* StreamReader (src/src/io/ipc/read/stream.rs) reading what StreamWriter  *)
(* puts on the wire.  The bytes become visible in any portions, as of a    *)
(* file that is being written; next() makes one read after the other, and  *)
(* each may meet the end of what is visible.                               *)
(***************************************************************************)
EXTENDS IpcStreamWriter

VARIABLES
  visible,   \* how much of the wire the reader's Read can see
  rpos,      \* how much of it has been consumed
  phase,     \* what is read next; "idle" at the start of read_next
  header,    \* the message whose body is read next
  dictionaries,   \* StreamReader's dictionaries
  received,  \* history: the chunks yielded
  cut        \* history: a read met the end of what is visible inside a message

rvars == << visible, rpos, phase, header, dictionaries, received, cut >>
vars  == << wvars, rvars >>

Init ==
  /\ WriterInit
  /\ visible = 0 /\ rpos = 0
  /\ phase = "metadata" /\ header = Schema
  /\ dictionaries = EmptyTracker
  /\ received = << >>
  /\ cut = FALSE

Available == rpos < visible
NextCell  == wire[rpos + 1]

\* The next cell becomes visible; several may, before the next read.
Deliver ==
  /\ visible < Len(wire)
  /\ visible' = visible + 1
  /\ UNCHANGED << wvars, rpos, phase, header, dictionaries, received, cut >>

\* read_stream_metadata, called when the first message can be read; the
\* end-of-stream mark of an early finish is not a schema.
ReadMetadata ==
  /\ phase = "metadata"
  /\ \/ /\ visible >= Len(EndOfStream) /\ wire[Len(EndOfStream)] = Zero
        /\ phase' = "failed"
        /\ UNCHANGED rpos
     \/ /\ visible >= Len(Packet(Schema)) /\ wire[Len(Packet(Schema))] = Schema
        /\ phase' = "idle"
        /\ rpos' = Len(Packet(Schema))
  /\ UNCHANGED << wvars, visible, header, dictionaries, received, cut >>

\* A bug: read instead of read_exact, half a marker passes for a whole one.
ReadMarkerShort ==
  /\ phase = "idle" /\ Available
  /\ IF NextCell = Half1
       THEN rpos' = rpos + 2 /\ phase' = "length"
       ELSE rpos' = visible /\ phase' = "failed"
  /\ UNCHANGED << wvars, visible, header, dictionaries, received, cut >>

\* read_next: the marker.  Nothing visible, or half a marker, is Waiting; the
\* half has been consumed.
ReadMarker ==
  /\ phase = "idle" /\ Available
  /\ IF NextCell = Half1 /\ rpos + 2 <= visible
       THEN rpos' = rpos + 2 /\ phase' = "length" /\ UNCHANGED cut
     ELSE IF NextCell = Half1
       THEN rpos' = rpos + 1 /\ phase' = phase /\ cut' = TRUE
     ELSE rpos' = visible /\ phase' = "failed" /\ UNCHANGED cut
  /\ UNCHANGED << wvars, visible, header, dictionaries, received >>

\* A read other than the first meets the end of what is visible: an error.
ReadCut ==
  /\ phase \in {"length", "payload", "body"} /\ ~Available
  /\ phase' = "failed" /\ cut' = TRUE
  /\ UNCHANGED << wvars, visible, rpos, header, dictionaries, received >>

\* The length; zero ends the stream (maybe_next: finished).
ReadLength ==
  /\ phase = "length" /\ Available
  /\ rpos' = rpos + 1
  /\ phase' = IF NextCell = Zero THEN "finished" ELSE "payload"
  /\ UNCHANGED << wvars, visible, header, dictionaries, received, cut >>

\* The flatbuffer; a schema here is an UnexpectedMessageType.
ReadPayload ==
  /\ phase = "payload" /\ Available
  /\ rpos' = rpos + 1
  /\ header' = NextCell
  /\ phase' = IF NextCell = Schema THEN "failed" ELSE "body"
  /\ UNCHANGED << wvars, visible, dictionaries, received, cut >>

\* A bug: the first dictionary of an id is kept.
KeepDictionary ==
  /\ phase = "body" /\ header.kind = "dictionary" /\ Available
  /\ rpos' = rpos + 1
  /\ dictionaries' = [dictionaries EXCEPT ![header.id] = IF @ = NoDict THEN header.value ELSE @]
  /\ phase' = "idle"
  /\ UNCHANGED << wvars, visible, header, received, cut >>

\* The body of a dictionary replaces the one of the same id; read_next goes on.
ReadDictionary ==
  /\ phase = "body" /\ header.kind = "dictionary" /\ Available
  /\ rpos' = rpos + 1
  /\ dictionaries' = [dictionaries EXCEPT ![header.id] = header.value]
  /\ phase' = "idle"
  /\ UNCHANGED << wvars, visible, header, received, cut >>

\* The body of a record, decoded with the dictionaries read so far.
ReadRecord ==
  /\ phase = "body" /\ header.kind = "record" /\ Available
  /\ rpos' = rpos + 1
  /\ IF KnowsAll(dictionaries)
       THEN /\ received' = Append(received, DecodedWith(header.keys, dictionaries))
            /\ phase' = "idle"
       ELSE phase' = "failed" /\ UNCHANGED received
  /\ UNCHANGED << wvars, visible, header, dictionaries, cut >>

Read ==
  \/ ReadMetadata \/ ReadMarker \/ ReadLength \/ ReadPayload
  \/ ReadDictionary \/ ReadRecord \/ ReadCut

Next ==
  \/ WriterNext /\ UNCHANGED rvars
  \/ Deliver
  \/ Read

\* The transport delivers, and the caller goes on calling next().
Fairness == WF_vars(Deliver) /\ WF_vars(Read)

Spec == Init /\ [][Next]_vars /\ Fairness
-----------------------------------------------------------------------------
TypeOK ==
  /\ WriterTypeOK
  /\ visible \in 0 .. Len(wire) /\ rpos \in 0 .. visible
  /\ phase \in {"metadata", "idle", "length", "payload", "body", "failed", "finished"}
  /\ header \in StreamCells
  /\ dictionaries \in Tracker
  /\ received \in Seq(Chunks)
  /\ cut \in BOOLEAN

\* start or finish was called where the format has no place for it.
OutOfOrder ==
  \/ \E n \in 1 .. Len(wire) : wire[n] = Schema /\ n # Len(Packet(Schema))
  \/ Len(wire) >= Len(EndOfStream) /\ wire[Len(EndOfStream)] = Zero

\* The reader fails only if it met the end of the bytes inside a message, or
\* the writer wrote a second schema or a mark in its place.
FailsForAReason == phase = "failed" => cut \/ OutOfOrder

\* After Waiting the reader stands at the start of a message: the stream "is
\* still live, it just doesn't hold any data right now" (stream.rs:67).
WaitingLosesNothing == phase = "idle" /\ rpos < Len(wire) => wire[rpos + 1] = Half1

\* Where the reader is: at a message, in the middle of one, or, after half a marker
\* that was all there was, off it.
ReaderIsInPlace ==
  /\ phase = "metadata" => rpos = 0
  /\ phase \in {"idle", "length", "payload", "body"} => rpos >= Len(Packet(Schema))
  /\ phase = "idle" => EndsMessage(wire[rpos]) \/ (wire[rpos] = Half1 /\ cut)
  /\ phase = "length" => wire[rpos] = Half2
  /\ phase = "payload" => wire[rpos] = Length
  /\ phase = "body" => wire[rpos] = header /\ HasBody(header)

\* The cells that have been made use of: not the header of the body to be read.
Used == IF phase = "body" THEN rpos - 1 ELSE rpos

\* The reader has what the cells up to there define, and their records as chunks.
ReaderKnows == phase # "failed" => Knows(wire, Used, dictionaries, Len(received))

ReceivedIsSent ==
  Len(received) <= Len(sent) /\ \A k \in 1 .. Len(received) : received[k] = sent[k]

\* The inductive invariant.
StreamInv ==
  /\ TypeOK /\ WriterInv
  /\ ReaderIsInPlace /\ ReaderKnows /\ ReceivedIsSent /\ FailsForAReason

\* Whatever is sent is received, and a finished stream is seen to end, unless
\* the reader met the end of the bytes inside a message or failed.
Drained ==
  \/ received = sent /\ (finished => phase = "finished")
  \/ phase = "failed" \/ cut

\* Chunks arrive with the dictionaries they were written with, in order and
\* without gaps, and the end only after the last of them -- over dictionaries
\* that are replaced, messages cut short and schemas written twice.
Chan == INSTANCE Channel WITH
  Chunk  <- Chunks,
  closed <- \E n \in 1 .. Len(wire) : wire[n] = Zero,
  reader <- CASE phase = "finished" -> "ended" [] phase = "failed" -> "lost" [] OTHER -> "open"

StreamIsChannel == Chan!Spec
=============================================================================

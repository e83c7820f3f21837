--------------------------- MODULE IpcAsyncStream ---------------------------
(***************************************************************************)
(* AsyncStreamReader (src/src/io/ipc/read/stream_async.rs) reading what    *)
(* StreamWriter puts on the wire.  The reader holds one future of          *)
(* maybe_next; poll_next drives it until it needs bytes that are not there *)
(* (its AsyncRead then keeps the waker) or until it completes.  The        *)
(* executor polls a task only after it was woken.  Its state and steps     *)
(* have names of their own, so that one module can speak of both readers.  *)
(***************************************************************************)
EXTENDS IpcStreamWriter

VARIABLES
  arrived, eof,     \* what the AsyncRead can give, and whether it is closed
  taken,            \* how much of it has been consumed
  future,           \* what the future reads next; "waiting": it has completed with
                    \* Waiting and is kept; "ended", "failed": there is none
  polling,          \* inside poll_next
  registered,       \* the AsyncRead holds the waker
  woken,            \* the executor is to poll
  message,          \* the message whose body is read next
  known,            \* the reader's dictionaries
  yielded           \* history: the chunks yielded

asyncReader == << arrived, eof, taken, future, polling, registered, woken, message,
                  known, yielded >>
asyncVars == << wvars, asyncReader >>

AsyncInit ==
  /\ WriterInit
  /\ arrived = 0 /\ eof = FALSE /\ taken = 0
  /\ future = "metadata" /\ polling = FALSE /\ registered = FALSE /\ woken = FALSE
  /\ message = Schema /\ known = EmptyTracker
  /\ yielded = << >>

AsyncAvailable == taken < arrived
AsyncNextCell  == wire[taken + 1]
Wake           == woken' = (woken \/ registered) /\ registered' = FALSE

AsyncDeliver ==
  /\ arrived < Len(wire)
  /\ arrived' = arrived + 1
  /\ Wake
  /\ UNCHANGED << wvars, eof, taken, future, polling, message, known, yielded >>

\* The writer is gone and the last byte has arrived.
CloseTransport ==
  /\ call = "dropped" /\ arrived = Len(wire) /\ ~eof
  /\ eof' = TRUE
  /\ Wake
  /\ UNCHANGED << wvars, arrived, taken, future, polling, message, known, yielded >>

\* read_stream_metadata_async, then AsyncStreamReader::new and the first poll.
AsyncReadMetadata ==
  /\ future = "metadata"
  /\ \/ /\ arrived >= Len(Packet(Schema)) /\ wire[Len(Packet(Schema))] = Schema
        /\ future' = "marker" /\ taken' = Len(Packet(Schema)) /\ woken' = TRUE
     \/ /\ \/ eof /\ arrived < Len(Packet(Schema))
           \/ arrived >= Len(EndOfStream) /\ wire[Len(EndOfStream)] = Zero
        /\ future' = "failed"
        /\ UNCHANGED << taken, woken >>
  /\ UNCHANGED << wvars, arrived, eof, polling, registered, message, known, yielded >>

Poll ==
  /\ woken /\ ~polling
  /\ future \in {"marker", "half", "length", "payload", "body"}
  /\ woken' = FALSE /\ polling' = TRUE
  /\ UNCHANGED << wvars, arrived, eof, taken, future, registered, message, known, yielded >>

\* A bug: the task goes to sleep and leaves no waker.
PendingUnregistered ==
  /\ polling /\ ~AsyncAvailable /\ ~eof
  /\ polling' = FALSE
  /\ UNCHANGED << wvars, arrived, eof, taken, future, registered, woken, message,
                  known, yielded >>

\* The future needs bytes that are not there yet.
Pending ==
  /\ polling /\ ~AsyncAvailable /\ ~eof
  /\ polling' = FALSE /\ registered' = TRUE
  /\ UNCHANGED << wvars, arrived, eof, taken, future, woken, message, known, yielded >>

\* The end of the transport: Waiting at the marker, an error further on.
\* poll_next maps Waiting to Pending, leaves no waker and keeps the future.
Eof ==
  /\ polling /\ ~AsyncAvailable /\ eof
  /\ polling' = FALSE
  /\ future' = IF future \in {"marker", "half"} THEN "waiting" ELSE "failed"
  /\ UNCHANGED << wvars, arrived, eof, taken, registered, woken, message, known, yielded >>

AsyncReadMarker ==
  /\ polling /\ AsyncAvailable
  /\ \/ future = "marker" /\ future' = "half"
     \/ future = "half" /\ future' = "length"
  /\ taken' = taken + 1
  /\ UNCHANGED << wvars, arrived, eof, polling, registered, woken, message, known, yielded >>

\* The length; zero completes the future with None.
AsyncReadLength ==
  /\ polling /\ future = "length" /\ AsyncAvailable
  /\ taken' = taken + 1
  /\ future' = IF AsyncNextCell = Zero THEN "ended" ELSE "payload"
  /\ polling' = (AsyncNextCell # Zero)
  /\ UNCHANGED << wvars, arrived, eof, registered, woken, message, known, yielded >>

\* The flatbuffer; a schema here is an UnexpectedMessageType.
AsyncReadPayload ==
  /\ polling /\ future = "payload" /\ AsyncAvailable
  /\ taken' = taken + 1
  /\ message' = AsyncNextCell
  /\ future' = IF AsyncNextCell = Schema THEN "failed" ELSE "body"
  /\ polling' = (AsyncNextCell # Schema)
  /\ UNCHANGED << wvars, arrived, eof, registered, woken, known, yielded >>

\* A dictionary completes the future with Waiting, as the end of the transport does.
AsyncReadDictionary ==
  /\ polling /\ future = "body" /\ message.kind = "dictionary" /\ AsyncAvailable
  /\ taken' = taken + 1
  /\ known' = [known EXCEPT ![message.id] = message.value]
  /\ future' = "waiting" /\ polling' = FALSE
  /\ UNCHANGED << wvars, arrived, eof, registered, woken, message, yielded >>

\* A bug: the chunk is yielded with the future of the message before it.
YieldAgain ==
  /\ polling /\ future = "body" /\ message.kind = "record" /\ AsyncAvailable
  /\ yielded' = Append(yielded, DecodedWith(message.keys, known))
  /\ polling' = FALSE /\ woken' = TRUE
  /\ UNCHANGED << wvars, taken, future, arrived, eof, registered, message, known >>

\* The chunk is yielded, and a new future made of the state; the consumer of
\* the stream polls again.
AsyncReadRecord ==
  /\ polling /\ future = "body" /\ message.kind = "record" /\ AsyncAvailable
  /\ taken' = taken + 1
  /\ polling' = FALSE
  /\ IF KnowsAll(known)
       THEN /\ yielded' = Append(yielded, DecodedWith(message.keys, known))
            /\ future' = "marker" /\ woken' = TRUE
       ELSE future' = "failed" /\ UNCHANGED << yielded, woken >>
  /\ UNCHANGED << wvars, arrived, eof, registered, message, known >>

\* The body of a message, read as what its flatbuffer says it is.
AsyncReadBody == future = "body" /\ (AsyncReadDictionary \/ AsyncReadRecord)

Run ==
  \/ AsyncReadMetadata \/ Poll \/ Pending \/ Eof
  \/ AsyncReadMarker \/ AsyncReadLength \/ AsyncReadPayload \/ AsyncReadBody

AsyncNext ==
  \/ WriterNext /\ UNCHANGED asyncReader
  \/ AsyncDeliver \/ CloseTransport
  \/ Run

\* The transport delivers and closes, and the executor runs what was woken.
AsyncFairness ==
  WF_asyncVars(AsyncDeliver) /\ WF_asyncVars(CloseTransport) /\ WF_asyncVars(Run)

AsyncSpec == AsyncInit /\ [][AsyncNext]_asyncVars /\ AsyncFairness
-----------------------------------------------------------------------------
Reading == {"marker", "half", "length", "payload", "body"}

AsyncTypeOK ==
  /\ WriterTypeOK
  /\ arrived \in 0 .. Len(wire) /\ taken \in 0 .. arrived
  /\ eof \in BOOLEAN /\ polling \in BOOLEAN /\ registered \in BOOLEAN /\ woken \in BOOLEAN
  /\ future \in Reading \cup {"metadata", "waiting", "ended", "failed"}
  /\ message \in StreamCells
  /\ known \in Tracker
  /\ yielded \in Seq(Chunks)

\* A stream that awaits a message is being polled, is about to be, or sleeps
\* with a waker where the next byte will find it: no wake-up is lost.
NoLostWakeup ==
  future \in Reading => polling \/ woken \/ (registered /\ ~AsyncAvailable /\ ~eof)

WakeInv == AsyncTypeOK /\ NoLostWakeup

\* Where the reader is: at a message or in the middle of one.
AsyncReaderIsInPlace ==
  /\ polling => future \in Reading
  /\ future = "metadata" => taken = 0
  /\ future \in Reading => taken >= Len(Packet(Schema))
  /\ future = "marker" => EndsMessage(wire[taken])
  /\ future = "half" => wire[taken] = Half1
  /\ future = "length" => wire[taken] = Half2
  /\ future = "payload" => wire[taken] = Length
  /\ future = "body" => wire[taken] = message /\ HasBody(message)

\* The cells that have been made use of: not the message of the body to be read.
AsyncUsed == IF future = "body" THEN taken - 1 ELSE taken

\* The reader has what the cells up to there define, and their records as chunks.
AsyncReaderKnows == future # "failed" => Knows(wire, AsyncUsed, known, Len(yielded))

YieldedIsSent ==
  Len(yielded) <= Len(sent) /\ \A k \in 1 .. Len(yielded) : yielded[k] = sent[k]

\* The inductive invariant behind AsyncStreamIsChannel.
AsyncStreamInv ==
  /\ AsyncTypeOK /\ WriterInv
  /\ AsyncReaderIsInPlace /\ AsyncReaderKnows /\ YieldedIsSent

\* What is sent is yielded, and a finished stream ends; "read the next message
\* until we encounter a Chunk" (stream_async.rs:179).
AsyncDrained ==
  \/ yielded = sent /\ (finished => future = "ended")
  \/ future = "failed"

EverythingIsYielded == <>[]AsyncDrained

\* Chunks are yielded whole, in order, once each, and the stream ends after the
\* last of them.
AsyncChan == INSTANCE Channel WITH
  Chunk    <- Chunks,
  received <- yielded,
  closed   <- \E n \in 1 .. Len(wire) : wire[n] = Zero,
  reader   <- CASE future = "ended" -> "ended" [] future = "failed" -> "lost"
                [] OTHER -> "open"

AsyncStreamIsChannel == AsyncChan!Spec
=============================================================================

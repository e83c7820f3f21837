------------------------------- MODULE MCSinks -------------------------------
(***************************************************************************)
(* Instances of the three sinks for TLC: a behaviour is one of one sink,   *)
(* while the others stay as they were made.                                *)
(***************************************************************************)
EXTENDS IpcFileSink

CONSTANTS d1, d2, v1, v2, NoPages, NoColumn, Entries, Width

OwnIds == << d1, d2 >>

ASSUME ParquetAssumption == Width \in Nat /\ NoColumn \notin Values

VARIABLES
  sink,   \* the sink that is used
  streamWire, streamWriter, streamTask, streamTracker, streamClosing, streamClosed,
  streamAccepted, streamFailed, streamUsed, streamFaults,
  parquetFile, parquetWriter, parquetTask, parquetMetadata, parquetClosing, parquetClosed,
  parquetAccepted, parquetInserted, parquetFailed, parquetFaults

Stream == INSTANCE IpcStreamSink WITH
  wire <- streamWire, writer <- streamWriter, task <- streamTask, tracker <- streamTracker,
  closing <- streamClosing, closed <- streamClosed, accepted <- streamAccepted,
  failed <- streamFailed, used <- streamUsed, faults <- streamFaults

streamVars ==
  << streamWire, streamWriter, streamTask, streamTracker, streamClosing, streamClosed,
     streamAccepted, streamFailed, streamUsed, streamFaults >>

Parquet == INSTANCE ParquetSink WITH
  file <- parquetFile, writer <- parquetWriter, task <- parquetTask, metadata <- parquetMetadata,
  closing <- parquetClosing, closed <- parquetClosed, accepted <- parquetAccepted,
  inserted <- parquetInserted, failed <- parquetFailed, faults <- parquetFaults

parquetVars ==
  << parquetFile, parquetWriter, parquetTask, parquetMetadata, parquetClosing, parquetClosed,
     parquetAccepted, parquetInserted, parquetFailed, parquetFaults >>

SinksInit == Init /\ Stream!Init /\ Parquet!Init /\ sink \in {"file", "stream", "parquet"}

SinksNext ==
  \/ sink = "file" /\ Next /\ UNCHANGED << streamVars, parquetVars, sink >>
  \/ sink = "stream" /\ Stream!Next /\ UNCHANGED << vars, parquetVars, sink >>
  \/ sink = "parquet" /\ Parquet!Next /\ UNCHANGED << vars, streamVars, sink >>

SinksSpec ==
  /\ SinksInit /\ [][SinksNext]_<< vars, streamVars, parquetVars, sink >>
  /\ Fairness /\ Stream!Fairness /\ Parquet!Fairness
-----------------------------------------------------------------------------
\* The writer of a sink is in the sink, in its task, or gone for a reason: an error
\* takes it, and nothing else does.
WritersAreKept == SinkInv /\ Stream!SinkInv /\ Parquet!SinkInv

\* A clean close of any sink is the end: an IPC or Parquet file then reads back every
\* chunk start_send accepted, the latter with its metadata, and the stream has its end
\* mark once, whichever polls drove the tasks and were given up in between.
ClosesAreFinal == ClosedReadsBack /\ Stream!ClosedIsFinished /\ Parquet!ClosedReadsBack

\* An awaited close() of any sink returns, with Ok, an error or a panic.
ClosesReturn == CloseReturns /\ Stream!CloseReturns /\ Parquet!CloseReturns

\* A StreamSink puts on the wire what StreamWriter would.
SinkIsStreamWriter == Stream!SinkIsStreamWriter
=============================================================================

----------------------------- MODULE MCIpcStream -----------------------------
(***************************************************************************)
(* Instances for TLC of both readers of a stream: a behaviour is one of    *)
(* StreamReader or of AsyncStreamReader, while the other stays as it was   *)
(* made.                                                                   *)
(***************************************************************************)
EXTENDS IpcStream, IpcAsyncStream

CONSTANTS d1, d2, v1, v2, v3

OwnIds == << d1, d2 >>

VARIABLE async   \* AsyncStreamReader has the stream

ReadersInit == Init /\ AsyncInit /\ async \in BOOLEAN

ReadersNext ==
  \/ ~async /\ Next /\ UNCHANGED << asyncReader, async >>
  \/ async /\ AsyncNext /\ UNCHANGED << rvars, async >>

readersVars == << vars, asyncReader, async >>

ReadersSpec ==
  /\ ReadersInit /\ [][ReadersNext]_readersVars
  /\ WF_vars(~async /\ Deliver) /\ WF_vars(~async /\ Read)

\* StreamReader receives everything and sees a finished stream end, unless it met
\* the end of the bytes inside a message or failed.
EverythingIsReceived == <>[](async \/ Drained)
==============================================================================

-------------------------- MODULE MCIpcAsyncStream --------------------------
(* Instances of IpcAsyncStream for TLC. *)
EXTENDS IpcAsyncStream

CONSTANTS d1, v1

NoIds == << >>

OneId == << d1 >>
==============================================================================

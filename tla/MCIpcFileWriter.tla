--------------------------- MODULE MCIpcFileWriter ---------------------------
(* Instances of IpcFileWriter for TLC. *)
EXTENDS IpcFileWriter

CONSTANTS d1, d2, v1, v2

\* Two dictionary columns, numbered as default_ipc_fields numbers them.
OwnIds == << d1, d2 >>
==============================================================================

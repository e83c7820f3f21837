----------------------------- MODULE AtomicFile -----------------------------
(***************************************************************************)
(* What an Arrow IPC file promises to whoever opens it, whatever the       *)
(* writer is doing: it either holds exactly the chunks of the last         *)
(* completed writing session or it does not open at all.                   *)
(***************************************************************************)
EXTENDS Sequences

CONSTANTS
  Chunk,        \* the chunks that can be written
  Unreadable    \* the file does not open

VARIABLES
  log,      \* the chunks of the session in progress
  stored,   \* what opening the file now gives
  open      \* a session is in progress

Init ==
  /\ log = << >>
  /\ stored = Unreadable
  /\ open = TRUE

\* The session's first bytes may already have made the file unreadable.
MayBreak == stored' \in {stored, Unreadable}

AppendChunk ==
  /\ open
  /\ \E c \in Chunk : log' = Append(log, c)
  /\ MayBreak
  /\ UNCHANGED open

Break ==
  /\ open
  /\ stored' = Unreadable
  /\ UNCHANGED << log, open >>

Commit ==
  /\ open
  /\ stored' = log
  /\ open' = FALSE
  /\ log' = << >>

\* The writer is dropped, gives up on an error, or its process dies.
Abandon ==
  /\ open
  /\ open' = FALSE
  /\ log' = << >>
  /\ MayBreak

Reopen ==
  /\ ~open
  /\ stored # Unreadable
  /\ log' = stored
  /\ open' = TRUE
  /\ UNCHANGED stored

Next == AppendChunk \/ Break \/ Commit \/ Abandon \/ Reopen

vars == << log, stored, open >>

Spec == Init /\ [][Next]_vars
=============================================================================

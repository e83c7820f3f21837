------------------------------ MODULE Channel ------------------------------
(***************************************************************************)
(* What an Arrow IPC stream promises: the chunks arrive whole, in order    *)
(* and without gaps; the reader learns of the end only when the writer has *)
(* closed the stream and everything has arrived.  The reader may lose the  *)
(* stream, and then receives nothing more.                                 *)
(***************************************************************************)
EXTENDS Naturals, Sequences

CONSTANT Chunk

VARIABLES sent, closed, received, reader

vars == << sent, closed, received, reader >>

Init ==
  /\ sent = << >> /\ closed = FALSE
  /\ received = << >> /\ reader = "open"

Send ==
  /\ ~closed
  /\ \E c \in Chunk : sent' = Append(sent, c)
  /\ UNCHANGED << closed, received, reader >>

Close ==
  /\ closed' = TRUE
  /\ UNCHANGED << sent, received, reader >>

Receive ==
  /\ reader = "open"
  /\ Len(received) < Len(sent)
  /\ received' = Append(received, sent[Len(received) + 1])
  /\ UNCHANGED << sent, closed, reader >>

End ==
  /\ reader = "open"
  /\ closed /\ received = sent
  /\ reader' = "ended"
  /\ UNCHANGED << sent, closed, received >>

Lose ==
  /\ reader = "open"
  /\ reader' = "lost"
  /\ UNCHANGED << sent, closed, received >>

Next == Send \/ Close \/ Receive \/ End \/ Lose

Spec == Init /\ [][Next]_vars
=============================================================================

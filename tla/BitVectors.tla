----------------------------- MODULE BitVectors -----------------------------
(***************************************************************************)
(* What the bitmaps of arrow2 promise: a MutableBitmap is a Vec<bool> and  *)
(* a Bitmap an immutable Arc<Vec<bool>>.  A step changes one vector, in a  *)
(* way its kind allows; nothing it shares memory with is seen to change.   *)
(***************************************************************************)
EXTENDS Naturals, Sequences

CONSTANT Slots     \* the variables of a program that hold bitmaps

VARIABLE held      \* slot -> [kind : {"none", "bitmap", "mutable"}, bits : Seq(BOOLEAN)]

Kinds   == {"bitmap", "mutable"}
Nothing == [kind |-> "none", bits |-> << >>]

\* The program starts with any vectors.
Init ==
  /\ DOMAIN held = Slots
  /\ \A s \in Slots : \/ held[s] = Nothing
                      \/ held[s].kind \in Kinds /\ held[s].bits \in Seq(BOOLEAN)

\* v is u with more behind it: one of a single value many times, or the bits
\* of another vector.
Extends(u, v) ==
  /\ Len(v) >= Len(u) /\ SubSeq(v, 1, Len(u)) = u
  /\ LET more == SubSeq(v, Len(u) + 1, Len(v)) IN
     \/ \A i, j \in DOMAIN more : more[i] = more[j]
     \/ \E t \in Slots : more = held[t].bits

Edited(u, v) ==
  \/ Extends(u, v)
  \/ v = << >>
  \/ u # << >> /\ v = SubSeq(u, 1, Len(u) - 1)
  \/ Len(v) = Len(u) /\ \E i \in DOMAIN u : \A j \in DOMAIN u : j # i => v[j] = u[j]

IsWindow(u, v) ==
  \E offset \in 0 .. Len(u) - Len(v) : v = SubSeq(u, offset + 1, offset + Len(v))

\* v is ~u, or the combination of u with another bitmap, bit by bit.
Combined(u, v) ==
  \/ \A i \in DOMAIN u : v[i] = ~u[i]
  \/ \E t \in Slots :
       /\ held[t].kind = "bitmap" /\ Len(held[t].bits) = Len(u)
       /\ LET w == held[t].bits IN
          \/ \A i \in DOMAIN u : v[i] = (u[i] /\ w[i])
          \/ \A i \in DOMAIN u : v[i] = (u[i] \/ w[i])
          \/ \A i \in DOMAIN u : v[i] = (u[i] # w[i])

Step(old, new) ==
  \/ new = Nothing
  \/ old.kind = "none" /\ new.kind = "mutable" /\ new.bits = << >>
  \/ old.kind = "none" /\ \E t \in Slots : \/ new = held[t]
                                           \/ new.kind = "mutable" /\ new.bits = held[t].bits
  \/ {old.kind, new.kind} = Kinds /\ new.bits = old.bits
  \/ old.kind = "mutable" /\ new.kind = "mutable" /\ Edited(old.bits, new.bits)
  \/ old.kind = "bitmap" /\ new.kind = "bitmap" /\ IsWindow(old.bits, new.bits)
  \/ /\ old.kind \in Kinds /\ new.kind = old.kind
     /\ Len(new.bits) = Len(old.bits) /\ Combined(old.bits, new.bits)

Next ==
  \E s \in Slots :
    /\ \A t \in Slots \ {s} : held'[t] = held[t]
    /\ Step(held[s], held'[s])

Spec == Init /\ [][Next]_held
=============================================================================

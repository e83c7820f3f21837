---------------------------- MODULE SlicesIterator ----------------------------
(***************************************************************************)
(* The runs of set bits of a bitmap, one after the other                   *)
(* (src/src/bitmap/utils/slice_iterator.rs): bit by bit, but for whole     *)
(* bytes of one value, which are passed at once.                           *)
(***************************************************************************)
EXTENDS Integers, Sequences

CONSTANT ByteBits   \* 8 in the code

ASSUME ByteBitsAssumption == ByteBits \in Nat \ {0}

VARIABLES
  bitmap,    \* what is iterated over: its bytes, the offset in the first, its length
  iterator,  \* at: the current byte; bit: the mask; start, len, onRegion, finished
  slices     \* the slices returned so far: << start, len >>

slicesvars == << bitmap, iterator, slices >>

IteratorNew(b) ==
  [at |-> 1, bit |-> b.offset, start |-> 0, len |-> 0, onRegion |-> FALSE,
   finished |-> b.bytes = << >>]

\* The bitmap is the caller's.
SlicesInit == iterator = IteratorNew(bitmap) /\ slices = << >>

Lesser(a, b) == IF a < b THEN a ELSE b

\* The current byte is kept if there is no other.
NextByte(it) == [it EXCEPT !.at = Lesser(it.at + 1, Len(bitmap.bytes))]

\* The slice that is returned when the iterator is in this state, if any.
Emit(it) == IF it.onRegion THEN << << it.start, it.len >> >> ELSE << >>

CurrentByte == bitmap.bytes[iterator.at]

Finish(it) ==
  /\ iterator' = [it EXCEPT !.finished = TRUE]
  /\ slices' = slices \o Emit(it)

\* A byte without a change is passed as a whole.
PassByte ==
  /\ iterator' = NextByte([iterator EXCEPT !.len = Lesser(bitmap.length - iterator.start, @ + ByteBits)])
  /\ UNCHANGED slices

\* A bug: a run that ends with its byte is left for the next turn with the old byte.
ReadBitOnly ==
  LET value == CurrentByte[iterator.bit + 1]
      read == [iterator EXCEPT !.bit = (@ + 1) % ByteBits]
      begun == [read EXCEPT !.start = @ + iterator.len, !.len = 1, !.onRegion = value]
      longer == [read EXCEPT !.len = @ + 1]
      after == IF value = iterator.onRegion THEN longer ELSE begun
  IN  IF iterator.onRegion /\ ~value
        THEN iterator' = after /\ slices' = slices \o Emit(iterator)
      ELSE IF read.bit = 0 /\ iterator.at = Len(bitmap.bytes) THEN Finish(after)
      ELSE iterator' = (IF read.bit = 0 THEN NextByte(after) ELSE after) /\ UNCHANGED slices

ReadBit ==
  LET value == CurrentByte[iterator.bit + 1]
      read == [iterator EXCEPT !.bit = (@ + 1) % ByteBits]
      begun == [read EXCEPT !.start = @ + iterator.len, !.len = 1, !.onRegion = value]
      longer == [read EXCEPT !.len = @ + 1]
      after == IF value = iterator.onRegion THEN longer ELSE begun
      moved == IF read.bit = 0 THEN NextByte(after) ELSE after
  IN  IF iterator.onRegion /\ ~value
        THEN iterator' = moved /\ slices' = slices \o Emit(iterator)
      ELSE IF read.bit = 0 /\ iterator.at = Len(bitmap.bytes) THEN Finish(after)
      ELSE iterator' = moved /\ UNCHANGED slices

\* One turn of the loop in next().
Turn ==
  /\ ~iterator.finished
  /\ UNCHANGED bitmap
  /\ IF iterator.start + iterator.len = bitmap.length THEN Finish(iterator)
     ELSE IF iterator.bit = 0 /\ \A i \in 1 .. ByteBits : CurrentByte[i] = iterator.onRegion
       THEN PassByte
     ELSE ReadBit

SlicesSpec == SlicesInit /\ [][Turn]_slicesvars
-----------------------------------------------------------------------------
\* Bit i of the bitmap, from 0.
BitAt(i) ==
  LET j == bitmap.offset + i IN bitmap.bytes[(j \div ByteBits) + 1][(j % ByteBits) + 1]

\* [start, start + len) is set, and the bits around it are not.
IsRun(start, len) ==
  /\ len > 0 /\ start >= 0 /\ start + len <= bitmap.length
  /\ \A i \in start .. start + len - 1 : BitAt(i)
  /\ start > 0 => ~BitAt(start - 1)
  /\ start + len < bitmap.length => ~BitAt(start + len)

\* How far the slices returned reach.
RunsReach == IF slices = << >> THEN 0 ELSE slices[Len(slices)][1] + slices[Len(slices)][2]

\* Every slice is a whole run of set bits, and none is left out or returned twice:
\* between two of them, and after the last one when the iterator is at its end,
\* there are only unset bits.  Whatever the offset in the first byte and the bits
\* behind the length.
SlicesAreTheRuns ==
  /\ \A k \in DOMAIN slices :
       LET before == IF k = 1 THEN 0 ELSE slices[k - 1][1] + slices[k - 1][2]
       IN  /\ IsRun(slices[k][1], slices[k][2])
           /\ \A i \in before .. slices[k][1] - 1 : ~BitAt(i)
  /\ iterator.finished => \A i \in RunsReach .. bitmap.length - 1 : ~BitAt(i)

=============================================================================

------------------------------- MODULE Bitmaps --------------------------------
(***************************************************************************)
(* Bitmaps and mutable bitmaps (src/src/bitmap): their bytes, and a few of *)
(* them in a program, which share bytes.                                   *)
(***************************************************************************)
EXTENDS Naturals, Sequences, FiniteSets

(***************************************************************************)
(* The bytes under a bitmap, and what src/src/bitmap computes from them.   *)
(* Bytes are kept as the sequence of their bits, the least significant     *)
(* first, W to a byte, so that a byte keeps the bits no length covers.     *)
(* The code works on bytes of 8 bits and on chunks (u64) of 8 bytes.       *)
(***************************************************************************)
CONSTANTS W,         \* bits of a byte
          ChunkBytes \* bytes of a chunk

ASSUME WidthsAssumption == W \in Nat \ {0} /\ ChunkBytes \in Nat \ {0}

Fill(n, v)      == [i \in 1 .. n |-> v]
Count(s, v)     == Cardinality({i \in DOMAIN s : s[i] = v})
Chunk           == W * ChunkBytes
BytesFor(n)     == (n + W - 1) \div W
LeastOf(a, b)   == IF a < b THEN a ELSE b
Take(s, n)      == SubSeq(s, 1, LeastOf(n, Len(s)))
Drop(s, n)      == SubSeq(s, n + 1, Len(s))
Padded(s, n)    == Take(s, n) \o Fill(n - LeastOf(n, Len(s)), FALSE)
Region(s, offset, n) == SubSeq(s, offset + 1, offset + n)

-----------------------------------------------------------------------------
(* utils/mod.rs *)

\* A bug: the bits of a last, partial byte are not masked.
CountZerosUnmasked(s, offset, n) ==
  LET slice == SubSeq(s, W * (offset \div W) + 1, W * BytesFor(offset + n)) IN
  IF n = 0 THEN 0 ELSE n - LeastOf(n, Count(Drop(slice, offset % W), TRUE))

\* The zeros among n bits: within one byte; or the rest of a first byte, the
\* start of a last one, and the bytes between them.
CountZeros(s, offset, n) ==
  LET slice  == SubSeq(s, W * (offset \div W) + 1, W * BytesFor(offset + n))
      o      == offset % W
      last   == (o + n) % W
      middle == SubSeq(slice, IF o # 0 THEN W + 1 ELSE 1,
                       IF last # 0 THEN Len(slice) - W ELSE Len(slice))
  IN IF n = 0 THEN 0
     ELSE IF (o + n) \div W = 0 THEN n - Count(Region(slice, o, n), TRUE)
     ELSE n - (  (IF o # 0 THEN Count(SubSeq(slice, o + 1, W), TRUE) ELSE 0)
               + (IF last # 0 THEN Count(Region(slice, Len(slice) - W, last), TRUE) ELSE 0)
               + Count(middle, TRUE))
-----------------------------------------------------------------------------
(* utils/chunk_iterator *)

\* A bug: the bits the next chunk lends are not shifted in.
MergeCurrentOnly(current, next, offset) ==
  Drop(current, offset) \o Fill(offset, FALSE)

MergeReversed(current, next, offset) == Drop(current, offset) \o Take(next, offset)

\* BitChunks: the bits of every chunk it yields and of remainder(), which may
\* hold bits of the region's bytes beyond the n asked for.
BitChunks(s, offset, n) ==
  LET slice  == Drop(s, W * (offset \div W))
      o      == offset % W
      full   == n \div Chunk
      chunk(k)  == Region(slice, k * Chunk, Chunk)
      remainder == IF full = 0 THEN slice
                   ELSE SubSeq(slice, full * Chunk + 1, W * BytesFor(n + o))
      lastChunk == Padded(Take(remainder, W), Chunk)
      merged(k) == IF o = 0 THEN chunk(k)
                   ELSE MergeReversed(chunk(k),
                                      IF k + 1 < full THEN chunk(k + 1) ELSE lastChunk, o)
  IN [i \in 1 .. full * Chunk |-> merged((i - 1) \div Chunk)[((i - 1) % Chunk) + 1]]
       \o Padded(Drop(remainder, LeastOf(o, Len(remainder))), Chunk)

\* BitChunksExact, of bytes that start with the first bit.
BitChunksExact(s, n) ==
  LET full  == n \div Chunk
      bytes == Take(s, W * BytesFor(n))
  IN Take(bytes, full * Chunk) \o Padded(Drop(bytes, full * Chunk), Chunk)

Chunks(s, offset, n) ==
  IF offset % W = 0 THEN BitChunksExact(Drop(s, offset), n) ELSE BitChunks(s, offset, n)
-----------------------------------------------------------------------------
(***************************************************************************)
(* Bitmap and MutableBitmap (src/src/bitmap).  A MutableBitmap owns its    *)
(* bytes; Bitmaps are windows into regions they share through an Arc, each *)
(* with a cached count of unset bits.  into_mut takes the bytes of a       *)
(* region that one bitmap holds back out of it.                            *)
(***************************************************************************)
CONSTANTS Slots,      \* the variables of the program that hold bitmaps
          Given,      \* the bytes the program starts with
          MaxBits,    \* bound: the length of a bitmap
          MaxSteps,   \* bound: the calls a program makes
          SpareBytes  \* whether callers extend a MutableBitmap with spare bytes

ASSUME BitmapsAssumption ==
  /\ IsFiniteSet(Slots)
  /\ \A bytes \in Given : bytes \in Seq(BOOLEAN) /\ Len(bytes) % W = 0
  /\ MaxBits \in Nat /\ MaxSteps \in Nat /\ SpareBytes \in BOOLEAN

VARIABLES slots,   \* slot -> what it holds
          memory,  \* region -> its bytes; foreign: imported from the C data interface
          steps    \* the calls made

vars == << slots, memory, steps >>

Regions == 1 .. Cardinality(Slots)
None    == [kind |-> "none"]
Free    == [bytes |-> << >>, foreign |-> FALSE]

Holds(s, kind) == slots[s].kind = kind
Uses(h, r)     == h.kind = "bitmap" /\ h.region = r
Shared(r)      == \E s, t \in Slots : s # t /\ Uses(slots[s], r) /\ Uses(slots[t], r)
BytesOf(b)     == memory[b.region].bytes

\* What iter() yields.
Value(h) ==
  CASE h.kind = "none"    -> << >>
    [] h.kind = "mutable" -> Take(h.bytes, h.length)
    [] h.kind = "bitmap"  -> Region(BytesOf(h), h.offset, h.length)

Mutable(bytes, length) == [kind |-> "mutable", bytes |-> bytes, length |-> length]
Window(r, bytes, length) ==
  [kind |-> "bitmap", region |-> r, offset |-> 0, length |-> length,
   unset |-> CountZeros(bytes, 0, length)]

\* try_new of either, or from_bytes of imported bytes: vectors of any number of
\* bytes that the length fits in.
Init ==
  /\ steps = 0
  /\ \E s \in Slots, bytes \in Given :
     \E length \in 0 .. LeastOf(MaxBits, Len(bytes)) :
       \/ /\ slots = [t \in Slots |-> IF t = s THEN Mutable(bytes, length) ELSE None]
          /\ memory = [r \in Regions |-> Free]
       \/ \E foreign \in BOOLEAN :
            /\ slots = [t \in Slots |-> IF t = s THEN Window(1, bytes, length) ELSE None]
            /\ memory = [r \in Regions |->
                 IF r = 1 THEN [bytes |-> bytes, foreign |-> foreign] ELSE Free]

Call == steps < MaxSteps /\ steps' = steps + 1

\* An Arc frees its bytes with the last bitmap that holds it.
Put(s, h) ==
  /\ Call
  /\ slots' = [slots EXCEPT ![s] = h]
  /\ memory' = [r \in Regions |-> IF \E t \in Slots : Uses(slots'[t], r) THEN memory[r] ELSE Free]

\* try_new, from_bytes: a bitmap with a region of its own.
PutBitmap(s, bytes, length, foreign) ==
  LET region == CHOOSE r \in Regions : \A t \in Slots \ {s} : ~Uses(slots[t], r) IN
  /\ Call
  /\ slots' = [slots EXCEPT ![s] = Window(region, bytes, length)]
  /\ memory' = [r \in Regions |->
       IF r = region THEN [bytes |-> bytes, foreign |-> foreign]
       ELSE IF \E t \in Slots \ {s} : Uses(slots[t], r) THEN memory[r] ELSE Free]
-----------------------------------------------------------------------------
(* MutableBitmap *)

Exact(m)  == Len(m.bytes) = W * BytesFor(m.length)
Packed(v) == Mutable(Padded(v, W * BytesFor(Len(v))), Len(v))
LastStart(m) == Len(m.bytes) - W            \* where the last byte of the vector starts

Fits(m, n) == m.length + n <= MaxBits /\ (SpareBytes \/ Exact(m))

\* The bits of the last byte from `from` on, replaced by v.
WithLast(bytes, from, v) ==
  [i \in DOMAIN bytes |->
     LET j == i - (Len(bytes) - W) - from IN IF i > Len(bytes) - W /\ j \in DOMAIN v THEN v[j] ELSE bytes[i]]

Pushed(m, b) ==
  LET o     == m.length % W
      bytes == IF o = 0 THEN m.bytes \o Fill(W, FALSE) ELSE m.bytes
  IN Mutable(WithLast(bytes, o, << b >>), m.length + 1)

Popped(m) ==
  LET n == m.length - 1
  IN Mutable(IF n % W = 0 THEN Take(m.bytes, LastStart(m)) ELSE m.bytes, n)

\* extend_set and extend_unset: finish the last byte, then add whole bytes.
ExtendedConstant(m, n, v) ==
  LET o     == m.length % W
      added == IF o # 0 THEN LeastOf(n, W - o) ELSE 0
      bytes == IF o = 0 THEN m.bytes
               ELSE WithLast(m.bytes, o, IF v THEN Fill(added, TRUE) ELSE Fill(W - o, FALSE))
      size  == W * BytesFor(m.length + n)
      more  == IF v THEN bytes \o Fill(size - W * BytesFor(m.length + added), TRUE)
               ELSE Padded(bytes, size)
  IN IF n = 0 THEN m ELSE Mutable(IF n > added THEN more ELSE bytes, m.length + n)

\* extend_from_trusted_len_iter
ExtendedFromIter(m, v) ==
  LET o    == m.length % W
      fill == IF o # 0 THEN W - o ELSE 0
      rest == Drop(v, fill)
  IN IF Len(v) < W - o
       THEN Mutable(WithLast(IF o = 0 THEN m.bytes \o Fill(W, FALSE) ELSE m.bytes, o, v),
                    m.length + Len(v))
       ELSE Mutable((IF o = 0 THEN m.bytes ELSE WithLast(m.bytes, o, Take(v, fill)))
                      \o Padded(rest, W * BytesFor(Len(rest))),
                    m.length + Len(v))

\* extend_unaligned: the bytes of `slice` shifted into the last byte and after it.
ExtendedUnaligned(m, slice, offset, n) ==
  LET o     == m.length % W
      items == Region(slice, offset, W * BytesFor(n))
      extra == W * BytesFor(n - (W - o))
  IN Mutable(WithLast(m.bytes, o, Take(items, W - o))
               \o (IF n + o <= W THEN << >> ELSE Padded(Drop(items, W - o), extra)),
             m.length + n)

\* extend_from_slice
ExtendedFromSlice(m, slice, offset, n) ==
  IF n = 0 THEN m
  ELSE IF offset % W # 0 THEN ExtendedFromIter(m, Region(slice, offset, n))
  ELSE IF m.length % W # 0 THEN ExtendedUnaligned(m, slice, offset, n)
  ELSE Mutable(m.bytes \o Region(slice, offset, W * BytesFor(n)), m.length + n)

\* from_trusted_len_iter, over what t holds.
Collect(s, t) == Holds(s, "none") /\ ~Holds(t, "none") /\ Put(s, Packed(Value(slots[t])))

Push(s, b) ==
  /\ Holds(s, "mutable") /\ Fits(slots[s], 1)
  /\ Put(s, Pushed(slots[s], b))

Pop(s) ==
  /\ Holds(s, "mutable") /\ slots[s].length > 0
  /\ Put(s, Popped(slots[s]))

Set(s, i, b) ==
  /\ Holds(s, "mutable") /\ i < slots[s].length
  /\ Put(s, [slots[s] EXCEPT !.bytes[i + 1] = b])

ExtendConstant(s, n, v) ==
  /\ Holds(s, "mutable") /\ Fits(slots[s], n)
  /\ Put(s, ExtendedConstant(slots[s], n, v))

ExtendFromTrustedLenIter(s, t) ==
  /\ Holds(s, "mutable") /\ s # t /\ Fits(slots[s], Len(Value(slots[t])))
  /\ Put(s, ExtendedFromIter(slots[s], Value(slots[t])))

ExtendFromBitmap(s, t) ==
  /\ Holds(s, "mutable") /\ Holds(t, "bitmap") /\ Fits(slots[s], slots[t].length)
  /\ Put(s, ExtendedFromSlice(slots[s], BytesOf(slots[t]), slots[t].offset, slots[t].length))

New(s)   == Holds(s, "none") /\ Put(s, Mutable(<< >>, 0))
Clear(s) == Holds(s, "mutable") /\ Put(s, Mutable(<< >>, 0))

\* From<MutableBitmap> for Bitmap
Freeze(s) ==
  /\ Holds(s, "mutable")
  /\ PutBitmap(s, slots[s].bytes, slots[s].length, FALSE)
-----------------------------------------------------------------------------
(* Bitmap *)

Clone(s, t) == Holds(s, "bitmap") /\ Holds(t, "none") /\ Put(t, slots[s])

\* slice counts the unset bits of the smaller side.
Sliced(b, offset, n) ==
  LET end  == b.offset + offset + n
      head == CountZeros(BytesOf(b), b.offset, offset)
      tail == CountZeros(BytesOf(b), end, b.length - n - offset)
  IN [b EXCEPT !.offset = @ + offset, !.length = n,
        !.unset = IF n < b.length \div 2 THEN CountZeros(BytesOf(b), b.offset + offset, n)
                  ELSE @ - (head + tail)]

Slice(s, offset, n) ==
  /\ Holds(s, "bitmap") /\ offset + n <= slots[s].length
  /\ Put(s, Sliced(slots[s], offset, n))

\* A bug: the other bitmaps on the region are forgotten.
OwnsUncounted(b) == b.offset = 0 /\ ~memory[b.region].foreign

\* Arc::get_mut and ForeignVec::get_vec
Owns(b) == b.offset = 0 /\ ~Shared(b.region) /\ ~memory[b.region].foreign

\* mem::take leaves an empty vector in the region.  Left is the bitmap itself.
IntoMut(s) ==
  /\ Holds(s, "bitmap") /\ Owns(slots[s])
  /\ Call
  /\ slots' = [slots EXCEPT ![s] = Mutable(BytesOf(@), @.length)]
  /\ memory' = [memory EXCEPT ![slots[s].region] = Free]

\* Otherwise the bytes are copied, and re-aligned under an offset.
MakeMut(s) ==
  /\ Holds(s, "bitmap") /\ ~Owns(slots[s])
  /\ LET b == slots[s] IN
     Put(s, Mutable(IF b.offset > 0 THEN BitChunks(BytesOf(b), b.offset, b.length) ELSE BytesOf(b),
                    b.length))

Release(s) == ~Holds(s, "none") /\ Put(s, None)
-----------------------------------------------------------------------------
(* bitmap_ops.rs and assign_ops.rs *)

Ops == {"and", "or", "xor"}

Apply(op, a, b) ==
  CASE op = "and" -> a /\ b [] op = "or" -> a \/ b [] op = "xor" -> a # b

AllSet(b)   == b.unset = 0
AllUnset(b) == b.unset = b.length

Zeroed(n) == Fill(W * BytesFor(n), FALSE)
AllOnes(n) == ExtendedConstant(Mutable(<< >>, 0), n, TRUE).bytes

\* The bytes of lhs op rhs; constant operands are told by their counts.
Combined(op, lhs, rhs) ==
  LET n == lhs.length
      l == BitChunks(BytesOf(lhs), lhs.offset, n)
      r == BitChunks(BytesOf(rhs), rhs.offset, n)
  IN CASE op = "and" /\ (AllUnset(lhs) \/ AllUnset(rhs)) -> Zeroed(n)
       [] op = "or"  /\ (AllSet(lhs) \/ AllSet(rhs)) -> AllOnes(n)
       [] op = "xor" /\ ((AllUnset(lhs) /\ AllUnset(rhs)) \/ (AllSet(lhs) /\ AllSet(rhs))) -> Zeroed(n)
       [] op = "xor" /\ ((AllSet(lhs) /\ AllUnset(rhs)) \/ (AllUnset(lhs) /\ AllSet(rhs))) -> AllOnes(n)
       [] OTHER -> [i \in DOMAIN l |-> Apply(op, l[i], r[i])]

\* lhs becomes &lhs op &rhs
BinaryOp(op, s, t) ==
  /\ Holds(s, "bitmap") /\ Holds(t, "bitmap") /\ slots[s].length = slots[t].length
  /\ PutBitmap(s, Combined(op, slots[s], slots[t]), slots[s].length, FALSE)

Negated(bits) == [i \in DOMAIN bits |-> ~bits[i]]

NotOp(s) ==
  /\ Holds(s, "bitmap")
  /\ PutBitmap(s, Negated(Chunks(BytesOf(slots[s]), slots[s].offset, slots[s].length)),
               slots[s].length, FALSE)

\* binary_assign writes back the bytes the length covers.
Assigned(op, m, b) ==
  LET r == Chunks(BytesOf(b), b.offset, b.length) IN
  CASE op = "or"  /\ AllSet(b) -> Mutable(AllOnes(b.length), b.length)
    [] op = "or"  /\ AllUnset(b) /\ ~AllSet(b) -> m
    [] op = "and" /\ AllUnset(b) -> ExtendedConstant(Mutable(<< >>, 0), b.length, FALSE)
    [] OTHER -> [m EXCEPT !.bytes =
         [i \in DOMAIN @ |-> IF i <= W * BytesFor(m.length) THEN Apply(op, @[i], r[i]) ELSE @[i]]]

AssignOp(op, s, t) ==
  /\ Holds(s, "mutable") /\ Holds(t, "bitmap") /\ slots[s].length = slots[t].length
  /\ Put(s, Assigned(op, slots[s], slots[t]))

\* unary_assign
NotAssign(s) ==
  /\ Holds(s, "mutable")
  /\ Put(s, [slots[s] EXCEPT !.bytes =
       [i \in DOMAIN @ |-> IF i <= W * BytesFor(slots[s].length) THEN ~@[i] ELSE @[i]]])
-----------------------------------------------------------------------------
Next ==
  \E s \in Slots :
    \/ \E b \in BOOLEAN :
         \/ Push(s, b)
         \/ \E i \in 0 .. MaxBits : Set(s, i, b) \/ ExtendConstant(s, i, b)
    \/ New(s) \/ Pop(s) \/ Clear(s) \/ Freeze(s) \/ IntoMut(s) \/ MakeMut(s) \/ Release(s)
    \/ NotOp(s) \/ NotAssign(s)
    \/ \E offset, n \in 0 .. MaxBits : Slice(s, offset, n)
    \/ \E t \in Slots :
         \/ Collect(s, t) \/ ExtendFromTrustedLenIter(s, t)
         \/ ExtendFromBitmap(s, t) \/ Clone(s, t)
         \/ \E op \in Ops : BinaryOp(op, s, t) \/ AssignOp(op, s, t)

Spec == Init /\ [][Next]_vars
-----------------------------------------------------------------------------
\* Bytes are whole, a length is within them, a window within its region, and a
\* region that no bitmap holds is freed.
WellFormed(h) ==
  CASE h.kind = "none"    -> h = None
    [] h.kind = "mutable" -> Len(h.bytes) % W = 0 /\ h.length <= Len(h.bytes)
    [] h.kind = "bitmap"  -> h.offset + h.length <= Len(BytesOf(h))

BitmapsInv ==
  /\ \A s \in Slots : WellFormed(slots[s])
  /\ \A r \in Regions :
       /\ Len(memory[r].bytes) % W = 0
       /\ (\A s \in Slots : ~Uses(slots[s], r)) => memory[r] = Free

\* unset_bits(), "computed when the bitmap is created", is still the number of
\* unset bits of the window after any slices (bitmap/immutable.rs:184).
UnsetIsCached ==
  \A s \in Slots : Holds(s, "bitmap") => slots[s].unset = Count(Value(slots[s]), FALSE)

\* Bitmaps are immutable vectors and MutableBitmaps vectors of their own: what
\* one does never shows in another on the same region, and extending, slicing
\* and chunked operations see neither the bits before an offset nor those
\* beyond a length.  "semantically equivalent to Vec<bool>" (mutable.rs:13).
Vecs == INSTANCE BitVectors WITH
  held <- [s \in Slots |-> [kind |-> slots[s].kind, bits |-> Value(slots[s])]]

BitmapsAreVectors == Vecs!Spec
=============================================================================

---------------------------- MODULE ArraysProofs -----------------------------
(***************************************************************************)
(* Proofs about arrays: the bitmaps of src/src/bitmap (the bit-level       *)
(* operations of MutableBitmap, the chunk iterators and what walks them,   *)
(* the inductive invariant of Bitmaps, its refinement of BitVectors, the   *)
(* iterator over the runs of set bits), and the arrays that the Parquet    *)
(* reader gives its caller.                                                *)
(*                                                                         *)
(* Inv says of each value what the operations on it need: the bytes are    *)
(* whole and hold the length, a window lies in the bytes of its region and *)
(* has as many unset bits cached as there are at its places there, and a   *)
(* region that nobody uses is free.  Each operation is one lemma about     *)
(* bits, and one about the slots (..Step).                                 *)
(*                                                                         *)
(* ReaderInv says of the columns of a row group that their decoders are in *)
(* step: each queue holds the same rows of its own column, cut alike, and  *)
(* the pages ahead of it the rows that follow.  LimitInv adds up what was  *)
(* given, what is left and what the row limit still allows.                *)
(***************************************************************************)
EXTENDS Bitmaps, SlicesIterator, ParquetReader, FiniteSetTheorems, SequenceTheorems, WellFoundedInduction, TLAPS

\* The byte and the bit in it of a place in a sequence of bits.
LEMMA DivMod ==
  ASSUME NEW a \in Nat, NEW b \in Nat \ {0}
  PROVE  /\ a \div b \in Nat /\ a % b \in 0 .. b - 1
         /\ a = b * (a \div b) + (a % b)
OBVIOUS

LEMMA DivModUnique ==
  ASSUME NEW b \in Nat \ {0}, NEW q \in Nat, NEW r \in 0 .. b - 1
  PROVE  (b * q + r) \div b = q /\ (b * q + r) % b = r
OBVIOUS
-----------------------------------------------------------------------------
(* Whole bytes.                                                             *)

\* As many bits as some bytes have.
Whole(x) == \E k \in Nat : x = W * k

\* The bits of the bytes that n bits take.
Up(n) == W * BytesFor(n)

LEMMA Width == W \in Nat \ {0}
BY WidthsAssumption

LEMMA TimesGrows ==
  ASSUME NEW j \in Nat, NEW k \in Nat, j <= k
  PROVE  W * j \in Nat /\ W * j <= W * k
BY Width

\* A number of whole bytes that is more than another is at least one byte more.
LEMMA WholeGap ==
  ASSUME NEW x, NEW y, Whole(x), Whole(y), x < y
  PROVE  x \in Nat /\ y \in Nat /\ x + W <= y
<1>1. PICK j \in Nat : x = W * j
  BY DEF Whole
<1>2. PICK k \in Nat : y = W * k
  BY DEF Whole
<1>3. j + 1 <= k
  <2> SUFFICES ASSUME k <= j PROVE FALSE
    OBVIOUS
  <2>1. W * k <= W * j /\ W * k \in Nat /\ W * j \in Nat
    BY TimesGrows
  <2> QED BY <1>1, <1>2, <2>1
<1>4. W * (j + 1) <= W * k /\ W * j \in Nat /\ W * k \in Nat
  BY <1>3, TimesGrows
<1>5. W * (j + 1) = W * j + W
  BY Width
<1> QED BY <1>1, <1>2, <1>4, <1>5, Width

LEMMA WholeNat ==
  ASSUME NEW x, Whole(x)
  PROVE  x \in Nat
BY Width DEF Whole

LEMMA WholeSum ==
  ASSUME NEW x, NEW y, Whole(x), Whole(y)
  PROVE  Whole(x + y) /\ (y <= x => Whole(x - y))
<1>1. PICK j \in Nat : x = W * j
  BY DEF Whole
<1>2. PICK k \in Nat : y = W * k
  BY DEF Whole
<1>3. W * (j + k) = x + y
  BY <1>1, <1>2, Width
<1>4. ASSUME y <= x PROVE Whole(x - y)
  <2>1. k <= j
    <3> SUFFICES ASSUME j + 1 <= k PROVE FALSE
      OBVIOUS
    <3>1. W * (j + 1) <= W * k /\ W * (j + 1) = W * j + W /\ W * j \in Nat
      BY Width, TimesGrows
    <3> QED BY <1>1, <1>2, <1>4, <3>1, Width
  <2>2. W * (j - k) = x - y /\ j - k \in Nat
    BY <1>1, <1>2, <2>1, Width
  <2> QED BY <2>2 DEF Whole
<1>5. j + k \in Nat
  OBVIOUS
<1> QED BY <1>3, <1>4, <1>5 DEF Whole

LEMMA WholeOne == Whole(0) /\ Whole(W)
<1>1. W * 0 = 0 /\ W * 1 = W
  BY Width
<1> QED BY <1>1 DEF Whole

LEMMA WholeMod ==
  ASSUME NEW x \in Nat
  PROVE  /\ Whole(x) <=> x % W = 0
         /\ x % W \in 0 .. W - 1 /\ x % W <= x /\ x \div W \in Nat
         /\ Whole(x - (x % W)) /\ x - (x % W) = W * (x \div W)
<1>1. x \div W \in Nat /\ x % W \in 0 .. W - 1 /\ x = W * (x \div W) + (x % W)
  BY Width, DivMod
<1>2. W * (x \div W) \in Nat
  BY <1>1, Width
<1>3. x - (x % W) = W * (x \div W)
  BY <1>1, <1>2
<1>4. ASSUME Whole(x) PROVE x % W = 0
  <2>1. PICK k \in Nat : x = W * k
    BY <1>4 DEF Whole
  <2>2. (W * k + 0) % W = 0 /\ W * k + 0 = x
    BY <2>1, Width, DivModUnique
  <2> QED BY <2>2
<1>5. ASSUME x % W = 0 PROVE Whole(x)
  BY <1>1, <1>2, <1>5 DEF Whole
<1> QED BY <1>1, <1>2, <1>3, <1>4, <1>5 DEF Whole

\* The bytes for n bits: whole, none more than they take.
LEMMA UpIs ==
  ASSUME NEW n \in Nat
  PROVE  /\ Up(n) \in Nat /\ Whole(Up(n)) /\ n <= Up(n) /\ Up(n) < n + W
         /\ n % W = 0 => Up(n) = n
         /\ n % W # 0 => Up(n) = n - (n % W) + W
         /\ \A x : Whole(x) /\ n <= x => Up(n) <= x
<1>1. W \in Nat \ {0} /\ n + W - 1 \in Nat
  BY Width
<1> DEFINE k == (n + W - 1) \div W
           r == (n + W - 1) % W
<1>2. k \in Nat /\ r \in 0 .. W - 1 /\ n + W - 1 = W * k + r
  BY <1>1, DivMod
<1>3. Up(n) = W * k
  BY DEF Up, BytesFor
<1> HIDE DEF k, r
<1>4. Up(n) \in Nat /\ Whole(Up(n))
  BY <1>1, <1>2, <1>3 DEF Whole
<1>5. n <= Up(n) /\ Up(n) < n + W
  BY <1>1, <1>2, <1>3, <1>4
<1>6. ASSUME NEW x, Whole(x), n <= x PROVE Up(n) <= x
  <2>1. x \in Nat
    BY <1>6, WholeNat
  <2> SUFFICES ASSUME x < Up(n) PROVE FALSE
    BY <1>4, <2>1
  <2>2. x + W <= Up(n)
    BY <1>4, <1>6, WholeGap
  <2> QED BY <1>1, <1>4, <1>5, <1>6, <2>1, <2>2
<1>7. Whole(n - (n % W)) /\ n % W \in 0 .. W - 1 /\ n % W <= n
  BY WholeMod
<1>8. ASSUME n % W = 0 PROVE Up(n) = n
  <2>1. Whole(n)
    BY <1>7, <1>8
  <2> QED BY <1>4, <1>5, <1>6, <2>1
<1>9. ASSUME n % W # 0 PROVE Up(n) = n - (n % W) + W
  <2> DEFINE m == n - (n % W)
  <2>1. m \in Nat /\ m < n /\ n < m + W /\ Whole(m)
    BY <1>1, <1>7, <1>9
  <2> HIDE DEF m
  <2>2. m + W <= Up(n)
    BY <1>4, <1>5, <2>1, WholeGap
  <2>3. Whole(m + W)
    BY <2>1, WholeOne, WholeSum
  <2>4. Up(n) <= m + W
    BY <1>1, <1>6, <2>1, <2>3
  <2> QED BY <1>1, <1>4, <2>1, <2>2, <2>4 DEF m
<1> QED BY <1>4, <1>5, <1>6, <1>8, <1>9
-----------------------------------------------------------------------------
(* Sequences of bits.                                                       *)

Bits == Seq(BOOLEAN)

LEMMA BitsAt == ASSUME NEW s \in Bits PROVE Len(s) \in Nat /\ \A i \in 1 .. Len(s) : s[i] \in BOOLEAN
BY DEF Bits

LEMMA SubSeqIs ==
  ASSUME NEW s \in Bits, NEW m \in Nat \ {0}, NEW n \in Nat, n <= Len(s)
  PROVE  /\ SubSeq(s, m, n) \in Bits
         /\ Len(SubSeq(s, m, n)) = IF m <= n THEN n - m + 1 ELSE 0
         /\ \A i \in 1 .. n - m + 1 : SubSeq(s, m, n)[i] = s[m + i - 1]
<1>1. \A i \in m .. n : s[i] \in BOOLEAN
  BY BitsAt
<1> QED BY <1>1, SubSeqProperties DEF Bits

LEMMA TakeIs ==
  ASSUME NEW s \in Bits, NEW n \in Nat
  PROVE  /\ Take(s, n) \in Bits
         /\ Len(Take(s, n)) = LeastOf(n, Len(s)) /\ LeastOf(n, Len(s)) \in Nat
         /\ \A i \in 1 .. LeastOf(n, Len(s)) : Take(s, n)[i] = s[i]
<1>1. Len(s) \in Nat /\ LeastOf(n, Len(s)) \in Nat /\ LeastOf(n, Len(s)) <= Len(s)
  BY BitsAt DEF LeastOf
<1> DEFINE k == LeastOf(n, Len(s))
<1> HIDE DEF k
<1>2. /\ SubSeq(s, 1, k) \in Bits /\ Len(SubSeq(s, 1, k)) = IF 1 <= k THEN k - 1 + 1 ELSE 0
      /\ \A i \in 1 .. k - 1 + 1 : SubSeq(s, 1, k)[i] = s[1 + i - 1]
  BY <1>1, SubSeqIs DEF k
<1>3. k \in Nat /\ \A i \in 1 .. k : 1 + i - 1 = i /\ i \in 1 .. k - 1 + 1
  BY <1>1 DEF k
<1>4. \A i \in 1 .. k : SubSeq(s, 1, k)[i] = s[i]
  BY <1>2, <1>3
<1>5. Len(SubSeq(s, 1, k)) = k
  BY <1>2, <1>3
<1> QED BY <1>2, <1>3, <1>4, <1>5 DEF Take, k

LEMMA DropIs ==
  ASSUME NEW s \in Bits, NEW n \in Nat
  PROVE  /\ Drop(s, n) \in Bits
         /\ Len(Drop(s, n)) = IF n <= Len(s) THEN Len(s) - n ELSE 0
         /\ \A i \in 1 .. Len(s) - n : Drop(s, n)[i] = s[n + i]
<1>1. Len(s) \in Nat
  BY BitsAt
<1> DEFINE k == Len(s)
<1> HIDE DEF k
<1>2. /\ SubSeq(s, n + 1, k) \in Bits /\ Len(SubSeq(s, n + 1, k)) = IF n + 1 <= k THEN k - (n + 1) + 1 ELSE 0
      /\ \A i \in 1 .. k - (n + 1) + 1 : SubSeq(s, n + 1, k)[i] = s[n + 1 + i - 1]
  BY <1>1, SubSeqIs DEF k
<1>3. k \in Nat /\ \A i \in 1 .. k - n : n + 1 + i - 1 = n + i /\ i \in 1 .. k - (n + 1) + 1
  BY <1>1 DEF k
<1>4. \A i \in 1 .. k - n : SubSeq(s, n + 1, k)[i] = s[n + i]
  BY <1>2, <1>3
<1>5. Len(SubSeq(s, n + 1, k)) = IF n <= k THEN k - n ELSE 0
  BY <1>2, <1>3
<1> QED BY <1>2, <1>4, <1>5 DEF Drop, k

LEMMA RegionIs ==
  ASSUME NEW s \in Bits, NEW o \in Nat, NEW n \in Nat, o + n <= Len(s)
  PROVE  /\ Region(s, o, n) \in Bits /\ Len(Region(s, o, n)) = n
         /\ \A i \in 1 .. n : Region(s, o, n)[i] = s[o + i]
<1> DEFINE e == o + n
<1>1. e \in Nat /\ e <= Len(s)
  OBVIOUS
<1> HIDE DEF e
<1>2. /\ SubSeq(s, o + 1, e) \in Bits /\ Len(SubSeq(s, o + 1, e)) = IF o + 1 <= e THEN e - (o + 1) + 1 ELSE 0
      /\ \A i \in 1 .. e - (o + 1) + 1 : SubSeq(s, o + 1, e)[i] = s[o + 1 + i - 1]
  BY <1>1, SubSeqIs
<1>3. \A i \in 1 .. n : o + 1 + i - 1 = o + i /\ i \in 1 .. e - (o + 1) + 1
  BY DEF e
<1>4. \A i \in 1 .. n : SubSeq(s, o + 1, e)[i] = s[o + i]
  BY <1>2, <1>3
<1>5. Len(SubSeq(s, o + 1, e)) = n
  BY <1>2 DEF e
<1> QED BY <1>2, <1>4, <1>5 DEF Region, e

LEMMA FillIs ==
  ASSUME NEW n \in Nat, NEW v \in BOOLEAN
  PROVE  Fill(n, v) \in Bits /\ Len(Fill(n, v)) = n /\ \A i \in 1 .. n : Fill(n, v)[i] = v
BY DEF Fill, Bits

LEMMA ConcatIs ==
  ASSUME NEW s \in Bits, NEW t \in Bits
  PROVE  /\ s \o t \in Bits /\ Len(s \o t) = Len(s) + Len(t)
         /\ \A i \in 1 .. Len(s) : (s \o t)[i] = s[i]
         /\ \A i \in 1 .. Len(t) : (s \o t)[Len(s) + i] = t[i]
<1>1. Len(s) \in Nat /\ Len(t) \in Nat
  BY BitsAt
<1>2. /\ s \o t \in Bits /\ Len(s \o t) = Len(s) + Len(t)
      /\ \A i \in 1 .. Len(s) + Len(t) : (s \o t)[i] = IF i <= Len(s) THEN s[i] ELSE t[i - Len(s)]
  BY ConcatProperties DEF Bits
<1>3. \A i \in 1 .. Len(s) : (s \o t)[i] = s[i]
  BY <1>1, <1>2
<1>4. ASSUME NEW i \in 1 .. Len(t) PROVE (s \o t)[Len(s) + i] = t[i]
  <2> DEFINE j == Len(s) + i
  <2>1. j \in 1 .. Len(s) + Len(t) /\ ~ (j <= Len(s)) /\ j - Len(s) = i
    BY <1>1
  <2> HIDE DEF j
  <2>2. (s \o t)[j] = t[i]
    BY <1>2, <2>1
  <2> QED BY <2>2 DEF j
<1> QED BY <1>2, <1>3, <1>4

LEMMA PaddedIs ==
  ASSUME NEW s \in Bits, NEW n \in Nat
  PROVE  /\ Padded(s, n) \in Bits /\ Len(Padded(s, n)) = n
         /\ \A i \in 1 .. n : Padded(s, n)[i] = IF i <= Len(s) THEN s[i] ELSE FALSE
<1> DEFINE k == LeastOf(n, Len(s))
           t == Take(s, n)
           f == Fill(n - k, FALSE)
<1>1. Len(s) \in Nat /\ k \in Nat /\ k <= n /\ n - k \in Nat /\ (k = n \/ k = Len(s)) /\ k <= Len(s)
  BY BitsAt DEF LeastOf
<1> HIDE DEF k
<1>2. t \in Bits /\ Len(t) = k /\ \A i \in 1 .. k : t[i] = s[i]
  BY TakeIs DEF k
<1>3. f \in Bits /\ Len(f) = n - k /\ \A i \in 1 .. n - k : f[i] = FALSE
  BY <1>1, FillIs
<1>4. Padded(s, n) = t \o f
  BY DEF Padded, k
<1> HIDE DEF t, f
<1>5. /\ t \o f \in Bits /\ Len(t \o f) = n /\ \A i \in 1 .. k : (t \o f)[i] = s[i]
      /\ \A i \in 1 .. n - k : (t \o f)[k + i] = FALSE
  <2>1. t \o f \in Bits /\ Len(t \o f) = Len(t) + Len(f)
    BY <1>2, <1>3, ConcatIs
  <2>2. \A i \in 1 .. k : (t \o f)[i] = t[i]
    BY <1>2, <1>3, ConcatIs
  <2>3. ASSUME NEW i \in 1 .. n - k PROVE (t \o f)[k + i] = FALSE
    <3>1. i \in 1 .. Len(f)
      BY <1>3
    <3>2. (t \o f)[Len(t) + i] = f[i]
      BY <1>2, <1>3, <3>1, ConcatIs
    <3> QED BY <1>2, <1>3, <3>2
  <2>4. Len(t) + Len(f) = n
    BY <1>1, <1>2, <1>3
  <2> QED BY <1>2, <2>1, <2>2, <2>3, <2>4
<1>6. ASSUME NEW i \in 1 .. n PROVE (t \o f)[i] = IF i <= Len(s) THEN s[i] ELSE FALSE
  <2>1. CASE i <= k
    <3>1. i \in 1 .. k /\ i <= Len(s)
      BY <1>1, <2>1
    <3> QED BY <1>5, <3>1
  <2>2. CASE k < i
    <3> DEFINE j == i - k
    <3>1. j \in 1 .. n - k /\ k + j = i /\ ~ (i <= Len(s))
      BY <1>1, <2>2
    <3> HIDE DEF j
    <3>2. (t \o f)[k + j] = FALSE
      BY <1>5, <3>1
    <3> QED BY <3>1, <3>2
  <2>3. i \in Nat /\ (i <= k \/ k < i)
    BY <1>1
  <2> HIDE DEF t, f
  <2> QED BY <2>1, <2>2, <2>3
<1> QED BY <1>4, <1>5, <1>6
-----------------------------------------------------------------------------
(* Counting bits.                                                           *)

\* The places of the set and of the unset bits, and how many of some places are in a .. b.
Ones(s)  == {i \in 1 .. Len(s) : s[i]}
Zeros(s) == {i \in 1 .. Len(s) : ~s[i]}
Number(P, a, b) == Cardinality((a .. b) \cap P)

LEMMA PlacesAreFinite ==
  ASSUME NEW P, NEW a \in Int, NEW b \in Int
  PROVE  IsFiniteSet((a .. b) \cap P) /\ Cardinality((a .. b) \cap P) \in Nat
<1>1. IsFiniteSet(a .. b)
  BY FS_Interval
<1>2. IsFiniteSet((a .. b) \cap P)
  BY <1>1, FS_Intersection
<1> QED BY <1>2, FS_CardinalityType

LEMMA NumberType ==
  ASSUME NEW P, NEW a \in Int, NEW b \in Int
  PROVE  Number(P, a, b) \in Nat
BY PlacesAreFinite DEF Number

LEMMA NumberNone ==
  ASSUME NEW P, NEW a \in Int, NEW b \in Int, b < a
  PROVE  Number(P, a, b) = 0
<1>1. (a .. b) \cap P = {}
  OBVIOUS
<1> QED BY <1>1, FS_EmptySet DEF Number

LEMMA NumberAdds ==
  ASSUME NEW P, NEW a \in Int, NEW b \in Int, NEW c \in Int, a - 1 <= b, b <= c
  PROVE  Number(P, a, c) = Number(P, a, b) + Number(P, b + 1, c)
<1> DEFINE S == (a .. b) \cap P
           T == (b + 1 .. c) \cap P
<1>1. IsFiniteSet(S) /\ IsFiniteSet(T) /\ Cardinality(S) \in Nat /\ Cardinality(T) \in Nat
  <2>1. IsFiniteSet(S) /\ Cardinality(S) \in Nat
    BY PlacesAreFinite, Zenon
  <2>2. b + 1 \in Int
    OBVIOUS
  <2>3. IsFiniteSet(T) /\ Cardinality(T) \in Nat
    BY <2>2, PlacesAreFinite, Zenon
  <2> QED BY <2>1, <2>3
<1>2. S \cap T = {}
  OBVIOUS
<1>3. S \cup T = (a .. c) \cap P
  OBVIOUS
<1>4. /\ Number(P, a, b) = Cardinality(S) /\ Number(P, b + 1, c) = Cardinality(T)
      /\ Number(P, a, c) = Cardinality(S \cup T)
  BY <1>3 DEF Number
<1> HIDE DEF S, T
<1>5. Cardinality(S \cup T) = Cardinality(S) + Cardinality(T) - 0
  <2>1. Cardinality(S \cup T) = Cardinality(S) + Cardinality(T) - Cardinality(S \cap T)
    BY <1>1, FS_Union
  <2> QED BY <1>2, <2>1, FS_EmptySet
<1> QED BY <1>1, <1>4, <1>5

\* Each bit is set or unset.
LEMMA NumberBoth ==
  ASSUME NEW s \in Bits, NEW a \in Nat \ {0}, NEW b \in Nat, a - 1 <= b, b <= Len(s)
  PROVE  Number(Ones(s), a, b) + Number(Zeros(s), a, b) = b - a + 1
<1> DEFINE S == (a .. b) \cap Ones(s)
           T == (a .. b) \cap Zeros(s)
<1>1. IsFiniteSet(S) /\ IsFiniteSet(T) /\ Cardinality(S) \in Nat /\ Cardinality(T) \in Nat
  <2>1. a \in Int /\ b \in Int
    OBVIOUS
  <2> QED BY <2>1, PlacesAreFinite, Zenon
<1>2. S \cap T = {}
  BY DEF Ones, Zeros
<1>3. S \cup T = a .. b
  <2>1. \A i \in a .. b : i \in 1 .. Len(s)
    BY BitsAt
  <2> QED BY <2>1 DEF Ones, Zeros
<1>4. Number(Ones(s), a, b) = Cardinality(S) /\ Number(Zeros(s), a, b) = Cardinality(T)
  BY DEF Number
<1>5. Cardinality(a .. b) = b - a + 1
  <2>1. Cardinality(a .. b) = IF a > b THEN 0 ELSE b - a + 1
    BY FS_Interval
  <2> QED BY <2>1
<1> HIDE DEF S, T
<1>6. Cardinality(S \cup T) = Cardinality(S) + Cardinality(T) - 0
  <2>1. Cardinality(S \cup T) = Cardinality(S) + Cardinality(T) - Cardinality(S \cap T)
    BY <1>1, FS_Union
  <2> QED BY <1>2, <2>1, FS_EmptySet
<1>7. Cardinality(S \cup T) = b - a + 1
  BY <1>3, <1>5, Zenon
<1>8. Cardinality(S) + Cardinality(T) = b - a + 1
  BY <1>1, <1>6, <1>7
<1> QED BY <1>4, <1>8

\* Places moved on by a.
LEMMA Moved ==
  ASSUME NEW S, NEW T, NEW a \in Nat, S \subseteq Nat, T \subseteq Nat, IsFiniteSet(S),
         \A i \in S : a + i \in T, \A j \in T : j - a \in S
  PROVE  Cardinality(T) = Cardinality(S)
<1> DEFINE f == [i \in S |-> a + i]
<1>1. f \in [S -> T] /\ \A i, j \in S : f[i] = f[j] => i = j
  OBVIOUS
<1>2. \A y \in T : \E i \in S : f[i] = y
  OBVIOUS
<1> HIDE DEF f
<1>3. f \in Bijection(S, T)
  BY <1>1, <1>2 DEF Bijection, Injection, Surjection, IsInjective
<1> QED BY <1>3, FS_Bijection DEF ExistsBijection

\* What a sequence counts that has the bits of s from a place on.
LEMMA CountIs ==
  ASSUME NEW s \in Bits, NEW t \in Bits, NEW a \in Nat, a + Len(t) <= Len(s),
         \A i \in 1 .. Len(t) : t[i] = s[a + i]
  PROVE  /\ Count(t, TRUE) = Number(Ones(s), a + 1, a + Len(t))
         /\ Count(t, FALSE) = Number(Zeros(s), a + 1, a + Len(t))
<1> DEFINE n == Len(t)
<1>1. n \in Nat /\ DOMAIN t = 1 .. n /\ Len(s) \in Nat
  BY BitsAt DEF Bits
<1>2. \A i \in 1 .. n : t[i] = s[a + i] /\ a + i \in 1 .. Len(s) /\ t[i] \in BOOLEAN
  BY <1>1, BitsAt
<1> HIDE DEF n
<1>3. Count(t, TRUE) = Number(Ones(s), a + 1, a + n)
  <2> DEFINE S == {i \in 1 .. n : t[i]}
             T == (a + 1 .. a + n) \cap Ones(s)
  <2>1. Count(t, TRUE) = Cardinality(S)
    <3>1. {i \in DOMAIN t : t[i] = TRUE} = S
      BY <1>1, <1>2
    <3> QED BY <3>1 DEF Count
  <2>2. IsFiniteSet(S)
    <3>1. IsFiniteSet(1 .. n) /\ S \subseteq 1 .. n
      BY <1>1, FS_Interval
    <3> HIDE DEF S
    <3> QED BY <3>1, FS_Subset
  <2>3. \A i \in S : a + i \in T
    BY <1>1, <1>2 DEF Ones
  <2>4. \A j \in T : j - a \in S
    <3> TAKE j \in T
    <3>1. j \in a + 1 .. a + n /\ s[j]
      BY DEF Ones
    <3>2. j - a \in 1 .. n /\ a + (j - a) = j
      BY <1>1, <3>1
    <3> QED BY <1>2, <3>1, <3>2
  <2>5. S \subseteq Nat /\ T \subseteq Nat
    BY <1>1
  <2> HIDE DEF S, T
  <2>6. Cardinality(T) = Cardinality(S)
    BY <2>2, <2>3, <2>4, <2>5, Moved
  <2> QED BY <2>1, <2>6 DEF Number, T
<1>4. Count(t, FALSE) = Number(Zeros(s), a + 1, a + n)
  <2> DEFINE S == {i \in 1 .. n : ~t[i]}
             T == (a + 1 .. a + n) \cap Zeros(s)
  <2>1. Count(t, FALSE) = Cardinality(S)
    <3>1. {i \in DOMAIN t : t[i] = FALSE} = S
      BY <1>1, <1>2
    <3> QED BY <3>1 DEF Count
  <2>2. IsFiniteSet(S)
    <3>1. IsFiniteSet(1 .. n) /\ S \subseteq 1 .. n
      BY <1>1, FS_Interval
    <3> HIDE DEF S
    <3> QED BY <3>1, FS_Subset
  <2>3. \A i \in S : a + i \in T
    BY <1>1, <1>2 DEF Zeros
  <2>4. \A j \in T : j - a \in S
    <3> TAKE j \in T
    <3>1. j \in a + 1 .. a + n /\ ~s[j]
      BY DEF Zeros
    <3>2. j - a \in 1 .. n /\ a + (j - a) = j
      BY <1>1, <3>1
    <3> QED BY <1>2, <3>1, <3>2
  <2>5. S \subseteq Nat /\ T \subseteq Nat
    BY <1>1
  <2> HIDE DEF S, T
  <2>6. Cardinality(T) = Cardinality(S)
    BY <2>2, <2>3, <2>4, <2>5, Moved
  <2> QED BY <2>1, <2>6 DEF Number, T
<1> QED BY <1>3, <1>4 DEF n

\* count_zeros finds the unset bits among n: within one byte, or in a first byte, a last
\* one and the bytes between.
LEMMA CountZerosIs ==
  ASSUME NEW s \in Bits, Whole(Len(s)), NEW offset \in Nat, NEW n \in Nat, offset + n <= Len(s)
  PROVE  CountZeros(s, offset, n) = Number(Zeros(s), offset + 1, offset + n)
<1> DEFINE q == offset \div W
           o == offset % W
           base == W * q
           end == Up(offset + n)
           slice == SubSeq(s, base + 1, end)
           last == (o + n) % W
           full == (o + n) \div W
           ones(a, b) == Number(Ones(s), a, b)
<1>1. W \in Nat \ {0} /\ Len(s) \in Nat
  BY Width, BitsAt
<1>2. q \in Nat /\ o \in 0 .. W - 1 /\ base \in Nat /\ offset = base + o /\ Whole(base)
  <2>1. q \in Nat /\ o \in 0 .. W - 1 /\ offset = W * q + o
    BY <1>1, DivMod
  <2>2. base \in Nat
    BY <1>1, <2>1
  <2> QED BY <2>1, <2>2 DEF Whole
<1>3. full \in Nat /\ last \in 0 .. W - 1 /\ W * full \in Nat /\ o + n = W * full + last /\ Whole(W * full)
  <2> DEFINE m == o + n
  <2>1. m \in Nat
    BY <1>1, <1>2
  <2> HIDE DEF m
  <2>2. m \div W \in Nat /\ m % W \in 0 .. W - 1 /\ m = W * (m \div W) + (m % W)
    BY <1>1, <2>1, DivMod
  <2>3. Whole(W * (m \div W)) /\ W * (m \div W) \in Nat
    BY <2>2, WholeNat DEF Whole
  <2> QED BY <2>2, <2>3 DEF m
<1> DEFINE bytes == base + W * full
<1> HIDE DEF q, o, base, last, full
<1>4. bytes \in Nat /\ Whole(bytes) /\ offset + n = bytes + last
  <2> DEFINE m == W * full
  <2> HIDE DEF m
  <2>1. m \in Nat /\ o + n = m + last /\ Whole(m) /\ bytes = base + m
    BY <1>3 DEF m
  <2>2. Whole(base) /\ Whole(m)
    BY <1>2, <2>1
  <2>3. Whole(base + m)
    BY <2>2, WholeSum
  <2>4. base \in Nat /\ o \in Nat /\ last \in Nat /\ offset = base + o
    BY <1>1, <1>2, <1>3
  <2> HIDE DEF bytes
  <2> QED BY <2>1, <2>3, <2>4
<1>5. end \in Nat /\ end = (IF last = 0 THEN bytes ELSE bytes + W) /\ end <= Len(s) /\ offset + n <= end
  <2> DEFINE m == offset + n
  <2>1. m \in Nat /\ m <= Len(s) /\ m = bytes + last
    BY <1>4
  <2> HIDE DEF m, bytes
  <2>2. m % W = last
    <3>1. PICK k \in Nat : bytes = W * k
      BY <1>4 DEF Whole
    <3>2. (W * k + last) % W = last
      BY <1>1, <1>3, DivModUnique
    <3> QED BY <2>1, <3>1, <3>2
  <2>3. /\ Up(m) \in Nat /\ m <= Up(m) /\ (m % W = 0 => Up(m) = m)
        /\ (m % W # 0 => Up(m) = m - (m % W) + W) /\ Up(m) <= Len(s)
    BY <2>1, UpIs
  <2>4. end = Up(m)
    BY DEF m
  <2> HIDE DEF end
  <2> QED BY <1>1, <1>3, <1>4, <2>1, <2>2, <2>3, <2>4
<1> HIDE DEF end, bytes
<1>6. /\ slice \in Bits /\ Len(slice) = end - base /\ Len(slice) \in Nat
      /\ \A i \in 1 .. end - base : slice[i] = s[base + i]
  <2>1. base + 1 \in Nat \ {0} /\ base <= end
    BY <1>2, <1>5
  <2> DEFINE m == base + 1
  <2>2. m \in Nat \ {0}
    BY <2>1
  <2> HIDE DEF m
  <2>3. /\ SubSeq(s, m, end) \in Bits
        /\ Len(SubSeq(s, m, end)) = IF m <= end THEN end - m + 1 ELSE 0
        /\ \A i \in 1 .. end - m + 1 : SubSeq(s, m, end)[i] = s[m + i - 1]
    BY <1>5, <2>2, SubSeqIs
  <2>4. \A i \in 1 .. end - base : i \in 1 .. end - m + 1 /\ m + i - 1 = base + i
    BY <1>2, <1>5 DEF m
  <2>5. SubSeq(s, m, end) = slice
    BY DEF m
  <2>6. \A i \in 1 .. end - base : slice[i] = s[base + i]
    BY <2>3, <2>4, <2>5
  <2>7. (IF m <= end THEN end - m + 1 ELSE 0) = end - base /\ end - base \in Nat
    BY <1>2, <1>5, <2>1 DEF m
  <2> QED BY <2>3, <2>5, <2>6, <2>7
<1> HIDE DEF slice
\* A part of the slice counts bits of s.
<1>7. ASSUME NEW a \in Nat \ {0}, NEW b \in Nat, a - 1 <= b, b <= end - base
      PROVE  Count(SubSeq(slice, a, b), TRUE) = ones(base + a, base + b)
  <2> DEFINE t == SubSeq(slice, a, b)
             c == base + a - 1
  <2>1. /\ t \in Bits /\ Len(t) = (IF a <= b THEN b - a + 1 ELSE 0)
        /\ \A i \in 1 .. b - a + 1 : t[i] = slice[a + i - 1]
    <3>1. slice \in Bits /\ b <= Len(slice)
      BY <1>6, <1>7
    <3> QED BY <1>7, <3>1, SubSeqIs
  <2>2. Len(t) = b - a + 1
    BY <1>7, <2>1
  <2> HIDE DEF t
  <2>3. \A i \in 1 .. Len(t) : t[i] = s[c + i]
    <3> TAKE i \in 1 .. Len(t)
    <3>1. i \in 1 .. b - a + 1 /\ a + i - 1 \in 1 .. end - base
      BY <1>2, <1>5, <1>7, <2>2
    <3>2. t[i] = slice[a + i - 1] /\ slice[a + i - 1] = s[base + (a + i - 1)]
      BY <1>6, <2>1, <3>1
    <3>3. base + (a + i - 1) = c + i
      BY <1>2, <1>7
    <3> QED BY <3>2, <3>3
  <2>4. c \in Nat /\ c + 1 = base + a /\ c + Len(t) = base + b
    BY <1>2, <1>7, <2>2
  <2> HIDE DEF c
  <2>5. Count(t, TRUE) = Number(Ones(s), c + 1, c + Len(t))
    <3>1. c + Len(t) <= Len(s)
      BY <1>1, <1>2, <1>5, <1>7, <2>4
    <3> QED BY <2>1, <2>3, <2>4, <3>1, CountIs
  <2> QED BY <2>4, <2>5 DEF t
<1>8. n - ones(offset + 1, offset + n) = Number(Zeros(s), offset + 1, offset + n)
  <2> DEFINE a == offset + 1
             b == offset + n
  <2>2. a \in Nat \ {0} /\ b \in Nat /\ a - 1 <= b /\ b - a + 1 = n /\ b <= Len(s)
    OBVIOUS
  <2> HIDE DEF a, b
  <2>3. Number(Ones(s), a, b) + Number(Zeros(s), a, b) = n
    BY <2>2, NumberBoth
  <2>4. Number(Ones(s), a, b) \in Nat /\ Number(Zeros(s), a, b) \in Nat
    BY <2>2, NumberType
  <2>5. n - Number(Ones(s), a, b) = Number(Zeros(s), a, b)
    BY <2>3, <2>4
  <2> QED BY <2>5 DEF a, b
<1>9. CASE n = 0
  <2>1. CountZeros(s, offset, n) = 0
    BY <1>9 DEF CountZeros
  <2>2. Number(Zeros(s), offset + 1, offset + n) = 0
    <3> DEFINE a == offset + 1
               b == offset + n
    <3>1. a \in Int /\ b \in Int /\ b < a
      BY <1>9
    <3> HIDE DEF a, b
    <3>2. Number(Zeros(s), a, b) = 0
      BY <3>1, NumberNone
    <3> QED BY <3>2 DEF a, b
  <2> QED BY <2>1, <2>2
<1>10. CASE n # 0 /\ full = 0
  <2>1. CountZeros(s, offset, n) = n - Count(Region(slice, o, n), TRUE)
    BY <1>10 DEF CountZeros, slice, o, full, base, q, end, Up
  <2>2. o + 1 \in Nat \ {0} /\ o + n \in Nat /\ o + 1 - 1 <= o + n /\ o + n <= end - base
    BY <1>2, <1>5
  <2> DEFINE a == o + 1
             b == o + n
  <2>3. a \in Nat \ {0} /\ b \in Nat /\ a - 1 <= b /\ b <= end - base
    BY <1>2, <2>2
  <2>4. Region(slice, o, n) = SubSeq(slice, a, b)
    BY DEF Region
  <2>5. base + a = offset + 1 /\ base + b = offset + n
    BY <1>2
  <2> HIDE DEF a, b
  <2>6. Count(SubSeq(slice, a, b), TRUE) = ones(base + a, base + b)
    BY <1>7, <2>3
  <2> QED BY <1>8, <2>1, <2>4, <2>5, <2>6
<1>11. CASE n # 0 /\ full # 0
  <2> DEFINE first == IF o # 0 THEN Count(SubSeq(slice, o + 1, W), TRUE) ELSE 0
             rest == IF last # 0 THEN Count(Region(slice, Len(slice) - W, last), TRUE) ELSE 0
             from == IF o # 0 THEN W + 1 ELSE 1
             to == IF last # 0 THEN Len(slice) - W ELSE Len(slice)
             edge == base + from - 1
  <2>1. CountZeros(s, offset, n) = n - (first + rest + Count(SubSeq(slice, from, to), TRUE))
    BY <1>11 DEF CountZeros, slice, o, last, full, base, q, end, Up
  <2>2. to = bytes - base /\ to \in Nat /\ to <= end - base /\ base + W <= bytes
    <3>1. W <= W * full
      <4>1. W * 1 <= W * full /\ W * 1 = W
        BY <1>1, <1>3, <1>11, TimesGrows
      <4> QED BY <4>1
    <3> QED BY <1>1, <1>2, <1>3, <1>4, <1>5, <1>6, <3>1 DEF bytes
  <2>3. from \in Nat \ {0} /\ from - 1 <= to /\ base + to = bytes
        /\ edge \in Nat /\ edge + 1 = base + from /\ offset <= edge /\ edge <= bytes
        /\ (o # 0 => edge = base + W) /\ (o = 0 => edge = offset)
    BY <1>1, <1>2, <1>4, <2>2
  <2>4. Count(SubSeq(slice, from, to), TRUE) = ones(edge + 1, bytes)
    <3> HIDE DEF from, to, edge
    <3> QED BY <1>7, <2>2, <2>3
  <2>5. first = ones(offset + 1, edge)
    <3>1. CASE o = 0
      <4>1. first = 0 /\ edge = offset
        BY <2>3, <3>1
      <4> HIDE DEF first, edge
      <4>2. offset + 1 \in Int /\ edge \in Int /\ edge < offset + 1
        BY <4>1
      <4>3. ones(offset + 1, edge) = 0
        BY <4>2, NumberNone
      <4> QED BY <4>1, <4>3
    <3>2. CASE o # 0
      <4> DEFINE a == o + 1
      <4>1. a \in Nat \ {0} /\ a - 1 <= W /\ W <= end - base /\ base + a = offset + 1 /\ base + W = edge
        BY <1>1, <1>2, <1>5, <2>2, <2>3, <3>2
      <4>2. first = Count(SubSeq(slice, a, W), TRUE)
        BY <3>2
      <4> HIDE DEF a, first, edge
      <4>3. Count(SubSeq(slice, a, W), TRUE) = ones(base + a, base + W)
        BY <1>1, <1>7, <4>1
      <4> QED BY <4>1, <4>2, <4>3
    <3> QED BY <3>1, <3>2
  <2>6. rest = ones(bytes + 1, offset + n)
    <3>1. CASE last = 0
      <4>1. rest = 0 /\ offset + n = bytes
        BY <1>4, <3>1
      <4> HIDE DEF rest
      <4>2. bytes + 1 \in Int /\ bytes \in Int /\ bytes < bytes + 1
        BY <1>4
      <4>3. ones(bytes + 1, bytes) = 0
        BY <4>2, NumberNone
      <4> QED BY <4>1, <4>3
    <3>2. CASE last # 0
      <4> DEFINE a == to + 1
                 b == to + last
      <4>1. rest = Count(SubSeq(slice, a, b), TRUE)
        BY <3>2 DEF Region
      <4>2. a \in Nat \ {0} /\ b \in Nat /\ a - 1 <= b /\ b <= end - base
            /\ base + a = bytes + 1 /\ base + b = offset + n
        <5>1. to \in Nat /\ base + to = bytes /\ base \in Nat /\ last \in Nat /\ bytes + last = offset + n
              /\ end \in Nat /\ offset + n <= end
          BY <1>2, <1>3, <1>4, <1>5, <2>2, <2>3
        <5> HIDE DEF to
        <5> QED BY <5>1
      <4> HIDE DEF a, b, rest, to
      <4>3. Count(SubSeq(slice, a, b), TRUE) = ones(base + a, base + b)
        BY <1>7, <4>2
      <4> QED BY <4>1, <4>2, <4>3
    <3> QED BY <3>1, <3>2
  <2> HIDE DEF first, rest, from, to, edge
  <2>7. /\ ones(offset + 1, bytes) = ones(offset + 1, edge) + ones(edge + 1, bytes)
        /\ ones(offset + 1, offset + n) = ones(offset + 1, bytes) + ones(bytes + 1, offset + n)
    <3> DEFINE a == offset + 1
               c == offset + n
    <3>1. a \in Int /\ c \in Int /\ a - 1 <= edge /\ edge <= bytes /\ a - 1 <= bytes /\ bytes <= c
          /\ edge \in Int /\ bytes \in Int
      BY <1>3, <1>4, <2>3
    <3> HIDE DEF a, c
    <3>2. ones(a, bytes) = ones(a, edge) + ones(edge + 1, bytes)
      BY <3>1, NumberAdds
    <3>3. ones(a, c) = ones(a, bytes) + ones(bytes + 1, c)
      BY <3>1, NumberAdds
    <3> QED BY <3>2, <3>3 DEF a, c
  <2>8. /\ ones(offset + 1, edge) \in Nat /\ ones(edge + 1, bytes) \in Nat
        /\ ones(bytes + 1, offset + n) \in Nat
    <3>1. edge \in Int /\ edge + 1 \in Int /\ bytes \in Int /\ bytes + 1 \in Int
          /\ offset + 1 \in Int /\ offset + n \in Int
      BY <1>4, <2>3
    <3> QED BY <3>1, NumberType
  <2> DEFINE x == ones(offset + 1, edge)
             y == ones(edge + 1, bytes)
             z == ones(bytes + 1, offset + n)
  <2>9. first + rest + Count(SubSeq(slice, from, to), TRUE) = ones(offset + 1, offset + n)
    <3>1. first = x /\ rest = z /\ Count(SubSeq(slice, from, to), TRUE) = y
      BY <2>4, <2>5, <2>6
    <3>2. ones(offset + 1, offset + n) = (x + y) + z /\ x \in Nat /\ y \in Nat /\ z \in Nat
      BY <2>7, <2>8
    <3> DEFINE c == Count(SubSeq(slice, from, to), TRUE)
               all == ones(offset + 1, offset + n)
    <3>3. c = y /\ all = (x + y) + z
      BY <3>1, <3>2
    <3> HIDE DEF x, y, z, c, all
    <3>4. first + rest + c = all
      BY <3>1, <3>2, <3>3
    <3> QED BY <3>4 DEF c, all
  <2> QED BY <1>8, <2>1, <2>9
<1> QED BY <1>9, <1>10, <1>11
-----------------------------------------------------------------------------
(* MutableBitmap: whole bytes that the length fits in, and which bits follow. *)

GoodMutable(m) ==
  /\ m \in [kind : {"mutable"}, bytes : Bits, length : Nat]
  /\ Whole(Len(m.bytes)) /\ m.length <= Len(m.bytes)

\* The first n bits are those of s.
Starts(bytes, n, s) == \A i \in 1 .. n : bytes[i] = s[i]

LEMMA MutableIs ==
  ASSUME NEW bytes \in Bits, Whole(Len(bytes)), NEW n \in Nat, n <= Len(bytes)
  PROVE  /\ GoodMutable(Mutable(bytes, n))
         /\ Mutable(bytes, n).bytes = bytes /\ Mutable(bytes, n).length = n
BY DEF GoodMutable, Mutable

\* A vector that is not empty has a last byte; the one the length ends in is there.
LEMMA LastByte ==
  ASSUME NEW m, GoodMutable(m)
  PROVE  LET o == m.length % W
         IN  /\ m.bytes \in Bits /\ Len(m.bytes) \in Nat /\ m.length \in Nat /\ m.length <= Len(m.bytes)
             /\ o \in 0 .. W - 1 /\ o <= m.length
             /\ Whole(m.length - o) /\ Whole(Len(m.bytes))
             /\ (o # 0 => m.length - o + W <= Len(m.bytes))
             /\ (Exact(m) => Len(m.bytes) = IF o = 0 THEN m.length ELSE m.length - o + W)
<1> DEFINE n == m.length
           l == Len(m.bytes)
           o == n % W
<1>1. m.bytes \in Bits /\ n \in Nat /\ n <= l /\ Whole(l) /\ l \in Nat
  BY BitsAt DEF GoodMutable
<1> HIDE DEF n
<1>2. o \in 0 .. W - 1 /\ o <= n /\ Whole(n - o)
  BY <1>1, WholeMod
<1>3. /\ n % W = 0 => Up(n) = n
      /\ n % W # 0 => Up(n) = n - (n % W) + W
      /\ Up(n) <= l
  BY <1>1, UpIs
<1>4. Exact(m) => l = Up(n)
  BY DEF Exact, Up, n
<1> HIDE DEF l
<1>5. (o # 0 => n - o + W <= l) /\ (Exact(m) => l = IF o = 0 THEN n ELSE n - o + W)
  BY <1>3, <1>4
<1> QED BY <1>1, <1>2, <1>5 DEF n, l

LEMMA WithLastIs ==
  ASSUME NEW bytes \in Bits, NEW from \in Nat, NEW v \in Bits, from + Len(v) <= W
  PROVE  LET w == WithLast(bytes, from, v)
             base == Len(bytes) - W + from
         IN  /\ w \in Bits /\ Len(w) = Len(bytes)
             /\ \A i \in 1 .. Len(bytes) : i <= base => w[i] = bytes[i]
             /\ W <= Len(bytes) => \A j \in 1 .. Len(v) : w[base + j] = v[j]
<1> DEFINE w == WithLast(bytes, from, v)
           l == Len(bytes)
           base == l - W + from
           of(i) == i - (l - W) - from
<1>1. W \in Nat \ {0} /\ l \in Nat /\ DOMAIN bytes = 1 .. l /\ Len(v) \in Nat /\ DOMAIN v = 1 .. Len(v)
  BY Width, BitsAt DEF Bits
<1>2. w = [i \in 1 .. l |-> IF i > l - W /\ of(i) \in DOMAIN v THEN v[of(i)] ELSE bytes[i]]
  BY <1>1 DEF WithLast
<1> HIDE DEF w
<1>3. \A i \in 1 .. l : w[i] \in BOOLEAN
  BY <1>1, <1>2, BitsAt
<1>4. w \in Bits /\ Len(w) = l
  BY <1>1, <1>2, <1>3 DEF Bits
<1>5. ASSUME NEW i \in 1 .. l, i <= base PROVE w[i] = bytes[i]
  <2>1. ~ (of(i) \in 1 .. Len(v))
    BY <1>1, <1>5
  <2> QED BY <1>1, <1>2, <2>1
<1>6. ASSUME W <= l, NEW j \in 1 .. Len(v) PROVE w[base + j] = v[j]
  <2> DEFINE i == base + j
  <2>1. i \in 1 .. l /\ i > l - W /\ of(i) = j
    BY <1>1, <1>6
  <2> HIDE DEF i
  <2>2. w[i] = v[of(i)]
    BY <1>1, <1>2, <2>1
  <2> QED BY <2>1, <2>2 DEF i
<1> QED BY <1>4, <1>5, <1>6 DEF w

\* The bytes with one more if the length ends with a byte.
WithByte(m) == IF m.length % W = 0 THEN m.bytes \o Fill(W, FALSE) ELSE m.bytes

LEMMA ByteAdded ==
  ASSUME NEW m, GoodMutable(m)
  PROVE  LET o == m.length % W
             bytes == WithByte(m)
         IN  /\ bytes \in Bits /\ Whole(Len(bytes)) /\ Len(bytes) \in Nat
             /\ W <= Len(bytes) /\ m.length - o + W <= Len(bytes) /\ Len(m.bytes) <= Len(bytes)
             /\ (Exact(m) => Len(bytes) - W + o = m.length)
             /\ Starts(bytes, m.length, m.bytes)
<1> DEFINE n == m.length
           l == Len(m.bytes)
           o == n % W
           bytes == WithByte(m)
<1>1. /\ m.bytes \in Bits /\ l \in Nat /\ n \in Nat /\ n <= l
      /\ o \in 0 .. W - 1 /\ o <= n /\ Whole(l) /\ (o # 0 => n - o + W <= l)
      /\ (Exact(m) => l = IF o = 0 THEN n ELSE n - o + W) /\ W \in Nat \ {0}
  BY LastByte, Width
<1>2. CASE o = 0
  <2> DEFINE f == Fill(W, FALSE)
  <2>1. bytes = m.bytes \o f
    BY <1>2 DEF WithByte
  <2>2. f \in Bits /\ Len(f) = W
    BY <1>1, FillIs
  <2> HIDE DEF f, bytes
  <2>3. bytes \in Bits /\ Len(bytes) = l + W /\ \A i \in 1 .. l : bytes[i] = m.bytes[i]
    BY <1>1, <2>1, <2>2, ConcatIs
  <2>4. Whole(l + W)
    BY <1>1, WholeOne, WholeSum
  <2> HIDE DEF n, o, l
  <2>5. \A i \in 1 .. n : bytes[i] = m.bytes[i]
    <3> TAKE i \in 1 .. n
    <3>1. i \in 1 .. l
      BY <1>1
    <3> QED BY <2>3, <3>1
  <2>6. /\ Len(bytes) \in Nat /\ W <= Len(bytes) /\ n - o + W <= Len(bytes) /\ l <= Len(bytes)
        /\ (l = n => Len(bytes) - W + o = n)
    BY <1>1, <1>2, <2>3
  <2>7. Exact(m) => l = n
    BY <1>1, <1>2
  <2> QED BY <2>3, <2>4, <2>5, <2>6, <2>7 DEF Starts, n, l, o, bytes
<1>3. CASE o # 0
  <2>1. bytes = m.bytes
    BY <1>3 DEF WithByte
  <2> HIDE DEF n, o, l, bytes
  <2>2. /\ l \in Nat /\ W <= l /\ n - o + W <= l /\ l <= l /\ (Exact(m) => l - W + o = n)
    BY <1>1, <1>3
  <2> QED BY <1>1, <2>1, <2>2 DEF Starts, n, l, o, bytes
<1> QED BY <1>2, <1>3

LEMMA PushedIs ==
  ASSUME NEW m, GoodMutable(m), NEW b \in BOOLEAN
  PROVE  LET p == Pushed(m, b)
         IN  /\ GoodMutable(p) /\ p.length = m.length + 1
             /\ Exact(m) => Starts(p.bytes, m.length, m.bytes) /\ p.bytes[m.length + 1] = b
<1> DEFINE n == m.length
           o == n % W
           bytes == WithByte(m)
           w == WithLast(bytes, o, << b >>)
<1>1. /\ bytes \in Bits /\ Whole(Len(bytes)) /\ Len(bytes) \in Nat
      /\ W <= Len(bytes) /\ n - o + W <= Len(bytes)
      /\ (Exact(m) => Len(bytes) - W + o = n)
      /\ Starts(bytes, n, m.bytes)
  BY ByteAdded
<1>2. n \in Nat /\ o \in 0 .. W - 1 /\ o <= n /\ W \in Nat \ {0}
  BY LastByte, Width
<1>3. << b >> \in Bits /\ Len(<< b >>) = 1 /\ << b >>[1] = b
  BY DEF Bits
<1>4. Pushed(m, b) = Mutable(w, n + 1)
  BY DEF Pushed, WithByte
<1> HIDE DEF bytes
<1>5. /\ w \in Bits /\ Len(w) = Len(bytes)
      /\ \A i \in 1 .. Len(bytes) : i <= Len(bytes) - W + o => w[i] = bytes[i]
      /\ W <= Len(bytes) => \A j \in 1 .. Len(<< b >>) : w[Len(bytes) - W + o + j] = << b >>[j]
  <2>1. o \in Nat /\ o + Len(<< b >>) <= W
    BY <1>2, <1>3
  <2> HIDE DEF o
  <2> QED BY <1>1, <1>3, <2>1, WithLastIs
<1> HIDE DEF w, o
<1>6. n + 1 \in Nat /\ n + 1 <= Len(w)
  BY <1>1, <1>2, <1>5
<1>7. GoodMutable(Mutable(w, n + 1)) /\ Mutable(w, n + 1).bytes = w /\ Mutable(w, n + 1).length = n + 1
  BY <1>1, <1>5, <1>6, MutableIs
<1>8. ASSUME Exact(m) PROVE Starts(w, n, m.bytes) /\ w[n + 1] = b
  <2>1. Len(bytes) - W + o = n
    BY <1>1, <1>8
  <2>2. w[n + 1] = b
    <3>1. 1 \in 1 .. Len(<< b >>)
      BY <1>3
    <3>2. w[Len(bytes) - W + o + 1] = << b >>[1]
      BY <1>1, <1>5, <3>1
    <3> QED BY <1>3, <2>1, <3>2
  <2>3. ASSUME NEW i \in 1 .. n PROVE w[i] = m.bytes[i]
    <3>1. i \in 1 .. Len(bytes) /\ i <= Len(bytes) - W + o
      BY <1>2, <1>5, <1>6, <2>1
    <3> QED BY <1>1, <1>5, <3>1 DEF Starts
  <2> QED BY <2>2, <2>3 DEF Starts
<1> QED BY <1>4, <1>7, <1>8

LEMMA PoppedIs ==
  ASSUME NEW m, GoodMutable(m), m.length > 0
  PROVE  LET p == Popped(m)
         IN  GoodMutable(p) /\ p.length = m.length - 1 /\ Starts(p.bytes, m.length - 1, m.bytes)
<1> DEFINE n == m.length - 1
           l == Len(m.bytes)
           bytes == IF n % W = 0 THEN Take(m.bytes, LastStart(m)) ELSE m.bytes
<1>1. m.bytes \in Bits /\ l \in Nat /\ n \in Nat /\ n < l /\ Whole(l) /\ W \in Nat \ {0}
  BY LastByte, Width
<1>2. Popped(m) = Mutable(bytes, n)
  BY DEF Popped
<1>3. bytes \in Bits /\ Whole(Len(bytes)) /\ n <= Len(bytes) /\ Starts(bytes, n, m.bytes)
  <2>1. CASE n % W = 0
    <3>1. Whole(n)
      BY <1>1, <2>1, WholeMod
    <3>2. n + W <= l
      BY <1>1, <3>1, WholeGap
    <3> DEFINE k == l - W
    <3>3. k \in Nat /\ k <= l /\ n <= k /\ LeastOf(k, l) = k
      BY <1>1, <3>2 DEF LeastOf
    <3>4. Whole(k)
      <4>1. W <= l
        BY <1>1, <3>2
      <4> HIDE DEF l
      <4> QED BY <1>1, <4>1, WholeOne, WholeSum
    <3>5. bytes = Take(m.bytes, k)
      BY <2>1 DEF LastStart
    <3> HIDE DEF k, bytes
    <3>6. bytes \in Bits /\ Len(bytes) = k /\ \A i \in 1 .. k : bytes[i] = m.bytes[i]
      BY <1>1, <3>3, <3>5, TakeIs
    <3>7. \A i \in 1 .. n : i \in 1 .. k
      BY <1>1, <3>3
    <3> QED BY <3>3, <3>4, <3>6, <3>7 DEF Starts
  <2>2. CASE n % W # 0
    <3>1. bytes = m.bytes
      BY <2>2
    <3> QED BY <1>1, <3>1 DEF Starts
  <2> QED BY <2>1, <2>2
<1> HIDE DEF bytes
<1>4. GoodMutable(Mutable(bytes, n)) /\ Mutable(bytes, n).bytes = bytes /\ Mutable(bytes, n).length = n
  BY <1>1, <1>3, MutableIs
<1> QED BY <1>2, <1>3, <1>4

LEMMA PackedIs ==
  ASSUME NEW v \in Bits
  PROVE  GoodMutable(Packed(v)) /\ Packed(v).length = Len(v) /\ Starts(Packed(v).bytes, Len(v), v)
<1> DEFINE n == Len(v)
           bytes == Padded(v, Up(n))
<1>1. n \in Nat
  BY BitsAt
<1>2. Packed(v) = Mutable(bytes, n)
  BY DEF Packed, Up
<1>3. Up(n) \in Nat /\ Whole(Up(n)) /\ n <= Up(n)
  BY <1>1, UpIs
<1>4. bytes \in Bits /\ Len(bytes) = Up(n) /\ \A i \in 1 .. Up(n) : bytes[i] = IF i <= n THEN v[i] ELSE FALSE
  BY <1>3, PaddedIs
<1> HIDE DEF bytes, n
<1>5. GoodMutable(Mutable(bytes, n)) /\ Mutable(bytes, n).bytes = bytes /\ Mutable(bytes, n).length = n
  BY <1>1, <1>3, <1>4, MutableIs
<1>6. \A i \in 1 .. n : bytes[i] = v[i]
  <2> TAKE i \in 1 .. n
  <2>1. i \in 1 .. Up(n) /\ i <= n
    BY <1>1, <1>3
  <2> QED BY <1>4, <2>1
<1> QED BY <1>2, <1>5, <1>6 DEF Starts, n

\* The bits after the n-th are v, or those of s from a place on.
GoesOn(bytes, n, k, s, a) == \A i \in 1 .. k : bytes[n + i] = s[a + i]

LEMMA ExtendedConstantIs ==
  ASSUME NEW m, GoodMutable(m), NEW n \in Nat, NEW v \in BOOLEAN
  PROVE  LET p == ExtendedConstant(m, n, v)
         IN  /\ GoodMutable(p) /\ p.length = m.length + n
             /\ Exact(m) => /\ Starts(p.bytes, m.length, m.bytes)
                            /\ \A i \in 1 .. n : p.bytes[m.length + i] = v
<1> DEFINE len == m.length
           l == Len(m.bytes)
           o == len % W
           added == IF o # 0 THEN LeastOf(n, W - o) ELSE 0
           tail == IF v THEN Fill(added, TRUE) ELSE Fill(W - o, FALSE)
           bytes == IF o = 0 THEN m.bytes ELSE WithLast(m.bytes, o, tail)
           size == Up(len + n)
           done == Up(len + added)
           ones == Fill(size - done, TRUE)
           more == IF v THEN bytes \o ones ELSE Padded(bytes, size)
           all == IF n > added THEN more ELSE bytes
<1>1. /\ m.bytes \in Bits /\ l \in Nat /\ len \in Nat /\ len <= l /\ W \in Nat \ {0}
      /\ o \in 0 .. W - 1 /\ o <= len /\ Whole(len - o) /\ Whole(l)
      /\ (o # 0 => len - o + W <= l)
      /\ (Exact(m) => l = IF o = 0 THEN len ELSE len - o + W)
  BY LastByte, Width
<1> HIDE DEF len, l, o
<1>2. CASE n = 0
  <2>1. ExtendedConstant(m, n, v) = m
    BY <1>2 DEF ExtendedConstant
  <2>2. len + 0 = len
    BY <1>1
  <2>3. \A i \in 1 .. n : FALSE
    BY <1>2
  <2> QED BY <1>2, <2>1, <2>2, <2>3 DEF Starts, len
<1>3. CASE n # 0
  <2>1. ExtendedConstant(m, n, v) = Mutable(all, len + n)
    BY <1>3 DEF ExtendedConstant, Up, len, o
  <2>2. /\ added \in Nat /\ added <= n /\ (o = 0 => added = 0) /\ (o # 0 => added <= W - o)
        /\ (n > added /\ o # 0 => added = W - o) /\ (o # 0 => W - o \in Nat)
    BY <1>1 DEF LeastOf
  <2> HIDE DEF added
  <2>3. o # 0 => /\ tail \in Bits /\ o + Len(tail) <= W /\ added <= Len(tail) /\ Len(tail) \in Nat
                 /\ \A i \in 1 .. added : tail[i] = v
    <3> SUFFICES ASSUME o # 0
                 PROVE  /\ tail \in Bits /\ o + Len(tail) <= W /\ added <= Len(tail) /\ Len(tail) \in Nat
                        /\ \A i \in 1 .. added : tail[i] = v
      OBVIOUS
    <3>1. CASE v
      <4>1. tail = Fill(added, TRUE)
        BY <3>1
      <4>2. tail \in Bits /\ Len(tail) = added /\ \A i \in 1 .. added : tail[i] = TRUE
        BY <2>2, <4>1, FillIs
      <4> HIDE DEF tail
      <4>3. v = TRUE
        BY <3>1
      <4>4. \A i \in 1 .. added : tail[i] = v
        BY <4>2, <4>3, Zenon
      <4>5. o + added <= W
        BY <1>1, <2>2, <3>1
      <4> QED BY <2>2, <4>2, <4>4, <4>5
    <3>2. CASE ~v
      <4> DEFINE k == W - o
      <4>1. tail = Fill(k, FALSE) /\ k \in Nat /\ added <= k
        BY <2>2, <3>2
      <4> HIDE DEF k
      <4>2. tail \in Bits /\ Len(tail) = k /\ \A i \in 1 .. k : tail[i] = FALSE
        BY <4>1, FillIs
      <4> HIDE DEF tail
      <4>3. \A i \in 1 .. added : i \in 1 .. k
        BY <2>2, <4>1
      <4>4. v = FALSE
        BY <3>2
      <4>5. \A i \in 1 .. added : tail[i] = v
        BY <4>2, <4>3, <4>4, Zenon
      <4>6. o + k <= W
        BY <1>1 DEF k
      <4> QED BY <4>1, <4>2, <4>5, <4>6
    <3> QED BY <3>1, <3>2
  <2> HIDE DEF tail
  <2>4. /\ bytes \in Bits /\ Len(bytes) = l
        /\ Exact(m) => \A i \in 1 .. len : bytes[i] = m.bytes[i]
        /\ Exact(m) => \A i \in 1 .. added : bytes[len + i] = v
    <3>1. CASE o = 0
      <4>1. bytes = m.bytes
        BY <3>1
      <4>2. \A i \in 1 .. added : FALSE
        BY <2>2, <3>1
      <4> HIDE DEF bytes
      <4>3. bytes \in Bits /\ Len(bytes) = l
        BY <1>1, <4>1 DEF l
      <4>4. \A i \in 1 .. len : bytes[i] = m.bytes[i]
        BY <4>1, Zenon
      <4>5. \A i \in 1 .. added : bytes[len + i] = v
        BY <4>2, Zenon
      <4> QED BY <4>3, <4>4, <4>5
    <3>2. CASE o # 0
      <4> DEFINE base == l - W + o
                 w == WithLast(m.bytes, o, tail)
      <4>1. bytes = w
        BY <3>2
      <4>2. W <= l /\ o \in Nat /\ (Exact(m) => base = len)
        BY <1>1, <3>2
      <4>3. /\ w \in Bits /\ Len(w) = l
            /\ \A i \in 1 .. l : i <= base => w[i] = m.bytes[i]
            /\ \A i \in 1 .. Len(tail) : w[base + i] = tail[i]
        <5>1. m.bytes \in Bits /\ o \in Nat /\ tail \in Bits /\ o + Len(tail) <= W
          BY <1>1, <2>3, <3>2, <4>2
        <5>2. /\ w \in Bits /\ Len(w) = Len(m.bytes)
              /\ \A i \in 1 .. Len(m.bytes) : i <= Len(m.bytes) - W + o => w[i] = m.bytes[i]
              /\ W <= Len(m.bytes) => \A i \in 1 .. Len(tail) : w[Len(m.bytes) - W + o + i] = tail[i]
          <6> HIDE DEF o
          <6> QED BY <5>1, WithLastIs
        <5> HIDE DEF w, o
        <5> QED BY <4>2, <5>2 DEF l
      <4> HIDE DEF w, base, bytes
      <4>4. ASSUME Exact(m), NEW i \in 1 .. len PROVE bytes[i] = m.bytes[i]
        <5>1. i \in 1 .. l /\ i <= base
          BY <1>1, <4>2, <4>4
        <5> QED BY <4>1, <4>3, <5>1
      <4>5. ASSUME Exact(m), NEW i \in 1 .. added PROVE bytes[len + i] = v
        <5>1. i \in 1 .. Len(tail)
          BY <2>2, <2>3, <3>2
        <5>2. w[base + i] = tail[i] /\ tail[i] = v
          BY <2>3, <3>2, <4>3, <5>1
        <5> QED BY <4>1, <4>2, <4>5, <5>2
      <4> QED BY <4>1, <4>3, <4>4, <4>5
    <3> QED BY <3>1, <3>2
  <2> HIDE DEF bytes
  <2>5. len + n <= l + n /\ len + added <= l
    BY <1>1, <2>2
  <2>6. /\ all \in Bits /\ Whole(Len(all)) /\ len + n <= Len(all)
        /\ Exact(m) => \A i \in 1 .. len : all[i] = m.bytes[i]
        /\ Exact(m) => \A i \in 1 .. n : all[len + i] = v
    <3>1. CASE n <= added
      <4>1. all = bytes /\ n = added
        <5>1. ~ (n > added) /\ n = added
          BY <2>2, <3>1
        <5> QED BY <5>1
      <4>2. len + n <= l
        BY <2>5, <4>1
      <4> HIDE DEF all
      <4> QED BY <1>1, <2>4, <4>1, <4>2
    <3>2. CASE n > added
      \* The bytes end where the bits added so far do, or after it.
      <4>1. Whole(len + added)
        <5>1. CASE o = 0
          BY <1>1, <2>2, <5>1
        <5>2. CASE o # 0
          <6> DEFINE k == len - o
          <6>1. len + added = k + W /\ Whole(k)
            BY <1>1, <2>2, <3>2, <5>2
          <6> QED BY <6>1, WholeOne, WholeSum
        <5> QED BY <5>1, <5>2
      <4> DEFINE a == len + added
                 b == len + n
      <4>2. a \in Nat /\ b \in Nat /\ a < b /\ a <= l
        BY <1>1, <2>2, <2>5, <3>2
      <4>3. done = a
        <5>1. a % W = 0
          BY <4>1, <4>2, WholeMod
        <5> HIDE DEF a
        <5>2. Up(a) = a
          BY <4>2, <5>1, UpIs
        <5> QED BY <5>2 DEF a
      <4>4. size \in Nat /\ Whole(size) /\ b <= size
        <5> HIDE DEF b
        <5>1. Up(b) \in Nat /\ Whole(Up(b)) /\ b <= Up(b)
          BY <4>2, UpIs
        <5> QED BY <5>1 DEF b
      <4>5. Exact(m) => l = a
        BY <1>1, <2>2, <3>2
      <4> HIDE DEF size, done
      <4>6. all = more
        BY <3>2
      <4>7. CASE v
        <5> DEFINE k == size - a
        <5>1. k \in Nat /\ ones = Fill(k, TRUE)
          BY <4>2, <4>3, <4>4
        <5> HIDE DEF k
        <5>2. ones \in Bits /\ Len(ones) = k /\ \A i \in 1 .. k : ones[i] = TRUE
          BY <5>1, FillIs
        <5>3. all = bytes \o ones
          BY <4>6, <4>7
        <5> HIDE DEF ones, all, more
        <5>4. /\ all \in Bits /\ Len(all) = l + k
              /\ \A i \in 1 .. l : all[i] = bytes[i]
              /\ \A i \in 1 .. k : all[l + i] = ones[i]
          <6>1. bytes \in Bits /\ Len(bytes) = l
            BY <2>4
          <6>2. /\ bytes \o ones \in Bits /\ Len(bytes \o ones) = Len(bytes) + Len(ones)
                /\ \A i \in 1 .. Len(bytes) : (bytes \o ones)[i] = bytes[i]
                /\ \A i \in 1 .. Len(ones) : (bytes \o ones)[Len(bytes) + i] = ones[i]
            BY <5>2, <6>1, ConcatIs
          <6> QED BY <5>2, <5>3, <6>1, <6>2, Zenon
        <5>5. Whole(k)
          <6>1. a <= size
            BY <4>2, <4>4
          <6> HIDE DEF a
          <6>2. Whole(size - a)
            BY <4>1, <4>4, <6>1, WholeSum DEF a
          <6> QED BY <6>2 DEF k
        <5>6. Whole(l + k) /\ b <= l + k
          <6>1. b <= l + k
            BY <1>1, <4>2, <4>4 DEF k
          <6> HIDE DEF l
          <6> QED BY <1>1, <5>5, <6>1, WholeSum
        <5>7. ASSUME Exact(m), NEW i \in 1 .. len PROVE all[i] = m.bytes[i]
          <6>1. i \in 1 .. l
            BY <1>1
          <6> QED BY <2>4, <5>4, <5>7, <6>1
        <5>8. ASSUME Exact(m), NEW i \in 1 .. n PROVE all[len + i] = v
          <6>1. CASE i <= added
            <7>1. i \in 1 .. added /\ len + i \in 1 .. l
              BY <1>1, <2>2, <4>2, <6>1
            <7> QED BY <2>4, <5>4, <5>8, <7>1
          <6>2. CASE added < i
            <7> DEFINE j == i - added
            <7>1. j \in 1 .. k /\ len + i = l + j
              BY <1>1, <2>2, <4>2, <4>4, <4>5, <5>8, <6>2 DEF k
            <7> HIDE DEF j
            <7>2. all[l + j] = TRUE
              BY <5>2, <5>4, <7>1
            <7> QED BY <4>7, <7>1, <7>2
          <6>3. i \in Nat
            OBVIOUS
          <6> QED BY <2>2, <6>1, <6>2, <6>3
        <5> QED BY <5>4, <5>6, <5>7, <5>8
      <4>8. CASE ~v
        <5>1. all = Padded(bytes, size)
          BY <4>6, <4>8
        <5> HIDE DEF all, more
        <5>2. all \in Bits /\ Len(all) = size
              /\ \A i \in 1 .. size : all[i] = IF i <= l THEN bytes[i] ELSE FALSE
          BY <2>4, <4>4, <5>1, PaddedIs
        <5>3. ASSUME Exact(m), NEW i \in 1 .. len PROVE all[i] = m.bytes[i]
          <6>1. i \in 1 .. size /\ i <= l
            BY <1>1, <4>2, <4>4
          <6> QED BY <2>4, <5>2, <5>3, <6>1
        <5>4. ASSUME Exact(m), NEW i \in 1 .. n PROVE all[len + i] = v
          <6> DEFINE j == len + i
          <6>1. j \in 1 .. size
            BY <1>1, <4>2, <4>4
          <6>2. CASE i <= added
            <7>1. i \in 1 .. added /\ j <= l
              BY <1>1, <2>2, <4>2, <6>2
            <7>2. bytes[j] = v
              BY <2>4, <5>4, <7>1
            <7> HIDE DEF j
            <7>3. all[j] = v
              BY <5>2, <6>1, <7>1, <7>2
            <7> QED BY <7>3 DEF j
          <6>3. CASE added < i
            <7>1. ~ (j <= l)
              BY <1>1, <2>2, <4>2, <4>5, <5>4, <6>3
            <7> HIDE DEF j
            <7>2. all[j] = FALSE
              BY <5>2, <6>1, <7>1
            <7> QED BY <4>8, <7>2 DEF j
          <6>4. i \in Nat
            OBVIOUS
          <6> QED BY <2>2, <6>2, <6>3, <6>4
        <5> QED BY <4>4, <5>2, <5>3, <5>4
      <4> QED BY <4>7, <4>8
    <3>3. n <= added \/ n > added
      BY <2>2
    <3> HIDE DEF all
    <3> QED BY <3>1, <3>2, <3>3, Zenon
  <2> HIDE DEF all
  <2>7. len + n \in Nat
    BY <1>1
  <2>8. /\ GoodMutable(Mutable(all, len + n)) /\ Mutable(all, len + n).bytes = all
        /\ Mutable(all, len + n).length = len + n
    BY <2>6, <2>7, MutableIs
  <2> QED BY <2>1, <2>6, <2>8 DEF Starts, len
<1> QED BY <1>2, <1>3

\* The bits of v written into the byte in which the length ends.
LEMMA ByteWritten ==
  ASSUME NEW m, GoodMutable(m), NEW v \in Bits, (m.length % W) + Len(v) <= W
  PROVE  LET o == m.length % W
             w == WithLast(WithByte(m), o, v)
         IN  /\ w \in Bits /\ Whole(Len(w)) /\ Len(w) \in Nat /\ m.length - o + W <= Len(w)
             /\ Exact(m) => /\ Len(w) = m.length - o + W /\ Starts(w, m.length, m.bytes)
                            /\ GoesOn(w, m.length, Len(v), v, 0)
<1> DEFINE n == m.length
           o == n % W
           bytes == WithByte(m)
           l == Len(bytes)
           w == WithLast(bytes, o, v)
<1>1. /\ bytes \in Bits /\ Whole(l) /\ l \in Nat /\ W <= l /\ n - o + W <= l
      /\ (Exact(m) => l - W + o = n) /\ Starts(bytes, n, m.bytes)
  BY ByteAdded
<1>2. n \in Nat /\ o \in 0 .. W - 1 /\ o <= n /\ W \in Nat \ {0} /\ o + Len(v) <= W /\ Len(v) \in Nat
  BY LastByte, Width, BitsAt
<1> HIDE DEF bytes, o
<1>3. /\ w \in Bits /\ Len(w) = l
      /\ \A i \in 1 .. l : i <= l - W + o => w[i] = bytes[i]
      /\ \A j \in 1 .. Len(v) : w[l - W + o + j] = v[j]
  BY <1>1, <1>2, WithLastIs
<1> HIDE DEF l, n, w
<1>4. ASSUME Exact(m) PROVE l = n - o + W
  BY <1>1, <1>2, <1>4
<1>5. ASSUME Exact(m), NEW i \in 1 .. n PROVE w[i] = m.bytes[i]
  <2>1. i \in 1 .. l /\ i <= l - W + o
    BY <1>1, <1>2, <1>5
  <2> QED BY <1>1, <1>3, <2>1 DEF Starts
<1>6. ASSUME Exact(m), NEW j \in 1 .. Len(v) PROVE w[n + j] = v[0 + j]
  <2>1. 0 + j = j /\ l - W + o = n
    BY <1>1, <1>6
  <2> QED BY <1>3, <2>1
<1> QED BY <1>1, <1>3, <1>4, <1>5, <1>6 DEF Starts, GoesOn, n, o, l, bytes, w

\* The bytes of v after others, in as many as it takes.
LEMMA BytesAppended ==
  ASSUME NEW s \in Bits, Whole(Len(s)), NEW v \in Bits, NEW n \in Nat, n <= Len(v)
  PROVE  LET c == s \o Padded(v, Up(n))
         IN  /\ c \in Bits /\ Whole(Len(c)) /\ Len(s) + n <= Len(c)
             /\ Starts(c, Len(s), s) /\ GoesOn(c, Len(s), n, v, 0)
<1> DEFINE p == Padded(v, Up(n))
           c == s \o p
<1>1. Len(s) \in Nat /\ Len(v) \in Nat /\ Up(n) \in Nat /\ Whole(Up(n)) /\ n <= Up(n)
  BY BitsAt, UpIs
<1>2. p \in Bits /\ Len(p) = Up(n) /\ \A i \in 1 .. Up(n) : p[i] = IF i <= Len(v) THEN v[i] ELSE FALSE
  BY <1>1, PaddedIs
<1> HIDE DEF p
<1>3. /\ c \in Bits /\ Len(c) = Len(s) + Len(p) /\ \A i \in 1 .. Len(s) : c[i] = s[i]
      /\ \A i \in 1 .. Len(p) : c[Len(s) + i] = p[i]
  BY <1>2, ConcatIs
<1> HIDE DEF c
<1>4. Whole(Len(c)) /\ Len(s) + n <= Len(c)
  <2>1. Whole(Len(s) + Up(n)) /\ Len(c) = Len(s) + Up(n)
    BY <1>1, <1>2, <1>3, WholeSum
  <2> QED BY <1>1, <2>1
<1>5. ASSUME NEW i \in 1 .. n PROVE c[Len(s) + i] = v[0 + i]
  <2>1. i \in 1 .. Up(n) /\ i <= Len(v) /\ 0 + i = i
    BY <1>1
  <2> QED BY <1>2, <1>3, <2>1
<1> QED BY <1>3, <1>4, <1>5 DEF Starts, GoesOn, c, p

\* A MutableBitmap after n more bits, which are those of s from a on.
Extends(p, m, n, s, a) ==
  /\ GoodMutable(p) /\ p.length = m.length + n
  /\ Exact(m) => Starts(p.bytes, m.length, m.bytes) /\ GoesOn(p.bytes, m.length, n, s, a)

\* Bytes written to the end of the byte in which the length ends, and others after them.
LEMMA ByteFilled ==
  ASSUME NEW m, GoodMutable(m), NEW v \in Bits, m.length % W # 0, Len(v) = W - (m.length % W),
         NEW u \in Bits, NEW n \in Nat, n <= Len(u)
  PROVE  LET o == m.length % W
             c == WithLast(m.bytes, o, v) \o Padded(u, Up(n))
         IN  /\ c \in Bits /\ Whole(Len(c)) /\ m.length + Len(v) + n <= Len(c)
             /\ Exact(m) => /\ Starts(c, m.length, m.bytes)
                            /\ GoesOn(c, m.length, Len(v), v, 0)
                            /\ GoesOn(c, m.length + Len(v), n, u, 0)
<1> DEFINE len == m.length
           o == len % W
           w == WithLast(m.bytes, o, v)
           c == w \o Padded(u, Up(n))
<1>1. len \in Nat /\ o \in 0 .. W - 1 /\ o <= len /\ W \in Nat \ {0} /\ Len(v) \in Nat /\ o # 0 /\ Len(v) = W - o
  BY LastByte, Width, BitsAt
<1>2. WithByte(m) = m.bytes
  BY <1>1 DEF WithByte
<1>3. o + Len(v) <= W
  <2> HIDE DEF o
  <2> QED BY <1>1
<1>4. /\ w \in Bits /\ Whole(Len(w)) /\ Len(w) \in Nat /\ len - o + W <= Len(w)
      /\ Exact(m) => /\ Len(w) = len - o + W /\ Starts(w, len, m.bytes)
                     /\ GoesOn(w, len, Len(v), v, 0)
  BY <1>2, <1>3, ByteWritten
<1> HIDE DEF w
<1>5. /\ c \in Bits /\ Whole(Len(c)) /\ Len(w) + n <= Len(c)
      /\ Starts(c, Len(w), w) /\ GoesOn(c, Len(w), n, u, 0)
  BY <1>4, BytesAppended
<1> HIDE DEF c, o, len
<1>6. len + Len(v) + n <= Len(c)
  <2>1. Len(c) \in Nat
    BY <1>5, BitsAt
  <2> QED BY <1>1, <1>4, <1>5, <2>1
<1>7. ASSUME Exact(m)
      PROVE  Starts(c, len, m.bytes) /\ GoesOn(c, len, Len(v), v, 0) /\ GoesOn(c, len + Len(v), n, u, 0)
  <2>1. Len(w) = len + Len(v)
    BY <1>1, <1>4, <1>7
  <2>2. ASSUME NEW i \in 1 .. len PROVE c[i] = m.bytes[i]
    <3>1. i \in 1 .. Len(w)
      BY <1>1, <2>1
    <3> QED BY <1>4, <1>5, <1>7, <3>1 DEF Starts
  <2>3. ASSUME NEW i \in 1 .. Len(v) PROVE c[len + i] = v[0 + i]
    <3>1. len + i \in 1 .. Len(w)
      BY <1>1, <2>1
    <3> QED BY <1>4, <1>5, <1>7, <3>1 DEF Starts, GoesOn
  <2> QED BY <1>5, <2>1, <2>2, <2>3 DEF Starts, GoesOn
<1> QED BY <1>5, <1>6, <1>7 DEF c, w, o, len

LEMMA ExtendedFromIterIs ==
  ASSUME NEW m, GoodMutable(m), NEW v \in Bits
  PROVE  Extends(ExtendedFromIter(m, v), m, Len(v), v, 0)
<1> DEFINE len == m.length
           o == len % W
           n == Len(v)
           p == ExtendedFromIter(m, v)
<1>1. /\ len \in Nat /\ o \in 0 .. W - 1 /\ o <= len /\ len <= Len(m.bytes) /\ W \in Nat \ {0}
      /\ n \in Nat /\ m.bytes \in Bits /\ Len(m.bytes) \in Nat /\ Whole(Len(m.bytes))
  BY LastByte, Width, BitsAt
<1>2. CASE n < W - o
  <2> DEFINE w == WithLast(WithByte(m), o, v)
  <2>1. p = Mutable(w, len + n)
    BY <1>2 DEF ExtendedFromIter, WithByte
  <2>2. o + n <= W
    <3> HIDE DEF o, n
    <3> QED BY <1>1, <1>2
  <2>3. /\ w \in Bits /\ Whole(Len(w)) /\ Len(w) \in Nat /\ len - o + W <= Len(w)
        /\ Exact(m) => /\ Len(w) = len - o + W /\ Starts(w, len, m.bytes)
                       /\ GoesOn(w, len, n, v, 0)
    BY <2>2, ByteWritten
  <2> HIDE DEF w, o, n, p
  <2>4. len + n \in Nat /\ len + n <= Len(w)
    <3> HIDE DEF len
    <3> QED BY <1>1, <1>2, <2>3
  <2>5. /\ GoodMutable(Mutable(w, len + n)) /\ Mutable(w, len + n).bytes = w
        /\ Mutable(w, len + n).length = len + n
    BY <2>3, <2>4, MutableIs
  <2>6. Extends(p, m, n, v, 0)
    BY <2>1, <2>3, <2>5 DEF Extends
  <2> QED BY <2>6 DEF p, n
<1>3. CASE ~ (n < W - o)
  <2> DEFINE fill == IF o # 0 THEN W - o ELSE 0
             first == Take(v, fill)
             rest == Drop(v, fill)
             k == n - fill
             head == IF o = 0 THEN m.bytes ELSE WithLast(m.bytes, o, first)
             c == head \o Padded(rest, Up(Len(rest)))
  <2>1. p = Mutable(c, len + n)
    BY <1>3 DEF ExtendedFromIter, Up
  <2>2. fill \in Nat /\ fill <= n /\ k \in Nat /\ LeastOf(fill, n) = fill /\ n = fill + k
        /\ (o # 0 => fill = W - o) /\ (o = 0 => fill = 0)
    <3> HIDE DEF o, n
    <3> QED BY <1>1, <1>3 DEF LeastOf
  <2> HIDE DEF fill, k, o
  <2>3. first \in Bits /\ Len(first) = fill /\ \A i \in 1 .. fill : first[i] = v[i]
    BY <2>2, TakeIs
  <2>4. rest \in Bits /\ Len(rest) = k /\ \A i \in 1 .. k : rest[i] = v[fill + i]
    BY <2>2, DropIs DEF k
  <2> HIDE DEF first, rest, n
  <2>5. /\ c \in Bits /\ Whole(Len(c)) /\ len + n <= Len(c)
        /\ Exact(m) => Starts(c, len, m.bytes) /\ GoesOn(c, len, n, v, 0)
    <3>1. CASE o = 0
      <4>1. c = m.bytes \o Padded(rest, Up(k)) /\ k = n /\ fill = 0
        BY <2>2, <2>4, <3>1
      <4> HIDE DEF c, len
      <4> DEFINE b == m.bytes
      <4>2. b \in Bits /\ Whole(Len(b)) /\ Len(b) \in Nat
        BY <1>1
      <4> HIDE DEF b
      <4>3. /\ b \o Padded(rest, Up(k)) \in Bits /\ Whole(Len(b \o Padded(rest, Up(k))))
            /\ Len(b) + k <= Len(b \o Padded(rest, Up(k)))
            /\ Starts(b \o Padded(rest, Up(k)), Len(b), b)
            /\ GoesOn(b \o Padded(rest, Up(k)), Len(b), k, rest, 0)
        <5>1. k <= Len(rest)
          BY <2>2, <2>4
        <5> QED BY <2>2, <2>4, <4>2, <5>1, BytesAppended
      <4>4. c \in Bits /\ Whole(Len(c)) /\ Len(b) + k <= Len(c) /\ Starts(c, Len(b), b) /\ GoesOn(c, Len(b), k, rest, 0)
        BY <4>1, <4>3 DEF b
      <4>5. len <= Len(b) /\ (Exact(m) => Len(b) = len)
        <5>1. Exact(m) => Len(m.bytes) = (IF len % W = 0 THEN len ELSE len - (len % W) + W)
          BY LastByte DEF len
        <5> QED BY <1>1, <3>1, <5>1 DEF b, o
      <4>6. len + n <= Len(c)
        <5>1. Len(c) \in Nat
          BY <4>4, BitsAt
        <5> QED BY <1>1, <2>2, <4>1, <4>2, <4>4, <4>5, <5>1
      <4>7. ASSUME Exact(m), NEW i \in 1 .. n PROVE c[len + i] = v[0 + i]
        <5>1. c[len + i] = rest[0 + i] /\ rest[i] = v[0 + i]
          BY <2>4, <4>1, <4>4, <4>5, <4>7 DEF GoesOn
        <5>2. 0 + i = i
          OBVIOUS
        <5> QED BY <5>1, <5>2
      <4> QED BY <4>4, <4>5, <4>6, <4>7 DEF Starts, GoesOn, b
    <3>2. CASE o # 0
      <4>1. c = WithLast(m.bytes, o, first) \o Padded(rest, Up(k))
        BY <2>4, <3>2
      <4>2. /\ c \in Bits /\ Whole(Len(c)) /\ len + Len(first) + k <= Len(c)
            /\ Exact(m) => /\ Starts(c, len, m.bytes)
                           /\ GoesOn(c, len, Len(first), first, 0)
                           /\ GoesOn(c, len + Len(first), k, rest, 0)
        <5>1. len % W # 0 /\ Len(first) = W - (len % W) /\ k <= Len(rest)
          BY <2>2, <2>3, <2>4, <3>2 DEF o
        <5> HIDE DEF c
        <5> QED BY <2>2, <2>3, <2>4, <4>1, <5>1, ByteFilled DEF o
      <4> HIDE DEF c, len
      <4>3. len + n <= Len(c)
        BY <1>1, <2>2, <2>3, <4>2
      <4>4. ASSUME Exact(m), NEW i \in 1 .. n PROVE c[len + i] = v[0 + i]
        <5>1. CASE i <= fill
          <6>1. i \in 1 .. fill /\ 0 + i = i
            BY <2>2, <5>1
          <6> QED BY <2>3, <4>2, <4>4, <6>1 DEF GoesOn
        <5>2. CASE fill < i
          <6> DEFINE j == i - fill
          <6>1. j \in 1 .. k /\ 0 + j = j /\ fill + j = 0 + i /\ len + fill + j = len + i
            BY <1>1, <2>2, <5>2
          <6> HIDE DEF j
          <6>2. c[len + fill + j] = rest[0 + j] /\ rest[j] = v[fill + j]
            BY <2>3, <2>4, <4>2, <4>4, <6>1 DEF GoesOn
          <6> QED BY <6>1, <6>2
        <5> QED BY <2>2, <5>1, <5>2
      <4> QED BY <4>2, <4>3, <4>4 DEF GoesOn
    <3> QED BY <3>1, <3>2
  <2> HIDE DEF c, p
  <2>6. len + n \in Nat
    <3> HIDE DEF len
    <3> QED BY <1>1
  <2>7. /\ GoodMutable(Mutable(c, len + n)) /\ Mutable(c, len + n).bytes = c
        /\ Mutable(c, len + n).length = len + n
    BY <2>5, <2>6, MutableIs
  <2>8. Extends(p, m, n, v, 0)
    BY <2>1, <2>5, <2>7 DEF Extends
  <2> QED BY <2>8 DEF p, n
<1> QED BY <1>2, <1>3

\* Whole bytes shifted into the byte in which the length ends, and after it.
LEMMA ExtendedUnalignedIs ==
  ASSUME NEW m, GoodMutable(m), m.length % W # 0, NEW s \in Bits, Whole(Len(s)),
         NEW a \in Nat, a % W = 0, NEW n \in Nat \ {0}, a + n <= Len(s)
  PROVE  Extends(ExtendedUnaligned(m, s, a, n), m, n, s, a)
<1> DEFINE len == m.length
           o == len % W
           k == W - o
           items == Region(s, a, Up(n))
           first == Take(items, k)
           rest == Drop(items, k)
           head == WithLast(m.bytes, o, first)
           c == head \o (IF n + o <= W THEN << >> ELSE Padded(rest, Up(n - k)))
           p == ExtendedUnaligned(m, s, a, n)
<1>1. /\ len \in Nat /\ o \in 0 .. W - 1 /\ o <= len /\ len <= Len(m.bytes) /\ W \in Nat \ {0}
      /\ m.bytes \in Bits /\ Len(m.bytes) \in Nat /\ Whole(Len(m.bytes)) /\ o # 0
      /\ Len(s) \in Nat
  BY LastByte, Width, BitsAt
<1>2. p = Mutable(c, len + n)
  BY DEF ExtendedUnaligned, Up
<1> HIDE DEF o, p
<1>3. k \in Nat /\ k \in 1 .. W /\ o + k = W
  BY <1>1
<1> HIDE DEF k
<1>4. Up(n) \in Nat /\ n <= Up(n) /\ W <= Up(n) /\ a + Up(n) <= Len(s)
  <2>1. n \in Nat /\ n <= Up(n) /\ Up(n) \in Nat /\ Whole(Up(n))
    BY UpIs
  <2>2. W <= Up(n)
    <3>1. Whole(0) /\ 0 < Up(n)
      BY <2>1, WholeOne
    <3>2. 0 + W <= Up(n)
      BY <2>1, <3>1, WholeGap
    <3> QED BY <1>1, <3>2
  <2>3. a + Up(n) <= Len(s)
    <3>1. Whole(a)
      BY WholeMod
    <3>2. a <= Len(s)
      BY <1>1
    <3> DEFINE l == Len(s)
    <3>3. l \in Nat /\ Whole(l) /\ a <= l /\ a + n <= l
      BY <1>1, <3>2
    <3> HIDE DEF l
    <3>4. Whole(l - a)
      BY <3>1, <3>3, WholeSum
    <3>5. Up(n) <= l - a
      <4>1. n <= l - a /\ n \in Nat
        BY <3>3
      <4> QED BY <3>4, <4>1, UpIs
    <3> QED BY <2>1, <3>3, <3>5 DEF l
  <2> QED BY <2>1, <2>2, <2>3
<1>5. items \in Bits /\ Len(items) = Up(n) /\ \A i \in 1 .. Up(n) : items[i] = s[a + i]
  BY <1>4, RegionIs
<1> HIDE DEF items
<1>6. first \in Bits /\ Len(first) = k /\ \A i \in 1 .. k : first[i] = s[a + i]
  <2>1. LeastOf(k, Len(items)) = k
    BY <1>1, <1>3, <1>4, <1>5 DEF LeastOf
  <2>2. first \in Bits /\ Len(first) = k /\ \A i \in 1 .. k : first[i] = items[i]
    <3>1. /\ Take(items, k) \in Bits /\ Len(Take(items, k)) = LeastOf(k, Len(items))
          /\ \A i \in 1 .. LeastOf(k, Len(items)) : Take(items, k)[i] = items[i]
      BY <1>3, <1>5, TakeIs
    <3> QED BY <2>1, <3>1
  <2>3. \A i \in 1 .. k : i \in 1 .. Up(n)
    BY <1>1, <1>3, <1>4
  <2> QED BY <1>5, <2>2, <2>3
<1>7. /\ rest \in Bits /\ Len(rest) = Up(n) - k
      /\ \A i \in 1 .. Up(n) - k : rest[i] = s[a + k + i]
  <2>1. rest \in Bits /\ Len(rest) = Up(n) - k /\ \A i \in 1 .. Up(n) - k : rest[i] = items[k + i]
    <3>1. k <= Len(items)
      BY <1>1, <1>3, <1>4, <1>5
    <3> QED BY <1>3, <1>5, <3>1, DropIs
  <2>2. \A i \in 1 .. Up(n) - k : k + i \in 1 .. Up(n) /\ a + (k + i) = a + k + i
    BY <1>3, <1>4
  <2> QED BY <1>5, <2>1, <2>2
<1> HIDE DEF first, rest
<1>8. /\ c \in Bits /\ Whole(Len(c)) /\ len + n <= Len(c)
      /\ Exact(m) => Starts(c, len, m.bytes) /\ GoesOn(c, len, n, s, a)
  <2>1. CASE n + o <= W
    <3>1. n <= k
      BY <1>1, <1>3, <2>1
    <3>2. o + Len(first) <= W /\ WithByte(m) = m.bytes
      BY <1>1, <1>3, <1>6 DEF WithByte, o
    <3>3. /\ head \in Bits /\ Whole(Len(head)) /\ Len(head) \in Nat /\ len - o + W <= Len(head)
          /\ Exact(m) => Starts(head, len, m.bytes) /\ GoesOn(head, len, Len(first), first, 0)
      BY <1>6, <3>2, ByteWritten DEF o
    <3> HIDE DEF head
    <3>4. c = head
      <4>1. c = head \o << >>
        BY <2>1
      <4>2. head \in Seq(BOOLEAN)
        BY <3>3 DEF Bits
      <4> HIDE DEF c
      <4> QED BY <4>1, <4>2
    <3> HIDE DEF c, len
    <3>5. len + n <= Len(c)
      BY <1>1, <2>1, <3>3, <3>4
    <3>6. ASSUME Exact(m), NEW i \in 1 .. n PROVE c[len + i] = s[a + i]
      <4>1. i \in 1 .. k /\ 0 + i = i
        BY <1>3, <3>1
      <4> QED BY <1>6, <3>3, <3>4, <3>6, <4>1 DEF GoesOn
    <3> QED BY <3>3, <3>4, <3>5, <3>6 DEF GoesOn
  <2>2. CASE ~ (n + o <= W)
    <3> DEFINE j == n - k
    <3>1. j \in Nat /\ n = k + j /\ j <= Len(rest) /\ j <= Up(n) - k
      BY <1>1, <1>3, <1>4, <1>7, <2>2
    <3>2. c = head \o Padded(rest, Up(j))
      BY <2>2
    <3> HIDE DEF j, c
    <3>3. /\ c \in Bits /\ Whole(Len(c)) /\ len + Len(first) + j <= Len(c)
          /\ Exact(m) => /\ Starts(c, len, m.bytes)
                         /\ GoesOn(c, len, Len(first), first, 0)
                         /\ GoesOn(c, len + Len(first), j, rest, 0)
      <4>1. len % W # 0 /\ Len(first) = W - (len % W)
        BY <1>1, <1>3, <1>6 DEF o
      <4> QED BY <1>6, <1>7, <3>1, <3>2, <4>1, ByteFilled DEF o
    <3> HIDE DEF len
    <3>4. len + n <= Len(c)
      BY <1>1, <1>3, <1>6, <3>1, <3>3
    <3>5. ASSUME Exact(m), NEW i \in 1 .. n PROVE c[len + i] = s[a + i]
      <4>1. CASE i <= k
        <5>1. i \in 1 .. k /\ 0 + i = i
          BY <1>3, <4>1
        <5> QED BY <1>6, <3>3, <3>5, <5>1 DEF GoesOn
      <4>2. CASE k < i
        <5> DEFINE x == i - k
        <5>1. x \in 1 .. j /\ 0 + x = x /\ a + k + x = a + i /\ len + k + x = len + i /\ x \in 1 .. Up(n) - k
          BY <1>1, <1>3, <1>4, <3>1, <4>2
        <5> HIDE DEF x
        <5>2. c[len + k + x] = rest[0 + x] /\ rest[x] = s[a + k + x]
          BY <1>6, <1>7, <3>3, <3>5, <5>1 DEF GoesOn
        <5> QED BY <5>1, <5>2
      <4> QED BY <1>3, <4>1, <4>2
    <3> QED BY <3>3, <3>4, <3>5 DEF GoesOn
  <2> QED BY <2>1, <2>2
<1> HIDE DEF c
<1>9. len + n \in Nat
  <2> HIDE DEF len
  <2> QED BY <1>1
<1>10. /\ GoodMutable(Mutable(c, len + n)) /\ Mutable(c, len + n).bytes = c
       /\ Mutable(c, len + n).length = len + n
  BY <1>8, <1>9, MutableIs
<1>11. Extends(p, m, n, s, a)
  BY <1>2, <1>8, <1>10 DEF Extends
<1> QED BY <1>11 DEF p

\* The same bits through a sequence that starts with them.
LEMMA ExtendsThrough ==
  ASSUME NEW p, NEW m, NEW n \in Nat, NEW s, NEW a \in Nat, NEW v,
         Extends(p, m, n, v, 0), \A i \in 1 .. n : v[i] = s[a + i]
  PROVE  Extends(p, m, n, s, a)
<1>1. \A i \in 1 .. n : 0 + i = i
  OBVIOUS
<1> QED BY <1>1, Zenon DEF Extends, GoesOn

LEMMA ExtendedFromSliceIs ==
  ASSUME NEW m, GoodMutable(m), NEW s \in Bits, Whole(Len(s)), NEW a \in Nat, NEW n \in Nat, a + n <= Len(s)
  PROVE  Extends(ExtendedFromSlice(m, s, a, n), m, n, s, a)
<1> DEFINE len == m.length
<1>1. len \in Nat /\ m.bytes \in Bits /\ Len(m.bytes) \in Nat /\ Whole(Len(m.bytes)) /\ len <= Len(m.bytes)
  BY LastByte
<1>2. CASE n = 0
  <2>1. ExtendedFromSlice(m, s, a, n) = m /\ len + n = len
    BY <1>1, <1>2 DEF ExtendedFromSlice
  <2>2. \A i \in 1 .. n : FALSE
    BY <1>2
  <2> QED BY <2>1, <2>2 DEF Extends, Starts, GoesOn
<1>3. CASE n # 0 /\ a % W # 0
  <2> DEFINE v == Region(s, a, n)
  <2>1. ExtendedFromSlice(m, s, a, n) = ExtendedFromIter(m, v)
    BY <1>3 DEF ExtendedFromSlice
  <2>2. v \in Bits /\ Len(v) = n /\ \A i \in 1 .. n : v[i] = s[a + i]
    BY RegionIs
  <2> HIDE DEF v
  <2>3. Extends(ExtendedFromIter(m, v), m, n, v, 0)
    BY <2>2, ExtendedFromIterIs
  <2> QED BY <2>1, <2>2, <2>3, ExtendsThrough
<1>4. CASE n # 0 /\ a % W = 0 /\ len % W # 0
  <2>1. ExtendedFromSlice(m, s, a, n) = ExtendedUnaligned(m, s, a, n)
    BY <1>4 DEF ExtendedFromSlice
  <2>2. n \in Nat \ {0}
    BY <1>4
  <2> QED BY <1>4, <2>1, <2>2, ExtendedUnalignedIs
<1>5. CASE n # 0 /\ a % W = 0 /\ len % W = 0
  <2> DEFINE k == Up(n)
             v == Region(s, a, k)
             b == m.bytes
             c == b \o v
             p == ExtendedFromSlice(m, s, a, n)
  <2>1. p = Mutable(c, len + n)
    BY <1>5 DEF ExtendedFromSlice, Up
  <2>2. k \in Nat /\ Whole(k) /\ n <= k /\ a + k <= Len(s)
    <3>1. k \in Nat /\ Whole(k) /\ n <= k /\ Whole(a)
      BY <1>5, UpIs, WholeMod
    <3> DEFINE l == Len(s)
    <3>2. l \in Nat /\ Whole(l) /\ a <= l /\ a + n <= l
      BY BitsAt
    <3> HIDE DEF l, k
    <3>3. Whole(l - a)
      BY <3>1, <3>2, WholeSum
    <3>4. k <= l - a
      <4>1. n <= l - a
        BY <3>2
      <4> QED BY <3>3, <4>1, UpIs DEF k
    <3> QED BY <3>1, <3>2, <3>4 DEF l
  <2> HIDE DEF k, p
  <2>3. v \in Bits /\ Len(v) = k /\ \A i \in 1 .. k : v[i] = s[a + i]
    BY <2>2, RegionIs
  <2> HIDE DEF v
  <2>4. b \in Bits /\ Whole(Len(b)) /\ Len(b) \in Nat /\ len <= Len(b) /\ (Exact(m) => Len(b) = len)
    <3>1. Exact(m) => Len(m.bytes) = (IF len % W = 0 THEN len ELSE len - (len % W) + W)
      BY LastByte
    <3> QED BY <1>1, <1>5, <3>1
  <2> HIDE DEF b, len
  <2>5. /\ c \in Bits /\ Len(c) = Len(b) + k /\ \A i \in 1 .. Len(b) : c[i] = b[i]
        /\ \A i \in 1 .. k : c[Len(b) + i] = v[i]
    BY <2>3, <2>4, ConcatIs
  <2> HIDE DEF c
  <2>6. Whole(Len(c)) /\ len + n <= Len(c) /\ len + n \in Nat
    <3>1. Whole(Len(b) + k)
      BY <2>2, <2>4, WholeSum
    <3> QED BY <1>1, <2>2, <2>4, <2>5, <3>1
  <2>7. ASSUME Exact(m), NEW i \in 1 .. n PROVE c[len + i] = s[a + i]
    <3>1. i \in 1 .. k
      BY <2>2
    <3> QED BY <2>3, <2>4, <2>5, <2>7, <3>1
  <2>8. /\ GoodMutable(Mutable(c, len + n)) /\ Mutable(c, len + n).bytes = c
        /\ Mutable(c, len + n).length = len + n
    BY <2>5, <2>6, MutableIs
  <2>9. Extends(p, m, n, s, a)
    BY <2>1, <2>4, <2>5, <2>7, <2>8 DEF Extends, Starts, GoesOn, len, b
  <2> QED BY <2>9 DEF p
<1> QED BY <1>2, <1>3, <1>4, <1>5
-----------------------------------------------------------------------------
(* The chunk iterators.                                                     *)

LEMMA ChunkWidth == Chunk \in Nat \ {0} /\ Whole(Chunk) /\ W <= Chunk
<1>1. W \in Nat \ {0} /\ ChunkBytes \in Nat \ {0} /\ Chunk = W * ChunkBytes
  BY WidthsAssumption DEF Chunk
<1>2. W * 1 <= W * ChunkBytes /\ W * 1 = W /\ W * ChunkBytes \in Nat
  BY <1>1, TimesGrows
<1>3. Whole(Chunk)
  BY <1>1 DEF Whole
<1>4. W * ChunkBytes # 0
  BY <1>1, <1>2
<1> QED BY <1>1, <1>2, <1>3, <1>4

LEMMA ChunkTimes ==
  ASSUME NEW j \in Nat, NEW k \in Nat, j <= k
  PROVE  /\ j * Chunk \in Nat /\ j * Chunk <= k * Chunk /\ (j + 1) * Chunk = j * Chunk + Chunk
         /\ Whole(j * Chunk)
<1> DEFINE C == Chunk
<1>1. C \in Nat \ {0} /\ W \in Nat \ {0} /\ ChunkBytes \in Nat /\ C = W * ChunkBytes
  BY ChunkWidth, WidthsAssumption DEF Chunk
<1>2. Whole(j * C)
  <2>1. j * C = W * (j * ChunkBytes) /\ j * ChunkBytes \in Nat
    <3> HIDE DEF C
    <3> QED BY <1>1
  <2> HIDE DEF C
  <2> QED BY <2>1 DEF Whole
<1> HIDE DEF C
<1>3. j * C \in Nat /\ j * C <= k * C /\ (j + 1) * C = j * C + C
  BY <1>1
<1> QED BY <1>2, <1>3 DEF C

\* Two bytes' chunks merged: the bits of one from the offset on, then those the next lends.
LEMMA MergedIs ==
  ASSUME NEW current \in Bits, NEW next \in Bits, Len(current) = Chunk, Len(next) = Chunk,
         NEW o \in 0 .. W - 1
  PROVE  LET r == MergeReversed(current, next, o)
         IN  /\ r \in Bits /\ Len(r) = Chunk
             /\ \A i \in 1 .. Chunk - o : r[i] = current[o + i]
             /\ \A i \in 1 .. o : r[Chunk - o + i] = next[i]
<1> DEFINE C == Chunk
           d == Drop(current, o)
           t == Take(next, o)
<1>1. C \in Nat /\ W \in Nat \ {0} /\ o \in Nat /\ o <= C
  BY ChunkWidth, Width
<1> HIDE DEF C
<1>2. d \in Bits /\ Len(d) = C - o /\ \A i \in 1 .. C - o : d[i] = current[o + i]
  <2>1. Len(current) = C /\ o \in Nat /\ o <= Len(current)
    BY <1>1 DEF C
  <2> QED BY <2>1, DropIs
<1>3. t \in Bits /\ Len(t) = o /\ \A i \in 1 .. o : t[i] = next[i]
  <2>1. LeastOf(o, C) = o
    BY <1>1 DEF LeastOf
  <2>2. /\ t \in Bits /\ Len(t) = LeastOf(o, C) /\ \A i \in 1 .. LeastOf(o, C) : t[i] = next[i]
    BY <1>1, TakeIs DEF C
  <2> QED BY <2>1, <2>2
<1> HIDE DEF d, t
<1>4. /\ d \o t \in Bits /\ Len(d \o t) = Len(d) + Len(t)
      /\ \A i \in 1 .. Len(d) : (d \o t)[i] = d[i]
      /\ \A i \in 1 .. Len(t) : (d \o t)[Len(d) + i] = t[i]
  BY <1>2, <1>3, ConcatIs
<1>5. MergeReversed(current, next, o) = d \o t
  BY DEF MergeReversed, d, t
<1> DEFINE r == d \o t
<1> HIDE DEF r
<1>6. /\ r \in Bits /\ Len(r) = C
      /\ \A i \in 1 .. C - o : r[i] = current[o + i]
      /\ \A i \in 1 .. o : r[C - o + i] = next[i]
  BY <1>1, <1>2, <1>3, <1>4 DEF r
<1> QED BY <1>5, <1>6 DEF C, r

\* The bits of the full chunks among n, and those with one more.
FullChunks(n) == (n \div Chunk) * Chunk

LEMMA FullChunksAre ==
  ASSUME NEW n \in Nat
  PROVE  /\ n \div Chunk \in Nat /\ FullChunks(n) \in Nat /\ Whole(FullChunks(n))
         /\ FullChunks(n) <= n /\ n < FullChunks(n) + Chunk
         /\ Whole(FullChunks(n) + Chunk) /\ Up(n) <= FullChunks(n) + Chunk
<1> DEFINE C == Chunk
           full == n \div C
           F == full * C
<1>1. C \in Nat \ {0} /\ Whole(C)
  BY ChunkWidth
<1>2. full \in Nat /\ n % C \in 0 .. C - 1 /\ n = C * full + (n % C)
  BY <1>1, DivMod
<1> HIDE DEF full
<1>3. F \in Nat /\ Whole(F)
  BY <1>2, ChunkTimes
<1>4. C * full = F
  <2> HIDE DEF C
  <2> QED BY <1>1, <1>2
<1> HIDE DEF F, C
<1>5. F <= n /\ n < F + C
  BY <1>1, <1>2, <1>3, <1>4
<1>6. Whole(F + C)
  BY <1>1, <1>3, WholeSum
<1>7. Up(n) <= F + C
  <2>1. n <= F + C
    BY <1>1, <1>3, <1>5
  <2> QED BY <1>6, <2>1, UpIs
<1> QED BY <1>2, <1>3, <1>5, <1>6, <1>7 DEF FullChunks, F, full, C

\* BitChunks yields the bits from any offset on.
LEMMA BitChunksIs ==
  ASSUME NEW s \in Bits, Whole(Len(s)), NEW offset \in Nat, NEW n \in Nat, offset + n <= Len(s)
  PROVE  LET r == BitChunks(s, offset, n)
         IN  r \in Bits /\ Len(r) = FullChunks(n) + Chunk /\ GoesOn(r, 0, n, s, offset)
<1> DEFINE C == Chunk
           base == W * (offset \div W)
           slice == Drop(s, base)
           o == offset % W
           full == n \div C
           F == full * C
           end == Up(n + o)
           chunk(k) == Region(slice, k * C, C)
           remainder == IF full = 0 THEN slice ELSE SubSeq(slice, F + 1, end)
           lastChunk == Padded(Take(remainder, W), C)
           next(k) == IF k + 1 < full THEN chunk(k + 1) ELSE lastChunk
           merged(k) == IF o = 0 THEN chunk(k) ELSE MergeReversed(chunk(k), next(k), o)
           body == [i \in 1 .. F |-> merged((i - 1) \div C)[((i - 1) % C) + 1]]
           tail == Padded(Drop(remainder, LeastOf(o, Len(remainder))), C)
           l == Len(slice)
           L == Len(remainder)
<1>1. BitChunks(s, offset, n) = body \o tail
  BY DEF BitChunks, Up
<1>2. C \in Nat \ {0} /\ W \in Nat \ {0} /\ W <= C /\ Whole(C) /\ Len(s) \in Nat
  BY ChunkWidth, Width, BitsAt
<1>3. o \in 0 .. W - 1 /\ base \in Nat /\ offset = base + o /\ Whole(base) /\ o <= offset
  <2>1. offset \div W \in Nat /\ o \in 0 .. W - 1 /\ Whole(offset - o) /\ offset - o = base /\ o <= offset
    BY WholeMod
  <2> QED BY <2>1, WholeNat
<1>4. full \in Nat /\ F \in Nat /\ Whole(F) /\ F <= n /\ n < F + C
      /\ \A k \in 0 .. full - 1 :
           /\ k * C \in Nat /\ (k + 1) * C = k * C + C /\ k * C + C <= F
           /\ (k + 1 < full => k * C + C + C <= F) /\ (k + 1 = full => k * C + C = F)
  <2>1. full \in Nat /\ F \in Nat /\ Whole(F) /\ F <= n /\ n < F + C
    BY FullChunksAre DEF FullChunks
  <2> HIDE DEF full
  <2>4. ASSUME NEW k \in 0 .. full - 1
        PROVE  /\ k * C \in Nat /\ (k + 1) * C = k * C + C /\ k * C + C <= F
               /\ (k + 1 < full => k * C + C + C <= F) /\ (k + 1 = full => k * C + C = F)
    <3>1. k \in Nat /\ k + 1 \in Nat /\ k + 1 <= full /\ k + 1 + 1 \in Nat
      BY <2>1
    <3>2. k * C \in Nat /\ (k + 1) * C = k * C + C
      BY <3>1, ChunkTimes
    <3>3. (k + 1) * C <= F /\ (k + 1 + 1) * C = (k + 1) * C + C
      BY <2>1, <3>1, ChunkTimes
    <3>4. k + 1 < full => (k + 1 + 1) * C <= F
      <4> SUFFICES ASSUME k + 1 < full PROVE (k + 1 + 1) * C <= F
        OBVIOUS
      <4>1. k + 1 + 1 <= full
        BY <2>1, <3>1
      <4> QED BY <2>1, <3>1, <4>1, ChunkTimes
    <3>5. k + 1 = full => (k + 1) * C = F
      OBVIOUS
    <3> DEFINE x == k * C
               y == (k + 1) * C
               z == (k + 1 + 1) * C
    <3> HIDE DEF x, y, z, F, C
    <3>6. x \in Nat /\ y = x + C /\ y <= F /\ z = y + C /\ (k + 1 < full => z <= F) /\ (k + 1 = full => y = F)
      BY <3>2, <3>3, <3>4, <3>5 DEF x, y, z
    <3>7. x + C <= F /\ (k + 1 < full => x + C + C <= F) /\ (k + 1 = full => x + C = F)
      BY <3>6
    <3> QED BY <3>2, <3>7 DEF x
  <2> HIDE DEF F, C
  <2> QED BY <2>1, <2>4
<1>0. FullChunks(n) + Chunk = F + C
  BY DEF FullChunks
<1> HIDE DEF F, full, C, base, o
<1>5. slice \in Bits /\ l = Len(s) - base /\ l \in Nat /\ Whole(l) /\ n + o <= l
      /\ \A i \in 1 .. l : slice[i] = s[base + i]
  <2>1. base <= Len(s)
    BY <1>2, <1>3
  <2>2. slice \in Bits /\ l = Len(s) - base /\ \A i \in 1 .. Len(s) - base : slice[i] = s[base + i]
    BY <1>3, <2>1, DropIs
  <2>3. Whole(Len(s) - base)
    BY <1>3, <2>1, WholeSum
  <2> HIDE DEF slice
  <2> QED BY <1>2, <1>3, <2>1, <2>2, <2>3
<1> HIDE DEF slice, l
<1>6. end \in Nat /\ n + o <= end /\ end <= l /\ F <= end
  <2> DEFINE x == n + o
  <2>1. x \in Nat /\ x <= l /\ F <= x
    BY <1>3, <1>4, <1>5
  <2> HIDE DEF x
  <2>2. Up(x) \in Nat /\ x <= Up(x) /\ Up(x) <= l
    BY <1>5, <2>1, UpIs
  <2>3. end = Up(x)
    BY DEF x
  <2> HIDE DEF end
  <2>4. end \in Nat /\ x <= end /\ end <= l /\ F <= end
    BY <1>4, <2>1, <2>2, <2>3
  <2> QED BY <2>4 DEF x
<1> HIDE DEF end
<1>7. /\ remainder \in Bits /\ L \in Nat /\ n + o <= F + L /\ F + L <= l
      /\ \A i \in 1 .. L : remainder[i] = slice[F + i]
  <2>1. CASE full = 0
    <3>1. F = 0 /\ remainder = slice /\ L = l
      <4>1. 0 * C = 0
        BY <1>2
      <4> QED BY <2>1, <4>1 DEF F, l
    <3>2. \A i \in 1 .. L : F + i = i
      BY <1>5, <3>1
    <3> HIDE DEF remainder, L
    <3> QED BY <1>5, <3>1, <3>2
  <2>2. CASE full # 0
    <3> DEFINE a == F + 1
    <3>1. remainder = SubSeq(slice, a, end)
      BY <2>2
    <3>2. a \in Nat \ {0} /\ end <= Len(slice)
      BY <1>4, <1>6 DEF l
    <3> HIDE DEF a
    <3>3. /\ SubSeq(slice, a, end) \in Bits
          /\ Len(SubSeq(slice, a, end)) = (IF a <= end THEN end - a + 1 ELSE 0)
          /\ \A i \in 1 .. end - a + 1 : SubSeq(slice, a, end)[i] = slice[a + i - 1]
      BY <1>5, <1>6, <3>2, SubSeqIs
    <3> HIDE DEF remainder
    <3>4. /\ remainder \in Bits /\ L = (IF a <= end THEN end - a + 1 ELSE 0)
          /\ \A i \in 1 .. end - a + 1 : remainder[i] = slice[a + i - 1]
      BY <3>1, <3>3
    <3> HIDE DEF L
    <3>5. L = end - F /\ \A i \in 1 .. L : i \in 1 .. end - a + 1 /\ a + i - 1 = F + i
      BY <1>4, <1>6, <3>4 DEF a
    <3>6. L \in Nat /\ n + o <= F + L /\ F + L <= l
      BY <1>4, <1>6, <3>5
    <3> QED BY <3>4, <3>5, <3>6
  <2> QED BY <2>1, <2>2
<1> HIDE DEF remainder, L
<1>8. /\ lastChunk \in Bits /\ Len(lastChunk) = C
      /\ \A i \in 1 .. o : lastChunk[i] = slice[F + i]
  <2> DEFINE x == LeastOf(W, L)
             t == Take(remainder, W)
  <2>1. x \in Nat /\ o <= x /\ o <= L /\ o <= C
    BY <1>2, <1>3, <1>4, <1>7 DEF LeastOf
  <2>2. t \in Bits /\ Len(t) = x /\ \A i \in 1 .. x : t[i] = remainder[i]
    BY <1>2, <1>7, TakeIs DEF L
  <2> HIDE DEF x, t
  <2>3. /\ Padded(t, C) \in Bits /\ Len(Padded(t, C)) = C
        /\ \A i \in 1 .. C : Padded(t, C)[i] = IF i <= x THEN t[i] ELSE FALSE
    BY <1>2, <2>2, PaddedIs
  <2>4. ASSUME NEW i \in 1 .. o PROVE Padded(t, C)[i] = slice[F + i]
    <3>1. i \in 1 .. C /\ i <= x /\ i \in 1 .. x /\ i \in 1 .. L
      BY <1>2, <1>3, <1>7, <2>1
    <3> QED BY <1>7, <2>2, <2>3, <3>1
  <2> QED BY <2>3, <2>4 DEF t
<1> HIDE DEF lastChunk
<1>9. ASSUME NEW k \in 0 .. full - 1
      PROVE  chunk(k) \in Bits /\ Len(chunk(k)) = C /\ \A i \in 1 .. C : chunk(k)[i] = slice[k * C + i]
  <2> DEFINE x == k * C
  <2>1. x \in Nat /\ x + C <= F
    BY <1>4
  <2> HIDE DEF x
  <2>2. x + C <= l
    BY <1>2, <1>4, <1>5, <1>7, <2>1
  <2>3. Region(slice, x, C) \in Bits /\ Len(Region(slice, x, C)) = C
        /\ \A i \in 1 .. C : Region(slice, x, C)[i] = slice[x + i]
    BY <1>2, <1>5, <2>1, <2>2, RegionIs DEF l
  <2> QED BY <2>3 DEF x
<1> HIDE DEF chunk
<1>10. ASSUME NEW k \in 0 .. full - 1
       PROVE  merged(k) \in Bits /\ Len(merged(k)) = C /\ \A i \in 1 .. C : merged(k)[i] = slice[k * C + o + i]
  <2> DEFINE x == k * C
  <2>1. /\ x \in Nat /\ (k + 1) * C = x + C
        /\ (k + 1 < full => k + 1 \in 0 .. full - 1) /\ (~ (k + 1 < full) => k + 1 = full)
        /\ (k + 1 = full => x + C = F)
    BY <1>4
  <2>2. chunk(k) \in Bits /\ Len(chunk(k)) = C /\ \A i \in 1 .. C : chunk(k)[i] = slice[x + i]
    BY <1>9
  <2>3. next(k) \in Bits /\ Len(next(k)) = C /\ \A i \in 1 .. o : next(k)[i] = slice[x + C + i]
    <3>1. CASE k + 1 < full
      <4>1. next(k) = chunk(k + 1) /\ k + 1 \in 0 .. full - 1
        BY <2>1, <3>1
      <4>2. /\ chunk(k + 1) \in Bits /\ Len(chunk(k + 1)) = C
            /\ \A i \in 1 .. C : chunk(k + 1)[i] = slice[(k + 1) * C + i]
        BY <1>9, <4>1
      <4>3. \A i \in 1 .. o : i \in 1 .. C
        BY <1>2, <1>3
      <4> QED BY <2>1, <4>1, <4>2, <4>3
    <3>2. CASE ~ (k + 1 < full)
      <4>1. next(k) = lastChunk /\ x + C = F
        BY <2>1, <3>2
      <4> QED BY <1>8, <4>1
    <3> QED BY <3>1, <3>2
  <2> HIDE DEF next
  <2>4. CASE o = 0
    <3>1. merged(k) = chunk(k)
      BY <2>4
    <3> HIDE DEF merged, x
    <3>2. \A i \in 1 .. C : x + o + i = x + i
      BY <2>1, <2>4
    <3>3. \A i \in 1 .. C : merged(k)[i] = slice[x + o + i]
      BY <2>2, <3>1, <3>2
    <3> QED BY <2>2, <3>1, <3>3 DEF x
  <2>5. CASE o # 0
    <3> DEFINE r == MergeReversed(chunk(k), next(k), o)
    <3>1. merged(k) = r
      BY <2>5
    <3>2. /\ r \in Bits /\ Len(r) = C
          /\ \A i \in 1 .. C - o : r[i] = chunk(k)[o + i]
          /\ \A i \in 1 .. o : r[C - o + i] = next(k)[i]
      BY <1>3, <2>2, <2>3, MergedIs DEF C
    <3> HIDE DEF r, merged, x
    <3>3. ASSUME NEW i \in 1 .. C PROVE r[i] = slice[x + o + i]
      <4>1. CASE i <= C - o
        <5>1. i \in 1 .. C - o /\ o + i \in 1 .. C /\ x + (o + i) = x + o + i
          BY <1>2, <1>3, <2>1, <4>1
        <5> QED BY <2>2, <3>2, <5>1
      <4>2. CASE C - o < i
        <5> DEFINE j == i - (C - o)
        <5>1. j \in 1 .. o /\ C - o + j = i /\ x + C + j = x + o + i
          BY <1>2, <1>3, <2>1, <4>2
        <5> HIDE DEF j
        <5>2. r[C - o + j] = next(k)[j] /\ next(k)[j] = slice[x + C + j]
          BY <2>3, <3>2, <5>1
        <5> QED BY <5>1, <5>2
      <4>3. i \in Int /\ C - o \in Int
        BY <1>2, <1>3
      <4> QED BY <4>1, <4>2, <4>3
    <3> QED BY <3>1, <3>2, <3>3 DEF x
  <2> QED BY <2>4, <2>5
<1> HIDE DEF merged
<1>11. body \in Bits /\ Len(body) = F /\ \A i \in 1 .. F : body[i] = slice[o + i]
  <2>1. ASSUME NEW i \in 1 .. F
        PROVE  body[i] \in BOOLEAN /\ body[i] = slice[o + i]
    <3> DEFINE k == (i - 1) \div C
               y == (i - 1) % C
    <3>1. i - 1 \in Nat
      BY <1>4
    <3>2. k \in Nat /\ y \in 0 .. C - 1 /\ i - 1 = C * k + y
      BY <1>2, <3>1, DivMod
    <3>3. body[i] = merged(k)[y + 1]
      OBVIOUS
    <3> HIDE DEF k, y
    <3>4. k * C \in Nat /\ i = k * C + y + 1
      <4>1. C * k = k * C
        BY <1>2, <3>2
      <4>2. k * C \in Nat
        BY <3>2, ChunkTimes DEF C
      <4> DEFINE z == k * C
      <4> HIDE DEF z
      <4>3. i - 1 = z + y /\ z \in Nat
        BY <3>2, <4>1, <4>2 DEF z
      <4>4. i = z + y + 1
        BY <1>2, <3>2, <4>3
      <4> QED BY <4>3, <4>4 DEF z
    <3>5. k \in 0 .. full - 1
      <4> SUFFICES ASSUME full <= k PROVE FALSE
        BY <1>4, <3>2
      <4>1. full * C <= k * C
        BY <1>4, <3>2, ChunkTimes DEF C
      <4> DEFINE z == k * C
      <4>2. F <= z /\ z \in Nat /\ i = z + y + 1
        BY <3>4, <4>1 DEF F
      <4> HIDE DEF z
      <4> QED BY <1>2, <1>4, <3>2, <4>2
    <3>6. y + 1 \in 1 .. C /\ merged(k) \in Bits /\ Len(merged(k)) = C
          /\ merged(k)[y + 1] = slice[k * C + o + (y + 1)]
      <4>1. y + 1 \in 1 .. C
        BY <1>2, <3>2
      <4> QED BY <1>10, <3>5, <4>1
    <3>7. k * C + o + (y + 1) = o + i
      <4> DEFINE z == k * C
      <4>1. z \in Nat /\ i = z + y + 1
        BY <3>4
      <4> HIDE DEF z
      <4>2. z + o + (y + 1) = o + i
        BY <1>2, <1>3, <3>2, <4>1
      <4> QED BY <4>2 DEF z
    <3>8. merged(k)[y + 1] \in BOOLEAN
      BY <3>6, BitsAt
    <3> HIDE DEF body
    <3> QED BY <3>3, <3>6, <3>7, <3>8
  <2>2. body = [i \in 1 .. F |-> body[i]]
    OBVIOUS
  <2> HIDE DEF body
  <2>3. body \in Seq(BOOLEAN) /\ Len(body) = F
    BY <1>4, <2>1, <2>2
  <2> QED BY <2>1, <2>3 DEF Bits
<1> HIDE DEF body
<1>12. /\ tail \in Bits /\ Len(tail) = C
       /\ \A i \in 1 .. n - F : tail[i] = slice[F + o + i]
  <2> DEFINE d == Drop(remainder, o)
  <2>1. LeastOf(o, L) = o /\ o <= L /\ o \in Nat
    BY <1>3, <1>4, <1>7 DEF LeastOf
  <2>2. tail = Padded(d, C)
    BY <2>1 DEF L
  <2>3. d \in Bits /\ Len(d) = L - o /\ \A i \in 1 .. L - o : d[i] = remainder[o + i]
    BY <1>7, <2>1, DropIs DEF L
  <2> HIDE DEF d
  <2>4. /\ Padded(d, C) \in Bits /\ Len(Padded(d, C)) = C
        /\ \A i \in 1 .. C : Padded(d, C)[i] = IF i <= Len(d) THEN d[i] ELSE FALSE
    BY <1>2, <2>3, PaddedIs
  <2> HIDE DEF tail
  <2>5. ASSUME NEW i \in 1 .. n - F PROVE tail[i] = slice[F + o + i]
    <3>1. /\ i \in 1 .. C /\ i <= L - o /\ i \in 1 .. L - o /\ o + i \in 1 .. L
          /\ F + (o + i) = F + o + i
      BY <1>2, <1>3, <1>4, <1>7
    <3>2. d[i] = remainder[o + i] /\ remainder[o + i] = slice[F + (o + i)]
      BY <1>7, <2>3, <3>1
    <3>3. Padded(d, C)[i] = d[i]
      BY <2>3, <2>4, <3>1
    <3> QED BY <2>2, <3>1, <3>2, <3>3
  <2> QED BY <2>2, <2>4, <2>5
<1> HIDE DEF tail
<1> DEFINE r == body \o tail
<1>13. /\ r \in Bits /\ Len(r) = Len(body) + Len(tail) /\ \A i \in 1 .. Len(body) : r[i] = body[i]
       /\ \A i \in 1 .. Len(tail) : r[Len(body) + i] = tail[i]
  BY <1>11, <1>12, ConcatIs
<1> HIDE DEF r
<1>14. Len(r) = F + C
  BY <1>11, <1>12, <1>13
<1>15. ASSUME NEW i \in 1 .. n PROVE r[0 + i] = s[offset + i]
  <2>1. 0 + i = i /\ o + i \in 1 .. l /\ base + (o + i) = offset + i
    BY <1>3, <1>5
  <2>2. r[i] = slice[o + i]
    <3>1. CASE i <= F
      <4>1. i \in 1 .. F
        BY <1>4, <3>1
      <4> QED BY <1>11, <1>13, <4>1
    <3>2. CASE F < i
      <4> DEFINE j == i - F
      <4>1. j \in 1 .. n - F /\ j \in 1 .. C /\ F + j = i /\ F + o + j = o + i
        BY <1>2, <1>3, <1>4, <3>2
      <4> HIDE DEF j
      <4>2. r[F + j] = tail[j] /\ tail[j] = slice[F + o + j]
        BY <1>11, <1>12, <1>13, <4>1
      <4> QED BY <4>1, <4>2
    <3> QED BY <1>4, <3>1, <3>2
  <2> QED BY <1>5, <2>1, <2>2
<1> QED BY <1>0, <1>1, <1>13, <1>14, <1>15 DEF GoesOn, r

LEMMA BitChunksExactIs ==
  ASSUME NEW s \in Bits, Whole(Len(s)), NEW n \in Nat, n <= Len(s)
  PROVE  LET r == BitChunksExact(s, n)
         IN  r \in Bits /\ Len(r) = FullChunks(n) + Chunk /\ GoesOn(r, 0, n, s, 0)
<1> DEFINE C == Chunk
           F == FullChunks(n)
           end == Up(n)
           bytes == Take(s, end)
           head == Take(bytes, F)
           rest == Drop(bytes, F)
           tail == Padded(rest, C)
           r == head \o tail
<1>1. BitChunksExact(s, n) = r
  BY DEF BitChunksExact, FullChunks, Up
<1>2. C \in Nat \ {0} /\ Len(s) \in Nat /\ F \in Nat /\ F <= n /\ n < F + C
  BY ChunkWidth, BitsAt, FullChunksAre
<1>3. end \in Nat /\ n <= end /\ end <= Len(s)
  BY UpIs
<1> HIDE DEF C, F, end
<1>4. LeastOf(end, Len(s)) = end /\ LeastOf(F, end) = F
  BY <1>2, <1>3 DEF LeastOf
<1>5. bytes \in Bits /\ Len(bytes) = end /\ \A i \in 1 .. end : bytes[i] = s[i]
  <2>1. /\ bytes \in Bits /\ Len(bytes) = LeastOf(end, Len(s))
        /\ \A i \in 1 .. LeastOf(end, Len(s)) : bytes[i] = s[i]
    BY <1>3, TakeIs
  <2> QED BY <1>4, <2>1
<1> HIDE DEF bytes
<1>6. head \in Bits /\ Len(head) = F /\ \A i \in 1 .. F : head[i] = bytes[i]
  <2>1. /\ head \in Bits /\ Len(head) = LeastOf(F, Len(bytes))
        /\ \A i \in 1 .. LeastOf(F, Len(bytes)) : head[i] = bytes[i]
    BY <1>2, <1>5, TakeIs
  <2> QED BY <1>4, <1>5, <2>1
<1>7. rest \in Bits /\ Len(rest) = end - F /\ \A i \in 1 .. end - F : rest[i] = bytes[F + i]
  <2>1. F <= Len(bytes)
    BY <1>2, <1>3, <1>5
  <2> QED BY <1>2, <1>5, <2>1, DropIs
<1> HIDE DEF head, rest
<1>8. /\ tail \in Bits /\ Len(tail) = C
      /\ \A i \in 1 .. C : tail[i] = IF i <= Len(rest) THEN rest[i] ELSE FALSE
  BY <1>2, <1>7, PaddedIs
<1> HIDE DEF tail
<1>9. /\ r \in Bits /\ Len(r) = Len(head) + Len(tail) /\ \A i \in 1 .. Len(head) : r[i] = head[i]
      /\ \A i \in 1 .. Len(tail) : r[Len(head) + i] = tail[i]
  BY <1>6, <1>8, ConcatIs
<1> HIDE DEF r
<1>10. Len(r) = F + C
  BY <1>6, <1>8, <1>9
<1>11. ASSUME NEW i \in 1 .. n PROVE r[0 + i] = s[0 + i]
  <2>1. 0 + i = i /\ i \in 1 .. end
    BY <1>3
  <2>2. CASE i <= F
    <3>1. i \in 1 .. F
      BY <1>2, <2>2
    <3> QED BY <1>5, <1>6, <1>9, <2>1, <3>1
  <2>3. CASE F < i
    <3> DEFINE j == i - F
    <3>1. j \in 1 .. C /\ j \in 1 .. end - F /\ j <= end - F /\ F + j = i
      BY <1>2, <1>3, <2>3
    <3> HIDE DEF j
    <3>2. r[F + j] = tail[j] /\ tail[j] = rest[j] /\ rest[j] = bytes[F + j]
      BY <1>6, <1>7, <1>8, <1>9, <3>1
    <3> QED BY <1>5, <2>1, <3>1, <3>2
  <2> QED BY <1>2, <2>2, <2>3
<1> QED BY <1>1, <1>9, <1>10, <1>11 DEF GoesOn, r, F, C

LEMMA ChunksIs ==
  ASSUME NEW s \in Bits, Whole(Len(s)), NEW offset \in Nat, NEW n \in Nat, offset + n <= Len(s)
  PROVE  LET r == Chunks(s, offset, n)
         IN  r \in Bits /\ Len(r) = FullChunks(n) + Chunk /\ GoesOn(r, 0, n, s, offset)
<1>1. CASE offset % W # 0
  BY <1>1, BitChunksIs DEF Chunks
<1>2. CASE offset % W = 0
  <2> DEFINE d == Drop(s, offset)
             r == BitChunksExact(d, n)
             l == Len(s)
  <2>1. Chunks(s, offset, n) = r
    BY <1>2 DEF Chunks
  <2>2. l \in Nat /\ offset <= l /\ n <= l - offset
    BY BitsAt
  <2>3. d \in Bits /\ Len(d) = l - offset /\ \A i \in 1 .. l - offset : d[i] = s[offset + i]
    BY <2>2, DropIs
  <2>4. Whole(l - offset)
    <3>1. Whole(offset) /\ Whole(l)
      BY <1>2, WholeMod
    <3> HIDE DEF l
    <3> QED BY <2>2, <3>1, WholeSum
  <2> HIDE DEF d, l
  <2>5. r \in Bits /\ Len(r) = FullChunks(n) + Chunk /\ GoesOn(r, 0, n, d, 0)
    BY <2>2, <2>3, <2>4, BitChunksExactIs
  <2> HIDE DEF r
  <2>6. ASSUME NEW i \in 1 .. n PROVE r[0 + i] = s[offset + i]
    <3>1. i \in 1 .. l - offset /\ 0 + i = i
      BY <2>2
    <3> QED BY <2>3, <2>5, <3>1 DEF GoesOn
  <2> QED BY <2>1, <2>5, <2>6 DEF GoesOn
<1> QED BY <1>1, <1>2
-----------------------------------------------------------------------------
(* Bitmap: a window into the bytes of a region, with its unset bits counted. *)

GoodMemory(mem) ==
  /\ mem \in [Regions -> [bytes : Bits, foreign : BOOLEAN]]
  /\ \A r \in Regions : Whole(Len(mem[r].bytes))

GoodBitmap(h, mem) ==
  /\ h \in [kind : {"bitmap"}, region : Regions, offset : Nat, length : Nat, unset : Nat]
  /\ h.offset + h.length <= Len(mem[h.region].bytes)
  /\ h.unset = Number(Zeros(mem[h.region].bytes), h.offset + 1, h.offset + h.length)

LEMMA BitmapIs ==
  ASSUME GoodMemory(memory), NEW b, GoodBitmap(b, memory)
  PROVE  /\ BytesOf(b) \in Bits /\ Whole(Len(BytesOf(b))) /\ Len(BytesOf(b)) \in Nat
         /\ b.offset \in Nat /\ b.length \in Nat /\ b.unset \in Nat /\ b.region \in Regions
         /\ b.offset + b.length <= Len(BytesOf(b))
         /\ b.unset = Number(Zeros(BytesOf(b)), b.offset + 1, b.offset + b.length)
<1>1. /\ b.region \in Regions /\ b.offset \in Nat /\ b.length \in Nat /\ b.unset \in Nat
      /\ b.offset + b.length <= Len(BytesOf(b))
      /\ b.unset = Number(Zeros(BytesOf(b)), b.offset + 1, b.offset + b.length)
  BY DEF GoodBitmap, BytesOf
<1>2. BytesOf(b) \in Bits /\ Whole(Len(BytesOf(b)))
  BY <1>1 DEF GoodMemory, BytesOf
<1> QED BY <1>1, <1>2, BitsAt

\* A place is among those none of which are in a set that counts no place of them.
LEMMA NoneCounted ==
  ASSUME NEW P, NEW a \in Nat, NEW n \in Nat, Number(P, a + 1, a + n) = 0, NEW i \in 1 .. n
  PROVE  a + i \notin P
<1> DEFINE x == a + 1
           y == a + n
           S == (x .. y) \cap P
<1>1. x \in Int /\ y \in Int /\ a + i \in x .. y
  OBVIOUS
<1> HIDE DEF x, y
<1>2. IsFiniteSet(S) /\ Cardinality(S) = 0
  BY <1>1, PlacesAreFinite DEF Number, x, y
<1>3. S = {}
  <2> HIDE DEF S
  <2> QED BY <1>2, FS_EmptySet
<1> QED BY <1>1, <1>3

\* The count tells a bitmap without unset bits, and one with no other.
LEMMA CountTells ==
  ASSUME GoodMemory(memory), NEW b, GoodBitmap(b, memory), NEW i \in 1 .. b.length
  PROVE  /\ AllSet(b) => BytesOf(b)[b.offset + i] = TRUE
         /\ AllUnset(b) => BytesOf(b)[b.offset + i] = FALSE
<1> DEFINE s == BytesOf(b)
           a == b.offset
           n == b.length
<1>1. s \in Bits /\ Len(s) \in Nat /\ a \in Nat /\ n \in Nat /\ a + n <= Len(s)
      /\ b.unset = Number(Zeros(s), a + 1, a + n)
  BY BitmapIs
<1>2. i \in 1 .. n
  OBVIOUS
<1> HIDE DEF s, a, n
<1>3. a + i \in 1 .. Len(s) /\ s[a + i] \in BOOLEAN
  <2>1. a + i \in 1 .. Len(s)
    BY <1>1, <1>2
  <2> QED BY <1>1, <2>1, BitsAt
<1>4. ASSUME AllSet(b) PROVE s[a + i] = TRUE
  <2>1. a + i \notin Zeros(s)
    BY <1>1, <1>2, <1>4, NoneCounted DEF AllSet
  <2> QED BY <1>3, <2>1 DEF Zeros
<1>5. ASSUME AllUnset(b) PROVE s[a + i] = FALSE
  <2> DEFINE x == a + 1
             y == a + n
  <2>1. x \in Nat \ {0} /\ y \in Nat /\ x - 1 <= y /\ y <= Len(s) /\ y - x + 1 = n
    BY <1>1
  <2> HIDE DEF x, y
  <2>2. Number(Ones(s), x, y) + Number(Zeros(s), x, y) = n
    BY <1>1, <2>1, NumberBoth
  <2>3. Number(Ones(s), x, y) \in Nat /\ Number(Zeros(s), x, y) = n
    <3>1. x \in Int /\ y \in Int
      BY <2>1
    <3> QED BY <1>1, <1>5, <3>1, NumberType DEF AllUnset, x, y, n
  <2>4. Number(Ones(s), x, y) = 0
    BY <1>1, <2>2, <2>3
  <2>5. a + i \notin Ones(s)
    BY <1>1, <1>2, <2>4, NoneCounted DEF x, y
  <2> QED BY <1>3, <2>5 DEF Ones
<1> QED BY <1>4, <1>5 DEF s, a, n

\* A window moved in: its bits are counted, or those on both sides of it.
LEMMA SlicedIs ==
  ASSUME GoodMemory(memory), NEW b, GoodBitmap(b, memory),
         NEW offset \in Nat, NEW n \in Nat, offset + n <= b.length
  PROVE  LET w == Sliced(b, offset, n)
         IN  /\ GoodBitmap(w, memory) /\ w.region = b.region
             /\ w.offset = b.offset + offset /\ w.length = n
<1> DEFINE s == BytesOf(b)
           a == b.offset
           l == b.length
           x == a + offset
           end == a + offset + n
           z == l - n - offset
           head == CountZeros(s, a, offset)
           tail == CountZeros(s, end, z)
           unset == IF n < l \div 2 THEN CountZeros(s, x, n) ELSE b.unset - (head + tail)
           w == Sliced(b, offset, n)
           zeros(i, j) == Number(Zeros(s), i, j)
<1>1. /\ s \in Bits /\ Whole(Len(s)) /\ Len(s) \in Nat /\ a \in Nat /\ l \in Nat /\ b.unset \in Nat
      /\ a + l <= Len(s) /\ b.unset = zeros(a + 1, a + l) /\ b.region \in Regions
  BY BitmapIs
<1>2. /\ w = [b EXCEPT !.offset = x, !.length = n, !.unset = unset]
      /\ b \in [kind : {"bitmap"}, region : Regions, offset : Nat, length : Nat, unset : Nat]
  BY DEF Sliced, GoodBitmap
<1>3. offset + n <= l
  OBVIOUS
<1> HIDE DEF s, a, l, w
<1>4. /\ x \in Nat /\ end \in Nat /\ z \in Nat /\ a + offset <= Len(s) /\ x + n <= Len(s)
      /\ end + z <= Len(s) /\ end + z = a + l /\ x + n = end
  BY <1>1, <1>3
<1>5. CountZeros(s, x, n) = zeros(x + 1, x + n)
  <2> HIDE DEF x
  <2> QED BY <1>1, <1>4, CountZerosIs
<1>6. head = zeros(a + 1, x)
  BY <1>1, <1>4, CountZerosIs
<1>7. tail = zeros(end + 1, a + l)
  <2> HIDE DEF end, z
  <2>1. tail = zeros(end + 1, end + z)
    BY <1>1, <1>4, CountZerosIs
  <2> QED BY <1>4, <2>1
<1>8. unset = zeros(x + 1, x + n)
  <2>1. CASE n < l \div 2
    BY <1>5, <2>1
  <2>2. CASE ~ (n < l \div 2)
    <3> DEFINE first == a + 1
               last == a + l
    <3>1. /\ first \in Int /\ last \in Int /\ x \in Int /\ end \in Int /\ x + 1 \in Int /\ end + 1 \in Int
          /\ first - 1 <= x /\ x <= last /\ x + 1 - 1 <= end /\ end <= last
      BY <1>1, <1>3, <1>4
    <3>2. unset = b.unset - (head + tail)
      BY <2>2
    <3>3. b.unset = zeros(first, last) /\ head = zeros(first, x) /\ tail = zeros(end + 1, last)
      BY <1>1, <1>6, <1>7
    <3> HIDE DEF first, last, x, end, head, tail, unset
    <3>4. zeros(first, last) = zeros(first, x) + zeros(x + 1, last)
      BY <3>1, NumberAdds
    <3>5. zeros(x + 1, last) = zeros(x + 1, end) + zeros(end + 1, last)
      BY <3>1, NumberAdds
    <3>6. zeros(first, x) \in Nat /\ zeros(x + 1, end) \in Nat /\ zeros(end + 1, last) \in Nat
      BY <3>1, NumberType
    <3> DEFINE p == zeros(first, x)
               q == zeros(x + 1, end)
               r == zeros(end + 1, last)
    <3>7. b.unset = p + (q + r) /\ head = p /\ tail = r /\ p \in Nat /\ q \in Nat /\ r \in Nat
      BY <3>3, <3>4, <3>5, <3>6
    <3> HIDE DEF p, q, r
    <3>8. unset = q
      BY <3>2, <3>7
    <3>9. x + n = end
      BY <1>4
    <3> QED BY <3>8, <3>9 DEF q
  <2> QED BY <2>1, <2>2
<1>9. unset \in Nat
  <2>1. x + 1 \in Int /\ x + n \in Int
    BY <1>4
  <2> HIDE DEF unset, x
  <2> QED BY <1>8, <2>1, NumberType
<1> HIDE DEF x, unset
<1>10. /\ w \in [kind : {"bitmap"}, region : Regions, offset : Nat, length : Nat, unset : Nat]
       /\ w.region = b.region /\ w.offset = x /\ w.length = n /\ w.unset = unset
  BY <1>2, <1>4, <1>9
<1>11. GoodBitmap(w, memory)
  BY <1>4, <1>8, <1>10 DEF GoodBitmap, s, BytesOf
<1> QED BY <1>10, <1>11 DEF w, x, a
-----------------------------------------------------------------------------
(* The operations on whole bitmaps.                                         *)

\* An operation's bits: enough of them, the i-th that of the operands' i-th.
Result(bytes, n) == bytes \in Bits /\ Whole(Len(bytes)) /\ n <= Len(bytes)

LEMMA EmptyIs ==
  GoodMutable(Mutable(<< >>, 0)) /\ Mutable(<< >>, 0).length = 0 /\ Exact(Mutable(<< >>, 0))
<1> DEFINE m == Mutable(<< >>, 0)
<1>1. << >> \in Bits /\ Len(<< >>) = 0 /\ Whole(0)
  BY WholeOne DEF Bits
<1>2. GoodMutable(m) /\ m.length = 0 /\ m.bytes = << >>
  BY <1>1, MutableIs
<1>3. W * BytesFor(0) = 0
  <2>1. 0 % W = 0
    BY WholeOne, WholeMod
  <2>2. Up(0) = 0
    BY <2>1, UpIs
  <2> QED BY <2>2 DEF Up
<1> QED BY <1>1, <1>2, <1>3 DEF Exact

\* Zeros, or ones, for n bits.
LEMMA ConstantsAre ==
  ASSUME NEW n \in Nat
  PROVE  /\ Result(Zeroed(n), n) /\ \A i \in 1 .. n : Zeroed(n)[i] = FALSE
         /\ Result(AllOnes(n), n) /\ \A i \in 1 .. n : AllOnes(n)[i] = TRUE
<1> DEFINE f == Fill(Up(n), FALSE)
           m == Mutable(<< >>, 0)
           v == TRUE
           p == ExtendedConstant(m, n, v)
<1>1. Up(n) \in Nat /\ Whole(Up(n)) /\ n <= Up(n)
  BY UpIs
<1>2. f \in Bits /\ Len(f) = Up(n) /\ \A i \in 1 .. Up(n) : f[i] = FALSE
  BY <1>1, FillIs
<1>3. Zeroed(n) = f
  BY DEF Zeroed, Up
<1> HIDE DEF f
<1>4. Result(f, n) /\ \A i \in 1 .. n : f[i] = FALSE
  <2>1. \A i \in 1 .. n : i \in 1 .. Up(n)
    BY <1>1
  <2> QED BY <1>1, <1>2, <2>1 DEF Result
<1>5. GoodMutable(m) /\ m.length = 0 /\ Exact(m)
  BY EmptyIs
<1>6. AllOnes(n) = p.bytes
  BY DEF AllOnes
<1>7. v \in BOOLEAN
  OBVIOUS
<1> HIDE DEF m, v
<1>8. GoodMutable(p) /\ p.length = m.length + n /\ \A i \in 1 .. n : p.bytes[m.length + i] = v
  BY <1>5, <1>7, ExtendedConstantIs
<1> HIDE DEF p
<1>9. Result(p.bytes, n) /\ \A i \in 1 .. n : p.bytes[i] = v
  <2>1. p.length = n /\ \A i \in 1 .. n : m.length + i = i
    BY <1>5, <1>8
  <2> QED BY <1>8, <2>1 DEF GoodMutable, Result
<1> QED BY <1>3, <1>4, <1>6, <1>9 DEF v

LEMMA ChunksFit ==
  ASSUME NEW n \in Nat
  PROVE  LET k == FullChunks(n) + Chunk IN k \in Nat /\ Whole(k) /\ n <= k /\ Up(n) <= k
<1>1. /\ FullChunks(n) \in Nat /\ n < FullChunks(n) + Chunk
      /\ Whole(FullChunks(n) + Chunk) /\ Up(n) <= FullChunks(n) + Chunk
  BY FullChunksAre
<1>2. Chunk \in Nat
  BY ChunkWidth
<1>3. FullChunks(n) + Chunk \in Nat /\ n <= FullChunks(n) + Chunk
  BY <1>1, <1>2
<1> QED BY <1>1, <1>3

LEMMA NegatedIs ==
  ASSUME GoodMemory(memory), NEW b, GoodBitmap(b, memory)
  PROVE  LET r == Negated(Chunks(BytesOf(b), b.offset, b.length))
         IN  Result(r, b.length) /\ \A i \in 1 .. b.length : r[i] = ~BytesOf(b)[b.offset + i]
<1> DEFINE s == BytesOf(b)
           a == b.offset
           n == b.length
           c == Chunks(s, a, n)
           r == Negated(c)
           k == FullChunks(n) + Chunk
<1>1. s \in Bits /\ Whole(Len(s)) /\ Len(s) \in Nat /\ a \in Nat /\ n \in Nat /\ a + n <= Len(s)
  BY BitmapIs
<1> HIDE DEF s, a, n
<1>2. c \in Bits /\ Len(c) = k /\ GoesOn(c, 0, n, s, a)
  BY <1>1, ChunksIs
<1>3. k \in Nat /\ Whole(k) /\ n <= k
  BY <1>1, ChunksFit
<1> HIDE DEF c, k
<1>4. c \in [1 .. k -> BOOLEAN]
  BY <1>2 DEF Bits
<1>5. r \in Bits /\ Len(r) = k /\ \A i \in 1 .. k : r[i] = ~c[i]
  BY <1>3, <1>4 DEF Negated, Bits
<1> HIDE DEF r
<1>6. ASSUME NEW i \in 1 .. n PROVE r[i] = ~s[a + i]
  <2>1. 0 + i = i /\ i \in 1 .. k
    BY <1>1, <1>3
  <2>2. c[i] = s[a + i]
    BY <1>2, <2>1 DEF GoesOn
  <2>3. r[i] = ~c[i]
    BY <1>5, <2>1
  <2> QED BY <2>2, <2>3
<1> QED BY <1>3, <1>5, <1>6 DEF Result, r, c, s, a, n

\* The chunks of two sequences combined.
LEMMA AppliedIs ==
  ASSUME NEW k \in Nat, NEW l \in [1 .. k -> BOOLEAN], NEW r \in [1 .. k -> BOOLEAN], NEW op \in Ops
  PROVE  LET c == [i \in DOMAIN l |-> Apply(op, l[i], r[i])]
         IN  c \in Bits /\ Len(c) = k /\ \A i \in 1 .. k : c[i] = Apply(op, l[i], r[i])
<1> DEFINE c == [i \in 1 .. k |-> Apply(op, l[i], r[i])]
<1>1. \A i \in 1 .. k : Apply(op, l[i], r[i]) \in BOOLEAN
  BY DEF Apply, Ops
<1>2. c \in [1 .. k -> BOOLEAN]
  BY <1>1
<1>3. c \in Bits /\ Len(c) = k
  <2> HIDE DEF c
  <2> QED BY <1>2 DEF Bits
<1>4. DOMAIN l = 1 .. k
  OBVIOUS
<1> QED BY <1>3, <1>4

\* Two bitmaps combined, constant ones told by their counts.
LEMMA CombinedIs ==
  ASSUME GoodMemory(memory), NEW b, GoodBitmap(b, memory), NEW c, GoodBitmap(c, memory),
         b.length = c.length, NEW op \in Ops
  PROVE  LET r == Combined(op, b, c)
         IN  /\ Result(r, b.length)
             /\ \A i \in 1 .. b.length :
                  r[i] = Apply(op, BytesOf(b)[b.offset + i], BytesOf(c)[c.offset + i])
<1> DEFINE n == b.length
           x(i) == BytesOf(b)[b.offset + i]
           y(i) == BytesOf(c)[c.offset + i]
           l == BitChunks(BytesOf(b), b.offset, n)
           r == BitChunks(BytesOf(c), c.offset, n)
           k == FullChunks(n) + Chunk
           same == [i \in DOMAIN l |-> Apply(op, l[i], r[i])]
           is(s) == Result(s, n) /\ \A i \in 1 .. n : s[i] = Apply(op, x(i), y(i))
<1>1. /\ n \in Nat /\ BytesOf(b) \in Bits /\ Whole(Len(BytesOf(b))) /\ b.offset \in Nat
      /\ b.offset + n <= Len(BytesOf(b))
      /\ BytesOf(c) \in Bits /\ Whole(Len(BytesOf(c))) /\ c.offset \in Nat
      /\ c.offset + n <= Len(BytesOf(c))
  BY BitmapIs
<1>2. \A i \in 1 .. n : x(i) \in BOOLEAN /\ y(i) \in BOOLEAN
  <2> TAKE i \in 1 .. n
  <2>1. b.offset + i \in 1 .. Len(BytesOf(b)) /\ c.offset + i \in 1 .. Len(BytesOf(c))
    <3>1. Len(BytesOf(b)) \in Nat /\ Len(BytesOf(c)) \in Nat
      BY <1>1, BitsAt
    <3> HIDE DEF n
    <3>2. b.offset + i \in 1 .. Len(BytesOf(b))
      BY <1>1, <3>1
    <3>3. c.offset + i \in 1 .. Len(BytesOf(c))
      BY <1>1, <3>1
    <3> QED BY <3>2, <3>3
  <2> QED BY <1>1, <2>1, BitsAt
<1>3. ASSUME NEW i \in 1 .. n
      PROVE  /\ AllSet(b) => x(i) = TRUE
             /\ AllUnset(b) => x(i) = FALSE
             /\ AllSet(c) => y(i) = TRUE
             /\ AllUnset(c) => y(i) = FALSE
  BY CountTells
<1> HIDE DEF x, y
<1>4. /\ Result(Zeroed(n), n) /\ \A i \in 1 .. n : Zeroed(n)[i] = FALSE
      /\ Result(AllOnes(n), n) /\ \A i \in 1 .. n : AllOnes(n)[i] = TRUE
  BY <1>1, ConstantsAre
<1>5. is(same)
  <2>1. l \in Bits /\ Len(l) = k /\ GoesOn(l, 0, n, BytesOf(b), b.offset)
    BY <1>1, BitChunksIs
  <2>2. r \in Bits /\ Len(r) = k /\ GoesOn(r, 0, n, BytesOf(c), c.offset)
    BY <1>1, BitChunksIs
  <2>3. k \in Nat /\ Whole(k) /\ n <= k
    BY <1>1, ChunksFit
  <2> HIDE DEF l, r, k, n
  <2>4. l \in [1 .. k -> BOOLEAN] /\ r \in [1 .. k -> BOOLEAN]
    BY <2>1, <2>2 DEF Bits
  <2>5. same \in Bits /\ Len(same) = k /\ \A i \in 1 .. k : same[i] = Apply(op, l[i], r[i])
    BY <2>3, <2>4, AppliedIs
  <2> HIDE DEF same
  <2>6. ASSUME NEW i \in 1 .. n PROVE same[i] = Apply(op, x(i), y(i))
    <3>1. i \in 1 .. k /\ 0 + i = i
      BY <1>1, <2>3
    <3>2. l[i] = x(i) /\ r[i] = y(i)
      BY <2>1, <2>2, <3>1 DEF GoesOn, x, y
    <3>3. same[i] = Apply(op, l[i], r[i])
      BY <2>5, <3>1
    <3> QED BY <3>2, <3>3, Zenon
  <2> QED BY <2>3, <2>5, <2>6 DEF Result
<1> HIDE DEF same
<1> DEFINE none == \/ op = "and" /\ (AllUnset(b) \/ AllUnset(c))
                   \/ op = "xor" /\ ((AllUnset(b) /\ AllUnset(c)) \/ (AllSet(b) /\ AllSet(c)))
           all == \/ op = "or" /\ (AllSet(b) \/ AllSet(c))
                  \/ op = "xor" /\ ((AllSet(b) /\ AllUnset(c)) \/ (AllUnset(b) /\ AllSet(c)))
           w == Combined(op, b, c)
<1>6. \/ none /\ w = Zeroed(n)
      \/ all /\ w = AllOnes(n)
      \/ w = same
  BY DEF Combined, same, Ops
<1>7. ASSUME none PROVE is(Zeroed(n))
  <2>1. ASSUME NEW i \in 1 .. n PROVE Apply(op, x(i), y(i)) = FALSE
    BY <1>2, <1>3, <1>7 DEF Apply, Ops
  <2> QED BY <1>4, <2>1
<1>8. ASSUME all PROVE is(AllOnes(n))
  <2>1. ASSUME NEW i \in 1 .. n PROVE Apply(op, x(i), y(i)) = TRUE
    BY <1>2, <1>3, <1>8 DEF Apply, Ops
  <2> QED BY <1>4, <2>1
<1>9. is(w)
  <2> HIDE DEF none, all, w, is
  <2> QED BY <1>5, <1>6, <1>7, <1>8
<1> QED BY <1>9 DEF x, y

\* What the assign operations keep in a MutableBitmap.
LEMMA AssignedIs ==
  ASSUME GoodMemory(memory), NEW m, GoodMutable(m), NEW b, GoodBitmap(b, memory),
         m.length = b.length, NEW op \in Ops
  PROVE  LET p == Assigned(op, m, b)
         IN  /\ GoodMutable(p) /\ p.length = m.length
             /\ \A i \in 1 .. m.length :
                  p.bytes[i] = Apply(op, m.bytes[i], BytesOf(b)[b.offset + i])
<1> DEFINE n == m.length
           x(i) == m.bytes[i]
           y(i) == BytesOf(b)[b.offset + i]
           r == Chunks(BytesOf(b), b.offset, b.length)
           k == FullChunks(n) + Chunk
           l == Len(m.bytes)
           same == [i \in DOMAIN m.bytes |->
                      IF i <= Up(n) THEN Apply(op, m.bytes[i], r[i]) ELSE m.bytes[i]]
           is(p) == /\ GoodMutable(p) /\ p.length = n
                    /\ \A i \in 1 .. n : p.bytes[i] = Apply(op, x(i), y(i))
           p == Assigned(op, m, b)
<1>1. /\ n \in Nat /\ BytesOf(b) \in Bits /\ Whole(Len(BytesOf(b))) /\ b.offset \in Nat
      /\ b.offset + n <= Len(BytesOf(b)) /\ Len(BytesOf(b)) \in Nat
  BY BitmapIs
<1>2. m.bytes \in Bits /\ l \in Nat /\ Whole(l) /\ n <= l
  BY LastByte
<1>3. ASSUME NEW i \in 1 .. n
      PROVE  /\ x(i) \in BOOLEAN /\ y(i) \in BOOLEAN
             /\ AllSet(b) => y(i) = TRUE
             /\ AllUnset(b) => y(i) = FALSE
  <2>1. i \in 1 .. b.length
    OBVIOUS
  <2>2. (AllSet(b) => y(i) = TRUE) /\ (AllUnset(b) => y(i) = FALSE)
    BY <2>1, CountTells
  <2>3. b.offset + i \in 1 .. Len(BytesOf(b)) /\ i \in 1 .. l
    <3> HIDE DEF n, l
    <3> QED BY <1>1, <1>2
  <2> QED BY <1>1, <1>2, <2>2, <2>3, BitsAt
<1> HIDE DEF x, y
<1>4. /\ Result(AllOnes(n), n) /\ \A i \in 1 .. n : AllOnes(n)[i] = TRUE
  BY <1>1, ConstantsAre
<1>5. is([m EXCEPT !.bytes = same])
  <2>1. r \in Bits /\ Len(r) = k /\ GoesOn(r, 0, n, BytesOf(b), b.offset)
    BY <1>1, ChunksIs
  <2>2. k \in Nat /\ Whole(k) /\ n <= k /\ Up(n) <= k /\ Up(n) \in Nat /\ n <= Up(n)
    BY <1>1, ChunksFit, UpIs
  <2>3. m.bytes \in [1 .. l -> BOOLEAN] /\ DOMAIN m.bytes = 1 .. l
    BY <1>2 DEF Bits
  <2> HIDE DEF r, k, n, l
  <2>4. ASSUME NEW i \in 1 .. l
        PROVE  (IF i <= Up(n) THEN Apply(op, m.bytes[i], r[i]) ELSE m.bytes[i]) \in BOOLEAN
    <3>1. m.bytes[i] \in BOOLEAN
      BY <2>3
    <3>2. CASE i <= Up(n)
      <4>1. i \in 1 .. Len(r)
        BY <1>2, <2>1, <2>2, <3>2
      <4>2. r[i] \in BOOLEAN
        BY <2>1, <4>1, BitsAt
      <4>3. Apply(op, m.bytes[i], r[i]) \in BOOLEAN
        BY <3>1, <4>2 DEF Apply, Ops
      <4> QED BY <3>2, <4>3
    <3> QED BY <3>1, <3>2
  <2>5. same = [i \in 1 .. l |-> IF i <= Up(n) THEN Apply(op, m.bytes[i], r[i]) ELSE m.bytes[i]]
    BY <2>3
  <2>6. same \in [1 .. l -> BOOLEAN]
    BY <2>4, <2>5
  <2>7. ASSUME NEW i \in 1 .. n PROVE same[i] = Apply(op, x(i), y(i))
    <3>1. i \in 1 .. l /\ i <= Up(n) /\ 0 + i = i
      BY <1>1, <1>2, <2>2
    <3>2. r[i] = y(i)
      BY <2>1, <3>1 DEF GoesOn, y
    <3>3. same[i] = Apply(op, m.bytes[i], r[i])
      BY <2>5, <3>1
    <3> QED BY <3>2, <3>3, Zenon DEF x
  <2> HIDE DEF same
  <2>8. same \in Bits /\ Len(same) = l
    BY <1>2, <2>6 DEF Bits
  <2>9. /\ GoodMutable([m EXCEPT !.bytes = same])
        /\ [m EXCEPT !.bytes = same].length = n /\ [m EXCEPT !.bytes = same].bytes = same
    BY <1>2, <2>8 DEF GoodMutable, n
  <2> QED BY <2>7, <2>9
<1> HIDE DEF same
<1> DEFINE v == FALSE
           e == Mutable(<< >>, 0)
<1>6. v \in BOOLEAN /\ GoodMutable(e) /\ e.length = 0 /\ Exact(e)
  <2>1. v \in BOOLEAN
    OBVIOUS
  <2> QED BY <2>1, EmptyIs
<1> HIDE DEF v, e
<1>7. \/ op = "or" /\ AllSet(b) /\ p = Mutable(AllOnes(n), n)
      \/ op = "or" /\ AllUnset(b) /\ p = m
      \/ op = "and" /\ AllUnset(b) /\ p = ExtendedConstant(e, n, v)
      \/ p = [m EXCEPT !.bytes = same]
  BY DEF Assigned, same, r, Ops, Up, e, v
<1> HIDE DEF p
<1>8. ASSUME op = "or", AllSet(b) PROVE is(Mutable(AllOnes(n), n))
  <2>1. /\ GoodMutable(Mutable(AllOnes(n), n)) /\ Mutable(AllOnes(n), n).bytes = AllOnes(n)
        /\ Mutable(AllOnes(n), n).length = n
    BY <1>1, <1>4, MutableIs DEF Result
  <2>2. ASSUME NEW i \in 1 .. n PROVE Apply(op, x(i), y(i)) = TRUE
    BY <1>3, <1>8 DEF Apply
  <2> QED BY <1>4, <2>1, <2>2
<1>9. ASSUME op = "or", AllUnset(b) PROVE is(m)
  <2>1. ASSUME NEW i \in 1 .. n PROVE Apply(op, x(i), y(i)) = x(i)
    BY <1>3, <1>9 DEF Apply
  <2> QED BY <2>1 DEF x
<1>10. ASSUME op = "and", AllUnset(b) PROVE is(ExtendedConstant(e, n, v))
  <2>1. /\ GoodMutable(ExtendedConstant(e, n, v)) /\ ExtendedConstant(e, n, v).length = e.length + n
        /\ \A i \in 1 .. n : ExtendedConstant(e, n, v).bytes[e.length + i] = v
    <3> HIDE DEF n, r, k, l, x, y, is
    <3>1. n \in Nat /\ GoodMutable(e) /\ Exact(e) /\ v \in BOOLEAN
      BY <1>1, <1>6
    <3>2. LET q == ExtendedConstant(e, n, v)
          IN  /\ GoodMutable(q) /\ q.length = e.length + n
              /\ Exact(e) => /\ Starts(q.bytes, e.length, e.bytes)
                             /\ \A i \in 1 .. n : q.bytes[e.length + i] = v
      BY <3>1, ExtendedConstantIs
    <3> QED BY <3>1, <3>2
  <2>2. e.length + n = n /\ \A i \in 1 .. n : e.length + i = i
    <3> HIDE DEF n
    <3> QED BY <1>1, <1>6
  <2>3. ASSUME NEW i \in 1 .. n PROVE Apply(op, x(i), y(i)) = v
    BY <1>3, <1>10 DEF Apply, v
  <2> QED BY <2>1, <2>2, <2>3
<1>11. is(p)
  <2> HIDE DEF is
  <2> QED BY <1>5, <1>7, <1>8, <1>9, <1>10
<1> QED BY <1>11 DEF x, y, p
-----------------------------------------------------------------------------
(* The program: what its slots hold, and the steps that put something there. *)

Good(h, mem) == h = None \/ GoodMutable(h) \/ GoodBitmap(h, mem)

\* The inductive invariant: what holds of each slot and region, the unset bits of
\* windows counted over the bytes, and regions freed.
Inv ==
  /\ slots = [s \in Slots |-> slots[s]]
  /\ GoodMemory(memory)
  /\ \A s \in Slots : Good(slots[s], memory)
  /\ \A r \in Regions : (\A s \in Slots : ~Uses(slots[s], r)) => memory[r] = Free

\* The bits a slot holds, of the regions as they are in mem.
ValueIn(h, mem) ==
  CASE h.kind = "none"    -> << >>
    [] h.kind = "mutable" -> Take(h.bytes, h.length)
    [] h.kind = "bitmap"  -> Region(mem[h.region].bytes, h.offset, h.length)

LEMMA Kinds ==
  ASSUME NEW h, NEW mem
  PROVE  /\ None.kind = "none"
         /\ GoodMutable(h) => h.kind = "mutable" /\ h.length \in Nat
         /\ GoodBitmap(h, mem) => /\ h.kind = "bitmap" /\ h.length \in Nat
                                  /\ h.region \in Regions /\ Uses(h, h.region)
         /\ Good(h, mem) => /\ h.kind \in {"none", "mutable", "bitmap"}
                            /\ h.kind = "none" => h = None
                            /\ h.kind = "mutable" => GoodMutable(h)
                            /\ h.kind = "bitmap" => GoodBitmap(h, mem)
BY DEF None, GoodMutable, GoodBitmap, Good, Uses

LEMMA FreeIs == Free \in [bytes : Bits, foreign : BOOLEAN] /\ Whole(Len(Free.bytes))
<1>1. << >> \in Bits /\ Len(<< >>) = 0 /\ Whole(0)
  BY WholeOne DEF Bits
<1> QED BY <1>1 DEF Free

\* What a slot holds stays as it is when its region does.
LEMMA Elsewhere ==
  ASSUME NEW h, NEW mem, NEW new, \A r \in Regions : Uses(h, r) => new[r] = mem[r], Good(h, mem)
  PROVE  Good(h, new) /\ ValueIn(h, new) = ValueIn(h, mem)
<1>1. CASE h.kind = "bitmap"
  <2>1. GoodBitmap(h, mem) /\ h.region \in Regions /\ Uses(h, h.region)
    BY <1>1, Kinds
  <2>2. new[h.region] = mem[h.region]
    BY <2>1
  <2>3. GoodBitmap(h, new)
    BY <2>1, <2>2 DEF GoodBitmap
  <2> QED BY <1>1, <2>2, <2>3 DEF Good, ValueIn
<1>2. CASE h.kind # "bitmap"
  <2>1. h.kind \in {"none", "mutable"} /\ (h = None \/ GoodMutable(h))
    BY <1>2, Kinds
  <2> QED BY <2>1 DEF Good, ValueIn
<1> QED BY <1>1, <1>2

LEMMA WindowIs ==
  ASSUME NEW mem, GoodMemory(mem), NEW r \in Regions, NEW n \in Nat, n <= Len(mem[r].bytes)
  PROVE  LET w == Window(r, mem[r].bytes, n)
         IN  /\ GoodBitmap(w, mem) /\ w.kind = "bitmap" /\ w.region = r /\ w.length = n
             /\ ValueIn(w, mem) = Region(mem[r].bytes, 0, n)
<1> DEFINE s == mem[r].bytes
           w == Window(r, s, n)
<1>1. s \in Bits /\ Whole(Len(s)) /\ Len(s) \in Nat
  BY BitsAt DEF GoodMemory
<1>2. n <= Len(s) /\ 0 + n <= Len(s) /\ 0 + n = n
  OBVIOUS
<1>3. /\ w.kind = "bitmap" /\ w.region = r /\ w.offset = 0 /\ w.length = n /\ w.unset = CountZeros(s, 0, n)
      /\ w = [kind |-> "bitmap", region |-> r, offset |-> 0, length |-> n, unset |-> CountZeros(s, 0, n)]
  BY DEF Window
<1> HIDE DEF s, w
<1>4. CountZeros(s, 0, n) = Number(Zeros(s), 0 + 1, 0 + n)
  BY <1>1, <1>2, CountZerosIs
<1>5. CountZeros(s, 0, n) \in Nat
  <2>1. 0 + 1 \in Int /\ 0 + n \in Int
    OBVIOUS
  <2> QED BY <1>4, <2>1, NumberType
<1>6. w \in [kind : {"bitmap"}, region : Regions, offset : Nat, length : Nat, unset : Nat]
  BY <1>3, <1>5
<1>7. GoodBitmap(w, mem)
  BY <1>2, <1>3, <1>4, <1>6 DEF GoodBitmap, s
<1>8. ValueIn(w, mem) = Region(mem[r].bytes, 0, n)
  BY <1>3 DEF ValueIn
<1> QED BY <1>3, <1>7, <1>8 DEF w, s

\* There are as many regions as slots, so that one is free for a slot's new bitmap.
LEMMA FreeRegion ==
  ASSUME NEW s \in Slots
  PROVE  \E r \in Regions : \A t \in Slots \ {s} : ~Uses(slots[t], r)
<1> SUFFICES ASSUME \A r \in Regions : \E t \in Slots \ {s} : Uses(slots[t], r)
             PROVE  FALSE
  OBVIOUS
<1> DEFINE T == Slots \ {s}
           g == [r \in Regions |-> CHOOSE t \in T : Uses(slots[t], r)]
<1>1. IsFiniteSet(Slots) /\ Cardinality(Slots) \in Nat
  BY BitmapsAssumption, FS_CardinalityType
<1>2. IsFiniteSet(T) /\ Cardinality(T) = Cardinality(Slots) - 1
  BY <1>1, FS_RemoveElement
<1>3. IsFiniteSet(Regions) /\ Cardinality(Regions) = Cardinality(Slots)
  <2> DEFINE c == Cardinality(Slots)
  <2>1. c \in Nat /\ 1 \in Int /\ c \in Int
    BY <1>1
  <2> HIDE DEF c
  <2>2. IsFiniteSet(1 .. c) /\ Cardinality(1 .. c) = IF 1 > c THEN 0 ELSE c - 1 + 1
    BY <2>1, FS_Interval
  <2>3. Cardinality(1 .. c) = c
    BY <2>1, <2>2
  <2> QED BY <2>2, <2>3 DEF Regions, c
<1>4. \A r \in Regions : g[r] \in T /\ Uses(slots[g[r]], r)
  <2> TAKE r \in Regions
  <2>1. \E t \in T : Uses(slots[t], r)
    OBVIOUS
  <2>2. g[r] = CHOOSE t \in T : Uses(slots[t], r)
    OBVIOUS
  <2> HIDE DEF g
  <2> QED BY <2>1, <2>2
<1>5. g \in [Regions -> T]
  <2>1. g = [r \in Regions |-> g[r]]
    OBVIOUS
  <2> HIDE DEF g, T
  <2> QED BY <1>4, <2>1
<1> HIDE DEF g, T
<1>6. Cardinality(T) < Cardinality(Regions)
  BY <1>1, <1>2, <1>3
<1>7. \E x, y \in Regions : x # y /\ g[x] = g[y]
  BY <1>2, <1>3, <1>5, <1>6, FS_PigeonHole
<1>8. PICK x, y \in Regions : x # y /\ g[x] = g[y]
  BY <1>7
<1>9. slots[g[x]].region = x /\ slots[g[y]].region = y
  BY <1>4 DEF Uses
<1> QED BY <1>8, <1>9

\* One slot has changed, the invariant holds, and no other slot's bits are other ones.
Changed(s, h, value) ==
  /\ slots' = [slots EXCEPT ![s] = h]
  /\ ValueIn(h, memory') = value
  /\ \A t \in Slots \ {s} : ValueIn(slots[t], memory') = ValueIn(slots[t], memory)

LEMMA PutStep ==
  ASSUME Inv, NEW s \in Slots, NEW h, Good(h, memory), Put(s, h)
  PROVE  Inv' /\ Changed(s, h, ValueIn(h, memory))
<1>1. /\ slots' = [slots EXCEPT ![s] = h]
      /\ memory' = [r \in Regions |-> IF \E t \in Slots : Uses(slots'[t], r) THEN memory[r] ELSE Free]
  BY DEF Put
<1>2. slots = [t \in Slots |-> slots[t]] /\ GoodMemory(memory) /\ \A t \in Slots : Good(slots[t], memory)
  BY DEF Inv
<1>3. /\ slots' = [t \in Slots |-> slots'[t]] /\ slots'[s] = h
      /\ \A t \in Slots \ {s} : slots'[t] = slots[t]
  BY <1>1, <1>2
<1>4. \A t \in Slots : Good(slots'[t], memory)
  BY <1>2, <1>3
<1>5. \A r \in Regions : /\ (\E t \in Slots : Uses(slots'[t], r)) => memory'[r] = memory[r]
                         /\ (\A t \in Slots : ~Uses(slots'[t], r)) => memory'[r] = Free
  BY <1>1
<1>6. GoodMemory(memory')
  <2>1. \A r \in Regions : /\ memory[r] \in [bytes : Bits, foreign : BOOLEAN] /\ Whole(Len(memory[r].bytes))
                           /\ memory'[r] = memory[r] \/ memory'[r] = Free
    BY <1>1, <1>2 DEF GoodMemory
  <2>2. memory' = [r \in Regions |-> memory'[r]]
    BY <1>1
  <2> QED BY <2>1, <2>2, FreeIs DEF GoodMemory
<1>7. ASSUME NEW t \in Slots
      PROVE  Good(slots'[t], memory') /\ ValueIn(slots'[t], memory') = ValueIn(slots'[t], memory)
  <2>1. \A r \in Regions : Uses(slots'[t], r) => memory'[r] = memory[r]
    BY <1>5
  <2> QED BY <1>4, <2>1, Elsewhere
<1>8. Inv'
  BY <1>3, <1>5, <1>6, <1>7 DEF Inv
<1>9. Changed(s, h, ValueIn(h, memory))
  BY <1>1, <1>3, <1>7 DEF Changed
<1> QED BY <1>8, <1>9

LEMMA PutBitmapStep ==
  ASSUME Inv, NEW s \in Slots, NEW bytes \in Bits, Whole(Len(bytes)), NEW n \in Nat, n <= Len(bytes),
         NEW foreign \in BOOLEAN, PutBitmap(s, bytes, n, foreign)
  PROVE  Inv' /\ \E h : h.kind = "bitmap" /\ Changed(s, h, Region(bytes, 0, n))
<1> DEFINE region == CHOOSE r \in Regions : \A t \in Slots \ {s} : ~Uses(slots[t], r)
           h == Window(region, bytes, n)
<1>1. region \in Regions /\ \A t \in Slots \ {s} : ~Uses(slots[t], region)
  <2>1. \E r \in Regions : \A t \in Slots \ {s} : ~Uses(slots[t], r)
    BY FreeRegion
  <2> QED BY <2>1
<1>2. /\ slots' = [slots EXCEPT ![s] = h]
      /\ memory' = [r \in Regions |->
           IF r = region THEN [bytes |-> bytes, foreign |-> foreign]
           ELSE IF \E t \in Slots \ {s} : Uses(slots[t], r) THEN memory[r] ELSE Free]
  BY DEF PutBitmap
<1> HIDE DEF region
<1>3. slots = [t \in Slots |-> slots[t]] /\ GoodMemory(memory) /\ \A t \in Slots : Good(slots[t], memory)
  BY DEF Inv
<1>4. /\ slots' = [t \in Slots |-> slots'[t]] /\ slots'[s] = h
      /\ \A t \in Slots \ {s} : slots'[t] = slots[t]
  BY <1>2, <1>3
<1>5. /\ memory'[region] = [bytes |-> bytes, foreign |-> foreign]
      /\ \A r \in Regions \ {region} :
           /\ (\E t \in Slots \ {s} : Uses(slots[t], r)) => memory'[r] = memory[r]
           /\ (\A t \in Slots \ {s} : ~Uses(slots[t], r)) => memory'[r] = Free
  BY <1>1, <1>2
<1>6. GoodMemory(memory')
  <2>1. \A r \in Regions : /\ memory[r] \in [bytes : Bits, foreign : BOOLEAN] /\ Whole(Len(memory[r].bytes))
    BY <1>3 DEF GoodMemory
  <2>2. memory' = [r \in Regions |-> memory'[r]]
    BY <1>2
  <2>3. ASSUME NEW r \in Regions
        PROVE  memory'[r] \in [bytes : Bits, foreign : BOOLEAN] /\ Whole(Len(memory'[r].bytes))
    <3>1. CASE r = region
      BY <1>5, <3>1
    <3>2. CASE r # region
      <4>1. memory'[r] = memory[r] \/ memory'[r] = Free
        BY <1>5, <3>2
      <4> QED BY <2>1, <4>1, FreeIs
    <3> QED BY <3>1, <3>2
  <2> QED BY <2>2, <2>3 DEF GoodMemory
<1>7. /\ GoodBitmap(h, memory') /\ h.kind = "bitmap" /\ h.region = region
      /\ ValueIn(h, memory') = Region(bytes, 0, n)
  <2>1. memory'[region].bytes = bytes
    BY <1>5
  <2>2. n <= Len(memory'[region].bytes)
    BY <2>1
  <2>3. LET w == Window(region, memory'[region].bytes, n)
        IN  /\ GoodBitmap(w, memory') /\ w.kind = "bitmap" /\ w.region = region /\ w.length = n
            /\ ValueIn(w, memory') = Region(memory'[region].bytes, 0, n)
    BY <1>1, <1>6, <2>2, WindowIs
  <2> QED BY <2>1, <2>3
<1> HIDE DEF h
<1>8. ASSUME NEW t \in Slots \ {s}
      PROVE  Good(slots[t], memory') /\ ValueIn(slots[t], memory') = ValueIn(slots[t], memory)
  <2>1. \A r \in Regions : Uses(slots[t], r) => memory'[r] = memory[r]
    BY <1>1, <1>5
  <2> QED BY <1>3, <2>1, Elsewhere
<1>9. \A t \in Slots : Good(slots'[t], memory')
  <2>1. Good(h, memory')
    BY <1>7 DEF Good
  <2> QED BY <1>4, <1>8, <2>1
<1>10. ASSUME NEW r \in Regions, \A t \in Slots : ~Uses(slots'[t], r) PROVE memory'[r] = Free
  <2>1. r # region
    BY <1>4, <1>7, <1>10 DEF Uses
  <2>2. \A t \in Slots \ {s} : ~Uses(slots[t], r)
    BY <1>4, <1>10
  <2> QED BY <1>5, <2>1, <2>2
<1>11. Inv'
  BY <1>4, <1>6, <1>9, <1>10 DEF Inv
<1>12. Changed(s, h, Region(bytes, 0, n))
  BY <1>2, <1>7, <1>8 DEF Changed
<1> QED BY <1>7, <1>11, <1>12
-----------------------------------------------------------------------------
(* What the slots hold, as vectors.                                         *)

LEMMA SameBits ==
  ASSUME NEW s \in Bits, NEW t \in Bits, Len(s) = Len(t), \A i \in 1 .. Len(s) : s[i] = t[i]
  PROVE  s = t
BY SeqEqual DEF Bits

\* The bits of a vector, one by one.
BitOf(h, mem, i) == IF h.kind = "mutable" THEN h.bytes[i] ELSE mem[h.region].bytes[h.offset + i]

LEMMA ValueIs ==
  ASSUME GoodMemory(memory), NEW h, Good(h, memory)
  PROVE  LET v == ValueIn(h, memory)
         IN  /\ v \in Bits /\ Value(h) = v
             /\ h.kind = "none" => v = << >>
             /\ h.kind # "none" => /\ h.length \in Nat /\ Len(v) = h.length
                                   /\ \A i \in 1 .. h.length : v[i] = BitOf(h, memory, i)
<1> DEFINE v == ValueIn(h, memory)
<1>1. Value(h) = v
  BY DEF Value, ValueIn, BytesOf
<1>2. h.kind \in {"none", "mutable", "bitmap"}
  BY Kinds
<1>3. CASE h.kind = "none"
  <2>1. << >> \in Bits
    BY DEF Bits
  <2> QED BY <1>1, <1>3, <2>1 DEF ValueIn
<1>4. CASE h.kind = "mutable"
  <2> DEFINE t == Take(h.bytes, h.length)
  <2>1. GoodMutable(h) /\ v = t
    BY <1>4, Kinds DEF ValueIn
  <2>2. h.bytes \in Bits /\ Len(h.bytes) \in Nat /\ h.length \in Nat /\ h.length <= Len(h.bytes)
    BY <2>1, LastByte
  <2>3. LeastOf(h.length, Len(h.bytes)) = h.length
    BY <2>2 DEF LeastOf
  <2>4. /\ t \in Bits /\ Len(t) = LeastOf(h.length, Len(h.bytes))
        /\ \A i \in 1 .. LeastOf(h.length, Len(h.bytes)) : t[i] = h.bytes[i]
    BY <2>2, TakeIs
  <2> HIDE DEF t, v
  <2>5. /\ v \in Bits /\ Len(v) = h.length /\ \A i \in 1 .. h.length : v[i] = BitOf(h, memory, i)
    BY <1>4, <2>1, <2>3, <2>4 DEF BitOf
  <2> QED BY <1>1, <1>4, <2>2, <2>5 DEF v
<1>5. CASE h.kind = "bitmap"
  <2> DEFINE b == BytesOf(h)
             t == Region(b, h.offset, h.length)
  <2>1. GoodBitmap(h, memory) /\ v = t
    BY <1>5, Kinds DEF ValueIn, BytesOf
  <2>2. b \in Bits /\ h.offset \in Nat /\ h.length \in Nat /\ h.offset + h.length <= Len(b)
    BY <2>1, BitmapIs
  <2> HIDE DEF b
  <2>3. t \in Bits /\ Len(t) = h.length /\ \A i \in 1 .. h.length : t[i] = b[h.offset + i]
    BY <2>2, RegionIs
  <2> HIDE DEF t, v
  <2>4. /\ v \in Bits /\ Len(v) = h.length /\ \A i \in 1 .. h.length : v[i] = BitOf(h, memory, i)
    BY <1>5, <2>1, <2>3 DEF BitOf, b, BytesOf
  <2> QED BY <1>1, <1>5, <2>2, <2>4 DEF v
<1> QED BY <1>2, <1>3, <1>4, <1>5

LEMMA SlotIs ==
  ASSUME Inv, NEW s \in Slots
  PROVE  /\ GoodMemory(memory) /\ Good(slots[s], memory)
         /\ slots[s].kind \in {"none", "mutable", "bitmap"}
         /\ Holds(s, "mutable") => GoodMutable(slots[s]) /\ slots[s].length \in Nat
         /\ Holds(s, "bitmap") => GoodBitmap(slots[s], memory) /\ slots[s].length \in Nat
BY Kinds DEF Inv, Holds

\* One slot now holds v, the others what they did.
Becomes(s, kind, v) == \E h : h.kind = kind /\ Changed(s, h, v)

Held(s) == [kind |-> slots[s].kind, bits |-> ValueIn(slots[s], memory)]

LEMMA HeldIs ==
  ASSUME NEW s \in Slots
  PROVE  [t \in Slots |-> [kind |-> slots[t].kind, bits |-> Value(slots[t])]][s] = Held(s)
BY DEF Held, Value, ValueIn, BytesOf

LEMMA VecsNext ==
  ASSUME Inv, NEW s \in Slots, NEW kind, NEW v, Becomes(s, kind, v),
         Vecs!Step(Held(s), [kind |-> kind, bits |-> v])
  PROVE  Vecs!Next
<1> DEFINE held == [t \in Slots |-> [kind |-> slots[t].kind, bits |-> Value(slots[t])]]
           new == [kind |-> kind, bits |-> v]
<1>1. PICK h : h.kind = kind /\ Changed(s, h, v)
  BY DEF Becomes
<1>2. slots = [t \in Slots |-> slots[t]]
  BY DEF Inv
<1>3. slots'[s] = h /\ \A t \in Slots \ {s} : slots'[t] = slots[t]
  BY <1>1, <1>2 DEF Changed
<1>4. \A t \in Slots : /\ held[t] = [kind |-> slots[t].kind, bits |-> ValueIn(slots[t], memory)]
                       /\ held'[t] = [kind |-> slots'[t].kind, bits |-> ValueIn(slots'[t], memory')]
  BY DEF Value, ValueIn, BytesOf
<1>5. held'[s] = new /\ held[s] = Held(s)
  BY <1>1, <1>3, <1>4 DEF Changed, Held
<1>6. \A t \in Slots \ {s} : held'[t] = held[t]
  <2> TAKE t \in Slots \ {s}
  <2>1. slots'[t] = slots[t] /\ ValueIn(slots[t], memory') = ValueIn(slots[t], memory)
    BY <1>1, <1>3 DEF Changed
  <2>2. /\ held[t] = [kind |-> slots[t].kind, bits |-> ValueIn(slots[t], memory)]
        /\ held'[t] = [kind |-> slots'[t].kind, bits |-> ValueIn(slots'[t], memory')]
    BY <1>4
  <2> HIDE DEF held
  <2> QED BY <2>1, <2>2
<1>7. Vecs!Step(held[s], held'[s])
  <2>1. Vecs!Step(Held(s), new)
    OBVIOUS
  <2> HIDE DEF held, new
  <2> QED BY <1>5, <2>1
<1> QED BY <1>6, <1>7 DEF Vecs!Next

\* A MutableBitmap put into a slot.
LEMMA MutablePut ==
  ASSUME Inv, NEW s \in Slots, NEW p, GoodMutable(p), Put(s, p)
  PROVE  LET v == ValueIn(p, memory)
         IN  /\ Inv' /\ Becomes(s, "mutable", v)
             /\ v \in Bits /\ Len(v) = p.length /\ p.length \in Nat
             /\ \A i \in 1 .. p.length : v[i] = p.bytes[i]
<1>1. p.kind = "mutable" /\ Good(p, memory)
  BY Kinds DEF Good
<1>2. Inv' /\ Changed(s, p, ValueIn(p, memory))
  BY <1>1, PutStep
<1>3. GoodMemory(memory)
  BY DEF Inv
<1>4. /\ ValueIn(p, memory) \in Bits /\ p.length \in Nat /\ Len(ValueIn(p, memory)) = p.length
      /\ \A i \in 1 .. p.length : ValueIn(p, memory)[i] = BitOf(p, memory, i)
  BY <1>1, <1>3, ValueIs
<1>5. Becomes(s, "mutable", ValueIn(p, memory))
  BY <1>1, <1>2 DEF Becomes
<1> QED BY <1>1, <1>2, <1>4, <1>5 DEF BitOf

LEMMA HeldMutable ==
  ASSUME Inv, NEW s \in Slots, Holds(s, "mutable")
  PROVE  /\ GoodMutable(slots[s]) /\ Held(s).kind = "mutable" /\ slots[s].length \in Nat
         /\ Held(s).bits \in Bits /\ Len(Held(s).bits) = slots[s].length
         /\ \A i \in 1 .. slots[s].length : Held(s).bits[i] = slots[s].bytes[i]
<1>1. GoodMemory(memory) /\ Good(slots[s], memory) /\ GoodMutable(slots[s]) /\ slots[s].kind = "mutable"
  BY SlotIs DEF Holds
<1>2. /\ ValueIn(slots[s], memory) \in Bits /\ slots[s].length \in Nat
      /\ Len(ValueIn(slots[s], memory)) = slots[s].length
      /\ \A i \in 1 .. slots[s].length : ValueIn(slots[s], memory)[i] = BitOf(slots[s], memory, i)
  BY <1>1, ValueIs
<1> QED BY <1>1, <1>2 DEF Held, BitOf

LEMMA HeldBitmap ==
  ASSUME Inv, NEW s \in Slots, Holds(s, "bitmap")
  PROVE  LET b == slots[s]
         IN  /\ GoodMemory(memory) /\ GoodBitmap(b, memory) /\ Held(s).kind = "bitmap"
             /\ b.length \in Nat /\ b.offset \in Nat
             /\ BytesOf(b) \in Bits /\ Whole(Len(BytesOf(b))) /\ b.offset + b.length <= Len(BytesOf(b))
             /\ Held(s).bits \in Bits /\ Len(Held(s).bits) = b.length
             /\ \A i \in 1 .. b.length : Held(s).bits[i] = BytesOf(b)[b.offset + i]
<1> DEFINE b == slots[s]
<1>1. GoodMemory(memory) /\ Good(b, memory) /\ GoodBitmap(b, memory) /\ b.kind = "bitmap"
  BY SlotIs DEF Holds
<1>2. /\ ValueIn(b, memory) \in Bits /\ b.length \in Nat
      /\ Len(ValueIn(b, memory)) = b.length
      /\ \A i \in 1 .. b.length : ValueIn(b, memory)[i] = BitOf(b, memory, i)
  BY <1>1, ValueIs
<1>3. /\ BytesOf(b) \in Bits /\ Whole(Len(BytesOf(b))) /\ b.offset \in Nat /\ b.offset + b.length <= Len(BytesOf(b))
  BY <1>1, BitmapIs
<1> QED BY <1>1, <1>2, <1>3 DEF Held, BitOf, BytesOf

\* A vector with n bits more.
LEMMA MoreBits ==
  ASSUME NEW u \in Bits, NEW v \in Bits, NEW n \in Nat, Len(v) = Len(u) + n, Starts(v, Len(u), u)
  PROVE  LET more == SubSeq(v, Len(u) + 1, Len(v))
         IN  /\ Len(v) >= Len(u) /\ SubSeq(v, 1, Len(u)) = u
             /\ more \in Bits /\ Len(more) = n /\ DOMAIN more = 1 .. n
             /\ \A i \in 1 .. n : more[i] = v[Len(u) + i]
<1> DEFINE l == Len(u)
           e == Len(v)
           a == l + 1
           more == SubSeq(v, a, e)
           start == SubSeq(v, 1, l)
<1>1. l \in Nat /\ e \in Nat /\ e = l + n /\ l <= e /\ a \in Nat \ {0}
  BY BitsAt
<1> HIDE DEF l, e
<1>2. start \in Bits /\ Len(start) = l /\ \A i \in 1 .. l : start[i] = v[i]
  <2>1. /\ start \in Bits /\ Len(start) = IF 1 <= l THEN l - 1 + 1 ELSE 0
        /\ \A i \in 1 .. l - 1 + 1 : start[i] = v[1 + i - 1]
    BY <1>1, SubSeqIs DEF e
  <2>2. \A i \in 1 .. l : i \in 1 .. l - 1 + 1 /\ 1 + i - 1 = i
    BY <1>1
  <2> HIDE DEF start
  <2> QED BY <1>1, <2>1, <2>2
<1>3. start = u
  <2> HIDE DEF start
  <2> QED BY <1>2, SameBits DEF Starts, l
<1> HIDE DEF a
<1>4. /\ more \in Bits /\ Len(more) = IF a <= e THEN e - a + 1 ELSE 0
      /\ \A i \in 1 .. e - a + 1 : more[i] = v[a + i - 1]
  <2>1. a \in Nat \ {0} /\ e \in Nat /\ e <= Len(v)
    BY <1>1 DEF e
  <2> HIDE DEF start
  <2> QED BY <2>1, SubSeqIs
<1> HIDE DEF more
<1>5. Len(more) = n /\ \A i \in 1 .. n : i \in 1 .. e - a + 1 /\ a + i - 1 = l + i
  BY <1>1, <1>4 DEF a
<1>6. \A i \in 1 .. n : more[i] = v[l + i]
  BY <1>4, <1>5
<1>7. DOMAIN more = 1 .. n
  BY <1>4, <1>5 DEF Bits
<1> QED BY <1>1, <1>3, <1>4, <1>5, <1>6, <1>7 DEF l, e, a, more
-----------------------------------------------------------------------------
(* The steps: each keeps the invariant, and is one of vectors if no caller   *)
(* extends a MutableBitmap that has spare bytes.                             *)

\* More bits put behind those of a MutableBitmap: of one value, or another vector's.
LEMMA ExtendStep ==
  ASSUME Inv, NEW s \in Slots, Holds(s, "mutable"), NEW p, GoodMutable(p), Put(s, p), NEW n \in Nat,
         p.length = slots[s].length + n, Starts(p.bytes, slots[s].length, slots[s].bytes),
         \/ \E c : \A i \in 1 .. n : p.bytes[slots[s].length + i] = c
         \/ \E t \in Slots : /\ Held(t).bits \in Bits /\ Len(Held(t).bits) = n
                             /\ GoesOn(p.bytes, slots[s].length, n, Held(t).bits, 0)
  PROVE  Vecs!Next
<1> DEFINE m == slots[s]
           u == Held(s).bits
           v == ValueIn(p, memory)
           l == m.length
           more == SubSeq(v, Len(u) + 1, Len(v))
<1>1. /\ Becomes(s, "mutable", v) /\ v \in Bits /\ Len(v) = p.length
      /\ \A i \in 1 .. p.length : v[i] = p.bytes[i]
  BY MutablePut
<1>2. /\ GoodMutable(m) /\ Held(s).kind = "mutable" /\ l \in Nat /\ u \in Bits /\ Len(u) = l
      /\ \A i \in 1 .. l : u[i] = m.bytes[i]
  BY HeldMutable
<1>3. p.length = l + n /\ Starts(p.bytes, l, m.bytes)
      /\ \/ \E c : \A i \in 1 .. n : p.bytes[l + i] = c
         \/ \E t \in Slots : /\ Held(t).bits \in Bits /\ Len(Held(t).bits) = n
                             /\ GoesOn(p.bytes, l, n, Held(t).bits, 0)
  OBVIOUS
<1> HIDE DEF v, u, l, m
<1>4. Len(v) = Len(u) + n /\ Starts(v, Len(u), u)
  <2>1. \A i \in 1 .. l : i \in 1 .. p.length
    BY <1>2, <1>3
  <2> QED BY <1>1, <1>2, <1>3, <2>1 DEF Starts
<1>5. /\ Len(v) >= Len(u) /\ SubSeq(v, 1, Len(u)) = u
      /\ more \in Bits /\ Len(more) = n /\ DOMAIN more = 1 .. n
      /\ \A i \in 1 .. n : more[i] = v[Len(u) + i]
  BY <1>1, <1>2, <1>4, MoreBits
<1>6. \A i \in 1 .. n : more[i] = p.bytes[l + i]
  <2>1. \A i \in 1 .. n : l + i \in 1 .. p.length
    BY <1>2, <1>3
  <2> QED BY <1>1, <1>2, <1>5, <2>1
<1> DEFINE held == [t \in Slots |-> [kind |-> slots[t].kind, bits |-> Value(slots[t])]]
<1>7. \/ \A i, j \in DOMAIN more : more[i] = more[j]
      \/ \E t \in Slots : more = held[t].bits
  <2>1. CASE \E c : \A i \in 1 .. n : p.bytes[l + i] = c
    <3> HIDE DEF more
    <3> QED BY <1>5, <1>6, <2>1
  <2>2. ASSUME NEW t \in Slots, Held(t).bits \in Bits, Len(Held(t).bits) = n,
               GoesOn(p.bytes, l, n, Held(t).bits, 0)
        PROVE  more = held[t].bits
    <3>1. \A i \in 1 .. n : more[i] = Held(t).bits[i]
      <4>1. \A i \in 1 .. n : 0 + i = i
        OBVIOUS
      <4> QED BY <1>6, <2>2, <4>1 DEF GoesOn
    <3> HIDE DEF more
    <3>2. more = Held(t).bits
      BY <1>5, <2>2, <3>1, SameBits
    <3>3. held[t] = Held(t)
      BY HeldIs
    <3> QED BY <3>2, <3>3
  <2> HIDE DEF more, held
  <2> QED BY <1>3, <2>1, <2>2
<1>8. Vecs!Extends(u, v)
  BY <1>5, <1>7 DEF Vecs!Extends
<1>9. Vecs!Step(Held(s), [kind |-> "mutable", bits |-> v])
  BY <1>2, <1>8 DEF Vecs!Step, Vecs!Edited, u
<1> QED BY <1>1, <1>9, VecsNext

LEMMA PushStep ==
  ASSUME Inv, NEW s \in Slots, NEW b \in BOOLEAN, Push(s, b)
  PROVE  Inv' /\ (~SpareBytes => Vecs!Next)
<1> DEFINE m == slots[s]
           p == Pushed(m, b)
<1>1. Holds(s, "mutable") /\ Fits(m, 1) /\ Put(s, p)
  BY DEF Push
<1>2. GoodMutable(m) /\ m.length \in Nat
  BY <1>1, SlotIs
<1>3. /\ GoodMutable(p) /\ p.length = m.length + 1
      /\ Exact(m) => Starts(p.bytes, m.length, m.bytes) /\ p.bytes[m.length + 1] = b
  BY <1>2, PushedIs
<1> HIDE DEF p
<1>4. Inv'
  BY <1>1, <1>3, MutablePut
<1>5. ASSUME ~SpareBytes PROVE Vecs!Next
  <2>1. Exact(m)
    BY <1>1, <1>5 DEF Fits
  <2>2. \A i \in 1 .. 1 : p.bytes[m.length + i] = b
    BY <1>3, <2>1
  <2> QED BY <1>1, <1>3, <2>1, <2>2, ExtendStep
<1> QED BY <1>4, <1>5

LEMMA ExtendConstantStep ==
  ASSUME Inv, NEW s \in Slots, NEW n \in Nat, NEW v \in BOOLEAN, ExtendConstant(s, n, v)
  PROVE  Inv' /\ (~SpareBytes => Vecs!Next)
<1> DEFINE m == slots[s]
           p == ExtendedConstant(m, n, v)
<1>1. Holds(s, "mutable") /\ Fits(m, n) /\ Put(s, p)
  BY DEF ExtendConstant
<1>2. GoodMutable(m) /\ m.length \in Nat
  BY <1>1, SlotIs
<1>3. /\ GoodMutable(p) /\ p.length = m.length + n
      /\ Exact(m) => Starts(p.bytes, m.length, m.bytes) /\ \A i \in 1 .. n : p.bytes[m.length + i] = v
  <2> HIDE DEF m
  <2> QED BY <1>2, ExtendedConstantIs
<1> HIDE DEF p
<1>4. Inv'
  BY <1>1, <1>3, MutablePut
<1>5. ASSUME ~SpareBytes PROVE Vecs!Next
  <2>1. Exact(m)
    BY <1>1, <1>5 DEF Fits
  <2>2. \A i \in 1 .. n : p.bytes[m.length + i] = v
    BY <1>3, <2>1
  <2> QED BY <1>1, <1>3, <2>1, <2>2, ExtendStep
<1> QED BY <1>4, <1>5

LEMMA HeldBits ==
  ASSUME Inv, NEW t \in Slots
  PROVE  Held(t).bits \in Bits /\ Held(t).bits = Value(slots[t]) /\ Len(Held(t).bits) \in Nat
<1>1. GoodMemory(memory) /\ Good(slots[t], memory)
  BY SlotIs
<1>2. ValueIn(slots[t], memory) \in Bits /\ Value(slots[t]) = ValueIn(slots[t], memory)
  BY <1>1, ValueIs
<1> QED BY <1>2, BitsAt DEF Held

LEMMA ExtendFromIterStep ==
  ASSUME Inv, NEW s \in Slots, NEW t \in Slots, ExtendFromTrustedLenIter(s, t)
  PROVE  Inv' /\ (~SpareBytes => Vecs!Next)
<1> DEFINE m == slots[s]
           v == Held(t).bits
           n == Len(v)
           p == ExtendedFromIter(m, v)
<1>1. v \in Bits /\ v = Value(slots[t]) /\ n \in Nat
  BY HeldBits
<1>2. Holds(s, "mutable") /\ Fits(m, n) /\ Put(s, p)
  BY <1>1 DEF ExtendFromTrustedLenIter
<1>3. GoodMutable(m)
  BY <1>2, SlotIs
<1>4. Extends(p, m, n, v, 0)
  BY <1>1, <1>3, ExtendedFromIterIs
<1>5. GoodMutable(p) /\ p.length = m.length + n
  BY <1>4 DEF Extends
<1>6. Exact(m) => Starts(p.bytes, m.length, m.bytes) /\ GoesOn(p.bytes, m.length, n, v, 0)
  BY <1>4 DEF Extends
<1> HIDE DEF p
<1>7. Inv'
  BY <1>2, <1>5, MutablePut
<1>8. ASSUME ~SpareBytes PROVE Vecs!Next
  <2>1. Exact(m)
    BY <1>2, <1>8 DEF Fits
  <2>2. Starts(p.bytes, m.length, m.bytes) /\ GoesOn(p.bytes, m.length, n, v, 0)
    BY <1>6, <2>1
  <2> QED BY <1>1, <1>2, <1>5, <2>2, ExtendStep
<1> QED BY <1>7, <1>8

LEMMA ExtendFromBitmapStep ==
  ASSUME Inv, NEW s \in Slots, NEW t \in Slots, ExtendFromBitmap(s, t)
  PROVE  Inv' /\ (~SpareBytes => Vecs!Next)
<1> DEFINE m == slots[s]
           b == slots[t]
           v == Held(t).bits
           n == b.length
           p == ExtendedFromSlice(m, BytesOf(b), b.offset, n)
<1>1. Holds(s, "mutable") /\ Holds(t, "bitmap") /\ Fits(m, n) /\ Put(s, p)
  BY DEF ExtendFromBitmap
<1>2. GoodMutable(m)
  BY <1>1, SlotIs
<1>3. /\ n \in Nat /\ b.offset \in Nat /\ BytesOf(b) \in Bits /\ Whole(Len(BytesOf(b)))
      /\ b.offset + n <= Len(BytesOf(b)) /\ v \in Bits /\ Len(v) = n
      /\ \A i \in 1 .. n : v[i] = BytesOf(b)[b.offset + i]
  BY <1>1, HeldBitmap
<1>4. Extends(p, m, n, BytesOf(b), b.offset)
  BY <1>2, <1>3, ExtendedFromSliceIs
<1> HIDE DEF p, v
<1>5. GoodMutable(p) /\ p.length = m.length + n
  BY <1>4 DEF Extends
<1>6. Exact(m) => Starts(p.bytes, m.length, m.bytes) /\ GoesOn(p.bytes, m.length, n, BytesOf(b), b.offset)
  BY <1>4 DEF Extends
<1>7. Inv'
  BY <1>1, <1>5, MutablePut
<1>8. ASSUME ~SpareBytes PROVE Vecs!Next
  <2>1. Exact(m)
    BY <1>1, <1>8 DEF Fits
  <2>2. GoesOn(p.bytes, m.length, n, v, 0)
    <3>1. \A i \in 1 .. n : 0 + i = i
      OBVIOUS
    <3>2. \A i \in 1 .. n : p.bytes[m.length + i] = BytesOf(b)[b.offset + i]
      BY <1>6, <2>1 DEF GoesOn
    <3> QED BY <1>3, <3>1, <3>2 DEF GoesOn
  <2> QED BY <1>1, <1>3, <1>5, <1>6, <2>1, <2>2, ExtendStep DEF v
<1> QED BY <1>7, <1>8

LEMMA PopStep ==
  ASSUME Inv, NEW s \in Slots, Pop(s)
  PROVE  Inv' /\ Vecs!Next
<1> DEFINE m == slots[s]
           p == Popped(m)
           u == Held(s).bits
           v == ValueIn(p, memory)
           k == m.length - 1
           w == SubSeq(u, 1, Len(u) - 1)
<1>1. Holds(s, "mutable") /\ m.length > 0 /\ Put(s, p)
  BY DEF Pop
<1>2. /\ GoodMutable(m) /\ Held(s).kind = "mutable" /\ m.length \in Nat
      /\ u \in Bits /\ Len(u) = m.length /\ \A i \in 1 .. m.length : u[i] = m.bytes[i]
  BY <1>1, HeldMutable
<1>3. GoodMutable(p) /\ p.length = k /\ Starts(p.bytes, k, m.bytes)
  BY <1>1, <1>2, PoppedIs
<1> HIDE DEF p
<1>4. /\ Inv' /\ Becomes(s, "mutable", v) /\ v \in Bits /\ Len(v) = p.length
      /\ \A i \in 1 .. p.length : v[i] = p.bytes[i]
  BY <1>1, <1>3, MutablePut
<1>5. k \in Nat /\ Len(u) - 1 = k /\ k <= Len(u) /\ \A i \in 1 .. k : i \in 1 .. m.length
  BY <1>1, <1>2
<1> HIDE DEF u, v, m, k
<1>6. w \in Bits /\ Len(w) = k /\ \A i \in 1 .. k : w[i] = u[i]
  <2> DEFINE y == SubSeq(u, 1, k)
  <2>1. /\ y \in Bits /\ Len(y) = IF 1 <= k THEN k - 1 + 1 ELSE 0
        /\ \A i \in 1 .. k - 1 + 1 : y[i] = u[1 + i - 1]
    BY <1>2, <1>5, SubSeqIs
  <2>2. \A i \in 1 .. k : i \in 1 .. k - 1 + 1 /\ 1 + i - 1 = i
    BY <1>5
  <2>3. y = w
    BY <1>5
  <2> HIDE DEF w, y
  <2>4. Len(y) = k
    BY <1>5, <2>1
  <2>5. \A i \in 1 .. k : y[i] = u[i]
    BY <2>1, <2>2
  <2> QED BY <2>1, <2>3, <2>4, <2>5
<1>7. v = w
  <2>1. \A i \in 1 .. k : v[i] = w[i]
    BY <1>2, <1>3, <1>4, <1>5, <1>6 DEF Starts
  <2> HIDE DEF w
  <2> QED BY <1>3, <1>4, <1>6, <2>1, SameBits
<1>8. u # << >>
  BY <1>1, <1>2, <1>5
<1>9. Vecs!Step(Held(s), [kind |-> "mutable", bits |-> v])
  BY <1>2, <1>7, <1>8 DEF Vecs!Step, Vecs!Edited, u
<1> QED BY <1>4, <1>9, VecsNext

LEMMA SetStep ==
  ASSUME Inv, NEW s \in Slots, NEW i \in Nat, NEW b \in BOOLEAN, Set(s, i, b)
  PROVE  Inv' /\ Vecs!Next
<1> DEFINE m == slots[s]
           p == [m EXCEPT !.bytes[i + 1] = b]
           bytes == [m.bytes EXCEPT ![i + 1] = b]
           u == Held(s).bits
           v == ValueIn(p, memory)
           l == m.length
<1>1. Holds(s, "mutable") /\ i < l /\ Put(s, p)
  BY DEF Set
<1>2. /\ GoodMutable(m) /\ Held(s).kind = "mutable" /\ l \in Nat
      /\ u \in Bits /\ Len(u) = l /\ \A j \in 1 .. l : u[j] = m.bytes[j]
  BY <1>1, HeldMutable
<1>3. m.bytes \in Bits /\ Len(m.bytes) \in Nat /\ Whole(Len(m.bytes)) /\ l <= Len(m.bytes)
  BY <1>2, LastByte
<1>4. i + 1 \in 1 .. l
  BY <1>1, <1>2
<1>5. bytes \in Bits /\ Len(bytes) = Len(m.bytes) /\ \A j \in 1 .. l : j # i + 1 => bytes[j] = m.bytes[j]
  <2> DEFINE x == m.bytes
             k == i + 1
  <2>1. x \in Seq(BOOLEAN) /\ k \in 1 .. Len(x) /\ \A j \in 1 .. l : j \in 1 .. Len(x)
    <3> HIDE DEF l
    <3> QED BY <1>2, <1>3, <1>4 DEF Bits
  <2> HIDE DEF x, k, l
  <2>2. [x EXCEPT ![k] = b] \in Seq(BOOLEAN) /\ Len([x EXCEPT ![k] = b]) = Len(x)
    BY <2>1, ExceptSeq
  <2>3. \A j \in 1 .. l : j # k => [x EXCEPT ![k] = b][j] = x[j]
    BY <2>1
  <2> QED BY <2>2, <2>3 DEF Bits, x, k
<1>6. p.bytes = bytes /\ p.length = l /\ p = [m EXCEPT !.bytes = bytes]
  BY <1>2 DEF GoodMutable
<1>7. GoodMutable(p)
  <2> HIDE DEF bytes
  <2> QED BY <1>2, <1>3, <1>5, <1>6 DEF GoodMutable
<1> HIDE DEF p, bytes
<1>8. /\ Inv' /\ Becomes(s, "mutable", v) /\ v \in Bits /\ Len(v) = p.length
      /\ \A j \in 1 .. p.length : v[j] = p.bytes[j]
  BY <1>1, <1>7, MutablePut
<1> HIDE DEF u, v, l, m
<1>9. \A j \in 1 .. l : j # i + 1 => v[j] = u[j]
  BY <1>2, <1>5, <1>6, <1>8
<1>10. DOMAIN u = 1 .. l
  BY <1>2 DEF Bits
<1>11. Vecs!Step(Held(s), [kind |-> "mutable", bits |-> v])
  <2>1. Len(v) = Len(u) /\ \E j \in DOMAIN u : \A x \in DOMAIN u : x # j => v[x] = u[x]
    BY <1>2, <1>4, <1>6, <1>8, <1>9, <1>10
  <2>2. Vecs!Edited(u, v)
    BY <2>1 DEF Vecs!Edited
  <2> QED BY <1>2, <2>2 DEF Vecs!Step, u
<1> QED BY <1>8, <1>11, VecsNext

LEMMA EmptyValue ==
  ASSUME Inv, NEW s \in Slots, Put(s, Mutable(<< >>, 0))
  PROVE  Inv' /\ Becomes(s, "mutable", << >>)
<1> DEFINE p == Mutable(<< >>, 0)
           v == ValueIn(p, memory)
<1>1. GoodMutable(p) /\ p.length = 0 /\ Put(s, p)
  BY EmptyIs
<1> HIDE DEF p
<1>2. Inv' /\ Becomes(s, "mutable", v) /\ v \in Bits /\ Len(v) = 0
  BY <1>1, MutablePut
<1> HIDE DEF v
<1>3. v = << >>
  BY <1>2 DEF Bits
<1> QED BY <1>2, <1>3

LEMMA NewStep ==
  ASSUME Inv, NEW s \in Slots, New(s) \/ Clear(s)
  PROVE  Inv' /\ Vecs!Next
<1>1. Inv' /\ Becomes(s, "mutable", << >>)
  BY EmptyValue DEF New, Clear
<1>2. Held(s).kind = slots[s].kind
  BY DEF Held
<1>3. Vecs!Step(Held(s), [kind |-> "mutable", bits |-> << >>])
  BY <1>2 DEF New, Clear, Holds, Vecs!Step, Vecs!Edited
<1> QED BY <1>1, <1>3, VecsNext

LEMMA CollectStep ==
  ASSUME Inv, NEW s \in Slots, NEW t \in Slots, Collect(s, t)
  PROVE  Inv' /\ Vecs!Next
<1> DEFINE u == Held(t).bits
           p == Packed(u)
           v == ValueIn(p, memory)
<1>1. u \in Bits /\ u = Value(slots[t]) /\ Len(u) \in Nat
  BY HeldBits
<1>2. Holds(s, "none") /\ Put(s, p)
  BY <1>1 DEF Collect
<1>3. GoodMutable(p) /\ p.length = Len(u) /\ Starts(p.bytes, Len(u), u)
  BY <1>1, PackedIs
<1> HIDE DEF p
<1>4. /\ Inv' /\ Becomes(s, "mutable", v) /\ v \in Bits /\ Len(v) = p.length
      /\ \A i \in 1 .. p.length : v[i] = p.bytes[i]
  BY <1>2, <1>3, MutablePut
<1> HIDE DEF u, v
<1>5. v = u
  <2>1. \A i \in 1 .. Len(u) : v[i] = u[i]
    BY <1>3, <1>4 DEF Starts
  <2> QED BY <1>1, <1>3, <1>4, <2>1, SameBits
<1> DEFINE held == [x \in Slots |-> [kind |-> slots[x].kind, bits |-> Value(slots[x])]]
<1>6. held[t] = Held(t)
  BY HeldIs
<1>7. Held(s).kind = "none"
  BY <1>2 DEF Held, Holds
<1>8. Vecs!Step(Held(s), [kind |-> "mutable", bits |-> v])
  <2>1. v = held[t].bits
    <3> HIDE DEF held
    <3> QED BY <1>5, <1>6 DEF u
  <2> QED BY <1>7, <2>1 DEF Vecs!Step
<1> QED BY <1>4, <1>8, VecsNext

LEMMA NotAssignStep ==
  ASSUME Inv, NEW s \in Slots, NotAssign(s)
  PROVE  Inv' /\ Vecs!Next
<1> DEFINE m == slots[s]
           l == m.length
           x == m.bytes
           bytes == [i \in DOMAIN x |-> IF i <= Up(l) THEN ~x[i] ELSE x[i]]
           p == [m EXCEPT !.bytes = bytes]
           u == Held(s).bits
           v == ValueIn(p, memory)
<1>1. Holds(s, "mutable") /\ Put(s, p)
  BY DEF NotAssign, Up
<1>2. /\ GoodMutable(m) /\ Held(s).kind = "mutable" /\ l \in Nat
      /\ u \in Bits /\ Len(u) = l /\ \A j \in 1 .. l : u[j] = x[j]
  BY <1>1, HeldMutable
<1>3. x \in Bits /\ Len(x) \in Nat /\ Whole(Len(x)) /\ l <= Len(x)
  BY <1>2, LastByte
<1>4. Up(l) \in Nat /\ l <= Up(l)
  BY <1>2, UpIs
<1>5. bytes \in Bits /\ Len(bytes) = Len(x) /\ \A i \in 1 .. l : bytes[i] = ~x[i]
  <2> DEFINE k == Len(x)
  <2>1. x \in [1 .. k -> BOOLEAN] /\ DOMAIN x = 1 .. k /\ k \in Nat
    BY <1>3 DEF Bits
  <2> HIDE DEF x, l, k
  <2>2. bytes = [i \in 1 .. k |-> IF i <= Up(l) THEN ~x[i] ELSE x[i]]
    BY <2>1
  <2>3. bytes \in [1 .. k -> BOOLEAN]
    BY <2>1, <2>2
  <2>4. \A i \in 1 .. l : i \in 1 .. k /\ i <= Up(l)
    BY <1>2, <1>3, <1>4, <2>1 DEF k
  <2>5. \A i \in 1 .. l : bytes[i] = ~x[i]
    BY <2>2, <2>4
  <2> HIDE DEF bytes
  <2>6. bytes \in Bits /\ Len(bytes) = k
    BY <2>1, <2>3 DEF Bits
  <2> QED BY <2>5, <2>6 DEF k
<1> HIDE DEF bytes
<1>6. p.bytes = bytes /\ p.length = l /\ GoodMutable(p)
  BY <1>2, <1>3, <1>5 DEF GoodMutable
<1> HIDE DEF p
<1>7. /\ Inv' /\ Becomes(s, "mutable", v) /\ v \in Bits /\ Len(v) = p.length
      /\ \A j \in 1 .. p.length : v[j] = p.bytes[j]
  BY <1>1, <1>6, MutablePut
<1> HIDE DEF u, v, l, x
<1>8. \A i \in 1 .. l : v[i] = ~u[i]
  BY <1>2, <1>5, <1>6, <1>7
<1>9. DOMAIN u = 1 .. l
  BY <1>2 DEF Bits
<1>10. Vecs!Step(Held(s), [kind |-> "mutable", bits |-> v])
  <2>1. Vecs!Combined(u, v) /\ Len(v) = Len(u)
    BY <1>2, <1>6, <1>7, <1>8, <1>9 DEF Vecs!Combined
  <2> QED BY <1>2, <2>1 DEF Vecs!Step, Vecs!Kinds, u
<1> QED BY <1>7, <1>10, VecsNext

\* A MutableBitmap becomes the bitmap with its bits.
LEMMA FreezeStep ==
  ASSUME Inv, NEW s \in Slots, Freeze(s)
  PROVE  Inv' /\ Vecs!Next
<1> DEFINE m == slots[s]
           u == Held(s).bits
           v == Region(m.bytes, 0, m.length)
           l == m.length
<1>1. Holds(s, "mutable") /\ PutBitmap(s, m.bytes, l, FALSE)
  BY DEF Freeze
<1>2. /\ GoodMutable(m) /\ Held(s).kind = "mutable" /\ l \in Nat
      /\ u \in Bits /\ Len(u) = l /\ \A j \in 1 .. l : u[j] = m.bytes[j]
  BY <1>1, HeldMutable
<1>3. m.bytes \in Bits /\ Len(m.bytes) \in Nat /\ Whole(Len(m.bytes)) /\ l <= Len(m.bytes)
  BY <1>2, LastByte
<1>4. Inv' /\ Becomes(s, "bitmap", v)
  <2> DEFINE foreign == FALSE
  <2>1. foreign \in BOOLEAN /\ PutBitmap(s, m.bytes, l, foreign)
    BY <1>1
  <2> HIDE DEF foreign, m
  <2> QED BY <1>2, <1>3, <2>1, PutBitmapStep DEF Becomes
<1>5. v = u
  <2>1. 0 + l <= Len(m.bytes) /\ \A i \in 1 .. l : 0 + i = i
    <3> HIDE DEF l
    <3> QED BY <1>2, <1>3
  <2>2. v \in Bits /\ Len(v) = l /\ \A i \in 1 .. l : v[i] = m.bytes[0 + i]
    BY <1>2, <1>3, <2>1, RegionIs
  <2> HIDE DEF v, u, l
  <2> QED BY <1>2, <2>1, <2>2, SameBits
<1>6. Vecs!Step(Held(s), [kind |-> "bitmap", bits |-> v])
  BY <1>2, <1>5 DEF Vecs!Step, Vecs!Kinds
<1> QED BY <1>4, <1>6, VecsNext

LEMMA CloneStep ==
  ASSUME Inv, NEW s \in Slots, NEW t \in Slots, Clone(s, t)
  PROVE  Inv' /\ Vecs!Next
<1> DEFINE h == slots[s]
           v == ValueIn(h, memory)
           held == [x \in Slots |-> [kind |-> slots[x].kind, bits |-> Value(slots[x])]]
<1>1. h.kind = "bitmap" /\ Holds(t, "none") /\ Put(t, h)
  BY DEF Clone, Holds
<1>2. Good(h, memory)
  BY SlotIs
<1>3. Inv' /\ Changed(t, h, v)
  BY <1>1, <1>2, PutStep
<1>4. Becomes(t, "bitmap", v)
  BY <1>1, <1>3 DEF Becomes
<1>5. held[s] = Held(s)
  BY HeldIs
<1>6. Vecs!Step(Held(t), [kind |-> "bitmap", bits |-> v])
  <2>1. held[s] = [kind |-> "bitmap", bits |-> v]
    <3> HIDE DEF held
    <3> QED BY <1>1, <1>5 DEF Held
  <2> QED BY <1>1, <2>1 DEF Vecs!Step, Held, Holds
<1> QED BY <1>3, <1>4, <1>6, VecsNext

LEMMA SliceStep ==
  ASSUME Inv, NEW s \in Slots, NEW offset \in Nat, NEW n \in Nat, Slice(s, offset, n)
  PROVE  Inv' /\ Vecs!Next
<1> DEFINE b == slots[s]
           h == Sliced(b, offset, n)
           u == Held(s).bits
           v == ValueIn(h, memory)
           l == b.length
           x == BytesOf(b)
           w == SubSeq(u, offset + 1, offset + n)
<1>1. Holds(s, "bitmap") /\ offset + n <= l /\ Put(s, h)
  BY DEF Slice
<1>2. /\ GoodMemory(memory) /\ GoodBitmap(b, memory) /\ Held(s).kind = "bitmap"
      /\ l \in Nat /\ b.offset \in Nat /\ u \in Bits /\ Len(u) = l
      /\ \A i \in 1 .. l : u[i] = x[b.offset + i]
  BY <1>1, HeldBitmap
<1>3. /\ GoodBitmap(h, memory) /\ h.region = b.region
      /\ h.offset = b.offset + offset /\ h.length = n
  <2> HIDE DEF b
  <2> QED BY <1>1, <1>2, SlicedIs
<1> HIDE DEF h
<1>4. h.kind = "bitmap" /\ Good(h, memory)
  BY <1>3, Kinds DEF Good
<1>5. Inv' /\ Becomes(s, "bitmap", v)
  BY <1>1, <1>4, PutStep DEF Becomes
<1>6. /\ v \in Bits /\ Len(v) = n /\ \A i \in 1 .. n : v[i] = x[b.offset + offset + i]
  <2>1. /\ v \in Bits /\ Len(v) = h.length /\ \A i \in 1 .. h.length : v[i] = BitOf(h, memory, i)
    BY <1>2, <1>4, ValueIs
  <2> HIDE DEF v
  <2> QED BY <1>3, <1>4, <2>1 DEF BitOf, BytesOf
<1> HIDE DEF v, u, x, l
<1>7. w \in Bits /\ Len(w) = n /\ \A i \in 1 .. n : w[i] = u[offset + i]
  <2>1. w = Region(u, offset, n)
    BY DEF Region
  <2> HIDE DEF w
  <2>2. /\ Region(u, offset, n) \in Bits /\ Len(Region(u, offset, n)) = n
        /\ \A i \in 1 .. n : Region(u, offset, n)[i] = u[offset + i]
    BY <1>1, <1>2, RegionIs
  <2> QED BY <2>1, <2>2
<1>8. v = w
  <2>1. ASSUME NEW i \in 1 .. n PROVE v[i] = w[i]
    <3> DEFINE a == b.offset
    <3>1. a \in Nat
      BY <1>2
    <3> HIDE DEF a
    <3>2. offset + i \in 1 .. l /\ a + (offset + i) = a + offset + i
      BY <1>1, <1>2, <3>1
    <3> QED BY <1>2, <1>6, <1>7, <3>2 DEF a
  <2> HIDE DEF w
  <2> QED BY <1>6, <1>7, <2>1, SameBits
<1>9. Vecs!IsWindow(u, v)
  <2>1. offset \in 0 .. Len(u) - Len(v) /\ v = SubSeq(u, offset + 1, offset + Len(v))
    BY <1>1, <1>2, <1>6, <1>8
  <2> QED BY <2>1 DEF Vecs!IsWindow
<1>10. Vecs!Step(Held(s), [kind |-> "bitmap", bits |-> v])
  BY <1>2, <1>9 DEF Vecs!Step, u
<1> QED BY <1>5, <1>10, VecsNext

LEMMA ReleaseStep ==
  ASSUME Inv, NEW s \in Slots, Release(s)
  PROVE  Inv' /\ Vecs!Next
<1>1. None.kind = "none" /\ Good(None, memory) /\ Put(s, None)
  BY Kinds DEF Good, Release
<1>2. Inv' /\ Changed(s, None, ValueIn(None, memory))
  BY <1>1, PutStep
<1>3. ValueIn(None, memory) = << >>
  BY <1>1 DEF ValueIn
<1>4. Becomes(s, "none", << >>)
  BY <1>1, <1>2, <1>3 DEF Becomes
<1>5. Vecs!Step(Held(s), [kind |-> "none", bits |-> << >>])
  BY DEF Vecs!Step, Vecs!Nothing
<1> QED BY <1>2, <1>4, <1>5, VecsNext

\* The bytes taken out of the region of the one bitmap that held it.
LEMMA IntoMutStep ==
  ASSUME Inv, NEW s \in Slots, IntoMut(s)
  PROVE  Inv' /\ Vecs!Next
<1> DEFINE b == slots[s]
           x == BytesOf(b)
           l == b.length
           h == Mutable(x, l)
           u == Held(s).bits
           v == ValueIn(h, memory')
<1>1. /\ Holds(s, "bitmap") /\ Owns(b)
      /\ slots' = [slots EXCEPT ![s] = h] /\ memory' = [memory EXCEPT ![b.region] = Free]
  <2>1. slots' = [slots EXCEPT ![s] = Mutable(BytesOf(@), @.length)]
    BY DEF IntoMut
  <2>2. slots = [t \in Slots |-> slots[t]]
    BY DEF Inv
  <2> QED BY <2>1, <2>2 DEF IntoMut
<1>2. /\ GoodMemory(memory) /\ GoodBitmap(b, memory) /\ Held(s).kind = "bitmap"
      /\ l \in Nat /\ x \in Bits /\ Whole(Len(x)) /\ b.offset + l <= Len(x)
      /\ u \in Bits /\ Len(u) = l /\ \A i \in 1 .. l : u[i] = x[b.offset + i]
  BY <1>1, HeldBitmap
<1>3. b.offset = 0 /\ b.region \in Regions /\ Uses(b, b.region)
      /\ \A t \in Slots \ {s} : ~Uses(slots[t], b.region)
  <2>1. b.region \in Regions /\ Uses(b, b.region)
    BY <1>2, Kinds
  <2> QED BY <1>1, <2>1 DEF Owns, Shared
<1>4. \A i \in 1 .. l : u[i] = x[i] /\ l <= Len(x)
  <2> DEFINE a == b.offset
  <2>1. a = 0 /\ a + l <= Len(x) /\ \A i \in 1 .. l : u[i] = x[a + i]
    BY <1>2, <1>3
  <2> HIDE DEF a, x, l
  <2>2. \A i \in 1 .. l : a + i = i
    BY <2>1
  <2> QED BY <1>2, <2>1, <2>2
<1>5. GoodMutable(h) /\ h.bytes = x /\ h.length = l /\ h.kind = "mutable"
  <2>1. l <= Len(x)
    <3> DEFINE a == b.offset
    <3>1. a = 0 /\ a + l <= Len(x)
      BY <1>2, <1>3
    <3> HIDE DEF a, x, l
    <3> QED BY <1>2, <3>1
  <2> HIDE DEF x, l
  <2>2. x \in Bits /\ Whole(Len(x)) /\ l \in Nat
    BY <1>2
  <2>3. GoodMutable(h) /\ h.bytes = x /\ h.length = l
    BY <2>1, <2>2, MutableIs
  <2> QED BY <2>3, Kinds
<1>6. v = u
  <2>1. v = Take(x, l)
    BY <1>5 DEF ValueIn
  <2> HIDE DEF x, l, v, u
  <2>2. l <= Len(x) /\ Len(x) \in Nat
    BY <1>2, <1>5, BitsAt DEF GoodMutable
  <2>3. LeastOf(l, Len(x)) = l
    BY <1>2, <2>2 DEF LeastOf
  <2>4. /\ v \in Bits /\ Len(v) = LeastOf(l, Len(x)) /\ \A i \in 1 .. LeastOf(l, Len(x)) : v[i] = x[i]
    BY <1>2, <2>1, TakeIs
  <2> QED BY <1>2, <1>4, <2>3, <2>4, SameBits
<1> HIDE DEF h
<1>7. slots = [t \in Slots |-> slots[t]] /\ \A t \in Slots : Good(slots[t], memory)
  BY DEF Inv
<1>8. /\ slots' = [t \in Slots |-> slots'[t]] /\ slots'[s] = h
      /\ \A t \in Slots \ {s} : slots'[t] = slots[t]
  BY <1>1, <1>7
<1>9. /\ memory \in [Regions -> [bytes : Bits, foreign : BOOLEAN]] /\ memory'[b.region] = Free
      /\ \A r \in Regions \ {b.region} : memory'[r] = memory[r]
  BY <1>1, <1>2, <1>3 DEF GoodMemory
<1>10. GoodMemory(memory')
  <2>1. memory' \in [Regions -> [bytes : Bits, foreign : BOOLEAN]]
    BY <1>1, <1>9, FreeIs
  <2>2. \A r \in Regions : Whole(Len(memory'[r].bytes))
    BY <1>2, <1>9, FreeIs DEF GoodMemory
  <2> QED BY <2>1, <2>2 DEF GoodMemory
<1>11. ASSUME NEW t \in Slots \ {s}
       PROVE  Good(slots[t], memory') /\ ValueIn(slots[t], memory') = ValueIn(slots[t], memory)
  <2>1. \A r \in Regions : Uses(slots[t], r) => memory'[r] = memory[r]
    BY <1>3, <1>9
  <2> QED BY <1>7, <2>1, Elsewhere
<1>12. \A t \in Slots : Good(slots'[t], memory')
  <2>1. Good(h, memory')
    BY <1>5 DEF Good
  <2> QED BY <1>8, <1>11, <2>1
<1>13. ASSUME NEW r \in Regions, \A t \in Slots : ~Uses(slots'[t], r) PROVE memory'[r] = Free
  <2>1. CASE r = b.region
    BY <1>9, <2>1
  <2>2. CASE r # b.region
    <3>1. ~Uses(b, r)
      BY <2>2 DEF Uses
    <3>2. \A t \in Slots : ~Uses(slots[t], r)
      BY <1>8, <1>13, <3>1
    <3>3. memory[r] = Free
      BY <3>2 DEF Inv
    <3> QED BY <1>9, <2>2, <3>3
  <2> QED BY <2>1, <2>2
<1>14. Inv'
  BY <1>8, <1>10, <1>12, <1>13 DEF Inv
<1>15. Becomes(s, "mutable", v)
  BY <1>1, <1>5, <1>11 DEF Becomes, Changed
<1>16. Vecs!Step(Held(s), [kind |-> "mutable", bits |-> v])
  BY <1>2, <1>6 DEF Vecs!Step, Vecs!Kinds
<1> QED BY <1>14, <1>15, <1>16, VecsNext

\* The bytes of a bitmap that others share, or that starts past them, copied.
LEMMA MakeMutStep ==
  ASSUME Inv, NEW s \in Slots, MakeMut(s)
  PROVE  Inv' /\ Vecs!Next
<1> DEFINE b == slots[s]
           x == BytesOf(b)
           a == b.offset
           l == b.length
           c == IF a > 0 THEN BitChunks(x, a, l) ELSE x
           p == Mutable(c, l)
           u == Held(s).bits
           v == ValueIn(p, memory)
<1>1. Holds(s, "bitmap") /\ Put(s, p)
  BY DEF MakeMut
<1>2. /\ Held(s).kind = "bitmap" /\ l \in Nat /\ a \in Nat /\ x \in Bits /\ Whole(Len(x)) /\ a + l <= Len(x)
      /\ u \in Bits /\ Len(u) = l /\ \A i \in 1 .. l : u[i] = x[a + i]
  BY <1>1, HeldBitmap
<1> HIDE DEF x, a, l, u
<1>3. c \in Bits /\ Whole(Len(c)) /\ l <= Len(c) /\ \A i \in 1 .. l : c[i] = x[a + i]
  <2>1. CASE a > 0
    <3> DEFINE r == BitChunks(x, a, l)
               k == FullChunks(l) + Chunk
    <3>1. r \in Bits /\ Len(r) = k /\ GoesOn(r, 0, l, x, a)
      BY <1>2, BitChunksIs
    <3>2. k \in Nat /\ Whole(k) /\ l <= k
      BY <1>2, ChunksFit
    <3>3. c = r
      BY <2>1
    <3> HIDE DEF r, k, c
    <3>4. \A i \in 1 .. l : 0 + i = i
      OBVIOUS
    <3>5. \A i \in 1 .. l : c[i] = x[a + i]
      BY <3>1, <3>3, <3>4 DEF GoesOn
    <3> QED BY <3>1, <3>2, <3>3, <3>5
  <2>2. CASE ~ (a > 0)
    <3>1. c = x
      BY <2>2
    <3>2. a = 0
      BY <1>2, <2>2
    <3> HIDE DEF c
    <3>3. l <= Len(x) /\ \A i \in 1 .. l : a + i = i
      BY <1>2, <3>2
    <3>4. \A i \in 1 .. l : c[i] = x[a + i]
      BY <3>1, <3>3
    <3> QED BY <1>2, <3>1, <3>3, <3>4
  <2> QED BY <2>1, <2>2
<1> HIDE DEF c
<1>4. GoodMutable(p) /\ p.bytes = c /\ p.length = l
  BY <1>2, <1>3, MutableIs
<1> HIDE DEF p
<1>5. /\ Inv' /\ Becomes(s, "mutable", v) /\ v \in Bits /\ Len(v) = p.length
      /\ \A i \in 1 .. p.length : v[i] = p.bytes[i]
  BY <1>1, <1>4, MutablePut
<1> HIDE DEF v
<1>6. v = u
  <2>1. \A i \in 1 .. l : v[i] = u[i]
    BY <1>2, <1>3, <1>4, <1>5
  <2> QED BY <1>2, <1>4, <1>5, <2>1, SameBits
<1>7. Vecs!Step(Held(s), [kind |-> "mutable", bits |-> v])
  BY <1>2, <1>6 DEF Vecs!Step, Vecs!Kinds, u
<1> QED BY <1>5, <1>7, VecsNext

\* A bitmap made of n new bits.
LEMMA ResultPut ==
  ASSUME Inv, NEW s \in Slots, NEW r, NEW n \in Nat, Result(r, n), PutBitmap(s, r, n, FALSE)
  PROVE  LET v == Region(r, 0, n)
         IN  /\ Inv' /\ Becomes(s, "bitmap", v) /\ v \in Bits /\ Len(v) = n
             /\ \A i \in 1 .. n : v[i] = r[i]
<1> DEFINE v == Region(r, 0, n)
           foreign == FALSE
<1>1. r \in Bits /\ Whole(Len(r)) /\ n <= Len(r)
  BY DEF Result
<1>2. foreign \in BOOLEAN /\ PutBitmap(s, r, n, foreign)
  OBVIOUS
<1> HIDE DEF foreign
<1>3. Inv' /\ Becomes(s, "bitmap", v)
  BY <1>1, <1>2, PutBitmapStep DEF Becomes
<1>4. 0 \in Nat /\ 0 + n <= Len(r) /\ \A i \in 1 .. n : 0 + i = i
  BY <1>1
<1>5. v \in Bits /\ Len(v) = n /\ \A i \in 1 .. n : v[i] = r[0 + i]
  BY <1>1, <1>4, RegionIs
<1> HIDE DEF v
<1>6. \A i \in 1 .. n : v[i] = r[i]
  BY <1>4, <1>5
<1> QED BY <1>3, <1>5, <1>6 DEF v

LEMMA NotOpStep ==
  ASSUME Inv, NEW s \in Slots, NotOp(s)
  PROVE  Inv' /\ Vecs!Next
<1> DEFINE b == slots[s]
           x == BytesOf(b)
           a == b.offset
           l == b.length
           r == Negated(Chunks(x, a, l))
           u == Held(s).bits
           v == Region(r, 0, l)
<1>1. Holds(s, "bitmap") /\ PutBitmap(s, r, l, FALSE)
  BY DEF NotOp
<1>2. /\ GoodMemory(memory) /\ GoodBitmap(b, memory) /\ Held(s).kind = "bitmap"
      /\ l \in Nat /\ a \in Nat /\ x \in Bits /\ Len(u) = l
      /\ u \in Bits /\ \A i \in 1 .. l : u[i] = x[a + i]
  BY <1>1, HeldBitmap
<1>3. Result(r, l) /\ \A i \in 1 .. l : r[i] = ~x[a + i]
  BY <1>2, NegatedIs
<1> HIDE DEF x, a, l, u, r
<1>4. Inv' /\ Becomes(s, "bitmap", v) /\ v \in Bits /\ Len(v) = l /\ \A i \in 1 .. l : v[i] = r[i]
  <2>1. Inv /\ s \in Slots /\ l \in Nat /\ Result(r, l) /\ PutBitmap(s, r, l, FALSE)
    BY <1>1, <1>2, <1>3
  <2>2. LET w == Region(r, 0, l)
        IN  Inv' /\ Becomes(s, "bitmap", w) /\ w \in Bits /\ Len(w) = l /\ \A i \in 1 .. l : w[i] = r[i]
    BY <2>1, ResultPut, Zenon
  <2> QED BY <2>2
<1> HIDE DEF v
<1>5. DOMAIN u = 1 .. l /\ \A i \in 1 .. l : v[i] = ~u[i]
  BY <1>2, <1>3, <1>4 DEF Bits
<1>6. Vecs!Step(Held(s), [kind |-> "bitmap", bits |-> v])
  <2>1. Vecs!Combined(u, v) /\ Len(v) = Len(u)
    BY <1>2, <1>4, <1>5 DEF Vecs!Combined
  <2> QED BY <1>2, <2>1 DEF Vecs!Step, Vecs!Kinds, u
<1> QED BY <1>4, <1>6, VecsNext

\* A vector that has combined its bits with those of a bitmap, bit by bit.
LEMMA CombinedStep ==
  ASSUME Inv, NEW s \in Slots, NEW t \in Slots, NEW v \in Bits, NEW n \in Nat, NEW op \in Ops,
         Held(s).kind \in {"bitmap", "mutable"}, Becomes(s, Held(s).kind, v), Len(v) = n,
         Held(s).bits \in Bits, Len(Held(s).bits) = n,
         Held(t).kind = "bitmap", Len(Held(t).bits) = n,
         \A i \in 1 .. n : v[i] = Apply(op, Held(s).bits[i], Held(t).bits[i])
  PROVE  Vecs!Next
<1> DEFINE u == Held(s).bits
           w == Held(t).bits
           held == [x \in Slots |-> [kind |-> slots[x].kind, bits |-> Value(slots[x])]]
<1>1. held[t] = Held(t)
  BY HeldIs
<1>2. DOMAIN u = 1 .. n
  BY DEF Bits
<1>3. \/ \A i \in DOMAIN u : v[i] = (u[i] /\ w[i])
      \/ \A i \in DOMAIN u : v[i] = (u[i] \/ w[i])
      \/ \A i \in DOMAIN u : v[i] = (u[i] # w[i])
  <2>1. \A i \in 1 .. n : v[i] = Apply(op, u[i], w[i])
    OBVIOUS
  <2>2. op \in {"and", "or", "xor"}
    BY DEF Ops
  <2> HIDE DEF u, w
  <2>3. CASE op = "and"
    BY <1>2, <2>1, <2>3, Zenon DEF Apply
  <2>4. CASE op = "or"
    <3>1. \A i \in 1 .. n : Apply(op, u[i], w[i]) = (u[i] \/ w[i])
      BY <2>4 DEF Apply
    <3> QED BY <1>2, <2>1, <3>1, Zenon
  <2>5. CASE op = "xor"
    <3>1. \A i \in 1 .. n : Apply(op, u[i], w[i]) = (u[i] # w[i])
      BY <2>5 DEF Apply
    <3> QED BY <1>2, <2>1, <3>1, Zenon
  <2> QED BY <2>2, <2>3, <2>4, <2>5, Zenon
<1>4. Vecs!Combined(u, v)
  <2>1. held[t].kind = "bitmap" /\ Len(held[t].bits) = Len(u) /\ held[t].bits = w
    <3> HIDE DEF held
    <3> QED BY <1>1
  <2> HIDE DEF u, w
  <2> QED BY <1>3, <2>1 DEF Vecs!Combined
<1>5. Vecs!Step(Held(s), [kind |-> Held(s).kind, bits |-> v])
  BY <1>4 DEF Vecs!Step, Vecs!Kinds
<1> QED BY <1>5, VecsNext

LEMMA BinaryOpStep ==
  ASSUME Inv, NEW s \in Slots, NEW t \in Slots, NEW op \in Ops, BinaryOp(op, s, t)
  PROVE  Inv' /\ Vecs!Next
<1> DEFINE b == slots[s]
           c == slots[t]
           l == b.length
           r == Combined(op, b, c)
           v == Region(r, 0, l)
           x(i) == BytesOf(b)[b.offset + i]
           y(i) == BytesOf(c)[c.offset + i]
<1>1. Holds(s, "bitmap") /\ Holds(t, "bitmap") /\ l = c.length /\ PutBitmap(s, r, l, FALSE)
  BY DEF BinaryOp
<1>2. /\ GoodMemory(memory) /\ GoodBitmap(b, memory) /\ Held(s).kind = "bitmap" /\ l \in Nat
      /\ Held(s).bits \in Bits /\ Len(Held(s).bits) = l /\ \A i \in 1 .. l : Held(s).bits[i] = x(i)
  BY <1>1, HeldBitmap
<1>3. /\ GoodBitmap(c, memory) /\ Held(t).kind = "bitmap" /\ Len(Held(t).bits) = c.length
      /\ \A i \in 1 .. c.length : Held(t).bits[i] = y(i)
  BY <1>1, HeldBitmap
<1>4. Result(r, l) /\ \A i \in 1 .. l : r[i] = Apply(op, x(i), y(i))
  BY <1>1, <1>2, <1>3, CombinedIs
<1> HIDE DEF r, x, y
<1>5. Inv' /\ Becomes(s, "bitmap", v) /\ v \in Bits /\ Len(v) = l /\ \A i \in 1 .. l : v[i] = r[i]
  BY <1>1, <1>2, <1>4, ResultPut
<1> HIDE DEF v, l
<1>6. \A i \in 1 .. l : v[i] = Apply(op, Held(s).bits[i], Held(t).bits[i])
  <2> TAKE i \in 1 .. l
  <2>1. v[i] = Apply(op, x(i), y(i)) /\ Held(s).bits[i] = x(i) /\ Held(t).bits[i] = y(i)
    BY <1>1, <1>2, <1>3, <1>4, <1>5
  <2> QED BY <2>1, Zenon
<1>7. Len(Held(t).bits) = l
  BY <1>1, <1>3
<1>8. Vecs!Next
  BY <1>2, <1>3, <1>5, <1>6, <1>7, CombinedStep
<1> QED BY <1>5, <1>8

LEMMA AssignOpStep ==
  ASSUME Inv, NEW s \in Slots, NEW t \in Slots, NEW op \in Ops, AssignOp(op, s, t)
  PROVE  Inv' /\ Vecs!Next
<1> DEFINE m == slots[s]
           c == slots[t]
           l == m.length
           p == Assigned(op, m, c)
           v == ValueIn(p, memory)
           y(i) == BytesOf(c)[c.offset + i]
<1>1. Holds(s, "mutable") /\ Holds(t, "bitmap") /\ l = c.length /\ Put(s, p)
  BY DEF AssignOp
<1>2. /\ GoodMutable(m) /\ Held(s).kind = "mutable" /\ l \in Nat
      /\ Held(s).bits \in Bits /\ Len(Held(s).bits) = l /\ \A i \in 1 .. l : Held(s).bits[i] = m.bytes[i]
  BY <1>1, HeldMutable
<1>3. /\ GoodMemory(memory) /\ GoodBitmap(c, memory) /\ Held(t).kind = "bitmap" /\ Len(Held(t).bits) = c.length
      /\ \A i \in 1 .. c.length : Held(t).bits[i] = y(i)
  BY <1>1, HeldBitmap
<1>4. /\ GoodMutable(p) /\ p.length = l
      /\ \A i \in 1 .. l : p.bytes[i] = Apply(op, m.bytes[i], y(i))
  BY <1>1, <1>2, <1>3, AssignedIs
<1> HIDE DEF p, y
<1>5. /\ Inv' /\ Becomes(s, "mutable", v) /\ v \in Bits /\ Len(v) = p.length
      /\ \A i \in 1 .. p.length : v[i] = p.bytes[i]
  BY <1>1, <1>4, MutablePut
<1> HIDE DEF v, l
<1>6. \A i \in 1 .. l : v[i] = Apply(op, Held(s).bits[i], Held(t).bits[i])
  <2> TAKE i \in 1 .. l
  <2>1. v[i] = Apply(op, m.bytes[i], y(i)) /\ Held(s).bits[i] = m.bytes[i] /\ Held(t).bits[i] = y(i)
    BY <1>1, <1>2, <1>3, <1>4, <1>5
  <2> QED BY <2>1, Zenon
<1>7. Len(Held(t).bits) = l /\ Len(v) = l
  BY <1>1, <1>3, <1>4, <1>5
<1>8. Vecs!Next
  BY <1>2, <1>3, <1>5, <1>6, <1>7, CombinedStep
<1> QED BY <1>5, <1>8
-----------------------------------------------------------------------------
LEMMA StartIs ==
  ASSUME Init
  PROVE  Inv /\ Vecs!Init
<1>1. PICK s \in Slots, bytes \in Given : \E length \in 0 .. LeastOf(MaxBits, Len(bytes)) :
        \/ /\ slots = [t \in Slots |-> IF t = s THEN Mutable(bytes, length) ELSE None]
           /\ memory = [r \in Regions |-> Free]
        \/ \E foreign \in BOOLEAN :
             /\ slots = [t \in Slots |-> IF t = s THEN Window(1, bytes, length) ELSE None]
             /\ memory = [r \in Regions |->
                  IF r = 1 THEN [bytes |-> bytes, foreign |-> foreign] ELSE Free]
  BY DEF Init
<1>2. PICK length \in 0 .. LeastOf(MaxBits, Len(bytes)) :
        \/ /\ slots = [t \in Slots |-> IF t = s THEN Mutable(bytes, length) ELSE None]
           /\ memory = [r \in Regions |-> Free]
        \/ \E foreign \in BOOLEAN :
             /\ slots = [t \in Slots |-> IF t = s THEN Window(1, bytes, length) ELSE None]
             /\ memory = [r \in Regions |->
                  IF r = 1 THEN [bytes |-> bytes, foreign |-> foreign] ELSE Free]
  BY <1>1
<1>3. bytes \in Bits /\ Whole(Len(bytes)) /\ Len(bytes) \in Nat /\ length \in Nat /\ length <= Len(bytes)
  <2>1. bytes \in Bits /\ Len(bytes) % W = 0 /\ Len(bytes) \in Nat
    BY BitmapsAssumption, BitsAt DEF Bits
  <2>2. Whole(Len(bytes))
    BY <2>1, WholeMod
  <2>3. length \in Nat /\ length <= Len(bytes)
    BY <2>1, BitmapsAssumption DEF LeastOf
  <2> QED BY <2>1, <2>2, <2>3
<1>4. 1 \in Regions
  <2>1. Cardinality(Slots) \in Nat /\ Cardinality(Slots) # 0
    BY BitmapsAssumption, FS_CardinalityType, FS_EmptySet
  <2> QED BY <2>1 DEF Regions
<1>5. Good(None, memory) /\ None.kind = "none" /\ \A r \in Regions : ~Uses(None, r)
  BY DEF Good, None, Uses
<1>6. Inv
  <2>1. CASE /\ slots = [t \in Slots |-> IF t = s THEN Mutable(bytes, length) ELSE None]
             /\ memory = [r \in Regions |-> Free]
    <3>1. GoodMutable(Mutable(bytes, length))
      BY <1>3, MutableIs
    <3>2. GoodMemory(memory)
      BY <2>1, FreeIs DEF GoodMemory
    <3>3. \A t \in Slots : Good(slots[t], memory)
      BY <1>5, <2>1, <3>1 DEF Good
    <3>4. slots = [t \in Slots |-> slots[t]] /\ \A r \in Regions : memory[r] = Free
      BY <2>1
    <3> QED BY <3>2, <3>3, <3>4 DEF Inv
  <2>2. ASSUME NEW foreign \in BOOLEAN,
               slots = [t \in Slots |-> IF t = s THEN Window(1, bytes, length) ELSE None],
               memory = [r \in Regions |->
                  IF r = 1 THEN [bytes |-> bytes, foreign |-> foreign] ELSE Free]
        PROVE  Inv
    <3> DEFINE w == Window(1, bytes, length)
    <3>1. GoodMemory(memory) /\ memory[1].bytes = bytes
      <4>1. \A r \in Regions : memory[r] = [bytes |-> bytes, foreign |-> foreign] \/ memory[r] = Free
        BY <2>2
      <4>2. \A r \in Regions : memory[r] \in [bytes : Bits, foreign : BOOLEAN] /\ Whole(Len(memory[r].bytes))
        BY <1>3, <4>1, FreeIs
      <4>3. memory = [r \in Regions |-> memory[r]]
        BY <2>2
      <4>4. memory[1].bytes = bytes
        BY <1>4, <2>2
      <4> QED BY <4>2, <4>3, <4>4 DEF GoodMemory
    <3>2. GoodBitmap(w, memory) /\ w.kind = "bitmap" /\ w.region = 1
      <4>1. length <= Len(memory[1].bytes)
        BY <1>3, <3>1
      <4>2. LET x == Window(1, memory[1].bytes, length)
            IN  GoodBitmap(x, memory) /\ x.kind = "bitmap" /\ x.region = 1
        BY <1>3, <1>4, <3>1, <4>1, WindowIs
      <4> QED BY <3>1, <4>2
    <3>3. slots = [t \in Slots |-> slots[t]] /\ slots[s] = w /\ \A t \in Slots \ {s} : slots[t] = None
      BY <2>2
    <3> HIDE DEF w
    <3>4. \A t \in Slots : Good(slots[t], memory)
      BY <1>5, <3>2, <3>3 DEF Good
    <3>5. \A r \in Regions : r # 1 => memory[r] = Free
      BY <2>2
    <3>6. Uses(slots[s], 1)
      BY <3>2, <3>3 DEF Uses
    <3> QED BY <3>1, <3>3, <3>4, <3>5, <3>6 DEF Inv
  <2> QED BY <1>2, <2>1, <2>2
<1>7. Vecs!Init
  <2> DEFINE held == [t \in Slots |-> [kind |-> slots[t].kind, bits |-> Value(slots[t])]]
  <2>1. DOMAIN held = Slots
    OBVIOUS
  <2>2. ASSUME NEW t \in Slots
        PROVE  held[t] = Vecs!Nothing \/ (held[t].kind \in Vecs!Kinds /\ held[t].bits \in Seq(BOOLEAN))
    <3>1. GoodMemory(memory) /\ Good(slots[t], memory) /\ slots[t].kind \in {"none", "mutable", "bitmap"}
      BY <1>6, SlotIs
    <3>2. Value(slots[t]) \in Seq(BOOLEAN) /\ (slots[t].kind = "none" => Value(slots[t]) = << >>)
      BY <3>1, ValueIs DEF Bits
    <3>3. held[t] = [kind |-> slots[t].kind, bits |-> Value(slots[t])]
      OBVIOUS
    <3> HIDE DEF held
    <3> QED BY <3>1, <3>2, <3>3 DEF Vecs!Nothing, Vecs!Kinds
  <2> HIDE DEF held
  <2> QED BY <2>1, <2>2 DEF Vecs!Init, held
<1> QED BY <1>6, <1>7

LEMMA NextStep ==
  ASSUME Inv, Next
  PROVE  Inv' /\ (~SpareBytes => Vecs!Next)
<1>1. PICK s \in Slots :
        \/ \E b \in BOOLEAN :
             \/ Push(s, b)
             \/ \E i \in 0 .. MaxBits : Set(s, i, b) \/ ExtendConstant(s, i, b)
        \/ New(s) \/ Pop(s) \/ Clear(s) \/ Freeze(s) \/ IntoMut(s) \/ MakeMut(s) \/ Release(s)
        \/ NotOp(s) \/ NotAssign(s)
        \/ \E offset, n \in 0 .. MaxBits : Slice(s, offset, n)
        \/ \E t \in Slots :
             \/ Collect(s, t) \/ ExtendFromTrustedLenIter(s, t)
             \/ ExtendFromBitmap(s, t) \/ Clone(s, t)
             \/ \E op \in Ops : BinaryOp(op, s, t) \/ AssignOp(op, s, t)
  BY DEF Next
<1>2. \A i \in 0 .. MaxBits : i \in Nat
  BY BitmapsAssumption
<1> DEFINE goal == Inv' /\ (~SpareBytes => Vecs!Next)
<1>3. ASSUME NEW b \in BOOLEAN, Push(s, b) PROVE goal
  BY <1>3, PushStep
<1>4. ASSUME NEW b \in BOOLEAN, NEW i \in 0 .. MaxBits, Set(s, i, b) PROVE goal
  BY <1>2, <1>4, SetStep
<1>5. ASSUME NEW b \in BOOLEAN, NEW i \in 0 .. MaxBits, ExtendConstant(s, i, b) PROVE goal
  BY <1>2, <1>5, ExtendConstantStep
<1>6. ASSUME New(s) \/ Clear(s) PROVE goal
  BY <1>6, NewStep
<1>7. ASSUME Pop(s) PROVE goal
  BY <1>7, PopStep
<1>8. ASSUME Freeze(s) PROVE goal
  BY <1>8, FreezeStep
<1>9. ASSUME IntoMut(s) PROVE goal
  BY <1>9, IntoMutStep
<1>10. ASSUME MakeMut(s) PROVE goal
  BY <1>10, MakeMutStep
<1>11. ASSUME Release(s) PROVE goal
  BY <1>11, ReleaseStep
<1>12. ASSUME NotOp(s) PROVE goal
  BY <1>12, NotOpStep
<1>13. ASSUME NotAssign(s) PROVE goal
  BY <1>13, NotAssignStep
<1>14. ASSUME NEW offset \in 0 .. MaxBits, NEW n \in 0 .. MaxBits, Slice(s, offset, n) PROVE goal
  BY <1>2, <1>14, SliceStep
<1>15. ASSUME NEW t \in Slots, Collect(s, t) PROVE goal
  BY <1>15, CollectStep
<1>16. ASSUME NEW t \in Slots, ExtendFromTrustedLenIter(s, t) PROVE goal
  BY <1>16, ExtendFromIterStep
<1>17. ASSUME NEW t \in Slots, ExtendFromBitmap(s, t) PROVE goal
  BY <1>17, ExtendFromBitmapStep
<1>18. ASSUME NEW t \in Slots, Clone(s, t) PROVE goal
  BY <1>18, CloneStep
<1>19. ASSUME NEW t \in Slots, NEW op \in Ops, BinaryOp(op, s, t) PROVE goal
  BY <1>19, BinaryOpStep
<1>20. ASSUME NEW t \in Slots, NEW op \in Ops, AssignOp(op, s, t) PROVE goal
  BY <1>20, AssignOpStep
<1> HIDE DEF goal
<1>21. ASSUME \E b \in BOOLEAN :
               \/ Push(s, b)
               \/ \E i \in 0 .. MaxBits : Set(s, i, b) \/ ExtendConstant(s, i, b)
      PROVE  goal
  BY <1>3, <1>4, <1>5, <1>21, Zenon
<1>22. ASSUME \E offset, n \in 0 .. MaxBits : Slice(s, offset, n)
      PROVE  goal
  BY <1>14, <1>22, Zenon
<1>23. ASSUME \E t \in Slots :
               \/ Collect(s, t) \/ ExtendFromTrustedLenIter(s, t)
               \/ ExtendFromBitmap(s, t) \/ Clone(s, t)
               \/ \E op \in Ops : BinaryOp(op, s, t) \/ AssignOp(op, s, t)
      PROVE  goal
  BY <1>15, <1>16, <1>17, <1>18, <1>19, <1>20, <1>23, Zenon
<1>24. goal
  BY <1>1, <1>6, <1>7, <1>8, <1>9, <1>10, <1>11, <1>12, <1>13, <1>21, <1>22, <1>23, Zenon
<1> QED BY <1>24 DEF goal

LEMMA Stutter ==
  ASSUME UNCHANGED vars
  PROVE  (Inv => Inv') /\ UNCHANGED [s \in Slots |-> [kind |-> slots[s].kind, bits |-> Value(slots[s])]]
BY DEF vars, Inv, Value, BytesOf

LEMMA InvIsKept == Spec => []Inv
<1>1. Init => Inv
  BY StartIs
<1>2. Inv /\ [Next]_vars => Inv'
  BY NextStep, Stutter
<1> QED BY <1>1, <1>2, PTL DEF Spec

LEMMA InvTells ==
  ASSUME Inv
  PROVE  BitmapsInv /\ UnsetIsCached
<1>1. ASSUME NEW s \in Slots PROVE WellFormed(slots[s])
  <2> DEFINE h == slots[s]
  <2>1. GoodMemory(memory) /\ Good(h, memory) /\ h.kind \in {"none", "mutable", "bitmap"}
    BY SlotIs
  <2>2. CASE h.kind = "none"
    BY <2>1, <2>2, Kinds DEF WellFormed
  <2>3. CASE h.kind = "mutable"
    <3>1. GoodMutable(h)
      BY <2>1, <2>3, Kinds
    <3>2. /\ Whole(Len(h.bytes)) /\ Len(h.bytes) \in Nat /\ h.length <= Len(h.bytes)
      BY <3>1, LastByte
    <3>3. Len(h.bytes) % W = 0
      <4> DEFINE l == Len(h.bytes)
      <4>1. l \in Nat /\ Whole(l)
        BY <3>2
      <4> HIDE DEF l
      <4>2. l % W = 0
        BY <4>1, WholeMod
      <4> QED BY <4>2 DEF l
    <3> QED BY <2>3, <3>2, <3>3 DEF WellFormed
  <2>4. CASE h.kind = "bitmap"
    <3>1. GoodBitmap(h, memory)
      BY <2>1, <2>4, Kinds
    <3> QED BY <2>1, <2>4, <3>1, BitmapIs DEF WellFormed
  <2> QED BY <2>1, <2>2, <2>3, <2>4
<1>2. ASSUME NEW r \in Regions
      PROVE  /\ Len(memory[r].bytes) % W = 0
             /\ (\A s \in Slots : ~Uses(slots[s], r)) => memory[r] = Free
  <2> DEFINE l == Len(memory[r].bytes)
  <2>1. Whole(l)
    BY DEF Inv, GoodMemory
  <2> HIDE DEF l
  <2>2. l % W = 0
    BY <2>1, WholeNat, WholeMod
  <2> QED BY <2>2 DEF Inv, l
<1>3. ASSUME NEW s \in Slots, Holds(s, "bitmap") PROVE slots[s].unset = Count(Value(slots[s]), FALSE)
  <2> DEFINE b == slots[s]
             v == Held(s).bits
             x == BytesOf(b)
             a == b.offset
             n == b.length
  <2>1. /\ GoodMemory(memory) /\ GoodBitmap(b, memory) /\ n \in Nat /\ a \in Nat
        /\ x \in Bits /\ a + n <= Len(x)
        /\ v \in Bits /\ Len(v) = n /\ \A i \in 1 .. n : v[i] = x[a + i]
    BY <1>3, HeldBitmap
  <2>2. v = Value(b)
    BY HeldBits
  <2>3. b.unset = Number(Zeros(x), a + 1, a + n)
    BY <2>1, BitmapIs
  <2> HIDE DEF v, x, a, n
  <2>4. Count(v, FALSE) = Number(Zeros(x), a + 1, a + n)
    <3>1. a + Len(v) <= Len(x) /\ \A i \in 1 .. Len(v) : v[i] = x[a + i]
      BY <2>1
    <3>2. Count(v, FALSE) = Number(Zeros(x), a + 1, a + Len(v))
      BY <2>1, <3>1, CountIs
    <3> QED BY <2>1, <3>2
  <2> QED BY <2>2, <2>3, <2>4
<1> QED BY <1>1, <1>2, <1>3 DEF BitmapsInv, UnsetIsCached

\* Through every operation of Bitmap and MutableBitmap, by any number of owners: the
\* bytes are whole, a window lies in them, a region that is no longer used is freed,
\* and the number of unset bits a Bitmap carries (Bitmap::slice, try_new, into_mut)
\* is the number of those it has.
THEOREM BitmapsAreKept == Spec => [](BitmapsInv /\ UnsetIsCached)
<1>1. Inv => BitmapsInv /\ UnsetIsCached
  BY InvTells
<1> QED BY <1>1, InvIsKept, PTL

\* Bitmaps whose bytes are no more than their bits take are vectors of bits: what an
\* operation of bitmap/mutable.rs, bitmap_ops.rs or assign_ops.rs does with bytes,
\* chunks and remainders is what Vec<bool> would do with the bits, and no owner sees
\* another's writes. (MutableBitmap::from_vec and try_new take longer bytes.)
THEOREM BitmapsImplementVectors ==
  ASSUME ~SpareBytes
  PROVE  Spec => BitmapsAreVectors
<1> DEFINE held == [s \in Slots |-> [kind |-> slots[s].kind, bits |-> Value(slots[s])]]
<1>1. Init => Vecs!Init
  BY StartIs
<1>2. Inv /\ [Next]_vars => [Vecs!Next]_held
  BY NextStep, Stutter
<1>3. Spec => Vecs!Spec
  BY <1>1, <1>2, InvIsKept, PTL DEF Spec, Vecs!Spec
<1> QED BY <1>3 DEF BitmapsAreVectors
-----------------------------------------------------------------------------
(* The iterator over the runs of set bits.                                  *)

\* What Bitmap::as_slice gives: bytes, an offset in the first of them, and a length
\* that fits in them.
IsBitmap(b) ==
  /\ b \in [bytes : Seq([1 .. ByteBits -> BOOLEAN]), offset : 0 .. ByteBits - 1, length : Nat]
  /\ b.offset + b.length <= ByteBits * Len(b.bytes)

\* How far the slices ss reach.
ReachOf(ss) == IF ss = << >> THEN 0 ELSE ss[Len(ss)][1] + ss[Len(ss)][2]

\* How far those before the k-th reach.
ReachBefore(ss, k) == IF k = 1 THEN 0 ELSE ss[k - 1][1] + ss[k - 1][2]

AreRuns(ss) ==
  \A k \in 1 .. Len(ss) :
    /\ IsRun(ss[k][1], ss[k][2])
    /\ \A i \in ReachBefore(ss, k) .. ss[k][1] - 1 : ~BitAt(i)

\* The bits from it.start on that the iterator has read are one value, those between
\* them and the slices ss unset.
HasRead(it, ss) ==
  /\ it.start \in Nat /\ it.len \in Nat /\ it.onRegion \in BOOLEAN
  /\ it.start + it.len <= bitmap.length
  /\ \A i \in it.start .. it.start + it.len - 1 : BitAt(i) = it.onRegion
  /\ it.len = 0 => it.start = 0 /\ ~it.onRegion
  /\ it.onRegion /\ it.start > 0 => ~BitAt(it.start - 1)
  /\ ReachOf(ss) <= it.start
  /\ \A i \in ReachOf(ss) .. it.start - 1 : ~BitAt(i)

\* The mask stands at the next bit.
AtNextBit(it) ==
  it.start + it.len < bitmap.length =>
    bitmap.offset + it.start + it.len = ByteBits * (it.at - 1) + it.bit

IteratorType ==
  [at : Nat, bit : 0 .. ByteBits - 1, start : Nat, len : Nat, onRegion : BOOLEAN, finished : BOOLEAN]

SlicesInv ==
  /\ IsBitmap(bitmap)
  /\ iterator \in IteratorType /\ slices \in Seq(Nat \X Nat)
  /\ ReachOf(slices) \in Nat
  /\ AreRuns(slices)
  /\ ~iterator.finished =>
       /\ iterator.at \in 1 .. Len(bitmap.bytes)
       /\ HasRead(iterator, slices) /\ AtNextBit(iterator)
  /\ iterator.finished => \A i \in ReachOf(slices) .. bitmap.length - 1 : ~BitAt(i)

\* The bit under the mask.
LEMMA BitUnderMask ==
  ASSUME IsBitmap(bitmap), NEW at \in Nat \ {0}, NEW bit \in 0 .. ByteBits - 1, NEW i \in Nat,
         bitmap.offset + i = ByteBits * (at - 1) + bit
  PROVE  BitAt(i) = bitmap.bytes[at][bit + 1]
<1> DEFINE q == at - 1
<1>1. q \in Nat /\ ByteBits \in Nat \ {0}
  BY ByteBitsAssumption
<1>2. (ByteBits * q + bit) \div ByteBits = q /\ (ByteBits * q + bit) % ByteBits = bit
  BY <1>1, DivModUnique
<1>3. q + 1 = at
  OBVIOUS
<1> HIDE DEF q
<1>4. bitmap.offset + i = ByteBits * q + bit
  BY DEF q
<1> QED BY <1>2, <1>3, <1>4 DEF BitAt

\* A run that has ended is a slice.
LEMMA RunIsSlice ==
  ASSUME IsBitmap(bitmap), NEW it, NEW ss \in Seq(Nat \X Nat), HasRead(it, ss), AreRuns(ss), it.onRegion,
         it.start + it.len < bitmap.length => ~BitAt(it.start + it.len)
  PROVE  LET tt == Append(ss, << it.start, it.len >>)
         IN  tt \in Seq(Nat \X Nat) /\ AreRuns(tt) /\ ReachOf(tt) = it.start + it.len
<1> DEFINE tt == Append(ss, << it.start, it.len >>)
           n == Len(ss)
<1>1. n \in Nat /\ it.start \in Nat /\ it.len \in Nat
  BY DEF HasRead
<1>2. /\ tt \in Seq(Nat \X Nat) /\ Len(tt) = n + 1
      /\ tt[n + 1] = << it.start, it.len >> /\ \A k \in 1 .. n : tt[k] = ss[k]
  BY <1>1
<1>3. ReachOf(tt) = it.start + it.len
  <2> HIDE DEF tt
  <2> QED BY <1>1, <1>2 DEF ReachOf
<1>4. IsRun(it.start, it.len)
  <2>1. bitmap.length \in Nat /\ it.onRegion = TRUE
    BY DEF IsBitmap, HasRead
  <2>4. it.start + it.len <= bitmap.length
    BY DEF HasRead
  <2>2. it.start + it.len = bitmap.length \/ it.start + it.len < bitmap.length
    BY <1>1, <2>1, <2>4
  <2>3. \A i \in it.start .. it.start + it.len - 1 : BitAt(i) = TRUE
    BY <2>1 DEF HasRead
  <2> QED BY <1>1, <2>1, <2>2, <2>3 DEF HasRead, IsRun
<1>5. ASSUME NEW k \in 1 .. n + 1
      PROVE  /\ IsRun(tt[k][1], tt[k][2])
             /\ \A i \in ReachBefore(tt, k) .. tt[k][1] - 1 : ~BitAt(i)
  <2> HIDE DEF tt
  <2>1. CASE k \in 1 .. n
    <3>1. tt[k] = ss[k]
      BY <1>2, <2>1
    <3>2. k # 1 => k - 1 \in 1 .. n
      BY <1>1, <2>1
    <3>3. k # 1 => tt[k - 1] = ss[k - 1]
      BY <1>2, <3>2
    <3>4. k \in 1 .. Len(ss)
      BY <2>1
    <3> HIDE DEF n
    <3> QED BY <3>1, <3>3, <3>4 DEF AreRuns, ReachBefore
  <2>2. CASE k = n + 1
    <3>1. tt[k] = << it.start, it.len >>
      BY <1>2, <2>2
    <3>2. ASSUME k # 1 PROVE tt[k - 1] = ss[n] /\ ss # << >>
      <4>1. k - 1 = n /\ n \in 1 .. n
        BY <1>1, <2>2, <3>2
      <4>2. tt[n] = ss[n]
        BY <1>2, <4>1
      <4> QED BY <4>1, <4>2
    <3>3. k = 1 => ss = << >>
      BY <1>1, <2>2
    <3>4. ReachBefore(tt, k) = ReachOf(ss)
      BY <3>2, <3>3 DEF ReachBefore, ReachOf
    <3>5. tt[k][1] = it.start /\ tt[k][2] = it.len
      BY <3>1
    <3>6. \A i \in ReachOf(ss) .. it.start - 1 : ~BitAt(i)
      BY DEF HasRead
    <3> HIDE DEF n
    <3> QED BY <1>4, <3>4, <3>5, <3>6
  <2> QED BY <1>1, <2>1, <2>2
<1>6. AreRuns(tt)
  <2> HIDE DEF tt
  <2> QED BY <1>2, <1>5 DEF AreRuns
<1> QED BY <1>2, <1>3, <1>6

\* What holds of an iterator and of slices, with the bitmap as it is, holds when they
\* are the next ones.
LEMMA BitmapKept ==
  ASSUME bitmap' = bitmap, NEW it, NEW ss, iterator' = it, slices' = ss
  PROVE  /\ \A i : BitAt(i)' = BitAt(i)
         /\ ReachOf(slices)' = ReachOf(ss)
         /\ AreRuns(ss) => AreRuns(slices)'
         /\ HasRead(it, ss) => HasRead(iterator, slices)'
         /\ AtNextBit(it) => AtNextBit(iterator)'
<1>1. ASSUME NEW i PROVE BitAt(i)' = BitAt(i)
  BY DEF BitAt
<1>2. ReachOf(slices)' = ReachOf(ss) /\ \A k : ReachBefore(slices, k)' = ReachBefore(ss, k)
  BY DEF ReachOf, ReachBefore
<1>3. AreRuns(ss) => AreRuns(slices)'
  BY <1>1, <1>2 DEF AreRuns, IsRun
<1>4. HasRead(it, ss) => HasRead(iterator, slices)'
  BY <1>1, <1>2 DEF HasRead
<1>5. AtNextBit(it) => AtNextBit(iterator)'
  BY DEF AtNextBit
<1> QED BY <1>1, <1>2, <1>3, <1>4, <1>5

LEMMA SlicesStart == IsBitmap(bitmap) /\ SlicesInit => SlicesInv
<1> SUFFICES ASSUME IsBitmap(bitmap), SlicesInit PROVE SlicesInv
  OBVIOUS
<1>1. /\ bitmap.bytes \in Seq([1 .. ByteBits -> BOOLEAN]) /\ bitmap.offset \in 0 .. ByteBits - 1
      /\ bitmap.length \in Nat /\ bitmap.offset + bitmap.length <= ByteBits * Len(bitmap.bytes)
  BY DEF IsBitmap
<1>2. iterator = [at |-> 1, bit |-> bitmap.offset, start |-> 0, len |-> 0, onRegion |-> FALSE,
                  finished |-> bitmap.bytes = << >>]
  BY DEF SlicesInit, IteratorNew
<1>3. slices = << >> /\ ReachOf(slices) = 0 /\ AreRuns(slices) /\ slices \in Seq(Nat \X Nat)
  BY DEF SlicesInit, ReachOf, AreRuns
<1>4. iterator \in IteratorType
  BY <1>1, <1>2 DEF IteratorType
<1>5. HasRead(iterator, slices)
  BY <1>1, <1>2, <1>3 DEF HasRead
<1>6. AtNextBit(iterator)
  BY <1>1, <1>2, ByteBitsAssumption DEF AtNextBit
<1>7. bitmap.bytes # << >> => iterator.at \in 1 .. Len(bitmap.bytes)
  BY <1>1, <1>2
<1>8. ASSUME bitmap.bytes = << >> PROVE bitmap.length = 0
  <2>1. Len(bitmap.bytes) = 0 /\ ByteBits * 0 = 0
    BY <1>8, ByteBitsAssumption
  <2> QED BY <1>1, <2>1
<1>9. iterator.finished = (bitmap.bytes = << >>)
  BY <1>2
<1>10. iterator.finished => \A i \in ReachOf(slices) .. bitmap.length - 1 : ~BitAt(i)
  <2> SUFFICES ASSUME iterator.finished, NEW i \in 0 .. bitmap.length - 1 PROVE ~BitAt(i)
    BY <1>3
  <2>1. bitmap.length = 0
    BY <1>8, <1>9
  <2> QED BY <2>1
<1>11. ~iterator.finished => bitmap.bytes # << >>
  BY <1>9
<1> QED BY <1>3, <1>4, <1>5, <1>6, <1>7, <1>10, <1>11 DEF SlicesInv

\* The iterator ends where the bitmap does.
LEMMA FinishStep ==
  ASSUME IsBitmap(bitmap), bitmap' = bitmap, slices \in Seq(Nat \X Nat), ReachOf(slices) \in Nat,
         AreRuns(slices), NEW it \in IteratorType, HasRead(it, slices),
         it.start + it.len = bitmap.length, Finish(it)
  PROVE  SlicesInv'
<1>1. iterator' \in IteratorType /\ iterator'.finished = TRUE
  BY DEF Finish, IteratorType
<1>2. it.start \in Nat /\ it.len \in Nat /\ bitmap.length \in Nat
  BY DEF IteratorType, IsBitmap
<1>3. CASE it.onRegion
  <2> DEFINE tt == Append(slices, << it.start, it.len >>)
  <2>1. tt \in Seq(Nat \X Nat) /\ AreRuns(tt) /\ ReachOf(tt) = bitmap.length
    BY <1>2, <1>3, RunIsSlice
  <2>2. slices' = tt
    BY <1>3 DEF Finish, Emit
  <2> HIDE DEF tt
  <2>3. AreRuns(slices)' /\ ReachOf(slices)' = bitmap.length /\ \A i : BitAt(i)' = BitAt(i)
    BY <2>1, <2>2, BitmapKept
  <2>4. \A i \in ReachOf(slices)' .. bitmap'.length - 1 : ~BitAt(i)'
    BY <1>2, <2>3
  <2> QED BY <1>1, <1>2, <2>1, <2>2, <2>3, <2>4 DEF SlicesInv, IsBitmap
<1>4. CASE ~it.onRegion
  <2>1. slices' = slices
    BY <1>4 DEF Finish, Emit
  <2>2. AreRuns(slices)' /\ ReachOf(slices)' = ReachOf(slices) /\ \A i : BitAt(i)' = BitAt(i)
    BY <2>1, BitmapKept
  <2>3. \A i \in ReachOf(slices) .. bitmap.length - 1 : ~BitAt(i)
    <3> TAKE i \in ReachOf(slices) .. bitmap.length - 1
    <3>1. CASE i < it.start
      BY <1>2, <3>1 DEF HasRead
    <3>2. CASE it.start <= i
      <4>1. i \in it.start .. it.start + it.len - 1
        BY <1>2, <3>2
      <4>2. BitAt(i) = it.onRegion
        BY <4>1 DEF HasRead
      <4> QED BY <1>4, <4>2
    <3> QED BY <1>2, <3>1, <3>2
  <2>4. \A i \in ReachOf(slices)' .. bitmap'.length - 1 : ~BitAt(i)'
    BY <2>2, <2>3
  <2> QED BY <1>1, <2>1, <2>2, <2>4 DEF SlicesInv, IsBitmap
<1> QED BY <1>3, <1>4

\* The next byte, if there are bits behind this one.
LEMMA NextByteStep ==
  ASSUME IsBitmap(bitmap), NEW it \in IteratorType, it.at \in 1 .. Len(bitmap.bytes), it.bit = 0,
         it.start + it.len < bitmap.length =>
           bitmap.offset + it.start + it.len = ByteBits * it.at
  PROVE  /\ NextByte(it) = [it EXCEPT !.at = NextByte(it).at]
         /\ NextByte(it).at \in 1 .. Len(bitmap.bytes)
         /\ AtNextBit(NextByte(it))
<1>1. /\ bitmap.offset \in Nat /\ bitmap.length \in Nat /\ Len(bitmap.bytes) \in Nat
      /\ bitmap.offset + bitmap.length <= ByteBits * Len(bitmap.bytes)
  BY DEF IsBitmap
<1>2. it.start \in Nat /\ it.len \in Nat /\ it.at \in Nat
  BY DEF IteratorType
<1> DEFINE at == Lesser(it.at + 1, Len(bitmap.bytes))
<1>3. NextByte(it) = [it EXCEPT !.at = at]
  BY DEF NextByte
<1>4. at \in 1 .. Len(bitmap.bytes)
  BY <1>1, <1>2 DEF Lesser
<1>5. /\ NextByte(it).at = at /\ NextByte(it).start = it.start /\ NextByte(it).len = it.len
      /\ NextByte(it).bit = 0
  BY <1>3 DEF IteratorType
<1>6. ASSUME it.start + it.len < bitmap.length
      PROVE  bitmap.offset + it.start + it.len = ByteBits * (at - 1)
  <2>1. it.at < Len(bitmap.bytes)
    <3> SUFFICES ASSUME it.at = Len(bitmap.bytes) PROVE FALSE
      BY <1>1, <1>2
    <3>1. bitmap.offset + it.start + it.len = ByteBits * Len(bitmap.bytes)
      BY <1>6
    <3> DEFINE m == ByteBits * Len(bitmap.bytes)
    <3>2. m \in Nat
      BY <1>1, ByteBitsAssumption
    <3> HIDE DEF m
    <3>3. bitmap.offset + it.start + it.len = m /\ bitmap.offset + bitmap.length <= m
      BY <1>1, <3>1 DEF m
    <3> QED BY <1>1, <1>2, <1>6, <3>2, <3>3
  <2>2. at = it.at + 1
    BY <1>1, <1>2, <2>1 DEF Lesser
  <2> QED BY <1>2, <1>6, <2>2
<1>7. AtNextBit(NextByte(it))
  <2> HIDE DEF at
  <2>1. 0 \in Int /\ at \in Int /\ ByteBits * (at - 1) \in Int
    BY <1>4, ByteBitsAssumption
  <2> QED BY <1>5, <1>6, <2>1 DEF AtNextBit
<1> QED BY <1>3, <1>4, <1>5, <1>7

\* How far a byte that is passed reaches.
LEMMA LesserLen ==
  ASSUME NEW start \in Nat, NEW len \in Nat, NEW length \in Nat, NEW b \in Nat \ {0},
         start + len < length
  PROVE  LET l == Lesser(length - start, len + b)
         IN  /\ l \in Nat /\ start + l <= length /\ l > len /\ start + l <= start + len + b
             /\ (start + l < length => start + l = start + len + b)
BY DEF Lesser

LEMMA PassByteStep ==
  ASSUME SlicesInv, ~iterator.finished, bitmap' = bitmap,
         iterator.start + iterator.len # bitmap.length, iterator.bit = 0,
         \A i \in 1 .. ByteBits : CurrentByte[i] = iterator.onRegion, PassByte
  PROVE  SlicesInv'
<1> DEFINE B == ByteBits
           len == Lesser(bitmap.length - iterator.start, iterator.len + B)
           it == [iterator EXCEPT !.len = len]
           pos == iterator.start + iterator.len
<1>1. /\ bitmap.offset \in Nat /\ bitmap.length \in Nat /\ Len(bitmap.bytes) \in Nat
      /\ bitmap.offset + bitmap.length <= B * Len(bitmap.bytes)
  BY DEF SlicesInv, IsBitmap
<1>2. /\ iterator \in IteratorType /\ iterator.at \in 1 .. Len(bitmap.bytes)
      /\ iterator.start \in Nat /\ iterator.len \in Nat /\ iterator.at \in Nat \ {0}
      /\ iterator.onRegion \in BOOLEAN
  BY DEF SlicesInv, IteratorType
<1>3. HasRead(iterator, slices) /\ AtNextBit(iterator) /\ IsBitmap(bitmap) /\ ReachOf(slices) \in Nat
  BY DEF SlicesInv
<1>4. pos <= bitmap.length
  BY <1>3 DEF HasRead
<1>5. pos < bitmap.length
  BY <1>1, <1>2, <1>4
<1>6. bitmap.offset + pos = B * (iterator.at - 1)
  <2>1. bitmap.offset + iterator.start + iterator.len = B * (iterator.at - 1) + 0
    BY <1>3, <1>5 DEF AtNextBit
  <2>2. B * (iterator.at - 1) \in Int
    BY <1>2, ByteBitsAssumption
  <2> HIDE DEF B
  <2> QED BY <1>1, <1>2, <2>1, <2>2
<1>7. /\ len \in Nat /\ iterator.start + len <= bitmap.length /\ len > iterator.len
      /\ iterator.start + len <= pos + B
      /\ (iterator.start + len < bitmap.length => iterator.start + len = pos + B)
  <2>1. iterator.start + iterator.len < bitmap.length /\ B \in Nat \ {0} /\ bitmap.length \in Nat
    BY <1>1, <1>5, ByteBitsAssumption
  <2> HIDE DEF B
  <2> QED BY <1>2, <2>1, LesserLen
<1> HIDE DEF len
<1>8. /\ it \in IteratorType /\ it.at = iterator.at /\ it.bit = 0 /\ it.start = iterator.start /\ it.len = len
      /\ it.onRegion = iterator.onRegion /\ it.finished = iterator.finished
  BY <1>2, <1>7 DEF IteratorType
<1>9. ASSUME NEW i \in Int, pos <= i, i < iterator.start + len PROVE BitAt(i) = iterator.onRegion
  <2>1. i \in Nat /\ i - pos \in 0 .. B - 1
    <3> DEFINE to == iterator.start + len
    <3>1. B \in Nat
      BY ByteBitsAssumption
    <3> HIDE DEF B
    <3>2. to <= pos + B
      BY <1>7
    <3>3. pos \in Nat /\ to \in Nat
      BY <1>2, <1>7
    <3>4. pos <= i /\ i < to
      BY <1>9
    <3> HIDE DEF pos, to
    <3> QED BY <3>1, <3>2, <3>3, <3>4
  <2>2. bitmap.offset + i = B * (iterator.at - 1) + (i - pos)
    <3> DEFINE base == B * (iterator.at - 1)
    <3>1. base \in Int /\ bitmap.offset + pos = base
      BY <1>2, <1>6, ByteBitsAssumption
    <3>2. pos \in Int /\ bitmap.offset \in Int
      BY <1>1, <1>2
    <3> HIDE DEF base, pos
    <3> QED BY <2>1, <3>1, <3>2 DEF base
  <2>3. BitAt(i) = bitmap.bytes[iterator.at][i - pos + 1]
    <3> DEFINE j == i - pos
    <3>1. j \in 0 .. ByteBits - 1 /\ bitmap.offset + i = ByteBits * (iterator.at - 1) + j
      BY <2>1, <2>2
    <3>2. IsBitmap(bitmap) /\ iterator.at \in Nat \ {0} /\ i \in Nat
      BY <1>2, <1>3, <2>1
    <3> HIDE DEF j, B, pos
    <3>3. BitAt(i) = bitmap.bytes[iterator.at][j + 1]
      BY <3>1, <3>2, BitUnderMask
    <3> QED BY <3>3 DEF j
  <2>4. i - pos + 1 \in 1 .. ByteBits
    BY <1>2, <2>1, ByteBitsAssumption
  <2> QED BY <2>3, <2>4 DEF CurrentByte
<1>10. HasRead(it, slices)
  <2>1. ASSUME NEW i \in it.start .. it.start + it.len - 1 PROVE BitAt(i) = it.onRegion
    <3>1. CASE i < pos
      <4>1. i \in iterator.start .. iterator.start + iterator.len - 1
        BY <1>2, <1>7, <1>8, <3>1
      <4> QED BY <1>3, <1>8, <4>1 DEF HasRead
    <3>2. CASE pos <= i
      <4>1. i \in Int /\ pos <= i /\ i < iterator.start + len
        BY <1>2, <1>7, <1>8, <3>2
      <4> QED BY <1>8, <1>9, <4>1
    <3> QED BY <1>2, <1>7, <1>8, <3>1, <3>2
  <2>2. it.len # 0
    BY <1>2, <1>7, <1>8
  <2> HIDE DEF it
  <2> QED BY <1>2, <1>3, <1>7, <1>8, <2>1, <2>2 DEF HasRead
<1>11. it.start + it.len < bitmap.length => bitmap.offset + it.start + it.len = B * it.at
  <2>1. B * it.at = B * (iterator.at - 1) + B
    BY <1>2, <1>8, ByteBitsAssumption
  <2>2. B * (iterator.at - 1) \in Int /\ B \in Nat
    BY <1>2, ByteBitsAssumption
  <2>3. it.start + it.len < bitmap.length => iterator.start + len = pos + B
    BY <1>7, <1>8
  <2>4. it.start = iterator.start /\ it.len = len /\ bitmap.offset \in Nat
    BY <1>1, <1>8
  <2>5. pos \in Int
    BY <1>2
  <2> DEFINE base == B * (iterator.at - 1)
  <2> HIDE DEF B, it, base, pos
  <2>6. base \in Int /\ bitmap.offset + pos = base /\ B * it.at = base + B /\ B \in Int
    BY <1>6, <2>1, <2>2 DEF base
  <2>7. len \in Nat /\ iterator.start \in Nat
    BY <1>2, <1>7
  <2>8. ASSUME it.start + it.len < bitmap.length
        PROVE  bitmap.offset + iterator.start + len = base + B
    BY <2>3, <2>4, <2>5, <2>6, <2>7, <2>8
  <2> QED BY <2>4, <2>6, <2>8
<1> HIDE DEF it
<1>12. /\ NextByte(it) = [it EXCEPT !.at = NextByte(it).at]
       /\ NextByte(it).at \in 1 .. Len(bitmap.bytes) /\ AtNextBit(NextByte(it))
  BY <1>3, <1>2, <1>8, <1>11, NextByteStep
<1> DEFINE jt == NextByte(it)
<1>13. jt \in IteratorType /\ jt.start = it.start /\ jt.len = it.len /\ jt.onRegion = it.onRegion
       /\ jt.finished = it.finished
  BY <1>1, <1>8, <1>12 DEF IteratorType
<1>14. iterator' = jt /\ slices' = slices
  BY DEF PassByte, it, len
<1> HIDE DEF jt
<1>15. HasRead(jt, slices)
  BY <1>10, <1>13 DEF HasRead
<1>16. /\ ReachOf(slices)' = ReachOf(slices) /\ AreRuns(slices)'
       /\ HasRead(iterator, slices)' /\ AtNextBit(iterator)'
  BY <1>12, <1>14, <1>15, BitmapKept DEF SlicesInv, jt
<1>17. iterator'.at \in 1 .. Len(bitmap'.bytes) /\ iterator'.finished = iterator.finished
  BY <1>8, <1>12, <1>13, <1>14 DEF jt
<1> QED BY <1>3, <1>13, <1>14, <1>16, <1>17 DEF SlicesInv, IsBitmap

LEMMA ReadBitStep ==
  ASSUME SlicesInv, ~iterator.finished, bitmap' = bitmap,
         iterator.start + iterator.len # bitmap.length, ReadBit
  PROVE  SlicesInv'
<1> DEFINE B == ByteBits
           pos == iterator.start + iterator.len
           value == CurrentByte[iterator.bit + 1]
           read == [iterator EXCEPT !.bit = (@ + 1) % ByteBits]
           begun == [read EXCEPT !.start = @ + iterator.len, !.len = 1, !.onRegion = value]
           longer == [read EXCEPT !.len = @ + 1]
           after == IF value = iterator.onRegion THEN longer ELSE begun
           moved == IF read.bit = 0 THEN NextByte(after) ELSE after
           tt == IF iterator.onRegion /\ ~value THEN Append(slices, << iterator.start, iterator.len >>) ELSE slices
<1> DEFINE ends == ~ (iterator.onRegion /\ ~value) /\ read.bit = 0 /\ iterator.at = Len(bitmap.bytes)
<1>0. IF ends THEN Finish(after) ELSE iterator' = moved /\ slices' = tt
  <2>1. CASE iterator.onRegion /\ ~value
    <3>1. iterator' = moved /\ slices' = slices \o Emit(iterator)
      BY <2>1 DEF ReadBit
    <3>2. slices' = tt
      BY <2>1, <3>1 DEF Emit, SlicesInv
    <3> QED BY <2>1, <3>1, <3>2
  <2>2. CASE ends
    BY <2>2 DEF ReadBit
  <2>3. CASE ~ends /\ ~ (iterator.onRegion /\ ~value)
    BY <2>3 DEF ReadBit
  <2> QED BY <2>1, <2>2, <2>3
<1>1. /\ bitmap.offset \in Nat /\ bitmap.length \in Nat /\ Len(bitmap.bytes) \in Nat
      /\ bitmap.offset + bitmap.length <= B * Len(bitmap.bytes)
      /\ bitmap.bytes \in Seq([1 .. B -> BOOLEAN])
  BY DEF SlicesInv, IsBitmap
<1>2. /\ iterator \in IteratorType /\ iterator.at \in 1 .. Len(bitmap.bytes)
      /\ iterator.start \in Nat /\ iterator.len \in Nat /\ iterator.at \in Nat \ {0}
      /\ iterator.onRegion \in BOOLEAN /\ iterator.bit \in 0 .. B - 1
  BY DEF SlicesInv, IteratorType
<1>3. /\ HasRead(iterator, slices) /\ AtNextBit(iterator) /\ IsBitmap(bitmap) /\ ReachOf(slices) \in Nat
      /\ slices \in Seq(Nat \X Nat) /\ AreRuns(slices)
  BY DEF SlicesInv
<1>4. pos <= bitmap.length
  BY <1>3 DEF HasRead
<1>5. pos \in Nat /\ pos < bitmap.length
  <2>1. bitmap.length \in Nat /\ pos \in Nat /\ pos # bitmap.length
    BY <1>1, <1>2
  <2> HIDE DEF pos
  <2> QED BY <1>4, <2>1
<1>6. bitmap.offset + pos = B * (iterator.at - 1) + iterator.bit
  <2>1. bitmap.offset + iterator.start + iterator.len = B * (iterator.at - 1) + iterator.bit
    BY <1>3, <1>5 DEF AtNextBit
  <2>2. bitmap.offset + iterator.start + iterator.len = bitmap.offset + pos
    BY <1>1, <1>2
  <2> QED BY <2>1, <2>2
<1>7. value = BitAt(pos) /\ value \in BOOLEAN
  <2>1. BitAt(pos) = bitmap.bytes[iterator.at][iterator.bit + 1]
    <3> HIDE DEF pos
    <3> QED BY <1>2, <1>3, <1>5, <1>6, BitUnderMask
  <2>2. iterator.bit + 1 \in 1 .. B
    BY <1>2, ByteBitsAssumption
  <2>3. bitmap.bytes[iterator.at] \in [1 .. B -> BOOLEAN]
    BY <1>1, <1>2
  <2> QED BY <2>1, <2>2, <2>3 DEF CurrentByte
<1> HIDE DEF value
<1>8. /\ read.bit \in 0 .. B - 1
      /\ iterator.bit + 1 < B => read.bit = iterator.bit + 1
      /\ iterator.bit + 1 = B => read.bit = 0
  <2>1. read.bit = (iterator.bit + 1) % B
    BY <1>2 DEF IteratorType
  <2>2. B \in Nat \ {0} /\ iterator.bit \in 0 .. B - 1
    BY <1>2, ByteBitsAssumption
  <2> DEFINE next == iterator.bit + 1
  <2>3. next \in 1 .. B
    BY <2>2
  <2> HIDE DEF B, read, next
  <2>4. next % B \in 0 .. B - 1 /\ (next < B => next % B = next) /\ (next = B => next % B = 0)
    BY <2>2, <2>3
  <2> QED BY <2>1, <2>4 DEF next
<1>9. read = [iterator EXCEPT !.bit = read.bit]
  BY <1>2 DEF IteratorType
<1> HIDE DEF read
<1>ints. bitmap.offset \in Nat /\ bitmap.length \in Nat /\ pos = iterator.start + iterator.len
  BY <1>1
<1>10. read \in IteratorType /\ read.at = iterator.at /\ read.start = iterator.start /\ read.len = iterator.len
       /\ read.onRegion = iterator.onRegion /\ read.finished = iterator.finished
  BY <1>2, <1>8, <1>9 DEF IteratorType
<1>11. /\ after \in IteratorType /\ after.at = iterator.at /\ after.bit = read.bit
       /\ after.onRegion = value /\ after.finished = iterator.finished
       /\ value = iterator.onRegion => after.start = iterator.start /\ after.len = iterator.len + 1
       /\ value # iterator.onRegion => after.start = pos /\ after.len = 1
  <2>1. CASE value = iterator.onRegion
    <3>1. after = longer
      BY <2>1
    <3> HIDE DEF after
    <3> QED BY <1>2, <1>7, <1>10, <2>1, <3>1 DEF IteratorType
  <2>2. CASE value # iterator.onRegion
    <3>1. after = begun
      BY <2>2
    <3>2. read.start + iterator.len = pos /\ pos \in Nat
      BY <1>2, <1>10
    <3> HIDE DEF after, pos
    <3> QED BY <1>2, <1>7, <1>10, <2>2, <3>1, <3>2 DEF IteratorType
  <2> QED BY <2>1, <2>2
<1>12. after.start + after.len = pos + 1 /\ after.start \in Nat /\ after.len \in Nat /\ after.len # 0
  BY <1>2, <1>11
<1> HIDE DEF after
\* The slice of a run that has ended.
<1>13. /\ tt \in Seq(Nat \X Nat) /\ AreRuns(tt) /\ ReachOf(tt) \in Nat
       /\ (iterator.onRegion /\ ~value => ReachOf(tt) = pos)
       /\ (~ (iterator.onRegion /\ ~value) => tt = slices)
  <2>1. CASE iterator.onRegion /\ ~value
    <3>1. tt = Append(slices, << iterator.start, iterator.len >>)
      BY <2>1
    <3>2. ~BitAt(pos)
      BY <1>7, <2>1
    <3> QED BY <1>2, <1>3, <2>1, <3>1, <3>2, RunIsSlice
  <2>2. CASE ~ (iterator.onRegion /\ ~value)
    BY <1>3, <2>2
  <2> QED BY <2>1, <2>2
<1> HIDE DEF tt
<1>14. HasRead(after, tt)
  <2>1. \A i \in iterator.start .. pos - 1 : BitAt(i) = iterator.onRegion
    BY <1>3 DEF HasRead
  <2>2. /\ ReachOf(slices) <= iterator.start
        /\ \A i \in ReachOf(slices) .. iterator.start - 1 : ~BitAt(i)
        /\ iterator.len = 0 => iterator.start = 0 /\ ~iterator.onRegion
        /\ iterator.onRegion /\ iterator.start > 0 => ~BitAt(iterator.start - 1)
    BY <1>3 DEF HasRead
  <2>5. /\ after.start \in Nat /\ after.len \in Nat /\ after.onRegion \in BOOLEAN /\ after.len # 0
        /\ after.start + after.len <= bitmap.length
    <3> HIDE DEF pos
    <3> QED BY <1>ints, <1>5, <1>7, <1>11, <1>12
  <2>3. CASE value = iterator.onRegion
    <3>1. tt = slices /\ after.start = iterator.start /\ after.onRegion = iterator.onRegion
      BY <1>11, <1>13, <2>3
    <3>2. ASSUME NEW i \in after.start .. after.start + after.len - 1 PROVE BitAt(i) = after.onRegion
      <4>1. CASE i = pos
        BY <1>7, <1>11, <4>1
      <4>2. CASE i # pos
        <5>1. i \in iterator.start .. pos - 1
          BY <1>5, <1>12, <3>1, <4>2
        <5> QED BY <2>1, <3>1, <5>1
      <4> QED BY <4>1, <4>2
    <3>3. after.onRegion /\ after.start > 0 => ~BitAt(after.start - 1)
      <4>1. iterator.onRegion /\ iterator.start > 0 => ~BitAt(iterator.start - 1)
        BY <2>2
      <4> QED BY <3>1, <4>1
    <3>4. ReachOf(tt) <= after.start /\ \A i \in ReachOf(tt) .. after.start - 1 : ~BitAt(i)
      BY <2>2, <3>1
    <3> QED BY <2>5, <3>2, <3>3, <3>4 DEF HasRead
  <2>4. CASE value # iterator.onRegion
    <3>1. after.start = pos /\ after.len = 1
      BY <1>11, <2>4
    <3>2. ASSUME NEW i \in after.start .. after.start + after.len - 1 PROVE BitAt(i) = after.onRegion
      <4>1. i = pos
        BY <1>5, <3>1
      <4> QED BY <1>7, <1>11, <4>1
    <3>3. CASE iterator.onRegion
      <4>1. ~value
        BY <1>2, <1>7, <2>4, <3>3
      <4>2. ReachOf(tt) = pos
        BY <1>13, <3>3, <4>1
      <4>3. after.onRegion = FALSE
        BY <1>11, <4>1
      <4>4. ReachOf(tt) <= after.start /\ \A i \in ReachOf(tt) .. after.start - 1 : ~BitAt(i)
        <5>1. ReachOf(tt) = after.start
          BY <3>1, <4>2
        <5> QED BY <2>5, <5>1
      <4> QED BY <2>5, <3>2, <4>3, <4>4 DEF HasRead
    <3>4. CASE ~iterator.onRegion
      <4>1. tt = slices
        BY <1>13, <3>4
      <4>2. ASSUME NEW i \in ReachOf(slices) .. pos - 1 PROVE ~BitAt(i)
        <5>1. CASE i < iterator.start
          BY <1>2, <1>3, <2>2, <5>1
        <5>2. CASE iterator.start <= i
          <6>1. i \in iterator.start .. pos - 1
            BY <1>2, <1>3, <1>5, <5>2
          <6>2. BitAt(i) = FALSE
            BY <1>2, <2>1, <3>4, <6>1
          <6> QED BY <6>2
        <5> QED BY <1>2, <1>3, <5>1, <5>2
      <4>3. ReachOf(slices) <= pos
        BY <1>2, <1>3, <2>2
      <4>4. pos > 0 => ~BitAt(pos - 1)
        <5> SUFFICES ASSUME pos > 0 PROVE ~BitAt(pos - 1)
          OBVIOUS
        <5>1. iterator.len # 0
          BY <1>2, <2>2
        <5>2. pos - 1 \in iterator.start .. pos - 1
          BY <1>2, <5>1
        <5>3. BitAt(pos - 1) = FALSE
          BY <1>2, <2>1, <3>4, <5>2
        <5> QED BY <5>3
      <4>5. ReachOf(tt) <= after.start /\ \A i \in ReachOf(tt) .. after.start - 1 : ~BitAt(i)
        BY <3>1, <4>1, <4>2, <4>3
      <4>6. after.onRegion /\ after.start > 0 => ~BitAt(after.start - 1)
        BY <3>1, <4>4
      <4> QED BY <2>5, <3>2, <4>5, <4>6 DEF HasRead
    <3> QED BY <3>3, <3>4
  <2> QED BY <2>3, <2>4
\* Where the mask stands.
<1>15. B * (iterator.at - 1) \in Int /\ B \in Nat \ {0} /\ B * iterator.at = B * (iterator.at - 1) + B
  BY <1>2, ByteBitsAssumption
<1>16. read.bit = 0 => bitmap.offset + after.start + after.len = B * iterator.at
  <2> SUFFICES ASSUME read.bit = 0 PROVE bitmap.offset + after.start + after.len = B * iterator.at
    OBVIOUS
  <2>1. iterator.bit + 1 = B
    <3> DEFINE bit == iterator.bit
    <3>1. bit \in 0 .. B - 1 /\ B \in Nat
      BY <1>2, ByteBitsAssumption DEF IteratorType
    <3>2. (bit + 1 < B => read.bit = bit + 1) /\ (bit + 1 = B => read.bit = 0)
      BY <1>8
    <3> HIDE DEF bit, B
    <3>3. bit + 1 < B \/ bit + 1 = B
      BY <3>1
    <3>4. bit + 1 # 0
      BY <3>1
    <3> QED BY <3>2, <3>3, <3>4 DEF bit
  <2> DEFINE base == B * (iterator.at - 1)
  <2>2. /\ base \in Int /\ B * iterator.at = base + B /\ bitmap.offset + pos = base + iterator.bit
        /\ B \in Int
    BY <1>6, <1>15
  <2> HIDE DEF B, pos, base
  <2>3. bitmap.offset + after.start + after.len = bitmap.offset + pos + 1
    BY <1>ints, <1>5, <1>12
  <2>4. iterator.bit \in Int /\ bitmap.offset \in Int /\ pos \in Int
    BY <1>ints, <1>2, <1>5
  <2> QED BY <2>1, <2>2, <2>3, <2>4 DEF base
<1>17. read.bit # 0 => bitmap.offset + after.start + after.len = B * (iterator.at - 1) + read.bit
  <2> SUFFICES ASSUME read.bit # 0
               PROVE  bitmap.offset + after.start + after.len = B * (iterator.at - 1) + read.bit
    OBVIOUS
  <2>1. read.bit = iterator.bit + 1
    <3> DEFINE bit == iterator.bit
    <3>1. bit \in 0 .. B - 1 /\ B \in Nat
      BY <1>2, ByteBitsAssumption DEF IteratorType
    <3>2. (bit + 1 < B => read.bit = bit + 1) /\ (bit + 1 = B => read.bit = 0)
      BY <1>8
    <3> HIDE DEF bit, B
    <3>3. bit + 1 < B \/ bit + 1 = B
      BY <3>1
    <3>4. bit + 1 # 0
      BY <3>1
    <3> QED BY <3>2, <3>3, <3>4 DEF bit
  <2> DEFINE base == B * (iterator.at - 1)
  <2>2. /\ base \in Int /\ B * iterator.at = base + B /\ bitmap.offset + pos = base + iterator.bit
        /\ B \in Int
    BY <1>6, <1>15
  <2> HIDE DEF B, pos, base
  <2>3. bitmap.offset + after.start + after.len = bitmap.offset + pos + 1
    BY <1>ints, <1>5, <1>12
  <2>4. iterator.bit \in Int /\ bitmap.offset \in Int /\ pos \in Int
    BY <1>ints, <1>2, <1>5
  <2> QED BY <2>1, <2>2, <2>3, <2>4 DEF base
\* The last bit of the last byte.
<1>18. CASE ends
  <2>1. Finish(after) /\ tt = slices /\ read.bit = 0 /\ iterator.at = Len(bitmap.bytes)
    BY <1>0, <1>13, <1>18
  <2>2. bitmap.offset + after.start + after.len = B * Len(bitmap.bytes)
    BY <1>16, <2>1
  <2>3. after.start + after.len = bitmap.length
    <3> DEFINE m == B * Len(bitmap.bytes)
    <3>1. m \in Int
      BY <1>1, <1>15
    <3>2. bitmap.offset + bitmap.length <= m /\ bitmap.offset + after.start + after.len = m
      BY <1>1, <2>2
    <3> HIDE DEF m, pos
    <3> QED BY <1>1, <1>5, <1>12, <3>1, <3>2
  <2> QED BY <1>3, <1>11, <1>14, <2>1, <2>3, FinishStep
<1>19. CASE ~ends
  <2>1. iterator' = moved /\ slices' = tt
    BY <1>0, <1>19
  <2>2. /\ moved = [after EXCEPT !.at = moved.at] /\ moved.at \in 1 .. Len(bitmap.bytes)
        /\ AtNextBit(moved)
    <3>1. CASE read.bit = 0
      <4>1. moved = NextByte(after) /\ after.bit = 0
        BY <1>11, <3>1
      <4>2. after.at = iterator.at /\ after.at \in 1 .. Len(bitmap.bytes)
        BY <1>2, <1>11
      <4>3. bitmap.offset + after.start + after.len = ByteBits * after.at
        BY <1>16, <3>1, <4>2
      <4> HIDE DEF moved
      <4> QED BY <1>3, <1>11, <4>1, <4>2, <4>3, NextByteStep
    <3>2. CASE read.bit # 0
      <4>1. moved = after
        BY <3>2
      <4>2. AtNextBit(after)
        BY <1>11, <1>17, <3>2 DEF AtNextBit
      <4>3. after = [after EXCEPT !.at = after.at]
        BY <1>11 DEF IteratorType
      <4> QED BY <1>2, <1>11, <4>1, <4>2, <4>3
    <3> QED BY <3>1, <3>2
  <2> HIDE DEF moved
  <2>3. moved \in IteratorType /\ moved.start = after.start /\ moved.len = after.len
        /\ moved.onRegion = after.onRegion /\ moved.finished = iterator.finished
    BY <1>1, <1>11, <2>2 DEF IteratorType
  <2>4. HasRead(moved, tt)
    BY <1>14, <2>3 DEF HasRead
  <2>5. /\ ReachOf(slices)' = ReachOf(tt) /\ AreRuns(slices)'
        /\ HasRead(iterator, slices)' /\ AtNextBit(iterator)'
    BY <1>13, <2>1, <2>2, <2>4, BitmapKept
  <2>6. iterator'.at \in 1 .. Len(bitmap'.bytes) /\ iterator'.finished = iterator.finished
    BY <2>1, <2>2, <2>3
  <2> QED BY <1>3, <1>13, <2>1, <2>3, <2>5, <2>6 DEF SlicesInv, IsBitmap
<1> QED BY <1>18, <1>19

\* Every turn of the loop keeps the invariant.
LEMMA TurnStep == SlicesInv /\ [Turn]_slicesvars => SlicesInv'
<1> SUFFICES ASSUME SlicesInv, [Turn]_slicesvars PROVE SlicesInv'
  OBVIOUS
<1>1. CASE UNCHANGED slicesvars
  <2>1. bitmap' = bitmap /\ iterator' = iterator /\ slices' = slices
    BY <1>1 DEF slicesvars
  <2>2. /\ \A i : BitAt(i)' = BitAt(i)
        /\ ReachOf(slices)' = ReachOf(slices)
        /\ AreRuns(slices) => AreRuns(slices)'
        /\ HasRead(iterator, slices) => HasRead(iterator, slices)'
        /\ AtNextBit(iterator) => AtNextBit(iterator)'
    BY <2>1, BitmapKept
  <2> QED BY <2>1, <2>2 DEF SlicesInv, IsBitmap
<1>2. CASE Turn
  <2>1. ~iterator.finished /\ bitmap' = bitmap
    BY <1>2 DEF Turn
  <2>2. CASE iterator.start + iterator.len = bitmap.length
    <3>1. Finish(iterator)
      BY <1>2, <2>2 DEF Turn
    <3> QED BY <2>1, <2>2, <3>1, FinishStep DEF SlicesInv
  <2>3. CASE /\ iterator.start + iterator.len # bitmap.length
             /\ iterator.bit = 0 /\ \A i \in 1 .. ByteBits : CurrentByte[i] = iterator.onRegion
    <3>1. PassByte
      BY <1>2, <2>3 DEF Turn
    <3> QED BY <2>1, <2>3, <3>1, PassByteStep
  <2>4. CASE /\ iterator.start + iterator.len # bitmap.length
             /\ ~ (iterator.bit = 0 /\ \A i \in 1 .. ByteBits : CurrentByte[i] = iterator.onRegion)
    <3>1. ReadBit
      BY <1>2, <2>4 DEF Turn
    <3> QED BY <2>1, <2>4, <3>1, ReadBitStep
  <2> QED BY <2>2, <2>3, <2>4
<1> QED BY <1>1, <1>2

\* For bytes of any width, whatever the offset in the first byte, the length and the
\* bits behind it: every slice the iterator has returned is a whole run of set bits,
\* and no run is left out or returned twice (BitmapsSlicesIterator::next).
THEOREM RunsAreRight == IsBitmap(bitmap) /\ SlicesSpec => []SlicesAreTheRuns
<1>1. IsBitmap(bitmap) /\ SlicesInit => SlicesInv
  BY SlicesStart
<1>2. SlicesInv /\ [Turn]_slicesvars => SlicesInv'
  BY TurnStep
<1>3. SlicesInv => SlicesAreTheRuns
  <2> SUFFICES ASSUME SlicesInv PROVE SlicesAreTheRuns
    OBVIOUS
  <2>1. slices \in Seq(Nat \X Nat) /\ AreRuns(slices) /\ RunsReach = ReachOf(slices)
        /\ DOMAIN slices = 1 .. Len(slices)
    BY DEF SlicesInv, RunsReach, ReachOf
  <2>2. iterator.finished => \A i \in RunsReach .. bitmap.length - 1 : ~BitAt(i)
    BY <2>1 DEF SlicesInv
  <2> QED BY <2>1, <2>2 DEF SlicesAreTheRuns, AreRuns, ReachBefore
<1> QED BY <1>1, <1>2, <1>3, PTL DEF SlicesSpec
-----------------------------------------------------------------------------
(* Parquet: sums and concatenations.                                        *)

\* A set of numbers that has 0 and the next of each of its numbers has them all.
LEMMA Induction ==
  ASSUME NEW T \in SUBSET Nat, 0 \in T, \A n \in T : n + 1 \in T
  PROVE  T = Nat
<1> DEFINE R == {pair \in Nat \X Nat : pair[1] < pair[2]}
           U == Nat \ T
<1>1. IsWellFoundedOn(R, Nat)
  BY NatLessThanWellFounded, Zenon DEF OpToRel
<1> SUFFICES ASSUME U # {} PROVE FALSE
  OBVIOUS
<1>2. PICK x \in U : \A y \in U : ~ (<< y, x >> \in R)
  <2>1. U \subseteq Nat
    OBVIOUS
  <2> HIDE DEF R, U
  <2> QED BY <1>1, <2>1, WFMin
<1>3. x \in Nat /\ x # 0 /\ x \notin T
  OBVIOUS
<1>4. x - 1 \in Nat /\ x - 1 \notin T
  <2>1. x - 1 \in Nat /\ (x - 1) + 1 = x
    BY <1>3
  <2> QED BY <2>1, <1>3
<1>5. x - 1 \in U /\ << x - 1, x >> \in R
  BY <1>3, <1>4
<1> QED BY <1>2, <1>5

\* The sums of a sequence of numbers, one after the other.
LEMMA SumsAre ==
  ASSUME NEW V \in Seq(Nat)
  PROVE  /\ Sums(V) \in [0 .. Len(V) -> Nat] /\ Sums(V)[0] = 0
         /\ \A n \in 1 .. Len(V) : Sums(V)[n] = Sums(V)[n - 1] + V[n]
<1> DEFINE Eq(f, m) == f = [n \in 0 .. m |-> IF n = 0 THEN 0 ELSE f[n - 1] + V[n]]
           Has(m) == \E f \in [0 .. m -> Nat] : Eq(f, m)
           T == {m \in Nat : m <= Len(V) => Has(m)}
<1>1. Len(V) \in Nat /\ \A n \in 1 .. Len(V) : V[n] \in Nat
  BY ElementOfSeq, LenProperties
<1> HIDE DEF Eq, Has
<1>2. 0 \in T
  <2> DEFINE f == [n \in 0 .. 0 |-> 0]
  <2>1. f \in [0 .. 0 -> Nat] /\ Eq(f, 0)
    BY DEF Eq
  <2> HIDE DEF f
  <2>2. Has(0)
    BY <2>1 DEF Has
  <2> QED BY <2>2
<1>3. ASSUME NEW m \in T PROVE m + 1 \in T
  <2> SUFFICES ASSUME m + 1 <= Len(V) PROVE Has(m + 1)
    OBVIOUS
  <2>a. Has(m)
    BY <1>1
  <2>1. PICK f \in [0 .. m -> Nat] : Eq(f, m)
    BY <2>a DEF Has
  <2> DEFINE h == [n \in 0 .. m + 1 |-> IF n = m + 1 THEN f[m] + V[m + 1] ELSE f[n]]
  <2>2. m \in Nat /\ f[m] \in Nat /\ V[m + 1] \in Nat
    BY <1>1
  <2>3. h \in [0 .. m + 1 -> Nat]
    BY <2>2
  <2>b. \A n \in 0 .. m : f[n] = IF n = 0 THEN 0 ELSE f[n - 1] + V[n]
    BY <2>1 DEF Eq
  <2>4. \A n \in 0 .. m + 1 : h[n] = IF n = 0 THEN 0 ELSE h[n - 1] + V[n]
    <3> TAKE n \in 0 .. m + 1
    <3>1. CASE n = 0
      <4>1. f[0] = 0
        BY <2>b, <2>2
      <4> QED BY <3>1, <4>1, <2>2
    <3>2. CASE n # 0 /\ n # m + 1
      <4>1. n \in 0 .. m /\ n - 1 \in 0 .. m + 1 /\ n - 1 # m + 1
        BY <3>2, <2>2
      <4>2. f[n] = f[n - 1] + V[n]
        BY <2>b, <3>2, <4>1
      <4> QED BY <3>2, <4>1, <4>2
    <3>3. CASE n = m + 1
      <4>1. n - 1 = m /\ m \in 0 .. m + 1 /\ m # m + 1 /\ n # 0
        BY <3>3, <2>2
      <4> QED BY <3>3, <4>1
    <3> QED BY <3>1, <3>2, <3>3
  <2>5. Eq(h, m + 1)
    <3>1. h = [n \in 0 .. m + 1 |-> h[n]]
      OBVIOUS
    <3> HIDE DEF h
    <3> QED BY <2>4, <3>1 DEF Eq
  <2> HIDE DEF h
  <2> QED BY <2>3, <2>5 DEF Has
<1>4. Len(V) \in T
  <2> HIDE DEF T
  <2>1. T \in SUBSET Nat
    BY DEF T
  <2> QED BY <1>1, <1>2, <1>3, <2>1, Induction
<1>5. Eq(Sums(V), Len(V))
  <2>1. \E f : Eq(f, Len(V))
    BY <1>1, <1>4 DEF Has
  <2>2. Sums(V) = CHOOSE f : Eq(f, Len(V))
    BY DEF Sums, Eq
  <2> QED BY <2>1, <2>2
<1> DEFINE s == Sums(V)
<1>6. /\ DOMAIN s = 0 .. Len(V) /\ s = [n \in 0 .. Len(V) |-> s[n]]
      /\ \A n \in 0 .. Len(V) : s[n] = IF n = 0 THEN 0 ELSE s[n - 1] + V[n]
  <2> HIDE DEF s
  <2>1. Eq(s, Len(V))
    BY <1>5 DEF s
  <2> QED BY <2>1 DEF Eq
<1> HIDE DEF s
<1>7. \A n \in 1 .. Len(V) : s[n] = s[n - 1] + V[n]
  <2> TAKE n \in 1 .. Len(V)
  <2>1. n \in 0 .. Len(V) /\ n # 0
    BY <1>1
  <2> QED BY <1>6, <2>1
<1>8. s[0] = 0
  <2>1. 0 \in 0 .. Len(V)
    BY <1>1
  <2> QED BY <1>6, <2>1
<1> DEFINE Y == {m \in Nat : m <= Len(V) => s[m] \in Nat}
<1>9. Y = Nat
  <2>1. 0 \in Y
    BY <1>8
  <2>2. ASSUME NEW m \in Y PROVE m + 1 \in Y
    <3> SUFFICES ASSUME m + 1 <= Len(V) PROVE s[m + 1] \in Nat
      OBVIOUS
    <3>1. m + 1 \in 1 .. Len(V) /\ (m + 1) - 1 = m /\ s[m] \in Nat
      BY <1>1
    <3>2. s[m + 1] = s[m] + V[m + 1] /\ V[m + 1] \in Nat
      BY <1>1, <1>7, <3>1
    <3> QED BY <3>1, <3>2
  <2>3. Y \in SUBSET Nat
    OBVIOUS
  <2> HIDE DEF Y
  <2> QED BY <2>1, <2>2, <2>3, Induction
<1>10. \A m \in 0 .. Len(V) : s[m] \in Nat
  BY <1>1, <1>9
<1> QED BY <1>6, <1>7, <1>8, <1>10 DEF s

\* The sums grow.
LEMMA SumsGrow ==
  ASSUME NEW V \in Seq(Nat), NEW m \in 0 .. Len(V), NEW n \in m .. Len(V)
  PROVE  Sums(V)[m] \in Nat /\ Sums(V)[n] \in Nat /\ Sums(V)[m] <= Sums(V)[n]
<1> DEFINE s == Sums(V)
           T == {k \in Nat : m + k <= Len(V) => s[m] <= s[m + k]}
<1>1. Len(V) \in Nat /\ \A k \in 1 .. Len(V) : V[k] \in Nat
  BY ElementOfSeq, LenProperties
<1>2. /\ \A k \in 0 .. Len(V) : s[k] \in Nat
      /\ \A k \in 1 .. Len(V) : s[k] = s[k - 1] + V[k]
  BY SumsAre
<1> HIDE DEF s
<1>3. m \in Nat /\ n \in Nat /\ n - m \in Nat /\ m + (n - m) = n
  BY <1>1
<1>4. 0 \in T
  BY <1>1, <1>2
<1>5. ASSUME NEW k \in T PROVE k + 1 \in T
  <2> SUFFICES ASSUME m + (k + 1) <= Len(V) PROVE s[m] <= s[m + (k + 1)]
    OBVIOUS
  <2>1. m + (k + 1) \in 1 .. Len(V) /\ (m + (k + 1)) - 1 = m + k /\ m + k \in 0 .. Len(V) /\ s[m] <= s[m + k]
    BY <1>1, <1>3
  <2>2. s[m + (k + 1)] = s[m + k] + V[m + (k + 1)] /\ V[m + (k + 1)] \in Nat
    BY <1>1, <1>2, <2>1
  <2> QED BY <1>1, <1>2, <1>3, <2>1, <2>2
<1>6. n - m \in T
  <2>1. T \in SUBSET Nat
    OBVIOUS
  <2> HIDE DEF T
  <2> QED BY <1>3, <1>4, <1>5, <2>1, Induction
<1>7. s[m] <= s[n]
  BY <1>3, <1>6
<1> QED BY <1>1, <1>2, <1>7 DEF s

\* The sums of the first numbers are those of any sequence that begins with them.
LEMMA SumsOfPrefix ==
  ASSUME NEW V \in Seq(Nat), NEW U \in Seq(Nat), NEW m \in 0 .. Len(V), m <= Len(U),
         \A k \in 1 .. m : V[k] = U[k]
  PROVE  Sums(V)[m] = Sums(U)[m]
<1> DEFINE s == Sums(V)
           t == Sums(U)
           T == {k \in Nat : k <= m => s[k] = t[k]}
<1>1. Len(V) \in Nat /\ Len(U) \in Nat
  BY LenProperties
<1>2. s[0] = 0 /\ \A k \in 1 .. Len(V) : s[k] = s[k - 1] + V[k]
  BY SumsAre
<1>3. t[0] = 0 /\ \A k \in 1 .. Len(U) : t[k] = t[k - 1] + U[k]
  BY SumsAre
<1> HIDE DEF s, t
<1>4. 0 \in T
  BY <1>2, <1>3
<1>5. ASSUME NEW k \in T PROVE k + 1 \in T
  <2> SUFFICES ASSUME k + 1 <= m PROVE s[k + 1] = t[k + 1]
    OBVIOUS
  <2>1. k \in Nat /\ m \in Nat /\ k <= m /\ m <= Len(V)
    BY <1>1
  <2>2. k + 1 \in 1 .. m /\ k + 1 \in 1 .. Len(V) /\ k + 1 \in 1 .. Len(U) /\ (k + 1) - 1 = k
    BY <1>1, <2>1
  <2>3. s[k] = t[k]
    BY <2>1
  <2>4. V[k + 1] = U[k + 1]
    BY <2>2
  <2> QED BY <1>2, <1>3, <2>2, <2>3, <2>4
<1>6. m \in T
  <2>1. T \in SUBSET Nat /\ m \in Nat
    BY <1>1
  <2> HIDE DEF T
  <2> QED BY <1>4, <1>5, <2>1, Induction
<1>7. s[m] = t[m]
  BY <1>1, <1>6
<1> QED BY <1>7 DEF s, t

\* One more number.
LEMMA SumOneMore ==
  ASSUME NEW V \in Seq(Nat), NEW U \in Seq(Nat), Len(U) = Len(V) + 1,
         \A k \in 1 .. Len(V) : V[k] = U[k]
  PROVE  SumAll(V) \in Nat /\ SumAll(U) = SumAll(V) + U[Len(U)] /\ U[Len(U)] \in Nat
<1>1. Len(V) \in Nat /\ Len(U) \in Nat /\ Len(U) \in 1 .. Len(U) /\ Len(U) - 1 = Len(V)
  BY LenProperties
<1>2. Sums(V)[Len(V)] = Sums(U)[Len(V)]
  <2> DEFINE m == Len(V)
  <2>1. m \in 0 .. Len(V) /\ m <= Len(U) /\ \A k \in 1 .. m : V[k] = U[k]
    BY <1>1
  <2> HIDE DEF m
  <2>2. Sums(V)[m] = Sums(U)[m]
    BY <2>1, SumsOfPrefix, SMTT(60)
  <2> QED BY <2>2 DEF m
<1>3. Sums(U)[Len(U)] = Sums(U)[Len(V)] + U[Len(U)] /\ Sums(V)[Len(V)] \in Nat
  <2>1. \A k \in 1 .. Len(U) : Sums(U)[k] = Sums(U)[k - 1] + U[k]
    BY SumsAre
  <2>2. \A k \in 0 .. Len(V) : Sums(V)[k] \in Nat
    BY SumsAre
  <2>3. Sums(U)[Len(U)] = Sums(U)[Len(U) - 1] + U[Len(U)]
    BY <1>1, <2>1
  <2>4. Len(V) \in 0 .. Len(V)
    BY <1>1
  <2> QED BY <1>1, <2>2, <2>3, <2>4
<1> QED BY <1>1, <1>2, <1>3, ElementOfSeq DEF SumAll

\* The lengths of some sequences.
Lens(ss) == [p \in 1 .. Len(ss) |-> Len(ss[p])]

\* FlattenSeq has the elements of the sequences, each sequence after the sum of the
\* lengths of those before it.
LEMMA FlattenIs ==
  ASSUME NEW X, NEW ss \in Seq(Seq(X))
  PROVE  /\ Lens(ss) \in Seq(Nat) /\ Len(Lens(ss)) = Len(ss)
         /\ FlattenSeq(ss) \in Seq(X) /\ Len(FlattenSeq(ss)) = SumAll(Lens(ss))
         /\ \A p \in 1 .. Len(ss) : \A j \in 1 .. Len(ss[p]) :
              FlattenSeq(ss)[Sums(Lens(ss))[p - 1] + j] = ss[p][j]
<1> DEFINE n == Len(ss)
           s == Sums(Lens(ss))
           Eq(f, m) == f = [i \in 1 .. m |-> IF i = 1 THEN ss[i] ELSE f[i - 1] \o ss[i]]
<1>1. n \in Nat /\ (\A p \in 1 .. n : ss[p] \in Seq(X)) /\ (\A p \in 1 .. n : Len(ss[p]) \in Nat)
  <2>1. n \in Nat /\ \A p \in 1 .. n : ss[p] \in Seq(X)
    BY ElementOfSeq, LenProperties
  <2> QED BY <2>1, LenProperties
<1>2. Lens(ss) \in Seq(Nat) /\ Len(Lens(ss)) = n /\ \A p \in 1 .. n : Lens(ss)[p] = Len(ss[p])
  BY <1>1 DEF Lens
<1>3. s[0] = 0 /\ (\A p \in 0 .. n : s[p] \in Nat) /\ \A p \in 1 .. n : s[p] = s[p - 1] + Len(ss[p])
  <2>1. s \in [0 .. n -> Nat] /\ s[0] = 0 /\ \A p \in 1 .. n : s[p] = s[p - 1] + Lens(ss)[p]
    BY <1>2, SumsAre
  <2> HIDE DEF s
  <2> QED BY <1>2, <2>1
<1>4. \A p \in 0 .. n : \A q \in p .. n : s[p] <= s[q]
  BY <1>2, SumsGrow
<1> HIDE DEF n, s
\* f[m] is right if f has the equation up to m
<1> DEFINE Joined(t, m) ==
      /\ t \in Seq(X) /\ Len(t) = s[m]
      /\ \A p \in 1 .. m : \A j \in 1 .. Len(ss[p]) : t[s[p - 1] + j] = ss[p][j]
<1>5. ASSUME NEW m \in 1 .. n, NEW t, Joined(t, m), m + 1 <= n
      PROVE  Joined(t \o ss[m + 1], m + 1)
  <2> DEFINE next == ss[m + 1]
             u == t \o next
  <2>1. /\ m + 1 \in 1 .. n /\ m \in 0 .. n /\ (m + 1) - 1 = m /\ ss[m + 1] \in Seq(X)
        /\ s[m + 1] = s[m] + Len(ss[m + 1]) /\ s[m] \in Nat /\ Len(ss[m + 1]) \in Nat
    <3>1. m + 1 \in 1 .. n /\ m \in 0 .. n /\ (m + 1) - 1 = m
      BY <1>1, <1>5
    <3> QED BY <1>1, <1>3, <3>1
  <2> DEFINE a == s[m]
             l == Len(ss[m + 1])
  <2>2. /\ u \in Seq(X) /\ Len(u) = a + l
        /\ \A i \in 1 .. a + l : u[i] = IF i <= a THEN t[i] ELSE next[i - a]
    <3>1. t \in Seq(X) /\ Len(t) = a /\ next \in Seq(X) /\ Len(next) = l
      BY <1>5, <2>1
    <3> HIDE DEF a, l, next
    <3>2. /\ u \in Seq(X) /\ Len(u) = Len(t) + Len(next)
          /\ \A i \in 1 .. Len(t) + Len(next) : u[i] = IF i <= Len(t) THEN t[i] ELSE next[i - Len(t)]
      BY <3>1, ConcatProperties
    <3> HIDE DEF u
    <3> QED BY <3>1, <3>2
  <2>3. a \in Nat /\ l \in Nat /\ s[m + 1] = a + l
    BY <2>1
  <2> HIDE DEF u, a, l
  <2>4. ASSUME NEW p \in 1 .. m + 1, NEW j \in 1 .. Len(ss[p]) PROVE u[s[p - 1] + j] = ss[p][j]
    <3>1. CASE p = m + 1
      <4>1. j \in 1 .. l
        BY <3>1 DEF l
      <4>2. a + j \in 1 .. a + l /\ ~(a + j <= a) /\ (a + j) - a = j
        BY <2>3, <4>1
      <4>3. u[a + j] = next[j]
        <5> HIDE DEF next
        <5> QED BY <2>2, <4>2
      <4> QED BY <2>1, <3>1, <4>3 DEF a
    <3>2. CASE p # m + 1
      <4>1. p \in 1 .. m /\ p \in 1 .. n /\ p - 1 \in 0 .. n /\ p \in 0 .. n /\ m \in p .. n
        BY <3>2, <2>1, <1>1
      <4>2. s[p] <= a /\ s[p] = s[p - 1] + Len(ss[p])
        BY <1>3, <1>4, <4>1 DEF a
      <4>3. s[p - 1] \in Nat /\ Len(ss[p]) \in Nat
        BY <1>1, <1>3, <4>1
      <4> DEFINE b == s[p - 1]
                 k == Len(ss[p])
      <4>4. j \in 1 .. k /\ b \in Nat /\ k \in Nat /\ b + k <= a
        BY <4>2, <4>3
      <4> HIDE DEF b, k
      <4>5. b + j \in 1 .. a + l /\ b + j <= a
        BY <2>3, <4>4
      <4>6. u[b + j] = t[b + j]
        BY <2>2, <4>5
      <4> QED BY <1>5, <4>1, <4>6 DEF b
    <3> QED BY <3>1, <3>2
  <2> QED BY <1>5, <2>1, <2>2, <2>3, <2>4 DEF u
<1>6. n # 0 => Joined(ss[1], 1)
  <2> SUFFICES ASSUME n # 0 PROVE Joined(ss[1], 1)
    OBVIOUS
  <2>1. 1 \in 1 .. n /\ 1 - 1 = 0
    BY <1>1
  <2>2. ss[1] \in Seq(X) /\ Len(ss[1]) \in Nat /\ s[1] = s[0] + Len(ss[1])
    BY <1>1, <1>3, <2>1
  <2> QED BY <1>3, <2>1, <2>2
<1> HIDE DEF Joined, Eq
<1> DEFINE Has(m) == \E f : Eq(f, m) /\ \A i \in 1 .. m : Joined(f[i], i)
           T == {m \in Nat : m <= n => Has(m)}
<1> HIDE DEF Has
<1>7. 0 \in T
  <2> DEFINE f == [i \in 1 .. 0 |-> IF i = 1 THEN ss[i] ELSE << >>]
  <2>1. Eq(f, 0)
    BY DEF Eq
  <2>2. Has(0)
    BY <2>1 DEF Has
  <2> QED BY <2>2
<1>8. ASSUME NEW m \in T PROVE m + 1 \in T
  <2> SUFFICES ASSUME m + 1 <= n PROVE Has(m + 1)
    OBVIOUS
  <2>1. Has(m) /\ m \in Nat
    BY <1>1
  <2>2. PICK f : Eq(f, m) /\ \A i \in 1 .. m : Joined(f[i], i)
    BY <2>1 DEF Has
  <2> DEFINE new == IF m = 0 THEN ss[1] ELSE f[m] \o ss[m + 1]
             h == [i \in 1 .. m + 1 |-> IF i = m + 1 THEN new ELSE f[i]]
  <2>3. Joined(new, m + 1)
    <3>1. CASE m = 0
      <4>1. n # 0 /\ m + 1 = 1
        BY <1>1, <3>1
      <4> QED BY <1>6, <3>1, <4>1
    <3>2. CASE m # 0
      <4>1. m \in 1 .. n /\ m \in 1 .. m
        BY <1>1, <2>1, <3>2
      <4> QED BY <1>5, <2>2, <3>2, <4>1
    <3> QED BY <3>1, <3>2
  <2>4. \A i \in 1 .. m : f[i] = IF i = 1 THEN ss[i] ELSE f[i - 1] \o ss[i]
    BY <2>2 DEF Eq
  <2>5. \A i \in 1 .. m + 1 : h[i] = IF i = 1 THEN ss[i] ELSE h[i - 1] \o ss[i]
    <3> TAKE i \in 1 .. m + 1
    <3> HIDE DEF new
    <3>1. CASE i = m + 1 /\ m = 0
      BY <3>1 DEF new
    <3>2. CASE i = m + 1 /\ m # 0
      <4>1. i - 1 = m /\ m \in 1 .. m + 1 /\ m # m + 1 /\ i # 1
        BY <2>1, <3>2
      <4>2. h[i] = new /\ h[i - 1] = f[m]
        BY <3>2, <4>1
      <4> QED BY <3>2, <4>1, <4>2 DEF new
    <3>3. CASE i # m + 1
      <4>1. i \in 1 .. m
        BY <2>1, <3>3
      <4>2. i # 1 => i - 1 \in 1 .. m + 1 /\ i - 1 # m + 1
        BY <2>1, <4>1
      <4>3. h[i] = f[i] /\ (i # 1 => h[i - 1] = f[i - 1])
        BY <3>3, <4>2
      <4> QED BY <2>4, <4>1, <4>3
    <3> QED BY <3>1, <3>2, <3>3
  <2>6. h = [i \in 1 .. m + 1 |-> h[i]]
    OBVIOUS
  <2>7. \A i \in 1 .. m + 1 : Joined(h[i], i)
    <3> TAKE i \in 1 .. m + 1
    <3>1. CASE i = m + 1
      BY <2>3, <3>1
    <3>2. CASE i # m + 1
      <4>1. i \in 1 .. m /\ h[i] = f[i]
        BY <2>1, <3>2
      <4> QED BY <2>2, <4>1
    <3> QED BY <3>1, <3>2
  <2> HIDE DEF h
  <2>8. Eq(h, m + 1)
    BY <2>5, <2>6 DEF Eq
  <2> QED BY <2>7, <2>8 DEF Has
<1>9. Has(n)
  <2>1. T \in SUBSET Nat
    OBVIOUS
  <2>2. T = Nat
    <3> HIDE DEF T
    <3> QED BY <1>7, <1>8, <2>1, Induction
  <2>3. n \in T
    BY <1>1, <2>2
  <2> QED BY <1>1, <2>3
<1>10. CASE n = 0
  <2>1. ss = << >> /\ FlattenSeq(ss) = << >>
    BY <1>10, EmptySeq DEF FlattenSeq, n
  <2> QED BY <1>2, <1>3, <1>10, <2>1, EmptySeq DEF SumAll, n, s
<1>11. CASE n # 0
  <2> DEFINE g == CHOOSE f : Eq(f, n)
  <2>1. FlattenSeq(ss) = g[n]
    BY <1>11 DEF FlattenSeq, Eq, n
  <2>2. Eq(g, n)
    BY <1>9 DEF Has
  <2> HIDE DEF g
  <2>3. \A i \in 1 .. n : g[i] = IF i = 1 THEN ss[i] ELSE g[i - 1] \o ss[i]
    BY <2>2 DEF Eq
  <2> DEFINE Y == {m \in Nat : m + 1 <= n => Joined(g[m + 1], m + 1)}
  <2>4. 0 \in Y
    <3>1. g[1] = ss[1]
      BY <1>1, <1>11, <2>3
    <3> QED BY <1>6, <1>11, <3>1
  <2>5. ASSUME NEW m \in Y PROVE m + 1 \in Y
    <3> SUFFICES ASSUME (m + 1) + 1 <= n PROVE Joined(g[(m + 1) + 1], (m + 1) + 1)
      OBVIOUS
    <3>1. m + 1 \in 1 .. n /\ (m + 1) + 1 \in 1 .. n /\ ((m + 1) + 1) - 1 = m + 1 /\ (m + 1) + 1 # 1
      BY <1>1
    <3>2. Joined(g[m + 1], m + 1)
      BY <1>1, <3>1
    <3>3. g[(m + 1) + 1] = g[m + 1] \o ss[(m + 1) + 1]
      BY <2>3, <3>1
    <3> QED BY <1>5, <3>1, <3>2, <3>3
  <2>6. Y = Nat
    <3>1. Y \in SUBSET Nat
      OBVIOUS
    <3> HIDE DEF Y
    <3> QED BY <2>4, <2>5, <3>1, Induction
  <2>7. Joined(g[n], n)
    <3>1. n - 1 \in Y /\ (n - 1) + 1 = n
      <4>1. n - 1 \in Nat /\ (n - 1) + 1 = n
        BY <1>1, <1>11
      <4> HIDE DEF Y
      <4> QED BY <2>6, <4>1
    <3>2. Joined(g[(n - 1) + 1], (n - 1) + 1)
      BY <1>1, <3>1
    <3> QED BY <3>1, <3>2
  <2> QED BY <1>2, <2>1, <2>7 DEF Joined, SumAll, n, s
<1> QED BY <1>10, <1>11
-----------------------------------------------------------------------------
(* Parquet: the queue of items of a column.                                 *)

\* The starts of items of a size.
LEMMA Multiples ==
  ASSUME NEW s \in Nat, NEW i \in Nat
  PROVE  /\ i * s \in Nat /\ (i + 1) * s = i * s + s /\ 0 * s = 0 /\ 1 * s = s
         /\ \A j \in Nat : i <= j => i * s <= j * s
<1>1. i * s \in Nat /\ (i + 1) * s = i * s + s /\ 0 * s = 0 /\ 1 * s = s
  OBVIOUS
<1>2. ASSUME NEW j \in Nat, i <= j PROVE i * s <= j * s
  BY <1>2
<1> QED BY <1>1, <1>2

\* Max and Min find the greatest and the least of some numbers.
LEMMA GreatestIs ==
  ASSUME NEW n \in Nat, NEW U \in SUBSET (0 .. n), U # {}
  PROVE  Max(U) \in U /\ \A u \in U : u <= Max(U)
<1> DEFINE R == {pair \in Nat \X Nat : pair[1] < pair[2]}
           D == {n - u : u \in U}
<1>1. IsWellFoundedOn(R, Nat)
  BY NatLessThanWellFounded, Zenon DEF OpToRel
<1>2. D \subseteq Nat /\ D # {}
  <2>1. \A u \in U : n - u \in Nat
    OBVIOUS
  <2> QED BY <2>1
<1> HIDE DEF R
<1>3. PICK x \in D : \A y \in D : ~ (<< y, x >> \in R)
  <2> HIDE DEF D
  <2> QED BY <1>1, <1>2, WFMin
<1>4. PICK m \in U : x = n - m
  OBVIOUS
<1>5. \A u \in U : m >= u
  <2> TAKE u \in U
  <2>1. n - u \in D /\ n - u \in Nat /\ x \in Nat
    OBVIOUS
  <2>2. ~ (n - u < x)
    BY <1>3, <2>1 DEF R
  <2> QED BY <1>4, <2>1, <2>2
<1>6. Max(U) \in U /\ \A u \in U : Max(U) >= u
  BY <1>5 DEF Max
<1> QED BY <1>6

\* The least number of a set.
LEMMA LeastIs ==
  ASSUME NEW U \in SUBSET Nat, NEW m \in U, \A u \in U : m <= u
  PROVE  Min(U) = m
<1>1. Min(U) \in U /\ \A u \in U : Min(U) <= u
  BY DEF Min
<1>2. Min(U) \in Nat /\ m \in Nat
  BY <1>1
<1> QED BY <1>1, <1>2

\* What a row of a column may be; a blank is a null column's.
Cells == Nat \cup {Blank}

\* The rows of a stream that follow the first a, up to the first d, in items of a size.
Queue(items, S, a, d, size) ==
  /\ items \in Seq(Seq(Cells))
  /\ a <= d /\ (items = << >> => a = d) /\ d <= a + Len(items) * size
  /\ \A k \in 1 .. Len(items) :
       /\ a + (k - 1) * size <= d
       /\ items[k] = SubSeq(S, a + (k - 1) * size + 1, Lower(a + k * size, d))

\* A part of a stream.
LEMMA PartOf ==
  ASSUME NEW S \in Seq(Cells), NEW x \in Nat, NEW y \in Nat, x <= y, y <= Len(S)
  PROVE  /\ SubSeq(S, x + 1, y) \in Seq(Cells) /\ Len(SubSeq(S, x + 1, y)) = y - x
         /\ \A j \in 1 .. y - x : SubSeq(S, x + 1, y)[j] = S[x + j]
<1>1. \A i \in x + 1 .. y : S[i] \in Cells
  <2>1. Len(S) \in Nat
    BY LenProperties
  <2>2. \A i \in x + 1 .. y : i \in 1 .. Len(S)
    BY <2>1
  <2> QED BY <2>2, ElementOfSeq
<1>2. x + 1 \in Int /\ y \in Int /\ y - (x + 1) + 1 = y - x /\ (x + 1 <= y \/ y - x = 0)
  OBVIOUS
<1>3. /\ SubSeq(S, x + 1, y) \in Seq(Cells)
      /\ Len(SubSeq(S, x + 1, y)) = IF x + 1 <= y THEN y - (x + 1) + 1 ELSE 0
      /\ \A j \in 1 .. y - (x + 1) + 1 : SubSeq(S, x + 1, y)[j] = S[(x + 1) + j - 1]
  BY <1>1, <1>2, SubSeqProperties
<1>4. Len(SubSeq(S, x + 1, y)) = y - x
  BY <1>2, <1>3
<1>5. \A j \in 1 .. y - x : SubSeq(S, x + 1, y)[j] = S[x + j]
  <2> TAKE j \in 1 .. y - x
  <2>1. (x + 1) + j - 1 = x + j /\ j \in 1 .. y - (x + 1) + 1
    OBVIOUS
  <2> QED BY <1>3, <2>1
<1> QED BY <1>3, <1>4, <1>5

\* Sequences with the same elements are the same.
LEMMA SameSeq ==
  ASSUME NEW X, NEW s \in Seq(X), NEW t \in Seq(X), NEW n, Len(s) = n, Len(t) = n,
         \A i \in 1 .. n : s[i] = t[i]
  PROVE  s = t
BY SeqEqual

\* A part of a part.
LEMMA PartOfPart ==
  ASSUME NEW S \in Seq(Cells), NEW x \in Nat, NEW y \in Nat, x <= y, y <= Len(S),
         NEW u \in Nat, NEW v \in Nat, u <= v, v <= y - x
  PROVE  SubSeq(SubSeq(S, x + 1, y), u + 1, v) = SubSeq(S, x + u + 1, x + v)
<1> DEFINE t == SubSeq(S, x + 1, y)
<1>1. t \in Seq(Cells) /\ Len(t) = y - x /\ \A j \in 1 .. y - x : t[j] = S[x + j]
  BY PartOf
<1> HIDE DEF t
<1>2. /\ SubSeq(t, u + 1, v) \in Seq(Cells) /\ Len(SubSeq(t, u + 1, v)) = v - u
      /\ \A j \in 1 .. v - u : SubSeq(t, u + 1, v)[j] = t[u + j]
  BY <1>1, PartOf
<1>3. x + u \in Nat /\ x + v \in Nat /\ x + u <= x + v /\ x + v <= Len(S) /\ (x + v) - (x + u) = v - u
  <2>1. Len(S) \in Nat
    BY LenProperties
  <2> QED BY <2>1
<1>4. /\ SubSeq(S, x + u + 1, x + v) \in Seq(Cells) /\ Len(SubSeq(S, x + u + 1, x + v)) = v - u
      /\ \A j \in 1 .. v - u : SubSeq(S, x + u + 1, x + v)[j] = S[x + u + j]
  BY <1>3, PartOf
<1>5. ASSUME NEW j \in 1 .. v - u PROVE SubSeq(t, u + 1, v)[j] = SubSeq(S, x + u + 1, x + v)[j]
  <2>1. u + j \in 1 .. y - x /\ x + (u + j) = x + u + j
    OBVIOUS
  <2>2. t[u + j] = S[x + (u + j)]
    BY <1>1, <2>1
  <2> QED BY <1>2, <1>4, <2>1, <2>2
<1> HIDE DEF t
<1>6. SubSeq(t, u + 1, v) = SubSeq(S, x + u + 1, x + v)
  BY <1>2, <1>4, <1>5, SameSeq
<1> QED BY <1>6 DEF t

\* The sequence without elements is the empty one.
LEMMA EmptySequence ==
  ASSUME NEW X, NEW s \in Seq(X)
  PROVE  Len(s) \in Nat /\ (s = << >> <=> Len(s) = 0)
<1>1. Len(s) \in Nat
  BY LenProperties
<1>2. s # << >> => Len(s) \in Nat \ {0}
  BY EmptySeq
<1> QED BY <1>1, <1>2

\* The k-th item of a queue: the rows after those of the items before it, as many as
\* it holds if it is not the last.
ItemIs(items, S, a, d, size, k) ==
  LET x == a + (k - 1) * size
  IN  /\ Len(items) \in Nat /\ x \in Nat
      /\ items[k] \in Seq(Cells) /\ Len(items[k]) \in Nat
      /\ Len(items[k]) = Lower(size, d - x) /\ Len(items[k]) <= size /\ x + Len(items[k]) <= d
      /\ k < Len(items) => Len(items[k]) = size
      /\ k = Len(items) => x + Len(items[k]) = d
      /\ \A j \in 1 .. Len(items[k]) : items[k][j] = S[x + j]

\* An item of the queue holds rows of the stream, in place.
LEMMA QueueItems ==
  ASSUME NEW S \in Seq(Cells), NEW size \in Nat \ {0}, NEW a \in Nat, NEW d \in Nat, d <= Len(S),
         NEW items, Queue(items, S, a, d, size), NEW k \in 1 .. Len(items)
  PROVE  ItemIs(items, S, a, d, size, k)
<1>1. Len(items) \in Nat /\ k - 1 \in Nat /\ k \in Nat
  BY LenProperties DEF Queue
<1>2. (k - 1) * size \in Nat /\ k * size = (k - 1) * size + size
  <2>1. ((k - 1) + 1) * size = (k - 1) * size + size /\ (k - 1) * size \in Nat
    BY <1>1, Multiples
  <2> QED BY <1>1, <2>1
<1> DEFINE x == a + (k - 1) * size
           y == Lower(a + k * size, d)
<1>3. x \in Nat /\ y \in Nat /\ x <= y /\ y <= Len(S) /\ y - x = Lower(size, d - x) /\ y - x <= size /\ y <= d /\ x <= d
  <2>1. x <= d /\ x \in Nat /\ a + k * size = x + size
    <3>1. a + (k - 1) * size <= d
      BY DEF Queue
    <3> DEFINE p == (k - 1) * size
               q == k * size
    <3>2. p \in Nat /\ q = p + size
      BY <1>2
    <3> HIDE DEF p, q
    <3>3. a + p \in Nat /\ a + q = (a + p) + size
      BY <3>2
    <3> QED BY <3>1, <3>3 DEF p, q
  <2>2. Len(S) \in Nat
    BY LenProperties
  <2> HIDE DEF x
  <2> QED BY <2>1, <2>2 DEF Lower
<1>4. items[k] = SubSeq(S, x + 1, y)
  BY DEF Queue
<1> HIDE DEF x, y
<1>5. items[k] \in Seq(Cells) /\ Len(items[k]) = y - x /\ \A j \in 1 .. y - x : items[k][j] = S[x + j]
  BY <1>3, <1>4, PartOf
<1>6. ASSUME k < Len(items) PROVE Len(items[k]) = size
  <2>1. k + 1 \in 1 .. Len(items) /\ (k + 1) - 1 = k
    BY <1>1, <1>6
  <2>2. a + ((k + 1) - 1) * size <= d
    BY <2>1 DEF Queue
  <2>3. x + size <= d
    BY <1>2, <2>1, <2>2 DEF x
  <2> QED BY <1>3, <1>5, <2>3 DEF Lower
<1>7. ASSUME k = Len(items) PROVE x + Len(items[k]) = d
  <2>1. d <= a + k * size /\ a + k * size = x + size
    BY <1>2, <1>7 DEF Queue, x
  <2> QED BY <1>3, <1>5, <2>1 DEF Lower
<1>8. Len(items[k]) = Lower(size, d - x) /\ Len(items[k]) <= size /\ Len(items[k]) \in Nat /\ x + Len(items[k]) <= d
  BY <1>3, <1>5
<1> QED BY <1>1, <1>3, <1>5, <1>6, <1>7, <1>8 DEF x, ItemIs

\* The item in front has the next n rows, and the queue goes on after them.
HandsOut(items, S, a, d, size, n) ==
  /\ Head(items) = SubSeq(S, a + 1, a + n) /\ Len(Head(items)) = n
  /\ n \in Nat \ {0} /\ a + n <= d
  /\ Queue(Tail(items), S, a + n, d, size)

\* The item in front is handed out: the rows up to a whole item, or up to the last.
LEMMA QueueGives ==
  ASSUME NEW S \in Seq(Cells), NEW size \in Nat \ {0}, NEW a \in Nat, NEW d \in Nat, d <= Len(S),
         NEW T \in Nat, a < T, d <= T,
         NEW items, Queue(items, S, a, d, size), items # << >>,
         Len(items) > 1 \/ Len(Head(items)) >= size \/ d = T
  PROVE  HandsOut(items, S, a, d, size, Lower(size, T - a))
<1> DEFINE n == Lower(size, T - a)
           m == Len(items)
           rest == Tail(items)
<1>1. m \in Nat \ {0} /\ items \in Seq(Seq(Cells))
  BY EmptySeq DEF Queue
<1>2. /\ Head(items) = items[1] /\ rest \in Seq(Seq(Cells)) /\ Len(rest) = m - 1
      /\ \A k \in 1 .. m - 1 : rest[k] = items[k + 1]
  <2>1. Head(items) = items[1]
    BY <1>1
  <2> QED BY <1>1, <2>1, HeadTailProperties
<1>3. 1 \in 1 .. m /\ 1 - 1 = 0 /\ 0 * size = 0 /\ a + 0 * size = a /\ a + 0 = a
  BY <1>1, Multiples
<1>4. /\ Len(items[1]) = Lower(size, d - a) /\ (1 < m => Len(items[1]) = size)
      /\ (m = 1 => a + Len(items[1]) = d)
  <2>1. PICK k \in 1 .. m : k = 1
    BY <1>3
  <2> DEFINE x == a + (k - 1) * size
  <2>2. x = a
    BY <1>3, <2>1
  <2>3. /\ Len(items[k]) = Lower(size, d - x) /\ (k < Len(items) => Len(items[k]) = size)
        /\ (k = Len(items) => x + Len(items[k]) = d)
    <3>1. ItemIs(items, S, a, d, size, k)
      BY QueueItems
    <3> QED BY <3>1 DEF ItemIs
  <2> HIDE DEF x
  <2> QED BY <2>1, <2>2, <2>3
<1>5. a <= d /\ d <= a + m * size /\ (\A k \in 1 .. m : a + (k - 1) * size <= d /\ items[k] = SubSeq(S, a + (k - 1) * size + 1, Lower(a + k * size, d)))
  BY DEF Queue
<1>6. n \in Nat \ {0} /\ a + n <= d /\ Len(items[1]) = n /\ (1 < m => n = size) /\ (m = 1 => a + n = d)
  <2>1. Len(items[1]) >= size \/ d = T \/ 1 < m
    BY <1>1, <1>2
  <2> HIDE DEF m
  <2> QED BY <1>1, <1>4, <1>5, <2>1 DEF Lower
<1>7. Head(items) = SubSeq(S, a + 1, a + n)
  <2>1. 1 * size = size /\ items[1] = SubSeq(S, a + (1 - 1) * size + 1, Lower(a + 1 * size, d))
    BY <1>3, <1>5, Multiples
  <2>2. items[1] = SubSeq(S, a + 1, Lower(a + size, d))
    BY <1>3, <2>1
  <2>3. Lower(a + size, d) = a + n
    <3> HIDE DEF n
    <3>1. Lower(size, d - a) = n
      BY <1>4, <1>6
    <3> QED BY <1>5, <3>1 DEF Lower
  <2> QED BY <1>2, <2>2, <2>3
<1>8. Queue(rest, S, a + n, d, size)
  <2>1. CASE m = 1
    <3>1. rest = << >> /\ Len(rest) = 0 /\ a + n = d
      <4>1. a + n = d
        BY <1>6, <2>1
      <4> HIDE DEF rest, n, m
      <4>2. Len(rest) = 0
        BY <1>2, <2>1
      <4> QED BY <1>2, <4>1, <4>2, EmptySequence
    <3>2. d <= d + 0 * size
      BY <1>3
    <3> HIDE DEF rest, n, m
    <3> QED BY <1>2, <3>1, <3>2 DEF Queue
  <2>2. CASE 1 < m
    <3>1. n = size /\ Len(rest) = m - 1 /\ rest # << >>
      <4>1. n = size
        BY <1>6, <2>2
      <4> HIDE DEF rest, n, m
      <4>2. Len(rest) = m - 1 /\ m - 1 # 0
        BY <1>1, <1>2, <2>2
      <4> QED BY <1>2, <4>1, <4>2, EmptySequence
    <3>2. d <= (a + n) + (m - 1) * size
      <4>1. ((m - 1) + 1) * size = (m - 1) * size + size /\ (m - 1) * size \in Nat /\ (m - 1) + 1 = m
        <5> HIDE DEF m
        <5>1. m - 1 \in Nat /\ (m - 1) + 1 = m
          BY <1>1
        <5> QED BY <5>1, Multiples
      <4>2. m * size = (m - 1) * size + size /\ d <= a + m * size
        BY <1>5, <4>1
      <4> DEFINE p == m * size
                 q == (m - 1) * size
      <4>3. p = q + size /\ d <= a + p /\ q \in Nat
        BY <4>1, <4>2
      <4> HIDE DEF p, q, n, m
      <4>4. d <= (a + n) + q
        BY <3>1, <4>3
      <4> QED BY <4>4 DEF q
    <3>3. ASSUME NEW k \in 1 .. m - 1
          PROVE  /\ (a + n) + (k - 1) * size <= d
                 /\ rest[k] = SubSeq(S, (a + n) + (k - 1) * size + 1, Lower((a + n) + k * size, d))
      <4>1. k \in Nat /\ k - 1 \in Nat /\ (k - 1) + 1 = k /\ k + 1 \in 1 .. m /\ (k + 1) - 1 = k
        BY <1>1
      <4>2. k * size = (k - 1) * size + size /\ (k + 1) * size = k * size + size /\ (k - 1) * size \in Nat
        <5>1. ((k - 1) + 1) * size = (k - 1) * size + size /\ (k - 1) * size \in Nat
          BY <4>1, Multiples
        <5>2. (k + 1) * size = k * size + size
          BY <4>1, Multiples
        <5> QED BY <4>1, <5>1, <5>2
      <4>3. /\ a + k * size <= d
            /\ items[k + 1] = SubSeq(S, a + k * size + 1, Lower(a + (k + 1) * size, d))
        BY <1>5, <4>1
      <4>4. a + k * size = (a + n) + (k - 1) * size /\ a + (k + 1) * size = (a + n) + k * size
        BY <3>1, <4>2
      <4> QED BY <1>2, <4>3, <4>4
    <3>4. a + n <= d
      BY <1>6
    <3> HIDE DEF rest, n, m
    <3> QED BY <1>2, <3>1, <3>2, <3>3, <3>4 DEF Queue
  <2> HIDE DEF m, rest, n
  <2>3. m = 1 \/ 1 < m
    BY <1>1
  <2> QED BY <2>1, <2>2, <2>3
<1> HIDE DEF n, rest
<1> QED BY <1>2, <1>6, <1>7, <1>8 DEF HandsOut, n, rest

\* How many pieces there are of n rows.
LEMMA PieceCount ==
  ASSUME NEW n \in Nat, NEW size \in Nat \ {0}
  PROVE  LET q == (n + size - 1) \div size
         IN  /\ q \in Nat /\ n <= q * size /\ (q = 0 => n = 0)
             /\ \A k \in 1 .. q : (k - 1) * size \in Nat /\ (k - 1) * size < n /\ k * size = (k - 1) * size + size
<1> DEFINE x == n + size - 1
           q == x \div size
           r == x % size
<1>1. x \in Nat
  OBVIOUS
<1>2. q \in Nat /\ r \in 0 .. size - 1 /\ x = size * q + r
  <2> HIDE DEF x
  <2> QED BY <1>1, DivMod
<1>3. q * size = size * q /\ q * size \in Nat
  <2> HIDE DEF q
  <2> QED BY <1>2
<1> HIDE DEF q, r
<1>4. n <= q * size /\ q * size < n + size
  <2> DEFINE y == q * size
  <2>1. y \in Nat /\ n + size - 1 = y + r
    BY <1>2, <1>3
  <2> HIDE DEF y
  <2>2. n <= y /\ y < n + size
    BY <1>2, <2>1
  <2> QED BY <2>2 DEF y
<1>5. ASSUME NEW k \in 1 .. q
      PROVE  (k - 1) * size \in Nat /\ (k - 1) * size < n /\ k * size = (k - 1) * size + size
  <2>1. k - 1 \in Nat /\ (k - 1) + 1 = k /\ k \in Nat /\ k <= q
    BY <1>2
  <2>2. (k - 1) * size \in Nat /\ k * size = (k - 1) * size + size
    BY <2>1, Multiples
  <2>3. k * size <= q * size
    BY <1>2, <2>1, Multiples
  <2> DEFINE y == q * size
             u == (k - 1) * size
             v == k * size
  <2>4. u \in Nat /\ v = u + size /\ v <= y /\ y < n + size /\ y \in Nat
    BY <1>3, <1>4, <2>2, <2>3
  <2> HIDE DEF y, u, v
  <2>5. u < n
    BY <2>4
  <2> QED BY <2>2, <2>5 DEF u
<1>6. q = 0 => n = 0
  BY <1>4
<1> QED BY <1>2, <1>4, <1>5, <1>6 DEF q

\* The pieces of a part of a stream are a queue.
LEMMA PiecesQueue ==
  ASSUME NEW S \in Seq(Cells), NEW size \in Nat \ {0}, NEW a \in Nat, NEW d \in Nat, a <= d, d <= Len(S)
  PROVE  Queue(Pieces(SubSeq(S, a + 1, d), size), S, a, d, size)
<1> DEFINE held == SubSeq(S, a + 1, d)
           n == d - a
           q == (n + size - 1) \div size
           Item(k) == SubSeq(held, (k - 1) * size + 1, Lower(k * size, n))
           items == [k \in 1 .. q |-> Item(k)]
<1>1. held \in Seq(Cells) /\ Len(held) = n /\ n \in Nat /\ d = a + n
  BY PartOf
<1>2. /\ q \in Nat /\ n <= q * size /\ (q = 0 => n = 0)
      /\ \A k \in 1 .. q : (k - 1) * size \in Nat /\ (k - 1) * size < n /\ k * size = (k - 1) * size + size
  <2> HIDE DEF n
  <2> QED BY <1>1, PieceCount
<1>3. Pieces(held, size) = items
  BY <1>1 DEF Pieces
<1> HIDE DEF n, q
<1>4. ASSUME NEW k \in 1 .. q
      PROVE  /\ a + (k - 1) * size <= d /\ Item(k) \in Seq(Cells)
             /\ Item(k) = SubSeq(S, a + (k - 1) * size + 1, Lower(a + k * size, d))
  <2> DEFINE u == (k - 1) * size
             w == k * size
             v == Lower(w, n)
  <2>1. u \in Nat /\ u < n /\ w = u + size
    BY <1>2
  <2> HIDE DEF u, w
  <2>2. v \in Nat /\ u <= v /\ v <= n /\ a + v = Lower(a + w, d) /\ a + u <= d
    BY <1>1, <2>1 DEF Lower
  <2> HIDE DEF v
  <2>3. SubSeq(held, u + 1, v) = SubSeq(S, a + u + 1, a + v)
    <3>1. v <= d - a
      BY <1>1, <2>2
    <3> QED BY <2>1, <2>2, <3>1, PartOfPart
  <2>4. SubSeq(held, u + 1, v) \in Seq(Cells)
    <3> HIDE DEF held
    <3> QED BY <1>1, <2>1, <2>2, PartOf
  <2> QED BY <2>2, <2>3, <2>4 DEF u, v, w
<1> HIDE DEF Item
<1>5. items \in Seq(Seq(Cells)) /\ Len(items) = q /\ \A k \in 1 .. q : items[k] = Item(k)
  BY <1>2, <1>4
<1> HIDE DEF items
<1>6. items = << >> => a = d
  BY <1>1, <1>2, <1>5, EmptySequence
<1>7. d <= a + q * size
  <2> DEFINE y == q * size
  <2>1. n <= y /\ y \in Nat
    BY <1>2, Multiples
  <2> HIDE DEF y
  <2>2. d <= a + y
    BY <1>1, <2>1
  <2> QED BY <2>2 DEF y
<1>8. Queue(items, S, a, d, size)
  BY <1>4, <1>5, <1>6, <1>7 DEF Queue
<1> QED BY <1>3, <1>8

\* The items of a queue of one item or none, and rows after them (extend_from_new_page).
Longer(items, rows, size) ==
  LET held == (IF items = << >> THEN << >> ELSE Last(items)) \o rows
      done == IF items = << >> THEN << >> ELSE Front(items)
  IN  done \o IF held = << >> THEN << << >> >> ELSE Pieces(held, size)

\* A queue of one item or none goes on with the rows that follow.
LEMMA QueueGoesOn ==
  ASSUME NEW S \in Seq(Cells), NEW size \in Nat \ {0}, NEW a \in Nat, NEW d \in Nat,
         NEW items, Queue(items, S, a, d, size), Len(items) <= 1,
         NEW rows \in Seq(Cells), d + Len(rows) <= Len(S),
         \A j \in 1 .. Len(rows) : rows[j] = S[d + j]
  PROVE  Queue(Longer(items, rows, size), S, a, d + Len(rows), size)
<1> DEFINE begun == IF items = << >> THEN << >> ELSE Last(items)
           held == begun \o rows
           done == IF items = << >> THEN << >> ELSE Front(items)
           n == Len(rows)
           e == d + n
           more == IF held = << >> THEN << << >> >> ELSE Pieces(held, size)
<1>1. items \in Seq(Seq(Cells)) /\ Len(items) \in Nat /\ (items = << >> <=> Len(items) = 0)
      /\ (items # << >> => Len(items) = 1)
  <2>1. items \in Seq(Seq(Cells)) /\ Len(items) \in Nat /\ (items = << >> <=> Len(items) = 0)
    BY EmptySequence DEF Queue
  <2> DEFINE m == Len(items)
  <2>2. m \in Nat /\ m <= 1 => m = 0 \/ m = 1
    <3> HIDE DEF m
    <3> QED OBVIOUS
  <2> QED BY <2>1, <2>2
<1>2. n \in Nat /\ Len(S) \in Nat /\ e \in Nat /\ d <= e /\ e <= Len(S) /\ d <= Len(S)
  BY LenProperties
<1>3. done = << >>
  <2>1. CASE items = << >>
    BY <2>1
  <2>2. CASE items # << >>
    <3>1. Len(items) - 1 = 0
      <4>1. Len(items) = 1
        BY <1>1, <2>2
      <4> QED BY <4>1
    <3>2. Len(items) - 1 \in Int /\ Len(items) - 1 < 1
      BY <3>1
    <3> QED BY <2>2, <3>2, SubSeqEmpty DEF Front
  <2> QED BY <2>1, <2>2
<1>4. /\ a <= d /\ begun \in Seq(Cells) /\ Len(begun) = d - a
      /\ \A j \in 1 .. d - a : begun[j] = S[a + j]
  <2>1. CASE items = << >>
    <3>1. a = d /\ begun = << >>
      BY <2>1 DEF Queue
    <3>2. begun \in Seq(Cells) /\ Len(begun) = 0
      BY <3>1, EmptySeq
    <3> HIDE DEF begun
    <3>3. d - a = 0 /\ a <= d
      BY <3>1
    <3> QED BY <3>2, <3>3
  <2>2. CASE items # << >>
    <3>1. PICK k \in 1 .. Len(items) : k = 1 /\ k = Len(items)
      BY <1>1, <2>2
    <3>2. (k - 1) * size = 0 /\ a + (k - 1) * size = a
      BY <3>1, Multiples
    <3>3. ItemIs(items, S, a, d, size, k)
      BY <1>2, QueueItems
    <3>4. begun = items[k]
      BY <2>2, <3>1 DEF Last
    <3> HIDE DEF begun
    <3> DEFINE x == a + (k - 1) * size
    <3>5. x = a /\ a <= d
      BY <3>2 DEF Queue
    <3>6. /\ items[k] \in Seq(Cells) /\ Len(items[k]) \in Nat /\ x + Len(items[k]) = d
          /\ \A j \in 1 .. Len(items[k]) : items[k][j] = S[x + j]
      BY <3>1, <3>3 DEF ItemIs
    <3> HIDE DEF x
    <3>7. Len(begun) = d - a /\ begun \in Seq(Cells)
      BY <3>4, <3>5, <3>6
    <3> QED BY <3>4, <3>5, <3>6, <3>7
  <2> QED BY <2>1, <2>2
<1> HIDE DEF begun, done
<1>5. held = SubSeq(S, a + 1, e) /\ held \in Seq(Cells) /\ Len(held) = e - a
  <2> DEFINE b == d - a
  <2>1. /\ held \in Seq(Cells) /\ Len(held) = Len(begun) + Len(rows)
        /\ \A i \in 1 .. Len(begun) + Len(rows) : held[i] = IF i <= Len(begun) THEN begun[i] ELSE rows[i - Len(begun)]
    BY <1>4, ConcatProperties
  <2>2. b \in Nat /\ Len(begun) = b /\ e - a = b + n /\ d = a + b /\ a <= e
    BY <1>2, <1>4
  <2> HIDE DEF b, held, e
  <2>3. /\ SubSeq(S, a + 1, e) \in Seq(Cells) /\ Len(SubSeq(S, a + 1, e)) = e - a
        /\ \A j \in 1 .. e - a : SubSeq(S, a + 1, e)[j] = S[a + j]
    BY <1>2, <2>2, PartOf
  <2>4. Len(held) = b + n /\ \A i \in 1 .. b + n : held[i] = IF i <= b THEN begun[i] ELSE rows[i - b]
    BY <2>1, <2>2
  <2>5. ASSUME NEW i \in 1 .. b + n PROVE held[i] = SubSeq(S, a + 1, e)[i]
    <3>1. SubSeq(S, a + 1, e)[i] = S[a + i]
      BY <2>2, <2>3
    <3>2. CASE i <= b
      <4>1. i \in 1 .. b /\ b = d - a
        BY <2>2, <1>2, <3>2
      <4> QED BY <1>4, <2>4, <3>1, <3>2, <4>1
    <3>3. CASE ~(i <= b)
      <4>1. i - b \in 1 .. n /\ d + (i - b) = a + i
        BY <1>2, <2>2, <3>3
      <4>2. rows[i - b] = S[d + (i - b)]
        BY <4>1
      <4> QED BY <2>4, <3>1, <3>3, <4>1, <4>2
    <3> QED BY <3>2, <3>3
  <2>6. held = SubSeq(S, a + 1, e)
    <3> DEFINE t == SubSeq(S, a + 1, e)
    <3>1. t \in Seq(Cells) /\ Len(t) = b + n /\ held \in Seq(Cells) /\ Len(held) = b + n
          /\ \A i \in 1 .. b + n : held[i] = t[i]
      BY <2>1, <2>2, <2>3, <2>4, <2>5
    <3> HIDE DEF t, n
    <3>2. held = t
      BY <3>1, SameSeq
    <3> QED BY <3>2 DEF t
  <2> QED BY <2>1, <2>2, <2>4, <2>6
<1> HIDE DEF held, e
<1>6. Queue(more, S, a, e, size)
  <2>1. CASE held = << >>
    <3>1. a = e
      <4>1. Len(held) = 0
        BY <2>1
      <4>2. e - a = 0
        BY <1>5, <4>1
      <4> QED BY <1>2, <4>2
    <3>2. more = << << >> >> /\ SubSeq(S, a + 1, a) = << >>
      BY <1>5, <2>1, <3>1
    <3>3. more \in Seq(Seq(Cells)) /\ Len(more) = 1 /\ more[1] = << >> /\ more # << >>
      <4>1. << >> \in Seq(Cells)
        BY EmptySeq
      <4> HIDE DEF more
      <4> QED BY <3>2, <4>1
    <3>4. 1 * size = size /\ 0 * size = 0
      BY Multiples
    <3>5. Lower(a + 1 * size, a) = a /\ a <= a + 1 * size /\ a + 0 * size = a /\ a + 1 * size = a + size
      BY <3>4 DEF Lower
    <3>6. ASSUME NEW k \in 1 .. 1
          PROVE  a + (k - 1) * size <= a /\ more[k] = SubSeq(S, a + (k - 1) * size + 1, Lower(a + k * size, a))
      <4>1. k = 1 /\ k - 1 = 0
        OBVIOUS
      <4>2. a + (k - 1) * size = a /\ a + k * size = a + 1 * size
        BY <3>5, <4>1
      <4>3. Lower(a + k * size, a) = a
        BY <3>5, <4>2
      <4> HIDE DEF more
      <4> QED BY <3>2, <3>3, <4>1, <4>2, <4>3
    <3> HIDE DEF more
    <3>7. Queue(more, S, a, a, size)
      BY <3>3, <3>5, <3>6 DEF Queue
    <3> QED BY <3>1, <3>7
  <2>2. CASE held # << >>
    <3>1. a <= e
      BY <1>2, <1>4
    <3> QED BY <1>2, <1>5, <2>2, <3>1, PiecesQueue
  <2> QED BY <2>1, <2>2
<1>7. done \o more = more
  <2>1. more \in Seq(Seq(Cells))
    BY <1>6 DEF Queue
  <2> HIDE DEF more
  <2> QED BY <1>3, <2>1, ConcatEmptySeq
<1>8. Longer(items, rows, size) = done \o more
  BY DEF Longer, done, held, begun
<1> HIDE DEF more
<1> QED BY <1>6, <1>7, <1>8 DEF e

\* A page is decoded up to the rows that remain if no item cuts a run before that.
LEMMA DecodedIs ==
  ASSUME NEW page \in PageRecords, NEW begun \in Nat, NEW size \in Nat \ {0}, NEW remaining \in Nat,
         \A c \in CutRuns(page, begun, size) : ~ (c < remaining)
  PROVE  LET rows == Decoded(page, begun, size, remaining)
         IN  /\ rows \in Seq(Cells) /\ Len(rows) = Lower(remaining, Len(page.rows))
             /\ \A j \in 1 .. Len(rows) : rows[j] = page.rows[j]
<1> DEFINE l == Len(page.rows)
           m == Lower(remaining, l)
           cuts == CutRuns(page, begun, size)
           lost == {c \in cuts : \A e \in page.ends : c < e => e = Len(page.rows)}
           Start(n) == Max({0} \cup {e \in page.ends : e < n})
           Cut(n) == Max({Start(n)} \cup {c \in cuts : c < n})
           rows == Decoded(page, begun, size, remaining)
<1>1. l \in Nat /\ page.rows \in Seq(Nat) /\ page.ends \in SUBSET Nat /\ \A j \in 1 .. l : page.rows[j] \in Nat
  <2>1. page.rows \in Seq(Nat) /\ page.ends \in SUBSET Nat
    BY DEF PageRecords
  <2> QED BY <2>1, LenProperties, ElementOfSeq
<1>2. cuts \subseteq Nat /\ \A c \in cuts : remaining <= c
  <2>1. \A c \in cuts : c \in Nat
    BY DEF CutRuns, FullAt
  <2> QED BY <2>1
<1>3. Min({remaining, l} \cup lost) = m /\ m \in Nat
  <2> DEFINE U == {remaining, l} \cup lost
  <2>1. U \in SUBSET Nat
    <3> HIDE DEF l, cuts
    <3> QED BY <1>1, <1>2
  <2>2. m \in U
    BY <1>1 DEF Lower
  <2>3. \A u \in U : m <= u
    <3>1. m <= remaining /\ m <= l
      BY <1>1 DEF Lower
    <3>2. \A c \in lost : remaining <= c /\ c \in Nat
      BY <1>2
    <3>3. m \in Nat
      BY <1>1 DEF Lower
    <3> HIDE DEF l, m, lost
    <3>4. \A c \in lost : m <= c
      BY <3>1, <3>2, <3>3
    <3> QED BY <3>1, <3>4
  <2> HIDE DEF U, m
  <2>4. Min(U) = m
    BY <2>1, <2>2, <2>3, LeastIs
  <2> QED BY <2>1, <2>2, <2>4 DEF U
<1>4. ASSUME NEW n \in 1 .. m PROVE page.rows[Start(n) + n - Cut(n)] = page.rows[n] /\ n \in 1 .. l /\ page.rows[n] \in Nat
  <2>1. n \in 1 .. l /\ n <= remaining /\ n \in Nat
    BY <1>1 DEF Lower
  <2>2. Start(n) \in 0 .. n
    <3> DEFINE U == {0} \cup {e \in page.ends : e < n}
    <3>1. U \in SUBSET (0 .. n) /\ U # {}
      BY <1>1, <2>1
    <3> HIDE DEF U
    <3>2. Max(U) \in U
      BY <2>1, <3>1, GreatestIs
    <3> QED BY <3>1, <3>2 DEF U
  <2> DEFINE x == Start(n)
             U == {x} \cup {c \in cuts : c < n}
  <2>3. U = {x}
    <3>1. \A c \in cuts : ~ (c < n)
      <4> HIDE DEF cuts
      <4> QED BY <1>2, <2>1
    <3> HIDE DEF cuts, x
    <3> QED BY <3>1
  <2>4. Max(U) = x
    <3>1. x \in 0 .. n
      BY <2>2
    <3> HIDE DEF x, U
    <3>2. U \in SUBSET (0 .. n) /\ U # {}
      BY <2>3, <3>1
    <3>3. Max(U) \in U
      BY <2>1, <3>2, GreatestIs
    <3> QED BY <2>3, <3>3
  <2>5. Cut(n) = x
    BY <2>4
  <2>6. x + n - x = n
    <3>1. x \in 0 .. n
      BY <2>2
    <3> HIDE DEF x
    <3> QED BY <2>1, <3>1
  <2> QED BY <1>1, <2>1, <2>5, <2>6
<1>5. rows = [n \in 1 .. m |-> page.rows[Start(n) + n - Cut(n)]]
  BY <1>3 DEF Decoded
<1> HIDE DEF Start, Cut
<1>6. rows = [n \in 1 .. m |-> page.rows[n]]
  BY <1>4, <1>5
<1> HIDE DEF rows, m
<1>7. rows \in Seq(Nat) /\ Len(rows) = m /\ \A j \in 1 .. m : rows[j] = page.rows[j]
  BY <1>3, <1>4, <1>6
<1>8. rows \in Seq(Cells)
  BY <1>7, SeqMonotonic DEF Cells
<1> QED BY <1>7, <1>8 DEF rows, m
-----------------------------------------------------------------------------
(* Parquet: a column of a row group.                                        *)

\* The rows of the pages of a column.
PageLens(chunk) == [p \in 1 .. Len(chunk.pages) |-> Len(chunk.pages[p].rows)]

\* The rows of the first p pages of a column.
Before(chunk, p) == Sums(PageLens(chunk))[p]

\* The column's stream is S; R rows of it are asked for and T of them are there.
Serves(chunk, S, R, T) ==
  /\ chunk \in ColumnRecords /\ S \in Seq(Cells)
  /\ R \in Nat /\ T \in Nat /\ T <= R /\ T <= Len(S)
  /\ \A p \in 1 .. Len(chunk.pages) :
       chunk.pages[p].kind = "dictionary" => chunk.pages[p].rows = << >>
  /\ chunk.kind # "null" =>
       /\ T = Lower(R, PageRows(chunk)) /\ Len(S) = PageRows(chunk)
       /\ \A p \in 1 .. Len(chunk.pages) : \A j \in 1 .. Len(chunk.pages[p].rows) :
            S[Before(chunk, p - 1) + j] = chunk.pages[p].rows[j]

\* The states of the decoder of a column.
ColumnStates == [kind : {"value", "dictionary", "null"}, pages : Seq(PageRecords),
                 items : Seq(Seq(Cells)), remaining : Nat, size : Nat]

\* The first p pages are decoded, up to row d.
Decoding(column, chunk, R, T, d) ==
  IF chunk.kind = "null" THEN column.pages = << >> /\ column.remaining = 0 /\ d = T
  ELSE \E p \in 0 .. Len(chunk.pages) :
         /\ column.pages = SubSeq(chunk.pages, p + 1, Len(chunk.pages))
         /\ d = Lower(R, Before(chunk, p)) /\ column.remaining = R - d

\* A column that has given the first a rows of its stream.
ColumnInv(column, chunk, S, R, T, size, a) ==
  /\ column \in ColumnStates /\ column.kind = chunk.kind /\ column.size = size
  /\ \E d \in 0 .. T : Queue(column.items, S, a, d, size) /\ Decoding(column, chunk, R, T, d)

\* The rows of the pages of a column, one page after the other.
LEMMA PagesBefore ==
  ASSUME NEW chunk \in ColumnRecords
  PROVE  /\ Len(chunk.pages) \in Nat
         /\ (\A p \in 1 .. Len(chunk.pages) : chunk.pages[p] \in PageRecords /\ Len(chunk.pages[p].rows) \in Nat)
         /\ Before(chunk, 0) = 0 /\ Before(chunk, Len(chunk.pages)) = PageRows(chunk)
         /\ \A p \in 0 .. Len(chunk.pages) : Before(chunk, p) \in Nat /\ Before(chunk, p) <= PageRows(chunk)
         /\ \A p \in 1 .. Len(chunk.pages) : Before(chunk, p) = Before(chunk, p - 1) + Len(chunk.pages[p].rows)
<1> DEFINE n == Len(chunk.pages)
           V == PageLens(chunk)
<1>1. n \in Nat /\ \A p \in 1 .. n : chunk.pages[p] \in PageRecords
  <2>1. chunk.pages \in Seq(PageRecords)
    BY DEF ColumnRecords
  <2> QED BY <2>1, LenProperties, ElementOfSeq
<1>2. \A p \in 1 .. n : Len(chunk.pages[p].rows) \in Nat
  <2>1. \A p \in 1 .. n : chunk.pages[p].rows \in Seq(Nat)
    BY <1>1 DEF PageRecords
  <2> QED BY <2>1, LenProperties
<1>3. V \in Seq(Nat) /\ Len(V) = n /\ \A p \in 1 .. n : V[p] = Len(chunk.pages[p].rows)
  BY <1>1, <1>2 DEF PageLens
<1>4. Sums(V) \in [0 .. n -> Nat] /\ Sums(V)[0] = 0 /\ \A p \in 1 .. n : Sums(V)[p] = Sums(V)[p - 1] + V[p]
  BY <1>3, SumsAre
<1>5. \A p \in 0 .. n : Sums(V)[p] <= Sums(V)[n]
  <2> TAKE p \in 0 .. n
  <2>1. p \in 0 .. Len(V) /\ n \in p .. Len(V)
    BY <1>1, <1>3
  <2> QED BY <1>3, <2>1, SumsGrow
<1>6. Sums(V)[n] = PageRows(chunk)
  BY <1>3 DEF PageRows, SumAll, PageLens
<1> QED BY <1>1, <1>2, <1>3, <1>4, <1>5, <1>6 DEF Before

\* The item in front of a column has the next n rows, and the column goes on after them.
ColumnHandsOut(column, chunk, S, R, T, size, a, n) ==
  /\ Head(column.items) = SubSeq(S, a + 1, a + n) /\ Len(Head(column.items)) = n
  /\ n \in Nat \ {0} /\ a + n <= T
  /\ ColumnInv([column EXCEPT !.items = Tail(@)], chunk, S, R, T, size, a + n)

\* What a column that has rows left hands out, if it has decoded enough.
LEMMA ColumnGives ==
  ASSUME NEW chunk, NEW S, NEW R, NEW T, Serves(chunk, S, R, T),
         NEW size \in Nat \ {0}, NEW a \in Nat, a < T,
         NEW column, ColumnInv(column, chunk, S, R, T, size, a), column.items # << >>,
         AtHand(column) \/ Full(column) \/ column.pages = << >>
  PROVE  ColumnHandsOut(column, chunk, S, R, T, size, a, Lower(size, T - a))
<1> DEFINE n == Lower(size, T - a)
           rest == [column EXCEPT !.items = Tail(@)]
<1>1. PICK d \in 0 .. T : Queue(column.items, S, a, d, size) /\ Decoding(column, chunk, R, T, d)
  BY DEF ColumnInv
<1>2. /\ S \in Seq(Cells) /\ R \in Nat /\ T \in Nat /\ T <= Len(S) /\ Len(S) \in Nat /\ T <= R
      /\ chunk \in ColumnRecords /\ column \in ColumnStates
      /\ column.kind = chunk.kind /\ column.size = size
  BY LenProperties DEF Serves, ColumnInv
<1>3. d \in Nat /\ d <= T /\ d <= Len(S)
  BY <1>2
<1>4. column.remaining = 0 \/ column.pages = << >> => d = T
  <2>1. CASE chunk.kind = "null"
    BY <1>1, <2>1 DEF Decoding
  <2>2. CASE chunk.kind # "null"
    <3>1. PICK p \in 0 .. Len(chunk.pages) :
            /\ column.pages = SubSeq(chunk.pages, p + 1, Len(chunk.pages))
            /\ d = Lower(R, Before(chunk, p)) /\ column.remaining = R - d
      BY <1>1, <2>2 DEF Decoding
    <3>2. T = Lower(R, PageRows(chunk))
      BY <2>2 DEF Serves
    <3>3. CASE column.remaining = 0
      BY <1>2, <1>3, <3>1, <3>3
    <3>4. CASE column.pages = << >>
      <4>1. Len(chunk.pages) \in Nat /\ chunk.pages \in Seq(PageRecords)
        BY <1>2, PagesBefore DEF ColumnRecords
      <4>2. p = Len(chunk.pages)
        <5> SUFFICES ASSUME p # Len(chunk.pages) PROVE FALSE
          OBVIOUS
        <5>1. /\ p + 1 \in Int /\ Len(chunk.pages) \in Int /\ p + 1 <= Len(chunk.pages)
              /\ Len(chunk.pages) - (p + 1) + 1 > 0
          BY <4>1
        <5>2. \A i \in p + 1 .. Len(chunk.pages) : chunk.pages[i] \in PageRecords
          BY <4>1, ElementOfSeq
        <5>3. Len(column.pages) = Len(chunk.pages) - (p + 1) + 1
          BY <3>1, <5>1, <5>2, SubSeqProperties
        <5>4. Len(column.pages) = 0
          BY <3>4
        <5> QED BY <5>1, <5>3, <5>4
      <4>3. Before(chunk, p) = PageRows(chunk)
        BY <1>2, <4>2, PagesBefore
      <4> QED BY <3>1, <3>2, <4>3
    <3> QED BY <3>3, <3>4
  <2> QED BY <2>1, <2>2
<1>5. Len(column.items) > 1 \/ Len(Head(column.items)) >= size \/ d = T
  BY <1>2, <1>4 DEF AtHand, Full
<1>6. /\ Head(column.items) = SubSeq(S, a + 1, a + n) /\ Len(Head(column.items)) = n
      /\ n \in Nat \ {0} /\ a + n <= d /\ Queue(Tail(column.items), S, a + n, d, size)
  <2>1. HandsOut(column.items, S, a, d, size, Lower(size, T - a))
    BY <1>1, <1>2, <1>3, <1>5, QueueGives
  <2> QED BY <2>1 DEF HandsOut
<1>7. /\ rest.items = Tail(column.items) /\ rest.pages = column.pages /\ rest.kind = column.kind
      /\ rest.remaining = column.remaining /\ rest.size = column.size
  BY <1>2 DEF ColumnStates
<1>8. rest \in ColumnStates
  <2>1. Tail(column.items) \in Seq(Seq(Cells))
    BY <1>6 DEF Queue
  <2> QED BY <1>2, <2>1 DEF ColumnStates
<1> HIDE DEF rest, n
<1>9. ColumnInv(rest, chunk, S, R, T, size, a + n)
  <2>1. Decoding(rest, chunk, R, T, d)
    BY <1>1, <1>7 DEF Decoding
  <2> QED BY <1>2, <1>6, <1>7, <1>8, <2>1 DEF ColumnInv
<1>10. a + n <= T
  BY <1>2, <1>3, <1>6
<1> QED BY <1>6, <1>9, <1>10 DEF rest, n, ColumnHandsOut

\* A column that has rows left has an item at hand or a page to read.
LEMMA ColumnHas ==
  ASSUME NEW chunk, NEW S, NEW R, NEW T, Serves(chunk, S, R, T),
         NEW size \in Nat \ {0}, NEW a \in Nat, a < T,
         NEW column, ColumnInv(column, chunk, S, R, T, size, a)
  PROVE  AtHand(column) \/ WantsPage(column) \/ column.items # << >>
<1> SUFFICES ASSUME ~AtHand(column), ~WantsPage(column), column.items = << >> PROVE FALSE
  OBVIOUS
<1>1. PICK d \in 0 .. T : Queue(column.items, S, a, d, size) /\ Decoding(column, chunk, R, T, d)
  BY DEF ColumnInv
<1>2. d = a /\ T \in Nat /\ R \in Nat /\ T <= R /\ chunk \in ColumnRecords /\ column \in ColumnStates /\ column.kind = chunk.kind
  BY <1>1 DEF Queue, Serves, ColumnInv
<1>3. chunk.kind # "null"
  <2>1. chunk.kind = "null" => d = T
    BY <1>1 DEF Decoding
  <2> QED BY <1>2, <2>1
<1>4. PICK p \in 0 .. Len(chunk.pages) :
        /\ column.pages = SubSeq(chunk.pages, p + 1, Len(chunk.pages))
        /\ d = Lower(R, Before(chunk, p)) /\ column.remaining = R - d
  BY <1>1, <1>3 DEF Decoding
<1>5. column.remaining > 0
  <2>1. R - d > 0
    BY <1>2
  <2> QED BY <1>4, <2>1
<1>6. column.pages = << >>
  BY <1>5 DEF WantsPage
<1>7. p = Len(chunk.pages)
  <2> SUFFICES ASSUME p # Len(chunk.pages) PROVE FALSE
    OBVIOUS
  <2>1. Len(chunk.pages) \in Nat /\ \A i \in 1 .. Len(chunk.pages) : chunk.pages[i] \in PageRecords
    BY <1>2, PagesBefore
  <2>2. /\ p + 1 \in Int /\ Len(chunk.pages) \in Int /\ p + 1 <= Len(chunk.pages)
        /\ Len(chunk.pages) - (p + 1) + 1 > 0 /\ \A i \in p + 1 .. Len(chunk.pages) : i \in 1 .. Len(chunk.pages)
    BY <2>1
  <2>3. Len(column.pages) = Len(chunk.pages) - (p + 1) + 1
    BY <1>4, <2>1, <2>2, SubSeqProperties
  <2>4. Len(column.pages) = 0
    BY <1>6
  <2> QED BY <2>2, <2>3, <2>4
<1>8. d = T
  BY <1>2, <1>3, <1>4, <1>7, PagesBefore DEF Serves
<1> QED BY <1>2, <1>8

\* A page is read: the column has decoded more of its stream, and given no more.
LEMMA ColumnReads ==
  ASSUME NEW chunk, NEW S, NEW R, NEW T, Serves(chunk, S, R, T),
         NEW size \in Nat \ {0}, NEW a \in Nat,
         NEW column, ColumnInv(column, chunk, S, R, T, size, a),
         WantsPage(column), ~Astray(column)
  PROVE  ColumnInv(WithPage(column), chunk, S, R, T, size, a)
<1>1. PICK d \in 0 .. T : Queue(column.items, S, a, d, size) /\ Decoding(column, chunk, R, T, d)
  BY DEF ColumnInv
<1>2. /\ S \in Seq(Cells) /\ R \in Nat /\ T \in Nat /\ T <= R /\ T <= Len(S) /\ Len(S) \in Nat
      /\ chunk \in ColumnRecords /\ column \in ColumnStates
      /\ column.kind = chunk.kind /\ column.size = size
      /\ column.pages \in Seq(PageRecords) /\ column.pages # << >>
  BY LenProperties DEF Serves, ColumnInv, ColumnStates, WantsPage
<1>3. chunk.kind # "null"
  BY <1>1, <1>2 DEF Decoding
<1>4. PICK p \in 0 .. Len(chunk.pages) :
        /\ column.pages = SubSeq(chunk.pages, p + 1, Len(chunk.pages))
        /\ d = Lower(R, Before(chunk, p)) /\ column.remaining = R - d
  BY <1>1, <1>3 DEF Decoding
<1> DEFINE n == Len(chunk.pages)
           page == Head(column.pages)
           rest == [column EXCEPT !.pages = Tail(@)]
<1>5. n \in Nat /\ chunk.pages \in Seq(PageRecords)
  BY <1>2, PagesBefore DEF ColumnRecords
<1>6. p + 1 \in 1 .. n /\ p \in Nat
  <2> SUFFICES ASSUME ~ (p + 1 <= n) PROVE FALSE
    BY <1>5
  <2>1. p + 1 \in Int /\ n \in Int /\ n < p + 1
    BY <1>5
  <2> QED BY <1>2, <1>4, <2>1, SubSeqEmpty
<1>7. page = chunk.pages[p + 1] /\ Tail(column.pages) = SubSeq(chunk.pages, (p + 1) + 1, n)
  <2>1. n \in p + 1 .. n
    BY <1>5, <1>6
  <2> QED BY <1>4, <1>5, <1>6, <2>1, HeadTailOfSubSeq
<1>8. /\ page \in PageRecords /\ Tail(column.pages) \in Seq(PageRecords)
      /\ page.rows \in Seq(Nat) /\ Len(page.rows) \in Nat
  <2>1. page \in PageRecords /\ Tail(column.pages) \in Seq(PageRecords)
    BY <1>2, HeadTailProperties
  <2> QED BY <2>1, LenProperties DEF PageRecords
<1>9. /\ rest \in ColumnStates /\ rest.items = column.items /\ rest.pages = Tail(column.pages)
      /\ rest.kind = column.kind /\ rest.remaining = column.remaining /\ rest.size = size
  BY <1>2, <1>8 DEF ColumnStates
<1> HIDE DEF n, page, rest
<1> DEFINE b == Before(chunk, p)
           l == Len(page.rows)
           total == PageRows(chunk)
<1>10. /\ b \in Nat /\ l \in Nat /\ total \in Nat /\ Before(chunk, p + 1) = b + l /\ b + l <= total
       /\ T = Lower(R, total) /\ Len(S) = total
       /\ \A j \in 1 .. l : S[b + j] = page.rows[j]
  <2>1. (p + 1) - 1 = p /\ p + 1 \in 0 .. n /\ p \in 0 .. n
    BY <1>5, <1>6
  <2>2. /\ Before(chunk, p) \in Nat /\ Before(chunk, p + 1) <= PageRows(chunk)
        /\ Before(chunk, p + 1) = Before(chunk, p) + Len(chunk.pages[p + 1].rows)
        /\ Before(chunk, n) = PageRows(chunk) /\ Before(chunk, n) \in Nat
    <3>1. n \in 0 .. n
      BY <1>5
    <3> QED BY <1>2, <1>6, <2>1, <3>1, PagesBefore DEF n
  <2>3. /\ T = Lower(R, PageRows(chunk)) /\ Len(S) = PageRows(chunk)
        /\ \A j \in 1 .. Len(chunk.pages[p + 1].rows) : S[Before(chunk, (p + 1) - 1) + j] = chunk.pages[p + 1].rows[j]
    BY <1>3, <1>6 DEF Serves, n
  <2> QED BY <1>7, <1>8, <2>1, <2>2, <2>3
<1>11. CASE page.kind = "dictionary"
  <2>1. l = 0
    <3>1. chunk.pages[p + 1].rows = << >>
      BY <1>6, <1>7, <1>11 DEF Serves, n
    <3> QED BY <1>7, <3>1
  <2>2. WithPage(column) = rest
    BY <1>11 DEF WithPage, page, rest
  <2>3. Before(chunk, p + 1) = b
    <3> HIDE DEF b, l
    <3> QED BY <1>10, <2>1
  <2>4. Decoding(rest, chunk, R, T, d)
    <3>1. p + 1 \in 0 .. Len(chunk.pages)
      BY <1>5, <1>6 DEF n
    <3>2. rest.pages = SubSeq(chunk.pages, (p + 1) + 1, Len(chunk.pages))
      BY <1>7, <1>9 DEF n
    <3>3. d = Lower(R, Before(chunk, p + 1)) /\ rest.remaining = R - d
      BY <1>4, <1>9, <2>3 DEF b
    <3> QED BY <1>3, <3>1, <3>2, <3>3 DEF Decoding
  <2> QED BY <1>1, <1>2, <1>9, <2>2, <2>4 DEF ColumnInv
<1>12. CASE page.kind # "dictionary"
  <2> DEFINE rows == Decoded(page, Len(Begun(rest)), rest.size, rest.remaining)
             r == rest.remaining
  <2>1. WithPage(column) = Extended(rest, page)
    BY <1>12 DEF WithPage, page, rest
  <2>2. Begun(rest) = Begun(column) /\ Len(Begun(rest)) \in Nat
    <3>1. Begun(rest) = Begun(column)
      BY <1>9 DEF Begun
    <3>2. Begun(column) \in Seq(Cells)
      <4>1. CASE column.items = << >>
        BY <4>1, EmptySeq DEF Begun
      <4>2. CASE column.items # << >>
        <5>1. column.items \in Seq(Seq(Cells)) /\ Len(column.items) \in Nat /\ Len(column.items) # 0
          BY <1>2, <4>2, EmptySequence DEF ColumnStates
        <5>2. Len(column.items) \in 1 .. Len(column.items)
          BY <5>1
        <5> QED BY <4>2, <5>1, <5>2, ElementOfSeq DEF Begun, Last
      <4> QED BY <4>1, <4>2
    <3> QED BY <3>1, <3>2, LenProperties
  <2>3. r = R - d /\ r \in Nat /\ d \in Nat /\ d <= R
    <3>1. d \in Nat /\ d <= R
      BY <1>2
    <3> QED BY <1>2, <1>4, <1>9, <3>1
  <2>4. \A c \in CutRuns(page, Len(Begun(rest)), size) : ~ (c < r)
    BY <1>2, <1>9, <2>2 DEF Astray, page
  <2>5. rows \in Seq(Cells) /\ Len(rows) = Lower(r, l) /\ \A j \in 1 .. Len(rows) : rows[j] = page.rows[j]
    BY <1>8, <1>9, <2>2, <2>3, <2>4, DecodedIs
  <2> HIDE DEF rows, r, l, b, total
  <2>6. /\ Len(rows) \in Nat /\ Len(rows) <= l /\ d + Len(rows) = Lower(R, b + l)
        /\ d + Len(rows) <= Len(S) /\ d + Len(rows) \in 0 .. T
        /\ (Len(rows) # 0 => d = b)
    <3> DEFINE k == Len(rows)
    <3>1. k = Lower(r, l) /\ d = Lower(R, b)
      BY <1>4, <2>5 DEF b
    <3> HIDE DEF k
    <3>2. /\ k \in Nat /\ k <= l /\ d + k = Lower(R, b + l) /\ (k # 0 => d = b)
      BY <1>2, <1>10, <2>3, <3>1 DEF Lower
    <3>3. d + k \in 0 .. T /\ d + k <= Len(S)
      BY <1>2, <1>10, <2>3, <3>2 DEF Lower
    <3> QED BY <3>2, <3>3 DEF k
  <2>7. ASSUME NEW j \in 1 .. Len(rows) PROVE rows[j] = S[d + j]
    <3>1. d = b /\ j \in 1 .. l
      BY <1>10, <2>6
    <3> QED BY <1>10, <2>5, <3>1
  <2>8. Len(column.items) <= 1
    <3>1. column.items \in Seq(Seq(Cells)) /\ Len(column.items) \in Nat
      BY <1>2, LenProperties DEF ColumnStates
    <3>2. ~ (Len(column.items) > 1)
      BY DEF WantsPage, AtHand
    <3> QED BY <3>1, <3>2
  <2> DEFINE next == Extended(rest, page)
             more == Longer(column.items, rows, size)
             e == d + Len(rows)
  <2>9. Queue(more, S, a, e, size)
    <3>1. d \in Nat
      BY <2>3
    <3> QED BY <1>1, <1>2, <2>5, <2>6, <2>7, <2>8, <3>1, QueueGoesOn
  <2>10. next = [rest EXCEPT !.items = more, !.remaining = @ - Len(rows)]
    BY <1>9 DEF Extended, Longer, Begun, rows
  <2> HIDE DEF more, next
  <2>11. r - Len(rows) \in Nat /\ r - Len(rows) = R - e
    <3>1. Len(rows) <= r
      BY <1>10, <2>3, <2>5 DEF Lower
    <3> DEFINE k == Len(rows)
    <3>2. k \in Nat /\ k <= r
      BY <2>6, <3>1
    <3> HIDE DEF k
    <3>3. r - k \in Nat /\ r - k = R - (d + k)
      BY <1>2, <2>3, <3>2
    <3> QED BY <3>3 DEF k
  <2>12. /\ next.items = more /\ next.remaining = r - Len(rows) /\ next.pages = rest.pages
         /\ next.kind = rest.kind /\ next.size = rest.size /\ next \in ColumnStates
    <3>1. more \in Seq(Seq(Cells))
      BY <2>9 DEF Queue
    <3> HIDE DEF e
    <3> QED BY <1>9, <2>10, <2>11, <3>1 DEF ColumnStates, r
  <2>13. Decoding(next, chunk, R, T, e)
    <3>1. p + 1 \in 0 .. Len(chunk.pages)
      BY <1>5, <1>6 DEF n
    <3>2. next.pages = SubSeq(chunk.pages, (p + 1) + 1, Len(chunk.pages))
      BY <1>7, <1>9, <2>12 DEF n
    <3>3. e = Lower(R, Before(chunk, p + 1)) /\ next.remaining = R - e
      BY <1>10, <2>6, <2>11, <2>12
    <3> HIDE DEF e
    <3> QED BY <1>3, <3>1, <3>2, <3>3 DEF Decoding
  <2>14. e \in 0 .. T
    BY <2>6
  <2> HIDE DEF e
  <2> QED BY <1>2, <1>9, <2>1, <2>9, <2>12, <2>13, <2>14 DEF ColumnInv, next
<1> QED BY <1>11, <1>12

\* A column that is opened has given nothing.
LEMMA ColumnStarts ==
  ASSUME NEW chunk, NEW S, NEW R, NEW T, Serves(chunk, S, R, T), chunk.kind # "null",
         NEW size \in Nat \ {0}
  PROVE  ColumnInv(Column(chunk.kind, chunk.pages, R, size), chunk, S, R, T, size, 0)
<1> DEFINE column == Column(chunk.kind, chunk.pages, R, size)
           n == Len(chunk.pages)
<1>1. chunk \in ColumnRecords /\ R \in Nat /\ T \in Nat /\ n \in Nat /\ chunk.pages \in Seq(PageRecords)
  BY PagesBefore DEF Serves, ColumnRecords
<1>2. /\ column.items = << >> /\ column.pages = chunk.pages /\ column.remaining = R
      /\ column.kind = chunk.kind /\ column.size = size
  BY DEF Column
<1>3. column \in ColumnStates
  <2>1. << >> \in Seq(Seq(Cells))
    BY EmptySeq
  <2> QED BY <1>1, <2>1 DEF Column, ColumnStates, ColumnRecords
<1> HIDE DEF column
<1>4. Queue(column.items, S, 0, 0, size)
  <2>1. 0 <= 0 + 0 * size /\ << >> \in Seq(Seq(Cells)) /\ Len(<< >>) = 0
    BY Multiples, EmptySeq
  <2> QED BY <1>2, <2>1 DEF Queue
<1>5. Decoding(column, chunk, R, T, 0)
  <2>1. 0 \in 0 .. Len(chunk.pages) /\ 0 + 1 = 1
    BY <1>1
  <2>2. column.pages = SubSeq(chunk.pages, 0 + 1, Len(chunk.pages))
    BY <1>1, <1>2, <2>1, SubSeqFull
  <2>3. 0 = Lower(R, Before(chunk, 0)) /\ column.remaining = R - 0
    BY <1>1, <1>2, PagesBefore DEF Lower
  <2> QED BY <2>1, <2>2, <2>3 DEF Decoding
<1>6. 0 \in 0 .. T
  BY <1>1
<1> QED BY <1>2, <1>3, <1>4, <1>5, <1>6 DEF ColumnInv, column

\* So has a null column, which has its arrays at once.
LEMMA NullStarts ==
  ASSUME NEW chunk, NEW S, NEW R, NEW T \in Nat \ {0}, Serves(chunk, S, R, T), chunk.kind = "null",
         T = Lower(R, PageValues(chunk)), S = [r \in 1 .. T |-> Blank], NEW size \in Nat \ {0}
  PROVE  ColumnInv(NullColumn(chunk.pages, R, size), chunk, S, R, T, size, 0)
<1> DEFINE column == NullColumn(chunk.pages, R, size)
           less == Lower(size, T)
           items == Pieces(S, less)
           blank == Column("null", << >>, 0, size)
<1>1. S \in Seq(Cells) /\ Len(S) = T /\ R \in Nat
  BY DEF Serves
<1>2. column = [blank EXCEPT !.items = items]
  <2>1. Lower(R, SumAll([p \in 1 .. Len(chunk.pages) |-> chunk.pages[p].values])) = T
    BY DEF PageValues
  <2> QED BY <2>1 DEF NullColumn
<1>3. less \in Nat \ {0} /\ less <= size /\ less <= T
  BY DEF Lower
<1>4. S = SubSeq(S, 0 + 1, T)
  BY <1>1, SubSeqFull
<1>5. Queue(items, S, 0, T, less)
  <2> HIDE DEF less
  <2>1. Queue(Pieces(SubSeq(S, 0 + 1, T), less), S, 0, T, less)
    BY <1>1, <1>3, PiecesQueue
  <2> QED BY <1>4, <2>1
<1>6. Queue(items, S, 0, T, size)
  <2>1. CASE less = size
    BY <1>5, <2>1
  <2>2. CASE less # size
    <3>1. less = T
      BY <2>2 DEF Lower
    <3> HIDE DEF less, items
    <3>2. /\ items \in Seq(Seq(Cells)) /\ (items = << >> => 0 = T) /\ T <= 0 + Len(items) * T
          /\ \A k \in 1 .. Len(items) :
               0 + (k - 1) * T <= T /\ items[k] = SubSeq(S, 0 + (k - 1) * T + 1, Lower(0 + k * T, T))
      BY <1>5, <3>1 DEF Queue
    <3>3. Len(items) = 1
      <4>1. items # << >> /\ Len(items) \in Nat /\ Len(items) # 0
        BY <3>2, EmptySequence
      <4>2. Len(items) = (T + T - 1) \div T
        <5>1. items = [k \in 1 .. (T + T - 1) \div T |-> SubSeq(S, (k - 1) * T + 1, Lower(k * T, T))]
          BY <1>1, <3>1 DEF Pieces, items, less
        <5>2. (T + T - 1) \div T \in Nat
          BY PieceCount
        <5> QED BY <5>1, <5>2
      <4>3. \A k \in 1 .. Len(items) : (k - 1) * T < T
        BY <4>2, PieceCount
      <4> SUFFICES ASSUME Len(items) # 1 PROVE FALSE
        OBVIOUS
      <4> DEFINE m == Len(items)
      <4>4. PICK k \in 1 .. m : k = 2
        <5>1. m \in Nat /\ m # 0 /\ m # 1
          BY <4>1
        <5> HIDE DEF m
        <5>2. 2 \in 1 .. m
          BY <5>1
        <5> QED BY <5>2
      <4>5. (k - 1) * T < T /\ (k - 1) * T = T
        BY <4>3, <4>4, Multiples
      <4> QED BY <4>5
    <3>4. 1 * size = size /\ 1 * T = T /\ 0 * T = 0 /\ 0 * size = 0
      BY Multiples
    <3>5. T <= 0 + Len(items) * size
      <4>1. T <= size
        BY <1>3, <3>1
      <4> QED BY <3>3, <3>4, <4>1
    <3>6. ASSUME NEW k \in 1 .. Len(items)
          PROVE  0 + (k - 1) * size <= T /\ items[k] = SubSeq(S, 0 + (k - 1) * size + 1, Lower(0 + k * size, T))
      <4>1. k = 1 /\ k - 1 = 0
        BY <3>3
      <4>2. (k - 1) * size = 0 /\ (k - 1) * T = 0 /\ k * T = T /\ k * size = size
        BY <3>4, <4>1
      <4>3. Lower(0 + k * size, T) = T /\ Lower(0 + k * T, T) = T
        BY <1>3, <3>1, <4>2 DEF Lower
      <4>4. items[k] = SubSeq(S, 0 + (k - 1) * T + 1, Lower(0 + k * T, T))
        BY <3>2
      <4> QED BY <4>2, <4>3, <4>4
    <3>7. 0 <= T
      OBVIOUS
    <3>8. \A k \in 1 .. Len(items) :
            0 + (k - 1) * size <= T /\ items[k] = SubSeq(S, 0 + (k - 1) * size + 1, Lower(0 + k * size, T))
      BY <3>6
    <3> QED BY <3>2, <3>5, <3>7, <3>8, Zenon DEF Queue
  <2> QED BY <2>1, <2>2
<1> HIDE DEF items
<1>7. items \in Seq(Seq(Cells))
  BY <1>6 DEF Queue
<1>8. /\ column.items = items /\ column.pages = << >> /\ column.remaining = 0
      /\ column.kind = "null" /\ column.size = size
  BY <1>2 DEF Column
<1>9. column \in ColumnStates
  <2>1. << >> \in Seq(PageRecords)
    BY EmptySeq
  <2>2. column = [kind |-> "null", pages |-> << >>, items |-> items, remaining |-> 0, size |-> size]
    BY <1>2 DEF Column
  <2> HIDE DEF column
  <2> QED BY <1>7, <2>1, <2>2 DEF ColumnStates
<1> HIDE DEF column
<1>10. Decoding(column, chunk, R, T, T)
  BY <1>8 DEF Decoding
<1>11. T \in 0 .. T
  OBVIOUS
<1> QED BY <1>6, <1>8, <1>9, <1>10, <1>11 DEF ColumnInv, column
-----------------------------------------------------------------------------
(* Parquet: the inductive invariant.                                        *)

\* The rows a column gives: T blanks, or what its pages select.
StreamOf(chunk, T) ==
  IF chunk.kind = "null" THEN [r \in 1 .. T |-> Blank]
  ELSE FlattenSeq([p \in 1 .. Len(chunk.pages) |-> chunk.pages[p].rows])

\* Of T rows the first `from` are given; the columns that have been asked have given
\* the next n, which are collected, the others not.
InStep(file, fields, g, size, R, T, from, n, columns, collected) ==
  \A i \in 1 .. Len(fields) :
    LET chunk == file[g].columns[fields[i]]
        S     == StreamOf(chunk, T)
    IN  IF i <= Len(collected)
          THEN /\ collected[i] = SubSeq(S, from + 1, from + n)
               /\ ColumnInv(columns[i], chunk, S, R, T, size, from + n)
          ELSE ColumnInv(columns[i], chunk, S, R, T, size, from)

\* The results a caller gets.
Results == [ok : BOOLEAN, group : Nat, arrays : Seq(Seq(Cells))]

-----------------------------------------------------------------------------
(* Parquet: the columns of a row group when they are opened.                *)

\* The rows a row group has of the first column asked for.
RowsIn(file, fields, g) == PageRows(file[g].columns[fields[1]])

\* A column chunk of a row group that has `total` rows, of which it gives `rows`.
Readable(chunk, rows, total, filtered) ==
  /\ chunk \in ColumnRecords /\ rows \in Nat /\ total \in Nat /\ rows <= total
  /\ \A p \in 1 .. Len(chunk.pages) :
       chunk.pages[p].kind = "dictionary" => chunk.pages[p].rows = << >>
  /\ PageRows(chunk) = rows
  /\ chunk.kind = "null" /\ ~filtered => PageValues(chunk) = rows

\* The columns of a row group of a file have the same rows and can be read.
LEMMA FileIs ==
  ASSUME NEW file \in Files, NEW fields \in Wanted, NEW g \in 1 .. Len(file), fields # << >>
  PROVE  /\ RowsIn(file, fields, g) \in Nat /\ file[g].rows \in Nat
         /\ RowsIn(file, fields, g) <= file[g].rows
         /\ \A i \in 1 .. Len(fields) :
              Readable(file[g].columns[fields[i]], RowsIn(file, fields, g), file[g].rows, Filtered(file[g]))
<1> DEFINE record == file[g]
<1>1. /\ file \in Seq(GroupRecords) /\ Regular(record)
      /\ \A i \in 1 .. Len(fields) : fields[i] \in 1 .. Len(record.columns)
  BY FilesAssumption
<1>2. record \in GroupRecords
  BY <1>1, ElementOfSeq
<1> HIDE DEF record
<1>3. record.rows \in Nat /\ record.columns \in Seq(ColumnRecords)
  BY <1>2 DEF GroupRecords
<1>4. Len(fields) \in Nat /\ 1 \in 1 .. Len(fields)
  <2>1. fields \in Seq(Nat)
    BY ArgumentsAssumption
  <2>2. Len(fields) \in Nat /\ Len(fields) # 0
    BY <2>1, EmptySequence
  <2> QED BY <2>2
<1>5. ASSUME NEW c \in 1 .. Len(record.columns)
      PROVE  Readable(record.columns[c], PageRows(record.columns[1]), record.rows, Filtered(record))
  <2> DEFINE chunk == record.columns[c]
  <2>1. /\ \A p \in 1 .. Len(chunk.pages) :
             chunk.pages[p].kind = "dictionary" => chunk.pages[p].rows = << >>
        /\ PageRows(chunk) = PageRows(record.columns[1]) /\ PageRows(chunk) <= record.rows
        /\ ~Filtered(record) =>
             /\ PageRows(chunk) = record.rows
             /\ chunk.kind = "null" => PageValues(chunk) = record.rows
    BY <1>1 DEF Regular
  <2>2. chunk \in ColumnRecords
    BY <1>3, ElementOfSeq
  <2> HIDE DEF chunk
  <2>3. PageRows(chunk) \in Nat
    <3>1. /\ Before(chunk, Len(chunk.pages)) = PageRows(chunk) /\ Len(chunk.pages) \in Nat
          /\ \A p \in 0 .. Len(chunk.pages) : Before(chunk, p) \in Nat
      BY <2>2, PagesBefore
    <3>2. Len(chunk.pages) \in 0 .. Len(chunk.pages)
      BY <3>1
    <3> QED BY <3>1, <3>2
  <2>4. Readable(chunk, PageRows(record.columns[1]), record.rows, Filtered(record))
    BY <1>3, <2>1, <2>2, <2>3 DEF Readable
  <2> QED BY <2>4 DEF chunk
<1>6. ASSUME NEW i \in 1 .. Len(fields)
      PROVE  Readable(record.columns[fields[i]], PageRows(record.columns[1]), record.rows, Filtered(record))
  BY <1>1, <1>5 DEF record
<1>7. PageRows(record.columns[fields[1]]) = PageRows(record.columns[1])
  BY <1>4, <1>6 DEF Readable
<1>8. RowsIn(file, fields, g) = PageRows(record.columns[1])
  BY <1>7 DEF RowsIn, record
<1>9. PageRows(record.columns[1]) \in Nat /\ PageRows(record.columns[1]) <= record.rows
  BY <1>4, <1>6 DEF Readable
<1> QED BY <1>3, <1>6, <1>8, <1>9 DEF record

\* The stream of a column that can be read serves as many rows as are there.
LEMMA StreamServes ==
  ASSUME NEW chunk, NEW rows, NEW total, NEW filtered, Readable(chunk, rows, total, filtered),
         NEW R \in Nat
  PROVE  Serves(chunk, StreamOf(chunk, Lower(R, rows)), R, Lower(R, rows))
<1> DEFINE T == Lower(R, rows)
           S == StreamOf(chunk, T)
<1>1. chunk \in ColumnRecords /\ rows \in Nat /\ PageRows(chunk) = rows
  BY DEF Readable
<1>2. T \in Nat /\ T <= R /\ T <= rows
  BY <1>1 DEF Lower
<1>3. \A p \in 1 .. Len(chunk.pages) :
        chunk.pages[p].kind = "dictionary" => chunk.pages[p].rows = << >>
  BY DEF Readable
<1>4. CASE chunk.kind = "null"
  <2>1. S = [r \in 1 .. T |-> Blank]
    BY <1>4 DEF StreamOf
  <2> HIDE DEF S, T
  <2>2. S \in Seq(Cells) /\ Len(S) = T
    BY <1>2, <2>1 DEF Cells
  <2>3. Serves(chunk, S, R, T)
    BY <1>1, <1>2, <1>3, <1>4, <2>2 DEF Serves
  <2> QED BY <2>3 DEF S, T
<1>5. CASE chunk.kind # "null"
  <2> DEFINE ss == [p \in 1 .. Len(chunk.pages) |-> chunk.pages[p].rows]
  <2>1. S = FlattenSeq(ss)
    BY <1>5 DEF StreamOf
  <2>2. Len(chunk.pages) \in Nat /\ \A p \in 1 .. Len(chunk.pages) : chunk.pages[p] \in PageRecords
    BY <1>1, PagesBefore
  <2>3. ss \in Seq(Seq(Nat)) /\ Len(ss) = Len(chunk.pages)
    <3>1. \A p \in 1 .. Len(chunk.pages) : chunk.pages[p].rows \in Seq(Nat)
      BY <2>2 DEF PageRecords
    <3> QED BY <2>2, <3>1
  <2>4. \A p \in 1 .. Len(chunk.pages) : ss[p] = chunk.pages[p].rows
    OBVIOUS
  <2> HIDE DEF ss, S, T
  <2>5. Lens(ss) = PageLens(chunk)
    BY <2>3, <2>4 DEF Lens, PageLens
  <2>6. /\ FlattenSeq(ss) \in Seq(Nat) /\ Len(FlattenSeq(ss)) = SumAll(Lens(ss))
        /\ \A p \in 1 .. Len(ss) : \A j \in 1 .. Len(ss[p]) :
             FlattenSeq(ss)[Sums(Lens(ss))[p - 1] + j] = ss[p][j]
    BY <2>3, FlattenIs
  <2>7. SumAll(PageLens(chunk)) = rows
    BY <1>1 DEF PageRows, PageLens
  <2>8. S \in Seq(Cells) /\ Len(S) = rows
    <3>1. S \in Seq(Nat) /\ Nat \subseteq Cells
      BY <2>1, <2>6 DEF Cells
    <3>2. S \in Seq(Cells)
      BY <3>1, SeqMonotonic
    <3> QED BY <3>2, <2>1, <2>5, <2>6, <2>7
  <2>9. ASSUME NEW p \in 1 .. Len(chunk.pages), NEW j \in 1 .. Len(chunk.pages[p].rows)
        PROVE  S[Before(chunk, p - 1) + j] = chunk.pages[p].rows[j]
    <3>1. Before(chunk, p - 1) = Sums(Lens(ss))[p - 1]
      BY <2>5 DEF Before
    <3>2. p \in 1 .. Len(ss) /\ j \in 1 .. Len(ss[p])
      BY <2>3, <2>4
    <3> QED BY <2>1, <2>4, <2>6, <3>1, <3>2
  <2>10. T = Lower(R, PageRows(chunk)) /\ Len(S) = PageRows(chunk) /\ T <= Len(S)
    BY <1>1, <1>2, <2>8 DEF T
  <2>11. \A p \in 1 .. Len(chunk.pages) : \A j \in 1 .. Len(chunk.pages[p].rows) :
           S[Before(chunk, p - 1) + j] = chunk.pages[p].rows[j]
    BY <2>9
  <2>12. Serves(chunk, S, R, T)
    BY <1>1, <1>2, <1>3, <2>8, <2>10, <2>11, Zenon DEF Serves
  <2> QED BY <2>12 DEF S, T
<1> QED BY <1>4, <1>5

\* A column that is opened, as long as it is not a null column under a filter.
LEMMA ColumnOpens ==
  ASSUME NEW chunk, NEW rows, NEW total, NEW filtered, Readable(chunk, rows, total, filtered),
         ~(chunk.kind = "null" /\ filtered), NEW R \in Nat \ {0}, rows # 0,
         NEW size \in Nat \ {0}
  PROVE  ColumnInv(IF chunk.kind = "null" THEN NullColumn(chunk.pages, R, size)
                   ELSE Column(chunk.kind, chunk.pages, R, size),
                   chunk, StreamOf(chunk, Lower(R, rows)), R, Lower(R, rows), size, 0)
<1> DEFINE T == Lower(R, rows)
           S == StreamOf(chunk, T)
<1>1. Serves(chunk, S, R, T)
  BY StreamServes
<1>2. rows \in Nat
  BY DEF Readable
<1>3. T \in Nat \ {0}
  BY <1>2 DEF Lower
<1>4. CASE chunk.kind = "null"
  <2>1. PageValues(chunk) = rows
    BY <1>4 DEF Readable
  <2>2. S = [r \in 1 .. T |-> Blank]
    BY <1>4 DEF StreamOf
  <2>3. T = Lower(R, PageValues(chunk))
    BY <2>1
  <2> HIDE DEF S, T
  <2>4. ColumnInv(NullColumn(chunk.pages, R, size), chunk, S, R, T, size, 0)
    BY <1>1, <1>3, <1>4, <2>2, <2>3, NullStarts
  <2> QED BY <1>4, <2>4 DEF S, T
<1>5. CASE chunk.kind # "null"
  <2> HIDE DEF S, T
  <2>1. ColumnInv(Column(chunk.kind, chunk.pages, R, size), chunk, S, R, T, size, 0)
    BY <1>1, <1>5, ColumnStarts
  <2> QED BY <1>5, <2>1 DEF S, T
<1> QED BY <1>4, <1>5
-----------------------------------------------------------------------------
(* Parquet: the rows given so far.                                          *)

\* The rows of a row group in each of the first n results.
Weights(results, g, n) ==
  [k \in 1 .. n |-> IF results[k].ok /\ results[k].group = g THEN Len(results[k].arrays[1]) ELSE 0]

\* The rows of group g in the first n of some results.
Taken(results, g, n) == SumAll(Weights(results, g, n))

\* Results of which those that are chunks have arrays.
Chunked(results) ==
  results \in Seq(Results) /\ \A k \in 1 .. Len(results) : results[k].ok => results[k].arrays # << >>

\* The rows given of a row group are a number.
LEMMA WeightsAre ==
  ASSUME NEW results, Chunked(results), NEW g, NEW n \in 0 .. Len(results)
  PROVE  /\ Weights(results, g, n) \in Seq(Nat) /\ Len(Weights(results, g, n)) = n
         /\ Taken(results, g, n) \in Nat
<1> DEFINE Ws == Weights(results, g, n)
<1>1. Len(results) \in Nat /\ n \in Nat
  BY LenProperties DEF Chunked
<1>2. ASSUME NEW k \in 1 .. n PROVE Ws[k] \in Nat
  <2>1. k \in 1 .. Len(results)
    BY <1>1
  <2>2. results[k] \in Results /\ (results[k].ok => results[k].arrays # << >>)
    BY <2>1, ElementOfSeq DEF Chunked
  <2>3. results[k].ok => Len(results[k].arrays[1]) \in Nat
    <3> SUFFICES ASSUME results[k].ok PROVE Len(results[k].arrays[1]) \in Nat
      OBVIOUS
    <3>1. results[k].arrays \in Seq(Seq(Cells)) /\ results[k].arrays # << >>
      BY <2>2 DEF Results
    <3>2. Len(results[k].arrays) \in Nat /\ Len(results[k].arrays) # 0
      BY <3>1, EmptySequence
    <3>3. 1 \in 1 .. Len(results[k].arrays)
      BY <3>2
    <3>4. results[k].arrays[1] \in Seq(Cells)
      BY <3>1, <3>3, ElementOfSeq
    <3> QED BY <3>4, LenProperties
  <2> QED BY <2>3 DEF Weights
<1>3. Ws = [k \in 1 .. n |-> Ws[k]]
  BY DEF Weights
<1> HIDE DEF Ws
<1>4. Ws \in Seq(Nat) /\ Len(Ws) = n
  BY <1>1, <1>2, <1>3
<1>5. SumAll(Ws) \in Nat
  <2>1. \A k \in 0 .. Len(Ws) : Sums(Ws)[k] \in Nat
    BY <1>4, SumsAre
  <2> QED BY <1>1, <1>4, <2>1 DEF SumAll
<1> QED BY <1>4, <1>5 DEF Ws, Taken

\* One more result.
LEMMA TakenMore ==
  ASSUME NEW results, Chunked(results), NEW result \in Results, result.ok => result.arrays # << >>
  PROVE  /\ Chunked(Append(results, result)) /\ Len(Append(results, result)) = Len(results) + 1
         /\ (\A k \in 1 .. Len(results) : Append(results, result)[k] = results[k])
         /\ Append(results, result)[Len(results) + 1] = result
         /\ \A g : /\ \A n \in 0 .. Len(results) : Taken(Append(results, result), g, n) = Taken(results, g, n)
                   /\ Taken(Append(results, result), g, Len(results) + 1)
                        = Taken(results, g, Len(results))
                            + (IF result.ok /\ result.group = g THEN Len(result.arrays[1]) ELSE 0)
<1> DEFINE longer == Append(results, result)
           m == Len(results)
<1>1. results \in Seq(Results) /\ m \in Nat
  BY LenProperties DEF Chunked
<1>2. /\ longer \in Seq(Results) /\ Len(longer) = m + 1
      /\ (\A k \in 1 .. m : longer[k] = results[k]) /\ longer[m + 1] = result
  BY <1>1, AppendProperties
<1> HIDE DEF longer
<1>3. Chunked(longer)
  <2>1. \A k \in 1 .. Len(longer) : longer[k].ok => longer[k].arrays # << >>
    <3> TAKE k \in 1 .. Len(longer)
    <3>1. k \in 1 .. m \/ k = m + 1
      BY <1>1, <1>2
    <3> QED BY <1>2, <3>1 DEF Chunked
  <2> QED BY <1>2, <2>1 DEF Chunked
<1>4. ASSUME NEW g, NEW n \in 0 .. m PROVE Taken(longer, g, n) = Taken(results, g, n)
  <2>1. \A k \in 1 .. n : longer[k] = results[k]
    BY <1>1, <1>2
  <2>2. Weights(longer, g, n) = Weights(results, g, n)
    BY <2>1 DEF Weights
  <2> QED BY <2>2 DEF Taken
<1>5. ASSUME NEW g
      PROVE  Taken(longer, g, m + 1) = Taken(results, g, m)
               + (IF result.ok /\ result.group = g THEN Len(result.arrays[1]) ELSE 0)
  <2> DEFINE V == Weights(results, g, m)
             U == Weights(longer, g, m + 1)
  <2>1. m \in 0 .. m /\ m + 1 \in 0 .. Len(longer)
    BY <1>1, <1>2
  <2>2. V \in Seq(Nat) /\ Len(V) = m
    BY <2>1, WeightsAre
  <2>3. U \in Seq(Nat) /\ Len(U) = m + 1
    BY <1>3, <2>1, WeightsAre
  <2>4. \A k \in 1 .. m : V[k] = U[k]
    BY <1>1, <1>2 DEF Weights
  <2>5. U[m + 1] = (IF result.ok /\ result.group = g THEN Len(result.arrays[1]) ELSE 0)
    BY <1>1, <1>2 DEF Weights
  <2> HIDE DEF U, V
  <2>6. SumAll(U) = SumAll(V) + U[m + 1]
    BY <2>2, <2>3, <2>4, SumOneMore
  <2> QED BY <2>5, <2>6 DEF U, V, Taken
<1>6. \A g : /\ \A n \in 0 .. m : Taken(longer, g, n) = Taken(results, g, n)
             /\ Taken(longer, g, m + 1) = Taken(results, g, m)
                  + (IF result.ok /\ result.group = g THEN Len(result.arrays[1]) ELSE 0)
  BY <1>4, <1>5
<1> QED BY <1>2, <1>3, <1>6 DEF longer

\* No rows are given of a group of which no result is.
LEMMA NoneTaken ==
  ASSUME NEW results, Chunked(results), NEW g, NEW n \in 0 .. Len(results),
         \A k \in 1 .. n : results[k].group # g
  PROVE  Taken(results, g, n) = 0
<1> DEFINE Ws == Weights(results, g, n)
           s == Sums(Ws)
           T == {k \in Nat : k <= n => s[k] = 0}
<1>1. n \in Nat /\ Ws \in Seq(Nat) /\ Len(Ws) = n
  <2>1. Len(results) \in Nat
    BY LenProperties DEF Chunked
  <2> QED BY <2>1, WeightsAre
<1>2. \A k \in 1 .. n : Ws[k] = 0
  BY DEF Weights
<1>3. s[0] = 0 /\ \A k \in 1 .. n : s[k] = s[k - 1] + Ws[k]
  BY <1>1, SumsAre
<1> HIDE DEF s, Ws
<1>4. 0 \in T
  BY <1>3
<1>5. ASSUME NEW k \in T PROVE k + 1 \in T
  <2> SUFFICES ASSUME k + 1 <= n PROVE s[k + 1] = 0
    OBVIOUS
  <2>1. k + 1 \in 1 .. n /\ (k + 1) - 1 = k /\ s[k] = 0
    BY <1>1
  <2> QED BY <1>2, <1>3, <2>1
<1>6. n \in T
  <2>1. T \in SUBSET Nat
    OBVIOUS
  <2> HIDE DEF T
  <2> QED BY <1>1, <1>4, <1>5, <2>1, Induction
<1> QED BY <1>1, <1>6 DEF s, Ws, Taken, SumAll
-----------------------------------------------------------------------------
(* Parquet: the columns of a row group in step.                             *)

\* The chunks of the wanted columns serve T of the R rows that are asked for.
AllServe(file, fields, g, R, T) ==
  \A i \in 1 .. Len(fields) :
    Serves(file[g].columns[fields[i]], StreamOf(file[g].columns[fields[i]], T), R, T)

\* The column that is asked next has given nothing of the chunk.
LEMMA AskedInStep ==
  ASSUME NEW file, NEW fields, NEW g, NEW size, NEW R, NEW T, NEW from, NEW n, NEW columns,
         NEW collected \in Seq(Seq(Cells)), Len(collected) < Len(fields), Len(fields) \in Nat,
         InStep(file, fields, g, size, R, T, from, n, columns, collected)
  PROVE  LET m     == Len(collected) + 1
             chunk == file[g].columns[fields[m]]
         IN  m \in 1 .. Len(fields) /\ ColumnInv(columns[m], chunk, StreamOf(chunk, T), R, T, size, from)
<1> DEFINE m == Len(collected) + 1
<1>1. m \in 1 .. Len(fields) /\ ~(m <= Len(collected))
  <2>1. Len(collected) \in Nat
    BY LenProperties
  <2> QED BY <2>1
<1> HIDE DEF m
<1>2. ColumnInv(columns[m], file[g].columns[fields[m]], StreamOf(file[g].columns[fields[m]], T), R, T, size, from)
  BY <1>1, Zenon DEF InStep
<1> QED BY <1>1, <1>2 DEF m

\* It goes on as another column that has given nothing of it.
LEMMA KeptInStep ==
  ASSUME NEW file, NEW fields, NEW g, NEW size, NEW R, NEW T, NEW from, NEW n, NEW columns,
         NEW collected \in Seq(Seq(Cells)), Len(collected) < Len(fields), Len(fields) \in Nat,
         columns = [i \in 1 .. Len(fields) |-> columns[i]],
         InStep(file, fields, g, size, R, T, from, n, columns, collected),
         NEW column, NEW m, m = Len(collected) + 1,
         ColumnInv(column, file[g].columns[fields[m]],
                   StreamOf(file[g].columns[fields[m]], T), R, T, size, from)
  PROVE  InStep(file, fields, g, size, R, T, from, n, [columns EXCEPT ![m] = column], collected)
<1> DEFINE after == [columns EXCEPT ![m] = column]
<1>1. m \in 1 .. Len(fields) /\ ~(m <= Len(collected))
  <2>1. Len(collected) \in Nat
    BY LenProperties
  <2> QED BY <2>1
<1>2. after[m] = column /\ \A i \in 1 .. Len(fields) : i # m => after[i] = columns[i]
  BY <1>1
<1> HIDE DEF after
<1> SUFFICES InStep(file, fields, g, size, R, T, from, n, after, collected)
  BY DEF after
<1>3. ASSUME NEW i \in 1 .. Len(fields)
      PROVE  LET chunk == file[g].columns[fields[i]]
                 S     == StreamOf(chunk, T)
             IN  IF i <= Len(collected)
                   THEN /\ collected[i] = SubSeq(S, from + 1, from + n)
                        /\ ColumnInv(after[i], chunk, S, R, T, size, from + n)
                   ELSE ColumnInv(after[i], chunk, S, R, T, size, from)
  <2>1. CASE i = m
    BY <1>1, <1>2, <2>1, Zenon
  <2>2. CASE i # m
    <3>1. after[i] = columns[i]
      BY <1>2, <2>2
    <3> QED BY <3>1, Zenon DEF InStep
  <2> QED BY <2>1, <2>2
<1> QED BY <1>3, Zenon DEF InStep

\* It hands out its item in front.
LEMMA GivenInStep ==
  ASSUME NEW file, NEW fields, NEW g, NEW size \in Nat \ {0}, NEW R, NEW T, NEW from \in Nat, from < T,
         AllServe(file, fields, g, R, T), NEW columns,
         NEW collected \in Seq(Seq(Cells)), Len(collected) < Len(fields), Len(fields) \in Nat,
         columns = [i \in 1 .. Len(fields) |-> columns[i]],
         InStep(file, fields, g, size, R, T, from, Lower(size, T - from), columns, collected),
         NEW column, NEW m, m = Len(collected) + 1,
         ColumnInv(column, file[g].columns[fields[m]],
                   StreamOf(file[g].columns[fields[m]], T), R, T, size, from),
         column.items # << >>, AtHand(column) \/ Full(column) \/ column.pages = << >>
  PROVE  /\ Append(collected, Head(column.items)) \in Seq(Seq(Cells))
         /\ InStep(file, fields, g, size, R, T, from, Lower(size, T - from),
                   [columns EXCEPT ![m] = [column EXCEPT !.items = Tail(@)]],
                   Append(collected, Head(column.items)))
<1> DEFINE rest == [column EXCEPT !.items = Tail(@)]
           after == [columns EXCEPT ![m] = rest]
           more == Append(collected, Head(column.items))
           n == Lower(size, T - from)
           chunkM == file[g].columns[fields[m]]
           streamM == StreamOf(chunkM, T)
<1>1. Len(collected) \in Nat /\ m \in 1 .. Len(fields) /\ ~(m <= Len(collected))
  <2>1. Len(collected) \in Nat
    BY LenProperties
  <2> QED BY <2>1
<1>2. after[m] = rest /\ \A i \in 1 .. Len(fields) : i # m => after[i] = columns[i]
  BY <1>1
<1>3. Serves(chunkM, streamM, R, T)
  BY <1>1 DEF AllServe
<1>4. ColumnHandsOut(column, chunkM, streamM, R, T, size, from, n)
  <2> HIDE DEF chunkM, streamM
  <2>1. ColumnInv(column, chunkM, streamM, R, T, size, from)
    BY Zenon DEF chunkM, streamM
  <2> QED BY <1>3, <2>1, ColumnGives
<1>5. /\ Head(column.items) = SubSeq(streamM, from + 1, from + n)
      /\ ColumnInv(rest, chunkM, streamM, R, T, size, from + n)
  <2> HIDE DEF chunkM, streamM, n
  <2> QED BY <1>4, Zenon DEF ColumnHandsOut
<1>6. Head(column.items) \in Seq(Cells)
  <2>1. column \in ColumnStates
    BY DEF ColumnInv
  <2>2. column.items \in Seq(Seq(Cells))
    BY <2>1 DEF ColumnStates
  <2> QED BY <2>2, HeadTailProperties
<1>7. /\ more \in Seq(Seq(Cells)) /\ Len(more) = Len(collected) + 1
      /\ (\A i \in 1 .. Len(collected) : more[i] = collected[i]) /\ more[m] = Head(column.items)
  BY <1>6, AppendProperties
<1> HIDE DEF after, more, rest, n
<1>8. ASSUME NEW i \in 1 .. Len(fields)
      PROVE  LET chunk == file[g].columns[fields[i]]
                 S     == StreamOf(chunk, T)
             IN  IF i <= Len(more)
                   THEN /\ more[i] = SubSeq(S, from + 1, from + n)
                        /\ ColumnInv(after[i], chunk, S, R, T, size, from + n)
                   ELSE ColumnInv(after[i], chunk, S, R, T, size, from)
  <2> DEFINE chunk == file[g].columns[fields[i]]
             S     == StreamOf(chunk, T)
  <2>1. IF i <= Len(collected)
          THEN /\ collected[i] = SubSeq(S, from + 1, from + n)
               /\ ColumnInv(columns[i], chunk, S, R, T, size, from + n)
          ELSE ColumnInv(columns[i], chunk, S, R, T, size, from)
    BY Zenon DEF InStep, n
  <2>2. CASE i = m
    <3>1. chunk = chunkM /\ S = streamM
      BY <2>2
    <3>2. i <= Len(more)
      BY <1>1, <1>7, <2>2
    <3>3. more[i] = SubSeq(S, from + 1, from + n)
      BY <1>5, <1>7, <2>2, <3>1
    <3>4. ColumnInv(after[i], chunk, S, R, T, size, from + n)
      BY <1>2, <1>5, <2>2, <3>1, Zenon
    <3> QED BY <3>2, <3>3, <3>4
  <2>3. CASE i < m
    <3>1. i <= Len(collected) /\ i <= Len(more) /\ i \in 1 .. Len(collected) /\ i # m
      BY <1>1, <1>7, <2>3
    <3>2. after[i] = columns[i] /\ more[i] = collected[i]
      BY <1>2, <1>7, <3>1
    <3> HIDE DEF chunk, S
    <3>3. more[i] = SubSeq(S, from + 1, from + n) /\ ColumnInv(after[i], chunk, S, R, T, size, from + n)
      BY <2>1, <3>1, <3>2, Zenon
    <3> QED BY <3>1, <3>3, Zenon DEF chunk, S
  <2>4. CASE i > m
    <3>1. ~(i <= Len(collected)) /\ ~(i <= Len(more)) /\ i # m
      BY <1>1, <1>7, <2>4
    <3>2. after[i] = columns[i]
      BY <1>2, <3>1
    <3> HIDE DEF chunk, S
    <3>3. ColumnInv(after[i], chunk, S, R, T, size, from)
      BY <2>1, <3>1, <3>2, Zenon
    <3> QED BY <3>1, <3>3, Zenon DEF chunk, S
  <2>5. i = m \/ i < m \/ i > m
    BY <1>1
  <2> QED BY <2>2, <2>3, <2>4, <2>5
<1>9. InStep(file, fields, g, size, R, T, from, n, after, more)
  BY <1>8, Zenon DEF InStep
<1> QED BY <1>7, <1>9 DEF after, more, rest, n

\* The size of the items of a group of which R rows are asked for.
SizeFor(size, R) == IF size = Everything THEN Everything ELSE Lower(size, R)

\* A column's items have the chunk size, or all the rows there are.
LEMMA SizeIs ==
  ASSUME NEW size \in ChunkSizes, NEW R \in Nat \ {0}
  PROVE  /\ SizeFor(size, R) \in Nat \ {0} /\ SizeFor(size, R) <= size
         /\ \A rest \in Nat : rest <= R /\ Lower(SizeFor(size, R), rest) < size =>
              Lower(SizeFor(size, R), rest) = rest
BY EverythingAssumption, ArgumentsAssumption DEF SizeFor, Lower

\* The columns of a row group of which the results have some rows and `remaining` are left.
InGroup(file, fields, chunks, g, results, remaining, columns, collected) ==
  /\ g \in 1 .. Len(file) /\ fields # << >>
  /\ columns = [i \in 1 .. Len(fields) |-> columns[i]]
  /\ \E R \in Nat \ {0} :
       LET T    == Lower(R, RowsIn(file, fields, g))
           from == Taken(results, g, Len(results))
           size == SizeFor(chunks, R)
       IN  /\ from + remaining = T
           /\ InStep(file, fields, g, size, R, T, from, Lower(size, remaining), columns, collected)

\* A result that continues its row group after the first `from` rows.
Continues(file, fields, chunks, result, from) ==
  result.ok =>
    /\ Len(result.arrays) = Len(fields)
    /\ Len(result.arrays[1]) \in 1 .. chunks
    /\ \A i \in 1 .. Len(fields) :
         LET chunk == file[result.group].columns[fields[i]]
             array == result.arrays[i]
         IN  /\ Len(array) = Len(result.arrays[1])
             /\ chunk.kind # "null" =>
                  array = SubSeq(FlattenSeq([p \in 1 .. Len(chunk.pages) |-> chunk.pages[p].rows]),
                                 from + 1, from + Len(array))

\* A chunk that is shorter than it could be.
IsShort(result, chunks) == result.ok /\ Len(result.arrays[1]) < chunks

\* Every result continues its row group, of which a short chunk is the last result.
Consecutive(file, fields, chunks, results) ==
  \A k \in 1 .. Len(results) :
    /\ Continues(file, fields, chunks, results[k], Taken(results, results[k].group, k - 1))
    /\ IsShort(results[k], chunks) => \A j \in k + 1 .. Len(results) : results[j].group # results[k].group

\* Chunks that follow each other in the file are what a reader promises.
LEMMA ConsecutiveIs ==
  ASSUME Consecutive(groups, wanted, chunkSize, given)
  PROVE  ChunksAreConsecutive
<1> SUFFICES ASSUME NEW k \in 1 .. Len(given), given[k].ok
             PROVE  LET chunk == given[k].arrays
                        g == given[k].group
                        from == GivenOf(g, k - 1)
                    IN  /\ Len(chunk) = Len(wanted)
                        /\ Len(chunk[1]) \in 1 .. chunkSize
                        /\ \A i \in 1 .. Len(wanted) :
                             /\ Len(chunk[i]) = Len(chunk[1])
                             /\ ~IsBlank(g, wanted[i]) =>
                                  chunk[i] = SubSeq(SelectedRows(g, wanted[i]), from + 1, from + Len(chunk[i]))
                        /\ Len(chunk[1]) < chunkSize =>
                             \A j \in k + 1 .. Len(given) : given[j].group # g
  BY DEF ChunksAreConsecutive
<1> DEFINE g == given[k].group
           from == Taken(given, g, k - 1)
<1>1. from = GivenOf(g, k - 1)
  BY DEF GivenOf, Taken, Weights
<1>2. /\ Continues(groups, wanted, chunkSize, given[k], from)
      /\ IsShort(given[k], chunkSize) => \A j \in k + 1 .. Len(given) : given[j].group # g
  BY DEF Consecutive
<1> HIDE DEF from
<1>3. \A i \in 1 .. Len(wanted) :
        /\ Len(given[k].arrays[i]) = Len(given[k].arrays[1])
        /\ ~IsBlank(g, wanted[i]) =>
             given[k].arrays[i] = SubSeq(SelectedRows(g, wanted[i]), from + 1, from + Len(given[k].arrays[i]))
  BY <1>2, Zenon DEF Continues, IsBlank, SelectedRows
<1>4. Len(given[k].arrays) = Len(wanted) /\ Len(given[k].arrays[1]) \in 1 .. chunkSize
  BY <1>2, Zenon DEF Continues
<1>5. Len(given[k].arrays[1]) < chunkSize => \A j \in k + 1 .. Len(given) : given[j].group # g
  BY <1>2, Zenon DEF IsShort
<1> QED BY <1>1, <1>3, <1>4, <1>5, Zenon

\* One more result.
LEMMA ConsecutiveMore ==
  ASSUME NEW file, NEW fields, NEW chunks, NEW results, Chunked(results),
         Consecutive(file, fields, chunks, results),
         NEW result \in Results, result.ok => result.arrays # << >>,
         \A k \in 1 .. Len(results) : IsShort(results[k], chunks) => results[k].group # result.group,
         Continues(file, fields, chunks, result, Taken(results, result.group, Len(results)))
  PROVE  Consecutive(file, fields, chunks, Append(results, result))
<1> DEFINE longer == Append(results, result)
           m == Len(results)
<1>1. /\ Len(longer) = m + 1 /\ (\A k \in 1 .. m : longer[k] = results[k]) /\ longer[m + 1] = result
      /\ \A g : \A n \in 0 .. m : Taken(longer, g, n) = Taken(results, g, n)
  BY TakenMore
<1>2. m \in Nat
  BY LenProperties DEF Chunked
<1> HIDE DEF longer, m
<1>3. ASSUME NEW k \in 1 .. m
      PROVE  /\ Continues(file, fields, chunks, longer[k], Taken(longer, longer[k].group, k - 1))
             /\ IsShort(longer[k], chunks) => \A j \in k + 1 .. m + 1 : longer[j].group # longer[k].group
  <2>1. longer[k] = results[k] /\ k - 1 \in 0 .. m
    BY <1>1, <1>2
  <2>2. Taken(longer, longer[k].group, k - 1) = Taken(results, results[k].group, k - 1)
    BY <1>1, <2>1
  <2>3. /\ Continues(file, fields, chunks, results[k], Taken(results, results[k].group, k - 1))
        /\ IsShort(results[k], chunks) => \A j \in k + 1 .. m : results[j].group # results[k].group
    BY DEF Consecutive, m
  <2>4. ASSUME IsShort(longer[k], chunks), NEW j \in k + 1 .. m + 1
        PROVE  longer[j].group # longer[k].group
    <3>1. IsShort(results[k], chunks)
      BY <2>1, <2>4
    <3>2. CASE j = m + 1
      BY <1>1, <2>1, <3>1, <3>2 DEF m
    <3>3. CASE j # m + 1
      <4>1. k \in Nat /\ 1 <= k /\ k <= m
        BY <1>2
      <4>2. j \in Nat /\ k + 1 <= j /\ j <= m + 1
        BY <1>2, <4>1
      <4>3. j \in k + 1 .. m /\ j \in 1 .. m
        BY <1>2, <3>3, <4>1, <4>2
      <4> QED BY <1>1, <2>1, <2>3, <3>1, <4>3
    <3> QED BY <3>2, <3>3
  <2> QED BY <2>1, <2>2, <2>3, <2>4
<1>4. Continues(file, fields, chunks, longer[m + 1], Taken(longer, longer[m + 1].group, (m + 1) - 1))
  <2>1. (m + 1) - 1 = m /\ m \in 0 .. m
    BY <1>2
  <2>2. Taken(longer, result.group, m) = Taken(results, result.group, m)
    BY <1>1, <2>1
  <2> QED BY <1>1, <2>1, <2>2 DEF m
<1>5. \A j \in (m + 1) + 1 .. m + 1 : FALSE
  BY <1>2
<1>6. ASSUME NEW k \in 1 .. Len(longer)
      PROVE  /\ Continues(file, fields, chunks, longer[k], Taken(longer, longer[k].group, k - 1))
             /\ IsShort(longer[k], chunks) =>
                  \A j \in k + 1 .. Len(longer) : longer[j].group # longer[k].group
  <2>1. k \in 1 .. m \/ k = m + 1
    BY <1>1, <1>2
  <2>2. CASE k \in 1 .. m
    BY <1>1, <1>3, <2>2
  <2>3. CASE k = m + 1
    <3>1. \A j \in k + 1 .. Len(longer) : FALSE
      BY <1>1, <1>5, <2>3
    <3>2. Continues(file, fields, chunks, longer[k], Taken(longer, longer[k].group, k - 1))
      BY <1>4, <2>3
    <3> QED BY <3>1, <3>2
  <2> QED BY <2>1, <2>2, <2>3
<1> QED BY <1>6, Zenon DEF Consecutive, longer

\* What the columns collected is n rows each, and they are in step after them.
Finished(file, fields, g, size, R, T, from, n, next, columns, collected) ==
  /\ InStep(file, fields, g, size, R, T, from + n, next, columns, << >>)
  /\ \A i \in 1 .. Len(fields) :
       /\ Len(collected[i]) = n
       /\ collected[i] = SubSeq(StreamOf(file[g].columns[fields[i]], T), from + 1, from + n)

\* Columns in step are done with a chunk when they have all given theirs.
LEMMA FinishInStep ==
  ASSUME NEW file, NEW fields, NEW g, NEW size \in Nat \ {0}, NEW R, NEW T, NEW from \in Nat, NEW n \in Nat,
         from + n <= T, AllServe(file, fields, g, R, T), NEW columns,
         NEW collected \in Seq(Seq(Cells)), Len(collected) = Len(fields), NEW next,
         InStep(file, fields, g, size, R, T, from, n, columns, collected)
  PROVE  Finished(file, fields, g, size, R, T, from, n, next, columns, collected)
<1>0. Len(fields) \in Nat /\ Len(<< >>) = 0
  BY LenProperties
<1>1. ASSUME NEW i \in 1 .. Len(fields)
      PROVE  LET S == StreamOf(file[g].columns[fields[i]], T)
             IN  /\ collected[i] = SubSeq(S, from + 1, from + n)
                 /\ ColumnInv(columns[i], file[g].columns[fields[i]], S, R, T, size, from + n)
                 /\ Len(collected[i]) = n
  <2> DEFINE chunk == file[g].columns[fields[i]]
             S == StreamOf(chunk, T)
  <2>1. i <= Len(collected)
    BY <1>0
  <2>2. /\ collected[i] = SubSeq(S, from + 1, from + n)
        /\ ColumnInv(columns[i], chunk, S, R, T, size, from + n)
    BY <2>1, Zenon DEF InStep
  <2>3. S \in Seq(Cells) /\ T \in Nat /\ T <= Len(S)
    <3>1. Serves(chunk, S, R, T)
      BY DEF AllServe
    <3> HIDE DEF S
    <3> QED BY <3>1 DEF Serves
  <2> HIDE DEF S
  <2>4. Len(SubSeq(S, from + 1, from + n)) = (from + n) - from
    <3>1. Len(S) \in Nat
      BY <2>3, LenProperties
    <3>2. from + n \in Nat /\ from <= from + n /\ from + n <= Len(S)
      BY <2>3, <3>1
    <3> QED BY <2>3, <3>2, PartOf
  <2>5. (from + n) - from = n
    OBVIOUS
  <2>6. Len(collected[i]) = n
    BY <2>2, <2>4, <2>5
  <2> QED BY <2>2, <2>6, Zenon DEF S
<1>2. InStep(file, fields, g, size, R, T, from + n, next, columns, << >>)
  <2>1. ASSUME NEW i \in 1 .. Len(fields)
        PROVE  LET chunk == file[g].columns[fields[i]]
                   S     == StreamOf(chunk, T)
               IN  IF i <= Len(<< >>)
                     THEN /\ << >>[i] = SubSeq(S, (from + n) + 1, (from + n) + next)
                          /\ ColumnInv(columns[i], chunk, S, R, T, size, (from + n) + next)
                     ELSE ColumnInv(columns[i], chunk, S, R, T, size, from + n)
    <3>1. ~(i <= Len(<< >>))
      BY <1>0
    <3> QED BY <1>1, <3>1, Zenon
  <2> QED BY <2>1, Zenon DEF InStep
<1> QED BY <1>1, <1>2, Zenon DEF Finished
-----------------------------------------------------------------------------
(* Parquet: the invariant, and the steps that keep it.                      *)

\* What was asked of the reader, and how far it is in the file.
InputsInv ==
  /\ groups \in Files /\ wanted \in Wanted /\ chunkSize \in ChunkSizes
  /\ opened \in 0 .. Len(groups) /\ rowsToOpen \in Nat

\* Nothing is collected between two chunks, and a chunk is begun only if there are rows.
StageInv ==
  /\ group = [rows |-> group.rows, remaining |-> group.remaining, columns |-> group.columns]
  /\ group.remaining \in Nat /\ arrays \in Seq(Seq(Cells))
  /\ stage \in {"idle", "chunk", "ended"}
  /\ stage = "chunk" => group.remaining > 0 /\ Len(arrays) <= Len(wanted)
  /\ stage # "chunk" => arrays = << >>

\* The results are of the row groups opened so far; a chunk that is shorter than it
\* could be is the last of its group.
GivenInv ==
  /\ Chunked(given) /\ Consecutive(groups, wanted, chunkSize, given)
  /\ \A k \in 1 .. Len(given) :
       /\ given[k].group \in 1 .. opened
       /\ IsShort(given[k], chunkSize) /\ given[k].group = opened => group.remaining = 0

\* The columns of the row group that is read are in step.
GroupInv ==
  group.remaining > 0 =>
    InGroup(groups, wanted, chunkSize, opened, given, group.remaining, group.columns, arrays)

\* The inductive invariant; it says nothing once a reader has met what it cannot read.
ReaderInv == InputsInv /\ (Sound => StageInv /\ GivenInv /\ GroupInv)

\* No null column is wanted of a filtered row group among the first n.
NoBlankFiltered(file, fields, n) ==
  \A g \in 1 .. n, i \in 1 .. Len(fields) :
    ~(file[g].columns[fields[i]].kind = "null" /\ Filtered(file[g]))

\* What is sound was sound.
LEMMA SoundBefore ==
  ASSUME InputsInv, ParquetNext, Sound'
  PROVE  /\ Sound /\ inputs' = inputs /\ ~astray'
         /\ NoBlankFiltered(groups, wanted, opened')
<1>1. inputs' = inputs
  BY DEF ParquetNext, OpenGroup, OpenGroupFails, EndFile, StartChunk, TakeItem, ReadPage, PageFails,
         ColumnEnds, FinishChunk
<1>2. groups' = groups /\ wanted' = wanted
  BY <1>1 DEF inputs
<1>3. opened' = opened \/ opened' = opened + 1
  BY DEF ParquetNext, OpenGroup, OpenGroupFails, EndFile, StartChunk, TakeItem, ReadPage, PageFails,
         ColumnEnds, FinishChunk, readers
<1>4. ~astray'
  BY DEF Sound
<1>5. ~astray
  <2>1. CASE OpenGroup
    BY <1>4, <2>1, Zenon DEF OpenGroup
  <2>2. CASE ReadPage
    BY <1>4, <2>2, Zenon DEF ReadPage
  <2>3. CASE OpenGroupFails \/ EndFile \/ StartChunk \/ TakeItem \/ PageFails \/ ColumnEnds \/ FinishChunk
    BY <1>4, <2>3 DEF OpenGroupFails, EndFile, StartChunk, TakeItem, PageFails, ColumnEnds, FinishChunk
  <2> QED BY <2>1, <2>2, <2>3, Zenon DEF ParquetNext
<1>6. \A g \in 1 .. opened', i \in 1 .. Len(wanted) :
        ~(groups[g].columns[wanted[i]].kind = "null" /\ Filtered(groups[g]))
  <2>1. \A g \in 1 .. opened', i \in 1 .. Len(wanted') :
          ~(groups'[g].columns[wanted'[i]].kind = "null" /\ Filtered(groups'[g]))
    BY Zenon DEF Sound, IsBlank, IsFiltered
  <2> QED BY <1>2, <2>1, Zenon
<1>7. opened \in Nat /\ \A g \in 1 .. opened : g \in 1 .. opened'
  <2>1. opened \in Nat
    BY DEF InputsInv
  <2> QED BY <1>3, <2>1
<1>8. Sound
  BY <1>5, <1>6, <1>7, Zenon DEF Sound, IsBlank, IsFiltered
<1> QED BY <1>1, <1>4, <1>6, <1>8, Zenon DEF NoBlankFiltered

\* The numbers of a reader.
LEMMA FilesAre ==
  ASSUME InputsInv
  PROVE  /\ Len(groups) \in Nat /\ opened \in Nat /\ Len(wanted) \in Nat
         /\ (wanted = << >> <=> Len(wanted) = 0) /\ chunkSize \in Nat \ {0}
<1>1. groups \in Seq(GroupRecords) /\ wanted \in Seq(Nat)
  BY FilesAssumption, ArgumentsAssumption DEF InputsInv
<1>2. Len(groups) \in Nat /\ Len(wanted) \in Nat /\ (wanted = << >> <=> Len(wanted) = 0)
  BY <1>1, EmptySequence
<1> QED BY <1>2, ArgumentsAssumption DEF InputsInv

\* The row group that is opened next is one.
LEMMA NextGroupIs ==
  ASSUME InputsInv, ~Over
  PROVE  /\ opened + 1 \in 1 .. Len(groups) /\ wanted # << >> /\ rowsToOpen \in Nat \ {0}
         /\ RowsOf(opened + 1) = RowsIn(groups, wanted, opened + 1)
         /\ RowsOf(opened + 1) \in Nat /\ groups[opened + 1].rows \in Nat
         /\ RowsOf(opened + 1) <= groups[opened + 1].rows
         /\ \A i \in 1 .. Len(wanted) :
              Readable(groups[opened + 1].columns[wanted[i]], RowsOf(opened + 1),
                       groups[opened + 1].rows, Filtered(groups[opened + 1]))
<1>1. opened + 1 \in 1 .. Len(groups) /\ wanted # << >> /\ rowsToOpen \in Nat \ {0}
  BY FilesAre DEF Over, InputsInv
<1>2. RowsOf(opened + 1) = RowsIn(groups, wanted, opened + 1)
  BY DEF RowsOf, RowsIn
<1>3. groups \in Files /\ wanted \in Wanted
  BY DEF InputsInv
<1> QED BY <1>1, <1>2, <1>3, FileIs

\* No step changes what was asked of the reader.
LEMMA InputsKept ==
  ASSUME InputsInv, ParquetNext
  PROVE  InputsInv'
<1>1. inputs' = inputs
  BY DEF ParquetNext, OpenGroup, OpenGroupFails, EndFile, StartChunk, TakeItem, ReadPage, PageFails,
         ColumnEnds, FinishChunk
<1>2. groups' = groups /\ wanted' = wanted /\ chunkSize' = chunkSize
  BY <1>1 DEF inputs
<1>3. CASE OpenGroup
  <2>1. opened' = opened + 1 /\ rowsToOpen' = Saturating(rowsToOpen, RowsOf(opened')) /\ ~Over
    <3>1. opened' = opened + 1 /\ rowsToOpen' = Saturating(rowsToOpen, RowsOf(opened')) /\ ~Over
      BY <1>3, Zenon DEF OpenGroup
    <3> QED BY <3>1
  <2>2. rowsToOpen' = Saturating(rowsToOpen, RowsOf(opened + 1))
    BY <2>1
  <2>3. rowsToOpen' \in Nat /\ opened' \in 0 .. Len(groups)
    BY <2>1, <2>2, NextGroupIs, FilesAre DEF Saturating
  <2> QED BY <1>2, <2>3 DEF InputsInv
<1>4. CASE OpenGroupFails
  <2>1. opened' = opened + 1 /\ rowsToOpen' = rowsToOpen /\ ~Over
    BY <1>4 DEF OpenGroupFails
  <2>2. opened' \in 0 .. Len(groups)
    BY <2>1, NextGroupIs, FilesAre
  <2> QED BY <1>2, <2>1, <2>2 DEF InputsInv
<1>5. CASE EndFile \/ StartChunk \/ TakeItem \/ ReadPage \/ PageFails \/ ColumnEnds \/ FinishChunk
  <2>1. opened' = opened /\ rowsToOpen' = rowsToOpen
    BY <1>5 DEF EndFile, StartChunk, TakeItem, ReadPage, PageFails, ColumnEnds, FinishChunk, readers
  <2> QED BY <1>2, <2>1 DEF InputsInv
<1> QED BY <1>3, <1>4, <1>5, Zenon DEF ParquetNext

\* The row group after one of its columns, or what remains of it, has changed.
LEMMA RecordIs ==
  ASSUME NEW r, r = [rows |-> r.rows, remaining |-> r.remaining, columns |-> r.columns],
         NEW s, NEW m, NEW c
  PROVE  /\ s = [r EXCEPT !.columns[m] = c] =>
              /\ s.remaining = r.remaining /\ s.columns = [r.columns EXCEPT ![m] = c]
              /\ s = [rows |-> s.rows, remaining |-> s.remaining, columns |-> s.columns]
         /\ s = [r EXCEPT !.remaining = m] =>
              /\ s.remaining = m /\ s.columns = r.columns
              /\ s = [rows |-> s.rows, remaining |-> s.remaining, columns |-> s.columns]
<1>1. ASSUME s = [r EXCEPT !.columns[m] = c]
      PROVE  /\ s.remaining = r.remaining /\ s.columns = [r.columns EXCEPT ![m] = c]
             /\ s = [rows |-> s.rows, remaining |-> s.remaining, columns |-> s.columns]
  <2>1. s = [rows |-> r.rows, remaining |-> r.remaining, columns |-> [r.columns EXCEPT ![m] = c]]
    BY <1>1
  <2> QED BY <2>1
<1>2. ASSUME s = [r EXCEPT !.remaining = m]
      PROVE  /\ s.remaining = m /\ s.columns = r.columns
             /\ s = [rows |-> s.rows, remaining |-> s.remaining, columns |-> s.columns]
  <2>1. s = [rows |-> r.rows, remaining |-> m, columns |-> r.columns]
    BY <1>2
  <2> QED BY <2>1
<1> QED BY <1>1, <1>2

\* What is known of a row group that has rows left.
Reads(R, T, from, size) ==
  /\ R \in Nat \ {0} /\ T \in Nat /\ from \in Nat /\ size \in Nat \ {0}
  /\ T = Lower(R, RowsIn(groups, wanted, opened)) /\ size = SizeFor(chunkSize, R)
  /\ from = Taken(given, opened, Len(given)) /\ from < T /\ T <= R /\ T - from = group.remaining
  /\ AllServe(groups, wanted, opened, R, T)
  /\ opened \in 1 .. Len(groups) /\ wanted # << >>
  /\ group.columns = [i \in 1 .. Len(wanted) |-> group.columns[i]]
  /\ InStep(groups, wanted, opened, size, R, T, from, Lower(size, T - from), group.columns, arrays)

\* A row group with rows left is one whose columns are read in step.
LEMMA GroupReads ==
  ASSUME InputsInv, StageInv, GivenInv, GroupInv, group.remaining > 0
  PROVE  \E R, T, from, size : Reads(R, T, from, size)
<1>1. InGroup(groups, wanted, chunkSize, opened, given, group.remaining, group.columns, arrays)
  BY DEF GroupInv
<1>2. /\ opened \in 1 .. Len(groups) /\ wanted # << >>
      /\ group.columns = [i \in 1 .. Len(wanted) |-> group.columns[i]]
  BY <1>1, Zenon DEF InGroup
<1>3. PICK R \in Nat \ {0} :
        /\ Taken(given, opened, Len(given)) + group.remaining = Lower(R, RowsIn(groups, wanted, opened))
        /\ InStep(groups, wanted, opened, SizeFor(chunkSize, R), R, Lower(R, RowsIn(groups, wanted, opened)),
                  Taken(given, opened, Len(given)), Lower(SizeFor(chunkSize, R), group.remaining),
                  group.columns, arrays)
  BY <1>1, Zenon DEF InGroup
<1> DEFINE rows == RowsIn(groups, wanted, opened)
           T == Lower(R, rows)
           from == Taken(given, opened, Len(given))
           size == SizeFor(chunkSize, R)
<1>4. from \in Nat /\ group.remaining \in Nat
  <2>1. Len(given) \in 0 .. Len(given)
    BY LenProperties DEF GivenInv, Chunked
  <2> QED BY <2>1, WeightsAre DEF GivenInv, StageInv
<1>5. size \in Nat \ {0}
  BY SizeIs DEF InputsInv
<1>6. /\ rows \in Nat
      /\ \A i \in 1 .. Len(wanted) :
           Readable(groups[opened].columns[wanted[i]], rows, groups[opened].rows, Filtered(groups[opened]))
  BY <1>2, FileIs DEF InputsInv
<1> HIDE DEF rows, from, size
<1>7. T \in Nat /\ T <= R
  BY <1>6 DEF Lower
<1>8. AllServe(groups, wanted, opened, R, T)
  BY <1>6, StreamServes DEF AllServe
<1>9. from + group.remaining = T
  BY <1>3 DEF rows, from
<1> HIDE DEF T
<1>10. T - from = group.remaining /\ from < T
  BY <1>4, <1>7, <1>9
<1>11. InStep(groups, wanted, opened, size, R, T, from, Lower(size, T - from), group.columns, arrays)
  BY <1>3, <1>10 DEF rows, from, size, T
<1>12. Reads(R, T, from, size)
  BY <1>2, <1>4, <1>5, <1>7, <1>8, <1>10, <1>11 DEF Reads, T, rows, from, size
<1> QED BY <1>12

\* The column that is asked goes on as `column`, or hands out its item in front.
LEMMA ColumnSteps ==
  ASSUME InputsInv, StageInv, GivenInv, Asking, NEW R, NEW T, NEW from, NEW size, Reads(R, T, from, size),
         NEW m, m = Len(arrays) + 1, NEW column,
         ColumnInv(column, groups[opened].columns[wanted[m]],
                   StreamOf(groups[opened].columns[wanted[m]], T), R, T, size, from),
         \/ KeepItem(column)
         \/ /\ HandOut(column) /\ column.items # << >>
            /\ AtHand(column) \/ Full(column) \/ column.pages = << >>,
         inputs' = inputs, UNCHANGED << readers, stage, given >>
  PROVE  StageInv' /\ GivenInv' /\ GroupInv'
<1>1. /\ groups' = groups /\ wanted' = wanted /\ chunkSize' = chunkSize /\ opened' = opened
      /\ given' = given /\ stage' = stage
  BY DEF inputs, readers
<1>2. Len(wanted) \in Nat /\ Len(arrays) < Len(wanted) /\ stage = "chunk" /\ arrays \in Seq(Seq(Cells))
      /\ Len(arrays) \in Nat
  BY FilesAre, LenProperties DEF Asking, StageInv
<1> DEFINE c == group'.columns[m]
           n == Lower(size, T - from)
<1>3. ASSUME NEW next, group' = [group EXCEPT !.columns[m] = next]
      PROVE  /\ group'.remaining = group.remaining /\ group'.columns = [group.columns EXCEPT ![m] = next]
             /\ group' = [rows |-> group'.rows, remaining |-> group'.remaining, columns |-> group'.columns]
  <2>1. group = [rows |-> group.rows, remaining |-> group.remaining, columns |-> group.columns]
    BY DEF StageInv
  <2> QED BY <1>3, <2>1, RecordIs
<1>4. /\ R \in Nat \ {0} /\ size \in Nat \ {0} /\ from \in Nat /\ from < T
      /\ AllServe(groups, wanted, opened, R, T)
      /\ group.columns = [i \in 1 .. Len(wanted) |-> group.columns[i]]
      /\ InStep(groups, wanted, opened, size, R, T, from, n, group.columns, arrays)
  BY Zenon DEF Reads
<1>5. /\ group'.remaining = group.remaining
      /\ group' = [rows |-> group'.rows, remaining |-> group'.remaining, columns |-> group'.columns]
      /\ arrays' \in Seq(Seq(Cells)) /\ Len(arrays') <= Len(wanted)
      /\ group'.columns = [i \in 1 .. Len(wanted) |-> group'.columns[i]]
      /\ InStep(groups, wanted, opened, size, R, T, from, n, group'.columns, arrays')
  <2>1. CASE KeepItem(column)
    <3>1. group' = [group EXCEPT !.columns[m] = column] /\ arrays' = arrays
      BY <2>1 DEF KeepItem
    <3>2. /\ group'.remaining = group.remaining /\ group'.columns = [group.columns EXCEPT ![m] = column]
          /\ group' = [rows |-> group'.rows, remaining |-> group'.remaining, columns |-> group'.columns]
      BY <1>3, <3>1
    <3> HIDE DEF n
    <3>3. InStep(groups, wanted, opened, size, R, T, from, n, [group.columns EXCEPT ![m] = column], arrays)
      BY <1>2, <1>4, KeptInStep
    <3>4. group'.columns = [i \in 1 .. Len(wanted) |-> group'.columns[i]]
      BY <1>4, <3>2
    <3> QED BY <1>2, <3>1, <3>2, <3>3, <3>4
  <2>2. CASE HandOut(column) /\ column.items # << >> /\ (AtHand(column) \/ Full(column) \/ column.pages = << >>)
    <3> DEFINE rest == [column EXCEPT !.items = Tail(@)]
               more == Append(arrays, Head(column.items))
    <3>1. group' = [group EXCEPT !.columns[m] = rest] /\ arrays' = more
      BY <2>2 DEF HandOut
    <3>2. more \in Seq(Seq(Cells)) /\ InStep(groups, wanted, opened, size, R, T, from, n,
                                              [group.columns EXCEPT ![m] = rest], more)
      BY <1>2, <1>4, <2>2, GivenInStep
    <3>3. Len(more) = Len(arrays) + 1
      <4>1. column.items \in Seq(Seq(Cells))
        BY DEF ColumnInv, ColumnStates
      <4>2. Head(column.items) \in Seq(Cells)
        BY <2>2, <4>1, HeadTailProperties
      <4> QED BY <1>2, <4>2, AppendProperties
    <3> HIDE DEF rest, n, more
    <3>4. /\ group'.remaining = group.remaining /\ group'.columns = [group.columns EXCEPT ![m] = rest]
          /\ group' = [rows |-> group'.rows, remaining |-> group'.remaining, columns |-> group'.columns]
      BY <1>3, <3>1
    <3>5. group'.columns = [i \in 1 .. Len(wanted) |-> group'.columns[i]]
      BY <1>4, <3>4
    <3>6. Len(more) <= Len(wanted)
      BY <1>2, <3>3
    <3> QED BY <3>1, <3>2, <3>4, <3>5, <3>6
  <2> QED BY <2>1, <2>2
<1>6. StageInv'
  <2>1. group'.remaining \in Nat /\ group'.remaining > 0
    BY <1>2, <1>5 DEF StageInv
  <2> QED BY <1>1, <1>2, <1>5, <2>1 DEF StageInv
<1>7. GivenInv'
  BY <1>1, <1>5 DEF GivenInv
<1>8. GroupInv'
  <2>1. /\ T = Lower(R, RowsIn(groups, wanted, opened)) /\ size = SizeFor(chunkSize, R)
        /\ from = Taken(given, opened, Len(given)) /\ T - from = group.remaining /\ T \in Nat
        /\ opened \in 1 .. Len(groups) /\ wanted # << >>
    BY Zenon DEF Reads
  <2>2. from + group.remaining = T
    <3>1. from \in Nat /\ T \in Nat
      BY <1>4, <2>1
    <3>2. from + (T - from) = T
      BY <3>1
    <3> QED BY <2>1, <3>2
  <2>3. InGroup(groups, wanted, chunkSize, opened, given, group.remaining, group'.columns, arrays')
    BY <1>4, <1>5, <2>1, <2>2, Zenon DEF InGroup, n
  <2> QED BY <1>1, <1>5, <2>3 DEF GroupInv
<1> QED BY <1>6, <1>7, <1>8

\* The column that is asked, and its invariant.
LEMMA AskedIs ==
  ASSUME InputsInv, StageInv, GivenInv, GroupInv, Asking
  PROVE  \E R, T, from, size : \E m :
           /\ Reads(R, T, from, size) /\ m = Len(arrays) + 1 /\ Asked = group.columns[m]
           /\ from \in Nat /\ from < T /\ size \in Nat \ {0}
           /\ Serves(groups[opened].columns[wanted[m]], StreamOf(groups[opened].columns[wanted[m]], T), R, T)
           /\ ColumnInv(Asked, groups[opened].columns[wanted[m]],
                        StreamOf(groups[opened].columns[wanted[m]], T), R, T, size, from)
<1>1. group.remaining > 0 /\ arrays \in Seq(Seq(Cells)) /\ Len(arrays) < Len(wanted) /\ Len(wanted) \in Nat
  BY FilesAre DEF StageInv, Asking
<1>2. PICK R, T, from, size : Reads(R, T, from, size)
  BY <1>1, GroupReads
<1> DEFINE m == Len(arrays) + 1
           n == Lower(size, T - from)
<1>3. /\ from \in Nat /\ from < T /\ size \in Nat \ {0} /\ AllServe(groups, wanted, opened, R, T)
      /\ InStep(groups, wanted, opened, size, R, T, from, n, group.columns, arrays)
  BY <1>2, Zenon DEF Reads
<1>4. Asked = group.columns[m]
  BY DEF Asked
<1> HIDE DEF n
<1>5. m \in 1 .. Len(wanted)
      /\ ColumnInv(group.columns[m], groups[opened].columns[wanted[m]],
                   StreamOf(groups[opened].columns[wanted[m]], T), R, T, size, from)
  BY <1>1, <1>3, AskedInStep
<1>6. Serves(groups[opened].columns[wanted[m]], StreamOf(groups[opened].columns[wanted[m]], T), R, T)
  BY <1>3, <1>5, Zenon DEF AllServe
<1> QED BY <1>2, <1>3, <1>4, <1>5, <1>6, Zenon

\* An array is taken from the queue of a column.
LEMMA TakeItemKeeps ==
  ASSUME InputsInv, StageInv, GivenInv, GroupInv, TakeItem
  PROVE  StageInv' /\ GivenInv' /\ GroupInv'
<1>2. HandOut(Asked) /\ Asking
  BY DEF TakeItem
<1>3. PICK R, T, from, size : \E m :
           /\ Reads(R, T, from, size) /\ m = Len(arrays) + 1 /\ Asked = group.columns[m]
           /\ from \in Nat /\ from < T /\ size \in Nat \ {0}
           /\ Serves(groups[opened].columns[wanted[m]], StreamOf(groups[opened].columns[wanted[m]], T), R, T)
           /\ ColumnInv(Asked, groups[opened].columns[wanted[m]],
                        StreamOf(groups[opened].columns[wanted[m]], T), R, T, size, from)
  BY <1>2, AskedIs
<1>4. Asked.items # << >> /\ (AtHand(Asked) \/ Asked.pages = << >>)
  <2>1. AtHand(Asked) \/ (Asked.pages = << >> /\ Asked.items # << >>)
    BY DEF TakeItem
  <2>2. AtHand(Asked) => Asked.items # << >>
    <3>1. Len(<< >>) = 0
      OBVIOUS
    <3> QED BY <3>1 DEF AtHand, Full
  <2> QED BY <2>1, <2>2
<1>5. inputs' = inputs /\ UNCHANGED << readers, stage, given >>
  BY DEF TakeItem
<1>6. PICK m : m = Len(arrays) + 1 /\ ColumnInv(Asked, groups[opened].columns[wanted[m]],
                        StreamOf(groups[opened].columns[wanted[m]], T), R, T, size, from)
  BY <1>3
<1>7. Reads(R, T, from, size)
  BY <1>3
<1> QED BY <1>2, <1>4, <1>5, <1>6, <1>7, ColumnSteps

\* A page of a column is decoded.
LEMMA ReadPageKeeps ==
  ASSUME InputsInv, StageInv, GivenInv, GroupInv, ReadPage, ~astray'
  PROVE  StageInv' /\ GivenInv' /\ GroupInv'
<1>1. Asking /\ WantsPage(Asked)
  BY DEF ReadPage
<1>2. ~Astray(Asked)
  BY Zenon DEF ReadPage
<1>3. PICK R, T, from, size : \E m :
           /\ Reads(R, T, from, size) /\ m = Len(arrays) + 1 /\ Asked = group.columns[m]
           /\ from \in Nat /\ from < T /\ size \in Nat \ {0}
           /\ Serves(groups[opened].columns[wanted[m]], StreamOf(groups[opened].columns[wanted[m]], T), R, T)
           /\ ColumnInv(Asked, groups[opened].columns[wanted[m]],
                        StreamOf(groups[opened].columns[wanted[m]], T), R, T, size, from)
  BY <1>1, AskedIs
<1>4. PICK m :
           /\ m = Len(arrays) + 1
           /\ Serves(groups[opened].columns[wanted[m]], StreamOf(groups[opened].columns[wanted[m]], T), R, T)
           /\ ColumnInv(Asked, groups[opened].columns[wanted[m]],
                        StreamOf(groups[opened].columns[wanted[m]], T), R, T, size, from)
  BY <1>3
<1> DEFINE column == WithPage(Asked)
           chunk == groups[opened].columns[wanted[m]]
           S == StreamOf(chunk, T)
<1>5. from \in Nat /\ size \in Nat \ {0} /\ Reads(R, T, from, size)
  BY <1>3
<1>6. ColumnInv(column, chunk, S, R, T, size, from)
  <2> DEFINE asked == Asked
  <2>1. WantsPage(asked) /\ ~Astray(asked) /\ Serves(chunk, S, R, T) /\ ColumnInv(asked, chunk, S, R, T, size, from)
    BY <1>1, <1>2, <1>4
  <2> HIDE DEF asked, chunk, S
  <2>2. ColumnInv(WithPage(asked), chunk, S, R, T, size, from)
    BY <1>5, <2>1, ColumnReads
  <2> QED BY <2>2 DEF asked
<1>7. IF Full(column) \/ Len(column.items) > 1 THEN HandOut(column) ELSE KeepItem(column)
  BY Zenon DEF ReadPage
<1>8. inputs' = inputs /\ UNCHANGED << readers, stage, given >>
  BY DEF ReadPage
<1> HIDE DEF column
<1>9. Full(column) \/ Len(column.items) > 1 =>
        column.items # << >> /\ (AtHand(column) \/ Full(column))
  <2>1. Len(<< >>) = 0
    OBVIOUS
  <2> QED BY <2>1 DEF AtHand, Full
<1>10. \/ KeepItem(column)
       \/ /\ HandOut(column) /\ column.items # << >>
          /\ AtHand(column) \/ Full(column) \/ column.pages = << >>
  BY <1>7, <1>9, Zenon
<1>11. m = Len(arrays) + 1 /\ Asking
  BY <1>1, <1>4
<1> QED BY <1>5, <1>6, <1>8, <1>10, <1>11, ColumnSteps

\* A column that has rows left does not end: what would panic does not happen.
LEMMA ColumnsDoNotEnd ==
  ASSUME InputsInv, StageInv, GivenInv, GroupInv
  PROVE  ~ColumnEnds
<1> SUFFICES ASSUME ColumnEnds PROVE FALSE
  OBVIOUS
<1>1. Asking /\ ~AtHand(Asked) /\ ~WantsPage(Asked) /\ Asked.items = << >>
  BY DEF ColumnEnds
<1>2. PICK R, T, from, size : \E m :
           /\ Reads(R, T, from, size) /\ m = Len(arrays) + 1 /\ Asked = group.columns[m]
           /\ from \in Nat /\ from < T /\ size \in Nat \ {0}
           /\ Serves(groups[opened].columns[wanted[m]], StreamOf(groups[opened].columns[wanted[m]], T), R, T)
           /\ ColumnInv(Asked, groups[opened].columns[wanted[m]],
                        StreamOf(groups[opened].columns[wanted[m]], T), R, T, size, from)
  BY <1>1, AskedIs
<1> DEFINE asked == Asked
<1>3. PICK m :
           /\ Serves(groups[opened].columns[wanted[m]], StreamOf(groups[opened].columns[wanted[m]], T), R, T)
           /\ ColumnInv(asked, groups[opened].columns[wanted[m]],
                        StreamOf(groups[opened].columns[wanted[m]], T), R, T, size, from)
  BY <1>2
<1>4. from \in Nat /\ from < T /\ size \in Nat \ {0}
  BY <1>2
<1>5. ~AtHand(asked) /\ ~WantsPage(asked) /\ asked.items = << >>
  BY <1>1
<1> HIDE DEF asked
<1> QED BY <1>3, <1>4, <1>5, ColumnHas

\* The reader ends.
LEMMA EndFileKeeps ==
  ASSUME InputsInv, StageInv, GivenInv, GroupInv, EndFile
  PROVE  StageInv' /\ GivenInv' /\ GroupInv'
<1>1. /\ stage = "idle" /\ group' = NoGroup /\ stage' = "ended"
      /\ inputs' = inputs /\ opened' = opened /\ arrays' = arrays /\ given' = given
  BY DEF EndFile, Advancing, Idle
<1>2. groups' = groups /\ wanted' = wanted /\ chunkSize' = chunkSize
  BY <1>1 DEF inputs
<1>3. group'.remaining = 0 /\ group' = [rows |-> group'.rows, remaining |-> group'.remaining, columns |-> group'.columns]
  BY <1>1 DEF NoGroup
<1>4. StageInv'
  BY <1>1, <1>3 DEF StageInv
<1>5. GivenInv'
  BY <1>1, <1>2, <1>3 DEF GivenInv
<1>6. GroupInv'
  BY <1>3 DEF GroupInv
<1> QED BY <1>4, <1>5, <1>6

\* A chunk is begun.
LEMMA StartChunkKeeps ==
  ASSUME InputsInv, StageInv, GivenInv, GroupInv, StartChunk
  PROVE  StageInv' /\ GivenInv' /\ GroupInv'
<1>1. /\ stage = "idle" /\ stage' = "chunk" /\ arrays' = << >> /\ group.remaining > 0
      /\ inputs' = inputs /\ opened' = opened /\ group' = group /\ given' = given
  BY DEF StartChunk, Idle, readers
<1>2. groups' = groups /\ wanted' = wanted /\ chunkSize' = chunkSize
  BY <1>1 DEF inputs
<1>3. arrays' = arrays /\ Len(arrays') = 0
  BY <1>1 DEF StageInv
<1>4. StageInv'
  <2>1. Len(wanted) \in Nat
    BY FilesAre
  <2> QED BY <1>1, <1>2, <1>3, <2>1 DEF StageInv
<1>5. GivenInv'
  BY <1>1, <1>2 DEF GivenInv
<1>6. GroupInv'
  BY <1>1, <1>2, <1>3 DEF GroupInv
<1> QED BY <1>4, <1>5, <1>6

\* A result is given of a row group, after which nothing is collected.
LEMMA ResultGiven ==
  ASSUME InputsInv, GivenInv, inputs' = inputs, NEW result \in Results,
         given' = Append(given, result), result.ok => result.arrays # << >>,
         \A k \in 1 .. Len(given) : IsShort(given[k], chunkSize) => given[k].group # result.group,
         Continues(groups, wanted, chunkSize, result, Taken(given, result.group, Len(given))),
         opened' \in {opened, opened + 1}, result.group = opened', opened' # 0,
         group'.remaining = 0 \/ (opened' = opened + 1 /\ ~result.ok)
           \/ (opened' = opened /\ ~IsShort(result, chunkSize)
                 /\ \A k \in 1 .. Len(given) : ~(IsShort(given[k], chunkSize) /\ given[k].group = opened))
  PROVE  GivenInv'
<1>1. groups' = groups /\ wanted' = wanted /\ chunkSize' = chunkSize
  BY DEF inputs
<1>2. Chunked(given) /\ Consecutive(groups, wanted, chunkSize, given)
  BY DEF GivenInv
<1>3. /\ Chunked(given') /\ Len(given') = Len(given) + 1
      /\ (\A k \in 1 .. Len(given) : given'[k] = given[k]) /\ given'[Len(given) + 1] = result
  BY <1>2, TakenMore
<1>4. Consecutive(groups, wanted, chunkSize, given')
  BY <1>2, ConsecutiveMore
<1>5. opened \in Nat /\ Len(given) \in Nat /\ opened' \in Nat
  <2>1. Len(given) \in Nat
    BY <1>2, LenProperties DEF Chunked
  <2> QED BY <2>1, FilesAre
<1>6. ASSUME NEW k \in 1 .. Len(given')
      PROVE  /\ given'[k].group \in 1 .. opened'
             /\ IsShort(given'[k], chunkSize) /\ given'[k].group = opened' => group'.remaining = 0
  <2>1. k \in 1 .. Len(given) \/ k = Len(given) + 1
    BY <1>3, <1>5
  <2>2. CASE k = Len(given) + 1
    <3>1. given'[k] = result
      BY <1>3, <2>2
    <3>2. result.group \in 1 .. opened'
      BY <1>5
    <3>3. IsShort(result, chunkSize) => group'.remaining = 0
      BY DEF IsShort
    <3> QED BY <3>1, <3>2, <3>3
  <2>3. CASE k \in 1 .. Len(given)
    <3>1. given'[k] = given[k] /\ given[k].group \in 1 .. opened
      BY <1>3, <2>3 DEF GivenInv
    <3>2. given[k].group \in 1 .. opened'
      BY <1>5, <3>1
    <3>3. IsShort(given[k], chunkSize) => given[k].group # opened'
      BY <2>3
    <3> QED BY <3>1, <3>2, <3>3
  <2> QED BY <2>1, <2>2, <2>3
<1> QED BY <1>1, <1>3, <1>4, <1>6 DEF GivenInv

\* A failure is a result.
LEMMA FailureIs ==
  ASSUME NEW g \in Nat
  PROVE  /\ [ok |-> FALSE, group |-> g, arrays |-> << >>] \in Results
         /\ [ok |-> FALSE, group |-> g, arrays |-> << >>].ok = FALSE
         /\ [ok |-> FALSE, group |-> g, arrays |-> << >>].group = g
<1>1. << >> \in Seq(Seq(Cells))
  BY EmptySeq
<1> QED BY <1>1 DEF Results

\* A page that cannot be read gives the row group up.
LEMMA PageFailsKeeps ==
  ASSUME InputsInv, StageInv, GivenInv, GroupInv, PageFails
  PROVE  StageInv' /\ GivenInv' /\ GroupInv'
<1> DEFINE result == [ok |-> FALSE, group |-> opened, arrays |-> << >>]
<1>1. /\ group' = [group EXCEPT !.remaining = 0] /\ stage' = "idle" /\ arrays' = << >>
      /\ given' = Append(given, result) /\ inputs' = inputs /\ opened' = opened
      /\ stage = "chunk"
  BY DEF PageFails, GiveUpGroup, Give, Asking, readers
<1>2. group'.remaining = 0
      /\ group' = [rows |-> group'.rows, remaining |-> group'.remaining, columns |-> group'.columns]
  <2>1. group = [rows |-> group.rows, remaining |-> group.remaining, columns |-> group.columns]
    BY DEF StageInv
  <2> QED BY <1>1, <2>1, RecordIs
<1>3. group.remaining > 0
  BY <1>1 DEF StageInv
<1>4. StageInv'
  <2>1. << >> \in Seq(Seq(Cells))
    BY EmptySeq
  <2> QED BY <1>1, <1>2, <2>1 DEF StageInv
<1>5. opened \in Nat /\ opened # 0
  BY <1>3, FilesAre DEF GroupInv, InGroup
<1>6. result \in Results /\ result.ok = FALSE /\ result.group = opened
  BY <1>5, FailureIs
<1>7. GivenInv'
  <2>1. ~result.ok
    BY <1>6
  <2> HIDE DEF result
  <2>2. \A k \in 1 .. Len(given) : IsShort(given[k], chunkSize) => given[k].group # result.group
    BY <1>3, <1>6 DEF GivenInv
  <2>3. Continues(groups, wanted, chunkSize, result, Taken(given, result.group, Len(given)))
    BY <2>1, Zenon DEF Continues
  <2> QED BY <1>1, <1>2, <1>5, <1>6, <2>1, <2>2, <2>3, ResultGiven
<1>8. GroupInv'
  BY <1>2 DEF GroupInv
<1> QED BY <1>4, <1>7, <1>8

\* A row group that cannot be opened is passed by.
LEMMA OpenGroupFailsKeeps ==
  ASSUME InputsInv, StageInv, GivenInv, GroupInv, OpenGroupFails
  PROVE  StageInv' /\ GivenInv' /\ GroupInv'
<1> DEFINE result == [ok |-> FALSE, group |-> opened + 1, arrays |-> << >>]
<1>1. /\ group' = group /\ stage' = stage /\ arrays' = arrays /\ group.remaining = 0
      /\ given' = Append(given, result) /\ inputs' = inputs /\ opened' = opened + 1
  BY DEF OpenGroupFails, Give, Advancing
<1>2. groups' = groups /\ wanted' = wanted /\ chunkSize' = chunkSize
  BY <1>1 DEF inputs
<1>3. opened \in Nat
  BY FilesAre
<1>4. StageInv'
  BY <1>1, <1>2 DEF StageInv
<1>5. result \in Results /\ result.ok = FALSE /\ result.group = opened + 1
  BY <1>3, FailureIs
<1>6. GivenInv'
  <2>1. ~result.ok
    BY <1>5
  <2> HIDE DEF result
  <2>2. \A k \in 1 .. Len(given) : IsShort(given[k], chunkSize) => given[k].group # result.group
    <3>1. \A k \in 1 .. Len(given) : given[k].group \in 1 .. opened
      BY DEF GivenInv
    <3> QED BY <1>3, <1>5, <3>1
  <2>3. Continues(groups, wanted, chunkSize, result, Taken(given, result.group, Len(given)))
    BY <2>1, Zenon DEF Continues
  <2>4. group'.remaining = 0 /\ opened' # 0 /\ opened' \in {opened, opened + 1}
    BY <1>1, <1>3
  <2> QED BY <1>1, <1>5, <2>1, <2>2, <2>3, <2>4, ResultGiven
<1>7. GroupInv'
  BY <1>1 DEF GroupInv
<1> QED BY <1>4, <1>6, <1>7

\* A chunk of some rows of the row group that is read is given.
GivesRows ==
  /\ \E n \in Nat :
       /\ n <= group.remaining /\ group'.remaining = group.remaining - n
       /\ Taken(given', opened, Len(given')) = Taken(given, opened, Len(given)) + n
       /\ \A g : g # opened => Taken(given', g, Len(given')) = Taken(given, g, Len(given))
  /\ group'.columns = group.columns /\ stage' = "idle"
  /\ \E result : given' = Append(given, result) /\ result \in Results /\ result.ok

\* A chunk is given when every column has given its array.
LEMMA FinishChunkKeeps ==
  ASSUME InputsInv, StageInv, GivenInv, GroupInv, FinishChunk
  PROVE  StageInv' /\ GivenInv' /\ GroupInv' /\ GivesRows
<1>1. /\ stage = "chunk" /\ Len(arrays) = Len(wanted) /\ inputs' = inputs /\ opened' = opened
  BY DEF FinishChunk, readers
<1>2. /\ group.remaining > 0 /\ group.remaining \in Nat /\ arrays \in Seq(Seq(Cells))
      /\ group = [rows |-> group.rows, remaining |-> group.remaining, columns |-> group.columns]
  BY <1>1 DEF StageInv
<1>3. PICK R, T, from, size : Reads(R, T, from, size)
  BY <1>2, GroupReads
<1> DEFINE n == Lower(size, T - from)
<1>4. /\ R \in Nat \ {0} /\ T \in Nat /\ from \in Nat /\ size \in Nat \ {0}
      /\ T = Lower(R, RowsIn(groups, wanted, opened)) /\ size = SizeFor(chunkSize, R)
      /\ from = Taken(given, opened, Len(given)) /\ from < T /\ T <= R /\ T - from = group.remaining
      /\ AllServe(groups, wanted, opened, R, T)
      /\ opened \in 1 .. Len(groups) /\ wanted # << >>
      /\ group.columns = [i \in 1 .. Len(wanted) |-> group.columns[i]]
      /\ InStep(groups, wanted, opened, size, R, T, from, n, group.columns, arrays)
  BY <1>3, Zenon DEF Reads
<1>5. /\ n \in Nat /\ n \in 1 .. chunkSize /\ n <= group.remaining
      /\ (n < chunkSize => n = group.remaining) /\ from + n <= T
  <2>1. size <= chunkSize /\ chunkSize \in Nat \ {0}
    BY <1>4, SizeIs, FilesAre DEF InputsInv
  <2>2. n \in Nat /\ n # 0 /\ n <= size /\ n <= T - from
    BY <1>4 DEF Lower
  <2>3. n < chunkSize => n = group.remaining
    <3>1. T - from \in Nat /\ T - from <= R
      BY <1>4
    <3>2. \A rest \in Nat : rest <= R /\ Lower(SizeFor(chunkSize, R), rest) < chunkSize =>
              Lower(SizeFor(chunkSize, R), rest) = rest
      BY <1>4, SizeIs DEF InputsInv
    <3>3. n < chunkSize => n = T - from
      BY <1>4, <3>1, <3>2
    <3> QED BY <1>4, <3>3
  <2> HIDE DEF n
  <2> QED BY <1>4, <2>1, <2>2, <2>3
<1> HIDE DEF n
<1> DEFINE next == Lower(size, T - (from + n))
<1>6. /\ InStep(groups, wanted, opened, size, R, T, from + n, next, group.columns, << >>)
      /\ \A i \in 1 .. Len(wanted) :
           /\ Len(arrays[i]) = n
           /\ arrays[i] = SubSeq(StreamOf(groups[opened].columns[wanted[i]], T), from + 1, from + n)
  <2> HIDE DEF next
  <2>1. Finished(groups, wanted, opened, size, R, T, from, n, next, group.columns, arrays)
    BY <1>1, <1>2, <1>4, <1>5, FinishInStep
  <2> QED BY <2>1, Zenon DEF Finished
<1> HIDE DEF next
<1>7. Len(wanted) \in Nat /\ 1 \in 1 .. Len(wanted) /\ Len(arrays[1]) = n
      /\ \A i \in 1 .. Len(arrays) : Len(arrays[i]) = Len(arrays[1])
  <2>1. Len(wanted) \in Nat /\ Len(wanted) # 0
    BY <1>4, FilesAre
  <2>2. 1 \in 1 .. Len(wanted)
    BY <2>1
  <2> QED BY <1>1, <1>6, <2>1, <2>2
<1> DEFINE result == [ok |-> TRUE, group |-> opened, arrays |-> arrays]
<1>8. /\ given' = Append(given, result) /\ stage' = "idle" /\ arrays' = << >>
      /\ group' = [group EXCEPT !.remaining = Saturating(group.remaining, n)]
  <2>1. /\ Give(opened, TRUE, arrays) /\ stage' = "idle" /\ arrays' = << >>
        /\ group' = [group EXCEPT !.remaining = Saturating(@, Len(arrays[1]))]
    BY <1>7, Zenon DEF FinishChunk
  <2>2. group' = [group EXCEPT !.remaining = Saturating(group.remaining, n)]
    BY <1>2, <1>7, <2>1
  <2> QED BY <2>1, <2>2, Zenon DEF Give
<1>9. /\ group'.remaining = group.remaining - n /\ group'.columns = group.columns
      /\ group' = [rows |-> group'.rows, remaining |-> group'.remaining, columns |-> group'.columns]
      /\ group'.remaining \in Nat
  <2>1. Saturating(group.remaining, n) = group.remaining - n /\ group.remaining - n \in Nat
    BY <1>2, <1>5 DEF Saturating
  <2>2. /\ group'.remaining = Saturating(group.remaining, n) /\ group'.columns = group.columns
        /\ group' = [rows |-> group'.rows, remaining |-> group'.remaining, columns |-> group'.columns]
    BY <1>2, <1>8, RecordIs
  <2> QED BY <2>1, <2>2
<1>10. result \in Results /\ result.ok /\ result.group = opened /\ result.arrays = arrays
  BY <1>2, <1>4, FilesAre DEF Results
<1>11. arrays # << >> /\ opened # 0 /\ opened \in Nat
  <2>1. Len(<< >>) = 0
    OBVIOUS
  <2> QED BY <1>1, <1>4, <1>7, <2>1, FilesAre
<1> HIDE DEF result
<1>12. Continues(groups, wanted, chunkSize, result, from)
  <2>1. ASSUME NEW i \in 1 .. Len(wanted)
        PROVE  LET chunk == groups[opened].columns[wanted[i]]
                   array == arrays[i]
               IN  /\ Len(array) = Len(arrays[1])
                   /\ chunk.kind # "null" =>
                        array = SubSeq(FlattenSeq([p \in 1 .. Len(chunk.pages) |-> chunk.pages[p].rows]),
                                       from + 1, from + Len(array))
    <3> DEFINE chunk == groups[opened].columns[wanted[i]]
               ss == [p \in 1 .. Len(chunk.pages) |-> chunk.pages[p].rows]
    <3>1. Len(arrays[i]) = n /\ arrays[i] = SubSeq(StreamOf(chunk, T), from + 1, from + n)
      BY <1>6
    <3>2. chunk.kind # "null" => StreamOf(chunk, T) = FlattenSeq(ss)
      BY DEF StreamOf
    <3>3. Len(arrays[i]) = Len(arrays[1])
      BY <1>7, <3>1
    <3> HIDE DEF chunk, ss
    <3>4. chunk.kind # "null" => arrays[i] = SubSeq(FlattenSeq(ss), from + 1, from + Len(arrays[i]))
      BY <3>1, <3>2
    <3> QED BY <3>3, <3>4, Zenon DEF chunk, ss
  <2>2. Len(arrays[1]) \in 1 .. chunkSize
    BY <1>5, <1>7
  <2> QED BY <1>1, <1>10, <2>1, <2>2, Zenon DEF Continues
<1>13. \A k \in 1 .. Len(given) : ~(IsShort(given[k], chunkSize) /\ given[k].group = opened)
  BY <1>2 DEF GivenInv
<1>14. IsShort(result, chunkSize) => group'.remaining = 0
  BY <1>2, <1>5, <1>7, <1>9, <1>10 DEF IsShort
<1>15. GivenInv'
  BY <1>1, <1>4, <1>8, <1>10, <1>11, <1>12, <1>13, <1>14, ResultGiven
<1>16. StageInv'
  <2>1. << >> \in Seq(Seq(Cells))
    BY EmptySeq
  <2> QED BY <1>8, <1>9, <2>1 DEF StageInv
<1>17. /\ Len(given') = Len(given) + 1
       /\ \A g : Taken(given', g, Len(given')) = Taken(given, g, Len(given))
                   + (IF result.ok /\ result.group = g THEN Len(result.arrays[1]) ELSE 0)
  <2>1. Chunked(given)
    BY DEF GivenInv
  <2> QED BY <1>8, <1>10, <1>11, <2>1, TakenMore
<1>18. Taken(given', opened, Len(given')) = from + n
  BY <1>4, <1>7, <1>10, <1>17
<1>19. GivesRows
  <2>1. ASSUME NEW g, g # opened PROVE Taken(given', g, Len(given')) = Taken(given, g, Len(given))
    <3>1. Len(given) \in 0 .. Len(given) /\ Chunked(given)
      BY LenProperties DEF GivenInv, Chunked
    <3>2. Taken(given, g, Len(given)) \in Nat
      BY <3>1, WeightsAre
    <3> QED BY <1>10, <1>17, <2>1, <3>2
  <2>2. Taken(given', opened, Len(given')) = Taken(given, opened, Len(given)) + n
    BY <1>4, <1>18
  <2> HIDE DEF next
  <2>3. \E r : given' = Append(given, r) /\ r \in Results /\ r.ok
    BY <1>8, <1>10
  <2> QED BY <1>5, <1>8, <1>9, <2>1, <2>2, <2>3 DEF GivesRows
<1>20. GroupInv'
  <2>1. Taken(given', opened, Len(given')) = from + n
    BY <1>18
  <2>2. (from + n) + group'.remaining = T /\ T - (from + n) = group'.remaining
    BY <1>4, <1>5, <1>9
  <2>3. next = Lower(size, group'.remaining)
    BY <2>2 DEF next
  <2>4. InGroup(groups, wanted, chunkSize, opened, given', group'.remaining, group'.columns, << >>)
    BY <1>4, <1>6, <1>9, <2>1, <2>2, <2>3, Zenon DEF InGroup
  <2>5. groups' = groups /\ wanted' = wanted /\ chunkSize' = chunkSize
    BY <1>1 DEF inputs
  <2> QED BY <1>1, <1>8, <2>4, <2>5 DEF GroupInv
<1> QED BY <1>15, <1>16, <1>19, <1>20

\* The columns of a row group are opened at its first row.
LEMMA OpenGroupKeeps ==
  ASSUME InputsInv, StageInv, GivenInv, GroupInv, OpenGroup, ~astray',
         NoBlankFiltered(groups, wanted, opened')
  PROVE  StageInv' /\ GivenInv' /\ GroupInv'
<1> DEFINE g == opened + 1
           rows == RowsOf(g)
           total == groups[g].rows
           R == Lower(rowsToOpen, total)
           T == Lower(R, rows)
           size == SizeFor(chunkSize, R)
           Col(i) == ColumnOf(wanted[i], groups[g].columns[wanted[i]].pages)
           cols == [i \in 1 .. Len(wanted) |-> Col(i)]
<1>1. /\ opened' = g /\ ~Over /\ stage = "idle" /\ stage' = stage /\ arrays' = arrays /\ given' = given
      /\ inputs' = inputs /\ group.remaining = 0
  BY Zenon DEF OpenGroup, Advancing, Idle
<1>2. groups' = groups /\ wanted' = wanted /\ chunkSize' = chunkSize
  BY <1>1 DEF inputs
<1>3. group' = GroupOf(rows, cols)
  <2>1. group' = GroupOf(RowsOf(opened'), [i \in 1 .. Len(wanted) |->
                   ColumnOf(wanted[i], groups[opened'].columns[wanted[i]].pages)])
    BY Zenon DEF OpenGroup
  <2> QED BY <1>1, <2>1, Zenon
<1>4. /\ g \in 1 .. Len(groups) /\ wanted # << >> /\ rowsToOpen \in Nat \ {0}
      /\ rows = RowsIn(groups, wanted, g) /\ rows \in Nat /\ total \in Nat /\ rows <= total
      /\ \A i \in 1 .. Len(wanted) :
           Readable(groups[g].columns[wanted[i]], rows, total, Filtered(groups[g]))
  BY <1>1, NextGroupIs
<1>5. Len(wanted) \in Nat /\ arrays = << >> /\ opened \in Nat
  BY <1>1, FilesAre DEF StageInv
<1>6. /\ group'.remaining = Lower(rowsToOpen, rows) /\ group'.columns = cols
      /\ group' = [rows |-> group'.rows, remaining |-> group'.remaining, columns |-> group'.columns]
  <2> HIDE DEF rows, cols
  <2> QED BY <1>3 DEF GroupOf
<1>7. Lower(rowsToOpen, rows) = T /\ T \in Nat
  <2> HIDE DEF rows, total
  <2> QED BY <1>4 DEF Lower
<1>8. StageInv'
  BY <1>1, <1>2, <1>5, <1>6, <1>7 DEF StageInv
<1>9. GivenInv'
  <2>1. \A k \in 1 .. Len(given) : given[k].group \in 1 .. opened
    BY DEF GivenInv
  <2>2. \A k \in 1 .. Len(given) : given[k].group \in 1 .. g /\ given[k].group # g
    BY <1>5, <2>1
  <2>3. Chunked(given) /\ Consecutive(groups, wanted, chunkSize, given)
    BY DEF GivenInv
  <2> HIDE DEF g
  <2> QED BY <1>1, <1>2, <2>2, <2>3 DEF GivenInv
<1>10. GroupInv'
  <2> SUFFICES ASSUME T > 0
               PROVE  InGroup(groups, wanted, chunkSize, g, given, T, cols, << >>)
    <3> HIDE DEF T, g, cols
    <3> QED BY <1>1, <1>2, <1>5, <1>6, <1>7 DEF GroupInv
  <2>1. R \in Nat \ {0} /\ rows # 0
    <3> HIDE DEF rows, total
    <3> QED BY <1>4, <1>7 DEF Lower
  <2>2. size \in Nat \ {0}
    <3> HIDE DEF R
    <3> QED BY <2>1, SizeIs DEF InputsInv
  <2>3. ASSUME NEW i \in 1 .. Len(wanted)
        PROVE  ColumnInv(Col(i), groups[g].columns[wanted[i]],
                         StreamOf(groups[g].columns[wanted[i]], T), R, T, size, 0)
    <3> DEFINE chunk == groups[g].columns[wanted[i]]
    <3>1. Col(i) = IF chunk.kind = "null" THEN NullColumn(chunk.pages, R, size)
                   ELSE Column(chunk.kind, chunk.pages, R, size)
      BY Zenon DEF ColumnOf, SizeFor
    <3>2. ~(chunk.kind = "null" /\ Filtered(groups[g]))
      <4>1. g \in 1 .. opened'
        BY <1>1, <1>5
      <4> HIDE DEF g
      <4> QED BY <4>1, Zenon DEF NoBlankFiltered
    <3>3. Readable(chunk, rows, total, Filtered(groups[g]))
      BY <1>4
    <3> HIDE DEF chunk, rows, total, R, size, g, Col
    <3>4. ColumnInv(IF chunk.kind = "null" THEN NullColumn(chunk.pages, R, size)
                    ELSE Column(chunk.kind, chunk.pages, R, size),
                    chunk, StreamOf(chunk, Lower(R, rows)), R, Lower(R, rows), size, 0)
      BY <2>1, <2>2, <3>2, <3>3, ColumnOpens
    <3> QED BY <3>1, <3>4, Zenon DEF chunk
  <2>4. Taken(given, g, Len(given)) = 0
    <3>1. Chunked(given) /\ \A k \in 1 .. Len(given) : given[k].group \in 1 .. opened
      BY DEF GivenInv
    <3>2. Len(given) \in 0 .. Len(given)
      BY <3>1, LenProperties DEF Chunked
    <3>3. \A k \in 1 .. Len(given) : given[k].group # g
      BY <1>5, <3>1
    <3> HIDE DEF g
    <3> QED BY <3>1, <3>2, <3>3, NoneTaken
  <2> DEFINE n == Lower(size, T)
  <2>5. InStep(groups, wanted, g, size, R, T, 0, n, cols, << >>)
    <3>1. ASSUME NEW i \in 1 .. Len(wanted)
          PROVE  LET chunk == groups[g].columns[wanted[i]]
                     S     == StreamOf(chunk, T)
                 IN  IF i <= Len(<< >>)
                       THEN /\ << >>[i] = SubSeq(S, 0 + 1, 0 + n)
                            /\ ColumnInv(cols[i], chunk, S, R, T, size, 0 + n)
                       ELSE ColumnInv(cols[i], chunk, S, R, T, size, 0)
      <4>1. ~(i <= Len(<< >>))
        BY <1>5
      <4>2. cols[i] = Col(i)
        <5> HIDE DEF Col
        <5> QED OBVIOUS
      <4> HIDE DEF cols, Col, n, size, R, T, g
      <4> QED BY <2>3, <4>1, <4>2, Zenon
    <3> HIDE DEF cols, Col, n, size, R, T, g
    <3> QED BY <3>1, Zenon DEF InStep
  <2>6. 0 + T = T
    BY <1>7
  <2>7. cols = [i \in 1 .. Len(wanted) |-> cols[i]]
    <3> HIDE DEF Col
    <3> QED OBVIOUS
  <2>8. T = Lower(R, RowsIn(groups, wanted, g))
    BY <1>4, Zenon
  <2>9. g \in 1 .. Len(groups) /\ wanted # << >>
    BY <1>4
  <2> HIDE DEF cols, Col, T, g, R
  <2> QED BY <2>1, <2>4, <2>5, <2>6, <2>7, <2>8, <2>9, Zenon DEF InGroup, n, size
<1> QED BY <1>8, <1>9, <1>10

\* A reader begins in the invariant.
LEMMA ReaderInit ==
  ASSUME ParquetInit
  PROVE  ReaderInv
<1>1. /\ groups \in Files /\ wanted \in Wanted /\ chunkSize \in ChunkSizes /\ rowLimit \in RowLimits
      /\ opened = 0 /\ rowsToOpen = rowLimit /\ group = NoGroup /\ arrays = << >> /\ stage = "idle"
      /\ given = << >>
  BY DEF ParquetInit, Opening
<1>2. Len(given) = 0 /\ << >> \in Seq(Seq(Cells)) /\ << >> \in Seq(Results)
  BY <1>1, EmptySeq
<1>3. InputsInv
  <2>1. Len(groups) \in Nat
    BY <1>1, FilesAssumption, LenProperties
  <2> QED BY <1>1, <2>1, ArgumentsAssumption DEF InputsInv
<1>4. StageInv
  BY <1>1, <1>2 DEF StageInv, NoGroup
<1>5. GivenInv
  BY <1>1, <1>2 DEF GivenInv, Chunked, Consecutive
<1>6. GroupInv
  BY <1>1 DEF GroupInv, NoGroup
<1> QED BY <1>3, <1>4, <1>5, <1>6 DEF ReaderInv

\* Every step of a reader keeps the invariant.
LEMMA ReaderNext ==
  ASSUME ReaderInv, ParquetNext
  PROVE  ReaderInv'
<1>1. InputsInv /\ InputsInv'
  BY InputsKept DEF ReaderInv
<1>2. ASSUME Sound' PROVE StageInv' /\ GivenInv' /\ GroupInv'
  <2>1. Sound /\ ~astray' /\ NoBlankFiltered(groups, wanted, opened')
    BY <1>1, <1>2, SoundBefore
  <2>2. StageInv /\ GivenInv /\ GroupInv
    BY <2>1, Zenon DEF ReaderInv
  <2>3. CASE OpenGroup
    BY <1>1, <2>1, <2>2, <2>3, OpenGroupKeeps
  <2>4. CASE OpenGroupFails
    BY <1>1, <2>2, <2>4, OpenGroupFailsKeeps
  <2>5. CASE EndFile
    BY <1>1, <2>2, <2>5, EndFileKeeps
  <2>6. CASE StartChunk
    BY <1>1, <2>2, <2>6, StartChunkKeeps
  <2>7. CASE TakeItem
    BY <1>1, <2>2, <2>7, TakeItemKeeps
  <2>8. CASE ReadPage
    BY <1>1, <2>1, <2>2, <2>8, ReadPageKeeps
  <2>9. CASE PageFails
    BY <1>1, <2>2, <2>9, PageFailsKeeps
  <2>10. CASE ColumnEnds
    BY <1>1, <2>2, <2>10, ColumnsDoNotEnd
  <2>11. CASE FinishChunk
    BY <1>1, <2>2, <2>11, FinishChunkKeeps
  <2> QED BY <2>3, <2>4, <2>5, <2>6, <2>7, <2>8, <2>9, <2>10, <2>11, Zenon DEF ParquetNext
<1> QED BY <1>1, <1>2, Zenon DEF ReaderInv

\* So does a step of something else.
LEMMA ReaderStutters ==
  ASSUME ReaderInv, UNCHANGED pvars
  PROVE  ReaderInv'
<1>1. /\ inputs' = inputs /\ readers' = readers /\ group' = group /\ arrays' = arrays /\ stage' = stage
      /\ given' = given /\ astray' = astray
  BY DEF pvars
<1>2. groups' = groups /\ wanted' = wanted /\ chunkSize' = chunkSize /\ opened' = opened /\ rowsToOpen' = rowsToOpen
  BY <1>1 DEF inputs, readers
<1>3. Sound' => Sound
  BY <1>1, <1>2, Zenon DEF Sound, IsBlank, IsFiltered
<1>4. InputsInv' /\ (StageInv => StageInv') /\ (GivenInv => GivenInv') /\ (GroupInv => GroupInv')
  BY <1>1, <1>2 DEF ReaderInv, InputsInv, StageInv, GivenInv, GroupInv
<1> QED BY <1>3, <1>4, Zenon DEF ReaderInv

\* The invariant is strong enough for the chunks to be consecutive.
LEMMA ReaderChunks ==
  ASSUME ReaderInv
  PROVE  ChunksAreConsecutive
<1>1. CASE Sound
  BY <1>1, ConsecutiveIs, Zenon DEF ReaderInv, GivenInv
<1>2. CASE ~Sound
  BY <1>2, Zenon DEF ChunksAreConsecutive
<1> QED BY <1>1, <1>2

-----------------------------------------------------------------------------
(* Parquet: the rows of the row groups, and the limit.                      *)

\* Smaller numbers have smaller sums.
LEMMA SumsLeast ==
  ASSUME NEW V \in Seq(Nat), NEW U \in Seq(Nat), Len(U) = Len(V),
         \A k \in 1 .. Len(V) : V[k] <= U[k]
  PROVE  SumAll(V) <= SumAll(U)
<1> DEFINE s == Sums(V)
           t == Sums(U)
           m == Len(V)
           T == {k \in Nat : k <= m => s[k] <= t[k]}
<1>1. m \in Nat /\ \A k \in 1 .. m : V[k] \in Nat /\ U[k] \in Nat
  BY ElementOfSeq, LenProperties
<1>2. s[0] = 0 /\ (\A k \in 1 .. m : s[k] = s[k - 1] + V[k]) /\ \A k \in 0 .. m : s[k] \in Nat
  BY SumsAre
<1>3. t[0] = 0 /\ (\A k \in 1 .. m : t[k] = t[k - 1] + U[k]) /\ \A k \in 0 .. m : t[k] \in Nat
  BY SumsAre
<1>4. \A k \in 1 .. m : V[k] <= U[k]
  OBVIOUS
<1> HIDE DEF s, t, m
<1>5. 0 \in T
  BY <1>2, <1>3
<1>6. ASSUME NEW k \in T PROVE k + 1 \in T
  <2> SUFFICES ASSUME k + 1 <= m PROVE s[k + 1] <= t[k + 1]
    OBVIOUS
  <2>1. k + 1 \in 1 .. m /\ (k + 1) - 1 = k /\ k \in 0 .. m /\ s[k] <= t[k]
    BY <1>1
  <2>2. /\ s[k + 1] = s[k] + V[k + 1] /\ t[k + 1] = t[k] + U[k + 1] /\ s[k] \in Nat /\ t[k] \in Nat
        /\ V[k + 1] \in Nat /\ U[k + 1] \in Nat /\ V[k + 1] <= U[k + 1]
    BY <1>1, <1>2, <1>3, <1>4, <2>1
  <2> QED BY <2>1, <2>2
<1>7. m \in T
  <2>1. T \in SUBSET Nat
    OBVIOUS
  <2> HIDE DEF T
  <2> QED BY <1>1, <1>5, <1>6, <2>1, Induction
<1>8. s[m] <= t[m]
  BY <1>1, <1>7
<1> QED BY <1>8 DEF s, t, m, SumAll

\* The rows of the row groups.
RowList(file, fields) == [h \in 1 .. Len(file) |-> RowsIn(file, fields, h)]

\* The rows of the first n row groups.
UpTo(file, fields, n) == Sums(RowList(file, fields))[n]

\* The rows a row group gives under a limit.
Target(file, fields, limit, g) ==
  Lower(RowsIn(file, fields, g), Saturating(limit, UpTo(file, fields, g - 1)))

\* The rows of the row groups of a file, one after the other.
LEMMA RowListIs ==
  ASSUME NEW file \in Files, NEW fields \in Wanted, fields # << >>
  PROVE  /\ Len(file) \in Nat
         /\ RowList(file, fields) \in Seq(Nat) /\ Len(RowList(file, fields)) = Len(file)
         /\ \A g \in 1 .. Len(file) : RowsIn(file, fields, g) \in Nat
         /\ UpTo(file, fields, 0) = 0
         /\ \A n \in 0 .. Len(file) : UpTo(file, fields, n) \in Nat /\ UpTo(file, fields, n) < Everything
         /\ \A n \in 1 .. Len(file) :
              UpTo(file, fields, n) = UpTo(file, fields, n - 1) + RowsIn(file, fields, n)
         /\ \A m, n \in 0 .. Len(file) : m <= n => UpTo(file, fields, m) <= UpTo(file, fields, n)
<1> DEFINE V == RowList(file, fields)
           U == [g \in 1 .. Len(file) |-> file[g].rows]
<1>1. Len(file) \in Nat
  BY FilesAssumption, LenProperties
<1>2. \A g \in 1 .. Len(file) :
        RowsIn(file, fields, g) \in Nat /\ file[g].rows \in Nat /\ RowsIn(file, fields, g) <= file[g].rows
  BY FileIs
<1>3. V \in Seq(Nat) /\ Len(V) = Len(file) /\ \A g \in 1 .. Len(file) : V[g] = RowsIn(file, fields, g)
  BY <1>1, <1>2 DEF RowList
<1>4. U \in Seq(Nat) /\ Len(U) = Len(file) /\ \A g \in 1 .. Len(file) : U[g] = file[g].rows
  BY <1>1, <1>2
<1>5. SumAll(U) < Everything
  BY RowsAssumption
<1> HIDE DEF U, V
<1>6. SumAll(V) <= SumAll(U)
  <2>1. \A k \in 1 .. Len(V) : V[k] <= U[k]
    BY <1>2, <1>3, <1>4
  <2>2. Len(U) = Len(V)
    BY <1>3, <1>4
  <2> QED BY <1>3, <1>4, <2>1, <2>2, SumsLeast
<1>7. /\ \A n \in 0 .. Len(file) : Sums(V)[n] \in Nat
      /\ Sums(V)[0] = 0 /\ \A n \in 1 .. Len(file) : Sums(V)[n] = Sums(V)[n - 1] + V[n]
  BY <1>3, SumsAre
<1>8. \A m, n \in 0 .. Len(file) : m <= n => Sums(V)[m] <= Sums(V)[n]
  <2> TAKE m, n \in 0 .. Len(file)
  <2> SUFFICES ASSUME m <= n PROVE Sums(V)[m] <= Sums(V)[n]
    OBVIOUS
  <2>1. m \in 0 .. Len(V) /\ n \in m .. Len(V)
    BY <1>1, <1>3
  <2> QED BY <1>3, <2>1, SumsGrow
<1>9. \A n \in 0 .. Len(file) : Sums(V)[n] < Everything
  <2>1. SumAll(V) \in Nat /\ SumAll(U) \in Nat
    <3>1. Sums(V)[Len(V)] \in Nat /\ Sums(U)[Len(U)] \in Nat
      BY <1>1, <1>3, <1>4, SumsAre
    <3> QED BY <3>1 DEF SumAll
  <2>2. SumAll(V) = Sums(V)[Len(file)] /\ Len(file) \in 0 .. Len(file)
    BY <1>1, <1>3 DEF SumAll
  <2> TAKE n \in 0 .. Len(file)
  <2>3. Sums(V)[n] <= Sums(V)[Len(file)] /\ Sums(V)[n] \in Nat
    BY <1>1, <1>7, <1>8, <2>2
  <2> QED BY <1>5, <1>6, <2>1, <2>2, <2>3, EverythingAssumption
<1> QED BY <1>1, <1>2, <1>3, <1>7, <1>8, <1>9 DEF UpTo, V

\* The rows of the groups before g, as the property counts them.
LEMMA BeforeIs ==
  ASSUME InputsInv, wanted # << >>, NEW g \in 1 .. Len(groups)
  PROVE  RowsBeforeGroup(g) = UpTo(groups, wanted, g - 1) /\ RowsOf(g) = RowsIn(groups, wanted, g)
<1> DEFINE V == [h \in 1 .. g - 1 |-> RowsOf(h)]
           U == RowList(groups, wanted)
<1>1. \A h : RowsOf(h) = RowsIn(groups, wanted, h)
  BY DEF RowsOf, RowsIn
<1>2. /\ Len(groups) \in Nat /\ U \in Seq(Nat) /\ Len(U) = Len(groups)
      /\ \A h \in 1 .. Len(groups) : RowsIn(groups, wanted, h) \in Nat
  BY RowListIs DEF InputsInv
<1>3. V \in Seq(Nat) /\ Len(V) = g - 1 /\ g - 1 \in Nat
  BY <1>1, <1>2
<1>4. \A h \in 1 .. g - 1 : V[h] = U[h]
  BY <1>1, <1>2 DEF RowList
<1> HIDE DEF V, U
<1>5. Sums(V)[g - 1] = Sums(U)[g - 1]
  <2>1. g - 1 \in 0 .. Len(V) /\ g - 1 <= Len(U)
    BY <1>2, <1>3
  <2> QED BY <1>2, <1>3, <1>4, <2>1, SumsOfPrefix
<1>6. RowsBeforeGroup(g) = Sums(V)[g - 1]
  BY <1>3 DEF RowsBeforeGroup, SumAll, V
<1> QED BY <1>1, <1>5, <1>6 DEF UpTo, U

\* A failure of row group g is among the results.
Erred(results, g) == \E k \in 1 .. Len(results) : ~results[k].ok /\ results[k].group = g

\* The failures among the results.
Failures(results) == {k \in 1 .. Len(results) : ~results[k].ok}

\* The failures after one more result.
LEMMA FailuresMore ==
  ASSUME NEW results, Chunked(results), NEW result \in Results, result.ok => result.arrays # << >>
  PROVE  /\ \A g : Erred(Append(results, result), g) <=> Erred(results, g) \/ (~result.ok /\ result.group = g)
         /\ Cardinality(Failures(results)) \in Nat
         /\ Cardinality(Failures(Append(results, result)))
              = Cardinality(Failures(results)) + (IF result.ok THEN 0 ELSE 1)
<1> DEFINE longer == Append(results, result)
           m == Len(results)
<1>1. /\ m \in Nat /\ Len(longer) = m + 1 /\ (\A k \in 1 .. m : longer[k] = results[k])
      /\ longer[m + 1] = result
  BY TakenMore, LenProperties DEF Chunked
<1> HIDE DEF longer
<1>2. Len(longer) \in Nat /\ \A k : k \in 1 .. Len(longer) <=> k \in 1 .. m \/ k = m + 1
  BY <1>1
<1>3. ASSUME NEW g
      PROVE  Erred(longer, g) <=> Erred(results, g) \/ (~result.ok /\ result.group = g)
  <2>1. ASSUME Erred(longer, g) PROVE Erred(results, g) \/ (~result.ok /\ result.group = g)
    BY <1>1, <1>2, <2>1 DEF Erred
  <2>2. ASSUME Erred(results, g) \/ (~result.ok /\ result.group = g) PROVE Erred(longer, g)
    BY <1>1, <1>2, <2>2 DEF Erred
  <2> QED BY <2>1, <2>2
<1>4. IsFiniteSet(Failures(results)) /\ m + 1 \notin Failures(results)
  <2>1. IsFiniteSet(1 .. m) /\ Failures(results) \subseteq 1 .. m
    BY <1>1, FS_Interval DEF Failures
  <2>2. IsFiniteSet(Failures(results))
    BY <2>1, FS_Subset
  <2> QED BY <1>1, <2>1, <2>2
<1>5. Failures(longer) = IF result.ok THEN Failures(results) ELSE Failures(results) \cup {m + 1}
  BY <1>1, <1>2 DEF Failures
<1>6. Cardinality(Failures(results)) \in Nat
  BY <1>4, FS_CardinalityType
<1>7. Cardinality(Failures(results) \cup {m + 1}) = Cardinality(Failures(results)) + 1
  BY <1>4, FS_AddElement
<1>8. Cardinality(Failures(longer)) = Cardinality(Failures(results)) + (IF result.ok THEN 0 ELSE 1)
  BY <1>5, <1>6, <1>7
<1> QED BY <1>3, <1>6, <1>8 DEF longer
-----------------------------------------------------------------------------
(* Parquet: what is left out.                                               *)

\* The counts of a reader are numbers.
NumbersInv == rowLimit \in Nat /\ rowsToGive \in Nat /\ errors \in Nat

\* Every error was given to the caller.
FailInv == Cardinality(Failures(given)) = errors

\* The rows of the first n row groups of the file.
RowsUpTo(n) == UpTo(groups, wanted, n)

\* The rows still to open, and to give, with those of the groups opened are the limit at
\* least; without errors they are what is left of it, FileReader's count without the
\* rows of the first group, which it does not count.
CountInv ==
  wanted # << >> /\ stage # "ended" =>
    /\ rowsToOpen + RowsUpTo(opened) >= rowLimit /\ rowsToGive + RowsUpTo(opened) >= rowLimit
    /\ errors = 0 =>
         /\ rowsToOpen = Saturating(rowLimit, RowsUpTo(opened))
         /\ opened = 0 => group = NoGroup /\ rowsToGive = rowLimit
         /\ opened # 0 => DOMAIN group.columns = 1 .. Len(wanted)
         /\ FirstIsLargest /\ opened # 0 =>
              rowsToGive > 0 /\ rowsToGive = Saturating(rowLimit, RowsUpTo(opened) - RowsOf(1))

\* Where FileReader's count does not end the file too early.
Complete == rowLimit = Everything \/ (FirstIsLargest /\ errors = 0)

Left(g) == IF g = opened THEN group.remaining ELSE 0

\* What was given of a row group and what is left of it is what it gives under the limit.
TotalInv ==
  wanted # << >> /\ Complete =>
    \A g \in 1 .. opened :
      Erred(given, g) \/ Taken(given, g, Len(given)) + Left(g) = Target(groups, wanted, rowLimit, g)

\* A reader that ended had nothing left to give.
EndInv ==
  stage = "ended" =>
    /\ group.remaining = 0
    /\ wanted # << >> /\ Complete =>
         \A g \in 1 .. Len(groups) : g > opened => Target(groups, wanted, rowLimit, g) = 0

\* What the reader's counts say of the rows given and left.
LimitInv == NumbersInv /\ FailInv /\ CountInv /\ TotalInv /\ EndInv

\* Steps that neither open nor give.
LEMMA LimitStays ==
  ASSUME InputsInv, LimitInv, inputs' = inputs, readers' = readers, given' = given, errors' = errors,
         group'.remaining = group.remaining, DOMAIN group'.columns = DOMAIN group.columns,
         group = NoGroup => group' = NoGroup \/ opened # 0 \/ wanted = << >>,
         stage' # "ended", stage # "ended"
  PROVE  LimitInv'
<1>1. /\ groups' = groups /\ wanted' = wanted /\ rowLimit' = rowLimit /\ opened' = opened
      /\ rowsToOpen' = rowsToOpen /\ rowsToGive' = rowsToGive
  BY DEF inputs, readers
<1>2. NumbersInv' /\ FailInv'
  BY <1>1 DEF LimitInv, NumbersInv, FailInv
<1>3. RowsUpTo(opened)' = RowsUpTo(opened) /\ RowsOf(1)' = RowsOf(1) /\ FirstIsLargest' = FirstIsLargest
  BY <1>1 DEF RowsUpTo, RowsOf, FirstIsLargest
<1>4. CountInv'
  BY <1>1, <1>3 DEF LimitInv, CountInv
<1>5. TotalInv'
  BY <1>1, <1>3 DEF LimitInv, TotalInv, Complete, Left
<1>6. EndInv'
  BY DEF EndInv
<1> QED BY <1>2, <1>4, <1>5, <1>6 DEF LimitInv

\* Reading a page or a chunk's array counts nothing.
LEMMA LimitTakesItem ==
  ASSUME InputsInv, StageInv, GroupInv, LimitInv, StartChunk \/ TakeItem \/ ReadPage
  PROVE  LimitInv'
<1>1. inputs' = inputs /\ readers' = readers /\ given' = given /\ errors' = errors
  BY DEF StartChunk, TakeItem, ReadPage
<1>2. stage # "ended" /\ stage' # "ended" /\ group.remaining > 0
  <2>1. CASE StartChunk
    BY <2>1 DEF StartChunk, Idle
  <2>2. CASE TakeItem \/ ReadPage
    BY <2>2 DEF TakeItem, ReadPage, Asking, StageInv
  <2> QED BY <2>1, <2>2
<1>3. opened # 0
  BY <1>2, FilesAre DEF GroupInv, InGroup
<1>4. group'.remaining = group.remaining /\ DOMAIN group'.columns = DOMAIN group.columns
  <2>1. CASE group' = group
    BY <2>1
  <2>2. ASSUME NEW m, NEW c, group' = [group EXCEPT !.columns[m] = c]
        PROVE  group'.remaining = group.remaining /\ DOMAIN group'.columns = DOMAIN group.columns
    <3>1. group = [rows |-> group.rows, remaining |-> group.remaining, columns |-> group.columns]
      BY DEF StageInv
    <3>2. group'.remaining = group.remaining /\ group'.columns = [group.columns EXCEPT ![m] = c]
      BY <2>2, <3>1, RecordIs
    <3> QED BY <3>2
  <2>3. CASE StartChunk
    BY <2>1, <2>3 DEF StartChunk
  <2>4. \A column : HandOut(column) \/ KeepItem(column) => \E m, c : group' = [group EXCEPT !.columns[m] = c]
    BY Zenon DEF HandOut, KeepItem
  <2>5. CASE TakeItem
    <3>1. HandOut(Asked)
      BY <2>5 DEF TakeItem
    <3> QED BY <2>2, <2>4, <3>1
  <2>6. CASE ReadPage
    <3>1. \E column : HandOut(column) \/ KeepItem(column)
      BY <2>6, Zenon DEF ReadPage
    <3> QED BY <2>2, <2>4, <3>1
  <2> QED BY <2>3, <2>5, <2>6
<1> QED BY <1>1, <1>2, <1>3, <1>4, LimitStays

\* A row group that fails has no rows left; its failure is given.
LEMMA LimitPageFails ==
  ASSUME InputsInv, StageInv, GivenInv, GroupInv, LimitInv, PageFails
  PROVE  LimitInv'
<1> DEFINE result == [ok |-> FALSE, group |-> opened, arrays |-> << >>]
<1>1. /\ group' = [group EXCEPT !.remaining = 0] /\ stage' = "idle" /\ stage = "chunk"
      /\ given' = Append(given, result) /\ inputs' = inputs /\ readers' = readers /\ errors' = errors + 1
  BY DEF PageFails, GiveUpGroup, Give, Asking, FileError
<1>2. /\ groups' = groups /\ wanted' = wanted /\ rowLimit' = rowLimit /\ opened' = opened
      /\ rowsToOpen' = rowsToOpen /\ rowsToGive' = rowsToGive
  BY <1>1 DEF inputs, readers
<1>3. opened \in Nat /\ opened # 0
  BY <1>1, FilesAre DEF StageInv, GroupInv, InGroup
<1>4. result \in Results /\ result.ok = FALSE /\ result.group = opened
  BY <1>3, FailureIs
<1>5. group'.remaining = 0
  BY <1>1, RecordIs DEF StageInv
<1> HIDE DEF result
<1>6. Chunked(given)
  BY DEF GivenInv
<1>7. /\ \A g : Erred(given', g) <=> Erred(given, g) \/ g = opened
      /\ Cardinality(Failures(given)) \in Nat
      /\ Cardinality(Failures(given')) = Cardinality(Failures(given)) + 1
  BY <1>1, <1>4, <1>6, FailuresMore
<1>8. \A g : g # opened => Taken(given', g, Len(given')) = Taken(given, g, Len(given))
  <2>1. Len(given) \in 0 .. Len(given)
    BY <1>6, LenProperties DEF Chunked
  <2>2. /\ Len(given') = Len(given) + 1
        /\ \A g : Taken(given', g, Len(given) + 1) = Taken(given, g, Len(given)) + 0
    BY <1>1, <1>4, <1>6, TakenMore
  <2>3. \A g : Taken(given, g, Len(given)) \in Nat
    BY <1>6, <2>1, WeightsAre
  <2> QED BY <2>2, <2>3
<1>9. NumbersInv' /\ FailInv' /\ errors' # 0
  BY <1>1, <1>2, <1>7 DEF LimitInv, NumbersInv, FailInv
<1>10. CountInv'
  <2>1. RowsUpTo(opened)' = RowsUpTo(opened)
    BY <1>2 DEF RowsUpTo
  <2> QED BY <1>1, <1>2, <1>9, <2>1 DEF LimitInv, CountInv
<1>11. TotalInv'
  <2> SUFFICES ASSUME wanted # << >>, Complete', NEW g \in 1 .. opened, ~Erred(given', g)
               PROVE  Taken(given', g, Len(given')) + Left(g)' = Target(groups, wanted, rowLimit, g)
    BY <1>2 DEF TotalInv
  <2>1. rowLimit = Everything
    BY <1>2, <1>9 DEF Complete
  <2>2. g # opened /\ ~Erred(given, g)
    BY <1>7
  <2>3. Left(g)' = Left(g)
    BY <1>2, <2>2 DEF Left
  <2>4. Taken(given, g, Len(given)) + Left(g) = Target(groups, wanted, rowLimit, g)
    BY <2>1, <2>2 DEF LimitInv, TotalInv, Complete
  <2> QED BY <1>8, <2>2, <2>3, <2>4
<1>12. EndInv'
  BY <1>1 DEF EndInv
<1> QED BY <1>9, <1>10, <1>11, <1>12 DEF LimitInv

\* The rows of a chunk were left of the row group, and are given.
LEMMA LimitFinishChunk ==
  ASSUME InputsInv, StageInv, GivenInv, GroupInv, LimitInv, FinishChunk
  PROVE  LimitInv'
<1>1. GivesRows
  BY FinishChunkKeeps
<1>2. /\ stage = "chunk" /\ inputs' = inputs /\ readers' = readers /\ errors' = errors
  BY DEF FinishChunk
<1>3. /\ groups' = groups /\ wanted' = wanted /\ rowLimit' = rowLimit /\ opened' = opened
      /\ rowsToOpen' = rowsToOpen /\ rowsToGive' = rowsToGive
  BY <1>2 DEF inputs, readers
<1>4. opened \in Nat /\ opened # 0
  BY <1>2, FilesAre DEF StageInv, GroupInv, InGroup
<1>5. group'.columns = group.columns /\ stage' = "idle"
  BY <1>1 DEF GivesRows
<1>6. PICK result : given' = Append(given, result) /\ result \in Results /\ result.ok
  BY <1>1 DEF GivesRows
<1>7. PICK n \in Nat :
       /\ n <= group.remaining /\ group'.remaining = group.remaining - n
       /\ Taken(given', opened, Len(given')) = Taken(given, opened, Len(given)) + n
       /\ \A g : g # opened => Taken(given', g, Len(given')) = Taken(given, g, Len(given))
  BY <1>1 DEF GivesRows
<1>8. Chunked(given) /\ Chunked(given')
  <2>1. GivenInv'
    BY FinishChunkKeeps
  <2> QED BY <2>1 DEF GivenInv
<1>9. result.arrays # << >>
  <2>1. given \in Seq(Results) /\ Len(given) \in Nat
    BY <1>8, LenProperties DEF Chunked
  <2>2. Len(given') = Len(given) + 1 /\ given'[Len(given) + 1] = result
    BY <1>6, <2>1, AppendProperties
  <2>3. Len(given) + 1 \in 1 .. Len(given')
    BY <2>1, <2>2
  <2> QED BY <1>6, <1>8, <2>2, <2>3 DEF Chunked
<1>10. /\ \A g : Erred(given', g) <=> Erred(given, g)
       /\ Cardinality(Failures(given')) = Cardinality(Failures(given))
  <2>1. /\ \A g : Erred(given', g) <=> Erred(given, g) \/ (~result.ok /\ result.group = g)
        /\ Cardinality(Failures(given)) \in Nat
        /\ Cardinality(Failures(given')) = Cardinality(Failures(given)) + (IF result.ok THEN 0 ELSE 1)
    BY <1>6, <1>8, <1>9, FailuresMore
  <2> QED BY <1>6, <2>1
<1>11. NumbersInv' /\ FailInv'
  BY <1>2, <1>3, <1>10 DEF LimitInv, NumbersInv, FailInv
<1>12. RowsUpTo(opened)' = RowsUpTo(opened) /\ RowsOf(1)' = RowsOf(1) /\ FirstIsLargest' = FirstIsLargest
  BY <1>3 DEF RowsUpTo, RowsOf, FirstIsLargest
<1>13. CountInv'
  BY <1>2, <1>3, <1>4, <1>5, <1>12 DEF LimitInv, CountInv
<1>14. TotalInv'
  <2> SUFFICES ASSUME wanted # << >>, Complete', NEW g \in 1 .. opened, ~Erred(given', g)
               PROVE  Taken(given', g, Len(given')) + Left(g)' = Target(groups, wanted, rowLimit, g)
    BY <1>3 DEF TotalInv
  <2>1. Complete
    BY <1>2, <1>3, <1>12 DEF Complete
  <2>2. Taken(given, g, Len(given)) + Left(g) = Target(groups, wanted, rowLimit, g)
    BY <1>10, <2>1 DEF LimitInv, TotalInv
  <2>3. CASE g # opened
    <3>1. Left(g)' = Left(g)
      BY <1>3, <2>3 DEF Left
    <3> QED BY <1>7, <2>2, <2>3, <3>1
  <2>4. CASE g = opened
    <3>1. Left(g)' = group.remaining - n /\ Left(g) = group.remaining
      BY <1>3, <1>7, <2>4 DEF Left
    <3>2. Taken(given', g, Len(given')) = Taken(given, g, Len(given)) + n
      BY <1>7, <2>4
    <3>3. Taken(given, g, Len(given)) \in Nat /\ group.remaining \in Nat
      <4>1. Len(given) \in 0 .. Len(given)
        BY <1>8, LenProperties DEF Chunked
      <4> QED BY <1>8, <4>1, WeightsAre DEF StageInv
    <3> DEFINE a == Taken(given, g, Len(given))
               b == Taken(given', g, Len(given'))
    <3> HIDE DEF a, b
    <3>4. b + (group.remaining - n) = a + group.remaining
      BY <3>2, <3>3 DEF a, b
    <3> QED BY <2>2, <3>1, <3>4 DEF a, b
  <2> QED BY <2>3, <2>4
<1>15. EndInv'
  BY <1>5 DEF EndInv
<1> QED BY <1>11, <1>13, <1>14, <1>15 DEF LimitInv

\* A row group that cannot be opened is not counted down from the limit.
LEMMA LimitOpenGroupFails ==
  ASSUME InputsInv, StageInv, GivenInv, GroupInv, LimitInv, OpenGroupFails
  PROVE  LimitInv'
<1> DEFINE g == opened + 1
           result == [ok |-> FALSE, group |-> g, arrays |-> << >>]
<1>1. /\ group' = group /\ stage' = stage /\ stage = "idle" /\ group.remaining = 0 /\ opened' = g /\ ~Over
      /\ given' = Append(given, result) /\ inputs' = inputs /\ errors' = errors + 1
      /\ rowsToOpen' = rowsToOpen /\ rowsToGive' = rowsToGive
  BY DEF OpenGroupFails, Give, FileError, Advancing, Idle
<1>2. groups' = groups /\ wanted' = wanted /\ rowLimit' = rowLimit
  BY <1>1 DEF inputs
<1>3. opened \in Nat /\ opened + 1 \in 1 .. Len(groups) /\ wanted # << >>
  BY <1>1, FilesAre, NextGroupIs
<1>4. result \in Results /\ result.ok = FALSE /\ result.group = g
  BY <1>3, FailureIs
<1> HIDE DEF result
<1>5. Chunked(given)
  BY DEF GivenInv
<1>6. /\ \A h : Erred(given', h) <=> Erred(given, h) \/ h = g
      /\ Cardinality(Failures(given)) \in Nat
      /\ Cardinality(Failures(given')) = Cardinality(Failures(given)) + 1
  BY <1>1, <1>4, <1>5, FailuresMore
<1>7. \A h : Taken(given', h, Len(given')) = Taken(given, h, Len(given)) /\ Taken(given, h, Len(given)) \in Nat
  <2>1. Len(given) \in 0 .. Len(given)
    BY <1>5, LenProperties DEF Chunked
  <2>2. /\ Len(given') = Len(given) + 1
        /\ \A h : Taken(given', h, Len(given) + 1) = Taken(given, h, Len(given)) + 0
    BY <1>1, <1>4, <1>5, TakenMore
  <2>3. \A h : Taken(given, h, Len(given)) \in Nat
    BY <1>5, <2>1, WeightsAre
  <2> QED BY <2>2, <2>3
<1>8. NumbersInv' /\ FailInv' /\ errors' # 0
  BY <1>1, <1>2, <1>6 DEF LimitInv, NumbersInv, FailInv
<1>9. CountInv'
  <2>1. RowsUpTo(opened)' = UpTo(groups, wanted, g)
    BY <1>1, <1>2 DEF RowsUpTo
  <2>2. UpTo(groups, wanted, opened) \in Nat /\ UpTo(groups, wanted, g) \in Nat
        /\ UpTo(groups, wanted, opened) <= UpTo(groups, wanted, g)
    <3>1. opened \in 0 .. Len(groups) /\ g \in 0 .. Len(groups) /\ opened <= g
      BY <1>3, FilesAre
    <3> HIDE DEF g
    <3> QED BY <1>3, <3>1, RowListIs DEF InputsInv
  <2>3. /\ rowsToOpen + UpTo(groups, wanted, opened) >= rowLimit
        /\ rowsToGive + UpTo(groups, wanted, opened) >= rowLimit
    BY <1>1, <1>3 DEF LimitInv, CountInv, RowsUpTo
  <2>4. /\ rowsToOpen + UpTo(groups, wanted, g) >= rowLimit
        /\ rowsToGive + UpTo(groups, wanted, g) >= rowLimit
    <3>1. rowsToOpen \in Nat /\ rowsToGive \in Nat /\ rowLimit \in Nat
      BY DEF InputsInv, LimitInv, NumbersInv
    <3> HIDE DEF g
    <3> QED BY <2>2, <2>3, <3>1
  <2> QED BY <1>1, <1>2, <1>8, <2>1, <2>4 DEF CountInv
<1>10. TotalInv'
  <2> SUFFICES ASSUME wanted # << >>, Complete', NEW h \in 1 .. g, ~Erred(given', h)
               PROVE  Taken(given', h, Len(given')) + Left(h)' = Target(groups, wanted, rowLimit, h)
    BY <1>1, <1>2 DEF TotalInv
  <2>1. Complete
    BY <1>2, <1>8 DEF Complete
  <2>2. h # g /\ ~Erred(given, h) /\ h \in 1 .. opened
    BY <1>3, <1>6
  <2>3. Left(h)' = 0 /\ Left(h) = 0
    BY <1>1, <2>2 DEF Left
  <2>4. Taken(given, h, Len(given)) + Left(h) = Target(groups, wanted, rowLimit, h)
    BY <2>1, <2>2 DEF LimitInv, TotalInv
  <2> QED BY <1>7, <2>3, <2>4
<1>11. EndInv'
  BY <1>1 DEF EndInv
<1> QED BY <1>8, <1>9, <1>10, <1>11 DEF LimitInv

\* The iterator ends only when nothing is left to give.
LEMMA LimitEndFile ==
  ASSUME InputsInv, StageInv, GivenInv, GroupInv, LimitInv, EndFile
  PROVE  LimitInv'
<1>1. /\ group' = NoGroup /\ stage' = "ended" /\ stage = "idle" /\ inputs' = inputs /\ opened' = opened
      /\ rowsToOpen' = rowsToOpen /\ given' = given /\ errors' = errors
  BY DEF EndFile, Advancing, Idle
<1>2. groups' = groups /\ wanted' = wanted /\ rowLimit' = rowLimit
  BY <1>1 DEF inputs
<1>3. \/ group.remaining = 0 /\ Over
      \/ rowsToGive = 0
  BY DEF EndFile, Advancing
<1>4. rowsToGive' \in Nat
  <2>1. rowsToGive' = rowsToGive \/ rowsToGive' = 0
    BY DEF EndFile
  <2> QED BY <2>1 DEF LimitInv, NumbersInv
<1>5. NumbersInv' /\ FailInv'
  BY <1>1, <1>2, <1>4 DEF LimitInv, NumbersInv, FailInv
<1>6. CountInv'
  BY <1>1 DEF CountInv
<1>7. FirstIsLargest' = FirstIsLargest
  BY <1>2 DEF FirstIsLargest, RowsOf
<1>8. Complete' => Complete
  BY <1>1, <1>2, <1>7 DEF Complete
<1>9. opened \in 0 .. Len(groups) /\ Len(groups) \in Nat
  BY FilesAre DEF InputsInv
<1>10. ASSUME wanted # << >>, Complete
       PROVE  /\ group.remaining = 0
              /\ \A g \in 1 .. Len(groups) : g > opened => Target(groups, wanted, rowLimit, g) = 0
  <2> DEFINE up == UpTo(groups, wanted, opened)
  <2>1. /\ rowsToOpen + up >= rowLimit /\ rowsToGive + up >= rowLimit
        /\ errors = 0 =>
             /\ rowsToOpen = Saturating(rowLimit, up)
             /\ opened = 0 => group = NoGroup /\ rowsToGive = rowLimit
             /\ FirstIsLargest /\ opened # 0 => rowsToGive > 0
    BY <1>1, <1>10 DEF LimitInv, CountInv, RowsUpTo
  <2>2. up \in Nat /\ up < Everything
    BY <1>9, <1>10, RowListIs DEF InputsInv
  <2>3. rowsToOpen \in Nat /\ rowsToGive \in Nat /\ rowLimit \in Nat
    BY DEF InputsInv, LimitInv, NumbersInv
  <2> HIDE DEF up
  <2>4. rowLimit = Everything => rowsToOpen # 0 /\ rowsToGive # 0
    BY <2>1, <2>2, <2>3, EverythingAssumption
  <2>5. opened # Len(groups) => rowLimit <= up /\ rowLimit # Everything
    <3>1. CASE rowsToGive = 0
      <4>1. opened = 0 /\ rowLimit = 0 /\ rowLimit # Everything
        BY <1>10, <2>1, <2>4, <3>1 DEF Complete
      <4> QED BY <2>2, <4>1
    <3>2. CASE rowsToGive # 0 /\ opened # Len(groups)
      <4>1. rowsToOpen = 0
        BY <1>3, <1>10, <3>2 DEF Over
      <4>2. rowLimit # Everything /\ errors = 0
        BY <1>10, <2>4, <4>1 DEF Complete
      <4>3. Saturating(rowLimit, up) = 0
        BY <2>1, <4>1, <4>2
      <4> QED BY <2>2, <2>3, <4>2, <4>3 DEF Saturating
    <3> QED BY <3>1, <3>2
  <2>6. group.remaining = 0
    <3>1. CASE rowsToGive = 0
      <4>1. opened = 0 /\ group = NoGroup
        BY <1>10, <2>1, <2>4, <3>1 DEF Complete
      <4> QED BY <4>1 DEF NoGroup
    <3> QED BY <1>3, <3>1
  <2>7. ASSUME NEW g \in 1 .. Len(groups), g > opened PROVE Target(groups, wanted, rowLimit, g) = 0
    <3>1. g - 1 \in 0 .. Len(groups) /\ opened <= g - 1 /\ opened # Len(groups)
      BY <1>9, <2>7
    <3>2. UpTo(groups, wanted, g - 1) \in Nat /\ up <= UpTo(groups, wanted, g - 1)
          /\ RowsIn(groups, wanted, g) \in Nat
      BY <1>9, <1>10, <3>1, RowListIs DEF InputsInv, up
    <3>3. rowLimit <= UpTo(groups, wanted, g - 1)
      BY <2>2, <2>3, <2>5, <3>1, <3>2
    <3>4. Saturating(rowLimit, UpTo(groups, wanted, g - 1)) = 0
      BY <2>3, <3>2, <3>3 DEF Saturating
    <3> QED BY <3>2, <3>4 DEF Target, Lower
  <2> QED BY <2>6, <2>7
<1>11. group'.remaining = 0
  BY <1>1 DEF NoGroup
<1>12. TotalInv'
  <2> SUFFICES ASSUME wanted # << >>, Complete', NEW g \in 1 .. opened, ~Erred(given, g)
               PROVE  Taken(given, g, Len(given)) + Left(g)' = Target(groups, wanted, rowLimit, g)
    BY <1>1, <1>2 DEF TotalInv
  <2>1. Left(g)' = Left(g)
    BY <1>1, <1>8, <1>10, <1>11 DEF Left
  <2> QED BY <1>8, <2>1 DEF LimitInv, TotalInv
<1>13. EndInv'
  BY <1>1, <1>2, <1>8, <1>10, <1>11 DEF EndInv
<1> QED BY <1>5, <1>6, <1>12, <1>13 DEF LimitInv

\* How the limit is counted down by a row group of `rows` rows, of which `up` are given
\* or passed over before.
CountedDown(limit, up, rows, toOpen, toGive) ==
  /\ Saturating(toOpen, rows) + (up + rows) >= limit
  /\ toGive + (up + rows) >= limit /\ Saturating(toGive, rows) + (up + rows) >= limit
  /\ Saturating(toGive, rows) \in Nat
  /\ toOpen = Saturating(limit, up) => Saturating(toOpen, rows) = Saturating(limit, up + rows)
  /\ \A first \in Nat : first <= up /\ toGive = Saturating(limit, up - first) =>
       Saturating(toGive, rows) = Saturating(limit, (up + rows) - first)

\* Both counts go down by the rows of a row group, and stop at zero.
LEMMA CountsDown ==
  ASSUME NEW limit \in Nat, NEW up \in Nat, NEW rows \in Nat, NEW toOpen \in Nat, NEW toGive \in Nat,
         toOpen + up >= limit, toGive + up >= limit
  PROVE  CountedDown(limit, up, rows, toOpen, toGive)
BY DEF Saturating, CountedDown

\* A row group that is opened has all its rows left, up to the limit.
LEMMA LimitOpenGroup ==
  ASSUME InputsInv, StageInv, GivenInv, GroupInv, LimitInv, OpenGroup, ~astray'
  PROVE  LimitInv'
<1> DEFINE g == opened + 1
           rows == RowsOf(g)
           up == UpTo(groups, wanted, opened)
           Col(i) == ColumnOf(wanted[i], groups[g].columns[wanted[i]].pages)
           cols == [i \in 1 .. Len(wanted) |-> Col(i)]
<1>1. /\ opened' = g /\ ~Over /\ stage = "idle" /\ stage' = stage /\ given' = given
      /\ inputs' = inputs /\ group.remaining = 0 /\ rowsToGive > 0
      /\ group' = GroupOf(rows, cols) /\ errors' = errors
      /\ rowsToOpen' = Saturating(rowsToOpen, rows) /\ rowsToGive' = RowsToGiveAfter(rows)
  <2>1. /\ opened' = g /\ ~Over /\ stage = "idle" /\ stage' = stage /\ given' = given
        /\ inputs' = inputs /\ group.remaining = 0 /\ rowsToGive > 0
        /\ rowsToOpen' = Saturating(rowsToOpen, RowsOf(opened'))
        /\ rowsToGive' = RowsToGiveAfter(RowsOf(opened'))
    BY Zenon DEF OpenGroup, Advancing, Idle
  <2>2. errors' = errors /\
        group' = GroupOf(RowsOf(opened'), [i \in 1 .. Len(wanted) |->
                   ColumnOf(wanted[i], groups[opened'].columns[wanted[i]].pages)])
    BY Zenon DEF OpenGroup
  <2> QED BY <2>1, <2>2, Zenon
<1>2. groups' = groups /\ wanted' = wanted /\ rowLimit' = rowLimit
  BY <1>1 DEF inputs
<1>3. /\ g \in 1 .. Len(groups) /\ wanted # << >> /\ rowsToOpen \in Nat \ {0}
      /\ rows = RowsIn(groups, wanted, g) /\ rows \in Nat
  BY <1>1, NextGroupIs
<1>4. opened \in Nat /\ Len(groups) \in Nat /\ Len(wanted) \in Nat
  BY FilesAre
<1>5. /\ up \in Nat /\ UpTo(groups, wanted, g) = up + rows /\ up + rows < Everything
      /\ UpTo(groups, wanted, 0) = 0
  <2>1. opened \in 0 .. Len(groups) /\ g \in 1 .. Len(groups) /\ g \in 0 .. Len(groups) /\ g - 1 = opened
    BY <1>3, <1>4
  <2>2. UpTo(groups, wanted, g) = UpTo(groups, wanted, g - 1) + RowsIn(groups, wanted, g)
    <3> HIDE DEF g
    <3> QED BY <1>3, <2>1, RowListIs DEF InputsInv
  <2>3. /\ up \in Nat /\ UpTo(groups, wanted, g) < Everything /\ UpTo(groups, wanted, 0) = 0
    <3> HIDE DEF g
    <3> QED BY <1>3, <2>1, RowListIs DEF InputsInv
  <2> QED BY <1>3, <2>1, <2>2, <2>3
<1>6. group'.remaining = Lower(rowsToOpen, rows) /\ group'.columns = cols
  <2> HIDE DEF rows, cols
  <2> QED BY <1>1 DEF GroupOf
<1>7. RowsUpTo(opened)' = up + rows /\ FirstIsLargest' = FirstIsLargest /\ RowsOf(1)' = RowsOf(1)
  <2>1. RowsUpTo(opened)' = UpTo(groups, wanted, g)
    BY <1>1, <1>2 DEF RowsUpTo
  <2> QED BY <1>2, <1>5, <2>1 DEF FirstIsLargest, RowsOf
<1>8. /\ rowsToOpen + up >= rowLimit /\ rowsToGive + up >= rowLimit
      /\ errors = 0 =>
           /\ rowsToOpen = Saturating(rowLimit, up)
           /\ opened = 0 => group = NoGroup /\ rowsToGive = rowLimit
           /\ opened # 0 => DOMAIN group.columns = 1 .. Len(wanted)
           /\ FirstIsLargest /\ opened # 0 =>
                rowsToGive > 0 /\ rowsToGive = Saturating(rowLimit, up - RowsOf(1))
  BY <1>1, <1>3 DEF LimitInv, CountInv, RowsUpTo
<1>9. rowLimit \in Nat /\ rowsToGive \in Nat
  BY DEF LimitInv, NumbersInv
<1> HIDE DEF rows, up, cols
<1>10. /\ Saturating(rowsToOpen, rows) + (up + rows) >= rowLimit
       /\ rowsToGive + (up + rows) >= rowLimit /\ Saturating(rowsToGive, rows) + (up + rows) >= rowLimit
       /\ Saturating(rowsToGive, rows) \in Nat
       /\ rowsToOpen = Saturating(rowLimit, up) => Saturating(rowsToOpen, rows) = Saturating(rowLimit, up + rows)
       /\ \A first \in Nat : first <= up /\ rowsToGive = Saturating(rowLimit, up - first) =>
            Saturating(rowsToGive, rows) = Saturating(rowLimit, (up + rows) - first)
  <2>1. CountedDown(rowLimit, up, rows, rowsToOpen, rowsToGive)
    <3>1. rowsToOpen \in Nat
      BY <1>3
    <3> QED BY <1>3, <1>5, <1>8, <1>9, <3>1, CountsDown
  <2> QED BY <2>1, Zenon DEF CountedDown
<1>11. rowsToGive' = IF group = NoGroup THEN rowsToGive ELSE Saturating(rowsToGive, rows)
  BY <1>1 DEF RowsToGiveAfter
<1>12. NumbersInv' /\ FailInv'
  BY <1>1, <1>2, <1>9, <1>10, <1>11 DEF LimitInv, NumbersInv, FailInv
<1>13. ASSUME errors = 0, FirstIsLargest
       PROVE  rowsToGive' > 0 /\ rowsToGive' = Saturating(rowLimit, (up + rows) - RowsOf(1))
  <2>1. CASE opened = 0
    <3>1. up = 0 /\ rows = RowsOf(1)
      BY <1>5, <2>1 DEF up, rows
    <3>2. rowsToGive' = rowLimit /\ rowLimit > 0
      BY <1>1, <1>8, <1>11, <1>13, <2>1
    <3>3. (up + rows) - RowsOf(1) = 0
      BY <1>3, <3>1
    <3> QED BY <1>9, <3>2, <3>3 DEF Saturating
  <2>2. CASE opened # 0
    <3>1. group # NoGroup
      <4>1. DOMAIN group.columns = 1 .. Len(wanted) /\ 1 \in 1 .. Len(wanted)
        BY <1>3, <1>4, <1>8, <1>13, <2>2, FilesAre
      <4>2. DOMAIN NoGroup.columns = {}
        BY DEF NoGroup
      <4> QED BY <4>1, <4>2
    <3>2. RowsOf(1) \in Nat /\ rows <= RowsOf(1)
      <4>1. 1 \in 1 .. Len(groups)
        BY <1>3, <1>4
      <4>2. RowsIn(groups, wanted, 1) \in Nat /\ RowsOf(1) = RowsIn(groups, wanted, 1)
        BY <1>3, <4>1, RowListIs, BeforeIs DEF InputsInv
      <4>3. RowsOf(g) <= RowsOf(1)
        <5> HIDE DEF g
        <5> QED BY <1>3, <1>13 DEF FirstIsLargest
      <4> QED BY <4>2, <4>3 DEF rows
    <3>3. RowsOf(1) <= up
      <4>1. 1 \in 0 .. Len(groups) /\ opened \in 0 .. Len(groups) /\ 1 <= opened /\ 1 \in 1 .. Len(groups)
            /\ 1 - 1 = 0
        BY <1>3, <1>4, <2>2
      <4>2. UpTo(groups, wanted, 1) <= up /\ UpTo(groups, wanted, 1) = UpTo(groups, wanted, 1 - 1) + RowsIn(groups, wanted, 1)
        BY <1>3, <4>1, RowListIs DEF InputsInv, up
      <4>3. RowsOf(1) = RowsIn(groups, wanted, 1)
        BY <1>3, <4>1, BeforeIs
      <4>4. UpTo(groups, wanted, 1) = RowsOf(1)
        BY <1>5, <3>2, <4>1, <4>2, <4>3
      <4> QED BY <4>2, <4>4
    <3>4. rowsToGive' = Saturating(rowLimit, (up + rows) - RowsOf(1))
      BY <1>8, <1>10, <1>11, <1>13, <2>2, <3>1, <3>2, <3>3
    <3>5. rowLimit > up
      BY <1>3, <1>5, <1>8, <1>9, <1>13 DEF Saturating
    <3> QED BY <1>3, <1>5, <1>9, <3>2, <3>3, <3>4, <3>5 DEF Saturating
  <2> QED BY <2>1, <2>2
<1>14. CountInv'
  <2>1. /\ rowsToOpen' + RowsUpTo(opened)' >= rowLimit /\ rowsToGive' + RowsUpTo(opened)' >= rowLimit
    BY <1>1, <1>7, <1>10, <1>11
  <2>2. errors = 0 => rowsToOpen' = Saturating(rowLimit, RowsUpTo(opened)')
    BY <1>1, <1>7, <1>8, <1>10
  <2>3. opened' # 0 /\ DOMAIN group'.columns = 1 .. Len(wanted)
    BY <1>1, <1>4, <1>6 DEF cols
  <2>4. errors = 0 /\ FirstIsLargest =>
          rowsToGive' > 0 /\ rowsToGive' = Saturating(rowLimit, RowsUpTo(opened)' - RowsOf(1))
    BY <1>7, <1>13
  <2> QED BY <1>1, <1>2, <1>7, <2>1, <2>2, <2>3, <2>4 DEF CountInv
<1>15. TotalInv'
  <2> SUFFICES ASSUME Complete', NEW h \in 1 .. g, ~Erred(given, h)
               PROVE  Taken(given, h, Len(given)) + Left(h)' = Target(groups, wanted, rowLimit, h)
    BY <1>1, <1>2 DEF TotalInv
  <2>1. Complete
    BY <1>1, <1>2, <1>7 DEF Complete
  <2>2. CASE h # g
    <3>1. h \in 1 .. opened
      BY <1>4, <2>2
    <3>2. Left(h)' = 0 /\ Left(h) = 0
      BY <1>1, <2>2 DEF Left
    <3> QED BY <1>3, <2>1, <3>1, <3>2 DEF LimitInv, TotalInv
  <2>3. CASE h = g
    <3>1. Taken(given, g, Len(given)) = 0
      <4>1. Chunked(given) /\ \A k \in 1 .. Len(given) : given[k].group \in 1 .. opened
        BY DEF GivenInv
      <4>2. Len(given) \in 0 .. Len(given)
        BY <4>1, LenProperties DEF Chunked
      <4>3. \A k \in 1 .. Len(given) : given[k].group # g
        BY <1>4, <4>1
      <4> HIDE DEF g
      <4> QED BY <4>1, <4>2, <4>3, NoneTaken
    <3>2. Left(h)' = Lower(rowsToOpen, rows)
      <4>1. h = opened'
        BY <1>1, <2>3
      <4> QED BY <1>6, <4>1 DEF Left
    <3>3. Target(groups, wanted, rowLimit, g) = Lower(rows, Saturating(rowLimit, up))
      <4>1. g - 1 = opened
        BY <1>4
      <4> QED BY <1>3, <4>1 DEF Target, up
    <3>4. Lower(rowsToOpen, rows) = Lower(rows, Saturating(rowLimit, up)) /\ Lower(rowsToOpen, rows) \in Nat
      <4>1. rowsToOpen \in Nat
        BY <1>3
      <4>2. CASE rowLimit = Everything
        BY <1>3, <1>5, <1>8, <4>1, <4>2, EverythingAssumption DEF Lower, Saturating
      <4>3. CASE errors = 0
        <5>1. rowsToOpen = Saturating(rowLimit, up)
          BY <1>8, <4>3
        <5> QED BY <1>3, <4>1, <5>1 DEF Lower
      <4> QED BY <2>1, <4>2, <4>3 DEF Complete
    <3> QED BY <2>3, <3>1, <3>2, <3>3, <3>4
  <2> QED BY <2>2, <2>3
<1>16. EndInv'
  BY <1>1 DEF EndInv
<1> QED BY <1>12, <1>14, <1>15, <1>16 DEF LimitInv

\* Nothing was given at the start, and all the limit is left.
LEMMA LimitInit ==
  ASSUME ParquetInit
  PROVE  LimitInv
<1>1. /\ groups \in Files /\ wanted \in Wanted /\ rowLimit \in RowLimits
      /\ opened = 0 /\ rowsToOpen = rowLimit /\ rowsToGive = rowLimit /\ group = NoGroup
      /\ stage = "idle" /\ given = << >> /\ errors = 0
  BY DEF ParquetInit, Opening
<1>2. NumbersInv
  BY <1>1, ArgumentsAssumption DEF NumbersInv
<1>3. FailInv
  <2>1. Failures(given) = {}
    BY <1>1 DEF Failures
  <2> QED BY <1>1, <2>1, FS_EmptySet DEF FailInv
<1>4. CountInv
  <2>1. wanted # << >> => RowsUpTo(opened) = 0
    BY <1>1, RowListIs DEF RowsUpTo
  <2> QED BY <1>1, <1>2, <2>1 DEF CountInv, NumbersInv, Saturating
<1>5. TotalInv /\ EndInv
  BY <1>1 DEF TotalInv, EndInv
<1> QED BY <1>2, <1>3, <1>4, <1>5 DEF LimitInv

\* The inductive invariant with the limit.
ReaderLimitInv == ReaderInv /\ (Sound => LimitInv)

\* Every step of a reader keeps its counts.
LEMMA LimitNext ==
  ASSUME ReaderLimitInv, ParquetNext
  PROVE  ReaderLimitInv'
<1>1. InputsInv /\ ReaderInv /\ ReaderInv'
  BY ReaderNext DEF ReaderLimitInv, ReaderInv
<1>2. ASSUME Sound' PROVE LimitInv'
  <2>1. Sound /\ ~astray'
    BY <1>1, <1>2, SoundBefore
  <2>2. StageInv /\ GivenInv /\ GroupInv /\ LimitInv
    BY <2>1, Zenon DEF ReaderInv, ReaderLimitInv
  <2>3. CASE OpenGroup
    BY <1>1, <2>1, <2>2, <2>3, LimitOpenGroup
  <2>4. CASE OpenGroupFails
    BY <1>1, <2>2, <2>4, LimitOpenGroupFails
  <2>5. CASE EndFile
    BY <1>1, <2>2, <2>5, LimitEndFile
  <2>6. CASE StartChunk \/ TakeItem \/ ReadPage
    BY <1>1, <2>2, <2>6, LimitTakesItem
  <2>7. CASE PageFails
    BY <1>1, <2>2, <2>7, LimitPageFails
  <2>8. CASE ColumnEnds
    BY <1>1, <2>2, <2>8, ColumnsDoNotEnd
  <2>9. CASE FinishChunk
    BY <1>1, <2>2, <2>9, LimitFinishChunk
  <2> QED BY <2>3, <2>4, <2>5, <2>6, <2>7, <2>8, <2>9, Zenon DEF ParquetNext
<1> QED BY <1>1, <1>2, Zenon DEF ReaderLimitInv

\* So does a step of something else.
LEMMA LimitStutters ==
  ASSUME ReaderLimitInv, UNCHANGED pvars
  PROVE  ReaderLimitInv'
<1>1. /\ inputs' = inputs /\ readers' = readers /\ group' = group /\ arrays' = arrays /\ stage' = stage
      /\ given' = given /\ astray' = astray /\ errors' = errors
  BY DEF pvars
<1>2. /\ groups' = groups /\ wanted' = wanted /\ rowLimit' = rowLimit /\ opened' = opened
      /\ rowsToOpen' = rowsToOpen /\ rowsToGive' = rowsToGive
  BY <1>1 DEF inputs, readers
<1>3. Sound' => Sound
  BY <1>1, <1>2, Zenon DEF Sound, IsBlank, IsFiltered
<1>4. /\ RowsUpTo(opened)' = RowsUpTo(opened) /\ RowsOf(1)' = RowsOf(1) /\ FirstIsLargest' = FirstIsLargest
  BY <1>2 DEF RowsUpTo, RowsOf, FirstIsLargest
<1>5. LimitInv => NumbersInv' /\ FailInv' /\ CountInv'
  BY <1>1, <1>2, <1>4 DEF LimitInv, NumbersInv, FailInv, CountInv
<1>6. LimitInv => TotalInv' /\ EndInv'
  BY <1>1, <1>2, <1>4 DEF LimitInv, TotalInv, EndInv, Complete, Left
<1>7. ReaderInv'
  BY ReaderStutters DEF ReaderLimitInv
<1> QED BY <1>3, <1>5, <1>6, <1>7, Zenon DEF ReaderLimitInv, LimitInv

\* Under the invariant nothing is left out when the reader ends.
LEMMA LimitLeavesNothing ==
  ASSUME ReaderLimitInv
  PROVE  NothingLeftOut
<1> SUFFICES ASSUME Sound, wanted # << >>
             PROVE  /\ stage # "panicked"
                    /\ stage = "ended" /\ (rowLimit = Everything \/ (FirstIsLargest /\ errors = 0)) =>
                         \A g \in 1 .. Len(groups) :
                           \/ \E k \in 1 .. Len(given) : ~given[k].ok /\ given[k].group = g
                           \/ GivenOf(g, Len(given)) = Lower(RowsOf(g), Saturating(rowLimit, RowsBeforeGroup(g)))
                    /\ Cardinality({k \in 1 .. Len(given) : ~given[k].ok}) = errors
  BY Zenon DEF NothingLeftOut
<1>1. InputsInv /\ StageInv /\ GivenInv /\ LimitInv
  BY Zenon DEF ReaderLimitInv, ReaderInv
<1>2. stage # "panicked"
  BY <1>1 DEF StageInv
<1>3. Cardinality({k \in 1 .. Len(given) : ~given[k].ok}) = errors
  BY <1>1 DEF LimitInv, FailInv, Failures
<1>4. ASSUME stage = "ended", rowLimit = Everything \/ (FirstIsLargest /\ errors = 0),
             NEW g \in 1 .. Len(groups),
             ~ \E k \in 1 .. Len(given) : ~given[k].ok /\ given[k].group = g
      PROVE  GivenOf(g, Len(given)) = Lower(RowsOf(g), Saturating(rowLimit, RowsBeforeGroup(g)))
  <2>1. Complete /\ ~Erred(given, g)
    BY <1>4 DEF Complete, Erred
  <2>2. GivenOf(g, Len(given)) = Taken(given, g, Len(given))
    BY DEF GivenOf, Taken, Weights
  <2>3. Lower(RowsOf(g), Saturating(rowLimit, RowsBeforeGroup(g))) = Target(groups, wanted, rowLimit, g)
    BY <1>1, BeforeIs DEF Target
  <2>4. Chunked(given) /\ Len(given) \in 0 .. Len(given)
    <3>1. Chunked(given)
      BY <1>1 DEF GivenInv
    <3> QED BY <3>1, LenProperties DEF Chunked
  <2>5. Taken(given, g, Len(given)) \in Nat
    BY <2>4, WeightsAre
  <2>6. CASE g \in 1 .. opened
    <3>1. Taken(given, g, Len(given)) + Left(g) = Target(groups, wanted, rowLimit, g)
      BY <1>1, <2>1, <2>6 DEF LimitInv, TotalInv
    <3>2. Left(g) = 0
      BY <1>1, <1>4 DEF Left, LimitInv, EndInv
    <3> QED BY <2>2, <2>3, <2>5, <3>1, <3>2
  <2>7. CASE g > opened
    <3>1. Target(groups, wanted, rowLimit, g) = 0
      BY <1>1, <1>4, <2>1, <2>7 DEF LimitInv, EndInv
    <3>2. \A k \in 1 .. Len(given) : given[k].group # g
      <4>1. opened \in Nat /\ \A k \in 1 .. Len(given) : given[k].group \in 1 .. opened
        BY <1>1, FilesAre DEF GivenInv
      <4> QED BY <2>7, <4>1
    <3>3. Taken(given, g, Len(given)) = 0
      BY <2>4, <3>2, NoneTaken
    <3> QED BY <2>2, <2>3, <3>1, <3>3
  <2>8. g \in 1 .. opened \/ g > opened
    BY <1>1, FilesAre
  <2> QED BY <2>6, <2>7, <2>8
<1> QED BY <1>2, <1>3, <1>4

\* Whatever the file, the columns, the chunk size, the limit and the errors: every chunk
\* RowGroupDeserializer returns has the rows that follow those of the chunk before it, in
\* every column (deserialize/mod.rs, file.rs).
THEOREM ParquetChunksAreConsecutive == ParquetSpec => []ChunksAreConsecutive
<1>1. ParquetInit => ReaderInv
  BY ReaderInit
<1>2. ReaderInv /\ [ParquetNext]_pvars => ReaderInv'
  BY ReaderNext, ReaderStutters
<1>3. ReaderInv => ChunksAreConsecutive
  BY ReaderChunks
<1> QED BY <1>1, <1>2, <1>3, PTL DEF ParquetSpec

\* Whatever the file, the columns, the chunk size, the limit and the errors: next does not
\* panic, returns every error once, and when it ends has returned every row of the limit, but
\* for the row groups with errors; unless FileReader's count, which leaves out the first
\* row group, ends it too early (file.rs:118-156).
THEOREM ParquetLeavesNothingOut == ParquetSpec => []NothingLeftOut
<1>1. ParquetInit => ReaderLimitInv
  BY ReaderInit, LimitInit DEF ReaderLimitInv
<1>2. ReaderLimitInv /\ [ParquetNext]_pvars => ReaderLimitInv'
  BY LimitNext, LimitStutters
<1>3. ReaderLimitInv => NothingLeftOut
  BY LimitLeavesNothing
<1> QED BY <1>1, <1>2, <1>3, PTL DEF ParquetSpec
=============================================================================

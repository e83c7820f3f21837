----------------------------- MODULE Growables -----------------------------
(***************************************************************************)
(* The growables (src/src/array/growable): an array made of ranges of      *)
(* other arrays and of nulls, one after the other.  Filter, concatenate,   *)
(* if_then_else and merge_sort are made with them.                         *)
(***************************************************************************)
EXTENDS ArrayData

LOCAL INSTANCE SequencesExt

CONSTANT SomeSources  \* what a growable is made of: sequences of arrays of one kind

VARIABLES
  sources,   \* the arrays it is bound to
  given,     \* use_validity
  grown,     \* the array so far; a validity is all the bits pushed so far
  growing,   \* "yes", or how it ended: "boxed", "panicked", "overflowed"
  rows,      \* history: the rows asked for
  nulled     \* history: nulls were asked for

gvars == << sources, given, grown, growing, rows, nulled >>
-----------------------------------------------------------------------------
(* What an array is bound with *)

HasNulls(bits) == bits # NoValidity /\ \E i \in 1 .. Len(bits) : ~bits[i]

\* Each growable decides for itself whether arrays without a validity push bits.
UsesValidity(use, validities) == use \/ \E n \in 1 .. Len(validities) : HasNulls(validities[n])

Kind == sources[1].kind
Holding == Kind \in LeafKinds \cup {"dictionary"}    \* its validity is its leaf's
Children(k) == [n \in 1 .. Len(sources) |-> sources[n].leaves[k]]
LeafBits(leaves) == [n \in 1 .. Len(leaves) |-> leaves[n].validity]

UsesBits ==
  UsesValidity(given,
    IF Holding THEN LeafBits(Children(1)) ELSE [n \in 1 .. Len(sources) |-> sources[n].validity])

\* The children of a union, and the values of a dictionary, are not told.
ChildUses(k) ==
  UsesValidity(IF Holding /\ k = 1 THEN given
               ELSE Kind \in {"list", "fixed", "struct"} /\ UsesBits, LeafBits(Children(k)))

\* The bits an array pushes with a range of it.
BitsOf(bits, uses, from, n) ==
  IF bits # NoValidity THEN SubSeq(bits, from + 1, from + n)
  ELSE IF uses THEN Repeat(TRUE, n) ELSE << >>
-----------------------------------------------------------------------------
(* Leaves *)

MoreOffsets(last, offsets, from, n) ==
  [k \in 1 .. n |-> last + offsets[from + k + 1] - offsets[from + 1]]

LeafExtend(g, leaf, uses, from, n) ==
  LET values == CASE Lengthy(leaf) -> SubSeq(leaf.values, leaf.offsets[from + 1] + 1, leaf.offsets[from + n + 1])
                  [] leaf.kind = "bytes" -> SubSeq(leaf.values, from * Size + 1, (from + n) * Size)
                  [] OTHER -> SubSeq(leaf.values, from + 1, from + n)
  IN  [g EXCEPT !.values = @ \o values,
                !.offsets = IF Lengthy(g) THEN @ \o MoreOffsets(Last(@), leaf.offsets, from, n) ELSE @,
                !.validity = @ \o BitsOf(leaf.validity, uses, from, n)]

LeafNulls(g, n) ==
  [g EXCEPT !.values = CASE Lengthy(g) -> @
                         [] g.kind = "bytes" -> @ \o Repeat(0, n * Size)
                         [] OTHER -> @ \o Repeat(0, n),
            !.offsets = IF Lengthy(g) THEN @ \o Repeat(Last(@), n) ELSE @,
            !.validity = @ \o Repeat(FALSE, n)]

EmptyGrown(k) == [EmptyLeaf(k) EXCEPT !.validity = << >>]

\* Option<Bitmap>::from: bits without nulls are none, however few.
Boxed(bits) == IF HasNulls(bits) THEN bits ELSE NoValidity
BoxedLeaf(g) == [g EXCEPT !.validity = Boxed(@)]

\* concatenate_values, and what comes before each array's.
ValuesBefore(i) == FoldLeft(LAMBDA sum, leaf : sum + LeafLength(leaf), 0, SubSeq(Children(2), 1, i - 1))
AllValues ==
  FoldLeft(LAMBDA g, leaf : LeafExtend(g, leaf, ChildUses(2), 0, LeafLength(leaf)),
           EmptyGrown(Children(2)[1].kind), Children(2))
-----------------------------------------------------------------------------
GrowablesInit ==
  /\ sources \in SomeSources /\ given \in BOOLEAN
  /\ grown = [kind |-> Kind, types |-> << >>, validity |-> << >>,
              offsets |-> IF Kind = "list" THEN << 0 >> ELSE << >>,
              leaves |-> [k \in 1 .. Len(sources[1].leaves) |->
                            IF Kind = "dictionary" /\ k = 2 THEN AllValues
                            ELSE EmptyGrown(sources[1].leaves[k].kind)]]
  /\ growing = "yes" /\ rows = << >> /\ nulled = FALSE

Steps(from, n) == [m \in 1 .. n |-> from + m]
Piece(from, n) == [nulls |-> FALSE, from |-> from, n |-> n]
OneNull == [nulls |-> TRUE, from |-> 0, n |-> 1]

\* What a child is extended by, piece by piece: a list passes on the values of its
\* rows, the valid ones if it has nulls; a null of a struct is a null of every child;
\* a dense union passes on its rows, each to the child of its type.
Pieces(k, a, from, n) ==
  CASE Kind = "list" /\ ~HasNulls(a.validity) ->
         << Piece(a.offsets[from + 1], a.offsets[from + n + 1] - a.offsets[from + 1]) >>
    [] Kind = "list" /\ HasNulls(a.validity) ->
         LET valid == SelectSeq(Steps(from, n), LAMBDA j : a.validity[j])
         IN  [m \in DOMAIN valid |-> Piece(a.offsets[valid[m]], a.offsets[valid[m] + 1] - a.offsets[valid[m]])]
    [] Kind = "struct" /\ HasNulls(a.validity) ->
         [m \in 1 .. n |-> IF a.validity[from + m] THEN Piece(from + m - 1, 1) ELSE OneNull]
    [] Kind = "fixed" -> << Piece(from * Size, n * Size) >>
    [] Kind = "dense" ->
         LET mine == SelectSeq(Steps(from, n), LAMBDA j : a.types[j] + 1 = k)
         IN  [m \in DOMAIN mine |-> Piece(a.offsets[mine[m]], 1)]
    [] Kind = "dictionary" /\ k = 2 -> << >>
    [] OTHER -> << Piece(from, n) >>

ChildExtend(k, i, from, n) ==
  FoldLeft(LAMBDA g, p : IF p.nulls THEN LeafNulls(g, p.n)
                         ELSE LeafExtend(g, Children(k)[i], ChildUses(k), p.from, p.n),
           grown.leaves[k], Pieces(k, sources[i], from, n))

\* A bug: the keys are not moved to where the array's values are.
KeysAsTheyAre(before, leaf, old) == leaf

\* The keys of a dictionary, by the values of the arrays before.
MovedKeys(before, leaf, old) ==
  [leaf EXCEPT !.values = [j \in DOMAIN @ |-> IF j > old THEN before + @[j] ELSE @[j]]]

\* The offsets of a list; those of a dense union are taken as they are.
OffsetsExtend(a, from, n) ==
  LET length(j) == IF Valid(a.validity, j) THEN a.offsets[j + 1] - a.offsets[j] ELSE 0
      upTo(m) == FoldLeft(LAMBDA sum, j : sum + length(j), Last(grown.offsets), Steps(from, m))
  IN  CASE Kind = "list" -> [m \in 1 .. n |-> upTo(m)]
        [] Kind = "dense" -> SubSeq(a.offsets, from + 1, from + n)
        [] OTHER -> << >>

Extended(i, from, n) ==
  LET a == sources[i] IN
  [grown EXCEPT
    !.types = IF Kind \in {"dense", "sparse"} THEN @ \o SubSeq(a.types, from + 1, from + n) ELSE @,
    !.offsets = @ \o OffsetsExtend(a, from, n),
    !.validity = IF Kind \in {"list", "fixed", "struct"} THEN @ \o BitsOf(a.validity, UsesBits, from, n) ELSE @,
    !.leaves = [k \in DOMAIN @ |->
      IF Kind = "dictionary" /\ k = 1
        THEN MovedKeys(ValuesBefore(i), ChildExtend(1, i, from, n), Len(@[1].values))
        ELSE ChildExtend(k, i, from, n)]]

\* extend
Extend(i, from, n) ==
  /\ growing = "yes" /\ Len(rows) + n <= MaxLength
  /\ from + n <= ArrayLength(sources[i])
  /\ LET next == Extended(i, from, n)
         os == next.offsets \o FoldLeft(LAMBDA all, leaf : all \o leaf.offsets, << >>, next.leaves)
     IN  CASE Kind = "dictionary" /\ (\E j \in DOMAIN next.leaves[1].values : next.leaves[1].values[j] > MaxKey) ->
                /\ growing' = "panicked" /\ UNCHANGED << grown, rows >>
           [] \E j \in DOMAIN os : os[j] > MaxOffset ->
                /\ growing' = "overflowed" /\ UNCHANGED << grown, rows >>
           [] OTHER ->
                /\ grown' = next /\ UNCHANGED growing
                /\ rows' = rows \o SubSeq(Rows(sources[i]), from + 1, from + n)
  /\ UNCHANGED << sources, given, nulled >>

WithLeaf(g) == [grown EXCEPT !.leaves[1] = g]

\* extend_validity; a union has none.
ExtendValidity(n) ==
  /\ growing = "yes" /\ Len(rows) + n <= MaxLength
  /\ grown' = CASE Holding -> WithLeaf(LeafNulls(grown.leaves[1], n))
                [] Kind = "list" -> [grown EXCEPT !.offsets = @ \o Repeat(Last(@), n), !.validity = @ \o Repeat(FALSE, n)]
                [] Kind = "fixed" -> [WithLeaf(LeafNulls(grown.leaves[1], n * Size)) EXCEPT !.validity = @ \o Repeat(FALSE, n)]
                [] Kind = "struct" -> [grown EXCEPT !.leaves = [k \in 1 .. 2 |-> LeafNulls(@[k], n)],
                                                    !.validity = @ \o Repeat(FALSE, n)]
                [] OTHER -> grown
  /\ rows' = rows \o Repeat(Null, n) /\ nulled' = TRUE
  /\ UNCHANGED << sources, given, growing >>

Result(g) ==
  [g EXCEPT !.validity = Boxed(@), !.leaves = [k \in DOMAIN @ |-> BoxedLeaf(@[k])]]

\* as_box; a debug build looks at the keys of a dictionary.
AsBox(debug) ==
  /\ growing = "yes"
  /\ growing' = IF /\ Accepted(Result(grown))
                   /\ Kind = "dictionary" /\ debug => KeysHaveValues(grown)
                  THEN "boxed" ELSE "panicked"
  /\ grown' = Result(grown)
  /\ UNCHANGED << sources, given, rows, nulled >>

GrowablesNext ==
  \/ \E i \in 1 .. Len(sources), from \in 0 .. MaxLength, n \in 0 .. MaxLength : Extend(i, from, n)
  \/ \E n \in 1 .. 2 : ExtendValidity(n)
  \/ \E debug \in BOOLEAN : AsBox(debug)

GrowablesSpec == GrowablesInit /\ [][GrowablesNext]_gvars
-----------------------------------------------------------------------------
\* Nulls need a growable that was made for them, or arrays that have nulls.
Foreseen == nulled => UsesBits

\* As long as nulls were foreseen, a growable has a bit for each of its rows, or no
\* row of it is null (the bits are then dropped); its offsets never decrease and stay
\* with its values; each key has a value.
GrowablesInv ==
  /\ growing \in {"yes", "boxed", "panicked", "overflowed"}
  /\ growing = "yes" /\ Foreseen =>
       /\ \A k \in DOMAIN grown.leaves :
            LET g == grown.leaves[k] IN
            /\ Consistent(BoxedLeaf(g))
            /\ Lengthy(g) => Monotone(g.offsets) /\ Last(g.offsets) = Len(g.values)
       /\ Kind = "list" => Monotone(grown.offsets) /\ Last(grown.offsets) = LeafLength(grown.leaves[1])
       /\ Kind = "dictionary" =>
            \A j \in DOMAIN grown.leaves[1].values :
              LeafItems(BoxedLeaf(grown.leaves[1]))[j] # Null => grown.leaves[1].values[j] < LeafLength(grown.leaves[2])
       /\ Kind \notin {"dense", "sparse"} => ArrayLength(grown) = Len(rows)

\* A growable is an array "extended from slices of other pre-existing" arrays
\* (growable/mod.rs:33): whatever their validities, offsets and dictionaries are, its
\* rows are those asked for, and as_box does not panic.  Not so for a dense union,
\* whose offsets are kept, nor for nulls in a union.
GrownIsConcatenation ==
  Foreseen /\ Kind # "dense" /\ ~(Kind = "sparse" /\ nulled) =>
    /\ growing = "boxed" => Rows(grown) = rows
    /\ growing = "panicked" => Kind = "dictionary"
=============================================================================

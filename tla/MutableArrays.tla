--------------------------- MODULE MutableArrays ---------------------------
(***************************************************************************)
(* The arrays one builds item by item (src/src/array/*/mutable.rs).  Each  *)
(* keeps values, offsets and a validity, which is created when the first   *)
(* null comes; each is "the Arrow's equivalent to Vec<Option<T>>".  A leaf *)
(* is an array without children; a program builds a leaf, or an array      *)
(* whose children are leaves.                                              *)
(***************************************************************************)
EXTENDS ArrayData

LOCAL INSTANCE SequencesExt

CONSTANTS
  Items,       \* items of primitive and boolean arrays, 0 their default
  Strings      \* items of arrays of bytes: sequences

ASSUME MutableArraysAssumption ==
  /\ 0 \in Items /\ Null \notin Items /\ Null \notin Strings

VARIABLES
  kind,       \* of the array: a leaf's, or "list", "fixed", "struct", "dictionary"
  leaves,     \* the array itself if it is a leaf, else its children (of a dictionary, keys and values)
  offsets, validity,  \* of an array with children
  known,      \* of a dictionary: its map, values in the order of their keys
  building,   \* "yes", or how it ended: "frozen", "panicked", "overflowed"
  items,      \* history: what the array is a vector of
  popped,     \* history: what pop returned, and what it should have
  torn        \* history: a call left part of an item, or more than one, behind

mvars == << kind, leaves, offsets, validity, known, building, items, popped, torn >>
-----------------------------------------------------------------------------
(* Leaves *)

\* A validity after one more item, the array then having `length` items.
Marked(bits, length, valid) ==
  IF bits # NoValidity THEN Append(bits, valid)
  ELSE IF valid THEN NoValidity ELSE Append(Repeat(TRUE, length - 1), FALSE)

\* try_push refuses an item of another size, or one that leaves no offset for it.
Refuses(leaf, x) ==
  /\ x # Null
  /\ \/ leaf.kind = "bytes" /\ Len(x) # Size
     \/ Lengthy(leaf) /\ Len(leaf.values) + Len(x) > MaxOffset

\* The bytes of a string are there before the offset is looked at.
AfterRefusal(leaf, x) == IF leaf.kind = "utf8" THEN [leaf EXCEPT !.values = @ \o x] ELSE leaf

Stored(leaf, x) ==
  CASE Lengthy(leaf) ->
         LET values == IF x = Null THEN leaf.values ELSE leaf.values \o x
         IN  [leaf EXCEPT !.values = values,
                          !.offsets = Append(@, IF x = Null THEN Last(@) ELSE Len(values))]
    [] leaf.kind = "bytes" ->
         [leaf EXCEPT !.values = @ \o IF x = Null THEN Repeat(0, Size) ELSE x]
    [] OTHER -> [leaf EXCEPT !.values = Append(@, IF x = Null THEN 0 ELSE x)]

WithItem(leaf, x) ==
  LET stored == Stored(leaf, x)
  IN  [stored EXCEPT !.validity = Marked(@, LeafLength(stored), x # Null)]

\* The length of the values after n of the items.
Reached(leaf, xs, n) ==
  FoldLeft(LAMBDA sum, x : sum + IF x = Null THEN 0 ELSE Len(x), Len(leaf.values), SubSeq(xs, 1, n))

Overflows(leaf, xs) == Lengthy(leaf) /\ Reached(leaf, xs, Len(xs)) > MaxOffset

WithItems(leaf, xs) == FoldLeft(WithItem, leaf, xs)

\* The values of a leaf before its last item.
Before(leaf) ==
  CASE Lengthy(leaf) -> leaf.offsets[Len(leaf.offsets) - 1]
    [] leaf.kind = "bytes" -> Len(leaf.values) - Size
    [] OTHER -> Len(leaf.values) - 1

\* What pop returns: all the values from there on, as it takes them off.
LastItem(leaf) ==
  LET value == SubSeq(leaf.values, Before(leaf) + 1, Len(leaf.values))
  IN  IF ~Valid(leaf.validity, LeafLength(leaf)) THEN Null
      ELSE IF leaf.kind \in {"primitive", "boolean"} THEN value[1] ELSE value

\* A bug: the validity keeps the bit of the item.
WithoutLastValue(leaf) ==
  [leaf EXCEPT !.values = SubSeq(@, 1, Before(leaf)),
               !.offsets = IF Lengthy(leaf) THEN Front(@) ELSE @]

WithoutLast(leaf) ==
  [leaf EXCEPT !.values = SubSeq(@, 1, Before(leaf)),
               !.offsets = IF Lengthy(leaf) THEN Front(@) ELSE @,
               !.validity = IF @ = NoValidity THEN @ ELSE Front(@)]

\* A bug: the items there already get no bits.
TrustedBitsOfNew(leaf, xs) ==
  (IF leaf.validity = NoValidity THEN << >> ELSE leaf.validity) \o [n \in 1 .. Len(xs) |-> xs[n] # Null]

\* The validity of extend_trusted_len; each array decides on its own whether to
\* keep one without nulls.
TrustedBits(leaf, xs) ==
  LET bits == (IF leaf.validity = NoValidity THEN Repeat(TRUE, LeafLength(leaf)) ELSE leaf.validity)
                \o [n \in 1 .. Len(xs) |-> xs[n] # Null]
      allSet == \A i \in 1 .. Len(bits) : bits[i]
  IN  IF allSet /\ (leaf.kind = "binary" \/ (leaf.kind = "boolean" /\ leaf.validity = NoValidity))
        THEN NoValidity ELSE bits
-----------------------------------------------------------------------------
(* Arrays with children *)

IsLeaf == kind \in LeafKinds
Leaf == leaves[1]

Whole ==
  [kind |-> kind, leaves |-> leaves, offsets |-> offsets, validity |-> validity]

Length == ArrayLength(Whole)

LeavesOf(k) ==
  CASE k \in LeafKinds -> << EmptyLeaf(k) >>
    [] k = "list" -> << EmptyLeaf("utf8") >>
    [] k = "fixed" -> << EmptyLeaf("primitive") >>
    [] OTHER -> << EmptyLeaf("primitive"), EmptyLeaf("utf8") >>

MutableArraysInit ==
  /\ kind \in LeafKinds \cup {"list", "fixed", "struct", "dictionary"}
  /\ leaves = LeavesOf(kind)
  /\ offsets = << 0 >> /\ validity = NoValidity /\ known = << >>
  /\ building = "yes" /\ items = << >> /\ popped = << >> /\ torn = FALSE

\* A program may go on with a torn array, whose items are anyone's guess; it is
\* only followed to where it is frozen.
Calling(k, n) ==
  /\ kind \in k /\ building = "yes" /\ ~torn
  /\ Length + n <= MaxLength
  /\ UNCHANGED kind

Keep == UNCHANGED << offsets, validity, known >>

OptionsOf(leaf) ==
  {Null} \cup IF leaf.kind \in {"primitive", "boolean"} THEN Items ELSE Strings

FewOf(S) == UNION {[1 .. n -> S] : n \in 0 .. 2}
-----------------------------------------------------------------------------
(* Calls on a leaf *)

PushItem(x) ==
  /\ Calling(LeafKinds, 1)
  /\ IF Refuses(Leaf, x)
       THEN /\ leaves' = << AfterRefusal(Leaf, x) >>
            /\ torn' = (AfterRefusal(Leaf, x) # Leaf)
            /\ UNCHANGED items
       ELSE /\ leaves' = << WithItem(Leaf, x) >>
            /\ items' = Append(items, x)
            /\ UNCHANGED torn
  /\ UNCHANGED << building, popped >> /\ Keep

PopItem ==
  /\ Calling(LeafKinds, 0) /\ Length > 0
  /\ popped' = << LastItem(Leaf), Last(items) >>
  /\ leaves' = << WithoutLast(Leaf) >>
  /\ items' = Front(items)
  /\ UNCHANGED << building, torn >> /\ Keep

\* Offsets that overflow panic in a debug build and wrap in a release build,
\* some of the items written; the array is followed no further.
LeafExtended(xs, leaf) ==
  IF Overflows(Leaf, xs)
    THEN /\ building' = "overflowed"
         /\ UNCHANGED << leaves, items, torn >>
    ELSE /\ leaves' = << leaf >>
         /\ items' = items \o xs
         /\ UNCHANGED << building, torn >>

\* extend_trusted_len, of options.
ExtendTrusted(xs) ==
  /\ Calling(LeafKinds \ {"bytes"}, Len(xs))
  /\ LeafExtended(xs, [WithItems(Leaf, xs) EXCEPT !.validity = TrustedBits(Leaf, xs)])
  /\ UNCHANGED popped /\ Keep

\* extend_trusted_len_values, extend_values, extend_from_slice: no validity is made.
ExtendValues(xs) ==
  /\ Calling(LeafKinds \ {"bytes"}, Len(xs))
  /\ LeafExtended(xs, WithItems(Leaf, xs))
  /\ UNCHANGED popped /\ Keep

\* extend_constant.
ExtendSame(n, x) ==
  /\ Calling({"primitive"}, n)
  /\ LeafExtended(Repeat(x, n),
       [WithItems(Leaf, Repeat(x, n)) EXCEPT !.validity =
          IF x = Null THEN TrustedBits(Leaf, Repeat(x, n)) ELSE @])
  /\ UNCHANGED popped /\ Keep

SetItem(i, x) ==
  /\ Calling({"primitive", "boolean"}, 0) /\ i <= Length
  /\ LET bits == IF Leaf.validity = NoValidity THEN Repeat(TRUE, Length) ELSE Leaf.validity
     IN  leaves' = << [Leaf EXCEPT
           !.values[i] = IF x = Null THEN 0 ELSE x,
           !.validity = IF @ = NoValidity /\ x # Null THEN @ ELSE [bits EXCEPT ![i] = x # Null]] >>
  /\ items' = [items EXCEPT ![i] = x]
  /\ UNCHANGED << building, popped, torn >> /\ Keep
-----------------------------------------------------------------------------
(* Calls on an array with children *)

\* What an array with children has for an item more, and the history of it.
Took(x, length) ==
  /\ validity' = Marked(validity, length, x # Null)
  /\ items' = Append(items, x)
  /\ UNCHANGED << building, popped, torn >>

\* The call returns an error; `rest` is what it leaves in the children.
Refused(rest) ==
  /\ leaves' = rest
  /\ torn' = (rest # leaves)
  /\ UNCHANGED << building, items, popped >> /\ Keep

\* MutableListArray::try_push: the strings are pushed one by one, then the offset.
PushStrings(xs) ==
  /\ Calling({"list"}, 1)
  /\ LET child == WithItems(Leaf, xs)
     IN  IF Overflows(Leaf, xs)
           THEN \E n \in 1 .. Len(xs) :
                  /\ Reached(Leaf, xs, n - 1) <= MaxOffset /\ Reached(Leaf, xs, n) > MaxOffset
                  /\ Refused(<< AfterRefusal(WithItems(Leaf, SubSeq(xs, 1, n - 1)), xs[n]) >>)
         ELSE IF LeafLength(child) > MaxOffset THEN Refused(<< child >>)
         ELSE /\ leaves' = << child >>
              /\ offsets' = Append(offsets, LeafLength(child))
              /\ Took(xs, Len(offsets)) /\ UNCHANGED known

\* The items go into the child, as many as they are.
PushFixed(xs) ==
  /\ Calling({"fixed"}, 1)
  /\ LET child == WithItems(Leaf, xs)
     IN  IF LeafLength(child) % Size # 0 THEN Refused(<< child >>)
         ELSE /\ leaves' = << child >>
              /\ validity' = Marked(validity, LeafLength(child) \div Size, TRUE)
              /\ items' = Append(items, xs)
              /\ torn' = (Len(xs) # Size)
              /\ UNCHANGED << offsets, known, building, popped >>

\* push_null of the arrays with children.
PushNull ==
  /\ Calling({"list", "fixed", "struct"}, 1)
  /\ leaves' = CASE kind = "list" -> leaves
                 [] kind = "fixed" -> << WithItems(Leaf, Repeat(Null, Size)) >>
                 [] kind = "struct" -> << WithItem(leaves[1], Null), WithItem(leaves[2], Null) >>
  /\ offsets' = IF kind = "list" THEN Append(offsets, Last(offsets)) ELSE offsets
  /\ Took(Null, IF kind = "list" THEN Len(offsets) ELSE Length + 1) /\ UNCHANGED known

\* MutableStructArray: the caller pushes to every child, then calls push.
PushFields(x, s, valid) ==
  /\ Calling({"struct"}, 1) /\ ~Refuses(leaves[2], s)
  /\ leaves' = << WithItem(leaves[1], x), WithItem(leaves[2], s) >>
  /\ Took(IF valid THEN << x, s >> ELSE Null, Length + 1)
  /\ UNCHANGED << offsets, known >>

\* MutableDictionaryArray::try_push: the key is given out before the value is pushed.
PushValue(s) ==
  /\ Calling({"dictionary"}, 1)
  /\ LET isKnown == \E n \in 1 .. Len(known) : known[n] = s
         key == IF isKnown THEN CHOOSE n \in 1 .. Len(known) : known[n] = s ELSE Len(known) + 1
         keys == WithItem(leaves[1], IF s = Null THEN Null ELSE key - 1)
     IN  IF s = Null \/ isKnown
           THEN /\ leaves' = << keys, leaves[2] >>
                /\ items' = Append(items, s)
                /\ UNCHANGED << known, torn >>
         ELSE IF key - 1 > MaxKey THEN UNCHANGED << leaves, known, items, torn >>
         ELSE /\ known' = Append(known, s)
              /\ IF Refuses(leaves[2], s)
                   THEN /\ leaves' = << keys, AfterRefusal(leaves[2], s) >>
                        /\ torn' = TRUE /\ UNCHANGED items
                   ELSE /\ leaves' = << keys, WithItem(leaves[2], s) >>
                        /\ items' = Append(items, s) /\ UNCHANGED torn
  /\ UNCHANGED << offsets, validity, building, popped >>
-----------------------------------------------------------------------------
(* The array built *)

\* From, or as_box, which alone looks at the keys of a dictionary.  Some leave out a validity without nulls.
FreezeArray(boxed) ==
  /\ building = "yes"
  /\ building' = IF Accepted(Whole) /\ (kind = "dictionary" /\ boxed => KeysHaveValues(Whole)) THEN "frozen" ELSE "panicked"
  /\ UNCHANGED << kind, leaves, offsets, validity, known, items, popped, torn >>

MutableArraysNext ==
  \/ \E x \in OptionsOf(Leaf) : PushItem(x) \/ \E i \in 1 .. Length : SetItem(i, x)
  \/ PopItem
  \/ \E xs \in FewOf(OptionsOf(Leaf)) :
       ExtendTrusted(xs) \/ PushStrings(xs) \/ PushFixed(xs)
  \/ \E xs \in FewOf(OptionsOf(Leaf) \ {Null}) : ExtendValues(xs)
  \/ \E n \in 0 .. 2, x \in OptionsOf(Leaf) : ExtendSame(n, x)
  \/ PushNull
  \/ \E x \in Items \cup {Null}, s \in Strings \cup {Null}, valid \in BOOLEAN : PushFields(x, s, valid)
  \/ \E s \in Strings \cup {Null} : PushValue(s)
  \/ \E boxed \in BOOLEAN : FreezeArray(boxed)

MutableArraysSpec == MutableArraysInit /\ [][MutableArraysNext]_mvars
-----------------------------------------------------------------------------
\* Every validity has a bit an item; offsets start at 0, never decrease, fit their
\* type, and end where the values do; children that make up one row are as long as
\* each other; no dictionary has more keys than the map has given out, nor one key
\* for two values.  The immutable arrays are made without a check of some of it
\* ("MutableListArray has monotonically increasing offsets", list/mutable.rs:54).
MutableArraysInv ==
  /\ building \in {"yes", "frozen", "panicked", "overflowed"} /\ torn \in BOOLEAN
  /\ ~torn =>
       /\ \A n \in 1 .. Len(leaves) :
            /\ Consistent(leaves[n])
            /\ Lengthy(leaves[n]) =>
                 /\ leaves[n].offsets[1] = 0 /\ Monotone(leaves[n].offsets)
                 /\ Last(leaves[n].offsets) = Len(leaves[n].values)
                 /\ Last(leaves[n].offsets) <= MaxOffset
       /\ validity # NoValidity => Len(validity) = Length
       /\ kind = "list" => offsets[1] = 0 /\ Monotone(offsets) /\ Last(offsets) = LeafLength(Leaf)
       /\ kind = "struct" => LeafLength(leaves[1]) = LeafLength(leaves[2])
       /\ kind = "dictionary" =>
            /\ known = LeafItems(leaves[2]) /\ Len(known) <= MaxKey + 1
            /\ \A i, j \in 1 .. Len(known) : known[i] = known[j] => i = j

\* "The Arrow's equivalent to `Vec<Option<T>>`" (binary/mutable.rs:14): whatever mix of calls
\* built it, nulls or none so far, an array holds the items it was given, and pop
\* returns the one given last; freezing it does not panic, except that as_box refuses a
\* dictionary of nulls only.  All that unless a call failed half-way.
ArrayIsVector ==
  ~torn =>
    /\ building # "overflowed" =>
         Rows(Whole) = items /\ (popped # << >> => popped[1] = popped[2])
    /\ building = "panicked" => kind = "dictionary" /\ known = << >> /\ items # << >>
=============================================================================

------------------------------- MODULE MergeSort -------------------------------
(***************************************************************************)
(* Merging sorted arrays (src/src/compute/merge_sort/mod.rs).  The merges  *)
(* of slices() halve the arrays, and each goes through an iterator that    *)
(* hands out runs of rows, << array, start, len >>: one side's run ends    *)
(* where the other side's next row is smaller, or with its slice.          *)
(***************************************************************************)
EXTENDS Integers, Sequences, FiniteSets, TLC

LOCAL INSTANCE SequencesExt
LOCAL INSTANCE FiniteSetsExt

CONSTANTS
  NoPile,   \* there is no slice on a side
  Null      \* a null row

VARIABLES
  pairs,    \* the columns: [arrays |-> their rows, array by array, options]
  todo,     \* the merges left: << from, middle, to >>
  spans,    \* the slices of the arrays from .. to, where known
  merging,  \* the iterator of the merge at work, or none
  taken     \* the rows taken together in the end, column by column

mergevars == << pairs, todo, spans, merging, taken >>

Arrays == DOMAIN pairs[1].arrays
LengthOf(n) == Len(pairs[1].arrays[n])
-----------------------------------------------------------------------------
(* build_comparator *)

\* None if the array is shorter: it is taken for valid, as if an empty array had no validity.
RowAt(c, a, i) == IF i \in DOMAIN pairs[c].arrays[a] THEN pairs[c].arrays[a][i] ELSE NoPile

\* A row of an array and one of a later array, in one column; descending turns nulls around.
CompareIn(c, a, i, b, j) ==
  LET x == RowAt(c, a, i)
      y == RowAt(c, b, j)
      options == pairs[c].options
      nulls == IF options.nullsFirst THEN "less" ELSE "greater"
      ascending == CASE x = Null /\ y = Null -> "equal"
                     [] x = Null -> nulls
                     [] y = Null -> IF nulls = "less" THEN "greater" ELSE "less"
                     [] NoPile \in {x, y} -> "panicked"
                     [] OTHER -> IF x < y THEN "less" ELSE IF y < x THEN "greater" ELSE "equal"
  IN  IF ~options.descending \/ ascending \in {"equal", "panicked"} THEN ascending
      ELSE IF ascending = "less" THEN "greater" ELSE "less"

\* By the first column on which they differ.  Rows are counted from 0.
Compare(a, i, b, j) ==
  LET of == [c \in DOMAIN pairs |-> CompareIn(c, a, i + 1, b, j + 1)]
  IN  IF \A c \in DOMAIN pairs : of[c] = "equal" THEN "equal"
      ELSE of[CHOOSE c \in DOMAIN pairs : of[c] # "equal" /\ \A d \in 1 .. c - 1 : of[d] = "equal"]
-----------------------------------------------------------------------------
(* The iterator: left and right are piles [slice, at], lhs and rhs what follows them; *)
(* while next() compares, leftIndex and rightIndex are its own                         *)

NewMerge(lhs, rhs) ==
  [lhs |-> lhs, rhs |-> rhs, left |-> NoPile, right |-> NoPile, leftIndex |-> 0, rightIndex |-> 0,
   started |-> FALSE, start |-> 0, len |-> 0, onLeft |-> TRUE, given |-> << >>, state |-> "idle"]

SliceEnd(s) == s[2] + s[3]
PileOf(slice) == [slice |-> slice, at |-> slice[2]]

\* The next slice of a side; its start becomes that of the run, whichever side that is on.
NextLeft(m) ==
  IF m.lhs = << >> THEN [m EXCEPT !.left = NoPile]
  ELSE [m EXCEPT !.left = PileOf(Head(m.lhs)), !.lhs = Tail(@), !.start = Head(m.lhs)[2]]

NextRight(m) ==
  IF m.rhs = << >> THEN [m EXCEPT !.right = NoPile]
  ELSE [m EXCEPT !.right = PileOf(Head(m.rhs)), !.rhs = Tail(@), !.start = Head(m.rhs)[2]]

Give(m, array, start, len) == [m EXCEPT !.given = Append(@, << array, start, len >>), !.state = "idle"]

\* What is left of a pile when the other side has ended.
GiveRest(m, pile) == Give(m, pile.slice[1], pile.at, SliceEnd(pile.slice) - pile.at)

ComparePiles(m) == Compare(m.left.slice[1], m.leftIndex, m.right.slice[1], m.rightIndex)

\* The first comparison decides on which side the first run is.
Begin(m) ==
  LET at == [m EXCEPT !.leftIndex = m.left.at, !.rightIndex = m.right.at, !.state = "comparing"]
      order == ComparePiles(at)
      onLeft == order # "greater"
  IN  CASE m.started -> at
        [] order = "panicked" -> [m EXCEPT !.state = "panicked"]
        [] OTHER -> [at EXCEPT !.started = TRUE, !.onLeft = onLeft, !.start = IF onLeft THEN m.left.at ELSE m.right.at]

\* A call of next(): it loads both sides until it has once compared them.
CallNext(m) ==
  LET n == IF m.started THEN m ELSE NextRight(NextLeft(m))
  IN  CASE n.left = NoPile /\ n.right = NoPile -> [n EXCEPT !.state = "ended"]
        [] n.right = NoPile -> GiveRest(NextLeft(n), n.left)
        [] n.left = NoPile -> GiveRest(NextRight(n), n.right)
        [] OTHER -> Begin(n)

LeftEnded(m) == m.leftIndex = SliceEnd(m.left.slice)
RightEnded(m) == m.rightIndex = SliceEnd(m.right.slice)

\* A bug: the length of a run that ends with its slice is kept for the next one.
EndOfSliceKept(m) ==
  IF LeftEnded(m) THEN Give(NextLeft(m), m.left.slice[1], m.start, m.len)
  ELSE Give(NextRight(m), m.right.slice[1], m.start, m.len)

\* The run ends with its slice; the other side stays as it was when it was saved.
EndOfSlice(m) ==
  LET n == [m EXCEPT !.len = 0]
  IN  IF LeftEnded(m) THEN Give(NextLeft(n), m.left.slice[1], m.start, m.len)
      ELSE Give(NextRight(n), m.right.slice[1], m.start, m.len)

\* A side is stayed on as long as its row is not after the other's.
Stays(m) == ComparePiles(m) \in {"equal", IF m.onLeft THEN "less" ELSE "greater"}

TakeRow(m) ==
  IF m.onLeft THEN [m EXCEPT !.len = @ + 1, !.leftIndex = @ + 1]
  ELSE [m EXCEPT !.len = @ + 1, !.rightIndex = @ + 1]

\* A run of no rows is not handed out.
SwitchSide(m) ==
  LET n == [m EXCEPT !.onLeft = ~@, !.len = 0, !.start = IF m.onLeft THEN m.rightIndex ELSE m.leftIndex]
      array == (IF m.onLeft THEN m.left ELSE m.right).slice[1]
  IN  IF m.len = 0 THEN n
      ELSE Give([n EXCEPT !.left.at = m.leftIndex, !.right.at = m.rightIndex], array, m.start, m.len)

\* One turn of the loop of next().
Turned(m) ==
  CASE LeftEnded(m) \/ RightEnded(m) -> EndOfSlice(m)
    [] Stays(m) -> TakeRow(m)
    [] OTHER -> SwitchSide(m)
-----------------------------------------------------------------------------
(* slices, merge_sort, take_arrays *)

\* The arrays are halved as long as there are two; the second half may be larger.
Plan(n) ==
  LET merges[from \in 0 .. n, to \in 0 .. n] ==
        LET middle == from + (to - from) \div 2
        IN  IF to - from <= 1 THEN << >>
            ELSE merges[from, middle] \o merges[middle, to] \o << << from, middle, to >> >>
  IN  merges[0, n]

\* The slice of array n before it is merged.
WholeOf(n) == << << n, 0, LengthOf(n) >> >>

\* The pairs are the caller's, and so are the spans of the single arrays if it calls
\* merge_sort_slices.  spans[m, n] are the slices of the arrays m + 1 .. n.
MergeInit ==
  /\ todo = Plan(Cardinality(Arrays))
  /\ merging = NoPile /\ taken = << >>

StartMerge ==
  /\ merging = NoPile /\ todo # << >>
  /\ LET merge == Head(todo)
     IN  merging' = NewMerge(spans[<< merge[1], merge[2] >>], spans[<< merge[2], merge[3] >>])
  /\ UNCHANGED << pairs, todo, spans, taken >>

StepMerge ==
  /\ merging # NoPile
  /\ \/ merging.state = "idle" /\ merging' = CallNext(merging)
     \/ merging.state = "comparing" /\ merging' = Turned(merging)
  /\ UNCHANGED << pairs, todo, spans, taken >>

EndMerge ==
  /\ merging # NoPile /\ merging.state = "ended"
  /\ spans' = (<< Head(todo)[1], Head(todo)[3] >> :> merging.given) @@ spans
  /\ todo' = Tail(todo) /\ merging' = NoPile
  /\ UNCHANGED << pairs, taken >>

Rows(c, slice) == SubSeq(pairs[c].arrays[slice[1]], slice[2] + 1, slice[2] + slice[3])
RowsOf(c, slices) == FlattenSeq([k \in DOMAIN slices |-> Rows(c, slices[k])])

\* As many rows of the slices as the limit says; the last slice is cut.
ToVec(slices, limit) ==
  LET upTo[k \in 0 .. Len(slices)] == IF k = 0 THEN 0 ELSE upTo[k - 1] + slices[k][3]
      last == {k \in DOMAIN slices : upTo[k] >= limit}
  IN  IF last = {} THEN slices
      ELSE [k \in 1 .. Min(last) |->
              IF k < Min(last) THEN slices[k] ELSE << slices[k][1], slices[k][2], limit - upTo[k - 1] >>]

Total == FoldLeft(LAMBDA sum, rows : sum + Len(rows), 0, pairs[1].arrays)

\* No limit, or one beyond the rows, takes the slices as they are.
TakeArrays(c, slices, limit) ==
  RowsOf(c, IF limit >= Total THEN slices ELSE ToVec(slices, limit))

Final == spans[<< 0, Cardinality(Arrays) >>]

\* The rows in the end, of the slices or of those that to_vec has collected.
TakeMerged ==
  /\ todo = << >> /\ merging = NoPile /\ taken = << >>
  /\ \E limit \in 0 .. Total + 1, collected \in BOOLEAN :
       taken' = << limit, [c \in DOMAIN pairs |->
                     TakeArrays(c, IF collected THEN ToVec(Final, limit) ELSE Final, limit)] >>
  /\ UNCHANGED << pairs, todo, spans, merging >>

MergeNext == StartMerge \/ StepMerge \/ EndMerge \/ TakeMerged
-----------------------------------------------------------------------------
\* Before, as sort orders rows: nulls where nulls_first says, whatever the direction.
SortsBefore(c, x, y) ==
  CASE x = Null /\ y = Null -> FALSE
    [] x = Null -> pairs[c].options.nullsFirst
    [] y = Null -> ~pairs[c].options.nullsFirst
    [] OTHER -> IF pairs[c].options.descending THEN y < x ELSE x < y

\* Rows given column by column.
InOrder(columns) ==
  \A i, j \in DOMAIN columns[1] :
    i < j => ~\E c \in DOMAIN columns :
                /\ SortsBefore(c, columns[c][j], columns[c][i])
                /\ \A d \in 1 .. c - 1 : columns[d][i] = columns[d][j]

\* A descending column with nulls: they are turned around too, unlike when sorting.
TurnsNulls ==
  \E c \in DOMAIN pairs : pairs[c].options.descending /\ \E n \in Arrays : Null \in ToSet(pairs[c].arrays[n])

\* The rows of an array that slices have, in their order.
RowsTaken(n, slices) ==
  FlattenSeq([k \in DOMAIN slices |->
    IF slices[k][1] = n THEN [i \in 1 .. slices[k][3] |-> slices[k][2] + i] ELSE << >>])

EmptySide == \E k \in DOMAIN spans : spans[k] = << >>

\* Every merge has each row of its arrays once, in the order of its array, in runs that
\* are not empty, and is sorted if the arrays are -- but for descending columns with
\* nulls; a limit takes the first rows, in every column.  Merging panics only if an
\* array has no rows, and not always then; only a side without a slice makes it lose rows.
MergedIsSorted ==
  /\ ~EmptySide =>
       \A span \in DOMAIN spans :
         /\ \A n \in span[1] + 1 .. span[2] : RowsTaken(n, spans[span]) = [i \in 1 .. LengthOf(n) |-> i]
         /\ ~TurnsNulls => InOrder([c \in DOMAIN pairs |-> RowsOf(c, spans[span])])
         /\ \A k \in DOMAIN spans[span] : spans[span][k][3] = 0 => \E n \in Arrays : LengthOf(n) = 0
  /\ taken # << >> =>
       \A c \in DOMAIN pairs : taken[2][c] = SubSeq(RowsOf(c, Final), 1, Min({taken[1], Len(RowsOf(c, Final))}))
  /\ merging # NoPile /\ merging.state = "panicked" => \E n \in Arrays : LengthOf(n) = 0
=============================================================================

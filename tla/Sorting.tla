-------------------------------- MODULE Sorting --------------------------------
(***************************************************************************)
(* Sorting and partitioning (src/src/compute/sort, partition.rs).  Sorts   *)
(* are unstable, but for those of booleans and of lists: rows that are     *)
(* equal come in any order.  With a limit the first rows are selected      *)
(* before they are sorted, and the others are left in any order.           *)
(***************************************************************************)
EXTENDS Comparisons

LOCAL INSTANCE SequencesExt
LOCAL INSTANCE FiniteSetsExt

\* The items of an array, those behind nulls too, as array/ord.rs compares them.
RawItems(a) ==
  LET first == a.leaves[1]
  IN  CASE a.kind = "dictionary" -> [i \in DOMAIN first.values |-> LeafValue(a.leaves[2], first.values[i] + 1)]
        [] a.kind = "list" -> [i \in 1 .. ArrayLength(a) |-> SubSeq(first.values, a.offsets[i] + 1, a.offsets[i + 1])]
        [] a.kind = "fixed" -> [i \in 1 .. ArrayLength(a) |-> SubSeq(first.values, (i - 1) * Size + 1, i * Size)]
        [] OTHER -> [i \in 1 .. LeafLength(first) |-> LeafValue(first, i)]

\* The nulls of a dictionary are those of its keys.
ArrayBits(a) == IF a.kind \in {"list", "fixed", "struct"} THEN a.validity ELSE a.leaves[1].validity

IsLess(a, x, y) ==
  CASE a.leaves[1].kind = "boolean" -> ~x /\ y
    [] a.kind = "primitive" -> x < y
    [] OTHER -> Before(x, y)

\* Row i before row j.
ValueLess(a, i, j) == IsLess(a, RawItems(a)[i], RawItems(a)[j])
RowLess(a, options, i, j) == IF options.descending THEN ValueLess(a, j, i) ELSE ValueLess(a, i, j)

\* The k least members of S in order, equal ones in any: select_nth and sort_unstable.
Least(S, k, Less(_, _)) ==
  {q \in UNION {SetToSeqs(T) : T \in kSubset(k, S)} :
     /\ \A m, n \in 1 .. k : m < n => ~Less(q[n], q[m])
     /\ \A x \in S \ ToSet(q), n \in 1 .. k : ~Less(x, q[n])}

\* All of them, equal ones as they were.
Stable(S, Less(_, _)) == SetToSortSeq(S, LAMBDA i, j : Less(i, j) \/ (~Less(j, i) /\ i < j))

Limited(s, limit) == SubSeq(s, 1, Min({limit, Len(s)}))
Increasing(S) == SetToSortSeq(S, <)
-----------------------------------------------------------------------------
(* Indices, here from 1: common.rs, boolean.rs, mod.rs *)

ValidRows(a) == {i \in DOMAIN RawItems(a) : Valid(ArrayBits(a), i)}
NullRows(a) == DOMAIN RawItems(a) \ ValidRows(a)

\* Nulls in order, and as many of the others as the limit leaves; all that it can be.
IndicesSortedUnstableBy(a, options, limit) ==
  LET nulls == Increasing(NullRows(a))
      k == Min({limit, Len(RawItems(a))})
      Lowest(n) == Least(ValidRows(a), n, LAMBDA i, j : RowLess(a, options, i, j))
  IN  IF options.nullsFirst
      THEN {Limited(nulls, k) \o q : q \in Lowest(Max({0, k - Len(nulls)}))}
      ELSE {Limited(q \o nulls, k) : q \in Lowest(Min({k, Cardinality(ValidRows(a))}))}

Placed(valids, nulls, options) == IF options.nullsFirst THEN nulls \o valids ELSE valids \o nulls

\* Nulls are reversed "to keep a stable ordering".
SortBoolean(a, options, limit) ==
  LET nulls == Increasing(NullRows(a))
      valids == Stable(ValidRows(a), LAMBDA i, j : RowLess(a, options, i, j))
  IN  Limited(Placed(valids, IF options.descending THEN Reverse(nulls) ELSE nulls, options), limit)

SortList(a, options, limit) ==
  LET valids == Stable(ValidRows(a), LAMBDA i, j : RowLess(a, options, i, j))
  IN  Limited(Placed(valids, Increasing(NullRows(a)), options), limit)

\* Lists of integers, dictionaries of strings.
SortToIndices(a, options, limit) ==
  CASE a.kind = "boolean" -> {SortBoolean(a, options, limit)}
    [] a.kind \in {"list", "fixed"} ->
         (IF a.leaves[1].kind = "primitive" THEN {SortList(a, options, limit)} ELSE {Unsupported})
    [] a.kind = "dictionary" ->
         (IF Lengthy(a.leaves[2]) THEN IndicesSortedUnstableBy(a, options, limit) ELSE {Unsupported})
    [] a.kind \in {"primitive", "utf8", "binary"} -> IndicesSortedUnstableBy(a, options, limit)
    [] OTHER -> {Unsupported}
-----------------------------------------------------------------------------
(* Values of primitives: primitive/sort.rs *)

Ascending(s) == SortSeq(s, <)
Descending(s) == SortSeq(s, LAMBDA x, y : y < x)

\* All orders of a sequence.
Shuffles(s) == {[i \in DOMAIN s |-> s[p[i]]] : p \in SetToSeqs(DOMAIN s)}

\* Those before the limit are sorted again, in ascending order whatever is asked for.
KElementSort(values, options, limit) ==
  LET sorted == IF options.descending THEN Descending(values) ELSE Ascending(values)
      before == Ascending(SubSeq(sorted, 1, limit))
  IN  IF limit \notin 0 .. Len(values) - 1 THEN {Panic}
      ELSE {before \o << sorted[limit + 1] >> \o rest : rest \in Shuffles(SubSeq(sorted, limit + 2, Len(sorted)))}

SortValues(values, options, limit) ==
  IF limit # Len(values) THEN KElementSort(values, options, limit)
  ELSE {IF options.descending THEN Descending(values) ELSE Ascending(values)}

\* The limit counts the nulls, and is reduced by them wherever they are placed.
SortNullable(leaf, options, limit) ==
  LET unset == Cardinality(NullsOf(leaf))
      sorted == SortValues(Picked(leaf.values, leaf.validity), options, limit - unset)
  IN  IF options.nullsFirst /\ limit < unset THEN {Repeat(Null, limit)}
      ELSE {IF values = Panic THEN Panic ELSE Limited(Placed(values, Repeat(Null, unset), options), limit) : values \in sorted}

\* The rows.
SortBy(leaf, options, limit) ==
  LET k == Min({limit, Len(leaf.values)})
  IN  IF leaf.validity # NoValidity THEN SortNullable(leaf, options, k)
      ELSE {IF values = Panic THEN Panic ELSE Limited(values, k) : values \in SortValues(leaf.values, options, k)}

IndicesOf(q) == PrimitiveOf([n \in DOMAIN q |-> q[n] - 1], NoValidity)

Sort(a, options, limit) ==
  IF a.kind = "primitive" THEN SortBy(a.leaves[1], options, limit)
  ELSE {IF q = Unsupported THEN q ELSE Take(a, << >>, IndicesOf(q)) : q \in SortToIndices(a, options, limit)}
-----------------------------------------------------------------------------
(* Several columns: lex_sort.rs *)

NoOptions == [descending |-> FALSE, nullsFirst |-> TRUE]

\* A bug: a descending column turns its nulls around as well.
NullsTurned(a, options, i, j) ==
  LET earlier == IF options.descending THEN j ELSE i
      later == IF options.descending THEN i ELSE j
  IN  CASE {i, j} \subseteq ValidRows(a) -> RowLess(a, options, i, j)
        [] {i, j} \subseteq NullRows(a) -> FALSE
        [] OTHER -> (earlier \in NullRows(a)) = options.nullsFirst

\* Nulls are where nulls_first says, whatever the direction.
BuildCompare(a, options, i, j) ==
  CASE {i, j} \subseteq ValidRows(a) -> RowLess(a, options, i, j)
    [] {i, j} \subseteq NullRows(a) -> FALSE
    [] OTHER -> (i \in NullRows(a)) = options.nullsFirst

\* The first column on which the rows differ decides.
LexLess(columns, i, j) ==
  LET Less(n, x, y) == BuildCompare(columns[n].array, columns[n].options, x, y)
  IN  \E n \in DOMAIN columns :
        /\ Less(n, i, j)
        /\ \A m \in 1 .. n - 1 : ~Less(m, i, j) /\ ~Less(m, j, i)

Comparable(a) == a.kind \in {"primitive", "boolean", "utf8", "binary", "dictionary"}

SameRowCounts(columns) == \A n \in DOMAIN columns : Len(RawItems(columns[n].array)) = Len(RawItems(columns[1].array))

\* One column is sorted on its own if it can be.
LexsortToIndices(columns, limit) ==
  LET rows == DOMAIN RawItems(columns[1].array)
      single == SortToIndices(columns[1].array, columns[1].options, limit)
  IN  CASE columns = << >> -> {Refused}
        [] Len(columns) = 1 /\ Unsupported \notin single -> single
        [] ~SameRowCounts(columns) \/ (\E n \in DOMAIN columns : ~Comparable(columns[n].array)) -> {Refused}
        [] OTHER -> Least(rows, Min({limit, Cardinality(rows)}), LAMBDA i, j : LexLess(columns, i, j))
-----------------------------------------------------------------------------
(* partition.rs: the columns are sorted *)

\* From each start, by a binary search for the first row that is greater.
LexicographicalPartitionRanges(columns) ==
  LET n == Len(RawItems(columns[1].array))
      End(start) == start + Cardinality({i \in start + 1 .. n : ~LexLess(columns, start + 1, i)})
      ranges[start \in 0 .. n] == IF start = n THEN << >> ELSE << << start, End(start) >> >> \o ranges[End(start)]
  IN  IF columns = << >> \/ ~SameRowCounts(columns) \/ (\E k \in DOMAIN columns : ~Comparable(columns[k].array))
      THEN Refused ELSE ranges[0]
-----------------------------------------------------------------------------
SortRows == ReturnsOneOf("sort", Sort(call.array, call.options, call.limit))
SortIndices == ReturnsOneOf("sort_to_indices", SortToIndices(call.array, call.options, call.limit))
SortColumns == ReturnsOneOf("lexsort", LexsortToIndices(call.columns, call.limit))
PartitionRows == Returns("partition", LexicographicalPartitionRanges(call.columns))

SortingNext == SortRows \/ SortIndices \/ SortColumns \/ PartitionRows
-----------------------------------------------------------------------------
\* What the options ask of two rows.
Ordered(a, options, x, y) ==
  CASE x = Null /\ y = Null -> FALSE
    [] x = Null -> options.nullsFirst
    [] y = Null -> ~options.nullsFirst
    [] OTHER -> IF options.descending THEN IsLess(a, y, x) ELSE IsLess(a, x, y)

\* q are the first rows of n, in the order of Less.
FirstRows(q, n, limit, Less(_, _)) ==
  /\ IsInjective(q) /\ ToSet(q) \subseteq 1 .. n /\ Len(q) = Min({limit, n})
  /\ \A k, m \in DOMAIN q : k < m => ~Less(q[m], q[k])
  /\ \A i \in (1 .. n) \ ToSet(q), k \in DOMAIN q : ~Less(i, q[k])

\* The indices are those of the first rows, sorted, each once: nulls first or last
\* as is asked for, ascending or descending between values.
IndicesAreSorted ==
  LET rows == Rows(call.array)
  IN  Answered("sort_to_indices") /\ result # Unsupported =>
        FirstRows(result, Len(rows), call.limit,
                  LAMBDA i, j : Ordered(call.array, call.options, rows[i], rows[j]))

\* As many rows as the limit says, the first ones; primitives with a limit only when
\* ascending and without nulls, or with nulls that come first.
RowsAreSorted ==
  LET rows == Rows(call.array)
      Less(x, y) == Ordered(call.array, call.options, x, y)
      sorted == SortSeq(rows, Less)
      kept == \/ call.array.kind # "primitive" \/ call.limit >= Len(rows)
              \/ /\ ~call.options.descending
                 /\ call.options.nullsFirst \/ call.array.leaves[1].validity = NoValidity
  IN  Answered("sort") /\ result # Unsupported =>
        /\ kept => result = Limited(sorted, call.limit)
        /\ result = Panic => call.array.leaves[1].validity # NoValidity /\ ~call.options.nullsFirst

\* Several columns are sorted by the first, then the second; a limit leaves the first rows.
ColumnsAreSorted ==
  LET rows == [n \in DOMAIN call.columns |-> Rows(call.columns[n].array)]
      Less(n, i, j) == Ordered(call.columns[n].array, call.columns[n].options, rows[n][i], rows[n][j])
  IN  Answered("lexsort") /\ result # Refused =>
        FirstRows(result, Len(rows[1]), call.limit, LAMBDA i, j :
          \E n \in DOMAIN rows : Less(n, i, j) /\ \A m \in 1 .. n - 1 : rows[m][i] = rows[m][j])

\* The ranges of sorted columns follow each other from the first row to the last:
\* rows are in one range if and only if they are equal, nulls to nulls.
RangesAreOfEqualRows ==
  LET rows == [n \in DOMAIN call.columns |-> Rows(call.columns[n].array)]
      Inside(i) == CHOOSE k \in DOMAIN result : i - 1 \in result[k][1] .. result[k][2] - 1
  IN  Answered("partition") /\ result # Refused =>
        /\ \A i \in DOMAIN rows[1], j \in DOMAIN rows[1] :
             Inside(i) = Inside(j) <=> \A n \in DOMAIN rows : rows[n][i] = rows[n][j]
        /\ \A k \in DOMAIN result : result[k][1] = IF k = 1 THEN 0 ELSE result[k - 1][2]

\* Sorted is what the options call sorted, for indices, rows, columns and partitions.
SortedIsOrdered == IndicesAreSorted /\ RowsAreSorted /\ ColumnsAreSorted /\ RangesAreOfEqualRows
=============================================================================

----------------------------- MODULE NestedColumn -----------------------------
(***************************************************************************)
(* Columns of nested types in Parquet: how they are written, and how they  *)
(* are read back.                                                          *)
(***************************************************************************)
EXTENDS Naturals, FiniteSets, Sequences, SequencesExt, FiniteSetsExt

(***************************************************************************)
(* A column of a nested type in Parquet: the repetition and definition     *)
(* levels that its lists and structs are written with                      *)
(* (src/src/io/parquet/write/nested), next to what the format says they    *)
(* are.  A nested type has a Parquet column for each of its leaves: a path *)
(* from the field to a leaf, here a sequence of descriptors.               *)
(*                                                                         *)
(* A row is a tree: Missing, the sequence of the items of a list, the      *)
(* sequence of the one field of a struct, or the value of a leaf.          *)
(***************************************************************************)
CONSTANT Missing   \* a null

\* A type, of lists, structs and leaves, and its place on a path.
NestedType(kind, optional, of) == [kind |-> kind, optional |-> optional, of |-> of]
Descriptor(type) == [kind |-> type.kind, optional |-> type.optional]

\* to_nested: the paths to the leaves of a type, which are its columns, in their order.
RECURSIVE PathsOf(_, _)
PathsOf(type, parents) ==
  LET path == Append(parents, Descriptor(type))
  IN  IF type.kind = "leaf" THEN << path >>
      ELSE FlattenSeq([f \in 1 .. Len(type.of) |-> PathsOf(type.of[f], path)])

IsList(path, d) == path[d].kind = "list"

One(condition) == IF condition THEN 1 ELSE 0
SumOf(counts) == FoldLeft(LAMBDA sum, n : sum + n, 0, counts)

MaxRepLevel(path) == SumOf([d \in 1 .. Len(path) |-> One(IsList(path, d))])

MaxDefLevel(path) ==
  SumOf([d \in 1 .. Len(path) |-> One(IsList(path, d)) + One(path[d].optional)])
-----------------------------------------------------------------------------
(***************************************************************************)
(* What the format says: an entry for every leaf and for every list or     *)
(* struct that ends before it.  Its repetition level says how many lists   *)
(* go on, its definition level how much of the path is there.              *)
(***************************************************************************)
Entry(rep, def, value) == [rep |-> rep, def |-> def, value |-> value]

RECURSIVE Entries(_, _, _, _, _)
Entries(path, tree, rep, def, lists) ==
  LET level == Head(path)
      below == Tail(path)
      there == def + One(level.optional)
  IN  CASE tree = Missing -> << Entry(rep, def, Missing) >>
        [] level.kind = "leaf" -> << Entry(rep, there, tree) >>
        [] level.kind = "struct" -> Entries(below, tree[1], rep, there, lists)
        [] level.kind = "list" /\ tree = << >> -> << Entry(rep, there, Missing) >>
        [] OTHER ->
             FlattenSeq([k \in 1 .. Len(tree) |->
                Entries(below, tree[k], IF k = 1 THEN rep ELSE lists + 1, there + 1, lists + 1)])

\* A page: its levels, and the values of the leaves that are there.
PageOf(entries) ==
  [levels |-> [k \in 1 .. Len(entries) |-> [rep |-> entries[k].rep, def |-> entries[k].def]],
   values |-> SelectSeq([k \in 1 .. Len(entries) |-> entries[k].value],
                        LAMBDA value : value # Missing)]

PageOfRows(path, rows) ==
  PageOf(FlattenSeq([r \in 1 .. Len(rows) |-> Entries(path, rows[r], 0, 0, 0)]))
-----------------------------------------------------------------------------
(***************************************************************************)
(* The arrays.  Those below a null have rows as well: a null struct has    *)
(* one below it, a null list may have some.  `behind` says whether there   *)
(* is something behind a null.                                             *)
(***************************************************************************)
RECURSIVE Hidden(_, _)
Hidden(path, behind) ==
  CASE ~behind /\ Head(path).optional -> Missing
    [] Head(path).kind = "leaf" -> 0
    [] Head(path).kind = "list" /\ ~behind -> << >>
    [] OTHER -> << Hidden(Tail(path), behind) >>

Children(path, d, tree, behind) ==
  IF tree # Missing THEN tree
  ELSE IF IsList(path, d) /\ ~behind THEN << >>
  ELSE << Hidden(SubSeq(path, d + 1, Len(path)), behind) >>

\* to_nested: of each array on the path the validity and, of a list, the lengths.
ToNested(path, rows, behind) ==
  LET Below(above, d) ==
        FlattenSeq([s \in 1 .. Len(above) |-> Children(path, d, above[s], behind)])
      slots == FoldLeft(LAMBDA arrays, d : Append(arrays, Below(Last(arrays), d)),
                        << rows >>, [d \in 1 .. Len(path) - 1 |-> d])
  IN  [d \in 1 .. Len(path) |->
         [valid |-> [s \in 1 .. Len(slots[d]) |-> slots[d][s] # Missing],
          lengths |-> [s \in 1 .. Len(slots[d]) |->
                         IF IsList(path, d) THEN Len(Children(path, d, slots[d][s], behind))
                         ELSE 1],
          leaves |-> IF d = Len(path) THEN slots[d] ELSE << >>]]

NumValues(path, nested) ==
  LET depth == Len(path) - 1
      Count(d, length) == IF length = 0 THEN 1 ELSE IF d = depth THEN length ELSE 0
  IN  SumOf([d \in 1 .. depth |->
               SumOf([s \in 1 .. Len(nested[d].lengths) |-> Count(d, nested[d].lengths[s])])])
-----------------------------------------------------------------------------
(***************************************************************************)
(* RepLevelsIter and DefLevelsIter walk down the lengths of the lists and  *)
(* structs; a struct counts as a list of one item.  A walk has at every    *)
(* level the item it is at and how many items are left there, and the      *)
(* levels it is in; `leaf` counts the leaves it has come to.               *)
(***************************************************************************)
StartOfWalk(path) ==
  LET none == [d \in 1 .. Len(path) - 1 |-> 0]
  IN  [at |-> none, remaining |-> none, level |-> 0, leaf |-> 0,
       from |-> 0, ended |-> FALSE]

\* The items left after a leaf: a level that has none left takes one from its parent.
LeftAfterLeaf(remaining) ==
  LET left[d \in 1 .. Len(remaining)] ==
        IF d = Len(remaining) THEN remaining[d] - 1
        ELSE remaining[d] - One(left[d + 1] = 0)
  IN  left

\* One call of `next`: down from the level the walk is in, as far as there are
\* items, and to a leaf if it gets down to the last list.  An empty list does not
\* count as an item of its parent.
WalkOn(path, nested, walk) ==
  LET depth == Len(path) - 1
      Length(d) == nested[d].lengths[walk.at[d] + 1]
      Ends(d) == walk.at[d] = Len(nested[d].lengths)
      stop == Min({depth + 1} \cup {d \in walk.level + 1 .. depth : Ends(d) \/ Length(d) = 0})
      entered == walk.level + 1 .. stop - 1
      down == [walk EXCEPT
                 !.from = walk.level,
                 !.level = stop - 1,
                 !.at = [d \in 1 .. depth |-> @[d] + One(d \in entered \cup {stop})],
                 !.remaining = [d \in 1 .. depth |-> IF d \in entered THEN Length(d) ELSE @[d]]]
      left == LeftAfterLeaf(down.remaining)
  IN  IF stop <= depth /\ Ends(stop) THEN [walk EXCEPT !.ended = TRUE]
      ELSE IF stop <= depth THEN down
      ELSE [down EXCEPT !.remaining = left, !.leaf = @ + 1,
                        !.level = Cardinality({d \in 1 .. depth : left[d] > 0})]

\* The walk after each call, up to the number of values.
Walks(path, nested) ==
  Tail(FoldLeft(LAMBDA walks, k : Append(walks, WalkOn(path, nested, Last(walks))),
                << StartOfWalk(path) >>,
                [k \in 1 .. NumValues(path, nested) |-> k]))

\* The walk came to a leaf, not to an empty list: it is as deep as it gets.
AtLeaf(walks, k) == walks[k].leaf > IF k = 1 THEN 0 ELSE walks[k - 1].leaf

\* At a leaf the levels entered for it are discounted; at an empty list none is.
RepLevels(path, nested) ==
  LET walks == Walks(path, nested)
  IN  [k \in 1 .. Len(walks) |->
         IF walks[k].ended THEN 0
         ELSE IF AtLeaf(walks, k) THEN walks[k].from ELSE walks[k].level]

\* What a level adds to the definition level: a list 1 or, valid and optional, 2.
DefOf(path, nested, d, s) ==
  One(IsList(path, d)) + One(path[d].optional /\ nested[d].valid[s])

\* The sum over the levels the walk is in, whether or not one of them is null, and
\* the leaf's, or half of the empty list's.
DefLevels(path, nested) ==
  LET walks == Walks(path, nested)
      depth == Len(path) - 1
      Above(k, levels) ==
        SumOf([d \in 1 .. levels |-> DefOf(path, nested, d, walks[k].at[d])])
  IN  [k \in 1 .. Len(walks) |->
         IF walks[k].ended THEN 0
         ELSE IF AtLeaf(walks, k)
         THEN Above(k, depth) + DefOf(path, nested, depth + 1, walks[k].leaf)
         ELSE Above(k, walks[k].level)
                + DefOf(path, nested, walks[k].level + 1, walks[k].at[walks[k].level + 1]) \div 2]

\* The leaves as encode_plain writes them: the valid ones of an optional leaf, all
\* of a required one.
EncodePlain(path, leaves) ==
  IF Last(path).optional THEN SelectSeq(leaves, LAMBDA leaf : leaf # Missing) ELSE leaves

\* write_rep_and_def: the levels of a page; without lists no repetition levels.
WriteRepAndDef(path, nested) ==
  LET reps == RepLevels(path, nested)
      defs == DefLevels(path, nested)
  IN  [k \in 1 .. Len(reps) |->
         [rep |-> IF MaxRepLevel(path) = 0 THEN 0 ELSE reps[k], def |-> defs[k]]]

\* array_to_page_nested: the page of an array.
ArrayToPage(path, rows, behind) ==
  LET nested == ToNested(path, rows, behind)
  IN  [levels |-> WriteRepAndDef(path, nested),
       values |-> EncodePlain(path, Last(nested).leaves)]
-----------------------------------------------------------------------------
(***************************************************************************)
(* The iterator of nested arrays over the pages of a Parquet column        *)
(* (src/src/io/parquet/read/deserialize/nested_utils.rs).  A behaviour     *)
(* reads the pages of one column, of arrow2's writer or of another, in     *)
(* chunks of a size.                                                       *)
(***************************************************************************)
CONSTANTS
  NestedTypes,   \* the nested types that are written and read
  NestedEntries, \* the number of entries of a column, at most
  NestedLimit,   \* a limit of rows to read
  NestedChunks   \* the sizes of chunks that are asked for

VARIABLE nested   \* a column, its reader and the chunks it has given

None == "none"

\* The trees of a path: its leaf has a value of its own in every place.
RECURSIVE Trees(_, _)
Trees(path, place) ==
  LET first == Head(path)
      below == Tail(path)
  IN  (IF first.optional THEN {Missing} ELSE {})
        \cup CASE first.kind = "leaf" -> {place}
               [] first.kind = "struct" -> {<< tree >> : tree \in Trees(below, place)}
               [] OTHER ->
                    {<< >>} \cup {<< tree >> : tree \in Trees(below, 3 * place + 1)}
                      \cup {<< x, y >> : x \in Trees(below, 3 * place + 1),
                                         y \in Trees(below, 3 * place + 2)}

\* n_columns and columns_to_iter_recursive: the leaves of a type in their order, each
\* with its path and the column it is read from.  A struct gives its fields columns
\* from the last to the first, and from the end of those it has.
RECURSIVE NColumns(_)
NColumns(type) ==
  IF type.kind = "leaf" THEN 1
  ELSE SumOf([f \in 1 .. Len(type.of) |-> NColumns(type.of[f])])

RECURSIVE IterOf(_, _, _)
IterOf(type, init, columns) ==
  LET path == Append(init, Descriptor(type))
      Drained(taken, field) ==
        LET n == Len(taken.columns) - NColumns(field)
        IN  [columns |-> SubSeq(taken.columns, 1, n),
             iters |-> IterOf(field, path, SubSeq(taken.columns, n + 1, Len(taken.columns)))
                         \o taken.iters]
  IN  CASE type.kind = "leaf" -> << [path |-> path, column |-> Last(columns)] >>
        [] type.kind = "list" -> IterOf(type.of[1], path, columns)
        [] OTHER -> FoldLeft(Drained, [columns |-> columns, iters |-> << >>],
                             Reverse(type.of)).iters
-----------------------------------------------------------------------------
(***************************************************************************)
(* Nested: a container per descriptor.  Those of lists have an offset per  *)
(* slot, those of optional lists and structs a validity.                   *)
(***************************************************************************)
InitNested(path) ==
  [d \in 1 .. Len(path) |-> [len |-> 0, offsets |-> << >>, validity |-> << >>]]

Pushed(container, descriptor, length, isValid) ==
  [len |-> container.len + 1,
   offsets |-> IF descriptor.kind = "list" THEN Append(container.offsets, length) ELSE << >>,
   validity |-> IF descriptor.optional /\ descriptor.kind # "leaf"
                THEN Append(container.validity, isValid) ELSE << >>]

\* An item: the containers, and the values and validity that are decoded.
NewItem(path) == [containers |-> InitNested(path), values |-> << >>, validity |-> << >>]

RowsIn(item) == item.containers[1].len

\* NestedDecoder: a value of the page, or the default when it has no more; a
\* required leaf has no bit for it.  A null has one always.
PushValid(path, item, values) ==
  [item EXCEPT !.values = Append(@, IF values = << >> THEN 0 ELSE Head(values)),
               !.validity = IF Last(path).optional THEN Append(@, TRUE) ELSE @]

PushNull(item) ==
  [item EXCEPT !.values = Append(@, 0), !.validity = Append(@, FALSE)]

CumSum(path, d) == MaxDefLevel(SubSeq(path, 1, d - 1))
CumRep(path, d) == MaxRepLevel(SubSeq(path, 1, d - 1))

\* What one entry of the page adds to the container of a level, and at the leaf to
\* the values.  The level takes part if the entry gets to it, or is the slot that a
\* struct above needs: `needed`.
PushLevel(path, state, entry, d) ==
  LET level == path[d]
      reached == entry.rep <= CumRep(path, d) /\ entry.def >= CumSum(path, d)
      isValid == level.optional /\ entry.def > CumSum(path, d)
      length == IF d = Len(path) THEN 0 ELSE state.item.containers[d + 1].len
      item == [state.item EXCEPT !.containers[d] = Pushed(@, level, length, isValid)]
      valid == reached /\ (entry.def # CumSum(path, d) \/ ~level.optional)
      pushed == CASE d < Len(path) -> item
                  [] d = Len(path) /\ valid -> PushValid(path, item, state.values)
                  [] OTHER -> PushNull(item)
  IN  IF ~(state.needed \/ reached) THEN state
      ELSE [item |-> pushed,
            needed |-> level.kind = "struct" /\ ~isValid,
            values |-> IF d = Len(path) /\ valid /\ state.values # << >>
                       THEN Tail(state.values) ELSE state.values]

PushEntry(path, state, entry) ==
  FoldLeft(LAMBDA s, d : PushLevel(path, s, entry, d),
           [state EXCEPT !.needed = FALSE],
           [d \in 1 .. Len(path) |-> d])

\* Up to the first entry of the last row: its other items are left behind (a mutant).
EntriesOfFirstItems(levels, additional) ==
  LET RowsUpTo(k) == Cardinality({n \in 1 .. k : levels[n].rep = 0})
  IN  Min({Len(levels)} \cup {k \in 1 .. Len(levels) : RowsUpTo(k) = additional})

\* The entries up to the end of the row that is the last one wanted; all of them if
\* that is none.
EntriesOf(levels, additional) ==
  LET RowsUpTo(k) == Cardinality({n \in 1 .. k : levels[n].rep = 0})
      EndOfRow(k) == k = Len(levels) \/ levels[k + 1].rep = 0
  IN  Min({Len(levels)} \cup
          {k \in 1 .. Len(levels) : EndOfRow(k) /\ RowsUpTo(k) = additional})

\* extend_offsets2: an item with the rows of a page it has room for, and the page's rest.
ExtendOffsets(path, item, page, additional) ==
  LET n == EntriesOf(page.levels, additional)
      after == FoldLeft(LAMBDA s, entry : PushEntry(path, s, entry),
                        [item |-> item, needed |-> FALSE, values |-> page.values],
                        SubSeq(page.levels, 1, n))
  IN  [item |-> after.item,
       page |-> [levels |-> SubSeq(page.levels, n + 1, Len(page.levels)),
                 values |-> after.values]]

\* extend: the last item up to the chunk size, then new ones.
RECURSIVE NewItems(_, _)
NewItems(column, page) ==
  IF page.levels = << >> \/ column.remaining <= 0 THEN column
  ELSE LET next == ExtendOffsets(column.init, NewItem(column.init), page,
                                 Min({column.chunk, column.remaining}))
       IN  NewItems([column EXCEPT !.items = Append(@, next.item),
                                   !.remaining = @ - RowsIn(next.item)],
                    next.page)

Extend(column, page) ==
  LET begun == IF column.items = << >> THEN NewItem(column.init) ELSE Last(column.items)
      done == IF column.items = << >> THEN << >> ELSE Front(column.items)
      next == ExtendOffsets(column.init, begun, page,
                            Min({column.chunk - RowsIn(begun), column.remaining}))
  IN  NewItems([column EXCEPT !.items = Append(done, next.item),
                              !.remaining = @ - (RowsIn(next.item) - RowsIn(begun))],
               next.page)
-----------------------------------------------------------------------------
(***************************************************************************)
(* The array of an item: the values of the leaf, and around them the lists *)
(* and structs.  A validity in which everything is set is dropped, another *)
(* must have a bit for every row.                                          *)
(***************************************************************************)
HasNulls(validity) == \E k \in 1 .. Len(validity) : ~validity[k]

Fits(validity, len) == ~HasNulls(validity) \/ Len(validity) = len

FinishLeaf(item) ==
  [k \in 1 .. Len(item.values) |->
     IF HasNulls(item.validity) /\ ~item.validity[k] THEN Missing ELSE item.values[k]]

\* create_list: the number of values is the offset after the last list.
CreateList(container, values) ==
  LET offsets == Append(container.offsets, Len(values))
  IN  [s \in 1 .. container.len |->
         IF HasNulls(container.validity) /\ ~container.validity[s] THEN Missing
         ELSE SubSeq(values, offsets[s] + 1, offsets[s + 1])]

\* StructIterator: a struct has the rows of its values.
CreateStruct(container, values) ==
  [s \in 1 .. Len(values) |->
     IF HasNulls(container.validity) /\ ~container.validity[s] THEN Missing
     ELSE << values[s] >>]

\* The constructors of the arrays panic.
Misfits(path, item) ==
  \/ ~Fits(item.validity, Len(item.values))
  \/ \E d \in 1 .. Len(path) - 1 :
       LET container == item.containers[d]
       IN  ~Fits(container.validity,
                 IF IsList(path, d) THEN Len(container.offsets)
                 ELSE item.containers[d + 1].len)

ArrayOf(path, item) ==
  LET array[d \in 1 .. Len(path)] ==
        IF d = Len(path) THEN FinishLeaf(item)
        ELSE IF IsList(path, d) THEN CreateList(item.containers[d], array[d + 1])
        ELSE CreateStruct(item.containers[d], array[d + 1])
  IN  array[1]
-----------------------------------------------------------------------------
NoReader ==
  [path |-> << >>, init |-> << >>, misread |-> FALSE, rows |-> << >>, behind |-> FALSE, writer |-> None, wanted |-> 0,
   chunk |-> 1, dictionary |-> FALSE, pages |-> << >>, items |-> << >>, remaining |-> 0,
   chunks |-> << >>, state |-> "done"]

\* The columns of a path: of one row, of two or, of a short path, of three, with no
\* more entries than the bound.
Columns(path) ==
  {rows \in {<< x >> : x \in Trees(path, 1)}
              \cup {<< x, y >> : x \in Trees(path, 1), y \in Trees(path, 2)}
              \cup {<< x, y, z >> : x \in Trees(path, 1), y \in Trees(path, 2),
                                    z \in IF Len(path) > 2 THEN {} ELSE Trees(path, 3)} :
     Len(PageOfRows(path, rows).levels) <= NestedEntries}

NestedInit ==
  \E type \in NestedTypes : \E leaf \in 1 .. NColumns(type) :
    LET path == PathsOf(type, << >>)[leaf]
        iter == IterOf(type, << >>, [c \in 1 .. NColumns(type) |-> c])[leaf]
    IN  \E rows \in Columns(path), chunk \in NestedChunks :
          nested = [NoReader EXCEPT !.path = path, !.init = iter.path,
                                    !.misread = iter.column # leaf,
                                    !.rows = rows, !.chunk = chunk,
                                    !.remaining = Len(rows), !.wanted = Len(rows),
                                    !.state = "unwritten"]

\* arrow2 writes an array as one page.
WriteColumn ==
  /\ nested.state = "unwritten"
  /\ \E behind \in BOOLEAN :
       nested' = [nested EXCEPT
         !.writer = "arrow2", !.behind = behind, !.state = "reading",
         !.pages = << ArrayToPage(nested.path, nested.rows, behind) >>]

\* Another writer puts the rows into a page or two; the keys of a dictionary are read
\* by next_dict, and the reader may be limited to less rows.
OtherWrites ==
  /\ nested.state = "unwritten"
  /\ \E n \in 1 .. Len(nested.rows), dictionary \in BOOLEAN,
        limit \in {NestedLimit, Len(nested.rows)} :
       LET PagesOf(from, to) == PageOfRows(nested.path, SubSeq(nested.rows, from, to))
           all == Len(nested.rows)
       IN  nested' = [nested EXCEPT
             !.writer = "other", !.dictionary = dictionary, !.state = "reading",
             !.remaining = Min({limit, all}), !.wanted = Min({limit, all}),
             !.chunk = Min({@, limit, all}),
             !.pages = IF n = all THEN << PagesOf(1, all) >>
                       ELSE << PagesOf(1, n), PagesOf(n + 1, all) >>]

\* The first item is handed out.
Emit(column) ==
  LET item == Head(column.items)
  IN  IF Misfits(column.init, item) THEN [column EXCEPT !.state = "panicked"]
      ELSE [column EXCEPT !.items = Tail(@), !.chunks = Append(@, ArrayOf(column.init, item))]

\* An item is at hand before a page is asked for; next_dict only looks whether there
\* are several.
ItemAtHand(column) ==
  \/ Len(column.items) > 1
  \/ /\ ~column.dictionary /\ column.items # << >>
     /\ (RowsIn(column.items[1]) = column.chunk \/ column.remaining = 0)

\* A call of `next` that has an item, or no page left to get one from.
NextItem ==
  /\ nested.state = "reading"
  /\ ItemAtHand(nested) \/ (nested.pages = << >> /\ nested.items # << >>)
  /\ nested' = Emit(nested)

\* A call of `next` with no item and no page.
NextNone ==
  /\ nested.state = "reading" /\ nested.items = << >>
  /\ nested.pages = << >> \/ (~nested.dictionary /\ nested.remaining = 0)
  /\ nested' = [nested EXCEPT !.state = "done"]

\* A call of `next` that reads a page: an item is handed out unless there is only one
\* and it has room for more.  Rows beyond those that remain are too many for `usize`.
NextPage ==
  /\ nested.state = "reading" /\ nested.pages # << >> /\ ~ItemAtHand(nested)
  /\ nested.dictionary \/ nested.remaining > 0
  /\ \E extended \in {Extend([nested EXCEPT !.pages = Tail(@)], Head(nested.pages))} :
       LET more == /\ (Len(extended.items) = 1 \/ extended.dictionary)
                   /\ RowsIn(extended.items[1]) < extended.chunk
       IN  nested' = CASE extended.remaining < 0 -> [nested EXCEPT !.state = "panicked"]
                       [] more -> extended
                       [] OTHER -> Emit(extended)

NestedNext == WriteColumn \/ OtherWrites \/ NextItem \/ NextNone \/ NextPage
-----------------------------------------------------------------------------
\* Some struct is null in a row.
RECURSIVE NullStruct(_, _)
NullStruct(path, tree) ==
  IF tree = Missing THEN Head(path).kind = "struct"
  ELSE CASE Head(path).kind = "leaf" -> FALSE
         [] OTHER -> \E k \in 1 .. Len(tree) : NullStruct(Tail(path), tree[k])

SomeNullStruct == \E r \in 1 .. Len(nested.rows) : NullStruct(nested.path, nested.rows[r])

\* A null or empty list is an item of a list.
RECURSIVE EmptyBelow(_, _, _)
EmptyBelow(path, tree, within) ==
  CASE Head(path).kind = "leaf" -> FALSE
    [] tree = Missing \/ tree = << >> -> within /\ Head(path).kind = "list"
    [] OTHER -> \E k \in 1 .. Len(tree) :
                  EmptyBelow(Tail(path), tree[k], within \/ Head(path).kind = "list")

SomeEmptyBelow == \E r \in 1 .. Len(nested.rows) : EmptyBelow(nested.path, nested.rows[r], FALSE)

StructAboveList ==
  \E d, e \in 1 .. Len(nested.path) :
    d < e /\ nested.path[d].kind = "struct" /\ IsList(nested.path, e)

\* What arrow2 writes as the format asks for: lists hold no empty lists, are not in
\* structs, and nothing is behind a null -- but behind a null struct there always is
\* a slot, which only an optional field marks as null.
Writable ==
  /\ ~StructAboveList /\ ~SomeEmptyBelow /\ ~nested.behind
  /\ SomeNullStruct =>
       \A d \in 2 .. Len(nested.path) :
         nested.path[d - 1].kind = "struct" /\ nested.path[d - 1].optional => nested.path[d].optional

\* The rows of a nested column are read back as they were written, in chunks of the
\* size that was asked for, by this library's writer and by any other: whatever the
\* pages it is in and whatever chunks they are cut into.  Two cases are set aside.
\* A null struct over a required leaf leaves a validity with less bits than values,
\* and the array's constructor panics.  And next_dict goes on filling a chunk that
\* is full: the chunk grows too long and the rows that remain become less than none.
NestedColumnsReadBack ==
  nested.writer = "other" \/ (nested.writer = "arrow2" /\ Writable) =>
    LET given == FlattenSeq(nested.chunks)
    IN  /\ ~nested.misread
        /\ nested.writer = "arrow2" /\ nested.chunks = << >> /\ nested.pages # << >> =>
             nested.pages = << PageOfRows(nested.path, nested.rows) >>
        /\ given = SubSeq(nested.rows, 1, Len(given))
        /\ nested.state = "done" => Len(given) = nested.wanted
        /\ nested.state = "panicked" =>
             \/ (SomeNullStruct /\ ~Last(nested.path).optional)
             \/ nested.dictionary
        /\ \A k \in 1 .. Len(nested.chunks) :
             \/ Len(nested.chunks[k]) = nested.chunk
             \/ k = Len(nested.chunks) /\ Len(nested.chunks[k]) < nested.chunk
             \/ nested.dictionary
=============================================================================

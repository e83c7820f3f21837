---------------------------- MODULE ParquetReader -----------------------------
(***************************************************************************)
(* Parquet files that are read (src/src/io/parquet/read): the columns of a *)
(* row group page by page, and the row groups of a file.                   *)
(***************************************************************************)
EXTENDS Naturals, Sequences, SequencesExt, FiniteSetsExt

(***************************************************************************)
(* The iterator of arrays over the pages of a Parquet column chunk         *)
(* (src/src/io/parquet/read/deserialize).  Pages have the lengths their    *)
(* writer chose, arrays the length the reader asks for: a queue of items   *)
(* (arrays being decoded) stands between them.  A row is a number, the     *)
(* same in every column of its row group.                                  *)
(***************************************************************************)
CONSTANTS
  Everything,   \* usize::MAX: no limit, or no chunk size
  Blank         \* the row of a null array

ASSUME EverythingAssumption == Everything \in Nat \ {0}

Lower(m, n) == IF m < n THEN m ELSE n
Saturating(m, n) == IF m > n THEN m - n ELSE 0

\* The sums of the first numbers of a sequence, and of all of them.
Sums(W) ==
  LET sums[n \in 0 .. Len(W)] == IF n = 0 THEN 0 ELSE sums[n - 1] + W[n]
  IN  sums

SumAll(W) == Sums(W)[Len(W)]

\* Rows in pieces of a size, the last of them shorter.
Pieces(rows, size) ==
  [k \in 1 .. (Len(rows) + size - 1) \div size |->
     SubSeq(rows, (k - 1) * size + 1, Lower(k * size, Len(rows)))]
-----------------------------------------------------------------------------
(***************************************************************************)
(* A page has the rows it gives, and the number of values in its header.   *)
(* Of a "selected" or "filtered" page these are the rows the page index    *)
(* selects; a filtered page is also optional, and its rows come in runs of *)
(* validity, each up to one of `ends`.                                     *)
(***************************************************************************)
DictionaryPage == [kind |-> "dictionary", rows |-> << >>, ends |-> {}, values |-> 0]

\* The rows of a page after which an item that holds `begun` rows, or one after
\* it, is full.
FullAt(page, begun, size) == {n \in 1 .. Len(page.rows) - 1 : (begun + n) % size = 0}

\* An item became full within a run of the validity of a filtered page.
CutRuns(page, begun, size) ==
  IF page.kind = "filtered" THEN FullAt(page, begun, size) \ page.ends ELSE {}

\* The rows decoded from a page.  What is left of a run that was cut is read
\* again from the run's beginning -- and not at all if it is the last run, which
\* FilteredOptionalPageValidity::len leaves out.
Decoded(page, begun, size, remaining) ==
  LET cuts == CutRuns(page, begun, size)
      lost == {c \in cuts : \A e \in page.ends : c < e => e = Len(page.rows)}
      Start(n) == Max({0} \cup {e \in page.ends : e < n})
      Cut(n) == Max({Start(n)} \cup {c \in cuts : c < n})
  IN  [n \in 1 .. Min({remaining, Len(page.rows)} \cup lost) |->
         page.rows[Start(n) + n - Cut(n)]]
-----------------------------------------------------------------------------
Column(kind, pages, rows, size) ==
  [kind |-> kind, pages |-> pages, items |-> << >>, remaining |-> rows, size |-> size]

\* A null column reads its pages at once, up to one that fails, and has its
\* arrays then; unlike the others it counts what the page headers say.
NullColumn(pages, rows, size) ==
  LET len == Lower(rows, SumAll([p \in 1 .. Len(pages) |-> pages[p].values]))
  IN  [Column("null", << >>, 0, size) EXCEPT
         !.items = IF len = 0 THEN << >>
                   ELSE Pieces([r \in 1 .. len |-> Blank], Lower(size, len))]

Full(column) == column.items # << >> /\ Len(Head(column.items)) >= column.size

\* What next and next_dict return an item for before they ask for a page;
\* next_dict does not look at the rows that remain.
AtHand(column) ==
  \/ Len(column.items) > 1
  \/ column.kind # "dictionary" /\ Full(column)
  \/ column.kind # "dictionary" /\ column.remaining = 0 /\ column.items # << >>

WantsPage(column) ==
  /\ ~AtHand(column) /\ column.pages # << >>
  /\ column.kind = "dictionary" \/ column.remaining > 0

Begun(column) == IF column.items = << >> THEN << >> ELSE Last(column.items)

\* extend_from_new_page: the item that was begun, up to the size, and new ones.
\* One is there afterwards even if there was nothing to put into it.
Extended(column, page) ==
  LET rows == Decoded(page, Len(Begun(column)), column.size, column.remaining)
      held == Begun(column) \o rows
      done == IF column.items = << >> THEN << >> ELSE Front(column.items)
  IN  [column EXCEPT
         !.items = done \o IF held = << >> THEN << << >> >> ELSE Pieces(held, column.size),
         !.remaining = @ - Len(rows)]

\* The column after its next page: a dictionary is kept, a data page decoded.
WithPage(column) ==
  LET page == Head(column.pages)
      rest == [column EXCEPT !.pages = Tail(@)]
  IN  IF page.kind = "dictionary" THEN rest ELSE Extended(rest, page)

\* Decoding the next page cuts a run whose rest is wanted.
Astray(column) ==
  \E c \in CutRuns(Head(column.pages), Len(Begun(column)), column.size) : c < column.remaining
-----------------------------------------------------------------------------
(***************************************************************************)
(* Reading a Parquet file (src/src/io/parquet/read): RowGroupReader makes  *)
(* an iterator of arrays per column of each row group, RowGroupDeserializer *)
(* advances them in step to make chunks, and FileReader (file.rs) chains   *)
(* the row groups up to a limit.  Both readers count the limit down, each  *)
(* in its own way.                                                         *)
(***************************************************************************)
CONSTANTS
  Files,        \* sequences of row groups
  Wanted,       \* sequences of columns: the fields of the schema
  ChunkSizes, RowLimits,
  MaxErrors     \* bound on the I/O errors

\* Files are what a writer makes of them: a page of a dictionary has no rows, the
\* columns of a row group as many rows as each other, and as the group has unless a
\* page index selects some of them.
PageRecords   == [kind : {"plain", "dictionary", "selected", "filtered"},
                  rows : Seq(Nat), ends : SUBSET Nat, values : Nat]
ColumnRecords == [kind : {"value", "dictionary", "null"}, pages : Seq(PageRecords)]
GroupRecords  == [rows : Nat, columns : Seq(ColumnRecords)]

PageRows(chunk)   == SumAll([p \in 1 .. Len(chunk.pages) |-> Len(chunk.pages[p].rows)])
PageValues(chunk) == SumAll([p \in 1 .. Len(chunk.pages) |-> chunk.pages[p].values])

Filtered(record) ==
  \E c \in 1 .. Len(record.columns) : \E p \in 1 .. Len(record.columns[c].pages) :
    record.columns[c].pages[p].kind \in {"selected", "filtered"}

Regular(record) ==
  \A c \in 1 .. Len(record.columns) :
    LET chunk == record.columns[c]
    IN  /\ \A p \in 1 .. Len(chunk.pages) :
             chunk.pages[p].kind = "dictionary" => chunk.pages[p].rows = << >>
        /\ PageRows(chunk) = PageRows(record.columns[1]) /\ PageRows(chunk) <= record.rows
        /\ ~Filtered(record) =>
             /\ PageRows(chunk) = record.rows
             /\ chunk.kind = "null" => PageValues(chunk) = record.rows

ASSUME FilesAssumption ==
  \A file \in Files :
    /\ file \in Seq(GroupRecords)
    /\ \A g \in 1 .. Len(file) :
         /\ Regular(file[g])
         /\ \A fields \in Wanted : \A i \in 1 .. Len(fields) :
              fields[i] \in 1 .. Len(file[g].columns)

\* No file has as many rows as a usize counts to.
ASSUME RowsAssumption ==
  \A file \in Files : SumAll([g \in 1 .. Len(file) |-> file[g].rows]) < Everything

ASSUME ArgumentsAssumption ==
  /\ ChunkSizes \subseteq Nat \ {0} /\ RowLimits \subseteq Nat
  /\ \A fields \in Wanted : fields \in Seq(Nat)

VARIABLES
  groups, wanted, chunkSize, rowLimit,   \* the file and the arguments of new
  opened,       \* the row groups RowGroupReader has taken
  rowsToOpen,   \* RowGroupReader's remaining_rows
  rowsToGive,   \* FileReader's remaining_rows
  group,        \* current_row_group
  arrays,       \* the arrays collected for a chunk
  stage,        \* "idle" between steps of next; "chunk": in RowGroupDeserializer::next
  given,        \* history: what next has returned
  astray,       \* history: a filtered run was cut, or a null column's page not read
  errors

inputs  == << groups, wanted, chunkSize, rowLimit >>
readers == << opened, rowsToOpen, rowsToGive >>
pvars == << inputs, readers, group, arrays, stage, given, astray, errors >>

NoGroup == [rows |-> 0, remaining |-> 0, columns |-> << >>]

Opening(file) ==
  /\ groups = file
  /\ opened = 0 /\ rowsToOpen = rowLimit /\ rowsToGive = rowLimit
  /\ group = NoGroup /\ arrays = << >> /\ stage = "idle"
  /\ given = << >> /\ astray = FALSE /\ errors = 0

ParquetInit ==
  /\ wanted \in Wanted /\ chunkSize \in ChunkSizes /\ rowLimit \in RowLimits
  /\ \E file \in Files : Opening(file)

\* The rows a group gives: those its first column's pages select.
RowsOf(g) == PageRows(groups[g].columns[wanted[1]])

Give(g, ok, result) == given' = Append(given, [ok |-> ok, group |-> g, arrays |-> result])

FileError == errors < MaxErrors /\ errors' = errors + 1
-----------------------------------------------------------------------------
Idle == stage = "idle" /\ rowsToGive > 0

\* FileReader::next on a row group that has ended, or the first time.
Advancing == Idle /\ group.remaining = 0

Over == wanted = << >> \/ rowsToOpen = 0 \/ opened = Len(groups)

\* The iterators of a group's columns (to_deserializer), which give up to the
\* group's rows whatever part of them is selected.
ColumnOf(c, pages) ==
  LET rows == Lower(rowsToOpen, groups[opened + 1].rows)
      size == IF chunkSize = Everything THEN Everything ELSE Lower(chunkSize, rows)
      kind == groups[opened + 1].columns[c].kind
  IN  IF kind = "null" THEN NullColumn(pages, rows, size) ELSE Column(kind, pages, rows, size)

GroupOf(rows, columns) ==
  [rows |-> rows, remaining |-> Lower(rowsToOpen, rows), columns |-> columns]

\* A bug: the first row group is counted down too, before its rows are given.
RowsToGiveAfterEach(rows) == Saturating(rowsToGive, rows)

\* What FileReader counts down when it replaces a row group: the rows of the
\* new one.
RowsToGiveAfter(rows) ==
  IF group = NoGroup THEN rowsToGive ELSE Saturating(rowsToGive, rows)

\* A page of a null column that cannot be read ends it, without an error.
OpenGroup ==
  /\ Advancing /\ ~Over
  /\ opened' = opened + 1
  /\ LET rows == RowsOf(opened')
         PagesOf(c) == groups[opened'].columns[c].pages
         IsNull(c) == groups[opened'].columns[c].kind = "null"
     IN  /\ \/ /\ group' = GroupOf(rows, [i \in 1 .. Len(wanted) |->
                                            ColumnOf(wanted[i], PagesOf(wanted[i]))])
               /\ UNCHANGED << astray, errors >>
            \/ \E j \in 1 .. Len(wanted) : \E n \in 0 .. Len(PagesOf(wanted[j])) - 1 :
                 /\ IsNull(wanted[j]) /\ FileError /\ astray' = TRUE
                 /\ group' = GroupOf(rows, [i \in 1 .. Len(wanted) |->
                      ColumnOf(wanted[i], IF i = j THEN SubSeq(PagesOf(wanted[j]), 1, n)
                                          ELSE PagesOf(wanted[i]))])
         /\ rowsToOpen' = Saturating(rowsToOpen, rows)
         /\ rowsToGive' = RowsToGiveAfter(rows)
  /\ UNCHANGED << inputs, arrays, stage, given >>

\* The column chunks cannot be read: the error is returned, the group passed over.
OpenGroupFails ==
  /\ Advancing /\ ~Over /\ FileError
  /\ opened' = opened + 1
  /\ Give(opened + 1, FALSE, << >>)
  /\ UNCHANGED << inputs, rowsToOpen, rowsToGive, group, arrays, stage, astray >>

\* next returns None.
EndFile ==
  /\ \/ Advancing /\ Over
        /\ rowsToGive' = IF group = NoGroup THEN rowsToGive ELSE 0
     \/ stage = "idle" /\ rowsToGive = 0 /\ UNCHANGED rowsToGive
  /\ group' = NoGroup /\ stage' = "ended"
  /\ UNCHANGED << inputs, opened, rowsToOpen, arrays, given, astray, errors >>

StartChunk ==
  /\ Idle /\ group.remaining > 0
  /\ stage' = "chunk" /\ arrays' = << >>
  /\ UNCHANGED << inputs, readers, group, given, astray, errors >>

\* The iterator of the next column is at work.
Asking == stage = "chunk" /\ Len(arrays) < Len(wanted)

Asked == group.columns[Len(arrays) + 1]

\* The column goes on as `column`; with an item in front it may be handed out.
KeepItem(column) ==
  /\ group' = [group EXCEPT !.columns[Len(arrays) + 1] = column]
  /\ UNCHANGED arrays

\* A bug: the arrays are taken from the wrong end of the queue.
HandOutLast(column) ==
  /\ group' = [group EXCEPT !.columns[Len(arrays) + 1] = [column EXCEPT !.items = Front(@)]]
  /\ arrays' = Append(arrays, Last(column.items))

HandOut(column) ==
  /\ group' = [group EXCEPT !.columns[Len(arrays) + 1] = [column EXCEPT !.items = Tail(@)]]
  /\ arrays' = Append(arrays, Head(column.items))

\* An item was at hand, or is the last one.
TakeItem ==
  /\ Asking
  /\ AtHand(Asked) \/ (Asked.pages = << >> /\ Asked.items # << >>)
  /\ HandOut(Asked)
  /\ UNCHANGED << inputs, readers, stage, given, astray, errors >>

\* One page; the item in front is handed out if that filled it.
ReadPage ==
  /\ Asking /\ WantsPage(Asked)
  /\ LET column == WithPage(Asked)
     IN  IF Full(column) \/ Len(column.items) > 1 THEN HandOut(column) ELSE KeepItem(column)
  /\ astray' = (astray \/ Astray(Asked))
  /\ UNCHANGED << inputs, readers, stage, given, errors >>

\* The chunk is an error, which ends the row group.
GiveUpGroup ==
  /\ Give(opened, FALSE, << >>)
  /\ group' = [group EXCEPT !.remaining = 0]
  /\ stage' = "idle" /\ arrays' = << >>

PageFails ==
  /\ Asking /\ WantsPage(Asked) /\ FileError
  /\ GiveUpGroup
  /\ UNCHANGED << inputs, readers, astray >>

\* The column has no array although the group has rows left: unwrap panics.
ColumnEnds ==
  /\ Asking /\ ~AtHand(Asked) /\ ~WantsPage(Asked) /\ Asked.items = << >>
  /\ stage' = "panicked"
  /\ UNCHANGED << inputs, readers, group, arrays, given, astray, errors >>

\* Chunk::try_new, and what is left of the group.
FinishChunk ==
  /\ stage = "chunk" /\ Len(arrays) = Len(wanted)
  /\ IF \E i \in 1 .. Len(arrays) : Len(arrays[i]) # Len(arrays[1])
       THEN GiveUpGroup
       ELSE /\ Give(opened, TRUE, arrays)
            /\ group' = [group EXCEPT !.remaining = Saturating(@, Len(arrays[1]))]
            /\ stage' = "idle" /\ arrays' = << >>
  /\ UNCHANGED << inputs, readers, astray, errors >>

ParquetNext ==
  \/ OpenGroup \/ OpenGroupFails \/ EndFile
  \/ StartChunk \/ TakeItem \/ ReadPage \/ PageFails \/ ColumnEnds \/ FinishChunk

\* The caller calls next until it returns None.
ParquetFairness == WF_pvars(ParquetNext)

ParquetSpec == ParquetInit /\ [][ParquetNext]_pvars /\ ParquetFairness
-----------------------------------------------------------------------------
\* The rows column c of a group gives.
SelectedRows(g, c) ==
  FlattenSeq([p \in 1 .. Len(groups[g].columns[c].pages) |-> groups[g].columns[c].pages[p].rows])

IsBlank(g, c) == groups[g].columns[c].kind = "null"
IsFiltered(g) == Filtered(groups[g])

\* What this reader is known to get wrong: a filtered run that a chunk or the
\* limit cuts, a page of a null column that cannot be read, and null columns
\* under a filter.
Sound ==
  ~astray /\ \A g \in 1 .. opened, i \in 1 .. Len(wanted) : ~(IsBlank(g, wanted[i]) /\ IsFiltered(g))

\* The rows of group g in the first n results.
GivenOf(g, n) ==
  SumAll([k \in 1 .. n |->
           IF given[k].ok /\ given[k].group = g THEN Len(given[k].arrays[1]) ELSE 0])

ParquetTypeOK ==
  /\ opened \in 0 .. Len(groups)
  /\ {rowsToOpen, rowsToGive} \subseteq 0 .. rowLimit
  /\ group.remaining \in 0 .. rowLimit
  /\ Len(arrays) <= Len(wanted)
  /\ stage \in {"idle", "chunk", "ended", "panicked"}

\* Between two chunks every column holds in the items it has begun exactly the
\* rows after those given, however its pages and the chunks cut them, and these
\* with the rows it has yet to read are what is left of the group (of the rows
\* before filtering, in a group that is filtered); all but the last item are full.
Lockstep ==
  Sound /\ stage = "idle" /\ group.remaining > 0 =>
    \A i \in 1 .. Len(wanted) :
      LET column == group.columns[i]
          from == GivenOf(opened, Len(given))
          held == FlattenSeq(column.items)
      IN  /\ ~IsBlank(opened, wanted[i]) =>
               held = SubSeq(SelectedRows(opened, wanted[i]), from + 1, from + Len(held))
          /\ Len(held) + column.remaining >= group.remaining
          /\ ~IsFiltered(opened) => Len(held) + column.remaining = group.remaining
          /\ \A k \in 1 .. Len(column.items) - 1 : Len(column.items[k]) = column.size

ParquetInv == ParquetTypeOK /\ Lockstep

\* Every chunk has an array per field, all with the same rows: those that follow
\* the rows of the group given before it, as many as the chunk size asks for or
\* as are left ("at most of size `chunk_size`", deserialize/mod.rs:147).
ChunksAreConsecutive ==
  Sound => \A k \in 1 .. Len(given) :
    given[k].ok =>
      LET chunk == given[k].arrays
          g == given[k].group
          from == GivenOf(g, k - 1)
      IN  /\ Len(chunk) = Len(wanted)
          /\ Len(chunk[1]) \in 1 .. chunkSize
          /\ \A i \in 1 .. Len(wanted) :
               /\ Len(chunk[i]) = Len(chunk[1])
               /\ ~IsBlank(g, wanted[i]) =>
                    chunk[i] = SubSeq(SelectedRows(g, wanted[i]), from + 1, from + Len(chunk[i]))
          /\ Len(chunk[1]) < chunkSize =>
               \A j \in k + 1 .. Len(given) : given[j].group # g

\* The rows of the groups before g.
RowsBeforeGroup(g) == SumAll([h \in 1 .. g - 1 |-> RowsOf(h)])

\* A limit that FileReader counts down by the rows of the wrong row group is
\* met all the same if no group is larger than the first.
FirstIsLargest == \A g \in 1 .. Len(groups) : RowsOf(g) <= RowsOf(1)

\* The iterator ends, without a panic, when it has given every row of the limit,
\* but for the groups it returned an error for: "each iterator is iterated upon
\* until either the limit or the last iterator ends" (file.rs:16).
NothingLeftOut ==
  Sound /\ wanted # << >> =>
    /\ stage # "panicked"
    /\ stage = "ended" /\ (rowLimit = Everything \/ (FirstIsLargest /\ errors = 0)) =>
         \A g \in 1 .. Len(groups) :
           \/ \E k \in 1 .. Len(given) : ~given[k].ok /\ given[k].group = g
           \/ GivenOf(g, Len(given)) = Lower(RowsOf(g), Saturating(rowLimit, RowsBeforeGroup(g)))
    /\ Cardinality({k \in 1 .. Len(given) : ~given[k].ok}) = errors

ParquetEnds == <>(stage \in {"ended", "panicked"})
=============================================================================

----------------------------- MODULE MCReaders -----------------------------
(***************************************************************************)
(* Instances of the file readers for TLC: a behaviour is one of the IPC    *)
(* reader, of the Parquet reader or of a nested Parquet column, the others *)
(* having nothing to read.                                                 *)
(***************************************************************************)
EXTENDS IpcFileReader, ParquetReader, NestedColumn

IpcAtEnd ==
  /\ schema = << >> /\ version = "V5" /\ nulls = FALSE /\ request = NoProjection /\ limit = 0
  /\ currentBlock = Len(Batches) + 1 /\ hasDictionaries = FALSE /\ remaining = 0
  /\ phase = "idle" /\ column = 1 /\ current = 0 /\ rest = << >>
  /\ cursor = NoCursor /\ results = << >> /\ faults = 0

ParquetAtEnd ==
  /\ wanted = << >> /\ chunkSize = Everything /\ rowLimit = 0
  /\ groups = << >> /\ opened = 0 /\ rowsToOpen = 0 /\ rowsToGive = 0
  /\ group = NoGroup /\ arrays = << >> /\ stage = "ended"
  /\ given = << >> /\ astray = FALSE /\ errors = 0

ReadersInit ==
  \/ Init /\ ParquetAtEnd /\ nested = NoReader
  \/ ParquetInit /\ IpcAtEnd /\ nested = NoReader
  \/ NestedInit /\ IpcAtEnd /\ ParquetAtEnd

ReadersNext ==
  \/ Next /\ UNCHANGED << pvars, nested >>
  \/ ParquetNext /\ UNCHANGED << vars, nested >>
  \/ NestedNext /\ UNCHANGED << vars, pvars >>

ReadersSpec ==
  ReadersInit /\ [][ReadersNext]_<< vars, pvars, nested >> /\ Fairness /\ ParquetFairness

\* While a reader is at work its parts stay in step: the queues of nodes and buffers
\* with the columns still to read, the columns of a row group with each other.
ReadersInv == CursorInv /\ ParquetInv

\* A reader that is read on reaches its end, errors on the way or not.
ReadersEnd == Ends /\ ParquetEnds
-----------------------------------------------------------------------------
(* IPC files *)

Type(kind, of) == [kind |-> kind, of |-> of]

Flat   == Type("flat", << >>)
Binary == Type("binary", << >>)
Null   == Type("null", << >>)

Simple == {Flat, Binary, Null}

Nested ==
  {Type(kind, << t >>) : kind \in {"list", "fixed"}, t \in Simple}
    \cup {Type(kind, << Flat, Binary >>) : kind \in {"struct", "dense", "sparse"}}
    \cup {Type("list", << Type("struct", << Binary, Flat >>) >>),
          Type("struct", << Null, Flat >>),
          Type("struct", << Type("dense", << Flat, Null >>), Type("fixed", << Binary >>) >>),
          Type("fixed", << Type("list", << Flat >>) >>)}

\* Every type next to columns of other layouts, first; structs and unions in the
\* middle too.
AllSchemas ==
  {<< t, Binary, Flat >> : t \in Simple \cup Nested}
    \cup {<< Flat, t, Binary >> : t \in {u \in Nested : u.kind \notin {"list", "fixed"}}}

\* A whole column, and a slice of one.
TwoBatches == << [from |-> 0, n |-> 2, base |-> 2], [from |-> 2, n |-> 2, base |-> 4] >>

\* Up to two columns in any order, the empty sequence, three out of order, and one
\* with a duplicate.
AllProjections ==
  {p \in UNION {[1 .. n -> 1 .. 3] : n \in 0 .. 2} : IsInjective(p)}
    \cup {<< 3, 1, 2 >>, << 3, 2, 1 >>, << 2, 2 >>}
-----------------------------------------------------------------------------
(* Parquet files *)

Page(kind, rows, ends, values) == [kind |-> kind, rows |-> rows, ends |-> ends, values |-> values]

\* The pages of a column whose n-th page has lens[n] rows.
Plain(lens) ==
  [p \in 1 .. Len(lens) |->
     LET from == FoldLeft(LAMBDA sum, l : sum + l, 0, SubSeq(lens, 1, p - 1))
     IN  Page("plain", [k \in 1 .. lens[p] |-> from + k], {}, lens[p])]

ChunkOf(kind, pages) == [kind |-> kind, pages |-> pages]

\* Three columns, of values, of dictionary keys and of nulls, each with pages of
\* its own lengths.
GroupPaged(n, values, keys, blanks) ==
  [rows |-> n,
   columns |-> << ChunkOf("value", Plain(values)),
                  ChunkOf("dictionary", << DictionaryPage >> \o Plain(keys)),
                  ChunkOf("null", Plain(blanks)) >>]

Group0 == GroupPaged(0, << >>, << >>, << >>)
Group3 == GroupPaged(3, << 3 >>, << 1, 1, 1 >>, << 3 >>)
Group4 == GroupPaged(4, << 1, 3 >>, << 4 >>, << 2, 2 >>)
Group5 == GroupPaged(5, << 2, 2, 1 >>, << 3, 2 >>, << 5 >>)

\* The page index selects rows 2, 3, 5 and 6 of 6.
GroupFiltered ==
  [rows |-> 6,
   columns |-> << ChunkOf("value", << Page("selected", << 2, 3 >>, {}, 3),
                                      Page("selected", << 5, 6 >>, {}, 3) >>),
                  ChunkOf("value", << Page("filtered", << 2, 3, 5 >>, {2, 3}, 5),
                                      Page("filtered", << 6 >>, {1}, 1) >>),
                  ChunkOf("null", << Page("selected", << 2, 3 >>, {}, 4),
                                     Page("selected", << 5, 6 >>, {}, 2) >>) >>]

SomeFiles ==
  {<< >>, << Group5, Group0, Group4, Group3 >>, << Group3, Group5 >>,
   << GroupFiltered, Group3 >>, << Group4, GroupFiltered >>}

SomeWanted == {<< >>, << 1, 2, 3 >>, << 2, 1 >>, << 3, 2 >>}
-----------------------------------------------------------------------------
(* Nested columns *)

Leaves == {NestedType("leaf", optional, << >>) : optional \in BOOLEAN}

ListsOf(types) ==
  {NestedType("list", optional, << type >>) : optional \in BOOLEAN, type \in types}

StructsOf(types) ==
  {NestedType("struct", optional, << type >>) : optional \in BOOLEAN, type \in types}

Boxes == ListsOf(Leaves) \cup StructsOf(Leaves)

OptionalLeaf == NestedType("leaf", TRUE, << >>)

\* One list or struct, one in the other, and a struct of a leaf, of a struct of two
\* and of a list.
AllNestedTypes ==
  Boxes \cup ListsOf(Boxes) \cup StructsOf(Boxes)
    \cup {NestedType("struct", FALSE,
            << OptionalLeaf,
               NestedType("struct", TRUE, << OptionalLeaf, NestedType("leaf", FALSE, << >>) >>),
               NestedType("list", TRUE, << OptionalLeaf >>) >>)}
============================================================================

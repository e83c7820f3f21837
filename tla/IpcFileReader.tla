--------------------------- MODULE IpcFileReader ---------------------------
(***************************************************************************)
(* FileReader (src/src/io/ipc/read/reader.rs): an iterator over the record *)
(* batches of a file, with a projection and a limit.  next reads the       *)
(* dictionaries once, then a batch column by column: ProjectionIter        *)
(* (read/common.rs) decides which columns are read and which skipped.      *)
(* FileStream (read/file_async.rs) is the same loop as a stream that ends  *)
(* with its first error.                                                   *)
(***************************************************************************)
EXTENDS IpcLayout, FiniteSets

CONSTANTS
  Schemas,      \* sequences of types
  Batches,      \* the slice of the columns each record batch holds
  Versions,     \* metadata versions
  Projections,  \* sequences of columns
  NoProjection,
  Limits,       \* a limit; MaxUsize is None
  MaxFaults     \* bound on the I/O errors

VARIABLES
  schema, version, nulls, request, limit,   \* the file and the arguments of new
  currentBlock, hasDictionaries, remaining, \* FileReader's fields
  phase,          \* "idle": between calls of next; "reading": in read_record_batch;
                  \* "ended": a FileStream after an error; "panicked"
  column,         \* ProjectionIter: current_count
  current, rest,  \* ProjectionIter: current_projection, projection
  cursor,         \* what is left of the batch's nodes and buffers
  results,        \* history: what next has returned
  faults

arguments == << schema, version, nulls, request, limit >>
fields    == << currentBlock, hasDictionaries, remaining >>
iter      == << column, current, rest >>
vars == << arguments, fields, phase, iter, cursor, results, faults >>

Projected == request # NoProjection

\* prepare_projection: the sorted projection, and at each of its positions
\* the position in the request.
Order  == SortSeq([i \in 1 .. Len(request) |-> i], LAMBDA i, j : request[i] < request[j])
Sorted == [i \in 1 .. Len(request) |-> request[Order[i]]]

NoCursor == Cursor(<< >>, << >>)
Error    == [ok |-> FALSE, arrays |-> << >>]

Init ==
  /\ schema \in Schemas /\ version \in Versions /\ nulls \in BOOLEAN
  /\ request \in Projections \cup {NoProjection}
  /\ limit \in Limits
  /\ currentBlock = 1 /\ hasDictionaries = FALSE /\ remaining = limit
  \* the assertion on duplicates
  /\ phase = IF Projected /\ ~IsInjective(request) THEN "panicked" ELSE "idle"
  /\ column = 1 /\ current = 0 /\ rest = << >>
  /\ cursor = NoCursor
  /\ results = << >> /\ faults = 0

More == currentBlock <= Len(Batches)

Return(result) == results' = Append(results, result)

\* After an error a FileReader is called again, a FileStream is at its end: the
\* first error tells which of the two this reader is.
ReturnError ==
  /\ Return(Error)
  /\ \/ phase' = "idle"
     \/ phase' = "ended" /\ \A k \in 1 .. Len(results) : results[k].ok
-----------------------------------------------------------------------------
ReadDictionaries ==
  /\ phase = "idle" /\ More /\ ~hasDictionaries
  /\ hasDictionaries' = TRUE
  /\ UNCHANGED << arguments, currentBlock, remaining, phase, iter, cursor, results, faults >>

\* next returns the error; its next call tries again.
ReadDictionariesFails ==
  /\ phase = "idle" /\ More /\ ~hasDictionaries
  /\ faults < MaxFaults /\ faults' = faults + 1
  /\ ReturnError
  /\ UNCHANGED << arguments, fields, iter, cursor >>

\* The message of the block, and ProjectionIter::new, which an empty
\* projection makes panic.
StartBatch ==
  /\ phase = "idle" /\ More /\ hasDictionaries
  /\ currentBlock' = currentBlock + 1
  /\ LET batch == WrittenFrom(schema, 1, version, Batches[currentBlock], nulls)
     IN  cursor' = Cursor(batch.nodes, batch.buffers)
  /\ column' = 1
  /\ IF ~Projected
       THEN phase' = "reading" /\ UNCHANGED << current, rest >>
       ELSE IF request = << >>
       THEN phase' = "panicked" /\ UNCHANGED << current, rest >>
       ELSE /\ phase' = "reading"
            /\ current' = Head(Sorted) /\ rest' = Tail(Sorted)
  /\ UNCHANGED << arguments, hasDictionaries, remaining, results, faults >>

Reading == phase = "reading" /\ cursor.ok /\ column <= Len(schema)

ReadColumn ==
  /\ Reading
  /\ Projected => column = current
  /\ cursor' = Read(cursor, schema[column], version, remaining)
  /\ column' = column + 1
  /\ IF ~Projected THEN UNCHANGED << current, rest >>
     ELSE IF rest = << >> THEN current' = 1 /\ UNCHANGED rest
     ELSE current' = Head(rest) /\ rest' = Tail(rest)
  /\ UNCHANGED << arguments, fields, phase, results, faults >>

SkipColumn ==
  /\ Reading /\ Projected /\ column # current
  /\ IF SkipPanics(schema[column])
       THEN phase' = "panicked" /\ UNCHANGED << cursor, column >>
       ELSE /\ cursor' = Skip(cursor, schema[column])
            /\ column' = column + 1
            /\ UNCHANGED phase
  /\ UNCHANGED << arguments, fields, current, rest, results, faults >>

\* The block cannot be read: its message, a buffer, or what they hold.
BlockFails ==
  /\ phase = "reading"
  /\ \/ /\ Reading /\ (column = 1 \/ ~Projected \/ column = current)
        /\ faults < MaxFaults /\ faults' = faults + 1
     \/ ~cursor.ok /\ UNCHANGED faults
  /\ cursor' = NoCursor

\* A bug: next tries the block again instead of returning its error.
BatchRetried ==
  /\ BlockFails
  /\ phase' = "idle"
  /\ currentBlock' = currentBlock - 1
  /\ UNCHANGED << arguments, hasDictionaries, remaining, iter, results >>

BatchFails ==
  /\ BlockFails
  /\ ReturnError
  /\ UNCHANGED << arguments, fields, iter >>

\* A bug: each array is fetched from the place it should go to.
InverseOrder(arrays) == [i \in 1 .. Len(arrays) |-> arrays[Order[i]]]

\* apply_projection: the array read i-th goes where the request names it.
Reordered(arrays) ==
  [n \in 1 .. Len(arrays) |-> arrays[CHOOSE i \in 1 .. Len(arrays) : Order[i] = n]]

\* The usize that is left; taking more than there is wraps around.
RemainingAfter(rows) == (remaining - rows) % Usize

\* Chunk::try_new, which wants arrays of one length; a debug build panics
\* instead of wrapping around.
FinishBatch ==
  /\ phase = "reading" /\ cursor.ok /\ column > Len(schema)
  /\ LET arrays == cursor.arrays
         rows   == arrays[1].length
     IN  IF \E i \in 1 .. Len(arrays) : arrays[i].length # rows
         THEN ReturnError /\ UNCHANGED remaining
         ELSE \/ /\ phase' = "idle"
                 /\ remaining' = RemainingAfter(rows)
                 /\ Return([ok |-> TRUE,
                            arrays |-> IF Projected THEN Reordered(arrays) ELSE arrays])
              \/ /\ rows > remaining
                 /\ phase' = "panicked"
                 /\ UNCHANGED << remaining, results >>
  /\ cursor' = NoCursor
  /\ UNCHANGED << arguments, currentBlock, hasDictionaries, iter, faults >>

Next ==
  \/ ReadDictionaries \/ ReadDictionariesFails
  \/ StartBatch \/ ReadColumn \/ SkipColumn \/ BatchFails \/ FinishBatch

Unfinished == phase = "reading" \/ (phase = "idle" /\ More)

\* The caller calls next until it returns None: weak fairness of Next, which
\* is enabled as long as the iteration is Unfinished.
Fairness == ([]<>~Unfinished) \/ ([]<><<Next>>_vars)

Spec == Init /\ [][Next]_vars /\ Fairness
-----------------------------------------------------------------------------
\* The columns the caller asked for, in the caller's order.
Requested == IF Projected THEN request ELSE [c \in 1 .. Len(schema) |-> c]

\* What this reader is known to get wrong: a null array under a limit that
\* cuts its batch, a sparse union written from a slice, and, in files older
\* than V5, a union that is skipped.
Exact(batch, left) ==
  \A c \in 1 .. Len(schema) :
    /\ Has(schema[c], "null") => batch.n <= left
    /\ Has(schema[c], "sparse") => batch.from = 0
    /\ Has(schema[c], "dense") \/ Has(schema[c], "sparse") =>
         version = "V5" \/ c \in ToSet(Requested)

TypeOK ==
  /\ currentBlock \in 1 .. Len(Batches) + 1
  /\ hasDictionaries \in BOOLEAN
  /\ remaining \in 0 .. MaxUsize
  /\ phase \in {"idle", "reading", "ended", "panicked"}
  /\ column \in 1 .. Len(schema) + 1
  /\ cursor.ok \in BOOLEAN
  /\ Len(cursor.arrays) <= Len(Requested)

\* Between two columns exactly the nodes and buffers of the columns still to
\* come are left, whichever were read, cut by the limit, or skipped.
Aligned ==
  phase = "reading" /\ Exact(Batches[currentBlock - 1], remaining) =>
    LET left == WrittenFrom(schema, column, version, Batches[currentBlock - 1], nulls)
    IN  cursor.ok /\ cursor.nodes = left.nodes /\ cursor.buffers = left.buffers

CursorInv == TypeOK /\ Aligned

\* The rows the results before the k-th have used up.
RowsBefore(k) ==
  FoldLeft(LAMBDA sum, r : sum + IF r.ok THEN r.arrays[1].length ELSE 0,
           0, SubSeq(results, 1, k - 1))

\* The batch the k-th result is about: an error of the dictionaries has none.
BatchOf(k) ==
  LET dictionaryErrors == Len(results) - (currentBlock - (IF phase \in {"idle", "ended"} THEN 1 ELSE 2))
  IN  k - dictionaryErrors

\* A chunk has the requested columns, in the requested order, each with the
\* first rows of its batch, as many as the limit leaves; "read_limited" and
\* "test_projection" of tests/it/io/ipc/read/file.rs try some of them.
ChunksAreFirstRows ==
  \A k \in 1 .. Len(results) :
    results[k].ok =>
      LET batch == Batches[BatchOf(k)]
          left  == limit - RowsBefore(k)
      IN  Exact(batch, left) =>
            /\ Len(results[k].arrays) = Len(Requested)
            /\ \A i \in 1 .. Len(Requested) :
                 /\ results[k].arrays[i].length = Least(left, batch.n)
                 /\ Denotes(results[k].arrays[i], schema[Requested[i]],
                            << Requested[i] >>, batch.from)

\* A batch is only reported as an error for an I/O error, once each.
ErrorsHaveAReason ==
  (\A b \in 1 .. Len(Batches) : Exact(Batches[b], 0)) =>
    Cardinality({k \in 1 .. Len(results) : ~results[k].ok}) = faults

\* The iterator ends, with one result for each batch and each failed attempt
\* to read the dictionaries.
Ends == <>~Unfinished
=============================================================================

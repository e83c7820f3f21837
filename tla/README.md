# A verification of arrow2 in TLA+

This directory holds TLA+ models of arrow2, a Rust implementation of the Arrow
columnar format, the TLC configurations that check them on small instances, and
TLAPS proofs about the central ones. Source paths are relative to the repository
(`src/io/...` is the library's own `src/` directory).

To repeat a check: `tlc -config IpcFileWriter.cfg MCIpcFileWriter`, and so on for
each line of the table of runs (the list under "runs" in PROJECT.json has the module
and configuration of each); `tlapm IpcFileWriterProofs.tla`, and so on for each
module named `...Proofs`.

## 1. The system

arrow2 is a library: it has no threads, no process and no background work of its
own. What is hard in it is of four kinds:

* **Formats written by one program and read by another.** The IPC file and stream
  are sequences of messages whose meaning depends on earlier messages
  (dictionaries), on offsets recorded while writing (blocks, footer) and on the
  order in which buffers are popped. The writer may fail, or be dropped, anywhere.
* **Futures driven by polls.** The asynchronous readers and sinks are state
  machines advanced by `poll_*`; between two polls the underlying writer is in the
  sink, in a boxed future, or gone, and the caller may give a poll up.
* **Shared memory.** Arrays are windows (offset, length) into `Arc`-ed buffers and
  bitmaps, taken back for mutation (`into_mut`, `get_mut`, `make_mut`) when no one
  else seems to use them, or lent to another language through the C interface.
* **Algorithms over packed and nested data.** Bit chunks at any offset, offsets
  that are relative to slices, limits and projections that cut nested columns,
  repetition and definition levels, merges of sorted slices.

### Inventory

| Component | State | Operations | Talks to | Hard | Correct when |
|---|---|---|---|---|---|
| IPC file writer, append (`io/ipc/write/writer.rs`, `common.rs`, `append/`) | block offsets, dictionary tracker, the file and its position | `start`, `write`, `finish`, `try_from_file` | `Write + Seek`; the readers, through the file | partial failure, crash, protocol order | a file with a footer reads back the last finished session |
| IPC file sink (`write/file_async.rs`) | the writer or a future holding it, offsets, blocks, tracker | `poll_ready`, `start_send`, `poll_flush`, `poll_close` | `AsyncWrite`, an executor | interleaving, abandoned polls, errors | its bytes are those of the file writer; close returns |
| IPC stream writer and reader (`write/stream.rs`, `read/stream.rs`) | writer: tracker, finished; reader: dictionaries, finished | `start`, `write`, `finish`; `next` | a `Write`, a `Read` that may see part of the bytes | partial delivery, replaced dictionaries | what is sent arrives, in order, with its dictionaries |
| IPC async stream reader (`read/stream_async.rs`) | a future | `poll_next` | `AsyncRead`, an executor | lost wake-ups | as above, and a pending stream is woken |
| IPC stream sink (`write/stream_async.rs`) | as the file sink | as the file sink | `AsyncWrite`, an executor | as the file sink | its bytes are those of the stream writer |
| IPC file reader (`read/reader.rs`, `common.rs`, `deserialize.rs`, `array/`) | block number, remaining rows, dictionaries | `next` with projection and limit | `Read + Seek` | queues of nodes and buffers that must stay aligned; limits of children | each chunk is the first rows of the requested columns |
| IPC async file reader (`read/file_async.rs`) | as the file reader, inside a stream | `poll_next` | `AsyncRead + AsyncSeek` | as the file reader | as the file reader |
| Schemas in IPC, C, JSON, Avro and Parquet (`io/ipc/*/schema.rs`, `ffi/schema.rs`, `io/json_integration/`, `io/avro/*/schema.rs`, `io/parquet/*/schema*`) | none | conversions of fields, both ways | flatbuffers, other implementations | nested dictionary ids, types a format lacks | a schema reads back as written, or as the nearest the format has |
| IPC compression, Flight | none | conversions | lz4, zstd, gRPC | - | tests reach it |
| Bitmaps (`bitmap/`) | bytes, offset, length, cached unset count; sharing | push, pop, set, extend, slice, into_mut, make_mut, and/or/xor/not | arrays, kernels, FFI | offsets inside a byte, stale cache, sharing | each is a vector of booleans of its own |
| Buffers, copy-on-write of arrays (`buffer/`, `array/*/mod.rs`) | window into shared bytes; values + validity | slice, get_mut, into_mut, set_validity | bitmaps, mutable arrays, FFI | sharing, slices that keep more than they show | no mutation is seen through another handle, no cut row returns |
| Mutable and growable arrays (`array/*/mutable.rs`, `array/growable/`) | values, offsets, validity that keep one length | push, try_extend, extend, extend_validity | bitmaps, offsets | failure in the middle, offset overflow | a mutable array is a vector of options |
| Kernels (`compute/`) | none, except merge sort's iterator | functions over arrays | arrays, bitmaps | nulls, lengths, limits | equal to a definition row by row |
| Parquet reader (`io/parquet/read/`) | row group, remaining rows, page decoders | `next` | parquet2 | limits over row groups, nested levels | each chunk is the next rows |
| Parquet sink (`io/parquet/write/sink.rs`) | the writer or a future, metadata | the Sink protocol | parquet2's FileStreamer, an executor | as the IPC sink; encoding inside the future | as the IPC sink |
| Parquet writer (`io/parquet/write/`) | level iterators with a stack | `write`, `end` | parquet2 | levels of nested columns | the levels read back |
| C data and stream interface (`ffi/`), memory mapping (`mmap/`) | trees of structures with release callbacks | export, import, release, `get_next` | another language | ownership, lifetime of error strings | released once, never used after |
| CSV, JSON, NDJSON, Avro, ODBC, ORC | row buffers | read, write, infer | other crates | parsing | tests reach it |
| Data types, scalars, native types, utilities | none | constructors, conversions | everything | - | - |

PROJECT.json lists the same parts with their files under "components" and, under
"hazards", every place found where the code is hard to test, with its line and
the properties that cover it or the reason none does yet.

## 2. The modules

```
 AtomicFile <-- refined by -- IpcFileWriter <-- refined by -- IpcFileSink
                                 |  EXTENDS                        |  EXTENDS
                                 +------- IpcEncoding -------------+
                                 |  EXTENDS                        |  EXTENDS
                             IpcStreamWriter <-- refined by -- IpcStreamSink
                                 ^  EXTENDS
 Channel <-- refined by -- IpcStream, IpcAsyncStream;  ParquetSink alone

 IpcEncodingProofs EXTENDS IpcEncoding
 IpcFileWriterProofs, IpcStreamWriterProofs, IpcStreamSinkProofs EXTEND IpcEncodingProofs
   and IpcFileWriter, IpcStreamWriter, IpcStreamSink
 IpcStreamProofs EXTENDS IpcStreamWriterProofs, IpcStream, IpcAsyncStream
 SinksProofs EXTENDS MCSinks, IpcEncodingProofs
 ArraysProofs EXTENDS Bitmaps, SlicesIterator, ParquetReader
 KernelsProofs EXTENDS Comparisons

 IpcFileReader EXTENDS IpcLayout;  ParquetReader, NestedColumn alone
 BitVectors <-- refined by -- Bitmaps;  SlicesIterator alone
 MutableArrays, Growables EXTEND ArrayData
 SharedArrays EXTENDS CInterface EXTENDS ArrayViews EXTENDS ArrayData
 Sorting EXTENDS Comparisons EXTENDS Selections EXTENDS Arithmetics EXTENDS ArrayData
 Schemas, Casts EXTEND DataTypes EXTENDS Arithmetics;  MergeSort alone

 MC<module>: the instance of <module> for TLC; MCSinks: of the three sinks; MCReaders: of
 IpcFileReader, ParquetReader and NestedColumn; MCArrays: of Bitmaps, SlicesIterator,
 MutableArrays, Growables and SharedArrays; MCKernels: of the kernels, the merge, the
 schemas and the casts
```

### IpcEncoding: the bytes
A chunk is the pair of its keys (all columns together) and the dictionary each
dictionary column refers to; dictionaries are model values. A file is a sequence
of *cells*, cut exactly where the code makes separate writes: the opening magic,
a continuation, the payload of a message, the footer. A dictionary or record
*message* is two cells; the size of a message only matters through the offsets,
so all have one. The footer takes `FooterSize` cells because it matters whether
an append overwrites the old footer with one message or needs several.
`Inserted`, `Emitted` and `Tracked` are `encode_chunk` with
`DictionaryTracker::insert` dictionary after dictionary, in the order
`encode_dictionary` comes to them; a dictionary inside another is one more of them.
`Refusals` says after how many inserts it may return an error: where `insert` refuses a
replacement, and, for a missing `dictionary_id` (`common.rs:44`) or children that do not
match the `IpcField` (lines 71, 141), after any number in `Stops`. `Recorded` is what the tracker then keeps, `Left` what of it
no message will carry. `HasFooter`, `Readable` and `Decode` are the
reader: the footer at the end of the file, the dictionary blocks in order, the
record blocks with the dictionaries then known. On the wire the
continuation marker is cut in two, since a reader may see half of it.

### IpcFileWriter, and what it promises: AtomicFile
Variables are `FileWriter`'s fields, the file and its position, the call in
progress, and history variables. `Start`, `Write`, `WriteRefused`,
`WriteDictionary`, `WriteRecord`, `FinishEos` and `FinishFooter` are the calls, cut at their
writes; the `...Fails` actions tear a write anywhere in it. `DropWriter` is both
`drop` and the death of the process: arrow2 has no `Drop` that writes. A file
system that loses written bytes is not modelled. `TryFromFile` is the append.
A write that `encode_chunk` refuses writes nothing, and the tracker keeps what was
inserted: `lost` are the ids whose dictionary is thus tracked and not on the file,
`spoiled` that a record was written while there were any (section 4).
AtomicFile is the promise to whoever opens the file: a whole finished session or
no file; a spoiled session counts as given up. `RetryAfterError = FALSE` in the run: the caller drops a writer that
returned an I/O error. (With `TRUE`, a `finish` retried after a failed one writes
a footer without blocks, as `writer.rs:184` has taken them: the chunks are lost.)

### IpcFileSink
The writer is in the sink, in the task, or gone. `PollTask` is one message written
inside a poll; a poll given up simply lets other actions come before the next
`PollTask`. `PollReady` and `PollClose` take the output of a completed task.
`SinkIsFileWriter` maps it to IpcFileWriter: blocks that FileWriter has counted as
soon as they are written are here in the unfinished task.

### ParquetSink
The same protocol with a `FileStreamer` of parquet2 in place of the writer: it is in
the sink from the beginning, `start_send` puts it into the task without encoding
anything, and the columns are encoded there as the row group is written. A column of
which a page fails ends the task with an error (`EncodingFails`); one that
`array_to_columns` refuses makes the poll panic (`EncodingPanics`), and every later
poll of the same task. `metadata` is taken out when the finish task is made; what is
put in after that stays in the sink. The bytes of a column are one cell, the positions
of row groups the streamer's own count.

### IpcStreamWriter, IpcStream, IpcAsyncStream, IpcStreamSink; Channel
StreamWriter's three calls append messages to `wire`. The readers consume it cell
by cell from the `visible` part. IpcStream reads synchronously: a read that meets
the end of what is visible is Waiting at the first marker and an error anywhere
else. IpcAsyncStream has the waker: `registered` with the transport, `woken` for
the executor; its state and steps have names of their own (`future`, `taken`,
`yielded`, `AsyncReadRecord`), so that one module can prove things of both readers. Channel is the promise: chunks arrive whole, in order, once, and
the end after the last. StreamWriter neither refuses a second `start` nor an early
`finish`, so the models call them in any order (`MaxControls` bounds them), but
call `write` with the IPC fields of the schema. Of the errors of `encode_chunk` the stream
writer and sink have none: a stream may replace dictionaries, and the other errors
depend on the types and fields alone, so that such a writer has them for every chunk
or for none. A caller who gives one `write` fields of its own that do not fit loses
dictionaries as in IpcFileWriter.

### IpcLayout, IpcFileReader
A type is its layout kind and children; a column is a tree of arrays and a batch
holds a slice of each. What a buffer holds is an interval of rows of the array at
a path, so a wrong buffer, a wrong child limit and a wrong order are all visible.
`WrittenFrom` is `write/serialize.rs`, `Read` and `Skip` are
`read/deserialize.rs` and `read/array/`. Row r of a list has r rows of the child,
so no two slices of a list look alike. `usize` is modulo `Usize = 32`, and a
subtraction that underflows either panics (debug) or wraps (release). A read error
may come from the dictionaries or any buffer. FileStream, the asynchronous reader, is
the same loop but ends with its first error (`ReturnError`). IpcLayout is recursive
over types and therefore only model-checked.

### ParquetReader
A Parquet file is a sequence of row groups; a column of a group is a sequence of
pages, and a row is a number, the same in every column of the group, so that columns
out of step show. Pages have the lengths their writer chose and chunks the one the
caller asks for: `items` is the queue of arrays begun in between. `WithPage` is one
page decoded (`extend_from_new_page`), `AtHand` what `next` and `next_dict` return an
item for before they look at another page; they differ, and next_dict does not look at
the rows that remain. `NullColumn` is the eager iterator of null columns.
`Decoded` is a page as the page index selects it, with what the limited iterator of a
filtered page loses when a chunk ends within a run (section 4).
ParquetReader chains the parts of one `FileReader::next`: `OpenGroup` (RowGroupReader,
with the limit each of the two readers counts down for itself), one `TakeItem` or
`ReadPage` per column and page, `FinishChunk` (`Chunk::try_new`). `GiveUpGroup` is an
error, after which the iterator goes on with the next group. The bytes of a page, its
levels and the values are parquet2's.

### NestedColumn
Its first part has, next to each other, the levels the format prescribes for a column of
lists and structs (`Entries`, from the rows as trees) and those arrow2 writes:
`ToNested` makes the descriptors of the path to a leaf, `RepLevels` and `DefLevels` are
the two iterators with their stacks of what remains. The second part is
`nested_utils::next` and `extend`: the pages of a column one after the other, `EntriesOf`
the entries one `extend` takes, `PushEntry` one entry of a page, the queue of items
begun, and the arrays of lists and structs made of what is finished (`ArrayOf`). A
behaviour reads one column, from arrow2's writer (`WriteColumn`) or from another one
(`OtherWrites`), in chunks.

### Bitmaps; BitVectors
A byte is W bits, a chunk `ChunkBytes` bytes. Its first part has the bit counting and
the chunk iterators (`merge_reversed` of a shifted chunk with the next one).
The second is a program with variables (`Slots`) that hold a MutableBitmap (bytes of
its own) or a Bitmap (a window with a cached count) into one of the shared
regions. BitVectors is what `mutable.rs:13` says: vectors of booleans, each
variable its own; the refinement reads the value through the bytes.

### ArrayData
What an array is made of: a leaf is a record of values, offsets and a validity; an array
has its leaves, and offsets, a validity or types of its own. `Rows` reads its items as
the array types do, `Accepted` and `KeysHaveValues` are what their constructors check.

### MutableArrays
One array of one of nine kinds, from its creation to the immutable array made of it.
The item of a leaf is written by `WithItem`,
which is `try_push` of the five leaf arrays (`Stored`, then `Marked`: the validity
appears with the first null). `Refuses` and `AfterRefusal` are what the arrays turn
down and what they leave behind. Lists, fixed-size lists, structs and dictionaries
have leaves as children, and their own validity, offsets or map (`known`). The history
`items` is the vector the array should be. `torn` records a call that left part of an
item behind, or took more than one for one: the array is then only followed to where
it is frozen, to see whether that panics.

### Growables
One array grown from two others (`sources`) of one kind, from `make_growable` to
`as_box`. `UsesBits` and `ChildUses` are what each growable decides when it is made,
`BitsOf` is the closure it keeps for each array. `Pieces` lists the calls an extend makes
on a child: the values of a list's rows, the valid ones one by one if it has nulls, a
null of a struct, the rows of a dense union one by one. `MovedKeys` adds the place of an
array's values to its keys; `AllValues` are those of all arrays one after the other.
The history `rows` is what was asked for. A caller who asks for nulls has said so
(`use_validity`) or gives arrays with nulls: `Foreseen` is this precondition.

### SlicesIterator
The iterator over runs of set bits as the state machine it is: the byte at hand, the
mask, the state it is in, bit by bit, and whole bytes of one value at once. The filter
kernels and growables rest on it.

### ArrayViews, CInterface, SharedArrays
Here an array is what the program has: a tree of windows (`region`, `offset`, `length`)
into shared memory (`heap`). ArrayViews has, kind by kind, how an array is sliced, what
`try_new` checks (`...Fits`), and its rows, and then what `new_null` and
`new_empty` of every type make. SharedArrays has all the code that writes in place if it
finds itself alone: `get_mut` of a buffer and `into_mut` of a bitmap with the counts they look at
(`StrongCount` counts every part of every array that holds the region), `into_mut` of
primitive, boolean and utf8 arrays and the mutable arrays made of them, `unary` and
`binary` of `arity_assign.rs`, `apply_values_mut`. CInterface exports an array, with
the one offset its buffers must have in common and the copies made when they have not,
and imports it, every part keeping the exported structure alive (`owners`).
It is a program with `Handles`: one action per call, the history `shown` what
each handle should show. A chain of owners (an imported array exported again) and what
is kept by a part alone are reached.

### Arithmetics, Selections, Comparisons, Sorting
Kernels are functions: a behaviour makes one call and has one result (`Call`), and the
properties compare the result with a definition row by row. The operators follow the
code, not the definition: `arity` with the values behind nulls, masks word by word and
lanes with a remainder, `filter` by bytes of the mask, the unstable sorts and selections
with a limit as a choice of the orders they may leave, decimals with their precision and
rounding, times in units that do not divide each other. Durations and timestamps are
multiplied as floats, which the code does even where the units are the same: `Rounded`
is the nearest float of `FloatBits` bits, and `Cut` rounds the operand and the product
and cuts it. The power of ten of a precision is an integer that may overflow
where precisions grow (`NativeMax`). Integers have a least and a
greatest value that are not symmetric, so that negation and division overflow.
Arms of a CASE that overlap are meant in their order, as TLC takes them; TLA+ itself
leaves open which of two true arms is taken, so what the theorems reach has arms that
exclude each other, or agree, or is written with IF and ELSE.

### MergeSort
The merge of slices is an iterator, and the model takes its steps: `next` of each of the
nested iterators of up to four arrays, the run at hand, which side it is of, and
`has_started`; rows are compared by one or two columns, and may be taken under a limit.
A row that an array does not have makes a comparison panic unless the other one is null;
an empty array is taken to have no validity.

### DataTypes, Schemas
A type is its name, parameters, fields and the type inside it. Each format has both
directions as two operators, translated one from the writer and one
from the reader; IPC has the ids of the dictionaries with the field, Parquet the
repetitions, physical, logical and converted types. The conversions compose them to
`write; read` and to `read; write; read` of what other programs write.

### Casts
`cast` of an array to a type, kind by kind as `cast/mod.rs` dispatches, next to
`can_cast_types` as it stands there. A text is what it says (a number, a time, a word),
not its characters. A float is not a number, infinite, or a number of `Parts` of one,
rounded to `SingleBits` or `DoubleBits`; a Float32 of `LeastInfinite` or more is infinite.
Floats too small for their exponents are left out, and a power of ten is taken
to be a float (in the code, up to 10^22).

## 3. The runs

| Run | Question | Bounds and why they are enough |
|---|---|---|
| file_writer | Does whoever opens the file see a whole finished session or nothing, across appends, refused chunks, torn writes and crashes? Which refused chunks lose dictionaries? Also checks the inductive invariant of the proofs. | Three chunks, two columns with own ids, two dictionaries (equal, replaced), two appends (an append of an append), one fault. A chunk is refused before, between and after its two dictionaries (`Stops`). A footer of three cells outlasts one overwriting message. |
| file_writer_tracked | *violated*: the tracker has what has been written. | One chunk, no fault. |
| sinks | Do the sinks of IPC write FileWriter's and StreamWriter's bytes, whichever polls drive them? Does a clean close of any sink leave a file that reads back everything, or end the stream once? Does an awaited close return? | A behaviour is one of the three sinks. Three chunks: a task before, during and after close; one I/O error. Parquet: two columns, each of which may fail in the two ways, two metadata entries, so that one may come too late. |
| file_sink_close | *violated*: "the footer is automatically written when the sink is closed". | No fault needed. |
| ipc_stream | Is a stream, made visible in any portions, a channel, and does everything arrive? Is an asynchronous reader that sleeps always registered? Also checks the inductive invariants of the proofs. | A behaviour has one of the two readers. Two chunks with two columns: every pair of equal and replaced dictionaries; two calls of start or finish out of order. |
| ipc_stream_waiting | *violated*: after Waiting nothing was lost. | One chunk. |
| async_stream | The same for AsyncStreamReader. | Two chunks, no dictionaries (see the finding). |
| async_stream_dictionary | *violated*: a stream with a dictionary arrives. | One chunk. |
| file_readers | Does each chunk of an IPC file hold the first rows of the requested columns in the requested order? Does each chunk of a Parquet file hold, in every column, the rows after those of the chunk before, with nothing left out unreported? Do both iterations end? Is a nested column read back as it was written? | A behaviour is one of the three. IPC: every layout, alone and nested one deep (two for the mixed ones), before columns of other layouts so that a misaligned queue shows, structs and unions between them too; every projection of one or two of three columns, two of all out of order, the empty one and a duplicate; no limit, none left, a limit inside the first and inside the second batch; a whole and a sliced batch; both metadata versions; one fault. Parquet: groups of 0, 3, 4 and 5 rows whose columns of values, dictionary keys and nulls are cut into different pages, and a group filtered by a page index; chunks of 1, 2, 3 and all rows, so that pages end inside chunks and chunks inside pages; limits before, inside and after the first group; the three columns, two in another order, none; one error. Nested: a list or struct of a leaf, each in each other, and a struct of a leaf, a struct and a list, optional or not at every level; rows of up to three entries and lists of up to two items, with and without nulls, cut into two pages anywhere; chunks of one and two rows. |
| arrays | Do five calls on two variables behave like vectors of booleans? Is an array built item by item the vector of what it was given, and never one whose freezing panics? Does an array grown from others have the rows asked for? Are the runs of a bitmap its runs of set bits? Is what is written through one array never seen in another that shares its buffers? | A behaviour is one of the five. Bitmaps: bytes of two bits and chunks of a byte: four bits behind an offset cross both kinds of boundary and leave a remainder; three bytes of a word that no shift maps to itself, owned or foreign. Five calls reach slice, clone, into_mut, extend, operate in any order. Arrays: any calls while there are at most three items, so each call meets an array with and without a validity, with and without nulls; strings of no and of two bytes against a largest offset of three, three values of a dictionary against two keys; items of the wrong size. Growables: every pair of arrays of two or three rows of ten kinds, with nulls, with a validity without nulls, without one; a slice, a null row that has values, dictionaries of one and two values against two keys; every range of rows and nulls, up to three rows, with and without use_validity. Shared arrays: 21 arrays of every kind, of vectors of their own, made by new_null and new_empty, or one level deep, in two handles; four calls are enough for a clone or slice, an export, an import and a call that writes, in any order (five were tried with the same result: 185,000 states of this family alone). |
| kernels | Do the kernels give what their definitions say row by row, for every flavour of overflow? Do sorts and merges give sorted rows, each once? Do schemas and casts keep what they say? | One initial state per call. Numbers of five bits with base 2 and precisions up to four, whose power of the base they do not have; floats of three bits and units three to one, floats of four and five bits in casts, so that exact and rounded numbers both occur, and infinite ones; two rows with every validity, three rows where order matters, five for lanes and bytes of a mask; offsets at and beyond the length; every pair of types for casts, every type and one level of nesting for schemas, two levels around two of them. Every pair of numbers is tried without nulls; with nulls, pairs of the limits and of small numbers. |
| bitmaps_spare | *violated*: the same for a buffer longer than its length needs. | As arrays, starting from nothing. |

Deadlock checking is off in every run because each has bounds after which nothing
is left to do (a file finished, chunks used up, calls used up).

## 4. What does not hold

Five runs show a sentence of the repository violated by its code:

* **file_writer_tracked**: `encode_dictionary` records a dictionary before it is encoded
  (`write/common.rs:47`), and an error after that -- a missing id, children that do not
  match, of the dictionary's own values (51) or of a later column -- makes
  `write` return with nothing written. The tracker, which "keeps track of dictionaries
  that have been written" (line 310), keeps it, and later chunks are written without it.
  `write` takes the caller's `ipc_fields`: one call with fields that do not fit and
  another with the right ones are enough. (With the default fields a chunk whose types
  are refused is refused every time.) What the run file_writer and a proof add is that
  this is all: only a refusal before the first record of a session loses a dictionary,
  because every chunk has every column: after a record every id is on the file, and a file
  replaces none.
* **file_sink_close**: `start_send` takes the writer before `encode_chunk` can
  refuse the chunk; `poll_close` then finds no writer and returns `Ok` on a file
  without a footer (`write/file_async.rs:198-233`).
* **ipc_stream_waiting**: half of a continuation marker is consumed and reported as
  Waiting; the next call reads out of step (`read/stream.rs:105`).
* **async_stream_dictionary**: a dictionary message is reported as Waiting, which
  `poll_next` maps to `Pending` without a waker (`read/stream_async.rs:233`). A
  transport that ends without an end-of-stream mark has the same outcome
  (line 86).
* **bitmaps_spare**: `push` and `extend` write to the last byte of the buffer, which
  `make_mut`, `into_mut`, `try_new` and an empty iterator leave beyond the length
  (`bitmap/mutable.rs:521`). The run arrays assumes callers do not extend such a
  bitmap (`SpareBytes = FALSE`); it covers all other operations on it.

Other cases the models name and set aside, so that the properties can be stated
for the rest:

* Two columns under one dictionary id (a caller's own `IpcField`s): a refused chunk
  leaves a dictionary tracked but unwritten (`write/common.rs:350`), also after a record, and in a
  stream a record follows the wrong dictionary. `UniqueFields` excludes it.
* `Exact` in IpcFileReader: a null column under a limit that cuts its batch
  (`remaining -= chunk.len()`, `reader.rs:113`), a sparse union written from a
  slice (`write/serialize.rs:290`), a union skipped in a file older than V5.
* In ParquetReader: `FileReader` counts its limit down by the rows of the group it is
  about to read instead of those it has given (`parquet/read/file.rs:49`): groups of 3
  and 5 rows under a limit of 4 give 3 rows, although the iterator is said to go on
  "until either the limit or the last iterator ends" (line 16). NothingLeftOut asks
  for the limit only if no group is larger than the first (`FirstIsLargest`); TLC
  finds the example at once without that condition.
* `Sound` in ParquetReader: a run of a filtered page that the end of a chunk cuts is
  taken up again from its own beginning (`deserialize/utils.rs:161`), and not at all
  if it is the page's last (line 111); a page of a null column that cannot be read
  ends the column without an error (`null.rs:19`), and a null column does not see the
  page index (`null.rs:23`).
* A projection that leaves out a sparse union panics (`read/array/union.rs:114`);
  the model has the panic as an outcome.
* A finished file without record batches cannot be appended to
  (`append/mod.rs:39`), although lines 20 to 22 say that the call fails only for an
  invalid file or another endianness. TryFromFile has that guard.
* In MutableArrays, `torn`: a list whose child refuses an item keeps the items before it
  (`list/mutable.rs:91`); a utf8 array keeps the bytes it has no offset for
  (`utf8/mutable.rs:553`); a dictionary keeps the key of a value that was refused
  (`dictionary/mutable.rs:105`), so `as_box` panics; a fixed-size list takes twice its
  size for one item (`fixed_size_list/mutable.rs:84`). And without any failure: `as_box`
  of a dictionary array of nulls only panics (`dictionary/mutable.rs:159`), and an
  offset that overflows in an extend is not noticed in a release build
  (`physical_binary.rs:136`).
* In Growables: a dense union keeps the offsets of the arrays it is grown from, although
  they count in the children of those arrays (`growable/union.rs:78`): rows from a second
  array, or from the middle of one, read other rows; `extend_validity` of a union adds
  nothing (line 89). GrownIsConcatenation excepts both; without that TLC finds one row
  taken from the middle of a dense union. A dictionary panics when its keys are too small
  for the values of all arrays together, which the code says it does, but also in a
  debug build when nulls are asked for and no array has a value (`growable/dictionary.rs:93`).
* A corrupt or unreadable dictionary makes `next` return the same error for ever
  (`reader.rs:97`); faults are bounded in the model, so the iteration ends.
* A sink that lost its writer to an error closes with `Ok`: also the Parquet FileSink,
  on a file without a footer (`parquet/write/sink.rs:198`). A column that
  `array_to_columns` refuses makes a poll of that sink panic
  (`parquet/write/row_group.rs:39`).

**Nested Parquet columns** (NestedColumn):
* A null struct over a required leaf: the array's constructor panics when it is read
  back, unless all rows are null (`Misfits`).
* The writer counts a struct above a list as a repetition level; it writes an empty or
  null list in a list with the level it is entered from and does not take it off what is
  left of its parent (`nested/rep.rs:117`); its definition levels are sums, so a null
  struct whose child is valid behind it reads back as a valid struct. `Writable` says
  what is left.
* All items behind nulls and in front of slices of lists are written as values; a large
  nested column is split into pages but its levels are not.
* `next_dict` of nested dictionaries goes on filling a full chunk; under a limit the
  rows that remain underflow. Nested dictionary keys are read `as i32`.
* A nested dictionary is written with the levels of the validity of its keys but the
  values filtered by another; a map is read with the offsets 0 and its length, a
  fixed-size list without any.

**Shared arrays** (CutShort and PanicsHaveAReason in SharedArrays):
* `get_mut` looks at the offset of a buffer, not at its length (`buffer/immutable.rs:150`):
  `into_mut` after `slice(0, n)` gives back the rows that were cut off, or panics on
  lengths that differ; also when a utf8 array turns out to be shared (`Left`).
* Exporting an array panics if a child has its validity and its values at different
  offsets, as after a slice, `unary` into a new vector, and a wrap in a struct; importing
  a sliced union panics. A text array over a slice of its bytes is exported as the bytes
  from the start of the vector (`IsMisread`).
* `new_null` and `new_empty` of struct and union arrays match the type and not its
  logical type: extension types panic. `new_null` of a union uses the id 0, whether or
  not it has it. `NullArray::slice` checks nothing. `try_new` of arrays with offsets says
  the last offset must equal the number of values, and checks that it is not larger.

**Mutable state of iterators**: merging with an empty array may panic, with an empty side
loses slices; a descending merge turns nulls around, which the sorts do not
(`merge_sort/mod.rs:3` to 5); a merge is not stable, and neither is `lexsort`, said to be.

**Kernels**, where the properties make the exception explicit:
* Durations and timestamps go through floats (`time.rs:116`, 141, 197, 220, 270, 309), also
  where both have the same unit. From 2^53 on -- timestamps in nanoseconds of this century --
  the last bits of the operand are lost, and a difference is wrong by ticks; a product is
  rounded before it is cut, so 100 days less a nanosecond move a Date32 by 100 days.
  TimesMoveByTicks is exact where all numbers fit a float and the operand's unit is not the smaller one, and
  elsewhere allows what three or four roundings do; it does not hold without that.
* The largest number of a precision overflows `i128` above 38 digits
  (`decimal/mod.rs:21`), where the adaptive kernels may get to: they panic, or without
  checks compare with a wrapped number.
* `filter_chunk` of two and more columns keeps rows whose mask is null
  (`filter.rs:240`, `:258`), which `filter` does not.
* `eq_and_validity` and the like compare what is behind two nulls. Comparing a dictionary
  array with a valid scalar panics though `can_eq_scalar` says yes.
* `take` of lists reads the index behind a null, and panics if it is too large.
* `saturating_mul` gives the largest value for a negative overflow
  (`decimal/mul.rs:162`); `saturating_div` gives 0 for a division by zero, said to panic;
  subtracting a null timestamp keeps the timestamp's type.
* A primitive sort with a limit leaves the other rows behind (`primitive/sort.rs:38`).
* `can_add`, `can_sort`, `can_neg` and `can_partial_eq_scalar` claim types for which the
  kernel is not written: decimals, intervals, half floats.
* `Bitmap::get_bit` is said to panic iff the index is too large; it does only as far as
  the bytes go.

**Schemas** (the properties say which features each format loses):
* IPC: `default_ipc_field` puts the ids of a dictionary's nested values one level too
  deep; an extension or a dictionary directly in an extension or a dictionary loses one
  of the two.
* C: an extension of a nested type is exported without children; MonthDayNano and times
  in units they cannot have panic; a union without ids reads back with 0 to n.
* JSON of the integration tests: dictionaries, unions, maps, metadata and extensions
  written by arrow2 cannot be read back by it.
* Parquet: a group with the converted type Map is read as a map of a list of structs; a
  list group of several fields is read by its first.
* Avro: a nullable Null is refused, maps are `todo!`, timestamps read as UTC cannot be
  written back.

**Casts**:
* Booleans to utf8 and binary lose their validity. The limit of a decimal's precision is a
  power of 9 (`decimal_to.rs:17`), neither that of its digits nor of one more: 50 passes as
  a Decimal(1, 0), although values are said to be "`None` on overflow" (line 34), and from
  21 digits on numbers of the type become null. CastsAreByRow has limits of its own:
  numbers with the digits of the type are kept up to `KeptPrecision`, numbers of two digits more
  never are, and what is in between may be either.
* An integer with more bits than a float is rounded to it (2^53 + 1), and a Float64 too large
  for a Float32 becomes infinite, although "overflowing cast will be None"
  (`cast/mod.rs:355`). The property asks for the nearest float, infinite if there is none.
* A float that is not a number, or too large, panics when it is cast to a decimal.
* Days and milliseconds become months, days and nanoseconds multiplied by 1000, said to be
  lossless; Time32 to a coarser Time64 gives zeros.
* LargeList to List wraps its offsets; a list of one item each is made without validity.
* Timestamps before 1970 with a fraction panic when they are turned into text; the text of
  a naive timestamp cannot be parsed back; "-01:30" loses the sign of its minutes; the
  offset of a text is ignored; a word parses as 0 if the partial option is set.
* Wrapped dictionary keys may point at other values; keys are cast to i32 when a
  dictionary is unpacked; an ordered dictionary becomes an unordered one, which panics in
  a list; several casts that `can_cast_types` claims are refused (dictionaries to other
  value types, Time32 from Int32 in micro- and nanoseconds, Time64 from Int64 in seconds
  and milliseconds), and the property lists them.

## 5. Fairness

Safety runs need none. Liveness is stated of six modules:

* IpcStream: `Deliver` (a transport delivers what was written) and `Read` (the caller
  goes on calling `next`). The writer is not fair: it may stop at any time, and
  what it has sent must still arrive.
* IpcAsyncStream: the transport delivers and closes, and an executor polls what was
  woken (`Run`). A poll needs `woken`: fairness alone never revives a stream that
  sleeps without a waker, which is what the violated run shows.
* IpcFileSink, IpcStreamSink, ParquetSink: the tasks are polled while a `close()` is awaited (a
  future that is awaited is polled again whenever its I/O wakes it). Nothing is
  fair while no one awaits.
* IpcFileReader, ParquetReader: the caller calls `next` until it returns None. The steps of one call
  follow each other, so a step of Next is taken infinitely often as long as the
  iteration is unfinished.

## 6. What is proved

TLAPS proves, for every set of ids, dictionaries, keys and columns, every footer size,
every width of a byte and every bound:

| Theorem | In | Statement |
|---|---|---|
| Inductive | IpcFileWriterProofs | `Contract` implies `Spec => []IInv` |
| FileReadsBack | | `Spec => []FooterReadsBack`: a file with a footer reads back the last finished session, chunk for chunk, dictionary for dictionary, unless a record was written without a dictionary that a refused chunk had lost |
| RefusalsLoseEarly | | `Contract` implies `Spec => []OnlyEarlyRefusalsLose`: between calls the tracker holds only dictionaries a reader finds, but for what chunks refused before the first record have left there |
| FileWriterIsAtomic | | `Contract`, and `Unreadable` no sequence of chunks, imply `Spec => FileIsAtomic`: IpcFileWriter implements AtomicFile |
| SinkIsSafe | SinksProofs | `Spec => []SinkInv` of IpcFileSink: where the writer is, what is on the file and what the task has still to write agree through every poll, error and abandoned call |
| SinkImplementsFileWriter | | `Spec => SinkIsFileWriter`: IpcFileSink implements IpcFileWriter |
| ClosedSinkReadsBack | | `UniqueFields` implies `Spec => []ClosedReadsBack`: FileReadsBack, carried over to the sink |
| ParquetSinkIsSafe | | the same of ParquetSink: `[]SinkInv` |
| ClosedParquetReadsBack | | `[]ClosedReadsBack` of ParquetSink: after a clean close the footer names every row group accepted, and the metadata are in it or still in the sink |
| WritersKept, ClosesFinal | | `SinksSpec => []WritersAreKept`, and with `UniqueFields` `[]ClosesAreFinal`: the invariants of the run sinks, for the three sinks together |
| SinkWritesStreams | | `SinksSpec => SinkIsStreamWriter`: the stream sink among the three implements IpcStreamWriter |
| SinkIsSafe, ClosedSinkIsFinished | IpcStreamSinkProofs | `[]SinkInv` and `[]ClosedIsFinished` of IpcStreamSink: a clean close has written the one mark of the end, last |
| SinkImplementsWriter | | `Spec => SinkIsStreamWriter`: IpcStreamSink implements IpcStreamWriter |
| SinkSendsItsChunks | | `UniqueFields` implies that the wire of the sink always satisfies `WriterInv`: every record is the next chunk accepted, behind its dictionaries |
| StreamIsSafe, StreamFailsForAReason | IpcStreamProofs | `UniqueFields` implies `Spec => []StreamInv`, and `[]FailsForAReason`: the reader fails only if it met the end inside a message, or `start` or `finish` was called out of place |
| StreamImplementsChannel | | `UniqueFields` implies `Spec => StreamIsChannel`: chunks arrive whole, in order, once, and the end after the last |
| AsyncStreamIsSafe, AsyncStreamImplementsChannel | | `UniqueFields` implies `AsyncSpec => []AsyncStreamInv` and `AsyncSpec => AsyncStreamIsChannel`: the same of AsyncStreamReader |
| NoWakeupIsLost | | `AsyncSpec => []WakeInv`: while the future of AsyncStreamReader reads, it is polled, woken, or registered with a transport that has nothing for it yet |
| BitmapsAreKept | ArraysProofs | `Spec => [](BitmapsInv /\ UnsetIsCached)`: windows lie in whole bytes, unused regions are freed, cached counts of unset bits are right |
| BitmapsImplementVectors | | `~SpareBytes` implies `Spec => BitmapsAreVectors`: Bitmaps implements BitVectors |
| RunsAreRight | | `IsBitmap(bitmap)` and `SlicesSpec` imply `[]SlicesAreTheRuns`: the slices returned are the runs of set bits, whole, in order, none left out |
| ParquetChunksAreConsecutive | | `ParquetSpec => []ChunksAreConsecutive`: the columns of a chunk are equally long, and each holds the rows of its column after those of the chunk before; a chunk shorter than it could be is the last of its row group |
| ParquetLeavesNothingOut | | `ParquetSpec => []NothingLeftOut`: no panic, every error reported once, and at the end every group without an error has given all the rows its limit leaves it |
| LogicByRow | KernelsProofs | `LogicSpec => []LogicIsByRow`: boolean and Kleene logic of arrays and scalars, the null tests, any and all, for arrays of any length |
| ArithmeticByRow | | `ArithmeticSpec => []ArithmeticIsByRow`: add, sub, mul, div, rem, neg and pow in each of their flavours, for arrays of any length and integers of any width |

### What is assumed
* `Contract`, of the caller of FileWriter: distinct dictionary ids (`UniqueFields`;
  `default_ipc_fields` numbers them) and a writer dropped after an I/O error. Without
  either the properties are false (section 4). The sinks need the first only: they drop
  a writer that fails by themselves.
* `ParquetAssumption`: the number of columns is a natural number, and the mark of a column
  that cannot be encoded is not the value of one.
* `IsBitmap`, of what the iterator over runs is given: whole bytes, an offset inside the
  first of them, and a length that fits. `Bitmap::as_slice` gives this; `bitmap` is a
  variable that no step changes.
* `~SpareBytes`: no one extends a bitmap with bytes to spare. The run bitmaps_spare
  shows that the refinement is false without it; BitmapsAreKept does not need it.
* `IsFiniteSet(Slots)`: a program has finitely many bitmaps, so that there is always a
  region for one more (`FreeRegion`: n + 1 regions for n slots, each of which uses one
  region at most).

* `FilesAssumption`, `RowsAssumption`, `ArgumentsAssumption`, of what FileReader is given: a
  file is a sequence of row groups whose columns have as many rows as each other, and
  as their group says unless a page index filters them; dictionary pages hold no rows;
  the columns asked for exist; a file has fewer rows than a `usize` counts to; chunk
  sizes are positive. TLC evaluates all three for the files of the run.
* `MarksAssumption`, of the kernels: the marks for a null and for a panic are no values,
  and a panic is no array. LogicSpec and ArithmeticSpec begin with any call of their
  kernels (`LogicCalls`, `ArithmeticCalls`): arrays of any length, with any validity or
  none, whose lengths may differ. The calls of the run kernels are among them (assumed
  in MCKernels, so evaluated by TLC).

### The file writer
FooterReadsBack is not inductive: it says nothing of a file while a writer is at
work on it. IInv (the last part of IpcFileWriter) adds

* `SessionInv`: the blocks of the live writer, wherever `finish` has moved them, read
  back as `accepted`, lie below `blockOffset`, and no id has two dictionary blocks;
* `PositionInv`: the writer stands at `blockOffset` (one cell further inside
  `finish`), and no more than an old mark and footer lies behind it;
* `NoStrayFooter`: the only footer cell is the last footer's. This is the point of the
  argument: a footer left inside a file overwritten in part would make a torn
  append look like a finished file;
* `UntouchedInv`: a footer seen while a writer is at work is the one it reopened, with
  its own blocks;
* `TrackerInv`: the tracker is the dictionaries on file plus the pending and the lost ones;
* `LostInv`: a dictionary is lost only while the session has no record, and is not
  among those being written;
* `CallInv`, `NewInv`, `FooterInv`: calls only on live writers, a new writer is empty,
  and a footer's blocks lie below it and read back.

All of this is `Intact`, and IInv asks for it until a session is `spoiled`: of a file with a
record whose dictionary is missing nothing more is said. Refusals are any (`Stops`).
The proof has a lemma for each action, over lemmas on writing (`WriteAtProperties`,
`PayloadKept`, `PlainWrite`), on blocks (`DictOfAppend`, `BlocksKept`, `SessionKept`)
and on the tracker (`SeenOnce`, `TrackedOnce`). TLC checks IInv in the run file_writer.
What only concerns `encode_chunk` (the columns in ascending order, the dictionaries
emitted, what the tracker has afterwards) is in IpcEncodingProofs and used by the
writers and the sinks.

FileWriterIsAtomic stands on IInv, which says what the mapping
evaluates to (`View`): the log of the session is `accepted` while a writer is live, and
the file opens as `committed` when it ends in a footer. Then each action is a step of
AtomicFile: a write without a footer cell cannot make a file open that did not
(`PlainWriteBreaks`), so it keeps or breaks the file; the footer is the last thing
`finish` writes (`FooterIsLast`), so it shows all of the session at once; a dropped
writer leaves no error behind (`DroppedIsWhole`, an invariant of its own), so
`try_from_file` takes up the session on file.

### The sinks
A sink keeps no list of what is on the file, so SinkInv has to say for every task and
every number of its messages written where the file ends (`FileIsOfTheTask`), which
offset and blocks the sink has meanwhile (`OffsetIsOfTheTask`), that the columns of the
dictionaries to write are those of the last chunk accepted (`TaskIsOfTheChunk`), and that
the writer is in one place (`OneWriter`). It is inductive. SinkImplementsFileWriter then
goes through the actions: `StartSend` is FileWriter's `Write` (or `WriteRefused`, after which the sink has no writer, so
that what the refusal lost spoils no record), each
`PollTask` one of its writes, and what takes the output of a task (`PollReady`,
`PollClose`) changes nothing of the file. ClosedSinkReadsBack is FileReadsBack
of the writer so mapped. IpcStreamSinkProofs has the same for a stream.

That a Parquet file reads back is not in SinkInv at all, as the streamer of the sink
counts groups and not chunks. `ParquetInv` (in SinksProofs) adds where the groups lie that
the streamer, in the sink, in the write task or in the finish task, has counted, and that they
hold the chunks accepted (`GroupsHold`), up to the one the write task is at
(`WriterInWrite`); once the writer is gone without an error, that the footer is there
(`WriterGone`).

In MCSinks the sinks are instances with variables of their own. An instance inside
another module has, for the provers, operators of its own for what IpcEncoding defines;
the lemmas `Same...` say that they are the same, so that each theorem is proved of a
component once. SinkIsStreamWriter is proved of IpcStreamSink (SinkImplementsWriter) and
carried over to its instance in MCSinks (SinkWritesStreams): where the behaviour is one
of another sink, this one and its wire stay as they were.

### The streams
WriterInv (in IpcStreamWriter) says what is on a wire: cells in the order of messages
(`Framed`), cut by an error at the end only; each record that of the chunk sent then, its
dictionaries the last ones in front of it (`RecordsAreSent`); the tracker what the stream
defines, except for what the call at work has tracked and not yet written
(`TrackerIsDefined`): with a tracker that kept more, a dictionary would be left out, and
a record read with an old one. The reader's half of StreamInv: it stands between two
cells of a message where its phase says (`ReaderIsInPlace`), and its dictionaries and the
number of its chunks are those of the cells it has consumed (`ReaderKnows`), so
the record it reads next is the next chunk sent. The cells consumed are never
written again, so what the writer does behind them leaves this true (`KnowsKept`).
That a reader has fallen half a marker behind is part of the invariant (`cut`).
TLC checks StreamInv in the run ipc_stream.

NoWakeupIsLost: WakeInv is inductive as it stands, TypeOK with NoLostWakeup. Each
read of the future either goes on or leaves the poll with its waker registered and
nothing available, and the transport wakes what is registered when it delivers or
ends. The future that has completed with Waiting is
not reading, so the theorem does not contradict async_stream_dictionary.

### Bitmaps
The first part is about bits. A number of bits is whole if it is that of some bytes;
`count_zeros` over a byte, bytes in between and a last byte is the number of unset bits at
those places, for every offset and length (`CountZerosIs`); `merge_reversed` of two
chunks is a chunk at a bit offset (`MergedIs`), so the chunk iterators, and the remainder
after them, yield the bits from any offset (`BitChunksIs`, `BitChunksExactIs`, `ChunksIs`).
From these: what push, pop and the four ways to extend leave in the bytes (`PushedIs`,
`ExtendedFromSliceIs`, ...), what `not`, `and`, `or`, `xor` make of two windows at
different offsets, and what the assigning ones leave in place (`NegatedIs`, `CombinedIs`,
`AssignedIs`).

The second is about the program. Inv says what the operations need of each slot: a
mutable bitmap's bytes are whole and hold its length; a window lies in the bytes of
its region, and its cached number of unset bits is counted over the bytes and not
over the window's value, which is what lets `slice` subtract what it cuts off; a region
that no slot uses is free. There is one lemma per operation (`PushStep`, `SliceStep`, ...),
which gives Inv and the step of BitVectors at once; that the other slots keep their
value is in `Elsewhere`: a region is written only when it was free or is taken out of
the memory by its only user.

The iterator over runs: SlicesInv says that the bits from `start` on that it has read are
one value, those between the last slice and `start` are unset, and the mask
stands at the bit after them (`AtNextBit`), which is how it comes to pass whole bytes at
once only at their beginning, and over the end of the bitmap in the last byte
(`PassByteStep`).

### The Parquet reader
ChunksAreConsecutive speaks of what was given, and follows from what the queues of the
columns hold. ReaderInv is
`InputsInv /\ (Sound => StageInv /\ GivenInv /\ GroupInv)`. GroupInv says that the columns of
the open group are in step (`InStep`): each column is at the same number of rows given,
`a`, and one more chunk for the columns in front of the one being collected; its queue
holds the rows a to d of its own stream in pieces of the chunk size, all but the last
full (`Queue`), and the pages not yet decoded are those behind row d (`Decoding`). So a
page that ends inside a chunk, and a chunk that ends inside a page, differ only in where d
is. A column is opened at row 0 (`ColumnOpens`), decodes a page (`ColumnReads`:
`extend_from_new_page` fills the last piece up and begins new ones), hands out the next rows
(`ColumnGives`), and is never without rows to give or pages to read before its last row
(`ColumnHas`), whether of values, dictionary keys or nulls. GivenInv says the same of the results. `Sound` excludes what
section 4 lists; once it is false it stays false.

NothingLeftOut counts. LimitInv adds to it that the errors given are the errors there were
(`FailInv`), what the two readers still count as allowed (`CountInv`: FileReader does not
count the first group, so without `FirstIsLargest` its count may be too low), that what was
given of a group and what is left of it is its share under the limit (`TotalInv`), and that
a reader ends only when nothing is (`EndInv`). The sums are SumAll, by lemmas on prefixes
and on one changed place; TLC checks both invariants on the run file_readers.

### The kernels
A behaviour is one call, so an invariant of the call is what the kernel computes. Both
theorems are lemmas on rows, one for each kernel: an array as the property reads it
(`LeafMade`, `LeafItems`) against values and validity as the kernel makes them.
LogicByRow decides each of Kleene's kernels by the bits it combines (`CombinedBits`), with
and without a validity on either side, and the scalar kernels by the shortcut they take
(`AllAlike`); any and all are exact, and a panic is exactly an unequal length.
ArithmeticByRow is about the values behind nulls too, as the code computes them: of each
flavour, that a row is what `Promised` says if the row is there (`CollectedAnswers`, `MarkedAnswers` and the
lemmas `RowsAreKept`, `ComputedIsPromised`, `NullsAreNotDivided`), and that a panic comes
from a row that has no result, a null one included; and about integers, that a quotient and a remainder of two of them
have the sizes they should (`RestIsBetween`): only -MinInt and MinInt / -1 overflow.

Stating these found a flaw of the model and none of the code: two definitions (`Promised`
and `Div`) had overlapping arms with different values.

### What is only model-checked
* All liveness (EverythingIsReceived, EverythingIsYielded, ClosesReturn, ReadersEnd) and
  whatever needs ENABLED.
* ArrayViews, CInterface and SharedArrays, MutableArrays' and Growables' children,
  IpcLayout and IpcFileReader, NestedColumn, the schemas and the casts: what they compute is
  defined by recursion over types, arrays or levels, which TLAPS cannot reason
  about by induction here.
* MutableArrays, Growables and MergeSort: their queues and arrays are put together with
  folds and flattened sequences, which would need induction.
* The other kernels: decimals and times (a power of the base for each scale, defined by
  recursion), selections, comparisons, sorts and merges (folds over rows, and a choice of
  orders for the unstable ones).

## 7. What is left out of the modelled parts

* Bytes below a cell, flatbuffer contents, alignment and compression. Errors of
  malformed input appear as read errors (or, for IpcFileReader, as queues that are
  too short), not as input of their own.
* The caller of a stream reader stops after an error, and calls
  `read_stream_metadata` when the first message can be read.
* Chunks refused by StreamWriter and StreamSink, for ids and types that do not fit.
* Column projection of the stream readers (that of the file reader is the same code),
  and the bytes of nested dictionary columns: ids are listed per column in order (the ids
  of nested dictionaries in a schema are in Schemas).
* Bitmaps: `ZipValidity`, operations of three and four operands, the fallible
  constructors, and 64-bit chunks as such (the code is generic in the chunk; the models
  use one byte).
* Parquet: statistics, and the asynchronous functions of `row_group.rs`, which read the
  same bytes before the same iterators are made; the bytes of pages and the encodings.
  Nested columns: FixedSizeList and Map, dictionaries of them, pages cut by size.
* MutableArrays: children of children, hash collisions of a dictionary, the constructors
  from parts, and calls on an array that a failed call has torn or as_box has emptied.
* Growables: null arrays, children of children, a growable used again after `as_box`.
  Offsets added up unchecked (`growable/utils.rs:11`): a run ends where they overflow.
* SharedArrays: equality and display; FFI structures made by another producer, a consumer
  that moves children out before the release, the stream interface (`ffi/stream.rs:175`:
  the string of get_last_error is valid only until the next call).
* Kernels: floats (but for what casts and times do), calendars (`add_interval`), regular
  expressions and LIKE, hashes, lengths, substrings, aggregates.
* Schemas: metadata beyond its presence; names are model values.
* Components with status `not_modelled` in PROJECT.json, each with its reason there.

## 8. Plan

1. **Proofs**: the copy-on-write invariant of SharedArrays for arrays of one buffer (a region
   written in place is in one handle only); comparisons, whose lanes are filled up at the
   end; the chunks of IpcFileReader, once IpcLayout's recursion over types is a function
   on the depth of a type.
2. **Kernels**: aggregates (their lanes and their sums over nulls), `temporal.rs`.
3. **FFI**: the stream interface as a producer and a consumer with the error string
   between them; a consumer that moves children; memory mapping, over IpcLayout.
4. **Parquet**: nested dictionaries with nulls, FixedSizeList and Map in NestedColumn.

New questions share runs where they can, so that the table of section 3 stays one row
per question worth asking.

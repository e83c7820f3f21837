----------------------------- MODULE IpcEncoding ------------------------------
(***************************************************************************)
(* What the IPC writers put on a file and what the IPC file reader makes   *)
(* of it.  A chunk is abstracted to the keys of its dictionary columns and *)
(* the dictionary (a value) each column refers to; a record message holds  *)
(* the keys only, the dictionaries travel in messages of their own.        *)
(*                                                                         *)
(* The file is a sequence of cells, cut where write_message makes separate *)
(* writes: the 8 bytes of the header magic, the 8 bytes of a continuation  *)
(* (marker and length, also the end-of-stream mark), the payload of a      *)
(* message (flatbuffer and body) and the footer.  The footer takes         *)
(* FooterSize cells, its flatbuffer first: FooterSize = 1 is a footer that *)
(* one message overwrites, a larger one outlasts several messages.         *)
(***************************************************************************)
EXTENDS Integers, Sequences, FiniteSets

CONSTANTS
  Ids,      \* dictionary ids
  Values,   \* dictionaries (the values array of a DictionaryArray)
  Keys,     \* the keys of a chunk, all columns together
  Fields,   \* the dictionary id of each column (IpcField::dictionary_id)
  NoDict,   \* no dictionary known for an id
  FooterSize \* the cells of a footer

ASSUME FieldsAssumption == Fields \in Seq(Ids)
ASSUME NoDictAssumption == NoDict \notin Values
ASSUME FooterSizeAssumption == FooterSize \in Nat \ {0}

Columns == 1 .. Len(Fields)
Chunks  == [keys: Keys, dicts: [Columns -> Values]]
Tracker == [Ids -> Values \cup {NoDict}]

EmptyTracker == [d \in Ids |-> NoDict]

\* default_ipc_fields numbers the dictionary fields, so no two share an id;
\* a caller's own ipc_fields may share one.
UniqueFields == \A i, j \in Columns : Fields[i] = Fields[j] => i = j

\* The numbers of S in order.
Ascending(S) ==
  [n \in 1 .. Cardinality(S) |-> CHOOSE i \in S : Cardinality({j \in S : j < i}) = n - 1]

Greatest(S) == CHOOSE m \in S : \A n \in S : n <= m
-----------------------------------------------------------------------------
(***************************************************************************)
(* encode_chunk: DictionaryTracker::insert dictionary after dictionary, in *)
(* the order encode_dictionary comes to them, stopping at the first error. *)
(* insert refuses a replacement; encode_dictionary also refuses a missing  *)
(* dictionary_id and children that do not match the IpcField, which may    *)
(* lie between any two inserts (`stops`: after how many of them).          *)
(***************************************************************************)

\* What the tracker holds for the id of column i when it reaches column i.
Seen(tracker, dicts, i) ==
  LET same == {j \in 1 .. i - 1 : Fields[j] = Fields[i]}
  IN  IF same = {} THEN tracker[Fields[i]] ELSE dicts[Greatest(same)]

\* Ok(true): the dictionary of column i has to be written.
Emits(tracker, dicts, i) == Seen(tracker, dicts, i) # dicts[i]

\* cannot_replace: another dictionary was already written under this id.
Replaces(tracker, dicts, i) ==
  /\ Emits(tracker, dicts, i)
  /\ Seen(tracker, dicts, i) # NoDict

\* A bug: the dictionary is recorded before the replacement is refused.
InsertedBeforeCheck(tracker, dicts, cannotReplace) ==
  {i \in Columns : cannotReplace => \A j \in 1 .. i - 1 : ~Replaces(tracker, dicts, j)}

\* The columns insert returns Ok for, with and without replacement.
Inserted(tracker, dicts, cannotReplace) ==
  {i \in Columns : cannotReplace => \A j \in 1 .. i : ~Replaces(tracker, dicts, j)}

\* The tracker with the dictionaries of these columns.
Recorded(tracker, dicts, columns) ==
  [d \in Ids |->
     LET done == {i \in columns : Fields[i] = d}
     IN  IF done = {} THEN tracker[d] ELSE dicts[Greatest(done)]]

Tracked(tracker, dicts, cannotReplace) ==
  Recorded(tracker, dicts, Inserted(tracker, dicts, cannotReplace))

\* No replacement is refused.
Encodable(tracker, dicts, cannotReplace) ==
  Inserted(tracker, dicts, cannotReplace) = Columns

\* After how many inserts encode_chunk may return an error.
Refusals(tracker, dicts, cannotReplace, stops) ==
  {n \in 0 .. Len(Fields) :
     /\ 1 .. n \subseteq Inserted(tracker, dicts, cannotReplace)
     /\ n \in stops \/ n + 1 \in Columns \ Inserted(tracker, dicts, cannotReplace)}

\* A bug: a dictionary any other id already has is not written again.
EmittedByValue(tracker, dicts) ==
  {i \in Columns : /\ \A d \in Ids : tracker[d] # dicts[i]
                   /\ \A j \in 1 .. i - 1 : dicts[j] # dicts[i]}

\* The columns whose dictionary precedes the record message.
Emitted(tracker, dicts) == {i \in Columns : Emits(tracker, dicts, i)}

\* The ids n inserts recorded a dictionary for that an error now keeps from the file.
Left(tracker, dicts, n) == {Fields[i] : i \in Emitted(tracker, dicts) \cap 1 .. n}
-----------------------------------------------------------------------------
(***************************************************************************)
(* Cells, and writing at a position that may lie inside the file.          *)
(***************************************************************************)
Magic     == [kind |-> "magic"]
Cont      == [kind |-> "continuation"]
Schema    == [kind |-> "schema"]
Torn      == [kind |-> "torn"]
Dict(d, v)       == [kind |-> "dictionary", id |-> d, value |-> v]
Record(k)        == [kind |-> "record", keys |-> k]
Footer(ds, rs)   == [kind |-> "footer", dictionaries |-> ds, records |-> rs]
Trailer   == [kind |-> "tail"]

Blocks == Seq(Nat)
Footers == [kind: {"footer"}, dictionaries: Blocks, records: Blocks]
Cells ==
  {Magic, Cont, Schema, Torn, Trailer} \cup Footers
    \cup [kind: {"dictionary"}, id: Ids, value: Values]
    \cup [kind: {"record"}, keys: Keys]

MessageSize == 2      \* a continuation and a payload

\* A bug: the block offsets forget the magic in front of the schema.
HeaderSizeNoMagic == MessageSize

HeaderSize == 1 + MessageSize

Message(payload) == << Cont, payload >>

\* The flatbuffer of the footer, then its length and the closing magic.
FooterCells(footer) == [i \in 1 .. FooterSize |-> IF i = 1 THEN footer ELSE Trailer]

\* The cells that reach the file when the write of `cells` fails: some of
\* them, the next one perhaps in part, or all when it is the flush that fails.
TornPrefixes(cells) ==
  {SubSeq(cells, 1, n) : n \in 0 .. Len(cells)} \cup
  {Append(SubSeq(cells, 1, n), Torn) : n \in 0 .. Len(cells) - 1}

WriteAt(file, pos, cells) ==
  [i \in 1 .. (IF pos + Len(cells) > Len(file) THEN pos + Len(cells) ELSE Len(file)) |->
     IF i \in pos + 1 .. pos + Len(cells) THEN cells[i - pos]
     ELSE IF i <= Len(file) THEN file[i] ELSE Torn]
-----------------------------------------------------------------------------
(***************************************************************************)
(* Reading: read_file_metadata finds the footer at the end of the file,    *)
(* read_file_dictionaries reads the dictionary blocks in order (a later    *)
(* one replaces an earlier one), read_batch decodes a record block with    *)
(* those dictionaries.  A block is its offset; its payload is the second   *)
(* cell from there.                                                        *)
(***************************************************************************)
FooterStart(file) == Len(file) - FooterSize + 1

\* A footer overwritten in part does not deserialize.
HasFooter(file) ==
  /\ FooterStart(file) >= 1
  /\ file[FooterStart(file)].kind = "footer"
  /\ \A i \in FooterStart(file) + 1 .. Len(file) : file[i] = Trailer

LastFooter(file) == file[FooterStart(file)]

Payload(file, block) ==
  IF block + MessageSize \in 1 .. Len(file) THEN file[block + MessageSize] ELSE Torn

\* The dictionary the reader holds for id d after reading `blocks`.
DictOf(file, blocks, d) ==
  LET mine == {n \in 1 .. Len(blocks) :
                 /\ Payload(file, blocks[n]).kind = "dictionary"
                 /\ Payload(file, blocks[n]).id = d}
  IN  IF mine = {} THEN NoDict ELSE Payload(file, blocks[Greatest(mine)]).value

\* No UnexpectedMessageType and no "Dictionary id not found".
Readable(file, dictBlocks, recBlocks) ==
  /\ \A n \in 1 .. Len(dictBlocks) : Payload(file, dictBlocks[n]).kind = "dictionary"
  /\ \A n \in 1 .. Len(recBlocks) : Payload(file, recBlocks[n]).kind = "record"
  /\ recBlocks # << >> => \A i \in Columns : DictOf(file, dictBlocks, Fields[i]) # NoDict

\* A record decoded with the dictionaries held, which has to know all of them.
KnowsAll(dictionaries) == \A i \in Columns : dictionaries[Fields[i]] # NoDict

DecodedWith(keys, dictionaries) ==
  [keys |-> keys, dicts |-> [i \in Columns |-> dictionaries[Fields[i]]]]

\* The chunks a reader yields, as long as they are Readable.
Decode(file, dictBlocks, recBlocks) ==
  [n \in 1 .. Len(recBlocks) |->
     [keys  |-> Payload(file, recBlocks[n]).keys,
      dicts |-> [i \in Columns |-> DictOf(file, dictBlocks, Fields[i])]]]
-----------------------------------------------------------------------------
(***************************************************************************)
(* The bytes of an Arrow IPC stream.  A message is the continuation marker *)
(* (in two halves, as a reader may see one without the other), its length, *)
(* the flatbuffer and the body; the end-of-stream mark is a marker and the *)
(* length zero.                                                            *)
(***************************************************************************)
NoChunk == [keys |-> NoDict, dicts |-> << >>]

Half1  == [kind |-> "marker, first half"]
Half2  == [kind |-> "marker, second half"]
Length == [kind |-> "length"]
Zero   == [kind |-> "length zero"]
Body   == [kind |-> "body"]

StreamCells ==
  {Half1, Half2, Length, Zero, Body, Schema}
    \cup [kind: {"dictionary"}, id: Ids, value: Values]
    \cup [kind: {"record"}, keys: Keys]

\* A schema message has no body.
Packet(payload) ==
  << Half1, Half2, Length, payload >> \o IF payload = Schema THEN << >> ELSE << Body >>

EndOfStream == << Half1, Half2, Zero >>
=============================================================================

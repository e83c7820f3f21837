------------------------------- MODULE Schemas --------------------------------
(***************************************************************************)
(* Fields as the schemas of other formats have them: IPC, the C interface, *)
(* the JSON of the integration tests, Avro and Parquet.  Each has the      *)
(* operator that writes a field and the one that reads it.                 *)
(***************************************************************************)
EXTENDS DataTypes, FiniteSets

LOCAL INSTANCE SequencesExt
LOCAL INSTANCE Functions

(***************************************************************************)
(* Fields in the schema of Arrow IPC (io/ipc/write/schema.rs and           *)
(* io/ipc/read/schema.rs).  With a field goes its IpcField: the ids of the *)
(* dictionaries in it, in the shape of its children.                       *)
(***************************************************************************)
IpcField(ids, fields) == [dictionaryId |-> ids, fields |-> fields]
NoIpcField == IpcField(<< >>, << >>)

\* default_ipc_field: the ids of a type from id on, in the order they are met; << ipc field, next id >>.
RECURSIVE DefaultIpcField(_, _), DefaultIpcFields(_, _)
DefaultIpcFields(types, id) ==
  IF types = << >> THEN << << >>, id >>
  ELSE LET first == DefaultIpcField(types[1], id)
           rest == DefaultIpcFields(Tail(types), first[2])
       IN  << << first[1] >> \o rest[1], rest[2] >>
DefaultIpcField(type, id) ==
  LET t == ToLogicalType(type)
      isDictionary == t.id = "Dictionary"
      inside == IF isDictionary THEN t.inner ELSE [n \in DOMAIN t.fields |-> t.fields[n].type]
      below == DefaultIpcFields(inside, IF isDictionary THEN id + 1 ELSE id)
  IN  << IpcField(IF isDictionary THEN << id >> ELSE << >>, below[1]), below[2] >>
-----------------------------------------------------------------------------
RECURSIVE SerializeType(_)
SerializeType(t) == IF t.id \in {"Dictionary", "Extension"} THEN SerializeType(t.inner[1]) ELSE Bare(t)

\* Fields and ids are zipped; an only child takes the first ids, and there must be one.
RECURSIVE SerializeField(_, _), SerializeChildren(_, _)
SerializeChildren(t, ipc) ==
  CASE t.id \in {"Dictionary", "Extension"} -> SerializeChildren(t.inner[1], ipc)
    [] t.id \in ListTypes /\ ipc.fields = << >> -> << Node(t.fields[1], Panicking, << >>) >>
    [] OTHER -> [n \in 1 .. (IF Len(t.fields) < Len(ipc.fields) THEN Len(t.fields) ELSE Len(ipc.fields)) |->
                   SerializeField(t.fields[n], ipc.fields[n])]
SerializeField(f, ipc) ==
  LET t == f.type
      node == Node(f, SerializeType(t), SerializeChildren(t, ipc))
      extensions == {e \in {t} \cup (IF t.id = "Dictionary" THEN {t.inner[1]} ELSE {}) : e.id = "Extension"}
      entries == IF extensions = {} THEN NoMetadata ELSE ExtensionEntries(CHOOSE e \in extensions : TRUE)
      dated == [node EXCEPT !.metadata = Merged(entries, Without(f.metadata, {NameKey, MetadataKey}))]
  IN  CASE t.id # "Dictionary" -> dated
        [] ipc.dictionaryId = << >> -> Node(f, Panicking, << >>)
        [] OTHER -> WithDictionary(dated, ipc.dictionaryId[1], t.words[1], t.words[2])
-----------------------------------------------------------------------------
(* Reading: << field, ipc field >> *)

DeserializeTime(t) ==
  IF << t.id, t.words[1] >> \in {<< "Time32", "s" >>, << "Time32", "ms" >>, << "Time64", "us" >>, << "Time64", "ns" >>}
  THEN t ELSE NotYet

RECURSIVE DeserializeField(_), GetDataType(_, _, _)
GetDataType(node, extension, mayBeDictionary) ==
  CASE mayBeDictionary /\ node.dictionary # << >> ->
         LET d == node.dictionary[1]
             values == GetDataType(node, extension, FALSE)
         IN  << Dictionary(d.key, values[1], d.order), [values[2] EXCEPT !.dictionaryId = << d.id >>] >>
    [] extension # << >> ->
         LET storage == GetDataType(node, << >>, FALSE)
         IN  << Extension(extension[1], storage[1], extension[2]), storage[2] >>
    [] node.type.id \in {"Time32", "Time64"} -> << DeserializeTime(node.type), NoIpcField >>
    [] node.type.id \in NestedTypes /\ node.children = << >> -> << Refusing, NoIpcField >>
    [] node.type.id \in NestedTypes ->
         LET read == [n \in 1 .. (IF node.type.id \in ListTypes THEN 1 ELSE Len(node.children)) |->
                        DeserializeField(node.children[n])]
         IN  << With(node.type, [n \in DOMAIN read |-> read[n][1]]), IpcField(<< >>, [n \in DOMAIN read |-> read[n][2]]) >>
    [] OTHER -> << node.type, NoIpcField >>
DeserializeField(node) ==
  LET read == GetDataType(node, GetExtension(node.metadata), TRUE)
  IN  << [name |-> node.name, type |-> read[1], nullable |-> node.nullable, metadata |-> node.metadata], read[2] >>
-----------------------------------------------------------------------------
RECURSIVE NodesIn(_)
NodesIn(node) == << node >> \o FlattenSeq([n \in DOMAIN node.children |-> NodesIn(node.children[n])])

\* The field of a node that could not be written.
Unwritten(node) == [name |-> node.name, type |-> Panicking, nullable |-> node.nullable, metadata |-> NoMetadata]
Writes(node) == \A n \in DOMAIN NodesIn(node) : NodesIn(node)[n].type.id # "Failure"

\* Writes a field with its ids and reads it back; << field, ipc field >>.
ThroughIpc(f, ipc) ==
  LET node == SerializeField(f, ipc)
  IN  IF ~Writes(node) THEN << Unwritten(node), NoIpcField >>
      ELSE LET read == DeserializeField(node) IN << Settled(read[1]), read[2] >>

\* The ids in an ipc field, in the order that dictionaries are met.
RECURSIVE IdsIn(_)
IdsIn(ipc) == ipc.dictionaryId \o FlattenSeq([n \in DOMAIN ipc.fields |-> IdsIn(ipc.fields[n])])
-----------------------------------------------------------------------------
(***************************************************************************)
(* Fields in the C data interface (ffi/schema.rs): ArrowSchema::new, and   *)
(* to_field, its inverse.  The name of a type, its words and its numbers   *)
(* stand for the format string and the flags.                              *)
(***************************************************************************)
Identities(t) == [n \in DOMAIN t.fields |-> n - 1]

RECURSIVE ToFormat(_)
ToFormat(t) ==
  CASE t.id = "Dictionary" -> Plain(t.words[1])
    [] t.id = "Extension" -> ToFormat(t.inner[1])
    [] t.id \in {"Time32", "Time64"} /\ ~UnitsFit(t) -> Panicking
    [] t.id = "Interval" /\ t.words[1] = "MonthDayNano" -> Panicking
    [] t.id = "Timestamp" /\ t.words[2] = "" -> [t EXCEPT !.words[2] = Missing]
    [] t.id = "Union" ->
         LET ids == IF t.words[2] = Missing THEN Identities(t) ELSE t.numbers
         IN  IF ids = << >> THEN Panicking ELSE Type("Union", << t.words[1], "ids" >>, ids)
    [] OTHER -> Bare(t)

\* Only a type that is nested itself has children: an extension of one has none.
RECURSIVE NewSchema(_)
NewSchema(f) ==
  LET t == f.type
      children == IF t.id \in NestedTypes THEN [n \in DOMAIN t.fields |-> NewSchema(t.fields[n])] ELSE << >>
      values == IF t.id = "Dictionary" THEN << NewSchema(Field("", t.inner[1], TRUE)) >> ELSE << >>
      entries == IF t.id = "Extension" THEN ExtensionEntries(t) ELSE NoMetadata
  IN  [Node(f, ToFormat(t), children) EXCEPT
         !.dictionary = [n \in DOMAIN values |-> [values |-> values[n], order |-> t.words[2]]],
         !.metadata = Merged(entries, f.metadata)]
-----------------------------------------------------------------------------
RECURSIVE ToField(_), ToDataType(_)
ToDataType(node) ==
  LET fields == [n \in 1 .. (IF node.type.id \in ListTypes THEN 1 ELSE Len(node.children)) |-> ToField(node.children[n])]
  IN  CASE node.type.id \in ListTypes /\ node.children = << >> -> Panicking
        [] node.type.id \in NestedTypes -> With(node.type, fields)
        [] OTHER -> node.type
ToField(node) ==
  LET extension == GetExtension(node.metadata)
      type == IF node.dictionary = << >> THEN ToDataType(node)
              ELSE IF node.type.id \notin IntegerTypes THEN Refusing
              ELSE Dictionary(node.type.id, ToField(node.dictionary[1].values).type, node.dictionary[1].order)
  IN  [name |-> node.name,
       type |-> IF extension = << >> THEN type ELSE Extension(extension[1], type, extension[2]),
       nullable |-> node.nullable,
       metadata |-> Without(node.metadata, {NameKey, MetadataKey})]

\* A format that cannot be written stays in the schema's type, or in that of its children.
ThroughC(f) == Settled(ToField(NewSchema(f)))
-----------------------------------------------------------------------------
(***************************************************************************)
(* Fields in the JSON of Arrow's integration tests (io/json_integration).  *)
(* Metadata is an object, pairs of a key and a value, or, as it is written *)
(* here, objects of one entry each.                                        *)
(***************************************************************************)
Json(form, entries) == [form |-> form, entries |-> entries]

SerializeMetadata(metadata) == Json(IF metadata = NoMetadata THEN "missing" ELSE "entries", metadata)

RECURSIVE SerializeDataType(_)
SerializeDataType(t) ==
  CASE t.id = "Extension" -> SerializeDataType(t.inner[1])
    [] t.id \in {"Dictionary", "Union", "Map"} -> Plain(t.id)
    [] OTHER -> Bare(t)

RECURSIVE ToJson(_, _)
ToJson(f, ipc) ==
  LET t == f.type
      children ==
        IF t.id \in ListTypes /\ ipc.fields = << >> THEN << Node(t.fields[1], Panicking, << >>) >>
        ELSE IF t.id \in NestedTypes
        THEN [n \in 1 .. (IF Len(t.fields) < Len(ipc.fields) THEN Len(t.fields) ELSE Len(ipc.fields)) |->
                ToJson(t.fields[n], ipc.fields[n])]
        ELSE << >>
      node == [Node(f, SerializeDataType(t), children) EXCEPT !.metadata = SerializeMetadata(f.metadata)]
  IN  CASE t.id # "Dictionary" -> node
        [] ipc.dictionaryId = << >> -> Node(f, Panicking, << >>)
        [] OTHER -> WithDictionary(node, ipc.dictionaryId[1], t.words[1], t.words[2])
-----------------------------------------------------------------------------
(* Reading: the type of the values first, then the dictionary around it *)

JsonType(type, fields) ==
  CASE type.id \in ListTypes \ {"Map"} /\ fields = << >> -> Panicking
    [] type.id = "Map" /\ type.words = << >> -> Refusing
    [] type.id = "Map" /\ fields = << >> -> Panicking
    [] type.id = "Union" /\ type.words # << >> /\ type.words[2] # Missing -> With(type, fields)
    [] type.id = "Union" -> Refusing
    [] type.id = "Dictionary" -> NotYet
    [] type.id \in ListTypes -> With(type, << fields[Len(fields)] >>)
    [] type.id \in RecordTypes -> With(type, fields)
    [] OTHER -> type

RECURSIVE FromJson(_)
FromJson(node) ==
  LET fields == [n \in DOMAIN node.children |-> FromJson(node.children[n])]
      failures == SelectSeq(fields, LAMBDA f : Includes(f.type, {"Failure"}))
      extension == GetExtension(node.metadata.entries)
      storage == IF failures # << >> THEN Settled(failures[1]).type ELSE JsonType(node.type, fields)
      values == IF extension = << >> THEN storage ELSE Extension(extension[1], storage, extension[2])
  IN  [name |-> node.name, nullable |-> node.nullable, metadata |-> node.metadata.entries,
       type |-> CASE node.metadata.form = "entries" -> Refusing
                  [] node.dictionary = << >> -> values
                  [] OTHER -> Dictionary(node.dictionary[1].key, values, node.dictionary[1].order)]

RECURSIVE DeserializeIpcField(_)
DeserializeIpcField(node) ==
  IpcField([n \in DOMAIN node.dictionary |-> node.dictionary[n].id],
           [n \in DOMAIN node.children |-> DeserializeIpcField(node.children[n])])

ReadJson(node) ==
  LET f == Settled(FromJson(node)) IN << f, IF Failed(f) THEN NoIpcField ELSE DeserializeIpcField(node) >>

ThroughJson(f, ipc) ==
  LET node == ToJson(f, ipc) IN IF Writes(node) THEN ReadJson(node) ELSE << Unwritten(node), NoIpcField >>
-----------------------------------------------------------------------------
(* The JSON of other implementations: dictionaries as in IPC, ids in unions, metadata as an object or pairs *)

RECURSIVE WithForm(_, _)
WithForm(node, form) ==
  [node EXCEPT !.metadata = Json(form, node.metadata),
               !.children = [n \in DOMAIN node.children |-> WithForm(node.children[n], form)]]

StandardJson(f, ipc, form) == WithForm(SerializeField(f, ipc), form)
-----------------------------------------------------------------------------
(***************************************************************************)
(* Fields in Avro (io/avro/read/schema.rs and io/avro/write/schema.rs).    *)
(* A schema is kept as a type: its name, its logical type, and in it the   *)
(* items of an array, the variants of a union or the fields of a record.   *)
(***************************************************************************)
AvroNull == Plain("Null")
Of(id, schemas) == [Plain(id) EXCEPT !.inner = schemas]

\* Arrow's types that Avro has: << type, schema >>.
AvroTypes ==
  {<< Plain(id), Plain(id) >> : id \in {"Null", "Boolean", "Float32", "Float64"}}
  \cup {<< Plain("Int32"), Plain("Int") >>, << Plain("Int64"), Plain("Long") >>,
        << Plain("Binary"), Plain("Bytes") >>, << Plain("LargeBinary"), Plain("Bytes") >>,
        << Plain("Utf8"), Plain("String") >>, << Plain("LargeUtf8"), Plain("String") >>,
        << Plain("Date32"), Type("Int", << "date" >>, << >>) >>,
        << Type("Time32", << "ms" >>, << >>), Type("Int", << "time" >>, << >>) >>,
        << Type("Time64", << "us" >>, << >>), Type("Long", << "time" >>, << >>) >>,
        << Type("Timestamp", << "ms", Missing >>, << >>), Type("Long", << "local", "ms" >>, << >>) >>,
        << Type("Timestamp", << "us", Missing >>, << >>), Type("Long", << "local", "us" >>, << >>) >>,
        << Type("Interval", << "MonthDayNano" >>, << >>), Type("Fixed", << "duration" >>, << 12 >>) >>}

RECURSIVE TypeToSchema(_, _)
AvroSchemaOf(t, Inside(_, _)) ==
  LET pair == {p \in AvroTypes : p[1] = t}
  IN  CASE pair # {} -> (CHOOSE p \in pair : TRUE)[2]
        [] t.id \in {"List", "LargeList"} -> Of("Array", << Inside(t.fields[1].type, t.fields[1].nullable) >>)
        [] t.id = "Struct" ->
             With(Plain("Record"), [n \in DOMAIN t.fields |->
               Field(t.fields[n].name, Inside(t.fields[n].type, t.fields[n].nullable), FALSE)])
        [] t.id = "FixedSizeBinary" -> Type("Fixed", << >>, t.numbers)
        [] t.id = "Decimal" -> Type("Bytes", << "decimal" >>, t.numbers)
        [] OTHER -> NotYet
TypeToSchema(t, nullable) ==
  LET schema == AvroSchemaOf(ToLogicalType(t), TypeToSchema)
  IN  IF nullable THEN Of("Union", << AvroNull, schema >>) ELSE schema
-----------------------------------------------------------------------------
(* A schema as a field, nullable if it is a union of two that has a null *)

RECURSIVE SchemaToField(_, _)
SchemaToField(schema, name) ==
  LET variants == schema.inner
      others == SelectSeq(variants, LAMBDA s : s # AvroNull)
      isNullable == schema.id = "Union" /\ Len(variants) = 2 /\ \E n \in 1 .. 2 : variants[n] = AvroNull
      pair == {p \in AvroTypes : p[2] = schema /\ p[1].id \notin {"LargeBinary", "LargeUtf8"}}
      type ==
        CASE pair # {} -> (CHOOSE p \in pair : TRUE)[1]
          [] isNullable -> IF others = << >> THEN NotYet ELSE SchemaToField(others[1], "").type
          [] schema.id = "Union" ->
               With(Type("Union", << "dense", Missing >>, << >>), [n \in DOMAIN variants |-> SchemaToField(variants[n], "")])
          [] schema.id = "Array" -> With(Plain("List"), << SchemaToField(variants[1], "item") >>)
          [] schema.id = "Record" ->
               With(Plain("Struct"), [n \in DOMAIN schema.fields |->
                 WithMetadata(SchemaToField(schema.fields[n].type, schema.fields[n].name), schema.fields[n].metadata)])
          [] schema.id = "Enum" -> Dictionary("Int32", Plain("Utf8"), "unsorted")
          [] schema.id = "Long" -> Type("Timestamp", << schema.words[2], "00:00" >>, << >>)
          [] schema.id \in {"Bytes", "Fixed"} /\ schema.words = << "decimal" >> -> Type("Decimal", << >>, schema.numbers)
          [] schema.id = "Fixed" /\ schema.words = << "duration" >> -> Type("Interval", << "MonthDayNano" >>, << >>)
          [] schema.id = "Fixed" -> Type("FixedSizeBinary", << >>, schema.numbers)
          [] schema.id = "Map" -> Panicking
          [] OTHER -> schema
  IN  Field(name, type, isNullable)

Documented == {"Record", "Enum"}

\* What a schema says of itself is kept for a field of the root only.
ExternalProps(schema) ==
  IF schema.id \in Documented /\ schema.words # << >> THEN [k \in {"avro::doc"} |-> schema.words[1]] ELSE NoMetadata

InferField(f) == Settled(WithMetadata(SchemaToField(f.type, f.name), ExternalProps(f.type)))

\* The first type that cannot be written is an error of the whole.
ThroughAvro(f) ==
  LET schema == Settled(Field(f.name, TypeToSchema(f.type, f.nullable), FALSE))
  IN  IF Failed(schema) THEN schema ELSE InferField(schema)
-----------------------------------------------------------------------------
(***************************************************************************)
(* Fields in the schema of Parquet (io/parquet/write/schema.rs and         *)
(* io/parquet/read/schema).  A Parquet type has a repetition, and is       *)
(* primitive, with a physical type, or a group of other types; logical and *)
(* converted types annotate either.                                        *)
(***************************************************************************)
Annotated(name, repetition, physical, logical, converted, fields) ==
  [name |-> name, repetition |-> repetition, physical |-> physical, logical |-> logical,
   converted |-> converted, fields |-> fields]

Unannotated == Plain("None")
Group(name, repetition, logical, fields) == Annotated(name, repetition, Plain("Group"), logical, Unannotated, fields)
IsGroup(p) == p.physical.id = "Group"

\* << physical, converted, logical >> of the types that have but one form.
PlainForms ==
  [id \in {"Boolean", "Int32", "Int64", "Float32", "Float64", "Null", "Duration", "Date64", "Binary", "LargeBinary",
           "Utf8", "LargeUtf8", "Date32", "Interval"} |->
     CASE id = "Null" -> << Plain("Int32"), Unannotated, Plain("Unknown") >>
       [] id \in {"Duration", "Date64"} -> << Plain("Int64"), Unannotated, Unannotated >>
       [] id \in {"Binary", "LargeBinary"} -> << Plain("ByteArray"), Unannotated, Unannotated >>
       [] id \in {"Utf8", "LargeUtf8"} -> << Plain("ByteArray"), Plain("Utf8"), Plain("String") >>
       [] id = "Date32" -> << Plain("Int32"), Plain("Date"), Plain("Date") >>
       [] id = "Interval" -> << Type("FixedLenByteArray", << >>, << 12 >>), Plain("Interval"), Unannotated >>
       [] OTHER -> << Plain(id), Unannotated, Unannotated >>]

\* The bytes for so many digits and a sign: 3.322 bits for a digit.
DecimalLength(precision) == (3322 * precision + 1000 + 7999) \div 8000

\* The forms of the others; the failure is the physical type.
PrimitiveForm(t) ==
  LET Long(logical, converted) == << Plain("Int64"), converted, logical >>
  IN  CASE t.id \in DOMAIN PlainForms -> PlainForms[t.id]
        [] t.id \in IntegerTypes ->
             << Plain(IF t.id = "UInt64" THEN "Int64" ELSE "Int32"), Plain(t.id), Type("Integer", << t.id >>, << >>) >>
        [] t.id = "Timestamp" /\ t.words[1] = "s" -> Long(Unannotated, Unannotated)
        [] t.id = "Timestamp" ->
             Long(Type("Timestamp", << IF t.words[2] \in {Missing, ""} THEN "local" ELSE "utc", t.words[1] >>, << >>), Unannotated)
        [] t = Type("Time32", << "s" >>, << >>) -> PlainForms["Int32"]
        [] t = Type("Time32", << "ms" >>, << >>) -> << Plain("Int32"), Plain("TimeMillis"), Type("Time", << "ms" >>, << >>) >>
        [] t.id = "Time64" /\ t.words[1] \notin {"us", "ns"} -> Long(Unannotated, Panicking)
        [] t.id = "Time64" -> Long(Type("Time", t.words, << >>), IF t.words[1] = "us" THEN Plain("TimeMicros") ELSE Unannotated)
        [] t.id = "FixedSizeBinary" -> << Type("FixedLenByteArray", << >>, t.numbers), Unannotated, Unannotated >>
        [] t.id = "Decimal" ->
             << CASE t.numbers[1] <= 9 -> Plain("Int32") [] t.numbers[1] <= 18 -> Plain("Int64")
                  [] OTHER -> Type("FixedLenByteArray", << >>, << DecimalLength(t.numbers[1]) >>), t, t >>
        [] OTHER -> << NotYet, Unannotated, Unannotated >>

RECURSIVE ToParquetType(_)
ToParquetType(f) ==
  LET t == ToLogicalType(f.type)
      repetition == IF f.nullable THEN "optional" ELSE "required"
      form == PrimitiveForm(t)
  IN  CASE t.id = "Struct" /\ t.fields = << >> -> Annotated(f.name, repetition, Refusing, Unannotated, Unannotated, << >>)
        [] t.id = "Struct" -> Group(f.name, repetition, Unannotated, [n \in DOMAIN t.fields |-> ToParquetType(t.fields[n])])
        [] t.id = "Dictionary" -> ToParquetType(Field(f.name, t.inner[1], f.nullable))
        [] t.id \in {"List", "LargeList", "FixedSizeList"} ->
             Group(f.name, repetition, Plain("List"),
                   << Group("list", "repeated", Unannotated, << ToParquetType(t.fields[1]) >>) >>)
        [] OTHER -> Annotated(f.name, repetition, form[1], form[3], form[2], << >>)
-----------------------------------------------------------------------------
(* Reading: the logical type is looked at before the converted one *)

FromInt32(logical, converted) ==
  CASE logical.id = "Integer" -> IF logical.words[1] \in {"Int64", "UInt64"} THEN Plain("Int32") ELSE Plain(logical.words[1])
    [] logical.id = "Decimal" -> logical
    [] logical.id = "Date" -> Plain("Date32")
    [] logical.id = "Time" -> IF logical.words[1] = "ms" THEN Type("Time32", << "ms" >>, << >>) ELSE Plain("Int32")
    [] converted.id \in IntegerTypes \ {"Int64", "UInt64"} -> Plain(converted.id)
    [] converted.id = "Date" -> Plain("Date32")
    [] converted.id = "TimeMillis" -> Type("Time32", << "ms" >>, << >>)
    [] converted.id = "Decimal" -> converted
    [] OTHER -> Plain("Int32")

FromInt64(logical, converted) ==
  CASE logical.id = "Integer" -> IF logical.words[1] = "UInt64" THEN Plain("UInt64") ELSE Plain("Int64")
    [] logical.id = "Timestamp" ->
         Type("Timestamp", << logical.words[2], IF logical.words[1] = "utc" THEN "+00:00" ELSE Missing >>, << >>)
    [] logical.id = "Time" -> IF logical.words[1] = "ms" THEN Plain("Int64") ELSE Type("Time64", logical.words, << >>)
    [] logical.id = "Decimal" -> logical
    [] converted.id = "TimeMicros" -> Type("Time64", << "us" >>, << >>)
    [] converted.id = "TimestampMillis" -> Type("Timestamp", << "ms", Missing >>, << >>)
    [] converted.id = "TimestampMicros" -> Type("Timestamp", << "us", Missing >>, << >>)
    [] converted.id = "UInt64" -> Plain("UInt64")
    [] converted.id = "Decimal" -> converted
    [] OTHER -> Plain("Int64")

FromByteArray(logical, converted) ==
  CASE logical.id = "String" -> Plain("Utf8")
    [] logical.id \in {"Json", "Bson", "Enum"} -> Plain("Binary")
    [] converted.id = "Utf8" -> Plain("Utf8")
    [] OTHER -> Plain("Binary")

FromFixedLenByteArray(length, logical, converted) ==
  CASE logical.id = "Decimal" -> logical
    [] logical.id = "None" /\ converted.id = "Decimal" -> converted
    [] logical.id = "None" /\ converted.id = "Interval" -> Type("Interval", << "DayTime" >>, << >>)
    [] OTHER -> Type("FixedSizeBinary", << >>, length)

ToPrimitiveTypeInner(p) ==
  CASE p.physical.id = "Int32" -> FromInt32(p.logical, p.converted)
    [] p.physical.id = "Int64" -> FromInt64(p.logical, p.converted)
    [] p.physical.id = "Int96" -> Type("Timestamp", << "ns", Missing >>, << >>)
    [] p.physical.id = "ByteArray" -> FromByteArray(p.logical, p.converted)
    [] p.physical.id = "FixedLenByteArray" -> FromFixedLenByteArray(p.physical.numbers, p.logical, p.converted)
    [] OTHER -> p.physical

IsNullable(p) == p.repetition # "required"

ListOf(name, type, nullable) == With(Plain("List"), << Field(name, type, nullable) >>)

ToPrimitiveType(p) ==
  LET base == ToPrimitiveTypeInner(p)
  IN  IF p.repetition = "repeated" THEN ListOf(p.name, base, IsNullable(p)) ELSE base

\* The type of a Parquet type, as a sequence: none of it if it has no column.
RECURSIVE ReadType(_), ToStruct(_), ToList(_, _)
ReadField(p) == [n \in DOMAIN ReadType(p) |-> Field(p.name, ReadType(p)[n], IsNullable(p))]
ToStruct(fields) ==
  LET read == FlattenSeq([n \in DOMAIN fields |-> ReadField(fields[n])])
  IN  IF read = << >> THEN << >> ELSE << With(Plain("Struct"), read) >>
ToList(fields, parent) ==
  LET item == fields[1]
      isWrapper == IsGroup(item) /\ Len(item.fields) = 1
      type == CASE ~IsGroup(item) -> << ToPrimitiveTypeInner(item) >>
                [] isWrapper /\ item.name \notin {"array", parent \o "_tuple"} -> ReadType(item.fields[1])
                [] OTHER -> ToStruct(item.fields)
      named == IF isWrapper /\ item.name = "list" THEN item.fields[1] ELSE item
  IN  [n \in DOMAIN type |-> ListOf(named.name, type[n], IsNullable(named))]
ToMap(fields) ==
  [n \in DOMAIN ReadField(fields[1]) |-> With(Type("Map", << "unsorted" >>, << >>), << ReadField(fields[1])[n] >>)]
ReadType(p) ==
  CASE ~IsGroup(p) -> << ToPrimitiveType(p) >>
    [] p.fields = << >> -> << >>
    [] p.repetition = "repeated" ->
         [n \in DOMAIN ToStruct(p.fields) |-> ListOf(p.name, ToStruct(p.fields)[n], IsNullable(p))]
    [] p.logical.id \in {"List", "Map"} -> ToList(p.fields, p.name)
    [] p.logical.id = "None" /\ p.converted.id = "List" -> ToList(p.fields, p.name)
    [] p.logical.id = "None" /\ p.converted.id \in {"Map", "MapKeyValue"} -> ToMap(p.fields)
    [] OTHER -> ToStruct(p.fields)
-----------------------------------------------------------------------------
\* The columns that the reader takes for a type.
RECURSIVE NColumns(_)
NColumns(t) ==
  LET l == ToLogicalType(t)
  IN  IF l.id \in {"Struct", "List", "LargeList", "FixedSizeList"}
      THEN SumFunction([n \in DOMAIN l.fields |-> NColumns(l.fields[n].type)]) ELSE 1

RECURSIVE LeavesOf(_)
LeavesOf(p) == IF IsGroup(p) THEN FlattenSeq([n \in DOMAIN p.fields |-> LeavesOf(p.fields[n])]) ELSE << p >>

\* The field that a file's schema has: that of its Arrow schema, if it is there, else that of its Parquet type.
ThroughParquet(f, isEmbedded) ==
  LET p == ToParquetType(f)
      failures == SelectSeq(LeavesOf(p), LAMBDA l : l.physical.id = "Failure" \/ l.converted.id = "Failure")
  IN  CASE failures # << >> ->
             Field(f.name, IF failures[1].physical.id = "Failure" THEN failures[1].physical ELSE failures[1].converted, FALSE)
        [] isEmbedded -> ThroughIpc(f, DefaultIpcField(f.type, 0)[1])[1]
        [] OTHER -> ReadField(p)[1]
-----------------------------------------------------------------------------
(***************************************************************************)
(* Calls that take a field to the schema of another format and back, and   *)
(* that read what other implementations write.                             *)
(***************************************************************************)
\* What is read back: << field, ipc field >>.
Converted(format, f) ==
  LET ids == DefaultIpcField(f.type, 0)[1]
  IN  CASE format = "ipc" -> ThroughIpc(f, ids)
        [] format = "c" -> << ThroughC(f), NoIpcField >>
        [] format = "json" -> ThroughJson(f, ids)
        [] format = "json object" -> ReadJson(StandardJson(f, ids, "object"))
        [] format = "json pairs" -> ReadJson(StandardJson(f, ids, "pairs"))
        [] format = "avro" -> << ThroughAvro(f), NoIpcField >>
        [] format = "parquet" -> << ThroughParquet(f, FALSE), NoIpcField >>
        [] format = "parquet with schema" -> << ThroughParquet(f, TRUE), NoIpcField >>

ConvertSchema == Returns("schema", Converted(call.format, call.field))

ReadParquetSchema == Returns("parquet schema", ReadField(call.type))

ReadAvroSchema == Returns("avro schema", InferField(call.schema))

SchemaNext == ConvertSchema \/ ReadParquetSchema \/ ReadAvroSchema
-----------------------------------------------------------------------------
(* What a format keeps, and what it makes of the rest *)

Dictionaries_(t) == {d \in TypesOf(t) : d.id = "Dictionary"}

\* The names of the types right inside a dictionary or an extension.
Within(t, ids) == {s.inner[1].id : s \in {d \in TypesOf(t) : d.id \in ids}}

\* Dictionaries of dictionaries and extensions of either have one place for two things.
PlacesEnough(t) ==
  /\ Within(t, {"Extension"}) \cap {"Dictionary", "Extension"} = {}
  /\ "Dictionary" \notin Within(t, {"Dictionary"})

\* Ids are given as if the values of a dictionary were a child: fields of the values are left out.
IdsReach(t) ==
  \A d \in Dictionaries_(t) : \A s \in TypesOf(d.inner[1]) : s.id # "Dictionary" /\ (s.id \in RecordTypes => Len(s.fields) < 2)

NamesItsIds(t) == \A s \in TypesOf(t) : s.id = "Union" => s.words[2] # Missing

KeptByIpc(t) == UnitsFit(t) /\ NothingEmpty(t) /\ PlacesEnough(t) /\ IdsReach(t)

\* An extension of a nested type is exported without children.
KeptByC(t) ==
  /\ UnitsFit(t) /\ NamesItsIds(t)
  /\ \A s \in TypesOf(t) : /\ s.id = "Union" => s.numbers # << >>
                           /\ s.id = "Interval" => s.words[1] # "MonthDayNano"
                           /\ s.id = "Timestamp" => s.words[2] # ""
  /\ Within(t, {"Extension"}) \cap (NestedTypes \cup {"Dictionary", "Extension"}) = {}

RECURSIVE WithoutMetadata(_)
WithoutMetadata(f) == f.metadata = NoMetadata /\ \A n \in DOMAIN f.type.fields : WithoutMetadata(f.type.fields[n])

KeptByJson(f) == WithoutMetadata(f) /\ ~Includes(f.type, {"Dictionary", "Extension", "Union", "Map"})

RECURSIVE NullableNulls(_)
NullableNulls(f) ==
  LET t == ToLogicalType(f.type)
  IN  (f.nullable /\ t.id = "Null") \/ \E n \in DOMAIN t.fields : NullableNulls(t.fields[n])

KeptByAvro(f) ==
  /\ ~NullableNulls(f)
  /\ \A s \in TypesOf(f.type) :
       \/ s.id \in {"List", "LargeList", "Struct", "Extension", "FixedSizeBinary", "Decimal"}
       \/ \E p \in AvroTypes : p[1] = s

KeptByParquet(t) ==
  /\ UnitsFit(t) /\ NothingEmpty(t) /\ ~Includes(t, {"Union", "Map", "Float16"})
  /\ Within(t, {"Dictionary"}) \cap NestedTypes = {}

\* The nearest type that Avro or Parquet has.
Nearest(format, t) ==
  CASE t.id = "LargeBinary" -> Plain("Binary")
    [] t.id = "LargeUtf8" -> Plain("Utf8")
    [] format = "parquet" /\ t.id = "Null" -> Plain("Int32")
    [] format = "parquet" /\ t.id \in {"Date64", "Duration"} -> Plain("Int64")
    [] format = "parquet" /\ t.id = "Timestamp" ->
         CASE t.words[1] = "s" -> Plain("Int64")
           [] t.words[2] \in {Missing, ""} -> [t EXCEPT !.words[2] = Missing]
           [] OTHER -> [t EXCEPT !.words[2] = "+00:00"]
    [] format = "parquet" /\ t.id = "Time32" /\ t.words[1] = "s" -> Plain("Int32")
    [] format = "parquet" /\ t.id = "Interval" -> Type("Interval", << "DayTime" >>, << >>)
    [] OTHER -> t

RECURSIVE NearestField(_, _), NearestType(_, _)
NearestField(format, f) == [f EXCEPT !.type = NearestType(format, f.type), !.metadata = NoMetadata]
NearestType(format, t) ==
  LET children == [n \in DOMAIN t.fields |-> NearestField(format, t.fields[n])]
  IN  CASE t.id \in {"Extension", "Dictionary"} -> NearestType(format, t.inner[1])
        [] t.id = "Struct" -> With(t, children)
        [] t.id \in ListTypes ->
             With(Plain("List"), IF format = "avro" THEN << [children[1] EXCEPT !.name = "item"] >> ELSE children)
        [] OTHER -> Nearest(format, t)

\* What is to be read back.
IsKept(f) ==
  LET read == result[1]
      t == f.type
  IN  /\ call.format \in {"ipc", "json object", "json pairs"} /\ KeptByIpc(t) /\ (call.format = "ipc" \/ NamesItsIds(t)) =>
           /\ Stripped(read) = f
           /\ IdsIn(result[2]) = [n \in 1 .. Len(SelectSeq(TypesIn(t), LAMBDA s : s.id = "Dictionary")) |-> n - 1]
      /\ call.format = "c" /\ KeptByC(t) => read = f
      /\ call.format = "json" /\ KeptByJson(f) => read = f
      /\ call.format = "avro" /\ KeptByAvro(f) => read = NearestField("avro", f)
      /\ call.format = "parquet" /\ KeptByParquet(t) =>
           read = NearestField("parquet", f) /\ NColumns(read.type) = Len(LeavesOf(ToParquetType(f)))
      /\ call.format = "parquet with schema" /\ KeptByParquet(t) /\ KeptByIpc(t) =>
           Stripped(read) = f /\ NColumns(t) = Len(LeavesOf(ToParquetType(f)))

\* A field written to a format and read back is the field, or the nearest
\* one the format has, but for the features it is known to lose; dictionaries
\* get the ids they were written with; whatever was read back, writing and
\* reading it again changes nothing.  The field of a Parquet type takes the
\* columns of the type: none of them if it has none.
SchemasAreKept ==
  /\ Answered("schema") =>
       /\ IsKept(call.field)
       /\ ~Failed(result[1]) => Stripped(Converted(call.format, result[1])[1]) = Stripped(result[1])
  /\ Answered("parquet schema") =>
       /\ (result = << >>) = (LeavesOf(call.type) = << >>)
       /\ result # << >> /\ ~Includes(result[1].type, {"Map"}) => NColumns(result[1].type) = Len(LeavesOf(call.type))
  /\ Answered("avro schema") /\ ~Failed(result) /\ ~Includes(result.type, {"Union", "Dictionary"}) /\ ~Failed(ThroughAvro(result)) =>
        NearestField("avro", ThroughAvro(result)) = NearestField("avro", result)
=============================================================================

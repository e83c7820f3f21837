----------------------------- MODULE DataTypes -----------------------------
(***************************************************************************)
(* Data types and fields (src/src/datatypes).  A type is its name, its     *)
(* parameters, its fields, and the type inside it: the values of a         *)
(* dictionary, the storage of an extension.                                *)
(***************************************************************************)
EXTENDS Arithmetics

LOCAL INSTANCE SequencesExt
LOCAL INSTANCE FiniteSetsExt

Missing == "missing"

Type(id, words, numbers) ==
  [id |-> id, words |-> words, numbers |-> numbers, fields |-> << >>, inner |-> << >>]
Plain(id) == Type(id, << >>, << >>)
With(type, fields) == [type EXCEPT !.fields = fields]
Dictionary(key, values, order) == [Type("Dictionary", << key, order >>, << >>) EXCEPT !.inner = << values >>]
Extension(name, storage, metadata) == [Type("Extension", << name, metadata >>, << >>) EXCEPT !.inner = << storage >>]

\* A type without what is in it.
Bare(t) == [t EXCEPT !.fields = << >>, !.inner = << >>]

NoMetadata == << >>
Field(name, type, nullable) == [name |-> name, type |-> type, nullable |-> nullable, metadata |-> NoMetadata]
WithMetadata(field, metadata) == [field EXCEPT !.metadata = metadata]

IntegerTypes == {"Int8", "Int16", "Int32", "Int64", "UInt8", "UInt16", "UInt32", "UInt64"}
ListTypes == {"List", "LargeList", "FixedSizeList", "Map"}
RecordTypes == {"Struct", "Union"}
NestedTypes == ListTypes \cup RecordTypes

RECURSIVE ToLogicalType(_)
ToLogicalType(t) == IF t.id = "Extension" THEN ToLogicalType(t.inner[1]) ELSE t

\* The array that a type is kept in.
ToPhysicalType(t) ==
  LET l == ToLogicalType(t)
  IN  CASE l.id \in {"Date32", "Time32"} -> << "Primitive", "Int32" >>
        [] l.id \in {"Date64", "Timestamp", "Time64", "Duration"} -> << "Primitive", "Int64" >>
        [] l.id = "Interval" ->
             << "Primitive", CASE l.words[1] = "YearMonth" -> "Int32" [] l.words[1] = "DayTime" -> "DaysMs" [] OTHER -> "MonthDayNano" >>
        [] l.id = "Decimal" -> << "Primitive", "Int128" >>
        [] l.id \in IntegerTypes \cup {"Float16", "Float32", "Float64"} -> << "Primitive", l.id >>
        [] l.id = "Dictionary" -> << l.id, l.words[1] >>
        [] OTHER -> << l.id >>
-----------------------------------------------------------------------------
(* Metadata of a field *)

NameKey == "ARROW:extension:name"
MetadataKey == "ARROW:extension:metadata"

\* A mutant: an extension without metadata is not one.
GetExtensionWithMetadata(metadata) ==
  IF {NameKey, MetadataKey} \subseteq DOMAIN metadata THEN << metadata[NameKey], metadata[MetadataKey] >> ELSE << >>

\* What get_extension finds: << name, metadata >>, or nothing.
GetExtension(metadata) ==
  IF NameKey \in DOMAIN metadata
  THEN << metadata[NameKey], IF MetadataKey \in DOMAIN metadata THEN metadata[MetadataKey] ELSE Missing >>
  ELSE << >>

Without(metadata, keys) == [k \in DOMAIN metadata \ keys |-> metadata[k]]

\* The entries that the extension t adds to the metadata of its field.
ExtensionEntries(t) ==
  [k \in {NameKey} \cup {key \in {MetadataKey} : t.words[2] # Missing} |-> IF k = NameKey THEN t.words[1] ELSE t.words[2]]

\* The entries of both, the first one's if they differ.
Merged(a, b) == [k \in DOMAIN a \cup DOMAIN b |-> IF k \in DOMAIN a THEN a[k] ELSE b[k]]
-----------------------------------------------------------------------------
(* A field as IPC, C and JSON lay it out: type without what is in it *)

Node(field, type, children) ==
  [name |-> field.name, nullable |-> field.nullable, type |-> type, children |-> children,
   dictionary |-> << >>, metadata |-> NoMetadata]
WithDictionary(node, id, key, order) == [node EXCEPT !.dictionary = << [id |-> id, key |-> key, order |-> order] >>]
-----------------------------------------------------------------------------
(* A conversion that fails: the type it would have given *)

Failure(how) == Type("Failure", << how >>, << >>)
Panicking == Failure("panics")
Refusing == Failure("refuses")
NotYet == Failure("not yet implemented")

\* The types in a type, in the order they are met, it included.
RECURSIVE TypesIn(_)
TypesIn(t) ==
  << t >> \o FlattenSeq([n \in DOMAIN t.fields |-> TypesIn(t.fields[n].type)])
          \o FlattenSeq([n \in DOMAIN t.inner |-> TypesIn(t.inner[n])])

TypesOf(t) == ToSet(TypesIn(t))

Includes(t, ids) == \E s \in TypesOf(t) : s.id \in ids

\* A conversion stops at the first failure.
Settled(f) ==
  IF Includes(f.type, {"Failure"})
  THEN [f EXCEPT !.type = SelectSeq(TypesIn(f.type), LAMBDA t : t.id = "Failure")[1]] ELSE f

Failed(f) == f.type.id = "Failure"
-----------------------------------------------------------------------------
(* Used to state properties *)

\* The units that the docs of DataType allow: 32 bits for s and ms, 64 for us and ns.
UnitsFit(t) ==
  \A s \in TypesOf(t) :
    /\ s.id = "Time32" => s.words[1] \in {"s", "ms"}
    /\ s.id = "Time64" => s.words[1] \in {"us", "ns"}

NothingEmpty(t) == \A s \in TypesOf(t) : s.id \in RecordTypes => s.fields # << >>

\* Fields without the entries that an extension adds to their metadata.
RECURSIVE Stripped(_), StrippedType(_)
Stripped(f) == [f EXCEPT !.metadata = Without(f.metadata, {NameKey, MetadataKey}), !.type = StrippedType(f.type)]
StrippedType(t) ==
  [t EXCEPT !.fields = [n \in DOMAIN t.fields |-> Stripped(t.fields[n])],
            !.inner = [n \in DOMAIN t.inner |-> StrippedType(t.inner[n])]]
=============================================================================

----------------------------- MODULE IpcLayout -----------------------------
(***************************************************************************)
(* How the columns of a record message are laid out in its nodes and       *)
(* buffers (src/src/io/ipc/write/serialize.rs) and how the reader takes    *)
(* them out again, or skips them (src/src/io/ipc/read/deserialize.rs and   *)
(* read/array/).                                                           *)
(*                                                                         *)
(* A type is its physical kind and the types of its children.  The column  *)
(* of a type is one array of `base` rows, of which a batch holds the slice *)
(* of n rows from row `from` on; row r of a list holds the rows            *)
(* ListOffset(r) and following of its child.  A buffer is known by the     *)
(* path of the array it belongs to, its role, and the rows it holds.       *)
(***************************************************************************)
EXTENDS Integers, Sequences, SequencesExt

CONSTANT Usize   \* usize is modulo Usize

MaxUsize == Usize - 1

Lists  == {"list", "binary"}
Unions == {"dense", "sparse"}

Width == 2                                \* of a fixed-size list
ListOffset(r) == (r * (r - 1)) \div 2     \* rows 0 and 1 start at 0: row 0 is empty
Least(m, n) == IF m < n THEN m ELSE n
Saturated(n) == Least(n, MaxUsize)

\* The buffers of an array, its children's apart; "flat" stands for the
\* booleans, primitives, fixed-size binaries and the keys of dictionaries,
\* "list" for lists and maps, "binary" for binaries and strings.
Roles(kind) ==
  CASE kind = "null"   -> << >>
    [] kind = "flat"   -> << "validity", "values" >>
    [] kind = "binary" -> << "validity", "offsets", "values" >>
    [] kind = "list"   -> << "validity", "offsets" >>
    [] kind = "fixed"  -> << "validity" >>
    [] kind = "struct" -> << "validity" >>
    [] kind = "dense"  -> << "types", "offsets" >>
    [] kind = "sparse" -> << "types" >>

\* The format before V5 gave unions a validity, too.
VersionRoles(kind, version) ==
  IF kind \in Unions /\ version # "V5" THEN << "validity" >> \o Roles(kind) ELSE Roles(kind)

\* A bug: the offsets of a list are left for the next array.
SkippedRolesNoOffsets(kind) == IF kind = "list" THEN << "validity" >> ELSE Roles(kind)

\* What skip pops, whatever the version.
SkippedRoles(kind) == Roles(kind)
-----------------------------------------------------------------------------
\* Writing: the rows of each child that an array of n rows from `from` holds;
\* a union keeps its whole children when it is sliced.
ChildSlice(kind, from, n, base) ==
  CASE kind = "list"   -> [from |-> ListOffset(from),
                           n    |-> ListOffset(from + n) - ListOffset(from),
                           base |-> ListOffset(base)]
    [] kind = "fixed"  -> [from |-> Width * from, n |-> Width * n, base |-> Width * base]
    [] kind \in Unions -> [from |-> 0, n |-> base, base |-> base]
    [] OTHER           -> [from |-> from, n |-> n, base |-> base]

\* The slots of a buffer, and the first row (of a binary: byte) it holds.
Buffer(path, kind, role, from, n) ==
  [path |-> path, role |-> role,
   from |-> IF kind = "binary" /\ role = "values" THEN ListOffset(from) ELSE from,
   slots |-> CASE kind = "binary" /\ role = "values" -> ListOffset(from + n) - ListOffset(from)
               [] kind \in Lists /\ role = "offsets" -> n + 1
               [] OTHER -> n]

RECURSIVE Written(_, _, _, _, _)

\* write: the node, the buffers of the array, then its children.
Written(t, version, path, slice, nulls) ==
  LET roles    == VersionRoles(t.kind, version)
      child    == ChildSlice(t.kind, slice.from, slice.n, slice.base)
      children == [i \in 1 .. Len(t.of) |->
                     Written(t.of[i], version, Append(path, i), child, nulls)]
  IN  [nodes   |-> << [length |-> slice.n, nulls |-> nulls /\ t.kind \notin Unions] >>
                     \o FlattenSeq([i \in 1 .. Len(t.of) |-> children[i].nodes]),
       buffers |-> [i \in 1 .. Len(roles) |->
                      Buffer(path, t.kind, roles[i], slice.from, slice.n)]
                     \o FlattenSeq([i \in 1 .. Len(t.of) |-> children[i].buffers])]

\* The columns from the c-th on.
WrittenFrom(types, c, version, slice, nulls) ==
  LET columns == [i \in c .. Len(types) |->
                    Written(types[i], version, << i >>, slice, nulls)]
      Part(f(_)) == FlattenSeq([i \in 1 .. Len(types) - c + 1 |-> f(columns[i + c - 1])])
  IN  [nodes |-> Part(LAMBDA w : w.nodes), buffers |-> Part(LAMBDA w : w.buffers)]
-----------------------------------------------------------------------------
(***************************************************************************)
(* Reading.  A cursor is what is left of the nodes and the buffers, the    *)
(* arrays read so far, and whether there was no error.                     *)
(***************************************************************************)
Cursor(nodes, buffers) == [nodes |-> nodes, buffers |-> buffers, arrays |-> << >>, ok |-> TRUE]

Failed(cursor) == [cursor EXCEPT !.ok = FALSE]

RECURSIVE Skip(_, _)

Skip(cursor, t) ==
  LET k == Len(SkippedRoles(t.kind)) IN
  IF ~cursor.ok \/ cursor.nodes = << >> \/ Len(cursor.buffers) < k
  THEN Failed(cursor)
  ELSE FoldLeft(Skip,
                [cursor EXCEPT !.nodes = Tail(@), !.buffers = SubSeq(@, k + 1, Len(@))],
                t.of)

RECURSIVE SkipPanics(_)

\* skip_union takes every union for a dense one (unreachable!()).
SkipPanics(t) == t.kind = "sparse" \/ \E i \in 1 .. Len(t.of) : SkipPanics(t.of[i])

\* The rows of the array itself: a null array does not look at the limit, and
\* offsets that cannot be read are taken for those of an empty array.
RowsRead(kind, node, limit, got) ==
  CASE kind = "null" -> node.length
    [] kind \in Lists /\ got.offsets.slots < Least(limit, node.length) + 1 -> 0
    [] OTHER -> Least(limit, node.length)

LastOffset(offsets, rows) == ListOffset(offsets.from + rows) - ListOffset(offsets.from)

\* A bug: a fixed-size list passes its own limit on.
ChildLimitInRows(kind, rows, limit, got) ==
  IF kind = "list" THEN LastOffset(got.offsets, rows) ELSE limit

ChildLimit(kind, rows, limit, got) ==
  CASE kind = "list"   -> LastOffset(got.offsets, rows)
    [] kind = "fixed"  -> Saturated(Width * limit)
    [] kind = "struct" -> limit
    [] OTHER           -> MaxUsize      \* the children of a union: None

\* The length of the array try_new builds.
BuiltLength(kind, rows, children) ==
  CASE kind = "struct" -> children[1].length
    [] kind = "fixed"  -> children[1].length \div Width
    [] OTHER           -> rows

\* read_buffer: the buffers hold the slots the rows need.
BuffersSuffice(kind, rows, got) ==
  /\ kind = "flat" => got.values.slots >= rows
  /\ kind = "binary" => got.values.slots >= LastOffset(got.offsets, rows)
  /\ kind \in Unions => got.types.slots >= rows
  /\ kind = "dense" => got.offsets.slots >= rows

\* read_validity: a bitmap is only looked at when the node has nulls.
HasValidity(kind, node) == kind \notin Unions \cup {"null"} /\ node.nulls

\* try_new: the children and the validity have the length of the array.
LengthsAgree(kind, node, limit, rows, got, children) ==
  LET length == BuiltLength(kind, rows, children) IN
  /\ kind = "list" => children[1].length >= LastOffset(got.offsets, rows)
  /\ kind = "fixed" => children[1].length % Width = 0
  /\ kind = "struct" => \A i \in 1 .. Len(children) : children[i].length = length
  /\ HasValidity(kind, node) => Least(limit, node.length) = length

Builds(kind, node, limit, rows, got, children) ==
  /\ BuffersSuffice(kind, rows, got)
  /\ HasValidity(kind, node) => got.validity.slots >= Least(limit, node.length)
  /\ LengthsAgree(kind, node, limit, rows, got, children)

RECURSIVE Read(_, _, _, _)

\* read: the node, the array's buffers, its children, then try_new.
Read(cursor, t, version, limit) ==
  LET roles == VersionRoles(t.kind, version)
      k     == Len(roles)
  IN  IF ~cursor.ok \/ cursor.nodes = << >> \/ Len(cursor.buffers) < k
      THEN Failed(cursor)
      ELSE
      LET node == Head(cursor.nodes)
          got  == [r \in ToSet(roles) |->
                     cursor.buffers[CHOOSE i \in 1 .. k : roles[i] = r]]
          rows == RowsRead(t.kind, node, limit, got)
          children == FoldLeft(LAMBDA c, child :
                                 Read(c, child, version, ChildLimit(t.kind, rows, limit, got)),
                               Cursor(Tail(cursor.nodes),
                                      SubSeq(cursor.buffers, k + 1, Len(cursor.buffers))),
                               t.of)
      IN  IF children.ok /\ Builds(t.kind, node, limit, rows, got, children.arrays)
          THEN [children EXCEPT !.arrays =
                  Append(cursor.arrays,
                         [length   |-> BuiltLength(t.kind, rows, children.arrays),
                          buffers  |-> got,
                          children |-> children.arrays])]
          ELSE Failed(cursor)
-----------------------------------------------------------------------------
RECURSIVE Denotes(_, _, _, _)

\* Reference: row i of the array is row from + i of the column, for all its
\* rows (the children of a union are indexed from their own row 0).
Denotes(array, t, path, from) ==
  LET child == ChildSlice(t.kind, from, array.length, array.length)
      first == CASE t.kind = "dense" -> 0 [] t.kind = "sparse" -> from [] OTHER -> child.from
      need  == CASE t.kind = "dense" -> from + array.length
                 [] t.kind = "sparse" -> array.length [] OTHER -> child.n
  IN  /\ \A r \in DOMAIN array.buffers :
           /\ array.buffers[r].path = path
           /\ array.buffers[r].role = r
           /\ array.buffers[r].from = IF t.kind = "binary" /\ r = "values"
                                      THEN ListOffset(from) ELSE from
      /\ \A i \in 1 .. Len(t.of) :
           /\ array.children[i].length >= need
           /\ Denotes(array.children[i], t.of[i], Append(path, i), first)

RECURSIVE Has(_, _)

\* The type, or one below it, is of the kind.
Has(t, kind) == t.kind = kind \/ \E i \in 1 .. Len(t.of) : Has(t.of[i], kind)
=============================================================================

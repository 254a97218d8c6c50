----------------------------- MODULE CompactThrift -----------------------------
(***************************************************************************)
(* The Thrift compact protocol as the Parquet tools read and write it:      *)
(* tools/datagen/parquet.py (a reader and a writer of whole values),       *)
(* tools/check/readback.py (a walker that skips), page_index.py and        *)
(* tools/datagen/corrupt.py (readers of structs).  Bytes are 0..255; a     *)
(* struct is a sequence of fields <<id, type, value>>, a list or set is    *)
(* <<element type, elements>>, a binary or double is its bytes.            *)
(* A reader is asked for whole encodings only: past the end, where Python  *)
(* raises, Byte reads a stop.                                              *)
(***************************************************************************)
EXTENDS Integers, Sequences, FiniteSets, FiniteSetsExt, SequencesExt

TTrue == 1  TFalse == 2  TByte == 3  TI16 == 4  TI32 == 5  TI64 == 6
TDouble == 7  TBinary == 8  TList == 9  TSet == 10  TMap == 11  TStruct == 12

IsBool(t) == t \in {TTrue, TFalse}
IsInt(t) == t \in {TI16, TI32, TI64}

-----------------------------------------------------------------------------
(* Writing                                                                 *)

RECURSIVE VarintBytes(_)
VarintBytes(v) == IF v < 128 THEN <<v>> ELSE <<(v % 128) + 128>> \o VarintBytes(v \div 128)

ZigzagBytes(v) == VarintBytes(IF v >= 0 THEN 2 * v ELSE -(2 * v) - 1)

ById(fields) == SortSeq(fields, LAMBDA f, g : f[1] < g[1])

\* A field's id is written as a step from the last one when four bits hold it.
ShortForm(delta) == delta \in 1..15

\* A Boolean field's value is its type.
FieldHead(last, f) ==
    LET wire == IF IsBool(f[2]) THEN (IF f[3] THEN TTrue ELSE TFalse) ELSE f[2]
    IN  IF ShortForm(f[1] - last) THEN <<((16 * (f[1] - last)) + wire) % 256>>
        ELSE <<wire>> \o ZigzagBytes(f[1])

\* Up to fourteen elements are counted in the head's four bits.
ListHead(et, n) == IF n < 15 THEN <<16 * n + et>> ELSE <<240 + et>> \o VarintBytes(n)

RECURSIVE WriteValue(_, _)
WriteValue(t, v) ==
    CASE t = TByte -> <<v>>
      [] IsInt(t) -> ZigzagBytes(v)
      [] t = TDouble -> v
      [] t = TBinary -> VarintBytes(Len(v)) \o v
      [] t \in {TList, TSet} ->
           ListHead(v[1], Len(v[2])) \o
           FlattenSeq([i \in DOMAIN v[2] |->
               IF IsBool(v[1]) THEN <<IF v[2][i] THEN 1 ELSE 2>> ELSE WriteValue(v[1], v[2][i])])
      [] t = TStruct ->
           LET fs == ById(v)
           IN  FlattenSeq([i \in DOMAIN fs |->
                   FieldHead(IF i = 1 THEN 0 ELSE fs[i - 1][1], fs[i])
                   \o IF IsBool(fs[i][2]) THEN <<>> ELSE WriteValue(fs[i][2], fs[i][3])])
               \o <<0>>

-----------------------------------------------------------------------------
(* Reading: a value and the place after it                                 *)

Byte(b, i) == IF i \in DOMAIN b THEN b[i] ELSE 0

RECURSIVE Varint(_, _)
Varint(b, i) ==
    IF Byte(b, i) < 128 THEN <<Byte(b, i), i + 1>>
    ELSE LET rest == Varint(b, i + 1) IN <<(Byte(b, i) - 128) + 128 * rest[1], rest[2]>>

Zigzag(b, i) ==
    LET z == Varint(b, i) IN <<IF z[1] % 2 = 0 THEN z[1] \div 2 ELSE -((z[1] + 1) \div 2), z[2]>>

\* The count and the element type of a list, and the place after its head.
ListAt(b, i) ==
    LET n == Byte(b, i) \div 16  et == Byte(b, i) % 16
        long == Varint(b, i + 1)
    IN  IF n = 15 THEN <<long[1], et, long[2]>> ELSE <<n, et, i + 1>>

\* The id and the type of a field, and the place after its head.
FieldAt(b, i, last) ==
    LET delta == Byte(b, i) \div 16  t == Byte(b, i) % 16
        long == Zigzag(b, i + 1)
    IN  IF delta = 0 THEN <<long[1], t, long[2]>> ELSE <<last + delta, t, i + 1>>

RECURSIVE Value(_, _, _), Elements(_, _, _, _), FieldsFrom(_, _, _)

\* Reader.value
Value(b, i, t) ==
    CASE IsBool(t) -> <<t = TTrue, i>>
      [] t = TByte -> <<Byte(b, i), i + 1>>
      [] IsInt(t) -> Zigzag(b, i)
      [] t = TDouble -> <<SubSeq(b, i, i + 7), i + 8>>
      [] t = TBinary -> LET n == Varint(b, i) IN <<SubSeq(b, n[2], n[2] + n[1] - 1), n[2] + n[1]>>
      [] t \in {TList, TSet} ->
           LET l == ListAt(b, i)  items == Elements(b, l[3], l[2], l[1])
           IN  <<<<l[2], items[1]>>, items[2]>>
      [] t = TStruct -> FieldsFrom(b, i, 0)

Elements(b, i, et, n) ==
    IF n = 0 THEN <<<<>>, i>>
    ELSE LET x == IF IsBool(et) THEN <<Byte(b, i) = 1, i + 1>> ELSE Value(b, i, et)
             rest == Elements(b, x[2], et, n - 1)
         IN  <<<<x[1]>> \o rest[1], rest[2]>>

FieldsFrom(b, i, last) ==
    IF Byte(b, i) = 0 THEN <<<<>>, i + 1>>
    ELSE LET f == FieldAt(b, i, last)
             x == Value(b, f[3], f[2])
             rest == FieldsFrom(b, x[2], f[1])
         IN  <<<<<<f[1], f[2], x[1]>>>> \o rest[1], rest[2]>>

RECURSIVE Skip(_, _, _), SkipItems(_, _, _, _), SkipFields(_, _)

\* _Thrift.skip: where it leaves off.  The elements of a list of Booleans are
\* not stepped over.
Skip(b, i, t) ==
    CASE IsBool(t) -> i
      [] t = TByte -> i + 1
      [] IsInt(t) -> Varint(b, i)[2]
      [] t = TDouble -> i + 8
      [] t = TBinary -> Varint(b, i)[2] + Varint(b, i)[1]
      [] t \in {TList, TSet} -> LET l == ListAt(b, i) IN SkipItems(b, l[3], l[2], l[1])
      [] t = TStruct -> SkipFields(b, i)

SkipItems(b, i, et, n) == IF n = 0 THEN i ELSE SkipItems(b, Skip(b, i, et), et, n - 1)

SkipFields(b, i) ==
    IF Byte(b, i) = 0 THEN i + 1
    ELSE LET f == FieldAt(b, i, 0) IN SkipFields(b, Skip(b, f[3], f[2]))

RECURSIVE CompactEnd(_, _, _), CompactItems(_, _, _, _), CompactStruct(_, _)

\* page_index.Compact: where a value ends.
CompactEnd(b, i, t) ==
    CASE IsBool(t) -> i
      [] t = TByte -> i + 1
      [] IsInt(t) -> Zigzag(b, i)[2]
      [] t = TDouble -> i + 8
      [] t = TBinary -> Varint(b, i)[2] + Varint(b, i)[1]
      [] t \in {TList, TSet} ->
           LET l == ListAt(b, i)
           IN  IF IsBool(l[2]) THEN l[3] + l[1] ELSE CompactItems(b, l[3], l[2], l[1])
      [] t = TStruct -> CompactStruct(b, i)

CompactItems(b, i, et, n) == IF n = 0 THEN i ELSE CompactItems(b, CompactEnd(b, i, et), et, n - 1)

CompactStruct(b, i) ==
    IF Byte(b, i) = 0 THEN i + 1
    ELSE LET f == FieldAt(b, i, 0) IN CompactStruct(b, CompactEnd(b, f[3], f[2]))

RECURSIVE Spans(_, _, _, _)

\* corrupt.fields: the bytes [from, to) of each whole number, by its path; it
\* knows no list.
Spans(b, i, last, path) ==
    IF Byte(b, i) = 0 THEN [end |-> i + 1, at |-> {}]
    ELSE LET f == FieldAt(b, i, last)
             here == Append(path, f[1])
             inner == Spans(b, f[3], 0, here)
             end == CASE IsInt(f[2]) -> Varint(b, f[3])[2]
                      [] f[2] = TStruct -> inner.end
                      [] OTHER -> Skip(b, f[3], f[2])
             rest == Spans(b, end, f[1], path)
         IN  [end |-> rest.end,
              at |-> rest.at \cup CASE IsInt(f[2]) -> {<<here, f[3], end>>}
                                    [] f[2] = TStruct -> inner.at
                                    [] OTHER -> {}]

-----------------------------------------------------------------------------
Has(fields, id) == \E i \in DOMAIN fields : fields[i][1] = id

\* field: the value of the first field with an id; the struct must have it.
Field(fields, id) == fields[Min({i \in DOMAIN fields : fields[i][1] = id})][3]

\* The fields with one put in place of what has its id, or added.
With(fields, f) ==
    IF Has(fields, f[1]) THEN [i \in DOMAIN fields |-> IF fields[i][1] = f[1] THEN f ELSE fields[i]]
    ELSE Append(fields, f)
=============================================================================

----------------------------- MODULE ParquetFooter -----------------------------
(***************************************************************************)
(* A Parquet footer walked on its bytes (tools/check/readback.py): the      *)
(* Bloom filters and the statistics its column chunks declare, found by    *)
(* stepping over everything else, and the header of a filter.              *)
(***************************************************************************)
EXTENDS CompactThrift

RECURSIVE FieldsAt(_, _, _), AndFields(_, _), ItemsFrom(_, _, _)

\* _Thrift.fields and skip: the fields of a struct, each with where its value is.
FieldsAt(b, i, last) == IF Byte(b, i) = 0 THEN <<>> ELSE AndFields(b, FieldAt(b, i, last))
AndFields(b, f) == <<f>> \o FieldsAt(b, Skip(b, f[3], f[2]), f[1])

\* Where the structs of a list are.
ItemsFrom(b, i, n) == IF n = 0 THEN <<>> ELSE <<i>> \o ItemsFrom(b, SkipFields(b, i), n - 1)
ItemsOf(b, l) == ItemsFrom(b, l[3], l[1])

\* The structs of the list in one of a struct's fields (a list, if there).
StructsOf(b, fs, id) == IF Has(fs, id) THEN ItemsOf(b, ListAt(b, Field(fs, id))) ELSE <<>>
StructsIn(b, i, id) == StructsOf(b, FieldsAt(b, i, 0), id)

\* of, for every chunk of every row group: groups are field 4 of a footer,
\* chunks field 1 of a group, and what is known of a chunk's column its field 3.
EachIn(b, chunks, of(_)) == [c \in DOMAIN chunks |-> of(FieldsAt(b, Field(FieldsAt(b, chunks[c], 0), 3), 0))]
EachOf(b, groups, of(_)) == [g \in DOMAIN groups |-> EachIn(b, StructsIn(b, groups[g], 1), of)]
EachChunk(b, of(_)) == EachOf(b, StructsIn(b, 1, 4), of)

Optional(b, fs, id) == IF Has(fs, id) THEN Zigzag(b, Field(fs, id))[1] ELSE -1

\* footer_filters: type, filter offset and filter length of a chunk.
FooterFilters(b) ==
    EachChunk(b, LAMBDA fs : [type |-> Zigzag(b, Field(fs, 1))[1],
                              offset |-> Optional(b, fs, 14), length |-> Optional(b, fs, 15)])

\* MUTANT: a flag that is there is set.
Flag_Present(fs, id) == IF Has(fs, id) THEN "exact" ELSE "unknown"

\* A Boolean field's value is its type.
Flag(fs, id) ==
    IF ~ Has(fs, id) THEN "unknown"
    ELSE IF \E i \in DOMAIN fs : fs[i][1] = id /\ fs[i][2] = TTrue THEN "exact" ELSE "inexact"

NoStats == [min |-> FALSE, max |-> FALSE, minExact |-> "unknown", maxExact |-> "unknown"]

StatsOf(st) == [min |-> Has(st, 6), max |-> Has(st, 5), minExact |-> Flag(st, 8), maxExact |-> Flag(st, 7)]

\* footer_stats: the bounds a chunk's statistics (field 12) set, and whether they
\* are exact.
FooterStats(b) ==
    EachChunk(b, LAMBDA fs : IF Has(fs, 12) THEN StatsOf(FieldsAt(b, Field(fs, 12), 0)) ELSE NoStats)

-----------------------------------------------------------------------------
Refused == [bytes |-> 0, head |-> 0]

RECURSIVE HeaderFrom(_, _, _, _, _)

\* parse_header: field 1 is the size, any other a union of one empty struct.
HeaderFrom(b, i, last, nbytes, seen) ==
    IF Byte(b, i) = 0 THEN IF seen = {2, 3, 4} /\ nbytes > 0 /\ nbytes % 32 = 0
                           THEN [bytes |-> nbytes, head |-> i] ELSE Refused
    ELSE IF Byte(b, i) \div 16 = 0 THEN Refused
    ELSE LET f == FieldAt(b, i, last)
         IN  IF f[1] = 1
             THEN LET z == Zigzag(b, f[3])
                  IN  IF f[2] = TI32 THEN HeaderFrom(b, z[2], 1, z[1], seen) ELSE Refused
             ELSE IF f[2] = TStruct /\ SubSeq(b, f[3], f[3] + 2) = <<28, 0, 0>>
                  THEN HeaderFrom(b, f[3] + 3, f[1], nbytes, seen \cup {f[1]})
             ELSE Refused

FilterHeader(b) == HeaderFrom(b, 1, 0, 0, {})

\* load: the footer's length of a filter, when it gives one, is its header and
\* its bits, and the file has them all.
Loads(b, length) ==
    LET h == FilterHeader(b)
    IN  h # Refused /\ length \in {-1, h.head + h.bytes} /\ Len(b) >= h.head + h.bytes
=============================================================================

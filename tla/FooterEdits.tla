------------------------------ MODULE FooterEdits ------------------------------
(***************************************************************************)
(* The footer rewrites of tools/datagen/parquet.py: a footer is decoded,   *)
(* edited in place, perhaps with a new column index appended to the body,  *)
(* and written back.  A file is [body, footer], both bytes (the magic and  *)
(* the length behind the footer left out); offsets count from 0, as in the *)
(* file.                                                                   *)
(***************************************************************************)
EXTENDS CompactThrift

\* rewrite_footer: edit takes and gives what a file decodes to, [meta, body].
FileOpened(f) == [meta |-> Value(f.footer, 1, TStruct)[1], body |-> f.body]
FileRewritten(new) == [body |-> new.body, footer |-> WriteValue(TStruct, new.meta)]
RewriteFooter(f, edit(_)) == FileRewritten(edit(FileOpened(f)))

\* A field's value put in its place: the struct must have the field.
Put(fields, id, v) == [i \in DOMAIN fields |-> IF fields[i][1] = id THEN <<id, fields[i][2], v>> ELSE fields[i]]
Only(fields, ids) == SelectSeq(fields, LAMBDA f : f[1] \in ids)

GroupsOf(meta) == Field(meta, 4)[2]
ChunksOf(rg) == Field(rg, 1)[2]
StatsIn(chunk) == Field(Field(chunk, 3), 12)
PutStats(chunk, stats) == Put(chunk, 3, Put(Field(chunk, 3), 12, stats))

PutChunk(meta, g, c, chunk) ==
    Put(meta, 4, <<TStruct, [GroupsOf(meta) EXCEPT ![g] = Put(@, 1, <<TStruct, [ChunksOf(@) EXCEPT ![c] = chunk]>>)]>>)

\* edit on one chunk after another, each named <<group, chunk>>.
OverChunks(new, ats, edit(_, _)) == FoldLeft(edit, new, ats)

ChunkAt(meta, at) == ChunksOf(GroupsOf(meta)[at[1]])[at[2]]
Set(new, at, chunk) == [new EXCEPT !.meta = PutChunk(@, at[1], at[2], chunk)]

\* Every chunk of every group, and the first n chunks of the first group.
AllChunks(meta) ==
    FlattenSeq([g \in DOMAIN GroupsOf(meta) |-> [c \in DOMAIN ChunksOf(GroupsOf(meta)[g]) |-> <<g, c>>]])
FirstChunks(n) == [c \in 1..n |-> <<1, c>>]
ColumnChunks(meta, c) == [g \in DOMAIN GroupsOf(meta) |-> <<g, c>>]

-----------------------------------------------------------------------------
(* The orders of values.  Texts are byte strings; Span stands for 2^32.    *)

Span == 256

\* signed_bytes_key: each byte with its top bit turned.
Signed(b) == [i \in DOMAIN b |-> (b[i] + 128) % 256]
Unsigned32(v) == <<IF v >= Span \div 2 THEN v - Span ELSE v>>

\* str.lower on ASCII letters.
Lowered(b) == [i \in DOMAIN b |-> IF b[i] \in 65..90 THEN b[i] + 32 ELSE b[i]]

Before(a, b) ==
    \/ \E i \in DOMAIN a \cap DOMAIN b : a[i] < b[i] /\ \A j \in 1..(i - 1) : a[j] = b[j]
    \/ Len(a) < Len(b) /\ \A j \in DOMAIN a : a[j] = b[j]

\* Python's min and max by a key: the first of equals.
LeastBy(values, key(_)) ==
    values[Min({i \in DOMAIN values : \A j \in DOMAIN values : ~ Before(key(values[j]), key(values[i]))})]
GreatestBy(values, key(_)) ==
    values[Min({i \in DOMAIN values : \A j \in DOMAIN values : ~ Before(key(values[i]), key(values[j]))})]

\* DEPRECATED_COLUMNS: the order of a column of a kind, and a value's plain bytes.
DeprecatedKey(kind, v) == IF kind = "text" THEN Signed(v) ELSE IF kind = "unsigned" THEN Unsigned32(v) ELSE <<v>>
Plain(kind, v) == IF kind = "text" THEN v ELSE <<v % Span>>

-----------------------------------------------------------------------------
(* The edits.                                                              *)

\* to_deprecated_stats: only the null count stays, and the pair of the old order;
\* the column at decimals is annotated as DECIMAL(9, 2).
DecimalType == <<<<6, TI32, 5>>, <<7, TI32, 2>>, <<8, TI32, 9>>,
                 <<10, TStruct, <<<<5, TStruct, <<<<1, TI32, 2>>, <<2, TI32, 9>>>>>>>>>>>>
Annotated(meta, decimals) == Put(meta, 2, <<TStruct, [Field(meta, 2)[2] EXCEPT ![decimals] = @ \o DecimalType]>>)

ToDeprecatedStats(new, kinds, values, decimals) ==
    OverChunks([new EXCEPT !.meta = Annotated(@, decimals)], AllChunks(new.meta), LAMBDA n, at :
        LET chunk == ChunkAt(n.meta, at)
            kind == kinds[at[2]]
            vs == values[at[1]][at[2]]
            key(v) == DeprecatedKey(kind, v)
        IN  Set(n, at, PutStats(chunk, Only(StatsIn(chunk), {3}) \o
                <<<<1, TBinary, Plain(kind, GreatestBy(vs, key))>>, <<2, TBinary, Plain(kind, LeastBy(vs, key))>>>>)))

\* The column index of a chunk with other fields, appended to the body.
Reindexed(new, at, edit(_)) ==
    LET chunk == ChunkAt(new.meta, at)
        off == Field(chunk, 6)
        encoded == WriteValue(TStruct, edit(Value(SubSeq(new.body, off + 1, off + Field(chunk, 7)), 1, TStruct)[1]))
    IN  [Set(new, at, Put(Put(chunk, 6, Len(new.body)), 7, Len(encoded))) EXCEPT !.body = @ \o encoded]

Bounded(ci, lo, hi) == Put(Put(ci, 2, <<TBinary, <<lo>>>>), 3, <<TBinary, <<hi>>>>)

\* to_collated_order: an unknown order for one column, bounds in it on its chunks
\* and on their one page each.
UnknownColumnOrder == 3
ToCollatedOrder(new, column, values) ==
    LET orders == Field(new.meta, 7)
        meta == Put(new.meta, 7, <<orders[1], [orders[2] EXCEPT ![column] = <<<<UnknownColumnOrder, TStruct, <<>>>>>>]>>)
    IN  OverChunks([new EXCEPT !.meta = meta], ColumnChunks(meta, column), LAMBDA n, at :
            LET chunk == ChunkAt(n.meta, at)
                lo == LeastBy(values[at[1]], Lowered)
                hi == GreatestBy(values[at[1]], Lowered)
                stats == Only(StatsIn(chunk), {3, 4}) \o <<<<5, TBinary, hi>>, <<6, TBinary, lo>>>>
            IN  Reindexed(Set(n, at, PutStats(chunk, stats)), at, LAMBDA ci : Bounded(ci, lo, hi)))

\* add_nan_counts: on the first column's chunks; -1 for none.
AddNanCounts(new, counts) ==
    OverChunks(new, ColumnChunks(new.meta, 1), LAMBDA n, at :
        LET chunk == ChunkAt(n.meta, at)
            stats == SelectSeq(StatsIn(chunk), LAMBDA f : f[1] # 9)
        IN  Set(n, at, PutStats(chunk, IF counts[at[1]] = -1 THEN stats
                                       ELSE Append(stats, <<9, TI64, counts[at[1]]>>))))

\* write_false_bounds: the bounds the first chunk has, old pair and new, made false.
FalseBounds(new, lo, hi) ==
    LET at == <<1, 1>>  chunk == ChunkAt(new.meta, at)
        falsely(f) == CASE f[1] \in {1, 5} -> <<f[1], f[2], hi>> [] f[1] \in {2, 6} -> <<f[1], f[2], lo>> [] OTHER -> f
    IN  Set(new, at, PutStats(chunk, [i \in DOMAIN StatsIn(chunk) |-> falsely(StatsIn(chunk)[i])]))

\* write_writer_stats: an old writer's name, and false bounds on the first chunks
\* and their pages.
OldWriter == <<112, 97>>
WriterStats(new, bounds) ==
    OverChunks([new EXCEPT !.meta = Put(@, 6, OldWriter)], FirstChunks(Len(bounds)), LAMBDA n, at :
        LET lo == bounds[at[2]][1]  hi == bounds[at[2]][2]
            stats == <<<<3, TI64, 0>>, <<5, TBinary, hi>>, <<6, TBinary, lo>>>>
        IN  Reindexed(Set(n, at, PutStats(ChunkAt(n.meta, at), stats)), at,
                      LAMBDA ci : Put(Bounded(ci, lo, hi), 5, <<TI64, <<0>>>>)))

-----------------------------------------------------------------------------
\* readback.column_orders: the member of each column's union, 0 for none; <<>>
\* where the file declares none.
ColumnOrders(footer) ==
    LET meta == Value(footer, 1, TStruct)[1]
    IN  IF ~ Has(meta, 7) THEN <<>>
        ELSE [c \in DOMAIN Field(meta, 7)[2] |->
                 IF Field(meta, 7)[2][c] = <<>> THEN 0 ELSE Field(meta, 7)[2][c][1][1]]
=============================================================================

---------------------------- MODULE MCParquetTools ----------------------------
(***************************************************************************)
(* Small Parquet files of every kind of page, with their headers written   *)
(* anew and with each thing in them changed in turn, an optional one left  *)
(* out; structs at the edges of the compact protocol's encoding; and       *)
(* footers and filter headers.                                             *)
(***************************************************************************)
EXTENDS PageLayout, ParquetFooter, FooterEdits

VARIABLE subject    \* what is looked at

-----------------------------------------------------------------------------
(* A writer of files.                                                      *)

Page(type, body) == [type |-> type, body |-> body]
Column(kind, pages, indexed, order) == [kind |-> kind, pages |-> pages, indexed |-> indexed, order |-> order]

\* A header is of some length or other.
AsWritten(p, n) == [at |-> n, type |-> p.type, head |-> 10 + Len(p.body), size |-> 3 * Len(p.body),
                    count |-> Len(p.body), body |-> p.body]

RECURSIVE Laid(_, _)
Laid(pages, n) ==
    IF pages = <<>> THEN <<>>
    ELSE LET p == AsWritten(Head(pages), n) IN <<p>> \o Laid(Tail(pages), n + LengthOf(p))

NumbersOf(p) == ToSet(p.body) \ {Null, NaN}
Lowest(p) == IF NumbersOf(p) = {} THEN 0 ELSE Min(NumbersOf(p))
Highest(p) == IF NumbersOf(p) = {} THEN 0 ELSE Max(NumbersOf(p))

OffsetIndex(ds) ==
    [i \in DOMAIN ds |-> [at |-> ds[i].at, size |-> LengthOf(ds[i]), row |-> SumOf(SubSeq(ds, 1, i - 1), CountIn)]]

ColumnIndex(ds, order) ==
    [null |-> [i \in DOMAIN ds |-> ToSet(ds[i].body) \subseteq {Null}],
     lo |-> [i \in DOMAIN ds |-> Lowest(ds[i]) % Wrap], hi |-> [i \in DOMAIN ds |-> Highest(ds[i]) % Wrap],
     order |-> order,
     nulls |-> {[i \in DOMAIN ds |-> CountOf(ds[i].body, Null)]},
     nans |-> {[i \in DOMAIN ds |-> CountOf(ds[i].body, NaN)]}]

\* A column's chunk at n: its pages ps, its indexes behind them, and what the
\* footer says of it.
Placed(col, n, ps, ds, length) ==
    [pages |-> ps,
     indexes |-> IF ~ col.indexed THEN {}
                 ELSE {[at |-> n + length, len |-> 8, says |-> OffsetIndex(ds)],
                       [at |-> n + length + 8, len |-> 9, says |-> ColumnIndex(ds, col.order)]},
     chunk |-> [kind |-> col.kind, dict |-> IF IsData(ps[1]) THEN 0 ELSE n, data |-> ds[1].at,
                file |-> ds[1].at, packed |-> length, raw |-> length + 2, values |-> SumOf(ds, CountIn),
                oi |-> IF col.indexed THEN [at |-> n + length, len |-> 8] ELSE NoIndex,
                ci |-> IF col.indexed THEN [at |-> n + length + 8, len |-> 9] ELSE NoIndex]]
ChunkOf(col, n, ps) == Placed(col, n, ps, SelectSeq(ps, IsData), SumOf(ps, LengthOf))

\* Chunks behind each other, and row groups of them.
EndOf(c) == c.chunk.packed + (IF c.indexes = {} THEN 0 ELSE 17)

RECURSIVE ChunksFrom(_, _), AndChunks(_, _, _)
ChunksFrom(cols, n) ==
    IF cols = <<>> THEN <<>> ELSE AndChunks(ChunkOf(Head(cols), n, Laid(Head(cols).pages, n)), Tail(cols), n)
AndChunks(c, cols, n) == <<c>> \o ChunksFrom(cols, n + EndOf(c))

RECURSIVE GroupsFrom(_, _), AndGroups(_, _, _)
GroupsFrom(groups, n) ==
    IF groups = <<>> THEN <<>> ELSE AndGroups(ChunksFrom(Head(groups), n), Tail(groups), n)
AndGroups(cs, groups, n) == <<cs>> \o GroupsFrom(groups, n + SumOf(cs, EndOf))

RawOf(c) == c.chunk.raw
PackedOf(c) == c.chunk.packed
GroupOf(cs) ==
    [rows |-> cs[1].chunk.values, at |-> StartOf(cs[1].chunk), packed |-> SumOf(cs, PackedOf), raw |-> SumOf(cs, RawOf),
     chunks |-> [c \in DOMAIN cs |-> cs[c].chunk]]
RowsOf(g) == g.rows

FileOf(gs, all) ==
    [rows |-> SumOf([g \in DOMAIN gs |-> GroupOf(gs[g])], RowsOf),
     groups |-> [g \in DOMAIN gs |-> GroupOf(gs[g])],
     pages |-> UNION {ToSet(c.pages) : c \in all},
     indexes |-> UNION {c.indexes : c \in all}]
Placing(gs) == FileOf(gs, UNION {ToSet(gs[g]) : g \in DOMAIN gs})
Written(groups) == Placing(GroupsFrom(groups, Magic))

SampleFiles ==
    {Written(<<<<Column("int", <<Page(0, <<1, 2>>), Page(0, <<2, 3>>), Page(0, <<3>>)>>, TRUE, 1)>>>>),
     Written(<<<<Column("bytes", <<Page(2, <<5, 6>>), Page(3, <<6, Null>>), Page(3, <<Null>>), Page(3, <<5>>)>>, TRUE, 2)>>,
               <<Column("bytes", <<Page(0, <<7>>)>>, TRUE, 0)>>>>),
     Written(<<<<Column("float", <<Page(0, <<4, NaN>>), Page(0, <<NaN>>), Page(3, <<3, Null>>)>>, TRUE, 0),
                 Column("int", <<Page(0, <<3, 4, 5, 6, 7>>)>>, TRUE, 1)>>>>),
     Written(<<<<Column("int", <<Page(0, <<-2, Null>>), Page(0, <<4>>), Page(0, <<4, 5>>)>>, TRUE, 1),
                 Column("unsigned", <<Page(0, <<254, 7>>), Page(0, <<6, 200, 130>>)>>, TRUE, 2)>>>>),
     Written(<<<<Column("bytes", <<Page(2, <<5, 6>>), Page(0, <<5>>), Page(0, <<6, Null>>)>>, FALSE, 0),
                 Column("int", <<Page(2, <<1>>), Page(0, <<1, 1, 1>>)>>, FALSE, 0)>>,
               <<Column("bytes", <<Page(3, <<5>>), Page(3, <<6>>)>>, FALSE, 0),
                 Column("int", <<Page(3, <<3, 3>>)>>, FALSE, 0)>>>>)}

-----------------------------------------------------------------------------
(* One number, flag or entry of a file changed.                            *)

Off(n) == {n - 1, n + 1}
ShorterBy1(s) == SubSeq(s, 1, Len(s) - 1)
Nudged(s) == {ShorterBy1(s)} \cup {[s EXCEPT ![i] = @ + d] : i \in DOMAIN s, d \in {-1, 1}}
AnyOther(lists) == {{}} \cup UNION {{{l} : l \in Nudged(s)} : s \in lists}

\* What a header says of its page and what an index says of its chunk (a page
\* without numbers has no bounds).
PageLies(p) ==
    {[p EXCEPT !.size = n] : n \in Off(p.size)} \cup {[p EXCEPT !.count = n] : n \in Off(p.count)}
    \cup {[p EXCEPT !.type = IF @ = DictionaryPage THEN DataPage ELSE DictionaryPage]}
IndexLies(x) ==
    IF DOMAIN x.says = {"null", "lo", "hi", "order", "nulls", "nans"}
    THEN {[x EXCEPT !.says.order = o] : o \in {0, 1, 2}}
         \cup {[x EXCEPT !.says.lo = l] : l \in Nudged(x.says.lo)}
         \cup {[x EXCEPT !.says.hi = l] : l \in Nudged(x.says.hi)}
         \cup {[x EXCEPT !.says.nulls = l] : l \in AnyOther(x.says.nulls)}
         \cup {[x EXCEPT !.says.nans = l] : l \in AnyOther(x.says.nans)}
         \cup {[x EXCEPT !.says.null[i] = ~ @] : i \in DOMAIN x.says.null}
    ELSE {[x EXCEPT !.says = ShorterBy1(@)]}
         \cup UNION {{[x EXCEPT !.says[i].at = @ + 1], [x EXCEPT !.says[i].size = @ + 1], [x EXCEPT !.says[i].row = @ + 1]} :
                         i \in DOMAIN x.says}
ChunkLies(c) ==
    {[c EXCEPT !.data = n] : n \in Off(c.data)} \cup {[c EXCEPT !.packed = n] : n \in Off(c.packed)}
    \cup {[c EXCEPT !.values = n] : n \in Off(c.values)} \cup {[c EXCEPT !.dict = IF @ = 0 THEN c.data ELSE 0]}
    \cup (IF c.ci = NoIndex THEN {}
          ELSE {[c EXCEPT !.ci = NoIndex], [c EXCEPT !.oi.len = @ + 1], [c EXCEPT !.ci.len = @ + 1],
                [c EXCEPT !.oi.len = NoLength], [c EXCEPT !.ci.len = NoLength],
                [c EXCEPT !.oi = NoIndex, !.ci = NoIndex]})

Lies(f) ==
    {[f EXCEPT !.rows = @ + 1]} \cup {[f EXCEPT !.groups[g].rows = @ + 1] : g \in DOMAIN f.groups}
    \cup UNION {UNION {{[f EXCEPT !.groups[g].chunks[i] = c] : c \in ChunkLies(f.groups[g].chunks[i])} :
                           i \in DOMAIN f.groups[g].chunks} : g \in DOMAIN f.groups}
    \cup UNION {{[f EXCEPT !.pages = (@ \ {p}) \cup {q}] : q \in PageLies(p)} : p \in f.pages}
    \cup UNION {{[f EXCEPT !.indexes = (@ \ {x}) \cup {y}] : y \in IndexLies(x)} : x \in f.indexes}

Indexed(f) == f.indexes # {}
-----------------------------------------------------------------------------
(* Structs, footers and filter headers.                                    *)

Rep(n, v) == [i \in 1..n |-> v]

\* Values at the edges of the encoding, each with its type.
Edges ==
    {<<t, n>> : t \in {TI16, TI32, TI64}, n \in {-64, -65, 0, 63, 64, 8191, 8192, -8193}}
    \cup {<<TByte, n>> : n \in {0, 255}} \cup {<<TDouble, <<0, 1, 2, 3, 4, 5, 6, 255>>>>}
    \cup {<<TBinary, Rep(n, 7)>> : n \in {0, 1, 127, 128}}
    \cup {<<TList, <<TI32, Rep(n, -1)>>>> : n \in {0, 1, 14, 15, 16}}
    \cup {<<TSet, <<TBinary, Rep(n, <<9>>)>>>> : n \in {1, 15}}
    \cup {<<TList, <<TTrue, Rep(n, TRUE) \o <<FALSE>>>>>> : n \in {0, 14}}
    \cup {<<TStruct, <<<<16, TBinary, <<>>>>, <<17, TFalse, FALSE>>>>>>,
          <<TList, <<TStruct, Rep(15, <<<<2, TI64, 300>>, <<15, TTrue, TRUE>>>>)>>>>}

Deltas == {1, 15, 16, 300}

\* A struct of two such fields and a flag, at steps short and long.
Structs ==
    {<<<<d, e[1], e[2]>>, <<d + k, TFalse, FALSE>>>> : d \in Deltas, k \in Deltas, e \in Edges}
    \cup {<<<<20, TI32, n>>, <<4, e[1], e[2]>>>> : n \in {-1, 200}, e \in Edges}

\* A chunk's column as a footer has it: its type, its filter, its statistics;
\* and what else it holds, before, between and behind those.
Metas ==
    [type : {0, 6}, offset : {-1, 70}, length : {-1, 64}, min : BOOLEAN, max : BOOLEAN,
     minExact : {"unknown", "exact", "inexact"}, maxExact : {"unknown", "exact"}]

When(there, field) == IF there THEN <<field>> ELSE <<>>

MetaTree(m) ==
    <<<<1, TI32, m.type>>, <<2, TList, <<TI32, <<0, 8>>>>>>, <<3, TList, <<TBinary, <<<<115>>>>>>>>,
      <<8, TStruct, <<<<1, TI64, -5>>>>>>, <<9, TI64, 300>>>>
    \o When(m.min \/ m.max,
            <<12, TStruct,
              <<<<3, TI64, 0>>>> \o When(m.max, <<5, TBinary, <<9, 9>>>>) \o When(m.min, <<6, TBinary, <<1>>>>)
              \o When(m.maxExact # "unknown", <<7, TTrue, m.maxExact = "exact">>)
              \o When(m.minExact # "unknown", <<8, TTrue, m.minExact = "exact">>)>>)
    \o <<<<13, TList, <<TStruct, <<<<<<1, TI32, 2>>>>>>>>>>>>
    \o When(m.offset # -1, <<14, TI64, m.offset>>) \o When(m.length # -1, <<15, TI32, m.length>>)

ChunkTree(m) == <<<<2, TI64, 4>>, <<3, TStruct, MetaTree(m)>>, <<4, TI64, 500>>>>

FooterTree(groups) ==
    <<<<1, TI32, 2>>,
      <<2, TList, <<TStruct, <<<<<<4, TBinary, <<114>>>>, <<5, TI32, 1>>>>>>>>>>, <<3, TI64, 6>>,
      <<4, TList, <<TStruct,
         [g \in DOMAIN groups |->
            <<<<1, TList, <<TStruct, [c \in DOMAIN groups[g] |-> ChunkTree(groups[g][c])]>>>>, <<3, TI64, 3>>>>]>>>>,
      <<6, TBinary, <<112, 113>>>>>>

\* One chunk of each kind, before one that has all or one that has nothing.
Full == [type |-> 6, offset |-> 70, length |-> 64, min |-> TRUE, max |-> TRUE, minExact |-> "inexact", maxExact |-> "exact"]
Bare == [type |-> 0, offset |-> -1, length |-> -1, min |-> FALSE, max |-> FALSE, minExact |-> "unknown", maxExact |-> "unknown"]
Footers == {<<<<m, n>>, <<n>>>> : m \in Metas, n \in {Full, Bare}}

\* A filter's header: its size, which of its three unions it names, and the
\* bytes the file is short of.
Filters == [bytes : {0, 31, 32, 64}, unions : SUBSET {2, 3, 4}, length : {-1, 16, 47, 48, 49, 80}, cut : {0, 1}]
FilterTree(x) ==
    <<<<1, TI32, x.bytes>>>> \o
    SelectSeq([u \in 1..3 |-> <<u + 1, TStruct, <<<<1, TStruct, <<>>>>>>>>], LAMBDA f : f[1] \in x.unions)

-----------------------------------------------------------------------------
(* Footers to edit: two groups of three columns, a text, an unsigned and a  *)
(* decimal one, each chunk of one page with a column index in the body.     *)

Kinds == <<"text", "unsigned", "signed">>
Values == <<<<<<<<66>>, <<97>>, <<195, 169>>>>, <<1, 200, 3>>, <<5, 0, 6>>>>,
            <<<<<<98, 65>>, <<66>>, <<98>>, <<97>>, <<65>>>>, <<10>>, <<7, 7>>>>>>

PageIndex(has) ==
    <<<<1, TList, <<TTrue, <<FALSE>>>>>>, <<2, TList, <<TBinary, <<<<2>>>>>>>>, <<3, TList, <<TBinary, <<<<3, 3>>>>>>>>, <<4, TI32, 1>>>>
    \o When(has, <<5, TList, <<TI64, <<1>>>>>>) \o <<<<8, TList, <<TI64, <<0>>>>>>>>
IndexBytes == WriteValue(TStruct, PageIndex(TRUE))

\* A chunk with the statistics in ids, its index the n-th of the body.
StatsTree(ids) ==
    SelectSeq(<<<<1, TBinary, <<9>>>>, <<2, TBinary, <<1>>>>, <<3, TI64, 1>>, <<4, TI64, 3>>, <<5, TBinary, <<9>>>>,
                <<6, TBinary, <<1>>>>, <<7, TTrue, TRUE>>, <<8, TTrue, FALSE>>, <<9, TI64, 2>>>>, LAMBDA f : f[1] \in ids)
EditedChunk(ids, n) ==
    <<<<2, TI64, 4>>,
      <<3, TStruct, <<<<1, TI32, 6>>, <<3, TList, <<TBinary, <<<<115>>>>>>>>, <<12, TStruct, StatsTree(ids)>>, <<14, TI64, 70>>>>>>,
      <<6, TI64, Magic + (n - 1) * Len(IndexBytes)>>, <<7, TI32, Len(IndexBytes)>>, <<9, TBinary, <<1>>>>>>
Footed(ids) ==
    [body |-> <<80, 65, 82, 49>> \o FlattenSeq(Rep(6, IndexBytes)),
     footer |-> WriteValue(TStruct,
        <<<<1, TI32, 2>>, <<2, TList, <<TStruct, Rep(3, <<<<4, TBinary, <<114>>>>>>)>>>>, <<3, TI64, 8>>,
          <<4, TList, <<TStruct, [g \in 1..2 |->
              <<<<1, TList, <<TStruct, [c \in 1..3 |-> EditedChunk(ids, 3 * (g - 1) + c)]>>>>, <<3, TI64, 4>>>>]>>>>,
          <<6, TBinary, <<122>>>>, <<7, TList, <<TStruct, Rep(3, <<<<1, TStruct, <<>>>>>>)>>>>>>)]

StatIds == {{3}, {1, 2, 3, 5, 6}, {3, 4, 5, 6, 7, 8}, {3, 5, 6, 9}, 1..9}

EditWith(way, new) ==
    CASE way = "deprecated" -> ToDeprecatedStats(new, Kinds, Values, 3)
      [] way = "collated" -> ToCollatedOrder(new, 1, [g \in 1..2 |-> Values[g][1]])
      [] way = "nans" -> AddNanCounts(new, <<-1, 300>>)
      [] way = "false bounds" -> FalseBounds(new, <<200>>, <<202>>)
      [] way = "writer" -> WriterStats(new, <<<<<<122>>, <<122>>>>, <<<<100>>, <<200, 1>>>>>>)
EditWays == {"deprecated", "collated", "nans", "false bounds", "writer"}

-----------------------------------------------------------------------------
Ways == {[bounded |-> n, grown |-> (DataPage :> a @@ DataPageV2 :> b @@ DictionaryPage :> 0)] :
            n \in {1, 2}, a \in {-2, 0, 3}, b \in {1, 4}}

Kind(k) == subject.kind = k

ToolsInit == subject = [kind |-> "none"]

Look ==
    /\ Kind("none")
    /\ \/ \E f \in SampleFiles : subject' = [kind |-> "file", file |-> f]
       \/ \E s \in Structs : subject' = [kind |-> "struct", tree |-> s]
       \/ \E x \in Footers : subject' = [kind |-> "footer", groups |-> x]
       \/ \E x \in Filters : subject' = [kind |-> "filter", filter |-> x]
       \/ \E ids \in StatIds : subject' = [kind |-> "footed", file |-> Footed(ids)]

\* A data page of a chunk spoiled, all of it or its first or second value.
Spoil ==
    /\ Kind("file")
    /\ \E g \in DOMAIN subject.file.groups : \E i \in DOMAIN subject.file.groups[g].chunks :
         LET c == subject.file.groups[g].chunks[i]
         IN  \E n \in DOMAIN DataPagesIn(subject.file, c), late \in 0..2 :
                subject' = [kind |-> "corrupted", from |-> subject.file, chunk |-> c, page |-> n, late |-> late,
                            file |-> Corrupted(subject.file, c, n - 1, late)]

Rewrite ==
    /\ Kind("file") /\ ~ Indexed(subject.file)
    /\ \E w \in Ways : subject' = [kind |-> "rewritten", from |-> subject.file, file |-> WithFalseHeaders(subject.file, w)]

Edit ==
    /\ Kind("footed")
    /\ \E way \in EditWays :
         subject' = [kind |-> "edited", way |-> way, from |-> subject.file,
                     file |-> RewriteFooter(subject.file, LAMBDA new : EditWith(way, new))]

Change ==
    /\ Kind("file")
    /\ \E f \in Lies(subject.file) : subject' = [kind |-> "changed", file |-> f]

ToolsNext == Look \/ Rewrite \/ Change \/ Spoil \/ Edit

-----------------------------------------------------------------------------
\* What a right page index says of a chunk, by its pages alone.
IndexRight(f, c) ==
    LET ds == DataPagesIn(f, c)
        oi == IndexAt(f, c.oi)
        ci == IndexAt(f, c.ci).says
        numbers(i) == NumbersOf(ds[i])
        sgn(n) == IF c.kind = "int" /\ n > 127 THEN n - 256 ELSE n
        lo(i) == sgn(ci.lo[i])
        hi(i) == sgn(ci.hi[i])
        both(i, j) == i < j /\ numbers(i) # {} /\ numbers(j) # {}
    IN  /\ c.oi.len # NoLength => c.oi.len = oi.len
        /\ oi.says = OffsetIndex(ds)
        /\ c.ci # NoIndex =>
            /\ c.ci.len # NoLength => c.ci.len = IndexAt(f, c.ci).len
            /\ Len(ci.lo) = Len(ds) /\ Len(ci.hi) = Len(ds) /\ Len(ci.null) = Len(ds)
            /\ ci.nulls \subseteq ColumnIndex(ds, 0).nulls /\ ci.null = ColumnIndex(ds, 0).null
            /\ c.kind = "float" => \A nans \in ci.nans : \A i \in DOMAIN ds : ~ ci.null[i] =>
                    i \in DOMAIN nans /\ nans[i] = CountOf(ds[i].body, NaN)
            /\ \A i \in DOMAIN ds : numbers(i) # {} =>
                    IF c.kind = "bytes" THEN \A v \in numbers(i) : lo(i) <= v /\ v <= hi(i)
                    ELSE lo(i) = Min(numbers(i)) /\ hi(i) = Max(numbers(i))
            /\ ci.order = 1 => \A i, j \in DOMAIN ds : both(i, j) => lo(i) <= lo(j) /\ hi(i) <= hi(j)
            /\ ci.order = 2 => \A i, j \in DOMAIN ds : both(i, j) => lo(i) >= lo(j) /\ hi(i) >= hi(j)

ChunkRight(f, g, c, require) ==
    LET ps == PagesIn(f, c)
    IN  /\ ps # <<>> /\ Last(ps).at + LengthOf(Last(ps)) = StartOf(c) + c.packed
        /\ Len(Joined(SelectSeq(ps, IsData))) = g.rows /\ c.values = g.rows
        /\ {p \in ToSet(ps) : p.type = DictionaryPage} = {} <=> c.dict = 0
        /\ \A p \in ToSet(ps) : IsData(p) => p.count = Len(p.body)
        /\ \A p \in ToSet(ps) : IsData(p) => p.at >= c.data
        /\ \E p \in ToSet(ps) : IsData(p) /\ p.at = c.data
        /\ require => c.oi # NoIndex /\ c.ci # NoIndex
        /\ c.oi # NoIndex => IndexRight(f, c)

Right(f, require) ==
    /\ \A g \in DOMAIN f.groups : \A c \in DOMAIN f.groups[g].chunks :
          ChunkRight(f, f.groups[g], f.groups[g].chunks[c], require)
    /\ f.rows = SumOf(f.groups, LAMBDA g : g.rows)

HasFile == subject.kind \in {"file", "rewritten", "changed"}

\* page_index.py accepts a file exactly when its pages lie where its footer says
\* and its page index says of each what its values are: what was written and what
\* was moved passes, a change of one number does not unless it is still true
\* (page_index.py:125-268).
CheckIsExact ==
    HasFile => \A require \in BOOLEAN : CheckFile(subject.file, require) = Right(subject.file, require)

\* Writing every header anew moves the pages and changes no page's values, leaves
\* no byte between them, and the footer's places and sizes of the chunks follow,
\* whichever columns' headers grew, and a row group's unpacked size; its packed
\* size and its place stay as they were, right or not (parquet.py:355 "leaving
\* page bodies and CRCs intact", :397-402).
HeadersMove ==
    Kind("rewritten") =>
        LET new == subject.file  old == subject.from
            whole == Magic + SumOf(new.groups, LAMBDA g : SumOf(g.chunks, LAMBDA c : c.packed))
        IN  /\ Right(new, FALSE)
            /\ \A g \in DOMAIN new.groups :
                 /\ new.groups[g].raw = SumOf(new.groups[g].chunks, LAMBDA c : c.raw)
                 /\ new.groups[g].at = old.groups[g].at /\ new.groups[g].packed = old.groups[g].packed
            /\ \A g \in DOMAIN new.groups : \A c \in DOMAIN new.groups[g].chunks :
                 LET ps == PagesIn(new, new.groups[g].chunks[c])  was == PagesIn(old, old.groups[g].chunks[c])
                 IN  /\ [i \in DOMAIN ps |-> <<ps[i].type, ps[i].body>>] = [i \in DOMAIN was |-> <<was[i].type, was[i].body>>]
                     /\ new.groups[g].chunks[c].raw - old.groups[g].chunks[c].raw = SumOf(ps, LengthOf) - SumOf(was, LengthOf)
                     /\ new.groups[g].chunks[c].file = new.groups[g].chunks[c].data
            /\ UNION {p.at .. (p.at + LengthOf(p) - 1) : p \in new.pages} = Magic .. (whole - 1)

\* corrupt.py spoils the page it is asked for, counted among its chunk's data
\* pages, and no other page, size or count.
OnePageSpoiled ==
    Kind("corrupted") =>
        LET new == subject.file  old == subject.from
            p == DataPagesIn(old, subject.chunk)[subject.page]
            present == SelectSeq(p.body, LAMBDA v : v # Null)
        IN  \E q \in new.pages :
              /\ new = [old EXCEPT !.pages = (@ \ {p}) \cup {[p EXCEPT !.body = q.body]}]
              /\ q.at = p.at /\ Len(q.body) = Len(p.body)
              /\ IF subject.late = 0 THEN ToSet(q.body) = {Unreadable}
                 ELSE SelectSeq(q.body, LAMBDA v : v # Null) =
                        [i \in DOMAIN present |-> IF i = subject.late THEN OutOfRange ELSE present[i]]

\* A footer with what the edits are about left out.
Blank(meta) ==
    [i \in DOMAIN meta |->
        CASE meta[i][1] = 2 -> Len(Field(meta, 2)[2])
          [] meta[i][1] = 4 -> [g \in DOMAIN GroupsOf(meta) |->
                <<Put(GroupsOf(meta)[g], 1, 0),
                  [c \in DOMAIN ChunksOf(GroupsOf(meta)[g]) |->
                     LET chunk == ChunksOf(GroupsOf(meta)[g])[c]
                     IN  Put(Put(PutStats(chunk, 0), 6, 0), 7, 0)]>>]
          [] meta[i][1] \in {6, 7} -> 0
          [] OTHER -> meta[i]]

\* What an edit leaves of a chunk's statistics, and the bounds it puts there.
LeftBy(way, at) ==
    CASE way = "deprecated" -> {3}
      [] way = "collated" /\ at[2] = 1 -> {3, 4}
      [] way = "nans" /\ at[2] = 1 -> 1..8
      [] way = "false bounds" /\ at = <<1, 1>> -> {3, 4, 7, 8, 9}
      [] way = "writer" /\ at[1] = 1 /\ at[2] <= 2 -> {}
      [] OTHER -> 1..9
Newly(way, at) ==
    CASE way = "deprecated" -> {1, 2}
      [] way = "collated" /\ at[2] = 1 -> {5, 6}
      [] way = "nans" /\ at = <<2, 1>> -> {9}
      [] way = "writer" /\ at[1] = 1 /\ at[2] <= 2 -> {3, 5, 6}
      [] OTHER -> {}
Reindexes(way, at) == (way = "collated" /\ at[2] = 1) \/ (way = "writer" /\ at[1] = 1 /\ at[2] <= 2)

IdsOf(fields) == {fields[i][1] : i \in DOMAIN fields}
IndexTree(f, chunk) == Value(f.body, Field(chunk, 6) + 1, TStruct)

\* An edit of a footer changes what it is about and nothing else: every other
\* field comes back as it was read ("Unknown fields round-trip", parquet.py:34),
\* the body only grows, each chunk's column index is whole where the footer says
\* it is and as long, and the walker of footers finds the statistics it set.
EditsKeepTheRest ==
    Kind("edited") =>
        LET new == subject.file  old == subject.from  way == subject.way
            meta == Value(new.footer, 1, TStruct)  was == Value(old.footer, 1, TStruct)[1]
        IN  /\ meta[2] = Len(new.footer) + 1
            /\ Blank(meta[1]) = Blank(was)
            /\ SubSeq(new.body, 1, Len(old.body)) = old.body
            /\ FooterFilters(new.footer) = FooterFilters(old.footer)
            /\ ColumnOrders(new.footer) = IF way = "collated" THEN <<3, 1, 1>> ELSE <<1, 1, 1>>
            /\ \A k \in DOMAIN AllChunks(was) :
                 LET at == AllChunks(was)[k]
                     chunk == ChunkAt(meta[1], at)  before == ChunkAt(was, at)
                     index == IndexTree(new, chunk)
                     stats == StatsIn(chunk)  had == StatsIn(before)
                 IN  /\ IdsOf(stats) = (IdsOf(had) \cap LeftBy(way, at)) \cup Newly(way, at)
                            \cup (IF way = "false bounds" /\ at = <<1, 1>> THEN IdsOf(had) \cap {1, 2, 5, 6} ELSE {})
                     /\ Only(stats, LeftBy(way, at) \ Newly(way, at)) = Only(had, LeftBy(way, at) \ Newly(way, at))
                     /\ FooterStats(new.footer)[at[1]][at[2]] =
                          [min |-> 6 \in IdsOf(stats), max |-> 5 \in IdsOf(stats), minExact |-> Flag(stats, 8), maxExact |-> Flag(stats, 7)]
                     /\ index[2] = Field(chunk, 6) + Field(chunk, 7) + 1
                     /\ IF Reindexes(way, at)
                        THEN /\ index[1][2][3] = <<TBinary, <<Field(stats, 6)>>>> /\ index[1][3][3] = <<TBinary, <<Field(stats, 5)>>>>
                             /\ Only(index[1], {1, 4, 8}) = Only(PageIndex(TRUE), {1, 4, 8})
                        ELSE index[1] = PageIndex(TRUE)

HasListOf(tree, ts) == \E i \in DOMAIN tree : tree[i][2] \in {TList, TSet} /\ tree[i][3][1] \in ts

\* What the writer writes, each of the four readers reads: the whole value
\* (parquet.py Reader), its end (page_index.py Compact, readback.py _Thrift.skip,
\* which steps over no list of Booleans, corrupt.py fields, which knows no list).
ReadersAgree ==
    Kind("struct") =>
        LET tree == subject.tree
            b == WriteValue(TStruct, tree) \o <<TBinary>>
            value == Value(b, 1, TStruct)
        IN  /\ value = <<ById(tree), Len(b)>>
            /\ CompactEnd(b, 1, TStruct) = Len(b)
            /\ ~ HasListOf(tree, {TTrue}) => Skip(b, 1, TStruct) = Len(b)
            /\ ~ HasListOf(tree, 1..12) =>
                  LET spans == Spans(b, 1, 0, <<>>)
                  IN  spans.end = Len(b) /\ \A i \in DOMAIN tree : IsInt(tree[i][2]) =>
                        \E s \in spans.at : s[1] = <<tree[i][1]>> /\ Zigzag(b, s[2]) = <<tree[i][3], s[3]>>

Kept(m, ids) == [id \in ids |-> m[id]]
Stats(m) == IF ~ m.min /\ ~ m.max THEN NoStats ELSE Kept(m, {"min", "max", "minExact", "maxExact"})

FooterWalked(groups, b) ==
    /\ FooterFilters(b) = [g \in DOMAIN groups |-> [c \in DOMAIN groups[g] |->
                              Kept(groups[g][c], {"type", "offset", "length"})]]
    /\ FooterStats(b) = [g \in DOMAIN groups |-> [c \in DOMAIN groups[g] |-> Stats(groups[g][c])]]

FilterLoaded(x, head) ==
    Loads(head \o Rep(Max({0, x.bytes - x.cut}), 255), x.length) <=>
        /\ x.bytes \in {32, 64} /\ x.unions = {2, 3, 4} /\ x.cut = 0
        /\ x.length \in {-1, Len(head) + x.bytes}

\* The filters and statistics found by stepping over a footer are what its fields
\* hold (readback.py:252-333: a chunk has a filter, bounds and exactness only if
\* its own fields do), and a filter is loaded exactly when its header is whole and
\* the footer's length is the header's and the bits', which the file has to the
\* last (readback.py:136-174).
WalkersAgree ==
    /\ Kind("footer") => FooterWalked(subject.groups, WriteValue(TStruct, FooterTree(subject.groups)))
    /\ Kind("filter") => FilterLoaded(subject.filter, WriteValue(TStruct, FilterTree(subject.filter)))

\* Four readers of the compact protocol and one writer understand the same bytes,
\* and what the generators of test files rewrite stays what it was in everything
\* the rewrite is not about: pages under new headers, the pages beside a spoiled
\* one, and a footer around an edit (parquet.py, corrupt.py).
ToolsAgree ==
    /\ ReadersAgree /\ WalkersAgree
    /\ HeadersMove /\ OnePageSpoiled /\ EditsKeepTheRest
=============================================================================

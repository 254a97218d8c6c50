------------------------------ MODULE PageLayout ------------------------------
(***************************************************************************)
(* The pages of a Parquet file: how write_writer_headers lays a file out   *)
(* anew (tools/datagen/parquet.py), how one page is spoiled                *)
(* (tools/datagen/corrupt.py) and how tools/check/page_index.py checks     *)
(* where the pages are and what their index says of them.                  *)
(*                                                                         *)
(* A file is [rows, groups, pages, indexes].  A page is [at, type, head,   *)
(* size, count, body]: the bytes of its header and of its body, the values *)
(* the header counts and those it has (numbers, Null or NaN).  A group is  *)
(* [rows, at, packed, raw, chunks], a chunk [kind, dict, data, file,       *)
(* packed, raw, values, oi, ci]: where its dictionary (0 for none) and its *)
(* first data page are and where the footer says it is, its sizes, its     *)
(* values, and its indexes as [at, len].  An index is [at, len, says];     *)
(* what a column index says of nulls and NaNs is a set of one list, or of  *)
(* none where the index leaves it out.                                     *)
(*                                                                         *)
(* An operator named D_X is a mutant of the D defined after it.            *)
(***************************************************************************)
EXTENDS Integers, Sequences, FiniteSets, FiniteSetsExt, SequencesExt

Null == 100
NaN == 101
OutOfRange == 102
Unreadable == 103
NoIndex == [at |-> 0, len |-> 0]
NoLength == -1

DataPage == 0  DictionaryPage == 2  DataPageV2 == 3

IsData(p) == p.type \in {DataPage, DataPageV2}
LengthOf(p) == p.head + p.size

SumOf(s, of(_)) ==
    LET sum[i \in 0..Len(s)] == IF i = 0 THEN 0 ELSE sum[i - 1] + of(s[i]) IN sum[Len(s)]
CountIn(p) == p.count

-----------------------------------------------------------------------------
(* What is in a chunk.                                                     *)

RECURSIVE WalkPages(_, _, _)
\* Page after page to the chunk's end; where none begins it stops short.
WalkPages(pages, pos, end) ==
    LET here == {p \in pages : p.at = pos}
    IN  IF pos >= end \/ here = {} THEN <<>>
        ELSE LET p == CHOOSE p \in here : TRUE
             IN  <<p>> \o WalkPages(pages, pos + LengthOf(p), end)

StartOf(c) == IF c.dict # 0 THEN c.dict ELSE c.data
PagesIn(f, c) == WalkPages(f.pages, StartOf(c), StartOf(c) + c.packed)
DataPagesIn(f, c) == SelectSeq(PagesIn(f, c), IsData)

RECURSIVE Joined(_)
\* pyarrow's values of a chunk: its data pages', one after the other.
Joined(ps) == IF ps = <<>> THEN <<>> ELSE Head(ps).body \o Joined(Tail(ps))

-----------------------------------------------------------------------------
(* write_writer_headers: every page's header is written anew, with false   *)
(* statistics in the first Bounded columns, the pages are put together     *)
(* behind the magic, and the places and sizes of the chunks and a row      *)
(* group's unpacked size put right (its place and its packed size stay).   *)
(* A header grows by grown[its type], or shrinks.                          *)

\* Where the page that began at a place is now.
MovedTo(moved, old) == (CHOOSE p \in ToSet(moved) : p.was = old).at

RECURSIVE MovePages(_, _, _)
\* The pages written one after the other from n on.
MovePages(ps, n, grown) ==
    IF ps = <<>> THEN <<>>
    ELSE LET p == Head(ps)
             new == [at |-> n, was |-> p.at, type |-> p.type, head |-> p.head + grown[p.type],
                     size |-> p.size, count |-> p.count, body |-> p.body]
         IN  <<new>> \o MovePages(Tail(ps), n + LengthOf(new), grown)

Unpoisoned == [t \in {DataPage, DictionaryPage, DataPageV2} |-> 0]

\* A chunk written from n on: its pages, and the chunk as the footer has it.
MoveChunk(f, c, n, grown) ==
    LET ps == PagesIn(f, c)
        moved == MovePages(ps, n, grown)
        length == SumOf(moved, LengthOf)
        data == MovedTo(moved, c.data)
    IN  [pages |-> moved,
         chunk |-> [c EXCEPT !.dict = IF @ = 0 THEN 0 ELSE MovedTo(moved, @), !.data = data, !.file = data,
                             !.packed = length, !.raw = @ + (length - c.packed)]]

RECURSIVE MoveChunks(_, _, _, _, _)
MoveChunks(f, cs, i, n, ways) ==
    IF i > Len(cs) THEN <<>>
    ELSE LET m == MoveChunk(f, cs[i], n, IF i <= ways.bounded THEN ways.grown ELSE Unpoisoned)
         IN  <<m>> \o MoveChunks(f, cs, i + 1, n + m.chunk.packed, ways)

RECURSIVE MoveGroups(_, _, _, _)
MoveGroups(f, gs, n, ways) ==
    IF gs = <<>> THEN <<>>
    ELSE LET ms == MoveChunks(f, Head(gs).chunks, 1, n, ways)
         IN  <<ms>> \o MoveGroups(f, Tail(gs), n + SumOf(ms, LAMBDA m : m.chunk.packed), ways)

Magic == 4

\* The file with false headers; it was written without a page index.
WithFalseHeaders(f, ways) ==
    LET all == MoveGroups(f, f.groups, Magic, ways)
    IN  [f EXCEPT !.pages = UNION {UNION {{[at |-> p.at, type |-> p.type, head |-> p.head, size |-> p.size,
                                            count |-> p.count, body |-> p.body] : p \in ToSet(all[g][c].pages)} :
                                              c \in DOMAIN all[g]} : g \in DOMAIN all},
                  !.groups = [g \in DOMAIN all |->
                      [@[g] EXCEPT !.chunks = [c \in DOMAIN all[g] |-> all[g][c].chunk],
                                   !.raw = SumOf(all[g], LAMBDA m : m.chunk.raw)]]]

-----------------------------------------------------------------------------
(* corrupt: a page of a chunk, counted from its first data page.           *)

RECURSIVE PageFrom(_, _, _)
PageFrom(f, pos, n) ==
    LET p == CHOOSE p \in f.pages : p.at = pos IN IF n = 0 THEN p ELSE PageFrom(f, pos + LengthOf(p), n - 1)

\* Levels nothing can be read past, or one late value that is out of range.
Spoiled(body, late) ==
    LET present == {i \in DOMAIN body : body[i] # Null}
    IN  [i \in DOMAIN body |->
            IF late = 0 THEN Unreadable
            ELSE IF i \in present /\ Cardinality({j \in present : j <= i}) = late THEN OutOfRange ELSE body[i]]

Corrupted(f, c, n, late) ==
    LET p == PageFrom(f, c.data, n)
    IN  [f EXCEPT !.pages = (@ \ {p}) \cup {[p EXCEPT !.body = Spoiled(@, late)]}]

-----------------------------------------------------------------------------
(* check_file                                                              *)

\* The pages as the footer places and counts them.
PagesOk(f, g, c) ==
    LET ps == PagesIn(f, c)  ds == DataPagesIn(f, c)
    IN  /\ SumOf(ps, LengthOf) = c.packed
        /\ SumOf(ds, CountIn) = c.values
        /\ c.values = g.rows
        /\ (c.dict # 0) = (\E i \in DOMAIN ps : ps[i].type = DictionaryPage)
        /\ ds # <<>> => ds[1].at = c.data

IndexAt(f, place) == CHOOSE x \in f.indexes : x.at = place.at
LengthOk(f, place) == place.len \in {NoLength, IndexAt(f, place).len}

\* MUTANT: where a page's rows begin is left unchecked.
LocationOk_NoRow(loc, p, row) == loc.at = p.at /\ loc.size = LengthOf(p)

LocationOk(loc, p, row) == loc.at = p.at /\ loc.size = LengthOf(p) /\ loc.row = row

\* The offset index: a location per data page.
LocationsOk(f, c) ==
    LET ds == DataPagesIn(f, c)  locs == IndexAt(f, c.oi).says
    IN  /\ LengthOk(f, c.oi)
        /\ Len(locs) = Len(ds)
        /\ \A i \in DOMAIN ds : LocationOk(locs[i], ds[i], SumOf(SubSeq(ds, 1, i - 1), CountIn))

\* decode_bound: a bound is stored as bits, numbers of a signed column in two's
\* complement; Wrap stands for 2^32.
Wrap == 256
Decoded(kind, raw) == IF kind = "int" /\ raw >= Wrap \div 2 THEN raw - Wrap ELSE raw

\* Bounds of bytes may be cut short outwards; others are the least and greatest.
BoundsOk(kind, lo, hi, numbers) ==
    IF kind = "bytes" THEN lo <= Min(numbers) /\ hi >= Max(numbers)
    ELSE lo = Min(numbers) /\ hi = Max(numbers)

CountOf(rows, v) == Cardinality({i \in DOMAIN rows : rows[i] = v})

\* A list that is left out says nothing; one without an entry for a page makes
\* Python raise.
EntryIs(lists, i, v) == \A list \in lists : i \in DOMAIN list /\ list[i] = v

NoBounds == [prev |-> <<>>, asc |-> TRUE, desc |-> TRUE]

Order(seen, lo, hi) ==
    [prev |-> <<lo, hi>>,
     asc |-> seen.asc /\ (seen.prev # <<>> => seen.prev[1] <= lo /\ seen.prev[2] <= hi),
     desc |-> seen.desc /\ (seen.prev # <<>> => seen.prev[1] >= lo /\ seen.prev[2] >= hi)]

RECURSIVE EntriesOk(_, _, _, _, _, _)
\* The column index, page by page from the i-th on, whose rows begin at first; a
\* page without numbers leaves the order be.
EntriesOk(c, says, ds, i, rows, seen) ==
    IF i > Len(ds) THEN (says.order = 1 => seen.asc) /\ (says.order = 2 => seen.desc)
    ELSE LET here == SubSeq(rows, 1, ds[i].count)
             rest == SubSeq(rows, ds[i].count + 1, Len(rows))
             present == ToSet(here) \ {Null}
             numbers == present \ {NaN}
         IN  /\ EntryIs(says.nulls, i, CountOf(here, Null))
             /\ says.null[i] = (present = {})
             /\ present # {} /\ c.kind = "float" => EntryIs(says.nans, i, CountOf(here, NaN))
             /\ IF numbers = {} THEN EntriesOk(c, says, ds, i + 1, rest, seen)
                ELSE LET lo == Decoded(c.kind, says.lo[i])  hi == Decoded(c.kind, says.hi[i])
                     IN  BoundsOk(c.kind, lo, hi, numbers) /\ EntriesOk(c, says, ds, i + 1, rest, Order(seen, lo, hi))

\* The column index: an entry per data page in each list, and each right.
ColumnIndexOk(f, c) ==
    LET ds == DataPagesIn(f, c)  says == IndexAt(f, c.ci).says
    IN  /\ LengthOk(f, c.ci)
        /\ {Len(says.null), Len(says.lo), Len(says.hi)} = {Len(ds)}
        /\ EntriesOk(c, says, ds, 1, Joined(ds), NoBounds)

ChunkOk(f, g, c, require) ==
    /\ PagesOk(f, g, c)
    /\ \/ c.oi = NoIndex /\ c.ci = NoIndex /\ ~ require
       \/ /\ c.oi # NoIndex /\ LocationsOk(f, c)
          /\ \/ c.ci = NoIndex /\ ~ require
             \/ c.ci # NoIndex /\ ColumnIndexOk(f, c)

CheckFile(f, require) ==
    /\ \A g \in DOMAIN f.groups : \A c \in DOMAIN f.groups[g].chunks :
          ChunkOk(f, f.groups[g], f.groups[g].chunks[c], require)
    /\ f.rows = SumOf(f.groups, LAMBDA g : g.rows)
=============================================================================

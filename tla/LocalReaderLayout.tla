------------------------- MODULE LocalReaderLayout -------------------------
(***************************************************************************)
(* How io/local_reader.zig cuts a query's planned byte ranges into reads:  *)
(* Reader.planFile, probe, coalesce, addUnits, layOut and planSegments.    *)
(*                                                                         *)
(* A plan is a sequence of files, each with its size, the ranges of each   *)
(* row group (none when it is pruned) and the ranges planning probes for.  *)
(* Every value here is an address in bytes; a page is PageLen of them.     *)
(* An operator named D_X is a mutant of the D defined after it.            *)
(***************************************************************************)
EXTENDS Integers, Sequences, SequencesExt, FiniteSets, FiniteSetsExt

CONSTANTS
    PageLen,    \* std.heap.pageSize()
    Block,      \* cfg.block: bytes per read
    Gap         \* COALESCE_GAP: a smaller gap between two ranges is read too

ASSUME LayoutAssumption ==
    /\ PageLen \in Nat \ {0}
    /\ Block \in {PageLen * k : k \in 1..Block}
    /\ Gap \in Nat

Lesser(a, b) == IF a < b THEN a ELSE b
Greater(a, b) == IF a < b THEN b ELSE a

AlignBackward(x) == x - (x % PageLen)
AlignForward(x) == AlignBackward(x + PageLen - 1)

ByStart(ranges) == SortSeq(ranges, LAMBDA a, b : a.start < b.start)

(***************************************************************************)
(* coalesce: sorted ranges clipped to the file and widened to whole pages, *)
(* merging those at most gap apart.                                        *)
(***************************************************************************)
Coalesce(ranges, size, gap) ==
    LET clip(r) == [start |-> AlignBackward(r.start),
                    end   |-> AlignForward(Lesser(r.end, size))]
        step(out, r) ==
            IF Lesser(r.end, size) <= r.start THEN out
            ELSE LET c == clip(r) IN
                 IF out # <<>> /\ c.start <= Last(out).end + gap
                 THEN Front(out) \o
                      <<[Last(out) EXCEPT !.end = Greater(@, c.end)]>>
                 ELSE Append(out, c)
    IN  FoldLeft(step, <<>>, ranges)

\* addUnits: the reads of [lo, hi), a block each.
Blocks(lo, hi) ==
    LET n == IF hi <= lo THEN 0 ELSE (hi - lo + Block - 1) \div Block
    IN  [k \in 1..n |-> [start |-> lo + (k - 1) * Block,
                         end   |-> Lesser(lo + k * Block, hi)]]

\* The parts of range r that none of the sorted, disjoint holes covers.
Without(r, holes) ==
    LET step(acc, p) ==
            IF p.end <= acc.lo \/ p.start >= r.end THEN acc
            ELSE [lo    |-> Greater(acc.lo, p.end),
                  parts |-> IF p.start > acc.lo
                            THEN Append(acc.parts, [start |-> acc.lo, end |-> p.start])
                            ELSE acc.parts]
        walked == FoldLeft(step, [lo |-> r.start, parts |-> <<>>], holes)
    IN  IF walked.lo < r.end
        THEN Append(walked.parts, [start |-> walked.lo, end |-> r.end])
        ELSE walked.parts

-----------------------------------------------------------------------------
\* Reader.probe: the probe's pages, none when it is empty or past the file.
ProbeRange(file, p) ==
    LET hi == Lesser(p.end, file.size)
    IN  IF hi <= p.start THEN <<>>
        ELSE <<[start |-> AlignBackward(p.start), end |-> AlignForward(hi)]>>

ProbesOf(file, mine(_)) ==
    FlattenSeq([k \in DOMAIN file.probes |->
                   IF mine(file.probes[k]) THEN ProbeRange(file, file.probes[k]) ELSE <<>>])

\* Every probe of the file, merged: what the probe units read.
Merged_Unmerged(file) == ByStart(ProbesOf(file, LAMBDA p : TRUE))
Merged(file) == Coalesce(ByStart(ProbesOf(file, LAMBDA p : TRUE)), file.size, 0)

\* Row group rg's pages: its ranges coalesced, its own probes taken in.
HeldRanges(file, rg) ==
    Coalesce(ByStart(Coalesce(ByStart(file.ranges[rg]), file.size, Gap)
                     \o ProbesOf(file, LAMBDA p : p.rg = rg)),
             file.size, 0)

\* Its own reads leave out every probed page of the file.
OwnRanges(file, rg) ==
    LET held == HeldRanges(file, rg)
    IN  FlattenSeq([k \in DOMAIN held |-> Without(held[k], Merged(file))])

OwnReads(file, rg) ==
    LET own == OwnRanges(file, rg)
    IN  FlattenSeq([k \in DOMAIN own |-> Blocks(own[k].start, own[k].end)])

RangeBytes(ranges) == FoldLeft(LAMBDA n, r : n + (r.end - r.start), 0, ranges)

\* File.rg_bytes: what a row group charges, the probed pages left out.
ChargeOf(file, rg) == RangeBytes(OwnRanges(file, rg))

PagesOf(ranges) ==
    UNION {{a \div PageLen : a \in ranges[k].start .. (ranges[k].end - 1)} :
              k \in DOMAIN ranges}

-----------------------------------------------------------------------------
(***************************************************************************)
(* layOut: all probes first, then each row group's own reads, file by file *)
(* and row group by row group.  A row group with any read takes the next   *)
(* ticket; its first read carries its whole window charge.  The row groups *)
(* of all files are numbered through, and so are their pages.              *)
(***************************************************************************)
RowGroupsBefore(plan, f) ==
    FoldLeft(LAMBDA n, file : n + Len(file.ranges), 0, SubSeq(plan, 1, f - 1))

ProbeUnits(plan, f) ==
    LET merged == Merged(plan[f])
        reads == FlattenSeq([k \in DOMAIN merged |->
                                Blocks(merged[k].start, merged[k].end)])
    IN  [k \in DOMAIN reads |->
            [probe |-> TRUE, file |-> f, rg |-> RowGroupsBefore(plan, f) + 1,
             pages |-> {<<f, p>> : p \in PagesOf(<<reads[k]>>)},
             charge |-> 0, ticket |-> 0]]

AddRowGroup(plan, units, f, rg) ==
    LET reads == OwnReads(plan[f], rg)
        tickets == Cardinality({units[k].ticket : k \in {j \in DOMAIN units : ~units[j].probe}})
    IN  units \o [k \in DOMAIN reads |->
            [probe |-> FALSE, file |-> f, rg |-> RowGroupsBefore(plan, f) + rg,
             pages |-> {<<f, p>> : p \in PagesOf(<<reads[k]>>)},
             charge |-> IF k = 1 THEN ChargeOf(plan[f], rg) ELSE 0,
             ticket |-> tickets]]

LayOut(plan) ==
    LET probes == FlattenSeq([f \in DOMAIN plan |-> ProbeUnits(plan, f)])
        rgs == FlattenSeq([f \in DOMAIN plan |->
                              [rg \in DOMAIN plan[f].ranges |-> <<f, rg>>]])
    IN  FoldLeft(LAMBDA units, at : AddRowGroup(plan, units, at[1], at[2]), probes, rgs)

(***************************************************************************)
(* planSegments: the file cut where the set of row groups covering it      *)
(* changes, with the number of row groups covering each cut.               *)
(***************************************************************************)
Cuts(ranges) ==
    {ranges[k].start : k \in DOMAIN ranges} \cup {ranges[k].end : k \in DOMAIN ranges}

OpenAt(ranges, pos) ==
    Cardinality({k \in DOMAIN ranges : ranges[k].start <= pos /\ pos < ranges[k].end})

Segments(file) ==
    LET ranges == FlattenSeq([rg \in DOMAIN file.ranges |-> HeldRanges(file, rg)])
        at == SetToSortSeq(Cuts(ranges), <)
        all == [k \in 1..(Len(at) - 1) |->
                   [start |-> at[k], end |-> at[k + 1], refs |-> OpenAt(ranges, at[k])]]
    IN  SelectSeq(all, LAMBDA s : s.refs > 0)
=============================================================================

------------------------ MODULE MCLocalReaderLayout ------------------------
(***************************************************************************)
(* Plans one file range by range and probe by probe, as planLocalReader    *)
(* and DictProbeSink.add do, and checks at every plan what layOut and      *)
(* planSegments make of it against definitions on sets of pages.           *)
(***************************************************************************)
EXTENDS LocalReaderLayout

CONSTANTS
    Size,       \* the file's bytes
    RGs,        \* its row groups
    Starts, Lengths,
    MaxPlanned  \* ranges and probes together

VARIABLES
    ranges, probes,     \* the plan
    units, segs         \* what layOut and planSegments make of it

planVars == <<ranges, probes, units, segs>>

file == [size |-> Size, ranges |-> ranges, probes |-> probes]

PlanInit ==
    /\ ranges = [rg \in 1..RGs |-> <<>>]
    /\ probes = <<>>
    /\ units = <<>>
    /\ segs = <<>>

Planned == FoldLeft(LAMBDA n, rs : n + Len(rs), 0, ranges) + Len(probes)

\* Both are sorted before use: planning them sorted loses nothing.
After(s, planned) == \A k \in DOMAIN planned : planned[k].start <= s

CutUp ==
    /\ units' = LayOut(<<file'>>)
    /\ segs' = Segments(file')

PlanRange(rg, s, n) ==
    /\ probes = <<>>
    /\ Planned < MaxPlanned
    /\ After(s, ranges[rg])
    /\ ranges' = [ranges EXCEPT ![rg] = Append(@, [start |-> s, end |-> s + n])]
    /\ UNCHANGED probes
    /\ CutUp

Probe(rg, s, n) ==
    /\ Planned < MaxPlanned
    /\ After(s, probes)
    /\ probes' = Append(probes, [rg |-> rg, start |-> s, end |-> s + n])
    /\ UNCHANGED ranges
    /\ CutUp

PlanNext ==
    \E rg \in 1..RGs, s \in Starts, n \in Lengths :
        PlanRange(rg, s, n) \/ Probe(rg, s, n)

-----------------------------------------------------------------------------
Bytes(rs) == UNION {rs[k].start .. (rs[k].end - 1) : k \in DOMAIN rs}
Inside(r) == {a \in r.start .. (r.end - 1) : a < Size}
PagesTouched(rs) == UNION {{a \div PageLen : a \in Inside(rs[k])} : k \in DOMAIN rs}
InFile(pages) == {<<1, p>> : p \in pages}
ProbesOfRG(rg) == SelectSeq(probes, LAMBDA p : p.rg = rg)

\* Every byte a row group's scan or planning reads is read before that row
\* group's gate opens, by its own reads or by the file's probes, and no page is
\* read twice for it: not by two of its own reads and not by a probe as well (a
\* late second read would overwrite nothing, but a page given back under it would
\* come back to stay).
NeededPagesReadOnce ==
    LET reads(rg) == {k \in DOMAIN units : units[k].probe \/ units[k].rg = rg}
    IN  \A rg \in 1..RGs :
            /\ InFile(PagesTouched(ranges[rg]) \cup PagesTouched(ProbesOfRG(rg)))
                   \subseteq UNION {units[k].pages : k \in reads(rg)}
            /\ \A i, j \in reads(rg) : i < j => units[i].pages \cap units[j].pages = {}

\* The first unit of each row group carries the bytes of all of its own units
\* and the others none; its units share one ticket no other row group has, and
\* tickets count up in unit order without a gap.
ChargeIsWhatIsRead ==
    LET own == {k \in DOMAIN units : ~units[k].probe}
    IN  /\ \A k \in own :
             LET mates == {j \in own : units[j].rg = units[k].rg}
             IN  /\ mates = {j \in own : units[j].ticket = units[k].ticket}
                 /\ units[k].charge =
                      IF k = Min(mates)
                      THEN PageLen * Cardinality(UNION {units[j].pages : j \in mates})
                      ELSE 0
        /\ {units[k].ticket : k \in own}
             = 0 .. (Cardinality({units[k].rg : k \in own}) - 1)
        /\ \A j, k \in DOMAIN units :
             j < k /\ ~units[j].probe => ~units[k].probe /\ units[j].ticket <= units[k].ticket

\* A segment's count is the number of row groups holding each of its pages,
\* no page held by anyone is in no segment, and no page is in two: so a page
\* goes back exactly when the last row group holding it is done.  release finds a
\* range's segments by binary search for its first byte: no segment begins before
\* a held range and reaches into it, nor runs past it.
SegmentsFollowHolders ==
    LET held == [rg \in 1..RGs |-> Bytes(HeldRanges(file, rg))]
        holders(a) == {rg \in 1..RGs : a \in held[rg]}
    IN  /\ \A k \in DOMAIN segs : \A a \in segs[k].start .. (segs[k].end - 1) :
             segs[k].refs = Cardinality(holders(a))
        /\ Bytes(segs) = UNION {held[rg] : rg \in 1..RGs}
        /\ \A j, k \in DOMAIN segs : j < k => segs[j].end <= segs[k].start
        /\ \A rg \in 1..RGs : \A k \in DOMAIN HeldRanges(file, rg), s \in DOMAIN segs :
             LET r == HeldRanges(file, rg)[k]
             IN  \/ segs[s].end <= r.start
                 \/ segs[s].start >= r.end
                 \/ segs[s].start >= r.start /\ segs[s].end <= r.end

\* What is read for a row group is there once before its gate opens, is charged as
\* what it is, and goes back with the last row group that holds it.
PagesComeAndGoOnce == NeededPagesReadOnce /\ ChargeIsWhatIsRead /\ SegmentsFollowHolders
=============================================================================

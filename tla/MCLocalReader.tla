--------------------------- MODULE MCLocalReader ---------------------------
(***************************************************************************)
(* LocalReader over the reads LayOut makes of a plan.                      *)
(*                                                                         *)
(* TLC evaluates a definition given for a constant anew at every use, but  *)
(* evaluates the definitions it refers to once: hence the Laid* ones.      *)
(***************************************************************************)
EXTENDS LocalReader, TLC

Layout == INSTANCE LocalReaderLayout WITH PageLen <- 1, Block <- 3, Gap <- 0

R(lo, hi) == [start |-> lo, end |-> hi]
P(g, lo, hi) == [rg |-> g, start |-> lo, end |-> hi]

\* Four row groups: the first two share a page, the third is pruned but probed,
\* the fourth is probed too and takes two reads.  The probes are read as one.
Plan == <<[size   |-> 10,
           ranges |-> <<<<R(0, 2)>>, <<R(1, 3)>>, <<>>, <<R(4, 10)>>>>,
           probes |-> <<P(3, 3, 4), P(4, 4, 5)>>]>>

HeldPages(plan, f, rg) == {<<f, p>> : p \in Layout!PagesOf(Layout!HeldRanges(plan[f], rg))}

\* What the layout makes of the plan, written out to keep TLC's coverage
\* statistics small: a read of the probes, one each of the first two row groups,
\* two of the fourth, charged by its first.
Unit(f, g, t, charge, pages) ==
    [probe |-> FALSE, file |-> f, rg |-> g, pages |-> {<<f, p>> : p \in pages},
     charge |-> charge, ticket |-> t]
Probe(f, g, pages) ==
    [probe |-> TRUE, file |-> f, rg |-> g, pages |-> {<<f, p>> : p \in pages},
     charge |-> 0, ticket |-> 0]

LaidUnits == <<Probe(1, 1, {3, 4}),
               Unit(1, 1, 0, 2, {0, 1}),
               Unit(1, 2, 1, 2, {1, 2}),
               Unit(1, 4, 2, 5, {5, 6, 7}), Unit(1, 4, 2, 0, {8, 9})>>
LaidHolds == <<{<<1, 0>>, <<1, 1>>}, {<<1, 1>>, <<1, 2>>}, {<<1, 3>>},
               {<<1, p>> : p \in 4..9}>>
LaidFileOf == <<1, 1, 1, 1>>
LaidWork == <<1, 2, 3, 4>>

ASSUME PlanIsLaidOut ==
    /\ LaidUnits = Layout!LayOut(Plan)
    /\ LaidHolds = [rg \in 1..4 |-> HeldPages(Plan, 1, rg)]

MCNumRG == 4
MCFileOf == LaidFileOf
MCUnits == LaidUnits
MCHolds == LaidHolds
MCPruned == {3}
MCWork == LaidWork

\* A smaller plan over two files: the first file's row group is probed, the
\* second file's two share a page.  Each row group is two work items.
SmallPlan ==
    <<[size |-> 3, ranges |-> <<<<R(0, 3)>>>>, probes |-> <<P(1, 0, 1)>>],
      [size |-> 3, ranges |-> <<<<R(0, 2)>>, <<R(1, 3)>>>>, probes |-> <<>>]>>

LaidSmallUnits == <<Probe(1, 1, {0}),
                    Unit(1, 1, 0, 2, {1, 2}),
                    Unit(2, 2, 1, 2, {0, 1}),
                    Unit(2, 3, 2, 2, {1, 2})>>
LaidSmallHolds == <<{<<1, 0>>, <<1, 1>>, <<1, 2>>}, {<<2, 0>>, <<2, 1>>}, {<<2, 1>>, <<2, 2>>}>>
LaidSmallFileOf == <<1, 2, 2>>
LaidSmallWork == <<1, 1, 2, 2, 3, 3>>

ASSUME SmallPlanIsLaidOut ==
    /\ LaidSmallUnits = Layout!LayOut(SmallPlan)
    /\ LaidSmallHolds = <<HeldPages(SmallPlan, 1, 1), HeldPages(SmallPlan, 2, 1),
                          HeldPages(SmallPlan, 2, 2)>>

MCSmallUnits == LaidSmallUnits
MCSmallHolds == LaidSmallHolds
MCSmallFileOf == LaidSmallFileOf
MCSmallWork == LaidSmallWork

Symmetry == Permutations(Readers) \cup Permutations(Workers)
=============================================================================

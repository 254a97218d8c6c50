----------------------------- MODULE BenchScore -----------------------------
(***************************************************************************)
(* bench/stalls.py and bench/score.py: which cases a host disturbed, and    *)
(* what the records of a lane are worth.  A record is                      *)
(*   [case, engine, rep, round, status, elapsed, stall, hostFull, read]    *)
(* with times in seconds; a head is [reps, psi, smoke, maxRound].  Records *)
(* are a sequence where lines count, as in a journal, and a set where not.  *)
(***************************************************************************)
EXTENDS Integers, Sequences, FiniteSets, FiniteSetsExt, SequencesExt

\* Why the host, not the engine, made a rep slow (stalls.py:24-39).
StallEvidence(psi, r, fastest) ==
    \/ psi /\ r.hostFull
    \/ LET excess == r.elapsed - fastest.elapsed
       IN  /\ excess > 1 /\ excess > 2 * fastest.elapsed
           /\ psi => /\ 2 * (r.stall - fastest.stall) >= excess
                     /\ 10 * r.read <= 11 * Max({1, fastest.read})

\* The timed records of a case in a round; rep 0 is a warm-up.
Cohort(rs, case, rnd) ==
    {r \in rs : r.case = case /\ r.round = rnd /\ r.rep >= 1}

Timed(rs) == {r \in rs : r.status = "ok" /\ r.elapsed > 0}

\* A rep that was disturbed, or stalled against its cell's fastest.
Disturbed(psi, rs, rnd) ==
    {case \in {r.case : r \in rs} :
        LET cohort == Cohort(rs, case, rnd)
            fastest(e) == CHOOSE f \in {r \in Timed(cohort) : r.engine = e} :
                            \A r \in Timed(cohort) : r.engine = e => f.elapsed <= r.elapsed
        IN  \/ \E r \in cohort : r.status = "disturbed"
            \/ \E r \in Timed(cohort) : StallEvidence(psi, r, fastest(r.engine))}

Ran(rs) == {r.case : r \in ToSet(rs)}

LatestRound(rs, case) == Max({r.round : r \in {r \in ToSet(rs) : r.case = case}})

\* Disturbed in the last round that ran them; quarantined once no re-run is left.
DisturbedLast(head, rs) ==
    {case \in Ran(rs) : case \in Disturbed(head.psi, ToSet(rs), LatestRound(rs, case))}

Quarantined(head, rs) ==
    {case \in DisturbedLast(head, rs) : LatestRound(rs, case) >= head.maxRound}

Pending(head, rs) == DisturbedLast(head, rs) \ Quarantined(head, rs)

-----------------------------------------------------------------------------
(* score.cells and score.score.                                            *)

\* The lines a cell is made of, every line of the journal counting once.
CellReps(rs, case, engine) ==
    {i \in DOMAIN rs : /\ rs[i].case = case /\ rs[i].engine = engine /\ rs[i].rep >= 1
                       /\ rs[i].round = LatestRound(rs, case)}

Oks(rs, lines) == {i \in lines : rs[i].status = "ok"}

\* The k-th smallest of the times of some lines.
NthTime(rs, lines, k) ==
    CHOOSE t \in {rs[i].elapsed : i \in lines} :
        /\ Cardinality({i \in lines : rs[i].elapsed < t}) < k
        /\ k <= Cardinality({i \in lines : rs[i].elapsed <= t})

\* Twice statistics.median.
Median2(rs, oks) ==
    NthTime(rs, oks, (Cardinality(oks) + 1) \div 2) + NthTime(rs, oks, (Cardinality(oks) + 2) \div 2)

\* MUTANT: one checked rep makes a cell.
Cell_AnyOk(head, rs, case, engine) ==
    LET reps == CellReps(rs, case, engine)
    IN  IF reps = {} THEN "absent" ELSE IF Oks(rs, reps) # {} THEN "median" ELSE "failed"

\* A cell is absent, failed, complete with its median, or incomplete.
Cell(head, rs, case, engine) ==
    LET reps == CellReps(rs, case, engine)
    IN  IF reps = {} THEN "absent"
        ELSE IF \E i \in reps : rs[i].status \in {"failed", "wrong", "timeout"} THEN "failed"
        ELSE IF Cardinality(Oks(rs, reps)) = head.reps THEN "median" ELSE "incomplete"

\* A planned case with no cell at all.
Missing(rs, planned, engines) ==
    {case \in planned : \A e \in engines : CellReps(rs, case, e) = {}}

\* score.score: the limit on quarantined cases is 2 percent.
Verdict(head, rs, planned, engines) ==
    IF \/ Missing(rs, planned, engines) # {} \/ Pending(head, rs) # {}
       \/ 100 * Cardinality(Quarantined(head, rs)) > 2 * Max({1, Cardinality(planned)})
    THEN "INCOMPLETE"
    ELSE IF ~ head.psi \/ head.smoke THEN "UNCERTIFIED" ELSE "COMPLETE"

\* MUTANT: the limit is twice a rival's time.
TooSlow_Twice(time, rival) == time > 2 * rival

\* More than one and a half times as slow.
TooSlow(time, rival) == 2 * time > 3 * rival

\* score.ship_bar: zpq against each rival, every planned case in the
\* denominator, a quarantined one on neither side.
ShipBar(head, rs, planned, rivals) ==
    LET n == Cardinality(planned)
        counted == planned \ Quarantined(head, rs)
        failed == {case \in counted : Cell(head, rs, case, "zpq") # "median"}
        won == counted \ failed
        \* the rivals with a median for the case
        timed(case) == {r \in rivals : Cell(head, rs, case, r) = "median"}
        time(case, e) == Median2(rs, Oks(rs, CellReps(rs, case, e)))
        best(case) == Min({time(case, r) : r \in timed(case)})
        raced == {case \in won : timed(case) # {}}
        beats(r) == {case \in won : r \notin timed(case) \/ time(case, "zpq") < time(case, r)}
        behind == failed \cup {case \in raced : time(case, "zpq") > best(case)}
        over == failed \cup {case \in raced : TooSlow(time(case, "zpq"), best(case))}
    IN  [failed |-> failed, behind |-> behind, over |-> over,
         met |-> /\ \A r \in rivals : 2 * Cardinality(beats(r)) > n
                 /\ 5 * Cardinality(behind) <= n
                 /\ over = {}]
=============================================================================

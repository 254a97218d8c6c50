--------------------------- MODULE SpawnPool_proofs ---------------------------
(***************************************************************************)
(* core/spawn.zig for any users, sizes of regions and slots, whichever     *)
(* threads fail to start: the count a caller waits on is of the jobs still *)
(* out, so nothing runs on in a region that was left; and the pool's lists *)
(* have each of its threads, so the last close joins them all.             *)
(*                                                                         *)
(* PoolInv is kept while each last close comes when the threads are idle   *)
(* again, which the pool itself does not see to (see the finding on        *)
(* releasePool).  From one that comes before, EarlyInv: the threads are on *)
(* their way back, on the lists they are joined from, until somebody opens *)
(* a context over them.  Of what comes after that, nothing is claimed.     *)
(***************************************************************************)
EXTENDS SpawnPool, FiniteSetTheorems, SequenceTheorems, DataLemmas, TLAPS

UserPCs == {"out", "in", "take", "grow", "root", "list", "wait", "tell", "join"}
SlotPCs == {"none", "made", "boot", "list", "look", "job", "run", "park", "push", "exited"}

CallerTypes ==
    /\ upc \in [Users -> UserPCs]
    /\ opens \in [Users -> Nat] /\ regions \in [Users -> Nat]
RegionTypes ==
    /\ pending \in [Users -> Int] /\ next \in [Users -> Nat]
    /\ warm \in [Users -> Nat] /\ grown \in [Users -> BOOLEAN]
    /\ fresh \in [Users -> Seq(Slots)]
    /\ DOMAIN ran = Users /\ \A u \in Users : ran[u] \in [1..Size[u] -> Nat]
SlotTypes ==
    /\ spc \in [Slots -> SlotPCs]
    /\ state \in [Slots -> {"idle", "posted", "exit"}]
    /\ user \in [Slots -> Users]
    /\ place \in [Slots -> Nat] /\ kid \in [Slots -> 0..2]
PoolTypes ==
    /\ idle \in Seq(Slots) /\ all \in Seq(Slots)
    /\ holders \in Int
    /\ joins \in [Users -> Seq(Slots)]
TypeOK == CallerTypes /\ RegionTypes /\ SlotTypes /\ PoolTypes

\* The jobs of u that a thread holds; those of them whose context is not
\* claimed; those u has yet to hand out.
HeldBy(u) == {s \in Slots : Holds(s, u)}
ToClaim(u) == {s \in HeldBy(u) : spc[s] # "run"}
ToHandOut(u) == IF upc[u] \in {"take", "grow"} THEN Size[u] - warm[u] ELSE 0

CountIs(u) ==
    /\ pending[u] = ToHandOut(u) + Cardinality(HeldBy(u))
    /\ next[u] + ToHandOut(u) + Cardinality(ToClaim(u)) <= Size[u]
    /\ warm[u] <= Size[u]
    /\ \A k \in 1..Size[u] : ran[u][k] <= 1 /\ (k > next[u] => ran[u][k] = 0)
Counted == \A u \in Users : CountIs(u)

\* What a caller that took no idle thread and started none knows.
CallerKnows(u) ==
    /\ ~InRegion(u) => HeldBy(u) = {} /\ next[u] = 0 /\ warm[u] = 0
    /\ upc[u] \notin {"root", "list", "wait"} => fresh[u] = <<>> /\ ~grown[u]
    /\ upc[u] \in {"take", "grow"} /\ warm[u] = 0 => HeldBy(u) = {}
    /\ upc[u] = "root" => ~grown[u] /\ (warm[u] = 0 => HeldBy(u) \subseteq ToSet(fresh[u]))
    /\ upc[u] = "list" => grown[u]
    /\ upc[u] = "wait" /\ Declines(u) => HeldBy(u) = {}

Posted ==
    \A s \in Slots :
        /\ spc[s] \in {"made", "boot", "list"} => state[s] = "posted"
        /\ spc[s] = "push" => state[s] = "idle"

\* The places in the subtrees that thread s has yet to start.
Below(p, k, n) == UNION {Subtree(2 * p + j, n) : j \in k..1}
FirstLeft(s) == IF spc[s] = "list" THEN kid[s] + 1 ELSE kid[s]
Left(s) == Below(place[s], FirstLeft(s), Len(fresh[user[s]]))

AtItsPlace(s) ==
    /\ place[s] \in DOMAIN fresh[user[s]]
    /\ fresh[user[s]][place[s]] = s
    /\ spc[s] = "list" => kid[s] < 2 /\ Child(s) \in DOMAIN fresh[user[s]]

Made(u, i) == spc[fresh[u][i]] = "made" /\ user[fresh[u][i]] = u

\* Each slot of the tree not yet started is below one thread that will start or
\* cancel it, or below the root the caller has yet to start.
RootMade ==
    \A u \in Users :
        /\ upc[u] = "root" => fresh[u] # <<>> /\ \A i \in DOMAIN fresh[u] : Made(u, i)
        /\ upc[u] = "list" => fresh[u] # <<>>
KidsMade == \A s \in Slots : Booting(s) => AtItsPlace(s) /\ \A i \in Left(s) : Made(user[s], i)
LeftApart ==
    \A s, t \in Slots :
        Booting(s) /\ Booting(t) /\ user[s] = user[t] /\ s # t => Left(s) \cap Left(t) = {}
TreeInv ==
    /\ \A u \in Users : IsInjective(fresh[u])
    /\ RootMade
    /\ KidsMade
    /\ LeftApart

\* Who is about to put slot x on Pool.all.
CallerLists(u, x) == upc[u] = "list" /\ x = fresh[u][1]
ThreadLists(p, x) == spc[p] = "list" /\ x = fresh[user[p]][Child(p)]

Runs(s) == spc[s] \notin {"none", "made"}
Joining(u, s) == s \in ToSet(joins[u])

\* A thread is on one of three: Pool.all, a list of threads to join, or about to
\* be put on Pool.all by the one that started it.
ListedOnce ==
    /\ IsInjective(all)
    /\ \A u \in Users : IsInjective(joins[u])
    /\ \A s \in Slots :
          Runs(s) <=> s \in ToSet(all) \/ BeingListed(s) \/ \E u \in Users : Joining(u, s)
    /\ \A s \in ToSet(all) : ~BeingListed(s) /\ \A u \in Users : ~Joining(u, s)
    /\ \A u \in Users : \A s \in ToSet(joins[u]) :
          ~BeingListed(s) /\ \A v \in Users : Joining(v, s) => v = u
OneLister ==
    /\ \A u, v \in Users : \A x \in Slots : CallerLists(u, x) /\ CallerLists(v, x) => u = v
    /\ \A p, q \in Slots : \A x \in Slots : ThreadLists(p, x) /\ ThreadLists(q, x) => p = q
    /\ \A u \in Users : \A p, x \in Slots : ~(CallerLists(u, x) /\ ThreadLists(p, x))

IdleSleeps ==
    /\ IsInjective(idle)
    /\ \A s \in ToSet(idle) :
          /\ s \in ToSet(all) \/ BeingListed(s)
          /\ spc[s] = "look" /\ state[s] = "idle"

\* Told(u): u waits in join for the head of its list.
JoinsSleep ==
    \A u \in Users :
        /\ upc[u] \notin {"tell", "join"} => joins[u] = <<>>
        /\ upc[u] = "join" => joins[u] # <<>>
        /\ \A s \in ToSet(joins[u]) :
              IF upc[u] = "join" /\ s = Head(joins[u])
              THEN state[s] = "exit" /\ spc[s] \in {"look", "exited"}
              ELSE state[s] = "idle" /\ spc[s] = "look"

\* The users that hold the pool.
Holding == {u \in Users : upc[u] = "in" \/ InRegion(u)}
HeldOpen ==
    /\ holders = Cardinality(Holding)
    /\ holders = 0 => all = <<>>

PoolInv ==
    /\ TypeOK
    /\ Counted
    /\ \A u \in Users : CallerKnows(u)
    /\ Posted
    /\ TreeInv
    /\ ListedOnce
    /\ OneLister
    /\ IdleSleeps
    /\ JoinsSleep
    /\ HeldOpen

\* After an early close: no caller is in a region, no thread has a job, and those
\* that are left are joined by somebody, before or after they put themselves on
\* an idle list that no one takes from.
Returning(s) == spc[s] \in {"park", "push"}
EarlyTypes ==
    /\ upc \in [Users -> UserPCs]
    /\ spc \in [Slots -> SlotPCs] /\ state \in [Slots -> {"idle", "posted", "exit"}]
    /\ user \in [Slots -> Users]
    /\ idle \in Seq(Slots) /\ joins \in [Users -> Seq(Slots)]
EarlyUser(u) ==
    /\ upc[u] \in {"out", "tell", "join"}
    /\ upc[u] = "join" => joins[u] # <<>>
    /\ pending[u] = 0 /\ next[u] <= Size[u]
    /\ \A k \in DOMAIN ran[u] : ran[u][k] <= 1
EarlySlot(s) ==
    /\ spc[s] \in {"none", "look", "park", "push", "exited"}
    /\ spc[s] \in {"look", "push"} => state[s] # "posted"
    /\ Live(s) => \E u \in Users : Joining(u, s)
EarlyInv ==
    /\ EarlyTypes
    /\ holders = 0
    /\ \A u \in Users : EarlyUser(u)
    /\ \A s \in Slots : EarlySlot(s)
    /\ IsInjective(idle) /\ \A s \in ToSet(idle) : ~Returning(s)

\* The inductive invariant.
ClosesInv ==
    /\ closes \in {"quiet", "early", "reopened"}
    /\ closes = "quiet" => PoolInv
    /\ closes = "early" => EarlyInv

-----------------------------------------------------------------------------
(* The subtrees of a region's tree.                                        *)

LEMMA SubtreeBounds ==
    ASSUME NEW c \in Nat, NEW n \in Nat
    PROVE  /\ Subtree(c, n) \subseteq c..n
           /\ c <= n => c \in Subtree(c, n)
           /\ c > n => Subtree(c, n) = {}
    BY DEF Subtree

\* A subtree has its nodes' children.
LEMMA SubtreeClosed ==
    ASSUME NEW c \in Nat \ {0}, NEW n \in Nat
    PROVE  Closed(Subtree(c, n), n)
<1> SUFFICES ASSUME NEW i \in Subtree(c, n), NEW k \in {2 * i, 2 * i + 1}, k \in 1..n
             PROVE  k \in Subtree(c, n)
    BY DEF Closed
<1>1. i \in c..n
    BY DEF Subtree
<1>2. k \in c..n
    BY <1>1
<1>3. ASSUME NEW S \in SUBSET (c..n), c \in S, Closed(S, n) PROVE k \in S
    <2>1. i \in S
        BY <1>3 DEF Subtree
    <2> QED
        BY <1>3, <2>1 DEF Closed
<1> QED
    BY <1>2, <1>3 DEF Subtree

\* It is in every such set that has its root.
LEMMA SubtreeLeast ==
    ASSUME NEW c \in Nat \ {0}, NEW n \in Nat, NEW S, c \in S, Closed(S \cap (c..n), n), c <= n
    PROVE  Subtree(c, n) \subseteq S
<1>1. S \cap (c..n) \in SUBSET (c..n) /\ c \in S \cap (c..n)
    OBVIOUS
<1> QED
    BY <1>1 DEF Subtree

\* Below its root, a node has its parent in the tree.
LEMMA ParentIn ==
    ASSUME NEW c \in Nat \ {0}, NEW n \in Nat, NEW i \in Nat \ {0}, NEW k \in {2 * i, 2 * i + 1},
           k \in Subtree(c, n), k # c
    PROVE  i \in Subtree(c, n)
<1> SUFFICES ASSUME i \notin Subtree(c, n) PROVE FALSE
    OBVIOUS
<1> DEFINE S == Subtree(c, n) \ {k}
<1>1. Subtree(c, n) \subseteq c..n /\ c <= n /\ c \in Subtree(c, n)
    BY SubtreeBounds
<1>2. Closed(S, n)
    <2> SUFFICES ASSUME NEW j \in S, NEW m \in {2 * j, 2 * j + 1}, m \in 1..n PROVE m \in S
        BY DEF Closed
    <2>1. m \in Subtree(c, n)
        BY SubtreeClosed DEF Closed
    <2>2. j \in Nat /\ j # i
        BY <1>1
    <2>3. m # k
        BY <2>2
    <2> QED
        BY <2>1, <2>3
<1>3. S \cap (c..n) = S /\ c \in S
    BY <1>1
<1>4. Subtree(c, n) \subseteq S
    BY <1>1, <1>2, <1>3, SubtreeLeast
<1> QED
    BY <1>4

\* The subtrees of two children are apart.
LEMMA SiblingsApart ==
    ASSUME NEW c \in Nat \ {0}, NEW n \in Nat
    PROVE  Subtree(2 * c, n) \cap Subtree(2 * c + 1, n) = {}
<1> DEFINE L == Subtree(2 * c, n)
           R == Subtree(2 * c + 1, n)
<1>1. L \subseteq (2 * c)..n /\ R \subseteq (2 * c + 1)..n
    BY SubtreeBounds
<1>2. CASE 2 * c > n
    BY <1>1, <1>2
<1>3. CASE 2 * c <= n
    <2>1. Closed(L \ R, n)
        <3> SUFFICES ASSUME NEW j \in L \ R, NEW m \in {2 * j, 2 * j + 1}, m \in 1..n
                     PROVE  m \in L \ R
            BY DEF Closed
        <3>1. m \in L
            BY SubtreeClosed DEF Closed
        <3>2. j \in Nat /\ j >= 2 * c
            BY <1>1
        <3>3. m # 2 * c + 1
            BY <3>2
        <3>4. m \notin R
            <4> SUFFICES ASSUME m \in R PROVE FALSE
                OBVIOUS
            <4>1. 2 * c + 1 \in Nat \ {0} /\ j \in Nat \ {0}
                BY <3>2
            <4>2. j \in R
                BY <3>3, <4>1, ParentIn
            <4> QED
                BY <4>2
        <3> QED
            BY <3>1, <3>4
    <2>2. (L \ R) \cap ((2 * c)..n) = L \ R
        BY <1>1
    <2>3. 2 * c \in L \ R
        <3>1. 2 * c \in L
            BY <1>3, SubtreeBounds
        <3> QED
            BY <3>1, <1>1
    <2>4. L \subseteq L \ R
        BY <1>3, <2>1, <2>2, <2>3, SubtreeLeast
    <2> QED
        BY <2>4
<1> QED
    BY <1>2, <1>3

\* A subtree is its root and the subtrees of its children.
LEMMA SubtreeParts ==
    ASSUME NEW c \in Nat \ {0}, NEW n \in Nat, c <= n
    PROVE  Subtree(c, n) = {c} \cup Subtree(2 * c, n) \cup Subtree(2 * c + 1, n)
<1> DEFINE L == Subtree(2 * c, n)
           R == Subtree(2 * c + 1, n)
           T == {c} \cup L \cup R
<1>1. L \subseteq (2 * c)..n /\ R \subseteq (2 * c + 1)..n
    BY SubtreeBounds
<1>2. Closed(T, n)
    <2> SUFFICES ASSUME NEW j \in T, NEW m \in {2 * j, 2 * j + 1}, m \in 1..n PROVE m \in T
        BY DEF Closed
    <2>1. CASE j = c /\ m = 2 * c
        BY <2>1, SubtreeBounds
    <2>2. CASE j = c /\ m = 2 * c + 1
        BY <2>2, SubtreeBounds
    <2>3. CASE j \in L
        <3>1. m \in L
            BY <2>3, SubtreeClosed DEF Closed
        <3> QED
            BY <3>1
    <2>4. CASE j \in R
        <3>1. m \in R
            BY <2>4, SubtreeClosed DEF Closed
        <3> QED
            BY <3>1
    <2> QED
        BY <2>1, <2>2, <2>3, <2>4
<1>3. T \cap (c..n) = T
    BY <1>1
<1>4. Subtree(c, n) \subseteq T
    BY <1>2, <1>3, SubtreeLeast
<1>5. c \in Subtree(c, n) /\ Subtree(c, n) \subseteq c..n
    BY SubtreeBounds
<1>6. Closed(Subtree(c, n), n)
    BY SubtreeClosed
<1>7. ASSUME NEW k \in {2 * c, 2 * c + 1}, k <= n PROVE Subtree(k, n) \subseteq Subtree(c, n)
    <2>1. k \in Subtree(c, n)
        BY <1>5, <1>6, <1>7 DEF Closed
    <2>2. Closed(Subtree(c, n) \cap (k..n), n)
        <3> SUFFICES ASSUME NEW j \in Subtree(c, n) \cap (k..n), NEW m \in {2 * j, 2 * j + 1}, m \in 1..n
                     PROVE  m \in Subtree(c, n) \cap (k..n)
            BY DEF Closed
        <3>1. m \in Subtree(c, n)
            BY <1>6 DEF Closed
        <3> QED
            BY <3>1
    <2> QED
        BY <1>7, <2>1, <2>2, SubtreeLeast
<1>8. L \subseteq Subtree(c, n) /\ R \subseteq Subtree(c, n)
    <2>1. CASE 2 * c + 1 <= n
        BY <2>1, <1>7
    <2>2. CASE 2 * c = n
        BY <2>2, <1>7, <1>1
    <2>3. CASE 2 * c > n
        BY <2>3, <1>1
    <2> QED
        BY <2>1, <2>2, <2>3
<1> QED
    BY <1>4, <1>5, <1>8

\* The root's subtree is the tree.
LEMMA WholeTree == ASSUME NEW n \in Nat PROVE Subtree(1, n) = 1..n
<1> DEFINE T == (1..n) \ Subtree(1, n)
<1> SUFFICES ASSUME T # {} PROVE FALSE
    BY SubtreeBounds
<1>1. T \subseteq Nat
    OBVIOUS
<1>2. PICK k \in T : \A m \in T : k <= m
    <2> HIDE DEF T
    <2> QED
        BY <1>1, LeastNat
<1>3. k \in 1..n /\ k \notin Subtree(1, n)
    OBVIOUS
<1>4. k # 1
    BY <1>3, SubtreeBounds
<1>5. PICK i \in Nat : k = 2 * i \/ k = 2 * i + 1
    <2>1. k \div 2 \in Nat /\ (k = 2 * (k \div 2) \/ k = 2 * (k \div 2) + 1)
        BY <1>3
    <2> QED
        BY <2>1
<1>6. i \in 1..n /\ i < k
    BY <1>3, <1>4, <1>5
<1>7. i \in Subtree(1, n)
    BY <1>2, <1>6
<1>8. k \in Subtree(1, n)
    BY <1>3, <1>5, <1>7, SubtreeClosed DEF Closed
<1> QED
    BY <1>3, <1>8

LEMMA NoneBelow == ASSUME NEW p \in Nat, NEW n \in Nat PROVE Below(p, 2, n) = {}
    BY DEF Below

LEMMA BelowBounds ==
    ASSUME NEW p \in Nat \ {0}, NEW k \in 0..2, NEW n \in Nat
    PROVE  Below(p, k, n) \subseteq (2 * p + k)..n
<1> SUFFICES ASSUME NEW j \in k..1 PROVE Subtree(2 * p + j, n) \subseteq (2 * p + k)..n
    BY DEF Below
<1>1. Subtree(2 * p + j, n) \subseteq (2 * p + j)..n
    BY SubtreeBounds
<1> QED
    BY <1>1

\* A child and what is below it, and what is left after it.
LEMMA BelowParts ==
    ASSUME NEW p \in Nat \ {0}, NEW k \in {0, 1}, NEW n \in Nat
    PROVE  /\ Below(p, k, n) = Subtree(2 * p + k, n) \cup Below(p, k + 1, n)
           /\ Subtree(2 * p + k, n) \cap Below(p, k + 1, n) = {}
<1>1. Below(p, 1, n) = Subtree(2 * p + 1, n) /\ Below(p, 2, n) = {}
    <2>1. 1..1 = {1} /\ 2..1 = {}
        OBVIOUS
    <2> QED
        BY <2>1 DEF Below
<1>2. Below(p, 0, n) = Subtree(2 * p, n) \cup Subtree(2 * p + 1, n)
    <2>1. 0..1 = {0, 1} /\ 2 * p + 0 = 2 * p
        OBVIOUS
    <2> QED
        BY <2>1 DEF Below
<1>3. Subtree(2 * p, n) \cap Subtree(2 * p + 1, n) = {}
    BY SiblingsApart
<1>4. CASE k = 0
    BY <1>1, <1>2, <1>3, <1>4
<1>5. CASE k = 1
    BY <1>1, <1>2, <1>3, <1>5
<1> QED
    BY <1>4, <1>5

LEMMA SubtreeBelow ==
    ASSUME NEW c \in Nat \ {0}, NEW n \in Nat, c <= n
    PROVE  Subtree(c, n) = {c} \cup Below(c, 0, n) /\ c \notin Below(c, 0, n)
<1>1. Below(c, 0, n) = Subtree(2 * c, n) \cup Subtree(2 * c + 1, n)
    <2>1. 0..1 = {0, 1} /\ 2 * c + 0 = 2 * c
        OBVIOUS
    <2> QED
        BY <2>1 DEF Below
<1>2. Below(c, 0, n) \subseteq (2 * c)..n
    BY BelowBounds
<1> QED
    BY <1>1, <1>2, SubtreeParts

-----------------------------------------------------------------------------
(* Lists.                                                                  *)

LEMMA ConsList ==
    ASSUME NEW S, NEW s \in Seq(S), NEW x \in S
    PROVE  /\ <<x>> \o s \in Seq(S)
           /\ ToSet(<<x>> \o s) = ToSet(s) \cup {x}
           /\ x \notin ToSet(s) /\ IsInjective(s) => IsInjective(<<x>> \o s)
<1> DEFINE l == <<x>> \o s
<1>1. /\ l \in Seq(S) /\ Len(l) = Len(s) + 1 /\ Len(s) \in Nat
      /\ l[1] = x /\ \A i \in 1..Len(s) : l[i + 1] = s[i]
      /\ DOMAIN l = 1..Len(l) /\ DOMAIN s = 1..Len(s)
    OBVIOUS
<1> HIDE DEF l
<1>2. \A i \in DOMAIN l : i = 1 \/ (i - 1 \in DOMAIN s /\ l[i] = s[i - 1])
    <2> TAKE i \in DOMAIN l
    <2>1. CASE i # 1
        <3>1. i - 1 \in 1..Len(s) /\ (i - 1) + 1 = i
            BY <1>1, <2>1
        <3> QED
            BY <1>1, <3>1
    <2> QED
        BY <2>1
<1>3. ToSet(l) = ToSet(s) \cup {x}
    <2>1. ToSet(l) \subseteq ToSet(s) \cup {x}
        BY <1>1, <1>2 DEF ToSet
    <2>2. x \in ToSet(l)
        BY <1>1 DEF ToSet
    <2>3. ASSUME NEW i \in DOMAIN s PROVE s[i] \in ToSet(l)
        <3>1. i + 1 \in DOMAIN l /\ l[i + 1] = s[i]
            BY <1>1
        <3> QED
            BY <3>1 DEF ToSet
    <2> QED
        BY <2>1, <2>2, <2>3 DEF ToSet
<1>4. ASSUME x \notin ToSet(s), IsInjective(s) PROVE IsInjective(l)
    <2> SUFFICES ASSUME NEW i \in DOMAIN l, NEW j \in DOMAIN l, l[i] = l[j] PROVE i = j
        BY DEF IsInjective
    <2>1. \A k \in DOMAIN s : s[k] # x
        BY <1>4 DEF ToSet
    <2> QED
        BY <1>1, <1>2, <1>4, <2>1 DEF IsInjective
<1> QED
    BY <1>1, <1>3, <1>4 DEF l

LEMMA TailList ==
    ASSUME NEW S, NEW s \in Seq(S), s # <<>>
    PROVE  /\ Tail(s) \in Seq(S) /\ Head(s) \in ToSet(s) /\ Head(s) \in S
           /\ ToSet(Tail(s)) \subseteq ToSet(s)
           /\ ToSet(s) \subseteq ToSet(Tail(s)) \cup {Head(s)}
           /\ IsInjective(s) => IsInjective(Tail(s)) /\ ToSet(Tail(s)) = ToSet(s) \ {Head(s)}
<1> DEFINE l == Tail(s)
<1>1. /\ l \in Seq(S) /\ Len(l) = Len(s) - 1 /\ Len(s) \in Nat \ {0}
      /\ Head(s) = s[1] /\ \A i \in 1..Len(l) : l[i] = s[i + 1]
      /\ DOMAIN l = 1..Len(l) /\ DOMAIN s = 1..Len(s)
    OBVIOUS
<1> HIDE DEF l
<1>2. Head(s) \in ToSet(s) /\ Head(s) \in S
    BY <1>1 DEF ToSet
<1>3. \A i \in DOMAIN l : i + 1 \in DOMAIN s /\ l[i] = s[i + 1]
    BY <1>1
<1>4. ToSet(l) \subseteq ToSet(s)
    BY <1>3 DEF ToSet
<1>5. ToSet(s) \subseteq ToSet(l) \cup {Head(s)}
    <2> SUFFICES ASSUME NEW i \in DOMAIN s, i # 1 PROVE s[i] \in ToSet(l)
        BY <1>1 DEF ToSet
    <2>1. i - 1 \in DOMAIN l /\ (i - 1) + 1 = i
        BY <1>1
    <2>2. l[i - 1] = s[i]
        BY <1>3, <2>1
    <2> QED
        BY <2>1, <2>2 DEF ToSet
<1>6. ASSUME IsInjective(s) PROVE IsInjective(l) /\ Head(s) \notin ToSet(l)
    <2>1. \A i, j \in DOMAIN l : l[i] = l[j] => i = j
        <3> TAKE i, j \in DOMAIN l
        <3> QED
            BY <1>1, <1>3, <1>6 DEF IsInjective
    <2>2. \A i \in DOMAIN l : l[i] # Head(s)
        <3> TAKE i \in DOMAIN l
        <3> QED
            BY <1>1, <1>3, <1>6 DEF IsInjective
    <2> QED
        BY <2>1, <2>2 DEF IsInjective, ToSet
<1> QED
    BY <1>1, <1>2, <1>4, <1>5, <1>6 DEF l

LEMMA EmptyList == ToSet(<<>>) = {} /\ IsInjective(<<>>)
    BY DEF ToSet, IsInjective

LEMMA InList == ASSUME NEW S, NEW s \in Seq(S) PROVE ToSet(s) \subseteq S
    BY DEF ToSet


-----------------------------------------------------------------------------
(* Types.                                                                  *)

\* A thread in boot reads its own entry of fresh, and that of a child there is.
LEMMA ChildIsSlot ==
    ASSUME PoolInv, NEW s \in Slots, Booting(s), spc[s] = "list" \/ HasChild(s)
    PROVE  /\ Child(s) \in DOMAIN fresh[user[s]] /\ Child(s) \in Nat \ {0}
           /\ fresh[user[s]][Child(s)] \in Slots
           /\ kid[s] \in {0, 1} /\ place[s] \in Nat \ {0}
<1>1. /\ AtItsPlace(s) /\ fresh[user[s]] \in Seq(Slots) /\ place[s] \in Nat /\ kid[s] \in 0..2
      /\ user[s] \in Users
    BY DEF PoolInv, TreeInv, KidsMade, TypeOK, RegionTypes, SlotTypes
<1>2. /\ DOMAIN fresh[user[s]] = 1..Len(fresh[user[s]])
      /\ Len(fresh[user[s]]) \in Nat
      /\ \A i \in DOMAIN fresh[user[s]] : fresh[user[s]][i] \in Slots
    BY <1>1
<1>3. kid[s] < 2 /\ Child(s) \in DOMAIN fresh[user[s]]
    BY <1>1, <1>2 DEF AtItsPlace, HasChild, Child
<1> QED
    BY <1>1, <1>2, <1>3 DEF AtItsPlace, Child


\* A subtree of a finite tree can be counted.
LEMMA SubtreeFinite ==
    ASSUME NEW c \in Nat, NEW n \in Nat
    PROVE  IsFiniteSet(Subtree(c, n)) /\ Cardinality(Subtree(c, n)) \in Nat
<1>1. Subtree(c, n) \subseteq c..n
    BY SubtreeBounds
<1>2. IsFiniteSet(c..n)
    BY FS_Interval
<1> QED
    BY <1>1, <1>2, FS_Subset, FS_CardinalityType

LEMMA CallerTypesKeep ==
    ASSUME TypeOK, NEW u \in Users, Retain(u) \/ Enter(u) \/ Region(u) \/ ReleasePool(u) \/ Close(u)
    PROVE  CallerTypes'
<1>t. CallerTypes
    BY DEF TypeOK
<1>1. CASE Retain(u)
    BY <1>t, <1>1 DEF CallerTypes, Retain, Goto, UserPCs
<1>2. CASE Enter(u)
    BY <1>t, <1>2 DEF CallerTypes, Enter, Goto, UserPCs
<1>3. CASE UNCHANGED <<opens, regions>> /\ (UNCHANGED upc \/ \E pc \in UserPCs : Goto(u, pc))
    BY <1>t, <1>3 DEF CallerTypes, Goto, UserPCs
<1>4. CASE Region(u)
    <2>1. CASE TakeIdle(u)
        BY <2>1, <1>3 DEF TakeIdle, user_vars
    <2>2. CASE TakenAll(u) \/ StartRoot(u) \/ ListRoot(u) \/ Leave(u)
        BY <2>2, <1>3 DEF TakenAll, StartRoot, ListRoot, Leave, UserPCs
    <2>3. CASE Grow(u)
        BY <2>3, <1>3 DEF Grow, UserPCs
    <2> QED
        BY <1>4, <2>1, <2>2, <2>3 DEF Region
<1>5. CASE ReleasePool(u) \/ Close(u)
    BY <1>5, <1>3 DEF ReleasePool, Close, TellExit, Join, Joined, UserPCs
<1> QED
    BY <1>1, <1>2, <1>4, <1>5


\* grow's step, once it is known how many slots it made and which.
GrewBy(u, slots) ==
    /\ fresh' = [fresh EXCEPT ![u] = slots]
    /\ pending' = [pending EXCEPT ![u] = @ - ((Size[u] - warm[u]) - Len(slots))]
    /\ spc' = [s \in Slots |-> IF s \in ToSet(slots) THEN "made" ELSE spc[s]]
    /\ state' = [s \in Slots |-> IF s \in ToSet(slots) THEN "posted" ELSE state[s]]
    /\ user' = [s \in Slots |-> IF s \in ToSet(slots) THEN u ELSE user[s]]
    /\ Goto(u, IF slots = <<>> THEN "wait" ELSE "root")

LEMMA GrowMakes ==
    ASSUME TypeOK, Counted, NEW u \in Users, Grow(u)
    PROVE  \E slots \in Seq(Slots) :
              /\ GrewBy(u, slots)
              /\ IsInjective(slots) /\ ToSet(slots) \subseteq Unused
              /\ Len(slots) \in 0..(Size[u] - warm[u])
<1> DEFINE By(made, slots) ==
          /\ fresh' = [fresh EXCEPT ![u] = slots]
          /\ pending' = [pending EXCEPT ![u] = @ - ((Size[u] - warm[u]) - made)]
          /\ spc' = [s \in Slots |-> IF s \in ToSet(slots) THEN "made" ELSE spc[s]]
          /\ state' = [s \in Slots |-> IF s \in ToSet(slots) THEN "posted" ELSE state[s]]
          /\ user' = [s \in Slots |-> IF s \in ToSet(slots) THEN u ELSE user[s]]
          /\ Goto(u, IF made = 0 THEN "wait" ELSE "root")
<1>0. PICK made \in Makes(Size[u] - warm[u]) : \E slots \in NewSlots(made) : By(made, slots)
    BY DEF Grow
<1>1. PICK slots \in NewSlots(made) : By(made, slots)
    BY <1>0
<1>2. Size[u] - warm[u] \in Nat
    BY SpawnAssumption DEF TypeOK, RegionTypes, Counted, CountIs
<1>3. made \in 0..(Size[u] - warm[u])
    BY <1>0, <1>2 DEF Makes
<1>4. slots \in [1..made -> Unused] /\ Unused \subseteq Slots
    BY DEF NewSlots, Unused
<1>5. slots \in Seq(Slots) /\ Len(slots) = made /\ ToSet(slots) \subseteq Unused
    BY <1>3, <1>4 DEF ToSet
<1>6. IsInjective(slots)
    <2> DEFINE Lower(x) == Cardinality({s \in Unused : s < x})
    <2>1. \A i \in 1..made : Lower(slots[i]) = i - 1
        BY DEF NewSlots
    <2>2. DOMAIN slots = 1..made
        BY <1>4
    <2> HIDE DEF Lower
    <2> QED
        BY <1>3, <2>1, <2>2 DEF IsInjective
<1>7. slots = <<>> <=> made = 0
    BY <1>3, <1>5
<1> QED
    BY <1>1, <1>3, <1>5, <1>6, <1>7 DEF GrewBy

LEMMA RegionTypesKeep ==
    ASSUME PoolInv, NEW u \in Users, Enter(u) \/ Region(u)
    PROVE  RegionTypes'
<1>t. TypeOK /\ RegionTypes
    BY DEF PoolInv, TypeOK
<1>s. Size[u] \in Nat
    BY SpawnAssumption
<1>1. CASE Enter(u)
    BY <1>t, <1>s, <1>1 DEF RegionTypes, Enter
<1>2. CASE TakeIdle(u)
    BY <1>t, <1>2 DEF RegionTypes, TakeIdle
<1>3. CASE TakenAll(u) \/ ListRoot(u)
    BY <1>t, <1>3 DEF RegionTypes, TakenAll, ListRoot, region_vars
<1>4. CASE Grow(u)
    <2>1. PICK slots \in Seq(Slots) : GrewBy(u, slots)
        BY <1>t, <1>4, GrowMakes DEF PoolInv
    <2>2. Len(slots) \in Nat
        OBVIOUS
    <2>3. UNCHANGED <<next, warm, grown, ran>>
        BY <1>4 DEF Grow
    <2> QED
        BY <1>t, <1>s, <2>1, <2>2, <2>3 DEF RegionTypes, GrewBy
<1>5. CASE StartRoot(u)
    <2>1. Len(fresh[u]) \in Nat
        BY <1>t DEF RegionTypes
    <2>2. Cardinality(Subtree(1, Len(fresh[u]))) \in Int
        <3>1. \A c, n \in Nat : Cardinality(Subtree(c, n)) \in Int
            BY SubtreeFinite
        <3> QED
            BY <2>1, <3>1
    <2>4. UNCHANGED <<next, warm, fresh, ran>>
        BY <1>5 DEF StartRoot
    <2>5. pending' \in [Users -> Int]
        BY <1>t, <1>5, <2>2 DEF RegionTypes, StartRoot, Cancelled
    <2>6. grown' \in [Users -> BOOLEAN]
        BY <1>t, <1>5 DEF RegionTypes, StartRoot
    <2> QED
        BY <1>t, <2>4, <2>5, <2>6 DEF RegionTypes
<1>6. CASE Leave(u)
    BY <1>t, <1>6 DEF RegionTypes, Leave
<1> QED
    BY <1>1, <1>2, <1>3, <1>4, <1>5, <1>6 DEF Region

LEMMA CountedUp ==
    ASSUME NEW D, NEW f \in [D -> Nat], NEW n, NEW v, n \in D => v \in Nat
    PROVE  [f EXCEPT ![n] = v] \in [D -> Nat]
    OBVIOUS

LEMMA ThreadRegionTypes ==
    ASSUME PoolInv, NEW s \in Slots, Thread(s)
    PROVE  RegionTypes'
<1>t. RegionTypes /\ user[s] \in Users
    BY DEF PoolInv, TypeOK, SlotTypes
<1>1. CASE StartKid(s)
    <2>1. Child(s) \in Nat /\ Len(fresh[user[s]]) \in Nat
        BY <1>t, <1>1, ChildIsSlot DEF StartKid, Booting, RegionTypes
    <2>2. \A c, n \in Nat : Cardinality(Subtree(c, n)) \in Int
        BY SubtreeFinite
    <2>3. Cardinality(Subtree(Child(s), Len(fresh[user[s]]))) \in Int
        BY <2>1, <2>2
    <2> QED
        BY <1>t, <1>1, <2>3 DEF RegionTypes, StartKid, Cancelled
<1>2. CASE Claim(s)
    <2>1. UNCHANGED <<pending, warm, grown, fresh>> /\ next' = [next EXCEPT ![user[s]] = @ + 1]
        BY <1>2 DEF Claim
    <2>2. DOMAIN ran' = Users /\ \A u \in Users : ran'[u] \in [1..Size[u] -> Nat]
        <3>1. PICK u, n : u = user[s] /\ n = next[u] + 1
            OBVIOUS
        <3>2. ran' = [ran EXCEPT ![u] = [ran[u] EXCEPT ![n] = ran[u][n] + 1]]
            BY <1>2, <3>1 DEF Claim
        <3>3. ran[u] \in [1..Size[u] -> Nat]
            BY <1>t, <3>1 DEF RegionTypes
        <3>4. [ran[u] EXCEPT ![n] = ran[u][n] + 1] \in [1..Size[u] -> Nat]
            <4>1. \A m \in 1..Size[u] : ran[u][m] \in Nat
                BY <3>3
            <4>2. n \in 1..Size[u] => ran[u][n] \in Nat
                BY <4>1
            <4>3. n \in 1..Size[u] => ran[u][n] + 1 \in Nat
                BY <4>2
            <4> QED
                BY <3>3, <4>3, CountedUp
        <3> QED
            BY <1>t, <3>1, <3>2, <3>4 DEF RegionTypes
    <2> QED
        BY <1>t, <2>1, <2>2 DEF RegionTypes
<1>3. CASE JobDone(s)
    BY <1>t, <1>3 DEF RegionTypes, JobDone
<1>4. CASE UNCHANGED region_vars
    BY <1>t, <1>4 DEF RegionTypes, region_vars
<1> QED
    BY <1>1, <1>2, <1>3, <1>4 DEF Thread, ListKid, BootDone, Look, Park, Push


LEMMA RegionSlotTypes ==
    ASSUME PoolInv, NEW u \in Users, Enter(u) \/ Region(u)
    PROVE  SlotTypes' /\ PoolTypes'
<1>t. TypeOK /\ SlotTypes /\ PoolTypes
    BY DEF PoolInv, TypeOK
<1>1. CASE UNCHANGED slot_vars /\ UNCHANGED <<idle, all, holders, joins>>
    BY <1>t, <1>1 DEF SlotTypes, PoolTypes, slot_vars
<1>2. CASE TakeIdle(u)
    <2>1. Head(idle) \in Slots /\ Tail(idle) \in Seq(Slots)
        BY <1>t, <1>2, TailList DEF PoolTypes, TakeIdle
    <2>2. SlotTypes'
        BY <1>t, <1>2, <2>1 DEF SlotTypes, TakeIdle
    <2> QED
        BY <1>t, <1>2, <2>1, <2>2 DEF PoolTypes, TakeIdle
<1>3. CASE Grow(u)
    <2>1. PICK slots \in Seq(Slots) : GrewBy(u, slots)
        BY <1>t, <1>3, GrowMakes DEF PoolInv
    <2>2. UNCHANGED <<place, kid, idle, all, holders, joins>>
        BY <1>3 DEF Grow, pool_vars
    <2>3. SlotTypes'
        BY <1>t, <2>1, <2>2 DEF SlotTypes, GrewBy, SlotPCs
    <2> QED
        BY <1>t, <2>2, <2>3 DEF PoolTypes
<1>4. CASE StartRoot(u)
    <2>1. CASE Booted(u, 1)
        <3>1. UNCHANGED <<state, user, idle, all, holders, joins>>
            BY <1>4 DEF StartRoot, pool_vars
        <3>2. fresh[u] \in Seq(Slots) /\ fresh[u] # <<>>
            BY <1>4 DEF PoolInv, TypeOK, RegionTypes, TreeInv, RootMade, StartRoot
        <3>3. fresh[u][1] \in Slots
            BY <3>2
        <3>4. spc' \in [Slots -> SlotPCs] /\ place' \in [Slots -> Nat] /\ kid' \in [Slots -> 0..2]
            BY <1>t, <2>1, <3>3 DEF SlotTypes, Booted, SlotPCs
        <3> QED
            BY <1>t, <3>1, <3>4 DEF SlotTypes, PoolTypes
    <2>2. CASE Cancelled(u, 1) /\ UNCHANGED <<place, kid>>
        BY <1>t, <1>4, <2>2 DEF SlotTypes, PoolTypes, StartRoot, Cancelled, pool_vars, SlotPCs
    <2> QED
        BY <1>4, <2>1, <2>2 DEF StartRoot
<1>5. CASE ListRoot(u)
    <2>1. fresh[u] \in Seq(Slots) /\ fresh[u] # <<>>
        BY <1>5 DEF PoolInv, TypeOK, RegionTypes, TreeInv, RootMade, ListRoot
    <2>2. <<fresh[u][1]>> \o all \in Seq(Slots)
        BY <1>t, <2>1 DEF PoolTypes
    <2> QED
        BY <1>t, <1>5, <2>2 DEF PoolTypes, SlotTypes, ListRoot, slot_vars
<1> QED
    BY <1>1, <1>2, <1>3, <1>4, <1>5 DEF Enter, Region, TakenAll, Leave, pool_vars

LEMMA ThreadSlotTypes ==
    ASSUME PoolInv, NEW s \in Slots, Thread(s)
    PROVE  SlotTypes' /\ PoolTypes'
<1>u. SlotTypes /\ PoolTypes
    BY DEF PoolInv, TypeOK
<1>1. CASE StartKid(s)
    <2>1. Child(s) \in Nat /\ kid[s] \in {0, 1} /\ fresh[user[s]][Child(s)] \in Slots
        BY <1>1, ChildIsSlot DEF StartKid, Booting
    <2>2. kid[s] + 1 \in 0..2
        BY <2>1
    <2>3. UNCHANGED <<state, user, idle, all, holders, joins>>
        BY <1>1 DEF StartKid, pool_vars
    <2>4. spc' \in [Slots -> SlotPCs]
        BY <1>u, <1>1 DEF SlotTypes, StartKid, Cancelled, SlotPCs
    <2>5. place' \in [Slots -> Nat] /\ kid' \in [Slots -> 0..2]
        BY <1>u, <1>1, <2>1, <2>2 DEF SlotTypes, StartKid
    <2> QED
        BY <1>u, <2>3, <2>4, <2>5 DEF SlotTypes, PoolTypes
<1>2. CASE ListKid(s)
    <2>1. fresh[user[s]][Child(s)] \in Slots /\ kid[s] \in {0, 1}
        BY <1>2, ChildIsSlot DEF ListKid, Booting
    <2>2. <<fresh[user[s]][Child(s)]>> \o all \in Seq(Slots) /\ kid[s] + 1 \in 0..2
        BY <1>u, <2>1 DEF PoolTypes
    <2>3. SlotTypes'
        BY <1>u, <1>2, <2>2 DEF SlotTypes, ListKid, SlotPCs
    <2> QED
        BY <1>u, <1>2, <2>2, <2>3 DEF PoolTypes, ListKid
<1>3. CASE BootDone(s)
    BY <1>u, <1>3 DEF SlotTypes, PoolTypes, BootDone, Step, pool_vars, SlotPCs
<1>6. CASE Look(s) \/ Claim(s) \/ JobDone(s)
    <2>1. UNCHANGED <<state, user, place, kid, idle, all, holders, joins>>
        BY <1>6 DEF Look, Claim, JobDone, pool_vars
    <2>2. spc' \in [Slots -> SlotPCs]
        BY <1>u, <1>6 DEF SlotTypes, Look, Claim, JobDone, Step, SlotPCs
    <2> QED
        BY <1>u, <2>1, <2>2 DEF SlotTypes, PoolTypes
<1>4. CASE Park(s)
    BY <1>u, <1>4 DEF SlotTypes, PoolTypes, Park, Parked, Step, pool_vars, SlotPCs
<1>5. CASE Push(s)
    <2>1. <<s>> \o idle \in Seq(Slots)
        BY <1>u DEF PoolTypes
    <2> QED
        BY <1>u, <1>5, <2>1 DEF SlotTypes, PoolTypes, Push, Step, SlotPCs
<1> QED
    BY <1>1, <1>2, <1>3, <1>4, <1>5, <1>6 DEF Thread

LEMMA CloseSlotTypes ==
    ASSUME PoolInv, NEW u \in Users, Retain(u) \/ ReleasePool(u) \/ Close(u)
    PROVE  SlotTypes' /\ PoolTypes'
<1>t. SlotTypes /\ PoolTypes
    BY DEF PoolInv, TypeOK
<1>1. CASE Retain(u) \/ Joined(u)
    BY <1>t, <1>1 DEF SlotTypes, PoolTypes, Retain, Joined, slot_vars, pool_vars
<1>2. CASE TellExit(u)
    BY <1>t, <1>2 DEF SlotTypes, PoolTypes, TellExit, pool_vars
<1>3. CASE ReleasePool(u)
    <2>1. UNCHANGED slot_vars /\ holders' \in Int
        BY <1>t, <1>3 DEF ReleasePool, PoolTypes
    <2>2. <<>> \in Seq(Slots)
        OBVIOUS
    <2>3. CASE LastHold
        BY <1>t, <1>3, <2>1, <2>2, <2>3 DEF ReleasePool, SlotTypes, PoolTypes, slot_vars
    <2>4. CASE ~ LastHold
        BY <1>t, <1>3, <2>1, <2>4 DEF ReleasePool, SlotTypes, PoolTypes, slot_vars
    <2> QED
        BY <2>3, <2>4
<1>4. CASE Join(u)
    <2>1. joins[u] # <<>>
        BY <1>4 DEF PoolInv, JoinsSleep, Join
    <2>2. Tail(joins[u]) \in Seq(Slots)
        BY <1>t, <2>1 DEF PoolTypes
    <2> QED
        BY <1>t, <1>4, <2>2 DEF SlotTypes, PoolTypes, Join, Step, pool_vars, SlotPCs
<1> QED
    BY <1>1, <1>2, <1>3, <1>4 DEF Close

LEMMA TypesKeep == PoolInv /\ [Next]_vars => TypeOK'
<1> SUFFICES ASSUME PoolInv, [Next]_vars PROVE TypeOK'
    OBVIOUS
<1>t. TypeOK
    BY DEF PoolInv
<1>1. ASSUME NEW u \in Users, Retain(u) \/ ReleasePool(u) \/ Close(u) PROVE TypeOK'
    <2>1. UNCHANGED region_vars
        BY <1>1 DEF Retain, ReleasePool, Close, TellExit, Join, Joined
    <2> QED
        BY <1>t, <1>1, <2>1, CallerTypesKeep, CloseSlotTypes DEF TypeOK, RegionTypes, region_vars
<1>2. ASSUME NEW u \in Users, Enter(u) \/ Region(u) PROVE TypeOK'
    BY <1>t, <1>2, CallerTypesKeep, RegionTypesKeep, RegionSlotTypes DEF TypeOK
<1>3. ASSUME NEW s \in Slots, Thread(s) PROVE TypeOK'
    <2>1. UNCHANGED user_vars
        BY <1>3 DEF Thread, StartKid, ListKid, BootDone, Look, Claim, JobDone, Park, Push
    <2> QED
        BY <1>t, <1>3, <2>1, ThreadRegionTypes, ThreadSlotTypes DEF TypeOK, CallerTypes, user_vars
<1>4. CASE UNCHANGED vars
    BY <1>t, <1>4 DEF TypeOK, CallerTypes, RegionTypes, SlotTypes, PoolTypes, vars, user_vars, region_vars,
                      slot_vars, pool_vars
<1> QED
    BY <1>1, <1>2, <1>3, <1>4 DEF Next, Finished


-----------------------------------------------------------------------------
(* Who holds the pool, and what a posted slot's state is.                  *)

LEMMA HolderInRegion ==
    ASSUME PoolInv, NEW s \in Slots, NEW u \in Users, Holds(s, u)
    PROVE  InRegion(u)
    BY DEF PoolInv, CallerKnows, HeldBy

LEMMA BootingInRegion ==
    ASSUME PoolInv, NEW s \in Slots, Booting(s)
    PROVE  Holds(s, user[s]) /\ user[s] \in Users /\ InRegion(user[s])
<1>1. user[s] \in Users
    BY DEF PoolInv, TypeOK, SlotTypes
<1>2. Holds(s, user[s])
    BY DEF Booting, Holds
<1> QED
    BY <1>1, <1>2, HolderInRegion

LEMMA HoldingFinite == IsFiniteSet(Holding) /\ Cardinality(Holding) \in Nat
<1>1. IsFiniteSet(Users) /\ Holding \subseteq Users
    BY SpawnAssumption DEF Holding
<1> QED
    BY <1>1, FS_Subset, FS_CardinalityType

LEMMA OpenHolds ==
    ASSUME PoolInv, NEW u \in Users, upc[u] = "in" \/ InRegion(u)
    PROVE  holders \in Nat \ {0}
<1>1. u \in Holding
    BY DEF Holding
<1> QED
    BY <1>1, HoldingFinite, FS_EmptySet DEF PoolInv, HeldOpen

LEMMA LastAlone ==
    ASSUME PoolInv, NEW u \in Users, upc[u] = "in", LastHold
    PROVE  \A v \in Users : upc[v] = "in" \/ InRegion(v) => v = u
<1>1. u \in Holding
    BY DEF Holding
<1>2. Cardinality(Holding) = 1 /\ IsFiniteSet(Holding)
    BY HoldingFinite DEF PoolInv, HeldOpen, LastHold
<1>3. \E v : Holding = {v}
    BY <1>2, FS_Singleton
<1> QED
    BY <1>1, <1>3 DEF Holding

\* A thread, or a caller within its region, does not change who holds the pool.
LEMMA HeldOpenStays ==
    ASSUME PoolInv, UNCHANGED holders,
           \A v \in Users : (upc'[v] = "in" \/ InRegion(v)') <=> (upc[v] = "in" \/ InRegion(v)),
           UNCHANGED all \/ \E u \in Users : upc[u] = "in" \/ InRegion(u)
    PROVE  HeldOpen'
<1>1. Holding' = Holding
    BY DEF Holding
<1>2. ASSUME NEW u \in Users, upc[u] = "in" \/ InRegion(u) PROVE holders # 0
    BY <1>2, OpenHolds
<1> QED
    BY <1>1, <1>2 DEF PoolInv, HeldOpen

LEMMA HeldOpenKeeps == PoolInv /\ [Next]_vars => HeldOpen'
<1> SUFFICES ASSUME PoolInv, [Next]_vars PROVE HeldOpen'
    OBVIOUS
<1>t. upc \in [Users -> UserPCs]
    BY DEF PoolInv, TypeOK, CallerTypes
<1>1. ASSUME NEW u \in Users, Retain(u) PROVE HeldOpen'
    <2>1. Holding' = Holding \cup {u} /\ u \notin Holding
        BY <1>t, <1>1 DEF Retain, Goto, Holding, InRegion
    <2>2. Cardinality(Holding') = Cardinality(Holding) + 1
        BY <2>1, HoldingFinite, FS_AddElement
    <2> QED
        BY <1>1, <2>2, HoldingFinite DEF Retain, PoolInv, HeldOpen
<1>2. ASSUME NEW u \in Users, ReleasePool(u) PROVE HeldOpen'
    <2>1. \E pc \in {"tell", "out"} : upc' = [upc EXCEPT ![u] = pc]
        BY <1>2 DEF ReleasePool, Goto
    <2>2. Holding' = Holding \ {u} /\ u \in Holding
        BY <1>t, <1>2, <2>1 DEF ReleasePool, Holding, InRegion
    <2>3. Cardinality(Holding') = Cardinality(Holding) - 1
        BY <2>2, HoldingFinite, FS_RemoveElement
    <2>4. holders' = Cardinality(Holding')
        BY <1>2, <2>3 DEF ReleasePool, PoolInv, HeldOpen
    <2>5. holders' = 0 => LastHold
        BY <1>2, HoldingFinite DEF ReleasePool, PoolInv, HeldOpen, LastHold
    <2> QED
        BY <1>2, <2>4, <2>5 DEF ReleasePool, HeldOpen
<1>3. ASSUME NEW u \in Users, Enter(u) \/ Region(u) PROVE HeldOpen'
    <2>1. UNCHANGED holders /\ (UNCHANGED all \/ upc[u] = "list")
        BY <1>3 DEF Enter, Region, TakeIdle, TakenAll, Grow, StartRoot, ListRoot, Leave, pool_vars
    <2>2. UNCHANGED upc \/ \E pc \in {"in", "take", "grow", "root", "list", "wait"} : upc' = [upc EXCEPT ![u] = pc]
        BY <1>3 DEF Enter, Region, TakeIdle, TakenAll, Grow, StartRoot, ListRoot, Leave, Goto, user_vars
    <2>3. upc[u] \in {"in", "take", "grow", "root", "list", "wait"}
        BY <1>3 DEF Enter, Region, TakeIdle, TakenAll, Grow, StartRoot, ListRoot, Leave
    <2>4. \A v \in Users : (upc'[v] = "in" \/ InRegion(v)') <=> (upc[v] = "in" \/ InRegion(v))
        BY <1>t, <2>2, <2>3 DEF InRegion
    <2> QED
        BY <2>1, <2>3, <2>4, HeldOpenStays DEF InRegion
<1>4. ASSUME NEW u \in Users, Close(u) PROVE HeldOpen'
    <2>1. UNCHANGED <<holders, all>>
        BY <1>4 DEF Close, TellExit, Join, Joined, pool_vars
    <2>2. \E pc, old \in {"tell", "join", "out"} : upc[u] = old /\ upc' = [upc EXCEPT ![u] = pc]
        BY <1>4 DEF Close, TellExit, Join, Joined, Goto
    <2>3. \A v \in Users : (upc'[v] = "in" \/ InRegion(v)') <=> (upc[v] = "in" \/ InRegion(v))
        BY <1>t, <2>2 DEF InRegion
    <2> QED
        BY <2>1, <2>3, HeldOpenStays
<1>5. ASSUME NEW s \in Slots, Thread(s) PROVE HeldOpen'
    <2>1. UNCHANGED <<holders, upc>>
        BY <1>5 DEF Thread, StartKid, ListKid, BootDone, Look, Claim, JobDone, Park, Push, user_vars, pool_vars
    <2>2. UNCHANGED all \/ spc[s] = "list"
        BY <1>5 DEF Thread, StartKid, ListKid, BootDone, Look, Claim, JobDone, Park, Push, pool_vars
    <2>3. spc[s] = "list" => \E u \in Users : InRegion(u)
        BY BootingInRegion DEF Booting
    <2>4. \A v \in Users : (upc'[v] = "in" \/ InRegion(v)') <=> (upc[v] = "in" \/ InRegion(v))
        BY <2>1 DEF InRegion
    <2> QED
        BY <2>1, <2>2, <2>3, <2>4, HeldOpenStays
<1>6. CASE UNCHANGED vars
    BY <1>6 DEF vars, user_vars, pool_vars, PoolInv, HeldOpen, Holding, InRegion
<1> QED
    BY <1>1, <1>2, <1>3, <1>4, <1>5, <1>6 DEF Next, Finished

LEMMA PostedKeeps == PoolInv /\ [Next]_vars => Posted'
<1> SUFFICES ASSUME PoolInv, [Next]_vars PROVE Posted'
    OBVIOUS
<1>t. SlotTypes /\ Posted /\ TypeOK
    BY DEF PoolInv, TypeOK
<1>1. CASE UNCHANGED <<spc, state>>
    BY <1>t, <1>1 DEF Posted
<1>2. ASSUME NEW u \in Users, Grow(u) PROVE Posted'
    <2>1. PICK slots \in Seq(Slots) : GrewBy(u, slots)
        BY <1>t, <1>2, GrowMakes DEF PoolInv
    <2> QED
        BY <1>t, <2>1 DEF GrewBy, Posted
<1>3. ASSUME NEW u \in Users, TakeIdle(u) PROVE Posted'
    <2>1. Head(idle) \in ToSet(idle)
        BY <1>t, <1>3, TailList DEF TakeIdle, TypeOK, PoolTypes
    <2>2. spc[Head(idle)] = "look"
        BY <2>1 DEF PoolInv, IdleSleeps
    <2> QED
        BY <1>t, <1>3, <2>2 DEF TakeIdle, Posted, SlotTypes
<1>4. ASSUME NEW u \in Users, StartRoot(u) PROVE Posted'
    <2>1. UNCHANGED state
        BY <1>4 DEF StartRoot
    <2>2. \A s \in Slots : spc'[s] = spc[s] \/ spc'[s] = "none" \/ (spc[s] = "made" /\ spc'[s] = "boot")
        BY <1>t, <1>4 DEF StartRoot, Booted, Cancelled, SlotTypes
    <2> QED
        BY <1>t, <2>1, <2>2 DEF Posted
<1>5. ASSUME NEW u \in Users, TellExit(u) PROVE Posted'
    <2>1. Head(joins[u]) \in ToSet(joins[u])
        BY <1>t, <1>5, TailList DEF TellExit, TypeOK, PoolTypes
    <2>2. spc[Head(joins[u])] = "look"
        BY <1>5, <2>1 DEF PoolInv, JoinsSleep, TellExit
    <2> QED
        BY <1>t, <1>5, <2>2 DEF TellExit, Posted, SlotTypes
<1>6. ASSUME NEW u \in Users, Join(u) PROVE Posted'
    BY <1>t, <1>6 DEF Join, Step, Posted, SlotTypes
<1>7. ASSUME NEW s \in Slots, StartKid(s) PROVE Posted'
    <2>1. UNCHANGED state
        BY <1>7 DEF StartKid
    <2>2. \A t \in Slots : \/ spc'[t] = spc[t] \/ spc'[t] = "none"
                           \/ spc[t] \in {"made", "boot"} /\ spc'[t] \in {"boot", "list"}
        BY <1>t, <1>7 DEF StartKid, Cancelled, SlotTypes
    <2> QED
        BY <1>t, <2>1, <2>2 DEF Posted
<1>8. ASSUME NEW s \in Slots, ListKid(s) \/ BootDone(s) \/ Look(s) \/ Claim(s) \/ JobDone(s) PROVE Posted'
    <2>1. UNCHANGED state
        BY <1>8 DEF ListKid, BootDone, Look, Claim, JobDone
    <2>2. \/ spc[s] = "list" /\ spc' = [spc EXCEPT ![s] = "boot"]
          \/ \E pc \in {"look", "exited", "job", "run", "park"} : spc' = [spc EXCEPT ![s] = pc]
        BY <1>8 DEF ListKid, BootDone, Look, Claim, JobDone, Step
    <2> QED
        BY <1>t, <2>1, <2>2 DEF Posted, SlotTypes
<1>9. ASSUME NEW s \in Slots, Park(s) \/ Push(s) PROVE Posted'
    BY <1>t, <1>9 DEF Park, Parked, Push, Step, Posted, SlotTypes
<1> QED
    BY <1>1, <1>2, <1>3, <1>4, <1>5, <1>6, <1>7, <1>8, <1>9
    DEF Next, Finished, vars, slot_vars, Thread, Region, Close, Retain, Enter, TakenAll, ListRoot, Leave,
        ReleasePool, Joined


-----------------------------------------------------------------------------
(* The tree.                                                               *)

\* A slot that boots keeps what it has left, if its own fields and its fresh stay.
LEMMA LeftStays ==
    ASSUME NEW s \in Slots, spc'[s] = spc[s], place'[s] = place[s], kid'[s] = kid[s], user'[s] = user[s],
           fresh'[user[s]] = fresh[user[s]]
    PROVE  Left(s)' = Left(s) /\ (AtItsPlace(s) => AtItsPlace(s)') /\ (Booting(s)' <=> Booting(s))
    BY DEF Left, FirstLeft, AtItsPlace, Child, Booting

\* What is left is of the tree.
LEMMA LeftInTree ==
    ASSUME PoolInv, NEW s \in Slots, Booting(s)
    PROVE  /\ AtItsPlace(s) /\ FirstLeft(s) \in 0..2
           /\ place[s] \in Nat \ {0} /\ Len(fresh[user[s]]) \in Nat
           /\ Left(s) \subseteq DOMAIN fresh[user[s]]
           /\ \A i \in Left(s) : Made(user[s], i)
           /\ user[s] \in Users /\ fresh[user[s]] \in Seq(Slots)
<1>1. /\ AtItsPlace(s) /\ fresh[user[s]] \in Seq(Slots) /\ place[s] \in Nat /\ kid[s] \in 0..2
      /\ user[s] \in Users /\ \A i \in Left(s) : Made(user[s], i)
    BY DEF PoolInv, TreeInv, KidsMade, TypeOK, RegionTypes, SlotTypes
<1>2. place[s] \in Nat \ {0} /\ Len(fresh[user[s]]) \in Nat /\ DOMAIN fresh[user[s]] = 1..Len(fresh[user[s]])
    BY <1>1 DEF AtItsPlace
<1>3. FirstLeft(s) \in 0..2
    BY <1>1 DEF AtItsPlace, FirstLeft
<1>4. Below(place[s], FirstLeft(s), Len(fresh[user[s]]))
          \subseteq (2 * place[s] + FirstLeft(s))..Len(fresh[user[s]])
    BY <1>2, <1>3, BelowBounds
<1> QED
    BY <1>1, <1>2, <1>3, <1>4 DEF Left

\* While the caller has yet to start the root, nothing boots in its region.
LEMMA NobodyBoots ==
    ASSUME PoolInv, NEW u \in Users, upc[u] \notin {"list", "wait"}, NEW s \in Slots, Booting(s)
    PROVE  user[s] # u
<1>1. AtItsPlace(s) /\ spc[s] # "made"
    BY LeftInTree DEF Booting
<1> QED
    BY <1>1 DEF PoolInv, CallerKnows, TreeInv, RootMade, AtItsPlace, Made

\* A step that starts and cancels no thread: what boots, booted, and what was
\* made is; a caller's array goes when nothing boots that may look at it.
LEMMA TreeStays ==
    ASSUME PoolInv,
           \A s \in Slots : Booting(s)' => /\ spc'[s] = spc[s] /\ place'[s] = place[s]
                                           /\ kid'[s] = kid[s] /\ user'[s] = user[s],
           \A s \in Slots : spc[s] = "made" => spc'[s] = "made" /\ user'[s] = user[s],
           \A u \in Users : /\ upc'[u] = "root" => upc[u] = "root"
                            /\ upc'[u] = "list" => upc[u] = "list",
           \A u \in Users : \/ fresh'[u] = fresh[u]
                            \/ /\ fresh'[u] = <<>> /\ upc'[u] \notin {"root", "list"}
                               /\ \A s \in Slots : Booting(s) => user[s] # u
    PROVE  TreeInv'
<1>1. \A s \in Slots : Booting(s)' =>
          Booting(s) /\ user'[s] = user[s] /\ fresh'[user[s]] = fresh[user[s]] /\ Left(s)' = Left(s) /\ AtItsPlace(s)'
    <2> SUFFICES ASSUME NEW s \in Slots, Booting(s)'
                 PROVE  Booting(s) /\ user'[s] = user[s] /\ fresh'[user[s]] = fresh[user[s]]
                        /\ Left(s)' = Left(s) /\ AtItsPlace(s)'
        OBVIOUS
    <2>1. Booting(s)
        BY DEF Booting
    <2>2. AtItsPlace(s) /\ user[s] \in Users
        BY <2>1, LeftInTree
    <2>3. fresh'[user[s]] = fresh[user[s]]
        BY <2>1, <2>2
    <2> QED
        BY <2>1, <2>2, <2>3, LeftStays
<1>2. ASSUME NEW u \in Users, NEW i, Made(u, i), fresh[u][i] \in Slots, fresh'[u] = fresh[u] PROVE Made(u, i)'
    BY <1>2 DEF Made
<1>3. \A u \in Users : IsInjective(fresh[u])'
    BY EmptyList DEF PoolInv, TreeInv
<1>4. RootMade'
    <2> SUFFICES ASSUME NEW u \in Users
                 PROVE  /\ upc'[u] = "root" => fresh'[u] # <<>> /\ \A i \in DOMAIN fresh'[u] : Made(u, i)'
                        /\ upc'[u] = "list" => fresh'[u] # <<>>
        BY DEF RootMade
    <2>1. \A i \in DOMAIN fresh[u] : fresh[u][i] \in Slots
        BY DEF PoolInv, TypeOK, RegionTypes
    <2> QED
        BY <1>2, <2>1 DEF PoolInv, TreeInv, RootMade
<1>5. KidsMade'
    <2> SUFFICES ASSUME NEW s \in Slots, Booting(s)', NEW i \in Left(s)' PROVE Made(user[s], i)'
        BY <1>1 DEF KidsMade
    <2>1. /\ Made(user[s], i) /\ i \in DOMAIN fresh[user[s]] /\ user[s] \in Users
          /\ fresh[user[s]] \in Seq(Slots)
        BY <1>1, LeftInTree
    <2> QED
        BY <1>1, <1>2, <2>1
<1>6. LeftApart'
    BY <1>1 DEF PoolInv, TreeInv, LeftApart
<1> QED
    BY <1>3, <1>4, <1>5, <1>6 DEF TreeInv


LEMMA HeldFinite ==
    ASSUME NEW u
    PROVE  /\ IsFiniteSet(HeldBy(u)) /\ Cardinality(HeldBy(u)) \in Nat
           /\ IsFiniteSet(ToClaim(u)) /\ Cardinality(ToClaim(u)) \in Nat
<1>1. IsFiniteSet(Slots)
    BY SpawnAssumption, FS_Interval DEF Slots
<1>2. HeldBy(u) \subseteq Slots /\ ToClaim(u) \subseteq Slots
    BY DEF HeldBy, ToClaim
<1> QED
    BY <1>1, <1>2, FS_Subset, FS_CardinalityType

\* A caller leaves when no thread holds a job of its.
LEMMA LeaveAlone ==
    ASSUME PoolInv, NEW u \in Users, Leave(u)
    PROVE  HeldBy(u) = {}
<1>1. CASE Declines(u)
    BY <1>1 DEF PoolInv, CallerKnows, Leave
<1>2. CASE pending[u] = 0
    <2>1. Cardinality(HeldBy(u)) = 0
        BY <1>2, HeldFinite DEF PoolInv, Counted, CountIs, ToHandOut, Leave
    <2> QED
        BY <2>1, HeldFinite, FS_EmptySet
<1> QED
    BY <1>1, <1>2 DEF Leave

\* What a cancelled subtree leaves.
LEMMA CancelledSlots ==
    ASSUME PoolInv, NEW u \in Users, NEW c \in Nat \ {0}, Cancelled(u, c),
           \A i \in Subtree(c, Len(fresh[u])) : Made(u, i)
    PROVE  /\ \A s \in Slots : \/ spc'[s] = spc[s]
                               \/ spc[s] = "made" /\ user[s] = u /\ spc'[s] = "none"
           /\ \A i \in DOMAIN fresh[u] : i \notin Subtree(c, Len(fresh[u])) => spc'[fresh[u][i]] = spc[fresh[u][i]]
<1> DEFINE gone == Subtree(c, Len(fresh[u]))
<1>1. spc' = [s \in Slots |-> IF \E i \in gone : fresh[u][i] = s THEN "none" ELSE spc[s]]
    BY DEF Cancelled
<1>2. fresh[u] \in Seq(Slots) /\ IsInjective(fresh[u])
    BY DEF PoolInv, TypeOK, RegionTypes, TreeInv
<1>3. gone \subseteq DOMAIN fresh[u]
    <2>1. Len(fresh[u]) \in Nat /\ DOMAIN fresh[u] = 1..Len(fresh[u])
        BY <1>2
    <2>2. gone \subseteq c..Len(fresh[u])
        BY <2>1, SubtreeBounds
    <2> QED
        BY <2>1, <2>2
<1>4. \A i \in DOMAIN fresh[u] : fresh[u][i] \in Slots
    BY <1>2
<1> HIDE DEF gone
<1>5. \A i \in gone : Made(u, i)
    BY DEF gone
<1>6. \A i \in DOMAIN fresh[u] : i \notin gone => spc'[fresh[u][i]] = spc[fresh[u][i]]
    <2> TAKE i \in DOMAIN fresh[u]
    <2>1. \A j \in gone : fresh[u][j] = fresh[u][i] => j = i
        BY <1>2, <1>3 DEF IsInjective
    <2> QED
        BY <1>1, <1>4, <2>1
<1>7. \A s \in Slots : spc'[s] = spc[s] \/ (spc[s] = "made" /\ user[s] = u /\ spc'[s] = "none")
    BY <1>1, <1>5 DEF Made
<1> QED
    BY <1>6, <1>7 DEF gone

LEMMA GrowTree ==
    ASSUME PoolInv, NEW u \in Users, Grow(u)
    PROVE  TreeInv'
<1>t. TypeOK /\ Counted /\ SlotTypes /\ RegionTypes /\ CallerTypes
    BY DEF PoolInv, TypeOK
<1>1. PICK slots \in Seq(Slots) : GrewBy(u, slots) /\ IsInjective(slots) /\ ToSet(slots) \subseteq Unused
    BY <1>t, GrowMakes
<1>2. /\ fresh' = [fresh EXCEPT ![u] = slots]
      /\ \A s \in ToSet(slots) : spc[s] = "none" /\ spc'[s] = "made" /\ user'[s] = u
      /\ \A s \in Slots : s \notin ToSet(slots) => spc'[s] = spc[s] /\ user'[s] = user[s]
      /\ UNCHANGED <<place, kid>>
      /\ upc[u] = "grow" /\ upc' = [upc EXCEPT ![u] = IF slots = <<>> THEN "wait" ELSE "root"]
      /\ ToSet(slots) \subseteq Slots
    BY <1>t, <1>1 DEF GrewBy, Unused, SlotTypes, Grow, Goto
<1>3. \A v \in Users : v # u => fresh'[v] = fresh[v] /\ upc'[v] = upc[v]
    BY <1>t, <1>2 DEF RegionTypes, CallerTypes
<1>4. fresh'[u] = slots /\ (upc'[u] = "root" => slots # <<>>) /\ upc'[u] # "list"
    BY <1>t, <1>2 DEF RegionTypes, CallerTypes
<1>5. \A i \in DOMAIN slots : slots[i] \in ToSet(slots)
    BY DEF ToSet
<1>6. \A v \in Users : \A i : Made(v, i) /\ fresh[v][i] \in Slots /\ v # u => Made(v, i)'
    BY <1>2, <1>3 DEF Made
<1>7. \A s \in Slots : Booting(s)' =>
          Booting(s) /\ user[s] # u /\ user'[s] = user[s] /\ Left(s)' = Left(s) /\ AtItsPlace(s)'
    <2> SUFFICES ASSUME NEW s \in Slots, Booting(s)'
                 PROVE  Booting(s) /\ user[s] # u /\ user'[s] = user[s] /\ Left(s)' = Left(s) /\ AtItsPlace(s)'
        OBVIOUS
    <2>1. s \notin ToSet(slots)
        BY <1>2 DEF Booting
    <2>2. Booting(s) /\ spc'[s] = spc[s] /\ user'[s] = user[s]
        BY <1>2, <2>1 DEF Booting
    <2>3. AtItsPlace(s) /\ user[s] \in Users /\ user[s] # u
        BY <1>2, <2>2, LeftInTree, NobodyBoots
    <2>4. fresh'[user[s]] = fresh[user[s]]
        BY <1>3, <2>3
    <2> QED
        BY <1>2, <2>2, <2>3, <2>4, LeftStays
<1>8. \A v \in Users : IsInjective(fresh[v])'
    BY <1>1, <1>3, <1>4 DEF PoolInv, TreeInv
<1>9. RootMade'
    <2> SUFFICES ASSUME NEW v \in Users
                 PROVE  /\ upc'[v] = "root" => fresh'[v] # <<>> /\ \A i \in DOMAIN fresh'[v] : Made(v, i)'
                        /\ upc'[v] = "list" => fresh'[v] # <<>>
        BY DEF RootMade
    <2>1. CASE v = u
        BY <1>2, <1>4, <1>5, <2>1 DEF Made
    <2>2. CASE v # u
        <3>1. \A i \in DOMAIN fresh[v] : fresh[v][i] \in Slots
            BY <1>t DEF RegionTypes
        <3> QED
            BY <1>3, <1>6, <2>2, <3>1 DEF PoolInv, TreeInv, RootMade
    <2> QED
        BY <2>1, <2>2
<1>10. KidsMade'
    <2> SUFFICES ASSUME NEW s \in Slots, Booting(s)', NEW i \in Left(s)' PROVE Made(user[s], i)'
        BY <1>7 DEF KidsMade
    <2>1. /\ Made(user[s], i) /\ i \in DOMAIN fresh[user[s]] /\ user[s] \in Users
          /\ fresh[user[s]] \in Seq(Slots)
        BY <1>7, LeftInTree
    <2> QED
        BY <1>6, <1>7, <2>1
<1>11. LeftApart'
    BY <1>7 DEF PoolInv, TreeInv, LeftApart
<1> QED
    BY <1>8, <1>9, <1>10, <1>11 DEF TreeInv


\* A step on slots of u's region alone keeps the tree if it keeps u's.
LEMMA OneTree ==
    ASSUME PoolInv, NEW u \in Users, UNCHANGED <<fresh, user>>,
           \A s \in Slots : user[s] # u => spc'[s] = spc[s] /\ place'[s] = place[s] /\ kid'[s] = kid[s],
           \A v \in Users : v # u => upc'[v] = upc[v],
           upc'[u] # "root", upc'[u] = "list" => fresh[u] # <<>>,
           \A s \in Slots : user[s] = u /\ Booting(s)' => AtItsPlace(s)' /\ \A i \in Left(s)' : Made(u, i)',
           \A s, t \in Slots : user[s] = u /\ user[t] = u /\ Booting(s)' /\ Booting(t)' /\ s # t
                                  => Left(s)' \cap Left(t)' = {}
    PROVE  TreeInv'
<1>1. \A s \in Slots : user[s] # u /\ Booting(s)' => Booting(s) /\ Left(s)' = Left(s) /\ AtItsPlace(s)'
    <2> TAKE s \in Slots
    <2>1. user[s] # u /\ Booting(s) => AtItsPlace(s)
        BY LeftInTree
    <2> QED
        BY <2>1, LeftStays
<1>2. \A v \in Users : \A i : Made(v, i) /\ fresh[v][i] \in Slots /\ v # u => Made(v, i)'
    BY DEF Made
<1>3. \A v \in Users : \A i \in DOMAIN fresh[v] : fresh[v][i] \in Slots
    BY DEF PoolInv, TypeOK, RegionTypes
<1>4. RootMade'
    BY <1>2, <1>3 DEF PoolInv, TreeInv, RootMade
<1>5. KidsMade'
    <2> SUFFICES ASSUME NEW s \in Slots, Booting(s)'
                 PROVE  AtItsPlace(s)' /\ \A i \in Left(s)' : Made(user[s], i)'
        BY DEF KidsMade
    <2>1. CASE user[s] # u
        <3>1. Booting(s) /\ Left(s)' = Left(s) /\ AtItsPlace(s)'
            BY <1>1, <2>1
        <3>2. /\ user[s] \in Users /\ Left(s) \subseteq DOMAIN fresh[user[s]]
              /\ \A i \in Left(s) : Made(user[s], i)
            BY <3>1, LeftInTree
        <3>3. \A i \in Left(s) : Made(user[s], i)'
            BY <1>2, <1>3, <2>1, <3>2
        <3> QED
            BY <3>1, <3>3
    <2> QED
        BY <2>1
<1>6. LeftApart'
    <2> SUFFICES ASSUME NEW s \in Slots, NEW t \in Slots, Booting(s)', Booting(t)', user[s] = user[t], s # t
                 PROVE  Left(s)' \cap Left(t)' = {}
        BY DEF LeftApart
    <2>1. CASE user[s] # u
        BY <1>1, <2>1 DEF PoolInv, TreeInv, LeftApart
    <2> QED
        BY <2>1
<1> QED
    BY <1>4, <1>5, <1>6 DEF PoolInv, TreeInv

LEMMA StartRootTree ==
    ASSUME PoolInv, NEW u \in Users, StartRoot(u)
    PROVE  TreeInv'
<1>t. SlotTypes /\ RegionTypes /\ CallerTypes
    BY DEF PoolInv, TypeOK
<1>1. /\ upc[u] = "root" /\ fresh[u] # <<>> /\ \A i \in DOMAIN fresh[u] : Made(u, i)
      /\ UNCHANGED <<fresh, user>> /\ fresh[u] \in Seq(Slots) /\ IsInjective(fresh[u])
    BY <1>t DEF StartRoot, PoolInv, TreeInv, RootMade, RegionTypes
<1>2. \A s \in Slots : Booting(s) => user[s] # u
    BY <1>1, NobodyBoots
<1>3. /\ \A v \in Users : v # u => upc'[v] = upc[v]
      /\ upc'[u] # "root"
    BY <1>t DEF StartRoot, Goto, CallerTypes
<1>4. Len(fresh[u]) \in Nat \ {0} /\ DOMAIN fresh[u] = 1..Len(fresh[u])
    BY <1>1
<1>5. CASE Booted(u, 1)
    <2>0. PICK r : r = fresh[u][1]
        OBVIOUS
    <2>1. /\ r \in Slots /\ user[r] = u /\ spc[r] = "made"
          /\ spc' = [spc EXCEPT ![r] = "boot"] /\ place' = [place EXCEPT ![r] = 1]
          /\ kid' = [kid EXCEPT ![r] = 0]
        BY <1>1, <1>4, <1>5, <2>0 DEF Booted, Made
    <2>2. /\ spc'[r] = "boot" /\ place'[r] = 1 /\ kid'[r] = 0
          /\ \A s \in Slots : s # r => spc'[s] = spc[s] /\ place'[s] = place[s] /\ kid'[s] = kid[s]
        BY <1>t, <2>1 DEF SlotTypes
    <2>3. \A s \in Slots : user[s] = u /\ Booting(s)' => s = r
        BY <1>2, <2>2 DEF Booting
    <2>4. AtItsPlace(r)'
        BY <1>1, <1>4, <2>0, <2>1, <2>2 DEF AtItsPlace
    <2>5. Left(r)' = Below(1, 0, Len(fresh[u]))
        BY <1>1, <2>1, <2>2 DEF Left, FirstLeft
    <2>6. ASSUME NEW i \in Left(r)' PROVE Made(u, i)'
        <3>1. i \in 2..Len(fresh[u])
            BY <1>4, <2>5, <2>6, BelowBounds
        <3>2. i \in DOMAIN fresh[u] /\ 1 \in DOMAIN fresh[u] /\ i # 1
            BY <1>4, <3>1
        <3>3. fresh[u][i] # r /\ fresh[u][i] \in Slots
            BY <1>1, <2>0, <3>2 DEF IsInjective
        <3> QED
            BY <1>1, <2>2, <3>2, <3>3 DEF Made
    <2> QED
        BY <1>1, <1>3, <2>1, <2>2, <2>3, <2>4, <2>6, OneTree
<1>6. CASE Cancelled(u, 1) /\ UNCHANGED <<place, kid>>
    <2>1. \A i \in Subtree(1, Len(fresh[u])) : Made(u, i)
        BY <1>1, <1>4, WholeTree
    <2>2. \A s \in Slots : spc'[s] = spc[s] \/ (spc[s] = "made" /\ user[s] = u /\ spc'[s] = "none")
        BY <1>6, <2>1, CancelledSlots
    <2>3. \A s \in Slots : user[s] = u => ~ Booting(s)'
        BY <1>2, <2>2 DEF Booting
    <2> QED
        BY <1>1, <1>3, <1>6, <2>2, <2>3, OneTree
<1> QED
    BY <1>5, <1>6 DEF StartRoot

LEMMA StartKidTree ==
    ASSUME PoolInv, NEW s \in Slots, StartKid(s)
    PROVE  TreeInv'
<1>0. PICK u, c, n, k : u = user[s] /\ c = Child(s) /\ n = Len(fresh[u]) /\ k = fresh[u][c]
    OBVIOUS
<1>t. SlotTypes /\ RegionTypes /\ CallerTypes
    BY DEF PoolInv, TypeOK
<1>b. Booting(s) /\ spc[s] = "boot" /\ HasChild(s)
    BY DEF StartKid, Booting
<1>1. /\ AtItsPlace(s) /\ place[s] \in Nat \ {0} /\ n \in Nat
      /\ Left(s) \subseteq DOMAIN fresh[u] /\ \A i \in Left(s) : Made(u, i)
      /\ u \in Users /\ fresh[u] \in Seq(Slots)
    BY <1>b, <1>0, LeftInTree
<1>2. c \in DOMAIN fresh[u] /\ c \in Nat \ {0} /\ c <= n /\ kid[s] \in {0, 1} /\ c = 2 * place[s] + kid[s]
      /\ fresh[u][c] \in Slots
    BY <1>b, <1>0, ChildIsSlot DEF HasChild, Child
<1>3. IsInjective(fresh[u]) /\ DOMAIN fresh[u] = 1..n
    BY <1>0, <1>1 DEF PoolInv, TreeInv
<1>4. /\ Left(s) = Subtree(c, n) \cup Below(place[s], kid[s] + 1, n)
      /\ Subtree(c, n) \cap Below(place[s], kid[s] + 1, n) = {}
    BY <1>b, <1>0, <1>1, <1>2, BelowParts DEF Left, FirstLeft
<1>5. Subtree(c, n) = {c} \cup Below(c, 0, n) /\ c \notin Below(c, 0, n)
    BY <1>1, <1>2, SubtreeBelow
<1>6. UNCHANGED <<fresh, user, upc>> /\ upc[u] # "root"
    <2>1. upc[u] # "root"
        BY <1>b, <1>0, <1>1, NobodyBoots
    <2> QED
        BY <2>1 DEF StartKid, user_vars
<1>7. fresh[u] # <<>>
    BY <1>2
<1>8. \A t \in Slots : user[t] = u /\ Booting(t) =>
          /\ AtItsPlace(t) /\ Left(t) \subseteq DOMAIN fresh[u] /\ \A i \in Left(t) : Made(u, i)
          /\ t # s => Left(t) \cap Left(s) = {}
    BY <1>b, <1>0, LeftInTree DEF PoolInv, TreeInv, LeftApart
<1>9. \A t \in Slots : spc'[t] = spc[t] /\ place'[t] = place[t] /\ kid'[t] = kid[t] /\ user[t] = u =>
          Left(t)' = Left(t) /\ (AtItsPlace(t) => AtItsPlace(t)') /\ (Booting(t)' <=> Booting(t))
    BY <1>6, LeftStays
<1>a. \/ /\ spc[k] = "made" /\ spc' = [spc EXCEPT ![k] = "boot", ![s] = "list"]
         /\ place' = [place EXCEPT ![k] = c] /\ kid' = [kid EXCEPT ![k] = 0]
      \/ /\ Cancelled(u, c)
         /\ kid' = [kid EXCEPT ![s] = @ + 1] /\ UNCHANGED place
    BY <1>0 DEF StartKid
<1>k. k = fresh[u][c] /\ n = Len(fresh[u]) /\ u = user[s] /\ k \in Slots /\ c \in Left(s)
    BY <1>0, <1>2, <1>4, <1>5
<1>10. ASSUME NEW i \in DOMAIN fresh[u], Made(u, i), i # c,
              spc'[fresh[u][i]] = spc[fresh[u][i]] \/ fresh[u][i] \in {k, s}
       PROVE  Made(u, i)'
    <2>1. fresh[u][i] # k
        BY <1>2, <1>3, <1>10, <1>k DEF IsInjective
    <2>2. fresh[u][i] # s
        BY <1>b, <1>10 DEF Made
    <2> QED
        BY <1>6, <1>10, <2>1, <2>2 DEF Made
<1>11. CASE /\ spc[k] = "made" /\ spc' = [spc EXCEPT ![k] = "boot", ![s] = "list"]
            /\ place' = [place EXCEPT ![k] = c] /\ kid' = [kid EXCEPT ![k] = 0]
    <2>1. k # s
        BY <1>b, <1>11
    <2>2. /\ spc'[k] = "boot" /\ place'[k] = c /\ kid'[k] = 0
          /\ spc'[s] = "list" /\ place'[s] = place[s] /\ kid'[s] = kid[s]
          /\ \A t \in Slots : t \notin {s, k} => spc'[t] = spc[t] /\ place'[t] = place[t] /\ kid'[t] = kid[t]
        BY <1>t, <1>k, <1>11, <2>1 DEF SlotTypes
    <2>3. user[k] = u
        BY <1>1, <1>k DEF Made
    <2>4. Left(k)' = Below(c, 0, n) /\ AtItsPlace(k)'
        BY <1>2, <1>6, <1>k, <2>2, <2>3 DEF Left, FirstLeft, AtItsPlace
    <2>5. Left(s)' = Below(place[s], kid[s] + 1, n) /\ AtItsPlace(s)'
        <3>1. Child(s)' = Child(s)
            BY <2>2 DEF Child
        <3>2. Left(s)' = Below(place[s], kid[s] + 1, n)
            BY <1>6, <1>k, <2>2 DEF Left, FirstLeft
        <3> QED
            BY <1>1, <1>2, <1>6, <1>k, <2>2, <3>1, <3>2, <1>0 DEF AtItsPlace
    <2>6. /\ Left(k)' \subseteq Left(s) \ {c} /\ Left(s)' \subseteq Left(s) \ {c}
          /\ Left(k)' \cap Left(s)' = {}
        BY <1>4, <1>5, <2>4, <2>5
    <2>7. \A t \in Slots : user[t] = u /\ Booting(t)' /\ t \notin {s, k} =>
              Booting(t) /\ Left(t)' = Left(t) /\ AtItsPlace(t)' /\ Left(t) \cap Left(s) = {}
        BY <1>8, <1>9, <2>2
    <2>8. ASSUME NEW t \in Slots, user[t] = u, Booting(t)' PROVE AtItsPlace(t)' /\ \A i \in Left(t)' : Made(u, i)'
        <3>1. AtItsPlace(t)'
            BY <2>4, <2>5, <2>7, <2>8
        <3>2. ASSUME NEW i \in Left(t)' PROVE Made(u, i)'
            <4>1. i # c /\ i \in DOMAIN fresh[u] /\ Made(u, i)
                BY <1>1, <1>8, <1>k, <2>6, <2>7, <2>8, <3>2
            <4>2. fresh[u][i] \in Slots
                BY <1>1, <4>1
            <4> QED
                BY <1>10, <2>2, <4>1, <4>2
        <3> QED
            BY <3>1, <3>2
    <2>9. \A t, q \in Slots : user[t] = u /\ user[q] = u /\ Booting(t)' /\ Booting(q)' /\ t # q
                                 => Left(t)' \cap Left(q)' = {}
        <3> SUFFICES ASSUME NEW t \in Slots, NEW q \in Slots, user[t] = u, user[q] = u,
                            Booting(t)', Booting(q)', t # q
                     PROVE  Left(t)' \cap Left(q)' = {}
            OBVIOUS
        <3>1. CASE t \notin {s, k} /\ q \notin {s, k}
            BY <1>k, <2>7, <3>1 DEF PoolInv, TreeInv, LeftApart
        <3>2. CASE t \in {s, k} /\ q \notin {s, k}
            BY <2>6, <2>7, <3>2
        <3>3. CASE t \notin {s, k} /\ q \in {s, k}
            BY <2>6, <2>7, <3>3
        <3>4. CASE t \in {s, k} /\ q \in {s, k}
            BY <2>6, <3>4
        <3> QED
            BY <3>1, <3>2, <3>3, <3>4
    <2>10. \A t \in Slots : user[t] # u => t \notin {s, k}
        BY <1>k, <2>3
    <2> QED
        BY <1>1, <1>6, <1>7, <2>2, <2>8, <2>9, <2>10, OneTree
<1>12. CASE Cancelled(u, c) /\ kid' = [kid EXCEPT ![s] = @ + 1] /\ UNCHANGED place
    <2>1. \A i \in Subtree(c, Len(fresh[u])) : Made(u, i)
        BY <1>1, <1>4, <1>k
    <2>2. /\ \A t \in Slots : spc'[t] = spc[t] \/ (spc[t] = "made" /\ user[t] = u /\ spc'[t] = "none")
          /\ \A i \in DOMAIN fresh[u] : i \notin Subtree(c, n) => spc'[fresh[u][i]] = spc[fresh[u][i]]
        BY <1>1, <1>2, <1>12, <1>k, <2>1, CancelledSlots
    <2>3. /\ spc'[s] = "boot" /\ kid'[s] = kid[s] + 1 /\ place'[s] = place[s]
          /\ \A t \in Slots : t # s => kid'[t] = kid[t]
        BY <1>t, <1>b, <1>12, <2>2 DEF SlotTypes
    <2>4. Left(s)' = Below(place[s], kid[s] + 1, n) /\ AtItsPlace(s)'
        BY <1>1, <1>6, <1>k, <2>3 DEF Left, FirstLeft, AtItsPlace
    <2>5. Left(s)' \subseteq Left(s) /\ Left(s)' \cap Subtree(c, n) = {} /\ c \in Subtree(c, n)
        BY <1>4, <1>5, <2>4
    <2>6. \A t \in Slots : user[t] = u /\ Booting(t)' /\ t # s =>
              Booting(t) /\ Left(t)' = Left(t) /\ AtItsPlace(t)' /\ Left(t) \cap Left(s) = {}
        <3> SUFFICES ASSUME NEW t \in Slots, user[t] = u, Booting(t)', t # s
                     PROVE  Booting(t) /\ Left(t)' = Left(t) /\ AtItsPlace(t)' /\ Left(t) \cap Left(s) = {}
            OBVIOUS
        <3>1. spc'[t] = spc[t]
            BY <2>2 DEF Booting
        <3> QED
            BY <1>8, <1>9, <1>12, <2>3, <3>1
    <2>7. ASSUME NEW t \in Slots, user[t] = u, Booting(t)' PROVE AtItsPlace(t)' /\ \A i \in Left(t)' : Made(u, i)'
        <3>1. AtItsPlace(t)'
            BY <2>4, <2>6, <2>7
        <3>2. ASSUME NEW i \in Left(t)' PROVE Made(u, i)'
            <4>1. i \notin Subtree(c, n) /\ i \in DOMAIN fresh[u] /\ Made(u, i)
                BY <1>1, <1>4, <1>8, <2>5, <2>6, <2>7, <3>2
            <4> QED
                BY <1>10, <2>2, <2>5, <4>1
        <3> QED
            BY <3>1, <3>2
    <2>8. \A t, q \in Slots : user[t] = u /\ user[q] = u /\ Booting(t)' /\ Booting(q)' /\ t # q
                                 => Left(t)' \cap Left(q)' = {}
        <3> SUFFICES ASSUME NEW t \in Slots, NEW q \in Slots, user[t] = u, user[q] = u,
                            Booting(t)', Booting(q)', t # q
                     PROVE  Left(t)' \cap Left(q)' = {}
            OBVIOUS
        <3>1. CASE t # s /\ q # s
            BY <2>6, <3>1 DEF PoolInv, TreeInv, LeftApart
        <3>2. CASE t = s
            BY <2>5, <2>6, <3>2
        <3>3. CASE q = s
            BY <2>5, <2>6, <3>3
        <3> QED
            BY <3>1, <3>2, <3>3
    <2>9. \A t \in Slots : user[t] # u => spc'[t] = spc[t] /\ t # s
        BY <1>k, <2>2
    <2> QED
        BY <1>1, <1>6, <1>7, <1>12, <2>3, <2>7, <2>8, <2>9, OneTree
<1> QED
    BY <1>a, <1>11, <1>12


LEMMA ListKidTree ==
    ASSUME PoolInv, NEW s \in Slots, ListKid(s)
    PROVE  TreeInv'
<1>t. SlotTypes
    BY DEF PoolInv, TypeOK
<1>1. /\ Booting(s) /\ spc[s] = "list" /\ kid[s] \in {0, 1}
      /\ UNCHANGED <<upc, fresh, user, place>>
    BY ChildIsSlot DEF ListKid, Booting, user_vars, region_vars
<1>2. /\ spc'[s] = "boot" /\ kid'[s] = kid[s] + 1
      /\ \A t \in Slots : t # s => spc'[t] = spc[t] /\ kid'[t] = kid[t]
    BY <1>t DEF ListKid, SlotTypes
<1>3. Left(s)' = Left(s)
    BY <1>1, <1>2 DEF Left, FirstLeft
<1>4. \A t \in Slots : /\ Booting(t)' <=> Booting(t)
                       /\ Booting(t) => AtItsPlace(t)' /\ Left(t)' = Left(t)
    <2> TAKE t \in Slots
    <2>1. Booting(t) => AtItsPlace(t)
        BY LeftInTree
    <2>2. CASE t = s
        BY <1>1, <1>2, <1>3, <2>1, <2>2 DEF AtItsPlace, Booting
    <2>3. CASE t # s
        BY <1>1, <1>2, <2>1, <2>3, LeftStays
    <2> QED
        BY <2>2, <2>3
<1>5. \A u \in Users : \A i : Made(u, i) => Made(u, i)' \/ fresh[u][i] \notin Slots
    BY <1>1, <1>2 DEF Made
<1>6. RootMade'
    <2>1. \A u \in Users : \A i \in DOMAIN fresh[u] : fresh[u][i] \in Slots
        BY DEF PoolInv, TypeOK, RegionTypes
    <2> QED
        BY <1>1, <1>5, <2>1 DEF PoolInv, TreeInv, RootMade
<1>7. KidsMade'
    <2> SUFFICES ASSUME NEW t \in Slots, Booting(t)', NEW i \in Left(t)' PROVE Made(user[t], i)'
        BY <1>4 DEF KidsMade
    <2>1. /\ Made(user[t], i) /\ i \in DOMAIN fresh[user[t]] /\ user[t] \in Users
          /\ fresh[user[t]] \in Seq(Slots)
        BY <1>4, LeftInTree
    <2>2. fresh[user[t]][i] \in Slots
        BY <2>1
    <2>3. PICK u : u = user[t]
        OBVIOUS
    <2>4. Made(u, i)' /\ u = user'[t]
        BY <1>1, <1>5, <2>1, <2>2, <2>3
    <2> QED
        BY <2>4 DEF Made
<1>8. LeftApart'
    BY <1>1, <1>4 DEF PoolInv, TreeInv, LeftApart
<1> QED
    BY <1>1, <1>6, <1>7, <1>8 DEF PoolInv, TreeInv

LEMMA TreeKeeps == PoolInv /\ [Next]_vars => TreeInv'
<1> SUFFICES ASSUME PoolInv, [Next]_vars PROVE TreeInv'
    OBVIOUS
<1>t. SlotTypes /\ CallerTypes /\ RegionTypes /\ TypeOK
    BY DEF PoolInv, TypeOK
<1>1. ASSUME NEW s \in Slots, NEW pc, spc[s] # "made", pc \notin {"boot", "list", "made"},
             spc' = [spc EXCEPT ![s] = pc], UNCHANGED <<user, fresh>>,
             \A t \in Slots : t # s => place'[t] = place[t] /\ kid'[t] = kid[t],
             \A u \in Users : upc'[u] \in {"root", "list"} => upc'[u] = upc[u]
      PROVE  TreeInv'
    <2>1. \A t \in Slots : Booting(t)' => /\ spc'[t] = spc[t] /\ place'[t] = place[t]
                                          /\ kid'[t] = kid[t] /\ user'[t] = user[t]
        BY <1>t, <1>1 DEF Booting, SlotTypes
    <2>2. \A t \in Slots : spc[t] = "made" => spc'[t] = "made" /\ user'[t] = user[t]
        BY <1>t, <1>1 DEF SlotTypes
    <2> QED
        BY <1>1, <2>1, <2>2, TreeStays
<1>2. ASSUME UNCHANGED <<spc, place, kid, user, fresh>>,
             \A u \in Users : upc'[u] \in {"root", "list"} => upc'[u] = upc[u]
      PROVE  TreeInv'
    BY <1>2, TreeStays
<1>3. ASSUME NEW u \in Users, Leave(u) PROVE TreeInv'
    <2>1. UNCHANGED <<spc, place, kid, user>> /\ fresh' = [fresh EXCEPT ![u] = <<>>] /\ upc' = [upc EXCEPT ![u] = "in"]
        BY <1>3 DEF Leave, Goto, slot_vars
    <2>2. \A s \in Slots : Booting(s) => user[s] # u
        BY <1>3, LeaveAlone DEF HeldBy, Holds, Booting
    <2>3. \A v \in Users : \/ fresh'[v] = fresh[v]
                           \/ /\ fresh'[v] = <<>> /\ upc'[v] \notin {"root", "list"}
                              /\ \A s \in Slots : Booting(s) => user[s] # v
        BY <1>t, <2>1, <2>2 DEF RegionTypes, CallerTypes
    <2>4. \A v \in Users : upc'[v] \in {"root", "list"} => upc'[v] = upc[v]
        BY <1>t, <2>1 DEF CallerTypes
    <2> QED
        BY <2>1, <2>3, <2>4, TreeStays
<1>4. ASSUME NEW u \in Users, TakeIdle(u) PROVE TreeInv'
    <2>1. Head(idle) \in ToSet(idle) /\ Head(idle) \in Slots
        BY <1>t, <1>4, TailList DEF TakeIdle, PoolTypes, TypeOK
    <2>2. spc[Head(idle)] = "look"
        BY <2>1 DEF PoolInv, IdleSleeps
    <2>3. UNCHANGED <<spc, place, kid, fresh, upc>> /\ user' = [user EXCEPT ![Head(idle)] = u]
        BY <1>4 DEF TakeIdle, user_vars
    <2>4. \A t \in Slots : spc[t] # "look" => user'[t] = user[t]
        BY <1>t, <2>2, <2>3 DEF SlotTypes
    <2>5. \A t \in Slots : Booting(t)' => /\ spc'[t] = spc[t] /\ place'[t] = place[t]
                                          /\ kid'[t] = kid[t] /\ user'[t] = user[t]
        BY <2>3, <2>4 DEF Booting
    <2> QED
        BY <2>3, <2>4, <2>5, TreeStays
<1>5. ASSUME NEW u \in Users, NEW pc, upc' = [upc EXCEPT ![u] = pc] \/ UNCHANGED upc, pc \notin {"root", "list"}
      PROVE  \A v \in Users : upc'[v] \in {"root", "list"} => upc'[v] = upc[v]
    BY <1>t, <1>5 DEF CallerTypes
<1>6. ASSUME NEW u \in Users,
             Retain(u) \/ Enter(u) \/ TakenAll(u) \/ ListRoot(u) \/ ReleasePool(u) \/ TellExit(u) \/ Joined(u)
      PROVE  TreeInv'
    <2>1. UNCHANGED <<spc, place, kid, user, fresh>>
        BY <1>6 DEF Retain, Enter, TakenAll, ListRoot, ReleasePool, TellExit, Joined, slot_vars, region_vars
    <2>2. \E pc \in UserPCs \ {"root", "list"} : upc' = [upc EXCEPT ![u] = pc]
        BY <1>6 DEF Retain, Enter, TakenAll, ListRoot, ReleasePool, TellExit, Joined, Goto, UserPCs
    <2> QED
        BY <1>2, <1>5, <2>1, <2>2
<1>7. ASSUME NEW u \in Users, Join(u) PROVE TreeInv'
    <2>1. joins[u] # <<>>
        BY <1>7 DEF PoolInv, JoinsSleep, Join
    <2>2. Head(joins[u]) \in Slots
        BY <1>t, <2>1, TailList DEF TypeOK, PoolTypes
    <2>3. UNCHANGED <<place, kid, user, fresh>> /\ Step(Head(joins[u]), "exited", "none")
        BY <1>7 DEF Join, region_vars
    <2>4. \A v \in Users : upc'[v] \in {"root", "list"} => upc'[v] = upc[v]
        BY <1>5, <1>7 DEF Join, Goto
    <2> QED
        BY <1>1, <2>2, <2>3, <2>4 DEF Step
<1>8. ASSUME NEW s \in Slots, Look(s) \/ Claim(s) \/ JobDone(s) \/ Park(s) \/ Push(s) PROVE TreeInv'
    <2>1. UNCHANGED <<place, kid, user, fresh, upc>>
        BY <1>8 DEF Look, Claim, JobDone, Park, Push, user_vars, region_vars
    <2>2. /\ spc[s] \notin {"made", "none"}
          /\ \E pc \in SlotPCs \ {"boot", "list", "made"} : spc' = [spc EXCEPT ![s] = pc]
        BY <1>8 DEF Look, Claim, JobDone, Park, Push, Step, SlotPCs
    <2> QED
        BY <1>1, <2>1, <2>2
<1>9. ASSUME NEW s \in Slots, BootDone(s) PROVE TreeInv'
    <2>1. /\ UNCHANGED <<user, fresh, upc>> /\ spc[s] = "boot" /\ spc' = [spc EXCEPT ![s] = "look"]
          /\ place' = [place EXCEPT ![s] = 1] /\ kid' = [kid EXCEPT ![s] = 0]
        BY <1>9 DEF BootDone, Step, user_vars, region_vars
    <2>2. \A t \in Slots : t # s => place'[t] = place[t] /\ kid'[t] = kid[t]
        BY <1>t, <2>1 DEF SlotTypes
    <2> QED
        BY <1>1, <2>1, <2>2
<1>10. CASE UNCHANGED vars
    BY <1>2, <1>10 DEF vars, user_vars, slot_vars, region_vars
<1> QED
    BY <1>3, <1>4, <1>6, <1>7, <1>8, <1>9, <1>10, GrowTree, StartRootTree, StartKidTree, ListKidTree
    DEF Next, Finished, Thread, Region, Close


-----------------------------------------------------------------------------
(* The count.                                                              *)

LEMMA DiffCount ==
    ASSUME NEW S, IsFiniteSet(S), NEW T \in SUBSET S
    PROVE  Cardinality(S \ T) = Cardinality(S) - Cardinality(T) /\ Cardinality(T) \in Nat /\ Cardinality(S) \in Nat
<1>1. S \cap T = T
    OBVIOUS
<1>2. Cardinality(S \ T) = Cardinality(S) - Cardinality(S \cap T)
    BY FS_Difference
<1>3. Cardinality(T) \in Nat /\ Cardinality(S) \in Nat
    BY FS_Subset, FS_CardinalityType
<1> QED
    BY <1>1, <1>2, <1>3

LEMMA JoinCount ==
    ASSUME NEW S, IsFiniteSet(S), NEW T, IsFiniteSet(T), S \cap T = {}
    PROVE  Cardinality(S \cup T) = Cardinality(S) + Cardinality(T) /\ Cardinality(S) \in Nat /\ Cardinality(T) \in Nat
<1>1. Cardinality(S \cup T) = Cardinality(S) + Cardinality(T) - Cardinality(S \cap T)
    BY FS_Union
<1>2. Cardinality(S \cap T) = 0
    BY FS_EmptySet
<1>3. Cardinality(S) \in Nat /\ Cardinality(T) \in Nat
    BY FS_CardinalityType
<1> QED
    BY <1>1, <1>2, <1>3

\* Distinct places hold distinct slots.
LEMMA ImageCount ==
    ASSUME NEW S, NEW l \in Seq(S), IsInjective(l), NEW P \in SUBSET (DOMAIN l), IsFiniteSet(P)
    PROVE  LET G == {l[i] : i \in P} IN IsFiniteSet(G) /\ Cardinality(G) = Cardinality(P)
<1> DEFINE G == {l[i] : i \in P}
           f == [i \in P |-> l[i]]
<1>1. f \in [P -> G] /\ \A x \in G : \E i \in P : f[i] = x
    OBVIOUS
<1>2. \A i, j \in P : f[i] = f[j] => i = j
    BY DEF IsInjective
<1>3. f \in Bijection(P, G)
    BY <1>1, <1>2 DEF Bijection, Injection, Surjection, IsInjective
<1>4. ExistsBijection(P, G)
    BY <1>3 DEF ExistsBijection
<1> QED
    BY <1>4, FS_Bijection

LEMMA ListCount ==
    ASSUME NEW S, NEW l \in Seq(S), IsInjective(l)
    PROVE  IsFiniteSet(ToSet(l)) /\ Cardinality(ToSet(l)) = Len(l)
<1>1. Len(l) \in Nat /\ DOMAIN l = 1..Len(l)
    OBVIOUS
<1>2. IsFiniteSet(1..Len(l)) /\ Cardinality(1..Len(l)) = Len(l)
    BY <1>1, FS_Interval
<1>3. ToSet(l) = {l[i] : i \in 1..Len(l)}
    BY <1>1 DEF ToSet
<1>4. LET G == {l[i] : i \in 1..Len(l)} IN IsFiniteSet(G) /\ Cardinality(G) = Cardinality(1..Len(l))
    BY <1>1, <1>2, ImageCount
<1> QED
    BY <1>2, <1>3, <1>4

LEMMA KnowsStays ==
    ASSUME PoolInv, NEW v \in Users, upc'[v] = upc[v], warm'[v] = warm[v], grown'[v] = grown[v],
           fresh'[v] = fresh[v], next'[v] = next[v] \/ InRegion(v), HeldBy(v)' \subseteq HeldBy(v)
    PROVE  CallerKnows(v)'
<1>1. CallerKnows(v)
    BY DEF PoolInv
<1> QED
    BY <1>1 DEF CallerKnows, InRegion, Declines

LEMMA CountStays ==
    ASSUME PoolInv, NEW v \in Users, pending'[v] = pending[v], next'[v] = next[v], warm'[v] = warm[v],
           ran'[v] = ran[v], ToHandOut(v)' = ToHandOut(v), HeldBy(v)' = HeldBy(v), ToClaim(v)' = ToClaim(v)
    PROVE  CountIs(v)'
    BY DEF PoolInv, Counted, CountIs

\* A slot whose job is held and claimed as before.
SameHold(s) == /\ \A v \in Users : Holds(s, v)' <=> Holds(s, v)
               /\ \A v \in Users : Holds(s, v) => (spc'[s] = "run" <=> spc[s] = "run")

LEMMA HoldsStay ==
    ASSUME \A s \in Slots : SameHold(s), NEW v \in Users
    PROVE  HeldBy(v)' = HeldBy(v) /\ ToClaim(v)' = ToClaim(v)
<1>1. HeldBy(v)' = HeldBy(v)
    BY DEF SameHold, HeldBy
<1>2. \A s \in HeldBy(v) : spc'[s] = "run" <=> spc[s] = "run"
    BY DEF SameHold, HeldBy
<1> QED
    BY <1>1, <1>2 DEF ToClaim

\* A slot that no field changed of.
LEMMA SameSlot ==
    ASSUME NEW s \in Slots, spc'[s] = spc[s], user'[s] = user[s], state'[s] = state[s]
    PROVE  SameHold(s)
    BY DEF SameHold, Holds

\* A cancelled subtree takes as much off the count as there are jobs in it.
LEMMA CancelledCount ==
    ASSUME PoolInv, NEW u \in Users, NEW c \in Nat \ {0}, Cancelled(u, c), UNCHANGED <<user, state>>,
           \A i \in Subtree(c, Len(fresh[u])) : Made(u, i)
    PROVE  /\ \A v \in Users : v # u => HeldBy(v)' = HeldBy(v) /\ ToClaim(v)' = ToClaim(v)
           /\ HeldBy(u)' \subseteq HeldBy(u)
           /\ Cardinality(HeldBy(u)') = Cardinality(HeldBy(u)) - Cardinality(Subtree(c, Len(fresh[u])))
           /\ Cardinality(ToClaim(u)') <= Cardinality(ToClaim(u)) /\ Cardinality(ToClaim(u)') \in Nat
           /\ \A i \in Subtree(c, Len(fresh[u])) : fresh[u][i] \notin HeldBy(u)'
           /\ Cardinality(Subtree(c, Len(fresh[u]))) \in Nat
<1> DEFINE gone == Subtree(c, Len(fresh[u]))
           G == {fresh[u][i] : i \in gone}
<1>1. spc' = [s \in Slots |-> IF \E i \in gone : fresh[u][i] = s THEN "none" ELSE spc[s]]
    BY DEF Cancelled
<1>2. fresh[u] \in Seq(Slots) /\ IsInjective(fresh[u]) /\ Len(fresh[u]) \in Nat
    BY DEF PoolInv, TypeOK, RegionTypes, TreeInv
<1>3. gone \subseteq DOMAIN fresh[u]
    <2>1. Len(fresh[u]) \in Nat /\ DOMAIN fresh[u] = 1..Len(fresh[u])
        BY <1>2
    <2>2. gone \subseteq c..Len(fresh[u])
        BY <2>1, SubtreeBounds
    <2> QED
        BY <2>1, <2>2
<1>4. IsFiniteSet(gone) /\ Cardinality(gone) \in Nat
    BY <1>2, SubtreeFinite
<1>5. IsFiniteSet(G) /\ Cardinality(G) = Cardinality(gone)
    BY <1>2, <1>3, <1>4, ImageCount
<1>6. \A s \in G : s \in Slots /\ spc[s] = "made" /\ user[s] = u
    BY <1>2, <1>3 DEF Made
<1>7. \A s \in Slots : spc'[s] = IF s \in G THEN "none" ELSE spc[s]
    BY <1>1
<1>8. \A i \in gone : fresh[u][i] \in G
    OBVIOUS
<1> HIDE DEF G, gone
<1>9. G \subseteq HeldBy(u) /\ HeldBy(u)' = HeldBy(u) \ G
    BY <1>6, <1>7 DEF HeldBy, Holds
<1>10. ToClaim(u)' \subseteq ToClaim(u)
    <2>1. \A s \in HeldBy(u)' : s \in HeldBy(u) /\ s \notin G /\ s \in Slots
        BY <1>9 DEF HeldBy
    <2>2. \A s \in HeldBy(u)' : spc'[s] = spc[s]
        BY <1>7, <2>1
    <2> QED
        BY <2>1, <2>2 DEF ToClaim
<1>11. ASSUME NEW v \in Users, v # u PROVE HeldBy(v)' = HeldBy(v) /\ ToClaim(v)' = ToClaim(v)
    <2>1. \A s \in G : s \notin HeldBy(v)
        BY <1>6, <1>11 DEF HeldBy, Holds
    <2>2. HeldBy(v)' = HeldBy(v)
        BY <1>7, <2>1 DEF HeldBy, Holds
    <2>3. \A s \in HeldBy(v) : spc'[s] = spc[s]
        BY <1>7, <2>1 DEF HeldBy
    <2> QED
        BY <2>2, <2>3 DEF ToClaim
<1>12. Cardinality(HeldBy(u) \ G) = Cardinality(HeldBy(u)) - Cardinality(G)
    BY <1>9, HeldFinite, DiffCount
<1>13. Cardinality(ToClaim(u)') <= Cardinality(ToClaim(u)) /\ Cardinality(ToClaim(u)') \in Nat
    <2>1. IsFiniteSet(ToClaim(u)') /\ Cardinality(ToClaim(u)') <= Cardinality(ToClaim(u))
        BY <1>10, HeldFinite, FS_Subset
    <2> QED
        BY <2>1, FS_CardinalityType
<1>14. \A i \in gone : fresh[u][i] \notin HeldBy(u)'
    BY <1>8, <1>9
<1> QED
    BY <1>4, <1>5, <1>9, <1>11, <1>12, <1>13, <1>14 DEF gone

\* What holds of a caller's count and locals; and a step that leaves them alone.
Tally(v) == CountIs(v) /\ CallerKnows(v)

LEMMA TallyStays ==
    ASSUME PoolInv, NEW v \in Users, HeldBy(v)' = HeldBy(v), ToClaim(v)' = ToClaim(v),
           pending'[v] = pending[v], next'[v] = next[v], warm'[v] = warm[v], grown'[v] = grown[v],
           fresh'[v] = fresh[v], ran'[v] = ran[v],
           upc'[v] = upc[v] \/ ~(InRegion(v) \/ InRegion(v)')
    PROVE  Tally(v)'
<1>1. CountIs(v) /\ CallerKnows(v)
    BY DEF PoolInv, Counted
<1>2. CountIs(v)'
    BY <1>1 DEF CountIs, ToHandOut, InRegion
<1>3. CallerKnows(v)'
    BY <1>1 DEF CallerKnows, InRegion, Declines
<1> QED
    BY <1>2, <1>3 DEF Tally

\* The names a caller's step may not touch.
LEMMA OthersTally ==
    ASSUME PoolInv, NEW u \in Users, NEW v \in Users, v # u, Enter(u) \/ Region(u),
           HeldBy(v)' = HeldBy(v), ToClaim(v)' = ToClaim(v)
    PROVE  Tally(v)'
<1>t. RegionTypes /\ CallerTypes
    BY DEF PoolInv, TypeOK
<1>1. /\ pending'[v] = pending[v] /\ next'[v] = next[v] /\ warm'[v] = warm[v] /\ grown'[v] = grown[v]
      /\ fresh'[v] = fresh[v] /\ ran'[v] = ran[v] /\ upc'[v] = upc[v]
    <2>1. CASE Enter(u) \/ TakeIdle(u) \/ TakenAll(u) \/ ListRoot(u)
        BY <1>t, <2>1 DEF RegionTypes, CallerTypes, Enter, TakeIdle, TakenAll, ListRoot, Goto, region_vars, user_vars
    <2>2. CASE Grow(u)
        <3>1. PICK slots : GrewBy(u, slots)
            BY <2>2, GrowMakes DEF PoolInv
        <3> QED
            BY <1>t, <2>2, <3>1 DEF RegionTypes, CallerTypes, Grow, GrewBy, Goto
    <2>3. CASE StartRoot(u)
        BY <1>t, <2>3 DEF RegionTypes, CallerTypes, StartRoot, Cancelled, Goto
    <2>4. CASE Leave(u)
        BY <1>t, <2>4 DEF RegionTypes, CallerTypes, Leave, Goto
    <2> QED
        BY <2>1, <2>2, <2>3, <2>4 DEF Region
<1> QED
    BY <1>1, TallyStays

\* The count as numbers, before a step and after one.
LEMMA CountHas ==
    ASSUME PoolInv, NEW u \in Users
    PROVE  /\ pending[u] = ToHandOut(u) + Cardinality(HeldBy(u))
           /\ next[u] + ToHandOut(u) + Cardinality(ToClaim(u)) <= Size[u] /\ warm[u] <= Size[u]
           /\ \A k \in 1..Size[u] : ran[u][k] <= 1 /\ (k > next[u] => ran[u][k] = 0)
           /\ pending[u] \in Int /\ next[u] \in Nat /\ warm[u] \in Nat /\ Size[u] \in Nat \ {0}
           /\ ToHandOut(u) \in Nat /\ Cardinality(HeldBy(u)) \in Nat /\ Cardinality(ToClaim(u)) \in Nat
<1>1. CountIs(u)
    BY DEF PoolInv, Counted
<1>2. pending[u] \in Int /\ next[u] \in Nat /\ warm[u] \in Nat /\ Size[u] \in Nat \ {0}
    BY SpawnAssumption DEF PoolInv, TypeOK, RegionTypes
<1>3. ToHandOut(u) \in Nat
    BY <1>1, <1>2 DEF CountIs, ToHandOut
<1> QED
    BY <1>1, <1>2, <1>3, HeldFinite DEF CountIs

LEMMA CountBy ==
    ASSUME NEW u \in Users, NEW hand, NEW held, NEW claim,
           ToHandOut(u)' = hand, Cardinality(HeldBy(u)') = held, Cardinality(ToClaim(u)') = claim,
           pending'[u] = hand + held, next'[u] + hand + claim <= Size[u], warm'[u] <= Size[u],
           \A k \in 1..Size[u] : ran'[u][k] <= 1 /\ (k > next'[u] => ran'[u][k] = 0)
    PROVE  CountIs(u)'
    BY DEF CountIs

\* A step that hands out h jobs, claims n of them and ends p.
LEMMA CountMoves ==
    ASSUME PoolInv, NEW u \in Users, NEW h \in Nat, NEW n \in Nat, NEW p \in Nat,
           ToHandOut(u)' = ToHandOut(u) - h, pending'[u] = pending[u] - p, next'[u] = next[u] + n,
           Cardinality(HeldBy(u)') = (Cardinality(HeldBy(u)) + h) - p,
           Cardinality(ToClaim(u)') \in Nat,
           Cardinality(ToClaim(u)') <= (Cardinality(ToClaim(u)) + h) - n,
           warm'[u] <= Size[u],
           \A k \in 1..Size[u] : ran'[u][k] <= 1 /\ (k > next'[u] => ran'[u][k] = 0)
    PROVE  CountIs(u)'
<1>1. PICK hand, held, claim, pend, nxt, size :
          /\ hand = ToHandOut(u) /\ held = Cardinality(HeldBy(u)) /\ claim = Cardinality(ToClaim(u))
          /\ pend = pending[u] /\ nxt = next[u] /\ size = Size[u]
    OBVIOUS
<1>2. PICK hand2, held2, claim2, pend2, nxt2 :
          /\ hand2 = ToHandOut(u)' /\ held2 = Cardinality(HeldBy(u)') /\ claim2 = Cardinality(ToClaim(u)')
          /\ pend2 = pending'[u] /\ nxt2 = next'[u]
    OBVIOUS
<1>3. /\ hand \in Nat /\ held \in Nat /\ claim \in Nat /\ pend \in Int /\ nxt \in Nat /\ size \in Nat
      /\ pend = hand + held /\ nxt + hand + claim <= size
    BY <1>1, CountHas
<1>4. /\ hand2 = hand - h /\ pend2 = pend - p /\ nxt2 = nxt + n /\ held2 = (held + h) - p
      /\ claim2 <= (claim + h) - n /\ claim2 \in Nat
    BY <1>1, <1>2
<1>5. pend2 = hand2 + held2 /\ nxt2 + hand2 + claim2 <= size
    BY <1>3, <1>4
<1> QED
    BY <1>1, <1>2, <1>5, CountBy

LEMMA EnterTally ==
    ASSUME PoolInv, NEW u \in Users, Enter(u)
    PROVE  \A v \in Users : Tally(v)'
<1>t. RegionTypes /\ CallerTypes /\ CountIs(u) /\ CallerKnows(u)
    BY DEF PoolInv, TypeOK, Counted
<1>1. \A v \in Users : HeldBy(v)' = HeldBy(v) /\ ToClaim(v)' = ToClaim(v)
    BY SameSlot, HoldsStay DEF Enter, slot_vars
<1>2. /\ HeldBy(u) = {} /\ next[u] = 0 /\ warm[u] = 0 /\ fresh[u] = <<>> /\ ~grown[u]
      /\ UNCHANGED <<next, warm, grown, fresh, ran>>
      /\ upc'[u] = "take" /\ pending'[u] = Size[u] /\ Size[u] \in Nat
    BY <1>t, SpawnAssumption DEF Enter, CallerKnows, InRegion, CallerTypes, RegionTypes, Goto
<1>3. Cardinality(HeldBy(u)) = 0 /\ Cardinality(ToClaim(u)) = 0
    <2>1. ToClaim(u) = {}
        BY <1>2 DEF ToClaim
    <2> QED
        BY <1>2, <2>1, FS_EmptySet
<1>4. CountIs(u)'
    <2>1. ToHandOut(u)' = Size[u]
        BY <1>2 DEF ToHandOut
    <2>2. pending'[u] = Size[u] + 0 /\ next'[u] + Size[u] + 0 <= Size[u] /\ warm'[u] <= Size[u]
        BY <1>2
    <2>3. HeldBy(u)' = HeldBy(u) /\ ToClaim(u)' = ToClaim(u)
        BY <1>1
    <2>4. Cardinality(HeldBy(u)') = 0 /\ Cardinality(ToClaim(u)') = 0
        BY <1>3, <2>3
    <2>5. \A k \in 1..Size[u] : ran'[u][k] <= 1 /\ (k > next'[u] => ran'[u][k] = 0)
        BY <1>2, CountHas
    <2> QED
        BY <2>1, <2>2, <2>4, <2>5, CountBy
<1>5. CallerKnows(u)'
    BY <1>1, <1>2 DEF CallerKnows, InRegion
<1> QED
    BY <1>1, <1>4, <1>5, OthersTally DEF Tally

LEMMA TakeIdleTally ==
    ASSUME PoolInv, NEW u \in Users, TakeIdle(u)
    PROVE  \A v \in Users : Tally(v)'
<1>t. RegionTypes /\ SlotTypes /\ CountIs(u) /\ CallerKnows(u) /\ Size[u] \in Nat
    BY SpawnAssumption DEF PoolInv, TypeOK, Counted
<1>1. PICK s \in Slots : s = Head(idle) /\ spc[s] = "look" /\ state[s] = "idle"
    <2>1. Head(idle) \in ToSet(idle) /\ Head(idle) \in Slots
        BY TailList DEF TakeIdle, PoolInv, TypeOK, PoolTypes
    <2> QED
        BY <2>1 DEF PoolInv, IdleSleeps
<1>2. /\ spc' = spc /\ state'[s] = "posted" /\ user'[s] = u
      /\ \A x \in Slots : x # s => state'[x] = state[x] /\ user'[x] = user[x]
      /\ upc[u] = "take" /\ upc'[u] = "take" /\ warm'[u] = warm[u] + 1 /\ warm[u] < Size[u]
      /\ UNCHANGED <<pending, next, grown, fresh, ran>>
    BY <1>t, <1>1 DEF TakeIdle, RegionTypes, SlotTypes, user_vars
<1>3. \A v \in Users : s \notin HeldBy(v) /\ s \notin ToClaim(v)
    BY <1>1 DEF HeldBy, ToClaim, Holds
<1>4. \A x \in Slots : x # s => SameHold(x)
    BY <1>2, SameSlot
<1>5. \A v \in Users : Holds(s, v)' <=> v = u
    BY <1>1, <1>2 DEF Holds
<1>6. HeldBy(u)' = HeldBy(u) \cup {s} /\ ToClaim(u)' = ToClaim(u) \cup {s}
    <2>1. HeldBy(u)' = HeldBy(u) \cup {s}
        BY <1>4, <1>5 DEF HeldBy, SameHold
    <2> QED
        BY <1>1, <1>2, <2>1 DEF ToClaim
<1>7. \A v \in Users : v # u => HeldBy(v)' = HeldBy(v) /\ ToClaim(v)' = ToClaim(v)
    <2> TAKE v \in Users
    <2>1. v # u => HeldBy(v)' = HeldBy(v)
        BY <1>3, <1>4, <1>5 DEF HeldBy, SameHold
    <2> QED
        BY <1>2, <2>1 DEF ToClaim
<1>8. /\ Cardinality(HeldBy(u)') = Cardinality(HeldBy(u)) + 1
      /\ Cardinality(ToClaim(u)') = Cardinality(ToClaim(u)) + 1
    BY <1>3, <1>6, HeldFinite, FS_AddElement
<1>9. CountIs(u)'
    <2>1. ToHandOut(u)' = Size[u] - (warm[u] + 1) /\ ToHandOut(u) = Size[u] - warm[u]
        BY <1>2 DEF ToHandOut
    <2>2. /\ pending'[u] = ToHandOut(u)' + Cardinality(HeldBy(u)')
          /\ next'[u] + ToHandOut(u)' + Cardinality(ToClaim(u)') <= Size[u] /\ warm'[u] <= Size[u]
        BY <1>2, <1>8, <2>1, CountHas
    <2>3. \A k \in 1..Size[u] : ran'[u][k] <= 1 /\ (k > next'[u] => ran'[u][k] = 0)
        BY <1>2, CountHas
    <2> QED
        BY <2>2, <2>3, CountBy
<1>10. CallerKnows(u)'
    BY <1>t, <1>2 DEF CallerKnows, InRegion, RegionTypes
<1> QED
    BY <1>7, <1>9, <1>10, OthersTally DEF Tally, Region

LEMMA TakenAllTally ==
    ASSUME PoolInv, NEW u \in Users, TakenAll(u)
    PROVE  \A v \in Users : Tally(v)'
<1>t. RegionTypes /\ CallerTypes /\ CountIs(u) /\ CallerKnows(u) /\ Size[u] \in Nat \ {0}
    BY SpawnAssumption DEF PoolInv, TypeOK, Counted
<1>1. \A v \in Users : HeldBy(v)' = HeldBy(v) /\ ToClaim(v)' = ToClaim(v)
    BY SameSlot, HoldsStay DEF TakenAll, slot_vars
<1>2. /\ UNCHANGED <<pending, next, warm, grown, fresh, ran>>
      /\ upc[u] = "take" /\ upc'[u] = IF warm[u] = Size[u] THEN "wait" ELSE "grow"
    BY <1>t DEF TakenAll, Goto, CallerTypes, region_vars
<1>3. CountIs(u)'
    <2>1. ToHandOut(u) = Size[u] - warm[u] /\ ToHandOut(u)' = Size[u] - warm[u]
        BY <1>2, CountHas DEF ToHandOut
    <2> QED
        BY <1>1, <1>2, <2>1 DEF PoolInv, Counted, CountIs
<1>4. CallerKnows(u)'
    BY <1>t, <1>1, <1>2 DEF CallerKnows, InRegion, Declines
<1> QED
    BY <1>1, <1>3, <1>4, OthersTally DEF Tally, Region

LEMMA GrowTally ==
    ASSUME PoolInv, NEW u \in Users, Grow(u)
    PROVE  \A v \in Users : Tally(v)'
<1>t. TypeOK /\ RegionTypes /\ CallerTypes /\ SlotTypes /\ Counted /\ CallerKnows(u)
    BY DEF PoolInv, TypeOK
<1>1. PICK slots \in Seq(Slots) :
          /\ GrewBy(u, slots) /\ IsInjective(slots) /\ ToSet(slots) \subseteq Unused
          /\ Len(slots) \in 0..(Size[u] - warm[u])
    BY <1>t, GrowMakes
<1>2. /\ \A s \in ToSet(slots) : s \in Slots /\ spc[s] = "none" /\ spc'[s] = "made" /\ user'[s] = u
      /\ \A s \in Slots : s \notin ToSet(slots) => spc'[s] = spc[s] /\ user'[s] = user[s] /\ state'[s] = state[s]
      /\ upc[u] = "grow" /\ upc'[u] = (IF slots = <<>> THEN "wait" ELSE "root")
      /\ UNCHANGED <<next, warm, grown, ran>> /\ fresh'[u] = slots
      /\ pending'[u] = pending[u] - ((Size[u] - warm[u]) - Len(slots))
    BY <1>t, <1>1 DEF GrewBy, Unused, SlotTypes, RegionTypes, CallerTypes, Grow, Goto
<1>3. \A v \in Users : ToSet(slots) \cap HeldBy(v) = {}
    BY <1>2 DEF HeldBy, Holds
<1>4. \A s \in Slots : s \notin ToSet(slots) => SameHold(s)
    BY <1>2, SameSlot
<1>5. \A v \in Users : \A s \in ToSet(slots) : Holds(s, v)' <=> v = u
    BY <1>2 DEF Holds
<1>6. HeldBy(u)' = HeldBy(u) \cup ToSet(slots)
    BY <1>2, <1>4, <1>5 DEF HeldBy, SameHold
<1>7. ToClaim(u)' = ToClaim(u) \cup ToSet(slots)
    <2>1. \A s \in HeldBy(u) : s \notin ToSet(slots) /\ spc'[s] = spc[s]
        BY <1>2, <1>3 DEF HeldBy
    <2> QED
        BY <1>2, <1>6, <2>1 DEF ToClaim
<1>8. \A v \in Users : v # u => HeldBy(v)' = HeldBy(v) /\ ToClaim(v)' = ToClaim(v)
    <2> SUFFICES ASSUME NEW v \in Users, v # u PROVE HeldBy(v)' = HeldBy(v) /\ ToClaim(v)' = ToClaim(v)
        OBVIOUS
    <2>1. HeldBy(v)' = HeldBy(v)
        BY <1>3, <1>4, <1>5 DEF HeldBy, SameHold
    <2>2. \A s \in HeldBy(v) : spc'[s] = spc[s]
        BY <1>2, <1>3 DEF HeldBy
    <2> QED
        BY <2>1, <2>2 DEF ToClaim
<1>9. IsFiniteSet(ToSet(slots)) /\ Cardinality(ToSet(slots)) = Len(slots) /\ Len(slots) \in Nat
    BY <1>1, ListCount
<1>10. Cardinality(HeldBy(u)') = Cardinality(HeldBy(u)) + Len(slots)
    <2>1. HeldBy(u) \cap ToSet(slots) = {}
        BY <1>3
    <2> QED
        BY <1>6, <1>9, <2>1, HeldFinite, JoinCount
<1>11. Cardinality(ToClaim(u)') = Cardinality(ToClaim(u)) + Len(slots)
    <2>1. ToClaim(u) \cap ToSet(slots) = {}
        BY <1>3 DEF ToClaim
    <2> QED
        BY <1>7, <1>9, <2>1, HeldFinite, JoinCount
<1>12. CountIs(u)'
    <2>1. ToHandOut(u)' = 0 /\ ToHandOut(u) = Size[u] - warm[u]
        BY <1>2 DEF ToHandOut
    <2>2. Len(slots) <= Size[u] - warm[u] /\ next'[u] = next[u] /\ warm'[u] <= Size[u]
        BY <1>1, <1>2, CountHas
    <2>3. PICK h \in Nat, p \in Nat : h = Size[u] - warm[u] /\ p = h - Len(slots)
        <3>1. Size[u] - warm[u] \in Nat /\ (Size[u] - warm[u]) - Len(slots) \in Nat
            BY <1>9, <2>2, CountHas
        <3> QED
            BY <3>1
    <2>4. ToHandOut(u)' = ToHandOut(u) - h /\ pending'[u] = pending[u] - p /\ next'[u] = next[u] + 0
        <3>1. ToHandOut(u) = h /\ ToHandOut(u)' = 0
            BY <2>1, <2>3
        <3>2. pending'[u] = pending[u] - p
            BY <1>2, <2>3
        <3> QED
            BY <2>2, <3>1, <3>2, CountHas
    <2>5. /\ Cardinality(HeldBy(u)') = (Cardinality(HeldBy(u)) + h) - p
          /\ Cardinality(ToClaim(u)') <= (Cardinality(ToClaim(u)) + h) - 0
          /\ Cardinality(ToClaim(u)') \in Nat
        <3> DEFINE held == Cardinality(HeldBy(u))  claim == Cardinality(ToClaim(u))  more == Len(slots)
        <3>1. held \in Nat /\ claim \in Nat /\ more \in Nat
            BY <1>9, HeldFinite
        <3>2. Cardinality(HeldBy(u)') = held + more /\ Cardinality(ToClaim(u)') = claim + more
            BY <1>10, <1>11
        <3>3. p = h - more
            BY <2>3
        <3> HIDE DEF held, claim, more
        <3>4. held + more = (held + h) - p /\ claim + more <= (claim + h) - 0 /\ claim + more \in Nat
            <4>1. p \in Nat /\ h = p + more
                BY <2>3, <3>1, <3>3
            <4> QED
                BY <3>1, <4>1
        <3> QED
            BY <3>2, <3>4 DEF held, claim
    <2>6. \A k \in 1..Size[u] : ran'[u][k] <= 1 /\ (k > next'[u] => ran'[u][k] = 0)
        BY <1>2, CountHas
    <2> QED
        BY <2>2, <2>4, <2>5, <2>6, CountMoves
<1>13. CallerKnows(u)'
    <2>1. warm[u] = 0 => HeldBy(u)' = ToSet(slots)
        BY <1>t, <1>2, <1>6 DEF CallerKnows
    <2>2. slots = <<>> => ToSet(slots) = {}
        BY EmptyList
    <2> QED
        BY <1>t, <1>2, <2>1, <2>2 DEF CallerKnows, InRegion, Declines
<1> QED
    BY <1>8, <1>12, <1>13, OthersTally DEF Tally, Region

\* Cancelling leaves the count one of the jobs still out.
LEMMA CancelledTally ==
    ASSUME PoolInv, NEW u \in Users, NEW c \in Nat \ {0}, Cancelled(u, c),
           UNCHANGED <<user, state, next, warm, ran>>, ToHandOut(u)' = ToHandOut(u),
           \A i \in Subtree(c, Len(fresh[u])) : Made(u, i)
    PROVE  CountIs(u)'
<1>1. PICK taken : taken = Cardinality(Subtree(c, Len(fresh[u])))
    OBVIOUS
<1>2. /\ Cardinality(HeldBy(u)') = Cardinality(HeldBy(u)) - taken /\ taken \in Nat
      /\ Cardinality(ToClaim(u)') <= Cardinality(ToClaim(u)) /\ Cardinality(ToClaim(u)') \in Nat
    BY <1>1, CancelledCount
<1>3. pending'[u] = pending[u] - taken
    BY <1>1 DEF Cancelled, PoolInv, TypeOK, RegionTypes
<1>4. /\ ToHandOut(u)' = ToHandOut(u) - 0 /\ next'[u] = next[u] + 0 /\ warm'[u] <= Size[u]
      /\ Cardinality(HeldBy(u)') = (Cardinality(HeldBy(u)) + 0) - taken
      /\ Cardinality(ToClaim(u)') <= (Cardinality(ToClaim(u)) + 0) - 0
    BY <1>2, CountHas
<1>5. \A k \in 1..Size[u] : ran'[u][k] <= 1 /\ (k > next'[u] => ran'[u][k] = 0)
    BY CountHas
<1> QED
    BY <1>2, <1>3, <1>4, <1>5, CountMoves

LEMMA StartRootTally ==
    ASSUME PoolInv, NEW u \in Users, StartRoot(u)
    PROVE  \A v \in Users : Tally(v)'
<1>t. TypeOK /\ RegionTypes /\ CallerTypes /\ SlotTypes /\ CountIs(u) /\ CallerKnows(u)
    BY DEF PoolInv, TypeOK, Counted
<1>n. /\ fresh[u] \in Seq(Slots) /\ fresh[u] # <<>> /\ Len(fresh[u]) \in Nat \ {0}
      /\ DOMAIN fresh[u] = 1..Len(fresh[u]) /\ upc[u] = "root"
      /\ \A i \in DOMAIN fresh[u] : Made(u, i) /\ fresh[u][i] \in Slots
    BY <1>t DEF StartRoot, PoolInv, TreeInv, RootMade, RegionTypes
<1>u. UNCHANGED <<next, warm, fresh, ran, state, user>>
    BY DEF StartRoot
<1>1. CASE Booted(u, 1) /\ grown' = [grown EXCEPT ![u] = TRUE] /\ Goto(u, "list") /\ UNCHANGED pending
    <2>1. spc' = [spc EXCEPT ![fresh[u][1]] = "boot"] /\ spc[fresh[u][1]] = "made" /\ fresh[u][1] \in Slots
        BY <1>n, <1>1 DEF Booted
    <2>2. SameHold(fresh[u][1])
        BY <1>t, <1>u, <2>1 DEF SameHold, Holds, SlotTypes
    <2>3. \A s \in Slots : s # fresh[u][1] => SameHold(s)
        BY <1>t, <1>u, <2>1, SameSlot DEF SlotTypes
    <2>4. \A v \in Users : HeldBy(v)' = HeldBy(v) /\ ToClaim(v)' = ToClaim(v)
        BY <2>2, <2>3, HoldsStay
    <2>5. upc'[u] = "list" /\ grown'[u]
        BY <1>t, <1>1 DEF CallerTypes, RegionTypes, Goto
    <2>6. CountIs(u)'
        BY <1>t, <1>n, <1>u, <1>1, <2>4, <2>5 DEF CountIs, ToHandOut
    <2>7. CallerKnows(u)'
        BY <2>5 DEF CallerKnows, InRegion
    <2> QED
        BY <2>4, <2>6, <2>7, OthersTally DEF Tally, Region
<1>2. CASE Cancelled(u, 1) /\ Goto(u, "wait") /\ UNCHANGED grown
    <2> DEFINE gone == Subtree(1, Len(fresh[u]))
    <2>1. gone = DOMAIN fresh[u]
        BY <1>n, WholeTree
    <2>2. /\ \A v \in Users : v # u => HeldBy(v)' = HeldBy(v) /\ ToClaim(v)' = ToClaim(v)
          /\ HeldBy(u)' \subseteq HeldBy(u)
          /\ Cardinality(HeldBy(u)') = Cardinality(HeldBy(u)) - Cardinality(gone)
          /\ Cardinality(ToClaim(u)') <= Cardinality(ToClaim(u))
          /\ \A i \in gone : fresh[u][i] \notin HeldBy(u)'
          /\ Cardinality(gone) \in Nat
        BY <1>n, <1>u, <1>2, <2>1, CancelledCount
    <2>3. upc'[u] = "wait" /\ pending'[u] = pending[u] - Cardinality(gone)
        BY <1>t, <1>2 DEF CallerTypes, RegionTypes, Goto, Cancelled
    <2> HIDE DEF gone
    <2>4. CountIs(u)'
        <3>1. ToHandOut(u)' = ToHandOut(u)
            BY <1>n, <2>3 DEF ToHandOut
        <3> QED
            BY <1>n, <1>u, <1>2, <2>1, <3>1, CancelledTally DEF gone
    <2>5. CallerKnows(u)'
        <3>1. warm[u] = 0 => HeldBy(u)' = {}
            <4>1. warm[u] = 0 => HeldBy(u) \subseteq ToSet(fresh[u])
                BY <1>t, <1>n DEF CallerKnows
            <4>2. \A s \in ToSet(fresh[u]) : s \notin HeldBy(u)'
                BY <2>1, <2>2 DEF ToSet
            <4> QED
                BY <2>2, <4>1, <4>2
        <3> QED
            BY <1>u, <2>3, <3>1 DEF CallerKnows, InRegion, Declines
    <2> QED
        BY <2>2, <2>4, <2>5, OthersTally DEF Tally, Region
<1> QED
    BY <1>1, <1>2 DEF StartRoot

LEMMA ListRootTally ==
    ASSUME PoolInv, NEW u \in Users, ListRoot(u)
    PROVE  \A v \in Users : Tally(v)'
<1>t. CallerTypes /\ CountIs(u) /\ CallerKnows(u)
    BY DEF PoolInv, TypeOK, Counted
<1>1. \A v \in Users : HeldBy(v)' = HeldBy(v) /\ ToClaim(v)' = ToClaim(v)
    BY SameSlot, HoldsStay DEF ListRoot, slot_vars
<1>2. upc[u] = "list" /\ upc'[u] = "wait" /\ UNCHANGED <<pending, next, warm, grown, fresh, ran>>
    BY <1>t DEF ListRoot, Goto, CallerTypes, region_vars
<1>3. CountIs(u)'
    BY <1>t, <1>1, <1>2 DEF CountIs, ToHandOut
<1>4. CallerKnows(u)'
    BY <1>t, <1>2 DEF CallerKnows, InRegion, Declines
<1> QED
    BY <1>1, <1>3, <1>4, OthersTally DEF Tally, Region

LEMMA LeaveTally ==
    ASSUME PoolInv, NEW u \in Users, Leave(u)
    PROVE  \A v \in Users : Tally(v)'
<1>t. CallerTypes /\ RegionTypes
    BY DEF PoolInv, TypeOK
<1>1. \A v \in Users : HeldBy(v)' = HeldBy(v) /\ ToClaim(v)' = ToClaim(v)
    BY SameSlot, HoldsStay DEF Leave, slot_vars
<1>2. HeldBy(u)' = {} /\ ToClaim(u)' = {}
    BY <1>1, LeaveAlone DEF ToClaim
<1>3. /\ upc'[u] = "in" /\ pending'[u] = 0 /\ next'[u] = 0 /\ warm'[u] = 0 /\ grown'[u] = FALSE
      /\ fresh'[u] = <<>> /\ ran'[u] = [c \in 1..Size[u] |-> 0] /\ Size[u] \in Nat
    BY <1>t, SpawnAssumption DEF Leave, Goto, CallerTypes, RegionTypes
<1>4. CountIs(u)'
    <2>1. ToHandOut(u)' = 0
        BY <1>3 DEF ToHandOut
    <2>2. Cardinality(HeldBy(u)') = 0 /\ Cardinality(ToClaim(u)') = 0
        BY <1>2, FS_EmptySet
    <2>3. pending'[u] = 0 + 0 /\ next'[u] + 0 + 0 <= Size[u] /\ warm'[u] <= Size[u]
        BY <1>3
    <2>4. \A k \in 1..Size[u] : ran'[u][k] <= 1 /\ (k > next'[u] => ran'[u][k] = 0)
        BY <1>3
    <2> QED
        BY <2>1, <2>2, <2>3, <2>4, CountBy
<1>5. CallerKnows(u)'
    BY <1>2, <1>3 DEF CallerKnows, InRegion
<1> QED
    BY <1>1, <1>4, <1>5, OthersTally DEF Tally, Region

\* A step of a thread leaves the locals of every caller alone.
LEMMA ThreadTally ==
    ASSUME PoolInv, NEW v \in Users, UNCHANGED <<upc, warm, grown, fresh, next>> \/ (UNCHANGED <<upc, warm, grown, fresh>> /\ InRegion(v)),
           HeldBy(v)' \subseteq HeldBy(v), CountIs(v)'
    PROVE  Tally(v)'
    BY KnowsStays DEF Tally

LEMMA StartKidTally ==
    ASSUME PoolInv, NEW s \in Slots, StartKid(s)
    PROVE  \A v \in Users : Tally(v)'
<1>t. SlotTypes /\ RegionTypes
    BY DEF PoolInv, TypeOK
<1>0. PICK u, c, k : u = user[s] /\ c = Child(s) /\ k = fresh[u][c]
    OBVIOUS
<1>1. Booting(s) /\ spc[s] = "boot" /\ HasChild(s)
    BY DEF StartKid, Booting
<1>2. /\ u \in Users /\ c \in Nat \ {0} /\ c <= Len(fresh[u]) /\ k \in Slots
      /\ UNCHANGED <<upc, warm, grown, fresh, next, ran, state, user>>
    BY <1>t, <1>0, <1>1, ChildIsSlot DEF StartKid, HasChild, user_vars, SlotTypes
<1>a. \/ /\ spc[k] = "made" /\ spc' = [spc EXCEPT ![k] = "boot", ![s] = "list"] /\ UNCHANGED pending
      \/ Cancelled(u, c)
    BY <1>0 DEF StartKid
<1>3. CASE spc[k] = "made" /\ spc' = [spc EXCEPT ![k] = "boot", ![s] = "list"] /\ UNCHANGED pending
    <2>1. \A x \in Slots : SameHold(x)
        <3> TAKE x \in Slots
        <3>1. CASE x \in {k, s}
            BY <1>t, <1>1, <1>2, <1>3, <3>1 DEF SameHold, Holds, SlotTypes
        <3>2. CASE x \notin {k, s}
            BY <1>t, <1>2, <1>3, <3>2, SameSlot DEF SlotTypes
        <3> QED
            BY <3>1, <3>2
    <2> QED
        BY <1>2, <1>3, <2>1, HoldsStay, TallyStays
<1>4. CASE Cancelled(u, c)
    <2>1. \A i \in Subtree(c, Len(fresh[u])) : Made(u, i)
        <3>1. Left(s) = Subtree(c, Len(fresh[u])) \cup Below(place[s], kid[s] + 1, Len(fresh[u]))
            <4>1. kid[s] \in {0, 1} /\ place[s] \in Nat \ {0} /\ c = 2 * place[s] + kid[s] /\ Len(fresh[u]) \in Nat
                BY <1>t, <1>0, <1>1, <1>2, ChildIsSlot DEF Child, RegionTypes
            <4> QED
                BY <1>0, <1>1, <4>1, BelowParts DEF Left, FirstLeft
        <3> QED
            BY <1>0, <1>1, <3>1, LeftInTree
    <2>2. \A v \in Users : v # u => pending'[v] = pending[v]
        BY <1>t, <1>4 DEF Cancelled, RegionTypes
    <2>3. \A v \in Users : v # u => Tally(v)'
        BY <1>2, <1>4, <2>1, <2>2, CancelledCount, TallyStays
    <2>4. HeldBy(u)' \subseteq HeldBy(u)
        BY <1>2, <1>4, <2>1, CancelledCount
    <2>5. ToHandOut(u)' = ToHandOut(u)
        BY <1>2 DEF ToHandOut
    <2>6. CountIs(u)'
        BY <1>2, <1>4, <2>1, <2>5, CancelledTally
    <2> QED
        BY <1>2, <2>3, <2>4, <2>6, ThreadTally
<1> QED
    BY <1>a, <1>3, <1>4

\* Steps of a thread that end no job and claim none.
LEMMA MovesTally ==
    ASSUME PoolInv, NEW s \in Slots,
           ListKid(s) \/ BootDone(s) \/ Look(s) \/ Park(s) \/ Push(s)
    PROVE  \A v \in Users : Tally(v)'
<1>t. SlotTypes /\ Posted
    BY DEF PoolInv, TypeOK
<1>1. UNCHANGED <<upc, region_vars, user>>
    BY DEF ListKid, BootDone, Look, Park, Push, user_vars
<1>2. \A x \in Slots : x # s => SameHold(x)
    <2>1. \A x \in Slots : x # s => spc'[x] = spc[x] /\ state'[x] = state[x]
        BY <1>t DEF ListKid, BootDone, Look, Park, Parked, Push, Step, SlotTypes
    <2> QED
        BY <1>1, <2>1, SameSlot
<1>3. SameHold(s)
    <2>1. CASE ListKid(s)
        BY <1>t, <1>1, <2>1 DEF ListKid, SameHold, Holds, SlotTypes
    <2>2. CASE BootDone(s)
        BY <1>t, <1>1, <2>2 DEF BootDone, Step, SameHold, Holds, SlotTypes, Posted
    <2>3. CASE Look(s)
        BY <1>t, <1>1, <2>3 DEF Look, Woken, Step, SameHold, Holds, SlotTypes
    <2>4. CASE Park(s)
        BY <1>t, <1>1, <2>4 DEF Park, Parked, Step, SameHold, Holds, SlotTypes
    <2>5. CASE Push(s)
        BY <1>t, <1>1, <2>5 DEF Push, Step, SameHold, Holds, SlotTypes, Posted
    <2> QED
        BY <2>1, <2>2, <2>3, <2>4, <2>5
<1>4. \A v \in Users : HeldBy(v)' = HeldBy(v) /\ ToClaim(v)' = ToClaim(v)
    BY <1>2, <1>3, HoldsStay
<1> QED
    BY <1>1, <1>4, TallyStays DEF region_vars

\* A job that is claimed claims a context that is there, and the first time.
LEMMA ClaimTally ==
    ASSUME PoolInv, NEW s \in Slots, Claim(s)
    PROVE  \A v \in Users : Tally(v)'
<1>t. SlotTypes /\ RegionTypes
    BY DEF PoolInv, TypeOK
<1>0. PICK u \in Users : u = user[s]
    BY <1>t DEF SlotTypes
<1>1. /\ spc[s] = "job" /\ spc' = [spc EXCEPT ![s] = "run"] /\ next' = [next EXCEPT ![u] = next[u] + 1]
      /\ ran' = [ran EXCEPT ![u] = [ran[u] EXCEPT ![next[u] + 1] = ran[u][next[u] + 1] + 1]]
      /\ UNCHANGED <<upc, pending, warm, grown, fresh, state, user>>
    BY <1>0 DEF Claim, Step, user_vars
<1>2. s \in HeldBy(u) /\ s \in ToClaim(u)
    BY <1>0, <1>1 DEF HeldBy, ToClaim, Holds
<1>3. \A v \in Users : HeldBy(v)' = HeldBy(v)
    BY <1>t, <1>1 DEF HeldBy, Holds, SlotTypes
<1>4. ToClaim(u)' = ToClaim(u) \ {s}
    <2>1. \A x \in HeldBy(u) : x \in Slots /\ spc'[x] = IF x = s THEN "run" ELSE spc[x]
        BY <1>t, <1>1 DEF HeldBy, SlotTypes
    <2> QED
        BY <1>3, <2>1 DEF ToClaim
<1>5. \A v \in Users : v # u => ToClaim(v)' = ToClaim(v)
    <2> SUFFICES ASSUME NEW v \in Users, v # u PROVE ToClaim(v)' = ToClaim(v)
        OBVIOUS
    <2>1. \A x \in HeldBy(v) : x \in Slots /\ x # s
        BY <1>0 DEF HeldBy, Holds
    <2>2. \A x \in HeldBy(v) : spc'[x] = spc[x]
        BY <1>t, <1>1, <2>1 DEF SlotTypes
    <2> QED
        BY <1>3, <2>2 DEF ToClaim
<1>6. \A v \in Users : v # u => Tally(v)'
    <2>1. \A v \in Users : v # u => next'[v] = next[v] /\ ran'[v] = ran[v]
        BY <1>t, <1>1 DEF RegionTypes
    <2> QED
        BY <1>1, <1>3, <1>5, <2>1, TallyStays
<1>7. Cardinality(ToClaim(u)') = Cardinality(ToClaim(u)) - 1 /\ Cardinality(ToClaim(u)') \in Nat
    BY <1>2, <1>4, HeldFinite, FS_RemoveElement, FS_CardinalityType
<1>8. next'[u] = next[u] + 1 /\ next[u] \in Nat /\ next[u] + 1 \in 1..Size[u]
    <2>1. Cardinality(ToClaim(u)) >= 1
        BY <1>7, HeldFinite
    <2> QED
        BY <1>t, <1>1, <2>1, CountHas DEF RegionTypes
<1>9. \A k \in 1..Size[u] : ran'[u][k] <= 1 /\ (k > next'[u] => ran'[u][k] = 0)
    <2> TAKE k \in 1..Size[u]
    <2>1. ran[u] \in [1..Size[u] -> Nat] /\ ran'[u] = [ran[u] EXCEPT ![next[u] + 1] = ran[u][next[u] + 1] + 1]
        BY <1>t, <1>1 DEF RegionTypes
    <2>2. CASE k = next[u] + 1
        <3>1. ran[u][k] = 0
            BY <1>8, <2>2, CountHas
        <3>2. ran'[u][k] = ran[u][k] + 1
            BY <2>1, <2>2
        <3> QED
            BY <1>8, <2>2, <3>1, <3>2
    <2>3. CASE k # next[u] + 1
        <3>1. ran'[u][k] = ran[u][k]
            BY <2>1, <2>3
        <3> QED
            BY <1>8, <2>3, <3>1, CountHas
    <2> QED
        BY <2>2, <2>3
<1>10. CountIs(u)'
    <2>1. /\ ToHandOut(u)' = ToHandOut(u) - 0 /\ pending'[u] = pending[u] - 0 /\ warm'[u] <= Size[u]
          /\ Cardinality(HeldBy(u)') = (Cardinality(HeldBy(u)) + 0) - 0
        <3>1. ToHandOut(u)' = ToHandOut(u)
            BY <1>1 DEF ToHandOut
        <3>2. Cardinality(HeldBy(u)') = Cardinality(HeldBy(u))
            BY <1>3
        <3> QED
            BY <1>1, <3>1, <3>2, CountHas
    <2>2. Cardinality(ToClaim(u)') <= (Cardinality(ToClaim(u)) + 0) - 1
        BY <1>7, HeldFinite
    <2> QED
        BY <1>7, <1>8, <1>9, <2>1, <2>2, CountMoves
<1>11. InRegion(u)
    BY <1>2, HolderInRegion DEF HeldBy
<1> QED
    BY <1>1, <1>3, <1>6, <1>10, <1>11, ThreadTally

LEMMA JobDoneTally ==
    ASSUME PoolInv, NEW s \in Slots, JobDone(s)
    PROVE  \A v \in Users : Tally(v)'
<1>t. SlotTypes /\ RegionTypes
    BY DEF PoolInv, TypeOK
<1>0. PICK u \in Users : u = user[s]
    BY <1>t DEF SlotTypes
<1>1. /\ spc[s] = "run" /\ spc' = [spc EXCEPT ![s] = "park"] /\ pending' = [pending EXCEPT ![u] = pending[u] - 1]
      /\ UNCHANGED <<upc, next, warm, grown, fresh, ran, state, user>>
    BY <1>0 DEF JobDone, Step, user_vars
<1>2. \A x \in Slots : x # s => SameHold(x)
    BY <1>t, <1>1, SameSlot DEF SlotTypes
<1>3. s \in HeldBy(u) /\ s \notin ToClaim(u) /\ \A v \in Users : ~Holds(s, v)' /\ (v # u => ~Holds(s, v))
    BY <1>t, <1>0, <1>1 DEF HeldBy, ToClaim, Holds, SlotTypes
<1>4. HeldBy(u)' = HeldBy(u) \ {s} /\ \A v \in Users : v # u => HeldBy(v)' = HeldBy(v)
    BY <1>2, <1>3 DEF HeldBy, SameHold
<1>5. \A v \in Users : ToClaim(v)' = ToClaim(v)
    <2> TAKE v \in Users
    <2>1. \A x \in HeldBy(v) : x \in Slots /\ (x # s => spc'[x] = spc[x])
        BY <1>t, <1>1 DEF HeldBy, SlotTypes
    <2>2. HeldBy(v)' = HeldBy(v) \ {s}
        BY <1>3, <1>4 DEF HeldBy
    <2> QED
        BY <1>1, <2>1, <2>2 DEF ToClaim
<1>6. \A v \in Users : v # u => Tally(v)'
    <2>1. \A v \in Users : v # u => pending'[v] = pending[v]
        BY <1>t, <1>1 DEF RegionTypes
    <2> QED
        BY <1>1, <1>4, <1>5, <2>1, TallyStays
<1>7. CountIs(u)'
    <2>1. Cardinality(HeldBy(u)') = Cardinality(HeldBy(u)) - 1
        BY <1>3, <1>4, HeldFinite, FS_RemoveElement
    <2>2. ToHandOut(u)' = ToHandOut(u) /\ Cardinality(ToClaim(u)') = Cardinality(ToClaim(u))
        BY <1>1, <1>5 DEF ToHandOut
    <2>3. pending'[u] = pending[u] - 1 /\ next'[u] = next[u] + 0 /\ warm'[u] <= Size[u]
        BY <1>t, <1>1, CountHas DEF RegionTypes
    <2>4. /\ ToHandOut(u)' = ToHandOut(u) - 0
          /\ Cardinality(HeldBy(u)') = (Cardinality(HeldBy(u)) + 0) - 1
          /\ Cardinality(ToClaim(u)') <= (Cardinality(ToClaim(u)) + 0) - 0 /\ Cardinality(ToClaim(u)') \in Nat
        BY <2>1, <2>2, CountHas
    <2>5. \A k \in 1..Size[u] : ran'[u][k] <= 1 /\ (k > next'[u] => ran'[u][k] = 0)
        BY <1>1, CountHas
    <2> QED
        BY <2>3, <2>4, <2>5, CountMoves
<1> QED
    BY <1>1, <1>4, <1>6, <1>7, ThreadTally

\* Steps of callers out of a region.
LEMMA CloseTally ==
    ASSUME PoolInv, NEW u \in Users, Retain(u) \/ ReleasePool(u) \/ Close(u)
    PROVE  \A v \in Users : Tally(v)'
<1>t. SlotTypes /\ CallerTypes
    BY DEF PoolInv, TypeOK
<1>1. UNCHANGED <<region_vars, user>>
    BY DEF Retain, ReleasePool, Close, TellExit, Join, Joined, slot_vars
<1>2. \A v \in Users : upc'[v] = upc[v] \/ ~(InRegion(v) \/ InRegion(v)')
    BY <1>t DEF Retain, ReleasePool, Close, TellExit, Join, Joined, Goto, CallerTypes, InRegion
<1>3. \A x \in Slots : SameHold(x)
    <2>1. CASE UNCHANGED <<spc, state>>
        BY <1>1, <2>1, SameSlot
    <2>2. CASE TellExit(u)
        <3>1. Head(joins[u]) \in ToSet(joins[u]) /\ Head(joins[u]) \in Slots
            BY <2>2, TailList DEF TellExit, PoolInv, TypeOK, PoolTypes
        <3>2. spc[Head(joins[u])] = "look" /\ state[Head(joins[u])] = "idle"
            BY <2>2, <3>1 DEF PoolInv, JoinsSleep, TellExit
        <3> QED
            BY <1>t, <1>1, <2>2, <3>1, <3>2 DEF TellExit, SameHold, Holds, SlotTypes
    <2>3. CASE Join(u)
        BY <1>t, <1>1, <2>3 DEF Join, Step, SameHold, Holds, SlotTypes
    <2> QED
        BY <2>1, <2>2, <2>3 DEF Retain, ReleasePool, Close, Joined, slot_vars
<1> QED
    BY <1>1, <1>2, <1>3, HoldsStay, TallyStays DEF region_vars

LEMMA CountKeeps == PoolInv /\ [Next]_vars => \A v \in Users : Tally(v)'
<1> SUFFICES ASSUME PoolInv, [Next]_vars PROVE \A v \in Users : Tally(v)'
    OBVIOUS
<1>1. CASE UNCHANGED vars
    <2>1. \A v \in Users : HeldBy(v)' = HeldBy(v) /\ ToClaim(v)' = ToClaim(v)
        BY <1>1, SameSlot, HoldsStay DEF vars, slot_vars
    <2> QED
        BY <1>1, <2>1, TallyStays DEF vars, user_vars, region_vars
<1> QED
    BY <1>1, EnterTally, TakeIdleTally, TakenAllTally, GrowTally, StartRootTally, ListRootTally, LeaveTally,
       StartKidTally, MovesTally, ClaimTally, JobDoneTally, CloseTally
    DEF Next, Finished, Region, Thread

-----------------------------------------------------------------------------
(* The lists.                                                              *)

LEMMA Listers ==
    ASSUME NEW x
    PROVE  BeingListed(x) <=> \/ \E u \in Users : CallerLists(u, x)
                              \/ \E p \in Slots : ThreadLists(p, x)
    BY DEF BeingListed, CallerLists, ThreadLists

\* What a step leaves as it was: the joins of v, and a thread asleep or told to exit.
JoinStays(v) == upc'[v] = upc[v] \/ (joins[v] = <<>> /\ upc'[v] # "join")
RestStays(s) ==
    /\ spc[s] = "look" /\ state[s] = "idle" => spc'[s] = "look" /\ state'[s] = "idle"
    /\ spc[s] \in {"look", "exited"} /\ state[s] = "exit" => spc'[s] \in {"look", "exited"} /\ state'[s] = "exit"

LEMMA SleepsStay ==
    ASSUME PoolInv, UNCHANGED joins, \A v \in Users : JoinStays(v), \A s \in Slots : RestStays(s)
    PROVE  JoinsSleep'
<1>1. \A v \in Users : ToSet(joins[v]) \subseteq Slots
    BY InList DEF PoolInv, TypeOK, PoolTypes
<1> SUFFICES ASSUME NEW v \in Users
             PROVE  /\ upc'[v] \notin {"tell", "join"} => joins[v] = <<>>
                    /\ upc'[v] = "join" => joins[v] # <<>>
                    /\ \A s \in ToSet(joins[v]) :
                          IF upc'[v] = "join" /\ s = Head(joins[v])
                          THEN state'[s] = "exit" /\ spc'[s] \in {"look", "exited"}
                          ELSE state'[s] = "idle" /\ spc'[s] = "look"
    BY DEF JoinsSleep
<1>2. CASE joins[v] = <<>> /\ upc'[v] # "join"
    BY <1>2, EmptyList
<1>3. CASE upc'[v] = upc[v]
    BY <1>1, <1>3 DEF PoolInv, JoinsSleep, RestStays
<1> QED
    BY <1>2, <1>3 DEF JoinStays

LEMMA IdleStays ==
    ASSUME PoolInv, UNCHANGED idle, \A s \in Slots : RestStays(s),
           \A s \in Slots : s \in ToSet(all) \/ BeingListed(s) => s \in ToSet(all)' \/ BeingListed(s)'
    PROVE  IdleSleeps'
<1>1. ToSet(idle) \subseteq Slots
    BY InList DEF PoolInv, TypeOK, PoolTypes
<1> QED
    BY <1>1 DEF PoolInv, IdleSleeps, RestStays

\* A step that lists nothing and takes nothing off a list.
LEMMA ListsStay ==
    ASSUME PoolInv, UNCHANGED <<idle, all, joins>>,
           \A s \in Slots : RestStays(s) /\ (Runs(s)' <=> Runs(s)),
           \A v \in Users : JoinStays(v),
           \A x \in Slots : /\ \A v \in Users : CallerLists(v, x)' <=> CallerLists(v, x)
                            /\ \A p \in Slots : ThreadLists(p, x)' <=> ThreadLists(p, x)
    PROVE  ListedOnce' /\ OneLister' /\ IdleSleeps' /\ JoinsSleep'
<1>1. \A x \in Slots : BeingListed(x)' <=> BeingListed(x)
    BY DEF BeingListed, CallerLists, ThreadLists
<1>2. ToSet(all) \subseteq Slots /\ \A v \in Users : ToSet(joins[v]) \subseteq Slots
    BY InList DEF PoolInv, TypeOK, PoolTypes
<1>3. ListedOnce'
    BY <1>1, <1>2 DEF PoolInv, ListedOnce, Joining
<1>4. OneLister'
    BY DEF PoolInv, OneLister
<1>5. IdleSleeps'
    BY <1>1, IdleStays
<1>6. JoinsSleep'
    BY SleepsStay
<1> QED
    BY <1>3, <1>4, <1>5, <1>6

\* A thread that is started is on no list, and then about to be put on one.
LEMMA ListsGain ==
    ASSUME PoolInv, UNCHANGED <<idle, all, joins>>, NEW r \in Slots, ~Runs(r), Runs(r)',
           \A s \in Slots : RestStays(s) /\ (s # r => (Runs(s)' <=> Runs(s))),
           \A v \in Users : JoinStays(v),
           \A x \in Slots : BeingListed(x)' <=> BeingListed(x) \/ x = r
    PROVE  ListedOnce' /\ IdleSleeps' /\ JoinsSleep'
<1>1. ToSet(all) \subseteq Slots /\ \A v \in Users : ToSet(joins[v]) \subseteq Slots
    BY InList DEF PoolInv, TypeOK, PoolTypes
<1>2. r \notin ToSet(all) /\ \A v \in Users : ~Joining(v, r)
    BY DEF PoolInv, ListedOnce
<1>3. ListedOnce'
    BY <1>1, <1>2 DEF PoolInv, ListedOnce, Joining
<1>4. IdleSleeps'
    BY IdleStays
<1>5. JoinsSleep'
    BY SleepsStay
<1> QED
    BY <1>3, <1>4, <1>5

\* A slot that does not run yet has nobody about to list it.
LEMMA NotListed ==
    ASSUME PoolInv, NEW r \in Slots, ~Runs(r)
    PROVE  /\ \A v \in Users : ~CallerLists(v, r)
           /\ \A p \in Slots : ~ThreadLists(p, r)
    BY Listers DEF PoolInv, ListedOnce

\* Who started a thread puts it on Pool.all.
LEMMA ListsMove ==
    ASSUME PoolInv, UNCHANGED <<idle, joins>>, NEW r \in Slots, all' = <<r>> \o all, BeingListed(r),
           \A s \in Slots : RestStays(s) /\ (Runs(s)' <=> Runs(s)),
           \A v \in Users : JoinStays(v),
           \A x \in Slots : BeingListed(x)' <=> BeingListed(x) /\ x # r
    PROVE  ListedOnce' /\ IdleSleeps' /\ JoinsSleep'
<1>1. all \in Seq(Slots) /\ ToSet(all) \subseteq Slots /\ \A v \in Users : ToSet(joins[v]) \subseteq Slots
    BY InList DEF PoolInv, TypeOK, PoolTypes
<1>2. r \notin ToSet(all) /\ \A v \in Users : ~Joining(v, r)
    BY DEF PoolInv, ListedOnce, Joining
<1>3. ToSet(all)' = ToSet(all) \cup {r} /\ IsInjective(all)'
    <2>1. IsInjective(all)
        BY DEF PoolInv, ListedOnce
    <2> QED
        BY <1>1, <1>2, <2>1, ConsList
<1>4. ListedOnce'
    <2>1. ListedOnce
        BY DEF PoolInv
    <2>2. \A s \in Slots : s \in ToSet(all)' \/ BeingListed(s)' <=> s \in ToSet(all) \/ BeingListed(s)
        BY <1>1, <1>3
    <2>3. \A s \in Slots :
              Runs(s)' <=> s \in ToSet(all)' \/ BeingListed(s)' \/ \E u \in Users : Joining(u, s)'
        BY <2>1, <2>2 DEF ListedOnce, Joining
    <2>4. \A s \in ToSet(all)' : s \in Slots /\ ~BeingListed(s)' /\ \A u \in Users : ~Joining(u, s)'
        BY <1>1, <1>2, <1>3, <2>1 DEF ListedOnce, Joining
    <2>5. \A u \in Users : \A s \in ToSet(joins'[u]) :
              ~BeingListed(s)' /\ \A v \in Users : Joining(v, s)' => v = u
        BY <1>1, <2>1 DEF ListedOnce, Joining
    <2>6. IsInjective(all)' /\ \A u \in Users : IsInjective(joins'[u])
        BY <1>3, <2>1 DEF ListedOnce
    <2> QED
        BY <2>3, <2>4, <2>5, <2>6 DEF ListedOnce
<1>5. IdleSleeps'
    BY <1>3, IdleStays
<1>6. JoinsSleep'
    BY SleepsStay
<1> QED
    BY <1>4, <1>5, <1>6

\* The lists of a step, as its lemmas have them.
ListsHold == ListedOnce /\ OneLister /\ IdleSleeps /\ JoinsSleep

LEMMA KidListsStay ==
    ASSUME NEW p \in Slots, spc'[p] = "list" <=> spc[p] = "list",
           spc[p] = "list" => /\ place'[p] = place[p] /\ kid'[p] = kid[p] /\ user'[p] = user[p]
                              /\ fresh'[user[p]] = fresh[user[p]]
    PROVE  \A x : ThreadLists(p, x)' <=> ThreadLists(p, x)
    BY DEF ThreadLists, Child

LEMMA RegionLists ==
    ASSUME PoolInv, NEW u \in Users, Enter(u) \/ TakenAll(u) \/ Leave(u) \/ Grow(u)
    PROVE  ListsHold'
<1>t. TypeOK /\ Counted /\ SlotTypes /\ RegionTypes /\ CallerTypes
    BY DEF PoolInv, TypeOK
<1>1. UNCHANGED <<idle, all, joins>>
    BY DEF Enter, TakenAll, Leave, Grow, pool_vars
<1>2. \A v \in Users : v # u => upc'[v] = upc[v] /\ fresh'[v] = fresh[v]
    <2>1. CASE Enter(u) \/ TakenAll(u) \/ Leave(u)
        BY <1>t, <2>1 DEF RegionTypes, CallerTypes, Enter, TakenAll, Leave, Goto, region_vars
    <2>2. CASE Grow(u)
        <3>1. PICK slots : GrewBy(u, slots)
            BY <1>t, <2>2, GrowMakes
        <3> QED
            BY <1>t, <3>1 DEF RegionTypes, CallerTypes, GrewBy, Goto
    <2> QED
        BY <2>1, <2>2
<1>3. upc[u] \in {"in", "take", "grow", "wait"} /\ upc'[u] \in {"in", "take", "grow", "root", "wait"}
    <2>1. CASE Grow(u)
        <3>1. PICK slots : GrewBy(u, slots)
            BY <1>t, <2>1, GrowMakes
        <3> QED
            BY <1>t, <2>1, <3>1 DEF CallerTypes, Grow, GrewBy, Goto
    <2> QED
        BY <1>t, <2>1 DEF CallerTypes, Enter, TakenAll, Leave, Goto
<1>4. \A v \in Users : JoinStays(v)
    BY <1>2, <1>3 DEF JoinStays, PoolInv, JoinsSleep
<1>5. /\ UNCHANGED <<place, kid>>
      /\ \A s \in Slots : spc[s] # "none" => spc'[s] = spc[s] /\ state'[s] = state[s] /\ user'[s] = user[s]
      /\ \A s \in Slots : spc[s] = "none" => spc'[s] \in {"none", "made"}
    <2>1. CASE UNCHANGED slot_vars
        BY <2>1 DEF slot_vars
    <2>2. CASE Grow(u)
        <3>1. PICK slots : GrewBy(u, slots) /\ ToSet(slots) \subseteq Unused
            BY <1>t, <2>2, GrowMakes
        <3> QED
            BY <1>t, <2>2, <3>1 DEF GrewBy, Unused, SlotTypes, Grow
    <2> QED
        BY <2>1, <2>2 DEF Enter, TakenAll, Leave
<1>6. \A s \in Slots : RestStays(s) /\ (Runs(s)' <=> Runs(s))
    BY <1>5 DEF RestStays, Runs
<1>7. \A p \in Slots : \A x : ThreadLists(p, x)' <=> ThreadLists(p, x)
    <2> TAKE p \in Slots
    <2>1. spc[p] = "list" => user[p] # u /\ user[p] \in Users
        <3>1. CASE upc[u] = "wait" /\ spc[p] = "list"
            <4>1. Leave(u)
                BY <3>1 DEF Enter, TakenAll, Leave, Grow
            <4> QED
                BY <3>1, <4>1, LeaveAlone, BootingInRegion DEF Booting, HeldBy
        <3>2. CASE upc[u] # "wait" /\ spc[p] = "list"
            BY <1>3, <3>2, NobodyBoots, BootingInRegion DEF Booting
        <3> QED
            BY <3>1, <3>2
    <2>2. spc[p] = "list" => user'[p] = user[p] /\ place'[p] = place[p] /\ kid'[p] = kid[p]
                                 /\ fresh'[user[p]] = fresh[user[p]]
        BY <1>2, <1>5, <2>1
    <2>3. spc'[p] = "list" <=> spc[p] = "list"
        BY <1>5
    <2> QED
        BY <2>2, <2>3, KidListsStay
<1>8. \A v \in Users : \A x : CallerLists(v, x)' <=> CallerLists(v, x)
    BY <1>2, <1>3 DEF CallerLists
<1> QED
    BY <1>1, <1>4, <1>6, <1>7, <1>8, ListsStay DEF ListsHold

LEMMA TakeIdleLists ==
    ASSUME PoolInv, NEW u \in Users, TakeIdle(u)
    PROVE  ListsHold'
<1>t. SlotTypes /\ idle \in Seq(Slots) /\ IdleSleeps /\ ListedOnce
    BY DEF PoolInv, TypeOK, PoolTypes
<1>0. PICK s : s = Head(idle)
    OBVIOUS
<1>1. /\ idle # <<>> /\ idle' = Tail(idle) /\ UNCHANGED <<upc, all, joins, spc, place, kid, fresh>>
      /\ state' = [state EXCEPT ![s] = "posted"] /\ user' = [user EXCEPT ![s] = u]
    BY <1>0 DEF TakeIdle, user_vars
<1>2. /\ s \in Slots /\ s \in ToSet(idle) /\ spc[s] = "look"
      /\ IsInjective(Tail(idle)) /\ ToSet(Tail(idle)) = ToSet(idle) \ {s} /\ ToSet(idle) \subseteq Slots
      /\ s \in ToSet(all) \/ BeingListed(s)
    BY <1>t, <1>0, <1>1, TailList, InList DEF IdleSleeps
<1>3. \A v \in Users : ~Joining(v, s)
    BY <1>2 DEF PoolInv, ListedOnce, Joining
<1>4. \A x \in Slots : x # s => state'[x] = state[x] /\ user'[x] = user[x]
    BY <1>t, <1>1 DEF SlotTypes
<1>5. \A p \in Slots : \A x : ThreadLists(p, x)' <=> ThreadLists(p, x)
    <2> TAKE p \in Slots
    <2>1. spc[p] = "list" => user'[p] = user[p]
        BY <1>2, <1>4
    <2> QED
        BY <1>1, <2>1, KidListsStay
<1>6. \A v \in Users : \A x : CallerLists(v, x)' <=> CallerLists(v, x)
    BY <1>1 DEF CallerLists
<1>7. \A x : BeingListed(x)' <=> BeingListed(x)
    BY <1>5, <1>6 DEF BeingListed, CallerLists, ThreadLists
<1>8. ListedOnce'
    <2>1. \A x : (Runs(x)' <=> Runs(x)) /\ \A v : Joining(v, x)' <=> Joining(v, x)
        BY <1>1 DEF Runs, Joining
    <2> QED
        BY <1>t, <1>1, <1>7, <2>1 DEF ListedOnce
<1>9. OneLister'
    BY <1>5, <1>6 DEF PoolInv, OneLister
<1>10. IdleSleeps'
    BY <1>t, <1>1, <1>2, <1>4, <1>7 DEF IdleSleeps
<1>11. JoinsSleep'
    <2>1. \A v \in Users : ToSet(joins[v]) \subseteq Slots /\ s \notin ToSet(joins[v])
        BY <1>3, InList DEF PoolInv, TypeOK, PoolTypes, Joining
    <2> QED
        BY <1>1, <1>4, <2>1 DEF PoolInv, JoinsSleep
<1> QED
    BY <1>8, <1>9, <1>10, <1>11 DEF ListsHold

LEMMA StartRootLists ==
    ASSUME PoolInv, NEW u \in Users, StartRoot(u)
    PROVE  ListsHold'
<1>t. SlotTypes /\ CallerTypes /\ RegionTypes
    BY DEF PoolInv, TypeOK
<1>1. /\ upc[u] = "root" /\ UNCHANGED <<idle, all, joins, fresh, state, user>>
      /\ \A v \in Users : v # u => upc'[v] = upc[v]
    BY <1>t DEF StartRoot, pool_vars, CallerTypes, Goto
<1>n. /\ fresh[u] \in Seq(Slots) /\ fresh[u] # <<>> /\ Len(fresh[u]) \in Nat \ {0}
      /\ DOMAIN fresh[u] = 1..Len(fresh[u])
      /\ \A i \in DOMAIN fresh[u] : Made(u, i) /\ fresh[u][i] \in Slots
    BY <1>t, <1>1 DEF PoolInv, TreeInv, RootMade, RegionTypes
<1>2. CASE Booted(u, 1) /\ Goto(u, "list")
    <2>0. PICK r : r = fresh[u][1]
        OBVIOUS
    <2>1. /\ r \in Slots /\ spc[r] = "made" /\ spc' = [spc EXCEPT ![r] = "boot"]
          /\ place' = [place EXCEPT ![r] = 1] /\ kid' = [kid EXCEPT ![r] = 0] /\ upc'[u] = "list"
        BY <1>t, <1>n, <1>2, <2>0 DEF Booted, Goto, CallerTypes
    <2>2. ~Runs(r) /\ Runs(r)' /\ \A s \in Slots : RestStays(s) /\ (s # r => (Runs(s)' <=> Runs(s)))
        BY <1>t, <1>1, <2>1 DEF Runs, RestStays, SlotTypes
    <2>3. \A v \in Users : JoinStays(v)
        BY <1>1, <2>1 DEF JoinStays, PoolInv, JoinsSleep
    <2>4. \A p \in Slots : \A x : ThreadLists(p, x)' <=> ThreadLists(p, x)
        <3> TAKE p \in Slots
        <3>1. (spc'[p] = "list" <=> spc[p] = "list") /\ (spc[p] = "list" => place'[p] = place[p] /\ kid'[p] = kid[p])
            BY <1>t, <2>1 DEF SlotTypes
        <3> QED
            BY <1>1, <3>1, KidListsStay
    <2>5. \A v \in Users : \A x : CallerLists(v, x)' <=> CallerLists(v, x) \/ (v = u /\ x = r)
        BY <1>1, <2>0, <2>1 DEF CallerLists
    <2>6. OneLister'
        BY <2>1, <2>2, <2>4, <2>5, NotListed DEF PoolInv, OneLister
    <2>7. \A x \in Slots : BeingListed(x)' <=> BeingListed(x) \/ x = r
        BY <2>4, <2>5 DEF BeingListed, CallerLists, ThreadLists
    <2> QED
        BY <1>1, <2>1, <2>2, <2>3, <2>6, <2>7, ListsGain DEF ListsHold
<1>3. CASE Cancelled(u, 1) /\ Goto(u, "wait") /\ UNCHANGED <<place, kid>>
    <2>1. \A s \in Slots : spc'[s] = spc[s] \/ (spc[s] = "made" /\ spc'[s] = "none")
        BY <1>n, <1>3, WholeTree, CancelledSlots
    <2>2. \A s \in Slots : RestStays(s) /\ (Runs(s)' <=> Runs(s))
        BY <1>1, <2>1 DEF RestStays, Runs
    <2>3. upc'[u] = "wait"
        BY <1>t, <1>3 DEF Goto, CallerTypes
    <2>4. \A v \in Users : JoinStays(v)
        BY <1>1, <2>3 DEF JoinStays, PoolInv, JoinsSleep
    <2>5. \A p \in Slots : \A x : ThreadLists(p, x)' <=> ThreadLists(p, x)
        <3> TAKE p \in Slots
        <3>1. spc'[p] = "list" <=> spc[p] = "list"
            BY <2>1
        <3> QED
            BY <1>1, <1>3, <3>1, KidListsStay
    <2>6. \A v \in Users : \A x : CallerLists(v, x)' <=> CallerLists(v, x)
        BY <1>1, <2>3 DEF CallerLists
    <2> QED
        BY <1>1, <2>2, <2>4, <2>5, <2>6, ListsStay DEF ListsHold
<1> QED
    BY <1>2, <1>3 DEF StartRoot

LEMMA ListRootLists ==
    ASSUME PoolInv, NEW u \in Users, ListRoot(u)
    PROVE  ListsHold'
<1>t. CallerTypes /\ RegionTypes
    BY DEF PoolInv, TypeOK
<1>0. PICK r : r = fresh[u][1]
    OBVIOUS
<1>1. /\ upc[u] = "list" /\ upc'[u] = "wait" /\ all' = <<r>> \o all
      /\ UNCHANGED <<idle, joins, fresh, spc, state, user, place, kid>>
      /\ \A v \in Users : v # u => upc'[v] = upc[v]
    BY <1>t, <1>0 DEF ListRoot, Goto, CallerTypes, region_vars, slot_vars
<1>2. r \in Slots
    <2>1. fresh[u] \in Seq(Slots) /\ fresh[u] # <<>>
        BY <1>t, <1>1 DEF PoolInv, TreeInv, RootMade, RegionTypes
    <2> QED
        BY <1>0, <2>1
<1>3. \A s \in Slots : RestStays(s) /\ (Runs(s)' <=> Runs(s))
    BY <1>1 DEF RestStays, Runs
<1>4. \A v \in Users : JoinStays(v)
    BY <1>1 DEF JoinStays, PoolInv, JoinsSleep
<1>5. \A p \in Slots : \A x : ThreadLists(p, x)' <=> ThreadLists(p, x)
    BY <1>1, KidListsStay
<1>6. CallerLists(u, r) /\ \A v \in Users : \A x : CallerLists(v, x)' <=> CallerLists(v, x) /\ v # u
    BY <1>0, <1>1 DEF CallerLists
<1>7. /\ \A v \in Users : v # u => ~CallerLists(v, r)
      /\ \A p \in Slots : ~ThreadLists(p, r)
    BY <1>2, <1>6 DEF PoolInv, OneLister
<1>8. BeingListed(r) /\ \A x \in Slots : BeingListed(x)' <=> BeingListed(x) /\ x # r
    <2>1. \A x : BeingListed(x)' <=> \/ \E v \in Users : CallerLists(v, x)'
                                     \/ \E p \in Slots : ThreadLists(p, x)'
        BY DEF BeingListed, CallerLists, ThreadLists
    <2>2. \A x : CallerLists(u, x) => x = r
        BY <1>0 DEF CallerLists
    <2> QED
        BY <1>5, <1>6, <1>7, <2>1, <2>2, Listers
<1>9. OneLister'
    BY <1>5, <1>6 DEF PoolInv, OneLister
<1> QED
    BY <1>1, <1>2, <1>3, <1>4, <1>8, <1>9, ListsMove DEF ListsHold

LEMMA StartKidLists ==
    ASSUME PoolInv, NEW s \in Slots, StartKid(s)
    PROVE  ListsHold'
<1>t. SlotTypes /\ RegionTypes
    BY DEF PoolInv, TypeOK
<1>0. PICK u, c, k : u = user[s] /\ c = Child(s) /\ k = fresh[u][c]
    OBVIOUS
<1>1. Booting(s) /\ spc[s] = "boot" /\ HasChild(s)
    BY DEF StartKid, Booting
<1>2. /\ u \in Users /\ c \in Nat \ {0} /\ k \in Slots /\ kid[s] \in {0, 1} /\ place[s] \in Nat \ {0}
      /\ UNCHANGED <<idle, all, joins, upc, fresh, state, user>>
    BY <1>t, <1>0, <1>1, ChildIsSlot DEF StartKid, user_vars, pool_vars, SlotTypes
<1>3. /\ \A v \in Users : JoinStays(v)
      /\ \A v \in Users : \A x : CallerLists(v, x)' <=> CallerLists(v, x)
    BY <1>2 DEF JoinStays, CallerLists
<1>a. \/ /\ spc[k] = "made" /\ spc' = [spc EXCEPT ![k] = "boot", ![s] = "list"]
         /\ place' = [place EXCEPT ![k] = c] /\ kid' = [kid EXCEPT ![k] = 0]
      \/ Cancelled(u, c) /\ kid' = [kid EXCEPT ![s] = @ + 1] /\ UNCHANGED place
    BY <1>0 DEF StartKid
<1>4. CASE /\ spc[k] = "made" /\ spc' = [spc EXCEPT ![k] = "boot", ![s] = "list"]
           /\ place' = [place EXCEPT ![k] = c] /\ kid' = [kid EXCEPT ![k] = 0]
    <2>1. /\ k # s /\ spc'[k] = "boot" /\ spc'[s] = "list" /\ place'[s] = place[s] /\ kid'[s] = kid[s]
          /\ \A x \in Slots : x \notin {k, s} => spc'[x] = spc[x] /\ place'[x] = place[x] /\ kid'[x] = kid[x]
        BY <1>t, <1>1, <1>2, <1>4 DEF SlotTypes
    <2>2. ~Runs(k) /\ Runs(k)' /\ \A x \in Slots : RestStays(x) /\ (x # k => (Runs(x)' <=> Runs(x)))
        BY <1>1, <1>2, <1>4, <2>1 DEF Runs, RestStays
    <2>3. \A x : ~ThreadLists(s, x) /\ (ThreadLists(s, x)' <=> x = k)
        BY <1>0, <1>1, <1>2, <2>1 DEF ThreadLists, Child
    <2>4. \A p \in Slots : p # s => \A x : ThreadLists(p, x)' <=> ThreadLists(p, x)
        <3> TAKE p \in Slots
        <3>1. p # s => (spc'[p] = "list" <=> spc[p] = "list") /\ (spc[p] = "list" => place'[p] = place[p] /\ kid'[p] = kid[p])
            BY <1>4, <2>1
        <3> QED
            BY <1>2, <3>1, KidListsStay
    <2>5. OneLister'
        BY <1>2, <1>3, <2>2, <2>3, <2>4, NotListed DEF PoolInv, OneLister
    <2>6. \A x \in Slots : BeingListed(x)' <=> BeingListed(x) \/ x = k
        <3>1. \A x : BeingListed(x)' <=> \/ \E v \in Users : CallerLists(v, x)'
                                         \/ \E p \in Slots : ThreadLists(p, x)'
            BY DEF BeingListed, CallerLists, ThreadLists
        <3> QED
            BY <1>3, <2>3, <2>4, <3>1, Listers
    <2> QED
        BY <1>2, <1>3, <2>2, <2>5, <2>6, ListsGain DEF ListsHold
<1>5. CASE Cancelled(u, c) /\ kid' = [kid EXCEPT ![s] = @ + 1] /\ UNCHANGED place
    <2>1. \A i \in Subtree(c, Len(fresh[u])) : Made(u, i)
        <3>1. Left(s) = Subtree(c, Len(fresh[u])) \cup Below(place[s], kid[s] + 1, Len(fresh[u]))
            <4>1. c = 2 * place[s] + kid[s] /\ Len(fresh[u]) \in Nat
                BY <1>t, <1>0, <1>2 DEF Child, RegionTypes
            <4> QED
                BY <1>0, <1>1, <1>2, <4>1, BelowParts DEF Left, FirstLeft
        <3> QED
            BY <1>0, <1>1, <3>1, LeftInTree
    <2>2. \A x \in Slots : spc'[x] = spc[x] \/ (spc[x] = "made" /\ spc'[x] = "none")
        BY <1>2, <1>5, <2>1, CancelledSlots
    <2>3. \A x \in Slots : RestStays(x) /\ (Runs(x)' <=> Runs(x))
        BY <1>2, <2>2 DEF RestStays, Runs
    <2>4. \A p \in Slots : \A x : ThreadLists(p, x)' <=> ThreadLists(p, x)
        <3> TAKE p \in Slots
        <3>1. (spc'[p] = "list" <=> spc[p] = "list") /\ (spc[p] = "list" => kid'[p] = kid[p])
            BY <1>t, <1>1, <1>5, <2>2 DEF SlotTypes
        <3> QED
            BY <1>2, <1>5, <3>1, KidListsStay
    <2> QED
        BY <1>2, <1>3, <2>3, <2>4, ListsStay DEF ListsHold
<1> QED
    BY <1>a, <1>4, <1>5

LEMMA ListKidLists ==
    ASSUME PoolInv, NEW s \in Slots, ListKid(s)
    PROVE  ListsHold'
<1>t. SlotTypes
    BY DEF PoolInv, TypeOK
<1>0. PICK r : r = fresh[user[s]][Child(s)]
    OBVIOUS
<1>1. /\ spc[s] = "list" /\ spc' = [spc EXCEPT ![s] = "boot"] /\ all' = <<r>> \o all
      /\ kid' = [kid EXCEPT ![s] = @ + 1]
      /\ UNCHANGED <<idle, joins, upc, fresh, state, user, place>>
    BY <1>0 DEF ListKid, user_vars, region_vars
<1>2. r \in Slots
    BY <1>0, <1>1, ChildIsSlot DEF Booting
<1>3. \A x \in Slots : RestStays(x) /\ (Runs(x)' <=> Runs(x))
    BY <1>t, <1>1 DEF RestStays, Runs, SlotTypes
<1>4. /\ \A v \in Users : JoinStays(v)
      /\ \A v \in Users : \A x : CallerLists(v, x)' <=> CallerLists(v, x)
    BY <1>1 DEF JoinStays, CallerLists
<1>5. ThreadLists(s, r) /\ \A x : ~ThreadLists(s, x)'
    BY <1>t, <1>0, <1>1 DEF ThreadLists, SlotTypes
<1>6. \A p \in Slots : p # s => \A x : ThreadLists(p, x)' <=> ThreadLists(p, x)
    <2> TAKE p \in Slots
    <2>1. p # s => spc'[p] = spc[p] /\ kid'[p] = kid[p]
        BY <1>t, <1>1 DEF SlotTypes
    <2> QED
        BY <1>1, <2>1, KidListsStay
<1>7. /\ \A p \in Slots : p # s => ~ThreadLists(p, r)
      /\ \A v \in Users : ~CallerLists(v, r)
    BY <1>2, <1>5 DEF PoolInv, OneLister
<1>8. BeingListed(r) /\ \A x \in Slots : BeingListed(x)' <=> BeingListed(x) /\ x # r
    <2>1. \A x : BeingListed(x)' <=> \/ \E v \in Users : CallerLists(v, x)'
                                     \/ \E p \in Slots : ThreadLists(p, x)'
        BY DEF BeingListed, CallerLists, ThreadLists
    <2>2. \A x : ThreadLists(s, x) => x = r
        BY <1>0 DEF ThreadLists
    <2> QED
        BY <1>4, <1>5, <1>6, <1>7, <2>1, <2>2, Listers
<1>9. OneLister'
    BY <1>4, <1>5, <1>6 DEF PoolInv, OneLister
<1> QED
    BY <1>1, <1>2, <1>3, <1>4, <1>8, <1>9, ListsMove DEF ListsHold

LEMMA MovesLists ==
    ASSUME PoolInv, NEW s \in Slots,
           BootDone(s) \/ Look(s) \/ Claim(s) \/ JobDone(s) \/ Park(s)
    PROVE  ListsHold'
<1>t. SlotTypes /\ Posted
    BY DEF PoolInv, TypeOK
<1>1. UNCHANGED <<idle, all, joins, upc, fresh, user>>
    BY DEF BootDone, Look, Claim, JobDone, Park, user_vars, region_vars, pool_vars
<1>2. \A x \in Slots : x # s => spc'[x] = spc[x] /\ state'[x] = state[x] /\ place'[x] = place[x] /\ kid'[x] = kid[x]
    BY <1>t DEF BootDone, Look, Claim, JobDone, Park, Parked, Step, SlotTypes
<1>3. RestStays(s) /\ (Runs(s)' <=> Runs(s)) /\ spc[s] # "list" /\ spc'[s] # "list"
    <2>1. CASE BootDone(s)
        BY <1>t, <2>1 DEF BootDone, Step, RestStays, Runs, SlotTypes
    <2>2. CASE Look(s)
        BY <1>t, <2>2 DEF Look, Woken, Step, RestStays, Runs, SlotTypes
    <2>3. CASE Claim(s) \/ JobDone(s)
        BY <1>t, <2>3 DEF Claim, JobDone, Step, RestStays, Runs, SlotTypes
    <2>4. CASE Park(s)
        BY <1>t, <2>4 DEF Park, Parked, Step, RestStays, Runs, SlotTypes
    <2> QED
        BY <2>1, <2>2, <2>3, <2>4
<1>4. \A x \in Slots : RestStays(x) /\ (Runs(x)' <=> Runs(x))
    <2>1. \A x \in Slots : x # s => RestStays(x) /\ (Runs(x)' <=> Runs(x))
        BY <1>2 DEF RestStays, Runs
    <2> QED
        BY <1>3, <2>1
<1>5. /\ \A v \in Users : JoinStays(v)
      /\ \A v \in Users : \A x : CallerLists(v, x)' <=> CallerLists(v, x)
    BY <1>1 DEF JoinStays, CallerLists
<1>6. \A p \in Slots : \A x : ThreadLists(p, x)' <=> ThreadLists(p, x)
    BY <1>1, <1>2, <1>3, KidListsStay
<1> QED
    BY <1>1, <1>4, <1>5, <1>6, ListsStay DEF ListsHold

\* A thread that parks is on the pool's list, and no caller joins it yet.
LEMMA PushLists ==
    ASSUME PoolInv, NEW s \in Slots, Push(s)
    PROVE  ListsHold'
<1>t. SlotTypes /\ Posted /\ idle \in Seq(Slots) /\ IdleSleeps /\ ListedOnce
    BY DEF PoolInv, TypeOK, PoolTypes
<1>1. /\ spc[s] = "push" /\ spc' = [spc EXCEPT ![s] = "look"] /\ idle' = <<s>> \o idle /\ state[s] = "idle"
      /\ UNCHANGED <<all, joins, upc, fresh, state, user, place, kid>>
    BY <1>t DEF Push, Step, user_vars, region_vars, Posted
<1>2. \A x \in Slots : x # s => spc'[x] = spc[x]
    BY <1>t, <1>1 DEF SlotTypes
<1>3. spc'[s] = "look" /\ \A x \in Slots : RestStays(x) /\ (Runs(x)' <=> Runs(x))
    BY <1>t, <1>1, <1>2 DEF RestStays, Runs, SlotTypes
<1>4. /\ \A v \in Users : JoinStays(v)
      /\ \A v \in Users : \A x : CallerLists(v, x)' <=> CallerLists(v, x)
    BY <1>1 DEF JoinStays, CallerLists
<1>5. \A p \in Slots : \A x : ThreadLists(p, x)' <=> ThreadLists(p, x)
    <2> TAKE p \in Slots
    <2>1. spc'[p] = "list" <=> spc[p] = "list"
        BY <1>1, <1>2, <1>3
    <2> QED
        BY <1>1, <2>1, KidListsStay
<1>6. \A x : BeingListed(x)' <=> BeingListed(x)
    BY <1>4, <1>5 DEF BeingListed, CallerLists, ThreadLists
<1>7. ListedOnce'
    <2>1. ToSet(all) \subseteq Slots /\ \A v \in Users : ToSet(joins[v]) \subseteq Slots
        BY InList DEF PoolInv, TypeOK, PoolTypes
    <2> QED
        BY <1>t, <1>1, <1>3, <1>6, <2>1 DEF ListedOnce, Joining
<1>8. OneLister'
    BY <1>4, <1>5 DEF PoolInv, OneLister
<1>9. JoinsSleep'
    BY <1>1, <1>3, <1>4, SleepsStay
<1>10. s \in ToSet(all) \/ BeingListed(s)
    <2>1. \A v \in Users : ~Joining(v, s)
        BY <1>1 DEF PoolInv, JoinsSleep, Joining
    <2> QED
        BY <1>t, <1>1, <2>1 DEF ListedOnce, Runs
<1>11. s \notin ToSet(idle) /\ ToSet(idle) \subseteq Slots
    BY <1>t, <1>1, InList DEF IdleSleeps
<1>12. ToSet(idle)' = ToSet(idle) \cup {s} /\ IsInjective(idle)'
    BY <1>t, <1>1, <1>11, ConsList DEF IdleSleeps
<1>13. IdleSleeps'
    BY <1>t, <1>1, <1>2, <1>3, <1>6, <1>10, <1>11, <1>12 DEF IdleSleeps
<1> QED
    BY <1>7, <1>8, <1>9, <1>13 DEF ListsHold

\* Opening the pool, closing it when others hold it, and the end of a close.
LEMMA OpenLists ==
    ASSUME PoolInv, NEW u \in Users, Retain(u) \/ Joined(u) \/ (ReleasePool(u) /\ ~LastHold)
    PROVE  ListsHold'
<1>t. CallerTypes
    BY DEF PoolInv, TypeOK
<1>1. UNCHANGED <<idle, all, joins, fresh, spc, state, user, place, kid>>
    BY DEF Retain, Joined, ReleasePool, pool_vars, slot_vars, region_vars
<1>2. /\ \A v \in Users : v # u => upc'[v] = upc[v]
      /\ upc[u] \in {"in", "out", "tell"} /\ upc'[u] \in {"in", "out"}
    BY <1>t DEF Retain, Joined, ReleasePool, Goto, CallerTypes
<1>3. joins[u] = <<>>
    BY DEF PoolInv, JoinsSleep, Retain, Joined, ReleasePool
<1>4. \A v \in Users : JoinStays(v)
    BY <1>2, <1>3 DEF JoinStays
<1>5. \A s \in Slots : RestStays(s) /\ (Runs(s)' <=> Runs(s))
    BY <1>1 DEF RestStays, Runs
<1>6. \A v \in Users : \A x : CallerLists(v, x)' <=> CallerLists(v, x)
    BY <1>1, <1>2 DEF CallerLists
<1>7. \A p \in Slots : \A x : ThreadLists(p, x)' <=> ThreadLists(p, x)
    BY <1>1, KidListsStay
<1> QED
    BY <1>1, <1>4, <1>5, <1>6, <1>7, ListsStay DEF ListsHold

\* The last close takes the pool's list when nothing runs that could add to it.
LEMMA ReleaseLists ==
    ASSUME closes' = "quiet", PoolInv, NEW u \in Users, ReleasePool(u), LastHold
    PROVE  ListsHold'
<1>t. CallerTypes /\ joins \in [Users -> Seq(Slots)] /\ ListedOnce /\ OneLister /\ JoinsSleep
    BY DEF PoolInv, TypeOK, PoolTypes
<1>1. /\ upc[u] = "in" /\ Settled
      /\ joins' = [joins EXCEPT ![u] = all] /\ all' = <<>> /\ idle' = <<>>
      /\ upc' = [upc EXCEPT ![u] = "tell"]
      /\ UNCHANGED <<fresh, spc, state, user, place, kid>>
    BY DEF ReleasePool, Goto, slot_vars, region_vars
<1>2. \A v \in Users : InRegion(v) => FALSE
    <2> TAKE v \in Users
    <2>1. InRegion(v) => v = u
        BY <1>1, LastAlone
    <2> QED
        BY <1>1, <2>1 DEF InRegion
<1>3. joins[u] = <<>>
    BY <1>t, <1>1 DEF JoinsSleep
<1>4. \A v \in Users : v # u => upc'[v] = upc[v] /\ joins'[v] = joins[v]
    BY <1>t, <1>1 DEF CallerTypes
<1>5. joins'[u] = all /\ upc'[u] = "tell"
    BY <1>t, <1>1 DEF CallerTypes
<1>6. \A v \in Users : \A x : ~CallerLists(v, x) /\ ~CallerLists(v, x)'
    BY <1>2, <1>4, <1>5 DEF CallerLists, InRegion
<1>7. \A p \in Slots : \A x : ~ThreadLists(p, x) /\ ~ThreadLists(p, x)'
    <2>1. \A p \in Slots : spc[p] # "list"
        BY <1>2, BootingInRegion DEF Booting
    <2> QED
        BY <1>1, <2>1 DEF ThreadLists
<1>8. \A x : ~BeingListed(x) /\ ~BeingListed(x)'
    <2>1. \A x : BeingListed(x)' <=> \/ \E v \in Users : CallerLists(v, x)'
                                     \/ \E p \in Slots : ThreadLists(p, x)'
        BY DEF BeingListed, CallerLists, ThreadLists
    <2> QED
        BY <1>6, <1>7, <2>1, Listers
<1>9. \A x : x \notin ToSet(all)' /\ x \notin ToSet(idle)'
    BY <1>1, EmptyList
<1>10. \A v \in Users : \A x : Joining(v, x)' <=> IF v = u THEN x \in ToSet(all) ELSE Joining(v, x)
    BY <1>4, <1>5 DEF Joining
<1>11. \A x : ~Joining(u, x)
    BY <1>3, EmptyList DEF Joining
<1>12. ListedOnce'
    <2>1. IsInjective(all)' /\ \A v \in Users : IsInjective(joins'[v])
        BY <1>t, <1>1, <1>4, <1>5, EmptyList DEF ListedOnce
    <2>2. \A s \in Slots : Runs(s)' <=> \E v \in Users : Joining(v, s)'
        <3> TAKE s \in Slots
        <3>1. Runs(s)' <=> Runs(s)
            BY <1>1 DEF Runs
        <3>2. Runs(s) <=> s \in ToSet(all) \/ \E v \in Users : Joining(v, s)
            BY <1>t, <1>8 DEF ListedOnce
        <3> QED
            BY <1>10, <1>11, <3>1, <3>2
    <2>3. \A v, w \in Users : \A s : Joining(v, s)' /\ Joining(w, s)' => v = w
        BY <1>t, <1>10 DEF ListedOnce, Joining
    <2> QED
        BY <1>8, <1>9, <2>1, <2>2, <2>3 DEF ListedOnce, Joining
<1>13. OneLister'
    BY <1>6, <1>7 DEF OneLister
<1>14. IdleSleeps'
    BY <1>1, <1>9, EmptyList DEF IdleSleeps
<1>15. JoinsSleep'
    <2> SUFFICES ASSUME NEW v \in Users
                 PROVE  /\ upc'[v] \notin {"tell", "join"} => joins'[v] = <<>>
                        /\ upc'[v] = "join" => joins'[v] # <<>>
                        /\ \A s \in ToSet(joins'[v]) :
                              IF upc'[v] = "join" /\ s = Head(joins'[v])
                              THEN state'[s] = "exit" /\ spc'[s] \in {"look", "exited"}
                              ELSE state'[s] = "idle" /\ spc'[s] = "look"
        BY DEF JoinsSleep
    <2>1. CASE v = u
        BY <1>1, <1>5, <2>1 DEF Settled
    <2>2. CASE v # u
        BY <1>t, <1>1, <1>4, <2>2 DEF JoinsSleep
    <2> QED
        BY <2>1, <2>2
<1> QED
    BY <1>12, <1>13, <1>14, <1>15 DEF ListsHold

\* A caller tells the head of its list to exit, or takes it off the list.
LEMMA JoinLists ==
    ASSUME PoolInv, NEW u \in Users, TellExit(u) \/ Join(u)
    PROVE  ListsHold'
<1>t. SlotTypes /\ CallerTypes /\ joins \in [Users -> Seq(Slots)] /\ ListedOnce /\ JoinsSleep /\ IdleSleeps
    BY DEF PoolInv, TypeOK, PoolTypes
<1>0. PICK h : h = Head(joins[u])
    OBVIOUS
<1>1. UNCHANGED <<idle, all, fresh, user, place, kid>>
    BY DEF TellExit, Join, pool_vars, region_vars
<1>2. /\ joins[u] # <<>> /\ IsInjective(joins[u]) /\ upc[u] \in {"tell", "join"} /\ upc'[u] \in {"tell", "join"}
      /\ \A v \in Users : v # u => upc'[v] = upc[v] /\ joins'[v] = joins[v]
    BY <1>t DEF TellExit, Join, Goto, CallerTypes, JoinsSleep, ListedOnce
<1>3. /\ h \in Slots /\ h \in ToSet(joins[u]) /\ Tail(joins[u]) \in Seq(Slots) /\ IsInjective(Tail(joins[u]))
      /\ ToSet(Tail(joins[u])) = ToSet(joins[u]) \ {h}
    BY <1>t, <1>0, <1>2, TailList
<1>4. /\ h \notin ToSet(all) /\ ~BeingListed(h) /\ h \notin ToSet(idle)
      /\ \A v \in Users : v # u => h \notin ToSet(joins[v])
    BY <1>t, <1>3 DEF ListedOnce, IdleSleeps, Joining
<1>5. spc[h] \in {"look", "exited"} /\ spc'[h] \in {"look", "none"}
    BY <1>t, <1>0, <1>3 DEF JoinsSleep, TellExit, Join, Step, SlotTypes
<1>6. \A s \in Slots : s # h => spc'[s] = spc[s] /\ state'[s] = state[s]
    BY <1>t, <1>0 DEF TellExit, Join, Step, SlotTypes
<1>7. \A v \in Users : \A x : CallerLists(v, x)' <=> CallerLists(v, x)
    BY <1>1, <1>2 DEF CallerLists
<1>8. \A p \in Slots : \A x : ThreadLists(p, x)' <=> ThreadLists(p, x)
    <2> TAKE p \in Slots
    <2>1. spc'[p] = "list" <=> spc[p] = "list"
        BY <1>5, <1>6
    <2> QED
        BY <1>1, <2>1, KidListsStay
<1>9. \A x : BeingListed(x)' <=> BeingListed(x)
    BY <1>7, <1>8 DEF BeingListed, CallerLists, ThreadLists
<1>10. OneLister'
    BY <1>7, <1>8 DEF PoolInv, OneLister
<1>11. ToSet(idle) \subseteq Slots /\ ToSet(all) \subseteq Slots /\ \A v \in Users : ToSet(joins[v]) \subseteq Slots
    BY InList DEF PoolInv, TypeOK, PoolTypes
<1>12. IdleSleeps'
    BY <1>t, <1>1, <1>4, <1>6, <1>9, <1>11 DEF IdleSleeps
<1>13. CASE TellExit(u)
    <2>1. joins' = joins /\ upc[u] = "tell" /\ upc'[u] = "join" /\ spc' = spc /\ state'[h] = "exit"
        BY <1>t, <1>0, <1>3, <1>13 DEF TellExit, Goto, CallerTypes, SlotTypes
    <2>2. ListedOnce'
        <3>1. \A x : Runs(x)' <=> Runs(x)
            BY <2>1 DEF Runs
        <3> QED
            BY <1>t, <1>1, <1>9, <2>1, <3>1 DEF ListedOnce, Joining
    <2>3. JoinsSleep'
        <3>1. spc[h] = "look"
            BY <1>t, <1>3, <2>1 DEF JoinsSleep
        <3> SUFFICES ASSUME NEW v \in Users
                     PROVE  /\ upc'[v] \notin {"tell", "join"} => joins[v] = <<>>
                            /\ upc'[v] = "join" => joins[v] # <<>>
                            /\ \A s \in ToSet(joins[v]) :
                                  IF upc'[v] = "join" /\ s = Head(joins[v])
                                  THEN state'[s] = "exit" /\ spc'[s] \in {"look", "exited"}
                                  ELSE state'[s] = "idle" /\ spc'[s] = "look"
            BY <2>1 DEF JoinsSleep
        <3>2. CASE v = u
            BY <1>t, <1>0, <1>2, <1>6, <1>11, <2>1, <3>1, <3>2 DEF JoinsSleep
        <3>3. CASE v # u
            <4>1. \A s \in ToSet(joins[v]) : s # h /\ s \in Slots
                BY <1>4, <1>11, <3>3
            <4> QED
                BY <1>t, <1>2, <1>6, <3>3, <4>1 DEF JoinsSleep
        <3> QED
            BY <3>2, <3>3
    <2> QED
        BY <1>10, <1>12, <2>2, <2>3 DEF ListsHold
<1>14. CASE Join(u)
    <2>1. joins'[u] = Tail(joins[u]) /\ upc[u] = "join" /\ upc'[u] = "tell" /\ spc'[h] = "none"
        BY <1>t, <1>0, <1>3, <1>14 DEF Join, Step, Goto, CallerTypes, SlotTypes
    <2>2. \A v \in Users : \A x : Joining(v, x)' <=> Joining(v, x) /\ x # h
        <3> TAKE v \in Users
        <3>1. CASE v = u
            BY <1>3, <2>1, <3>1 DEF Joining
        <3>2. CASE v # u
            BY <1>2, <1>4, <3>2 DEF Joining
        <3> QED
            BY <3>1, <3>2
    <2>3. \A x \in Slots : Runs(x)' <=> Runs(x) /\ x # h
        BY <1>6, <2>1 DEF Runs
    <2>4. ListedOnce'
        <3>1. IsInjective(all)' /\ \A v \in Users : IsInjective(joins'[v])
            BY <1>t, <1>1, <1>2, <1>3, <2>1 DEF ListedOnce
        <3>2. \A s \in Slots :
                  Runs(s)' <=> s \in ToSet(all)' \/ BeingListed(s)' \/ \E v \in Users : Joining(v, s)'
            BY <1>t, <1>1, <1>4, <1>9, <2>2, <2>3 DEF ListedOnce
        <3>3. \A s \in ToSet(all)' : ~BeingListed(s)' /\ \A v \in Users : ~Joining(v, s)'
            BY <1>t, <1>1, <1>9, <2>2 DEF ListedOnce
        <3>4. \A v \in Users : \A s : Joining(v, s)' => ~BeingListed(s)' /\ \A w \in Users : Joining(w, s)' => w = v
            BY <1>t, <1>9, <2>2 DEF ListedOnce, Joining
        <3> QED
            BY <3>1, <3>2, <3>3, <3>4 DEF ListedOnce, Joining
    <2>5. JoinsSleep'
        <3> SUFFICES ASSUME NEW v \in Users
                     PROVE  /\ upc'[v] \notin {"tell", "join"} => joins'[v] = <<>>
                            /\ upc'[v] = "join" => joins'[v] # <<>>
                            /\ \A s \in ToSet(joins'[v]) :
                                  IF upc'[v] = "join" /\ s = Head(joins'[v])
                                  THEN state'[s] = "exit" /\ spc'[s] \in {"look", "exited"}
                                  ELSE state'[s] = "idle" /\ spc'[s] = "look"
            BY DEF JoinsSleep
        <3>1. CASE v = u
            <4>1. \A s \in ToSet(joins'[v]) : s \in ToSet(joins[u]) /\ s # h /\ s \in Slots
                BY <1>3, <1>11, <2>1, <3>1
            <4> QED
                BY <1>t, <1>0, <1>6, <2>1, <3>1, <4>1 DEF JoinsSleep
        <3>2. CASE v # u
            <4>1. \A s \in ToSet(joins[v]) : s # h /\ s \in Slots
                BY <1>4, <1>11, <3>2
            <4> QED
                BY <1>t, <1>2, <1>6, <3>2, <4>1 DEF JoinsSleep
        <3> QED
            BY <3>1, <3>2
    <2> QED
        BY <1>10, <1>12, <2>4, <2>5 DEF ListsHold
<1> QED
    BY <1>13, <1>14

LEMMA ListsKeep == closes' = "quiet" /\ PoolInv /\ [Next]_vars => ListsHold'
<1> SUFFICES ASSUME closes' = "quiet", PoolInv, [Next]_vars PROVE ListsHold'
    OBVIOUS
<1>1. CASE UNCHANGED vars
    BY <1>1 DEF vars, user_vars, region_vars, slot_vars, pool_vars, ListsHold, PoolInv, ListedOnce, OneLister,
                IdleSleeps, JoinsSleep, Runs, Joining, BeingListed, CallerLists, ThreadLists, Child
<1> QED
    BY <1>1, RegionLists, TakeIdleLists, StartRootLists, ListRootLists, StartKidLists, ListKidLists, MovesLists,
       PushLists, OpenLists, ReleaseLists, JoinLists
    DEF Next, Finished, Region, Close, Thread

-----------------------------------------------------------------------------
(* The invariant, and what it says.                                        *)

LEMMA PoolInit == Init => PoolInv
<1> SUFFICES ASSUME Init PROVE PoolInv
    OBVIOUS
<1>1. /\ \A u \in Users : /\ upc[u] = "out" /\ pending[u] = 0 /\ next[u] = 0 /\ warm[u] = 0 /\ ~grown[u]
                          /\ fresh[u] = <<>> /\ joins[u] = <<>>
      /\ \A s \in Slots : spc[s] = "none" /\ state[s] = "idle" /\ user[s] \in Users
      /\ idle = <<>> /\ all = <<>> /\ holders = 0
    BY SpawnAssumption DEF Init
<1>2. TypeOK
    <2>1. CallerTypes
        BY DEF Init, CallerTypes, UserPCs
    <2>2. RegionTypes
        BY DEF Init, RegionTypes
    <2>3. SlotTypes
        BY SpawnAssumption DEF Init, SlotTypes, SlotPCs
    <2>4. PoolTypes
        BY DEF Init, PoolTypes
    <2> QED
        BY <2>1, <2>2, <2>3, <2>4 DEF TypeOK
<1>3. \A u \in Users : HeldBy(u) = {} /\ ToClaim(u) = {} /\ ToHandOut(u) = 0
    BY <1>1 DEF HeldBy, ToClaim, Holds, ToHandOut
<1>4. Counted
    <2> SUFFICES ASSUME NEW u \in Users PROVE CountIs(u)
        BY DEF Counted
    <2>1. Cardinality(HeldBy(u)) = 0 /\ Cardinality(ToClaim(u)) = 0
        BY <1>3, FS_EmptySet
    <2>2. Size[u] \in Nat /\ ran[u] = [c \in 1..Size[u] |-> 0]
        BY SpawnAssumption DEF Init
    <2> QED
        BY <1>1, <1>3, <2>1, <2>2 DEF CountIs
<1>5. \A u \in Users : CallerKnows(u)
    BY <1>1, <1>3 DEF CallerKnows, InRegion
<1>6. Posted
    BY <1>1 DEF Posted
<1>7. TreeInv
    BY <1>1, EmptyList DEF TreeInv, RootMade, KidsMade, LeftApart, Booting
<1>8. ListedOnce /\ OneLister
    <2>1. \A x : ~BeingListed(x) /\ (\A u \in Users : ~CallerLists(u, x)) /\ \A p \in Slots : ~ThreadLists(p, x)
        BY <1>1 DEF BeingListed, CallerLists, ThreadLists
    <2> QED
        BY <1>1, <2>1, EmptyList DEF ListedOnce, OneLister, Runs, Joining
<1>9. IdleSleeps /\ JoinsSleep
    BY <1>1, EmptyList DEF IdleSleeps, JoinsSleep
<1>10. HeldOpen
    <2>1. Holding = {}
        BY <1>1 DEF Holding, InRegion
    <2> QED
        BY <1>1, <2>1, FS_EmptySet DEF HeldOpen
<1> QED
    BY <1>2, <1>4, <1>5, <1>6, <1>7, <1>8, <1>9, <1>10 DEF PoolInv

LEMMA PoolStep == closes' = "quiet" /\ PoolInv /\ [Next]_vars => PoolInv'
<1> SUFFICES ASSUME closes' = "quiet", PoolInv, [Next]_vars PROVE PoolInv'
    OBVIOUS
<1>1. TypeOK' /\ Posted' /\ TreeInv' /\ HeldOpen'
    BY TypesKeep, PostedKeeps, TreeKeeps, HeldOpenKeeps
<1>2. Counted' /\ \A u \in Users : CallerKnows(u)'
    BY CountKeeps DEF Tally, Counted
<1>3. ListedOnce' /\ OneLister' /\ IdleSleeps' /\ JoinsSleep'
    BY ListsKeep DEF ListsHold
<1> QED
    BY <1>1, <1>2, <1>3 DEF PoolInv

LEMMA PoolOutlives == PoolInv => RegionOutlivesItsThreads
<1> SUFFICES ASSUME PoolInv PROVE RegionOutlivesItsThreads
    OBVIOUS
<1>1. ASSUME NEW s \in Slots, Booting(s) \/ \E u \in Users : Holds(s, u) PROVE InRegion(user[s])
    <2>1. CASE Booting(s)
        BY <2>1, BootingInRegion
    <2>2. CASE \E u \in Users : Holds(s, u)
        BY <2>2, HolderInRegion DEF Holds
    <2> QED
        BY <1>1, <2>1, <2>2
<1>2. ASSUME NEW u \in Users
      PROVE  /\ pending[u] = (IF upc[u] \in {"take", "grow"} THEN Size[u] - warm[u] ELSE 0)
                                + Cardinality({s \in Slots : Holds(s, u)})
             /\ next[u] <= Size[u]
             /\ \A k \in DOMAIN ran[u] : ran[u][k] <= 1
    <2>1. pending[u] = (IF upc[u] \in {"take", "grow"} THEN Size[u] - warm[u] ELSE 0)
                          + Cardinality({s \in Slots : Holds(s, u)})
        BY CountHas DEF ToHandOut, HeldBy
    <2>2. next[u] <= Size[u]
        BY CountHas
    <2>3. DOMAIN ran[u] = 1..Size[u]
        BY DEF PoolInv, TypeOK, RegionTypes
    <2> QED
        BY <2>1, <2>2, <2>3, CountHas
<1> QED
    BY <1>1, <1>2 DEF RegionOutlivesItsThreads

LEMMA PoolLists == PoolInv => ListsHoldTheThreads
<1> SUFFICES ASSUME PoolInv PROVE ListsHoldTheThreads
    OBVIOUS
<1>1. ASSUME holders = 0, NEW s \in Slots, Live(s) PROVE \E u \in Users : s \in ToSet(joins[u])
    <2>1. \A u \in Users : ~InRegion(u)
        BY <1>1, OpenHolds
    <2>2. user[s] \in Users
        BY DEF PoolInv, TypeOK, SlotTypes
    <2>3. Runs(s)
        <3>1. spc[s] = "made" => Holds(s, user[s])
            BY DEF Holds
        <3> QED
            BY <1>1, <2>1, <2>2, <3>1, HolderInRegion DEF Runs, Live
    <2>4. s \notin ToSet(all)
        BY <1>1, EmptyList DEF PoolInv, HeldOpen
    <2>5. ~BeingListed(s)
        <3>1. \A u \in Users : ~CallerLists(u, s)
            BY <2>1 DEF CallerLists, InRegion
        <3>2. \A p \in Slots : ~ThreadLists(p, s)
            BY <2>1, BootingInRegion DEF ThreadLists, Booting
        <3> QED
            BY <3>1, <3>2, Listers
    <2> QED
        BY <2>3, <2>4, <2>5 DEF PoolInv, ListedOnce, Joining
<1> QED
    BY <1>1 DEF PoolInv, IdleSleeps, ListsHoldTheThreads

-----------------------------------------------------------------------------
(* An early close, and the threads it finds on their way.                  *)

\* The closer is alone, and so no job is out.
LEMMA EarlyClose ==
    ASSUME PoolInv, NEW u \in Users, ReleasePool(u), LastHold
    PROVE  EarlyInv'
<1>t. CallerTypes /\ SlotTypes /\ PoolTypes /\ RegionTypes
    BY DEF PoolInv, TypeOK
<1>1. /\ upc[u] = "in" /\ holders = 1
      /\ joins' = [joins EXCEPT ![u] = all] /\ idle' = <<>>
      /\ upc' = [upc EXCEPT ![u] = "tell"]
      /\ holders' = holders - 1
      /\ UNCHANGED <<pending, next, ran, spc, state, user>>
    BY DEF ReleasePool, LastHold, Goto, slot_vars, region_vars
<1>2. \A v \in Users : ~InRegion(v) /\ (upc[v] = "in" => v = u)
    BY <1>1, LastAlone DEF InRegion
<1>3. \A s \in Slots : ~Booting(s) /\ \A v \in Users : ~Holds(s, v)
    <2> TAKE s \in Slots
    <2>1. user[s] \in Users
        BY <1>t DEF SlotTypes
    <2> QED
        BY <1>2, <2>1, BootingInRegion, HolderInRegion DEF Holds
<1>4. EarlyTypes'
    BY <1>t, <1>1 DEF CallerTypes, SlotTypes, PoolTypes, EarlyTypes, UserPCs
<1>5. ASSUME NEW v \in Users PROVE EarlyUser(v)'
    <2>1. HeldBy(v) = {} /\ ToHandOut(v) = 0
        BY <1>2, <1>3 DEF HeldBy, ToHandOut, InRegion
    <2>2. pending[v] = 0 /\ next[v] <= Size[v] /\ \A k \in DOMAIN ran[v] : ran[v][k] <= 1
        <3>1. DOMAIN ran[v] = 1..Size[v]
            BY <1>t DEF RegionTypes
        <3>2. Cardinality(HeldBy(v)) = 0
            BY <2>1, FS_EmptySet
        <3>3. pending[v] = ToHandOut(v) + Cardinality(HeldBy(v))
            BY CountHas
        <3>4. next[v] <= Size[v] /\ \A k \in 1..Size[v] : ran[v][k] <= 1
            BY CountHas
        <3> QED
            BY <2>1, <3>1, <3>2, <3>3, <3>4
    <2>3. upc[v] \in UserPCs
        BY <1>t DEF CallerTypes
    <2>4. v # u => upc'[v] = upc[v] /\ joins'[v] = joins[v] /\ upc[v] \in {"out", "tell", "join"}
        BY <1>t, <1>1, <1>2, <2>3 DEF InRegion, UserPCs, CallerTypes, PoolTypes
    <2>5. v = u => upc'[v] = "tell"
        BY <1>t, <1>1 DEF CallerTypes
    <2>6. upc[v] = "join" => joins[v] # <<>>
        BY DEF PoolInv, JoinsSleep
    <2> QED
        BY <1>1, <2>2, <2>4, <2>5, <2>6 DEF EarlyUser
<1>6. ASSUME NEW s \in Slots PROVE EarlySlot(s)'
    <2>1. spc[s] \in SlotPCs /\ user[s] \in Users
        BY <1>t DEF SlotTypes
    <2>2. /\ spc[s] \in {"none", "look", "park", "push", "exited"}
          /\ spc[s] = "look" => state[s] # "posted"
        BY <1>3, <2>1 DEF Holds, SlotPCs
    <2>3. spc[s] = "push" => state[s] # "posted"
        BY DEF PoolInv, Posted
    <2>4. ~BeingListed(s)
        BY <1>2, <1>3 DEF BeingListed, InRegion, Booting
    <2>5. Live(s) => s \in ToSet(all) \/ \E v \in Users : Joining(v, s)
        BY <2>2, <2>4 DEF PoolInv, ListedOnce, Runs, Live
    <2>6. Joining(u, s)' <=> s \in ToSet(all)
        BY <1>t, <1>1 DEF Joining, PoolTypes
    <2>7. \A v \in Users : v # u => (Joining(v, s)' <=> Joining(v, s))
        BY <1>t, <1>1 DEF Joining, PoolTypes
    <2>8. ~Joining(u, s)
        <3>1. joins[u] = <<>>
            BY <1>1 DEF PoolInv, JoinsSleep
        <3> QED
            BY <3>1, EmptyList DEF Joining
    <2>9. Live(s)' => \E v \in Users : Joining(v, s)'
        BY <1>1, <2>5, <2>6, <2>7, <2>8 DEF Live
    <2> QED
        BY <1>1, <2>2, <2>3, <2>9 DEF EarlySlot
<1> QED
    BY <1>1, <1>4, <1>5, <1>6, EmptyList DEF EarlyInv

LEMMA EarlyStays ==
    ASSUME EarlyInv, [Next]_vars, closes' = "early"
    PROVE  EarlyInv'
<1>t. EarlyTypes
    BY DEF EarlyInv
<1>i. /\ \A u \in Users : EarlyUser(u)
      /\ \A s \in Slots : EarlySlot(s)
      /\ holders = 0 /\ IsInjective(idle) /\ \A s \in ToSet(idle) : ~Returning(s)
    BY DEF EarlyInv
<1>1. ASSUME NEW u \in Users, TellExit(u) PROVE EarlyInv'
    <2>1. /\ joins[u] # <<>> /\ state' = [state EXCEPT ![Head(joins[u])] = "exit"]
          /\ upc' = [upc EXCEPT ![u] = "join"]
          /\ UNCHANGED <<pending, next, ran, spc, user, idle, holders, joins>>
        BY <1>1 DEF TellExit, Goto, region_vars, pool_vars
    <2>2. EarlyTypes'
        BY <1>t, <2>1 DEF EarlyTypes, UserPCs
    <2>3. \A v \in Users : EarlyUser(v)'
        BY <1>t, <1>i, <2>1 DEF EarlyUser, EarlyTypes
    <2>4. \A s \in Slots : EarlySlot(s)'
        BY <1>t, <1>i, <2>1 DEF EarlySlot, EarlyTypes, Live, Joining
    <2> QED
        BY <1>i, <2>1, <2>2, <2>3, <2>4 DEF EarlyInv, Returning
<1>2. ASSUME NEW u \in Users, Join(u) PROVE EarlyInv'
    <2> DEFINE x == Head(joins[u])
    <2>1. /\ upc[u] = "join" /\ spc[x] = "exited" /\ spc' = [spc EXCEPT ![x] = "none"]
          /\ joins' = [joins EXCEPT ![u] = Tail(@)] /\ upc' = [upc EXCEPT ![u] = "tell"]
          /\ UNCHANGED <<pending, next, ran, state, user, idle, holders>>
        BY <1>2 DEF Join, Step, Goto, region_vars, pool_vars
    <2>2. joins[u] \in Seq(Slots) /\ joins[u] # <<>>
        BY <1>t, <1>i, <2>1 DEF EarlyTypes, EarlyUser
    <2>3. /\ x \in Slots /\ Tail(joins[u]) \in Seq(Slots)
          /\ \A s \in ToSet(joins[u]) : s # x => s \in ToSet(Tail(joins[u]))
        BY <2>2, TailList
    <2> HIDE DEF x
    <2>4. EarlyTypes'
        BY <1>t, <2>1, <2>3 DEF EarlyTypes, UserPCs, SlotPCs
    <2>5. \A v \in Users : EarlyUser(v)'
        BY <1>t, <1>i, <2>1 DEF EarlyUser, EarlyTypes
    <2>6. ASSUME NEW s \in Slots PROVE EarlySlot(s)'
        <3>1. EarlySlot(s)
            BY <1>i
        <3>2. s # x => spc'[s] = spc[s]
            BY <1>t, <2>1 DEF EarlyTypes
        <3>3. spc'[x] = "none"
            BY <1>t, <2>1, <2>3 DEF EarlyTypes
        <3>4. \A v \in Users : s # x /\ Joining(v, s) => Joining(v, s)'
            BY <1>t, <2>1, <2>3 DEF Joining, EarlyTypes
        <3> QED
            BY <2>1, <3>1, <3>2, <3>3, <3>4 DEF EarlySlot, Live
    <2>7. \A s \in Slots : Returning(s)' => Returning(s)
        BY <1>t, <2>1 DEF EarlyTypes, Returning
    <2>8. ToSet(idle) \subseteq Slots
        BY <1>t, InList DEF EarlyTypes
    <2> QED
        BY <1>i, <2>1, <2>4, <2>5, <2>6, <2>7, <2>8 DEF EarlyInv
<1>3. ASSUME NEW u \in Users, Joined(u) PROVE EarlyInv'
    <2>1. /\ upc' = [upc EXCEPT ![u] = "out"]
          /\ UNCHANGED <<pending, next, ran, spc, state, user, idle, holders, joins>>
        BY <1>3 DEF Joined, Goto, region_vars, slot_vars, pool_vars
    <2>2. EarlyTypes'
        BY <1>t, <2>1 DEF EarlyTypes, UserPCs
    <2>3. \A v \in Users : EarlyUser(v)'
        BY <1>t, <1>i, <2>1 DEF EarlyUser, EarlyTypes
    <2>4. \A s \in Slots : EarlySlot(s)'
        BY <1>i, <2>1 DEF EarlySlot, Live, Joining
    <2> QED
        BY <1>i, <2>1, <2>2, <2>3, <2>4 DEF EarlyInv, Returning
<1>4. ASSUME NEW s \in Slots, Look(s) \/ Park(s) PROVE EarlyInv'
    <2>1. /\ UNCHANGED <<upc, pending, next, ran, user, idle, holders, joins>>
          /\ \E to \in SlotPCs : spc' = [spc EXCEPT ![s] = to]
          /\ state' = state \/ state' = [state EXCEPT ![s] = "idle"]
        BY <1>4 DEF Look, Park, Step, Parked, SlotPCs, user_vars, region_vars, pool_vars
    <2>2. EarlyTypes'
        BY <1>t, <2>1 DEF EarlyTypes
    <2>3. \A v \in Users : EarlyUser(v)'
        BY <1>i, <2>1 DEF EarlyUser
    <2>4. \A x \in Slots : x # s => spc'[x] = spc[x] /\ state'[x] = state[x]
        BY <1>t, <2>1 DEF EarlyTypes
    <2>5. /\ Live(s)
          /\ \/ spc[s] = "look" /\ state[s] # "idle" /\ state' = state
                 /\ spc'[s] = (IF state[s] = "exit" THEN "exited" ELSE "job")
             \/ spc[s] = "park" /\ spc'[s] = "push" /\ state'[s] = "idle"
        BY <1>t, <1>4 DEF Look, Park, Step, Parked, Woken, EarlyTypes, Live
    <2>6. EarlySlot(s)
        BY <1>i
    <2>7. EarlySlot(s)'
        <3>1. state[s] \in {"idle", "posted", "exit"}
            BY <1>t DEF EarlyTypes
        <3>2. \E u \in Users : Joining(u, s)'
            BY <2>1, <2>5, <2>6 DEF EarlySlot, Joining
        <3> QED
            BY <2>5, <2>6, <3>1, <3>2 DEF EarlySlot
    <2>8. ASSUME NEW x \in Slots PROVE EarlySlot(x)'
        BY <1>i, <2>1, <2>4, <2>7, <2>8 DEF EarlySlot, Live, Joining
    <2>9. ToSet(idle) \subseteq Slots
        BY <1>t, InList DEF EarlyTypes
    <2>10. \A x \in ToSet(idle) : ~Returning(x)'
        BY <1>i, <2>4, <2>5, <2>9 DEF Returning
    <2> QED
        BY <1>i, <2>1, <2>2, <2>3, <2>8, <2>10 DEF EarlyInv
<1>5. ASSUME NEW s \in Slots, Push(s) PROVE EarlyInv'
    <2>1. /\ spc[s] = "push" /\ spc' = [spc EXCEPT ![s] = "look"]
          /\ idle' = <<s>> \o idle
          /\ UNCHANGED <<upc, pending, next, ran, state, user, holders, joins>>
        BY <1>5 DEF Push, Step, user_vars, region_vars
    <2>2. idle \in Seq(Slots)
        BY <1>t DEF EarlyTypes
    <2>3. s \notin ToSet(idle)
        BY <1>i, <2>1 DEF Returning
    <2>4. /\ idle' \in Seq(Slots) /\ ToSet(idle') = {s} \cup ToSet(idle)
          /\ IsInjective(idle')
        BY <1>i, <2>1, <2>2, <2>3, ConsList
    <2>5. EarlyTypes'
        BY <1>t, <2>1, <2>4 DEF EarlyTypes, SlotPCs
    <2>6. \A v \in Users : EarlyUser(v)'
        BY <1>i, <2>1 DEF EarlyUser
    <2>7. \A x \in Slots : spc'[x] = (IF x = s THEN "look" ELSE spc[x])
        BY <1>t, <2>1 DEF EarlyTypes
    <2>8. \A x \in Slots : EarlySlot(x)'
        BY <1>i, <2>1, <2>7 DEF EarlySlot, Live, Joining
    <2>9. ToSet(idle) \subseteq Slots
        BY <2>2, InList
    <2>10. \A x \in ToSet(idle') : ~Returning(x)'
        BY <1>i, <2>4, <2>7, <2>9 DEF Returning
    <2> QED
        BY <1>i, <2>1, <2>4, <2>5, <2>6, <2>8, <2>10 DEF EarlyInv
<1>6. CASE UNCHANGED vars
    BY <1>6 DEF vars, user_vars, region_vars, slot_vars, pool_vars, EarlyInv, EarlyTypes, EarlyUser, EarlySlot,
                Returning, Live, Joining
<1>7. ASSUME NEW u \in Users, Retain(u) \/ Enter(u) \/ Region(u) \/ ReleasePool(u) PROVE FALSE
    <2>1. upc[u] \in {"out", "tell", "join"}
        BY <1>i DEF EarlyUser
    <2> QED
        BY <1>7, <2>1 DEF Retain, Enter, Region, ReleasePool, TakeIdle, TakenAll, Grow, StartRoot, ListRoot, Leave
<1>8. ASSUME NEW s \in Slots, StartKid(s) \/ ListKid(s) \/ BootDone(s) \/ Claim(s) \/ JobDone(s)
      PROVE  FALSE
    <2>1. spc[s] \in {"none", "look", "park", "push", "exited"}
        BY <1>i DEF EarlySlot
    <2> QED
        BY <1>8, <2>1 DEF StartKid, ListKid, BootDone, Claim, JobDone, Step
<1> QED
    BY <1>1, <1>2, <1>3, <1>4, <1>5, <1>6, <1>7, <1>8 DEF Next, Finished, Close, Thread

\* What a step does to the history.
LEMMA ClosesMove ==
    ASSUME [Next]_vars, closes \in {"quiet", "early", "reopened"}
    PROVE  /\ closes' \in {"quiet", "early", "reopened"}
           /\ closes' = "quiet" => closes = "quiet"
           /\ closes' = "early" =>
                 closes = "early" \/ (closes = "quiet" /\ \E u \in Users : ReleasePool(u) /\ LastHold)
    BY DEF Next, Finished, Region, Close, Thread, Retain, Enter, TakeIdle, TakenAll, Grow, StartRoot, ListRoot, Leave,
           ReleasePool, TellExit, Join, Joined, StartKid, ListKid, BootDone, Look, Claim, JobDone, Park, Push, vars

LEMMA EarlySays == EarlyInv /\ closes = "early" => RegionOutlivesItsThreads /\ ListsHoldTheThreads
<1> SUFFICES ASSUME EarlyInv, closes = "early" PROVE RegionOutlivesItsThreads /\ ListsHoldTheThreads
    OBVIOUS
<1>1. \A s \in Slots : ~Booting(s) /\ \A u \in Users : ~Holds(s, u)
    BY DEF EarlyInv, EarlySlot, Booting, Holds
<1>2. ASSUME NEW u \in Users
      PROVE  pending[u] = (IF upc[u] \in {"take", "grow"} THEN Size[u] - warm[u] ELSE 0)
                              + Cardinality({s \in Slots : Holds(s, u)})
    <2>1. {s \in Slots : Holds(s, u)} = {}
        BY <1>1
    <2>2. upc[u] \notin {"take", "grow"} /\ pending[u] = 0
        BY DEF EarlyInv, EarlyUser
    <2> QED
        BY <2>1, <2>2, FS_EmptySet
<1>3. RegionOutlivesItsThreads
    BY <1>1, <1>2 DEF RegionOutlivesItsThreads, EarlyInv, EarlyUser
<1> QED
    BY <1>3 DEF ListsHoldTheThreads, EarlyInv, EarlySlot, Joining

\* PoolInv while every last close waits for the threads to be idle, EarlyInv from
\* one that does not to the next opening.
THEOREM ClosesAlways == Spec => []ClosesInv
<1>1. Init => ClosesInv
    BY PoolInit DEF Init, ClosesInv
<1>2. ClosesInv /\ [Next]_vars => ClosesInv'
    <2> SUFFICES ASSUME ClosesInv, [Next]_vars PROVE ClosesInv'
        OBVIOUS
    <2>1. /\ closes' \in {"quiet", "early", "reopened"}
          /\ closes' = "quiet" => PoolInv
          /\ closes' = "early" => EarlyInv \/ (PoolInv /\ \E u \in Users : ReleasePool(u) /\ LastHold)
        BY ClosesMove DEF ClosesInv
    <2>2. closes' = "quiet" => PoolInv'
        BY <2>1, PoolStep
    <2>3. closes' = "early" => EarlyInv'
        BY <2>1, EarlyStays, EarlyClose
    <2> QED
        BY <2>1, <2>2, <2>3 DEF ClosesInv
<1> QED
    BY <1>1, <1>2, PTL DEF Spec

LEMMA ClosesSay == ClosesInv => RegionOutlivesItsThreads /\ ListsHoldTheThreads
<1> SUFFICES ASSUME ClosesInv PROVE RegionOutlivesItsThreads /\ ListsHoldTheThreads
    OBVIOUS
<1>1. CASE closes = "quiet"
    BY <1>1, PoolOutlives, PoolLists DEF ClosesInv
<1>2. CASE closes = "early"
    BY <1>2, EarlySays DEF ClosesInv
<1>3. CASE closes = "reopened"
    BY <1>3 DEF RegionOutlivesItsThreads, ListsHoldTheThreads
<1> QED
    BY <1>1, <1>2, <1>3 DEF ClosesInv

\* No thread runs a job of a region whose caller left it, nor walks its array of
\* new slots: the count the caller waits on is of the jobs still out, whichever
\* threads fail to start, and each job claims a context that is there, once.
\* Whenever the pool is closed, until a context is opened on an early close.
THEOREM RegionsAreOutlived == Spec => []RegionOutlivesItsThreads
    BY ClosesAlways, ClosesSay, PTL

\* The idle list has threads of the pool that sleep, each once, up to an early
\* close; and when nobody holds the pool every thread there is, is on the list of
\* the one that joins it, after an early close too.
THEOREM ListsAreWhole == Spec => []ListsHoldTheThreads
    BY ClosesAlways, ClosesSay, PTL
=============================================================================

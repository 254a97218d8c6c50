------------------------------- MODULE DataLemmas -------------------------------
(***************************************************************************)
(* What the library's recursive functions compute, for every argument.     *)
(* SumFunctionOnSet (Functions) over a finite set: the accounts of the     *)
(* models are such sums.  FlattenSeq (SequencesExt): the order of a lane,  *)
(* the plan of a run, the units of a scatter are such sequences.  Induction*)
(* is on cardinality or length, by the least counterexample.               *)
(***************************************************************************)
EXTENDS Integers, FiniteSets, Functions, SequencesExt, FiniteSetTheorems, SequenceTheorems, WellFoundedInduction, TLAPS

Pick(s) == CHOOSE x \in s : TRUE
SumStep(f, g, s) == IF s = {} THEN 0 ELSE f[Pick(s)] + g[s \ {Pick(s)}]

\* The recursive function that a sum over S is the last value of.
PartialSums(f, S) == CHOOSE g : g = [s \in SUBSET S |-> SumStep(f, g, s)]

\* The subsets of S of at most n elements.
UpTo(n, S) == {s \in SUBSET S : Cardinality(s) <= n}

\* The recursion has a solution on those.
Solvable(f, S, n) == \E g : g = [s \in UpTo(n, S) |-> SumStep(f, g, s)]

SumOver(f, S) == SumFunctionOnSet(f, S)

-----------------------------------------------------------------------------
\* A set of naturals has a least element.
LEMMA LeastNat ==
    ASSUME NEW T, T \subseteq Nat, T # {}
    PROVE  \E n \in T : \A m \in T : n <= m
  <1>1. IsWellFoundedOn(OpToRel(<, Nat), Nat)
    BY NatLessThanWellFounded
  <1>2. PICK n \in T : \A m \in T : ~ (<<m, n>> \in OpToRel(<, Nat))
    BY <1>1, WFMin
  <1>3. \A m \in T : ~ (m < n)
    BY <1>2 DEF OpToRel
  <1> QED
    BY <1>3

\* Of some subsets of a finite set, one is smallest.
LEMMA SmallestSubset ==
    ASSUME NEW S, IsFiniteSet(S), NEW Q \in SUBSET SUBSET S, Q # {}
    PROVE  \E T \in Q : \A U \in Q : Cardinality(T) <= Cardinality(U)
  <1>1. \A T \in Q : Cardinality(T) \in Nat
    BY FS_Subset, FS_CardinalityType
  <1> DEFINE sizes == {Cardinality(T) : T \in Q}
  <1>2. sizes \subseteq Nat /\ sizes # {}
    BY <1>1
  <1>3. PICK n \in sizes : \A m \in sizes : n <= m
    BY <1>2, LeastNat
  <1>4. PICK T \in Q : n = Cardinality(T)
    OBVIOUS
  <1> QED
    BY <1>3, <1>4

\* Taking an element out of a finite set leaves one less.
LEMMA Without ==
    ASSUME NEW S, IsFiniteSet(S), NEW x \in S
    PROVE  /\ IsFiniteSet(S \ {x}) /\ S \ {x} \in SUBSET S
           /\ Cardinality(S) \in Nat /\ Cardinality(S \ {x}) \in Nat
           /\ Cardinality(S \ {x}) = Cardinality(S) - 1
  BY FS_RemoveElement, FS_CardinalityType

\* A set that is not empty has its pick.
LEMMA PickIn == \A s : s # {} => Pick(s) \in s
  BY DEF Pick

\* The recursion has a solution on the subsets of every size.
LEMMA PartialUpTo ==
    ASSUME NEW S, IsFiniteSet(S), NEW f
    PROVE  \A n \in Nat : Solvable(f, S, n)
  <1> DEFINE none == {n \in Nat : ~ Solvable(f, S, n)}
  <1> SUFFICES ASSUME none # {} PROVE FALSE
    OBVIOUS
  <1>1. PICK n \in none : \A m \in none : n <= m
    BY LeastNat
  <1>2. \A s \in SUBSET S : IsFiniteSet(s) /\ Cardinality(s) \in Nat
    BY FS_Subset, FS_CardinalityType
  <1>3. CASE n = 0
    <2>1. \A s \in UpTo(0, S) : s = {}
      BY <1>2, FS_EmptySet DEF UpTo
    <2> DEFINE g == [s \in UpTo(0, S) |-> 0]
    <2>2. g = [s \in UpTo(0, S) |-> SumStep(f, g, s)]
      BY <2>1 DEF SumStep
    <2> QED
      BY <1>1, <1>3, <2>2 DEF Solvable
  <1>4. CASE n # 0
    <2>1. n - 1 \in Nat /\ n - 1 \notin none
      BY <1>1, <1>4
    <2>2. PICK g : g = [s \in UpTo(n - 1, S) |-> SumStep(f, g, s)]
      BY <2>1 DEF Solvable
    <2> DEFINE h == [s \in UpTo(n, S) |-> SumStep(f, g, s)]
    <2>3. ASSUME NEW s \in UpTo(n, S), s # {} PROVE s \ {Pick(s)} \in UpTo(n - 1, S) \cap UpTo(n, S)
      <3>1. s \in SUBSET S /\ Cardinality(s) <= n /\ Pick(s) \in s
        BY <2>3, PickIn DEF UpTo
      <3> QED
        BY <1>2, <3>1, Without DEF UpTo
    <2>4. \A s \in UpTo(n - 1, S) \cap UpTo(n, S) : h[s] = g[s]
      BY <2>2
    <2>5. \A s \in UpTo(n, S) : SumStep(f, g, s) = SumStep(f, h, s)
      BY <2>3, <2>4 DEF SumStep
    <2>6. h = [s \in UpTo(n, S) |-> SumStep(f, h, s)]
      BY <2>5
    <2> QED
      BY <1>1, <2>6 DEF Solvable
  <1> QED
    BY <1>3, <1>4

\* Hence on all of them.
LEMMA PartialIs ==
    ASSUME NEW S, IsFiniteSet(S), NEW f
    PROVE  \A s \in SUBSET S : PartialSums(f, S)[s] = SumStep(f, PartialSums(f, S), s)
  <1>1. PICK n \in Nat : n = Cardinality(S)
    BY FS_CardinalityType
  <1>2. UpTo(n, S) = SUBSET S
    BY <1>1, FS_Subset DEF UpTo
  <1>3. Solvable(f, S, n)
    BY PartialUpTo
  <1>4. \E g : g = [s \in SUBSET S |-> SumStep(f, g, s)]
    BY <1>2, <1>3 DEF Solvable
  <1>5. PartialSums(f, S) = [s \in SUBSET S |-> SumStep(f, PartialSums(f, S), s)]
    BY <1>4 DEF PartialSums
  <1> HIDE DEF PartialSums
  <1> QED
    BY <1>5

\* It does not depend on the set it is taken within.
LEMMA PartialSame ==
    ASSUME NEW S, IsFiniteSet(S), NEW T \in SUBSET S, NEW f
    PROVE  \A s \in SUBSET T : PartialSums(f, S)[s] = PartialSums(f, T)[s]
  <1> DEFINE differ == {s \in SUBSET T : PartialSums(f, S)[s] # PartialSums(f, T)[s]}
  <1> SUFFICES ASSUME differ # {} PROVE FALSE
    OBVIOUS
  <1>1. IsFiniteSet(T)
    BY FS_Subset
  <1>2. PICK s \in differ : \A u \in differ : Cardinality(s) <= Cardinality(u)
    BY <1>1, SmallestSubset
  <1>3. PartialSums(f, S)[s] = SumStep(f, PartialSums(f, S), s) /\ PartialSums(f, T)[s] = SumStep(f, PartialSums(f, T), s)
    BY <1>1, PartialIs
  <1>4. s # {}
    BY <1>3 DEF SumStep
  <1>5. Pick(s) \in s /\ IsFiniteSet(s)
    BY <1>1, <1>4, PickIn, FS_Subset
  <1>6. s \ {Pick(s)} \notin differ
    BY <1>2, <1>5, Without
  <1> QED
    BY <1>3, <1>4, <1>6 DEF SumStep

-----------------------------------------------------------------------------
\* A sum is what the recursion comes to.
LEMMA SumIsPartial == \A f, S : SumOver(f, S) = PartialSums(f, S)[S]
  BY DEF SumOver, SumFunctionOnSet, FoldFunctionOnSet, MapThenFoldSet, PartialSums, SumStep, Pick

\* Nothing sums to nothing.
LEMMA SumEmpty == ASSUME NEW f PROVE SumOver(f, {}) = 0
  <1>1. PartialSums(f, {})[{}] = SumStep(f, PartialSums(f, {}), {})
    BY PartialIs, FS_EmptySet
  <1> QED
    BY <1>1, SumIsPartial DEF SumStep

\* The element that is picked comes off first.
LEMMA SumPick ==
    ASSUME NEW S, IsFiniteSet(S), S # {}, NEW f
    PROVE  SumOver(f, S) = f[Pick(S)] + SumOver(f, S \ {Pick(S)})
  <1> DEFINE rest == S \ {Pick(S)}
  <1>1. PartialSums(f, S)[S] = f[Pick(S)] + PartialSums(f, S)[rest]
    BY PartialIs DEF SumStep
  <1>2. PartialSums(f, S)[rest] = PartialSums(f, rest)[rest]
    BY PartialSame
  <1> QED
    BY <1>1, <1>2, SumIsPartial

\* A sum of integers is one.
LEMMA SumInt ==
    ASSUME NEW S, IsFiniteSet(S), NEW f, \A x \in S : f[x] \in Int
    PROVE  SumOver(f, S) \in Int
  <1> DEFINE odd == {s \in SUBSET S : SumOver(f, s) \notin Int}
  <1> SUFFICES ASSUME odd # {} PROVE FALSE
    OBVIOUS
  <1>1. PICK s \in odd : \A u \in odd : Cardinality(s) <= Cardinality(u)
    BY SmallestSubset
  <1>2. s # {}
    BY SumEmpty
  <1>3. Pick(s) \in s /\ IsFiniteSet(s)
    BY <1>2, PickIn, FS_Subset
  <1>4. SumOver(f, s \ {Pick(s)}) \in Int
    <2> DEFINE less == s \ {Pick(s)}
    <2>1. /\ less \in SUBSET s /\ Cardinality(s) \in Nat /\ Cardinality(less) \in Nat
          /\ Cardinality(less) = Cardinality(s) - 1
      BY <1>3, Without
    <2> HIDE DEF less
    <2>2. less \in SUBSET S /\ less \notin odd
      BY <1>1, <2>1
    <2> QED
      BY <2>2 DEF less
  <1>5. SumOver(f, s) = f[Pick(s)] + SumOver(f, s \ {Pick(s)}) /\ f[Pick(s)] \in Int
    BY <1>2, <1>3, SumPick
  <1> QED
    BY <1>4, <1>5

\* A sum of naturals is one.
LEMMA SumNat ==
    ASSUME NEW S, IsFiniteSet(S), NEW f, \A x \in S : f[x] \in Nat
    PROVE  SumOver(f, S) \in Nat
  <1> DEFINE odd == {s \in SUBSET S : SumOver(f, s) \notin Nat}
  <1> SUFFICES ASSUME odd # {} PROVE FALSE
    OBVIOUS
  <1>1. PICK s \in odd : \A u \in odd : Cardinality(s) <= Cardinality(u)
    BY SmallestSubset
  <1>2. s # {}
    BY SumEmpty
  <1>3. Pick(s) \in s /\ IsFiniteSet(s)
    BY <1>2, PickIn, FS_Subset
  <1>4. SumOver(f, s \ {Pick(s)}) \in Nat
    <2> DEFINE less == s \ {Pick(s)}
    <2>1. /\ less \in SUBSET s /\ Cardinality(s) \in Nat /\ Cardinality(less) \in Nat
          /\ Cardinality(less) = Cardinality(s) - 1
      BY <1>3, Without
    <2> HIDE DEF less
    <2>2. less \in SUBSET S /\ less \notin odd
      BY <1>1, <2>1
    <2> QED
      BY <2>2 DEF less
  <1>5. SumOver(f, s) = f[Pick(s)] + SumOver(f, s \ {Pick(s)}) /\ f[Pick(s)] \in Nat
    BY <1>2, <1>3, SumPick
  <1> QED
    BY <1>4, <1>5

\* Any element may come off first.
LEMMA SumWithout ==
    ASSUME NEW S, IsFiniteSet(S), NEW f, \A y \in S : f[y] \in Int, NEW x \in S
    PROVE  SumOver(f, S) = f[x] + SumOver(f, S \ {x})
  <1> DEFINE odd == {s \in SUBSET S : \E y \in s : SumOver(f, s) # f[y] + SumOver(f, s \ {y})}
  <1> SUFFICES ASSUME odd # {} PROVE FALSE
    OBVIOUS
  <1>1. PICK s \in odd : \A u \in odd : Cardinality(s) <= Cardinality(u)
    BY SmallestSubset
  <1>2. PICK y \in s : SumOver(f, s) # f[y] + SumOver(f, s \ {y})
    OBVIOUS
  <1>3. PICK c : c = Pick(s)
    OBVIOUS
  <1>4. c \in s /\ s \in SUBSET S /\ IsFiniteSet(s)
    BY <1>2, <1>3, PickIn, FS_Subset
  <1>5. SumOver(f, s) = f[c] + SumOver(f, s \ {c})
    BY <1>3, <1>4, SumPick
  <1>6. y # c
    BY <1>2, <1>5
  <1>7. ASSUME NEW z \in s, NEW w \in s, w # z
        PROVE  SumOver(f, s \ {z}) = f[w] + SumOver(f, (s \ {z}) \ {w})
    <2>1. s \ {z} \in SUBSET S /\ ~ Cardinality(s) <= Cardinality(s \ {z})
      <3> DEFINE u == s \ {z}
      <3>1. u \in SUBSET s /\ Cardinality(s) \in Nat /\ Cardinality(u) = Cardinality(s) - 1
        BY <1>4, Without
      <3> HIDE DEF u
      <3>2. u \in SUBSET S /\ ~ Cardinality(s) <= Cardinality(u)
        BY <1>4, <3>1
      <3> QED
        BY <3>2 DEF u
    <2>2. s \ {z} \notin odd /\ w \in s \ {z}
      BY <1>1, <1>7, <2>1
    <2> QED
      BY <2>1, <2>2
  <1>8. SumOver(f, s \ {c}) = f[y] + SumOver(f, (s \ {c}) \ {y})
    BY <1>4, <1>6, <1>7
  <1>9. SumOver(f, s \ {y}) = f[c] + SumOver(f, (s \ {y}) \ {c})
    BY <1>4, <1>6, <1>7
  <1>10. SumOver(f, (s \ {y}) \ {c}) = SumOver(f, (s \ {c}) \ {y})
    <2>1. (s \ {c}) \ {y} = (s \ {y}) \ {c}
      OBVIOUS
    <2> QED
      BY <2>1
  <1>11. SumOver(f, (s \ {c}) \ {y}) \in Int
    <2>1. IsFiniteSet((s \ {c}) \ {y}) /\ \A w \in (s \ {c}) \ {y} : f[w] \in Int
      BY <1>4, FS_Subset
    <2> QED
      BY <2>1, SumInt
  <1>12. f[c] \in Int /\ f[y] \in Int
    BY <1>4
  <1>13. SumOver(f, s) = f[y] + SumOver(f, s \ {y})
    BY <1>5, <1>8, <1>9, <1>10, <1>11, <1>12
  <1> QED
    BY <1>2, <1>13

\* And a new one goes on.
LEMMA SumWith ==
    ASSUME NEW S, IsFiniteSet(S), NEW x, x \notin S, NEW f, \A y \in S \cup {x} : f[y] \in Int
    PROVE  SumOver(f, S \cup {x}) = SumOver(f, S) + f[x]
  <1>1. IsFiniteSet(S \cup {x}) /\ (S \cup {x}) \ {x} = S
    BY FS_AddElement
  <1>2. SumOver(f, S \cup {x}) = f[x] + SumOver(f, S)
    BY <1>1, SumWithout
  <1>3. SumOver(f, S) \in Int
    BY SumInt
  <1> QED
    BY <1>2, <1>3

\* A sum is of what the function is on the set.
LEMMA SumSame ==
    ASSUME NEW S, IsFiniteSet(S), NEW f, NEW g, \A x \in S : f[x] = g[x]
    PROVE  SumOver(f, S) = SumOver(g, S)
  <1> DEFINE odd == {s \in SUBSET S : SumOver(f, s) # SumOver(g, s)}
  <1> SUFFICES ASSUME odd # {} PROVE FALSE
    OBVIOUS
  <1>1. PICK s \in odd : \A u \in odd : Cardinality(s) <= Cardinality(u)
    BY SmallestSubset
  <1>2. s # {}
    BY SumEmpty
  <1>3. Pick(s) \in s /\ IsFiniteSet(s)
    BY <1>2, PickIn, FS_Subset
  <1> DEFINE u == s \ {Pick(s)}
  <1>4. SumOver(f, u) = SumOver(g, u)
    <2>1. u \in SUBSET S /\ ~ Cardinality(s) <= Cardinality(u)
      <3>1. u \in SUBSET s /\ Cardinality(s) \in Nat /\ Cardinality(u) = Cardinality(s) - 1
        BY <1>3, Without
      <3> QED
        BY <3>1
    <2> HIDE DEF u
    <2> QED
      BY <1>1, <2>1
  <1> QED
    BY <1>2, <1>3, <1>4, SumPick

\* A sum moves by what one element moves by.
LEMMA SumMoves ==
    ASSUME NEW S, IsFiniteSet(S), NEW x \in S, NEW f, NEW g,
           \A y \in S : f[y] \in Int /\ g[y] \in Int, \A y \in S \ {x} : f[y] = g[y]
    PROVE  SumOver(g, S) = SumOver(f, S) - f[x] + g[x]
  <1>1. SumOver(f, S) = f[x] + SumOver(f, S \ {x}) /\ SumOver(g, S) = g[x] + SumOver(g, S \ {x})
    BY SumWithout
  <1>2. SumOver(f, S \ {x}) = SumOver(g, S \ {x}) /\ SumOver(f, S \ {x}) \in Int
    BY SumSame, SumInt, Without
  <1> QED
    BY <1>1, <1>2

\* Less is summed over less.
LEMMA SumSubset ==
    ASSUME NEW S, IsFiniteSet(S), NEW f, \A x \in S : f[x] \in Nat, NEW T \in SUBSET S
    PROVE  SumOver(f, T) <= SumOver(f, S)
  <1> DEFINE odd == {s \in SUBSET S : T \subseteq s /\ ~ SumOver(f, T) <= SumOver(f, s)}
  <1> SUFFICES ASSUME odd # {} PROVE FALSE
    OBVIOUS
  <1>1. PICK s \in odd : \A u \in odd : Cardinality(s) <= Cardinality(u)
    BY SmallestSubset
  <1>2. IsFiniteSet(s) /\ SumOver(f, T) \in Nat
    BY FS_Subset, SumNat
  <1>3. PICK x \in s : x \notin T
    BY <1>2
  <1>4. T \subseteq s \ {x} /\ s \ {x} \notin odd
    <2> DEFINE u == s \ {x}
    <2>1. u \in SUBSET s /\ Cardinality(s) \in Nat /\ Cardinality(u) = Cardinality(s) - 1
      BY <1>2, Without
    <2>2. T \subseteq u
      BY <1>3
    <2>3. ~ Cardinality(s) <= Cardinality(u)
      BY <2>1
    <2> HIDE DEF u, odd
    <2>4. u \notin odd
      BY <1>1, <2>3
    <2> QED
      BY <2>2, <2>4 DEF u
  <1>5. \A y \in s : f[y] \in Nat /\ f[y] \in Int
    OBVIOUS
  <1>6. SumOver(f, s) = f[x] + SumOver(f, s \ {x})
    BY <1>2, <1>5, SumWithout
  <1>7. SumOver(f, s \ {x}) \in Nat
    BY <1>2, <1>5, Without, SumNat
  <1>8. SumOver(f, T) <= SumOver(f, s \ {x}) /\ f[x] \in Nat
    BY <1>4, <1>5
  <1>9. ~ SumOver(f, T) <= SumOver(f, s)
    OBVIOUS
  <1> HIDE DEF odd
  <1> QED
    BY <1>2, <1>6, <1>7, <1>8, <1>9

\* Zeros sum to nothing.
LEMMA SumZero ==
    ASSUME NEW S, IsFiniteSet(S), NEW f, \A x \in S : f[x] = 0
    PROVE  SumOver(f, S) = 0
  <1> DEFINE odd == {s \in SUBSET S : SumOver(f, s) # 0}
  <1> SUFFICES ASSUME odd # {} PROVE FALSE
    OBVIOUS
  <1>1. PICK s \in odd : \A u \in odd : Cardinality(s) <= Cardinality(u)
    BY SmallestSubset
  <1>2. s # {}
    BY SumEmpty
  <1>3. Pick(s) \in s /\ IsFiniteSet(s)
    BY <1>2, PickIn, FS_Subset
  <1>4. SumOver(f, s \ {Pick(s)}) = 0
    BY <1>1, <1>3, Without
  <1>5. SumOver(f, s) = f[Pick(s)] + SumOver(f, s \ {Pick(s)}) /\ f[Pick(s)] = 0
    BY <1>2, <1>3, SumPick
  <1> QED
    BY <1>4, <1>5

-----------------------------------------------------------------------------
(* What FlattenSeq (SequencesExt) makes of a sequence of sequences.         *)

FlatStep(ss, g, i) == IF i = 1 THEN ss[i] ELSE g[i - 1] \o ss[i]
IsFlat(ss, n, g) == g = [i \in 1..n |-> FlatStep(ss, g, i)]
Flatten(ss, n) == CHOOSE g : IsFlat(ss, n, g)
Flattens(ss, n) == \E g : IsFlat(ss, n, g)

LEMMA FlattenExists ==
    ASSUME NEW ss, NEW n \in Nat
    PROVE  Flattens(ss, n)
<1> DEFINE Bad == {m \in Nat : ~ Flattens(ss, m)}
<1> SUFFICES ASSUME Bad # {} PROVE FALSE
    OBVIOUS
<1>1. PICK m \in Bad : \A k \in Bad : m <= k
    BY LeastNat
<1>2. m # 0
    <2>1. [i \in 1..0 |-> 0] = [i \in 1..0 |-> FlatStep(ss, [j \in 1..0 |-> 0], i)]
        OBVIOUS
    <2> QED
        BY <2>1 DEF Flattens, IsFlat
<1>3. Flattens(ss, m - 1)
    BY <1>1, <1>2
<1>4. PICK g : g = [i \in 1..m - 1 |-> FlatStep(ss, g, i)]
    BY <1>3 DEF Flattens, IsFlat
<1> DEFINE g1 == [i \in 1..m |-> FlatStep(ss, g, i)]
<1>5. \A i \in 1..m : FlatStep(ss, g, i) = FlatStep(ss, g1, i)
    <2> TAKE i \in 1..m
    <2>1. CASE i = 1
        BY <2>1 DEF FlatStep
    <2>2. CASE i # 1
        <3>1. i - 1 \in 1..m - 1
            BY <2>2
        <3>2. g[i - 1] = FlatStep(ss, g, i - 1)
            BY <1>4, <3>1
        <3>3. g1[i - 1] = FlatStep(ss, g, i - 1)
            BY <3>1
        <3> QED
            BY <2>2, <3>2, <3>3 DEF FlatStep
    <2> QED
        BY <2>1, <2>2
<1>6. g1 = [i \in 1..m |-> FlatStep(ss, g1, i)]
    BY <1>5
<1>7. Flattens(ss, m)
    <2> HIDE DEF g1
    <2> QED BY <1>6 DEF Flattens, IsFlat
<1> QED
    BY <1>1, <1>7

LEMMA FlattenIs ==
    ASSUME NEW ss, Len(ss) \in Nat, Len(ss) # 0
    PROVE  /\ FlattenSeq(ss) = Flatten(ss, Len(ss))[Len(ss)]
           /\ \A i \in 1..Len(ss) : Flatten(ss, Len(ss))[i] = FlatStep(ss, Flatten(ss, Len(ss)), i)
<1>1. FlattenSeq(ss) = Flatten(ss, Len(ss))[Len(ss)]
    BY DEF FlattenSeq, Flatten, IsFlat, FlatStep
<1>2. Flattens(ss, Len(ss))
    BY FlattenExists
<1>3. IsFlat(ss, Len(ss), Flatten(ss, Len(ss)))
    BY <1>2, Zenon DEF Flattens, Flatten
<1> QED
    BY <1>1, <1>3 DEF IsFlat

LEMMA Concatenated ==
    ASSUME NEW S, NEW a \in Seq(S), NEW b \in Seq(S), NEW c, c = a \o b
    PROVE  /\ c \in Seq(S) /\ Len(c) = Len(a) + Len(b)
           /\ \A k \in 1..Len(a) : c[k] = a[k]
           /\ \A j \in 1..Len(b) : c[Len(a) + j] = b[j]
    OBVIOUS

\* Where the n-th block starts in a flattened sequence, and what is so of the
\* first n blocks together.
FlatAt(F, n) == IF n = 1 THEN 0 ELSE Len(F[n - 1])
FlatSo(S, ss, F, n) ==
    /\ F[n] \in Seq(S)
    /\ \A m \in 1..n : \A j \in 1..Len(ss[m]) :
          FlatAt(F, m) + j \in 1..Len(F[n]) /\ F[n][FlatAt(F, m) + j] = ss[m][j]
    /\ \A k \in 1..Len(F[n]) : \E m \in 1..n : \E j \in 1..Len(ss[m]) : k = FlatAt(F, m) + j
    /\ \A m \in 1..n : FlatAt(F, m) \in Nat /\ FlatAt(F, m) + Len(ss[m]) <= Len(F[n])

LEMMA FlatOne ==
    ASSUME NEW S, NEW ss, NEW F, ss[1] \in Seq(S), F[1] = ss[1]
    PROVE  FlatSo(S, ss, F, 1)
<1>1. FlatAt(F, 1) = 0 /\ Len(ss[1]) \in Nat
    BY DEF FlatAt
<1> QED
    BY <1>1 DEF FlatSo

LEMMA FlatMore ==
    ASSUME NEW S, NEW ss, NEW F, NEW n \in Nat, n > 1, \A m \in 1..n : ss[m] \in Seq(S),
           F[n] = F[n - 1] \o ss[n], FlatSo(S, ss, F, n - 1)
    PROVE  FlatSo(S, ss, F, n)
<1> DEFINE p == F[n - 1]
           b == ss[n]
           q == F[n]
<1>1. FlatAt(F, n) = Len(p)
    BY DEF FlatAt
<1>2. p \in Seq(S) /\ b \in Seq(S) /\ q = p \o b
    BY DEF FlatSo
<1>3. /\ q \in Seq(S) /\ Len(q) = Len(p) + Len(b)
      /\ \A k \in 1..Len(p) : q[k] = p[k]
      /\ \A j \in 1..Len(b) : q[Len(p) + j] = b[j]
    <2> HIDE DEF p, b, q
    <2> QED BY <1>2, Concatenated
<1>4. Len(p) \in Nat /\ Len(b) \in Nat /\ \A m \in 1..n : Len(ss[m]) \in Nat
    BY <1>2
<1>5. /\ \A m \in 1..n - 1 : \A j \in 1..Len(ss[m]) :
            FlatAt(F, m) + j \in 1..Len(p) /\ p[FlatAt(F, m) + j] = ss[m][j]
      /\ \A k \in 1..Len(p) : \E m \in 1..n - 1 : \E j \in 1..Len(ss[m]) : k = FlatAt(F, m) + j
      /\ \A m \in 1..n - 1 : FlatAt(F, m) \in Nat /\ FlatAt(F, m) + Len(ss[m]) <= Len(p)
    BY DEF FlatSo
<1> HIDE DEF p, q
<1>6. ASSUME NEW m \in 1..n
      PROVE  /\ FlatAt(F, m) \in Nat /\ FlatAt(F, m) + Len(ss[m]) <= Len(q)
             /\ \A j \in 1..Len(ss[m]) : FlatAt(F, m) + j \in 1..Len(q) /\ q[FlatAt(F, m) + j] = ss[m][j]
    <2>1. CASE m = n
        BY <2>1, <1>1, <1>3, <1>4
    <2>2. CASE m < n
        <3>1. m \in 1..n - 1
            BY <2>2
        <3>2. FlatAt(F, m) \in Nat /\ FlatAt(F, m) + Len(ss[m]) <= Len(p)
            BY <3>1, <1>5
        <3>3. ASSUME NEW j \in 1..Len(ss[m])
              PROVE  FlatAt(F, m) + j \in 1..Len(q) /\ q[FlatAt(F, m) + j] = ss[m][j]
            <4>1. FlatAt(F, m) + j \in 1..Len(p) /\ p[FlatAt(F, m) + j] = ss[m][j]
                BY <3>1, <1>5
            <4>2. q[FlatAt(F, m) + j] = p[FlatAt(F, m) + j]
                BY <4>1, <1>3
            <4> QED
                BY <4>1, <4>2, <1>3, <1>4
        <3> QED
            BY <3>2, <3>3, <1>3, <1>4
    <2> QED
        BY <2>1, <2>2
<1>7. ASSUME NEW k \in 1..Len(q)
      PROVE  \E m \in 1..n : \E j \in 1..Len(ss[m]) : k = FlatAt(F, m) + j
    <2>1. CASE k <= Len(p)
        <3>1. PICK m \in 1..n - 1 : \E j \in 1..Len(ss[m]) : k = FlatAt(F, m) + j
            BY <2>1, <1>4, <1>5
        <3> QED
            BY <3>1
    <2>2. CASE k > Len(p)
        <3>1. k - Len(p) \in 1..Len(ss[n]) /\ k = FlatAt(F, n) + (k - Len(p))
            BY <2>2, <1>1, <1>3, <1>4
        <3> QED
            BY <3>1
    <2> QED
        BY <2>1, <2>2, <1>3, <1>4
<1> QED
    BY <1>3, <1>6, <1>7 DEF FlatSo, q

\* Where the blocks of a flattened sequence start: each is there, in order,
\* and nothing else is.
Starts(ss, f, at) ==
    /\ at \in [1..Len(ss) -> Nat]
    /\ \A n \in 1..Len(ss) : \A j \in 1..Len(ss[n]) : at[n] + j \in 1..Len(f) /\ f[at[n] + j] = ss[n][j]
    /\ \A k \in 1..Len(f) : \E n \in 1..Len(ss) : \E j \in 1..Len(ss[n]) : k = at[n] + j
    /\ \A m, n \in 1..Len(ss) : m < n => at[m] + Len(ss[m]) <= at[n]

LEMMA Flattened ==
    ASSUME NEW S, NEW ss, Len(ss) \in Nat, Len(ss) = 0 => ss = <<>>,
           \A n \in 1..Len(ss) : ss[n] \in Seq(S)
    PROVE  FlattenSeq(ss) \in Seq(S) /\ \E at : Starts(ss, FlattenSeq(ss), at)
<1>1. CASE Len(ss) = 0
    <2>1. ss = <<>> /\ FlattenSeq(ss) = <<>> /\ <<>> \in Seq(S)
        BY <1>1 DEF FlattenSeq
    <2> DEFINE none == [n \in 1..Len(ss) |-> 0]
    <2>2. Starts(ss, <<>>, none)
        BY <2>1 DEF Starts
    <2> HIDE DEF none
    <2> QED
        BY <2>1, <2>2
<1>2. CASE Len(ss) # 0
    <2> DEFINE N == Len(ss)
               F == Flatten(ss, Len(ss))
    <2>1. FlattenSeq(ss) = F[N] /\ \A i \in 1..N : F[i] = FlatStep(ss, F, i)
        BY <1>2, FlattenIs
    <2>2. N \in Nat \ {0}
        BY <1>2
    <2> HIDE DEF F, N
    <2>3. F[1] = ss[1]
        BY <2>1, <2>2 DEF FlatStep
    <2>4. ASSUME NEW n \in 2..N PROVE F[n] = F[n - 1] \o ss[n]
        <3>1. n # 1 /\ F[n] = FlatStep(ss, F, n)
            BY <2>1, <2>2
        <3> QED
            BY <3>1, Zenon DEF FlatStep
    <2> DEFINE Bad == {n \in Nat : n \in 1..N /\ ~ FlatSo(S, ss, F, n)}
    <2>5. Bad = {}
        <3> SUFFICES ASSUME Bad # {} PROVE FALSE
            OBVIOUS
        <3>1. PICK n \in Bad : \A m \in Bad : n <= m
            BY LeastNat
        <3>2. n \in 1..N /\ ~ FlatSo(S, ss, F, n) /\ \A m \in 1..n : ss[m] \in Seq(S)
            BY <2>2 DEF N
        <3>3. CASE n = 1
            BY <3>2, <3>3, <2>3, FlatOne
        <3>4. CASE n > 1
            <4>1. FlatSo(S, ss, F, n - 1)
                BY <3>1, <3>4, <2>2
            <4>2. F[n] = F[n - 1] \o ss[n]
                <5>1. n \in 2..N
                    BY <3>2, <3>4, <2>2
                <5> QED
                    BY <5>1, <2>4
            <4> QED
                BY <4>1, <4>2, <3>2, <3>4, FlatMore
        <3> QED
            BY <3>2, <3>3, <3>4
    <2>6. \A n \in 1..N : FlatSo(S, ss, F, n)
        BY <2>5
    <2>7. ASSUME NEW m \in 1..N, NEW n \in 1..N, m < n
          PROVE  FlatAt(F, m) + Len(ss[m]) <= FlatAt(F, n)
        <3>1. FlatSo(S, ss, F, n - 1) /\ m \in 1..n - 1
            BY <2>2, <2>6, <2>7
        <3>2. FlatAt(F, n) = Len(F[n - 1])
            BY <2>2, <2>7 DEF FlatAt
        <3> QED
            BY <3>1, <3>2 DEF FlatSo
    <2>8. FlatSo(S, ss, F, N)
        BY <2>6, <2>2
    <2> DEFINE A == [n \in 1..N |-> FlatAt(F, n)]
    <2>9. A \in [1..N -> Nat] /\ \A n \in 1..N : A[n] = FlatAt(F, n)
        BY <2>8 DEF FlatSo
    <2> HIDE DEF A
    <2>10. Starts(ss, F[N], A)
        <3>1. \A n \in 1..N : \A j \in 1..Len(ss[n]) : A[n] + j \in 1..Len(F[N]) /\ F[N][A[n] + j] = ss[n][j]
            BY <2>9, <2>8 DEF FlatSo
        <3>2. \A k \in 1..Len(F[N]) : \E n \in 1..N : \E j \in 1..Len(ss[n]) : k = A[n] + j
            BY <2>9, <2>8 DEF FlatSo
        <3>3. \A m, n \in 1..N : m < n => A[m] + Len(ss[m]) <= A[n]
            BY <2>9, <2>7
        <3> QED
            BY <2>9, <3>1, <3>2, <3>3 DEF Starts, N
    <2> QED
        BY <2>1, <2>8, <2>10 DEF FlatSo
<1> QED
    BY <1>1, <1>2

================================================================================

---------------------------- MODULE ListTheorems ----------------------------
(***************************************************************************)
(* What holds of folds, of lists by rank and of lists put together,        *)
(* whatever their elements are.  The provers cannot instantiate theorems   *)
(* with an operator among their parameters, so induction is over sets: a   *)
(* set that has the first case, and with each case the next, has them all. *)
(***************************************************************************)
EXTENDS Integers, SequencesExt, Ranks, FiniteSetTheorems, FunctionTheorems, NaturalsInduction,
    WellFoundedInduction, TLAPS

-----------------------------------------------------------------------------
(* Numbers, sets, and functions defined by recursion over them.            *)

\* A set of naturals that is not empty has a least element.
LEMMA LeastNatural ==
  ASSUME NEW T, T \subseteq Nat, T # {}
  PROVE  \E n \in T : \A k \in T : n <= k
<1> DEFINE Less == {p \in Nat \X Nat : p[1] < p[2]}
<1>1. IsWellFoundedOn(Less, Nat) BY NatLessThanWellFounded DEF OpToRel
<1>2. \A k, n \in Nat : k < n => <<k, n>> \in Less OBVIOUS
<1> HIDE DEF Less
<1>3. PICK n \in T : \A k \in T : <<k, n>> \notin Less BY <1>1, WFMin
<1>4. ASSUME NEW k \in T PROVE n <= k
  <2>1. k \in Nat /\ n \in Nat /\ ~(k < n) BY <1>2, <1>3, <1>4
  <2> QED BY <2>1
<1> QED BY <1>3, <1>4

\* What holds of zero, and of each number after one it holds of, holds of all.
LEMMA AllNaturals ==
  ASSUME NEW N, 0 \in N, \A n \in Nat : n \in N => n + 1 \in N
  PROVE  Nat \subseteq N
<1> SUFFICES ASSUME Nat \ N # {} PROVE FALSE OBVIOUS
<1>1. PICK n \in Nat \ N : \A k \in Nat \ N : n <= k BY LeastNatural
<1>2. n # 0 /\ n - 1 \in Nat BY <1>1
<1>3. n - 1 \in N
  <2>1. ~(n <= n - 1) BY <1>1
  <2> QED BY <1>1, <1>2, <2>1
<1>4. (n - 1) + 1 \in N BY <1>2, <1>3
<1> QED BY <1>1, <1>4

\* Induction over the parts of a finite set, taking away an element at a time.
LEMMA AllParts ==
  ASSUME NEW S, IsFiniteSet(S), NEW D, {} \in D,
         \A s \in SUBSET S : s # {} => \E x \in s : s \ {x} \in D => s \in D
  PROVE  \A s \in SUBSET S : s \in D
<1> DEFINE N == {n \in Nat : \A s \in SUBSET S : Cardinality(s) <= n => s \in D}
<1>1. \A s \in SUBSET S : IsFiniteSet(s) /\ Cardinality(s) \in Nat
  BY FS_Subset, FS_CardinalityType
<1>2. 0 \in N
  <2>1. ASSUME NEW s \in SUBSET S, Cardinality(s) <= 0 PROVE s \in D
    <3>1. Cardinality(s) = 0 BY <1>1, <2>1
    <3> QED BY <1>1, <3>1, FS_EmptySet
  <2> QED BY <2>1
<1>3. ASSUME NEW n \in Nat, n \in N PROVE n + 1 \in N
  <2>1. ASSUME NEW s \in SUBSET S, Cardinality(s) <= n + 1 PROVE s \in D
    <3>1. CASE s = {} BY <3>1
    <3>2. CASE s # {}
      <4>1. PICK x \in s : s \ {x} \in D => s \in D BY <3>2
      <4>2. Cardinality(s \ {x}) = Cardinality(s) - 1 /\ s \ {x} \in SUBSET S
        BY <1>1, FS_RemoveElement
      <4>3. Cardinality(s \ {x}) <= n BY <1>1, <2>1, <4>2
      <4>4. s \ {x} \in D BY <1>3, <4>2, <4>3
      <4> QED BY <4>1, <4>4
    <3> QED BY <3>1, <3>2
  <2> QED BY <2>1
<1> HIDE DEF N
<1>4. Nat \subseteq N BY <1>2, <1>3, AllNaturals
<1>5. Cardinality(S) \in N BY <1>1, <1>4
<1> QED BY <1>1, <1>5, FS_Subset DEF N

\* What is defined by recursion over the parts of a set.
Recursed(g, S, first, step, pick) ==
    g = [s \in SUBSET S |-> IF s = {} THEN first ELSE step[<<pick[s], g[s \ {pick[s]}]>>]]

\* A function may be defined by recursion over the parts of a finite set.
LEMMA PartsRecursion ==
  ASSUME NEW S, IsFiniteSet(S), NEW first, NEW step, NEW pick,
         \A s \in SUBSET S : s # {} => pick[s] \in s
  PROVE  \E g : Recursed(g, S, first, step, pick)
<1> DEFINE Level(n) == {s \in SUBSET S : Cardinality(s) <= n}
           Value(g, s) == IF s = {} THEN first ELSE step[<<pick[s], g[s \ {pick[s]}]>>]
           Solves(g, n) == g = [s \in Level(n) |-> Value(g, s)]
           N == {n \in Nat : \E g : Solves(g, n)}
<1>1. \A s \in SUBSET S : IsFiniteSet(s) /\ Cardinality(s) \in Nat
  BY FS_Subset, FS_CardinalityType
<1>2. \A s \in SUBSET S : s # {} => s \ {pick[s]} \in SUBSET S
                                    /\ Cardinality(s \ {pick[s]}) = Cardinality(s) - 1
  BY <1>1, FS_RemoveElement
<1>3. \E g : Solves(g, 0)
  <2> DEFINE g == [s \in Level(0) |-> first]
  <2>1. \A s \in Level(0) : s = {}
    <3> TAKE s \in Level(0)
    <3>1. Cardinality(s) = 0 BY <1>1
    <3> QED BY <1>1, <3>1, FS_EmptySet
  <2>2. \A s \in Level(0) : Value(g, s) = first BY <2>1
  <2>3. Solves(g, 0)
    <3> HIDE DEF Level, Value
    <3> QED BY <2>2
  <2> QED BY <2>3
<1>4. ASSUME NEW n \in Nat, \E g : Solves(g, n) PROVE \E g : Solves(g, n + 1)
  <2>1. PICK g : Solves(g, n) BY <1>4
  <2> DEFINE h == [s \in Level(n + 1) |-> Value(g, s)]
  <2>2. \A s \in Level(n) : s \in Level(n + 1) BY <1>1
  <2>3. \A s \in Level(n) : h[s] = g[s]
    <3> TAKE s \in Level(n)
    <3>1. h[s] = Value(g, s) BY <2>2
    <3>2. g[s] = Value(g, s) BY <2>1
    <3> QED BY <3>1, <3>2
  <2>4. \A s \in Level(n + 1) : s # {} => s \ {pick[s]} \in Level(n)
    <3> TAKE s \in Level(n + 1)
    <3> HAVE s # {}
    <3>1. Cardinality(s \ {pick[s]}) <= n BY <1>1, <1>2
    <3> QED BY <1>2, <3>1
  <2>5. \A s \in Level(n + 1) : Value(h, s) = Value(g, s)
    <3> HIDE DEF h, Level
    <3> QED BY <2>3, <2>4
  <2>6. Solves(h, n + 1)
    <3>1. [s \in Level(n + 1) |-> Value(h, s)] = [s \in Level(n + 1) |-> Value(g, s)]
      <4> HIDE DEF h, Level, Value
      <4> QED BY <2>5
    <3> QED BY <3>1
  <2> HIDE DEF h, Solves
  <2> QED BY <2>6
<1>5. Nat \subseteq N
  <2>1. 0 \in N
    <3> HIDE DEF Solves
    <3> QED BY <1>3
  <2>2. \A n \in Nat : n \in N => n + 1 \in N
    <3> HIDE DEF Solves
    <3> QED BY <1>4
  <2> HIDE DEF N
  <2> QED BY <2>1, <2>2, AllNaturals
<1>6. PICK g : Solves(g, Cardinality(S))
  <2> HIDE DEF Solves
  <2> QED BY <1>1, <1>5
<1>7. Level(Cardinality(S)) = SUBSET S BY FS_Subset
<1>8. Recursed(g, S, first, step, pick)
  <2>1. g = [s \in SUBSET S |-> Value(g, s)]
    <3> HIDE DEF Level, Value
    <3> QED BY <1>6, <1>7
  <2> QED BY <2>1 DEF Recursed
<1> QED BY <1>8

\* What holds at first and is kept by each step holds at every part.
LEMMA RecursedIn ==
  ASSUME NEW S, IsFiniteSet(S), NEW first, NEW step, NEW pick, NEW Fits, first \in Fits[{}],
         \A s \in SUBSET S : s # {} =>
             /\ pick[s] \in s
             /\ \A m \in Fits[s \ {pick[s]}] : step[<<pick[s], m>>] \in Fits[s]
  PROVE  \E g : Recursed(g, S, first, step, pick) /\ \A s \in SUBSET S : g[s] \in Fits[s]
<1>1. PICK g : Recursed(g, S, first, step, pick)
  <2>1. \A s \in SUBSET S : s # {} => pick[s] \in s OBVIOUS
  <2> QED BY <2>1, PartsRecursion
<1>2. \A s \in SUBSET S :
         g[s] = IF s = {} THEN first ELSE step[<<pick[s], g[s \ {pick[s]}]>>]
  BY <1>1 DEF Recursed
<1> DEFINE D == {s \in SUBSET S : g[s] \in Fits[s]}
<1>3. {} \in D BY <1>2
<1>4. \A s \in SUBSET S : s # {} => \E x \in s : s \ {x} \in D => s \in D
  <2> SUFFICES ASSUME NEW s \in SUBSET S, s # {}, s \ {pick[s]} \in D
               PROVE  s \in D OBVIOUS
  <2>1. g[s] = step[<<pick[s], g[s \ {pick[s]}]>>] BY <1>2
  <2>2. g[s \ {pick[s]}] \in Fits[s \ {pick[s]}] OBVIOUS
  <2> QED BY <2>1, <2>2
<1> HIDE DEF D
<1>5. \A s \in SUBSET S : s \in D BY <1>3, <1>4, AllParts
<1> QED BY <1>1, <1>5 DEF D

\* A finite set of naturals that is not empty has its maximum in it.
LEMMA MaxIsIn ==
  ASSUME NEW n \in Nat, NEW s \in SUBSET (1..n), s # {}
  PROVE  Max(s) \in s
<1> DEFINE T == {n - i : i \in s}
<1>1. PICK k \in T : \A j \in T : k <= j
  <2>1. \A i \in s : n - i \in Nat OBVIOUS
  <2>2. T \subseteq Nat /\ T # {} BY <2>1
  <2> HIDE DEF T
  <2> QED BY <2>2, LeastNatural
<1>2. PICK i \in s : k = n - i OBVIOUS
<1>3. \A j \in s : i >= j
  <2> TAKE j \in s
  <2>1. n - j \in T OBVIOUS
  <2>2. k <= n - j
    <3> HIDE DEF T
    <3> QED BY <1>1, <2>1
  <2> QED BY <1>2, <2>2
<1> QED BY <1>3 DEF Max

-----------------------------------------------------------------------------
(* Lists.                                                                  *)

\* How many elements of a set come before one of them.
RankIn(S, R, e) == Cardinality({d \in S : <<d, e>> \in R})

\* A list of the elements of a set by their ranks has each of them once.
ListsOnce(list, S) ==
    /\ list \in [1..Cardinality(S) -> S]
    /\ \A i, j \in 1..Cardinality(S) : i # j => list[i] # list[j]
    /\ \A e \in S : \E i \in 1..Cardinality(S) : list[i] = e

\* In a strict total order the ranks of a finite set are the numbers below its size,
\* so that a list by ranks has each element once.
LEMMA RanksFill ==
  ASSUME NEW S, IsFiniteSet(S), NEW R,
         \A d \in S : <<d, d>> \notin R,
         \A d, e \in S : d # e => <<d, e>> \in R \/ <<e, d>> \in R,
         \A c, d, e \in S : <<c, d>> \in R /\ <<d, e>> \in R => <<c, e>> \in R
  PROVE  /\ \A n \in 1..Cardinality(S) : \E e \in S : RankIn(S, R, e) = n - 1
         /\ \A list \in [1..Cardinality(S) -> S] :
                (\A i \in 1..Cardinality(S) : RankIn(S, R, list[i]) = i - 1) => ListsOnce(list, S)
<1> DEFINE c == Cardinality(S)
           Below(e) == {d \in S : <<d, e>> \in R}
           rank == [e \in S |-> RankIn(S, R, e)]
<1>1. c \in Nat BY FS_CardinalityType
<1>2. \A e \in S : IsFiniteSet(Below(e)) /\ RankIn(S, R, e) \in 0..(c - 1)
  <2> TAKE e \in S
  <2>1. Below(e) \in SUBSET (S \ {e}) OBVIOUS
  <2>2. IsFiniteSet(S \ {e}) /\ Cardinality(S \ {e}) = c - 1 BY FS_RemoveElement
  <2>3. IsFiniteSet(Below(e)) /\ Cardinality(Below(e)) <= c - 1
    <3> HIDE DEF c, Below
    <3> QED BY <2>1, <2>2, FS_Subset
  <2>4. Cardinality(Below(e)) \in Nat BY <2>3, FS_CardinalityType
  <2> QED BY <1>1, <2>3, <2>4 DEF RankIn
<1>3. \A d, e \in S : <<d, e>> \in R => RankIn(S, R, d) # RankIn(S, R, e)
  <2> SUFFICES ASSUME NEW d \in S, NEW e \in S, <<d, e>> \in R
               PROVE  Cardinality(Below(d)) # Cardinality(Below(e))
    BY DEF RankIn
  <2>1. Below(d) \in SUBSET Below(e) OBVIOUS
  <2>2. Below(d) # Below(e)
    <3>1. d \in Below(e) /\ d \notin Below(d) OBVIOUS
    <3> QED BY <3>1
  <2> QED BY <1>2, <2>1, <2>2, FS_Subset
<1>4. \A d, e \in S : RankIn(S, R, d) = RankIn(S, R, e) => d = e
  BY <1>3
<1>5. rank \in Injection(S, 0..(c - 1))
  BY <1>2, <1>4 DEF Injection, IsInjective
<1>6. IsFiniteSet(0..(c - 1)) /\ Cardinality(0..(c - 1)) = c
  <2>1. c - 1 \in Int /\ (0 > c - 1 <=> c = 0) BY <1>1
  <2> HIDE DEF c
  <2> QED BY <1>1, <2>1, FS_Interval
<1>7. rank \in Surjection(S, 0..(c - 1))
  BY <1>5, <1>6, FS_Injection
<1>8. \A n \in 1..c : \E e \in S : RankIn(S, R, e) = n - 1
  <2> TAKE n \in 1..c
  <2>1. n - 1 \in 0..(c - 1) BY <1>1
  <2>2. PICK e \in S : rank[e] = n - 1 BY <1>7, <2>1 DEF Surjection
  <2> QED BY <2>2
<1>9. ASSUME NEW list \in [1..c -> S], \A i \in 1..c : RankIn(S, R, list[i]) = i - 1
      PROVE  ListsOnce(list, S)
  <2>1. \A i, j \in 1..c : list[i] = list[j] => i = j
    <3> HIDE DEF c
    <3> QED BY <1>1, <1>9
  <2>2. \A e \in S : \E i \in 1..c : list[i] = e
    <3> TAKE e \in S
    <3> DEFINE r == RankIn(S, R, e)
    <3>1. r \in 0..(c - 1) BY <1>2
    <3> HIDE DEF r, c
    <3>2. r + 1 \in 1..c /\ (r + 1) - 1 = r BY <1>1, <3>1
    <3>3. list[r + 1] \in S /\ RankIn(S, R, list[r + 1]) = r BY <1>9, <3>2
    <3>4. list[r + 1] = e BY <1>4, <3>3 DEF r
    <3> QED BY <3>2, <3>4
  <2> QED BY <2>1, <2>2 DEF ListsOnce
<1> QED BY <1>8, <1>9

\* A list of a set has the elements of the set.
LEMMA ListsHave ==
  ASSUME NEW S, IsFiniteSet(S), NEW list, ListsOnce(list, S)
  PROVE  ToSet(list) = S /\ list \in Seq(S) /\ Len(list) = Cardinality(S)
<1>1. Cardinality(S) \in Nat BY FS_CardinalityType
<1> QED BY <1>1 DEF ListsOnce, ToSet

\* What the first of n lists are together.
Joins(flat, lists, n, S) ==
    /\ flat \in [0..n -> Seq(S)]
    /\ flat[0] = <<>> /\ flat[n] = FlattenSeq(lists)
    /\ \A i \in 1..n : flat[i] = flat[i - 1] \o lists[i]

\* FlattenSeq puts the lists together one after the other.
LEMMA FlatSteps ==
  ASSUME NEW S, NEW n \in Nat, NEW lists \in [1..n -> Seq(S)]
  PROVE  \E flat : Joins(flat, lists, n, S)
<1> DEFINE Value(f, i) == IF i = 1 THEN lists[i] ELSE f[i - 1] \o lists[i]
           Solves(f, k) == f = [i \in 1..k |-> Value(f, i)]
           N == {k \in Nat : \E f : Solves(f, k)}
<1>1. lists \in Seq(Seq(S)) /\ Len(lists) = n
  OBVIOUS
<1>2. 0 \in N
  <2> DEFINE f == [i \in 1..0 |-> Value(<<>>, i)]
  <2>1. \A i \in 1..0 : Value(f, i) = Value(<<>>, i) OBVIOUS
  <2>2. Solves(f, 0)
    <3> HIDE DEF Value
    <3> QED BY <2>1
  <2> HIDE DEF Solves
  <2> QED BY <2>2
<1>3. ASSUME NEW k \in Nat, k \in N PROVE k + 1 \in N
  <2>1. PICK f : Solves(f, k) BY <1>3
  <2> DEFINE g == [i \in 1..k + 1 |-> Value(f, i)]
  <2>2. \A i \in 1..k : f[i] = g[i]
    <3> HIDE DEF Value
    <3> QED BY <2>1
  <2>3. \A i \in 1..k + 1 : Value(g, i) = Value(f, i)
    <3> HIDE DEF g
    <3> QED BY <2>2
  <2>4. Solves(g, k + 1)
    <3> HIDE DEF Value
    <3> QED BY <2>3
  <2> HIDE DEF Solves, g
  <2> QED BY <2>4
<1>4. PICK f : Solves(f, n)
  <2> HIDE DEF N
  <2>1. n \in N BY <1>2, <1>3, AllNaturals
  <2> QED BY <2>1 DEF N
<1> DEFINE built == CHOOSE g : Solves(g, n)
<1>5. Solves(built, n)
  <2> HIDE DEF Solves
  <2> QED BY <1>4
<1> HIDE DEF built
<1>6. \A i \in 1..n : built[i] = Value(built, i)
  <2> HIDE DEF Value
  <2> QED BY <1>5
<1> DEFINE D == {i \in Nat : i \in 1..n => built[i] \in Seq(S)}
<1>7. 0 \in D OBVIOUS
<1>8. ASSUME NEW k \in Nat, k \in D PROVE k + 1 \in D
  <2> SUFFICES ASSUME k + 1 \in 1..n PROVE built[k + 1] \in Seq(S) OBVIOUS
  <2>1. CASE k = 0 BY <1>6, <2>1
  <2>2. CASE k # 0
    <3>1. k \in 1..n /\ (k + 1) - 1 = k /\ k + 1 # 1 BY <2>2
    <3>2. built[k] \in Seq(S) BY <1>8, <3>1
    <3>3. built[k + 1] = built[k] \o lists[k + 1] BY <1>6, <3>1
    <3> QED BY <3>2, <3>3
  <2> QED BY <2>1, <2>2
<1>9. \A i \in 1..n : built[i] \in Seq(S)
  <2> HIDE DEF D
  <2>1. Nat \subseteq D BY <1>7, <1>8, AllNaturals
  <2> QED BY <2>1 DEF D
<1> DEFINE flat == [i \in 0..n |-> IF i = 0 THEN <<>> ELSE built[i]]
<1>10. flat \in [0..n -> Seq(S)] BY <1>9
<1>11. \A i \in 1..n : flat[i] = flat[i - 1] \o lists[i]
  <2> TAKE i \in 1..n
  <2>1. CASE i = 1
    <3>1. flat[1] = lists[1] /\ flat[0] = <<>> BY <1>6, <2>1
    <3> HIDE DEF flat
    <3> QED BY <2>1, <3>1
  <2>2. CASE i # 1
    <3>1. i - 1 \in 0..n /\ i - 1 # 0 /\ i # 0 /\ i \in 0..n BY <2>2
    <3>2. flat[i] = built[i] /\ flat[i - 1] = built[i - 1] BY <3>1
    <3>3. built[i] = built[i - 1] \o lists[i] BY <1>6, <2>2
    <3> HIDE DEF flat
    <3> QED BY <3>2, <3>3
  <2> QED BY <2>1, <2>2
<1>12. flat[n] = FlattenSeq(lists)
  <2>1. CASE n = 0
    <3>1. FlattenSeq(lists) = lists /\ lists = <<>> BY <1>1, <2>1 DEF FlattenSeq
    <3> QED BY <2>1, <3>1
  <2>2. CASE n # 0
    <3>1. FlattenSeq(lists) = built[n]
      BY <1>1, <2>2, Zenon DEF FlattenSeq, built
    <3> QED BY <2>2, <3>1
  <2> QED BY <2>1, <2>2
<1>13. flat[0] = <<>> OBVIOUS
<1> HIDE DEF flat
<1> QED BY <1>10, <1>11, <1>12, <1>13 DEF Joins

\* What FlattenSeq makes of lists over S is a list over S.
LEMMA FlattenedIn ==
  ASSUME NEW S, NEW n \in Nat, NEW lists \in [1..n -> Seq(S)]
  PROVE  FlattenSeq(lists) \in Seq(S)
<1>1. PICK flat : Joins(flat, lists, n, S) BY FlatSteps
<1> QED BY <1>1 DEF Joins

\* One list more comes at the end.
LEMMA FlattenedMore ==
  ASSUME NEW S, NEW n \in Nat, NEW lists \in [1..n -> Seq(S)], NEW more \in [1..n + 1 -> Seq(S)],
         \A i \in 1..n : more[i] = lists[i]
  PROVE  FlattenSeq(more) = FlattenSeq(lists) \o more[n + 1]
<1>1. PICK flat : Joins(flat, lists, n, S) BY FlatSteps
<1>2. n + 1 \in Nat OBVIOUS
<1>3. PICK longer : Joins(longer, more, n + 1, S) BY <1>2, FlatSteps
<1> DEFINE D == {i \in Nat : i \in 0..n => longer[i] = flat[i]}
<1>4. 0 \in D BY <1>1, <1>3 DEF Joins
<1>5. ASSUME NEW k \in Nat, k \in D PROVE k + 1 \in D
  <2> SUFFICES ASSUME k + 1 \in 0..n PROVE longer[k + 1] = flat[k + 1] OBVIOUS
  <2>1. k \in 0..n /\ k + 1 \in 1..n /\ k + 1 \in 1..n + 1 /\ (k + 1) - 1 = k OBVIOUS
  <2>2. longer[k] = flat[k] BY <1>5, <2>1
  <2>3. longer[k + 1] = longer[k] \o more[k + 1] /\ flat[k + 1] = flat[k] \o lists[k + 1]
    BY <1>1, <1>3, <2>1 DEF Joins
  <2> QED BY <2>1, <2>2, <2>3
<1>6. longer[n] = flat[n]
  <2> HIDE DEF D
  <2>1. Nat \subseteq D BY <1>4, <1>5, AllNaturals
  <2> QED BY <2>1 DEF D
<1>7. longer[n + 1] = longer[n] \o more[n + 1]
  <2>1. n + 1 \in 1..n + 1 /\ (n + 1) - 1 = n OBVIOUS
  <2> QED BY <1>3, <2>1 DEF Joins
<1> QED BY <1>1, <1>3, <1>6, <1>7 DEF Joins

-----------------------------------------------------------------------------
(* Sorted lists.                                                           *)

\* Numbers in ascending order: each comes after as many as are smaller.
LEMMA Ascending ==
  ASSUME NEW T \in SUBSET Nat, IsFiniteSet(T)
  PROVE  /\ ListsOnce(Rising(T), T)
         /\ \A i \in 1..Cardinality(T) : Cardinality({d \in T : d < Rising(T)[i]}) = i - 1
         /\ \A e \in T : /\ Cardinality({d \in T : d < e}) + 1 \in 1..Cardinality(T)
                         /\ Rising(T)[Cardinality({d \in T : d < e}) + 1] = e
<1> DEFINE c == Cardinality(T)
           R == {p \in T \X T : p[1] < p[2]}
           Before(e) == {d \in T : d < e}
           list == Rising(T)
<1>1. \A e \in T : RankIn(T, R, e) = Cardinality(Before(e))
  <2> TAKE e \in T
  <2>1. {d \in T : <<d, e>> \in R} = Before(e) OBVIOUS
  <2> HIDE DEF R, Before
  <2> QED BY <2>1 DEF RankIn
<1>2. /\ \A d \in T : <<d, d>> \notin R
      /\ \A d, e \in T : d # e => <<d, e>> \in R \/ <<e, d>> \in R
      /\ \A x, d, e \in T : <<x, d>> \in R /\ <<d, e>> \in R => <<x, e>> \in R
  OBVIOUS
<1>3. /\ \A n \in 1..c : \E e \in T : RankIn(T, R, e) = n - 1
      /\ \A some \in [1..c -> T] :
            (\A i \in 1..c : RankIn(T, R, some[i]) = i - 1) => ListsOnce(some, T)
  <2> HIDE DEF R
  <2> QED BY <1>2, RanksFill
<1>4. list = [i \in 1..c |-> CHOOSE e \in T : Cardinality(Before(e)) = i - 1]
  BY DEF Rising, Ranked
<1>5. \A i \in 1..c : list[i] \in T /\ Cardinality(Before(list[i])) = i - 1
  <2> HIDE DEF c, R, Before, list
  <2> TAKE i \in 1..c
  <2>1. \E e \in T : Cardinality(Before(e)) = i - 1 BY <1>1, <1>3
  <2> QED BY <1>4, <2>1
<1>6. ListsOnce(list, T)
  <2> HIDE DEF c, R, Before, list
  <2>1. list \in [1..c -> T] BY <1>4, <1>5
  <2> QED BY <1>1, <1>3, <1>5, <2>1
<1>7. ASSUME NEW e \in T
      PROVE  Cardinality(Before(e)) + 1 \in 1..c /\ list[Cardinality(Before(e)) + 1] = e
  <2>1. c \in Nat BY FS_CardinalityType
  <2>2. PICK i \in 1..c : list[i] = e BY <1>6 DEF ListsOnce
  <2>3. Cardinality(Before(e)) = i - 1 BY <1>5, <2>2
  <2> HIDE DEF c, Before, list
  <2>4. Cardinality(Before(e)) + 1 = i BY <2>1, <2>3
  <2> QED BY <2>2, <2>4
<1> HIDE DEF c, R, list
<1> QED BY <1>5, <1>6, <1>7 DEF list, c

\* In descending order they come the other way around.
LEMMA Descending ==
  ASSUME NEW T \in SUBSET Nat, IsFiniteSet(T)
  PROVE  /\ DOMAIN Falling(T) = 1..Cardinality(T)
         /\ \A i, j \in 1..Cardinality(T) :
                i + j = Cardinality(T) + 1 => Falling(T)[i] = Rising(T)[j]
<1> DEFINE c == Cardinality(T)
           Before(e) == {d \in T : d < e}
           After(e) == {d \in T : d > e}
           up == Rising(T)
           down == Falling(T)
<1>1. c \in Nat BY FS_CardinalityType
<1>2. \A e \in T : /\ Cardinality(After(e)) = c - 1 - Cardinality(Before(e))
                   /\ Cardinality(Before(e)) \in Nat
  <2> TAKE e \in T
  <2>1. IsFiniteSet(After(e)) /\ IsFiniteSet(Before(e)) /\ IsFiniteSet(T \ {e})
        /\ Cardinality(T \ {e}) = c - 1
    BY FS_Subset, FS_RemoveElement
  <2>2. T \ {e} = After(e) \cup Before(e) /\ After(e) \cap Before(e) = {}
    <3>1. \A d \in T : d \in Nat /\ e \in Nat OBVIOUS
    <3>2. \A d \in T : d # e <=> d > e \/ d < e BY <3>1
    <3>3. \A d \in T : ~(d > e /\ d < e) BY <3>1
    <3> QED BY <3>2, <3>3
  <2> HIDE DEF After, Before, c
  <2>3. Cardinality(T \ {e}) = Cardinality(After(e)) + Cardinality(Before(e)) - Cardinality({})
    BY <2>1, <2>2, FS_Union
  <2>4. Cardinality(After(e)) \in Nat /\ Cardinality(Before(e)) \in Nat /\ Cardinality({}) = 0
    BY <2>1, FS_CardinalityType, FS_EmptySet
  <2> QED BY <1>1, <2>1, <2>3, <2>4
<1>3. /\ ListsOnce(up, T)
      /\ \A i \in 1..c : Cardinality(Before(up[i])) = i - 1
  BY Ascending
<1>4. down = [i \in 1..c |-> CHOOSE e \in T : Cardinality(After(e)) = i - 1]
  BY DEF Falling, Ranked
<1>5. ASSUME NEW i \in 1..c, NEW k \in 1..c, i + k = c + 1 PROVE down[i] = up[k]
  <2> HIDE DEF c, Before, After, up, down
  <2>1. k = c + 1 - i BY <1>1, <1>5
  <2>2. up[k] \in T /\ Cardinality(Before(up[k])) = k - 1 BY <1>3, <2>1 DEF ListsOnce, c
  <2>3. Cardinality(After(up[k])) = i - 1
    <3>1. Cardinality(After(up[k])) = c - 1 - (k - 1) BY <1>2, <2>2
    <3> QED BY <1>1, <2>1, <3>1
  <2>4. ASSUME NEW e \in T, Cardinality(After(e)) = i - 1 PROVE e = up[k]
    <3>1. PICK j \in 1..c : up[j] = e BY <1>3 DEF ListsOnce, c
    <3>2. Cardinality(Before(e)) = j - 1 BY <1>3, <3>1
    <3>3. j = k BY <1>1, <1>2, <2>1, <2>4, <3>2
    <3> QED BY <3>1, <3>3
  <2> QED BY <1>4, <2>2, <2>3, <2>4
<1>6. DOMAIN down = 1..c
  <2> HIDE DEF c, After
  <2> QED BY <1>4
<1> HIDE DEF c, up, down
<1> QED BY <1>5, <1>6 DEF c, up, down
=============================================================================

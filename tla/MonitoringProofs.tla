-------------------------- MODULE MonitoringProofs --------------------------
(***************************************************************************)
(* What is proved of the modules of MCMonitoring, whatever the devices,    *)
(* bounds and limits.  RateSample: no rate is more than what was carried.  *)
(* SnapshotCache: nothing older than its limit is served.  NetStatic: no   *)
(* byte is counted twice, no goroutine is out of reach of SetNewConfig and *)
(* Stop, and the history in the file is never saved over by less.  And the *)
(* rules: for every machine, list and date, a report says what they        *)
(* promise.                                                                *)
(***************************************************************************)
EXTENDS MCMonitoring, FiniteSetTheorems, SequenceTheorems, WellFoundedInduction, TLAPS

(***************************************************************************)
(* Sums.                                                                   *)
(***************************************************************************)

\* A set of naturals has a least element: induction, without a predicate for a
\* parameter.
LEMMA LeastElement ==
  ASSUME NEW T \in SUBSET Nat, T # {}
  PROVE  \E n \in T : \A m \in T : n <= m
<1> DEFINE R == {ss \in Nat \X Nat : ss[1] < ss[2]}
<1>1. IsWellFoundedOn(R, Nat)
  BY NatLessThanWellFounded, Zenon DEF OpToRel
<1>2. \E n \in T : \A m \in T : ~ (<<m, n>> \in R)
  <2> HIDE DEF R
  <2>1. QED
    BY <1>1, WFMin
<1>3. PICK n \in T : \A m \in T : ~ (<<m, n>> \in R)
  BY <1>2
<1>4. ASSUME NEW m \in T PROVE n <= m
  <2>1. ~ (<<m, n>> \in R) /\ m \in Nat /\ n \in Nat
    BY <1>3
  <2>2. ~ (m < n)
    BY <2>1
  <2>3. QED
    BY <2>1, <2>2
<1>5. QED
  BY <1>4

Some(s) == CHOOSE x \in s : TRUE

\* g adds f up over every set of D, one element after the other.
Adds(g, f, D) ==
  g = [s \in D |-> IF s = {} THEN 0 ELSE f[Some(s)] + g[s \ {Some(s)}]]

LEMMA SumIs ==
  ASSUME NEW f, NEW S
  PROVE  SumFunctionOnSet(f, S) = (CHOOSE g : Adds(g, f, SUBSET S))[S]
BY Zenon DEF SumFunctionOnSet, FoldFunctionOnSet, MapThenFoldSet, Adds, Some

\* The subsets of S with no more than n elements.
Upto(S, n) == {s \in SUBSET S : Cardinality(s) <= n}

LEMMA SmallerSets ==
  ASSUME NEW S, IsFiniteSet(S), NEW s \in SUBSET S
  PROVE  /\ IsFiniteSet(s) /\ Cardinality(s) \in Nat
         /\ s = {} <=> Cardinality(s) = 0
         /\ \A x \in s : IsFiniteSet(s \ {x}) /\ Cardinality(s \ {x}) = Cardinality(s) - 1
BY FS_Subset, FS_CardinalityType, FS_EmptySet, FS_RemoveElement

LEMMA SomeIn == \A s : s # {} => Some(s) \in s
BY DEF Some

\* There is such a function: it is continued from the smaller sets to the greater.
LEMMA AddsExists ==
  ASSUME NEW f, NEW S, IsFiniteSet(S)
  PROVE  \E g : Adds(g, f, SUBSET S)
<1> DEFINE T == {n \in Nat : ~ \E g : Adds(g, f, Upto(S, n))}
<1>1. ASSUME T # {} PROVE FALSE
  <2>1. PICK n \in T : \A m \in T : n <= m
    <3> HIDE DEF T
    <3>1. T \in SUBSET Nat
      BY DEF T
    <3>2. QED
      BY <1>1, <3>1, LeastElement
  <2>2. CASE n = 0
    <3> DEFINE g == [s \in Upto(S, 0) |-> 0]
    <3>1. Upto(S, 0) = {{}}
      BY SmallerSets DEF Upto
    <3>2. g = [s \in Upto(S, 0) |-> IF s = {} THEN 0 ELSE f[Some(s)] + g[s \ {Some(s)}]]
      BY <3>1
    <3>3. QED
      BY <2>2, <3>2 DEF Adds
  <2>3. CASE n # 0
    <3>1. n - 1 \in Nat /\ n - 1 \notin T
      BY <2>1, <2>3
    <3>2. PICK g : Adds(g, f, Upto(S, n - 1))
      BY <3>1
    <3> DEFINE h == [s \in Upto(S, n) |-> IF s = {} THEN 0 ELSE f[Some(s)] + g[s \ {Some(s)}]]
    <3>3. ASSUME NEW s \in Upto(S, n), s # {}
          PROVE  g[s \ {Some(s)}] = h[s \ {Some(s)}]
      <4> DEFINE t == s \ {Some(s)}
      <4>1. t \in Upto(S, n - 1) /\ t \in Upto(S, n)
        BY <2>1, <3>3, SmallerSets, SomeIn DEF Upto
      <4>2. g[t] = IF t = {} THEN 0 ELSE f[Some(t)] + g[t \ {Some(t)}]
        BY <3>2, <4>1, Zenon DEF Adds
      <4>3. h[t] = IF t = {} THEN 0 ELSE f[Some(t)] + g[t \ {Some(t)}]
        BY <4>1
      <4>4. QED
        BY <4>2, <4>3
    <3>4. h = [s \in Upto(S, n) |-> IF s = {} THEN 0 ELSE f[Some(s)] + h[s \ {Some(s)}]]
      BY <3>3
    <3>5. QED
      BY <2>1, <3>4 DEF Adds
  <2>4. QED
    BY <2>2, <2>3
<1>2. Cardinality(S) \in Nat
  BY FS_CardinalityType
<1>3. Upto(S, Cardinality(S)) = SUBSET S
  BY FS_Subset, FS_CardinalityType DEF Upto
<1>4. \E g : Adds(g, f, Upto(S, Cardinality(S)))
  BY <1>1, <1>2, Zenon
<1>5. QED
  BY <1>3, <1>4

\* And of a set it says the same wherever it is defined.
LEMMA AddsAgree ==
  ASSUME NEW f, NEW S, IsFiniteSet(S), NEW R \in SUBSET S, NEW g, NEW h,
         Adds(g, f, SUBSET S), Adds(h, f, SUBSET R)
  PROVE  \A t \in SUBSET R : g[t] = h[t]
<1> DEFINE T == {n \in Nat : \E t \in SUBSET R : Cardinality(t) = n /\ g[t] # h[t]}
<1>1. ASSUME T # {} PROVE FALSE
  <2>1. PICK n \in T : \A m \in T : n <= m
    <3> HIDE DEF T
    <3>1. T \in SUBSET Nat
      BY DEF T
    <3>2. QED
      BY <1>1, <3>1, LeastElement
  <2>2. PICK t \in SUBSET R : Cardinality(t) = n /\ g[t] # h[t]
    BY <2>1
  <2>3. /\ g[t] = IF t = {} THEN 0 ELSE f[Some(t)] + g[t \ {Some(t)}]
        /\ h[t] = IF t = {} THEN 0 ELSE f[Some(t)] + h[t \ {Some(t)}]
    <3>1. t \in SUBSET S
      OBVIOUS
    <3>2. QED
      BY <3>1, Zenon DEF Adds
  <2>4. t # {}
    BY <2>2, <2>3
  <2>5. t \ {Some(t)} \in SUBSET R /\ Cardinality(t \ {Some(t)}) = n - 1 /\ n - 1 \in Nat
    BY <2>2, <2>4, SmallerSets, SomeIn
  <2>6. g[t \ {Some(t)}] = h[t \ {Some(t)}]
    BY <2>1, <2>5
  <2>7. QED
    BY <2>2, <2>3, <2>4, <2>6
<1>2. \A t \in SUBSET R : Cardinality(t) \in Nat
  BY SmallerSets
<1>3. QED
  BY <1>1, <1>2

\* A sum over nothing, and over something.
LEMMA SumUnfolds ==
  ASSUME NEW f, NEW S, IsFiniteSet(S)
  PROVE  SumFunctionOnSet(f, S) =
           IF S = {} THEN 0 ELSE f[Some(S)] + SumFunctionOnSet(f, S \ {Some(S)})
<1>1. PICK R \in SUBSET S : R = S \ {Some(S)}
  OBVIOUS
<1>2. IsFiniteSet(R)
  BY FS_Subset
<1>3. PICK g : g = (CHOOSE x : Adds(x, f, SUBSET S)) /\ Adds(g, f, SUBSET S)
  BY AddsExists, Zenon
<1>4. PICK h : h = (CHOOSE x : Adds(x, f, SUBSET R)) /\ Adds(h, f, SUBSET R)
  BY <1>2, AddsExists, Zenon
<1>5. SumFunctionOnSet(f, S) = g[S] /\ SumFunctionOnSet(f, R) = h[R]
  BY <1>3, <1>4, SumIs, Zenon
<1>6. \A t \in SUBSET R : g[t] = h[t]
  <2>1. Adds(g, f, SUBSET S) /\ Adds(h, f, SUBSET R)
    BY <1>3, <1>4
  <2>2. QED
    BY <2>1, AddsAgree, SMTT(60)
<1>7. g[S] = IF S = {} THEN 0 ELSE f[Some(S)] + g[R]
  <2>1. g[S] = IF S = {} THEN 0 ELSE f[Some(S)] + g[S \ {Some(S)}]
    BY <1>3, Zenon DEF Adds
  <2>2. QED
    BY <1>1, <2>1
<1>8. QED
  BY <1>1, <1>5, <1>6, <1>7

LEMMA SumEmpty == \A f : SumFunctionOnSet(f, {}) = 0
BY FS_EmptySet, SumUnfolds

LEMMA SumInt ==
  ASSUME NEW f, NEW U, IsFiniteSet(U), \A x \in U : f[x] \in Int
  PROVE  \A S \in SUBSET U : SumFunctionOnSet(f, S) \in Int
<1> DEFINE T == {n \in Nat : \E S \in SUBSET U : Cardinality(S) = n /\ SumFunctionOnSet(f, S) \notin Int}
<1>1. ASSUME T # {} PROVE FALSE
  <2>1. PICK n \in T : \A m \in T : n <= m
    <3> HIDE DEF T
    <3>1. T \in SUBSET Nat
      BY DEF T
    <3>2. QED
      BY <1>1, <3>1, LeastElement
  <2>2. PICK S \in SUBSET U : Cardinality(S) = n /\ SumFunctionOnSet(f, S) \notin Int
    BY <2>1
  <2>3. IsFiniteSet(S)
    BY SmallerSets
  <2>4. S # {}
    BY <2>2, SumEmpty
  <2>5. S \ {Some(S)} \in SUBSET U /\ Cardinality(S \ {Some(S)}) = n - 1 /\ n - 1 \in Nat /\ Some(S) \in U
    BY <2>2, <2>4, SmallerSets, SomeIn
  <2>6. SumFunctionOnSet(f, S \ {Some(S)}) \in Int
    BY <2>1, <2>5
  <2>7. QED
    BY <2>2, <2>3, <2>4, <2>5, <2>6, SumUnfolds
<1>2. \A S \in SUBSET U : Cardinality(S) \in Nat
  BY SmallerSets
<1>3. QED
  BY <1>1, <1>2

\* The order does not matter: any element may be the first.
LEMMA SumTakes ==
  ASSUME NEW f, NEW U, IsFiniteSet(U), \A x \in U : f[x] \in Int
  PROVE  \A S \in SUBSET U : \A x \in S :
           SumFunctionOnSet(f, S) = f[x] + SumFunctionOnSet(f, S \ {x})
<1> DEFINE Wrong(S, x) == SumFunctionOnSet(f, S) # f[x] + SumFunctionOnSet(f, S \ {x})
           T == {n \in Nat : \E S \in SUBSET U : Cardinality(S) = n /\ \E x \in S : Wrong(S, x)}
<1>1. ASSUME T # {} PROVE FALSE
  <2>1. PICK n \in T : \A m \in T : n <= m
    <3> HIDE DEF T
    <3>1. T \in SUBSET Nat
      BY DEF T
    <3>2. QED
      BY <1>1, <3>1, LeastElement
  <2>2. PICK S \in SUBSET U : Cardinality(S) = n /\ \E x \in S : Wrong(S, x)
    BY <2>1
  <2>3. PICK x \in S : Wrong(S, x)
    BY <2>2
  <2> DEFINE y == Some(S)
  <2>4. y \in S /\ SumFunctionOnSet(f, S) = f[y] + SumFunctionOnSet(f, S \ {y})
    BY SmallerSets, SomeIn, SumUnfolds
  <2>5. x # y
    BY <2>3, <2>4
  <2>6. /\ S \ {y} \in SUBSET U /\ Cardinality(S \ {y}) = n - 1
        /\ S \ {x} \in SUBSET U /\ Cardinality(S \ {x}) = n - 1
        /\ n - 1 \in Nat
    BY <2>2, <2>4, SmallerSets
  <2> HIDE DEF y
  <2>7. \A R \in SUBSET U : Cardinality(R) = n - 1 => \A z \in R : ~Wrong(R, z)
    <3>1. n - 1 \notin T
      BY <2>1, <2>6
    <3>2. QED
      BY <2>6, <3>1
  <2>8. (S \ {y}) \ {x} = (S \ {x}) \ {y}
    OBVIOUS
  <2>9. /\ SumFunctionOnSet(f, S \ {y}) = f[x] + SumFunctionOnSet(f, (S \ {x}) \ {y})
        /\ SumFunctionOnSet(f, S \ {x}) = f[y] + SumFunctionOnSet(f, (S \ {x}) \ {y})
    BY <2>4, <2>5, <2>6, <2>7, <2>8
  <2>10. /\ f[x] \in Int /\ f[y] \in Int
         /\ SumFunctionOnSet(f, (S \ {x}) \ {y}) \in Int
    BY <2>4, SumInt
  <2>11. QED
    BY <2>3, <2>4, <2>9, <2>10
<1>2. \A S \in SUBSET U : Cardinality(S) \in Nat
  BY SmallerSets
<1>3. QED
  BY <1>1, <1>2

\* A sum is about the values it adds up, and they about it.
LEMMA SumSame ==
  ASSUME NEW f, NEW g, NEW U, IsFiniteSet(U), \A x \in U : f[x] \in Nat /\ g[x] = f[x]
  PROVE  \A S \in SUBSET U : SumFunctionOnSet(g, S) = SumFunctionOnSet(f, S) /\ SumFunctionOnSet(f, S) \in Nat
<1> DEFINE Wrong(S) == SumFunctionOnSet(g, S) # SumFunctionOnSet(f, S) \/ SumFunctionOnSet(f, S) \notin Nat
           T == {n \in Nat : \E S \in SUBSET U : Cardinality(S) = n /\ Wrong(S)}
<1>1. ASSUME T # {} PROVE FALSE
  <2>1. PICK n \in T : \A m \in T : n <= m
    <3> HIDE DEF T
    <3>1. T \in SUBSET Nat
      BY DEF T
    <3>2. QED
      BY <1>1, <3>1, LeastElement
  <2>2. PICK S \in SUBSET U : Cardinality(S) = n /\ Wrong(S)
    BY <2>1
  <2>3. IsFiniteSet(S)
    BY SmallerSets
  <2>4. S # {}
    BY <2>2, SumEmpty
  <2>5. S \ {Some(S)} \in SUBSET U /\ Cardinality(S \ {Some(S)}) = n - 1 /\ n - 1 \in Nat /\ Some(S) \in U
    BY <2>2, <2>4, SmallerSets, SomeIn
  <2>6. ~Wrong(S \ {Some(S)})
    BY <2>1, <2>5
  <2>7. QED
    BY <2>2, <2>3, <2>4, <2>5, <2>6, SumUnfolds
<1>2. \A S \in SUBSET U : Cardinality(S) \in Nat
  BY SmallerSets
<1>3. QED
  BY <1>1, <1>2

LEMMA SumZero ==
  ASSUME NEW f, NEW U, IsFiniteSet(U), \A x \in U : f[x] = 0
  PROVE  \A S \in SUBSET U : SumFunctionOnSet(f, S) = 0
<1> DEFINE T == {n \in Nat : \E S \in SUBSET U : Cardinality(S) = n /\ SumFunctionOnSet(f, S) # 0}
<1>1. ASSUME T # {} PROVE FALSE
  <2>1. PICK n \in T : \A m \in T : n <= m
    <3> HIDE DEF T
    <3>1. T \in SUBSET Nat
      BY DEF T
    <3>2. QED
      BY <1>1, <3>1, LeastElement
  <2>2. PICK S \in SUBSET U : Cardinality(S) = n /\ SumFunctionOnSet(f, S) # 0
    BY <2>1
  <2>3. IsFiniteSet(S)
    BY SmallerSets
  <2>4. S # {}
    BY <2>2, SumEmpty
  <2>5. S \ {Some(S)} \in SUBSET U /\ Cardinality(S \ {Some(S)}) = n - 1 /\ n - 1 \in Nat /\ Some(S) \in U
    BY <2>2, <2>4, SmallerSets, SomeIn
  <2>6. SumFunctionOnSet(f, S \ {Some(S)}) = 0
    BY <2>1, <2>5
  <2>7. QED
    BY <2>2, <2>3, <2>4, <2>5, <2>6, SumUnfolds
<1>2. \A S \in SUBSET U : Cardinality(S) \in Nat
  BY SmallerSets
<1>3. QED
  BY <1>1, <1>2

\* When one value grows by one, so does a sum it is in.
LEMMA SumGrows ==
  ASSUME NEW f, NEW g, NEW S, IsFiniteSet(S), NEW d,
         \A x \in S : f[x] \in Nat /\ g[x] = IF x = d THEN f[x] + 1 ELSE f[x]
  PROVE  SumFunctionOnSet(g, S) = SumFunctionOnSet(f, S) + (IF d \in S THEN 1 ELSE 0)
<1>1. SumFunctionOnSet(f, S) \in Nat
  BY SumSame
<1>2. CASE d \in S
  <2>1. IsFiniteSet(S \ {d}) /\ \A x \in S \ {d} : f[x] \in Nat /\ g[x] = f[x]
    BY FS_Subset
  <2>2. SumFunctionOnSet(g, S \ {d}) = SumFunctionOnSet(f, S \ {d}) /\ SumFunctionOnSet(f, S \ {d}) \in Nat
    BY <2>1, SumSame
  <2>3. \A x \in S : f[x] \in Int /\ g[x] \in Int
    OBVIOUS
  <2>4. /\ SumFunctionOnSet(f, S) = f[d] + SumFunctionOnSet(f, S \ {d})
        /\ SumFunctionOnSet(g, S) = g[d] + SumFunctionOnSet(g, S \ {d})
    BY <1>2, <2>3, SumTakes
  <2>5. QED
    BY <1>2, <2>2, <2>4
<1>3. CASE d \notin S
  <2>1. SumFunctionOnSet(g, S) = SumFunctionOnSet(f, S)
    BY <1>3, SumSame
  <2>2. QED
    BY <1>1, <1>3, <2>1
<1>4. QED
  BY <1>2, <1>3

(***************************************************************************)
(* The rates.                                                              *)
(***************************************************************************)

RateTyped ==
  /\ counter \in [Devices -> Nat \cup {Absent}]
  /\ passed \in [Devices -> Nat]

\* A disk that was sampled has counted from there, and one that has been there
\* all the time has counted all that it carried.
DiskCounted ==
  \A d \in Devices \cap DOMAIN sample :
    /\ sample[d] \in Nat /\ counter[d] <= sample[d] + passed[d]
    /\ d \in stayed => counter[d] = sample[d] + passed[d]

\* The same of the sum of the interfaces, which come and go with their counters.
NetCounted ==
  /\ sample \in Nat
  /\ NetworkTotal <= sample + SumFunctionOnSet(passed, Included)
  /\ Included \subseteq stayed => NetworkTotal = sample + SumFunctionOnSet(passed, Included)

RateInv ==
  /\ part \in {"net", "disk"}
  /\ RateTyped
  /\ part = "disk" /\ sample # NoSample => DiskCounted
  /\ part = "net" /\ sample # NoSample => NetCounted
  /\ RatesAreReal

\* What is added up is finite, and counts.
LEMMA Countable ==
  ASSUME RateTyped
  PROVE  /\ IsFiniteSet(Included) /\ IsFiniteSet(Present \cap Included)
         /\ \A d \in Included : passed[d] \in Nat
         /\ \A d \in Present \cap Included : counter[d] \in Nat
         /\ NetworkTotal \in Nat
         /\ SumFunctionOnSet(passed, Included) \in Nat
<1>1. IsFiniteSet(Included) /\ IsFiniteSet(Present \cap Included)
  BY RateConstants, FS_Subset DEF Included
<1>2. \A d \in Included : passed[d] \in Nat
  BY DEF RateTyped, Included
<1>3. \A d \in Present \cap Included : counter[d] \in Nat
  BY DEF RateTyped, Present
<1>4. NetworkTotal \in Nat
  BY <1>1, <1>3, SumSame DEF NetworkTotal
<1>5. SumFunctionOnSet(passed, Included) \in Nat
  BY <1>1, <1>2, SumSame
<1>6. QED
  BY <1>1, <1>2, <1>3, <1>4, <1>5

LEMMA CountKeeps ==
  ASSUME RateInv, NEW d \in Devices, Count(d)
  PROVE  RateInv'
<1>1. /\ counter' = [counter EXCEPT ![d] = @ + 1] /\ counter[d] \in Nat
      /\ passed' = [passed EXCEPT ![d] = @ + 1]
      /\ rates' = NoRates /\ UNCHANGED <<part, sample, stayed>>
  BY RateConstants DEF Count
<1>2. RateTyped /\ RateTyped'
  BY <1>1 DEF RateInv, RateTyped
<1>3. ASSUME DiskCounted PROVE DiskCounted'
  BY <1>1, <1>2, <1>3 DEF DiskCounted, RateTyped, Absent
<1>4. ASSUME NetCounted PROVE NetCounted'
  <2>1. Present' = Present /\ d \in Present
    BY <1>1, <1>2 DEF Present, RateTyped, Absent
  <2>2. \A e \in Present \cap Included : counter'[e] = IF e = d THEN counter[e] + 1 ELSE counter[e]
    BY <1>1, <1>2 DEF RateTyped, Present
  <2>3. NetworkTotal' = NetworkTotal + (IF d \in Present \cap Included THEN 1 ELSE 0)
    <3>1. SumFunctionOnSet(counter', Present \cap Included)
            = SumFunctionOnSet(counter, Present \cap Included) + (IF d \in Present \cap Included THEN 1 ELSE 0)
      <4>1. /\ IsFiniteSet(Present \cap Included)
            /\ \A e \in Present \cap Included :
                 counter[e] \in Nat /\ counter'[e] = IF e = d THEN counter[e] + 1 ELSE counter[e]
        BY <1>2, <2>2, Countable
      <4>2. QED
        BY <4>1, SumGrows, Zenon
    <3>2. QED
      BY <2>1, <3>1 DEF NetworkTotal
  <2>4. \A e \in Included : passed'[e] = IF e = d THEN passed[e] + 1 ELSE passed[e]
    BY <1>1, <1>2 DEF RateTyped, Included
  <2>5. SumFunctionOnSet(passed', Included) = SumFunctionOnSet(passed, Included) + (IF d \in Included THEN 1 ELSE 0)
    BY <1>2, <2>4, Countable, SumGrows
  <2>6. NetworkTotal \in Nat /\ SumFunctionOnSet(passed, Included) \in Nat
    BY <1>2, Countable
  <2>7. QED
    BY <1>1, <1>4, <2>1, <2>3, <2>5, <2>6 DEF NetCounted
<1>5. QED
  BY <1>1, <1>2, <1>3, <1>4 DEF RateInv, NoRates, RatesAreReal

LEMMA ComeOrGoKeeps ==
  ASSUME RateInv, NEW d \in Devices, ComeOrGo(d)
  PROVE  RateInv'
<1>1. /\ counter' = [counter EXCEPT ![d] = IF @ = Absent THEN 0 ELSE Absent]
      /\ stayed' = stayed \ {d}
      /\ rates' = NoRates /\ UNCHANGED <<part, sample, passed>>
  BY DEF ComeOrGo
<1>2. RateTyped /\ RateTyped'
  BY <1>1 DEF RateInv, RateTyped
<1>3. ASSUME DiskCounted PROVE DiskCounted'
  BY <1>1, <1>2, <1>3 DEF DiskCounted, RateTyped, Absent
<1>4. ASSUME NetCounted PROVE NetCounted'
  <2> DEFINE S == Present \cap Included
  <2>1. NetworkTotal \in Nat /\ SumFunctionOnSet(passed, Included) \in Nat /\ NetworkTotal' \in Nat
    <3>1. NetworkTotal' \in Nat
      <4>1. PICK R : R = Present' \cap Included
        OBVIOUS
      <4>2. \A e \in R : counter'[e] \in Nat
        BY <1>2, <4>1 DEF RateTyped, Present
      <4>3. IsFiniteSet(R)
        BY <1>2, <4>1, Countable, FS_Subset
      <4>4. SumFunctionOnSet(counter', R) \in Nat
        BY <4>2, <4>3, SumSame
      <4>5. QED
        BY <4>1, <4>4 DEF NetworkTotal
    <3>2. QED
      BY <1>2, <3>1, Countable
  <2>2. /\ IsFiniteSet(S) /\ \A e \in S : counter[e] \in Nat
        /\ NetworkTotal = SumFunctionOnSet(counter, S)
    BY <1>2, Countable DEF NetworkTotal
  <2>3. CASE d \in Present
    <3>1. Present' \cap Included = S \ {d} /\ \A e \in S \ {d} : counter'[e] = counter[e]
      BY <1>1, <1>2, <2>3 DEF Present, RateTyped, Absent
    <3>2. IsFiniteSet(S \ {d}) /\ \A e \in S \ {d} : counter[e] \in Nat
      BY <2>2, FS_Subset
    <3>3. NetworkTotal' = SumFunctionOnSet(counter, S \ {d})
      <4>1. SumFunctionOnSet(counter', S \ {d}) = SumFunctionOnSet(counter, S \ {d})
        BY <3>1, <3>2, SumSame
      <4>2. QED
        BY <3>1, <4>1 DEF NetworkTotal
    <3>4. CASE d \in Included
      <4>1. SumFunctionOnSet(counter, S) = counter[d] + SumFunctionOnSet(counter, S \ {d})
        <5>1. \A e \in S : counter[e] \in Int
          BY <2>2
        <5>2. QED
          BY <2>2, <2>3, <3>4, <5>1, SumTakes
      <4>2. counter[d] \in Nat
        BY <2>2, <2>3, <3>4
      <4>3. NetworkTotal' <= NetworkTotal
        BY <2>1, <2>2, <3>3, <4>1, <4>2
      <4>4. QED
        BY <1>1, <1>4, <2>1, <3>4, <4>3 DEF NetCounted
    <3>5. CASE d \notin Included
      <4>1. S \ {d} = S
        BY <3>5
      <4>2. NetworkTotal' = NetworkTotal
        BY <2>2, <3>3, <4>1
      <4>3. QED
        BY <1>1, <1>4, <4>2 DEF NetCounted
    <3>6. QED
      BY <3>4, <3>5
  <2>4. CASE d \notin Present
    <3>1. \A e \in S : counter'[e] = counter[e]
      BY <1>1, <2>4
    <3>2. SumFunctionOnSet(counter', S) = NetworkTotal
      BY <2>2, <3>1, SumSame
    <3>3. Present' = Present \cup {d} /\ counter'[d] = 0
      BY <1>1, <1>2, <2>4 DEF Present, RateTyped, Absent
    <3>4. CASE d \in Included
      <4>1. PICK R : R = S \cup {d}
        OBVIOUS
      <4>2. Present' \cap Included = R /\ R \ {d} = S /\ d \in R
        BY <2>4, <3>3, <3>4, <4>1
      <4>3. IsFiniteSet(R) /\ \A e \in R : counter'[e] \in Int
        BY <2>2, <3>1, <3>3, <4>1, FS_AddElement
      <4>4. SumFunctionOnSet(counter', R) = counter'[d] + SumFunctionOnSet(counter', R \ {d})
        BY <4>2, <4>3, SumTakes
      <4>5. NetworkTotal' = NetworkTotal
        <5>1. NetworkTotal' = SumFunctionOnSet(counter', R)
          BY <4>2 DEF NetworkTotal
        <5>2. SumFunctionOnSet(counter', R \ {d}) = NetworkTotal
          BY <3>2, <4>2
        <5>3. QED
          BY <2>1, <3>3, <4>4, <5>1, <5>2
      <4>6. QED
        BY <1>1, <1>4, <3>4, <4>5 DEF NetCounted
    <3>5. CASE d \notin Included
      <4>1. Present' \cap Included = S
        BY <3>3, <3>5
      <4>2. NetworkTotal' = NetworkTotal
        BY <3>2, <4>1 DEF NetworkTotal
      <4>3. QED
        BY <1>1, <1>4, <4>2 DEF NetCounted
    <3>6. QED
      BY <3>4, <3>5
  <2>5. QED
    BY <2>3, <2>4
<1>5. QED
  BY <1>1, <1>2, <1>3, <1>4 DEF RateInv, NoRates, RatesAreReal

LEMMA NetworkKeeps == RateInv /\ NetworkSpeed => RateInv'
<1> SUFFICES ASSUME RateInv, NetworkSpeed PROVE RateInv'
  OBVIOUS
<1>1. part = "net" /\ UNCHANGED <<part, counter>>
  BY DEF NetworkSpeed
<1>2. CASE rates' = NoRates /\ UNCHANGED sampleVars
  BY <1>1, <1>2 DEF sampleVars, RateInv, RateTyped, NetCounted, NetworkTotal, Present, NoRates, RatesAreReal
<1>3. CASE Sampled(NetworkTotal)
  <2>1. sample' = NetworkTotal /\ passed' = NoBytes
    BY <1>3 DEF Sampled
  <2>2. RateTyped'
    BY <1>1, <2>1 DEF RateInv, RateTyped, NoBytes
  <2>3. NetCounted'
    <3>1. IsFiniteSet(Included) /\ \A d \in Included : NoBytes[d] = 0
      BY Countable DEF RateInv, NoBytes, Included
    <3>2. SumFunctionOnSet(passed', Included) = 0
      BY <2>1, <3>1, SumZero
    <3>3. NetworkTotal' = NetworkTotal
      BY <1>1 DEF NetworkTotal, Present
    <3>4. NetworkTotal \in Nat
      BY Countable DEF RateInv
    <3>5. QED
      BY <2>1, <3>2, <3>3, <3>4 DEF NetCounted
  <2>4. RatesAreReal'
    <3>1. CASE rates' = NoRates
      BY <3>1 DEF NoRates, RatesAreReal
    <3>2. CASE /\ sample # NoSample
               /\ rates' = [x \in {"all"} |->
                            Rate(safeDelta(NetworkTotal, sample),
                                 SumFunctionOnSet(passed, Included), Included \subseteq stayed)]
      <4>1. NetCounted /\ NetworkTotal \in Nat /\ SumFunctionOnSet(passed, Included) \in Nat
        BY <1>1, <3>2, Countable DEF RateInv
      <4>2. /\ safeDelta(NetworkTotal, sample) <= SumFunctionOnSet(passed, Included)
            /\ Included \subseteq stayed =>
                 safeDelta(NetworkTotal, sample) = SumFunctionOnSet(passed, Included)
        BY <4>1 DEF NetCounted, safeDelta
      <4>3. PICK r : r = Rate(safeDelta(NetworkTotal, sample),
                              SumFunctionOnSet(passed, Included), Included \subseteq stayed)
        OBVIOUS
      <4>4. /\ r.said = safeDelta(NetworkTotal, sample)
            /\ r.real = SumFunctionOnSet(passed, Included)
            /\ r.exact <=> Included \subseteq stayed
        BY <4>3 DEF Rate
      <4>5. r.said <= r.real /\ (r.exact => r.said = r.real)
        BY <4>2, <4>4
      <4>6. rates' = [x \in {"all"} |-> r]
        BY <3>2, <4>3
      <4>7. QED
        BY <4>5, <4>6 DEF RatesAreReal
    <3>3. QED
      BY <1>3, <3>1, <3>2 DEF NetworkSpeed
  <2>5. QED
    BY <1>1, <2>2, <2>3, <2>4 DEF RateInv
<1>4. QED
  BY <1>2, <1>3 DEF NetworkSpeed

LEMMA DiskKeeps == RateInv /\ DiskIO => RateInv'
<1> SUFFICES ASSUME RateInv, DiskIO PROVE RateInv'
  OBVIOUS
<1>1. part = "disk" /\ UNCHANGED <<part, counter>> /\ RateTyped
  BY DEF DiskIO, RateInv
<1>2. PICK targets \in SUBSET Devices :
        /\ rates' = IF sample # NoSample /\ elapsed
                    THEN computeDiskIORates(targets, sample, Restrict(counter, Present))
                    ELSE NoRates
        /\ Sampled(Restrict(counter, Present))
  BY DEF DiskIO
<1>3. /\ sample' = [d \in Present |-> counter[d]]
      /\ passed' = [d \in Devices |-> 0]
  BY <1>2 DEF Sampled, Restrict, NoBytes
<1>4. RateTyped' /\ DiskCounted'
  BY <1>1, <1>3 DEF RateTyped, DiskCounted, Present
<1>5. RatesAreReal'
  <2>1. CASE ~(sample # NoSample /\ elapsed)
    BY <1>2, <2>1 DEF NoRates, RatesAreReal
  <2>2. CASE sample # NoSample /\ elapsed
    <3>1. rates' = [d \in targets \cap DOMAIN sample \cap Present |->
                      [said |-> safeDelta(counter[d], sample[d]), real |-> passed[d], exact |-> d \in stayed]]
      BY <1>2, <2>2 DEF computeDiskIORates, Restrict, Rate
    <3>2. ASSUME NEW d \in targets, d \in DOMAIN sample, d \in Present
          PROVE  /\ safeDelta(counter[d], sample[d]) <= passed[d]
                 /\ d \in stayed => safeDelta(counter[d], sample[d]) = passed[d]
      BY <1>1, <2>2, <3>2 DEF RateInv, DiskCounted, RateTyped, Present, safeDelta
    <3>3. QED
      BY <3>1, <3>2 DEF RatesAreReal
  <2>3. QED
    BY <2>1, <2>2
<1>6. QED
  BY <1>1, <1>4, <1>5 DEF RateInv

\* However interfaces and disks come and go, no rate is more than what they have
\* carried since the sample it is taken from, and it is exactly that when they
\* have been there all the time.
THEOREM RatesCorrect == RateSpec => []RatesAreReal
<1>1. RateInit => RateInv
  BY DEF RateInit, RateInv, RateTyped, NoBytes, NoRates, RatesAreReal
<1>2. RateInv /\ [RateNext]_rateVars => RateInv'
  <2> SUFFICES ASSUME RateInv, [RateNext]_rateVars PROVE RateInv'
    OBVIOUS
  <2>1. CASE ClockAdvances \/ NoReport
    <3>1. rates' = NoRates /\ UNCHANGED <<part, counter, sample, passed, stayed>>
      BY <2>1 DEF ClockAdvances, NoReport, sampleVars
    <3>2. QED
      BY <3>1 DEF RateInv, RateTyped, DiskCounted, NetCounted, NetworkTotal, Present, NoRates, RatesAreReal
  <2>2. CASE UNCHANGED rateVars
    BY <2>2 DEF rateVars, RateInv, RateTyped, DiskCounted, NetCounted, NetworkTotal, Present, RatesAreReal
  <2>3. QED
    BY <2>1, <2>2, CountKeeps, ComeOrGoKeeps, NetworkKeeps, DiskKeeps DEF RateNext
<1>3. RateInv => RatesAreReal
  BY DEF RateInv
<1>4. QED
  BY <1>1, <1>2, <1>3, PTL DEF RateSpec

(***************************************************************************)
(* The caches.                                                             *)
(***************************************************************************)

\* Ages and times, which stop one beyond what they are compared with.
CacheTyped ==
  /\ fetchAge \in Nat /\ told \in Nat /\ request \in 0 .. Idle
  /\ fails \in Nat /\ missed \in Nat
  /\ walkAge \in Nat /\ begun \in Nat
  /\ holder = [who |-> holder.who, time |-> holder.time] /\ holder.time \in 0 .. WalkTime
  /\ used = [ok |-> used.ok, age |-> used.age] /\ used.age \in Nat

\* The snapshot is as old as its fetch and the request that brought it, and the
\* collector counts the failures since.
MinerKnown ==
  /\ fetchAge <= StaleAfter => told <= fetchAge + RequestTimeout
  /\ fails = missed

\* A cached size is as old as its walk's end and the walk.
WalkKnown == walkAge <= WalkTTL => begun <= walkAge + WalkTime

CacheInv == CacheTyped /\ MinerKnown /\ WalkKnown /\ SizeIsFresh

LEMMA Laters ==
  ASSUME NEW age \in Nat, NEW limit \in Nat
  PROVE  /\ Later(age, limit) \in Nat
         /\ age <= limit => Later(age, limit) = age + 1
         /\ Later(age, limit) <= limit => Later(age, limit) = age + 1
         /\ Later(age, limit) <= age + 1
BY DEF Later

LEMMA CacheStep == CacheInv /\ [CacheNext]_cacheVars => CacheInv'
<1> SUFFICES ASSUME CacheInv, [CacheNext]_cacheVars PROVE CacheInv'
  OBVIOUS
<1> USE CacheConstants
<1>1. CASE TimePasses
  <2>1. /\ fetchAge' = Later(fetchAge, StaleAfter)
        /\ told' = Later(told, StaleAfter + RequestTimeout)
        /\ request' = IF request = Idle THEN Idle ELSE request + 1
        /\ walkAge' = Later(walkAge, WalkTTL)
        /\ begun' = Later(begun, WalkTTL + WalkTime)
        /\ UNCHANGED <<fails, missed, used>>
    BY <1>1 DEF TimePasses
  <2>2. holder' = holder \/ holder' = [who |-> holder.who, time |-> holder.time + 1]
    BY <1>1 DEF TimePasses, CacheInv, CacheTyped
  <2>3. holder'.time \in 0 .. WalkTime
    BY <1>1, <2>2 DEF TimePasses, CacheInv, CacheTyped
  <2>4. CacheTyped'
    BY <2>1, <2>2, <2>3, Laters DEF CacheInv, CacheTyped, Idle
  <2>5. MinerKnown'
    BY <2>1, Laters DEF CacheInv, CacheTyped, MinerKnown
  <2>6. WalkKnown'
    BY <2>1, Laters DEF CacheInv, CacheTyped, WalkKnown
  <2>7. SizeIsFresh'
    BY <2>1 DEF CacheInv, SizeIsFresh
  <2>8. QED
    BY <2>4, <2>5, <2>6, <2>7 DEF CacheInv
<1>2. CASE Fetch
  BY <1>2 DEF Fetch, CacheInv, CacheTyped, MinerKnown, WalkKnown, SizeIsFresh, Idle, walkVars
<1>3. CASE FetchDone
  BY <1>3 DEF FetchDone, CacheInv, CacheTyped, MinerKnown, WalkKnown, SizeIsFresh, Idle, walkVars
<1>4. CASE FetchFailed
  BY <1>4, Laters DEF FetchFailed, CacheInv, CacheTyped, MinerKnown, WalkKnown, SizeIsFresh, Idle, walkVars
<1>5. CASE \E a \in Askers : Ask(a)
  BY <1>5 DEF Ask, CacheInv, CacheTyped, MinerKnown, WalkKnown, SizeIsFresh, minerVars
<1>6. CASE \E a \in Askers : TakeLock(a)
  <2>1. UNCHANGED <<minerVars, walked, walkAge, walkOK, begun>>
    BY <1>6 DEF TakeLock
  <2>2. PICK a \in Askers :
          \/ Cached /\ used' = [ok |-> walkOK, age |-> begun] /\ UNCHANGED holder
          \/ holder' = [who |-> a, time |-> 0] /\ UNCHANGED used
    BY <1>6 DEF TakeLock
  <2>3. CacheTyped'
    BY <2>1, <2>2 DEF CacheInv, CacheTyped, minerVars
  <2>4. SizeIsFresh'
    BY <2>2 DEF CacheInv, CacheTyped, WalkKnown, SizeIsFresh, Cached
  <2>5. QED
    BY <2>1, <2>3, <2>4 DEF CacheInv, MinerKnown, WalkKnown, minerVars
<1>7. CASE WalkEnds
  BY <1>7 DEF WalkEnds, Nobody, CacheInv, CacheTyped, MinerKnown, WalkKnown, SizeIsFresh, minerVars
<1>8. CASE UNCHANGED cacheVars
  BY <1>8 DEF cacheVars, minerVars, walkVars, CacheInv, CacheTyped, MinerKnown, WalkKnown, SizeIsFresh
<1>9. QED
  BY <1>1, <1>2, <1>3, <1>4, <1>5, <1>6, <1>7, <1>8 DEF CacheNext

\* A miner that is down or hangs is not reported as a running one for longer
\* than the limits say, and no directory size is older than its TTL and a walk,
\* whatever limits are chosen and however many ask.
THEOREM CachesCorrect == CacheSpec => []CachesFresh
<1>1. CacheInit => CacheInv
  BY CacheConstants DEF CacheInit, CacheInv, CacheTyped, MinerKnown, WalkKnown, SizeIsFresh, Idle, Nobody
<1>2. CacheInv => CachesFresh
  BY CacheConstants DEF CacheInv, CacheTyped, MinerKnown, CachesFresh, MinerIsFresh, Miner
<1>3. QED
  BY <1>1, <1>2, CacheStep, PTL DEF CacheSpec

(***************************************************************************)
(* The traffic history.                                                    *)
(***************************************************************************)

LEMMA SomeStarts == MaxStarts \in Nat
BY Zenon, Bounds DEF Bounds

USE SomeStarts, Apart

(***************************************************************************)
(* Types.                                                                  *)
(***************************************************************************)

\* A started goroutine belongs to a generation, so Stop and SetNewConfig close a
\* channel that was made.
Started ==
  /\ running => gen > 0
  /\ \A w \in Workers : worker[w].pc # "ended" => gen > 0

Typed == TypeOK /\ Started

WorkerType == [pc : {"ticker", "channel", "select", "tick", "ended"}, tick : 0 .. MaxStarts, stop : 0 .. MaxStarts]

LEMMA EndedTyped == Ended \in WorkerType /\ Ended.pc = "ended"
BY DEF Ended, At, WorkerType

LEMMA NothingTyped == NoRecords \in Records /\ Nothing \in [Nics -> Nat]
BY DEF NoRecords, Records, Nothing

LEMMA InitTyped == Init => Typed
<1> SUFFICES ASSUME Init PROVE Typed
  OBVIOUS
<1>1. closed \subseteq Gens /\ nics \in Lists \cup {{}}
  BY Zenon DEF Init
<1>2. last \in [Nics -> Nat \cup {NoCounter}]
  BY DEF Init
<1>3. worker \in [Workers -> WorkerType] /\ \A w \in Workers : worker[w].pc = "ended"
  BY EndedTyped DEF Init
<1>4. main \in {"start", "configure", "report"} /\ shut \in BOOLEAN /\ running \in BOOLEAN
  BY Zenon DEF Init
<1>5. gen \in 0 .. MaxStarts
  BY DEF Init
<1>6. /\ file \in Files \cup {NoFile} /\ store \in Records
      /\ cache \in [Nics -> Nat] /\ bytes \in [Nics -> Nat] /\ carried \in [Nics -> Nat]
  BY NothingTyped DEF Init
<1>7. Started
  BY <1>3 DEF Init, Started
<1> QED BY <1>1, <1>2, <1>3, <1>4, <1>5, <1>6, <1>7 DEF Typed, TypeOK, WorkerType

LEMMA SaveTyped ==
  ASSUME NEW records \in Records, NEW list \in Lists \cup {{}}, Save(records, list),
         file \in Files \cup {NoFile}
  PROVE  file' \in Files \cup {NoFile}
BY DEF Save, Files

LEMMA PurgedTyped == ASSUME NEW records \in Records PROVE Purged(records) \in Records
BY DEF Purged, Records

LEMMA FlushAndSaveTyped ==
  ASSUME TypeOK, FlushAndSave
  PROVE  store' \in Records /\ file' \in Files \cup {NoFile} /\ cache' \in [Nics -> Nat]
<1>1. Flushed \in Records
  BY DEF TypeOK, Flushed, Records
<1>2. store' \in Records
  BY <1>1, PurgedTyped DEF FlushAndSave
<1>3. file' \in Files \cup {NoFile}
  BY <1>2, SaveTyped DEF FlushAndSave, TypeOK
<1> QED BY <1>2, <1>3 DEF FlushAndSave, Nothing

LEMMA StartGoroutinesTyped ==
  ASSUME TypeOK, StartGoroutines
  PROVE  /\ gen' \in 1 .. MaxStarts
         /\ worker' \in [Workers -> [pc : {"ticker", "channel", "select", "tick", "ended"},
                                     tick : 0 .. MaxStarts, stop : 0 .. MaxStarts]]
BY DEF TypeOK, StartGoroutines, At

LEMMA StartOrContinueTyped == Typed /\ StartOrContinue /\ UNCHANGED shut /\ main' \in {"configure", main} => Typed'
<1> SUFFICES ASSUME Typed, StartOrContinue, UNCHANGED shut, main' \in {"configure", main} PROVE Typed'
  OBVIOUS
<1>1. CASE UNCHANGED statVars
  BY <1>1 DEF statVars, goVars, countVars, hostVars, Typed, TypeOK, Started
<1>2. CASE /\ Load /\ StartGoroutines /\ running' = TRUE
           /\ UNCHANGED <<closed, countVars, file, hostVars>>
  <2>1. store' \in Records /\ nics' \in Lists \cup {{}}
    BY <1>2, PurgedTyped DEF Load, Typed, TypeOK, Files
  <2> QED BY <1>2, <2>1, StartGoroutinesTyped DEF Typed, TypeOK, Started, countVars, hostVars
<1> QED BY <1>1, <1>2 DEF StartOrContinue

LEMMA SetNewConfigTyped ==
  ASSUME Typed, NEW list \in Lists \cup {nics}, SetNewConfig(list), UNCHANGED shut,
         main' \in {"start", "configure", "report"}
  PROVE  Typed'
<1>1. store' \in Records /\ file' \in Files \cup {NoFile} /\ nics' \in Lists \cup {{}}
  BY PurgedTyped, SaveTyped DEF SetNewConfig, Typed, TypeOK
<1>2. CASE running
  <2>1. cache' \in [Nics -> Nat] /\ last' \in [Nics -> Nat \cup {NoCounter}]
    BY <1>2 DEF SetNewConfig, Typed, TypeOK
  <2>2. gen \in Gens
    BY <1>2 DEF Typed, TypeOK, Started, Gens
  <2>3. closed' \subseteq Gens
    BY <1>2, <2>2, Zenon DEF SetNewConfig, Typed, TypeOK
  <2> QED BY <1>1, <1>2, <2>1, <2>3, StartGoroutinesTyped DEF SetNewConfig, Typed, TypeOK, Started, hostVars
<1>3. CASE ~running
  BY <1>1, <1>3 DEF SetNewConfig, Typed, TypeOK, Started, countVars, hostVars
<1> QED BY <1>2, <1>3 DEF Typed, TypeOK

LEMMA WorkerTyped ==
  ASSUME Typed, NEW w \in Workers, WorkerStep(w), UNCHANGED userVars
  PROVE  Typed'
<1>1. CASE ReadTicker(w)
  BY <1>1 DEF ReadTicker, Typed, TypeOK, Started, At, userVars, countVars, hostVars
<1>2. CASE ReadStopCh(w)
  BY <1>2 DEF ReadStopCh, Typed, TypeOK, Started, At, userVars, countVars, hostVars
<1>3. CASE Tick(w)
  BY <1>3 DEF Tick, Typed, TypeOK, Started, At, userVars, countVars, hostVars
<1>4. CASE StopSeen(w)
  BY <1>4 DEF StopSeen, Typed, TypeOK, Started, At, Ended, userVars, countVars, hostVars
<1>5. CASE Detect(w)
  <2>1. cache' \in [Nics -> Nat] /\ last' \in [Nics -> Nat \cup {NoCounter}]
    BY <1>5 DEF Detect, SampleOnce, Typed, TypeOK, countVars
  <2> QED BY <1>5, <2>1 DEF Detect, Typed, TypeOK, Started, At, userVars, hostVars
<1>6. CASE SaveTick(w)
  BY <1>6, FlushAndSaveTyped DEF SaveTick, Typed, TypeOK, Started, At, userVars, hostVars
<1> QED BY <1>1, <1>2, <1>3, <1>4, <1>5, <1>6 DEF WorkerStep

LEMMA AgedTyped == ASSUME NEW records \in Records PROVE Aged(records) \in Records
BY DEF Aged, Records

LEMMA TypedStep == Typed /\ [Next]_vars => Typed'
<1> SUFFICES ASSUME Typed, [Next]_vars PROVE Typed'
  OBVIOUS
<1>1. CASE Start
  BY <1>1, StartOrContinueTyped DEF Start
<1>2. CASE Configure
  BY <1>2, SetNewConfigTyped DEF Configure
<1>3. CASE Report
  BY <1>3, StartOrContinueTyped DEF Report, userVars
<1>4. CASE Shutdown
  <2>1. CASE running
    <3>1. gen \in Gens
      BY <2>1 DEF Typed, TypeOK, Started, Gens
    <3>2. closed' \subseteq Gens
      BY <1>4, <2>1, <3>1, Zenon DEF Shutdown, Stop, Typed, TypeOK
    <3> QED BY <1>4, <2>1, <3>2, FlushAndSaveTyped DEF Shutdown, Stop, Typed, TypeOK, Started, hostVars
  <2>2. CASE ~running
    BY <1>4, <2>2 DEF Shutdown, Stop, Typed, TypeOK, Started, statVars, goVars, countVars, hostVars
  <2> QED BY <2>1, <2>2 DEF Typed, TypeOK
<1>5. CASE Restart
  <2>1. closed' \subseteq Gens /\ nics' \in Lists \cup {{}}
    BY <1>5, Zenon DEF Restart
  <2>2. last' \in [Nics -> Nat \cup {NoCounter}]
    BY <1>5 DEF Restart
  <2>3. worker' \in [Workers -> WorkerType] /\ \A w \in Workers : worker'[w].pc = "ended"
    BY <1>5, EndedTyped DEF Restart
  <2>4. main' \in {"start", "configure", "report"} /\ shut' \in BOOLEAN /\ running' \in BOOLEAN
    BY <1>5, Zenon DEF Restart
  <2>5. gen' \in 0 .. MaxStarts
    BY <1>5 DEF Restart
  <2>6. /\ file' \in Files \cup {NoFile} /\ store' \in Records
        /\ cache' \in [Nics -> Nat] /\ bytes' \in [Nics -> Nat] /\ carried' \in [Nics -> Nat]
    BY <1>5, NothingTyped DEF Restart, Typed, TypeOK, hostVars
  <2>7. Started'
    BY <1>5, <2>3 DEF Restart, Started
  <2> QED BY <2>1, <2>2, <2>3, <2>4, <2>5, <2>6, <2>7 DEF Typed, TypeOK, WorkerType
<1>6. CASE \E w \in Workers : WorkerStep(w) /\ UNCHANGED userVars
  BY <1>6, WorkerTyped
<1>7. CASE \E n \in Nics : Traffic(n)
  BY <1>7 DEF Traffic, Typed, TypeOK, Started, userVars, goVars, countVars
<1>8. CASE \E n \in Nics : CounterRestarts(n)
  BY <1>8 DEF CounterRestarts, Typed, TypeOK, Started, userVars, goVars, countVars
<1>9. CASE DaysPass
  <2>1. store' \in Records /\ file' \in Files \cup {NoFile}
    BY <1>9, AgedTyped DEF DaysPass, Typed, TypeOK, Files
  <2> QED BY <1>9, <2>1 DEF DaysPass, Typed, TypeOK, Started, userVars, goVars, countVars, hostVars
<1>10. CASE UNCHANGED vars
  BY <1>10 DEF vars, userVars, statVars, goVars, countVars, hostVars, Typed, TypeOK, Started
<1> QED BY <1>1, <1>2, <1>3, <1>4, <1>5, <1>6, <1>7, <1>8, <1>9, <1>10 DEF Next

THEOREM TypedCorrect == Spec => []Typed
BY InitTyped, TypedStep, PTL DEF Spec

\* Every variable has its type; no sum of the account is ever negative, whatever
\* the counters of the interfaces do.
THEOREM TypeCorrect == Spec => []TypeOK
<1>1. Typed => TypeOK
  BY DEF Typed
<1> QED BY <1>1, TypedCorrect, PTL

(***************************************************************************)
(* The goroutines.                                                         *)
(***************************************************************************)

\* Every stopCh but that of the running generation is closed, and a goroutine
\* waits for one that was made.
Stoppable ==
  /\ \A g \in 1 .. gen : g \in closed \/ (running /\ g = gen)
  /\ \A w \in Workers : worker[w].pc = "select" => worker[w].stop \in 1 .. gen

LEMMA StoppableStep == Typed /\ Stoppable /\ [Next]_vars => Stoppable'
<1> SUFFICES ASSUME Typed, Stoppable, [Next]_vars PROVE Stoppable'
  OBVIOUS
<1>1. ASSUME StartOrContinue PROVE Stoppable'
  <2>1. CASE UNCHANGED statVars
    BY <2>1 DEF statVars, goVars, Stoppable
  <2>2. CASE StartGoroutines /\ running' = TRUE /\ ~running /\ UNCHANGED closed
    BY <2>2 DEF StartGoroutines, At, Stoppable, Typed, TypeOK
  <2> QED BY <1>1, <2>1, <2>2 DEF StartOrContinue
<1>2. ASSUME NEW list \in Lists \cup {nics}, SetNewConfig(list) PROVE Stoppable'
  <2>1. CASE running
    BY <1>2, <2>1 DEF SetNewConfig, StartGoroutines, At, Stoppable, Typed, TypeOK
  <2>2. CASE ~running
    BY <1>2, <2>2 DEF SetNewConfig, Stoppable
  <2> QED BY <2>1, <2>2
<1>3. CASE Shutdown
  <2>1. CASE running
    BY <1>3, <2>1 DEF Shutdown, Stop, Stoppable
  <2>2. CASE ~running
    BY <1>3, <2>2 DEF Shutdown, Stop, Stoppable, statVars, goVars
  <2> QED BY <2>1, <2>2 DEF Typed, TypeOK
<1>4. CASE Restart
  <2>1. \A w \in Workers : worker'[w].pc = "ended"
    BY <1>4, EndedTyped DEF Restart
  <2>2. 1 .. gen' = {}
    BY <1>4 DEF Restart
  <2> QED BY <2>1, <2>2 DEF Stoppable
<1>5. ASSUME NEW w \in Workers, WorkerStep(w) PROVE Stoppable'
  <2>1. CASE ReadStopCh(w)
    BY <2>1 DEF ReadStopCh, At, Stoppable, Typed, TypeOK, Started
  <2>2. CASE ReadTicker(w) \/ Tick(w) \/ StopSeen(w) \/ Detect(w) \/ SaveTick(w)
    BY <2>2 DEF ReadTicker, Tick, StopSeen, Detect, SaveTick, At, Ended, Stoppable, Typed, TypeOK
  <2> QED BY <1>5, <2>1, <2>2 DEF WorkerStep
<1>6. CASE UNCHANGED goVars
  BY <1>6 DEF goVars, Stoppable
<1> QED BY <1>1, <1>2, <1>3, <1>4, <1>5, <1>6
         DEF Next, Start, Configure, Report, Traffic, CounterRestarts, DaysPass, vars, statVars

\* A goroutine never waits for a channel that nobody can close any more, however
\* often SetNewConfig, Stop and StartOrContinue come between its two reads.
THEOREM GoroutinesCorrect == Spec => []NoStrayGoroutine
<1>1. Init => Stoppable
  <2>1. Init => \A w \in Workers : worker[w].pc = "ended"
    BY EndedTyped DEF Init
  <2>2. Init => 1 .. gen = {}
    BY DEF Init
  <2> QED BY <2>1, <2>2 DEF Stoppable
<1>2. Stoppable => NoStrayGoroutine
  BY DEF Stoppable, NoStrayGoroutine
<1> QED BY <1>1, <1>2, StoppableStep, TypedCorrect, PTL DEF Spec

(***************************************************************************)
(* The account.                                                            *)
(***************************************************************************)

\* What records and the cache hold of interface n, and what the next sample may
\* add to it, is no more than the interface has carried.
Covered(records, n) ==
  /\ Recorded(records[n]) + cache[n] <= carried[n]
  /\ last[n] # NoCounter => Recorded(records[n]) + cache[n] + bytes[n] <= carried[n] + last[n]

Account ==
  \A n \in Nics :
    /\ bytes[n] <= carried[n]
    /\ Covered(store, n)
    /\ file # NoFile => Covered(file.records, n)

LEMMA SavedRecords ==
  ASSUME NEW records \in Records, NEW list \in Lists \cup {{}}, Save(records, list),
         file \in Files \cup {NoFile}
  PROVE  \/ file' # NoFile /\ file'.records = records
         \/ file' = file
BY DEF Save, Files

LEMMA PurgedRecord ==
  ASSUME NEW records \in Records, NEW n \in Nics
  PROVE  Purged(records)[n].kept = records[n].kept /\ Purged(records)[n].old = 0
BY DEF Purged, Records

LEMMA FlushedRecord ==
  ASSUME TypeOK, NEW n \in Nics
  PROVE  Flushed[n].kept = store[n].kept + cache[n] /\ Flushed[n].old = store[n].old
BY DEF TypeOK, Records, Flushed

LEMMA FlushAndSaveEffect ==
  ASSUME TypeOK, FlushAndSave
  PROVE  /\ \A n \in Nics : /\ store'[n].kept = store[n].kept + cache[n]
                            /\ store'[n].old = 0
                            /\ cache'[n] = 0
         /\ (file' # NoFile /\ file'.records = store') \/ file' = file
<1>1. Flushed \in Records
  BY DEF TypeOK, Flushed, Records
<1>2. store' \in Records /\ \A n \in Nics : store'[n].kept = Flushed[n].kept /\ store'[n].old = 0
  BY <1>1, PurgedTyped, PurgedRecord DEF FlushAndSave
<1>3. (file' # NoFile /\ file'.records = store') \/ file' = file
  BY <1>2, SavedRecords DEF FlushAndSave, TypeOK
<1> QED BY <1>2, <1>3, FlushedRecord DEF FlushAndSave, Nothing

LEMMA AccountFlush == ASSUME Typed, Account, FlushAndSave, UNCHANGED <<last, hostVars>> PROVE Account'
<1> SUFFICES ASSUME NEW n \in Nics
             PROVE  /\ bytes'[n] <= carried'[n]
                    /\ Covered(store, n)'
                    /\ (file # NoFile)' => Covered(file.records, n)'
  BY DEF Account
<1>1. /\ store[n].kept \in Nat /\ store[n].old \in Nat /\ cache[n] \in Nat /\ bytes[n] \in Nat /\ carried[n] \in Nat
      /\ last[n] # NoCounter => last[n] \in Nat
      /\ file # NoFile => file.records[n].kept \in Nat /\ file.records[n].old \in Nat
  BY DEF Typed, TypeOK, Records, Files
<1>2. Covered(store, n)'
  BY <1>1, FlushAndSaveEffect DEF Account, Covered, Recorded, Typed, hostVars
<1>3. file' # NoFile => Covered(file.records, n)'
  BY <1>1, <1>2, FlushAndSaveEffect DEF Account, Covered, Recorded, Typed, hostVars
<1> QED BY <1>2, <1>3 DEF Account, hostVars

\* What the arithmetic of the account is about.
LEMMA Amounts ==
  ASSUME Typed, NEW n \in Nics
  PROVE  /\ store[n].kept \in Nat /\ store[n].old \in Nat /\ cache[n] \in Nat
         /\ bytes[n] \in Nat /\ carried[n] \in Nat
         /\ last[n] # NoCounter => last[n] \in Nat
         /\ file # NoFile => file.records[n].kept \in Nat /\ file.records[n].old \in Nat
BY DEF Typed, TypeOK, Records, Files

LEMMA AccountSample == ASSUME Typed, Account, SampleOnce, UNCHANGED <<store, file, hostVars>> PROVE Account'
<1> SUFFICES ASSUME NEW n \in Nics
             PROVE  /\ bytes'[n] <= carried'[n]
                    /\ Covered(store, n)'
                    /\ (file # NoFile)' => Covered(file.records, n)'
  BY DEF Account
<1>1. /\ cache'[n] = IF Allowed(nics, n) /\ last[n] # NoCounter /\ bytes[n] >= last[n]
                     THEN cache[n] + (bytes[n] - last[n]) ELSE cache[n]
      /\ last'[n] = IF Allowed(nics, n) THEN bytes[n] ELSE last[n]
  BY DEF SampleOnce
<1> QED BY <1>1, Amounts DEF Account, Covered, Recorded, hostVars

LEMMA AccountStart == ASSUME Typed, Account, StartOrContinue PROVE Account'
<1>1. CASE UNCHANGED statVars
  BY <1>1 DEF statVars, countVars, hostVars, Account, Covered, Recorded
<1>2. CASE Load /\ UNCHANGED <<countVars, file, hostVars>>
  <2> SUFFICES ASSUME NEW n \in Nics
               PROVE  /\ bytes'[n] <= carried'[n]
                      /\ Covered(store, n)'
                      /\ (file # NoFile)' => Covered(file.records, n)'
    BY DEF Account
  <2>1. CASE file = NoFile
    BY <1>2, <2>1 DEF Load, Account, Covered, Recorded, countVars, hostVars
  <2>2. CASE file # NoFile
    <3>1. store'[n].kept = file.records[n].kept /\ store'[n].old = 0
      BY <1>2, <2>2, PurgedRecord DEF Load, Typed, TypeOK, Files
    <3> QED BY <1>2, <2>2, <3>1, Amounts DEF Account, Covered, Recorded, countVars, hostVars
  <2> QED BY <2>1, <2>2
<1> QED BY <1>1, <1>2 DEF StartOrContinue

LEMMA AccountConfig ==
  ASSUME Typed, Account, NEW list \in Lists \cup {nics}, SetNewConfig(list)
  PROVE  Account'
<1> SUFFICES ASSUME NEW n \in Nics
             PROVE  /\ bytes'[n] <= carried'[n]
                    /\ Covered(store, n)'
                    /\ (file # NoFile)' => Covered(file.records, n)'
  BY DEF Account
<1>1. store'[n].kept = store[n].kept /\ store'[n].old = 0
  BY PurgedRecord DEF SetNewConfig, Typed, TypeOK
<1>2. (file' # NoFile /\ file'.records = store) \/ file' = file
  BY SavedRecords DEF SetNewConfig, Typed, TypeOK
<1>3. /\ cache'[n] = cache[n] \/ cache'[n] = 0
      /\ last'[n] = last[n] \/ last'[n] = NoCounter
  <2>1. CASE running
    BY <2>1 DEF SetNewConfig, Typed, TypeOK
  <2>2. CASE ~running
    BY <2>2 DEF SetNewConfig, countVars
  <2> QED BY <2>1, <2>2
<1>4. UNCHANGED hostVars
  BY DEF SetNewConfig
<1>5. Covered(store, n)'
  BY <1>1, <1>3, <1>4, Amounts DEF Account, Covered, Recorded, hostVars
<1>6. (file # NoFile)' => Covered(file.records, n)'
  BY <1>2, <1>3, <1>4, Amounts DEF Account, Covered, Recorded, hostVars
<1> QED BY <1>4, <1>5, <1>6 DEF Account, hostVars

LEMMA AccountRestart == ASSUME Typed, Account, Restart PROVE Account'
<1> SUFFICES ASSUME NEW n \in Nics
             PROVE  /\ bytes'[n] <= carried'[n]
                    /\ Covered(store, n)'
                    /\ (file # NoFile)' => Covered(file.records, n)'
  BY DEF Account
<1>1. store'[n].kept = 0 /\ store'[n].old = 0 /\ cache'[n] = 0 /\ last'[n] = NoCounter
  BY DEF Restart, NoRecords, Nothing
<1> QED BY <1>1, Amounts DEF Restart, Account, Covered, Recorded, hostVars

LEMMA AccountHost ==
  ASSUME Typed, Account, NEW m \in Nics, Traffic(m) \/ CounterRestarts(m)
  PROVE  Account'
<1> SUFFICES ASSUME NEW n \in Nics
             PROVE  /\ bytes'[n] <= carried'[n]
                    /\ Covered(store, n)'
                    /\ (file # NoFile)' => Covered(file.records, n)'
  BY DEF Account
<1>1. /\ bytes'[n] \in {bytes[n], bytes[n] + 1, 0}
      /\ carried'[n] = IF bytes'[n] = bytes[n] + 1 THEN carried[n] + 1 ELSE carried[n]
  BY Amounts DEF Traffic, CounterRestarts, Typed, TypeOK
<1>2. UNCHANGED <<store, file, cache, last>>
  BY DEF Traffic, CounterRestarts, countVars
<1> QED BY <1>1, <1>2, Amounts DEF Account, Covered, Recorded

LEMMA AgedRecord ==
  ASSUME NEW records \in Records, NEW n \in Nics
  PROVE  Aged(records)[n].kept = 0 /\ Aged(records)[n].old = records[n].kept + records[n].old
BY DEF Aged

LEMMA AccountAged == ASSUME Typed, Account, DaysPass PROVE Account'
<1> SUFFICES ASSUME NEW n \in Nics
             PROVE  /\ bytes'[n] <= carried'[n]
                    /\ Covered(store, n)'
                    /\ (file # NoFile)' => Covered(file.records, n)'
  BY DEF Account
<1>1. store'[n].kept = 0 /\ store'[n].old = store[n].kept + store[n].old
  BY AgedRecord DEF DaysPass, Typed, TypeOK
<1>2. file' # NoFile => /\ file # NoFile
                        /\ file'.records[n].kept = 0
                        /\ file'.records[n].old = file.records[n].kept + file.records[n].old
  BY AgedRecord DEF DaysPass, Typed, TypeOK, Files
<1> QED BY <1>1, <1>2, Amounts DEF DaysPass, Account, Covered, Recorded, countVars, hostVars

LEMMA AccountStep == Typed /\ Account /\ [Next]_vars => Account'
<1> SUFFICES ASSUME Typed, Account, [Next]_vars PROVE Account'
  OBVIOUS
<1>1. CASE Shutdown
  <2>1. CASE running
    BY <1>1, <2>1, AccountFlush DEF Shutdown, Stop
  <2>2. CASE ~running
    BY <1>1, <2>2 DEF Shutdown, Stop, statVars, countVars, hostVars, Account, Covered, Recorded
  <2> QED BY <2>1, <2>2
<1>2. ASSUME NEW w \in Workers, WorkerStep(w) PROVE Account'
  <2>1. CASE Detect(w)
    <3>1. CASE UNCHANGED countVars
      BY <2>1, <3>1 DEF Detect, countVars, hostVars, Account, Covered, Recorded
    <3> QED BY <2>1, <3>1, AccountSample DEF Detect
  <2>2. CASE SaveTick(w)
    BY <2>2, AccountFlush DEF SaveTick
  <2>3. CASE ReadTicker(w) \/ ReadStopCh(w) \/ Tick(w) \/ StopSeen(w)
    BY <2>3 DEF ReadTicker, ReadStopCh, Tick, StopSeen, countVars, hostVars, Account, Covered, Recorded
  <2> QED BY <1>2, <2>1, <2>2, <2>3 DEF WorkerStep
<1>3. CASE UNCHANGED vars
  BY <1>3 DEF vars, statVars, countVars, hostVars, Account, Covered, Recorded
<1> QED BY <1>1, <1>2, <1>3, AccountStart, AccountConfig, AccountRestart, AccountHost, AccountAged
         DEF Next, Start, Configure, Report

THEOREM AccountCorrect == Spec => []Account
<1>1. Init => Account
  <2> SUFFICES ASSUME Init, NEW n \in Nics
               PROVE  bytes[n] <= carried[n] /\ Covered(store, n) /\ file = NoFile
    BY DEF Account
  <2>1. store[n].kept = 0 /\ store[n].old = 0 /\ cache[n] = 0 /\ last[n] = NoCounter /\ bytes[n] = 0 /\ carried[n] = 0
    BY DEF Init, NoRecords, Nothing
  <2> QED BY <2>1 DEF Init, Covered, Recorded
<1> QED BY <1>1, AccountStep, TypedCorrect, PTL DEF Spec

\* No byte is counted twice: neither the store with the cache nor the file ever hold
\* more than the interface has carried, for any number of interfaces and goroutines.
THEOREM OvercountCorrect == Spec => []NoOvercount
<1>1. Typed /\ Account => NoOvercount
  <2> SUFFICES ASSUME Typed, Account, NEW n \in Nics
               PROVE  /\ Recorded(store[n]) + cache[n] <= carried[n]
                      /\ file # NoFile => Recorded(file.records[n]) <= carried[n]
    BY DEF NoOvercount
  <2> QED BY Amounts DEF Account, Covered, Recorded
<1> QED BY <1>1, TypedCorrect, AccountCorrect, PTL

(***************************************************************************)
(* The history in the file.                                                *)
(***************************************************************************)

\* Before StartOrContinue of RunE nothing runs; after it the store holds what the file
\* holds.
Loaded ==
  /\ main = "start" => ~running /\ \A w \in Workers : worker[w].pc = "ended"
  /\ (main # "start" /\ file # NoFile) => \A n \in Nics : store[n].kept >= file.records[n].kept

\* One step of the history: from file and store to file' and store'.
Keeps ==
  \A n \in Nics : file # NoFile => /\ file' # NoFile
                                   /\ Recorded(file'.records[n]) >= file.records[n].kept

Holds == file # NoFile => \A n \in Nics : store[n].kept >= file.records[n].kept

LEMMA FlushKeeps == ASSUME Typed, Holds, FlushAndSave PROVE Holds' /\ Keeps
<1>1. ASSUME NEW n \in Nics
      PROVE  /\ (file # NoFile)' => (store[n].kept >= file.records[n].kept)'
             /\ file # NoFile => file' # NoFile /\ Recorded(file'.records[n]) >= file.records[n].kept
  BY Amounts, FlushAndSaveEffect DEF Holds, Recorded, Typed
<1> QED BY <1>1 DEF Holds, Keeps

LEMMA ConfigKeeps ==
  ASSUME Typed, Holds, NEW list \in Lists \cup {nics}, SetNewConfig(list)
  PROVE  Holds' /\ Keeps
<1>1. ASSUME NEW n \in Nics
      PROVE  /\ (file # NoFile)' => (store[n].kept >= file.records[n].kept)'
             /\ file # NoFile => file' # NoFile /\ Recorded(file'.records[n]) >= file.records[n].kept
  <2>1. store'[n].kept = store[n].kept
    BY PurgedRecord DEF SetNewConfig, Typed, TypeOK
  <2>2. (file' # NoFile /\ file'.records = store) \/ file' = file
    BY SavedRecords DEF SetNewConfig, Typed, TypeOK
  <2> QED BY <2>1, <2>2, Amounts DEF Holds, Recorded
<1> QED BY <1>1 DEF Holds, Keeps

LEMMA SameFileKeeps == ASSUME Typed, file' = file PROVE Keeps
BY Amounts DEF Keeps, Recorded

LEMMA StartKeeps ==
  ASSUME Typed, ~LoadFails, StartOrContinue, running => Holds
  PROVE  Holds' /\ Keeps
<1>1. file' = file
  BY DEF StartOrContinue, statVars
<1>2. CASE running
  <2>1. UNCHANGED <<store, file>>
    BY <1>2 DEF StartOrContinue, statVars
  <2> QED BY <1>2, <2>1, SameFileKeeps DEF Holds
<1>3. CASE ~running
  <2>1. CASE file = NoFile
    BY <1>1, <2>1, SameFileKeeps DEF Holds
  <2>2. CASE file # NoFile
    <3>1. \A n \in Nics : store'[n].kept = file.records[n].kept
      BY <1>3, <2>2, PurgedRecord DEF StartOrContinue, Load, Typed, TypeOK, Files
    <3> QED BY <1>1, <3>1, Amounts, SameFileKeeps DEF Holds
  <2> QED BY <1>1, <2>1, <2>2, SameFileKeeps
<1> QED BY <1>1, <1>2, <1>3, SameFileKeeps

LEMMA HistoryStep == Typed /\ Loaded /\ ~LoadFails /\ [Next]_vars => Loaded' /\ [Keeps]_statVars
<1> SUFFICES ASSUME Typed, Loaded, ~LoadFails, [Next]_vars PROVE Loaded' /\ [Keeps]_statVars
  OBVIOUS
<1>1. CASE Start
  BY <1>1, StartKeeps DEF Start, Loaded, Holds
<1>2. CASE Configure
  <2>1. Holds' /\ Keeps
    BY <1>2, ConfigKeeps DEF Configure, Loaded, Holds
  <2> QED BY <1>2, <2>1 DEF Configure, Loaded, Holds
<1>3. CASE Report
  <2>1. Holds' /\ Keeps
    BY <1>3, StartKeeps DEF Report, Loaded, Holds
  <2> QED BY <1>3, <2>1 DEF Report, Loaded, Holds, userVars
<1>4. CASE Shutdown
  <2>1. CASE running
    <3>1. Holds' /\ Keeps
      BY <1>4, <2>1, FlushKeeps DEF Shutdown, Stop, Loaded, Holds
    <3> QED BY <1>4, <2>1, <3>1 DEF Shutdown, Stop, Loaded, Holds
  <2>2. CASE ~running
    BY <1>4, <2>2 DEF Shutdown, Stop, Loaded, statVars, goVars
  <2> QED BY <2>1, <2>2
<1>5. CASE Restart
  <2>1. Loaded'
    BY <1>5, EndedTyped DEF Restart, Loaded
  <2> QED BY <1>5, <2>1, SameFileKeeps DEF Restart
<1>6. ASSUME NEW w \in Workers, WorkerStep(w), UNCHANGED userVars PROVE Loaded' /\ [Keeps]_statVars
  <2>1. CASE SaveTick(w)
    <3>1. main # "start"
      BY <2>1 DEF SaveTick, Loaded
    <3>2. Holds' /\ Keeps
      BY <2>1, <3>1, FlushKeeps DEF SaveTick, Loaded, Holds
    <3> QED BY <1>6, <3>1, <3>2 DEF Loaded, Holds, userVars
  <2>2. CASE ReadTicker(w) \/ ReadStopCh(w) \/ Tick(w) \/ StopSeen(w) \/ Detect(w)
    <3>1. main # "start" /\ UNCHANGED <<file, store, main>>
      BY <1>6, <2>2 DEF ReadTicker, ReadStopCh, Tick, StopSeen, Detect, Loaded, userVars
    <3> QED BY <3>1, SameFileKeeps DEF Loaded
  <2> QED BY <1>6, <2>1, <2>2 DEF WorkerStep
<1>7. ASSUME NEW n \in Nics, Traffic(n) \/ CounterRestarts(n) PROVE Loaded' /\ [Keeps]_statVars
  BY <1>7, SameFileKeeps DEF Traffic, CounterRestarts, Loaded, userVars, goVars
<1>8. CASE DaysPass
  <2>1. ASSUME NEW n \in Nics, file # NoFile
        PROVE  /\ store'[n].kept = 0
               /\ file' # NoFile
               /\ file'.records[n].kept = 0
               /\ file'.records[n].old = file.records[n].kept + file.records[n].old
    <3>1. /\ store' = Aged(store)
          /\ file' = [file EXCEPT !.records = Aged(file.records)]
          /\ file \in Files /\ store \in Records
      BY <1>8, <2>1 DEF DaysPass, Typed, TypeOK
    <3>2. file' \in Files /\ file'.records = Aged(file.records) /\ file.records \in Records
      BY <3>1, AgedTyped DEF Files
    <3> QED BY <3>1, <3>2, AgedRecord
  <2>2. Keeps
    BY <2>1, Amounts DEF Keeps, Recorded
  <2>3. file = NoFile => file' = NoFile
    BY <1>8 DEF DaysPass
  <2> QED BY <1>8, <2>1, <2>2, <2>3 DEF DaysPass, Loaded, userVars, goVars
<1>9. CASE UNCHANGED vars
  BY <1>9 DEF vars, userVars, statVars, goVars, Loaded
<1> QED BY <1>1, <1>2, <1>3, <1>4, <1>5, <1>6, <1>7, <1>8, <1>9 DEF Next

\* If the file can be read, no save by any goroutine takes away what it holds of the
\* last DataPreserveDay days, through restarts, reloads and failing writes.
THEOREM HistoryCorrect == ASSUME ~LoadFails PROVE Spec => HistoryKept
<1>1. Init => Loaded
  BY EndedTyped DEF Init, Loaded
<1>2. Typed /\ Loaded /\ [Next]_vars => Loaded' /\ [Keeps]_statVars
  BY HistoryStep
<1>3. Spec => [][Keeps]_statVars
  BY <1>1, <1>2, TypedCorrect, PTL DEF Spec
<1> QED BY <1>3 DEF HistoryKept, Keeps


(***************************************************************************)
(* Memory, swap and the miner.                                             *)
(***************************************************************************)

\* A machine: its free and its available memory are parts of all, and its shared
\* memory is in the cache.
IsMachine(m) ==
  /\ {m.total, m.free, m.cached, m.reclaimable, m.buffers, m.shmem, m.available} \subseteq Nat
  /\ m.free <= m.total /\ m.shmem <= m.cached /\ m.available <= m.total

LEMMA SwapCorrect ==
  ASSUME NEW q, {q.swap.total, q.swap.free, q.swap.cached} \subseteq Nat, q.swap.free <= q.swap.total
  PROVE  SwapFits(q)
BY DEF SwapFits, Fits, Swap, Usage

LEMMA MemoryCorrect ==
  ASSUME NEW q, IsMachine(q.machine), {q.cg.limit, q.cg.usage, q.cfg.forceTotal} \subseteq Nat
  PROVE  MemoryFits(q)
<1> DEFINE m == q.machine
       ram == Ram(q.cfg, q.cg, m)
<1>1. \/ 0 <= htopUsed(m) /\ htopUsed(m) <= m.total
      \/ Spare(m) > m.total /\ m.shmem > m.free /\ htopUsed(m) = m.total + m.shmem - m.free
  BY DEF htopUsed, Spare, IsMachine
<1>2. /\ {m.total, m.free, m.available} \subseteq Nat
      /\ m.free <= m.total /\ m.available <= m.total
  BY DEF IsMachine
<1> HIDE DEF m
<1>3. Fits(ram) \/ ram = Usage(m.total, htopUsed(m))
  BY <1>2 DEF Ram, Fits, Usage, Least
<1>4. 0 <= htopUsed(m) /\ htopUsed(m) <= m.total => Fits(Usage(m.total, htopUsed(m)))
  BY DEF Fits, Usage
<1> HIDE DEF ram
<1>5. Fits(ram) \/ (Spare(m) > m.total /\ m.shmem > m.free /\ ram = Usage(m.total, m.total + m.shmem - m.free))
  BY <1>1, <1>3, <1>4
<1> QED BY <1>5 DEF m, ram, MemoryFits

IsWindow(raw) == raw.total \in Nat /\ raw.each \subseteq Nat

LEMMA WindowHash ==
  ASSUME NEW raw, IsWindow(raw)
  PROVE  /\ \E h \in rawMessageHash(raw) : TRUE
         /\ \A h \in rawMessageHash(raw) :
              h \in Nat /\ (h > 0 <=> raw.total > 0 \/ raw.each \ {0} # {})
BY DEF rawMessageHash, IsWindow

LEMMA HashrateCorrect ==
  ASSUME NEW q, q.status.algorithms \in Nat, IsWindow(q.status.oneMin), IsWindow(q.status.oneHr)
  PROVE  HashrateAgrees(q)
<1> DEFINE s == q.status
           works(raw) == raw.total > 0 \/ raw.each \ {0} # {}
           A == rawMessageHash(s.oneMin)
           B == rawMessageHash(s.oneHr)
<1>1. /\ \E h \in A : TRUE
      /\ \A h \in A : h \in Nat /\ (h > 0 <=> works(s.oneMin))
  BY WindowHash
<1>2. /\ \E h \in B : TRUE
      /\ \A h \in B : h \in Nat /\ (h > 0 <=> works(s.oneHr))
  BY WindowHash
<1>3. normalizeSrbStatus(s) = IF s.algorithms = 0 THEN {} ELSE {h \in A \X B : h # <<0, 0>>}
  BY DEF normalizeSrbStatus
<1>0. s.algorithms \in Nat /\ works(s.oneMin) \in BOOLEAN /\ works(s.oneHr) \in BOOLEAN
  OBVIOUS
<1> HIDE DEF A, B, works, s
<1>4. \A h \in normalizeSrbStatus(s) : (h[1] > 0) = works(s.oneMin) /\ (h[2] > 0) = works(s.oneHr)
  BY <1>0, <1>1, <1>2, <1>3
<1>5. ASSUME s.algorithms > 0, works(s.oneMin) \/ works(s.oneHr)
      PROVE  normalizeSrbStatus(s) # {}
  <2>1. PICK a \in A, b \in B : TRUE
    BY <1>1, <1>2
  <2>2. <<a, b>> # <<0, 0>>
    BY <1>1, <1>2, <1>5, <2>1
  <2>3. s.algorithms # 0 /\ <<a, b>> \in {h \in A \X B : h # <<0, 0>>}
    BY <1>0, <1>5, <2>1, <2>2
  <2>4. <<a, b>> \in normalizeSrbStatus(s)
    BY <1>3, <2>3, Zenon
  <2> QED BY <2>4
<1>6. ASSUME normalizeSrbStatus(s) # {}
      PROVE  s.algorithms > 0 /\ (works(s.oneMin) \/ works(s.oneHr))
  <2>1. PICK a \in A, b \in B : <<a, b>> # <<0, 0>> /\ s.algorithms # 0
    BY <1>3, <1>6
  <2>2. a \in Nat /\ b \in Nat /\ (a > 0 \/ b > 0)
    BY <1>1, <1>2, <2>1
  <2> QED BY <1>0, <1>1, <1>2, <2>1, <2>2
<1> QED BY <1>4, <1>5, <1>6 DEF HashrateAgrees, works, s

(***************************************************************************)
(* Lists.                                                                  *)
(***************************************************************************)

\* Induction, for a set of numbers.
LEMMA UpTo ==
  ASSUME NEW n \in Nat, NEW T, 0 \in T, \A i \in 1 .. n : i - 1 \in T => i \in T
  PROVE  0 .. n \subseteq T
<1> DEFINE W == {i \in 0 .. n : i \notin T}
<1>1. ASSUME W # {} PROVE FALSE
  <2>1. PICK i \in W : \A j \in W : i <= j
    <3>1. W \in SUBSET Nat
      OBVIOUS
    <3> HIDE DEF W
    <3> QED BY <1>1, <3>1, LeastElement
  <2>2. i # 0 /\ i \in 1 .. n /\ i - 1 \in 0 .. n
    BY <2>1
  <2>3. i - 1 \notin W
    BY <2>1, <2>2
  <2> QED BY <2>1, <2>2, <2>3
<1> QED BY <1>1

\* The greatest of a set of numbers, if it has one.
LEMMA MaxIs ==
  ASSUME NEW S \in SUBSET Int, NEW m \in S, \A x \in S : x <= m
  PROVE  Max(S) = m
<1>1. \A x \in S : m >= x
  OBVIOUS
<1>2. Max(S) \in S /\ \A x \in S : Max(S) >= x
  BY <1>1, Zenon DEF Max
<1>3. m \in Int /\ Max(S) \in Int
  BY <1>2
<1>4. m <= Max(S) /\ Max(S) <= m
  BY <1>1, <1>2, <1>3
<1> QED BY <1>3, <1>4

LEMMA MinIs ==
  ASSUME NEW S \in SUBSET Int, NEW m \in S, \A x \in S : m <= x
  PROVE  Min(S) = m
<1>1. Min(S) \in S /\ \A x \in S : Min(S) <= x
  BY Zenon DEF Min
<1>2. m \in Int /\ Min(S) \in Int
  BY <1>1
<1>3. m <= Min(S) /\ Min(S) <= m
  BY <1>1
<1> QED BY <1>2, <1>3

LEMMA MaxIn ==
  ASSUME NEW n \in Nat, NEW s \in SUBSET (1 .. n), s # {}
  PROVE  Max(s) \in s /\ \A x \in s : x <= Max(s)
<1> DEFINE D == {d \in Nat : n - d \in s}
<1>1. PICK d \in D : \A e \in D : d <= e
  <2>1. PICK x \in s : TRUE
    OBVIOUS
  <2>2. n - x \in D /\ D \in SUBSET Nat
    OBVIOUS
  <2> HIDE DEF D
  <2> QED BY <2>2, LeastElement
<1>2. \A x \in s : x <= n - d
  <2> SUFFICES ASSUME NEW x \in s PROVE x <= n - d
    OBVIOUS
  <2>1. n - x \in D /\ D \in SUBSET Nat
    OBVIOUS
  <2>2. d <= n - x
    <3> HIDE DEF D
    <3> QED BY <1>1, <2>1
  <2>3. x \in Nat /\ d \in Nat
    BY <1>1
  <2> QED BY <2>2, <2>3
<1>3. s \in SUBSET Int /\ n - d \in s
  BY <1>1
<1>4. Max(s) = n - d
  BY <1>2, <1>3, MaxIs
<1> QED BY <1>2, <1>3, <1>4

\* The recursion behind FoldLeft, as a property of its function of index sets.
Folds(it, base, H, D) ==
  \A s \in D : it[s] = IF s = {} THEN base ELSE H[<<Max(s), it[s \ {Max(s)}]>>]

\* It has a solution: sets of greater indices are built on those of smaller ones.
LEMMA FoldExists ==
  ASSUME NEW n \in Nat, NEW V, NEW base \in V, NEW H \in [(1 .. n) \X V -> V]
  PROVE  \E it \in [SUBSET (1 .. n) -> V] : Folds(it, base, H, SUBSET (1 .. n))
<1> DEFINE T == {m \in 0 .. n : \E it \in [SUBSET (1 .. m) -> V] : Folds(it, base, H, SUBSET (1 .. m))}
<1>1. 0 \in T
  <2> DEFINE it == [s \in SUBSET (1 .. 0) |-> base]
  <2>1. 1 .. 0 = {}
    OBVIOUS
  <2>2. it \in [SUBSET (1 .. 0) -> V] /\ \A s \in SUBSET (1 .. 0) : s = {} /\ it[s] = base
    BY <2>1
  <2> HIDE DEF it
  <2>3. Folds(it, base, H, SUBSET (1 .. 0))
    BY <2>2 DEF Folds
  <2> QED BY <2>2, <2>3
<1>2. ASSUME NEW m \in 1 .. n, m - 1 \in T PROVE m \in T
  <2>1. PICK g \in [SUBSET (1 .. m - 1) -> V] : Folds(g, base, H, SUBSET (1 .. m - 1))
    BY <1>2
  <2> DEFINE it == [s \in SUBSET (1 .. m) |-> IF m \in s THEN H[<<m, g[s \ {m}]>>] ELSE g[s]]
  <2>2. \A s \in SUBSET (1 .. m) : s \ {m} \in SUBSET (1 .. m - 1) /\ (m \notin s => s \in SUBSET (1 .. m - 1))
    OBVIOUS
  <2>3. it \in [SUBSET (1 .. m) -> V]
    BY <2>2
  <2>4. \A s \in SUBSET (1 .. m - 1) : it[s] = g[s]
    OBVIOUS
  <2>5. \A s \in SUBSET (1 .. m) : m \in s => it[s] = H[<<m, g[s \ {m}]>>]
    OBVIOUS
  <2> HIDE DEF it
  <2>6. ASSUME NEW s \in SUBSET (1 .. m)
        PROVE  it[s] = IF s = {} THEN base ELSE H[<<Max(s), it[s \ {Max(s)}]>>]
    <3>1. CASE m \in s
      <4>1. Max(s) = m
        BY <3>1, MaxIs
      <4> QED BY <2>2, <2>4, <2>5, <3>1, <4>1
    <3>2. CASE m \notin s
      <4>1. s \in SUBSET (1 .. m - 1) /\ s \ {Max(s)} \in SUBSET (1 .. m - 1)
        BY <2>2, <3>2
      <4>2. g[s] = IF s = {} THEN base ELSE H[<<Max(s), g[s \ {Max(s)}]>>]
        BY <2>1, <4>1 DEF Folds
      <4> QED BY <2>4, <4>1, <4>2
    <3> QED BY <3>1, <3>2
  <2>7. Folds(it, base, H, SUBSET (1 .. m))
    BY <2>6 DEF Folds
  <2> QED BY <2>3, <2>7
<1>3. n \in T
  <2> HIDE DEF T
  <2> QED BY <1>1, <1>2, UpTo
<1> QED BY <1>3

\* The initial segments are the sets a fold goes through.
LEMMA Segments ==
  ASSUME NEW n \in Nat, NEW i \in 1 .. n
  PROVE  /\ 1 .. i \in SUBSET (1 .. n) /\ 1 .. i - 1 \in SUBSET (1 .. n)
         /\ 1 .. i # {} /\ Max(1 .. i) = i /\ (1 .. i) \ {i} = 1 .. i - 1
<1>1. i \in 1 .. i /\ 1 .. i \in SUBSET Int /\ \A x \in 1 .. i : x <= i
  OBVIOUS
<1>2. Max(1 .. i) = i
  BY <1>1, MaxIs
<1> QED BY <1>1, <1>2

(***************************************************************************)
(* Addresses.                                                              *)
(***************************************************************************)

\* Keep goes through the list.
LEMMA KeepSteps ==
  ASSUME NEW X, NEW list \in Seq(X), NEW S
  PROVE  \E k : /\ k[0] = << >> /\ k[Len(list)] = Keep(list, S)
                /\ \A i \in 1 .. Len(list) :
                     k[i] = IF list[i] \in S THEN Append(k[i - 1], list[i]) ELSE k[i - 1]
<1> DEFINE n == Len(list)
           Goes(it) ==
             it = [s \in SUBSET DOMAIN list |->
                     IF s = {} THEN << >>
                     ELSE IF list[Max(s)] \in S THEN Append(it[s \ {Max(s)}], list[Max(s)])
                          ELSE it[s \ {Max(s)}]]
<1>1. Keep(list, S) = (CHOOSE it : Goes(it))[DOMAIN list]
  BY Zenon DEF Keep, FoldLeft, MapThenFoldSet
<1>2. n \in Nat /\ DOMAIN list = 1 .. n /\ \A i \in 1 .. n : list[i] \in X
  OBVIOUS
<1> HIDE DEF n
<1>3. \E it : Goes(it)
  <2> DEFINE H == [iv \in (1 .. n) \X Seq(X) |-> IF list[iv[1]] \in S THEN Append(iv[2], list[iv[1]]) ELSE iv[2]]
  <2>1. H \in [(1 .. n) \X Seq(X) -> Seq(X)] /\ << >> \in Seq(X)
    BY <1>2
  <2>2. \A i \in 1 .. n : \A v \in Seq(X) : H[<<i, v>>] = IF list[i] \in S THEN Append(v, list[i]) ELSE v
    OBVIOUS
  <2> HIDE DEF H
  <2>3. PICK it \in [SUBSET (1 .. n) -> Seq(X)] : Folds(it, << >>, H, SUBSET (1 .. n))
    BY <1>2, <2>1, FoldExists
  <2>4. ASSUME NEW s \in SUBSET (1 .. n)
        PROVE  it[s] = IF s = {} THEN << >>
                       ELSE IF list[Max(s)] \in S THEN Append(it[s \ {Max(s)}], list[Max(s)])
                            ELSE it[s \ {Max(s)}]
    <3>1. s # {} => Max(s) \in 1 .. n /\ it[s \ {Max(s)}] \in Seq(X)
      BY <1>2, <2>3, MaxIn
    <3> QED BY <2>2, <2>3, <3>1 DEF Folds
  <2>5. Goes(it)
    BY <1>2, <2>3, <2>4
  <2> QED BY <2>5
<1>4. PICK it : it = (CHOOSE f : Goes(f)) /\ Goes(it)
  BY <1>3, Zenon
<1>5. \A s \in SUBSET (1 .. n) :
        it[s] = IF s = {} THEN << >>
                ELSE IF list[Max(s)] \in S THEN Append(it[s \ {Max(s)}], list[Max(s)])
                     ELSE it[s \ {Max(s)}]
  BY <1>2, <1>4, Zenon
<1>6. Keep(list, S) = it[1 .. n]
  BY <1>1, <1>2, <1>4
<1> HIDE DEF Goes
<1> DEFINE k == [i \in 0 .. n |-> it[1 .. i]]
<1>7. k[0] = << >>
  <2>1. 1 .. 0 = {} /\ {} \in SUBSET (1 .. n) /\ 0 \in 0 .. n
    BY <1>2
  <2>2. k[0] = it[{}]
    BY <2>1
  <2> HIDE DEF k
  <2> QED BY <1>5, <2>1, <2>2
<1>8. k[n] = Keep(list, S)
  BY <1>2, <1>6
<1>9. ASSUME NEW i \in 1 .. n
      PROVE  k[i] = IF list[i] \in S THEN Append(k[i - 1], list[i]) ELSE k[i - 1]
  <2>1. it[1 .. i] = IF list[i] \in S THEN Append(it[1 .. i - 1], list[i]) ELSE it[1 .. i - 1]
    BY <1>2, <1>5, Segments
  <2>2. k[i] = it[1 .. i] /\ k[i - 1] = it[1 .. i - 1]
    BY <1>2
  <2> QED BY <2>1, <2>2
<1> HIDE DEF k
<1> QED BY <1>7, <1>8, <1>9 DEF n

\* The least of a set of numbers, if it has one.
LEMMA MinIn ==
  ASSUME NEW s \in SUBSET Nat, s # {}
  PROVE  Min(s) \in s /\ \A x \in s : Min(s) <= x
<1>1. PICK m \in s : \A x \in s : m <= x
  BY LeastElement
<1>2. s \in SUBSET Int
  OBVIOUS
<1>3. Min(s) = m
  BY <1>1, <1>2, MinIs
<1> QED BY <1>1, <1>3

LEMMA FirstIs ==
  ASSUME NEW X, NEW list \in Seq(X), NEW R, NEW i \in DOMAIN list, list[i] \in R, \A j \in 1 .. i - 1 : list[j] \notin R
  PROVE  First(list, R) = {list[i]}
<1> DEFINE I == {a \in DOMAIN list : list[a] \in R /\ \A j \in 1 .. a - 1 : list[j] \notin R}
<1>1. \A a \in DOMAIN list : a \in Nat /\ 1 <= a
  OBVIOUS
<1>2. i \in I
  OBVIOUS
<1>3. ASSUME NEW a \in I PROVE a = i
  <2>1. ~(i \in 1 .. a - 1) /\ ~(a \in 1 .. i - 1)
    OBVIOUS
  <2> QED BY <1>1, <2>1
<1>4. First(list, R) = {list[a] : a \in I}
  BY DEF First
<1> HIDE DEF I
<1> QED BY <1>2, <1>3, <1>4

LEMMA FirstIn ==
  ASSUME NEW list, NEW R
  PROVE  First(list, R) \subseteq R /\ First(list, R) \subseteq {list[i] : i \in DOMAIN list}
BY DEF First

LEMMA FirstSome ==
  ASSUME NEW X, NEW list \in Seq(X), NEW R
  PROVE  First(list, R) # {} <=> \E i \in DOMAIN list : list[i] \in R
<1>1. ASSUME First(list, R) # {} PROVE \E i \in DOMAIN list : list[i] \in R
  BY <1>1 DEF First
<1>2. ASSUME NEW a \in DOMAIN list, list[a] \in R PROVE First(list, R) # {}
  <2> DEFINE I == {i \in DOMAIN list : list[i] \in R}
  <2>1. I \in SUBSET Nat /\ I # {} /\ I \subseteq DOMAIN list /\ \A i \in I : list[i] \in R
    BY <1>2
  <2>2. \A i, j \in Nat : j \in DOMAIN list /\ list[j] \in R => j \in I
    OBVIOUS
  <2> HIDE DEF I
  <2>3. PICK i \in I : \A j \in I : i <= j
    BY <2>1, LeastElement
  <2>4. \A j \in 1 .. i - 1 : list[j] \notin R
    <3> SUFFICES ASSUME NEW j \in 1 .. i - 1, list[j] \in R PROVE FALSE
      OBVIOUS
    <3>1. i \in Nat /\ i \in 1 .. Len(list)
      BY <2>1
    <3>2. j \in DOMAIN list /\ j \in Nat
      BY <3>1
    <3> QED BY <2>2, <2>3, <3>1, <3>2
  <2>5. First(list, R) = {list[i]}
    BY <2>1, <2>3, <2>4, FirstIs
  <2> QED BY <2>5
<1> QED BY <1>1, <1>2

LEMMA FirstLeast ==
  ASSUME NEW X, NEW list \in Seq(X), NEW R, NEW I, I = {i \in DOMAIN list : list[i] \in R}, I # {}
  PROVE  First(list, R) = {list[Min(I)]}
<1>1. I \in SUBSET Nat
  OBVIOUS
<1>2. Min(I) \in I /\ \A j \in I : Min(I) <= j
  BY <1>1, MinIn
<1>3. Min(I) \in DOMAIN list /\ list[Min(I)] \in R
  BY <1>2
<1>4. \A j \in 1 .. Min(I) - 1 : list[j] \notin R
  <2> SUFFICES ASSUME NEW j \in 1 .. Min(I) - 1, list[j] \in R PROVE FALSE
    OBVIOUS
  <2>1. Min(I) \in 1 .. Len(list)
    BY <1>3
  <2>2. j \in DOMAIN list /\ ~(Min(I) <= j)
    BY <2>1
  <2> QED BY <1>2, <2>2
<1> QED BY <1>3, <1>4, FirstIs

\* The first of two lists, one after the other.
LEMMA FirstOfBoth ==
  ASSUME NEW X, NEW a \in Seq(X), NEW b \in Seq(X), NEW R
  PROVE  First(a \o b, R) = IF First(a, R) # {} THEN First(a, R) ELSE First(b, R)
<1> DEFINE c == a \o b
<1>1. /\ c \in Seq(X) /\ DOMAIN a = 1 .. Len(a) /\ DOMAIN b = 1 .. Len(b) /\ DOMAIN c = 1 .. Len(a) + Len(b)
      /\ Len(a) \in Nat /\ Len(b) \in Nat
      /\ \A i \in 1 .. Len(a) : c[i] = a[i]
      /\ \A i \in 1 .. Len(b) : c[Len(a) + i] = b[i]
  OBVIOUS
<1> HIDE DEF c
<1>2. CASE First(a, R) # {}
  <2> DEFINE I == {i \in DOMAIN a : a[i] \in R}
             i0 == Min(I)
  <2>1. I # {} /\ I \in SUBSET Nat
    BY <1>2, FirstSome
  <2>2. i0 \in I /\ \A j \in I : i0 <= j
    BY <2>1, MinIn
  <2>3. First(a, R) = {a[i0]}
    BY <2>1, FirstLeast
  <2>4. i0 \in 1 .. Len(a) /\ a[i0] \in R
    BY <1>1, <2>2
  <2>5. \A j \in 1 .. i0 - 1 : a[j] \notin R
    <3> SUFFICES ASSUME NEW j \in 1 .. i0 - 1, a[j] \in R PROVE FALSE
      OBVIOUS
    <3>1. j \in DOMAIN a /\ ~(i0 <= j)
      BY <1>1, <2>4
    <3> QED BY <2>2, <3>1
  <2> HIDE DEF i0
  <2>6. i0 \in DOMAIN c /\ c[i0] \in R /\ \A j \in 1 .. i0 - 1 : c[j] \notin R
    BY <1>1, <2>4, <2>5
  <2>7. First(c, R) = {c[i0]}
    BY <1>1, <2>6, FirstIs
  <2> QED BY <1>1, <1>2, <2>3, <2>4, <2>7 DEF c
<1>3. CASE First(a, R) = {} /\ First(b, R) # {}
  <2> DEFINE I == {i \in DOMAIN b : b[i] \in R}
             i0 == Min(I)
  <2>1. I # {} /\ I \in SUBSET Nat
    BY <1>3, FirstSome
  <2>2. i0 \in I /\ \A j \in I : i0 <= j
    BY <2>1, MinIn
  <2>3. First(b, R) = {b[i0]}
    BY <2>1, FirstLeast
  <2>4. i0 \in 1 .. Len(b) /\ b[i0] \in R
    BY <1>1, <2>2
  <2>5. \A j \in 1 .. i0 - 1 : b[j] \notin R
    <3> SUFFICES ASSUME NEW j \in 1 .. i0 - 1, b[j] \in R PROVE FALSE
      OBVIOUS
    <3>1. j \in DOMAIN b /\ ~(i0 <= j)
      BY <1>1, <2>4
    <3> QED BY <2>2, <3>1
  <2> HIDE DEF i0
  <2>6. \A j \in 1 .. Len(a) : a[j] \notin R
    BY <1>1, <1>3, FirstSome
  <2> DEFINE m == Len(a) + i0
  <2>7. m \in DOMAIN c /\ c[m] \in R /\ \A j \in 1 .. m - 1 : c[j] \notin R
    <3>1. m \in DOMAIN c /\ c[m] \in R
      BY <1>1, <2>4
    <3>2. ASSUME NEW j \in 1 .. m - 1 PROVE c[j] \notin R
      <4>1. CASE j <= Len(a)
        BY <1>1, <2>6, <4>1
      <4>2. CASE j > Len(a)
        <5>1. j - Len(a) \in 1 .. i0 - 1 /\ j - Len(a) \in 1 .. Len(b) /\ j = Len(a) + (j - Len(a))
          BY <1>1, <2>4, <4>2
        <5>2. c[j] = b[j - Len(a)]
          BY <1>1, <5>1
        <5> QED BY <2>5, <5>1, <5>2
      <4> QED BY <1>1, <4>1, <4>2
    <3> QED BY <3>1, <3>2
  <2>8. First(c, R) = {c[m]}
    <3> HIDE DEF m
    <3> QED BY <1>1, <2>7, FirstIs
  <2> QED BY <1>1, <1>3, <2>3, <2>4, <2>8 DEF c
<1>4. CASE First(a, R) = {} /\ First(b, R) = {}
  <2>1. (\A i \in 1 .. Len(a) : a[i] \notin R) /\ (\A i \in 1 .. Len(b) : b[i] \notin R)
    BY <1>1, <1>4, FirstSome
  <2>2. ASSUME NEW i \in DOMAIN c PROVE c[i] \notin R
    <3>1. CASE i <= Len(a)
      BY <1>1, <2>1, <3>1
    <3>2. CASE i > Len(a)
      <4>1. i - Len(a) \in 1 .. Len(b) /\ i = Len(a) + (i - Len(a))
        BY <1>1, <3>2
      <4> QED BY <1>1, <2>1, <4>1
    <3> QED BY <1>1, <3>1, <3>2
  <2>3. First(c, R) = {}
    BY <1>1, <2>2, FirstSome
  <2> QED BY <1>4, <2>3 DEF c
<1> QED BY <1>2, <1>3, <1>4

LEMMA FirstAppended ==
  ASSUME NEW X, NEW s \in Seq(X), NEW x \in X, NEW R
  PROVE  First(Append(s, x), R) = IF First(s, R) # {} THEN First(s, R) ELSE IF x \in R THEN {x} ELSE {}
<1>1. <<x>> \in Seq(X) /\ Append(s, x) = s \o <<x>>
  OBVIOUS
<1>2. PICK w \in Seq(X) : w = <<x>>
  BY <1>1
<1>3. First(s \o w, R) = IF First(s, R) # {} THEN First(s, R) ELSE First(w, R)
  BY FirstOfBoth
<1>4. First(<<x>>, R) = IF x \in R THEN {x} ELSE {}
  BY DEF First
<1>5. First(Append(s, x), R) = First(s \o w, R) /\ First(w, R) = First(<<x>>, R)
  BY <1>1, <1>2, Zenon
<1> QED BY <1>3, <1>4, <1>5

LEMMA KeepOne ==
  ASSUME NEW X, NEW kept \in Seq(X), NEW list \in Seq(X), NEW x \in X, NEW S, NEW R,
         First(kept, R) = First(list, S \cap R)
  PROVE  First(IF x \in S THEN Append(kept, x) ELSE kept, R) = First(Append(list, x), S \cap R)
<1>1. PICK Q : Q = S \cap R
  OBVIOUS
<1>2. First(Append(list, x), Q) = IF First(list, Q) # {} THEN First(list, Q) ELSE IF x \in Q THEN {x} ELSE {}
  BY FirstAppended
<1>3. First(Append(kept, x), R) = IF First(kept, R) # {} THEN First(kept, R) ELSE IF x \in R THEN {x} ELSE {}
  BY FirstAppended
<1>4. CASE x \in S
  BY <1>1, <1>2, <1>3, <1>4
<1>5. CASE x \notin S
  BY <1>1, <1>2, <1>5
<1> QED BY <1>4, <1>5

LEMMA KeepFirst ==
  ASSUME NEW X, NEW list \in Seq(X), NEW S, NEW R
  PROVE  /\ Keep(list, S) \in Seq(X)
         /\ First(Keep(list, S), R) = First(list, S \cap R)
<1> DEFINE n == Len(list)
           p(i) == [j \in 1 .. i |-> list[j]]
<1>1. PICK k : /\ k[0] = << >> /\ k[n] = Keep(list, S)
               /\ \A i \in 1 .. n : k[i] = IF list[i] \in S THEN Append(k[i - 1], list[i]) ELSE k[i - 1]
  BY KeepSteps
<1> DEFINE T == {i \in 0 .. n : k[i] \in Seq(X) /\ First(k[i], R) = First(p(i), S \cap R)}
<1>2. n \in Nat /\ \A i \in 1 .. n : list[i] \in X
  OBVIOUS
<1>3. \A i \in 0 .. n : p(i) \in Seq(X)
  BY <1>2
<1> HIDE DEF n
<1>4. 0 \in T
  <2>1. p(0) = << >> /\ << >> \in Seq(X)
    OBVIOUS
  <2>2. DOMAIN << >> = {}
    OBVIOUS
  <2>3. First(<< >>, R) = {} /\ First(<< >>, S \cap R) = {} /\ 0 \in 0 .. n
    BY <1>2, <2>2 DEF First
  <2>4. First(p(0), S \cap R) = {}
    BY <2>1, <2>3, Zenon
  <2> HIDE DEF p
  <2> QED BY <1>1, <2>1, <2>3, <2>4
<1>5. ASSUME NEW i \in 1 .. n, i - 1 \in T PROVE i \in T
  <2> DEFINE x == list[i]
  <2>1. x \in X /\ p(i - 1) \in Seq(X) /\ k[i - 1] \in Seq(X) /\ First(k[i - 1], R) = First(p(i - 1), S \cap R) /\ i \in 0 .. n
    BY <1>2, <1>3, <1>5
  <2>2. p(i) = Append(p(i - 1), x)
    BY <1>2
  <2> HIDE DEF p, x
  <2>3. k[i] = IF x \in S THEN Append(k[i - 1], x) ELSE k[i - 1]
    BY <1>1 DEF x
  <2>4. k[i] \in Seq(X) /\ First(k[i], R) = First(Append(p(i - 1), x), S \cap R)
    <3>1. PICK kept \in Seq(X), list0 \in Seq(X), next \in {k[i]} :
             kept = k[i - 1] /\ list0 = p(i - 1) /\ next = k[i]
      BY <2>1
    <3>2. First(kept, R) = First(list0, S \cap R)
      BY <2>1, <3>1
    <3>3. next = (IF x \in S THEN Append(kept, x) ELSE kept) /\ next \in Seq(X)
      BY <2>1, <2>3, <3>1
    <3>4. First(IF x \in S THEN Append(kept, x) ELSE kept, R) = First(Append(list0, x), S \cap R)
      BY <2>1, <3>2, KeepOne
    <3>5. First(next, R) = First(Append(list0, x), S \cap R)
      BY <3>3, <3>4, Zenon
    <3>6. First(Append(p(i - 1), x), S \cap R) = First(Append(list0, x), S \cap R)
      BY <3>1
    <3> QED BY <3>1, <3>3, <3>5, <3>6
  <2> QED BY <2>1, <2>2, <2>4
<1>6. n \in T
  <2>1. n \in Nat /\ n \in 0 .. n
    BY <1>2
  <2> HIDE DEF T
  <2>2. 0 .. n \subseteq T
    BY <1>4, <1>5, <2>1, UpTo
  <2> QED BY <2>1, <2>2
<1>7. p(n) = list
  BY DEF n
<1> HIDE DEF p
<1> QED BY <1>1, <1>6, <1>7


LEMMA DialCorrect ==
  ASSUME NEW X, NEW q, q.ips \in Seq(X)
  PROVE  DialAgrees(q)
<1> DEFINE ips == q.ips
           R == q.reachable
           version == Version(q.prefer, q.hasIPv4)
           first == {ip \in Range(ips) : ip.version = version}
           rest == Range(ips) \ first
           able == {i \in DOMAIN ips : ips[i] \in R}
           best == {i \in able : ips[i].version = version}
           got == DialContext(ips, q.prefer, q.hasIPv4, R)
<1>1. got = First(Keep(ips, first) \o Keep(ips, rest), R)
  BY DEF DialContext, sortIPsByPreference
<1>2. got = IF First(ips, first \cap R) # {} THEN First(ips, first \cap R) ELSE First(ips, rest \cap R)
  <2> HIDE DEF first, rest
  <2>1. PICK a \in Seq(X), b \in Seq(X) : a = Keep(ips, first) /\ b = Keep(ips, rest)
    BY KeepFirst
  <2>2. First(a, R) = First(ips, first \cap R) /\ First(b, R) = First(ips, rest \cap R)
    BY <2>1, KeepFirst
  <2>3. First(a \o b, R) = IF First(a, R) # {} THEN First(a, R) ELSE First(b, R)
    BY FirstOfBoth
  <2> QED BY <1>1, <2>1, <2>2, <2>3
<1>3. \A i \in DOMAIN ips : ips[i] \in Range(ips)
  BY DEF Range
<1>4. best = {i \in DOMAIN ips : ips[i] \in first \cap R}
  BY <1>3
<1>5. best = {} => able = {i \in DOMAIN ips : ips[i] \in rest \cap R}
  BY <1>3
<1>6. ips \in Seq(X) /\ best \subseteq able
  OBVIOUS
<1> HIDE DEF ips, first, rest, best, able, got, R, version
<1>7. ASSUME best # {} PROVE got = {ips[Min(best)]}
  <2>1. PICK Q : Q = first \cap R
    OBVIOUS
  <2>2. First(ips, Q) = {ips[Min(best)]}
    BY <1>4, <1>6, <1>7, <2>1, FirstLeast
  <2> QED BY <1>2, <2>1, <2>2
<1>8. ASSUME best = {}, able # {} PROVE got = {ips[Min(able)]}
  <2>1. PICK Q, P : Q = rest \cap R /\ P = first \cap R
    OBVIOUS
  <2>2. First(ips, P) = {}
    BY <1>4, <1>6, <1>8, <2>1, FirstSome
  <2>3. First(ips, Q) = {ips[Min(able)]}
    BY <1>5, <1>6, <1>8, <2>1, FirstLeast
  <2> QED BY <1>2, <2>1, <2>2, <2>3
<1>9. ASSUME able = {} PROVE got = {}
  <2>1. PICK Q, P : Q = rest \cap R /\ P = first \cap R
    OBVIOUS
  <2>2. First(ips, P) = {} /\ First(ips, Q) = {}
    BY <1>4, <1>5, <1>6, <1>9, <2>1, FirstSome
  <2> QED BY <1>2, <2>1, <2>2
<1>10. IF able = {} THEN got = {} ELSE got = {ips[Min(IF best # {} THEN best ELSE able)]}
  BY <1>6, <1>7, <1>8, <1>9
<1> QED BY <1>10 DEF DialAgrees, ips, best, able, got, R, version

\* A server as it can be written: one of version 6 with a port has its brackets,
\* and no other has any.
IsServer(s) ==
  /\ s \in [version : {0, 4, 6}, bracket : BOOLEAN, port : BOOLEAN]
  /\ s.bracket => s.version = 6
  /\ s.version = 6 /\ s.port => s.bracket

LEMMA ServerCorrect ==
  ASSUME NEW X, NEW q, IsServer(q.custom), q.builtin \in Seq(X), \A s \in Range(q.builtin) : Complete(s)
  PROVE  ServerAgrees(q)
<1> DEFINE custom == q.custom
           meant == [custom EXCEPT !.port = TRUE, !.bracket = custom.version = 6]
           server == normalizeDNSServer(custom)
           others == Range(q.builtin) \ {server}
           R == {s \in q.usable : Complete(s)}
           got == DNSServer(custom, q.builtin, q.usable)
<1>1. ASSUME custom.bracket => custom.port PROVE server = meant /\ Complete(meant)
  <2> DEFINE Form == [version : {0, 4, 6}, bracket : BOOLEAN, port : BOOLEAN]
  <2>1. custom \in Form /\ (custom.version = 6) \in BOOLEAN /\ (custom.bracket <=> custom.version = 6 /\ custom.bracket)
        /\ (custom.version = 6 /\ custom.port => custom.bracket)
    BY DEF IsServer
  <2> HIDE DEF custom
  <2>2. meant \in Form /\ meant.version = custom.version /\ meant.bracket = (custom.version = 6) /\ meant.port = TRUE
    BY <2>1
  <2>3. server \in Form /\ server.version = custom.version /\ server.bracket = (custom.version = 6) /\ server.port = TRUE
    <3>1. CASE custom.version = 6 /\ ~custom.bracket
      BY <2>1, <3>1 DEF normalizeDNSServer
    <3>2. CASE custom.version = 6 /\ custom.bracket
      BY <1>1, <2>1, <3>2 DEF normalizeDNSServer
    <3>3. CASE custom.version # 6
      BY <2>1, <3>3 DEF normalizeDNSServer
    <3> QED BY <2>1, <3>1, <3>2, <3>3
  <2> HIDE DEF meant, server
  <2>4. server = meant
    BY <2>2, <2>3
  <2> QED BY <2>2, <2>4 DEF Complete
<1>2. got = First(<<server>> \o Keep(q.builtin, others), R)
  BY DEF DNSServer
<1>3. got = IF server \in R THEN {server} ELSE First(q.builtin, others \cap R)
  <2> HIDE DEF server, others, R
  <2> DEFINE Y == X \cup {server}
  <2>1. q.builtin \in Seq(Y) /\ <<server>> \in Seq(Y)
    OBVIOUS
  <2> HIDE DEF Y
  <2>2. PICK a \in Seq(Y), b \in Seq(Y) : a = <<server>> /\ b = Keep(q.builtin, others)
    BY <2>1, KeepFirst
  <2>3. First(b, R) = First(q.builtin, others \cap R)
    BY <2>1, <2>2, KeepFirst
  <2>4. First(a \o b, R) = IF First(a, R) # {} THEN First(a, R) ELSE First(b, R)
    BY FirstOfBoth
  <2>5. First(a, R) = IF server \in R THEN {server} ELSE {}
    BY <2>2 DEF First
  <2> QED BY <1>2, <2>2, <2>3, <2>4, <2>5
<1>4. ASSUME custom.bracket => custom.port, meant \in q.usable PROVE got = {meant}
  BY <1>1, <1>3, <1>4
<1>5. ASSUME Range(q.builtin) \cap q.usable # {} PROVE got # {} /\ got \subseteq q.usable
  <2>1. CASE server \in R
    BY <1>3, <2>1
  <2>2. CASE server \notin R
    <3>1. PICK i \in DOMAIN q.builtin : q.builtin[i] \in q.usable
      BY <1>5 DEF Range
    <3>2. q.builtin[i] \in Range(q.builtin)
      BY <3>1 DEF Range
    <3>3. q.builtin[i] \in others \cap R
      BY <2>2, <3>1, <3>2
    <3> HIDE DEF others, R, server
    <3>4. PICK Q : Q = others \cap R
      OBVIOUS
    <3>5. First(q.builtin, Q) # {} /\ First(q.builtin, Q) \subseteq Q
      BY <3>1, <3>3, <3>4, FirstSome, FirstIn
    <3> QED BY <1>3, <2>2, <3>4, <3>5 DEF R
  <2> QED BY <2>1, <2>2
<1> HIDE DEF got, meant
<1> QED BY <1>4, <1>5 DEF ServerAgrees, got, meant

LEMMA OwnAddressCorrect ==
  ASSUME NEW X, NEW Y, NEW q, q.addrs \in Seq(X), q.custom \in [{4, 6} -> BOOLEAN], q.answers \in [{4, 6} -> Seq(Y)]
  PROVE  OwnAddressAgrees(q)
<1> DEFINE got == GetIPAddress(q)
           usable(v) == \E i \in DOMAIN q.addrs :
             LET a == q.addrs[i] IN a.version = v /\ a.included /\ a.up /\ (a.scope = "global" \/ (v = 4 /\ a.scope = "link"))
           nic == [v \in {4, 6} |-> FromInterfaces(q.addrs, v)]
           elsewhere == [v \in {4, 6} |-> IF q.custom[v] THEN {"custom"} ELSE First(q.answers[v], {"web"})]
<1>1. ASSUME NEW v \in {4, 6}
      PROVE  /\ nic[v] # {} <=> usable(v)
             /\ nic[v] \subseteq {"global", "link"} /\ ("link" \in nic[v] => v = 4)
  <2> DEFINE list == [i \in DOMAIN q.addrs |-> IF q.addrs[i].included /\ q.addrs[i].up /\ q.addrs[i].version = v
                                                THEN q.addrs[i].scope ELSE "none"]
             Z == {list[i] : i \in DOMAIN q.addrs}
             R == IF v = 4 THEN {"global", "link"} ELSE {"global"}
  <2>1. list \in Seq(Z) /\ DOMAIN list = DOMAIN q.addrs
    <3>1. DOMAIN q.addrs = 1 .. Len(q.addrs) /\ Len(q.addrs) \in Nat
      OBVIOUS
    <3> QED BY <3>1
  <2>2. nic[v] = First(list, R)
    BY DEF FromInterfaces
  <2>3. \A i \in DOMAIN list : list[i] \in R <=>
          LET a == q.addrs[i] IN a.version = v /\ a.included /\ a.up /\ (a.scope = "global" \/ (v = 4 /\ a.scope = "link"))
    OBVIOUS
  <2>4. R \subseteq {"global", "link"} /\ ("link" \in R => v = 4)
    OBVIOUS
  <2> HIDE DEF list, R, Z, nic
  <2>5. First(list, R) # {} <=> \E i \in DOMAIN list : list[i] \in R
    BY <2>1, FirstSome
  <2>6. First(list, R) \subseteq R
    BY FirstIn
  <2> QED BY <2>1, <2>2, <2>3, <2>4, <2>5, <2>6
<1>2. ASSUME NEW v \in {4, 6}
      PROVE  /\ elsewhere[v] \subseteq {"custom", "web"}
             /\ elsewhere[v] = {} => ~q.custom[v] /\ "web" \notin Range(q.answers[v])
  <2>1. First(q.answers[v], {"web"}) # {} <=> \E i \in DOMAIN q.answers[v] : q.answers[v][i] \in {"web"}
    <3>1. PICK a \in Seq(Y) : a = q.answers[v]
      OBVIOUS
    <3> QED BY <3>1, FirstSome
  <2>2. First(q.answers[v], {"web"}) \subseteq {"web"}
    BY FirstIn
  <2>3. "web" \in Range(q.answers[v]) <=> \E i \in DOMAIN q.answers[v] : q.answers[v][i] \in {"web"}
    BY DEF Range
  <2> QED BY <2>1, <2>2, <2>3
<1>3. got = IF q.fromNic /\ \E v \in {4, 6} : nic[v] # {} THEN nic ELSE elsewhere
  BY DEF GetIPAddress
<1> HIDE DEF nic, elsewhere, usable, got
<1>4. ASSUME NEW v \in {4, 6}
      PROVE  /\ got[v] \cap {"global", "link"} # {} => q.fromNic /\ usable(v)
             /\ "link" \in got[v] => v = 4
             /\ got[v] = {} =>
                  \/ q.fromNic /\ ~usable(v) /\ usable(10 - v)
                  \/ ~q.custom[v] /\ "web" \notin Range(q.answers[v])
  <2>1. CASE q.fromNic /\ \E w \in {4, 6} : nic[w] # {}
    <3>1. got = nic
      BY <1>3, <2>1
    <3>2. PICK w \in {4, 6} : nic[w] # {}
      BY <2>1
    <3>3. w = v \/ w = 10 - v
      OBVIOUS
    <3> QED BY <1>1, <2>1, <3>1, <3>2, <3>3
  <2>2. CASE ~(q.fromNic /\ \E w \in {4, 6} : nic[w] # {})
    <3>1. got = elsewhere
      BY <1>3, <2>2
    <3> QED BY <1>2, <3>1
  <2> QED BY <2>1, <2>2
<1> QED BY <1>4 DEF OwnAddressAgrees, got, usable


(***************************************************************************)
(* Releases.                                                               *)
(***************************************************************************)

LEMMA LatestSteps ==
  ASSUME NEW X, NEW list \in Seq(X)
  PROVE  \E k : /\ k[0] = NoRelease /\ k[Len(list)] = selectLatestSnapshotRelease(list)
                /\ \A i \in 1 .. Len(list) :
                     k[i] = IF Suitable(list[i]) /\ (k[i - 1] = NoRelease \/ Newer(list[i], k[i - 1])) THEN list[i] ELSE k[i - 1]
<1> DEFINE n == Len(list)
           V == X \cup {NoRelease}
           Better(r, latest) == Suitable(r) /\ (latest = NoRelease \/ Newer(r, latest))
           Goes(it) ==
             it = [s \in SUBSET DOMAIN list |->
                     IF s = {} THEN NoRelease
                     ELSE IF Suitable(list[Max(s)]) /\ (it[s \ {Max(s)}] = NoRelease \/ Newer(list[Max(s)], it[s \ {Max(s)}]))
                          THEN list[Max(s)] ELSE it[s \ {Max(s)}]]
<1>1. selectLatestSnapshotRelease(list) = (CHOOSE it : Goes(it))[DOMAIN list]
  BY Zenon DEF selectLatestSnapshotRelease, FoldLeft, MapThenFoldSet
<1>2. n \in Nat /\ DOMAIN list = 1 .. n /\ \A i \in 1 .. n : list[i] \in X
  OBVIOUS
<1> HIDE DEF n
<1>3. \E it : Goes(it)
  <2> DEFINE H == [iv \in (1 .. n) \X V |-> IF Better(list[iv[1]], iv[2]) THEN list[iv[1]] ELSE iv[2]]
  <2> HIDE DEF Better
  <2>1. H \in [(1 .. n) \X V -> V] /\ NoRelease \in V
    BY <1>2
  <2>2. \A i \in 1 .. n : \A v \in V : H[<<i, v>>] = IF Better(list[i], v) THEN list[i] ELSE v
    OBVIOUS
  <2> HIDE DEF H, V
  <2>3. PICK it \in [SUBSET (1 .. n) -> V] : Folds(it, NoRelease, H, SUBSET (1 .. n))
    BY <1>2, <2>1, FoldExists
  <2>4. ASSUME NEW s \in SUBSET (1 .. n)
        PROVE  it[s] = IF s = {} THEN NoRelease
                       ELSE IF Better(list[Max(s)], it[s \ {Max(s)}]) THEN list[Max(s)] ELSE it[s \ {Max(s)}]
    <3>1. s # {} => Max(s) \in 1 .. n /\ it[s \ {Max(s)}] \in V
      BY <1>2, <2>3, MaxIn
    <3> QED BY <2>2, <2>3, <3>1 DEF Folds
  <2>5. Goes(it)
    BY <1>2, <2>3, <2>4 DEF Better
  <2> QED BY <2>5
<1>4. PICK it : it = (CHOOSE f : Goes(f)) /\ Goes(it)
  BY <1>3, Zenon
<1>5. \A s \in SUBSET (1 .. n) :
        it[s] = IF s = {} THEN NoRelease
                ELSE IF Better(list[Max(s)], it[s \ {Max(s)}]) THEN list[Max(s)] ELSE it[s \ {Max(s)}]
  BY <1>2, <1>4, Zenon
<1>6. selectLatestSnapshotRelease(list) = it[1 .. n]
  BY <1>1, <1>2, <1>4
<1> HIDE DEF Goes, Better
<1> DEFINE k == [i \in 0 .. n |-> it[1 .. i]]
<1>7. k[0] = NoRelease
  <2>1. 1 .. 0 = {} /\ {} \in SUBSET (1 .. n) /\ 0 \in 0 .. n
    BY <1>2
  <2>2. k[0] = it[{}]
    BY <2>1
  <2> HIDE DEF k
  <2> QED BY <1>5, <2>1, <2>2
<1>8. k[n] = selectLatestSnapshotRelease(list)
  BY <1>2, <1>6
<1>9. ASSUME NEW i \in 1 .. n
      PROVE  k[i] = IF Better(list[i], k[i - 1]) THEN list[i] ELSE k[i - 1]
  <2>1. it[1 .. i] = IF Better(list[i], it[1 .. i - 1]) THEN list[i] ELSE it[1 .. i - 1]
    BY <1>2, <1>5, Segments
  <2>2. k[i] = it[1 .. i] /\ k[i - 1] = it[1 .. i - 1]
    BY <1>2
  <2> QED BY <2>1, <2>2
<1> HIDE DEF k
<1> QED BY <1>7, <1>8, <1>9 DEF n, Better

\* Releases as GitHub lists them: each tag once.
IsList(list, X) ==
  /\ X \subseteq [time : Nat, tag : Nat \ {0}, draft : BOOLEAN, prerelease : BOOLEAN, snapshot : BOOLEAN, asset : BOOLEAN]
  /\ \A r, s \in X : r.tag = s.tag => r = s
  /\ list \in Seq(X)

IsLatest(latest, S) ==
  IF S = {} THEN latest = NoRelease ELSE latest \in S /\ \A s \in S : latest = s \/ Newer(latest, s)

LEMMA LatestCorrect ==
  ASSUME NEW X, NEW list, IsList(list, X)
  PROVE  IsLatest(selectLatestSnapshotRelease(list), {r \in Range(list) : Suitable(r)})
<1> DEFINE n == Len(list)
           best(i, latest) == IF \A j \in 1 .. i : ~Suitable(list[j]) THEN latest = NoRelease
                              ELSE /\ \E j \in 1 .. i : latest = list[j] /\ Suitable(latest)
                                   /\ \A j \in 1 .. i : Suitable(list[j]) => latest = list[j] \/ Newer(latest, list[j])
<1>1. PICK k : /\ k[0] = NoRelease /\ k[n] = selectLatestSnapshotRelease(list)
               /\ \A i \in 1 .. n :
                    k[i] = IF Suitable(list[i]) /\ (k[i - 1] = NoRelease \/ Newer(list[i], k[i - 1])) THEN list[i] ELSE k[i - 1]
  BY LatestSteps DEF IsList
<1>2. /\ n \in Nat /\ DOMAIN list = 1 .. n /\ \A i \in 1 .. n : list[i] \in X
      /\ \A r \in X : r.time \in Nat /\ r.tag \in Nat \ {0} /\ r # NoRelease
      /\ \A r, s \in X : r.tag = s.tag => r = s
  BY DEF IsList, NoRelease
<1> HIDE DEF n
<1> DEFINE T == {i \in 0 .. n : best(i, k[i])}
<1>3. 0 \in T
  BY <1>1, <1>2
<1>4. ASSUME NEW i \in 1 .. n, i - 1 \in T PROVE i \in T
  <2>1. PICK r \in X, old \in {k[i - 1]}, new \in {k[i]} : r = list[i] /\ old = k[i - 1] /\ new = k[i]
    BY <1>2
  <2>2. new = IF Suitable(r) /\ (old = NoRelease \/ Newer(r, old)) THEN r ELSE old
    BY <1>1, <2>1
  <2>3. best(i - 1, old)
    BY <1>4, <2>1
  <2>4. /\ \A j \in 1 .. i : j = i \/ j \in 1 .. i - 1
        /\ i \in 1 .. i /\ 1 .. i - 1 \subseteq 1 .. i /\ 1 .. i \subseteq 1 .. n /\ i \in 0 .. n
    BY <1>2
  <2>5. CASE \A j \in 1 .. i - 1 : ~Suitable(list[j])
    <3>1. old = NoRelease
      BY <2>3, <2>5
    <3>2. CASE Suitable(r)
      <4>1. new = r
        BY <2>2, <3>1, <3>2
      <4>2. \A j \in 1 .. i : Suitable(list[j]) => new = list[j]
        BY <2>1, <2>4, <2>5, <4>1
      <4>3. best(i, new)
        BY <2>1, <2>4, <3>2, <4>1, <4>2
      <4> QED BY <2>1, <2>4, <4>3
    <3>3. CASE ~Suitable(r)
      <4>1. best(i, new)
        BY <2>1, <2>2, <2>4, <2>5, <3>1, <3>3
      <4> QED BY <2>1, <2>4, <4>1
    <3> QED BY <3>2, <3>3
  <2>6. CASE \E j \in 1 .. i - 1 : Suitable(list[j])
    <3>1. /\ \E j \in 1 .. i - 1 : old = list[j] /\ Suitable(old)
          /\ \A j \in 1 .. i - 1 : Suitable(list[j]) => old = list[j] \/ Newer(old, list[j])
      BY <2>3, <2>6
    <3>2. old \in X /\ old # NoRelease
      BY <1>2, <2>4, <3>1
    <3>3. CASE Suitable(r) /\ Newer(r, old)
      <4>1. new = r
        BY <2>2, <3>3
      <4>2. ASSUME NEW j \in 1 .. i, Suitable(list[j]) PROVE new = list[j] \/ Newer(new, list[j])
        <5>1. CASE j = i
          BY <2>1, <4>1, <5>1
        <5>2. CASE j \in 1 .. i - 1
          <6>1. old = list[j] \/ Newer(old, list[j])
            BY <3>1, <4>2, <5>2
          <6>2. list[j] \in X
            BY <1>2, <2>4
          <6>3. Newer(r, list[j])
            BY <1>2, <3>2, <3>3, <6>1, <6>2 DEF Newer
          <6> QED BY <4>1, <6>3
        <5> QED BY <2>4, <5>1, <5>2
      <4>3. best(i, new)
        BY <2>1, <2>4, <3>3, <4>1, <4>2
      <4> QED BY <2>1, <2>4, <4>3
    <3>4. CASE ~(Suitable(r) /\ Newer(r, old))
      <4>1. new = old
        BY <2>2, <3>2, <3>4
      <4>2. Suitable(r) => old = r \/ Newer(old, r)
        BY <1>2, <3>2, <3>4 DEF Newer
      <4>3. best(i, new)
        BY <2>1, <2>4, <2>6, <3>1, <4>1, <4>2
      <4> QED BY <2>1, <2>4, <4>3
    <3> QED BY <3>3, <3>4
  <2> QED BY <2>5, <2>6
<1>5. n \in T
  <2>1. n \in 0 .. n
    BY <1>2
  <2> HIDE DEF T
  <2>2. 0 .. n \subseteq T
    BY <1>2, <1>3, <1>4, UpTo
  <2> QED BY <2>1, <2>2
<1>6. best(n, k[n])
  BY <1>5
<1>7. \A r : r \in Range(list) <=> \E j \in 1 .. n : r = list[j]
  BY <1>2 DEF Range
<1>8. PICK latest : latest = selectLatestSnapshotRelease(list)
  OBVIOUS
<1>9. best(n, latest)
  BY <1>1, <1>6, <1>8
<1> DEFINE S == {r \in Range(list) : Suitable(r)}
<1>10. CASE \A j \in 1 .. n : ~Suitable(list[j])
  <2>1. S = {} /\ latest = NoRelease
    BY <1>7, <1>9, <1>10
  <2> QED BY <1>8, <2>1 DEF IsLatest
<1>11. CASE \E j \in 1 .. n : Suitable(list[j])
  <2>1. latest \in S /\ \A s \in S : latest = s \/ Newer(latest, s)
    BY <1>7, <1>9, <1>11
  <2> QED BY <1>8, <2>1 DEF IsLatest
<1> QED BY <1>10, <1>11


\* Every page but the last is full, so that they are the list.
Joined(all, m) == FoldLeft(LAMBDA list, n : list \o Page(all, n), << >>, [n \in 1 .. m |-> n])

LEMMA PagesSteps ==
  ASSUME NEW X, NEW all \in Seq(X), NEW m \in Nat
  PROVE  \E k : /\ k[0] = << >> /\ k[m] = Joined(all, m)
                /\ \A i \in 1 .. m : k[i] = k[i - 1] \o Page(all, i)
<1> DEFINE list == [n \in 1 .. m |-> n]
           V == Seq(X)
           Goes(it) == it = [s \in SUBSET DOMAIN list |->
                               IF s = {} THEN << >> ELSE it[s \ {Max(s)}] \o Page(all, list[Max(s)])]
<1>1. Joined(all, m) = (CHOOSE it : Goes(it))[DOMAIN list]
  BY Zenon DEF Joined, FoldLeft, MapThenFoldSet
<1>2. DOMAIN list = 1 .. m /\ \A i \in 1 .. m : list[i] = i
  OBVIOUS
<1>0. \A i \in 1 .. m : Page(all, i) \in V
  <2> SUFFICES ASSUME NEW i \in 1 .. m PROVE Page(all, i) \in V
    OBVIOUS
  <2>1. PICK a \in Int, b \in Int : a = (i - 1) * PageSize + 1 /\ b = (IF i * PageSize < Len(all) THEN i * PageSize ELSE Len(all)) /\ a >= 1 /\ b <= Len(all)
    <3>1. PageSize \in Nat /\ (i - 1) * PageSize \in Nat /\ i * PageSize \in Nat /\ Len(all) \in Nat
      BY PageConstant
    <3> QED BY <3>1
  <2>2. SubSeq(all, a, b) \in Seq(X)
    BY <2>1, SubSeqProperties
  <2> QED BY <2>1, <2>2 DEF Page
<1> HIDE DEF list
<1>3. \E it : Goes(it)
  <2> DEFINE H == [iv \in (1 .. m) \X V |-> iv[2] \o Page(all, iv[1])]
  <2>1. H \in [(1 .. m) \X V -> V] /\ << >> \in V
    <3>1. ASSUME NEW iv \in (1 .. m) \X V PROVE iv[2] \o Page(all, iv[1]) \in V
      <4>1. iv[2] \in V /\ Page(all, iv[1]) \in V
        BY <1>0
      <4> QED BY <4>1
    <3>2. << >> \in V
      OBVIOUS
    <3> HIDE DEF V
    <3> QED BY <3>1, <3>2
  <2>2. \A i \in 1 .. m : \A v \in V : H[<<i, v>>] = v \o Page(all, i)
    OBVIOUS
  <2> HIDE DEF H, V
  <2>3. PICK it \in [SUBSET (1 .. m) -> V] : Folds(it, << >>, H, SUBSET (1 .. m))
    BY <1>2, <2>1, FoldExists
  <2>4. ASSUME NEW s \in SUBSET (1 .. m)
        PROVE  it[s] = IF s = {} THEN << >> ELSE it[s \ {Max(s)}] \o Page(all, list[Max(s)])
    <3>1. s # {} => Max(s) \in 1 .. m /\ it[s \ {Max(s)}] \in V
      BY <1>2, <2>3, MaxIn
    <3> QED BY <1>2, <2>2, <2>3, <3>1 DEF Folds
  <2>5. Goes(it)
    BY <1>2, <2>3, <2>4
  <2> QED BY <2>5
<1>4. PICK it : it = (CHOOSE f : Goes(f)) /\ Goes(it)
  BY <1>3, Zenon
<1>5. \A s \in SUBSET (1 .. m) : it[s] = IF s = {} THEN << >> ELSE it[s \ {Max(s)}] \o Page(all, list[Max(s)])
  BY <1>2, <1>4, Zenon
<1> HIDE DEF Goes
<1> DEFINE k == [i \in 0 .. m |-> it[1 .. i]]
<1>6. k[0] = << >>
  <2>1. 1 .. 0 = {} /\ {} \in SUBSET (1 .. m) /\ 0 \in 0 .. m
    OBVIOUS
  <2>2. k[0] = it[{}]
    BY <2>1
  <2> HIDE DEF k
  <2> QED BY <1>5, <2>1, <2>2
<1>7. k[m] = Joined(all, m)
  <2>1. Joined(all, m) = it[1 .. m]
    BY <1>1, <1>2, <1>4, Zenon
  <2>2. k[m] = it[1 .. m]
    OBVIOUS
  <2> QED BY <2>1, <2>2, Zenon
<1>8. ASSUME NEW i \in 1 .. m PROVE k[i] = k[i - 1] \o Page(all, i)
  <2>1. it[1 .. i] = it[1 .. i - 1] \o Page(all, i)
    <3>1. Max(1 .. i) = i /\ (1 .. i) \ {i} = 1 .. i - 1 /\ list[i] = i
      BY <1>2, Segments
    <3>2. it[1 .. i] = it[(1 .. i) \ {Max(1 .. i)}] \o Page(all, list[Max(1 .. i)])
      BY <1>5, Segments
    <3> QED BY <3>1, <3>2, Zenon
  <2>2. k[i] = it[1 .. i] /\ k[i - 1] = it[1 .. i - 1]
    OBVIOUS
  <2> QED BY <2>1, <2>2
<1> HIDE DEF k
<1> QED BY <1>6, <1>7, <1>8 DEF list

LEMMA NextPage ==
  ASSUME NEW n \in Int
  PROVE  (n - 1) * PageSize \in Int /\ n * PageSize \in Int /\ n * PageSize = (n - 1) * PageSize + PageSize
BY PageConstant

LEMMA PagesReach ==
  ASSUME NEW n \in Nat
  PROVE  n * PageSize >= n
BY PageConstant

\* Two parts of a list that meet.
LEMMA PartsMeet ==
  ASSUME NEW X, NEW all \in Seq(X), NEW a \in Nat, NEW b \in a .. Len(all)
  PROVE  SubSeq(all, 1, a) \o SubSeq(all, a + 1, b) = SubSeq(all, 1, b)
<1>1. /\ Len(all) \in Nat /\ b \in Nat
      /\ SubSeq(all, 1, a) \in Seq(X) /\ Len(SubSeq(all, 1, a)) = a /\ \A i \in 1 .. a : SubSeq(all, 1, a)[i] = all[i]
      /\ SubSeq(all, 1, b) \in Seq(X) /\ Len(SubSeq(all, 1, b)) = b /\ \A i \in 1 .. b : SubSeq(all, 1, b)[i] = all[i]
      /\ SubSeq(all, a + 1, b) \in Seq(X) /\ Len(SubSeq(all, a + 1, b)) = b - a
      /\ \A i \in 1 .. b - a : SubSeq(all, a + 1, b)[i] = all[a + i]
  OBVIOUS
<1>2. PICK p \in Seq(X), q \in Seq(X), r \in Seq(X) : p = SubSeq(all, 1, a) /\ q = SubSeq(all, a + 1, b) /\ r = SubSeq(all, 1, b)
  BY <1>1
<1>3. /\ Len(p) = a /\ \A i \in 1 .. a : p[i] = all[i]
      /\ Len(r) = b /\ \A i \in 1 .. b : r[i] = all[i]
      /\ Len(q) = b - a /\ \A i \in 1 .. b - a : q[i] = all[a + i]
  BY <1>1, <1>2
<1>4. PICK s \in Seq(X) : s = p \o q
  <2>1. p \o q \in Seq(X)
    OBVIOUS
  <2> QED BY <2>1
<1>5. Len(s) = b /\ (\A i \in 1 .. a : s[i] = p[i]) /\ (\A i \in 1 .. b - a : s[a + i] = q[i])
  BY <1>1, <1>3, <1>4
<1>6. ASSUME NEW i \in 1 .. b PROVE s[i] = r[i]
  <2>1. CASE i <= a
    BY <1>1, <1>3, <1>5, <2>1
  <2>2. CASE i > a
    <3>1. PICK j \in 1 .. b - a : i = a + j
      <4>1. i - a \in 1 .. b - a /\ i = a + (i - a)
        BY <1>1, <2>2
      <4> QED BY <4>1
    <3>2. s[a + j] = q[j] /\ q[j] = all[a + j] /\ r[a + j] = all[a + j]
      BY <1>3, <1>5, <3>1
    <3> QED BY <3>1, <3>2
  <2> QED BY <1>1, <2>1, <2>2
<1>7. s = r
  BY <1>1, <1>3, <1>5, <1>6
<1> QED BY <1>2, <1>4, <1>7

LEMMA ListCorrect ==
  ASSUME NEW X, NEW all \in Seq(X)
  PROVE  listGitHubReleases(all) = all
<1> DEFINE L == Len(all)
           end(n) == IF n * PageSize < L THEN n * PageSize ELSE L
           short == {n \in 1 .. L + 1 : Len(Page(all, n)) < PageSize}
<1>1. PageSize \in Nat \ {0} /\ L \in Nat
  BY PageConstant
<1>2. ASSUME NEW n \in 1 .. L + 1
      PROVE  n \in short <=> n * PageSize > L
  <2>0. n \in short <=> Len(Page(all, n)) < PageSize
    OBVIOUS
  <2> HIDE DEF short, end
  <2>1. PICK a \in Nat, b \in Nat : a = (n - 1) * PageSize /\ b = n * PageSize /\ b = a + PageSize
    <3>1. (n - 1) * PageSize \in Nat /\ n * PageSize \in Nat
      BY <1>1
    <3> QED BY <3>1, NextPage
  <2>2. Page(all, n) = SubSeq(all, a + 1, IF b < L THEN b ELSE L)
    BY <2>1 DEF Page
  <2>3. CASE b <= L
    <3>1. (IF b < L THEN b ELSE L) = b
      BY <1>1, <2>1, <2>3
    <3>0. Page(all, n) = SubSeq(all, a + 1, b)
      BY <2>2, <3>1
    <3>2. Len(SubSeq(all, a + 1, b)) = PageSize
      BY <1>1, <2>1, <2>3, SubSeqProperties
    <3> QED BY <1>1, <2>0, <2>1, <2>3, <3>0, <3>2
  <2>4. CASE b > L
    <3>1. (IF b < L THEN b ELSE L) = L
      BY <1>1, <2>1, <2>4
    <3>0. Page(all, n) = SubSeq(all, a + 1, L)
      BY <2>2, <3>1
    <3>2. Len(SubSeq(all, a + 1, L)) < PageSize
      BY <1>1, <2>1, <2>4, SubSeqProperties
    <3> QED BY <1>1, <2>0, <2>1, <2>4, <3>0, <3>2
  <2> QED BY <1>1, <2>1, <2>3, <2>4
<1>3. L + 1 \in short
  <2>1. (L + 1) * PageSize >= L + 1
    BY <1>1, PagesReach
  <2>2. (L + 1) * PageSize \in Int
    BY <1>1
  <2> QED BY <1>1, <1>2, <2>1, <2>2
<1> DEFINE pages == CHOOSE n \in short : \A j \in short : n <= j
<1>4. pages \in short /\ \A j \in short : pages <= j
  <2>1. short \in SUBSET Nat
    OBVIOUS
  <2> HIDE DEF short
  <2>2. \E n \in short : \A j \in short : n <= j
    BY <1>3, <2>1, LeastElement
  <2> QED BY <2>2, Zenon
<1>5. listGitHubReleases(all) = Joined(all, pages)
  BY Zenon DEF Joined, listGitHubReleases
<1>6. PICK m \in 1 .. L + 1 : m = pages
  BY <1>4
<1> HIDE DEF pages
<1>7. PICK k : /\ k[0] = << >> /\ k[m] = Joined(all, m)
               /\ \A i \in 1 .. m : k[i] = k[i - 1] \o Page(all, i)
  <2>1. m \in Nat
    BY <1>1
  <2> QED BY <2>1, PagesSteps, Zenon
<1>8. k[m] = listGitHubReleases(all)
  BY <1>5, <1>6, <1>7, Zenon
<1>9. \A i \in 1 .. m - 1 : i * PageSize <= L
  <2> SUFFICES ASSUME NEW i \in 1 .. m - 1 PROVE i * PageSize <= L
    OBVIOUS
  <2>1. i \in 1 .. L + 1 /\ i \notin short
    <3> HIDE DEF short
    <3> QED BY <1>1, <1>4, <1>6
  <2>2. i * PageSize \in Int
    BY <1>1
  <2> QED BY <1>1, <1>2, <2>1, <2>2
<1>10. m * PageSize > L /\ m * PageSize \in Int
  BY <1>1, <1>2, <1>4, <1>6
<1> DEFINE T == {i \in 0 .. m : k[i] = SubSeq(all, 1, end(i))}
<1>11. 0 \in T
  <2>1. end(0) = 0 /\ SubSeq(all, 1, 0) = << >> /\ 0 \in 0 .. m
    BY <1>1, SubSeqEmpty
  <2> HIDE DEF end
  <2> QED BY <1>7, <2>1
<1>12. ASSUME NEW i \in 1 .. m, i - 1 \in T PROVE i \in T
  <2>1. PICK a \in Nat, b \in Nat : a = (i - 1) * PageSize /\ b = i * PageSize /\ b = a + PageSize
    <3> HIDE DEF T
    <3>1. (i - 1) * PageSize \in Nat /\ i * PageSize \in Nat
      BY <1>1
    <3>2. i \in Int
      OBVIOUS
    <3> QED BY <3>1, <3>2, NextPage
  <2>2. a <= L
    <3>1. CASE i = 1
      BY <1>1, <2>1, <3>1
    <3>2. CASE i # 1
      BY <1>9, <2>1, <3>2
    <3> QED BY <3>1, <3>2
  <2>3. end(i - 1) = a
    BY <1>1, <2>1, <2>2
  <2>4. PICK c \in a .. L : c = end(i)
    BY <1>1, <2>1, <2>2
  <2>5. Page(all, i) = SubSeq(all, a + 1, c)
    BY <2>1, <2>4 DEF Page
  <2>6. k[i - 1] = SubSeq(all, 1, a)
    BY <1>12, <2>3
  <2>7. k[i] = SubSeq(all, 1, a) \o SubSeq(all, a + 1, c)
    BY <1>7, <2>5, <2>6
  <2>8. k[i] = SubSeq(all, 1, c)
    BY <2>7, PartsMeet
  <2>9. k[i] = SubSeq(all, 1, end(i))
    BY <2>4, <2>8
  <2> QED BY <2>9
<1>13. m \in T
  <2>1. m \in Nat /\ m \in 0 .. m
    OBVIOUS
  <2> HIDE DEF T
  <2>2. 0 .. m \subseteq T
    BY <1>11, <1>12, <2>1, UpTo
  <2> QED BY <2>1, <2>2
<1>14. end(m) = L
  BY <1>1, <1>10
<1>15. k[m] = SubSeq(all, 1, L)
  BY <1>13, <1>14
<1>16. SubSeq(all, 1, L) = all
  BY SubSeqProperties
<1> QED BY <1>8, <1>15, <1>16


LEMMA ReverseRange ==
  ASSUME NEW X, NEW list \in Seq(X)
  PROVE  Reverse(list) \in Seq(X) /\ Range(Reverse(list)) = Range(list)
<1> DEFINE n == Len(list)
           r == [i \in 1 .. n |-> list[(n - i) + 1]]
<1>1. Reverse(list) = r
  BY DEF Reverse
<1>2. n \in Nat /\ DOMAIN list = 1 .. n /\ \A i \in 1 .. n : list[i] \in X /\ (n - i) + 1 \in 1 .. n
  OBVIOUS
<1> HIDE DEF n
<1>3. DOMAIN r = 1 .. n /\ \A i \in 1 .. n : r[i] = list[(n - i) + 1] /\ r[i] \in X
  BY <1>2
<1>4. r \in Seq(X)
  BY <1>2
<1> HIDE DEF r
<1>5. \A x : x \in Range(r) <=> \E i \in 1 .. n : x = r[i]
  BY <1>3 DEF Range
<1>6. \A x : x \in Range(list) <=> \E i \in 1 .. n : x = list[i]
  BY <1>2 DEF Range
<1>7. ASSUME NEW i \in 1 .. n PROVE list[i] \in Range(r)
  <2>1. PICK j \in 1 .. n : j = (n - i) + 1 /\ i = (n - j) + 1
    BY <1>2
  <2>2. r[j] = list[i]
    BY <1>3, <2>1
  <2> QED BY <1>5, <2>2
<1>8. ASSUME NEW i \in 1 .. n PROVE r[i] \in Range(list)
  BY <1>2, <1>3, <1>6
<1>9. Range(r) = Range(list)
  BY <1>5, <1>6, <1>7, <1>8
<1> QED BY <1>1, <1>4, <1>9

LEMMA OneLatest ==
  ASSUME NEW S, NEW a, NEW b, IsLatest(a, S), IsLatest(b, S), \A r \in S : r.time \in Nat /\ r.tag \in Nat
  PROVE  a = b
BY DEF IsLatest, Newer

LEMMA ReleaseCorrect ==
  ASSUME NEW X, NEW q, IsList(q.all, X)
  PROVE  ReleaseAgrees(q)
<1> DEFINE back == Reverse(q.all)
           S == {r \in Range(q.all) : Suitable(r)}
           latest == selectLatestSnapshotRelease(q.all)
           then == selectLatestSnapshotRelease(back)
           next == checkAndUpdateSnapshot(q.current, q.inContainer, q.all)
<1>1. q.all \in Seq(X) /\ back \in Seq(X) /\ Range(back) = Range(q.all) /\ IsList(back, X)
  BY ReverseRange DEF IsList
<1>2. listGitHubReleases(q.all) = q.all /\ listGitHubReleases(back) = back
  <2> HIDE DEF back
  <2> QED BY <1>1, ListCorrect
<1>3. IsLatest(latest, S)
  BY LatestCorrect
<1>4. IsLatest(then, S)
  <2>1. IsLatest(then, {r \in Range(back) : Suitable(r)})
    <3> HIDE DEF back
    <3> QED BY <1>1, LatestCorrect
  <2> QED BY <1>1, <2>1
<1>5. \A r \in S : r \in X /\ r.time \in Nat /\ r.tag \in Nat \ {0} /\ r # NoRelease
  <2>1. \A r \in S : r \in X
    BY <1>1 DEF Range
  <2> QED BY <2>1 DEF IsList, NoRelease
<1>6. next = IF q.inContainer \/ latest = NoRelease THEN q.current ELSE latest.tag
  BY <1>2 DEF checkAndUpdateSnapshot
<1>7. checkAndUpdateSnapshot(next, q.inContainer, back) = IF q.inContainer \/ then = NoRelease THEN next ELSE then.tag
  BY <1>2 DEF checkAndUpdateSnapshot
<1> HIDE DEF S, latest, then, next, back
<1>8. then = latest
  BY <1>3, <1>4, <1>5, OneLatest
<1>9. q.inContainer \/ S = {} => next = q.current
  BY <1>3, <1>6 DEF IsLatest
<1>10. ASSUME ~q.inContainer, S # {}
       PROVE  \E r \in S : r.tag = next /\ \A s \in S : r = s \/ Newer(r, s)
  BY <1>3, <1>5, <1>6, <1>10 DEF IsLatest
<1>11. checkAndUpdateSnapshot(next, q.inContainer, back) = next
  BY <1>6, <1>7, <1>8
<1> QED BY <1>9, <1>10, <1>11 DEF ReleaseAgrees, S, next, back

(***************************************************************************)
(* The month of the traffic.                                               *)
(***************************************************************************)

LEMMA DaysInIs ==
  ASSUME NEW y \in Nat, NEW m \in 1 .. 12
  PROVE  DaysIn(y, m) \in 28 .. 31
BY DEF DaysIn

IsDate(y, m, d) == y \in Nat \ {0} /\ m \in 1 .. 12 /\ d \in 1 .. DaysIn(y, m)

Past(y, m) == IF m = 1 THEN <<y - 1, 12>> ELSE <<y, m - 1>>

\* The three days that it can be.
LEMMA LastIs ==
  ASSUME NEW y, NEW m, NEW d, IsDate(y, m, d), NEW r \in 1 .. 31,
         NEW y0 \in Nat, NEW m0 \in 1 .. 12, <<y0, m0>> = Past(y, m)
  PROVE  GetLastResetDate(r, <<y, m, d>>) =
           IF r <= d THEN <<y, m, r>> ELSE IF r <= DaysIn(y0, m0) THEN <<y0, m0, r>> ELSE <<y, m, 1>>
<1>1. y \in Nat \ {0} /\ m \in Nat /\ d \in Nat /\ 1 <= d /\ d <= DaysIn(y, m) /\ DaysIn(y, m) \in Nat /\ DaysIn(y0, m0) \in Nat
      /\ m \in 1 .. 12
  BY DaysInIs DEF IsDate
<1>2. (m = 1 => y0 = y - 1 /\ m0 = 12) /\ (m # 1 => y0 = y /\ m0 = m - 1)
  BY DEF Past
<1> DEFINE date == <<y, m, d>>
           this == getActualResetDate(y, m, r)
           prev == getActualResetDate(y0, m0, r)
<1>3. GetLastResetDate(r, date) = IF ~Before(date, this) THEN this ELSE prev
  <2>1. date[1] = y /\ date[2] = m
    OBVIOUS
  <2>2. GetLastResetDate(r, date) =
          IF ~Before(date, getActualResetDate(date[1], date[2], r)) THEN getActualResetDate(date[1], date[2], r)
          ELSE IF date[2] = 1 THEN getActualResetDate(date[1] - 1, 12, r) ELSE getActualResetDate(date[1], date[2] - 1, r)
    BY DEF GetLastResetDate
  <2> QED BY <1>2, <2>1, <2>2
<1>4. prev = IF r <= DaysIn(y0, m0) THEN <<y0, m0, r>> ELSE <<y, m, 1>>
  <2>1. prev = IF r <= DaysIn(y0, m0) THEN <<y0, m0, r>> ELSE IF m0 = 12 THEN <<y0 + 1, 1, 1>> ELSE <<y0, m0 + 1, 1>>
    BY DEF getActualResetDate
  <2> QED BY <1>1, <1>2, <2>1
<1>5. CASE r <= d
  <2>1. this = <<y, m, r>>
    BY <1>1, <1>5 DEF getActualResetDate
  <2>2. ~Before(date, this)
    BY <1>1, <1>5, <2>1 DEF Before
  <2> QED BY <1>3, <1>5, <2>1, <2>2
<1>6. CASE ~(r <= d)
  <2>1. this = <<y, m, r>> \/ this = <<y + 1, 1, 1>> \/ (this = <<y, m + 1, 1>>)
    BY DEF getActualResetDate
  <2>2. Before(date, this)
    BY <1>1, <1>6, <2>1 DEF Before
  <2> HIDE DEF this, prev, date
  <2> QED BY <1>3, <1>4, <1>6, <2>2 DEF date
<1> QED BY <1>5, <1>6

LEMMA ResetDateCorrect ==
  ASSUME NEW q, NEW y, NEW m, NEW d, q.date = <<y, m, d>>, IsDate(y, m, d), q.resetDay \in 1 .. 31, DataPreserveDay >= 31
  PROVE  ResetDateAgrees(q)
<1>1. PICK r \in 1 .. 31 : r = q.resetDay
  OBVIOUS
<1>2. PICK y0 \in Nat, m0 \in 1 .. 12 : <<y0, m0>> = Past(y, m) /\ IF m = 1 THEN y0 = y - 1 /\ m0 = 12 ELSE y0 = y /\ m0 = m - 1
  <2>1. CASE m = 1
    <3>1. y - 1 \in Nat /\ 12 \in 1 .. 12
      BY DEF IsDate
    <3> QED BY <2>1, <3>1 DEF Past
  <2>2. CASE m # 1
    <3>1. y \in Nat /\ m - 1 \in 1 .. 12
      BY <2>2 DEF IsDate
    <3> QED BY <2>2, <3>1 DEF Past
  <2> QED BY <2>1, <2>2
<1>3. PICK first : first = GetLastResetDate(r, <<y, m, d>>)
  OBVIOUS
<1>4. first = IF r <= d THEN <<y, m, r>> ELSE IF r <= DaysIn(y0, m0) THEN <<y0, m0, r>> ELSE <<y, m, 1>>
  BY <1>2, <1>3, LastIs
<1>5. PICK D \in 28 .. 31, D0 \in 28 .. 31 : D = DaysIn(y, m) /\ D0 = DaysIn(y0, m0)
  BY DaysInIs DEF IsDate
<1>6. y \in Nat \ {0} /\ m \in 1 .. 12 /\ d \in 1 .. D
  BY <1>5 DEF IsDate
<1>7. \A day : Begins(r, <<y, m, day>>) <=> day = r \/ (day = 1 /\ r > D0)
  BY <1>2, <1>5 DEF Begins
<1>8. \A y1, m1, d1, y2, m2, d2 : Before(<<y1, m1, d1>>, <<y2, m2, d2>>) <=>
        y1 < y2 \/ (y1 = y2 /\ m1 < m2) \/ (y1 = y2 /\ m1 = m2 /\ d1 < d2)
  BY DEF Before
<1>9. CASE r <= d
  <2>1. first = <<y, m, r>>
    BY <1>4, <1>9
  <2>2. ~Before(<<y, m, d>>, first) /\ Begins(r, first)
    BY <1>6, <1>7, <1>8, <1>9, <2>1
  <2>3. ASSUME NEW month \in 1 .. 12, NEW day \in 1 .. DaysIn(y, month),
               Before(first, <<y, month, day>>), ~Before(<<y, m, d>>, <<y, month, day>>)
        PROVE  ~Begins(r, <<y, month, day>>)
    <3>1. day \in Nat
      BY <1>6, DaysInIs
    <3>2. month = m /\ r < day
      BY <1>6, <1>8, <2>1, <2>3, <3>1
    <3> QED BY <1>7, <3>1, <3>2
  <2>4. DaysFrom(first, <<y, m, d>>) = d - r
    BY <2>1 DEF DaysFrom
  <2> QED BY <1>1, <1>3, <1>5, <1>6, <2>2, <2>3, <2>4, PreserveConstant DEF ResetDateAgrees
<1>10. CASE r > d /\ r <= D0
  <2>1. first = <<y0, m0, r>>
    BY <1>4, <1>5, <1>6, <1>10
  <2>2. ~Before(<<y, m, d>>, first) /\ Begins(r, first)
    <3>1. Begins(r, first)
      BY <2>1 DEF Begins
    <3> QED BY <1>2, <1>6, <1>8, <1>10, <2>1, <3>1
  <2>3. ASSUME NEW month \in 1 .. 12, NEW day \in 1 .. DaysIn(y, month),
               Before(first, <<y, month, day>>), ~Before(<<y, m, d>>, <<y, month, day>>)
        PROVE  ~Begins(r, <<y, month, day>>)
    <3>1. day \in Nat
      BY <1>6, DaysInIs
    <3>2. CASE month = m
      <4>1. day <= d
        BY <1>6, <1>8, <2>3, <3>1, <3>2
      <4> QED BY <1>6, <1>7, <1>10, <3>1, <3>2, <4>1
    <3>3. CASE month # m
      <4>1. y = y0 /\ month = m0 /\ r < day
        BY <1>2, <1>6, <1>8, <2>1, <2>3, <3>1, <3>3
      <4>2. day # r /\ day # 1
        BY <3>1, <4>1
      <4> QED BY <4>2 DEF Begins
    <3> QED BY <3>2, <3>3
  <2>4. DaysFrom(first, <<y, m, d>>) = D0 - r + d
    <3>1. m = (m0 % 12) + 1 /\ <<y0, m0>> # <<y, m>>
      BY <1>2, <1>6
    <3>2. DaysFrom(first, <<y, m, d>>) = DaysIn(y0, m0) - r + d + 0
      BY <2>1, <3>1 DEF DaysFrom
    <3> QED BY <1>5, <1>6, <3>2
  <2> QED BY <1>1, <1>3, <1>5, <1>6, <1>10, <2>2, <2>3, <2>4, PreserveConstant DEF ResetDateAgrees
<1>11. CASE r > d /\ r > D0
  <2>1. first = <<y, m, 1>>
    BY <1>4, <1>5, <1>6, <1>11
  <2>2. ~Before(<<y, m, d>>, first) /\ Begins(r, first)
    BY <1>6, <1>7, <1>8, <1>11, <2>1
  <2>3. ASSUME NEW month \in 1 .. 12, NEW day \in 1 .. DaysIn(y, month),
               Before(first, <<y, month, day>>), ~Before(<<y, m, d>>, <<y, month, day>>)
        PROVE  ~Begins(r, <<y, month, day>>)
    <3>1. day \in Nat
      BY <1>6, DaysInIs
    <3>2. month = m /\ 1 < day /\ day <= d
      BY <1>6, <1>8, <2>1, <2>3, <3>1
    <3> QED BY <1>6, <1>7, <1>11, <3>1, <3>2
  <2>4. DaysFrom(first, <<y, m, d>>) = d - 1
    BY <2>1 DEF DaysFrom
  <2> QED BY <1>1, <1>3, <1>5, <1>6, <2>2, <2>3, <2>4, PreserveConstant DEF ResetDateAgrees
<1> QED BY <1>5, <1>6, <1>9, <1>10, <1>11


(***************************************************************************)
(* Control groups.                                                         *)
(***************************************************************************)

\* Groups as the kernel keeps them: none uses more than one that it is in, nor
\* than that one's limit.
IsHierarchy(groups) ==
  /\ \A i \in DOMAIN groups : groups[i].limit \in Nat /\ groups[i].usage \in Nat
  /\ \A j \in DOMAIN groups : \A i \in 1 .. j :
       /\ groups[j].usage > 0 => groups[i].usage <= groups[j].usage
       /\ groups[j].limit > 0 => groups[i].usage <= groups[j].limit

LEMMA Percent ==
  ASSUME NEW a \in Nat, NEW d \in Nat \ {0}
  PROVE  Least(100, (100 * a) \div d) = 100 <=> a >= d
<1>1. (100 * a) \div d \in Int /\ ((100 * a) \div d >= 100 <=> a >= d)
  OBVIOUS
<1> QED BY <1>1 DEF Least

\* A number of periods, rounded up.
LEMMA RoundedUp ==
  ASSUME NEW a \in Nat \ {0}, NEW p \in Nat \ {0}
  PROVE  LET c == (a + p - 1) \div p IN c \in Nat /\ c >= 1 /\ p * c >= a /\ p * (c - 1) < a
<1> DEFINE c == (a + p - 1) \div p
           r == (a + p - 1) % p
<1>1. c \in Int /\ r \in 0 .. p - 1 /\ a + p - 1 = p * c + r
  OBVIOUS
<1> HIDE DEF c, r
<1>2. p * (c - 1) = p * c - p
  BY <1>1
<1>3. p * c >= a /\ p * (c - 1) < a
  BY <1>1, <1>2
<1>4. c >= 1
  <2> SUFFICES ASSUME c <= 0 PROVE FALSE
    BY <1>1
  <2>1. p * c <= 0
    BY <1>1
  <2> QED BY <1>1, <1>3, <2>1
<1> QED BY <1>1, <1>3, <1>4 DEF c

LEMMA WholeCores ==
  ASSUME NEW granted \in Nat \ {0}, NEW period \in Nat \ {0}, NEW host
  PROVE  LET cores == CpuStaticInfo(granted, period, host)
         IN period * cores >= granted /\ period * (cores - 1) < granted
<1> DEFINE c == (granted + period - 1) \div period
<1>1. c \in Nat /\ c >= 1 /\ period * c >= granted /\ period * (c - 1) < granted
  BY RoundedUp
<1>2. CpuStaticInfo(granted, period, host) = Max({1, c})
  BY DEF CpuStaticInfo
<1> HIDE DEF c
<1>3. Max({1, c}) = c
  <2>1. {1, c} \in SUBSET Int /\ c \in {1, c} /\ \A x \in {1, c} : x <= c
    BY <1>1
  <2> QED BY <2>1, MaxIs
<1> QED BY <1>1, <1>2, <1>3

LEMMA Scaled ==
  ASSUME NEW k \in Nat \ {0}, NEW a \in Nat, NEW b \in Nat
  PROVE  k * a >= k * b <=> a >= b
OBVIOUS

LEMMA Product ==
  ASSUME NEW a \in Nat \ {0}, NEW b \in Nat \ {0}
  PROVE  a * b \in Nat \ {0}
OBVIOUS

\* What a list of groups says of its limits.
LEMMA LimitIs ==
  ASSUME NEW X, NEW groups \in Seq(X), IsHierarchy(groups)
  PROVE  LET limits == {groups[i].limit : i \in DOMAIN groups} \ {0}
             cg == ReadCgroupMemory(groups)
         IN /\ Quota(groups) = cg.limit /\ cg.limit \in Nat /\ (cg.limit = 0 <=> limits = {})
            /\ limits # {} => cg.limit >= Min(limits) /\ cg.usage <= cg.limit
<1> DEFINE cg == ReadCgroupMemory(groups)
           limits == {groups[i].limit : i \in DOMAIN groups} \ {0}
           limited == {i \in DOMAIN groups : groups[i].limit > 0}
           nearest == FirstOf(limited, Len(groups) + 1)
           read == {i \in DOMAIN groups : groups[i].usage > 0 /\ (i = 1 \/ i < nearest)}
<1>1. DOMAIN groups = 1 .. Len(groups) /\ Len(groups) \in Nat
  OBVIOUS
<1>2. \A i \in DOMAIN groups : groups[i].limit \in Nat /\ groups[i].usage \in Nat
  BY DEF IsHierarchy
<1>3. limits \in SUBSET Nat /\ (limits = {} <=> limited = {}) /\ limited \in SUBSET Nat
      /\ \A i \in limited : groups[i].limit \in limits
  <2>1. \A i \in limited : i \in DOMAIN groups /\ groups[i].limit \in Nat \ {0}
    BY <1>2
  <2>2. \A x : x \in limits <=> \E i \in limited : x = groups[i].limit
    BY <1>2
  <2>3. limited \in SUBSET Nat
    BY <1>1
  <2> HIDE DEF limits, limited
  <2>4. \A x \in limits : x \in Nat
    BY <2>1, <2>2
  <2>5. limits = {} <=> limited = {}
    <3>1. limits # {} => limited # {}
      BY <2>2
    <3>2. limited # {} => limits # {}
      BY <2>2
    <3> QED BY <3>1, <3>2
  <2> QED BY <2>2, <2>3, <2>4, <2>5
<1>4. /\ cg.limit = IF limited = {} THEN 0 ELSE groups[nearest].limit
      /\ cg.usage = IF read = {} THEN 0 ELSE groups[Min(read)].usage
  BY DEF ReadCgroupMemory
<1>5. Quota(groups) = IF limited = {} THEN 0 ELSE groups[Min(limited)].limit
  BY DEF Quota
<1>6. limited # {} => nearest = Min(limited) /\ nearest \in limited
  BY <1>3, MinIn DEF FirstOf
<1>7. read \in SUBSET Nat
  BY <1>1
<1>8. \A i \in read : i \in DOMAIN groups /\ (i = 1 \/ i < nearest)
  OBVIOUS
<1>9. \A i \in limited : i \in DOMAIN groups /\ groups[i].limit > 0
  OBVIOUS
<1> HIDE DEF cg, limits, limited, nearest, read
<1>10. Quota(groups) = cg.limit /\ cg.limit \in Nat /\ (cg.limit = 0 <=> limits = {})
  <2>1. CASE limited = {}
    BY <1>3, <1>4, <1>5, <2>1
  <2>2. CASE limited # {}
    <3>1. PICK i \in limited : i = Min(limited) /\ i = nearest
      BY <1>6, <2>2
    <3>2. groups[i].limit \in Nat \ {0}
      BY <1>2, <1>9
    <3> QED BY <1>3, <1>4, <1>5, <2>2, <3>1, <3>2
  <2> QED BY <2>1, <2>2
<1>11. ASSUME limits # {} PROVE cg.limit >= Min(limits) /\ cg.usage <= cg.limit
  <2>1. Min(limits) \in limits /\ \A x \in limits : Min(limits) <= x
    BY <1>3, <1>11, MinIn
  <2>2. cg.limit \in limits
    BY <1>3, <1>4, <1>6, <1>11
  <2>3. CASE read = {}
    BY <1>3, <1>4, <1>10, <2>1, <2>2, <2>3
  <2>4. CASE read # {}
    <3>1. Min(read) \in read
      BY <1>7, <2>4, MinIn
    <3>2. PICK i \in DOMAIN groups : i = Min(read) /\ (i = 1 \/ i < nearest)
      BY <1>8, <3>1
    <3>3. PICK j \in DOMAIN groups : j = nearest /\ groups[j].limit > 0
      BY <1>3, <1>6, <1>9, <1>11
    <3>4. i \in 1 .. j
      BY <1>1, <3>2, <3>3
    <3>5. groups[i].usage <= groups[j].limit
      BY <3>3, <3>4 DEF IsHierarchy
    <3> QED BY <1>3, <1>4, <1>11, <2>1, <2>2, <2>4, <3>2, <3>3, <3>5
  <2> QED BY <2>3, <2>4
<1> QED BY <1>10, <1>11 DEF cg, limits

\* What is reported of the processors agrees with what may be used of them, for
\* any groups, quota, flag, window and period and any machine (cpu.go, cgroup.go).
THEOREM ProcessorsCorrect ==
  ASSUME NEW X, NEW groups \in Seq(X), IsHierarchy(groups),
         NEW cfg \in [preferCgroup : BOOLEAN, forceCores : Nat, usageReadable : BOOLEAN], NEW busy \in Nat,
         NEW window \in Nat \ {0}, NEW period \in Nat \ {0}, NEW host \in Nat \ {0}
  PROVE  CpuAgrees(cfg, groups, busy, window, period, host)
<1> DEFINE cpu == Cpu(cfg, groups, busy, window, period, host)
           limit == ReadCgroupMemory(groups).limit
           granted == Granted(cfg, groups)
           unread == cfg.preferCgroup /\ Quota(groups) > 0 /\ ~cfg.usageReadable
           most == IF ~cfg.preferCgroup THEN period * host
                   ELSE IF limit > 0 THEN limit
                   ELSE IF cfg.forceCores > 0 THEN cfg.forceCores ELSE period * host
<1>1. cfg.preferCgroup \in BOOLEAN /\ cfg.forceCores \in Nat /\ cfg.usageReadable \in BOOLEAN
  OBVIOUS
<1>2. /\ cpu.cores = CpuStaticInfo(granted, period, host)
      /\ cpu.percent = IF unread THEN 0 ELSE CpuUsage(busy, window, granted, period, host)
  BY DEF Cpu
<1>3. Quota(groups) = limit /\ limit \in Nat
  BY LimitIs
<1>4. granted \in Nat /\ most = IF granted = 0 THEN period * host ELSE granted
  BY <1>1, <1>3 DEF Granted
<1>5. unread => granted # 0
  BY <1>1, <1>3 DEF Granted
<1>6. /\ period * cpu.cores >= most /\ period * (cpu.cores - 1) < most
      /\ ~unread => (cpu.percent = 100 <=> period * busy >= window * most)
  <2> HIDE DEF cpu, granted, unread, most
  <2>1. CASE granted = 0
    <3>1. cpu.cores = host /\ most = period * host
      BY <1>2, <1>4, <2>1 DEF CpuStaticInfo
    <3>2. period * (host - 1) < period * host
      OBVIOUS
    <3>3. PICK all \in Nat \ {0} : all = window * host
      BY Product
    <3>4. cpu.percent = Least(100, (100 * busy) \div all)
      BY <1>2, <1>5, <2>1, <3>3 DEF CpuUsage
    <3>5. cpu.percent = 100 <=> busy >= all
      BY <3>4, Percent, Zenon
    <3>6. window * most = period * all
      BY <3>1, <3>3
    <3>7. period * busy >= period * all <=> busy >= all
      BY Scaled
    <3>8. period * host \in Nat /\ period * host >= period * host
      OBVIOUS
    <3> QED BY <3>1, <3>2, <3>5, <3>6, <3>7, <3>8
  <2>2. CASE granted # 0
    <3>1. period * cpu.cores >= most /\ period * (cpu.cores - 1) < most
      BY <1>2, <1>4, <2>2, WholeCores
    <3>2. PICK d \in Nat \ {0} : d = window * granted
      BY <1>4, <2>2, Product
    <3>3. PICK a \in Nat : a = period * busy
      OBVIOUS
    <3>4. 100 * busy * period = 100 * a
      BY <3>3
    <3>5. ~unread => cpu.percent = Least(100, (100 * a) \div d)
      BY <1>2, <2>2, <3>2, <3>4 DEF CpuUsage
    <3>6. Least(100, (100 * a) \div d) = 100 <=> a >= d
      BY Percent, Zenon
    <3> QED BY <1>4, <2>2, <3>1, <3>2, <3>3, <3>5, <3>6
  <2> QED BY <2>1, <2>2
<1>7. unread => cpu.percent # 100 /\ ~cfg.usageReadable
  BY <1>2
<1> HIDE DEF cpu, unread, most, limit
<1> QED BY <1>6, <1>7 DEF CpuAgrees, cpu, limit, most

LEMMA CgroupCorrect ==
  ASSUME NEW X, NEW q, q.groups \in Seq(X), IsHierarchy(q.groups), q.host \in Nat \ {0}
  PROVE  CgroupAgrees(q)
<1>1. PICK groups \in Seq(X), host \in Nat \ {0} : groups = q.groups /\ host = q.host
  OBVIOUS
<1>2. ASSUME NEW cfg \in CpuSettings, NEW busy \in 0 .. 4
      PROVE  CpuAgrees(cfg, groups, busy, 1, 2, host)
  <2>1. cfg \in [preferCgroup : BOOLEAN, forceCores : Nat, usageReadable : BOOLEAN] /\ busy \in Nat
    BY DEF CpuSettings
  <2>2. 1 \in Nat \ {0} /\ 2 \in Nat \ {0} /\ IsHierarchy(groups)
    BY <1>1
  <2> QED BY <2>1, <2>2, ProcessorsCorrect, Zenon
<1> DEFINE cg == ReadCgroupMemory(q.groups)
           limits == {q.groups[i].limit : i \in DOMAIN q.groups} \ {0}
<1>3. /\ cg.limit = 0 <=> limits = {}
      /\ limits # {} => cg.limit >= Min(limits) /\ cg.usage <= cg.limit
  BY LimitIs
<1>4. \A cfg \in CpuSettings, busy \in 0 .. 4 : CpuAgrees(cfg, q.groups, busy, 1, 2, q.host)
  BY <1>1, <1>2
<1> HIDE DEF cg, limits
<1>5. (cg.limit = 0) = (limits = {})
  BY <1>3
<1> QED BY <1>3, <1>4, <1>5, Zenon DEF CgroupAgrees, cg, limits


(***************************************************************************)
(* Disks.                                                                  *)
(***************************************************************************)

LEMMA SumUnder ==
  ASSUME NEW f, NEW g, NEW U, IsFiniteSet(U), \A x \in U : f[x] \in Nat /\ g[x] \in Nat /\ f[x] <= g[x]
  PROVE  \A S \in SUBSET U : SumFunctionOnSet(f, S) <= SumFunctionOnSet(g, S)
<1> DEFINE Wrong(S) == ~(SumFunctionOnSet(f, S) <= SumFunctionOnSet(g, S))
           T == {n \in Nat : \E S \in SUBSET U : Cardinality(S) = n /\ Wrong(S)}
<1>1. ASSUME T # {} PROVE FALSE
  <2>1. PICK n \in T : \A m \in T : n <= m
    <3>1. T \in SUBSET Nat
      OBVIOUS
    <3> HIDE DEF T
    <3> QED BY <1>1, <3>1, LeastElement
  <2>2. PICK S \in SUBSET U : Cardinality(S) = n /\ Wrong(S)
    BY <2>1
  <2>3. IsFiniteSet(S)
    BY SmallerSets
  <2>4. S # {}
    BY <2>2, SumEmpty
  <2>5. PICK R \in SUBSET U : R = S \ {Some(S)} /\ Cardinality(R) = n - 1 /\ n - 1 \in Nat /\ Some(S) \in U
    BY <2>2, <2>4, SmallerSets, SomeIn
  <2>6. ~Wrong(R)
    BY <2>1, <2>5
  <2>7. /\ SumFunctionOnSet(f, S) = f[Some(S)] + SumFunctionOnSet(f, R)
        /\ SumFunctionOnSet(g, S) = g[Some(S)] + SumFunctionOnSet(g, R)
    BY <2>3, <2>4, <2>5, SumUnfolds
  <2>8. SumFunctionOnSet(f, R) \in Int /\ SumFunctionOnSet(g, R) \in Int
    BY SumInt
  <2> QED BY <2>2, <2>5, <2>6, <2>7, <2>8
<1>2. \A S \in SUBSET U : Cardinality(S) \in Nat
  BY SmallerSets
<1> QED BY <1>1, <1>2

\* How the devices come about, one partition after the other.
DevicesBy(k, list, taken, better) ==
  /\ k[0] = << >> /\ k[Len(list)] = byDevice(list, taken, better)
  /\ \A i \in 1 .. Len(list) :
       k[i] = IF list[i] \in taken /\ (list[i].device \in DOMAIN k[i - 1] => <<list[i], k[i - 1][list[i].device]>> \in better)
              THEN [d \in DOMAIN k[i - 1] \cup {list[i].device} |-> IF d = list[i].device THEN list[i] ELSE k[i - 1][d]]
              ELSE k[i - 1]

LEMMA DevicesSteps ==
  ASSUME NEW X, NEW list \in Seq(X), NEW taken, NEW better
  PROVE  \E k : DevicesBy(k, list, taken, better)
<1> DEFINE n == Len(list)
           V == UNION {[E -> X] : E \in SUBSET {p.device : p \in X}}
           Put(map, p) == IF p \in taken /\ (p.device \in DOMAIN map => <<p, map[p.device]>> \in better)
                          THEN [d \in DOMAIN map \cup {p.device} |-> IF d = p.device THEN p ELSE map[d]] ELSE map
           Goes(it) == it = [s \in SUBSET DOMAIN list |-> IF s = {} THEN << >> ELSE Put(it[s \ {Max(s)}], list[Max(s)])]
<1>1. byDevice(list, taken, better) = (CHOOSE it : Goes(it))[DOMAIN list]
  BY Zenon DEF byDevice, FoldLeft, MapThenFoldSet
<1>2. n \in Nat /\ DOMAIN list = 1 .. n /\ \A i \in 1 .. n : list[i] \in X
  OBVIOUS
<1>0. << >> \in V /\ \A map \in V : \A p \in X : Put(map, p) \in V
  <2>1. << >> \in V
    <3>1. << >> \in [{} -> X]
      OBVIOUS
    <3> QED BY <3>1
  <2>2. ASSUME NEW map \in V, NEW p \in X PROVE Put(map, p) \in V
    <3>1. PICK E \in SUBSET {x.device : x \in X} : map \in [E -> X]
      OBVIOUS
    <3>2. [d \in DOMAIN map \cup {p.device} |-> IF d = p.device THEN p ELSE map[d]] \in [E \cup {p.device} -> X]
      BY <3>1
    <3>3. E \cup {p.device} \in SUBSET {x.device : x \in X}
      OBVIOUS
    <3> QED BY <3>2, <3>3
  <2> QED BY <2>1, <2>2
<1> HIDE DEF n, V, Put
<1>3. \E it : Goes(it)
  <2> DEFINE H == [iv \in (1 .. n) \X V |-> Put(iv[2], list[iv[1]])]
  <2>1. H \in [(1 .. n) \X V -> V]
    BY <1>0, <1>2
  <2>2. \A i \in 1 .. n : \A v \in V : H[<<i, v>>] = Put(v, list[i])
    OBVIOUS
  <2> HIDE DEF H
  <2>3. PICK it \in [SUBSET (1 .. n) -> V] : Folds(it, << >>, H, SUBSET (1 .. n))
    BY <1>0, <1>2, <2>1, FoldExists
  <2>4. ASSUME NEW s \in SUBSET (1 .. n)
        PROVE  it[s] = IF s = {} THEN << >> ELSE Put(it[s \ {Max(s)}], list[Max(s)])
    <3>1. s # {} => Max(s) \in 1 .. n /\ it[s \ {Max(s)}] \in V
      BY <1>2, <2>3, MaxIn
    <3> QED BY <2>2, <2>3, <3>1 DEF Folds
  <2>5. Goes(it)
    BY <1>2, <2>3, <2>4
  <2> QED BY <2>5
<1>4. PICK it : it = (CHOOSE f : Goes(f)) /\ Goes(it)
  BY <1>3, Zenon
<1>5. \A s \in SUBSET (1 .. n) : it[s] = IF s = {} THEN << >> ELSE Put(it[s \ {Max(s)}], list[Max(s)])
  BY <1>2, <1>4, Zenon
<1>6. byDevice(list, taken, better) = it[1 .. n]
  BY <1>1, <1>2, <1>4, Zenon
<1> HIDE DEF Goes
<1> DEFINE k == [i \in 0 .. n |-> it[1 .. i]]
<1>7. k[0] = << >>
  <2>1. 1 .. 0 = {} /\ {} \in SUBSET (1 .. n) /\ 0 \in 0 .. n
    BY <1>2
  <2>2. k[0] = it[{}]
    BY <2>1
  <2> HIDE DEF k
  <2> QED BY <1>5, <2>1, <2>2
<1>8. k[n] = byDevice(list, taken, better)
  BY <1>2, <1>6
<1>9. ASSUME NEW i \in 1 .. n PROVE k[i] = Put(k[i - 1], list[i])
  <2>1. it[1 .. i] = Put(it[1 .. i - 1], list[i])
    <3>1. Max(1 .. i) = i /\ (1 .. i) \ {i} = 1 .. i - 1
      BY <1>2, Segments
    <3>2. it[1 .. i] = Put(it[(1 .. i) \ {Max(1 .. i)}], list[Max(1 .. i)])
      BY <1>2, <1>5, Segments
    <3> QED BY <3>1, <3>2, Zenon
  <2>2. k[i] = it[1 .. i] /\ k[i - 1] = it[1 .. i - 1]
    BY <1>2
  <2> QED BY <2>1, <2>2, Zenon
<1> HIDE DEF k
<1> QED BY <1>7, <1>8, <1>9 DEF n, Put, DevicesBy

IsOrder(better) ==
  /\ \A p : <<p, p>> \notin better
  /\ \A p, q, r : <<p, q>> \in better /\ <<q, r>> \in better => <<p, r>> \in better

\* Of every device of those taken there is one, and none that is better.
IsByDevice(map, S, better) ==
  /\ \A d : d \in DOMAIN map <=> \E p \in S : p.device = d
  /\ \A d \in DOMAIN map : map[d] \in S /\ map[d].device = d /\ \A p \in S : p.device = d => <<p, map[d]>> \notin better

LEMMA PutKeeps ==
  ASSUME NEW S, NEW better, IsOrder(better), NEW map, IsByDevice(map, S, better), NEW p
  PROVE  LET next == IF p.device \in DOMAIN map => <<p, map[p.device]>> \in better
                     THEN [d \in DOMAIN map \cup {p.device} |-> IF d = p.device THEN p ELSE map[d]] ELSE map
         IN IsByDevice(next, S \cup {p}, better)
<1>1. CASE p.device \in DOMAIN map => <<p, map[p.device]>> \in better
  <2> DEFINE next == [d \in DOMAIN map \cup {p.device} |-> IF d = p.device THEN p ELSE map[d]]
  <2>1. DOMAIN next = DOMAIN map \cup {p.device} /\ next[p.device] = p
        /\ \A d \in DOMAIN map : d # p.device => next[d] = map[d]
    OBVIOUS
  <2> HIDE DEF next
  <2>2. \A q \in S : q.device = p.device => <<q, p>> \notin better
    <3> SUFFICES ASSUME NEW q \in S, q.device = p.device, <<q, p>> \in better PROVE FALSE
      OBVIOUS
    <3>1. p.device \in DOMAIN map /\ <<q, map[p.device]>> \notin better
      BY DEF IsByDevice
    <3> QED BY <1>1, <3>1 DEF IsOrder
  <2>3. <<p, p>> \notin better
    BY DEF IsOrder
  <2>4. ASSUME NEW d PROVE d \in DOMAIN next <=> \E q \in S \cup {p} : q.device = d
    BY <2>1 DEF IsByDevice
  <2>5. ASSUME NEW d \in DOMAIN next
        PROVE  next[d] \in S \cup {p} /\ next[d].device = d /\ \A q \in S \cup {p} : q.device = d => <<q, next[d]>> \notin better
    <3>1. CASE d = p.device
      BY <2>1, <2>2, <2>3, <3>1
    <3>2. CASE d # p.device
      <4>1. d \in DOMAIN map /\ next[d] = map[d]
        BY <2>1, <3>2
      <4> QED BY <3>2, <4>1 DEF IsByDevice
    <3> QED BY <3>1, <3>2
  <2>6. IsByDevice(next, S \cup {p}, better)
    BY <2>4, <2>5 DEF IsByDevice
  <2> QED BY <1>1, <2>6 DEF next
<1>2. CASE p.device \in DOMAIN map /\ <<p, map[p.device]>> \notin better
  BY <1>2 DEF IsByDevice
<1> QED BY <1>1, <1>2

LEMMA ByDeviceIs ==
  ASSUME NEW X, NEW list \in Seq(X), NEW taken, NEW better, IsOrder(better)
  PROVE  IsByDevice(byDevice(list, taken, better), Range(list) \cap taken, better)
<1> DEFINE n == Len(list)
           S(i) == {list[j] : j \in 1 .. i} \cap taken
<1>1. PICK k : DevicesBy(k, list, taken, better)
  BY DevicesSteps
<1>2. n \in Nat /\ DOMAIN list = 1 .. n
  OBVIOUS
<1> HIDE DEF n
<1> DEFINE T == {i \in 0 .. n : IsByDevice(k[i], S(i), better)}
<1>3. 0 \in T
  <2>1. S(0) = {} /\ DOMAIN << >> = {} /\ 0 \in 0 .. n
    BY <1>2
  <2> HIDE DEF S
  <2> QED BY <1>1, <2>1 DEF IsByDevice, DevicesBy
<1>4. ASSUME NEW i \in 1 .. n, i - 1 \in T PROVE i \in T
  <2>1. PICK p, old, new : p = list[i] /\ old = k[i - 1] /\ new = k[i]
    OBVIOUS
  <2>2. new = IF p \in taken /\ (p.device \in DOMAIN old => <<p, old[p.device]>> \in better)
              THEN [d \in DOMAIN old \cup {p.device} |-> IF d = p.device THEN p ELSE old[d]] ELSE old
    BY <1>1, <2>1 DEF DevicesBy, n
  <2>3. PICK before : before = S(i - 1) /\ IsByDevice(old, before, better)
    BY <1>4, <2>1
  <2>4. 1 .. i = (1 .. i - 1) \cup {i} /\ i \in 0 .. n
    BY <1>2
  <2>5. S(i) = IF p \in taken THEN before \cup {p} ELSE before
    BY <2>1, <2>3, <2>4
  <2>6. IsByDevice(new, IF p \in taken THEN before \cup {p} ELSE before, better)
    <3>1. CASE p \in taken
      BY <2>2, <2>3, <3>1, PutKeeps
    <3>2. CASE p \notin taken
      BY <2>2, <2>3, <3>2
    <3> QED BY <3>1, <3>2
  <2> HIDE DEF S
  <2>7. IsByDevice(k[i], S(i), better)
    BY <2>1, <2>5, <2>6
  <2> QED BY <2>4, <2>7
<1>5. n \in T
  <2>1. n \in 0 .. n
    BY <1>2
  <2> HIDE DEF T
  <2>2. 0 .. n \subseteq T
    BY <1>2, <1>3, <1>4, UpTo
  <2> QED BY <2>1, <2>2
<1>6. S(n) = Range(list) \cap taken
  BY <1>2 DEF Range
<1>7. k[n] = byDevice(list, taken, better)
  BY <1>1 DEF DevicesBy, n
<1> HIDE DEF S
<1> QED BY <1>5, <1>6, <1>7


LEMMA DevicesFinite ==
  ASSUME NEW X, NEW list \in Seq(X), NEW S, S \subseteq Range(list)
  PROVE  IsFiniteSet({p.device : p \in S})
<1> DEFINE I == {i \in 1 .. Len(list) : list[i] \in S}
           D == {p.device : p \in S}
           f == [i \in I |-> list[i].device]
<1>1. IsFiniteSet(I)
  <2>1. IsFiniteSet(1 .. Len(list))
    BY FS_Interval
  <2> QED BY <2>1, FS_Subset
<1>2. f \in Surjection(I, D)
  <2>1. f \in [I -> D]
    OBVIOUS
  <2>2. ASSUME NEW d \in D PROVE \E i \in I : f[i] = d
    <3>1. PICK p \in S : p.device = d
      OBVIOUS
    <3>2. PICK i \in DOMAIN list : list[i] = p
      BY DEF Range
    <3>3. i \in I
      BY <3>2
    <3> QED BY <3>1, <3>2, <3>3
  <2> QED BY <2>1, <2>2 DEF Surjection
<1> HIDE DEF I, D, f
<1>3. IsFiniteSet(D)
  BY <1>1, <1>2, FS_Surjection
<1> QED BY <1>3 DEF D

IsPartitions(parts) ==
  \A p \in Range(parts) : p.mount \in Nat /\ p.total \in Nat /\ p.used \in 0 .. p.total

LEMMA LargerIs ==
  \A parts, p, q : <<p, q>> \in Larger(parts) <=> p \in Range(parts) /\ q \in Range(parts) /\ p.total > q.total
BY DEF Larger

LEMMA ShorterIs ==
  \A parts, p, q : <<p, q>> \in Shorter(parts) <=> p \in Range(parts) /\ q \in Range(parts) /\ p.mount < q.mount
BY DEF Shorter

LEMMA Orders ==
  ASSUME NEW parts, IsPartitions(parts)
  PROVE  IsOrder(Larger(parts)) /\ IsOrder(Shorter(parts))
<1>1. IsOrder(Larger(parts))
  BY LargerIs DEF IsOrder, IsPartitions
<1>2. IsOrder(Shorter(parts))
  BY ShorterIs DEF IsOrder, IsPartitions
<1> QED BY <1>1, <1>2

\* The disks that are counted.
LEMMA CountedCorrect ==
  ASSUME NEW X, NEW parts \in Seq(X), IsPartitions(parts)
  PROVE  LET map == byDevice(parts, Readable(parts), Larger(parts))
             sizes == Readable(parts)
             devices == {p.device : p \in sizes}
         IN /\ Added(map).total \in Nat /\ Added(map).used \in Nat /\ Added(map).used <= Added(map).total
            /\ Added(map).total = SumFunction([d \in devices |-> Max({p.total : p \in {x \in sizes : x.device = d}})])
<1> DEFINE sizes == Readable(parts)
           devices == {p.device : p \in sizes}
           most(d) == {p.total : p \in {x \in sizes : x.device = d}}
<1>1. PICK map : map = byDevice(parts, sizes, Larger(parts))
  OBVIOUS
<1>2. sizes \subseteq Range(parts) /\ \A p \in sizes : p.total \in Nat /\ p.used \in Nat /\ p.used <= p.total
  BY DEF Readable, IsPartitions
<1>3. IsByDevice(map, sizes, Larger(parts))
  <2>1. IsByDevice(map, Range(parts) \cap sizes, Larger(parts))
    <3> HIDE DEF sizes
    <3> QED BY <1>1, Orders, ByDeviceIs
  <2>2. Range(parts) \cap sizes = sizes
    BY <1>2
  <2> HIDE DEF sizes
  <2> QED BY <2>1, <2>2
<1>4. IsFiniteSet(devices)
  <2> HIDE DEF sizes
  <2> QED BY <1>2, DevicesFinite
<1> HIDE DEF sizes
<1>5. DOMAIN map = devices
  BY <1>3 DEF IsByDevice
<1>6. ASSUME NEW d \in devices
      PROVE  map[d].total \in Nat /\ map[d].used \in Nat /\ map[d].used <= map[d].total /\ Max(most(d)) = map[d].total
  <2>1. /\ map[d] \in sizes /\ map[d].device = d
        /\ \A p \in sizes : p.device = d => <<p, map[d]>> \notin Larger(parts)
    BY <1>3, <1>5 DEF IsByDevice
  <2>2. \A p \in sizes : p.device = d => p.total <= map[d].total
    <3> SUFFICES ASSUME NEW p \in sizes, p.device = d PROVE p.total <= map[d].total
      OBVIOUS
    <3>1. p \in Range(parts) /\ map[d] \in Range(parts) /\ ~(p.total > map[d].total)
      BY <1>2, <2>1, LargerIs
    <3> QED BY <1>2, <2>1, <3>1
  <2>3. map[d].total \in most(d) /\ most(d) \in SUBSET Int /\ \A x \in most(d) : x <= map[d].total
    BY <1>2, <2>1, <2>2
  <2> HIDE DEF most
  <2>4. Max(most(d)) = map[d].total
    BY <2>3, MaxIs
  <2> QED BY <1>2, <2>1, <2>4
<1> DEFINE F == [d \in devices |-> map[d].total]
           U == [d \in devices |-> map[d].used]
<1>7. Added(map).total = SumFunctionOnSet(F, devices) /\ Added(map).used = SumFunctionOnSet(U, devices)
  <2>1. Added(map) = Usage(SumFunction(F), SumFunction(U))
    <3> HIDE DEF devices
    <3> QED BY <1>5, Zenon DEF Added
  <2>2. SumFunction(F) = SumFunctionOnSet(F, DOMAIN F) /\ SumFunction(U) = SumFunctionOnSet(U, DOMAIN U)
    BY Zenon DEF SumFunction
  <2>3. DOMAIN F = devices /\ DOMAIN U = devices
    OBVIOUS
  <2>4. Added(map).total = SumFunction(F) /\ Added(map).used = SumFunction(U)
    <3> HIDE DEF F, U
    <3> QED BY <2>1 DEF Usage
  <2> HIDE DEF F, U, devices
  <2> QED BY <2>2, <2>3, <2>4
<1>8. \A d \in devices : F[d] \in Nat /\ U[d] \in Nat /\ U[d] <= F[d]
  BY <1>6
<1>9. F = [d \in devices |-> Max(most(d))]
  <2> HIDE DEF most, devices
  <2> QED BY <1>6
<1>10. SumFunctionOnSet(F, devices) = SumFunction(F)
  <2>1. SumFunction(F) = SumFunctionOnSet(F, DOMAIN F) /\ DOMAIN F = devices
    <3>1. DOMAIN F = devices
      OBVIOUS
    <3> QED BY <3>1, Zenon DEF SumFunction
  <2> HIDE DEF F, devices
  <2> QED BY <2>1
<1>11. /\ SumFunctionOnSet(F, devices) \in Nat /\ SumFunctionOnSet(U, devices) \in Nat
       /\ SumFunctionOnSet(U, devices) <= SumFunctionOnSet(F, devices)
  <2> HIDE DEF F, U, devices
  <2>1. devices \in SUBSET devices
    OBVIOUS
  <2>2. SumFunctionOnSet(F, devices) \in Nat
    BY <1>4, <1>8, <2>1, SumSame
  <2>3. SumFunctionOnSet(U, devices) \in Nat
    BY <1>4, <1>8, <2>1, SumSame
  <2>4. SumFunctionOnSet(U, devices) <= SumFunctionOnSet(F, devices)
    BY <1>4, <1>8, <2>1, SumUnder
  <2> QED BY <2>2, <2>3, <2>4
<1>12. Added(map).total = SumFunction([d \in devices |-> Max(most(d))])
  <2> HIDE DEF F, most, devices
  <2> QED BY <1>7, <1>9, <1>10, Zenon
<1>13. Added(map).total \in Nat /\ Added(map).used \in Nat /\ Added(map).used <= Added(map).total
  <2> HIDE DEF F, U, devices
  <2> QED BY <1>7, <1>11
<1> QED BY <1>1, <1>12, <1>13, Zenon DEF sizes

LEMMA DisksCorrect ==
  ASSUME NEW X, NEW q, q.parts \in Seq(X), IsPartitions(q.parts), q.force \in Nat, q.dir \in Int
  PROVE  DisksAgree(q)
<1> DEFINE parts == q.parts
           sizes == Readable(parts)
           devices == {p.device : p \in sizes}
           all == Added(byDevice(parts, Readable(parts), Larger(parts)))
           disk == Disk(parts, q.force, q.dir)
           targets == defaultMountTargets(parts)
           sum == SumFunction([d \in devices |-> Max({p.total : p \in {x \in sizes : x.device = d}})])
<1>1. /\ all.total \in Nat /\ all.used \in Nat /\ all.used <= all.total
      /\ all.total = sum
  BY CountedCorrect, Zenon
<1>2. disk = IF q.force = 0 THEN all ELSE Usage(q.force, Least(IF q.dir >= 0 THEN q.dir ELSE all.used, q.force))
  BY DEF Disk
<1>3. Physical(parts) \subseteq Range(parts) /\ sizes \subseteq Physical(parts) /\ Real(parts) \subseteq Range(parts)
  BY DEF Physical, Readable, Real
<1> HIDE DEF sum, all, disk
<1>4. Fits(disk) /\ (q.force = 0 => disk.total = sum)
  <2>1. CASE q.force = 0
    BY <1>1, <1>2, <2>1 DEF Fits
  <2>2. CASE q.force # 0
    <3>1. PICK held \in Nat : held = IF q.dir >= 0 THEN q.dir ELSE all.used
      BY <1>1
    <3>2. disk = Usage(q.force, Least(held, q.force))
      BY <1>2, <2>2, <3>1
    <3>3. Least(held, q.force) \in Nat /\ Least(held, q.force) <= q.force
      BY DEF Least
    <3>4. disk.used = Least(held, q.force) /\ disk.total = q.force
      BY <3>2 DEF Usage
    <3> QED BY <2>2, <3>3, <3>4 DEF Fits
  <2> QED BY <2>1, <2>2
<1>5. IsByDevice(targets, Physical(parts), Shorter(parts))
  <2>1. PICK S : S = Physical(parts)
    OBVIOUS
  <2>2. IsByDevice(byDevice(parts, S, Shorter(parts)), Range(parts) \cap S, Shorter(parts))
    BY Orders, ByDeviceIs
  <2>3. Range(parts) \cap S = S
    BY <1>3, <2>1
  <2>4. targets = byDevice(parts, S, Shorter(parts))
    BY <2>1 DEF defaultMountTargets
  <2> HIDE DEF targets, parts
  <2> QED BY <2>1, <2>2, <2>3, <2>4, Zenon
<1>6. devices \subseteq DOMAIN targets
  <2> HIDE DEF targets, sizes, parts
  <2> QED BY <1>3, <1>5 DEF IsByDevice
<1>7. \A d \in DOMAIN targets : \A p \in Physical(parts) : p.device = d => targets[d].mount <= p.mount
  <2> SUFFICES ASSUME NEW d \in DOMAIN targets, NEW p \in Physical(parts), p.device = d
               PROVE  targets[d].mount <= p.mount
    OBVIOUS
  <2>1. PICK m \in Physical(parts) : m = targets[d] /\ <<p, m>> \notin Shorter(parts)
    <3> HIDE DEF targets, parts
    <3> QED BY <1>5 DEF IsByDevice
  <2>2. p \in Range(parts) /\ m \in Range(parts)
    BY <1>3
  <2>3. ~(p.mount < m.mount)
    BY <2>1, <2>2, ShorterIs
  <2>4. p.mount \in Nat /\ m.mount \in Nat
    BY <2>2 DEF IsPartitions
  <2> QED BY <2>1, <2>3, <2>4
<1>8. ASSUME NEW include \in (SUBSET {p.mount : p \in Range(parts)}) \ {{}}
      PROVE  /\ \A d \in filterMountTargets(parts, include) : ~isVirtualDevice(d)
             /\ Real(parts) # {} => filterMountTargets(parts, include) # {}
  <2> DEFINE on == {resolvePhysicalDevice(p.device) : p \in {x \in Range(parts) : x.mount \in include}}
             chosen == {d \in on : ~isVirtualDevice(d)}
             real == byDevice(parts, Real(parts), Shorter(parts))
  <2>1. on # {}
    <3>1. include # {} /\ include \subseteq {p.mount : p \in Range(parts)}
      OBVIOUS
    <3>2. PICK m \in include : TRUE
      BY <3>1
    <3>3. PICK p \in Range(parts) : p.mount = m
      <4> HIDE DEF parts
      <4> QED BY <3>1
    <3> QED BY <3>3
  <2>2. filterMountTargets(parts, include) = IF chosen = {} /\ on # {} THEN DOMAIN real ELSE chosen
    BY Zenon DEF filterMountTargets
  <2>3. \A d : d \in DOMAIN real <=> \E p \in Real(parts) : p.device = d
    <3>1. PICK S : S = Real(parts)
      OBVIOUS
    <3>2. IsByDevice(byDevice(parts, S, Shorter(parts)), Range(parts) \cap S, Shorter(parts))
      BY Orders, ByDeviceIs
    <3>3. PICK map : map = real /\ IsByDevice(map, S, Shorter(parts))
      <4>1. Range(parts) \cap S = S
        BY <1>3, <3>1
      <4> HIDE DEF parts
      <4> QED BY <3>1, <3>2, <4>1
    <3>4. \A d : d \in DOMAIN map <=> \E p \in S : p.device = d
      BY <3>3, Zenon DEF IsByDevice
    <3> QED BY <3>1, <3>3, <3>4
  <2>4. \A p \in Real(parts) : ~isVirtualDevice(p.device)
    BY DEF Real, isRealBlockDevice
  <2>5. \A d \in chosen : ~isVirtualDevice(d)
    OBVIOUS
  <2> HIDE DEF chosen, on, real
  <2> QED BY <2>1, <2>2, <2>3, <2>4, <2>5
<1> QED BY <1>4, <1>6, <1>7, <1>8, Zenon DEF DisksAgree, disk, sum


(***************************************************************************)
(* What the rules are asked.                                               *)
(***************************************************************************)

IsSeq(list) == \E X : list \in Seq(X)

\* The inputs that a machine, a panel, a resolver or GitHub can give: of any size.
IsQuery(q) ==
  /\ q.about = "memory" => IsMachine(q.machine) /\ {q.cg.limit, q.cg.usage, q.cfg.forceTotal} \subseteq Nat
  /\ q.about = "swap" => {q.swap.total, q.swap.free, q.swap.cached} \subseteq Nat /\ q.swap.free <= q.swap.total
  /\ q.about = "cgroup" => IsSeq(q.groups) /\ IsHierarchy(q.groups) /\ q.host \in Nat \ {0}
  /\ q.about = "disk" => IsSeq(q.parts) /\ IsPartitions(q.parts) /\ q.force \in Nat /\ q.dir \in Int
  /\ q.about = "miner" => q.status.algorithms \in Nat /\ IsWindow(q.status.oneMin) /\ IsWindow(q.status.oneHr)
  /\ q.about = "reset" => (\E y, m, d : q.date = <<y, m, d>> /\ IsDate(y, m, d)) /\ q.resetDay \in 1 .. 31
  /\ q.about = "dial" => IsSeq(q.ips)
  /\ q.about = "server" => IsServer(q.custom) /\ IsSeq(q.builtin) /\ \A s \in Range(q.builtin) : Complete(s)
  /\ q.about = "own" => /\ IsSeq(q.addrs) /\ q.custom \in [{4, 6} -> BOOLEAN]
                        /\ \E Y : q.answers \in [{4, 6} -> Seq(Y)]
  /\ q.about = "release" => \E X : IsList(q.all, X)

\* Whatever the rules are asked, what they say is what a report promises, as long as
\* netstatic keeps its records for a month.
THEOREM RulesCorrect ==
  ASSUME IsQuery(query), DataPreserveDay >= 31
  PROVE  RulesAgree
<1>1. PICK q : q = query
  OBVIOUS
<1>2. IsQuery(q)
  BY <1>1
<1>3. q.about = "memory" => MemoryFits(q)
  BY <1>2, MemoryCorrect DEF IsQuery
<1>4. q.about = "swap" => SwapFits(q)
  BY <1>2, SwapCorrect DEF IsQuery
<1>5. q.about = "cgroup" => CgroupAgrees(q)
  BY <1>2, CgroupCorrect DEF IsQuery, IsSeq
<1>6. q.about = "disk" => DisksAgree(q)
  BY <1>2, DisksCorrect DEF IsQuery, IsSeq
<1>7. q.about = "miner" => HashrateAgrees(q)
  BY <1>2, HashrateCorrect DEF IsQuery
<1>8. q.about = "reset" => ResetDateAgrees(q)
  BY <1>2, ResetDateCorrect DEF IsQuery
<1>9. q.about = "dial" => DialAgrees(q)
  BY <1>2, DialCorrect DEF IsQuery, IsSeq
<1>10. q.about = "server" => ServerAgrees(q)
  BY <1>2, ServerCorrect DEF IsQuery, IsSeq
<1>11. q.about = "own" => OwnAddressAgrees(q)
  BY <1>2, OwnAddressCorrect DEF IsQuery, IsSeq
<1>12. q.about = "release" => ReleaseAgrees(q)
  BY <1>2, ReleaseCorrect DEF IsQuery
<1>13. q.about \in {"memory", "swap", "cgroup", "disk", "miner"} => UsageAgrees(q)
  BY <1>3, <1>4, <1>5, <1>6, <1>7 DEF UsageAgrees
<1>14. q.about \in {"dial", "server", "own"} => AddressAgrees(q)
  BY <1>9, <1>10, <1>11 DEF AddressAgrees
<1> QED BY <1>1, <1>8, <1>12, <1>13, <1>14 DEF RulesAgree

LEMMA ListsAre ==
  \A X : \A n \in Nat : \A f \in [1 .. n -> X] : f \in Seq(X)
OBVIOUS

LEMMA QueriesAre ==
  ASSUME NEW q \in Queries
  PROVE  IsQuery(q)
<1>1. CASE q \in MemoryQueries
  <2>1. q.about = "memory" /\ q.machine \in Machines /\ q.cg \in [limit : {0, 2}, usage : {0, 3}]
        /\ q.cfg \in [preferCgroup : BOOLEAN, forceTotal : {0, 2}, includeCache : BOOLEAN, rawUsed : BOOLEAN]
    BY <1>1 DEF MemoryQueries
  <2>2. IsMachine(q.machine)
    BY <2>1 DEF Machines, IsMachine
  <2>3. {q.cg.limit, q.cg.usage, q.cfg.forceTotal} \subseteq Nat
    BY <2>1
  <2> QED BY <2>1, <2>2, <2>3 DEF IsQuery
<1>2. CASE q \in SwapQueries
  <2>1. q.about = "swap" /\ q.swap \in [total : {3}, free : 0 .. 3, cached : 0 .. 3]
    BY <1>2 DEF SwapQueries
  <2> QED BY <2>1 DEF IsQuery
<1>3. CASE q \in CgroupQueries
  <2>1. /\ q.about = "cgroup" /\ q.host = 4 /\ q.groups \in UNION {[1 .. n -> Groups] : n \in 1 .. 3}
        /\ \A j \in DOMAIN q.groups : \A i \in 1 .. j :
              /\ q.groups[j].usage > 0 => q.groups[i].usage <= q.groups[j].usage
              /\ q.groups[j].limit > 0 => q.groups[i].usage <= q.groups[j].limit
    BY <1>3 DEF CgroupQueries
  <2>2. PICK n \in 1 .. 3 : q.groups \in [1 .. n -> Groups]
    BY <2>1
  <2>3. \A i \in DOMAIN q.groups : q.groups[i].limit \in Nat /\ q.groups[i].usage \in Nat
    BY <2>2 DEF Groups
  <2>4. IsSeq(q.groups)
    <3>1. n \in Nat
      OBVIOUS
    <3>2. q.groups \in Seq(Groups)
      BY <2>2, <3>1, ListsAre
    <3> QED BY <3>2 DEF IsSeq
  <2> QED BY <2>1, <2>3, <2>4 DEF IsQuery, IsHierarchy
<1>4. CASE q \in DiskQueries
  <2>1. q.about = "disk" /\ q.parts \in [1 .. 3 -> Partitions] /\ q.force \in {0, 2} /\ q.dir \in {-1, 1, 3}
    BY <1>4 DEF DiskQueries
  <2>2. \A p \in Partitions : p.mount \in Nat /\ p.total \in Nat /\ p.used \in 0 .. p.total
    BY DEF Partitions
  <2>3. IsPartitions(q.parts)
    BY <2>1, <2>2 DEF IsPartitions, Range
  <2>4. IsSeq(q.parts)
    BY <2>1, ListsAre DEF IsSeq
  <2> QED BY <2>1, <2>3, <2>4 DEF IsQuery
<1>5. CASE q \in MinerQueries
  <2>1. q.about = "miner" /\ q.status \in [algorithms : 0 .. 1, oneMin : Windows, oneHr : Windows]
    BY <1>5 DEF MinerQueries
  <2>2. IsWindow(q.status.oneMin) /\ IsWindow(q.status.oneHr)
    BY <2>1 DEF Windows, IsWindow
  <2> QED BY <2>1, <2>2 DEF IsQuery
<1>6. CASE q \in ResetQueries
  <2>1. /\ q.about = "reset" /\ q.resetDay \in {1, 15, 28, 29, 30, 31} /\ q.date \in {2023, 2024} \X (1 .. 12) \X (1 .. 31)
        /\ q.date[3] <= DaysIn(q.date[1], q.date[2])
    BY <1>6 DEF ResetQueries
  <2>2. PICK y \in {2023, 2024}, m \in 1 .. 12, d \in 1 .. 31 : q.date = <<y, m, d>>
    BY <2>1
  <2>3. IsDate(y, m, d)
    BY <2>1, <2>2, DaysInIs DEF IsDate
  <2> QED BY <2>1, <2>2, <2>3 DEF IsQuery
<1>7. CASE q \in DialQueries
  <2>1. PICK ips \in UNION {[1 .. n -> Hosts] : n \in 1 .. 3} :
          q \in [about : {"dial"}, ips : {ips}, prefer : {0, 4, 6}, hasIPv4 : BOOLEAN, reachable : SUBSET Range(ips)]
    BY <1>7 DEF DialQueries
  <2>2. q.about = "dial" /\ q.ips = ips
    BY <2>1
  <2>3. IsSeq(q.ips)
    <3>1. PICK n \in 1 .. 3 : ips \in [1 .. n -> Hosts]
      OBVIOUS
    <3>2. n \in Nat
      OBVIOUS
    <3>3. ips \in Seq(Hosts)
      BY <3>1, <3>2, ListsAre
    <3> QED BY <2>2, <3>3 DEF IsSeq
  <2> QED BY <2>2, <2>3 DEF IsQuery
<1>8. CASE q \in ServerQueries
  <2>1. /\ q.about = "server" /\ q.builtin = <<Server(6, TRUE, TRUE), Server(4, FALSE, TRUE)>>
        /\ q.custom \in [version : {0, 4, 6}, bracket : BOOLEAN, port : BOOLEAN]
        /\ (q.custom.bracket => q.custom.version = 6) /\ (q.custom.version = 6 /\ q.custom.port => q.custom.bracket)
    BY <1>8 DEF ServerQueries
  <2>2. IsSeq(q.builtin) /\ \A s \in Range(q.builtin) : Complete(s)
    <3>1. Complete(Server(6, TRUE, TRUE)) /\ Complete(Server(4, FALSE, TRUE))
      <4>1. \A v, b : Server(v, b, TRUE).version = v /\ Server(v, b, TRUE).bracket = b /\ Server(v, b, TRUE).port = TRUE
        BY DEF Server
      <4>2. ASSUME NEW s, NEW v, NEW b \in BOOLEAN, s.version = v, s.bracket = b, s.port = TRUE, b <=> v = 6
            PROVE  Complete(s)
        BY <4>2 DEF Complete
      <4>3. TRUE \in BOOLEAN /\ (TRUE <=> 6 = 6) /\ FALSE \in BOOLEAN /\ (FALSE <=> 4 = 6)
        OBVIOUS
      <4>4. Complete(Server(6, TRUE, TRUE))
        BY <4>1, <4>2, <4>3, Zenon
      <4>5. Complete(Server(4, FALSE, TRUE))
        BY <4>1, <4>2, <4>3, Zenon
      <4> QED BY <4>4, <4>5
    <3>2. PICK a, b : a = Server(6, TRUE, TRUE) /\ b = Server(4, FALSE, TRUE) /\ q.builtin = <<a, b>>
      BY <2>1
    <3>3. <<a, b>> \in Seq({a, b}) /\ DOMAIN <<a, b>> = 1 .. 2 /\ <<a, b>>[1] = a /\ <<a, b>>[2] = b
      OBVIOUS
    <3>4. \A s \in Range(<<a, b>>) : s = a \/ s = b
      BY <3>3 DEF Range
    <3> QED BY <3>1, <3>2, <3>3, <3>4 DEF IsSeq
  <2> QED BY <2>1, <2>2 DEF IsQuery, IsServer
<1>9. CASE q \in OwnQueries
  <2>1. /\ q.about = "own" /\ q.custom \in [{4, 6} -> BOOLEAN] /\ q.answers \in [{4, 6} -> {<<>>, <<"nothing", "web">>}]
        /\ \E a, b : q.addrs = <<a, b>>
    BY <1>9 DEF OwnQueries
  <2>2. IsSeq(q.addrs)
    <3>1. PICK a, b : q.addrs = <<a, b>>
      BY <2>1
    <3>2. <<a, b>> \in Seq({a, b})
      OBVIOUS
    <3> QED BY <3>1, <3>2 DEF IsSeq
  <2>3. q.answers \in [{4, 6} -> Seq({"nothing", "web"})]
    <3>1. << >> \in Seq({"nothing", "web"}) /\ <<"nothing", "web">> \in Seq({"nothing", "web"})
      OBVIOUS
    <3> QED BY <2>1, <3>1
  <2> QED BY <2>1, <2>2, <2>3 DEF IsQuery
<1>10. CASE q \in ReleaseQueries
  <2>1. /\ q.about = "release" /\ q.all \in UNION {[1 .. n -> Releases] : n \in 0 .. 3}
        /\ \A i, j \in DOMAIN q.all : q.all[i].tag = q.all[j].tag /\ i # j => q.all[i] = q.all[j]
    BY <1>10 DEF ReleaseQueries
  <2>2. PICK n \in 0 .. 3 : q.all \in [1 .. n -> Releases]
    BY <2>1
  <2> DEFINE X == {q.all[i] : i \in 1 .. n}
  <2>3. X \subseteq Releases /\ q.all \in [1 .. n -> X] /\ \A r, s \in X : r.tag = s.tag => r = s
    BY <2>1, <2>2
  <2>4. Releases \subseteq [time : Nat, tag : Nat \ {0}, draft : BOOLEAN, prerelease : BOOLEAN, snapshot : BOOLEAN, asset : BOOLEAN]
    <3> SUFFICES ASSUME NEW r \in Releases
                 PROVE  r \in [time : Nat, tag : Nat \ {0}, draft : BOOLEAN, prerelease : BOOLEAN, snapshot : BOOLEAN, asset : BOOLEAN]
      OBVIOUS
    <3>1. r \in [time : 1 .. 2, tag : 1 .. 2, draft : BOOLEAN, prerelease : BOOLEAN, snapshot : {TRUE}, asset : BOOLEAN]
      BY DEF Releases
    <3>2. PICK T, B, C : T = 1 .. 2 /\ B = BOOLEAN /\ C = {TRUE} /\ T \subseteq Nat \ {0} /\ T \subseteq Nat /\ C \subseteq B
      <4>1. 1 .. 2 \subseteq Nat \ {0} /\ 1 .. 2 \subseteq Nat
        OBVIOUS
      <4>2. {TRUE} \subseteq BOOLEAN
        OBVIOUS
      <4> QED BY <4>1, <4>2, Zenon
    <3>3. r \in [time : T, tag : T, draft : B, prerelease : B, snapshot : C, asset : B]
      BY <3>1, <3>2, Zenon
    <3>4. r \in [time : Nat, tag : Nat \ {0}, draft : B, prerelease : B, snapshot : B, asset : B]
      BY <3>2, <3>3
    <3> QED BY <3>2, <3>4, Zenon
  <2> HIDE DEF X
  <2>5. q.all \in Seq(X)
    BY <2>3, ListsAre
  <2>6. IsList(q.all, X)
    BY <2>3, <2>4, <2>5 DEF IsList
  <2> QED BY <2>1, <2>6 DEF IsQuery
<1> QED BY <1>1, <1>2, <1>3, <1>4, <1>5, <1>6, <1>7, <1>8, <1>9, <1>10 DEF Queries

\* A report of this agent says of the machine what the rules promise, whenever it is
\* made, as long as netstatic keeps its records for a month.
THEOREM RulesAlwaysAgree ==
  ASSUME DataPreserveDay >= 31
  PROVE  MonitoringSpec => []RulesAgree
<1>1. MonitoringInit => query \in Queries \cup {NoQuery}
  BY DEF MonitoringInit
<1>2. query \in Queries \cup {NoQuery} /\ [MonitoringNext]_<<vars, rateVars, cacheVars, source, query>>
      => (query \in Queries \cup {NoQuery})'
  BY DEF MonitoringNext
<1>3. query \in Queries \cup {NoQuery} => RulesAgree
  <2>1. NoQuery.about = "nothing"
    BY DEF NoQuery
  <2>2. query = NoQuery => IsQuery(query)
    BY <2>1 DEF IsQuery
  <2> QED BY <2>2, QueriesAre, RulesCorrect
<1> QED BY <1>1, <1>2, <1>3, PTL DEF MonitoringSpec

=============================================================================

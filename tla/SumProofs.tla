------------------------------ MODULE SumProofs -------------------------------
(***************************************************************************)
(* Laws of sums over a finite set, for the invariants that add up counters *)
(* of peers or of agent versions.                                          *)
(***************************************************************************)
EXTENDS Integers, FiniteSets, Functions, FiniteSetTheorems, WellFoundedInduction, TLAPS

\* Induction over a finite set, with the property as the set of its instances.
LEMMA SetInduction ==
  ASSUME NEW S, IsFiniteSet(S), NEW good, {} \in good,
         \A T \in SUBSET S : T # {} /\ (\A x \in T : T \ {x} \in good) => T \in good
  PROVE  S \in good
<1> SUFFICES ASSUME S \notin good PROVE FALSE
  OBVIOUS
<1> DEFINE bad == (SUBSET S) \ good
<1>1. IsWellFoundedOn(StrictSubsetOrdering(S), SUBSET S)
  <2>1. FiniteSubsetsOf(S) = SUBSET S
    BY FS_FiniteSubsetsOfFinite
  <2>2. IsWellFoundedOn(StrictSubsetOrdering(S), FiniteSubsetsOf(S))
    BY FS_StrictSubsetOrderingWellFounded
  <2>3. QED
    BY <2>1, <2>2
<1>2. PICK T \in bad : \A U \in bad : ~ (<<U, T>> \in StrictSubsetOrdering(S))
  <2>1. bad \subseteq SUBSET S /\ bad # {}
    OBVIOUS
  <2> HIDE DEF bad
  <2>2. QED
    BY <1>1, <2>1, WFMin
<1>3. ASSUME NEW x \in T PROVE T \ {x} \in good
  <2>1. T \ {x} \in SUBSET S /\ T \in SUBSET S /\ T \ {x} \subseteq T /\ T \ {x} # T
    BY <1>2
  <2>2. <<T \ {x}, T>> \in StrictSubsetOrdering(S)
    BY <2>1 DEF StrictSubsetOrdering
  <2>3. QED
    BY <1>2, <2>1, <2>2
<1>4. T # {}
  BY <1>2
<1>5. QED
  BY <1>2, <1>3, <1>4

\* A sum counts the pairs of an element and a number below its value.  This
\* turns laws of sums into laws of cardinalities.
Units(f, S) == {u \in S \X Nat : u[2] < f[u[1]]}

\* A number has as many units as it says.
LEMMA UnitsOfOne ==
  ASSUME NEW x, NEW n \in Nat
  PROVE  IsFiniteSet({x} \X (0..(n - 1))) /\ Cardinality({x} \X (0..(n - 1))) = n
<1>1. IsFiniteSet({x}) /\ Cardinality({x}) = 1
  BY FS_Singleton
<1>2. IsFiniteSet(0..(n - 1)) /\ Cardinality(0..(n - 1)) = n
  BY FS_Interval
<1>3. QED
  BY <1>1, <1>2, FS_Product

\* Finitely many numbers have finitely many units.
LEMMA UnitsFinite ==
  ASSUME NEW S, IsFiniteSet(S), NEW f, \A x \in S : f[x] \in Nat
  PROVE  IsFiniteSet(Units(f, S))
<1> DEFINE Part(x) == {x} \X (0..(f[x] - 1))
           parts == {Part(x) : x \in S}
<1>1. IsFiniteSet(parts)
  <2> DEFINE g == [x \in S |-> Part(x)]
  <2>1. g \in Surjection(S, parts)
    BY DEF Surjection
  <2>2. QED
    BY <2>1, FS_Surjection
<1>2. \A T \in parts : IsFiniteSet(T)
  <2> SUFFICES ASSUME NEW x \in S PROVE IsFiniteSet(Part(x))
    OBVIOUS
  <2>1. f[x] \in Nat
    OBVIOUS
  <2>2. QED
    BY <2>1, UnitsOfOne
<1>3. IsFiniteSet(UNION parts)
  BY <1>1, <1>2, FS_UNION
<1>4. Units(f, S) \in SUBSET UNION parts
  <2> SUFFICES ASSUME NEW u \in Units(f, S) PROVE u \in Part(u[1]) /\ u[1] \in S
    OBVIOUS
  <2>1. u \in S \X Nat /\ u[2] < f[u[1]] /\ f[u[1]] \in Nat
    BY DEF Units
  <2>2. u = <<u[1], u[2]>> /\ u[2] \in 0..(f[u[1]] - 1)
    BY <2>1
  <2>3. QED
    BY <2>1, <2>2
<1>5. QED
  BY <1>3, <1>4, FS_Subset

\* Leaving out one number takes away its units.
LEMMA UnitsStep ==
  ASSUME NEW S, IsFiniteSet(S), NEW f, \A x \in S : f[x] \in Nat, NEW x \in S, NEW T \in SUBSET S, x \in T
  PROVE  /\ Cardinality(Units(f, T)) \in Nat
         /\ Cardinality(Units(f, T)) = f[x] + Cardinality(Units(f, T \ {x}))
<1> DEFINE one == {x} \X (0..(f[x] - 1))
           others == Units(f, T \ {x})
<1>1. IsFiniteSet(Units(f, S))
  BY UnitsFinite
<1>2. IsFiniteSet(one) /\ Cardinality(one) = f[x]
  BY UnitsOfOne
<1>3. IsFiniteSet(others)
  <2>1. others \in SUBSET Units(f, S)
    BY DEF Units
  <2>2. QED
    BY <1>1, <2>1, FS_Subset
<1>4. Units(f, T) = one \cup others
  <2>1. ASSUME NEW u \in Units(f, T) PROVE u \in one \cup others
    <3>1. u \in T \X Nat /\ u[2] < f[u[1]] /\ f[u[1]] \in Nat
      BY <2>1 DEF Units
    <3>2. u = <<u[1], u[2]>> /\ u[2] \in 0..(f[u[1]] - 1)
      BY <3>1
    <3>3. QED
      BY <3>1, <3>2 DEF Units
  <2>2. ASSUME NEW u \in one PROVE u \in Units(f, T)
    <3>1. u \in T \X Nat /\ u[1] = x /\ u[2] \in 0..(f[x] - 1) /\ f[x] \in Nat
      BY <2>2
    <3>2. u[2] < f[x]
      BY <3>1
    <3>3. QED
      BY <3>1, <3>2 DEF Units
  <2>3. others \subseteq Units(f, T)
    BY DEF Units
  <2>4. QED
    BY <2>1, <2>2, <2>3
<1>5. one \cap others = {}
  BY DEF Units
<1>6. Cardinality(one \cap others) = 0
  BY <1>5, FS_EmptySet
<1> HIDE DEF one, others
<1>7. Cardinality(one \cup others) =
        Cardinality(one) + Cardinality(others) - Cardinality(one \cap others)
  BY <1>2, <1>3, FS_Union
<1>8. f[x] \in Nat /\ Cardinality(others) \in Nat
  BY <1>3, FS_CardinalityType
<1>9. Cardinality(Units(f, T)) = f[x] + Cardinality(others)
  BY <1>2, <1>4, <1>6, <1>7, <1>8
<1>10. QED
  BY <1>8, <1>9 DEF others

\* A sum over a finite set is the number of its units.
LEMMA SumOfUnits ==
  ASSUME NEW S, IsFiniteSet(S), NEW f, \A x \in S : f[x] \in Nat
  PROVE  SumFunctionOnSet(f, S) = Cardinality(Units(f, S))
<1> DEFINE Step(iter) ==
             [s \in SUBSET S |->
                IF s = {} THEN 0
                ELSE LET x == CHOOSE x \in s : TRUE IN f[x] + iter[s \ {x}]]
           sum == CHOOSE iter : iter = Step(iter)
           units == [s \in SUBSET S |-> Cardinality(Units(f, s))]
<1>1. SumFunctionOnSet(f, S) = sum[S]
  BY DEF SumFunctionOnSet, FoldFunctionOnSet, MapThenFoldSet
<1>2. units = Step(units)
  <2>1. ASSUME NEW s \in SUBSET S PROVE units[s] = Step(units)[s]
    <3>1. CASE s = {}
      <4>1. Units(f, {}) = {}
        BY DEF Units
      <4>2. QED
        BY <3>1, <4>1, FS_EmptySet
    <3>2. CASE s # {}
      <4> DEFINE x == CHOOSE x \in s : TRUE
      <4>1. x \in s
        BY <3>2
      <4>2. Cardinality(Units(f, s)) = f[x] + Cardinality(Units(f, s \ {x}))
        <5> HIDE DEF x
        <5>1. x \in S
          BY <4>1
        <5>2. QED
          BY <4>1, <5>1, UnitsStep
      <4>3. QED
        BY <3>2, <4>2
    <3>3. QED
      BY <3>1, <3>2
  <2>2. QED
    BY <2>1
<1>3. sum = Step(sum)
  BY <1>2
<1> DEFINE good == {s \in SUBSET S : sum[s] = units[s]}
<1>4. {} \in good
  BY <1>2, <1>3
<1>5. ASSUME NEW s \in SUBSET S, s # {}, \A x \in s : s \ {x} \in good
      PROVE  s \in good
  <2> DEFINE x == CHOOSE x \in s : TRUE
  <2>1. x \in s
    BY <1>5
  <2>2. sum[s] = f[x] + sum[s \ {x}] /\ units[s] = f[x] + units[s \ {x}]
    BY <1>2, <1>3, <1>5, <2>1
  <2>3. sum[s \ {x}] = units[s \ {x}]
    BY <1>5, <2>1
  <2>4. QED
    BY <2>2, <2>3
<1>6. S \in good
  <2> HIDE DEF good
  <2>1. QED
    BY <1>4, <1>5, SetInduction
<1>7. QED
  BY <1>1, <1>6

-------------------------------------------------------------------------------
(* Laws *)

\* A sum of natural numbers is one.
LEMMA SumType ==
  ASSUME NEW S, IsFiniteSet(S), NEW f, \A x \in S : f[x] \in Nat
  PROVE  SumFunctionOnSet(f, S) \in Nat
BY SumOfUnits, UnitsFinite, FS_CardinalityType

\* A sum depends on the values at the elements of its set only.
LEMMA SumAgree ==
  ASSUME NEW S, IsFiniteSet(S), NEW f, NEW g,
         \A x \in S : f[x] \in Nat /\ g[x] = f[x]
  PROVE  SumFunctionOnSet(g, S) = SumFunctionOnSet(f, S)
<1>1. Units(g, S) = Units(f, S)
  BY DEF Units
<1>2. SumFunctionOnSet(f, S) = Cardinality(Units(f, S))
  BY SumOfUnits
<1>3. SumFunctionOnSet(g, S) = Cardinality(Units(g, S))
  BY SumOfUnits
<1>4. QED
  BY <1>1, <1>2, <1>3

\* It is zero exactly if all values are.
LEMMA SumZero ==
  ASSUME NEW S, IsFiniteSet(S), NEW f, \A x \in S : f[x] \in Nat
  PROVE  SumFunctionOnSet(f, S) = 0 <=> \A x \in S : f[x] = 0
<1>1. IsFiniteSet(Units(f, S))
  BY UnitsFinite
<1>2. SumFunctionOnSet(f, S) = 0 <=> Units(f, S) = {}
  BY <1>1, SumOfUnits, FS_EmptySet
<1>3. ASSUME Units(f, S) = {}, NEW x \in S PROVE f[x] = 0
  <2>1. <<x, 0>> \notin Units(f, S)
    BY <1>3
  <2>2. ~ (0 < f[x])
    BY <2>1 DEF Units
  <2>3. QED
    BY <2>2
<1>4. ASSUME \A x \in S : f[x] = 0 PROVE Units(f, S) = {}
  BY <1>4 DEF Units
<1>5. QED
  BY <1>2, <1>3, <1>4

\* A sum over two disjoint sets is the sum of the two sums.
LEMMA SumSplit ==
  ASSUME NEW S, IsFiniteSet(S), NEW f, \A x \in S : f[x] \in Nat, NEW T \in SUBSET S
  PROVE  SumFunctionOnSet(f, S) = SumFunctionOnSet(f, T) + SumFunctionOnSet(f, S \ T)
<1> DEFINE here  == Units(f, T)
           there == Units(f, S \ T)
<1>1. T \in SUBSET S /\ IsFiniteSet(T) /\ IsFiniteSet(S \ T)
  BY FS_Subset, FS_Difference
<1>2. IsFiniteSet(here) /\ SumFunctionOnSet(f, T) = Cardinality(here)
  BY <1>1, SumOfUnits, UnitsFinite
<1>3. IsFiniteSet(there) /\ SumFunctionOnSet(f, S \ T) = Cardinality(there)
  BY <1>1, SumOfUnits, UnitsFinite
<1>4. SumFunctionOnSet(f, S) = Cardinality(Units(f, S))
  BY SumOfUnits
<1>5. Units(f, S) = here \cup there /\ here \cap there = {}
  BY DEF Units
<1> HIDE DEF here, there
<1>6. Cardinality(here \cap there) = 0
  BY <1>5, FS_EmptySet
<1>7. Cardinality(here \cup there) =
        Cardinality(here) + Cardinality(there) - Cardinality(here \cap there)
  BY <1>2, <1>3, FS_Union
<1>8. Cardinality(here) \in Nat /\ Cardinality(there) \in Nat
  BY <1>2, <1>3, FS_CardinalityType
<1>9. QED
  BY <1>2, <1>3, <1>4, <1>5, <1>6, <1>7, <1>8

\* Raising the value of some elements by one raises the sum by their number.
LEMMA SumRaised ==
  ASSUME NEW S, IsFiniteSet(S), NEW f, \A x \in S : f[x] \in Nat, NEW T \in SUBSET S,
         NEW g, \A x \in S : g[x] = IF x \in T THEN f[x] + 1 ELSE f[x]
  PROVE  SumFunctionOnSet(g, S) = SumFunctionOnSet(f, S) + Cardinality(T)
<1> DEFINE before == Units(f, S)
           added  == {<<x, f[x]>> : x \in T}
<1>1. IsFiniteSet(T) /\ Cardinality(T) \in Nat
  BY FS_Subset, FS_CardinalityType
<1>2. IsFiniteSet(added) /\ Cardinality(added) = Cardinality(T)
  <2> DEFINE h == [x \in T |-> <<x, f[x]>>]
  <2>1. h \in Bijection(T, added)
    BY DEF Bijection, Injection, Surjection, IsInjective
  <2>2. ExistsBijection(T, added)
    BY <2>1 DEF ExistsBijection
  <2> HIDE DEF added
  <2>3. QED
    BY <1>1, <2>2, FS_Bijection
<1>3. IsFiniteSet(before) /\ SumFunctionOnSet(f, S) = Cardinality(before)
  BY SumOfUnits, UnitsFinite
<1>4. \A x \in S : g[x] \in Nat
  OBVIOUS
<1>5. SumFunctionOnSet(g, S) = Cardinality(Units(g, S))
  BY <1>4, SumOfUnits
<1>6. Units(g, S) = before \cup added
  <2>1. ASSUME NEW u \in Units(g, S) PROVE u \in before \cup added
    <3>1. u \in S \X Nat /\ u[2] < g[u[1]] /\ f[u[1]] \in Nat
      BY <2>1 DEF Units
    <3>2. u[2] < f[u[1]] \/ (u[1] \in T /\ u[2] = f[u[1]])
      BY <3>1
    <3>3. CASE u[2] < f[u[1]]
      BY <3>1, <3>3 DEF Units
    <3>4. CASE u[1] \in T /\ u[2] = f[u[1]]
      BY <3>1, <3>4
    <3>5. QED
      BY <3>2, <3>3, <3>4
  <2>2. ASSUME NEW u \in before PROVE u \in Units(g, S)
    BY <2>2 DEF Units
  <2>3. ASSUME NEW x \in T PROVE <<x, f[x]>> \in Units(g, S)
    BY <2>3 DEF Units
  <2>4. QED
    BY <2>1, <2>2, <2>3
<1>7. before \cap added = {}
  <2>1. ASSUME NEW x \in T PROVE <<x, f[x]>> \notin before
    BY <2>1 DEF Units
  <2>2. QED
    BY <2>1
<1> HIDE DEF before, added
<1>8. Cardinality(before \cap added) = 0
  BY <1>7, FS_EmptySet
<1>9. Cardinality(before \cup added) =
        Cardinality(before) + Cardinality(added) - Cardinality(before \cap added)
  BY <1>2, <1>3, FS_Union
<1>10. Cardinality(before) \in Nat
  BY <1>3, FS_CardinalityType
<1>11. QED
  BY <1>1, <1>2, <1>3, <1>5, <1>6, <1>8, <1>9, <1>10

\* The sizes of disjoint sets add up to the size of their union.
LEMMA SumOfParts ==
  ASSUME NEW S, IsFiniteSet(S), NEW f, NEW part,
         \A x \in S : IsFiniteSet(part[x]) /\ f[x] = Cardinality(part[x]),
         \A x, y \in S : x # y => part[x] \cap part[y] = {}
  PROVE  SumFunctionOnSet(f, S) = Cardinality(UNION {part[x] : x \in S})
<1> DEFINE all(T) == UNION {part[x] : x \in T}
           good == {T \in SUBSET S :
                      IsFiniteSet(all(T)) /\ Cardinality(Units(f, T)) = Cardinality(all(T))}
<1>0. \A x \in S : f[x] \in Nat
  BY FS_CardinalityType
<1>1. {} \in good
  <2>1. all({}) = {} /\ Units(f, {}) = {}
    BY DEF Units
  <2> HIDE DEF all
  <2>2. QED
    BY <2>1, FS_EmptySet
<1>2. ASSUME NEW T \in SUBSET S, T # {}, \A x \in T : T \ {x} \in good
      PROVE  T \in good
  <2>1. PICK x \in T : TRUE
    BY <1>2
  <2> DEFINE rest == all(T \ {x})
             one == part[x]
  <2>2. IsFiniteSet(rest) /\ Cardinality(Units(f, T \ {x})) = Cardinality(rest)
    BY <1>2, <2>1
  <2>3. IsFiniteSet(one) /\ Cardinality(one) = f[x]
    BY <2>1
  <2>4. all(T) = rest \cup one /\ rest \cap one = {}
    BY <2>1
  <2>5. Cardinality(Units(f, T)) = f[x] + Cardinality(Units(f, T \ {x}))
    BY <1>0, <2>1, UnitsStep
  <2> HIDE DEF rest, one, all
  <2>6. Cardinality(rest \cap one) = 0
    BY <2>4, FS_EmptySet
  <2>7. IsFiniteSet(rest \cup one)
        /\ Cardinality(rest \cup one) =
             Cardinality(rest) + Cardinality(one) - Cardinality(rest \cap one)
    BY <2>2, <2>3, FS_Union
  <2>8. Cardinality(rest) \in Nat /\ Cardinality(one) \in Nat
    BY <2>2, <2>3, FS_CardinalityType
  <2>9. Cardinality(Units(f, T)) = Cardinality(all(T))
    BY <2>2, <2>3, <2>4, <2>5, <2>6, <2>7, <2>8
  <2>10. QED
    BY <2>4, <2>7, <2>9
<1>3. S \in good
  <2> HIDE DEF good
  <2>1. QED
    BY <1>1, <1>2, SetInduction
<1>4. QED
  BY <1>0, <1>3, SumOfUnits

\* The sum of one number.
LEMMA SumOne ==
  ASSUME NEW x, NEW f, f[x] \in Nat
  PROVE  SumFunctionOnSet(f, {x}) = f[x]
<1> DEFINE T == {x}
<1>1. IsFiniteSet(T) /\ x \in T /\ T \ {x} = {} /\ \A y \in T : f[y] \in Nat
  BY FS_Singleton
<1>2. Cardinality(Units(f, T \ {x})) = 0
  <2>1. Units(f, T \ {x}) = {}
    BY <1>1 DEF Units
  <2> QED
    BY <2>1, FS_EmptySet
<1> HIDE DEF T
<1>3. Cardinality(Units(f, T)) = f[x] + Cardinality(Units(f, T \ {x}))
  BY <1>1, UnitsStep
<1>4. SumFunctionOnSet(f, T) = f[x]
  BY <1>1, <1>2, <1>3, SumOfUnits
<1>5. QED
  BY <1>4 DEF T

===============================================================================

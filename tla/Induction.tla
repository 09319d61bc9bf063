----------------------------- MODULE Induction ------------------------------
(***************************************************************************)
(* Induction over the natural numbers and over the subsets of a finite     *)
(* set, stated with sets in the place of predicates, and what follows for  *)
(* the sum of the numbers that a function gives to the elements of a       *)
(* finite set.                                                             *)
(***************************************************************************)
EXTENDS Integers, FiniteSetTheorems, WellFoundedInduction, TLAPS

-----------------------------------------------------------------------------
(* Induction.                                                              *)

\* Every set of natural numbers has a least element.
LEMMA LeastNumber ==
  ASSUME NEW T, T \subseteq Nat, T # {}
  PROVE  \E n \in T : \A m \in T : n <= m
<1> DEFINE Less == {p \in Nat \X Nat : p[1] < p[2]}
<1>1. IsWellFoundedOn(Less, Nat)
  BY NatLessThanWellFounded DEF OpToRel
<1>2. PICK n \in T : \A m \in T : <<m, n>> \notin Less
  <2> HIDE DEF Less
  <2> QED
    BY <1>1, WFMin
<1>3. ASSUME NEW m \in T PROVE n <= m
  <2>1. n \in Nat /\ m \in Nat
    OBVIOUS
  <2>2. <<m, n>> \in Less <=> m < n
    BY <2>1
  <2>3. QED
    BY <1>2, <2>1, <2>2
<1>4. QED
  BY <1>3

\* A set that has 0, and the successor of each of its elements, has them all.
LEMMA NumberInduction ==
  ASSUME NEW T, 0 \in T, \A n \in Nat : n \in T => n + 1 \in T
  PROVE  Nat \subseteq T
<1> SUFFICES ASSUME Nat \ T # {} PROVE FALSE
  OBVIOUS
<1>1. PICK n \in Nat \ T : \A m \in Nat \ T : n <= m
  BY LeastNumber
<1>2. n - 1 \in Nat /\ n - 1 \in T
  BY <1>1
<1>3. QED
  BY <1>1, <1>2

\* A family that has a subset of S whenever it has all the subsets with one
\* element less has every subset of S.
LEMMA SubsetInduction ==
  ASSUME NEW S, IsFiniteSet(S), NEW Q,
         \A s \in SUBSET S : (\A x \in s : s \ {x} \in Q) => s \in Q
  PROVE  SUBSET S \subseteq Q
<1> SUFFICES ASSUME NEW s0 \in SUBSET S, s0 \notin Q PROVE FALSE
  OBVIOUS
<1> DEFINE Sizes == {Cardinality(s) : s \in (SUBSET S) \ Q}
<1>1. \A s \in SUBSET S : IsFiniteSet(s) /\ Cardinality(s) \in Nat
  BY FS_Subset, FS_CardinalityType
<1>2. Sizes \subseteq Nat /\ Sizes # {}
  <2>1. Cardinality(s0) \in Sizes
    OBVIOUS
  <2>2. ASSUME NEW n \in Sizes PROVE n \in Nat
    BY <1>1
  <2>3. QED
    BY <2>1, <2>2
<1>3. PICK n \in Sizes : \A m \in Sizes : n <= m
  <2> HIDE DEF Sizes
  <2> QED
    BY <1>2, LeastNumber
<1>4. PICK s \in (SUBSET S) \ Q : n = Cardinality(s)
  OBVIOUS
<1>5. ASSUME NEW x \in s PROVE s \ {x} \in Q
  <2>1. Cardinality(s \ {x}) = n - 1 /\ n \in Nat
    BY <1>1, <1>4, FS_RemoveElement
  <2>2. Cardinality(s \ {x}) \notin Sizes
    BY <1>3, <2>1
  <2>3. QED
    BY <2>2
<1>6. s \in Q
  BY <1>4, <1>5
<1>7. QED
  BY <1>4, <1>6

-----------------------------------------------------------------------------
(* Sums.                                                                   *)

Pick(s) == CHOOSE x \in s : TRUE

\* The equation g = Addition(v, S, g) is the recursive definition of the sums
\* of v over the subsets of S, one picked element at a time.
Addition(v, S, g) ==
  [s \in SUBSET S |-> IF s = {} THEN 0 ELSE v[Pick(s)] + g[s \ {Pick(s)}]]

SumOver(v, S) == (CHOOSE g : g = Addition(v, S, g))[S]

Summable(v, S) == IsFiniteSet(S) /\ \A m \in S : v[m] \in Nat

LEMMA AdditionExists ==
  ASSUME NEW v, NEW S, IsFiniteSet(S)
  PROVE  \E g : g = Addition(v, S, g)
<1>1. \A s \in SUBSET S : IsFiniteSet(s) /\ Cardinality(s) \in Nat
  BY FS_Subset, FS_CardinalityType
<1>2. ASSUME NEW s \in SUBSET S, s # {}
      PROVE  /\ Pick(s) \in s /\ s \ {Pick(s)} \in SUBSET S
             /\ Cardinality(s \ {Pick(s)}) = Cardinality(s) - 1
  BY <1>1, <1>2, FS_RemoveElement DEF Pick
<1> DEFINE Upto == {n \in Nat : \E g : \A s \in SUBSET S :
                      Cardinality(s) <= n => g[s] = Addition(v, S, g)[s]}
<1>3. 0 \in Upto
  <2> DEFINE g == [s \in SUBSET S |-> 0]
  <2>1. \A s \in SUBSET S : Cardinality(s) <= 0 => s = {}
    BY <1>1, FS_EmptySet
  <2>2. \A s \in SUBSET S : Cardinality(s) <= 0 => g[s] = Addition(v, S, g)[s]
    BY <2>1 DEF Addition
  <2> HIDE DEF g
  <2>3. QED
    BY <2>2
<1>4. ASSUME NEW n \in Nat, n \in Upto PROVE n + 1 \in Upto
  <2>1. PICK g : \A s \in SUBSET S :
                   Cardinality(s) <= n => g[s] = Addition(v, S, g)[s]
    BY <1>4
  <2> DEFINE h == Addition(v, S, g)
  <2>2. ASSUME NEW s \in SUBSET S, Cardinality(s) <= n + 1
        PROVE  h[s] = Addition(v, S, h)[s]
    <3>1. CASE s = {}
      BY <3>1 DEF Addition
    <3>2. CASE s # {}
      <4> DEFINE t == s \ {Pick(s)}
      <4>1. t \in SUBSET S /\ Cardinality(t) <= n
        BY <1>1, <1>2, <2>2, <3>2
      <4>2. g[t] = h[t]
        BY <2>1, <4>1
      <4>3. h[s] = v[Pick(s)] + g[t]
        BY <3>2 DEF Addition
      <4>4. Addition(v, S, h)[s] = v[Pick(s)] + h[t]
        BY <3>2 DEF Addition
      <4>5. QED
        BY <4>2, <4>3, <4>4
    <3>3. QED
      BY <3>1, <3>2
  <2> HIDE DEF h
  <2>3. QED
    BY <2>2
<1>5. Nat \subseteq Upto
  <2> HIDE DEF Upto
  <2> QED
    BY <1>3, <1>4, NumberInduction
<1>6. PICK g : \A s \in SUBSET S :
        Cardinality(s) <= Cardinality(S) => g[s] = Addition(v, S, g)[s]
  BY <1>1, <1>5
<1> DEFINE h == Addition(v, S, g)
<1>7. \A s \in SUBSET S : h[s] = g[s]
  BY <1>1, <1>6, FS_Subset
<1>8. h = Addition(v, S, h)
  <2>1. \A s \in SUBSET S : s # {} => s \ {Pick(s)} \in SUBSET S
    BY <1>2
  <2>2. \A s \in SUBSET S : s # {} => h[s \ {Pick(s)}] = g[s \ {Pick(s)}]
    BY <1>7, <2>1
  <2>3. \A s \in SUBSET S : Addition(v, S, h)[s] = Addition(v, S, g)[s]
    BY <2>2 DEF Addition
  <2>4. QED
    BY <2>3 DEF Addition
<1>9. QED
  BY <1>8

\* What a solution gives to a set does not depend on the sets around it.
LEMMA AdditionOfPart ==
  ASSUME NEW v, NEW S, IsFiniteSet(S), NEW T \in SUBSET S,
         NEW g, g = Addition(v, S, g), NEW h, h = Addition(v, T, h)
  PROVE  \A s \in SUBSET T : g[s] = h[s]
<1> DEFINE Q == {s \in SUBSET T : g[s] = h[s]}
<1>1. ASSUME NEW s \in SUBSET T, \A x \in s : s \ {x} \in Q PROVE s \in Q
  <2>1. s # {} => Pick(s) \in s
    BY DEF Pick
  <2>2. s # {} => g[s \ {Pick(s)}] = h[s \ {Pick(s)}]
    BY <1>1, <2>1
  <2>3. Addition(v, S, g)[s] = Addition(v, T, h)[s]
    BY <2>2 DEF Addition
  <2>4. QED
    BY <2>3
<1>2. SUBSET T \subseteq Q
  <2> HIDE DEF Q
  <2>1. IsFiniteSet(T)
    BY FS_Subset
  <2>2. QED
    BY <1>1, <2>1, SubsetInduction
<1>3. QED
  BY <1>2

\* Every solution has the sums as its values.
LEMMA SumsSolve ==
  ASSUME NEW v, NEW S, IsFiniteSet(S), NEW g, g = Addition(v, S, g)
  PROVE  \A s \in SUBSET S : SumOver(v, s) = g[s]
<1> SUFFICES ASSUME NEW s \in SUBSET S PROVE SumOver(v, s) = g[s]
  OBVIOUS
<1> DEFINE h == CHOOSE f : f = Addition(v, s, f)
<1>1. \E f : f = Addition(v, s, f)
  BY FS_Subset, AdditionExists
<1>2. h = Addition(v, s, h)
  BY <1>1
<1>3. SumOver(v, s) = h[s]
  BY DEF SumOver
<1> HIDE DEF h
<1>4. g[s] = h[s]
  BY <1>2, AdditionOfPart
<1>5. QED
  BY <1>3, <1>4

\* The order in which elements are picked does not matter.
LEMMA AdditionOrder ==
  ASSUME NEW v, NEW S, Summable(v, S), NEW g, g = Addition(v, S, g)
  PROVE  \A s \in SUBSET S :
           g[s] \in Nat /\ \A x \in s : g[s] = v[x] + g[s \ {x}]
<1> DEFINE Q == {s \in SUBSET S :
                   /\ g[s] \in Nat
                   /\ \A x \in s : /\ g[s \ {x}] \in Nat
                                   /\ g[s] = v[x] + g[s \ {x}]}
<1>1. ASSUME NEW s \in SUBSET S, \A x \in s : s \ {x} \in Q PROVE s \in Q
  <2>1. CASE s = {}
    <3>1. Addition(v, S, g)[s] = 0
      BY <2>1 DEF Addition
    <3>2. QED
      BY <2>1, <3>1
  <2>2. CASE s # {}
    <3> DEFINE p == Pick(s)
    <3>1. p \in s
      BY <2>2 DEF Pick
    <3>2. Addition(v, S, g)[s] = v[p] + g[s \ {p}]
      BY <2>2 DEF Addition
    <3> HIDE DEF p
    <3>3. g[s] = v[p] + g[s \ {p}]
      BY <3>2
    <3>4. \A x \in s : v[x] \in Nat /\ g[s \ {x}] \in Nat
      BY <1>1 DEF Summable
    <3>5. g[s] \in Nat
      <4>1. v[p] \in Nat /\ g[s \ {p}] \in Nat
        BY <3>1, <3>4
      <4>2. QED
        BY <3>3, <4>1
    <3>6. ASSUME NEW x \in s, x # p PROVE g[s] = v[x] + g[s \ {x}]
      <4>1. s \ {p} \in Q /\ x \in s \ {p}
        BY <1>1, <3>1, <3>6
      <4>2. g[s \ {p}] = v[x] + g[(s \ {p}) \ {x}]
        BY <4>1
      <4>3. s \ {x} \in Q /\ p \in s \ {x}
        BY <1>1, <3>1, <3>6
      <4>4. g[s \ {x}] = v[p] + g[(s \ {x}) \ {p}]
        BY <4>3
      <4>5. (s \ {x}) \ {p} = (s \ {p}) \ {x}
        OBVIOUS
      <4>6. /\ v[p] \in Nat /\ v[x] \in Nat
            /\ g[(s \ {x}) \ {p}] \in Nat
        BY <3>1, <3>4, <4>3
      <4>7. g[s \ {p}] = v[x] + g[(s \ {x}) \ {p}]
        BY <4>2, <4>5
      <4>8. g[s] = v[p] + (v[x] + g[(s \ {x}) \ {p}])
        BY <3>3, <4>7
      <4>9. QED
        BY <4>4, <4>6, <4>8
    <3>7. QED
      BY <3>3, <3>4, <3>5, <3>6
  <2>3. QED
    BY <2>1, <2>2
<1>2. SUBSET S \subseteq Q
  <2> HIDE DEF Q
  <2> QED
    BY <1>1, SubsetInduction DEF Summable
<1>3. QED
  BY <1>2

\* The sum over nothing is 0, and every element adds what it has.
LEMMA SumOfNone ==
  ASSUME NEW v PROVE SumOver(v, {}) = 0
<1>1. PICK g : g = Addition(v, {}, g)
  BY FS_EmptySet, AdditionExists
<1>2. Addition(v, {}, g)[{}] = 0
  BY DEF Addition
<1>3. QED
  BY <1>1, <1>2, FS_EmptySet, SumsSolve

LEMMA SumIsNat ==
  ASSUME NEW v, NEW S, Summable(v, S) PROVE SumOver(v, S) \in Nat
<1>1. PICK g : g = Addition(v, S, g)
  BY AdditionExists DEF Summable
<1>2. QED
  BY <1>1, AdditionOrder, SumsSolve DEF Summable

LEMMA SumWithout ==
  ASSUME NEW v, NEW S, Summable(v, S), NEW x \in S
  PROVE  SumOver(v, S) = v[x] + SumOver(v, S \ {x})
<1>1. PICK g : g = Addition(v, S, g)
  BY AdditionExists DEF Summable
<1>2. SumOver(v, S) = g[S] /\ SumOver(v, S \ {x}) = g[S \ {x}]
  BY <1>1, SumsSolve DEF Summable
<1>3. QED
  BY <1>1, <1>2, AdditionOrder

\* The sum over two sets without a common element is that of their sums.
LEMMA SumOfDisjoint ==
  ASSUME NEW v, NEW S, NEW T, Summable(v, S), Summable(v, T), S \cap T = {}
  PROVE  SumOver(v, S \cup T) = SumOver(v, S) + SumOver(v, T)
<1>1. \A s \in SUBSET T : Summable(v, s) /\ Summable(v, S \cup s)
  BY FS_Subset, FS_Union DEF Summable
<1> DEFINE Q == {s \in SUBSET T :
                   SumOver(v, S \cup s) = SumOver(v, S) + SumOver(v, s)}
<1>2. ASSUME NEW s \in SUBSET T, \A x \in s : s \ {x} \in Q PROVE s \in Q
  <2>1. CASE s = {}
    BY <2>1, SumOfNone, SumIsNat
  <2>2. CASE s # {}
    <3>1. PICK x \in s : TRUE
      BY <2>2
    <3>2. (S \cup s) \ {x} = S \cup (s \ {x}) /\ x \in S \cup s
      BY <3>1
    <3>3. SumOver(v, S \cup s) = v[x] + SumOver(v, S \cup (s \ {x}))
      BY <1>1, <3>2, SumWithout
    <3>4. SumOver(v, s) = v[x] + SumOver(v, s \ {x})
      <4>1. Summable(v, s) /\ x \in s
        BY <1>1, <3>1
      <4>2. QED
        BY <4>1, SumWithout
    <3>5. SumOver(v, S \cup (s \ {x})) = SumOver(v, S) + SumOver(v, s \ {x})
      BY <1>2, <3>1
    <3>6. /\ v[x] \in Nat /\ SumOver(v, s \ {x}) \in Nat
          /\ SumOver(v, S) \in Nat
      BY <1>1, <3>1, SumIsNat DEF Summable
    <3>7. QED
      BY <3>3, <3>4, <3>5, <3>6
  <2>3. QED
    BY <2>1, <2>2
<1>3. SUBSET T \subseteq Q
  <2> HIDE DEF Q
  <2> QED
    BY <1>2, SubsetInduction DEF Summable
<1>4. QED
  BY <1>3

=============================================================================

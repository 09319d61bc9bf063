---------------------------- MODULE ShrinkProofs ----------------------------
(***************************************************************************)
(* What the shrinker guarantees for every fault log and every simulator:   *)
(* its result fails, is 1-minimal, and costs quadratically many replays.   *)
(***************************************************************************)
EXTENDS Shrink, FiniteSetTheorems, TLAPS

\* The types of the shrinker's state (shrink_violation).
THEOREM TypeCorrect == Spec => []TypeOK
<1>1. Init => TypeOK
  BY DEF Init, TypeOK
<1>2. TypeOK /\ [Next]_vars => TypeOK'
  <2> SUFFICES ASSUME TypeOK, [Next]_vars PROVE TypeOK'
    OBVIOUS
  <2> USE DEF TypeOK
  <2>1. CASE FullRun
    BY <2>1 DEF FullRun
  <2>2. ASSUME NEW f \in Faults, Try(f) PROVE TypeOK'
    BY <2>2 DEF Try, AfterFailure, AfterSuccess
  <2>3. CASE Return
    BY <2>3 DEF Return
  <2>4. CASE UNCHANGED vars
    BY <2>4 DEF vars
  <2>5. QED
    BY <2>1, <2>2, <2>3, <2>4 DEF Next
<1>3. QED
  BY <1>1, <1>2, PTL DEF Spec

-----------------------------------------------------------------------------

\* No fault that was tried in the current pass can be removed, and the
\* remainder still fails.
Tried == \A f \in active \ candidates : ~StillFails(active \ {f})

MinimalInv ==
  /\ pc = "run" => active = Faults
  /\ pc = "pass" => StillFails(active) /\ Tried
  /\ pc = "some" => StillFails(active) /\ OneMinimal

\* Whatever is tried and in whatever order, the set in hand fails, and the
\* faults already tried in this pass are needed (shrink_violation).
THEOREM ShrinkInvariant == Spec => []MinimalInv
<1>1. Init => MinimalInv
  BY DEF Init, MinimalInv
<1>2. TypeOK /\ MinimalInv /\ [Next]_vars => MinimalInv'
  <2> SUFFICES ASSUME TypeOK, MinimalInv, [Next]_vars PROVE MinimalInv'
    OBVIOUS
  <2> USE DEF TypeOK, MinimalInv, Tried, OneMinimal, StillFails
  <2>1. CASE FullRun
    <3>1. CASE StillFails(Faults)
      BY <2>1, <3>1 DEF FullRun
    <3>2. CASE ~StillFails(Faults)
      BY <2>1, <3>2 DEF FullRun
    <3>3. QED
      BY <3>1, <3>2
  <2>2. ASSUME NEW f \in Faults, Try(f) PROVE MinimalInv'
    <3>1. CASE Removable(f)
      <4>1. active' = active \ {f} /\ candidates' = active'
        BY <2>2, <3>1 DEF Try, AfterFailure
      <4>2. QED
        BY <2>2, <3>1, <4>1 DEF Try, Removable
    <3>2. CASE ~Removable(f)
      BY <2>2, <3>2 DEF Try, Removable, AfterSuccess
    <3>3. QED
      BY <3>1, <3>2
  <2>3. CASE Return
    BY <2>3 DEF Return
  <2>4. CASE UNCHANGED vars
    BY <2>4 DEF vars
  <2>5. QED
    BY <2>1, <2>2, <2>3, <2>4 DEF Next
<1>3. QED
  BY <1>1, <1>2, TypeCorrect, PTL DEF Spec

\* The faults that are left fail, at every point of the shrinking
\* (shrink_violation).
THEOREM RemainderAlwaysFails == Spec => []RemainderFails
<1>1. MinimalInv => RemainderFails
  BY DEF MinimalInv, RemainderFails
<1>2. QED
  BY <1>1, ShrinkInvariant, PTL

\* No single fault can be left out of the result: a pass that removes nothing
\* has tried every fault of the very set it returns, because every removal
\* starts the pass over (shrink_violation).
THEOREM ShrinkIsOneMinimal == Spec => []OneMinimal
<1>1. TypeOK /\ MinimalInv => OneMinimal
  BY DEF TypeOK, MinimalInv, OneMinimal
<1>2. QED
  BY <1>1, ShrinkInvariant, TypeCorrect, PTL

-----------------------------------------------------------------------------

Left == Cardinality(active)
Untried == Cardinality(candidates)

\* The replays made so far: one full pass for every fault removed, and the
\* faults tried in the current pass.
Bound == Cardinality(Faults) * (Cardinality(Faults) + 1) - Left * (Left + 1)
           + 2 * (Left - Untried)

StepsInv ==
  /\ 2 * steps <= Bound
  /\ pc = "run" => steps = 0 /\ active = Faults

\* Removing an element of a finite set takes one from its cardinality.
LEMMA OneLess ==
  ASSUME NEW S, NEW x \in S, IsFiniteSet(S)
  PROVE  /\ IsFiniteSet(S \ {x})
         /\ Cardinality(S) \in Nat /\ Cardinality(S \ {x}) \in Nat
         /\ Cardinality(S \ {x}) = Cardinality(S) - 1
BY FS_RemoveElement, FS_CardinalityType

\* The cardinalities the shrinker counts with are natural numbers.
LEMMA Counts ==
  ASSUME TypeOK
  PROVE  /\ IsFiniteSet(active) /\ IsFiniteSet(candidates)
         /\ Left \in Nat /\ Untried \in Nat /\ Cardinality(Faults) \in Nat
BY ShrinkAssumption, FS_Subset, FS_CardinalityType DEF TypeOK, Left, Untried

\* The arithmetic of an accepted removal: a pass of l faults is over, and the
\* next one has all of the l - 1 others before it.
LEMMA RemovalArithmetic ==
  ASSUME NEW n \in Nat, NEW l \in Nat, NEW u \in Nat, NEW s \in Nat, u > 0,
         2 * s <= n * (n + 1) - l * (l + 1) + 2 * (l - u)
  PROVE  2 * (s + 1) <= n * (n + 1) - (l - 1) * ((l - 1) + 1)
                          + 2 * ((l - 1) - (l - 1))
<1>1. (l - 1) * ((l - 1) + 1) = l * (l + 1) - 2 * l
  OBVIOUS
<1>2. n * (n + 1) \in Int /\ l * (l + 1) \in Int
  OBVIOUS
<1>3. QED
  BY <1>1, <1>2

\* The shrinker makes at most n (n + 1) / 2 replays of n faults: a removal
\* starts the pass over, but with one fault less (shrink_violation).
THEOREM ShrinkIsQuadratic == Spec => []StepsQuadratic
<1> USE DEF Bound
<1>1. Init => StepsInv
  <2> SUFFICES ASSUME Init PROVE StepsInv
    OBVIOUS
  <2>1. steps = 0 /\ Left = Cardinality(Faults) /\ Untried = 0
    BY FS_EmptySet DEF Init, Left, Untried
  <2>2. Cardinality(Faults) \in Nat
    BY ShrinkAssumption, FS_CardinalityType
  <2>3. QED
    BY <2>1, <2>2 DEF StepsInv, Init
<1>2. TypeOK /\ TypeOK' /\ StepsInv /\ [Next]_vars => StepsInv'
  <2> SUFFICES ASSUME TypeOK, TypeOK', StepsInv, [Next]_vars
               PROVE  StepsInv'
    OBVIOUS
  <2>0. /\ Cardinality(Faults) \in Nat /\ Left \in Nat /\ Untried \in Nat
        /\ steps \in Nat
        /\ IsFiniteSet(active) /\ IsFiniteSet(candidates)
    BY Counts DEF TypeOK
  <2>1. CASE FullRun
    <3>1. Left' = Cardinality(Faults) /\ steps' = 0 /\ pc' # "run"
      BY <2>1 DEF FullRun, StepsInv, Left
    <3>2. Untried' \in Nat /\ Untried' <= Left'
      <4>1. candidates' \subseteq active' /\ IsFiniteSet(active')
        BY <2>0, <2>1 DEF TypeOK, FullRun
      <4>2. QED
        BY <4>1, FS_Subset, FS_CardinalityType DEF Left, Untried
    <3>3. QED
      BY <3>1, <3>2, <2>0 DEF StepsInv
  <2>2. ASSUME NEW f \in Faults, Try(f) PROVE StepsInv'
    <3>0. f \in candidates /\ f \in active /\ steps' = steps + 1
          /\ pc' = "pass"
      BY <2>2 DEF Try, TypeOK
    <3>1. CASE Removable(f)
      <4>1. active' = active \ {f} /\ candidates' = active \ {f}
        BY <2>2, <3>1 DEF Try, AfterFailure
      <4>2. Left' = Left - 1 /\ Untried' = Left - 1
        BY <3>0, <4>1, <2>0, OneLess DEF Left, Untried
      <4>3. Untried > 0
        <5>1. /\ Cardinality(candidates \ {f}) \in Nat
              /\ Cardinality(candidates \ {f}) = Cardinality(candidates) - 1
          BY <3>0, <2>0, OneLess
        <5>2. QED
          BY <5>1, <2>0 DEF Untried
      <4>4. 2 * (steps + 1) <= Cardinality(Faults) * (Cardinality(Faults) + 1)
              - (Left - 1) * ((Left - 1) + 1) + 2 * ((Left - 1) - (Left - 1))
        BY <4>3, <2>0, RemovalArithmetic DEF StepsInv
      <4>5. QED
        BY <3>0, <4>2, <4>4 DEF StepsInv
    <3>2. CASE ~Removable(f)
      <4>1. active' = active /\ candidates' = candidates \ {f}
        BY <2>2, <3>2 DEF Try, AfterSuccess
      <4>2. Left' = Left /\ Untried' = Untried - 1
        BY <3>0, <4>1, <2>0, OneLess DEF Left, Untried
      <4>3. Cardinality(Faults) * (Cardinality(Faults) + 1) \in Int
            /\ Left * (Left + 1) \in Int
        BY <2>0
      <4>4. QED
        BY <3>0, <4>2, <4>3, <2>0 DEF StepsInv
    <3>3. QED
      BY <3>1, <3>2
  <2>3. CASE Return
    BY <2>3 DEF Return, StepsInv, Left, Untried
  <2>4. CASE UNCHANGED vars
    BY <2>4 DEF vars, StepsInv, Left, Untried
  <2>5. QED
    BY <2>1, <2>2, <2>3, <2>4 DEF Next
<1>3. TypeOK /\ StepsInv => StepsQuadratic
  <2> SUFFICES ASSUME TypeOK, StepsInv PROVE StepsQuadratic
    OBVIOUS
  <2>1. /\ Cardinality(Faults) \in Nat /\ Left \in Nat /\ Untried \in Nat
        /\ steps \in Nat
    BY Counts DEF TypeOK
  <2>2. Left * (Left + 1) >= 2 * Left
    <3>1. CASE Left = 0
      BY <3>1
    <3>2. CASE Left > 0
      <4>1. Left * Left >= Left
        BY <2>1, <3>2
      <4>2. Left * (Left + 1) = Left * Left + Left
        BY <2>1
      <4>3. QED
        BY <4>1, <4>2, <2>1
    <3>3. QED
      BY <2>1, <3>1, <3>2
  <2>3. Cardinality(Faults) * (Cardinality(Faults) + 1) \in Int
        /\ Left * (Left + 1) \in Int
    BY <2>1
  <2>4. QED
    BY <2>1, <2>2, <2>3 DEF StepsInv, StepsQuadratic
<1>4. QED
  BY <1>1, <1>2, <1>3, TypeCorrect, PTL DEF Spec

=============================================================================

------------------------------- MODULE Shrink -------------------------------
(***************************************************************************)
(* shrink_violation (r30rg-sim/src/simulator.rs): the reduction of the     *)
(* faults of a failing run, one at a time.  The simulator is deterministic *)
(* for a seed, so a replay is a function of the mask alone; nothing else   *)
(* is assumed of it, in particular not that fewer faults cause fewer       *)
(* violations.                                                             *)
(***************************************************************************)
EXTENDS Integers, FiniteSets

CONSTANTS
  Faults,     \* the indices in the fault log of the full run
  Kinds       \* the invariants a run can violate

ASSUME ShrinkAssumption == IsFiniteSet(Faults)

VARIABLES
  outcome,    \* outcome[S]: what the replay under the mask S violates
  target,     \* target_violation: the violation the caller is shown
  active,     \* the faults not removed yet
  candidates, \* the faults of active still to be tried in this pass
  steps,      \* the replays made
  pc          \* "run", "pass", or how the function returned

vars == <<outcome, target, active, candidates, steps, pc>>

TypeOK ==
  /\ outcome \in [SUBSET Faults -> SUBSET Kinds]
  /\ target \subseteq Kinds
  /\ active \subseteq Faults
  /\ candidates \subseteq active
  /\ steps \in Nat
  /\ pc \in {"run", "pass", "none", "some"}

Init ==
  /\ outcome \in [SUBSET Faults -> SUBSET Kinds]
  /\ target = {}
  /\ active = Faults
  /\ candidates = {}
  /\ steps = 0
  /\ pc = "run"

-----------------------------------------------------------------------------

\* Mutants of the operators below.
RemovableAlways(f) == TRUE
AfterFailureStale(f) == active
AfterSuccessKeep(f) == candidates
AfterSuccessSkip(f) == {}

StillFails(S) == outcome[S] # {}

\* The replay without f.
Removable(f) == StillFails(active \ {f})

\* A successful removal breaks out of the pass; the next one starts over.
AfterFailure(f) == active \ {f}

AfterSuccess(f) == candidates \ {f}

\* The full run: without a violation there is nothing to shrink, without a
\* fault nothing to remove.
FullRun ==
  /\ pc = "run"
  /\ IF StillFails(Faults)
     THEN /\ \E v \in outcome[Faults] : target' = {v}
          /\ candidates' = active
          /\ pc' = IF Faults = {} THEN "some" ELSE "pass"
     ELSE /\ pc' = "none"
          /\ UNCHANGED <<target, candidates>>
  /\ UNCHANGED <<outcome, active, steps>>

\* One replay; the candidates come out of a HashSet in any order.
Try(f) ==
  /\ pc = "pass"
  /\ f \in candidates
  /\ steps' = steps + 1
  /\ IF Removable(f)
     THEN /\ active' = active \ {f}
          /\ candidates' = AfterFailure(f)
     ELSE /\ candidates' = AfterSuccess(f)
          /\ UNCHANGED active
  /\ UNCHANGED <<outcome, target, pc>>

\* A pass that removed nothing is the last one.
Return ==
  /\ pc = "pass"
  /\ candidates = {}
  /\ pc' = "some"
  /\ UNCHANGED <<outcome, target, active, candidates, steps>>

Done == pc \in {"none", "some"}

Next ==
  \/ FullRun
  \/ \E f \in Faults : Try(f)
  \/ Return
  \/ Done /\ UNCHANGED vars

Spec == Init /\ [][Next]_vars

-----------------------------------------------------------------------------

\* The faults that are left always still cause a violation, as the result
\* claims (shrink_violation).
RemainderFails == pc \in {"pass", "some"} => StillFails(active)

\* "no further removals are possible without the violation disappearing"
\* (simulator.rs:608): the replay without any one of the returned faults
\* passes, whatever the simulator does under the other masks.
OneMinimal ==
  pc = "some" => \A f \in active : ~StillFails(active \ {f})

\* The number of replays is at most quadratic in the number of faults, so the
\* loop ends although every accepted removal starts the pass over.
StepsQuadratic ==
  2 * steps <= Cardinality(Faults) * (Cardinality(Faults) + 1)

\* "the minimal set of fault injections that still reproduce it" (README.md):
\* the returned faults reproduce the violation that is reported with them.
ReproducesTarget == pc = "some" => target \subseteq outcome[active]

=============================================================================

----------------------------- MODULE SimChecker -----------------------------
(***************************************************************************)
(* check_invariants: the eight invariants the simulator evaluates at the   *)
(* end of every tick, and record_violation, which keeps the first tick at  *)
(* which each of them fired.  The zero-gas invariant has one key per role  *)
(* in the code; here the roles share a key.                                *)
(***************************************************************************)
EXTENDS SimClock, SimBridge

CONSTANTS
  L1Grace,         \* l1_stalled only after this tick                (10)
  SeqGrace,        \* seq_stalled only above this L1 height          (100)
  PosterGrace,     \* poster_never_posted only after this tick       (200)
  ValidatorGrace,  \* validator_never_asserted only after this tick  (500)
  L3Grace,         \* l3_stalled only after this tick                (100)
  StuckGrace,      \* retryables_stuck only after this tick          (200)
  StuckAge,        \* a ticket is stuck this long after delivery     (100)
  StuckLimit       \* so many stuck tickets are tolerated            (5)

ASSUME CheckerAssumption ==
  /\ L1Grace \in Nat /\ SeqGrace \in Nat /\ PosterGrace \in Nat
  /\ ValidatorGrace \in Nat /\ L3Grace \in Nat
  /\ StuckGrace \in Nat /\ StuckAge \in Nat /\ StuckLimit \in Nat

VARIABLE
  firstSeen    \* firstSeen[k]: tick of the recorded violation of k, 0 if none

Alarms ==
  {"l1_stalled", "seq_stalled", "poster_never_posted",
   "validator_never_asserted", "l3_stalled", "zero_gas", "retryables_stuck",
   "bridge_inflation"}

CheckerTypeOK == firstSeen \in [Alarms -> Nat]

CheckerInit == firstSeen = [k \in Alarms |-> 0]

-----------------------------------------------------------------------------

Stuck == {t \in tickets \ redeemed : tick > t.due + StuckAge}

TotalDeposited == MapThenSumSet(LAMBDA n : deposited[n], Nodes)

Raised ==
  [l1_stalled |-> height[L1] = 0 /\ tick > L1Grace,
   seq_stalled |-> height[L1] > SeqGrace /\ height[Sequencer] = 0,
   poster_never_posted |->
     tick > PosterGrace /\ alive[BatchPoster] /\ lastBatch = 0,
   validator_never_asserted |->
     tick > ValidatorGrace /\ alive[Validator] /\ lastAssertion = 0,
   l3_stalled |->
     tick > L3Grace /\ alive[L3Sequencer] /\ height[L3Sequencer] = 0,
   zero_gas |-> \E n \in Nodes : alive[n] /\ gas[n] = 0,
   retryables_stuck |->
     tick > StuckGrace /\ Cardinality(Stuck) > StuckLimit,
   bridge_inflation |-> TotalDeposited > sent]

-----------------------------------------------------------------------------

CheckInvariants ==
  firstSeen' = [k \in Alarms |-> IF firstSeen[k] = 0 /\ Raised[k]
                                 THEN tick ELSE firstSeen[k]]

=============================================================================

------------------------------ MODULE SimNodes ------------------------------
(***************************************************************************)
(* SimNode (r30rg-sim/src/simulator.rs): the five rollup components of the *)
(* simulation and what each of them does when the loop ticks it.  A node   *)
(* is its index in Simulator.nodes, which is also its id.                  *)
(***************************************************************************)
EXTENDS Integers

CONSTANTS
  MaxTx,        \* new transactions per Sequencer tick: 0..MaxTx      (20)
  MaxL3Tx,      \* new transactions per L3Sequencer tick: 0..MaxL3Tx  (5)
  Swing,        \* Swing[n]: gas price moves by -Swing[n]..Swing[n]
  GasFloor,     \* GasFloor[n]: the price never falls below it
  InitGas,      \* gas price of a new node                            (1000)
  InitBalance,  \* InitBalance[n]: balance of a new node
  TxCost,       \* what posting one transaction costs                 (10)
  StakeCost,    \* what an assertion costs                            (100)
  Posts,        \* bound: the draws of the poster's chance to post
  Asserts       \* bound: the draws of the validator's chance to assert

L1          == 0
Sequencer   == 1
BatchPoster == 2
Validator   == 3
L3Sequencer == 4

Nodes    == 0 .. 4
FeeNodes == {L1, Sequencer, L3Sequencer}

ASSUME NodesAssumption ==
  /\ MaxTx \in Nat /\ MaxL3Tx \in Nat
  /\ Swing \in [FeeNodes -> Nat]
  /\ GasFloor \in [FeeNodes -> Nat \ {0}]
  /\ InitGas \in Nat \ {0}
  /\ InitBalance \in [Nodes -> Nat]
  /\ TxCost \in Nat /\ StakeCost \in Nat
  /\ Posts \subseteq BOOLEAN /\ Asserts \subseteq BOOLEAN

VARIABLES
  alive,          \* alive[n]
  height,         \* height[n]: blocks n has produced
  pending,        \* pending[n]: transactions waiting at n
  gas,            \* gas[n]: gas price
  balance,        \* balance[n]
  deposited,      \* deposited[n]: value credited by the bridge
  lastBatch,      \* height at which the BatchPoster last posted
  lastAssertion   \* height at which the Validator last asserted

nodeVars == <<alive, height, pending, gas, balance, deposited, lastBatch,
              lastAssertion>>

NodesTypeOK ==
  /\ alive \in [Nodes -> BOOLEAN]
  /\ height \in [Nodes -> Nat]
  /\ pending \in [Nodes -> Nat]
  /\ gas \in [Nodes -> Nat]
  /\ balance \in [Nodes -> Nat]
  /\ lastBatch \in Nat
  /\ lastAssertion \in Nat

NodesInit ==
  /\ alive = [n \in Nodes |-> TRUE]
  /\ height = [n \in Nodes |-> 0]
  /\ pending = [n \in Nodes |-> 0]
  /\ gas = [n \in Nodes |-> InitGas]
  /\ balance = InitBalance
  /\ deposited = [n \in Nodes |-> 0]
  /\ lastBatch = 0
  /\ lastAssertion = 0

-----------------------------------------------------------------------------

\* Mutants of the operators below.
NextGasUnclamped(n, swing) ==
  IF n \in FeeNodes /\ alive[n] THEN gas[n] + swing[n] ELSE gas[n]
CanPostUnchecked == alive[BatchPoster]
NextHeightOnlyL1(n) == IF n = L1 THEN height[n] + 1 ELSE height[n]

Saturating(a, b) == IF a >= b THEN a - b ELSE 0

\* A dead node's tick returns at once.
NextHeight(n) == IF alive[n] THEN height[n] + 1 ELSE height[n]

NextGas(n, swing) ==
  LET moved == gas[n] + swing[n]
  IN  IF n \in FeeNodes /\ alive[n]
      THEN IF moved < GasFloor[n] THEN GasFloor[n] ELSE moved
      ELSE gas[n]

Received(n, txs) == IF alive[n] THEN pending[n] + txs ELSE pending[n]

CanPost == alive[BatchPoster] /\ pending[BatchPoster] > 0

\* What the loop leaves in the poster after all nodes ticked: the pending
\* transactions of a live sequencer, 0 for a dead one.
Forwarded(seqPending) == IF alive[Sequencer] THEN seqPending ELSE 0

Swings ==
  {s \in [FeeNodes -> UNION {-Swing[n] .. Swing[n] : n \in FeeNodes}] :
     \A n \in FeeNodes : s[n] \in -Swing[n] .. Swing[n]}

-----------------------------------------------------------------------------

\* One pass over the nodes and the propagation of the pending transactions.
\* tx, tx3, swing: the draws; posts, asserts: whether the rare event happens.
TickNodes(tx, tx3, swing, posts, asserts) ==
  /\ posts => CanPost
  /\ asserts => alive[Validator]
  /\ height' = [n \in Nodes |-> NextHeight(n)]
  /\ gas' = [n \in Nodes |-> NextGas(n, swing)]
  /\ pending' = [pending EXCEPT
       ![Sequencer] = Received(Sequencer, tx),
       ![L3Sequencer] = Received(L3Sequencer, tx3),
       ![BatchPoster] = IF alive[BatchPoster]
                        THEN Forwarded(Received(Sequencer, tx)) ELSE @]
  /\ balance' = [balance EXCEPT
       ![BatchPoster] =
          IF posts THEN Saturating(@, TxCost * pending[BatchPoster]) ELSE @,
       ![Validator] = IF asserts THEN Saturating(@, StakeCost) ELSE @]
  /\ lastBatch' = IF posts THEN height[BatchPoster] ELSE lastBatch
  /\ lastAssertion' = IF asserts THEN height[Validator] ELSE lastAssertion
  /\ UNCHANGED <<alive, deposited>>

=============================================================================

----------------------------- MODULE Simulator ------------------------------
(***************************************************************************)
(* Simulator::run: the deterministic simulation loop that composes the     *)
(* clock, the nodes, the bridge, the fault injection and the checker.  One *)
(* thread runs the loop; phase says which call of the loop's body comes    *)
(* next, so that every handler is one action.  The draws of the PRNG are   *)
(* choices.  The network the loop also owns never carries a message (run   *)
(* never calls send), so its deliver has nothing to do here.               *)
(***************************************************************************)
EXTENDS SimFaults, SimChecker

CONSTANT MaxTicks   \* the argument max_ticks of run

ASSUME SimulatorAssumption == MaxTicks \in Nat

VARIABLES
  phase,        \* the next call of the loop's body
  firstPost,    \* history: tick of the first batch posted, 0 if none
  firstAssert   \* history: tick of the first assertion posted, 0 if none

history == <<firstPost, firstAssert>>

vars == <<clockVars, nodeVars, bridgeVars, faultVars, firstSeen, phase,
          history>>

Phases == {"nodes", "bridge", "deliver", "redeem", "crash", "partition",
           "events", "check"}

\* Everything but the amounts, whose type rests on what SumValues computes.
CoreTypeOK ==
  /\ ClockTypeOK
  /\ NodesTypeOK
  /\ BridgeTypeOK
  /\ FaultsTypeOK
  /\ CheckerTypeOK
  /\ tick <= MaxTicks
  /\ phase \in Phases
  /\ firstPost \in Nat
  /\ firstAssert \in Nat

TypeOK == CoreTypeOK /\ AmountsTypeOK

Init ==
  /\ ClockInit
  /\ NodesInit
  /\ BridgeInit
  /\ FaultsInit
  /\ CheckerInit
  /\ phase = "nodes"
  /\ firstPost = 0
  /\ firstAssert = 0

-----------------------------------------------------------------------------

Goes(from, to) == phase = from /\ phase' = to

First(seen, happens) == IF happens /\ seen = 0 THEN tick + 1 ELSE seen

NodesStep ==
  /\ Goes("nodes", "bridge")
  /\ tick < MaxTicks
  /\ Advance(1)
  /\ \E tx \in 0 .. MaxTx, tx3 \in 0 .. MaxL3Tx, swing \in Swings,
        posts \in Posts, asserts \in Asserts :
       /\ TickNodes(tx, tx3, swing, posts, asserts)
       /\ firstPost' = First(firstPost, posts)
       /\ firstAssert' = First(firstAssert, asserts)
  /\ UNCHANGED <<bridgeVars, faultVars, firstSeen>>

BridgeStep ==
  /\ Goes("bridge", "deliver")
  /\ \E d \in Draws(Deposit, tick), w \in Draws(Withdrawal, tick),
        x \in Draws(L3Deposit, tick) : Originate(d \cup w \cup x)
  /\ UNCHANGED <<clockVars, alive, height, pending, gas, balance, lastBatch,
                 lastAssertion, faultVars, firstSeen, history>>

DeliverStep ==
  /\ Goes("deliver", "redeem")
  /\ Deliver(tick)
  /\ UNCHANGED <<clockVars, alive, height, pending, gas, balance, lastBatch,
                 lastAssertion, faultVars, firstSeen, history>>

RedeemStep ==
  /\ Goes("redeem", "crash")
  /\ Redeem(tick)
  /\ UNCHANGED <<clockVars, alive, height, pending, gas, balance, lastBatch,
                 lastAssertion, faultVars, firstSeen, history>>

CrashStep ==
  /\ Goes("crash", "partition")
  /\ MaybeCrash
  /\ UNCHANGED <<bridgeVars, firstSeen, history>>

PartitionStep ==
  /\ Goes("partition", "events")
  /\ MaybePartition
  /\ UNCHANGED <<bridgeVars, firstSeen, history>>

EventStep ==
  /\ Goes("events", "events")
  /\ ProcessEvent
  /\ UNCHANGED <<bridgeVars, firstSeen, history>>

EventsDone ==
  /\ Goes("events", "check")
  /\ NothingDue
  /\ UNCHANGED <<clockVars, nodeVars, bridgeVars, faultVars, firstSeen,
                 history>>

CheckStep ==
  /\ Goes("check", "nodes")
  /\ CheckInvariants
  /\ UNCHANGED <<clockVars, nodeVars, bridgeVars, faultVars, history>>

\* The loop has run its max_ticks turns.
Finished == phase = "nodes" /\ tick = MaxTicks

Next ==
  \/ NodesStep \/ BridgeStep \/ DeliverStep \/ RedeemStep
  \/ CrashStep \/ PartitionStep \/ EventStep \/ EventsDone \/ CheckStep
  \/ Finished /\ UNCHANGED vars

\* The loop is a plain for loop on one thread: while it has a step to take it
\* takes it.
Fairness == WF_vars(Next)

Spec == Init /\ [][Next]_vars

FairSpec == Spec /\ Fairness

-----------------------------------------------------------------------------

\* Between two turns of the loop, and at the end of a turn once the due
\* events have been drained.
Settled == phase \in {"check", "nodes"}

OpenCrash(i, n) ==
  /\ Applies(i - 1)
  /\ faultLog[i].kind = "crash" /\ faultLog[i].node = n
  /\ tick < faultLog[i].until

OpenPartition(i, a, b) ==
  /\ Applies(i - 1)
  /\ faultLog[i].kind = "partition"
  /\ {faultLog[i].a, faultLog[i].b} = {a, b}
  /\ tick < faultLog[i].until

\* The fault log tells the truth about crashes: whenever the checker looks,
\* a node is down exactly while some applied crash of it in the log has not
\* reached its restart tick.  A restart that is lost, early, late or aimed at
\* another node, a second crash of a node that is down, or a masked fault
\* that takes effect would break it (maybe_inject_fault).
DeadExactlyInWindow ==
  Settled => \A n \in Nodes :
    ~alive[n] <=> \E i \in DOMAIN faultLog : OpenCrash(i, n)

\* No link stays cut past the heal tick of every applied partition of it in
\* the log, whatever other faults are pending (maybe_inject_fault).
PartitionOnlyInWindow ==
  Settled => \A p \in partitions :
    \E i \in DOMAIN faultLog : OpenPartition(i, p[1], p[2])

\* The loop fires every scheduled event in the very tick it was scheduled
\* for: each turn drains what is due, so no event is ever overdue
\* (maybe_inject_fault, next_due_event).
EventsFireOnTime ==
  [][\A e \in events : e \notin events' => e.tick = tick]_vars

\* What the checker sees of a retryable ticket: it stays unredeemed at most
\* until its redemption tick plus one longest outage of the target, however
\* many crashes the target suffers (process_retryables).
RedeemDeadline ==
  phase = "check" => \A t \in tickets \ redeemed :
    tick < t.due + RedeemDelay + MaxRestart

\* These alarms can never fire, whatever the seed: no fault makes them true.
\* A crash in the first turn comes after the nodes have ticked, the gas price
\* is clamped, and a restarted node keeps its height (check_invariants).
ImpossibleAlarms == {"l1_stalled", "seq_stalled", "l3_stalled", "zero_gas"}

OnlyPossibleAlarms == \A k \in ImpossibleAlarms : firstSeen[k] = 0

\* The bridge inflation alarm never fires: no path through the two queues
\* credits a message twice (deliver_bridge_messages, process_retryables).
NoInflation == firstSeen["bridge_inflation"] = 0

\* The poster alarm never lies: last_batch_posted is still 0 only if no batch
\* was ever posted (the poster's first possible post is at height 1).
PosterAlarmIsTrue == lastBatch = 0 <=> firstPost = 0

\* The validator alarm lies of one validator only, the one whose assertions
\* all fell into the first tick, where its height is the sentinel 0
\* (SimNode::tick, check_invariants).
ValidatorAlarmFalseOnlyAtStart ==
  LET reported == firstSeen["validator_never_asserted"]
  IN  reported # 0 => firstAssert = 0 \/ firstAssert > reported \/ firstAssert = 1

\* Value is neither lost nor created on its way through the bridge: what was
\* sent has been deposited, or is in the queue or in an unredeemed ticket.
Conservation ==
  sent = TotalDeposited + SumValues(queue) + SumValues(tickets \ redeemed)

\* A run ends (run is a bounded loop around a bounded drain of the heap).
RunCompletes == <>Finished

\* Every crashed node comes back: an outage that can end within the run does
\* (next_due_event, restart).
CrashedNodesRecover ==
  \A n \in Nodes : ~alive[n] /\ tick + MaxRestart <= MaxTicks ~> alive[n]

\* The bridge keeps the ledger's promise: a message is settled exactly once,
\* either when it is delivered or when its ticket is redeemed, and for the
\* node of its target layer (deliver_bridge_messages, process_retryables).
Ledger == INSTANCE BridgeLedger WITH
            Layers <- {1, 2, 3},
            Sum <- SumValues,
            Layer <- LAMBDA m : m.route.to,
            outstanding <- queue \cup (tickets \ redeemed),
            paid <- [l \in {1, 2, 3} |-> deposited[LayerNode(l)]],
            sent <- sent

LedgerSpec == Ledger!Spec

-----------------------------------------------------------------------------

\* What the code says of itself and does not do.

\* "Validator has never posted an assertion" (simulator.rs:516) is recorded
\* only when the validator has not posted one yet.
ValidatorAlarmIsTrue ==
  LET reported == firstSeen["validator_never_asserted"]
  IN  reported # 0 => firstAssert = 0 \/ firstAssert > reported

\* "PARTITION .. heal_after=<heal_delay>" (main.rs:510): an applied partition
\* lasts until the tick recorded for its heal.
HealDelayHonoured ==
  Settled => \A i \in DOMAIN faultLog : \A p \in PartitionPairs :
    OpenPartition(i, p[1], p[2]) => p \in partitions

=============================================================================

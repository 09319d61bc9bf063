---------------------------- MODULE BridgeProofs ----------------------------
(***************************************************************************)
(* Theorems about the bridge of the simulator: how long a ticket can stay  *)
(* unredeemed, that the bridge implements BridgeLedger, and that value is  *)
(* conserved.                                                              *)
(***************************************************************************)
EXTENDS SimulatorProofs, Induction

-----------------------------------------------------------------------------
(* The redemption deadline.                                                *)

\* The phases of a turn that follow the redemption of tickets.
Redeemed == phase \in {"crash", "partition", "events", "check", "nodes"}

\* A pending restart is due at most MaxRestart after the last crash draw.
RestartsSoon ==
  \A e \in events : e.id \in Nodes =>
    e.tick <= (IF Redeemed THEN tick + MaxRestart ELSE tick - 1 + MaxRestart)

\* A message is delivered in the tick it is due.
QueueTimely ==
  \A m \in queue :
    m.due >= tick /\ (phase \notin {"bridge", "deliver"} => m.due > tick)

\* t could have been redeemed in this or an earlier turn.
Waited(t) ==
  IF Redeemed THEN tick >= t.due + RedeemDelay ELSE tick > t.due + RedeemDelay

\* The target of t is down, and its restart comes in time.
Blocked(t) ==
  /\ ~alive[Target(t)]
  /\ \E e \in events :
       e.id = Target(t) /\ e.tick < t.due + RedeemDelay + MaxRestart

\* The target of t is back, so that the next turn redeems t.
Freed(t) ==
  /\ alive[Target(t)]
  /\ phase \notin {"crash", "partition"}
  /\ phase \in {"events", "check", "nodes"} =>
       tick < t.due + RedeemDelay + MaxRestart

TicketsWait ==
  \A t \in tickets \ redeemed : Waited(t) => Blocked(t) \/ Freed(t)

BridgeInv == RestartsSoon /\ QueueTimely /\ TicketsWait

\* A message is addressed to a node, and the node determines the layer.
LEMMA TargetNode ==
  ASSUME NEW m \in Message
  PROVE  /\ Target(m) \in Nodes
         /\ m.route.to \in {1, 2, 3}
         /\ m.due \in Nat /\ m.created \in Nat
BY DEF Target, LayerNode, Message, Routes, Deposit, Withdrawal, L3Deposit,
       Nodes, L1, Sequencer, L3Sequencer

\* The layers have different nodes (credit_bridge_delivery).
LEMMA LayersDiffer ==
  \A k, l \in {1, 2, 3} : LayerNode(k) = LayerNode(l) => k = l
BY DEF LayerNode, L1, Sequencer, L3Sequencer

\* A step that moves neither the clock nor nodes nor the bridge, and stays on
\* the same side of the redemption and of the delivery.
LEMMA BridgeFrame ==
  ASSUME BridgeInv, phase # phase' =>
           \/ phase = "events" /\ phase' = "check"
           \/ phase = "check" /\ phase' = "nodes",
         UNCHANGED <<tick, events, alive, queue, tickets, redeemed>>
  PROVE  BridgeInv'
BY DEF BridgeInv, RestartsSoon, QueueTimely, TicketsWait, Redeemed, Waited,
       Blocked, Freed

\* The new turn begins: what is due is now due at the earliest.
LEMMA NodesStepBridge ==
  ASSUME CoreTypeOK, BridgeInv, NodesStep PROVE BridgeInv'
<1> USE DEF CoreTypeOK, BridgeInv
<1>1. /\ UNCHANGED <<events, alive, queue, tickets, redeemed>>
      /\ tick' = tick + 1 /\ tick \in Nat /\ phase = "nodes" /\ phase' = "bridge"
  BY DEF NodesStep, Goes, Advance, TickNodes, bridgeVars, ClockTypeOK
<1>2. RestartsSoon'
  BY <1>1, FaultsAssumption
  DEF RestartsSoon, Redeemed, ClockTypeOK, Event
<1>3. QueueTimely'
  <2>1. \A m \in queue : m.due \in Nat
    BY TargetNode DEF BridgeTypeOK
  <2>2. QED
    BY <1>1, <2>1 DEF QueueTimely
<1>4. TicketsWait'
  <2>1. \A t \in tickets : t.due + RedeemDelay \in Nat
    BY TargetNode, BridgeAssumption DEF BridgeTypeOK
  <2>2. \A t \in tickets : Waited(t)' <=> Waited(t)
    BY <1>1, <2>1 DEF Waited, Redeemed
  <2>3. \A t \in tickets : Blocked(t)' <=> Blocked(t)
    BY <1>1 DEF Blocked, Target
  <2>4. \A t \in tickets : Freed(t) => Freed(t)'
    BY <1>1 DEF Freed, Target
  <2>5. QED
    BY <1>1, <2>2, <2>3, <2>4 DEF TicketsWait
<1>5. QED
  BY <1>2, <1>3, <1>4

\* New messages are due now at the earliest (maybe_bridge_message).
LEMMA BridgeStepBridge ==
  ASSUME CoreTypeOK, BridgeInv, BridgeStep PROVE BridgeInv'
<1> USE DEF CoreTypeOK, BridgeInv
<1>1. PICK d \in Draws(Deposit, tick), w \in Draws(Withdrawal, tick),
           x \in Draws(L3Deposit, tick) : Originate(d \cup w \cup x)
  BY DEF BridgeStep
<1>2. /\ UNCHANGED <<tick, events, alive, tickets, redeemed>>
      /\ queue' = queue \cup d \cup w \cup x
      /\ phase = "bridge" /\ phase' = "deliver" /\ tick \in Nat
  BY <1>1 DEF BridgeStep, Goes, Originate, clockVars, ClockTypeOK
<1>3. \A m \in d \cup w \cup x : m.due >= tick
  <2>1. \A r \in Routes : \A l \in Latency[r] : l \in Nat
    BY BridgeAssumption
  <2>2. QED
    BY <1>2, <2>1 DEF Draws, Routes
<1>4. QueueTimely'
  BY <1>2, <1>3 DEF QueueTimely
<1>5. RestartsSoon' /\ TicketsWait'
  BY <1>2 DEF RestartsSoon, TicketsWait, Redeemed, Waited, Blocked, Freed
<1>6. QED
  BY <1>4, <1>5

\* A new ticket is due now, so it is not late (deliver_bridge_messages).
LEMMA DeliverStepBridge ==
  ASSUME CoreTypeOK, BridgeInv, DeliverStep PROVE BridgeInv'
<1> USE DEF CoreTypeOK, BridgeInv
<1>1. /\ UNCHANGED <<tick, events, alive, redeemed>>
      /\ queue' = Remaining(tick)
      /\ tickets' = tickets \cup {m \in queue : IsDelivered(m, tick) /\ m.retryable}
      /\ phase = "deliver" /\ phase' = "redeem" /\ tick \in Nat
  BY DEF DeliverStep, Deliver, Goes, clockVars, ClockTypeOK
<1>2. \A m \in queue : m.due \in Nat
  BY TargetNode DEF BridgeTypeOK
<1>3. QueueTimely'
  BY <1>1, <1>2 DEF QueueTimely, Remaining, IsDelivered
<1>4. RestartsSoon'
  BY <1>1 DEF RestartsSoon, Redeemed
<1>5. TicketsWait'
  <2>1. SUFFICES ASSUME NEW t \in tickets' \ redeemed, Waited(t)'
                 PROVE  Blocked(t)' \/ Freed(t)'
    BY <1>1 DEF TicketsWait
  <2>2. t \in tickets
    BY <2>1, <1>1, <1>2, BridgeAssumption
    DEF QueueTimely, IsDelivered, Waited, Redeemed
  <2>3. Waited(t)
    BY <2>1, <1>1 DEF Waited, Redeemed
  <2>4. QED
    BY <1>1, <2>1, <2>2, <2>3 DEF TicketsWait, Blocked, Freed
<1>6. QED
  BY <1>3, <1>4, <1>5

\* A ripe ticket that is not redeemed has a target that is down, and whose
\* restart was scheduled before this turn (process_retryables).
LEMMA RedeemStepBridge ==
  ASSUME CoreTypeOK, FaultInv, BridgeInv, RedeemStep PROVE BridgeInv'
<1> USE DEF CoreTypeOK, BridgeInv
<1>1. /\ UNCHANGED <<tick, events, alive, queue, tickets>>
      /\ redeemed' = redeemed \cup {t \in tickets : CanRedeem(t, tick)}
      /\ phase = "redeem" /\ phase' = "crash" /\ tick \in Nat
  BY DEF RedeemStep, Redeem, Goes, clockVars, ClockTypeOK
<1>2. QueueTimely'
  BY <1>1 DEF QueueTimely
<1>3. RestartsSoon'
  BY <1>1, FaultsAssumption DEF RestartsSoon, Redeemed, ClockTypeOK, Event
<1>4. TicketsWait'
  <2>1. SUFFICES ASSUME NEW t \in tickets \ redeemed', Waited(t)'
                 PROVE  Blocked(t)'
    BY <1>1 DEF TicketsWait
  <2>2. Target(t) \in Nodes /\ t.due + RedeemDelay \in Nat
    BY TargetNode, BridgeAssumption DEF BridgeTypeOK
  <2>3. tick >= t.due + RedeemDelay
    BY <2>1, <1>1 DEF Waited, Redeemed
  <2>4. ~alive[Target(t)]
    BY <2>1, <2>3, <1>1 DEF CanRedeem
  <2>5. CASE tick > t.due + RedeemDelay
    <3>1. Blocked(t)
      BY <2>1, <2>4, <2>5, <1>1 DEF TicketsWait, Waited, Redeemed, Freed
    <3>2. QED
      BY <3>1, <1>1 DEF Blocked, Target
  <2>6. CASE tick = t.due + RedeemDelay
    <3>1. PICK e \in events : e.id = Target(t)
      BY <2>2, <2>4 DEF FaultInv, OneRestart
    <3>2. e.tick <= tick - 1 + MaxRestart
      BY <2>2, <3>1, <1>1 DEF RestartsSoon, Redeemed
    <3>3. e.tick < t.due + RedeemDelay + MaxRestart
      BY <2>2, <2>6, <3>2, <1>1, FaultsAssumption DEF ClockTypeOK, Event
    <3>4. QED
      BY <2>4, <3>1, <3>3, <1>1 DEF Blocked, Target
  <2>7. QED
    BY <2>2, <2>3, <2>5, <2>6, <1>1
<1>5. QED
  BY <1>2, <1>3, <1>4

\* A crash cannot hit a node that is down, and its restart is due soon.
LEMMA CrashStepBridge ==
  ASSUME CoreTypeOK, BridgeInv, CrashStep PROVE BridgeInv'
<1> USE DEF CoreTypeOK, BridgeInv
<1>1. /\ UNCHANGED <<tick, queue, tickets, redeemed>>
      /\ phase = "crash" /\ phase' = "partition" /\ tick \in Nat
  BY DEF CrashStep, MaybeCrash, Crash, Schedule, Goes, clockVars, bridgeVars,
         ClockTypeOK
<1>2. /\ events \subseteq events'
      /\ \A m \in Nodes : ~alive[m] => ~alive'[m]
      /\ \A e \in events' : e \in events \/ e.tick <= tick + MaxRestart
  <2>1. CASE UNCHANGED <<faultLog, alive, clockVars>>
    BY <2>1 DEF clockVars
  <2>2. ASSUME NEW n \in CrashCandidates, NEW delay \in RestartDelays,
               Crash(n, delay)
        PROVE  /\ events \subseteq events'
               /\ \A m \in Nodes : ~alive[m] => ~alive'[m]
               /\ \A e \in events' : e \in events \/ e.tick <= tick + MaxRestart
    <3>1. tick + delay <= tick + MaxRestart
      BY <1>1, FaultsAssumption DEF RestartDelays
    <3>2. CASE Applies(Len(faultLog))
      <4>1. /\ alive' = [alive EXCEPT ![n] = FALSE]
            /\ events' = events \cup
                 {[tick |-> tick + delay, id |-> n, seq |-> scheduled]}
        BY <2>2, <3>2 DEF Crash, Schedule
      <4>2. QED
        BY <3>1, <4>1 DEF NodesTypeOK
    <3>3. CASE ~Applies(Len(faultLog))
      BY <2>2, <3>3 DEF Crash, clockVars
    <3>4. QED
      BY <3>2, <3>3
  <2>3. QED
    BY <2>1, <2>2 DEF CrashStep, MaybeCrash
<1>3. QueueTimely'
  BY <1>1 DEF QueueTimely
<1>4. RestartsSoon'
  BY <1>1, <1>2 DEF RestartsSoon, Redeemed
<1>5. TicketsWait'
  <2>1. \A t \in tickets : Target(t) \in Nodes
    BY TargetNode DEF BridgeTypeOK
  <2>2. \A t \in tickets : Blocked(t) => Blocked(t)'
    BY <1>1, <1>2, <2>1 DEF Blocked, Target
  <2>3. \A t \in tickets : (Waited(t)' <=> Waited(t)) /\ ~Freed(t)
    BY <1>1 DEF Waited, Redeemed, Freed
  <2>4. QED
    BY <1>1, <2>2, <2>3 DEF TicketsWait
<1>6. QED
  BY <1>3, <1>4, <1>5

\* A partition schedules a heal and leaves the nodes alone.
LEMMA PartitionStepBridge ==
  ASSUME CoreTypeOK, BridgeInv, PartitionStep PROVE BridgeInv'
<1> USE DEF CoreTypeOK, BridgeInv
<1>1. /\ UNCHANGED <<tick, alive, queue, tickets, redeemed>>
      /\ phase = "partition" /\ phase' = "events" /\ tick \in Nat
  BY DEF PartitionStep, MaybePartition, Partition, Schedule, Goes, clockVars,
         nodeVars, bridgeVars, ClockTypeOK
<1>2. /\ events \subseteq events'
      /\ \A e \in events' : e \in events \/ e.id \notin Nodes
  <2>1. \A p \in PartitionPairs :
          HealId(p[1], p[2]) \in Nat /\ HealId(p[1], p[2]) >= 1000
    BY FaultsAssumption, HealIdType
  <2>2. CASE UNCHANGED <<partitions, faultLog, clockVars>>
    BY <2>2 DEF clockVars
  <2>3. ASSUME NEW p \in PartitionPairs, NEW delay \in HealDelays,
               Partition(p[1], p[2], delay)
        PROVE  /\ events \subseteq events'
               /\ \A e \in events' : e \in events \/ e.id \notin Nodes
    <3>1. HealId(p[1], p[2]) \notin Nodes
      BY <2>1 DEF Nodes
    <3>2. CASE Applies(Len(faultLog))
      <4>1. events' = events \cup {[tick |-> tick + delay,
                                    id |-> HealId(p[1], p[2]),
                                    seq |-> scheduled]}
        BY <2>3, <3>2 DEF Partition, Schedule
      <4>2. QED
        BY <3>1, <4>1
    <3>3. CASE ~Applies(Len(faultLog))
      BY <2>3, <3>3 DEF Partition, clockVars
    <3>4. QED
      BY <3>2, <3>3
  <2>4. QED
    BY <2>2, <2>3 DEF PartitionStep, MaybePartition
<1>3. QueueTimely'
  BY <1>1 DEF QueueTimely
<1>4. RestartsSoon'
  BY <1>1, <1>2 DEF RestartsSoon, Redeemed
<1>5. TicketsWait'
  BY <1>1, <1>2 DEF TicketsWait, Waited, Redeemed, Blocked, Freed, Target
<1>6. QED
  BY <1>3, <1>4, <1>5

\* A restart that fires in time frees the tickets that waited for it.
LEMMA EventStepBridge ==
  ASSUME CoreTypeOK, FaultInv, BridgeInv, EventStep PROVE BridgeInv'
<1> USE DEF CoreTypeOK, BridgeInv
<1>1. /\ UNCHANGED <<tick, queue, tickets, redeemed>>
      /\ phase = "events" /\ phase' = "events" /\ tick \in Nat
  BY DEF EventStep, ProcessEvent, NextDueEvent, Goes, bridgeVars, ClockTypeOK
<1>2. PICK e \in events :
        /\ events' = events \ {e} /\ e.tick <= tick
        /\ alive' = IF IsRestart(e) /\ e.id \in Nodes
                    THEN [alive EXCEPT ![e.id] = TRUE] ELSE alive
  BY DEF EventStep, ProcessEvent, NextDueEvent, IsDue
<1>3. e.tick = tick /\ e.tick \in Nat
  BY <1>1, <1>2 DEF FaultInv, Timely, ClockTypeOK, Event
<1>4. QueueTimely' /\ RestartsSoon'
  BY <1>1, <1>2 DEF QueueTimely, RestartsSoon, Redeemed
<1>5. TicketsWait'
  <2>1. SUFFICES ASSUME NEW t \in tickets \ redeemed, Waited(t)'
                 PROVE  Blocked(t)' \/ Freed(t)'
    BY <1>1 DEF TicketsWait
  <2>2. Waited(t) /\ Target(t) \in Nodes /\ Target(t)' = Target(t)
    BY <2>1, <1>1, TargetNode DEF Waited, Redeemed, BridgeTypeOK, Target
  <2>3. CASE Freed(t)
    BY <2>2, <2>3, <1>1, <1>2 DEF Freed, NodesTypeOK
  <2>4. CASE Blocked(t)
    <3>1. PICK f \in events :
            f.id = Target(t) /\ f.tick < t.due + RedeemDelay + MaxRestart
      BY <2>4 DEF Blocked
    <3>2. CASE e = f
      <4>1. IsRestart(e) /\ e.id \in Nodes
        BY <3>1, <3>2, <2>2 DEF IsRestart, Nodes
      <4>2. alive'[Target(t)]
        BY <4>1, <3>1, <3>2, <1>2, <2>2 DEF NodesTypeOK
      <4>3. QED
        BY <4>2, <3>1, <3>2, <1>1, <1>3, <2>2 DEF Freed
    <3>3. CASE e # f
      <4>1. e.id # Target(t)
        BY <3>1, <3>3, <2>2 DEF FaultInv, OneRestart
      <4>2. ~alive'[Target(t)]
        BY <4>1, <2>4, <2>2, <1>2 DEF Blocked, NodesTypeOK
      <4>3. QED
        BY <4>2, <3>1, <3>3, <1>2, <2>2 DEF Blocked
    <3>4. QED
      BY <3>2, <3>3
  <2>5. QED
    BY <2>1, <2>2, <2>3, <2>4 DEF TicketsWait
<1>6. QED
  BY <1>4, <1>5

\* BridgeInv is invariant.
THEOREM BridgeInvariant == Spec => []BridgeInv
<1>1. Init => BridgeInv
  BY DEF Init, ClockInit, BridgeInit, BridgeInv, RestartsSoon, QueueTimely,
         TicketsWait
<1>2. CoreTypeOK /\ FaultInv /\ BridgeInv /\ [Next]_vars => BridgeInv'
  <2> SUFFICES ASSUME CoreTypeOK, FaultInv, BridgeInv, [Next]_vars
               PROVE  BridgeInv'
    OBVIOUS
  <2>1. CASE EventsDone \/ CheckStep \/ UNCHANGED vars
    BY <2>1, BridgeFrame
    DEF EventsDone, CheckStep, Goes, vars, clockVars, nodeVars, bridgeVars
  <2>2. QED
    BY <2>1, NodesStepBridge, BridgeStepBridge, DeliverStepBridge,
       RedeemStepBridge, CrashStepBridge, PartitionStepBridge, EventStepBridge
    DEF Next
<1>3. QED
  BY <1>1, <1>2, TypeCorrect, FaultsInvariant, PTL DEF Spec

\* A ticket waits at most one longest outage beyond its redemption tick: the
\* outage that keeps it from being redeemed began before it was ripe, and the
\* turn after the restart redeems it before the next crash is drawn.
THEOREM TicketsRedeemedInTime == Spec => []RedeemDeadline
<1>1. CoreTypeOK /\ FaultInv /\ BridgeInv => RedeemDeadline
  <2> SUFFICES ASSUME CoreTypeOK, FaultInv, BridgeInv, phase = "check",
                      NEW t \in tickets \ redeemed
               PROVE  tick < t.due + RedeemDelay + MaxRestart
    BY DEF RedeemDeadline
  <2>1. t.due + RedeemDelay \in Nat /\ tick \in Nat
    BY TargetNode, BridgeAssumption
    DEF CoreTypeOK, BridgeTypeOK, ClockTypeOK
  <2>2. CASE ~Waited(t)
    BY <2>1, <2>2, FaultsAssumption DEF Waited, Redeemed
  <2>3. CASE Freed(t)
    BY <2>3 DEF Freed
  <2>4. CASE Blocked(t)
    <3>1. PICK e \in events : e.tick < t.due + RedeemDelay + MaxRestart
      BY <2>4 DEF Blocked
    <3>2. e.tick > tick /\ e.tick \in Nat
      BY DEF FaultInv, Timely, Settled, CoreTypeOK, ClockTypeOK, Event
    <3>3. QED
      BY <2>1, <3>1, <3>2, FaultsAssumption
  <2>5. QED
    BY <2>2, <2>3, <2>4 DEF BridgeInv, TicketsWait
<1>2. QED
  BY <1>1, TypeCorrect, FaultsInvariant, BridgeInvariant, PTL

-----------------------------------------------------------------------------
(* The refinement of BridgeLedger.                                         *)

\* A message originated in the current tick is new to the bridge.
Dated ==
  \A m \in queue \cup tickets :
    m.created <= tick /\ (phase = "bridge" => m.created < tick)

\* A message is in the queue or has left it, for good.
Apart == queue \cap tickets = {}

LedgerInv == Dated /\ Apart

LEMMA LedgerInvStep ==
  ASSUME CoreTypeOK, LedgerInv, [Next]_vars PROVE LedgerInv'
<1> USE DEF CoreTypeOK, LedgerInv
<1>0. /\ tick \in Nat
      /\ \A m \in queue \cup tickets : m.created \in Nat
  BY TargetNode DEF ClockTypeOK, BridgeTypeOK
<1>1. CASE NodesStep
  BY <1>0, <1>1
  DEF NodesStep, Goes, Advance, bridgeVars, Dated, Apart
<1>2. CASE BridgeStep
  <2>1. PICK d \in Draws(Deposit, tick), w \in Draws(Withdrawal, tick),
             x \in Draws(L3Deposit, tick) : Originate(d \cup w \cup x)
    BY <1>2 DEF BridgeStep
  <2>2. \A m \in d \cup w \cup x : m.created = tick
    BY DEF Draws
  <2>3. /\ tick' = tick /\ phase = "bridge" /\ phase' = "deliver"
        /\ queue' = queue \cup d \cup w \cup x /\ tickets' = tickets
    BY <1>2, <2>1 DEF BridgeStep, Goes, Originate, clockVars
  <2>4. QED
    BY <1>0, <2>2, <2>3 DEF Dated, Apart
<1>3. CASE DeliverStep
  BY <1>3
  DEF DeliverStep, Deliver, Remaining, Goes, clockVars, Dated, Apart
<1>4. CASE RedeemStep
  BY <1>4 DEF RedeemStep, Redeem, Goes, clockVars, Dated, Apart
<1>5. CASE CrashStep
  BY <1>5 DEF CrashStep, MaybeCrash, Crash, Schedule, Goes, clockVars,
              bridgeVars, Dated, Apart
<1>6. CASE PartitionStep
  BY <1>6 DEF PartitionStep, MaybePartition, Partition, Schedule, Goes,
              clockVars, bridgeVars, Dated, Apart
<1>7. CASE EventStep
  BY <1>7 DEF EventStep, ProcessEvent, NextDueEvent, Goes, bridgeVars, Dated,
              Apart
<1>8. CASE EventsDone \/ CheckStep \/ UNCHANGED vars
  BY <1>8 DEF EventsDone, CheckStep, Goes, vars, clockVars, bridgeVars, Dated,
              Apart
<1>9. QED
  BY <1>1, <1>2, <1>3, <1>4, <1>5, <1>6, <1>7, <1>8 DEF Next

\* The node of a layer is the target of exactly the messages to that layer.
LEMMA LayerTarget ==
  \A m \in Message : \A l \in {1, 2, 3} :
    Target(m) = LayerNode(l) <=> m.route.to = l
BY TargetNode, LayersDiffer DEF Target

\* Crediting a set of messages pays every layer what is addressed to it.
LEMMA CreditedPays ==
  ASSUME NEW S \in SUBSET Message, deposited' = Credited(S)
  PROVE  [l \in {1, 2, 3} |-> deposited[LayerNode(l)]]' =
           [l \in {1, 2, 3} |-> deposited[LayerNode(l)]
                                + SumValues({m \in S : m.route.to = l})]
<1> SUFFICES ASSUME NEW l \in {1, 2, 3}
             PROVE  deposited'[LayerNode(l)] =
                      deposited[LayerNode(l)]
                      + SumValues({m \in S : m.route.to = l})
  OBVIOUS
<1>1. LayerNode(l) \in Nodes
  BY DEF LayerNode, Nodes, L1, Sequencer, L3Sequencer
<1>2. {m \in S : Target(m) = LayerNode(l)} = {m \in S : m.route.to = l}
  BY LayerTarget
<1>3. QED
  BY <1>1, <1>2 DEF Credited

\* The messages the bridge still owes.
Owed == queue \cup (tickets \ redeemed)

\* A draw originates messages the bridge does not owe yet, and nothing is paid.
LEMMA BridgeStepOriginates ==
  ASSUME CoreTypeOK, LedgerInv, BridgeStep PROVE Ledger!Originate
<1>1. PICK d \in Draws(Deposit, tick), w \in Draws(Withdrawal, tick),
           x \in Draws(L3Deposit, tick) : Originate(d \cup w \cup x)
  BY DEF BridgeStep
<1>2. \A m \in d \cup w \cup x : m.created = tick
  BY DEF Draws
<1>3. \A m \in queue \cup tickets : m.created < tick
  BY DEF LedgerInv, Dated, BridgeStep, Goes
<1>4. (d \cup w \cup x) \cap (queue \cup tickets) = {}
  BY <1>2, <1>3, TargetNode DEF CoreTypeOK, ClockTypeOK, BridgeTypeOK
<1>5. /\ Owed \subseteq Owed'
      /\ Owed' \ Owed = d \cup w \cup x
      /\ sent' = sent + SumValues(d \cup w \cup x)
      /\ UNCHANGED deposited
  BY <1>1, <1>4 DEF Originate, Owed
<1>6. QED
  BY <1>5 DEF Ledger!Originate, Owed

\* Delivery settles the due messages that are not tickets, and only those.
LEMMA DeliverStepSettles ==
  ASSUME CoreTypeOK, LedgerInv, DeliverStep PROVE Ledger!Settle
<1> DEFINE S == {m \in queue : IsDelivered(m, tick) /\ ~m.retryable}
<1>1. /\ Owed' \subseteq Owed
      /\ Owed \ Owed' = S
  BY DEF DeliverStep, Deliver, Remaining, Owed, LedgerInv, Apart, CoreTypeOK,
         BridgeTypeOK
<1>2. S \in SUBSET Message /\ deposited' = Credited(S) /\ sent' = sent
  <2>1. S = {m \in {k \in queue : IsDelivered(k, tick)} : ~m.retryable}
    OBVIOUS
  <2>2. QED
    BY <2>1 DEF DeliverStep, Deliver, CoreTypeOK, BridgeTypeOK
<1>3. QED
  BY <1>1, <1>2, CreditedPays DEF Ledger!Settle, Owed

\* Redemption settles the tickets it marks, and only those.
LEMMA RedeemStepSettles ==
  ASSUME CoreTypeOK, LedgerInv, RedeemStep PROVE Ledger!Settle
<1> DEFINE S == {t \in tickets : CanRedeem(t, tick)}
<1>1. /\ Owed' \subseteq Owed
      /\ Owed \ Owed' = S
  BY DEF RedeemStep, Redeem, CanRedeem, Owed, LedgerInv, Apart
<1>2. S \in SUBSET Message /\ deposited' = Credited(S) /\ sent' = sent
  BY DEF RedeemStep, Redeem, CoreTypeOK, BridgeTypeOK
<1>3. QED
  BY <1>1, <1>2, CreditedPays DEF Ledger!Settle, Owed

\* The bridge implements BridgeLedger: every message that was originated is
\* owed until it is settled, once, by paying the node of its target layer
\* (deliver_bridge_messages, process_retryables).
THEOREM BridgeImplementsLedger == Spec => LedgerSpec
<1>1. Init => LedgerInv
  BY DEF Init, BridgeInit, LedgerInv, Dated, Apart
<1>2. Init => Ledger!Init
  BY DEF Init, BridgeInit, NodesInit, Ledger!Init, LayerNode, L1, Sequencer,
         L3Sequencer, Nodes
<1>3. CoreTypeOK /\ LedgerInv /\ [Next]_vars => [Ledger!Next]_(Ledger!ledgerVars)
  <2> SUFFICES ASSUME CoreTypeOK, LedgerInv, [Next]_vars
               PROVE  [Ledger!Next]_(Ledger!ledgerVars)
    OBVIOUS
  <2>1. CASE BridgeStep
    BY <2>1, BridgeStepOriginates DEF Ledger!Next
  <2>2. CASE DeliverStep \/ RedeemStep
    BY <2>2, DeliverStepSettles, RedeemStepSettles DEF Ledger!Next
  <2>3. CASE \/ NodesStep \/ CrashStep \/ PartitionStep \/ EventStep
             \/ EventsDone \/ CheckStep \/ UNCHANGED vars
    <3>1. UNCHANGED <<bridgeVars, deposited>>
      BY <2>3
      DEF NodesStep, TickNodes, CrashStep, MaybeCrash, PartitionStep,
          MaybePartition, EventStep, ProcessEvent, EventsDone, CheckStep,
          nodeVars, vars
    <3>2. QED
      BY <3>1 DEF bridgeVars, Ledger!ledgerVars
  <2>4. QED
    BY <2>1, <2>2, <2>3 DEF Next
<1>4. QED
  BY <1>1, <1>2, <1>3, LedgerInvStep, TypeCorrect, PTL
  DEF Spec, LedgerSpec, Ledger!Spec

-----------------------------------------------------------------------------
(* Conservation of value.                                                  *)

Value == [m \in Message |-> m.value]

\* The value of a finite set of messages is the sum over their values.
LEMMA SumValuesIsSum ==
  ASSUME NEW S \in SUBSET Message, IsFiniteSet(S)
  PROVE  SumValues(S) = SumOver(Value, S)
<1> DEFINE Values1(g) ==
      [s \in SUBSET S |-> IF s = {} THEN 0 ELSE Pick(s).value + g[s \ {Pick(s)}]]
<1>1. ASSUME NEW g PROVE Values1(g) = Addition(Value, S, g)
  <2>1. \A s \in SUBSET S : s # {} => Value[Pick(s)] = Pick(s).value
    BY DEF Pick, Value
  <2>2. QED
    BY <2>1 DEF Addition
<1>2. SumValues(S) = (CHOOSE g : g = Values1(g))[S]
  BY DEF SumValues, MapThenSumSet, MapThenFoldSet, ValueOf, Pick
<1> DEFINE h == CHOOSE g : g = Values1(g)
<1>3. h = Addition(Value, S, h)
  <2>1. \E g : g = Values1(g)
    <3>1. PICK g : g = Addition(Value, S, g)
      BY AdditionExists
    <3>2. g = Values1(g)
      <4> HIDE DEF Values1
      <4> QED
        BY <1>1, <3>1
    <3>3. QED
      BY <3>2
  <2>2. h = Values1(h)
    <3> HIDE DEF Values1
    <3> QED
      BY <2>1
  <2>3. QED
    BY <1>1, <2>2
<1>4. SumValues(S) = h[S]
  BY <1>2
<1> HIDE DEF h
<1>5. QED
  BY <1>3, <1>4, SumsSolve

\* Messages have values that can be added.
LEMMA MessagesSummable ==
  ASSUME NEW S \in SUBSET Message, IsFiniteSet(S)
  PROVE  Summable(Value, S)
BY DEF Summable, Value, Message

\* Two sets of messages without a common one have the sum of their values.
LEMMA SumValuesOfDisjoint ==
  ASSUME NEW S \in SUBSET Message, NEW T \in SUBSET Message,
         IsFiniteSet(S), IsFiniteSet(T), S \cap T = {}
  PROVE  /\ SumValues(S) \in Nat /\ SumValues(T) \in Nat
         /\ SumValues(S \cup T) = SumValues(S) + SumValues(T)
<1>1. IsFiniteSet(S \cup T) /\ S \cup T \in SUBSET Message
  BY FS_Union
<1>2. Summable(Value, S) /\ Summable(Value, T)
  BY MessagesSummable
<1>3. /\ SumOver(Value, S) \in Nat /\ SumOver(Value, T) \in Nat
      /\ SumOver(Value, S \cup T) = SumOver(Value, S) + SumOver(Value, T)
  BY <1>2, SumIsNat, SumOfDisjoint
<1>4. QED
  BY <1>1, <1>3, SumValuesIsSum

LEMMA SumValuesOfNone == SumValues({}) = 0
BY FS_EmptySet, SumValuesIsSum, SumOfNone

\* The total of five nodes, written out.
LEMMA SumOfNodes ==
  ASSUME NEW v \in [Nodes -> Nat]
  PROVE  SumOver(v, Nodes) = v[0] + v[1] + v[2] + v[3] + v[4]
<1>1. \A s \in SUBSET Nodes : Summable(v, s)
  <2>1. IsFiniteSet(Nodes)
    <3>1. Nodes \in SUBSET Nat /\ \A n \in Nodes : n <= 4
      BY DEF Nodes
    <3>2. QED
      BY <3>1, FS_BoundedSetOfNaturals
  <2>2. QED
    BY <2>1, FS_Subset DEF Summable
<1>2. ASSUME NEW s \in SUBSET Nodes, NEW x \in s
      PROVE  SumOver(v, s) = v[x] + SumOver(v, s \ {x})
  BY <1>1, SumWithout
<1>3. SumOver(v, Nodes) = v[0] + SumOver(v, {1, 2, 3, 4})
  <2>1. Nodes \ {0} = {1, 2, 3, 4} /\ 0 \in Nodes
    BY DEF Nodes
  <2>2. QED
    BY <1>2, <2>1
<1>4. SumOver(v, {1, 2, 3, 4}) = v[1] + SumOver(v, {2, 3, 4})
  <2>1. {1, 2, 3, 4} \in SUBSET Nodes /\ {1, 2, 3, 4} \ {1} = {2, 3, 4}
    BY DEF Nodes
  <2>2. QED
    BY <1>2, <2>1
<1>5. SumOver(v, {2, 3, 4}) = v[2] + SumOver(v, {3, 4})
  <2>1. {2, 3, 4} \in SUBSET Nodes /\ {2, 3, 4} \ {2} = {3, 4}
    BY DEF Nodes
  <2>2. QED
    BY <1>2, <2>1
<1>6. SumOver(v, {3, 4}) = v[3] + SumOver(v, {4})
  <2>1. {3, 4} \in SUBSET Nodes /\ {3, 4} \ {3} = {4}
    BY DEF Nodes
  <2>2. QED
    BY <1>2, <2>1
<1>7. SumOver(v, {4}) = v[4]
  <2>1. {4} \in SUBSET Nodes /\ {4} \ {4} = {} /\ v[4] \in Nat
    BY DEF Nodes
  <2>2. QED
    BY <1>2, <2>1, SumOfNone
<1>8. \A n \in 0 .. 4 : v[n] \in Nat
  BY DEF Nodes
<1>9. QED
  BY <1>3, <1>4, <1>5, <1>6, <1>7, <1>8

LEMMA TotalIsSum ==
  /\ TotalDeposited = SumOver(deposited, Nodes)
  /\ TotalDeposited' = SumOver(deposited', Nodes)
BY DEF TotalDeposited, MapThenSumSet, MapThenFoldSet, SumOver, Addition, Pick

\* A set of messages is worth what it brings to the three layers.
LEMMA SumByTarget ==
  ASSUME NEW S \in SUBSET Message, IsFiniteSet(S)
  PROVE  LET To(n) == SumValues({m \in S : Target(m) = n}) IN
         /\ \A n \in Nodes : To(n) \in Nat
         /\ SumValues(S) = To(0) + To(1) + To(2) + To(3) + To(4)
<1> DEFINE P(n) == {m \in S : Target(m) = n}
           Q(n) == {m \in S : Target(m) >= n}
<1>0. \A m \in S : Target(m) \in Nodes
  BY TargetNode
<1>1. \A n : P(n) \in SUBSET Message /\ Q(n) \in SUBSET Message
             /\ IsFiniteSet(P(n)) /\ IsFiniteSet(Q(n))
  BY FS_Subset
<1>2. ASSUME NEW n \in Nodes
      PROVE  /\ SumValues(P(n)) \in Nat /\ SumValues(Q(n + 1)) \in Nat
             /\ SumValues(Q(n)) = SumValues(P(n)) + SumValues(Q(n + 1))
  <2>1. P(n) \cap Q(n + 1) = {} /\ P(n) \cup Q(n + 1) = Q(n)
    BY <1>0 DEF Nodes
  <2>2. /\ SumValues(P(n)) \in Nat /\ SumValues(Q(n + 1)) \in Nat
        /\ SumValues(P(n) \cup Q(n + 1)) = SumValues(P(n)) + SumValues(Q(n + 1))
    <3> HIDE DEF P, Q
    <3> QED
      BY <1>1, <2>1, SumValuesOfDisjoint
  <2>3. QED
    BY <2>1, <2>2
<1>3. Q(0) = S /\ Q(5) = {}
  BY <1>0 DEF Nodes
<1>4. SumValues(Q(0)) = SumValues(P(0)) + SumValues(Q(1))
  BY <1>2 DEF Nodes
<1>5. SumValues(Q(1)) = SumValues(P(1)) + SumValues(Q(2))
  BY <1>2 DEF Nodes
<1>6. SumValues(Q(2)) = SumValues(P(2)) + SumValues(Q(3))
  BY <1>2 DEF Nodes
<1>7. SumValues(Q(3)) = SumValues(P(3)) + SumValues(Q(4))
  BY <1>2 DEF Nodes
<1>8. SumValues(Q(4)) = SumValues(P(4)) + SumValues(Q(5))
  BY <1>2 DEF Nodes
<1>9. QED
  <2>1. \A n \in Nodes : SumValues(P(n)) \in Nat
    BY <1>2
  <2>2. /\ SumValues(P(0)) \in Nat /\ SumValues(P(1)) \in Nat
        /\ SumValues(P(2)) \in Nat /\ SumValues(P(3)) \in Nat
        /\ SumValues(P(4)) \in Nat
    BY <2>1 DEF Nodes
  <2>3. SumValues(S) = SumValues(P(0)) + SumValues(P(1)) + SumValues(P(2))
                       + SumValues(P(3)) + SumValues(P(4))
    <3>1. SumValues(Q(0)) = SumValues(S) /\ SumValues(Q(5)) = 0
      BY <1>3, SumValuesOfNone
    <3> HIDE DEF P, Q
    <3>2. QED
      BY <1>4, <1>5, <1>6, <1>7, <1>8, <2>2, <3>1
  <2>4. QED
    BY <2>1, <2>3


\* Crediting a set of messages adds their value to the total.
LEMMA CreditedTotal ==
  ASSUME NEW S \in SUBSET Message, IsFiniteSet(S),
         deposited \in [Nodes -> Nat], deposited' = Credited(S)
  PROVE  /\ deposited' \in [Nodes -> Nat]
         /\ SumValues(S) \in Nat
         /\ TotalDeposited \in Nat
         /\ TotalDeposited' = TotalDeposited + SumValues(S)
<1> DEFINE To(n) == SumValues({m \in S : Target(m) = n})
<1>1. /\ \A n \in Nodes : To(n) \in Nat
      /\ SumValues(S) = To(0) + To(1) + To(2) + To(3) + To(4)
  BY SumByTarget
<1>2. \A n \in Nodes : deposited'[n] = deposited[n] + To(n)
  BY DEF Credited
<1> HIDE DEF To
<1>3. deposited' \in [Nodes -> Nat]
  <2>1. \A n \in Nodes : deposited'[n] \in Nat
    BY <1>1, <1>2
  <2>2. QED
    BY <2>1 DEF Credited
<1>4. \A n \in 0 .. 4 : To(n) \in Nat /\ deposited[n] \in Nat
                        /\ deposited'[n] = deposited[n] + To(n)
  BY <1>1, <1>2 DEF Nodes
<1>5. /\ TotalDeposited = deposited[0] + deposited[1] + deposited[2]
                          + deposited[3] + deposited[4]
      /\ TotalDeposited' = deposited'[0] + deposited'[1] + deposited'[2]
                           + deposited'[3] + deposited'[4]
  BY <1>3, TotalIsSum, SumOfNodes
<1>6. /\ To(0) \in Nat /\ To(1) \in Nat /\ To(2) \in Nat /\ To(3) \in Nat
      /\ To(4) \in Nat
      /\ deposited[0] \in Nat /\ deposited'[0] = deposited[0] + To(0)
      /\ deposited[1] \in Nat /\ deposited'[1] = deposited[1] + To(1)
      /\ deposited[2] \in Nat /\ deposited'[2] = deposited[2] + To(2)
      /\ deposited[3] \in Nat /\ deposited'[3] = deposited[3] + To(3)
      /\ deposited[4] \in Nat /\ deposited'[4] = deposited[4] + To(4)
  BY <1>4
<1>7. SumValues(S) \in Nat /\ TotalDeposited \in Nat
  BY <1>1, <1>5, <1>6
<1>8. TotalDeposited' = TotalDeposited + SumValues(S)
  BY <1>1, <1>5, <1>6
<1>9. QED
  BY <1>3, <1>7, <1>8

\* What the conservation of value rests on: both containers are finite, so
\* that their messages can be added up.
ConserveInv ==
  /\ AmountsTypeOK
  /\ IsFiniteSet(queue) /\ IsFiniteSet(tickets)
  /\ Conservation
  /\ NoInflation

LEMMA AmountsAreNumbers ==
  ASSUME CoreTypeOK, ConserveInv
  PROVE  /\ SumValues(queue) \in Nat
         /\ SumValues(tickets \ redeemed) \in Nat
         /\ TotalDeposited \in Nat
<1>1. /\ queue \in SUBSET Message /\ tickets \ redeemed \in SUBSET Message
      /\ IsFiniteSet(tickets \ redeemed)
  BY FS_Subset DEF CoreTypeOK, BridgeTypeOK, ConserveInv
<1>2. SumValues(queue) \in Nat /\ SumValues(tickets \ redeemed) \in Nat
  BY <1>1, MessagesSummable, SumValuesIsSum, SumIsNat DEF ConserveInv
<1>3. deposited \in [Nodes -> Nat]
  BY DEF ConserveInv, AmountsTypeOK
<1>4. TotalDeposited = deposited[0] + deposited[1] + deposited[2]
                       + deposited[3] + deposited[4]
  BY <1>3, TotalIsSum, SumOfNodes
<1>5. QED
  BY <1>2, <1>3, <1>4 DEF Nodes

\* At most one message is drawn on a route.
LEMMA DrawsFinite ==
  ASSUME NEW r \in Routes, NEW now \in Nat, NEW B \in Draws(r, now)
  PROVE  B \in SUBSET Message /\ IsFiniteSet(B)
<1>1. B \subseteq Message
  BY DrawsType
<1>2. B = {} \/ \E m : B = {m}
  BY DEF Draws
<1>3. IsFiniteSet(B)
  BY <1>2, FS_EmptySet, FS_Singleton
<1>4. QED
  BY <1>1, <1>3

\* What is originated is new to the queue and counted as sent
\* (maybe_bridge_message).
LEMMA BridgeStepConserves ==
  ASSUME CoreTypeOK, LedgerInv, ConserveInv, BridgeStep PROVE ConserveInv'
<1>1. PICK d \in Draws(Deposit, tick), w \in Draws(Withdrawal, tick),
           x \in Draws(L3Deposit, tick) : Originate(d \cup w \cup x)
  BY DEF BridgeStep
<1> DEFINE B == d \cup w \cup x
<1>2. B \in SUBSET Message /\ IsFiniteSet(B)
  <2>1. tick \in Nat
    BY DEF CoreTypeOK, ClockTypeOK
  <2>2. /\ d \in SUBSET Message /\ IsFiniteSet(d)
        /\ w \in SUBSET Message /\ IsFiniteSet(w)
        /\ x \in SUBSET Message /\ IsFiniteSet(x)
    BY <2>1, DrawsFinite DEF Routes
  <2>3. IsFiniteSet(d \cup w)
    BY <2>2, FS_Union
  <2>4. IsFiniteSet((d \cup w) \cup x)
    BY <2>2, <2>3, FS_Union
  <2>5. QED
    BY <2>2, <2>4
<1>3. queue \cap B = {}
  <2>1. \A m \in B : m.created = tick
    BY DEF Draws
  <2>2. \A m \in queue : m.created < tick
    BY DEF LedgerInv, Dated, BridgeStep, Goes
  <2>3. QED
    BY <2>1, <2>2 DEF CoreTypeOK, ClockTypeOK
<1> HIDE DEF B
<1>4. /\ queue' = queue \cup B /\ sent' = sent + SumValues(B)
      /\ UNCHANGED <<tickets, redeemed, deposited, firstSeen>>
  BY <1>1 DEF B, Originate, BridgeStep
<1>5. queue \in SUBSET Message /\ IsFiniteSet(queue)
  BY DEF CoreTypeOK, BridgeTypeOK, ConserveInv
<1>6. /\ SumValues(B) \in Nat
      /\ SumValues(queue \cup B) = SumValues(queue) + SumValues(B)
  BY <1>2, <1>3, <1>5, SumValuesOfDisjoint
<1>7. IsFiniteSet(queue')
  BY <1>2, <1>4, <1>5, FS_Union
<1>8. UNCHANGED <<TotalDeposited, SumValues(tickets \ redeemed)>>
  BY <1>4, TotalIsSum
<1>9. sent \in Nat /\ AmountsTypeOK' /\ IsFiniteSet(tickets') /\ NoInflation'
  BY <1>4, <1>6 DEF ConserveInv, AmountsTypeOK, NoInflation
<1>10. Conservation'
  <2>1. sent = TotalDeposited + SumValues(queue) + SumValues(tickets \ redeemed)
    BY DEF ConserveInv, Conservation
  <2>2. sent' = TotalDeposited' + SumValues(queue')
                + SumValues(tickets' \ redeemed')
    BY <1>4, <1>6, <1>8, <1>9, <2>1, AmountsAreNumbers
  <2>3. QED
    BY <2>2 DEF Conservation, SumValues
<1>11. QED
  BY <1>7, <1>9, <1>10 DEF ConserveInv

\* A due message leaves the queue for the tickets or for a deposit, never for
\* both (deliver_bridge_messages).
LEMMA DeliverStepConserves ==
  ASSUME CoreTypeOK, LedgerInv, ConserveInv, DeliverStep PROVE ConserveInv'
<1> DEFINE New == {m \in queue : IsDelivered(m, tick) /\ m.retryable}
           Paid == {m \in queue : IsDelivered(m, tick) /\ ~m.retryable}
           Kept == Remaining(tick)
           Open == tickets \ redeemed
<1>1. /\ queue' = Kept /\ tickets' = tickets \cup New
      /\ deposited' = Credited(Paid)
      /\ UNCHANGED <<redeemed, sent, firstSeen>>
  <2>1. Paid = {m \in {k \in queue : IsDelivered(k, tick)} : ~m.retryable}
    OBVIOUS
  <2>2. QED
    BY <2>1 DEF DeliverStep, Deliver
<1>2. /\ queue = Kept \cup (New \cup Paid)
      /\ Kept \cap (New \cup Paid) = {} /\ New \cap Paid = {}
      /\ Open \cap New = {}
      /\ (tickets \cup New) \ redeemed = Open \cup New
  BY DEF Remaining, LedgerInv, Apart, CoreTypeOK, BridgeTypeOK
<1>3. /\ Kept \in SUBSET Message /\ IsFiniteSet(Kept)
      /\ New \in SUBSET Message /\ IsFiniteSet(New)
      /\ Paid \in SUBSET Message /\ IsFiniteSet(Paid)
      /\ New \cup Paid \in SUBSET Message /\ IsFiniteSet(New \cup Paid)
      /\ Open \in SUBSET Message /\ IsFiniteSet(Open)
  <2>1. /\ Kept \subseteq queue /\ New \subseteq queue /\ Paid \subseteq queue
        /\ New \cup Paid \subseteq queue /\ Open \subseteq tickets
    BY DEF Remaining
  <2>2. /\ queue \subseteq Message /\ IsFiniteSet(queue)
        /\ tickets \subseteq Message /\ IsFiniteSet(tickets)
    BY DEF CoreTypeOK, BridgeTypeOK, ConserveInv
  <2> HIDE DEF Kept, New, Paid, Open
  <2>3. QED
    BY <2>1, <2>2, FS_Subset
<1> HIDE DEF Kept, New, Paid, Open
<1>4. /\ SumValues(queue) = SumValues(Kept) + SumValues(New \cup Paid)
      /\ SumValues(New \cup Paid) = SumValues(New) + SumValues(Paid)
      /\ SumValues(Open \cup New) = SumValues(Open) + SumValues(New)
      /\ SumValues(Kept) \in Nat /\ SumValues(New) \in Nat
      /\ SumValues(Open) \in Nat /\ SumValues(Paid) \in Nat
  BY <1>2, <1>3, SumValuesOfDisjoint
<1>5. /\ deposited' \in [Nodes -> Nat] /\ TotalDeposited \in Nat
      /\ TotalDeposited' = TotalDeposited + SumValues(Paid)
  BY <1>1, <1>3, CreditedTotal DEF ConserveInv, AmountsTypeOK
<1>6. IsFiniteSet(queue') /\ IsFiniteSet(tickets')
  BY <1>1, <1>3, FS_Union DEF ConserveInv
<1>7. AmountsTypeOK' /\ NoInflation'
  BY <1>1, <1>5 DEF ConserveInv, AmountsTypeOK, NoInflation
<1>8. Conservation'
  <2>1. sent = TotalDeposited + SumValues(queue) + SumValues(Open)
    BY DEF ConserveInv, Conservation, Open
  <2>2. tickets' \ redeemed' = Open \cup New
    BY <1>1, <1>2
  <2>3. sent' = TotalDeposited' + SumValues(queue')
                + SumValues(tickets' \ redeemed')
    <3>1. sent = TotalDeposited + (SumValues(Kept) + (SumValues(New)
                   + SumValues(Paid))) + SumValues(Open)
      BY <1>4, <2>1
    <3>2. sent = (TotalDeposited + SumValues(Paid)) + SumValues(Kept)
                   + (SumValues(Open) + SumValues(New))
      BY <1>4, <1>5, <3>1
    <3>3. sent' = TotalDeposited' + SumValues(Kept) + SumValues(Open \cup New)
      BY <1>1, <1>4, <1>5, <3>2
    <3>4. QED
      BY <1>1, <2>2, <3>3
  <2>4. QED
    BY <2>3 DEF Conservation, SumValues
<1>9. QED
  BY <1>6, <1>7, <1>8 DEF ConserveInv

\* A ticket is marked in the step that pays it (process_retryables).
LEMMA RedeemStepConserves ==
  ASSUME CoreTypeOK, ConserveInv, RedeemStep PROVE ConserveInv'
<1> DEFINE Paid == {t \in tickets : CanRedeem(t, tick)}
           Open == tickets \ redeemed
           Left == Open \ Paid
<1>1. /\ redeemed' = redeemed \cup Paid /\ deposited' = Credited(Paid)
      /\ UNCHANGED <<queue, tickets, sent, firstSeen>>
  BY DEF RedeemStep, Redeem
<1>2. /\ Open = Left \cup Paid /\ Left \cap Paid = {}
      /\ tickets \ (redeemed \cup Paid) = Left
  BY DEF CanRedeem
<1>3. /\ Left \in SUBSET Message /\ IsFiniteSet(Left)
      /\ Paid \in SUBSET Message /\ IsFiniteSet(Paid)
  <2>1. Left \subseteq tickets /\ Paid \subseteq tickets
    OBVIOUS
  <2>2. tickets \subseteq Message /\ IsFiniteSet(tickets)
    BY DEF CoreTypeOK, BridgeTypeOK, ConserveInv
  <2> HIDE DEF Left, Paid
  <2>3. QED
    BY <2>1, <2>2, FS_Subset
<1>4. sent = TotalDeposited + SumValues(queue) + SumValues(Open)
  BY DEF ConserveInv, Conservation
<1> HIDE DEF Left, Paid, Open
<1>5. /\ SumValues(Open) = SumValues(Left) + SumValues(Paid)
      /\ SumValues(Left) \in Nat /\ SumValues(Paid) \in Nat
  BY <1>2, <1>3, SumValuesOfDisjoint
<1>6. /\ deposited' \in [Nodes -> Nat] /\ TotalDeposited \in Nat
      /\ TotalDeposited' = TotalDeposited + SumValues(Paid)
  BY <1>1, <1>3, CreditedTotal DEF ConserveInv, AmountsTypeOK
<1>7. AmountsTypeOK' /\ NoInflation' /\ IsFiniteSet(queue') /\ IsFiniteSet(tickets')
  BY <1>1, <1>6 DEF ConserveInv, AmountsTypeOK, NoInflation
<1>8. Conservation'
  <2>1. tickets' \ redeemed' = Left
    BY <1>1, <1>2
  <2>2. UNCHANGED SumValues(queue) /\ SumValues(queue) \in Nat
    BY <1>1, AmountsAreNumbers DEF SumValues
  <2>3. sent' = TotalDeposited' + SumValues(queue')
                + SumValues(tickets' \ redeemed')
    <3>1. sent = (TotalDeposited + SumValues(Paid)) + SumValues(queue)
                   + SumValues(Left)
      BY <1>4, <1>5, <1>6, <2>2
    <3>2. sent' = TotalDeposited' + SumValues(queue) + SumValues(Left)
      BY <1>1, <1>6, <3>1
    <3>3. QED
      BY <1>1, <2>1, <3>2
  <2>4. QED
    BY <2>3 DEF Conservation, SumValues
<1>9. QED
  BY <1>7, <1>8 DEF ConserveInv

\* The inflation alarm compares the deposits with what was sent, and these
\* differ by what is still on its way (check_invariants).
LEMMA CheckStepConserves ==
  ASSUME CoreTypeOK, ConserveInv, CheckStep PROVE ConserveInv'
<1>1. UNCHANGED <<deposited, queue, tickets, redeemed, sent>>
  BY DEF CheckStep, nodeVars, bridgeVars
<1>2. ~(TotalDeposited > sent)
  BY AmountsAreNumbers DEF ConserveInv, Conservation
<1>3. NoInflation'
  BY <1>2 DEF CheckStep, CheckInvariants, Raised, Alarms, ConserveInv,
              NoInflation
<1>4. UNCHANGED <<TotalDeposited, SumValues(queue),
                  SumValues(tickets \ redeemed)>>
  BY <1>1, TotalIsSum DEF SumValues
<1>5. QED
  BY <1>1, <1>3, <1>4 DEF ConserveInv, AmountsTypeOK, Conservation

\* ConserveInv is invariant.
THEOREM ConserveInvariant == Spec => [](LedgerInv /\ ConserveInv)
<1>1. Init => LedgerInv /\ ConserveInv
  <2> SUFFICES ASSUME Init PROVE LedgerInv /\ ConserveInv
    OBVIOUS
  <2>1. /\ queue = {} /\ tickets = {} /\ redeemed = {} /\ sent = 0
        /\ deposited = [n \in Nodes |-> 0]
        /\ firstSeen["bridge_inflation"] = 0
    BY DEF Init, BridgeInit, NodesInit, CheckerInit, Alarms
  <2>2. deposited \in [Nodes -> Nat] /\ \A n \in 0 .. 4 : deposited[n] = 0
    BY <2>1 DEF Nodes
  <2>3. TotalDeposited = 0
    BY <2>2, TotalIsSum, SumOfNodes
  <2>4. SumValues(queue) = 0 /\ SumValues(tickets \ redeemed) = 0
    BY <2>1, SumValuesOfNone
  <2>5. QED
    BY <2>1, <2>2, <2>3, <2>4, FS_EmptySet
    DEF LedgerInv, Dated, Apart, ConserveInv, AmountsTypeOK, Conservation,
        NoInflation
<1>2. CoreTypeOK /\ LedgerInv /\ ConserveInv /\ [Next]_vars => ConserveInv'
  <2> SUFFICES ASSUME CoreTypeOK, LedgerInv, ConserveInv, [Next]_vars
               PROVE  ConserveInv'
    OBVIOUS
  <2>1. CASE \/ NodesStep \/ CrashStep \/ PartitionStep \/ EventStep
             \/ EventsDone \/ UNCHANGED vars
    <3>1. UNCHANGED <<bridgeVars, deposited, firstSeen>>
      BY <2>1
      DEF NodesStep, TickNodes, CrashStep, MaybeCrash, PartitionStep,
          MaybePartition, EventStep, ProcessEvent, EventsDone, nodeVars, vars
    <3>2. UNCHANGED <<TotalDeposited, SumValues(queue),
                      SumValues(tickets \ redeemed)>>
      BY <3>1, TotalIsSum DEF bridgeVars, SumValues
    <3>3. QED
      BY <3>1, <3>2 DEF bridgeVars, ConserveInv, AmountsTypeOK, Conservation,
                        NoInflation
  <2>2. QED
    BY <2>1, BridgeStepConserves, DeliverStepConserves, RedeemStepConserves,
       CheckStepConserves DEF Next
<1>3. QED
  BY <1>1, <1>2, LedgerInvStep, TypeCorrect, PTL DEF Spec

\* What was sent is deposited, in the queue or in an open ticket, however many
\* messages there are (deliver_bridge_messages, process_retryables).
THEOREM ValueConserved == Spec => []Conservation
BY ConserveInvariant, PTL DEF ConserveInv

\* The inflation alarm never fires, whatever the seed and the faults.
THEOREM NeverInflated == Spec => []NoInflation
BY ConserveInvariant, PTL DEF ConserveInv

\* TypeOK is invariant: deposits and totals are numbers, too.
THEOREM AmountsCorrect == Spec => []TypeOK
BY ConserveInvariant, TypeCorrect, PTL DEF ConserveInv, TypeOK

=============================================================================

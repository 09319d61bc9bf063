-------------------------- MODULE SimulatorProofs ---------------------------
(***************************************************************************)
(* Theorems about the simulator for every value of its constants: any      *)
(* number of ticks and faults, any delays, masks, draws and thresholds.    *)
(***************************************************************************)
EXTENDS Simulator, TLAPS

-----------------------------------------------------------------------------
(* Type correctness.                                                       *)

\* The cost of a batch or an assertion never makes a balance negative.
LEMMA SaturatingType ==
  ASSUME NEW a \in Nat, NEW b \in Nat
  PROVE  Saturating(a, b) \in Nat
BY DEF Saturating

\* The roles are nodes, and different ones.
LEMMA Roles ==
  /\ L1 \in Nodes /\ Sequencer \in Nodes /\ BatchPoster \in Nodes
  /\ Validator \in Nodes /\ L3Sequencer \in Nodes
  /\ FeeNodes \subseteq Nodes
  /\ Nodes \subseteq Nat
  /\ L1 # Sequencer /\ L1 # BatchPoster /\ L1 # Validator /\ L1 # L3Sequencer
BY DEF L1, Sequencer, BatchPoster, Validator, L3Sequencer, Nodes, FeeNodes

\* Ticking the nodes keeps the types of their fields (SimNode::tick).
LEMMA TickNodesType ==
  ASSUME NodesTypeOK,
         NEW tx \in 0 .. MaxTx, NEW tx3 \in 0 .. MaxL3Tx, NEW swing \in Swings,
         NEW posts \in Posts, NEW asserts \in Asserts,
         TickNodes(tx, tx3, swing, posts, asserts)
  PROVE  NodesTypeOK'
<1> USE NodesAssumption, Roles DEF NodesTypeOK
<1>1. alive' \in [Nodes -> BOOLEAN]
  BY DEF TickNodes
<1>2. height' \in [Nodes -> Nat]
  BY DEF TickNodes, NextHeight
<1>3. pending' \in [Nodes -> Nat]
  <2>1. Received(Sequencer, tx) \in Nat /\ Received(L3Sequencer, tx3) \in Nat
    BY DEF Received
  <2>2. Forwarded(Received(Sequencer, tx)) \in Nat
    BY <2>1 DEF Forwarded
  <2>3. QED
    BY <2>1, <2>2 DEF TickNodes
<1>4. gas' \in [Nodes -> Nat]
  <2>1. \A n \in FeeNodes : swing[n] \in Int
    BY DEF Swings
  <2>2. \A n \in Nodes : NextGas(n, swing) \in Nat
    BY <2>1 DEF NextGas
  <2>3. QED
    BY <2>2 DEF TickNodes
<1>5. balance' \in [Nodes -> Nat]
  <2>1. TxCost * pending[BatchPoster] \in Nat
    OBVIOUS
  <2>2. Saturating(balance[BatchPoster], TxCost * pending[BatchPoster]) \in Nat
    BY <2>1, SaturatingType
  <2>4. Saturating(balance[Validator], StakeCost) \in Nat
    BY SaturatingType
  <2>3. QED
    BY <2>2, <2>4 DEF TickNodes, BatchPoster, Validator
<1>6. lastBatch' \in Nat /\ lastAssertion' \in Nat
  BY DEF TickNodes
<1>7. QED
  BY <1>1, <1>2, <1>3, <1>4, <1>5, <1>6

\* The messages a tick may originate are messages (maybe_bridge_message).
LEMMA DrawsType ==
  ASSUME NEW r \in Routes, NEW now \in Nat, NEW B \in Draws(r, now)
  PROVE  B \subseteq Message
BY BridgeAssumption DEF Draws, Message

\* The id of a heal is never that of a restart (maybe_inject_fault).
LEMMA HealIdType ==
  ASSUME NEW a \in Nodes, NEW b \in Nodes
  PROVE  HealId(a, b) \in Nat /\ HealId(a, b) >= 1000
BY DEF Nodes, HealId

\* A recorded fault extends the log by a fault (maybe_inject_fault).
LEMMA RecordType ==
  ASSUME NEW f \in CrashFault \cup PartitionFault, FaultsTypeOK, Record(f)
  PROVE  faultLog' \in Seq(CrashFault \cup PartitionFault)
BY DEF Record, FaultsTypeOK

\* Scheduling and popping keep the heap's type (schedule, next_due_event).
LEMMA ScheduleType ==
  ASSUME ClockTypeOK, NEW at \in Nat, NEW id \in Nat, Schedule(at, id)
  PROVE  ClockTypeOK'
BY DEF ClockTypeOK, Schedule, Event

\* CoreTypeOK is invariant: every handler keeps the types of the state it
\* changes (Simulator::run).
THEOREM TypeCorrect == Spec => []CoreTypeOK
<1> USE DEF CoreTypeOK
<1>1. Init => CoreTypeOK
  BY NodesAssumption, SimulatorAssumption, Roles
  DEF Init, ClockInit, ClockTypeOK, NodesInit, NodesTypeOK, BridgeInit,
      BridgeTypeOK, FaultsInit, FaultsTypeOK, CheckerInit, CheckerTypeOK,
      Phases
<1>2. CoreTypeOK /\ [Next]_vars => CoreTypeOK'
  <2> SUFFICES ASSUME CoreTypeOK, [Next]_vars PROVE CoreTypeOK'
    OBVIOUS
  <2> USE DEF Goes, Phases
  <2>1. CASE NodesStep
    <3>1. PICK tx \in 0 .. MaxTx, tx3 \in 0 .. MaxL3Tx, swing \in Swings,
               posts \in Posts, asserts \in Asserts :
            /\ TickNodes(tx, tx3, swing, posts, asserts)
            /\ firstPost' = First(firstPost, posts)
            /\ firstAssert' = First(firstAssert, asserts)
      BY <2>1 DEF NodesStep
    <3>2. NodesTypeOK'
      BY <3>1, TickNodesType
    <3>3. ClockTypeOK' /\ tick' <= MaxTicks
      BY <2>1, SimulatorAssumption DEF NodesStep, Advance, ClockTypeOK
    <3>4. firstPost' \in Nat /\ firstAssert' \in Nat
      BY <3>1 DEF First, ClockTypeOK
    <3>5. BridgeTypeOK' /\ FaultsTypeOK' /\ CheckerTypeOK' /\ phase' \in Phases
      BY <2>1 DEF NodesStep, bridgeVars, faultVars, BridgeTypeOK, FaultsTypeOK,
                  CheckerTypeOK
    <3>6. QED
      BY <3>2, <3>3, <3>4, <3>5
  <2>2. CASE BridgeStep
    <3>1. PICK d \in Draws(Deposit, tick), w \in Draws(Withdrawal, tick),
               x \in Draws(L3Deposit, tick) : Originate(d \cup w \cup x)
      BY <2>2 DEF BridgeStep
    <3>2. d \cup w \cup x \subseteq Message
      BY DrawsType DEF Routes, ClockTypeOK
    <3>3. BridgeTypeOK'
      BY <3>1, <3>2 DEF Originate, BridgeTypeOK
    <3>4. QED
      BY <2>2, <3>3 DEF BridgeStep, BridgeTypeOK, NodesTypeOK, ClockTypeOK,
        FaultsTypeOK, CheckerTypeOK, clockVars, faultVars, history
  <2>3. CASE DeliverStep
    <3>1. BridgeTypeOK'
      BY <2>3 DEF DeliverStep, Deliver, Remaining, BridgeTypeOK
    <3>2. QED
      BY <2>3, <3>1 DEF DeliverStep, NodesTypeOK, ClockTypeOK, FaultsTypeOK,
        CheckerTypeOK, clockVars, faultVars, history
  <2>4. CASE RedeemStep
    <3>1. BridgeTypeOK'
      BY <2>4 DEF RedeemStep, Redeem, BridgeTypeOK
    <3>2. QED
      BY <2>4, <3>1 DEF RedeemStep, NodesTypeOK, ClockTypeOK, FaultsTypeOK,
        CheckerTypeOK, clockVars, faultVars, history
  <2>5. CASE CrashStep
    <3>0. BridgeTypeOK' /\ CheckerTypeOK' /\ phase' \in Phases
          /\ firstPost' \in Nat /\ firstAssert' \in Nat
      BY <2>5 DEF CrashStep, BridgeTypeOK, CheckerTypeOK, bridgeVars, history
    <3>1. CASE UNCHANGED <<faultLog, alive, clockVars>>
      BY <2>5, <3>0, <3>1 DEF CrashStep, MaybeCrash, NodesTypeOK, ClockTypeOK,
        FaultsTypeOK, clockVars
    <3>2. ASSUME NEW n \in CrashCandidates, NEW delay \in RestartDelays,
                 Crash(n, delay)
          PROVE  CoreTypeOK'
      <4>1. n \in Nodes /\ n \in Nat /\ tick + delay \in Nat
        BY FaultsAssumption, Roles
        DEF CrashCandidates, RestartDelays, ClockTypeOK
      <4>2. [kind |-> "crash", node |-> n, at |-> tick, until |-> tick + delay]
              \in CrashFault
        BY <4>1 DEF CrashFault, ClockTypeOK
      <4>3. FaultsTypeOK'
        BY <2>5, <3>2, <4>2, RecordType
        DEF Crash, CrashStep, MaybeCrash, FaultsTypeOK
      <4>4. ClockTypeOK' /\ tick' = tick
        BY <3>2, <4>1, ScheduleType DEF Crash, Schedule, clockVars, ClockTypeOK
      <4>5. alive' \in [Nodes -> BOOLEAN]
        BY <3>2 DEF Crash, NodesTypeOK
      <4>6. QED
        BY <2>5, <3>0, <4>3, <4>4, <4>5 DEF CrashStep, MaybeCrash, NodesTypeOK
    <3>3. QED
      BY <2>5, <3>1, <3>2 DEF CrashStep, MaybeCrash
  <2>6. CASE PartitionStep
    <3>0. BridgeTypeOK' /\ CheckerTypeOK' /\ phase' \in Phases
          /\ firstPost' \in Nat /\ firstAssert' \in Nat /\ NodesTypeOK'
      BY <2>6 DEF PartitionStep, MaybePartition, BridgeTypeOK, CheckerTypeOK,
        NodesTypeOK, bridgeVars, nodeVars, history
    <3>1. CASE UNCHANGED <<partitions, faultLog, clockVars>>
      BY <2>6, <3>0, <3>1 DEF PartitionStep, MaybePartition, ClockTypeOK,
        FaultsTypeOK, clockVars
    <3>2. ASSUME NEW p \in PartitionPairs, NEW delay \in HealDelays,
                 Partition(p[1], p[2], delay)
          PROVE  CoreTypeOK'
      <4>0. p[1] \in Nodes /\ p[2] \in Nodes
        BY FaultsAssumption
      <4>1. tick + delay \in Nat /\ HealId(p[1], p[2]) \in Nat
        BY <4>0, HealIdType, FaultsAssumption DEF HealDelays, ClockTypeOK
      <4>2. [kind |-> "partition", a |-> p[1], b |-> p[2], at |-> tick,
             until |-> tick + delay] \in PartitionFault
        BY <4>0, <4>1 DEF PartitionFault, ClockTypeOK
      <4>3. faultLog' \in Seq(CrashFault \cup PartitionFault)
        BY <3>2, <4>2, RecordType DEF Partition
      <4>4. ClockTypeOK' /\ tick' = tick
        BY <3>2, <4>1, ScheduleType
        DEF Partition, Schedule, clockVars, ClockTypeOK
      <4>5. partitions' \subseteq Nodes \X Nodes
        BY <3>2, <4>0 DEF Partition, PartitionLinks, Cross, FaultsTypeOK
      <4>6. QED
        BY <2>6, <3>0, <4>3, <4>4, <4>5
        DEF PartitionStep, MaybePartition, FaultsTypeOK
    <3>3. QED
      BY <2>6, <3>1, <3>2 DEF PartitionStep, MaybePartition
  <2>7. CASE EventStep
    <3>1. PICK e \in events :
            /\ NextDueEvent(e)
            /\ IF IsRestart(e)
               THEN /\ alive' = IF e.id \in Nodes
                                THEN [alive EXCEPT ![e.id] = TRUE] ELSE alive
                    /\ UNCHANGED partitions
               ELSE /\ HealAll
                    /\ UNCHANGED alive
      BY <2>7 DEF EventStep, ProcessEvent
    <3>2. ClockTypeOK' /\ tick' = tick
      BY <3>1 DEF NextDueEvent, ClockTypeOK
    <3>3. alive' \in [Nodes -> BOOLEAN] /\ partitions' \subseteq Nodes \X Nodes
      BY <3>1 DEF NodesTypeOK, FaultsTypeOK, HealAll
    <3>4. QED
      BY <2>7, <3>2, <3>3 DEF EventStep, ProcessEvent, NodesTypeOK, FaultsTypeOK,
        BridgeTypeOK, CheckerTypeOK, bridgeVars, history
  <2>8. CASE EventsDone
    BY <2>8 DEF EventsDone, ClockTypeOK, NodesTypeOK, BridgeTypeOK, FaultsTypeOK,
      CheckerTypeOK, clockVars, nodeVars, bridgeVars, faultVars, history
  <2>9. CASE CheckStep
    <3>1. CheckerTypeOK'
      BY <2>9 DEF CheckStep, CheckInvariants, CheckerTypeOK, ClockTypeOK
    <3>2. QED
      BY <2>9, <3>1 DEF CheckStep, ClockTypeOK, NodesTypeOK, BridgeTypeOK,
        FaultsTypeOK, clockVars, nodeVars, bridgeVars, faultVars, history
  <2>10. CASE UNCHANGED vars
    BY <2>10 DEF vars, ClockTypeOK, NodesTypeOK, BridgeTypeOK, FaultsTypeOK,
      CheckerTypeOK, clockVars, nodeVars, bridgeVars, faultVars, history
  <2>11. QED
    BY <2>1, <2>2, <2>3, <2>4, <2>5, <2>6, <2>7, <2>8, <2>9, <2>10 DEF Next
<1>3. QED
  BY <1>1, <1>2, PTL DEF Spec

-----------------------------------------------------------------------------
(* The fault log and the heap say which nodes are down.                    *)

\* A node is down exactly while a restart of it is pending, and only one is.
OneRestart ==
  /\ \A n \in Nodes : ~alive[n] <=> \E e \in events : e.id = n
  /\ \A e, f \in events : e.id \in Nodes /\ e.id = f.id => e = f

IsCrashOf(i, n, at) ==
  /\ Applies(i - 1)
  /\ faultLog[i].kind = "crash" /\ faultLog[i].node = n
  /\ faultLog[i].until = at

IsPartitionOf(i, p, at) ==
  /\ Applies(i - 1)
  /\ faultLog[i].kind = "partition"
  /\ {faultLog[i].a, faultLog[i].b} = {p[1], p[2]}
  /\ faultLog[i].until = at

\* The pending restarts are those of the applied crashes in the log.
RestartsLogged ==
  /\ \A e \in events : e.id \in Nodes =>
       \E i \in DOMAIN faultLog : IsCrashOf(i, e.id, e.tick)
  /\ \A i \in DOMAIN faultLog, n \in Nodes, at \in Nat :
       IsCrashOf(i, n, at) /\ at > tick =>
         \E e \in events : e.id = n /\ e.tick = at

\* Every cut link waits for the heal of an applied partition of it.
HealsLogged ==
  \A p \in partitions : \E e \in events :
    /\ ~IsRestart(e)
    /\ \E i \in DOMAIN faultLog : IsPartitionOf(i, p, e.tick)

\* Nothing is overdue, and nothing is due once a turn has been completed.
Timely ==
  /\ \A e \in events : e.tick >= tick
  /\ Settled => \A e \in events : e.tick > tick

FaultInv == OneRestart /\ RestartsLogged /\ HealsLogged /\ Timely

\* Recording a fault appends it to the log and leaves the rest alone.
LEMMA RecordEffect ==
  ASSUME FaultsTypeOK, NEW f, Record(f)
  PROVE  /\ DOMAIN faultLog = 1 .. Len(faultLog) /\ Len(faultLog) \in Nat
         /\ DOMAIN faultLog' = 1 .. Len(faultLog) + 1
         /\ faultLog'[Len(faultLog) + 1] = f
         /\ \A i \in DOMAIN faultLog : faultLog'[i] = faultLog[i]
BY DEF Record, FaultsTypeOK

\* A handler that leaves the faults, the nodes' liveness and the heap alone,
\* and does not move the clock, keeps the invariant.
LEMMA FaultInvFrame ==
  ASSUME FaultInv, Settled' => Settled,
         UNCHANGED <<tick, events, alive, faultLog, partitions, mask>>
  PROVE  FaultInv'
BY DEF FaultInv, OneRestart, RestartsLogged, HealsLogged, Timely, IsCrashOf,
       IsPartitionOf, Applies, IsRestart

\* An applied crash schedules the only restart of its node.
LEMMA CrashKeeps ==
  ASSUME CoreTypeOK, FaultInv, ~Settled', UNCHANGED <<partitions, mask>>,
         NEW n \in CrashCandidates, NEW delay \in RestartDelays, Crash(n, delay)
  PROVE  FaultInv'
<1> USE DEF CoreTypeOK
<1>a. PICK new : new = Len(faultLog) + 1
  OBVIOUS
<1>b. PICK due : due = tick + delay
  OBVIOUS
<1>c. PICK event : event = [tick |-> due, id |-> n, seq |-> scheduled]
  OBVIOUS
<1>0. /\ n \in Nodes /\ n < 1000 /\ alive[n] /\ tick \in Nat
      /\ delay \in Nat /\ delay > 0 /\ due \in Nat /\ due > tick
  BY <1>b, FaultsAssumption
  DEF CrashCandidates, RestartDelays, ClockTypeOK, Nodes
<1>1. /\ DOMAIN faultLog = 1 .. Len(faultLog) /\ Len(faultLog) \in Nat
      /\ DOMAIN faultLog' = 1 .. new
      /\ faultLog'[new] = [kind |-> "crash", node |-> n, at |-> tick,
                            until |-> due]
      /\ \A i \in DOMAIN faultLog : faultLog'[i] = faultLog[i]
  BY <1>a, <1>b, RecordEffect DEF Crash
<1>2. /\ \A i : Applies(i)' = Applies(i)
      /\ \A i \in DOMAIN faultLog : i \in DOMAIN faultLog' /\ i # new
      /\ new \in DOMAIN faultLog'
      /\ new - 1 = Len(faultLog)
  BY <1>a, <1>1 DEF Applies
<1>3. /\ \A i \in DOMAIN faultLog : \A m, at :
           IsCrashOf(i, m, at)' <=> IsCrashOf(i, m, at)
      /\ \A i \in DOMAIN faultLog : \A p, at :
           IsPartitionOf(i, p, at)' <=> IsPartitionOf(i, p, at)
  BY <1>1, <1>2 DEF IsCrashOf, IsPartitionOf
<1>4. CASE Applies(Len(faultLog))
  <2>1. /\ alive' = [alive EXCEPT ![n] = FALSE]
        /\ events' = events \cup {event}
        /\ tick' = tick
    BY <1>4, <1>b, <1>c DEF Crash, Schedule
  <2>2. OneRestart'
    <3>1. ~\E e \in events : e.id = n
      BY <1>0 DEF FaultInv, OneRestart
    <3>2. event.id = n
      BY <1>c
    <3>3. QED
      BY <1>0, <2>1, <3>1, <3>2 DEF FaultInv, OneRestart, NodesTypeOK
  <2>3. RestartsLogged'
    <3>1. IsCrashOf(new, n, due)'
      BY <1>1, <1>2, <1>4 DEF IsCrashOf
    <3>2. \A i \in DOMAIN faultLog' : i = new \/ i \in DOMAIN faultLog
      BY <1>a, <1>1
    <3>3. \A m, at : IsCrashOf(new, m, at)' => m = n /\ at = due
      BY <1>1 DEF IsCrashOf
    <3>4. \A e \in events' : e.id \in Nodes =>
            \E i \in DOMAIN faultLog' : IsCrashOf(i, e.id, e.tick)'
      <4>1. ASSUME NEW e \in events', e.id \in Nodes
            PROVE  \E i \in DOMAIN faultLog' : IsCrashOf(i, e.id, e.tick)'
        <5>1. CASE e \in events
          BY <4>1, <5>1, <1>2, <1>3 DEF FaultInv, RestartsLogged
        <5>2. CASE e = event
          BY <5>2, <3>1, <1>2, <1>c
        <5>3. QED
          BY <2>1, <5>1, <5>2
      <4>2. QED
        BY <4>1
    <3>5. \A i \in DOMAIN faultLog', m \in Nodes, at \in Nat :
            IsCrashOf(i, m, at)' /\ at > tick =>
              \E e \in events' : e.id = m /\ e.tick = at
      <4>1. ASSUME NEW i \in DOMAIN faultLog', NEW m \in Nodes, NEW at \in Nat,
                   IsCrashOf(i, m, at)', at > tick
            PROVE  \E e \in events' : e.id = m /\ e.tick = at
        <5>1. CASE i \in DOMAIN faultLog
          BY <4>1, <5>1, <1>3, <2>1 DEF FaultInv, RestartsLogged
        <5>2. CASE i = new
          BY <4>1, <5>2, <3>3, <2>1, <1>c
        <5>3. QED
          BY <3>2, <5>1, <5>2
      <4>2. QED
        BY <4>1
    <3>6. QED
      BY <3>4, <3>5, <2>1 DEF RestartsLogged
  <2>4. HealsLogged'
    BY <1>2, <1>3, <2>1 DEF FaultInv, HealsLogged, IsRestart
  <2>5. Timely'
    BY <1>0, <1>c, <2>1 DEF FaultInv, Timely
  <2>6. QED
    BY <2>2, <2>3, <2>4, <2>5 DEF FaultInv
<1>5. CASE ~Applies(Len(faultLog))
  <2>1. UNCHANGED <<alive, events, tick>>
    BY <1>5 DEF Crash, clockVars
  <2>2. \A i \in DOMAIN faultLog' : \A m, at :
          IsCrashOf(i, m, at)' => i \in DOMAIN faultLog
    BY <1>1, <1>2, <1>5 DEF IsCrashOf
  <2>3. RestartsLogged'
    BY <1>2, <1>3, <2>1, <2>2 DEF FaultInv, RestartsLogged
  <2>4. OneRestart' /\ Timely'
    BY <2>1 DEF FaultInv, OneRestart, Timely
  <2>5. HealsLogged'
    BY <1>2, <1>3, <2>1 DEF FaultInv, HealsLogged, IsRestart
  <2>6. QED
    BY <2>3, <2>4, <2>5 DEF FaultInv
<1>6. QED
  BY <1>4, <1>5

\* An applied partition schedules a heal, which is not a restart.
LEMMA PartitionKeeps ==
  ASSUME CoreTypeOK, FaultInv, ~Settled', UNCHANGED <<alive, mask>>,
         NEW a \in Nodes, NEW b \in Nodes, NEW delay \in HealDelays,
         Partition(a, b, delay)
  PROVE  FaultInv'
<1> USE DEF CoreTypeOK
<1>a. PICK new : new = Len(faultLog) + 1
  OBVIOUS
<1>b. PICK due : due = tick + delay
  OBVIOUS
<1>c. PICK event : event = [tick |-> due, id |-> HealId(a, b), seq |-> scheduled]
  OBVIOUS
<1>0. /\ tick \in Nat /\ due \in Nat /\ due > tick
      /\ event.id \in Nat /\ event.id >= 1000 /\ event.tick = due
  BY <1>b, <1>c, HealIdType, FaultsAssumption DEF HealDelays, ClockTypeOK
<1>1. /\ DOMAIN faultLog = 1 .. Len(faultLog) /\ Len(faultLog) \in Nat
      /\ DOMAIN faultLog' = 1 .. new
      /\ faultLog'[new] = [kind |-> "partition", a |-> a, b |-> b, at |-> tick,
                            until |-> due]
      /\ \A i \in DOMAIN faultLog : faultLog'[i] = faultLog[i]
  BY <1>a, <1>b, RecordEffect DEF Partition
<1>2. /\ \A i : Applies(i)' = Applies(i)
      /\ \A i \in DOMAIN faultLog : i \in DOMAIN faultLog' /\ i # new
      /\ new \in DOMAIN faultLog'
      /\ new - 1 = Len(faultLog)
      /\ \A i \in DOMAIN faultLog' : i = new \/ i \in DOMAIN faultLog
  BY <1>a, <1>1 DEF Applies
<1>3. /\ \A i \in DOMAIN faultLog : \A m, at :
           IsCrashOf(i, m, at)' <=> IsCrashOf(i, m, at)
      /\ \A i \in DOMAIN faultLog : \A p, at :
           IsPartitionOf(i, p, at)' <=> IsPartitionOf(i, p, at)
  BY <1>1, <1>2 DEF IsCrashOf, IsPartitionOf
<1>11. \A m, at : ~IsCrashOf(new, m, at)'
  BY <1>1 DEF IsCrashOf
<1>4. events \subseteq events' /\ events' \subseteq events \cup {event}
      /\ tick' = tick
  BY <1>b, <1>c DEF Partition, Schedule, clockVars
<1>5. event.id \notin Nodes
  BY <1>0 DEF Nodes
<1>6. OneRestart'
  BY <1>4, <1>5 DEF FaultInv, OneRestart
<1>7. RestartsLogged'
  BY <1>2, <1>3, <1>11, <1>4, <1>5 DEF FaultInv, RestartsLogged
<1>8. Timely'
  BY <1>0, <1>4 DEF FaultInv, Timely
<1>9. HealsLogged'
  <2>1. ASSUME NEW p \in partitions
        PROVE  \E e \in events' : /\ ~IsRestart(e)
                 /\ \E i \in DOMAIN faultLog' : IsPartitionOf(i, p, e.tick)'
    BY <1>2, <1>3, <1>4 DEF FaultInv, HealsLogged
  <2>2. ASSUME NEW p \in partitions', p \notin partitions
        PROVE  \E e \in events' : /\ ~IsRestart(e)
                 /\ \E i \in DOMAIN faultLog' : IsPartitionOf(i, p, e.tick)'
    <3>1. /\ Applies(Len(faultLog)) /\ events' = events \cup {event}
          /\ partitions' = partitions \cup Cross({a}, {b})
      BY <2>2, <1>b, <1>c DEF Partition, PartitionLinks, Schedule
    <3>2. {p[1], p[2]} = {a, b}
      BY <2>2, <3>1 DEF Cross
    <3>3. IsPartitionOf(new, p, due)'
      BY <1>1, <1>2, <3>1, <3>2 DEF IsPartitionOf
    <3>4. ~IsRestart(event)
      BY <1>0 DEF IsRestart
    <3>5. QED
      BY <3>1, <3>3, <3>4, <1>2, <1>0
  <2>3. QED
    BY <2>1, <2>2 DEF HealsLogged, IsRestart
<1>10. QED
  BY <1>6, <1>7, <1>8, <1>9 DEF FaultInv

\* Firing an event ends the outage it was scheduled for, or every partition.
LEMMA EventKeeps ==
  ASSUME CoreTypeOK, FaultInv, ~Settled', UNCHANGED <<faultLog, mask>>,
         NEW e \in events, NextDueEvent(e),
         IF IsRestart(e)
         THEN /\ alive' = IF e.id \in Nodes
                          THEN [alive EXCEPT ![e.id] = TRUE] ELSE alive
              /\ UNCHANGED partitions
         ELSE HealAll /\ UNCHANGED alive
  PROVE  FaultInv'
<1> USE DEF CoreTypeOK
<1>1. events' = events \ {e} /\ tick' = tick /\ e.tick <= tick /\ tick \in Nat
      /\ \A f \in events : f.tick \in Nat /\ f.id \in Nat
  BY DEF NextDueEvent, IsDue, ClockTypeOK, Event
<1>2. /\ \A i, m, at : IsCrashOf(i, m, at)' <=> IsCrashOf(i, m, at)
      /\ \A i, p, at : IsPartitionOf(i, p, at)' <=> IsPartitionOf(i, p, at)
  BY DEF IsCrashOf, IsPartitionOf, Applies
<1>3. e.id \in Nodes => IsRestart(e)
  BY DEF IsRestart, Nodes
<1>4. OneRestart'
  <2>1. CASE e.id \in Nodes
    BY <2>1, <1>1, <1>3 DEF FaultInv, OneRestart, NodesTypeOK
  <2>2. CASE e.id \notin Nodes
    BY <2>2, <1>1, <1>3 DEF FaultInv, OneRestart
  <2>3. QED
    BY <2>1, <2>2
<1>5. RestartsLogged'
  <2>1. \A f \in events' : f.id \in Nodes =>
          \E i \in DOMAIN faultLog : IsCrashOf(i, f.id, f.tick)'
    BY <1>1, <1>2 DEF FaultInv, RestartsLogged
  <2>2. \A i \in DOMAIN faultLog, n \in Nodes, at \in Nat :
          IsCrashOf(i, n, at)' /\ at > tick =>
            \E f \in events' : f.id = n /\ f.tick = at
    BY <1>1, <1>2 DEF FaultInv, RestartsLogged
  <2>3. QED
    BY <2>1, <2>2, <1>1 DEF RestartsLogged
<1>6. HealsLogged'
  <2>1. CASE IsRestart(e)
    BY <2>1, <1>1, <1>2 DEF FaultInv, HealsLogged, IsRestart
  <2>2. CASE ~IsRestart(e)
    BY <2>2 DEF HealAll, HealsLogged
  <2>3. QED
    BY <2>1, <2>2
<1>7. Timely'
  BY <1>1 DEF FaultInv, Timely
<1>8. QED
  BY <1>4, <1>5, <1>6, <1>7 DEF FaultInv

\* FaultInv is invariant.
THEOREM FaultsInvariant == Spec => []FaultInv
<1>1. Init => FaultInv
  BY DEF Init, ClockInit, NodesInit, FaultsInit, FaultInv, OneRestart,
         RestartsLogged, HealsLogged, Timely
<1>2. CoreTypeOK /\ CoreTypeOK' /\ FaultInv /\ [Next]_vars => FaultInv'
  <2> SUFFICES ASSUME CoreTypeOK, CoreTypeOK', FaultInv, [Next]_vars
               PROVE  FaultInv'
    OBVIOUS
  <2> USE DEF Goes
  <2>1. CASE NodesStep
    <3>1. /\ UNCHANGED <<events, alive, faultLog, partitions, mask>>
          /\ tick' = tick + 1 /\ Settled /\ ~Settled'
      BY <2>1 DEF NodesStep, Advance, TickNodes, faultVars, Settled
    <3>2. Timely'
      BY <3>1 DEF FaultInv, Timely, CoreTypeOK, ClockTypeOK, Event
    <3>3. OneRestart' /\ HealsLogged'
      BY <3>1 DEF FaultInv, OneRestart, HealsLogged, IsRestart, IsPartitionOf,
                  Applies
    <3>4. RestartsLogged'
      BY <3>1 DEF FaultInv, RestartsLogged, IsCrashOf, Applies, CoreTypeOK,
                  ClockTypeOK
    <3>5. QED
      BY <3>2, <3>3, <3>4 DEF FaultInv
  <2>2. CASE BridgeStep \/ DeliverStep \/ RedeemStep
    <3>1. UNCHANGED <<tick, events, alive, faultLog, partitions, mask>>
          /\ ~Settled'
      BY <2>2 DEF BridgeStep, DeliverStep, RedeemStep, clockVars, faultVars,
                  Settled
    <3>2. QED
      BY <3>1, FaultInvFrame
  <2>3. CASE CrashStep
    <3>1. ~Settled' /\ UNCHANGED <<partitions, mask>>
      BY <2>3 DEF CrashStep, MaybeCrash, Settled
    <3>2. CASE UNCHANGED <<faultLog, alive, clockVars>>
      BY <3>1, <3>2, FaultInvFrame DEF clockVars
    <3>3. QED
      BY <2>3, <3>1, <3>2, CrashKeeps DEF CrashStep, MaybeCrash
  <2>4. CASE PartitionStep
    <3>1. ~Settled' /\ UNCHANGED <<alive, mask>>
      BY <2>4 DEF PartitionStep, MaybePartition, Settled, nodeVars
    <3>2. CASE UNCHANGED <<partitions, faultLog, clockVars>>
      BY <3>1, <3>2, FaultInvFrame DEF clockVars
    <3>3. \A p \in PartitionPairs : p[1] \in Nodes /\ p[2] \in Nodes
      BY FaultsAssumption
    <3>4. QED
      BY <2>4, <3>1, <3>2, <3>3, PartitionKeeps
      DEF PartitionStep, MaybePartition
  <2>5. CASE EventStep
    <3>1. ~Settled' /\ UNCHANGED <<faultLog, mask>>
      BY <2>5 DEF EventStep, ProcessEvent, Settled
    <3>2. QED
      BY <2>5, <3>1, EventKeeps DEF EventStep, ProcessEvent
  <2>6. CASE EventsDone
    <3>1. UNCHANGED <<tick, events, alive, faultLog, partitions, mask>>
      BY <2>6 DEF EventsDone, clockVars, nodeVars, faultVars
    <3>2. Timely'
      BY <2>6, <3>1
      DEF EventsDone, NothingDue, IsDue, FaultInv, Timely, CoreTypeOK,
          ClockTypeOK, Event
    <3>3. OneRestart' /\ HealsLogged' /\ RestartsLogged'
      BY <3>1 DEF FaultInv, OneRestart, HealsLogged, RestartsLogged, IsRestart,
                  IsPartitionOf, IsCrashOf, Applies
    <3>4. QED
      BY <3>2, <3>3 DEF FaultInv
  <2>7. CASE CheckStep \/ UNCHANGED vars
    <3>1. UNCHANGED <<tick, events, alive, faultLog, partitions, mask>>
          /\ (Settled' => Settled)
      BY <2>7 DEF CheckStep, vars, clockVars, nodeVars, faultVars, Settled
    <3>2. QED
      BY <3>1, FaultInvFrame
  <2>8. QED
    BY <2>1, <2>2, <2>3, <2>4, <2>5, <2>6, <2>7 DEF Next
<1>3. QED
  BY <1>1, <1>2, TypeCorrect, PTL DEF Spec

\* A node is down exactly while an applied crash of it is open in the log:
\* the heap holds precisely the restarts of the open crashes.
THEOREM LogExplainsOutages == Spec => []DeadExactlyInWindow
<1>1. CoreTypeOK /\ FaultInv => DeadExactlyInWindow
  <2> SUFFICES ASSUME CoreTypeOK, FaultInv, Settled, NEW n \in Nodes
               PROVE  ~alive[n] <=> \E i \in DOMAIN faultLog : OpenCrash(i, n)
    BY DEF DeadExactlyInWindow
  <2>1. ASSUME ~alive[n]
        PROVE  \E i \in DOMAIN faultLog : OpenCrash(i, n)
    <3>1. PICK e \in events : e.id = n
      BY <2>1 DEF FaultInv, OneRestart
    <3>2. PICK i \in DOMAIN faultLog : IsCrashOf(i, n, e.tick)
      BY <3>1 DEF FaultInv, RestartsLogged
    <3>3. e.tick > tick
      BY DEF FaultInv, Timely
    <3>4. QED
      BY <3>2, <3>3 DEF IsCrashOf, OpenCrash, CoreTypeOK, ClockTypeOK, Event
  <2>2. ASSUME NEW i \in DOMAIN faultLog, OpenCrash(i, n)
        PROVE  ~alive[n]
    <3>1. PICK at : at = faultLog[i].until
      OBVIOUS
    <3>2. at \in Nat
      <4>1. faultLog[i] \in CrashFault \cup PartitionFault
        BY DEF CoreTypeOK, FaultsTypeOK
      <4>2. QED
        BY <3>1, <4>1 DEF CrashFault, PartitionFault
    <3>3. IsCrashOf(i, n, at) /\ at > tick
      BY <2>2, <3>1, <3>2 DEF OpenCrash, IsCrashOf, CoreTypeOK, ClockTypeOK
    <3>4. QED
      BY <3>2, <3>3 DEF FaultInv, RestartsLogged, OneRestart
  <2>3. QED
    BY <2>1, <2>2
<1>2. QED
  BY <1>1, TypeCorrect, FaultsInvariant, PTL

\* No cut outlives every applied partition of its link in the log.
LEMMA CutsAreOpen ==
  ASSUME CoreTypeOK, FaultInv PROVE PartitionOnlyInWindow
<1> SUFFICES ASSUME Settled, NEW p \in partitions
             PROVE  \E i \in DOMAIN faultLog : OpenPartition(i, p[1], p[2])
  BY DEF PartitionOnlyInWindow
<1>1. PICK e \in events, i \in DOMAIN faultLog : IsPartitionOf(i, p, e.tick)
  BY DEF FaultInv, HealsLogged
<1>2. e.tick > tick
  BY DEF FaultInv, Timely
<1>3. QED
  BY <1>1, <1>2 DEF IsPartitionOf, OpenPartition, CoreTypeOK, ClockTypeOK, Event

\* Whenever the checker looks, a link is cut only while an applied partition
\* of it is open in the log (maybe_inject_fault).
THEOREM LogExplainsPartitions == Spec => []PartitionOnlyInWindow
BY CutsAreOpen, TypeCorrect, FaultsInvariant, PTL

\* Events leave the heap in the tick they were scheduled for: the loop never
\* finds one overdue and never takes one early (next_due_event).
THEOREM EventsOnTime == Spec => EventsFireOnTime
<1>1. CoreTypeOK /\ FaultInv /\ [Next]_vars
        => [\A e \in events : e \notin events' => e.tick = tick]_vars
  <2> SUFFICES ASSUME CoreTypeOK, FaultInv, [Next]_vars,
                      NEW e \in events, e \notin events'
               PROVE  e.tick = tick
    OBVIOUS
  <2>1. EventStep
    BY DEF Next, NodesStep, BridgeStep, DeliverStep, RedeemStep, CrashStep,
           MaybeCrash, Crash, PartitionStep, MaybePartition, Partition,
           EventsDone, CheckStep, Advance, Schedule, clockVars, vars
  <2>2. PICK f \in events : NextDueEvent(f)
    BY <2>1 DEF EventStep, ProcessEvent
  <2>3. e = f /\ e.tick <= tick
    BY <2>2 DEF NextDueEvent, IsDue
  <2>4. e.tick >= tick
    BY DEF FaultInv, Timely
  <2>5. QED
    BY <2>3, <2>4 DEF CoreTypeOK, ClockTypeOK, Event
<1>2. QED
  BY <1>1, TypeCorrect, FaultsInvariant, PTL DEF Spec, EventsFireOnTime

-----------------------------------------------------------------------------
(* What the checker's alarms mean: which of them can never fire, that the  *)
(* poster alarm is true, and of which validator the validator alarm lies.  *)

\* The bridge, the checker and the drain run only once the clock has moved.
Started == phase # "nodes" => tick >= 1

\* Nobody is down or has anything to post before the first turn.
Fresh == tick = 0 => pending[BatchPoster] = 0 /\ \A n \in Nodes : alive[n]

\* The first turn ticks everybody before it injects a fault.
HasProduced == tick >= 1 => \A n \in Nodes : height[n] >= 1

GasPositive == \A n \in Nodes : gas[n] >= 1

\* An assertion that is taken for none fell into the first tick.
SentinelAtStart ==
  /\ lastAssertion = 0 => firstAssert \in {0, 1}
  /\ tick = 0 => firstAssert = 0

SeenInPast == firstSeen["validator_never_asserted"] \in 0 .. tick

AlarmInv ==
  Started /\ Fresh /\ HasProduced /\ GasPositive /\ OnlyPossibleAlarms
    /\ PosterAlarmIsTrue /\ SentinelAtStart /\ SeenInPast
    /\ ValidatorAlarmFalseOnlyAtStart

\* A step that moves neither the clock nor the nodes nor the alarms.
LEMMA AlarmFrame ==
  ASSUME AlarmInv, phase # "nodes" \/ phase' = "nodes",
         tick \in Nat,
         tick >= 1 \/ UNCHANGED alive,
         UNCHANGED <<tick, height, pending, gas, lastBatch, lastAssertion,
                     firstPost, firstAssert, firstSeen>>
  PROVE  AlarmInv'
<1>1. (Started /\ Fresh /\ HasProduced /\ GasPositive)'
  BY DEF AlarmInv, Started, Fresh, HasProduced, GasPositive
<1>2. (OnlyPossibleAlarms /\ PosterAlarmIsTrue)'
  BY DEF AlarmInv, OnlyPossibleAlarms, PosterAlarmIsTrue, ImpossibleAlarms
<1>3. (SentinelAtStart /\ SeenInPast /\ ValidatorAlarmFalseOnlyAtStart)'
  BY DEF AlarmInv, SentinelAtStart, SeenInPast, ValidatorAlarmFalseOnlyAtStart
<1>4. QED
  BY <1>1, <1>2, <1>3 DEF AlarmInv

\* A turn of the nodes gives every live node a block, keeps gas prices above
\* their floors and records a posted batch at a height above 0
\* (SimNode::tick).
LEMMA NodesStepKeeps ==
  ASSUME CoreTypeOK, AlarmInv, NodesStep PROVE AlarmInv'
<1> USE DEF CoreTypeOK, AlarmInv
<1>1. PICK tx \in 0 .. MaxTx, tx3 \in 0 .. MaxL3Tx, swing \in Swings,
           posts \in Posts, asserts \in Asserts :
        /\ TickNodes(tx, tx3, swing, posts, asserts)
        /\ firstPost' = First(firstPost, posts)
        /\ firstAssert' = First(firstAssert, asserts)
  BY DEF NodesStep
<1>2. tick' = tick + 1 /\ tick \in Nat /\ firstSeen' = firstSeen
  BY DEF NodesStep, Advance, ClockTypeOK
<1>3. Started' /\ Fresh' /\ OnlyPossibleAlarms'
  BY <1>2 DEF Started, Fresh, OnlyPossibleAlarms, ImpossibleAlarms
<1>4. HasProduced'
  <2>1. \A n \in Nodes : height'[n] = NextHeight(n)
    BY <1>1 DEF TickNodes
  <2>2. \A n \in Nodes : alive[n] \/ height[n] >= 1
    BY <1>2 DEF Fresh, HasProduced
  <2>3. \A n \in Nodes : NextHeight(n) >= 1
    BY <2>2 DEF NextHeight, NodesTypeOK
  <2>4. QED
    BY <2>1, <2>3 DEF HasProduced
<1>5. GasPositive'
  <2>1. \A n \in Nodes : gas'[n] = NextGas(n, swing)
    BY <1>1 DEF TickNodes
  <2>2. \A n \in FeeNodes : swing[n] \in Int /\ GasFloor[n] \in Nat \ {0}
    BY NodesAssumption DEF Swings
  <2>3. \A n \in Nodes : NextGas(n, swing) >= 1
    BY <2>2 DEF NextGas, GasPositive, NodesTypeOK
  <2>4. QED
    BY <2>1, <2>3 DEF GasPositive
<1>6. PosterAlarmIsTrue'
  <2>1. CASE posts
    <3>1. pending[BatchPoster] # 0
      BY <1>1, <2>1, Roles DEF TickNodes, CanPost, NodesTypeOK
    <3>2. height[BatchPoster] >= 1
      BY <3>1, <1>2, Roles DEF Fresh, HasProduced
    <3>3. lastBatch' = height[BatchPoster]
      BY <1>1, <2>1 DEF TickNodes
    <3>4. firstPost' # 0
      BY <1>1, <1>2, <2>1 DEF First
    <3>5. QED
      BY <3>2, <3>3, <3>4 DEF PosterAlarmIsTrue
  <2>2. CASE ~posts
    <3>1. lastBatch' = lastBatch /\ firstPost' = firstPost
      BY <1>1, <2>2 DEF TickNodes, First
    <3>2. QED
      BY <3>1 DEF PosterAlarmIsTrue
  <2>3. QED
    BY <2>1, <2>2
<1>7. SentinelAtStart'
  <2>1. CASE asserts
    <3>1. lastAssertion' = height[Validator]
      BY <1>1, <2>1 DEF TickNodes
    <3>2. tick >= 1 => lastAssertion' # 0
      BY <3>1, Roles DEF HasProduced
    <3>3. tick = 0 => firstAssert' = 1
      BY <1>1, <2>1 DEF First, SentinelAtStart
    <3>4. QED
      BY <3>2, <3>3, <1>2 DEF SentinelAtStart
  <2>2. CASE ~asserts
    <3>1. lastAssertion' = lastAssertion /\ firstAssert' = firstAssert
      BY <1>1, <2>2 DEF TickNodes, First
    <3>2. QED
      BY <3>1, <1>2 DEF SentinelAtStart
  <2>3. QED
    BY <2>1, <2>2
<1>8. SeenInPast' /\ ValidatorAlarmFalseOnlyAtStart'
  BY <1>1, <1>2 DEF SeenInPast, ValidatorAlarmFalseOnlyAtStart, First
<1>9. QED
  BY <1>3, <1>4, <1>5, <1>6, <1>7, <1>8

\* No impossible alarm is raised when the checker looks (check_invariants).
LEMMA CheckStepKeeps ==
  ASSUME CoreTypeOK, AlarmInv, CheckStep PROVE AlarmInv'
<1> USE DEF CoreTypeOK, AlarmInv
<1>1. /\ UNCHANGED <<tick, height, pending, gas, lastBatch, lastAssertion,
                     firstPost, firstAssert, alive>>
      /\ tick >= 1 /\ phase' = "nodes" /\ tick \in Nat
  BY DEF CheckStep, Goes, Started, clockVars, nodeVars, history, ClockTypeOK
<1>2. \A k \in ImpossibleAlarms : ~Raised[k]
  <2>1. \A n \in Nodes : height[n] >= 1 /\ gas[n] >= 1
    BY <1>1 DEF HasProduced, GasPositive
  <2>2. height[L1] # 0 /\ height[Sequencer] # 0 /\ height[L3Sequencer] # 0
    BY <2>1, Roles
  <2>3. \A n \in Nodes : gas[n] # 0
    BY <2>1
  <2>4. ~Raised["l1_stalled"] /\ ~Raised["seq_stalled"] /\ ~Raised["l3_stalled"]
    BY <2>2 DEF Raised
  <2>5. ~Raised["zero_gas"]
    BY <2>3 DEF Raised
  <2>6. QED
    BY <2>4, <2>5 DEF ImpossibleAlarms
<1>3. OnlyPossibleAlarms'
  <2>1. \A k \in ImpossibleAlarms : k \in Alarms
    BY DEF ImpossibleAlarms, Alarms
  <2>2. QED
    BY <1>2, <2>1 DEF CheckStep, CheckInvariants, OnlyPossibleAlarms,
      ImpossibleAlarms
<1>4. SeenInPast' /\ ValidatorAlarmFalseOnlyAtStart'
  <2> DEFINE k == "validator_never_asserted"
  <2>1. CASE firstSeen[k] = 0 /\ Raised[k]
    <3>1. firstSeen'[k] = tick /\ lastAssertion = 0
      BY <2>1 DEF CheckStep, CheckInvariants, Raised, Alarms
    <3>2. QED
      BY <3>1, <1>1 DEF SeenInPast, ValidatorAlarmFalseOnlyAtStart,
        SentinelAtStart
  <2>2. CASE ~(firstSeen[k] = 0 /\ Raised[k])
    <3>1. firstSeen'[k] = firstSeen[k]
      BY <2>2 DEF CheckStep, CheckInvariants, Alarms
    <3>2. QED
      BY <3>1, <1>1 DEF SeenInPast, ValidatorAlarmFalseOnlyAtStart
  <2>3. QED
    BY <2>1, <2>2
<1>5. SentinelAtStart'
  BY <1>1 DEF SentinelAtStart
<1>6. QED
  BY <1>1, <1>3, <1>4, <1>5
  DEF Started, Fresh, HasProduced, GasPositive, PosterAlarmIsTrue

\* AlarmInv is invariant.
THEOREM AlarmsInvariant == Spec => []AlarmInv
<1>1. Init => AlarmInv
  BY NodesAssumption, Roles
  DEF Init, ClockInit, NodesInit, CheckerInit, AlarmInv, Started, Fresh,
      HasProduced, GasPositive, OnlyPossibleAlarms, ImpossibleAlarms, Alarms,
      PosterAlarmIsTrue, SentinelAtStart, SeenInPast,
      ValidatorAlarmFalseOnlyAtStart
<1>2. CoreTypeOK /\ AlarmInv /\ [Next]_vars => AlarmInv'
  <2> SUFFICES ASSUME CoreTypeOK, AlarmInv, [Next]_vars PROVE AlarmInv'
    OBVIOUS
  <2>0. tick \in Nat /\ (phase # "nodes" => tick >= 1)
    BY DEF CoreTypeOK, ClockTypeOK, AlarmInv, Started
  <2> USE DEF Goes
  <2>1. CASE BridgeStep \/ DeliverStep \/ RedeemStep
    BY <2>0, <2>1, AlarmFrame
    DEF BridgeStep, DeliverStep, RedeemStep, clockVars, history
  <2>2. CASE CrashStep
    BY <2>0, <2>2, AlarmFrame
    DEF CrashStep, MaybeCrash, Crash, Schedule, clockVars, history
  <2>3. CASE PartitionStep
    BY <2>0, <2>3, AlarmFrame
    DEF PartitionStep, MaybePartition, Partition, Schedule, clockVars, nodeVars,
        history
  <2>4. CASE EventStep
    BY <2>0, <2>4, AlarmFrame DEF EventStep, ProcessEvent, NextDueEvent, history
  <2>5. CASE EventsDone
    BY <2>0, <2>5, AlarmFrame DEF EventsDone, clockVars, nodeVars, history
  <2>6. CASE UNCHANGED vars
    BY <2>0, <2>6, AlarmFrame DEF vars, clockVars, nodeVars, history
  <2>7. QED
    BY <2>1, <2>2, <2>3, <2>4, <2>5, <2>6, NodesStepKeeps, CheckStepKeeps
    DEF Next
<1>3. QED
  BY <1>1, <1>2, TypeCorrect, PTL DEF Spec

\* The stall alarms and the zero-gas alarm never fire, whatever is crashed
\* and however long the run (check_invariants).
THEOREM AlarmsImpossible == Spec => []OnlyPossibleAlarms
BY AlarmsInvariant, PTL DEF AlarmInv

\* last_batch_posted is 0 exactly while no batch has been posted, so the
\* poster alarm is true whenever it fires (SimNode::tick).
THEOREM PosterAlarmTrue == Spec => []PosterAlarmIsTrue
BY AlarmsInvariant, PTL DEF AlarmInv

\* The validator alarm lies only of a validator whose assertions all fell into
\* the first tick, however long the grace period (check_invariants).
THEOREM ValidatorAlarmNearlyTrue == Spec => []ValidatorAlarmFalseOnlyAtStart
BY AlarmsInvariant, PTL DEF AlarmInv

=============================================================================

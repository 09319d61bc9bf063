----------------------------- MODULE SimFaults ------------------------------
(***************************************************************************)
(* Fault injection of the simulator (maybe_inject_fault): crashes with a   *)
(* scheduled restart, network partitions with a scheduled heal, the log of *)
(* injected faults, and the mask under which a run is replayed when it is  *)
(* shrunk.  The heap of the clock identifies a restart by the node's index *)
(* and a heal by a number from 1000 up.                                    *)
(***************************************************************************)
EXTENDS SimClock, SimNodes, SimPartitions, Sequences

CONSTANTS
  Crashable,      \* bound: the nodes this instance may crash
  PartitionPairs, \* bound: the pairs (a, b) this instance may draw
  MinRestart, MaxRestart,   \* restart_delay is drawn from this range (10, 100)
  MinHeal, MaxHeal,         \* heal_delay is drawn from this range    (20, 200)
  MaxFaults,      \* bound: entries of fault_log
  Masks,          \* the masks a run may be given: sets of indices, or NoMask
  NoMask          \* fault_mask = None

ASSUME FaultsAssumption ==
  /\ Crashable \subseteq Nodes
  /\ PartitionPairs \subseteq Nodes \X Nodes
  /\ MinRestart \in Nat \ {0} /\ MaxRestart \in Nat
  /\ MinHeal \in Nat \ {0} /\ MaxHeal \in Nat
  /\ MaxFaults \in Nat
  /\ \A m \in Masks : m # NoMask => m \subseteq Nat

VARIABLES
  faultLog,     \* fault_log; its length is fault_counter
  mask          \* fault_mask

faultVars == <<partitions, faultLog, mask>>

RestartDelays == MinRestart .. MaxRestart
HealDelays == MinHeal .. MaxHeal

CrashFault == [kind : {"crash"}, node : Nodes, at : Nat, until : Nat]
PartitionFault ==
  [kind : {"partition"}, a : Nodes, b : Nodes, at : Nat, until : Nat]

FaultsTypeOK ==
  /\ partitions \subseteq Nodes \X Nodes
  /\ faultLog \in Seq(CrashFault \cup PartitionFault)
  /\ mask \in Masks

FaultsInit ==
  /\ partitions = {}
  /\ faultLog = <<>>
  /\ mask \in Masks

-----------------------------------------------------------------------------

\* Mutants of the operators below.
CrashCandidatesDead == {n \in Crashable : n # L1}
HealIdClash(a, b) == a * 100 + b
IsRestartSwapped(e) == e.id >= 1000

\* Whether the fault with this (0-based) index is applied or only recorded.
Applies(index) == mask = NoMask \/ index \in mask

CrashCandidates == {n \in Crashable : n # L1 /\ alive[n]}

HealId(a, b) == 1000 + a * 100 + b

IsRestart(e) == e.id < 1000

\* Recording a fault takes the next index whether or not it is applied.
Record(fault) ==
  /\ Len(faultLog) < MaxFaults
  /\ faultLog' = Append(faultLog, fault)

-----------------------------------------------------------------------------

Crash(n, delay) ==
  /\ Record([kind |-> "crash", node |-> n, at |-> tick,
             until |-> tick + delay])
  /\ IF Applies(Len(faultLog))
     THEN /\ alive' = [alive EXCEPT ![n] = FALSE]
          /\ Schedule(tick + delay, n)
     ELSE UNCHANGED <<alive, clockVars>>

MaybeCrash ==
  /\ \/ \E n \in CrashCandidates, delay \in RestartDelays : Crash(n, delay)
     \/ UNCHANGED <<faultLog, alive, clockVars>>
  /\ UNCHANGED <<partitions, mask, height, pending, gas, balance, deposited,
                 lastBatch, lastAssertion>>

Partition(a, b, delay) ==
  /\ Record([kind |-> "partition", a |-> a, b |-> b, at |-> tick,
             until |-> tick + delay])
  /\ IF Applies(Len(faultLog))
     THEN /\ PartitionLinks({a}, {b})
          /\ Schedule(tick + delay, HealId(a, b))
     ELSE UNCHANGED <<partitions, clockVars>>

MaybePartition ==
  /\ \/ \E p \in PartitionPairs, delay \in HealDelays :
          p[1] # p[2] /\ Partition(p[1], p[2], delay)
     \/ UNCHANGED <<partitions, faultLog, clockVars>>
  /\ UNCHANGED <<mask, nodeVars>>

\* One turn of the loop that drains the due events: a restart, or a heal of
\* every partition.
ProcessEvent ==
  /\ \E e \in events :
       /\ NextDueEvent(e)
       /\ IF IsRestart(e)
          THEN /\ alive' = IF e.id \in Nodes
                           THEN [alive EXCEPT ![e.id] = TRUE] ELSE alive
               /\ UNCHANGED partitions
          ELSE /\ HealAll
               /\ UNCHANGED alive
  /\ UNCHANGED <<faultLog, mask, height, pending, gas, balance, deposited,
                 lastBatch, lastAssertion>>

=============================================================================

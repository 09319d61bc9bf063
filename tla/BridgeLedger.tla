---------------------------- MODULE BridgeLedger ----------------------------
(***************************************************************************)
(* What a cross-layer bridge promises: a message that was originated stays *)
(* outstanding until it is settled, it is settled at most once, and        *)
(* settling it pays its value to the layer it is addressed to and to no    *)
(* other.                                                                  *)
(***************************************************************************)
EXTENDS Integers

CONSTANTS
  Layers,      \* the layers of the rollup stack
  Sum(_),      \* the total value of a set of messages
  Layer(_)     \* the layer a message is addressed to

VARIABLES
  outstanding, \* the messages originated and not settled
  paid,        \* paid[l]: the value paid to layer l
  sent         \* the value originated

ledgerVars == <<outstanding, paid, sent>>

Init ==
  /\ outstanding = {}
  /\ paid = [l \in Layers |-> 0]
  /\ sent = 0

\* The messages of outstanding' \ outstanding are new.
Originate ==
  /\ outstanding \subseteq outstanding'
  /\ sent' = sent + Sum(outstanding' \ outstanding)
  /\ UNCHANGED paid

\* The messages of outstanding \ outstanding' are paid.
Settle ==
  LET settled == outstanding \ outstanding' IN
  /\ outstanding' \subseteq outstanding
  /\ paid' = [l \in Layers |->
                paid[l] + Sum({m \in settled : Layer(m) = l})]
  /\ UNCHANGED sent

Next == Originate \/ Settle

Spec == Init /\ [][Next]_ledgerVars

=============================================================================

----------------------------- MODULE SimBridge ------------------------------
(***************************************************************************)
(* The bridge of the simulator: cross-layer messages waiting in            *)
(* bridge_queue, retryable tickets waiting for redemption, and the value   *)
(* credited to the layers.  A tick originates at most one message per      *)
(* route, so a message is identified by its route and creation tick, and   *)
(* the two queues are sets: every pass over them handles each element      *)
(* independently of the order.                                             *)
(***************************************************************************)
EXTENDS SimNodes, FiniteSetsExt

CONSTANTS
  Values,       \* the values a message may carry
  Latency,      \* Latency[r]: the latencies of a message on route r
  CanRetry,     \* CanRetry[r]: the draws of is_retryable on route r
  RedeemDelay,  \* ticks between a ticket's delivery and its redemption (5)
  MaxSent       \* bound: total value originated in a run

Deposit    == [from |-> 1, to |-> 2]
Withdrawal == [from |-> 2, to |-> 1]
L3Deposit  == [from |-> 2, to |-> 3]
Routes     == {Deposit, Withdrawal, L3Deposit}

Message == [route : Routes, value : Nat, created : Nat, due : Nat,
            retryable : BOOLEAN]

ASSUME BridgeAssumption ==
  /\ Values \subseteq Nat
  /\ Latency \in [Routes -> SUBSET Nat]
  /\ CanRetry \in [Routes -> SUBSET BOOLEAN]
  /\ CanRetry[Withdrawal] = {FALSE}
  /\ RedeemDelay \in Nat
  /\ MaxSent \in Nat

VARIABLES
  queue,      \* bridge_queue
  tickets,    \* retryable_tickets
  redeemed,   \* the tickets whose redeemed flag is set
  sent        \* the sum of the three total_.._value counters

bridgeVars == <<queue, tickets, redeemed, sent>>

BridgeTypeOK ==
  /\ queue \subseteq Message
  /\ tickets \subseteq Message
  /\ redeemed \subseteq tickets

AmountsTypeOK ==
  /\ deposited \in [Nodes -> Nat]
  /\ sent \in Nat

BridgeInit ==
  /\ queue = {}
  /\ tickets = {}
  /\ redeemed = {}
  /\ sent = 0

-----------------------------------------------------------------------------

ValueOf(m) == m.value

SumValues(S) == MapThenSumSet(ValueOf, S)

\* The node credited by a message to layer l.
LayerNode(l) == CASE l = 1 -> L1 [] l = 2 -> Sequencer [] l = 3 -> L3Sequencer

\* Mutant of Target.
TargetSequencer(m) == Sequencer

Target(m) == LayerNode(m.route.to)

\* deposited once the messages of S have been credited.
Credited(S) ==
  [n \in Nodes |-> deposited[n] + SumValues({m \in S : Target(m) = n})]

\* The messages route r may originate at tick now: none, or any one.
Draws(r, now) ==
  {{}} \cup {{[route |-> r, value |-> v, created |-> now, due |-> now + l,
               retryable |-> b]} :
             v \in Values, l \in Latency[r], b \in CanRetry[r]}

\* Mutants of the operators below.
RemainingAll(now) == {m \in queue : now <= m.due}
CanRedeemLate(t, now) ==
  t \notin redeemed /\ now > t.due + RedeemDelay /\ alive[Target(t)]
CanRedeemAgain(t, now) == now >= t.due + RedeemDelay /\ alive[Target(t)]

IsDelivered(m, now) == now >= m.due

Remaining(now) == {m \in queue : ~IsDelivered(m, now)}

CanRedeem(t, now) ==
  /\ t \notin redeemed
  /\ now >= t.due + RedeemDelay
  /\ alive[Target(t)]

-----------------------------------------------------------------------------

\* maybe_bridge_message: B holds the messages drawn in this tick.
Originate(B) ==
  /\ sent + SumValues(B) <= MaxSent
  /\ queue' = queue \cup B
  /\ sent' = sent + SumValues(B)
  /\ UNCHANGED <<tickets, redeemed, deposited>>

\* deliver_bridge_messages: a due retryable becomes a ticket, every other due
\* message is credited, even to a node that is down.
Deliver(now) ==
  LET delivered == {m \in queue : IsDelivered(m, now)} IN
  /\ queue' = Remaining(now)
  /\ tickets' = tickets \cup {m \in delivered : m.retryable}
  /\ deposited' = Credited({m \in delivered : ~m.retryable})
  /\ UNCHANGED <<redeemed, sent>>

\* process_retryables.
Redeem(now) ==
  LET ready == {t \in tickets : CanRedeem(t, now)} IN
  /\ redeemed' = redeemed \cup ready
  /\ deposited' = Credited(ready)
  /\ UNCHANGED <<queue, tickets, sent>>

=============================================================================

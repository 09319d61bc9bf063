----------------------------- MODULE SimNetwork -----------------------------
(***************************************************************************)
(* SimulatedNetwork (r30rg-sim/src/network.rs) under a caller that sends,  *)
(* cuts and heals links at will and collects the due messages once per     *)
(* tick, as Simulator::run does.  A payload is the number of the send it   *)
(* belongs to; a duplicate carries the same payload.                       *)
(***************************************************************************)
EXTENDS SimPartitions, Integers, Sequences

CONSTANTS
  Peers,            \* the nodes that exchange messages
  MinLatency, MaxLatency,   \* min_latency_ticks, max_latency_ticks
  Loses,            \* the draws message_loss_rate allows
  Duplicates,       \* the draws duplication_rate allows
  MaxSends,         \* bound: calls of send
  MaxCuts,          \* bound: calls of partition
  MaxNow            \* bound: the ticks of the caller

ASSUME NetworkAssumption ==
  /\ MinLatency \in Nat /\ MaxLatency \in Nat /\ MinLatency <= MaxLatency
  /\ Loses \subseteq BOOLEAN /\ Duplicates \subseteq BOOLEAN
  /\ MaxSends \in Nat /\ MaxCuts \in Nat /\ MaxNow \in Nat

VARIABLES
  inFlight,    \* in_flight, in the order of sending
  delivered, dropped, duplicated,    \* the three counters
  now,         \* the caller's tick
  sends,       \* history: calls of send, which number the payloads
  cuts,        \* calls of partition
  received     \* history: what deliver returned, with the tick

stats == <<delivered, dropped, duplicated>>
vars == <<partitions, inFlight, stats, now, sends, cuts, received>>

Latencies == MinLatency .. MaxLatency

InFlight == [from : Peers, to : Peers, payload : Nat, at : Nat, sentAt : Nat,
             copy : BOOLEAN]

TypeOK ==
  /\ partitions \subseteq Peers \X Peers
  /\ inFlight \in Seq(InFlight)
  /\ delivered \in Nat /\ dropped \in Nat /\ duplicated \in Nat
  /\ now \in 0 .. MaxNow
  /\ sends \in 0 .. MaxSends
  /\ cuts \in 0 .. MaxCuts
  /\ received \in Seq([msg : InFlight, tick : Nat])

Init ==
  /\ partitions = {}
  /\ inFlight = <<>>
  /\ delivered = 0 /\ dropped = 0 /\ duplicated = 0
  /\ now = 0 /\ sends = 0 /\ cuts = 0
  /\ received = <<>>

-----------------------------------------------------------------------------

Mail(from, to, at, copy) ==
  [from |-> from, to |-> to, payload |-> sends, at |-> at, sentAt |-> now,
   copy |-> copy]

\* Mutants of the operators below.
DropUncounted == UNCHANGED <<inFlight, stats>>
DropUnderflow ==
  dropped' = dropped - 1 /\ UNCHANGED <<inFlight, delivered, duplicated>>
CopiesAnyTime(from, to, latency) ==
  {<<>>} \cup {<<Mail(from, to, now + extra, TRUE)>> :
                 extra \in {l \in Latencies : TRUE \in Duplicates}}
DueStrictly(m, t) == m.at < t
SortedToFront(done, m, t) ==
  IF m.at <= t THEN [done EXCEPT !.ready = Append(@, m)]
  ELSE [done EXCEPT !.remaining = <<m>> \o @]

Drop ==
  /\ dropped' = dropped + 1
  /\ UNCHANGED <<inFlight, delivered, duplicated>>

\* What send queues behind the message itself.
Copies(from, to, latency) ==
  {<<>>} \cup {<<Mail(from, to, now + latency + extra, TRUE)>> :
                 extra \in {l \in Latencies : TRUE \in Duplicates}}

IsDue(m, t) == m.at <= t

\* One turn of deliver's loop over the messages in flight.
Sorted(done, m, t) ==
  IF IsDue(m, t) THEN [done EXCEPT !.ready = Append(@, m)]
  ELSE [done EXCEPT !.remaining = Append(@, m)]

\* What the loop has once it has drained q.
Drained(q, t) ==
  LET done[i \in 0 .. Len(q)] ==
        IF i = 0 THEN [ready |-> <<>>, remaining |-> <<>>]
        ELSE Sorted(done[i - 1], q[i], t)
  IN  done[Len(q)]

-----------------------------------------------------------------------------

\* send: dropped silently across a partition or by random loss, else queued
\* once or twice.
Send(from, to) ==
  /\ sends < MaxSends
  /\ sends' = sends + 1
  /\ \/ /\ IsPartitioned(from, to)
        /\ Drop
     \/ /\ ~IsPartitioned(from, to)
        /\ TRUE \in Loses
        /\ Drop
     \/ /\ ~IsPartitioned(from, to)
        /\ FALSE \in Loses
        /\ \E latency \in Latencies :
             \E copies \in Copies(from, to, latency) :
               /\ inFlight' = inFlight
                    \o <<Mail(from, to, now + latency, FALSE)>> \o copies
               /\ duplicated' = duplicated + Len(copies)
        /\ UNCHANGED <<delivered, dropped>>
  /\ UNCHANGED <<partitions, now, cuts, received>>

\* The caller's turn: the clock moves and deliver collects what is due, in
\* the order of sending.
DeliverTurn ==
  /\ now < MaxNow
  /\ now' = now + 1
  /\ LET ready == Drained(inFlight, now + 1).ready
     IN  /\ inFlight' = Drained(inFlight, now + 1).remaining
         /\ delivered' = delivered + Len(ready)
         /\ received' = received
              \o [i \in DOMAIN ready |-> [msg |-> ready[i], tick |-> now + 1]]
  /\ UNCHANGED <<partitions, dropped, duplicated, sends, cuts>>

PartitionGroups(A, B) ==
  /\ cuts < MaxCuts
  /\ cuts' = cuts + 1
  /\ PartitionLinks(A, B)
  /\ UNCHANGED <<inFlight, stats, now, sends, received>>

Heal(A, B) ==
  /\ HealLinks(A, B)
  /\ UNCHANGED <<inFlight, stats, now, sends, cuts, received>>

HealEverything ==
  /\ HealAll
  /\ UNCHANGED <<inFlight, stats, now, sends, cuts, received>>

Groups == SUBSET Peers \ {{}}

Next ==
  \/ \E from, to \in Peers : from # to /\ Send(from, to)
  \/ DeliverTurn
  \/ \E A, B \in Groups :
       A \cap B = {} /\ (PartitionGroups(A, B) \/ Heal(A, B))
  \/ HealEverything

\* run collects once per tick of a bounded loop.
Spec == Init /\ [][Next]_vars /\ WF_vars(DeliverTurn)

-----------------------------------------------------------------------------

\* The counters account for every message: each call of send and each
\* duplicate ends up dropped, delivered or in flight (stats).
Accounting ==
  sends + duplicated = dropped + delivered + Len(inFlight)

\* A duplicate reaches the receiver after its original, never instead of it
\* or before it (send, deliver).
CopyAfterOriginal ==
  \A j \in DOMAIN received : received[j].msg.copy =>
    \E i \in 1 .. j - 1 :
      /\ received[i].msg.payload = received[j].msg.payload
      /\ ~received[i].msg.copy

\* The latency the receiver sees is the latency drawn: each message comes in
\* the turn of its delivery tick, or in the next turn if that tick had passed
\* when it was sent, and that tick is one draw after the sending, two draws for
\* a duplicate (send, deliver).
LatencyAsDrawn ==
  \A i \in DOMAIN received :
    LET m == received[i].msg
        draws == IF m.copy THEN 2 ELSE 1
    IN  /\ received[i].tick = IF m.at > m.sentAt THEN m.at ELSE m.sentAt + 1
        /\ m.at - m.sentAt \in draws * MinLatency .. draws * MaxLatency

\* Latencies reorder messages, the queue does not: a message comes before one
\* that was sent earlier only if its own delivery tick is the earlier one, and
\* messages due at the same tick come in the order of sending (deliver).
OvertakenOnlyByFaster ==
  \A i, j \in DOMAIN received :
    i < j /\ received[j].msg.payload < received[i].msg.payload =>
      received[i].msg.at < received[j].msg.at

\* A message that is due in a turn the caller still takes does arrive: nothing
\* is lost once it is in flight, not even when the link is cut later.
InFlightArrives ==
  \A k \in 0 .. MaxSends - 1 :
    (\E i \in DOMAIN inFlight :
       /\ inFlight[i].payload = k
       /\ inFlight[i].at <= MaxNow /\ inFlight[i].sentAt < MaxNow)
      ~> (\E i \in DOMAIN received : received[i].msg.payload = k)

=============================================================================

---------------------------- MODULE NetworkProofs ---------------------------
(***************************************************************************)
(* Theorems about SimNetwork for any number of peers, calls and messages   *)
(* in flight: its counters add up, copies follow their originals, messages *)
(* take as long as they were drawn to, and only a faster one overtakes.    *)
(***************************************************************************)
EXTENDS SimNetwork, Induction

-----------------------------------------------------------------------------
(* The loop of deliver.                                                    *)

Nothing == [ready |-> <<>>, remaining |-> <<>>]

\* done = Loop(q, t, done) is the recursive definition in Drained.
Loop(q, t, done) ==
  [i \in 0 .. Len(q) |->
     IF i = 0 THEN Nothing ELSE Sorted(done[i - 1], q[i], t)]

\* The recursion is well-founded, so the loop has a value in every turn.
LEMMA LoopExists ==
  ASSUME NEW q, NEW t, Len(q) \in Nat
  PROVE  \E done : done = Loop(q, t, done)
<1> DEFINE Upto == {n \in Nat : \E done : \A i \in 0 .. Len(q) :
                      i <= n => done[i] = Loop(q, t, done)[i]}
<1>1. 0 \in Upto
  <2> DEFINE f == [i \in 0 .. Len(q) |-> Nothing]
  <2>1. \A i \in 0 .. Len(q) : i <= 0 => f[i] = Loop(q, t, f)[i]
    BY DEF Loop
  <2> HIDE DEF f
  <2>2. QED
    BY <2>1
<1>2. ASSUME NEW n \in Nat, n \in Upto PROVE n + 1 \in Upto
  <2>1. PICK f : \A i \in 0 .. Len(q) : i <= n => f[i] = Loop(q, t, f)[i]
    BY <1>2
  <2> DEFINE h == Loop(q, t, f)
  <2>2. ASSUME NEW i \in 0 .. Len(q), i <= n + 1
        PROVE  h[i] = Loop(q, t, h)[i]
    <3>1. CASE i = 0
      BY <3>1 DEF Loop
    <3>2. CASE i # 0
      <4>1. i - 1 \in 0 .. Len(q) /\ i - 1 <= n
        BY <2>2, <3>2
      <4>2. f[i - 1] = h[i - 1]
        BY <2>1, <4>1
      <4>3. h[i] = Sorted(f[i - 1], q[i], t)
        BY <3>2 DEF Loop
      <4>4. Loop(q, t, h)[i] = Sorted(h[i - 1], q[i], t)
        BY <3>2 DEF Loop
      <4>5. QED
        BY <4>2, <4>3, <4>4
    <3>3. QED
      BY <3>1, <3>2
  <2> HIDE DEF h
  <2>3. QED
    BY <2>2
<1>3. Nat \subseteq Upto
  <2> HIDE DEF Upto
  <2> QED
    BY <1>1, <1>2, NumberInduction
<1>4. PICK f : \A i \in 0 .. Len(q) : i <= Len(q) => f[i] = Loop(q, t, f)[i]
  BY <1>3
<1> DEFINE h == Loop(q, t, f)
<1>5. \A i \in 0 .. Len(q) : h[i] = f[i]
  BY <1>4
<1>6. \A i \in 0 .. Len(q) : Loop(q, t, h)[i] = Loop(q, t, f)[i]
  BY <1>5 DEF Loop
<1>7. h = Loop(q, t, h)
  BY <1>6 DEF Loop
<1>8. QED
  BY <1>7

\* Drained is the value of the loop after its last turn.
LEMMA DrainedIsLoop ==
  ASSUME NEW q, NEW t, Len(q) \in Nat
  PROVE  \E done : done = Loop(q, t, done) /\ Drained(q, t) = done[Len(q)]
<1> DEFINE h == CHOOSE done : done = Loop(q, t, done)
<1>1. h = Loop(q, t, h)
  BY LoopExists
<1>2. Drained(q, t) = h[Len(q)]
  BY DEF Drained, Loop, Nothing
<1>3. QED
  BY <1>1, <1>2

\* s lists what is in the first n places of q and is due, or is not, in the
\* order of q.
Lists(s, q, n, t, due) ==
  /\ s \in Seq(InFlight)
  /\ \A k \in 1 .. Len(s) : \E j \in 1 .. n :
       /\ s[k] = q[j] /\ IsDue(q[j], t) = due
       /\ \A i \in 1 .. j - 1 : IsDue(q[i], t) = due =>
            \E l \in 1 .. k - 1 : s[l] = q[i]
  /\ \A j \in 1 .. n : IsDue(q[j], t) = due =>
       \E k \in 1 .. Len(s) : s[k] = q[j]
  /\ \A k, l \in 1 .. Len(s) : k < l =>
       \E i, j \in 1 .. n : i < j /\ s[k] = q[i] /\ s[l] = q[j]

\* The loop appends the next message to the list it belongs to.
LEMMA ListsAppend ==
  ASSUME NEW q \in Seq(InFlight), NEW t, NEW due \in BOOLEAN,
         NEW n \in Nat, n + 1 <= Len(q), NEW s, Lists(s, q, n, t, due)
  PROVE  IF IsDue(q[n + 1], t) = due
         THEN Lists(Append(s, q[n + 1]), q, n + 1, t, due)
         ELSE Lists(s, q, n + 1, t, due)
<1>1. q[n + 1] \in InFlight /\ s \in Seq(InFlight) /\ Len(s) \in Nat
  BY DEF Lists
<1>2. CASE IsDue(q[n + 1], t) = due
  <2> DEFINE r == Append(s, q[n + 1])
  <2>1. /\ r \in Seq(InFlight) /\ Len(r) = Len(s) + 1
        /\ r[Len(s) + 1] = q[n + 1]
        /\ \A k \in 1 .. Len(s) : r[k] = s[k]
    BY <1>1
  <2> HIDE DEF r
  <2>2. ASSUME NEW k \in 1 .. Len(r)
        PROVE  \E j \in 1 .. n + 1 :
                 /\ r[k] = q[j] /\ IsDue(q[j], t) = due
                 /\ \A i \in 1 .. j - 1 : IsDue(q[i], t) = due =>
                      \E l \in 1 .. k - 1 : r[l] = q[i]
    <3>1. CASE k = Len(s) + 1
      <4>1. ASSUME NEW i \in 1 .. n, IsDue(q[i], t) = due
            PROVE  \E l \in 1 .. Len(s) : r[l] = q[i]
        BY <2>1, <4>1 DEF Lists
      <4>2. n + 1 \in 1 .. n + 1 /\ (n + 1) - 1 = n /\ k - 1 = Len(s)
        BY <1>1, <3>1
      <4>3. QED
        BY <1>2, <2>1, <3>1, <4>1, <4>2
    <3>2. CASE k \in 1 .. Len(s)
      <4>1. PICK j \in 1 .. n :
              /\ s[k] = q[j] /\ IsDue(q[j], t) = due
              /\ \A i \in 1 .. j - 1 : IsDue(q[i], t) = due =>
                   \E l \in 1 .. k - 1 : s[l] = q[i]
        BY <3>2 DEF Lists
      <4>2. \A l \in 1 .. k - 1 : l \in 1 .. Len(s) /\ r[l] = s[l]
        <5>1. \A l \in 1 .. k - 1 : l \in 1 .. Len(s)
          BY <1>1, <3>2
        <5>2. QED
          BY <2>1, <5>1
      <4>3. j \in 1 .. n + 1 /\ r[k] = s[k]
        BY <2>1, <3>2
      <4>4. QED
        BY <4>1, <4>2, <4>3
    <3>3. QED
      BY <1>1, <2>1, <2>2, <3>1, <3>2
  <2>3. ASSUME NEW j \in 1 .. n + 1, IsDue(q[j], t) = due
        PROVE  \E k \in 1 .. Len(r) : r[k] = q[j]
    <3>1. CASE j = n + 1
      BY <1>1, <2>1, <3>1
    <3>2. CASE j \in 1 .. n
      <4>1. PICK k \in 1 .. Len(s) : s[k] = q[j]
        BY <2>3, <3>2 DEF Lists
      <4>2. k \in 1 .. Len(r) /\ r[k] = q[j]
        BY <1>1, <2>1, <4>1
      <4>3. QED
        BY <4>2
    <3>3. QED
      BY <3>1, <3>2
  <2>a. ASSUME NEW k \in 1 .. Len(r), NEW l \in 1 .. Len(r), k < l
        PROVE  \E i, j \in 1 .. n + 1 : i < j /\ r[k] = q[i] /\ r[l] = q[j]
    <3>1. k \in 1 .. Len(s) /\ r[k] = s[k]
      BY <1>1, <2>1, <2>a
    <3>2. CASE l = Len(s) + 1
      <4>1. PICK i \in 1 .. n : s[k] = q[i]
        BY <3>1 DEF Lists
      <4>2. i \in 1 .. n + 1 /\ n + 1 \in 1 .. n + 1 /\ i < n + 1
        OBVIOUS
      <4>3. QED
        BY <2>1, <3>1, <3>2, <4>1, <4>2
    <3>3. CASE l \in 1 .. Len(s)
      <4>1. PICK i, j \in 1 .. n : i < j /\ s[k] = q[i] /\ s[l] = q[j]
        BY <2>a, <3>1, <3>3 DEF Lists
      <4>2. i \in 1 .. n + 1 /\ j \in 1 .. n + 1 /\ r[l] = s[l]
        BY <2>1, <3>3
      <4>3. QED
        BY <3>1, <4>1, <4>2
    <3>4. QED
      BY <1>1, <2>1, <3>2, <3>3
  <2>4. Lists(r, q, n + 1, t, due)
    BY <2>1, <2>2, <2>3, <2>a DEF Lists
  <2>5. QED
    BY <1>2, <2>4 DEF r
<1>3. CASE IsDue(q[n + 1], t) # due
  <2>1. \A j \in 1 .. n + 1 : IsDue(q[j], t) = due => j \in 1 .. n
    BY <1>3
  <2>2. \A j \in 1 .. n : j \in 1 .. n + 1
    OBVIOUS
  <2>3. /\ \A k \in 1 .. Len(s) : \E j \in 1 .. n + 1 :
             /\ s[k] = q[j] /\ IsDue(q[j], t) = due
             /\ \A i \in 1 .. j - 1 : IsDue(q[i], t) = due =>
                  \E l \in 1 .. k - 1 : s[l] = q[i]
        /\ \A j \in 1 .. n + 1 : IsDue(q[j], t) = due =>
             \E k \in 1 .. Len(s) : s[k] = q[j]
    BY <2>1, <2>2 DEF Lists
  <2>4. \A k, l \in 1 .. Len(s) : k < l =>
          \E i, j \in 1 .. n + 1 : i < j /\ s[k] = q[i] /\ s[l] = q[j]
    BY <2>2 DEF Lists
  <2>5. QED
    BY <1>1, <1>3, <2>3, <2>4 DEF Lists
<1>4. QED
  BY <1>2, <1>3

\* d holds the first n messages of q, those that are due and those that are not.
Splits(d, q, n, t) ==
  /\ d = [ready |-> d.ready, remaining |-> d.remaining]
  /\ Lists(d.ready, q, n, t, TRUE)
  /\ Lists(d.remaining, q, n, t, FALSE)
  /\ Len(d.ready) + Len(d.remaining) = n

LEMMA SortedSplits ==
  ASSUME NEW q \in Seq(InFlight), NEW t \in Nat, NEW n \in Nat, n + 1 <= Len(q),
         NEW d, Splits(d, q, n, t)
  PROVE  Splits(Sorted(d, q[n + 1], t), q, n + 1, t)
<1>1. PICK a, b : a = d.ready /\ b = d.remaining
  OBVIOUS
<1>2. PICK m : m = q[n + 1]
  OBVIOUS
<1>3. /\ d = [ready |-> a, remaining |-> b]
      /\ Lists(a, q, n, t, TRUE) /\ Lists(b, q, n, t, FALSE)
      /\ Len(a) + Len(b) = n
  BY <1>1 DEF Splits
<1>4. a \in Seq(InFlight) /\ b \in Seq(InFlight) /\ m \in InFlight
  BY <1>2, <1>3 DEF Lists
<1>5. /\ Len(a) \in Nat /\ Len(Append(a, m)) = Len(a) + 1
      /\ Len(b) \in Nat /\ Len(Append(b, m)) = Len(b) + 1
  BY <1>4
<1>6. CASE IsDue(m, t)
  <2>1. Sorted(d, m, t) = [ready |-> Append(a, m), remaining |-> b]
    BY <1>3, <1>6 DEF Sorted
  <2>2. IsDue(q[n + 1], t) = TRUE /\ IsDue(q[n + 1], t) # FALSE
    BY <1>2, <1>6 DEF IsDue
  <2>3. Lists(Append(a, m), q, n + 1, t, TRUE)
    BY <1>2, <1>3, <2>2, ListsAppend
  <2>4. Lists(b, q, n + 1, t, FALSE)
    BY <1>3, <2>2, ListsAppend
  <2>5. Len(Append(a, m)) + Len(b) = n + 1
    BY <1>3, <1>5
  <2>6. Splits([ready |-> Append(a, m), remaining |-> b], q, n + 1, t)
    BY <2>3, <2>4, <2>5 DEF Splits
  <2>7. QED
    BY <1>2, <2>1, <2>6
<1>7. CASE ~IsDue(m, t)
  <2>1. Sorted(d, m, t) = [ready |-> a, remaining |-> Append(b, m)]
    BY <1>3, <1>7 DEF Sorted
  <2>2. IsDue(q[n + 1], t) = FALSE /\ IsDue(q[n + 1], t) # TRUE
    <3>1. IsDue(m, t) \in BOOLEAN
      BY DEF IsDue
    <3>2. IsDue(m, t) = FALSE
      BY <1>7, <3>1
    <3>3. QED
      BY <1>2, <3>2
  <2>3. Lists(Append(b, m), q, n + 1, t, FALSE)
    BY <1>2, <1>3, <2>2, ListsAppend
  <2>4. Lists(a, q, n + 1, t, TRUE)
    BY <1>3, <2>2, ListsAppend
  <2>5. Len(a) + Len(Append(b, m)) = n + 1
    BY <1>3, <1>5
  <2>6. Splits([ready |-> a, remaining |-> Append(b, m)], q, n + 1, t)
    BY <2>3, <2>4, <2>5 DEF Splits
  <2>7. QED
    BY <1>2, <2>1, <2>6
<1>8. QED
  BY <1>2, <1>6, <1>7

\* The loop splits the queue into what is due and what is not, loses nothing,
\* and keeps the order in both parts (deliver).
LEMMA DrainedSplits ==
  ASSUME NEW q \in Seq(InFlight), NEW t \in Nat
  PROVE  Splits(Drained(q, t), q, Len(q), t)
<1>1. PICK done : done = Loop(q, t, done) /\ Drained(q, t) = done[Len(q)]
  BY DrainedIsLoop
<1>2. done[0] = Nothing
  <2>1. Loop(q, t, done)[0] = Nothing
    BY DEF Loop
  <2>2. QED
    BY <1>1, <2>1
<1>3. ASSUME NEW n \in Nat, n + 1 <= Len(q)
      PROVE  done[n + 1] = Sorted(done[n], q[n + 1], t)
  <2>1. Loop(q, t, done)[n + 1] = Sorted(done[(n + 1) - 1], q[n + 1], t)
    BY <1>3 DEF Loop
  <2>2. QED
    BY <1>1, <2>1
<1> DEFINE T == {n \in Nat : n <= Len(q) => Splits(done[n], q, n, t)}
<1>4. 0 \in T
  <2>1. Splits(Nothing, q, 0, t)
    BY DEF Nothing, Lists, Splits
  <2>2. QED
    BY <1>2, <2>1
<1>5. ASSUME NEW n \in Nat, n \in T PROVE n + 1 \in T
  <2>1. CASE n + 1 <= Len(q)
    <3>1. Splits(done[n], q, n, t)
      BY <1>5, <2>1
    <3>2. QED
      BY <1>3, <2>1, <3>1, SortedSplits
  <2>2. CASE ~(n + 1 <= Len(q))
    BY <2>2
  <2>3. QED
    BY <2>1, <2>2
<1>6. Nat \subseteq T
  <2> HIDE DEF T
  <2> QED
    BY <1>4, <1>5, NumberInduction
<1>7. Len(q) \in Nat /\ Len(q) <= Len(q)
  OBVIOUS
<1>8. QED
  BY <1>1, <1>6, <1>7


-----------------------------------------------------------------------------
(* Counters, copies and latencies.                                         *)

IsOriginalOf(o, m) == o.payload = m.payload /\ ~o.copy

\* Ahead of a copy in the queue is its original, due no later, unless that one
\* has already been received.
CopiesFollow ==
  \A j \in DOMAIN inFlight : inFlight[j].copy =>
    \/ \E i \in 1 .. j - 1 : /\ IsOriginalOf(inFlight[i], inFlight[j])
                             /\ inFlight[i].at <= inFlight[j].at
    \/ \E i \in DOMAIN received : IsOriginalOf(received[i].msg, inFlight[j])

Draws(m) == IF m.copy THEN 2 ELSE 1

\* What is in flight was drawn with a latency in the range and is not due,
\* except that a message sent since the last turn may already be.
OnTime ==
  \A j \in DOMAIN inFlight : LET m == inFlight[j] IN
    /\ m.at >= m.sentAt + Draws(m) * MinLatency
    /\ m.at <= m.sentAt + Draws(m) * MaxLatency
    /\ m.sentAt <= now
    /\ m.at > now \/ m.sentAt = now

\* The queue is in the order of sending, and whoever was received ahead of a
\* message sent earlier that is still in the queue was due before it.
InOrder ==
  /\ \A j \in DOMAIN inFlight : inFlight[j].payload < sends
  /\ \A i, j \in DOMAIN inFlight :
       i < j => inFlight[i].payload <= inFlight[j].payload
  /\ \A i \in DOMAIN received : received[i].msg.payload < sends
  /\ \A i \in DOMAIN received, j \in DOMAIN inFlight :
       inFlight[j].payload < received[i].msg.payload =>
         received[i].msg.at < inFlight[j].at

NetInv ==
  /\ TypeOK /\ Accounting /\ CopiesFollow /\ OnTime /\ InOrder
  /\ CopyAfterOriginal /\ LatencyAsDrawn /\ OvertakenOnlyByFaster

\* Appending to a sequence keeps what was there in its place.
LEMMA Appended ==
  ASSUME NEW S, NEW q \in Seq(S), NEW r \in Seq(S)
  PROVE  /\ q \o r \in Seq(S)
         /\ Len(q) \in Nat /\ Len(r) \in Nat
         /\ Len(q \o r) = Len(q) + Len(r)
         /\ DOMAIN (q \o r) = 1 .. Len(q) + Len(r)
         /\ \A i \in 1 .. Len(q) : (q \o r)[i] = q[i]
         /\ \A i \in Len(q) + 1 .. Len(q) + Len(r) : (q \o r)[i] = r[i - Len(q)]
OBVIOUS

LEMMA InSeq ==
  ASSUME NEW S, NEW q \in Seq(S)
  PROVE  \A i \in DOMAIN q : q[i] \in S
OBVIOUS

\* Every payload is the number of a send.
LEMMA Numbered ==
  ASSUME TypeOK
  PROVE  /\ \A j \in DOMAIN inFlight : inFlight[j].payload \in Nat
         /\ \A i \in DOMAIN received : received[i].msg.payload \in Nat
<1>1. \A j \in DOMAIN inFlight : inFlight[j] \in InFlight
  BY InSeq DEF TypeOK
<1>2. PICK S : S = [msg : InFlight, tick : Nat]
  OBVIOUS
<1>3. \A i \in DOMAIN received : received[i] \in S
  BY <1>2, InSeq DEF TypeOK
<1>4. \A r \in S : r.msg \in InFlight
  BY <1>2
<1>5. QED
  BY <1>1, <1>3, <1>4 DEF InFlight

\* A step that only cuts or heals.
LEMMA NetFrame ==
  ASSUME NetInv, partitions' \subseteq Peers \X Peers, cuts' \in 0 .. MaxCuts,
         UNCHANGED <<inFlight, stats, now, sends, received>>
  PROVE  NetInv'
<1>1. TypeOK' /\ Accounting'
  BY DEF NetInv, TypeOK, Accounting, stats
<1>2. CopiesFollow' /\ OnTime' /\ CopyAfterOriginal' /\ LatencyAsDrawn'
  BY DEF NetInv, CopiesFollow, OnTime, CopyAfterOriginal, LatencyAsDrawn, Draws,
         IsOriginalOf
<1>3. InOrder' /\ OvertakenOnlyByFaster'
  BY DEF NetInv, InOrder, OvertakenOnlyByFaster
<1>4. QED
  BY <1>1, <1>2, <1>3 DEF NetInv

\* Each way a call of send can end leaves the message in one counter or in the
\* queue, and a copy right behind its original and due no earlier.
LEMMA SendKeeps ==
  ASSUME NetInv, NEW from \in Peers, NEW to \in Peers, Send(from, to)
  PROVE  NetInv'
<1>0. /\ TypeOK /\ Accounting /\ CopiesFollow /\ OnTime /\ InOrder
      /\ CopyAfterOriginal /\ LatencyAsDrawn /\ OvertakenOnlyByFaster
  BY DEF NetInv
<1>1. /\ sends' = sends + 1 /\ sends' \in 0 .. MaxSends /\ sends \in Nat
      /\ UNCHANGED <<partitions, now, cuts, received>>
      /\ delivered \in Nat /\ dropped \in Nat /\ duplicated \in Nat
      /\ now \in Nat /\ inFlight \in Seq(InFlight) /\ Len(inFlight) \in Nat
  BY <1>0, NetworkAssumption DEF Send, TypeOK
<1>2. CASE Drop
  <2>1. /\ dropped' = dropped + 1
        /\ UNCHANGED <<inFlight, delivered, duplicated>>
    BY <1>2 DEF Drop
  <2>2. TypeOK' /\ Accounting'
    <3>1. dropped' \in Nat
      BY <1>1, <2>1
    <3>2. TypeOK'
      BY <1>0, <1>1, <2>1, <3>1 DEF TypeOK
    <3>3. sends + duplicated = dropped + delivered + Len(inFlight)
      BY <1>0 DEF Accounting
    <3>4. Accounting'
      BY <1>1, <2>1, <3>3 DEF Accounting
    <3>5. QED
      BY <3>2, <3>4
  <2>3. CopiesFollow' /\ OnTime' /\ CopyAfterOriginal' /\ LatencyAsDrawn'
    BY <1>0, <1>1, <2>1 DEF CopiesFollow, OnTime, CopyAfterOriginal, LatencyAsDrawn,
                      Draws, IsOriginalOf
  <2>4. InOrder'
    <3>1. \A m \in Nat : m < sends => m < sends'
      BY <1>1
    <3>2. QED
      BY <1>0, <1>1, <2>1, <3>1, Numbered DEF InOrder
  <2>5. OvertakenOnlyByFaster'
    BY <1>0, <1>1 DEF OvertakenOnlyByFaster
  <2>6. QED
    BY <2>2, <2>3, <2>4, <2>5 DEF NetInv
<1>3. ASSUME NEW latency \in Latencies, NEW copies \in Copies(from, to, latency),
             inFlight' = inFlight
                \o <<Mail(from, to, now + latency, FALSE)>> \o copies,
             duplicated' = duplicated + Len(copies),
             UNCHANGED <<delivered, dropped>>
      PROVE  NetInv'
  <2>1. latency \in Nat /\ latency >= MinLatency /\ latency <= MaxLatency
    BY NetworkAssumption DEF Latencies
  <2>2. PICK extra \in Nat :
          /\ extra >= MinLatency /\ extra <= MaxLatency
          /\ copies = <<>>
             \/ copies = <<Mail(from, to, now + latency + extra, TRUE)>>
    <3>1. CASE copies = <<>>
      <4>1. /\ MinLatency \in Nat /\ MinLatency >= MinLatency
            /\ MinLatency <= MaxLatency
        BY NetworkAssumption
      <4>2. QED
        BY <3>1, <4>1
    <3>2. CASE \E extra \in Latencies :
            copies = <<Mail(from, to, now + latency + extra, TRUE)>>
      <4>1. \A extra \in Latencies :
              extra \in Nat /\ extra >= MinLatency /\ extra <= MaxLatency
        BY NetworkAssumption DEF Latencies
      <4>2. QED
        BY <3>2, <4>1
    <3>3. \/ copies = <<>>
          \/ \E extra \in Latencies :
               copies = <<Mail(from, to, now + latency + extra, TRUE)>>
      BY DEF Copies
    <3>4. QED
      BY <3>1, <3>2, <3>3
  <2>a. PICK o, c, n : /\ o = Mail(from, to, now + latency, FALSE)
                       /\ c = Mail(from, to, now + latency + extra, TRUE)
                       /\ n = Len(inFlight)
    OBVIOUS
  <2>3. /\ o \in InFlight /\ c \in InFlight
        /\ o.payload = sends /\ c.payload = sends /\ ~o.copy /\ c.copy
        /\ o.sentAt = now /\ c.sentAt = now
        /\ o.at = now + latency /\ c.at = now + latency + extra
    BY <1>1, <2>1, <2>2, <2>a DEF Mail, InFlight
  <2>4. /\ inFlight' \in Seq(InFlight)
        /\ Len(inFlight') = n + 1 + Len(copies)
        /\ Len(copies) \in {0, 1}
        /\ \A i \in 1 .. n : inFlight'[i] = inFlight[i]
        /\ inFlight'[n + 1] = o
        /\ Len(copies) = 1 => inFlight'[n + 2] = c
    <3>0. copies = <<>> \/ copies = <<c>>
      BY <2>2, <2>a
    <3>1. copies \in Seq(InFlight) /\ Len(copies) \in {0, 1}
          /\ (Len(copies) = 1 => copies[1] = c)
      <4>1. CASE copies = <<>>
        BY <4>1
      <4>2. CASE copies = <<c>>
        BY <2>3, <4>2
      <4>3. QED
        BY <3>0, <4>1, <4>2
    <3>2. PICK q : q = inFlight \o <<o>>
      OBVIOUS
    <3>3. /\ q \in Seq(InFlight) /\ Len(q) = n + 1 /\ n \in Nat
          /\ \A i \in 1 .. n : q[i] = inFlight[i]
          /\ q[n + 1] = o
      <4>1. PICK r : r = <<o>>
        OBVIOUS
      <4>2. r \in Seq(InFlight) /\ Len(r) = 1 /\ r[1] = o
        BY <2>3, <4>1
      <4>3. n \in Nat /\ inFlight \in Seq(InFlight) /\ n = Len(inFlight)
        BY <1>1, <2>a
      <4>4. /\ q \in Seq(InFlight) /\ Len(q) = n + 1
            /\ \A i \in 1 .. n : q[i] = inFlight[i]
            /\ \A i \in n + 1 .. n + Len(r) : q[i] = r[i - n]
        BY <3>2, <4>1, <4>2, <4>3, Appended
      <4>5. n + 1 \in n + 1 .. n + Len(r) /\ (n + 1) - n = 1
        BY <4>2, <4>3
      <4>6. QED
        BY <4>2, <4>3, <4>4, <4>5
    <3>4. inFlight' = q \o copies
      BY <1>3, <2>a, <3>2
    <3>5. /\ q \o copies \in Seq(InFlight)
          /\ Len(q \o copies) = n + 1 + Len(copies)
          /\ \A i \in 1 .. n + 1 : (q \o copies)[i] = q[i]
          /\ \A i \in Len(q) + 1 .. Len(q) + Len(copies) :
               (q \o copies)[i] = copies[i - Len(q)]
      BY <3>1, <3>3, Appended
    <3>6. \A i \in 1 .. n : i \in 1 .. n + 1
      BY <3>3
    <3>7. Len(copies) = 1 => (q \o copies)[n + 2] = c
      <4>1. Len(copies) = 1 => n + 2 \in Len(q) + 1 .. Len(q) + Len(copies)
                               /\ (n + 2) - Len(q) = 1
        BY <3>3
      <4>2. QED
        BY <3>1, <3>5, <4>1
    <3>8. n + 1 \in 1 .. n + 1
      BY <3>3
    <3>9. QED
      BY <3>1, <3>3, <3>4, <3>5, <3>6, <3>7, <3>8
  <2>5. TypeOK' /\ Accounting'
    <3>1. duplicated' \in Nat
      BY <1>1, <1>3, <2>4
    <3>2. TypeOK'
      BY <1>0, <1>1, <1>3, <2>4, <3>1 DEF TypeOK
    <3>3. sends + duplicated = dropped + delivered + n
      BY <1>0, <2>a DEF Accounting
    <3>4. /\ n \in Nat /\ sends \in Nat /\ duplicated \in Nat
          /\ delivered \in Nat /\ dropped \in Nat
          /\ Len(copies) \in Nat /\ Len(inFlight') = n + 1 + Len(copies)
          /\ sends' = sends + 1 /\ duplicated' = duplicated + Len(copies)
          /\ dropped' = dropped /\ delivered' = delivered
      BY <1>1, <1>3, <2>4, <2>a
    <3>6. sends' + duplicated' = dropped' + delivered' + Len(inFlight')
      BY <3>3, <3>4
    <3>7. Accounting'
      BY <3>6 DEF Accounting
    <3>8. QED
      BY <3>2, <3>7
  <2>6. \A j \in DOMAIN inFlight' :
          j \in 1 .. n \/ j = n + 1 \/ (j = n + 2 /\ Len(copies) = 1)
    <3>1. DOMAIN inFlight' = 1 .. Len(inFlight') /\ n \in Nat
      BY <1>1, <2>4, <2>a
    <3>2. CASE Len(copies) = 0
      BY <2>4, <3>1, <3>2
    <3>3. CASE Len(copies) = 1
      BY <2>4, <3>1, <3>3
    <3>4. QED
      BY <2>4, <3>2, <3>3
  <2>7. CopiesFollow'
    <3> SUFFICES ASSUME NEW j \in DOMAIN inFlight', inFlight'[j].copy
                 PROVE  \/ \E i \in 1 .. j - 1 :
                             /\ IsOriginalOf(inFlight'[i], inFlight'[j])
                             /\ inFlight'[i].at <= inFlight'[j].at
                        \/ \E i \in DOMAIN received :
                             IsOriginalOf(received[i].msg, inFlight'[j])
      BY <1>1 DEF CopiesFollow, IsOriginalOf
    <3>1. CASE j \in 1 .. n
      <4>1. inFlight'[j] = inFlight[j] /\ j \in DOMAIN inFlight
        BY <1>1, <2>4, <2>a, <3>1
      <4>2. \A i \in 1 .. j - 1 : i \in 1 .. n /\ inFlight'[i] = inFlight[i]
        BY <1>1, <2>4, <2>a, <3>1
      <4>3. QED
        BY <1>0, <4>1, <4>2 DEF CopiesFollow
    <3>2. CASE j = n + 1
      BY <2>3, <2>4, <3>2
    <3>3. CASE j = n + 2 /\ Len(copies) = 1
      <4>1. n + 1 \in 1 .. j - 1
        BY <1>1, <2>a, <3>3
      <4>2. IsOriginalOf(o, c) /\ o.at <= c.at
        BY <1>1, <2>1, <2>2, <2>3 DEF IsOriginalOf
      <4>3. QED
        BY <2>4, <3>3, <4>1, <4>2
    <3>4. QED
      BY <2>6, <3>1, <3>2, <3>3
  <2>8. OnTime'
    <3> SUFFICES ASSUME NEW j \in DOMAIN inFlight'
                 PROVE  LET m == inFlight'[j]
                        IN  /\ m.at >= m.sentAt + Draws(m) * MinLatency
                            /\ m.at <= m.sentAt + Draws(m) * MaxLatency
                            /\ m.sentAt <= now
                            /\ m.at > now \/ m.sentAt = now
      BY <1>1 DEF OnTime, Draws
    <3>1. CASE j \in 1 .. n
      BY <1>0, <1>1, <2>4, <2>a, <3>1 DEF OnTime
    <3>2. CASE j = n + 1
      <4>1. Draws(o) * MinLatency = MinLatency /\ Draws(o) * MaxLatency = MaxLatency
        BY <2>3, NetworkAssumption DEF Draws
      <4>2. QED
        BY <1>1, <2>1, <2>3, <2>4, <3>2, <4>1, NetworkAssumption
    <3>3. CASE j = n + 2 /\ Len(copies) = 1
      <4>1. /\ Draws(c) * MinLatency = MinLatency + MinLatency
            /\ Draws(c) * MaxLatency = MaxLatency + MaxLatency
        BY <2>3, NetworkAssumption DEF Draws
      <4>2. QED
        BY <1>1, <2>1, <2>2, <2>3, <2>4, <3>3, <4>1, NetworkAssumption
    <3>4. QED
      BY <2>6, <3>1, <3>2, <3>3
  <2>b. \A j \in DOMAIN inFlight' :
          \/ inFlight'[j].payload = sends /\ \A i \in 1 .. n : i < j
          \/ j \in DOMAIN inFlight /\ inFlight'[j] = inFlight[j]
    <3>1. DOMAIN inFlight = 1 .. n /\ n \in Nat
      BY <1>1, <2>a
    <3>2. QED
      BY <2>3, <2>4, <2>6, <3>1
  <2>c. /\ \A j \in DOMAIN inFlight : inFlight[j].payload \in Nat
        /\ \A i \in DOMAIN received : received[i].msg.payload \in Nat
    BY <1>0, Numbered
  <2>9. InOrder'
    <3>1. \A j \in DOMAIN inFlight' : inFlight'[j].payload < sends'
      BY <1>0, <1>1, <2>b, <2>c DEF InOrder
    <3>2. ASSUME NEW i \in DOMAIN inFlight', NEW j \in DOMAIN inFlight', i < j
          PROVE  inFlight'[i].payload <= inFlight'[j].payload
      <4>1. CASE inFlight'[j].payload = sends
        <5>1. inFlight'[i].payload = sends \/ inFlight'[i].payload < sends
          BY <1>0, <2>b DEF InOrder
        <5>2. inFlight'[i].payload \in Nat
          BY <1>1, <2>b, <2>c
        <5>3. QED
          BY <1>1, <4>1, <5>1, <5>2
      <4>2. CASE j \in DOMAIN inFlight /\ inFlight'[j] = inFlight[j]
        <5>1. j \in 1 .. n /\ n \in Nat
          BY <1>1, <2>a, <4>2
        <5>2. i \in DOMAIN inFlight /\ inFlight'[i] = inFlight[i]
          <6>1. i \in Nat
            BY <2>6, <5>1
          <6>2. ~(j < i)
            BY <3>2, <5>1, <6>1
          <6>3. QED
            BY <2>b, <5>1, <6>2
        <5>3. QED
          BY <1>0, <3>2, <4>2, <5>2 DEF InOrder
      <4>3. QED
        BY <2>b, <4>1, <4>2
    <3>3. \A i \in DOMAIN received : received[i].msg.payload < sends'
      BY <1>0, <1>1, <2>c DEF InOrder
    <3>4. ASSUME NEW i \in DOMAIN received, NEW j \in DOMAIN inFlight',
                 inFlight'[j].payload < received[i].msg.payload
          PROVE  received[i].msg.at < inFlight'[j].at
      <4>1. inFlight'[j].payload # sends
        <5>1. received[i].msg.payload < sends
          BY <1>0 DEF InOrder
        <5>2. QED
          BY <1>1, <2>c, <3>4, <5>1
      <4>2. j \in DOMAIN inFlight /\ inFlight'[j] = inFlight[j]
        BY <2>b, <4>1
      <4>3. QED
        BY <1>0, <3>4, <4>2 DEF InOrder
    <3>5. QED
      BY <1>1, <3>1, <3>2, <3>3, <3>4 DEF InOrder
  <2>10. CopyAfterOriginal' /\ LatencyAsDrawn' /\ OvertakenOnlyByFaster'
    BY <1>0, <1>1 DEF CopyAfterOriginal, LatencyAsDrawn, OvertakenOnlyByFaster
  <2>11. QED
    BY <2>5, <2>7, <2>8, <2>9, <2>10 DEF NetInv
<1>4. QED
  BY <1>2, <1>3 DEF Send

\* A turn hands over what is due, in the order of sending: a copy finds its
\* original received before or handed over ahead of it, and nothing that was
\* not due a turn ago is late (deliver).
LEMMA DeliverKeeps ==
  ASSUME NetInv, DeliverTurn PROVE NetInv'
<1>0. /\ TypeOK /\ Accounting /\ CopiesFollow /\ OnTime /\ InOrder
      /\ CopyAfterOriginal /\ LatencyAsDrawn /\ OvertakenOnlyByFaster
  BY DEF NetInv
<1>a. PICK t, n, ready, rest : /\ t = now + 1 /\ n = Len(received)
                               /\ ready = Drained(inFlight, t).ready
                               /\ rest = Drained(inFlight, t).remaining
  OBVIOUS
<1>1. /\ now \in Nat /\ now' = t /\ t = now + 1 /\ now' \in 0 .. MaxNow
      /\ UNCHANGED <<partitions, dropped, duplicated, sends, cuts>>
      /\ delivered \in Nat /\ dropped \in Nat /\ duplicated \in Nat
      /\ sends \in Nat /\ n \in Nat
      /\ inFlight \in Seq(InFlight) /\ Len(inFlight) \in Nat
      /\ received \in Seq([msg : InFlight, tick : Nat])
  BY <1>0, <1>a, NetworkAssumption DEF DeliverTurn, TypeOK
<1>2. /\ inFlight' = rest
      /\ delivered' = delivered + Len(ready)
      /\ received' = received
           \o [i \in DOMAIN ready |-> [msg |-> ready[i], tick |-> t]]
  BY <1>a DEF DeliverTurn
<1>3. /\ Lists(ready, inFlight, Len(inFlight), t, TRUE)
      /\ Lists(rest, inFlight, Len(inFlight), t, FALSE)
      /\ Len(ready) + Len(rest) = Len(inFlight)
  <2>1. t \in Nat
    BY <1>1
  <2>2. QED
    BY <1>1, <1>a, <2>1, DrainedSplits DEF Splits
<1>4. /\ ready \in Seq(InFlight) /\ Len(ready) \in Nat
      /\ rest \in Seq(InFlight) /\ Len(rest) \in Nat
  BY <1>3 DEF Lists
<1>5. /\ received' \in Seq([msg : InFlight, tick : Nat])
      /\ Len(received') = n + Len(ready)
      /\ \A i \in 1 .. n : received'[i] = received[i]
      /\ \A j \in n + 1 .. n + Len(ready) :
           received'[j] = [msg |-> ready[j - n], tick |-> t]
  <2>0. PICK r : r = [i \in DOMAIN ready |-> [msg |-> ready[i], tick |-> t]]
    OBVIOUS
  <2>1. /\ r \in Seq([msg : InFlight, tick : Nat]) /\ Len(r) = Len(ready)
        /\ \A k \in 1 .. Len(ready) : r[k] = [msg |-> ready[k], tick |-> t]
    <3>1. r = [i \in 1 .. Len(ready) |-> [msg |-> ready[i], tick |-> t]]
      BY <1>4, <2>0
    <3>2. \A i \in 1 .. Len(ready) :
            [msg |-> ready[i], tick |-> t] \in [msg : InFlight, tick : Nat]
      BY <1>1, <1>4
    <3>3. QED
      BY <1>4, <3>1, <3>2
  <2>2. received' = received \o r
    BY <1>2, <2>0
  <2>a. PICK S : S = [msg : InFlight, tick : Nat]
    OBVIOUS
  <2>b. received \in Seq(S) /\ r \in Seq(S)
    BY <1>1, <2>1, <2>a
  <2>3. /\ received \o r \in Seq(S)
        /\ Len(received \o r) = Len(received) + Len(r)
        /\ \A i \in 1 .. Len(received) : (received \o r)[i] = received[i]
        /\ \A i \in Len(received) + 1 .. Len(received) + Len(r) :
             (received \o r)[i] = r[i - Len(received)]
    BY <2>b, Appended
  <2>4. \A j \in n + 1 .. n + Len(ready) : j - n \in 1 .. Len(ready)
    BY <1>1, <1>4
  <2>5. QED
    BY <1>a, <2>1, <2>2, <2>3, <2>4, <2>a
<1>b. DOMAIN received' = 1 .. n + Len(ready)
  <2>1. \A r : r \in Seq([msg : InFlight, tick : Nat]) => DOMAIN r = 1 .. Len(r)
    OBVIOUS
  <2>2. QED
    BY <1>5, <2>1
<1>c. \A i \in 1 .. n : i \in DOMAIN received' /\ received'[i] = received[i]
  <2> SUFFICES ASSUME NEW i \in 1 .. n
               PROVE  i \in DOMAIN received' /\ received'[i] = received[i]
    OBVIOUS
  <2>1. n \in Nat /\ Len(ready) \in Nat
    BY <1>1, <1>4
  <2>2. i \in 1 .. n + Len(ready)
    BY <2>1
  <2>3. received'[i] = received[i]
    BY <1>5
  <2>4. QED
    BY <2>2, <2>3, <1>b
<1>6. TypeOK' /\ Accounting'
  <2>1. delivered' \in Nat
    BY <1>1, <1>2, <1>4
  <2>2. TypeOK'
    BY <1>0, <1>1, <1>2, <1>4, <1>5, <2>1 DEF TypeOK
  <2>3. sends + duplicated = dropped + delivered + Len(inFlight)
    BY <1>0 DEF Accounting
  <2>4. /\ sends' = sends /\ duplicated' = duplicated /\ dropped' = dropped
        /\ delivered' = delivered + Len(ready) /\ Len(inFlight') = Len(rest)
        /\ Len(ready) + Len(rest) = Len(inFlight)
        /\ Len(ready) \in Nat /\ Len(rest) \in Nat /\ delivered \in Nat
        /\ dropped \in Nat /\ sends \in Nat /\ duplicated \in Nat
    BY <1>1, <1>2, <1>3, <1>4
  <2>5. sends' + duplicated' = dropped' + delivered' + Len(inFlight')
    BY <2>3, <2>4
  <2>6. Accounting'
    BY <2>5 DEF Accounting
  <2>7. QED
    BY <2>2, <2>6
<1>7. \A j \in DOMAIN received' :
        j \in 1 .. n \/ \E k \in 1 .. Len(ready) : j = n + k
  <2> SUFFICES ASSUME NEW j \in 1 .. n + Len(ready), j \notin 1 .. n
               PROVE  \E k \in 1 .. Len(ready) : j = n + k
    BY <1>5
  <2>1. j - n \in 1 .. Len(ready) /\ j = n + (j - n)
    BY <1>1, <1>4
  <2>2. QED
    BY <2>1
<1>8. \A i \in 1 .. Len(inFlight) :
        /\ inFlight[i] \in InFlight /\ inFlight[i].at \in Nat
        /\ inFlight[i].sentAt \in Nat
        /\ IsDue(inFlight[i], t) = TRUE <=> inFlight[i].at <= t
        /\ IsDue(inFlight[i], t) = FALSE <=> inFlight[i].at > t
  <2> SUFFICES ASSUME NEW i \in 1 .. Len(inFlight)
               PROVE  /\ inFlight[i] \in InFlight /\ inFlight[i].at \in Nat
                      /\ inFlight[i].sentAt \in Nat
                      /\ IsDue(inFlight[i], t) = TRUE <=> inFlight[i].at <= t
                      /\ IsDue(inFlight[i], t) = FALSE <=> inFlight[i].at > t
    OBVIOUS
  <2>1. inFlight[i] \in InFlight
    BY <1>1
  <2>2. inFlight[i].at \in Nat /\ inFlight[i].sentAt \in Nat
    BY <2>1 DEF InFlight
  <2>3. (inFlight[i].at <= t) \in BOOLEAN
    OBVIOUS
  <2>4. /\ IsDue(inFlight[i], t) = TRUE <=> inFlight[i].at <= t
        /\ IsDue(inFlight[i], t) = FALSE <=> inFlight[i].at > t
    BY <1>1, <2>2, <2>3 DEF IsDue
  <2>5. QED
    BY <2>1, <2>2, <2>4
<1>9. CopyAfterOriginal'
  <2> SUFFICES ASSUME NEW j \in DOMAIN received', received'[j].msg.copy
               PROVE  \E i \in 1 .. j - 1 :
                        IsOriginalOf(received'[i].msg, received'[j].msg)
    BY DEF CopyAfterOriginal, IsOriginalOf
  <2>1. CASE j \in 1 .. n
    <3>1. PICK i \in 1 .. j - 1 : IsOriginalOf(received[i].msg, received[j].msg)
      <4>1. j \in DOMAIN received /\ received[j].msg.copy
        BY <1>1, <1>5, <1>a, <2>1
      <4>2. QED
        BY <1>0, <4>1 DEF CopyAfterOriginal, IsOriginalOf
    <3>2. i \in 1 .. n
      BY <1>1, <2>1
    <3>3. QED
      BY <1>5, <2>1, <3>1, <3>2
  <2>2. ASSUME NEW k \in 1 .. Len(ready), j = n + k
        PROVE  \E i \in 1 .. j - 1 :
                 IsOriginalOf(received'[i].msg, received'[j].msg)
    <3>1. received'[j].msg = ready[k]
      <4>1. j \in n + 1 .. n + Len(ready) /\ j - n = k
        BY <1>1, <1>4, <2>2
      <4>2. received'[j] = [msg |-> ready[j - n], tick |-> t]
        BY <1>5, <4>1
      <4>3. QED
        BY <4>1, <4>2
    <3>2. PICK p \in 1 .. Len(inFlight) :
            /\ ready[k] = inFlight[p] /\ IsDue(inFlight[p], t) = TRUE
            /\ \A i \in 1 .. p - 1 : IsDue(inFlight[i], t) = TRUE =>
                 \E l \in 1 .. k - 1 : ready[l] = inFlight[i]
      BY <1>3 DEF Lists
    <3>3. CASE \E i \in DOMAIN received :
                 IsOriginalOf(received[i].msg, inFlight[p])
      <4>1. PICK i \in 1 .. n : IsOriginalOf(received[i].msg, inFlight[p])
        BY <1>1, <1>a, <3>3
      <4>2. i \in 1 .. j - 1
        BY <1>1, <1>4, <2>2
      <4>3. received'[i] = received[i]
        BY <1>c
      <4>4. QED
        BY <3>1, <3>2, <4>1, <4>2, <4>3
    <3>4. CASE \E i \in 1 .. p - 1 :
                 /\ IsOriginalOf(inFlight[i], inFlight[p])
                 /\ inFlight[i].at <= inFlight[p].at
      <4>1. PICK i \in 1 .. p - 1 :
                 /\ IsOriginalOf(inFlight[i], inFlight[p])
                 /\ inFlight[i].at <= inFlight[p].at
        BY <3>4
      <4>2. i \in 1 .. Len(inFlight)
        BY <1>1
      <4>3. IsDue(inFlight[i], t) = TRUE
        BY <1>1, <1>8, <3>2, <4>1, <4>2
      <4>4. PICK l \in 1 .. k - 1 : ready[l] = inFlight[i]
        BY <3>2, <4>3
      <4>5. l \in 1 .. Len(ready) /\ n + l \in 1 .. j - 1
        BY <1>1, <1>4, <2>2
      <4>6. received'[n + l].msg = inFlight[i]
        <5>1. n + l \in n + 1 .. n + Len(ready) /\ (n + l) - n = l
          BY <1>1, <1>4, <4>5
        <5>2. received'[n + l] = [msg |-> ready[(n + l) - n], tick |-> t]
          BY <1>5, <5>1
        <5>3. QED
          BY <4>4, <5>1, <5>2
      <4>7. QED
        BY <3>1, <3>2, <4>1, <4>5, <4>6
    <3>5. p \in DOMAIN inFlight /\ inFlight[p].copy
      BY <1>1, <3>1, <3>2
    <3>6. QED
      BY <1>0, <3>3, <3>4, <3>5 DEF CopiesFollow
  <2>3. QED
    BY <1>7, <2>1, <2>2
<1>10. CopiesFollow'
  <2> SUFFICES ASSUME NEW j \in DOMAIN rest, rest[j].copy
               PROVE  \/ \E i \in 1 .. j - 1 : /\ IsOriginalOf(rest[i], rest[j])
                                               /\ rest[i].at <= rest[j].at
                      \/ \E i \in DOMAIN received' :
                           IsOriginalOf(received'[i].msg, rest[j])
    BY <1>2 DEF CopiesFollow, IsOriginalOf
  <2>0. j \in 1 .. Len(rest)
    BY <1>4
  <2>1. PICK p \in 1 .. Len(inFlight) :
          /\ rest[j] = inFlight[p] /\ IsDue(inFlight[p], t) = FALSE
          /\ \A i \in 1 .. p - 1 : IsDue(inFlight[i], t) = FALSE =>
               \E l \in 1 .. j - 1 : rest[l] = inFlight[i]
    BY <1>3, <2>0 DEF Lists
  <2>2. CASE \E i \in DOMAIN received :
               IsOriginalOf(received[i].msg, inFlight[p])
    <3>1. PICK i \in 1 .. n : IsOriginalOf(received[i].msg, inFlight[p])
      BY <1>1, <1>a, <2>2
    <3>2. i \in DOMAIN received' /\ received'[i] = received[i]
      BY <1>c
    <3>3. QED
      BY <2>1, <3>1, <3>2
  <2>3. ASSUME NEW i \in 1 .. p - 1,
               IsOriginalOf(inFlight[i], inFlight[p]),
               inFlight[i].at <= inFlight[p].at
        PROVE  \/ \E l \in 1 .. j - 1 : /\ IsOriginalOf(rest[l], rest[j])
                                        /\ rest[l].at <= rest[j].at
               \/ \E l \in DOMAIN received' :
                    IsOriginalOf(received'[l].msg, rest[j])
    <3>1. i \in 1 .. Len(inFlight)
      BY <1>1
    <3>2. CASE IsDue(inFlight[i], t) = TRUE
      <4>1. PICK k \in 1 .. Len(ready) : ready[k] = inFlight[i]
        BY <1>3, <3>1, <3>2 DEF Lists
      <4>2. n + k \in DOMAIN received' /\ received'[n + k].msg = inFlight[i]
        <5>1. n + k \in n + 1 .. n + Len(ready) /\ (n + k) - n = k
          BY <1>1, <1>4
        <5>3. received'[n + k] = [msg |-> ready[(n + k) - n], tick |-> t]
          BY <1>5, <5>1
        <5>4. received'[n + k].msg = inFlight[i]
          BY <4>1, <5>1, <5>3
        <5>5. n + k \in 1 .. n + Len(ready)
          BY <1>1, <1>4
        <5>6. QED
          BY <1>b, <5>4, <5>5
      <4>3. QED
        BY <2>1, <2>3, <4>2
    <3>3. CASE IsDue(inFlight[i], t) = FALSE
      BY <2>1, <2>3, <3>3
    <3>4. IsDue(inFlight[i], t) = TRUE \/ IsDue(inFlight[i], t) = FALSE
      BY DEF IsDue
    <3>5. QED
      BY <3>2, <3>3, <3>4
  <2>4. p \in DOMAIN inFlight /\ inFlight[p].copy
    BY <1>1, <2>1
  <2>5. QED
    BY <1>0, <2>2, <2>3, <2>4 DEF CopiesFollow
<1>11. OnTime'
  <2> SUFFICES ASSUME NEW j \in DOMAIN rest
               PROVE  LET m == rest[j]
                      IN  /\ m.at >= m.sentAt + Draws(m) * MinLatency
                          /\ m.at <= m.sentAt + Draws(m) * MaxLatency
                          /\ m.sentAt <= t
                          /\ m.at > t \/ m.sentAt = t
    BY <1>1, <1>2 DEF OnTime, Draws
  <2>0. j \in 1 .. Len(rest)
    BY <1>4
  <2>1. PICK p \in 1 .. Len(inFlight) :
          rest[j] = inFlight[p] /\ IsDue(inFlight[p], t) = FALSE
    BY <1>3, <2>0 DEF Lists
  <2>2. QED
    BY <1>0, <1>1, <1>8, <2>1 DEF OnTime
<1>d. ASSUME NEW k \in 1 .. Len(ready)
      PROVE  received'[n + k].msg = ready[k] /\ received'[n + k].tick = t
  <2>1. n + k \in n + 1 .. n + Len(ready) /\ (n + k) - n = k
    BY <1>1, <1>4
  <2>2. received'[n + k] = [msg |-> ready[(n + k) - n], tick |-> t]
    BY <1>5, <2>1
  <2>3. QED
    BY <2>1, <2>2
<1>12. LatencyAsDrawn'
  <2> SUFFICES ASSUME NEW j \in DOMAIN received'
               PROVE  LET m == received'[j].msg
                      IN  /\ received'[j].tick =
                               IF m.at > m.sentAt THEN m.at ELSE m.sentAt + 1
                          /\ m.at - m.sentAt \in
                               Draws(m) * MinLatency .. Draws(m) * MaxLatency
    BY DEF LatencyAsDrawn, Draws
  <2>1. CASE j \in 1 .. n
    BY <1>0, <1>1, <1>5, <1>a, <2>1 DEF LatencyAsDrawn, Draws
  <2>2. ASSUME NEW k \in 1 .. Len(ready), j = n + k
        PROVE  LET m == received'[j].msg
               IN  /\ received'[j].tick =
                        IF m.at > m.sentAt THEN m.at ELSE m.sentAt + 1
                   /\ m.at - m.sentAt \in
                        Draws(m) * MinLatency .. Draws(m) * MaxLatency
    <3>1. PICK p \in 1 .. Len(inFlight) :
            ready[k] = inFlight[p] /\ IsDue(inFlight[p], t) = TRUE
      BY <1>3 DEF Lists
    <3>2. PICK m : m = inFlight[p]
      OBVIOUS
    <3>3. /\ m.at \in Nat /\ m.sentAt \in Nat /\ m.at <= t
          /\ m.at >= m.sentAt + Draws(m) * MinLatency
          /\ m.at <= m.sentAt + Draws(m) * MaxLatency
          /\ m.sentAt <= now /\ (m.at > now \/ m.sentAt = now)
      BY <1>0, <1>1, <1>8, <3>1, <3>2 DEF OnTime
    <3>4. Draws(m) * MinLatency \in Nat /\ Draws(m) * MaxLatency \in Nat
      BY NetworkAssumption DEF Draws
    <3>5. t = IF m.at > m.sentAt THEN m.at ELSE m.sentAt + 1
      BY <1>1, <3>3
    <3>6. m.at - m.sentAt \in Draws(m) * MinLatency .. Draws(m) * MaxLatency
      BY <3>3, <3>4
    <3>7. received'[j].msg = m /\ received'[j].tick = t
      BY <1>d, <2>2, <3>1, <3>2
    <3>8. QED
      BY <3>5, <3>6, <3>7
  <2>3. QED
    BY <1>7, <2>1, <2>2
<1>13. ASSUME NEW k \in 1 .. Len(ready), NEW j \in 1 .. Len(rest)
       PROVE  ready[k].at < rest[j].at
  <2>1. PICK p \in 1 .. Len(inFlight) :
          ready[k] = inFlight[p] /\ IsDue(inFlight[p], t) = TRUE
    BY <1>3 DEF Lists
  <2>2. PICK r \in 1 .. Len(inFlight) :
          rest[j] = inFlight[r] /\ IsDue(inFlight[r], t) = FALSE
    BY <1>3 DEF Lists
  <2>3. QED
    BY <1>1, <1>8, <2>1, <2>2
<1>14. ASSUME NEW s, Len(s) \in Nat, NEW due,
              Lists(s, inFlight, Len(inFlight), t, due),
              NEW i \in 1 .. Len(s), NEW j \in 1 .. Len(s), i < j
       PROVE  s[i].payload <= s[j].payload
  <2>1. PICK p, r \in 1 .. Len(inFlight) :
          p < r /\ s[i] = inFlight[p] /\ s[j] = inFlight[r]
    BY <1>14 DEF Lists
  <2>2. p \in DOMAIN inFlight /\ r \in DOMAIN inFlight
    BY <1>1
  <2>3. QED
    BY <1>0, <2>1, <2>2 DEF InOrder
<1>15. /\ \A k \in 1 .. Len(ready) : \E p \in DOMAIN inFlight : ready[k] = inFlight[p]
       /\ \A k \in 1 .. Len(rest) : \E p \in DOMAIN inFlight : rest[k] = inFlight[p]
  <2>1. DOMAIN inFlight = 1 .. Len(inFlight)
    BY <1>1
  <2>2. \A k \in 1 .. Len(ready) : \E p \in 1 .. Len(inFlight) : ready[k] = inFlight[p]
    BY <1>3 DEF Lists
  <2>3. \A k \in 1 .. Len(rest) : \E p \in 1 .. Len(inFlight) : rest[k] = inFlight[p]
    BY <1>3 DEF Lists
  <2>4. QED
    BY <2>1, <2>2, <2>3
<1>e. DOMAIN rest = 1 .. Len(rest) /\ DOMAIN received = 1 .. n
  BY <1>1, <1>4, <1>a
<1>16. InOrder'
  <2>1. \A j \in DOMAIN rest : rest[j].payload < sends
    BY <1>0, <1>15, <1>e DEF InOrder
  <2>2. \A i, j \in DOMAIN rest : i < j => rest[i].payload <= rest[j].payload
    BY <1>3, <1>4, <1>14, <1>e
  <2>3. ASSUME NEW i \in DOMAIN received'
        PROVE  received'[i].msg.payload < sends
    <3>1. CASE i \in 1 .. n
      BY <1>0, <1>5, <1>e, <3>1 DEF InOrder
    <3>2. ASSUME NEW k \in 1 .. Len(ready), i = n + k
          PROVE  received'[i].msg.payload < sends
      BY <1>0, <1>15, <1>d, <3>2 DEF InOrder
    <3>3. QED
      BY <1>7, <3>1, <3>2
  <2>4. ASSUME NEW i \in DOMAIN received', NEW j \in DOMAIN rest,
               rest[j].payload < received'[i].msg.payload
        PROVE  received'[i].msg.at < rest[j].at
    <3>1. CASE i \in 1 .. n
      <4>1. PICK p \in DOMAIN inFlight : rest[j] = inFlight[p]
        BY <1>15, <1>e
      <4>2. received'[i] = received[i] /\ i \in DOMAIN received
        BY <1>5, <1>e, <3>1
      <4>3. QED
        BY <1>0, <2>4, <4>1, <4>2 DEF InOrder
    <3>2. ASSUME NEW k \in 1 .. Len(ready), i = n + k
          PROVE  received'[i].msg.at < rest[j].at
      BY <1>13, <1>d, <1>e, <3>2
    <3>3. QED
      BY <1>7, <3>1, <3>2
  <2>5. QED
    BY <1>1, <1>2, <2>1, <2>2, <2>3, <2>4 DEF InOrder
<1>17. OvertakenOnlyByFaster'
  <2> SUFFICES ASSUME NEW i \in DOMAIN received', NEW j \in DOMAIN received',
                      i < j, received'[j].msg.payload < received'[i].msg.payload
               PROVE  received'[i].msg.at < received'[j].msg.at
    BY DEF OvertakenOnlyByFaster
  <2>1. CASE j \in 1 .. n
    <3>1. i \in 1 .. n
      BY <1>1, <1>4, <1>b, <2>1
    <3>2. QED
      BY <1>0, <1>5, <1>e, <2>1, <3>1 DEF OvertakenOnlyByFaster
  <2>2. ASSUME NEW l \in 1 .. Len(ready), j = n + l
        PROVE  received'[i].msg.at < received'[j].msg.at
    <3>1. received'[j].msg = ready[l]
      BY <1>d, <2>2
    <3>2. PICK p \in DOMAIN inFlight : ready[l] = inFlight[p]
      BY <1>15
    <3>3. CASE i \in 1 .. n
      <4>1. received'[i] = received[i] /\ i \in DOMAIN received
        BY <1>5, <1>e, <3>3
      <4>2. QED
        BY <1>0, <3>1, <3>2, <4>1 DEF InOrder
    <3>4. ASSUME NEW k \in 1 .. Len(ready), i = n + k PROVE FALSE
      <4>1. k < l
        BY <1>1, <1>4, <2>2, <3>4
      <4>2. ready[k].payload <= ready[l].payload
        BY <1>3, <1>4, <1>14, <4>1
      <4>3. ready[k].payload \in Nat /\ ready[l].payload \in Nat
        BY <1>0, <1>15, Numbered
      <4>4. received'[i].msg = ready[k]
        BY <1>d, <3>4
      <4>5. QED
        BY <3>1, <4>2, <4>3, <4>4
    <3>5. QED
      BY <1>7, <3>3, <3>4
  <2>3. QED
    BY <1>7, <2>1, <2>2
<1>18. QED
  BY <1>6, <1>9, <1>10, <1>11, <1>12, <1>16, <1>17 DEF NetInv

\* NetInv is invariant.
THEOREM NetInvariant == Spec => []NetInv
<1>1. Init => NetInv
  BY NetworkAssumption
  DEF Init, NetInv, TypeOK, Accounting, CopiesFollow, OnTime, InOrder,
      CopyAfterOriginal, LatencyAsDrawn, OvertakenOnlyByFaster
<1>2. NetInv /\ [Next]_vars => NetInv'
  <2> SUFFICES ASSUME NetInv, [Next]_vars PROVE NetInv'
    OBVIOUS
  <2>1. cuts \in Nat /\ cuts \in 0 .. MaxCuts /\ partitions \subseteq Peers \X Peers
    BY NetworkAssumption DEF NetInv, TypeOK
  <2>2. CASE UNCHANGED vars
    BY <2>1, <2>2, NetFrame DEF vars
  <2>3. ASSUME NEW A \in Groups, NEW B \in Groups,
               PartitionGroups(A, B) \/ Heal(A, B)
        PROVE  NetInv'
    <3>1. Cross(A, B) \subseteq Peers \X Peers
      BY DEF Groups, Cross
    <3>2. /\ partitions' \subseteq Peers \X Peers /\ cuts' \in 0 .. MaxCuts
          /\ UNCHANGED <<inFlight, stats, now, sends, received>>
      BY <2>1, <2>3, <3>1, NetworkAssumption
      DEF PartitionGroups, Heal, PartitionLinks, HealLinks
    <3>3. QED
      BY <3>2, NetFrame
  <2>4. CASE HealEverything
    BY <2>1, <2>4, NetFrame DEF HealEverything, HealAll
  <2>5. QED
    BY <2>2, <2>3, <2>4, SendKeeps, DeliverKeeps DEF Next
<1>3. QED
  BY <1>1, <1>2, PTL DEF Spec

\* TypeOK is invariant: no counter underflows and the queue holds messages.
THEOREM TypeCorrect == Spec => []TypeOK
BY NetInvariant, PTL DEF NetInv

\* The counters add up, whatever is lost, duplicated or in flight (stats).
THEOREM CountersAddUp == Spec => []Accounting
BY NetInvariant, PTL DEF NetInv

\* No copy overtakes its original, however long the queue is (send, deliver).
THEOREM CopiesComeSecond == Spec => []CopyAfterOriginal
BY NetInvariant, PTL DEF NetInv

\* Each message is collected in the turn of the delivery tick drawn for it, or
\* in the first turn after its sending if that tick had passed (send, deliver).
THEOREM LatencyIsAsDrawn == Spec => []LatencyAsDrawn
BY NetInvariant, PTL DEF NetInv

\* Only a message drawn to come earlier overtakes one that was sent before it,
\* however many are in the queue and whatever is cut or healed (deliver).
THEOREM QueueKeepsOrder == Spec => []OvertakenOnlyByFaster
BY NetInvariant, PTL DEF NetInv

=============================================================================

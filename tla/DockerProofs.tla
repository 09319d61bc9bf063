---------------------------- MODULE DockerProofs ----------------------------
(***************************************************************************)
(* The pauses of DockerChaos, for any number of faults, containers and     *)
(* durations and any interleaving of the spawned tasks: nobody forgets a   *)
(* paused container, and nobody resumes one early but in one known case.   *)
(***************************************************************************)
EXTENDS DockerChaos, SequenceTheorems, TLAPS

Calls == [op : {"none", "pause", "partition", "kill", "restart"},
          todo : Seq(Containers), at : {"resolve", "request"},
          ms : Nat, ids : Seq(Containers)]

Tasks == [left : Nat, ids : Seq(Containers)]

\* A running call has a target left, and only a partition collects containers.
CallOK ==
  /\ call = Idle \/ (call.op # "none" /\ call.todo # <<>>)
  /\ call.op # "partition" => call.ids = <<>>

LEMMA TargetTyped ==
  ASSUME TypeOK, CallOK, call # Idle
  PROVE  /\ Target \in Containers /\ Tail(call.todo) \in Seq(Containers)
         /\ Len(call.todo) # 1 => Tail(call.todo) # <<>>
<1>1. call.todo \in Seq(Containers) /\ call.todo # <<>>
  BY DEF TypeOK, CallOK
<1>2. /\ Len(call.todo) \in Nat \ {0}
      /\ Len(Tail(call.todo)) = Len(call.todo) - 1
  BY <1>1, EmptySeq, HeadTailProperties
<1>3. Len(call.todo) # 1 => Tail(call.todo) # <<>>
  <2>1. Len(<<>>) = 0
    OBVIOUS
  <2>2. Tail(call.todo) = <<>> => Len(Tail(call.todo)) = 0
    BY <2>1, Zenon
  <2>3. QED
    BY <1>2, <2>2
<1>4. QED
  BY <1>1, <1>3, HeadTailProperties DEF Target

LEMMA SpawnTyped ==
  ASSUME TypeOK, NEW ids \in Seq(Containers), NEW ms \in Nat, Spawn(ids, ms)
  PROVE  timers' \in Seq(Tasks)
<1>1. [left |-> ms, ids |-> ids] \in Tasks
  BY DEF Tasks
<1>2. timers \in Seq(Tasks)
  BY DEF TypeOK, Tasks
<1>3. QED
  BY <1>1, <1>2 DEF Spawn

LEMMA ContinueTyped ==
  ASSUME TypeOK, CallOK, call # Idle, call.op = "partition",
         NEW ids \in Seq(Containers), Continue(ids)
  PROVE  call' \in Calls /\ CallOK' /\ timers' \in Seq(Tasks)
<1>1. CASE Len(call.todo) = 1
  <2>0. Idle \in Calls
    BY DEF Calls, Idle
  <2>1. call' = Idle /\ call' \in Calls
    BY <1>1, <2>0 DEF Continue, Returns
  <2>2. CallOK'
    BY <2>1 DEF CallOK, Idle
  <2>3. QED
    BY <1>1, <2>1, <2>2, SpawnTyped DEF Continue, TypeOK
<1>2. CASE Len(call.todo) # 1
  <2>1. call' = [call EXCEPT !.todo = Tail(@), !.at = "resolve", !.ids = ids]
    BY <1>2 DEF Continue
  <2>2. call' \in Calls /\ call'.todo # <<>> /\ call'.op = "partition"
    BY <1>2, <2>1, TargetTyped DEF TypeOK, Calls
  <2>3. QED
    BY <1>2, <2>2 DEF CallOK, Continue, TypeOK, Tasks
<1>3. QED
  BY <1>1, <1>2

LEMMA TaskTyped ==
  ASSUME TypeOK, NEW i \in DOMAIN timers
  PROVE  /\ timers \in Seq(Tasks) /\ timers[i] \in Tasks
         /\ timers[i].ids # <<>> => /\ Head(timers[i].ids) \in Containers
                                   /\ Tail(timers[i].ids) \in Seq(Containers)
<1>1. timers \in Seq(Tasks)
  BY DEF TypeOK, Tasks
<1>2. timers[i] \in Tasks
  BY <1>1
<1>3. QED
  BY <1>1, <1>2, HeadTailProperties DEF Tasks

LEMMA TypeInit == Init => TypeOK /\ CallOK
<1> SUFFICES ASSUME Init PROVE TypeOK /\ CallOK
  OBVIOUS
<1>1. call \in Calls /\ CallOK
  BY DEF Init, CallOK, Calls, Idle
<1>2. timers \in Seq(Tasks) /\ HostTypeOK /\ due \in [Containers -> Nat]
  BY DEF Init, HostInit, HostTypeOK
<1>3. faults \in 0 .. MaxFaults /\ failures \in 0 .. MaxFailures
  BY ChaosAssumption DEF Init
<1>4. QED
  BY <1>1, <1>2, <1>3 DEF Init, TypeOK, Calls, Tasks

LEMMA TypeStep ==
  ASSUME TypeOK, CallOK, [Next]_vars
  PROVE  TypeOK' /\ CallOK'
<1> USE DEF HostTypeOK, history, Becomes
<1>1. call \in Calls /\ timers \in Seq(Tasks)
  BY DEF TypeOK, Calls, Tasks
<1>2. Idle \in Calls
  BY DEF Calls, Idle
<1>3. ASSUME UNCHANGED failures \/ Fails PROVE failures' \in 0 .. MaxFailures
  BY <1>3, ChaosAssumption DEF TypeOK, Fails
<1>4. CASE UNCHANGED vars
  BY <1>4 DEF TypeOK, CallOK, vars
<1>5. ASSUME NEW op \in {"pause", "partition", "kill", "restart"},
             NEW targets \in Seq(Containers), targets # <<>>, NEW ms \in Nat,
             Execute(op, targets, ms)
      PROVE  TypeOK' /\ CallOK'
  <2>1. /\ call' = [op |-> op, todo |-> targets, at |-> "resolve", ms |-> ms,
                     ids |-> <<>>]
        /\ faults < MaxFaults /\ faults' = faults + 1
        /\ UNCHANGED <<status, timers, failures, exited, history>>
    BY <1>5 DEF Execute
  <2>2. call' \in Calls
    BY <1>5, <2>1 DEF Calls
  <2>0. CallOK'
    BY <1>5, <2>1 DEF CallOK
  <2>3. faults' \in 0 .. MaxFaults
    BY <2>1, ChaosAssumption DEF TypeOK
  <2>4. TypeOK'
    BY <2>1, <2>2, <2>3 DEF TypeOK, Calls
  <2>5. QED
    BY <2>0, <2>4
<1>6. CASE ExecuteFault
  <2>1. \A c, d \in Containers : <<c>> \in Seq(Containers) /\ <<c>> # <<>>
                                /\ <<c, d>> \in Seq(Containers) /\ <<c, d>> # <<>>
    OBVIOUS
  <2>2. \A ms \in Durations : ms \in Nat
    BY ChaosAssumption
  <2>3. CASE \E c \in Containers : \E op \in {"kill", "restart"} : Execute(op, <<c>>, 0)
    BY <1>5, <2>1, <2>3
  <2>4. CASE \E c \in Containers, ms \in Durations : Execute("pause", <<c>>, ms)
    BY <1>5, <2>1, <2>2, <2>4
  <2>5. CASE \E c, d \in Containers, ms \in Durations :
               Execute("partition", IF c = d THEN <<c>> ELSE <<c, d>>, ms)
    BY <1>5, <2>1, <2>2, <2>5
  <2>6. QED
    BY <1>6, <2>3, <2>4, <2>5 DEF ExecuteFault
<1>7. CASE Resolve
  BY <1>1, <1>7 DEF Resolve, TypeOK, CallOK, Idle
<1>8. CASE ResolveFails
  <2>1. call' \in Calls /\ CallOK' /\ timers' \in Seq(Tasks)
    <3>1. CASE call.op = "partition"
      BY <1>8, <3>1, ContinueTyped DEF ResolveFails, TypeOK
    <3>2. CASE call.op # "partition"
      BY <1>1, <1>2, <1>8, <3>2 DEF ResolveFails, Returns, CallOK, Idle
    <3>3. QED
      BY <3>1, <3>2
  <2>2. failures' \in 0 .. MaxFailures
    BY <1>3, <1>8 DEF ResolveFails
  <2>3. QED
    BY <1>8, <2>1, <2>2 DEF ResolveFails, TypeOK, Calls, Tasks
<1>9. CASE PauseRequest
  <2>1. call # Idle /\ Target \in Containers
    BY <1>9, TargetTyped DEF PauseRequest, Idle
  <2>2. call' \in Calls /\ CallOK' /\ timers' \in Seq(Tasks)
    <3>0. call.ids \in Seq(Containers) /\ call.ms \in Nat
      BY DEF TypeOK
    <3>1. CASE call.op = "partition"
      <4>1. Append(call.ids, Target) \in Seq(Containers)
        BY <2>1, <3>0
      <4>2. QED
        BY <1>9, <2>1, <3>1, <4>1, ContinueTyped DEF PauseRequest
    <3>2. CASE call.op # "partition"
      <4>1. <<Target>> \in Seq(Containers)
        BY <2>1
      <4>2. Spawn(<<Target>>, call.ms) /\ call' = Idle
        BY <1>9, <3>2 DEF PauseRequest, Returns
      <4>3. QED
        BY <1>2, <3>0, <4>1, <4>2, SpawnTyped DEF CallOK, Idle
    <3>3. QED
      BY <3>1, <3>2
  <2>3. QED
    BY <1>9, <2>1, <2>2 DEF PauseRequest, Pause, TypeOK, Calls, Tasks
<1>10. ASSUME KillRequest \/ RestartRequest PROVE call # Idle /\ Target \in Containers
  BY <1>10, TargetTyped DEF KillRequest, RestartRequest, Idle
<1>11. CASE KillRequest
  BY <1>2, <1>10, <1>11 DEF KillRequest, Kill, Returns, TypeOK, CallOK, Calls, Idle
<1>12. CASE RestartRequest
  BY <1>2, <1>10, <1>12 DEF RestartRequest, Restart, Returns, TypeOK, CallOK, Calls,
     Idle
<1>13. CASE RequestFails
  BY <1>2, <1>3, <1>13 DEF RequestFails, Returns, TypeOK, CallOK, Calls, Idle
<1>14. ASSUME NEW i \in DOMAIN timers, TimerFires(i) PROVE TypeOK' /\ CallOK'
  <2>1. timers[i] \in Tasks /\ timers[i].ids # <<>>
    BY <1>14, TaskTyped DEF TimerFires, Ripe
  <2>2. /\ Tail(timers[i].ids) \in Seq(Containers)
        /\ Head(timers[i].ids) \in Containers
    BY <2>1, TaskTyped
  <2>3. timers' \in Seq(Tasks)
    <3>1. [timers[i] EXCEPT !.ids = AfterUnpause(@)] \in Tasks
      BY <2>1, <2>2 DEF AfterUnpause, Tasks
    <3>2. timers' = [timers EXCEPT ![i] = [timers[i] EXCEPT !.ids = AfterUnpause(@)]]
      BY <1>14 DEF TimerFires
    <3>3. QED
      BY <1>1, <3>1, <3>2
  <2>4. failures' \in 0 .. MaxFailures
    BY <1>3, <1>14 DEF TimerFires
  <2>5. HostTypeOK' /\ due' \in [Containers -> Nat] /\ stale' \subseteq Containers
          /\ cut' \subseteq Containers
    <3> DEFINE c == Head(timers[i].ids)
    <3>1. CASE Unpause(c) /\ due' = [due EXCEPT ![c] = 0] /\ stale' = stale
               /\ cut' = IF due[c] > 0 THEN cut \cup {c} ELSE cut
      BY <2>2, <3>1 DEF Unpause, TypeOK
    <3>2. CASE UNCHANGED <<status, history>>
      BY <3>2 DEF TypeOK
    <3>3. QED
      BY <1>14, <3>1, <3>2 DEF TimerFires
  <2>6. QED
    BY <1>14, <2>3, <2>4, <2>5 DEF TimerFires, TypeOK, CallOK, Tasks
<1>15. CASE TimePasses
  <2>1. timers' \in Seq(Tasks)
    <3>1. \A i \in DOMAIN timers :
            [timers[i] EXCEPT !.left = IF @ > 0 THEN @ - 1 ELSE 0] \in Tasks
      <4> SUFFICES ASSUME NEW i \in DOMAIN timers
                   PROVE  [timers[i] EXCEPT !.left = IF @ > 0 THEN @ - 1 ELSE 0] \in Tasks
        OBVIOUS
      <4>1. timers[i] \in Tasks
        BY <1>1
      <4>2. QED
        BY <4>1 DEF Tasks
    <3>2. timers' \in [1 .. Len(timers) -> Tasks] /\ Len(timers) \in Nat
      BY <1>1, <1>15, <3>1, LenProperties DEF TimePasses
    <3>3. QED
      BY <3>2, SeqDef
  <2>2. due' \in [Containers -> Nat]
    <3>1. \A c \in Containers : (IF due[c] > 0 THEN due[c] - 1 ELSE 0) \in Nat
      <4> SUFFICES ASSUME NEW c \in Containers
                   PROVE  (IF due[c] > 0 THEN due[c] - 1 ELSE 0) \in Nat
        OBVIOUS
      <4>1. due[c] \in Nat
        BY DEF TypeOK
      <4>2. QED
        BY <4>1
    <3>2. due' = [c \in Containers |-> IF due[c] > 0 THEN due[c] - 1 ELSE 0]
      BY <1>15 DEF TimePasses
    <3>3. QED
      BY <3>1, <3>2
  <2>3. QED
    BY <1>15, <2>1, <2>2 DEF TimePasses, TypeOK, CallOK, Tasks
<1>16. CASE ContainerDies
  BY <1>3, <1>16 DEF ContainerDies, Dies, TypeOK, CallOK
<1>17. CASE ProcessExits
  BY <1>17 DEF ProcessExits, TypeOK, CallOK
<1>18. QED
  BY <1>4, <1>6, <1>7, <1>8, <1>9, <1>11, <1>12, <1>13, <1>14, <1>15, <1>16, <1>17
     DEF Next, Caller

\* Every state of the injector has its type, however long the durations and
\* however many tasks are spawned (execute_fault).
THEOREM TypeCorrect == Spec => [](TypeOK /\ CallOK)
<1>1. TypeOK /\ CallOK /\ [Next]_vars => (TypeOK /\ CallOK)'
  BY TypeStep
<1>2. QED
  BY <1>1, TypeInit, PTL DEF Spec

-----------------------------------------------------------------------------

\* What the tasks hold.
LEMMA SetOfAppend ==
  ASSUME NEW S, NEW seq \in Seq(S), NEW e \in S
  PROVE  ToSet(Append(seq, e)) = ToSet(seq) \cup {e}
<1>1. DOMAIN Append(seq, e) = DOMAIN seq \cup {Len(seq) + 1}
  OBVIOUS
<1>2. QED
  BY <1>1, AppendProperties DEF ToSet

LEMMA SetOfTail ==
  ASSUME NEW S, NEW seq \in Seq(S), seq # <<>>, NEW c \in ToSet(seq), c # Head(seq)
  PROVE  c \in ToSet(Tail(seq))
<1>1. PICK i \in 1 .. Len(seq) : c = seq[i]
  BY DEF ToSet
<1>2. i # 1
  BY <1>1
<1>3. i - 1 \in 1 .. Len(Tail(seq)) /\ Tail(seq)[i - 1] = c
  BY <1>1, <1>2, HeadTailProperties
<1>4. DOMAIN Tail(seq) = 1 .. Len(Tail(seq))
  BY HeadTailProperties, LenProperties
<1>5. QED
  BY <1>3, <1>4 DEF ToSet

LEMMA SpawnHolds ==
  ASSUME TypeOK, NEW ids \in Seq(Containers), NEW ms \in Nat, Spawn(ids, ms)
  PROVE  \A c : Held(c)' <=> Held(c) \/ c \in ToSet(ids)
<1> DEFINE t == [left |-> ms, ids |-> ids]
<1>1. timers \in Seq(Tasks) /\ t \in Tasks /\ timers' = Append(timers, t)
  BY DEF TypeOK, Tasks, Spawn
<1>2. DOMAIN timers' = DOMAIN timers \cup {Len(timers) + 1}
  BY <1>1
<1>3. timers'[Len(timers) + 1] = t /\ \A i \in DOMAIN timers : timers'[i] = timers[i]
  BY <1>1, AppendProperties
<1>4. QED
  BY <1>2, <1>3 DEF Held

\* A task that fires loses only its first container.
LEMMA FiresHolds ==
  ASSUME TypeOK, NEW i \in DOMAIN timers, TimerFires(i)
  PROVE  \A c : Held(c) /\ c # Head(timers[i].ids) => Held(c)'
<1>0. timers \in Seq(Tasks)
  BY TaskTyped
<1>1. timers[i] \in Tasks /\ timers[i].ids # <<>>
  BY TaskTyped DEF TimerFires, Ripe
<1>2. /\ DOMAIN timers' = DOMAIN timers
      /\ timers'[i].ids = Tail(timers[i].ids)
      /\ \A j \in DOMAIN timers : j # i => timers'[j] = timers[j]
  BY <1>0, <1>1 DEF TimerFires, AfterUnpause, Tasks
<1> SUFFICES ASSUME NEW c, NEW j \in DOMAIN timers, c \in ToSet(timers[j].ids),
                    c # Head(timers[i].ids)
             PROVE  Held(c)'
  BY DEF Held
<1>3. c \in ToSet(timers'[j].ids)
  BY <1>1, <1>2, SetOfTail DEF Tasks
<1>4. QED
  BY <1>2, <1>3 DEF Held

LEMMA ContinueHolds ==
  ASSUME TypeOK, CallOK, call # Idle, call.op = "partition",
         NEW ids \in Seq(Containers), Continue(ids)
  PROVE  \A c : Held(c) \/ c \in ToSet(ids) => Held(c)' \/ c \in ToSet(call'.ids)
<1>1. CASE Len(call.todo) = 1
  BY <1>1, SpawnHolds DEF Continue, TypeOK
<1>2. CASE Len(call.todo) # 1
  <2>1. timers' = timers /\ call'.ids = ids
    BY <1>2 DEF Continue, TypeOK
  <2>2. QED
    BY <2>1 DEF Held
<1>3. QED
  BY <1>1, <1>2

-----------------------------------------------------------------------------

\* As long as nothing fails, the container of a request was found running and
\* still is.
Requested ==
  failures = 0 /\ call # Idle /\ call.at = "request" /\ call.op # "restart" =>
    status[Target] = "running"

HeldInv == PausedIsHeld /\ Requested

LEMMA HeldStep ==
  ASSUME TypeOK, CallOK, HeldInv, [Next]_vars
  PROVE  HeldInv'
<1> USE DEF history
<1>1. CASE UNCHANGED vars
  BY <1>1 DEF HeldInv, PausedIsHeld, Requested, Held, Target, vars
<1>2. failures' = 0 => failures = 0
  <2>1. ASSUME Fails PROVE failures' # 0
    BY <2>1 DEF Fails, TypeOK
  <2>2. QED
    BY <1>1, <2>1 DEF Next, ExecuteFault, Execute, Caller, Resolve, ResolveFails,
       PauseRequest, KillRequest, RestartRequest, RequestFails, TimerFires,
       TimePasses, ContainerDies, ProcessExits, vars
<1> SUFFICES ASSUME Next, failures = 0, failures' = 0 PROVE HeldInv'
  BY <1>1, <1>2 DEF HeldInv, PausedIsHeld, Requested
<1>3. ~Fails
  BY DEF Fails
<1>4. CASE ExecuteFault
  <2>1. /\ UNCHANGED <<status, timers, exited>> /\ call = Idle
        /\ call'.at = "resolve"
    BY <1>4 DEF ExecuteFault, Execute
  <2>2. ToSet(Idle.ids) = {}
    BY DEF Idle, ToSet
  <2>3. QED
    BY <2>1, <2>2 DEF HeldInv, PausedIsHeld, Requested, Held
<1>5. CASE Resolve
  <2>1. /\ UNCHANGED <<status, timers, exited>>
        /\ call'.ids = call.ids /\ call'.todo = call.todo /\ call'.op = call.op
    BY <1>5 DEF Resolve, TypeOK
  <2>2. call.op # "restart" => status[Target] = "running"
    BY <1>5 DEF Resolve, Resolvable
  <2>3. QED
    BY <2>1, <2>2 DEF HeldInv, PausedIsHeld, Requested, Held, Target
<1>6. ASSUME call' = Idle, call.op # "partition", UNCHANGED timers, exited' = exited,
             \A c \in Containers : status'[c] = "paused" => status[c] = "paused"
      PROVE  HeldInv'
  <2>1. ToSet(call.ids) = {}
    BY <1>6 DEF CallOK, ToSet
  <2>2. QED
    BY <1>6, <2>1 DEF HeldInv, PausedIsHeld, Requested, Held
<1>7. ASSUME NEW ids \in Seq(Containers), call.op = "partition", call # Idle,
             Continue(ids), ToSet(call.ids) \subseteq ToSet(ids), exited' = exited,
             \A c \in Containers : status'[c] = "paused" =>
               status[c] = "paused" \/ c \in ToSet(ids)
      PROVE  HeldInv'
  <2>1. PausedIsHeld'
    BY <1>7, ContinueHolds DEF HeldInv, PausedIsHeld
  <2>2. call' = Idle \/ call'.at = "resolve"
    BY <1>7 DEF Continue, Returns, TypeOK
  <2>3. QED
    BY <2>1, <2>2 DEF HeldInv, Requested
<1>8. CASE ResolveFails
  <2>1. call # Idle /\ UNCHANGED <<status, exited>> /\ call.ids \in Seq(Containers)
    BY <1>8 DEF ResolveFails, TypeOK
  <2>2. CASE call.op = "partition"
    BY <1>7, <1>8, <2>1, <2>2 DEF ResolveFails
  <2>3. CASE call.op # "partition"
    BY <1>6, <1>8, <2>1, <2>3 DEF ResolveFails, Returns
  <2>4. QED
    BY <2>2, <2>3
<1>9. CASE PauseRequest
  <2>1. /\ call # Idle /\ Target \in Containers /\ exited' = exited
        /\ call.ids \in Seq(Containers) /\ call.ms \in Nat
    BY <1>9, TargetTyped DEF PauseRequest, Idle, TypeOK
  <2>2. \A c \in Containers : status'[c] = "paused" =>
          status[c] = "paused" \/ c = Target
    BY <1>9 DEF PauseRequest, Pause, Becomes, TypeOK, HostTypeOK
  <2>3. CASE call.op = "partition"
    <3>1. /\ Append(call.ids, Target) \in Seq(Containers)
          /\ ToSet(Append(call.ids, Target)) = ToSet(call.ids) \cup {Target}
      BY <2>1, SetOfAppend
    <3>2. Continue(Append(call.ids, Target))
      BY <1>9, <2>3 DEF PauseRequest
    <3>3. QED
      BY <1>7, <2>1, <2>2, <2>3, <3>1, <3>2
  <2>4. CASE call.op # "partition"
    <3>1. Spawn(<<Target>>, call.ms) /\ call' = Idle /\ <<Target>> \in Seq(Containers)
      BY <1>9, <2>1, <2>4 DEF PauseRequest, Returns
    <3>2. Target \in ToSet(<<Target>>) /\ ToSet(call.ids) = {}
      BY <2>4 DEF ToSet, CallOK
    <3>3. ~exited => \A c \in Containers : status'[c] = "paused" => Held(c)'
      BY <2>1, <2>2, <3>1, <3>2, SpawnHolds DEF HeldInv, PausedIsHeld
    <3>4. QED
      BY <2>1, <3>1, <3>3 DEF HeldInv, PausedIsHeld, Requested
  <2>5. QED
    BY <2>3, <2>4
<1>10. CASE KillRequest
  <2>1. \A c \in Containers : status'[c] = "paused" => status[c] = "paused"
    BY <1>10 DEF KillRequest, Kill, Becomes, TypeOK, HostTypeOK
  <2>2. QED
    BY <1>6, <1>10, <2>1 DEF KillRequest, Returns
<1>11. CASE RestartRequest
  <2>1. \A c \in Containers : status'[c] = "paused" => status[c] = "paused"
    BY <1>11 DEF RestartRequest, Restart, Becomes, TypeOK, HostTypeOK
  <2>2. QED
    BY <1>6, <1>11, <2>1 DEF RestartRequest, Returns
<1>12. CASE RequestFails
  BY <1>3, <1>12 DEF RequestFails, HeldInv, Requested
<1>13. ASSUME NEW i \in DOMAIN timers, TimerFires(i) PROVE HeldInv'
  <2> DEFINE c == Head(timers[i].ids)
  <2>1. UNCHANGED <<call, exited>>
    BY <1>13 DEF TimerFires
  <2>0. c \in Containers
    BY <1>13, TaskTyped DEF TimerFires, Ripe
  <2>2. status'[c] # "paused" /\ \A d \in Containers : d # c => status'[d] = status[d]
    BY <1>3, <2>0, <1>13 DEF TimerFires, Unpause, Becomes, TypeOK, HostTypeOK
  <2>3. \A d \in Containers : status[d] = "running" => status'[d] = "running"
    BY <1>3, <1>13 DEF TimerFires, Unpause, Becomes, TypeOK, HostTypeOK
  <2>4. PausedIsHeld'
    BY <1>13, <2>1, <2>2, FiresHolds DEF HeldInv, PausedIsHeld
  <2>5. Requested'
    BY <2>1, <2>3, TargetTyped DEF HeldInv, Requested, Target
  <2>6. QED
    BY <2>4, <2>5 DEF HeldInv
<1>14. CASE TimePasses
  <2>1. UNCHANGED <<status, call, exited>> /\ DOMAIN timers' = DOMAIN timers
    BY <1>14 DEF TimePasses
  <2>2. \A i \in DOMAIN timers : timers'[i].ids = timers[i].ids
    BY <1>14, TaskTyped DEF TimePasses, Tasks
  <2>3. QED
    BY <2>1, <2>2 DEF HeldInv, PausedIsHeld, Requested, Held, Target
<1>15. CASE ProcessExits
  BY <1>15 DEF ProcessExits, HeldInv, PausedIsHeld, Requested
<1>16. ~ContainerDies
  BY <1>3 DEF ContainerDies
<1>17. QED
  BY <1>4, <1>5, <1>8, <1>9, <1>10, <1>11, <1>12, <1>13, <1>14, <1>15, <1>16
     DEF Next, Caller

\* As long as no request fails and the process lives, a paused container is in
\* the hands of a task or of a partition being set up: no fault forgets one
\* (network_partition, pause_container).
THEOREM PausedAreHeld == Spec => []PausedIsHeld
<1>1. Init => HeldInv
  BY DEF Init, HostInit, HeldInv, PausedIsHeld, Requested
<1>2. TypeOK /\ CallOK /\ HeldInv /\ [Next]_vars => HeldInv'
  BY HeldStep
<1>3. HeldInv => PausedIsHeld
  BY DEF HeldInv
<1>4. QED
  BY <1>1, <1>2, <1>3, TypeCorrect, PTL DEF Spec

-----------------------------------------------------------------------------

\* A container that was never restarted in the hands of a task is paused until
\* that task wakes up, and no other task, nor the same one twice, holds it.
Waits ==
  \A i \in DOMAIN timers : \A m \in DOMAIN timers[i].ids :
    LET c == timers[i].ids[m] IN
      c \notin stale => status[c] = "paused" /\ due[c] <= timers[i].left

HeldOnce ==
  \A i, j \in DOMAIN timers :
    \A m \in DOMAIN timers[i].ids, n \in DOMAIN timers[j].ids :
      timers[i].ids[m] = timers[j].ids[n] /\ timers[i].ids[m] \notin stale =>
        i = j /\ m = n

\* The same of the containers that a partition has paused so far.
Collected ==
  \A m \in DOMAIN call.ids :
    LET c == call.ids[m] IN
      c \notin stale =>
        /\ status[c] = "paused" /\ due[c] <= call.ms /\ ~Held(c)
        /\ \A n \in DOMAIN call.ids : call.ids[n] = c => n = m

EarlyInv == Waits /\ HeldOnce /\ Collected /\ EarlyOnlyIfRestarted

\* A container that runs and was never restarted is in nobody's hands.
LEMMA RunningIsFree ==
  ASSUME TypeOK, EarlyInv, NEW c \in Containers, status[c] # "paused", c \notin stale
  PROVE  ~Held(c) /\ c \notin ToSet(call.ids)
  BY DEF EarlyInv, Waits, Collected, Held, ToSet

\* Changes of containers that are in nobody's hands.
LEMMA KeepsWaiting ==
  ASSUME TypeOK, Waits, HeldOnce, timers' = timers, stale \subseteq stale',
         \A c \in Containers : Held(c) /\ c \notin stale' =>
           status'[c] = status[c] /\ due'[c] = due[c]
  PROVE  Waits' /\ HeldOnce'
<1>1. \A i \in DOMAIN timers : \A m \in DOMAIN timers[i].ids :
        timers[i].ids[m] \in Containers /\ Held(timers[i].ids[m])
  <2> SUFFICES ASSUME NEW i \in DOMAIN timers, NEW m \in DOMAIN timers[i].ids
               PROVE  timers[i].ids[m] \in Containers /\ Held(timers[i].ids[m])
    OBVIOUS
  <2>1. timers[i] \in Tasks
    BY TaskTyped
  <2>2. QED
    BY <2>1 DEF Tasks, Held, ToSet
<1>2. Waits'
  BY <1>1 DEF Waits
<1>3. HeldOnce'
  BY DEF HeldOnce
<1>4. QED
  BY <1>2, <1>3

LEMMA SpawnKeepsWaiting ==
  ASSUME TypeOK, Waits, HeldOnce, stale' = stale,
         NEW ids \in Seq(Containers), NEW ms \in Nat, Spawn(ids, ms),
         \A c \in Containers : Held(c) /\ c \notin stale =>
           status'[c] = status[c] /\ due'[c] = due[c],
         \A m \in DOMAIN ids : ids[m] \notin stale =>
           /\ status'[ids[m]] = "paused" /\ due'[ids[m]] <= ms /\ ~Held(ids[m])
           /\ \A n \in DOMAIN ids : ids[n] = ids[m] => n = m
  PROVE  Waits' /\ HeldOnce'
<1> DEFINE t == [left |-> ms, ids |-> ids]
           k == Len(timers) + 1
<1>1. timers \in Seq(Tasks) /\ t \in Tasks /\ timers' = Append(timers, t)
  BY DEF TypeOK, Tasks, Spawn
<1>2. DOMAIN timers' = DOMAIN timers \cup {k} /\ k \notin DOMAIN timers
  BY <1>1
<1>3. timers'[k] = t /\ \A i \in DOMAIN timers : timers'[i] = timers[i]
  BY <1>1, AppendProperties
<1>4. \A i \in DOMAIN timers : \A m \in DOMAIN timers[i].ids :
        timers[i].ids[m] \in Containers /\ Held(timers[i].ids[m])
  <2> SUFFICES ASSUME NEW i \in DOMAIN timers, NEW m \in DOMAIN timers[i].ids
               PROVE  timers[i].ids[m] \in Containers /\ Held(timers[i].ids[m])
    OBVIOUS
  <2>1. timers[i] \in Tasks
    BY TaskTyped
  <2>2. QED
    BY <2>1 DEF Tasks, Held, ToSet
<1>5. t.ids = ids /\ t.left = ms
  OBVIOUS
<1> HIDE DEF t, k
<1>6. Waits'
  BY <1>2, <1>3, <1>4, <1>5 DEF Waits
<1>7. HeldOnce'
  BY <1>2, <1>3, <1>4, <1>5 DEF HeldOnce
<1>8. QED
  BY <1>6, <1>7

LEMMA IdleCollectsNothing ==
  ASSUME call' = Idle
  PROVE  Collected'
<1>1. DOMAIN call'.ids = {}
  BY DEF Idle
<1>2. QED
  BY <1>1 DEF Collected

LEMMA ContinueKeepsWaiting ==
  ASSUME TypeOK, CallOK, EarlyInv, call # Idle, call.op = "partition",
         stale' = stale, cut' = cut, NEW ids \in Seq(Containers), Continue(ids),
         \A c \in Containers : Held(c) /\ c \notin stale =>
           status'[c] = status[c] /\ due'[c] = due[c],
         \A m \in DOMAIN ids : ids[m] \notin stale =>
           /\ status'[ids[m]] = "paused" /\ due'[ids[m]] <= call.ms /\ ~Held(ids[m])
           /\ \A n \in DOMAIN ids : ids[n] = ids[m] => n = m
  PROVE  EarlyInv'
<1>1. EarlyOnlyIfRestarted' /\ call.ms \in Nat
  BY DEF EarlyInv, EarlyOnlyIfRestarted, TypeOK
<1>2. CASE Len(call.todo) = 1
  <2>1. Spawn(ids, call.ms) /\ call' = Idle
    BY <1>2 DEF Continue, Returns
  <2>2. Waits' /\ HeldOnce'
    BY <1>1, <2>1, SpawnKeepsWaiting DEF EarlyInv
  <2>3. QED
    BY <1>1, <2>1, <2>2, IdleCollectsNothing DEF EarlyInv
<1>3. CASE Len(call.todo) # 1
  <2>1. timers' = timers /\ call'.ids = ids /\ call'.ms = call.ms
    BY <1>3 DEF Continue, TypeOK
  <2>2. Waits' /\ HeldOnce'
    BY <2>1, KeepsWaiting DEF EarlyInv
  <2>3. \A c : Held(c)' <=> Held(c)
    BY <2>1 DEF Held
  <2>4. Collected'
    BY <2>1, <2>3 DEF Collected
  <2>5. QED
    BY <1>1, <2>2, <2>4 DEF EarlyInv
<1>4. QED
  BY <1>2, <1>3

\* The call returns without having paused anything that is left to a task.
LEMMA ReturnKeepsWaiting ==
  ASSUME TypeOK, EarlyInv, call' = Idle, timers' = timers, stale \subseteq stale',
         cut' = cut,
         \A c \in Containers : Held(c) /\ c \notin stale' =>
           status'[c] = status[c] /\ due'[c] = due[c]
  PROVE  EarlyInv'
<1>1. Waits' /\ HeldOnce'
  BY KeepsWaiting DEF EarlyInv
<1>2. QED
  BY <1>1, IdleCollectsNothing DEF EarlyInv, EarlyOnlyIfRestarted

LEMMA PauseKeepsWaiting ==
  ASSUME TypeOK, CallOK, EarlyInv, PauseRequest
  PROVE  EarlyInv'
<1>1. /\ call # Idle /\ Target \in Containers
      /\ call.ids \in Seq(Containers) /\ call.ms \in Nat
  BY TargetTyped DEF PauseRequest, Idle, TypeOK
<1>2. /\ status[Target] # "paused" /\ status'[Target] = "paused"
      /\ due'[Target] = call.ms /\ stale' = stale /\ cut' = cut
      /\ \A c \in Containers : c # Target =>
           status'[c] = status[c] /\ due'[c] = due[c]
  BY <1>1 DEF PauseRequest, Pause, Becomes, TypeOK, HostTypeOK
<1>3. Target \notin stale => ~Held(Target) /\ Target \notin ToSet(call.ids)
  BY <1>1, <1>2, RunningIsFree
<1>4. \A c \in Containers : Held(c) /\ c \notin stale =>
        status'[c] = status[c] /\ due'[c] = due[c]
  BY <1>2, <1>3
<1>5. CASE call.op = "partition"
  <2> DEFINE ids == Append(call.ids, Target)
             k == Len(call.ids) + 1
  <2>1. /\ ids \in Seq(Containers) /\ DOMAIN ids = DOMAIN call.ids \cup {k}
        /\ k \notin DOMAIN call.ids /\ ids[k] = Target
        /\ \A m \in DOMAIN call.ids :
             ids[m] = call.ids[m] /\ call.ids[m] \in Containers
    BY <1>1, AppendProperties
  <2>2. Continue(ids)
    BY <1>5 DEF PauseRequest
  <2>3. \A m \in DOMAIN call.ids : call.ids[m] \in ToSet(call.ids)
    BY DEF ToSet
  <2> HIDE DEF ids, k
  <2>4. ASSUME NEW m \in DOMAIN ids, ids[m] \notin stale
        PROVE  /\ status'[ids[m]] = "paused" /\ due'[ids[m]] <= call.ms
               /\ ~Held(ids[m])
               /\ \A n \in DOMAIN ids : ids[n] = ids[m] => n = m
    <3>1. CASE m = k
      BY <1>1, <1>2, <1>3, <2>1, <2>3, <2>4, <3>1
    <3>2. CASE m # k
      <4>1. m \in DOMAIN call.ids /\ ids[m] = call.ids[m]
        BY <2>1, <3>2
      <4>2. /\ status[ids[m]] = "paused" /\ due[ids[m]] <= call.ms
            /\ ~Held(ids[m])
            /\ \A n \in DOMAIN call.ids : call.ids[n] = ids[m] => n = m
        BY <2>4, <4>1 DEF EarlyInv, Collected
      <4>3. ids[m] # Target
        BY <1>2, <4>2
      <4>4. QED
        BY <1>2, <2>1, <4>1, <4>2, <4>3
    <3>3. QED
      BY <3>1, <3>2
  <2>5. QED
    BY <1>1, <1>2, <1>4, <1>5, <2>1, <2>2, <2>4, ContinueKeepsWaiting
<1>6. CASE call.op # "partition"
  <2>1. /\ Spawn(<<Target>>, call.ms) /\ call' = Idle
        /\ <<Target>> \in Seq(Containers) /\ DOMAIN <<Target>> = {1}
    BY <1>1, <1>6 DEF PauseRequest, Returns
  <2>2. \A m \in DOMAIN <<Target>> : <<Target>>[m] = Target /\ m = 1
    OBVIOUS
  <2> DEFINE ids == <<Target>>
  <2> HIDE DEF ids
  <2>3. \A m \in DOMAIN ids : ids[m] \notin stale =>
          /\ status'[ids[m]] = "paused" /\ due'[ids[m]] <= call.ms /\ ~Held(ids[m])
          /\ \A n \in DOMAIN ids : ids[n] = ids[m] => n = m
    BY <1>1, <1>2, <1>3, <2>2 DEF ids
  <2>4. ids \in Seq(Containers) /\ Spawn(ids, call.ms)
    BY <2>1 DEF ids
  <2>5. Waits' /\ HeldOnce'
    BY <1>1, <1>2, <1>4, <2>3, <2>4, SpawnKeepsWaiting DEF EarlyInv
  <2>6. QED
    BY <1>2, <2>1, <2>5, IdleCollectsNothing DEF EarlyInv, EarlyOnlyIfRestarted
<1>7. QED
  BY <1>5, <1>6

\* A task that fires ends the pause that it held, and no other.
LEMMA FiringKeepsWaiting ==
  ASSUME TypeOK, EarlyInv, NEW i \in DOMAIN timers, TimerFires(i)
  PROVE  EarlyInv'
<1> DEFINE c == Head(timers[i].ids)
<1>0. timers \in Seq(Tasks)
  BY TaskTyped
<1>1. /\ timers[i] \in Tasks /\ timers[i].ids # <<>>
      /\ timers[i].ids \in Seq(Containers) /\ timers[i].left = 0
  BY TaskTyped DEF TimerFires, Ripe, Tasks
<1>2. /\ c \in Containers /\ 1 \in DOMAIN timers[i].ids /\ timers[i].ids[1] = c
      /\ c \in ToSet(timers[i].ids)
  BY <1>1, EmptySeq, HeadTailProperties DEF ToSet
<1>3. /\ DOMAIN timers' = DOMAIN timers
      /\ timers'[i].ids = Tail(timers[i].ids) /\ timers'[i].left = timers[i].left
      /\ \A j \in DOMAIN timers : j # i => timers'[j] = timers[j]
  BY <1>0, <1>1 DEF TimerFires, AfterUnpause, Tasks
<1>4. \A m \in DOMAIN Tail(timers[i].ids) :
        /\ m + 1 \in DOMAIN timers[i].ids /\ m + 1 # 1 /\ m \in Nat
        /\ Tail(timers[i].ids)[m] = timers[i].ids[m + 1]
  BY <1>1, HeadTailProperties, LenProperties
<1>5. /\ call' = call /\ stale' = stale
      /\ \A d \in Containers : d # c => status'[d] = status[d] /\ due'[d] = due[d]
      /\ cut' = cut \/ (cut' = cut \cup {c} /\ due[c] > 0)
  BY <1>2 DEF TimerFires, Unpause, Becomes, TypeOK, HostTypeOK, history
<1> HIDE DEF c
\* Where a container that a task still holds was before.
<1>6. ASSUME NEW j \in DOMAIN timers, NEW m \in DOMAIN timers'[j].ids
      PROVE  \E n \in DOMAIN timers[j].ids :
               /\ timers'[j].ids[m] = timers[j].ids[n]
               /\ n = IF j = i THEN m + 1 ELSE m
               /\ j = i => n # 1 /\ m \in Nat
  BY <1>3, <1>4, <1>6
<1>7. \A j \in DOMAIN timers : timers'[j].left = timers[j].left
  BY <1>3
<1>8. \A j \in DOMAIN timers : \A n \in DOMAIN timers[j].ids :
        timers[j].ids[n] \in Containers /\ timers[j].ids[n] \in ToSet(timers[j].ids)
  <2> SUFFICES ASSUME NEW j \in DOMAIN timers, NEW n \in DOMAIN timers[j].ids
               PROVE  /\ timers[j].ids[n] \in Containers
                      /\ timers[j].ids[n] \in ToSet(timers[j].ids)
    OBVIOUS
  <2>1. timers[j] \in Tasks
    BY TaskTyped
  <2>2. QED
    BY <2>1 DEF Tasks, ToSet
<1>9. ASSUME NEW j \in DOMAIN timers, NEW n \in DOMAIN timers[j].ids,
             j = i => n # 1, timers[j].ids[n] \notin stale
      PROVE  timers[j].ids[n] # c
  BY <1>2, <1>9 DEF EarlyInv, HeldOnce
<1>10. Waits'
  <2> SUFFICES ASSUME NEW j \in DOMAIN timers, NEW m \in DOMAIN timers'[j].ids,
                      timers'[j].ids[m] \notin stale
               PROVE  /\ status'[timers'[j].ids[m]] = "paused"
                      /\ due'[timers'[j].ids[m]] <= timers'[j].left
    BY <1>3, <1>5 DEF Waits
  <2>1. PICK n \in DOMAIN timers[j].ids :
          timers'[j].ids[m] = timers[j].ids[n] /\ (j = i => n # 1)
    BY <1>6
  <2>2. timers[j].ids[n] # c /\ timers[j].ids[n] \in Containers
    BY <1>8, <1>9, <2>1
  <2>3. /\ status[timers[j].ids[n]] = "paused"
        /\ due[timers[j].ids[n]] <= timers[j].left
    BY <2>1 DEF EarlyInv, Waits
  <2>4. QED
    BY <1>5, <1>7, <2>1, <2>2, <2>3
<1>11. HeldOnce'
  <2> SUFFICES ASSUME NEW j \in DOMAIN timers, NEW k \in DOMAIN timers,
                      NEW m \in DOMAIN timers'[j].ids,
                      NEW n \in DOMAIN timers'[k].ids,
                      timers'[j].ids[m] = timers'[k].ids[n],
                      timers'[j].ids[m] \notin stale
               PROVE  j = k /\ m = n
    BY <1>3, <1>5 DEF HeldOnce
  <2>1. PICK p \in DOMAIN timers[j].ids :
          /\ timers'[j].ids[m] = timers[j].ids[p]
          /\ p = IF j = i THEN m + 1 ELSE m
          /\ j = i => m \in Nat
    BY <1>6
  <2>2. PICK q \in DOMAIN timers[k].ids :
          /\ timers'[k].ids[n] = timers[k].ids[q]
          /\ q = IF k = i THEN n + 1 ELSE n
          /\ k = i => n \in Nat
    BY <1>6
  <2>3. timers[j].ids[p] = timers[k].ids[q] /\ timers[j].ids[p] \notin stale
    BY <2>1, <2>2
  <2>4. HeldOnce
    BY DEF EarlyInv
  <2>5. j = k /\ p = q
    BY <2>3, <2>4, Zenon DEF HeldOnce
  <2>6. QED
    BY <2>1, <2>2, <2>5
<1>12. \A d : Held(d)' => Held(d)
  <2> SUFFICES ASSUME NEW d, NEW j \in DOMAIN timers, d \in ToSet(timers'[j].ids)
               PROVE  Held(d)
    BY <1>3 DEF Held
  <2>1. PICK m \in DOMAIN timers'[j].ids : d = timers'[j].ids[m]
    BY DEF ToSet
  <2>2. PICK n \in DOMAIN timers[j].ids : d = timers[j].ids[n]
    BY <1>6, <2>1
  <2>3. QED
    BY <1>8, <2>2 DEF Held
<1>13. Collected'
  <2>1. Held(c)
    BY <1>2 DEF Held
  <2>2. \A m \in DOMAIN call.ids : call.ids[m] \in Containers
    BY DEF TypeOK
  <2>3. QED
    BY <1>5, <1>12, <2>1, <2>2 DEF EarlyInv, Collected
<1>14. EarlyOnlyIfRestarted'
  <2>1. c \notin stale => due[c] <= 0
    BY <1>1, <1>2 DEF EarlyInv, Waits
  <2>2. due[c] \in Nat
    BY <1>2 DEF TypeOK
  <2>3. QED
    BY <1>5, <2>1, <2>2 DEF EarlyInv, EarlyOnlyIfRestarted
<1>15. QED
  BY <1>10, <1>11, <1>13, <1>14 DEF EarlyInv

\* A pause and the sleep of the task that ends it run out together.
LEMMA WaitingRunsOut ==
  ASSUME TypeOK, EarlyInv, TimePasses
  PROVE  EarlyInv'
<1>1. /\ UNCHANGED <<status, call, stale, cut>> /\ DOMAIN timers' = DOMAIN timers
      /\ \A c \in Containers : due'[c] = IF due[c] > 0 THEN due[c] - 1 ELSE 0
  BY DEF TimePasses
<1>2. \A i \in DOMAIN timers :
        /\ timers'[i].ids = timers[i].ids
        /\ timers[i].left \in Nat
        /\ timers'[i].left = IF timers[i].left > 0 THEN timers[i].left - 1 ELSE 0
        /\ \A m \in DOMAIN timers[i].ids : timers[i].ids[m] \in Containers
  <2> SUFFICES ASSUME NEW i \in DOMAIN timers
               PROVE  /\ timers'[i].ids = timers[i].ids
                      /\ timers[i].left \in Nat
                      /\ timers'[i].left =
                           IF timers[i].left > 0 THEN timers[i].left - 1 ELSE 0
                      /\ \A m \in DOMAIN timers[i].ids :
                           timers[i].ids[m] \in Containers
    OBVIOUS
  <2>1. timers[i] \in Tasks
    BY TaskTyped
  <2>2. QED
    BY <2>1 DEF TimePasses, Tasks
<1>3. \A c \in Containers : due[c] \in Nat
  BY DEF TypeOK
<1>4. Waits'
  BY <1>1, <1>2, <1>3 DEF EarlyInv, Waits
<1>5. HeldOnce'
  BY <1>1, <1>2 DEF EarlyInv, HeldOnce
<1>6. \A c : Held(c)' <=> Held(c)
  BY <1>1, <1>2 DEF Held
<1>7. Collected'
  <2>1. call.ms \in Nat /\ \A m \in DOMAIN call.ids : call.ids[m] \in Containers
    BY DEF TypeOK
  <2>2. QED
    BY <1>1, <1>3, <1>6, <2>1 DEF EarlyInv, Collected
<1>8. QED
  BY <1>1, <1>4, <1>5, <1>7 DEF EarlyInv, EarlyOnlyIfRestarted

LEMMA EarlyStep ==
  ASSUME TypeOK, CallOK, EarlyInv, [Next]_vars
  PROVE  EarlyInv'
<1> USE DEF history
<1>1. CASE UNCHANGED vars
  <2>1. \A c : Held(c)' <=> Held(c)
    BY <1>1 DEF Held, vars
  <2>2. QED
    BY <1>1, <2>1
       DEF EarlyInv, Waits, HeldOnce, Collected, EarlyOnlyIfRestarted, vars
<1>2. CASE ExecuteFault
  <2>1. call'.ids = <<>> /\ UNCHANGED <<status, timers, due, stale, cut>>
    BY <1>2 DEF ExecuteFault, Execute
  <2>2. DOMAIN call'.ids = {}
    BY <2>1
  <2>3. Waits' /\ HeldOnce'
    BY <2>1, KeepsWaiting DEF EarlyInv
  <2>4. QED
    BY <2>1, <2>2, <2>3 DEF EarlyInv, Collected, EarlyOnlyIfRestarted
<1>3. CASE Resolve
  <2>1. /\ call'.ids = call.ids /\ call'.ms = call.ms
        /\ UNCHANGED <<status, timers, due, stale, cut>>
    BY <1>3 DEF Resolve, TypeOK
  <2>2. \A c : Held(c)' <=> Held(c)
    BY <2>1 DEF Held
  <2>3. QED
    BY <2>1, <2>2 DEF EarlyInv, Waits, HeldOnce, Collected, EarlyOnlyIfRestarted
<1>4. CASE ResolveFails
  <2>1. call # Idle /\ UNCHANGED <<status, due, stale, cut>> /\ call.ids \in Seq(Containers)
    BY <1>4 DEF ResolveFails, TypeOK
  <2>2. CASE call.op = "partition"
    <3>1. Continue(call.ids)
      BY <1>4, <2>2 DEF ResolveFails
    <3>2. QED
      BY <2>1, <2>2, <3>1, ContinueKeepsWaiting DEF EarlyInv, Collected
  <2>3. CASE call.op # "partition"
    BY <1>4, <2>1, <2>3, ReturnKeepsWaiting DEF ResolveFails, Returns
  <2>4. QED
    BY <2>2, <2>3
<1>5. CASE PauseRequest
  BY <1>5, PauseKeepsWaiting
<1>6. CASE KillRequest
  <2>1. /\ call # Idle /\ call' = Idle /\ UNCHANGED <<timers, due, stale, cut>>
        /\ status[Target] = "running" /\ status' = [status EXCEPT ![Target] = "exited"]
    BY <1>6 DEF KillRequest, Returns, Kill, Becomes, Idle
  <2>2. \A c \in Containers : Held(c) /\ c \notin stale => c # Target
    BY <2>1, TargetTyped, RunningIsFree
  <2>3. QED
    BY <2>1, <2>2, ReturnKeepsWaiting DEF TypeOK, HostTypeOK
<1>7. CASE RestartRequest
  <2>1. /\ call' = Idle /\ UNCHANGED <<timers, cut>>
        /\ stale' = IF Held(Target) THEN stale \cup {Target} ELSE stale
        /\ status' = [status EXCEPT ![Target] = "running"]
        /\ due' = [due EXCEPT ![Target] = 0]
    BY <1>7 DEF RestartRequest, Returns, Restart, Becomes
  <2>2. \A c \in Containers : Held(c) /\ c \notin stale' => c # Target
    BY <2>1
  <2>3. \A c \in Containers : c # Target =>
          status'[c] = status[c] /\ due'[c] = due[c]
    BY <2>1 DEF TypeOK, HostTypeOK
  <2>4. QED
    BY <2>1, <2>2, <2>3, ReturnKeepsWaiting
<1>8. CASE RequestFails
  BY <1>8, ReturnKeepsWaiting DEF RequestFails, Returns
<1>9. ASSUME NEW i \in DOMAIN timers, TimerFires(i) PROVE EarlyInv'
  BY <1>9, FiringKeepsWaiting
<1>10. CASE TimePasses
  BY <1>10, WaitingRunsOut
<1>11. CASE ContainerDies
  <2>1. UNCHANGED <<call, timers, due, stale, cut>>
    BY <1>11 DEF ContainerDies
  <2>2. PICK d \in Containers : status[d] = "running"
                              /\ status' = [status EXCEPT ![d] = "exited"]
    BY <1>11 DEF ContainerDies, Dies, Becomes
  <2>3. d \notin stale => ~Held(d) /\ d \notin ToSet(call.ids)
    BY <2>2, RunningIsFree
  <2>4. \A c \in Containers : c # d => status'[c] = status[c]
    BY <2>2 DEF TypeOK, HostTypeOK
  <2>5. Waits' /\ HeldOnce'
    BY <2>1, <2>3, <2>4, KeepsWaiting DEF EarlyInv
  <2>6. \A c : Held(c)' <=> Held(c)
    BY <2>1 DEF Held
  <2>7. \A m \in DOMAIN call.ids :
          call.ids[m] \in Containers /\ call.ids[m] \in ToSet(call.ids)
    BY DEF TypeOK, ToSet
  <2>8. Collected'
    BY <2>1, <2>3, <2>4, <2>6, <2>7 DEF EarlyInv, Collected
  <2>9. QED
    BY <2>1, <2>5, <2>8 DEF EarlyInv, EarlyOnlyIfRestarted
<1>12. CASE ProcessExits
  <2>1. /\ timers' = <<>> /\ DOMAIN timers' = {} /\ call = Idle
        /\ UNCHANGED <<call, stale, cut>>
    BY <1>12 DEF ProcessExits
  <2>2. Waits' /\ HeldOnce' /\ Collected'
    BY <2>1, IdleCollectsNothing DEF Waits, HeldOnce
  <2>3. QED
    BY <2>1, <2>2 DEF EarlyInv, EarlyOnlyIfRestarted
<1>13. QED
  BY <1>1, <1>2, <1>3, <1>4, <1>5, <1>6, <1>7, <1>8, <1>9, <1>10, <1>11, <1>12
     DEF Next, Caller

\* No fault shortens the pause of another: a container is resumed early only if
\* it was restarted while a task held it, however the calls and the tasks
\* interleave (resolve_container finds running containers only).
THEOREM EarlyExplained == Spec => []EarlyOnlyIfRestarted
<1>1. Init => EarlyInv
  <2>1. ASSUME Init
        PROVE  DOMAIN timers = {} /\ DOMAIN call.ids = {} /\ cut = {}
    BY <2>1 DEF Init, Idle
  <2>2. QED
    BY <2>1 DEF EarlyInv, Waits, HeldOnce, Collected, EarlyOnlyIfRestarted
<1>2. TypeOK /\ CallOK /\ EarlyInv /\ [Next]_vars => EarlyInv'
  BY EarlyStep
<1>3. EarlyInv => EarlyOnlyIfRestarted
  BY DEF EarlyInv
<1>4. QED
  BY <1>1, <1>2, <1>3, TypeCorrect, PTL DEF Spec

=============================================================================

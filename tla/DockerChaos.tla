---------------------------- MODULE DockerChaos -----------------------------
(***************************************************************************)
(* DockerChaos::execute_fault (r30rg-live/src/docker.rs): one caller       *)
(* executes faults one after the other.  Every await is a step of its own: *)
(* resolving a name, then the request to the daemon.  Pauses and           *)
(* partitions leave a spawned task behind that sleeps and then unpauses;   *)
(* the tasks run concurrently with the caller and with each other, and die *)
(* with the process.  Time is kept where it runs out: timers[i].left is    *)
(* the rest of the sleep of task i.  DiskPressure does nothing.            *)
(***************************************************************************)
EXTENDS DockerHost, SequencesExt

CONSTANTS
  Durations,     \* the values of duration_ms
  MaxFaults,     \* bound: calls of execute_fault
  MaxFailures    \* bound: requests that fail through no fault of the caller,
                 \* and containers that die

ASSUME ChaosAssumption ==
  /\ Durations \subseteq Nat \ {0}
  /\ MaxFaults \in Nat /\ MaxFailures \in Nat

VARIABLES
  call,       \* the running call of execute_fault, or Idle
  timers,     \* the spawned tasks, in the order of their spawning
  faults,     \* how many faults were executed
  failures,   \* how many failures there were
  exited,     \* the process has ended, and its tasks with it
  due,        \* history: what is left of the pause that c is in
  stale,      \* history: containers restarted while a task held them
  cut         \* history: containers resumed before their pause was over

history == <<due, stale, cut>>

vars == <<status, call, timers, faults, failures, exited, history>>

Idle == [op |-> "none", todo |-> <<>>, at |-> "resolve", ms |-> 0, ids |-> <<>>]

TypeOK ==
  /\ HostTypeOK
  /\ call \in [op : {"none", "pause", "partition", "kill", "restart"},
               todo : Seq(Containers), at : {"resolve", "request"},
               ms : Nat, ids : Seq(Containers)]
  /\ timers \in Seq([left : Nat, ids : Seq(Containers)])
  /\ faults \in 0 .. MaxFaults
  /\ failures \in 0 .. MaxFailures
  /\ exited \in BOOLEAN
  /\ due \in [Containers -> Nat]
  /\ stale \subseteq Containers
  /\ cut \subseteq Containers

Init ==
  /\ HostInit
  /\ call = Idle
  /\ timers = <<>>
  /\ faults = 0
  /\ failures = 0
  /\ exited = FALSE
  /\ due = [c \in Containers |-> 0]
  /\ stale = {}
  /\ cut = {}

-----------------------------------------------------------------------------

\* Mutants of the operators below.
SpawnForgetful(ids, ms) ==
  timers' = Append(timers, [left |-> ms, ids |-> SubSeq(ids, 2, Len(ids))])
RipeAtOnce(t) == t.ids # <<>>
StopAtFirst(ids) == <<>>

Target == Head(call.todo)

Returns == call' = Idle

Fails == failures < MaxFailures /\ failures' = failures + 1

Spawn(ids, ms) == timers' = Append(timers, [left |-> ms, ids |-> ids])

Ripe(t) == t.left = 0 /\ t.ids # <<>>

\* The containers a task has still to unpause after it has tried the first.
AfterUnpause(ids) == Tail(ids)

Held(c) == \E i \in DOMAIN timers : c \in ToSet(timers[i].ids)

\* network_partition goes on to its next target, or spawns its task.
Continue(ids) ==
  IF Len(call.todo) = 1
  THEN Spawn(ids, call.ms) /\ Returns
  ELSE /\ call' = [call EXCEPT !.todo = Tail(@), !.at = "resolve", !.ids = ids]
       /\ UNCHANGED timers

-----------------------------------------------------------------------------

Execute(op, targets, ms) ==
  /\ call = Idle /\ ~exited
  /\ faults < MaxFaults
  /\ faults' = faults + 1
  /\ call' = [op |-> op, todo |-> targets, at |-> "resolve", ms |-> ms,
              ids |-> <<>>]
  /\ UNCHANGED <<status, timers, failures, exited, history>>

ExecuteFault ==
  \/ \E c \in Containers : \E op \in {"kill", "restart"} : Execute(op, <<c>>, 0)
  \/ \E c \in Containers, ms \in Durations : Execute("pause", <<c>>, ms)
  \/ \E c, d \in Containers, ms \in Durations :
       Execute("partition", IF c = d THEN <<c>> ELSE <<c, d>>, ms)

Resolve ==
  /\ call # Idle /\ call.at = "resolve"
  /\ Resolvable(Target, call.op # "restart")
  /\ call' = [call EXCEPT !.at = "request"]
  /\ UNCHANGED <<status, timers, faults, failures, exited, history>>

\* Not found, or the listing failed: a partition skips the target.
ResolveFails ==
  /\ call # Idle /\ call.at = "resolve"
  /\ \/ ~Resolvable(Target, call.op # "restart") /\ UNCHANGED failures
     \/ Fails
  /\ IF call.op = "partition" THEN Continue(call.ids)
                              ELSE Returns /\ UNCHANGED timers
  /\ UNCHANGED <<status, faults, exited, history>>

PauseRequest ==
  /\ call.op \in {"pause", "partition"} /\ call.at = "request"
  /\ Pause(Target)
  /\ IF call.op = "partition" THEN Continue(Append(call.ids, Target))
                              ELSE Spawn(<<Target>>, call.ms) /\ Returns
  /\ due' = [due EXCEPT ![Target] = call.ms]
  /\ UNCHANGED <<faults, failures, exited, stale, cut>>

KillRequest ==
  /\ call.op = "kill" /\ call.at = "request"
  /\ Kill(Target)
  /\ Returns
  /\ UNCHANGED <<timers, faults, failures, exited, history>>

RestartRequest ==
  /\ call.op = "restart" /\ call.at = "request"
  /\ Restart(Target)
  /\ Returns
  /\ due' = [due EXCEPT ![Target] = 0]
  /\ stale' = IF Held(Target) THEN stale \cup {Target} ELSE stale
  /\ UNCHANGED <<timers, faults, failures, exited, cut>>

\* The daemon refuses or fails: the error leaves execute_fault at once, also
\* out of the loop of network_partition.
RequestFails ==
  /\ call # Idle /\ call.at = "request"
  /\ \/ call.op # "restart" /\ status[Target] # "running" /\ UNCHANGED failures
     \/ Fails
  /\ Returns
  /\ UNCHANGED <<status, timers, faults, exited, history>>

\* A task whose sleep is over tries its next container; an error is logged.
TimerFires(i) ==
  /\ Ripe(timers[i])
  /\ timers' = [timers EXCEPT ![i].ids = AfterUnpause(@)]
  /\ LET c == Head(timers[i].ids) IN
       \/ /\ Unpause(c)
          /\ due' = [due EXCEPT ![c] = 0]
          /\ cut' = IF due[c] > 0 THEN cut \cup {c} ELSE cut
          /\ UNCHANGED <<failures, stale>>
       \/ status[c] # "paused" /\ UNCHANGED <<status, failures, history>>
       \/ Fails /\ UNCHANGED <<status, history>>
  /\ UNCHANGED <<call, faults, exited>>

\* Mutant of TimePasses.
TimePassesBelowZero ==
  /\ \E i \in DOMAIN timers : timers[i].left > 0
  /\ timers' = [i \in DOMAIN timers |-> [timers[i] EXCEPT !.left = @ - 1]]
  /\ UNCHANGED <<status, call, faults, failures, exited, history>>

TimePasses ==
  /\ \E i \in DOMAIN timers : timers[i].left > 0
  /\ timers' = [i \in DOMAIN timers |->
                  [timers[i] EXCEPT !.left = IF @ > 0 THEN @ - 1 ELSE 0]]
  /\ due' = [c \in Containers |-> IF due[c] > 0 THEN due[c] - 1 ELSE 0]
  /\ UNCHANGED <<status, call, faults, failures, exited, stale, cut>>

ContainerDies ==
  /\ Fails
  /\ \E c \in Containers : Dies(c)
  /\ UNCHANGED <<call, timers, faults, exited, history>>

ProcessExits ==
  /\ call = Idle /\ ~exited
  /\ exited' = TRUE
  /\ timers' = <<>>
  /\ UNCHANGED <<status, call, faults, failures, history>>

Caller == Resolve \/ ResolveFails \/ PauseRequest \/ KillRequest
            \/ RestartRequest \/ RequestFails

Next ==
  \/ ExecuteFault \/ Caller
  \/ \E i \in DOMAIN timers : TimerFires(i)
  \/ TimePasses \/ ContainerDies \/ ProcessExits

\* Requests return, time passes, and the runtime polls every task that is
\* ready; nobody is obliged to execute another fault or to end the process.
Fairness ==
  /\ WF_vars(Caller) /\ WF_vars(TimePasses)
  /\ \A i \in 1 .. MaxFaults : WF_vars(i \in DOMAIN timers /\ TimerFires(i))

Spec == Init /\ [][Next]_vars /\ Fairness

-----------------------------------------------------------------------------

\* As long as no request fails and the process lives, a paused container is
\* always in the hands of a task, or of the partition still being set up,
\* that will unpause it (network_partition, pause_container).
PausedIsHeld ==
  failures = 0 /\ ~exited => \A c \in Containers :
    status[c] = "paused" => Held(c) \/ c \in ToSet(call.ids)

\* Two overlapping faults cannot shorten one another's pause: a container is
\* resumed early only if it was restarted while a task still held it, so that
\* the task ends a later pause (resolve_container with running_only).
EarlyOnlyIfRestarted == cut \subseteq stale

\* A paused container does not stay paused, unless a request failed or the
\* process ended first (the spawned tasks).
PausedResumes ==
  \A c \in Containers :
    status[c] = "paused" ~> status[c] # "paused" \/ failures > 0 \/ exited

\* "PARTITION [..] for ..ms" (types.rs:180): when network_partition returns,
\* somebody is going to unpause every container it has paused.
PartitionEnds ==
  [][call # Idle /\ call' = Idle =>
       \A c \in ToSet(call.ids) : Held(c)']_vars

=============================================================================

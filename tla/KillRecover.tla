---------------------------- MODULE KillRecover -----------------------------
(***************************************************************************)
(* `r30rg run` over the three kill-and-recover scenarios                   *)
(* (r30rg-scenarios/src/{sequencer,batch_poster,validator}_chaos.rs and    *)
(* cmd_run in r30rg-cli/src/main.rs).  A scenario is a script of awaits;   *)
(* between two of them the chains produce blocks and containers may die.   *)
(* A failing await leaves the scenario through `?`, except where the code  *)
(* matches on the result.  The L2 endpoint of a dead sequencer refuses or  *)
(* answers with the last block, as the scenario itself allows for.         *)
(***************************************************************************)
EXTENDS DockerHost, FiniteSets

CONSTANTS
  Attempts,      \* polls for the recovery of L2                        (12)
  Slack,         \* blocks L2 may gain after the kill without a finding  (5)
  MaxL1, MaxL2,  \* bounds: block numbers
  MaxFailures    \* bound: awaits that fail and containers that die

ASSUME KillAssumption ==
  /\ Containers = {"sequencer", "poster", "validator"}
  /\ Attempts \in Nat \ {0} /\ Slack \in Nat
  /\ MaxL1 \in Nat /\ MaxL2 \in Nat /\ MaxFailures \in Nat

VARIABLES
  l1, l2,       \* the block numbers of the chains
  turn,         \* index of the scenario in ToRun, past its end when all ran
  pc,           \* index of the next await in the script of the scenario
  before,       \* before[l]: l1_block_before, l2_block_before
  during,       \* during[l]: l1_block_during, l2_block_during
  attempts,     \* polls left
  findings,     \* ctx.findings of the running scenario, by title
  results,      \* results[s]: "none", "passed", "failed" or "error"
  failures,     \* how many failures there were
  died,         \* history: containers that died by themselves and are down
  raced,        \* history: L2 gained blocks between the baseline and the kill
  resumed,      \* history: L2 gained a block since the sequencer's restart
  blamed        \* history: scenarios that found fault with L2 when no
                \* sequencer was running

chain == <<l1, l2>>
readings == <<before, during>>
history == <<died, raced, resumed, blamed>>

vars == <<status, chain, turn, pc, readings, attempts, findings, results,
          failures, history>>

ToRun == <<"sequencer", "poster", "validator">>

\* Mutant of Script: nobody restarts the poster.
ScriptForgetful ==
  [sequencer |-> <<"connect", "base_l1", "base_l2", "kill", "l1_during",
                   "l2_down", "restart", "recover", "l1_after">>,
   poster    |-> <<"connect", "base_l1", "base_l2", "kill", "l2_during",
                   "l1_during", "l2_after">>,
   validator |-> <<"connect", "base_l1", "base_l2", "kill", "l1_during",
                   "l2_during", "restart", "l2_after">>]

Script ==
  [sequencer |-> <<"connect", "base_l1", "base_l2", "kill", "l1_during",
                   "l2_down", "restart", "recover", "l1_after">>,
   poster    |-> <<"connect", "base_l1", "base_l2", "kill", "l2_during",
                   "l1_during", "restart", "l2_after">>,
   validator |-> <<"connect", "base_l1", "base_l2", "kill", "l1_during",
                   "l2_during", "restart", "l2_after">>]

Titles == {"l1_stopped", "l2_stopped", "l2_advancing", "not_recovered",
           "l1_stalled", "l2_stalled"}

TypeOK ==
  /\ HostTypeOK
  /\ l1 \in 0 .. MaxL1 /\ l2 \in 0 .. MaxL2
  /\ turn \in 1 .. Len(ToRun) + 1
  /\ pc \in 1 .. 9
  /\ before \in [{"l1", "l2"} -> Nat] /\ during \in [{"l1", "l2"} -> Nat]
  /\ attempts \in 1 .. Attempts
  /\ findings \subseteq Titles
  /\ results \in [Containers -> {"none", "passed", "failed", "error"}]
  /\ failures \in 0 .. MaxFailures
  /\ died \subseteq Containers /\ blamed \subseteq Containers
  /\ raced \in BOOLEAN /\ resumed \in BOOLEAN

NoReadings == [l \in {"l1", "l2"} |-> 0]

Init ==
  /\ HostInit
  /\ l1 = 0 /\ l2 = 0
  /\ turn = 1 /\ pc = 1
  /\ before = NoReadings /\ during = NoReadings
  /\ attempts = Attempts
  /\ findings = {}
  /\ results = [s \in Containers |-> "none"]
  /\ failures = 0
  /\ died = {} /\ blamed = {}
  /\ raced = FALSE /\ resumed = FALSE

-----------------------------------------------------------------------------

\* Mutants of the operators below.
FewerNever(n) == n
FewerByTwo(n) == n - 2
HasRecoveredEqual == l2 >= before["l2"]

Over == turn > Len(ToRun)

\* The running scenario; it kills the container of the same name.
Scenario == ToRun[turn]
Victim == Scenario

At(kind) == ~Over /\ Script[Scenario][pc] = kind

Fails == failures < MaxFailures /\ failures' = failures + 1

SequencerUp == status["sequencer"] = "running"

\* A request to L1 fails only as a failure; one to L2 also when L2 is down.
L2Refuses == Fails \/ (~SequencerUp /\ UNCHANGED failures)

Fewer(n) == n - 1

HasRecovered == l2 > before["l2"]

\* The scenario ends with this outcome and the next one starts afresh.
Ends(outcome) ==
  /\ results' = [results EXCEPT ![Scenario] = outcome]
  /\ turn' = turn + 1
  /\ pc' = 1
  /\ findings' = {}
  /\ attempts' = Attempts
  /\ before' = NoReadings /\ during' = NoReadings

\* The await went well; titles are the findings it led to.
Proceeds(titles) ==
  IF pc = Len(Script[Scenario])
  THEN Ends(IF findings \cup titles = {} THEN "passed" ELSE "failed")
  ELSE /\ pc' = pc + 1
       /\ findings' = findings \cup titles
       /\ UNCHANGED <<turn, attempts, results>>

If(condition, title) == IF condition THEN {title} ELSE {}

-----------------------------------------------------------------------------

Connect ==
  /\ At("connect")
  /\ Proceeds({})
  /\ UNCHANGED <<status, chain, readings, failures, history>>

Baseline ==
  /\ \E l \in {"l1", "l2"} :
       /\ At(IF l = "l1" THEN "base_l1" ELSE "base_l2")
       /\ before' = [before EXCEPT ![l] = IF l = "l1" THEN l1 ELSE l2]
  /\ Proceeds({})
  /\ UNCHANGED <<status, chain, during, failures, history>>

KillVictim ==
  /\ At("kill")
  /\ Kill(Victim)
  /\ Proceeds({})
  /\ raced' = IF Victim = "sequencer" THEN l2 # before["l2"] ELSE raced
  /\ UNCHANGED <<chain, readings, failures, died, resumed, blamed>>

L1During ==
  /\ At("l1_during")
  /\ during' = [during EXCEPT !["l1"] = l1]
  /\ Proceeds(If(l1 <= before["l1"], "l1_stopped"))
  /\ UNCHANGED <<status, chain, before, failures, history>>

Blames(condition) ==
  blamed' = IF condition /\ ~SequencerUp THEN blamed \cup {Scenario} ELSE blamed

L2During ==
  /\ At("l2_during")
  /\ during' = [during EXCEPT !["l2"] = l2]
  /\ Proceeds(If(l2 <= before["l2"], "l2_stopped"))
  /\ Blames(l2 <= before["l2"])
  /\ UNCHANGED <<status, chain, before, failures, died, raced, resumed>>

\* No answer, or one within the slack, is what the scenario expects.
L2Down ==
  /\ At("l2_down")
  /\ \/ Proceeds(If(l2 > before["l2"] + Slack, "l2_advancing"))
        /\ UNCHANGED failures
     \/ L2Refuses /\ Proceeds({})
  /\ UNCHANGED <<status, chain, readings, history>>

\* Mutant of RestartVictim: the target is that of another scenario.
RestartPoster ==
  /\ At("restart")
  /\ Restart("poster")
  /\ Proceeds({})
  /\ UNCHANGED <<chain, readings, failures, history>>

RestartVictim ==
  /\ At("restart")
  /\ Restart(Victim)
  /\ Proceeds({})
  /\ died' = died \ {Victim}
  /\ resumed' = IF Victim = "sequencer" THEN FALSE ELSE resumed
  /\ UNCHANGED <<chain, readings, failures, raced, blamed>>

Recover ==
  /\ At("recover")
  /\ \/ HasRecovered /\ Proceeds({}) /\ UNCHANGED <<failures, readings>>
     \/ /\ (~HasRecovered /\ UNCHANGED failures) \/ L2Refuses
        /\ IF attempts = 1
           THEN Proceeds({"not_recovered"}) /\ UNCHANGED readings
           ELSE /\ attempts' = Fewer(attempts)
                /\ UNCHANGED <<turn, pc, findings, results, readings>>
  /\ UNCHANGED <<status, chain, history>>

L1After ==
  /\ At("l1_after")
  /\ Proceeds(If(l1 <= during["l1"], "l1_stalled"))
  /\ UNCHANGED <<status, chain, failures, history>>

L2After ==
  /\ At("l2_after")
  /\ Proceeds(If(l2 <= during["l2"], "l2_stalled"))
  /\ Blames(l2 <= during["l2"])
  /\ UNCHANGED <<status, chain, failures, died, raced, resumed>>

\* The `?` of an await: the scenario ends, whatever it has already done.
AwaitFails ==
  /\ ~Over
  /\ \/ Fails /\ ~At("l2_down") /\ ~At("recover")
     \/ /\ At("connect") \/ At("base_l2") \/ At("l2_during") \/ At("l2_after")
        /\ L2Refuses
     \/ At("kill") /\ ~Resolvable(Victim, TRUE) /\ UNCHANGED failures
  /\ Ends("error")
  /\ UNCHANGED <<status, chain, history>>

Runner ==
  \/ Connect \/ Baseline \/ KillVictim \/ L1During \/ L2During \/ L2Down
  \/ RestartVictim \/ Recover \/ L1After \/ L2After \/ AwaitFails

-----------------------------------------------------------------------------

L1Block ==
  /\ l1 < MaxL1
  /\ l1' = l1 + 1
  /\ UNCHANGED <<status, l2, turn, pc, readings, attempts, findings, results,
                 failures, history>>

\* A block for the transactions of others; an idle L2 produces none.
L2Block ==
  /\ SequencerUp
  /\ l2 < MaxL2
  /\ l2' = l2 + 1
  /\ resumed' = TRUE
  /\ UNCHANGED <<status, l1, turn, pc, readings, attempts, findings, results,
                 failures, died, raced, blamed>>

ContainerDies ==
  /\ Fails
  /\ \E c \in Containers : Dies(c) /\ died' = died \cup {c}
  /\ UNCHANGED <<chain, turn, pc, readings, attempts, findings, results,
                 raced, resumed, blamed>>

Next == ~Over /\ (Runner \/ L1Block \/ L2Block \/ ContainerDies)

\* cmd_run awaits one scenario after the other and every await returns.
Spec == Init /\ [][Next]_vars /\ WF_vars(Runner)

-----------------------------------------------------------------------------

\* Fault injection cleans up after itself or says so: when all scenarios have
\* run and none of them reports an error, every container they killed is
\* running again (the restart after the checks, and the `?` before it).
CleanUnlessError ==
  Over /\ (\A s \in Containers : results[s] # "error") =>
    \A c \in Containers : status[c] = "running" \/ c \in died

\* The poster and validator scenarios blame their own kill when L2 stands
\* still.  They can be wrong because the sequencer is down, but only if its
\* own scenario ended in an error before the restart, or it died by itself.
FalseBlameNeedsError ==
  blamed # {} => results["sequencer"] = "error" \/ "sequencer" \in died

\* A pass of the sequencer scenario shows that L2 resumed, provided that L2
\* gained no block between the baseline and the kill (phase 6 compares with
\* the baseline).
QuietPassMeansResumed ==
  results["sequencer"] = "passed" /\ ~raced => resumed

\* A run ends: no loop of a scenario waits for an event (12 polls at most).
RunEnds == <>Over

=============================================================================

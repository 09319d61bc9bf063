----------------------------- MODULE LiveRunner -----------------------------
(***************************************************************************)
(* The loop of `r30rg run --non-destructive` (cmd_run in                   *)
(* r30rg-cli/src/main.rs) and the ScenarioContext it gives each scenario   *)
(* (r30rg-core/src/scenario.rs).  A scenario takes its context by value:   *)
(* what it has found is lost when a `?` leaves it.                         *)
(***************************************************************************)
EXTENDS LiveStack, SequencesExt

VARIABLES
  toRun,      \* the scenarios still to run, as indices of the registry
  pc,         \* index of the next step in the script of the scenario
  findings,   \* ctx.findings of the running scenario, by title
  outcomes,   \* the results so far
  exit,       \* the exit code, or NoCode while the process runs
  reported    \* history: every title reported in this run

runner == <<toRun, pc, findings, outcomes, exit, reported>>

Outcomes == {"passed", "failed", "error"}
NoCode == -1

Registry ==
  LET Entry(name, category, destructive) ==
        [name |-> name, category |-> category, destructive |-> destructive]
  IN <<Entry("sequencer", "sequencer-chaos", TRUE),
       Entry("poster", "sequencer-chaos", TRUE),
       Entry("validator", "sequencer-chaos", TRUE),
       Entry("balance", "bridge-adversarial", FALSE),
       Entry("health", "invariant-probe", FALSE),
       Entry("precompile", "invariant-probe", FALSE),
       Entry("stress", "bridge-adversarial", FALSE),
       Entry("timeboost", "bridge-adversarial", FALSE)>>

\* The scenarios left by the name and the filters of the command line.
Selected ==
  {i \in DOMAIN Registry :
     /\ world.scenario \in {"all", Registry[i].name}
     /\ world.category \in {"any", Registry[i].category}
     /\ ~Registry[i].destructive}

RunnerInit ==
  /\ toRun = Selected
  /\ pc = 1
  /\ findings = {}
  /\ outcomes = <<>>
  /\ exit = NoCode
  /\ reported = {}

-----------------------------------------------------------------------------

Running == toRun # {}

Scenario == Registry[Min(toRun)].name

\* Mutant of ExitCode.
ExitCodeFailedOnly == IF Contains(outcomes, "failed") THEN 1 ELSE 0

Report(titles) ==
  /\ findings' = findings \cup titles
  /\ reported' = reported \cup titles

IntoOutcome == IF findings = {} THEN "passed" ELSE "failed"

\* The scenario goes on with its next step; titles are what it reports.
Proceeds(titles) ==
  /\ pc' = pc + 1
  /\ Report(titles)
  /\ UNCHANGED <<toRun, outcomes, exit>>

JumpsTo(step) ==
  /\ pc' = step
  /\ UNCHANGED <<toRun, findings, outcomes, exit, reported>>

\* The scenario returns and the next one gets a new context.
Ends(outcome) ==
  /\ outcomes' = Append(outcomes, outcome)
  /\ toRun' = toRun \ {Min(toRun)}
  /\ findings' = {}
  /\ pc' = 1
  /\ UNCHANGED <<exit, reported>>

ExitCode ==
  IF Contains(outcomes, "failed") \/ Contains(outcomes, "error") THEN 1 ELSE 0

\* An empty selection is an error of its own.
Exit ==
  /\ exit = NoCode /\ ~Running
  /\ exit' = IF outcomes = <<>> THEN 1 ELSE ExitCode
  /\ UNCHANGED <<toRun, pc, findings, outcomes, reported>>

=============================================================================

----------------------------- MODULE LiveProofs -----------------------------
(***************************************************************************)
(* What the exit code and the findings of LiveRun mean, for any stack, any *)
(* arguments of the command line and any number of events and of failing   *)
(* requests.                                                               *)
(***************************************************************************)
EXTENDS LiveRun, FiniteSetTheorems, TLAPS

\* The exit code is drawn from the outcomes when nothing is left to run, and
\* whatever was reported is in the outcomes by then, or still in the context.
ExitInv ==
  /\ outcomes \in Seq(Outcomes)
  /\ exit # NoCode => ~Running
  /\ findings # {} => Running
  /\ reported # {} => findings # {} \/ \E k \in DOMAIN outcomes : outcomes[k] # "passed"
  /\ exit = 0 => \A k \in DOMAIN outcomes : outcomes[k] = "passed"

Reports ==
  /\ Running /\ UNCHANGED <<toRun, outcomes, exit>>
  /\ \E titles : findings' = findings \cup titles /\ reported' = reported \cup titles

EndsTruly ==
  /\ Running
  /\ \E outcome \in Outcomes :
       Ends(outcome) /\ (findings # {} => outcome # "passed")

LEMMA KindsOfSteps ==
  ASSUME [Next]_vars
  PROVE  UNCHANGED runner \/ Reports \/ EndsTruly \/ Exit
<1>1. ASSUME NEW titles, Running, Proceeds(titles) PROVE Reports
  BY <1>1 DEF Proceeds, Report, Reports
<1>2. ASSUME NEW n, Running, JumpsTo(n) PROVE Reports
  <2>1. findings' = findings \cup {} /\ reported' = reported \cup {}
    BY <1>2 DEF JumpsTo
  <2>2. QED
    BY <1>2, <2>1 DEF JumpsTo, Reports
<1>3. Ends("error") /\ Running => EndsTruly
  BY DEF EndsTruly, Outcomes
<1>4. Ends(IntoOutcome) /\ Running => EndsTruly
  BY DEF EndsTruly, Outcomes, IntoOutcome
<1>5. CASE UNCHANGED vars \/ Environment \/ Mining
  BY <1>5 DEF vars, Environment, Mining
<1>6. CASE Connect \/ CheckAnswer \/ CheckFails
  BY <1>1, <1>6 DEF Connect, CheckAnswer, CheckFails, At
<1>7. CASE Outcome \/ AwaitFails
  BY <1>3, <1>4, <1>7 DEF Outcome, AwaitFails, At
<1>8. CASE Stress
  BY <1>1, <1>2, <1>3, <1>8 DEF Stress, At, L1Accounts, BridgeBefore, L2Before,
     SendDeposit, DepositReceipt, BridgeAfter, Poll, PollTimesOut, BridgeFinal,
     L2Accounts, L2BalanceRead, L2Pre, SendWithdrawal, WithdrawalReceipt,
     WithdrawFails, L2Post, Sends, ReceiptComes
<1>9. CASE Auction
  <2>1. CASE AuctionAddr
    BY <1>1, <1>3, <1>4, <2>1 DEF AuctionAddr, At
  <2>2. CASE Auction /\ ~AuctionAddr
    BY <1>1, <1>2, <2>2 DEF Auction, At, Detect, RoundCheck, CheckAuction,
       ReadReserve, CheckMinimum, ReadRoundAgain, ReadWinner, ReadWinnerFails,
       CheckMonopoly
  <2>3. QED
    BY <1>9, <2>1, <2>2
<1>10. QED
  BY <1>5, <1>6, <1>7, <1>8, <1>9 DEF Next, Runner

LEMMA ExitStep ==
  ASSUME ExitInv, UNCHANGED runner \/ Reports \/ EndsTruly \/ Exit
  PROVE  ExitInv'
<1>1. CASE UNCHANGED runner
  BY <1>1 DEF ExitInv, runner, Running
<1>2. CASE Reports
  BY <1>2 DEF ExitInv, Reports, Running
<1>3. CASE EndsTruly
  <2>1. PICK outcome \in Outcomes :
          Ends(outcome) /\ (findings # {} => outcome # "passed")
    BY <1>3 DEF EndsTruly
  <2>2. /\ outcomes' = Append(outcomes, outcome) /\ findings' = {}
        /\ exit' = exit /\ reported' = reported /\ exit = NoCode
    BY <1>3, <2>1 DEF Ends, EndsTruly, ExitInv
  <2>3. outcomes \in Seq(Outcomes)
    BY DEF ExitInv
  <2>4. /\ outcomes' \in Seq(Outcomes)
        /\ DOMAIN outcomes' = DOMAIN outcomes \cup {Len(outcomes) + 1}
        /\ outcomes'[Len(outcomes) + 1] = outcome
        /\ \A k \in DOMAIN outcomes : outcomes'[k] = outcomes[k]
    BY <2>2, <2>3
  <2>5. QED
    BY <2>1, <2>2, <2>4 DEF ExitInv, NoCode
<1>4. CASE Exit
  <2>1. /\ UNCHANGED <<toRun, findings, outcomes, reported>> /\ ~Running
        /\ exit' = 0 => ~Contains(outcomes, "failed") /\ ~Contains(outcomes, "error")
    BY <1>4 DEF Exit, ExitCode
  <2>2. outcomes \in Seq(Outcomes)
    BY DEF ExitInv
  <2>3. exit' = 0 => \A k \in DOMAIN outcomes : outcomes[k] = "passed"
    BY <2>1, <2>2 DEF Contains, Outcomes
  <2>4. QED
    BY <2>1, <2>3 DEF ExitInv, Running
<1>5. QED
  BY <1>1, <1>2, <1>3, <1>4

\* The exit code hides nothing, whichever scenarios run and whichever requests
\* fail: 0 only if nothing was reported and no scenario was left by an error
\* (ScenarioContext, cmd_run).
THEOREM ExitIsTrue == Spec => []ExitTellsTruth
<1>1. Init => ExitInv
  BY DEF Init, RunnerInit, ExitInv, NoCode
<1>2. ExitInv /\ [Next]_vars => ExitInv'
  BY KindsOfSteps, ExitStep
<1>3. ExitInv => ExitTellsTruth
  BY DEF ExitInv, ExitTellsTruth, Contains, NoCode
<1>4. QED
  BY <1>1, <1>2, <1>3, PTL DEF Spec

-----------------------------------------------------------------------------

\* The scripts, by the names of their steps.
StressNames ==
  <<"connect", "l1_accounts", "bridge_before", "l2_before", "send_deposit",
    "bridge_after", "poll", "bridge_final", "l2_accounts", "l2_balance",
    "l2_pre", "withdraw", "l2_post", "arb_block_number", "arbos_version",
    "outcome">>

TimeboostNames ==
  <<"auction_addr", "connect", "detect", "round", "round_duration",
    "round_start", "controller", "reserve", "minimum", "round_again",
    "winners", "bid_receiver", "outcome">>

LEMMA StressTable ==
  /\ DOMAIN StressTest = 1 .. 16
  /\ \A p \in 1 .. 16 :
       /\ StressTest[p].name = StressNames[p]
       /\ StressTest[p].kind = IF p \in {14, 15} THEN "check" ELSE "do"
  BY DEF StressTest, StressNames, Do, Check

LEMMA TimeboostTable ==
  /\ DOMAIN TimeboostProbe = 1 .. 13
  /\ \A p \in 1 .. 13 :
       /\ TimeboostProbe[p].name = TimeboostNames[p]
       /\ TimeboostProbe[p].kind = IF p \in {5, 6, 7, 12} THEN "auction" ELSE "do"
       /\ p \in {5, 6, 7, 12} => TimeboostProbe[p].bad \subseteq {"zero", "brief"}
  BY DEF TimeboostProbe, TimeboostNames, Do, Check, AuctionCheck

\* The three probes have no steps but reads.
ProbeNames ==
  {"connect", "outcome", "l1_dev_balance", "l2_dev_balance", "l2_gas_price",
   "arb_block_number", "l3_height", "l3_gas_price", "l1_advance", "l2_advance",
   "l3_advance", "prices", "l3_arb_block_number", "arb_chain_id", "l1_base_fee",
   "lifetime", "aggregator"}

Probes == {"balance", "health", "precompile"}

LEMMA ProbeTable ==
  ASSUME NEW s \in Probes
  PROVE  /\ DOMAIN Script[s] = 1 .. (IF s = "balance" THEN 8 ELSE 9)
         /\ \A p \in DOMAIN Script[s] :
              /\ p = 1 => Script[s][p].name = "connect" /\ Script[s][p].kind = "do"
              /\ p # 1 /\ p + 1 \in DOMAIN Script[s] => Script[s][p].kind = "check"
              /\ p # 1 /\ p + 1 \notin DOMAIN Script[s] =>
                   Script[s][p].name = "outcome" /\ Script[s][p].kind = "do"
              /\ Script[s][p].name \in ProbeNames
<1>1. CASE s = "balance"
  <2>1. Script[s] = BalanceProbe
    BY <1>1 DEF Script
  <2>2. QED
    BY <1>1, <2>1 DEF BalanceProbe, Do, Check, CheckL3, ProbeNames
<1>2. CASE s = "health"
  <2>1. Script[s] = HealthProbe
    BY <1>2 DEF Script
  <2>2. QED
    BY <1>2, <2>1 DEF HealthProbe, Do, Check, CheckL3, ProbeNames
<1>3. CASE s = "precompile"
  <2>1. Script[s] = PrecompileProbe
    BY <1>3 DEF Script
  <2>2. QED
    BY <1>3, <2>1 DEF PrecompileProbe, Do, Check, CheckL3, ProbeNames
<1>4. QED
  BY <1>1, <1>2, <1>3 DEF Probes

LEMMA Lengths ==
  ASSUME NEW s \in Probes \cup {"stress", "timeboost"}
  PROVE  1 \in DOMAIN Script[s] /\ DOMAIN Script[s] \subseteq 1 .. 16
<1>1. Script["stress"] = StressTest /\ Script["timeboost"] = TimeboostProbe
  BY DEF Script
<1>2. QED
  BY <1>1, ProbeTable, StressTable, TimeboostTable

\* The position in a script: what is selected is in the table, and no step but
\* the last ends the script.
Quiet == 4 .. 8

Scripted ==
  /\ toRun \subseteq Quiet
  /\ IF Running THEN pc \in DOMAIN Script[Scenario] ELSE pc = 1

LEMMA FirstOf ==
  ASSUME NEW S, S \subseteq Quiet, S # {}
  PROVE  /\ Min(S) \in S
         /\ Registry[Min(S)].name \in Probes \cup {"stress", "timeboost"}
         /\ Registry[Min(S)].name = "stress" <=> Min(S) = 7
<1>1. \E x \in S : \A y \in S : x <= y
  <2>1. CASE 4 \in S
    BY <2>1 DEF Quiet
  <2>2. CASE 4 \notin S /\ 5 \in S
    BY <2>2 DEF Quiet
  <2>3. CASE 4 \notin S /\ 5 \notin S /\ 6 \in S
    BY <2>3 DEF Quiet
  <2>4. CASE 4 \notin S /\ 5 \notin S /\ 6 \notin S
    <3>1. \A y \in S : y = 7 \/ y = 8
      BY <2>4 DEF Quiet
    <3>2. QED
      BY <3>1
  <2>5. QED
    BY <2>1, <2>2, <2>3, <2>4
<1>2. Min(S) \in S /\ Min(S) \in 4 .. 8
  BY <1>1 DEF Min, Quiet
<1>3. Min(S) = 4 \/ Min(S) = 5 \/ Min(S) = 6 \/ Min(S) = 7 \/ Min(S) = 8
  BY <1>2
<1>4. /\ Registry[4].name = "balance" /\ Registry[5].name = "health"
      /\ Registry[6].name = "precompile" /\ Registry[7].name = "stress"
      /\ Registry[8].name = "timeboost"
  BY DEF Registry
<1> DEFINE k == Min(S)
<1> HIDE DEF k
<1>5. /\ Registry[k].name \in Probes \cup {"stress", "timeboost"}
      /\ Registry[k].name = "stress" <=> k = 7
  BY <1>3, <1>4 DEF k, Probes
<1>6. QED
  BY <1>2, <1>5 DEF k

LEMMA ScenarioKnown ==
  ASSUME toRun \subseteq Quiet, Running
  PROVE  /\ Min(toRun) \in toRun
         /\ Scenario \in Probes \cup {"stress", "timeboost"}
         /\ Scenario = "stress" <=> Min(toRun) = 7
         /\ Scenario = "stress" => Script[Scenario] = StressTest
         /\ Scenario = "timeboost" => Script[Scenario] = TimeboostProbe
  BY FirstOf DEF Running, Scenario, Script

LEMMA WhereStress ==
  ASSUME Scripted
  PROVE /\ At("l1_accounts") => Scenario = "stress" /\ pc = 2
        /\ At("bridge_before") => Scenario = "stress" /\ pc = 3
        /\ At("l2_before") => Scenario = "stress" /\ pc = 4
        /\ At("send_deposit") => Scenario = "stress" /\ pc = 5
        /\ At("bridge_after") => Scenario = "stress" /\ pc = 6
        /\ At("poll") => Scenario = "stress" /\ pc = 7
        /\ At("bridge_final") => Scenario = "stress" /\ pc = 8
        /\ At("l2_accounts") => Scenario = "stress" /\ pc = 9
        /\ At("l2_balance") => Scenario = "stress" /\ pc = 10
        /\ At("l2_pre") => Scenario = "stress" /\ pc = 11
        /\ At("withdraw") => Scenario = "stress" /\ pc = 12
        /\ At("l2_post") => Scenario = "stress" /\ pc = 13
<1> SUFFICES ASSUME Running
             PROVE  LET n == Step.name IN
                      \A p \in {2, 3, 4, 5, 6, 7, 8, 9, 10, 11, 12, 13} :
                        n = StressNames[p] => Scenario = "stress" /\ pc = p
  BY DEF At, StressNames
<1>1. CASE Scenario \in Probes
  <2>1. pc \in DOMAIN Script[Scenario]
    BY DEF Scripted
  <2>2. Step.name \in ProbeNames
    BY <1>1, <2>1, ProbeTable DEF Step
  <2>3. \A p \in {2, 3, 4, 5, 6, 7, 8, 9, 10, 11, 12, 13} :
          StressNames[p] \notin ProbeNames
    BY DEF StressNames, ProbeNames
  <2>4. QED
    BY <2>2, <2>3
<1>2. CASE Scenario = "stress"
  <2>1. Step = StressTest[pc] /\ pc \in 1 .. 16
    BY <1>2, ScenarioKnown, StressTable DEF Scripted, Step
  <2>2. QED
    BY <1>2, <2>1, StressTable DEF StressNames
<1>3. CASE Scenario = "timeboost"
  <2>1. Step = TimeboostProbe[pc] /\ pc \in 1 .. 13
    BY <1>3, ScenarioKnown, TimeboostTable DEF Scripted, Step
  <2>2. QED
    BY <1>3, <2>1, TimeboostTable DEF TimeboostNames, StressNames
<1>4. QED
  BY <1>1, <1>2, <1>3, ScenarioKnown DEF Scripted

LEMMA WhereAuction ==
  ASSUME Scripted
  PROVE /\ At("auction_addr") => Scenario = "timeboost" /\ pc = 1
        /\ At("detect") => Scenario = "timeboost" /\ pc = 3
        /\ At("round") => Scenario = "timeboost" /\ pc = 4
        /\ At("reserve") => Scenario = "timeboost" /\ pc = 8
        /\ At("minimum") => Scenario = "timeboost" /\ pc = 9
        /\ At("round_again") => Scenario = "timeboost" /\ pc = 10
        /\ At("winners") => Scenario = "timeboost" /\ pc = 11
        /\ At("bid_receiver") => Scenario = "timeboost" /\ pc = 12
<1> SUFFICES ASSUME Running
             PROVE  LET n == Step.name IN
                      \A p \in {1, 3, 4, 8, 9, 10, 11, 12} :
                        n = TimeboostNames[p] => Scenario = "timeboost" /\ pc = p
  BY DEF At, TimeboostNames
<1>1. CASE Scenario \in Probes
  <2>1. pc \in DOMAIN Script[Scenario]
    BY DEF Scripted
  <2>2. Step.name \in ProbeNames
    BY <1>1, <2>1, ProbeTable DEF Step
  <2>3. \A p \in {1, 3, 4, 8, 9, 10, 11, 12} :
          TimeboostNames[p] \notin ProbeNames
    BY DEF TimeboostNames, ProbeNames
  <2>4. QED
    BY <2>2, <2>3
<1>2. CASE Scenario = "stress"
  <2>1. Step = StressTest[pc] /\ pc \in 1 .. 16
    BY <1>2, ScenarioKnown, StressTable DEF Scripted, Step
  <2>2. QED
    BY <1>2, <2>1, StressTable DEF StressNames, TimeboostNames
<1>3. CASE Scenario = "timeboost"
  <2>1. Step = TimeboostProbe[pc] /\ pc \in 1 .. 13
    BY <1>3, ScenarioKnown, TimeboostTable DEF Scripted, Step
  <2>2. QED
    BY <1>3, <2>1, TimeboostTable DEF TimeboostNames
<1>4. QED
  BY <1>1, <1>2, <1>3, ScenarioKnown DEF Scripted

LEMMA WhereReads ==
  ASSUME Scripted, Running
  PROVE  /\ Step.name = "connect" => /\ Scenario = "stress" => pc = 1
                                     /\ Scenario = "timeboost" => pc = 2
         /\ Step.kind = "check" =>
              /\ Scenario # "timeboost" /\ (Scenario = "stress" => pc \in {14, 15})
              /\ Step.name \in ProbeNames \cup {"arbos_version"}
         /\ Step.kind = "auction" =>
              /\ Scenario = "timeboost" /\ pc \in {5, 6, 7, 12}
              /\ Step.name = TimeboostNames[pc] /\ Step.bad \subseteq {"zero", "brief"}
<1>1. CASE Scenario \in Probes
  <2>1. pc \in DOMAIN Script[Scenario]
    BY DEF Scripted
  <2>2. Step.name \in ProbeNames /\ Step.kind \in {"do", "check"}
    BY <1>1, <2>1, ProbeTable DEF Step
  <2>3. QED
    BY <1>1, <2>2 DEF Probes
<1>2. CASE Scenario = "stress"
  <2>1. Step = StressTest[pc] /\ pc \in 1 .. 16
    BY <1>2, ScenarioKnown, StressTable DEF Scripted, Step
  <2>2. QED
    BY <1>2, <2>1, StressTable DEF StressNames, ProbeNames
<1>3. CASE Scenario = "timeboost"
  <2>1. Step = TimeboostProbe[pc] /\ pc \in 1 .. 13
    BY <1>3, ScenarioKnown, TimeboostTable DEF Scripted, Step
  <2>2. Step.name = TimeboostNames[pc] /\ Step.kind # "check"
    BY <2>1, TimeboostTable
  <2>3. Step.name = "connect" => pc = 2
    BY <2>1, <2>2 DEF TimeboostNames
  <2>4. Step.kind = "auction" => pc \in {5, 6, 7, 12} /\ Step.bad \subseteq {"zero", "brief"}
    BY <2>1, TimeboostTable
  <2>5. QED
    BY <1>3, <2>2, <2>3, <2>4
<1>4. QED
  BY <1>1, <1>2, <1>3, ScenarioKnown DEF Scripted

LEMMA OnlyOutcomeEnds ==
  ASSUME Scripted, Running, Step.name # "outcome" \/ Step.kind # "do"
  PROVE  pc + 1 \in DOMAIN Script[Scenario]
<1>1. CASE Scenario \in Probes
  <2>1. pc \in DOMAIN Script[Scenario]
    BY DEF Scripted
  <2>2. CASE pc = 1
    BY <1>1, <2>2, ProbeTable
  <2>3. CASE pc # 1
    BY <1>1, <2>1, <2>3, ProbeTable DEF Step
  <2>4. QED
    BY <2>2, <2>3
<1>2. CASE Scenario = "stress"
  <2>1. Step = StressTest[pc] /\ pc \in 1 .. 16 /\ DOMAIN Script[Scenario] = 1 .. 16
    BY <1>2, ScenarioKnown, StressTable DEF Scripted, Step
  <2>2. pc # 16
    BY <2>1, StressTable DEF StressNames
  <2>3. QED
    BY <2>1, <2>2
<1>3. CASE Scenario = "timeboost"
  <2>1. /\ Step = TimeboostProbe[pc] /\ pc \in 1 .. 13
        /\ DOMAIN Script[Scenario] = 1 .. 13
    BY <1>3, ScenarioKnown, TimeboostTable DEF Scripted, Step
  <2>2. pc # 13
    BY <2>1, TimeboostTable DEF TimeboostNames
  <2>3. QED
    BY <2>1, <2>2
<1>4. QED
  BY <1>1, <1>2, <1>3, ScenarioKnown DEF Scripted

LEMMA JumpTargets ==
  ASSUME Scripted, Running
  PROVE  /\ Scenario = "stress" =>
              /\ StepNo("l2_accounts") = 9 /\ StepNo("arb_block_number") = 14
              /\ DOMAIN Script[Scenario] = 1 .. 16
         /\ Scenario = "timeboost" =>
              StepNo("bid_receiver") = 12 /\ DOMAIN Script[Scenario] = 1 .. 13
<1>1. ASSUME NEW T, NEW n, NEW k \in DOMAIN T, T[k].name = n, Script[Scenario] = T,
             \A p \in DOMAIN T : T[p].name = n => p = k
      PROVE  StepNo(n) = k
  BY <1>1 DEF StepNo
<1>2. CASE Scenario = "stress"
  <2>1. Script[Scenario] = StressTest
    BY <1>2, ScenarioKnown DEF Scripted
  <2>2. \A k \in {9, 14} : \A p \in DOMAIN StressTest :
          StressTest[p].name = StressNames[k] => p = k
    BY StressTable DEF StressNames
  <2>3. StressNames[9] = "l2_accounts" /\ StressNames[14] = "arb_block_number"
    BY DEF StressNames
  <2>4. StepNo("l2_accounts") = 9
    BY <1>1, <2>1, <2>2, <2>3, StressTable
  <2>5. StepNo("arb_block_number") = 14
    BY <1>1, <2>1, <2>2, <2>3, StressTable
  <2>6. QED
    BY <1>2, <2>1, <2>4, <2>5, StressTable
<1>3. CASE Scenario = "timeboost"
  <2>1. Script[Scenario] = TimeboostProbe
    BY <1>3, ScenarioKnown DEF Scripted
  <2>2. \A p \in DOMAIN TimeboostProbe :
          TimeboostProbe[p].name = TimeboostNames[12] => p = 12
    BY TimeboostTable DEF TimeboostNames
  <2>3. TimeboostNames[12] = "bid_receiver"
    BY DEF TimeboostNames
  <2>4. StepNo("bid_receiver") = 12
    BY <1>1, <2>1, <2>2, <2>3, TimeboostTable
  <2>5. QED
    BY <1>3, <2>1, <2>4, TimeboostTable
<1>4. QED
  BY <1>2, <1>3

\* Where a step of the runner leads.
Stays == UNCHANGED <<toRun, pc>>
Goes ==
  /\ Running /\ toRun' = toRun /\ pc' \in DOMAIN Script[Scenario]
  /\ \/ pc' = pc + 1
     \/ Scenario = "stress" /\ pc' \in {9, 14}
     \/ Scenario = "timeboost" /\ pc' = 12
Leaves == Running /\ toRun' = toRun \ {Min(toRun)} /\ pc' = 1

LEMMA ScriptSteps ==
  ASSUME Scripted, [Next]_vars
  PROVE  Stays \/ Goes \/ Leaves
<1>1. ASSUME NEW titles, Running, Proceeds(titles),
             Step.name # "outcome" \/ Step.kind # "do"
      PROVE  Goes
  BY <1>1, OnlyOutcomeEnds DEF Proceeds, Goes
<1>2. ASSUME NEW outcome, Running, Ends(outcome) PROVE Leaves
  BY <1>2 DEF Ends, Leaves
<1>3. CASE UNCHANGED vars \/ Environment \/ Mining \/ Exit
  BY <1>3 DEF vars, Environment, Mining, Exit, Stays, runner
<1>4. CASE Connect \/ CheckAnswer \/ CheckFails
  BY <1>1, <1>4 DEF Connect, CheckAnswer, CheckFails, At
<1>5. CASE Outcome \/ AwaitFails
  BY <1>2, <1>5 DEF Outcome, AwaitFails, At
<1>6. CASE Stress
  <2>1. CASE L1Accounts \/ L2Accounts \/ L2BalanceRead \/ WithdrawFails
    <3>1. Running /\ Scenario = "stress" /\ Step.name # "outcome"
      BY <2>1, WhereStress DEF L1Accounts, L2Accounts, L2BalanceRead, WithdrawFails, At
    <3>2. \A n \in {"l2_accounts", "arb_block_number"} :
            StepNo(n) \in DOMAIN Script[Scenario] /\ StepNo(n) \in {9, 14}
      BY <3>1, JumpTargets
    <3>3. ASSUME NEW n \in {"l2_accounts", "arb_block_number"}, JumpsTo(StepNo(n))
          PROVE  Goes
      BY <3>3, <3>1, <3>2 DEF JumpsTo, Goes
    <3>4. (\E titles : Proceeds(titles))
            \/ \E n \in {"l2_accounts", "arb_block_number"} : JumpsTo(StepNo(n))
      BY <2>1 DEF L1Accounts, L2Accounts, L2BalanceRead, WithdrawFails
    <3>5. QED
      BY <1>1, <3>1, <3>2, <3>3, <3>4
  <2>2. CASE SendDeposit \/ SendWithdrawal
    BY <2>2 DEF SendDeposit, SendWithdrawal, Sends, Stays, runner
  <2>3. CASE Poll
    BY <1>1, <2>3 DEF Poll, At, Stays, runner
  <2>4. CASE BridgeBefore \/ L2Before \/ DepositReceipt \/ BridgeAfter \/ PollTimesOut
               \/ BridgeFinal \/ L2Pre \/ WithdrawalReceipt \/ L2Post
    BY <1>1, <2>4 DEF At, BridgeBefore, L2Before, DepositReceipt, ReceiptComes,
       BridgeAfter, PollTimesOut, BridgeFinal, L2Pre, WithdrawalReceipt, L2Post
  <2>5. QED
    BY <1>6, <2>1, <2>2, <2>3, <2>4 DEF Stress
<1>7. CASE Auction
  <2>1. CASE ReadRoundAgain
    <3>1. Running /\ Scenario = "timeboost" /\ Step.name # "outcome"
      BY <2>1, WhereAuction DEF ReadRoundAgain, At
    <3>2. StepNo("bid_receiver") \in DOMAIN Script[Scenario] /\ StepNo("bid_receiver") = 12
      BY <3>1, JumpTargets
    <3>3. Proceeds({}) \/ JumpsTo(StepNo("bid_receiver"))
      BY <2>1 DEF ReadRoundAgain
    <3>4. QED
      BY <1>1, <3>1, <3>2, <3>3 DEF JumpsTo, Goes
  <2>2. CASE AuctionAddr
    BY <1>1, <1>2, <2>2 DEF AuctionAddr, At
  <2>3. CASE ReadWinner \/ ReadWinnerFails
    BY <2>3 DEF ReadWinner, ReadWinnerFails, runner, Stays
  <2>4. CASE Detect \/ RoundCheck \/ CheckAuction \/ ReadReserve \/ CheckMinimum
               \/ CheckMonopoly
    BY <1>1, <2>4 DEF At, Detect, RoundCheck, CheckAuction, ReadReserve,
       CheckMinimum, CheckMonopoly
  <2>5. QED
    BY <1>7, <2>1, <2>2, <2>3, <2>4 DEF Auction
<1>8. QED
  BY <1>3, <1>4, <1>5, <1>6, <1>7 DEF Next, Runner

LEMMA ScriptedStep ==
  ASSUME Scripted, [Next]_vars
  PROVE  Scripted'
<1>1. CASE Stays
  BY <1>1 DEF Stays, Scripted, Running, Scenario
<1>2. CASE Goes
  BY <1>2 DEF Goes, Scripted, Running, Scenario
<1>3. CASE Leaves
  <2>1. toRun' \subseteq Quiet /\ pc' = 1
    BY <1>3 DEF Leaves, Scripted
  <2>2. \A s \in Probes \cup {"stress", "timeboost"} : 1 \in DOMAIN Script[s]
    BY Lengths
  <2>3. toRun' # {} => Registry[Min(toRun')].name \in Probes \cup {"stress", "timeboost"}
    BY <2>1, FirstOf
  <2>4. QED
    BY <2>1, <2>2, <2>3 DEF Scripted, Running, Scenario
<1>4. QED
  BY <1>1, <1>2, <1>3, ScriptSteps

LEMMA Moves ==
  ASSUME [Next]_vars
  PROVE  \/ UNCHANGED vars \/ Environment \/ Mining \/ AwaitFails
         \/ /\ Connect \/ CheckAnswer \/ CheckFails
            /\ UNCHANGED readings /\ UNCHANGED auctionLocals
         \/ Outcome /\ StressReset /\ AuctionReset
         \/ Stress /\ UNCHANGED auctionLocals
         \/ Auction /\ UNCHANGED readings
         \/ Exit /\ UNCHANGED stack /\ UNCHANGED readings /\ UNCHANGED auctionLocals
<1>1. UNCHANGED <<readings, auctionLocals>> => UNCHANGED readings /\ UNCHANGED auctionLocals
  OBVIOUS
<1>2. UNCHANGED <<stack, readings, auctionLocals>> =>
        UNCHANGED stack /\ UNCHANGED readings /\ UNCHANGED auctionLocals
  OBVIOUS
<1>3. QED
  BY <1>1, <1>2, Zenon DEF Next, Runner

\* The withdrawal is tested with an account of the node.
Accounted ==
  Running /\ Scenario = "stress" /\ pc \in 10 .. 13 => world.l2_account # "none"

LEMMA WorldFixed ==
  ASSUME [Next]_vars
  PROVE  world' = world
<1>1. CASE UNCHANGED vars
  BY <1>1 DEF vars, stack
<1>2. CASE Environment \/ Mining
  BY <1>2 DEF Environment, Claim, Income, DepositArrives, RoundEnds, RaiseMinimum,
     Happens, Mining, DepositMined, WithdrawalMined
<1>3. CASE Connect \/ CheckAnswer \/ CheckFails \/ Outcome \/ AwaitFails
             \/ (Exit /\ UNCHANGED stack)
  BY <1>3 DEF Connect, CheckAnswer, CheckFails, Outcome, AwaitFails, stack
<1>4. CASE Stress
  BY <1>4 DEF Stress, L1Accounts, BridgeBefore, L2Before, SendDeposit, DepositReceipt,
     BridgeAfter, Poll, PollTimesOut, BridgeFinal, L2Accounts, L2BalanceRead, L2Pre,
     SendWithdrawal, WithdrawalReceipt, WithdrawFails, L2Post, Sends, ReceiptComes,
     stack
<1>5. CASE Auction
  BY <1>5 DEF Auction, AuctionAddr, Detect, RoundCheck, CheckAuction, ReadReserve,
     CheckMinimum, ReadRoundAgain, ReadWinner, ReadWinnerFails, CheckMonopoly, stack
<1>6. QED
  BY <1>1, <1>2, <1>3, <1>4, <1>5, Moves

LEMMA AccountedStep ==
  ASSUME Scripted, Accounted, [Next]_vars
  PROVE  Accounted'
<1>1. CASE Stays
  BY <1>1, WorldFixed DEF Stays, Accounted, Running, Scenario
<1>2. CASE Leaves
  BY <1>2 DEF Leaves, Accounted
<1>3. CASE Goes
  <2> SUFFICES ASSUME Scenario = "stress", pc' \in 10 .. 13
               PROVE  world.l2_account # "none"
    BY <1>3, WorldFixed DEF Goes, Accounted, Running, Scenario
  <2>1. pc' = pc + 1 /\ pc \in 9 .. 12
    <3>1. Running /\ DOMAIN Script[Scenario] = 1 .. 16
      BY <1>3, JumpTargets DEF Goes
    <3>2. QED
      BY <1>3, <3>1 DEF Goes, Scripted
  <2>2. CASE pc # 9
    BY <1>3, <2>1, <2>2 DEF Goes, Accounted
  <2>3. CASE pc = 9
    <3>1. Step.name = "l2_accounts" /\ Step.kind = "do"
      <4>1. Step = StressTest[9]
        BY <1>3, <2>3, ScenarioKnown DEF Goes, Scripted, Step
      <4>2. QED
        BY <4>1, StressTable DEF StressNames
    <3>2. pc' # pc
      BY <2>1
    <3>3. L2Accounts
      <4>1. ~(UNCHANGED vars) /\ ~Environment /\ ~Mining /\ ~Exit
        BY <3>2 DEF vars, Environment, Mining, Exit, runner
      <4>2. ~(Connect \/ CheckAnswer \/ CheckFails \/ Outcome)
        BY <3>1 DEF Connect, CheckAnswer, CheckFails, Outcome, At
      <4>3. ~AwaitFails
        BY <2>1, <2>3 DEF AwaitFails, Ends
      <4>4. ~Auction
        BY <3>1 DEF At, Auction, AuctionAddr, Detect, RoundCheck, CheckAuction,
           ReadReserve, CheckMinimum, ReadRoundAgain, ReadWinner, ReadWinnerFails,
           CheckMonopoly
      <4>5. Stress => L2Accounts
        BY <3>1 DEF At, Stress, L1Accounts, BridgeBefore, L2Before, SendDeposit,
           DepositReceipt, BridgeAfter, Poll, PollTimesOut, BridgeFinal,
           L2BalanceRead, L2Pre, SendWithdrawal, WithdrawalReceipt, WithdrawFails,
           L2Post, Sends, ReceiptComes
      <4>6. QED
        BY <4>1, <4>2, <4>3, <4>4, <4>5, Moves
    <3>4. Scripted /\ Running
      BY <1>3 DEF Goes
    <3>5. StepNo("arb_block_number") = 14
      BY <3>4, JumpTargets
    <3>6. QED
      BY <2>1, <2>3, <3>3, <3>5 DEF L2Accounts, JumpsTo
  <2>4. QED
    BY <2>2, <2>3
<1>4. QED
  BY <1>1, <1>2, <1>3, ScriptSteps

\* A transaction is sent once the receipt of the last one was obtained.  Only the
\* withdrawal is passed over while it may still be mined.
Transacted ==
  7 \in toRun /\ transaction # "none" =>
    /\ Running /\ Scenario = "stress" /\ pc \in {5, 12, 14, 15, 16}
    /\ transaction = "deposit" => pc = 5
    /\ transaction = "withdrawal" => pc # 5

\* The steps in terms of the last transaction sent.
InStress(p) == Running /\ Scenario = "stress" /\ pc = p

SendsAt(p, kind) ==
  InStress(p) /\ Stays /\ transaction = "none" /\ transaction' = kind
ObtainsAt(p) ==
  /\ InStress(p) /\ toRun' = toRun /\ pc' = p + 1
  /\ transaction = "mined" /\ transaction' = "none"
Mines ==
  Stays /\ transaction \in {"deposit", "withdrawal"} /\ transaction' = "mined"
Keeps ==
  /\ transaction' = transaction
  /\ toRun' = toRun /\ (\E p \in {5, 12, 14, 15, 16} : InStress(p)) =>
       pc' = pc \/ (pc >= 12 /\ pc' >= 14)

LEMMA TransactionMoves ==
  ASSUME Scripted, pc \in 1 .. 16, [Next]_vars
  PROVE  \/ SendsAt(5, "deposit") \/ ObtainsAt(5)
         \/ SendsAt(12, "withdrawal") \/ ObtainsAt(12)
         \/ Mines \/ Keeps
<1>1. CASE UNCHANGED vars \/ (Exit /\ UNCHANGED stack)
  BY <1>1 DEF vars, Exit, runner, stack, Keeps
<1>2. CASE Environment
  BY <1>2 DEF Environment, Claim, Income, DepositArrives, RoundEnds, RaiseMinimum,
     Happens, runner, Keeps
<1>3. CASE Mining
  BY <1>3 DEF Mining, DepositMined, WithdrawalMined, runner, Stays, Mines
<1>4. CASE Outcome \/ AwaitFails
  <2>1. Running /\ toRun' = toRun \ {Min(toRun)} /\ transaction' = transaction
    BY <1>4 DEF Outcome, AwaitFails, Ends, At, stack
  <2>2. Min(toRun) \in toRun
    BY <2>1, ScenarioKnown DEF Scripted
  <2>3. QED
    BY <2>1, <2>2 DEF Keeps
<1>5. CASE Connect \/ CheckAnswer \/ CheckFails
  <2>1. /\ Running /\ pc' = pc + 1 /\ transaction' = transaction
        /\ Step.name = "connect" \/ Step.kind = "check"
    BY <1>5 DEF Connect, CheckAnswer, CheckFails, At, Proceeds, stack
  <2>2. Scenario = "stress" => pc = 1 \/ pc \in {14, 15}
    BY <2>1, WhereReads
  <2>3. QED
    BY <2>1, <2>2 DEF Keeps, InStress
<1>6. CASE Auction
  <2>1. Scenario = "timeboost"
    BY <1>6, WhereAuction, WhereReads DEF Auction, AuctionAddr, Detect, RoundCheck,
       CheckAuction, ReadReserve, CheckMinimum, ReadRoundAgain, ReadWinner,
       ReadWinnerFails, CheckMonopoly, At
  <2>2. transaction' = transaction
    BY <1>6 DEF Auction, AuctionAddr, Detect, RoundCheck, CheckAuction, ReadReserve,
       CheckMinimum, ReadRoundAgain, ReadWinner, ReadWinnerFails, CheckMonopoly, stack
  <2>3. QED
    BY <2>1, <2>2 DEF Keeps, InStress
<1>7. CASE SendDeposit \/ SendWithdrawal
  BY <1>7, WhereStress
     DEF SendDeposit, SendWithdrawal, Sends, SendsAt, InStress, Stays, runner, At
<1>8. CASE DepositReceipt \/ WithdrawalReceipt
  BY <1>8, WhereStress
     DEF DepositReceipt, WithdrawalReceipt, ReceiptComes, Proceeds, ObtainsAt,
         InStress, At
<1>9. CASE WithdrawFails
  <2>1. /\ Running /\ Scenario = "stress" /\ pc = 12 /\ transaction' = transaction
        /\ pc' = StepNo("arb_block_number")
    BY <1>9, WhereStress DEF WithdrawFails, JumpsTo, At
  <2>2. QED
    BY <2>1, JumpTargets DEF Keeps
<1>10. CASE \/ L1Accounts \/ BridgeBefore \/ L2Before \/ BridgeAfter \/ Poll
            \/ PollTimesOut \/ BridgeFinal \/ L2Accounts \/ L2BalanceRead
            \/ L2Pre \/ L2Post
  <2>1. transaction' = transaction
    BY <1>10 DEF L1Accounts, BridgeBefore, L2Before, BridgeAfter, Poll, PollTimesOut,
       BridgeFinal, L2Accounts, L2BalanceRead, L2Pre, L2Post, stack
  <2>2. pc \in {2, 3, 4, 6, 7, 8, 9, 10, 11, 13}
    BY <1>10, WhereStress DEF L1Accounts, BridgeBefore, L2Before, BridgeAfter, Poll,
       PollTimesOut, BridgeFinal, L2Accounts, L2BalanceRead, L2Pre, L2Post
  <2>3. QED
    BY <2>1, <2>2 DEF Keeps, InStress
<1>11. QED
  BY <1>1, <1>2, <1>3, <1>4, <1>5, <1>6, <1>7, <1>8, <1>9, <1>10, Moves DEF Stress

LEMMA TransactedStep ==
  ASSUME Scripted, Transacted, pc \in 1 .. 16, [Next]_vars
  PROVE  Transacted'
<1>1. CASE Stays
  BY <1>1, TransactionMoves
     DEF Stays, Transacted, SendsAt, ObtainsAt, Mines, Keeps, InStress, Running,
         Scenario
<1>2. CASE Goes
  <2>1. CASE transaction' = "none"
    BY <2>1 DEF Transacted
  <2>2. CASE Keeps /\ transaction # "none"
    <3>1. 7 \in toRun' => InStress(pc) /\ pc \in {5, 12, 14, 15, 16}
      BY <1>2, <2>2 DEF Goes, Transacted, InStress
    <3>2. 7 \in toRun' => pc' \in 1 .. 16 /\ (pc' = pc \/ (pc >= 12 /\ pc' >= 14))
      BY <1>2, <2>2, <3>1, JumpTargets DEF Goes, Keeps, InStress
    <3>3. transaction' = transaction /\ toRun' = toRun /\ Scenario' = Scenario
      BY <1>2, <2>2 DEF Goes, Keeps, Scenario
    <3>4. QED
      BY <3>1, <3>2, <3>3 DEF Transacted, InStress, Running
  <2>3. CASE (SendsAt(5, "deposit") \/ SendsAt(12, "withdrawal") \/ Mines) /\ Stays
    BY <1>1, <2>3
  <2>4. QED
    BY <2>1, <2>2, <2>3, TransactionMoves DEF SendsAt, ObtainsAt, Mines, Keeps
<1>3. CASE Leaves
  <2>1. 7 \in toRun' => Scenario # "stress" /\ 7 \in toRun
    BY <1>3, ScenarioKnown DEF Leaves, Scripted
  <2>2. CASE Keeps
    BY <2>1, <2>2 DEF Keeps, Transacted
  <2>3. CASE transaction' = "none"
    BY <2>3 DEF Transacted
  <2>4. CASE (SendsAt(5, "deposit") \/ SendsAt(12, "withdrawal") \/ Mines) /\ Stays
    BY <1>1, <2>4
  <2>5. QED
    BY <2>2, <2>3, <2>4, TransactionMoves DEF SendsAt, ObtainsAt, Mines
<1>4. QED
  BY <1>1, <1>2, <1>3, ScriptSteps

\* The answers of the stack, the locals of the scenarios and the results are
\* what the code reads and writes.
LEMMA TypesOfRunner ==
  ASSUME outcomes \in Seq(Outcomes), exit \in {NoCode, 0, 1}, findings \subseteq reported,
         UNCHANGED runner \/ Reports \/ EndsTruly \/ Exit
  PROVE  /\ outcomes' \in Seq(Outcomes) /\ exit' \in {NoCode, 0, 1}
         /\ findings' \subseteq reported'
<1>1. CASE UNCHANGED runner
  BY <1>1 DEF runner
<1>2. CASE Reports
  BY <1>2 DEF Reports
<1>3. CASE EndsTruly
  BY <1>3 DEF EndsTruly, Ends
<1>4. CASE Exit
  BY <1>4 DEF Exit, ExitCode
<1>5. QED
  BY <1>1, <1>2, <1>3, <1>4

LEMMA TypesOfStack ==
  ASSUME StackTypeOK, [Next]_vars
  PROVE  StackTypeOK'
<1> USE DEF StackTypeOK
<1>1. ASSUME UNCHANGED <<world, bridge, wallet, deposit, round, reserve, minimum,
                         events>>,
             transaction' \in {"none", "deposit", "withdrawal", "mined"},
             failures' = failures \/ Fails, since' \subseteq since
      PROVE  StackTypeOK'
  BY <1>1, StackAssumption DEF Fails
<1>2. ASSUME UNCHANGED stack PROVE StackTypeOK'
  BY <1>2 DEF stack
<1>3. CASE UNCHANGED vars
  BY <1>2, <1>3 DEF vars
<1>4. CASE Environment
  <2>1. ASSUME NEW kind \in {"claim", "income", "raise", "round"}, Happens(kind)
        PROVE  /\ UNCHANGED <<world, transaction, deposit, failures>>
               /\ events' \in 0 .. world.max_events
               /\ since' \subseteq {"claim", "income", "raise", "round"}
    BY <2>1, StackAssumption DEF Happens
  <2>2. CASE Claim
    BY <2>1, <2>2, StackAssumption DEF Claim
  <2>3. CASE Income
    BY <2>1, <2>3 DEF Income
  <2>4. CASE DepositArrives
    BY <2>4, StackAssumption DEF DepositArrives, Accounts
  <2>5. CASE RoundEnds
    BY <2>1, <2>5 DEF RoundEnds
  <2>6. CASE RaiseMinimum
    BY <2>1, <2>6 DEF RaiseMinimum
  <2>7. QED
    BY <1>4, <2>2, <2>3, <2>4, <2>5, <2>6 DEF Environment
<1>5. CASE Mining
  <2>1. CASE DepositMined
    BY <2>1, StackAssumption DEF DepositMined
  <2>2. CASE WithdrawalMined
    <3>1. \A a \in Accounts : wallet[a] - 1 \in Int
      OBVIOUS
    <3>2. wallet' \in [Accounts -> Int]
      BY <2>2, <3>1 DEF WithdrawalMined
    <3>3. QED
      BY <2>2, <3>2 DEF WithdrawalMined
  <2>3. QED
    BY <1>5, <2>1, <2>2 DEF Mining
<1>6. CASE Connect \/ CheckAnswer \/ Outcome \/ (Exit /\ UNCHANGED stack)
  BY <1>2, <1>6 DEF Connect, CheckAnswer, Outcome
<1>7. CASE CheckFails \/ AwaitFails
  BY <1>1, <1>7 DEF CheckFails, AwaitFails
<1>8. CASE Stress
  <2>1. CASE BridgeBefore
    BY <1>1, <2>1 DEF BridgeBefore
  <2>2. CASE SendDeposit \/ DepositReceipt \/ SendWithdrawal \/ WithdrawalReceipt
    BY <1>1, <2>2 DEF SendDeposit, DepositReceipt, SendWithdrawal, WithdrawalReceipt,
       Sends, ReceiptComes
  <2>3. CASE WithdrawFails
    BY <1>1, <2>3 DEF WithdrawFails
  <2>4. CASE L1Accounts \/ L2Before \/ BridgeAfter \/ Poll \/ PollTimesOut
               \/ BridgeFinal \/ L2Accounts \/ L2BalanceRead \/ L2Pre \/ L2Post
    BY <1>2, <2>4 DEF L1Accounts, L2Before, BridgeAfter, Poll, PollTimesOut,
       BridgeFinal, L2Accounts, L2BalanceRead, L2Pre, L2Post
  <2>5. QED
    BY <1>8, <2>1, <2>2, <2>3, <2>4 DEF Stress
<1>9. CASE Auction
  <2>1. CASE Detect \/ ReadReserve \/ ReadWinnerFails
    BY <1>1, <2>1 DEF Detect, ReadReserve, ReadWinnerFails
  <2>2. CASE AuctionAddr \/ RoundCheck \/ CheckAuction \/ CheckMinimum
               \/ ReadRoundAgain \/ ReadWinner \/ CheckMonopoly
    BY <1>2, <2>2 DEF AuctionAddr, RoundCheck, CheckAuction, CheckMinimum,
       ReadRoundAgain, ReadWinner, CheckMonopoly
  <2>3. QED
    BY <1>9, <2>1, <2>2 DEF Auction
<1>10. QED
  BY <1>3, <1>4, <1>5, <1>6, <1>7, <1>8, <1>9, Moves

LEMMA TypesOfLocals ==
  ASSUME Scripted, Accounted, StackTypeOK, StressTypeOK, AuctionTypeOK, [Next]_vars
  PROVE  StressTypeOK' /\ AuctionTypeOK'
<1>1. ASSUME UNCHANGED readings \/ StressReset PROVE StressTypeOK'
  <2>1. CASE UNCHANGED readings
    BY <2>1 DEF StressTypeOK, readings
  <2>2. CASE StressReset
    <3>1. bridgeBefore' \in Nat /\ l2Before' \in Int
      BY <2>2 DEF StressReset
    <3>2. polled' \in BOOLEAN
      BY <2>2, Zenon DEF StressReset
    <3>3. QED
      BY <3>1, <3>2 DEF StressTypeOK
  <2>3. QED
    BY <1>1, <2>1, <2>2
<1>2. ASSUME UNCHANGED auctionLocals \/ AuctionReset PROVE AuctionTypeOK'
  <2>1. CASE UNCHANGED auctionLocals
    BY <2>1 DEF AuctionTypeOK, auctionLocals
  <2>2. CASE AuctionReset
    <3>1. winners' = <<>> /\ Len(<<>>) = 0
      BY <2>2 DEF AuctionReset
    <3>2. QED
      BY <2>2, <3>1 DEF AuctionReset, AuctionTypeOK
  <2>3. QED
    BY <1>2, <2>1, <2>2
<1>3. CASE UNCHANGED vars \/ Environment \/ Mining
  BY <1>1, <1>2, <1>3 DEF vars, Environment, Mining
<1>4. CASE Stress /\ UNCHANGED auctionLocals
  <2> SUFFICES StressTypeOK'
    BY <1>2, <1>4
  <2>1. CASE BridgeBefore
    BY <2>1 DEF BridgeBefore, StackTypeOK, StressTypeOK
  <2>2. CASE L2Before
    BY <2>2 DEF L2Before, Accounts, StackTypeOK, StressTypeOK
  <2>3. CASE L2Pre
    <3>1. world.l2_account \in Accounts
      <4>1. world.l2_account \in Accounts \cup {"none"}
        BY StackAssumption DEF StackTypeOK
      <4>2. world.l2_account # "none"
        BY <2>3, WhereStress DEF L2Pre, Accounted, At
      <4>3. QED
        BY <4>1, <4>2
    <3>2. QED
      BY <2>3, <3>1 DEF L2Pre, L2Balance, StackTypeOK, StressTypeOK
  <2>4. CASE BridgeAfter
    <3>1. bridgeBefore' \in Nat /\ l2Before' \in Int
      BY <2>4 DEF BridgeAfter, StressTypeOK
    <3>2. polled' \in BOOLEAN
      BY <2>4, Zenon DEF BridgeAfter
    <3>3. QED
      BY <3>1, <3>2 DEF StressTypeOK
  <2>5. CASE Poll
    <3>1. bridgeBefore' \in Nat /\ l2Before' \in Int
      BY <2>5 DEF Poll, StressTypeOK
    <3>2. polled' \in BOOLEAN
      BY <2>5, Zenon DEF Poll, StressTypeOK
    <3>3. QED
      BY <3>1, <3>2 DEF StressTypeOK
  <2>6. CASE L1Accounts \/ SendDeposit \/ DepositReceipt \/ PollTimesOut
               \/ BridgeFinal \/ L2Accounts \/ L2BalanceRead \/ SendWithdrawal
               \/ WithdrawalReceipt \/ WithdrawFails \/ L2Post
    BY <1>1, <2>6 DEF L1Accounts, SendDeposit, DepositReceipt, PollTimesOut,
       BridgeFinal, L2Accounts, L2BalanceRead, SendWithdrawal, WithdrawalReceipt,
       WithdrawFails, L2Post, Sends, ReceiptComes
  <2>7. QED
    BY <1>4, <2>1, <2>2, <2>3, <2>4, <2>5, <2>6 DEF Stress
<1>5. CASE Auction /\ UNCHANGED readings
  <2> SUFFICES AuctionTypeOK'
    BY <1>1, <1>5
  <2>1. CASE Detect
    BY <2>1 DEF Detect, AuctionTypeOK
  <2>2. CASE ReadReserve
    BY <2>2 DEF ReadReserve, AuctionTypeOK, StackTypeOK
  <2>3. CASE ReadRoundAgain
    <3>1. CurrentRound \in Nat /\ Lookback(CurrentRound) \in 0 .. 5
      BY DEF CurrentRound, Lookback, StackTypeOK
    <3>2. winners' = <<>> /\ Len(<<>>) = 0
      BY <2>3 DEF ReadRoundAgain
    <3>3. QED
      BY <2>3, <3>1, <3>2 DEF ReadRoundAgain, AuctionTypeOK
  <2>4. CASE ReadWinner
    <3>1. PICK w \in Bidders \cup {"none"} : winners' = Append(winners, w)
      BY <2>4 DEF ReadWinner
    <3>2. winners \in Seq(Bidders \cup {"none"}) /\ Len(winners) < window
      BY <2>4 DEF ReadWinner, AuctionTypeOK
    <3>3. /\ winners' \in Seq(Bidders \cup {"none"})
          /\ Len(winners') = Len(winners) + 1 /\ Len(winners) \in Nat
      BY <3>1, <3>2
    <3>4. QED
      BY <2>4, <3>2, <3>3 DEF ReadWinner, AuctionTypeOK
  <2>5. CASE ReadWinnerFails
    <3>1. Len(winners) \in Nat
      BY DEF AuctionTypeOK
    <3>2. QED
      BY <2>5, <3>1 DEF ReadWinnerFails, AuctionTypeOK
  <2>6. CASE AuctionAddr \/ RoundCheck \/ CheckAuction \/ CheckMinimum \/ CheckMonopoly
    BY <1>2, <2>6 DEF AuctionAddr, RoundCheck, CheckAuction, CheckMinimum, CheckMonopoly
  <2>7. QED
    BY <1>5, <2>1, <2>2, <2>3, <2>4, <2>5, <2>6 DEF Auction
<1>6. CASE (Connect \/ CheckAnswer \/ CheckFails \/ Exit)
             /\ UNCHANGED readings /\ UNCHANGED auctionLocals
  BY <1>1, <1>2, <1>6
<1>7. CASE (Outcome \/ AwaitFails) /\ StressReset /\ AuctionReset
  BY <1>1, <1>2, <1>7
<1>8. AwaitFails => StressReset /\ AuctionReset
  BY DEF AwaitFails
<1>9. QED
  BY <1>3, <1>4, <1>5, <1>6, <1>7, <1>8, Moves

LiveInv == TypeOK /\ Scripted /\ Accounted /\ Transacted

LEMMA LiveInit == Init => LiveInv
<1> SUFFICES ASSUME Init PROVE LiveInv
  OBVIOUS
<1>1. Selected \subseteq Quiet /\ Quiet \subseteq DOMAIN Registry
  BY DEF Selected, Registry, Quiet
<1>2. toRun \subseteq Quiet /\ pc = 1
  BY <1>1 DEF Init, RunnerInit
<1>3. Scripted
  BY <1>2, Lengths, ScenarioKnown DEF Scripted
<1>4. StackTypeOK
  BY StackAssumption DEF Init, StackInit, StackTypeOK
<1>5. StressTypeOK
  <2>1. polled \in BOOLEAN
    BY Zenon DEF Init, StressInit
  <2>2. QED
    BY <2>1 DEF Init, StressInit, StressTypeOK
<1>6. AuctionTypeOK
  <2>1. winners = <<>> /\ Len(<<>>) = 0
    BY DEF Init, AuctionInit
  <2>2. QED
    BY <2>1 DEF Init, AuctionInit, AuctionTypeOK
<1>7. QED
  BY <1>1, <1>2, <1>3, <1>4, <1>5, <1>6
     DEF Init, RunnerInit, StackInit, LiveInv, TypeOK, Accounted, Transacted

LEMMA LiveStep == LiveInv /\ [Next]_vars => LiveInv'
<1> SUFFICES ASSUME LiveInv, [Next]_vars PROVE LiveInv'
  OBVIOUS
<1>1. Scripted' /\ Accounted' /\ Transacted'
  BY ScriptedStep, AccountedStep, TransactedStep DEF LiveInv, TypeOK
<1>2. StackTypeOK' /\ StressTypeOK' /\ AuctionTypeOK'
  BY TypesOfStack, TypesOfLocals DEF LiveInv, TypeOK
<1>3. /\ outcomes' \in Seq(Outcomes) /\ exit' \in {NoCode, 0, 1}
      /\ findings' \subseteq reported'
  BY KindsOfSteps, TypesOfRunner DEF LiveInv, TypeOK
<1>4. pc' \in 1 .. 16
  <2>1. toRun' \subseteq Quiet
    BY <1>1 DEF Scripted
  <2>2. toRun' # {} => Registry[Min(toRun')].name \in Probes \cup {"stress", "timeboost"}
    BY <2>1, FirstOf
  <2>3. QED
    BY <1>1, <2>2, Lengths DEF Scripted, Running, Scenario
<1>5. toRun' \subseteq DOMAIN Registry
  BY <1>1 DEF Scripted, Quiet, Registry
<1>6. QED
  BY <1>1, <1>2, <1>3, <1>4, <1>5 DEF LiveInv, TypeOK

\* Every state of a run has its type: no step reads past the end of its script,
\* and the withdrawal is tested with an account that the node has.
THEOREM TypeCorrect == Spec => [](TypeOK /\ Scripted)
<1>1. LiveInv => TypeOK /\ Scripted
  BY DEF LiveInv
<1>2. QED
  BY <1>1, LiveInit, LiveStep, PTL DEF Spec

-----------------------------------------------------------------------------

\* What the steps of the other scripts report, and what they leave alone.
LEMMA ReadsReport ==
  ASSUME LiveInv, Connect \/ CheckAnswer \/ CheckFails
  PROVE  /\ Running /\ toRun' = toRun /\ pc' = pc + 1
         /\ UNCHANGED <<world, bridge, wallet, transaction, deposit, round, reserve,
                        minimum, since>>
         /\ Scenario = "timeboost" => pc = 2
         /\ \E titles \in SUBSET (ProbeNames \cup {"arbos_version"}) :
              /\ findings' = findings \cup titles
              /\ Scenario = "stress" => (pc = 1 /\ titles = {}) \/ pc \in {14, 15}
              /\ Scenario = "timeboost" => titles = {}
<1>1. Running /\ Scripted
  BY DEF Connect, CheckAnswer, CheckFails, At, LiveInv
<1>2. UNCHANGED <<world, bridge, wallet, transaction, deposit, round, reserve,
                  minimum, since>>
  BY DEF Connect, CheckAnswer, CheckFails, stack
<1>3. CASE Connect
  BY <1>1, <1>2, <1>3, WhereReads DEF Connect, At, Proceeds, Report
<1>4. CASE CheckAnswer \/ CheckFails
  <2>1. PICK b : Proceeds(If(b, Step.name))
    BY <1>4 DEF CheckAnswer, CheckFails
  <2>2. Step.kind = "check"
    BY <1>4 DEF CheckAnswer, CheckFails
  <2>3. If(b, Step.name) \in SUBSET (ProbeNames \cup {"arbos_version"})
    BY <1>1, <2>2, WhereReads DEF If
  <2>4. QED
    BY <1>1, <1>2, <2>1, <2>2, <2>3, WhereReads DEF Proceeds, Report
<1>5. QED
  BY <1>3, <1>4

AuctionTitles ==
  {"round", "round_duration", "round_start", "controller", "reserve_below_minimum",
   "monopoly", "bid_receiver"}

LEMMA AuctionReports ==
  ASSUME LiveInv, Auction
  PROVE  /\ Running /\ Scenario = "timeboost"
         /\ UNCHANGED <<world, bridge, wallet, transaction, deposit, round, reserve,
                        minimum>>
         /\ since' \subseteq since /\ since \subseteq since' \cup {"raise"}
         /\ \/ \E outcome : Ends(outcome)
            \/ /\ toRun' = toRun /\ findings \subseteq findings'
               /\ findings' \subseteq findings \cup AuctionTitles
<1>1. Scripted
  BY DEF LiveInv
<1>2. Running /\ Scenario = "timeboost"
  BY <1>1, WhereAuction, WhereReads DEF Auction, AuctionAddr, Detect, RoundCheck,
     CheckAuction, ReadReserve, CheckMinimum, ReadRoundAgain, ReadWinner,
     ReadWinnerFails, CheckMonopoly, At
<1>3. /\ UNCHANGED <<world, bridge, wallet, transaction, deposit, round, reserve,
                     minimum>>
      /\ since' \subseteq since /\ since \subseteq since' \cup {"raise"}
  BY DEF Auction, AuctionAddr, Detect, RoundCheck, CheckAuction, ReadReserve,
     CheckMinimum, ReadRoundAgain, ReadWinner, ReadWinnerFails, CheckMonopoly, stack
<1>4. ASSUME NEW titles, Proceeds(titles), titles \subseteq AuctionTitles
      PROVE  /\ toRun' = toRun /\ findings \subseteq findings'
             /\ findings' \subseteq findings \cup AuctionTitles
  BY <1>4 DEF Proceeds, Report
<1>5. CASE CheckAuction
  <2>1. Step.name \in AuctionTitles
    BY <1>1, <1>2, <1>5, WhereReads DEF CheckAuction, TimeboostNames, AuctionTitles
  <2>2. PICK b : Proceeds(If(b, Step.name))
    BY <1>5 DEF CheckAuction
  <2>3. QED
    BY <1>2, <1>3, <1>4, <2>1, <2>2 DEF If
<1>6. CASE RoundCheck \/ CheckMinimum \/ CheckMonopoly
  <2>1. PICK n \in AuctionTitles : \E b : Proceeds(If(b, n))
    BY <1>6 DEF RoundCheck, CheckMinimum, CheckMonopoly, AuctionTitles
  <2>2. QED
    BY <1>2, <1>3, <1>4, <2>1 DEF If
<1>7. CASE AuctionAddr
  BY <1>2, <1>3, <1>4, <1>7 DEF AuctionAddr
<1>8. CASE Detect \/ ReadReserve \/ ReadRoundAgain \/ ReadWinner \/ ReadWinnerFails
  <2>1. Proceeds({}) \/ (toRun' = toRun /\ findings' = findings)
    BY <1>8 DEF Detect, ReadReserve, ReadRoundAgain, ReadWinner, ReadWinnerFails,
       JumpsTo, runner
  <2>2. QED
    BY <1>2, <1>3, <1>4, <2>1
<1>9. QED
  BY <1>5, <1>6, <1>7, <1>8 DEF Auction

\* A scenario that ends leaves no findings behind, and the next begins.
LEMMA EndsClean ==
  ASSUME NEW outcome, Ends(outcome)
  PROVE  toRun' = toRun \ {Min(toRun)} /\ pc' = 1 /\ findings' = {}
  BY DEF Ends

-----------------------------------------------------------------------------

\* The balance of the bridge since the snapshot: nobody but a completed
\* withdrawal takes from it, and the deposit is in it once it is mined.
BridgeInv ==
  /\ BridgeAlarmMeansClaim
  /\ Running /\ Scenario = "stress" =>
       /\ pc <= 5 => findings = {}
       /\ pc \in {4, 5} => "claim" \in since \/ bridge >= bridgeBefore
       /\ pc = 5 /\ transaction = "mined" =>
            "claim" \in since \/ bridge >= bridgeBefore + DepositValue
       /\ pc \in 6 .. 8 => "claim" \in since \/ bridge >= bridgeBefore + DepositValue

LEMMA BridgeStep ==
  ASSUME LiveInv, BridgeInv, [Next]_vars
  PROVE  BridgeInv'
<1> DEFINE Alarms == {"bridge_not_increased", "bridge_decreased"}
<1>0. /\ Scripted /\ pc \in 1 .. 16 /\ bridge \in Nat /\ bridgeBefore \in Nat
      /\ DepositValue \in Nat
  BY StackAssumption DEF LiveInv, TypeOK, StackTypeOK, StressTypeOK
<1>1. ASSUME NEW outcome, Ends(outcome) PROVE BridgeInv'
  BY <1>1, EndsClean DEF BridgeInv, BridgeAlarmMeansClaim
<1>2. CASE UNCHANGED vars
  BY <1>2 DEF vars, stack, runner, readings, BridgeInv, BridgeAlarmMeansClaim,
     Running, Scenario
<1>3. CASE Environment
  <2>1. /\ UNCHANGED <<toRun, pc, findings, bridgeBefore, transaction>>
        /\ since \subseteq since'
    BY <1>3 DEF Environment, runner, readings, Claim, Income, DepositArrives,
       RoundEnds, RaiseMinimum, Happens
  <2>2. "claim" \in since' \/ bridge' = bridge
    BY <1>3 DEF Environment, Claim, Income, DepositArrives, RoundEnds,
       RaiseMinimum, Happens
  <2>3. QED
    BY <2>1, <2>2 DEF BridgeInv, BridgeAlarmMeansClaim, Running, Scenario
<1>4. CASE Mining
  <2>1. UNCHANGED <<toRun, pc, findings, since, bridgeBefore>>
    BY <1>4 DEF Mining, runner, readings, DepositMined, WithdrawalMined
  <2>2. CASE DepositMined
    <3>1. transaction' = "mined" /\ bridge' = bridge + DepositValue
      BY <2>2 DEF DepositMined
    <3>2. QED
      BY <1>0, <2>1, <3>1 DEF BridgeInv, BridgeAlarmMeansClaim, Running, Scenario
  <2>3. CASE WithdrawalMined
    <3>1. bridge' = bridge /\ transaction = "withdrawal"
      BY <2>3 DEF WithdrawalMined
    <3>2. ~InStress(5)
      <4>1. InStress(5) => 7 \in toRun
        BY <1>0, ScenarioKnown DEF InStress, Scripted
      <4>2. QED
        BY <3>1, <4>1 DEF LiveInv, Transacted, InStress
    <3>3. QED
      BY <2>1, <3>1, <3>2
         DEF BridgeInv, BridgeAlarmMeansClaim, InStress, Running, Scenario
  <2>4. QED
    BY <1>4, <2>2, <2>3 DEF Mining
<1>5. CASE Connect \/ CheckAnswer \/ CheckFails
  <2>1. (ProbeNames \cup {"arbos_version"}) \cap Alarms = {}
    BY DEF ProbeNames
  <2>2. QED
    BY <1>0, <1>5, <2>1, ReadsReport
       DEF BridgeInv, BridgeAlarmMeansClaim, Running, Scenario
<1>6. CASE Auction
  <2>1. AuctionTitles \cap Alarms = {}
    BY DEF AuctionTitles
  <2>2. CASE toRun' = toRun /\ findings' \subseteq findings \cup AuctionTitles
    BY <1>6, <2>1, <2>2, AuctionReports
       DEF BridgeInv, BridgeAlarmMeansClaim, Running, Scenario
  <2>3. QED
    BY <1>1, <1>6, <2>2, AuctionReports
<1>7. CASE Outcome \/ AwaitFails
  BY <1>1, <1>7 DEF Outcome, AwaitFails
<1>8. CASE Exit /\ UNCHANGED stack
  BY <1>8 DEF Exit, stack, BridgeInv, BridgeAlarmMeansClaim, Running
<1>9. CASE Stress
  <2>1. /\ Running /\ Scenario = "stress" /\ toRun' = toRun
        /\ StepNo("l2_accounts") = 9 /\ StepNo("arb_block_number") = 14
    <3>1. Running /\ Scenario = "stress"
      BY <1>0, <1>9, WhereStress DEF Stress, At, L1Accounts, BridgeBefore, L2Before,
         SendDeposit, DepositReceipt, BridgeAfter, Poll, PollTimesOut, BridgeFinal,
         L2Accounts, L2BalanceRead, L2Pre, SendWithdrawal, WithdrawalReceipt,
         WithdrawFails, L2Post, Sends, ReceiptComes
    <3>2. toRun' = toRun
      BY <1>9 DEF Stress, L1Accounts, BridgeBefore, L2Before, SendDeposit,
         DepositReceipt, BridgeAfter, Poll, PollTimesOut, BridgeFinal, L2Accounts,
         L2BalanceRead, L2Pre, SendWithdrawal, WithdrawalReceipt, WithdrawFails,
         L2Post, Sends, ReceiptComes, Proceeds, JumpsTo, runner
    <3>3. QED
      BY <1>0, <3>1, <3>2, JumpTargets
  <2> DEFINE Inv(p, f, s, b, bb, t) ==
        /\ f \cap Alarms # {} => "claim" \in s
        /\ p <= 5 => f = {}
        /\ p \in {4, 5} => "claim" \in s \/ b >= bb
        /\ p = 5 /\ t = "mined" => "claim" \in s \/ b >= bb + DepositValue
        /\ p \in 6 .. 8 => "claim" \in s \/ b >= bb + DepositValue
  <2>2. /\ Inv(pc, findings, since, bridge, bridgeBefore, transaction)
        /\ pc = 4 => transaction = "none"
    BY <1>0, <2>1, ScenarioKnown
       DEF BridgeInv, BridgeAlarmMeansClaim, LiveInv, Transacted, Scripted
  <2> SUFFICES Inv(pc', findings', since', bridge', bridgeBefore', transaction')
    BY <2>1 DEF BridgeInv, BridgeAlarmMeansClaim, Running, Scenario
  <2> USE DEF Proceeds, Report, JumpsTo, If, stack, readings, runner
  <2>3. CASE L1Accounts
    BY <1>0, <2>1, <2>2, <2>3, WhereStress DEF L1Accounts
  <2>4. CASE BridgeBefore
    BY <1>0, <2>1, <2>2, <2>4, WhereStress DEF BridgeBefore
  <2>5. CASE L2Before
    BY <1>0, <2>1, <2>2, <2>5, WhereStress DEF L2Before
  <2>6. CASE SendDeposit
    BY <1>0, <2>1, <2>2, <2>6, WhereStress DEF SendDeposit, Sends
  <2>7. CASE DepositReceipt
    BY <1>0, <2>1, <2>2, <2>7, WhereStress DEF DepositReceipt, ReceiptComes
  <2>8. CASE BridgeAfter
    BY <1>0, <2>1, <2>2, <2>8, WhereStress DEF BridgeAfter, DepositShort
  <2>9. CASE Poll \/ PollTimesOut
    BY <1>0, <2>1, <2>2, <2>9, WhereStress DEF Poll, PollTimesOut
  <2>10. CASE BridgeFinal
    BY <1>0, <2>1, <2>2, <2>10, WhereStress DEF BridgeFinal
  <2>11. CASE L2Accounts \/ L2BalanceRead \/ L2Pre \/ SendWithdrawal
                \/ WithdrawalReceipt \/ WithdrawFails \/ L2Post
    <3>1. pc' \in 9 .. 16 /\ UNCHANGED <<bridge, bridgeBefore, since>>
      BY <1>0, <2>1, <2>11, WhereStress DEF L2Accounts, L2BalanceRead, L2Pre,
         SendWithdrawal, WithdrawalReceipt, WithdrawFails, L2Post, Sends, ReceiptComes
    <3>2. findings' \subseteq findings \cup {"withdrawal_kept"}
      BY <2>11 DEF L2Accounts, L2BalanceRead, L2Pre, SendWithdrawal, WithdrawalReceipt,
         WithdrawFails, L2Post, Sends, ReceiptComes
    <3>3. QED
      BY <1>0, <2>2, <3>1, <3>2
  <2>12. QED
    BY <1>9, <2>3, <2>4, <2>5, <2>6, <2>7, <2>8, <2>9, <2>10, <2>11 DEF Stress
<1>10. QED
  BY <1>2, <1>3, <1>4, <1>5, <1>6, <1>7, <1>8, <1>9, Moves

\* Both alarms of the stress test about the bridge mean that a withdrawal was
\* paid out during the test, whatever else happens to the chains (test_deposit).
THEOREM BridgeAlarmsAreClaims == Spec => []BridgeAlarmMeansClaim
<1>1. Init => BridgeInv
  BY DEF Init, RunnerInit, BridgeInv, BridgeAlarmMeansClaim
<1>2. LiveInv /\ BridgeInv /\ [Next]_vars => BridgeInv'
  BY BridgeStep
<1>3. BridgeInv => BridgeAlarmMeansClaim
  BY DEF BridgeInv
<1>4. QED
  BY <1>1, <1>2, <1>3, LiveInit, LiveStep, PTL DEF Spec

-----------------------------------------------------------------------------

\* The deposit is made once.  While it is on its way its account has nothing
\* that the snapshot did not see, so that it is in time or reported; and only a
\* deposit that comes after that can make up for the withdrawal.
Late ==
  world.l2_account = "dev" /\ deposit = "arrived" /\ "not_arrived" \in findings

StressBegun == Running /\ Scenario = "stress" /\ pc >= 5

WithdrawalInv ==
  /\ WithdrawalAlarmNeedsIncome
  /\ 7 \in toRun /\ ~StressBegun => deposit = "none"
  /\ transaction = "deposit" => deposit = "none"
  /\ Running /\ Scenario = "stress" =>
       /\ pc <= 5 => findings = {}
       /\ pc = 5 /\ transaction # "mined" => deposit = "none"
       /\ "income" \notin since =>
            /\ pc \in 5 .. 7 => deposit = "arrived" \/ wallet["dev"] <= l2Before
            /\ pc >= 8 => deposit # "flying" \/ "not_arrived" \in findings
            /\ pc = 12 => Late \/ L2Balance <= l2Before
            /\ pc = 12 /\ transaction = "mined" => Late \/ L2Balance < l2Before
            /\ pc = 13 => Late \/ L2Balance < l2Before

LEMMA WithdrawalEnvironment ==
  ASSUME LiveInv, WithdrawalInv, Environment
  PROVE  WithdrawalInv'
<1>1. /\ Scripted /\ Accounted /\ pc \in 1 .. 16 /\ wallet \in [Accounts -> Int]
      /\ DepositValue \in Nat /\ l2Before \in Int
      /\ world.l2_account \in Accounts \cup {"none"}
  BY StackAssumption DEF LiveInv, TypeOK, StackTypeOK, StressTypeOK
<1>2. /\ Running /\ UNCHANGED <<toRun, pc, findings, l2Before, world, transaction>>
      /\ since \subseteq since'
  BY DEF Environment, runner, readings, Claim, Income, DepositArrives, RoundEnds,
     RaiseMinimum, Happens
<1>3. CASE Income
  <2>1. "income" \in since' /\ deposit' = deposit
    BY <1>3 DEF Income, Happens
  <2>2. QED
    BY <1>2, <2>1 DEF WithdrawalInv, WithdrawalAlarmNeedsIncome, StressBegun, Running,
       Scenario
<1>4. CASE Claim \/ RoundEnds \/ RaiseMinimum
  <2>1. UNCHANGED <<wallet, deposit>> /\ ("income" \in since' <=> "income" \in since)
    BY <1>4 DEF Claim, RoundEnds, RaiseMinimum, Happens
  <2>2. QED
    BY <1>2, <2>1 DEF WithdrawalInv, WithdrawalAlarmNeedsIncome, StressBegun, Running,
       Scenario, Late, L2Balance
<1>5. CASE DepositArrives
  <2>1. /\ deposit = "flying" /\ deposit' = "arrived" /\ since' = since
        /\ wallet' = [wallet EXCEPT !["dev"] = @ + DepositValue]
    BY <1>5 DEF DepositArrives
  <2>2. "dev" \in Accounts /\ \A a \in Accounts : a # "dev" => wallet'[a] = wallet[a]
    BY <1>1, <2>1 DEF Accounts
  <2>3. ~(7 \in toRun /\ ~StressBegun)
    BY <2>1 DEF WithdrawalInv
  <2>4. ASSUME Scenario = "stress", pc \in {12, 13}, "income" \notin since
        PROVE  /\ world.l2_account = "dev" => "not_arrived" \in findings
               /\ world.l2_account # "dev" => L2Balance' = L2Balance
    <3>1. "not_arrived" \in findings
      BY <1>2, <2>1, <2>4 DEF WithdrawalInv
    <3>2. world.l2_account # "dev" => L2Balance' = L2Balance
      BY <1>1, <1>2, <2>2, <2>4 DEF Accounted, L2Balance
    <3>3. QED
      BY <3>1, <3>2
  <2>5. QED
    BY <1>1, <1>2, <2>1, <2>3, <2>4
       DEF WithdrawalInv, WithdrawalAlarmNeedsIncome, StressBegun, Running, Scenario, Late
<1>6. QED
  BY <1>3, <1>4, <1>5 DEF Environment

LEMMA WithdrawalMining ==
  ASSUME LiveInv, WithdrawalInv, Mining
  PROVE  WithdrawalInv'
<1>1. /\ Scripted /\ Accounted /\ pc \in 1 .. 16 /\ wallet \in [Accounts -> Int]
      /\ l2Before \in Int /\ world.l2_account \in Accounts \cup {"none"}
  BY StackAssumption DEF LiveInv, TypeOK, StackTypeOK, StressTypeOK
<1>2. UNCHANGED <<toRun, pc, findings, l2Before, world, since>> /\ transaction' = "mined"
  BY DEF Mining, DepositMined, WithdrawalMined, runner, readings
<1>3. Running /\ Scenario = "stress" => 7 \in toRun
  BY <1>1, ScenarioKnown DEF Scripted
<1>4. CASE DepositMined
  <2>1. deposit = "none" /\ deposit' = "flying" /\ wallet' = wallet
    BY <1>4 DEF DepositMined, WithdrawalInv
  <2>2. 7 \in toRun => InStress(5)
    BY <1>4 DEF DepositMined, LiveInv, Transacted, InStress
  <2>3. QED
    BY <1>1, <1>2, <1>3, <2>1, <2>2
       DEF WithdrawalInv, WithdrawalAlarmNeedsIncome, StressBegun, InStress, Running,
           Scenario
<1>5. CASE WithdrawalMined
  <2>1. deposit' = deposit /\ wallet' = [wallet EXCEPT ![world.l2_account] = @ - 1]
    BY <1>5 DEF WithdrawalMined
  <2>2. \A a \in Accounts : wallet[a] \in Int /\ wallet'[a] <= wallet[a]
    BY <1>1, <2>1
  <2>3. ~InStress(5)
    BY <1>3, <1>5 DEF WithdrawalMined, LiveInv, Transacted, InStress
  <2>4. "dev" \in Accounts
    BY DEF Accounts
  <2>5. ASSUME Running, Scenario = "stress", pc \in {12, 13}
        PROVE  L2Balance \in Int /\ L2Balance' = L2Balance - 1
    <3>1. world.l2_account \in Accounts
      BY <1>1, <2>5 DEF Accounted
    <3>2. QED
      BY <1>1, <1>2, <2>1, <3>1 DEF L2Balance
  <2>6. Late' <=> Late
    BY <1>2, <2>1 DEF Late
  <2>7. QED
    BY <1>1, <1>2, <2>1, <2>2, <2>3, <2>4, <2>5, <2>6
       DEF WithdrawalInv, WithdrawalAlarmNeedsIncome, StressBegun, InStress, Running,
           Scenario
<1>6. QED
  BY <1>4, <1>5 DEF Mining

LEMMA WithdrawalEnds ==
  ASSUME LiveInv, WithdrawalInv, NEW outcome, Running, Ends(outcome),
         UNCHANGED <<deposit, transaction>>
  PROVE  WithdrawalInv'
<1>1. toRun' = toRun \ {Min(toRun)} /\ pc' = 1 /\ findings' = {}
  BY EndsClean
<1>2. 7 \in toRun' => Scenario # "stress" /\ 7 \in toRun
  BY <1>1, ScenarioKnown DEF LiveInv, Scripted
<1>3. 7 \in toRun' => deposit' = "none"
  BY <1>2 DEF WithdrawalInv, StressBegun
<1>4. QED
  BY <1>1, <1>3 DEF WithdrawalInv, WithdrawalAlarmNeedsIncome

LEMMA WithdrawalStress ==
  ASSUME LiveInv, WithdrawalInv, [Next]_vars, Stress
  PROVE  WithdrawalInv'
<1>0. /\ Scripted /\ Accounted /\ pc \in 1 .. 16 /\ wallet \in [Accounts -> Int]
      /\ l2Before \in Int /\ deposit \in {"none", "flying", "arrived"}
      /\ world.l2_account \in Accounts \cup {"none"} /\ "dev" \in Accounts
  BY StackAssumption DEF LiveInv, TypeOK, StackTypeOK, StressTypeOK, Accounts
<1>1. /\ Running /\ Scenario = "stress" /\ toRun' = toRun /\ world' = world
      /\ StepNo("l2_accounts") = 9 /\ StepNo("arb_block_number") = 14
  <2>1. Running /\ Scenario = "stress"
    BY <1>0, WhereStress DEF Stress, At, L1Accounts, BridgeBefore, L2Before,
       SendDeposit, DepositReceipt, BridgeAfter, Poll, PollTimesOut, BridgeFinal,
       L2Accounts, L2BalanceRead, L2Pre, SendWithdrawal, WithdrawalReceipt,
       WithdrawFails, L2Post, Sends, ReceiptComes
  <2>2. toRun' = toRun /\ world' = world
    BY DEF Stress, L1Accounts, BridgeBefore, L2Before, SendDeposit, DepositReceipt,
       BridgeAfter, Poll, PollTimesOut, BridgeFinal, L2Accounts, L2BalanceRead, L2Pre,
       SendWithdrawal, WithdrawalReceipt, WithdrawFails, L2Post, Sends, ReceiptComes,
       Proceeds, JumpsTo, runner, stack
  <2>3. QED
    BY <1>0, <2>1, <2>2, JumpTargets
<1>2. 7 \in toRun
  BY <1>0, <1>1, ScenarioKnown DEF Scripted
<1> DEFINE Inv ==
      /\ WithdrawalAlarmNeedsIncome
      /\ pc <= 4 => deposit = "none" /\ transaction = "none"
      /\ transaction = "deposit" => deposit = "none"
      /\ pc <= 5 => findings = {}
      /\ pc = 5 /\ transaction # "mined" => deposit = "none"
      /\ pc \in 6 .. 11 => transaction = "none"
      /\ "income" \notin since =>
           /\ pc \in 5 .. 7 => deposit = "arrived" \/ wallet["dev"] <= l2Before
           /\ pc >= 8 => deposit # "flying" \/ "not_arrived" \in findings
           /\ pc = 12 => Late \/ L2Balance <= l2Before
           /\ pc = 12 /\ transaction = "mined" => Late \/ L2Balance < l2Before
           /\ pc = 13 => Late \/ L2Balance < l2Before
<1>3. Inv
  BY <1>0, <1>1, <1>2 DEF WithdrawalInv, StressBegun, LiveInv, Transacted
<1>4. pc' \in 1 .. 16
  BY LiveStep DEF LiveInv, TypeOK
<1>5. SUFFICES Inv'
  BY <1>1, <1>2, <1>4 DEF WithdrawalInv, StressBegun, Running, Scenario
<1> USE DEF Proceeds, Report, JumpsTo, If, stack, readings, runner
<1>6. CASE L1Accounts
  BY <1>0, <1>1, <1>3, <1>6, WhereStress DEF L1Accounts, WithdrawalAlarmNeedsIncome, Late
<1>7. CASE BridgeBefore
  BY <1>0, <1>1, <1>3, <1>7, WhereStress DEF BridgeBefore, WithdrawalAlarmNeedsIncome
<1>8. CASE L2Before
  BY <1>0, <1>1, <1>3, <1>8, WhereStress DEF L2Before, WithdrawalAlarmNeedsIncome
<1>9. CASE SendDeposit
  BY <1>0, <1>1, <1>3, <1>9, WhereStress DEF SendDeposit, Sends,
     WithdrawalAlarmNeedsIncome, Late
<1>10. CASE DepositReceipt
  BY <1>0, <1>1, <1>3, <1>10, WhereStress DEF DepositReceipt, ReceiptComes,
     WithdrawalAlarmNeedsIncome, Late
<1>11. CASE BridgeAfter
  BY <1>0, <1>1, <1>3, <1>11, WhereStress DEF BridgeAfter, WithdrawalAlarmNeedsIncome,
     Late
<1>12. CASE Poll
  <2>1. pc = 7 /\ UNCHANGED <<wallet, transaction, deposit, since, l2Before, findings>>
    BY <1>0, <1>12, WhereStress DEF Poll
  <2>2. \/ pc' = 8 /\ wallet["dev"] > l2Before
        \/ pc' = 7
    BY <1>12, <2>1 DEF Poll, DepositArrived
  <2>3. wallet["dev"] \in Int
    BY <1>0
  <2>4. QED
    BY <1>0, <1>1, <1>3, <2>1, <2>2, <2>3 DEF WithdrawalAlarmNeedsIncome, Late
<1>13. CASE PollTimesOut
  BY <1>0, <1>1, <1>3, <1>13, WhereStress DEF PollTimesOut, WithdrawalAlarmNeedsIncome,
     Late
<1>14. CASE BridgeFinal \/ L2Accounts \/ L2BalanceRead
  BY <1>0, <1>1, <1>3, <1>14, WhereStress DEF BridgeFinal, L2Accounts, L2BalanceRead,
     WithdrawalAlarmNeedsIncome, Late
<1>15. CASE L2Pre
  <2>1. /\ pc = 11 /\ pc' = 12 /\ findings' = findings
        /\ UNCHANGED <<wallet, transaction, deposit, since>> /\ l2Before' = L2Balance
    BY <1>0, <1>15, WhereStress DEF L2Pre
  <2>2. L2Balance \in Int
    BY <1>0, <1>1, <2>1 DEF Accounted, L2Balance
  <2>3. L2Balance' = L2Balance
    BY <1>1, <2>1 DEF L2Balance
  <2>4. QED
    BY <1>0, <1>1, <1>3, <2>1, <2>2, <2>3 DEF WithdrawalAlarmNeedsIncome, Late
<1>16. CASE SendWithdrawal
  <2>1. /\ pc = 12 /\ pc' = 12 /\ transaction' = "withdrawal"
        /\ UNCHANGED <<findings, wallet, deposit, since, l2Before>>
    BY <1>0, <1>16, WhereStress DEF SendWithdrawal, Sends
  <2>2. L2Balance' = L2Balance
    BY <1>1, <2>1 DEF L2Balance
  <2>3. QED
    BY <1>1, <1>3, <2>1, <2>2 DEF WithdrawalAlarmNeedsIncome, Late
<1>17. CASE WithdrawalReceipt
  <2>1. /\ pc = 12 /\ pc' = 13 /\ findings' = findings
        /\ UNCHANGED <<wallet, deposit, since, l2Before>>
        /\ transaction = "mined" /\ transaction' = "none"
    BY <1>0, <1>17, WhereStress DEF WithdrawalReceipt, ReceiptComes
  <2>2. L2Balance' = L2Balance
    BY <1>1, <2>1 DEF L2Balance
  <2>3. QED
    BY <1>0, <1>1, <1>3, <2>1, <2>2 DEF WithdrawalAlarmNeedsIncome, Late
<1>18. CASE WithdrawFails
  BY <1>0, <1>1, <1>3, <1>18, WhereStress DEF WithdrawFails, WithdrawalAlarmNeedsIncome,
     Late
<1>19. CASE L2Post
  <2>1. /\ pc = 13 /\ pc' = 14 /\ UNCHANGED <<transaction, deposit, since>>
        /\ findings \subseteq findings'
        /\ findings' \subseteq findings \cup {"withdrawal_kept"}
        /\ L2Balance < l2Before => findings' = findings
    <3>1. pc = 13 /\ L2Balance \in Int
      BY <1>0, <1>1, <1>19, WhereStress DEF L2Post, Accounted, L2Balance
    <3>2. QED
      BY <1>0, <1>19, <3>1 DEF L2Post, WithdrawalKept
  <2>2. QED
    BY <1>0, <1>1, <1>3, <2>1 DEF WithdrawalAlarmNeedsIncome, Late
<1>20. QED
  BY <1>6, <1>7, <1>8, <1>9, <1>10, <1>11, <1>12, <1>13, <1>14, <1>15, <1>16, <1>17,
     <1>18, <1>19 DEF Stress

LEMMA WithdrawalStep ==
  ASSUME LiveInv, WithdrawalInv, [Next]_vars
  PROVE  WithdrawalInv'
<1>0. Scripted /\ pc \in 1 .. 16
  BY DEF LiveInv, TypeOK
<1>1. CASE UNCHANGED vars
  BY <1>1 DEF vars, stack, runner, readings, WithdrawalInv, WithdrawalAlarmNeedsIncome,
     StressBegun, Running, Scenario, Late, L2Balance
<1>2. CASE Environment \/ Mining
  BY <1>2, WithdrawalEnvironment, WithdrawalMining
<1>3. CASE Connect \/ CheckAnswer \/ CheckFails
  <2>1. "withdrawal_kept" \notin ProbeNames \cup {"arbos_version"}
    BY DEF ProbeNames
  <2>2. PICK titles \in SUBSET (ProbeNames \cup {"arbos_version"}) :
          /\ findings' = findings \cup titles
          /\ Scenario = "stress" => (pc = 1 /\ titles = {}) \/ pc \in {14, 15}
    BY <1>3, ReadsReport
  <2>3. /\ Running /\ toRun' = toRun /\ pc' = pc + 1
        /\ UNCHANGED <<world, wallet, transaction, deposit, since>>
    BY <1>3, ReadsReport
  <2>4. QED
    BY <1>0, <2>1, <2>2, <2>3 DEF WithdrawalInv, WithdrawalAlarmNeedsIncome,
       StressBegun, Running, Scenario
<1>4. CASE Auction
  <2>1. "withdrawal_kept" \notin AuctionTitles
    BY DEF AuctionTitles
  <2>2. CASE /\ toRun' = toRun /\ findings \subseteq findings'
             /\ findings' \subseteq findings \cup AuctionTitles
    <3>1. /\ Running /\ Scenario = "timeboost"
          /\ UNCHANGED <<world, transaction, deposit>>
          /\ since \subseteq since' \cup {"raise"}
      BY <1>4, AuctionReports
    <3>2. QED
      BY <2>1, <2>2, <3>1 DEF WithdrawalInv, WithdrawalAlarmNeedsIncome,
         StressBegun, Running, Scenario
  <2>3. QED
    BY <1>4, <2>2, AuctionReports, WithdrawalEnds
<1>5. CASE Outcome \/ AwaitFails
  BY <1>5, WithdrawalEnds DEF Outcome, AwaitFails, At, stack
<1>6. CASE Exit /\ UNCHANGED stack
  BY <1>6 DEF Exit, stack, WithdrawalInv, WithdrawalAlarmNeedsIncome, StressBegun,
     Running, Scenario, Late
<1>7. CASE Stress
  BY <1>7, WithdrawalStress
<1>8. QED
  BY <1>1, <1>2, <1>3, <1>4, <1>5, <1>6, <1>7, Moves

\* "L2 balance did not decrease" is wrong only if the account was paid during
\* the test: by somebody else, or by the test's own deposit, whose delay it has
\* reported by then (test_withdrawal).
THEOREM WithdrawalAlarmsExplained == Spec => []WithdrawalAlarmNeedsIncome
<1>1. Init => WithdrawalInv
  BY DEF Init, RunnerInit, StackInit, WithdrawalInv, WithdrawalAlarmNeedsIncome
<1>2. LiveInv /\ WithdrawalInv /\ [Next]_vars => WithdrawalInv'
  BY WithdrawalStep
<1>3. WithdrawalInv => WithdrawalAlarmNeedsIncome
  BY DEF WithdrawalInv
<1>4. QED
  BY <1>1, <1>2, <1>3, LiveInit, LiveStep, PTL DEF Spec

-----------------------------------------------------------------------------

\* The layer is chosen before anything is reported, the round never falls, and
\* the floor that the reserve price was read above is raised only by an event.
Wrongs == {"round", "round_duration", "round_start", "bid_receiver"}

WellAuctioned == world.round > 0 /\ DOMAIN world.ill = {} /\ OnHost

AuctionInv ==
  /\ AuctionAlarmsExplained
  /\ round >= world.round
  /\ Running /\ Scenario = "timeboost" =>
       /\ pc <= 4 => findings = {}
       /\ pc <= 9 => "reserve_below_minimum" \notin findings
       /\ pc = 9 /\ OnHost => "raise" \in since \/ reserveRead >= minimum
  /\ Running /\ Scenario # "timeboost" =>
       findings \cap (Wrongs \cup {"reserve_below_minimum"}) = {}

\* The probe reads and reports.
LEMMA AuctionProbeStep ==
  ASSUME LiveInv, AuctionInv, [Next]_vars, Auction
  PROVE  AuctionInv'
<1>0. /\ Scripted /\ pc \in 1 .. 16 /\ round \in Nat /\ world.round \in Nat
      /\ minimum \in Nat /\ reserve \in Nat /\ reserve >= minimum /\ reserveRead \in Nat
  BY StackAssumption DEF LiveInv, TypeOK, StackTypeOK, AuctionTypeOK
<1>1. /\ Running /\ Scenario = "timeboost" /\ UNCHANGED <<world, round, minimum>>
      /\ StepNo("bid_receiver") = 12
  BY <1>0, AuctionReports, JumpTargets
<1>2. ASSUME NEW outcome, Ends(outcome) PROVE AuctionInv'
  <2>1. findings' = {} /\ pc' = 1
    BY <1>2, EndsClean
  <2>2. QED
    BY <1>1, <2>1 DEF AuctionInv, AuctionAlarmsExplained
<1> DEFINE Inv ==
      /\ AuctionAlarmsExplained
      /\ pc <= 4 => findings = {}
      /\ pc <= 9 => "reserve_below_minimum" \notin findings
      /\ pc = 9 /\ OnHost => "raise" \in since \/ reserveRead >= minimum
<1>3. Inv
  BY <1>1 DEF AuctionInv
<1>4. CASE AuctionAddr
  <2>1. CASE \E outcome : Ends(outcome)
    BY <1>2, <2>1
  <2>2. CASE Proceeds({})
    <3>1. pc' = 2 /\ findings' = {} /\ toRun' = toRun
      BY <1>0, <1>3, <1>4, <2>2, WhereAuction DEF AuctionAddr, Proceeds, Report
    <3>2. QED
      BY <1>1, <3>1 DEF AuctionInv, AuctionAlarmsExplained, Running, Scenario
  <2>3. QED
    BY <1>4, <2>1, <2>2 DEF AuctionAddr
<1> SUFFICES ASSUME ~AuctionAddr PROVE AuctionInv'
  BY <1>4
<1>5. toRun' = toRun
  BY DEF Auction, Detect, RoundCheck, CheckAuction, ReadReserve, CheckMinimum,
     ReadRoundAgain, ReadWinner, ReadWinnerFails, CheckMonopoly, Proceeds, JumpsTo,
     runner
<1> SUFFICES Inv'
  BY <1>1, <1>5 DEF AuctionInv, Running, Scenario
<1> USE DEF Proceeds, Report, JumpsTo, If, stack, auctionLocals, runner, OnHost
<1>6. CASE Detect
  BY <1>0, <1>3, <1>6, WhereAuction DEF Detect, AuctionAlarmsExplained
<1>7. CASE RoundCheck
  <2>1. /\ pc = 4 /\ pc' = 5 /\ UNCHANGED <<layer, world, since>> /\ findings = {}
        /\ findings' = If(CurrentRound = 0, "round")
    BY <1>0, <1>3, <1>7, WhereAuction DEF RoundCheck
  <2>2. WellAuctioned => CurrentRound # 0
    BY <1>0 DEF WellAuctioned, CurrentRound, AuctionInv
  <2>3. QED
    BY <2>1, <2>2 DEF AuctionAlarmsExplained, WellAuctioned
<1>8. CASE CheckAuction
  <2>1. /\ pc \in {5, 6, 7, 12} /\ pc' = pc + 1 /\ UNCHANGED <<layer, world, since>>
        /\ Step.name = TimeboostNames[pc] /\ Step.bad \subseteq {"zero", "brief"}
        /\ findings' = findings \cup If(Reported(Step.name, Step.bad), Step.name)
        /\ reserveRead' = reserveRead /\ minimum' = minimum
    BY <1>0, <1>1, <1>8, WhereReads DEF CheckAuction
  <2>2. WellAuctioned => ~Reported(Step.name, Step.bad)
    BY <2>1 DEF WellAuctioned, Reported, AuctionAnswer, Answer
  <2>3. Step.name # "reserve_below_minimum"
    BY <2>1 DEF TimeboostNames
  <2>4. QED
    BY <1>3, <2>1, <2>2, <2>3 DEF AuctionAlarmsExplained, WellAuctioned
<1>9. CASE ReadReserve
  BY <1>0, <1>3, <1>9, WhereAuction DEF ReadReserve, AuctionAlarmsExplained
<1>10. CASE CheckMinimum
  <2>1. /\ pc = 9 /\ pc' = 10 /\ UNCHANGED <<layer, world, since>>
        /\ findings' = findings \cup
             If(OnHost /\ BelowFloor(reserveRead), "reserve_below_minimum")
    BY <1>0, <1>10, WhereAuction DEF CheckMinimum
  <2>2. OnHost /\ BelowFloor(reserveRead) => "raise" \in since
    BY <1>0, <1>3, <2>1 DEF BelowFloor
  <2>3. QED
    BY <1>3, <2>1, <2>2 DEF AuctionAlarmsExplained
<1>11. CASE ReadRoundAgain \/ ReadWinner \/ ReadWinnerFails
  <2>1. /\ pc \in {10, 11} /\ pc' \in {10, 11, 12} /\ findings' = findings
        /\ UNCHANGED <<layer, world, since>>
    BY <1>0, <1>1, <1>11, WhereAuction DEF ReadRoundAgain, ReadWinner, ReadWinnerFails
  <2>2. QED
    BY <1>3, <2>1 DEF AuctionAlarmsExplained
<1>12. CASE CheckMonopoly
  <2>1. /\ pc = 11 /\ pc' = 12 /\ UNCHANGED <<layer, world, since>>
        /\ findings' \subseteq findings \cup {"monopoly"}
    BY <1>0, <1>12, WhereAuction DEF CheckMonopoly
  <2>2. QED
    BY <1>3, <2>1 DEF AuctionAlarmsExplained
<1>13. QED
  BY <1>6, <1>7, <1>8, <1>9, <1>10, <1>11, <1>12 DEF Auction

LEMMA AuctionStep ==
  ASSUME LiveInv, AuctionInv, [Next]_vars
  PROVE  AuctionInv'
<1>0. /\ Scripted /\ pc \in 1 .. 16 /\ round \in Nat /\ world.round \in Nat
      /\ minimum \in Nat
  BY StackAssumption DEF LiveInv, TypeOK, StackTypeOK
<1>1. ASSUME NEW outcome, Ends(outcome), UNCHANGED <<world, round>> PROVE AuctionInv'
  <2>1. findings' = {} /\ pc' = 1
    BY <1>1, EndsClean
  <2>2. QED
    BY <1>1, <2>1 DEF AuctionInv, AuctionAlarmsExplained
<1>2. CASE UNCHANGED vars
  BY <1>2 DEF vars, stack, runner, auctionLocals, AuctionInv, AuctionAlarmsExplained,
     Running, Scenario, OnHost
<1>3. CASE Environment \/ Mining
  <2>1. /\ UNCHANGED <<toRun, pc, findings, world, layer, reserveRead>>
        /\ since \subseteq since'
    BY <1>3 DEF Environment, runner, auctionLocals, Claim, Income, DepositArrives,
       RoundEnds, RaiseMinimum, Happens, Mining, DepositMined, WithdrawalMined
  <2>2. /\ round' = round \/ round' = round + 1
        /\ minimum' = minimum \/ "raise" \in since'
    BY <1>3 DEF Environment, Claim, Income, DepositArrives, RoundEnds, RaiseMinimum,
       Happens, Mining, DepositMined, WithdrawalMined
  <2>3. QED
    BY <1>0, <2>1, <2>2 DEF AuctionInv, AuctionAlarmsExplained, Running, Scenario, OnHost
<1>4. CASE (Connect \/ CheckAnswer \/ CheckFails) /\ UNCHANGED auctionLocals
  <2>1. (ProbeNames \cup {"arbos_version"}) \cap (Wrongs \cup {"reserve_below_minimum"}) = {}
    BY DEF ProbeNames, Wrongs
  <2>2. PICK titles \in SUBSET (ProbeNames \cup {"arbos_version"}) :
          /\ findings' = findings \cup titles
          /\ Scenario = "timeboost" => titles = {}
    BY <1>4, ReadsReport
  <2>3. /\ Running /\ toRun' = toRun /\ pc' = pc + 1 /\ layer' = layer
        /\ UNCHANGED <<world, round, minimum, since>>
        /\ Scenario = "timeboost" => pc = 2
    BY <1>4, ReadsReport DEF auctionLocals
  <2>4. QED
    BY <1>0, <2>1, <2>2, <2>3
       DEF AuctionInv, AuctionAlarmsExplained, Running, Scenario, OnHost, Wrongs
<1>5. CASE Auction
  BY <1>5, AuctionProbeStep
<1>6. CASE Outcome \/ AwaitFails
  BY <1>1, <1>6 DEF Outcome, AwaitFails, stack
<1>7. CASE Exit /\ UNCHANGED stack /\ UNCHANGED auctionLocals
  BY <1>7 DEF Exit, stack, auctionLocals, AuctionInv, AuctionAlarmsExplained, Running,
     OnHost
<1>8. CASE Stress /\ UNCHANGED auctionLocals
  <2>1. UNCHANGED <<world, round, minimum, layer>>
    BY <1>8 DEF Stress, L1Accounts, BridgeBefore, L2Before, SendDeposit,
       DepositReceipt, BridgeAfter, Poll, PollTimesOut, BridgeFinal, L2Accounts,
       L2BalanceRead, L2Pre, SendWithdrawal, WithdrawalReceipt, WithdrawFails, L2Post,
       Sends, ReceiptComes, stack, auctionLocals
  <2>2. Running /\ Scenario = "stress"
    BY <1>0, <1>8, WhereStress DEF Stress, At, L1Accounts, BridgeBefore, L2Before,
       SendDeposit, DepositReceipt, BridgeAfter, Poll, PollTimesOut, BridgeFinal,
       L2Accounts, L2BalanceRead, L2Pre, SendWithdrawal, WithdrawalReceipt,
       WithdrawFails, L2Post, Sends, ReceiptComes
  <2>3. /\ toRun' = toRun
        /\ findings' \subseteq findings \cup {"bridge_not_increased", "not_arrived",
                                          "bridge_decreased", "withdrawal_kept"}
    BY <1>8 DEF Stress, L1Accounts, BridgeBefore, L2Before, SendDeposit,
       DepositReceipt, BridgeAfter, Poll, PollTimesOut, BridgeFinal, L2Accounts,
       L2BalanceRead, L2Pre, SendWithdrawal, WithdrawalReceipt, WithdrawFails, L2Post,
       Sends, ReceiptComes, Proceeds, Report, If, JumpsTo, runner
  <2>4. findings' \cap (Wrongs \cup {"reserve_below_minimum"}) = {}
    BY <2>2, <2>3 DEF AuctionInv, Wrongs
  <2>5. QED
    BY <2>1, <2>2, <2>3, <2>4
       DEF AuctionInv, AuctionAlarmsExplained, Running, Scenario, Wrongs
<1>9. QED
  BY <1>2, <1>3, <1>4, <1>5, <1>6, <1>7, <1>8, Moves

\* An auction that is configured well and has begun is reported only if its
\* layer was missed, or if its floor was raised between two reads
\* (detect_auction_layer, check_reserve_prices).
THEOREM AuctionAlarmsTrue == Spec => []AuctionAlarmsExplained
<1>1. Init => AuctionInv
  <2>1. ASSUME Init PROVE world.round \in Nat
    BY <2>1, StackAssumption DEF Init, StackInit
  <2>2. QED
    BY <2>1 DEF Init, RunnerInit, StackInit, AuctionInv, AuctionAlarmsExplained
<1>2. LiveInv /\ AuctionInv /\ [Next]_vars => AuctionInv'
  BY AuctionStep
<1>3. AuctionInv => AuctionAlarmsExplained
  BY DEF AuctionInv
<1>4. QED
  BY <1>1, <1>2, <1>3, LiveInit, LiveStep, PTL DEF Spec

-----------------------------------------------------------------------------

\* What is known of the winners read, and of the judgement on them, where the
\* probe stands.  A failing read ends the loop early, not the judgement.
MonopolyInv ==
  /\ Running /\ Scenario = "timeboost" =>
       /\ pc <= 11 => "monopoly" \notin findings
       /\ pc = 11 => current >= 3 /\ (window = Lookback(current) \/ failures > 0)
       /\ pc = 12 =>
            /\ "monopoly" \in findings <=> Monopoly(winners)
            /\ \/ failures > 0
               \/ Len(winners) = IF current >= 3 THEN Lookback(current) ELSE 0
  /\ Running /\ Scenario # "timeboost" => "monopoly" \notin findings

\* One bidder won every round that had a winner, and three of them.
LEMMA MonopolyHasHolder ==
  ASSUME NEW seq \in Seq(Bidders \cup {"none"})
  PROVE  Monopoly(seq) <=>
           \E b \in Bidders :
             LET WonBy(w) == {i \in DOMAIN seq : seq[i] = w} IN
               Cardinality(WonBy(b)) >= 3 /\ WonBy(b) \cup WonBy("none") = DOMAIN seq
<1> DEFINE WonBy(w) == {i \in DOMAIN seq : seq[i] = w}
           won == {i \in DOMAIN seq : seq[i] # "none"}
<1>1. ASSUME Monopoly(seq)
      PROVE  \E b \in Bidders :
               Cardinality(WonBy(b)) >= 3 /\ WonBy(b) \cup WonBy("none") = DOMAIN seq
  <2>1. Cardinality(won) >= 3 /\ \A i, j \in won : seq[i] = seq[j]
    BY <1>1 DEF Monopoly
  <2>2. Cardinality({}) = 0
    BY FS_EmptySet
  <2>3. \E i \in DOMAIN seq : seq[i] # "none"
    <3>1. SUFFICES ASSUME \A i \in DOMAIN seq : seq[i] = "none" PROVE FALSE
      OBVIOUS
    <3>2. won = {}
      BY <3>1
    <3>3. Cardinality(won) = 0
      BY <2>2, <3>2
    <3>4. QED
      BY <2>1, <3>3
  <2>4. PICK i \in DOMAIN seq : seq[i] # "none"
    BY <2>3
  <2>5. seq[i] \in Bidders
    BY <2>4
  <2>6. WonBy(seq[i]) = won
    BY <2>1, <2>4
  <2>7. WonBy(seq[i]) \cup WonBy("none") = DOMAIN seq
    BY <2>6
  <2>8. QED
    BY <2>1, <2>5, <2>6, <2>7
<1>2. ASSUME NEW b \in Bidders, Cardinality(WonBy(b)) >= 3,
             WonBy(b) \cup WonBy("none") = DOMAIN seq
      PROVE  Monopoly(seq)
  <2>1. won = WonBy(b)
    BY <1>2, AuctionAssumption
  <2>2. QED
    BY <1>2, <2>1 DEF Monopoly
<1>3. QED
  BY <1>1, <1>2

\* The probe reads the winners and judges them.
LEMMA MonopolyProbeStep ==
  ASSUME LiveInv, MonopolyInv, [Next]_vars, Auction
  PROVE  MonopolyInv'
<1>0. /\ Scripted /\ pc \in 1 .. 16 /\ failures \in Nat /\ current \in Nat
      /\ round \in Nat /\ winners \in Seq(Bidders \cup {"none"}) /\ window \in Nat
  BY DEF LiveInv, TypeOK, StackTypeOK, AuctionTypeOK
<1>1. Running /\ Scenario = "timeboost" /\ StepNo("bid_receiver") = 12
  BY <1>0, AuctionReports, JumpTargets
<1>2. ASSUME NEW outcome, Ends(outcome) PROVE MonopolyInv'
  <2>1. findings' = {} /\ pc' = 1
    BY <1>2, EndsClean
  <2>2. QED
    BY <1>1, <2>1 DEF MonopolyInv
<1> DEFINE Inv ==
      /\ pc <= 11 => "monopoly" \notin findings
      /\ pc = 11 => current >= 3 /\ (window = Lookback(current) \/ failures > 0)
      /\ pc = 12 =>
           /\ "monopoly" \in findings <=> Monopoly(winners)
           /\ \/ failures > 0
              \/ Len(winners) = IF current >= 3 THEN Lookback(current) ELSE 0
<1>3. Inv
  BY <1>1 DEF MonopolyInv
<1>4. CASE AuctionAddr
  <2>1. CASE \E outcome : Ends(outcome)
    BY <1>2, <2>1
  <2>2. CASE Proceeds({})
    <3>1. pc' = 2 /\ findings' = findings /\ toRun' = toRun /\ pc = 1
      BY <1>0, <1>4, <2>2, WhereAuction DEF AuctionAddr, Proceeds, Report
    <3>2. QED
      BY <1>1, <1>3, <3>1 DEF MonopolyInv, Running, Scenario
  <2>3. QED
    BY <1>4, <2>1, <2>2 DEF AuctionAddr
<1> SUFFICES ASSUME ~AuctionAddr PROVE MonopolyInv'
  BY <1>4
<1>5. toRun' = toRun
  BY DEF Auction, Detect, RoundCheck, CheckAuction, ReadReserve, CheckMinimum,
     ReadRoundAgain, ReadWinner, ReadWinnerFails, CheckMonopoly, Proceeds, JumpsTo,
     runner
<1> SUFFICES Inv'
  BY <1>1, <1>5 DEF MonopolyInv, Running, Scenario
<1> USE DEF Proceeds, Report, JumpsTo, If, stack, auctionLocals, runner
<1>6. CASE Detect \/ RoundCheck \/ ReadReserve \/ CheckMinimum
  <2>1. /\ pc \in {3, 4, 8, 9} /\ pc' = pc + 1
        /\ findings' \subseteq findings \cup {"round", "reserve_below_minimum"}
    BY <1>0, <1>6, WhereAuction DEF Detect, RoundCheck, ReadReserve, CheckMinimum
  <2>2. QED
    BY <1>3, <2>1
<1>7. CASE CheckAuction
  <2>1. /\ pc \in {5, 6, 7, 12} /\ pc' = pc + 1
        /\ Step.name = TimeboostNames[pc]
        /\ findings' \subseteq findings \cup {Step.name}
    BY <1>0, <1>1, <1>7, WhereReads DEF CheckAuction
  <2>2. Step.name # "monopoly"
    BY <2>1 DEF TimeboostNames
  <2>3. QED
    BY <1>3, <2>1, <2>2
<1>8. CASE ReadRoundAgain
  <2>1. /\ pc = 10 /\ findings' = findings /\ current' = CurrentRound
        /\ winners' = <<>> /\ CurrentRound \in Nat
    BY <1>0, <1>8, WhereAuction DEF ReadRoundAgain, CurrentRound
  <2>2. \/ CurrentRound < 3 /\ pc' = 12
        \/ CurrentRound >= 3 /\ pc' = 11 /\ window' = Lookback(CurrentRound)
    BY <1>0, <1>1, <1>8, <2>1 DEF ReadRoundAgain
  <2>3. ~Monopoly(<<>>) /\ Len(<<>>) = 0
    <3>1. {i \in DOMAIN <<>> : <<>>[i] # "none"} = {}
      OBVIOUS
    <3>2. QED
      BY <3>1, FS_EmptySet DEF Monopoly
  <2>4. QED
    BY <1>3, <2>1, <2>2, <2>3
<1>9. CASE ReadWinner
  BY <1>0, <1>3, <1>9, WhereAuction DEF ReadWinner
<1>10. CASE ReadWinnerFails
  BY <1>0, <1>3, <1>10, WhereAuction DEF ReadWinnerFails, Fails
<1>11. CASE CheckMonopoly
  <2>1. /\ pc = 11 /\ pc' = 12 /\ UNCHANGED <<current, winners, failures>>
        /\ Len(winners) = window
        /\ findings' = findings \cup If(Monopoly(winners), "monopoly")
    BY <1>0, <1>11, WhereAuction DEF CheckMonopoly
  <2>2. "monopoly" \in findings' <=> Monopoly(winners)
    BY <1>3, <2>1
  <2>3. QED
    BY <1>3, <2>1, <2>2 DEF Monopoly
<1>12. QED
  BY <1>6, <1>7, <1>8, <1>9, <1>10, <1>11 DEF Auction

LEMMA MonopolyStep ==
  ASSUME LiveInv, MonopolyInv, [Next]_vars
  PROVE  MonopolyInv'
<1>0. Scripted /\ pc \in 1 .. 16
  BY DEF LiveInv, TypeOK
<1>1. ASSUME NEW outcome, Ends(outcome) PROVE MonopolyInv'
  <2>1. findings' = {} /\ pc' = 1
    BY <1>1, EndsClean
  <2>2. QED
    BY <2>1 DEF MonopolyInv
<1>2. CASE UNCHANGED vars
  BY <1>2 DEF vars, stack, runner, auctionLocals, MonopolyInv, Monopoly, Running,
     Scenario
<1>3. CASE Environment \/ Mining
  <2>1. UNCHANGED <<toRun, pc, findings, current, window, winners, failures>>
    BY <1>3 DEF Environment, runner, auctionLocals, Claim, Income, DepositArrives,
       RoundEnds, RaiseMinimum, Happens, Mining, DepositMined, WithdrawalMined
  <2>2. QED
    BY <2>1 DEF MonopolyInv, Monopoly, Running, Scenario
<1>4. CASE (Connect \/ CheckAnswer \/ CheckFails) /\ UNCHANGED auctionLocals
  <2>1. "monopoly" \notin ProbeNames \cup {"arbos_version"}
    BY DEF ProbeNames
  <2>2. PICK titles \in SUBSET (ProbeNames \cup {"arbos_version"}) :
          findings' = findings \cup titles
    BY <1>4, ReadsReport
  <2>3. /\ Running /\ toRun' = toRun /\ pc' = pc + 1
        /\ Scenario = "timeboost" => pc = 2
    BY <1>4, ReadsReport
  <2>4. QED
    BY <1>0, <2>1, <2>2, <2>3 DEF MonopolyInv, Running, Scenario
<1>5. CASE Auction
  BY <1>5, MonopolyProbeStep
<1>6. CASE Outcome \/ AwaitFails
  BY <1>1, <1>6 DEF Outcome, AwaitFails
<1>7. CASE Exit
  BY <1>7 DEF Exit, MonopolyInv, Running
<1>8. CASE Stress
  <2>1. Running /\ Scenario = "stress"
    BY <1>0, <1>8, WhereStress DEF Stress, At, L1Accounts, BridgeBefore, L2Before,
       SendDeposit, DepositReceipt, BridgeAfter, Poll, PollTimesOut, BridgeFinal,
       L2Accounts, L2BalanceRead, L2Pre, SendWithdrawal, WithdrawalReceipt,
       WithdrawFails, L2Post, Sends, ReceiptComes
  <2>2. /\ toRun' = toRun
        /\ findings' \subseteq findings \cup {"bridge_not_increased", "not_arrived",
                                          "bridge_decreased", "withdrawal_kept"}
    BY <1>8 DEF Stress, L1Accounts, BridgeBefore, L2Before, SendDeposit,
       DepositReceipt, BridgeAfter, Poll, PollTimesOut, BridgeFinal, L2Accounts,
       L2BalanceRead, L2Pre, SendWithdrawal, WithdrawalReceipt, WithdrawFails, L2Post,
       Sends, ReceiptComes, Proceeds, Report, If, JumpsTo, runner
  <2>3. QED
    BY <2>1, <2>2 DEF MonopolyInv, Running, Scenario
<1>9. QED
  BY <1>2, <1>3, <1>4, <1>5, <1>6, <1>7, <1>8, Moves

\* A monopoly is reported exactly if one bidder won three of the rounds that
\* were read and nobody else won any, however early the reading ended; and it
\* ends early only after a failure (check_monopolization).
THEOREM MonopolyReportsTrue == Spec => []MonopolyIsReal
<1>1. Init => MonopolyInv
  BY DEF Init, RunnerInit, MonopolyInv
<1>2. LiveInv /\ MonopolyInv /\ [Next]_vars => MonopolyInv'
  BY MonopolyStep
<1>3. LiveInv /\ MonopolyInv => MonopolyIsReal
  <2> SUFFICES ASSUME LiveInv, MonopolyInv, At("bid_receiver")
               PROVE  /\ "monopoly" \in findings <=>
                           \E b \in Bidders :
                             /\ Cardinality(Won(b)) >= 3
                             /\ Won(b) \cup Won("none") = DOMAIN winners
                      /\ failures = 0 =>
                           Len(winners) = (IF current >= 5 THEN 5 ELSE
                                           IF current >= 3 THEN current ELSE 0)
    BY DEF MonopolyIsReal
  <2>1. /\ Running /\ Scenario = "timeboost" /\ pc = 12
        /\ winners \in Seq(Bidders \cup {"none"}) /\ current \in Nat
    BY WhereAuction DEF LiveInv, TypeOK, AuctionTypeOK, At
  <2>2. Monopoly(winners) <=>
          \E b \in Bidders :
            Cardinality(Won(b)) >= 3 /\ Won(b) \cup Won("none") = DOMAIN winners
    BY <2>1, MonopolyHasHolder DEF Won
  <2>3. "monopoly" \in findings <=> Monopoly(winners)
    BY <2>1 DEF MonopolyInv
  <2>4. failures = 0 => Len(winners) = IF current >= 3 THEN Lookback(current) ELSE 0
    BY <2>1 DEF MonopolyInv
  <2>5. Lookback(current) = IF current >= 5 THEN 5 ELSE current
    BY <2>1 DEF Lookback
  <2>6. failures = 0 => Len(winners) = (IF current >= 5 THEN 5 ELSE
                                        IF current >= 3 THEN current ELSE 0)
    BY <2>1, <2>4, <2>5
  <2>7. QED
    BY <2>2, <2>3, <2>6
<1>4. QED
  BY <1>1, <1>2, <1>3, LiveInit, LiveStep, PTL DEF Spec

-----------------------------------------------------------------------------

\* A run is spoilt once it cannot end with exit code 0.  While it is not, every
\* step that lies behind the runner was answered as a healthy stack answers it.
Spoilt == reported # {} \/ \E k \in DOMAIN outcomes : outcomes[k] # "passed"

ScriptOf(s) == Script[Registry[s].name]

Behind(s, p) == s \notin toRun \/ (s = Min(toRun) /\ p < pc)

Answered(step) ==
  /\ step.kind = "check" =>
       \/ step.l3 /\ ~world.l3
       \/ Answer(step.name) \notin step.bad
       \/ step.fails \notin {"leaves", "reports"} /\ failures > 0
  /\ step.kind = "auction" /\ world.auction_arg = "valid" =>
       ~Reported(step.name, step.bad)
  /\ step.name = "auction_addr" => world.auction_arg # "invalid"
  /\ step.name = "round" /\ world.auction_arg = "valid" => OnHost /\ round > 0

AllAnswered ==
  \A s \in Selected : \A p \in DOMAIN ScriptOf(s) : Behind(s, p) => Answered(ScriptOf(s)[p])

\* A deposit on its way is awaited, or the account was paid by somebody else.
DepositAwaited ==
  /\ deposit = "flying" =>
       "income" \in since \/ (Running /\ Scenario = "stress" /\ pc \in {5, 6, 7})
  /\ transaction = "deposit" => Running /\ Scenario = "stress" /\ pc = 5

HealthInv ==
  /\ toRun \subseteq Selected
  /\ Spoilt \/ (AllAnswered /\ DepositAwaited)

LEMMA SpoiltStays ==
  ASSUME LiveInv, [Next]_vars, Spoilt
  PROVE  Spoilt'
<1>0. outcomes \in Seq(Outcomes)
  BY DEF LiveInv, TypeOK
<1>1. CASE UNCHANGED runner \/ Reports \/ Exit
  BY <1>1 DEF Spoilt, runner, Reports, Exit
<1>2. CASE EndsTruly
  <2>1. PICK outcome \in Outcomes : outcomes' = Append(outcomes, outcome) /\ reported' = reported
    BY <1>2 DEF EndsTruly, Ends
  <2>2. \A k \in DOMAIN outcomes : k \in DOMAIN outcomes' /\ outcomes'[k] = outcomes[k]
    BY <1>0, <2>1
  <2>3. QED
    BY <2>1, <2>2 DEF Spoilt
<1>3. QED
  BY <1>1, <1>2, KindsOfSteps

LEMMA ErrorSpoils ==
  ASSUME LiveInv, Ends("error")
  PROVE  Spoilt'
<1>1. outcomes \in Seq(Outcomes) /\ outcomes' = Append(outcomes, "error")
  BY DEF LiveInv, TypeOK, Ends
<1>2. Len(outcomes) + 1 \in DOMAIN outcomes' /\ outcomes'[Len(outcomes) + 1] = "error"
  BY <1>1
<1>3. QED
  BY <1>2 DEF Spoilt

LEMMA ReportSpoils ==
  ASSUME NEW condition, NEW title, Proceeds(If(condition, title)), condition
  PROVE  Spoilt'
  BY DEF Proceeds, Report, If, Spoilt

\* The names in the registry, and the steps that AllAnswered is not about.
LEMMA RegistryNames ==
  /\ Registry[4].name = "balance" /\ Registry[5].name = "health"
  /\ Registry[6].name = "precompile" /\ Registry[7].name = "stress"
  /\ Registry[8].name = "timeboost"
  BY DEF Registry

LEMMA Scripts ==
  /\ ScriptOf(4) = BalanceProbe /\ ScriptOf(5) = HealthProbe
  /\ ScriptOf(6) = PrecompileProbe /\ ScriptOf(7) = StressTest
  /\ ScriptOf(8) = TimeboostProbe
  BY RegistryNames DEF ScriptOf, Script

LEMMA PlainSteps ==
  ASSUME NEW s \in Quiet, NEW p \in DOMAIN ScriptOf(s)
  PROVE  /\ p \in Int /\ p >= 1
         /\ s # 8 => /\ ScriptOf(s)[p].kind \in {"do", "check"}
                     /\ ScriptOf(s)[p].name \notin {"auction_addr", "round"}
         /\ ScriptOf(s)[p].name \in {"connect", "outcome"} => ScriptOf(s)[p].kind = "do"
         /\ ScriptOf(s)[p].name = "outcome" => \A r \in DOMAIN ScriptOf(s) : r <= p
<1>1. CASE s \in {4, 5, 6}
  <2>1. Registry[s].name \in Probes /\ ScriptOf(s) = Script[Registry[s].name]
    BY <1>1, RegistryNames DEF Probes, ScriptOf
  <2>2. PICK n \in {8, 9} : DOMAIN ScriptOf(s) = 1 .. n
    BY <2>1, ProbeTable
  <2>3. /\ p = 1 => ScriptOf(s)[p].name = "connect" /\ ScriptOf(s)[p].kind = "do"
        /\ p # 1 /\ p + 1 \in 1 .. n => ScriptOf(s)[p].kind = "check"
        /\ p # 1 /\ p + 1 \notin 1 .. n =>
             ScriptOf(s)[p].name = "outcome" /\ ScriptOf(s)[p].kind = "do"
        /\ ScriptOf(s)[p].name \in ProbeNames
    BY <2>1, <2>2, ProbeTable
  <2>4. ScriptOf(s)[p].kind = "check" => ScriptOf(s)[p].name \notin {"connect", "outcome"}
    <3>1. CASE s = 4
      BY <3>1, Scripts DEF BalanceProbe, Do, Check, CheckL3
    <3>2. CASE s = 5
      BY <3>2, Scripts DEF HealthProbe, Do, Check, CheckL3
    <3>3. CASE s = 6
      BY <3>3, Scripts DEF PrecompileProbe, Do, Check, CheckL3
    <3>4. QED
      BY <1>1, <3>1, <3>2, <3>3
  <2>5. ScriptOf(s)[p].name \notin {"auction_addr", "round"}
    BY <2>3 DEF ProbeNames
  <2>6. QED
    BY <1>1, <2>2, <2>3, <2>4, <2>5
<1>2. CASE s = 7
  <2>1. ScriptOf(s) = StressTest /\ DOMAIN ScriptOf(s) = 1 .. 16
    BY <1>2, Scripts, StressTable
  <2>2. QED
    BY <1>2, <2>1, StressTable DEF StressNames
<1>3. CASE s = 8
  <2>1. ScriptOf(s) = TimeboostProbe /\ DOMAIN ScriptOf(s) = 1 .. 13
    BY <1>3, Scripts, TimeboostTable
  <2>2. QED
    BY <1>3, <2>1, TimeboostTable DEF TimeboostNames
<1>4. QED
  BY <1>1, <1>2, <1>3 DEF Quiet

\* Time goes on, and the layer is chosen once.
LEMMA OnlyForward ==
  ASSUME LiveInv, [Next]_vars
  PROVE  /\ world' = world /\ round' \in {round, round + 1}
         /\ failures' \in {failures, failures + 1}
         /\ layer' = layer \/ Detect
<1> USE DEF Fails, stack, auctionLocals
<1>1. world' = world
  BY WorldFixed
<1>2. CASE UNCHANGED vars
  BY <1>1, <1>2 DEF vars
<1>3. CASE Environment \/ Mining
  BY <1>1, <1>3 DEF Environment, Claim, Income, DepositArrives, RoundEnds, RaiseMinimum,
     Happens, Mining, DepositMined, WithdrawalMined
<1>4. CASE (Connect \/ CheckAnswer \/ CheckFails) /\ UNCHANGED auctionLocals
  BY <1>1, <1>4 DEF Connect, CheckAnswer, CheckFails
<1>5. CASE (Outcome \/ AwaitFails) /\ AuctionReset
  BY <1>1, <1>5 DEF Outcome, AwaitFails, AuctionReset
<1>6. CASE Exit /\ UNCHANGED stack /\ UNCHANGED auctionLocals
  BY <1>1, <1>6
<1>7. CASE Stress /\ UNCHANGED auctionLocals
  BY <1>1, <1>7 DEF Stress, L1Accounts, BridgeBefore, L2Before, SendDeposit,
     DepositReceipt, BridgeAfter, Poll, PollTimesOut, BridgeFinal, L2Accounts,
     L2BalanceRead, L2Pre, SendWithdrawal, WithdrawalReceipt, WithdrawFails, L2Post,
     Sends, ReceiptComes
<1>8. CASE Auction
  BY <1>1, <1>8 DEF Auction, AuctionAddr, Detect, RoundCheck, CheckAuction,
     ReadReserve, CheckMinimum, ReadRoundAgain, ReadWinner, ReadWinnerFails,
     CheckMonopoly
<1>9. AwaitFails => AuctionReset
  BY DEF AwaitFails
<1>10. QED
  BY <1>2, <1>3, <1>4, <1>5, <1>6, <1>7, <1>8, <1>9, Moves

LEMMA AnswerStays ==
  ASSUME LiveInv, [Next]_vars, NEW step, Answered(step),
         layer' = layer \/ (step.kind # "auction" /\ step.name # "round")
  PROVE  Answered(step)'
<1>1. /\ round \in Nat /\ failures \in Nat /\ world' = world
      /\ round' \in {round, round + 1} /\ failures' \in {failures, failures + 1}
  BY OnlyForward DEF LiveInv, TypeOK, StackTypeOK
<1>2. Answer(step.name)' = Answer(step.name)
  BY <1>1 DEF Answer
<1>3. CASE layer' = layer
  <2>1. OnHost' = OnHost
    BY <1>1, <1>3 DEF OnHost
  <2>2. Reported(step.name, step.bad)' <=> Reported(step.name, step.bad)
    BY <1>2, <2>1 DEF Reported, AuctionAnswer
  <2>3. step.kind = "check" =>
          \/ step.l3 /\ ~world'.l3
          \/ Answer(step.name)' \notin step.bad
          \/ step.fails \notin {"leaves", "reports"} /\ failures' > 0
    BY <1>1, <1>2 DEF Answered
  <2>4. step.name = "round" /\ world'.auction_arg = "valid" => OnHost' /\ round' > 0
    BY <1>1, <2>1 DEF Answered
  <2>5. QED
    BY <1>1, <2>2, <2>3, <2>4 DEF Answered
<1>4. CASE step.kind # "auction" /\ step.name # "round"
  <2>1. step.kind = "check" =>
          \/ step.l3 /\ ~world'.l3
          \/ Answer(step.name)' \notin step.bad
          \/ step.fails \notin {"leaves", "reports"} /\ failures' > 0
    BY <1>1, <1>2 DEF Answered
  <2>2. QED
    BY <1>1, <1>4, <2>1 DEF Answered
<1>5. QED
  BY <1>3, <1>4

LEMMA AnsweredStays ==
  ASSUME LiveInv, [Next]_vars, HealthInv, NEW s \in Selected,
         NEW p \in DOMAIN ScriptOf(s), Behind(s, p), Answered(ScriptOf(s)[p])
  PROVE  Answered(ScriptOf(s)[p])'
<1>0. Scripted /\ Selected \subseteq Quiet /\ (layer' = layer \/ Detect)
  BY OnlyForward DEF LiveInv, Selected, Registry, Quiet
<1>1. CASE Detect
  <2>1. Running /\ Scenario = "timeboost" /\ pc = 3
    BY <1>0, <1>1, WhereAuction DEF Detect, At
  <2>2. s = 8 => p < 3
    <3>1. PICK k \in Quiet : k = Min(toRun) /\ k \in toRun /\ Registry[k].name = "timeboost"
      BY <1>0, <2>1, ScenarioKnown DEF Scripted, Scenario
    <3>2. k = 8
      BY <3>1, RegistryNames DEF Quiet
    <3>3. QED
      BY <2>1, <3>1, <3>2 DEF Behind
  <2>3. ScriptOf(s)[p].kind # "auction" /\ ScriptOf(s)[p].name # "round"
    <3>1. CASE s # 8
      BY <1>0, <3>1, PlainSteps
    <3>2. CASE s = 8
      BY <2>2, <3>2, Scripts, TimeboostTable DEF TimeboostNames
    <3>3. QED
      BY <3>1, <3>2
  <2>4. QED
    BY <2>3, AnswerStays
<1>2. QED
  BY <1>0, <1>1, AnswerStays

\* The steps that a move of the runner leaves behind.
LEMMA LeftBehind ==
  ASSUME LiveInv, [Next]_vars, Running, ~Spoilt', ~Stays,
         NEW s \in Quiet, s = Min(toRun),
         NEW p \in DOMAIN ScriptOf(s), p >= pc, toRun' = toRun => p < pc'
  PROVE  Answered(ScriptOf(s)[p])'
<1>0. /\ Scripted /\ pc \in 1 .. 16 /\ p \in Int /\ world' = world /\ round \in Nat
      /\ failures \in Nat
  BY PlainSteps, WorldFixed DEF LiveInv, TypeOK, StackTypeOK
<1>1. /\ Step = ScriptOf(s)[pc] /\ pc \in DOMAIN ScriptOf(s)
      /\ Scenario = "stress" => s = 7
      /\ Scenario = "timeboost" => s = 8
  <2>1. Scenario = Registry[s].name
    BY DEF Scenario
  <2>2. Step = ScriptOf(s)[pc] /\ pc \in DOMAIN ScriptOf(s)
    BY <1>0, <2>1 DEF Step, ScriptOf, Scripted
  <2>3. QED
    BY <2>1, <2>2, RegistryNames DEF Quiet
<1>2. ASSUME ScriptOf(s)[p].kind = "do",
             ScriptOf(s)[p].name \notin {"auction_addr", "round"}
      PROVE  Answered(ScriptOf(s)[p])'
  BY <1>2 DEF Answered
<1>3. ASSUME pc' = pc + 1, toRun' = toRun PROVE p = pc /\ ScriptOf(s)[p] = Step
  BY <1>0, <1>1, <1>3
<1>4. CASE UNCHANGED vars \/ Environment \/ Mining \/ Exit
  BY <1>4 DEF vars, Environment, Mining, Exit, runner, Stays
<1>5. CASE AwaitFails
  BY <1>5, ErrorSpoils DEF AwaitFails
<1>6. CASE Connect
  <2>1. pc' = pc + 1 /\ toRun' = toRun /\ Step.name = "connect"
    BY <1>6 DEF Connect, At, Proceeds
  <2>2. ScriptOf(s)[p].name = "connect"
    BY <1>3, <2>1
  <2>3. QED
    BY <1>2, <2>2, PlainSteps
<1>7. CASE CheckAnswer \/ CheckFails
  <2>1. /\ pc' = pc + 1 /\ toRun' = toRun /\ Step.kind = "check"
    BY <1>7 DEF CheckAnswer, CheckFails, Proceeds
  <2>2. ScriptOf(s)[p] = Step /\ Step.name \notin {"auction_addr", "round"}
    BY <1>0, <1>3, <2>1, WhereReads DEF ProbeNames
  <2>3. CASE CheckAnswer
    <3>1. ~(~Skipped /\ Answer(Step.name) \in Step.bad)
      BY <2>3, ReportSpoils DEF CheckAnswer
    <3>2. (Step.l3 /\ ~world.l3) \/ Answer(Step.name) \notin Step.bad
      BY <3>1 DEF Skipped
    <3>3. Answer(ScriptOf(s)[p].name)' = Answer(ScriptOf(s)[p].name)
      BY <1>0 DEF Answer
    <3>4. QED
      BY <1>0, <2>1, <2>2, <3>2, <3>3 DEF Answered
  <2>4. CASE CheckFails
    <3>1. Step.fails \notin {"leaves", "reports"}
      BY <2>4, ReportSpoils DEF CheckFails
    <3>2. failures' > 0
      BY <1>0, <2>4 DEF CheckFails, Fails
    <3>3. QED
      BY <2>1, <2>2, <3>1, <3>2 DEF Answered
  <2>5. QED
    BY <1>7, <2>3, <2>4
<1>8. CASE Outcome
  <2>1. Step.name = "outcome"
    BY <1>8 DEF Outcome, At
  <2>2. p <= pc
    BY <1>1, <2>1, PlainSteps
  <2>3. p = pc
    BY <1>0, <2>2
  <2>4. QED
    BY <1>1, <1>2, <2>1, <2>3, PlainSteps
<1>9. CASE Stress
  <2>1. Scenario = "stress" /\ pc \in 2 .. 13
    BY <1>0, <1>9, WhereStress DEF Stress, L1Accounts, BridgeBefore, L2Before,
       SendDeposit, DepositReceipt, BridgeAfter, Poll, PollTimesOut, BridgeFinal,
       L2Accounts, L2BalanceRead, L2Pre, SendWithdrawal, WithdrawalReceipt,
       WithdrawFails, L2Post, Sends, ReceiptComes
  <2>2. StepNo("l2_accounts") = 9 /\ StepNo("arb_block_number") = 14
    BY <1>0, <2>1, JumpTargets
  <2>3. toRun' = toRun /\ pc' \in {pc, pc + 1, 9, 14}
    BY <1>9, <2>2 DEF Stress, L1Accounts, BridgeBefore, L2Before, SendDeposit,
       DepositReceipt, BridgeAfter, Poll, PollTimesOut, BridgeFinal, L2Accounts,
       L2BalanceRead, L2Pre, SendWithdrawal, WithdrawalReceipt, WithdrawFails, L2Post,
       Sends, ReceiptComes, Proceeds, JumpsTo, runner
  <2>4. p \in 2 .. 13 /\ ScriptOf(s) = StressTest
    BY <1>0, <1>1, <2>1, <2>3, Scripts
  <2>5. QED
    BY <1>2, <2>4, StressTable DEF StressNames
<1>10. CASE Auction
  <2>1. /\ Scenario = "timeboost" /\ s = 8 /\ ScriptOf(s) = TimeboostProbe
        /\ StepNo("bid_receiver") = 12 /\ p \in 1 .. 13
    BY <1>0, <1>1, <1>10, AuctionReports, JumpTargets, Scripts, TimeboostTable
  <2>2. CASE AuctionAddr
    <3>1. world.auction_arg # "invalid"
      BY <2>2, ErrorSpoils DEF AuctionAddr
    <3>2. CASE world.auction_arg = "none"
      <4>1. ScriptOf(s)[p].kind # "check"
        BY <2>1, TimeboostTable
      <4>2. QED
        BY <1>0, <3>2, <4>1 DEF Answered
    <3>3. CASE Proceeds({})
      <4>1. pc = 1 /\ pc' = 2 /\ toRun' = toRun
        BY <1>0, <2>2, <3>3, WhereAuction DEF AuctionAddr, Proceeds
      <4>2. ScriptOf(s)[p].kind = "do" /\ ScriptOf(s)[p].name # "round"
        BY <1>0, <2>1, <4>1, TimeboostTable DEF TimeboostNames
      <4>3. QED
        BY <1>0, <3>1, <4>2 DEF Answered
    <3>4. QED
      BY <2>2, <3>1, <3>2, <3>3 DEF AuctionAddr
  <2>3. CASE RoundCheck
    <3>1. pc = 4 /\ p = 4 /\ UNCHANGED <<round, layer>>
      BY <1>0, <1>3, <2>3, WhereAuction DEF RoundCheck, Proceeds, stack, auctionLocals
    <3>2. CurrentRound # 0
      BY <2>3, ReportSpoils DEF RoundCheck
    <3>3. OnHost' /\ round' > 0
      BY <1>0, <3>1, <3>2 DEF CurrentRound, OnHost
    <3>4. ScriptOf(s)[p].kind = "do" /\ ScriptOf(s)[p].name = "round"
      BY <2>1, <3>1, TimeboostTable DEF TimeboostNames
    <3>5. QED
      BY <3>3, <3>4 DEF Answered
  <2>4. CASE CheckAuction
    <3>1. /\ pc' = pc + 1 /\ toRun' = toRun /\ Step.kind = "auction"
          /\ Step.name = TimeboostNames[pc] /\ pc \in {5, 6, 7, 12}
          /\ UNCHANGED <<world, layer>>
      BY <1>0, <2>4, WhereReads DEF CheckAuction, Proceeds, stack, auctionLocals
    <3>2. Step = ScriptOf(s)[p] /\ Step.name \notin {"auction_addr", "round"}
      BY <1>3, <3>1 DEF TimeboostNames
    <3>3. ~Reported(Step.name, Step.bad)
      BY <2>4, ReportSpoils DEF CheckAuction
    <3>4. ~Reported(ScriptOf(s)[p].name, ScriptOf(s)[p].bad)'
      BY <3>1, <3>2, <3>3 DEF Reported, AuctionAnswer, Answer, OnHost
    <3>5. QED
      BY <3>1, <3>2, <3>4 DEF Answered
  <2>5. CASE Detect \/ ReadReserve \/ CheckMinimum \/ ReadRoundAgain \/ ReadWinner
               \/ ReadWinnerFails \/ CheckMonopoly
    <3>1. /\ pc \in {3, 8, 9, 10, 11} /\ toRun' = toRun
          /\ pc' \in {pc, pc + 1} \/ (pc = 10 /\ pc' = 12)
      BY <1>0, <2>1, <2>5, WhereAuction DEF Detect, ReadReserve, CheckMinimum,
         ReadRoundAgain, ReadWinner, ReadWinnerFails, CheckMonopoly, Proceeds, JumpsTo,
         runner
    <3>2. p \in {3, 8, 9, 10, 11}
      BY <1>0, <3>1
    <3>3. QED
      BY <1>2, <2>1, <3>2, TimeboostTable DEF TimeboostNames
  <2>6. QED
    BY <1>10, <2>2, <2>3, <2>4, <2>5 DEF Auction
<1>11. QED
  BY <1>4, <1>5, <1>6, <1>7, <1>8, <1>9, <1>10, Moves

LEMMA AllAnsweredStep ==
  ASSUME LiveInv, HealthInv, AllAnswered, [Next]_vars, ~Spoilt'
  PROVE  AllAnswered'
<1>0. /\ Scripted /\ Selected' = Selected /\ Selected \subseteq Quiet /\ pc \in 1 .. 16
      /\ toRun \subseteq Selected
  BY WorldFixed DEF LiveInv, TypeOK, Selected, Registry, Quiet, HealthInv
<1> SUFFICES ASSUME NEW s \in Selected, NEW p \in DOMAIN ScriptOf(s), Behind(s, p)'
             PROVE  Answered(ScriptOf(s)[p])'
  BY <1>0 DEF AllAnswered
<1>1. s \in Quiet /\ p \in Int /\ p >= 1
  BY <1>0, PlainSteps
<1>2. CASE Behind(s, p)
  BY <1>2, AnsweredStays DEF AllAnswered
<1>3. CASE ~Behind(s, p)
  <2>1. s \in toRun /\ Running
    BY <1>3 DEF Behind, Running
  <2>2. ~Stays
    BY <1>3 DEF Behind, Stays
  <2>3. s = Min(toRun) /\ p >= pc /\ (toRun' = toRun => p < pc')
    <3>1. CASE Goes
      BY <1>0, <1>1, <1>3, <2>1, <3>1 DEF Goes, Behind
    <3>2. CASE Leaves
      <4>1. Min(toRun) \in toRun /\ toRun' = toRun \ {Min(toRun)} /\ pc' = 1
        BY <1>0, <2>1, <3>2, ScenarioKnown DEF Leaves, Scripted
      <4>2. s \notin toRun'
        BY <1>1, <4>1 DEF Behind
      <4>3. QED
        BY <1>0, <1>1, <1>3, <2>1, <4>1, <4>2 DEF Behind
    <3>3. QED
      BY <1>0, <2>2, <3>1, <3>2, ScriptSteps
  <2>4. QED
    BY <1>1, <2>1, <2>2, <2>3, LeftBehind
<1>4. QED
  BY <1>2, <1>3

\* The deposit.
LEMMA DepositStays ==
  ASSUME LiveInv, [Next]_vars, ~(Running /\ Scenario = "stress"),
         transaction # "deposit", deposit' = "flying"
  PROVE  deposit = "flying" /\ ("income" \in since => "income" \in since')
<1>0. Scripted
  BY DEF LiveInv
<1>1. CASE UNCHANGED vars
  BY <1>1 DEF vars, stack
<1>2. CASE Environment \/ Mining
  BY <1>2 DEF Environment, Claim, Income, DepositArrives, RoundEnds, RaiseMinimum,
              Happens, Mining, DepositMined, WithdrawalMined
<1>3. CASE Connect \/ CheckAnswer \/ CheckFails \/ Outcome \/ AwaitFails
             \/ (Exit /\ UNCHANGED stack)
  BY <1>3 DEF Connect, CheckAnswer, CheckFails, Outcome, AwaitFails, stack
<1>4. CASE Stress
  BY <1>0, <1>4, WhereStress DEF Stress, At, L1Accounts, BridgeBefore, L2Before,
     SendDeposit, DepositReceipt, BridgeAfter, Poll, PollTimesOut, BridgeFinal,
     L2Accounts, L2BalanceRead, L2Pre, SendWithdrawal, WithdrawalReceipt,
     WithdrawFails, L2Post, Sends, ReceiptComes
<1>5. CASE Auction
  <2>1. deposit' = deposit /\ since \subseteq since' \cup {"raise"}
    BY <1>5, AuctionReports
  <2>2. QED
    BY <2>1
<1>6. QED
  BY <1>1, <1>2, <1>3, <1>4, <1>5, Moves

LEMMA DepositPendingStep ==
  ASSUME LiveInv, DepositAwaited, [Next]_vars, ~Spoilt', transaction' = "deposit"
  PROVE  Running' /\ Scenario' = "stress" /\ pc' = 5
<1>0. Scripted /\ pc \in 1 .. 16
  BY DEF LiveInv, TypeOK
<1>1. CASE SendsAt(5, "deposit")
  BY <1>1 DEF SendsAt, InStress, Stays, Running, Scenario
<1>2. CASE Keeps
  <2>1. InStress(5)
    BY <1>2 DEF Keeps, DepositAwaited, InStress
  <2>2. CASE toRun' = toRun
    BY <1>2, <2>1, <2>2 DEF Keeps, InStress, Running, Scenario
  <2>3. CASE toRun' # toRun
    <3>1. Step.name = "send_deposit" /\ Step.kind = "do"
      <4>1. Step = StressTest[5]
        BY <1>0, <2>1, ScenarioKnown DEF InStress, Scripted, Step
      <4>2. QED
        BY <4>1, StressTable DEF StressNames
    <3>2. ~(UNCHANGED vars) /\ ~Environment /\ ~Mining /\ ~Exit
      BY <2>3 DEF vars, Environment, Mining, Exit, runner
    <3>3. ~(Connect \/ CheckAnswer \/ CheckFails \/ Outcome)
      BY <3>1 DEF Connect, CheckAnswer, CheckFails, Outcome, At
    <3>4. ~AwaitFails
      BY ErrorSpoils DEF AwaitFails
    <3>5. ~Auction
      BY <2>1, AuctionReports DEF InStress
    <3>6. ~Stress
      BY <2>3 DEF Stress, L1Accounts, BridgeBefore, L2Before, SendDeposit,
         DepositReceipt, BridgeAfter, Poll, PollTimesOut, BridgeFinal, L2Accounts,
         L2BalanceRead, L2Pre, SendWithdrawal, WithdrawalReceipt, WithdrawFails,
         L2Post, Sends, ReceiptComes, Proceeds, JumpsTo, runner
    <3>7. QED
      BY <3>2, <3>3, <3>4, <3>5, <3>6, Moves
  <2>4. QED
    BY <2>2, <2>3
<1>3. QED
  BY <1>0, <1>1, <1>2, TransactionMoves DEF SendsAt, ObtainsAt, Mines

LEMMA DepositAwaitedStep ==
  ASSUME LiveInv, WithdrawalInv, HealthInv, DepositAwaited, [Next]_vars, ~Spoilt'
  PROVE  DepositAwaited'
<1>5. transaction' = "deposit" => Running' /\ Scenario' = "stress" /\ pc' = 5
  BY DepositPendingStep DEF DepositAwaited
<1> SUFFICES ASSUME deposit' = "flying", "income" \notin since'
             PROVE  Running' /\ Scenario' = "stress" /\ pc' \in {5, 6, 7}
  BY <1>5 DEF DepositAwaited
<1>0. /\ Scripted /\ Scripted' /\ LiveInv' /\ WithdrawalInv' /\ pc \in 1 .. 16
      /\ pc' \in 1 .. 16 /\ findings' \subseteq reported'
  BY LiveStep, WithdrawalStep DEF LiveInv, TypeOK
<1>1. "not_arrived" \notin findings'
  BY <1>0 DEF Spoilt
<1>2. CASE Running' /\ Scenario' = "stress"
  <2>1. 7 \in toRun'
    <3>1. ASSUME toRun \subseteq Quiet, Running, Scenario = "stress" PROVE 7 \in toRun
      BY <3>1, ScenarioKnown
    <3>2. toRun' \subseteq Quiet
      BY <1>0 DEF Scripted
    <3>3. /\ Min(toRun') \in toRun'
          /\ Registry[Min(toRun')].name = "stress" <=> Min(toRun') = 7
      BY <1>2, <3>2, FirstOf DEF Running
    <3>4. QED
      BY <1>2, <3>3 DEF Scenario
  <2>2. pc' >= 5
    BY <1>0, <1>2, <2>1 DEF WithdrawalInv, StressBegun
  <2>3. ~(pc' >= 8)
    BY <1>0, <1>1, <1>2 DEF WithdrawalInv
  <2>4. QED
    BY <1>0, <1>2, <2>2, <2>3
<1>3. CASE ~(Running' /\ Scenario' = "stress")
  <2>1. CASE ~(Running /\ Scenario = "stress")
    BY <1>3, <2>1, DepositStays DEF DepositAwaited
  <2>2. CASE Running /\ Scenario = "stress"
    <3>1. ~Stays /\ ~Goes
      BY <1>3, <2>2 DEF Stays, Goes, Running, Scenario
    <3>2. Leaves /\ toRun' # toRun
      <4>1. Leaves
        BY <1>0, <3>1, ScriptSteps
      <4>2. QED
        BY <1>3, <2>2, <4>1 DEF Running, Scenario
    <3>3. Outcome /\ UNCHANGED stack
      <4>1. ~(UNCHANGED vars) /\ ~Environment /\ ~Mining /\ ~Exit
        BY <3>2 DEF vars, Environment, Mining, Exit, runner
      <4>2. ~AwaitFails
        BY ErrorSpoils DEF AwaitFails
      <4>3. ~(Connect \/ CheckAnswer \/ CheckFails)
        BY <3>2 DEF Connect, CheckAnswer, CheckFails, Proceeds
      <4>4. ~Stress
        BY <3>2 DEF Stress, L1Accounts, BridgeBefore, L2Before, SendDeposit,
           DepositReceipt, BridgeAfter, Poll, PollTimesOut, BridgeFinal, L2Accounts,
           L2BalanceRead, L2Pre, SendWithdrawal, WithdrawalReceipt, WithdrawFails,
           L2Post, Sends, ReceiptComes, Proceeds, JumpsTo, runner
      <4>5. ~Auction
        BY <2>2, AuctionReports
      <4>6. QED
        BY <4>1, <4>2, <4>3, <4>4, <4>5, Moves DEF Outcome
    <3>4. pc = 16
      BY <1>0, <2>2, <3>3, ScenarioKnown, StressTable
         DEF Outcome, At, Step, Scripted, StressNames
    <3>5. "not_arrived" \notin findings
      <4>1. reported' = reported /\ findings \subseteq reported
        BY <3>3 DEF Outcome, Ends, LiveInv, TypeOK
      <4>2. QED
        BY <4>1 DEF Spoilt
    <3>6. QED
      BY <2>2, <3>3, <3>4, <3>5 DEF WithdrawalInv, stack
  <2>3. QED
    BY <2>1, <2>2
<1>4. QED
  BY <1>2, <1>3

LEMMA HealthStep ==
  ASSUME LiveInv, WithdrawalInv, HealthInv, [Next]_vars
  PROVE  HealthInv'
<1>1. toRun' \subseteq Selected'
  <2>1. Selected' = Selected
    BY WorldFixed DEF Selected
  <2>2. toRun' \subseteq toRun
    BY ScriptSteps DEF LiveInv, Stays, Goes, Leaves
  <2>3. QED
    BY <2>1, <2>2 DEF HealthInv
<1>2. Spoilt' \/ (AllAnswered' /\ DepositAwaited')
  <2> SUFFICES ASSUME ~Spoilt' PROVE AllAnswered' /\ DepositAwaited'
    OBVIOUS
  <2>1. AllAnswered /\ DepositAwaited
    BY SpoiltStays DEF HealthInv
  <2>2. QED
    BY <2>1, AllAnsweredStep, DepositAwaitedStep
<1>3. QED
  BY <1>1, <1>2 DEF HealthInv

LEMMA HealthInit == Init => HealthInv
<1> SUFFICES ASSUME Init PROVE HealthInv
  OBVIOUS
<1>1. /\ toRun = Selected /\ pc = 1 /\ Selected \subseteq Quiet
      /\ deposit = "none" /\ transaction = "none"
  BY DEF Init, RunnerInit, StackInit, Selected, Registry, Quiet
<1>2. AllAnswered
  BY <1>1, PlainSteps DEF AllAnswered, Behind
<1>3. QED
  BY <1>1, <1>2 DEF HealthInv, DepositAwaited

\* Every wrong answer but those that are tolerated is reported by some check.
LEMMA Noticed ==
  ASSUME NEW q, NEW a, <<q, a>> \in WrongAnswers, q \notin Deprecated,
         q = "lifetime" => a = "zero"
  PROVE  \E s \in Quiet : \E p \in DOMAIN ScriptOf(s) :
           LET step == ScriptOf(s)[p] IN
             /\ step.name = q /\ a \in step.bad /\ step.kind \in {"check", "auction"}
             /\ step.kind = "check" => step.fails \in {"leaves", "reports"} \/ q = "lifetime"
             /\ step.l3 => q \in L3Queries
             /\ step.kind = "auction" => q \in AuctionQueries
<1> DEFINE Notices(s, p) ==
      /\ p \in DOMAIN ScriptOf(s)
      /\ LET step == ScriptOf(s)[p] IN
           /\ step.name = q /\ a \in step.bad /\ step.kind \in {"check", "auction"}
           /\ step.kind = "check" => step.fails \in {"leaves", "reports"} \/ q = "lifetime"
           /\ step.l3 => q \in L3Queries
           /\ step.kind = "auction" => q \in AuctionQueries
<1> SUFFICES \E s \in Quiet : \E p : Notices(s, p)
  OBVIOUS
<1>1. CASE <<q, a>> \in {<<"l1_dev_balance", "zero">>, <<"l2_dev_balance", "zero">>,
                         <<"l2_gas_price", "zero">>, <<"l3_height", "zero">>,
                         <<"l3_gas_price", "zero">>}
  <2>1. 4 \in Quiet /\ (Notices(4, 2) \/ Notices(4, 3) \/ Notices(4, 4) \/ Notices(4, 6)
                          \/ Notices(4, 7))
    BY <1>1, Scripts DEF BalanceProbe, Do, Check, CheckL3, L3Queries, Quiet
  <2>2. QED
    BY <2>1
<1>2. CASE <<q, a>> \in {<<"l1_advance", "same">>, <<"l1_advance", "less">>,
                         <<"l2_advance", "less">>, <<"l3_advance", "less">>,
                         <<"l2_gas_price", "high">>, <<"arb_block_number", "zero">>,
                         <<"arb_block_number", "short">>, <<"arb_block_number", "empty">>}
  <2>1. 5 \in Quiet /\ (Notices(5, 2) \/ Notices(5, 3) \/ Notices(5, 4) \/ Notices(5, 5)
                          \/ Notices(5, 6))
    BY <1>2, Scripts DEF HealthProbe, Do, Check, CheckL3, L3Queries, Quiet
  <2>2. QED
    BY <2>1
<1>3. CASE <<q, a>> \in {<<"l3_arb_block_number", "zero">>,
                         <<"l3_arb_block_number", "short">>,
                         <<"l3_arb_block_number", "empty">>, <<"prices", "short">>,
                         <<"prices", "partial">>, <<"prices", "empty">>,
                         <<"lifetime", "zero">>}
  <2>1. 6 \in Quiet /\ (Notices(6, 4) \/ Notices(6, 6) \/ Notices(6, 8))
    BY <1>3, Scripts DEF PrecompileProbe, Do, Check, CheckL3, L3Queries, Quiet
  <2>2. QED
    BY <2>1
<1>4. CASE <<q, a>> \in {<<"round_duration", "zero">>, <<"round_duration", "brief">>,
                         <<"round_start", "zero">>, <<"bid_receiver", "zero">>}
  <2>1. 8 \in Quiet /\ (Notices(8, 5) \/ Notices(8, 6) \/ Notices(8, 12))
    BY <1>4, Scripts
       DEF TimeboostProbe, Do, Check, AuctionCheck, AuctionQueries, Quiet
  <2>2. QED
    BY <2>1
<1>5. QED
  BY <1>1, <1>2, <1>3, <1>4 DEF WrongAnswers

LEMMA AllSelected ==
  ASSUME \A name \in DOMAIN Script : Selects(name)
  PROVE  Quiet \subseteq Selected
<1>1. Selected \subseteq Quiet
  BY DEF Selected, Registry, Quiet
<1>2. ASSUME NEW i \in Quiet, NEW k \in Quiet, Registry[i].name = Registry[k].name
      PROVE  i = k
  BY <1>2, RegistryNames DEF Quiet
<1>3. \A i \in Quiet : Registry[i].name \in DOMAIN Script
  BY RegistryNames DEF Script, Quiet
<1>4. QED
  BY <1>1, <1>2, <1>3 DEF Selects

\* With every scenario selected, exit code 0 says of every query that it is
\* answered well, or why it was not judged; of the auction, that it was found
\* and has begun; and of the deposit, that it is not on its way any more
\* (the checks of the five scenarios, cmd_run).
THEOREM ExitZeroTrue == Spec => []ExitZeroMeansHealthy
<1>1. Init => ExitInv /\ WithdrawalInv
  BY DEF Init, RunnerInit, StackInit, ExitInv, NoCode, WithdrawalInv,
     WithdrawalAlarmNeedsIncome
<1>2. ExitInv /\ [Next]_vars => ExitInv'
  BY KindsOfSteps, ExitStep
<1>3. LiveInv /\ ExitInv /\ HealthInv => ExitZeroMeansHealthy
  <2> SUFFICES ASSUME LiveInv, ExitInv, HealthInv, exit = 0
               PROVE  /\ (\A name \in DOMAIN Script : Selects(name)) =>
                           \A q \in DOMAIN world.ill : Unjudged(q)
                      /\ Selects("timeboost") /\ world.auction_arg = "valid" =>
                           OnHost /\ round > 0
                      /\ deposit = "flying" => "income" \in since
    BY DEF ExitZeroMeansHealthy
  <2>1. ~Running /\ ~Spoilt
    BY DEF ExitInv, Spoilt, NoCode
  <2>2. AllAnswered /\ DepositAwaited /\ Selected \subseteq Quiet /\ world \in Worlds
    BY <2>1 DEF HealthInv, Selected, Registry, Quiet, LiveInv, TypeOK, StackTypeOK
  <2>3. \A s \in Selected : \A p \in DOMAIN ScriptOf(s) : Answered(ScriptOf(s)[p])
    BY <2>1, <2>2 DEF AllAnswered, Behind, Running
  <2>4. deposit = "flying" => "income" \in since
    BY <2>1, <2>2 DEF DepositAwaited
  <2>5. 8 \in Selected =>
          /\ world.auction_arg # "invalid"
          /\ world.auction_arg = "valid" => OnHost /\ round > 0
    <3>1. /\ 1 \in DOMAIN ScriptOf(8) /\ ScriptOf(8)[1].name = "auction_addr"
          /\ 4 \in DOMAIN ScriptOf(8) /\ ScriptOf(8)[4].name = "round"
      BY Scripts, TimeboostTable DEF TimeboostNames
    <3>2. QED
      BY <2>3, <3>1 DEF Answered
  <2>6. Selects("timeboost") => 8 \in Selected
    BY <2>2, RegistryNames DEF Selects, Quiet
  <2>7. ASSUME \A name \in DOMAIN Script : Selects(name), NEW q \in DOMAIN world.ill,
               ~Unjudged(q)
        PROVE  FALSE
    <3>1. <<q, world.ill[q]>> \in WrongAnswers
      BY <2>2, StackAssumption
    <3>2. PICK s \in Quiet : \E p \in DOMAIN ScriptOf(s) :
            LET step == ScriptOf(s)[p] IN
              /\ step.name = q /\ world.ill[q] \in step.bad
              /\ step.kind \in {"check", "auction"}
              /\ step.kind = "check" =>
                   step.fails \in {"leaves", "reports"} \/ q = "lifetime"
              /\ step.l3 => q \in L3Queries
              /\ step.kind = "auction" => q \in AuctionQueries
      BY <2>7, <3>1, Noticed DEF Unjudged
    <3>3. PICK p \in DOMAIN ScriptOf(s) :
            LET step == ScriptOf(s)[p] IN
              /\ step.name = q /\ world.ill[q] \in step.bad
              /\ step.kind \in {"check", "auction"}
              /\ step.kind = "check" =>
                   step.fails \in {"leaves", "reports"} \/ q = "lifetime"
              /\ step.l3 => q \in L3Queries
              /\ step.kind = "auction" => q \in AuctionQueries
      BY <3>2
    <3>4. s \in Selected /\ 8 \in Selected /\ Answered(ScriptOf(s)[p])
      BY <2>3, <2>7, AllSelected DEF Quiet
    <3>5. Answer(q) = world.ill[q]
      BY <2>7 DEF Answer
    <3>6. CASE ScriptOf(s)[p].kind = "check"
      BY <2>7, <3>3, <3>4, <3>5, <3>6 DEF Answered, Unjudged
    <3>7. CASE ScriptOf(s)[p].kind = "auction"
      <4>1. world.auction_arg = "valid"
        <5>1. world.auction_arg \in {"none", "invalid", "valid"}
          BY <2>2, StackAssumption
        <5>2. QED
          BY <2>5, <2>7, <3>3, <3>4, <3>7, <5>1 DEF Unjudged
      <4>2. OnHost
        BY <2>5, <3>4, <4>1
      <4>3. QED
        BY <3>3, <3>4, <3>5, <3>7, <4>1, <4>2 DEF Answered, Reported, AuctionAnswer
    <3>8. QED
      BY <3>3, <3>6, <3>7
  <2>8. QED
    BY <2>4, <2>5, <2>6, <2>7
<1>4. LiveInv /\ WithdrawalInv /\ [Next]_vars => WithdrawalInv'
  BY WithdrawalStep
<1>5. LiveInv /\ WithdrawalInv /\ HealthInv /\ [Next]_vars => HealthInv'
  BY HealthStep
<1>6. QED
  BY <1>1, <1>2, <1>3, <1>4, <1>5, HealthInit, LiveInit, LiveStep, PTL DEF Spec

=============================================================================

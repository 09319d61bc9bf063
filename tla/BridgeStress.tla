---------------------------- MODULE BridgeStress ----------------------------
(***************************************************************************)
(* The bridge stress test (r30rg-scenarios/src/bridge_stress.rs): deposit  *)
(* through the Inbox, withdraw through ArbSys, compare balances.  Every    *)
(* balance is a read of its own, and the chains go on between two of them. *)
(* A balance is in units of the withdrawal; gas is left out.               *)
(***************************************************************************)
EXTENDS LiveProbes

VARIABLES
  bridgeBefore,   \* bridge_bal_before
  l2Before,       \* l2_bal_before of the deposit, pre_balance of the withdrawal
  polled          \* the loop that waits for the deposit has polled once

readings == <<bridgeBefore, l2Before, polled>>

StressTypeOK ==
  /\ bridgeBefore \in Nat
  /\ l2Before \in Int
  /\ polled \in BOOLEAN

StressInit == bridgeBefore = 0 /\ l2Before = 0 /\ polled = FALSE

\* The locals go out of scope with the scenario.
StressReset == bridgeBefore' = 0 /\ l2Before' = 0 /\ polled' = FALSE

L2Balance == wallet[world.l2_account]

\* Mutants of the operators below.
DepositShortByNone == bridge <= bridgeBefore + DepositValue
DepositArrivedEqual == wallet["dev"] >= l2Before

DepositShort == bridge < bridgeBefore + DepositValue

DepositArrived == wallet["dev"] > l2Before

WithdrawalKept == L2Balance >= l2Before

-----------------------------------------------------------------------------

L1Accounts ==
  /\ At("l1_accounts")
  /\ IF world.bridge_args /\ world.l1_account # "none"
     THEN Proceeds({})
     ELSE JumpsTo(StepNo("l2_accounts"))
  /\ UNCHANGED <<stack, readings>>

BridgeBefore ==
  /\ At("bridge_before")
  /\ bridgeBefore' = bridge
  /\ since' = since \ {"claim", "income"}
  /\ Proceeds({})
  /\ UNCHANGED <<world, bridge, wallet, transaction, deposit, round, reserve,
                 minimum, events, failures, l2Before, polled>>

L2Before ==
  /\ At("l2_before")
  /\ l2Before' = wallet["dev"]
  /\ Proceeds({})
  /\ UNCHANGED <<stack, bridgeBefore, polled>>

\* send_transaction hands the transaction over and then waits for its receipt,
\* for as long as it takes.
Sends(kind) ==
  /\ transaction = "none" /\ transaction' = kind
  /\ UNCHANGED <<world, bridge, wallet, deposit, round, reserve, minimum,
                 events, failures, since, runner, readings>>

ReceiptComes ==
  /\ transaction = "mined" /\ transaction' = "none"
  /\ Proceeds({})
  /\ UNCHANGED <<world, bridge, wallet, deposit, round, reserve, minimum,
                 events, failures, since, readings>>

SendDeposit == At("send_deposit") /\ Sends("deposit")

DepositReceipt == At("send_deposit") /\ ReceiptComes

BridgeAfter ==
  /\ At("bridge_after")
  /\ Proceeds(If(DepositShort, "bridge_not_increased"))
  /\ polled' = FALSE
  /\ UNCHANGED <<stack, bridgeBefore, l2Before>>

Poll ==
  /\ At("poll")
  /\ IF DepositArrived THEN Proceeds({}) /\ UNCHANGED polled
                       ELSE polled' = TRUE /\ UNCHANGED runner
  /\ UNCHANGED <<stack, bridgeBefore, l2Before>>

\* Mutant of PollTimesOut: the clock is only looked at after an arrival.
PollForever ==
  /\ At("poll") /\ polled /\ DepositArrived
  /\ Proceeds({"not_arrived"})
  /\ UNCHANGED <<stack, readings>>

\* The 60 s are over; the first poll is made before the clock has moved.
PollTimesOut ==
  /\ At("poll") /\ polled
  /\ Proceeds({"not_arrived"})
  /\ UNCHANGED <<stack, readings>>

BridgeFinal ==
  /\ At("bridge_final")
  /\ Proceeds(If(bridge < bridgeBefore, "bridge_decreased"))
  /\ UNCHANGED <<stack, readings>>

L2Accounts ==
  /\ At("l2_accounts")
  /\ IF world.l2_account # "none" THEN Proceeds({})
                                  ELSE JumpsTo(StepNo("arb_block_number"))
  /\ UNCHANGED <<stack, readings>>

\* Nothing, or less than the withdrawal: the test is skipped.
L2BalanceRead ==
  /\ At("l2_balance")
  /\ IF L2Balance >= 1 THEN Proceeds({})
                       ELSE JumpsTo(StepNo("arb_block_number"))
  /\ UNCHANGED <<stack, readings>>

L2Pre ==
  /\ At("l2_pre")
  /\ l2Before' = L2Balance
  /\ Proceeds({})
  /\ UNCHANGED <<stack, bridgeBefore, polled>>

SendWithdrawal == At("withdraw") /\ Sends("withdrawal")

WithdrawalReceipt == At("withdraw") /\ ReceiptComes

\* A failing withdrawal is passed over; if it was sent, it may yet be mined.
WithdrawFails ==
  /\ At("withdraw")
  /\ Fails
  /\ JumpsTo(StepNo("arb_block_number"))
  /\ UNCHANGED <<world, bridge, wallet, transaction, deposit, round, reserve,
                 minimum, events, since, readings>>

L2Post ==
  /\ At("l2_post")
  /\ Proceeds(If(WithdrawalKept, "withdrawal_kept"))
  /\ UNCHANGED <<stack, readings>>

Stress ==
  \/ L1Accounts \/ BridgeBefore \/ L2Before \/ SendDeposit \/ DepositReceipt
  \/ BridgeAfter \/ Poll \/ PollTimesOut \/ BridgeFinal \/ L2Accounts
  \/ L2BalanceRead \/ L2Pre \/ SendWithdrawal \/ WithdrawalReceipt
  \/ WithdrawFails \/ L2Post

-----------------------------------------------------------------------------

\* "Bridge balance did not increase after deposit" and "Bridge balance
\* decreased without completed withdrawal" are reported only when a completed
\* withdrawal was paid out between two reads of the bridge (test_deposit).
BridgeAlarmMeansClaim ==
  findings \cap {"bridge_not_increased", "bridge_decreased"} # {} =>
    "claim" \in since

\* "L2 balance did not decrease after withdrawal" is wrong if the account was
\* paid meanwhile.  Unless somebody else paid it, it was the test's own
\* deposit, which came too late and was reported already (test_withdrawal).
WithdrawalAlarmNeedsIncome ==
  "withdrawal_kept" \in findings /\ "income" \notin since =>
    /\ world.l2_account = "dev" /\ deposit = "arrived"
    /\ "not_arrived" \in findings

=============================================================================

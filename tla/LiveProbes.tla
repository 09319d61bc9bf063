----------------------------- MODULE LiveProbes -----------------------------
(***************************************************************************)
(* The non-destructive scenarios of r30rg-scenarios as scripts of steps,   *)
(* and the steps that only read and judge an answer: all of the balance,   *)
(* health and precompile probes (bridge_adversarial.rs,                    *)
(* invariant_probe.rs, retryable_probe.rs), and the last checks of the     *)
(* bridge stress test.  A step stands for the awaits up to the next check. *)
(***************************************************************************)
EXTENDS LiveRunner

\* A step of its own action.
Do(name) == [kind |-> "do", name |-> name, bad |-> {}, fails |-> "leaves",
             l3 |-> FALSE]

\* A read with the answers that are reported.  A failing read leaves the
\* scenario, is reported as well, or is passed over.
Check(query, bad, fails) ==
  [kind |-> "check", name |-> query, bad |-> bad, fails |-> fails, l3 |-> FALSE]

\* The same on L3, skipped without one.
CheckL3(query, bad, fails) == [Check(query, bad, fails) EXCEPT !.l3 = TRUE]

\* A read of the auction contract.
AuctionCheck(query, bad) == [Check(query, bad, "leaves") EXCEPT !.kind = "auction"]

BalanceProbe ==
  <<Do("connect"),
    Check("l1_dev_balance", {"zero"}, "leaves"),
    Check("l2_dev_balance", {"zero"}, "leaves"),
    Check("l2_gas_price", {"zero"}, "leaves"),
    Check("arb_block_number", {"zero", "empty"}, "leaves"),
    CheckL3("l3_height", {"zero"}, "leaves"),
    CheckL3("l3_gas_price", {"zero"}, "leaves"),
    Do("outcome")>>

\* The heights are read twice: the answer is how the second compares.
HealthProbe ==
  <<Do("connect"),
    Check("l1_advance", {"same", "less"}, "leaves"),
    Check("l2_advance", {"less"}, "leaves"),
    CheckL3("l3_advance", {"less"}, "leaves"),
    Check("l2_gas_price", {"zero", "high"}, "leaves"),
    Check("arb_block_number", {"zero", "short", "empty"}, "leaves"),
    Check("prices", {"short", "empty"}, "leaves"),
    CheckL3("l3_arb_block_number", {"zero", "empty"}, "leaves"),
    Do("outcome")>>

PrecompileProbe ==
  <<Do("connect"),
    Check("arb_block_number", {"short", "empty"}, "leaves"),
    Check("arb_chain_id", {}, "passes"),
    Check("prices", {"short", "partial", "empty"}, "leaves"),
    Check("l1_base_fee", {}, "passes"),
    Check("lifetime", {"zero"}, "passes"),
    Check("aggregator", {}, "passes"),
    CheckL3("l3_arb_block_number", {"zero", "short", "empty"}, "reports"),
    Do("outcome")>>

StressTest ==
  <<Do("connect"), Do("l1_accounts"), Do("bridge_before"), Do("l2_before"),
    Do("send_deposit"), Do("bridge_after"), Do("poll"), Do("bridge_final"),
    Do("l2_accounts"), Do("l2_balance"), Do("l2_pre"), Do("withdraw"),
    Do("l2_post"),
    Check("arb_block_number", {"zero", "empty"}, "leaves"),
    Check("arbos_version", {}, "passes"),
    Do("outcome")>>

TimeboostProbe ==
  <<Do("auction_addr"), Do("connect"), Do("detect"), Do("round"),
    AuctionCheck("round_duration", {"zero", "brief"}),
    AuctionCheck("round_start", {"zero"}),
    AuctionCheck("controller", {}),
    Do("reserve"), Do("minimum"), Do("round_again"), Do("winners"),
    AuctionCheck("bid_receiver", {"zero"}),
    Do("outcome")>>

\* Mutant of Script: 32 bytes are enough for the six prices.
ScriptShortPrices ==
  [balance    |-> BalanceProbe,
   health     |-> HealthProbe,
   precompile |-> [PrecompileProbe EXCEPT ![4].bad = {"short", "empty"}],
   stress     |-> StressTest,
   timeboost  |-> TimeboostProbe]

Script ==
  [balance    |-> BalanceProbe,
   health     |-> HealthProbe,
   precompile |-> PrecompileProbe,
   stress     |-> StressTest,
   timeboost  |-> TimeboostProbe]

Step == Script[Scenario][pc]

At(name) == Running /\ Step.name = name

\* Where a step of the script is.
StepNo(name) ==
  CHOOSE i \in DOMAIN Script[Scenario] : Script[Scenario][i].name = name

If(condition, title) == IF condition THEN {title} ELSE {}

Skipped == Step.l3 /\ ~world.l3

-----------------------------------------------------------------------------

\* RpcHarness::connect asks every layer for its chain id.
Connect ==
  /\ At("connect")
  /\ Proceeds({})
  /\ UNCHANGED stack

CheckAnswer ==
  /\ Running /\ Step.kind = "check"
  /\ Proceeds(If(~Skipped /\ Answer(Step.name) \in Step.bad, Step.name))
  /\ UNCHANGED stack

\* The call fails and the code matches on the result.
CheckFails ==
  /\ Running /\ Step.kind = "check"
  /\ ~Skipped /\ Step.fails # "leaves"
  /\ Fails
  /\ Proceeds(If(Step.fails = "reports", Step.name))
  /\ UNCHANGED <<world, bridge, wallet, transaction, deposit, round, reserve,
                 minimum, events, since>>

Outcome ==
  /\ At("outcome")
  /\ Ends(IntoOutcome)
  /\ UNCHANGED stack

=============================================================================

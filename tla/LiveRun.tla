------------------------------- MODULE LiveRun ------------------------------
(***************************************************************************)
(* `r30rg run all --non-destructive`: the runner, the five scenarios that  *)
(* leave the containers alone, and the stack they ask.  A scenario trusts  *)
(* what it read some awaits ago, and a `?` throws away what it has found;  *)
(* the properties ask what its findings and the exit code mean             *)
(* nevertheless.                                                           *)
(***************************************************************************)
EXTENDS BridgeStress, AuctionProbe

vars == <<stack, runner, readings, auctionLocals>>

TypeOK ==
  /\ StackTypeOK /\ StressTypeOK /\ AuctionTypeOK
  /\ pc \in 1 .. 16
  /\ toRun \subseteq DOMAIN Registry /\ outcomes \in Seq(Outcomes)
  /\ exit \in {NoCode, 0, 1}
  /\ findings \subseteq reported

Init == StackInit /\ RunnerInit /\ StressInit /\ AuctionInit

-----------------------------------------------------------------------------

\* Steps that cannot fail, or whose errors are matched on.
Infallible ==
  \/ Step.kind = "check" /\ (Skipped \/ Step.fails # "leaves")
  \/ Step.name \in {"auction_addr", "detect", "withdraw", "winners", "outcome"}
  \/ Step.name = "l1_accounts" /\ ~world.bridge_args

\* The `?` of an await: the error leaves the scenario, and its context is
\* dropped.
AwaitFails ==
  /\ Running /\ ~Infallible
  /\ Fails
  /\ Ends("error")
  /\ StressReset /\ AuctionReset
  /\ UNCHANGED <<world, bridge, wallet, transaction, deposit, round, reserve,
                 minimum, events, since>>

Runner ==
  \/ (Connect \/ CheckAnswer \/ CheckFails) /\ UNCHANGED <<readings, auctionLocals>>
  \/ Outcome /\ StressReset /\ AuctionReset
  \/ Stress /\ UNCHANGED auctionLocals
  \/ Auction /\ UNCHANGED readings
  \/ AwaitFails
  \/ Exit /\ UNCHANGED <<stack, readings, auctionLocals>>

\* The events that the running scenario may notice.  Before it, an event would
\* only be another initial value; after it, nobody looks.
Environment ==
  /\ Running
  /\ \/ Scenario = "stress" /\ (Claim \/ Income)
     \/ Scenario = "timeboost" /\ (RoundEnds \/ RaiseMinimum)
     \/ DepositArrives
  /\ UNCHANGED <<runner, readings, auctionLocals>>

\* A transaction may be mined after its sender has given up.
Mining ==
  /\ DepositMined \/ WithdrawalMined
  /\ UNCHANGED <<runner, readings, auctionLocals>>

Next == Runner \/ Environment \/ Mining

\* One scenario is awaited after the other, every request is answered, and the
\* minute of the poll passes.  The wait for a receipt has no timeout: it returns
\* because the chains mine what they are sent, which is an assumption about
\* them and not about the code.
Spec == Init /\ [][Next]_vars /\ WF_vars(Runner) /\ WF_vars(Mining)

-----------------------------------------------------------------------------

\* Exit code 0 is given only if no scenario reported anything, although a
\* finding is lost when a later await of the same scenario fails: the error
\* that drops it is counted too (ScenarioContext, cmd_run).
ExitTellsTruth == exit = 0 => reported = {} /\ ~Contains(outcomes, "error")

L3Queries == {"l3_height", "l3_gas_price", "l3_advance", "l3_arb_block_number"}

AuctionQueries == {"round_duration", "round_start", "bid_receiver"}

\* A query that no check judges, or that is asked only with arguments that
\* were not given.  Of the ticket lifetime only 0 is noticed, and not if the
\* call fails.
Unjudged(q) ==
  \/ q \in Deprecated
  \/ q \in L3Queries /\ ~world.l3
  \/ q \in AuctionQueries /\ world.auction_arg = "none"
  \/ q = "lifetime" /\ (world.ill[q] # "zero" \/ failures > 0)

Selects(name) == \E i \in Selected : Registry[i].name = name

\* Exit code 0 means more than that nothing was reported.  The five scenarios
\* together notice every query of theirs that is answered wrongly, whatever
\* each tolerates; an auction that is probed has begun and was asked on its
\* own layer; and a deposit that was made has arrived, unless somebody else
\* paid the account.
ExitZeroMeansHealthy ==
  exit = 0 =>
    /\ (\A name \in DOMAIN Script : Selects(name)) =>
         \A q \in DOMAIN world.ill : Unjudged(q)
    /\ Selects("timeboost") /\ world.auction_arg = "valid" => OnHost /\ round > 0
    /\ deposit = "flying" => "income" \in since

\* Every run ends with an exit code, on chains that mine what they are sent.
\* The run waits for the chains in two places: the wait for the arrival of the
\* deposit is timed (test_deposit), that for a receipt is not
\* (send_transaction) and ends only when the transaction is mined or the
\* request fails.
RunEnds == <>(exit # NoCode)

=============================================================================

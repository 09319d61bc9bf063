----------------------------- MODULE LiveStack ------------------------------
(***************************************************************************)
(* The chains, the bridge and the auction contract that the probes of      *)
(* r30rg-scenarios ask over RPC.  They are outside the repository and live *)
(* on while a scenario runs: what is here is what the scenarios can tell   *)
(* apart.  A world is what does not change during a run: the accounts the  *)
(* nodes hold unlocked, the layer of the auction, the queries answered     *)
(* wrongly, the arguments of the command line, and a bound on the events.  *)
(***************************************************************************)
EXTENDS Integers

CONSTANTS
  Worlds,        \* the worlds a run may meet
  DepositValue,  \* 0.1 ETH, in units of the withdrawal                  (10)
  Claims,        \* the amounts of the withdrawals that others complete
  BridgeFunds,   \* what the bridge holds at first
  MaxFailures    \* bound: requests that fail

Accounts == {"dev", "user"}

\* What deprecated calls answer is not looked at.
Deprecated == {"arb_chain_id", "l1_base_fee", "aggregator", "arbos_version"}

\* The ways a query is answered wrongly.  A chain that is no Arbitrum chain
\* has no precompiles: a call to them is answered with no data.
WrongAnswers ==
  {<<"l1_dev_balance", "zero">>, <<"l2_dev_balance", "zero">>,
   <<"l2_gas_price", "zero">>, <<"l2_gas_price", "high">>,
   <<"l3_height", "zero">>, <<"l3_gas_price", "zero">>,
   <<"l1_advance", "same">>, <<"l1_advance", "less">>,
   <<"l2_advance", "less">>, <<"l3_advance", "less">>,
   <<"arb_block_number", "zero">>, <<"arb_block_number", "short">>,
   <<"arb_block_number", "empty">>,
   <<"l3_arb_block_number", "zero">>, <<"l3_arb_block_number", "short">>,
   <<"l3_arb_block_number", "empty">>,
   <<"prices", "short">>, <<"prices", "partial">>, <<"prices", "empty">>,
   <<"lifetime", "zero">>, <<"lifetime", "short">>, <<"lifetime", "empty">>,
   <<"round_duration", "zero">>, <<"round_duration", "brief">>,
   <<"round_start", "zero">>, <<"bid_receiver", "zero">>}
    \cup Deprecated \X {"empty"}

ASSUME StackAssumption ==
  /\ \A w \in Worlds :
       /\ DOMAIN w = {"ill", "l1_account", "l2_account", "auction_on", "round",
                      "l3", "scenario", "category", "bridge_args",
                      "auction_arg", "max_events"}
       /\ \A q \in DOMAIN w.ill : <<q, w.ill[q]>> \in WrongAnswers
       /\ w.l1_account \in {"dev", "none"}
       /\ w.l2_account \in Accounts \cup {"none"}
       /\ w.auction_on \in {"L1", "L2"}
       /\ w.round \in Nat
       /\ w.l3 \in BOOLEAN /\ w.bridge_args \in BOOLEAN
       /\ w.auction_arg \in {"none", "invalid", "valid"}
       /\ w.max_events \in Nat
  /\ DepositValue \in Nat /\ DepositValue > 1
  /\ Claims \subseteq Nat \ {0}
  /\ BridgeFunds \in Nat /\ MaxFailures \in Nat

VARIABLES
  world,        \* the world of this run
  bridge,       \* L1 balance of the bridge
  wallet,       \* L2 balances of the accounts
  transaction,  \* the last transaction sent: "none", "deposit", "withdrawal",
                \* or "mined"; "none" again once its receipt is obtained
  deposit,      \* the deposit of the stress test: "none", "flying", "arrived"
  round,        \* the current round of the auction
  reserve, minimum,   \* the reserve price of the auction and its floor
  events,       \* how many events there were
  failures,     \* how many requests failed
  since         \* history: kinds of events since the snapshot they disturb

stack == <<world, bridge, wallet, transaction, deposit, round, reserve,
           minimum, events, failures, since>>

StackTypeOK ==
  /\ world \in Worlds
  /\ bridge \in Nat
  /\ wallet \in [Accounts -> Int]
  /\ transaction \in {"none", "deposit", "withdrawal", "mined"}
  /\ deposit \in {"none", "flying", "arrived"}
  /\ round \in Nat
  /\ minimum \in Nat /\ reserve \in Nat /\ reserve >= minimum
  /\ events \in 0 .. world.max_events
  /\ failures \in 0 .. MaxFailures
  /\ since \subseteq {"claim", "income", "raise", "round"}

StackInit ==
  /\ world \in Worlds
  /\ bridge = BridgeFunds
  /\ wallet = [a \in Accounts |-> 1]
  /\ transaction = "none" /\ deposit = "none"
  /\ round = world.round
  /\ reserve = 1 /\ minimum = 1
  /\ events = 0
  /\ failures = 0
  /\ since = {}

-----------------------------------------------------------------------------

Answer(query) == IF query \in DOMAIN world.ill THEN world.ill[query] ELSE "good"

Fails == failures < MaxFailures /\ failures' = failures + 1

Happens(kind) ==
  /\ events < world.max_events
  /\ events' = events + 1
  /\ since' = since \cup {kind}
  /\ UNCHANGED <<world, transaction, deposit, failures>>

\* Somebody completes a withdrawal: the bridge pays it out on L1.
Claim ==
  /\ \E n \in Claims : bridge >= n /\ bridge' = bridge - n
  /\ Happens("claim")
  /\ UNCHANGED <<wallet, round, reserve, minimum>>

\* An account is paid on L2 by somebody else.
Income ==
  /\ \E a \in Accounts : wallet' = [wallet EXCEPT ![a] = @ + 1]
  /\ Happens("income")
  /\ UNCHANGED <<bridge, round, reserve, minimum>>

\* The retryable ticket of the deposit is redeemed on L2.
DepositArrives ==
  /\ deposit = "flying"
  /\ deposit' = "arrived"
  /\ wallet' = [wallet EXCEPT !["dev"] = @ + DepositValue]
  /\ UNCHANGED <<world, bridge, transaction, round, reserve, minimum, events,
                 failures, since>>

RoundEnds ==
  /\ round' = round + 1
  /\ Happens("round")
  /\ UNCHANGED <<bridge, wallet, reserve, minimum>>

\* The auctioneer raises the floor; the contract keeps the price above it.
RaiseMinimum ==
  /\ minimum' = minimum + 1
  /\ reserve' = IF reserve < minimum' THEN minimum' ELSE reserve
  /\ Happens("raise")
  /\ UNCHANGED <<bridge, wallet, round>>

-----------------------------------------------------------------------------

\* The dev chains mine the transactions that the stress test sent them, in
\* their own time.  One that is reverted or lost is never mined.
DepositMined ==
  /\ transaction = "deposit"
  /\ transaction' = "mined"
  /\ bridge' = bridge + DepositValue
  /\ deposit' = "flying"
  /\ UNCHANGED <<world, wallet, round, reserve, minimum, events, failures, since>>

WithdrawalMined ==
  /\ transaction = "withdrawal"
  /\ transaction' = "mined"
  /\ wallet' = [wallet EXCEPT ![world.l2_account] = @ - 1]
  /\ UNCHANGED <<world, bridge, deposit, round, reserve, minimum, events,
                 failures, since>>

=============================================================================

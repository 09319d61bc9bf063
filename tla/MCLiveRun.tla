------------------------------ MODULE MCLiveRun -----------------------------
(***************************************************************************)
(* The worlds of the instance.  All scenarios: a sound stack, one for each *)
(* query that is answered wrongly, and a plain chain in the place of L2.   *)
(* The stress test alone, with every combination of accounts and more      *)
(* events; the auction probe alone, with every placing of the auction.     *)
(***************************************************************************)
EXTENDS LiveRun

Sound ==
  [ill |-> <<>>, l1_account |-> "dev", l2_account |-> "dev",
   auction_on |-> "L1", round |-> 1, l3 |-> TRUE,
   scenario |-> "all", category |-> "any",
   bridge_args |-> TRUE, auction_arg |-> "valid", max_events |-> 2]

PlainChain ==
  [q \in Deprecated \cup {"arb_block_number", "prices", "lifetime"} |-> "empty"]

\* Wrong answers that are asked for only with L3 and with an auction.
Unasked == "l3_height" :> "zero" @@ "bid_receiver" :> "zero"

Calm == [Sound EXCEPT !.max_events = 0]

AuctionWorlds ==
  {[Sound EXCEPT !.scenario = "timeboost", !.auction_on = l, !.round = r] :
     l \in {"L1", "L2"}, r \in {0, 2, 3, 5}}

MCWorlds ==
  {Sound, [Sound EXCEPT !.category = "timeboost-adversarial"]}
    \cup {[Calm EXCEPT !.ill = w[1] :> w[2]] : w \in WrongAnswers}
    \cup {[Calm EXCEPT !.ill = PlainChain],
          [Calm EXCEPT !.bridge_args = FALSE, !.auction_arg = "none"],
          [Calm EXCEPT !.l3 = FALSE, !.auction_arg = "invalid"],
          [Calm EXCEPT !.l3 = FALSE, !.auction_arg = "none", !.ill = Unasked],
          [Calm EXCEPT !.category = "invariant-probe", !.ill = Unasked]}
    \cup {[Sound EXCEPT !.scenario = "stress", !.max_events = 3,
                        !.l1_account = a, !.l2_account = b] :
            a \in {"dev", "none"}, b \in Accounts \cup {"none"}}
    \cup AuctionWorlds

=============================================================================

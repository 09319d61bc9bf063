---------------------------- MODULE AuctionProbe ----------------------------
(***************************************************************************)
(* The Timeboost auction probe                                             *)
(* (r30rg-scenarios/src/timeboost_adversarial.rs).  All its reads are      *)
(* calls to the layer that detect_auction_layer picks.  A call to an       *)
(* address without code succeeds with no data, which decodes to 0.         *)
(***************************************************************************)
EXTENDS LiveProbes, FiniteSets

CONSTANT Bidders   \* who may win a round

ASSUME AuctionAssumption == "none" \notin Bidders

VARIABLES
  layer,         \* auction_layer
  reserveRead,   \* the first read of check_reserve_prices
  current,       \* current_round of check_monopolization
  window,        \* how many rounds are read: lookback, less after an error
  winners        \* the controllers read so far, from the current round back

auctionLocals == <<layer, reserveRead, current, window, winners>>

AuctionTypeOK ==
  /\ layer \in {"L1", "L2"}
  /\ reserveRead \in Nat
  /\ current \in Nat
  /\ window \in 0 .. 5
  /\ winners \in Seq(Bidders \cup {"none"}) /\ Len(winners) <= window

AuctionInit ==
  /\ layer = "L1"
  /\ reserveRead = 0
  /\ current = 0
  /\ window = 0
  /\ winners = <<>>

\* The locals go out of scope with the scenario; the layer is kept for the
\* properties.
AuctionReset ==
  /\ UNCHANGED layer
  /\ reserveRead' = 0
  /\ current' = 0
  /\ window' = 0
  /\ winners' = <<>>

OnHost == layer = world.auction_on

\* Mutants of the operators below.
LookbackUnbounded(n) == n
MonopolyByMostRecent(seq) ==
  LET won == SelectSeq(seq, LAMBDA w : w # "none") IN
    Len(won) >= 3 /\ won[1] = won[2] /\ won[2] = won[3]
BelowFloorOrAt(r) == r <= minimum

AuctionAnswer(query) == IF OnHost THEN Answer(query) ELSE "empty"

\* Decoded, no data is 0.
Reported(query, bad) ==
  \/ AuctionAnswer(query) \in bad
  \/ AuctionAnswer(query) = "empty" /\ "zero" \in bad

CurrentRound == IF OnHost THEN round ELSE 0

Lookback(n) == IF n < 5 THEN n ELSE 5

\* Rounds without a controller are dropped before the others are compared.
Monopoly(seq) ==
  LET won == {i \in DOMAIN seq : seq[i] # "none"} IN
    Cardinality(won) >= 3 /\ \A i, j \in won : seq[i] = seq[j]

-----------------------------------------------------------------------------

AuctionAddr ==
  /\ At("auction_addr")
  /\ \/ world.auction_arg = "valid" /\ Proceeds({})
     \/ world.auction_arg = "invalid" /\ Ends("error")
     \/ world.auction_arg = "none" /\ Ends(IntoOutcome)
  /\ UNCHANGED <<stack, auctionLocals>>

\* detect_auction_layer: L1 if the call succeeds there.
Detect ==
  /\ At("detect")
  /\ \/ layer' = "L1" /\ UNCHANGED failures
     \/ layer' = "L2" /\ Fails
  /\ Proceeds({})
  /\ UNCHANGED <<world, bridge, wallet, transaction, deposit, round, reserve,
                 minimum, events, since, reserveRead, current, window, winners>>

RoundCheck ==
  /\ At("round")
  /\ Proceeds(If(CurrentRound = 0, "round"))
  /\ UNCHANGED <<stack, auctionLocals>>

CheckAuction ==
  /\ Running /\ Step.kind = "auction"
  /\ Proceeds(If(Reported(Step.name, Step.bad), Step.name))
  /\ UNCHANGED <<stack, auctionLocals>>

ReadReserve ==
  /\ At("reserve")
  /\ reserveRead' = IF OnHost THEN reserve ELSE 0
  /\ since' = since \ {"raise"}
  /\ Proceeds({})
  /\ UNCHANGED <<world, bridge, wallet, transaction, deposit, round, reserve,
                 minimum, events, failures, layer, current, window, winners>>

BelowFloor(r) == r < minimum

CheckMinimum ==
  /\ At("minimum")
  /\ Proceeds(If(OnHost /\ BelowFloor(reserveRead), "reserve_below_minimum"))
  /\ UNCHANGED <<stack, auctionLocals>>

ReadRoundAgain ==
  /\ At("round_again")
  /\ current' = CurrentRound
  /\ winners' = <<>>
  /\ IF CurrentRound < 3
     THEN window' = 0 /\ JumpsTo(StepNo("bid_receiver"))
     ELSE window' = Lookback(CurrentRound) /\ Proceeds({})
  /\ UNCHANGED <<stack, layer, reserveRead>>

\* A past round has one winner; it is chosen when it is read, once.
ReadWinner ==
  /\ At("winners") /\ Len(winners) < window
  /\ \E w \in Bidders \cup {"none"} : winners' = Append(winners, w)
  /\ UNCHANGED <<stack, runner, layer, reserveRead, current, window>>

\* An error ends the loop, not the check.
ReadWinnerFails ==
  /\ At("winners") /\ Len(winners) < window
  /\ Fails
  /\ window' = Len(winners)
  /\ UNCHANGED <<world, bridge, wallet, transaction, deposit, round, reserve,
                 minimum, events, since, runner, layer, reserveRead, current, winners>>

CheckMonopoly ==
  /\ At("winners") /\ Len(winners) = window
  /\ Proceeds(If(Monopoly(winners), "monopoly"))
  /\ UNCHANGED <<stack, auctionLocals>>

Auction ==
  \/ AuctionAddr \/ Detect \/ RoundCheck \/ CheckAuction \/ ReadReserve
  \/ CheckMinimum \/ ReadRoundAgain \/ ReadWinner \/ ReadWinnerFails
  \/ CheckMonopoly

-----------------------------------------------------------------------------

\* A finding about an auction that is configured well and has begun means
\* that the wrong layer was asked (detect_auction_layer), or that the floor
\* was raised between the two reads of check_reserve_prices.
AuctionAlarmsExplained ==
  /\ world.round > 0 /\ DOMAIN world.ill = {} /\ OnHost =>
       findings \cap {"round", "round_duration", "round_start",
                      "bid_receiver"} = {}
  /\ "reserve_below_minimum" \in findings => "raise" \in since

Won(w) == {i \in DOMAIN winners : winners[i] = w}

\* Whether reads failed or not, a monopoly is reported exactly if one bidder won
\* at least three of the rounds that were read and nobody else won any of them;
\* and if none failed, those are the last five rounds, or all of them if there
\* were fewer (check_monopolization).
MonopolyIsReal ==
  At("bid_receiver") =>
    /\ "monopoly" \in findings <=>
         \E b \in Bidders :
           Cardinality(Won(b)) >= 3 /\ Won(b) \cup Won("none") = DOMAIN winners
    /\ failures = 0 => Len(winners) = (IF current >= 5 THEN 5 ELSE
                                       IF current >= 3 THEN current ELSE 0)

=============================================================================

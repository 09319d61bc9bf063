# r30rg in TLA+

r30rg is a chaos-testing tool for Arbitrum stacks. It has two halves. The
*simulator* runs a model of a rollup stack deterministically from a seed,
injects crashes and partitions, and shrinks a failing run to the faults it
needs. The *live* half injects faults into the containers of a docker-compose
project and checks the chains over RPC. This directory holds TLA+ modules for
the parts with state and control of their own, TLC instances of them, and
proofs of some of their properties. Paths below are relative to `src/crates/`.

## The system

| Component | State | Operations | What is hard | What makes it correct |
|---|---|---|---|---|
| clock, `r30rg-core/src/time.rs` | tick, min-heap of (tick, id) | advance, schedule, next_due_event | events at the edge of a tick, overdue events | every event fires once, in its tick |
| nodes, `r30rg-sim/src/simulator.rs` 60-135 | alive, heights, pending, gas, balance, last batch, last assertion | tick, crash, restart | arithmetic at 0 and at the floor, sentinels equal to real values | gas never 0; sentinels mean what the checker reads into them |
| bridge, `simulator.rs` 263-372 | bridge_queue, retryable tickets, totals | originate, deliver, redeem | messages in two queues over many ticks, targets that are down | value conserved, each message paid once, redemption in bounded time |
| faults, `simulator.rs` 374-452 | fault_log, mask, scheduled restarts and heals | crash, partition, process event | outages that overlap, ids shared by restarts and heals, masked replays | the log says exactly which nodes are down and which links are cut |
| checker, `simulator.rs` 454-580 | seen invariants, violations | check_invariants | alarms that cannot fire, or fire wrongly | an alarm is true when it is recorded |
| loop, `simulator.rs` 214-261 | all of the above | run | the order of the calls in a tick | the run ends; outages end |
| network, `r30rg-sim/src/network.rs` | messages in flight, partitions, counters | send, deliver, partition, heal | loss, duplication, reordering, cuts while in flight | counters account for all messages, only latencies reorder |
| shrinker, `simulator.rs` 609-672 | active faults, snapshot of candidates | replay without one fault | stale snapshots, other violations | result fails and is 1-minimal, few replays |
| docker injector, `r30rg-live/src/docker.rs` | containers, spawned tasks | pause, kill, restart, partition | awaits, concurrent tasks, failing requests, end of the process | a paused container is resumed, and not early |
| kill scenarios, `r30rg-scenarios/src/{sequencer,batch_poster,validator}_chaos.rs` | readings, findings, results | kill, observe, restart, observe | `?` between kill and restart; one scenario's leftovers met by the next | what a pass, a finding and an error mean |
| runner and context, `r30rg-cli/src/main.rs` 234-382, `r30rg-core/src/scenario.rs` | selection, outcomes, exit code; findings of the running scenario | select, run, collect, exit | a scenario takes its context by value, so an error drops its findings | exit code 0 is truthful |
| probes, `r30rg-scenarios/src/{bridge_adversarial,invariant_probe,retryable_probe}.rs` | findings | read, judge, report | which errors leave, which are reported, which are passed over | no wrong answer passes all of them |
| bridge stress, `r30rg-scenarios/src/bridge_stress.rs` | balances read before | deposit, poll, withdraw, compare | balances that are stale when compared; a wait for a receipt without a timeout; receipts that are not obtained | a finding has the cause it states |
| auction probe, `r30rg-scenarios/src/timeboost_adversarial.rs` | layer, reserve price, round, controllers | detect, read, judge | reads torn by an event; the wrong layer; rounds left out | a finding has the cause it states |
| others | | | | see *Not modelled* |

The loop of the simulator calls the nodes, the bridge, the fault injection and
the checker in turn, on one thread. The fault injection uses the clock for
restarts and heals and the network for partitions. The network never carries a
message in a simulator run, because `run` never calls `send`; its model
therefore has a caller of its own. The shrinker calls `run` with a mask. The
kill scenarios call the docker injector and poll the chains; the other
scenarios only send requests. Between two awaits of a scenario anything may
happen outside. All scenarios run one after the other in one loop.

## Modules

| Module | Models | Remarks |
|---|---|---|
| `SimClock` | `SimulatedClock` | the heap is a set; `seq` tells equal entries apart |
| `SimNodes` | `SimNode`, propagation of pending transactions | one action `TickNodes` for a pass over all nodes |
| `SimBridge` | queue, tickets, deposits | a message is its route and creation tick, so queues are sets |
| `BridgeLedger` | nothing in the code: the promise of the bridge | implemented by `Simulator` (`LedgerSpec`) |
| `SimPartitions` | the partition set of `network.rs` | shared by `SimFaults` and `SimNetwork` |
| `SimFaults` | `maybe_inject_fault` | three actions: crash, partition, one per due event |
| `SimChecker` | `check_invariants`, `record_violation` | `firstSeen` keeps the first tick of each alarm |
| `Simulator` | `run` | `phase` sequences the actions; draws are choices |
| `MCSimulator` | | values of the constants for TLC |
| `SimNetwork` | the rest of `network.rs` | `received` is a history variable |
| `Shrink` | `shrink_violation` | the outcome of a replay is an arbitrary function of the mask |
| `DockerHost` | container states, name resolution | the daemon is external |
| `DockerChaos` | `execute_fault`, its spawned tasks | one action per await |
| `KillRecover` | the three scenarios and the loop of `cmd_run` | a scenario is a script of awaits |
| `LiveStack` | chains, bridge, auction, as far as the scenarios see them | external; a *world* is what does not change during a run |
| `LiveRunner` | `cmd_run`: selection, loop, exit code; `ScenarioContext` | `reported` is a history variable |
| `LiveProbes` | the three read-only probes, and the scripts of all five non-destructive scenarios | a step is a read with the answers that are reported and what its failure does |
| `BridgeStress` | `bridge_stress.rs`, `send_transaction` of `rpc.rs` | one action per read; a transaction is sent, mined by the chain, and its receipt obtained |
| `AuctionProbe` | `timeboost_adversarial.rs` | one action per read |
| `LiveRun` | the composition: runner, scenarios, stack | a failing `?` is one action, `AwaitFails`; mining is an action of the chains, `Mining` |
| `MCLiveRun` | | the worlds for TLC |
| `Induction` | nothing: sums and induction for the proofs | see *Proofs* |
| `SimulatorProofs`, `BridgeProofs`, `ShrinkProofs`, `NetworkProofs`, `DockerProofs`, `KillProofs`, `LiveProofs` | | theorems |

`PROJECT.json` maps every definition to the lines it models. In general a
variable is a field of the code's struct with its name; histories are marked as
such where they are declared, and no action's guard reads one.

`LiveRun` and `KillRecover` split the scenarios of the command between them.
`LiveRun` is the command with `--non-destructive`; `KillRecover` is the three
scenarios which that flag leaves out. The full command runs the three first,
and what they leave behind is met by the others as a world that is not sound.

Draws of the PRNG are nondeterministic choices, which includes every seed. This
also means that a rare event may happen in every tick. The simulator's constants
(delays of 10 to 100 ticks, grace periods up to 500, a 5-tick redemption delay)
are CONSTANTS of the modules, and the number in the comment next to each is
the one in the code.

## Runs

| Run | Question | Bounds |
|---|---|---|
| `sim_faults` | Does the log say exactly which nodes are down and explain each cut link; do events fire in time; does the run end, do crashed nodes recover? | 3 faults in 5 ticks, on 2 nodes and 2 pairs, restart delays 1..3, no mask or mask {0, 2} |
| `sim_bridge` | Is value conserved, is each message settled once, how late is a redemption? | total value 2 over 6 ticks, 2 crashes of the two targets, latencies 1..3 |
| `sim_alarms` | Which alarms can fire at all; is the poster alarm true, and of which validators alone is the validator alarm false? | all grace periods 0 or 1, 1 crash, gas one step above the floor, 4 ticks |
| `net_safety` | Do the counters add up, do copies follow originals, does each message come in the turn it was drawn for, what can overtake it, does what is in flight arrive? | 3 peers, 2 sends, each possibly lost or duplicated, latencies 0..2, 1 cut of any two groups, 3 ticks |
| `shrink` | Does the result fail, is it 1-minimal, how many replays? | all outcome functions on 3 faults and 2 kinds of violation |
| `docker` | Is a paused container always held by a task, is it resumed, is it resumed early? | 4 faults on 2 containers, durations 1 and 2, 1 failure |
| `kill` | What does a result without an error mean for the stack; when is a finding or a pass wrong? | all 3 scenarios, 2 failures, 2 polls instead of 12, slack 1 instead of 5 |
| `live` | What do the exit code and each finding of the non-destructive scenarios say of the stack? | 51 worlds, 2 failing requests, up to 3 events |
| `heal_all`, `validator_alarm`, `shrink_target`, `docker_partition` | see *Findings* | |

Why the bounds are enough. In `sim_faults` an outage can begin before, during
and after another one of the same or another node, meet its own restart's
tick, and be masked in between; five ticks let three outages of length one to
three do all of this. In `sim_bridge` a ticket's redemption can be put off by
an outage that starts just before it is ready, and the target can crash again;
the deadline is reached within the six ticks. The grace periods in
`sim_alarms` are so short that any state in which an alarm is possible shows
within four ticks. In `net_safety` two messages, each with a copy, meet in every
order of sending and delivery that latencies of 0 to 2 allow; a latency of 0
makes a message due before the next turn, and a copy that was drawn to come
after the last turn stays in flight (that it too comes when it should, in a
longer run, is covered by the theorem `LatencyIsAsDrawn`). A fourth docker
fault lets pause, restart, pause meet a later partition. The block numbers in `kill` leave room for the number of
blocks a clean pass of all three scenarios needs (4 on L1, 5 on L2).

The worlds of `live` are: all scenarios against a sound stack, with and without
a category that selects none; all scenarios against a stack with one wrong
answer, for each query whose answer is judged, against a plain chain in the
place of L2, without an L3, without arguments, and with wrong answers that
nobody then asks for; the two probes of one category; the bridge stress alone with
each combination of unlocked accounts; the auction probe alone with the auction
on either layer and the rounds 0, 2, 3 and 5 (no round, too few to judge, just
enough, the longest look-back). One wrong answer is enough because a read is
judged by itself. An event is one that the running scenario can notice; an
earlier one would be another initial value. Two failures lose a finding in one scenario and let another
read fail. The winner of a past round is chosen when it is read, once. The
deposit is 3 withdrawals instead of 10, and the withdrawals of others are 1 or
4, one of which takes less and one more than the deposit; the bridge starts
with 2, so that it can pay the larger one only once it holds the deposit.

`docker`, `kill` and `live` set `CHECK_DEADLOCK FALSE` because these programs
stop: the process exits, or all scenarios have run. The simulator model stutters
explicitly when its run has finished.

### Fairness

* `Simulator!FairSpec`: weak fairness of `Next`. The loop is a `for` loop on
  one thread and every call of its body returns.
* `SimNetwork!Spec`: weak fairness of `DeliverTurn` only: `run` collects once
  per tick. Nobody has to send, cut or heal.
* `DockerChaos!Spec`: requests return, time passes, the runtime polls each
  ready task. No further fault is owed and the process need not exit.
* `KillRecover!Spec`: the runner takes its next step. No fairness for blocks:
  an idle L2 produces none.
* `LiveRun!Spec`: the runner takes its next step, which includes that the
  minute of the deposit's poll passes; and, as an assumption of its own, the
  chains mine the transactions they accepted (`WF_vars(Mining)`). The code has no
  part in that: `send_transaction` waits for the receipt without a timeout
  (`rpc.rs:111`), and without the assumption `RunEnds` fails there, because a
  transaction that is never mined leaves the run waiting for good. Nobody else
  has to act on the stack, and the deposit need not arrive: the wait for its
  arrival is timed.

### Findings

| Run | What the code does |
|---|---|
| `heal_all` | The heal event of one partition calls `heal_all` (`simulator.rs:449`), so an overlapping partition ends before the delay recorded for it. |
| `validator_alarm` | `last_assertion` is set to the block height, which is 0 in the first tick (`simulator.rs:112`); the checker takes 0 for "never" (`simulator.rs:512`). |
| `shrink_target` | The shrinker accepts a replay with any violation (`simulator.rs:649`), so the set it returns need not reproduce the violation it returns. |
| `docker_partition` | If one pause of a partition fails, `?` (`docker.rs:139`) leaves before the unpause task is spawned; the targets already paused stay paused. |

Some properties that hold say what a report of the code does not mean:

* `EarlyOnlyIfRestarted`: a container that is restarted and paused again is
  resumed early by the task of its first pause, and in no other way.
* `FalseBlameNeedsError`: the poster and validator scenarios can report "L2
  sequencer stopped when batch poster was killed" of a sequencer that was dead
  before, but only after the sequencer scenario ended in an error or the
  sequencer died by itself.
* `QuietPassMeansResumed`: the sequencer scenario compares with a baseline read
  before the kill (`sequencer_chaos.rs:112`). A pass shows that L2 resumed only
  if L2 gained no block between that baseline and the kill.
* `ValidatorAlarmFalseOnlyAtStart`: the validator alarm is false of a validator
  whose first assertion fell into the first tick, and of no other.
* `BridgeAlarmMeansClaim`: "Bridge balance decreased without completed
  withdrawal" (`bridge_stress.rs`) is reported only if somebody
  else's withdrawal *was* completed; the scenario does not look for one.
* `MonopolyIsReal`: a monopoly is reported exactly if one bidder won at least
  three of the rounds that were read and nobody else won any, also when an error
  ended the reading (`timeboost_adversarial.rs:277`). The "consecutive rounds" of
  the finding (`timeboost_adversarial.rs:296`) need not be consecutive: rounds
  without a controller are filtered out first (lines 282-284).
* `OvertakenOnlyByFaster`: the network reorders messages of a link, whatever
  `reorder_rate` says, but only because each draws its own latency
  (`network.rs:82`); the queue keeps the order of sending.
* `AuctionAlarmsExplained`, `ExitZeroMeansHealthy`: `detect_auction_layer` takes
  the first layer on which a call succeeds. An auction on L2 is looked for on
  L1, whose empty answers decode to zeros, and its findings are about nothing.

Seen while modelling, and part of the models without a property of their own:
the category of the Timeboost scenario is `bridge-adversarial`, so that
`--category timeboost-adversarial` selects nothing and is an error; an
`--inbox-addr` that does not parse skips the deposit, an `--auction-addr` that
does not parse is an error.

## Proofs

Every theorem holds for all values of the constants that satisfy the ASSUMEs of
the modules, for any number of ticks, faults, nodes crashed and masks. Every
invariant and every safety property that a passing run checks is a theorem; the
table is `theorems` in `PROJECT.json`.

`Induction`: what some of the proofs need and the library states only with an
operator as a parameter, which the provers cannot instantiate. With sets in the
place of predicates nothing needs to be instantiated: `LeastNumber` is the
library's `WFMin` for `<` on the naturals, `NumberInduction` and
`SubsetInduction` (over the subsets of a finite set) follow from it. On top of
them, `SumOver` is the sum of the numbers that a function gives to a finite set,
with the recursion of the community modules' fold: the order of adding does not
matter (`AdditionOrder`), and the sum of two disjoint sets is the sum of their
sums (`SumOfDisjoint`).

`SimulatorProofs`:

* `TypeCorrect`: `CoreTypeOK` is invariant. That leaves out the amounts
  (`deposited`, `sent`), whose type rests on what a sum is: see `AmountsCorrect`.
* `FaultsInvariant`: `FaultInv` is inductive. The properties speak of the log
  and of the nodes, but what keeps the two together is the heap, so the
  invariant relates all three: a down node has exactly one pending restart,
  for a tick that is not past, and every pending restart belongs to a down node
  and to an applied crash in the log with that tick; every applied crash in the
  log that is not over has its restart pending; a cut link has an applied
  partition in the log whose heal is pending. No pending event is overdue, and
  once the due events of a turn are drained (`Settled`) none is due.
* `LogExplainsOutages`, `LogExplainsPartitions` and `EventsOnTime` follow from
  it: the properties `DeadExactlyInWindow`, `PartitionOnlyInWindow` and
  `EventsFireOnTime`.

* `AlarmsImpossible` (`OnlyPossibleAlarms`) and `PosterAlarmTrue`
  (`PosterAlarmIsTrue`), from the invariant `AlarmInv`. Every node ticks before
  the first crash is drawn, so from the second phase of the first turn on all
  heights are positive, and no step lowers a height; every gas price is at or
  above a positive floor or at its positive start. The poster cannot post in its
  first tick, when its height is 0, because nothing is pending then; so a batch
  never leaves the sentinel 0 behind. (The validator can, see *Findings*.)
* `ValidatorAlarmNearlyTrue` (`ValidatorAlarmFalseOnlyAtStart`), from the same
  invariant: an assertion in a later tick is made at a positive height.

`BridgeProofs`:

* `TicketsRedeemedInTime`: the property `RedeemDeadline`. The deadline counts
  one outage although a target can crash again and again. The reason is in
  `BridgeInv`: an outage that keeps a ripe ticket waiting began before the
  ticket was ripe, because a turn redeems before it draws a crash; so its
  restart is due at most `MaxRestart` after the turn before (`RestartsSoon`),
  and when it fires the ticket is `Freed`: the next turn redeems it before the
  target can crash again. The invariant needs `FaultInv` (a down node has
  exactly one restart pending, and it fires in its tick) and `QueueTimely` (no
  message stays in the queue past its tick).
* `BridgeImplementsLedger`: `Spec => LedgerSpec`. Messages drawn in this tick are
  new because everything older carries an earlier creation tick (`Dated`);
  the queue and the tickets are disjoint (`Apart`), so a delivery settles exactly
  the due messages that do not become tickets and a redemption exactly the
  tickets it marks; and the layers have different nodes (`LayersDiffer`), so what
  is credited to the node of a layer is what is addressed to the layer. What
  the sum of a set of messages is plays no part.
* `ValueConserved` (`Conservation`), `NeverInflated` (`NoInflation`) and
  `AmountsCorrect` (`Simulator!TypeOK`), from `ConserveInv`. `SumValues` is the
  sum of `Induction` (`SumValuesIsSum`), and the queue and the tickets are
  finite because a turn adds what it draws (`DrawsFinite`). A delivery splits the
  queue in what stays, what becomes a ticket and what is credited, a redemption
  the tickets in what it marks and what it leaves; the parts are disjoint because
  of `LedgerInv`, so their values add up. What the nodes are credited is summed
  node by node (`CreditedTotal`). The alarm cannot fire because the checker
  compares the total of the deposits with what was sent.

`ShrinkProofs`:

* `RemainderAlwaysFails` and `ShrinkIsOneMinimal`: the set in hand fails, and no
  single fault can be removed from the one that is returned. The invariant
  (`ShrinkInvariant`) says that every fault already tried in this pass and kept
  is needed for the set in hand.
* `ShrinkIsQuadratic`: with n faults the shrinker replays at most quadratically
  often. Each pass but the last removes a fault, and a pass over k faults
  replays at most k times.

`NetworkProofs`:

* `TypeCorrect` (`SimNetwork!TypeOK`), `CountersAddUp` (`Accounting`),
  `CopiesComeSecond` (`CopyAfterOriginal`), `LatencyIsAsDrawn`
  (`LatencyAsDrawn`) and `QueueKeepsOrder` (`OvertakenOnlyByFaster`), for any
  number of messages in flight, from `NetInv`: the original of every copy in
  flight is received, or further ahead in the queue and due no later
  (`CopiesFollow`); the delivery tick of every message in flight is one draw after
  its sending, two for a copy, and not past, unless it was sent in this tick
  (`OnTime`); and the queue is in the order of sending, with what was received
  before an earlier message that is still in flight due before it
  (`InOrder`). What
  the loop of `deliver` does to a queue of any length is proved by induction over
  its turns (`DrainedSplits`): both lists hold messages of the queue in their
  order, none is lost, and those that are due are the ready ones.

`DockerProofs`, for any number of containers, faults, durations and failures:

* `TypeCorrect`, with what the position of a call implies (`CallOK`).
* `PausedAreHeld` (`PausedIsHeld`): the invariant adds that, without failures,
  the container of a request in flight was found running and still is, so that
  nothing is paused that the call will not collect.
* `EarlyExplained` (`EarlyOnlyIfRestarted`): `EarlyInv` says that a container
  which was not restarted in the hands of a task is paused until that task wakes
  up and not beyond (`Waits`), that no second task holds it (`HeldOnce`), and the
  same of the containers that a partition has collected so far (`Collected`).

`KillProofs`, for any number of polls and failures:

* `TypeCorrect`, `RunsCleanUp` (`CleanUnlessError`), `FalseBlameExplained`
  (`FalseBlameNeedsError`), `QuietPassTrue` (`QuietPassMeansResumed`), from
  `KillInv`: a container that is down died by itself, was left by an error, or is
  the victim of the running scenario between its kill and its restart
  (`Accounted`); scenarios still to run have no result (`Pending`); and L2 stands
  at its baseline while the sequencer is down, unless it left it before the kill
  (`Quiet`).

`LiveProofs`, for any set of worlds and any number of events and failures:

* `TypeCorrect`, with the position in the script of the running scenario
  (`Scripted`); every step either stays at its place in the script, goes on or
  leaves. A transaction is on its way only while the stress test stands at the
  step that sent it, or has passed over a failing withdrawal (`Transacted`).
* `ExitIsTrue` (`ExitTellsTruth`): whatever was reported is still in the context
  of the running scenario or in an outcome that is not a pass (`ExitInv`).
* `BridgeAlarmsAreClaims` (`BridgeAlarmMeansClaim`): since the snapshot the
  bridge has at least the balance read then, and the deposit on top once it is
  mined, or a withdrawal was completed (`BridgeInv`).
* `WithdrawalAlarmsExplained` (`WithdrawalAlarmNeedsIncome`): `WithdrawalInv`
  follows the one deposit: while it is on its way its account has nothing that
  the snapshot did not see, so that it is either in time or reported, and only
  a deposit that comes after that can make up for the withdrawal.
* `AuctionAlarmsTrue` (`AuctionAlarmsExplained`): the layer is chosen before
  anything is reported, the round never falls, and the floor moves only by an
  event (`AuctionInv`).

* `MonopolyReportsTrue` (`MonopolyIsReal`): `MonopolyInv` says how many winners
  are to be read where the probe stands, fewer only after a request failed; and
  `MonopolyHasHolder`, that equal winners are the winner of a bidder.
* `ExitZeroTrue` (`ExitZeroMeansHealthy`): a run is `Spoilt` once something was
  reported or a scenario did not pass, and stays so. As long as it is not, every
  step that lies behind the runner, in every script, was answered as a healthy
  stack answers it (`AllAnswered`): a step is left behind by its own action, by a
  jump over steps that judge nothing, or by an end (`LeftBehind`). A deposit on
  its way is still awaited, or the account was paid (`DepositAwaited`). At exit
  code 0 everything lies behind; and each wrong answer that is not tolerated is
  judged by a step of some script (`Noticed`). That answers are wrong only in the
  ways of `WrongAnswers` is an assumption on the worlds (`StackAssumption`).

Only model-checked are the liveness properties (`RunCompletes`,
`CrashedNodesRecover`, `InFlightArrives`, `PausedResumes`, `RunEnds` of both
runners): they need fairness and ENABLED, which the provers do not handle.

## Not modelled

* `run_campaign`: a fold over independent seeds, each a behaviour of
  `Simulator`. It keeps at most ten violations of a seed (`simulator.rs:697`).
* `FaultGenerator` and the chaos profiles (`chaos.rs`): nothing calls
  `maybe_inject`. `DockerChaos` takes any sequence of the faults it could draw.
* The PRNG: its draws are choices.
* `advance_to`, `advance_to_next_event`, `next_event_tick`: only unit tests
  call them. `advance_to_next_event` panics when an event is overdue
  (`time.rs:64`); the simulator never has one (`EventsFireOnTime`).
* `reorder_rate` of the network: no operation reads it.
* The encoding of JSON-RPC and the decoding of answers (`rpc.rs`): an answer is
  classified by what the scenarios tell apart; what gas a transaction costs.
* `cmd_sim`, `cmd_list`, `cmd_ping`, `cmd_profiles`, the report and its JSON:
  printing.
* `types.rs`, `invariant.rs`: data types without behaviour.

## Plan

Done: the simulator, the shrinker, the network, the docker injector and all
scenarios with their runner, and all their safety properties as theorems. What
is left:

1. A replay module that compares a masked run with the full run it was shrunk
   from: the same index need not be the same fault.
2. The safety half of the liveness properties as theorems: bounds by which a
   pause or an outage ends, of which the liveness would only need that time goes
   on.
3. The fault generator as the caller of `DockerChaos`, once the program uses it.

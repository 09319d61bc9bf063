---------------------------- MODULE MCSimulator -----------------------------
(***************************************************************************)
(* Instances of the simulator for TLC.  Delays, grace periods and amounts  *)
(* are scaled down from the constants of simulator.rs; each .cfg turns the *)
(* kinds of events on that its question needs.                             *)
(***************************************************************************)
EXTENDS Simulator

MCSwingNone == [n \in FeeNodes |-> 0]
MCSwing == [n \in FeeNodes |-> CASE n = L1 -> 0 [] n = Sequencer -> 2
                                  [] n = L3Sequencer -> 0]
MCGasFloor == [n \in FeeNodes |-> IF n = L1 THEN 2 ELSE 1]

MCBalance == [n \in Nodes |-> 8]

MCLatencyNone == [r \in Routes |-> {}]
MCLatency == [r \in Routes |-> CASE r = Deposit -> {1, 2}
                                 [] r = Withdrawal -> {3}
                                 [] r = L3Deposit -> {1}]

MCRetry == [r \in Routes |-> IF r = Withdrawal THEN {FALSE} ELSE BOOLEAN]

MCPairs == {<<BatchPoster, L1>>, <<Sequencer, L3Sequencer>>}

=============================================================================

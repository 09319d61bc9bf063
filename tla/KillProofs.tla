---------------------------- MODULE KillProofs -----------------------------
(***************************************************************************)
(* What the three kill-and-recover scenarios guarantee however many polls  *)
(* they make, whatever the chains produce between two awaits and however   *)
(* many awaits fail.                                                       *)
(***************************************************************************)
EXTENDS KillRecover, TLAPS

\* The step of the running scenario is one of its script.
InScript == ~Over => pc \in 1 .. (IF turn = 1 THEN 9 ELSE 8)

\* Which awaits are where in the three scripts.
LEMMA Scripts ==
  ASSUME TypeOK, InScript, ~Over
  PROVE  /\ Scenario \in Containers
         /\ turn \in 1 .. 3
         /\ Scenario = "sequencer" <=> turn = 1
         /\ Scenario = "poster" <=> turn = 2
         /\ Scenario = "validator" <=> turn = 3
         /\ Len(Script[Scenario]) = (IF turn = 1 THEN 9 ELSE 8)
         /\ At("connect") <=> pc = 1
         /\ At("base_l1") <=> pc = 2
         /\ At("base_l2") <=> pc = 3
         /\ At("kill") <=> pc = 4
         /\ At("restart") <=> pc = 7
         /\ At("l2_down") <=> turn = 1 /\ pc = 6
         /\ At("recover") <=> turn = 1 /\ pc = 8
         /\ At("l1_after") <=> turn = 1 /\ pc = 9
         /\ At("l2_during") <=> (turn = 2 /\ pc = 5) \/ (turn = 3 /\ pc = 6)
         /\ At("l2_after") <=> turn > 1 /\ pc = 8
         /\ At("l1_during") <=> (turn # 2 /\ pc = 5) \/ (turn = 2 /\ pc = 6)
<1>1. CASE turn = 1
  BY <1>1, KillAssumption DEF TypeOK, InScript, Over, Scenario, ToRun, Script, At
<1>2. CASE turn = 2
  <2>1. Script[Scenario] = <<"connect", "base_l1", "base_l2", "kill",
                             "l2_during", "l1_during", "restart", "l2_after">>
    BY <1>2 DEF Scenario, ToRun, Script
  <2>2. Scenario = "poster" /\ pc \in 1 .. 8
    BY <1>2, <2>1 DEF TypeOK, InScript, Scenario, ToRun
  <2>3. QED
    BY <1>2, <2>1, <2>2, KillAssumption DEF TypeOK, At
<1>3. CASE turn = 3
  <2>1. Script[Scenario] = <<"connect", "base_l1", "base_l2", "kill",
                             "l1_during", "l2_during", "restart", "l2_after">>
    BY <1>3 DEF Scenario, ToRun, Script
  <2>2. Scenario = "validator" /\ pc \in 1 .. 8
    BY <1>3, <2>1 DEF TypeOK, InScript, Scenario, ToRun
  <2>3. QED
    BY <1>3, <2>1, <2>2, KillAssumption DEF TypeOK, At
<1>4. QED
  BY <1>1, <1>2, <1>3 DEF TypeOK, Over, ToRun

\* A scenario that ends makes room for the next one.
LEMMA EndsTyped ==
  ASSUME TypeOK, ~Over, NEW o \in {"passed", "failed", "error"}, Ends(o)
  PROVE  /\ turn' = turn + 1 /\ turn' \in 1 .. Len(ToRun) + 1
         /\ pc' = 1 /\ InScript'
         /\ findings' = {}
         /\ attempts' \in 1 .. Attempts
         /\ before' \in [{"l1", "l2"} -> Nat] /\ during' \in [{"l1", "l2"} -> Nat]
         /\ results' \in [Containers -> {"none", "passed", "failed", "error"}]
         /\ results' = [results EXCEPT ![Scenario] = o]
<1>1. turn \in 1 .. 3 /\ Len(ToRun) = 3
  BY DEF TypeOK, Over, ToRun
<1>2. turn' = turn + 1 /\ pc' = 1 /\ turn' \in 1 .. Len(ToRun) + 1
  BY <1>1 DEF Ends
<1>3. InScript'
  BY <1>2 DEF InScript
<1>4. Scenario \in Containers
  BY <1>1, KillAssumption DEF Scenario, ToRun
<1>5. attempts' \in 1 .. Attempts
  BY KillAssumption DEF Ends
<1>6. before' \in [{"l1", "l2"} -> Nat] /\ during' \in [{"l1", "l2"} -> Nat]
  BY DEF Ends, NoReadings
<1>7. findings' = {} /\ results' = [results EXCEPT ![Scenario] = o]
  BY DEF Ends
<1>8. results' \in [Containers -> {"none", "passed", "failed", "error"}]
  BY <1>4, <1>7 DEF TypeOK
<1>9. QED
  BY <1>2, <1>3, <1>5, <1>6, <1>7, <1>8

\* An await that goes well ends the scenario or moves it to its next step.
LEMMA ProceedsTyped ==
  ASSUME TypeOK, InScript, ~Over, NEW t \in SUBSET Titles, Proceeds(t)
  PROVE  /\ pc = Len(Script[Scenario]) =>
              Ends(IF findings \cup t = {} THEN "passed" ELSE "failed")
         /\ pc # Len(Script[Scenario]) =>
              /\ turn' = turn /\ pc' = pc + 1 /\ InScript'
              /\ findings' = findings \cup t
              /\ attempts' = attempts /\ results' = results
<1>1. turn \in 1 .. 3 /\ pc \in 1 .. (IF turn = 1 THEN 9 ELSE 8)
      /\ Len(Script[Scenario]) = (IF turn = 1 THEN 9 ELSE 8)
  BY Scripts DEF InScript
<1>2. ASSUME pc # Len(Script[Scenario])
      PROVE  /\ turn' = turn /\ pc' = pc + 1 /\ findings' = findings \cup t
             /\ attempts' = attempts /\ results' = results
  BY <1>2 DEF Proceeds
<1>3. ASSUME pc # Len(Script[Scenario])
      PROVE  InScript'
  <2>1. turn' = turn /\ pc' = pc + 1
    BY <1>2, <1>3
  <2>2. pc + 1 \in 1 .. (IF turn = 1 THEN 9 ELSE 8)
    BY <1>1, <1>3
  <2>3. QED
    BY <2>1, <2>2 DEF InScript
<1>4. pc = Len(Script[Scenario]) =>
        Ends(IF findings \cup t = {} THEN "passed" ELSE "failed")
  BY DEF Proceeds
<1>5. QED
  BY <1>2, <1>3, <1>4

-----------------------------------------------------------------------------

LEMMA TypeStep ==
  ASSUME TypeOK, InScript, [Next]_vars
  PROVE  TypeOK' /\ InScript'
<1>1. CASE UNCHANGED vars
  BY <1>1 DEF TypeOK, InScript, Over, HostTypeOK, vars, chain, readings, history
<1> SUFFICES ASSUME Next PROVE TypeOK' /\ InScript'
  BY <1>1
<1> ~Over
  BY DEF Next
<1> USE DEF HostTypeOK, chain, readings, history, Fails, L2Refuses
<1>2. ASSUME NEW t \in SUBSET Titles, Proceeds(t)
      PROVE  /\ turn' \in 1 .. Len(ToRun) + 1 /\ pc' \in 1 .. 9 /\ InScript'
             /\ findings' \subseteq Titles /\ attempts' \in 1 .. Attempts
             /\ results' \in [Containers -> {"none", "passed", "failed", "error"}]
  <2>1. CASE pc = Len(Script[Scenario])
    <3> DEFINE o == IF findings \cup t = {} THEN "passed" ELSE "failed"
    <3>1. Ends(o) /\ o \in {"passed", "failed", "error"}
      BY <1>2, <2>1, ProceedsTyped
    <3>2. QED
      BY <3>1, EndsTyped
  <2>2. CASE pc # Len(Script[Scenario])
    <3>1. /\ turn' = turn /\ pc' = pc + 1 /\ InScript'
          /\ findings' = findings \cup t
          /\ attempts' = attempts /\ results' = results
      BY <1>2, <2>2, ProceedsTyped
    <3>2. pc + 1 \in 1 .. 9
      BY <2>2, Scripts DEF TypeOK, InScript
    <3>3. QED
      BY <3>1, <3>2 DEF TypeOK
  <2>3. QED
    BY <2>1, <2>2
<1>3. Scenario \in Containers /\ ~(At("l1_after") /\ pc # 9) /\ ~(At("l2_after") /\ pc # 8)
  BY Scripts
<1>4. CASE Connect
  BY <1>2, <1>4 DEF Connect, TypeOK
<1>5. CASE Baseline
  BY <1>2, <1>5 DEF Baseline, TypeOK
<1>6. CASE KillVictim
  BY <1>2, <1>3, <1>6 DEF KillVictim, Kill, Becomes, Victim, TypeOK
<1>7. ASSUME NEW c, NEW title \in Titles PROVE If(c, title) \in SUBSET Titles
  BY DEF If
<1>8. CASE L1During
  BY <1>2, <1>7, <1>8 DEF L1During, Titles, TypeOK
<1>9. CASE L2During
  BY <1>2, <1>3, <1>7, <1>9 DEF L2During, Blames, Titles, TypeOK
<1>10. CASE L2Down
  <2> PICK t \in SUBSET Titles : Proceeds(t)
    BY <1>7, <1>10 DEF L2Down, Titles
  <2>1. failures' \in 0 .. MaxFailures
    BY <1>10, KillAssumption DEF L2Down, TypeOK
  <2>2. QED
    BY <1>2, <1>10, <2>1 DEF L2Down, TypeOK
<1>11. CASE RestartVictim
  BY <1>2, <1>3, <1>11 DEF RestartVictim, Restart, Becomes, Victim, TypeOK
<1>12. CASE Recover
  <2>1. failures' \in 0 .. MaxFailures
    BY <1>12, KillAssumption DEF Recover, TypeOK
  <2>2. CASE \E t \in SUBSET Titles : Proceeds(t) /\ UNCHANGED readings
    BY <1>2, <1>12, <2>1, <2>2 DEF Recover, TypeOK
  <2>3. CASE /\ attempts # 1 /\ attempts' = attempts - 1
             /\ UNCHANGED <<turn, pc, findings, results, readings>>
    BY <1>12, <2>1, <2>3, KillAssumption DEF Recover, TypeOK, InScript, Over
  <2>4. QED
    BY <1>12, <2>2, <2>3 DEF Recover, Fewer, Titles
<1>13. ASSUME L1After \/ L2After
       PROVE  before' \in [{"l1", "l2"} -> Nat] /\ during' \in [{"l1", "l2"} -> Nat]
  <2> PICK t \in SUBSET Titles : Proceeds(t)
    BY <1>7, <1>13 DEF L1After, L2After, Titles
  <2>1. pc = Len(Script[Scenario])
    BY <1>13, Scripts DEF L1After, L2After, TypeOK
  <2> DEFINE o == IF findings \cup t = {} THEN "passed" ELSE "failed"
  <2>2. Ends(o) /\ o \in {"passed", "failed", "error"}
    BY <2>1, ProceedsTyped
  <2>3. QED
    BY <2>2, EndsTyped
<1>14. CASE L1After
  BY <1>2, <1>7, <1>13, <1>14 DEF L1After, Titles, TypeOK
<1>15. CASE L2After
  BY <1>2, <1>3, <1>7, <1>13, <1>15 DEF L2After, Blames, Titles, TypeOK
<1>16. CASE AwaitFails
  <2>0. failures' = failures \/ Fails
    BY <1>16 DEF AwaitFails
  <2>1. failures' \in 0 .. MaxFailures
    BY <2>0, KillAssumption DEF TypeOK
  <2>2. Ends("error") /\ UNCHANGED <<status, chain, history>>
    BY <1>16 DEF AwaitFails
  <2>3. QED
    BY <2>1, <2>2, EndsTyped DEF TypeOK
<1>17. CASE L1Block
  BY <1>17, KillAssumption DEF L1Block, TypeOK, InScript, Over
<1>18. CASE L2Block
  BY <1>18, KillAssumption DEF L2Block, TypeOK, InScript, Over
<1>19. CASE ContainerDies
  BY <1>19, KillAssumption DEF ContainerDies, Dies, Becomes, TypeOK, InScript, Over
<1>20. QED
  BY <1>4, <1>5, <1>6, <1>8, <1>9, <1>10, <1>11, <1>12, <1>14, <1>15, <1>16,
     <1>17, <1>18, <1>19 DEF Next, Runner

\* Every state of every run has its type, and the running scenario is at one
\* of the awaits of its script.
THEOREM TypeCorrect == Spec => [](TypeOK /\ InScript)
<1>1. Init => TypeOK /\ InScript
  <2> SUFFICES ASSUME Init PROVE TypeOK /\ InScript
    OBVIOUS
  <2>1. HostTypeOK /\ InScript
    BY DEF Init, InScript, HostInit, HostTypeOK
  <2>2. turn \in 1 .. Len(ToRun) + 1 /\ pc \in 1 .. 9
    BY DEF Init, ToRun
  <2>3. /\ before \in [{"l1", "l2"} -> Nat] /\ during \in [{"l1", "l2"} -> Nat]
        /\ results \in [Containers -> {"none", "passed", "failed", "error"}]
    BY DEF Init, NoReadings
  <2>4. /\ l1 \in 0 .. MaxL1 /\ l2 \in 0 .. MaxL2
        /\ attempts \in 1 .. Attempts /\ failures \in 0 .. MaxFailures
    BY KillAssumption DEF Init
  <2>5. /\ findings \subseteq Titles /\ died \subseteq Containers
        /\ blamed \subseteq Containers /\ raced \in BOOLEAN /\ resumed \in BOOLEAN
    BY DEF Init
  <2>6. QED
    BY <2>1, <2>2, <2>3, <2>4, <2>5 DEF TypeOK
<1>2. TypeOK /\ InScript /\ [Next]_vars => (TypeOK /\ InScript)'
  BY TypeStep
<1>3. QED
  BY <1>1, <1>2, PTL DEF Spec

-----------------------------------------------------------------------------

\* No scenario that is still to end has a result.
Pending == \A i \in 1 .. 3 : i >= turn => results[ToRun[i]] = "none"

\* A container that does not run died by itself, was left behind by an error,
\* or is the victim of the running scenario, between its kill and its restart.
Accounted ==
  \A c \in Containers :
    \/ status[c] = "running" \/ c \in died \/ results[c] = "error"
    \/ ~Over /\ c = Scenario /\ pc \in 5 .. 7

\* The sequencer scenario blames nobody, and what it leaves behind stays.
Blameless == (turn = 1 => blamed = {}) /\ FalseBlameNeedsError

\* While the sequencer is down L2 stands still at the baseline, unless it had
\* left it before; from the restart on, leaving the baseline is resuming.
Quiet ==
  /\ turn = 1 /\ pc \in 5 .. 7 =>
       ~SequencerUp /\ (raced \/ l2 = before["l2"])
  /\ turn = 1 /\ pc \in 8 .. 9 => raced \/ l2 = before["l2"] \/ resumed
  /\ turn = 1 /\ pc = 9 => raced \/ resumed \/ findings # {}
  /\ QuietPassMeansResumed

KillInv == Pending /\ Accounted /\ Blameless /\ Quiet

LEMMA KillInit == Init => KillInv
<1> SUFFICES ASSUME Init PROVE KillInv
  OBVIOUS
<1>1. Pending
  BY KillAssumption DEF Init, Pending, ToRun
<1>2. Accounted
  BY DEF Init, HostInit, Accounted
<1>3. Blameless
  BY DEF Init, Blameless, FalseBlameNeedsError
<1>4. Quiet
  BY KillAssumption DEF Init, Quiet, QuietPassMeansResumed
<1>5. QED
  BY <1>1, <1>2, <1>3, <1>4 DEF KillInv

\* The end of a scenario, whatever its result: what its outcome says of the
\* containers and of L2 has to be known before.
LEMMA EndsInv ==
  ASSUME TypeOK, InScript, KillInv, ~Over, UNCHANGED <<status, died, raced, resumed>>,
         NEW o \in {"passed", "failed", "error"}, Ends(o),
         o = "error" \/ pc \notin 5 .. 7,
         turn = 1 /\ o = "passed" => raced \/ resumed,
         blamed' # {} => turn > 1 /\ (results["sequencer"] = "error" \/ "sequencer" \in died)
  PROVE  KillInv'
<1> USE DEF KillInv
<1>1. /\ turn' = turn + 1 /\ turn \in 1 .. 3 /\ Scenario \in Containers
      /\ results' = [results EXCEPT ![Scenario] = o]
      /\ results \in [Containers -> {"none", "passed", "failed", "error"}]
  BY EndsTyped, Scripts DEF TypeOK
<1>2. Pending'
  BY <1>1, KillAssumption DEF Pending, Scenario, ToRun
<1>3. Accounted'
  <2> SUFFICES ASSUME NEW c \in Containers, status[c] # "running", c \notin died
               PROVE  results'[c] = "error"
    BY DEF Accounted
  <2>1. CASE c = Scenario
    <3>1. results[c] # "error"
      BY <1>1, <2>1 DEF Pending, Scenario
    <3>2. pc \in 5 .. 7
      BY <3>1 DEF Accounted
    <3>3. QED
      BY <1>1, <2>1, <3>2
  <2>2. CASE c # Scenario
    BY <1>1, <2>2 DEF Accounted
  <2>3. QED
    BY <2>1, <2>2
<1>4. Quiet'
  <2>1. results'["sequencer"] = "passed" /\ ~raced => resumed
    <3>1. CASE turn = 1
      BY <1>1, <3>1, Scripts, KillAssumption
    <3>2. CASE turn # 1
      BY <1>1, <3>2, Scripts, KillAssumption DEF Quiet, QuietPassMeansResumed
    <3>3. QED
      BY <3>1, <3>2
  <2>2. QED
    BY <1>1, <2>1 DEF Quiet, QuietPassMeansResumed
<1>5. Blameless'
  <2>1. blamed' # {} => results'["sequencer"] = "error" \/ "sequencer" \in died'
    BY <1>1, Scripts, KillAssumption
  <2>2. QED
    BY <1>1, <2>1 DEF Blameless, FalseBlameNeedsError
<1>6. QED
  BY <1>2, <1>3, <1>4, <1>5

\* A dead sequencer is accounted for, once its own scenario is over.
LEMMA DeadSequencer ==
  ASSUME TypeOK, InScript, KillInv, ~Over, turn > 1, ~SequencerUp
  PROVE  results["sequencer"] = "error" \/ "sequencer" \in died
<1>1. "sequencer" \in Containers /\ Scenario # "sequencer"
  BY Scripts, KillAssumption
<1>2. QED
  BY <1>1 DEF KillInv, Accounted, SequencerUp

\* An await that goes well without ending the scenario and without touching
\* the containers.
LEMMA StaysInv ==
  ASSUME TypeOK, InScript, KillInv, ~Over, UNCHANGED <<status, died, results, turn>>,
         pc' = pc \/ (pc' = pc + 1 /\ pc \notin {4, 7}),
         UNCHANGED <<l2, raced, resumed>>,
         before'["l2"] = before["l2"] \/ pc < 4,
         turn = 1 /\ pc' = 9 => raced \/ resumed \/ findings' # {},
         blamed' # blamed => turn > 1 /\ ~SequencerUp
  PROVE  KillInv'
<1> USE DEF KillInv
<1>1. Pending'
  BY DEF Pending
<1>2. Accounted'
  BY DEF Accounted, Over, Scenario, TypeOK
<1>3. Blameless'
  BY DeadSequencer DEF Blameless, FalseBlameNeedsError
<1>4. Quiet'
  <2>1. pc \in 1 .. 9
    BY DEF TypeOK
  <2>2. turn' = turn /\ raced' = raced /\ l2' = l2 /\ resumed' = resumed
        /\ SequencerUp' = SequencerUp
    BY DEF SequencerUp
  <2>3. /\ pc' \in 5 .. 7 => pc \in 5 .. 7
        /\ pc' \in 8 .. 9 => pc \in 8 .. 9
        /\ pc' \in 5 .. 9 => before'["l2"] = before["l2"]
    BY <2>1
  <2>4. turn' = 1 /\ pc' \in 5 .. 7 =>
          ~SequencerUp' /\ (raced' \/ l2' = before'["l2"])
    BY <2>2, <2>3 DEF Quiet
  <2>5. turn' = 1 /\ pc' \in 8 .. 9 =>
          raced' \/ l2' = before'["l2"] \/ resumed'
    BY <2>2, <2>3 DEF Quiet
  <2>6. turn' = 1 /\ pc' = 9 => raced' \/ resumed' \/ findings' # {}
    OBVIOUS
  <2>7. QuietPassMeansResumed'
    BY DEF Quiet, QuietPassMeansResumed
  <2>8. QED
    BY <2>4, <2>5, <2>6, <2>7 DEF Quiet
<1>5. QED
  BY <1>1, <1>2, <1>3, <1>4

LEMMA KillStep ==
  ASSUME TypeOK, InScript, KillInv, [Next]_vars
  PROVE  KillInv'
<1>1. CASE UNCHANGED vars
  BY <1>1 DEF KillInv, Pending, Accounted, Blameless, Quiet, SequencerUp, Over,
     Scenario, FalseBlameNeedsError, QuietPassMeansResumed, vars, chain, readings,
     history
<1> SUFFICES ASSUME Next PROVE KillInv'
  BY <1>1
<1> ~Over
  BY DEF Next
<1> USE DEF chain, readings, history
<1>2. ASSUME NEW c, NEW title \in Titles PROVE If(c, title) \in SUBSET Titles
  BY DEF If
<1>3. ASSUME NEW t \in SUBSET Titles, Proceeds(t), pc < 8 \/ (turn = 1 /\ pc = 8)
      PROVE  /\ UNCHANGED <<turn, results>> /\ pc' = pc + 1
             /\ findings' = findings \cup t
  BY <1>3, ProceedsTyped, Scripts
<1>4. CASE Connect
  BY <1>3, <1>4, StaysInv, Scripts DEF Connect
<1>5. CASE Baseline
  <2>1. pc \in {2, 3}
    BY <1>5, Scripts DEF Baseline
  <2>2. QED
    BY <1>3, <1>5, <2>1, StaysInv DEF Baseline
<1>6. CASE KillVictim
  <2>1. pc = 4 /\ pc' = 5 /\ UNCHANGED <<turn, results>>
    BY <1>3, <1>6, Scripts DEF KillVictim
  <2>2. Pending'
    BY <2>1 DEF KillInv, Pending
  <2>3. Accounted'
    BY <1>6, <2>1 DEF KillVictim, Kill, Becomes, Victim, Scenario, Over, KillInv,
       Accounted, TypeOK, HostTypeOK
  <2>4. Blameless'
    BY <1>6, <2>1 DEF KillVictim, KillInv, Blameless, FalseBlameNeedsError
  <2>5. Quiet'
    <3>1. turn = 1 => ~SequencerUp' /\ (raced' \/ l2' = before'["l2"])
      BY <1>6, Scripts DEF KillVictim, Kill, Becomes, Victim, SequencerUp, TypeOK,
         HostTypeOK
    <3>2. turn # 1 => raced' = raced
      BY <1>6, Scripts DEF KillVictim, Victim
    <3>3. turn = 1 => results["sequencer"] = "none"
      BY DEF KillInv, Pending, ToRun
    <3>4. QED
      BY <1>6, <2>1, <3>1, <3>2, <3>3 DEF KillVictim, KillInv, Quiet,
         QuietPassMeansResumed
  <2>6. QED
    BY <2>2, <2>3, <2>4, <2>5 DEF KillInv
<1>7. CASE L1During
  <2> PICK t \in SUBSET Titles : Proceeds(t)
    BY <1>2, <1>7 DEF L1During, Titles
  <2>1. pc \in {5, 6}
    BY <1>7, Scripts DEF L1During
  <2>2. QED
    BY <1>3, <1>7, <2>1, StaysInv DEF L1During
<1>8. CASE L2During
  <2> PICK t \in SUBSET Titles : Proceeds(t)
    BY <1>2, <1>8 DEF L2During, Titles
  <2>1. pc \in {5, 6} /\ turn > 1
    BY <1>8, Scripts DEF L2During
  <2>2. blamed' # blamed => ~SequencerUp
    BY <1>8 DEF L2During, Blames
  <2>3. QED
    BY <1>3, <1>8, <2>1, <2>2, StaysInv DEF L2During
<1>9. CASE L2Down
  <2> PICK t \in SUBSET Titles : Proceeds(t)
    BY <1>2, <1>9 DEF L2Down, Titles
  <2>1. pc = 6
    BY <1>9, Scripts DEF L2Down
  <2>2. QED
    BY <1>3, <1>9, <2>1, StaysInv DEF L2Down
<1>10. CASE RestartVictim
  <2>1. pc = 7 /\ pc' = 8 /\ UNCHANGED <<turn, results>>
    BY <1>3, <1>10, Scripts DEF RestartVictim
  <2>2. Scenario \in Containers /\ (Scenario = "sequencer" <=> turn = 1)
    BY Scripts
  <2>3. Pending'
    BY <2>1 DEF KillInv, Pending
  <2>4. Accounted'
    BY <1>10, <2>1, <2>2 DEF RestartVictim, Restart, Becomes, Victim, KillInv,
       Accounted, TypeOK, HostTypeOK
  <2>5. Blameless'
    BY <1>10, <2>1, <2>2 DEF RestartVictim, Victim, KillInv, Blameless,
       FalseBlameNeedsError
  <2>6. Quiet'
    <3>1. CASE turn = 1
      <4>1. results["sequencer"] = "none"
        BY <3>1 DEF KillInv, Pending, ToRun
      <4>2. QED
        BY <1>10, <2>1, <3>1, <4>1 DEF RestartVictim, KillInv, Quiet,
           QuietPassMeansResumed
    <3>2. CASE turn # 1
      BY <1>10, <2>1, <2>2, <3>2 DEF RestartVictim, Victim, KillInv, Quiet,
         QuietPassMeansResumed
    <3>3. QED
      BY <3>1, <3>2
  <2>7. QED
    BY <2>3, <2>4, <2>5, <2>6 DEF KillInv
<1>11. CASE Recover
  <2>1. turn = 1 /\ pc = 8
    BY <1>11, Scripts DEF Recover
  <2>2. UNCHANGED <<status, chain, readings, history>>
    <3>1. CASE \E t \in SUBSET Titles : Proceeds(t) /\ UNCHANGED readings
      BY <1>11, <3>1 DEF Recover
    <3>2. CASE UNCHANGED readings
      BY <1>11, <3>2 DEF Recover
    <3>3. QED
      BY <1>11, <3>1, <3>2 DEF Recover
  <2>3. CASE HasRecovered /\ Proceeds({})
    <3>1. l2 # before["l2"]
      BY <2>3 DEF HasRecovered, TypeOK
    <3>2. raced \/ resumed
      BY <2>1, <3>1 DEF KillInv, Quiet
    <3>3. QED
      BY <1>3, <2>1, <2>2, <2>3, <3>2, StaysInv
  <2>4. CASE Proceeds({"not_recovered"})
    BY <1>3, <2>1, <2>2, <2>4, StaysInv DEF Titles
  <2>5. CASE UNCHANGED <<turn, pc, findings, results>>
    BY <2>1, <2>2, <2>5, StaysInv
  <2>6. QED
    BY <1>11, <2>3, <2>4, <2>5 DEF Recover
<1>12. CASE L1After
  <2> PICK t \in SUBSET Titles : Proceeds(t)
    BY <1>2, <1>12 DEF L1After, Titles
  <2> DEFINE o == IF findings \cup t = {} THEN "passed" ELSE "failed"
  <2>1. turn = 1 /\ pc = 9 /\ Ends(o)
    BY <1>12, Scripts, ProceedsTyped DEF L1After
  <2>2. o = "passed" => raced \/ resumed
    BY <2>1 DEF KillInv, Quiet
  <2>3. blamed' = {}
    BY <1>12, <2>1 DEF L1After, KillInv, Blameless
  <2>4. UNCHANGED <<status, died, raced, resumed>>
    BY <1>12 DEF L1After
  <2>5. QED
    BY <2>1, <2>2, <2>3, <2>4, EndsInv
<1>13. CASE L2After
  <2> PICK t \in SUBSET Titles : Proceeds(t)
    BY <1>2, <1>13 DEF L2After, Titles
  <2> DEFINE o == IF findings \cup t = {} THEN "passed" ELSE "failed"
  <2>1. turn > 1 /\ pc = 8 /\ Ends(o)
    BY <1>13, Scripts, ProceedsTyped DEF L2After
  <2>2. blamed' # {} => results["sequencer"] = "error" \/ "sequencer" \in died
    BY <1>13, <2>1, DeadSequencer DEF L2After, Blames, KillInv, Blameless,
       FalseBlameNeedsError
  <2>3. UNCHANGED <<status, died, raced, resumed>>
    BY <1>13 DEF L2After
  <2>4. QED
    BY <2>1, <2>2, <2>3, EndsInv
<1>14. CASE AwaitFails
  <2>1. Ends("error") /\ UNCHANGED <<status, died, raced, resumed, blamed>>
    BY <1>14 DEF AwaitFails
  <2>2. blamed' # {} => turn > 1 /\ (results["sequencer"] = "error" \/ "sequencer" \in died)
    BY <2>1, Scripts DEF KillInv, Blameless, FalseBlameNeedsError
  <2>3. QED
    BY <2>1, <2>2, EndsInv
<1>15. CASE L1Block
  BY <1>15, StaysInv DEF L1Block, KillInv, Quiet
<1>16. CASE L2Block
  <2>1. Quiet'
    BY <1>16 DEF L2Block, KillInv, Quiet, QuietPassMeansResumed, SequencerUp
  <2>2. Accounted'
    BY <1>16 DEF L2Block, KillInv, Accounted, Over, Scenario
  <2>3. Pending' /\ Blameless'
    BY <1>16 DEF L2Block, KillInv, Pending, Blameless, FalseBlameNeedsError
  <2>4. QED
    BY <2>1, <2>2, <2>3 DEF KillInv
<1>17. CASE ContainerDies
  <2>1. Quiet'
    BY <1>17, KillAssumption DEF ContainerDies, Dies, Becomes, KillInv, Quiet,
       QuietPassMeansResumed, SequencerUp, TypeOK, HostTypeOK
  <2>2. Accounted'
    BY <1>17 DEF ContainerDies, Dies, Becomes, KillInv, Accounted, Over, Scenario,
       TypeOK, HostTypeOK
  <2>3. Blameless'
    BY <1>17 DEF ContainerDies, KillInv, Blameless, FalseBlameNeedsError
  <2>4. Pending'
    BY <1>17 DEF ContainerDies, KillInv, Pending
  <2>5. QED
    BY <2>1, <2>2, <2>3, <2>4 DEF KillInv
<1>18. QED
  BY <1>4, <1>5, <1>6, <1>7, <1>8, <1>9, <1>10, <1>11, <1>12, <1>13, <1>14,
     <1>15, <1>16, <1>17 DEF Next, Runner

\* KillInv is inductive: it relates the containers, the position in the
\* script, the readings and the results.
THEOREM KillInvariant == Spec => []KillInv
<1>1. TypeOK /\ InScript /\ KillInv /\ [Next]_vars => KillInv'
  BY KillStep
<1>2. QED
  BY <1>1, KillInit, TypeCorrect, PTL DEF Spec

-----------------------------------------------------------------------------

\* When all scenarios have run without an error, every container they killed
\* runs again or died by itself (the restart of each scenario).
THEOREM RunsCleanUp == Spec => []CleanUnlessError
<1>1. KillInv => CleanUnlessError
  BY DEF KillInv, Accounted, CleanUnlessError
<1>2. QED
  BY <1>1, KillInvariant, PTL

\* A scenario blames its own kill for a sequencer that is down for another
\* reason only if the sequencer scenario ended in an error or the sequencer
\* died by itself (L2 checks of the poster and validator scenarios).
THEOREM FalseBlameExplained == Spec => []FalseBlameNeedsError
<1>1. KillInv => FalseBlameNeedsError
  BY DEF KillInv, Blameless
<1>2. QED
  BY <1>1, KillInvariant, PTL

\* If L2 did not move between the baseline and the kill, a pass of the
\* sequencer scenario means that L2 produced a block after the restart.
THEOREM QuietPassTrue == Spec => []QuietPassMeansResumed
<1>1. KillInv => QuietPassMeansResumed
  BY DEF KillInv, Quiet
<1>2. QED
  BY <1>1, KillInvariant, PTL

=============================================================================

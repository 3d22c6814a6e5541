--------------------- MODULE ShutdownCoordinator_proofs ---------------------
(* Proofs about ShutdownCoordinator, for every number of stages, every        *)
(* timeout, deadline and lag.                                                 *)
EXTENDS ShutdownCoordinator, SequenceTheorems, WellFoundedInduction, TLAPS

(* Where the loop is decides everything else it has done. *)
LoopInv ==
  /\ completion = "none" => pos = 0 /\ ~waiting /\ ~exited
  /\ completion # "none" => pos \in 1..(NStages + 1)
  /\ completion = "done" => exited
  /\ waiting => completion = "running" /\ ~exited /\ pos \in Stages

(* The stages before pos are settled, the ones after it untouched. *)
StageInv ==
  /\ \A i \in Stages : i < pos => outcome[i] \in {"ok", "failed", "cut"}
  /\ \A i \in Stages : i >= pos /\ ~(waiting /\ i = pos) => outcome[i] = "unstarted"
  /\ waiting => outcome[pos] = "started"
  /\ failed <=> \E i \in Stages : outcome[i] = "failed"
  /\ (\E i \in Stages : outcome[i] = "cut") => forced
  /\ \A i \in Stages : outcome[i] = "cut" => i = pos - 1

(* What was decided when exit was called. *)
ExitInv ==
  /\ ~exited => exits = <<>> /\ ~forced
  /\ exited => Len(exits) = 1
  /\ exited /\ forced => exits[1] = 1 /\ \E i \in Stages : outcome[i] = "cut"
  /\ exited /\ ~forced => pos = NStages + 1 /\ exits[1] = IF failed THEN 1 ELSE 0

IInv == TypeOK /\ LoopInv /\ StageInv /\ ExitInv

LEMMA IInvInit == Init => IInv
<1> SUFFICES ASSUME Init PROVE IInv
  OBVIOUS
<1> USE CoordinatorAssumption DEF Init, Stages
<1>1. TypeOK
  <2>1. exits \in Seq({0, 1})
    BY EmptySeq
  <2>2. outcome \in [Stages -> Outcomes]
    BY DEF Outcomes
  <2>3. pos \in 0..(NStages + 1)
    OBVIOUS
  <2> QED
    BY <2>1, <2>2, <2>3 DEF TypeOK
<1>2. LoopInv
  BY DEF LoopInv
<1>3. StageInv
  BY DEF StageInv
<1>4. ExitInv
  BY DEF ExitInv
<1> QED
  BY <1>1, <1>2, <1>3, <1>4 DEF IInv

(* finish() called before the exit leaves one code behind. *)
LEMMA FinishOnce ==
  ASSUME ~exited, exits = <<>>, NEW code \in {0, 1}, Finish(code)
  PROVE  /\ exited' = TRUE /\ exits' \in Seq({0, 1})
         /\ exits' # <<>> /\ Len(exits') = 1 /\ exits'[1] = code
<1>1. exits \in Seq({0, 1}) /\ Len(exits) = 0
  BY EmptySeq
<1>2. exited' = TRUE /\ exits' = Append(exits, code)
  BY DEF Finish
<1> QED
  BY <1>1, <1>2, AppendProperties

(* What a settled or cut stage leaves for the ones before and after it. *)
LEMMA StageEnds ==
  ASSUME TypeOK, LoopInv, StageInv, waiting, ~forced,
         NEW v \in {"ok", "failed", "cut"},
         outcome' = [outcome EXCEPT ![pos] = v], pos' = pos + 1
  PROVE  /\ pos \in Stages /\ pos' \in 1..(NStages + 1) /\ pos' = pos + 1
         /\ outcome' \in [Stages -> Outcomes]
         /\ \A i \in Stages : outcome'[i] = IF i = pos THEN v ELSE outcome[i]
         /\ \A i \in Stages : outcome[i] # "cut"
         /\ \A i \in Stages : i < pos' => outcome'[i] \in {"ok", "failed", "cut"}
         /\ \A i \in Stages : i >= pos' => outcome'[i] = "unstarted"
<1> USE CoordinatorAssumption DEF Stages
<1>1. pos \in Stages /\ pos' \in 1..(NStages + 1)
  BY DEF LoopInv
<1>2. outcome \in [Stages -> Outcomes] /\ v \in Outcomes
  BY DEF TypeOK, Outcomes
<1>3. outcome' \in [Stages -> Outcomes]
  BY <1>1, <1>2
<1>4. \A i \in Stages : outcome'[i] = IF i = pos THEN v ELSE outcome[i]
  BY <1>1, <1>2
<1>5. \A i \in Stages : i < pos => outcome[i] \in {"ok", "failed", "cut"}
  BY DEF StageInv
<1>6. \A i \in Stages : i > pos => outcome[i] = "unstarted"
  BY <1>1 DEF StageInv
<1>7. \A i \in Stages : i < pos' => outcome'[i] \in {"ok", "failed", "cut"}
  <2> SUFFICES ASSUME NEW i \in Stages, i < pos' PROVE outcome'[i] \in {"ok", "failed", "cut"}
    OBVIOUS
  <2>1. CASE i = pos
    BY <2>1, <1>4
  <2>2. CASE i < pos
    BY <2>2, <1>1, <1>4, <1>5
  <2> QED
    BY <1>1, <2>1, <2>2
<1>8. \A i \in Stages : i >= pos' => outcome'[i] = "unstarted"
  <2> SUFFICES ASSUME NEW i \in Stages, i >= pos' PROVE outcome'[i] = "unstarted"
    OBVIOUS
  <2>1. i > pos /\ i # pos
    BY <1>1
  <2>2. outcome[i] = "unstarted"
    BY <2>1, <1>6
  <2> QED
    BY <2>1, <2>2, <1>4
<1>9. \A i \in Stages : outcome[i] # "cut"
  BY DEF StageInv
<1> QED
  BY <1>1, <1>3, <1>4, <1>7, <1>8, <1>9

(* The inductive step, action by action. *)
LEMMA IInvNext == IInv /\ [Next]_vars => IInv'
<1> SUFFICES ASSUME IInv, [Next]_vars PROVE IInv'
  OBVIOUS
<1> USE CoordinatorAssumption DEF Stages
<1>0. TypeOK /\ LoopInv /\ StageInv /\ ExitInv
  BY DEF IInv
<1>1. CASE Request
  <2>1. TypeOK'
    BY <1>0, <1>1 DEF Request, TypeOK
  <2>2. LoopInv'
    BY <1>0, <1>1 DEF Request, LoopInv, TypeOK
  <2>3. StageInv'
    BY <1>0, <1>1 DEF Request, StageInv, LoopInv, TypeOK
  <2>4. ExitInv'
    BY <1>0, <1>1 DEF Request, ExitInv, LoopInv
  <2> QED
    BY <2>1, <2>2, <2>3, <2>4 DEF IInv
<1>2. ASSUME NEW i \in Stages, BeginStage(i) PROVE IInv'
  <2> USE <1>2 DEF BeginStage, MayBegin
  <2>1. TypeOK'
    BY <1>0 DEF TypeOK, Outcomes
  <2>2. LoopInv'
    BY <1>0 DEF LoopInv, TypeOK
  <2>3. \A j \in Stages : outcome'[j] = IF j = i THEN "started" ELSE outcome[j]
    BY <1>0 DEF TypeOK
  <2>4. outcome[i] = "unstarted" /\ pos = i /\ ~waiting
    BY <1>0 DEF StageInv, TypeOK
  <2>5. StageInv'
    BY <1>0, <2>3, <2>4 DEF StageInv, TypeOK
  <2>6. ExitInv'
    BY <1>0 DEF ExitInv
  <2> QED
    BY <2>1, <2>2, <2>5, <2>6 DEF IInv
<1>3. ASSUME NEW v \in {"ok", "failed"}, Settle(v) PROVE IInv'
  <2>1. /\ waiting /\ ~waiting' /\ waiting' \in BOOLEAN
        /\ outcome' = [outcome EXCEPT ![pos] = v] /\ pos' = pos + 1
        /\ UNCHANGED <<completion, exited, exits, forced, began, since, now>>
    BY <1>3 DEF Settle, NextPos
  <2>2. failed' \in BOOLEAN /\ (failed' <=> failed \/ v = "failed")
    BY <1>3, Zenon DEF Settle, Tally
  <2>3. ~exited /\ ~forced /\ completion = "running"
    BY <1>0, <2>1 DEF LoopInv, ExitInv
  <2>4. /\ pos \in Stages /\ pos' \in 1..(NStages + 1)
        /\ outcome' \in [Stages -> Outcomes]
        /\ \A i \in Stages : outcome'[i] = IF i = pos THEN v ELSE outcome[i]
        /\ \A i \in Stages : outcome[i] # "cut"
        /\ \A i \in Stages : i < pos' => outcome'[i] \in {"ok", "failed", "cut"}
        /\ \A i \in Stages : i >= pos' => outcome'[i] = "unstarted"
    BY <1>0, <2>1, <2>3, StageEnds
  <2>5. TypeOK'
    BY <1>0, <2>1, <2>2, <2>4 DEF TypeOK
  <2>6. LoopInv'
    BY <1>0, <2>1, <2>3, <2>4 DEF LoopInv
  <2>7. failed' <=> \E i \in Stages : outcome'[i] = "failed"
    <3>1. outcome[pos] = "started" /\ (failed <=> \E i \in Stages : outcome[i] = "failed")
      BY <1>0, <2>1 DEF StageInv
    <3> QED
      BY <2>2, <2>4, <3>1
  <2>8. \A i \in Stages : outcome'[i] # "cut"
    BY <2>4
  <2>9. StageInv'
    BY <2>1, <2>4, <2>7, <2>8 DEF StageInv
  <2>10. ExitInv'
    BY <1>0, <2>1, <2>3 DEF ExitInv
  <2> QED
    BY <2>5, <2>6, <2>9, <2>10 DEF IInv
<1>4. CASE Watchdog
  <2>1. /\ waiting /\ ~waiting' /\ waiting' \in BOOLEAN /\ forced' = TRUE /\ Finish(1)
        /\ outcome' = [outcome EXCEPT ![pos] = "cut"] /\ pos' = pos + 1
        /\ UNCHANGED <<completion, failed, began, since, now>>
    BY <1>4 DEF Watchdog, ForceStop
  <2>2. ~exited /\ exits = <<>> /\ ~forced /\ completion = "running"
    BY <1>0, <2>1 DEF LoopInv, ExitInv
  <2>3. exited' = TRUE /\ exits' \in Seq({0, 1}) /\ Len(exits') = 1 /\ exits'[1] = 1
    BY <2>1, <2>2, FinishOnce
  <2>4. /\ pos \in Stages /\ pos' \in 1..(NStages + 1)
        /\ outcome' \in [Stages -> Outcomes]
        /\ \A i \in Stages : outcome'[i] = IF i = pos THEN "cut" ELSE outcome[i]
        /\ \A i \in Stages : outcome[i] # "cut"
        /\ \A i \in Stages : i < pos' => outcome'[i] \in {"ok", "failed", "cut"}
        /\ \A i \in Stages : i >= pos' => outcome'[i] = "unstarted"
    BY <1>0, <2>1, <2>2, StageEnds
  <2>5. TypeOK'
    BY <1>0, <2>1, <2>3, <2>4 DEF TypeOK
  <2>6. LoopInv'
    BY <1>0, <2>1, <2>2, <2>3, <2>4 DEF LoopInv
  <2>7. failed' <=> \E i \in Stages : outcome'[i] = "failed"
    <3>1. outcome[pos] = "started" /\ (failed <=> \E i \in Stages : outcome[i] = "failed")
      BY <1>0, <2>1 DEF StageInv
    <3> QED
      BY <2>1, <2>4, <3>1
  <2>8. \A i \in Stages : outcome'[i] = "cut" => i = pos' - 1
    BY <2>1, <2>4
  <2>9. StageInv'
    BY <2>1, <2>4, <2>7, <2>8 DEF StageInv
  <2>10. ExitInv'
    BY <2>1, <2>3, <2>4 DEF ExitInv
  <2> QED
    BY <2>5, <2>6, <2>9, <2>10 DEF IInv
<1>5. CASE Leave
  <2> USE <1>5 DEF Leave
  <2>1. CASE exited
    BY <1>0, <2>1 DEF Finish, IInv, TypeOK, LoopInv, StageInv, ExitInv
  <2>2. CASE ~exited
    <3> DEFINE code == IF failed THEN 1 ELSE 0
    <3>0. exits = <<>> /\ ~forced /\ pos = NStages + 1
      BY <1>0, <2>2 DEF ExitInv
    <3>1. exited' = TRUE /\ exits' \in Seq({0, 1}) /\ Len(exits') = 1 /\ exits'[1] = code
      BY <2>2, <3>0, FinishOnce
    <3>2. TypeOK'
      BY <1>0, <3>1 DEF TypeOK
    <3>3. LoopInv'
      BY <1>0, <3>1 DEF LoopInv, TypeOK
    <3>4. StageInv'
      BY <1>0 DEF StageInv
    <3>5. ExitInv'
      BY <1>0, <3>0, <3>1 DEF ExitInv
    <3> QED
      BY <3>2, <3>3, <3>4, <3>5 DEF IInv
  <2> QED
    BY <2>1, <2>2
<1>6. CASE Tick
  BY <1>0, <1>6 DEF Tick, loopvars, IInv, TypeOK, LoopInv, StageInv, ExitInv
<1>7. CASE UNCHANGED vars
  BY <1>0, <1>7 DEF vars, loopvars, IInv, TypeOK, LoopInv, StageInv, ExitInv
<1> QED
  BY <1>1, <1>2, <1>3, <1>4, <1>5, <1>6, <1>7 DEF Next, Scheduled, StageSettles, StageTimesOut

LEMMA Invariant == Spec => []IInv
  BY IInvInit, IInvNext, PTL DEF Spec

(* TypeOK holds in every state. *)
THEOREM TypeCorrect == Spec => []TypeOK
<1>1. IInv => TypeOK
  BY DEF IInv
<1> QED
  BY <1>1, Invariant, PTL

(* this.exit is called at most once, however the watchdog, the last stage and *)
(* the end of the loop are ordered.                                           *)
THEOREM ExitsOnce == Spec => []ExitOnce
<1>1. IInv => ExitOnce
  <2> SUFFICES ASSUME IInv PROVE Len(exits) <= 1
    BY DEF ExitOnce
  <2>1. CASE exited
    <3>1. Len(exits) = 1
      BY <2>1 DEF IInv, ExitInv
    <3> QED
      BY <3>1
  <2>2. CASE ~exited
    BY <2>2, EmptySeq DEF IInv, ExitInv
  <2> QED
    BY <2>1, <2>2
<1> QED
  BY <1>1, Invariant, PTL

LEMMA AllSettled ==
  ASSUME IInv, exited, ~forced
  PROVE  \A i \in Stages : outcome[i] \in {"ok", "failed"}
<1>1. pos = NStages + 1
  BY DEF IInv, ExitInv
<1> SUFFICES ASSUME NEW i \in Stages PROVE outcome[i] \in {"ok", "failed"}
  OBVIOUS
<1>2. i < pos
  BY <1>1, CoordinatorAssumption DEF Stages
<1>3. outcome[i] \in {"ok", "failed", "cut"}
  BY <1>2 DEF IInv, StageInv
<1>4. outcome[i] # "cut"
  BY DEF IInv, StageInv
<1> QED
  BY <1>3, <1>4

(* The code that exit was called with is 0 exactly when every stage succeeded. *)
THEOREM ExitCodeTrue == Spec => []ExitCodeIsTrue
<1>1. IInv => ExitCodeIsTrue
  <2> SUFFICES ASSUME IInv, exits # <<>>
               PROVE  exits[1] = 0 <=> \A i \in Stages : outcome[i] = "ok"
    BY DEF ExitCodeIsTrue
  <2>1. exited
    BY DEF IInv, ExitInv
  <2>2. CASE forced
    BY <2>1, <2>2 DEF IInv, ExitInv
  <2>3. CASE ~forced
    <3>1. pos = NStages + 1 /\ exits[1] = IF failed THEN 1 ELSE 0
      BY <2>1, <2>3 DEF IInv, ExitInv
    <3>2. \A i \in Stages : outcome[i] \in {"ok", "failed"}
      BY <2>1, <2>3, AllSettled
    <3>3. failed <=> \E i \in Stages : outcome[i] = "failed"
      BY DEF IInv, StageInv
    <3> QED
      BY <3>1, <3>2, <3>3
  <2> QED
    BY <2>2, <2>3
<1> QED
  BY <1>1, Invariant, PTL

(* No stage is started before its predecessors are over, and none is left out *)
(* of an exit the watchdog did not force.                                     *)
THEOREM NoneSkipped == Spec => []NoStageSkipped
<1>1. IInv => NoStageSkipped
  <2> SUFFICES ASSUME IInv PROVE NoStageSkipped
    OBVIOUS
  <2> USE CoordinatorAssumption DEF Stages
  <2>1. ASSUME NEW i \in Stages, NEW j \in Stages, i < j, outcome[j] # "unstarted"
        PROVE  outcome[i] \in {"ok", "failed"}
    <3>1. j <= pos
      BY <2>1 DEF IInv, StageInv, LoopInv, TypeOK
    <3>2. i < pos /\ outcome[i] \in {"ok", "failed", "cut"}
      BY <2>1, <3>1 DEF IInv, StageInv, TypeOK
    <3>3. CASE outcome[i] = "cut"
      <4>1. forced /\ exited /\ ~waiting /\ i = pos - 1
        BY <3>3 DEF IInv, StageInv, ExitInv, LoopInv
      <4>2. j = pos
        BY <2>1, <3>1, <4>1 DEF IInv, TypeOK
      <4>3. j >= pos /\ ~(waiting /\ j = pos)
        BY <4>1, <4>2
      <4>4. outcome[j] = "unstarted"
        BY <4>3 DEF IInv, StageInv
      <4> QED
        BY <2>1, <4>4
    <3> QED
      BY <3>2, <3>3
  <2>2. ASSUME exited, ~forced, NEW i \in Stages PROVE outcome[i] \in {"ok", "failed"}
    BY <2>2, AllSettled
  <2> QED
    BY <2>1, <2>2 DEF NoStageSkipped
<1> QED
  BY <1>1, Invariant, PTL

(* Once exit was called no stage is started and no verdict changes. *)
THEOREM NothingAfter == Spec => NothingAfterExit
<1>1. IInv /\ [Next]_vars => [exited => outcome' = outcome]_vars
  <2> SUFFICES ASSUME IInv, Next, exited PROVE outcome' = outcome
    OBVIOUS
  <2>1. ~waiting
    BY DEF IInv, LoopInv
  <2> QED
    BY <2>1 DEF Next, Scheduled, Request, BeginStage, MayBegin, StageSettles, Settle,
                StageTimesOut, Watchdog, Leave, Tick, loopvars
<1> QED
  BY <1>1, Invariant, PTL DEF Spec, NothingAfterExit
-----------------------------------------------------------------------------
(* No stage starts later than its budget, and its timer is never later than   *)
(* its own timeout and the lag after that.                                    *)
TimeInv ==
  /\ waiting => since <= began + Budget[pos] /\ now <= since + StageTimeout[pos] + Lag
  /\ completion = "running" /\ ~waiting => now <= began + Budget[pos]

Timely == IInv /\ TimeInv /\ WatchdogSilent

Less == {p \in Nat \X Nat : p[1] < p[2]}

LEMMA LessWellFounded == IsWellFoundedOn(Less, Nat)
  BY NatLessThanWellFounded DEF OpToRel, Less

(* The budgets only grow: where they first fell, they would have to grow. *)
LEMMA BudgetGrows ==
  ASSUME NEW i \in 1..(NStages + 1), NEW j \in 1..(NStages + 1), i <= j
  PROVE  Budget[i] <= Budget[j]
<1> DEFINE Falls == {k \in Nat : k \in i..(NStages + 1) /\ Budget[k] < Budget[i]}
<1>1. \A k \in i..(NStages + 1) : k \in Nat /\ k \in 1..(NStages + 1) /\ Budget[k] \in Nat
  BY CoordinatorAssumption
<1>2. SUFFICES ASSUME Falls # {} PROVE FALSE
  <2>1. j \in i..(NStages + 1) /\ i \in i..(NStages + 1)
    BY CoordinatorAssumption
  <2> QED
    BY <1>1, <1>2, <2>1
<1>3. PICK m \in Falls : \A k \in Falls : ~(<<k, m>> \in Less)
  <2>1. Falls \subseteq Nat
    OBVIOUS
  <2> HIDE DEF Falls
  <2> QED
    BY <1>2, <2>1, LessWellFounded, WFMin
<1>4. m \in i..(NStages + 1) /\ Budget[m] < Budget[i] /\ m # i
  BY <1>1, <1>3
<1>5. m - 1 \in i..(NStages + 1) /\ m - 1 \in Stages /\ (m - 1) + 1 = m /\ m - 1 \in Nat /\ m \in Nat
  BY <1>4, CoordinatorAssumption DEF Stages
<1>6. Budget[m] = Budget[m - 1] + StageTimeout[m - 1] + Lag /\ StageTimeout[m - 1] \in Nat /\ Lag \in Nat
  BY <1>5, CoordinatorAssumption
<1>7. Budget[m - 1] < Budget[i]
  BY <1>1, <1>4, <1>5, <1>6
<1>8. m - 1 \in Falls
  BY <1>5, <1>7
<1>9. <<m - 1, m>> \in Less
  BY <1>5 DEF Less
<1> QED
  BY <1>3, <1>8, <1>9

LEMMA BudgetFacts ==
  ASSUME NEW i \in Stages
  PROVE  /\ i + 1 \in 1..(NStages + 1) /\ StageTimeout[i] \in Nat /\ Lag \in Nat /\ Deadline \in Nat
         /\ Budget[i] \in Nat /\ Budget[i + 1] \in Nat /\ Budget[NStages + 1] \in Nat
         /\ Budget[i + 1] = Budget[i] + StageTimeout[i] + Lag
         /\ Budget[i + 1] <= Budget[NStages + 1]
<1>1. /\ NStages \in Nat /\ i \in 1..(NStages + 1) /\ i + 1 \in 1..(NStages + 1)
      /\ NStages + 1 \in 1..(NStages + 1) /\ i + 1 <= NStages + 1
  BY CoordinatorAssumption DEF Stages
<1>2. Budget[i + 1] <= Budget[NStages + 1]
  BY <1>1, BudgetGrows
<1> QED
  BY <1>1, <1>2, CoordinatorAssumption

(* The await of a stage is over before its budget and its own time are used up. *)
LEMMA EndsInTime ==
  ASSUME Timely, waiting
  PROVE  /\ now <= began + Budget[pos + 1]
         /\ WatchdogDue => Deadline <= Budget[pos + 1]
<1>1. pos \in Stages /\ now \in Nat /\ since \in Nat /\ began \in Nat
  BY DEF Timely, IInv, LoopInv, TypeOK
<1>2. since <= began + Budget[pos] /\ now <= since + StageTimeout[pos] + Lag
  BY DEF Timely, TimeInv
<1>3. /\ StageTimeout[pos] \in Nat /\ Lag \in Nat /\ Deadline \in Nat
      /\ Budget[pos] \in Nat /\ Budget[pos + 1] \in Nat
      /\ Budget[pos + 1] = Budget[pos] + StageTimeout[pos] + Lag
  BY <1>1, BudgetFacts
<1>4. now <= began + Budget[pos + 1]
  BY <1>1, <1>2, <1>3
<1> QED
  BY <1>1, <1>3, <1>4 DEF WatchdogDue

LEMMA TimelyNext == Timely /\ [Next]_vars => Timely'
<1> SUFFICES ASSUME Timely, [Next]_vars PROVE Timely'
  OBVIOUS
<1>0. IInv /\ IInv' /\ TypeOK /\ LoopInv /\ TimeInv /\ WatchdogSilent
  BY IInvNext DEF Timely, IInv
<1>1. CASE Request
  <2>1. now \in Nat /\ Budget[1] = 0
    BY <1>0, CoordinatorAssumption DEF TypeOK
  <2> QED
    BY <1>0, <1>1, <2>1 DEF Request, Timely, TimeInv, WatchdogSilent, LoopInv
<1>2. ASSUME NEW i \in Stages, BeginStage(i) PROVE Timely'
  <2>1. /\ pos = i /\ pos' = i /\ waiting' = TRUE /\ since' = now /\ ~waiting /\ completion = "running"
        /\ UNCHANGED <<completion, began, now>>
    BY <1>2 DEF BeginStage
  <2>2. StageTimeout[i] \in Nat /\ Lag \in Nat /\ now \in Nat
    BY <1>0, BudgetFacts DEF TypeOK
  <2>3. now <= began + Budget[i]
    BY <1>0, <2>1 DEF TimeInv
  <2>4. now <= now + StageTimeout[i] + Lag
    BY <2>2
  <2>5. TimeInv'
    BY <1>0, <2>1, <2>3, <2>4 DEF TimeInv
  <2>6. WatchdogSilent'
    BY <1>0, <1>2 DEF BeginStage, WatchdogSilent, TypeOK
  <2> QED
    BY <1>0, <2>5, <2>6 DEF Timely
<1>3. ASSUME NEW v \in {"ok", "failed"}, Settle(v) PROVE Timely'
  <2>1. waiting /\ ~waiting' /\ pos' = pos + 1 /\ UNCHANGED <<completion, began, now>>
    BY <1>3 DEF Settle, NextPos
  <2>2. now <= began + Budget[pos + 1]
    BY <2>1, EndsInTime
  <2>3. TimeInv'
    BY <1>0, <2>1, <2>2 DEF TimeInv
  <2>4. WatchdogSilent'
    BY <1>0, <1>3 DEF Settle, WatchdogSilent, TypeOK
  <2> QED
    BY <1>0, <2>3, <2>4 DEF Timely
<1>4. CASE Watchdog
  <2>1. /\ waiting /\ WatchdogDue /\ ~waiting' /\ pos' = pos + 1 /\ UNCHANGED <<completion, began, now>>
        /\ outcome' = [outcome EXCEPT ![pos] = "cut"]
    BY <1>4 DEF Watchdog
  <2>2. now <= began + Budget[pos + 1] /\ Deadline <= Budget[pos + 1]
    BY <2>1, EndsInTime
  <2>3. TimeInv'
    BY <1>0, <2>1, <2>2 DEF TimeInv
  <2>4. WatchdogSilent'
    BY <1>0, <2>1, <2>2 DEF WatchdogSilent, TypeOK
  <2> QED
    BY <1>0, <2>3, <2>4 DEF Timely
<1>5. CASE Leave
  BY <1>0, <1>5 DEF Leave, Timely, TimeInv, WatchdogSilent
<1>6. CASE Tick
  <2>1. /\ waiting /\ now' = now + 1 /\ now < since + StageTimeout[pos] + Lag
        /\ UNCHANGED <<completion, pos, waiting, outcome, began, since>>
    BY <1>6 DEF Tick, MayTick, loopvars
  <2>2. now \in Nat /\ since \in Nat /\ StageTimeout[pos] \in Nat /\ Lag \in Nat
    BY <1>0, <2>1, BudgetFacts DEF TypeOK, LoopInv
  <2>3. now + 1 <= since + StageTimeout[pos] + Lag
    BY <2>1, <2>2
  <2> QED
    BY <1>0, <2>1, <2>3 DEF Timely, TimeInv, WatchdogSilent
<1>7. CASE UNCHANGED vars
  BY <1>0, <1>7 DEF vars, loopvars, Timely, TimeInv, WatchdogSilent
<1> QED
  BY <1>1, <1>2, <1>3, <1>4, <1>5, <1>6, <1>7 DEF Next, Scheduled, StageSettles, StageTimesOut

(* A stage whose budget and those before it fit into the deadline is never    *)
(* cut, whatever the stages do.                                               *)
THEOREM WatchdogNeverNeeded == Spec => []WatchdogSilent
<1>1. Init => Timely
  BY IInvInit, CoordinatorAssumption DEF Init, Timely, TimeInv, WatchdogSilent
<1>2. Timely => WatchdogSilent
  BY DEF Timely
<1> QED
  BY <1>1, <1>2, TimelyNext, PTL DEF Spec
-----------------------------------------------------------------------------
LEMMA NotExited == IInv /\ waiting => exits = <<>> /\ completion = "running" /\ ~forced /\ pos \in Stages
  BY DEF IInv, LoopInv, ExitInv

LEMMA ResultTyped == IInv => outcome \in [Stages -> Outcomes]
  BY DEF IInv, TypeOK

(* A stage that settles does so in OrderlyExit. *)
LEMMA SettleRefines ==
  ASSUME IInv, NEW v \in {"ok", "failed"}, Settle(v)
  PROVE  Abs!Settle(pos, v)
<1>1. /\ waiting /\ outcome' = [outcome EXCEPT ![pos] = v]
      /\ UNCHANGED <<exits, completion>>
  BY DEF Settle
<1>2. exits = <<>> /\ completion = "running" /\ ~forced /\ pos \in Stages
  BY <1>1, NotExited
<1>3. Phase = "running" /\ Phase' = "running"
  BY <1>1, <1>2 DEF Phase
<1>4. Result[pos] = "none"
  <2>1. outcome[pos] = "started"
    BY <1>1 DEF IInv, StageInv
  <2> QED
    BY <1>2, <2>1 DEF Result
<1>5. ASSUME NEW j \in 1..(pos - 1) PROVE Result[j] # "none"
  <2>1. j \in Stages /\ j < pos
    BY <1>2, CoordinatorAssumption DEF Stages
  <2>2. outcome[j] \in {"ok", "failed", "cut"} /\ outcome[j] # "cut"
    BY <1>2, <2>1 DEF IInv, StageInv
  <2> QED
    BY <2>1, <2>2 DEF Result
<1>6. Result' = [Result EXCEPT ![pos] = v]
  <2>1. \A i \in Stages : outcome'[i] = IF i = pos THEN v ELSE outcome[i]
    BY <1>1, ResultTyped
  <2> QED
    BY <2>1, <1>2 DEF Result
<1> QED
  BY <1>3, <1>4, <1>5, <1>6 DEF Abs!Settle, Abs!Settled

(* A watchdog that fires is an abort: the stage it cuts has no verdict. *)
LEMMA WatchdogRefines == IInv /\ Watchdog => Abs!Abort
<1> SUFFICES ASSUME IInv, Watchdog PROVE Abs!Abort
  OBVIOUS
<1>1. waiting /\ Finish(1) /\ outcome' = [outcome EXCEPT ![pos] = "cut"]
  BY DEF Watchdog
<1>2. exits = <<>> /\ completion = "running" /\ pos \in Stages /\ ~exited
  BY <1>1, NotExited DEF IInv, LoopInv
<1>3. exits' # <<>> /\ exits'[1] = 1 /\ forced'
  BY <1>1, <1>2, FinishOnce DEF Watchdog, ForceStop
<1>4. Phase = "running" /\ Phase' = "aborted"
  BY <1>2, <1>3 DEF Phase
<1>5. Result' = Result
  <2>1. \A i \in Stages : outcome'[i] = IF i = pos THEN "cut" ELSE outcome[i]
    BY <1>1, ResultTyped
  <2>2. outcome[pos] = "started"
    BY <1>1 DEF IInv, StageInv
  <2> QED
    BY <2>1, <2>2 DEF Result
<1> QED
  BY <1>4, <1>5 DEF Abs!Abort

(* The end of the loop concludes, unless the watchdog has done so before. *)
LEMMA LeaveRefines == IInv /\ Leave => Abs!Conclude \/ UNCHANGED Abs!absvars
<1> SUFFICES ASSUME IInv, Leave PROVE Abs!Conclude \/ UNCHANGED Abs!absvars
  OBVIOUS
<1> DEFINE code == IF failed THEN 1 ELSE 0
<1>0. completion = "running" /\ completion' = "done" /\ Finish(code) /\ UNCHANGED <<outcome, forced>>
      /\ (exited \/ pos = NStages + 1)
  BY DEF Leave
<1>1. Result' = Result
  BY <1>0 DEF Result
<1>2. CASE exited
  <2>1. exits' = exits /\ Len(exits) = 1
    BY <1>0, <1>2 DEF Finish, IInv, ExitInv
  <2>2. exits # <<>>
    BY <2>1, EmptySeq
  <2>3. Phase' = Phase
    BY <1>0, <2>1, <2>2 DEF Phase
  <2> QED
    BY <1>1, <2>3 DEF Abs!absvars
<1>3. CASE ~exited
  <2>1. exits = <<>> /\ ~forced /\ pos = NStages + 1
    BY <1>0, <1>3 DEF IInv, ExitInv
  <2>2. exits' # <<>> /\ exits'[1] = code
    BY <1>0, <1>3, <2>1, FinishOnce
  <2>3. Phase = "running" /\ Phase' = IF failed THEN "dirty" ELSE "clean"
    BY <1>0, <2>1, <2>2 DEF Phase
  <2>4. ASSUME NEW i \in Stages PROVE outcome[i] \in {"ok", "failed"}
    <3>1. i < pos
      BY <2>1, CoordinatorAssumption DEF Stages
    <3> QED
      BY <2>1, <3>1 DEF IInv, StageInv
  <2>5. \A i \in Stages : Result[i] = outcome[i] /\ Result[i] # "none"
    BY <2>4 DEF Result
  <2>6. failed <=> \E i \in Stages : outcome[i] = "failed"
    BY DEF IInv, StageInv
  <2>7. ~failed <=> \A i \in Stages : Result[i] = "ok"
    BY <2>4, <2>5, <2>6
  <2> QED
    BY <1>1, <2>3, <2>5, <2>7 DEF Abs!Conclude, Abs!Settled, Stages
<1> QED
  BY <1>2, <1>3

(* Every step of the coordinator is a step of OrderlyExit or none at all. *)
LEMMA StepRefines == IInv /\ [Next]_vars => [Abs!Next]_(Abs!absvars)
<1> SUFFICES ASSUME IInv, [Next]_vars PROVE [Abs!Next]_(Abs!absvars)
  OBVIOUS
<1>1. CASE Request
  <2>1. completion = "none" /\ completion' = "running" /\ exits = <<>> /\ UNCHANGED <<exits, outcome>>
    BY <1>1 DEF Request, IInv, LoopInv, ExitInv
  <2>2. Phase = "idle" /\ Phase' = "running" /\ Result' = Result
    BY <2>1 DEF Phase, Result
  <2> QED
    BY <2>2 DEF Abs!Next, Abs!Request
<1>2. ASSUME NEW i \in Stages, BeginStage(i) PROVE UNCHANGED Abs!absvars
  <2>1. /\ outcome' = [outcome EXCEPT ![i] = "started"]
        /\ UNCHANGED <<exits, completion, forced>>
        /\ outcome[i] = "unstarted"
    BY <1>2, CoordinatorAssumption DEF BeginStage, IInv, StageInv, Stages
  <2>2. \A j \in Stages : outcome'[j] = IF j = i THEN "started" ELSE outcome[j]
    BY <2>1, ResultTyped
  <2>3. Result' = Result
    BY <2>1, <2>2 DEF Result
  <2>4. Phase' = Phase
    BY <2>1 DEF Phase
  <2> QED
    BY <2>3, <2>4 DEF Abs!absvars
<1>3. ASSUME NEW v \in {"ok", "failed"}, Settle(v) PROVE Abs!Next
  <2>1. pos \in Stages
    BY <1>3, NotExited DEF Settle
  <2> QED
    BY <1>3, <2>1, SettleRefines DEF Abs!Next, Abs!Progress, Stages
<1>4. CASE Watchdog
  BY <1>4, WatchdogRefines DEF Abs!Next, Abs!Progress
<1>5. CASE Leave
  BY <1>5, LeaveRefines DEF Abs!Next, Abs!Progress
<1>6. CASE Tick \/ UNCHANGED vars
  <2>1. UNCHANGED <<exits, completion, forced, outcome>>
    BY <1>6 DEF Tick, loopvars, vars
  <2> QED
    BY <2>1 DEF Abs!absvars, Phase, Result
<1> QED
  BY <1>1, <1>2, <1>3, <1>4, <1>5, <1>6 DEF Next, Scheduled, StageSettles, StageTimesOut

(* The coordinator implements OrderlyExit, as far as safety goes. *)
THEOREM Refinement == Spec => Abs!SafeSpec
<1>1. Init => Abs!Init
  BY DEF Init, Abs!Init, Phase, Result, Stages
<1> QED
  BY <1>1, StepRefines, Invariant, PTL DEF Spec, Abs!SafeSpec
=============================================================================

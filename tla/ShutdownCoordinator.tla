------------------------- MODULE ShutdownCoordinator -------------------------
(* src/sandbox/src/main/shutdown.ts: ShutdownCoordinator.run with its stages, *)
(* the timer withTimeout gives each of them, and the overall watchdog. Node   *)
(* drains its microtasks before the next timer or I/O callback, so nothing    *)
(* runs between the end of one stage's await and the start of the next:       *)
(* time, timers and stage results are taken only while the loop is waiting.   *)
EXTENDS Integers, Sequences

CONSTANTS
  NStages,       \* how many stages the coordinator was given
  StageTimeout,  \* [1..NStages -> Nat], stage.timeoutMs
  Deadline,      \* deadlineMs
  Lag,           \* how late the event loop may run a timer that is due
  Budget         \* Budget[i]: the latest stage i can start after the request

Stages == 1..NStages

ASSUME CoordinatorAssumption ==
  /\ NStages \in Nat /\ Deadline \in Nat /\ Lag \in Nat
  /\ StageTimeout \in [Stages -> Nat]
  /\ Budget \in [1..(NStages + 1) -> Nat]
  /\ Budget[1] = 0
  /\ \A i \in Stages : Budget[i + 1] = Budget[i] + StageTimeout[i] + Lag

VARIABLES
  completion,  \* this.completion: "none", "running" (pending) or "done"
  pos,         \* the stage the loop is at, 0 before the request
  waiting,     \* the loop awaits stage pos
  outcome,     \* what the loop saw of each stage
  failed,      \* let failed
  exited,      \* let exited
  exits,       \* the codes this.exit was called with
  forced,      \* this.forceStop was called
  began,       \* startedAt of the run
  since,       \* when the current stage's timer was armed
  now

loopvars == <<completion, pos, waiting, outcome, failed, exited, exits, forced, began, since>>
vars == <<loopvars, now>>

Outcomes == {"unstarted", "started", "ok", "failed", "cut"}

TypeOK ==
  /\ completion \in {"none", "running", "done"}
  /\ pos \in 0..(NStages + 1)
  /\ waiting \in BOOLEAN /\ failed \in BOOLEAN /\ exited \in BOOLEAN /\ forced \in BOOLEAN
  /\ outcome \in [Stages -> Outcomes]
  /\ exits \in Seq({0, 1})
  /\ began \in Nat /\ since \in Nat /\ now \in Nat

Init ==
  /\ completion = "none" /\ pos = 0 /\ waiting = FALSE
  /\ outcome = [i \in Stages |-> "unstarted"]
  /\ failed = FALSE /\ exited = FALSE /\ exits = <<>> /\ forced = FALSE
  /\ began = 0 /\ since = 0 /\ now = 0

StageDue == now >= since + StageTimeout[pos]
WatchdogDueAtOnce == now >= began
WatchdogDue == now >= began + Deadline

FinishSilently(code) == exited' = TRUE /\ UNCHANGED exits
FinishAgain(code) == exited' = TRUE /\ exits' = Append(exits, code)

(* const finish: the first call exits, later ones return. *)
Finish(code) ==
  IF exited THEN UNCHANGED <<exited, exits>>
            ELSE exited' = TRUE /\ exits' = Append(exits, code)

(* request(): only the first call starts a run, the others get its promise. *)
Request ==
  /\ completion = "none"
  /\ completion' = "running" /\ pos' = 1 /\ began' = now
  /\ UNCHANGED <<waiting, outcome, failed, exited, exits, forced, since, now>>

MayBegin == ~exited

(* The head of the loop: call stage.stop and arm its timer. *)
BeginStage(i) ==
  /\ completion = "running" /\ ~waiting /\ pos = i
  /\ MayBegin
  /\ waiting' = TRUE /\ since' = now
  /\ outcome' = [outcome EXCEPT ![i] = "started"]
  /\ UNCHANGED <<completion, pos, failed, exited, exits, forced, began, now>>

ForgetFailure(v) == v = "failed"
Tally(v) == failed \/ v = "failed"

StopAtFailure(v) == IF v = "failed" THEN NStages + 1 ELSE pos + 1
NextPos(v) == pos + 1

Settle(v) ==
  /\ waiting
  /\ outcome' = [outcome EXCEPT ![pos] = v]
  /\ failed' = Tally(v)
  /\ pos' = NextPos(v) /\ waiting' = FALSE
  /\ UNCHANGED <<completion, exited, exits, forced, began, since, now>>

(* The stage's own promise resolves ("ok") or rejects ("failed") in time. *)
StageSettles(v) == Settle(v)

(* Timers run in the order they expire. *)
StageTimesOut == waiting /\ StageDue /\ Settle("failed")

ExitWithoutForce == UNCHANGED forced
ForceStop == forced' = TRUE

Watchdog ==
  /\ waiting /\ WatchdogDue
  /\ since + StageTimeout[pos] < began + Deadline => ~StageDue
  /\ ForceStop
  /\ Finish(1)
  /\ outcome' = [outcome EXCEPT ![pos] = "cut"]
  /\ pos' = pos + 1 /\ waiting' = FALSE
  /\ UNCHANGED <<completion, failed, began, since, now>>

(* After the loop, or a break out of it: finish, then clear the watchdog. *)
Leave ==
  /\ completion = "running" /\ ~waiting
  /\ exited \/ pos = NStages + 1
  /\ Finish(IF failed THEN 1 ELSE 0)
  /\ completion' = "done"
  /\ UNCHANGED <<pos, waiting, outcome, failed, forced, began, since, now>>

(* No timer runs more than Lag late. *)
MayTick ==
  waiting => /\ now < since + StageTimeout[pos] + Lag
             /\ now < began + Deadline + Lag

Tick == waiting /\ MayTick /\ now' = now + 1 /\ UNCHANGED loopvars

Scheduled == (\E i \in Stages : BeginStage(i)) \/ StageTimesOut \/ Watchdog \/ Leave \/ Tick

Next == Request \/ Scheduled \/ \E v \in {"ok", "failed"} : StageSettles(v)

(* Node runs what is due: microtasks, timers, and the passage of time. That a *)
(* stage ever settles, or that anyone asks to quit, is not assumed.           *)
Spec == Init /\ [][Next]_vars /\ WF_vars(Scheduled)
-----------------------------------------------------------------------------
(* The application is told to exit at most once, whatever the order in which  *)
(* the watchdog and the last stage come (const finish, line 43).              *)
ExitOnce == Len(exits) <= 1

(* The exit code is 0 exactly when every stage completed in time: a failure   *)
(* is never forgotten by a later success, and the watchdog never reports 0.   *)
ExitCodeIsTrue == exits # <<>> => (exits[1] = 0 <=> \A i \in Stages : outcome[i] = "ok")

(* A stage starts only after every earlier one succeeded or failed, and a     *)
(* failed or stalled stage never keeps a later one from being tried: only the *)
(* watchdog, which forces everything, leaves stages untried.                  *)
NoStageSkipped ==
  /\ \A i, j \in Stages : i < j /\ outcome[j] # "unstarted" => outcome[i] \in {"ok", "failed"}
  /\ exited /\ ~forced => \A i \in Stages : outcome[i] \in {"ok", "failed"}

(* No stage is started, and no verdict changes, once exit was called. *)
NothingAfterExit == [][exited => outcome' = outcome]_vars

(* The watchdog cuts a stage only when the timeouts and lags of the stages up *)
(* to it can use the deadline up: with the application's 31+2+2+2 s and 40 s  *)
(* it never cuts an orderly shutdown short (shutdown.ts:49, main.ts:330).     *)
WatchdogSilent == \A i \in Stages : outcome[i] = "cut" => Deadline <= Budget[i + 1]

(* A requested shutdown ends in an exit, even if no stage ever settles. *)
ExitsEventually == (completion = "running") ~> (exits # <<>>)

(* What a caller of request() can tell of the coordinator. *)
Phase ==
  IF exits = <<>> THEN IF completion = "none" THEN "idle" ELSE "running"
  ELSE IF exits[1] = 0 THEN "clean"
  ELSE IF forced THEN "aborted" ELSE "dirty"
Result == [i \in Stages |-> IF outcome[i] \in {"ok", "failed"} THEN outcome[i] ELSE "none"]

Abs == INSTANCE OrderlyExit WITH phase <- Phase, result <- Result

(* The coordinator keeps the promise of OrderlyExit: stages settle in order,  *)
(* none is skipped over a failure unless everything is forced, and the exit   *)
(* tells the truth about them.                                                *)
ImplementsOrderlyExit == Abs!Spec
=============================================================================

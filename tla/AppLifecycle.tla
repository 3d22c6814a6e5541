----------------------------- MODULE AppLifecycle -----------------------------
(* src/sandbox/src/main/main.ts: startVm, and the four shutdown stages handed *)
(* to the ShutdownCoordinator, over the VM, the two servers and the runtime   *)
(* directory (workspace.ts). A step of a component and the continuation of    *)
(* startVm it resumes are one step. Once the application has exited only the  *)
(* QEMU process can still move.                                               *)
EXTENDS Integers, Sequences

CONSTANTS
  StageTimeout, Deadline, Budget,       \* ShutdownCoordinator's
  CmdTimeout, WaitTimeout, KillTimeout, \* QemuProcess's
  QemuStopTimeout,                      \* what stage 1 allows vm.stop(): 30 s
  Sockets                               \* ListeningServer's

(* The timeouts are whole numbers, Budget adds up those of the stages, and    *)
(* vm.stop() is given up before stage 1 is (main.ts:331,332: 31 s, 30 s).     *)
ASSUME AppAssumption ==
  /\ StageTimeout \in [1..4 -> Nat] /\ Budget \in [1..5 -> Nat]
  /\ Budget[1] = 0 /\ \A i \in 1..4 : Budget[i + 1] = Budget[i] + StageTimeout[i]
  /\ Deadline \in Nat /\ CmdTimeout \in Nat /\ WaitTimeout \in Nat /\ KillTimeout \in Nat
  /\ QemuStopTimeout \in Nat /\ QemuStopTimeout <= StageTimeout[1]

VARIABLES
  quitting,   \* set by before-quit
  appPc,      \* startVm: the await it is at, or how it ended
  dir,        \* runtimeDir: "none", "empty", "files", "unlinking", "gone" or "kept"
  now,
  completion, pos, waiting, outcome, failed, exited, exits, sdForced, began, since,
  vmStart, proc, qmp, vmStopping, stopPc, stopTimer, stopAt, serial, pty, signals, vmForced,
  shareStart, shareServer, shareStopping, shareStopped, shareOpen, shareDoomed,
  proxyStart, proxyServer, proxyStopping, proxyStopped, proxyOpen, proxyDoomed

SD == INSTANCE ShutdownCoordinator WITH NStages <- 4, Lag <- 0, forced <- sdForced
VM == INSTANCE QemuProcess WITH
        startPc <- vmStart, stopping <- vmStopping, forced <- vmForced, Lag <- 0
Share == INSTANCE ListeningServer WITH
        start <- shareStart, server <- shareServer, stopping <- shareStopping,
        stopped <- shareStopped, open <- shareOpen, doomed <- shareDoomed, ErrorRejects <- TRUE
Proxy == INSTANCE ListeningServer WITH
        start <- proxyStart, server <- proxyServer, stopping <- proxyStopping,
        stopped <- proxyStopped, open <- proxyOpen, doomed <- proxyDoomed, ErrorRejects <- FALSE

appvars == <<quitting, appPc, dir>>
channels == <<serial, pty>>
vmvars == <<vmStart, proc, qmp, vmStopping, stopPc, stopTimer, stopAt, channels, signals, vmForced>>
sdvars == <<completion, pos, waiting, outcome, failed, exited, exits, sdForced, began, since>>
sharevars == <<shareStart, shareServer, shareStopping, shareStopped, shareOpen, shareDoomed>>
proxyvars == <<proxyStart, proxyServer, proxyStopping, proxyStopped, proxyOpen, proxyDoomed>>
vars == <<appvars, now, sdvars, vmvars, sharevars, proxyvars>>

TypeOK ==
  /\ quitting \in BOOLEAN
  /\ appPc \in {"window", "share", "proxy", "vm", "ready", "error", "rejected", "quit"}
  /\ dir \in {"none", "empty", "files", "unlinking", "gone", "kept"}
  /\ SD!TypeOK /\ VM!TypeOK /\ Share!TypeOK /\ Proxy!TypeOK

Init ==
  /\ quitting = FALSE /\ appPc = "window" /\ dir = "none"
  /\ SD!Init /\ VM!Init /\ Share!Init /\ Proxy!Init

Alive == exits = <<>>

(* vm, proxy and share are null until startVm has come that far. *)
HasVm == vmStart # "idle"
HasProxy == proxyStart # "idle"
HasShare == shareStart # "idle"
-----------------------------------------------------------------------------
(* startVm *)
MayGoOn == ~quitting

StartVm ==
  /\ appPc = "window"
  /\ IF MayGoOn
     THEN /\ dir' = "empty"
          /\ \/ appPc' = "share" /\ Share!Begin
             \/ appPc' = "error" /\ UNCHANGED sharevars  \* no root image
     ELSE appPc' = "quit" /\ UNCHANGED <<dir, sharevars>>
  /\ UNCHANGED <<quitting, now, sdvars, vmvars, proxyvars>>

(* share.start() settles: write the marker, look for the workspace image, and *)
(* go on to the proxy. A throw here is only logged.                           *)
ShareStarts ==
  /\ appPc = "share" /\ shareStart = "preparing"
  /\ Share!PrepareFails \/ Share!Listen
  /\ IF shareStart' = "up" /\ MayGoOn
     THEN \/ appPc' = "proxy" /\ Proxy!Begin
          \/ appPc' \in {"error", "rejected"} /\ UNCHANGED proxyvars
     ELSE /\ appPc' = IF shareStart' = "up" THEN "quit" ELSE "rejected"
          /\ UNCHANGED proxyvars
  /\ UNCHANGED <<quitting, dir, now, sdvars, vmvars>>

(* proxy.start() settles: write the files the guest is given, make the VM and *)
(* start it. A proxy that hangs leaves startVm where it is.                   *)
ProxyStarts ==
  /\ appPc = "proxy" /\ proxyStart = "preparing"
  /\ Proxy!PrepareFails \/ Proxy!Listen
  /\ IF proxyStart' = "up" /\ MayGoOn
     THEN /\ dir' = "files"
          /\ \/ appPc' = "vm" /\ VM!Start
             \/ appPc' = "rejected" /\ UNCHANGED <<vmvars, now>>
     ELSE /\ appPc' = CASE proxyStart' = "up" -> "quit"
                        [] proxyStart' = "hung" -> "proxy"
                        [] proxyStart' = "rejected" -> "rejected"
          /\ UNCHANGED <<dir, vmvars, now>>
  /\ UNCHANGED <<quitting, sdvars, sharevars>>

(* vm.start() settles in a step of the VM. *)
VmStartSettles ==
  appPc' = IF appPc = "vm" /\ vmStart' = "up"
           THEN IF quitting THEN "quit" ELSE "ready"
           ELSE IF appPc = "vm" /\ vmStart' = "failed" THEN "error" ELSE appPc

(* Steps the VM and QEMU take by themselves. *)
VmStep ==
  /\ VM!SpawnQemu \/ VM!QmpConnectFails \/ VM!QmpLost \/ VM!Channels \/ VM!Replies
  /\ VmStartSettles
  /\ UNCHANGED <<quitting, dir, sdvars, sharevars, proxyvars>>

VmTimers ==
  /\ VM!CommandTimesOut \/ VM!PowerdownOver \/ VM!TermOver \/ VM!KillOver
  /\ VmStartSettles
  /\ UNCHANGED <<quitting, dir, sdvars, sharevars, proxyvars>>

Guests ==
  /\ \/ (Share!Connections \/ Share!Closed) /\ UNCHANGED proxyvars
     \/ (Proxy!Connections \/ Proxy!Closed) /\ UNCHANGED sharevars
  /\ UNCHANGED <<appvars, now, sdvars, vmvars>>
-----------------------------------------------------------------------------
(* Shutdown *)
Quit ==
  /\ quitting' = TRUE
  /\ SD!Request
  /\ UNCHANGED <<appPc, dir, vmvars, sharevars, proxyvars>>

CleanAnyway == TRUE
MayClean == ~VM!Running

(* Stage 4 refuses while QEMU runs, else it starts to unlink the known files. *)
BeginStage ==
  /\ pos \in 1..4 /\ SD!BeginStage(pos)
  /\ IF pos = 1 /\ HasVm THEN VM!Stop /\ VmStartSettles ELSE UNCHANGED <<vmvars, appPc>>
  /\ IF pos = 2 /\ HasProxy THEN Proxy!Stop ELSE UNCHANGED proxyvars
  /\ IF pos = 3 /\ HasShare THEN Share!Stop ELSE UNCHANGED sharevars
  /\ dir' = IF pos = 4 /\ dir # "none" /\ MayClean THEN "unlinking" ELSE dir
  /\ UNCHANGED quitting

(* A stage's promise resolves. *)
StageDone ==
  /\ waiting
  /\ \/ pos = 1 /\ (HasVm => stopPc = "done")
     \/ pos = 2 /\ (HasProxy => proxyStopped = "resolved")
     \/ pos = 3 /\ (HasShare => shareStopped = "resolved")
     \/ pos = 4 /\ dir \in {"none", "gone", "kept"}
  /\ SD!StageSettles("ok")
  /\ UNCHANGED <<appvars, vmvars, sharevars, proxyvars>>

InnerDue == now >= since + QemuStopTimeout

SkipForce == vmForced' = TRUE /\ UNCHANGED <<vmStart, proc, qmp, vmStopping, stopPc, stopTimer, stopAt, channels, signals>>
StageForce == VM!ForceStop

(* vm.stop() rejected, or took longer than stage 1 allows it. *)
VmStopFails ==
  /\ waiting /\ pos = 1 /\ HasVm
  /\ stopPc = "failed" \/ InnerDue
  /\ StageForce /\ VmStartSettles
  /\ SD!StageSettles("failed")
  /\ UNCHANGED <<quitting, dir, sharevars, proxyvars>>

(* cleanupRuntimeDir ends, in time or not: files that are not the             *)
(* application's keep the directory.                                          *)
Rmdir ==
  /\ dir = "unlinking"
  /\ dir' \in {"gone", "kept"}
  /\ UNCHANGED <<quitting, appPc, now, sdvars, vmvars, sharevars, proxyvars>>

CleanupFails ==
  /\ waiting /\ pos = 4
  /\ dir \in {"empty", "files", "unlinking"}
  /\ SD!StageSettles("failed")
  /\ UNCHANGED <<appvars, vmvars, sharevars, proxyvars>>

StageTimesOut ==
  /\ ~(pos = 1 /\ InnerDue)
  /\ SD!StageTimesOut
  /\ UNCHANGED <<appvars, vmvars, sharevars, proxyvars>>

Watchdog ==
  /\ SD!Watchdog
  /\ IF HasVm THEN VM!ForceStop /\ VmStartSettles ELSE UNCHANGED <<vmvars, appPc>>
  /\ IF HasProxy THEN Proxy!ForceStop ELSE UNCHANGED proxyvars
  /\ IF HasShare THEN Share!ForceStop ELSE UNCHANGED sharevars
  /\ UNCHANGED <<quitting, dir>>

Leave == SD!Leave /\ UNCHANGED <<appvars, vmvars, sharevars, proxyvars>>

Tick ==
  /\ now' = now + 1
  /\ SD!Tick
  /\ VM!MayTick
  /\ pos = 1 => now < since + QemuStopTimeout
  /\ UNCHANGED <<appvars, vmvars, sharevars, proxyvars>>

(* The process ends; the application, if it is still there, sees it. *)
QemuExits ==
  /\ IF Alive THEN VM!Exit ELSE VM!Running /\ proc' = "exited" /\ VM!HangUp
                                /\ UNCHANGED <<vmStart, qmp, vmStopping, stopPc, stopTimer, stopAt, serial, signals, vmForced, now>>
  /\ UNCHANGED <<appvars, sdvars, sharevars, proxyvars>>

(* A stage with nothing to wait for, and the step from one stage to the next, *)
(* take no turn of the event loop: nothing else runs meanwhile.               *)
Immediate ==
  \/ pos = 1 /\ ~HasVm
  \/ pos = 2 /\ ~HasProxy
  \/ pos = 3 /\ ~HasShare
  \/ pos = 4 /\ dir \in {"none", "empty", "files"}
SameTurn == Alive /\ completion = "running" /\ (waiting => Immediate)

Turn == BeginStage \/ Leave \/ StageDone \/ CleanupFails
Timers == StageTimesOut \/ VmStopFails \/ Watchdog \/ VmTimers \/ Tick
Startup == StartVm \/ ShareStarts \/ ProxyStarts \/ VmStep
Stages == StageDone \/ Rmdir \/ CleanupFails

Scheduled == (SameTurn /\ Turn) \/ (Alive /\ ~SameTurn /\ Timers)

Next ==
  \/ Scheduled
  \/ Alive /\ ~SameTurn /\ (Startup \/ Guests \/ Quit \/ Stages)
  \/ ~SameTurn /\ QemuExits

(* Timers run when they are due and the loop goes on. That the guest, QEMU,   *)
(* the disk or a server ever does anything is not assumed.                    *)
Spec == Init /\ [][Next]_vars /\ WF_vars(Scheduled)
-----------------------------------------------------------------------------
(* The application never leaves a QEMU behind that it has not killed: when it *)
(* has exited QEMU is gone, or SIGKILL was sent to it, wherever in startVm    *)
(* the quit came (qemu.ts:75, main.ts:199,238, main.ts:333,346).              *)
NoOrphanVm == ~Alive => ~VM!Running \/ "kill" \in signals

(* Exit code 0 means that everything is put away: QEMU gone, both servers     *)
(* closed, no channel open, and the directory that held the share's token     *)
(* removed, or kept only for files that are not the application's.            *)
CleanExitIsClean ==
  exits = <<0>> =>
    /\ ~VM!Running /\ ~serial /\ pty # "up"
    /\ shareServer = "null" /\ proxyServer = "null"
    /\ dir \in {"none", "gone", "kept"}

(* A stage that succeeded stays done: no part of startVm that was under way   *)
(* brings back what it stopped, while later stages run or stall.              *)
StoppedStaysStopped ==
  /\ outcome[1] = "ok" => ~VM!Running /\ qmp = "null" /\ ~serial /\ pty # "up"
  /\ outcome[2] = "ok" => proxyServer = "null" /\ proxyOpen = {}
  /\ outcome[3] = "ok" => shareServer = "null" /\ shareOpen = {}
  /\ outcome[4] = "ok" => dir \in {"none", "gone", "kept"}

(* The sockets and files QEMU was given are not removed under it. *)
CleanupAfterVm == dir \in {"unlinking", "gone", "kept"} => ~VM!Running

(* The 30 s of stage 1 are enough for the whole escalation of vm.stop(), and  *)
(* its four stages for the watchdog: whatever QEMU answers, stage 1 never     *)
(* gives up a vm.stop() that is still waiting, and QEMU is never killed       *)
(* before it was asked to terminate.                                          *)
AskedBeforeKilled ==
  /\ waiting /\ pos = 1 /\ HasVm /\ InnerDue => stopPc \in {"done", "failed"}
  /\ "kill" \in signals => "term" \in signals

(* Quitting ends in an exit, whatever QEMU, the guest and the disk do. *)
QuitExits == quitting ~> ~Alive
=============================================================================

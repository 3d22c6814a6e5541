------------------------- MODULE AppLifecycle_proofs -------------------------
(* Proofs about AppLifecycle, for all timeouts that AppAssumption allows and  *)
(* any set of connections. Every step of the application is a step of the     *)
(* coordinator, of the VM and of both servers or leaves them alone, so their  *)
(* inductive invariants hold here too; what is added ties them together.      *)
EXTENDS AppLifecycle, TLAPS

SDP == INSTANCE ShutdownCoordinator_proofs WITH NStages <- 4, Lag <- 0, forced <- sdForced
VMP == INSTANCE QemuProcess_proofs WITH
         startPc <- vmStart, stopping <- vmStopping, forced <- vmForced, Lag <- 0

Parts == SDP!IInv /\ VMP!Timely /\ Share!StopInv /\ Proxy!StopInv

(* What startVm has not come to yet is not there. *)
VmFresh == ~HasVm => proc = "none" /\ qmp = "null" /\ ~serial /\ pty = "none"
Fresh ==
  /\ VmFresh
  /\ ~HasShare => shareServer = "null"
  /\ ~HasProxy => proxyServer = "null"

(* Stage 1 has stopped the VM there was; there is none to come. When it is    *)
(* not known to have succeeded, QEMU was killed.                              *)
VmInv ==
  /\ completion # "none" => quitting
  /\ outcome[1] # "unstarted" /\ HasVm => vmStopping
  /\ outcome[1] = "ok" /\ HasVm => stopPc = "done"
  /\ outcome[1] \in {"failed", "cut"} \/ sdForced => ~VM!Running \/ "kill" \in signals

(* The other stages have done what they are there for. *)
StagesInv ==
  /\ outcome[2] = "ok" /\ HasProxy => proxyStopped = "resolved"
  /\ outcome[3] = "ok" /\ HasShare => shareStopped = "resolved"
  /\ outcome[4] = "ok" => dir \in {"none", "gone", "kept"}
  /\ dir \in {"unlinking", "gone", "kept"} => outcome[4] # "unstarted" /\ ~VM!Running

AppInv == Fresh /\ VmInv /\ StagesInv

(* While vm.stop() is awaited, its clock is that of stage 1. *)
ClockInv == pos = 1 /\ waiting /\ HasVm => stopPc # "idle" /\ stopAt = since
-----------------------------------------------------------------------------
(* The definitions behind the two names of a component are the same. *)
LEMMA SameCoordinator == [SD!Next]_(SD!vars) <=> [SDP!Next]_(SDP!vars)
<1>1. SD!Next <=> SDP!Next
  BY DEF SD!Next, SD!Request, SD!Scheduled, SD!BeginStage, SD!MayBegin, SD!StageSettles, SD!Settle,
     SD!Tally, SD!NextPos, SD!StageTimesOut, SD!StageDue, SD!Watchdog, SD!WatchdogDue, SD!ForceStop,
     SD!Finish, SD!Leave, SD!Tick, SD!MayTick, SD!loopvars, SD!Stages,
     SDP!Next, SDP!Request, SDP!Scheduled, SDP!BeginStage, SDP!MayBegin, SDP!StageSettles, SDP!Settle,
     SDP!Tally, SDP!NextPos, SDP!StageTimesOut, SDP!StageDue, SDP!Watchdog, SDP!WatchdogDue,
     SDP!ForceStop, SDP!Finish, SDP!Leave, SDP!Tick, SDP!MayTick, SDP!loopvars, SDP!Stages
<1>2. SD!vars = SDP!vars
  BY DEF SD!vars, SD!loopvars, SDP!vars, SDP!loopvars
<1> QED
  BY <1>1, <1>2 DEF SD!vars, SD!loopvars, SDP!vars, SDP!loopvars

LEMMA CoordinatorKept == SDP!IInv /\ [SD!Next]_(SD!vars) => SDP!IInv'
<1>1. SDP!CoordinatorAssumption
  BY AppAssumption DEF SDP!Stages
<1> QED
  BY <1>1, SameCoordinator, SDP!IInvNext

LEMMA SameVm == [VM!Next]_(VM!vars) <=> [VMP!Next]_(VMP!vars)
<1>1. VM!Next <=> VMP!Next
  BY DEF VM!Next, VM!Start, VM!Stop, VM!ForceStop, VM!Exit, VM!QmpLost, VM!Replies, VM!QmpOpens,
     VM!QmpGreets, VM!QmpReady, VM!QmpRefuses, VM!QueryReply, VM!PowerdownReply, VM!Starting,
     VM!SpawnQemu, VM!QmpConnectFails, VM!Stopping, VM!CommandTimesOut, VM!PowerdownOver, VM!TermOver,
     VM!KillOver, VM!Tick, VM!MayTick, VM!MaySpawn, VM!MayConnectChannels, VM!Arm, VM!Terminate,
     VM!StartCut, VM!LoseSocket, VM!Escalate, VM!StopDue, VM!Running, VM!Waits, VM!Commands, VM!Awaits,
     VM!startvars, VM!stopvars, VM!channels, VM!Channels, VM!PtyConnects, VM!ChannelEnds, VM!HangUp,
     VM!DisconnectChannels,
     VMP!Next, VMP!Start, VMP!Stop, VMP!ForceStop, VMP!Exit, VMP!QmpLost, VMP!Replies, VMP!QmpOpens,
     VMP!QmpGreets, VMP!QmpReady, VMP!QmpRefuses, VMP!QueryReply, VMP!PowerdownReply, VMP!Starting,
     VMP!SpawnQemu, VMP!QmpConnectFails, VMP!Stopping, VMP!CommandTimesOut, VMP!PowerdownOver,
     VMP!TermOver, VMP!KillOver, VMP!Tick, VMP!MayTick, VMP!MaySpawn, VMP!MayConnectChannels, VMP!Arm,
     VMP!Terminate, VMP!StartCut, VMP!LoseSocket, VMP!Escalate, VMP!StopDue, VMP!Running, VMP!Waits,
     VMP!Commands, VMP!Awaits, VMP!startvars, VMP!stopvars, VMP!channels, VMP!Channels,
     VMP!PtyConnects, VMP!ChannelEnds, VMP!HangUp, VMP!DisconnectChannels
<1>2. VM!vars = VMP!vars
  BY DEF VM!vars, VM!startvars, VM!stopvars, VM!channels, VMP!vars, VMP!startvars, VMP!stopvars,
     VMP!channels
<1> QED
  BY <1>1, <1>2 DEF VM!vars, VM!startvars, VM!stopvars, VM!channels, VMP!vars, VMP!startvars, VMP!stopvars,
     VMP!channels

LEMMA VmKept == VMP!Timely /\ [VM!Next]_(VM!vars) => VMP!Timely'
<1>1. VMP!QemuAssumption
  BY AppAssumption DEF VMP!QemuAssumption
<1> QED
  BY <1>1, SameVm, VMP!TimelyNext

(* A server that is stopping stays so, and one that is gone has nothing open. *)
LEMMA ShareKept == Share!StopInv /\ [Share!Next]_(Share!vars) => Share!StopInv'
<1> SUFFICES ASSUME Share!StopInv, [Share!Next]_(Share!vars) PROVE Share!StopInv'
  OBVIOUS
<1>1. CASE Share!Begin \/ Share!PrepareFails \/ UNCHANGED Share!vars
  BY <1>1 DEF Share!Begin, Share!PrepareFails, Share!vars, Share!StopInv
<1>2. CASE Share!Listen
  BY <1>2 DEF Share!Listen, Share!MayListen, Share!StopInv
<1>3. CASE Share!Connections
  BY <1>3 DEF Share!Connections, Share!Accept, Share!Admit, Share!SocketCloses, Share!Drop, Share!StopInv
<1>4. CASE Share!ForceStop \/ Share!Stop
  BY <1>4 DEF Share!ForceStop, Share!Stop, Share!DestroyAll, Share!Closing, Share!StopInv
<1>5. CASE Share!Closed
  <2>1. shareOpen = {} /\ shareDoomed = {}
    BY <1>5 DEF Share!Closed, Share!Drained
  <2> QED
    BY <1>5, <2>1 DEF Share!Closed, Share!StopInv
<1> QED
  BY <1>1, <1>2, <1>3, <1>4, <1>5 DEF Share!Next

LEMMA ShareTypes == Share!TypeOK /\ [Share!Next]_(Share!vars) => Share!TypeOK'
<1> SUFFICES ASSUME Share!TypeOK, [Share!Next]_(Share!vars) PROVE Share!TypeOK'
  OBVIOUS
<1> USE DEF Share!TypeOK
<1>1. CASE Share!Begin \/ Share!PrepareFails \/ Share!Listen \/ UNCHANGED Share!vars
  BY <1>1 DEF Share!Begin, Share!PrepareFails, Share!Listen, Share!vars
<1>2. CASE Share!Connections
  BY <1>2 DEF Share!Connections, Share!Accept, Share!Admit, Share!SocketCloses, Share!Drop
<1>3. CASE Share!ForceStop \/ Share!Stop \/ Share!Closed
  BY <1>3 DEF Share!ForceStop, Share!Stop, Share!DestroyAll, Share!Closing, Share!Closed
<1> QED
  BY <1>1, <1>2, <1>3 DEF Share!Next

LEMMA ProxyKept == Proxy!StopInv /\ [Proxy!Next]_(Proxy!vars) => Proxy!StopInv'
<1> SUFFICES ASSUME Proxy!StopInv, [Proxy!Next]_(Proxy!vars) PROVE Proxy!StopInv'
  OBVIOUS
<1>1. CASE Proxy!Begin \/ Proxy!PrepareFails \/ UNCHANGED Proxy!vars
  BY <1>1 DEF Proxy!Begin, Proxy!PrepareFails, Proxy!vars, Proxy!StopInv
<1>2. CASE Proxy!Listen
  BY <1>2 DEF Proxy!Listen, Proxy!MayListen, Proxy!StopInv
<1>3. CASE Proxy!Connections
  BY <1>3 DEF Proxy!Connections, Proxy!Accept, Proxy!Admit, Proxy!SocketCloses, Proxy!Drop, Proxy!StopInv
<1>4. CASE Proxy!ForceStop \/ Proxy!Stop
  BY <1>4 DEF Proxy!ForceStop, Proxy!Stop, Proxy!DestroyAll, Proxy!Closing, Proxy!StopInv
<1>5. CASE Proxy!Closed
  <2>1. proxyOpen = {} /\ proxyDoomed = {}
    BY <1>5 DEF Proxy!Closed, Proxy!Drained
  <2> QED
    BY <1>5, <2>1 DEF Proxy!Closed, Proxy!StopInv
<1> QED
  BY <1>1, <1>2, <1>3, <1>4, <1>5 DEF Proxy!Next

LEMMA ProxyTypes == Proxy!TypeOK /\ [Proxy!Next]_(Proxy!vars) => Proxy!TypeOK'
<1> SUFFICES ASSUME Proxy!TypeOK, [Proxy!Next]_(Proxy!vars) PROVE Proxy!TypeOK'
  OBVIOUS
<1> USE DEF Proxy!TypeOK
<1>1. CASE Proxy!Begin \/ Proxy!PrepareFails \/ Proxy!Listen \/ UNCHANGED Proxy!vars
  BY <1>1 DEF Proxy!Begin, Proxy!PrepareFails, Proxy!Listen, Proxy!vars
<1>2. CASE Proxy!Connections
  BY <1>2 DEF Proxy!Connections, Proxy!Accept, Proxy!Admit, Proxy!SocketCloses, Proxy!Drop
<1>3. CASE Proxy!ForceStop \/ Proxy!Stop \/ Proxy!Closed
  BY <1>3 DEF Proxy!ForceStop, Proxy!Stop, Proxy!DestroyAll, Proxy!Closing, Proxy!Closed
<1> QED
  BY <1>1, <1>2, <1>3 DEF Proxy!Next
-----------------------------------------------------------------------------
(* Every step, seen from a component, is one of its own or none. Time passes  *)
(* for the VM whether or not stop() waits, and QEMU may end when the          *)
(* application that would notice is gone.                                     *)
TimePasses == VM!MayTick /\ now' = now + 1 /\ UNCHANGED vmvars
DiesUnseen ==
  /\ VM!Running /\ proc' = "exited" /\ VM!HangUp
  /\ UNCHANGED <<vmStart, qmp, vmStopping, stopPc, stopTimer, stopAt, serial, signals, vmForced, now>>

LEMMA CoordinatorSteps == [Next]_vars => [SD!Next]_(SD!vars)
<1> SUFFICES ASSUME [Next]_vars PROVE [SD!Next]_(SD!vars)
  OBVIOUS
<1> USE DEF SD!vars, SD!loopvars, sdvars
<1>1. CASE StartVm \/ ShareStarts \/ ProxyStarts \/ Rmdir \/ QemuExits \/ Guests
  <2>1. UNCHANGED <<sdvars, now>>
    BY <1>1 DEF StartVm, ShareStarts, ProxyStarts, Rmdir, QemuExits, Guests, VM!Start, VM!Exit, VM!stopvars
  <2> QED
    BY <2>1
<1>2. CASE VmStep \/ VmTimers
  <2>1. UNCHANGED <<sdvars, now>>
    BY <1>2 DEF VmStep, VmTimers, VM!SpawnQemu, VM!QmpConnectFails, VM!QmpLost, VM!Replies, VM!QmpOpens,
       VM!QmpGreets, VM!QmpReady, VM!QmpRefuses, VM!QueryReply, VM!PowerdownReply, VM!CommandTimesOut,
       VM!PowerdownOver, VM!TermOver, VM!KillOver, VM!Channels
  <2> QED
    BY <2>1
<1>3. CASE Quit \/ Watchdog \/ Leave \/ StageTimesOut
  BY <1>3 DEF Quit, Watchdog, Leave, StageTimesOut, SD!Next, SD!Scheduled
<1>4. CASE BeginStage
  BY <1>4 DEF BeginStage, SD!Next, SD!Scheduled, SD!Stages
<1>5. CASE StageDone \/ VmStopFails \/ CleanupFails
  BY <1>5 DEF StageDone, VmStopFails, CleanupFails, SD!Next
<1>6. CASE Tick
  BY <1>6 DEF Tick, SD!Next, SD!Scheduled
<1>7. CASE UNCHANGED vars
  BY <1>7 DEF vars
<1> QED
  BY <1>1, <1>2, <1>3, <1>4, <1>5, <1>6, <1>7 DEF Next, Scheduled, Turn, Timers, Startup, Stages

LEMMA VmSteps == [Next]_vars => [VM!Next]_(VM!vars) \/ TimePasses \/ DiesUnseen
<1> SUFFICES ASSUME [Next]_vars PROVE [VM!Next]_(VM!vars) \/ TimePasses \/ DiesUnseen
  OBVIOUS
<1> USE DEF VM!vars, VM!startvars, VM!stopvars, VM!channels, vmvars, channels
<1>1. CASE StartVm \/ ShareStarts \/ Rmdir \/ Guests
  BY <1>1 DEF StartVm, ShareStarts, Rmdir, Guests
<1>2. CASE Quit \/ StageDone \/ CleanupFails \/ StageTimesOut \/ Leave
  BY <1>2 DEF Quit, StageDone, CleanupFails, StageTimesOut, Leave, SD!Request, SD!StageSettles,
     SD!Settle, SD!StageTimesOut, SD!Leave
<1>3. CASE ProxyStarts
  BY <1>3 DEF ProxyStarts, VM!Next
<1>4. CASE VmStep \/ VmTimers
  BY <1>4 DEF VmStep, VmTimers, VM!Next, VM!Starting, VM!Stopping
<1>5. CASE BeginStage
  BY <1>5 DEF BeginStage, VM!Next, SD!BeginStage
<1>6. CASE VmStopFails \/ Watchdog
  BY <1>6 DEF VmStopFails, StageForce, Watchdog, VM!Next, SD!Watchdog
<1>7. CASE Tick
  BY <1>7 DEF Tick, TimePasses
<1>8. CASE QemuExits
  BY <1>8 DEF QemuExits, DiesUnseen, VM!Next
<1>9. CASE UNCHANGED vars
  BY <1>9 DEF vars
<1> QED
  BY <1>1, <1>2, <1>3, <1>4, <1>5, <1>6, <1>7, <1>8, <1>9
     DEF Next, Scheduled, Turn, Timers, Startup, Stages

LEMMA ShareSteps == [Next]_vars => [Share!Next]_(Share!vars)
<1> SUFFICES ASSUME [Next]_vars PROVE [Share!Next]_(Share!vars)
  OBVIOUS
<1> USE DEF Share!vars, sharevars, Share!Next
<1>1. CASE StartVm \/ ShareStarts \/ ProxyStarts \/ VmStep
  BY <1>1 DEF StartVm, ShareStarts, ProxyStarts, VmStep
<1>2. CASE VmTimers \/ Tick \/ StageTimesOut \/ VmStopFails \/ Leave \/ StageDone \/ CleanupFails
  BY <1>2 DEF VmTimers, Tick, StageTimesOut, VmStopFails, Leave, StageDone, CleanupFails
<1>3. CASE Quit \/ Rmdir \/ QemuExits \/ Guests
  BY <1>3 DEF Quit, Rmdir, QemuExits, Guests
<1>4. CASE BeginStage \/ Watchdog
  BY <1>4 DEF BeginStage, Watchdog
<1>5. CASE UNCHANGED vars
  BY <1>5 DEF vars
<1> QED
  BY <1>1, <1>2, <1>3, <1>4, <1>5 DEF Next, Scheduled, Turn, Timers, Startup, Stages

LEMMA ProxySteps == [Next]_vars => [Proxy!Next]_(Proxy!vars)
<1> SUFFICES ASSUME [Next]_vars PROVE [Proxy!Next]_(Proxy!vars)
  OBVIOUS
<1> USE DEF Proxy!vars, proxyvars, Proxy!Next
<1>1. CASE StartVm \/ ShareStarts \/ ProxyStarts \/ VmStep
  BY <1>1 DEF StartVm, ShareStarts, ProxyStarts, VmStep
<1>2. CASE VmTimers \/ Tick \/ StageTimesOut \/ VmStopFails \/ Leave \/ StageDone \/ CleanupFails
  BY <1>2 DEF VmTimers, Tick, StageTimesOut, VmStopFails, Leave, StageDone, CleanupFails
<1>3. CASE Quit \/ Rmdir \/ QemuExits \/ Guests
  BY <1>3 DEF Quit, Rmdir, QemuExits, Guests
<1>4. CASE BeginStage \/ Watchdog
  BY <1>4 DEF BeginStage, Watchdog
<1>5. CASE UNCHANGED vars
  BY <1>5 DEF vars
<1> QED
  BY <1>1, <1>2, <1>3, <1>4, <1>5 DEF Next, Scheduled, Turn, Timers, Startup, Stages

(* The two steps that are not the VM's own keep its invariant too. *)
LEMMA VmKeptOtherwise == VMP!Timely /\ (TimePasses \/ DiesUnseen) => VMP!Timely'
<1> USE DEF VMP!Timely, VMP!IInv, VMP!TypeOK, VMP!StopInv, VMP!PtyInv, VMP!TimeInv, VMP!Running,
            vmvars, channels
<1>1. VMP!Timely /\ DiesUnseen => VMP!Timely'
  BY DEF DiesUnseen, VM!HangUp
<1>2. VMP!Timely /\ TimePasses => VMP!Timely'
  <2> SUFFICES ASSUME VMP!Timely, TimePasses PROVE VMP!Timely'
    OBVIOUS
  <2>1. now' = now + 1 /\ now' \in Nat /\ stopTimer \in Nat
    BY DEF TimePasses
  <2>2. stopPc \in VMP!Awaits => now < stopTimer + 0
    BY DEF TimePasses, VM!MayTick, VM!Awaits, VM!Commands, VM!Waits, VMP!Awaits, VMP!Commands, VMP!Waits
  <2>3. stopPc \in VMP!Awaits => now' <= stopTimer + 0
    BY <2>1, <2>2
  <2>4. stopPc' = stopPc /\ stopTimer' = stopTimer /\ stopAt' = stopAt
    BY DEF TimePasses
  <2>5. VMP!TimeInv'
    BY <2>3, <2>4
  <2> QED
    BY <2>1, <2>5 DEF TimePasses
<1> QED
  BY <1>1, <1>2

LEMMA PartsInit == Init => Parts
<1> SUFFICES ASSUME Init PROVE Parts
  OBVIOUS
<1>1. SDP!IInv
  <2>1. SDP!CoordinatorAssumption
    BY AppAssumption DEF SDP!Stages
  <2>2. SDP!Init
    BY DEF Init, SD!Init, SD!Stages, SDP!Init, SDP!Stages
  <2> QED
    BY <2>1, <2>2, SDP!IInvInit
<1>2. VMP!Timely
  <2>1. VMP!QemuAssumption
    BY AppAssumption DEF VMP!QemuAssumption
  <2>2. VMP!Init
    BY DEF Init, VM!Init, VMP!Init
  <2>3. VMP!TimeInv
    BY <2>2 DEF VMP!Init, VMP!TimeInv, VMP!Awaits, VMP!Commands, VMP!Waits
  <2> QED
    BY <2>1, <2>2, <2>3, VMP!IInvInit DEF VMP!Timely
<1>3. Share!StopInv
  BY DEF Init, Share!Init, Share!StopInv
<1>4. Proxy!StopInv
  BY DEF Init, Proxy!Init, Proxy!StopInv
<1> QED
  BY <1>1, <1>2, <1>3, <1>4 DEF Parts

LEMMA PartsNext == Parts /\ [Next]_vars => Parts'
  BY CoordinatorSteps, CoordinatorKept, VmSteps, VmKept, VmKeptOtherwise, ShareSteps, ShareKept,
     ProxySteps, ProxyKept DEF Parts
-----------------------------------------------------------------------------
(* What no step of the VM takes back: that it was begun, that it is stopping  *)
(* (after which no QEMU is spawned), that its stop() is done, and the signals *)
(* it has sent. Nothing appears before it was begun.                          *)
LEMMA VmFrame ==
  ASSUME [VM!Next]_(VM!vars) \/ TimePasses \/ DiesUnseen
  PROVE  /\ HasVm => HasVm'
         /\ vmStopping => vmStopping' /\ (VM!Running' => VM!Running)
         /\ stopPc = "done" => stopPc' = "done"
         /\ signals \subseteq signals'
         /\ VmFresh => VmFresh'
<1> USE DEF HasVm, VmFresh, VM!Running, VM!Terminate, VM!Arm, VM!StartCut, VM!LoseSocket, VM!Commands,
            VM!startvars, VM!stopvars, VM!channels, VM!HangUp
<1>1. CASE VM!Start \/ VM!SpawnQemu
  BY <1>1 DEF VM!Start, VM!SpawnQemu, VM!MaySpawn
<1>2. CASE VM!Stop \/ VM!ForceStop
  BY <1>2 DEF VM!Stop, VM!ForceStop, VM!DisconnectChannels
<1>3. CASE VM!Exit \/ VM!QmpOpens \/ VM!QmpGreets \/ VM!QmpReady \/ VM!QmpRefuses
  BY <1>3 DEF VM!Exit, VM!QmpOpens, VM!QmpGreets, VM!QmpReady, VM!QmpRefuses, VM!Waits
<1>4. CASE VM!QmpLost \/ VM!QmpConnectFails
  BY <1>4 DEF VM!QmpLost, VM!QmpConnectFails
<1>5. CASE VM!QueryReply \/ VM!PowerdownReply \/ VM!CommandTimesOut \/ VM!PowerdownOver
  BY <1>5 DEF VM!QueryReply, VM!PowerdownReply, VM!CommandTimesOut, VM!PowerdownOver
<1>6. CASE VM!TermOver \/ VM!KillOver \/ VM!Tick
  BY <1>6 DEF VM!TermOver, VM!Escalate, VM!KillOver, VM!Tick
<1>7. CASE UNCHANGED VM!vars
  BY <1>7 DEF VM!vars
<1>8. CASE TimePasses \/ DiesUnseen
  BY <1>8 DEF TimePasses, DiesUnseen, vmvars, channels
<1>9. CASE VM!Channels
  BY <1>9 DEF VM!Channels, VM!PtyConnects, VM!ChannelEnds
<1> QED
  BY <1>1, <1>2, <1>3, <1>4, <1>5, <1>6, <1>7, <1>8, <1>9 DEF VM!Next, VM!Replies, VM!Starting, VM!Stopping

(* The same for the servers: a stop() that has resolved stays so.             *)
LEMMA ShareFrame ==
  ASSUME [Share!Next]_(Share!vars)
  PROVE  /\ HasShare => HasShare'
         /\ shareStopped = "resolved" => shareStopped' = "resolved"
         /\ (~HasShare => shareServer = "null") => (~HasShare' => shareServer' = "null")
  BY DEF HasShare, Share!Next, Share!vars, Share!Begin, Share!PrepareFails, Share!Listen,
     Share!Connections, Share!Accept, Share!SocketCloses, Share!Drop, Share!ForceStop, Share!Stop,
     Share!Closing, Share!Closed

LEMMA ProxyFrame ==
  ASSUME [Proxy!Next]_(Proxy!vars)
  PROVE  /\ HasProxy => HasProxy'
         /\ proxyStopped = "resolved" => proxyStopped' = "resolved"
         /\ (~HasProxy => proxyServer = "null") => (~HasProxy' => proxyServer' = "null")
  BY DEF HasProxy, Proxy!Next, Proxy!vars, Proxy!Begin, Proxy!PrepareFails, Proxy!Listen,
     Proxy!Connections, Proxy!Accept, Proxy!SocketCloses, Proxy!Drop, Proxy!ForceStop, Proxy!Stop,
     Proxy!Closing, Proxy!Closed

(* The quit comes before whatever startVm would do next: nothing is begun     *)
(* after it.                                                                  *)
LEMMA NothingNewWhenQuitting ==
  ASSUME [Next]_vars, quitting
  PROVE  quitting' /\ (HasVm' => HasVm) /\ (HasProxy' => HasProxy) /\ (HasShare' => HasShare)
<1> USE DEF HasVm, HasProxy, HasShare, appvars, vmvars, channels, sharevars, proxyvars
<1>1. CASE StartVm \/ ShareStarts \/ ProxyStarts
  BY <1>1 DEF StartVm, ShareStarts, ProxyStarts, MayGoOn, Share!PrepareFails, Share!Listen,
     Proxy!PrepareFails, Proxy!Listen
<1>2. CASE VmStep \/ VmTimers
  BY <1>2 DEF VmStep, VmTimers, VM!Channels, VM!SpawnQemu, VM!QmpConnectFails, VM!QmpLost, VM!Replies,
     VM!QmpOpens, VM!QmpGreets, VM!QmpReady, VM!QmpRefuses, VM!QueryReply, VM!PowerdownReply, VM!CommandTimesOut,
     VM!PowerdownOver, VM!TermOver, VM!KillOver, VM!StartCut, VM!startvars
<1>3. CASE Guests
  BY <1>3 DEF Guests, Share!Connections, Share!Accept, Share!SocketCloses, Share!Drop, Share!Closed,
     Proxy!Connections, Proxy!Accept, Proxy!SocketCloses, Proxy!Drop, Proxy!Closed
<1>4. CASE Quit \/ StageDone \/ CleanupFails \/ StageTimesOut \/ Leave \/ Rmdir \/ Tick
  BY <1>4 DEF Quit, StageDone, CleanupFails, StageTimesOut, Leave, Rmdir, Tick
<1>5. CASE BeginStage
  BY <1>5 DEF BeginStage, VM!Stop, VM!StartCut, Proxy!Stop, Share!Stop
<1>6. CASE VmStopFails \/ Watchdog
  BY <1>6 DEF VmStopFails, StageForce, Watchdog, VM!ForceStop, VM!StartCut, Proxy!ForceStop, Share!ForceStop
<1>7. CASE QemuExits
  BY <1>7 DEF QemuExits, VM!Exit
<1>8. CASE UNCHANGED vars
  BY <1>8 DEF vars
<1> QED
  BY <1>1, <1>2, <1>3, <1>4, <1>5, <1>6, <1>7, <1>8 DEF Next, Scheduled, Turn, Timers, Startup, Stages
-----------------------------------------------------------------------------
(* What the coordinator's invariant says of the four stages. *)
Settled == {"ok", "failed", "cut"}

LEMMA CoordinatorFacts ==
  ASSUME Parts
  PROVE  /\ waiting => completion = "running" /\ pos \in 1..4 /\ ~sdForced
         /\ outcome = [i \in 1..4 |-> outcome[i]]
         /\ \A i \in 1..4 : outcome[i] # "unstarted" => completion # "none"
         /\ \A i \in 1..4 : i < pos => outcome[i] \in Settled
         /\ \A i \in 1..4 : i >= pos => outcome[i] = IF waiting /\ i = pos THEN "started" ELSE "unstarted"
         /\ sdForced \/ outcome[4] # "unstarted" => outcome[1] \in Settled
<1> USE DEF SDP!Stages, Settled
<1>1. SDP!TypeOK /\ SDP!LoopInv /\ SDP!StageInv /\ SDP!ExitInv
  BY DEF Parts, SDP!IInv
<1>2. waiting => completion = "running" /\ pos \in 1..4 /\ ~sdForced
  BY <1>1 DEF SDP!LoopInv, SDP!ExitInv
<1>3. outcome = [i \in 1..4 |-> outcome[i]] /\ pos \in 0..5
  BY <1>1 DEF SDP!TypeOK
<1>4. \A i \in 1..4 : i < pos => outcome[i] \in Settled
  BY <1>1 DEF SDP!StageInv
<1>5. \A i \in 1..4 : i >= pos => outcome[i] = IF waiting /\ i = pos THEN "started" ELSE "unstarted"
  BY <1>1, <1>3 DEF SDP!StageInv
<1>6. \A i \in 1..4 : outcome[i] # "unstarted" => completion # "none"
  BY <1>1, <1>3, <1>5 DEF SDP!LoopInv
<1>7. sdForced => outcome[1] \in Settled
  <2> SUFFICES ASSUME sdForced PROVE outcome[1] \in Settled
    OBVIOUS
  <2>1. PICK i \in 1..4 : outcome[i] = "cut"
    BY <1>1 DEF SDP!ExitInv
  <2>2. i = pos - 1
    BY <1>1, <2>1 DEF SDP!StageInv
  <2> QED
    BY <1>3, <1>4, <2>1, <2>2
<1>8. outcome[4] # "unstarted" => outcome[1] \in Settled
  BY <1>3, <1>4, <1>5
<1> QED
  BY <1>2, <1>3, <1>4, <1>5, <1>6, <1>7, <1>8

(* A verdict on a stage, and a step of the cleanup, has a reason.             *)
Justified ==
  /\ completion' # "none" => quitting'
  /\ outcome' = outcome \/ quitting
  /\ outcome'[1] # "unstarted" => outcome[1] # "unstarted" \/ (HasVm => vmStopping')
  /\ outcome'[1] = "ok" => outcome[1] = "ok" \/ (HasVm => stopPc = "done")
  /\ outcome'[1] \in {"failed", "cut"} \/ sdForced' =>
        outcome[1] \in {"failed", "cut"} \/ sdForced \/ ~VM!Running' \/ "kill" \in signals'
  /\ outcome'[2] = "ok" => outcome[2] = "ok" \/ (HasProxy => proxyStopped = "resolved")
  /\ outcome'[3] = "ok" => outcome[3] = "ok" \/ (HasShare => shareStopped = "resolved")
  /\ outcome'[4] = "ok" => dir' \in {"none", "gone", "kept"}
  /\ dir' \in {"unlinking", "gone", "kept"} =>
        outcome'[4] # "unstarted" /\ (dir \in {"unlinking", "gone", "kept"} \/ ~VM!Running')

LEMMA JustifiedKeeps ==
  ASSUME Parts, AppInv, [Next]_vars, Justified
  PROVE  AppInv'
<1>0. Parts'
  BY PartsNext
<1>1. /\ HasVm => HasVm'
      /\ vmStopping => vmStopping' /\ (VM!Running' => VM!Running)
      /\ stopPc = "done" => stopPc' = "done"
      /\ signals \subseteq signals' /\ VmFresh'
  BY VmSteps, VmFrame DEF AppInv, Fresh
<1>2. Fresh'
  BY <1>1, ShareSteps, ShareFrame, ProxySteps, ProxyFrame DEF AppInv, Fresh
<1>3. \A i \in 1..4 : outcome[i] # "unstarted" \/ outcome'[i] # "unstarted" => quitting
  BY CoordinatorFacts DEF Justified, AppInv, VmInv
<1>4. quitting => (HasVm' => HasVm) /\ (HasProxy' => HasProxy) /\ (HasShare' => HasShare)
  BY NothingNewWhenQuitting
(* No QEMU comes up once stage 1 has begun. *)
<1>5. outcome[1] # "unstarted" => ~VM!Running' \/ (VM!Running /\ HasVm /\ vmStopping)
  <2> SUFFICES ASSUME outcome[1] # "unstarted", VM!Running' PROVE VM!Running /\ HasVm /\ vmStopping
    OBVIOUS
  <2>1. HasVm'
    BY <1>1 DEF VmFresh, VM!Running
  <2>2. HasVm
    BY <1>3, <1>4, <2>1
  <2>3. vmStopping
    BY <2>2 DEF AppInv, VmInv
  <2> QED
    BY <1>1, <2>2, <2>3
<1>6. VmInv'
  <2>1. outcome'[1] # "unstarted" /\ HasVm' => vmStopping'
    BY <1>1, <1>3, <1>4 DEF Justified, AppInv, VmInv
  <2>2. outcome'[1] = "ok" /\ HasVm' => stopPc' = "done"
    BY <1>1, <1>3, <1>4 DEF Justified, AppInv, VmInv
  <2>3. outcome'[1] \in {"failed", "cut"} \/ sdForced' => ~VM!Running' \/ "kill" \in signals'
    <3> SUFFICES ASSUME outcome[1] \in {"failed", "cut"} \/ sdForced PROVE ~VM!Running' \/ "kill" \in signals'
      BY DEF Justified
    <3>1. outcome[1] # "unstarted"
      BY CoordinatorFacts DEF Settled
    <3>2. ~VM!Running \/ "kill" \in signals
      BY DEF AppInv, VmInv
    <3> QED
      BY <1>1, <1>5, <3>1, <3>2
  <2> QED
    BY <2>1, <2>2, <2>3 DEF Justified, VmInv
<1>7. StagesInv'
  <2>1. outcome'[2] = "ok" /\ HasProxy' => proxyStopped' = "resolved"
    BY <1>3, <1>4, ProxySteps, ProxyFrame DEF Justified, AppInv, StagesInv
  <2>2. outcome'[3] = "ok" /\ HasShare' => shareStopped' = "resolved"
    BY <1>3, <1>4, ShareSteps, ShareFrame DEF Justified, AppInv, StagesInv
  <2>3. dir \in {"unlinking", "gone", "kept"} => ~VM!Running'
    BY <1>5, CoordinatorFacts DEF AppInv, StagesInv, Settled
  <2> QED
    BY <2>1, <2>2, <2>3 DEF Justified, StagesInv
<1> QED
  BY <1>2, <1>6, <1>7 DEF AppInv

LEMMA QuietJustified ==
  ASSUME Parts, AppInv, UNCHANGED <<outcome, sdForced>>, completion' # "none" => quitting',
         dir' = dir \/ (~quitting /\ dir' \in {"empty", "files"})
  PROVE  Justified
<1>1. outcome[4] # "unstarted" => quitting
  BY CoordinatorFacts DEF AppInv, VmInv
<1> QED
  BY <1>1 DEF Justified, AppInv, VmInv, StagesInv

(* A stage that the loop awaits ends with verdict v, and its timer with it.   *)
LEMMA EndOfStage ==
  ASSUME Parts, AppInv, NEW v, SD!Settle(v)
  PROVE  /\ quitting /\ pos \in 1..4 /\ outcome[pos] = "started" /\ completion' = completion
         /\ sdForced' = sdForced
         /\ \A i \in 1..4 : outcome'[i] = IF i = pos THEN v ELSE outcome[i]
<1>1. waiting /\ outcome' = [outcome EXCEPT ![pos] = v] /\ UNCHANGED <<completion, sdForced>>
  BY DEF SD!Settle
<1> QED
  BY <1>1, CoordinatorFacts DEF AppInv, VmInv

LEMMA StepJustified == Parts /\ AppInv /\ [Next]_vars => Justified
<1> SUFFICES ASSUME Parts, AppInv, [Next]_vars PROVE Justified
  OBVIOUS
<1> USE DEF appvars, sdvars
<1>0. completion # "none" => quitting
  BY DEF AppInv, VmInv
<1>1. CASE StartVm \/ ShareStarts \/ ProxyStarts
  <2>1. UNCHANGED <<quitting, completion, outcome, sdForced>>
        /\ (dir' = dir \/ (~quitting /\ dir' \in {"empty", "files"}))
    BY <1>1 DEF StartVm, ShareStarts, ProxyStarts, MayGoOn
  <2> QED
    BY <1>0, <2>1, QuietJustified
<1>2. CASE VmStep \/ VmTimers \/ Guests \/ Tick \/ QemuExits \/ UNCHANGED vars
  <2>1. UNCHANGED <<quitting, completion, outcome, sdForced, dir>>
    BY <1>2 DEF VmStep, VmTimers, Guests, Tick, SD!Tick, SD!loopvars, QemuExits, vars
  <2> QED
    BY <1>0, <2>1, QuietJustified
<1>3. CASE Quit \/ Leave
  <2>1. UNCHANGED <<outcome, sdForced, dir>> /\ (completion' # "none" => quitting')
    BY <1>0, <1>3 DEF Quit, SD!Request, Leave, SD!Leave
  <2> QED
    BY <2>1, QuietJustified
<1>4. CASE Rmdir
  BY <1>0, <1>4 DEF Rmdir, Justified, AppInv, VmInv, StagesInv
<1>5. CASE BeginStage
  <2>1. /\ pos \in 1..4 /\ completion = "running" /\ outcome' = [outcome EXCEPT ![pos] = "started"]
        /\ UNCHANGED <<quitting, completion, sdForced>>
    BY <1>5 DEF BeginStage, SD!BeginStage
  <2>2. \A i \in 1..4 : outcome'[i] = IF i = pos THEN "started" ELSE outcome[i]
    BY <2>1, CoordinatorFacts
  <2>3. pos = 1 /\ HasVm => vmStopping'
    BY <1>5 DEF BeginStage, VM!Stop
  <2>4. dir' = dir \/ (pos = 4 /\ dir' = "unlinking" /\ ~VM!Running /\ UNCHANGED vmvars)
    BY <1>5 DEF BeginStage, MayClean
  <2>5. dir' # dir => ~VM!Running'
    BY <2>4 DEF VM!Running, vmvars, channels
  <2>6. dir' = dir \/ dir' = "unlinking"
    BY <2>4
  <2>7. outcome[4] = "ok" => outcome'[4] # "ok" \/ dir' = dir
    BY <2>2, <2>4
  <2> QED
    BY <1>0, <2>1, <2>2, <2>3, <2>4, <2>5, <2>7 DEF Justified, AppInv, VmInv, StagesInv
<1>6. CASE StageDone
  <2>1. SD!Settle("ok") /\ UNCHANGED <<quitting, dir>>
    BY <1>6 DEF StageDone, SD!StageSettles
  <2>2. /\ pos = 1 => (HasVm => stopPc = "done")
        /\ pos = 2 => (HasProxy => proxyStopped = "resolved")
        /\ pos = 3 => (HasShare => shareStopped = "resolved")
        /\ pos = 4 => dir \in {"none", "gone", "kept"}
    BY <1>6 DEF StageDone
  <2> QED
    BY <1>0, <2>1, <2>2, EndOfStage DEF Justified, AppInv, VmInv, StagesInv
<1>7. CASE VmStopFails
  <2>1. SD!Settle("failed") /\ pos = 1 /\ VM!ForceStop /\ UNCHANGED <<quitting, dir>>
    BY <1>7 DEF VmStopFails, StageForce, SD!StageSettles
  <2>2. ~VM!Running' \/ "kill" \in signals'
    BY <2>1 DEF VM!ForceStop, VM!Running
  <2> QED
    BY <1>0, <2>1, <2>2, EndOfStage DEF Justified, AppInv, VmInv, StagesInv
<1>8. CASE CleanupFails
  <2>1. SD!Settle("failed") /\ pos = 4 /\ UNCHANGED <<quitting, dir>>
    BY <1>8 DEF CleanupFails, SD!StageSettles
  <2> QED
    BY <1>0, <2>1, EndOfStage DEF Justified, AppInv, VmInv, StagesInv
(* The timer of stage 1 is never first: that of vm.stop() in it runs before.  *)
<1>9. CASE StageTimesOut
  <2>1. SD!Settle("failed") /\ waiting /\ now >= since + StageTimeout[pos] /\ UNCHANGED <<quitting, dir>>
        /\ ~(pos = 1 /\ now >= since + QemuStopTimeout)
    BY <1>9 DEF StageTimesOut, SD!StageTimesOut, SD!StageDue, InnerDue
  <2>2. now \in Nat /\ since \in Nat
    BY DEF Parts, SDP!IInv, SDP!TypeOK
  <2>3. pos # 1
    BY <2>1, <2>2, AppAssumption
  <2> QED
    BY <1>0, <2>1, <2>3, EndOfStage DEF Justified, AppInv, VmInv, StagesInv
<1>10. CASE Watchdog
  <2>1. /\ waiting /\ outcome' = [outcome EXCEPT ![pos] = "cut"]
        /\ UNCHANGED <<quitting, completion, dir>>
    BY <1>10 DEF Watchdog, SD!Watchdog
  <2>2. \A i \in 1..4 : outcome'[i] = IF i = pos THEN "cut" ELSE outcome[i]
    BY <2>1, CoordinatorFacts
  <2>3. outcome[pos] = "started" /\ pos \in 1..4 /\ completion = "running"
    BY <2>1, CoordinatorFacts
  <2>4. ~VM!Running' \/ "kill" \in signals'
    <3>1. CASE HasVm
      BY <1>10, <3>1 DEF Watchdog, VM!ForceStop, VM!Running
    <3>2. CASE ~HasVm
      BY <1>10, <3>2 DEF Watchdog, AppInv, Fresh, VmFresh, VM!Running, vmvars, channels
    <3> QED
      BY <3>1, <3>2
  <2> QED
    BY <1>0, <2>1, <2>2, <2>3, <2>4 DEF Justified, AppInv, VmInv, StagesInv
<1> QED
  BY <1>1, <1>2, <1>3, <1>4, <1>5, <1>6, <1>7, <1>8, <1>9, <1>10
     DEF Next, Scheduled, Turn, Timers, Startup, Stages

LEMMA AppInvInit == Init => AppInv
  BY DEF Init, SD!Init, SD!Stages, VM!Init, Share!Init, Proxy!Init, AppInv, Fresh, VmFresh, VmInv, StagesInv,
     HasVm

LEMMA Invariant == Spec => [](Parts /\ AppInv)
<1>1. Init => Parts /\ AppInv
  BY PartsInit, AppInvInit
<1>2. Parts /\ AppInv /\ [Next]_vars => (Parts /\ AppInv)'
  BY PartsNext, StepJustified, JustifiedKeeps
<1> QED
  BY <1>1, <1>2, PTL DEF Spec
-----------------------------------------------------------------------------
LEMMA StageFacts == Parts /\ AppInv => StoppedStaysStopped
<1> SUFFICES ASSUME Parts, AppInv PROVE StoppedStaysStopped
  OBVIOUS
<1>1. outcome[1] = "ok" => ~VM!Running /\ qmp = "null" /\ ~serial /\ pty # "up"
  <2>1. CASE HasVm
    BY <2>1 DEF Parts, AppInv, VmInv, VMP!Timely, VMP!IInv, VMP!StopInv, VMP!PtyInv, VMP!Running, VM!Running
  <2>2. CASE ~HasVm
    BY <2>2 DEF AppInv, Fresh, VmFresh, VM!Running
  <2> QED
    BY <2>1, <2>2
<1>2. outcome[2] = "ok" => proxyServer = "null" /\ proxyOpen = {}
  BY DEF Parts, AppInv, StagesInv, Fresh, Proxy!StopInv
<1>3. outcome[3] = "ok" => shareServer = "null" /\ shareOpen = {}
  BY DEF Parts, AppInv, StagesInv, Fresh, Share!StopInv
<1> QED
  BY <1>1, <1>2, <1>3 DEF StoppedStaysStopped, AppInv, StagesInv

(* What a stage has stopped is not brought back by a startVm under way, nor   *)
(* by QEMU, the guest or a later stage, for any timeouts and connections.     *)
THEOREM StopsLast == Spec => []StoppedStaysStopped
  BY Invariant, StageFacts, PTL

(* A server whose stop() has resolved is gone with its connections, and one   *)
(* that is stopping serves none, whatever startVm, the guest and the other    *)
(* stages do meanwhile.                                                       *)
ServersStayStopped ==
  /\ Share!StopIsFinal /\ Share!NoneServedWhileStopping
  /\ Proxy!StopIsFinal /\ Proxy!NoneServedWhileStopping

(* Both servers of the application keep that promise, for any connections. *)
THEOREM ServersStopForGood == Spec => []ServersStayStopped
<1>1. Parts => ServersStayStopped
  BY DEF Parts, Share!StopInv, Proxy!StopInv, ServersStayStopped, Share!StopIsFinal, Proxy!StopIsFinal,
         Share!NoneServedWhileStopping, Proxy!NoneServedWhileStopping
<1> QED
  BY <1>1, Invariant, PTL

(* The runtime directory is only emptied when QEMU is gone for good. *)
THEOREM VmBeforeCleanup == Spec => []CleanupAfterVm
<1>1. AppInv => CleanupAfterVm
  BY DEF AppInv, StagesInv, CleanupAfterVm
<1> QED
  BY <1>1, Invariant, PTL

(* Exit code 0 is given only when everything is put away. *)
THEOREM CleanExits == Spec => []CleanExitIsClean
<1>1. Parts /\ AppInv => CleanExitIsClean
  <2> SUFFICES ASSUME Parts, AppInv, exits = << 0 >>
               PROVE  /\ ~VM!Running /\ ~serial /\ pty # "up"
                      /\ shareServer = "null" /\ proxyServer = "null"
                      /\ dir \in {"none", "gone", "kept"}
    BY DEF CleanExitIsClean
  <2>1. exits # <<>> /\ exits[1] = 0
    OBVIOUS
  <2>2. SDP!StageInv /\ SDP!ExitInv
    BY DEF Parts, SDP!IInv
  <2>3. exited /\ ~sdForced /\ pos = 5 /\ ~failed
    BY <2>1, <2>2 DEF SDP!ExitInv
  <2>4. \A i \in 1..4 : outcome[i] = "ok"
    BY <2>2, <2>3 DEF SDP!StageInv, SDP!Stages
  <2> QED
    BY <2>4, StageFacts DEF StoppedStaysStopped
<1> QED
  BY <1>1, Invariant, PTL

(* No QEMU outlives the application that it has not killed, wherever in       *)
(* startVm and in which stage the exit comes.                                 *)
THEOREM NoneLeftBehind == Spec => []NoOrphanVm
<1>1. Parts /\ AppInv => NoOrphanVm
  <2> SUFFICES ASSUME Parts, AppInv, exits # <<>> PROVE ~VM!Running \/ "kill" \in signals
    BY DEF NoOrphanVm, Alive
  <2>1. sdForced \/ pos = 5
    BY DEF Parts, SDP!IInv, SDP!ExitInv
  <2>2. outcome[1] \in Settled
    BY <2>1, CoordinatorFacts
  <2>3. CASE outcome[1] = "ok"
    BY <2>3, StageFacts DEF StoppedStaysStopped
  <2>4. CASE outcome[1] # "ok"
    BY <2>2, <2>4 DEF Settled, AppInv, VmInv
  <2> QED
    BY <2>3, <2>4
<1> QED
  BY <1>1, Invariant, PTL
-----------------------------------------------------------------------------
(* What main.ts:331-349 and qemu.ts leave between their timeouts: the         *)
(* escalation of vm.stop() fits into what stage 1 allows it, 29 s into 30 s,  *)
(* and the stages into the deadline, 37 s into 40 s.                          *)
TimesFit ==
  /\ 2 * CmdTimeout + 2 * WaitTimeout + KillTimeout < QemuStopTimeout
  /\ Budget[5] < Deadline

AskedInv == "kill" \in signals => "term" \in signals

OrderInv == Parts /\ AppInv /\ SDP!Timely /\ ClockInv /\ AskedInv

LEMMA BudgetsFit == TimesFit => \A i \in 1..4 : ~(Deadline <= Budget[i + 1])
<1> SUFFICES ASSUME TimesFit, NEW i \in 1..4 PROVE ~(Deadline <= Budget[i + 1])
  OBVIOUS
<1>1. Budget[i + 1] <= Budget[5] /\ Budget[i + 1] \in Nat /\ Budget[5] \in Nat /\ Deadline \in Nat
  BY AppAssumption
<1> QED
  BY <1>1 DEF TimesFit

(* vm.stop() has settled before stage 1 gives it up. *)
LEMMA StopOverInTime ==
  ASSUME TimesFit, OrderInv, waiting, pos = 1, HasVm, InnerDue
  PROVE  stopPc \in {"done", "failed"}
<1> USE DEF VMP!Awaits, VMP!Commands, VMP!Waits
<1>1. stopPc # "idle" /\ stopAt = since
  BY DEF OrderInv, ClockInv
<1>2. VMP!TypeOK /\ VMP!TimeInv
  BY DEF OrderInv, Parts, VMP!Timely, VMP!IInv
<1>3. /\ now \in Nat /\ stopTimer \in Nat /\ stopAt \in Nat /\ CmdTimeout \in Nat
      /\ WaitTimeout \in Nat /\ KillTimeout \in Nat /\ QemuStopTimeout \in Nat
  BY <1>2, AppAssumption DEF VMP!TypeOK
<1>4. CASE stopPc \in VMP!Awaits
  <2>1. now <= stopTimer + 0 /\ stopTimer <= stopAt + VMP!Used(stopPc)
    BY <1>2, <1>4 DEF VMP!TimeInv
  <2>2. VMP!Used(stopPc) \in Nat /\ VMP!Used(stopPc) <= 2 * CmdTimeout + 2 * WaitTimeout + KillTimeout
    BY <1>3, <1>4 DEF VMP!Used
  <2>3. now >= since + QemuStopTimeout
    BY DEF InnerDue
  <2> QED
    BY <1>1, <1>3, <2>1, <2>2, <2>3 DEF TimesFit
<1> QED
  BY <1>1, <1>2, <1>4 DEF VMP!TypeOK

LEMMA StopStaysBegun ==
  ASSUME [VM!Next]_(VM!vars) \/ TimePasses \/ DiesUnseen, stopPc # "idle"
  PROVE  stopPc' # "idle" /\ stopAt' = stopAt
<1> USE DEF VM!Terminate, VM!Arm, VM!LoseSocket, VM!startvars, VM!stopvars, VM!channels
<1>1. CASE VM!Start \/ VM!SpawnQemu \/ VM!Stop \/ VM!ForceStop
  BY <1>1 DEF VM!Start, VM!SpawnQemu, VM!Stop, VM!ForceStop
<1>2. CASE VM!Exit \/ VM!QmpOpens \/ VM!QmpGreets \/ VM!QmpReady \/ VM!QmpRefuses
  BY <1>2 DEF VM!Exit, VM!QmpOpens, VM!QmpGreets, VM!QmpReady, VM!QmpRefuses
<1>3. CASE VM!QmpLost \/ VM!QmpConnectFails
  BY <1>3 DEF VM!QmpLost, VM!QmpConnectFails
<1>4. CASE VM!QueryReply \/ VM!PowerdownReply \/ VM!CommandTimesOut \/ VM!PowerdownOver
  BY <1>4 DEF VM!QueryReply, VM!PowerdownReply, VM!CommandTimesOut, VM!PowerdownOver
<1>5. CASE VM!TermOver \/ VM!KillOver \/ VM!Tick
  BY <1>5 DEF VM!TermOver, VM!Escalate, VM!KillOver, VM!Tick
<1>6. CASE UNCHANGED VM!vars
  BY <1>6 DEF VM!vars
<1>7. CASE TimePasses \/ DiesUnseen
  BY <1>7 DEF TimePasses, DiesUnseen, vmvars, channels
<1>8. CASE VM!Channels
  BY <1>8 DEF VM!Channels
<1> QED
  BY <1>1, <1>2, <1>3, <1>4, <1>5, <1>6, <1>7, <1>8 DEF VM!Next, VM!Replies, VM!Starting, VM!Stopping

LEMMA TimelyKept == SDP!Timely /\ [SD!Next]_(SD!vars) => SDP!Timely'
<1>1. SDP!CoordinatorAssumption
  BY AppAssumption DEF SDP!Stages
<1> QED
  BY <1>1, SameCoordinator, SDP!TimelyNext

LEMMA ClockNext ==
  ASSUME OrderInv, [Next]_vars
  PROVE  ClockInv'
<1> SUFFICES ASSUME pos' = 1, waiting', HasVm' PROVE stopPc' # "idle" /\ stopAt' = since'
  BY DEF ClockInv
<1>1. \/ BeginStage /\ pos = 1 /\ since' = now
      \/ pos = 1 /\ waiting /\ since' = since
  <2> USE DEF SD!Next, SD!Request, SD!Scheduled, SD!BeginStage, SD!StageSettles, SD!Settle, SD!NextPos,
              SD!StageTimesOut, SD!Watchdog, SD!Leave, SD!Tick, SD!loopvars, SD!vars, sdvars
  <2>1. CASE BeginStage
    BY <2>1 DEF BeginStage
  <2>2. CASE Quit \/ Leave
    BY <2>2, CoordinatorFacts DEF Quit, Leave, OrderInv, Parts, SDP!IInv, SDP!LoopInv
  <2>3. CASE StageDone \/ CleanupFails \/ VmStopFails \/ StageTimesOut \/ Watchdog
    <3>1. waiting' = FALSE
      BY <2>3 DEF StageDone, CleanupFails, VmStopFails, StageTimesOut, Watchdog
    <3> QED
      BY <3>1
  <2>4. CASE StartVm \/ ShareStarts \/ ProxyStarts \/ VmStep \/ VmTimers \/ Guests \/ Tick \/ Rmdir
             \/ QemuExits \/ UNCHANGED vars
    <3>1. UNCHANGED <<pos, waiting, since>>
      BY <2>4 DEF StartVm, ShareStarts, ProxyStarts, VmStep, VmTimers, Guests, Tick, Rmdir, QemuExits, vars
    <3> QED
      BY <3>1
  <2> QED
    BY <2>1, <2>2, <2>3, <2>4 DEF Next, Scheduled, Turn, Timers, Startup, Stages
<1>2. completion # "none" => (HasVm' => HasVm)
  BY NothingNewWhenQuitting DEF OrderInv, AppInv, VmInv
<1>3. CASE BeginStage /\ pos = 1 /\ since' = now
  <2>1. HasVm
    BY <1>2, <1>3 DEF BeginStage, SD!BeginStage
  <2> QED
    BY <1>3, <2>1 DEF BeginStage, VM!Stop, VM!Arm, VM!Terminate
<1>4. CASE pos = 1 /\ waiting /\ since' = since
  <2>1. completion # "none"
    BY <1>4, CoordinatorFacts DEF OrderInv
  <2>2. HasVm /\ stopPc # "idle" /\ stopAt = since
    BY <1>2, <1>4, <2>1 DEF OrderInv, ClockInv
  <2>3. stopPc' # "idle" /\ stopAt' = stopAt
    BY <2>2, VmSteps, StopStaysBegun
  <2> QED
    BY <1>4, <2>2, <2>3
<1> QED
  BY <1>1, <1>3, <1>4

(* SIGKILL without SIGTERM before it is sent by no step of the VM that is not *)
(* forceStop(), which comes only after vm.stop() is over.                     *)
LEMMA AskedNext ==
  ASSUME TimesFit, OrderInv, [Next]_vars
  PROVE  AskedInv'
<1>1. ~Watchdog
  <2>1. SDP!Timely'
    BY CoordinatorSteps, TimelyKept DEF OrderInv
  <2>2. \A i \in 1..4 : outcome'[i] # "cut"
    BY <2>1, BudgetsFit DEF SDP!Timely, SDP!WatchdogSilent, SDP!Stages
  <2>3. ASSUME Watchdog PROVE FALSE
    <3>1. waiting /\ outcome' = [outcome EXCEPT ![pos] = "cut"]
      BY <2>3 DEF Watchdog, SD!Watchdog
    <3>2. pos \in 1..4 /\ outcome'[pos] = "cut"
      BY <3>1, CoordinatorFacts DEF OrderInv
    <3> QED
      BY <2>2, <3>2
  <2> QED
    BY <2>3
<1>2. CASE VmStopFails
  <2>1. stopPc \in {"done", "failed"}
    BY <1>2, StopOverInTime DEF VmStopFails
  <2>2. VMP!StopInv
    BY DEF OrderInv, Parts, VMP!Timely, VMP!IInv
  <2>3. signals' = signals \cup (IF VM!Running THEN {"kill"} ELSE {})
    BY <1>2, <2>1 DEF VmStopFails, StageForce, VM!ForceStop, VM!Commands
  <2>4. stopPc = "done" => ~VM!Running
    BY <2>2 DEF VMP!StopInv, VMP!Running, VM!Running
  <2>5. stopPc = "failed" => "term" \in signals
    BY <2>2 DEF VMP!StopInv
  <2> QED
    BY <2>1, <2>3, <2>4, <2>5 DEF OrderInv, AskedInv
<1>3. CASE ~VmStopFails
  <2> SUFFICES "kill" \in signals' => "kill" \in signals \/ "term" \in signals
    BY VmSteps, VmFrame DEF OrderInv, AskedInv
  <2> USE DEF VM!Terminate, VM!Arm, VM!LoseSocket, vmvars, channels
  <2>1. CASE StartVm \/ ShareStarts \/ ProxyStarts \/ Guests \/ Tick \/ Rmdir \/ QemuExits \/ UNCHANGED vars
    BY <2>1 DEF StartVm, ShareStarts, ProxyStarts, VM!Start, Guests, Tick, Rmdir, QemuExits, VM!Exit, vars
  <2>2. CASE Quit \/ Leave \/ StageDone \/ CleanupFails \/ StageTimesOut
    BY <2>2 DEF Quit, Leave, StageDone, CleanupFails, StageTimesOut
  <2>3. CASE BeginStage
    BY <2>3 DEF BeginStage, VM!Stop
  <2>4. CASE VmStep
    BY <2>4 DEF VmStep, VM!SpawnQemu, VM!QmpConnectFails, VM!QmpLost, VM!Replies, VM!QmpOpens,
       VM!QmpGreets, VM!QmpReady, VM!QmpRefuses, VM!QueryReply, VM!PowerdownReply, VM!Channels
  <2>5. CASE VmTimers
    <3>1. stopPc = "waitTerm" => "term" \in signals
      BY DEF OrderInv, Parts, VMP!Timely, VMP!IInv, VMP!StopInv
    <3> QED
      BY <2>5, <3>1 DEF VmTimers, VM!CommandTimesOut, VM!PowerdownOver, VM!TermOver, VM!Escalate, VM!KillOver
  <2> QED
    BY <1>1, <1>3, <2>1, <2>2, <2>3, <2>4, <2>5 DEF Next, Scheduled, Turn, Timers, Startup, Stages
<1> QED
  BY <1>2, <1>3

LEMMA OrderNext == TimesFit /\ OrderInv /\ [Next]_vars => OrderInv'
<1> SUFFICES ASSUME TimesFit, OrderInv, [Next]_vars PROVE OrderInv'
  OBVIOUS
<1>1. Parts' /\ AppInv'
  BY PartsNext, StepJustified, JustifiedKeeps DEF OrderInv
<1>2. SDP!Timely'
  BY CoordinatorSteps, TimelyKept DEF OrderInv
<1> QED
  BY <1>1, <1>2, ClockNext, AskedNext DEF OrderInv

(* With the timeouts of main.ts and qemu.ts, and all others that fit into     *)
(* each other as they do, stage 1 gives up no vm.stop() that is still         *)
(* waiting, and QEMU is asked to end before it is killed.                     *)
THEOREM AskedFirst ==
  ASSUME TimesFit
  PROVE  Spec => []AskedBeforeKilled
<1>1. Init => OrderInv
  <2> SUFFICES ASSUME Init PROVE OrderInv
    OBVIOUS
  <2>1. Parts /\ AppInv
    BY PartsInit, AppInvInit
  <2>2. SDP!TimeInv /\ SDP!WatchdogSilent
    BY DEF Init, SD!Init, SD!Stages, SDP!TimeInv, SDP!WatchdogSilent, SDP!Stages
  <2>3. ClockInv /\ AskedInv
    BY DEF Init, SD!Init, VM!Init, ClockInv, AskedInv
  <2> QED
    BY <2>1, <2>2, <2>3 DEF OrderInv, Parts, SDP!Timely
<1>2. OrderInv /\ [Next]_vars => OrderInv'
  BY OrderNext
<1>3. OrderInv => AskedBeforeKilled
  BY StopOverInTime DEF OrderInv, AskedInv, AskedBeforeKilled
<1> QED
  BY <1>1, <1>2, <1>3, PTL DEF Spec
-----------------------------------------------------------------------------
(* The application as a whole keeps the promise of OrderlyExit, as far as     *)
(* safety goes, whatever startVm, QEMU and the guest are doing.               *)
THEOREM ExitsInOrder == Spec => SDP!Abs!SafeSpec
<1>1. Init => SDP!Abs!Init
  BY DEF Init, SD!Init, SD!Stages, SDP!Abs!Init, SDP!Phase, SDP!Result, SDP!Stages
<1>2. Parts /\ [Next]_vars => [SDP!Abs!Next]_(SDP!Abs!absvars)
  <2>1. SDP!CoordinatorAssumption
    BY AppAssumption DEF SDP!Stages
  <2> QED
    BY <2>1, CoordinatorSteps, SameCoordinator, SDP!StepRefines DEF Parts
<1> QED
  BY <1>1, <1>2, Invariant, PTL DEF Spec, SDP!Abs!SafeSpec
-----------------------------------------------------------------------------
LEMMA TypeNext == Parts /\ TypeOK /\ [Next]_vars => TypeOK'
<1> SUFFICES ASSUME Parts, TypeOK, [Next]_vars PROVE TypeOK'
  OBVIOUS
<1>1. SD!TypeOK' /\ VM!TypeOK'
  <2>1. SDP!TypeOK' /\ VMP!TypeOK'
    BY PartsNext DEF Parts, SDP!IInv, VMP!Timely, VMP!IInv
  <2> QED
    BY <2>1 DEF SD!TypeOK, SD!Stages, SD!Outcomes, SDP!TypeOK, SDP!Stages, SDP!Outcomes,
       VM!TypeOK, VM!Awaits, VM!Commands, VM!Waits, VMP!TypeOK, VMP!Awaits, VMP!Commands, VMP!Waits
<1>2. Share!TypeOK'
  BY ShareSteps, ShareTypes DEF TypeOK
<1>3. Proxy!TypeOK'
  BY ProxySteps, ProxyTypes DEF TypeOK
<1>4. /\ quitting' \in BOOLEAN
      /\ appPc' \in {"window", "share", "proxy", "vm", "ready", "error", "rejected", "quit"}
      /\ dir' \in {"none", "empty", "files", "unlinking", "gone", "kept"}
  <2> USE DEF TypeOK, appvars, VmStartSettles
  <2>1. CASE StartVm \/ ShareStarts
    BY <2>1 DEF StartVm, ShareStarts
  <2>2. CASE ProxyStarts
    <3>1. proxyStart' \in {"up", "hung", "rejected"}
      BY <2>2 DEF ProxyStarts, Proxy!PrepareFails, Proxy!Listen
    <3> QED
      BY <2>2, <3>1 DEF ProxyStarts
  <2>3. CASE VmStep \/ VmTimers \/ Guests \/ Tick \/ Rmdir \/ QemuExits
    BY <2>3 DEF VmStep, VmTimers, Guests, Tick, Rmdir, QemuExits
  <2>4. CASE Quit \/ Leave \/ StageDone \/ CleanupFails \/ StageTimesOut
    BY <2>4 DEF Quit, Leave, StageDone, CleanupFails, StageTimesOut
  <2>5. CASE BeginStage
    BY <2>5 DEF BeginStage
  <2>6. CASE VmStopFails \/ Watchdog
    BY <2>6 DEF VmStopFails, Watchdog
  <2>7. CASE UNCHANGED vars
    BY <2>7 DEF vars
  <2> QED
    BY <2>1, <2>2, <2>3, <2>4, <2>5, <2>6, <2>7 DEF Next, Scheduled, Turn, Timers, Startup, Stages
<1> QED
  BY <1>1, <1>2, <1>3, <1>4 DEF TypeOK

(* TypeOK holds in every state of the application. *)
THEOREM TypeCorrect == Spec => []TypeOK
<1>1. Init => TypeOK
  <2> SUFFICES ASSUME Init PROVE TypeOK
    OBVIOUS
  <2>1. SD!TypeOK /\ VM!TypeOK
    <3>1. SDP!TypeOK /\ VMP!TypeOK
      BY PartsInit DEF Parts, SDP!IInv, VMP!Timely, VMP!IInv
    <3> QED
      BY <3>1 DEF SD!TypeOK, SD!Stages, SD!Outcomes, SDP!TypeOK, SDP!Stages, SDP!Outcomes,
         VM!TypeOK, VM!Awaits, VM!Commands, VM!Waits, VMP!TypeOK, VMP!Awaits, VMP!Commands, VMP!Waits
  <2>2. Share!TypeOK /\ Proxy!TypeOK
    BY DEF Init, Share!Init, Proxy!Init, Share!TypeOK, Proxy!TypeOK
  <2> QED
    BY <2>1, <2>2 DEF Init, TypeOK
<1> QED
  BY <1>1, TypeNext, Invariant, PTL DEF Spec
=============================================================================

----------------------------- MODULE QemuProcess -----------------------------
(* src/sandbox/src/main/qemu.ts (start, stop, forceStop) under the part of    *)
(* vm-manager.ts that drives it: VmManager.start/stop/forceStop and the       *)
(* serial and PTY channels. A step is one callback of the event loop with the *)
(* promise continuations it resumes. The QMP connection is seen from here     *)
(* only as open or not; QmpClient models what is on it.                       *)
EXTENDS Integers

CONSTANTS
  CmdTimeout,   \* seconds a QMP command of stop() is given: min(timeoutMs, 2000)
  WaitTimeout,  \* seconds for a powerdown, and again for SIGTERM: timeoutMs
  KillTimeout,  \* seconds for SIGKILL: 5000
  Lag           \* how late the event loop may run a timer that is due

ASSUME QemuAssumption ==
  CmdTimeout \in Nat /\ WaitTimeout \in Nat /\ KillTimeout \in Nat /\ Lag \in Nat

VARIABLES
  startPc,    \* start(): "idle", the await it is at, "up" or "failed"
  proc,       \* "none", "alive", "exited", or "unspawned": exitCode set, no exit event
  qmp,        \* _qmp: "null", "idle" (no socket) or "open" (qmp.connected)
  stopping,   \* the flag stop() and forceStop() set
  stopPc,     \* stopProcess(): "idle", the await it is at, "done" or "failed"
  stopTimer,  \* when the timer of that await expires
  stopAt,     \* when stop() was first called
  serial,     \* the VmManager has its serial client
  pty,        \* its PTY client: "none", "trying" (an attempt or the timer of a retry) or "up"
  signals,    \* what was sent to the process
  forced,     \* forceStop() was called
  now

channels == <<serial, pty>>
startvars == <<startPc, qmp, channels>>
stopvars == <<stopPc, stopTimer, stopAt>>
vars == <<startvars, proc, stopping, stopvars, signals, forced, now>>

Waits == {"waitPowerdown", "waitTerm", "waitKill"}
Commands == {"query", "powerdown"}
Awaits == Commands \cup Waits
Running == proc = "alive"

TypeOK ==
  /\ startPc \in {"idle", "alloc", "connect", "negotiate", "up", "failed"}
  /\ proc \in {"none", "alive", "exited", "unspawned"}
  /\ qmp \in {"null", "idle", "open"}
  /\ stopPc \in Awaits \cup {"idle", "done", "failed"}
  /\ stopping \in BOOLEAN /\ serial \in BOOLEAN /\ forced \in BOOLEAN
  /\ pty \in {"none", "trying", "up"}
  /\ signals \subseteq {"term", "kill"}
  /\ now \in Nat /\ stopTimer \in Nat /\ stopAt \in Nat

Init ==
  /\ startPc = "idle" /\ proc = "none" /\ qmp = "null" /\ serial = FALSE /\ pty = "none"
  /\ stopping = FALSE /\ stopPc = "idle" /\ stopTimer = 0 /\ stopAt = 0
  /\ signals = {} /\ forced = FALSE /\ now = 0
-----------------------------------------------------------------------------
(* start() *)
Start ==
  /\ startPc = "idle"
  /\ startPc' = IF stopping THEN "failed" ELSE "alloc"
  /\ UNCHANGED <<proc, qmp, channels, stopping, stopvars, signals, forced, now>>

SpawnAnyway == TRUE
MaySpawn == ~stopping

(* After the transports: give up if stopping, else look for the binary and    *)
(* spawn it, which fails, fails asynchronously, or yields a process.          *)
SpawnQemu ==
  /\ startPc = "alloc"
  /\ \/ /\ ~MaySpawn \/ TRUE  \* cancelled, a transport failed, or no binary
        /\ startPc' = "failed"
        /\ UNCHANGED <<proc, qmp>>
     \/ /\ MaySpawn
        /\ startPc' = "connect" /\ qmp' = "open"
        /\ proc' \in {"alive", "unspawned"}
  /\ UNCHANGED <<channels, stopping, stopvars, signals, forced, now>>

(* A retry of qmp.connect. The client counts as connected from the moment it  *)
(* has a socket, whether or not anyone listens at the other end.              *)
QmpOpens ==
  /\ startPc = "connect" /\ qmp = "idle"
  /\ qmp' = "open"
  /\ UNCHANGED <<startPc, proc, channels, stopping, stopvars, signals, forced, now>>

QmpGreets ==
  /\ startPc = "connect" /\ qmp = "open" /\ proc # "unspawned"
  /\ startPc' = "negotiate"
  /\ UNCHANGED <<proc, qmp, channels, stopping, stopvars, signals, forced, now>>

ConnectAnyway == TRUE
MayConnectChannels == stopPc = "idle"

(* qmp_capabilities is answered: QemuProcess.start resolves, VmManager.start *)
(* goes on unless stop() was called meanwhile.                               *)
QmpReady ==
  /\ startPc = "negotiate" /\ qmp = "open"
  /\ startPc' = "up"
  /\ IF MayConnectChannels THEN serial' = TRUE /\ pty' = "trying" ELSE UNCHANGED channels
  /\ UNCHANGED <<proc, qmp, stopping, stopvars, signals, forced, now>>

(* qmp_capabilities is answered with an error: the connection stays. *)
QmpRefuses ==
  /\ startPc = "negotiate" /\ qmp = "open"
  /\ startPc' = "failed"
  /\ UNCHANGED <<proc, qmp, channels, stopping, stopvars, signals, forced, now>>
-----------------------------------------------------------------------------
(* The channels, of which PtyChannel models one *)

(* An attempt or a retry comes through, whether or not its channel was        *)
(* disconnected meanwhile.                                                    *)
PtyConnects == pty = "trying" /\ Running /\ pty' = "up" /\ UNCHANGED serial

(* The serial connection ends; the PTY's ends, or its attempts fail.          *)
ChannelEnds ==
  \/ serial /\ serial' = FALSE /\ UNCHANGED pty
  \/ pty # "none" /\ pty' = "none" /\ UNCHANGED serial

Channels ==
  /\ PtyConnects \/ ChannelEnds
  /\ UNCHANGED <<startPc, proc, qmp, stopping, stopvars, signals, forced, now>>

HangUp == pty' = IF pty = "up" THEN "none" ELSE pty

(* disconnectChannels: a PTY attempt under way goes on, and the VmManager     *)
(* has forgotten the channel when it is called again.                         *)
DisconnectChannels ==
  /\ serial' = FALSE
  /\ IF stopping THEN UNCHANGED pty ELSE HangUp
-----------------------------------------------------------------------------
(* stop() *)
ArmLonger(pc, seconds) == stopPc' = pc /\ stopTimer' = now + seconds + 3
Arm(pc, seconds) == stopPc' = pc /\ stopTimer' = now + seconds

(* After the QMP attempt: drop the client, then SIGTERM unless it has exited. *)
Terminate ==
  /\ qmp' = "null"
  /\ IF Running
     THEN Arm("waitTerm", WaitTimeout) /\ signals' = signals \cup {"term"}
     ELSE stopPc' = "done" /\ UNCHANGED <<stopTimer, signals>>

(* A connection that is lost rejects the command start() awaits on it. *)
StartKept == startPc
StartCut == IF startPc = "negotiate" THEN "failed" ELSE startPc

Stop ==
  /\ stopPc = "idle"
  /\ stopping' = TRUE /\ stopAt' = now
  /\ DisconnectChannels
  /\ IF proc # "none" /\ proc # "exited" /\ qmp = "open"
     THEN Arm("query", CmdTimeout) /\ UNCHANGED <<startPc, qmp, signals>>
     ELSE Terminate /\ startPc' = StartCut
  /\ UNCHANGED <<proc, forced, now>>

(* query-status is answered: by a guest that runs once capabilities are       *)
(* negotiated, by a paused one, or by an error.                               *)
QueryReply ==
  /\ stopPc = "query" /\ qmp = "open" /\ proc # "unspawned"
  /\ \/ startPc = "up" /\ Arm("powerdown", CmdTimeout) /\ UNCHANGED <<startPc, qmp, signals>>
     \/ Terminate /\ startPc' = StartCut
  /\ UNCHANGED <<proc, channels, stopping, stopAt, forced, now>>

PowerdownReply ==
  /\ stopPc = "powerdown" /\ qmp = "open"
  /\ \/ Arm("waitPowerdown", WaitTimeout) /\ Running /\ UNCHANGED <<qmp, signals>>
     \/ Terminate
  /\ UNCHANGED <<startPc, proc, channels, stopping, stopAt, forced, now>>

StopDue == now >= stopTimer

(* A command's timer tears the connection down, which rejects it. *)
CommandTimesOut ==
  /\ stopPc \in Commands /\ StopDue
  /\ Terminate /\ startPc' = StartCut
  /\ UNCHANGED <<proc, channels, stopping, stopAt, forced, now>>

(* The client gives up its socket: whoever awaits a command on it is told. *)
LoseSocket ==
  IF stopPc \in Commands THEN Terminate
                         ELSE qmp' = "idle" /\ UNCHANGED <<stopPc, stopTimer, signals>>

(* The socket closes, as when QEMU goes. *)
QmpLost ==
  /\ qmp = "open"
  /\ startPc' = StartCut
  /\ LoseSocket
  /\ UNCHANGED <<proc, channels, stopping, stopAt, forced, now>>

(* start()'s connect fails: its deadline, which also takes the socket that    *)
(* was never greeted, or its generation check after a disconnect().           *)
QmpConnectFails ==
  /\ startPc = "connect"
  /\ startPc' = "failed"
  /\ IF qmp = "open" THEN LoseSocket ELSE UNCHANGED <<qmp, stopPc, stopTimer, signals>>
  /\ UNCHANGED <<proc, channels, stopping, stopAt, forced, now>>

PowerdownOver ==
  /\ stopPc = "waitPowerdown" /\ StopDue
  /\ Terminate
  /\ UNCHANGED <<startPc, proc, channels, stopping, stopAt, forced, now>>

GiveUpAtTerm == stopPc' = "failed" /\ UNCHANGED <<stopTimer, signals>>
Escalate == Arm("waitKill", KillTimeout) /\ signals' = signals \cup {"kill"}

TermOver ==
  /\ stopPc = "waitTerm" /\ StopDue
  /\ Escalate
  /\ UNCHANGED <<startvars, proc, stopping, stopAt, forced, now>>

KillOver ==
  /\ stopPc = "waitKill" /\ StopDue
  /\ stopPc' = "failed"
  /\ UNCHANGED <<startvars, proc, stopping, stopTimer, stopAt, signals, forced, now>>

(* VmManager.forceStop: channels, then QMP (a command stop() awaits on it is  *)
(* rejected, and stop() goes on to SIGTERM), then SIGKILL.                    *)
ForceStop ==
  /\ stopping' = TRUE /\ forced' = TRUE
  /\ DisconnectChannels /\ qmp' = "null" /\ startPc' = StartCut
  /\ LET kill == IF Running THEN {"kill"} ELSE {}
     IN IF stopPc \in Commands
        THEN IF Running THEN Arm("waitTerm", WaitTimeout) /\ signals' = signals \cup kill \cup {"term"}
                        ELSE stopPc' = "done" /\ UNCHANGED <<stopTimer, signals>>
        ELSE signals' = signals \cup kill /\ UNCHANGED <<stopPc, stopTimer>>
  /\ UNCHANGED <<proc, stopAt, now>>
-----------------------------------------------------------------------------
(* The process, and time *)

(* The process ends, and QEMU's end of the PTY's connection with it. *)
Exit ==
  /\ Running
  /\ proc' = "exited" /\ HangUp
  /\ IF stopPc \in Waits THEN stopPc' = "done" /\ qmp' = "null"
                         ELSE UNCHANGED <<stopPc, qmp>>
  /\ UNCHANGED <<startPc, serial, stopping, stopTimer, stopAt, signals, forced, now>>

MayTick == stopPc \in Awaits => now < stopTimer + Lag

Tick == stopPc \in Awaits /\ MayTick /\ now' = now + 1 /\ UNCHANGED <<startvars, proc, stopping, stopvars, signals, forced>>

Replies == QmpOpens \/ QmpGreets \/ QmpReady \/ QmpRefuses \/ QueryReply \/ PowerdownReply

(* connect's deadline and the timer of the qmp_capabilities command end start(). *)
Starting == SpawnQemu \/ QmpConnectFails \/ (startPc = "negotiate" /\ QmpLost)
Stopping == CommandTimesOut \/ PowerdownOver \/ TermOver \/ KillOver \/ Tick

Next == Start \/ Stop \/ ForceStop \/ Exit \/ QmpLost \/ Channels \/ Replies \/ Starting \/ Stopping

(* The event loop runs what is due. That QEMU opens a socket, answers, obeys  *)
(* SIGTERM or even dies of SIGKILL is not assumed.                            *)
Spec == Init /\ [][Next]_vars /\ WF_vars(Starting) /\ WF_vars(Stopping)
-----------------------------------------------------------------------------
(* Once stop() has resolved QEMU is not running and never will be, even when  *)
(* it was called while start() had not spawned it yet (qemu.ts:75).           *)
StopMeansDead == stopPc = "done" => ~Running

(* The escalation leaves no step out: stop() rejects only if both signals     *)
(* were sent to a process that is still there, and unless forceStop() was     *)
(* called SIGKILL is never the first.                                         *)
EscalationComplete ==
  /\ stopPc = "failed" => {"term", "kill"} \subseteq signals
  /\ "kill" \in signals /\ ~forced => "term" \in signals

(* A stop() that is over leaves no QMP client and no serial client behind,    *)
(* not even that of a start() that was about to succeed (vm-manager.ts:47).   *)
(* The PTY is gone when stop() has resolved. Its retries are not cancelled    *)
(* (pty-channel.ts:32), so that it may come back until QEMU ends: it can be   *)
(* there after a stop() that failed.                                          *)
ReleasedAfterStop ==
  /\ stopPc \in {"done", "failed"} => qmp = "null" /\ ~serial
  /\ stopPc = "done" => pty # "up"

(* Two commands, two waits and the wait after SIGKILL: 29 s and their lag, so *)
(* stop() is over before the 30 s that main.ts:332 allows it.                 *)
StopBudget == 2 * CmdTimeout + 2 * WaitTimeout + KillTimeout + 5 * Lag
StopBounded == stopPc \in Awaits => now <= stopAt + StopBudget

(* stop() resolves or rejects, whatever QEMU does, and so does a start() that *)
(* it interrupts or whose QEMU goes away.                                     *)
CallsSettle ==
  /\ (startPc = "alloc") ~> (startPc \in {"up", "failed"})
  /\ (stopping /\ stopPc \in Awaits) ~> (stopPc \in {"done", "failed"})
=============================================================================

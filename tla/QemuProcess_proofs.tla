------------------------ MODULE QemuProcess_proofs ------------------------
(* Proofs about QemuProcess, for all timeouts and every lag. *)
EXTENDS QemuProcess, TLAPS

(* A stop() under way keeps what it has given up: no serial client, no QMP    *)
(* client after the attempt to use it, and the signals it has sent.           *)
StopInv ==
  /\ stopPc # "idle" => stopping /\ ~serial
  /\ stopPc \in {"waitTerm", "waitKill", "done", "failed"} => qmp = "null"
  /\ stopPc = "done" => ~Running
  /\ stopPc \in {"waitTerm", "waitKill", "failed"} => "term" \in signals
  /\ stopPc \in {"waitKill", "failed"} => "kill" \in signals
  /\ "kill" \in signals /\ ~forced => "term" \in signals

(* The PTY it may get back, but only from a process that start() has spawned  *)
(* and that is still there.                                                   *)
PtyInv ==
  /\ startPc \in {"idle", "alloc"} => pty = "none"
  /\ pty = "up" => Running

IInv == TypeOK /\ StopInv /\ PtyInv

LEMMA IInvInit == Init => IInv
<1>1. Init => TypeOK
  <2> SUFFICES ASSUME Init PROVE TypeOK
    OBVIOUS
  <2>1. signals \in SUBSET {"term", "kill"} /\ now \in Nat /\ stopTimer \in Nat /\ stopAt \in Nat
    BY DEF Init
  <2>2. stopping \in BOOLEAN /\ serial \in BOOLEAN /\ pty = "none" /\ forced \in BOOLEAN
    BY DEF Init
  <2>3. startPc = "idle" /\ proc = "none" /\ qmp = "null" /\ stopPc = "idle"
    BY DEF Init
  <2> QED
    BY <2>1, <2>2, <2>3 DEF TypeOK
<1>2. Init => StopInv
  BY DEF Init, StopInv, Running
<1>3. Init => PtyInv
  BY DEF Init, PtyInv
<1> QED
  BY <1>1, <1>2, <1>3 DEF IInv

LEMMA ArmTyped ==
  ASSUME TypeOK, NEW pc, NEW seconds \in Nat, Arm(pc, seconds)
  PROVE  stopPc' = pc /\ stopTimer' \in Nat
  BY DEF TypeOK, Arm

(* The two ways on from the QMP attempt. *)
LEMMA TerminateSplits ==
  ASSUME TypeOK, Terminate
  PROVE  /\ qmp' = "null" /\ stopTimer' \in Nat /\ signals \subseteq signals'
         /\ signals' \in SUBSET {"term", "kill"} /\ ("kill" \in signals' <=> "kill" \in signals)
         /\ \/ stopPc' = "done" /\ ~Running
            \/ stopPc' = "waitTerm" /\ "term" \in signals'
<1>1. CASE Running
  <2>1. Arm("waitTerm", WaitTimeout) /\ signals' = signals \cup {"term"} /\ qmp' = "null"
    BY <1>1 DEF Terminate
  <2>2. stopPc' = "waitTerm" /\ stopTimer' \in Nat
    BY <2>1, ArmTyped, QemuAssumption
  <2> QED
    BY <2>1, <2>2 DEF TypeOK
<1>2. CASE ~Running
  BY <1>2 DEF Terminate, TypeOK
<1> QED
  BY <1>1, <1>2

LEMMA StartCutTyped == TypeOK => StartCut \in {"idle", "alloc", "connect", "negotiate", "up", "failed"}
  BY DEF TypeOK, StartCut

LEMMA DisconnectTyped ==
  ASSUME TypeOK, DisconnectChannels
  PROVE  serial' = FALSE /\ pty' \in {"none", "trying", "up"}
  BY DEF TypeOK, DisconnectChannels, HangUp

(* Only a process that ends takes a PTY that is up, and it hangs up itself.   *)
LEMMA PtyNext == PtyInv /\ [Next]_vars => PtyInv'
<1> SUFFICES ASSUME PtyInv, [Next]_vars PROVE PtyInv'
  OBVIOUS
<1> USE DEF PtyInv, Running, startvars, channels
<1>1. CASE Start \/ QmpOpens \/ QmpGreets \/ QmpReady \/ QmpRefuses
  BY <1>1 DEF Start, QmpOpens, QmpGreets, QmpReady, QmpRefuses
<1>2. CASE Stop \/ ForceStop
  BY <1>2 DEF Stop, ForceStop, DisconnectChannels, HangUp, StartCut
<1>3. CASE Exit
  BY <1>3 DEF Exit, HangUp
<1>4. CASE QmpLost \/ QmpConnectFails \/ CommandTimesOut
  BY <1>4 DEF QmpLost, QmpConnectFails, CommandTimesOut, StartCut
<1>5. CASE QueryReply \/ PowerdownReply
  BY <1>5 DEF QueryReply, PowerdownReply, StartCut
<1>6. CASE Channels
  BY <1>6 DEF Channels, PtyConnects, ChannelEnds
<1>7. CASE SpawnQemu
  BY <1>7 DEF SpawnQemu
<1>8. CASE PowerdownOver \/ TermOver \/ KillOver \/ Tick
  BY <1>8 DEF PowerdownOver, TermOver, KillOver, Tick
<1>9. CASE UNCHANGED vars
  BY <1>9 DEF vars
<1> QED
  BY <1>1, <1>2, <1>3, <1>4, <1>5, <1>6, <1>7, <1>8, <1>9 DEF Next, Replies, Starting, Stopping

LEMMA IInvNext == IInv /\ [Next]_vars => IInv'
<1> SUFFICES ASSUME TypeOK, StopInv, [Next]_vars PROVE (TypeOK /\ StopInv)'
  BY PtyNext DEF IInv
<1> USE QemuAssumption DEF TypeOK, StopInv, Running, startvars, stopvars, channels,
          Awaits, Commands, Waits
<1>1. CASE Start
  BY <1>1 DEF Start
<1>2. CASE Stop
  <2>1. CASE Terminate
    BY <1>2, <2>1, TerminateSplits, StartCutTyped, DisconnectTyped DEF Stop
  <2>2. CASE ~Terminate
    <3>1. Arm("query", CmdTimeout) /\ UNCHANGED <<startPc, qmp, signals>>
      BY <1>2, <2>2 DEF Stop
    <3>2. stopPc' = "query" /\ stopTimer' \in Nat
      BY <3>1, ArmTyped
    <3> QED
      BY <1>2, <3>1, <3>2, DisconnectTyped DEF Stop
  <2> QED
    BY <2>1, <2>2
<1>3. CASE ForceStop
  <2>1. CASE stopPc \in Commands /\ Running
    <3>1. Arm("waitTerm", WaitTimeout) /\ signals' = {"term", "kill"}
      BY <1>3, <2>1 DEF ForceStop
    <3>2. stopPc' = "waitTerm" /\ stopTimer' \in Nat
      BY <3>1, ArmTyped
    <3> QED
      BY <1>3, <2>1, <3>1, <3>2, StartCutTyped, DisconnectTyped DEF ForceStop
  <2>2. CASE stopPc \in Commands /\ ~Running
    BY <1>3, <2>2, StartCutTyped, DisconnectTyped DEF ForceStop
  <2>3. CASE stopPc \notin Commands
    BY <1>3, <2>3, StartCutTyped, DisconnectTyped DEF ForceStop
  <2> QED
    BY <2>1, <2>2, <2>3
<1>4. CASE Exit
  BY <1>4 DEF Exit, HangUp
<1>5. CASE QmpLost
  <2>1. CASE Terminate
    BY <1>5, <2>1, TerminateSplits, StartCutTyped DEF QmpLost, LoseSocket
  <2>2. CASE ~Terminate
    BY <1>5, <2>2, StartCutTyped DEF QmpLost, LoseSocket
  <2> QED
    BY <2>1, <2>2
<1>6. CASE QmpOpens
  BY <1>6 DEF QmpOpens
<1>7. CASE QmpGreets
  BY <1>7 DEF QmpGreets
<1>8. CASE QmpReady
  BY <1>8 DEF QmpReady, MayConnectChannels
<1>9. CASE QmpRefuses
  BY <1>9 DEF QmpRefuses
<1>10. CASE QueryReply
  <2>1. CASE Terminate
    BY <1>10, <2>1, TerminateSplits, StartCutTyped DEF QueryReply
  <2>2. CASE ~Terminate
    <3>1. Arm("powerdown", CmdTimeout) /\ UNCHANGED <<startPc, qmp, signals>>
      BY <1>10, <2>2 DEF QueryReply
    <3>2. stopPc' = "powerdown" /\ stopTimer' \in Nat
      BY <3>1, ArmTyped
    <3> QED
      BY <1>10, <3>1, <3>2 DEF QueryReply
  <2> QED
    BY <2>1, <2>2
<1>11. CASE PowerdownReply
  <2>1. CASE Terminate
    BY <1>11, <2>1, TerminateSplits, StartCutTyped DEF PowerdownReply
  <2>2. CASE ~Terminate
    <3>1. Arm("waitPowerdown", WaitTimeout) /\ UNCHANGED <<qmp, signals>>
      BY <1>11, <2>2 DEF PowerdownReply
    <3>2. stopPc' = "waitPowerdown" /\ stopTimer' \in Nat
      BY <3>1, ArmTyped
    <3> QED
      BY <1>11, <3>1, <3>2 DEF PowerdownReply
  <2> QED
    BY <2>1, <2>2
<1>12. CASE SpawnQemu
  BY <1>12 DEF SpawnQemu, MaySpawn
<1>13. CASE QmpConnectFails
  <2>1. CASE Terminate
    BY <1>13, <2>1, TerminateSplits DEF QmpConnectFails, LoseSocket
  <2>2. CASE ~Terminate
    BY <1>13, <2>2 DEF QmpConnectFails, LoseSocket
  <2> QED
    BY <2>1, <2>2
<1>14. CASE CommandTimesOut
  BY <1>14, TerminateSplits, StartCutTyped DEF CommandTimesOut
<1>15. CASE PowerdownOver
  BY <1>15, TerminateSplits DEF PowerdownOver
<1>16. CASE TermOver
  BY <1>16 DEF TermOver, Escalate, Arm
<1>17. CASE KillOver
  BY <1>17 DEF KillOver
<1>18. CASE Tick
  BY <1>18 DEF Tick
<1>19. CASE Channels
  <2>1. UNCHANGED <<startPc, proc, qmp, stopping, stopPc, stopTimer, stopAt, signals, forced, now>>
    BY <1>19 DEF Channels
  <2>2. CASE PtyConnects
    BY <2>1, <2>2 DEF PtyConnects
  <2>3. CASE ChannelEnds
    <3>1. CASE serial /\ serial' = FALSE /\ UNCHANGED pty
      BY <2>1, <3>1
    <3>2. CASE pty' = "none" /\ UNCHANGED serial
      BY <2>1, <3>2
    <3> QED
      BY <2>3, <3>1, <3>2 DEF ChannelEnds
  <2> QED
    BY <1>19, <2>2, <2>3 DEF Channels
<1>20. CASE UNCHANGED vars
  BY <1>20 DEF vars
<1> QED
  BY <1>1, <1>2, <1>3, <1>4, <1>5, <1>6, <1>7, <1>8, <1>9, <1>10, <1>11, <1>12, <1>13, <1>14, <1>15, <1>16, <1>17, <1>18, <1>19, <1>20 DEF Next, Replies, Starting, Stopping

LEMMA Invariant == Spec => []IInv
  BY IInvInit, IInvNext, PTL DEF Spec

(* TypeOK holds in every state. *)
THEOREM TypeCorrect == Spec => []TypeOK
<1>1. IInv => TypeOK
  BY DEF IInv
<1> QED
  BY <1>1, Invariant, PTL

(* When stop() has resolved QEMU is not running, and no start() brings it up. *)
THEOREM StoppedIsDead == Spec => []StopMeansDead
<1>1. IInv => StopMeansDead
  BY DEF IInv, StopInv, StopMeansDead
<1> QED
  BY <1>1, Invariant, PTL

(* stop() fails only after both signals, and SIGTERM comes first. *)
THEOREM EscalatesCompletely == Spec => []EscalationComplete
<1>1. IInv => EscalationComplete
  BY DEF IInv, StopInv, EscalationComplete
<1> QED
  BY <1>1, Invariant, PTL

(* A stop() that is over leaves neither a QMP client nor a serial client, and *)
(* one that has resolved no PTY, whose retries go on while QEMU does.         *)
THEOREM StopReleases == Spec => []ReleasedAfterStop
<1>1. IInv => ReleasedAfterStop
  BY DEF IInv, StopInv, PtyInv, ReleasedAfterStop
<1> QED
  BY <1>1, Invariant, PTL
-----------------------------------------------------------------------------
(* How long after the call of stop() the timer of an await can expire. *)
Used(pc) ==
  CASE pc = "query" -> CmdTimeout
    [] pc = "powerdown" -> 2 * CmdTimeout + Lag
    [] pc = "waitPowerdown" -> 2 * CmdTimeout + WaitTimeout + 2 * Lag
    [] pc = "waitTerm" -> 2 * CmdTimeout + 2 * WaitTimeout + 3 * Lag
    [] pc = "waitKill" -> 2 * CmdTimeout + 2 * WaitTimeout + KillTimeout + 4 * Lag
    [] OTHER -> 0

TimeInv ==
  stopPc \in Awaits => now <= stopTimer + Lag /\ stopTimer <= stopAt + Used(stopPc)

Timely == IInv /\ TimeInv

LEMMA UsedValues ==
  /\ Used("query") = CmdTimeout
  /\ Used("powerdown") = 2 * CmdTimeout + Lag
  /\ Used("waitPowerdown") = 2 * CmdTimeout + WaitTimeout + 2 * Lag
  /\ Used("waitTerm") = 2 * CmdTimeout + 2 * WaitTimeout + 3 * Lag
  /\ Used("waitKill") = 2 * CmdTimeout + 2 * WaitTimeout + KillTimeout + 4 * Lag
  BY DEF Used

(* An await that follows another starts within what the earlier ones used. *)
LEMMA ArmInTime ==
  ASSUME TypeOK, TimeInv, stopAt' = stopAt, now' = now,
         \/ stopPc = "query" /\ Arm("powerdown", CmdTimeout)
         \/ stopPc = "powerdown" /\ Arm("waitPowerdown", WaitTimeout)
         \/ stopPc \in Commands \cup {"waitPowerdown"} /\ Arm("waitTerm", WaitTimeout)
         \/ stopPc = "waitTerm" /\ Arm("waitKill", KillTimeout)
  PROVE  TimeInv'
<1> DEFINE pc == stopPc
<1>1. /\ now \in Nat /\ stopTimer \in Nat /\ stopAt \in Nat
      /\ CmdTimeout \in Nat /\ WaitTimeout \in Nat /\ KillTimeout \in Nat /\ Lag \in Nat
  BY QemuAssumption DEF TypeOK
<1>2. now <= stopTimer + Lag /\ stopTimer <= stopAt + Used(stopPc)
  BY DEF TimeInv, Awaits, Commands, Waits
<1>3. CASE stopPc = "query" /\ Arm("powerdown", CmdTimeout)
  BY <1>1, <1>2, <1>3, UsedValues DEF TimeInv, Arm
<1>4. CASE stopPc = "powerdown" /\ Arm("waitPowerdown", WaitTimeout)
  BY <1>1, <1>2, <1>4, UsedValues DEF TimeInv, Arm
<1>5. CASE stopPc \in Commands \cup {"waitPowerdown"} /\ Arm("waitTerm", WaitTimeout)
  <2>1. now <= stopAt + 2 * CmdTimeout + WaitTimeout + 3 * Lag
    BY <1>1, <1>2, <1>5, UsedValues DEF Commands
  <2> QED
    BY <1>1, <1>5, <2>1, UsedValues DEF TimeInv, Arm
<1>6. CASE stopPc = "waitTerm" /\ Arm("waitKill", KillTimeout)
  BY <1>1, <1>2, <1>6, UsedValues DEF TimeInv, Arm
<1> QED
  BY <1>3, <1>4, <1>5, <1>6

(* Steps that neither arm the timer nor let time pass. *)
LEMMA TimeKept ==
  ASSUME TimeInv, UNCHANGED <<now, stopAt>>,
         \/ UNCHANGED <<stopPc, stopTimer>>
         \/ stopPc' \in {"done", "failed"}
  PROVE  TimeInv'
  BY DEF TimeInv, Awaits, Commands, Waits

LEMMA TerminateInTime ==
  ASSUME TypeOK, TimeInv, stopPc \in Commands \cup {"waitPowerdown"}, Terminate,
         UNCHANGED <<now, stopAt>>
  PROVE  TimeInv'
<1>1. CASE Running
  BY <1>1, ArmInTime DEF Terminate
<1>2. CASE ~Running
  BY <1>2, TimeKept DEF Terminate
<1> QED
  BY <1>1, <1>2

LEMMA TimelyNext == Timely /\ [Next]_vars => Timely'
<1> SUFFICES ASSUME Timely, [Next]_vars PROVE Timely'
  OBVIOUS
<1>0. IInv /\ IInv' /\ TypeOK /\ TimeInv
  BY IInvNext DEF Timely, IInv
<1> SUFFICES TimeInv'
  BY <1>0 DEF Timely
<1>1. CASE Start \/ Exit \/ QmpOpens \/ QmpGreets \/ QmpReady \/ QmpRefuses \/ SpawnQemu \/ KillOver
           \/ Channels
  BY <1>0, <1>1, TimeKept DEF Start, Exit, QmpOpens, QmpGreets, QmpReady, QmpRefuses, SpawnQemu,
     KillOver, Channels, stopvars
<1>2. CASE Stop
  <2>1. stopAt' = now /\ now' = now
    BY <1>2 DEF Stop
  <2>2. now \in Nat /\ CmdTimeout \in Nat /\ WaitTimeout \in Nat /\ Lag \in Nat
    BY <1>0, QemuAssumption DEF TypeOK
  <2>3. CASE Arm("query", CmdTimeout)
    BY <2>1, <2>2, <2>3, UsedValues DEF Arm, TimeInv
  <2>4. CASE Terminate /\ Running
    BY <2>1, <2>2, <2>4, UsedValues DEF Terminate, Arm, TimeInv
  <2>5. CASE Terminate /\ ~Running
    BY <2>5 DEF Terminate, TimeInv, Awaits, Commands, Waits
  <2> QED
    BY <1>2, <2>3, <2>4, <2>5 DEF Stop
<1>3. CASE ForceStop
  <2>1. UNCHANGED <<now, stopAt>>
    BY <1>3 DEF ForceStop
  <2>2. CASE stopPc \in Commands /\ Running
    <3>1. Arm("waitTerm", WaitTimeout)
      BY <1>3, <2>2 DEF ForceStop
    <3> QED
      BY <1>0, <2>1, <2>2, <3>1, ArmInTime
  <2>3. CASE ~(stopPc \in Commands /\ Running)
    BY <1>0, <1>3, <2>1, <2>3, TimeKept DEF ForceStop
  <2> QED
    BY <2>2, <2>3
<1>4. CASE QueryReply \/ PowerdownReply
  <2>1. UNCHANGED <<now, stopAt>> /\ stopPc \in Commands
    BY <1>4 DEF QueryReply, PowerdownReply, Commands
  <2>2. CASE Terminate
    BY <1>0, <2>1, <2>2, TerminateInTime
  <2>3. CASE ~Terminate
    BY <1>0, <1>4, <2>1, <2>3, ArmInTime DEF QueryReply, PowerdownReply
  <2> QED
    BY <2>2, <2>3
<1>5. CASE CommandTimesOut \/ PowerdownOver
  BY <1>0, <1>5, TerminateInTime DEF CommandTimesOut, PowerdownOver
<1>6. CASE QmpLost \/ QmpConnectFails
  <2>1. UNCHANGED <<now, stopAt>>
    BY <1>6 DEF QmpLost, QmpConnectFails
  <2>2. CASE Terminate /\ stopPc \in Commands
    BY <1>0, <2>1, <2>2, TerminateInTime
  <2>3. CASE ~(Terminate /\ stopPc \in Commands)
    BY <1>0, <1>6, <2>1, <2>3, TimeKept DEF QmpLost, QmpConnectFails, LoseSocket
  <2> QED
    BY <2>2, <2>3
<1>7. CASE TermOver
  BY <1>0, <1>7, ArmInTime DEF TermOver, Escalate
<1>8. CASE Tick
  <2>1. stopPc \in Awaits /\ now < stopTimer + Lag /\ now' = now + 1 /\ UNCHANGED stopvars
    BY <1>8 DEF Tick, MayTick
  <2>2. now \in Nat /\ stopTimer \in Nat /\ Lag \in Nat
    BY <1>0, QemuAssumption DEF TypeOK
  <2>3. now + 1 <= stopTimer + Lag
    BY <2>1, <2>2
  <2> QED
    BY <1>0, <2>1, <2>3 DEF TimeInv, stopvars
<1>9. CASE UNCHANGED vars
  BY <1>0, <1>9, TimeKept DEF vars, stopvars
<1> QED
  BY <1>1, <1>2, <1>3, <1>4, <1>5, <1>6, <1>7, <1>8, <1>9 DEF Next, Replies, Starting, Stopping

(* stop() is over within its budget: two commands, two waits, the wait after  *)
(* SIGKILL and the lag of five timers.                                        *)
THEOREM StopIsBounded == Spec => []StopBounded
<1>1. Init => Timely
  BY IInvInit DEF Init, Timely, TimeInv, Awaits, Commands, Waits
<1>2. Timely => StopBounded
  <2> SUFFICES ASSUME Timely, stopPc \in Awaits PROVE now <= stopAt + StopBudget
    BY DEF StopBounded
  <2>1. /\ now \in Nat /\ stopTimer \in Nat /\ stopAt \in Nat
        /\ CmdTimeout \in Nat /\ WaitTimeout \in Nat /\ KillTimeout \in Nat /\ Lag \in Nat
    BY QemuAssumption DEF Timely, IInv, TypeOK
  <2>2. now <= stopTimer + Lag /\ stopTimer <= stopAt + Used(stopPc)
    BY DEF Timely, TimeInv
  <2>3. Used(stopPc) + Lag <= StopBudget
    BY <2>1, UsedValues DEF Awaits, Commands, Waits, StopBudget
  <2>4. Used(stopPc) \in Nat
    BY <2>1, UsedValues DEF Awaits, Commands, Waits
  <2>5. StopBudget \in Nat
    BY <2>1 DEF StopBudget
  <2> QED
    BY <2>1, <2>2, <2>3, <2>4, <2>5
<1> QED
  BY <1>1, <1>2, TimelyNext, PTL DEF Spec
=============================================================================

------------------------------ MODULE QmpClient ------------------------------
(* src/sandbox/src/main/qmp.ts: one connect() with its retries, and the       *)
(* commands executed over whatever socket the client has. Sockets are         *)
(* numbered by attempt. A timer may fire whenever it is armed; which one is   *)
(* first is left open. QEMU runs what is written to a socket whenever it      *)
(* likes, also after the client has given the socket up.                      *)
EXTENDS Naturals, Sequences, FiniteSets

CONSTANTS
  MaxAttempts,  \* bound of the model: sockets connect() may create
  MaxCommands   \* bound of the model: calls of execute()

ASSUME QmpAssumption == MaxAttempts \in Nat /\ MaxCommands \in Nat

VARIABLES
  loop,        \* connectRetry: "idle", "trying", "sleeping", "connected" or "failed"
  superseded,  \* this.generation has moved on since connectRetry took it
  expired,     \* Date.now() >= deadline
  sock,        \* this.sock: the attempt it belongs to, 0 for null
  attempts,    \* sockets created so far
  closing,     \* sockets let go whose "close" event is yet to come
  doomed,      \* sockets that had a reason to go: closed by the peer, timed out, disconnected
  pending,     \* id of this.pending, 0 for null
  queue,       \* ids in this.queue
  cmdSeq,
  cmd,         \* what became of each command
  sent,        \* the socket each command was written to, 0 for none
  ran,         \* what QEMU made of it: "no", "resolved" or "rejected"
  read         \* commands whose reply has come

sockvars == <<loop, superseded, expired, sock, attempts, closing, doomed>>
cmdvars == <<pending, queue, cmd, sent>>
qemuvars == <<ran, read>>
vars == <<sockvars, cmdSeq, cmdvars, qemuvars>>

Commands == 1..MaxCommands
Attempts == 1..MaxAttempts

TypeOK ==
  /\ loop \in {"idle", "trying", "sleeping", "connected", "failed"}
  /\ superseded \in BOOLEAN /\ expired \in BOOLEAN
  /\ attempts \in 0..MaxAttempts /\ sock \in 0..attempts
  /\ closing \subseteq Attempts /\ doomed \subseteq Attempts
  /\ cmdSeq \in 0..MaxCommands /\ pending \in 0..cmdSeq
  /\ queue \in Seq(Commands)
  /\ cmd \in [Commands -> {"none", "waiting", "resolved", "rejected", "cut"}]
  /\ sent \in [Commands -> 0..attempts]
  /\ ran \in [Commands -> {"no", "resolved", "rejected"}] /\ read \subseteq Commands

Init ==
  /\ loop = "idle" /\ superseded = FALSE /\ expired = FALSE
  /\ sock = 0 /\ attempts = 0 /\ closing = {} /\ doomed = {}
  /\ pending = 0 /\ queue = <<>> /\ cmdSeq = 0
  /\ cmd = [c \in Commands |-> "none"] /\ sent = [c \in Commands |-> 0]
  /\ ran = [c \in Commands |-> "no"] /\ read = {}

Waiting == {c \in Commands : cmd[c] = "waiting"}
-----------------------------------------------------------------------------
(* tryConnect: cleanup has nothing left to clear, a new socket is made. *)
NewSocket ==
  /\ attempts < MaxAttempts
  /\ loop' = "trying" /\ sock' = attempts + 1 /\ attempts' = attempts + 1

Connect ==
  /\ loop = "idle" /\ ~superseded
  /\ NewSocket
  /\ UNCHANGED <<superseded, expired, closing, doomed, cmdSeq, cmdvars, qemuvars>>

NeverSuperseded == FALSE
GivenUp == superseded

(* connectRetry's sleep is over. *)
Wake ==
  /\ loop = "sleeping"
  /\ IF expired \/ GivenUp THEN loop' = "failed" /\ UNCHANGED <<sock, attempts>>
                           ELSE NewSocket
  /\ UNCHANGED <<superseded, expired, closing, doomed, cmdSeq, cmdvars, qemuvars>>

Expire ==
  /\ loop \in {"trying", "sleeping"} /\ ~expired
  /\ expired' = TRUE
  /\ UNCHANGED <<loop, superseded, sock, attempts, closing, doomed, cmdSeq, cmdvars, qemuvars>>

DropPending ==
  /\ pending' = 0 /\ UNCHANGED <<queue, sent>>
  /\ cmd' = [c \in Commands |-> IF c = pending THEN "cut" ELSE cmd[c]]

(* cleanup's commands: the pending one and the queue, all rejected. *)
RejectAll ==
  /\ pending' = 0 /\ queue' = <<>> /\ UNCHANGED sent
  /\ cmd' = [c \in Commands |-> IF c = pending \/ \E i \in DOMAIN queue : queue[i] = c
                                THEN "cut" ELSE cmd[c]]

LetGo == closing \cup ({sock} \ {0})

(* cleanup(err), and connectRetry's catch when it awaits the greeting. *)
Cleanup(giveUp) ==
  /\ sock' = 0
  /\ closing' = LetGo
  /\ RejectAll
  /\ loop' = IF loop # "trying" THEN loop
             ELSE IF giveUp THEN "failed" ELSE "sleeping"

AnySocket(s) == TRUE
Current(s) == s = sock

(* The "close" or "error" event of socket s: the peer's doing while the       *)
(* socket is current, and the echo of its destruction later.                  *)
SocketEvent(s) ==
  /\ s = sock \/ s \in closing
  /\ doomed' = doomed \cup {s}
  /\ IF Current(s)
     THEN Cleanup(superseded)
     ELSE closing' = closing \ {s} /\ UNCHANGED <<loop, sock, cmdvars>>
  /\ UNCHANGED <<superseded, expired, attempts, cmdSeq, qemuvars>>

GreetingTimesOut ==
  /\ loop = "trying" /\ expired
  /\ doomed' = doomed \cup {sock}
  /\ Cleanup(superseded)
  /\ UNCHANGED <<superseded, expired, attempts, cmdSeq, qemuvars>>

Greeting ==
  /\ loop = "trying"
  /\ loop' = "connected"
  /\ UNCHANGED <<superseded, expired, sock, attempts, closing, doomed, cmdSeq, cmdvars, qemuvars>>

Disconnect ==
  /\ loop # "idle"
  /\ superseded' = TRUE
  /\ doomed' = doomed \cup ({sock} \ {0})
  /\ Cleanup(TRUE)
  /\ UNCHANGED <<expired, attempts, cmdSeq, qemuvars>>
-----------------------------------------------------------------------------
Write(c) == pending' = c /\ sent' = [sent EXCEPT ![c] = sock]

JumpQueue(c) ==
  IF pending = 0 THEN Write(c) /\ UNCHANGED queue
                 ELSE queue' = <<c>> \o queue /\ UNCHANGED <<pending, sent>>

(* execute(): written if none is pending, else queued; refused without a socket. *)
Submit(c) ==
  IF pending = 0 THEN Write(c) /\ UNCHANGED queue
                 ELSE queue' = Append(queue, c) /\ UNCHANGED <<pending, sent>>

Execute(c) ==
  /\ sock # 0
  /\ c = cmdSeq + 1 /\ cmdSeq' = c
  /\ cmd' = [cmd EXCEPT ![c] = "waiting"]
  /\ Submit(c)
  /\ UNCHANGED <<sockvars, qemuvars>>

(* The queue's turn once the pending command is settled. *)
Advance ==
  IF queue = <<>> THEN pending' = 0 /\ UNCHANGED <<queue, sent>>
                  ELSE Write(Head(queue)) /\ queue' = Tail(queue)

Forget(c) ==
  /\ cmd' = [cmd EXCEPT ![c] = "cut"]
  /\ IF c = pending THEN Advance
     ELSE queue' = SelectSeq(queue, LAMBDA d : d # c) /\ UNCHANGED <<pending, sent>>
  /\ UNCHANGED <<loop, sock, closing>>

(* A late reply must not satisfy another command: the connection goes. *)
Abandon(c) == Cleanup(superseded)

(* A command's timer runs from execute(), also while it is queued. *)
CommandTimesOut(c) ==
  /\ c \in Waiting
  /\ doomed' = doomed \cup {sock}
  /\ Abandon(c)
  /\ UNCHANGED <<superseded, expired, attempts, cmdSeq, qemuvars>>

(* QEMU runs a command that was written to it, or refuses it. *)
QemuRuns(c) ==
  /\ sent[c] # 0 /\ ran[c] = "no"
  /\ \E verdict \in {"resolved", "rejected"} : ran' = [ran EXCEPT ![c] = verdict]
  /\ UNCHANGED <<sockvars, cmdSeq, cmdvars, read>>

AnyReply(id) == pending # 0
Matches(id) == pending # 0 /\ id = pending

(* processMessage of a reply with this id: settle the pending command and     *)
(* write the next one.                                                        *)
Receive(id, verdict) ==
  IF Matches(id) THEN cmd' = [cmd EXCEPT ![pending] = verdict] /\ Advance
                 ELSE UNCHANGED cmdvars

(* The reply to c is read from the socket c was written to. A socket that was *)
(* let go may still have it to deliver; on the current one the greeting comes *)
(* first.                                                                     *)
Reply(c) ==
  /\ ran[c] # "no" /\ c \notin read
  /\ (sent[c] = sock /\ loop = "connected") \/ sent[c] \in closing
  /\ read' = read \cup {c}
  /\ IF Current(sent[c]) THEN Receive(c, ran[c]) ELSE UNCHANGED cmdvars
  /\ UNCHANGED <<sockvars, cmdSeq, ran>>

(* QEMU's answer to input it could not parse carries no id. *)
StrayReply ==
  /\ sock # 0
  /\ Receive(0, "rejected")
  /\ UNCHANGED <<sockvars, cmdSeq, qemuvars>>

Timers == Wake \/ Expire \/ GreetingTimesOut \/ \E c \in Commands : CommandTimesOut(c)

Next ==
  \/ Connect \/ Greeting \/ Disconnect \/ StrayReply \/ Timers
  \/ \E s \in Attempts : SocketEvent(s)
  \/ \E c \in Commands : Execute(c) \/ QemuRuns(c) \/ Reply(c)

(* Armed timers fire. That QEMU greets, answers or hangs up is not assumed. *)
Spec == Init /\ [][Next]_vars /\ WF_vars(Timers) /\ WF_vars(Wake)
-----------------------------------------------------------------------------
(* The commands that wait, in the order QEMU will answer them. *)
Line == IF pending = 0 THEN <<>> ELSE <<pending>> \o queue

Queue == INSTANCE CommandQueue WITH connected <- sock # 0, line <- Line, outcome <- cmd

(* With its sockets, retries, timers and late replies the client is a queue   *)
(* of commands: they are answered in the order of the calls, and a connection *)
(* that goes takes exactly those with it that wait (qmp.ts:83,122,187).       *)
ImplementsQueue == Queue!Spec

Answered(c) == cmd[c] \in {"resolved", "rejected"}

(* A caller that is given a verdict is given QEMU's own on its command, and   *)
(* on the connection in use QEMU owes no reply but that to the pending        *)
(* command: one that timed out took the connection and its late reply with it *)
(* (qmp.ts:67,117,177).                                                       *)
NoLateReplyTaken ==
  \A c \in Commands :
    /\ Answered(c) => cmd[c] = ran[c]
    /\ sock # 0 /\ sent[c] = sock /\ ~Answered(c) => c = pending

(* A connection goes only for a reason of its own: the late events of the     *)
(* socket it replaced leave it alone (qmp.ts:66-69).                          *)
TornDownForCause == \A s \in 1..attempts : s # sock => s \in doomed

(* After disconnect() there is no socket, and no retry makes one. *)
DisconnectIsFinal == superseded => sock = 0

(* No caller is forgotten: connect() and every execute() resolve or reject,   *)
(* also those queued behind a command whose connection goes (qmp.ts:83).      *)
CallersSettle ==
  /\ (loop = "trying") ~> (loop \in {"connected", "failed"})
  /\ \A c \in Commands : (cmd[c] = "waiting") ~> (cmd[c] # "waiting")
=============================================================================

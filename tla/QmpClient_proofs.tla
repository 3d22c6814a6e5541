--------------------------- MODULE QmpClient_proofs ---------------------------
(* Proofs about QmpClient, for any number of attempts and commands.           *)
EXTENDS QmpClient, SequenceTheorems, TLAPS

Queued == {queue[i] : i \in DOMAIN queue}

(* connectRetry has no socket but the one whose greeting it awaits, and every *)
(* socket that is no longer the client's had a reason to go.                  *)
SocketInv ==
  /\ loop \in {"idle", "sleeping", "failed"} => sock = 0
  /\ loop = "trying" => sock # 0
  /\ superseded => sock = 0
  /\ TornDownForCause

(* The callers that wait are the pending command and the queued ones, each    *)
(* once, and they wait on a socket that is there.                             *)
CallerInv ==
  /\ sock = 0 => pending = 0
  /\ pending = 0 => queue = <<>>
  /\ Waiting = (Queued \cup {pending}) \ {0}
  /\ \A i \in DOMAIN queue : queue[i] # pending
  /\ \A i, j \in DOMAIN queue : queue[i] = queue[j] => i = j
  /\ \A c \in Commands : c > cmdSeq => cmd[c] = "none"

IInv == TypeOK /\ SocketInv /\ CallerInv /\ NoLateReplyTaken

Loops == {"idle", "trying", "sleeping", "connected", "failed"}
Verdicts == {"none", "waiting", "resolved", "rejected", "cut"}
-----------------------------------------------------------------------------
LEMMA IInvInit == Init => IInv
<1> SUFFICES ASSUME Init PROVE IInv
  OBVIOUS
<1>1. queue \in Seq(Commands) /\ Queued = {}
  BY DEF Init, Queued
<1>2. TypeOK
  <2>1. superseded \in BOOLEAN /\ expired \in BOOLEAN
    BY DEF Init
  <2>2. attempts \in 0..MaxAttempts /\ sock \in 0..attempts /\ cmdSeq \in 0..MaxCommands /\ pending \in 0..cmdSeq
    BY QmpAssumption DEF Init
  <2>3. loop = "idle" /\ closing = {} /\ doomed = {}
    BY DEF Init
  <2>4. /\ cmd \in [Commands -> {"none", "waiting", "resolved", "rejected", "cut"}]
        /\ sent \in [Commands -> 0..attempts]
        /\ ran \in [Commands -> {"no", "resolved", "rejected"}] /\ read \subseteq Commands
    BY QmpAssumption DEF Init
  <2> QED
    BY <1>1, <2>1, <2>2, <2>3, <2>4 DEF TypeOK
<1>3. SocketInv
  BY DEF Init, SocketInv, TornDownForCause
<1>4. CallerInv /\ NoLateReplyTaken
  BY <1>1 DEF Init, CallerInv, Waiting, NoLateReplyTaken, Answered
<1> QED
  BY <1>2, <1>3, <1>4 DEF IInv

(* cleanup cuts exactly the commands that were waiting.                       *)
LEMMA CleanupEffect ==
  ASSUME TypeOK, CallerInv, NEW giveUp \in BOOLEAN, Cleanup(giveUp)
  PROVE  /\ sock' = 0 /\ pending' = 0 /\ queue' = <<>> /\ sent' = sent
         /\ loop' \in Loops \ {"trying"} /\ (loop = "idle" => loop' = "idle")
         /\ closing' \subseteq Attempts
         /\ cmd' = [c \in Commands |-> IF cmd[c] = "waiting" THEN "cut" ELSE cmd[c]]
<1>1. closing' \subseteq Attempts
  BY QmpAssumption DEF Cleanup, LetGo, TypeOK, Attempts
<1>2. \A c \in Commands : cmd[c] = "waiting" <=> c = pending \/ \E i \in DOMAIN queue : queue[i] = c
  BY QmpAssumption DEF CallerInv, Waiting, Queued, Commands
<1> QED
  BY <1>1, <1>2 DEF Cleanup, RejectAll, Loops, TypeOK

(* Nobody waits after it. *)
LEMMA CleanupKeeps ==
  ASSUME IInv, NEW giveUp \in BOOLEAN, Cleanup(giveUp), UNCHANGED <<cmdSeq, qemuvars>>
  PROVE  CallerInv' /\ NoLateReplyTaken' /\ cmd' \in [Commands -> Verdicts]
<1> USE DEF IInv
<1>1. cmd' = [c \in Commands |-> IF cmd[c] = "waiting" THEN "cut" ELSE cmd[c]]
  BY CleanupEffect
<1>2. Waiting' = {} /\ cmd' \in [Commands -> Verdicts]
  BY <1>1 DEF Waiting, TypeOK, Verdicts
<1>3. Queued' = {} /\ DOMAIN queue' = {}
  BY CleanupEffect DEF Queued
<1>4. CallerInv'
  BY <1>1, <1>2, <1>3, CleanupEffect, QmpAssumption DEF CallerInv, TypeOK, Commands
<1>5. NoLateReplyTaken'
  BY <1>1, CleanupEffect DEF NoLateReplyTaken, Answered, qemuvars, TypeOK
<1> QED
  BY <1>2, <1>4, <1>5

(* The teardowns: an event of the socket, a timer or disconnect() name the    *)
(* socket they take down.                                                     *)
LEMMA TeardownKeeps ==
  ASSUME IInv, NEW giveUp \in BOOLEAN, Cleanup(giveUp), UNCHANGED <<attempts, cmdSeq, qemuvars, expired>>,
         superseded' \in BOOLEAN, doomed \subseteq doomed', doomed' \subseteq Attempts,
         sock # 0 => sock \in doomed'
  PROVE  IInv'
<1>1. CallerInv' /\ NoLateReplyTaken' /\ cmd' \in [Commands -> Verdicts]
  BY CleanupKeeps
<1>2. sock' = 0 /\ pending' = 0 /\ queue' = <<>> /\ sent' = sent /\ loop' \in Loops \ {"trying"} /\ closing' \subseteq Attempts
  BY CleanupEffect DEF IInv
<1>3. SocketInv'
  BY <1>2 DEF IInv, SocketInv, TornDownForCause
<1>4. TypeOK'
  BY <1>1, <1>2, QmpAssumption DEF IInv, TypeOK, Loops, Verdicts, qemuvars
<1> QED
  BY <1>1, <1>3, <1>4 DEF IInv

(* What leaves the commands alone keeps what is known of them, with the same  *)
(* socket or a new one, to which nothing was written.                         *)
LEMMA CommandsKept ==
  ASSUME IInv, UNCHANGED <<cmdSeq, cmdvars, qemuvars>>,
         sock' = sock \/ (sock' # 0 /\ sock' \notin 0..attempts)
  PROVE  CallerInv' /\ NoLateReplyTaken'
<1>1. Waiting' = Waiting /\ Queued' = Queued
  BY DEF Waiting, Queued, cmdvars
<1>2. UNCHANGED <<cmdSeq, pending, queue, cmd, sent, ran>> /\ \A c \in Commands : sent[c] \in 0..attempts
  BY DEF IInv, TypeOK, cmdvars, qemuvars
<1>3. CallerInv'
  BY <1>1, <1>2 DEF IInv, CallerInv
<1>4. NoLateReplyTaken'
  BY <1>2 DEF IInv, NoLateReplyTaken, Answered
<1> QED
  BY <1>3, <1>4

(* A new socket is made only when the last one is gone. *)
LEMMA NewSocketKeeps ==
  ASSUME IInv, NewSocket, loop \in {"idle", "sleeping"}, ~superseded,
         UNCHANGED <<superseded, expired, closing, doomed, cmdSeq, cmdvars, qemuvars>>
  PROVE  IInv'
<1> USE DEF IInv
<1>1. /\ sock = 0 /\ attempts' \in 0..MaxAttempts /\ sock' = attempts' /\ sock' # 0 /\ loop' = "trying"
      /\ sock' \notin 0..attempts /\ 0..attempts \subseteq 0..attempts'
  BY QmpAssumption DEF NewSocket, SocketInv, TypeOK
<1>2. CallerInv' /\ NoLateReplyTaken'
  BY <1>1, CommandsKept
<1>3. TornDownForCause'
  BY <1>1 DEF NewSocket, SocketInv, TornDownForCause, TypeOK
<1>4. TypeOK'
  BY <1>1, QmpAssumption DEF TypeOK, cmdvars, qemuvars
<1>5. SocketInv'
  BY <1>1, <1>3 DEF SocketInv
<1> QED
  BY <1>2, <1>4, <1>5

(* A step of connectRetry that lets the socket be. *)
LEMMA LoopKeeps ==
  ASSUME IInv, UNCHANGED <<superseded, sock, attempts, doomed, cmdSeq, cmdvars, qemuvars>>,
         loop' \in Loops, sock = 0 => loop' # "trying", sock # 0 => loop' \in {"trying", "connected"},
         expired' \in BOOLEAN, closing' \subseteq Attempts
  PROVE  IInv'
<1> USE DEF IInv
<1>1. SocketInv'
  BY DEF SocketInv, TornDownForCause, Loops
<1>2. CallerInv' /\ NoLateReplyTaken'
  BY CommandsKept
<1>3. TypeOK'
  BY DEF TypeOK, Loops, cmdvars, qemuvars
<1> QED
  BY <1>1, <1>2, <1>3

(* execute(): one more waits, as the pending command or last in the queue.    *)
LEMMA ExecuteKeeps ==
  ASSUME IInv, NEW c \in Commands, Execute(c)
  PROVE  IInv'
<1> USE DEF IInv
<1>1. c \in Nat \ {0} /\ c = cmdSeq + 1 /\ cmdSeq' = c /\ sock # 0 /\ sock' = sock
  BY QmpAssumption DEF Execute, Commands, TypeOK, sockvars
<1>2. cmd' = [cmd EXCEPT ![c] = "waiting"] /\ Waiting' = Waiting \cup {c} /\ c \notin Waiting
  BY <1>1 DEF Execute, Waiting, TypeOK, CallerInv
<1>3. \A i \in DOMAIN queue : queue[i] # c
  BY <1>1, <1>2 DEF CallerInv, Queued
<1>4. SocketInv' /\ UNCHANGED <<attempts, ran, read>>
  BY DEF Execute, SocketInv, TornDownForCause, sockvars, qemuvars
<1>5. /\ \A d \in Commands : d > cmdSeq' => cmd'[d] = "none"
      /\ cmdSeq' \in 0..MaxCommands
  BY <1>1, <1>2, QmpAssumption DEF CallerInv, Commands, TypeOK
<1>6. cmd' \in [Commands -> Verdicts]
  BY <1>2 DEF TypeOK, Verdicts
<1>7. CASE pending = 0
  <2>1. pending' = c /\ queue' = <<>> /\ queue = <<>> /\ sent' = [sent EXCEPT ![c] = sock]
    BY <1>7 DEF Execute, Submit, Write, CallerInv
  <2>2. Queued = {} /\ Queued' = {} /\ DOMAIN queue' = {}
    BY <2>1 DEF Queued
  <2>3. CallerInv'
    BY <1>1, <1>2, <1>5, <1>7, <2>1, <2>2 DEF CallerInv
  <2>4. sent' \in [Commands -> 0..attempts] /\ queue' \in Seq(Commands) /\ pending' \in 0..cmdSeq'
    BY <1>1, <2>1 DEF TypeOK
  <2>5. TypeOK'
    BY <1>4, <1>5, <1>6, <2>4 DEF Execute, sockvars, TypeOK, Verdicts
  <2>6. NoLateReplyTaken'
    BY <1>1, <1>2, <1>4, <1>7, <2>1, QmpAssumption DEF NoLateReplyTaken, Answered, Commands, TypeOK
  <2> QED
    BY <1>4, <2>3, <2>5, <2>6
<1>8. CASE pending # 0
  <2>1. pending' = pending /\ queue' = Append(queue, c) /\ sent' = sent
    BY <1>8 DEF Execute, Submit, Write
  <2>2. /\ DOMAIN queue = 1..Len(queue) /\ Len(queue) \in Nat /\ DOMAIN queue' = 1..(Len(queue) + 1)
        /\ queue'[Len(queue) + 1] = c /\ \A i \in DOMAIN queue : queue'[i] = queue[i]
        /\ queue' \in Seq(Commands)
    BY <2>1, AppendProperties, LenProperties DEF TypeOK
  <2>3. Queued' = Queued \cup {c}
    BY <2>2 DEF Queued
  <2>4. pending # c
    BY <1>1 DEF TypeOK
  <2>5. \A i \in DOMAIN queue' : queue'[i] # pending'
    BY <2>1, <2>2, <2>4 DEF CallerInv
  <2>6. \A i, j \in DOMAIN queue' : queue'[i] = queue'[j] => i = j
    BY <2>2, <1>3 DEF CallerInv
  <2>7. CallerInv'
    BY <1>1, <1>2, <1>5, <1>8, <2>1, <2>3, <2>5, <2>6 DEF CallerInv
  <2>8. pending' \in 0..cmdSeq'
    BY <1>1, <2>1 DEF TypeOK
  <2>9. TypeOK'
    BY <1>4, <1>5, <1>6, <2>1, <2>2, <2>8 DEF Execute, sockvars, TypeOK, Verdicts
  <2>10. NoLateReplyTaken'
    <3>1. cmd[c] = "none"
      BY <1>1 DEF CallerInv, TypeOK
    <3>2. sent[c] # sock
      BY <1>1, <2>4, <3>1 DEF NoLateReplyTaken, Answered
    <3> QED
      BY <1>1, <1>2, <1>4, <2>1, <3>2 DEF NoLateReplyTaken, Answered, TypeOK
  <2> QED
    BY <1>4, <2>7, <2>9, <2>10
<1> QED
  BY <1>7, <1>8

(* A reply settles the pending command, if it is its own, and the next in the *)
(* queue takes its place.                                                     *)
LEMMA ReceiveKeeps ==
  ASSUME IInv, NEW id, NEW verdict \in {"resolved", "rejected"}, Receive(id, verdict),
         id \in Commands => ran[id] = verdict,
         UNCHANGED <<sockvars, cmdSeq, ran>>, read' \subseteq Commands
  PROVE  IInv'
<1> USE DEF IInv
<1>1. SocketInv'
  BY DEF sockvars, SocketInv, TornDownForCause
<1>2. CASE ~Matches(id)
  <2>1. UNCHANGED cmdvars
    BY <1>2 DEF Receive
  <2>2. Waiting' = Waiting /\ Queued' = Queued
    BY <2>1 DEF Waiting, Queued, cmdvars
  <2>3. CallerInv'
    BY <2>1, <2>2 DEF CallerInv, cmdvars, sockvars
  <2>4. NoLateReplyTaken'
    BY <2>1 DEF NoLateReplyTaken, Answered, cmdvars, sockvars
  <2>5. TypeOK'
    BY <2>1 DEF TypeOK, cmdvars, sockvars
  <2> QED
    BY <1>1, <2>3, <2>4, <2>5
<1>3. CASE Matches(id)
  <2>1. /\ pending # 0 /\ id = pending /\ pending \in Commands /\ ran[pending] = verdict
        /\ cmd' = [cmd EXCEPT ![pending] = verdict] /\ Advance
    <3>1. pending # 0 /\ id = pending
      BY <1>3 DEF Matches
    <3>2. pending \in Commands
      BY <3>1, QmpAssumption DEF TypeOK, Commands
    <3> QED
      BY <1>3, <3>1, <3>2 DEF Receive
  <2>2. cmd' \in [Commands -> Verdicts] /\ Waiting' = Waiting \ {pending}
    BY <2>1 DEF TypeOK, Verdicts, Waiting
  <2>3. \A d \in Commands : d > cmdSeq' => cmd'[d] = "none"
    BY <2>1 DEF CallerInv, TypeOK
  <2>4. CASE queue = <<>>
    <3>1. pending' = 0 /\ queue' = <<>> /\ sent' = sent
      BY <2>1, <2>4 DEF Advance
    <3>2. Queued = {} /\ Queued' = {} /\ DOMAIN queue' = {}
      BY <2>4, <3>1 DEF Queued
    <3>3. CallerInv'
      BY <2>2, <2>3, <3>1, <3>2 DEF CallerInv
    <3>4. TypeOK'
      BY <2>2, <3>1 DEF TypeOK, Verdicts, sockvars
    <3>5. NoLateReplyTaken'
      BY <2>1, <3>1 DEF NoLateReplyTaken, Answered, TypeOK, sockvars
    <3> QED
      BY <1>1, <3>3, <3>4, <3>5
  <2>5. CASE queue # <<>>
    <3>1. /\ pending' = Head(queue) /\ queue' = Tail(queue)
          /\ sent' = [sent EXCEPT ![Head(queue)] = sock]
      BY <2>1, <2>5 DEF Advance, Write
    <3>2. /\ Len(queue) \in Nat /\ Len(queue) > 0 /\ DOMAIN queue = 1..Len(queue)
          /\ pending' = queue[1] /\ pending' \in Commands /\ queue' \in Seq(Commands)
          /\ DOMAIN queue' = 1..(Len(queue) - 1) /\ \A i \in DOMAIN queue' : queue'[i] = queue[i + 1]
      BY <2>5, <3>1, HeadTailProperties, LenProperties, EmptySeq DEF TypeOK
    <3>3. Queued = Queued' \cup {pending'}
      <4>1. \A i \in DOMAIN queue : i = 1 \/ ((i - 1) \in DOMAIN queue' /\ queue[i] = queue'[i - 1])
        BY <3>2
      <4>2. 1 \in DOMAIN queue /\ \A i \in DOMAIN queue' : (i + 1) \in DOMAIN queue /\ queue[i + 1] = queue'[i]
        BY <3>2
      <4>3. Queued \subseteq Queued' \cup {pending'}
        BY <3>2, <4>1 DEF Queued
      <4>4. Queued' \cup {pending'} \subseteq Queued
        BY <3>2, <4>2 DEF Queued
      <4> QED
        BY <4>3, <4>4
    <3>4. \A i \in DOMAIN queue' : queue'[i] # pending'
      BY <3>2 DEF CallerInv
    <3>5. \A i, j \in DOMAIN queue' : queue'[i] = queue'[j] => i = j
      BY <3>2 DEF CallerInv
    <3>6. pending \notin Queued /\ pending' # 0 /\ 0 \notin Queued
      BY <3>2, QmpAssumption DEF CallerInv, Queued, Commands, TypeOK
    <3>7. Waiting' = (Queued' \cup {pending'}) \ {0}
      BY <2>1, <2>2, <3>3, <3>6 DEF CallerInv
    <3>8. CallerInv'
      BY <2>1, <2>3, <3>4, <3>5, <3>6, <3>7 DEF CallerInv, sockvars
    <3>9. pending' \in 0..cmdSeq'
      <4>1. pending' \in Waiting
        BY <3>3, <3>6 DEF CallerInv
      <4> QED
        BY <3>2, <4>1, QmpAssumption DEF CallerInv, Waiting, Commands, TypeOK
    <3>10. sent' \in [Commands -> 0..attempts]
      BY <3>1 DEF TypeOK
    <3>11. TypeOK'
      BY <2>2, <3>2, <3>9, <3>10 DEF TypeOK, Verdicts, sockvars
    <3>12. NoLateReplyTaken'
      <4>1. \A c \in Commands : cmd'[c] = (IF c = pending THEN verdict ELSE cmd[c])
        BY <2>1 DEF TypeOK
      <4>2. \A c \in Commands : c # pending' => sent'[c] = sent[c]
        BY <3>1 DEF TypeOK
      <4> QED
        BY <2>1, <4>1, <4>2 DEF NoLateReplyTaken, Answered, sockvars
    <3> QED
      BY <1>1, <3>8, <3>11, <3>12
  <2> QED
    BY <2>4, <2>5
<1> QED
  BY <1>2, <1>3

LEMMA WaitersHaveSocket == CallerInv => (sock = 0 => Waiting = {})
<1> SUFFICES ASSUME CallerInv, sock = 0 PROVE Waiting = {}
  OBVIOUS
<1>1. pending = 0 /\ queue = <<>>
  BY DEF CallerInv
<1>2. Queued = {}
  BY <1>1 DEF Queued
<1> QED
  BY <1>1, <1>2 DEF CallerInv

LEMMA TypedSocket == TypeOK /\ sock # 0 => sock \in Attempts
  BY QmpAssumption DEF TypeOK, Attempts

LEMMA IInvNext == IInv /\ [Next]_vars => IInv'
<1> SUFFICES ASSUME IInv, [Next]_vars PROVE IInv'
  OBVIOUS
<1> USE DEF IInv
<1>1. CASE Connect
  BY <1>1, NewSocketKeeps DEF Connect
<1>2. CASE Wake
  <2>1. CASE expired \/ superseded
    <3>1. loop' = "failed" /\ sock = 0
      BY <1>2, <2>1 DEF Wake, GivenUp, SocketInv
    <3> QED
      BY <1>2, <2>1, <3>1, LoopKeeps DEF Wake, GivenUp, Loops, TypeOK
  <2>2. CASE ~(expired \/ superseded)
    BY <1>2, <2>2, NewSocketKeeps DEF Wake, GivenUp
  <2> QED
    BY <2>1, <2>2
<1>3. CASE Expire
  <2>1. loop' = loop /\ loop \in {"trying", "sleeping"} /\ (sock # 0 <=> loop = "trying") /\ expired' \in BOOLEAN
    BY <1>3 DEF Expire, SocketInv
  <2>2. UNCHANGED <<superseded, sock, attempts, closing, doomed, cmdSeq, cmdvars, qemuvars>>
    BY <1>3 DEF Expire
  <2> QED
    BY <2>1, <2>2, LoopKeeps DEF Loops, TypeOK
<1>4. CASE Greeting
  <2>1. loop' = "connected" /\ sock # 0
    BY <1>4 DEF Greeting, SocketInv
  <2> QED
    BY <1>4, <2>1, LoopKeeps DEF Greeting, Loops, TypeOK
<1>5. CASE GreetingTimesOut
  <2>1. Cleanup(superseded) /\ doomed' = doomed \cup {sock} /\ UNCHANGED <<superseded, expired, attempts, cmdSeq, qemuvars>>
    BY <1>5 DEF GreetingTimesOut
  <2>2. sock # 0 /\ superseded \in BOOLEAN
    BY <1>5 DEF GreetingTimesOut, SocketInv, TypeOK
  <2>3. doomed' \subseteq Attempts
    BY <2>1, <2>2, TypedSocket DEF TypeOK
  <2> QED
    BY <2>1, <2>2, <2>3, TeardownKeeps
<1>6. CASE Disconnect
  <2>1. /\ Cleanup(TRUE) /\ doomed' = doomed \cup ({sock} \ {0}) /\ superseded' \in BOOLEAN
        /\ UNCHANGED <<expired, attempts, cmdSeq, qemuvars>>
    BY <1>6 DEF Disconnect
  <2>2. doomed' \subseteq Attempts
    BY <2>1, TypedSocket DEF TypeOK
  <2> QED
    BY <2>1, <2>2, TeardownKeeps
<1>7. ASSUME NEW c \in Commands, CommandTimesOut(c) PROVE IInv'
  <2>1. Cleanup(superseded) /\ doomed' = doomed \cup {sock} /\ UNCHANGED <<superseded, expired, attempts, cmdSeq, qemuvars>>
    BY <1>7 DEF CommandTimesOut, Abandon
  <2>2. sock # 0 /\ superseded \in BOOLEAN
    BY <1>7, WaitersHaveSocket DEF CommandTimesOut, TypeOK
  <2>3. doomed' \subseteq Attempts
    BY <2>1, <2>2, TypedSocket DEF TypeOK
  <2> QED
    BY <2>1, <2>2, <2>3, TeardownKeeps
<1>8. ASSUME NEW s \in Attempts, SocketEvent(s) PROVE IInv'
  <2>1. doomed' = doomed \cup {s} /\ doomed' \subseteq Attempts
    BY <1>8 DEF SocketEvent, TypeOK
  <2>2. CASE s = sock
    <3>1. Cleanup(superseded) /\ UNCHANGED <<superseded, expired, attempts, cmdSeq, qemuvars>> /\ superseded \in BOOLEAN
      BY <1>8, <2>2 DEF SocketEvent, Current, TypeOK
    <3> QED
      BY <2>1, <2>2, <3>1, TeardownKeeps
  <2>3. CASE s # sock
    <3>1. /\ closing' \subseteq closing
          /\ UNCHANGED <<loop, superseded, expired, sock, attempts, cmdSeq, cmdvars, qemuvars>>
      BY <1>8, <2>3 DEF SocketEvent, Current
    <3>2. CallerInv' /\ NoLateReplyTaken'
      BY <3>1, CommandsKept
    <3>3. TypeOK'
      BY <2>1, <3>1 DEF TypeOK, cmdvars, qemuvars
    <3> QED
      BY <2>1, <3>1, <3>2, <3>3 DEF SocketInv, TornDownForCause
  <2> QED
    BY <2>2, <2>3
<1>9. ASSUME NEW c \in Commands, Execute(c) PROVE IInv'
  BY <1>9, ExecuteKeeps
<1>10. ASSUME NEW c \in Commands, Reply(c) PROVE IInv'
  <2>1. UNCHANGED <<sockvars, cmdSeq, ran>> /\ read' = read \cup {c}
    BY <1>10 DEF Reply
  <2>2. read' \subseteq Commands /\ ran[c] \in {"resolved", "rejected"}
    BY <1>10, <2>1 DEF Reply, TypeOK
  <2>3. CASE Receive(c, ran[c])
    BY <2>1, <2>2, <2>3, ReceiveKeeps
  <2>4. CASE UNCHANGED cmdvars
    <3>1. UNCHANGED <<loop, superseded, expired, sock, attempts, closing, doomed>> /\ Waiting' = Waiting
          /\ Queued' = Queued /\ UNCHANGED <<pending, queue, cmd, sent>>
      BY <2>1, <2>4 DEF sockvars, cmdvars, Waiting, Queued
    <3>2. TypeOK' /\ SocketInv'
      BY <2>1, <2>2, <3>1 DEF TypeOK, SocketInv, TornDownForCause
    <3>3. CallerInv' /\ NoLateReplyTaken'
      BY <2>1, <3>1 DEF CallerInv, NoLateReplyTaken, Answered
    <3> QED
      BY <3>2, <3>3
  <2> QED
    BY <1>10, <2>3, <2>4 DEF Reply
<1>11. CASE StrayReply
  <2>1. 0 \notin Commands /\ read' \subseteq Commands
    BY <1>11, QmpAssumption DEF StrayReply, Commands, TypeOK, qemuvars
  <2> QED
    BY <1>11, <2>1, ReceiveKeeps DEF StrayReply, qemuvars
<1>12. ASSUME NEW c \in Commands, QemuRuns(c) PROVE IInv'
  <2>1. PICK verdict \in {"resolved", "rejected"} : ran' = [ran EXCEPT ![c] = verdict]
    BY <1>12 DEF QemuRuns
  <2>2. UNCHANGED <<sockvars, cmdSeq, cmdvars, read>> /\ ran[c] = "no"
    BY <1>12 DEF QemuRuns
  <2>3. TypeOK' /\ SocketInv'
    BY <2>1, <2>2 DEF TypeOK, SocketInv, TornDownForCause, sockvars, cmdvars
  <2>4. CallerInv'
    <3>1. Waiting' = Waiting /\ Queued' = Queued
      BY <2>2 DEF Waiting, Queued, cmdvars
    <3> QED
      BY <2>2, <3>1 DEF CallerInv, sockvars, cmdvars
  <2>5. NoLateReplyTaken'
    BY <2>1, <2>2 DEF NoLateReplyTaken, Answered, TypeOK, sockvars, cmdvars
  <2> QED
    BY <2>3, <2>4, <2>5
<1>13. CASE UNCHANGED vars
  <2>1. CallerInv' /\ NoLateReplyTaken'
    BY <1>13, CommandsKept DEF vars, sockvars
  <2> QED
    BY <1>13, <2>1 DEF vars, sockvars, cmdvars, qemuvars, TypeOK, SocketInv, TornDownForCause
<1> QED
  BY <1>1, <1>2, <1>3, <1>4, <1>5, <1>6, <1>7, <1>8, <1>9, <1>10, <1>11, <1>12, <1>13 DEF Next, Timers

LEMMA Invariant == Spec => []IInv
  BY IInvInit, IInvNext, PTL DEF Spec

(* The client's state keeps its type, however often it connects.              *)
THEOREM TypeCorrect == Spec => []TypeOK
  BY Invariant, PTL DEF IInv

(* Whoever is given a verdict is given QEMU's own on its command, and on the  *)
(* connection in use no reply is outstanding but that to the pending command, *)
(* for any number of commands and sockets, timeouts and late replies.         *)
THEOREM NoneToldByLateReply == Spec => []NoLateReplyTaken
  BY Invariant, PTL DEF IInv

(* No socket goes without a reason of its own, for any number of attempts.    *)
THEOREM NotTornDownByOthers == Spec => []TornDownForCause
<1>1. IInv => TornDownForCause
  BY DEF IInv, SocketInv
<1> QED
  BY <1>1, Invariant, PTL

(* After disconnect() there is no socket and no retry makes one.              *)
THEOREM DisconnectedForGood == Spec => []DisconnectIsFinal
<1>1. IInv => DisconnectIsFinal
  BY DEF IInv, SocketInv, DisconnectIsFinal
<1> QED
  BY <1>1, Invariant, PTL

(* A caller waits only as the pending command or in the queue, on a socket    *)
(* that is there, where its timer and the socket's events reach it: whenever  *)
(* a socket goes nobody is left waiting (qmp.ts:83).                          *)
NobodyForgotten ==
  /\ Waiting = (Queued \cup {pending}) \ {0}
  /\ sock = 0 => Waiting = {}

(* Nobody is left waiting by a socket that is gone, for any number of sockets *)
(* and commands.                                                              *)
THEOREM NobodyForgottenAlways == Spec => []NobodyForgotten
<1>1. IInv => NobodyForgotten
  BY WaitersHaveSocket DEF IInv, CallerInv, NobodyForgotten
<1> QED
  BY <1>1, Invariant, PTL

(* A command is settled once: what has been answered or cut is not settled    *)
(* again by a late reply, a timer or a cleanup.                               *)
SettledOnce == \A c \in Commands : cmd[c] \notin {"none", "waiting"} => cmd'[c] = cmd[c]

LEMMA StepSettlesOnce == IInv /\ [Next]_vars => SettledOnce
<1> SUFFICES ASSUME IInv, [Next]_vars PROVE SettledOnce
  OBVIOUS
<1> USE DEF IInv
<1>1. ASSUME NEW giveUp \in BOOLEAN, Cleanup(giveUp) PROVE SettledOnce
  BY <1>1, CleanupEffect DEF SettledOnce
<1>2. ASSUME NEW id, NEW verdict, Receive(id, verdict) PROVE SettledOnce
  <2>1. pending # 0 => pending \in Waiting
    BY DEF CallerInv
  <2> QED
    BY <1>2, <2>1 DEF Receive, Matches, Waiting, SettledOnce, TypeOK, cmdvars
<1>3. ASSUME NEW c \in Commands, Execute(c) PROVE SettledOnce
  <2>1. cmd[c] = "none" /\ cmd' = [cmd EXCEPT ![c] = "waiting"]
    BY <1>3, QmpAssumption DEF Execute, CallerInv, Commands, TypeOK
  <2> QED
    BY <2>1 DEF SettledOnce, TypeOK
<1>4. CASE UNCHANGED cmd
  BY <1>4 DEF SettledOnce
<1>5. superseded \in BOOLEAN /\ TRUE \in BOOLEAN
  BY DEF TypeOK
<1>6. CASE Connect \/ Wake \/ Expire \/ Greeting \/ UNCHANGED vars
  BY <1>4, <1>6 DEF Connect, Wake, Expire, Greeting, vars, cmdvars
<1>7. CASE GreetingTimesOut \/ Disconnect \/ \E c \in Commands : CommandTimesOut(c)
  BY <1>1, <1>5, <1>7 DEF GreetingTimesOut, Disconnect, CommandTimesOut, Abandon
<1>8. ASSUME NEW s \in Attempts, SocketEvent(s) PROVE SettledOnce
  BY <1>1, <1>4, <1>5, <1>8 DEF SocketEvent, cmdvars
<1>9. CASE StrayReply \/ \E c \in Commands : QemuRuns(c) \/ Reply(c)
  BY <1>2, <1>4, <1>9 DEF QemuRuns, Reply, StrayReply, cmdvars
<1> QED
  BY <1>3, <1>6, <1>7, <1>8, <1>9 DEF Next, Timers

(* No reply, timer or cleanup settles a command twice, for any number of      *)
(* commands and sockets.                                                      *)
THEOREM CommandsSettleOnce == Spec => [][SettledOnce]_vars
  BY Invariant, StepSettlesOnce, PTL DEF Spec
-----------------------------------------------------------------------------
(* The refinement of CommandQueue. *)

LEMMA InFront ==
  ASSUME NEW p \in Commands, NEW q \in Seq(Commands), NEW l, l = <<p>> \o q
  PROVE  /\ l \in Seq(Commands) /\ l # <<>> /\ Len(l) = Len(q) + 1 /\ l[1] = p
         /\ \A i \in 1..Len(q) : l[i + 1] = q[i]
         /\ Len(q) \in Nat
<1>1. <<p>> \in Seq(Commands) /\ Len(<<p>>) = 1 /\ <<p>>[1] = p /\ Len(q) \in Nat
  OBVIOUS
<1>2. /\ l \in Seq(Commands) /\ Len(l) = 1 + Len(q)
      /\ \A i \in 1..(1 + Len(q)) : l[i] = IF i <= 1 THEN <<p>>[i] ELSE q[i - 1]
  BY <1>1, ConcatProperties
<1>3. l[1] = p /\ \A i \in 1..Len(q) : l[i + 1] = q[i]
  BY <1>1, <1>2
<1>4. l # <<>>
  BY <1>1, <1>2
<1> QED
  BY <1>1, <1>2, <1>3, <1>4

LEMMA LineOfPending ==
  ASSUME TypeOK, pending # 0
  PROVE  pending \in Commands /\ queue \in Seq(Commands) /\ Line = <<pending>> \o queue
  BY QmpAssumption DEF TypeOK, Commands, Line

(* Whoever executes a command comes last in the line. *)
LEMMA ExecuteRefines == ASSUME IInv, NEW c \in Commands, Execute(c) PROVE Queue!Execute(c)
<1>1. IInv' /\ TypeOK /\ TypeOK'
  BY ExecuteKeeps DEF IInv
<1>2. sock # 0 /\ sock' # 0 /\ cmd[c] = "none" /\ cmd' = [cmd EXCEPT ![c] = "waiting"] /\ c # 0
  BY QmpAssumption DEF Execute, Commands, IInv, TypeOK, CallerInv, sockvars
<1>3. Line' = Append(Line, c)
  <2>1. CASE pending = 0
    <3>1. pending' = c /\ queue' = <<>> /\ Line = <<>>
      BY <2>1 DEF Execute, Submit, Write, IInv, CallerInv, Line
    <3>2. Line' = <<c>> \o <<>>
      BY <1>2, <3>1 DEF Line
    <3> QED
      BY <3>1, <3>2, ConcatEmptySeq
  <2>2. CASE pending # 0
    <3>1. pending' = pending /\ queue' = Append(queue, c)
      BY <2>2 DEF Execute, Submit, Write
    <3>2. /\ Line \in Seq(Commands) /\ Len(Line) = Len(queue) + 1 /\ Line[1] = pending
          /\ \A i \in 1..Len(queue) : Line[i + 1] = queue[i]
          /\ Len(queue) \in Nat /\ queue \in Seq(Commands)
      BY <1>1, <2>2, LineOfPending, InFront
    <3>3. /\ Line' \in Seq(Commands) /\ Len(Line') = Len(queue') + 1 /\ Line'[1] = pending
          /\ \A i \in 1..Len(queue') : Line'[i + 1] = queue'[i]
      <4>1. pending' \in Commands /\ queue' \in Seq(Commands) /\ Line' = <<pending'>> \o queue'
        <5>1. pending \in Commands /\ 0 \notin Commands
          BY <1>1, <2>2, LineOfPending, QmpAssumption DEF Commands
        <5>2. queue' \in Seq(Commands)
          BY <1>1 DEF TypeOK
        <5> QED
          BY <2>2, <3>1, <5>1, <5>2 DEF Line
      <4> QED
        BY <3>1, <4>1, InFront
    <3>4. /\ Len(queue') = Len(queue) + 1 /\ queue'[Len(queue) + 1] = c
          /\ \A i \in 1..Len(queue) : queue'[i] = queue[i]
      BY <3>1, <3>2, AppendProperties
    <3>5. /\ Append(Line, c) \in Seq(Commands) /\ Len(Append(Line, c)) = Len(Line) + 1
          /\ Append(Line, c)[Len(Line) + 1] = c
          /\ \A i \in 1..Len(Line) : Append(Line, c)[i] = Line[i]
      BY <3>2, AppendProperties
    <3>6. ASSUME NEW i \in 1..Len(Line') PROVE Line'[i] = Append(Line, c)[i]
      <4>1. CASE i = 1
        BY <3>2, <3>3, <3>5, <4>1
      <4>2. CASE i # 1 /\ i <= Len(queue) + 1
        <5>1. i - 1 \in 1..Len(queue) /\ i - 1 \in 1..Len(queue') /\ i \in 1..Len(Line) /\ (i - 1) + 1 = i
          BY <3>2, <3>4, <4>2
        <5>2. Line'[i] = queue'[i - 1] /\ Line[i] = queue[i - 1]
          BY <3>2, <3>3, <5>1
        <5> QED
          BY <3>4, <3>5, <5>1, <5>2
      <4>3. CASE i = Len(queue) + 2
        <5>1. i - 1 \in 1..Len(queue') /\ i - 1 = Len(queue) + 1 /\ (i - 1) + 1 = i /\ i = Len(Line) + 1
          BY <3>2, <3>4, <4>3
        <5>2. Line'[i] = c
          BY <3>3, <3>4, <5>1
        <5> QED
          BY <3>5, <5>1, <5>2
      <4> QED
        BY <3>2, <3>3, <3>4, <4>1, <4>2, <4>3
    <3> QED
      BY <3>2, <3>3, <3>4, <3>5, <3>6, SeqEqual
  <2> QED
    BY <2>1, <2>2
<1> QED
  BY <1>2, <1>3 DEF Queue!Execute

(* A reply is the answer to the oldest command that waits, or nothing. *)
LEMMA ReceiveRefines ==
  ASSUME IInv, NEW id, NEW verdict \in {"resolved", "rejected"}, Receive(id, verdict), sock' = sock
  PROVE  Queue!Answer(verdict) \/ UNCHANGED <<cmd, Line, sock>>
<1>1. CASE ~Matches(id)
  BY <1>1 DEF Receive, Line, cmdvars
<1>2. CASE Matches(id)
  <2>1. pending # 0 /\ cmd' = [cmd EXCEPT ![pending] = verdict]
    BY <1>2 DEF Receive, Matches
  <2>2. /\ Line \in Seq(Commands) /\ Line # <<>> /\ Len(Line) = Len(queue) + 1 /\ Line[1] = pending
        /\ \A i \in 1..Len(queue) : Line[i + 1] = queue[i]
        /\ Len(queue) \in Nat /\ queue \in Seq(Commands)
    BY <2>1, LineOfPending, InFront DEF IInv
  <2>3. Head(Line) = pending
    BY <2>2
  <2>4. /\ Tail(Line) \in Seq(Commands) /\ Len(Tail(Line)) = Len(queue)
        /\ \A i \in 1..Len(queue) : Tail(Line)[i] = queue[i]
    BY <2>2, HeadTailProperties
  <2>5. Tail(Line) = queue
    BY <2>2, <2>4, SeqEqual
  <2>6. Line' = queue
    <3>1. CASE queue = <<>>
      BY <1>2, <3>1 DEF Receive, Advance, Line
    <3>2. CASE queue # <<>>
      <4>1. /\ pending' = Head(queue) /\ queue' = Tail(queue) /\ Head(queue) \in Commands
            /\ Tail(queue) \in Seq(Commands) /\ Head(queue) = queue[1]
            /\ Len(Tail(queue)) = Len(queue) - 1 /\ \A i \in 1..Len(Tail(queue)) : Tail(queue)[i] = queue[i + 1]
        BY <1>2, <2>2, <3>2, HeadTailProperties DEF Receive, Advance, Write
      <4>2. Line' = <<Head(queue)>> \o Tail(queue)
        BY <4>1, QmpAssumption DEF Line, Commands
      <4>3. /\ Line' \in Seq(Commands) /\ Len(Line') = Len(Tail(queue)) + 1 /\ Line'[1] = queue[1]
            /\ \A i \in 1..Len(Tail(queue)) : Line'[i + 1] = Tail(queue)[i]
        BY <4>1, <4>2, InFront
      <4>4. Len(Line') = Len(queue)
        BY <2>2, <4>1, <4>3
      <4>5. ASSUME NEW i \in 1..Len(Line') PROVE Line'[i] = queue[i]
        <5>1. CASE i = 1
          BY <4>3, <5>1
        <5>2. CASE i # 1
          <6>1. i - 1 \in 1..Len(Tail(queue)) /\ (i - 1) + 1 = i
            BY <2>2, <4>1, <4>3, <5>2
          <6> QED
            BY <4>1, <4>3, <6>1
        <5> QED
          BY <5>1, <5>2
      <4> QED
        BY <2>2, <4>3, <4>4, <4>5, SeqEqual
    <3> QED
      BY <3>1, <3>2
  <2> QED
    BY <2>1, <2>2, <2>3, <2>5, <2>6 DEF Queue!Answer
<1> QED
  BY <1>1, <1>2

(* A cleanup loses the connection, or there was none and nobody waited. *)
LEMMA CleanupRefines ==
  ASSUME IInv, NEW giveUp \in BOOLEAN, Cleanup(giveUp)
  PROVE  [Queue!Next]_(Queue!queuevars)
<1>1. sock' = 0 /\ pending' = 0 /\ cmd' = [c \in Commands |-> IF cmd[c] = "waiting" THEN "cut" ELSE cmd[c]]
  BY CleanupEffect DEF IInv
<1>2. Line' = <<>>
  BY <1>1 DEF Line
<1>3. CASE sock # 0
  BY <1>1, <1>2, <1>3 DEF Queue!Lose, Queue!Next
<1>4. CASE sock = 0
  <2>1. Line = <<>> /\ \A c \in Commands : cmd[c] # "waiting"
    BY <1>4, WaitersHaveSocket DEF IInv, CallerInv, Line, Waiting
  <2>2. cmd' = cmd
    BY <1>1, <2>1 DEF IInv, TypeOK
  <2> QED
    BY <1>1, <1>2, <1>4, <2>1, <2>2 DEF Queue!queuevars
<1> QED
  BY <1>3, <1>4

LEMMA StepRefines == IInv /\ [Next]_vars => [Queue!Next]_(Queue!queuevars)
<1> SUFFICES ASSUME IInv, [Next]_vars PROVE [Queue!Next]_(Queue!queuevars)
  OBVIOUS
<1>1. superseded \in BOOLEAN /\ TRUE \in BOOLEAN
  BY DEF IInv, TypeOK
<1>2. ASSUME NewSocket, sock = 0, UNCHANGED <<pending, queue, cmd>> PROVE [Queue!Next]_(Queue!queuevars)
  <2>1. sock' # 0
    BY <1>2, QmpAssumption DEF NewSocket, IInv, TypeOK
  <2> QED
    BY <1>2, <2>1 DEF Queue!Connect, Queue!Next, Line
<1>3. CASE UNCHANGED <<sock, pending, queue, cmd>>
  BY <1>3 DEF Queue!queuevars, Line
<1>4. CASE Connect \/ Wake
  BY <1>2, <1>3, <1>4 DEF Connect, Wake, IInv, SocketInv, cmdvars
<1>5. CASE Expire \/ Greeting \/ UNCHANGED vars
  BY <1>3, <1>5 DEF Expire, Greeting, vars, cmdvars, sockvars
<1>6. CASE GreetingTimesOut \/ Disconnect \/ \E c \in Commands : CommandTimesOut(c)
  BY <1>1, <1>6, CleanupRefines DEF GreetingTimesOut, Disconnect, CommandTimesOut, Abandon
<1>7. ASSUME NEW s \in Attempts, SocketEvent(s) PROVE [Queue!Next]_(Queue!queuevars)
  BY <1>1, <1>3, <1>7, CleanupRefines DEF SocketEvent, cmdvars
<1>8. ASSUME NEW c \in Commands, Execute(c) PROVE [Queue!Next]_(Queue!queuevars)
  BY <1>8, ExecuteRefines DEF Queue!Next
<1>9. ASSUME NEW id, NEW verdict \in {"resolved", "rejected"}, Receive(id, verdict), sock' = sock
      PROVE  [Queue!Next]_(Queue!queuevars)
  BY <1>9, ReceiveRefines DEF Queue!Next, Queue!AnyAnswer, Queue!queuevars
<1>10. CASE StrayReply
  BY <1>9, <1>10 DEF StrayReply, sockvars
<1>11. ASSUME NEW c \in Commands, QemuRuns(c) \/ Reply(c) PROVE [Queue!Next]_(Queue!queuevars)
  <2>1. UNCHANGED sock /\ (UNCHANGED cmdvars \/ (Reply(c) /\ Receive(c, ran[c])))
    BY <1>11 DEF QemuRuns, Reply, sockvars
  <2>2. Reply(c) => ran[c] \in {"resolved", "rejected"}
    BY DEF Reply, IInv, TypeOK
  <2> QED
    BY <1>3, <1>9, <2>1, <2>2 DEF cmdvars
<1> QED
  BY <1>4, <1>5, <1>6, <1>7, <1>8, <1>10, <1>11 DEF Next, Timers

(* Every behaviour of the client is one of a queue of commands: answered in   *)
(* the order of the calls, and cut when the connection goes. For any number   *)
(* of sockets and commands.                                                   *)
THEOREM Refinement == Spec => Queue!SafeSpec
<1>1. Init => Queue!Init
  BY DEF Init, Queue!Init, Line
<1> QED
  BY <1>1, Invariant, StepRefines, PTL DEF Spec, Queue!SafeSpec
=============================================================================

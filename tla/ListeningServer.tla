--------------------------- MODULE ListeningServer ---------------------------
(* The life of the two servers the guest talks to: HttpShare (http-share.ts)  *)
(* and EgressProxy (egress-proxy.ts, start/stop/forceStop and the tracking of *)
(* sockets). They differ in what start() does when listen() fails. net.Server *)
(* binds and reports within one turn of the event loop, so listening is part  *)
(* of the step that resumes start().                                          *)
EXTENDS Naturals

CONSTANTS
  ErrorRejects,  \* a listen error rejects start(): the share's does, the proxy's only logs
  Sockets        \* the connections there can be at once

VARIABLES
  start,     \* start(): "idle", "preparing", "up", "rejected", or "hung": it never settles
  server,    \* this.server: "null", "listening", "broken" (never bound) or "closing"
  stopping,
  stopped,   \* stopPromise: "none", "pending" or "resolved"
  open,      \* connections accepted and served
  doomed     \* connections destroyed whose "close" is yet to come

vars == <<start, server, stopping, stopped, open, doomed>>

TypeOK ==
  /\ start \in {"idle", "preparing", "up", "rejected", "hung"}
  /\ server \in {"null", "listening", "broken", "closing"}
  /\ stopping \in BOOLEAN
  /\ stopped \in {"none", "pending", "resolved"}
  /\ open \subseteq Sockets /\ doomed \subseteq Sockets \ open

Init ==
  /\ start = "idle" /\ server = "null" /\ stopping = FALSE /\ stopped = "none"
  /\ open = {} /\ doomed = {}

(* start() up to its await of a free port, or of the MITM authority. *)
Begin ==
  /\ start = "idle"
  /\ start' = IF stopping THEN "rejected" ELSE "preparing"
  /\ UNCHANGED <<server, stopping, stopped, open, doomed>>

ListenAnyway == TRUE
MayListen == ~stopping

(* The await fails, or start() finds it was stopped. *)
PrepareFails ==
  /\ start = "preparing"
  /\ start' = "rejected"
  /\ UNCHANGED <<server, stopping, stopped, open, doomed>>

Listen ==
  /\ start = "preparing" /\ MayListen
  /\ \/ start' = "up" /\ server' = "listening"
     \/ start' = (IF ErrorRejects THEN "rejected" ELSE "hung") /\ server' = "broken"
  /\ UNCHANGED <<stopping, stopped, open, doomed>>

(* The "connection" event: one that comes while stopping, or that the proxy   *)
(* has no room for, is destroyed at once.                                     *)
Admit(c) ==
  \/ doomed' = doomed \cup {c} /\ UNCHANGED open
  \/ ~stopping /\ open' = open \cup {c} /\ UNCHANGED doomed

Accept(c) ==
  /\ server = "listening" /\ c \notin open \cup doomed
  /\ Admit(c)
  /\ UNCHANGED <<start, server, stopping, stopped>>

(* The peer leaves, or a destroyed socket emits its "close". *)
SocketCloses(c) ==
  /\ c \in open \cup doomed
  /\ open' = open \ {c} /\ doomed' = doomed \ {c}
  /\ UNCHANGED <<start, server, stopping, stopped>>

(* A handler gives a connection up. *)
Drop(c) ==
  /\ c \in open
  /\ open' = open \ {c} /\ doomed' = doomed \cup {c}
  /\ UNCHANGED <<start, server, stopping, stopped>>

DestroyAll == stopping' = TRUE /\ open' = {} /\ doomed' = doomed \cup open

ForceStop == DestroyAll /\ UNCHANGED <<start, server, stopped>>

Closing == IF server = "null" THEN "null" ELSE "closing"

(* stop(): close() and forceStop() are called once, then the promise is shared. *)
Stop ==
  /\ stopped = "none"
  /\ DestroyAll
  /\ server' = Closing
  /\ stopped' = IF server = "null" THEN "resolved" ELSE "pending"
  /\ UNCHANGED start

Drained == open \cup doomed = {}

(* The callback of server.close. *)
Closed ==
  /\ server = "closing" /\ Drained
  /\ server' = "null" /\ stopped' = "resolved"
  /\ UNCHANGED <<start, stopping, open, doomed>>

Stopping == Closed \/ \E c \in doomed : SocketCloses(c)

Connections == \E c \in Sockets : Accept(c) \/ SocketCloses(c) \/ Drop(c)

Next == Begin \/ PrepareFails \/ Listen \/ Connections \/ ForceStop \/ Stop \/ Closed

Safety == Init /\ [][Next]_vars

(* A destroyed socket closes, and so does a server without any. *)
Spec == Safety /\ WF_vars(Stopping)
-----------------------------------------------------------------------------
(* Once stop() has resolved nothing is served: the server is gone, its        *)
(* connections are closed, and a start() that was under way when stop() was   *)
(* called never makes it listen again (http-share.ts:30, egress-proxy.ts:394).*)
StopIsFinal == stopped = "resolved" => server = "null" /\ open \cup doomed = {}

(* From the moment it is stopping no connection is served, not even one that  *)
(* a server still listening after forceStop() accepts (http-share.ts:73).     *)
NoneServedWhileStopping == stopping => open = {}

(* What both rest on: a server that is stopped is stopping for good, which    *)
(* keeps a start() that is still under way from listening, and one that is    *)
(* gone has no connections, so that stop() may resolve at once.               *)
StopInv ==
  /\ stopped # "none" \/ server = "closing" => stopping
  /\ stopped = "pending" => server = "closing"
  /\ server = "null" => open = {} /\ doomed = {}
  /\ stopped = "resolved" => server = "null"
  /\ stopping => open = {}

(* A stop() that was asked for resolves, though the guest never hangs up. *)
StopResolves == (stopped = "pending") ~> (stopped = "resolved")
=============================================================================

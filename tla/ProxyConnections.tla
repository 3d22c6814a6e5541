--------------------------- MODULE ProxyConnections ---------------------------
(* src/sandbox/src/main/egress-proxy.ts: what EgressProxy does for each       *)
(* connection of the guest, from trackConnection to the end of its tunnel,    *)
(* its forwarded requests or its TLS interception, and what stop() does to    *)
(* all of them. A continuation of an await runs in the turn that settles it.  *)
(* Half-closed sockets are left to pipe(); a socket here is open until it is  *)
(* destroyed (doomed), and a doomed one until its "close" event.              *)
EXTENDS Naturals, FiniteSets

CONSTANTS
  Conns,          \* the connections the guest may make, each once
  MaxConnections  \* config.maxConnections

ASSUME ProxyAssumption == MaxConnections \in Nat /\ IsFiniteSet(Conns)

VARIABLES
  start, server, stopping, stopped,  \* ListeningServer's
  client,  \* [Conns -> socket state]: the accepted socket, and the TLS socket around it
  active,  \* activeConnections
  job,     \* what the proxy does for the connection
  up       \* [Conns -> socket state]: its upstream socket, "dialing" until it is
           \* connected (CONNECT) or has answered (a request)

lifevars == <<start, server, stopping, stopped>>
vars == <<lifevars, client, active, job, up>>

Jobs == {"idle", "refused", "ended", "forward", "dial", "tunnel", "leaf", "handshake", "mitm", "relay"}

TypeOK ==
  /\ client \in [Conns -> {"none", "open", "doomed", "closed"}]
  /\ up \in [Conns -> {"none", "dialing", "open", "doomed", "closed"}]
  /\ job \in [Conns -> Jobs]
  /\ active \in Nat

Open == {c \in Conns : client[c] = "open"}
Doomed == {c \in Conns : client[c] = "doomed"}

Server == INSTANCE ListeningServer WITH
  ErrorRejects <- FALSE, Sockets <- Conns, open <- Open, doomed <- Doomed

Init ==
  /\ start = "idle" /\ server = "null" /\ stopping = FALSE /\ stopped = "none"
  /\ client = [c \in Conns |-> "none"] /\ up = [c \in Conns |-> "none"]
  /\ job = [c \in Conns |-> "idle"] /\ active = 0

(* start(), and the callback of server.close. *)
Life ==
  /\ UNCHANGED <<client, active, job, up>>
  /\ Server!Begin \/ Server!PrepareFails \/ Server!Listen \/ Server!Closed

Becomes(c, j) == job' = [job EXCEPT ![c] = j]
Destroyed(s) == IF s \in {"open", "dialing"} THEN "doomed" ELSE s
DestroyUp(c) == up' = [up EXCEPT ![c] = Destroyed(@)]
DestroyClient(c) == client' = [client EXCEPT ![c] = Destroyed(@)]
Gone(c) == client[c] # "open"
-----------------------------------------------------------------------------
(* trackConnection: count it, and have its close uncount it, before the limit *)
(* is looked at; trackSocket destroys it when the proxy is stopping.          *)
Full == active + 1 > MaxConnections
Accept(c) ==
  /\ server = "listening" /\ client[c] = "none"
  /\ active' = active + 1
  /\ client' = [client EXCEPT ![c] = IF stopping \/ Full THEN "doomed" ELSE "open"]
  /\ IF Full THEN Becomes(c, "refused") ELSE UNCHANGED job
  /\ UNCHANGED <<lifevars, up>>

(* A request that is refused on a kept-alive connection leaves no trace here; *)
(* one that is forwarded makes a tracked client request.                      *)
Request(c) ==
  /\ client[c] = "open" /\ job[c] = "idle"
  /\ up' = [up EXCEPT ![c] = "dialing"] /\ Becomes(c, "forward")
  /\ UNCHANGED <<lifevars, client, active>>

(* handleConnect: refused, dialled, or intercepted. *)
Connect(c) ==
  /\ client[c] = "open" /\ job[c] = "idle"
  /\ \/ Becomes(c, "ended") /\ UNCHANGED up
     \/ Becomes(c, "dial") /\ up' = [up EXCEPT ![c] = "dialing"]
     \/ Becomes(c, "leaf") /\ UNCHANGED up
  /\ UNCHANGED <<lifevars, client, active>>
-----------------------------------------------------------------------------
(* The plain tunnel *)
NobodyLooks(c) == stopping
NoLongerWanted(c) == stopping \/ Gone(c)

UpstreamConnects(c) ==
  /\ job[c] = "dial" /\ up[c] = "dialing"
  /\ IF NoLongerWanted(c)
     THEN Becomes(c, "ended") /\ up' = [up EXCEPT ![c] = "doomed"]
     ELSE Becomes(c, "tunnel") /\ up' = [up EXCEPT ![c] = "open"]
  /\ UNCHANGED <<lifevars, client, active>>

(* connectUpstream's 10 s timer; the await throws, 502 and end(). *)
DialTimesOut(c) ==
  /\ job[c] = "dial" /\ up[c] = "dialing"
  /\ DestroyUp(c) /\ Becomes(c, "ended")
  /\ UNCHANGED <<lifevars, client, active>>
-----------------------------------------------------------------------------
(* Interception *)
LeafReady(c) ==
  /\ job[c] = "leaf"
  /\ Becomes(c, IF NoLongerWanted(c) THEN "ended" ELSE "handshake")
  /\ UNCHANGED <<lifevars, client, active, up>>

(* ensureLeafCertificate throws: 502 and end(). *)
LeafFails(c) ==
  /\ job[c] = "leaf"
  /\ Becomes(c, "ended")
  /\ UNCHANGED <<lifevars, client, active, up>>

Secure(c) ==
  /\ job[c] = "handshake" /\ client[c] = "open"
  /\ Becomes(c, "mitm")
  /\ UNCHANGED <<lifevars, client, active, up>>

GiveUpOnly(c) == UNCHANGED client
(* The 5 s timer, or an error of the TLS socket. *)
GiveUp(c) == DestroyClient(c)
HandshakeFails(c) ==
  /\ job[c] = "handshake" /\ client[c] = "open"
  /\ GiveUp(c) /\ Becomes(c, "ended")
  /\ UNCHANGED <<lifevars, active, up>>

MitmRequest(c) ==
  /\ client[c] = "open" /\ job[c] = "mitm"
  /\ up' = [up EXCEPT ![c] = "dialing"] /\ Becomes(c, "relay")
  /\ UNCHANGED <<lifevars, client, active>>
-----------------------------------------------------------------------------
(* The upstream of a request answers; its body is piped to the guest. *)
Responds(c) ==
  /\ job[c] \in {"forward", "relay"} /\ up[c] = "dialing"
  /\ up' = [up EXCEPT ![c] = "open"]
  /\ UNCHANGED <<lifevars, client, active, job>>

(* What a request's handler does when its upstream is over: an answer that is *)
(* complete, or none (502), is the end of the request. One that breaks off    *)
(* ends the guest's connection if it is intercepted; a forwarded one is left  *)
(* unfinished.                                                                *)
RequestOver(c) ==
  \/ Becomes(c, IF job[c] = "forward" THEN "idle" ELSE "mitm") /\ UNCHANGED client
  \/ /\ up[c] = "open"
     /\ IF job[c] = "relay" THEN DestroyClient(c) ELSE UNCHANGED client
     /\ UNCHANGED job

(* The "close" or "error" of an upstream socket. *)
UpstreamCloses(c) ==
  /\ up[c] \in {"dialing", "open", "doomed"}
  /\ up' = [up EXCEPT ![c] = "closed"]
  /\ CASE job[c] = "tunnel" -> DestroyClient(c) /\ UNCHANGED job
       [] job[c] = "dial" -> Becomes(c, "ended") /\ UNCHANGED client
       [] job[c] \in {"forward", "relay"} -> RequestOver(c)
       [] OTHER -> UNCHANGED <<client, job>>
  /\ UNCHANGED <<lifevars, active>>

CountedOnlyIfServed(c) == IF job[c] = "refused" THEN active ELSE active - 1
Uncounted(c) == active - 1

(* The "close" of the guest's socket. A tunnel's upstream goes with it. A     *)
(* request's goes when its answer is being relayed, or when its body was not  *)
(* complete; else it is left to itself.                                       *)
LeftAlone(c) == job[c] # "tunnel" /\ ~(job[c] = "relay" /\ up[c] = "open")
ClientCloses(c) ==
  /\ client[c] \in {"open", "doomed"}
  /\ client' = [client EXCEPT ![c] = "closed"]
  /\ active' = Uncounted(c)
  /\ IF job[c] \in {"idle", "refused", "handshake", "mitm"} THEN Becomes(c, "ended") ELSE UNCHANGED job
  /\ \/ job[c] \in {"tunnel", "forward", "relay"} /\ DestroyUp(c)
     \/ LeftAlone(c) /\ UNCHANGED up
  /\ UNCHANGED lifevars
-----------------------------------------------------------------------------
WithoutUpstreams == UNCHANGED up
DestroyUpstreams == up' = [c \in Conns |-> Destroyed(up[c])]

UpgradedSurvive ==
  client' = [c \in Conns |-> IF job[c] \in {"idle", "forward"} THEN Destroyed(client[c]) ELSE client[c]]
DestroyClients == client' = [c \in Conns |-> Destroyed(client[c])]

(* forceStop: requests and every tracked socket are destroyed. *)
DestroyAll ==
  /\ stopping' = TRUE
  /\ DestroyClients
  /\ DestroyUpstreams
  /\ UNCHANGED <<start, active, job>>

ForceStop == DestroyAll /\ UNCHANGED <<server, stopped>>

Stop ==
  /\ stopped = "none"
  /\ DestroyAll
  /\ server' = Server!Closing
  /\ stopped' = IF server = "null" THEN "resolved" ELSE "pending"

ClientGone(c) == client[c] = "doomed" /\ ClientCloses(c)
UpGone(c) == up[c] = "doomed" /\ UpstreamCloses(c)

Handlers(c) ==
  \/ Accept(c) \/ Request(c) \/ Connect(c) \/ UpstreamConnects(c) \/ DialTimesOut(c)
  \/ LeafReady(c) \/ LeafFails(c) \/ Secure(c) \/ HandshakeFails(c) \/ MitmRequest(c)
  \/ Responds(c) \/ UpstreamCloses(c) \/ ClientCloses(c)

Next == Life \/ ForceStop \/ Stop \/ \E c \in Conns : Handlers(c)

Shut ==
  \/ UNCHANGED <<client, active, job, up>> /\ Server!Closed
  \/ \E c \in Conns : ClientGone(c)

(* Timers run when they are due, a destroyed socket closes, and so does a     *)
(* server without any.                                                        *)
Fairness ==
  /\ WF_vars(Shut)
  /\ \A c \in Conns :
       /\ WF_vars(UpGone(c)) /\ WF_vars(ClientGone(c))
       /\ WF_vars(DialTimesOut(c)) /\ WF_vars(HandshakeFails(c))

Spec == Init /\ [][Next]_vars /\ Fairness
-----------------------------------------------------------------------------
(* activeConnections is the number of sockets that have not closed, whatever  *)
(* became of them, and never more than maxConnections are served: a count     *)
(* that misses one close shuts the guest out for ever, one too many lets any  *)
(* number in (egress-proxy.ts:466).                                           *)
CountIsExact ==
  /\ active = Cardinality(Open \cup Doomed)
  /\ Cardinality(Open) <= MaxConnections

(* While the proxy stops neither a guest's connection nor one to an upstream  *)
(* is alive, wherever its handler was waiting: a dial that completes, a leaf  *)
(* that is ready and a request on its way included (egress-proxy.ts:435, 797).*)
NothingAliveWhileStopping ==
  stopping => \A c \in Conns : client[c] # "open" /\ up[c] \notin {"dialing", "open"}

(* A tunnel has two ends or none: if the guest goes while its upstream is     *)
(* being dialled or relayed, or the upstream does, the other end is closed    *)
(* (egress-proxy.ts:797, 816).                                                *)
TunnelEndsWhole ==
  \A c \in Conns :
    (job[c] \in {"dial", "tunnel"} /\ "closed" \in {client[c], up[c]})
      ~> (client[c] = "closed" /\ up[c] = "closed")

(* A TLS handshake ends in an intercepted connection or in none: one the      *)
(* guest never finishes does not keep a place (egress-proxy.ts:900).          *)
HandshakeSettles ==
  \A c \in Conns : (job[c] = "handshake") ~> (job[c] = "mitm" \/ client[c] = "closed")

(* Seen from its server the proxy is a ListeningServer: stop() resolves, and  *)
(* once it has the proxy serves no one and never listens again, whatever its  *)
(* handlers and their upstreams were doing (egress-proxy.ts:444).             *)
ImplementsServer == Server!Safety /\ Server!StopResolves
=============================================================================

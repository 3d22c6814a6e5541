----------------------- MODULE ProxyConnections_proofs -----------------------
(* Proofs about ProxyConnections, for any connections and any limit.          *)
EXTENDS ProxyConnections, FiniteSetTheorems, TLAPS

ClientStates == {"none", "open", "doomed", "closed"}
UpStates == {"none", "dialing", "open", "doomed", "closed"}

(* The sockets that are counted. *)
Live == Open \cup Doomed

-----------------------------------------------------------------------------
(* What the handlers' helpers do to a socket's state. *)

LEMMA DestroyedTyped ==
  /\ \A s \in ClientStates : Destroyed(s) \in ClientStates \ {"open"}
  /\ \A s \in UpStates : Destroyed(s) \in UpStates \ {"open", "dialing"}
  BY DEF Destroyed, ClientStates, UpStates

LEMMA DestroyClientTyped ==
  ASSUME TypeOK, NEW c \in Conns, DestroyClient(c)
  PROVE  /\ client' \in [Conns -> ClientStates] /\ Open' = Open \ {c} /\ Live' = Live
  BY DEF TypeOK, DestroyClient, Destroyed, ClientStates, Open, Doomed, Live

LEMMA DestroyUpTyped ==
  ASSUME TypeOK, NEW c \in Conns, DestroyUp(c)
  PROVE  /\ up' \in [Conns -> UpStates]
         /\ \A d \in Conns : up'[d] \in {"dialing", "open"} => up[d] = up'[d]
  BY DEF TypeOK, DestroyUp, Destroyed, UpStates

LEMMA BecomesTyped ==
  ASSUME TypeOK, NEW c \in Conns, NEW j \in Jobs, Becomes(c, j)
  PROVE  job' \in [Conns -> Jobs]
  BY DEF TypeOK, Becomes

(* stop() and forceStop() leave no socket in use, and count every client.     *)
LEMMA DestroyAllTyped ==
  ASSUME TypeOK, DestroyAll
  PROVE  /\ client' \in [Conns -> ClientStates] /\ up' \in [Conns -> UpStates]
         /\ Open' = {} /\ Live' = Live /\ Doomed' = Live
         /\ \A c \in Conns : client'[c] # "open" /\ up'[c] \notin {"dialing", "open"}
  BY DEF TypeOK, DestroyAll, DestroyClients, DestroyUpstreams, Destroyed, ClientStates,
         UpStates, Open, Doomed, Live

-----------------------------------------------------------------------------
(* The handlers *)
TrackedSteps(c) == Accept(c) \/ ClientCloses(c)

(* A handler that neither accepts a socket nor sees one close destroys its    *)
(* own client at most, and wakes nothing up while the proxy is stopping.      *)
LEMMA HandlerEffect ==
  ASSUME TypeOK, NEW c \in Conns, Handlers(c), ~TrackedSteps(c)
  PROVE  /\ UNCHANGED <<lifevars, active>>
         /\ UNCHANGED client \/ DestroyClient(c)
         /\ job' \in [Conns -> Jobs] /\ up' \in [Conns -> UpStates]
         /\ NothingAliveWhileStopping /\ stopping =>
              \A d \in Conns : up'[d] \notin {"dialing", "open"}
<1> USE DEF Jobs, UpStates, NothingAliveWhileStopping
<1>1. CASE Request(c)
  BY <1>1 DEF Request, TypeOK, Becomes
<1>2. CASE Connect(c)
  BY <1>2 DEF Connect, TypeOK, Becomes
<1>3. CASE UpstreamConnects(c)
  BY <1>3 DEF UpstreamConnects, TypeOK, Becomes
<1>4. CASE DialTimesOut(c)
  BY <1>4, DestroyUpTyped DEF DialTimesOut, TypeOK, Becomes
<1>5. CASE LeafReady(c) \/ LeafFails(c)
  BY <1>5 DEF LeafReady, LeafFails, TypeOK, Becomes
<1>6. CASE Secure(c)
  BY <1>6 DEF Secure, TypeOK, Becomes
<1>7. CASE HandshakeFails(c)
  BY <1>7 DEF HandshakeFails, GiveUp, TypeOK, Becomes
<1>8. CASE MitmRequest(c)
  BY <1>8 DEF MitmRequest, TypeOK, Becomes
<1>9. CASE Responds(c)
  BY <1>9 DEF Responds, TypeOK, Becomes
<1>10. CASE UpstreamCloses(c)
  <2>1. up' = [up EXCEPT ![c] = "closed"] /\ UNCHANGED <<lifevars, active>>
    BY <1>10 DEF UpstreamCloses
  <2>2. job' \in [Conns -> Jobs] /\ (UNCHANGED client \/ DestroyClient(c))
    BY <1>10 DEF UpstreamCloses, RequestOver, TypeOK, Becomes
  <2> QED
    BY <2>1, <2>2 DEF TypeOK
<1> QED
  BY <1>1, <1>2, <1>3, <1>4, <1>5, <1>6, <1>7, <1>8, <1>9, <1>10 DEF Handlers, TrackedSteps

LEMMA AcceptEffect ==
  ASSUME TypeOK, NEW c \in Conns, Accept(c)
  PROVE  /\ client' \in [Conns -> ClientStates] /\ job' \in [Conns -> Jobs]
         /\ c \notin Live /\ Live' = Live \cup {c} /\ active' = active + 1
         /\ \/ Open' = Open /\ Doomed' = Doomed \cup {c}
            \/ ~stopping /\ active + 1 <= MaxConnections /\ Open' = Open \cup {c} /\ Doomed' = Doomed
  BY ProxyAssumption DEF Accept, Full, TypeOK, Becomes, ClientStates, Jobs, Open, Doomed, Live

LEMMA CloseEffect ==
  ASSUME TypeOK, NEW c \in Conns, ClientCloses(c)
  PROVE  /\ client' \in [Conns -> ClientStates] /\ job' \in [Conns -> Jobs]
         /\ up' \in [Conns -> UpStates] /\ \A d \in Conns : up'[d] \in {"dialing", "open"} => up[d] = up'[d]
         /\ c \in Live /\ Live' = Live \ {c} /\ active' = active - 1
         /\ Open' = Open \ {c} /\ Doomed' = Doomed \ {c}
<1>1. client' \in [Conns -> ClientStates] /\ job' \in [Conns -> Jobs] /\ active' = active - 1
  BY DEF ClientCloses, Uncounted, TypeOK, Becomes, ClientStates, Jobs
<1>2. up' \in [Conns -> UpStates] /\ \A d \in Conns : up'[d] \in {"dialing", "open"} => up[d] = up'[d]
  <2>1. DestroyUp(c) \/ UNCHANGED up
    BY DEF ClientCloses
  <2> QED
    BY <2>1, DestroyUpTyped DEF TypeOK, UpStates
<1>3. c \in Live /\ Live' = Live \ {c} /\ Open' = Open \ {c} /\ Doomed' = Doomed \ {c}
  BY DEF ClientCloses, TypeOK, Open, Doomed, Live
<1> QED
  BY <1>1, <1>2, <1>3

-----------------------------------------------------------------------------
(* The count needs the types, the types need the count (a close takes one     *)
(* off), and a stop stays complete by itself.                                 *)
IInv == TypeOK /\ CountIsExact /\ NothingAliveWhileStopping

LEMMA LiveFinite == IsFiniteSet(Live) /\ IsFiniteSet(Open)
  BY ProxyAssumption, FS_Subset DEF Live, Open, Doomed

LEMMA OpenSmaller ==
  ASSUME NEW S \in SUBSET Open, Cardinality(Open) <= MaxConnections
  PROVE  Cardinality(S) <= MaxConnections
<1>1. Cardinality(S) \in Nat /\ Cardinality(Open) \in Nat /\ Cardinality(S) <= Cardinality(Open)
  BY LiveFinite, FS_Subset, FS_CardinalityType
<1> QED
  BY <1>1, ProxyAssumption

LEMMA IInvInit == Init => IInv
<1> SUFFICES ASSUME Init PROVE IInv
  OBVIOUS
<1>1. TypeOK /\ NothingAliveWhileStopping
  BY DEF Init, TypeOK, Jobs, NothingAliveWhileStopping
<1>2. Open = {} /\ Doomed = {} /\ active = 0
  BY DEF Init, Open, Doomed
<1>3. CountIsExact
  BY <1>2, FS_EmptySet, ProxyAssumption DEF CountIsExact
<1> QED
  BY <1>1, <1>3 DEF IInv

LEMMA LifeEffect ==
  ASSUME Life
  PROVE  UNCHANGED <<client, active, job, up, stopping>>
  BY DEF Life, Server!Begin, Server!PrepareFails, Server!Listen, Server!Closed

LEMMA CountKept ==
  ASSUME CountIsExact, active' = active, Live' = Live, Open' \subseteq Open
  PROVE  CountIsExact'
  BY OpenSmaller DEF CountIsExact, Live

LEMMA IInvNext == IInv /\ [Next]_vars => IInv'
<1> SUFFICES ASSUME IInv, [Next]_vars PROVE IInv'
  OBVIOUS
<1> USE DEF IInv
<1>1. CASE Life \/ UNCHANGED vars
  <2>1. UNCHANGED <<client, active, job, up, stopping>>
    BY <1>1, LifeEffect DEF vars, lifevars
  <2> QED
    BY <2>1 DEF TypeOK, CountIsExact, NothingAliveWhileStopping, Open, Doomed
<1>2. CASE ForceStop \/ Stop
  <2>1. DestroyAll
    BY <1>2 DEF ForceStop, Stop
  <2>2. UNCHANGED <<active, job>>
    BY <2>1 DEF DestroyAll
  <2>3. CountIsExact'
    BY <2>1, <2>2, DestroyAllTyped, CountKept
  <2> QED
    BY <2>1, <2>2, <2>3, DestroyAllTyped DEF TypeOK, NothingAliveWhileStopping, ClientStates, UpStates
<1>3. ASSUME NEW c \in Conns, Accept(c) PROVE IInv'
  <2>1. active = Cardinality(Live) /\ active \in Nat /\ Cardinality(Open) \in Nat
        /\ Cardinality(Open) <= active /\ Cardinality(Open) <= MaxConnections
    <3>1. Cardinality(Open) <= Cardinality(Live) /\ Cardinality(Open) \in Nat
      BY LiveFinite, FS_Subset, FS_CardinalityType DEF Live
    <3> QED
      BY <3>1 DEF TypeOK, CountIsExact, Live
  <2>2. active' = Cardinality(Live')
    BY <1>3, <2>1, AcceptEffect, LiveFinite, FS_AddElement
  <2>3. Cardinality(Open') <= MaxConnections
    <3>1. CASE Open' = Open
      BY <3>1, <2>1
    <3>2. CASE Open' = Open \cup {c} /\ active + 1 <= MaxConnections
      <4>1. Cardinality(Open') = Cardinality(Open) + 1
        BY <1>3, <3>2, AcceptEffect, LiveFinite, FS_AddElement DEF Live
      <4> QED
        BY <4>1, <3>2, <2>1, ProxyAssumption
    <3> QED
      BY <1>3, <3>1, <3>2, AcceptEffect
  <2>4. TypeOK'
    <3>1. up' = up
      BY <1>3 DEF Accept
    <3>2. active' \in Nat
      BY <1>3, <2>1, AcceptEffect
    <3> QED
      BY <1>3, <3>1, <3>2, AcceptEffect DEF TypeOK, ClientStates
  <2>5. NothingAliveWhileStopping'
    BY <1>3 DEF NothingAliveWhileStopping, Accept, lifevars, TypeOK
  <2> QED
    BY <2>2, <2>3, <2>4, <2>5 DEF CountIsExact, Live
<1>4. ASSUME NEW c \in Conns, ClientCloses(c) PROVE IInv'
  <2>1. /\ active = Cardinality(Live) /\ Cardinality(Live \ {c}) = active - 1
        /\ Cardinality(Live \ {c}) \in Nat /\ Cardinality(Open) <= MaxConnections
    BY <1>4, CloseEffect, LiveFinite, FS_RemoveElement, FS_CardinalityType DEF CountIsExact, Live
  <2>2. active' = Cardinality(Live') /\ active' \in Nat
    BY <1>4, <2>1, CloseEffect
  <2>3. Cardinality(Open') <= MaxConnections
    BY <1>4, <2>1, CloseEffect, OpenSmaller
  <2>4. TypeOK'
    BY <1>4, <2>2, CloseEffect DEF TypeOK, ClientStates, UpStates
  <2>5. NothingAliveWhileStopping'
    <3>1. stopping' = stopping /\ \A d \in Conns : client'[d] = "open" => client[d] = "open"
      BY <1>4 DEF ClientCloses, lifevars, TypeOK
    <3> QED
      BY <1>4, <3>1, CloseEffect DEF NothingAliveWhileStopping
  <2> QED
    BY <2>2, <2>3, <2>4, <2>5 DEF CountIsExact, Live
<1>5. ASSUME NEW c \in Conns, Handlers(c), ~TrackedSteps(c) PROVE IInv'
  <2>1. UNCHANGED <<stopping, active>> /\ job' \in [Conns -> Jobs] /\ up' \in [Conns -> UpStates]
    BY <1>5, HandlerEffect DEF lifevars
  <2>2. client' \in [Conns -> ClientStates] /\ Live' = Live /\ Open' \subseteq Open
    <3>1. CASE UNCHANGED client
      BY <3>1 DEF TypeOK, ClientStates, Live, Open, Doomed
    <3>2. CASE DestroyClient(c)
      BY <3>2, DestroyClientTyped
    <3> QED
      BY <1>5, <3>1, <3>2, HandlerEffect
  <2>3. CountIsExact'
    BY <2>1, <2>2, CountKept
  <2>4. NothingAliveWhileStopping'
    <3> SUFFICES ASSUME stopping, NEW d \in Conns
                 PROVE  client'[d] # "open" /\ up'[d] \notin {"dialing", "open"}
      BY <2>1 DEF NothingAliveWhileStopping
    <3>1. d \notin Open
      BY DEF NothingAliveWhileStopping, Open
    <3> QED
      BY <1>5, <2>2, <3>1, HandlerEffect DEF Open
  <2> QED
    BY <2>1, <2>2, <2>3, <2>4 DEF TypeOK, ClientStates, UpStates
<1> QED
  BY <1>1, <1>2, <1>3, <1>4, <1>5 DEF Next, TrackedSteps

LEMMA Invariant == Spec => []IInv
  BY IInvInit, IInvNext, PTL DEF Spec

(* The state of the proxy keeps its type, for any connections and any limit.  *)
THEOREM TypeCorrect == Spec => []TypeOK
  BY Invariant, PTL DEF IInv

(* The proxy's count of connections is the number of sockets that have not    *)
(* closed, and no more than the limit are served, whatever the limit and      *)
(* however many connections are refused, destroyed or abandoned.              *)
THEOREM CountAlwaysExact == Spec => []CountIsExact
  BY Invariant, PTL DEF IInv

(* A proxy that is stopping has nothing alive, on either side, wherever its   *)
(* handlers are waiting.                                                      *)
THEOREM NothingOutlivesStop == Spec => []NothingAliveWhileStopping
  BY Invariant, PTL DEF IInv
-----------------------------------------------------------------------------
(* Seen from its server every step is one of the abstract server or none.     *)
LEMMA StepRefines == TypeOK /\ [Next]_vars => [Server!Next]_(Server!vars)
<1> SUFFICES ASSUME TypeOK, [Next]_vars PROVE [Server!Next]_(Server!vars)
  OBVIOUS
<1> USE DEF Server!vars, lifevars
<1>1. CASE Life
  BY <1>1 DEF Life, Server!Next
<1>2. CASE UNCHANGED vars
  BY <1>2 DEF vars, Open, Doomed
<1>3. CASE ForceStop
  <2>1. Server!DestroyAll
    BY <1>3, DestroyAllTyped DEF ForceStop, DestroyAll, Server!DestroyAll, Live
  <2>2. Server!ForceStop
    BY <1>3, <2>1 DEF ForceStop, DestroyAll, Server!ForceStop
  <2> QED
    BY <2>2 DEF Server!Next
<1>4. CASE Stop
  <2>1. Server!DestroyAll
    BY <1>4, DestroyAllTyped DEF Stop, DestroyAll, Server!DestroyAll, Live
  <2>2. Server!Stop
    BY <1>4, <2>1 DEF Stop, DestroyAll, Server!Stop
  <2> QED
    BY <2>2 DEF Server!Next
<1>5. ASSUME NEW c \in Conns, Accept(c) PROVE Server!Next
  <2>1. Server!Admit(c) /\ c \notin Open \cup Doomed
    BY <1>5, AcceptEffect DEF Server!Admit, Live
  <2>2. Server!Accept(c)
    BY <1>5, <2>1 DEF Accept, Server!Accept
  <2> QED
    BY <2>2 DEF Server!Next, Server!Connections
<1>6. ASSUME NEW c \in Conns, ClientCloses(c) PROVE Server!Next
  <2>1. Server!SocketCloses(c)
    BY <1>6, CloseEffect DEF ClientCloses, Server!SocketCloses, Live
  <2> QED
    BY <2>1 DEF Server!Next, Server!Connections
<1>7. ASSUME NEW c \in Conns, Handlers(c), ~TrackedSteps(c) PROVE Server!Next \/ UNCHANGED Server!vars
  <2>1. UNCHANGED <<start, server, stopping, stopped>>
    BY <1>7, HandlerEffect
  <2>2. CASE UNCHANGED client
    BY <2>1, <2>2 DEF Open, Doomed
  <2>3. CASE DestroyClient(c) /\ c \in Open
    <3>1. Doomed' = Doomed \cup {c} /\ Open' = Open \ {c}
      BY <2>3 DEF DestroyClient, Destroyed, TypeOK, Open, Doomed
    <3>2. Server!Drop(c)
      BY <2>1, <2>3, <3>1 DEF Server!Drop
    <3> QED
      BY <3>2 DEF Server!Next, Server!Connections
  <2>4. CASE DestroyClient(c) /\ c \notin Open
    <3>1. Doomed' = Doomed /\ Open' = Open
      BY <2>4 DEF DestroyClient, Destroyed, TypeOK, Open, Doomed
    <3> QED
      BY <2>1, <3>1
  <2> QED
    BY <1>7, <2>2, <2>3, <2>4, HandlerEffect
<1> QED
  BY <1>1, <1>2, <1>3, <1>4, <1>5, <1>6, <1>7 DEF Next, TrackedSteps

(* With its handlers, limits and upstreams the proxy is a ListeningServer, as *)
(* far as safety goes.                                                        *)
THEOREM Refinement == Spec => Server!Safety
<1>1. Init => Server!Init
  BY DEF Init, Server!Init, Open, Doomed
<1> QED
  BY <1>1, StepRefines, TypeCorrect, PTL DEF Spec, Server!Safety

(* ... and so it keeps what every such server promises.                       *)
LEMMA ServerInit == Server!Init => Server!StopInv
  BY DEF Server!Init, Server!StopInv

LEMMA ServerKept == Server!StopInv /\ [Server!Next]_(Server!vars) => Server!StopInv'
<1> SUFFICES ASSUME Server!StopInv, [Server!Next]_(Server!vars) PROVE Server!StopInv'
  OBVIOUS
<1>1. CASE Server!Begin \/ Server!PrepareFails \/ UNCHANGED Server!vars
  BY <1>1 DEF Server!Begin, Server!PrepareFails, Server!vars, Server!StopInv
<1>2. CASE Server!Listen
  BY <1>2 DEF Server!Listen, Server!MayListen, Server!StopInv
<1>3. CASE Server!Connections
  BY <1>3 DEF Server!Connections, Server!Accept, Server!Admit, Server!SocketCloses, Server!Drop, Server!StopInv
<1>4. CASE Server!ForceStop \/ Server!Stop
  BY <1>4 DEF Server!ForceStop, Server!Stop, Server!DestroyAll, Server!Closing, Server!StopInv
<1>5. CASE Server!Closed
  <2>1. Open = {} /\ Doomed = {}
    BY <1>5 DEF Server!Closed, Server!Drained
  <2> QED
    BY <1>5, <2>1 DEF Server!Closed, Server!StopInv
<1> QED
  BY <1>1, <1>2, <1>3, <1>4, <1>5 DEF Server!Next

LEMMA StopInvAlways == Spec => []Server!StopInv
  BY ServerInit, ServerKept, Refinement, PTL DEF Server!Safety

(* Once stop() has resolved the proxy has neither a listening server nor a    *)
(* connection left, and no start() brings it back.                            *)
THEOREM StopIsFinal == Spec => []Server!StopIsFinal
<1>1. Server!StopInv => Server!StopIsFinal
  BY DEF Server!StopInv, Server!StopIsFinal
<1> QED
  BY <1>1, StopInvAlways, PTL

(* From the moment the proxy is stopping no connection of the guest is        *)
(* served, though a server still listening after forceStop() accepts some.    *)
THEOREM NoneServed == Spec => []Server!NoneServedWhileStopping
<1>1. Server!StopInv => Server!NoneServedWhileStopping
  BY DEF Server!StopInv, Server!NoneServedWhileStopping
<1> QED
  BY <1>1, StopInvAlways, PTL
=============================================================================

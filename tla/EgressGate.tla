------------------------------ MODULE EgressGate ------------------------------
(* src/sandbox/src/main/egress-proxy.ts: which of the guest's requests leave  *)
(* the host, where they go and what they carry. The limit, the policy and the *)
(* port are looked at in the order of the code; a request or CONNECT whose    *)
(* token is wrong is answered 407 before any of it and changes nothing. Hosts *)
(* are sequences of labels in lower case, as normalizeHost makes them.        *)
EXTENDS RateLimit, FiniteSets, SequencesExt

CONSTANTS
  Configs,     \* what buildProxyConfig may return
  Labels,      \* the labels of host names
  Spellings,   \* hosts as the guest may write them: [labels, dot, port]
  Ports,       \* the ports it may ask for
  Secrets,     \* the names of config.secrets, each with its placeholder and value
  Tunnels      \* bound: TLS sockets it has intercepted at a time

ASSUME GateAssumption == Spellings \subseteq [labels : Seq(Labels), dot : BOOLEAN, port : BOOLEAN]

VARIABLES
  config,         \* EgressRuntimeConfig
  mitmTargetMap,  \* [Tunnels -> the host and port of its CONNECT, or NoTarget]
  sent            \* what the last step sent upstream: at most one message

gatevars == <<config, mitmTargetMap, sent>>
vars == <<ratevars, gatevars>>

NoTarget == [host |-> <<>>, port |-> 0]

Init ==
  /\ RateInit
  /\ config \in Configs /\ limit = config.rateLimitPerMin
  /\ mitmTargetMap = [s \in Tunnels |-> NoTarget]
  /\ sent = {}
-----------------------------------------------------------------------------
AsWritten(h) == h

(* The trailing dot goes, but only if no port is behind it; then the port. *)
normalizeHost(h) == IF h.port THEN [h EXCEPT !.port = FALSE] ELSE [h EXCEPT !.dot = FALSE]

(* A pattern is a name, or all names that end in one; "*" ends in nothing. *)
hostMatchesPattern(h, p) ==
  \/ p.wild /\ p.labels = <<>>
  \/ p.wild /\ IsSuffix(p.labels, h.labels) /\ ~h.dot /\ ~h.port
  \/ h = [labels |-> p.labels, dot |-> FALSE, port |-> FALSE]

Within(h, patterns) == \E p \in patterns : hostMatchesPattern(h, p)
Renormalized(h) == normalizeHost(h)

hostAllowed(h, policy, allow, deny) ==
  \/ policy = "none"
  \/ /\ ~Within(Renormalized(h), deny)
     /\ policy = "denylist" \/ Within(Renormalized(h), allow)

PolicyAllows(h) == config.allowAll \/ hostAllowed(h, config.policy, config.allowHosts, config.denyHosts)
PortAllowed(p) == config.allowPorts = {} \/ p \in config.allowPorts

SecretOfHost(s, h) == hostAllowed(h, "allowlist", config.secrets[s], {})
isSecretHost(h) == \E s \in Secrets : Within(normalizeHost(h), config.secrets[s])

OfAnySecret(s, h) == isSecretHost(h)
Authorized(s, h) == SecretOfHost(s, h)
-----------------------------------------------------------------------------
Message(via, h, p, values, placeholders) ==
  {[via |-> via, host |-> h, port |-> p, values |-> values, placeholders |-> placeholders]}

Refuse == sent' = {}

(* rewriteHeaders: every placeholder becomes its secret, or none is sent. *)
SendRewritten(via, h, p, marks) ==
  IF \A s \in marks : Authorized(s, h)
  THEN sent' = Message(via, h, p, marks, {})
  ELSE Refuse

(* handleRequest and forwardRequest: an http URL is rewritten, an https one   *)
(* goes out as it came.                                                       *)
HandleRequest(ip, host, p, useTls, marks) ==
  /\ CheckRateLimit(ip)
  /\ LET h == normalizeHost(host) IN
     IF ~UnderLimit(ip) \/ ~PolicyAllows(h) \/ ~PortAllowed(p) THEN Refuse
     ELSE IF useTls THEN sent' = Message("https", h, p, {}, marks)
     ELSE SendRewritten("http", h, p, marks)
  /\ UNCHANGED <<config, mitmTargetMap>>

NeverIntercept(h) == FALSE
Intercepts(h) == config.enableMitm /\ isSecretHost(h)

(* handleConnect, whose host is what comes before the first colon. *)
HandleConnect(ip, host, p) ==
  /\ ~host.port
  /\ CheckRateLimit(ip)
  /\ LET h == normalizeHost(host) IN
     IF ~UnderLimit(ip) \/ ~PolicyAllows(h) \/ ~PortAllowed(p) THEN Refuse /\ UNCHANGED mitmTargetMap
     ELSE IF Intercepts(h)
     THEN Refuse /\ \E t \in Tunnels : mitmTargetMap[t] = NoTarget
                      /\ mitmTargetMap' = [mitmTargetMap EXCEPT ![t] = [host |-> h, port |-> p]]
     ELSE sent' = Message("tunnel", h, p, {}, {}) /\ UNCHANGED mitmTargetMap
  /\ UNCHANGED config

(* handleMitmRequest: it goes where the CONNECT went, whatever its own Host   *)
(* header says.                                                               *)
HandleMitmRequest(t, marks) ==
  /\ mitmTargetMap[t] # NoTarget
  /\ SendRewritten("mitm", mitmTargetMap[t].host, mitmTargetMap[t].port, marks)
  /\ UNCHANGED <<ratevars, config, mitmTargetMap>>

TunnelCloses(t) ==
  /\ mitmTargetMap[t] # NoTarget
  /\ mitmTargetMap' = [mitmTargetMap EXCEPT ![t] = NoTarget]
  /\ Refuse
  /\ UNCHANGED <<ratevars, config>>

Clock == Tick /\ UNCHANGED <<config, mitmTargetMap>> /\ Refuse

Guest ==
  \/ \E ip \in Clients, h \in Spellings, p \in Ports :
       \/ HandleConnect(ip, h, p)
       \/ \E useTls \in BOOLEAN, marks \in SUBSET Secrets : HandleRequest(ip, h, p, useTls, marks)
  \/ \E t \in Tunnels : TunnelCloses(t) \/ \E marks \in SUBSET Secrets : HandleMitmRequest(t, marks)

Next == Clock \/ Guest
Spec == Init /\ [][Next]_vars
-----------------------------------------------------------------------------
(* What a pattern means for a name, whoever spells it. *)
Names(p, labels) == IF p.wild THEN IsSuffix(p.labels, labels) ELSE p.labels = labels

Forbidden(labels) ==
  /\ ~config.allowAll
  /\ \/ config.policy # "none" /\ \E p \in config.denyHosts : Names(p, labels)
     \/ config.policy = "allowlist" /\ ~\E p \in config.allowHosts : Names(p, labels)

(* Nothing goes to a host the policy forbids or to a port it does not allow,  *)
(* by no way out and in no spelling: requests inside an intercepted tunnel    *)
(* are never checked themselves (egress-proxy.ts:66, 598, 773).               *)
PolicyHolds ==
  \A m \in sent : ~Forbidden(m.host.labels) /\ (config.allowPorts = {} \/ m.port \in config.allowPorts)

(* The value of a secret goes to the secret's own hosts and nowhere else, and *)
(* where headers are rewritten a placeholder is either replaced or, with the  *)
(* whole request, kept back (egress-proxy.ts:159).                            *)
SecretsGoHome ==
  \A m \in sent :
    /\ \A s \in m.values : \E p \in config.secrets[s] : Names(p, m.host.labels)
    /\ m.via \in {"http", "mitm"} => m.placeholders = {}

(* With interception on, a host that has a secret is never tunnelled blindly, *)
(* or its placeholders would reach it (egress-proxy.ts:789).                  *)
SecretHostsIntercepted ==
  \A m \in sent : m.via = "tunnel" /\ config.enableMitm =>
    ~\E s \in Secrets : \E p \in config.secrets[s] : Names(p, m.host.labels)
=============================================================================

--------------------------- MODULE EgressGate_proofs ---------------------------
(* What the gate keeps to for every configuration, spelling and limit.        *)
(* First the bound of checkRateLimit: the requests that passed in the current *)
(* window are the last ones of a client's history, at most `limit` of them;   *)
(* so are those of the window before, and whatever passed earlier did so a    *)
(* minute or more before the current window began.                            *)
EXTENDS EgressGate, TLAPS

(* How many requests of ip have passed in its current window. *)
InWindow(ip) == IF buckets[ip].count < limit THEN buckets[ip].count ELSE limit

(* What is known at time t of a history p of n passes, the last w of them in *)
(* a window that began at start.                                              *)
History(p, n, w, start, t, L) ==
  /\ start <= t
  /\ \A i \in 1..n : p[i] \in Nat /\ p[i] <= t
  /\ \A i \in 1..(n - w) : p[i] <= start
  /\ \A i \in 1..(n - w - L) : p[i] + Minute <= start
  /\ \A i \in 1..(n - 2 * L) : p[i] + Minute <= p[i + 2 * L]

ClientInv(ip) ==
  /\ buckets[ip].count = 0 => Len(passes[ip]) = 0
  /\ History(passes[ip], Len(passes[ip]), InWindow(ip), buckets[ip].windowStart, now, limit)

RateInv == RateTypeOK /\ (limit > 0 => \A ip \in Clients : ClientInv(ip))

(* A pass that opens a window, a minute or more after the last one began. *)
LEMMA WindowOpens ==
  ASSUME NEW p, NEW q, NEW n \in Nat, NEW w \in Nat, NEW start \in Nat, NEW t \in Nat, NEW L \in Nat,
         History(p, n, w, start, t, L), w <= L, 1 <= L,
         n = 0 \/ start + Minute <= t,
         \A i \in 1..n : q[i] = p[i], q[n + 1] = t
  PROVE  History(q, n + 1, 1, t, t, L)
<1> Minute \in Nat
  BY RateAssumption
<1>1. \A i \in 1..(n + 1) : q[i] \in Nat /\ q[i] <= t
  BY DEF History
<1>2. \A i \in 1..(n - L) : p[i] + Minute <= t
  BY DEF History
<1>3. ASSUME NEW i \in 1..(n + 1 - 2 * L) PROVE q[i] + Minute <= q[i + 2 * L]
  <2>1. CASE i + 2 * L = n + 1
    BY <1>2, <2>1
  <2>2. CASE i + 2 * L # n + 1
    <3>1. i \in 1..(n - 2 * L) /\ i \in 1..n /\ i + 2 * L \in 1..n
      BY <2>2
    <3> QED
      BY <3>1 DEF History
  <2> QED
    BY <2>1, <2>2
<1> QED
  BY <1>1, <1>2, <1>3 DEF History

(* A further pass within a window that has room for it. *)
LEMMA WindowGrows ==
  ASSUME NEW p, NEW q, NEW n \in Nat, NEW w \in Nat, NEW start \in Nat, NEW t \in Nat, NEW L \in Nat,
         History(p, n, w, start, t, L), w < L,
         \A i \in 1..n : q[i] = p[i], q[n + 1] = t
  PROVE  History(q, n + 1, w + 1, start, t, L)
<1> Minute \in Nat
  BY RateAssumption
<1>1. \A i \in 1..(n + 1) : q[i] \in Nat /\ q[i] <= t
  BY DEF History
<1>2. ASSUME NEW i \in 1..(n + 1 - 2 * L) PROVE q[i] + Minute <= q[i + 2 * L]
  <2>1. CASE i + 2 * L = n + 1
    <3>1. i \in 1..(n - w - L) /\ i \in 1..n
      BY <2>1
    <3> QED
      BY <2>1, <3>1 DEF History
  <2>2. CASE i + 2 * L # n + 1
    <3>1. i \in 1..(n - 2 * L) /\ i \in 1..n /\ i + 2 * L \in 1..n
      BY <2>2
    <3> QED
      BY <3>1 DEF History
  <2> QED
    BY <2>1, <2>2
<1>3. /\ \A i \in 1..(n + 1 - (w + 1)) : q[i] <= start
      /\ \A i \in 1..(n + 1 - (w + 1) - L) : q[i] + Minute <= start
  BY DEF History
<1> QED
  BY <1>1, <1>2, <1>3 DEF History

(* What is known of a history stays true of it. *)
LEMMA LaterToo ==
  ASSUME NEW p, NEW n \in Nat, NEW w \in Nat, NEW start \in Nat, NEW t \in Nat, NEW u \in Nat, NEW L \in Nat,
         History(p, n, w, start, t, L), t <= u
  PROVE  History(p, n, w, start, u, L)
  BY DEF History

LEMMA RateInvInit == RateInit => RateInv
<1> SUFFICES ASSUME RateInit PROVE RateInv
  OBVIOUS
<1>1. RateTypeOK
  BY RateAssumption DEF RateInit, RateTypeOK
<1>2. ASSUME NEW ip \in Clients, limit > 0 PROVE ClientInv(ip)
  <2>1. buckets[ip].count = 0 /\ buckets[ip].windowStart = 0 /\ passes[ip] = <<>> /\ now = 0
    BY DEF RateInit
  <2>2. limit \in Nat
    BY RateAssumption DEF RateInit
  <2>3. Len(passes[ip]) = 0 /\ InWindow(ip) = 0
    BY <1>2, <2>1, <2>2 DEF InWindow
  <2>4. History(<<>>, 0, 0, 0, 0, limit)
    BY <2>2 DEF History
  <2> QED
    BY <2>1, <2>3, <2>4 DEF ClientInv
<1> QED
  BY <1>1, <1>2 DEF RateInv

LEMMA RateTypeNext == RateTypeOK /\ [RateNext]_ratevars => RateTypeOK'
<1> SUFFICES ASSUME RateTypeOK, [RateNext]_ratevars PROVE RateTypeOK'
  OBVIOUS
<1>1. CASE Tick
  BY <1>1, RateAssumption DEF Tick, RateTypeOK
<1>2. ASSUME NEW ip \in Clients, CheckRateLimit(ip) PROVE RateTypeOK'
  <2>1. Counted(ip) \in [count : Nat, windowStart : 0..MaxTime]
    BY RateAssumption DEF Counted, NewWindow, RateTypeOK
  <2>2. buckets' \in [Clients -> [count : Nat, windowStart : 0..MaxTime]]
    BY <1>2, <2>1 DEF CheckRateLimit, RateTypeOK
  <2>3. Append(passes[ip], now) \in Seq(0..MaxTime)
    BY DEF RateTypeOK
  <2>4. passes' \in [Clients -> Seq(0..MaxTime)]
    BY <1>2, <2>3 DEF CheckRateLimit, RateTypeOK
  <2> QED
    BY <1>2, <2>2, <2>4 DEF CheckRateLimit, RateTypeOK
<1>3. CASE UNCHANGED ratevars
  BY <1>3 DEF ratevars, RateTypeOK
<1> QED
  BY <1>1, <1>2, <1>3 DEF RateNext

(* What the steps below need to know of the client's numbers. *)
LEMMA ClientNumbers ==
  ASSUME RateInv, limit > 0, NEW ip \in Clients
  PROVE  /\ limit \in Nat /\ now \in Nat /\ passes[ip] \in Seq(0..MaxTime) /\ Len(passes[ip]) \in Nat
         /\ buckets[ip].count \in Nat /\ buckets[ip].windowStart \in Nat
         /\ InWindow(ip) \in Nat /\ InWindow(ip) <= limit
         /\ ClientInv(ip)
<1>1. limit \in Nat /\ now \in Nat
  BY RateAssumption DEF RateInv, RateTypeOK
<1>2. passes[ip] \in Seq(0..MaxTime) /\ Len(passes[ip]) \in Nat
  BY DEF RateInv, RateTypeOK
<1>3. buckets[ip].count \in Nat /\ buckets[ip].windowStart \in Nat
  BY RateAssumption DEF RateInv, RateTypeOK
<1>4. InWindow(ip) \in Nat /\ InWindow(ip) <= limit
  BY <1>1, <1>3 DEF InWindow
<1> QED
  BY <1>1, <1>2, <1>3, <1>4 DEF RateInv

(* Time that passes disturbs nothing but lets old windows end. *)
LEMMA TickKeeps ==
  ASSUME RateInv, Tick, NEW ip \in Clients PROVE ClientInv(ip)'
<1>1. limit > 0 /\ limit' = limit /\ buckets' = buckets /\ passes' = passes /\ now' = now + 1
  BY DEF Tick
<1>2. InWindow(ip)' = InWindow(ip)
  BY <1>1 DEF InWindow
<1>3. now \in Nat /\ now + 1 \in Nat /\ now <= now + 1
  BY <1>1, ClientNumbers
<1>4. History(passes[ip], Len(passes[ip]), InWindow(ip), buckets[ip].windowStart, now + 1, limit)
  BY <1>1, <1>3, ClientNumbers, LaterToo DEF ClientInv
<1> QED
  BY <1>1, <1>2, <1>4, ClientNumbers DEF ClientInv

(* The first request after a window's minute opens the next one. *)
LEMMA NewWindowKeeps ==
  ASSUME RateInv, NEW ip \in Clients, CheckRateLimit(ip), limit > 0, WindowOver(ip)
  PROVE  ClientInv(ip)'
<1>1. /\ limit' = limit /\ now' = now
      /\ passes'[ip] = Append(passes[ip], now)
      /\ buckets'[ip] = NewWindow
  BY DEF CheckRateLimit, Counted, UnderLimit, RateInv, RateTypeOK
<1>2. /\ Len(passes'[ip]) = Len(passes[ip]) + 1 /\ passes'[ip][Len(passes[ip]) + 1] = now
      /\ \A i \in 1..Len(passes[ip]) : passes'[ip][i] = passes[ip][i]
  BY <1>1, ClientNumbers
<1>3. InWindow(ip)' = 1 /\ buckets'[ip].windowStart = now /\ buckets'[ip].count = 1
  <2>1. buckets'[ip].windowStart = now /\ buckets'[ip].count = 1
    BY <1>1 DEF NewWindow
  <2> QED
    BY <1>1, <2>1, ClientNumbers DEF InWindow
<1>4. Len(passes[ip]) = 0 \/ buckets[ip].windowStart + Minute <= now
  BY ClientNumbers, RateAssumption DEF WindowOver, Elapsed, ClientInv
<1>5. History(passes'[ip], Len(passes[ip]) + 1, 1, now, now, limit)
  <2>1. 1 <= limit
    BY ClientNumbers
  <2>2. History(passes[ip], Len(passes[ip]), InWindow(ip), buckets[ip].windowStart, now, limit)
    BY ClientNumbers DEF ClientInv
  <2> QED
    BY <1>2, <1>4, <2>1, <2>2, ClientNumbers, WindowOpens
<1> QED
  BY <1>1, <1>2, <1>3, <1>5 DEF ClientInv

(* A request within the window is counted, and passes under the limit. *)
LEMMA SameWindowKeeps ==
  ASSUME RateInv, NEW ip \in Clients, CheckRateLimit(ip), limit > 0, ~WindowOver(ip)
  PROVE  ClientInv(ip)'
<1>1. /\ limit' = limit /\ now' = now
      /\ buckets'[ip].count = buckets[ip].count + 1
      /\ buckets'[ip].windowStart = buckets[ip].windowStart
  BY DEF CheckRateLimit, Counted, RateInv, RateTypeOK
<1>2. buckets'[ip].count # 0
  BY <1>1, ClientNumbers
<1>3. CASE buckets[ip].count < limit
  <2>1. passes'[ip] = Append(passes[ip], now)
    BY <1>3 DEF CheckRateLimit, UnderLimit, RateInv, RateTypeOK
  <2>2. /\ Len(passes'[ip]) = Len(passes[ip]) + 1 /\ passes'[ip][Len(passes[ip]) + 1] = now
        /\ \A i \in 1..Len(passes[ip]) : passes'[ip][i] = passes[ip][i]
    BY <2>1, ClientNumbers
  <2>3. InWindow(ip) < limit /\ InWindow(ip)' = InWindow(ip) + 1
    BY <1>1, <1>3, ClientNumbers DEF InWindow
  <2>4. History(passes'[ip], Len(passes[ip]) + 1, InWindow(ip) + 1, buckets[ip].windowStart, now, limit)
    BY <2>2, <2>3, ClientNumbers, WindowGrows DEF ClientInv
  <2> QED
    BY <1>1, <1>2, <2>2, <2>3, <2>4 DEF ClientInv
<1>4. CASE ~(buckets[ip].count < limit)
  <2>1. passes'[ip] = passes[ip]
    BY <1>4, ClientNumbers DEF CheckRateLimit, UnderLimit, RateInv, RateTypeOK
  <2>2. InWindow(ip) = limit /\ InWindow(ip)' = limit
    BY <1>1, <1>4, ClientNumbers DEF InWindow
  <2> QED
    BY <1>1, <1>2, <2>1, <2>2, ClientNumbers DEF ClientInv
<1> QED
  BY <1>3, <1>4

LEMMA RateInvNext == RateInv /\ [RateNext]_ratevars => RateInv'
<1> SUFFICES ASSUME RateInv, [RateNext]_ratevars PROVE RateInv'
  OBVIOUS
<1>1. RateTypeOK'
  BY RateTypeNext DEF RateInv
<1>2. limit' = limit
  BY DEF RateNext, Tick, CheckRateLimit, ratevars
<1>3. ASSUME limit > 0, NEW ip \in Clients PROVE ClientInv(ip)'
  <2>1. ClientInv(ip)
    BY <1>3 DEF RateInv
  <2>2. CASE Tick
    BY <2>2, TickKeeps
  <2>3. ASSUME NEW other \in Clients, CheckRateLimit(other) PROVE ClientInv(ip)'
    <3>1. CASE other = ip
      BY <1>3, <2>3, <3>1, NewWindowKeeps, SameWindowKeeps
    <3>2. CASE other # ip
      <4>1. buckets'[ip] = buckets[ip] /\ passes'[ip] = passes[ip] /\ now' = now
        BY <2>3, <3>2 DEF CheckRateLimit, RateInv, RateTypeOK
      <4> QED
        BY <1>2, <2>1, <4>1 DEF ClientInv, InWindow
    <3> QED
      BY <3>1, <3>2
  <2>4. CASE UNCHANGED ratevars
    BY <2>1, <2>4 DEF ClientInv, InWindow, ratevars
  <2> QED
    BY <2>2, <2>3, <2>4 DEF RateNext
<1> QED
  BY <1>1, <1>2, <1>3 DEF RateInv

LEMMA RateLimited == RateSpec => []TwiceAtMost
<1>1. RateInv => TwiceAtMost
  <2> SUFFICES ASSUME RateInv, limit > 0, NEW ip \in Clients, NEW i \in 1..(Len(passes[ip]) - 2 * limit)
               PROVE  passes[ip][i + 2 * limit] - passes[ip][i] >= Minute
    BY DEF TwiceAtMost
  <2>1. History(passes[ip], Len(passes[ip]), InWindow(ip), buckets[ip].windowStart, now, limit)
    BY ClientNumbers DEF ClientInv
  <2>2. i \in 1..Len(passes[ip]) /\ i + 2 * limit \in 1..Len(passes[ip])
    BY ClientNumbers
  <2>3. passes[ip][i] \in Nat /\ passes[ip][i + 2 * limit] \in Nat /\ Minute \in Nat
    BY <2>1, <2>2, RateAssumption DEF History
  <2>4. passes[ip][i] + Minute <= passes[ip][i + 2 * limit]
    BY <2>1 DEF History
  <2> QED
    BY <2>3, <2>4
<1> QED
  BY <1>1, RateInvInit, RateInvNext, PTL DEF RateSpec

(* The gate counts through checkRateLimit only, and so keeps its bound: no    *)
(* stretch shorter than a minute lets more than twice the limit of requests   *)
(* and CONNECTs of one client through.                                        *)
THEOREM TwiceAtMostAlways == Spec => []TwiceAtMost
<1>1. Init => RateInit
  BY DEF Init
<1>2. [Next]_vars => [RateNext]_ratevars
  BY DEF Next, Clock, Guest, HandleConnect, HandleRequest, TunnelCloses, HandleMitmRequest, vars, RateNext
<1> QED
  BY <1>1, <1>2, RateLimited, PTL DEF Spec, RateSpec
-----------------------------------------------------------------------------
(* Hosts and patterns. A name that has been normalised twice is bare: neither *)
(* a dot nor a port is left, and a pattern matches it if it names it.         *)
Hosts == [labels : Seq(Labels), dot : BOOLEAN, port : BOOLEAN]
Bare(h) == ~h.dot /\ ~h.port

LEMMA Normalized ==
  ASSUME NEW h \in Hosts
  PROVE  /\ normalizeHost(h) \in Hosts /\ normalizeHost(h).labels = h.labels
         /\ Bare(normalizeHost(normalizeHost(h)))
         /\ ~h.port => Bare(normalizeHost(h))
  BY DEF Hosts, Bare, normalizeHost

LEMMA SuffixOfAll ==
  ASSUME NEW t \in Seq(Labels)
  PROVE  IsSuffix(<<>>, t) /\ IsSuffix(t, t)
<1>1. Len(t) \in Nat /\ Len(Reverse(t)) = Len(t) /\ Reverse(<<>>) = <<>>
  BY DEF Reverse
<1>2. SubSeq(Reverse(t), 1, 0) = <<>> /\ SubSeq(<<>>, 1, 0) = <<>>
  OBVIOUS
<1> QED
  BY <1>1, <1>2 DEF IsSuffix, IsPrefix

LEMMA MatchesNames ==
  ASSUME NEW h \in Hosts, NEW p
  PROVE  /\ hostMatchesPattern(h, p) => Names(p, h.labels)
         /\ Bare(h) /\ Names(p, h.labels) => hostMatchesPattern(h, p)
<1>1. h.labels \in Seq(Labels)
  BY DEF Hosts
<1>2. h = [labels |-> p.labels, dot |-> FALSE, port |-> FALSE] => h.labels = p.labels
  OBVIOUS
<1>3. Bare(h) /\ h.labels = p.labels => h = [labels |-> p.labels, dot |-> FALSE, port |-> FALSE]
  BY DEF Hosts, Bare
<1> QED
  BY <1>1, <1>2, <1>3, SuffixOfAll DEF hostMatchesPattern, Names, Bare

LEMMA WithinNames ==
  ASSUME NEW h \in Hosts, NEW patterns
  PROVE  /\ Within(h, patterns) => \E p \in patterns : Names(p, h.labels)
         /\ Bare(h) /\ (\E p \in patterns : Names(p, h.labels)) => Within(h, patterns)
  BY MatchesNames DEF Within

LEMMA AllowedIsNotForbidden ==
  ASSUME NEW h \in Hosts
  PROVE  PolicyAllows(normalizeHost(h)) => ~Forbidden(h.labels)
<1> DEFINE n == normalizeHost(normalizeHost(h))
<1>1. n \in Hosts /\ n.labels = h.labels /\ Bare(n)
  BY Normalized
<1>2. \A patterns : Within(n, patterns) <=> \E p \in patterns : Names(p, h.labels)
  BY <1>1, WithinNames
<1>3. hostAllowed(normalizeHost(h), config.policy, config.allowHosts, config.denyHosts) =>
        \/ config.policy = "none"
        \/ /\ ~Within(n, config.denyHosts)
           /\ config.policy = "denylist" \/ Within(n, config.allowHosts)
  BY DEF hostAllowed, Renormalized
<1> QED
  BY <1>2, <1>3 DEF PolicyAllows, Forbidden

LEMMA AuthorizedIsHome ==
  ASSUME NEW h \in Hosts, NEW s, Authorized(s, h)
  PROVE  \E p \in config.secrets[s] : Names(p, h.labels)
<1>1. normalizeHost(h) \in Hosts /\ normalizeHost(h).labels = h.labels
  BY Normalized
<1>2. Within(normalizeHost(h), config.secrets[s])
  BY DEF Authorized, SecretOfHost, hostAllowed, Renormalized
<1> QED
  BY <1>1, <1>2, WithinNames
-----------------------------------------------------------------------------
(* Requests inside an intercepted tunnel are not checked: what keeps them is  *)
(* that the target of every tunnel was.                                       *)
Cleared(h, p) == ~Forbidden(h.labels) /\ PortAllowed(p)

TargetsCleared ==
  /\ DOMAIN mitmTargetMap = Tunnels
  /\ \A t \in Tunnels : mitmTargetMap[t] # NoTarget =>
       mitmTargetMap[t].host \in Hosts /\ Cleared(mitmTargetMap[t].host, mitmTargetMap[t].port)

GateInv == TargetsCleared /\ PolicyHolds /\ SecretsGoHome /\ SecretHostsIntercepted

LEMMA GateInvInit == Init => GateInv
  BY DEF Init, GateInv, TargetsCleared, PolicyHolds, SecretsGoHome, SecretHostsIntercepted

LEMMA NothingSent ==
  ASSUME TargetsCleared, UNCHANGED config, sent' = {}, UNCHANGED mitmTargetMap
  PROVE  GateInv'
  BY DEF GateInv, TargetsCleared, Cleared, Forbidden, PortAllowed, PolicyHolds, SecretsGoHome, SecretHostsIntercepted

LEMMA RewrittenKeeps ==
  ASSUME TargetsCleared, UNCHANGED <<config, mitmTargetMap>>, NEW via \in {"http", "mitm"},
         NEW h \in Hosts, NEW p, NEW marks \in SUBSET Secrets, Cleared(h, p), SendRewritten(via, h, p, marks)
  PROVE  GateInv'
<1>1. CASE sent' = {}
  BY <1>1, NothingSent
<1>2. CASE sent' # {}
  <2>1. /\ sent' = {[via |-> via, host |-> h, port |-> p, values |-> marks, placeholders |-> {}]}
        /\ \A s \in marks : Authorized(s, h)
    BY <1>2 DEF SendRewritten, Refuse, Message
  <2>2. \A s \in marks : \E q \in config.secrets[s] : Names(q, h.labels)
    BY <2>1, AuthorizedIsHome
  <2>3. SecretsGoHome'
    BY <2>1, <2>2 DEF SecretsGoHome
  <2>4. PolicyHolds' /\ SecretHostsIntercepted'
    BY <2>1 DEF PolicyHolds, SecretHostsIntercepted, Cleared, Forbidden, PortAllowed
  <2>5. TargetsCleared'
    BY DEF TargetsCleared, Cleared, Forbidden, PortAllowed
  <2> QED
    BY <2>3, <2>4, <2>5 DEF GateInv
<1> QED
  BY <1>1, <1>2

LEMMA RequestKeeps ==
  ASSUME GateInv, NEW ip \in Clients, NEW host \in Spellings, NEW p \in Ports, NEW useTls \in BOOLEAN,
         NEW marks \in SUBSET Secrets, HandleRequest(ip, host, p, useTls, marks)
  PROVE  GateInv'
<1> DEFINE h == normalizeHost(host)
<1>1. host \in Hosts /\ h \in Hosts /\ h.labels = host.labels
  BY GateAssumption, Normalized DEF Hosts
<1>2. UNCHANGED <<config, mitmTargetMap>> /\ TargetsCleared
  BY DEF HandleRequest, GateInv
<1>3. CASE sent' = {}
  BY <1>2, <1>3, NothingSent
<1>4. CASE sent' # {}
  <2>1. PolicyAllows(h) /\ PortAllowed(p)
    BY <1>4 DEF HandleRequest, Refuse
  <2>2. Cleared(h, p)
    BY <1>1, <2>1, AllowedIsNotForbidden DEF Cleared
  <2>3. CASE useTls
    <3>1. sent' = {[via |-> "https", host |-> h, port |-> p, values |-> {}, placeholders |-> marks]}
      BY <1>4, <2>3 DEF HandleRequest, Refuse, Message
    <3> QED
      BY <1>2, <2>2, <3>1 DEF GateInv, TargetsCleared, PolicyHolds, SecretsGoHome, SecretHostsIntercepted,
                             Cleared, Forbidden, PortAllowed
  <2>4. CASE ~useTls
    <3>1. SendRewritten("http", h, p, marks)
      BY <1>4, <2>4 DEF HandleRequest, Refuse
    <3> QED
      BY <1>1, <1>2, <2>2, <3>1, RewrittenKeeps
  <2> QED
    BY <2>3, <2>4
<1> QED
  BY <1>3, <1>4

LEMMA ConnectKeeps ==
  ASSUME GateInv, NEW ip \in Clients, NEW host \in Spellings, NEW p \in Ports, HandleConnect(ip, host, p)
  PROVE  GateInv'
<1> DEFINE h == normalizeHost(host)
           n == normalizeHost(h)
<1>1. /\ host \in Hosts /\ h \in Hosts /\ h.labels = host.labels
      /\ n \in Hosts /\ n.labels = h.labels /\ Bare(n)
  BY GateAssumption, Normalized DEF Hosts
<1>2. UNCHANGED config /\ TargetsCleared
  BY DEF HandleConnect, GateInv
<1>3. CASE sent' = {} /\ UNCHANGED mitmTargetMap
  BY <1>2, <1>3, NothingSent
<1>4. CASE ~(sent' = {} /\ UNCHANGED mitmTargetMap)
  <2>1. PolicyAllows(h) /\ PortAllowed(p)
    BY <1>4 DEF HandleConnect, Refuse
  <2>2. Cleared(h, p)
    BY <1>1, <2>1, AllowedIsNotForbidden DEF Cleared
  <2>3. CASE Intercepts(h)
    <3>1. sent' = {}
      BY <1>4, <2>3 DEF HandleConnect, Refuse
    <3>2. PICK t \in Tunnels : mitmTargetMap' = [mitmTargetMap EXCEPT ![t] = [host |-> h, port |-> p]]
      BY <1>4, <2>3 DEF HandleConnect, Refuse
    <3>3. TargetsCleared'
      BY <1>1, <1>2, <2>2, <3>2 DEF TargetsCleared, Cleared, Forbidden, PortAllowed
    <3> QED
      BY <3>1, <3>3 DEF GateInv, PolicyHolds, SecretsGoHome, SecretHostsIntercepted
  <2>4. CASE ~Intercepts(h)
    <3>1. /\ sent' = {[via |-> "tunnel", host |-> h, port |-> p, values |-> {}, placeholders |-> {}]}
          /\ UNCHANGED mitmTargetMap
      BY <1>4, <2>4 DEF HandleConnect, Refuse, Message
    <3>2. config.enableMitm => ~\E s \in Secrets : \E q \in config.secrets[s] : Names(q, h.labels)
      BY <1>1, <2>4, WithinNames DEF Intercepts, isSecretHost
    <3>3. SecretHostsIntercepted'
      BY <1>2, <3>1, <3>2 DEF SecretHostsIntercepted
    <3>4. PolicyHolds' /\ SecretsGoHome' /\ TargetsCleared'
      BY <1>2, <2>2, <3>1 DEF TargetsCleared, PolicyHolds, SecretsGoHome, Cleared, Forbidden, PortAllowed
    <3> QED
      BY <3>3, <3>4 DEF GateInv
  <2> QED
    BY <2>3, <2>4
<1> QED
  BY <1>3, <1>4

LEMMA GateInvNext == GateInv /\ [Next]_vars => GateInv'
<1> SUFFICES ASSUME GateInv, [Next]_vars PROVE GateInv'
  OBVIOUS
<1>1. CASE Clock
  BY <1>1, NothingSent DEF Clock, Refuse, GateInv
<1>2. ASSUME NEW ip \in Clients, NEW h \in Spellings, NEW p \in Ports, HandleConnect(ip, h, p)
      PROVE  GateInv'
  BY <1>2, ConnectKeeps
<1>3. ASSUME NEW ip \in Clients, NEW h \in Spellings, NEW p \in Ports, NEW useTls \in BOOLEAN,
             NEW marks \in SUBSET Secrets, HandleRequest(ip, h, p, useTls, marks)
      PROVE  GateInv'
  BY <1>3, RequestKeeps
<1>4. ASSUME NEW t \in Tunnels, TunnelCloses(t) PROVE GateInv'
  <2>1. TargetsCleared'
    BY <1>4 DEF TunnelCloses, GateInv, TargetsCleared, Cleared, Forbidden, PortAllowed
  <2> QED
    BY <1>4, <2>1 DEF TunnelCloses, Refuse, GateInv, PolicyHolds, SecretsGoHome, SecretHostsIntercepted
<1>5. ASSUME NEW t \in Tunnels, NEW marks \in SUBSET Secrets, HandleMitmRequest(t, marks) PROVE GateInv'
  BY <1>5, RewrittenKeeps DEF HandleMitmRequest, GateInv, TargetsCleared
<1>6. CASE UNCHANGED vars
  BY <1>6 DEF vars, gatevars, GateInv, TargetsCleared, PolicyHolds, SecretsGoHome, SecretHostsIntercepted,
              Cleared, Forbidden, PortAllowed
<1> QED
  BY <1>1, <1>2, <1>3, <1>4, <1>5, <1>6 DEF Next, Guest

LEMMA GateInvariant == Spec => []GateInv
  BY GateInvInit, GateInvNext, PTL DEF Spec

(* Nothing goes to a host or port the policy forbids, for every policy, every *)
(* pattern and every spelling of a host.                                      *)
THEOREM PolicyAlwaysHolds == Spec => []PolicyHolds
  BY GateInvariant, PTL DEF GateInv

(* A secret goes to its own hosts only, for any secrets and patterns.         *)
THEOREM SecretsStayHome == Spec => []SecretsGoHome
  BY GateInvariant, PTL DEF GateInv

(* A host with a secret is never tunnelled blindly while interception is on.  *)
THEOREM SecretHostsAlwaysIntercepted == Spec => []SecretHostsIntercepted
  BY GateInvariant, PTL DEF GateInv
=============================================================================

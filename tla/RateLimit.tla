------------------------------ MODULE RateLimit ------------------------------
(* EgressProxy.checkRateLimit (egress-proxy.ts): requests and CONNECTs of one *)
(* client are counted in windows that start with the first request after the *)
(* last window's minute; those over the limit are counted and refused.       *)
EXTENDS Integers, Sequences

CONSTANTS
  Clients,   \* remote addresses
  Limits,    \* the values of config.rateLimitPerMin; 0 is no limit
  Minute,    \* 60000 ms, in ticks
  MaxTime,   \* bound: the clock stops here
  MaxCount   \* bound: requests counted in one window

ASSUME RateAssumption ==
  Limits \subseteq Nat /\ Minute \in Nat \ {0} /\ MaxTime \in Nat /\ MaxCount \in Nat

VARIABLES
  limit,     \* config.rateLimitPerMin
  now,       \* Date.now()
  buckets,   \* rateBuckets; a count of 0 is a client without a bucket
  passes     \* history: when the requests of each client passed

ratevars == <<limit, now, buckets, passes>>

RateTypeOK ==
  /\ limit \in Limits
  /\ now \in 0..MaxTime
  /\ buckets \in [Clients -> [count : Nat, windowStart : 0..MaxTime]]
  /\ passes \in [Clients -> Seq(0..MaxTime)]

RateInit ==
  /\ limit \in Limits /\ now = 0
  /\ buckets = [ip \in Clients |-> [count |-> 0, windowStart |-> 0]]
  /\ passes = [ip \in Clients |-> <<>>]

Elapsed(ip) == now - buckets[ip].windowStart >= Minute
WindowOver(ip) == buckets[ip].count = 0 \/ Elapsed(ip)

CountFromZero == [count |-> 0, windowStart |-> now]
NewWindow == [count |-> 1, windowStart |-> now]

Counted(ip) == IF WindowOver(ip) THEN NewWindow ELSE [buckets[ip] EXCEPT !.count = @ + 1]

UnderLimit(ip) == limit = 0 \/ WindowOver(ip) \/ buckets[ip].count < limit

CheckRateLimit(ip) ==
  /\ buckets[ip].count < MaxCount \/ WindowOver(ip)
  /\ UNCHANGED <<limit, now>>
  /\ IF limit = 0
     THEN UNCHANGED <<buckets, passes>>
     ELSE /\ buckets' = [buckets EXCEPT ![ip] = Counted(ip)]
          /\ passes' = IF UnderLimit(ip) THEN [passes EXCEPT ![ip] = Append(@, now)] ELSE passes

Tick ==
  /\ limit > 0 /\ now < MaxTime
  /\ now' = now + 1
  /\ UNCHANGED <<limit, buckets, passes>>

RateNext == Tick \/ \E ip \in Clients : CheckRateLimit(ip)
RateSpec == RateInit /\ [][RateNext]_ratevars
-----------------------------------------------------------------------------
(* The windows are not sliding ones, but however requests fall around their   *)
(* boundaries, no stretch shorter than a minute sees more than twice the      *)
(* limit of one client (egress-proxy.ts:492).                                 *)
TwiceAtMost ==
  limit > 0 => \A ip \in Clients : \A i \in 1..(Len(passes[ip]) - 2 * limit) :
    passes[ip][i + 2 * limit] - passes[ip][i] >= Minute
=============================================================================

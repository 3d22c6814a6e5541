------------------------------ MODULE CertCache ------------------------------
(* src/sandbox/src/main/egress-proxy.ts: ensureMitmCa, ensureLeafCertificate  *)
(* and the read of the pair in handleMitmConnect, over a directory that       *)
(* outlives the process. Keys are made asynchronously, any number at a time;  *)
(* the files are written, and read back, by calls that block the process, so  *)
(* that only a crash comes between two writes. writeFileSync empties a file   *)
(* before it fills it. One process uses the directory at a time.              *)
EXTENDS Naturals, Sequences, FiniteSets

CONSTANTS
  Hosts,      \* the secret hosts the guest connects to
  MaxKeys,    \* bound: key pairs made
  MaxCrashes  \* bound: crashes

CA == "ca"

ASSUME CertAssumption == MaxKeys \in Nat /\ MaxCrashes \in Nat /\ CA \notin Hosts

Owners == Hosts \cup {CA}
Parts == {"cert", "key"}
Absent == [id |-> 0, signer |-> 0]
Torn == [id |-> 0, signer |-> 1]
Contents == [id : 0..MaxKeys, signer : 0..MaxKeys]

VARIABLES
  process,  \* "down", "starting" (the proxy, up to the end of ensureMitmCa) or "running"
  disk,     \* [Owners -> [Parts -> contents]]
  pen,      \* the writes the process is blocked in: [owner, part, data]
  making,   \* key pairs being made: [owner, id, signer]
  made,     \* counts them
  guestCa,  \* the authority that startVm copied for the guest
  served,   \* [Hosts -> the pair last given to a TLSSocket]
  crashes,
  emptied,  \* history: owners whose key file was empty, about to be filled, at a crash
  hurt      \* history: owners whose pair was being written over at a crash

vars == <<process, disk, pen, making, made, guestCa, served, crashes, emptied, hurt>>

TypeOK ==
  /\ process \in {"down", "starting", "running"}
  /\ disk \in [Owners -> [Parts -> Contents]]
  /\ pen \in Seq([owner : Owners, part : Parts, data : Contents])
  /\ making \subseteq [owner : Owners, id : 1..MaxKeys, signer : 1..MaxKeys]
  /\ made \in 0..MaxKeys /\ guestCa \in Contents
  /\ served \in [Hosts -> [Parts -> Contents]]
  /\ crashes \in 0..MaxCrashes /\ emptied \subseteq Owners /\ hurt \subseteq Owners

Nothing == [p \in Parts |-> Absent]

Init ==
  /\ process = "down" /\ pen = <<>> /\ making = {} /\ made = 0
  /\ disk = [o \in Owners |-> Nothing]
  /\ guestCa = Absent /\ served = [h \in Hosts |-> Nothing]
  /\ crashes = 0 /\ emptied = {} /\ hurt = {}

Whole(data) == data.id > 0
Busy == pen # <<>>

CertExists(o) == disk[o]["cert"] # Absent
BothExist(o) == CertExists(o) /\ disk[o]["key"] # Absent
CachedLeaf(h) == BothExist(h)
NeverCached == FALSE
CachedCa == BothExist(CA)
-----------------------------------------------------------------------------
Make(o, signer) ==
  /\ made < MaxKeys
  /\ made' = made + 1
  /\ making' = making \cup {[owner |-> o, id |-> made + 1, signer |-> signer]}

(* Serve(h): tls.TLSSocket with what readFileSync finds. *)
Serve(h, files) == served' = [served EXCEPT ![h] = files[h]]

(* start() has the authority, and startVm copies its certificate. *)
Started(files) == process' = "running" /\ guestCa' = files[CA]["cert"]

(* EgressProxy.start with interception on. *)
Start ==
  /\ process = "down"
  /\ IF CachedCa
     THEN Started(disk) /\ UNCHANGED <<made, making>>
     ELSE process' = "starting" /\ Make(CA, made + 1) /\ UNCHANGED guestCa
  /\ UNCHANGED <<disk, pen, served, crashes, emptied, hurt>>

(* handleMitmConnect up to the await of the leaf: the authority is read for a *)
(* new one, which fails if its key is torn.                                   *)
Connect(h) ==
  /\ process = "running" /\ ~Busy
  /\ IF CachedLeaf(h)
     THEN Serve(h, disk) /\ UNCHANGED <<made, making>>
     ELSE /\ \A p \in Parts : Whole(disk[CA][p])
          /\ Make(h, disk[CA]["key"].id)
          /\ UNCHANGED served
  /\ UNCHANGED <<process, disk, pen, guestCa, crashes, emptied, hurt>>

(* What a finished generation writes: the certificate, then the key. *)
WriteFile(o, part, data) ==
  <<[owner |-> o, part |-> part, data |-> Torn], [owner |-> o, part |-> part, data |-> data]>>
WritesOf(k) ==
  LET data == [id |-> k.id, signer |-> k.signer] IN
  WriteFile(k.owner, "cert", data) \o WriteFile(k.owner, "key", data)

Generated(k) ==
  /\ k \in making /\ ~Busy
  /\ making' = making \ {k}
  /\ pen' = pen \o WritesOf(k)
  /\ UNCHANGED <<process, disk, made, guestCa, served, crashes, emptied, hurt>>

(* One step of a write; behind the last one the caller goes on. *)
Write ==
  /\ pen # <<>>
  /\ LET w == Head(pen)
         files == [disk EXCEPT ![w.owner][w.part] = w.data] IN
     /\ disk' = files /\ pen' = Tail(pen)
     /\ IF Len(pen) > 1 THEN UNCHANGED <<process, guestCa, served>>
        ELSE IF w.owner = CA THEN Started(files) /\ UNCHANGED served
        ELSE Serve(w.owner, files) /\ UNCHANGED <<process, guestCa>>
  /\ UNCHANGED <<making, made, crashes, emptied, hurt>>

WritingAt(o) == \E i \in DOMAIN pen : pen[i].owner = o

(* Of a pair's four writes the last one is due, or the first one or two are   *)
(* done to a pair that was complete: a second generation for the host.        *)
KeyEmptied(o) == WritingAt(o) /\ Len(pen) = 1
WrittenOver(o) == WritingAt(o) /\ Len(pen) \in {2, 3} /\ BothExist(o)

(* The process ends at any point, between the writes or not. *)
Crash ==
  /\ process # "down" /\ crashes < MaxCrashes
  /\ crashes' = crashes + 1
  /\ process' = "down" /\ pen' = <<>> /\ making' = {}
  /\ guestCa' = Absent /\ served' = [h \in Hosts |-> Nothing]
  /\ emptied' = emptied \cup {o \in Owners : KeyEmptied(o)}
  /\ hurt' = hurt \cup {o \in Owners : WrittenOver(o)}
  /\ UNCHANGED <<disk, made>>

Next ==
  \/ Start \/ Write \/ Crash
  \/ \E h \in Hosts : Connect(h)
  \/ \E k \in making : Generated(k)

Spec == Init /\ [][Next]_vars
-----------------------------------------------------------------------------
(* A TLSSocket gets a whole certificate and the key that belongs to it, though *)
(* two generations for a host may be under way at once and crashes leave any  *)
(* prefix of the writes behind. The code asks no more of a pair than that it  *)
(* is there (egress-proxy.ts:302), which has two exceptions: the key is empty *)
(* if a crash came after its file was emptied (line 329), also in the first   *)
(* generation for the host; and nothing is claimed of a complete pair that    *)
(* was being written over.                                                    *)
PairsMatch ==
  \A h \in Hosts \ hurt : served[h] # Nothing =>
    /\ Whole(served[h]["cert"])
    /\ served[h]["key"] = served[h]["cert"] \/ (h \in emptied /\ served[h]["key"] = Torn)

(* ensureLeafCertificate returns a certificate and its key, generated or      *)
(* loaded (egress-proxy.ts:286), whatever the last process left behind. It    *)
(* does not hold: README, section 6.                                          *)
LeafIsWhole ==
  \A h \in Hosts : served[h] # Nothing =>
    Whole(served[h]["cert"]) /\ served[h]["key"] = served[h]["cert"]

(* What the guest is served is signed by the authority it was given at boot,  *)
(* also from a cache that earlier processes filled (egress-proxy.ts:250).     *)
SignedForTheGuest ==
  \A h \in Hosts : Whole(served[h]["cert"]) => guestCa.id = served[h]["cert"].signer
=============================================================================

--------------------------- MODULE CertCache_proofs ---------------------------
(* Proofs about CertCache, for any hosts, any number of key pairs and crashes *)
(* at any point. The argument has two parts. A file pair that is not half     *)
(* written is sound, if both files are there and no crash hurt it. And the    *)
(* authority is written only while its key is missing: once its key is whole  *)
(* it never changes, and every leaf there is was signed with it.              *)
EXTENDS CertCache, SequenceTheorems, TLAPS

Pairs == [owner : Owners, id : 1..MaxKeys, signer : 1..MaxKeys]
Content(k) == [id |-> k.id, signer |-> k.signer]
Entry(k, part, data) == [owner |-> k.owner, part |-> part, data |-> data]

(* The writes of a pair from the n-th on. *)
Rest(k, n) ==
  CASE n = 1 -> <<Entry(k, "cert", Torn), Entry(k, "cert", Content(k)), Entry(k, "key", Torn), Entry(k, "key", Content(k))>>
    [] n = 2 -> <<Entry(k, "cert", Content(k)), Entry(k, "key", Torn), Entry(k, "key", Content(k))>>
    [] n = 3 -> <<Entry(k, "key", Torn), Entry(k, "key", Content(k))>>
    [] n = 4 -> <<Entry(k, "key", Content(k))>>

(* Some of a pair's four writes are done, and not all. *)
HalfWritten(o) == WritingAt(o) /\ Len(pen) < 4
CertOf(o) == disk[o]["cert"]
KeyOf(o) == disk[o]["key"]
Authority == KeyOf(CA)

(* How far the writing of pair k has come before its n-th write. *)
Writing(k, n) ==
  /\ pen = Rest(k, n)
  /\ n = 2 => CertOf(k.owner) = Torn
  /\ n \in {3, 4} => CertOf(k.owner) = Content(k)
  /\ n = 4 => KeyOf(k.owner) = Torn
  /\ k.owner = CA => process = "starting" /\ making = {} /\ (n < 4 => Authority = Absent) /\ ~Whole(Authority)
  /\ k.owner # CA => process = "running" /\ Whole(Authority) /\ k.signer = Authority.id

PenInv == pen = <<>> \/ \E k \in Pairs, n \in 1..4 : Writing(k, n)

(* What is claimed of a pair that nobody is writing at. *)
Sound(o) == Whole(CertOf(o)) /\ (KeyOf(o) = CertOf(o) \/ (o \in emptied /\ KeyOf(o) = Torn))

PairInv ==
  /\ \A o \in Owners : KeyOf(o) # Absent => CertOf(o) # Absent
  /\ \A o \in Owners \ hurt : ~HalfWritten(o) /\ BothExist(o) => Sound(o)

AuthorityInv ==
  /\ Whole(Authority) => CertOf(CA) = Authority
  /\ \A h \in Hosts : Whole(CertOf(h)) => Whole(Authority) /\ CertOf(h).signer = Authority.id
  /\ \A k \in making : k.owner # CA => Whole(Authority) /\ k.signer = Authority.id

ProcessInv ==
  /\ process = "down" => pen = <<>> /\ making = {}
  /\ process = "starting" => Authority = Absent \/ pen # <<>>
  /\ process = "starting" => ~Whole(Authority) /\ \A k \in making : k.owner = CA /\ making = {k}
  /\ process = "running" => guestCa = CertOf(CA) /\ \A k \in making : k.owner # CA
  /\ process # "running" => \A h \in Hosts : served[h] = Nothing

IInv == TypeOK /\ PenInv /\ PairInv /\ AuthorityInv /\ ProcessInv /\ PairsMatch /\ SignedForTheGuest
-----------------------------------------------------------------------------
(* The writes of a pair, one by one. *)
At(k, n) == Entry(k, IF n \in {1, 2} THEN "cert" ELSE "key", IF n \in {1, 3} THEN Torn ELSE Content(k))

LEMMA RestSteps ==
  ASSUME NEW k, NEW n \in 1..4
  PROVE  /\ Rest(k, n) # <<>> /\ Head(Rest(k, n)) = At(k, n) /\ Len(Rest(k, n)) = 5 - n
         /\ n # 4 => Tail(Rest(k, n)) = Rest(k, n + 1)
         /\ n = 4 => Tail(Rest(k, n)) = <<>>
         /\ (\E i \in DOMAIN Rest(k, n) : TRUE) /\ \A i \in DOMAIN Rest(k, n) : Rest(k, n)[i].owner = k.owner
<1>1. CASE n = 1
  BY <1>1 DEF Rest, At, Entry
<1>2. CASE n = 2
  BY <1>2 DEF Rest, At, Entry
<1>3. CASE n = 3
  BY <1>3 DEF Rest, At, Entry
<1>4. CASE n = 4
  BY <1>4 DEF Rest, At, Entry
<1> QED
  BY <1>1, <1>2, <1>3, <1>4

LEMMA TwoAndTwo ==
  ASSUME NEW a, NEW b, NEW c, NEW d
  PROVE  <<a, b>> \o <<c, d>> = <<a, b, c, d>>
<1> DEFINE S == {a, b, c, d}
           s == <<a, b>>
           t == <<c, d>>
<1>1. s \in Seq(S) /\ t \in Seq(S) /\ <<a, b, c, d>> \in Seq(S)
  OBVIOUS
<1>2. Len(s) = 2 /\ Len(t) = 2 /\ s[1] = a /\ s[2] = b /\ t[1] = c /\ t[2] = d
  OBVIOUS
<1> HIDE DEF S, s, t
<1>3. /\ s \o t \in Seq(S) /\ Len(s \o t) = 4
      /\ (s \o t)[1] = a /\ (s \o t)[2] = b /\ (s \o t)[3] = c /\ (s \o t)[4] = d
  <2>1. /\ s \o t \in Seq(S) /\ Len(s \o t) = Len(s) + Len(t)
        /\ \A i \in 1..Len(s) + Len(t) : (s \o t)[i] = IF i <= Len(s) THEN s[i] ELSE t[i - Len(s)]
    BY <1>1, ConcatProperties, Zenon
  <2>2. /\ (s \o t)[1] = s[1] /\ (s \o t)[2] = s[2]
        /\ (s \o t)[3] = t[1] /\ (s \o t)[4] = t[2]
    BY <1>2, <2>1
  <2> QED
    BY <1>2, <2>1, <2>2
<1>4. \A i \in 1..4 : (s \o t)[i] = <<a, b, c, d>>[i]
  <2>1. \A i \in 1..4 : i = 1 \/ i = 2 \/ i = 3 \/ i = 4
    OBVIOUS
  <2> QED
    BY <1>3, <2>1
<1>5. s \o t = <<a, b, c, d>>
  BY <1>1, <1>3, <1>4, SeqEqual
<1> QED
  BY <1>5 DEF s, t

LEMMA WritesAreRest == ASSUME NEW k PROVE WritesOf(k) = Rest(k, 1)
<1>1. WritesOf(k) = <<Entry(k, "cert", Torn), Entry(k, "cert", Content(k))>>
                     \o <<Entry(k, "key", Torn), Entry(k, "key", Content(k))>>
  BY DEF WritesOf, WriteFile, Entry, Content
<1> QED
  BY <1>1, TwoAndTwo DEF Rest

LEMMA PairTyped ==
  ASSUME NEW k \in Pairs
  PROVE  /\ k.owner \in Owners /\ Content(k) \in Contents /\ Torn \in Contents /\ Whole(Content(k))
         /\ ~Whole(Torn) /\ ~Whole(Absent) /\ Torn # Absent /\ Content(k) # Absent
         /\ Content(k).id = k.id /\ Content(k).signer = k.signer
  BY CertAssumption DEF Pairs, Contents, Content, Torn, Absent, Whole

LEMMA RestTyped ==
  ASSUME NEW k \in Pairs, NEW n \in 1..4
  PROVE  Rest(k, n) \in Seq([owner : Owners, part : Parts, data : Contents])
<1> DEFINE Entries == [owner : Owners, part : Parts, data : Contents]
<1>1. /\ Entry(k, "cert", Torn) \in Entries /\ Entry(k, "cert", Content(k)) \in Entries
      /\ Entry(k, "key", Torn) \in Entries /\ Entry(k, "key", Content(k)) \in Entries
  BY PairTyped DEF Entry, Parts
<1> HIDE DEF Entries
<1>2. n = 1 \/ n = 2 \/ n = 3 \/ n = 4
  OBVIOUS
<1>3. Rest(k, n) \in Seq(Entries)
  BY <1>1, <1>2 DEF Rest
<1> QED
  BY <1>3 DEF Entries

LEMMA AtWork ==
  ASSUME NEW k, NEW n \in 1..4, pen = Rest(k, n)
  PROVE  pen # <<>> /\ \A o : HalfWritten(o) <=> n # 1 /\ o = k.owner
<1>1. /\ pen # <<>> /\ (\E i \in DOMAIN pen : TRUE) /\ \A i \in DOMAIN pen : pen[i].owner = k.owner
      /\ Len(pen) = 5 - n
  BY RestSteps
<1>2. Len(pen) < 4 <=> n # 1
  BY <1>1
<1> QED
  BY <1>1, <1>2 DEF HalfWritten, WritingAt

LEMMA IdleWritesNowhere == pen = <<>> => \A o : ~HalfWritten(o)
  BY DEF HalfWritten, WritingAt

LEMMA IInvInit == Init => IInv
<1> SUFFICES ASSUME Init PROVE IInv
  OBVIOUS
<1>1. Absent \in Contents /\ ~Whole(Absent) /\ Nothing \in [Parts -> Contents] /\ Nothing["cert"] = Absent /\ Nothing["key"] = Absent
  BY CertAssumption DEF Absent, Contents, Whole, Nothing, Parts
<1>2. TypeOK
  BY <1>1, CertAssumption DEF Init, TypeOK
<1>3. \A o \in Owners : CertOf(o) = Absent /\ KeyOf(o) = Absent
  BY <1>1 DEF Init, CertOf, KeyOf
<1>4. PenInv /\ PairInv
  BY <1>3 DEF Init, PenInv, PairInv, BothExist, CertExists, CertOf
<1>5. AuthorityInv /\ ProcessInv
  BY <1>1, <1>3 DEF Init, AuthorityInv, ProcessInv, Authority, Owners
<1>6. PairsMatch /\ SignedForTheGuest
  BY <1>1 DEF Init, PairsMatch, SignedForTheGuest
<1> QED
  BY <1>2, <1>4, <1>5, <1>6 DEF IInv
-----------------------------------------------------------------------------
(* One write, and what follows the last one. *)
LEMMA WriteEffect ==
  ASSUME TypeOK, NEW k \in Pairs, NEW n \in 1..4, pen = Rest(k, n), Write
  PROVE  /\ \A o \in Owners \ {k.owner} : disk'[o] = disk[o]
         /\ n = 1 => CertOf(k.owner)' = Torn /\ KeyOf(k.owner)' = KeyOf(k.owner)
         /\ n = 2 => CertOf(k.owner)' = Content(k) /\ KeyOf(k.owner)' = KeyOf(k.owner)
         /\ n = 3 => KeyOf(k.owner)' = Torn /\ CertOf(k.owner)' = CertOf(k.owner)
         /\ n = 4 => KeyOf(k.owner)' = Content(k) /\ CertOf(k.owner)' = CertOf(k.owner)
         /\ disk' \in [Owners -> [Parts -> Contents]]
         /\ n # 4 => pen' = Rest(k, n + 1) /\ UNCHANGED <<process, guestCa, served>>
         /\ n = 4 => pen' = <<>>
         /\ n = 4 /\ k.owner = CA => process' = "running" /\ guestCa' = CertOf(CA)' /\ served' = served
         /\ n = 4 /\ k.owner # CA =>
              served' = [served EXCEPT ![k.owner] = disk'[k.owner]] /\ UNCHANGED <<process, guestCa>>
         /\ UNCHANGED <<making, made, crashes, emptied, hurt>>
<1> DEFINE w == At(k, n)
<1>1. Head(pen) = w /\ Len(pen) = 5 - n
  BY RestSteps
<1>2. /\ disk' = [disk EXCEPT ![w.owner][w.part] = w.data] /\ pen' = Tail(pen)
      /\ IF Len(pen) > 1 THEN UNCHANGED <<process, guestCa, served>>
         ELSE IF w.owner = CA THEN Started(disk') /\ UNCHANGED served
         ELSE Serve(w.owner, disk') /\ UNCHANGED <<process, guestCa>>
      /\ UNCHANGED <<making, made, crashes, emptied, hurt>>
  BY <1>1 DEF Write
<1>3. /\ w.owner = k.owner /\ w.part = (IF n \in {1, 2} THEN "cert" ELSE "key")
      /\ w.data = IF n \in {1, 3} THEN Torn ELSE Content(k)
  BY DEF At, Entry
<1> HIDE DEF w
<1>4. w.owner \in Owners /\ w.part \in Parts /\ w.data \in Contents /\ disk \in [Owners -> [Parts -> Contents]]
  BY <1>3, PairTyped DEF Parts, TypeOK
<1>5. /\ \A o \in Owners \ {k.owner} : disk'[o] = disk[o]
      /\ disk' \in [Owners -> [Parts -> Contents]]
      /\ disk'[k.owner][w.part] = w.data
      /\ \A part \in Parts \ {w.part} : disk'[k.owner][part] = disk[k.owner][part]
  BY <1>2, <1>3, <1>4
<1>6. /\ n = 1 => CertOf(k.owner)' = Torn /\ KeyOf(k.owner)' = KeyOf(k.owner)
      /\ n = 2 => CertOf(k.owner)' = Content(k) /\ KeyOf(k.owner)' = KeyOf(k.owner)
      /\ n = 3 => KeyOf(k.owner)' = Torn /\ CertOf(k.owner)' = CertOf(k.owner)
      /\ n = 4 => KeyOf(k.owner)' = Content(k) /\ CertOf(k.owner)' = CertOf(k.owner)
  BY <1>3, <1>5 DEF CertOf, KeyOf, Parts
<1>7. n # 4 => pen' = Rest(k, n + 1) /\ UNCHANGED <<process, guestCa, served>>
  <2>1. n # 4 => 5 - n > 1
    OBVIOUS
  <2> QED
    BY <1>1, <1>2, <2>1, RestSteps
<1>8. n = 4 => pen' = <<>>
  BY <1>2, RestSteps
<1>9. n = 4 => ~(Len(pen) > 1)
  BY <1>1
<1>10. n = 4 /\ k.owner = CA => process' = "running" /\ guestCa' = CertOf(CA)' /\ served' = served
  BY <1>2, <1>3, <1>9 DEF Started, CertOf
<1>11. n = 4 /\ k.owner # CA =>
         served' = [served EXCEPT ![k.owner] = disk'[k.owner]] /\ UNCHANGED <<process, guestCa>>
  BY <1>2, <1>3, <1>9 DEF Serve
<1> QED
  BY <1>2, <1>5, <1>6, <1>7, <1>8, <1>10, <1>11

LEMMA OwnersSplit == CA \in Owners /\ CA \notin Hosts /\ Hosts \subseteq Owners /\ \A o \in Owners : o # CA => o \in Hosts
  BY CertAssumption DEF Owners

LEMMA WriteTyped ==
  ASSUME TypeOK, NEW k \in Pairs, NEW n \in 1..4, pen = Rest(k, n), Write
  PROVE  TypeOK'
<1>1. disk' \in [Owners -> [Parts -> Contents]] /\ UNCHANGED <<making, made, crashes, emptied, hurt>>
  BY WriteEffect
<1>2. pen' \in Seq([owner : Owners, part : Parts, data : Contents])
  <2> DEFINE Entries == [owner : Owners, part : Parts, data : Contents]
  <2>1. \A m \in 1..4 : Rest(k, m) \in Seq(Entries)
    BY RestTyped, Zenon
  <2> HIDE DEF Entries
  <2>2. n # 4 => n + 1 \in 1..4
    OBVIOUS
  <2>3. <<>> \in Seq(Entries)
    OBVIOUS
  <2>4. pen' \in Seq(Entries)
    BY <2>1, <2>2, <2>3, WriteEffect
  <2> QED
    BY <2>4 DEF Entries
<1>3. CertOf(CA)' \in Contents /\ disk'[k.owner] \in [Parts -> Contents] /\ k.owner \in Owners
  BY <1>1, OwnersSplit, PairTyped DEF CertOf, Parts
<1>4. process' \in {"down", "starting", "running"} /\ guestCa' \in Contents
  BY <1>3, WriteEffect DEF TypeOK
<1>5. served' \in [Hosts -> [Parts -> Contents]]
  <2>1. CASE n = 4 /\ k.owner # CA
    BY <1>3, <2>1, WriteEffect DEF TypeOK
  <2>2. CASE ~(n = 4 /\ k.owner # CA)
    BY <2>2, WriteEffect DEF TypeOK
  <2> QED
    BY <2>1, <2>2
<1> QED
  BY <1>1, <1>2, <1>4, <1>5 DEF TypeOK

(* A write that is not the last of its pair. *)
LEMMA EarlyWriteKeeps ==
  ASSUME IInv, NEW k \in Pairs, NEW n \in 1..3, Writing(k, n), Write
  PROVE  IInv'
<1> DEFINE o == k.owner
<1>1. TypeOK /\ pen = Rest(k, n) /\ n \in 1..4 /\ n # 4 /\ n + 1 \in 1..4 /\ o \in Owners
  BY PairTyped DEF IInv, Writing
<1>2. /\ \A q \in Owners \ {o} : disk'[q] = disk[q]
      /\ n = 1 => CertOf(o)' = Torn /\ KeyOf(o)' = KeyOf(o)
      /\ n = 2 => CertOf(o)' = Content(k) /\ KeyOf(o)' = KeyOf(o)
      /\ n = 3 => KeyOf(o)' = Torn /\ CertOf(o)' = CertOf(o)
      /\ pen' = Rest(k, n + 1) /\ UNCHANGED <<process, guestCa, served, making, made, crashes, emptied, hurt>>
  BY <1>1, WriteEffect
<1>3. \A q \in Owners \ {o} : CertOf(q)' = CertOf(q) /\ KeyOf(q)' = KeyOf(q)
  BY <1>2 DEF CertOf, KeyOf
<1>4. /\ HalfWritten(o)' /\ \A q \in Owners \ {o} : ~HalfWritten(q) /\ ~HalfWritten(q)'
      /\ pen # <<>> /\ pen' # <<>>
  <2>1. pen # <<>> /\ \A q \in Owners \ {o} : ~HalfWritten(q)
    BY <1>1, AtWork
  <2>2. /\ pen' # <<>> /\ (\E i \in DOMAIN pen' : TRUE) /\ \A i \in DOMAIN pen' : pen'[i].owner = o
        /\ Len(pen') = 5 - (n + 1)
    BY <1>1, <1>2, RestSteps
  <2>3. Len(pen') < 4
    BY <2>2
  <2> QED
    BY <2>1, <2>2, <2>3 DEF HalfWritten, WritingAt
<1>5. PairInv'
  <2>1. \A q \in Owners : KeyOf(q)' # Absent => CertOf(q)' # Absent
    BY <1>1, <1>2, <1>3, PairTyped DEF IInv, PairInv, Writing
  <2>2. \A q \in Owners \ hurt' : ~HalfWritten(q)' /\ BothExist(q)' => Sound(q)'
    BY <1>2, <1>3, <1>4 DEF IInv, PairInv, Sound, BothExist, CertExists, CertOf, KeyOf
  <2> QED
    BY <2>1, <2>2 DEF PairInv
<1>6. Whole(Authority)' <=> Whole(Authority)
  <2>1. CASE o = CA
    BY <1>2, <2>1, PairTyped DEF Writing, Authority
  <2>2. CASE o # CA
    BY <1>3, <2>2, OwnersSplit DEF Authority
  <2> QED
    BY <2>1, <2>2
<1>7. Whole(Authority) => o # CA /\ Authority' = Authority /\ CertOf(CA)' = CertOf(CA)
  BY <1>3, OwnersSplit DEF Writing, Authority
<1>8. AuthorityInv'
  <2>1. ASSUME NEW h \in Hosts, Whole(CertOf(h)') PROVE Whole(Authority)' /\ CertOf(h)'.signer = Authority'.id
    <3>1. CASE h = o
      <4>1. o # CA
        BY <3>1, OwnersSplit
      <4>2. CertOf(h)' = Content(k)
        BY <1>2, <2>1, <3>1, PairTyped DEF Writing
      <4> QED
        BY <1>6, <1>7, <4>1, <4>2, PairTyped DEF Writing
    <3>2. CASE h # o
      BY <1>3, <1>6, <1>7, <2>1, <3>2, OwnersSplit DEF IInv, AuthorityInv
    <3> QED
      BY <3>1, <3>2
  <2>2. Whole(Authority)' => CertOf(CA)' = Authority'
    BY <1>6, <1>7 DEF IInv, AuthorityInv
  <2>3. \A j \in making' : j.owner # CA => Whole(Authority)' /\ j.signer = Authority'.id
    BY <1>2, <1>6, <1>7 DEF IInv, AuthorityInv
  <2> QED
    BY <2>1, <2>2, <2>3 DEF AuthorityInv
<1>9. ProcessInv'
  <2>1. process = "running" => o # CA /\ CertOf(CA)' = CertOf(CA)
    BY <1>3, OwnersSplit DEF Writing
  <2> QED
    BY <1>2, <1>4, <1>6, <2>1 DEF IInv, ProcessInv
<1>10. Writing(k, n + 1)'
  <2>1. n + 1 = 2 => CertOf(o)' = Torn
    BY <1>2
  <2>2. n + 1 \in {3, 4} => CertOf(o)' = Content(k)
    BY <1>2 DEF Writing
  <2>3. o = CA => process' = "starting" /\ making' = {} /\ (n + 1 < 4 => Authority' = Absent) /\ ~Whole(Authority)'
    BY <1>2, <1>6 DEF Writing, Authority
  <2>4. o # CA => process' = "running" /\ Whole(Authority)' /\ k.signer = Authority'.id
    BY <1>2, <1>6, <1>7 DEF Writing
  <2>5. n + 1 = 4 => KeyOf(o)' = Torn
    BY <1>2
  <2> QED
    BY <1>2, <2>1, <2>2, <2>3, <2>4, <2>5 DEF Writing
<1>11. PenInv'
  BY <1>1, <1>10 DEF PenInv
<1>12. PairsMatch' /\ SignedForTheGuest'
  BY <1>2 DEF IInv, PairsMatch, SignedForTheGuest
<1>13. TypeOK'
  BY <1>1, WriteTyped
<1> QED
  BY <1>5, <1>8, <1>9, <1>11, <1>12, <1>13 DEF IInv

(* The last write of a pair: it matches, and is used. *)
LEMMA LastWriteKeeps ==
  ASSUME IInv, NEW k \in Pairs, Writing(k, 4), Write
  PROVE  IInv'
<1> DEFINE o == k.owner
<1>1. TypeOK /\ pen = Rest(k, 4) /\ 4 \in 1..4 /\ o \in Owners
  BY PairTyped DEF IInv, Writing
<1>2. /\ \A q \in Owners \ {o} : disk'[q] = disk[q]
      /\ KeyOf(o)' = Content(k) /\ CertOf(o)' = CertOf(o)
      /\ pen' = <<>> /\ UNCHANGED <<making, made, crashes, emptied, hurt>>
      /\ o = CA => process' = "running" /\ guestCa' = CertOf(CA)' /\ served' = served
      /\ o # CA => served' = [served EXCEPT ![o] = disk'[o]] /\ UNCHANGED <<process, guestCa>>
  BY <1>1, WriteEffect
<1>3. \A q \in Owners \ {o} : CertOf(q)' = CertOf(q) /\ KeyOf(q)' = KeyOf(q)
  BY <1>2 DEF CertOf, KeyOf
<1>4. CertOf(o)' = Content(k) /\ Whole(CertOf(o)')
  BY <1>2, PairTyped DEF Writing
<1>5. PairInv'
  <2>1. \A q \in Owners : KeyOf(q)' # Absent => CertOf(q)' # Absent
    BY <1>3, <1>4, PairTyped DEF IInv, PairInv
  <2>2. \A q \in Owners \ {o} : ~HalfWritten(q)
    BY <1>1, AtWork
  <2>3. \A q \in Owners \ hurt' : BothExist(q)' => Sound(q)'
    BY <1>2, <1>3, <1>4, <2>2 DEF IInv, PairInv, Sound, BothExist, CertExists, CertOf, KeyOf
  <2> QED
    BY <2>1, <2>3 DEF PairInv
<1>6. CASE o = CA
  <2>1. Authority' = Content(k) /\ CertOf(CA)' = Content(k) /\ making' = {} /\ ~Whole(Authority) /\ process = "starting"
    BY <1>2, <1>4, <1>6 DEF Writing, Authority
  <2>2. \A h \in Hosts : ~Whole(CertOf(h)) /\ CertOf(h)' = CertOf(h)
    BY <1>3, <1>6, <2>1, OwnersSplit DEF IInv, AuthorityInv
  <2>3. AuthorityInv'
    BY <2>1, <2>2 DEF AuthorityInv
  <2>4. process' = "running" /\ guestCa' = CertOf(CA)' /\ making' = {} /\ served' = served /\ hurt' = hurt
    BY <1>2, <1>6, <2>1
  <2>5. ProcessInv'
    BY <2>4 DEF ProcessInv
  <2>6. \A h \in Hosts : served'[h] = Nothing
    BY <2>1, <2>4 DEF IInv, ProcessInv
  <2>7. Nothing["cert"] = Absent
    BY DEF Nothing, Parts
  <2>8. PairsMatch' /\ SignedForTheGuest'
    BY <2>6, <2>7, PairTyped DEF PairsMatch, SignedForTheGuest
  <2>9. TypeOK' /\ PenInv'
    BY <1>1, <1>2, WriteTyped DEF PenInv
  <2> QED
    BY <1>5, <2>3, <2>5, <2>8, <2>9 DEF IInv
<1>7. CASE o # CA
  <2>1. o \in Hosts /\ process = "running" /\ process' = "running" /\ guestCa' = guestCa /\ Whole(Authority) /\ k.signer = Authority.id
    BY <1>1, <1>2, <1>7, OwnersSplit DEF Writing
  <2>2. Authority' = Authority /\ CertOf(CA)' = CertOf(CA) /\ guestCa = CertOf(CA) /\ CertOf(CA) = Authority
    BY <1>3, <1>7, <2>1, OwnersSplit DEF Authority, IInv, ProcessInv, AuthorityInv
  <2>3. AuthorityInv'
    <3>1. \A h \in Hosts : Whole(CertOf(h)') => CertOf(h)'.signer = Authority.id
      BY <1>3, <1>4, <2>1, OwnersSplit, PairTyped DEF IInv, AuthorityInv
    <3> QED
      BY <1>2, <2>1, <2>2, <3>1 DEF IInv, AuthorityInv
  <2>4. ProcessInv'
    BY <1>2, <2>1, <2>2 DEF IInv, ProcessInv
  <2>5. /\ served'[o] = disk'[o] /\ \A h \in Hosts \ {o} : served'[h] = served[h]
        /\ served'[o]["cert"] = Content(k) /\ served'[o]["key"] = Content(k)
    BY <1>2, <1>4, <1>7, <2>1 DEF IInv, TypeOK, CertOf, KeyOf
  <2>6. PairsMatch'
    BY <1>2, <2>5, PairTyped DEF IInv, PairsMatch
  <2>7. SignedForTheGuest'
    <3>1. guestCa.id = Content(k).signer
      BY <2>1, <2>2, PairTyped
    <3> QED
      BY <2>1, <2>5, <3>1 DEF IInv, SignedForTheGuest
  <2>8. TypeOK' /\ PenInv'
    BY <1>1, <1>2, WriteTyped DEF PenInv
  <2> QED
    BY <1>5, <2>3, <2>4, <2>6, <2>7, <2>8 DEF IInv
<1> QED
  BY <1>6, <1>7

(* The steps that leave the disk alone. *)
LEMMA DiskKept ==
  ASSUME UNCHANGED disk
  PROVE  /\ \A o \in Owners : CertOf(o)' = CertOf(o) /\ KeyOf(o)' = KeyOf(o) /\ (BothExist(o)' <=> BothExist(o))
         /\ Authority' = Authority /\ CertOf(CA)' = CertOf(CA)
  BY DEF CertOf, KeyOf, BothExist, CertExists, Authority

LEMMA PairsKept ==
  ASSUME PairInv, UNCHANGED <<disk, pen, emptied, hurt>>
  PROVE  PairInv'
  BY DiskKept DEF PairInv, Sound, HalfWritten, WritingAt

LEMMA MakeEffect ==
  ASSUME TypeOK, NEW o \in Owners, NEW signer \in 1..MaxKeys, Make(o, signer)
  PROVE  \E k \in Pairs : k.owner = o /\ k.signer = signer /\ making' = making \cup {k} /\ made' \in 0..MaxKeys
<1> DEFINE k == [owner |-> o, id |-> made + 1, signer |-> signer]
<1>1. made + 1 \in 1..MaxKeys /\ made' = made + 1
  BY CertAssumption DEF Make, TypeOK
<1>2. k \in Pairs
  BY <1>1 DEF Pairs
<1>3. making' = making \cup {k}
  BY DEF Make
<1> QED
  BY <1>1, <1>2, <1>3

LEMMA StartKeeps == IInv /\ Start => IInv'
<1> SUFFICES ASSUME IInv, Start PROVE IInv'
  OBVIOUS
<1> USE DEF IInv
<1>1. process = "down" /\ pen = <<>> /\ making = {} /\ pen' = <<>> /\ UNCHANGED <<disk, pen, served, crashes, emptied, hurt>>
      /\ \A h \in Hosts : served[h] = Nothing
  BY DEF Start, ProcessInv
<1>2. PairInv'
  BY <1>1, PairsKept
<1>3. \A h \in Hosts : served'[h] = Nothing /\ ~Whole(served'[h]["cert"])
  <2>1. Nothing["cert"] = Absent /\ ~Whole(Absent)
    BY DEF Nothing, Parts, Absent, Whole
  <2> QED
    BY <1>1, <2>1
<1>4. PairsMatch' /\ SignedForTheGuest' /\ PenInv'
  BY <1>1, <1>3 DEF PairsMatch, SignedForTheGuest, PenInv
<1>5. CASE CachedCa
  <2>1. process' = "running" /\ guestCa' = CertOf(CA) /\ UNCHANGED <<made, making>>
    BY <1>5 DEF Start, Started, CertOf
  <2>2. guestCa' \in Contents
    BY <2>1, OwnersSplit DEF CertOf, TypeOK, Parts
  <2>3. TypeOK'
    BY <1>1, <2>1, <2>2 DEF TypeOK
  <2>4. AuthorityInv'
    BY <1>1, <2>1, DiskKept, OwnersSplit DEF AuthorityInv
  <2>5. ProcessInv'
    BY <1>1, <2>1, DiskKept DEF ProcessInv
  <2> QED
    BY <1>2, <1>4, <2>3, <2>4, <2>5
<1>6. CASE ~CachedCa
  <2>1. Authority = Absent
    BY <1>6, OwnersSplit DEF CachedCa, BothExist, CertExists, PairInv, CertOf, KeyOf, Authority
  <2>2. process' = "starting" /\ Make(CA, made + 1) /\ UNCHANGED guestCa
    BY <1>6 DEF Start
  <2>3. made + 1 \in 1..MaxKeys
    BY <2>2, CertAssumption DEF Make, TypeOK
  <2>4. PICK k \in Pairs : k.owner = CA /\ making' = {k} /\ made' \in 0..MaxKeys
    BY <1>1, <2>2, <2>3, MakeEffect, OwnersSplit
  <2>5. TypeOK'
    BY <1>1, <2>2, <2>4 DEF TypeOK, Pairs
  <2>6. ~Whole(Authority)
    BY <2>1 DEF Absent, Whole
  <2>7. AuthorityInv'
    BY <1>1, <2>4, DiskKept, OwnersSplit DEF AuthorityInv
  <2>8. ProcessInv'
    BY <1>1, <1>3, <2>1, <2>2, <2>4, <2>6, DiskKept DEF ProcessInv
  <2> QED
    BY <1>2, <1>4, <2>5, <2>7, <2>8
<1> QED
  BY <1>5, <1>6

LEMMA ConnectKeeps == ASSUME IInv, NEW h \in Hosts, Connect(h) PROVE IInv'
<1> USE DEF IInv
<1>1. /\ process = "running" /\ pen = <<>> /\ h \in Owners /\ h # CA /\ guestCa = CertOf(CA)
      /\ UNCHANGED <<process, disk, pen, guestCa, crashes, emptied, hurt>>
  BY OwnersSplit DEF Connect, Busy, ProcessInv
<1>2. PairInv' /\ PenInv'
  BY <1>1, PairsKept DEF PenInv
<1>3. CASE CachedLeaf(h)
  <2>1. served' = [served EXCEPT ![h] = disk[h]] /\ UNCHANGED <<made, making>>
    BY <1>3 DEF Connect, Serve
  <2>2. disk[h] \in [Parts -> Contents]
    BY <1>1 DEF TypeOK
  <2>3. TypeOK'
    BY <1>1, <2>1, <2>2 DEF TypeOK
  <2>4. AuthorityInv'
    BY <1>1, <2>1, DiskKept, OwnersSplit DEF AuthorityInv
  <2>5. ProcessInv'
    BY <1>1, <2>1, DiskKept DEF ProcessInv
  <2>6. served'[h] = disk[h] /\ \A g \in Hosts \ {h} : served'[g] = served[g]
    BY <2>1 DEF TypeOK
  <2>7. h \notin hurt => Sound(h)
    BY <1>1, <1>3, IdleWritesNowhere DEF PairInv, CachedLeaf
  <2>8. PairsMatch'
    BY <1>1, <2>6, <2>7 DEF PairsMatch, Sound, CertOf, KeyOf
  <2>9. Whole(CertOf(h)) => guestCa.id = CertOf(h).signer
    BY <1>1 DEF AuthorityInv
  <2>10. SignedForTheGuest'
    BY <1>1, <2>6, <2>9 DEF SignedForTheGuest, CertOf
  <2> QED
    BY <1>2, <2>3, <2>4, <2>5, <2>8, <2>10
<1>4. CASE ~CachedLeaf(h)
  <2>1. Whole(Authority) /\ Make(h, Authority.id) /\ UNCHANGED served
    BY <1>4 DEF Connect, Authority, KeyOf, Parts
  <2>2. Authority \in Contents
    BY OwnersSplit DEF Authority, KeyOf, TypeOK, Parts
  <2>3. Authority.id \in 1..MaxKeys
    BY <2>1, <2>2, CertAssumption DEF Contents, Whole
  <2>4. PICK k \in Pairs : k.owner = h /\ k.signer = Authority.id /\ making' = making \cup {k} /\ made' \in 0..MaxKeys
    BY <1>1, <2>1, <2>3, MakeEffect
  <2>5. TypeOK'
    BY <1>1, <2>1, <2>4 DEF TypeOK, Pairs
  <2>6. AuthorityInv'
    BY <1>1, <2>1, <2>4, DiskKept, OwnersSplit DEF AuthorityInv
  <2>7. ProcessInv'
    BY <1>1, <2>1, <2>4, DiskKept DEF ProcessInv
  <2>8. PairsMatch' /\ SignedForTheGuest'
    BY <1>1, <2>1 DEF PairsMatch, SignedForTheGuest
  <2> QED
    BY <1>2, <2>5, <2>6, <2>7, <2>8
<1> QED
  BY <1>3, <1>4

LEMMA GeneratedKeeps == ASSUME IInv, NEW k \in making, Generated(k) PROVE IInv'
<1> USE DEF IInv
<1>1. /\ k \in Pairs /\ pen = <<>> /\ making' = making \ {k}
      /\ UNCHANGED <<process, disk, made, guestCa, served, crashes, emptied, hurt>>
  BY DEF Generated, Busy, TypeOK, Pairs
<1>2. pen' = Rest(k, 1) /\ pen' # <<>> /\ 1 \in 1..4
  <2> DEFINE Entries == [owner : Owners, part : Parts, data : Contents]
  <2>0. 1 \in 1..4
    OBVIOUS
  <2>1. Rest(k, 1) \in Seq(Entries)
    BY <1>1, <2>0, RestTyped, Zenon
  <2> HIDE DEF Entries
  <2>2. pen' = <<>> \o Rest(k, 1)
    BY <1>1, WritesAreRest DEF Generated
  <2> QED
    BY <2>1, <2>2, ConcatEmptySeq, RestSteps
<1>3. TypeOK'
  <2> DEFINE Entries == [owner : Owners, part : Parts, data : Contents]
  <2>1. pen' \in Seq(Entries)
    BY <1>1, <1>2, RestTyped
  <2> QED
    BY <1>1, <2>1 DEF TypeOK
<1>4. k.owner = CA => process = "starting" /\ making = {k} /\ Authority = Absent /\ ~Whole(Authority)
  BY <1>1, PairTyped DEF ProcessInv, TypeOK
<1>5. k.owner # CA => process = "running" /\ Whole(Authority) /\ k.signer = Authority.id
  BY <1>1 DEF ProcessInv, AuthorityInv, TypeOK
<1>6. Writing(k, 1)'
  BY <1>1, <1>2, <1>4, <1>5, DiskKept DEF Writing
<1>7. PenInv'
  BY <1>1, <1>2, <1>6 DEF PenInv
<1>8. PairInv'
  <2>1. \A o : ~HalfWritten(o)
    BY <1>1, IdleWritesNowhere
  <2> QED
    BY <1>1, <2>1, DiskKept DEF PairInv, Sound
<1>9. AuthorityInv'
  BY <1>1, DiskKept, OwnersSplit DEF AuthorityInv
<1>10. ProcessInv'
  BY <1>1, <1>2, <1>4, DiskKept DEF ProcessInv
<1>11. PairsMatch' /\ SignedForTheGuest'
  BY <1>1 DEF PairsMatch, SignedForTheGuest
<1> QED
  BY <1>3, <1>7, <1>8, <1>9, <1>10, <1>11

LEMMA CrashKeeps == IInv /\ Crash => IInv'
<1> SUFFICES ASSUME IInv, Crash PROVE IInv'
  OBVIOUS
<1> USE DEF IInv
<1>1. /\ process' = "down" /\ pen' = <<>> /\ making' = {} /\ guestCa' = Absent
      /\ served' = [h \in Hosts |-> Nothing] /\ UNCHANGED <<disk, made>>
      /\ emptied' = emptied \cup {o \in Owners : KeyEmptied(o)}
      /\ hurt' = hurt \cup {o \in Owners : WrittenOver(o)}
  BY DEF Crash
<1>2. Nothing \in [Parts -> Contents] /\ Absent \in Contents /\ Nothing["cert"] = Absent /\ ~Whole(Absent)
  BY CertAssumption DEF Nothing, Absent, Contents, Parts, Whole
<1>3. crashes' \in 0..MaxCrashes
  BY CertAssumption DEF Crash, TypeOK
<1>4. TypeOK'
  BY <1>1, <1>2, <1>3 DEF TypeOK
<1>5. PairInv'
  <2>1. ASSUME NEW o \in Owners \ hurt', BothExist(o) PROVE Sound(o)'
    <3>1. CASE HalfWritten(o)
      <4>1. PICK k \in Pairs, n \in 1..4 : Writing(k, n)
        BY <3>1, IdleWritesNowhere DEF PenInv
      <4>2. pen = Rest(k, n) /\ o = k.owner /\ n # 1 /\ Len(pen) = 5 - n /\ WritingAt(o)
        BY <3>1, <4>1, AtWork, RestSteps DEF Writing, HalfWritten
      <4>3. ~WrittenOver(o)
        BY <1>1
      <4>4. n = 4
        BY <2>1, <4>2, <4>3 DEF WrittenOver
      <4>5. CertOf(o) = Content(k) /\ KeyOf(o) = Torn
        BY <4>1, <4>2, <4>4 DEF Writing
      <4>6. o \in emptied'
        BY <1>1, <4>2, <4>4 DEF KeyEmptied
      <4> QED
        BY <1>1, <4>5, <4>6, DiskKept, PairTyped DEF Sound
    <3>2. CASE ~HalfWritten(o)
      BY <1>1, <2>1, <3>2, DiskKept DEF PairInv, Sound
    <3> QED
      BY <3>1, <3>2
  <2> QED
    BY <1>1, <2>1, DiskKept DEF PairInv
<1>6. AuthorityInv'
  BY <1>1, DiskKept, OwnersSplit DEF AuthorityInv
<1>7. ProcessInv' /\ PenInv'
  BY <1>1 DEF ProcessInv, PenInv
<1>8. PairsMatch' /\ SignedForTheGuest'
  BY <1>1, <1>2 DEF PairsMatch, SignedForTheGuest
<1> QED
  BY <1>4, <1>5, <1>6, <1>7, <1>8

LEMMA IInvNext == IInv /\ [Next]_vars => IInv'
<1> SUFFICES ASSUME IInv, [Next]_vars PROVE IInv'
  OBVIOUS
<1>1. CASE Write
  <2>1. PICK k \in Pairs, n \in 1..4 : Writing(k, n)
    BY <1>1 DEF IInv, PenInv, Write
  <2>2. CASE n = 4
    BY <1>1, <2>1, <2>2, LastWriteKeeps
  <2>3. CASE n # 4
    <3>1. n \in 1..3
      BY <2>3
    <3> QED
      BY <1>1, <2>1, <3>1, EarlyWriteKeeps
  <2> QED
    BY <2>2, <2>3
<1>2. CASE UNCHANGED vars
  <2>1. UNCHANGED <<disk, pen, emptied, hurt>> /\ UNCHANGED <<process, making, made, guestCa, served, crashes>>
    BY <1>2 DEF vars
  <2>2. TypeOK' /\ PairsMatch' /\ SignedForTheGuest'
    BY <2>1 DEF IInv, TypeOK, PairsMatch, SignedForTheGuest
  <2>3. PairInv'
    BY <2>1, PairsKept DEF IInv
  <2>4. AuthorityInv' /\ ProcessInv'
    BY <2>1, DiskKept, OwnersSplit DEF IInv, AuthorityInv, ProcessInv
  <2>5. PenInv'
    <3>1. ASSUME NEW k \in Pairs, NEW n \in 1..4, Writing(k, n) PROVE Writing(k, n)'
      BY <2>1, <3>1, DiskKept, PairTyped DEF Writing
    <3> QED
      BY <2>1, <3>1 DEF IInv, PenInv
  <2> QED
    BY <2>2, <2>3, <2>4, <2>5 DEF IInv
<1> QED
  BY <1>1, <1>2, StartKeeps, ConnectKeeps, GeneratedKeeps, CrashKeeps DEF Next

LEMMA Invariant == Spec => []IInv
  BY IInvInit, IInvNext, PTL DEF Spec

(* The cache's state keeps its type. *)
THEOREM TypeCorrect == Spec => []TypeOK
  BY Invariant, PTL DEF IInv

(* What a TLS socket is given is a whole certificate with its own key, for    *)
(* any hosts, generations and crashes, except that the key is empty if a      *)
(* crash came after its file was emptied (egress-proxy.ts:329); nothing is    *)
(* claimed of a complete pair that a crash caught being written over.         *)
THEOREM PairsAlwaysMatch == Spec => []PairsMatch
  BY Invariant, PTL DEF IInv

(* What the guest is served is signed by the authority it was given, whatever *)
(* earlier processes left behind.                                             *)
THEOREM AlwaysSignedForTheGuest == Spec => []SignedForTheGuest
  BY Invariant, PTL DEF IInv

(* Once the authority's key is whole it is there for good: no leaf of a later *)
(* process is signed by another (egress-proxy.ts:256).                        *)
AuthorityStays == Whole(Authority) => Authority' = Authority

LEMMA StepKeepsAuthority == IInv /\ [Next]_vars => AuthorityStays
<1> SUFFICES ASSUME IInv, [Next]_vars, Whole(Authority) PROVE Authority' = Authority
  BY DEF AuthorityStays
<1>1. CASE Write
  <2>1. PICK k \in Pairs, n \in 1..4 : Writing(k, n)
    BY <1>1 DEF IInv, PenInv, Write
  <2>2. k.owner # CA /\ pen = Rest(k, n)
    BY <2>1 DEF Writing
  <2>3. disk'[CA] = disk[CA]
    BY <1>1, <2>2, WriteEffect, OwnersSplit DEF IInv
  <2> QED
    BY <2>3 DEF Authority, KeyOf
<1>2. CASE UNCHANGED disk
  BY <1>2, DiskKept
<1> QED
  BY <1>1, <1>2 DEF Next, Start, Connect, Generated, Crash, vars

(* No crash, generation or restart replaces an authority whose key is whole,  *)
(* for any hosts and any number of processes.                                 *)
THEOREM AuthorityIsForGood == Spec => [][AuthorityStays]_vars
  BY Invariant, StepKeepsAuthority, PTL DEF Spec
=============================================================================

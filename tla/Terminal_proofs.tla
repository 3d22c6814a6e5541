-------------------------- MODULE Terminal_proofs --------------------------
(* Proofs about PtyChannel, for any lengths of frames and chunks and any      *)
(* buffer, and about the Terminal that extends it, for any number of frames,  *)
(* reloads and keys.                                                          *)
EXTENDS Terminal, SequenceTheorems, WellFoundedInduction, TLAPS

(* Where the connection stands. *)
SocketInv ==
  /\ attempt = "connecting" <=> socket = "pending"
  /\ socket \in {"open", "ending"} => attempt = "connected"
  /\ client => socket \in {"open", "ending"}
  /\ socket = "open" => client
  /\ attempt # "connected" => stream = <<>> /\ acc = 0 /\ sent = 0

(* The frames lie one behind the other. *)
Rising == \A i, j \in 0..Len(stream) : i <= j => End(i) <= End(j)

(* What waits in the buffer has been sent, and of the first frame too little  *)
(* has come to do anything about it: not the header of one that is too large, *)
(* and not the whole of any other.                                            *)
Held(len) == IF TooLarge(len) THEN Header ELSE len
BufferInv ==
  /\ acc <= End(Len(stream))
  /\ socket = "open" /\ stream # <<>> => acc < Held(FrameLen(1))

ChannelInv == PtyTypeOK /\ SocketInv /\ Rising /\ BufferInv
-----------------------------------------------------------------------------
(* Lemmas on natural numbers and on the frames of a stream. *)

Less == {p \in Nat \X Nat : p[1] < p[2]}

LEMMA LessWellFounded == IsWellFoundedOn(Less, Nat)
  BY NatLessThanWellFounded DEF OpToRel, Less

LEMMA Least ==
  ASSUME NEW S, S \subseteq Nat, S # {}
  PROVE  \E m \in S : \A k \in S : m <= k
<1>1. PICK x \in S : \A y \in S : ~ (<<y, x>> \in Less)
  BY LessWellFounded, WFMin
<1>2. ASSUME NEW y \in S PROVE x <= y
  <2>1. x \in Nat /\ y \in Nat
    OBVIOUS
  <2>2. <<y, x>> \in Nat \X Nat /\ <<y, x>>[1] = y /\ <<y, x>>[2] = x
    BY <2>1
  <2>3. ~ (y < x)
    BY <1>1, <2>2, Zenon DEF Less
  <2> QED
    BY <2>1, <2>3
<1> QED
  BY <1>2

LEMMA EndType ==
  ASSUME PtyTypeOK
  PROVE  /\ Len(stream) \in Nat
         /\ \A i \in 0..Len(stream) : End(i) \in Nat
         /\ \A i \in 1..Len(stream) : FrameLen(i) \in FrameLens
  BY DEF PtyTypeOK, End

(* A frame takes its header at least, and no more than all of it waits. *)
LEMMA FrameFacts ==
  ASSUME NEW len \in FrameLens
  PROVE  /\ len \in Nat /\ Header \in Nat \ {0} /\ len >= Header
         /\ Held(len) \in Nat /\ 0 < Held(len) /\ Held(len) <= len
  BY PtyAssumption DEF Held

(* processBuffer's loop ends: there is a last frame that is complete. *)
LEMMA WholeEnds ==
  ASSUME PtyTypeOK, NEW n \in Nat
  PROVE  /\ Whole(n) \in 0..Len(stream) /\ End(Whole(n)) <= n
         /\ \A i \in 1..Whole(n) : ~TooLarge(FrameLen(i))
         /\ Whole(n) < Len(stream) =>
              End(Whole(n) + 1) > n \/ TooLarge(FrameLen(Whole(n) + 1))
<1> DEFINE Beyond == {k \in Nat : k \notin Complete(n)}
<1>1. 0 \in Complete(n)
  BY EndType DEF Complete, End
<1>2. Len(stream) + 1 \in Beyond
  BY EndType DEF Complete
<1>3. PICK m \in Beyond : \A k \in Beyond : m <= k
  <2> HIDE DEF Beyond
  <2>1. Beyond \subseteq Nat
    BY DEF Beyond
  <2> QED
    BY <1>2, <2>1, Least
<1>4. m - 1 \in Complete(n) /\ (m - 1) + 1 \notin Complete(n)
  <2>1. m \in Nat /\ m # 0 /\ m - 1 \in Nat /\ m - 1 < m /\ (m - 1) + 1 = m
    BY <1>1
  <2> QED
    BY <1>3, <2>1
<1>5. Whole(n) \in Complete(n) /\ Whole(n) + 1 \notin Complete(n)
  BY <1>4 DEF Whole
<1>6. Whole(n) \in 0..Len(stream) /\ End(Whole(n)) <= n /\ \A i \in 1..Whole(n) : ~TooLarge(FrameLen(i))
  BY <1>5 DEF Complete
<1>7. ASSUME Whole(n) < Len(stream), End(Whole(n) + 1) <= n PROVE TooLarge(FrameLen(Whole(n) + 1))
  <2>1. Whole(n) + 1 \in 0..Len(stream)
    BY <1>6, <1>7, EndType
  <2>2. PICK i \in 1..(Whole(n) + 1) : TooLarge(FrameLen(i))
    BY <1>5, <1>7, <2>1 DEF Complete
  <2>3. i = Whole(n) + 1
    BY <1>6, <2>2, EndType
  <2> QED
    BY <2>2, <2>3
<1>8. Whole(n) < Len(stream) => End(Whole(n) + 1) \in Nat
  BY <1>6, EndType
<1> QED
  BY <1>6, <1>7, <1>8
-----------------------------------------------------------------------------
LEMMA ChannelInit == PtyInit => ChannelInv
<1> SUFFICES ASSUME PtyInit PROVE ChannelInv
  OBVIOUS
<1>1. PtyTypeOK
  <2>1. MaxRetries \in 0..MaxRetries /\ 0 \in 0..MaxFrames /\ 0 \in 0..MaxAccum
    BY PtyAssumption
  <2>2. stream \in Seq(Nat) /\ Len(stream) = 0
    BY DEF PtyInit
  <2>3. \A i \in 1..Len(stream) : FrameLen(i) \in FrameLens
    BY <2>2
  <2>4. /\ attempt = "idle" /\ retries = MaxRetries /\ socket = "none" /\ client = FALSE
        /\ told = {} /\ sent = 0 /\ acc = 0 /\ dropped = "no"
    BY DEF PtyInit
  <2> QED
    BY <2>1, <2>2, <2>3, <2>4 DEF PtyTypeOK
<1>2. Rising /\ BufferInv
  BY DEF PtyInit, Rising, BufferInv, End
<1> QED
  BY <1>1, <1>2 DEF PtyInit, ChannelInv, SocketInv

(* The steps of the connection leave the frames alone, and it is not open     *)
(* unless it was or there are none.                                           *)
LEMMA ConnectionKeeps ==
  ASSUME ChannelInv,
         Connect \/ Attempts \/ Disconnect \/ SocketCloses \/ PeerGoes \/ UNCHANGED ptyvars
  PROVE  ChannelInv'
<1> USE DEF Connect, Attempts, Connected, Refused, Retry, Wake, Disconnect, Drop, SocketCloses,
            PeerGoes, ptyvars, framevars
<1>1. UNCHANGED <<stream, sent, acc>>
  OBVIOUS
<1>2. PtyTypeOK'
  <2>1. \A i \in 1..Len(stream) : FrameLen(i)' = FrameLen(i)
    BY <1>1 DEF FrameLen, End
  <2>2. retries' \in 0..MaxRetries
    <3>1. retries \in 0..MaxRetries /\ MaxRetries \in Nat
      BY PtyAssumption DEF ChannelInv, PtyTypeOK
    <3>2. retries' = retries \/ (retries > 0 /\ retries' = retries - 1)
      OBVIOUS
    <3> QED
      BY <3>1, <3>2
  <2>3. told' \subseteq Events
    <3>1. told \subseteq Events
      BY DEF ChannelInv, PtyTypeOK
    <3>2. \/ told' = told \/ told' = told \cup {"connected"} \/ told' = told \cup {"error"}
          \/ told' = told \cup {"closed"} \/ told' = told \cup {"unhandled"}
      OBVIOUS
    <3> QED
      BY <3>1, <3>2 DEF Events
  <2>4. /\ attempt' \in {"idle", "connecting", "sleeping", "connected", "failed"}
        /\ socket' \in {"none", "pending", "open", "ending", "closed"}
        /\ client' \in BOOLEAN /\ dropped' \in {"no", "owner", "overflow", "oversize"}
    BY DEF ChannelInv, PtyTypeOK
  <2> QED
    BY <1>1, <2>1, <2>2, <2>3, <2>4 DEF ChannelInv, PtyTypeOK
<1>3. SocketInv'
  BY <1>1 DEF ChannelInv, SocketInv
<1>4. Rising'
  BY <1>1 DEF ChannelInv, Rising, End
<1>5. BufferInv'
  <2>1. socket' = "open" => socket = "open" \/ stream = <<>>
    BY DEF ChannelInv, SocketInv
  <2> QED
    BY <1>1, <2>1 DEF ChannelInv, BufferInv, FrameLen, End, Held, TooLarge
<1> QED
  BY <1>2, <1>3, <1>4, <1>5 DEF ChannelInv

LEMMA GuestKeeps == ASSUME ChannelInv, NEW len \in FrameLens, GuestSends(len) PROVE ChannelInv'
<1>1. PICK n \in Nat : n = Len(stream)
  BY EndType DEF ChannelInv
<1>2. End(n) \in Nat /\ stream \in Seq(Nat) /\ len \in Nat
  BY <1>1, EndType, FrameFacts DEF ChannelInv, PtyTypeOK
<1>3. /\ stream' = Append(stream, End(n) + len) /\ Len(stream') = n + 1
      /\ stream' \in Seq(Nat) /\ stream'[n + 1] = End(n) + len
      /\ \A i \in 1..n : stream'[i] = stream[i]
  BY <1>1, <1>2, AppendProperties DEF GuestSends
<1>4. /\ socket = "open"
      /\ UNCHANGED <<acc, attempt, retries, socket, client, told, dropped>>
      /\ sent' = sent + 1 /\ sent < MaxFrames
  BY DEF GuestSends, connvars
<1>5. len >= 0 /\ 0 < Held(len) /\ acc \in Nat
  BY PtyAssumption, FrameFacts DEF ChannelInv, PtyTypeOK
<1>6. (\A i \in 0..n : End(i)' = End(i)) /\ End(n + 1)' = End(n) + len
  BY <1>3 DEF End
<1>7. (\A i \in 1..n : FrameLen(i)' = FrameLen(i)) /\ FrameLen(n + 1)' = len
  <2>1. ASSUME NEW i \in 1..n PROVE i \in 0..n /\ i - 1 \in 0..n
    OBVIOUS
  <2>2. \A i \in 1..n : FrameLen(i)' = FrameLen(i)
    BY <1>6, <2>1 DEF FrameLen
  <2>3. (n + 1) - 1 = n /\ n \in 0..n
    OBVIOUS
  <2>4. FrameLen(n + 1)' = (End(n) + len) - End(n)
    BY <1>6, <2>3 DEF FrameLen
  <2> QED
    BY <1>2, <2>2, <2>4
<1>8. PtyTypeOK'
  <2>1. \A i \in 1..(n + 1) : FrameLen(i)' \in FrameLens
    <3>1. \A i \in 1..n : FrameLen(i)' \in FrameLens
      BY <1>1, <1>7, EndType DEF ChannelInv
    <3>2. FrameLen(n + 1)' \in FrameLens
      BY <1>7
    <3> QED
      BY <3>1, <3>2
  <2>2. sent' \in 0..MaxFrames
    BY <1>4, PtyAssumption DEF ChannelInv, PtyTypeOK
  <2> QED
    BY <1>3, <1>4, <2>1, <2>2 DEF ChannelInv, PtyTypeOK
<1>9. SocketInv'
  BY <1>4 DEF ChannelInv, SocketInv
<1>10. Rising'
  <2> SUFFICES ASSUME NEW i \in 0..(n + 1), NEW j \in 0..(n + 1), i <= j
               PROVE  End(i)' <= End(j)'
    BY <1>3 DEF Rising
  <2>1. \A k \in 0..n : End(k) \in Nat /\ End(k) <= End(n)
    BY <1>1, EndType DEF ChannelInv, Rising
  <2>2. CASE j \in 0..n
    BY <1>1, <1>6, <2>2 DEF ChannelInv, Rising
  <2>3. CASE j = n + 1
    BY <1>2, <1>6, <2>1, <2>3
  <2> QED
    BY <2>2, <2>3
<1>11. BufferInv'
  <2>1. acc' = acc /\ acc <= End(n) /\ End(Len(stream))' = End(n) + len
    BY <1>1, <1>3, <1>4, <1>6 DEF ChannelInv, BufferInv
  <2>2. CASE n = 0
    <3>1. acc' = 0 /\ FrameLen(1)' = len
      BY <1>5, <1>7, <2>1, <2>2 DEF End
    <3>2. acc' < Held(FrameLen(1))'
      BY <1>5, <3>1 DEF Held, TooLarge
    <3> QED
      BY <1>2, <1>5, <2>1, <3>2 DEF BufferInv
  <2>3. CASE n > 0
    <3>1. FrameLen(1)' = FrameLen(1) /\ stream # <<>>
      BY <1>1, <1>7, <2>3
    <3>2. acc < Held(FrameLen(1))
      BY <1>4, <3>1 DEF ChannelInv, BufferInv
    <3>3. acc' < Held(FrameLen(1))'
      BY <2>1, <3>1, <3>2 DEF Held, TooLarge
    <3> QED
      BY <1>2, <1>5, <2>1, <3>3 DEF BufferInv
  <2> QED
    BY <2>2, <2>3
<1> QED
  BY <1>8, <1>9, <1>10, <1>11 DEF ChannelInv

(* What processBuffer leaves of the stream is the rest of it, and no frame    *)
(* that is whole or known to be too large.                                    *)
LEMMA DataKeeps == ASSUME ChannelInv, NEW n \in 1..MaxChunk, Data(n) PROVE ChannelInv'
<1>1. /\ n \in Nat \ {0} /\ acc \in Nat /\ MaxAccum \in Nat /\ Header \in Nat
      /\ socket = "open" /\ client /\ n <= End(Len(stream)) - acc
      /\ UNCHANGED <<attempt, retries, sent>>
  BY PtyAssumption DEF Data, ChannelInv, PtyTypeOK, SocketInv
<1>2. CASE Overflows(n)
  <2>1. /\ UNCHANGED <<attempt, retries, sent, stream, acc>> /\ told' = told \cup {"error"}
        /\ socket' = "ending" /\ ~client' /\ dropped' = "overflow" /\ client' \in BOOLEAN
    BY <1>1, <1>2 DEF Data, Drop
  <2>2. \A i : End(i)' = End(i) /\ FrameLen(i)' = FrameLen(i)
    BY <2>1 DEF End, FrameLen
  <2>3. told' \subseteq Events
    BY <2>1 DEF ChannelInv, PtyTypeOK, Events
  <2>4. PtyTypeOK'
    BY <2>1, <2>2, <2>3 DEF ChannelInv, PtyTypeOK
  <2>5. SocketInv'
    BY <1>1, <2>1 DEF ChannelInv, SocketInv
  <2>6. Rising' /\ BufferInv'
    BY <2>1, <2>2 DEF ChannelInv, Rising, BufferInv
  <2> QED
    BY <2>4, <2>5, <2>6 DEF ChannelInv
<1>3. CASE ~Overflows(n)
  <2>1. PICK m \in Nat : m = acc + n
    BY <1>1
  <2>2. PICK k \in 0..Len(stream) : k = Whole(m)
    BY WholeEnds DEF ChannelInv
  <2>3. PICK l \in Nat : l = Len(stream) - k
    <3>1. Len(stream) \in Nat
      BY EndType DEF ChannelInv
    <3>2. Len(stream) - k \in Nat
      BY <3>1
    <3> QED
      BY <3>2
  <2>4. m \in 0..MaxAccum /\ m <= End(Len(stream)) /\ ProcessBuffer(m)
    <3>1. End(Len(stream)) \in Nat
      BY EndType DEF ChannelInv
    <3> QED
      BY <1>1, <1>3, <2>1, <3>1 DEF Data, Overflows
  <2>5. /\ k \in 0..Len(stream) /\ End(k) \in Nat /\ End(k) <= m
        /\ k < Len(stream) => End(k + 1) > m \/ TooLarge(FrameLen(k + 1))
    BY <2>2, WholeEnds, EndType DEF ChannelInv
  <2>6. /\ stream' = [i \in 1..l |-> stream[k + i] - End(k)] /\ acc' = m - End(k)
        /\ IF acc' >= Header /\ k < Len(stream) /\ TooLarge(FrameLen(k + 1))
           THEN told' = told \cup {"error"} /\ Drop("oversize")
           ELSE UNCHANGED <<told, socket, client, dropped>>
    BY <2>4, <2>2, <2>3 DEF ProcessBuffer
  <2>7. l \in Nat /\ \A i \in 0..l : k + i \in 0..Len(stream) /\ End(k + i) \in Nat /\ End(k) <= End(k + i)
    BY <2>5, <2>3, EndType DEF ChannelInv, Rising
  <2>8. stream' \in Seq(Nat) /\ Len(stream') = l
    <3>1. ASSUME NEW i \in 1..l PROVE stream[k + i] - End(k) \in Nat
      <4>1. i \in 0..l /\ k + i # 0
        BY <2>5
      <4>2. End(k + i) = stream[k + i] /\ End(k + i) \in Nat /\ End(k) <= End(k + i)
        BY <2>7, <4>1 DEF End
      <4> QED
        BY <2>5, <4>2
    <3> QED
      BY <2>6, <2>7, <3>1, IsASeq
  <2>9. \A i \in 0..l : End(i)' = End(k + i) - End(k)
    BY <2>5, <2>6, <2>7 DEF End
  <2>10. \A i \in 1..l : FrameLen(i)' = FrameLen(k + i) /\ FrameLen(i)' \in FrameLens
    <3> TAKE i \in 1..l
    <3>1. i \in 0..l /\ i - 1 \in 0..l /\ k + i \in 1..Len(stream) /\ k + (i - 1) = (k + i) - 1
      BY <2>5, <2>7
    <3>2. FrameLen(i)' = (End(k + i) - End(k)) - (End(k + (i - 1)) - End(k))
      BY <2>9, <3>1 DEF FrameLen
    <3>3. End(k) \in Nat /\ End(k + i) \in Nat /\ End((k + i) - 1) \in Nat
      BY <2>5, <2>7, <3>1
    <3>4. FrameLen(i)' = FrameLen(k + i)
      BY <3>1, <3>2, <3>3 DEF FrameLen
    <3> QED
      BY <3>1, <3>4, EndType DEF ChannelInv
  <2>11. acc' \in 0..MaxAccum /\ acc' <= End(Len(stream))'
    <3>1. End(l)' = End(Len(stream)) - End(k)
      BY <2>5, <2>3, <2>7, <2>9
    <3>2. End(Len(stream)) \in Nat
      BY EndType DEF ChannelInv
    <3>3. End(Len(stream))' = End(l)'
      BY <2>8 DEF End
    <3>4. acc' \in 0..MaxAccum /\ acc' <= End(Len(stream)) - End(k)
      BY <1>1, <2>4, <2>5, <2>6, <3>2
    <3> QED
      BY <3>1, <3>2, <3>3, <3>4
  <2>12. PtyTypeOK'
    <3>1. /\ told' \subseteq Events /\ client' \in BOOLEAN
          /\ socket' \in {"none", "pending", "open", "ending", "closed"}
          /\ dropped' \in {"no", "owner", "overflow", "oversize"}
      BY <1>1, <2>6 DEF ChannelInv, PtyTypeOK, Events, Drop
    <3> QED
      BY <1>1, <2>8, <2>10, <2>11, <3>1 DEF ChannelInv, PtyTypeOK
  <2>13. SocketInv'
    BY <1>1, <2>6 DEF ChannelInv, SocketInv, Drop
  <2>14. Rising'
    <3> SUFFICES ASSUME NEW i \in 0..l, NEW j \in 0..l, i <= j
                 PROVE  End(i)' <= End(j)'
      BY <2>8 DEF Rising
    <3>1. k + i \in 0..Len(stream) /\ k + j \in 0..Len(stream) /\ k + i <= k + j
      BY <2>5, <2>7
    <3>2. End(k + i) <= End(k + j)
      BY <3>1 DEF ChannelInv, Rising
    <3> QED
      BY <2>5, <2>7, <2>9, <3>2
  <2>15. ASSUME socket' = "open", stream' # <<>> PROVE acc' < Held(FrameLen(1))'
    <3>1. l > 0 /\ k < Len(stream) /\ 1 \in 1..l /\ FrameLen(1)' = FrameLen(k + 1)
      BY <2>5, <2>3, <2>7, <2>8, <2>10, <2>15
    <3>2. ~(acc' >= Header /\ TooLarge(FrameLen(k + 1)))
      BY <1>1, <2>6, <2>15, <3>1 DEF Drop
    <3>3. FrameLen(k + 1) = End(k + 1) - End(k) /\ End(k + 1) \in Nat
      BY <2>5, <2>7, <3>1 DEF FrameLen
    <3>4. acc' < Held(FrameLen(k + 1))
      BY <1>1, <2>4, <2>5, <2>6, <3>1, <3>2, <3>3 DEF Held
    <3> QED
      BY <3>1, <3>4 DEF Held, TooLarge
  <2> QED
    BY <2>11, <2>12, <2>13, <2>14, <2>15 DEF ChannelInv, BufferInv
<1> QED
  BY <1>2, <1>3

LEMMA ChannelNext == ChannelInv /\ [PtyNext]_ptyvars => ChannelInv'
  BY ConnectionKeeps, GuestKeeps, DataKeeps DEF PtyNext, Guest, Arrival

LEMMA ChannelAlways == PtySpec => []ChannelInv
  BY ChannelInit, ChannelNext, PTL DEF PtySpec

(* PtyTypeOK holds in every state of the channel: the frames that are left    *)
(* lie within the stream, and the buffer never grows past its bound.          *)
THEOREM PtyTypeCorrect == PtySpec => []PtyTypeOK
<1>1. ChannelInv => PtyTypeOK
  BY DEF ChannelInv
<1> QED
  BY <1>1, ChannelAlways, PTL

LEMMA HeldBackNever == ChannelInv => NothingHeldBack
<1>1. ASSUME ChannelInv, socket = "open", stream # <<>> PROVE acc < stream[1]
  <2>1. 1 \in 1..Len(stream) /\ FrameLen(1) = stream[1] - 0 /\ stream[1] \in Nat
    BY <1>1, EndType DEF ChannelInv, PtyTypeOK, FrameLen, End
  <2>2. FrameLen(1) \in FrameLens /\ acc \in Nat /\ acc < Held(FrameLen(1))
    BY <1>1, <2>1, PtyAssumption DEF ChannelInv, PtyTypeOK, BufferInv
  <2>3. Held(FrameLen(1)) <= FrameLen(1) /\ Held(FrameLen(1)) \in Nat
    BY <2>2, FrameFacts
  <2> QED
    BY <2>1, <2>2, <2>3
<1> QED
  BY <1>1 DEF NothingHeldBack

(* No frame that has arrived whole waits in the buffer, however many come in  *)
(* a chunk and wherever it is cut.                                            *)
THEOREM NothingEverHeldBack == PtySpec => []NothingHeldBack
  BY HeldBackNever, ChannelAlways, PTL

(* The channel drops no socket but its client's, and makes no other after it. *)
DropInv ==
  /\ DropsOnlyWhenBehind
  /\ dropped # "no" => attempt = "connected" /\ socket \notin {"pending", "open"}

(* An overflow, at the moment it is found. *)
LEMMA OverflowBehind ==
  ASSUME ChannelInv, NEW n \in 1..MaxChunk, Data(n), Overflows(n)
  PROVE  0 < acc /\ acc < stream[1] /\ End(Len(stream)) > MaxAccum
<1>1. /\ n \in Nat \ {0} /\ MaxChunk \in Nat /\ MaxAccum \in Nat /\ acc \in Nat /\ n <= MaxAccum
      /\ n <= End(Len(stream)) - acc /\ End(Len(stream)) \in Nat /\ socket = "open"
  BY PtyAssumption, EndType DEF Data, ChannelInv, PtyTypeOK
<1>2. 0 < acc /\ End(Len(stream)) > MaxAccum
  BY <1>1 DEF Overflows
<1>3. stream # <<>>
  BY <1>1, EndType DEF End, ChannelInv, PtyTypeOK
<1> QED
  BY <1>1, <1>2, <1>3, HeldBackNever DEF NothingHeldBack

LEMMA DropNext == ChannelInv /\ DropInv /\ [PtyNext]_ptyvars => DropInv'
<1> SUFFICES ASSUME ChannelInv, DropInv, [PtyNext]_ptyvars PROVE DropInv'
  OBVIOUS
<1> USE DEF DropInv, DropsOnlyWhenBehind, End
<1>1. CASE Connect \/ Connected \/ Refused \/ Wake \/ Disconnect \/ SocketCloses \/ PeerGoes
           \/ UNCHANGED ptyvars
  BY <1>1 DEF Connect, Connected, Refused, Retry, Wake, Disconnect, Drop, SocketCloses, PeerGoes,
     ChannelInv, SocketInv, connvars, framevars, ptyvars
<1>2. ASSUME NEW len \in FrameLens, GuestSends(len) PROVE DropInv'
  BY <1>2 DEF GuestSends, connvars
<1>3. ASSUME NEW n \in 1..MaxChunk, Data(n) PROVE DropInv'
  <2>1. socket = "open" /\ client /\ attempt' = "connected" /\ dropped = "no"
    BY <1>3 DEF Data, ChannelInv, SocketInv, PtyTypeOK
  <2>2. CASE Overflows(n)
    <3>1. UNCHANGED <<stream, acc>> /\ socket' = "ending" /\ dropped' = "overflow"
      BY <1>3, <2>1, <2>2 DEF Data, Drop
    <3> QED
      BY <1>3, <2>1, <2>2, <3>1, OverflowBehind
  <2>3. CASE ~Overflows(n)
    <3>1. dropped' = "no" \/ (dropped' = "oversize" /\ socket' = "ending")
      BY <1>3, <2>1, <2>3 DEF Data, ProcessBuffer, Drop
    <3> QED
      BY <2>1, <3>1
  <2> QED
    BY <2>2, <2>3
<1> QED
  BY <1>1, <1>2, <1>3 DEF PtyNext, Attempts, Guest, Arrival

(* The buffer overflows only with a part of one frame in it and more than     *)
(* MAX_ACCUM bytes on the way, for any lengths of frames and any chunks that  *)
(* are no longer than MAX_ACCUM.                                              *)
THEOREM DropsOnlyBehind == PtySpec => []DropsOnlyWhenBehind
<1>1. PtyInit => DropInv
  BY DEF PtyInit, DropInv, DropsOnlyWhenBehind
<1>2. DropInv => DropsOnlyWhenBehind
  BY DEF DropInv
<1> QED
  BY <1>1, <1>2, DropNext, ChannelAlways, PTL DEF PtySpec
-----------------------------------------------------------------------------
(* The terminal. What the page will have taken the PTY for, once it has read  *)
(* what is on its way to it, goes by the last message that says anything.     *)
Attaches(m) == m.kind = "data" \/ (m.kind = "status" /\ m.pty)

Detached ==
  \E i \in 0..Len(inbox) :
    /\ i = 0 => ~usingPty
    /\ i > 0 => inbox[i].kind = "closed"
    /\ \A j \in (i + 1)..Len(inbox) : ~Attaches(inbox[j])

Attached == usingPty \/ \E j \in 1..Len(inbox) : Attaches(inbox[j])

(* A PTY that is gone and was not dropped is or will be left; one that is     *)
(* open and has ever said something is or will be taken up; and only a PTY    *)
(* that is gone for good is reported to be.                                   *)
NothingWhileLoading == page = "loading" => inbox = <<>>
GoneIsLeft == page = "live" /\ ~client /\ dropped = "no" => Detached
OpenIsTakenUp == page = "live" /\ socket = "open" /\ sent > Len(stream) => asked = 1 \/ Attached
Over == socket = "closed" /\ attempt = "connected"
ClosedMeansOver == \A j \in 1..Len(inbox) : inbox[j].kind = "closed" => Over

PageInv == NothingWhileLoading /\ GoneIsLeft /\ OpenIsTakenUp /\ ClosedMeansOver

PagesType ==
  /\ vm \in {"starting", "failed", "ready", "lost"} /\ page \in {"loading", "live"}
  /\ inbox \in Seq(Messages) /\ asked \in 0..1
  /\ usingPty \in BOOLEAN /\ isReady \in BOOLEAN

IInv == ChannelInv /\ PagesType /\ PageInv

Counts == reloads \in 0..MaxReloads /\ keys \in 0..MaxKeys /\ unsent \in 0..keys
-----------------------------------------------------------------------------
LEMMA MessageTypes ==
  /\ [kind |-> "data"] \in Messages /\ [kind |-> "closed"] \in Messages /\ [kind |-> "ready"] \in Messages
  /\ \A p, r \in BOOLEAN : [kind |-> "status", pty |-> p, ready |-> r] \in Messages
  /\ \A m \in Messages : m.kind \in {"data", "closed", "ready", "status"}
  /\ \A m \in Messages : m.kind = "status" => m.pty \in BOOLEAN /\ m.ready \in BOOLEAN
  BY DEF Messages

(* Messages that arrive behind the others. *)
LEMMA DetachedStays ==
  ASSUME NEW ms \in Seq(Messages), inbox \in Seq(Messages), inbox' = inbox \o ms, usingPty' = usingPty,
         Detached, \A j \in 1..Len(ms) : ~Attaches(ms[j])
  PROVE  Detached'
<1>1. /\ Len(inbox) \in Nat /\ Len(ms) \in Nat /\ Len(inbox') = Len(inbox) + Len(ms)
      /\ \A j \in 1..(Len(inbox) + Len(ms)) :
           inbox'[j] = IF j <= Len(inbox) THEN inbox[j] ELSE ms[j - Len(inbox)]
  BY ConcatProperties
<1>2. PICK i \in 0..Len(inbox) :
       /\ i = 0 => ~usingPty
       /\ i > 0 => inbox[i].kind = "closed"
       /\ \A j \in (i + 1)..Len(inbox) : ~Attaches(inbox[j])
  BY DEF Detached
<1>3. i \in 0..Len(inbox') /\ (i = 0 => ~usingPty') /\ (i > 0 => inbox'[i].kind = "closed")
  <2>1. i \in 0..Len(inbox') /\ (i > 0 => inbox'[i] = inbox[i])
    BY <1>1
  <2> QED
    BY <1>2, <2>1
<1>4. ASSUME NEW j \in (i + 1)..Len(inbox') PROVE ~Attaches(inbox'[j])
  <2>1. CASE j <= Len(inbox)
    <3>1. j \in (i + 1)..Len(inbox) /\ inbox'[j] = inbox[j]
      BY <1>1, <2>1
    <3> QED
      BY <1>2, <3>1
  <2>2. CASE j > Len(inbox)
    <3>1. j - Len(inbox) \in 1..Len(ms) /\ inbox'[j] = ms[j - Len(inbox)]
      BY <1>1, <2>2
    <3>2. ~Attaches(ms[j - Len(inbox)])
      BY <3>1
    <3> QED
      BY <3>1, <3>2
  <2> QED
    BY <1>1, <2>1, <2>2
<1> QED
  BY <1>3, <1>4 DEF Detached, Attaches

LEMMA AttachedStays ==
  ASSUME NEW ms \in Seq(Messages), inbox \in Seq(Messages), inbox' = inbox \o ms, usingPty' = usingPty,
         Attached \/ \E j \in 1..Len(ms) : Attaches(ms[j])
  PROVE  Attached'
<1>1. /\ Len(inbox) \in Nat /\ Len(ms) \in Nat /\ Len(inbox') = Len(inbox) + Len(ms)
      /\ \A j \in 1..Len(inbox) : inbox'[j] = inbox[j]
      /\ \A j \in 1..Len(ms) : inbox'[Len(inbox) + j] = ms[j]
  BY ConcatProperties
<1>2. CASE usingPty
  BY <1>2 DEF Attached
<1>3. ASSUME NEW j \in 1..Len(inbox), Attaches(inbox[j]) PROVE Attached'
  BY <1>1, <1>3 DEF Attached, Attaches
<1>4. ASSUME NEW j \in 1..Len(ms), Attaches(ms[j]) PROVE Attached'
  <2>1. Len(inbox) + j \in 1..Len(inbox')
    BY <1>1
  <2> QED
    BY <1>1, <1>4, <2>1 DEF Attached, Attaches
<1> QED
  BY <1>2, <1>3, <1>4 DEF Attached

(* The page reads a message. *)
LEMMA ReceiveKeeps ==
  ASSUME inbox \in Seq(Messages), usingPty \in BOOLEAN, Receive
  PROVE  /\ inbox' \in Seq(Messages) /\ usingPty' \in BOOLEAN
         /\ Len(inbox') = Len(inbox) - 1
         /\ \A j \in 1..Len(inbox') : inbox'[j] = inbox[j + 1]
         /\ Detached => Detached'
         /\ Attached /\ inbox[1].kind # "closed" => Attached'
<1>1. /\ inbox # <<>> /\ Len(inbox) \in Nat \ {0} /\ Head(inbox) = inbox[1] /\ inbox[1] \in Messages
      /\ inbox' = Tail(inbox) /\ usingPty' = Attach(inbox[1])
  BY DEF Receive
<1>2. /\ inbox' \in Seq(Messages) /\ Len(inbox') = Len(inbox) - 1
      /\ \A j \in 1..Len(inbox') : inbox'[j] = inbox[j + 1]
  BY <1>1, HeadTailProperties
<1>3. /\ inbox[1].kind = "closed" => usingPty' = FALSE
      /\ Attaches(inbox[1]) => usingPty' = TRUE
      /\ inbox[1].kind # "closed" /\ ~Attaches(inbox[1]) => usingPty' = usingPty
      /\ usingPty' \in BOOLEAN
  <2>1. inbox[1].kind \in {"data", "closed", "ready", "status"}
        /\ (inbox[1].kind = "status" => inbox[1].pty \in BOOLEAN)
    BY <1>1, MessageTypes
  <2>2. CASE inbox[1].kind = "status"
    BY <1>1, <2>1, <2>2 DEF Attach, Attaches
  <2>3. CASE inbox[1].kind \in {"data", "closed", "ready"}
    BY <1>1, <2>3 DEF Attach, Attaches
  <2> QED
    BY <2>1, <2>2, <2>3
<1>4. ASSUME Detached PROVE Detached'
  <2>1. PICK i \in 0..Len(inbox) :
         /\ i = 0 => ~usingPty
         /\ i > 0 => inbox[i].kind = "closed"
         /\ \A j \in (i + 1)..Len(inbox) : ~Attaches(inbox[j])
    BY <1>4 DEF Detached
  <2>2. ASSUME NEW j \in i..Len(inbox'), j >= 1 PROVE ~Attaches(inbox'[j])
    <3>1. j + 1 \in (i + 1)..Len(inbox) /\ j \in 1..Len(inbox')
      BY <1>1, <1>2, <2>2
    <3>2. inbox'[j] = inbox[j + 1] /\ ~Attaches(inbox[j + 1])
      BY <1>2, <2>1, <3>1
    <3> QED
      BY <3>2
  <2>3. CASE i \in {0, 1}
    <3>1. ~usingPty'
      <4>1. CASE i = 1
        BY <1>3, <2>1, <4>1
      <4>2. CASE i = 0
        <5>1. 1 \in (i + 1)..Len(inbox)
          BY <1>1, <4>2
        <5>2. ~usingPty /\ ~Attaches(inbox[1])
          BY <2>1, <4>2, <5>1
        <5> QED
          BY <1>3, <5>2
      <4> QED
        BY <2>3, <4>1, <4>2
    <3>2. 0 \in 0..Len(inbox') /\ \A j \in (0 + 1)..Len(inbox') : ~Attaches(inbox'[j])
      BY <1>1, <1>2, <2>2, <2>3
    <3> QED
      BY <3>1, <3>2 DEF Detached, Attaches
  <2>4. CASE i > 1
    <3>1. i - 1 \in 1..Len(inbox') /\ i - 1 \in 0..Len(inbox') /\ (i - 1) + 1 = i
      BY <1>1, <1>2, <2>4
    <3>2. inbox'[i - 1].kind = "closed" /\ i - 1 # 0
      BY <1>2, <2>1, <2>4, <3>1
    <3>3. \A j \in ((i - 1) + 1)..Len(inbox') : ~Attaches(inbox'[j])
      BY <2>2, <2>4, <3>1
    <3> QED
      BY <3>1, <3>2, <3>3 DEF Detached, Attaches
  <2> QED
    BY <2>3, <2>4
<1>5. ASSUME Attached, inbox[1].kind # "closed" PROVE Attached'
  <2>1. CASE usingPty
    BY <1>3, <1>5, <2>1 DEF Attached
  <2>2. ASSUME NEW j \in 1..Len(inbox), Attaches(inbox[j]) PROVE Attached'
    <3>1. CASE j = 1
      BY <1>3, <2>2, <3>1 DEF Attached
    <3>2. CASE j # 1
      <4>1. j - 1 \in 1..Len(inbox') /\ inbox'[j - 1] = inbox[j]
        BY <1>1, <1>2, <3>2
      <4> QED
        BY <2>2, <4>1 DEF Attached, Attaches
    <3> QED
      BY <3>1, <3>2
  <2> QED
    BY <1>5, <2>1, <2>2 DEF Attached
<1> QED
  BY <1>2, <1>3, <1>4, <1>5
-----------------------------------------------------------------------------
(* A step that sends ms to the page, none of them if ms is empty: what it has *)
(* to see to.                                                                 *)
NoneAttaches(ms) == \A j \in 1..Len(ms) : ~Attaches(ms[j])
EndsWithClosed(ms) == ms # <<>> /\ ms[Len(ms)].kind = "closed"

LEMMA SendKeeps ==
  ASSUME IInv, NEW ms \in Seq(Messages), Send(ms), UNCHANGED <<page, usingPty>>,
         ~client' /\ dropped' = "no" => EndsWithClosed(ms) \/ (~client /\ dropped = "no" /\ NoneAttaches(ms)),
         socket' = "open" /\ sent' > Len(stream') =>
           ~NoneAttaches(ms) \/ (socket = "open" /\ sent > Len(stream) /\ asked' = asked),
         \A j \in 1..Len(ms) : ms[j].kind = "closed" => Over',
         Over => Over'
  PROVE  inbox' \in Seq(Messages) /\ PageInv'
<1>1. inbox \in Seq(Messages) /\ page \in {"loading", "live"}
  BY DEF IInv, PagesType
<1>2. CASE page = "loading"
  <2>1. inbox' = <<>> /\ inbox = <<>>
    BY <1>1, <1>2 DEF Send, IInv, PageInv, NothingWhileLoading
  <2> QED
    BY <1>1, <1>2, <2>1 DEF PageInv, NothingWhileLoading, GoneIsLeft, OpenIsTakenUp, ClosedMeansOver
<1>3. CASE page = "live"
  <2>1. inbox' = inbox \o ms
    BY <1>3 DEF Send
  <2>2. /\ inbox' \in Seq(Messages)
        /\ Len(inbox) \in Nat /\ Len(ms) \in Nat /\ Len(inbox') = Len(inbox) + Len(ms)
        /\ \A j \in 1..(Len(inbox) + Len(ms)) :
             inbox'[j] = IF j <= Len(inbox) THEN inbox[j] ELSE ms[j - Len(inbox)]
    BY <1>1, <2>1, ConcatProperties
  <2>3. NothingWhileLoading'
    BY <1>3 DEF NothingWhileLoading
  <2>4. ASSUME ~client', dropped' = "no" PROVE Detached'
    <3>1. CASE EndsWithClosed(ms)
      <4>1. Len(ms) \in 1..Len(ms) /\ Len(ms) > 0
        BY <2>2, <3>1, EmptySeq DEF EndsWithClosed
      <4>2. inbox'[Len(inbox')].kind = "closed"
        BY <2>2, <3>1, <4>1 DEF EndsWithClosed
      <4>3. Len(inbox') \in 0..Len(inbox') /\ Len(inbox') # 0 /\ (Len(inbox') + 1)..Len(inbox') = {}
        BY <2>2, <4>1
      <4> QED
        BY <4>2, <4>3 DEF Detached
    <3>2. CASE ~client /\ dropped = "no" /\ NoneAttaches(ms)
      BY <1>1, <1>3, <2>1, <3>2, DetachedStays DEF IInv, PageInv, GoneIsLeft, NoneAttaches
    <3> QED
      BY <2>4, <3>1, <3>2
  <2>5. ASSUME socket' = "open", sent' > Len(stream') PROVE asked' = 1 \/ Attached'
    <3>1. CASE ~NoneAttaches(ms)
      BY <1>1, <2>1, <3>1, AttachedStays DEF NoneAttaches
    <3>2. CASE socket = "open" /\ sent > Len(stream) /\ asked' = asked
      BY <1>1, <1>3, <2>1, <3>2, AttachedStays DEF IInv, PageInv, OpenIsTakenUp
    <3> QED
      BY <2>5, <3>1, <3>2
  <2>6. ASSUME NEW j \in 1..Len(inbox'), inbox'[j].kind = "closed" PROVE Over'
    <3>1. CASE j <= Len(inbox)
      <4>1. j \in 1..Len(inbox) /\ inbox'[j] = inbox[j]
        BY <2>2, <3>1
      <4> QED
        BY <2>6, <4>1 DEF IInv, PageInv, ClosedMeansOver
    <3>2. CASE j > Len(inbox)
      <4>1. j - Len(inbox) \in 1..Len(ms) /\ inbox'[j] = ms[j - Len(inbox)]
        BY <2>2, <3>2
      <4> QED
        BY <2>6, <4>1
    <3> QED
      BY <2>2, <3>1, <3>2
  <2> QED
    BY <2>2, <2>3, <2>4, <2>5, <2>6 DEF PageInv, GoneIsLeft, OpenIsTakenUp, ClosedMeansOver
<1> QED
  BY <1>1, <1>2, <1>3

LEMMA Silent == inbox \in Seq(Messages) /\ inbox' = inbox => Send(<<>>) /\ <<>> \in Seq(Messages)
  BY ConcatEmptySeq DEF Send

LEMMA One ==
  ASSUME NEW m \in Messages
  PROVE  /\ <<m>> \in Seq(Messages) /\ Len(<<m>>) = 1 /\ <<m>>[1] = m /\ <<m>> # <<>>
         /\ \A j \in 1..Len(<<m>>) : <<m>>[j] = m
  OBVIOUS

(* What the channel's own steps do, as far as the page depends on it. *)
LEMMA FramesLeave ==
  ASSUME ChannelInv, NEW n \in 1..MaxChunk, Data(n)
  PROVE  /\ socket = "open" /\ sent' = sent /\ Len(stream) \in Nat /\ Len(stream') \in 0..Len(stream)
         /\ client' \/ dropped' # "no"
<1>1. socket = "open" /\ client /\ sent' = sent /\ acc + n \in Nat /\ Len(stream) \in Nat
  BY EndType, PtyAssumption DEF Data, ChannelInv, SocketInv, PtyTypeOK
<1>2. client' \/ dropped' # "no"
  BY <1>1 DEF Data, Drop, ProcessBuffer
<1>3. CASE Overflows(n)
  BY <1>1, <1>2, <1>3 DEF Data
<1>4. CASE ~Overflows(n)
  <2>1. PICK k \in 0..Len(stream) : k = Whole(acc + n)
    BY <1>1, WholeEnds DEF ChannelInv
  <2>2. Len(stream) - k \in 0..Len(stream)
    BY <1>1
  <2>3. stream' = [i \in 1..(Len(stream) - k) |-> stream[k + i] - End(k)]
    BY <1>4, <2>1 DEF Data, ProcessBuffer
  <2>4. Len(stream') = Len(stream) - k
    BY <2>2, <2>3
  <2> QED
    BY <1>1, <1>2, <2>2, <2>4
<1> QED
  BY <1>3, <1>4

LEMMA AttemptsKeep ==
  ASSUME ChannelInv, Attempts \/ Guest \/ SocketCloses \/ Connect
  PROVE  /\ Over => Over'
         /\ ~client' /\ dropped' = "no" => dropped = "no"
         /\ ~client' => ~client \/ SocketCloses
         /\ socket' = "open" /\ sent' > Len(stream') => socket = "open" /\ sent > Len(stream)
<1>1. CASE Attempts \/ Connect
  BY <1>1, EmptySeq DEF Attempts, Connected, Refused, Retry, Wake, Connect, framevars, ChannelInv, SocketInv, Over
<1>2. CASE SocketCloses \/ PeerGoes
  BY <1>2 DEF SocketCloses, PeerGoes, framevars, Over
<1>3. ASSUME NEW len \in FrameLens, GuestSends(len) PROVE socket = "open" /\ (sent' > Len(stream') => sent > Len(stream))
  <2>1. Len(stream) \in Nat /\ Len(stream') = Len(stream) + 1
    BY <1>3 DEF GuestSends, ChannelInv, PtyTypeOK
  <2> QED
    BY <1>3, <2>1, PtyAssumption DEF GuestSends, ChannelInv, PtyTypeOK
<1> QED
  BY <1>1, <1>2, <1>3 DEF Guest, GuestSends, connvars, Over

LEMMA ChannelSteps == [Next]_vars => [PtyNext]_ptyvars
  BY DEF Next, vars, Started, Unready, PtyData, PtyCloses, PtyStep, AnswerStatus, PageLoads, Reload, Receive,
         Type, PtyNext
-----------------------------------------------------------------------------
LEMMA TerminalInit == Init => IInv
<1> SUFFICES ASSUME Init PROVE IInv
  OBVIOUS
<1>1. ChannelInv
  BY ChannelInit DEF Init
<1>2. PagesType
  <2>1. inbox \in Seq(Messages)
    BY DEF Init
  <2>2. asked \in 0..1
    BY DEF Init
  <2> QED
    BY <2>1, <2>2 DEF Init, PagesType
<1>3. PageInv
  BY DEF Init, PageInv, NothingWhileLoading, GoneIsLeft, OpenIsTakenUp, ClosedMeansOver
<1> QED
  BY <1>1, <1>2, <1>3 DEF IInv

(* The steps of main.ts and of the channel. *)
LEMMA MainKeeps ==
  ASSUME IInv, Started \/ Unready \/ PtyData \/ PtyCloses \/ PtyStep \/ AnswerStatus
  PROVE  PagesType' /\ PageInv'
<1>1. inbox \in Seq(Messages) /\ usingPty \in BOOLEAN /\ client \in BOOLEAN /\ asked \in 0..1
  BY DEF IInv, PagesType, ChannelInv, PtyTypeOK
<1>2. /\ UNCHANGED <<page, usingPty, isReady>> /\ asked' \in 0..1
      /\ vm' \in {"starting", "failed", "ready", "lost"}
  BY <1>1 DEF IInv, PagesType, Started, Unready, PtyData, PtyCloses, PtyStep, AnswerStatus, pagevars
<1>3. CASE Started
  <2> DEFINE m == [kind |-> "ready"]
  <2>1. Connect /\ Send(<<m>>) /\ asked' = asked
    BY <1>3 DEF Started, pagevars
  <2>2. m \in Messages /\ ~Attaches(m) /\ m.kind # "closed"
    BY MessageTypes DEF Attaches
  <2> HIDE DEF m
  <2>3. NoneAttaches(<<m>>) /\ \A j \in 1..Len(<<m>>) : <<m>>[j].kind # "closed"
    BY <2>2, One DEF NoneAttaches
  <2>4. socket' = "pending" /\ UNCHANGED <<client, dropped>> /\ ~Over
    BY <2>1 DEF Connect, Over
  <2>5. inbox' \in Seq(Messages) /\ PageInv'
    BY <1>2, <2>1, <2>2, <2>3, <2>4, One, SendKeeps
  <2> QED
    BY <1>2, <2>5 DEF IInv, PagesType
<1>4. CASE Unready
  <2> DEFINE m == [kind |-> "status", pty |-> FALSE, ready |-> FALSE]
  <2>1. Send(<<m>>) /\ asked' = asked /\ UNCHANGED ptyvars
    BY <1>4 DEF Unready, pagevars
  <2>2. m \in Messages /\ ~Attaches(m) /\ m.kind # "closed"
    BY MessageTypes DEF Attaches
  <2> HIDE DEF m
  <2>3. NoneAttaches(<<m>>)
    BY <2>2, One DEF NoneAttaches
  <2>4. UNCHANGED <<client, dropped, socket, sent, stream, attempt>>
    BY <2>1 DEF ptyvars
  <2>5. inbox' \in Seq(Messages) /\ PageInv'
    BY <1>2, <2>1, <2>2, <2>3, <2>4, One, SendKeeps DEF Over
  <2> QED
    BY <1>2, <2>5 DEF IInv, PagesType
<1>5. CASE PtyData
  <2>1. PICK n \in 1..MaxChunk : Data(n)
    BY <1>5 DEF PtyData, Arrival
  <2>2. /\ socket = "open" /\ sent' = sent /\ (client' \/ dropped' # "no")
        /\ Len(stream) \in Nat /\ Len(stream') \in 0..Len(stream)
    BY <2>1, FramesLeave DEF IInv
  <2>3. PICK k \in Nat : k = Len(stream) - Len(stream')
    <3>1. Len(stream) - Len(stream') \in Nat
      BY <2>2
    <3> QED
      BY <3>1
  <2> DEFINE ms == [i \in 1..k |-> [kind |-> "data"]]
  <2>4. Send(ms) /\ asked' = asked
    BY <1>5, <2>3 DEF PtyData, pagevars
  <2>5. ms \in Seq(Messages) /\ Len(ms) = k /\ \A j \in 1..k : ms[j] = [kind |-> "data"]
    BY MessageTypes, IsASeq
  <2> HIDE DEF ms
  <2>6. \A j \in 1..k : Attaches(ms[j]) /\ ms[j].kind # "closed"
    BY <2>5 DEF Attaches
  <2>7. NoneAttaches(ms) => k = 0
    BY <2>5, <2>6 DEF NoneAttaches
  <2>8. k = 0 => Len(stream') = Len(stream)
    BY <2>2, <2>3
  <2>9. ~(~client' /\ dropped' = "no") /\ ~Over
    BY <2>2 DEF Over
  <2>10. ASSUME socket' = "open", sent' > Len(stream'), NoneAttaches(ms)
         PROVE  socket = "open" /\ sent > Len(stream) /\ asked' = asked
    BY <2>2, <2>4, <2>7, <2>8, <2>10
  <2>11. \A j \in 1..Len(ms) : ms[j].kind # "closed"
    BY <2>5, <2>6
  <2>12. inbox' \in Seq(Messages) /\ PageInv'
    BY <1>2, <2>4, <2>5, <2>9, <2>10, <2>11, SendKeeps
  <2> QED
    BY <1>2, <2>12 DEF IInv, PagesType
<1>6. CASE PtyCloses
  <2>1. SocketCloses /\ asked' = asked /\ ~client' /\ socket' = "closed" /\ dropped' = dropped
    BY <1>6 DEF PtyCloses, SocketCloses, pagevars
  <2>2. Over'
    BY <2>1 DEF SocketCloses, Over, IInv, ChannelInv, SocketInv
  <2>3. CASE client
    <3>1. Send(<<[kind |-> "closed"]>>) /\ [kind |-> "closed"] \in Messages
      BY <1>6, <2>3, MessageTypes DEF PtyCloses
    <3>2. EndsWithClosed(<<[kind |-> "closed"]>>)
      BY <3>1, One DEF EndsWithClosed
    <3>3. inbox' \in Seq(Messages) /\ PageInv'
      BY <1>2, <2>1, <2>2, <3>1, <3>2, One, SendKeeps
    <3> QED
      BY <1>2, <3>3 DEF IInv, PagesType
  <2>4. CASE ~client
    <3>1. Send(<<>>) /\ <<>> \in Seq(Messages) /\ NoneAttaches(<<>>)
      BY <1>1, <1>6, <2>4, Silent DEF PtyCloses, NoneAttaches
    <3>2. inbox' \in Seq(Messages) /\ PageInv'
      BY <1>2, <2>1, <2>2, <2>4, <3>1, SendKeeps
    <3> QED
      BY <1>2, <3>2 DEF IInv, PagesType
  <2> QED
    BY <2>3, <2>4
<1>7. CASE PtyStep
  <2>1. (Attempts \/ Guest) /\ ~SocketCloses /\ inbox' = inbox /\ asked' = asked
    BY <1>7 DEF PtyStep, pagevars, SocketCloses, Attempts, Connected, Refused, Wake, Guest, GuestSends,
                PeerGoes, connvars
  <2>2. /\ Over => Over'
        /\ ~client' /\ dropped' = "no" => ~client /\ dropped = "no"
        /\ socket' = "open" /\ sent' > Len(stream') => socket = "open" /\ sent > Len(stream)
    BY <2>1, AttemptsKeep DEF IInv
  <2>3. Send(<<>>) /\ <<>> \in Seq(Messages) /\ NoneAttaches(<<>>)
    BY <1>1, <2>1, Silent DEF NoneAttaches
  <2>4. Len(<<>>) = 0 /\ 1..Len(<<>>) = {}
    OBVIOUS
  <2>5. \A j \in 1..Len(<<>>) : <<>>[j].kind = "closed" => Over'
    BY <2>4
  <2>6. inbox' \in Seq(Messages) /\ PageInv'
    BY <1>2, <2>1, <2>2, <2>3, <2>5, SendKeeps
  <2> QED
    BY <1>2, <2>6 DEF IInv, PagesType
<1>8. CASE AnswerStatus
  <2>1. PICK connected \in PtyConnected, running \in BOOLEAN :
          Send(<<[kind |-> "status", pty |-> connected, ready |-> running]>>)
    BY <1>8 DEF AnswerStatus
  <2>2. /\ connected \in BOOLEAN /\ (~client => ~connected)
        /\ socket = "open" => connected
    BY <1>1 DEF PtyConnected, IInv, ChannelInv, SocketInv
  <2>3. UNCHANGED <<client, dropped, socket, sent, stream, attempt>>
    BY <1>8 DEF AnswerStatus, ptyvars
  <2>4. PICK m \in Messages : /\ Send(<<m>>) /\ m.kind # "closed"
                             /\ (Attaches(m) <=> connected)
    BY <2>1, <2>2, MessageTypes DEF Attaches
  <2>5. (NoneAttaches(<<m>>) <=> ~connected) /\ \A j \in 1..Len(<<m>>) : <<m>>[j].kind # "closed"
    BY <2>4, One DEF NoneAttaches
  <2>6. inbox' \in Seq(Messages) /\ PageInv'
    BY <1>2, <2>2, <2>3, <2>4, <2>5, One, SendKeeps DEF Over
  <2> QED
    BY <1>2, <2>6 DEF IInv, PagesType
<1> QED
  BY <1>3, <1>4, <1>5, <1>6, <1>7, <1>8

(* The steps of the page. *)
LEMMA PageKeeps ==
  ASSUME IInv, PageLoads \/ Reload \/ Receive \/ Type \/ UNCHANGED vars
  PROVE  PagesType' /\ PageInv'
<1>1. UNCHANGED <<client, dropped, socket, sent, stream, attempt, vm>>
  BY DEF PageLoads, Reload, Receive, Type, vars, ptyvars
<1>2. inbox \in Seq(Messages) /\ usingPty \in BOOLEAN /\ asked \in 0..1
  BY DEF IInv, PagesType
<1>3. CASE PageLoads
  <2>1. inbox' = <<>> /\ ~usingPty' /\ asked' = 1 /\ page' = "live" /\ ~isReady'
        /\ usingPty' \in BOOLEAN /\ isReady' \in BOOLEAN
    BY <1>3 DEF PageLoads, IInv, PageInv, NothingWhileLoading
  <2>2. Detached'
    BY <2>1 DEF Detached
  <2>3. PageInv'
    BY <2>1, <2>2 DEF PageInv, NothingWhileLoading, GoneIsLeft, OpenIsTakenUp, ClosedMeansOver
  <2> QED
    BY <1>1, <2>1, <2>3 DEF IInv, PagesType
<1>4. CASE Reload
  <2>1. inbox' = <<>> /\ page' = "loading" /\ asked' = 0 /\ UNCHANGED <<usingPty, isReady>>
    BY <1>4 DEF Reload
  <2>2. PageInv'
    BY <2>1 DEF PageInv, NothingWhileLoading, GoneIsLeft, OpenIsTakenUp, ClosedMeansOver
  <2> QED
    BY <1>1, <2>1, <2>2 DEF IInv, PagesType
<1>5. CASE Receive
  <2>1. page = "live" /\ page' = "live" /\ asked' = asked /\ inbox # <<>> /\ isReady' \in BOOLEAN
    <3>1. Head(inbox) \in Messages
      BY <1>2, <1>5 DEF Receive
    <3>2. isReady' \in BOOLEAN
      BY <1>5, <3>1, MessageTypes DEF Receive, IInv, PagesType
    <3> QED
      BY <1>5, <3>2 DEF Receive
  <2>2. /\ inbox' \in Seq(Messages) /\ usingPty' \in BOOLEAN /\ Len(inbox') = Len(inbox) - 1
        /\ \A j \in 1..Len(inbox') : inbox'[j] = inbox[j + 1]
        /\ Detached => Detached'
        /\ Attached /\ inbox[1].kind # "closed" => Attached'
    BY <1>2, <1>5, ReceiveKeeps
  <2>3. Len(inbox) \in Nat /\ 1 \in 1..Len(inbox)
    BY <1>2, <2>1
  <2>4. ClosedMeansOver'
    <3>1. \A j \in 1..Len(inbox') : j + 1 \in 1..Len(inbox)
      BY <2>2, <2>3
    <3> QED
      BY <1>1, <2>2, <3>1 DEF IInv, PageInv, ClosedMeansOver, Over
  <2>5. OpenIsTakenUp'
    <3>1. socket = "open" => inbox[1].kind # "closed"
      BY <2>3 DEF IInv, PageInv, ClosedMeansOver, Over
    <3> QED
      BY <1>1, <2>1, <2>2, <3>1 DEF IInv, PageInv, OpenIsTakenUp
  <2>6. PageInv'
    BY <1>1, <2>1, <2>2, <2>4, <2>5 DEF IInv, PageInv, NothingWhileLoading, GoneIsLeft
  <2> QED
    BY <1>1, <2>1, <2>2, <2>6 DEF IInv, PagesType
<1>6. CASE Type \/ UNCHANGED vars
  <2>1. UNCHANGED <<inbox, page, asked, usingPty, isReady>>
    BY <1>6 DEF Type, vars, pagevars
  <2>2. PageInv'
    BY <1>1, <2>1 DEF IInv, PageInv, NothingWhileLoading, GoneIsLeft, OpenIsTakenUp, ClosedMeansOver, Over,
       Detached, Attached, Attaches
  <2> QED
    BY <1>1, <2>1, <2>2 DEF IInv, PagesType
<1> QED
  BY <1>3, <1>4, <1>5, <1>6

LEMMA TerminalNext == IInv /\ [Next]_vars => IInv'
<1> SUFFICES ASSUME IInv, [Next]_vars PROVE IInv'
  OBVIOUS
<1>1. ChannelInv'
  BY ChannelSteps, ChannelNext DEF IInv
<1>2. PagesType' /\ PageInv'
  BY MainKeeps, PageKeeps DEF Next
<1> QED
  BY <1>1, <1>2 DEF IInv

LEMMA TerminalAlways == Spec => []IInv
  BY TerminalInit, TerminalNext, PTL DEF Spec

(* The channel under the terminal only takes the channel's own steps: what is *)
(* proved of PtyChannel alone holds here.                                     *)
THEOREM TerminalKeepsChannel == Spec => PtyInit /\ [][PtyNext]_ptyvars
<1>1. Init => PtyInit
  BY DEF Init
<1> QED
  BY <1>1, ChannelSteps, PTL DEF Spec

LEMMA CountsInit == Init => Counts
  BY TerminalAssumption DEF Init, Counts

LEMMA CountsNext == Counts /\ [Next]_vars => Counts'
<1> SUFFICES ASSUME Counts, [Next]_vars PROVE Counts'
  OBVIOUS
<1>1. CASE UNCHANGED <<reloads, keys, unsent>>
  BY <1>1 DEF Counts
<1>2. CASE Reload
  BY <1>2, TerminalAssumption DEF Reload, keyvars, Counts
<1>3. CASE Type
  BY <1>3, TerminalAssumption DEF Type, pagevars, Counts
<1> QED
  BY <1>1, <1>2, <1>3 DEF Next, Started, Unready, PtyData, PtyCloses, PtyStep, AnswerStatus, PageLoads, Receive,
                          pagevars, keyvars, vars

(* TypeOK holds in every state of the terminal, that of its channel included. *)
THEOREM TypeCorrect == Spec => []TypeOK
<1>1. IInv /\ Counts => TypeOK
  BY DEF IInv, ChannelInv, PagesType, Counts, TypeOK
<1>2. Spec => []Counts
  BY CountsInit, CountsNext, PTL DEF Spec
<1> QED
  BY <1>1, <1>2, TerminalAlways, PTL

(* Once the page has heard everything, a PTY it types into is there, for any  *)
(* number of reloads, messages on their way and frames.                       *)
THEOREM NeverIntoTheVoid == Spec => []NoTypingIntoTheVoid
<1>1. ASSUME IInv, Settled, usingPty, dropped = "no", ~client PROVE FALSE
  <2>1. Len(inbox) = 0 /\ Detached
    BY <1>1 DEF Settled, IInv, PageInv, GoneIsLeft
  <2> QED
    BY <1>1, <2>1 DEF Detached
<1>2. IInv => NoTypingIntoTheVoid
  BY <1>1 DEF NoTypingIntoTheVoid
<1> QED
  BY <1>2, TerminalAlways, PTL

(* A page that has heard everything types into a PTY that is open and has     *)
(* ever said something, for any number of reloads in between.                 *)
THEOREM AlwaysReattached == Spec => []ReloadReattaches
<1>1. ASSUME IInv, Settled, client, sent > Len(stream) PROVE usingPty
  <2>1. socket = "open" /\ page = "live" /\ asked = 0 /\ Len(inbox) = 0
    BY <1>1 DEF Settled, IInv, ChannelInv, SocketInv
  <2>2. Attached
    BY <1>1, <2>1 DEF IInv, PageInv, OpenIsTakenUp
  <2> QED
    BY <2>1, <2>2 DEF Attached
<1>2. IInv => ReloadReattaches
  BY <1>1 DEF ReloadReattaches
<1> QED
  BY <1>2, TerminalAlways, PTL
=============================================================================

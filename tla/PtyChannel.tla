----------------------------- MODULE PtyChannel -----------------------------
(* src/sandbox/src/main/pty-channel.ts: the attempts to reach QEMU's chardev  *)
(* socket, the connection, and the frames read from it. Bytes are only        *)
(* counted: of a frame the stream keeps where it ends, counted from the first *)
(* byte that was not emitted, and a "data" event brings any number of the     *)
(* bytes on their way, up to what Node reads at once. Terminal extends this   *)
(* module, so that the names of its specification begin with Pty.             *)
EXTENDS Integers, Sequences

CONSTANTS
  MaxRetries,  \* retries of connect(): 60
  Header,      \* bytes of a frame before its payload: 5
  MaxPayload,  \* MAX_FRAME_SIZE
  MaxAccum,    \* MAX_ACCUM: 65536
  MaxChunk,    \* the most one "data" event brings: Node reads 65536 at a time, too
  FrameLens,   \* lengths of the frames the guest may send, headers included
  MaxFrames    \* bound of the model: frames the guest sends

ASSUME PtyAssumption ==
  /\ MaxRetries \in Nat /\ Header \in Nat \ {0} /\ MaxPayload \in Nat
  /\ MaxAccum \in Nat /\ MaxChunk \in 0..MaxAccum /\ MaxFrames \in Nat
  /\ FrameLens \subseteq {n \in Nat : n >= Header}

VARIABLES
  attempt,  \* "idle", "connecting", "sleeping", "connected" or "failed"
  retries,
  socket,   \* of the last attempt: "none", "pending", "open", "ending" or "closed"
  client,   \* this.client is that socket
  told,     \* the events emitted besides "data"
  stream,   \* the ends of the frames sent by the guest and not emitted
  sent,     \* how many frames the guest has sent
  acc,      \* length of accumBuffer
  dropped   \* why the channel destroyed its socket: "no", "owner", "overflow" or "oversize"

ptyvars == <<attempt, retries, socket, client, told, stream, sent, acc, dropped>>
connvars == <<attempt, retries, socket, client, told>>
framevars == <<stream, sent, acc>>

Events == {"connected", "closed", "error", "unhandled"}

(* The first k frames of the stream take End(k) bytes. *)
End(k) == IF k = 0 THEN 0 ELSE stream[k]
FrameLen(i) == End(i) - End(i - 1)

PtyTypeOK ==
  /\ attempt \in {"idle", "connecting", "sleeping", "connected", "failed"}
  /\ retries \in 0..MaxRetries
  /\ socket \in {"none", "pending", "open", "ending", "closed"}
  /\ client \in BOOLEAN /\ told \subseteq Events
  /\ stream \in Seq(Nat) /\ (\A i \in 1..Len(stream) : FrameLen(i) \in FrameLens)
  /\ sent \in 0..MaxFrames
  /\ acc \in 0..MaxAccum
  /\ dropped \in {"no", "owner", "overflow", "oversize"}

PtyInit ==
  /\ attempt = "idle" /\ retries = MaxRetries /\ socket = "none" /\ client = FALSE
  /\ told = {} /\ stream = <<>> /\ sent = 0 /\ acc = 0 /\ dropped = "no"
-----------------------------------------------------------------------------
(* connect() and its attempts *)
Connect ==
  /\ attempt = "idle"
  /\ attempt' = "connecting" /\ socket' = "pending"
  /\ UNCHANGED <<retries, client, told, framevars, dropped>>

Connected ==
  /\ socket = "pending"
  /\ attempt' = "connected" /\ socket' = "open" /\ client' = TRUE
  /\ told' = told \cup {"connected"}
  /\ UNCHANGED <<retries, framevars, dropped>>

RetryForEver == attempt' = "sleeping" /\ UNCHANGED <<retries, told>>
Retry ==
  \/ retries > 0 /\ attempt' = "sleeping" /\ retries' = retries - 1 /\ UNCHANGED told
  \/ attempt' = "failed" /\ told' = told \cup {"error"} /\ UNCHANGED retries

(* The error of an attempt: one that may go away is retried a second later.   *)
Refused ==
  /\ socket = "pending"
  /\ socket' = "closed"
  /\ Retry
  /\ UNCHANGED <<client, framevars, dropped>>

(* Nothing cancels the timer: a disconnect() in between is forgotten. *)
Wake ==
  /\ attempt = "sleeping"
  /\ attempt' = "connecting" /\ socket' = "pending"
  /\ UNCHANGED <<retries, client, told, framevars, dropped>>

(* disconnect(), by whoever for whatever reason: only a connected client goes. *)
Drop(why) ==
  /\ client' = FALSE
  /\ socket' = IF client THEN "ending" ELSE socket
  /\ dropped' = IF client THEN why ELSE dropped

Disconnect ==
  /\ attempt # "idle"
  /\ Drop("owner")
  /\ UNCHANGED <<attempt, retries, told, framevars>>

(* The peer hangs up once everything it sent is read, or resets the           *)
(* connection: nobody listens to the socket's errors any more.                *)
PeerGoes ==
  /\ socket = "open"
  /\ socket' = "ending"
  /\ \/ End(Len(stream)) = acc /\ UNCHANGED told
     \/ told' = told \cup {"unhandled"}
  /\ UNCHANGED <<attempt, retries, client, framevars, dropped>>

(* The socket's "close" event, which means something only to its own client.  *)
SocketCloses ==
  /\ socket = "ending"
  /\ socket' = "closed" /\ client' = FALSE
  /\ told' = IF client THEN told \cup {"closed"} ELSE told
  /\ UNCHANGED <<attempt, retries, framevars, dropped>>
-----------------------------------------------------------------------------
(* Frames *)
GuestSends(len) ==
  /\ socket = "open" /\ sent < MaxFrames
  /\ stream' = Append(stream, End(Len(stream)) + len) /\ sent' = sent + 1
  /\ UNCHANGED <<connvars, acc, dropped>>

TooLarge(len) == len - Header > MaxPayload

(* How many frames at the head of the stream a buffer of n bytes may hold     *)
(* whole, none of them too large; and how many it does hold.                  *)
Complete(n) ==
  {k \in 0..Len(stream) : End(k) <= n /\ \A i \in 1..k : ~TooLarge(FrameLen(i))}

OneFrame(n) == IF 1 \in Complete(n) THEN 1 ELSE 0
Whole(n) == CHOOSE k \in Complete(n) : k + 1 \notin Complete(n)

(* processBuffer: emit the whole frames, and give up at the header of one     *)
(* that is too large.                                                         *)
ProcessBuffer(n) ==
  LET k    == Whole(n)
      left == n - End(k)
  IN /\ stream' = [i \in 1..(Len(stream) - k) |-> stream[k + i] - End(k)] /\ acc' = left
     /\ IF left >= Header /\ k < Len(stream) /\ TooLarge(FrameLen(k + 1))
        THEN told' = told \cup {"error"} /\ Drop("oversize")
        ELSE UNCHANGED <<told, socket, client, dropped>>

OverflowsWhenFull(n) == acc + n >= MaxAccum
Overflows(n) == acc + n > MaxAccum

(* The "data" event. *)
Data(n) ==
  /\ socket = "open" /\ n <= End(Len(stream)) - acc
  /\ IF Overflows(n)
     THEN told' = told \cup {"error"} /\ Drop("overflow") /\ UNCHANGED <<stream, acc>>
     ELSE ProcessBuffer(acc + n)
  /\ UNCHANGED <<attempt, retries, sent>>

Guest == (\E len \in FrameLens : GuestSends(len)) \/ PeerGoes
Arrival == \E n \in 1..MaxChunk : Data(n)
Attempts == Connected \/ Refused \/ Wake

PtyNext == Connect \/ Attempts \/ Disconnect \/ SocketCloses \/ Guest \/ Arrival

(* Attempts succeed or fail, and a socket that ends closes.                   *)
PtySpec == PtyInit /\ [][PtyNext]_ptyvars /\ WF_ptyvars(Attempts) /\ WF_ptyvars(SocketCloses)
-----------------------------------------------------------------------------
(* A frame that has arrived whole is emitted at once, also when several come  *)
(* in one chunk: none is left in the buffer until more bytes come (line 88).  *)
NothingHeldBack ==
  socket = "open" /\ stream # <<>> => acc < stream[1]

(* The console is lost to a full buffer only when the guest is more than      *)
(* MAX_ACCUM bytes ahead and a part of one frame waits for the rest (line     *)
(* 50): never for whole frames, and never with an empty buffer, however much  *)
(* comes in one chunk. It takes no long frame: a chunk of short ones on top   *)
(* of a single byte is enough.                                                *)
DropsOnlyWhenBehind ==
  dropped = "overflow" => 0 < acc /\ acc < stream[1] /\ End(Len(stream)) > MaxAccum

(* connect() ends connected or with an error, however often it is refused and *)
(* also when disconnect() comes in between.                                   *)
ConnectSettles == (attempt = "connecting") ~> (attempt \in {"connected", "failed"})

(* pty-channel.ts emits "error" (docs/qemu.md:703): an error of the socket is *)
(* never left to the process. It does not hold: README, section 6.            *)
ErrorsAreTold == "unhandled" \notin told
=============================================================================

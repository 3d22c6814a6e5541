------------------------------- MODULE Terminal -------------------------------
(* The terminal as the user sees it: renderer.ts with its two inputs (serial  *)
(* and PTY), the IPC messages main.ts sends it in order, and the PtyChannel   *)
(* behind them. The page can be reloaded; messages to a page that is loading  *)
(* are lost, and its script asks for the status when it starts.               *)
EXTENDS PtyChannel

CONSTANTS
  MaxReloads,  \* bound of the model: reloads of the page
  MaxKeys      \* bound of the model: keys typed

ASSUME TerminalAssumption == MaxReloads \in Nat /\ MaxKeys \in Nat

VARIABLES
  vm,         \* "starting", "failed", "ready", or "lost" once the serial connection went
  page,       \* "loading" or "live"
  reloads,
  inbox,      \* messages on their way to the page
  asked,      \* getStatus calls main has not answered yet
  usingPty, isReady,
  keys,       \* keys typed
  unsent      \* keys the terminal sent nowhere

pagevars == <<page, reloads, asked, usingPty, isReady>>
keyvars == <<keys, unsent>>
vars == <<ptyvars, vm, inbox, pagevars, keyvars>>

Messages == [kind : {"data", "closed", "ready"}] \cup [kind : {"status"}, pty : BOOLEAN, ready : BOOLEAN]

TypeOK ==
  /\ PtyTypeOK
  /\ vm \in {"starting", "failed", "ready", "lost"} /\ page \in {"loading", "live"} /\ reloads \in 0..MaxReloads
  /\ inbox \in Seq(Messages) /\ asked \in 0..1
  /\ usingPty \in BOOLEAN /\ isReady \in BOOLEAN
  /\ keys \in 0..MaxKeys /\ unsent \in 0..keys

Init ==
  /\ PtyInit
  /\ vm = "starting" /\ page = "loading" /\ reloads = 0 /\ inbox = <<>> /\ asked = 0
  /\ usingPty = FALSE /\ isReady = FALSE /\ keys = 0 /\ unsent = 0

Send(m) == inbox' = IF page = "live" THEN inbox \o m ELSE inbox
-----------------------------------------------------------------------------
(* main.ts *)

(* vm.start() resolves: the VM connects its channels and "ready" is sent.     *)
(* startVm has waited for the page's first load.                              *)
Started ==
  /\ vm = "starting" /\ (page = "live" \/ reloads > 0)
  /\ Connect
  /\ vm' = "ready"
  /\ Send(<<[kind |-> "ready"]>>)
  /\ UNCHANGED <<pagevars, keyvars>>

(* Phases "error" and "stopped", sent without ptyConnected: startVm failed,   *)
(* or the serial connection ended.                                            *)
Unready ==
  /\ \/ vm = "starting" /\ (page = "live" \/ reloads > 0) /\ vm' = "failed"
     \/ vm = "ready" /\ vm' = "lost"
  /\ Send(<<[kind |-> "status", pty |-> FALSE, ready |-> FALSE]>>)
  /\ UNCHANGED <<ptyvars, pagevars, keyvars>>

(* A chunk from the guest: a message for every frame it completes. *)
PtyData ==
  /\ Arrival
  /\ Send([i \in 1..(Len(stream) - Len(stream')) |-> [kind |-> "data"]])
  /\ UNCHANGED <<vm, pagevars, keyvars>>

PtyCloses ==
  /\ SocketCloses
  /\ IF client THEN Send(<<[kind |-> "closed"]>>) ELSE UNCHANGED inbox
  /\ UNCHANGED <<vm, pagevars, keyvars>>

PtyStep ==
  /\ Attempts \/ Guest
  /\ UNCHANGED <<vm, inbox, pagevars, keyvars>>

EverConnected == {"connected" \in told}

(* A socket that is ending may be destroyed before its "close" event. *)
PtyConnected == {client} \cup (IF socket = "open" THEN {} ELSE {FALSE})

(* getStatus: vm.ptyConnected, and vm.running, which is true while QEMU runs, *)
(* whatever else of the VM is up.                                             *)
AnswerStatus ==
  /\ asked = 1
  /\ \E connected \in PtyConnected, running \in BOOLEAN :
       Send(<<[kind |-> "status", pty |-> connected, ready |-> running]>>)
  /\ asked' = 0
  /\ UNCHANGED <<ptyvars, vm, page, reloads, usingPty, isReady, keyvars>>
-----------------------------------------------------------------------------
(* renderer.ts *)

(* The script runs: listeners first, then api.getStatus(). *)
PageLoads ==
  /\ page = "loading"
  /\ page' = "live" /\ asked' = 1 /\ usingPty' = FALSE /\ isReady' = FALSE
  /\ UNCHANGED <<ptyvars, vm, inbox, reloads, keyvars>>

(* "Reload Window" of the menu. *)
Reload ==
  /\ page = "live" /\ reloads < MaxReloads
  /\ page' = "loading" /\ reloads' = reloads + 1
  /\ inbox' = <<>> /\ asked' = 0
  /\ UNCHANGED <<ptyvars, vm, usingPty, isReady, keyvars>>

NoReattach(m) == m.kind = "data" \/ (m.kind # "closed" /\ usingPty)

(* How a message changes usingPty. *)
Attach(m) ==
  CASE m.kind = "data" -> TRUE
    [] m.kind = "closed" -> FALSE
    [] m.kind = "ready" -> usingPty
    [] m.kind = "status" -> usingPty \/ m.pty

Receive ==
  /\ page = "live" /\ inbox # <<>>
  /\ LET m == Head(inbox)
     IN /\ usingPty' = Attach(m)
        /\ isReady' = CASE m.kind = "ready" -> TRUE
                        [] m.kind = "status" -> m.ready
                        [] OTHER -> isReady
  /\ inbox' = Tail(inbox)
  /\ UNCHANGED <<ptyvars, vm, page, reloads, asked, keyvars>>

(* term.onData: to the PTY, to serial, or nowhere. *)
Type ==
  /\ page = "live" /\ keys < MaxKeys
  /\ keys' = keys + 1
  /\ unsent' = IF usingPty \/ isReady THEN unsent ELSE unsent + 1
  /\ UNCHANGED <<ptyvars, vm, inbox, pagevars>>

Next ==
  \/ Started \/ Unready \/ PtyData \/ PtyCloses \/ PtyStep \/ AnswerStatus
  \/ PageLoads \/ Reload \/ Receive \/ Type

Spec == Init /\ [][Next]_vars
-----------------------------------------------------------------------------
(* Nothing is on its way to the page. *)
Settled == page = "live" /\ inbox = <<>> /\ asked = 0 /\ socket # "ending"

(* Once the page has heard everything, a PTY it types into is there: unless   *)
(* the channel dropped it, a PTY that ended sends the terminal back to serial *)
(* wherever a reload came (renderer.ts:73, main.ts:155).                      *)
NoTypingIntoTheVoid == Settled /\ usingPty /\ dropped = "no" => client

(* A reload in the middle of a session comes back to the PTY, although an     *)
(* idle shell sends nothing (renderer.ts:130).                                *)
ReloadReattaches == Settled /\ client /\ sent > Len(stream) => usingPty

(* renderer.ts falls back to serial when the session has ended                *)
(* (docs/qemu.md:713), whoever ended it.                                      *)
FallbackAlways == Settled /\ usingPty => client

(* "Input during boot is buffered in pendingPtyInput[]" (docs/qemu.md:716).   *)
(* It does not hold: README, section 6.                                       *)
BootInputKept == unsent = 0
=============================================================================

# ValenceBox: a TLA+ verification project

ValenceBox is an Electron application that runs a Linux guest in QEMU and shows
its terminal. Its main process starts the VM, serves the workspace to the guest
over WebDAV, lets the guest reach the network only through an egress proxy, and
puts everything away when the user quits. This directory holds TLA+ models of
that program, the TLC configurations that check them, and TLAPS proofs.

Paths below are relative to `src/sandbox/src/main/` unless they say otherwise.

## 1. Inventory

| Component | State | Operations | Talks to |
|---|---|---|---|
| Shutdown coordinator, `shutdown.ts` | `completion`, the loop's position, `failed`, `exited`, one timer per stage, the watchdog | `request`, the loop, `finish` | the stages `main.ts` hands it, `app.exit` |
| Application, `main.ts`, `workspace.ts` | `vm`, `proxy`, `share`, `runtimeDir`, `quitting`, window | `startVm`, four shutdown stages, `before-quit`, IPC handlers | everything below |
| QEMU process, `qemu.ts` | `_proc`, `_qmp`, `stopping`, `stopPromise` | `start`, `stop`, `stopProcess`, `forceStop`, exit event | QEMU, the QMP client |
| VM manager, `vm-manager.ts` | serial socket, PTY channel, `stopping`, balloon target | `start`, `stop`, `forceStop`, `setBalloon`, `waitSerial` | QEMU process, PTY channel, application |
| QMP client, `qmp.ts` | socket, `generation`, `pending`, `queue`, read buffer | `connect`, `execute`, `disconnect`, socket events | QEMU's QMP socket |
| Share server, `http-share.ts` | server, `sockets`, `stopping`, `stopPromise`, token | `start`, `stop`, `forceStop` | the guest |
| Egress proxy, `egress-proxy.ts` | server, `sockets`, `requests`, `activeConnections`, `rateBuckets`, `byteCounters`, CA and leaf cache on disk | `start`, `stop`, `forceStop`, requests, CONNECT tunnels, MITM handshakes | the guest, upstreams, the disk |
| PTY channel, `pty-channel.ts` | client socket, accumulation buffer | `connect` with retries, `disconnect`, framing | the guest's `pty-daemon.py` |
| Guest daemons, `src/sandbox/guest/usr/local/libexec/` | PTY clients, mount state, sync state | PTY framing, mount with retries, sync loop | PTY channel, share server |
| Renderer, `src/sandbox/src/renderer/renderer.ts` | which terminal is shown, status line, whether the PTY is connected | IPC events, input routing | application over `shared/ipc.ts` |
| Pure parts: `config.ts`, `guest-profile.ts`, `asset-paths.ts`, host policy and header rewriting in `egress-proxy.ts` | none | reading, choosing, matching | |

The main process is one event loop, so there is no preemption; what makes it
hard is that almost every operation awaits something in the middle, and that a
quit, a timer, an exit of QEMU or a socket event comes in between.

What makes each component correct, and what is hard about it:

* **Shutdown coordinator.** It exits once, with a code that tells the truth,
  tries every stage over a failed one, and always exits. The watchdog and the
  stage timers race with the stages; the sum of the timeouts must stay below the
  deadline.
* **QEMU process.** After `stop()` no QEMU runs, wherever `start()` was when it
  was called. The escalation powerdown, SIGTERM, SIGKILL leaves nothing out and
  fits into the time the application allows it.
* **QMP client.** A command is settled by its own reply, every command is
  settled, a late reply or a late event of an old socket changes nothing, and a
  `disconnect()` is final.
* **Servers.** `stop()` resolves although the guest never hangs up, and nothing
  listens or is served afterwards even when `start()` was under way.
* **Application.** Exit 0 means everything was put away. No QEMU is left behind
  unkilled. The directory with QEMU's sockets is not removed under QEMU.
* **Egress proxy's traffic.** Every connection is counted once up and once down,
  tunnels end on both sides together, nothing is dialled or served while it
  stops. What the policy forbids is not reached in any spelling or by any way
  out, secrets reach only their own hosts, and a MITM leaf's certificate is whole
  and matches its key, also after a crash between the writes.
* **Launch.** Accelerator, machine, CPU, bus and console fit each other on every
  host, and emulation is always left as the last resort.
* **PTY and renderer.** Frames arrive whole and in order, and input goes to a
  terminal that exists.

The list of single hazards, each at its line, is `hazards` in `PROJECT.json`.

## 2. Modules

```
OrderlyExit  <--implements--  ShutdownCoordinator --.
                              QemuProcess ----------+--> AppLifecycle <- MCApp
             .--------------  ListeningServer (x2) -'
             '--implements--  ProxyConnections
              CommandQueue  <--implements--  QmpClient
                              PtyChannel ---------------> Terminal
                              RateLimit ----------------> EgressGate <- MCGate
                              CertCache
                              LaunchPlan
```

| Module | Models | How state and actions correspond |
|---|---|---|
| `OrderlyExit` | what a caller of the coordinator may rely on | `phase` and `result` of each stage; stages settle in order, exit is clean exactly if all succeeded, and only an abort (`forced`) leaves stages out |
| `ShutdownCoordinator` | `shutdown.ts` | `pos`/`waiting` are the program counter of `run`'s loop, `since`/`began` the starting points of its two timers, `exits` the history of `this.exit` calls |
| `QemuProcess` | `qemu.ts` and the part of `vm-manager.ts` that drives it | `startPc`/`stopPc` name the await `start()`/`stopProcess()` are at; the QMP client appears as `null`, without a socket, or with one; `serial` is the serial client, `pty` where the PTY's attempts are |
| `ListeningServer` | start, stop, sockets of `http-share.ts` and `egress-proxy.ts` | parameter `ErrorRejects` is the one difference: a listen error rejects the share's `start()`, the proxy's only logs it; a connection may be refused on arrival or dropped by a handler |
| `ProxyConnections` | the connections of `egress-proxy.ts` | `job` is what the proxy is doing for a connection: an await of `handleConnect` or `handleMitmConnect`, a request, a tunnel; `client` and `up` are its two sockets, `active` is `activeConnections` |
| `RateLimit` | `checkRateLimit` | `buckets` is `rateBuckets`; `passes` is the history of what it let through |
| `EgressGate` | policy, ports, interception and header rewriting of `egress-proxy.ts` | hosts are label sequences with an optional trailing dot and port; `mitmTargetMap` is the map of that name; `sent` is the message a step sends upstream |
| `CertCache` | `ensureMitmCa`, `ensureLeafCertificate` | `disk` outlives the process; `making` are the key pairs under way, `pen` the writes the process is blocked in, each in two halves |
| `LaunchPlan` | `guest-profile.ts`, `asset-paths.ts`, and the choices of `qemu.ts` and `startVm` | one action per place where something is looked up: the assets, the images, the probe for the status, the probe for the arguments |
| `CommandQueue` | what a caller of `execute()` may rely on | `line` is the commands that wait, oldest first: they are answered in that order, one after the other, and all of them are cut when the connection goes |
| `QmpClient` | `qmp.ts` | sockets are numbered by attempt; `sent` is the socket a command was written to, `ran` QEMU's verdict on it and `read` whether the reply has come, which it may do long after the client has lost interest |
| `AppLifecycle` | `main.ts`, `workspace.ts` | instantiates the coordinator, the VM and the server twice; a step of a component and the continuation in `startVm` or in a stage that it resumes are one step |
| `PtyChannel` | `pty-channel.ts`, and `pty-daemon.py` as the sender of frames | `attempt` is where the chain of attempts is, `socket` the last attempt's socket, `acc` the length of `accumBuffer`; `stream` holds the frames that were sent and not emitted, each by the offset at which it ends |
| `Terminal` | `renderer.ts`, the messages of `shared/ipc.ts` and their senders in `main.ts` and `vm-manager.ts` | extends `PtyChannel`; `inbox` is the messages on their way to the page, `asked` an unanswered `getStatus` |
| `MCShutdown`, `MCApp`, `MCGate` | | values for TLC |
| `ShutdownCoordinator_proofs`, `QemuProcess_proofs`, `ProxyConnections_proofs`, `EgressGate_proofs`, `CertCache_proofs`, `QmpClient_proofs`, `Terminal_proofs` (with `PtyChannel`), `AppLifecycle_proofs` | | theorems about the module each is named after (section 4) |

### What a step is

Node runs all promise continuations before the next timer or I/O callback. A
step is therefore one such callback together with the continuations it resumes,
up to the next `await` of something that is really pending. Two consequences:

* In `ShutdownCoordinator`, time and timers move only while the loop is
  `waiting`. In `AppLifecycle`, `SameTurn` holds the other parts still while
  the loop goes from one stage to the next, and while a stage has nothing to
  wait for (`vm?.stop()` without a VM).
* `net.Server.listen` on the loopback is one step, since the model gains nothing
  from the gap between the call and its event.

Time is a counter of seconds. A timer may run at any moment between its expiry
and `Lag` later, and never later than that: `Tick` is disabled while a timer is
overdue by `Lag`. Timers run in the order they expire, which is what decides
between the watchdog and the timer of a stage. Time only passes while something
the module watches is pending, so the state space needs no other bound on it.

### Bytes, frames and messages

`PtyChannel` counts bytes and never looks at them. Of a frame it keeps where it
ends, counted from the first byte that was not emitted, so that the length of any
piece of the stream is a difference of two ends and never a sum. A `data` event brings any
number of the bytes under way, up to `MaxChunk` (Node reads 65536 at a time), so
that frames are cut anywhere. `ProcessBuffer` is the whole loop of
`processBuffer`. Frames are all of type 1: `pty-daemon.py` never sends type 4.

`Terminal` delivers the messages to a page in the order they were sent, an
answer to `getStatus` included (Electron carries both over one pipe), and loses
those sent to a page that is loading. `getStatus` reports `vm.running` as
anything, since QEMU runs before the VM is ready and may die at any time. Nobody
calls the channel's `disconnect` there but the channel itself: `VmManager` does
so only when a quit stops the VM, after which no terminal is needed.

### Late replies

In `QmpClient` QEMU runs whatever was written to a socket, at any time, also when
its caller has been told of a timeout or the client has let the socket go. The
reply then comes to a socket that is `closing`, where the check of `qmp.ts:67`
drops it, or, if a timeout kept its socket, to the current one. That it does not
is what `NoLateReplyTaken` says: on the socket in use QEMU owes no reply but that
to the pending command. With a timeout that only forgets its command (`Forget`)
the property fails, and so it does without the comparison of ids.

### Channels that come back

`vm.stop()` disconnects the channels first and then waits for QEMU, 29 s at most.
`PtyChannel.disconnect()` reaches only a connected client: an attempt under way
and the timer of a retry go on (`pty-channel.ts:32`), and the VM manager has
forgotten the channel by then. `QemuProcess` has this (`pty = "trying"` survives
`Stop` and `ForceStop`, `PtyConnects` needs only a QEMU that runs), so
`ReleasedAfterStop` claims the PTY's end only of a stop that resolved, when QEMU,
the peer, is gone; after a stop that failed it may be there. The serial client is
destroyed at once, connected or not.

### Connections and their two ends

In `ProxyConnections` a connection is open, then `doomed` once somebody called
`destroy()`, then `closed` when its `close` event ran; only that event counts it
down. Its upstream is `dialing` until it is connected or has answered. What the
code does in the `close`, `error` and `timeout` handlers of either socket depends
on what they were registered for, which is why `job` decides. Two places where
the code ties nothing together are there as they are: a forwarded request whose
guest leaves, and one whose upstream breaks off in the middle of an answer.

### Hosts, secrets and files

`EgressGate` keeps a host's spelling only as far as `normalizeHost` and
`hostMatchesPattern` see it: the labels, a trailing dot, a port behind it. A
request carries a set of placeholders; what leaves carries the values they became
and the placeholders that are still there. An `https` URL sent to the forward
proxy goes out with its headers as they came, as in the code.

`CertCache` writes a file in two steps since `writeFileSync` empties it first.
Nothing else runs while the process is blocked in a write, but it may die there.
Two histories remember the crashes the code does not recover from, since each leaves a
pair that is there, is not whole, and is never made again (6.8). `emptied` are the
owners whose key file was made or emptied, and not yet filled, at a crash; the first
and only generation for a host is enough for that. `hurt` are the owners whose
complete pair was being written over, which takes two generations for one host: after a
crash in the second one the certificate may be empty or may be one of another
key. `PairsMatch` lets an owner in `emptied` have an empty key and nothing else,
and says nothing of those in `hurt`.

### Things left out on purpose

Log output and durations; arguments of QEMU; the line framing of QMP and QMP
events, which change nothing else in the client; the bytes that pass through a
socket; frames to the guest, for which the channel keeps no state; the page's
status bar, overlays, key bindings and clipboard; the WebDAV service (a library).

## 3. Runs

| Run | Question | Bounds |
|---|---|---|
| `shutdown_tight` | every order of stage results, stage timers and watchdog; refinement of `OrderlyExit` | three stages of 3, 2, 2 s, lag 2, deadline 6: the first stage cannot use it up, the second and the third can |
| `qemu` | `start`, `stop`, `forceStop` and the death of QEMU in every order | the real timeouts 2, 10, 5 s, lag 1 |
| `qmp` | replies in time and late, lost sockets, late events, timers and `disconnect`; refinement of `CommandQueue` | three sockets, three commands: one pending, one queued, one after |
| `app` | the whole application, quit at any point of its startup | the real timeouts divided by three so that 2+2+10+10+5 < 30 < 31 becomes 1+1+3+3+1 < 10 < 11, one connection per server, lag 0 |
| `app_tight` | the same when stage 1 and the deadline are too short for the escalation | stage 1 allows the VM 4, the watchdog 4: both force it down in the middle |
| `proxy` | requests, tunnels and interceptions, upstreams that answer, break off or never do, a stop at any point; refinement of `ListeningServer` | three connections of which two may be served: one is refused, or comes when another has left |
| `gate` | which requests leave, where to and with what; the rate windows | a host, one below it and a third, each with and without dot and port; ports 22, 80, 443; two secrets, two intercepted tunnels; eight configurations (`MCGate`); a limit of 2 in a minute of 3 ticks over 7 ticks, which is three windows |
| `certs` | two generations at once, crashes anywhere | two hosts and the authority, five key pairs, two crashes |
| `launch` | every host, set of assets and wish | exhaustive |
| `pty` | frames cut into chunks in every way, with refused attempts, resets and disconnects | a header of 2, frames of 3 and 4, one of 8 that is over the cap of 4, chunks and a buffer of 6, one size for both as in the code |
| `terminal` | two reloads at any moment of startup, session and its end | buffer and chunk of the same size, as in the code, so that the channel does overflow |
| `terminal_bulk` | does every end of a session bring the serial terminal back (no: 6.1) | the same |

The real application's watchdog needs no run of its own: `WatchdogSilent` says
that a stage is cut only if the timeouts up to its own can use the deadline up,
which `shutdown_tight` checks where they can, and which is proved for all
values; 31+2+2+2 s stay below 40 s.

The numbers are small because the components are: the state of each is a few
flags and a program counter, so a bound concerns only the number of sockets,
connections, commands and stages. Three stages show a first, a middle and a last one; three
sockets show an old one, its successor, and one after a second loss; three
commands show one that is pending, one queued, and one that is executed after a
loss; three connections under a limit of two show a served one, another, and one
too many. Connections of the proxy share nothing but the count and the flags of
the server, so more of them add no new meeting of handlers. A guest that opens a
connection to a host is not told apart from one that opens the next, so two
tunnels and one client address suffice in `gate`, whose buckets are one per
client and never meet. Within these bounds TLC visits every interleaving.

Two runs of the application are needed since with the real proportions neither
the inner timeout of stage 1 nor the watchdog can come first
(`AskedBeforeKilled` says so), and the branches behind them would never run.
`NoOrphanVm` is checked where they do.

Deadlock checking is off in all runs: each of these components stops, that is
what they are for (the terminal stops at its bounds on frames, keys and reloads).

### Fairness

`Scheduled`, `Starting`, `Stopping` and `Timers` are the timers that are armed
and the continuations that are ready; the event loop runs them, and time goes
on. Weak fairness on them is all that is assumed. Nothing is assumed of QEMU,
the guest, the disk, the network or the user: no reply, no exit after SIGTERM or
even SIGKILL, no end of a connection. `PtyChannel` assumes that an attempt ends
(the operating system's connect does, and its timer fires), that bytes that
were sent arrive (the event loop reads a readable socket), and that a socket
that ends closes. `ProxyConnections` assumes that the 10 s timer of a dial and the
5 s timer of a handshake run unless the dial or the handshake has ended before,
and that a destroyed socket closes. `Terminal`, `EgressGate`, `CertCache` and
`LaunchPlan` claim no liveness. The one exception is `ListeningServer`, where a
destroyed socket emits its `close` and a server without connections calls back.

### What the runs show beyond their invariants

* The checks of `quitting` in `startVm` are not what keeps a quit safe: without
  them the flags of the components (`stopping` in `qemu.ts:75` and
  `http-share.ts:30`, and `egress-proxy.ts:394`) still reject whatever `startVm`
  starts late. With a component's flag check removed `StopMeansDead`,
  `StoppedStaysStopped` or `CleanExitIsClean` fail.
* A listen error of the egress proxy leaves `startVm` waiting for ever, since
  the `error` handler only logs (`start = "hung"`). Quitting still works.
* Stage 1 never gives up a `vm.stop()` that is still at work, which is the first
  half of `AskedBeforeKilled`: a timeout of the escalation that was longer by more
  than the second there is to spare would break it, also the one after SIGKILL.
* `stop()` fits into its 30 s with a second to spare, so with five timers in
  the escalation an average lag of 200 ms uses the margin up. Then the VM is
  killed rather than left behind (`app_tight`).
* `MAX_ACCUM` equals the 65536 that Node reads at once, so a full chunk on top of
  any left-over byte drops a connection whose frames are in order, and short ones
  at that (`terminal_bulk` runs into it). `DropsOnlyWhenBehind` says when that is:
  only while a part of one frame waits and the guest is more than `MAX_ACCUM` bytes
  ahead, so never on an empty buffer and never at the pace of a person typing.
* `activeConnections` is exact, also over refused connections: their `close`
  listener is registered before the limit is looked at (6.4).
* Nothing of the proxy outlives its stop, though two of its handlers tie no two
  sockets together: `forceStop` goes through all tracked sockets and requests, and
  whatever a pending await brings later is destroyed by `trackSocket` or by the
  check behind the await. `ImplementsServer` carries what holds of
  every `ListeningServer` over to it.
* The second normalisation in `hostAllowed` is what catches `name.:443`, whose
  dot the first one leaves: without it `PolicyHolds` fails.
* A crash before the key file exists leaves a certificate, or a piece of one. The
  pair is then made again, as long as both files have to be there; a test for the
  certificate alone would serve the leftover. One that comes between the creation
  of the key file and its contents is not recovered (6.8).
* The status may name an accelerator QEMU was not given, since it is probed
  again for the arguments. The arguments fit each other all the same, and when the
  second answer means the same status that status is true (`EmulationIsLast`),
  except that a wish for `tcg` is reported as the accelerator that was found.
* While the channel has not dropped its connection, the page ends up where the
  PTY is, wherever a reload falls (`NoTypingIntoTheVoid`, `ReloadReattaches`).
  The latter is claimed for a session that has sent something: a PTY that is
  connected and silent, without a reload, is not attached to, which is how
  `onPtyData` is meant.

## 4. Proofs

The proof modules hold for every value of the constants, under the named
assumption of the module they are about, which TLC evaluates for the values of
each run:

* the timeouts, limits, lags and bounds are natural numbers, a minute is not 0;
* `Budget` is the running sum of the stages' timeouts, a constant with a stated
  recurrence because a recursive sum is out of the provers' reach. That it never
  falls is proved (`BudgetGrows`): the first budget that fell below an earlier one
  would have a predecessor that had;
* `AppAssumption`: what stage 1 allows `vm.stop()` is not above the timeout of the
  stage (30 s and 31 s, `main.ts:331`, `main.ts:332`). `NoOrphanVm` rests on it: if
  the stage gave up first nobody would call `forceStop`;
* `GateAssumption`: a spelling of a host is labels, a dot and a port;
  `CertAssumption`: no host has the authority's place on the disk;
  `PtyAssumption`: a frame has a header, which is not empty.

The library's induction theorems take an operator and cannot be used. Where a proof
needs induction over numbers it uses that every set of them has a least element
(`LessWellFounded` with the library's `WFMin`). Each inductive invariant was checked by TLC on the
runs of its module before it was proved. The type
invariants are part of them; they are proved for all values of the constants, so
that no run repeats them.

**`ShutdownCoordinator_proofs`.** The inductive invariant joins to `TypeOK`
three facts. `LoopInv`: stages before `pos` have a verdict, the stage at `pos`
is started exactly if the loop waits, later ones are untouched. `StageInv`:
`failed` is true exactly if some verdict is a failure. `ExitInv`: how `exited`,
`exits`, `forced` and a stage that was cut go together. None of the properties is
inductive without them: that the exit code tells the truth, for example, needs
the loop to have left no stage behind. From it follow `TypeCorrect`,
`ExitsOnce`, `ExitCodeTrue`, `NoneSkipped`, `NothingAfter`, and `Refinement`:
every step maps to a step of `OrderlyExit` or to a stutter. `WatchdogNeverNeeded`
takes a second invariant about time: stage `i` starts no later than
`began + Budget[i]`, and the clock never passes the stage's own timer by more
than the lag, so that a stage that is cut has `Budget[i + 1]` reach the deadline.

**`QemuProcess_proofs`.** `StopInv` relates the await `stopProcess()` is at to
the signals sent, the QMP client and the serial client, and says that a process can
be alive after `stop()` only while `stop()` is still at work on it, which rests on
`start()` having nothing to spawn once `stopping` is set. `PtyInv` says that a PTY is
up only while QEMU runs, which is all that ends one that came back. `TimeInv`
bounds the timer at each await by what the escalation can have used up so far.
From them `TypeCorrect`, `StoppedIsDead`, `EscalatesCompletely`, `StopReleases`
and `StopIsBounded`; the last one is the sum `2C + 2W + K + 5L` for all timeouts.

**`ListeningServer`** has no proof module of its own: its invariant `StopInv` is
proved where it is used, of the share and the proxy of the application
(`ShareKept`, `ProxyKept`) and of the proxy with all its connections
(`ServerKept`). It says that a server that was asked to stop is `stopping` for
good, that one that is gone has no connections, and that a stop resolves only
when it is gone. The first part is what keeps a `start()` under way from
listening, and without the second a stop that finds no server could not resolve
at once. From it `ServersStopForGood`, and of the proxy `StopIsFinal` and `NoneServed`.

**`ProxyConnections_proofs`.** `CountIsExact` and the types need each other: a
`close` takes one off the count, which stays a natural number only because the
socket was still counted. With `NothingAliveWhileStopping`, which holds by itself
once the types do, they are the invariant; `CountAlwaysExact` rests on the
library's facts on cardinalities. `Refinement` maps `Open` and `Doomed` to the two
sets of `ListeningServer`: a handler's step is an `Accept`, a `SocketCloses`, a
`Drop` or a stutter there, and the two that stop everything are `ForceStop` and
`Stop`. Through it `StopInv` holds of the proxy.

**`EgressGate_proofs`.** `TwiceAtMost` is about a client's history of passes and
is not inductive. `History` adds what the windows have to do with it: the passes
of the current window are the last `w <= limit` ones, all before them came no
later than its start, and all before the last `w + limit` a minute earlier than
that. `WindowOpens` and `WindowGrows` show, with plain numbers, that a pass keeps
it; the rest lifts them to the buckets of all clients. `RateLimited` is the bound
for `checkRateLimit` alone, `TwiceAtMostAlways` for the gate, each of whose steps is
one of the limit's or none. `PolicyHolds`, `SecretsGoHome` and
`SecretHostsIntercepted` are stated with `Names`, which looks at the labels only;
the code's matching goes by the spelling. The lemmas from `Normalized` to
`AuthorizedIsHome` show, for any spelling and pattern, that the two agree once a
host is normalised twice. The invariant adds `TargetsCleared`: the target of every
intercepted tunnel was cleared when it was opened, which is all that keeps the
unchecked requests inside it.

**`CertCache_proofs`.** What is on the disk is explained by what is being written:
`PenInv` says the writes still due are the tail of one pair's four writes, and what
they have written so far is there; `PairInv` that a pair that exists, is not half
written and is not `hurt` is `Sound`: the certificate is whole and the key is its own, or is
empty and the owner in `emptied` (`HalfWritten` holds of an owner from the first of the four
writes to the last). A crash before the last write finds the certificate whole and
the key empty, which puts the owner into `emptied`; one before the second or third finds
the key missing, unless the pair was complete before. `AuthorityInv` and `ProcessInv` tie
leaves, pairs in the making and the guest's copy to one authority, for which it
matters that it is only made while the process starts and none is on the disk.
From them `PairsAlwaysMatch`, `AlwaysSignedForTheGuest` and the action property
`AuthorityIsForGood`.

**`QmpClient_proofs`.** `CallerInv` is what `NoLateReplyTaken` needs to be
inductive: the callers that wait are the pending command and those in the queue,
each once, and all on a socket that is there. `SocketInv` says that the connect
loop holds a socket only while it awaits its greeting, never once a later
connect has superseded it, and that each socket the client has let go of had a
reason to go (`TornDownForCause`). Besides the run's properties (`NoneToldByLateReply`,
`NotTornDownByOthers`, `DisconnectedForGood`) this gives `NobodyForgottenAlways`,
the part of `CallersSettle` that is safety, and `CommandsSettleOnce`. `Refinement`
maps the pending command and the queue behind it to the one `line` of
`CommandQueue`, a socket that is there to `connected`: a reply to the pending
command is the answer to the head of the line (`ReceiveRefines`), any other reply
a stutter, `execute()` appends to it (`ExecuteRefines`), and a cleanup loses the
connection with all who wait, or finds none and nobody (`CleanupRefines`).

**`Terminal_proofs`.** First `PtyChannel`, for any lengths of frames, chunks and
buffer. `Whole`, the number of frames a buffer holds whole, is a `CHOOSE`;
`WholeEnds` shows that there is one, by the least number of frames that are not
all there. `BufferInv` says that less of the first frame waits in the buffer than
would let `processBuffer` do something about it (a header, if it is too large), which
gives `NothingEverHeldBack` at once. `DropsOnlyBehind` takes that buffer further, to
the moment of the overflow: it needs no more of the sizes than that a chunk fits
into the buffer, which the code's two do exactly. `Rising`, that
the ends lie in order, is what makes the rest of the stream a stream again
(`DataKeeps`). Then the terminal, whose channel takes only its own steps
(`TerminalKeepsChannel`). What the page will have taken the PTY for, once it has
read its `inbox`, goes by the last message that says anything: `Detached` and
`Attached`. `GoneIsLeft` says that a PTY that is gone without having been dropped is
or will be left, `OpenIsTakenUp` that an open one that has said something is or will
be taken up, unless the page has yet to be answered its `getStatus`; the latter
needs `ClosedMeansOver`, that a `"closed"` is under way only when the channel is
over for good. `SendKeeps` is what a step of main has to see to when it sends
something or nothing, `ReceiveKeeps` what reading a message does. `NeverIntoTheVoid`
and `AlwaysReattached` are the two for a page whose `inbox` is empty.

**`AppLifecycle_proofs`.** Nothing of the components is proved again. Every step
of the application is, seen from the coordinator, from either server and from the
VM, a step of theirs or none (`CoordinatorSteps`, `ShareSteps`, `ProxySteps`,
`VmSteps`; for the VM there are two more, time that passes while no `stop()` waits
and a QEMU that ends when nobody is there to see it). So their inductive invariants
hold here (`Parts`), `ServersStopForGood` among what they say, and `ExitsInOrder` carries the coordinator's refinement of
`OrderlyExit` over to the application. `AppInv` ties them together:

* `Fresh`: what `startVm` has not come to does not exist;
* `VmInv`: stage 1 has set the VM's `stopping` or found no VM, and when it is not
  known to have succeeded QEMU was sent SIGKILL;
* `StagesInv`: a stage that succeeded has stopped its server or seen the directory
  go, and the directory is only touched in stage 4, with QEMU gone.

The argument of the proof is `Justified`: a verdict on a stage, and a step of the
cleanup, has a reason in the component concerned (`StepJustified`, an action at a
time), and no component takes such a reason back (`JustifiedKeeps`, from `VmFrame`,
`ShareFrame`, `ProxyFrame` and `NothingNewWhenQuitting`, which says that `startVm`
begins nothing once the quit has come). From it `StopsLast`, `VmBeforeCleanup`,
`CleanExits` and `NoneLeftBehind`, in whatever order the timeouts lie.
`AskedFirst` is about their order and has it as its hypothesis, `TimesFit`: the
escalation takes less than stage 1 allows it and the stages less than the deadline,
29 s < 30 s and 37 s < 40 s in the code (`app` has it, `app_tight` on purpose has
not). Then `ClockInv`, that stage 1 and `vm.stop()` start their clocks together,
lets the time bounds of the two components exclude both ways in which SIGKILL could
come first.

### Only model-checked

* All liveness: `ExitsEventually`, `CallsSettle`, `CallersSettle`,
  `ConnectSettles`, `QuitExits`, `TunnelEndsWhole`, `HandshakeSettles`, and the
  fairness in `ImplementsOrderlyExit`, `ImplementsServer` and `ImplementsQueue`. The provers do not
  reason about fairness and `ENABLED`.
* `LaunchPlan` has no constants: TLC's check of it covers every host and wish.

## 5. Not modelled, and the plan

Done: the coordinator, the VM's life and how it is launched, the servers' lives,
their composition, the proxy's connections, policy, limits and certificates, the
QMP client, the PTY channel and the terminal. Next, in this order:

1. `WorkspaceSync`: the guest's mount and sync loop against the share.
2. `PtyDaemon`: one client and one shell at a time, and frames to the guest.
3. `QemuProcess` over `CommandQueue`: its own view of QMP, which knows one command
   at a time, as a client of the abstract queue.

Not modelled, within components that are:

* Authentication of the proxy is a guard that changes no state; a request that
  fails it is one that does nothing.
* IPv6 literals, patterns that are not in normal form, and the response headers
  that are stripped.
* Secrets read from files and the environment, and the parsing of the
  configuration file: input that is read once, before anything runs.
* Byte counters and log files, which nothing reads.
* Two instances of the application on one `userData` directory, and the age of
  cached certificates.
* An end of file on one direction of a tunnel, which `pipe()` passes on; a
  socket here ends as a whole.
* The daemon's death in the middle of a frame: its successor's frames are then
  taken for the rest of the old one. The code has no resynchronisation to check.

Further hazards that no property covers, since the code does nothing about them
or nothing claims more than it does: a PTY that comes back
while `vm.stop()` waits stays until QEMU ends (section 2); `getStatus` says ready as soon as
QEMU runs (`main.ts:151`; the model has it); the error event of a failed spawn is
re-emitted without a listener (`qemu.ts:135`), and a reset of a guest's
socket while its CONNECT is being dialled has none either (`egress-proxy.ts:796`); a
CONNECT target is split at its first colon (`egress-proxy.ts:768`); on Windows a
free port is found by listening on it and closing again
(`asset-paths.ts:104`).

Left out for good: the build scripts, images and packaging, which have no state
at run time; Electron's windows and menus; QEMU, Node and the WebDAV library,
which appear only as what they may do to this program.

## 6. Where the code and its documentation differ

1. **The terminal stays with a PTY the channel has dropped** (`terminal_bulk`,
   `FallbackAlways`). `disconnect()` forgets the client, so its `close` event is
   taken for that of an old socket and `"closed"` is never emitted; the page goes
   on sending keys to a PTY that is gone. `src/sandbox/docs/qemu.md:703` and `:713`
   promise `"closed"` on a disconnect and the serial fallback after it.
2. **An error of the connected PTY socket is nobody's.** `pty-channel.ts:39`
   removes the only error listener when the connection is up. A reset is then an
   uncaught exception of the main process instead of the `"error"` that
   `src/sandbox/docs/qemu.md:703` names. `ErrorsAreTold` of `PtyChannel` states the
   claim; it does not hold and no run checks it.
3. **Keys typed during boot are lost.** Nothing fills `pendingPtyInput`, which
   `src/sandbox/docs/qemu.md:716` says buffers them. `BootInputKept` of `Terminal`
   states the claim; it does not hold and no run checks it.
4. **Refused connections are counted down.** `src/sandbox/HARDENING.md:92`,
   `src/sandbox/docs/mitm-plan.md:87` and `src/sandbox/README.md:179` say that a
   connection over the limit stays in the count for ever. The code registers the
   decrement first (`egress-proxy.ts:467`), and `CountIsExact` holds.
5. **The rate limit does not slide.** `egress-proxy.ts:492` calls it a
   sliding minute; windows start with a request and end a minute later, so up to
   twice the limit passes within a minute (`TwiceAtMost`), against the maximum per
   minute of `src/sandbox/src/config.ts:79`.
6. **`allowHosts` is not used in denylist mode**, where
   `src/sandbox/src/config.ts:42` says that its hosts are never allowed.
7. **An x86_64 guest on a Mac gets `microvm` under emulation**, since the probe's
   `tcg` is not the name `machineFor` compares with (`qemu.ts:390`,
   `guest-profile.ts:51`). `src/sandbox/docs/macos-issues.md:143` says `microvm` is
   for hardware acceleration only; `src/sandbox/docs/qemu.md:121` knows of the gap.
8. **A leaf whose key file was empty when the process died stays so.**
   `ensureLeafCertificate` looks for the two files, not into them
   (`egress-proxy.ts:302`), and `writeFileSync` creates the key file before it fills
   it (`egress-proxy.ts:329`). After a crash between the two every CONNECT to that
   host is given the certificate with an empty key, in all later sessions, until the
   file is deleted by hand. The comment at
   `egress-proxy.ts:286` says that the function generates or loads a certificate;
   `src/sandbox/HARDENING.md:111` says that the existence of both files is what
   selects reuse. The same happens to a pair that a second generation was writing
   over. The authority is as exposed (`egress-proxy.ts:256`): with an empty key no
   leaf can be signed, and no interception works. `LeafIsWhole` of `CertCache` states
   the claim; it does not hold and no run checks it. `PairsMatch` names the exceptions.

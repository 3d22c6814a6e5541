------------------------------ MODULE LaunchPlan ------------------------------
(* How a guest architecture, an accelerator, a machine and the arguments of   *)
(* QEMU are chosen: main.ts (startVm), guest-profile.ts, asset-paths.ts and   *)
(* qemu.ts (checkAccel, resolveAccels, buildArgs). The host is probed for an  *)
(* accelerator twice, for the status and for the arguments, and may answer    *)
(* differently.                                                               *)
EXTENDS Naturals, Sequences

Archs == {"x86_64", "aarch64"}
TCG == "tcg,thread=multi"
Assets == {"binary", "root", "workspace"} \X Archs

VARIABLES
  host,      \* [platform, arch], and the assets that are staged
  wanted,    \* sandbox.config.json: [guest, accel], "unset" if not there
  phase,     \* how far startVm has come: "select", "images", "probe", "args", "launched" or "failed"
  arch,      \* the guest's architecture
  reported,  \* what the "accel" event says: [name, available]
  found,     \* history: what the second probe found
  args       \* the command line, as far as it is chosen

vars == <<host, wanted, phase, arch, reported, found, args>>

Unprobed == [name |-> "none", available |-> FALSE]

Init ==
  /\ host \in [platform : {"linux", "darwin", "win32"}, arch : {"x64", "arm64"}, has : SUBSET Assets]
  /\ wanted \in [guest : Archs \cup {"unset"}, accel : {"unset", "auto", "kvm", "hvf", "whpx", "tcg"}]
  /\ phase = "select" /\ arch = "x86_64" /\ reported = Unprobed /\ found = Unprobed /\ args = <<>>
-----------------------------------------------------------------------------
selectGuest ==
  IF wanted.guest # "unset" THEN wanted.guest
  ELSE IF host.platform = "darwin" /\ host.arch = "arm64"
          /\ {<<"binary", "aarch64">>, <<"root", "aarch64">>} \subseteq host.has
  THEN "aarch64" ELSE "x86_64"

Select ==
  /\ phase = "select"
  /\ arch' = selectGuest
  /\ phase' = IF <<"root", arch'>> \in host.has THEN "images" ELSE "failed"
  /\ UNCHANGED <<host, wanted, reported, found, args>>

(* After the share has started; the proxy starts behind it. *)
CheckImages ==
  /\ phase = "images"
  /\ phase' = IF <<"workspace", arch>> \in host.has THEN "probe" ELSE "failed"
  /\ UNCHANGED <<host, wanted, arch, reported, found, args>>

Found(name) == [name |-> name, available |-> TRUE]
Maybe(name) == [name : {name}, available : BOOLEAN]

(* What a probe may answer: /dev/kvm is there and accessible or not, a trial  *)
(* run with WHPX outlives its 300 ms or not, the rest is assumed.             *)
checkAccel ==
  IF host.platform = "linux" THEN Maybe("kvm")
  ELSE IF host.platform = "win32" /\ arch = "x86_64" THEN Maybe("whpx")
  ELSE IF host.platform = "darwin" /\ arch = "aarch64" /\ host.arch = "arm64" THEN {Found("hvf")}
  ELSE {Found("tcg")}

Chosen == wanted.accel \in {"kvm", "hvf", "whpx"}

Reported(info) ==
  IF Chosen THEN [name |-> wanted.accel, available |-> wanted.accel = info.name /\ info.available]
  ELSE info

Report ==
  /\ phase = "probe"
  /\ \E info \in checkAccel : reported' = Reported(info)
  /\ phase' = "args"
  /\ UNCHANGED <<host, wanted, arch, found, args>>

AnyOverride(info) == info.available \/ Chosen
MayUse(info) == info.available /\ (Chosen => info.name = wanted.accel)

Accelerators(info) == (IF Chosen THEN <<wanted.accel>> ELSE <<info.name>>) \o <<TCG>>

resolveAccels(info) ==
  IF wanted.accel # "tcg" /\ MayUse(info) THEN Accelerators(info) ELSE <<TCG>>

machineFor(a) ==
  IF arch = "aarch64" THEN "virt" ELSE IF a # TCG THEN "microvm" ELSE "pc"

HostForAny(a) == IF a = TCG THEN "max" ELSE "host"
cpuFor(a) ==
  IF a = "hvf" \/ (a = "kvm" /\ arch = "x86_64") THEN "host"
  ELSE IF a = "whpx" /\ arch = "x86_64" THEN "default" ELSE "max"

buildArgs(info) ==
  LET accels == resolveAccels(info)
      machine == machineFor(accels[1])
  IN [binary |-> IF <<"binary", arch>> \in host.has THEN "bundled" ELSE "on the path",
      accels |-> accels, machine |-> machine, cpu |-> cpuFor(accels[1]),
      gic |-> machine = "virt" /\ arch = "aarch64",
      nodefaults |-> machine # "virt",
      bus |-> IF arch = "x86_64" /\ machine = "microvm" THEN "-device" ELSE "-pci",
      reboot |-> arch = "x86_64" /\ machine = "microvm",
      console |-> IF arch = "aarch64" THEN "ttyAMA0" ELSE "ttyS0",
      sockets |-> IF host.platform = "win32" THEN "tcp" ELSE "unix"]

(* buildArgs, up to spawn. *)
Launch ==
  /\ phase = "args"
  /\ \E info \in checkAccel : found' = info /\ args' = buildArgs(info)
  /\ phase' = "launched"
  /\ UNCHANGED <<host, wanted, arch, reported>>

Next == Select \/ CheckImages \/ Report \/ Launch
Spec == Init /\ [][Next]_vars
-----------------------------------------------------------------------------
(* The command line describes one machine, on every host and for every wish:  *)
(* -cpu host only under an accelerator that can pass the CPU through and was  *)
(* found (guest-profile.ts:44), MMIO devices and reboot=t for microvm and     *)
(* only there, and -nodefaults everywhere but on virt, whose UART it would    *)
(* take away (qemu.ts:295).                                                   *)
OneMachine ==
  phase = "launched" =>
    /\ args.cpu = "host" => args.accels[1] \in {"kvm", "hvf"} /\ found = Found(args.accels[1])
    /\ args.bus = "-device" <=> args.machine = "microvm"
    /\ args.reboot <=> args.machine = "microvm"
    /\ args.nodefaults <=> args.machine # "virt"
    /\ args.console = "ttyAMA0" <=> args.machine = "virt"
    /\ args.machine = "virt" => args.gic /\ arch = "aarch64"

(* Whatever the host's two answers were, QEMU is left with emulation as the   *)
(* last resort, and no hardware is passed that was not found or that the user *)
(* did not ask for (qemu.ts:423). If the second answer means the same status, the *)
(* accelerator that the status names as available is the one QEMU is passed,  *)
(* and none is passed otherwise (qemu.ts:77, 424).                            *)
EmulationIsLast ==
  phase = "launched" =>
    /\ args.accels[Len(args.accels)] = TCG
    /\ Len(args.accels) = 2 => found = Found(args.accels[1])
    /\ (Len(args.accels) = 2 /\ wanted.accel \notin {"unset", "auto"}) => args.accels[1] = wanted.accel
    /\ wanted.accel # "tcg" /\ Reported(found) = reported =>
         /\ reported.available <=> Len(args.accels) = 2
         /\ reported.available => args.accels[1] = reported.name
=============================================================================

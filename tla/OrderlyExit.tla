----------------------------- MODULE OrderlyExit -----------------------------
(* What a shutdown promises its caller: the stages are dealt with in order,  *)
(* a failed one does not stop the rest, the process is told to exit once, and *)
(* the exit is clean only if every stage succeeded. Only an emergency, which  *)
(* forces everything, may leave stages out, and its exit is never clean.      *)
EXTENDS Naturals

CONSTANT NStages

VARIABLES phase,   \* "idle", "running", "clean", "dirty" or "aborted"
          result   \* of each stage: "none", "ok" or "failed"

absvars == <<phase, result>>

Settled(i) == result[i] # "none"

Init == phase = "idle" /\ result = [i \in 1..NStages |-> "none"]

Request == phase = "idle" /\ phase' = "running" /\ UNCHANGED result

Settle(i, r) ==
  /\ phase = "running"
  /\ ~Settled(i)
  /\ \A j \in 1..(i - 1) : Settled(j)
  /\ result' = [result EXCEPT ![i] = r]
  /\ UNCHANGED phase

Conclude ==
  /\ phase = "running"
  /\ \A i \in 1..NStages : Settled(i)
  /\ phase' = IF \A i \in 1..NStages : result[i] = "ok" THEN "clean" ELSE "dirty"
  /\ UNCHANGED result

Abort == phase = "running" /\ phase' = "aborted" /\ UNCHANGED result

Progress == (\E i \in 1..NStages, r \in {"ok", "failed"} : Settle(i, r)) \/ Conclude \/ Abort

Next == Request \/ Progress

SafeSpec == Init /\ [][Next]_absvars

Spec == SafeSpec /\ WF_absvars(Progress)
=============================================================================

----------------------------- MODULE CommandQueue -----------------------------
(* What a QMP client promises whoever executes commands over it: they are     *)
(* answered in the order they came, one after the other, and when the         *)
(* connection goes every command that still waits is cut, so that none is     *)
(* carried over to the next connection.                                       *)
EXTENDS Sequences

CONSTANT Commands

VARIABLES connected,  \* execute() takes commands
          line,       \* the commands that wait, the oldest first
          outcome     \* of each command: "none", "waiting", "resolved", "rejected" or "cut"

queuevars == <<connected, line, outcome>>

Init == connected = FALSE /\ line = <<>> /\ outcome = [c \in Commands |-> "none"]

Connect == ~connected /\ connected' = TRUE /\ UNCHANGED <<line, outcome>>

Execute(c) ==
  /\ connected /\ outcome[c] = "none"
  /\ line' = Append(line, c)
  /\ outcome' = [outcome EXCEPT ![c] = "waiting"]
  /\ UNCHANGED connected

Answer(verdict) ==
  /\ line # <<>>
  /\ line' = Tail(line)
  /\ outcome' = [outcome EXCEPT ![Head(line)] = verdict]
  /\ UNCHANGED connected

Lose ==
  /\ connected
  /\ connected' = FALSE /\ line' = <<>>
  /\ outcome' = [c \in Commands |-> IF outcome[c] = "waiting" THEN "cut" ELSE outcome[c]]

AnyAnswer == \E verdict \in {"resolved", "rejected"} : Answer(verdict)

Next == Connect \/ Lose \/ AnyAnswer \/ \E c \in Commands : Execute(c)

SafeSpec == Init /\ [][Next]_queuevars

(* A command that waits is answered or cut. *)
Spec == SafeSpec /\ WF_queuevars(line # <<>> /\ (Lose \/ AnyAnswer))
=============================================================================

-------------------------------- MODULE MCApp --------------------------------
(* main.ts's timeouts divided by three and rounded so that their order stays: *)
(* 2 + 2 + 10 + 10 + 5 < 30 < 31 becomes 1 + 1 + 3 + 3 + 1 < 10 < 11.         *)
EXTENDS AppLifecycle

AppTimeout == <<11, 1, 1, 1>>
AppBudget == <<0, 11, 12, 13, 14>>

(* A deadline and a stage 1 that are too short for the escalation: the inner  *)
(* timeout of stage 1 and the watchdog force the VM down in the middle of it. *)
TightTimeout == <<5, 1, 1, 1>>
TightBudget == <<0, 5, 6, 7, 8>>
=============================================================================

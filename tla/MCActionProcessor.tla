-------------------------- MODULE MCActionProcessor --------------------------
(* The action thread with three actions, of up to two files each, and a       *)
(* manager that may take, decline or fail any call.                         *)
EXTENDS ActionProcessor
=============================================================================

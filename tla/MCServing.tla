-------------------------------- MODULE MCServing --------------------------------
(* One connection for two requests and the task. *)
EXTENDS Gateway

CONSTANTS q1, q2
=============================================================================

-------------------------------- MODULE MCFlow --------------------------------
(* FlowEngine with the Workflows its runs are given. *)
EXTENDS FlowEngine, Workflows
===============================================================================

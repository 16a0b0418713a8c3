-------------------------------- MODULE MCStage --------------------------------
(* Retry budgets for the runs of StageExecutor. *)
EXTENDS StageExecutor

BothLimits == {1, Unlimited}
=============================================================================

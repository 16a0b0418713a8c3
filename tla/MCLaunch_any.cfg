\* Launches that resume, force and refuse, with crashes and errors in between.
CONSTANTS
  W1 = W1
  W2 = W2
  P1 = P1
  P2 = P2
  None = None
  Command <- Anything
  WorkflowText <- Texts
  Prompt <- Prompts
  BackupMayFail = TRUE
  MaxProgress = 1
  MaxLaunches = 3
  MaxCrashes = 2
  MaxErrors = 1
  MaxLosses = 0
SPECIFICATION Spec
INVARIANT RunKeepsWorkflow
INVARIANT NoRollback
INVARIANT RestartContinuesRun

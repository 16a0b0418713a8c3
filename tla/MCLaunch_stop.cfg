\* One run that is stopped, crashes, is restarted and loses its state.json.
CONSTANTS
  W1 = W1
  W2 = W2
  P1 = P1
  P2 = P2
  None = None
  Command <- OneRun
  WorkflowText <- Texts
  Prompt <- Prompts
  BackupMayFail = FALSE
  MaxProgress = 3
  MaxLaunches = 2
  MaxCrashes = 2
  MaxErrors = 1
  MaxLosses = 1
SPECIFICATION SupervisedSpec
INVARIANT RestoredIsRecent
PROPERTY StopHonoured
PROPERTY EveryLaunchEnds

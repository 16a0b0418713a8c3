\* A plan of two tasks or of nested producers, replanned by a Review of the whole.
CONSTANTS
  Label <- Text
  SafeName <- Safe
  Workflow <- PlanWorkflow
  FlowId <- PlanFlows
  FlowTasks <- PlanTasks
  FlowStages <- PlanStages
  NoFlow = NoFlow
  MaxCycles = 5
  CycleCap = 5
  MaxCrashes = 1
SPECIFICATION Spec
INVARIANTS
  TypeOK
  SavedStateResumable
  CompletedHasNoPendingTask
  VerdictBudget
  ResumeRepeatsInput
  NoStaleChildren
PROPERTIES
  BackwardMovesCount
  OnlyOwnStageCompletesTask

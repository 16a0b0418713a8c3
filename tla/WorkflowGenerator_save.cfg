CONSTANTS
  MaxJobs = 1
  MaxCancels = 0
  MaxDeaths = 0
SPECIFICATION Spec
PROPERTY SaveCreatesWorkflow
CHECK_DEADLOCK FALSE

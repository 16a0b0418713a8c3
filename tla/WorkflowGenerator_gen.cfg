\* Two jobs, one cancelled, and one process that dies.
CONSTANTS
  MaxJobs = 2
  MaxCancels = 1
  MaxDeaths = 1
SPECIFICATION Spec
INVARIANTS
  BuilderIsActive
PROPERTIES
  JobEnds
CHECK_DEADLOCK FALSE

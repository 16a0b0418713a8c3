\* Runs, Lists and calls that must end, one of them in a behavior.
CONSTANTS
  Items = 3
  Skippable = {1}
  Leftovers = {}
  MaxTransient = 1
  MaxWorkerDeaths = 2
  Writes = 4
  Reads = 3
  PipeSize = 1
  QueueSize = 2
  NoFlow = NoFlow
SPECIFICATION Spec
PROPERTIES
  RunsEnd
  ListImplements
  CallReturns
CHECK_DEADLOCK FALSE

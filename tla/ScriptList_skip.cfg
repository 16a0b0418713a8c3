CONSTANTS
  Items = 3
  Skippable = {1}
  Leftovers = {}
  MaxTransient = 1
  MaxWorkerDeaths = 2
SPECIFICATION ListSpec
INVARIANT ExhaustedItemSkipped
CHECK_DEADLOCK FALSE

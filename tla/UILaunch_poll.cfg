CONSTANTS
  Racing = {TRUE}
  MaxLaunches = 2
  MaxRequests = 3
  MaxUIDeaths = 0
SPECIFICATION Spec
INVARIANT OneRuntime
CHECK_DEADLOCK FALSE

\* A Runner started twice and stopped, cleared, reset and asked again, without a race of a poll.
CONSTANTS
  Racing = {FALSE}
  MaxLaunches = 2
  MaxRequests = 3
  MaxUIDeaths = 1
SPECIFICATION Spec
INVARIANTS
  OneRuntimeUnraced
PROPERTIES
  AnswersOnce
  ResetSparesRuntime
  Unblocked
CHECK_DEADLOCK FALSE

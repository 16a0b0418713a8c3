\* Two votes, with one retry or any number, in a worker that may die and may execute the Stage twice.
CONSTANTS
  Policies = {"role", "fresh", "review"}
  Limits <- BothLimits
  Runs = 2
  Repairs = 1
  BaseDelay = 1
  MaxDelay = 2
  MaxSessions = 4
  MaxAttempts = 3
  MaxRestarts = 1
  MaxRepeats = 1
SPECIFICATION FairSpec
INVARIANTS
  VotesSound
  SessionsSound
PROPERTIES
  Implements
CHECK_DEADLOCK FALSE

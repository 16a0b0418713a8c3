\* Every protocol around a run that is small, by itself.
CONSTANTS
  Launch = {l1, l2, l3}
  Survivor = {l1, l2}
  Pid = {i1, i2, i3}
  ReusePids = TRUE
  Nobody = Nobody
  MaxCrashes = 0
  MaxStalls = 0
  MaxAgents = 3
  MaxWorkers = 3
  Immortal = {2}
  Files = 3
  Publications = 3
  Path = {p1, p2}
  Guarded = {p2}
  Contents = 2
  MaxAttempts = 3
  Project = {w1}
  PromptName = {n1, n2}
  Slot = {1, 2}
  Global = Global
  MaxEdits = 6
  Client = {c1, c2, c3}
  Entry = {e1, e2}
  Free = Free
  MaxCallerDeaths = 1
  Trial = {t1, t2}
  CancelCap = 1
  StageName = {a, b}
  Absent = Absent
  Value <- TextValue
  Config <- TextConfig
  MaxPatches = 2
  MaxUndo = 1
  MaxStages = 2
  MaxDraftEdits = 2
  MaxMine = 2
  MaxTheirs = 1
  MaxRequests = 2
  MaxReloads = 2
  PromptId = {m1, m2}
  MaxTyped = 1
  MaxForeign = 1
  MaxDeaths = 1
  DryStages = 3
  Candidate <- Workflows3
  MaxSteps = 12
  PageProject = {g1, g2}
  Home = g1
  MaxClock = 2
  MaxReads = 2
  MaxSends = 2
  MaxFails = 1
  MaxSelects = 1
SPECIFICATION Spec
INVARIANTS
  MutualExclusion
  LoneLaunchStarts
  NoOrphan
  NothingLost
  AttemptRestored
  PromptsResolve
  ProjectsKept
  CancelStops
  TextIsMeant
  CanvasSound
  
  
  PageSound
  MatrixSound
CHECK_DEADLOCK FALSE

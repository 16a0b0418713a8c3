\* Two launches take over the lock of a killed Supervisor.
CONSTANTS
  Launch = {l1, l2, l3}
  Pid = {i1, i2, i3}
  ReusePids = FALSE
  Nobody = Nobody
  MaxCrashes = 1
  MaxStalls = 0
SPECIFICATION LockSpec
INVARIANT MutualExclusion

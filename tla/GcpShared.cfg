SPECIFICATION RetrySpec
CONSTANTS
  r1 = r1  r2 = r2
  percona = percona  other = other  default = default
  None = None
  Resource = {r1, r2}
  Name = {percona, other, default}
  Default = default
  Foreign = {}
  VpcName <- SameName
  IgnoreErrors = FALSE
  MaxFaults = 2
  MaxKills = 1
  MaxUpdates = 1
INVARIANTS TypeOK LockOwner NetworksAccounted
PROPERTIES CutOffOnlyByFirewall CreatesDoNotDisturb ImplementsLifecycle CreateEnds DestroyConverges
CHECK_DEADLOCK FALSE

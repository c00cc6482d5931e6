SPECIFICATION Spec
CONSTANTS
  r1 = r1  r2 = r2
  percona = percona  other = other  default = default
  None = None
  Resource = {r1, r2}
  Name = {percona, other, default}
  Default = default
  Foreign = {}
  VpcName <- SameName
  IgnoreErrors = TRUE
  MaxFaults = 1
  MaxKills = 0
  MaxUpdates = 0
PROPERTIES IgnoredErrorsLoseNothing
CHECK_DEADLOCK FALSE

SPECIFICATION Spec
CONSTANTS
  r1 = r1  r2 = r2
  percona = percona  other = other  default = default
  None = None
  Resource = {r1, r2}
  Name = {percona, other, default}
  Default = default
  Foreign = {percona}
  VpcName <- SameName
  IgnoreErrors = TRUE
  MaxFaults = 2
  MaxKills = 1
  MaxUpdates = 0
PROPERTIES IgnoredErrorsDoNotStop
CHECK_DEADLOCK FALSE

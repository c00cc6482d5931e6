SPECIFICATION Spec
CONSTANTS
  r1 = r1  r2 = r2  r3 = r3  f1 = f1  f2 = f2
  c1 = c1  c2 = c2  percona = percona  pem = pem  None = None  Torn = Torn
  Resource = {r1, r2, r3}
  Foreign = {f1, f2}
  Cloud = {c1, c2}
  CloudOf <- TwoCloudsOf
  VpcName <- MixedName
  WantedId <- MixedId
  KeyName <- OneKey
  KeyFile <- OneFile
  IgnoreErrors = FALSE
  FullPage = TRUE
  MaxFaults = 1
  MaxKills = 0
INVARIANTS PlacementConsistent
CHECK_DEADLOCK FALSE

SPECIFICATION FairSpec
CONSTANTS
  r1 = r1  r2 = r2  r3 = r3  f1 = f1  f2 = f2
  c1 = c1  c2 = c2  percona = percona  pem = pem  None = None  Torn = Torn
  Resource = {r1, r2}
  Foreign = {}
  Cloud = {c1}
  CloudOf <- OneCloudOf
  VpcName <- SameName
  WantedId <- ById
  KeyName <- OneKey
  KeyFile <- OneFile
  IgnoreErrors = TRUE
  FullPage = FALSE
  MaxFaults = 1
  MaxKills = 0
PROPERTIES CreateEnds
CHECK_DEADLOCK FALSE

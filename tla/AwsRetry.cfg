SPECIFICATION RetrySpec
CONSTANTS
  r1 = r1  r2 = r2  r3 = r3  f1 = f1  f2 = f2
  c1 = c1  c2 = c2  percona = percona  pem = pem  None = None  Torn = Torn
  Resource = {r1, r2}
  Foreign = {}
  Cloud = {c1, c2}
  CloudOf <- TwoCloudsOf
  VpcName <- SameName
  WantedId <- ById
  KeyName <- OneKey
  KeyFile <- OneFile
  IgnoreErrors = FALSE
  FullPage = TRUE
  MaxFaults = 1
  MaxKills = 0
PROPERTY DestroyConverges
CHECK_DEADLOCK FALSE

SPECIFICATION Spec
CONSTANTS
  r1 = r1  r2 = r2  r3 = r3  f1 = f1  f2 = f2
  c1 = c1  c2 = c2  percona = percona  pem = pem  None = None  Torn = Torn
  Resource = {r1, r2}
  Foreign = {}
  Cloud = {c1}
  CloudOf <- OneCloudOf
  VpcName <- SameName
  WantedId <- ById
  KeyName <- OneKey
  KeyFile <- OneFile
  IgnoreErrors = FALSE
  FullPage = TRUE
  MaxFaults = 2
  MaxKills = 1
INVARIANTS TypeOK LockOwner OneVpcPerName
PROPERTIES CutOffOnlyByRouteTable DestroyStoppedByOthers CreatesDoNotDisturb ImplementsLifecycle
CHECK_DEADLOCK FALSE

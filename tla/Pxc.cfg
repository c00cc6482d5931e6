SPECIFICATION Spec
CONSTANTS
  Configs <- SmallClusters
  Available <- Packages
  Newest <- NewPackage
  MaxFaults = 2
INVARIANTS TypeOK OneCluster VersionsAgree SettingsInForce NothingMissing OnlyErasedErrorsHide
PROPERTIES ImplementsCreation
CHECK_DEADLOCK FALSE

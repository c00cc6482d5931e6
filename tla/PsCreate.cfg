SPECIFICATION FairSpec
CONSTANTS
  Configs <- SmallClusters
  MaxFaults = 2
INVARIANTS TypeOK ReplicasFollowMaster OneGroup DiscoverLast OnlyErasedErrorsHide SettingsInForce NothingMissing
PROPERTIES ImplementsCreation CreateReturns
CHECK_DEADLOCK FALSE

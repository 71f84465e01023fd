SPECIFICATION FairSpec
CONSTANTS
  Cap = 2
  PageSize = 2
  BatchSize = 3
  MaxRows = 3
  MaxProvisional = 1
  MaxFaults = 2
INVARIANTS TypeOK SnapshotAndStreamMeet
PROPERTIES ImplementsFeed ActivationFits EventuallyReceived

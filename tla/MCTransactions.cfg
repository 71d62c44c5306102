CONSTANTS
  UpgradeFiles = 2
  UpgradeRecords = 2
  Feature = {1, 2}
  Person = {ann, bob}
  Domains = 2
  Touches <- MCTouches
  MinApprovals = 2
  Revisions = 2
  Pack = {1, 2}
  PackFile = {1, 2, 3, 4}
  PackOffers <- MCPackOffers
  Integration = {1, 2}
  Target = {1, 2, 3}
  IntegrationOffers <- MCIntegrationOffers
  Contents = 2
  LockWriter = {1, 2, 3}
  StoreWriter = {1, 2}
  StorePart = {1, 2, 3, 4}
  StoreRootOf <- MCRoots
  StoreMetadata = 1
  StoreDeltas = {2, 3}
  StoreDocument = 4
  StoreManifests <- MCManifests
  StoreDeclarations <- MCDeclarations
  StoreWithin <- MCWithin
  StoreCalls <- MCCalls
  StoreDisks <- MCDisks
  StoreEdits <- MCEdits
  StoreCreates <- MCCreates
  Task = {1, 2}
  NoTask = 0
  Source = {"s1"}
  Digest = {"d1", "d2"}
  RunCommit = {"c1"}
  NoCommit = "none"
  Resumer = {1, 2}
  Priors <- MCPriors
  RunRequests <- MCRequests
  MaxTries = 4
  Troubles = 2
  FewTroubles = 1
SPECIFICATION FairSpec
INVARIANTS CanBeTakenUp WholeAndOwned
PROPERTIES RecordsAreTrue OwnBytesStay InterruptedIsFinished
CHECK_DEADLOCK FALSE

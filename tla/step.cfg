CONSTANTS
  Id <- OneFinding
  Step = {"req-analysis", "req-generation"}
  Run = {"r0", "r1", "r2"}
  Human = "human"
  NoRun = "none"
  NoOne = NoOne
  None = None
  Calls <- Calls1
  MaxLinks = 3
  Case <- AllCases
  Plan <- PlanTwo
  RepairAttempts = 2
  Texts <- Texts1
  Skeleton <- Skeleton1
SPECIFICATION FairSpec
CHECK_DEADLOCK FALSE
INVARIANTS SummaryVouches NoEarlyGiveUp OutputsOrdered InputsKept LinksMinted NoStrayIdentity
PROPERTY EveryRunEnds

CONSTANTS
  Artifacts = {"billing", "requirements", "design"}
  Shared = {"billing"}
  Constitution = "constitution"
  Contexts = {"billing"}
  REQUIRED_PINS <- MCRequired
  NoFile = NoFile
  MaxVersion <- MCMaxVersion
SPECIFICATION Spec
CHECK_DEADLOCK FALSE
INVARIANTS PinsResolveOnMain UpToDatePasses
PROPERTIES MergedIsFresh

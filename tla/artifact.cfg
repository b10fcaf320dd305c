CONSTANTS
  Line <- MCLine
  MaxAstray = 3
  MayGrow <- MCMayGrow
  Sections <- MCSections
  Keys <- MCKeys
  Needs <- MCNeeds
SPECIFICATION Spec
CHECK_DEADLOCK FALSE
INVARIANTS ReadsAsWritten CleanIsComplete

CONSTANTS
  Type = {"conflict", "gap"}
  Route = {"human", "ddd"}
  Target = {"G1", "G2"}
  Expectations <- MCExpectations
  Analyses <- MCAnalyses
  Limits <- MCScoreLimits
  Term = {"t1", "t2", "t3", "t4"}
  Context = {"c1", "c2"}
  References <- MCReferences
  Runs <- MCRuns
  CoverageLimit = 850
  CaseLists <- MCLists
  K = 2
  Outcomes <- MCOutcomes
  Hard <- MCHard
  SuiteLimits <- MCSuiteLimits
SPECIFICATION EvaluationSpec
CHECK_DEADLOCK FALSE
INVARIANTS BestFirst BlockersStopThePipeline PassIsEarned
  AlignedOneToOne MergedIntoMatched CoveredIsDecided NearestFirst
  SuitePassIsEarned FailIsDeserved ReportIsComplete

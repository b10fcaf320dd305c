CONSTANTS
  Id <- MCId
  Step = {"req-analysis", "req-generation", "design-generation"}
  Run = {"r1"}
  Human = "alice"
  NoRun = "none"
  NoOne = NoOne
  Calls <- MCCalls
  MaxLinks = 3
  Written <- MCWritten
SPECIFICATION Spec
INVARIANTS ApprovedIsCovered PeopleDecide

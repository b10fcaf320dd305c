CONSTANTS
  Id <- MCId
  Step = {"req-analysis", "req-generation"}
  Run = {"r1", "none"}
  Human = "human"
  NoRun = "none"
  NoOne = NoOne
  Calls <- MCCalls
  HumanLinks <- MCHumanLinks
  MaxLinks = 3
SPECIFICATION Spec
PROPERTIES ForeignLinksStay NoNewLinkProblems

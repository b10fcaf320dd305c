CONSTANTS
  Id <- MCId
  Step = {"req-analysis", "req-generation"}
  Run = {"r1"}
  Human = "human"
  NoRun = "none"
  NoOne = NoOne
  Malformed = Malformed
  Calls <- MCCalls
  MaxLinks = 3
  Files <- MCFlowFiles
  HumanLinks <- MCHumanLinks
  Editable <- MCEditable
SPECIFICATION Spec
PROPERTY ForeignLinksKept

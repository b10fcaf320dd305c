CONSTANTS
  Id <- MCId
  Step = {"req-analysis", "req-generation"}
  Run = {"r1"}
  Human = "human"
  NoRun = "none"
  NoOne = NoOne
  Malformed = Malformed
  Calls <- MCCalls
  MaxLinks = 3
  Files <- MCBlockFiles
  HumanLinks <- MCHumanLinks
  Editable <- MCEditable
SPECIFICATION Spec
INVARIANTS RoundTrip 
PROPERTIES ImplementsLinkStore OtherLinesKept HeaderBlockKept

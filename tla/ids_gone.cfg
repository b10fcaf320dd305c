CONSTANTS
  Kinds = {"glossary", "design"}
  Headers <- MCHeaders
  Series = {"REQ0", "REQ1"}
  Items <- TwoSeries
  Steps = {"ddd-strategic"}
  NoStep = NoStep
  NoFile = NoFile
  Garbled = Garbled
  MaxCommits = 3
  MaxVersion = 2
  Others <- MCOthers
SPECIFICATION BranchSpec
CONSTRAINT Fits
PROPERTY IdsNeverDisappear

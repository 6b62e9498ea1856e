SPECIFICATION Spec
CONSTANTS
  main = main
  pch = pch
  common = common
  util = util
  Units <- OneSource
  Pch = pch
  Headers <- TwoHeaders
  Includes <- IncludeOne
  MaxStamp = 2
  MaxBuilds = 3
CHECK_DEADLOCK FALSE
INVARIANT TypeOK
INVARIANT SourceEditsAreSeen
INVARIANT HeaderEditsAreSeen
INVARIANT UpToDateIsCurrent
INVARIANT NothingLeftToDo

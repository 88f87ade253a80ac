SPECIFICATION FairSpec
CONSTANTS
  Proc <- TwoModels
  Nam <- LagsNam
  Program <- LagsProgram
  RunTime = 6
  LastRun = 2
  Script <- ScriptTable
INVARIANTS
  AllConsumed
PROPERTIES
  ClockSpec
  Completes

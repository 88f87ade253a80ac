SPECIFICATION Spec
CONSTANTS
  Proc <- ThreeModels
  Nam <- TwoLagsNam
  Program <- TwoLagsProgram
  RunTime = 4
  LastRun = 1
  Script <- ScriptTable
INVARIANTS
  TimesMatch

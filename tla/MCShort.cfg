SPECIFICATION Spec
CONSTANTS
  Proc <- TwoModels
  Nam <- ShortNam
  Program <- ShortProgram
  RunTime = 3
  LastRun = 3
  Script <- ScriptTable
INVARIANTS
  WindowExact

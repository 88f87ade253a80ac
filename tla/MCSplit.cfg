SPECIFICATION Spec
CONSTANTS
  Proc <- ThreeModels
  Nam <- SplitNam
  Program <- SplitProgram
  RunTime = 4
  LastRun = 1
  Script <- ScriptTable
INVARIANTS
  NoAbort

SPECIFICATION Spec
CONSTANTS
  Proc <- TwoModels
  Nam <- SeqNam
  Program <- GetGetProgram
  RunTime = 4
  LastRun = 1
  Script <- ScriptTable
INVARIANTS
  NoHang

SPECIFICATION Spec
CONSTANTS
  Proc <- FourModels
  Nam <- MisuseNam
  Program <- MisuseProgram
  RunTime = 6
  LastRun = 1
  Script <- ScriptTable
INVARIANTS
  NoPeriodMissed
  SequenceKept

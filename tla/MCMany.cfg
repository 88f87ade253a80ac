SPECIFICATION Spec
CONSTANTS
  Proc <- ThreeModels
  Nam <- ManyNam
  Program <- ManyProgram
  RunTime = 4
  LastRun = 2
  Script <- ScriptTable
INVARIANTS
  TypeOK
  TimesMatch
  WindowExact
PROPERTIES
  NoStaleDelivery

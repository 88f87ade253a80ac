SPECIFICATION FairSpec
CONSTANTS
  NModels = 3
  NamFile <- TargetsNam
  Programs <- TargetsPrograms
PROPERTY SetupEnds
CHECK_DEADLOCK FALSE

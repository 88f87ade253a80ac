SPECIFICATION RoutedSpec
CONSTANTS
  NModels = 3
  NamFile <- SetupNam
  Programs <- SetupPrograms
  Layouts <- SetupLayouts
  Rounds = 2
INVARIANTS
  TypeOK
  CouplersSorted
  TagsIdentify
  RoutersPaired
  EndsAgree
  FieldsPaired
  FaultsCaught
  SetupGivesEnds
  Delivered
  NoRankWaits
  RoutersFit
PROPERTY
  SetupEnds
CHECK_DEADLOCK FALSE

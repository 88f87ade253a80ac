SPECIFICATION RoutedSpec
CONSTANTS
  NModels = 3
  NamFile <- SetupNam
  Programs <- GoodPrograms
  Layouts <- UnorderedLayouts
  Rounds = 1
INVARIANT NoRankWaits
CHECK_DEADLOCK FALSE

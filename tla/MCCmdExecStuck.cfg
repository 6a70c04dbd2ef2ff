SPECIFICATION FairSpec
CONSTANTS
  Programs <- MCPrograms
  PipeCap = 2
  MaxLen <- MCMaxLen
  Arenas <- MCArenas
  MaxIntr = 0
PROPERTY CmdReturns
CHECK_DEADLOCK FALSE

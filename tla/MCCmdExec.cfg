SPECIFICATION FairSpec
CONSTANTS
  Programs <- MCPrograms
  PipeCap = 2
  MaxLen <- MCMaxLen
  Arenas <- MCArenas
  MaxIntr = 1
INVARIANTS CaptureComplete ReadsStayInside SuccessReleasesAll
           ZeroMeansSuccess
PROPERTY ReturnsIfErrFits
CHECK_DEADLOCK FALSE

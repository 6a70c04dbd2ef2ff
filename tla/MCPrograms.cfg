SPECIFICATION Spec
CONSTANTS
  Cases <- MCCases
  Filters <- MCFilters
  Options <- MCOptions
  Words <- MCWords
  Arenas <- MCArenas
  Commands <- MCCommands
  Lines <- MCLines
  MaxChecks = 3
  Help = 1
INVARIANTS
  CountsAreOfEndedCases
  StatusTellsFailure
  ParsedAsGiven
  MdcodeDoesAsTold
PROPERTIES
  EveryTurnAdvances

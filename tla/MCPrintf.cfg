SPECIFICATION Spec
CONSTANTS
  MaxBits = 11
  FracDigits = 3
  ThousandsSep <- MCSep
  Calls <- MCCalls
  Sizes = {0, 1, 4}
  Bits <- MCBits
  NegatedMin <- MCNegatedMin
INVARIANTS StoresPrefix AsprintfExact FieldAsAsked
PROPERTY ReaderAdvances

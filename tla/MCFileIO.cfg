SPECIFICATION Spec
CONSTANTS
  Texts <- MCTexts
  Limits <- MCLimits
  Cap = 5
  MaxStrs = 2
  Names <- MCNames
  Nodes <- MCNodes
  BlockSize = 2
  MaxChanges = 1
  MaxEvents = 3
  Langs = {"c", "cpp"}
INVARIANTS
  StringsKeep
  PathsTell
  ReadIsOfOneFile
  WriteLosesLessThanABlock

SPECIFICATION Spec
CONSTANTS
  x = x
  sp = sp
  nl = nl
  NUL = NUL
  Langs = {"c", "cpp"}
  Char <- MCChar
  M = 3
  Literals <- MCLiterals
  Seps <- MCSeps
  Newline = nl
  Rooms = {0, 2, 9}
  Flags <- MCFlags
INVARIANT MatchAtAllBytes
CHECK_DEADLOCK FALSE

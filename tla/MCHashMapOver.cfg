SPECIFICATION MapSpec
CONSTANTS
  a = a
  Key = {a, b}
  StrNull = StrNull
  Tomb = Tomb
  Exp = 2
  HashBits = 3
  HashFns <- TurnedHashFns
  Val = {v, w}
  NoVal = NoVal
PROPERTY InsertOverwrites

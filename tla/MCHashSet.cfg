SPECIFICATION FairSpec
CONSTANTS
  a = a
  b = b
  Key = {a, b, c}
  StrNull = StrNull
  Tomb = Tomb
  Exp = 2
  HashBits = 3
  HashFns <- CollidingHashFns
INVARIANTS TypeOK LenCountsKeys ChainUnbroken
PROPERTIES EveryCallReturns SlotsPinned SecondCopyOverTomb ImplementsKeyBag

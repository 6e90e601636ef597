SPECIFICATION Spec
CONSTANTS
  cat = cat
  dog = dog
  Things <- MCThings
  NoThing = NoThing
  NumMaskmem = 3
  MaxObjPtrs = 2
  HotstartDelay = 1
  MaxKeepAlive = 0
  MaxFrames = 3
  MaxInstances = 2
INVARIANTS
  TypeOK
  MemoriesInOrder
  FreshIdsHaveNoPast
  NobodyOverdue
  ReportedOnce
PROPERTIES
  LostStaysLost
SYMMETRY Symmetry
CHECK_DEADLOCK FALSE

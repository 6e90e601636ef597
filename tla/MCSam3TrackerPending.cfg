SPECIFICATION Spec
CONSTANTS
  cat = cat
  dog = dog
  Things <- MCThings
  NoThing = NoThing
  NumMaskmem = 3
  MaxObjPtrs = 2
  HotstartDelay = 1
  MaxKeepAlive = 0
  MaxFrames = 3
  MaxInstances = 2
INVARIANTS
  MatchedAgainstPending
SYMMETRY Symmetry
CHECK_DEADLOCK FALSE

SPECIFICATION FairSpec
CONSTANTS
  c1 = c1
  c2 = c2
  c3 = c3
  p1 = p1
  p2 = p2
  k1 = k1
  NoCall = NoCall
  Calls = {c1, c2, c3}
  Procs = {p1, p2}
  Keys = {k1}
  Home <- MCHome
  KeyOf <- MCKeyOf
  MaxAborts = 2
INVARIANTS
  OneBuilderPerKey
  BlockedByAnotherProcess
  TreeUnderLock
PROPERTIES
  ImplementsSlot
  EveryCallEnds

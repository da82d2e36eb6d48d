SPECIFICATION FlashSpec
CONSTANTS
  c1 = c1
  c2 = c2
  p1 = p1
  p2 = p2
  k1 = k1
  NoCall = NoCall
  NoArtifact = NoArtifact
  Calls = {c1, c2}
  Procs = {p1, p2}
  Keys = {k1}
  Bootloads = {}
  Home <- MCHome
  KeyOf <- MCKeyOf
  Grace = 1
  Jitter = 1
  MaxTime = 5
  MaxAborts = 0
PROPERTIES
  FlashesNoFailedBuild

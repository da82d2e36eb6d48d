CONSTANTS
  c1 = c1
  c2 = c2
  v1 = v1
  v2 = v2
  Calls = {c1, c2}
  Versions = {v1, v2}
  AnyVersion = AnyVersion
  NoVersion = NoVersion
  Requests <- MCRequests
SYMMETRY Symmetry
SPECIFICATION Spec
INVARIANTS RunsWhatItRequires DutIsTouchedLast RowNamesTheImage

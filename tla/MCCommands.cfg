CONSTANTS
  Ours = "ours"
  Builds <- MCBuilds
SPECIFICATION Spec
CHECK_DEADLOCK FALSE
INVARIANTS
  AbsenceIsReal
  RefusalNamesItsCause
  ReadsTheBoardNamed
  SignalLeavesItsBoard
  StudyNeedsOneSchema
  ExitTellsWhatCoreDid

CONSTANTS
  c1 = c1
  c2 = c2
  Callers <- MCCallers
  Tests = {t1}
  Newline = Newline
  NoRow = NoRow
  HandResults = {"fail"}
  MaxStudies = 2
  MaxEvents = 1
SYMMETRY Interchangeable
SPECIFICATION Spec
INVARIANTS RowsTellTheRecord SettleClosesWhatEnded SequentialCallsTellTheLast
CHECK_DEADLOCK FALSE

SPECIFICATION Spec
CONSTANTS
  Account = {a1, a2}
  Limits = {1, 3}
  MaximumReadLimit = 2
  MaxEntries = 4
  MaxRestarts = 1
INVARIANTS
  SummariesAddUp
  HistoryWithoutGaps
CHECK_DEADLOCK FALSE

SPECIFICATION Spec
CONSTANTS
  Request <- Requests
  MaxDigits = 4
  Places = 2
  Precision = 5
  MaxKey = 1
  NULL = NULL
INVARIANTS OnlyUnstorableFails RowsLoadable AmountKept ReplayMeansSameOrder RepeatIsAnswered

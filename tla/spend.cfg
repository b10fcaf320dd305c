CONSTANTS
  Log = {mine1, mine2, other}
  Own = {mine1, mine2}
  Expected = 2
  Timeout = 5
  Interval = 2
  RequestLimit = 3
SPECIFICATION FairReadback
CHECK_DEADLOCK FALSE
INVARIANT NeverTooLate
PROPERTIES NothingForgotten Returns

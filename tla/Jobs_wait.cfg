SPECIFICATION FairSpec
CONSTANTS
  JobIds = {j1}
  Callers = {c1}
  Waiters = {w1, w2}
  WithDeadline = {w1}
  Words <- MCFewWords
  Offered = {"CreateReport", "DeleteJob", "AbortJob"}
  Refusals = {409}
  MaxRequests = 2
INVARIANTS VerdictIsTrue FailureHasACause
PROPERTIES WaitWithDeadlineReturns WaitForEndedJobReturns
CHECK_DEADLOCK FALSE

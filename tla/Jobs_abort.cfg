SPECIFICATION FairSpec
CONSTANTS
  JobIds = {j1, j2}
  Callers = {c1}
  Waiters = {w1}
  WithDeadline = {w1}
  Words <- MCWords
  Offered = {"AddPartitionHosts", "AbortJob"}
  Refusals = {500}
  MaxRequests = 3
PROPERTY AbortEndsItsJobOnly
CHECK_DEADLOCK FALSE

SPECIFICATION Spec
CONSTANTS
  JobIds = {j1, j2}
  Callers = {c1}
  Waiters = {w1}
  WithDeadline = {w1}
  Words <- MCWords
  Offered = {"AddPartitionHosts", "RunFabricValidationTest", "DeleteJob", "AbortJob"}
  Refusals = {500}
  MaxRequests = 3
INVARIANT StartedTestHasAJob
CHECK_DEADLOCK FALSE

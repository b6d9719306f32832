SPECIFICATION Spec
CONSTANTS
  JobIds = {j1, j2}
  Callers = {c1, c2}
  Waiters = {}
  WithDeadline = {}
  Words <- MCWords
  Offered = {"AddPartitionHosts", "RunFabricValidationTest", "GetJob", "DeleteJob", "AbortJob", "AbortAllJobs"}
  Refusals = {500}
  MaxRequests = 3
INVARIANTS TypeOK AbortReportedIsDone OneJobPerRequest AcceptedNamesAJob DeleteReportedIsDone
SYMMETRY MCSymmetry
CHECK_DEADLOCK FALSE

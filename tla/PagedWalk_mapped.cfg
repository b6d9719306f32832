SPECIFICATION Spec
CONSTANTS
  DefaultLimit = 2
  MaxLimit = 3
  Items = {a, b, c}
  InitialLists <- MCInitialLists
  FirstCursors <- MCFirstCursors
  Limits <- MCLimits
  Include <- MCDetails
  MaxLength = 3
  MaxInsertions = 0
  MaxRemovals = 0
  MaxFailures = 0
INVARIANT MissesBoundedByRemovals
CHECK_DEADLOCK FALSE

SPECIFICATION FairSpec
CONSTANTS
  DefaultLimit = 2
  MaxLimit = 3
  Items = {a, b, c, d, e}
  InitialLists <- MCInitialLists
  FirstCursors <- MCFirstCursors
  Limits <- MCLimits
  Include = {}
  MaxLength = 5
  MaxInsertions = 1
  MaxRemovals = 2
  MaxFailures = 1
INVARIANTS TypeOK UnchangedListIsReadExactly MissesBoundedByRemovals RepeatsBoundedByInsertions
PROPERTIES ImplementsOrderedRead WalkTerminates
CHECK_DEADLOCK FALSE

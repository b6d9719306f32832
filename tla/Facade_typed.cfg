CONSTANTS
  Names <- MCNames
  Initial <- MCInitial
  Scripts <- MCScripts
  Refusals <- MCRefusals
SPECIFICATION Spec
INVARIANT SuccessBodyIsTyped
CHECK_DEADLOCK FALSE

CONSTANTS
  Names <- MCNames
  Initial <- MCInitial
  Scripts <- MCScripts
  Refusals <- MCRefusals
SPECIFICATION FairSpec
INVARIANTS
  TypeOK
  ReachesItsHandler
  ActsOnWhatIsNamed
  SuccessIsDone
  StatusIsTrue
  SuccessIsReadWhereKnown
PROPERTIES
  AnswerIsFinal
  OnlyAsAsked
  CallsReturn
CHECK_DEADLOCK FALSE

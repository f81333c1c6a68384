CONSTANTS
  Events <- MCEvents
  FlagChoices <- MCFlagChoices
  MAX_EVENTS <- MCMaxEvents
SPECIFICATION Spec
INVARIANT CrpcAgreesWithSpec
CHECK_DEADLOCK FALSE

CONSTANTS
  Events <- MCEvents
  FlagChoices <- MCFlagChoices
  MAX_EVENTS <- MCMaxEvents
SPECIFICATION Spec
INVARIANT CarryOverOnlyAfterBareHeader
CHECK_DEADLOCK FALSE

CONSTANTS
  Events <- MCEvents
  FlagChoices <- MCFlagChoices
  MAX_EVENTS <- MCMaxEvents
SPECIFICATION Spec
INVARIANTS
  TypeOK
  SignaturesAgreeWithSpec
PROPERTIES
  MysqlSplitHeaderRecognised
\* The connection's data events are bounded by MAX_EVENTS; a behaviour that
\* has seen them all stops.
CHECK_DEADLOCK FALSE

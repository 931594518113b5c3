SPECIFICATION FairSpec
CONSTANTS
  Lines <- MCLines
  MaxTyped = 2
  MaxSaid = 2
INVARIANTS
  NoPartLost
  PublishedAsHeard
PROPERTIES
  NoLateWrite
  EndsWithServer
CHECK_DEADLOCK FALSE

SPECIFICATION FairSpec
CONSTANTS
  aggregation_size_limit = 1
  expiration = 2
  Limits = {0, 1}
  Bounds <- MCBounds
CHECK_DEADLOCK FALSE
INVARIANTS
  InOrderOnce
  AckedIsKept
  UnackedIsTimed
PROPERTIES
  ItemsAreSent
  HeldIsReleased

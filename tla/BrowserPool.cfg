CONSTANTS
  Users = {u1, u2}
  NumSlots = 2
  Free = Free
SPECIFICATION FairSpec
CHECK_DEADLOCK FALSE
INVARIANTS NoForeignTab DrivenOnlyByHolder
PROPERTIES WaitersAreServed

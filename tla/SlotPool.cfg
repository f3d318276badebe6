CONSTANTS
  Users = {u1, u2, u3}
  NumSlots = 2
  Free = Free
SPECIFICATION FairSpec
INVARIANTS ExclusiveUse NoPermitLost NoLostWakeup
PROPERTIES ServedInOrder EveryAcquireEnds ImplementsSlotLock

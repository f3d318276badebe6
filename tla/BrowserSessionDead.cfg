CONSTANTS
  Sessions = {l1}
  Slots = {chrome0}
SPECIFICATION Spec
INVARIANTS OwnedTargetIsClosed

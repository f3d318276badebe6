CONSTANTS
  Sessions = {l1, l2}
  Slots = {chrome0}
SPECIFICATION FairSpec
INVARIANTS NothingLeftUnexplained
PROPERTIES CleanupEnds

CONSTANTS
  Handlers = {h1, h2, h3}
  Desktops = {d1, d2}
  None = None
  Stubborn = TRUE
SPECIFICATION FairSpec
INVARIANTS LeasesCounted 
PROPERTIES NoneBesideRecorded IdleStopSparesLeases IdleDesktopStops EveryStartEnds
CHECK_DEADLOCK FALSE

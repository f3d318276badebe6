CONSTANTS
  Handlers = {h1}
  Desktops = {d1, d2}
  None = None
  Stubborn = FALSE
SPECIFICATION Spec
INVARIANTS OneDesktop
CHECK_DEADLOCK FALSE

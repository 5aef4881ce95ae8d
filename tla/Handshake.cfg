\* One lost connection or refresh, at any moment.
SPECIFICATION Spec
CONSTANTS
  Peers = {p1, p2}
  MaxDrops = 1
SYMMETRY Symmetry
INVARIANTS
  StuckIsShown
\* The clients are done when they share a session.
CHECK_DEADLOCK FALSE

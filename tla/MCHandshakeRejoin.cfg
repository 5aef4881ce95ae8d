SPECIFICATION PromptSpec
CONSTANTS
  Peers = {p1, p2}
  MaxDrops = 1
INVARIANTS
  SessionReestablished
CHECK_DEADLOCK FALSE

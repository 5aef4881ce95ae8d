\* Two messages, one retransmission each, and re-keying on either side.
SPECIFICATION FairSpec
CONSTANTS
  Ids = {m1, m2}
  MaxAttempts = 2
  MaxSession = 3
INVARIANTS
  AtMostOnce
  SentIsShown
  SendingIsTracked
PROPERTIES
  Resolved
\* Both sides may have left, for good.
CHECK_DEADLOCK FALSE

\* One file of two chunks, one retransmission, voice once or one lost session.
SPECIFICATION FairSpec
CONSTANTS
  Files = {f1}
  Total = 2
  Window = 1
  MaxRetries = 1
  MaxBreaks = 1
INVARIANTS
  CompletedIsWhole
  WindowKept
  NeverStalls
PROPERTIES
  EndedStaysEnded
  SendingEnds
CHECK_DEADLOCK FALSE

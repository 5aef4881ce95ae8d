\* Two sessions, late and lost packets, requests that time out.
SPECIFICATION Spec
CONSTANTS
  Peers = {a, b}
  a = a
  b = b
  MaxSkipped = 1
  MaxEpochs = 3
  MaxSent <- Budget
  MaxTimeouts = 1
INVARIANTS
  SecureIsReal
  KeyUsedOnce
  LateIsReadable
PROPERTIES
  SentUnderSession
CHECK_DEADLOCK FALSE

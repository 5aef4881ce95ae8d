SPECIFICATION OpenSpec
CONSTANTS
  None = None
  Codes = {k1}
  Sessions = {s1}
  Slots = {t1, t2, t3}
  Conns = {c1, c2, c3}
  IPs = {i1}
  Https = {}
  TTL = 1
  MaxSessionsPerIP = 1
  MaxConnectionsPerIP = 0
  CreateAttempts = 1
  SendBufferSize = 1
  MaxFrames = 0
  MaxNow = 1
SYMMETRY Symmetry
INVARIANTS
  AtMostTwo
  PeersIntroduced
  ServedIsParticipant
  IPAccounting

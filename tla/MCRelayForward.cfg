SPECIFICATION OpenSpec
CONSTANTS
  None = None
  Codes = {k1, k2}
  Sessions = {s1, s2}
  Slots = {t1, t2}
  Conns = {c1, c2}
  IPs = {i1}
  Https = {}
  TTL = 1
  MaxSessionsPerIP = 1
  MaxConnectionsPerIP = 0
  CreateAttempts = 1
  SendBufferSize = 2
  MaxFrames = 3
  MaxNow = 1
SYMMETRY Symmetry
INVARIANT
  ForwardedInOrder

SPECIFICATION FairOpenSpec
CONSTANTS
  None = None
  Codes = {k1}
  Sessions = {s1}
  Slots = {t1, t2}
  Conns = {c1, c2}
  IPs = {i1}
  Https = {}
  TTL = 1
  MaxSessionsPerIP = 1
  MaxConnectionsPerIP = 0
  CreateAttempts = 1
  SendBufferSize = 1
  MaxFrames = 0
  MaxNow = 2
PROPERTIES
  EndClosesEveryone
  ClosedIsReleased
  ExpiredIsReclaimed

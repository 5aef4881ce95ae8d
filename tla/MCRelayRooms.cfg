SPECIFICATION Spec
CONSTANTS
  None = None
  Codes = {k1}
  Sessions = {s1, s2}
  Slots = {t1, t2}
  Conns = {c1, c2}
  IPs = {i1}
  Https = {h1}
  TTL = 1
  MaxSessionsPerIP = 1
  MaxConnectionsPerIP = 2
  CreateAttempts = 2
  SendBufferSize = 1
  MaxFrames = 0
  MaxNow = 2
SYMMETRY Symmetry
INVARIANTS
  NoGhostParticipant
  OccupiedRoomReachable
PROPERTIES
  RoomImplemented
  TombstoneHolds

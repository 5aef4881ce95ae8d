\* Any interleaving of users, sockets, timers and sends, one reconnection
\* included, under fairness.
SPECIFICATION FairSpec
CONSTANTS
  s1 = s1
  s2 = s2
  None = None
  Socks = {s1, s2}
  VoiceLimit = 0
  Profiles <- OneProfile
  Packets <- SomePackets
INVARIANTS
  NoOrphanSocket
  NoLostWakeup
  NoCarryOver
  StatusIsTrue
  SlotIsKnown
PROPERTIES
  Settles
  StartupReturns

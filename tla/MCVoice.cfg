\* One start and two stops at a time, two calls of the peer.
SPECIFICATION VoiceSpec
CONSTANTS
  Starts = {m1}
  None = None
  QueueLimit = 2
  JitterLimit = 2
  MaxStops = 2
  MaxCalls = 2
  MaxSeq <- Lengths
INVARIANTS
  MicrophoneReleased
  FilesPausedInVoice
  PumpNeverSpins
  InboundNeverStalls
PROPERTY
  PlayedInOrder

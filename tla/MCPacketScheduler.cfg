\* Every sequence of calls of the packet scheduler.
SPECIFICATION SchedulerSpec
CONSTANTS
  Profiles <- TwoProfiles
  Packets <- SomePackets
INVARIANT
  Bounded
PROPERTY
  DropsByPolicy

-------------------------- MODULE MCPacketScheduler --------------------------
(* PacketScheduler on profiles a hundredth of the size of the real ones. *)
EXTENDS PacketScheduler

Lane(n, packets, bytes, policy) ==
  [priority |-> n, maxPackets |-> packets, maxBytes |-> bytes, dropPolicy |-> policy]

\* As in the real profiles, the lanes together exceed the outbox, and voice is
\* the one lane that drops its oldest packets.
Balanced ==
  [maxFrameBytes |-> 2, outbox |-> [maxPackets |-> 4, maxBytes |-> 6],
   lanes |-> [control |-> Lane(100, 2, 3, "fail"), voice |-> Lane(80, 2, 3, "drop-oldest"),
              text |-> Lane(60, 2, 4, "fail"), file |-> Lane(10, 1, 2, "fail")]]

VoiceFirst ==
  [maxFrameBytes |-> 2, outbox |-> [maxPackets |-> 3, maxBytes |-> 4],
   lanes |-> [control |-> Lane(100, 2, 2, "fail"), voice |-> Lane(95, 3, 3, "drop-oldest"),
              text |-> Lane(60, 2, 4, "fail"), file |-> Lane(5, 1, 2, "fail")]]

TwoProfiles == {Balanced, VoiceFirst}

\* Packets of every lane, one of them too large; two of a size can be told apart.
SomePackets ==
  [lane : {"control", "text", "file"}, size : 1..2, id : {1, 2}]
    \cup [lane : {"voice"}, size : {1}, id : {1, 2}]
    \cup {[lane |-> "file", size |-> 3, id |-> 1]}
=============================================================================

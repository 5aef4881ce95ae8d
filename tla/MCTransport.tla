----------------------------- MODULE MCTransport -----------------------------
(* Transport on small instances. *)
EXTENDS Transport

Lane(n, packets, policy) ==
  [priority |-> n, maxPackets |-> packets, maxBytes |-> packets, dropPolicy |-> policy]

\* The thresholds are in the order of the real ones: VoiceLimit, resume,
\* maxBuffered.
Small ==
  [maxFrameBytes |-> 1, outbox |-> [maxPackets |-> 2, maxBytes |-> 2],
   maxBuffered |-> 2, resume |-> 1, maxAttempts |-> 1,
   lanes |-> [control |-> Lane(100, 2, "fail"), voice |-> Lane(80, 1, "drop-oldest"),
              text |-> Lane(60, 1, "fail"), file |-> Lane(10, 1, "fail")]]

OneProfile == {Small}

SomePackets == [lane : {"control", "voice"}, size : {1}, born : Socks \cup {None}]
=============================================================================

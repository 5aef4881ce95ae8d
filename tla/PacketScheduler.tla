--------------------------- MODULE PacketScheduler ---------------------------
(***************************************************************************)
(* The outbound packet queue of a client (transport/PacketScheduler.ts):   *)
(* one bounded queue per lane, within the bounds of one outbox.            *)
(*                                                                         *)
(* Its methods run to completion, so each is an operator on the object's   *)
(* fields; the counters are kept by increments as in the code.             *)
(***************************************************************************)
EXTENDS Integers, Sequences, FiniteSets, FiniteSetsExt

CONSTANTS
  Profiles,  \* transport profiles: maxFrameBytes, outbox and lane budgets
  Packets    \* packets: lane and size, and whatever the user of this module adds

Lanes == {"control", "voice", "text", "file"}

ASSUME SchedulerAssumption ==
  /\ \A p \in Packets : p.lane \in Lanes /\ p.size \in Nat \ {0}
  \* The frames of a call have one length, hence one padding bucket.
  /\ \A p, q \in Packets : p.lane = "voice" /\ q.lane = "voice" => p.size = q.size
  /\ \A f \in Profiles :
       /\ f.maxFrameBytes \in Nat /\ f.outbox.maxPackets \in Nat /\ f.outbox.maxBytes \in Nat
       /\ \A l \in Lanes : /\ f.lanes[l].priority \in Nat
                          /\ f.lanes[l].maxPackets \in Nat /\ f.lanes[l].maxBytes \in Nat
                          /\ f.lanes[l].dropPolicy = IF l = "voice" THEN "drop-oldest" ELSE "fail"
       /\ \A k, l \in Lanes : f.lanes[k].priority = f.lanes[l].priority => k = l

VARIABLE
  out  \* the PacketScheduler: profile, queues, bytes, totalPackets, totalBytes

\* Each byte of a queue: the place of its packet, and its own place in that.
QueuedBytes(q) == UNION {{i} \X (1..q[i].size) : i \in DOMAIN q}

Bytes(q) == Cardinality(QueuedBytes(q))

Empty(f) ==
  [profile |-> f, queues |-> [l \in Lanes |-> <<>>], bytes |-> [l \in Lanes |-> 0],
   totalPackets |-> 0, totalBytes |-> 0]

\* The queue without its k oldest packets of lane l.
Shift(o, l, k) ==
  LET n == Bytes(SubSeq(o.queues[l], 1, k))
  IN [o EXCEPT !.queues[l] = SubSeq(@, k + 1, Len(@)),
               !.bytes[l] = @ - n,
               !.totalPackets = @ - k,
               !.totalBytes = @ - n]

Push(o, p) ==
  [o EXCEPT !.queues[p.lane] = Append(@, p),
            !.bytes[p.lane] = @ + p.size,
            !.totalPackets = @ + 1,
            !.totalBytes = @ + p.size]

wouldOverflow(o, l, size) ==
  \/ Len(o.queues[l]) >= o.profile.lanes[l].maxPackets
  \/ o.bytes[l] + size > o.profile.lanes[l].maxBytes
  \/ o.totalPackets >= o.profile.outbox.maxPackets
  \/ o.totalBytes + size > o.profile.outbox.maxBytes

\* How many packets enqueue's loop drops: as few as make room, or, if none do,
\* the whole lane.
Dropped(o, p) ==
  LET n == Len(o.queues[p.lane])
      enough == {k \in 0..n : ~wouldOverflow(Shift(o, p.lane, k), p.lane, p.size)}
  IN IF p.size > o.profile.maxFrameBytes \/ o.profile.lanes[p.lane].dropPolicy = "fail" THEN 0
     ELSE IF enough = {} THEN n ELSE Min(enough)

\* Fault: whether there is room is decided before the loop makes some.
AcceptsStale(o, p) ==
  p.size <= o.profile.maxFrameBytes /\ ~wouldOverflow(o, p.lane, p.size)

\* enqueue's result: ok, and the fields afterwards.
Accepts(o, p) ==
  /\ p.size <= o.profile.maxFrameBytes
  /\ ~wouldOverflow(Shift(o, p.lane, Dropped(o, p)), p.lane, p.size)

\* Fault: a dropped packet's bytes stay on the outbox's account.
enqueueLeaks(o, p) ==
  LET s == [Shift(o, p.lane, Dropped(o, p)) EXCEPT !.totalBytes = o.totalBytes]
  IN IF Accepts(o, p) THEN Push(s, p) ELSE s

enqueue(o, p) ==
  LET s == Shift(o, p.lane, Dropped(o, p))
  IN IF Accepts(o, p) THEN Push(s, p) ELSE s

Ready(o) == {l \in Lanes : o.queues[l] # <<>>}

\* The lane next() takes from; priorities are distinct.
Top(o) ==
  CHOOSE l \in Ready(o) :
    \A k \in Ready(o) : o.profile.lanes[k].priority <= o.profile.lanes[l].priority

\* next() returns the head of the top lane.
NextPacket(o) == Head(o.queues[Top(o)])
next(o) == Shift(o, Top(o), 1)

clearLane(o, l) ==
  [o EXCEPT !.queues[l] = <<>>,
            !.bytes[l] = 0,
            !.totalPackets = @ - Len(o.queues[l]),
            !.totalBytes = @ - o.bytes[l]]

clear(o) ==
  clearLane(clearLane(clearLane(clearLane(o, "control"), "voice"), "text"), "file")

-----------------------------------------------------------------------------
(* The scheduler on its own: any calls in any order, but for setProfile. *)

SchedulerInit == out \in {Empty(f) : f \in Profiles}

Enqueue(p) == out' = enqueue(out, p)
Dequeue    == Ready(out) # {} /\ out' = next(out)
ClearVoice == out' = clearLane(out, "voice")
Clear      == out' = clear(out)

\* A profile is set between rooms, after disconnect() has cleared the queues.
SetProfile(f) == Ready(out) = {} /\ out' = [out EXCEPT !.profile = f]

SchedulerNext ==
  \/ \E p \in Packets : Enqueue(p)
  \/ Dequeue \/ ClearVoice \/ Clear
  \/ \E f \in Profiles : SetProfile(f)

SchedulerSpec == SchedulerInit /\ [][SchedulerNext]_out

-----------------------------------------------------------------------------
\* "keep queues bounded": the counters that decide, kept by increments through
\* drops, refusals and clears, equal the sums over the queues, and no sequence of
\* calls exceeds the budget of a lane or of the outbox.
Bounded ==
  /\ \A l \in Lanes : /\ out.bytes[l] = Bytes(out.queues[l])
                      /\ Len(out.queues[l]) <= out.profile.lanes[l].maxPackets
                      /\ out.bytes[l] <= out.profile.lanes[l].maxBytes
  /\ out.totalPackets = Len(out.queues["control"]) + Len(out.queues["voice"])
                         + Len(out.queues["text"]) + Len(out.queues["file"])
  /\ out.totalBytes = out.bytes["control"] + out.bytes["voice"]
                       + out.bytes["text"] + out.bytes["file"]
  /\ out.totalPackets <= out.profile.outbox.maxPackets
  /\ out.totalBytes <= out.profile.outbox.maxBytes

IsPrefix(q, r) == Len(q) <= Len(r) /\ q = SubSeq(r, 1, Len(q))

Drops ==
  \A l \in Lanes : ~Clear =>
    LET q == out.queues[l]
        r == out'.queues[l]
    IN \/ IsPrefix(q, r)
       \/ Dequeue /\ r = Tail(q)
       \/ out.profile.lanes[l].dropPolicy = "drop-oldest"
          /\ (ClearVoice \/ \E p \in Packets : r = Append(Tail(q), p))

\* "never drop; bounded failure" and "latest wins; stale audio drops": outside
\* clear(), a queue only grows, or next() takes its head, or it
\* is the voice lane and its oldest frame makes room for a new one.
DropsByPolicy == [][Drops]_out
=============================================================================

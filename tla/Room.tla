--------------------------------- MODULE Room ---------------------------------
(***************************************************************************)
(* What the relay promises about its rooms, without registry, locks,       *)
(* goroutines or clock.  Module Relay implements it.                       *)
(***************************************************************************)
CONSTANTS Rooms, Slots, Conns, None

VARIABLES
  phase,  \* "none", "open", "ending" (its code no longer finds it) or "over"
  who     \* the connection in each slot of a room

Phases == {"none", "open", "ending", "over"}
Places == [Slots -> Conns \cup {None}]
Nobody == [t \in Slots |-> None]

Present(r) == {t \in Slots : who[r][t] # None}

Alive(r) == phase[r] \in {"open", "ending"}

Init == phase = [r \in Rooms |-> "none"] /\ who = [r \in Rooms |-> Nobody]

\* The steps of one room.

Open(r) == phase[r] = "none" /\ phase'[r] = "open" /\ who'[r] = Nobody

\* At most one other person is there; somebody who returns takes their own slot
\* over.
Enter(r, t, c) ==
  /\ Alive(r)
  /\ \A u, v \in Present(r) \ {t} : u = v
  /\ who'[r] = [who[r] EXCEPT ![t] = c]
  /\ phase'[r] = phase[r]

Leave(r, t) ==
  /\ Alive(r)
  /\ t \in Present(r)
  /\ who'[r] = [who[r] EXCEPT ![t] = None]
  /\ phase'[r] = phase[r]

End(r) == phase[r] = "open" /\ phase'[r] = "ending" /\ who'[r] = who[r]

\* Ending a room puts everybody out in one step.
Dissolve(r) == phase[r] = "ending" /\ phase'[r] = "over" /\ who'[r] = Nobody

\* Only an empty room expires.
Expire(r) == Alive(r) /\ who[r] = Nobody /\ phase'[r] = "over" /\ who'[r] = Nobody

Step(r) ==
  \/ Open(r) \/ End(r) \/ Dissolve(r) \/ Expire(r)
  \/ \E t \in Slots : Leave(r, t) \/ \E c \in Conns : Enter(r, t, c)

Still(r) == phase'[r] = phase[r] /\ who'[r] = who[r]

\* Rooms are independent; several may expire at the same tick of the clock.
Next ==
  /\ phase' \in [Rooms -> Phases] /\ who' \in [Rooms -> Places]
  /\ \A r \in Rooms : Step(r) \/ Still(r)

Spec == Init /\ [][Next]_<<phase, who>>
=============================================================================

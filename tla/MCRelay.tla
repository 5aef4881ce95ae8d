------------------------------- MODULE MCRelay -------------------------------
(* Relay on small instances. *)
EXTENDS Relay, TLC

\* Goroutines, sessions, slots, codes and addresses are interchangeable.
Symmetry ==
  Permutations(Conns) \cup Permutations(Sessions) \cup Permutations(Slots)
    \cup Permutations(Codes) \cup Permutations(Https) \cup Permutations(IPs)

\* Runs about joining and forwarding start in the state that one CreateRoom
\* per session leads to: every session registered, idle and unexpired.
RoomsOpen ==
  /\ GoroutinesInit
  /\ now = 1
  /\ sessions \in {f \in [Codes -> Sessions] : \A k, l \in Codes : f[k] = f[l] => k = l}
  /\ code = [s \in Sessions |-> CHOOSE k \in Codes : sessions[k] = s]
  /\ ended = [k \in Codes |-> ZeroTime]
  /\ creatorIP \in [Sessions -> IPs]
  /\ expiresAt = [s \in Sessions |-> 1 + TTL]
  /\ closed = [s \in Sessions |-> FALSE]
  /\ conns = [s \in Sessions |-> [t \in Slots |-> None]]

OpenSpec == RoomsOpen /\ [][Next]_vars

FairOpenSpec == OpenSpec /\ Fairness
=============================================================================

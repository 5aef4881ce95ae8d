-------------------------------- MODULE Rooms --------------------------------
(***************************************************************************)
(* The room registry and the session objects of the relay                  *)
(* (internal/session/registry.go and internal/session/session.go).         *)
(*                                                                         *)
(* Every operator that changes state is one critical section of the code,  *)
(* under Registry.mu or Session.mu.  The goroutines that call them, and    *)
(* may interleave between two of them, are in module Relay.                *)
(***************************************************************************)
EXTENDS Integers, FiniteSets

CONSTANTS
  Codes,             \* room codes a client may use
  Sessions,          \* identities of *Session objects (bounds NewSession)
  Slots,             \* participant slot tokens
  Conns,             \* identities of *Connection objects
  IPs,               \* client addresses
  None,              \* nil
  TTL,               \* session time to live, in clock ticks
  MaxSessionsPerIP   \* 0 disables the limit

ASSUME RoomsAssumption ==
  /\ TTL \in Nat \ {0}
  /\ MaxSessionsPerIP \in Nat
  /\ None \notin Codes \cup Sessions \cup Conns

VARIABLES
  now,        \* the wall clock; starts at 1, so that 0 is Go's zero time
  sessions,   \* Registry.sessions: the session registered under a code
  ended,      \* Registry.ended: when the tombstone of a code expires
  code,       \* Session.Code, None before NewSession
  creatorIP,  \* Session.CreatorIP
  expiresAt,  \* Session.ExpiresAt
  closed,     \* Session.closed
  conns       \* Session.conns, by slot token

registryVars == <<sessions, ended>>
sessionVars  == <<code, creatorIP, expiresAt, closed, conns>>
roomVars     == <<now, sessions, ended, code, creatorIP, expiresAt, closed, conns>>

ZeroTime == 0

RoomsTypeOK ==
  /\ now \in Nat \ {0}
  /\ sessions \in [Codes -> Sessions \cup {None}]
  /\ ended \in [Codes -> Nat]
  /\ code \in [Sessions -> Codes \cup {None}]
  /\ creatorIP \in [Sessions -> IPs \cup {None}]
  /\ expiresAt \in [Sessions -> Nat]
  /\ closed \in [Sessions -> BOOLEAN]
  /\ conns \in [Sessions -> [Slots -> Conns \cup {None}]]

RoomsInit ==
  /\ now = 1
  /\ sessions = [k \in Codes |-> None]
  /\ ended = [k \in Codes |-> ZeroTime]
  /\ code = [s \in Sessions |-> None]
  /\ creatorIP = [s \in Sessions |-> None]
  /\ expiresAt = [s \in Sessions |-> ZeroTime]
  /\ closed = [s \in Sessions |-> FALSE]
  /\ conns = [s \in Sessions |-> [t \in Slots |-> None]]

-----------------------------------------------------------------------------
(* Session: critical sections under Session.mu. *)

Occupied(s) == {t \in Slots : conns[s][t] # None}

Connections(s) == {conns[s][t] : t \in Occupied(s)}

IsExpired(s) ==
  Occupied(s) = {} /\ expiresAt[s] # ZeroTime /\ now >= expiresAt[s]

\* Faults of AddConnection: the limit off by one; the closed check dropped; the
\* expiry check dropped.
CanAddThree(s, t) ==
  /\ ~closed[s] /\ ~IsExpired(s)
  /\ conns[s][t] # None \/ Cardinality(Occupied(s)) <= 2

CanAddClosed(s, t) ==
  /\ ~IsExpired(s)
  /\ conns[s][t] # None \/ Cardinality(Occupied(s)) < 2

CanAddExpired(s, t) ==
  /\ ~closed[s]
  /\ conns[s][t] # None \/ Cardinality(Occupied(s)) < 2

CanAdd(s, t) ==
  /\ ~closed[s]
  /\ ~IsExpired(s)
  /\ conns[s][t] # None \/ Cardinality(Occupied(s)) < 2

AddConnection(s, t, c) ==
  /\ CanAdd(s, t)
  /\ conns' = [conns EXCEPT ![s][t] = c]
  /\ expiresAt' = [expiresAt EXCEPT ![s] = ZeroTime]
  /\ UNCHANGED <<now, registryVars, code, creatorIP, closed>>

\* The connections a room holds under another slot than t: the peer that
\* AddConnection and RemoveConnection report is one of them, None if none.
OtherConns(s, t) == {conns[s][u] : u \in Occupied(s) \ {t}}

\* Fault: RemoveConnection does not compare connection ids.
CanRemoveAny(s, t, c) == conns[s][t] # None

CanRemove(s, t, c) == conns[s][t] = c

RemoveConnection(s, t, c) ==
  /\ CanRemove(s, t, c)
  /\ conns' = [conns EXCEPT ![s][t] = None]
  /\ expiresAt' = [expiresAt EXCEPT ![s] =
                     IF Occupied(s) = {t} THEN now + TTL ELSE @]
  /\ UNCHANGED <<now, registryVars, code, creatorIP, closed>>

\* Fault: PeerOf does not skip the caller.
PeerOfAnyone(s, c) == IF closed[s] \/ IsExpired(s) THEN {} ELSE Connections(s)

\* Go's map iteration returns the entries in any order, so PeerOf may return
\* any connection whose id is not c.
PeerOf(s, c) ==
  IF closed[s] \/ IsExpired(s) THEN {} ELSE Connections(s) \ {c}

DrainConnections(s) ==
  /\ closed' = [closed EXCEPT ![s] = TRUE]
  /\ conns' = IF closed[s] THEN conns
              ELSE [conns EXCEPT ![s] = [t \in Slots |-> None]]
  /\ UNCHANGED <<now, registryVars, code, creatorIP, expiresAt>>

\* What DrainConnections returns: nothing the second time.
Drained(s) == IF closed[s] THEN {} ELSE Connections(s)

-----------------------------------------------------------------------------
(* Registry: critical sections under Registry.mu. *)

Registered(s) == \E k \in Codes : sessions[k] = s

ExpiredRooms == {k \in Codes : sessions[k] # None /\ IsExpired(sessions[k])}

WithoutExpired ==
  [k \in Codes |-> IF k \in ExpiredRooms THEN None ELSE sessions[k]]

\* The sessions whose Close() the caller still owes after it unlocks.
Swept == {sessions[k] : k \in ExpiredRooms}

\* A tombstone, judged by the clock the caller read before taking the lock.
Tombstoned(k, at) == ended[k] # ZeroTime /\ at < ended[k]

CreatedBy(i) ==
  {k \in Codes : WithoutExpired[k] # None /\ creatorIP[WithoutExpired[k]] = i}

CreateRefused(k, at) ==
  /\ Tombstoned(k, at)
  /\ sessions' = WithoutExpired
  /\ UNCHANGED <<now, ended, sessionVars>>

CreateExists(k, at) ==
  /\ ~Tombstoned(k, at)
  /\ WithoutExpired[k] # None
  /\ sessions' = WithoutExpired
  /\ ended' = [ended EXCEPT ![k] = ZeroTime]
  /\ UNCHANGED <<now, sessionVars>>

CreateTooMany(k, i, at) ==
  /\ ~Tombstoned(k, at)
  /\ WithoutExpired[k] = None
  /\ MaxSessionsPerIP > 0
  /\ Cardinality(CreatedBy(i)) >= MaxSessionsPerIP
  /\ sessions' = WithoutExpired
  /\ ended' = [ended EXCEPT ![k] = ZeroTime]
  /\ UNCHANGED <<now, sessionVars>>

CreateSessionWithCode(k, i, at, s) ==
  /\ ~Tombstoned(k, at)
  /\ WithoutExpired[k] = None
  /\ MaxSessionsPerIP = 0 \/ Cardinality(CreatedBy(i)) < MaxSessionsPerIP
  /\ code[s] = None
  /\ sessions' = [WithoutExpired EXCEPT ![k] = s]
  /\ ended' = [ended EXCEPT ![k] = ZeroTime]
  /\ code' = [code EXCEPT ![s] = k]
  /\ creatorIP' = [creatorIP EXCEPT ![s] = i]
  /\ expiresAt' = [expiresAt EXCEPT ![s] = now + TTL]
  /\ UNCHANGED <<now, closed, conns>>

CanEnd(s) == sessions[code[s]] = s

EndSession(s) ==
  /\ CanEnd(s)
  /\ sessions' = [sessions EXCEPT ![code[s]] = None]
  /\ ended' = [ended EXCEPT ![code[s]] = now + TTL]
  /\ UNCHANGED <<now, sessionVars>>

RemoveSession(k, s) ==
  /\ sessions' = [sessions EXCEPT ![k] = IF @ = s THEN None ELSE @]
  /\ UNCHANGED <<now, ended, sessionVars>>

\* Fault: the sweeper's comparison is inverted.
sweepExpiredInverted(at) ==
  /\ sessions' = WithoutExpired
  /\ ended' = [k \in Codes |->
                 IF Tombstoned(k, at) THEN ZeroTime ELSE ended[k]]
  /\ UNCHANGED <<now, sessionVars>>

sweepExpired(at) ==
  /\ sessions' = WithoutExpired
  /\ ended' = [k \in Codes |->
                 IF Tombstoned(k, at) THEN ended[k] ELSE ZeroTime]
  /\ UNCHANGED <<now, sessionVars>>

=============================================================================

-------------------------- MODULE RelayStepProofs ---------------------------
(***************************************************************************)
(* What a step of the relay preserves, for any number of codes, sessions,  *)
(* slots, connections and HTTP requests: first the critical sections of    *)
(* module Rooms, whoever calls them and in whatever order; then the types  *)
(* and the locals of the goroutines of module Relay.                       *)
(*                                                                         *)
(* The safety properties are not inductive: that an occupied room is       *)
(* registered rests on what the goroutines between two critical sections   *)
(* hold in their locals.  IInv states it, piece by piece.                  *)
(***************************************************************************)
EXTENDS Relay, FiniteSetTheorems, TLAPS
-----------------------------------------------------------------------------
(* The critical sections of module Rooms. *)

\* One critical section, or a tick of the clock.  Its callers use only
\* sessions that exist and drain only sessions that are not registered.
RoomStep ==
  \/ UNCHANGED roomVars
  \/ \E s \in Sessions, t \in Slots, c \in Conns :
       code[s] # None /\ (AddConnection(s, t, c) \/ RemoveConnection(s, t, c))
  \/ \E s \in Sessions : /\ code[s] # None
                         /\ EndSession(s) \/ (~Registered(s) /\ DrainConnections(s))
  \/ \E k \in Codes, s \in Sessions : RemoveSession(k, s)
  \/ \E k \in Codes, at \in Nat : CreateRefused(k, at) \/ CreateExists(k, at)
  \/ \E k \in Codes, i \in IPs, at \in Nat : CreateTooMany(k, i, at)
  \/ \E k \in Codes, i \in IPs, at \in Nat, s \in Sessions : CreateSessionWithCode(k, i, at, s)
  \/ \E at \in Nat : sweepExpired(at)
  \/ now' = now + 1 /\ UNCHANGED <<registryVars, sessionVars>>

\* The registry and the sessions agree; a session that is not created yet is
\* blank, a closed one is empty, and none is overfull.
RoomsSound ==
  /\ \A k \in Codes : sessions[k] # None => code[sessions[k]] = k /\ ~closed[sessions[k]]
  /\ \A s \in Sessions :
       /\ closed[s] => Occupied(s) = {}
       /\ code[s] = None => Occupied(s) = {} /\ ~closed[s] /\ expiresAt[s] = ZeroTime
       /\ IsFiniteSet(Occupied(s)) /\ Cardinality(Occupied(s)) <= 2

\* A code whose tombstone has not expired is not registered.
TombstonedFree == \A k \in Codes : now < ended[k] => sessions[k] = None

\* A session that nobody can join any more.
Gone(s) == code[s] # None /\ (closed[s] \/ IsExpired(s))

-----------------------------------------------------------------------------

\* Every critical section leaves the registry and the sessions well typed.
LEMMA RoomsTypeStep == RoomsTypeOK /\ RoomStep => RoomsTypeOK'
<1> SUFFICES ASSUME RoomsTypeOK, RoomStep PROVE RoomsTypeOK'
  OBVIOUS
<1> USE RoomsAssumption DEF RoomsTypeOK, registryVars, sessionVars
<1>1. CASE UNCHANGED roomVars
  BY <1>1 DEF roomVars
<1>2. ASSUME NEW s \in Sessions, NEW t \in Slots, NEW c \in Conns, AddConnection(s, t, c)
      PROVE  RoomsTypeOK'
  BY <1>2 DEF AddConnection, ZeroTime
<1>3. ASSUME NEW s \in Sessions, NEW t \in Slots, NEW c \in Conns, RemoveConnection(s, t, c)
      PROVE  RoomsTypeOK'
  <2>1. expiresAt' \in [Sessions -> Nat]
    BY <1>3 DEF RemoveConnection
  <2>2. conns' \in [Sessions -> [Slots -> Conns \cup {None}]]
    BY <1>3 DEF RemoveConnection
  <2>3. UNCHANGED <<now, sessions, ended, code, creatorIP, closed>>
    BY <1>3, Zenon DEF RemoveConnection
  <2>4. QED
    BY <2>1, <2>2, <2>3
<1>4. ASSUME NEW s \in Sessions, EndSession(s)
      PROVE  RoomsTypeOK'
  <2>1. sessions' \in [Codes -> Sessions \cup {None}]
    BY <1>4, Zenon DEF EndSession
  <2>2. now + TTL \in Nat
    OBVIOUS
  <2> HIDE RoomsAssumption
  <2>4. ended' \in [Codes -> Nat]
    BY <1>4, <2>2, Zenon DEF EndSession
  <2>3. QED
    BY <1>4, <2>1, <2>4 DEF EndSession
<1>5. ASSUME NEW s \in Sessions, DrainConnections(s)
      PROVE  RoomsTypeOK'
  BY <1>5 DEF DrainConnections
<1>6. ASSUME NEW k \in Codes, NEW s \in Sessions, RemoveSession(k, s)
      PROVE  RoomsTypeOK'
  BY <1>6 DEF RemoveSession
<1>7. WithoutExpired \in [Codes -> Sessions \cup {None}]
  BY DEF WithoutExpired
<1>8. ASSUME NEW k \in Codes, NEW at \in Nat, CreateRefused(k, at) \/ CreateExists(k, at)
      PROVE  RoomsTypeOK'
  <2>1. CASE CreateRefused(k, at)
    BY <1>7, <2>1 DEF CreateRefused, ZeroTime
  <2>2. CASE CreateExists(k, at)
    BY <1>7, <2>2 DEF CreateExists, ZeroTime
  <2> QED
    BY <1>8, <2>1, <2>2, Zenon
<1>9. ASSUME NEW k \in Codes, NEW i \in IPs, NEW at \in Nat, CreateTooMany(k, i, at)
      PROVE  RoomsTypeOK'
  BY <1>7, <1>9 DEF CreateTooMany, ZeroTime
<1>10. ASSUME NEW k \in Codes, NEW i \in IPs, NEW at \in Nat, NEW s \in Sessions,
              CreateSessionWithCode(k, i, at, s)
       PROVE  RoomsTypeOK'
  BY <1>7, <1>10 DEF CreateSessionWithCode, ZeroTime
<1>11. ASSUME NEW at \in Nat, sweepExpired(at)
       PROVE  RoomsTypeOK'
  BY <1>7, <1>11 DEF sweepExpired, ZeroTime
<1>12. CASE now' = now + 1 /\ UNCHANGED <<registryVars, sessionVars>>
  BY <1>12
<1>13. QED
  BY <1>1, <1>2, <1>3, <1>4, <1>5, <1>6, <1>8, <1>9, <1>10, <1>11, <1>12, Zenon DEF RoomStep

\* A created session keeps its code: NewSession's Code is never assigned again.
LEMMA CodeStable ==
  ASSUME RoomsTypeOK, RoomStep, NEW s \in Sessions, code[s] # None
  PROVE  code'[s] = code[s]
<1> USE DEF RoomsTypeOK, registryVars, sessionVars
<1>1. ASSUME NEW k \in Codes, NEW i \in IPs, NEW at \in Nat, NEW x \in Sessions,
             CreateSessionWithCode(k, i, at, x)
      PROVE  code'[s] = code[s]
  BY <1>1, Zenon DEF CreateSessionWithCode
<1>2. QED
  BY <1>1 DEF RoomStep, roomVars, AddConnection, RemoveConnection, EndSession,
     DrainConnections, RemoveSession, CreateRefused, CreateExists, CreateTooMany, sweepExpired

\* A step that changes neither a session's connections nor its ExpiresAt, and
\* does not turn the clock back, leaves it expired.
LEMMA ExpiryUntouched ==
  ASSUME RoomsTypeOK, NEW s \in Sessions, IsExpired(s),
         conns' = conns, expiresAt'[s] = expiresAt[s], now' \in Nat, now' >= now
  PROVE  IsExpired(s)'
  BY DEF RoomsTypeOK, IsExpired, Occupied

\* IsExpired is final: AddConnection refuses an expired session, and only
\* NewSession and RemoveConnection set a new ExpiresAt.
LEMMA ExpiryStable ==
  ASSUME RoomsTypeOK, RoomsSound, RoomStep, NEW s \in Sessions, IsExpired(s)
  PROVE  IsExpired(s)'
<1> USE DEF RoomsTypeOK
<1>1. ASSUME NEW x \in Sessions, NEW t \in Slots, NEW c \in Conns, AddConnection(x, t, c)
      PROVE  IsExpired(s)'
  BY <1>1, Zenon DEF AddConnection, CanAdd, IsExpired, Occupied
<1>2. ASSUME NEW x \in Sessions, NEW t \in Slots, NEW c \in Conns, RemoveConnection(x, t, c)
      PROVE  IsExpired(s)'
  <2>1. x # s
    BY <1>2, RoomsAssumption, Zenon DEF RemoveConnection, CanRemove, IsExpired, Occupied
  <2>2. conns'[s] = conns[s] /\ expiresAt'[s] = expiresAt[s] /\ now' = now
    BY <1>2, <2>1, Zenon DEF RemoveConnection
  <2>3. QED
    BY <2>2, Zenon DEF IsExpired, Occupied
<1>3. ASSUME NEW x \in Sessions, DrainConnections(x)
      PROVE  IsExpired(s)'
  BY <1>3, Zenon DEF DrainConnections, IsExpired, Occupied
<1>4. ASSUME NEW k \in Codes, NEW i \in IPs, NEW at \in Nat, NEW x \in Sessions,
             CreateSessionWithCode(k, i, at, x)
      PROVE  IsExpired(s)'
  <2>1. x # s
    BY <1>4, Zenon DEF CreateSessionWithCode, IsExpired, RoomsSound
  <2>2. conns' = conns /\ expiresAt'[s] = expiresAt[s] /\ now' = now
    BY <1>4, <2>1, Zenon DEF CreateSessionWithCode
  <2>3. QED
    BY <2>2, ExpiryUntouched
<1>5. CASE conns' = conns /\ expiresAt' = expiresAt /\ (now' = now \/ now' = now + 1)
  BY <1>5, ExpiryUntouched
<1>6. QED
  BY <1>1, <1>2, <1>3, <1>4, <1>5, Zenon
     DEF RoomStep, roomVars, registryVars, sessionVars, EndSession, RemoveSession,
         CreateRefused, CreateExists, CreateTooMany, sweepExpired

\* closed is never reset, so a session nobody can join stays that way.
LEMMA GoneStable ==
  ASSUME RoomsTypeOK, RoomsSound, RoomStep, NEW s \in Sessions, Gone(s)
  PROVE  Gone(s)'
<1>1. code'[s] # None
  BY CodeStable DEF Gone
<1>2. CASE IsExpired(s)
  BY <1>1, <1>2, ExpiryStable DEF Gone
<1>3. CASE closed[s]
  <2>1. closed'[s]
    BY <1>3, Zenon DEF RoomStep, RoomsTypeOK, roomVars, registryVars, sessionVars, AddConnection,
       RemoveConnection, EndSession, DrainConnections, RemoveSession, CreateRefused,
       CreateExists, CreateTooMany, CreateSessionWithCode, sweepExpired
  <2>2. QED
    BY <1>1, <2>1, Zenon DEF Gone
<1>4. QED
  BY <1>2, <1>3, Zenon DEF Gone

\* A registry entry that survives or disappears, with the sessions untouched,
\* leaves the rooms sound.
LEMMA SoundWithFewer ==
  ASSUME RoomsTypeOK, RoomsSound, UNCHANGED sessionVars,
         \A k \in Codes : sessions'[k] \in {None, sessions[k]}
  PROVE  RoomsSound'
<1>1. \A s \in Sessions : Occupied(s)' = Occupied(s)
  BY ZenonT(30) DEF sessionVars, Occupied
<1>2. QED
  BY <1>1, Zenon DEF RoomsSound, sessionVars

\* Every critical section keeps the rooms sound.
LEMMA RoomsSoundStep == RoomsTypeOK /\ RoomsSound /\ RoomStep => RoomsSound'
<1> SUFFICES ASSUME RoomsTypeOK, RoomsSound, RoomStep PROVE RoomsSound'
  BY Zenon
<1>1. ASSUME NEW s \in Sessions, NEW t \in Slots, NEW c \in Conns,
             code[s] # None, AddConnection(s, t, c)
      PROVE  RoomsSound'
  <2> USE DEF RoomsTypeOK
  <2>1. /\ conns' = [conns EXCEPT ![s][t] = c]
        /\ expiresAt' = [expiresAt EXCEPT ![s] = ZeroTime]
        /\ UNCHANGED <<sessions, code, closed>>
    BY <1>1, Zenon DEF AddConnection, registryVars
  <2>2. ~closed[s] /\ (conns[s][t] # None \/ Cardinality(Occupied(s)) < 2)
    BY <1>1, Zenon DEF AddConnection, CanAdd
  <2>3. Occupied(s)' = Occupied(s) \cup {t}
    BY <2>1, RoomsAssumption DEF Occupied
  <2>4. \A x \in Sessions \ {s} : Occupied(x)' = Occupied(x)
    BY <2>1, Zenon DEF Occupied
  <2>5. IsFiniteSet(Occupied(s)') /\ Cardinality(Occupied(s)') <= 2
    <3>1. IsFiniteSet(Occupied(s)) /\ Cardinality(Occupied(s)) <= 2
      BY DEF RoomsSound
    <3>2. CASE t \in Occupied(s)
      <4>1. Occupied(s)' = Occupied(s)
        BY <2>3, <3>2, Zenon
      <4>2. QED
        BY <3>1, <4>1, Zenon
    <3>3. CASE t \notin Occupied(s)
      <4>1. Cardinality(Occupied(s)) < 2
        BY <2>2, <3>3 DEF Occupied
      <4>2. /\ IsFiniteSet(Occupied(s) \cup {t})
            /\ Cardinality(Occupied(s) \cup {t}) = Cardinality(Occupied(s)) + 1
        BY <3>1, <3>3, FS_AddElement, Zenon
      <4>3. Cardinality(Occupied(s)) \in Nat
        BY <3>1, FS_CardinalityType, Zenon
      <4>4. QED
        BY <2>3, <4>1, <4>2, <4>3
    <3>4. QED
      BY <3>2, <3>3, Zenon
  <2>6. QED
    BY <1>1, <2>1, <2>2, <2>4, <2>5, Zenon DEF RoomsSound
<1>2. ASSUME NEW s \in Sessions, NEW t \in Slots, NEW c \in Conns,
             code[s] # None, RemoveConnection(s, t, c)
      PROVE  RoomsSound'
  <2> USE DEF RoomsTypeOK
  <2>1. conns' = [conns EXCEPT ![s][t] = None]
    BY <1>2, Zenon DEF RemoveConnection
  <2>2. Occupied(s)' = Occupied(s) \ {t} /\ t \in Occupied(s)
    BY <1>2, <2>1, RoomsAssumption DEF Occupied, RemoveConnection, CanRemove
  <2>3. /\ UNCHANGED <<sessions, code, closed>>
        /\ \A x \in Sessions \ {s} : Occupied(x)' = Occupied(x) /\ expiresAt'[x] = expiresAt[x]
    BY <1>2, <2>1, Zenon DEF Occupied, RemoveConnection, registryVars
  <2>4. IsFiniteSet(Occupied(s)') /\ Cardinality(Occupied(s)') <= 2
    <3>1. IsFiniteSet(Occupied(s)) /\ Cardinality(Occupied(s)) <= 2
      BY Zenon DEF RoomsSound
    <3>2. /\ IsFiniteSet(Occupied(s) \ {t})
          /\ Cardinality(Occupied(s) \ {t}) = Cardinality(Occupied(s)) - 1
      BY <2>2, <3>1, FS_RemoveElement, Zenon
    <3>3. Cardinality(Occupied(s)) \in Nat
      BY <3>1, FS_CardinalityType, Zenon
    <3>4. QED
      BY <2>2, <3>1, <3>2, <3>3
  <2>5. ~closed[s]
    BY <2>2, Zenon DEF RoomsSound
  <2>6. QED
    BY <1>2, <2>3, <2>4, <2>5, Zenon DEF RoomsSound
<1>3. ASSUME NEW s \in Sessions, code[s] # None, ~Registered(s), DrainConnections(s)
      PROVE  RoomsSound'
  <2> USE DEF RoomsTypeOK
  <2>1. UNCHANGED <<sessions, code, expiresAt>> /\ closed' = [closed EXCEPT ![s] = TRUE]
    BY <1>3 DEF DrainConnections, registryVars
  <2>2. Occupied(s)' = {}
    BY <1>3, Zenon DEF DrainConnections, Occupied, RoomsSound
  <2>3. \A x \in Sessions \ {s} : Occupied(x)' = Occupied(x)
    BY <1>3, Zenon DEF DrainConnections, Occupied
  <2>4. IsFiniteSet({}) /\ Cardinality({}) = 0
    BY FS_EmptySet, Zenon
  <2>5. \A k \in Codes : sessions[k] # s
    BY <1>3, Zenon DEF Registered
  <2>6. \A k \in Codes : sessions'[k] # None => code'[sessions'[k]] = k /\ ~closed'[sessions'[k]]
    BY <2>1, <2>5, Zenon DEF RoomsSound
  <2>7. ASSUME NEW x \in Sessions
        PROVE  /\ closed'[x] => Occupied(x)' = {}
               /\ code'[x] = None => Occupied(x)' = {} /\ ~closed'[x] /\ expiresAt'[x] = ZeroTime
               /\ IsFiniteSet(Occupied(x)') /\ Cardinality(Occupied(x)') <= 2
    <3>1. CASE x = s
      <4>1. Occupied(x)' = {}
        BY <2>2, <3>1, Zenon DEF Occupied
      <4>2. code'[x] # None
        BY <1>3, <2>1, <3>1, Zenon
      <4>3. QED
        BY <2>4, <4>1, <4>2
    <3>2. CASE x # s
      <4>1. Occupied(x)' = Occupied(x) /\ closed'[x] = closed[x]
        BY <2>1, <2>3, <3>2
      <4>2. QED
        BY <2>1, <4>1, ZenonT(60) DEF RoomsSound
    <3>3. QED
      BY <3>1, <3>2, Zenon
  <2>8. QED
    BY <2>6, <2>7, Zenon DEF RoomsSound
<1>4. ASSUME NEW s \in Sessions, code[s] # None, EndSession(s)
      PROVE  RoomsSound'
  BY <1>4, SoundWithFewer, Zenon DEF EndSession, RoomsTypeOK
<1>5. ASSUME NEW k \in Codes, NEW s \in Sessions, RemoveSession(k, s)
      PROVE  RoomsSound'
  BY <1>5, SoundWithFewer DEF RemoveSession, RoomsTypeOK
<1>6. \A k \in Codes : WithoutExpired[k] \in {None, sessions[k]}
  BY DEF WithoutExpired
<1>7. CASE sessions' = WithoutExpired /\ UNCHANGED sessionVars
  BY <1>6, <1>7, SoundWithFewer
<1>8. ASSUME NEW k \in Codes, NEW i \in IPs, NEW at \in Nat, NEW s \in Sessions,
             CreateSessionWithCode(k, i, at, s)
      PROVE  RoomsSound'
  <2> USE DEF RoomsTypeOK
  <2>1. /\ code[s] = None /\ code' = [code EXCEPT ![s] = k]
        /\ UNCHANGED <<closed, conns>>
    BY <1>8, Zenon DEF CreateSessionWithCode
  <2>2. \A l \in Codes : sessions'[l] = IF l = k THEN s ELSE WithoutExpired[l]
    BY <1>8, Zenon DEF CreateSessionWithCode, WithoutExpired
  <2>3. \A x \in Sessions \ {s} : expiresAt'[x] = expiresAt[x]
    BY <1>8, Zenon DEF CreateSessionWithCode
  <2>4. \A x \in Sessions : Occupied(x)' = Occupied(x)
    BY <2>1, Zenon DEF Occupied
  <2>5. \A l \in Codes : sessions[l] # s
    BY <2>1, RoomsAssumption DEF RoomsSound
  <2>6. \A l \in Codes : sessions'[l] # None => code'[sessions'[l]] = l /\ ~closed'[sessions'[l]]
    BY <1>6, <2>1, <2>2, <2>5, RoomsAssumption DEF RoomsSound
  <2>7. \A x \in Sessions : code'[x] = None => code[x] = None /\ x # s
    BY <2>1, RoomsAssumption, Zenon
  <2>8. ASSUME NEW x \in Sessions
        PROVE  /\ closed'[x] => Occupied(x)' = {}
               /\ code'[x] = None => Occupied(x)' = {} /\ ~closed'[x] /\ expiresAt'[x] = ZeroTime
               /\ IsFiniteSet(Occupied(x)') /\ Cardinality(Occupied(x)') <= 2
    BY <2>1, <2>3, <2>4, <2>7, ZenonT(30) DEF RoomsSound
  <2>9. QED
    BY <2>6, <2>8, Zenon DEF RoomsSound
<1>9. CASE UNCHANGED <<sessions, sessionVars>>
  BY <1>9, SoundWithFewer
<1>10. QED
  BY <1>1, <1>2, <1>3, <1>4, <1>5, <1>7, <1>8, <1>9, Zenon
     DEF RoomStep, roomVars, registryVars, sessionVars, CreateRefused, CreateExists,
         CreateTooMany, sweepExpired

\* A session is registered by NewSession's caller and never again.
LEMMA UnregisteredStable ==
  ASSUME RoomsTypeOK, RoomStep, NEW s \in Sessions, code[s] # None, ~Registered(s)
  PROVE  ~Registered(s)'
<1> USE RoomsAssumption DEF RoomsTypeOK, Registered
<1>1. \A k \in Codes : WithoutExpired[k] \in {None, sessions[k]}
  BY Zenon DEF WithoutExpired
<1>2. ASSUME NEW k \in Codes, NEW i \in IPs, NEW at \in Nat, NEW x \in Sessions,
             CreateSessionWithCode(k, i, at, x)
      PROVE  ~Registered(s)'
  <2>1. x # s
    BY <1>2 DEF CreateSessionWithCode
  <2>2. \A l \in Codes : sessions'[l] = IF l = k THEN x ELSE WithoutExpired[l]
    BY <1>2, Zenon DEF CreateSessionWithCode, WithoutExpired
  <2>3. QED
    BY <1>1, <2>1, <2>2, ZenonT(30)
<1>3. CASE sessions' = WithoutExpired
  BY <1>1, <1>3, Zenon
<1>4. ASSUME NEW x \in Sessions, EndSession(x)
      PROVE  ~Registered(s)'
  BY <1>4, Zenon DEF EndSession
<1>5. ASSUME NEW k \in Codes, NEW x \in Sessions, RemoveSession(k, x)
      PROVE  ~Registered(s)'
  BY <1>5 DEF RemoveSession
<1>6. CASE UNCHANGED sessions
  BY <1>6
<1>7. QED
  BY <1>2, <1>3, <1>4, <1>5, <1>6, Zenon
     DEF RoomStep, roomVars, registryVars, AddConnection, RemoveConnection, DrainConnections,
         CreateRefused, CreateExists, CreateTooMany, sweepExpired

\* Ending a room frees its code and creating one removes the tombstone.
LEMMA TombstonedFreeStep == RoomsTypeOK /\ TombstonedFree /\ RoomStep => TombstonedFree'
<1> SUFFICES ASSUME RoomsTypeOK, TombstonedFree, RoomStep, NEW l \in Codes, now' < ended'[l]
             PROVE  sessions'[l] = None
  BY DEF TombstonedFree
<1> USE DEF RoomsTypeOK, TombstonedFree, registryVars
<1>1. WithoutExpired[l] \in {None, sessions[l]}
  BY Zenon DEF WithoutExpired
<1>2. ASSUME NEW k \in Codes, NEW i \in IPs, NEW at \in Nat, NEW s \in Sessions,
             CreateSessionWithCode(k, i, at, s)
      PROVE  sessions'[l] = None
  BY <1>1, <1>2 DEF CreateSessionWithCode, WithoutExpired, ZeroTime
<1>3. ASSUME NEW k \in Codes, NEW at \in Nat, CreateRefused(k, at) \/ CreateExists(k, at)
      PROVE  sessions'[l] = None
  BY <1>1, <1>3 DEF CreateRefused, CreateExists, ZeroTime
<1>4. ASSUME NEW k \in Codes, NEW i \in IPs, NEW at \in Nat, CreateTooMany(k, i, at)
      PROVE  sessions'[l] = None
  BY <1>1, <1>4, Zenon DEF CreateTooMany, ZeroTime
<1>5. ASSUME NEW at \in Nat, sweepExpired(at)
      PROVE  sessions'[l] = None
  BY <1>1, <1>5 DEF sweepExpired, ZeroTime
<1>6. ASSUME NEW s \in Sessions, code[s] # None, EndSession(s)
      PROVE  sessions'[l] = None
  BY <1>6, Zenon DEF EndSession
<1>7. ASSUME NEW k \in Codes, NEW s \in Sessions, RemoveSession(k, s)
      PROVE  sessions'[l] = None
  BY <1>7, Zenon DEF RemoveSession
<1>8. CASE UNCHANGED registryVars /\ (now' = now \/ now' = now + 1)
  BY <1>8
<1>9. QED
  BY <1>2, <1>3, <1>4, <1>5, <1>6, <1>7, <1>8, Zenon
     DEF RoomStep, roomVars, AddConnection, RemoveConnection, DrainConnections

\* Until a tombstone expires, a step that judges it by a clock in the past
\* neither drops it nor registers its code.
LEMMA TombstoneKept ==
  ASSUME RoomsTypeOK, TombstonedFree, NEW k \in Codes, now < ended[k],
         NEW at \in Nat, at <= now, NEW l \in Codes, NEW i,
         \/ CreateRefused(l, at) \/ CreateExists(l, at) \/ CreateTooMany(l, i, at)
         \/ sweepExpired(at)
         \/ \E s \in Sessions : CreateSessionWithCode(l, i, at, s)
  PROVE  ended'[k] = ended[k] /\ sessions'[k] = None
<1>1. sessions[k] = None /\ WithoutExpired[k] = None
  BY Zenon DEF TombstonedFree, WithoutExpired
<1>2. Tombstoned(k, at)
  BY DEF Tombstoned, RoomsTypeOK, ZeroTime
<1>3. QED
  BY <1>1, <1>2, Zenon DEF RoomsTypeOK, CreateRefused, CreateExists, CreateTooMany, sweepExpired,
     CreateSessionWithCode, WithoutExpired

-----------------------------------------------------------------------------
(* The inductive invariant of module Relay, and the types. *)

\* Where a goroutine's locals hold what its next step dereferences.
ConnLocals(c) ==
  /\ pc[c] \in ConnPc
  /\ pc[c] # "new" => req[c] \in [code : Codes, ip : IPs, slot : Slots]
  /\ pc[c] \in {"check", "remove", "add"} \/ Attached(c) => session[c] \in Sessions
  /\ pc[c] \in {"tell_peer", "tell_self", "relay", "tell_gone"} => peer[c] \in Conns
  /\ pc[c] = "close_old" => replaced[c] \in Conns

HttpLocals(h) ==
  /\ pc[h] \in HttpPc
  /\ pc[h] \in {"lookup", "check", "remove", "create"} => req[h].code \in Codes
  /\ pc[h] \in {"draw", "create"} => req[h].ip \in IPs
  /\ pc[h] \in {"check", "remove"} => session[h] \in Sessions
  /\ pc[h] = "idle" => draw[h] = NoDraw
  /\ pc[h] = "draw" => draw[h].attempts < CreateAttempts

Locals == (\A c \in Conns : ConnLocals(c)) /\ (\A h \in Https : HttpLocals(h))

\* A goroutine holds only created sessions, under the code it asked for.  One
\* that GetSession found expired, or that was unregistered as expired, can
\* never be joined again; one that is about to be drained or closed is not
\* registered.
Held ==
  /\ \A p \in Procs :
       /\ session[p] # None => code[session[p]] # None
       /\ pc[p] \in {"check", "remove"} => code[session[p]] = req[p].code
       /\ pc[p] = "remove" => Gone(session[p])
  /\ \A c \in Conns : pc[c] = "drain" => ~Registered(session[c])
  /\ \A s \in closing : Gone(s) /\ ~Registered(s)

\* A created session is registered, or gone, or about to be drained.
Accounted ==
  \A s \in Sessions : code[s] # None => sessions[code[s]] = s \/ Gone(s) \/ Draining(s)

\* Clocks that goroutines read lie in the past; a tombstoned code is free.
Clocks ==
  /\ \A h \in Https : draw[h].at <= now
  /\ sweepAt <= now
  /\ TombstonedFree

IInv == TypeOK /\ Locals /\ RoomsSound /\ NoGhostParticipant /\ Held /\ Accounted /\ Clocks

-----------------------------------------------------------------------------
(* The primitives keep the types of what they assign. *)

\* A goroutine moves to one of its labels.
LEMMA GotoType ==
  ASSUME GoroutinesTypeOK, NEW p \in Procs, NEW l \in ConnPc \cup HttpPc, Goto(p, l)
  PROVE  pc' \in [Procs -> ConnPc \cup HttpPc]
  BY Zenon DEF GoroutinesTypeOK, Goto

\* Connection.Close sets flags of connections.
LEMMA CloseType ==
  ASSUME GoroutinesTypeOK, NEW C, Close(C)
  PROVE  connClosed' \in [Conns -> BOOLEAN]
  BY DEF GoroutinesTypeOK, Close

\* The control frames a connection may hear.
Controls == [event : Events, of : Conns]

\* SendPriority adds a control frame to what a connection has heard.
LEMMA SendPriorityType ==
  ASSUME GoroutinesTypeOK, NEW c, NEW e \in Events, NEW o \in Conns, SendPriority(c, e, o)
  PROVE  heard' \in [Conns -> SUBSET Controls]
<1>1. heard \in [Conns -> SUBSET Controls]
  BY Zenon DEF GoroutinesTypeOK, Controls
<1>2. [event |-> e, of |-> o] \in Controls
  BY DEF Controls
<1>3. CASE heard' = heard
  BY <1>1, <1>3, Zenon
<1>4. CASE heard' = [heard EXCEPT ![c] = @ \cup {[event |-> e, of |-> o]}]
  BY <1>1, <1>2, <1>4, Zenon
<1> QED
  BY <1>3, <1>4, Zenon DEF SendPriority

\* Send appends at most one frame, so every sendChan stays a sequence of
\* frames.
LEMMA SendType ==
  ASSUME GoroutinesTypeOK, NEW c, NEW f \in Frames, Send(c, f)
  PROVE  sendChan' \in [Conns -> Seq(Frames)]
<1> USE DEF GoroutinesTypeOK
<1>1. CASE sendChan' = sendChan
  BY <1>1, Zenon
<1>2. CASE sendChan' = [sendChan EXCEPT ![c] = Append(@, f)]
  <2>1. CASE c \in Conns
    <3>1. Append(sendChan[c], f) \in Seq(Frames)
      BY <2>1
    <3>2. QED
      BY Zenon, <1>2, <3>1
  <2>2. CASE c \notin Conns
    BY Zenon, <1>2, <2>2
  <2>3. QED
    BY <2>1, <2>2, Zenon
<1>3. QED
  BY <1>1, <1>2, Zenon DEF Send

\* reserveIP counts up from a natural number.
LEMMA ReserveType ==
  ASSUME GoroutinesTypeOK, NEW i \in IPs, reserveIP(i)
  PROVE  connsByIP' \in [IPs -> Nat]
  BY DEF GoroutinesTypeOK, reserveIP

\* releaseIP never counts below zero: it deletes the entry of the last
\* connection.
LEMMA ReleaseType ==
  ASSUME GoroutinesTypeOK, NEW i \in IPs, releaseIP(i)
  PROVE  connsByIP' \in [IPs -> Nat]
<1> DEFINE left == IF connsByIP[i] <= 1 THEN 0 ELSE connsByIP[i] - 1
<1>1. left \in Nat
  BY DEF GoroutinesTypeOK
<1>2. connsByIP' = [connsByIP EXCEPT ![i] = left]
  BY DEF releaseIP
<1> HIDE DEF left
<1>3. QED
  BY <1>1, <1>2, Zenon DEF GoroutinesTypeOK

\* A peer picked from a room is a connection of it.
LEMMA OneOfType ==
  ASSUME NEW S \in SUBSET Conns, NEW x \in OneOf(S)
  PROVE  x \in Conns \cup {None} /\ (x # None \/ S # {} => x \in S)
  BY RoomsAssumption, Zenon DEF OneOf

\* What a session reports as its connections, others or peers are
\* connections.
LEMMA ConnectionsType ==
  ASSUME RoomsTypeOK, NEW s \in Sessions
  PROVE  /\ Connections(s) \subseteq Conns
         /\ \A t \in Slots : OtherConns(s, t) \subseteq Conns
         /\ \A c \in Conns : PeerOf(s, c) \subseteq Conns
  BY DEF RoomsTypeOK, Connections, OtherConns, PeerOf, Occupied

-----------------------------------------------------------------------------
(* Each action keeps the types of the goroutines' state. *)

\* The requests a new HTTP goroutine starts with, and the one it ends with.
LEMMA RequestType ==
  /\ NoRequest \in Requests
  /\ \A i \in IPs : [NoRequest EXCEPT !.ip = i] \in Requests
  /\ \A k \in Codes : [NoRequest EXCEPT !.code = k] \in Requests
  BY DEF NoRequest, Requests

\* The draw a goroutine ends with.
LEMMA NoDrawType == NoDraw \in [at : Nat, attempts : 0..CreateAttempts]
  BY RelayAssumption DEF NoDraw, ZeroTime

\* One more round of CreateSession's loop stays within its attempts.
LEMMA AttemptType ==
  ASSUME NEW a \in 0..CreateAttempts, a < CreateAttempts
  PROVE  a + 1 \in 0..CreateAttempts
  BY RelayAssumption

\* An update of a function within its range.
LEMMA UpdateType ==
  ASSUME NEW S, NEW T, NEW f \in [S -> T], NEW x, NEW y \in T
  PROVE  [f EXCEPT ![x] = y] \in [S -> T]
  BY Zenon

\* The sessions a sweep unregisters.
LEMMA SweptType == ASSUME RoomsTypeOK PROVE Swept \subseteq Sessions
  BY DEF Swept, ExpiredRooms, RoomsTypeOK

\* Every handler step keeps the types of pc, the locals, the outboxes and
\* connsByIP.
LEMMA GoroutinesTypeStep == IInv /\ [Next]_vars => GoroutinesTypeOK'
<1> SUFFICES ASSUME IInv, [Next]_vars PROVE GoroutinesTypeOK'
  OBVIOUS
<1>1. GoroutinesTypeOK /\ RoomsTypeOK
  BY DEF IInv, TypeOK
<1> USE GotoType DEF Procs, ConnPc, HttpPc, attachVars, dataVars, sockVars, sweepVars
<1>2. ASSUME NEW c \in Conns, Reject(c) PROVE GoroutinesTypeOK'
  <2>1. req[c].ip \in IPs
    BY <1>2, Zenon DEF Reject, IInv, Locals, ConnLocals, HttpLocals
  <2>2. QED
    BY Zenon, <1>1, <2>1, <1>2, CloseType, ReleaseType DEF Reject, Abort, GoroutinesTypeOK
<1>3. ASSUME NEW c \in Conns, AttachLookup(c) PROVE GoroutinesTypeOK'
  <2>1. /\ pc[c] = "lookup" => sessions[req[c].code] \in Sessions \cup {None}
        /\ pc[c] = "remove" => session[c] \in Sessions
    BY <1>1 DEF IInv, Locals, ConnLocals, HttpLocals, RoomsTypeOK
  <2>2. session' \in [Procs -> Sessions \cup {None}]
    BY Zenon, <1>1, <2>1, <1>3 DEF AttachLookup, GetSession, GoroutinesTypeOK
  <2>3. closing' \in SUBSET Sessions
    BY <1>1, <2>1, <1>3, Zenon DEF AttachLookup, GetSession, GoroutinesTypeOK
  <2>4. pc' \in [Procs -> ConnPc \cup HttpPc]
    BY ZenonT(30), <1>1, <1>3 DEF AttachLookup, GetSession
  <2>5. QED
    BY <1>1, <2>2, <2>3, <2>4, <1>3, Zenon DEF AttachLookup, GoroutinesTypeOK
<1>4. ASSUME NEW c \in Conns, AttachAdd(c) PROVE GoroutinesTypeOK'
  <2>1. session[c] \in Sessions /\ req[c].slot \in Slots
    BY <1>4, Zenon DEF AttachAdd, IInv, Locals, ConnLocals, HttpLocals
  <2>2. PICK x \in OneOf(OtherConns(session[c], req[c].slot)) :
          peer' = [peer EXCEPT ![c] = x] /\ \E l \in ConnPc : Goto(c, l)
    BY Zenon, <1>4 DEF AttachAdd
  <2>3. x \in Conns \cup {None}
    BY <1>1, <2>1, OneOfType, ConnectionsType, Zenon
  <2>4. peer' \in [Conns -> Conns \cup {None}] /\ pc' \in [Procs -> ConnPc \cup HttpPc]
    BY Zenon, <1>1, <2>2, <2>3 DEF GoroutinesTypeOK
  <2>5. replaced' \in [Conns -> Conns \cup {None}]
    BY <1>1, <2>1, <1>4 DEF AttachAdd, GoroutinesTypeOK, RoomsTypeOK
  <2>6. QED
    BY ZenonT(30), <1>1, <2>4, <2>5, <1>4 DEF AttachAdd, GoroutinesTypeOK
<1>5. ASSUME NEW c \in Conns, AttachRefused(c) PROVE GoroutinesTypeOK'
  BY <1>1, <1>5, Zenon DEF AttachRefused, GoroutinesTypeOK
<1>6. ASSUME NEW c \in Conns, CloseReplaced(c) PROVE GoroutinesTypeOK'
  BY Zenon, <1>1, <1>6, CloseType DEF CloseReplaced, GoroutinesTypeOK
<1>7. ASSUME NEW c \in Conns, TellPeer(c) PROVE GoroutinesTypeOK'
  <2>1. heard' \in [Conns -> SUBSET Controls]
    BY Zenon, <1>1, <1>7, SendPriorityType DEF TellPeer, Events
  <2> QED
    BY Zenon, <1>1, <1>7, <2>1 DEF TellPeer, GoroutinesTypeOK, Controls
<1>8. ASSUME NEW c \in Conns, TellSelf(c) PROVE GoroutinesTypeOK'
  <2>1. peer[c] \in Conns
    BY <1>8, Zenon DEF TellSelf, IInv, Locals, ConnLocals
  <2>2. heard' \in [Conns -> SUBSET Controls]
    BY Zenon, <1>1, <1>8, <2>1, SendPriorityType DEF TellSelf, Events
  <2> QED
    BY Zenon, <1>1, <1>8, <2>2 DEF TellSelf, GoroutinesTypeOK, Controls
<1>9. ASSUME NEW c \in Conns, Forward(c) PROVE GoroutinesTypeOK'
  BY Zenon, <1>1, <1>9, SendType DEF Forward, GoroutinesTypeOK, Frames
<1>10. ASSUME NEW c \in Conns, EndTombstone(c) PROVE GoroutinesTypeOK'
  BY Zenon, <1>1, <1>10 DEF EndTombstone, GoroutinesTypeOK
<1>11. ASSUME NEW c \in Conns, EndIgnored(c) PROVE GoroutinesTypeOK'
  BY Zenon, <1>1, <1>11 DEF EndIgnored, GoroutinesTypeOK
<1>12. ASSUME NEW c \in Conns, EndDrain(c) PROVE GoroutinesTypeOK'
  <2>1. session[c] \in Sessions
    BY <1>12, Zenon DEF EndDrain, IInv, Locals, ConnLocals, HttpLocals, Attached, AttachedPc
  <2>2. Drained(session[c]) \subseteq Conns
    BY <1>1, <2>1, ConnectionsType, Zenon DEF Drained
  <2>3. drain' \in [Conns -> SUBSET Conns]
    BY <1>1, <2>2, <1>12, Zenon DEF EndDrain, GoroutinesTypeOK
  <2>4. QED
    BY Zenon, <1>1, <2>3, <1>12 DEF EndDrain, GoroutinesTypeOK
<1>13. ASSUME NEW c \in Conns, EndCut(c) PROVE GoroutinesTypeOK'
  <2>1. drain' \in [Conns -> SUBSET Conns]
    BY ZenonT(30), <1>1, <1>13 DEF EndCut, GoroutinesTypeOK
  <2>2. heard' \in [Conns -> SUBSET Controls] /\ connClosed' \in [Conns -> BOOLEAN]
    BY Zenon, <1>1, <1>13, SendPriorityType, CloseType DEF EndCut, Events, GoroutinesTypeOK, Controls
  <2>3. pc' \in [Procs -> ConnPc \cup HttpPc]
    BY Zenon, <1>1, <1>13 DEF EndCut, GoroutinesTypeOK
  <2>4. QED
    BY Zenon, <1>1, <2>1, <2>2, <2>3, <1>13 DEF EndCut, GoroutinesTypeOK, Controls
<1>14. ASSUME NEW c \in Conns, Return(c) PROVE GoroutinesTypeOK'
  BY Zenon, <1>1, <1>14, CloseType DEF Return, GoroutinesTypeOK
<1>15. ASSUME NEW c \in Conns, Detach(c) PROVE GoroutinesTypeOK'
  <2>1. session[c] \in Sessions /\ req[c].slot \in Slots
    BY <1>15, Zenon DEF Detach, IInv, Locals, ConnLocals, HttpLocals, Attached, AttachedPc
  <2>2. PICK x \in OneOf(OtherConns(session[c], req[c].slot)) :
          peer' = [peer EXCEPT ![c] = x] /\ \E l \in ConnPc : Goto(c, l)
    BY Zenon, <1>15 DEF Detach
  <2>3. x \in Conns \cup {None}
    BY <1>1, <2>1, OneOfType, ConnectionsType, Zenon
  <2>4. peer' \in [Conns -> Conns \cup {None}] /\ pc' \in [Procs -> ConnPc \cup HttpPc]
    BY Zenon, <1>1, <2>2, <2>3 DEF GoroutinesTypeOK
  <2>5. QED
    BY <1>1, <2>4, <1>15, Zenon DEF Detach, GoroutinesTypeOK
<1>16. ASSUME NEW c \in Conns, DetachStale(c) PROVE GoroutinesTypeOK'
  BY Zenon, <1>1, <1>16 DEF DetachStale, GoroutinesTypeOK
<1>17. ASSUME NEW c \in Conns, TellGone(c) PROVE GoroutinesTypeOK'
  <2>1. heard' \in [Conns -> SUBSET Controls]
    BY Zenon, <1>1, <1>17, SendPriorityType DEF TellGone, Events
  <2> QED
    BY Zenon, <1>1, <1>17, <2>1 DEF TellGone, GoroutinesTypeOK, Controls
<1>18. ASSUME NEW c \in Conns, Release(c) PROVE GoroutinesTypeOK'
  <2>1. req[c].ip \in IPs
    BY <1>18, Zenon DEF Release, IInv, Locals, ConnLocals, HttpLocals
  <2>2. QED
    BY Zenon, <1>1, <2>1, <1>18, ReleaseType DEF Release, GoroutinesTypeOK
<1>19. ASSUME NEW c \in Conns, ServeHTTP(c) PROVE GoroutinesTypeOK'
  <2>1. PICK k \in Codes, t \in Slots, i \in IPs :
          reserveIP(i) /\ req' = [req EXCEPT ![c] = [code |-> k, ip |-> i, slot |-> t]]
    BY Zenon, <1>19 DEF ServeHTTP
  <2>2. req' \in [Procs -> Requests]
    BY <1>1, <2>1, Zenon DEF GoroutinesTypeOK, Requests
  <2>3. connsByIP' \in [IPs -> Nat]
    BY <1>1, <2>1, ReserveType, Zenon
  <2>4. QED
    BY Zenon, <1>1, <2>2, <2>3, <1>19 DEF ServeHTTP, GoroutinesTypeOK
<1>20. ASSUME NEW c \in Conns, UpgradeFailed(c) PROVE GoroutinesTypeOK'
  <2>1. req[c].ip \in IPs
    BY <1>20, Zenon DEF UpgradeFailed, IInv, Locals, ConnLocals, HttpLocals
  <2>2. QED
    BY Zenon, <1>1, <2>1, <1>20, CloseType, ReleaseType DEF UpgradeFailed, Abort, GoroutinesTypeOK
<1>21. ASSUME NEW c \in Conns, ReadData(c) PROVE GoroutinesTypeOK'
  <2>1. session[c] \in Sessions
    BY Zenon, <1>21 DEF ReadData, IInv, Locals, ConnLocals, HttpLocals, Attached, AttachedPc
  <2>2. PICK x \in OneOf(PeerOf(session[c], c)) : peer' = [peer EXCEPT ![c] = x]
    BY Zenon, <1>21 DEF ReadData
  <2>3. x \in Conns \cup {None}
    BY <1>1, <2>1, OneOfType, ConnectionsType, Zenon
  <2>4. peer' \in [Conns -> Conns \cup {None}] /\ sent' \in [Conns -> Nat]
    <3>1. sent \in [Conns -> Nat] /\ sent' = [sent EXCEPT ![c] = sent[c] + 1]
      BY <1>1, <1>21, Zenon DEF ReadData, GoroutinesTypeOK
    <3>2. sent[c] + 1 \in Nat
      BY <3>1
    <3>3. sent' \in [Conns -> Nat]
      BY <3>1, <3>2, UpdateType, Zenon
    <3>4. QED
      BY <1>1, <2>2, <2>3, <3>3, Zenon DEF GoroutinesTypeOK
  <2>5. pc' \in [Procs -> ConnPc \cup HttpPc]
    BY Zenon, <1>1, <1>21 DEF ReadData
  <2>6. QED
    BY ZenonT(30), <1>1, <2>4, <2>5, <1>21 DEF ReadData, GoroutinesTypeOK
<1>22. ASSUME NEW c \in Conns, ReadFails(c) PROVE GoroutinesTypeOK'
  BY <1>1, <1>22, Zenon DEF ReadFails, GoroutinesTypeOK
<1>23. ASSUME NEW c \in Conns, ReadSessionEnd(c) PROVE GoroutinesTypeOK'
  BY <1>1, <1>23, Zenon DEF ReadSessionEnd, GoroutinesTypeOK
<1>24. ASSUME NEW c \in Conns, WriteFails(c) PROVE GoroutinesTypeOK'
  BY ZenonT(30), <1>1, <1>24, CloseType DEF WriteFails, GoroutinesTypeOK
<1>25. ASSUME NEW c \in Conns, WriteLoop(c) PROVE GoroutinesTypeOK'
  <2> DEFINE q == sendChan[c]
             k == Append(delivered[c], Head(q))
             r == Tail(q)
  <2>1. sendChan \in [Conns -> Seq(Frames)] /\ delivered \in [Conns -> Seq(Frames)] /\ q # <<>>
    BY <1>1, <1>25, Zenon DEF WriteLoop, GoroutinesTypeOK
  <2>2. delivered' = [delivered EXCEPT ![c] = k] /\ sendChan' = [sendChan EXCEPT ![c] = r]
    BY <1>25, Zenon DEF WriteLoop
  <2>3. k \in Seq(Frames) /\ r \in Seq(Frames)
    <3>1. q \in Seq(Frames) /\ delivered[c] \in Seq(Frames)
      BY <2>1, Zenon
    <3>2. Head(q) \in Frames /\ r \in Seq(Frames)
      BY <2>1, <3>1
    <3>3. QED
      BY <3>1, <3>2
  <2> HIDE DEF k, r
  <2>4. sendChan' \in [Conns -> Seq(Frames)] /\ delivered' \in [Conns -> Seq(Frames)]
    BY <2>1, <2>2, <2>3, Zenon
  <2>5. QED
    BY <1>1, <1>25, <2>4, Zenon DEF WriteLoop, GoroutinesTypeOK
<1>26. ASSUME NEW h \in Https, CreateRoom(h) PROVE GoroutinesTypeOK'
  <2>1. req' \in [Procs -> Requests]
    <3>1. PICK i \in IPs : req' = [req EXCEPT ![h] = [NoRequest EXCEPT !.ip = i]]
      BY <1>26, Zenon DEF CreateRoom
    <3>2. PICK q : q = [NoRequest EXCEPT !.ip = i]
      BY Zenon
    <3>3. q \in Requests /\ req' = [req EXCEPT ![h] = q]
      BY <3>1, <3>2, RequestType, Zenon
    <3>4. QED
      BY <1>1, <3>3, UpdateType, Zenon DEF GoroutinesTypeOK
  <2>2. pc' \in [Procs -> ConnPc \cup HttpPc]
    BY <1>1, <1>26, Zenon DEF CreateRoom
  <2>3. QED
    BY <1>1, <1>26, <2>1, <2>2, Zenon DEF CreateRoom, GoroutinesTypeOK
<1>27. ASSUME NEW h \in Https, DrawCode(h) PROVE GoroutinesTypeOK'
  <2>1. req' \in [Procs -> Requests]
    <3>1. req[h] \in Requests
      BY <1>1, Zenon DEF GoroutinesTypeOK
    <3>2. \A k \in Codes : [req[h] EXCEPT !.code = k] \in Requests
      BY <3>1 DEF Requests
    <3>3. CASE UNCHANGED req
      BY <1>1, <3>3, Zenon DEF GoroutinesTypeOK
    <3>4. ASSUME NEW k \in Codes, req' = [req EXCEPT ![h].code = k]
          PROVE  req' \in [Procs -> Requests]
      BY <1>1, <3>2, <3>4, Zenon DEF GoroutinesTypeOK
    <3>5. QED
      BY ZenonT(30), <3>3, <3>4, <1>27 DEF DrawCode
  <2>2. draw' \in [Https -> [at : Nat, attempts : 0..CreateAttempts]]
    <3>1. CASE UNCHANGED draw
      BY <1>1, <3>1, Zenon DEF GoroutinesTypeOK
    <3>2. CASE draw' = [draw EXCEPT ![h].at = now, ![h].attempts = @ + 1]
      <4>1. draw[h].attempts + 1 \in 0..CreateAttempts /\ now \in Nat
        <5>1. draw[h].attempts \in 0..CreateAttempts
          BY <1>1, Zenon DEF GoroutinesTypeOK
        <5>2. pc[h] = "draw" => draw[h].attempts < CreateAttempts
          BY <1>1, Zenon DEF IInv, Locals, HttpLocals
        <5>3. pc[h] = "draw"
          BY <1>27, Zenon DEF DrawCode
        <5>4. now \in Nat
          BY <1>1, Zenon DEF RoomsTypeOK
        <5>5. QED
          BY <5>1, <5>2, <5>3, <5>4, AttemptType, Zenon
      <4>2. QED
        BY ZenonT(30), <1>1, <3>2, <4>1 DEF GoroutinesTypeOK
    <3>3. QED
      BY <3>1, <3>2, <1>27, Zenon DEF DrawCode
  <2>3. QED
    BY Zenon, <1>1, <2>1, <2>2, <1>27 DEF DrawCode, GoroutinesTypeOK
<1>28. ASSUME NEW h \in Https, CreateCommit(h) PROVE GoroutinesTypeOK'
  <2>1. Swept \subseteq Sessions
    BY <1>1, SweptType, Zenon
  <2>2. pc' \in [Procs -> ConnPc \cup HttpPc]
    BY ZenonT(30), <1>1, <1>28 DEF CreateCommit
  <2>3. QED
    BY <1>1, <2>1, <2>2, <1>28, Zenon DEF CreateCommit, GoroutinesTypeOK
<1>29. ASSUME NEW h \in Https, GetRoom(h) PROVE GoroutinesTypeOK'
  <2>1. req' \in [Procs -> Requests]
    <3>1. PICK k \in Codes : req' = [req EXCEPT ![h] = [NoRequest EXCEPT !.code = k]]
      BY <1>29, Zenon DEF GetRoom
    <3>2. PICK q : q = [NoRequest EXCEPT !.code = k]
      BY Zenon
    <3>3. q \in Requests /\ req' = [req EXCEPT ![h] = q]
      BY <3>1, <3>2, RequestType, Zenon
    <3>4. QED
      BY <1>1, <3>3, UpdateType, Zenon DEF GoroutinesTypeOK
  <2>2. QED
    BY Zenon, <1>1, <2>1, <1>29 DEF GetRoom, GoroutinesTypeOK
<1>30. ASSUME NEW h \in Https, RoomInfo(h) PROVE GoroutinesTypeOK'
  <2>1. /\ pc[h] = "lookup" => sessions[req[h].code] \in Sessions \cup {None}
        /\ pc[h] = "remove" => session[h] \in Sessions
    BY <1>1 DEF IInv, Locals, ConnLocals, HttpLocals, RoomsTypeOK
  <2>2. session' \in [Procs -> Sessions \cup {None}]
    BY ZenonT(30), <1>1, <2>1, <1>30 DEF RoomInfo, GetSession, GoroutinesTypeOK
  <2>3. closing' \in SUBSET Sessions
    BY <1>1, <2>1, <1>30, Zenon DEF RoomInfo, GetSession, GoroutinesTypeOK
  <2>4. pc' \in [Procs -> ConnPc \cup HttpPc]
    BY Zenon, <1>1, <1>30 DEF RoomInfo, GetSession
  <2>5. QED
    BY ZenonT(30), <1>1, <2>2, <2>3, <2>4, <1>30 DEF RoomInfo, GoroutinesTypeOK
<1>31. ASSUME NEW h \in Https, Answer(h) PROVE GoroutinesTypeOK'
  <2>1. req' \in [Procs -> Requests]
    BY ZenonT(30), <1>1, <1>31 DEF Answer, GoroutinesTypeOK, Requests, NoRequest
  <2>2. draw' \in [Https -> [at : Nat, attempts : 0..CreateAttempts]]
    BY <1>1, <1>31, NoDrawType, Zenon DEF Answer, GoroutinesTypeOK
  <2>3. QED
    BY ZenonT(30), <1>1, <2>1, <2>2, <1>31 DEF Answer, GoroutinesTypeOK
<1>32. ASSUME NEW s \in Sessions, CloseExpired(s) PROVE GoroutinesTypeOK'
  BY ZenonT(30), <1>1, <1>32, CloseType DEF CloseExpired, GoroutinesTypeOK
<1>33. CASE SweepBegin
  BY ZenonT(30), <1>1, <1>33 DEF SweepBegin, GoroutinesTypeOK, RoomsTypeOK
<1>34. CASE Sweep
  <2>1. Swept \subseteq Sessions
    BY <1>1, SweptType, Zenon
  <2>2. QED
    BY <1>1, <2>1, <1>34, Zenon DEF Sweep, ZeroTime, GoroutinesTypeOK
<1>35. CASE Tick
  BY ZenonT(30), <1>1, <1>35 DEF Tick, GoroutinesTypeOK
<1>36. CASE UNCHANGED vars
  BY <1>1, <1>36, Zenon DEF vars, GoroutinesTypeOK
<1>37. QED
  BY ZenonT(30), <1>2, <1>3, <1>4, <1>5, <1>6, <1>7, <1>8, <1>9, <1>10, <1>11, <1>12, <1>13, <1>14, <1>15, <1>16, <1>17, <1>18, <1>19, <1>20, <1>21, <1>22, <1>23, <1>24, <1>25, <1>26, <1>27, <1>28, <1>29, <1>30, <1>31, <1>32, <1>33, <1>34, <1>35, <1>36 DEF Next, Http, Serve, Client

-----------------------------------------------------------------------------
(* Each action is at most one critical section of module Rooms. *)

\* A step of the relay changes the rooms by one critical section of module
\* Rooms, or not at all.
LEMMA OneRoomStep == IInv /\ [Next]_vars => RoomStep
<1> SUFFICES ASSUME IInv, [Next]_vars PROVE RoomStep
  BY Zenon
<1>1. \A p \in Procs : session[p] \in Sessions => code[session[p]] # None
  BY RoomsAssumption DEF IInv, Held
<1>2. ASSUME NEW p \in Procs, pc[p] = "remove", RemoveSession(req[p].code, session[p])
      PROVE  RoomStep
  <2>1. req[p].code \in Codes /\ session[p] \in Sessions
    BY <1>2, Zenon DEF IInv, Locals, ConnLocals, HttpLocals, Procs
  <2>2. QED
    BY <1>2, <2>1, Zenon DEF RoomStep
<1>3. ASSUME NEW c \in Conns, AttachAdd(c)
      PROVE  RoomStep
  <2>1. session[c] \in Sessions /\ req[c].slot \in Slots
    BY <1>3, Zenon DEF AttachAdd, IInv, Locals, ConnLocals, HttpLocals
  <2>2. QED
    BY <1>1, <1>3, <2>1, Zenon DEF AttachAdd, RoomStep, Procs
<1>4. ASSUME NEW c \in Conns, Detach(c)
      PROVE  RoomStep
  <2>1. session[c] \in Sessions /\ req[c].slot \in Slots
    BY <1>4, Zenon DEF Detach, IInv, Locals, ConnLocals, HttpLocals, Attached, AttachedPc
  <2>2. QED
    BY <1>1, <1>4, <2>1, Zenon DEF Detach, RoomStep, Procs
<1>5. ASSUME NEW c \in Conns, EndTombstone(c) \/ EndDrain(c)
      PROVE  RoomStep
  <2>1. session[c] \in Sessions
    BY <1>5, Zenon DEF EndTombstone, EndDrain, IInv, Locals, ConnLocals, HttpLocals, Attached, AttachedPc
  <2>2. EndDrain(c) => ~Registered(session[c])
    BY Zenon DEF EndDrain, IInv, Held
  <2>3. QED
    BY <1>1, <1>5, <2>1, <2>2, Zenon DEF EndTombstone, EndDrain, RoomStep, Procs
<1>6. ASSUME NEW h \in Https, CreateCommit(h)
      PROVE  RoomStep
  <2>1. req[h].code \in Codes /\ req[h].ip \in IPs
    BY <1>6, Zenon DEF CreateCommit, IInv, Locals, ConnLocals, HttpLocals, Procs
  <2>2. draw[h].at \in Nat
    BY Zenon DEF IInv, TypeOK, GoroutinesTypeOK
  <2>3. QED
    BY <1>6, <2>1, <2>2, Zenon DEF CreateCommit, RoomStep
<1>7. ASSUME NEW s \in Sessions, CloseExpired(s)
      PROVE  RoomStep
  <2>1. code[s] # None /\ ~Registered(s)
    BY ZenonT(30), <1>7 DEF CloseExpired, IInv, Held, Gone
  <2>2. QED
    BY <1>7, <2>1 DEF CloseExpired, RoomStep
<1>8. CASE Sweep
  BY <1>8, Zenon DEF Sweep, RoomStep, IInv, TypeOK, GoroutinesTypeOK
<1>9. CASE Tick
  BY ZenonT(30), <1>9 DEF Tick, RoomStep
<1>10. ASSUME NEW p \in Procs, NEW found, NEW missing, GetSession(p, found, missing)
       PROVE  RoomStep
  BY <1>2, <1>10, Zenon DEF GetSession, RoomStep
<1>11. CASE UNCHANGED roomVars
  BY <1>11 DEF RoomStep
<1>12. ASSUME NEW c \in Conns, Serve(c)
       PROVE  RoomStep
  BY Zenon, <1>3, <1>4, <1>5, <1>10, <1>11, <1>12
     DEF Serve, Procs, Reject, Abort, AttachLookup, AttachRefused, CloseReplaced, TellPeer,
         TellSelf, Forward, EndIgnored, EndCut, Return, DetachStale, TellGone, Release
<1>13. ASSUME NEW c \in Conns, Client(c) \/ WriteLoop(c)
       PROVE  RoomStep
  BY Zenon, <1>11, <1>13 DEF Client, ServeHTTP, UpgradeFailed, Abort, ReadData, ReadFails,
     ReadSessionEnd, WriteFails, WriteLoop
<1>14. ASSUME NEW h \in Https, Http(h)
       PROVE  RoomStep
  BY <1>6, <1>10, <1>11, <1>14, Zenon DEF Http, Procs, CreateRoom, DrawCode, GetRoom, RoomInfo, Answer
<1>15. QED
  BY <1>7, <1>8, <1>9, <1>11, <1>12, <1>13, <1>14, Zenon DEF Next, SweepBegin, vars

-----------------------------------------------------------------------------
(* The locals. *)

\* A step that touches the locals of one goroutine only.
LEMMA LocalsFrame ==
  ASSUME Locals, NEW p \in Procs,
         \A q \in Procs \ {p} : pc'[q] = pc[q] /\ req'[q] = req[q] /\ session'[q] = session[q],
         \A d \in Conns \ {p} : peer'[d] = peer[d] /\ replaced'[d] = replaced[d],
         \A h \in Https \ {p} : draw'[h] = draw[h],
         p \in Conns => ConnLocals(p)',
         p \in Https => HttpLocals(p)'
  PROVE  Locals'
<1>1. ASSUME NEW c \in Conns, c # p PROVE ConnLocals(c)'
  BY <1>1, Zenon DEF Locals, ConnLocals, Procs, Attached, AttachedPc
<1>2. ASSUME NEW h \in Https, h # p PROVE HttpLocals(h)'
  BY ZenonT(30), <1>2 DEF Locals, HttpLocals, Procs
<1>3. QED
  BY <1>1, <1>2, Zenon DEF Locals, Procs

\* A goroutine reaches a label only with the locals its next step reads.
LEMMA LocalsStep == IInv /\ [Next]_vars => Locals'
<1> SUFFICES ASSUME IInv, [Next]_vars PROVE Locals'
  OBVIOUS
<1>1. GoroutinesTypeOK /\ RoomsTypeOK /\ Locals
  BY Zenon DEF IInv, TypeOK
<1> USE RoomsAssumption, RelayAssumption DEF Procs, ConnPc, HttpPc, Attached, AttachedPc, Goto, attachVars, dataVars, sockVars, sweepVars, GoroutinesTypeOK
<1>2. ASSUME NEW c \in Conns, Reject(c) PROVE Locals'
  <2>1. ConnLocals(c)'
    BY <1>1, <1>2, Zenon DEF Reject, Abort, Locals, ConnLocals
  <2>2. QED
    BY <1>1, <1>2, <2>1, LocalsFrame, Zenon DEF Reject, Abort
<1>3. ASSUME NEW c \in Conns, AttachLookup(c) PROVE Locals'
  <2>1. ConnLocals(c)'
    <3>1. ConnLocals(c)
      BY ZenonT(30), <1>1 DEF Locals
    <3>2. CASE pc[c] = "lookup"
      <4>1. sessions[req[c].code] \in Sessions \cup {None}
        BY ZenonT(30), <1>1, <3>1, <3>2 DEF RoomsTypeOK, ConnLocals
      <4>2. QED
        BY <1>1, <3>1, <3>2, <4>1, <1>3, ZenonT(60) DEF AttachLookup, GetSession, ConnLocals
    <3>3. CASE pc[c] = "check" \/ pc[c] = "remove"
      BY ZenonT(30), <1>1, <3>1, <3>3, <1>3 DEF AttachLookup, GetSession, ConnLocals
    <3>4. QED
      BY <3>2, <3>3, <1>3, Zenon DEF AttachLookup, GetSession
  <2>2. QED
    BY Zenon, <1>1, <1>3, <2>1, LocalsFrame DEF AttachLookup, GetSession
<1>4. ASSUME NEW c \in Conns, AttachAdd(c) PROVE Locals'
  <2>1. ConnLocals(c)'
    <3>1. ConnLocals(c)
      BY <1>1, Zenon DEF Locals
    <3>2. session[c] \in Sessions /\ req[c].slot \in Slots
      BY <3>1, <1>4, Zenon DEF AttachAdd, ConnLocals
    <3> DEFINE old == conns[session[c]][req[c].slot]
    <3>3. old \in Conns \cup {None}
      <4>1. conns[session[c]] \in [Slots -> Conns \cup {None}]
        BY <1>1, <3>2, Zenon DEF RoomsTypeOK
      <4>2. QED
        BY <3>2, <4>1, Zenon
    <3>4. replaced'[c] = old
      BY <1>1, <1>4, Zenon DEF AttachAdd
    <3>5. PICK x \in OneOf(OtherConns(session[c], req[c].slot)) :
            /\ peer' = [peer EXCEPT ![c] = x]
            /\ Goto(c, IF old # None THEN "close_old"
                       ELSE IF x # None THEN "tell_peer" ELSE "read")
      BY Zenon, <1>4 DEF AttachAdd
    <3>6. x # None => x \in Conns
      BY Zenon, <1>1, <3>2, OneOfType, ConnectionsType
    <3> HIDE DEF old
    <3>7. /\ peer'[c] = x
          /\ pc'[c] = IF old # None THEN "close_old" ELSE IF x # None THEN "tell_peer" ELSE "read"
      BY ZenonT(30), <1>1, <3>5
    <3>8. req'[c] = req[c] /\ session'[c] = session[c] /\ req[c] \in [code : Codes, ip : IPs, slot : Slots]
      BY <3>1, <1>4, Zenon DEF AttachAdd, ConnLocals
    <3>9. QED
      BY <3>2, <3>3, <3>4, <3>6, <3>7, <3>8, Zenon DEF ConnLocals
  <2>2. QED
    BY <1>1, <1>4, <2>1, LocalsFrame, Zenon DEF AttachAdd
<1>5. ASSUME NEW c \in Conns, AttachRefused(c) PROVE Locals'
  <2>1. ConnLocals(c)'
    BY <1>1, <1>5, Zenon DEF AttachRefused, Locals, ConnLocals
  <2>2. QED
    BY <1>1, <1>5, <2>1, LocalsFrame, Zenon DEF AttachRefused
<1>6. ASSUME NEW c \in Conns, CloseReplaced(c) PROVE Locals'
  <2>1. ConnLocals(c)'
    BY <1>1, <1>6 DEF CloseReplaced, Locals, ConnLocals
  <2>2. QED
    BY ZenonT(30), <1>1, <1>6, <2>1, LocalsFrame DEF CloseReplaced
<1>7. ASSUME NEW c \in Conns, TellPeer(c) PROVE Locals'
  <2>1. ConnLocals(c)'
    BY <1>1, <1>7 DEF TellPeer, Locals, ConnLocals
  <2>2. QED
    BY ZenonT(30), <1>1, <1>7, <2>1, LocalsFrame DEF TellPeer
<1>8. ASSUME NEW c \in Conns, TellSelf(c) PROVE Locals'
  <2>1. ConnLocals(c)'
    BY <1>1, <1>8, Zenon DEF TellSelf, Locals, ConnLocals
  <2>2. QED
    BY ZenonT(30), <1>1, <1>8, <2>1, LocalsFrame DEF TellSelf
<1>9. ASSUME NEW c \in Conns, Forward(c) PROVE Locals'
  <2>1. ConnLocals(c)'
    BY <1>1, <1>9, Zenon DEF Forward, Locals, ConnLocals
  <2>2. QED
    BY ZenonT(30), <1>1, <1>9, <2>1, LocalsFrame DEF Forward
<1>10. ASSUME NEW c \in Conns, EndTombstone(c) PROVE Locals'
  <2>1. ConnLocals(c)'
    BY <1>1, <1>10, Zenon DEF EndTombstone, Locals, ConnLocals
  <2>2. QED
    BY <1>1, <1>10, <2>1, LocalsFrame, Zenon DEF EndTombstone
<1>11. ASSUME NEW c \in Conns, EndIgnored(c) PROVE Locals'
  <2>1. ConnLocals(c)'
    BY <1>1, <1>11, Zenon DEF EndIgnored, Locals, ConnLocals
  <2>2. QED
    BY ZenonT(30), <1>1, <1>11, <2>1, LocalsFrame DEF EndIgnored
<1>12. ASSUME NEW c \in Conns, EndDrain(c) PROVE Locals'
  <2>1. ConnLocals(c)'
    BY <1>1, <1>12, Zenon DEF EndDrain, Locals, ConnLocals
  <2>2. QED
    BY ZenonT(30), <1>1, <1>12, <2>1, LocalsFrame DEF EndDrain
<1>13. ASSUME NEW c \in Conns, EndCut(c) PROVE Locals'
  <2>1. ConnLocals(c)'
    <3>1. ConnLocals(c)
      BY <1>1 DEF Locals
    <3>2. pc' = pc \/ Goto(c, "return")
      BY Zenon, <1>13 DEF EndCut
    <3>3. UNCHANGED <<req, session, peer, replaced>> /\ pc[c] = "cut"
      BY <1>13 DEF EndCut
    <3>4. QED
      BY <1>1, <3>1, <3>2, <3>3, Zenon DEF ConnLocals
  <2>2. QED
    BY Zenon, <1>1, <1>13, <2>1, LocalsFrame DEF EndCut
<1>14. ASSUME NEW c \in Conns, Return(c) PROVE Locals'
  <2>1. ConnLocals(c)'
    BY <1>1, <1>14, Zenon DEF Return, Locals, ConnLocals
  <2>2. QED
    BY ZenonT(30), <1>1, <1>14, <2>1, LocalsFrame DEF Return
<1>15. ASSUME NEW c \in Conns, Detach(c) PROVE Locals'
  <2>1. ConnLocals(c)'
    <3>1. ConnLocals(c)
      BY <1>1, Zenon DEF Locals
    <3>2. session[c] \in Sessions /\ req[c].slot \in Slots
      BY <3>1, <1>15, Zenon DEF Detach, ConnLocals
    <3>3. PICK x \in OneOf(OtherConns(session[c], req[c].slot)) :
            peer' = [peer EXCEPT ![c] = x] /\ Goto(c, IF x = None THEN "release" ELSE "tell_gone")
      BY Zenon, <1>15 DEF Detach
    <3>4. x # None => x \in Conns
      BY Zenon, <1>1, <3>2, OneOfType, ConnectionsType
    <3>5. peer'[c] = x /\ pc'[c] = IF x = None THEN "release" ELSE "tell_gone"
      BY <1>1, <3>3, Zenon
    <3>6. req'[c] = req[c]
      BY <1>15 DEF Detach
    <3>7. QED
      BY <3>1, <3>4, <3>5, <3>6, <1>15, Zenon DEF Detach, ConnLocals
  <2>2. QED
    BY ZenonT(30), <1>1, <1>15, <2>1, LocalsFrame DEF Detach
<1>16. ASSUME NEW c \in Conns, DetachStale(c) PROVE Locals'
  <2>1. ConnLocals(c)'
    BY <1>1, <1>16, Zenon DEF DetachStale, Locals, ConnLocals
  <2>2. QED
    BY ZenonT(30), <1>1, <1>16, <2>1, LocalsFrame DEF DetachStale
<1>17. ASSUME NEW c \in Conns, TellGone(c) PROVE Locals'
  <2>1. ConnLocals(c)'
    BY <1>1, <1>17, Zenon DEF TellGone, Locals, ConnLocals
  <2>2. QED
    BY ZenonT(30), <1>1, <1>17, <2>1, LocalsFrame DEF TellGone
<1>18. ASSUME NEW c \in Conns, Release(c) PROVE Locals'
  <2>1. ConnLocals(c)'
    BY ZenonT(30), <1>1, <1>18 DEF Release, Locals, ConnLocals
  <2>2. QED
    BY ZenonT(30), <1>1, <1>18, <2>1, LocalsFrame DEF Release
<1>19. ASSUME NEW c \in Conns, ServeHTTP(c) PROVE Locals'
  <2>1. ConnLocals(c)'
    BY <1>1, <1>19 DEF ServeHTTP, Locals, ConnLocals
  <2>2. QED
    BY ZenonT(30), <1>1, <1>19, <2>1, LocalsFrame DEF ServeHTTP
<1>20. ASSUME NEW c \in Conns, UpgradeFailed(c) PROVE Locals'
  <2>1. ConnLocals(c)'
    BY ZenonT(30), <1>1, <1>20 DEF UpgradeFailed, Abort, Locals, ConnLocals
  <2>2. QED
    BY ZenonT(30), <1>1, <1>20, <2>1, LocalsFrame DEF UpgradeFailed, Abort
<1>21. ASSUME NEW c \in Conns, ReadData(c) PROVE Locals'
  <2>1. ConnLocals(c)'
    <3>1. ConnLocals(c)
      BY <1>1, Zenon DEF Locals
    <3>2. session[c] \in Sessions
      BY <3>1, <1>21, Zenon DEF ReadData, ConnLocals
    <3>3. PICK x \in OneOf(PeerOf(session[c], c)) : peer' = [peer EXCEPT ![c] = x]
      BY Zenon, <1>21 DEF ReadData
    <3>4. PeerOf(session[c], c) # {} => x \in Conns
      BY Zenon, <1>1, <3>2, OneOfType, ConnectionsType
    <3>5. peer'[c] = x
      BY <1>1, <3>3, Zenon
    <3>6. pc'[c] = IF PeerOf(session[c], c) = {} THEN "read" ELSE "relay"
      BY <1>1, <1>21, Zenon DEF ReadData
    <3>7. req'[c] = req[c] /\ session'[c] = session[c] /\ pc[c] = "read"
      BY Zenon, <1>21 DEF ReadData
    <3>8. QED
      BY <3>1, <3>2, <3>4, <3>5, <3>6, <3>7, Zenon DEF ConnLocals
  <2>2. QED
    BY ZenonT(30), <1>1, <1>21, <2>1, LocalsFrame DEF ReadData
<1>22. ASSUME NEW c \in Conns, ReadFails(c) PROVE Locals'
  <2>1. ConnLocals(c)'
    BY <1>1, <1>22, Zenon DEF ReadFails, Locals, ConnLocals
  <2>2. QED
    BY ZenonT(30), <1>1, <1>22, <2>1, LocalsFrame DEF ReadFails
<1>23. ASSUME NEW c \in Conns, ReadSessionEnd(c) PROVE Locals'
  <2>1. ConnLocals(c)'
    BY <1>1, <1>23, Zenon DEF ReadSessionEnd, Locals, ConnLocals
  <2>2. QED
    BY ZenonT(30), <1>1, <1>23, <2>1, LocalsFrame DEF ReadSessionEnd
<1>24. ASSUME NEW c \in Conns, WriteFails(c) PROVE Locals'
  <2>1. ConnLocals(c)'
    BY <1>1, <1>24, Zenon DEF WriteFails, Locals, ConnLocals
  <2>2. QED
    BY ZenonT(30), <1>1, <1>24, <2>1, LocalsFrame DEF WriteFails
<1>25. ASSUME NEW c \in Conns, WriteLoop(c) PROVE Locals'
  <2>1. ConnLocals(c)'
    BY <1>1, <1>25, Zenon DEF WriteLoop, Locals, ConnLocals
  <2>2. QED
    BY ZenonT(30), <1>1, <1>25, <2>1, LocalsFrame DEF WriteLoop
<1>26. ASSUME NEW h \in Https, CreateRoom(h) PROVE Locals'
  <2>1. HttpLocals(h)'
    <3>1. pc'[h] = "draw" /\ req'[h].ip \in IPs
      BY <1>1, <1>26 DEF CreateRoom, NoRequest
    <3>2. draw'[h] = draw[h] /\ draw[h] = NoDraw
      BY <1>1, <1>26, Zenon DEF CreateRoom, Locals, HttpLocals
    <3>3. QED
      BY <3>1, <3>2 DEF HttpLocals, NoDraw
  <2>2. QED
    BY <1>1, <1>26, <2>1, LocalsFrame, Zenon DEF CreateRoom, NoRequest
<1>27. ASSUME NEW h \in Https, DrawCode(h) PROVE Locals'
  <2>1. HttpLocals(h)'
    <3>1. HttpLocals(h) /\ req[h] \in Requests
      BY <1>1, Zenon DEF Locals
    <3>2. CASE Goto(h, "answer")
      BY <1>1, <3>2, Zenon DEF HttpLocals
    <3>3. ASSUME NEW k \in Codes, req' = [req EXCEPT ![h].code = k], Goto(h, "create")
          PROVE  HttpLocals(h)'
      <4>1. req'[h].code = k /\ req'[h].ip = req[h].ip
        BY <1>1, <3>1, <3>3, Zenon DEF Requests
      <4>2. req[h].ip \in IPs /\ pc'[h] = "create"
        BY <1>1, <3>1, <3>3, <1>27, Zenon DEF DrawCode, HttpLocals
      <4>3. QED
        BY <4>1, <4>2, Zenon DEF HttpLocals
    <3>4. QED
      BY <3>2, <3>3, <1>27, Zenon DEF DrawCode
  <2>2. QED
    BY Zenon, <1>1, <1>27, <2>1, LocalsFrame DEF DrawCode
<1>28. ASSUME NEW h \in Https, CreateCommit(h) PROVE Locals'
  <2>1. HttpLocals(h)'
    BY Zenon, <1>1, <1>28 DEF CreateCommit, Locals, HttpLocals
  <2>2. QED
    BY <1>1, <1>28, <2>1, LocalsFrame, Zenon DEF CreateCommit
<1>29. ASSUME NEW h \in Https, GetRoom(h) PROVE Locals'
  <2>1. HttpLocals(h)'
    BY <1>1, <1>29 DEF GetRoom, NoRequest, Locals, HttpLocals
  <2>2. QED
    BY <1>1, <1>29, <2>1, LocalsFrame, Zenon DEF GetRoom, NoRequest
<1>30. ASSUME NEW h \in Https, RoomInfo(h) PROVE Locals'
  <2>1. HttpLocals(h)'
    <3>1. HttpLocals(h)
      BY <1>1, Zenon DEF Locals
    <3>2. CASE pc[h] = "lookup"
      <4>1. sessions[req[h].code] \in Sessions \cup {None}
        BY <1>1, <3>1, <3>2, Zenon DEF RoomsTypeOK, HttpLocals
      <4>2. QED
        BY ZenonT(60), <1>1, <3>1, <3>2, <4>1, <1>30 DEF RoomInfo, GetSession, HttpLocals
    <3>3. CASE pc[h] = "check" \/ pc[h] = "remove"
      BY Zenon, <1>1, <3>1, <3>3, <1>30 DEF RoomInfo, GetSession, HttpLocals
    <3>4. QED
      BY <3>2, <3>3, <1>30, Zenon DEF RoomInfo, GetSession
  <2>2. QED
    BY Zenon, <1>1, <1>30, <2>1, LocalsFrame DEF RoomInfo, GetSession
<1>31. ASSUME NEW h \in Https, Answer(h) PROVE Locals'
  <2>1. HttpLocals(h)'
    BY <1>1, <1>31, Zenon DEF Answer, NoRequest, Locals, HttpLocals
  <2>2. QED
    BY <1>1, <1>31, <2>1, LocalsFrame, Zenon DEF Answer, NoRequest
<1>32. ASSUME NEW s \in Sessions, CloseExpired(s) PROVE Locals'
  BY <1>1, <1>32, Zenon DEF CloseExpired, Locals, ConnLocals, HttpLocals
<1>33. CASE SweepBegin
  BY <1>1, <1>33, Zenon DEF SweepBegin, Locals, ConnLocals, HttpLocals
<1>34. CASE Sweep
  BY ZenonT(30), <1>1, <1>34 DEF Sweep, Locals, ConnLocals, HttpLocals
<1>35. CASE Tick
  BY ZenonT(30), <1>1, <1>35 DEF Tick, Locals, ConnLocals, HttpLocals
<1>36. CASE UNCHANGED vars
  BY <1>1, <1>36, Zenon DEF vars, Locals, ConnLocals, HttpLocals
<1>37. QED
  BY Zenon, <1>2, <1>3, <1>4, <1>5, <1>6, <1>7, <1>8, <1>9, <1>10, <1>11, <1>12, <1>13, <1>14, <1>15, <1>16, <1>17, <1>18, <1>19, <1>20, <1>21, <1>22, <1>23, <1>24, <1>25, <1>26, <1>27, <1>28, <1>29, <1>30, <1>31, <1>32, <1>33, <1>34, <1>35, <1>36 DEF Next, Http, Serve, Client
=============================================================================

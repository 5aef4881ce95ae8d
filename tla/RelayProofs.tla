---------------------------- MODULE RelayProofs -----------------------------
(***************************************************************************)
(* The rest of the inductive invariant of module Relay, the theorems about *)
(* the relay, and that it implements module Room: for every session, each  *)
(* critical section of module Rooms is a step of that room or leaves it as *)
(* it was.                                                                 *)
(***************************************************************************)
EXTENDS RelayStepProofs

(* Participants, held sessions, and the registry. *)

\* A connection is attached by its own goroutine only, keeps its session and
\* slot while it is, and leaves through Detach or DetachStale.
LEMMA AttachedFrame ==
  ASSUME IInv, [Next]_vars, NEW c \in Conns, Attached(c)
  PROVE  /\ session'[c] = session[c] /\ req'[c] = req[c]
         /\ ~Detach(c) /\ ~DetachStale(c) => Attached(c)'
<1> USE DEF IInv, TypeOK, GoroutinesTypeOK, Attached, AttachedPc, Procs
<1>1. ASSUME NEW d \in Conns, Serve(d) \/ Client(d) \/ WriteLoop(d)
      PROVE  session'[c] = session[c] /\ req'[c] = req[c]
  BY Zenon, <1>1 DEF Serve, Client, Reject, Abort, AttachLookup, GetSession, AttachAdd, AttachRefused,
     CloseReplaced, TellPeer, TellSelf, Forward, EndTombstone, EndIgnored, EndDrain, EndCut,
     Return, Detach, DetachStale, TellGone, Release, ServeHTTP, UpgradeFailed, ReadData,
     ReadFails, ReadSessionEnd, WriteFails, WriteLoop
<1>2. ASSUME NEW d \in Conns, Serve(d), ~Detach(c), ~DetachStale(c)
      PROVE  Attached(c)'
  BY Zenon, <1>2 DEF Serve, Goto, Reject, Abort, AttachLookup, GetSession, AttachAdd, AttachRefused,
     CloseReplaced, TellPeer, TellSelf, Forward, EndTombstone, EndIgnored, EndDrain, EndCut,
     Return, Detach, DetachStale, TellGone, Release
<1>3. ASSUME NEW d \in Conns, Client(d) \/ WriteLoop(d)
      PROVE  Attached(c)'
  BY <1>3, Zenon DEF Client, Goto, Abort, ServeHTTP, UpgradeFailed, ReadData, ReadFails,
     ReadSessionEnd, WriteFails, WriteLoop
<1>4. ASSUME NEW h \in Https, Http(h)
      PROVE  /\ session'[c] = session[c] /\ req'[c] = req[c] /\ pc'[c] = pc[c]
  BY <1>4, RelayAssumption, Zenon DEF Http, Goto, CreateRoom, DrawCode, CreateCommit, GetRoom, RoomInfo,
     GetSession, Answer
<1>5. CASE (\E s \in Sessions : CloseExpired(s)) \/ SweepBegin \/ Sweep \/ Tick \/ UNCHANGED vars
  BY <1>5 DEF CloseExpired, SweepBegin, Sweep, Tick, vars
<1>6. QED
  BY <1>1, <1>2, <1>3, <1>4, <1>5, Zenon DEF Next

\* Session.conns changes in AddConnection, RemoveConnection and DrainConnections.
LEMMA ConnsFrame ==
  ASSUME [Next]_vars
  PROVE  \/ conns' = conns
         \/ \E c \in Conns : AttachAdd(c) \/ Detach(c) \/ EndDrain(c)
         \/ \E s \in Sessions : CloseExpired(s)
<1> USE DEF roomVars, sessionVars, registryVars
<1>1. ASSUME NEW c \in Conns, Serve(c), ~AttachAdd(c), ~Detach(c), ~EndDrain(c)
      PROVE  conns' = conns
  BY Zenon, <1>1 DEF Serve, Reject, Abort, AttachLookup, GetSession, RemoveSession, AttachRefused,
     CloseReplaced, TellPeer, TellSelf, Forward, EndTombstone, EndSession, EndIgnored, EndCut,
     Return, DetachStale, TellGone, Release
<1>2. ASSUME NEW c \in Conns, Client(c) \/ WriteLoop(c)
      PROVE  conns' = conns
  BY ZenonT(30), <1>2 DEF Client, ServeHTTP, UpgradeFailed, Abort, ReadData, ReadFails, ReadSessionEnd,
     WriteFails, WriteLoop
<1>3. ASSUME NEW h \in Https, Http(h)
      PROVE  conns' = conns
  BY <1>3, Zenon DEF Http, CreateRoom, DrawCode, CreateCommit, CreateRefused, CreateExists,
     CreateTooMany, CreateSessionWithCode, GetRoom, RoomInfo, GetSession, RemoveSession, Answer
<1>4. CASE SweepBegin \/ Sweep \/ Tick \/ UNCHANGED vars
  BY <1>4, Zenon DEF SweepBegin, Sweep, sweepExpired, Tick, vars
<1>5. QED
  BY <1>1, <1>2, <1>3, <1>4, Zenon DEF Next

\* No step leaves a participant behind that nobody will detach.
LEMMA NoGhostStep == IInv /\ [Next]_vars => NoGhostParticipant'
<1> SUFFICES ASSUME IInv, [Next]_vars, NEW s \in Sessions, NEW t \in Slots,
                    NEW x, x = conns'[s][t], x # None
             PROVE  session'[x] = s /\ req'[x].slot = t /\ pc'[x] \in AttachedPc
  BY DEF NoGhostParticipant, Attached
<1>1. TypeOK /\ TypeOK'
  BY OneRoomStep, RoomsTypeStep, GoroutinesTypeStep, Zenon DEF IInv, TypeOK
<1>2. x \in Conns
  BY <1>1 DEF TypeOK, RoomsTypeOK
<1>3. CASE conns[s][t] = x
  <2>1. session[x] = s /\ req[x].slot = t /\ Attached(x)
    BY <1>2, <1>3, RoomsAssumption DEF IInv, NoGhostParticipant, Attached
  <2>2. ~DetachStale(x)
    BY <1>3, <2>1, Zenon DEF DetachStale, CanRemove
  <2>3. ~Detach(x)
    BY <1>1, <1>2, <2>1, RoomsAssumption
       DEF Detach, RemoveConnection, TypeOK, RoomsTypeOK
  <2>4. QED
    BY <1>2, <2>1, <2>2, <2>3, AttachedFrame, Zenon DEF Attached
<1>4. CASE conns[s][t] # x
  <2>1. conns' # conns /\ conns \in [Sessions -> [Slots -> Conns \cup {None}]]
    BY <1>1, <1>4, Zenon DEF TypeOK, RoomsTypeOK
  <2>2. ASSUME NEW c \in Conns, Detach(c) PROVE FALSE
    <3>1. session[c] \in Sessions /\ req[c].slot \in Slots
      BY <2>2, Zenon DEF Detach, IInv, Locals, ConnLocals, Attached, AttachedPc
    <3>2. QED
      BY <1>4, <2>1, <2>2, <3>1, Zenon DEF Detach, RemoveConnection
  <2>3. ASSUME NEW r \in Sessions, DrainConnections(r) PROVE FALSE
    BY <1>4, <2>1, <2>3, Zenon DEF DrainConnections
  <2>4. ASSUME NEW c \in Conns, EndDrain(c) PROVE FALSE
    <3>1. session[c] \in Sessions
      BY <2>4 DEF EndDrain, IInv, Locals, ConnLocals, Attached, AttachedPc
    <3>2. QED
      BY <2>3, <2>4, <3>1, Zenon DEF EndDrain
  <2>5. PICK c \in Conns : AttachAdd(c)
    BY ZenonT(30), <2>1, <2>2, <2>3, <2>4, ConnsFrame DEF CloseExpired
  <2>6. session[c] \in Sessions /\ req[c].slot \in Slots
    BY <2>5 DEF AttachAdd, IInv, Locals, ConnLocals
  <2>7. session[c] = s /\ req[c].slot = t /\ x = c
    BY ZenonT(30), <1>4, <2>1, <2>5, <2>6 DEF AttachAdd, AddConnection
  <2>8. Attached(c)' /\ session' = session /\ req' = req
    BY <1>1, <2>5, ZenonT(30) DEF AttachAdd, Goto, Attached, AttachedPc, TypeOK, GoroutinesTypeOK, Procs
  <2>9. QED
    BY <2>7, <2>8, Zenon DEF Attached
<1>5. QED
  BY <1>3, <1>4

\* How a goroutine comes to hold a session, to find it expired, to drain it.
HolderStep(p) ==
  /\ \/ session'[p] \in {session[p], None}
     \/ pc[p] = "lookup" /\ session'[p] = sessions[req[p].code] /\ UNCHANGED roomVars
  /\ pc'[p] \in {"check", "remove"} =>
       /\ req'[p] = req[p]
       /\ \/ pc[p] \in {"check", "remove"} /\ session'[p] = session[p]
          \/ pc[p] = "lookup" /\ session'[p] = sessions[req[p].code] /\ UNCHANGED roomVars
  /\ pc'[p] = "remove" =>
       /\ session'[p] = session[p]
       /\ pc[p] = "remove" \/ (pc[p] = "check" /\ IsExpired(session[p]) /\ UNCHANGED roomVars)
  /\ pc'[p] = "drain" =>
       session'[p] = session[p] /\ (pc[p] = "drain" \/ EndTombstone(p))

\* A goroutine's session, and the code it was looked up under, change only
\* when it looks one up.
LEMMA HolderFrame ==
  ASSUME IInv, [Next]_vars, NEW p \in Procs
  PROVE  HolderStep(p)
<1>1. GoroutinesTypeOK
  BY Zenon DEF IInv, TypeOK
<1> USE <1>1 DEF GoroutinesTypeOK, Goto, Procs
<1>2. CASE pc'[p] = pc[p] /\ session'[p] = session[p] /\ req'[p] = req[p]
  BY <1>2, Zenon DEF HolderStep
<1>3. ASSUME NEW found \in {"add", "answer"}, NEW missing \in {"reject", "answer"},
             GetSession(p, found, missing), UNCHANGED req
      PROVE  HolderStep(p)
  BY <1>3, Zenon DEF GetSession, HolderStep
<1>4. CASE EndTombstone(p)
  BY <1>4, Zenon DEF EndTombstone, HolderStep
<1>5. CASE /\ session'[p] \in {session[p], None}
           /\ pc'[p] \notin {"check", "remove", "drain"}
  BY <1>5, Zenon DEF HolderStep
<1>6. ASSUME NEW d \in Conns, Serve(d)
      PROVE  HolderStep(p)
  <2>1. CASE d = p
    BY Zenon, <1>3, <1>4, <1>5, <1>6, <2>1
       DEF Serve, Reject, Abort, AttachLookup, AttachAdd, AttachRefused, CloseReplaced,
           TellPeer, TellSelf, Forward, EndIgnored, EndDrain, EndCut, Return, Detach,
           DetachStale, TellGone, Release
  <2>2. CASE d # p
    BY Zenon, <1>2, <1>6, <2>2
       DEF Serve, Reject, Abort, AttachLookup, GetSession, AttachAdd, AttachRefused,
           CloseReplaced, TellPeer, TellSelf, Forward, EndTombstone, EndIgnored, EndDrain,
           EndCut, Return, Detach, DetachStale, TellGone, Release
  <2>3. QED
    BY <2>1, <2>2, Zenon
<1>7. ASSUME NEW d \in Conns, Client(d) \/ WriteLoop(d)
      PROVE  HolderStep(p)
  <2>1. CASE d = p
    BY ZenonT(30), <1>2, <1>5, <1>7, <2>1 DEF Client, ServeHTTP, UpgradeFailed, Abort, ReadData, ReadFails,
       ReadSessionEnd, WriteFails, WriteLoop
  <2>2. CASE d # p
    BY <1>2, <1>7, <2>2, Zenon DEF Client, ServeHTTP, UpgradeFailed, Abort, ReadData, ReadFails,
       ReadSessionEnd, WriteFails, WriteLoop
  <2>3. QED
    BY ZenonT(30), <2>1, <2>2
<1>8. ASSUME NEW h \in Https, Http(h)
      PROVE  HolderStep(p)
  <2>1. CASE h = p
    BY <1>3, <1>5, <1>8, <2>1, Zenon DEF Http, CreateRoom, DrawCode, CreateCommit, GetRoom, RoomInfo, Answer
  <2>2. CASE h # p
    BY <1>2, <1>8, <2>2, Zenon DEF Http, CreateRoom, DrawCode, CreateCommit, GetRoom, RoomInfo,
       GetSession, Answer
  <2>3. QED
    BY <2>1, <2>2, Zenon
<1>9. CASE (\E s \in Sessions : CloseExpired(s)) \/ SweepBegin \/ Sweep \/ Tick \/ UNCHANGED vars
  BY <1>2, <1>9, Zenon DEF CloseExpired, SweepBegin, Sweep, Tick, vars
<1>10. QED
  BY <1>6, <1>7, <1>8, <1>9, Zenon DEF Next

\* A goroutine that has tombstoned its room drains it next.
LEMMA DrainFrame ==
  ASSUME IInv, [Next]_vars, NEW c \in Conns, pc[c] = "drain", ~EndDrain(c)
  PROVE  pc'[c] = "drain"
<1> USE DEF IInv, TypeOK, GoroutinesTypeOK, Goto, Procs
<1>1. ASSUME NEW d \in Conns, Serve(d)
      PROVE  pc'[c] = "drain"
  BY Zenon, <1>1 DEF Serve, Reject, Abort, AttachLookup, GetSession, AttachAdd, AttachRefused,
     CloseReplaced, TellPeer, TellSelf, Forward, EndTombstone, EndIgnored, EndDrain, EndCut,
     Return, Detach, DetachStale, TellGone, Release
<1>2. ASSUME NEW d \in Conns, Client(d) \/ WriteLoop(d)
      PROVE  pc'[c] = "drain"
  BY <1>2, Zenon DEF Client, Abort, ServeHTTP, UpgradeFailed, ReadData, ReadFails, ReadSessionEnd,
     WriteFails, WriteLoop
<1>3. ASSUME NEW h \in Https, Http(h)
      PROVE  pc'[c] = "drain"
  BY <1>3, RelayAssumption, Zenon DEF Http, CreateRoom, DrawCode, CreateCommit, GetRoom, RoomInfo,
     GetSession, Answer
<1>4. CASE (\E s \in Sessions : CloseExpired(s)) \/ SweepBegin \/ Sweep \/ Tick \/ UNCHANGED vars
  BY <1>4, Zenon DEF CloseExpired, SweepBegin, Sweep, Tick, vars
<1>5. QED
  BY <1>1, <1>2, <1>3, <1>4, Zenon DEF Next

\* The registry forgets a session that is expired, or gone, or being ended.
LEMMA Unregistering ==
  ASSUME IInv, [Next]_vars, NEW s \in Sessions, code[s] # None,
         sessions[code[s]] = s, sessions'[code[s]] # s
  PROVE  Gone(s) \/ \E c \in Conns : EndTombstone(c) /\ session[c] = s
<1> DEFINE Goal == Gone(s) \/ \E c \in Conns : EndTombstone(c) /\ session[c] = s
<1>1. RoomsTypeOK /\ RoomsSound /\ code[s] \in Codes
  BY Zenon DEF IInv, TypeOK, RoomsTypeOK
<1>2. WithoutExpired[code[s]] = IF IsExpired(s) THEN None ELSE s
  BY <1>1, RoomsAssumption, Zenon DEF WithoutExpired, ExpiredRooms
<1>3. CASE sessions' = WithoutExpired
  BY <1>2, <1>3, Zenon DEF Gone
<1>4. ASSUME NEW k \in Codes, NEW i \in IPs, NEW at \in Nat, NEW x \in Sessions,
             CreateSessionWithCode(k, i, at, x)
      PROVE  Goal
  <2>1. WithoutExpired \in [Codes -> Sessions \cup {None}]
    BY <1>1, Zenon DEF WithoutExpired, RoomsTypeOK
  <2>2. IsExpired(s)
    BY <1>1, <1>2, <1>4, <2>1, RoomsAssumption, Zenon DEF CreateSessionWithCode
  <2>3. QED
    BY <2>2, Zenon DEF Gone
<1>5. ASSUME NEW c \in Conns, EndTombstone(c)
      PROVE  Goal
  <2>1. session[c] \in Sessions
    BY <1>5 DEF EndTombstone, IInv, Locals, ConnLocals, Attached, AttachedPc
  <2>2. code[session[c]] = code[s]
    BY ZenonT(30), <1>1, <1>5, <2>1 DEF EndTombstone, EndSession, RoomsTypeOK
  <2>3. session[c] = s
    BY <1>5, <2>2, Zenon DEF EndTombstone, EndSession, CanEnd
  <2>4. QED
    BY <1>5, <2>3, Zenon
<1>6. ASSUME NEW p \in Procs, pc[p] = "remove", RemoveSession(req[p].code, session[p])
      PROVE  Goal
  <2>1. session[p] = s
    BY <1>1, <1>6, Zenon DEF RemoveSession, RoomsTypeOK
  <2>2. QED
    BY <1>6, <2>1, Zenon DEF IInv, Held
<1>7. CASE UNCHANGED sessions
  BY ZenonT(30), <1>7
<1>8. ASSUME NEW p \in Procs, NEW found, NEW missing, GetSession(p, found, missing)
      PROVE  Goal
  BY <1>6, <1>7, <1>8, Zenon DEF GetSession, roomVars
<1>9. ASSUME NEW c \in Conns, Serve(c)
      PROVE  Goal
  BY Zenon, <1>5, <1>7, <1>8, <1>9
     DEF Serve, roomVars, registryVars, Procs, Reject, Abort, AttachLookup, AttachAdd,
         AddConnection, AttachRefused, CloseReplaced, TellPeer, TellSelf, Forward, EndIgnored,
         EndDrain, DrainConnections, EndCut, Return, Detach, RemoveConnection, DetachStale,
         TellGone, Release
<1>10. ASSUME NEW c \in Conns, Client(c) \/ WriteLoop(c)
       PROVE  Goal
  BY Zenon, <1>7, <1>10 DEF roomVars, Client, ServeHTTP, UpgradeFailed, Abort, ReadData, ReadFails,
     ReadSessionEnd, WriteFails, WriteLoop
<1>11. ASSUME NEW h \in Https, CreateCommit(h)
       PROVE  Goal
  <2>1. req[h].code \in Codes /\ req[h].ip \in IPs /\ draw[h].at \in Nat
    BY Zenon, <1>11 DEF CreateCommit, IInv, Locals, HttpLocals, TypeOK, GoroutinesTypeOK
  <2>2. QED
    BY Zenon, <1>3, <1>4, <1>11, <2>1 DEF CreateCommit, CreateRefused, CreateExists, CreateTooMany
<1>12. ASSUME NEW h \in Https, Http(h)
       PROVE  Goal
  BY <1>7, <1>8, <1>11, <1>12, Zenon DEF Http, roomVars, Procs, CreateRoom, DrawCode, GetRoom, RoomInfo,
     Answer
<1>13. CASE (\E x \in Sessions : CloseExpired(x)) \/ SweepBegin \/ Sweep \/ Tick \/ UNCHANGED vars
  BY <1>3, <1>7, <1>13, Zenon DEF CloseExpired, DrainConnections, SweepBegin, Sweep, sweepExpired, Tick,
     vars, roomVars, registryVars
<1>14. QED
  BY <1>9, <1>10, <1>12, <1>13, Zenon DEF Next

\* A created session stays registered, gone or draining.
LEMMA AccountedStep == IInv /\ [Next]_vars => Accounted'
<1> SUFFICES ASSUME IInv, [Next]_vars, NEW s \in Sessions, code'[s] # None
             PROVE  (sessions[code[s]] = s)' \/ Gone(s)' \/ Draining(s)'
  BY DEF Accounted
<1>1. RoomsTypeOK /\ RoomsSound /\ RoomStep
  BY OneRoomStep, Zenon DEF IInv, TypeOK
<1>2. CASE code[s] = None
  <2>1. PICK k \in Codes, i \in IPs, at \in Nat, x \in Sessions : CreateSessionWithCode(k, i, at, x)
    BY <1>1, <1>2, Zenon DEF RoomStep, roomVars, registryVars, sessionVars, AddConnection,
       RemoveConnection, EndSession, DrainConnections, RemoveSession, CreateRefused,
       CreateExists, CreateTooMany, sweepExpired
  <2>2. x = s
    BY <1>1, <1>2, <2>1, Zenon DEF CreateSessionWithCode, RoomsTypeOK
  <2>3. code'[s] = k /\ sessions'[k] = s
    BY <1>1, <2>1, <2>2, Zenon DEF CreateSessionWithCode, RoomsTypeOK, WithoutExpired
  <2>4. QED
    BY <2>3, Zenon
<1>3. CASE code[s] # None /\ Gone(s)
  BY <1>1, <1>3, GoneStable, Zenon
<1>4. CASE code[s] # None /\ ~Gone(s) /\ sessions[code[s]] = s
  <2>1. code'[s] = code[s]
    BY ZenonT(30), <1>1, <1>4, CodeStable
  <2>2. ASSUME NEW c \in Conns, EndTombstone(c), session[c] = s
        PROVE  Draining(s)'
    BY <2>2, Zenon DEF EndTombstone, Goto, Draining, IInv, TypeOK, GoroutinesTypeOK, Procs
  <2>3. QED
    BY <1>4, <2>1, <2>2, Unregistering, Zenon
<1>5. ASSUME NEW c \in Conns, pc[c] = "drain", session[c] = s
      PROVE  Gone(s)' \/ Draining(s)'
  <2>1. CASE EndDrain(c)
    <3>1. closed'[s]
      BY <1>1, <1>5, <2>1, Zenon DEF EndDrain, DrainConnections, RoomsTypeOK
    <3>2. QED
      BY <3>1, Zenon DEF Gone
  <2>2. CASE ~EndDrain(c)
    <3>1. c \in Procs /\ Attached(c)
      BY <1>5, Zenon DEF Procs, Attached, AttachedPc
    <3>2. session'[c] = s
      BY <1>5, <3>1, AttachedFrame, Zenon
    <3>3. pc'[c] = "drain"
      BY ZenonT(30), <1>5, <2>2, DrainFrame
    <3>4. QED
      BY <3>2, <3>3, Zenon DEF Draining
  <2>3. QED
    BY <2>1, <2>2, Zenon
<1>6. QED
  BY Zenon, <1>2, <1>3, <1>4, <1>5 DEF IInv, Accounted, Draining

\* Sessions become due for Close() only as they are unregistered.
LEMMA ClosingFrame ==
  ASSUME IInv, [Next]_vars, NEW s \in closing', s \notin closing
  PROVE  \/ s \in Swept /\ \A k \in Codes : sessions'[k] = s => WithoutExpired[k] = s
         \/ \E p \in Procs : /\ pc[p] = "remove" /\ session[p] = s
                             /\ RemoveSession(req[p].code, s)
<1> DEFINE Goal == \/ s \in Swept /\ \A k \in Codes : sessions'[k] = s => WithoutExpired[k] = s
                   \/ \E p \in Procs : /\ pc[p] = "remove" /\ session[p] = s
                                       /\ RemoveSession(req[p].code, s)
<1>1. CASE closing' = closing
  BY <1>1, Zenon
<1>2. ASSUME NEW p \in Procs, NEW found, NEW missing, GetSession(p, found, missing)
      PROVE  Goal
  <2>1. CASE closing' = closing
    BY <1>1, <2>1, Zenon
  <2>2. CASE /\ pc[p] = "remove" /\ RemoveSession(req[p].code, session[p])
             /\ closing' = closing \cup {session[p]}
    <3>1. s = session[p]
      BY <2>2, Zenon
    <3>2. QED
      BY <2>2, <3>1, Zenon
  <2>3. QED
    BY <1>2, <2>1, <2>2, Zenon DEF GetSession
<1>3. ASSUME NEW h \in Https, CreateCommit(h)
      PROVE  Goal
  <2>1. s \in Swept
    BY <1>3 DEF CreateCommit
  <2>2. CASE sessions' = WithoutExpired
    BY ZenonT(30), <2>1, <2>2
  <2>3. ASSUME NEW x \in Sessions, CreateSessionWithCode(req[h].code, req[h].ip, draw[h].at, x)
        PROVE  Goal
    <3>1. x # s
      <4>1. PICK k \in Codes : s = sessions[k] /\ sessions[k] # None
        BY <2>1, Zenon DEF Swept, ExpiredRooms
      <4>2. code[s] = k
        BY <4>1, Zenon DEF IInv, RoomsSound
      <4>3. QED
        BY <2>3, <4>2, RoomsAssumption, Zenon DEF CreateSessionWithCode
    <3>2. QED
      BY ZenonT(30), <2>1, <2>3, <3>1 DEF CreateSessionWithCode, WithoutExpired
  <2>4. QED
    BY ZenonT(30), <1>3, <2>2, <2>3 DEF CreateCommit, CreateRefused, CreateExists, CreateTooMany
<1>4. CASE Sweep
  BY <1>4, Zenon DEF Sweep, sweepExpired
<1>5. ASSUME NEW c \in Conns, Serve(c)
      PROVE  Goal
  BY Zenon, <1>1, <1>2, <1>5
     DEF Serve, sweepVars, Procs, Reject, Abort, AttachLookup, AttachAdd, AttachRefused,
         CloseReplaced, TellPeer, TellSelf, Forward, EndTombstone, EndIgnored, EndDrain,
         EndCut, Return, Detach, DetachStale, TellGone, Release
<1>6. ASSUME NEW c \in Conns, Client(c) \/ WriteLoop(c)
      PROVE  Goal
  BY Zenon, <1>1, <1>6 DEF sweepVars, Client, ServeHTTP, UpgradeFailed, Abort, ReadData, ReadFails,
     ReadSessionEnd, WriteFails, WriteLoop
<1>7. ASSUME NEW h \in Https, Http(h)
      PROVE  Goal
  BY <1>1, <1>2, <1>3, <1>7, Zenon DEF Http, sweepVars, Procs, CreateRoom, DrawCode, GetRoom, RoomInfo,
     Answer
<1>8. CASE (\E x \in Sessions : CloseExpired(x)) \/ SweepBegin \/ Tick \/ UNCHANGED vars
  BY Zenon, <1>1, <1>8 DEF CloseExpired, SweepBegin, Tick, vars, sweepVars
<1>9. QED
  BY <1>4, <1>5, <1>6, <1>7, <1>8, Zenon DEF Next

\* What goroutines hold stays what IInv says of it.
LEMMA HeldStep == IInv /\ [Next]_vars => Held'
<1> SUFFICES ASSUME IInv, [Next]_vars PROVE Held'
  OBVIOUS
<1>1. RoomsTypeOK /\ GoroutinesTypeOK /\ RoomsSound /\ RoomStep
  BY ZenonT(30), OneRoomStep DEF IInv, TypeOK
<1>2. ASSUME NEW p \in Procs, session'[p] # None
      PROVE  code'[session'[p]] # None
  <2>1. CASE session'[p] = session[p]
    <3>1. session[p] \in Sessions /\ code[session[p]] # None
      BY ZenonT(30), <1>1, <1>2, <2>1 DEF IInv, Held, GoroutinesTypeOK
    <3>2. QED
      BY ZenonT(30), <1>1, <2>1, <3>1, CodeStable
  <2>2. CASE pc[p] = "lookup" /\ session'[p] = sessions[req[p].code] /\ UNCHANGED roomVars
    <3>1. req[p].code \in Codes
      BY Zenon, <2>2 DEF IInv, Locals, ConnLocals, HttpLocals, Procs
    <3>2. code[sessions[req[p].code]] = req[p].code
      BY ZenonT(30), <1>1, <1>2, <2>2, <3>1 DEF RoomsSound
    <3>3. QED
      BY <2>2, <3>1, <3>2, RoomsAssumption, Zenon DEF roomVars
  <2>3. QED
    BY <1>2, <2>1, <2>2, HolderFrame, Zenon DEF HolderStep
<1>3. ASSUME NEW p \in Procs, pc'[p] \in {"check", "remove"}
      PROVE  code'[session'[p]] = req'[p].code
  <2>1. CASE pc[p] \in {"check", "remove"} /\ session'[p] = session[p]
    <3>1. session[p] \in Sessions /\ code[session[p]] = req[p].code /\ code[session[p]] # None
      BY Zenon, <2>1, RoomsAssumption DEF IInv, Held, Locals, ConnLocals, HttpLocals, Procs
    <3>2. code'[session[p]] = code[session[p]]
      BY <1>1, <3>1, CodeStable, Zenon
    <3>3. QED
      BY <1>3, <2>1, <3>1, <3>2, HolderFrame, Zenon DEF HolderStep
  <2>2. CASE pc[p] = "lookup" /\ session'[p] = sessions[req[p].code] /\ UNCHANGED roomVars
    <3>1. req[p].code \in Codes
      BY Zenon, <2>2 DEF IInv, Locals, ConnLocals, HttpLocals, Procs
    <3>2. session'[p] \in Sessions
      BY <1>3, LocalsStep, Zenon DEF Locals, ConnLocals, HttpLocals, Procs
    <3>3. code[sessions[req[p].code]] = req[p].code
      BY ZenonT(30), <1>1, <2>2, <3>1, <3>2, RoomsAssumption DEF RoomsSound
    <3>4. QED
      BY Zenon, <1>3, <2>2, <3>3, HolderFrame DEF HolderStep, roomVars
  <2>3. QED
    BY <1>3, <2>1, <2>2, HolderFrame, Zenon DEF HolderStep
<1>4. ASSUME NEW p \in Procs, pc'[p] = "remove"
      PROVE  Gone(session[p])' /\ session'[p] = session[p]
  <2>1. session'[p] = session[p] /\ pc[p] \in {"check", "remove"}
    BY ZenonT(30), <1>4, HolderFrame DEF HolderStep
  <2>2. session[p] \in Sessions /\ code[session[p]] # None
    BY <2>1, RoomsAssumption, Zenon DEF IInv, Held, Locals, ConnLocals, HttpLocals, Procs
  <2>3. Gone(session[p])
    BY Zenon, <1>4, <2>2, HolderFrame DEF HolderStep, IInv, Held, Gone
  <2>4. PICK s \in Sessions : s = session[p]
    BY <2>2, Zenon
  <2>5. Gone(s)'
    BY <1>1, <2>3, <2>4, GoneStable, Zenon
  <2>6. QED
    BY <2>1, <2>4, <2>5, Zenon DEF Gone, IsExpired, Occupied
<1>5. ASSUME NEW c \in Conns, pc'[c] = "drain"
      PROVE  ~Registered(session[c])' /\ session'[c] = session[c]
  <2>1. c \in Procs
    BY DEF Procs
  <2>2. session'[c] = session[c] /\ (pc[c] = "drain" \/ EndTombstone(c))
    BY ZenonT(30), <1>5, <2>1, HolderFrame DEF HolderStep
  <2>3. session[c] \in Sessions /\ code[session[c]] # None
    BY <2>1, <2>2, RoomsAssumption, Zenon
       DEF EndTombstone, IInv, Held, Locals, ConnLocals, Attached, AttachedPc
  <2>4. CASE pc[c] = "drain"
    <3>1. \A k \in Codes : sessions[k] # session[c]
      BY <2>4, Zenon DEF IInv, Held, Registered
    <3>2. PICK s \in Sessions : s = session[c]
      BY <2>3
    <3>3. ~Registered(s)'
      BY <1>1, <2>3, <3>1, <3>2, UnregisteredStable, Zenon DEF Registered
    <3>4. QED
      BY <2>2, <3>2, <3>3, Zenon DEF Registered
  <2>5. CASE EndTombstone(c)
    <3>1. \A k \in Codes : sessions[k] = session[c] => k = code[session[c]]
      BY ZenonT(30), <1>1, <2>3, RoomsAssumption DEF RoomsSound
    <3>2. \A k \in Codes : sessions'[k] # session[c]
      BY ZenonT(30), <1>1, <2>3, <2>5, <3>1, RoomsAssumption DEF EndTombstone, EndSession, RoomsTypeOK
    <3>3. QED
      BY <2>2, <3>2, Zenon DEF Registered
  <2>6. QED
    BY Zenon, <2>2, <2>4, <2>5
<1>6. ASSUME NEW s \in closing'
      PROVE  Gone(s)' /\ ~Registered(s)'
  <2>1. s \in Sessions
    BY GoroutinesTypeStep, Zenon DEF GoroutinesTypeOK
  <2>2. CASE s \in closing
    BY <1>1, <2>1, <2>2, GoneStable, UnregisteredStable, Zenon DEF IInv, Held, Gone
  <2>3. CASE s \in Swept /\ \A k \in Codes : sessions'[k] = s => WithoutExpired[k] = s
    <3>1. IsExpired(s) /\ \E k \in Codes : sessions[k] = s
      BY ZenonT(30), <2>3 DEF Swept, ExpiredRooms
    <3>2. Gone(s)
      <4>1. PICK k \in Codes : sessions[k] = s
        BY <3>1, Zenon
      <4>2. code[s] = k /\ k # None
        BY <1>1, <2>1, <4>1, RoomsAssumption, Zenon DEF RoomsSound
      <4> QED
        BY <3>1, <4>2, Zenon DEF Gone
    <3>3. \A k \in Codes : WithoutExpired[k] # s
      BY <2>1, <3>1, RoomsAssumption, Zenon DEF WithoutExpired, ExpiredRooms
    <3>4. QED
      BY <1>1, <2>1, <2>3, <3>2, <3>3, GoneStable, Zenon DEF Registered
  <2>4. ASSUME NEW p \in Procs, pc[p] = "remove", session[p] = s, RemoveSession(req[p].code, s)
        PROVE  Gone(s)' /\ ~Registered(s)'
    <3>1. Gone(s) /\ code[s] = req[p].code
      BY <2>4 DEF IInv, Held
    <3>2. \A k \in Codes : sessions[k] = s => k = req[p].code
      BY ZenonT(30), <1>1, <2>1, <3>1, RoomsAssumption DEF RoomsSound
    <3>3. \A k \in Codes : sessions'[k] # s
      BY <1>1, <2>1, <2>4, <3>2, RoomsAssumption, Zenon DEF RemoveSession, RoomsTypeOK
    <3>4. QED
      BY ZenonT(30), <1>1, <2>1, <3>1, <3>3, GoneStable DEF Registered
  <2>5. QED
    BY <2>2, <2>3, <2>4, ClosingFrame, Zenon
<1>7. QED
  BY Zenon, <1>2, <1>3, <1>4, <1>5, <1>6 DEF Held, Gone, IsExpired, Occupied, Registered

\* A clock that a goroutine has read stays in the past.
LEMMA ClocksStep == IInv /\ [Next]_vars => Clocks'
<1> SUFFICES ASSUME IInv, [Next]_vars PROVE Clocks'
  BY Zenon
<1>1. RoomsTypeOK /\ RoomsTypeOK' /\ GoroutinesTypeOK /\ RoomStep /\ TombstonedFree
  BY OneRoomStep, RoomsTypeStep, Zenon DEF IInv, TypeOK, Clocks
<1>2. TombstonedFree'
  BY <1>1, TombstonedFreeStep, Zenon
<1>3. now' >= now
  <2>1. now' = now \/ now' = now + 1
    BY Zenon, <1>1 DEF RoomStep, roomVars, AddConnection, RemoveConnection, EndSession,
       DrainConnections, RemoveSession, CreateRefused, CreateExists, CreateTooMany,
       CreateSessionWithCode, sweepExpired
  <2>2. QED
    BY <1>1, <2>1 DEF RoomsTypeOK
<1>4. sweepAt' \in {sweepAt, now, ZeroTime}
  <2>1. ASSUME NEW c \in Conns, Serve(c) PROVE sweepAt' = sweepAt
    BY Zenon, <2>1 DEF Serve, sweepVars, Reject, Abort, AttachLookup, AttachAdd, AttachRefused,
       CloseReplaced, TellPeer, TellSelf, Forward, EndTombstone, EndIgnored, EndDrain, EndCut,
       Return, Detach, DetachStale, TellGone, Release
  <2>2. ASSUME NEW c \in Conns, Client(c) \/ WriteLoop(c) PROVE sweepAt' = sweepAt
    BY Zenon, <2>2 DEF Client, sweepVars, ServeHTTP, UpgradeFailed, Abort, ReadData, ReadFails,
       ReadSessionEnd, WriteFails, WriteLoop
  <2>3. ASSUME NEW h \in Https, Http(h) PROVE sweepAt' = sweepAt
    BY <2>3, Zenon DEF Http, sweepVars, CreateRoom, DrawCode, CreateCommit, GetRoom, RoomInfo, Answer
  <2>4. QED
    BY <2>1, <2>2, <2>3, Zenon DEF Next, CloseExpired, SweepBegin, Sweep, Tick, vars, sweepVars
<1>5. ASSUME NEW h \in Https
      PROVE  draw'[h].at \in {draw[h].at, now, ZeroTime}
  <2>1. ASSUME NEW c \in Conns, Serve(c) PROVE draw' = draw
    BY Zenon, <2>1 DEF Serve, Reject, Abort, AttachLookup, AttachAdd, AttachRefused, CloseReplaced,
       TellPeer, TellSelf, Forward, EndTombstone, EndIgnored, EndDrain, EndCut, Return, Detach,
       DetachStale, TellGone, Release
  <2>2. ASSUME NEW c \in Conns, Client(c) \/ WriteLoop(c) PROVE draw' = draw
    BY Zenon, <2>2 DEF Client, ServeHTTP, UpgradeFailed, Abort, ReadData, ReadFails, ReadSessionEnd,
       WriteFails, WriteLoop
  <2>3. ASSUME NEW g \in Https, DrawCode(g) \/ Answer(g)
        PROVE  draw'[h].at \in {draw[h].at, now, ZeroTime}
    <3>1. CASE g # h \/ UNCHANGED draw
      BY <1>1, <2>3, <3>1, Zenon DEF DrawCode, Answer, GoroutinesTypeOK
    <3>2. CASE draw' = [draw EXCEPT ![h].at = now, ![h].attempts = @ + 1]
      BY <1>1, <3>2 DEF GoroutinesTypeOK
    <3>3. CASE draw' = [draw EXCEPT ![h] = NoDraw]
      BY <1>1, <3>3, Zenon DEF GoroutinesTypeOK, NoDraw
    <3>4. QED
      BY <2>3, <3>1, <3>2, <3>3, Zenon DEF DrawCode, Answer
  <2>4. ASSUME NEW g \in Https, Http(g), ~DrawCode(g), ~Answer(g) PROVE draw' = draw
    BY <2>4 DEF Http, CreateRoom, CreateCommit, GetRoom, RoomInfo
  <2>5. CASE (\E s \in Sessions : CloseExpired(s)) \/ SweepBegin \/ Sweep \/ Tick \/ UNCHANGED vars
    BY Zenon, <2>5 DEF CloseExpired, SweepBegin, Sweep, Tick, vars
  <2>6. QED
    BY <2>1, <2>2, <2>3, <2>4, <2>5, Zenon DEF Next
<1>6. sweepAt' <= now'
  BY <1>1, <1>3, <1>4 DEF IInv, Clocks, RoomsTypeOK, GoroutinesTypeOK, ZeroTime
<1>7. ASSUME NEW h \in Https
      PROVE  draw'[h].at <= now'
  <2>1. draw[h].at \in Nat /\ draw[h].at <= now
    BY <1>1, Zenon DEF IInv, Clocks, GoroutinesTypeOK
  <2>2. draw'[h].at = draw[h].at \/ draw'[h].at = now \/ draw'[h].at = 0
    BY <1>5, Zenon DEF ZeroTime
  <2>3. now \in Nat /\ now' \in Nat
    BY <1>1, Zenon DEF RoomsTypeOK
  <2>4. QED
    BY <1>3, <2>1, <2>2, <2>3
<1>8. QED
  BY <1>2, <1>6, <1>7, Zenon DEF Clocks

-----------------------------------------------------------------------------
(* The theorems. *)

\* The inductive invariant holds of a relay that has just started.
LEMMA Initially == Init => IInv
<1> SUFFICES ASSUME Init PROVE IInv
  BY Zenon
<1> USE RoomsAssumption, RelayAssumption DEF Init, RoomsInit, GoroutinesInit, ZeroTime
<1>0. 0 \in Nat /\ 1 \in Nat \ {0} /\ 0 \in 0..CreateAttempts
  OBVIOUS
<1>1. RoomsTypeOK
  BY <1>0, Zenon DEF RoomsTypeOK
<1>2. GoroutinesTypeOK
  <2>1. pc \in [Procs -> ConnPc \cup HttpPc]
    BY Zenon DEF ConnPc, HttpPc
  <2>2. NoRequest \in Requests
    BY Zenon DEF NoRequest, Requests
  <2>3. NoDraw \in [at : Nat, attempts : 0..CreateAttempts]
    BY <1>0, Zenon DEF NoDraw
  <2>4. <<>> \in Seq(Frames)
    OBVIOUS
  <2> QED
    BY <1>0, <2>1, <2>2, <2>3, <2>4, Zenon DEF GoroutinesTypeOK
<1>3. Locals
  BY Zenon DEF Locals, ConnLocals, HttpLocals, Procs, ConnPc, HttpPc, Attached, AttachedPc, NoDraw
<1>4. \A s \in Sessions : Occupied(s) = {}
  BY Zenon DEF Occupied
<1>5. RoomsSound
  <2>1. IsFiniteSet({}) /\ Cardinality({}) = 0
    BY FS_EmptySet, Zenon
  <2>2. ASSUME NEW s \in Sessions
        PROVE  IsFiniteSet(Occupied(s)) /\ Cardinality(Occupied(s)) <= 2
    <3>1. Occupied(s) = {}
      BY <1>4, Zenon
    <3>2. QED
      BY ONLY <2>1, <3>1
  <2>3. \A k \in Codes : sessions[k] = None
    BY Zenon
  <2>4. \A s \in Sessions : ~closed[s] /\ expiresAt[s] = ZeroTime
    BY Zenon
  <2>5. QED
    BY <1>4, <2>2, <2>3, <2>4, Zenon DEF RoomsSound
<1>6. NoGhostParticipant
  BY DEF NoGhostParticipant
<1>7. Held /\ Accounted
  BY Zenon DEF Held, Accounted, Procs
<1>8. Clocks
  BY DEF Clocks, TombstonedFree, NoDraw
<1>9. QED
  BY <1>1, <1>2, <1>3, <1>5, <1>6, <1>7, <1>8, Zenon DEF IInv, TypeOK

\* IInv is an invariant of the relay, whatever the number of rooms, goroutines
\* and clients and however they interleave.
THEOREM Invariance == Spec => []IInv
<1>1. IInv /\ [Next]_vars => IInv'
  <2> SUFFICES ASSUME IInv, [Next]_vars PROVE IInv'
    OBVIOUS
  <2>1. RoomsTypeOK' /\ RoomsSound'
    BY OneRoomStep, RoomsTypeStep, RoomsSoundStep, Zenon DEF IInv, TypeOK
  <2>2. QED
    BY <2>1, GoroutinesTypeStep, LocalsStep, NoGhostStep, HeldStep, AccountedStep, ClocksStep, Zenon
       DEF IInv, TypeOK
<1>2. QED
  BY <1>1, Initially, PTL DEF Spec

\* Type correctness of the relay's state.
THEOREM TypeCorrect == Spec => []TypeOK
<1>1. IInv => TypeOK
  BY DEF IInv
<1>2. QED
  BY <1>1, Invariance, PTL

\* A room never holds a third connection, in whatever order AttachConnection,
\* replacement and DetachConnection interleave.
THEOREM TwoPeople == Spec => []AtMostTwo
<1>1. IInv => AtMostTwo
  BY Zenon DEF IInv, RoomsSound, AtMostTwo
<1>2. QED
  BY <1>1, Invariance, PTL

\* A connection a room holds is one whose goroutine will still detach it.
THEOREM NoGhosts == Spec => []NoGhostParticipant
<1>1. IInv => NoGhostParticipant
  BY DEF IInv
<1>2. QED
  BY <1>1, Invariance, PTL

\* A room with a participant is registered, or its ender is about to drain it,
\* although no lock is held between GetSession and AddConnection.
THEOREM Reachable == Spec => []OccupiedRoomReachable
<1>1. IInv => OccupiedRoomReachable
  <2> SUFFICES ASSUME IInv, NEW s \in Sessions, Occupied(s) # {}
               PROVE  sessions[code[s]] = s \/ Draining(s)
    BY Zenon DEF OccupiedRoomReachable
  <2>1. code[s] # None /\ ~closed[s] /\ ~IsExpired(s)
    BY DEF IInv, RoomsSound, IsExpired
  <2>2. QED
    BY <2>1, Zenon DEF IInv, Accounted, Gone
<1>2. QED
  BY <1>1, Invariance, PTL

\* Closing an expired session never disconnects anybody.
THEOREM ExpiryIsQuiet == Spec => []ExpiryNeverCutsAPeer
<1>1. IInv => ExpiryNeverCutsAPeer
  BY Zenon DEF IInv, Held, Gone, TypeOK, GoroutinesTypeOK, RoomsSound, IsExpired, ExpiryNeverCutsAPeer
<1>2. QED
  BY <1>1, Invariance, PTL

\* Until it expires a tombstone is kept and its code is not registered, by
\* goroutines whose clocks were read before they took the lock.
THEOREM TombstonesHold == Spec => TombstoneHolds
<1> DEFINE Kept == \A k \in Codes : now < ended[k] => ended'[k] = ended[k] /\ sessions'[k] = None
<1>1. IInv /\ [Next]_vars => Kept
  <2> SUFFICES ASSUME IInv, [Next]_vars, NEW k \in Codes, now < ended[k]
               PROVE  ended'[k] = ended[k] /\ sessions'[k] = None
    BY Zenon
  <2>1. RoomsTypeOK /\ GoroutinesTypeOK /\ TombstonedFree /\ sessions[k] = None
    BY DEF IInv, TypeOK, Clocks, TombstonedFree
  <2>2. CASE UNCHANGED registryVars
    BY ZenonT(30), <2>1, <2>2 DEF registryVars
  <2>3. ASSUME NEW c \in Conns, EndTombstone(c)
        PROVE  ended'[k] = ended[k] /\ sessions'[k] = None
    <3>1. session[c] \in Sessions
      BY Zenon, <2>3 DEF EndTombstone, IInv, Locals, ConnLocals, Attached, AttachedPc
    <3>2. code[session[c]] # k
      BY Zenon, <2>1, <2>3, <3>1, RoomsAssumption DEF EndTombstone, EndSession, CanEnd
    <3>3. QED
      BY <2>1, <2>3, <3>2, Zenon DEF EndTombstone, EndSession, RoomsTypeOK
  <2>4. ASSUME NEW h \in Https, CreateCommit(h)
        PROVE  ended'[k] = ended[k] /\ sessions'[k] = None
    <3>1. req[h].code \in Codes /\ draw[h].at \in Nat /\ draw[h].at <= now
      BY Zenon, <2>1, <2>4 DEF CreateCommit, IInv, Locals, HttpLocals, GoroutinesTypeOK, Clocks
    <3>2. QED
      BY Zenon, <2>1, <2>4, <3>1, TombstoneKept DEF CreateCommit
  <2>5. CASE Sweep
    <3>1. sweepAt \in Nat /\ sweepAt <= now
      BY Zenon, <2>1 DEF GoroutinesTypeOK, IInv, Clocks
    <3>2. QED
      BY Zenon, <2>1, <2>5, <3>1, TombstoneKept DEF Sweep
  <2>6. ASSUME NEW p \in Procs, NEW found, NEW missing, GetSession(p, found, missing)
        PROVE  ended'[k] = ended[k] /\ sessions'[k] = None
    BY Zenon, <2>1, <2>2, <2>6 DEF GetSession, RemoveSession, roomVars, registryVars, RoomsTypeOK
  <2>7. ASSUME NEW c \in Conns, Serve(c), ~EndTombstone(c)
        PROVE  ended'[k] = ended[k] /\ sessions'[k] = None
    BY Zenon, <2>2, <2>6, <2>7 DEF Serve, roomVars, registryVars, Procs, Reject, Abort, AttachLookup,
       AttachAdd, AddConnection, AttachRefused, CloseReplaced, TellPeer, TellSelf, Forward,
       EndIgnored, EndDrain, DrainConnections, EndCut, Return, Detach, RemoveConnection,
       DetachStale, TellGone, Release
  <2>8. ASSUME NEW c \in Conns, Client(c) \/ WriteLoop(c)
        PROVE  ended'[k] = ended[k] /\ sessions'[k] = None
    BY Zenon, <2>2, <2>8 DEF roomVars, registryVars, Client, ServeHTTP, UpgradeFailed, Abort, ReadData,
       ReadFails, ReadSessionEnd, WriteFails, WriteLoop
  <2>9. ASSUME NEW h \in Https, Http(h)
        PROVE  ended'[k] = ended[k] /\ sessions'[k] = None
    BY <2>2, <2>4, <2>6, <2>9, Zenon DEF Http, roomVars, registryVars, Procs, CreateRoom, DrawCode,
       GetRoom, RoomInfo, Answer
  <2>10. CASE (\E s \in Sessions : CloseExpired(s)) \/ SweepBegin \/ Tick \/ UNCHANGED vars
    BY Zenon, <2>2, <2>10 DEF CloseExpired, DrainConnections, SweepBegin, Tick, vars, roomVars,
       registryVars
  <2>11. QED
    BY ZenonT(30), <2>3, <2>5, <2>7, <2>8, <2>9, <2>10 DEF Next
<1>2. IInv /\ [Next]_vars => [Kept]_vars
  BY <1>1, Zenon
<1>3. QED
  BY <1>2, Invariance, PTL DEF Spec, TombstoneHolds

-----------------------------------------------------------------------------
(* The relay implements module Room. *)

\* The step of module Room that a session takes, in the terms of module Rooms.
Nobody == [t \in Slots |-> None]

Alive(s) == Phase(s) \in {"open", "ending"}

Kept(s) == Phase(s)' = Phase(s) /\ conns'[s] = conns[s]

RoomMove(s) ==
  \/ Kept(s)
  \/ Phase(s) = "none" /\ Phase(s)' = "open" /\ conns'[s] = Nobody
  \/ Phase(s) = "open" /\ Phase(s)' = "ending" /\ conns'[s] = conns[s]
  \/ Phase(s) = "ending" /\ Phase(s)' = "over" /\ conns'[s] = Nobody
  \/ Alive(s) /\ conns[s] = Nobody /\ Phase(s)' = "over" /\ conns'[s] = Nobody
  \/ \E t \in Slots :
       /\ Alive(s) /\ Phase(s)' = Phase(s)
       /\ \/ t \in Occupied(s) /\ conns'[s] = [conns[s] EXCEPT ![t] = None]
          \/ \E c \in Conns :
               /\ \A u, v \in Occupied(s) \ {t} : u = v
               /\ conns'[s] = [conns[s] EXCEPT ![t] = c]

\* A session without participants maps every slot to nil.
LEMMA EmptyIsNobody ==
  ASSUME RoomsTypeOK, NEW s \in Sessions, Occupied(s) = {}
  PROVE  conns[s] = Nobody
  BY DEF RoomsTypeOK, Occupied, Nobody

\* What a session's phase depends on; the registry entry of an expired session
\* does not count.
LEMMA PhaseKept ==
  ASSUME RoomsTypeOK, NEW s \in Sessions, now' = now, code'[s] = code[s],
         closed'[s] = closed[s], conns'[s] = conns[s], expiresAt'[s] = expiresAt[s],
         code[s] # None /\ ~IsExpired(s) =>
           ((sessions'[code[s]] = s) <=> (sessions[code[s]] = s))
  PROVE  RoomMove(s)
<1>1. IsExpired(s)' <=> IsExpired(s)
  BY Zenon DEF IsExpired, Occupied
<1>2. QED
  BY <1>1, Zenon DEF Phase, RoomMove, Kept

\* AddConnection counts the participants; one who returns is not counted twice.
LEMMA AtMostOneOther ==
  ASSUME RoomsSound, NEW s \in Sessions, NEW t \in Slots, CanAdd(s, t)
  PROVE  \A u, v \in Occupied(s) \ {t} : u = v
<1> SUFFICES ASSUME NEW u \in Occupied(s) \ {t}, NEW v \in Occupied(s) \ {t}, u # v
             PROVE  FALSE
  OBVIOUS
<1> DEFINE S == Occupied(s)
<1>1. IsFiniteSet(S) /\ Cardinality(S) <= 2 /\ (t \in S \/ Cardinality(S) < 2)
  BY Zenon DEF RoomsSound, CanAdd, Occupied
<1> HIDE DEF S
<1>2. /\ IsFiniteSet(S \ {u}) /\ Cardinality(S \ {u}) = Cardinality(S) - 1
      /\ Cardinality(S) \in Nat
  BY <1>1, FS_RemoveElement, FS_CardinalityType, Zenon DEF S
<1>3. /\ IsFiniteSet((S \ {u}) \ {v})
      /\ Cardinality((S \ {u}) \ {v}) = Cardinality(S \ {u}) - 1
  BY <1>2, FS_RemoveElement, Zenon DEF S
<1>4. Cardinality((S \ {u}) \ {v}) \in Nat
  BY <1>3, FS_CardinalityType, Zenon
<1>5. CASE t \in S
  <2>1. Cardinality(((S \ {u}) \ {v}) \ {t}) = Cardinality((S \ {u}) \ {v}) - 1
        /\ Cardinality(((S \ {u}) \ {v}) \ {t}) \in Nat
    BY <1>3, <1>5, FS_RemoveElement, FS_CardinalityType, Zenon
  <2>2. QED
    BY <1>1, <1>2, <1>3, <2>1
<1>6. CASE t \notin S
  BY <1>1, <1>2, <1>3, <1>4, <1>6
<1>7. QED
  BY <1>5, <1>6, Zenon

\* AddConnection: somebody enters a room that is neither closed nor expired.
LEMMA AddIsEnter ==
  ASSUME RoomsTypeOK, RoomsSound, NEW s \in Sessions, NEW x \in Sessions, NEW t \in Slots,
         NEW c \in Conns, code[x] # None, AddConnection(x, t, c)
  PROVE  RoomMove(s)
<1> USE DEF RoomsTypeOK
<1>1. CASE x # s
  BY <1>1, PhaseKept, Zenon DEF AddConnection, registryVars
<1>2. CASE x = s
  <2>1. conns'[s] = [conns[s] EXCEPT ![t] = c] /\ ~IsExpired(s)
    BY <1>2, Zenon DEF AddConnection, CanAdd
  <2>2. t \in Occupied(s)'
    BY <2>1, RoomsAssumption, ZenonT(30) DEF Occupied
  <2>3. Phase(s)' = Phase(s) /\ Alive(s)
    BY <1>2, <2>1, <2>2, Zenon DEF AddConnection, CanAdd, registryVars, Phase, Alive, IsExpired
  <2>4. \A u, v \in Occupied(s) \ {t} : u = v
    BY <1>2, AtMostOneOther, Zenon DEF AddConnection
  <2>5. QED
    BY <2>1, <2>3, <2>4, Zenon DEF RoomMove
<1>3. QED
  BY <1>1, <1>2, Zenon

\* What expires TTL from now has not expired now.
LEMMA LaterNotNow == \A n \in Nat, d \in Nat \ {0} : ~(n >= n + d)
  OBVIOUS

\* RemoveConnection: somebody leaves, and the room's time starts to run anew.
LEMMA RemoveIsLeave ==
  ASSUME RoomsTypeOK, RoomsTypeOK', RoomsSound, NEW s \in Sessions, NEW x \in Sessions,
         NEW t \in Slots, NEW c \in Conns, code[x] # None, RemoveConnection(x, t, c)
  PROVE  RoomMove(s)
<1> USE DEF RoomsTypeOK
<1>1. CASE x # s
  BY <1>1, PhaseKept, Zenon DEF RemoveConnection, registryVars
<1>2. CASE x = s
  <2>1. conns'[s] = [conns[s] EXCEPT ![t] = None] /\ t \in Occupied(s)
    BY <1>2, RoomsAssumption, ZenonT(30) DEF RemoveConnection, CanRemove, Occupied
  <2>2. ~IsExpired(s) /\ ~closed[s]
    BY <2>1, Zenon DEF IsExpired, RoomsSound
  <2>3. ~IsExpired(s)'
    <3>1. CASE Occupied(s) = {t}
      <4>1. expiresAt'[s] = now + TTL /\ now' = now
        BY <1>2, <3>1, Zenon DEF RemoveConnection
      <4>2. now \in Nat /\ TTL \in Nat \ {0}
        BY RoomsAssumption, Zenon
      <4>3. QED
        BY <4>1, <4>2, LaterNotNow, Zenon DEF IsExpired
    <3>2. CASE Occupied(s) # {t}
      <4>1. PICK u \in Occupied(s) : u # t
        BY <2>1, <3>2, Zenon
      <4>2. u \in Occupied(s)'
        BY <2>1, <4>1, Zenon DEF Occupied
      <4>3. QED
        BY <4>2, Zenon DEF IsExpired
    <3>3. QED
      BY <3>1, <3>2, Zenon
  <2>4. Phase(s)' = Phase(s) /\ Alive(s)
    BY <1>2, <2>2, <2>3, Zenon DEF RemoveConnection, registryVars, Phase, Alive
  <2>5. QED
    BY <2>1, <2>4, Zenon DEF RoomMove
<1>3. QED
  BY <1>1, <1>2, Zenon

\* EndSession and RemoveSession: the code no longer finds the room.
LEMMA UnregisterIsEnd ==
  ASSUME RoomsTypeOK, NEW s \in Sessions, NEW k \in Codes,
         sessions' = [sessions EXCEPT ![k] = None], UNCHANGED <<now, sessionVars>>
  PROVE  RoomMove(s)
<1> USE RoomsAssumption DEF RoomsTypeOK, sessionVars
<1>1. IsExpired(s)' <=> IsExpired(s)
  BY Zenon DEF IsExpired, Occupied
<1>2. CASE code[s] = k /\ sessions[k] = s
  BY <1>1, <1>2, Zenon DEF Phase, RoomMove, Kept
<1>3. CASE code[s] # k \/ sessions[k] # s
  BY <1>3, PhaseKept, Zenon
<1>4. QED
  BY <1>2, <1>3, Zenon

\* DrainConnections: everybody is out, and the room is over.
LEMMA DrainIsDissolve ==
  ASSUME RoomsTypeOK, RoomsSound, NEW s \in Sessions, NEW x \in Sessions, code[x] # None,
         ~Registered(x), DrainConnections(x)
  PROVE  RoomMove(s)
<1> USE DEF RoomsTypeOK
<1>1. CASE x # s
  BY <1>1, PhaseKept, Zenon DEF DrainConnections, registryVars
<1>2. CASE x = s
  <2>1. Phase(s)' = "over" /\ Phase(s) \in {"ending", "over"}
    BY <1>2, Zenon DEF DrainConnections, Phase, Registered
  <2>2. conns'[s] = IF closed[s] THEN conns[s] ELSE Nobody
    BY <1>2, Zenon DEF DrainConnections, Nobody
  <2>3. CASE Phase(s) = "over"
    <3>1. conns[s] = Nobody
      BY <1>2, <2>3, EmptyIsNobody, Zenon DEF Phase, RoomsSound, IsExpired
    <3>2. QED
      BY <2>1, <2>2, <2>3, <3>1, Zenon DEF RoomMove, Kept
  <2>4. CASE Phase(s) = "ending"
    <3>1. ~closed[s]
      BY <2>4, Zenon DEF Phase
    <3>2. QED
      BY <2>1, <2>2, <2>4, <3>1, Zenon DEF RoomMove
  <2>5. QED
    BY <2>1, <2>3, <2>4, Zenon
<1>3. QED
  BY <1>1, <1>2, Zenon

\* CreateSessionWithCode: the new room opens; one it unregistered was over.
LEMMA CreateIsOpen ==
  ASSUME RoomsTypeOK, RoomsSound, NEW s \in Sessions, NEW x \in Sessions, NEW k \in Codes,
         NEW i \in IPs, NEW at \in Nat, CreateSessionWithCode(k, i, at, x)
  PROVE  RoomMove(s)
<1> USE RoomsAssumption DEF RoomsTypeOK
<1>0. s # None
  BY Zenon
<1>1. \A l \in Codes : sessions'[l] = IF l = k THEN x ELSE WithoutExpired[l]
  BY DEF CreateSessionWithCode, WithoutExpired
<1>2. CASE x # s
  <2>1. ~IsExpired(s) => \A l \in Codes : (sessions'[l] = s) <=> (sessions[l] = s)
    <3> SUFFICES ASSUME ~IsExpired(s), NEW l \in Codes PROVE (sessions'[l] = s) <=> (sessions[l] = s)
      BY Zenon
    <3>1. WithoutExpired[l] = s <=> sessions[l] = s
      BY <1>0, Zenon DEF WithoutExpired, ExpiredRooms
    <3>2. CASE l = k
      <4>1. sessions'[l] = x /\ WithoutExpired[l] = None
        BY <1>1, <3>2, Zenon DEF CreateSessionWithCode
      <4> QED
        BY <1>0, <1>2, <3>1, <4>1, Zenon
    <3>3. CASE l # k
      BY <1>1, <3>1, <3>3, Zenon
    <3> QED
      BY <3>2, <3>3, Zenon
  <2>2. QED
    BY <1>2, <2>1, PhaseKept, Zenon DEF CreateSessionWithCode
<1>3. CASE x = s
  <2>1. Phase(s) = "none" /\ Occupied(s) = {} /\ ~closed[s]
    BY <1>3, Zenon DEF CreateSessionWithCode, Phase, RoomsSound
  <2>2. code'[s] = k /\ closed' = closed /\ conns' = conns /\ now' = now
        /\ expiresAt'[s] = now + TTL
    BY <1>3, Zenon DEF CreateSessionWithCode
  <2>3. ~IsExpired(s)'
    <3>1. now \in Nat /\ TTL \in Nat \ {0}
      BY Zenon
    <3> HIDE DEF RoomsTypeOK
    <3>2. ~(now' >= expiresAt'[s])
      BY <2>2, <3>1
    <3>3. QED
      BY <3>2, Zenon DEF IsExpired
  <2>4. Phase(s)' = "open"
    BY ZenonT(30), <1>1, <1>3, <2>1, <2>2, <2>3 DEF Phase
  <2>5. QED
    BY ZenonT(30), <2>1, <2>2, <2>4, EmptyIsNobody DEF RoomMove
<1>4. QED
  BY <1>2, <1>3, Zenon

\* The sweep inside Create and sweepExpired unregisters rooms that are over.
LEMMA SweepIsKept ==
  ASSUME RoomsTypeOK, NEW s \in Sessions, sessions' = WithoutExpired,
         UNCHANGED <<now, sessionVars>>
  PROVE  RoomMove(s)
<1>1. ~IsExpired(s) => \A l \in Codes : (sessions'[l] = s) <=> (sessions[l] = s)
  BY RoomsAssumption, Zenon DEF WithoutExpired, ExpiredRooms
<1>2. QED
  BY <1>1, PhaseKept, Zenon DEF RoomsTypeOK, sessionVars

\* The clock: an empty room may expire; one with a participant does not.
LEMMA TickIsExpire ==
  ASSUME RoomsTypeOK, NEW s \in Sessions, now' = now + 1,
         UNCHANGED <<registryVars, sessionVars>>
  PROVE  RoomMove(s)
<1> USE DEF RoomsTypeOK, registryVars, sessionVars
<1>1. Occupied(s)' = Occupied(s)
  BY Zenon DEF Occupied
<1>2. IsExpired(s) => IsExpired(s)'
  <2>1. \A n, e \in Nat : n >= e => n + 1 >= e
    OBVIOUS
  <2>2. now \in Nat /\ expiresAt[s] \in Nat /\ expiresAt'[s] = expiresAt[s]
    BY Zenon
  <2> QED
    BY <1>1, <2>1, <2>2, Zenon DEF IsExpired
<1>3. CASE IsExpired(s)' /\ ~IsExpired(s)
  <2>1. conns[s] = Nobody
    BY ZenonT(30), <1>1, <1>3, EmptyIsNobody DEF IsExpired
  <2>2. QED
    BY <1>3, <2>1, Zenon DEF RoomMove, Kept, Alive, Phase
<1>4. CASE IsExpired(s)' <=> IsExpired(s)
  BY <1>4, Zenon DEF RoomMove, Kept, Phase
<1>5. QED
  BY <1>2, <1>3, <1>4, Zenon

\* Every critical section is a step of the room, or leaves it as it was.
LEMMA OneMove ==
  ASSUME RoomsTypeOK, RoomsTypeOK', RoomsSound, RoomStep, NEW s \in Sessions
  PROVE  RoomMove(s)
<1>1. CASE UNCHANGED roomVars
  BY <1>1, PhaseKept, Zenon DEF roomVars
<1>2. ASSUME NEW x \in Sessions, NEW k \in Codes, RemoveSession(k, x)
      PROVE  RoomMove(s)
  <2>1. CASE sessions[k] = x
    <3>1. sessions' = [sessions EXCEPT ![k] = None] /\ UNCHANGED <<now, sessionVars>>
      BY <1>2, <2>1, Zenon DEF RemoveSession
    <3>2. QED
      BY <3>1, UnregisterIsEnd, Zenon
  <2>2. CASE sessions[k] # x
    <3>1. sessions' = sessions /\ UNCHANGED <<now, sessionVars>>
      BY <1>2, <2>2, Zenon DEF RemoveSession, RoomsTypeOK
    <3>2. QED
      BY <3>1, PhaseKept, Zenon DEF sessionVars
  <2>3. QED
    BY <2>1, <2>2, Zenon
<1>3. ASSUME NEW x \in Sessions, code[x] # None, EndSession(x)
      PROVE  RoomMove(s)
  BY <1>3, UnregisterIsEnd, Zenon DEF EndSession, RoomsTypeOK
<1>4. ASSUME NEW k \in Codes, NEW at \in Nat, NEW i \in IPs,
             CreateTooMany(k, i, at)
      PROVE  RoomMove(s)
  BY <1>4, SweepIsKept, Zenon DEF CreateTooMany
<1>5. ASSUME NEW k \in Codes, NEW at \in Nat, CreateRefused(k, at) \/ CreateExists(k, at)
      PROVE  RoomMove(s)
  BY <1>5, SweepIsKept, Zenon DEF CreateRefused, CreateExists
<1>6. ASSUME NEW at \in Nat, sweepExpired(at)
      PROVE  RoomMove(s)
  BY <1>6, SweepIsKept, Zenon DEF sweepExpired
<1>7. QED
  BY Zenon, <1>1, <1>2, <1>3, <1>4, <1>5, <1>6, AddIsEnter, RemoveIsLeave, DrainIsDissolve,
     CreateIsOpen, TickIsExpire DEF RoomStep

\* The relay implements module Room for every session, whatever the numbers of
\* codes, sessions, slots and goroutines and however they interleave.
THEOREM Implementation == Spec => RoomImplemented
<1>1. Init => Abstract!Init
  BY Zenon DEF Init, RoomsInit, Abstract!Init, Abstract!Nobody, Phase
<1>2. ASSUME IInv, [Next]_vars
      PROVE  [Abstract!Next]_<<[s \in Sessions |-> Phase(s)], conns>>
  <2>1. RoomsTypeOK /\ RoomsTypeOK' /\ RoomsSound /\ RoomStep
    BY ZenonT(30), <1>2, OneRoomStep, RoomsTypeStep DEF IInv, TypeOK
  <2>2. ASSUME NEW s \in Sessions
        PROVE  Abstract!Step(s) \/ Abstract!Still(s)
    <3>1. RoomMove(s)
      BY <2>1, OneMove
    <3>2. QED
      BY <3>1, Zenon DEF RoomMove, Kept, Alive, Nobody, Occupied, Abstract!Step, Abstract!Still,
         Abstract!Open, Abstract!End, Abstract!Dissolve, Abstract!Expire, Abstract!Leave,
         Abstract!Enter, Abstract!Alive, Abstract!Present, Abstract!Nobody
  <2>3. [s \in Sessions |-> Phase(s)]' \in [Sessions -> Abstract!Phases]
    BY DEF Phase, Abstract!Phases
  <2>4. QED
    BY <2>1, <2>2, <2>3, Zenon DEF Abstract!Next, Abstract!Places, RoomsTypeOK
<1>3. QED
  BY <1>1, <1>2, Invariance, PTL DEF Spec, RoomImplemented, Abstract!Spec
=============================================================================

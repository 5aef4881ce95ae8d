----------------------- MODULE RelayConnectionProofs -----------------------
(***************************************************************************)
(* What the relay's connection goroutines promise their clients, for any   *)
(* number of them: addresses are accounted for, who is served takes part,  *)
(* participants are introduced, and frames are forwarded in order.         *)
(*                                                                         *)
(* Each property is strengthened to an invariant that is inductive given   *)
(* IInv, which RelayProofs establishes.                                    *)
(***************************************************************************)
EXTENDS RelayProofs

\* The connections counted for an address are finitely many, and connsByIP
\* holds their number.
Holders(i) == {c \in Conns : HoldsIP(c) /\ req[c].ip = i}

Counted == \A i \in IPs : IsFiniteSet(Holders(i)) /\ connsByIP[i] = Cardinality(Holders(i))

\* A connection that holds its slot; one that somebody is about to close.
Holds(c) == conns[session[c]][req[c].slot] = c

Ousted(c) ==
  \E d \in Conns : \/ pc[d] = "close_old" /\ replaced[d] = c
                   \/ pc[d] = "cut" /\ c \in drain[d]

\* An open attached connection has its slot until it is ousted, and only closed
\* ones reach DetachConnection.
Served ==
  \A c \in Conns : Attached(c) /\ ~connClosed[c] => pc[c] # "detach" /\ (Holds(c) \/ Ousted(c))

\* Of two participants a and b, a has been told of b, will tell itself, or will be
\* told by b, which is still attaching.
Told(a, b) == connClosed[a] \/ ToldOf(a, b)

Telling(a, b) == pc[a] \in {"close_old", "tell_peer", "tell_self"} /\ peer[a] = b

ToBeTold(a, b) == pc[b] \in {"close_old", "tell_peer"} /\ peer[b] = a

Introduced ==
  \A s \in Sessions, t, u \in Slots, a, b \in Conns :
    t # u /\ conns[s][t] = a /\ conns[s][u] = b
      => Told(a, b) \/ Telling(a, b) \/ ToBeTold(a, b)

\* The frames a connection was sent, written to its socket or not.
Log(c) == delivered[c] \o sendChan[c]

\* A goroutine's session is settled once GetSession has looked it up.
Settled(c) == pc[c] \notin {"new", "lookup"}

\* Frame f of c's log: from another connection of its room, and older than what
\* that connection is about to forward.
Fit(c, f) ==
  /\ f.from # c /\ session[f.from] = session[c] /\ Settled(f.from)
  /\ f.seq <= sent[f.from]
  /\ pc[f.from] = "relay" => f.seq < sent[f.from]

\* A goroutine is about to forward to another connection of its room.
Aims(c) ==
  pc[c] = "relay" => peer[c] # c /\ session[peer[c]] = session[c] /\ Settled(peer[c])

\* The frames of log g are fit for c and those of each sender in order.
InOrder(c, g) ==
  \A n \in 1..Len(g) :
    /\ Settled(c) /\ Fit(c, g[n])
    /\ \A m \in 1..(n - 1) : g[m].from = g[n].from => g[m].seq < g[n].seq

Relayed == \A c \in Conns : Aims(c) /\ \A g \in {Log(c)} : InOrder(c, g)

-----------------------------------------------------------------------------
(* What a step may change. *)

\* Nothing that concerns a connection changes.
Elsewhere ==
  /\ UNCHANGED <<attachVars, sockVars, connsByIP, conns>>
  /\ \A c \in Conns : pc'[c] = pc[c] /\ req'[c] = req[c] /\ session'[c] = session[c]

\* A step of goroutine c: it writes its own locals only, and requests, settled
\* sessions, closed flags and what was heard stay.
Moves(c) ==
  /\ \A d \in Conns \ {c} :
       /\ pc'[d] = pc[d] /\ req'[d] = req[d] /\ session'[d] = session[d]
       /\ peer'[d] = peer[d] /\ replaced'[d] = replaced[d] /\ drain'[d] = drain[d]
  /\ pc[c] # "new" => req'[c] = req[c]
  /\ Settled(c) => session'[c] = session[c]
  /\ \A d \in Conns : connClosed[d] => connClosed'[d]
  /\ \A d \in Conns : heard[d] \subseteq heard'[d]

\* HTTP requests, the sweeper and the clock leave the connections alone, and so
\* does the Close() of an expired session, which has none.
LEMMA ElsewhereStep ==
  ASSUME IInv,
         \/ \E h \in Https : Http(h)
         \/ \E s \in Sessions : CloseExpired(s)
         \/ SweepBegin \/ Sweep \/ Tick \/ UNCHANGED vars
  PROVE  Elsewhere
<1>1. RoomsTypeOK /\ GoroutinesTypeOK /\ RoomsSound /\ Held
  BY DEF IInv, TypeOK
<1> USE DEF attachVars, sockVars, dataVars, sweepVars
<1>2. ASSUME NEW h \in Https, Http(h) PROVE Elsewhere
  <2>1. /\ UNCHANGED <<attachVars, sockVars, connsByIP, conns>>
        /\ \E l \in HttpPc : Goto(h, l)
        /\ \E x : session' = [session EXCEPT ![h] = x] \/ session' = session
        /\ \E x : req' = [req EXCEPT ![h] = x] \/ req' = req
    <3>1. CASE CreateRoom(h)
      BY <3>1, Zenon DEF CreateRoom, roomVars, HttpPc
    <3>2. CASE DrawCode(h)
      BY <3>2, Zenon DEF DrawCode, roomVars, HttpPc
    <3>3. CASE CreateCommit(h)
      <4>1. UNCHANGED conns
        BY <3>3, Zenon DEF CreateCommit, CreateRefused, CreateExists, CreateTooMany,
                           CreateSessionWithCode, sessionVars
      <4>2. \E l \in HttpPc : Goto(h, l)
        BY <3>3, Zenon DEF CreateCommit, HttpPc
      <4>3. QED
        BY <3>3, <4>1, <4>2, Zenon DEF CreateCommit
    <3>4. CASE GetRoom(h)
      BY <3>4, Zenon DEF GetRoom, roomVars, HttpPc
    <3>5. CASE RoomInfo(h)
      <4>1. UNCHANGED conns
        BY <3>5, Zenon DEF RoomInfo, GetSession, roomVars, RemoveSession, sessionVars
      <4>2. \E l \in HttpPc : Goto(h, l)
        BY <3>5, Zenon DEF RoomInfo, GetSession, HttpPc
      <4>3. \E x : session' = [session EXCEPT ![h] = x] \/ session' = session
        BY <3>5, Zenon DEF RoomInfo, GetSession
      <4>4. QED
        BY <3>5, <4>1, <4>2, <4>3, Zenon DEF RoomInfo
    <3>6. CASE Answer(h)
      BY <3>6, Zenon DEF Answer, roomVars, HttpPc
    <3>7. QED
      BY <1>2, <3>1, <3>2, <3>3, <3>4, <3>5, <3>6, Zenon DEF Http
  <2>2. \A c \in Conns : c # h /\ c \in Procs
    BY RelayAssumption DEF Procs
  <2>3. QED
    BY <1>1, <2>1, <2>2, Zenon DEF Elsewhere, Goto, GoroutinesTypeOK
<1>3. ASSUME NEW s \in Sessions, CloseExpired(s) PROVE Elsewhere
  <2>1. Occupied(s) = {}
    BY <1>1, <1>3, Zenon DEF CloseExpired, Held, Gone, RoomsSound, IsExpired
  <2>2. Drained(s) = {}
    BY <2>1, Zenon DEF Drained, Connections
  <2>3. conns[s] = [t \in Slots |-> None]
    BY <1>1, <2>1, Zenon DEF Occupied, RoomsTypeOK
  <2>4. conns' = conns
    <3>1. conns' = conns \/ conns' = [conns EXCEPT ![s] = [t \in Slots |-> None]]
      BY <1>3, Zenon DEF CloseExpired, DrainConnections
    <3>2. [conns EXCEPT ![s] = conns[s]] = conns
      BY <1>1, Zenon DEF RoomsTypeOK
    <3>3. QED
      BY <2>3, <3>1, <3>2, Zenon
  <2>5. connClosed' = connClosed
    BY <1>1, <1>3, <2>2, Zenon DEF CloseExpired, Close, GoroutinesTypeOK
  <2>6. QED
    BY <1>3, <2>4, <2>5, Zenon DEF CloseExpired, Elsewhere
<1>4. CASE SweepBegin \/ Sweep \/ Tick \/ UNCHANGED vars
  BY <1>4, Zenon DEF SweepBegin, Sweep, Tick, vars, roomVars, sweepExpired, sessionVars, Elsewhere
<1>5. QED
  BY <1>2, <1>3, <1>4, Zenon

\* Closing connections clears no flag.
LEMMA CloseGrows ==
  ASSUME NEW C, Close(C), NEW d \in Conns
  PROVE  (connClosed[d] => connClosed'[d]) /\ (d \in C => connClosed'[d])
  BY Zenon DEF Close

\* A control frame reaches an open connection, and no connection unhears one.
LEMMA SendPriorityHeard ==
  ASSUME GoroutinesTypeOK, NEW c \in Conns, NEW e, NEW o, SendPriority(c, e, o), NEW d \in Conns
  PROVE  /\ heard[d] \subseteq heard'[d]
         /\ ~connClosed[c] => [event |-> e, of |-> o] \in heard'[c]
<1>1. heard = [a \in Conns |-> heard[a]]
  BY Zenon DEF GoroutinesTypeOK
<1> QED
  BY <1>1, Zenon DEF SendPriority

\* Nobody forgets whom it was told of.
LEMMA ToldStays ==
  ASSUME NEW c \in Conns, Moves(c), NEW a \in Conns, NEW b \in Conns, Told(a, b)
  PROVE  Told(a, b)'
  BY Zenon DEF Told, ToldOf, Moves

\* A connection goroutine writes its own locals only.
LEMMA MovesStep ==
  ASSUME IInv, NEW c \in Conns, Serve(c) \/ Client(c) \/ WriteLoop(c)
  PROVE  Moves(c)
<1>1. GoroutinesTypeOK /\ c \in Procs /\ \A d \in Conns : d \in Procs
  BY DEF IInv, TypeOK, Procs
<1>2. ConnLocals(c)
  BY DEF IInv, Locals
<1> USE DEF attachVars, sockVars, dataVars, sweepVars
<1>3. \A d \in Conns : connClosed[d] => connClosed'[d]
  <2>1. connClosed' = connClosed \/ \E C : Close(C)
    <3>1. CASE Serve(c)
      BY <3>1, Zenon DEF Serve, Reject, Abort, AttachLookup, AttachAdd, AttachRefused, CloseReplaced,
         TellPeer, TellSelf, Forward, EndTombstone, EndIgnored, EndDrain, EndCut, Return, Detach,
         DetachStale, TellGone, Release
    <3>2. CASE Client(c) \/ WriteLoop(c)
      BY <3>2, Zenon DEF Client, ServeHTTP, UpgradeFailed, Abort, ReadData, ReadFails, ReadSessionEnd,
         WriteFails, WriteLoop
    <3>3. QED
      BY <3>1, <3>2, Zenon
  <2>2. QED
    BY <2>1, CloseGrows, Zenon
<1>4. \A d \in Conns : heard[d] \subseteq heard'[d]
  <2>1. heard' = heard \/ \E a \in Conns : \E e, o : SendPriority(a, e, o)
    <3>1. CASE TellPeer(c) \/ TellSelf(c) \/ TellGone(c)
      <4>1. peer[c] \in Conns
        BY <1>2, <3>1, Zenon DEF ConnLocals, TellPeer, TellSelf, TellGone
      <4>2. QED
        BY <3>1, <4>1, Zenon DEF TellPeer, TellSelf, TellGone
    <3>2. CASE EndCut(c)
      <4>1. drain[c] \subseteq Conns
        BY <1>1, Zenon DEF GoroutinesTypeOK
      <4>2. QED
        BY <3>2, <4>1, Zenon DEF EndCut
    <3>3. CASE Serve(c) /\ ~(TellPeer(c) \/ TellSelf(c) \/ TellGone(c)) /\ ~EndCut(c)
      BY <3>3, Zenon DEF Serve, Reject, Abort, AttachLookup, AttachAdd, AttachRefused, CloseReplaced,
         Forward, EndTombstone, EndIgnored, EndDrain, Return, Detach, DetachStale, Release
    <3>4. CASE Client(c) \/ WriteLoop(c)
      BY <3>4, Zenon DEF Client, ServeHTTP, UpgradeFailed, Abort, ReadData, ReadFails, ReadSessionEnd,
         WriteFails, WriteLoop
    <3>5. QED
      BY <3>1, <3>2, <3>3, <3>4, Zenon
  <2>2. QED
    BY <1>1, <2>1, SendPriorityHeard, Zenon
<1>5. pc' = pc \/ \E l : pc' = [pc EXCEPT ![c] = l]
  <2>1. CASE Serve(c)
    BY <2>1, Zenon DEF Serve, Goto, Reject, Abort, AttachLookup, GetSession, AttachAdd, AttachRefused,
       CloseReplaced, TellPeer, TellSelf, Forward, EndTombstone, EndIgnored, EndDrain, EndCut, Return,
       Detach, DetachStale, TellGone, Release
  <2>2. CASE Client(c) \/ WriteLoop(c)
    BY <2>2, Zenon DEF Client, Goto, ServeHTTP, UpgradeFailed, Abort, ReadData, ReadFails,
       ReadSessionEnd, WriteFails, WriteLoop
  <2>3. QED
    BY <2>1, <2>2, Zenon
<1>6. req' = req \/ (pc[c] = "new" /\ \E r : req' = [req EXCEPT ![c] = r])
  <2>1. CASE Serve(c)
    BY <2>1, Zenon DEF Serve, Reject, Abort, AttachLookup, AttachAdd, AttachRefused, CloseReplaced,
       TellPeer, TellSelf, Forward, EndTombstone, EndIgnored, EndDrain, EndCut, Return, Detach,
       DetachStale, TellGone, Release
  <2>2. CASE Client(c) \/ WriteLoop(c)
    BY <2>2, Zenon DEF Client, ServeHTTP, UpgradeFailed, Abort, ReadData, ReadFails, ReadSessionEnd,
       WriteFails, WriteLoop
  <2>3. QED
    BY <2>1, <2>2, Zenon
<1>7. session' = session \/ (pc[c] = "lookup" /\ \E s : session' = [session EXCEPT ![c] = s])
  <2>1. CASE Serve(c)
    BY <2>1, Zenon DEF Serve, Reject, Abort, AttachLookup, GetSession, AttachAdd, AttachRefused,
       CloseReplaced, TellPeer, TellSelf, Forward, EndTombstone, EndIgnored, EndDrain, EndCut, Return,
       Detach, DetachStale, TellGone, Release
  <2>2. CASE Client(c) \/ WriteLoop(c)
    BY <2>2, Zenon DEF Client, ServeHTTP, UpgradeFailed, Abort, ReadData, ReadFails, ReadSessionEnd,
       WriteFails, WriteLoop
  <2>3. QED
    BY <2>1, <2>2, Zenon
<1>8. /\ peer' = peer \/ \E x : peer' = [peer EXCEPT ![c] = x]
      /\ replaced' = replaced \/ \E x : replaced' = [replaced EXCEPT ![c] = x]
      /\ drain' = drain \/ \E x : drain' = [drain EXCEPT ![c] = x]
  <2>1. CASE Serve(c)
    BY <2>1, Zenon DEF Serve, Reject, Abort, AttachLookup, AttachAdd, AttachRefused, CloseReplaced,
       TellPeer, TellSelf, Forward, EndTombstone, EndIgnored, EndDrain, EndCut, Return, Detach,
       DetachStale, TellGone, Release
  <2>2. CASE Client(c) \/ WriteLoop(c)
    BY <2>2, Zenon DEF Client, ServeHTTP, UpgradeFailed, Abort, ReadData, ReadFails, ReadSessionEnd,
       WriteFails, WriteLoop
  <2>3. QED
    BY <2>1, <2>2, Zenon
<1>9. ASSUME NEW d \in Conns \ {c}
      PROVE  /\ pc'[d] = pc[d] /\ req'[d] = req[d] /\ session'[d] = session[d]
             /\ peer'[d] = peer[d] /\ replaced'[d] = replaced[d] /\ drain'[d] = drain[d]
  BY <1>1, <1>5, <1>6, <1>7, <1>8, Zenon DEF GoroutinesTypeOK
<1>10. QED
  BY <1>3, <1>4, <1>6, <1>7, <1>9, Zenon DEF Moves, Settled

-----------------------------------------------------------------------------
(* Hub.connsByIP *)

\* The counter of an address is exact as long as no connection starts or stops
\* holding it.
LEMMA CountedFrame ==
  ASSUME Counted, connsByIP' = connsByIP,
         \A d \in Conns : HoldsIP(d)' = HoldsIP(d) /\ (HoldsIP(d) => req'[d] = req[d])
  PROVE  Counted'
<1>1. \A i \in IPs : Holders(i)' = Holders(i)
  BY DEF Holders
<1>2. QED
  BY <1>1, Zenon DEF Counted

\* reserveIP comes with one more holder.
LEMMA CountedReserve ==
  ASSUME IInv, Counted, NEW c \in Conns, NEW i \in IPs, reserveIP(i),
         ~HoldsIP(c), HoldsIP(c)', req'[c].ip = i,
         \A d \in Conns \ {c} : pc'[d] = pc[d] /\ req'[d] = req[d]
  PROVE  Counted'
<1> SUFFICES ASSUME NEW j \in IPs
             PROVE  IsFiniteSet(Holders(j)') /\ connsByIP'[j] = Cardinality(Holders(j)')
  BY Zenon DEF Counted
<1>1. connsByIP \in [IPs -> Nat] /\ connsByIP' = [connsByIP EXCEPT ![i] = @ + 1]
  BY Zenon DEF IInv, TypeOK, GoroutinesTypeOK, reserveIP
<1>2. IsFiniteSet(Holders(j)) /\ connsByIP[j] = Cardinality(Holders(j))
  BY DEF Counted
<1>3. CASE j = i
  <2>1. Holders(j)' = Holders(j) \cup {c} /\ c \notin Holders(j)
    BY <1>3, Zenon DEF Holders, HoldsIP
  <2>2. IsFiniteSet(Holders(j) \cup {c}) /\ Cardinality(Holders(j) \cup {c}) = Cardinality(Holders(j)) + 1
    BY <1>2, <2>1, FS_AddElement, Zenon
  <2>3. connsByIP'[j] = connsByIP[j] + 1
    BY <1>1, <1>3, Zenon
  <2>4. QED
    BY <1>2, <2>1, <2>2, <2>3, Zenon
<1>4. CASE j # i
  <2>1. Holders(j)' = Holders(j)
    BY <1>4, Zenon DEF Holders, HoldsIP
  <2>2. connsByIP'[j] = connsByIP[j]
    BY <1>1, <1>4, Zenon
  <2>3. QED
    BY <1>2, <2>1, <2>2, Zenon
<1>5. QED
  BY <1>3, <1>4, Zenon

\* releaseIP comes with one holder less: the counter was not zero.
LEMMA CountedRelease ==
  ASSUME IInv, Counted, NEW c \in Conns, HoldsIP(c), releaseIP(req[c].ip), req' = req,
         ~HoldsIP(c)', \A d \in Conns \ {c} : pc'[d] = pc[d]
  PROVE  Counted'
<1> SUFFICES ASSUME NEW j \in IPs
             PROVE  IsFiniteSet(Holders(j)') /\ connsByIP'[j] = Cardinality(Holders(j)')
  BY Zenon DEF Counted
<1> DEFINE i == req[c].ip
<1>1. connsByIP \in [IPs -> Nat] /\ connsByIP' = [connsByIP EXCEPT ![i] = IF @ <= 1 THEN 0 ELSE @ - 1]
  BY Zenon DEF IInv, TypeOK, GoroutinesTypeOK, releaseIP
<1>2. IsFiniteSet(Holders(j)) /\ connsByIP[j] = Cardinality(Holders(j))
  BY Zenon DEF Counted
<1>3. CASE j = i
  <2>1. Holders(j)' = Holders(j) \ {c} /\ c \in Holders(j)
    BY <1>3, Zenon DEF Holders, HoldsIP
  <2>2. IsFiniteSet(Holders(j) \ {c}) /\ Cardinality(Holders(j) \ {c}) = Cardinality(Holders(j)) - 1
    BY <1>2, <2>1, FS_RemoveElement, Zenon
  <2>3. Cardinality(Holders(j) \ {c}) \in Nat
    BY <2>2, FS_CardinalityType, Zenon
  <2>4. connsByIP'[j] = IF connsByIP[j] <= 1 THEN 0 ELSE connsByIP[j] - 1
    BY <1>1, <1>3, Zenon
  <2>5. QED
    BY <1>1, <1>2, <2>1, <2>2, <2>3, <2>4
<1>4. CASE j # i
  <2>1. Holders(j)' = Holders(j)
    BY <1>4, Zenon DEF Holders, HoldsIP
  <2>2. connsByIP'[j] = connsByIP[j]
    BY <1>1, <1>4, Zenon
  <2>3. QED
    BY <1>2, <2>1, <2>2, Zenon
<1>5. QED
  BY <1>3, <1>4, Zenon

\* Every step keeps the counters exact.
LEMMA CountedStep == IInv /\ Counted /\ [Next]_vars => Counted'
<1> SUFFICES ASSUME IInv, Counted, [Next]_vars PROVE Counted'
  OBVIOUS
<1>1. GoroutinesTypeOK /\ \A d \in Conns : d \in Procs
  BY DEF IInv, TypeOK, Procs
<1> USE DEF attachVars, sockVars, dataVars, sweepVars
<1>2. CASE Elsewhere
  BY <1>2, CountedFrame, Zenon DEF Elsewhere, HoldsIP
<1>3. ASSUME NEW c \in Conns, ServeHTTP(c) PROVE Counted'
  <2>1. Moves(c)
    BY <1>3, MovesStep, Zenon DEF Client
  <2>2. PICK k \in Codes, t \in Slots, i \in IPs :
          reserveIP(i) /\ req' = [req EXCEPT ![c] = [code |-> k, ip |-> i, slot |-> t]]
    BY <1>3, Zenon DEF ServeHTTP
  <2>3. req'[c].ip = i
    BY <1>1, <2>2, Zenon DEF GoroutinesTypeOK
  <2>4. ~HoldsIP(c) /\ HoldsIP(c)'
    BY <1>1, <1>3, Zenon DEF ServeHTTP, Goto, HoldsIP, GoroutinesTypeOK
  <2>5. QED
    BY <2>1, <2>2, <2>3, <2>4, CountedReserve, Zenon DEF Moves
<1>4. ASSUME NEW c \in Conns, Reject(c) \/ UpgradeFailed(c) \/ Release(c) PROVE Counted'
  <2>1. Moves(c)
    BY <1>4, MovesStep, Zenon DEF Client, Serve
  <2>2. req' = req /\ releaseIP(req[c].ip) /\ Goto(c, "done") /\ pc[c] \in {"lookup", "reject", "release"}
    BY <1>4, Zenon DEF Reject, UpgradeFailed, Release, Abort
  <2>3. HoldsIP(c) /\ ~HoldsIP(c)'
    BY <1>1, <2>2, Zenon DEF Goto, HoldsIP, GoroutinesTypeOK
  <2>4. QED
    BY <2>1, <2>2, <2>3, CountedRelease, Zenon DEF Moves
<1>5. ASSUME NEW c \in Conns, Serve(c) \/ Client(c) \/ WriteLoop(c),
             ~ServeHTTP(c), ~(Reject(c) \/ UpgradeFailed(c) \/ Release(c))
      PROVE  Counted'
  <2>1. Moves(c)
    BY <1>5, MovesStep, Zenon
  <2>2. UNCHANGED connsByIP
    <3>1. CASE Serve(c)
      BY <1>5, <3>1, Zenon DEF Serve, AttachLookup, AttachAdd, AttachRefused, CloseReplaced,
         TellPeer, TellSelf, Forward, EndTombstone, EndIgnored, EndDrain, EndCut, Return, Detach,
         DetachStale, TellGone
    <3>2. CASE Client(c) \/ WriteLoop(c)
      BY <1>5, <3>2, Zenon DEF Client, ReadData, ReadFails, ReadSessionEnd, WriteFails, WriteLoop
    <3>3. QED
      BY <1>5, <3>1, <3>2, Zenon
  <2>3. pc' = pc \/ (pc[c] \notin {"new", "done"} /\ \E l \in ConnPc \ {"new", "done"} : Goto(c, l))
    <3>1. CASE Serve(c)
      <4>1. pc[c] \notin {"new", "done"}
        BY <1>5, <3>1, Zenon DEF Serve, AttachLookup, GetSession, AttachAdd, AttachRefused, CloseReplaced,
           TellPeer, TellSelf, Forward, EndTombstone, EndIgnored, EndDrain, EndCut, Return, Detach,
           DetachStale, TellGone
      <4>2. CASE AttachAdd(c) \/ Detach(c)
        BY <4>1, <4>2, Zenon DEF AttachAdd, Detach, ConnPc
      <4>3. CASE AttachLookup(c)
        BY <4>1, <4>3, Zenon DEF AttachLookup, GetSession, ConnPc
      <4>4. CASE EndCut(c)
        BY <4>1, <4>4, Zenon DEF EndCut, ConnPc
      <4>5. CASE \/ AttachRefused(c) \/ CloseReplaced(c) \/ TellPeer(c) \/ TellSelf(c) \/ Forward(c)
                 \/ EndTombstone(c) \/ EndIgnored(c) \/ EndDrain(c) \/ Return(c) \/ DetachStale(c)
                 \/ TellGone(c)
        BY <4>1, <4>5, Zenon DEF AttachRefused, CloseReplaced, TellPeer, TellSelf, Forward, EndTombstone,
           EndIgnored, EndDrain, Return, DetachStale, TellGone, ConnPc
      <4>6. QED
        BY <1>5, <3>1, <4>2, <4>3, <4>4, <4>5, Zenon DEF Serve
    <3>2. CASE Client(c) \/ WriteLoop(c)
      <4>1. CASE WriteFails(c) \/ WriteLoop(c)
        BY <4>1, Zenon DEF WriteFails, WriteLoop
      <4>2. CASE ReadData(c) \/ ReadFails(c) \/ ReadSessionEnd(c)
        <5>1. pc[c] = "read"
          BY <4>2, Zenon DEF ReadData, ReadFails, ReadSessionEnd
        <5>2. \E l \in ConnPc \ {"new", "done"} : Goto(c, l)
          BY <4>2, Zenon DEF ReadData, ReadFails, ReadSessionEnd, ConnPc
        <5>3. QED
          BY <5>1, <5>2, Zenon
      <4>3. QED
        BY <1>5, <3>2, <4>1, <4>2, Zenon DEF Client
    <3>3. QED
      BY <1>5, <3>1, <3>2, Zenon
  <2>4. HoldsIP(c)' = HoldsIP(c)
    BY <1>1, <2>3, Zenon DEF Goto, HoldsIP, GoroutinesTypeOK
  <2>5. \A d \in Conns : HoldsIP(d)' = HoldsIP(d) /\ (HoldsIP(d) => req'[d] = req[d])
    BY <2>1, <2>4, Zenon DEF Moves, HoldsIP
  <2>6. QED
    BY <2>2, <2>5, CountedFrame, Zenon
<1>6. QED
  BY <1>2, <1>3, <1>4, <1>5, ElsewhereStep, Zenon DEF Next

\* Hub.connsByIP counts exactly the connections between reserveIP and
\* releaseIP, on every path through ServeHTTP and whatever runs in between.
THEOREM AddressesAccounted == Spec => []IPAccounting
<1>1. Init => Counted
  <2> SUFFICES ASSUME Init, NEW i \in IPs
               PROVE  IsFiniteSet(Holders(i)) /\ connsByIP[i] = Cardinality(Holders(i))
    BY Zenon DEF Counted
  <2>1. Holders(i) = {}
    BY DEF Init, GoroutinesInit, Holders, HoldsIP, Procs
  <2>2. connsByIP[i] = 0
    BY DEF Init, GoroutinesInit
  <2>3. QED
    BY <2>1, <2>2, FS_EmptySet, Zenon
<1>2. Counted => IPAccounting
  BY Zenon DEF Counted, IPAccounting, Holders
<1>3. QED
  BY <1>1, <1>2, CountedStep, Invariance, PTL DEF Spec

-----------------------------------------------------------------------------
(* Who is served takes part. *)

\* No duty of c to close a connection ends.
KeepsDuties(c) ==
  pc[c] \in {"close_old", "cut"} =>
    pc'[c] = pc[c] /\ replaced'[c] = replaced[c] /\ drain'[c] = drain[c]

\* c does not become attached, nor reaches DetachConnection while open.
KeepsPlace(c) ==
  Attached(c)' => Attached(c) /\ (pc'[c] = "detach" => pc[c] = "detach" \/ connClosed'[c])

\* A step of c that takes no connection out of a room and ends no duty to close
\* one keeps Served, unless it attaches c or sends it to detach while open.
LEMMA ServedFrame ==
  ASSUME IInv, Served, NEW c \in Conns, Moves(c), conns' = conns,
         KeepsDuties(c), KeepsPlace(c)
  PROVE  Served'
<1> SUFFICES ASSUME NEW d \in Conns, Attached(d)', ~connClosed'[d]
             PROVE  pc'[d] # "detach" /\ (Holds(d)' \/ Ousted(d)')
  BY Zenon DEF Served
<1>1. Attached(d) /\ ~connClosed[d] /\ (pc'[d] = "detach" => pc[d] = "detach")
  BY Zenon DEF Moves, Attached, KeepsPlace
<1>2. pc[d] # "detach" /\ (Holds(d) \/ Ousted(d))
  BY <1>1, Zenon DEF Served
<1>3. req'[d] = req[d] /\ session'[d] = session[d]
  <2>1. pc[d] # "new" /\ Settled(d)
    BY <1>1, Zenon DEF Attached, AttachedPc, Settled
  <2>2. QED
    BY <2>1, Zenon DEF Moves
<1>4. Holds(d) => Holds(d)'
  BY <1>3, Zenon DEF Holds
<1>5. Ousted(d) => Ousted(d)'
  BY DEF Ousted, Moves, KeepsDuties
<1>6. QED
  BY <1>1, <1>2, <1>4, <1>5, Zenon

\* AddConnection gives c its slot; the connection it had before is c's to close.
LEMMA ServedAdd ==
  ASSUME IInv, Served, NEW c \in Conns, AttachAdd(c), Moves(c)
  PROVE  Served'
<1> DEFINE s == session[c]
           t == req[c].slot
<1>1. s \in Sessions /\ t \in Slots /\ pc[c] = "add" /\ c \in Procs
  BY Zenon DEF AttachAdd, IInv, Locals, ConnLocals, Procs
<1>2. conns \in [Sessions -> [Slots -> Conns \cup {None}]] /\ GoroutinesTypeOK /\ NoGhostParticipant
  BY DEF IInv, TypeOK, RoomsTypeOK
<1>3. conns' = [conns EXCEPT ![s][t] = c] /\ replaced' = [replaced EXCEPT ![c] = conns[s][t]]
  BY Zenon DEF AttachAdd, AddConnection
<1>4. conns[s][t] # None => pc'[c] = "close_old" /\ replaced'[c] = conns[s][t]
  BY <1>1, <1>2, <1>3, Zenon DEF AttachAdd, Goto, GoroutinesTypeOK
<1>5. pc'[c] # "detach" /\ session'[c] = s /\ req'[c] = req[c]
  <2>1. pc'[c] # "detach"
    BY <1>1, <1>2, Zenon DEF AttachAdd, Goto, GoroutinesTypeOK
  <2>2. QED
    BY <2>1, Zenon DEF AttachAdd
<1>6. conns'[s][t] = c
  BY <1>1, <1>2, <1>3, Zenon
<1>7. ASSUME NEW d \in Conns, d # c, Attached(d)', ~connClosed'[d]
      PROVE  pc'[d] # "detach" /\ (Holds(d)' \/ Ousted(d)')
  <2>1. pc'[d] = pc[d] /\ session'[d] = session[d] /\ req'[d] = req[d] /\ ~connClosed[d]
    BY <1>7, Zenon DEF Moves
  <2>2. Attached(d)
    BY <1>7, <2>1, Zenon DEF Attached
  <2>3. pc[d] # "detach" /\ (Holds(d) \/ Ousted(d))
    BY <2>1, <2>2, Zenon DEF Served
  <2>4. session[d] \in Sessions /\ req[d].slot \in Slots
    <3>1. pc[d] # "new" /\ ConnLocals(d)
      BY <2>2, Zenon DEF IInv, Locals, Attached, AttachedPc
    <3>2. QED
      BY <2>2, <3>1, Zenon DEF ConnLocals
  <2>5. CASE Holds(d)
    <3>1. CASE session[d] = s /\ req[d].slot = t
      <4>1. conns[s][t] = d /\ d # None
        BY <2>5, <3>1, RoomsAssumption, Zenon DEF Holds
      <4>2. pc'[c] = "close_old" /\ replaced'[c] = d
        BY <1>4, <4>1, Zenon
      <4>3. QED
        BY <2>1, <2>3, <4>2, Zenon DEF Ousted
    <3>2. CASE ~(session[d] = s /\ req[d].slot = t)
      <4>1. conns'[session[d]][req[d].slot] = conns[session[d]][req[d].slot]
        BY <1>1, <1>2, <1>3, <2>4, <3>2, Zenon
      <4>2. QED
        BY <2>1, <2>3, <2>5, <4>1, Zenon DEF Holds
    <3>3. QED
      BY <3>1, <3>2, Zenon
  <2>6. CASE Ousted(d)
    <3>1. Ousted(d)'
      BY <1>1, <2>6, Zenon DEF Ousted, Moves
    <3>2. QED
      BY <2>1, <2>3, <3>1, Zenon
  <2>7. QED
    BY <2>3, <2>5, <2>6, Zenon
<1>8. Holds(c)'
  BY <1>5, <1>6, Zenon DEF Holds
<1>9. QED
  BY <1>5, <1>7, <1>8, Zenon DEF Served

\* Whom CloseReplaced or EndCut strikes off, it closes.
LEMMA ServedClose ==
  ASSUME IInv, Served, NEW c \in Conns, CloseReplaced(c) \/ EndCut(c), Moves(c)
  PROVE  Served'
<1> SUFFICES ASSUME NEW d \in Conns, Attached(d)', ~connClosed'[d]
             PROVE  pc'[d] # "detach" /\ (Holds(d)' \/ Ousted(d)')
  BY Zenon DEF Served
<1>1. GoroutinesTypeOK /\ c \in Procs
  BY DEF IInv, TypeOK, Procs
<1>2. conns' = conns /\ session' = session /\ req' = req /\ Attached(c)
  BY Zenon DEF CloseReplaced, EndCut, roomVars, Attached, AttachedPc
<1>3. pc'[c] # "detach"
  BY <1>1, Zenon DEF CloseReplaced, EndCut, Goto, GoroutinesTypeOK
<1>4. Attached(d) /\ ~connClosed[d] /\ (pc'[d] = "detach" => pc[d] = "detach")
  BY <1>2, <1>3, Zenon DEF Moves, Attached
<1>5. pc[d] # "detach" /\ (Holds(d) \/ Ousted(d))
  BY <1>4, Zenon DEF Served
<1>6. Holds(d) => Holds(d)'
  BY <1>2, Zenon DEF Holds
<1>7. ASSUME Ousted(d) PROVE Ousted(d)'
  <2>1. PICK e \in Conns : \/ pc[e] = "close_old" /\ replaced[e] = d
                           \/ pc[e] = "cut" /\ d \in drain[e]
    BY <1>7, Zenon DEF Ousted
  <2>2. CASE e # c
    BY <2>1, <2>2, Zenon DEF Ousted, Moves
  <2>3. CASE e = c /\ CloseReplaced(c)
    <3>1. replaced[c] = d
      BY <2>1, <2>3, Zenon DEF CloseReplaced
    <3>2. connClosed'[d]
      BY <2>3, <3>1, CloseGrows, Zenon DEF CloseReplaced
    <3>3. QED
      BY <3>2, Zenon
  <2>4. CASE e = c /\ EndCut(c)
    <3>1. pc[c] = "cut" /\ d \in drain[c]
      BY <2>1, <2>4, Zenon DEF EndCut
    <3>2. PICK x \in drain[c] : Close({x}) /\ drain' = [drain EXCEPT ![c] = @ \ {x}] /\ pc' = pc
      BY <2>4, <3>1, Zenon DEF EndCut
    <3>3. x # d
      BY <3>2, CloseGrows, Zenon
    <3>4. d \in drain'[c] /\ pc'[c] = "cut"
      BY <1>1, <3>1, <3>2, <3>3, Zenon DEF GoroutinesTypeOK
    <3>5. QED
      BY <3>4, Zenon DEF Ousted
  <2>5. QED
    BY <2>2, <2>3, <2>4, Zenon
<1>8. QED
  BY <1>4, <1>5, <1>6, <1>7, Zenon

\* DrainConnections turns every participant into one that c is about to close.
LEMMA ServedDrain ==
  ASSUME IInv, Served, NEW c \in Conns, EndDrain(c), Moves(c)
  PROVE  Served'
<1> DEFINE s == session[c]
<1> SUFFICES ASSUME NEW d \in Conns, Attached(d)', ~connClosed'[d]
             PROVE  pc'[d] # "detach" /\ (Holds(d)' \/ Ousted(d)')
  BY Zenon DEF Served
<1>1. GoroutinesTypeOK /\ c \in Procs /\ conns \in [Sessions -> [Slots -> Conns \cup {None}]]
  BY DEF IInv, TypeOK, RoomsTypeOK, Procs
<1>2. /\ session' = session /\ req' = req /\ pc[c] = "drain" /\ pc'[c] = "cut"
      /\ drain'[c] = Drained(s)
  BY <1>1, Zenon DEF EndDrain, Goto, GoroutinesTypeOK
<1>3. conns' = IF closed[s] THEN conns ELSE [conns EXCEPT ![s] = [t \in Slots |-> None]]
  BY Zenon DEF EndDrain, DrainConnections
<1>4. Attached(d) /\ ~connClosed[d] /\ (pc'[d] = "detach" => pc[d] = "detach")
  <2>1. connClosed' = connClosed
    BY Zenon DEF EndDrain, sockVars
  <2>2. QED
    BY <1>2, <2>1, Zenon DEF Moves, Attached, AttachedPc
<1>5. pc[d] # "detach" /\ (Holds(d) \/ Ousted(d))
  BY <1>4, Zenon DEF Served
<1>6. Ousted(d) => Ousted(d)'
  BY <1>2, Zenon DEF Ousted, Moves
<1>7. ASSUME Holds(d) PROVE Holds(d)' \/ Ousted(d)'
  <2>1. session[d] \in Sessions /\ req[d].slot \in Slots
    <3>1. pc[d] # "new" /\ ConnLocals(d)
      BY <1>4, Zenon DEF IInv, Locals, Attached, AttachedPc
    <3>2. QED
      BY <1>4, <3>1, Zenon DEF ConnLocals
  <2>2. CASE closed[s]
    BY <1>2, <1>3, <1>7, <2>2, Zenon DEF Holds
  <2>3. CASE ~closed[s] /\ session[d] # s
    <3>1. conns'[session[d]] = conns[session[d]]
      BY <1>1, <1>3, <2>1, <2>3, Zenon
    <3>2. QED
      BY <1>2, <1>7, <3>1, Zenon DEF Holds
  <2>4. CASE ~closed[s] /\ session[d] = s
    <3>1. d \in Drained(s)
      BY <1>7, <2>1, <2>4, RoomsAssumption, Zenon DEF Holds, Drained, Connections, Occupied
    <3>2. QED
      BY <1>2, <3>1, Zenon DEF Ousted
  <2>5. QED
    BY <2>2, <2>3, <2>4, Zenon
<1>8. QED
  BY <1>4, <1>5, <1>6, <1>7, Zenon

\* DetachConnection frees the slot of the connection that detaches and of no
\* other.
LEMMA ServedDetach ==
  ASSUME IInv, Served, NEW c \in Conns, Detach(c), Moves(c)
  PROVE  Served'
<1> DEFINE s == session[c]
           t == req[c].slot
<1> SUFFICES ASSUME NEW d \in Conns, Attached(d)', ~connClosed'[d]
             PROVE  pc'[d] # "detach" /\ (Holds(d)' \/ Ousted(d)')
  BY Zenon DEF Served
<1>1. s \in Sessions /\ t \in Slots /\ pc[c] = "detach" /\ c \in Procs
  BY Zenon DEF Detach, IInv, Locals, ConnLocals, Procs, Attached, AttachedPc
<1>2. GoroutinesTypeOK /\ conns \in [Sessions -> [Slots -> Conns \cup {None}]]
  BY DEF IInv, TypeOK, RoomsTypeOK
<1>3. conns[s][t] = c /\ conns' = [conns EXCEPT ![s][t] = None]
  BY Zenon DEF Detach, RemoveConnection, CanRemove
<1>4. d # c
  <2>1. pc'[c] \in {"release", "tell_gone"}
    BY <1>1, <1>2, Zenon DEF Detach, Goto, GoroutinesTypeOK
  <2>2. QED
    BY <2>1 DEF Attached, AttachedPc
<1>5. pc'[d] = pc[d] /\ session'[d] = session[d] /\ req'[d] = req[d] /\ ~connClosed[d]
  BY <1>4, Zenon DEF Moves
<1>6. Attached(d)
  BY <1>5 DEF Attached
<1>7. pc[d] # "detach" /\ (Holds(d) \/ Ousted(d))
  BY <1>5, <1>6, Zenon DEF Served
<1>8. Ousted(d) => Ousted(d)'
  BY <1>1, Zenon DEF Ousted, Moves
<1>9. ASSUME Holds(d) PROVE Holds(d)'
  <2>1. session[d] \in Sessions /\ req[d].slot \in Slots
    <3>1. pc[d] # "new" /\ ConnLocals(d)
      BY <1>6, Zenon DEF IInv, Locals, Attached, AttachedPc
    <3>2. QED
      BY <1>6, <3>1, Zenon DEF ConnLocals
  <2>2. ~(session[d] = s /\ req[d].slot = t)
    BY <1>3, <1>4, <1>9, Zenon DEF Holds
  <2>3. conns'[session[d]][req[d].slot] = conns[session[d]][req[d].slot]
    BY <1>1, <1>2, <1>3, <2>1, <2>2, Zenon
  <2>4. QED
    BY <1>5, <1>9, <2>3, Zenon DEF Holds
<1>10. QED
  BY <1>5, <1>7, <1>8, <1>9, Zenon

\* Every step keeps who is served among the participants.
LEMMA ServedStep == IInv /\ Served /\ [Next]_vars => Served'
<1> SUFFICES ASSUME IInv, Served, [Next]_vars PROVE Served'
  OBVIOUS
<1>1. GoroutinesTypeOK /\ \A d \in Conns : d \in Procs
  BY DEF IInv, TypeOK, Procs
<1> USE DEF attachVars, sockVars, dataVars, sweepVars
<1>2. CASE Elsewhere
  <2>1. ASSUME NEW d \in Conns
        PROVE  /\ Attached(d)' <=> Attached(d)
               /\ Holds(d)' <=> Holds(d)
               /\ Ousted(d)' <=> Ousted(d)
    BY <1>2, Zenon DEF Elsewhere, Attached, Holds, Ousted
  <2>2. QED
    BY <1>2, <2>1, Zenon DEF Elsewhere, Served
<1>3. ASSUME NEW c \in Conns, Serve(c) \/ Client(c) \/ WriteLoop(c) PROVE Served'
  <2>1. Moves(c)
    BY <1>3, MovesStep, Zenon
  <2>2. CASE AttachAdd(c)
    BY <2>1, <2>2, ServedAdd, Zenon
  <2>3. CASE CloseReplaced(c) \/ EndCut(c)
    BY <2>1, <2>3, ServedClose, Zenon
  <2>4. CASE EndDrain(c)
    BY <2>1, <2>4, ServedDrain, Zenon
  <2>5. CASE Detach(c)
    BY <2>1, <2>5, ServedDetach, Zenon
  <2>6. CASE Return(c)
    <3>1. conns' = conns /\ pc[c] = "return" /\ Close({c})
      BY <2>6, Zenon DEF Return, roomVars
    <3>2. connClosed'[c] /\ Attached(c)
      BY <3>1, CloseGrows, Zenon DEF Attached, AttachedPc
    <3>3. KeepsDuties(c) /\ KeepsPlace(c)
      BY <3>1, <3>2, Zenon DEF KeepsDuties, KeepsPlace
    <3>4. QED
      BY <2>1, <3>1, <3>3, ServedFrame, Zenon
  <2>7. CASE Reject(c) \/ AttachLookup(c) \/ AttachRefused(c) \/ DetachStale(c) \/ TellGone(c) \/ Release(c)
             \/ ServeHTTP(c) \/ UpgradeFailed(c)
    <3>1. conns' = conns
      BY <2>7, Zenon DEF Reject, Abort, AttachLookup, GetSession, RemoveSession, sessionVars, AttachRefused,
         DetachStale, TellGone, Release, ServeHTTP, UpgradeFailed, roomVars
    <3>2. pc[c] \notin {"close_old", "cut"}
      BY <2>7, Zenon DEF Reject, AttachLookup, GetSession, AttachRefused, DetachStale, TellGone, Release,
         ServeHTTP, UpgradeFailed
    <3>3. \E l \in {"done", "check", "remove", "add", "reject", "lookup", "release"} : Goto(c, l)
      BY <2>7, Zenon DEF Reject, Abort, AttachLookup, GetSession, AttachRefused, DetachStale, TellGone,
         Release, ServeHTTP, UpgradeFailed
    <3>4. ~Attached(c)'
      BY <1>1, <3>3, Zenon DEF Goto, GoroutinesTypeOK, Attached, AttachedPc
    <3>5. KeepsDuties(c) /\ KeepsPlace(c)
      BY <3>2, <3>4, Zenon DEF KeepsDuties, KeepsPlace
    <3>6. QED
      BY <2>1, <3>1, <3>5, ServedFrame, Zenon
  <2>8. CASE TellPeer(c) \/ TellSelf(c) \/ Forward(c) \/ EndTombstone(c) \/ EndIgnored(c)
             \/ ReadData(c) \/ ReadFails(c) \/ ReadSessionEnd(c)
    <3>1. conns' = conns
      BY <2>8, Zenon DEF TellPeer, TellSelf, Forward, EndTombstone, EndSession, sessionVars, EndIgnored,
         ReadData, ReadFails, ReadSessionEnd, roomVars
    <3>2. pc[c] \in {"tell_peer", "tell_self", "relay", "end", "read"}
      BY <2>8, Zenon DEF TellPeer, TellSelf, Forward, EndTombstone, EndIgnored, ReadData, ReadFails, ReadSessionEnd
    <3>3. \E l \in {"tell_self", "read", "drain", "return", "relay", "end"} : Goto(c, l)
      BY <2>8, Zenon DEF TellPeer, TellSelf, Forward, EndTombstone, EndIgnored, ReadData, ReadFails,
         ReadSessionEnd
    <3>4. pc'[c] # "detach" /\ Attached(c) /\ pc[c] \notin {"close_old", "cut"}
      BY <1>1, <3>2, <3>3, Zenon DEF Goto, GoroutinesTypeOK, Attached, AttachedPc
    <3>5. KeepsDuties(c) /\ KeepsPlace(c)
      BY <3>4, Zenon DEF KeepsDuties, KeepsPlace
    <3>6. QED
      BY <2>1, <3>1, <3>5, ServedFrame, Zenon
  <2>9. CASE WriteFails(c) \/ WriteLoop(c)
    <3>1. conns' = conns /\ pc' = pc /\ replaced' = replaced /\ drain' = drain
      BY <2>9, Zenon DEF WriteFails, WriteLoop, roomVars
    <3>2. Attached(c)' <=> Attached(c)
      BY <3>1, Zenon DEF Attached
    <3>3. KeepsDuties(c) /\ KeepsPlace(c)
      BY <3>1, <3>2, Zenon DEF KeepsDuties, KeepsPlace
    <3>4. QED
      BY <2>1, <3>1, <3>3, ServedFrame, Zenon
  <2>10. QED
    BY <1>3, <2>2, <2>3, <2>4, <2>5, <2>6, <2>7, <2>8, <2>9, Zenon DEF Serve, Client
<1>4. QED
  BY <1>2, <1>3, ElsewhereStep, Zenon DEF Next

\* An open socket that readLoop serves belongs to the participant that holds its
\* slot, or the goroutine that replaced or drained it is about to close it: no
\* stale DetachConnection takes a slot from a live connection.
THEOREM ServedTakesPart == Spec => []ServedIsParticipant
<1>1. Init => Served
  BY Zenon DEF Init, GoroutinesInit, Served, Attached, AttachedPc, Procs
<1>2. Served => ServedIsParticipant
  BY DEF Served, ServedIsParticipant, Attached, AttachedPc, Holds, Ousted
<1>3. QED
  BY <1>1, <1>2, ServedStep, Invariance, PTL DEF Spec

-----------------------------------------------------------------------------
(* Participants are introduced. *)

\* Introductions due stay due, and those made stay made, in every step but the
\* ones that make them.
LEMMA IntroducedFrame ==
  ASSUME Introduced,
         \A s \in Sessions, t \in Slots : conns'[s][t] \in {None, conns[s][t]},
         \A d, e \in Conns : Told(d, e) => Told(d, e)',
         \A d \in Conns : pc[d] \in {"close_old", "tell_peer", "tell_self"} =>
                            pc'[d] = pc[d] /\ peer'[d] = peer[d]
  PROVE  Introduced'
<1> SUFFICES ASSUME NEW s \in Sessions, NEW t \in Slots, NEW u \in Slots,
                    NEW a \in Conns, NEW b \in Conns,
                    t # u, conns'[s][t] = a, conns'[s][u] = b
             PROVE  Told(a, b)' \/ Telling(a, b)' \/ ToBeTold(a, b)'
  BY SMT DEF Introduced
<1>1. conns[s][t] = a /\ conns[s][u] = b
  BY RoomsAssumption, Zenon
<1>2. Told(a, b) \/ Telling(a, b) \/ ToBeTold(a, b)
  BY <1>1, Zenon DEF Introduced
<1>3. Told(a, b) => Told(a, b)'
  BY Zenon
<1>4. Telling(a, b) => Telling(a, b)'
  BY Zenon DEF Telling
<1>5. ToBeTold(a, b) => ToBeTold(a, b)'
  BY Zenon DEF ToBeTold
<1>6. QED
  BY <1>2, <1>3, <1>4, <1>5, Zenon

\* Three different things are three.
LEMMA Three ==
  ASSUME NEW x, NEW y, NEW z, x # y, x # z, y # z
  PROVE  IsFiniteSet({x, y, z}) /\ Cardinality({x, y, z}) = 3
<1>1. PICK A : A = {x}
  BY Zenon
<1>2. PICK B : B = A \cup {y}
  BY Zenon
<1>3. IsFiniteSet(A) /\ Cardinality(A) = 1
  BY <1>1, FS_Singleton, Zenon
<1>4. y \notin A /\ z \notin B
  BY <1>1, <1>2, Zenon
<1>5. IsFiniteSet(B) /\ Cardinality(B) = 2
  BY <1>2, <1>3, <1>4, FS_AddElement
<1>6. IsFiniteSet(B \cup {z}) /\ Cardinality(B \cup {z}) = 3
  BY <1>4, <1>5, FS_AddElement
<1>7. B \cup {z} = {x, y, z}
  BY <1>1, <1>2, Zenon
<1>8. QED
  BY <1>6, <1>7, Zenon

\* Who attaches to an occupied room is about to introduce itself, and the only
\* peer it can have found is the one it is about to tell.
LEMMA IntroducedAdd ==
  ASSUME IInv, IInv', Introduced, NEW c \in Conns, AttachAdd(c), Moves(c)
  PROVE  Introduced'
<1> SUFFICES ASSUME NEW s \in Sessions, NEW t \in Slots, NEW u \in Slots,
                    NEW a \in Conns, NEW b \in Conns,
                    t # u, conns'[s][t] = a, conns'[s][u] = b
             PROVE  Told(a, b)' \/ Telling(a, b)' \/ ToBeTold(a, b)'
  BY Zenon DEF Introduced
<1>0. session[c] \in Sessions /\ req[c].slot \in Slots /\ pc[c] = "add" /\ c \in Procs
  BY Zenon DEF AttachAdd, IInv, Locals, ConnLocals, Procs
<1>1. PICK r \in Sessions, v \in Slots : r = session[c] /\ v = req[c].slot /\ pc[c] = "add" /\ c \in Procs
  BY <1>0, Zenon
<1>2. conns \in [Sessions -> [Slots -> Conns \cup {None}]] /\ GoroutinesTypeOK
  BY DEF IInv, TypeOK, RoomsTypeOK
<1>3. conns' = [conns EXCEPT ![r][v] = c] /\ session' = session
  BY <1>1, Zenon DEF AttachAdd, AddConnection
<1>4. CASE s # r \/ (t # v /\ u # v)
  <2>1. conns[s][t] = a /\ conns[s][u] = b
    BY <1>1, <1>2, <1>3, <1>4, Zenon
  <2>2. Told(a, b) \/ Telling(a, b) \/ ToBeTold(a, b)
    BY <2>1, Zenon DEF Introduced
  <2>3. Told(a, b) => Told(a, b)'
    BY ToldStays, Zenon
  <2>4. Telling(a, b) => Telling(a, b)'
    BY <1>1, Zenon DEF Telling, Moves
  <2>5. ToBeTold(a, b) => ToBeTold(a, b)'
    BY <1>1, Zenon DEF ToBeTold, Moves
  <2>6. QED
    BY <2>2, <2>3, <2>4, <2>5, Zenon
<1>5. ASSUME s = r, NEW w \in Slots, w # v, NEW d \in Conns, conns'[r][w] = d
      PROVE  pc'[c] \in {"close_old", "tell_peer"} /\ peer'[c] = d
  <2>1. PICK x \in OneOf(OtherConns(r, v)) :
          /\ peer' = [peer EXCEPT ![c] = x]
          /\ Goto(c, IF conns[r][v] # None THEN "close_old" ELSE IF x # None THEN "tell_peer" ELSE "read")
    BY <1>1, Zenon DEF AttachAdd
  <2>2. peer'[c] = x /\ (x # None => pc'[c] \in {"close_old", "tell_peer"})
    BY <1>1, <1>2, <2>1, Zenon DEF Goto, GoroutinesTypeOK
  <2>3. conns'[r][v] = c /\ \A z \in Slots \ {v} : conns'[r][z] = conns[r][z]
    BY <1>1, <1>2, <1>3, Zenon
  <2>4. d # None /\ c # None
    BY RoomsAssumption, Zenon
  <2>5. d \in OtherConns(r, v)
    BY <1>1, <1>2, <1>5, <2>3, <2>4 DEF OtherConns, Occupied
  <2>6. OtherConns(r, v) # {}
    BY <2>5, Zenon
  <2>7. x \in OtherConns(r, v)
    BY <2>6, Zenon DEF OneOf
  <2>8. PICK z \in Slots : z # v /\ conns[r][z] = x /\ x # None
    BY <2>7, Zenon DEF OtherConns, Occupied
  <2>9. z = w
    <3>1. SUFFICES ASSUME z # w PROVE FALSE
      OBVIOUS
    <3>2. IsFiniteSet(Occupied(r)') /\ Cardinality(Occupied(r)') <= 2
      BY <1>1, Zenon DEF IInv, RoomsSound
    <3>3. {v, z, w} \subseteq Occupied(r)'
      BY <1>1, <1>5, <2>3, <2>4, <2>8, ZenonT(30) DEF Occupied
    <3>4. IsFiniteSet({v, z, w}) /\ Cardinality({v, z, w}) <= Cardinality(Occupied(r)')
      BY <3>2, <3>3, FS_Subset, Zenon
    <3>5. Cardinality({v, z, w}) \in Nat /\ Cardinality(Occupied(r)') \in Nat
      BY <3>2, <3>4, FS_CardinalityType, Zenon
    <3>6. Cardinality({v, z, w}) = 3
      BY <1>5, <2>8, <3>1, Three, Zenon
    <3>7. QED
      BY <3>2, <3>4, <3>5, <3>6
  <2>10. x = d
    BY <1>5, <2>3, <2>8, <2>9, Zenon
  <2>11. QED
    BY <2>2, <2>4, <2>10, Zenon
<1>6. CASE s = r /\ t = v
  <2>1. a = c
    BY <1>1, <1>2, <1>3, <1>6, Zenon
  <2>2. pc'[c] \in {"close_old", "tell_peer"} /\ peer'[c] = b
    BY <1>5, <1>6, Zenon
  <2>3. Telling(a, b)'
    BY <2>1, <2>2, Zenon DEF Telling
  <2>4. QED
    BY <2>3, Zenon
<1>7. CASE s = r /\ u = v
  <2>1. b = c
    BY <1>1, <1>2, <1>3, <1>7, Zenon
  <2>2. pc'[c] \in {"close_old", "tell_peer"} /\ peer'[c] = a
    BY <1>5, <1>7, Zenon
  <2>3. ToBeTold(a, b)'
    BY <2>1, <2>2, Zenon DEF ToBeTold
  <2>4. QED
    BY <2>3, Zenon
<1>8. QED
  BY <1>4, <1>6, <1>7, Zenon

\* A connection on its way through AttachConnection loses no introduction it
\* owes: it goes on to tell the peer, then itself.
LEMMA IntroducedTell ==
  ASSUME IInv, Introduced, NEW c \in Conns, CloseReplaced(c) \/ TellPeer(c) \/ TellSelf(c), Moves(c)
  PROVE  Introduced'
<1> SUFFICES ASSUME NEW s \in Sessions, NEW t \in Slots, NEW u \in Slots,
                    NEW a \in Conns, NEW b \in Conns,
                    t # u, conns'[s][t] = a, conns'[s][u] = b
             PROVE  Told(a, b)' \/ Telling(a, b)' \/ ToBeTold(a, b)'
  BY Zenon DEF Introduced
<1>1. GoroutinesTypeOK /\ c \in Procs /\ ConnLocals(c)
  BY DEF IInv, TypeOK, Procs, Locals
<1>2. conns' = conns
  BY Zenon DEF CloseReplaced, TellPeer, TellSelf, roomVars
<1>3. Told(a, b) \/ Telling(a, b) \/ ToBeTold(a, b)
  BY <1>2, Zenon DEF Introduced
<1>4. Told(a, b) => Told(a, b)'
  BY ToldStays, Zenon
<1>5. a # c /\ Telling(a, b) => Telling(a, b)'
  BY Zenon DEF Telling, Moves
<1>6. b # c /\ ToBeTold(a, b) => ToBeTold(a, b)'
  BY Zenon DEF ToBeTold, Moves
<1>7. CASE CloseReplaced(c)
  <2>1. peer' = peer /\ (peer[c] # None => pc'[c] = "tell_peer")
    BY <1>1, <1>7, Zenon DEF CloseReplaced, Goto, GoroutinesTypeOK
  <2>2. Telling(c, b) => Telling(c, b)'
    BY <2>1, RoomsAssumption, Zenon DEF Telling
  <2>3. ToBeTold(a, c) => ToBeTold(a, c)'
    BY <2>1, RoomsAssumption, Zenon DEF ToBeTold
  <2>4. QED
    BY <1>3, <1>4, <1>5, <1>6, <2>2, <2>3, Zenon
<1>8. CASE TellPeer(c)
  <2>1. peer' = peer /\ pc[c] = "tell_peer" /\ pc'[c] = "tell_self" /\ connClosed' = connClosed
    <3>1. peer' = peer /\ pc[c] = "tell_peer" /\ Goto(c, "tell_self") /\ connClosed' = connClosed
      BY <1>8, Zenon DEF TellPeer, attachVars
    <3>2. QED
      BY <1>1, <3>1, Zenon DEF Goto, GoroutinesTypeOK
  <2>2. Telling(c, b) => Telling(c, b)'
    BY <2>1, Zenon DEF Telling
  <2>3. ASSUME peer[c] = a PROVE Told(a, c)'
    <3>1. PICK e \in {"present", "rejoined"} : SendPriority(a, e, c)
      BY <1>8, <2>3, Zenon DEF TellPeer
    <3>2. ~connClosed[a] => [event |-> e, of |-> c] \in heard'[a]
      BY <1>1, <3>1, SendPriorityHeard, Zenon
    <3>3. [event |-> e, of |-> c].event = e /\ [event |-> e, of |-> c].of = c
      OBVIOUS
    <3>4. QED
      BY <2>1, <3>2, <3>3, Zenon DEF Told, ToldOf
  <2>4. ToBeTold(a, c) => Told(a, c)'
    BY <2>3, Zenon DEF ToBeTold
  <2>5. QED
    BY <1>3, <1>4, <1>5, <1>6, <2>2, <2>4, Zenon
<1>9. CASE TellSelf(c)
  <2>1. pc[c] = "tell_self" /\ connClosed' = connClosed /\ SendPriority(c, "present", peer[c])
    BY <1>9, Zenon DEF TellSelf
  <2>2. ASSUME peer[c] = b PROVE Told(c, b)'
    <3>1. ~connClosed[c] => [event |-> "present", of |-> b] \in heard'[c]
      BY <1>1, <2>1, <2>2, SendPriorityHeard, Zenon
    <3>2. [event |-> "present", of |-> b].event = "present" /\ [event |-> "present", of |-> b].of = b
      OBVIOUS
    <3>3. QED
      BY <2>1, <3>1, <3>2, Zenon DEF Told, ToldOf
  <2>3. Telling(c, b) => Told(c, b)'
    BY <2>2, Zenon DEF Telling
  <2>4. ~ToBeTold(a, c)
    BY <2>1, Zenon DEF ToBeTold
  <2>5. QED
    BY <1>3, <1>4, <1>5, <1>6, <2>3, <2>4, Zenon
<1>10. QED
  BY <1>7, <1>8, <1>9, Zenon

\* Every step keeps the introductions made or due.
LEMMA IntroducedStep == IInv /\ IInv' /\ Introduced /\ [Next]_vars => Introduced'
<1> SUFFICES ASSUME IInv, IInv', Introduced, [Next]_vars PROVE Introduced'
  BY Zenon
<1>1. GoroutinesTypeOK /\ conns \in [Sessions -> [Slots -> Conns \cup {None}]]
  BY Zenon DEF IInv, TypeOK, RoomsTypeOK
<1> USE DEF attachVars, sockVars, dataVars, sweepVars
<1>2. CASE Elsewhere
  <2>1. conns' = conns /\ \A d, e \in Conns : Told(d, e) => Told(d, e)'
    BY <1>2, Zenon DEF Elsewhere, Told, ToldOf
  <2>2. \A d \in Conns : pc'[d] = pc[d] /\ peer'[d] = peer[d]
    BY <1>2, Zenon DEF Elsewhere
  <2>3. QED
    BY <2>1, <2>2, IntroducedFrame, Zenon
<1>3. ASSUME NEW c \in Conns, Serve(c) \/ Client(c) \/ WriteLoop(c) PROVE Introduced'
  <2>1. Moves(c)
    BY <1>3, MovesStep, Zenon
  <2>2. \A d, e \in Conns : Told(d, e) => Told(d, e)'
    BY <2>1, ToldStays, Zenon
  <2>3. CASE AttachAdd(c)
    BY <2>1, <2>3, IntroducedAdd, Zenon
  <2>4. CASE CloseReplaced(c) \/ TellPeer(c) \/ TellSelf(c)
    BY <2>1, <2>4, IntroducedTell, Zenon
  <2>5. ASSUME pc[c] \notin {"close_old", "tell_peer", "tell_self"},
               \A s \in Sessions, t \in Slots : conns'[s][t] \in {None, conns[s][t]}
        PROVE  Introduced'
    <3>1. \A d \in Conns : pc[d] \in {"close_old", "tell_peer", "tell_self"} =>
                             pc'[d] = pc[d] /\ peer'[d] = peer[d]
      BY <2>1, <2>5, Zenon DEF Moves
    <3>2. QED
      BY <2>2, <2>5, <3>1, IntroducedFrame, Zenon
  <2>6. CASE EndDrain(c)
    <3>1. pc[c] = "drain" /\ (conns' = conns \/ conns' = [conns EXCEPT ![session[c]] = [t \in Slots |-> None]])
      BY <2>6, Zenon DEF EndDrain, DrainConnections
    <3>2. \A s \in Sessions, t \in Slots : conns'[s][t] \in {None, conns[s][t]}
      BY <1>1, <3>1
    <3>3. QED
      BY <2>5, <3>1, <3>2, Zenon
  <2>7. CASE Detach(c)
    <3>1. pc[c] = "detach" /\ conns' = [conns EXCEPT ![session[c]][req[c].slot] = None]
      BY <2>7, Zenon DEF Detach, RemoveConnection
    <3>2. \A s \in Sessions, t \in Slots : conns'[s][t] \in {None, conns[s][t]}
      BY <1>1, <3>1, Zenon
    <3>3. QED
      BY <2>5, <3>1, <3>2, Zenon
  <2>8. CASE Serve(c) /\ ~AttachAdd(c) /\ ~(CloseReplaced(c) \/ TellPeer(c) \/ TellSelf(c))
             /\ ~EndDrain(c) /\ ~Detach(c)
    <3>1. conns' = conns
      BY <2>8, Zenon DEF Serve, Reject, Abort, AttachLookup, GetSession, RemoveSession, sessionVars,
         AttachRefused, Forward, EndTombstone, EndSession, EndIgnored, EndCut, Return, DetachStale,
         TellGone, Release, roomVars
    <3>2. pc[c] \notin {"close_old", "tell_peer", "tell_self"}
      BY <2>8, Zenon DEF Serve, Reject, AttachLookup, GetSession, AttachRefused, Forward, EndTombstone,
         EndIgnored, EndCut, Return, DetachStale, TellGone, Release
    <3>3. QED
      BY <2>5, <3>1, <3>2, Zenon
  <2>9. CASE Client(c) \/ WriteLoop(c)
    <3>1. conns' = conns
      BY <2>9, Zenon DEF Client, ServeHTTP, UpgradeFailed, Abort, ReadData, ReadFails, ReadSessionEnd,
         WriteFails, WriteLoop, roomVars
    <3>2. pc[c] \notin {"close_old", "tell_peer", "tell_self"}
      BY <2>9, Zenon DEF Client, ServeHTTP, UpgradeFailed, ReadData, ReadFails, ReadSessionEnd, WriteFails,
         WriteLoop, Writing
    <3>3. QED
      BY <2>5, <3>1, <3>2, Zenon
  <2>10. QED
    BY <1>3, <2>3, <2>4, <2>6, <2>7, <2>8, <2>9, Zenon
<1>4. QED
  BY <1>2, <1>3, ElsewhereStep, Zenon DEF Next

\* Of two participants that finished attaching each was told of the other by
\* AttachConnection, whichever came last, was replaced or raced the other.
THEOREM BothIntroduced == Spec => []PeersIntroduced
<1>1. Init => Introduced
  BY RoomsAssumption DEF Init, RoomsInit, Introduced
<1>2. IInv /\ Introduced => PeersIntroduced
  <2> SUFFICES ASSUME IInv, Introduced, NEW s \in Sessions, NEW t \in Slots, NEW u \in Slots,
                      t # u, {t, u} \subseteq Occupied(s),
                      \A c \in Conns : session[c] = s => pc[c] \notin {"close_old", "tell_peer", "tell_self"}
               PROVE  connClosed[conns[s][t]] \/ ToldOf(conns[s][t], conns[s][u])
    BY ZenonT(60) DEF PeersIntroduced
  <2> DEFINE a == conns[s][t]
             b == conns[s][u]
  <2>1. a \in Conns /\ a # None /\ b \in Conns /\ b # None
    BY DEF IInv, TypeOK, RoomsTypeOK, Occupied
  <2>2. session[a] = s /\ session[b] = s
    BY <2>1, Zenon DEF IInv, NoGhostParticipant
  <2>3. Told(a, b) \/ Telling(a, b) \/ ToBeTold(a, b)
    BY <2>1, Zenon DEF Introduced
  <2>4. ~Telling(a, b) /\ ~ToBeTold(a, b)
    BY <2>1, <2>2, Zenon DEF Telling, ToBeTold
  <2>5. QED
    BY <2>3, <2>4, Zenon DEF Told
<1>3. QED
  BY <1>1, <1>2, IntroducedStep, Invariance, PTL DEF Spec

-----------------------------------------------------------------------------
(* Frames are forwarded in order. *)

\* Moving the head of a sequence to the end of the one before it changes
\* nothing in their concatenation.
LEMMA HeadMoves ==
  ASSUME NEW S, NEW p \in Seq(S), NEW q \in Seq(S), q # <<>>
  PROVE  Append(p, Head(q)) \o Tail(q) = p \o q
<1>1. Append(p, Head(q)) \o Tail(q) \in Seq(S) /\ p \o q \in Seq(S)
  OBVIOUS
<1>2. Len(Append(p, Head(q)) \o Tail(q)) = Len(p \o q)
  OBVIOUS
<1>3. \A n \in 1..Len(p \o q) : (Append(p, Head(q)) \o Tail(q))[n] = (p \o q)[n]
  OBVIOUS
<1>4. QED
  BY <1>1, <1>2, <1>3

\* A counter that goes up passes what it had reached.
LEMMA Later ==
  ASSUME NEW a \in Nat, NEW b \in Nat, a <= b
  PROVE  a < b + 1 /\ a <= b + 1
  OBVIOUS

\* What is appended to the second of two sequences is appended to both.
LEMMA AppendConcat ==
  ASSUME NEW S, NEW p \in Seq(S), NEW q \in Seq(S), NEW x \in S
  PROVE  p \o Append(q, x) = Append(p \o q, x)
  OBVIOUS

\* Frames stay fit while their sender neither counts nor forwards another.
LEMMA FitStable ==
  ASSUME GoroutinesTypeOK, NEW c \in Conns, NEW d \in Conns, Settled(d), NEW f \in Frames, Fit(d, f),
         Moves(c), f.from = c => Settled(c)' /\ sent'[c] = sent[c] /\ (pc'[c] = "relay" => pc[c] = "relay"),
         \A e \in Conns \ {c} : sent'[e] = sent[e]
  PROVE  Fit(d, f)'
<1>1. f.from \in Conns /\ Settled(f.from)
  BY Zenon DEF Frames, Fit
<1>2. session'[d] = session[d] /\ session'[f.from] = session[f.from]
  BY <1>1, Zenon DEF Moves
<1>3. Settled(f.from)' /\ sent'[f.from] = sent[f.from] /\ (pc'[f.from] = "relay" => pc[f.from] = "relay")
  BY <1>1, Zenon DEF Moves, Settled
<1>4. QED
  BY <1>2, <1>3, Zenon DEF Fit

\* The relay's log of a connection is a sequence of frames.
LEMMA LogType ==
  ASSUME GoroutinesTypeOK, NEW c \in Conns
  PROVE  Log(c) \in Seq(Frames) /\ \A n \in 1..Len(Log(c)) : Log(c)[n] \in Frames
<1>1. Log(c) \in Seq(Frames)
  BY DEF GoroutinesTypeOK, Log
<1>2. QED
  BY <1>1

\* Whom a goroutine is about to forward to stays in its room.
LEMMA AimStable ==
  ASSUME IInv, Relayed, NEW c \in Conns, Moves(c), Settled(c) => Settled(c)',
         NEW d \in Conns, pc[d] = "relay", peer'[d] = peer[d]
  PROVE  Aims(d)'
<1>1. peer[d] # d /\ session[peer[d]] = session[d] /\ Settled(peer[d])
  BY Zenon DEF Relayed, Aims
<1>2. PICK e \in Conns : e = peer[d]
  BY Zenon DEF IInv, Locals, ConnLocals
<1>3. Settled(d)
  BY Zenon DEF Settled
<1>4. session'[e] = session[e] /\ session'[d] = session[d]
  BY <1>1, <1>2, <1>3, Zenon DEF Moves
<1>5. Settled(e)'
  BY <1>1, <1>2, Zenon DEF Moves, Settled
<1>6. peer'[d] = e /\ e # d /\ session'[e] = session'[d]
  BY <1>1, <1>2, <1>4, Zenon
<1>7. QED
  BY <1>5, <1>6, Zenon DEF Aims, Settled

\* A step of c that neither reads nor forwards a data frame changes no log.
LEMMA RelayedFrame ==
  ASSUME IInv, Relayed, NEW c \in Conns, Moves(c), \A d \in Conns : Log(d)' = Log(d),
         Settled(c) => Settled(c)', sent' = sent,
         pc'[c] = "relay" => pc[c] = "relay" /\ peer'[c] = peer[c]
  PROVE  Relayed'
<1>1. GoroutinesTypeOK
  BY Zenon DEF IInv, TypeOK
<1> SUFFICES ASSUME NEW d \in Conns, NEW g, g = Log(d)'
             PROVE  Aims(d)' /\ InOrder(d, g)'
  BY Zenon DEF Relayed
<1>2. Aims(d)'
  <2>1. CASE pc'[d] # "relay"
    BY <2>1, Zenon DEF Aims
  <2>2. CASE pc'[d] = "relay"
    <3>1. pc[d] = "relay" /\ peer'[d] = peer[d]
      BY <2>2, Zenon DEF Moves
    <3>2. QED
      BY <3>1, AimStable, Zenon
  <2>3. QED
    BY <2>1, <2>2, Zenon
<1>3. ASSUME NEW n \in 1..Len(g)
      PROVE  /\ Settled(d)' /\ Fit(d, g[n])'
             /\ \A m \in 1..(n - 1) : g[m].from = g[n].from => g[m].seq < g[n].seq
  <2>1. g = Log(d)
    BY Zenon
  <2>2. /\ Settled(d) /\ Fit(d, g[n])
        /\ \A m \in 1..(n - 1) : g[m].from = g[n].from => g[m].seq < g[n].seq
    BY <2>1, Zenon DEF Relayed, InOrder
  <2>3. PICK f \in Frames : f = g[n]
    BY <1>1, <2>1, LogType, Zenon
  <2>4. Fit(d, f)
    BY <2>2, <2>3, Zenon
  <2>5. f.from = c => Settled(c)' /\ sent'[c] = sent[c] /\ (pc'[c] = "relay" => pc[c] = "relay")
    BY <2>4, Zenon DEF Fit
  <2>6. Fit(d, f)'
    BY <1>1, <2>2, <2>4, <2>5, FitStable, Zenon
  <2>7. Settled(d)'
    BY <2>2, Zenon DEF Moves, Settled
  <2>8. QED
    BY <2>2, <2>3, <2>6, <2>7, Zenon
<1>4. QED
  BY <1>2, <1>3, Zenon DEF InOrder

\* A frame that is read is newer than all that were forwarded, and its receiver
\* is another connection of the room.
LEMMA RelayedRead ==
  ASSUME IInv, Relayed, NEW c \in Conns, ReadData(c), Moves(c)
  PROVE  Relayed'
<1>1. GoroutinesTypeOK /\ c \in Procs /\ NoGhostParticipant /\ RoomsTypeOK
  BY Zenon DEF IInv, TypeOK, Procs
<1>2. /\ pc[c] = "read" /\ sent' = [sent EXCEPT ![c] = @ + 1] /\ session' = session
      /\ sendChan' = sendChan /\ delivered' = delivered
  BY Zenon DEF ReadData
<1>3. PICK x \in OneOf(PeerOf(session[c], c)) : peer' = [peer EXCEPT ![c] = x]
  BY Zenon DEF ReadData
<1>4. peer'[c] = x /\ (pc'[c] = "relay" => x \in PeerOf(session[c], c)) /\ Settled(c) /\ Settled(c)'
  <2>1. peer'[c] = x
    BY <1>1, <1>3, Zenon DEF GoroutinesTypeOK
  <2>2. pc'[c] = IF PeerOf(session[c], c) = {} THEN "read" ELSE "relay"
    BY <1>1, Zenon DEF ReadData, Goto, GoroutinesTypeOK
  <2>3. PeerOf(session[c], c) # {} => x \in PeerOf(session[c], c)
    BY <1>3, Zenon DEF OneOf
  <2>4. QED
    BY <1>2, <2>1, <2>2, <2>3, Zenon DEF Settled
<1> SUFFICES ASSUME NEW d \in Conns, NEW g, g = Log(d)'
             PROVE  Aims(d)' /\ InOrder(d, g)'
  BY Zenon DEF Relayed
<1>5. Aims(d)'
  <2>0. CASE pc'[d] # "relay"
    BY <2>0, Zenon DEF Aims
  <2>1. CASE d # c /\ pc'[d] = "relay"
    <3>1. pc[d] = "relay" /\ peer'[d] = peer[d]
      BY <2>1, Zenon DEF Moves
    <3>2. QED
      BY <1>4, <3>1, AimStable, Zenon
  <2>2. CASE d = c /\ pc'[d] = "relay"
    <3>1. session[c] \in Sessions
      BY <1>2, Zenon DEF IInv, Locals, ConnLocals, Attached, AttachedPc
    <3>2. x # c /\ \E t \in Slots : conns[session[c]][t] = x /\ x # None
      BY <1>4, <2>2, Zenon DEF PeerOf, Connections, Occupied
    <3>3. x \in Conns /\ session[x] = session[c] /\ Attached(x)
      <4>1. PICK t \in Slots : conns[session[c]][t] = x /\ x # None
        BY <3>2, Zenon
      <4>2. x \in Conns
        BY <1>1, <3>1, <4>1 DEF RoomsTypeOK
      <4>3. session[conns[session[c]][t]] = session[c] /\ Attached(conns[session[c]][t])
        BY <1>1, <3>1, <4>1, ZenonT(60) DEF NoGhostParticipant
      <4>4. QED
        BY <4>1, <4>2, <4>3, Zenon
    <3>4. pc'[x] = pc[x]
      BY <3>2, <3>3, Zenon DEF Moves
    <3>5. Settled(x)'
      BY <3>3, <3>4, Zenon DEF Settled, Attached, AttachedPc
    <3>6. QED
      BY <1>2, <1>4, <2>2, <3>2, <3>3, <3>5, Zenon DEF Aims, Settled
  <2>3. QED
    BY <2>0, <2>1, <2>2, Zenon
<1>6. ASSUME NEW n \in 1..Len(g)
      PROVE  /\ Settled(d)' /\ Fit(d, g[n])'
             /\ \A m \in 1..(n - 1) : g[m].from = g[n].from => g[m].seq < g[n].seq
  <2>1. g = Log(d)
    BY <1>2, Zenon DEF Log
  <2>2. /\ Settled(d) /\ Fit(d, g[n])
        /\ \A m \in 1..(n - 1) : g[m].from = g[n].from => g[m].seq < g[n].seq
    BY <2>1, Zenon DEF Relayed, InOrder
  <2>3. PICK f \in Frames : f = g[n]
    BY <1>1, <2>1, LogType, Zenon
  <2>4. Fit(d, f)
    BY <2>2, <2>3, Zenon
  <2>5. Fit(d, f)'
    <3>1. CASE f.from # c
      <4>1. \A e \in Conns \ {c} : sent'[e] = sent[e]
        BY <1>1, <1>2, Zenon DEF GoroutinesTypeOK
      <4>2. QED
        BY <1>1, <2>2, <2>4, <3>1, <4>1, FitStable, Zenon
    <3>2. CASE f.from = c
      <4>1. f.seq \in Nat /\ sent[c] \in Nat /\ f.seq <= sent[c]
        BY <1>1, <2>4, <3>2, Zenon DEF GoroutinesTypeOK, Frames, Fit
      <4>2. sent'[c] = sent[c] + 1
        BY <1>1, <1>2, Zenon DEF GoroutinesTypeOK
      <4>3. f.seq < sent'[c] /\ f.seq <= sent'[c]
        BY <4>1, <4>2, Later, Zenon
      <4>4. QED
        BY <1>2, <1>4, <2>4, <3>2, <4>3, Zenon DEF Fit
    <3>3. QED
      BY <3>1, <3>2, Zenon
  <2>6. Settled(d)'
    BY <1>4, <2>2, Zenon DEF Moves, Settled
  <2>7. QED
    BY <2>2, <2>3, <2>5, <2>6, Zenon
<1>7. QED
  BY <1>5, <1>6, Zenon DEF InOrder

\* What is forwarded goes to another connection of the room, behind the older
\* frames of the same sender, or is lost.
LEMMA RelayedForward ==
  ASSUME IInv, Relayed, NEW c \in Conns, Forward(c), Moves(c)
  PROVE  Relayed'
<1>1. GoroutinesTypeOK /\ c \in Procs
  BY Zenon DEF IInv, TypeOK, Procs
<1>2. PICK e \in Conns : e = peer[c] /\ pc[c] = "relay"
  BY Zenon DEF IInv, Locals, ConnLocals, Forward
<1>3. PICK h \in Frames : h = [from |-> c, seq |-> sent[c]] /\ h.from = c /\ h.seq = sent[c]
  <2>1. sent[c] \in Nat
    BY <1>1, Zenon DEF GoroutinesTypeOK
  <2>2. [from |-> c, seq |-> sent[c]] \in Frames
    BY <2>1, Zenon DEF Frames
  <2>3. QED
    BY <2>2, Zenon
<1>4. /\ sendChan' = sendChan \/ sendChan' = [sendChan EXCEPT ![e] = Append(@, h)]
      /\ delivered' = delivered /\ sent' = sent /\ session' = session /\ Goto(c, "read")
  BY <1>2, <1>3, Zenon DEF Forward, Send
<1>5. pc'[c] = "read" /\ Settled(c) /\ Settled(c)'
  BY <1>1, <1>2, <1>4, Zenon DEF Goto, GoroutinesTypeOK, Settled
<1>6. CASE sendChan' = sendChan
  <2>1. \A d \in Conns : Log(d)' = Log(d)
    BY <1>4, <1>6, Zenon DEF Log
  <2>2. QED
    BY <1>4, <1>5, <2>1, RelayedFrame, Zenon
<1>7. CASE sendChan' = [sendChan EXCEPT ![e] = Append(@, h)]
  <2>1. \A d \in Conns \ {e} : Log(d)' = Log(d)
    BY <1>1, <1>4, <1>7, Zenon DEF Log, GoroutinesTypeOK
  <2>2. Log(e)' = Append(Log(e), h)
    <3>1. delivered[e] \in Seq(Frames) /\ sendChan[e] \in Seq(Frames)
      BY <1>1, Zenon DEF GoroutinesTypeOK
    <3>2. sendChan'[e] = Append(sendChan[e], h)
      BY <1>1, <1>7, Zenon DEF GoroutinesTypeOK
    <3>3. QED
      <4>1. delivered[e] \o Append(sendChan[e], h) = Append(delivered[e] \o sendChan[e], h)
        <5>1. PICK p \in Seq(Frames), q \in Seq(Frames) : p = delivered[e] /\ q = sendChan[e]
          BY <3>1, Zenon
        <5>2. p \o Append(q, h) = Append(p \o q, h)
          BY AppendConcat
        <5>3. QED
          BY <5>1, <5>2, Zenon
      <4>2. delivered'[e] \o sendChan'[e] = Append(delivered[e] \o sendChan[e], h)
        BY <1>4, <3>2, <4>1, Zenon
      <4>3. QED
        BY <4>2, Zenon DEF Log
  <2>3. e # c /\ session[c] = session[e] /\ Settled(e)
    BY <1>2, Zenon DEF Relayed, Aims
  <2>4. SUFFICES ASSUME NEW d \in Conns, NEW g, g = Log(d)'
                 PROVE  Aims(d)' /\ InOrder(d, g)'
    BY Zenon DEF Relayed
  <2>5. Aims(d)'
    <3>1. CASE pc'[d] # "relay"
      BY <3>1, Zenon DEF Aims
    <3>2. CASE pc'[d] = "relay"
      <4>1. d # c /\ pc[d] = "relay" /\ peer'[d] = peer[d]
        BY <1>5, <3>2, Zenon DEF Moves
      <4>2. QED
        BY <1>5, <4>1, AimStable, Zenon
    <3>3. QED
      BY <3>1, <3>2, Zenon
  <2>6. PICK q : q = Log(d)
    OBVIOUS
  <2>7. q \in Seq(Frames) /\ InOrder(d, q) /\ (Len(q) > 0 => Settled(d))
    <3>1. q \in Seq(Frames) /\ InOrder(d, q)
      BY <1>1, <2>6, LogType, Zenon DEF Relayed
    <3>2. Len(q) > 0 => 1 \in 1..Len(q)
      BY <3>1
    <3>3. QED
      BY <3>1, <3>2, Zenon DEF InOrder
  <2>8. ASSUME NEW n \in 1..Len(q)
        PROVE  Settled(d)' /\ Fit(d, q[n])'
    <3>1. Settled(d) /\ Fit(d, q[n])
      BY <2>7, Zenon DEF InOrder
    <3>2. PICK f \in Frames : f = q[n]
      BY <2>7
    <3>3. Fit(d, f)'
      BY <1>1, <1>4, <1>5, <3>1, <3>2, FitStable, Zenon
    <3>4. Settled(d)'
      BY <1>5, <3>1, Zenon DEF Moves, Settled
    <3>5. QED
      BY <3>2, <3>3, <3>4, Zenon
  <2>9. CASE d # e
    <3>1. g = q
      BY <2>1, <2>4, <2>6, <2>9, Zenon
    <3>2. InOrder(d, g)'
      BY <2>7, <2>8, <3>1, Zenon DEF InOrder
    <3>3. QED
      BY <2>5, <3>2, Zenon
  <2>10. CASE d = e
    <3>1. g = Append(q, h)
      BY <2>2, <2>4, <2>6, <2>10, Zenon
    <3>2. Len(g) = Len(q) + 1 /\ g[Len(q) + 1] = h /\ \A n \in 1..Len(q) : g[n] = q[n]
      BY <2>7, <3>1
    <3>3. Settled(e)' /\ Fit(e, h)'
      <4>1. Settled(e)'
        BY <2>3, Zenon DEF Moves, Settled
      <4>2. sent'[c] \in Nat
        BY <1>1, <1>4, Zenon DEF GoroutinesTypeOK
      <4>3. h.seq = sent'[c] /\ h.seq <= sent'[c]
        <5>1. \A k \in Nat : k <= k
          OBVIOUS
        <5>2. QED
          BY <1>3, <1>4, <4>2, <5>1, Zenon
      <4>4. h.from = c /\ session'[c] = session'[e] /\ c # e /\ pc'[c] # "relay"
        BY <1>3, <1>4, <1>5, <2>3, Zenon
      <4>5. QED
        BY <1>5, <4>1, <4>3, <4>4, Zenon DEF Fit
    <3>4. \A m \in 1..Len(q) : q[m].from = c => q[m].seq < h.seq
      BY <1>2, <1>3, <2>7, Zenon DEF InOrder, Fit
    <3>5. InOrder(d, g)'
      <4>1. SUFFICES ASSUME NEW n \in 1..Len(g)
                     PROVE  /\ Settled(d)' /\ Fit(d, g[n])'
                            /\ \A m \in 1..(n - 1) : g[m].from = g[n].from => g[m].seq < g[n].seq
        BY Zenon DEF InOrder
      <4>2. CASE n \in 1..Len(q)
        <5>0. \A m \in 1..(n - 1) : m \in 1..Len(q)
          <6>1. Len(q) \in Nat
            BY <2>7
          <6>2. QED
            BY <4>2, <6>1
        <5>1. g[n] = q[n] /\ \A m \in 1..(n - 1) : g[m] = q[m]
          BY <2>7, <3>2, <4>2, <5>0, Zenon
        <5>2. \A m \in 1..(n - 1) : q[m].from = q[n].from => q[m].seq < q[n].seq
          BY <2>7, <4>2, Zenon DEF InOrder
        <5>3. Settled(d)' /\ Fit(d, q[n])'
          BY <2>8, <4>2, Zenon
        <5>4. QED
          BY <5>1, <5>2, <5>3, Zenon
      <4>3. CASE n = Len(q) + 1
        <5>1. g[n] = h /\ \A m \in 1..(n - 1) : g[m] = q[m] /\ m \in 1..Len(q)
          BY <2>7, <3>2, <4>3
        <5>2. \A m \in 1..(n - 1) : g[m].from = h.from => g[m].seq < h.seq
          BY <1>3, <3>4, <5>1, Zenon
        <5>3. QED
          BY <2>10, <3>3, <5>1, <5>2, Zenon
      <4>4. n \in 1..Len(q) \/ n = Len(q) + 1
        BY <2>7, <3>2
      <4>5. QED
        BY <4>2, <4>3, <4>4, Zenon
    <3>6. QED
      BY <2>5, <3>5, Zenon
  <2>11. QED
    BY <2>9, <2>10, Zenon
<1>8. QED
  BY <1>4, <1>6, <1>7, Zenon

\* Every step keeps the logs in order.
LEMMA RelayedStep == IInv /\ Relayed /\ [Next]_vars => Relayed'
<1> SUFFICES ASSUME IInv, Relayed, [Next]_vars PROVE Relayed'
  OBVIOUS
<1>1. GoroutinesTypeOK /\ \A d \in Conns : d \in Procs
  BY Zenon DEF IInv, TypeOK, Procs
<1> USE DEF attachVars, sockVars, dataVars, sweepVars
<1>2. CASE Elsewhere
  <2>1. SUFFICES ASSUME NEW d \in Conns, NEW g, g = Log(d)'
                 PROVE  Aims(d)' /\ InOrder(d, g)'
    BY Zenon DEF Relayed
  <2>2. g = Log(d)
    BY <1>2, <2>1, Zenon DEF Elsewhere, Log
  <2>3. Aims(d) /\ InOrder(d, g)
    BY <2>2, Zenon DEF Relayed
  <2>4. \A e \in Conns : Settled(e)' <=> Settled(e)
    BY <1>2, Zenon DEF Elsewhere, Settled
  <2>5. pc[d] = "relay" => peer[d] \in Conns
    BY DEF IInv, Locals, ConnLocals
  <2>6. Aims(d)'
    BY <1>2, <2>3, <2>5, Zenon DEF Elsewhere, Aims, Settled
  <2>7. ASSUME NEW n \in 1..Len(g) PROVE Fit(d, g[n])'
    <3>1. PICK f \in Frames : f = g[n]
      BY <1>1, <2>2, LogType, Zenon
    <3>2. f.from \in Conns /\ Fit(d, f)
      BY <2>3, <3>1, Zenon DEF InOrder, Frames
    <3>3. Fit(d, f)'
      BY <1>2, <3>2, Zenon DEF Elsewhere, Fit, Settled
    <3>4. QED
      BY <3>1, <3>3, Zenon
  <2>8. InOrder(d, g)'
    BY <2>3, <2>4, <2>7, Zenon DEF InOrder
  <2>9. QED
    BY <2>6, <2>8, Zenon
<1>3. ASSUME NEW c \in Conns, Serve(c) \/ Client(c) \/ WriteLoop(c) PROVE Relayed'
  <2>1. Moves(c)
    BY <1>3, MovesStep, Zenon
  <2>2. CASE Forward(c)
    BY <2>1, <2>2, RelayedForward, Zenon
  <2>3. CASE ReadData(c)
    BY <2>1, <2>3, RelayedRead, Zenon
  <2>4. ASSUME \A d \in Conns : Log(d)' = Log(d), sent' = sent,
               pc' = pc \/ \E l \in ConnPc \ {"new", "lookup", "relay"} : Goto(c, l),
               pc' = pc => peer' = peer
        PROVE  Relayed'
    <3>1. Settled(c) => Settled(c)'
      BY <1>1, <2>4, Zenon DEF Settled, Goto, GoroutinesTypeOK
    <3>2. pc'[c] = "relay" => pc[c] = "relay" /\ peer'[c] = peer[c]
      BY <1>1, <2>4, Zenon DEF Goto, GoroutinesTypeOK
    <3>3. QED
      BY <2>1, <2>4, <3>1, <3>2, RelayedFrame, Zenon
  <2>5. CASE WriteLoop(c)
    <3>1. /\ sendChan[c] # <<>> /\ delivered' = [delivered EXCEPT ![c] = Append(@, Head(sendChan[c]))]
          /\ sendChan' = [sendChan EXCEPT ![c] = Tail(@)]
          /\ pc' = pc /\ peer' = peer /\ sent' = sent
      BY <2>5, Zenon DEF WriteLoop
    <3>2. delivered[c] \in Seq(Frames) /\ sendChan[c] \in Seq(Frames)
      BY <1>1, Zenon DEF GoroutinesTypeOK
    <3>3. delivered'[c] = Append(delivered[c], Head(sendChan[c])) /\ sendChan'[c] = Tail(sendChan[c])
      BY <1>1, <3>1, Zenon DEF GoroutinesTypeOK
    <3>4. Log(c)' = Log(c)
      BY <3>1, <3>2, <3>3, HeadMoves, Zenon DEF Log
    <3>5. \A d \in Conns \ {c} : Log(d)' = Log(d)
      BY <1>1, <3>1, Zenon DEF Log, GoroutinesTypeOK
    <3>6. QED
      BY <2>4, <3>1, <3>4, <3>5, Zenon
  <2>6. CASE Serve(c) /\ ~Forward(c)
    <3>1. UNCHANGED <<sendChan, sent, delivered>>
      BY <2>6, Zenon DEF Serve, Reject, Abort, AttachLookup, AttachAdd, AttachRefused, CloseReplaced,
         TellPeer, TellSelf, EndTombstone, EndIgnored, EndDrain, EndCut, Return, Detach, DetachStale,
         TellGone, Release
    <3>2. CASE EndCut(c)
      <4>1. peer' = peer /\ (pc' = pc \/ \E l \in ConnPc \ {"new", "lookup", "relay"} : Goto(c, l))
        BY <3>2, Zenon DEF EndCut, ConnPc
      <4>2. QED
        BY <2>4, <3>1, <4>1, Zenon DEF Log
    <3>3. CASE AttachLookup(c)
      <4>1. \E l \in ConnPc \ {"new", "lookup", "relay"} : Goto(c, l)
        BY <3>3, Zenon DEF AttachLookup, GetSession, ConnPc
      <4>2. peer' = peer
        BY <3>3, Zenon DEF AttachLookup
      <4>3. QED
        BY <2>4, <3>1, <4>1, <4>2, Zenon DEF Log
    <3>4. CASE AttachAdd(c) \/ Detach(c)
      <4>1. \E l \in {"close_old", "tell_peer", "read", "release", "tell_gone"} : Goto(c, l)
        BY <3>4, Zenon DEF AttachAdd, Detach
      <4>2. pc[c] \in {"add", "detach"}
        BY <3>4, Zenon DEF AttachAdd, Detach
      <4>3. pc' # pc
        BY <1>1, <4>1, <4>2, Zenon DEF Goto, GoroutinesTypeOK
      <4>4. \E l \in ConnPc \ {"new", "lookup", "relay"} : Goto(c, l)
        BY <4>1, Zenon DEF ConnPc
      <4>5. QED
        BY <2>4, <3>1, <4>3, <4>4, Zenon DEF Log
    <3>5. CASE TellSelf(c) \/ TellGone(c)
      <4>1. Goto(c, "read") \/ Goto(c, "release")
        BY <3>5, Zenon DEF TellSelf, TellGone
      <4>2. pc[c] \in {"tell_self", "tell_gone"}
        BY <3>5, Zenon DEF TellSelf, TellGone
      <4>3. pc' # pc
        BY <1>1, <4>1, <4>2, Zenon DEF Goto, GoroutinesTypeOK
      <4>4. \E l \in ConnPc \ {"new", "lookup", "relay"} : Goto(c, l)
        BY <4>1, Zenon DEF ConnPc
      <4>5. QED
        BY <2>4, <3>1, <4>3, <4>4, Zenon DEF Log
    <3>6. CASE Reject(c) \/ AttachRefused(c) \/ CloseReplaced(c) \/ TellPeer(c) \/ EndTombstone(c)
               \/ EndIgnored(c) \/ EndDrain(c) \/ Return(c) \/ DetachStale(c) \/ Release(c)
      <4>1. \E l \in ConnPc \ {"new", "lookup", "relay"} : Goto(c, l)
        BY <3>6, Zenon DEF Reject, Abort, AttachRefused, CloseReplaced, TellPeer, EndTombstone, EndIgnored,
           EndDrain, Return, DetachStale, Release, ConnPc
      <4>2. peer' = peer
        BY <3>6, Zenon DEF Reject, Abort, AttachRefused, CloseReplaced, TellPeer, EndTombstone, EndIgnored,
           EndDrain, Return, DetachStale, Release
      <4>3. QED
        BY <2>4, <3>1, <4>1, <4>2, Zenon DEF Log
    <3>7. QED
      BY <2>6, <3>2, <3>3, <3>4, <3>5, <3>6, Zenon DEF Serve
  <2>7. CASE ServeHTTP(c)
    <3>1. UNCHANGED <<sendChan, sent, delivered>> /\ peer' = peer /\ Goto(c, "lookup") /\ pc[c] = "new"
      BY <2>7, Zenon DEF ServeHTTP
    <3>2. ~Settled(c) /\ pc'[c] # "relay" /\ \A d \in Conns : Log(d)' = Log(d)
      BY <1>1, <3>1, Zenon DEF Settled, Goto, GoroutinesTypeOK, Log
    <3>3. QED
      BY <2>1, <3>1, <3>2, RelayedFrame, Zenon
  <2>8. CASE UpgradeFailed(c) \/ ReadFails(c) \/ ReadSessionEnd(c) \/ WriteFails(c)
    <3>1. UNCHANGED <<sendChan, sent, delivered>> /\ peer' = peer
      BY <2>8, Zenon DEF UpgradeFailed, Abort, ReadFails, ReadSessionEnd, WriteFails
    <3>2. pc' = pc \/ \E l \in ConnPc \ {"new", "lookup", "relay"} : Goto(c, l)
      BY <2>8, Zenon DEF UpgradeFailed, Abort, ReadFails, ReadSessionEnd, WriteFails, ConnPc
    <3>3. QED
      BY <2>4, <3>1, <3>2, Zenon DEF Log
  <2>9. QED
    BY <1>3, <2>2, <2>3, <2>5, <2>6, <2>7, <2>8, Zenon DEF Client
<1>4. QED
  BY <1>2, <1>3, ElsewhereStep, Zenon DEF Next

\* What a connection is sent are frames of other connections of its room, those
\* of one sender in the order readLoop read them: a full sendChan, a refresh or
\* a reader outrunning the writer lose frames and never swap or repeat them.
THEOREM FramesInOrder == Spec => []ForwardedInOrder
<1>1. Init => Relayed
  <2> SUFFICES ASSUME GoroutinesInit, NEW c \in Conns PROVE Aims(c) /\ InOrder(c, Log(c))
    BY Zenon DEF Init, Relayed
  <2>1. pc[c] = "new" /\ Log(c) = <<>>
    BY DEF GoroutinesInit, Log, Procs
  <2>2. Len(Log(c)) = 0
    BY <2>1
  <2>3. InOrder(c, Log(c))
    BY <2>2 DEF InOrder
  <2>4. QED
    BY <2>1, <2>3, Zenon DEF Aims
<1>2. IInv /\ Relayed => ForwardedInOrder
  <2> SUFFICES ASSUME IInv, Relayed, NEW c \in Conns, NEW n \in 1..Len(Log(c))
               PROVE  /\ Log(c)[n].from # c /\ session[Log(c)[n].from] = session[c]
                      /\ \A m \in 1..(n - 1) : Log(c)[m].from = Log(c)[n].from => Log(c)[m].seq < Log(c)[n].seq
    BY Zenon DEF ForwardedInOrder, Log
  <2>1. InOrder(c, Log(c))
    BY Zenon DEF Relayed
  <2>2. QED
    BY <2>1, Zenon DEF InOrder, Fit
<1>3. QED
  BY <1>1, <1>2, RelayedStep, Invariance, PTL DEF Spec
=============================================================================

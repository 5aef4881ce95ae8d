-------------------------------- MODULE Relay --------------------------------
(***************************************************************************)
(* The goroutines of the relay server: one per WebSocket connection        *)
(* (internal/ws/connection.go, internal/ws/hub.go), one per HTTP request   *)
(* on /api/rooms (internal/http/rooms.go), and the sweeper                 *)
(* (Registry.CleanupExpired).  They share the rooms of module Rooms; a     *)
(* step is the code between two points where another goroutine can run.    *)
(***************************************************************************)
EXTENDS Rooms, Sequences

CONSTANTS
  Https,                \* HTTP request goroutines
  CreateAttempts,       \* random codes CreateSession tries (64 in the code)
  MaxConnectionsPerIP,  \* 0 disables the limit
  SendBufferSize,       \* capacity of Connection.sendChan
  MaxFrames,            \* bound: frames one client sends
  MaxNow                \* bound: last clock tick

ASSUME RelayAssumption ==
  /\ CreateAttempts \in Nat \ {0}
  /\ MaxConnectionsPerIP \in Nat
  /\ SendBufferSize \in Nat \ {0}
  /\ MaxFrames \in Nat /\ MaxNow \in Nat
  /\ Https \cap Conns = {}

VARIABLES
  pc,          \* where each goroutine is
  req,         \* its request: room code, client address, slot token
  session,     \* the *Session it holds (conn.session once attached)
  draw,        \* CreateSession: the clock it read, the codes it has tried
  peer,        \* local: the connection it is about to notify or forward to
  replaced,    \* local: AddResult.Replaced
  drain,       \* local: connections EndSession still has to close
  connClosed,  \* conn.closed: the socket is shut
  sendChan,    \* conn.sendChan
  sent,        \* frames read from the client so far
  delivered,   \* data frames written to the client's socket, in order
  heard,       \* history: the relay control frames written to the client
  connsByIP,   \* Hub.connsByIP
  closing,     \* expired sessions taken out of the registry, Close() pending
  sweepAt      \* the clock the sweeper read, ZeroTime when it is not sweeping

attachVars == <<peer, replaced, drain>>
dataVars   == <<sendChan, sent, delivered>>
sockVars   == <<connClosed, dataVars, heard>>
sweepVars  == <<closing, sweepAt>>
vars == <<roomVars, pc, req, session, draw, attachVars, sockVars, connsByIP, sweepVars>>

Procs  == Conns \cup Https
Frames == [from : Conns, seq : Nat]

HttpPc == {"idle", "draw", "create", "lookup", "check", "remove", "answer"}
ConnPc == {"new", "lookup", "check", "remove", "add", "reject",
           "close_old", "tell_peer", "tell_self", "read", "relay", "end",
           "drain", "cut", "return", "detach", "tell_gone", "release", "done"}
Events == {"present", "rejoined", "disconnected", "ended"}

\* A connection in Session.conns, or on its way out of it.
AttachedPc == {"close_old", "tell_peer", "tell_self", "read", "relay", "end", "drain", "cut",
               "return", "detach"}
Attached(c) == pc[c] \in AttachedPc

\* A connection whose address reserveIP has counted and releaseIP has not.
HoldsIP(c) == pc[c] \notin {"new", "done"}

Requests == [code : Codes \cup {None}, ip : IPs \cup {None}, slot : Slots \cup {None}]
NoRequest == [code |-> None, ip |-> None, slot |-> None]
NoDraw == [at |-> ZeroTime, attempts |-> 0]

GoroutinesTypeOK ==
  /\ pc \in [Procs -> ConnPc \cup HttpPc]
  /\ req \in [Procs -> Requests]
  /\ session \in [Procs -> Sessions \cup {None}]
  /\ draw \in [Https -> [at : Nat, attempts : 0..CreateAttempts]]
  /\ peer \in [Conns -> Conns \cup {None}]
  /\ replaced \in [Conns -> Conns \cup {None}]
  /\ drain \in [Conns -> SUBSET Conns]
  /\ connClosed \in [Conns -> BOOLEAN]
  /\ sendChan \in [Conns -> Seq(Frames)]
  /\ sent \in [Conns -> Nat]
  /\ delivered \in [Conns -> Seq(Frames)]
  /\ heard \in [Conns -> SUBSET [event : Events, of : Conns]]
  /\ connsByIP \in [IPs -> Nat]
  /\ closing \in SUBSET Sessions
  /\ sweepAt \in Nat

TypeOK == RoomsTypeOK /\ GoroutinesTypeOK

GoroutinesInit ==
  /\ pc = [p \in Procs |-> IF p \in Conns THEN "new" ELSE "idle"]
  /\ req = [p \in Procs |-> NoRequest]
  /\ session = [p \in Procs |-> None]
  /\ draw = [h \in Https |-> NoDraw]
  /\ peer = [c \in Conns |-> None]
  /\ replaced = [c \in Conns |-> None]
  /\ drain = [c \in Conns |-> {}]
  /\ connClosed = [c \in Conns |-> FALSE]
  /\ sendChan = [c \in Conns |-> <<>>]
  /\ sent = [c \in Conns |-> 0]
  /\ delivered = [c \in Conns |-> <<>>]
  /\ heard = [c \in Conns |-> {}]
  /\ connsByIP = [i \in IPs |-> 0]
  /\ closing = {}
  /\ sweepAt = ZeroTime

Init == RoomsInit /\ GoroutinesInit

Goto(p, l) == pc' = [pc EXCEPT ![p] = l]

\* What ranging over a Go map and taking the first entry may give, nil if empty.
OneOf(S) == IF S = {} THEN {None} ELSE S

-----------------------------------------------------------------------------
(* Connection primitives. *)

\* SendPriority: written to the socket at once, ahead of sendChan; an error
\* when the connection is closed, which every caller ignores.  The frame does not
\* say which connection it is about (of).
SendPriority(c, event, of) ==
  heard' = IF connClosed[c] THEN heard
           ELSE [heard EXCEPT ![c] = @ \cup {[event |-> event, of |-> of]}]

\* Send: never blocks; a full channel or a closed connection drops the frame.
Send(c, frame) ==
  sendChan' = IF connClosed[c] \/ Len(sendChan[c]) >= SendBufferSize
              THEN sendChan
              ELSE [sendChan EXCEPT ![c] = Append(@, frame)]

Close(C) == connClosed' = [c \in Conns |-> connClosed[c] \/ c \in C]

reserveIP(i) ==
  /\ MaxConnectionsPerIP = 0 \/ connsByIP[i] < MaxConnectionsPerIP
  /\ connsByIP' = [connsByIP EXCEPT ![i] = @ + 1]

releaseIP(i) == connsByIP' = [connsByIP EXCEPT ![i] = IF @ <= 1 THEN 0 ELSE @ - 1]

-----------------------------------------------------------------------------
(* GetSession, called by RoomInfo and AttachConnection: a lookup under     *)
(* Registry.mu, IsExpired under Session.mu, RemoveSession under            *)
(* Registry.mu again, and Close() in a goroutine of its own.               *)

GetSession(p, found, missing) ==
  \/ /\ pc[p] = "lookup"
     /\ session' = [session EXCEPT ![p] = sessions[req[p].code]]
     /\ Goto(p, IF sessions[req[p].code] = None THEN missing ELSE "check")
     /\ UNCHANGED <<roomVars, closing>>
  \/ /\ pc[p] = "check"
     /\ Goto(p, IF IsExpired(session[p]) THEN "remove" ELSE found)
     /\ UNCHANGED <<roomVars, session, closing>>
  \/ /\ pc[p] = "remove"
     /\ RemoveSession(req[p].code, session[p])
     /\ closing' = closing \cup {session[p]}
     /\ Goto(p, missing)
     /\ UNCHANGED session

-----------------------------------------------------------------------------
(* HTTP goroutines: createRoom and getRoom. *)

CreateRoom(h) ==
  /\ pc[h] = "idle"
  /\ \E i \in IPs : req' = [req EXCEPT ![h] = [NoRequest EXCEPT !.ip = i]]
  /\ Goto(h, "draw")
  /\ UNCHANGED <<roomVars, session, draw, attachVars, sockVars, connsByIP, sweepVars>>

\* One round of CreateSession's loop: a random code, and the clock read
\* before Registry.mu is taken; or the random source fails.
DrawCode(h) ==
  /\ pc[h] = "draw"
  /\ \/ /\ \E k \in Codes : req' = [req EXCEPT ![h].code = k]
        /\ draw' = [draw EXCEPT ![h].at = now, ![h].attempts = @ + 1]
        /\ Goto(h, "create")
     \/ /\ Goto(h, "answer")
        /\ UNCHANGED <<req, draw>>
  /\ UNCHANGED <<roomVars, session, attachVars, sockVars, connsByIP, sweepVars>>

\* The critical section of CreateSessionWithCode.  ErrSessionExists makes
\* CreateSession draw again; every other outcome answers the request.  The
\* Close() of the sessions it swept is CloseExpired's.
CreateCommit(h) ==
  /\ pc[h] = "create"
  /\ \/ /\ \/ CreateRefused(req[h].code, draw[h].at)
           \/ CreateExists(req[h].code, draw[h].at)
        /\ Goto(h, IF draw[h].attempts < CreateAttempts THEN "draw" ELSE "answer")
     \/ /\ \/ CreateTooMany(req[h].code, req[h].ip, draw[h].at)
           \/ \E s \in Sessions :
                CreateSessionWithCode(req[h].code, req[h].ip, draw[h].at, s)
        /\ Goto(h, "answer")
  /\ closing' = closing \cup Swept
  /\ UNCHANGED <<req, session, draw, attachVars, sockVars, connsByIP, sweepAt>>

GetRoom(h) ==
  /\ pc[h] = "idle"
  /\ \E k \in Codes : req' = [req EXCEPT ![h] = [NoRequest EXCEPT !.code = k]]
  /\ Goto(h, "lookup")
  /\ UNCHANGED <<roomVars, session, draw, attachVars, sockVars, connsByIP, sweepVars>>

RoomInfo(h) ==
  /\ GetSession(h, "answer", "answer")
  /\ UNCHANGED <<req, draw, attachVars, sockVars, connsByIP, sweepAt>>

\* The response is written and the goroutine's locals are gone.
Answer(h) ==
  /\ pc[h] = "answer"
  /\ req' = [req EXCEPT ![h] = NoRequest]
  /\ session' = [session EXCEPT ![h] = None]
  /\ draw' = [draw EXCEPT ![h] = NoDraw]
  /\ Goto(h, "idle")
  /\ UNCHANGED <<roomVars, attachVars, sockVars, connsByIP, sweepVars>>

-----------------------------------------------------------------------------
(* Connection goroutines: ServeHTTP up to AttachConnection. *)

\* Admission (rate limit, origin, code and slot syntax) has no effect on this
\* state when it refuses; when it admits, the address is counted.  The upgrade
\* that follows touches only the socket; UpgradeFailed is its error path.
ServeHTTP(c) ==
  /\ pc[c] = "new"
  /\ \E k \in Codes, t \in Slots, i \in IPs :
       /\ reserveIP(i)
       /\ req' = [req EXCEPT ![c] = [code |-> k, ip |-> i, slot |-> t]]
  /\ Goto(c, "lookup")
  /\ UNCHANGED <<roomVars, session, draw, attachVars, sockVars, sweepVars>>

\* Fault: an error path of ServeHTTP forgets releaseIP.
AbortLeaksIP(c) ==
  /\ Close({c})
  /\ Goto(c, "done")
  /\ UNCHANGED <<roomVars, req, session, draw, attachVars, dataVars, heard, connsByIP,
                 sweepVars>>

\* upgradeRaw or newConnection failed, or AttachConnection returned an error
\* (Reject): the socket is closed and the address released.
Abort(c) ==
  /\ Close({c})
  /\ releaseIP(req[c].ip)
  /\ Goto(c, "done")
  /\ UNCHANGED <<roomVars, req, session, draw, attachVars, dataVars, heard, sweepVars>>

UpgradeFailed(c) == pc[c] = "lookup" /\ Abort(c)

Reject(c) == pc[c] = "reject" /\ Abort(c)

AttachLookup(c) ==
  /\ GetSession(c, "add", "reject")
  /\ UNCHANGED <<req, draw, attachVars, sockVars, connsByIP, sweepAt>>

AttachAdd(c) ==
  /\ pc[c] = "add"
  /\ AddConnection(session[c], req[c].slot, c)
  /\ replaced' = [replaced EXCEPT ![c] = conns[session[c]][req[c].slot]]
  /\ \E x \in OneOf(OtherConns(session[c], req[c].slot)) :
       /\ peer' = [peer EXCEPT ![c] = x]
       /\ Goto(c, IF conns[session[c]][req[c].slot] # None THEN "close_old"
                  ELSE IF x # None THEN "tell_peer" ELSE "read")
  /\ UNCHANGED <<req, session, draw, drain, sockVars, connsByIP, sweepVars>>

AttachRefused(c) ==
  /\ pc[c] = "add"
  /\ ~CanAdd(session[c], req[c].slot)
  /\ Goto(c, "reject")
  /\ UNCHANGED <<roomVars, req, session, draw, attachVars, sockVars, connsByIP, sweepVars>>

CloseReplaced(c) ==
  /\ pc[c] = "close_old"
  /\ Close({replaced[c]})
  /\ replaced' = IF peer[c] = None THEN [replaced EXCEPT ![c] = None] ELSE replaced
  /\ Goto(c, IF peer[c] = None THEN "read" ELSE "tell_peer")
  /\ UNCHANGED <<roomVars, req, session, draw, peer, drain, dataVars, heard, connsByIP, sweepVars>>

TellPeer(c) ==
  /\ pc[c] = "tell_peer"
  /\ SendPriority(peer[c], IF replaced[c] = None THEN "present" ELSE "rejoined", c)
  /\ Goto(c, "tell_self")
  /\ UNCHANGED <<roomVars, req, session, draw, attachVars, connClosed, dataVars,
                 connsByIP, sweepVars>>

\* Fault: the joining connection is not told of the peer it found.
TellSelfSilent(c) ==
  /\ pc[c] = "tell_self"
  /\ peer' = [peer EXCEPT ![c] = None]
  /\ replaced' = [replaced EXCEPT ![c] = None]
  /\ Goto(c, "read")
  /\ UNCHANGED <<roomVars, req, session, draw, drain, sockVars, connsByIP, sweepVars>>

TellSelf(c) ==
  /\ pc[c] = "tell_self"
  /\ SendPriority(c, "present", peer[c])
  /\ peer' = [peer EXCEPT ![c] = None]
  /\ replaced' = [replaced EXCEPT ![c] = None]
  /\ Goto(c, "read")
  /\ UNCHANGED <<roomVars, req, session, draw, drain, connClosed, dataVars,
                 connsByIP, sweepVars>>

-----------------------------------------------------------------------------
(* Connection goroutines: readLoop and writeLoop. *)

\* A data frame arrives and PeerOf picks the connection to forward it to.
\* The reader is buffered: a frame can still be read after Close().
ReadData(c) ==
  /\ pc[c] = "read"
  /\ sent[c] < MaxFrames
  /\ sent' = [sent EXCEPT ![c] = @ + 1]
  /\ \E x \in OneOf(PeerOf(session[c], c)) : peer' = [peer EXCEPT ![c] = x]
  /\ Goto(c, IF PeerOf(session[c], c) = {} THEN "read" ELSE "relay")
  /\ UNCHANGED <<roomVars, req, session, draw, replaced, drain, connClosed, sendChan,
                 delivered, heard, connsByIP, sweepVars>>

Forward(c) ==
  /\ pc[c] = "relay"
  /\ Send(peer[c], [from |-> c, seq |-> sent[c]])
  /\ peer' = [peer EXCEPT ![c] = None]
  /\ Goto(c, "read")
  /\ UNCHANGED <<roomVars, req, session, draw, replaced, drain, connClosed, sent, delivered,
                 heard, connsByIP, sweepVars>>

\* Fault: Close marks the connection and leaves the socket open, so the read
\* blocked on it does not return.
ReadFailsWhileOpen(c) ==
  /\ pc[c] = "read"
  /\ ~connClosed[c]
  /\ Goto(c, "return")
  /\ UNCHANGED <<roomVars, req, session, draw, attachVars, sockVars, connsByIP, sweepVars>>

\* ReadMessage fails (peer gone, pong timeout, socket closed), or the frame
\* is not a binary one, or a relay command other than SESSION_END.
ReadFails(c) ==
  /\ pc[c] = "read"
  /\ Goto(c, "return")
  /\ UNCHANGED <<roomVars, req, session, draw, attachVars, sockVars, connsByIP, sweepVars>>

ReadSessionEnd(c) ==
  /\ pc[c] = "read"
  /\ Goto(c, "end")
  /\ UNCHANGED <<roomVars, req, session, draw, attachVars, sockVars, connsByIP, sweepVars>>

\* Hub.EndSession: Registry.EndSession first, DrainConnections after it.
EndTombstone(c) ==
  /\ pc[c] = "end"
  /\ EndSession(session[c])
  /\ Goto(c, "drain")
  /\ UNCHANGED <<req, session, draw, attachVars, sockVars, connsByIP, sweepVars>>

EndIgnored(c) ==
  /\ pc[c] = "end"
  /\ ~CanEnd(session[c])
  /\ Goto(c, "return")
  /\ UNCHANGED <<roomVars, req, session, draw, attachVars, sockVars, connsByIP, sweepVars>>

EndDrain(c) ==
  /\ pc[c] = "drain"
  /\ DrainConnections(session[c])
  /\ drain' = [drain EXCEPT ![c] = Drained(session[c])]
  /\ Goto(c, "cut")
  /\ UNCHANGED <<req, session, draw, peer, replaced, sockVars, connsByIP, sweepVars>>

\* Fault: CloseWithControl writes the control frame and forgets Close.
EndCutKeepsOpen(c) ==
  /\ pc[c] = "cut"
  /\ \/ \E d \in drain[c] :
          /\ SendPriority(d, "ended", c)
          /\ drain' = [drain EXCEPT ![c] = @ \ {d}]
          /\ UNCHANGED <<pc, connClosed>>
     \/ /\ drain[c] = {}
        /\ Goto(c, "return")
        /\ UNCHANGED <<heard, connClosed, drain>>
  /\ UNCHANGED <<roomVars, req, session, draw, peer, replaced, dataVars, connsByIP, sweepVars>>

\* CloseWithControl on each drained connection, in the map's order.
EndCut(c) ==
  /\ pc[c] = "cut"
  /\ \/ \E d \in drain[c] :
          /\ SendPriority(d, "ended", c)
          /\ Close({d})
          /\ drain' = [drain EXCEPT ![c] = @ \ {d}]
          /\ UNCHANGED pc
     \/ /\ drain[c] = {}
        /\ Goto(c, "return")
        /\ UNCHANGED <<heard, connClosed, drain>>
  /\ UNCHANGED <<roomVars, req, session, draw, peer, replaced, dataVars, connsByIP, sweepVars>>

\* Fault: ServeHTTP releases the address without DetachConnection.
ReturnUndetached(c) ==
  /\ pc[c] = "return"
  /\ Close({c})
  /\ Goto(c, "release")
  /\ UNCHANGED <<roomVars, req, session, draw, attachVars, dataVars, heard, connsByIP, sweepVars>>

\* readLoop's deferred Close.
Return(c) ==
  /\ pc[c] = "return"
  /\ Close({c})
  /\ Goto(c, "detach")
  /\ UNCHANGED <<roomVars, req, session, draw, attachVars, dataVars, heard, connsByIP, sweepVars>>

\* DetachConnection: the peer is told only when this connection was current.
Detach(c) ==
  /\ pc[c] = "detach"
  /\ RemoveConnection(session[c], req[c].slot, c)
  /\ \E x \in OneOf(OtherConns(session[c], req[c].slot)) :
       /\ peer' = [peer EXCEPT ![c] = x]
       /\ Goto(c, IF x = None THEN "release" ELSE "tell_gone")
  /\ UNCHANGED <<req, session, draw, replaced, drain, sockVars, connsByIP, sweepVars>>

DetachStale(c) ==
  /\ pc[c] = "detach"
  /\ ~CanRemove(session[c], req[c].slot, c)
  /\ Goto(c, "release")
  /\ UNCHANGED <<roomVars, req, session, draw, attachVars, sockVars, connsByIP, sweepVars>>

TellGone(c) ==
  /\ pc[c] = "tell_gone"
  /\ SendPriority(peer[c], "disconnected", c)
  /\ peer' = [peer EXCEPT ![c] = None]
  /\ Goto(c, "release")
  /\ UNCHANGED <<roomVars, req, session, draw, replaced, drain, connClosed, dataVars,
                 connsByIP, sweepVars>>

Release(c) ==
  /\ pc[c] = "release"
  /\ releaseIP(req[c].ip)
  /\ Goto(c, "done")
  /\ UNCHANGED <<roomVars, req, session, draw, attachVars, sockVars, sweepVars>>

\* writeLoop runs from the end of AttachConnection until Close().
Writing(c) ==
  /\ pc[c] \notin {"new", "lookup", "check", "remove", "add", "reject",
                   "close_old", "tell_peer", "tell_self"}
  /\ ~connClosed[c]

WriteLoop(c) ==
  /\ Writing(c)
  /\ sendChan[c] # <<>>
  /\ delivered' = [delivered EXCEPT ![c] = Append(@, Head(sendChan[c]))]
  /\ sendChan' = [sendChan EXCEPT ![c] = Tail(@)]
  /\ UNCHANGED <<roomVars, pc, req, session, draw, attachVars, connClosed, sent, heard,
                 connsByIP, sweepVars>>

\* Writing a frame or a ping fails: a deadline passed or the network broke.
WriteFails(c) ==
  /\ Writing(c)
  /\ Close({c})
  /\ UNCHANGED <<roomVars, pc, req, session, draw, attachVars, dataVars, heard,
                 connsByIP, sweepVars>>

-----------------------------------------------------------------------------
(* The sweeper, the Close() of expired sessions, and time. *)

SweepBegin ==
  /\ sweepAt = ZeroTime
  /\ sweepAt' = now
  /\ UNCHANGED <<roomVars, pc, req, session, draw, attachVars, sockVars, connsByIP, closing>>

\* Fault: the sweeper unregisters expired sessions and never closes them.
SweepWithoutClose ==
  /\ sweepAt # ZeroTime
  /\ sweepExpired(sweepAt)
  /\ sweepAt' = ZeroTime
  /\ UNCHANGED <<pc, req, session, draw, attachVars, sockVars, connsByIP, closing>>

Sweep ==
  /\ sweepAt # ZeroTime
  /\ sweepExpired(sweepAt)
  /\ closing' = closing \cup Swept
  /\ sweepAt' = ZeroTime
  /\ UNCHANGED <<pc, req, session, draw, attachVars, sockVars, connsByIP>>

CloseExpired(s) ==
  /\ s \in closing
  /\ DrainConnections(s)
  /\ Close(Drained(s))
  /\ closing' = closing \ {s}
  /\ UNCHANGED <<pc, req, session, draw, attachVars, dataVars, heard, connsByIP, sweepAt>>

Tick ==
  /\ now < MaxNow
  /\ now' = now + 1
  /\ UNCHANGED <<registryVars, sessionVars, pc, req, session, draw, attachVars, sockVars,
                 connsByIP, sweepVars>>

Http(h) == CreateRoom(h) \/ DrawCode(h) \/ CreateCommit(h) \/ GetRoom(h) \/ RoomInfo(h)
           \/ Answer(h)

\* What a connection goroutine does without waiting for its client.
Serve(c) ==
  \/ Reject(c) \/ AttachLookup(c) \/ AttachAdd(c) \/ AttachRefused(c)
  \/ CloseReplaced(c) \/ TellPeer(c) \/ TellSelf(c) \/ Forward(c)
  \/ EndTombstone(c) \/ EndIgnored(c) \/ EndDrain(c) \/ EndCut(c)
  \/ Return(c) \/ Detach(c) \/ DetachStale(c) \/ TellGone(c) \/ Release(c)

\* What depends on the client or the network.
Client(c) ==
  ServeHTTP(c) \/ UpgradeFailed(c) \/ ReadData(c) \/ ReadFails(c) \/ ReadSessionEnd(c)
  \/ WriteFails(c)

Next ==
  \/ \E h \in Https : Http(h)
  \/ \E c \in Conns : Serve(c) \/ Client(c) \/ WriteLoop(c)
  \/ \E s \in Sessions : CloseExpired(s)
  \/ SweepBegin \/ Sweep \/ Tick

Spec == Init /\ [][Next]_vars

\* The Go scheduler runs every goroutine that can run; a read on a closed
\* socket returns; the sweeper's ticker keeps firing.  Nothing is assumed of
\* clients, of the network, or of the clock.
Fairness ==
  /\ \A c \in Conns : WF_vars(Serve(c)) /\ WF_vars(connClosed[c] /\ ReadFails(c))
  /\ \A s \in Sessions : WF_vars(CloseExpired(s))
  /\ WF_vars(SweepBegin) /\ WF_vars(Sweep)

FairSpec == Spec /\ Fairness

-----------------------------------------------------------------------------
(* Safety. *)

\* "A private, ephemeral browser room for exactly two people": whatever order
\* joins, refreshes and leaves take, a session never holds a third connection
\* (Session.AddConnection).
AtMostTwo == \A s \in Sessions : Cardinality(Occupied(s)) <= 2

\* No ghosts: a connection held by a room is held under its own slot by the
\* session its goroutine works on, and that goroutine has yet to detach it.
\* A stale DetachConnection, a replacement or a drain never leaves a finished
\* connection behind that would keep the room alive or its slot taken.
NoGhostParticipant ==
  \A s \in Sessions, t \in Slots : conns[s][t] # None =>
    LET c == conns[s][t] IN session[c] = s /\ req[c].slot = t /\ Attached(c)

\* The converse: an open socket whose frames are read belongs to the participant
\* that holds its slot, or the goroutine that replaced or drained it is about
\* to close it.  A stale DetachConnection never takes a slot from a live one.
ServedIsParticipant ==
  \A c \in Conns : pc[c] \in {"read", "relay"} /\ ~connClosed[c] =>
    \/ conns[session[c]][req[c].slot] = c
    \/ \E d \in Conns : \/ pc[d] = "close_old" /\ replaced[d] = c
                        \/ pc[d] = "cut" /\ c \in drain[d]

Draining(s) == \E c \in Conns : pc[c] = "drain" /\ session[c] = s

\* AttachConnection holds no lock between GetSession and AddConnection, and
\* Hub.EndSession none between the registry and DrainConnections.  Even so a
\* room with a participant is registered under its code, or the goroutine
\* that ended it is about to drain it: nobody is stranded in a room that the
\* other participant can no longer reach.
OccupiedRoomReachable ==
  \A s \in Sessions : Occupied(s) # {} => sessions[code[s]] = s \/ Draining(s)

\* "Connected rooms do not expire": a session the sweeper, GetSession or
\* CreateSession took out of the registry has no connection when its Close()
\* comes to run.
ExpiryNeverCutsAPeer == \A s \in closing : Occupied(s) = {}

\* The life of a session as its participants see it.
Phase(s) ==
  IF code[s] = None THEN "none"
  ELSE IF closed[s] \/ IsExpired(s) THEN "over"
  ELSE IF sessions[code[s]] = s THEN "open" ELSE "ending"

Abstract == INSTANCE Room
              WITH Rooms <- Sessions, phase <- [s \in Sessions |-> Phase(s)], who <- conns

\* The sessions implement module Room, although a session's registry entry, its
\* ExpiresAt and its connections change in critical sections of their own and
\* GetSession and the sweeper act on an IsExpired answer after the session's
\* lock is released: only an empty room expires, an ended room loses all its
\* participants at once, and a room that is over stays over and empty.
RoomImplemented == Abstract!Spec

\* "The relay tombstones the room code for the configured session TTL": until
\* its tombstone expires a code is not registered again and the tombstone is
\* not dropped, although CreateSessionWithCode and sweepExpired judge it by a
\* clock they read before they took the lock.
TombstoneHolds ==
  [][\A k \in Codes : now < ended[k] => ended'[k] = ended[k] /\ sessions'[k] = None]_vars

\* Hub.connsByIP counts exactly the connections between reserveIP and
\* releaseIP, on every path through ServeHTTP.
IPAccounting ==
  \A i \in IPs : connsByIP[i] = Cardinality({c \in Conns : HoldsIP(c) /\ req[c].ip = i})

\* A connection that was told that another one is there.
ToldOf(a, b) ==
  \E m \in heard[a] : m.event \in {"present", "rejoined"} /\ m.of = b

\* The presence events are written after Session.mu is released.  Even so, of two
\* participants that finished attaching each was told of the other, whichever came
\* last, was replaced or raced, and whoever either of them shared the room with before.
PeersIntroduced ==
  \A s \in Sessions, t, u \in Slots :
    /\ t # u /\ {t, u} \subseteq Occupied(s)
    /\ \A c \in Conns : session[c] = s => pc[c] \notin {"close_old", "tell_peer", "tell_self"}
    => connClosed[conns[s][t]] \/ ToldOf(conns[s][t], conns[s][u])

\* What a connection is sent are frames of another connection of its room
\* (readLoop, Session.PeerOf), those of one sender in the order they were read; a
\* full sendChan may lose some, never swap or repeat them.
ForwardedInOrder ==
  \A c \in Conns : LET log == delivered[c] \o sendChan[c] IN
    \A n \in 1..Len(log) :
      /\ log[n].from # c /\ session[log[n].from] = session[c]
      /\ \A m \in 1..(n - 1) : log[m].from = log[n].from => log[m].seq < log[n].seq

-----------------------------------------------------------------------------
(* Liveness. *)

\* "End chat for both ... closes both peers": once a room is tombstoned, every
\* connection that holds its session, late joiners included, is closed,
\* detached and released.
EndClosesEveryone ==
  \A s \in Sessions : Draining(s) ~> \A c \in Conns : session[c] = s => pc[c] = "done"

\* A closed connection, replaced, drained or broken, gives its address back.
ClosedIsReleased == \A c \in Conns : connClosed[c] ~> pc[c] = "done"

\* An idle room past its expiry leaves the registry and is closed.
ExpiredIsReclaimed ==
  \A s \in Sessions : IsExpired(s) ~> closed[s] /\ ~Registered(s)
=============================================================================

------------------------------ MODULE Handshake ------------------------------
(***************************************************************************)
(* How two clients agree on session keys while they join, lose their       *)
(* connection, refresh and rejoin (session/SessionController.ts), through  *)
(* the relay's notices and forwarding (internal/ws/hub.go, connection.go). *)
(*                                                                         *)
(* A client handles statuses, notices and handshakes one at a time, from   *)
(* inboundSerial: a handler is one action.  A handshake that arrives is    *)
(* stamped with the epoch of its arrival.  On the relay every connection   *)
(* has its goroutine, which takes a step for each lock it takes and each   *)
(* frame it writes; a replaced or lost connection's goes on beside its     *)
(* successor's.  Notices are written to the socket at once; handshakes     *)
(* wait in sendChan for the write loop.                                    *)
(***************************************************************************)
EXTENDS Integers, Sequences

CONSTANTS
  Peers,     \* the two clients, one slot each
  MaxDrops   \* how many connections are lost, or pages refreshed

ASSUME HandshakeAssumption == MaxDrops \in Nat

VARIABLES
  client,   \* the controllers
  conns,    \* every connection a client opened, at the relay
  slot,     \* Session.conns: the number of the slot's connection, or 0
  uplink,   \* handshakes on the way to the relay on the client's socket
  wire,     \* the relay's socket to each client
  drops

vars == <<client, conns, slot, uplink, wire, drops>>

Other(p) == CHOOSE q \in Peers : q # p
NoKey == <<>>

\* next: the identity the client generates next.  inbox: the tasks of
\* inboundSerial.  failed: security = verification_failed.
NewClient(next) ==
  [running |-> FALSE, open |-> FALSE, local |-> NoKey, peer |-> NoKey, secure |-> FALSE,
   epoch |-> 0, initial |-> FALSE, reply |-> FALSE, failed |-> FALSE, next |-> next,
   inbox |-> <<>>]

\* step: where the goroutine is in ServeHTTP, once it has added the connection.
\* peer: the connection of the other slot it has to tell, and notice what about.
\* frames: what is still to be read from a socket the client has given up.
NewConn == [step |-> "serve", peer |-> 0, notice |-> "present", frames |-> <<>>, sendChan |-> <<>>]

Init ==
  /\ client = [p \in Peers |-> NewClient(<<p, 1>>)]
  /\ conns = [p \in Peers |-> <<>>]
  /\ slot = [p \in Peers |-> 0]
  /\ uplink = [p \in Peers |-> <<>>]
  /\ wire = [p \in Peers |-> <<>>]
  /\ drops = 0

Notice(kind) == [kind |-> kind, key |-> NoKey]
Task(kind) == [kind |-> kind, key |-> NoKey, epoch |-> 0]

-----------------------------------------------------------------------------
(* The controller's methods: a client and what it sends. *)

\* [c |-> client, out |-> the outbox after it].
With(c, out) == [c |-> c, out |-> out]

generateIdentity(c) == [c EXCEPT !.local = c.next, !.next[2] = @ + 1]

sendHandshake(x) == With(x.c, Append(x.out, x.c.local))

sendInitialHandshake(x) ==
  IF x.c.initial THEN x
  ELSE sendHandshake(With([x.c EXCEPT !.initial = TRUE], x.out))

sendReplyHandshake(x) ==
  IF x.c.reply THEN x ELSE sendHandshake(With([x.c EXCEPT !.reply = TRUE], x.out))

\* Fault: the fresh key waits for the notice of the peer's return.
prepareFreshCryptoEpochSilent(x, flush) ==
  With([generateIdentity(x.c) EXCEPT
          !.epoch = @ + 1, !.initial = FALSE, !.reply = FALSE, !.failed = FALSE,
          !.secure = FALSE, !.peer = NoKey],
       IF flush THEN <<>> ELSE x.out)

\* Packets the scheduler still holds are cleared (flush); those in the
\* socket are not.
prepareFreshCryptoEpoch(x, flush) ==
  LET c == [generateIdentity(x.c) EXCEPT
              !.epoch = @ + 1, !.initial = FALSE, !.reply = FALSE, !.failed = FALSE,
              !.secure = FALSE, !.peer = NoKey]
      fresh == With(c, IF flush THEN <<>> ELSE x.out)
  IN IF c.open THEN sendInitialHandshake(fresh) ELSE fresh

onConnectionStatus(x, status, flush) ==
  IF status = "reconnecting" THEN prepareFreshCryptoEpoch(x, flush)
  ELSE IF x.c.secure THEN x ELSE sendInitialHandshake(x)

onRelayEvent(x, event, flush) ==
  CASE event = "present" ->
         sendInitialHandshake(IF x.c.secure \/ x.c.peer # NoKey
                              THEN prepareFreshCryptoEpoch(x, flush) ELSE x)
    [] event = "disconnected" -> prepareFreshCryptoEpoch(x, flush)
    [] event = "rejoined" -> sendInitialHandshake(prepareFreshCryptoEpoch(x, flush))

handleHandshake(x, key) ==
  LET replied == sendReplyHandshake(x)
  IN IF x.c.local \in {NoKey, key} THEN x
     ELSE IF x.c.secure
     THEN With([x.c EXCEPT !.failed = @ \/ key # x.c.peer], x.out)
     ELSE With([replied.c EXCEPT !.secure = TRUE, !.peer = key], replied.out)

\* onEnvelope, for a handshake.
onEnvelope(x, task) == IF task.epoch # x.c.epoch THEN x ELSE handleHandshake(x, task.key)

run(x, task, flush) ==
  CASE task.kind = "handshake" -> onEnvelope(x, task)
    [] task.kind \in {"connected", "reconnecting"} -> onConnectionStatus(x, task.kind, flush)
    [] OTHER -> onRelayEvent(x, task.kind, flush)

-----------------------------------------------------------------------------
(* Clients. *)

\* The client's last connection, and whether connection n is its open socket.
Socket(p) == Len(conns[p])
Up(p, n) == client[p].open /\ n = Socket(p)

\* Packets wait in the scheduler while the socket is closed, and are then
\* sure to be cleared.
Handle(p) ==
  /\ client[p].inbox # <<>>
  /\ \E flush \in BOOLEAN :
       LET c == [client[p] EXCEPT !.inbox = Tail(@)]
           x == run(With(c, uplink[p]), Head(client[p].inbox), flush)
       IN /\ c.open \/ flush
          /\ client' = [client EXCEPT ![p] = x.c]
          /\ uplink' = [uplink EXCEPT ![p] = x.out]
  /\ UNCHANGED <<conns, slot, wire, drops>>

\* routeEnvelope and the status and notice callbacks.
Arrive(p) ==
  /\ client[p].open /\ wire[p] # <<>>
  /\ client' = [client EXCEPT ![p].inbox = Append(@,
       [kind |-> Head(wire[p]).kind, key |-> Head(wire[p]).key, epoch |-> client[p].epoch])]
  /\ wire' = [wire EXCEPT ![p] = Tail(@)]
  /\ UNCHANGED <<conns, slot, uplink, drops>>

\* start() makes a key, the socket opens (onopen), and the relay adds the
\* connection (AddConnection); an older one in the slot is replaced.
Open(p) ==
  LET q == Other(p)
      c == [NewConn EXCEPT !.step = IF slot[q] = 0 THEN "serve" ELSE "tell_peer",
                           !.peer = slot[q],
                           !.notice = IF slot[p] = 0 THEN "present" ELSE "rejoined"]
  IN /\ ~client[p].open
     /\ client' = [client EXCEPT ![p] =
          [IF @.running THEN @ ELSE generateIdentity(@) EXCEPT
             !.running = TRUE, !.open = TRUE, !.inbox = Append(@, Task("connected"))]]
     /\ conns' = [conns EXCEPT ![p] = Append(@, c)]
     /\ slot' = [slot EXCEPT ![p] = Len(conns'[p])]
     /\ UNCHANGED <<uplink, wire, drops>>

\* The socket is gone; the relay may still read what was sent on it.
Closed(p) ==
  /\ drops < MaxDrops
  /\ drops' = drops + 1
  /\ conns' = IF ~client[p].open THEN conns
              ELSE [conns EXCEPT ![p][Socket(p)] =
                      [@ EXCEPT !.sendChan = <<>>, !.frames = uplink[p]]]
  /\ uplink' = [uplink EXCEPT ![p] = <<>>]
  /\ wire' = [wire EXCEPT ![p] = <<>>]
  /\ UNCHANGED slot

\* The socket closes (onclose, scheduleReconnect).
Drop(p) ==
  /\ client[p].open /\ Closed(p)
  /\ client' = [client EXCEPT ![p].open = FALSE,
                              ![p].inbox = Append(@, Task("reconnecting"))]

\* The page is loaded again; the slot token survives in sessionStorage.
Refresh(p) ==
  /\ client[p].running /\ Closed(p)
  /\ client' = [client EXCEPT ![p] = NewClient(@.next)]

-----------------------------------------------------------------------------
(* The relay: the goroutine of connection n of slot p. *)

\* SendPriority to connection n of slot p; it is lost if that one is gone.
Tell(p, n, event) ==
  wire' = IF Up(p, n) THEN [wire EXCEPT ![p] = Append(@, Notice(event))] ELSE wire

AttachTellsPeer(p, n) ==
  /\ conns[p][n].step = "tell_peer"
  /\ Tell(Other(p), conns[p][n].peer, conns[p][n].notice)
  /\ conns' = [conns EXCEPT ![p][n].step = "tell_self"]
  /\ UNCHANGED <<client, slot, uplink, drops>>

AttachTellsSelf(p, n) ==
  /\ conns[p][n].step = "tell_self"
  /\ Tell(p, n, "present")
  /\ conns' = [conns EXCEPT ![p][n] = [@ EXCEPT !.step = "serve", !.peer = 0, !.notice = "present"]]
  /\ UNCHANGED <<client, slot, uplink, drops>>

\* PeerOf: any connection of the room but this one, which may have left the room.
PeerOf(p, n) == {q \in Peers : slot[q] # 0 /\ <<q, slot[q]>> # <<p, n>>}

\* readLoop, also of a socket the client has given up: a frame goes to the peer's
\* sendChan, or nowhere.
Forward(p, n) ==
  LET frames == IF Up(p, n) THEN uplink[p] ELSE conns[p][n].frames
      read == IF Up(p, n) THEN conns ELSE [conns EXCEPT ![p][n].frames = Tail(@)]
  IN /\ conns[p][n].step = "serve" /\ frames # <<>>
     /\ uplink' = IF Up(p, n) THEN [uplink EXCEPT ![p] = Tail(@)] ELSE uplink
     /\ \/ /\ PeerOf(p, n) = {} \/ \E q \in PeerOf(p, n) : ~Up(q, slot[q])
           /\ conns' = read
        \/ \E q \in PeerOf(p, n) :
             /\ Up(q, slot[q])
             /\ conns' = [read EXCEPT ![q][slot[q]].sendChan = Append(@, Head(frames))]
     /\ UNCHANGED <<client, slot, wire, drops>>

writeLoop(p, n) ==
  /\ conns[p][n].step = "serve" /\ conns[p][n].sendChan # <<>>
  /\ wire' = [wire EXCEPT ![p] =
                Append(@, [kind |-> "handshake", key |-> Head(conns[p][n].sendChan)])]
  /\ conns' = [conns EXCEPT ![p][n].sendChan = Tail(@)]
  /\ UNCHANGED <<client, slot, uplink, drops>>

\* The read fails, and RemoveConnection takes the connection out if it still has
\* its slot.
Detach(p, n) ==
  LET peer == IF slot[p] = n THEN slot[Other(p)] ELSE 0
  IN /\ conns[p][n].step = "serve" /\ ~Up(p, n)
     /\ slot' = IF slot[p] = n THEN [slot EXCEPT ![p] = 0] ELSE slot
     /\ conns' = [conns EXCEPT ![p][n] =
          [@ EXCEPT !.step = IF peer = 0 THEN "over" ELSE "tell_gone",
                    !.peer = peer, !.frames = <<>>]]
     /\ UNCHANGED <<client, uplink, wire, drops>>

\* DetachConnection tells the peer after the lock is released.
DetachTellsPeer(p, n) ==
  /\ conns[p][n].step = "tell_gone"
  /\ Tell(Other(p), conns[p][n].peer, "disconnected")
  /\ conns' = [conns EXCEPT ![p][n] = [@ EXCEPT !.step = "over", !.peer = 0]]
  /\ UNCHANGED <<client, slot, uplink, drops>>

-----------------------------------------------------------------------------
Serve(p, n) ==
  \/ AttachTellsPeer(p, n) \/ AttachTellsSelf(p, n)
  \/ Forward(p, n) \/ writeLoop(p, n) \/ Detach(p, n) \/ DetachTellsPeer(p, n)

Next ==
  \E p \in Peers :
    \/ Handle(p) \/ Arrive(p) \/ Open(p) \/ Drop(p) \/ Refresh(p)
    \/ \E n \in DOMAIN conns[p] : Serve(p, n)

Spec == Init /\ [][Next]_vars

-----------------------------------------------------------------------------
(* Properties. *)

Agreed ==
  \A p \in Peers : client[p].secure /\ client[p].peer = client[Other(p)].local

\* Everyone is connected and nothing is on its way.
Quiet ==
  \A p \in Peers :
    /\ Up(p, Socket(p)) /\ client[p].inbox = <<>> /\ uplink[p] = <<>> /\ wire[p] = <<>>
    /\ \A n \in DOMAIN conns[p] :
         conns[p][n].step = IF n = Socket(p) THEN "serve" ELSE "over"
    /\ conns[p][Socket(p)].sendChan = <<>>

\* Handshakes are never repeated, so a lost one must not be missed: once nothing
\* is on its way, the clients share a session, or a connection was lost and one of
\* them reports that the peer's identity changed (handleHandshake,
\* sendReplyHandshake, AttachConnection, DetachConnection).
StuckIsShown == Quiet => Agreed \/ (drops > 0 /\ \E p \in Peers : client[p].failed)

\* Two clients that stay connected end up in one session, after any number of
\* lost connections and refreshes.
SessionReestablished == Quiet => Agreed
=============================================================================

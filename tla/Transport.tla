------------------------------ MODULE Transport ------------------------------
(***************************************************************************)
(* A client's connection to the relay (transport/WebSocketConnection.ts)   *)
(* over the packet scheduler, driven by the parts of SessionController     *)
(* that enter and leave a room.                                            *)
(*                                                                         *)
(* A step is the code between two awaits or events, with the promise       *)
(* reactions it triggers.  The error and close events of a socket that     *)
(* never opened are one step.  Socket identities are reused once closed:   *)
(* handlers only ask whether their socket is the one open() made last.     *)
(***************************************************************************)
EXTENDS PacketScheduler

CONSTANTS
  Socks,       \* WebSocket objects
  None,        \* null
  VoiceLimit   \* VOICE_BROWSER_BUFFER_LIMIT_BYTES

ASSUME TransportAssumption ==
  /\ None \notin Socks
  /\ VoiceLimit \in Nat
  /\ \A f \in Profiles : f.maxAttempts \in Nat /\ f.maxBuffered \in Nat /\ f.resume \in Nat

VARIABLES
  sock,             \* readyState of each socket; "none" before its creation
  opened,           \* the local `opened` of the open() that made it
  ws,               \* this.ws
  cur,              \* the socket of the current epoch: the last one open() made
  status,           \* statusValue
  intentionalClose,
  attempts,         \* reconnectAttempts
  reconnectTimer,   \* a reconnect timer is pending
  draining,
  drainTimer,       \* a drain timer is pending
  buffered,         \* bufferedAmount of ws
  slotToken,        \* a slot token is known
  phase,            \* "pre": start screen; "starting": creating, joining; "chat"
  startup,          \* how far createRoom or joinRoom has come
  awaited,          \* the socket whose opening start() awaits
  endTask,          \* an inbound session.ended task of this lifecycle is queued
  endTimer          \* endSessionTimer is pending

sockVars  == <<sock, opened, ws, cur>>
connVars  == <<status, intentionalClose, attempts, reconnectTimer>>
drainVars == <<draining, drainTimer, buffered>>
userVars  == <<slotToken, phase, startup, awaited, endTask, endTimer>>
vars == <<out, sockVars, connVars, drainVars, userVars>>

Init ==
  /\ SchedulerInit
  /\ sock = [s \in Socks |-> "none"] /\ opened = [s \in Socks |-> FALSE]
  /\ ws = None /\ cur = None
  /\ status = "disconnected" /\ intentionalClose = FALSE
  /\ attempts = 0 /\ reconnectTimer = FALSE
  /\ draining = FALSE /\ drainTimer = FALSE /\ buffered = 0
  /\ slotToken = FALSE /\ phase = "pre" /\ startup = "none" /\ awaited = None
  /\ endTask = FALSE /\ endTimer = FALSE

IsOpen(w) == w # None /\ sock[w] = "open"

-----------------------------------------------------------------------------
(* Draining the queue into the socket. *)

\* Fault: a full browser buffer only ends the loop.
IterateForgets(o, isOpen, timer) ==
  IF ~isOpen \/ buffered > o.profile.maxBuffered \/ Ready(o) = {}
  THEN out' = o /\ draining' = FALSE /\ drainTimer' = timer /\ UNCHANGED buffered
  ELSE /\ out' = next(o)
       /\ buffered' = buffered + NextPacket(o).size
       /\ draining' = (buffered' <= o.profile.resume)
       /\ drainTimer' = timer

\* The voice packets that next() returns while the browser's buffer is too full
\* for them are dropped, in one go.
WithoutLateVoice(o) ==
  IF buffered > VoiceLimit /\ Ready(o) # {} /\ Top(o) = "voice"
  THEN clearLane(o, "voice") ELSE o

\* One round of drain()'s loop on queue o, from its start or an await to the
\* next await or the end.
Iterate(o, isOpen, timer) ==
  LET u == WithoutLateVoice(o)
  IN IF ~isOpen
     THEN out' = o /\ draining' = FALSE /\ drainTimer' = timer /\ UNCHANGED buffered
     ELSE IF buffered > o.profile.maxBuffered
     THEN out' = o /\ draining' = FALSE /\ drainTimer' = TRUE /\ UNCHANGED buffered
     ELSE IF Ready(u) = {}
     THEN out' = u /\ draining' = FALSE /\ drainTimer' = timer /\ UNCHANGED buffered
     ELSE /\ out' = next(u)
          /\ buffered' = buffered + NextPacket(u).size
          /\ draining' = (buffered' <= o.profile.resume)
          /\ drainTimer' = (timer \/ buffered' > o.profile.resume)

\* drain() up to its first await.
drain(o, isOpen) ==
  IF draining \/ ~isOpen
  THEN out' = o /\ UNCHANGED drainVars
  ELSE Iterate(o, isOpen, FALSE)

\* The await of the loop is over.
DrainStep ==
  /\ draining
  /\ Iterate(out, IsOpen(ws), drainTimer)
  /\ UNCHANGED <<sockVars, connVars, userVars>>

DrainTimer ==
  /\ drainTimer
  /\ IF draining \/ ~IsOpen(ws)
     THEN drainTimer' = FALSE /\ UNCHANGED <<out, draining, buffered>>
     ELSE Iterate(out, TRUE, FALSE)
  /\ UNCHANGED <<sockVars, connVars, userVars>>

\* The browser writes to the network.
Flush ==
  /\ IsOpen(ws) /\ buffered > 0
  /\ buffered' = buffered - 1
  /\ UNCHANGED <<out, sockVars, connVars, draining, drainTimer, userVars>>

\* send(): voice is refused unless it can go out now; a refused packet may
\* still have made the lane drop others.
send(p) ==
  IF p.lane = "voice" /\ (~IsOpen(ws) \/ buffered > VoiceLimit)
  THEN UNCHANGED <<out, drainVars>>
  ELSE IF Accepts(out, p) THEN drain(enqueue(out, p), IsOpen(ws))
  ELSE out' = enqueue(out, p) /\ UNCHANGED drainVars

\* The session controller sends while it holds a secure session or a key to
\* announce: in a chat, until the loss of the connection reaches it.  A packet
\* remembers the socket it was meant for.
Send(p) ==
  /\ phase = "chat"
  /\ status \in {"connected", "reconnecting"} \/ endTask
  /\ p.born = IF IsOpen(ws) THEN ws ELSE None
  /\ send(p)
  /\ UNCHANGED <<sockVars, connVars, userVars>>

\* clearQueuedPackets, as called by prepareFreshCryptoEpoch.
FreshEpoch ==
  /\ phase = "chat"
  /\ out' = clear(out) /\ drainTimer' = FALSE
  /\ UNCHANGED <<sockVars, connVars, draining, buffered, userVars>>

-----------------------------------------------------------------------------
(* Leaving a room. *)

\* Fault: a socket that is still connecting is left alone.
ClosingOpenOnly(f, w) ==
  IF w # None /\ f[w] = "open" THEN [f EXCEPT ![w] = "closing"] ELSE f

Closing(f, w) ==
  IF w # None /\ f[w] \in {"connecting", "open"} THEN [f EXCEPT ![w] = "closing"] ELSE f

\* Fault: a pending reconnection survives.
disconnectKeepsTimer(f, w) ==
  /\ intentionalClose' = TRUE
  /\ drainTimer' = FALSE
  /\ out' = clear(out)
  /\ sock' = Closing(f, w) /\ ws' = None
  /\ status' = "disconnected"
  /\ endTask' = FALSE /\ endTimer' = FALSE
  /\ UNCHANGED <<opened, cur, attempts, reconnectTimer, draining, buffered>>

\* SessionController.disconnect with WebSocketConnection.disconnect, where f
\* are the states of the sockets and w is this.ws.
disconnect(f, w) ==
  /\ intentionalClose' = TRUE
  /\ reconnectTimer' = FALSE /\ drainTimer' = FALSE
  /\ out' = clear(out)
  /\ sock' = Closing(f, w) /\ ws' = None
  /\ status' = "disconnected"
  /\ endTask' = FALSE /\ endTimer' = FALSE
  /\ UNCHANGED <<opened, cur, attempts, draining, buffered>>

\* disconnect(false, true): a start() that has not connected yet will notice.
leave ==
  /\ disconnect(sock, ws)
  /\ phase' = "pre" /\ slotToken' = FALSE
  /\ startup' = IF startup = "preparing" THEN "stale" ELSE startup
  /\ UNCHANGED awaited

\* Fault: no fallback if the relay does not answer.
EndChatUntimed ==
  /\ phase = "chat"
  /\ IF IsOpen(ws)
     THEN /\ slotToken' = FALSE
          /\ UNCHANGED <<out, sockVars, connVars, drainVars, phase, startup, awaited, endTask,
                         endTimer>>
     ELSE leave

EndChat ==
  /\ phase = "chat"
  /\ IF IsOpen(ws)
     THEN /\ slotToken' = FALSE /\ endTimer' = TRUE
          /\ UNCHANGED <<out, sockVars, connVars, drainVars, phase, startup, awaited, endTask>>
     ELSE leave

EndTimer == endTimer /\ leave

EndTask == endTask /\ leave

-----------------------------------------------------------------------------
(* Entering a room. *)

\* createRoom or joinRoom, up to the relay's answer.
Begin ==
  /\ phase = "pre" /\ startup = "none"
  /\ phase' = "starting" /\ startup' = "lookup"
  /\ UNCHANGED <<out, sockVars, connVars, drainVars, slotToken, awaited, endTask, endTimer>>

\* start(): leave the old room, take the new one's profile, make a key.
\* setProfile's drain finds no socket.
Start(f) ==
  /\ startup = "lookup"
  /\ intentionalClose' = TRUE
  /\ reconnectTimer' = FALSE /\ drainTimer' = FALSE
  /\ out' = [clear(out) EXCEPT !.profile = f]
  /\ sock' = Closing(sock, ws) /\ ws' = None
  /\ status' = "disconnected"
  /\ endTask' = FALSE /\ endTimer' = FALSE
  /\ phase' = "starting" /\ startup' = "preparing"
  /\ UNCHANGED <<opened, cur, attempts, draining, buffered, slotToken, awaited>>

\* The lookup, or making the key, fails: disconnect(true).
StartFails ==
  /\ startup \in {"lookup", "preparing", "stale"}
  /\ disconnect(sock, ws)
  /\ phase' = "pre" /\ startup' = "none"
  /\ UNCHANGED <<slotToken, awaited>>

\* Fault: the early return leaves startupInFlight set.
StartStaleHeld == startup = "stale" /\ UNCHANGED vars

\* The key is made, but the room was left meanwhile: start() returns.
StartStale ==
  /\ startup = "stale"
  /\ startup' = "none"
  /\ UNCHANGED <<out, sockVars, connVars, drainVars, slotToken, phase, awaited, endTask, endTimer>>

open(s, reconnecting) ==
  /\ sock[s] \in {"none", "closed"}
  /\ sock' = [Closing(sock, ws) EXCEPT ![s] = "connecting"]
  /\ opened' = [opened EXCEPT ![s] = FALSE]
  /\ ws' = s /\ cur' = s /\ buffered' = 0
  /\ status' = IF reconnecting THEN "reconnecting" ELSE "connecting"

connect(s) ==
  /\ startup = "preparing"
  /\ slotToken' = TRUE
  /\ intentionalClose' = FALSE /\ attempts' = 0
  /\ open(s, FALSE)
  /\ startup' = "connecting" /\ awaited' = s
  /\ UNCHANGED <<out, reconnectTimer, draining, drainTimer, phase, endTask, endTimer>>

-----------------------------------------------------------------------------
(* Socket events and the reconnect timer. *)

\* onopen; start() goes on if it awaits this socket.
Opens(s) ==
  /\ sock[s] = "connecting"
  /\ sock' = [sock EXCEPT ![s] = "open"]
  /\ IF s = cur
     THEN /\ opened' = [opened EXCEPT ![s] = TRUE]
          /\ attempts' = 0 /\ status' = "connected"
          /\ drain(out, TRUE)
          /\ IF awaited = s
             THEN phase' = "chat" /\ startup' = "none" /\ awaited' = None
             ELSE UNCHANGED <<phase, startup, awaited>>
     ELSE UNCHANGED <<out, opened, attempts, status, drainVars, phase, startup, awaited>>
  /\ UNCHANGED <<ws, cur, intentionalClose, reconnectTimer, slotToken, endTask, endTimer>>

\* The relay or the network begins to close a socket.
Closes(s) ==
  /\ sock[s] = "open"
  /\ sock' = [sock EXCEPT ![s] = "closing"]
  /\ UNCHANGED <<out, opened, ws, cur, connVars, drainVars, userVars>>

\* The relay's session.ended message.
MessageEnded(s) ==
  /\ sock[s] = "open" /\ s = cur
  /\ intentionalClose' = TRUE /\ endTask' = TRUE
  /\ UNCHANGED <<out, sockVars, status, attempts, reconnectTimer, drainVars, slotToken, phase,
                 startup, awaited, endTimer>>

\* Fault: the attempts are not counted.
scheduleReconnectForever ==
  IF intentionalClose THEN UNCHANGED <<status, attempts, reconnectTimer>>
  ELSE status' = "reconnecting" /\ reconnectTimer' = TRUE /\ UNCHANGED attempts

scheduleReconnect ==
  IF intentionalClose THEN UNCHANGED <<status, attempts, reconnectTimer>>
  ELSE IF attempts >= out.profile.maxAttempts
  THEN status' = "failed" /\ UNCHANGED <<attempts, reconnectTimer>>
  ELSE status' = "reconnecting" /\ attempts' = attempts + 1 /\ reconnectTimer' = TRUE

Shut(s) == [sock EXCEPT ![s] = "closed"]
Without(s) == IF ws = s THEN None ELSE ws

\* onclose of a socket that open() has replaced.
ClosedOld(s) ==
  /\ s # cur
  /\ sock' = Shut(s)
  /\ UNCHANGED <<out, opened, ws, cur, connVars, drainVars, userVars>>

\* The connection that start() awaits fails: createRoom's disconnect(true).
ConnectFails(s) ==
  /\ s = cur /\ ~opened[s] /\ awaited = s
  /\ disconnect(Shut(s), Without(s))
  /\ phase' = "pre" /\ startup' = "none" /\ awaited' = None
  /\ UNCHANGED slotToken

\* A reconnection fails: open(true).catch.
ReconnectFails(s) ==
  /\ s = cur /\ ~opened[s] /\ awaited # s
  /\ sock' = Shut(s) /\ ws' = Without(s)
  /\ scheduleReconnect
  /\ UNCHANGED <<out, opened, cur, intentionalClose, drainVars, userVars>>

\* Closed with code 4000, which the relay sends when the chat has ended.
ClosedByEnd(s) ==
  /\ s = cur /\ opened[s]
  /\ sock' = Shut(s) /\ ws' = Without(s)
  /\ intentionalClose' = TRUE
  /\ out' = clear(out) /\ drainTimer' = FALSE
  /\ endTask' = TRUE
  /\ status' = "disconnected"
  /\ UNCHANGED <<opened, cur, attempts, reconnectTimer, draining, buffered, slotToken, phase,
                 startup, awaited, endTimer>>

ClosedOnPurpose(s) ==
  /\ s = cur /\ opened[s] /\ intentionalClose
  /\ sock' = Shut(s) /\ ws' = Without(s)
  /\ status' = "disconnected"
  /\ UNCHANGED <<out, opened, cur, intentionalClose, attempts, reconnectTimer, drainVars, userVars>>

\* Fault: packets wait for the next connection.
LostKeepsQueue(s) ==
  /\ s = cur /\ opened[s] /\ ~intentionalClose
  /\ sock' = Shut(s) /\ ws' = Without(s)
  /\ scheduleReconnect
  /\ UNCHANGED <<out, drainTimer, opened, cur, intentionalClose, draining, buffered, userVars>>

Lost(s) ==
  /\ s = cur /\ opened[s] /\ ~intentionalClose
  /\ sock' = Shut(s) /\ ws' = Without(s)
  /\ out' = clear(out) /\ drainTimer' = FALSE
  /\ scheduleReconnect
  /\ UNCHANGED <<opened, cur, intentionalClose, draining, buffered, userVars>>

Closed(s) ==
  /\ sock[s] \in {"connecting", "open", "closing"}
  /\ \/ ClosedOld(s) \/ ConnectFails(s) \/ ReconnectFails(s)
     \/ ClosedByEnd(s) \/ ClosedOnPurpose(s) \/ Lost(s)

\* The reconnect timer's callback.
Reconnect(s) ==
  /\ reconnectTimer
  /\ reconnectTimer' = FALSE
  /\ IF intentionalClose THEN UNCHANGED <<sockVars, status, buffered>> ELSE open(s, TRUE)
  /\ UNCHANGED <<out, intentionalClose, attempts, draining, drainTimer, userVars>>

Next ==
  \/ DrainStep \/ DrainTimer \/ Flush \/ FreshEpoch
  \/ \E p \in Packets : Send(p)
  \/ EndChat \/ EndTimer \/ EndTask
  \/ Begin \/ StartFails \/ StartStale
  \/ \E f \in Profiles : Start(f)
  \/ \E s \in Socks : connect(s) \/ Opens(s) \/ Closes(s) \/ MessageEnded(s) \/ Closed(s)
                      \/ Reconnect(s)

Spec == Init /\ [][Next]_vars

\* Promises settle, timers fire, the browser reports the end of every attempt to
\* open or close a socket and writes what it has buffered.
Fairness ==
  /\ WF_vars(DrainStep) /\ WF_vars(DrainTimer) /\ WF_vars(Flush)
  /\ WF_vars(EndTimer) /\ WF_vars(EndTask)
  /\ WF_vars(\E f \in Profiles : Start(f)) /\ WF_vars(\E s \in Socks : connect(s))
  /\ WF_vars(StartStale)
  /\ \A s \in Socks : WF_vars(sock[s] # "open" /\ (Opens(s) \/ Closed(s)))
  /\ WF_vars(\E s \in Socks : Reconnect(s))

FairSpec == Spec /\ Fairness

-----------------------------------------------------------------------------
\* A device holds one connection: whatever createRoom, disconnect, a lost
\* connection and the reconnect timer do in whatever order, a socket that is
\* open or opening is the one in use (open, closeSocket).
NoOrphanSocket ==
  \A s \in Socks : sock[s] \in {"connecting", "open"} => ws = s

\* Packets in the queue of an open connection are on their way: the loop is
\* running or a timer will start it (drain, scheduleDrain, clearDrainTimer).
NoLostWakeup ==
  IsOpen(ws) /\ Ready(out) # {} => draining \/ drainTimer

\* "stale queued encrypted packets ... are discarded": nothing queued for one
\* connection is sent on another (onclose, disconnect).
NoCarryOver ==
  IsOpen(ws) => \A l \in Lanes : \A i \in DOMAIN out.queues[l] :
                   out.queues[l][i].born \in {None, ws}

\* The status shown is what the sockets and timers are about to do: a device
\* that says it is reconnecting has a timer or an attempt under way, and one
\* that says it is disconnected or has failed has neither.
StatusIsTrue ==
  /\ status \in {"connecting", "reconnecting"} =>
       reconnectTimer \/ (ws # None /\ sock[ws] = "connecting")
  /\ status = "connected" => ws # None /\ opened[ws]
  /\ status \in {"disconnected", "failed"} => ws = None /\ ~reconnectTimer

\* A device opens connections without a slot token only between "End chat for
\* both" and its fallback timer (forgetSlotToken, endSessionTimer).
SlotIsKnown ==
  status \in {"connecting", "reconnecting"} => slotToken \/ endTimer

\* "Refresh and temporary network loss preserve the room": an interrupted
\* connection is restored, given up visibly, or left.
Settles == status \in {"connecting", "reconnecting"} ~> status \notin {"connecting", "reconnecting"}

\* createRoom and joinRoom return, so that startupInFlight is released.
StartupReturns == startup # "none" ~> startup = "none"
=============================================================================

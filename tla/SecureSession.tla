---------------------------- MODULE SecureSession ----------------------------
(***************************************************************************)
(* Two clients' encrypted sessions: the crypto tasks of SessionController  *)
(* (cryptoSerial), the requests they make through CryptoClient, which may  *)
(* time out, and the crypto worker that serves them.                       *)
(*                                                                         *)
(* Any handshake of the other client may arrive, fresh or stale.  Packets  *)
(* of different lanes overtake one another, packets of an earlier session  *)
(* arrive in a later one, and a packet that stays in the network is lost;  *)
(* nothing is duplicated.  One room: the first Fresh of a client is        *)
(* start(), the others are prepareFreshCryptoEpoch.                        *)
(***************************************************************************)
EXTENDS CryptoWorker

CONSTANTS
  Peers,        \* the two clients
  MaxEpochs,    \* bound: secure epochs of the clients, together
  MaxSent,      \* bound: messages each client encrypts
  MaxTimeouts   \* bound: requests that time out

ASSUME SecureSessionAssumption ==
  /\ \E p, q \in Peers : p # q /\ Peers = {p, q}
  /\ MaxEpochs \in Nat /\ MaxTimeouts \in Nat /\ MaxSent \in [Peers -> Nat]

VARIABLES
  ctl,       \* the SessionControllers
  rpc,       \* the CryptoClients
  worker,    \* the crypto workers
  net,       \* packets between the clients
  owner,     \* who generated each identity
  sent,      \* messages handed to encryptAppMessage
  timeouts,
  sealed     \* history: the message keys of the packets given to the transport

vars == <<ctl, rpc, worker, net, owner, sent, timeouts, sealed>>

Other(p) == CHOOSE q \in Peers : q # p

\* secure: the peer key of this.secure.  handler: what the inbound task at work
\* is doing.  serial: the tasks of cryptoSerial, in every epoch; the first of
\* each is at work.
NewController ==
  [epoch |-> 0, local |-> NoKey, secure |-> NoKey, handler |-> "idle",
   serial |-> [e \in 0..MaxEpochs |-> <<>>]]

\* chain: the requests not yet settled; the first is pending.  inbox: the
\* requests the worker has not handled; those that timed out stay there.
NewClient == [ready |-> FALSE, chain |-> <<>>, inbox |-> <<>>]

Init ==
  /\ ctl = [p \in Peers |-> NewController]
  /\ rpc = [p \in Peers |-> NewClient]
  /\ worker = [p \in Peers |-> NewWorker]
  /\ net = {} /\ owner = <<>>
  /\ sent = [p \in Peers |-> 0] /\ timeouts = 0
  /\ sealed = [p \in Peers |-> <<>>]

Request(type, epoch, key) == [type |-> type, epoch |-> epoch, key |-> key]

-----------------------------------------------------------------------------
(* CryptoClient: x is a controller and its client, [c, r]. *)

serialRequest(x, req) ==
  [x EXCEPT !.r.chain = Append(@, req),
            !.r.inbox = IF x.r.chain = <<>> THEN Append(@, req) ELSE @]

\* The pending request is settled, and rawRequest posts the next.
Settled(r) ==
  [r EXCEPT !.chain = Tail(@),
            !.inbox = IF Len(r.chain) > 1 THEN Append(@, r.chain[2]) ELSE @]

\* The worker's answer belongs to the pending request.
Awaited(r) == r.chain # <<>> /\ Len(r.inbox) = 1

-----------------------------------------------------------------------------
(* SessionController. *)

runCrypto(x, req) ==
  LET y == [x EXCEPT !.c.serial[req.epoch] = Append(@, req)]
  IN IF x.c.serial[req.epoch] = <<>> THEN serialRequest(y, req) ELSE y

\* The task of cryptoSerial at work in epoch e ends, and the next begins.
TaskDone(x, e) ==
  LET y == [x EXCEPT !.c.serial[e] = Tail(@)]
  IN IF Len(x.c.serial[e]) > 1 THEN serialRequest(y, x.c.serial[e][2]) ELSE y

HandlerDone(x) == [x EXCEPT !.c.handler = "idle"]

\* What the caller of req does with its result v.
resolved(x, req, v) ==
  CASE req.type = "RESET" -> serialRequest(x, Request("CONFIGURE", req.epoch, NoKey))
    [] req.type = "CONFIGURE" /\ req.key = NoKey ->
         serialRequest(x, Request("GENERATE", req.epoch, NoKey))
    [] req.type = "CONFIGURE" /\ req.key # NoKey ->
         serialRequest(x, Request("ESTABLISH", req.epoch, req.key))
    [] req.type = "GENERATE" -> HandlerDone([x EXCEPT !.c.local = v])
    [] req.type = "ESTABLISH" ->
         HandlerDone(TaskDone([x EXCEPT !.c.secure = req.key], req.epoch))
    [] req.type = "ENCRYPT" -> TaskDone(x, req.epoch)
    [] req.type = "DECRYPT" -> HandlerDone(TaskDone(x, req.epoch))

\* Fault: a handshake whose establishment timed out counts as done.
rejectedIgnored(x, req) ==
  IF req.type = "RESET" THEN serialRequest(x, Request("CONFIGURE", req.epoch, NoKey))
  ELSE IF req.type = "ENCRYPT" THEN TaskDone(x, req.epoch)
  ELSE IF req.type = "GENERATE" \/ (req.type = "CONFIGURE" /\ req.key = NoKey) THEN HandlerDone(x)
  ELSE HandlerDone(TaskDone([x EXCEPT !.c.secure = req.key], req.epoch))

\* What it does with an error: only a failed reset is passed over.
rejected(x, req) ==
  IF req.type = "RESET" THEN serialRequest(x, Request("CONFIGURE", req.epoch, NoKey))
  ELSE IF req.type = "ENCRYPT" THEN TaskDone(x, req.epoch)
  ELSE IF req.type = "GENERATE" \/ (req.type = "CONFIGURE" /\ req.key = NoKey) THEN HandlerDone(x)
  ELSE HandlerDone(TaskDone(x, req.epoch))

At(p) == [c |-> ctl[p], r |-> rpc[p]]
Put(p, x) == ctl' = [ctl EXCEPT ![p] = x.c] /\ rpc' = [rpc EXCEPT ![p] = x.r]

\* start() and prepareFreshCryptoEpoch, up to the first await.
Fresh(p) ==
  /\ ctl[p].handler = "idle" /\ ctl[p].epoch + ctl[Other(p)].epoch < MaxEpochs
  /\ LET c == [ctl[p] EXCEPT !.epoch = @ + 1, !.local = NoKey, !.secure = NoKey,
                             !.handler = "fresh"]
     IN Put(p, serialRequest([c |-> c, r |-> rpc[p]], Request("RESET", c.epoch, NoKey)))
  /\ UNCHANGED <<worker, net, owner, sent, timeouts, sealed>>

\* handleHandshake, with a key the other client has generated.
HandshakeArrives(p, k) ==
  /\ ctl[p].handler = "idle" /\ ctl[p].local # NoKey /\ ctl[p].secure = NoKey
  /\ owner[k] = Other(p)
  /\ Put(p, runCrypto([At(p) EXCEPT !.c.handler = "handshake"],
                      Request("CONFIGURE", ctl[p].epoch, k)))
  /\ UNCHANGED <<worker, net, owner, sent, timeouts, sealed>>

\* sendRawApp, up to its await.
SendRawApp(p) ==
  /\ ctl[p].secure # NoKey /\ sent[p] < MaxSent[p]
  /\ sent' = [sent EXCEPT ![p] = @ + 1]
  /\ Put(p, runCrypto(At(p), Request("ENCRYPT", ctl[p].epoch, NoKey)))
  /\ UNCHANGED <<worker, net, owner, timeouts, sealed>>

\* onEnvelope, for a data packet; without a session it is dropped.
OnEnvelope(p, pk) ==
  /\ pk \in net /\ pk.to = p
  /\ ctl[p].handler = "idle"
  /\ net' = net \ {pk}
  /\ IF ctl[p].secure = NoKey THEN UNCHANGED <<ctl, rpc>>
     ELSE Put(p, runCrypto([At(p) EXCEPT !.c.handler = "decrypt"],
                           [type |-> "DECRYPT", epoch |-> ctl[p].epoch, packet |-> pk]))
  /\ UNCHANGED <<worker, owner, sent, timeouts, sealed>>

-----------------------------------------------------------------------------
(* The worker, and the answers the controller gets. *)

WorkerReady(p) ==
  /\ ~rpc[p].ready
  /\ rpc' = [rpc EXCEPT ![p].ready = TRUE]
  /\ UNCHANGED <<ctl, worker, net, owner, sent, timeouts, sealed>>

\* The worker after req.
handle(w, req) ==
  CASE req.type = "RESET" -> resetAll(w)
    [] req.type = "CONFIGURE" -> resetSession(w)
    [] req.type = "GENERATE" -> generateIdentity(w, Len(owner) + 1)
    [] req.type = "ESTABLISH" -> IF CanEstablish(w, req.key) THEN establishSession(w, req.key) ELSE w
    [] req.type = "ENCRYPT" -> IF Established(w) THEN encryptBinary(w) ELSE w
    [] req.type = "DECRYPT" -> decryptBinary(w, req.packet)

\* handle throws no error.
Succeeds(w, req) ==
  CASE req.type = "ESTABLISH" -> CanEstablish(w, req.key)
    [] req.type = "ENCRYPT" -> Established(w)
    [] req.type = "DECRYPT" -> Opens(w, req.packet)
    [] OTHER -> TRUE

\* Fault: what was encrypted is sent, however long it took.
TransmitLate(p, req) ==
  IF req.type = "ENCRYPT" /\ Awaited(rpc[p]) /\ Established(worker[p])
  THEN LET pk == Sealed(worker[p])
       IN /\ net' = net \cup {[to |-> Other(p), key |-> pk.key, counter |-> pk.counter]}
          /\ sealed' = [sealed EXCEPT ![p] = Append(@, pk.key)]
  ELSE UNCHANGED <<net, sealed>>

\* sendRawApp gives the transport what was encrypted, in its own epoch only.
Transmit(p, req) ==
  IF /\ req.type = "ENCRYPT" /\ Awaited(rpc[p]) /\ Established(worker[p])
     /\ req.epoch = ctl[p].epoch
  THEN LET pk == Sealed(worker[p])
       IN /\ net' = net \cup {[to |-> Other(p), key |-> pk.key, counter |-> pk.counter]}
          /\ sealed' = [sealed EXCEPT ![p] = Append(@, pk.key)]
  ELSE UNCHANGED <<net, sealed>>

\* The worker handles a request; a caller that still waits for it goes on.
Handle(p) ==
  /\ rpc[p].ready /\ rpc[p].inbox # <<>>
  /\ LET req == Head(rpc[p].inbox)
         taken == [rpc[p] EXCEPT !.inbox = Tail(@)]
         x == [c |-> ctl[p], r |-> Settled(taken)]
     IN /\ worker' = [worker EXCEPT ![p] = handle(@, req)]
        /\ owner' = IF req.type = "GENERATE" THEN Append(owner, p) ELSE owner
        /\ Transmit(p, req)
        /\ IF ~Awaited(rpc[p]) THEN Put(p, [c |-> ctl[p], r |-> taken])
           ELSE IF Succeeds(worker[p], req) THEN Put(p, resolved(x, req, Len(owner) + 1))
           ELSE Put(p, rejected(x, req))
  /\ UNCHANGED <<sent, timeouts>>

\* waitReady or rawRequest gives up; what was posted is handled all the same.
Timeout(p) ==
  /\ rpc[p].chain # <<>> /\ timeouts < MaxTimeouts
  /\ LET r == IF rpc[p].ready THEN rpc[p] ELSE [rpc[p] EXCEPT !.inbox = <<>>]
     IN Put(p, rejected([c |-> ctl[p], r |-> Settled(r)], Head(rpc[p].chain)))
  /\ timeouts' = timeouts + 1
  /\ UNCHANGED <<worker, net, owner, sent, sealed>>

Next ==
  \E p \in Peers :
    \/ Fresh(p) \/ SendRawApp(p) \/ WorkerReady(p) \/ Handle(p) \/ Timeout(p)
    \/ \E k \in DOMAIN owner : HandshakeArrives(p, k)
    \/ \E pk \in net : OnEnvelope(p, pk)

Spec == Init /\ [][Next]_vars

-----------------------------------------------------------------------------
\* What the user sees as encrypted is: while a client holds a secure channel, its
\* worker holds the session of that channel's two keys, whatever timed out and
\* whatever requests of an earlier epoch are still to be handled.
SecureIsReal ==
  \A p \in Peers : ctl[p].secure # NoKey =>
    /\ worker[p].identity = ctl[p].local
    /\ worker[p].sendChain.pair = {ctl[p].local, ctl[p].secure}

\* sendRawApp awaits the encryption, and epochs end meanwhile: what it then gives to
\* the transport is sealed with the session of the two keys the client holds at that
\* moment, never with one it has given up or with one the worker alone still has.
SentUnderSession ==
  [][\A p \in Peers : sealed'[p] # sealed[p] =>
       /\ ctl[p].secure # NoKey
       /\ sealed'[p][Len(sealed'[p])].pair = {ctl[p].local, ctl[p].secure}]_vars

\* "per-message keys": no two packets given to the transport, by either client and
\* in whatever sessions, were sealed with the same key.
KeyUsedOnce ==
  /\ \A p \in Peers : IsInjective(sealed[p])
  /\ \A p, q \in Peers : p # q => Range(sealed[p]) \cap Range(sealed[q]) = {}

\* "out-of-order skipped-key cache": until a packet of another session was tried,
\* a packet of the session that is at most MaxSkipped behind the newest one, and
\* not too far ahead of it, can still be opened, whatever was lost before.
LateIsReadable ==
  \A pk \in net :
    LET w == worker[pk.to]
    IN /\ ctl[pk.to].secure # NoKey /\ ~w.mixed
       /\ pk.key.pair = w.receiveChain.pair
       /\ pk.counter \in (w.highest - MaxSkipped)..(w.highest + MaxSkipped + 1)
       => Opens(w, pk)
=============================================================================

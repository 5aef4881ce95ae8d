# OnlyTwo in TLA+

OnlyTwo is an end-to-end encrypted room for two people: a Go relay that holds
rooms and forwards opaque frames, and a browser client that agrees on keys,
retransmits messages, schedules packets and keeps a connection alive. This
directory models the parts of it that run concurrently, checks them with TLC on
small instances and proves the main safety properties with TLAPS.

## The system

| part | state | operations that change it | modelled in |
|---|---|---|---|
| `internal/session` registry | rooms by code, tombstones of ended codes | create, look up, end, sweep | `Rooms` |
| `internal/session` session | connections by slot, expiry time, closed flag | add, remove, drain | `Rooms` |
| what a room promises | phase and participants of each room | open, enter, leave, end, expire | `Room` (abstract) |
| `internal/ws` hub, connection | goroutine per socket, send channel, connections per address | admit, attach, read, forward, write, end, detach | `Relay` |
| `internal/http` rooms | goroutine per request | create, look up | `Relay` |
| sweeper (`cmd/onlytwo-server`) | the clock it read | sweep, close what expired | `Relay` |
| `protocol/reliable.ts` | pending and seen messages, timers | send, retry, give up, acknowledge, hand on | `Reliable` |
| `transport/PacketScheduler.ts` | four lanes within one outbox | enqueue, next, clear, set profile | `PacketScheduler` |
| `transport/WebSocketConnection.ts` | sockets, reconnect and drain timers, status | connect, open, close, reconnect, send, drain | `Transport` |
| `session/SessionController.ts`, rooms | start-up, lifecycle, end-of-chat timer | create, join, leave, end chat | `Transport` |
| `session/SessionController.ts`, handshake | keys, secure epoch, inbound queue | handshake, fresh epoch, statuses, notices | `Handshake` |
| `features/file/FileSender.ts` | transfers, windows, timers, queued files | offer, accept, chunk, ack, retry, pause, cancel | `FileSender` |
| `features/file/FileReceiver.ts` | transfers, received chunks | offer, accept, chunk, assemble, cancel | `FileReceiver` |
| both, over the session | packets and messages on the way | | `FileTransfer` |
| `crypto/cryptoWorker.ts` | identity, chain keys, counters, skipped keys | reset, generate, establish, encrypt, decrypt | `CryptoWorker` |
| `crypto/CryptoClient.ts`, crypto tasks of `SessionController.ts` | requests on the way, timeouts, secure epoch | fresh epoch, handshake, send, receive | `SecureSession` |
| `features/audio`, voice in `SessionController.ts` | microphone, frame queues, jitter buffer, pause of files | start, stop, mute, capture, receive, play | `Voice` |

The relay and the client meet in frames and in four relay events (present,
disconnected, rejoined, ended). On the relay the hard behaviours are the gaps
between two critical sections: a room is looked up under one lock and joined
under another; a room is unregistered before it is drained; clocks are read
before a lock is taken; presence events are written after the lock is released;
a refreshed page replaces a connection whose goroutine is still running. On the
client they are the awaits: state read before an encryption and used after it,
events of sockets that have been replaced, timers that race with leaving.

`PROJECT.json` lists the components, the hazards at the lines where they bite,
and the source lines each definition models.

## Modules

* **`Rooms`** - the registry and the session objects. Each operator is one
  critical section under `Registry.mu` or `Session.mu`. Sessions are identities,
  so that a code can be reused by a new session while a goroutine still holds
  the old one. Time is a counter that starts at 1; 0 is Go's zero time.
* **`Relay`** extends `Rooms` with the goroutines. `pc` says between which two
  critical sections a request or connection is; `session`, `peer`, `replaced`
  and `drain` are its locals. `closing` are the sessions whose `Close()` is owed
  after a sweep. Go's map iteration order and the choice in `select` are
  nondeterministic.
* **`Room`** - the abstract room: `phase` is none, open, ending or over, `who`
  maps slots to participants. One step opens a room, lets somebody enter who
  finds at most one other, lets somebody leave, ends it, empties an ended one at
  once, or expires an empty one; rooms take their steps independently. `Relay`
  implements it with `Phase(s)`, which reads the registry, the closed flag and
  the expiry time of a session, and `conns` as the participants.
* **`Reliable`** - one direction of reliable delivery, sender and receiver, with
  the `SessionController` callbacks that own the channel. A step is the code
  between two awaits. Key agreement is abstracted to joining or opening an
  encrypted session; frames may be lost at any time and are in order per
  message.
* **`PacketScheduler`** - the methods as operators on the object's fields; on its
  own a state machine in which callers do anything in any order, except that the
  profile is set on empty queues. That is what `SessionController` does: it sets
  the profile in `start()`, after `disconnect()` has cleared them, or outside a room.
* **`Transport`** extends `PacketScheduler` with sockets, the drain loop, the
  reconnect timer and the parts of `SessionController` that enter and leave a
  room. `cur` is the socket of the current epoch; a handler of any other one
  returns at once, as in the code.
* **`FileSender`**, **`FileReceiver`** - the methods as operators on the object's
  state, each up to its next await, with the part of the view that
  `SessionController` decides by (which transfers are shown as what, in which
  order). Timers are part of the entry that owns them; `stray` are timers whose
  entry was overwritten, `calls` the `sendChunk` calls under way.
* **`FileTransfer`** extends `FileSender`, has an instance of `FileReceiver`, and
  composes the two: users, timers, the ends of awaits, voice, lost sessions and
  the network. `got` remembers which chunks the receiver stored. Offers, answers, cancels and completions go
  through reliable delivery, so each arrives at most once, late or never;
  chunks and their acknowledgements may be lost and reordered.
* **`Handshake`** - two controllers and the relay between them. A client's
  handlers run one after the other from `inboundSerial`, so a handler is one
  step; what arrives meanwhile is stamped with the epoch of its arrival. On the
  relay each connection has its own goroutine, with a step for each lock it takes
  and each frame it writes: leaving the room and telling the peer so are two
  steps, and a lost or replaced connection's go on beside its successor's. Notices
  go straight to the socket, forwarded handshakes through `sendChan`; the write
  loop starts after `AttachConnection`. A key is its client and a number. A client
  opens its socket and is added to the room in one step, so that the relay adds
  the connections of one client in the order they were opened; a client notices a
  loss at once, the relay at any time later. `CloseReplaced` needs no step here:
  the client of a replaced connection has given its socket up already.
* **`CryptoWorker`** - the worker's request handlers as operators on its
  module-level variables. Keys are symbolic: a chain key is the pair of
  identities it was derived from, its label and its step, and a packet opens
  with the key that sealed it and no other.
* **`SecureSession`** composes two workers with the `CryptoClient`s in front of
  them and the crypto tasks of the controllers. A request that times out is
  abandoned by its caller but stays in the worker's inbox. The first `Fresh` of a
  client is `start()`, later ones are `prepareFreshCryptoEpoch`: one stay in one
  room. Lanes let packets overtake one another; nothing is duplicated.
* **`Voice`** - one client's voice. A step is the code between two awaits, events
  or timers. Sound and time are left out: which frames are stale, whether
  playback lags and whether the transport takes a frame are choices. The history
  variable `overlap` says that a start began before the last start or stop was
  over.

Operators whose comment begins with `Fault` are deliberately wrong versions of
the definition that follows them. No specification uses them; they show which
mistake each property catches.

## Runs

| run | configuration | result |
|---|---|---|
| Rooms | 1 code, 2 session objects, 2 connections, 1 HTTP request, clock up to 2, TTL 1 | no ghost participants; occupied rooms are reachable; the relay implements `Room`; tombstones hold |
| Join | 1 room, 3 slots, 3 connections | at most two participants; each of them has been told of the other's connection, or will be; a served connection is the participant; address counters are exact |
| Forward | 2 rooms, 2 connections, 3 frames, channel of 2 | frames stay in the room, in order and unrepeated |
| Live | 1 room, 2 connections, fair goroutines | end closes everyone; closed connections are released; expired rooms are reclaimed |
| Reliable | 2 messages, 2 attempts, 3 sessions, fair timers | at most once; sent implies handed on; sending implies tracked; no message shows as sending for ever |
| Scheduler | 2 profiles, 13 packets | counters exact and within bounds; a lane drops only by its policy, and the newest voice frame wins |
| Transport | 2 sockets, outbox of 2 packets, control and voice lane, 1 reconnect attempt, fair timers | one live socket; no lost wake-up; no carry-over; the status is true; slots are known; connections settle, start-ups return |
| File | 1 file of 2 chunks, window 1, 1 retransmission, voice once or 1 lost session, fair timers | completed means received whole, on both sides; the window is kept; sending never stalls, ends, and does not restart once ended |
| Handshake | 2 clients, 1 lost connection or refresh | quiet clients share a session, or one reports a changed identity |
| Rejoin | the same, reconnects slower than handlers | **violated**: after a refresh the two may never share a session |
| Session | 2 clients, 3 epochs in all, 4 and 1 packets, cache of 1 skipped key, 1 timeout | a secure channel is backed by the worker's session; what is sent is sealed with the session held at that moment; no key seals two packets; late packets can be opened |
| Voice | 1 start and 2 stops at a time, queues and jitter buffer of 2, calls of 3 and 1 frames | the microphone is released; files pause exactly during voice; the pump ends; received frames are waited for; frames play in order |

Bounds. Two connections and two session objects are enough for every race
between a goroutine that holds an old session and one that uses its successor;
the Join run adds a third connection and slot, the least that a room of two can
refuse or confuse. The clock needs two ticks with a TTL of one: before expiry,
at expiry. In Reliable, two attempts give one retransmission, and three sessions
let either side re-key twice. In Transport, one socket can be current while the
one before it closes late; closed sockets are reused, so that this goes on for
ever. In FileTransfer a window of one over two chunks already has a chunk in
flight while another waits, one retransmission lets two calls and a left-over
timer for the same chunk overlap, and one pause or one lost session can fall
anywhere among them. Any two of these in one behaviour were checked too
(`MaxBreaks` = 2, 1,707,286 states); with three chunks and a window of two, the
safety properties were also checked for the retransmission, the pause and the
lost session one at a time. In Handshake the first meeting of two clients and
one interruption at any moment of it reach every notice, in every order that the
goroutines of one lost connection, its successor and the peer can write them:
`peer.disconnected` can reach the peer after `peer.rejoined` or `peer.present`.
In Session one client
sends enough packets to exceed the cache of skipped keys, and the epochs let a
packet, a handshake and an abandoned request of one session meet the next. In
Voice a start can begin again while stops of the last one wait; two starts that
overlap (with one stop, 2,156,609 states up to symmetry) were checked too, and
the theorems hold for any number of them. Three frames overflow the queue and
the jitter buffer, and the single frame of a second call meets left-overs of the
first. Runs about joining and forwarding start from rooms that exist already
(`RoomsOpen`), the states that `CreateRoom` leads to and that the Rooms run
starts from nothing.

Fairness. On the relay, each goroutine's own steps are weakly fair, because the
Go scheduler runs every runnable goroutine; clients are not, except that a read
on a closed socket returns. The sweeper is fair because its ticker fires. In the
client, timers fire, the crypto worker answers and the browser reports the end
of every attempt to open or close a socket; nothing is assumed of the network,
the peer or the user.

## What the violated property shows

`handleHandshake` secures with the first handshake it sees. A refreshed page can
first see one from before the refresh: the other client's of the old epoch, still
on its way, or the previous page's own, which the replaced connection has read
late and forwards to its replacement. The new page secures with that key, and the
key the other client generates on `peer.rejoined` is refused as a changed
identity. The repository's `README.md` says a refresh starts a fresh epoch. The Handshake run shows the other half: whenever the two
end up apart, one of them says so.

## Known behaviour

The models also reach these states; no run is kept for them.

* `Session.PeerOf` excludes the caller by connection id. Between a replacement's
  `AddConnection` and the close of the old socket, a frame the old connection
  reads can be forwarded to its replacement instead of the peer.
* `receive` hands a message on after its await even if the room was left
  meanwhile, so it is added to the cleared transcript.
* `FileSender.reset` does not mark its transfers as cancelled, so a call under
  way can show a discarded transfer again.
* `offerFile` decides to queue before it awaits the digest. If the transfer in
  front ends during the await, the file stays queued until something else
  starts the next one.
* `sendPending` does not look again at `pending` after its await. If the ack
  came meanwhile and the transport refuses the retry, `onFailed` marks a
  delivered message as failed.
* Voice can be stopped and started again while the first start still waits for
  permission. The second start then overwrites `this.stream`, and the first
  microphone stays on; likewise the end of a waiting `stopVoice` shows a start
  that has begun meanwhile as idle and resumes the files. `MicrophoneReleased`
  and `FilesPausedInVoice` are therefore stated until starts and stops overlap.
* `decryptBinary` caches the keys it skips before the packet is authenticated.
  After a packet of an earlier session was tried, keys of late packets may have
  been given up for it, so `LateIsReadable` is stated until that happens. A gap
  wider than the cache plus one is refused until the next epoch.
* `voice.start` does not clear the jitter buffer. Frames of the last call that
  arrive after it leave a high `expected` behind, and the first frames of the
  new call, numbered from one, are dropped.
* The pump of captured frames that is interrupted by a cleared queue leaves
  frames queued after that to the next captured frame.
* The scheduler's priorities are strict: a steady flow of voice or text keeps
  file chunks waiting.

## Proofs

Each theorem holds for every value of the constants that satisfies the named
`ASSUME`s.

**The relay.** `RelayStepProofs` has the facts about the critical sections of
`Rooms` (types, that each of them preserves a room's soundness, that an
unregistered session stays unregistered, that a tombstoned code stays free) and
what the goroutines' steps do to their locals. `RelayProofs` proves the
invariants `TypeCorrect`, `TwoPeople`, `NoGhosts`, `Reachable` and `ExpiryIsQuiet`
(a sweep never disconnects anybody), and the action property `TombstonesHold`.
None of the invariants is inductive alone. `IInv` adds what a goroutine's program
counter says about its locals (`Locals`), that an unregistered session is held
only by goroutines that can no longer add to it or that are about to drain it
(`Accounted`), that a session in `closing` is expired or closed (`Held`), and
that clocks read earlier are not in the future (`Clocks`). The last is what
makes the stale clock in `CreateSessionWithCode` harmless: an old clock can only
keep a tombstone longer.

`RelayProofs` also proves that the relay implements `Room` (`Implementation`).
Each critical section of `Rooms` is shown to be a step of one abstract room, or
none (`AddIsEnter`, `RemoveIsLeave`, `UnregisterIsEnd`, `DrainIsDissolve`,
`CreateIsOpen`, `SweepIsKept`, `TickIsExpire`); `OneMove` combines them over the
goroutines' steps. It rests on the rooms' own invariant: an expired or closed
session has no participants, so that a tick can only expire an empty room and
nobody enters one that is over.

`RelayConnectionProofs` proves what the connections are promised, each property
by an invariant that is inductive given `IInv`:

* `AddressesAccounted` - `connsByIP` is the cardinality of the connections
  admitted and not yet released (`Counted`); the set must be known to be finite
  for the counter to follow it.
* `ServedTakesPart` - an attached connection has its slot, or is closed, or some
  goroutine stands before the call that closes it (`Served`): one that replaced
  it, or one that drains the room.
* `BothIntroduced` - of any two participants of a room each has been sent a notice
  about the other's very connection, or its own socket is closed, or a goroutine of
  one of the two is about to send it (`Introduced`). Which of the two has that duty is decided by the order of
  attaching; a connection that replaces another starts with the duty to tell both.
* `FramesInOrder` - the frames written to a socket followed by those in its
  send channel are one log; in it the frames of each sender increase, and are
  older than the frame that sender is about to forward (`Relayed`). Without the
  last part a frame read early and forwarded late could follow a newer one.

**The scheduler.** `TransportProofs` first proves `QueuesBounded` (`Bounded`) and
`DropsOnlyByPolicy` (`DropsByPolicy`) for any profiles and packets. The code keeps
`totalPackets`, `totalBytes` and the bytes of each lane incrementally; inductive
is that they are the sums over the queues (`Counted`) together with the budgets
(`Within`). The bytes of a queue are the cardinality of a set of pairs, so that
what a queue gains or loses can be counted with the theorems about finite sets;
as a fold, it would need an induction over sequences. `DropsByPolicy` also uses
that voice frames are of one size: a new frame then needs the room of one old
frame and no more, provided that the others were within their budgets.

**The connection.** `TransportProofs` goes on to prove `OneConnection`, `QueueIsServed`,
`NothingCarriedOver`, `StatusAgrees` and `SlotKnown` for any number of sockets.
`ConnectionInvariance` establishes the invariant they follow from: `this.ws` is
the socket of the current epoch or null, and null only if that socket is closed
or was left on purpose (`Current`); a reconnection is pending only after the
current socket has closed (`Pending`); who connects has not left (`Wanted`);
while `start()` prepares a room nothing is left of the old one (`Prepared`); the
queue holds packets of this connection only (`Clean`). The facts about the
scheduler's operators that it needs are the lemmas about the scheduler.

**The encrypted session.** `SecureSessionProofs` proves `SecureMeansEncrypted`
(`SecureIsReal`), `KeysUsedOnce` (`KeyUsedOnce`) and `SealedInSession`
(`SentUnderSession`) for any number of epochs, timeouts and messages, with two
clients. `SessionInvariance` relates the four
places where one session is recorded:

* the controller's tasks and the requests that wait in `CryptoClient`: each
  request belongs to one task, and the inbound task and the task of each epoch
  have at most one (`Tasks`);
* what waits and what was posted: the pending request is the last one in the
  worker's inbox (`Pending`). Requests abandoned by a timeout come before it, so
  they are handled before the answer anybody still waits for;
* the controller and its worker: once the controller has an identity, the worker
  has the same one and no reset is left in the inbox; once the channel is
  secure, the worker sends on the chain of its two keys and only encryptions
  and decryptions are left (`Agrees`);
* the identities and the keys: an identity was generated by one client
  (`Named`), and keys used were of a client's own direction, none of a session
  that is being established, and of the present one only earlier steps
  (`Spent`). The direction of a chain is decided by comparing the two public
  keys, which is why the two clients never share a sending chain.

`SealedInSession` is an action property on top of it: `sendRawApp` gives an answer
to the transport only in the epoch of its request (`AnsweredInSession`), and then
`Agrees` says which chain the worker sealed it with.

TLC checked this invariant with 2 timeouts, in about 1.4 million states.

**File transfer.** `FileTransferProofs` proves `CompletedFilesAreWhole`
(`CompletedIsWhole`), `WindowBounded` (`WindowKept`) and `SendersNeverStall`
(`NeverStalls`) for any number of files and chunks, any window and any number of
retries, pauses and lost sessions. `FileSenderProofs` has what the sender's methods
do to one transfer. Its record, its running `sendChunk` calls and its timers are
related by three conditions:

* `Sound` - the chunks issued so far are those acknowledged and those in flight,
  never both, and at most a window of the latter; calls under way and timers left
  over are of chunks issued; who sends has been accepted and is not paused;
* `Moving` - while a transfer sends, each chunk in flight has a timer or a running
  call; while it is paused, it may be held until the transfer goes on;
* `Fed` - a transfer that sends has a chunk in flight.

Inside a method the last two may fail for a moment: a timer has fired and its chunk
has not been sent again, or an acknowledgement has come and `pump` has not run yet.
`Moving` therefore names the chunks still to be taken up. `setGlobalPaused` goes
through the transfers one by one, a recursive function of the set done so far; that
it exists and keeps the conditions follows by the least counterexample, from the
well-foundedness of the natural numbers.
`TransferInvariance` adds the receiver and the network: what a receipt holds was
stored; a chunk whose acknowledgement travels, is being sent or was counted was
stored; and the digest is computed, and completion reported, only of a file stored
whole. TLC checked this invariant in the configuration of the File run.

**Reliable delivery.** `ControllerProofs` proves `TypeCorrect`, `ShownAtMostOnce`,
`SentWasShown` and `NeverForgotten` for every set of messages, retry limit and
number of sessions. `AtMostOnce` rests on all copies of a message carrying the key
of one session (`OneKeyOK`), and on a receiver that forgets what it has seen only
together with that key (`OldOK`, `OnceOK`). A step is first reduced to what it does
to the copies of a message (`StepEffects`: copies get lost, one is encrypted, posted,
taken or handed on, or a side enters or leaves a session); the parts of the
invariant are then proved of these effects.

**Voice.** `ControllerProofs` also proves `MicrophonesReleased`, `FilesPaused`,
`PumpEnds` and `FramesAwaited` for every number of starts, stops, calls and frames.
Inductive is that until starts and stops overlap one start waits at a time, that it
has no stream before the permission, and that voice which is off, failed or being
stopped has taken the audio contexts away, so that the start which still waits
will fail and stop its own microphone; that frames are queued only within a
session; and that neither the scheduled flag nor a frame is there without a task.

The assumptions are positive TTL, retry limit, send channel and packet sizes;
finitely many files, of at least one chunk each, and a positive window;
`None` not an identity; HTTP requests and connections apart; budgets that are
natural numbers; distinct lane priorities, and `drop-oldest` for voice only, as in
the profiles of the source; voice frames of one size; two clients in an encrypted
session. TLC evaluates them in the runs.

Only model-checked:

* liveness, which is out of the prover's reach;
* `LateIsReadable`: the worker derives skipped keys one by one in a loop, and what
  a fold over them computes needs an induction over data;
* `EndedStaysEnded`, that a file transfer which has ended is not shown as anything
  else, the handshake between two controllers (`StuckIsShown`) and the order of
  playback: no inductive invariant has been worked out for them.

## Not modelled

Byte formats and validation, ciphers, the samples of audio and the activity gate,
rendering, HTTP routing, configuration, static files, logging and metrics: they
are stateless, or what they do to a sample or a byte is no matter of steps. Origin
checks, proxy headers and the rate limiter are part of an admitted request. In
file transfer, `file.nack`, `file.pause` and `file.resume`, which this client never
sends to a correct peer, the validation of metadata and the limit on finished rows;
one direction is modelled. In the handshake, version and profile negotiation, the
safety phrase and the awaits inside a handler (those of the crypto requests are in
`SecureSession`). A crash
of the crypto worker, after which only reloading the page helps, and leaving one
room for another while crypto requests are under way. In voice, the Enable audio
button, and the peer's side of a call, whose messages arrive in any order.

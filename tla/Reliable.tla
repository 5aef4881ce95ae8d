------------------------------ MODULE Reliable ------------------------------
(***************************************************************************)
(* Reliable delivery of chat and control messages (protocol/reliable.ts)   *)
(* in one direction: the ReliableChannel of the client "me" sends, the one *)
(* of "peer" receives, each driven by its SessionController.               *)
(*                                                                         *)
(* JavaScript runs one task at a time, so a step is the code between two   *)
(* awaits.  callbacks.send is sendRawApp, which awaits the encryption; the *)
(* channel's owner can start a fresh cryptographic epoch or leave the room *)
(* during that await.                                                      *)
(***************************************************************************)
EXTENDS Integers, FiniteSets

CONSTANTS
  Ids,          \* reliable ids; each also names its chat message
  MaxAttempts,  \* policy.maxAttempts
  MaxSession    \* bound: encrypted sessions established

ASSUME ReliableAssumption ==
  /\ MaxAttempts \in Nat \ {0}
  /\ MaxSession \in Nat

Sides == {"me", "peer"}
Other(x) == IF x = "me" THEN "peer" ELSE "me"

VARIABLES
  session,   \* the encrypted session a side is in, 0 when secure is null
  used,      \* the last session a side was in: its keys are gone
  pending,   \* sender: ReliableChannel.pending
  attempts,  \* sender: PendingReliable.attempts
  timer,     \* sender: the retry or give-up timer is armed
  sending,   \* sender: the session sendRawApp encrypts a copy for, 0 if none
  status,    \* sender: what its transcript says of the message
  seen,      \* receiver: ReliableChannel.seen
  task,      \* receiver: the message whose ack is being encrypted
  view,      \* receiver: how often its transcript shows a message
  handled,   \* receiver (history): the messages handed on so far
  ended,     \* a side has left the room and not started another
  msgs, acks \* frames on their way

sessionVars  == <<session, used, ended>>
senderVars   == <<pending, attempts, timer, sending, status>>
receiverVars == <<seen, task, view, handled>>
vars == <<sessionVars, senderVars, receiverVars, msgs, acks>>

Statuses == {"unsent", "sending", "sent", "failed", "gone"}
Copies   == [id : Ids, key : 1..MaxSession, attempt : 0..MaxAttempts]
NoTask   == [id |-> "none", key |-> 0, attempt |-> 0]

TypeOK ==
  /\ session \in [Sides -> 0..MaxSession] /\ used \in [Sides -> 0..MaxSession]
  /\ ended \in [Sides -> BOOLEAN]
  /\ pending \in SUBSET Ids
  /\ attempts \in [Ids -> 0..MaxAttempts]
  /\ timer \in [Ids -> BOOLEAN]
  /\ sending \in [Ids -> 0..MaxSession]
  /\ status \in [Ids -> Statuses]
  /\ seen \in SUBSET Ids /\ handled \in SUBSET Ids
  /\ task \in Copies \cup {NoTask}
  /\ view \in [Ids -> Nat]
  /\ msgs \in SUBSET Copies /\ acks \in SUBSET Copies

Init ==
  /\ session = [x \in Sides |-> 0] /\ used = [x \in Sides |-> 0]
  /\ ended = [x \in Sides |-> FALSE]
  /\ pending = {}
  /\ attempts = [i \in Ids |-> 0]
  /\ timer = [i \in Ids |-> FALSE]
  /\ sending = [i \in Ids |-> 0]
  /\ status = [i \in Ids |-> "unsent"]
  /\ seen = {} /\ handled = {}
  /\ task = NoTask
  /\ view = [i \in Ids |-> 0]
  /\ msgs = {} /\ acks = {}

-----------------------------------------------------------------------------
(* The sender. *)

\* updateTranscriptStatus: only an entry still in the transcript changes.
Mark(I, s) ==
  status' = [i \in Ids |-> IF i \in I /\ status[i] \in {"sending", "sent", "failed"}
                           THEN s ELSE status[i]]

\* clearPending, then onFailed.
failPending(i) ==
  /\ pending' = pending \ {i}
  /\ timer' = [timer EXCEPT ![i] = FALSE]
  /\ Mark({i}, "failed")

\* sendText, ReliableChannel.send and the first half of sendPending, up to the
\* await of the encryption.
Send(i) ==
  /\ status[i] = "unsent"
  /\ session["me"] # 0
  /\ pending' = pending \cup {i}
  /\ attempts' = [attempts EXCEPT ![i] = 1]
  /\ sending' = [sending EXCEPT ![i] = session["me"]]
  /\ status' = [status EXCEPT ![i] = "sending"]
  /\ UNCHANGED <<sessionVars, timer, receiverVars, msgs, acks>>

\* Fault: a copy accepted by the transport arms no timer.
AcceptedUntimed(i) ==
  /\ sending[i] = session["me"]
  /\ msgs' = msgs \cup {[id |-> i, key |-> sending[i], attempt |-> attempts[i]]}
  /\ UNCHANGED <<pending, status, timer>>

\* The second half of sendPending: sendRawApp compares the session it
\* encrypted for with the current one and hands the frame to the transport,
\* whose lane may be full.
Accepted(i) ==
  /\ sending[i] = session["me"]
  /\ msgs' = msgs \cup {[id |-> i, key |-> sending[i], attempt |-> attempts[i]]}
  /\ timer' = [timer EXCEPT ![i] = TRUE]
  /\ UNCHANGED <<pending, status>>

Refused(i) == failPending(i) /\ UNCHANGED msgs

SendDone(i) ==
  /\ sending[i] # 0
  /\ Accepted(i) \/ Refused(i)
  /\ sending' = [sending EXCEPT ![i] = 0]
  /\ UNCHANGED <<sessionVars, attempts, receiverVars, acks>>

\* armRetry's timers: another attempt, or the last one has timed out.  The
\* owner never holds a pending message without a session, so the attempt
\* always reaches the encryption.
Retry(i) ==
  /\ attempts[i] < MaxAttempts
  /\ attempts' = [attempts EXCEPT ![i] = @ + 1]
  /\ sending' = [sending EXCEPT ![i] = session["me"]]
  /\ timer' = [timer EXCEPT ![i] = FALSE]
  /\ UNCHANGED <<pending, status>>

\* Fault: the last timer only stops retrying.
GiveUpSilently(i) ==
  /\ attempts[i] >= MaxAttempts
  /\ timer' = [timer EXCEPT ![i] = FALSE]
  /\ UNCHANGED <<pending, status, attempts, sending>>

GiveUp(i) ==
  /\ attempts[i] >= MaxAttempts
  /\ failPending(i)
  /\ UNCHANGED <<attempts, sending>>

Timer(i) ==
  /\ timer[i]
  /\ \/ i \in pending /\ (Retry(i) \/ GiveUp(i))
     \/ /\ i \notin pending
        /\ timer' = [timer EXCEPT ![i] = FALSE]
        /\ UNCHANGED <<pending, attempts, sending, status>>
  /\ UNCHANGED <<sessionVars, receiverVars, msgs, acks>>

\* Frames of one message travel in one lane, hence in order.
First(c, S) == \A d \in S : d.id = c.id => c.attempt <= d.attempt

\* receive of reliable.ack.
ReceiveAck(c) ==
  /\ c \in acks /\ First(c, acks)
  /\ c.key = session["me"]
  /\ acks' = acks \ {c}
  /\ IF c.id \in pending
     THEN /\ pending' = pending \ {c.id}
          /\ timer' = [timer EXCEPT ![c.id] = FALSE]
          /\ Mark({c.id}, "sent")
     ELSE UNCHANGED <<pending, timer, status>>
  /\ UNCHANGED <<sessionVars, attempts, sending, receiverVars, msgs>>

-----------------------------------------------------------------------------
(* The receiver: inbound tasks run one after the other (inboundSerial). *)

\* Fault: entries expire while copies are under way.
ExpirableEarly(i) == i \in seen

\* sweepSeen: an entry lives ten minutes, all attempts of a message less than
\* one, so it expires only when no copy can come any more.
Expirable(i) ==
  i \notin pending /\ sending[i] = 0 /\ \A c \in msgs \cup {task} : c.id # i

\* receive of reliable.msg up to the await of the ack's encryption.
ReceiveMsg(c) ==
  /\ task = NoTask
  /\ c \in msgs /\ First(c, msgs)
  /\ c.key = session["peer"]
  /\ msgs' = msgs \ {c}
  /\ task' = c
  /\ \E X \in SUBSET {i \in seen : Expirable(i)} : seen' = seen \ X
  /\ UNCHANGED <<sessionVars, senderVars, view, handled, acks>>

\* Fault: the id is recorded before it is looked up.
AckDoneSwapped ==
  /\ task # NoTask
  /\ \/ task.key = session["peer"] /\ acks' = acks \cup {task}
     \/ UNCHANGED acks
  /\ seen' = seen \cup {task.id}
  /\ task' = NoTask
  /\ UNCHANGED <<sessionVars, senderVars, view, handled, msgs>>

\* After the await: the ack goes out if the session is still the same and the
\* lane has room; then, whatever became of the ack, the first copy of a message
\* is handed to handleAppMessage.
AckDone ==
  /\ task # NoTask
  /\ \/ task.key = session["peer"] /\ acks' = acks \cup {task}
     \/ UNCHANGED acks
  /\ IF task.id \in seen
     THEN UNCHANGED <<seen, view, handled>>
     ELSE /\ seen' = seen \cup {task.id}
          /\ view' = [view EXCEPT ![task.id] = @ + 1]
          /\ handled' = handled \cup {task.id}
  /\ task' = NoTask
  /\ UNCHANGED <<sessionVars, senderVars, msgs>>

-----------------------------------------------------------------------------
(* Sessions and the network. *)

\* Key agreement: a side joins the session its peer is in unless it has been
\* in it before, or opens the next one.
Establish(x) ==
  /\ session[x] = 0
  /\ LET next == IF session[Other(x)] > used[x] THEN session[Other(x)]
                 ELSE 1 + IF used["me"] > used["peer"] THEN used["me"] ELSE used["peer"]
     IN /\ next <= MaxSession
        /\ session' = [session EXCEPT ![x] = next]
        /\ used' = [used EXCEPT ![x] = next]
  /\ ended' = [ended EXCEPT ![x] = FALSE]
  /\ UNCHANGED <<senderVars, receiverVars, msgs, acks>>

\* ReliableChannel.reset.
resetSender ==
  /\ pending' = {}
  /\ timer' = [i \in Ids |-> timer[i] /\ i \notin pending]

\* prepareFreshCryptoEpoch: failAll, then reset.  On the receiving side it is
\* an inbound task itself, so no receive is half done.
FreshEpoch(x) ==
  /\ session[x] # 0
  /\ session' = [session EXCEPT ![x] = 0]
  /\ \/ /\ x = "me"
        /\ resetSender
        /\ Mark(pending, "failed")
        /\ UNCHANGED seen
     \/ /\ x = "peer" /\ task = NoTask
        /\ seen' = {}
        /\ UNCHANGED <<pending, timer, status>>
  /\ UNCHANGED <<used, ended, attempts, sending, task, view, handled, msgs, acks>>

\* disconnect, called by the user or a timer between any two steps: reset
\* without failAll, and an empty transcript.
Leave(x) ==
  /\ ~ended[x]
  /\ session' = [session EXCEPT ![x] = 0]
  /\ ended' = [ended EXCEPT ![x] = TRUE]
  /\ \/ /\ x = "me"
        /\ resetSender
        /\ status' = [i \in Ids |-> IF status[i] = "unsent" THEN "unsent" ELSE "gone"]
        /\ UNCHANGED <<seen, view>>
     \/ /\ x = "peer"
        /\ seen' = {}
        /\ view' = [i \in Ids |-> 0]
        /\ UNCHANGED <<pending, timer, status>>
  /\ UNCHANGED <<used, attempts, sending, task, handled, msgs, acks>>

\* A frame dropped by the transport or the relay, or undecipherable on arrival.
Lose ==
  /\ \/ \E c \in msgs : msgs' = msgs \ {c} /\ UNCHANGED acks
     \/ \E c \in acks : acks' = acks \ {c} /\ UNCHANGED msgs
  /\ UNCHANGED <<sessionVars, senderVars, receiverVars>>

Next ==
  \/ \E i \in Ids : Send(i) \/ SendDone(i) \/ Timer(i)
  \/ \E c \in acks : ReceiveAck(c)
  \/ \E c \in msgs : ReceiveMsg(c)
  \/ AckDone
  \/ \E x \in Sides : Establish(x) \/ FreshEpoch(x) \/ Leave(x)
  \/ Lose

Spec == Init /\ [][Next]_vars

\* The crypto worker answers and timers fire; nothing is assumed of the
\* network, the peer or the user.
Fairness ==
  /\ \A i \in Ids : WF_vars(SendDone(i)) /\ WF_vars(Timer(i))
  /\ WF_vars(AckDone)

FairSpec == Spec /\ Fairness

-----------------------------------------------------------------------------
\* "Processes first valid copy once": a message is in the receiver's transcript
\* at most once, however often it was retransmitted, acknowledged too late or
\* caught by a fresh epoch on either side.
AtMostOnce == \A i \in Ids : view[i] <= 1

\* "Delivered: peer ACK received", and the receiver acknowledges what it hands
\* on: a message the sender's transcript marks as sent has been handed on.
SentIsShown == \A i \in Ids : status[i] = "sent" => i \in handled

\* "Control/text must not silently drop": a message shown as sending is
\* pending, and an encryption or a timer is under way that will resolve it.
SendingIsTracked ==
  \A i \in Ids : status[i] = "sending" => i \in pending /\ (sending[i] # 0 \/ timer[i])

\* "Fails visibly after max attempts": no message is shown as sending for ever.
Resolved == \A i \in Ids : status[i] = "sending" ~> status[i] # "sending"
=============================================================================

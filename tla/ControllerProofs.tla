-------------------------- MODULE ControllerProofs --------------------------
(***************************************************************************)
(* Proofs about two parts of a client's SessionController.  Module         *)
(* Reliable, for any set of messages, any number of attempts and any       *)
(* number of encrypted sessions; module Voice, for any number of starts,   *)
(* stops, calls and frames, and any limits of the queues and of the jitter *)
(* buffer.                                                                 *)
(***************************************************************************)
EXTENDS Reliable, Voice, TLAPS

-----------------------------------------------------------------------------
(* Reliable delivery. *)

\* A session whose frames the receiver can no longer, or never again, decrypt.
Stale(k) == k <= used["peer"] /\ k # session["peer"]

\* The copies the receiver may still have to look at.
Alive == msgs \cup ({task} \ {NoTask})

\* A side's session is the last one it was in, and a message is pending only
\* within a session.
SessionsOK ==
  /\ \A x \in Sides : session[x] # 0 => session[x] = used[x]
  /\ pending # {} => session["me"] # 0

\* The transcript says "sending" of exactly the pending messages.
TrackedOK ==
  /\ \A i \in Ids : status[i] = "sending" <=> i \in pending
  /\ \A i \in pending : sending[i] # 0 \/ timer[i]

\* What is acknowledged has been handed on.
AcknowledgedOK ==
  /\ \A c \in acks : c.id \in handled
  /\ seen \subseteq handled
  /\ \A i \in Ids : status[i] = "sent" => i \in handled

\* A message that was not sent has no copies.
UnsentOK ==
  \A i \in Ids : status[i] = "unsent" =>
    sending[i] = 0 /\ view[i] = 0 /\ \A c \in Alive : c.id # i

\* All copies of a message are encrypted for one session.
OneKeyOK ==
  /\ \A c, d \in Alive : c.id = d.id => c.key = d.key
  /\ \A c \in Alive :
       /\ c.id \in pending => c.key = session["me"]
       /\ sending[c.id] # 0 => c.key = sending[c.id]
  /\ \A i \in pending : sending[i] # 0 => sending[i] = session["me"]

\* The session a message was or will be sent in is not one the receiver has
\* yet to enter, once the message is in the receiver's transcript.
OldOK ==
  \A i \in Ids : view[i] # 0 =>
    /\ \A c \in Alive : c.id = i => c.key <= used["peer"]
    /\ sending[i] # 0 => sending[i] <= used["peer"]
    /\ i \in pending => session["me"] <= used["peer"]

\* A message in the transcript is remembered in seen, or no copy of it will be
\* decrypted again.
OnceOK ==
  /\ task # NoTask => task.key <= used["peer"]
  /\ \A i \in Ids : view[i] # 0 /\ i \notin seen =>
       /\ \A c \in msgs : c.id = i => Stale(c.key)
       /\ sending[i] # 0 => Stale(sending[i])
       /\ i \in pending => Stale(session["me"])
       /\ task # NoTask => task.id # i
  /\ \A i \in Ids : view[i] <= 1

IInv == TypeOK /\ SessionsOK /\ TrackedOK /\ AcknowledgedOK /\ UnsentOK /\ OneKeyOK
        /\ OldOK /\ OnceOK

\* updateTranscriptStatus stores a status.
LEMMA MarkType ==
  ASSUME TypeOK, NEW I, NEW s \in Statuses, Mark(I, s)
  PROVE  status' \in [Ids -> Statuses]
BY DEF TypeOK, Mark

\* Every step keeps the variables in their types.
LEMMA TypeStep == IInv /\ [Next]_vars => TypeOK'
<1> SUFFICES ASSUME IInv, [Next]_vars PROVE TypeOK'
  OBVIOUS
<1> USE ReliableAssumption
<1>0. TypeOK
  BY DEF IInv
<1> "failed" \in Statuses /\ "sent" \in Statuses
  BY DEF Statuses
<1>1. ASSUME NEW i \in Ids, Send(i) PROVE TypeOK'
  BY <1>0, <1>1 DEF Send, TypeOK, Copies, NoTask, Statuses, Sides, sessionVars, senderVars, receiverVars
<1>2. ASSUME NEW i \in Ids, SendDone(i) PROVE TypeOK'
  <2>1. CASE Accepted(i)
    BY <1>0, <1>2, <2>1 DEF SendDone, Accepted, TypeOK, Copies, NoTask, Statuses, Sides, sessionVars, senderVars, receiverVars
  <2>2. CASE Refused(i)
    <3>1. status' \in [Ids -> Statuses]
      BY <1>0, <2>2, MarkType DEF Refused, failPending
    <3>2. pending' \in SUBSET Ids /\ timer' \in [Ids -> BOOLEAN]
      BY Zenon, <1>0, <2>2 DEF Refused, failPending, TypeOK
    <3>3. sending' \in [Ids -> 0..MaxSession]
      BY <1>0, <1>2 DEF SendDone, TypeOK
    <3>4. UNCHANGED <<session, used, ended, attempts, seen, task, view, handled, msgs, acks>>
      BY <1>2, <2>2 DEF SendDone, Refused, sessionVars, receiverVars
    <3> QED
      BY Zenon, <1>0, <3>1, <3>2, <3>3, <3>4 DEF TypeOK
  <2> QED
    BY <1>2, <2>1, <2>2 DEF SendDone
<1>3. ASSUME NEW i \in Ids, Timer(i) PROVE TypeOK'
  <2>1. CASE i \in pending /\ GiveUp(i)
    <3>1. status' \in [Ids -> Statuses]
      BY <1>0, <2>1, MarkType DEF GiveUp, failPending
    <3> QED
      BY <1>0, <1>3, <2>1, <3>1, Zenon DEF Timer, GiveUp, failPending, TypeOK, Copies, NoTask, Statuses, Sides, sessionVars, senderVars, receiverVars
  <2>2. CASE i \in pending /\ Retry(i)
    BY <1>0, <1>3, <2>2 DEF Timer, Retry, TypeOK, Copies, NoTask, Statuses, Sides, sessionVars, senderVars, receiverVars
  <2>3. CASE i \notin pending
    BY <1>0, <1>3, <2>3, Zenon DEF Timer, TypeOK, Copies, NoTask, Statuses, Sides, sessionVars, senderVars, receiverVars
  <2> QED
    BY <1>3, <2>1, <2>2, <2>3, Zenon DEF Timer
<1>4. ASSUME NEW c \in acks, ReceiveAck(c) PROVE TypeOK'
  <2>1. status' \in [Ids -> Statuses]
    BY <1>0, <1>4, MarkType DEF ReceiveAck, TypeOK
  <2>2. c.id \in Ids
    BY <1>0, <1>4 DEF TypeOK, Copies
  <2>3. pending' \in SUBSET Ids /\ timer' \in [Ids -> BOOLEAN]
    BY Zenon, <1>0, <1>4, <2>2 DEF ReceiveAck, TypeOK
  <2>4. acks' \in SUBSET Copies
    BY Zenon, <1>0, <1>4 DEF ReceiveAck, TypeOK
  <2>5. UNCHANGED <<session, used, ended, attempts, sending, seen, task, view, handled, msgs>>
    BY <1>4, Zenon DEF ReceiveAck, sessionVars, receiverVars
  <2> QED
    BY Zenon, <1>0, <2>1, <2>3, <2>4, <2>5 DEF TypeOK
<1>5. ASSUME NEW c \in msgs, ReceiveMsg(c) PROVE TypeOK'
  BY <1>0, <1>5, Zenon DEF ReceiveMsg, Expirable, TypeOK, Copies, NoTask, Statuses, Sides, sessionVars, senderVars, receiverVars
<1>6. ASSUME AckDone PROVE TypeOK'
  BY <1>0, <1>6 DEF AckDone, TypeOK, Copies, NoTask, Statuses, Sides, sessionVars, senderVars, receiverVars
<1>7. ASSUME NEW x \in Sides, Establish(x) PROVE TypeOK'
  BY <1>0, <1>7 DEF Establish, Other, TypeOK, Copies, NoTask, Statuses, Sides, sessionVars, senderVars, receiverVars
<1>8. ASSUME NEW x \in Sides, FreshEpoch(x) PROVE TypeOK'
  <2>1. status' \in [Ids -> Statuses]
    BY <1>0, <1>8, MarkType DEF FreshEpoch, TypeOK
  <2>2. pending' \in SUBSET Ids /\ timer' \in [Ids -> BOOLEAN] /\ seen' \in SUBSET Ids
    BY Zenon, <1>0, <1>8 DEF FreshEpoch, resetSender, TypeOK
  <2>3. session' \in [Sides -> 0..MaxSession]
    BY <1>0, <1>8 DEF FreshEpoch, TypeOK
  <2>4. UNCHANGED <<used, ended, attempts, sending, task, view, handled, msgs, acks>>
    BY <1>8, Zenon DEF FreshEpoch
  <2> QED
    BY Zenon, <1>0, <2>1, <2>2, <2>3, <2>4 DEF TypeOK
<1>9. ASSUME NEW x \in Sides, Leave(x) PROVE TypeOK'
  BY <1>0, <1>9 DEF Leave, resetSender, TypeOK, Copies, NoTask, Statuses, Sides, sessionVars, senderVars, receiverVars
<1>10. ASSUME Lose PROVE TypeOK'
  BY <1>0, <1>10, Zenon DEF Lose, TypeOK, Copies, NoTask, Statuses, Sides, sessionVars, senderVars, receiverVars
<1>11. CASE UNCHANGED vars
  BY <1>0, <1>11 DEF TypeOK, Copies, NoTask, Statuses, Sides, sessionVars, senderVars, receiverVars, vars
<1> QED
  BY <1>1, <1>2, <1>3, <1>4, <1>5, <1>6, <1>7, <1>8, <1>9, <1>10, <1>11 DEF Next

\* Sessions are entered in increasing order and left by FreshEpoch and Leave, which
\* clear pending.
LEMMA SessionsStep == IInv /\ [Next]_vars => SessionsOK'
<1> SUFFICES ASSUME IInv, [Next]_vars PROVE SessionsOK'
  OBVIOUS
<1> USE ReliableAssumption
<1>0. TypeOK /\ SessionsOK
  BY DEF IInv
<1>1. ASSUME NEW i \in Ids, Send(i) PROVE SessionsOK'
  BY <1>0, <1>1, Zenon DEF Send, TypeOK, SessionsOK, Sides, sessionVars, senderVars, receiverVars
<1>2. ASSUME NEW i \in Ids, SendDone(i) PROVE SessionsOK'
  BY <1>0, <1>2, Zenon DEF SendDone, Accepted, Refused, failPending, Mark, TypeOK, SessionsOK, Sides, sessionVars, senderVars, receiverVars
<1>3. ASSUME NEW i \in Ids, Timer(i) PROVE SessionsOK'
  BY <1>0, <1>3, Zenon DEF Timer, Retry, GiveUp, failPending, Mark, TypeOK, SessionsOK, Sides, sessionVars, senderVars, receiverVars
<1>4. ASSUME NEW c \in acks, ReceiveAck(c) PROVE SessionsOK'
  BY <1>0, <1>4 DEF ReceiveAck, Mark, TypeOK, SessionsOK, Sides, sessionVars, senderVars, receiverVars
<1>5. ASSUME NEW c \in msgs, ReceiveMsg(c) PROVE SessionsOK'
  BY <1>0, <1>5 DEF ReceiveMsg, Expirable, TypeOK, SessionsOK, Sides, sessionVars, senderVars, receiverVars
<1>6. ASSUME AckDone PROVE SessionsOK'
  BY <1>0, <1>6, Zenon DEF AckDone, TypeOK, SessionsOK, Sides, sessionVars, senderVars, receiverVars
<1>7. ASSUME NEW x \in Sides, Establish(x) PROVE SessionsOK'
  BY <1>0, <1>7, Zenon DEF Establish, Other, Sides, TypeOK, SessionsOK, Sides, sessionVars, senderVars, receiverVars
<1>8. ASSUME NEW x \in Sides, FreshEpoch(x) PROVE SessionsOK'
  BY <1>0, <1>8, Zenon DEF FreshEpoch, resetSender, Mark, TypeOK, SessionsOK, Sides, sessionVars, senderVars, receiverVars
<1>9. ASSUME NEW x \in Sides, Leave(x) PROVE SessionsOK'
  BY <1>0, <1>9 DEF Leave, resetSender, TypeOK, SessionsOK, Sides, sessionVars, senderVars, receiverVars
<1>10. ASSUME Lose PROVE SessionsOK'
  BY <1>0, <1>10, Zenon DEF Lose, TypeOK, SessionsOK, Sides, sessionVars, senderVars, receiverVars
<1>11. CASE UNCHANGED vars
  BY <1>0, <1>11, Zenon DEF TypeOK, SessionsOK, Sides, sessionVars, senderVars, receiverVars, vars, sessionVars, senderVars, receiverVars
<1> QED
  BY <1>1, <1>2, <1>3, <1>4, <1>5, <1>6, <1>7, <1>8, <1>9, <1>10, <1>11 DEF Next

\* A message enters pending when its transcript entry says sending, and leaves it
\* when the entry is marked.
LEMMA TrackedStep == IInv /\ [Next]_vars => TrackedOK'
<1> SUFFICES ASSUME IInv, [Next]_vars PROVE TrackedOK'
  OBVIOUS
<1> USE ReliableAssumption
<1>0. TypeOK /\ SessionsOK /\ TrackedOK /\ UnsentOK
  BY Zenon DEF IInv
<1>1. ASSUME NEW i \in Ids, Send(i) PROVE TrackedOK'
  BY <1>0, <1>1 DEF Send, TypeOK, SessionsOK, TrackedOK, UnsentOK, Statuses, sessionVars, senderVars, receiverVars
<1>2. ASSUME NEW i \in Ids, SendDone(i) PROVE TrackedOK'
  BY <1>0, <1>2 DEF SendDone, Accepted, Refused, failPending, Mark, TypeOK, SessionsOK, TrackedOK, UnsentOK, Statuses, sessionVars, senderVars, receiverVars
<1>3. ASSUME NEW i \in Ids, Timer(i) PROVE TrackedOK'
  BY <1>0, <1>3 DEF Timer, Retry, GiveUp, failPending, Mark, TypeOK, SessionsOK, TrackedOK, UnsentOK, Statuses, sessionVars, senderVars, receiverVars
<1>4. ASSUME NEW c \in acks, ReceiveAck(c) PROVE TrackedOK'
  BY <1>0, <1>4 DEF ReceiveAck, Mark, TypeOK, SessionsOK, TrackedOK, UnsentOK, Statuses, sessionVars, senderVars, receiverVars
<1>5. ASSUME NEW c \in msgs, ReceiveMsg(c) PROVE TrackedOK'
  BY <1>0, <1>5, Zenon DEF ReceiveMsg, Expirable, TypeOK, SessionsOK, TrackedOK, UnsentOK, Statuses, sessionVars, senderVars, receiverVars
<1>6. ASSUME AckDone PROVE TrackedOK'
  BY <1>0, <1>6, Zenon DEF AckDone, TypeOK, SessionsOK, TrackedOK, UnsentOK, Statuses, sessionVars, senderVars, receiverVars
<1>7. ASSUME NEW x \in Sides, Establish(x) PROVE TrackedOK'
  BY <1>0, <1>7, Zenon DEF Establish, Other, Sides, TypeOK, SessionsOK, TrackedOK, UnsentOK, Statuses, sessionVars, senderVars, receiverVars
<1>8. ASSUME NEW x \in Sides, FreshEpoch(x) PROVE TrackedOK'
  BY <1>0, <1>8 DEF FreshEpoch, resetSender, Mark, TypeOK, SessionsOK, TrackedOK, UnsentOK, Statuses, sessionVars, senderVars, receiverVars
<1>9. ASSUME NEW x \in Sides, Leave(x) PROVE TrackedOK'
  BY <1>0, <1>9 DEF Leave, resetSender, TypeOK, SessionsOK, TrackedOK, UnsentOK, Statuses, sessionVars, senderVars, receiverVars
<1>10. ASSUME Lose PROVE TrackedOK'
  BY <1>0, <1>10, Zenon DEF Lose, TypeOK, SessionsOK, TrackedOK, UnsentOK, Statuses, sessionVars, senderVars, receiverVars
<1>11. CASE UNCHANGED vars
  BY <1>0, <1>11 DEF TypeOK, SessionsOK, TrackedOK, UnsentOK, Statuses, sessionVars, senderVars, receiverVars, vars, sessionVars, senderVars, receiverVars
<1> QED
  BY <1>1, <1>2, <1>3, <1>4, <1>5, <1>6, <1>7, <1>8, <1>9, <1>10, <1>11, Zenon DEF Next

\* AckDone hands a message on in the step that acknowledges it.
LEMMA AcknowledgedStep == IInv /\ [Next]_vars => AcknowledgedOK'
<1> SUFFICES ASSUME IInv, [Next]_vars PROVE AcknowledgedOK'
  OBVIOUS
<1> USE ReliableAssumption
<1>0. TypeOK /\ AcknowledgedOK
  BY DEF IInv
<1>1. ASSUME NEW i \in Ids, Send(i) PROVE AcknowledgedOK'
  BY <1>0, <1>1, Zenon DEF Send, TypeOK, AcknowledgedOK, Copies, Statuses, sessionVars, senderVars, receiverVars
<1>2. ASSUME NEW i \in Ids, SendDone(i) PROVE AcknowledgedOK'
  BY <1>0, <1>2, Zenon DEF SendDone, Accepted, Refused, failPending, Mark, TypeOK, AcknowledgedOK, Copies, Statuses, sessionVars, senderVars, receiverVars
<1>3. ASSUME NEW i \in Ids, Timer(i) PROVE AcknowledgedOK'
  BY <1>0, <1>3 DEF Timer, Retry, GiveUp, failPending, Mark, TypeOK, AcknowledgedOK, Copies, Statuses, sessionVars, senderVars, receiverVars
<1>4. ASSUME NEW c \in acks, ReceiveAck(c) PROVE AcknowledgedOK'
  BY <1>0, <1>4 DEF ReceiveAck, Mark, TypeOK, AcknowledgedOK, Copies, Statuses, sessionVars, senderVars, receiverVars
<1>5. ASSUME NEW c \in msgs, ReceiveMsg(c) PROVE AcknowledgedOK'
  BY <1>0, <1>5, Zenon DEF ReceiveMsg, Expirable, TypeOK, AcknowledgedOK, Copies, Statuses, sessionVars, senderVars, receiverVars
<1>6. ASSUME AckDone PROVE AcknowledgedOK'
  BY <1>0, <1>6, ZenonT(30) DEF AckDone, TypeOK, AcknowledgedOK, Copies, Statuses, sessionVars, senderVars, receiverVars
<1>7. ASSUME NEW x \in Sides, Establish(x) PROVE AcknowledgedOK'
  BY <1>0, <1>7, Zenon DEF Establish, Other, Sides, TypeOK, AcknowledgedOK, Copies, Statuses, sessionVars, senderVars, receiverVars
<1>8. ASSUME NEW x \in Sides, FreshEpoch(x) PROVE AcknowledgedOK'
  BY <1>0, <1>8, Zenon DEF FreshEpoch, resetSender, Mark, TypeOK, AcknowledgedOK, Copies, Statuses, sessionVars, senderVars, receiverVars
<1>9. ASSUME NEW x \in Sides, Leave(x) PROVE AcknowledgedOK'
  BY <1>0, <1>9, Zenon DEF Leave, resetSender, TypeOK, AcknowledgedOK, Copies, Statuses, sessionVars, senderVars, receiverVars
<1>10. ASSUME Lose PROVE AcknowledgedOK'
  BY <1>0, <1>10, Zenon DEF Lose, TypeOK, AcknowledgedOK, Copies, Statuses, sessionVars, senderVars, receiverVars
<1>11. CASE UNCHANGED vars
  BY <1>0, <1>11, Zenon DEF TypeOK, AcknowledgedOK, Copies, Statuses, sessionVars, senderVars, receiverVars, vars, sessionVars, senderVars, receiverVars
<1> QED
  BY <1>1, <1>2, <1>3, <1>4, <1>5, <1>6, <1>7, <1>8, <1>9, <1>10, <1>11 DEF Next

-----------------------------------------------------------------------------
(* What a step does to the copies of a message, and to what bounds them. *)

\* Frames are lost, and messages are given up or acknowledged.
Shrinks ==
  /\ msgs' \subseteq msgs /\ pending' \subseteq pending
  /\ \A i \in Ids : /\ status'[i] = "unsent" <=> status[i] = "unsent"
                    /\ sending'[i] = 0 \/ sending'[i] = sending[i]
  /\ session' = session /\ used' = used /\ view' = view /\ seen' = seen /\ task' = task

\* sendPending encrypts i for the session of the sender: a new message, or another attempt.
Encrypts(i) ==
  /\ session["me"] # 0 \/ i \in pending
  /\ sending'[i] = session["me"] /\ \A j \in Ids : j # i => sending'[j] = sending[j]
  /\ \/ status[i] = "unsent" /\ pending' = pending \cup {i} /\ status'[i] # "unsent"
     \/ i \in pending /\ pending' = pending /\ status'[i] = status[i]
  /\ \A j \in Ids : j # i => status'[j] = status[j]
  /\ session' = session /\ used' = used /\ view' = view /\ seen' = seen /\ task' = task
  /\ msgs' = msgs

\* sendRawApp hands a copy of i to the transport.
Posts(i) ==
  /\ sending[i] # 0 /\ sending'[i] = 0 /\ \A j \in Ids : j # i => sending'[j] = sending[j]
  /\ \E m : m.id = i /\ m.key = sending[i] /\ msgs' = msgs \cup {m}
  /\ session' = session /\ used' = used /\ view' = view /\ seen' = seen /\ task' = task
  /\ pending' = pending /\ status' = status

\* The receiver takes a copy, and forgets messages that no copy is left of.
Takes(c) ==
  /\ task = NoTask /\ task' = c /\ c \in msgs /\ c.key = session["peer"] /\ msgs' = msgs \ {c}
  /\ seen' \subseteq seen
  /\ \A i \in seen \ seen' : i \notin pending /\ sending[i] = 0 /\ \A m \in msgs : m.id # i
  /\ session' = session /\ used' = used /\ view' = view
  /\ pending' = pending /\ status' = status /\ sending' = sending

\* The receiver hands the copy it took on, unless it has seen one.
Hands ==
  /\ task # NoTask /\ task' = NoTask /\ msgs' = msgs
  /\ seen' = seen \cup {task.id}
  /\ \A i \in Ids : view'[i] = IF i = task.id /\ i \notin seen THEN view[i] + 1 ELSE view[i]
  /\ session' = session /\ used' = used
  /\ pending' = pending /\ status' = status /\ sending' = sending

\* A side enters a session later than any it was in.
Enters(x) ==
  /\ session[x] = 0 /\ session'[x] = used'[x] /\ used[x] < used'[x]
  /\ \A y \in Sides : y # x => session'[y] = session[y] /\ used'[y] = used[y]
  /\ used' \in [Sides -> 0..MaxSession]
  /\ view' = view /\ seen' = seen /\ task' = task /\ msgs' = msgs
  /\ pending' = pending /\ status' = status /\ sending' = sending

\* The sender leaves its session, and with it every pending message.
SenderLeaves ==
  /\ pending' = {} /\ session'["peer"] = session["peer"]
  /\ \A i \in Ids : status'[i] = "unsent" <=> status[i] = "unsent"
  /\ used' = used /\ view' = view /\ seen' = seen /\ task' = task
  /\ msgs' = msgs /\ sending' = sending

\* The receiver leaves its session, between two messages or with an empty transcript.
ReceiverLeaves ==
  /\ session'["peer"] = 0 /\ session'["me"] = session["me"] /\ seen' = {}
  /\ (task = NoTask /\ view' = view) \/ \A i \in Ids : view'[i] = 0
  /\ used' = used /\ task' = task /\ msgs' = msgs
  /\ pending' = pending /\ status' = status /\ sending' = sending

Effects ==
  \/ Shrinks \/ Hands \/ SenderLeaves \/ ReceiverLeaves
  \/ \E i \in Ids : Encrypts(i) \/ Posts(i)
  \/ \E c \in Copies : Takes(c)
  \/ \E x \in Sides : Enters(x)

\* A mark leaves the unsent messages unsent, and makes no other.
LEMMA MarkKeeps ==
  ASSUME TypeOK, NEW I, NEW s, s # "unsent", Mark(I, s)
  PROVE  \A i \in Ids : status'[i] = "unsent" <=> status[i] = "unsent"
  BY Zenon DEF TypeOK, Mark

\* Every step has one of these effects.
LEMMA StepEffects == TypeOK /\ [Next]_vars => Effects
<1> SUFFICES ASSUME TypeOK, [Next]_vars PROVE Effects
  BY Zenon
<1> USE DEF sessionVars, senderVars, receiverVars
<1>1. ASSUME NEW i \in Ids, Send(i) PROVE Encrypts(i)
  BY <1>1, Zenon DEF Send, Encrypts, TypeOK
<1>2. ASSUME NEW i \in Ids, SendDone(i) PROVE Posts(i) \/ Shrinks
  <2>1. sending'[i] = 0 /\ \A j \in Ids : j # i => sending'[j] = sending[j]
    BY <1>2, Zenon DEF SendDone, TypeOK
  <2>2. CASE Accepted(i)
    <3>1. PICK m : m = [id |-> i, key |-> sending[i], attempt |-> attempts[i]]
      BY Zenon
    <3>2. m.id = i /\ m.key = sending[i] /\ msgs' = msgs \cup {m}
      BY <2>2, <3>1, Zenon DEF Accepted
    <3> QED
      BY <1>2, <2>1, <2>2, <3>2, Zenon DEF SendDone, Accepted, Posts
  <2>3. CASE Refused(i)
    <3>1. \A j \in Ids : status'[j] = "unsent" <=> status[j] = "unsent"
      BY <2>3, MarkKeeps, Zenon DEF Refused, failPending
    <3>2. \A j \in Ids : sending'[j] = 0 \/ sending'[j] = sending[j]
      BY <2>1, Zenon
    <3>3. msgs' \subseteq msgs /\ pending' \subseteq pending
      BY <2>3, Zenon DEF Refused, failPending
    <3> QED
      BY <1>2, <3>1, <3>2, <3>3, Zenon DEF SendDone, Shrinks
  <2> QED
    BY <1>2, <2>2, <2>3, Zenon DEF SendDone
<1>3. ASSUME NEW i \in Ids, Timer(i) PROVE Encrypts(i) \/ Shrinks
  <2>1. CASE i \in pending /\ Retry(i)
    BY <1>3, <2>1, Zenon DEF Timer, Retry, Encrypts, TypeOK
  <2>2. CASE GiveUp(i)
    <3>1. \A j \in Ids : status'[j] = "unsent" <=> status[j] = "unsent"
      BY <2>2, MarkKeeps, Zenon DEF GiveUp, failPending
    <3> QED
      BY <1>3, <2>2, <3>1, Zenon DEF Timer, GiveUp, failPending, Shrinks
  <2>3. CASE UNCHANGED <<pending, attempts, sending, status>>
    BY <1>3, <2>3, Zenon DEF Timer, Shrinks
  <2> QED
    BY <1>3, <2>1, <2>2, <2>3, Zenon DEF Timer
<1>4. ASSUME NEW c \in acks, ReceiveAck(c) PROVE Shrinks
  <2>1. \A j \in Ids : status'[j] = "unsent" <=> status[j] = "unsent"
    BY <1>4, MarkKeeps, Zenon DEF ReceiveAck
  <2> QED
    BY <1>4, <2>1, Zenon DEF ReceiveAck, Shrinks
<1>5. ASSUME NEW c \in msgs, ReceiveMsg(c) PROVE c \in Copies /\ Takes(c)
  <2>1. PICK X \in SUBSET {i \in seen : Expirable(i)} : seen' = seen \ X
    BY <1>5, Zenon DEF ReceiveMsg
  <2>2. \A i \in seen \ seen' : i \notin pending /\ sending[i] = 0 /\ \A m \in msgs : m.id # i
    BY <2>1, Zenon DEF Expirable
  <2>3. c \in Copies
    BY Zenon DEF TypeOK
  <2> QED
    BY <1>5, <2>1, <2>2, <2>3, Zenon DEF ReceiveMsg, Takes
<1>6. ASSUME AckDone PROVE Hands
  <2>1. CASE task.id \in seen
    BY <1>6, <2>1, Zenon DEF AckDone, Hands
  <2>2. CASE task.id \notin seen
    <3>1. PICK k : k = task.id
      BY Zenon
    <3>2. view' = [view EXCEPT ![k] = view[k] + 1] /\ view \in [Ids -> Nat]
      BY <1>6, <2>2, <3>1, Zenon DEF AckDone, TypeOK
    <3>3. \A i \in Ids : view'[i] = IF i = k THEN view[i] + 1 ELSE view[i]
      BY <3>2, Zenon
    <3>4. \A i \in Ids : view'[i] = IF i = task.id /\ i \notin seen THEN view[i] + 1 ELSE view[i]
      BY <2>2, <3>1, <3>3, Zenon
    <3> QED
      BY <1>6, <2>2, <3>4, Zenon DEF AckDone, Hands
  <2> QED
    BY <2>1, <2>2, Zenon
<1>7. ASSUME NEW x \in Sides, Establish(x) PROVE Enters(x)
  <2> DEFINE next == IF session[Other(x)] > used[x] THEN session[Other(x)]
                     ELSE 1 + IF used["me"] > used["peer"] THEN used["me"] ELSE used["peer"]
  <2>1. session' = [session EXCEPT ![x] = next] /\ used' = [used EXCEPT ![x] = next] /\ next <= MaxSession
    BY <1>7, Zenon DEF Establish
  <2>2. \A y \in Sides : session[y] \in 0..MaxSession /\ used[y] \in 0..MaxSession
    BY Zenon DEF TypeOK
  <2>3. Other(x) \in Sides /\ "me" \in Sides /\ "peer" \in Sides /\ (x = "me" \/ x = "peer")
    BY Zenon DEF Sides, Other
  <2>4. next \in 0..MaxSession /\ used[x] < next
    BY <2>1, <2>2, <2>3, ReliableAssumption
  <2> HIDE DEF next
  <2>5. session'[x] = next /\ used'[x] = next /\ used' \in [Sides -> 0..MaxSession]
        /\ \A y \in Sides : y # x => session'[y] = session[y] /\ used'[y] = used[y]
    BY <2>1, <2>4, Zenon DEF TypeOK
  <2> QED
    BY <1>7, <2>4, <2>5, Zenon DEF Establish, Enters
<1>8. ASSUME NEW x \in Sides, FreshEpoch(x) PROVE SenderLeaves \/ ReceiverLeaves
  <2>1. "me" \in Sides /\ "peer" \in Sides
    BY Zenon DEF Sides
  <2>2. CASE x = "me" /\ resetSender /\ Mark(pending, "failed") /\ UNCHANGED seen
    <3>1. \A j \in Ids : status'[j] = "unsent" <=> status[j] = "unsent"
      BY <2>2, MarkKeeps, Zenon
    <3> QED
      BY <1>8, <2>1, <2>2, <3>1, Zenon DEF FreshEpoch, resetSender, SenderLeaves, TypeOK
  <2>3. CASE x = "peer" /\ task = NoTask /\ seen' = {} /\ UNCHANGED <<pending, timer, status>>
    BY <1>8, <2>1, <2>3, Zenon DEF FreshEpoch, ReceiverLeaves, TypeOK
  <2> QED
    BY <1>8, <2>2, <2>3, Zenon DEF FreshEpoch
<1>9. ASSUME NEW x \in Sides, Leave(x) PROVE SenderLeaves \/ ReceiverLeaves
  <2>1. "me" \in Sides /\ "peer" \in Sides
    BY Zenon DEF Sides
  <2>2. CASE /\ x = "me" /\ resetSender /\ UNCHANGED <<seen, view>>
             /\ status' = [i \in Ids |-> IF status[i] = "unsent" THEN "unsent" ELSE "gone"]
    <3>1. \A j \in Ids : status'[j] = "unsent" <=> status[j] = "unsent"
      BY <2>2, Zenon
    <3> QED
      BY <1>9, <2>1, <2>2, <3>1, Zenon DEF Leave, resetSender, SenderLeaves, TypeOK
  <2>3. CASE x = "peer" /\ seen' = {} /\ view' = [i \in Ids |-> 0] /\ UNCHANGED <<pending, timer, status>>
    BY <1>9, <2>1, <2>3, Zenon DEF Leave, ReceiverLeaves, TypeOK
  <2> QED
    BY <1>9, <2>2, <2>3, Zenon DEF Leave
<1>10. ASSUME Lose PROVE Shrinks
  BY <1>10, Zenon DEF Lose, Shrinks
<1>11. CASE UNCHANGED vars
  <2>1. /\ session' = session /\ used' = used /\ view' = view /\ seen' = seen /\ task' = task
        /\ msgs' = msgs /\ pending' = pending /\ status' = status /\ sending' = sending
    BY <1>11 DEF vars
  <2> QED
    BY <2>1, Zenon DEF Shrinks, Effects
<1> QED
  BY <1>1, <1>2, <1>3, <1>4, <1>5, <1>6, <1>7, <1>8, <1>9, <1>10, <1>11, ZenonT(30) DEF Next, Effects

\* A copy has an identifier, and the number of a session as its key.
LEMMA CopyType == TypeOK => \A c \in Alive : c.id \in Ids /\ c.key \in 0..MaxSession /\ c.key # 0
<1>1. \A c \in Copies : c.id \in Ids /\ c.key \in 0..MaxSession /\ c.key # 0
  BY ReliableAssumption DEF Copies
<1>2. TypeOK => \A c \in Alive : c \in Copies
  BY Zenon DEF TypeOK, Alive
<1> QED
  BY <1>1, <1>2, Zenon

\* Session numbers are integers.
LEMMA Bounded == \A k \in 0..MaxSession : k \in Int
  BY ReliableAssumption

\* Only Send creates copies of a message, and it marks the message.
LEMMA UnsentStep == IInv /\ [Next]_vars => UnsentOK'
<1> SUFFICES ASSUME IInv, [Next]_vars PROVE UnsentOK'
  BY Zenon
<1>0. UnsentOK /\ Effects
  BY StepEffects, Zenon DEF IInv
<1>1. TypeOK
  BY Zenon DEF IInv
<1>2. task # NoTask => task \in Copies
  BY <1>1, Zenon DEF TypeOK
<1> SUFFICES ASSUME NEW i \in Ids, status'[i] = "unsent"
             PROVE  sending'[i] = 0 /\ view'[i] = 0 /\ \A c \in Alive' : c.id # i
  BY Zenon DEF UnsentOK
<1>3. status[i] = "unsent" => sending[i] = 0 /\ view[i] = 0 /\ \A c \in Alive : c.id # i
  BY <1>0, Zenon DEF UnsentOK
<1>4. CASE Shrinks
  <2>1. Alive' \subseteq Alive
    BY <1>4, Zenon DEF Shrinks, Alive
  <2> QED
    BY <1>3, <1>4, <2>1, Zenon DEF Shrinks
<1>5. CASE Hands
  <2>1. Alive' \subseteq Alive /\ task \in Alive
    BY <1>5, Zenon DEF Hands, Alive
  <2> QED
    BY <1>3, <1>5, <2>1, Zenon DEF Hands
<1>6. CASE SenderLeaves
  BY <1>3, <1>6, Zenon DEF SenderLeaves, Alive
<1>7. CASE ReceiverLeaves
  BY <1>3, <1>7, Zenon DEF ReceiverLeaves, Alive
<1>8. ASSUME NEW j \in Ids, Encrypts(j) PROVE sending'[i] = 0 /\ view'[i] = 0 /\ \A c \in Alive' : c.id # i
  <2>1. j # i \/ j \in pending
    BY <1>8, Zenon DEF Encrypts
  <2>2. j # i
    BY <1>3, <1>8, <2>1, Zenon DEF IInv, TrackedOK, Encrypts
  <2> QED
    BY <1>3, <1>8, <2>2, Zenon DEF Encrypts, Alive
<1>9. ASSUME NEW j \in Ids, Posts(j) PROVE sending'[i] = 0 /\ view'[i] = 0 /\ \A c \in Alive' : c.id # i
  <2>1. status[i] = "unsent" /\ j # i
    BY <1>3, <1>9, Zenon DEF Posts
  <2>2. \A c \in Alive' : c \in Alive \/ c.id = j
    BY <1>9, Zenon DEF Posts, Alive
  <2> QED
    BY <1>3, <1>9, <2>1, <2>2, Zenon DEF Posts
<1>10. ASSUME NEW c \in Copies, Takes(c) PROVE sending'[i] = 0 /\ view'[i] = 0 /\ \A d \in Alive' : d.id # i
  <2>1. Alive' \subseteq Alive
    BY <1>10, Zenon DEF Takes, Alive
  <2> QED
    BY <1>3, <1>10, <2>1, Zenon DEF Takes
<1>11. ASSUME NEW x \in Sides, Enters(x) PROVE sending'[i] = 0 /\ view'[i] = 0 /\ \A c \in Alive' : c.id # i
  BY <1>3, <1>11, Zenon DEF Enters, Alive
<1> QED
  BY <1>0, <1>4, <1>5, <1>6, <1>7, <1>8, <1>9, <1>10, <1>11, Zenon DEF Effects

\* A message gets all its attempts within one session: leaving the session ends
\* its retries.
LEMMA OneKeyStep == IInv /\ [Next]_vars => OneKeyOK'
<1> SUFFICES ASSUME IInv, [Next]_vars PROVE OneKeyOK'
  BY Zenon
<1>0. OneKeyOK /\ Effects /\ UnsentOK /\ TypeOK
  BY StepEffects, Zenon DEF IInv
<1>1. pending \subseteq Ids /\ \A c \in Alive : c.id \in Ids
  BY <1>0, CopyType, Zenon DEF TypeOK
<1>2. CASE Shrinks
  <2>1. Alive' \subseteq Alive
    BY <1>2, Zenon DEF Shrinks, Alive
  <2> QED
    BY <1>0, <1>1, <1>2, <2>1, Zenon DEF Shrinks, OneKeyOK
<1>3. CASE Hands
  <2>1. Alive' \subseteq Alive
    BY <1>3, Zenon DEF Hands, Alive
  <2> QED
    BY <1>0, <1>3, <2>1, Zenon DEF Hands, OneKeyOK
<1>4. CASE SenderLeaves
  BY <1>0, <1>4, Zenon DEF SenderLeaves, OneKeyOK, Alive
<1>5. CASE ReceiverLeaves
  BY <1>0, <1>5, Zenon DEF ReceiverLeaves, OneKeyOK, Alive
<1>6. ASSUME NEW i \in Ids, Encrypts(i) PROVE OneKeyOK'
  <2>1. Alive' = Alive /\ session' = session /\ sending'[i] = session["me"]
        /\ \A j \in Ids : j # i => sending'[j] = sending[j]
    BY <1>6, Zenon DEF Encrypts, Alive
  <2>2. \A c \in Alive : c.id = i => c.key = session["me"]
    BY <1>0, <1>6, Zenon DEF Encrypts, OneKeyOK, UnsentOK
  <2>3. pending' \subseteq pending \cup {i}
    BY <1>6, Zenon DEF Encrypts
  <2>4. \A c, d \in Alive' : c.id = d.id => c.key = d.key
    BY <1>0, <2>1, Zenon DEF OneKeyOK
  <2>5. \A c \in Alive' : c.id \in pending' => c.key = session'["me"]
    BY <1>0, <2>1, <2>2, <2>3, Zenon DEF OneKeyOK
  <2>6. \A c \in Alive' : sending'[c.id] # 0 => c.key = sending'[c.id]
    BY <1>0, <1>1, <2>1, <2>2, Zenon DEF OneKeyOK
  <2>7. \A j \in pending' : sending'[j] # 0 => sending'[j] = session'["me"]
    BY <1>0, <1>1, <2>1, <2>3, Zenon DEF OneKeyOK
  <2> QED
    BY <2>4, <2>5, <2>6, <2>7, Zenon DEF OneKeyOK
<1>7. ASSUME NEW i \in Ids, Posts(i) PROVE OneKeyOK'
  <2>1. PICK m : m.id = i /\ m.key = sending[i] /\ msgs' = msgs \cup {m}
    BY <1>7, Zenon DEF Posts
  <2>2. \A c \in Alive' : c \in Alive \/ c = m
    BY <1>7, <2>1, Zenon DEF Posts, Alive
  <2>3. \A c \in Alive : c.id = i => c.key = m.key
    BY <1>0, <1>7, <2>1, Zenon DEF OneKeyOK, Posts
  <2>4. \A c, d \in Alive' : c.id = d.id => c.key = d.key
    BY <1>0, <2>1, <2>2, <2>3, Zenon DEF OneKeyOK
  <2>5. \A c \in Alive' : c.id \in pending' => c.key = session'["me"]
    BY <1>0, <1>7, <2>1, <2>2, Zenon DEF OneKeyOK, Posts
  <2>6. \A c \in Alive' : sending'[c.id] # 0 => c.key = sending'[c.id]
    BY <1>0, <1>1, <1>7, <2>1, <2>2, Zenon DEF OneKeyOK, Posts
  <2>7. \A j \in pending' : sending'[j] # 0 => sending'[j] = session'["me"]
    BY <1>0, <1>1, <1>7, Zenon DEF OneKeyOK, Posts
  <2> QED
    BY <2>4, <2>5, <2>6, <2>7, Zenon DEF OneKeyOK
<1>8. ASSUME NEW c \in Copies, Takes(c) PROVE OneKeyOK'
  <2>1. Alive' \subseteq Alive
    BY <1>8, Zenon DEF Takes, Alive
  <2> QED
    BY <1>0, <1>8, <2>1, Zenon DEF Takes, OneKeyOK
<1>9. ASSUME NEW x \in Sides, Enters(x) PROVE OneKeyOK'
  <2>1. Alive' = Alive /\ sending' = sending /\ pending' = pending
    BY <1>9, Zenon DEF Enters, Alive
  <2>2. pending = {} \/ session'["me"] = session["me"]
    BY <1>9, Zenon DEF Enters, IInv, SessionsOK, Sides
  <2> QED
    BY <1>0, <2>1, <2>2, Zenon DEF OneKeyOK
<1> QED
  BY <1>0, <1>2, <1>3, <1>4, <1>5, <1>6, <1>7, <1>8, <1>9, Zenon DEF Effects

\* A copy reaches the transcript only in the receiver's present session, which
\* is the last one it has used.
LEMMA OldStep == IInv /\ [Next]_vars => OldOK'
<1> SUFFICES ASSUME IInv, [Next]_vars PROVE OldOK'
  BY Zenon
<1>0. OldOK /\ Effects /\ UnsentOK /\ TypeOK /\ OneKeyOK /\ SessionsOK /\ OnceOK
  BY StepEffects, Zenon DEF IInv
<1>1. pending \subseteq Ids /\ \A c \in Alive : c.id \in Ids
  BY <1>0, CopyType, Zenon DEF TypeOK
<1> DEFINE Old(i) == /\ \A c \in Alive : c.id = i => c.key <= used["peer"]
                     /\ sending[i] # 0 => sending[i] <= used["peer"]
                     /\ i \in pending => session["me"] <= used["peer"]
<1>2. \A i \in Ids : view[i] # 0 => Old(i)
  BY <1>0, Zenon DEF OldOK
<1> SUFFICES ASSUME NEW i \in Ids, view'[i] # 0 PROVE Old(i)'
  BY Zenon DEF OldOK
<1>3. CASE Shrinks
  <2>1. Alive' \subseteq Alive
    BY <1>3, Zenon DEF Shrinks, Alive
  <2> QED
    BY <1>2, <1>3, <2>1, Zenon DEF Shrinks
<1>4. CASE Hands
  <2>1. Alive' \subseteq Alive /\ task \in Alive
    BY <1>4, Zenon DEF Hands, Alive
  <2>2. Old(i)
    <3>1. CASE i = task.id
      <4>1. task.key <= used["peer"]
        BY <1>0, <1>4, Zenon DEF OnceOK, Hands
      <4> QED
        BY <1>0, <2>1, <3>1, <4>1, Zenon DEF OneKeyOK
    <3>2. CASE i # task.id
      BY <1>2, <1>4, <3>2, Zenon DEF Hands
    <3> QED
      BY <3>1, <3>2, Zenon
  <2> QED
    BY <1>4, <2>1, <2>2, Zenon DEF Hands
<1>5. CASE SenderLeaves
  BY <1>2, <1>5, Zenon DEF SenderLeaves, Alive
<1>6. CASE ReceiverLeaves
  BY <1>2, <1>6, Zenon DEF ReceiverLeaves, Alive
<1>7. ASSUME NEW j \in Ids, Encrypts(j) PROVE Old(i)'
  <2>1. Alive' = Alive /\ session' = session /\ used' = used /\ Old(i)
    BY <1>2, <1>7, Zenon DEF Encrypts, Alive
  <2>2. i # j \/ (i \in pending /\ pending' = pending)
    BY <1>0, <1>7, Zenon DEF Encrypts, UnsentOK
  <2>3. i \in pending' => i \in pending
    BY <1>7, <2>2, Zenon DEF Encrypts
  <2>4. sending'[i] = sending[i] \/ (i \in pending /\ sending'[i] = session["me"])
    BY <1>7, <2>2, Zenon DEF Encrypts
  <2> QED
    BY <2>1, <2>3, <2>4, Zenon
<1>8. ASSUME NEW j \in Ids, Posts(j) PROVE Old(i)'
  <2>1. \A c \in Alive' : c \in Alive \/ (c.id = j /\ c.key = sending[j])
    BY <1>8, Zenon DEF Posts, Alive
  <2>2. used' = used /\ session' = session /\ pending' = pending /\ Old(i)
    BY <1>2, <1>8, Zenon DEF Posts
  <2>3. sending'[i] = 0 \/ sending'[i] = sending[i]
    BY <1>8, Zenon DEF Posts
  <2>4. sending[j] # 0
    BY <1>8, Zenon DEF Posts
  <2> QED
    BY <2>1, <2>2, <2>3, <2>4, Zenon
<1>9. ASSUME NEW c \in Copies, Takes(c) PROVE Old(i)'
  <2>1. Alive' \subseteq Alive
    BY <1>9, Zenon DEF Takes, Alive
  <2> QED
    BY <1>2, <1>9, <2>1, Zenon DEF Takes
<1>10. ASSUME NEW x \in Sides, Enters(x) PROVE Old(i)'
  <2>1. Alive' = Alive /\ sending' = sending /\ pending' = pending /\ Old(i)
    BY <1>2, <1>10, Zenon DEF Enters, Alive
  <2>2. pending = {} \/ session'["me"] = session["me"]
    BY <1>0, <1>10, Zenon DEF Enters, SessionsOK, Sides
  <2>3. used["peer"] = used'["peer"] \/ used["peer"] < used'["peer"]
    BY <1>10, Zenon DEF Enters, Sides
  <2>4. used["peer"] \in Int /\ used'["peer"] \in Int /\ session["me"] \in Int /\ sending[i] \in Int
    BY <1>0, <1>10, Bounded, Zenon DEF TypeOK, Enters, Sides
  <2>5. \A c \in Alive : c.key \in Int
    BY <1>0, CopyType, Bounded, Zenon
  <2>6. \A k \in Int : k <= used["peer"] => k <= used'["peer"]
    BY <2>3, <2>4
  <2> QED
    BY <2>1, <2>2, <2>4, <2>5, <2>6, Zenon
<1> QED
  BY <1>0, <1>3, <1>4, <1>5, <1>6, <1>7, <1>8, <1>9, <1>10, Zenon DEF Effects

\* What is handed on is new: a copy the receiver can decrypt is a copy of a
\* message that seen remembers or that is not in the transcript.
LEMMA OnceStep == IInv /\ [Next]_vars => OnceOK'
<1> SUFFICES ASSUME IInv, [Next]_vars PROVE OnceOK'
  BY Zenon
<1>0. OldOK /\ Effects /\ UnsentOK /\ TypeOK /\ OneKeyOK /\ SessionsOK /\ OnceOK
  BY StepEffects, Zenon DEF IInv
<1>1. pending \subseteq Ids /\ \A c \in Alive : c.id \in Ids
  BY <1>0, CopyType, Zenon DEF TypeOK
<1>2. \A i \in Ids : view[i] \in Nat
  BY <1>0, Zenon DEF TypeOK
<1> DEFINE Past(i) == /\ \A c \in msgs : c.id = i => Stale(c.key)
                      /\ sending[i] # 0 => Stale(sending[i])
                      /\ i \in pending => Stale(session["me"])
                      /\ task # NoTask => task.id # i
           Within == task # NoTask => task.key <= used["peer"]
<1>3. \A i \in Ids : view[i] # 0 /\ i \notin seen => Past(i)
  BY <1>0, Zenon DEF OnceOK
<1>4. Within /\ \A i \in Ids : view[i] <= 1
  BY <1>0, Zenon DEF OnceOK
<1> SUFFICES /\ Within'
             /\ \A i \in Ids : view'[i] <= 1
             /\ \A i \in Ids : view'[i] # 0 /\ i \notin seen' => Past(i)'
  BY Zenon DEF OnceOK
<1> DEFINE Goal == /\ Within'
                   /\ \A i \in Ids : view'[i] <= 1
                   /\ \A i \in Ids : view'[i] # 0 /\ i \notin seen' => Past(i)'
<1>5. ASSUME used' = used, session'["peer"] = session["peer"]
      PROVE  \A k : Stale(k) => Stale(k)'
  BY <1>5, Zenon DEF Stale
<1>6. CASE Shrinks
  <2>1. \A k : Stale(k) => Stale(k)'
    BY <1>5, <1>6, Zenon DEF Shrinks
  <2> QED
    BY <1>3, <1>4, <1>6, <2>1, Zenon DEF Shrinks
<1>7. CASE Hands
  <2>1. \A k : Stale(k) => Stale(k)'
    BY <1>5, <1>7, Zenon DEF Hands
  <2>2. Within'
    BY <1>7, Zenon DEF Hands
  <2>3. ASSUME NEW i \in Ids PROVE view'[i] <= 1
    <3>1. CASE i = task.id /\ i \notin seen
      <4>1. view[i] = 0
        BY <1>3, <1>7, <3>1, Zenon DEF Hands
      <4>2. view'[i] = 0 + 1
        BY <1>7, <3>1, <4>1, Zenon DEF Hands
      <4> QED
        BY <4>2
    <3>2. CASE ~(i = task.id /\ i \notin seen)
      BY <1>4, <1>7, <3>2, Zenon DEF Hands
    <3> QED
      BY <3>1, <3>2, Zenon
  <2>4. ASSUME NEW i \in Ids, view'[i] # 0, i \notin seen' PROVE Past(i)'
    <3>1. i \notin seen /\ i # task.id
      BY <1>7, <2>4, Zenon DEF Hands
    <3>2. view[i] # 0
      BY <1>7, <2>4, <3>1, Zenon DEF Hands
    <3>3. Past(i)
      BY <1>3, <3>1, <3>2, Zenon
    <3> QED
      BY <1>7, <2>1, <3>3, Zenon DEF Hands
  <2> QED
    BY <2>2, <2>3, <2>4, Zenon
<1>8. CASE SenderLeaves
  <2>1. \A k : Stale(k) => Stale(k)'
    BY <1>5, <1>8, Zenon DEF SenderLeaves
  <2> QED
    BY <1>3, <1>4, <1>8, <2>1, Zenon DEF SenderLeaves
<1>9. CASE ReceiverLeaves
  <2>1. Within'
    BY <1>4, <1>9, Zenon DEF ReceiverLeaves
  <2>2. CASE \A i \in Ids : view'[i] = 0
    <3>1. 0 <= 1
      OBVIOUS
    <3> QED
      BY <2>1, <2>2, <3>1, Zenon
  <2>3. CASE task = NoTask /\ view' = view
    <3>1. ASSUME NEW k, k <= used["peer"], k # 0 PROVE Stale(k)'
      BY <1>9, <3>1, Zenon DEF ReceiverLeaves, Stale
    <3>2. \A c \in msgs : c.key # 0
      BY <1>0, CopyType, Zenon DEF Alive
    <3>3. pending # {} => session["me"] # 0
      BY <1>0, Zenon DEF SessionsOK
    <3>4. ASSUME NEW i \in Ids, view[i] # 0
          PROVE  /\ \A c \in msgs : c.id = i => c.key <= used["peer"]
                 /\ sending[i] # 0 => sending[i] <= used["peer"]
                 /\ i \in pending => session["me"] <= used["peer"]
      BY <1>0, <3>4, Zenon DEF OldOK, Alive
    <3>5. ASSUME NEW i \in Ids, view[i] # 0 PROVE Past(i)'
      BY <1>9, <2>3, <3>1, <3>2, <3>3, <3>4, <3>5, Zenon DEF ReceiverLeaves
    <3> QED
      BY <1>4, <2>1, <2>3, <3>5, Zenon
  <2> QED
    BY <1>9, <2>2, <2>3, Zenon DEF ReceiverLeaves
<1>10. ASSUME NEW j \in Ids, Encrypts(j) PROVE Goal
  <2>1. \A k : Stale(k) => Stale(k)'
    BY <1>5, <1>10, Zenon DEF Encrypts
  <2>2. view' = view /\ seen' = seen /\ task' = task /\ msgs' = msgs /\ session' = session /\ used' = used
    BY <1>10, Zenon DEF Encrypts
  <2>3. ASSUME NEW i \in Ids, view[i] # 0, i \notin seen PROVE Past(i)'
    <3>1. Past(i)
      BY <1>3, <2>3, Zenon
    <3>2. i # j \/ (i \in pending /\ pending' = pending)
      BY <1>0, <1>10, <2>3, Zenon DEF Encrypts, UnsentOK
    <3>3. i \in pending' => i \in pending
      BY <1>10, <3>2, Zenon DEF Encrypts
    <3>4. sending'[i] = sending[i] \/ (i \in pending /\ sending'[i] = session["me"])
      BY <1>10, <3>2, Zenon DEF Encrypts
    <3> QED
      BY <2>1, <2>2, <3>1, <3>3, <3>4, Zenon
  <2> QED
    BY <1>4, <2>2, <2>3, Zenon
<1>11. ASSUME NEW j \in Ids, Posts(j) PROVE Goal
  <2>1. \A k : Stale(k) => Stale(k)'
    BY <1>5, <1>11, Zenon DEF Posts
  <2>2. \A c \in msgs' : c \in msgs \/ (c.id = j /\ c.key = sending[j])
    BY <1>11, Zenon DEF Posts
  <2>3. ASSUME NEW i \in Ids, view[i] # 0, i \notin seen PROVE Past(i)'
    <3>1. Past(i)
      BY <1>3, <2>3, Zenon
    <3>2. sending'[i] = 0 \/ sending'[i] = sending[i]
      BY <1>11, Zenon DEF Posts
    <3>3. sending[j] # 0 /\ pending' = pending /\ session' = session /\ task' = task
      BY <1>11, Zenon DEF Posts
    <3> QED
      BY <2>1, <2>2, <3>1, <3>2, <3>3, Zenon
  <2> QED
    BY <1>4, <1>11, <2>3, Zenon DEF Posts
<1>12. ASSUME NEW c \in Copies, Takes(c) PROVE Goal
  <2>1. \A k : Stale(k) => Stale(k)'
    BY <1>5, <1>12, Zenon DEF Takes
  <2>2. session["peer"] # 0 /\ session["peer"] = used["peer"]
    BY <1>0, <1>12, CopyType, Zenon DEF Takes, SessionsOK, Sides, Alive
  <2>3. c.key <= used["peer"]
    BY <1>0, <1>12, <2>2, Bounded DEF Takes, TypeOK, Sides
  <2>4. ASSUME NEW i \in Ids, view[i] # 0, i \notin seen' PROVE Past(i)'
    <3>1. CASE i \in seen
      BY <1>12, <2>4, <3>1, Zenon DEF Takes
    <3>2. CASE i \notin seen
      <4>1. Past(i)
        BY <1>3, <2>4, <3>2, Zenon
      <4>2. c.id # i
        BY <1>12, <4>1, Zenon DEF Takes, Stale
      <4> QED
        BY <1>12, <2>1, <4>1, <4>2, Zenon DEF Takes
    <3> QED
      BY <3>1, <3>2, Zenon
  <2> QED
    BY <1>4, <1>12, <2>3, <2>4, Zenon DEF Takes
<1>13. ASSUME NEW x \in Sides, Enters(x) PROVE Goal
  <2>1. used["peer"] \in Int /\ used'["peer"] \in Int
    BY <1>0, <1>13, Bounded, Zenon DEF TypeOK, Enters, Sides
  <2>2. \/ used'["peer"] = used["peer"] /\ session'["peer"] = session["peer"]
        \/ session'["peer"] = used'["peer"] /\ used["peer"] < used'["peer"]
    BY <1>13, Zenon DEF Enters, Sides
  <2>3. ASSUME NEW k \in Int, Stale(k) PROVE Stale(k)'
    BY <2>1, <2>2, <2>3 DEF Stale
  <2>4. \A c \in Alive : c.key \in Int
    BY <1>0, CopyType, Bounded, Zenon
  <2>5. session["me"] \in Int /\ \A i \in Ids : sending[i] \in Int
    BY <1>0, Bounded, Zenon DEF TypeOK, Sides
  <2>6. pending = {} \/ session'["me"] = session["me"]
    BY <1>0, <1>13, Zenon DEF Enters, SessionsOK, Sides
  <2>7. \A k \in Int : k <= used["peer"] => k <= used'["peer"]
    BY <2>1, <2>2
  <2>8. Within'
    BY <1>4, <1>13, <2>4, <2>7, Zenon DEF Enters, Alive
  <2>9. ASSUME NEW i \in Ids, view[i] # 0, i \notin seen PROVE Past(i)'
    <3>1. Past(i)
      BY <1>3, <2>9, Zenon
    <3>2. \A c \in msgs : c.key \in Int
      BY <2>4, Zenon DEF Alive
    <3>3. msgs' = msgs /\ sending' = sending /\ pending' = pending /\ task' = task
      BY <1>13, Zenon DEF Enters
    <3> QED
      BY <2>3, <2>5, <2>6, <3>1, <3>2, <3>3, Zenon
  <2> QED
    BY <1>4, <1>13, <2>8, <2>9, Zenon DEF Enters
<1> QED
  BY <1>0, <1>6, <1>7, <1>8, <1>9, <1>10, <1>11, <1>12, <1>13, Zenon DEF Effects

-----------------------------------------------------------------------------
\* The strengthened invariant holds initially.
LEMMA Initially == Init => IInv
BY ReliableAssumption
   DEF Init, IInv, TypeOK, SessionsOK, TrackedOK, AcknowledgedOK, UnsentOK, OneKeyOK, OldOK,
       OnceOK, Alive, NoTask, Statuses, Sides

\* The strengthened invariant of both channels and their sessions.
THEOREM ReliableInvariance == Spec => []IInv
<1>1. IInv /\ [Next]_vars => IInv'
  BY TypeStep, SessionsStep, TrackedStep, AcknowledgedStep, UnsentStep, OneKeyStep, OldStep,
     OnceStep DEF IInv
<1> QED
  BY Initially, <1>1, PTL DEF Spec

\* Type correctness; in particular sendPending never exceeds maxAttempts.
THEOREM TypeCorrect == Spec => []TypeOK
<1>1. IInv => TypeOK
  BY DEF IInv
<1> QED
  BY ReliableInvariance, <1>1, PTL

\* However copies, acknowledgements, fresh epochs, departures and losses
\* interleave, a message is in the receiver's transcript at most once.
THEOREM ShownAtMostOnce == Spec => []AtMostOnce
<1>1. IInv => AtMostOnce
  BY DEF IInv, OnceOK, AtMostOnce
<1> QED
  BY ReliableInvariance, <1>1, PTL

\* The sender never marks a message as sent that the receiver has not handed on.
THEOREM SentWasShown == Spec => []SentIsShown
<1>1. IInv => SentIsShown
  BY DEF IInv, AcknowledgedOK, SentIsShown
<1> QED
  BY ReliableInvariance, <1>1, PTL

\* No message shows as sending without an encryption or a timer to resolve it.
THEOREM NeverForgotten == Spec => []SendingIsTracked
<1>1. IInv => SendingIsTracked
  BY DEF IInv, TrackedOK, SendingIsTracked
<1> QED
  BY ReliableInvariance, <1>1, PTL

-----------------------------------------------------------------------------
(* Voice. *)

VoiceStates == {"idle", "starting", "active", "muted", "failed"}
Stages == {"none", "resume", "permission", "worklet"}

Types ==
  /\ ui.voice \in VoiceStates
  /\ stage \in [Starts -> Stages]
  /\ stream \in Starts \cup {None} /\ live \subseteq Starts
  /\ stops \in Nat /\ tasks \in Nat
  /\ "at" \in DOMAIN busy

\* Until starts and stops overlap, one start() waits at a time; a microphone that
\* is on is this.stream, which none of them has before it has asked; and when voice
\* is off, has failed or is being stopped, start() finds the contexts gone.
MicrophoneOK ==
  ~overlap =>
    /\ \A i, j \in Starts : stage[i] # "none" /\ stage[j] # "none" => i = j
    /\ \A i \in Starts : stage[i] \in {"resume", "permission"} => stream = None
    /\ live \subseteq {stream}
    /\ ui.voice \in {"idle", "failed"} \/ stops > 0 => ~ctx /\ stream = None

\* Frames are kept only within a session.
CapturedOK == outq > 0 => secure

\* Frames, and the flag that keeps scheduleInboundVoice from adding a task, are
\* there only with a task that will look at both.
ReceivedOK == scheduled \/ inq # <<>> => tasks > 0 \/ busy.at # "idle"

VoiceInv == Types /\ MicrophoneOK /\ FilesPausedInVoice /\ CapturedOK /\ ReceivedOK

-----------------------------------------------------------------------------
(* The parts that several handlers share. *)

\* Clearing the queues leaves no frame to send or to look at.
LEMMA ClearedOK == clearVoiceQueues => CapturedOK' /\ ReceivedOK'
BY DEF clearVoiceQueues, clearOutboundVoiceQueue, CapturedOK, ReceivedOK

\* What is shown of a call is the state it was given.
LEMMA Shown == \A voice, muted : Show(voice, muted) => ui'.voice = voice
BY DEF Show

\* The record of a task at work always says where it is.
LEMMA BusyFields ==
  /\ "at" \in DOMAIN Idle
  /\ \A at, frame : "at" \in DOMAIN [at |-> at, frame |-> frame]
  /\ \A at : DOMAIN [busy EXCEPT !.at = at] = DOMAIN busy
BY DEF Idle

\* A start() that fails clears the queues and lets the files go on.
LEMMA FailedOK ==
  ASSUME NEW i \in Starts, Failed(i)
  PROVE  CapturedOK' /\ ReceivedOK' /\ FilesPausedInVoice'
<1>1. paused' <=> IsVoiceActive([voice |-> "failed"]) \/ remote
  BY Zenon DEF Failed, updateFilePauseForVoice
<1>2. ui'.voice = "failed" /\ remote' = remote
  BY DEF Failed, Show
<1>3. FilesPausedInVoice'
  BY <1>1, <1>2, Zenon DEF FilesPausedInVoice, IsVoiceActive
<1>4. QED
  BY <1>3, ClearedOK DEF Failed

-----------------------------------------------------------------------------
(* One lemma for each part of the inductive invariant. *)

\* A start() that fails and lets go of its stream keeps the types.
LEMMA FailedTypes ==
  ASSUME Types, NEW i \in Starts, Failed(i), stream' = None, live' \subseteq live
  PROVE  Types'
<1>1. ui'.voice \in VoiceStates
  BY Zenon DEF Failed, Show, VoiceStates
<1>2. stage' \in [Starts -> Stages]
  BY Zenon DEF Failed, Types, Stages
<1> QED
  BY <1>1, <1>2, Zenon DEF Failed, Types

\* Every step keeps the types of the variables that the other lemmas look at.
LEMMA TypesStep == Types /\ [VoiceNext]_voiceVars => Types'
<1> SUFFICES ASSUME Types, [VoiceNext]_voiceVars PROVE Types'
  BY Zenon
<1>0. \A n \in Nat : n + 1 \in Nat /\ (n > 0 => n - 1 \in Nat)
  OBVIOUS
<1>1. ASSUME NEW i \in Starts, StartVoice(i) PROVE Types'
  <2>1. ui'.voice \in VoiceStates
    BY <1>1, Shown, Zenon DEF StartVoice, Started, VoiceStates
  <2>2. stage' \in [Starts -> Stages]
    BY <1>1, Zenon DEF StartVoice, Types, Stages
  <2> QED
    BY <1>1, <2>1, <2>2, Zenon DEF StartVoice, Types
<1>2. ASSUME NEW i \in Starts, StartFails(i) PROVE Types'
  BY <1>2, FailedTypes, Zenon DEF StartFails, stop
<1>3. ASSUME NEW i \in Starts, ContextsResumed(i) PROVE Types'
  <2>1. CASE ctx
    <3>1. stage' \in [Starts -> Stages]
      BY <1>3, <2>1, Zenon DEF ContextsResumed, Types, Stages
    <3> QED
      BY <1>3, <2>1, <3>1, Zenon DEF ContextsResumed, callVars, inVars, Types
  <2>2. CASE ~ctx
    BY <1>3, <2>2, FailedTypes, Zenon DEF ContextsResumed, stop
  <2> QED
    BY <2>1, <2>2, Zenon
<1>4. ASSUME NEW i \in Starts, Microphone(i) PROVE Types'
  <2>1. CASE ctx
    <3>1. stage' \in [Starts -> Stages]
      BY <1>4, <2>1, Zenon DEF Microphone, Types, Stages
    <3> QED
      BY <1>4, <2>1, <3>1, Zenon DEF Microphone, callVars, inVars, Types
  <2>2. CASE ~ctx
    BY <1>4, <2>2, FailedTypes, Zenon DEF Microphone
  <2> QED
    BY <2>1, <2>2, Zenon
<1>5. ASSUME NEW i \in Starts, WorkletLoaded(i) PROVE Types'
  <2>1. CASE ctx /\ stream # None
    <3>1. stage' \in [Starts -> Stages]
      BY <1>5, <2>1, Zenon DEF WorkletLoaded, Types, Stages
    <3>2. ui'.voice \in VoiceStates
      BY <1>5, <2>1, Shown, Zenon DEF WorkletLoaded, Started, VoiceStates
    <3> QED
      BY <1>5, <2>1, <3>1, <3>2, Zenon DEF WorkletLoaded, inVars, Types
  <2>2. CASE ~(ctx /\ stream # None)
    BY <1>5, <2>2, FailedTypes, Zenon DEF WorkletLoaded, stop
  <2> QED
    BY <2>1, <2>2, Zenon
<1>6. CASE FailedTimer \/ StopVoiceSent
  <2>1. ui'.voice \in VoiceStates
    BY <1>6, Shown, Zenon DEF FailedTimer, StopVoiceSent, VoiceStates
  <2> QED
    BY <1>0, <1>6, <2>1, Zenon DEF FailedTimer, StopVoiceSent, micVars, inVars, Types
<1>7. CASE StopVoice
  BY <1>0, <1>7, Zenon DEF StopVoice, stop, Types
<1>8. CASE ToggleMute
  <2>1. ui'.voice \in VoiceStates
    BY <1>8, Shown, Zenon DEF ToggleMute, VoiceStates
  <2> QED
    BY <1>8, <2>1, Zenon DEF ToggleMute, micVars, inVars, Types
<1>9. CASE PrepareFreshCryptoEpoch
  BY <1>9, Zenon DEF PrepareFreshCryptoEpoch, LeaveSession, stop, Show, Types, VoiceStates
<1>10. CASE Disconnect
  BY <1>10, Zenon DEF Disconnect, LeaveSession, stop, Show, Types, VoiceStates
<1>11. ASSUME NEW f \in Frames, FrameArrives(f) PROVE Types'
  <2>1. tasks' \in Nat
    BY <1>0, <1>11, Zenon DEF FrameArrives, scheduleInboundVoice, Types
  <2> QED
    BY <1>11, <2>1, Zenon DEF FrameArrives, callVars, micVars, Types
<1>12. CASE ProcessOneInboundVoice
  <2>1. tasks - 1 \in Nat /\ tasks - 1 + 1 \in Nat
    BY <1>12 DEF ProcessOneInboundVoice, Types
  <2>2. tasks' \in Nat
    BY <1>12, <2>1, Zenon DEF ProcessOneInboundVoice, Finally, scheduleInboundVoice
  <2>3. "at" \in DOMAIN busy'
    BY <1>12, BusyFields, Zenon DEF ProcessOneInboundVoice, Types
  <2> QED
    BY <1>12, <2>2, <2>3, Zenon DEF ProcessOneInboundVoice, callVars, micVars, Types
<1>13. CASE Decrypted \/ Play
  <2>1. tasks' \in Nat
    BY <1>0, <1>13, Zenon DEF Decrypted, Play, Finally, scheduleInboundVoice, Types
  <2>2. "at" \in DOMAIN busy'
    BY <1>13, BusyFields, Zenon DEF Decrypted, Play, Types
  <2> QED
    BY <1>13, <2>1, <2>2, Zenon DEF Decrypted, Play, callVars, micVars, Types
<1>14. CASE \/ Secured \/ CaptureFrame \/ PumpSent \/ FlushPlayback
           \/ VoiceStartMessage \/ VoiceStopMessage
           \/ UNCHANGED voiceVars
  BY Zenon, <1>14
  DEF Secured, CaptureFrame, PumpSent, FlushPlayback, VoiceStartMessage,
      VoiceStopMessage, voiceVars, callVars, micVars, outVars, inVars, playVars, Types
<1>15. QED
  BY Zenon, <1>1, <1>2, <1>3, <1>4, <1>5, <1>6, <1>7, <1>8, <1>9, <1>10, <1>11, <1>12,
     <1>13, <1>14 DEF VoiceNext

\* A start() that fails lets go of the microphone it may have opened.
LEMMA FailedMicrophone ==
  ASSUME Types, MicrophoneOK, NEW i \in Starts, Failed(i), ~ctx', stream' = None,
         live' \subseteq live \ {stream} \/ (live' = live /\ stream = None)
  PROVE  MicrophoneOK'
<1>1. \A j \in Starts : stage'[j] = IF j = i THEN "none" ELSE stage[j]
  BY Zenon DEF Failed, Types
<1>2. overlap' = overlap
  BY Zenon DEF Failed
<1>3. ~overlap => live' \subseteq {None}
  BY Zenon DEF MicrophoneOK
<1> QED
  BY <1>1, <1>2, <1>3, Zenon DEF MicrophoneOK

\* No step of startVoice, of stopVoice or of what interrupts them loses sight of a
\* microphone.
LEMMA MicrophoneStep == Types /\ MicrophoneOK /\ [VoiceNext]_voiceVars => MicrophoneOK'
<1> SUFFICES ASSUME Types, MicrophoneOK, [VoiceNext]_voiceVars PROVE MicrophoneOK'
  OBVIOUS
<1>1. ASSUME NEW i \in Starts, StartVoice(i) PROVE MicrophoneOK'
  <2>1. SUFFICES ASSUME ~overlap' PROVE MicrophoneOK'
    BY DEF MicrophoneOK
  <2>2. ~overlap /\ ~(stops > 0) /\ \A j \in Starts : stage[j] = "none"
    BY Zenon, <1>1, <2>1 DEF StartVoice
  <2>3. stream = None
    BY <1>1, <2>2, Zenon DEF StartVoice, MicrophoneOK
  <2>4. /\ stage' = [stage EXCEPT ![i] = "resume"]
        /\ ui'.voice = "starting" /\ stream' = stream /\ live' = live /\ stops' = stops
    BY <1>1, <2>3 DEF StartVoice, Show
  <2>5. QED
    BY ZenonT(30), <2>2, <2>3, <2>4 DEF MicrophoneOK, Types
<1>2. ASSUME NEW i \in Starts, StartFails(i) PROVE MicrophoneOK'
  BY <1>2, FailedMicrophone, Zenon DEF StartFails, stop
<1>3. ASSUME NEW i \in Starts, ContextsResumed(i) PROVE MicrophoneOK'
  <2>1. CASE ctx
    <3>1. \A j \in Starts : stage'[j] = IF j = i THEN "permission" ELSE stage[j]
      BY <1>3, <2>1, Zenon DEF ContextsResumed, Types
    <3>2. stream' = stream /\ live' = live /\ ui' = ui /\ stops' = stops /\ overlap' = overlap /\ ctx' = ctx
      BY <1>3, <2>1, Zenon DEF ContextsResumed, callVars
    <3>3. stage[i] = "resume"
      BY <1>3, Zenon DEF ContextsResumed
    <3> QED
      BY <3>1, <3>2, <3>3, ZenonT(30) DEF MicrophoneOK
  <2>2. CASE ~ctx
    BY <1>3, <2>2, FailedMicrophone, Zenon DEF ContextsResumed, stop
  <2> QED
    BY <2>1, <2>2, Zenon
<1>4. ASSUME NEW i \in Starts, Microphone(i) PROVE MicrophoneOK'
  <2>1. CASE ctx
    <3>1. \A j \in Starts : stage'[j] = IF j = i THEN "worklet" ELSE stage[j]
      BY <1>4, <2>1, Zenon DEF Microphone, Types
    <3>2. stream' = i /\ live' = live \cup {i} /\ ui' = ui /\ stops' = stops /\ overlap' = overlap /\ ctx' = ctx
      BY <1>4, <2>1, Zenon DEF Microphone, callVars
    <3>3. SUFFICES ASSUME ~overlap PROVE MicrophoneOK'
      BY <3>2, Zenon DEF MicrophoneOK
    <3>4. \A j \in Starts : j # i => stage[j] = "none"
      BY <1>4, <3>3, Zenon DEF Microphone, MicrophoneOK
    <3>5. live = {} \/ live = {None}
      BY <1>4, <3>3, Zenon DEF Microphone, MicrophoneOK
    <3>6. live' \subseteq {i}
      BY VoiceAssumption, <3>2, <3>5, Zenon DEF Types
    <3>7. \A j \in Starts : stage'[j] \notin {"resume", "permission"}
      BY <3>1, <3>4, Zenon
    <3>8. \A j, k \in Starts : stage'[j] # "none" /\ stage'[k] # "none" => j = k
      BY <3>1, <3>4, Zenon
    <3>9. ~(ui.voice \in {"idle", "failed"} \/ stops > 0)
      BY <2>1, <3>3, Zenon DEF MicrophoneOK
    <3> QED
      BY <3>2, <3>6, <3>7, <3>8, <3>9, Zenon DEF MicrophoneOK
  <2>2. CASE ~ctx
    <3>1. SUFFICES ASSUME ~overlap PROVE MicrophoneOK'
      BY <1>4, <2>2, Zenon DEF Microphone, Failed, MicrophoneOK
    <3>2. stream = None
      BY <1>4, <3>1, Zenon DEF Microphone, MicrophoneOK
    <3> QED
      BY <1>4, <2>2, <3>2, FailedMicrophone, Zenon DEF Microphone
  <2> QED
    BY <2>1, <2>2, Zenon
<1>5. ASSUME NEW i \in Starts, WorkletLoaded(i) PROVE MicrophoneOK'
  <2>1. CASE ctx /\ stream # None
    <3>1. \A j \in Starts : stage'[j] = IF j = i THEN "none" ELSE stage[j]
      BY <1>5, <2>1, Zenon DEF WorkletLoaded, Types
    <3>2. stream' = stream /\ live' = live /\ stops' = stops /\ overlap' = overlap /\ ctx' = ctx
      BY <1>5, <2>1, Zenon DEF WorkletLoaded
    <3>3. ui'.voice = "active"
      BY <1>5, <2>1, Shown, Zenon DEF WorkletLoaded, Started
    <3> QED
      BY <2>1, <3>1, <3>2, <3>3, Zenon DEF MicrophoneOK
  <2>2. CASE ~(ctx /\ stream # None)
    BY <1>5, <2>2, FailedMicrophone, Zenon DEF WorkletLoaded, stop
  <2> QED
    BY <2>1, <2>2, Zenon
<1>6. CASE FailedTimer \/ StopVoiceSent
  BY <1>6, Zenon DEF FailedTimer, StopVoiceSent, Show, micVars, Types, MicrophoneOK
<1>7. CASE StopVoice
  BY VoiceAssumption, <1>7, Zenon DEF StopVoice, stop, Types, MicrophoneOK
<1>8. CASE ToggleMute
  <2>1. ui.voice \notin {"idle", "failed"} /\ ui'.voice \notin {"idle", "failed"}
    BY <1>8, Shown, Zenon DEF ToggleMute
  <2> QED
    BY <1>8, <2>1, Zenon DEF ToggleMute, micVars, MicrophoneOK
<1>9. CASE PrepareFreshCryptoEpoch \/ Disconnect
  BY ZenonT(30), VoiceAssumption, <1>9
  DEF PrepareFreshCryptoEpoch, Disconnect, LeaveSession, stop, Show, Types, MicrophoneOK
<1>10. CASE \/ Secured \/ CaptureFrame \/ PumpSent \/ (\E f \in Frames : FrameArrives(f))
           \/ ProcessOneInboundVoice \/ Decrypted \/ Play \/ FlushPlayback
           \/ VoiceStartMessage \/ VoiceStopMessage
           \/ UNCHANGED voiceVars
  BY Zenon, <1>10
  DEF Secured, CaptureFrame, PumpSent, FrameArrives, ProcessOneInboundVoice,
      Decrypted, Play, FlushPlayback, VoiceStartMessage, VoiceStopMessage, voiceVars,
      callVars, micVars, outVars, inVars, playVars, MicrophoneOK
<1>11. QED
  BY <1>1, <1>2, <1>3, <1>4, <1>5, <1>6, <1>7, <1>8, <1>9, <1>10, Zenon DEF VoiceNext

\* Every step that changes who speaks goes on to pause or resume the files.
LEMMA PausedStep == Types /\ MicrophoneOK /\ FilesPausedInVoice /\ [VoiceNext]_voiceVars => FilesPausedInVoice'
<1> SUFFICES ASSUME Types, MicrophoneOK, FilesPausedInVoice, [VoiceNext]_voiceVars PROVE FilesPausedInVoice'
  BY Zenon
<1>1. ASSUME NEW i \in Starts, StartVoice(i) PROVE FilesPausedInVoice'
  <2>1. paused' <=> IsVoiceActive([voice |-> "starting"]) \/ remote
    BY Zenon, <1>1 DEF StartVoice, updateFilePauseForVoice
  <2>2. ui'.voice \in {"starting", "active"}
    BY <1>1 DEF StartVoice, Started, Show
  <2>3. QED
    BY <2>1, <2>2 DEF FilesPausedInVoice, IsVoiceActive
<1>2. ASSUME NEW i \in Starts, StartFails(i) PROVE FilesPausedInVoice'
  BY <1>2, FailedOK DEF StartFails
<1>3. ASSUME NEW i \in Starts, ContextsResumed(i) PROVE FilesPausedInVoice'
  BY <1>3, FailedOK DEF ContextsResumed, callVars, FilesPausedInVoice, IsVoiceActive
<1>4. ASSUME NEW i \in Starts, Microphone(i) PROVE FilesPausedInVoice'
  BY <1>4, FailedOK DEF Microphone, callVars, FilesPausedInVoice, IsVoiceActive
<1>5. ASSUME NEW i \in Starts, WorkletLoaded(i) PROVE FilesPausedInVoice'
  <2>1. CASE ctx /\ stream # None
    <3>1. ui'.voice = "active" /\ paused' = paused /\ remote' = remote /\ overlap' = overlap
      BY <1>5, <2>1 DEF WorkletLoaded, Started, Show
    <3>2. ~overlap => IsVoiceActive(ui)
      BY <2>1 DEF MicrophoneOK, Types, VoiceStates, IsVoiceActive
    <3>3. QED
      BY <3>1, <3>2 DEF FilesPausedInVoice, IsVoiceActive
  <2>2. CASE ~(ctx /\ stream # None)
    BY <1>5, <2>2, FailedOK, Zenon DEF WorkletLoaded
  <2>3. QED
    BY <2>1, <2>2
<1>6. CASE FailedTimer
  BY <1>6, Zenon DEF FailedTimer, Show, FilesPausedInVoice, IsVoiceActive
<1>7. CASE StopVoiceSent
  <2>1. paused' <=> IsVoiceActive([voice |-> "idle"]) \/ remote
    BY Zenon, <1>7 DEF StopVoiceSent, updateFilePauseForVoice
  <2>2. QED
    BY <1>7, <2>1 DEF StopVoiceSent, Show, FilesPausedInVoice, IsVoiceActive
<1>8. CASE ToggleMute
  BY <1>8 DEF ToggleMute, Show, FilesPausedInVoice, IsVoiceActive
<1>9. CASE PrepareFreshCryptoEpoch \/ Disconnect
  BY <1>9
  DEF PrepareFreshCryptoEpoch, Disconnect, LeaveSession, Show, FilesPausedInVoice,
      IsVoiceActive
<1>10. CASE VoiceStartMessage
  <2>1. paused' <=> IsVoiceActive(ui) \/ TRUE
    BY Zenon, <1>10 DEF VoiceStartMessage, updateFilePauseForVoice
  <2>2. QED
    BY <1>10, <2>1 DEF VoiceStartMessage, FilesPausedInVoice, IsVoiceActive
<1>11. CASE VoiceStopMessage
  <2>1. paused' <=> IsVoiceActive(ui) \/ FALSE
    BY ZenonT(30), <1>11 DEF VoiceStopMessage, updateFilePauseForVoice
  <2>2. QED
    BY <1>11, <2>1 DEF VoiceStopMessage, FilesPausedInVoice, IsVoiceActive
<1>12. CASE \/ Secured \/ StopVoice \/ CaptureFrame \/ PumpSent
           \/ (\E f \in Frames : FrameArrives(f)) \/ ProcessOneInboundVoice \/ Decrypted \/ Play
           \/ FlushPlayback
           \/ UNCHANGED voiceVars
  BY Zenon, <1>12
  DEF Secured, StopVoice, CaptureFrame, PumpSent, FrameArrives,
      ProcessOneInboundVoice, Decrypted, Play, FlushPlayback, voiceVars, callVars, micVars,
      outVars, inVars, playVars, FilesPausedInVoice, IsVoiceActive
<1>13. QED
  BY Zenon, <1>1, <1>2, <1>3, <1>4, <1>5, <1>6, <1>7, <1>8, <1>9, <1>10, <1>11, <1>12
     DEF VoiceNext

\* Captured frames are queued within a session, and cleared whenever it ends.
LEMMA CapturedStep == CapturedOK /\ [VoiceNext]_voiceVars => CapturedOK'
<1> SUFFICES ASSUME CapturedOK, [VoiceNext]_voiceVars PROVE CapturedOK'
  BY Zenon
<1>1. ASSUME NEW i \in Starts, StartVoice(i) PROVE CapturedOK'
  BY <1>1, ClearedOK DEF StartVoice
<1>2. ASSUME NEW i \in Starts, StartFails(i) PROVE CapturedOK'
  BY <1>2, FailedOK, Zenon DEF StartFails
<1>3. ASSUME NEW i \in Starts, ContextsResumed(i) PROVE CapturedOK'
  BY <1>3, FailedOK, Zenon DEF ContextsResumed, callVars, outVars, CapturedOK
<1>4. ASSUME NEW i \in Starts, Microphone(i) PROVE CapturedOK'
  BY <1>4, FailedOK, Zenon DEF Microphone, callVars, outVars, CapturedOK
<1>5. ASSUME NEW i \in Starts, WorkletLoaded(i) PROVE CapturedOK'
  BY <1>5, FailedOK, Zenon DEF WorkletLoaded, outVars, CapturedOK
<1>6. CASE StopVoice
  BY <1>6, ClearedOK DEF StopVoice
<1>7. CASE PrepareFreshCryptoEpoch \/ Disconnect
  BY Zenon, <1>7, ClearedOK DEF PrepareFreshCryptoEpoch, Disconnect, LeaveSession
<1>8. CASE ToggleMute
  <2>1. (outq' = 0 \/ outq' = outq) /\ (secure' <=> secure)
    BY Zenon, <1>8 DEF ToggleMute, clearOutboundVoiceQueue, outVars
  <2>2. QED
    BY <2>1 DEF CapturedOK
<1>9. CASE Secured \/ CaptureFrame
  BY <1>9 DEF Secured, CaptureFrame, callVars, CapturedOK
<1>10. CASE PumpSent
  BY ZenonT(30), <1>10 DEF PumpSent, callVars, CapturedOK
<1>11. CASE \/ FailedTimer \/ StopVoiceSent \/ (\E f \in Frames : FrameArrives(f)) \/ ProcessOneInboundVoice
           \/ Decrypted \/ Play \/ FlushPlayback \/ VoiceStartMessage
           \/ VoiceStopMessage
           \/ UNCHANGED voiceVars
  BY Zenon, <1>11
  DEF FailedTimer, StopVoiceSent, FrameArrives, ProcessOneInboundVoice, Decrypted,
      Play, FlushPlayback, VoiceStartMessage, VoiceStopMessage, voiceVars, callVars,
      micVars, outVars, inVars, playVars, CapturedOK
<1>12. QED
  BY ZenonT(30), <1>1, <1>2, <1>3, <1>4, <1>5, <1>6, <1>7, <1>8, <1>9, <1>10, <1>11 DEF VoiceNext

\* Every step that adds a frame or ends a task leaves a task for what is left.
LEMMA ReceivedStep == Types /\ ReceivedOK /\ [VoiceNext]_voiceVars => ReceivedOK'
<1> SUFFICES ASSUME Types, ReceivedOK, [VoiceNext]_voiceVars PROVE ReceivedOK'
  BY Zenon
<1>1. ASSUME NEW i \in Starts, StartVoice(i) PROVE ReceivedOK'
  BY <1>1, ClearedOK DEF StartVoice
<1>2. ASSUME NEW i \in Starts, StartFails(i) PROVE ReceivedOK'
  BY <1>2, FailedOK, Zenon DEF StartFails
<1>3. ASSUME NEW i \in Starts, ContextsResumed(i) PROVE ReceivedOK'
  BY <1>3, FailedOK, Zenon DEF ContextsResumed, callVars, inVars, ReceivedOK
<1>4. ASSUME NEW i \in Starts, Microphone(i) PROVE ReceivedOK'
  BY <1>4, FailedOK, Zenon DEF Microphone, callVars, inVars, ReceivedOK
<1>5. ASSUME NEW i \in Starts, WorkletLoaded(i) PROVE ReceivedOK'
  BY <1>5, FailedOK, Zenon DEF WorkletLoaded, inVars, ReceivedOK
<1>6. CASE StopVoice
  BY <1>6, ClearedOK DEF StopVoice
<1>7. CASE PrepareFreshCryptoEpoch \/ Disconnect
  BY Zenon, <1>7, ClearedOK DEF PrepareFreshCryptoEpoch, Disconnect, LeaveSession
<1>8. ASSUME NEW f \in Frames, FrameArrives(f) PROVE ReceivedOK'
  BY <1>8 DEF FrameArrives, scheduleInboundVoice, Types, ReceivedOK
<1>9. CASE ProcessOneInboundVoice
  BY <1>9 DEF ProcessOneInboundVoice, Finally, scheduleInboundVoice, Types, ReceivedOK
<1>10. CASE Decrypted \/ Play
  BY <1>10 DEF Decrypted, Play, Finally, scheduleInboundVoice, Idle, Types, ReceivedOK
<1>11. CASE VoiceStopMessage
  BY ZenonT(30), <1>11 DEF VoiceStopMessage, ReceivedOK
<1>12. CASE \/ FailedTimer \/ StopVoiceSent \/ ToggleMute \/ Secured
           \/ CaptureFrame \/ PumpSent \/ FlushPlayback \/ VoiceStartMessage
           \/ UNCHANGED voiceVars
  BY Zenon, <1>12
  DEF FailedTimer, StopVoiceSent, ToggleMute, Secured, CaptureFrame, PumpSent,
      FlushPlayback, VoiceStartMessage, voiceVars, callVars, micVars, outVars, inVars,
      playVars, ReceivedOK
<1>13. QED
  BY ZenonT(30), <1>1, <1>2, <1>3, <1>4, <1>5, <1>6, <1>7, <1>8, <1>9, <1>10, <1>11, <1>12
     DEF VoiceNext

-----------------------------------------------------------------------------
(* The theorems. *)

\* In every reachable state, each microphone and each frame is accounted for.
THEOREM VoiceInvariance == VoiceSpec => []VoiceInv
<1>1. VoiceInit => VoiceInv
  BY VoiceAssumption DEF VoiceInit, Idle, VoiceInv, Types, VoiceStates, Stages, MicrophoneOK,
     FilesPausedInVoice, IsVoiceActive, CapturedOK, ReceivedOK
<1>2. VoiceInv /\ [VoiceNext]_voiceVars => VoiceInv'
  BY ZenonT(30), TypesStep, MicrophoneStep, PausedStep, CapturedStep, ReceivedStep DEF VoiceInv
<1>3. QED
  BY <1>1, <1>2, PTL DEF VoiceSpec

\* Stopping, failing or losing the session during the permission prompt never
\* leaves a microphone on that VoiceService.stop() can no longer turn off.
THEOREM MicrophonesReleased == VoiceSpec => []MicrophoneReleased
<1>1. VoiceInv => MicrophoneReleased
  BY VoiceAssumption DEF VoiceInv, Types, MicrophoneOK, MicrophoneReleased
<1>2. QED
  BY <1>1, VoiceInvariance, PTL

\* updateFilePauseForVoice is called often enough: the file sender is paused exactly
\* while one side's voice is on.
THEOREM FilesPaused == VoiceSpec => []FilesPausedInVoice
<1>1. VoiceInv => FilesPausedInVoice
  BY DEF VoiceInv
<1>2. QED
  BY <1>1, VoiceInvariance, PTL

\* pumpOutboundVoice never calls itself again for frames it cannot send.
THEOREM PumpEnds == VoiceSpec => []PumpNeverSpins
<1>1. VoiceInv => PumpNeverSpins
  BY DEF VoiceInv, CapturedOK, PumpNeverSpins
<1>2. QED
  BY <1>1, VoiceInvariance, PTL

\* scheduleInboundVoice and the finally block of processOneInboundVoice leave no
\* received frame behind.
THEOREM FramesAwaited == VoiceSpec => []InboundNeverStalls
<1>1. VoiceInv => InboundNeverStalls
  BY DEF VoiceInv, ReceivedOK, InboundNeverStalls
<1>2. QED
  BY <1>1, VoiceInvariance, PTL
=============================================================================

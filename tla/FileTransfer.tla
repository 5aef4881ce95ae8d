----------------------------- MODULE FileTransfer -----------------------------
(***************************************************************************)
(* One peer sends files to the other: FileSender and FileReceiver over the *)
(* encrypted session.                                                      *)
(*                                                                         *)
(* Offers, answers, cancels and completions travel in reliable envelopes:  *)
(* at most once, overtaken when retransmitted, lost when given up.  Chunks *)
(* and acknowledgements travel bare and may be lost or reordered.          *)
(***************************************************************************)
EXTENDS FileSender

CONSTANT MaxBreaks    \* bound: how often voice starts or the session is lost, together

ASSUME FileTransferAssumption == MaxBreaks \in Nat

VARIABLES
  snd,      \* the sender's state, see FileSender
  rcv,      \* the receiver's state, see FileReceiver
  data,     \* file.chunk packets on the way
  acks,     \* file.ack packets on the way
  got,      \* history: the chunks the receiver ever stored
  breaks    \* how often voice has started or the session was lost

vars == <<snd, rcv, data, acks, got, breaks>>

R == INSTANCE FileReceiver

Init ==
  /\ snd = NewSender
  /\ rcv = R!NewReceiver
  /\ data = {} /\ acks = {} /\ breaks = 0
  /\ got = [f \in Files |-> {}]

Sender(s)   == snd' = s /\ UNCHANGED <<rcv, data, acks, got, breaks>>
Receiver(r) == rcv' = r /\ UNCHANGED <<snd, data, acks, got, breaks>>

Msg(kind, f) == [kind |-> kind, file |-> f]

-----------------------------------------------------------------------------
(* The sender's user, timers and continuations. *)

OfferFile(f) ==
  /\ snd.secure /\ snd.tr[f].status = "none" /\ snd.digesting[f] = "no"
  /\ Sender(offerFile(snd, f))

OfferReady(f) == snd.digesting[f] # "no" /\ Sender(offer(snd, f))

OfferSent(f) ==
  /\ f \in snd.posting /\ snd.secure /\ \E i \in 1..Len(snd.ctl) : snd.ctl[i] = Msg("offer", f)
  /\ Sender([snd EXCEPT !.posting = @ \ {f}])

OfferFailed(f) ==
  /\ f \in snd.posting
  /\ Sender(fail([snd EXCEPT !.posting = @ \ {f},
                               !.ctl = Without(@, Msg("offer", f))], f))

CancelFile(f) ==
  snd.shown[f] \notin Terminal \cup {"none"} /\ Sender(cancelFile(snd, f))

CancelFileDone(f) == f \in snd.waking /\ Sender(cancelFileDone(snd, f))

RemoveSent(f) == snd.shown[f] \in Terminal /\ Sender(removeFile(snd, f))

\* A sendChunk call ends: its packet was queued, or sendApp refused or threw.
ChunkSent(c) ==
  LET s == [snd EXCEPT !.calls[c] = @ - 1]
      t == snd.tr[c.file]
  IN /\ snd.secure
     /\ snd' = IF t.cancelled \/ c.index \in t.acked THEN s
               ELSE emit(Overwrite(s, c.file, c.index, Entry(c.attempts, "ack")), c.file)
     /\ data' = data \cup {[file |-> c.file, index |-> c.index]}
     /\ UNCHANGED <<rcv, acks, got, breaks>>

ChunkRefused(c) ==
  Sender(scheduleRetry([snd EXCEPT !.calls[c] = @ - 1], c.file, c.index, c.attempts + 1))

TimerFires(f, i) ==
  LET e == snd.tr[f].inflight[i]
  IN /\ e.state \in {"ack", "retry"}
     /\ Sender(Fire([snd EXCEPT !.tr[f].inflight[i].state = "sending"], f, i, e.state, e.attempts))

StrayFires(x) ==
  Sender(Fire([snd EXCEPT !.stray[x] = @ - 1], x.file, x.index, x.kind, x.attempts))

VoiceOn(who) ==
  /\ snd.secure /\ who \notin snd.voice /\ breaks < MaxBreaks
  /\ snd' = updateFilePauseForVoice(snd, snd.voice \cup {who})
  /\ breaks' = breaks + 1
  /\ UNCHANGED <<rcv, data, acks, got>>

VoiceOff(who) ==
  who \in snd.voice /\ Sender(updateFilePauseForVoice(snd, snd.voice \ {who}))

-----------------------------------------------------------------------------
(* The receiver's user and continuations. *)

AcceptFile(f) == rcv.shown[f] = "offered" /\ Receiver(R!accept(rcv, f))

AcceptSent(f) ==
  /\ f \in rcv.posting /\ rcv.secure /\ \E i \in 1..Len(rcv.ctl) : rcv.ctl[i] = Msg("accept", f)
  /\ Receiver([rcv EXCEPT !.posting = @ \ {f}])

AcceptFailed(f) ==
  /\ f \in rcv.posting
  /\ Receiver(R!acceptFailed([rcv EXCEPT !.ctl = Without(@, Msg("accept", f))], f))

RejectFile(f) == rcv.shown[f] = "offered" /\ Receiver(R!reject(rcv, f))

CancelReceive(f) == rcv.shown[f] = "receiving" /\ Receiver(R!cancel(rcv, f, TRUE))

RemoveReceived(f) == rcv.shown[f] \in R!Terminal /\ Receiver(R!removeFile(rcv, f))

ChunkAcked == rcv.task.stage = "ack" /\ Receiver(R!chunkAcked(rcv))

DigestDone == rcv.task.stage = "digest" /\ Receiver(R!completed(rcv))

DigestFailed == rcv.task.stage = "digest" /\ Receiver(R!completeFailed(rcv))

-----------------------------------------------------------------------------
(* Messages.  A handler runs when the one before it has ended. *)

\* handleAppMessage on the receiver's side; sendApp is done with the message.
ReceiveControl ==
  /\ snd.ctl # <<>> /\ rcv.task = R!NoTask
  /\ LET m == Head(snd.ctl)
     IN /\ m.kind = "offer" => m.file \notin snd.posting
        /\ rcv' = CASE ~rcv.secure         -> rcv
                    [] m.kind = "offer"    -> R!offer(rcv, m.file)
                    [] m.kind = "cancel"   -> R!cancel(rcv, m.file, FALSE)
                    [] m.kind = "complete" -> R!completeNotice(rcv, m.file)
  /\ snd' = [snd EXCEPT !.ctl = Tail(@)]
  /\ UNCHANGED <<data, acks, got, breaks>>

\* handleAppMessage on the sender's side.
ReceiveAnswer ==
  /\ rcv.ctl # <<>>
  /\ LET m == Head(rcv.ctl)
     IN /\ m.kind = "accept" => m.file \notin rcv.posting
        /\ snd' = CASE ~snd.secure       -> snd
                    [] m.kind = "accept" -> accept(snd, m.file)
                    [] OTHER             -> startNext(cancel(snd, m.file, FALSE))
  /\ rcv' = [rcv EXCEPT !.ctl = Tail(@)]
  /\ UNCHANGED <<data, acks, got, breaks>>

\* The acknowledgement is on its way from the moment chunk awaits it.
ReceiveChunk(m) ==
  LET r == R!chunk(rcv, m.file, m.index)
  IN /\ rcv.task = R!NoTask
     /\ data' = data \ {m}
     /\ rcv' = IF rcv.secure THEN r ELSE rcv
     /\ acks' = IF rcv'.task # R!NoTask THEN acks \cup {m} ELSE acks
     /\ got' = [got EXCEPT ![m.file] = @ \cup rcv'.tr[m.file].received]
     /\ UNCHANGED <<snd, breaks>>

ReceiveAck(m) ==
  /\ acks' = acks \ {m}
  /\ snd' = IF snd.secure THEN ack(snd, m.file, m.index) ELSE snd
  /\ UNCHANGED <<rcv, data, got, breaks>>

LosePacket(m) ==
  \/ m \in data /\ data' = data \ {m} /\ UNCHANGED <<snd, rcv, acks, got, breaks>>
  \/ m \in acks /\ acks' = acks \ {m} /\ UNCHANGED <<snd, rcv, data, got, breaks>>

\* The first message is given up, or comes again after the others.
Late(q) == {Tail(q), Append(Tail(q), Head(q))}

DelayControl ==
  \/ /\ snd.ctl # <<>> /\ \E q \in Late(snd.ctl) : snd' = [snd EXCEPT !.ctl = q]
     /\ UNCHANGED <<rcv, data, acks, got, breaks>>
  \/ /\ rcv.ctl # <<>> /\ \E q \in Late(rcv.ctl) : rcv' = [rcv EXCEPT !.ctl = q]
     /\ UNCHANGED <<snd, data, acks, got, breaks>>

-----------------------------------------------------------------------------
(* prepareFreshCryptoEpoch on either side, and the next secure session. *)

\* Whoever is second to lose a session does not count as another loss.
SenderLost ==
  /\ snd.secure
  /\ rcv.secure => breaks < MaxBreaks
  /\ snd' = reset(snd)
  /\ breaks' = IF rcv.secure THEN breaks + 1 ELSE breaks
  /\ UNCHANGED <<rcv, data, acks, got>>

ReceiverLost ==
  /\ rcv.secure
  /\ snd.secure => breaks < MaxBreaks
  /\ rcv' = R!reset(rcv)
  /\ breaks' = IF snd.secure THEN breaks + 1 ELSE breaks
  /\ UNCHANGED <<snd, data, acks, got>>

\* onConnectionStatus("connected") before there is a session.
Connected == ~snd.secure /\ Sender(updateFilePauseForVoice(snd, {}))

Establish ==
  /\ ~snd.secure /\ ~rcv.secure
  /\ snd' = [snd EXCEPT !.secure = TRUE, !.ctl = <<>>]
  /\ rcv' = [rcv EXCEPT !.secure = TRUE, !.ctl = <<>>]
  /\ data' = {} /\ acks' = {}
  /\ UNCHANGED <<got, breaks>>

-----------------------------------------------------------------------------
SenderStep(f) ==
  \/ OfferReady(f) \/ OfferSent(f) \/ OfferFailed(f) \/ CancelFileDone(f)
  \/ \E i \in Chunks : TimerFires(f, i)

Calls == \E c \in Running(snd) : ChunkSent(c) \/ ChunkRefused(c)

Strays == \E x \in StrayTimers(snd) : StrayFires(x)

Session ==
  \/ SenderLost \/ ReceiverLost \/ Connected \/ Establish
  \/ \E who \in {"local", "remote"} : VoiceOn(who) \/ VoiceOff(who)

Users(f) ==
  \/ OfferFile(f) \/ CancelFile(f) \/ RemoveSent(f)
  \/ AcceptFile(f) \/ RejectFile(f) \/ CancelReceive(f) \/ RemoveReceived(f)

ReceiverStep(f) == AcceptSent(f) \/ AcceptFailed(f)

Network ==
  \/ ReceiveControl \/ ReceiveAnswer \/ DelayControl
  \/ \E m \in data : ReceiveChunk(m)
  \/ \E m \in acks : ReceiveAck(m)
  \/ \E m \in data \cup acks : LosePacket(m)

Next ==
  \/ \E f \in Files : SenderStep(f) \/ Users(f) \/ ReceiverStep(f)
  \/ Calls \/ Strays \/ Session \/ Network
  \/ ChunkAcked \/ DigestDone \/ DigestFailed

Spec == Init /\ [][Next]_vars

-----------------------------------------------------------------------------
(* Properties. *)

\* A transfer that either side reports as completed was received whole: the
\* receiver stored every chunk of it (completeIfDone), also when it was
\* cancelled, or the session lost, while it was being assembled.
CompletedIsWhole ==
  \A f \in Files : "completed" \in {snd.tr[f].status, rcv.tr[f].status} => got[f] = Chunks

\* The window bounds the chunks in flight, and no chunk is both acknowledged
\* and in flight, however calls, timers and acknowledgements interleave.
WindowKept ==
  \A f \in Files :
    LET t == snd.tr[f]
    IN t.here => /\ Cardinality(Inflight(t)) <= Window
                 /\ Inflight(t) \cap t.acked = {}

\* A transfer that is sending never stalls: it has a chunk in flight, and every
\* chunk in flight has a timer or a running sendChunk call that will move it on.
NeverStalls ==
  \A f \in Files :
    LET t == snd.tr[f]
    IN t.here /\ t.status = "sending" =>
         /\ Inflight(t) # {}
         /\ \A i \in Inflight(t) :
              \/ t.inflight[i].state \in {"ack", "retry"}
              \/ \E c \in Running(snd) : c.file = f /\ c.index = i

\* A transfer that ended on the sender's side does not start again, whatever
\* answers, timers or calls of it are still on their way.
EndedStaysEnded ==
  [][\A f \in Files : snd.tr[f].status \in Terminal => snd'.tr[f].status \in Terminal]_vars

-----------------------------------------------------------------------------
(* The browser runs what is due: calls end, timers fire, sendApp returns. *)

Fairness ==
  /\ WF_vars(Calls) /\ WF_vars(Strays)
  /\ \A f \in Files : /\ WF_vars(OfferReady(f)) /\ WF_vars(CancelFileDone(f))
                      /\ WF_vars(OfferSent(f) \/ OfferFailed(f))
                      /\ \A i \in Chunks : WF_vars(TimerFires(f, i))

FairSpec == Spec /\ Fairness

\* Sending does not go on for ever, even on a network that loses everything: it
\* completes, fails at the retry limit, or is paused, cancelled or discarded.
SendingEnds ==
  \A f \in Files : snd.tr[f].status = "sending" /\ snd.tr[f].here
                     ~> snd.tr[f].status # "sending" \/ ~snd.tr[f].here
=============================================================================

------------------------------ MODULE FileSender ------------------------------
(***************************************************************************)
(* The sending side of file transfer (features/file/FileSender.ts) with    *)
(* the queue of files that SessionController keeps in its transfer view.   *)
(*                                                                         *)
(* A method is an operator from the sender's state to its state after the  *)
(* code up to the next await; onUpdate runs inside it, as in the code.     *)
(* Messages are appended to `ctl` when sendApp is called.                  *)
(***************************************************************************)
EXTENDS Integers, Sequences, FiniteSets

CONSTANTS
  Files,       \* file ids
  Total,       \* totalChunks of every file
  Window,      \* files.windowChunks
  MaxRetries   \* files.maxRetries

ASSUME FileSenderAssumption ==
  /\ IsFiniteSet(Files)
  /\ Total \in Nat \ {0} /\ Window \in Nat \ {0} /\ MaxRetries \in Nat

Chunks   == 0..(Total - 1)
Terminal == {"completed", "cancelled", "failed"}

\* An entry of Transfer.inflight: "ack" and "retry" have a timer, "hold" is a
\* retry_wait without one.
NoEntry == [attempts |-> 0, state |-> "none"]
Entry(a, state) == [attempts |-> a, state |-> state]

NewTransfer ==
  [status |-> "none", here |-> FALSE, accepted |-> FALSE, paused |-> FALSE,
   cancelled |-> FALSE, next |-> 0, acked |-> {}, inflight |-> [i \in Chunks |-> NoEntry]]

\* A sendChunk call and a timer, as they are counted in `calls` and `stray`.
Call  == [file : Files, index : Chunks, attempts : 1..(MaxRetries + 1)]
Timer == [file : Files, index : Chunks, kind : {"ack", "retry"}, attempts : 1..(MaxRetries + 1)]

\* here: in FileSender.transfers.  stray: timers no entry refers to any more.
\* calls: sendChunk calls between their first await and their end.
\* digesting: offerFile calls that await the digest, and `queued` as they saw it.
\* posting, waking: sendOffer and cancelFile calls that await sendApp.
\* voice: whose voice is on, "local" or "remote" or both.
NewSender ==
  [tr |-> [f \in Files |-> NewTransfer], globalPaused |-> FALSE, voice |-> {},
   shown |-> [f \in Files |-> "none"], order |-> <<>>, secure |-> TRUE,
   digesting |-> [f \in Files |-> "no"], posting |-> {}, waking |-> {}, ctl |-> <<>>,
   calls |-> [c \in Call |-> 0], stray |-> [x \in Timer |-> 0]]

Inflight(t) == {i \in Chunks : t.inflight[i] # NoEntry}

\* q without x.
Without(q, x) ==
  LET kept[n \in 0..Len(q)] ==
        IF n = 0 THEN <<>>
        ELSE IF q[n] = x THEN kept[n - 1] ELSE Append(kept[n - 1], q[n])
  IN kept[Len(q)]

IsPaused(s, f) == s.tr[f].paused \/ s.globalPaused
Running(s) == {c \in Call : s.calls[c] > 0}
StrayTimers(s) == {x \in Timer : s.stray[x] > 0}

-----------------------------------------------------------------------------
(* The view, the queue and the messages. *)

post(s, kind, f) ==
  IF s.secure THEN [s EXCEPT !.ctl = Append(@, [kind |-> kind, file |-> f])] ELSE s

\* upsertTransfer.
Show(s, f) ==
  [s EXCEPT !.shown[f] = s.tr[f].status,
            !.order = IF s.shown[f] = "none" THEN Append(@, f) ELSE @]

sendOffer(s, f) == [post(s, "offer", f) EXCEPT !.posting = @ \cup {f}]

startQueued(s, f) ==
  IF ~s.tr[f].here \/ s.tr[f].cancelled \/ s.tr[f].status # "queued" THEN s
  ELSE sendOffer(Show([s EXCEPT !.tr[f].status = "offered", !.tr[f].paused = FALSE], f), f)

\* startNextQueuedFileIfAllowed, on a connection that is up.
startNext(s) ==
  LET queued == {i \in 1..Len(s.order) : s.shown[s.order[i]] = "queued"}
      first  == CHOOSE i \in queued : \A j \in queued : i <= j
      busy   == {f \in Files : s.shown[f] \in {"offered", "sending", "paused"}}
  IN IF s.voice # {} \/ queued = {} \/ busy # {} THEN s
     ELSE startQueued(s, s.order[first])

\* emit and updateSender.
emit(s, f) ==
  IF s.tr[f].status \in Terminal THEN startNext(Show(s, f)) ELSE Show(s, f)

fail(s, f) ==
  emit([s EXCEPT !.tr[f].status = "failed", !.tr[f].cancelled = TRUE,
                 !.tr[f].inflight = NewTransfer.inflight], f)

failAndNotify(s, f) == post(fail(s, f), "cancel", f)

-----------------------------------------------------------------------------
(* Chunks. *)

\* The next assignment to f's entry for chunk i forgets its timer.
Overwrite(s, f, i, e) ==
  LET old == s.tr[f].inflight[i]
      timer == [file |-> f, index |-> i, kind |-> old.state, attempts |-> old.attempts]
      u == [s EXCEPT !.tr[f].inflight[i] = e]
  IN IF old.state \in {"ack", "retry"} THEN [u EXCEPT !.stray[timer] = @ + 1] ELSE u

\* The last part of sendChunk, for the chunks I and attempt a[i] of each.
Issue(s, f, I, a) ==
  IF I = {} THEN s
  ELSE emit([s EXCEPT !.tr[f].inflight =
               [i \in Chunks |-> IF i \in I THEN Entry(a[i], "sending") ELSE @[i]],
             !.calls = [c \in Call |-> IF c.file = f /\ c.index \in I /\ c.attempts = a[c.index]
                                      THEN @[c] + 1 ELSE @[c]]], f)

sendChunk(s, f, i, a) ==
  IF s.tr[f].cancelled \/ i \in s.tr[f].acked THEN s
  ELSE IF IsPaused(s, f) THEN Overwrite(s, f, i, Entry(a, "hold"))
  ELSE IF a > MaxRetries + 1 THEN failAndNotify(s, f)
  ELSE Issue(s, f, {i}, [j \in Chunks |-> a])

\* Fault: a retry does not count as an attempt.
scheduleRetryUncounted(s, f, i, n) ==
  IF s.tr[f].cancelled \/ i \in s.tr[f].acked THEN s
  ELSE emit([s EXCEPT !.tr[f].inflight[i] =
               Entry(0, IF IsPaused(s, f) THEN "hold" ELSE "retry")], f)

scheduleRetry(s, f, i, n) ==
  IF s.tr[f].cancelled \/ i \in s.tr[f].acked THEN s
  ELSE IF n > MaxRetries + 1 THEN failAndNotify(s, f)
  ELSE emit([s EXCEPT !.tr[f].inflight[i] =
               Entry(n - 1, IF IsPaused(s, f) THEN "hold" ELSE "retry")], f)

\* A timer fires: the one for the acknowledgement, or the one for the retry.
Fire(s, f, i, kind, attempts) ==
  IF kind = "ack" THEN scheduleRetry(s, f, i, attempts + 1)
  ELSE sendChunk(s, f, i, attempts + 1)

\* Fault: a file is complete once every chunk was issued.
completeIfDoneEarly(s, f) ==
  IF s.tr[f].cancelled \/ s.tr[f].next < Total THEN s
  ELSE post(emit([s EXCEPT !.tr[f].status = "completed"], f), "complete", f)

completeIfDone(s, f) ==
  IF s.tr[f].cancelled \/ s.tr[f].next < Total \/ Inflight(s.tr[f]) # {}
     \/ s.tr[f].acked # Chunks
  THEN s
  ELSE post(emit([s EXCEPT !.tr[f].status = "completed"], f), "complete", f)

\* Fault: the window is one larger.
RoomWide(t) == {i \in t.next..(Total - 1) : i < t.next + Window + 1 - Cardinality(Inflight(t))}

\* The chunks that the window lets pump issue.
Room(t) == {i \in t.next..(Total - 1) : i < t.next + Window - Cardinality(Inflight(t))}

\* `pumping` is only set across the await of the completed transfer's last
\* message, when there is nothing left to pump.
pump(s, f) ==
  LET t == s.tr[f]
      u == [s EXCEPT !.tr[f].next = @ + Cardinality(Room(t))]
  IN IF t.cancelled \/ ~t.accepted \/ IsPaused(s, f) \/ t.status # "sending" THEN s
     ELSE completeIfDone(Issue(u, f, Room(t) \ t.acked, [i \in Chunks |-> 1]), f)

holdOutstanding(s, f) ==
  [s EXCEPT !.tr[f].inflight =
     [i \in Chunks |-> IF @[i] = NoEntry THEN NoEntry ELSE Entry(@[i].attempts, "hold")]]

\* Fault: what was held back stays held back.
resumeOutstandingLost(s, f) ==
  IF s.tr[f].cancelled \/ IsPaused(s, f) THEN s ELSE pump(s, f)

\* What is held goes out in the order of the chunks, up to one that has had
\* its last attempt.
resumeOutstanding(s, f) ==
  LET t    == s.tr[f]
      held == {i \in Chunks \ t.acked : t.inflight[i].state = "hold"}
      over == {i \in held : t.inflight[i].attempts > MaxRetries}
      u    == Issue(s, f, {i \in held : \A j \in over : i < j},
                    [i \in Chunks |-> t.inflight[i].attempts + 1])
  IN IF t.cancelled \/ IsPaused(s, f) THEN s
     ELSE IF over # {} THEN failAndNotify(u, f)
     ELSE pump(u, f)

-----------------------------------------------------------------------------
(* The methods SessionController calls. *)

\* offerFile up to the digest, and after it.
isVoiceActive(s) == "local" \in s.voice
hasActiveFile(s) == \E f \in Files : s.shown[f] \in {"offered", "sending", "paused", "queued"}

offerFile(s, f) ==
  [s EXCEPT !.digesting[f] = IF isVoiceActive(s) \/ hasActiveFile(s) THEN "queued" ELSE "offered"]

offer(s, f) ==
  LET new == [NewTransfer EXCEPT !.status = s.digesting[f], !.here = TRUE,
                                 !.paused = (s.digesting[f] = "queued")]
      u == emit([s EXCEPT !.tr[f] = new, !.digesting[f] = "no"], f)
  IN IF new.paused THEN u ELSE sendOffer(u, f)

\* Fault: an acceptance revives a cancelled transfer.
acceptCancelled(s, f) ==
  IF ~s.tr[f].here THEN s
  ELSE pump(emit([s EXCEPT !.tr[f].accepted = TRUE, !.tr[f].paused = s.globalPaused,
                           !.tr[f].status = IF s.globalPaused THEN "paused" ELSE "sending"], f), f)

accept(s, f) ==
  IF ~s.tr[f].here \/ s.tr[f].cancelled THEN s
  ELSE pump(emit([s EXCEPT !.tr[f].accepted = TRUE, !.tr[f].paused = s.globalPaused,
                           !.tr[f].status = IF s.globalPaused THEN "paused" ELSE "sending"], f), f)

ack(s, f, i) ==
  IF ~s.tr[f].here \/ s.tr[f].cancelled \/ s.tr[f].inflight[i] = NoEntry THEN s
  ELSE pump(emit([s EXCEPT !.tr[f].inflight[i] = NoEntry, !.tr[f].acked = @ \cup {i}], f), f)

cancel(s, f, notify) ==
  LET u == emit([s EXCEPT !.tr[f].status = "cancelled", !.tr[f].cancelled = TRUE,
                          !.tr[f].inflight = NewTransfer.inflight], f)
  IN IF ~s.tr[f].here THEN s ELSE IF notify THEN post(u, "cancel", f) ELSE u

\* cancelFile up to the await of sendApp, and after it.
cancelFile(s, f) ==
  IF s.tr[f].here THEN [cancel(s, f, TRUE) EXCEPT !.waking = @ \cup {f}] ELSE startNext(s)

cancelFileDone(s, f) == startNext([s EXCEPT !.waking = @ \ {f}])

\* setGlobalPaused for one transfer.
SetPaused(s, f, paused) ==
  IF ~s.tr[f].here \/ s.tr[f].status \notin {"sending", "paused"} THEN s
  ELSE IF paused
  THEN emit(holdOutstanding([s EXCEPT !.tr[f].paused = TRUE, !.tr[f].status = "paused"], f), f)
  ELSE resumeOutstanding(emit([s EXCEPT !.tr[f].paused = FALSE, !.tr[f].status = "sending"], f), f)

setGlobalPaused(s, paused) ==
  LET after[D \in SUBSET Files] ==
        IF D = {} THEN [s EXCEPT !.globalPaused = paused]
        ELSE LET f == CHOOSE f \in D : TRUE IN SetPaused(after[D \ {f}], f, paused)
  IN after[Files]

\* updateFilePauseForVoice after voice became v.
updateFilePauseForVoice(s, v) ==
  LET u == setGlobalPaused([s EXCEPT !.voice = v], v # {})
  IN IF v = {} THEN startNext(u) ELSE u

removeFile(s, f) ==
  [s EXCEPT !.tr[f].here = IF s.tr[f].status \in Terminal THEN FALSE ELSE @,
            !.shown[f] = "none", !.order = Without(@, f)]

\* prepareFreshCryptoEpoch: reset, and an empty view.
reset(s) ==
  [s EXCEPT !.tr = [f \in Files |->
              IF @[f].here THEN [@[f] EXCEPT !.here = FALSE, !.inflight = NewTransfer.inflight]
              ELSE @[f]],
            !.globalPaused = FALSE, !.voice = {}, !.shown = NewSender.shown,
            !.order = <<>>, !.secure = FALSE]
=============================================================================

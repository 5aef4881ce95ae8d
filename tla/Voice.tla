-------------------------------- MODULE Voice --------------------------------
(***************************************************************************)
(* Voice on one client: starting, stopping and muting it (startVoice,      *)
(* stopVoice, toggleMute of session/SessionController.ts over              *)
(* features/audio/VoiceService.ts), the queues of captured and of received *)
(* frames (VoiceQueue.ts), and playback (JitterBuffer.ts).                 *)
(*                                                                         *)
(* A step is the code between two awaits, events or timers.  Sound and     *)
(* time are left out: which frames are stale, whether playback lags and    *)
(* whether a packet fits are choices, and a captured frame is only         *)
(* counted.  Received frames keep the order of the voice lane, with gaps;  *)
(* voice.start and voice.stop are control messages that may overtake them. *)
(***************************************************************************)
EXTENDS Integers, Sequences, FiniteSets, FiniteSetsExt

CONSTANTS
  Starts,      \* calls of VoiceService.start(), and the microphones they open
  None,        \* null
  QueueLimit,  \* voiceQueueMaxFrames()
  JitterLimit, \* profile.voice.jitterMaxFrames
  MaxStops,    \* bound: stopVoice() calls that wait at a time
  MaxCalls,    \* bound: calls the peer makes
  MaxSeq       \* bound: frames of each of them

ASSUME VoiceAssumption ==
  /\ None \notin Starts
  /\ QueueLimit \in Nat \ {0} /\ JitterLimit \in Nat \ {0}
  /\ MaxStops \in Nat /\ MaxCalls \in Nat /\ MaxSeq \in [1..MaxCalls -> Nat]

VARIABLES
  ui,         \* state.voice and state.muted
  secure,     \* this.secure is set
  remote,     \* remoteVoiceActive
  paused,     \* the file sender's globalPaused
  stage,      \* where each start() waits
  ctx,        \* inputCtx is set
  stream,     \* this.stream
  capture,    \* captureNode is set
  live,       \* history: microphones that are on
  stops,      \* how many stopVoice() wait for their message to be sent
  outq,       \* how many frames outboundVoice holds
  pump,       \* outboundVoicePumping, and whether voiceQueueEpoch has moved on
  inq,        \* inboundVoice
  scheduled,  \* inboundVoiceScheduled
  tasks,      \* processOneInboundVoice tasks waiting in inboundSerial
  busy,       \* the one at work: its await, and the frame
  jitter,     \* the JitterBuffer: frames, expected
  playbackTimer, \* playbackTimer is set
  arrived,    \* history: the last frame that arrived
  played,     \* history: the last frame played, of each of the peer's calls
  overlap     \* history: a start() began while an earlier start or stop waited

callVars == <<ui, secure, remote, paused, stops, overlap>>
micVars  == <<stage, ctx, stream, capture, live>>
outVars  == <<outq, pump>>
inVars   == <<inq, scheduled, tasks, busy, arrived>>
playVars == <<jitter, playbackTimer, played>>
voiceVars == <<callVars, micVars, outVars, inVars, playVars>>

Frames == UNION {[call : {c}, seq : 1..MaxSeq[c]] : c \in 1..MaxCalls}
Idle == [at |-> "idle", frame |-> [call |-> 1, seq |-> 1]]
NewJitter == [frames |-> {}, expected |-> 0]

VoiceInit ==
  /\ ui = [voice |-> "idle", muted |-> FALSE]
  /\ secure = TRUE /\ remote = FALSE /\ paused = FALSE
  /\ stage = [i \in Starts |-> "none"] /\ ctx = FALSE /\ stream = None
  /\ capture = FALSE /\ live = {}
  /\ stops = 0 /\ overlap = FALSE
  /\ outq = 0 /\ pump = "idle"
  /\ inq = <<>> /\ scheduled = FALSE /\ tasks = 0 /\ busy = Idle
  /\ jitter = NewJitter /\ playbackTimer = FALSE
  /\ arrived = [call |-> 1, seq |-> 0] /\ played = [c \in 1..MaxCalls |-> 0]

-----------------------------------------------------------------------------
(* Parts of several handlers. *)

\* isVoiceActive, of the state shown.
IsVoiceActive(u) == u.voice \in {"starting", "active", "muted"}

clearOutboundVoiceQueue ==
  /\ outq' = 0
  /\ pump' = IF pump = "idle" THEN "idle" ELSE "stale"

clearVoiceQueues ==
  /\ clearOutboundVoiceQueue
  /\ inq' = <<>> /\ scheduled' = FALSE

\* VoiceService.stop, with stopPlayback.
stop ==
  /\ live' = live \ {stream} /\ stream' = None /\ capture' = FALSE /\ ctx' = FALSE
  /\ jitter' = NewJitter /\ playbackTimer' = FALSE

\* updateFilePauseForVoice, with the state shown and remoteVoiceActive.
updateFilePauseForVoice(u, r) == paused' = (IsVoiceActive(u) \/ r)

Show(voice, muted) == ui' = [voice |-> voice, muted |-> muted]

\* VoiceQueue: push adds one frame at a time; shiftFresh finds k of them stale.
trimOverflow(q) == IF Len(q) > QueueLimit THEN Tail(q) ELSE q
pushFrame(q, frame) == trimOverflow(Append(q, frame))
FreshFrames(q, k) == SubSeq(q, k + 1, Len(q))

-----------------------------------------------------------------------------
(* Starting. *)

\* The rest of startVoice when start() has returned.
Started == Show("active", FALSE)

\* startVoice, up to its first await; start() returns at once if there is a
\* stream.
StartVoice(i) ==
  /\ secure /\ ui.voice = "idle" /\ stage[i] = "none"
  /\ clearVoiceQueues
  /\ overlap' = (overlap \/ stops > 0 \/ \E j \in Starts : stage[j] # "none")
  /\ updateFilePauseForVoice([voice |-> "starting"], remote)
  /\ IF stream # None THEN Started /\ UNCHANGED <<stage, ctx>>
     ELSE /\ Show("starting", ui.muted)
          /\ stage' = [stage EXCEPT ![i] = "resume"] /\ ctx' = TRUE
  /\ UNCHANGED <<secure, remote, stops, stream, capture, live, tasks, busy, arrived, playVars>>

\* start() throws: its catch and startVoice's stop everything.
Failed(i) ==
  /\ clearVoiceQueues
  /\ stage' = [stage EXCEPT ![i] = "none"]
  /\ Show("failed", ui.muted)
  /\ updateFilePauseForVoice([voice |-> "failed"], remote)
  /\ UNCHANGED <<secure, remote, stops, overlap, tasks, busy, arrived, played>>

\* A context does not resume, the microphone is refused, the worklet does not
\* load.
StartFails(i) == stage[i] # "none" /\ stop /\ Failed(i)

ContextsResumed(i) ==
  /\ stage[i] = "resume"
  /\ IF ctx
     THEN /\ stage' = [stage EXCEPT ![i] = "permission"]
          /\ UNCHANGED <<callVars, ctx, stream, capture, live, outVars, inVars, playVars>>
     ELSE stop /\ Failed(i)

\* Fault: a start() that was stopped meanwhile returns without a word.
MicrophoneQuiet(i) ==
  /\ stage[i] = "permission"
  /\ stage' = [stage EXCEPT ![i] = IF ctx THEN "worklet" ELSE "none"]
  /\ stream' = IF ctx THEN i ELSE stream
  /\ live' = live \cup {i}
  /\ UNCHANGED <<callVars, ctx, capture, outVars, inVars, playVars>>

\* getUserMedia's stream is kept before anything else is looked at.
Microphone(i) ==
  /\ stage[i] = "permission"
  /\ IF ctx
     THEN /\ stage' = [stage EXCEPT ![i] = "worklet"]
          /\ stream' = i /\ live' = live \cup {i}
          /\ UNCHANGED <<callVars, ctx, capture, outVars, inVars, playVars>>
     ELSE \* stop() turns it off again
          /\ live' = live /\ stream' = None /\ capture' = FALSE /\ ctx' = FALSE
          /\ jitter' = NewJitter /\ playbackTimer' = FALSE
          /\ Failed(i)

WorkletLoaded(i) ==
  /\ stage[i] = "worklet"
  /\ IF ctx /\ stream # None
     THEN /\ stage' = [stage EXCEPT ![i] = "none"]
          /\ capture' = TRUE /\ Started
          /\ UNCHANGED <<secure, remote, paused, stops, overlap, ctx, stream, live, outVars,
                         inVars, playVars>>
     ELSE stop /\ Failed(i)

\* The notice of a failure goes away.
FailedTimer ==
  /\ ui.voice = "failed"
  /\ Show("idle", ui.muted)
  /\ UNCHANGED <<secure, remote, paused, stops, overlap, micVars, outVars, inVars, playVars>>

-----------------------------------------------------------------------------
(* Stopping and muting. *)

\* The Stop button is there while voice is on.
StopVoice ==
  /\ IsVoiceActive(ui) /\ stops < MaxStops
  /\ clearVoiceQueues /\ stop
  /\ stops' = stops + 1
  /\ UNCHANGED <<ui, secure, remote, paused, overlap, stage, tasks, busy, arrived, played>>

\* Fault: the files stay paused.
StopVoiceSentOnly ==
  /\ stops > 0
  /\ stops' = stops - 1
  /\ Show("idle", FALSE)
  /\ UNCHANGED <<paused, secure, remote, overlap, micVars, outVars, inVars, playVars>>

\* The await of stopVoice is over.
StopVoiceSent ==
  /\ stops > 0
  /\ stops' = stops - 1
  /\ Show("idle", FALSE)
  /\ updateFilePauseForVoice([voice |-> "idle"], remote)
  /\ UNCHANGED <<secure, remote, overlap, micVars, outVars, inVars, playVars>>

ToggleMute ==
  /\ ui.voice \in {"active", "muted"}
  /\ IF ui.muted THEN Show("active", FALSE) /\ UNCHANGED outVars
     ELSE Show("muted", TRUE) /\ clearOutboundVoiceQueue
  /\ UNCHANGED <<secure, remote, paused, stops, overlap, micVars, inVars, playVars>>

\* Fault: a call goes on across sessions.
LeaveSessionKeepsCall ==
  /\ secure' = FALSE
  /\ UNCHANGED <<ui, remote, paused, outVars, inq, scheduled, live, stream, capture, ctx, jitter,
                 playbackTimer>>

\* What disconnect and prepareFreshCryptoEpoch have in common.
LeaveSession ==
  /\ secure' = FALSE /\ remote' = FALSE /\ paused' = FALSE
  /\ clearVoiceQueues /\ stop
  /\ Show("idle", FALSE)

\* prepareFreshCryptoEpoch is a task of inboundSerial.
PrepareFreshCryptoEpoch ==
  /\ busy.at = "idle" /\ LeaveSession
  /\ UNCHANGED <<stops, overlap, stage, tasks, busy, arrived, played>>

\* disconnect is not: a frame being decrypted will be dropped.
Disconnect ==
  /\ busy.at # "idle" /\ LeaveSession
  /\ busy' = IF busy.at = "decrypt" THEN [busy EXCEPT !.at = "dropped"] ELSE busy
  /\ UNCHANGED <<stops, overlap, stage, tasks, arrived, played>>

\* handleHandshake.
Secured ==
  /\ ~secure /\ busy.at = "idle"
  /\ secure' = TRUE
  /\ UNCHANGED <<ui, remote, paused, stops, overlap, micVars, outVars, inVars, playVars>>

-----------------------------------------------------------------------------
(* Captured frames. *)

\* One round of pumpOutboundVoice's loop over n queued frames: the stale ones
\* and, if the transport cannot take voice now, all others are dropped.
PumpRound(n) ==
  \E dropped \in 0..n :
    IF dropped = n THEN outq' = 0 /\ pump' = "idle"
    ELSE \/ outq' = 0 /\ pump' = "idle"
         \/ outq' = n - dropped - 1 /\ pump' = "busy"

\* onmessage of the capture node.
Captures == capture /\ stream # None /\ ~ui.muted

\* A captured frame: queueOutboundVoice, pumpOutboundVoice.
CaptureFrame ==
  /\ Captures /\ secure /\ ui.voice # "idle"
  /\ LET n == Min({outq + 1, QueueLimit})
     IN IF pump = "idle" THEN PumpRound(n) ELSE outq' = n /\ UNCHANGED pump
  /\ UNCHANGED <<callVars, micVars, inVars, playVars>>

\* sendRawApp returns: the loop goes on, or ends and pumps anew for what is
\* left, unless the queue was cleared meanwhile.
PumpSent ==
  /\ pump # "idle"
  /\ IF pump = "stale" \/ ~secure \/ ui.voice = "idle" \/ ui.muted
     THEN pump' = "idle" /\ UNCHANGED outq
     ELSE PumpRound(outq)
  /\ UNCHANGED <<callVars, micVars, inVars, playVars>>

-----------------------------------------------------------------------------
(* Received frames. *)

\* scheduleInboundVoice, where the flag was f.
scheduleInboundVoice(f, n) ==
  /\ scheduled' = TRUE
  /\ tasks' = IF f THEN n ELSE n + 1

\* routeEnvelope and queueInboundVoice, for the next frame of the voice lane.
FrameArrives(frame) ==
  /\ frame.call > arrived.call \/ (frame.call = arrived.call /\ frame.seq > arrived.seq)
  /\ arrived' = frame
  /\ IF secure
     THEN /\ inq' = pushFrame(inq, frame)
          /\ scheduleInboundVoice(scheduled, tasks)
     ELSE UNCHANGED <<inq, scheduled, tasks>>
  /\ UNCHANGED <<callVars, micVars, outVars, busy, playVars>>

\* Fault: the flag is reset only.
FinallyForgets(q, n) == scheduled' = FALSE /\ tasks' = n

\* The end of processOneInboundVoice, with q and n left.
Finally(q, n) ==
  IF q # <<>> THEN scheduleInboundVoice(FALSE, n) ELSE scheduled' = FALSE /\ tasks' = n

\* processOneInboundVoice, up to the decryption; k frames are stale.
ProcessOneInboundVoice ==
  /\ tasks > 0 /\ busy.at = "idle"
  /\ \E k \in 0..Len(inq) :
       LET q == FreshFrames(inq, k)
       IN IF q # <<>> /\ secure
          THEN /\ inq' = Tail(q) /\ tasks' = tasks - 1
               /\ busy' = [at |-> "decrypt", frame |-> Head(q)]
               /\ UNCHANGED scheduled
          ELSE /\ inq' = IF q = <<>> THEN q ELSE Tail(q)
               /\ Finally(inq', tasks - 1) /\ UNCHANGED busy
  /\ UNCHANGED <<callVars, micVars, outVars, arrived, playVars>>

\* onEnvelope and handleAppMessage after the decryption; a frame that does not
\* decrypt, or that comes before voice.start, is an error.
Decrypted ==
  /\ busy.at \in {"decrypt", "dropped"}
  /\ \/ /\ busy.at = "decrypt" /\ remote
        /\ busy' = [busy EXCEPT !.at = "play"]
        /\ UNCHANGED <<scheduled, tasks>>
     \/ busy' = Idle /\ Finally(inq, tasks)
  /\ UNCHANGED <<callVars, micVars, outVars, inq, arrived, playVars>>

Seqs(j) == {f.seq : f \in j.frames}

\* JitterBuffer.push: a Map from numbers to frames, the oldest dropped.
push(j, f) ==
  IF f.seq < j.expected THEN j
  ELSE LET set == {g \in j.frames : g.seq # f.seq} \cup {f}
           oldest == Min({g.seq : g \in set})
       IN IF Cardinality(set) <= JitterLimit THEN [j EXCEPT !.frames = set]
          ELSE [frames |-> {g \in set : g.seq # oldest},
                expected |-> IF oldest = j.expected THEN j.expected + 1 ELSE j.expected]

\* VoiceService.play after enablePlayback, which may find playback blocked.
Play ==
  /\ busy.at = "play"
  /\ \/ jitter' = push(jitter, busy.frame) /\ playbackTimer' = TRUE
     \/ UNCHANGED <<jitter, playbackTimer>>
  /\ busy' = Idle /\ Finally(inq, tasks)
  /\ UNCHANGED <<callVars, micVars, outVars, inq, arrived, played>>

\* Fault: the newest frame comes first.
PopsNewest(j) == Max(Seqs(j))

\* JitterBuffer.pop: which frame, and the buffer without it.  As no frame below
\* `expected` is kept, it is always the oldest.
Pops(j) == Min(Seqs(j))
pop(j) ==
  [frames |-> {f \in j.frames : f.seq # Pops(j)}, expected |-> Pops(j) + 1]

\* flushPlayback: playback lags, a frame is stale, or it is played.
FlushPlayback ==
  /\ playbackTimer
  /\ \/ jitter' = NewJitter /\ UNCHANGED played
     \/ jitter.frames # {} /\ jitter' = pop(jitter) /\ UNCHANGED played
     \/ /\ jitter.frames # {}
        /\ jitter' = pop(jitter)
        /\ LET f == CHOOSE f \in jitter.frames : f.seq = Pops(jitter)
           IN played' = [played EXCEPT ![f.call] = f.seq]
  /\ UNCHANGED <<callVars, micVars, outVars, inVars, playbackTimer>>

\* handleAppMessage: the peer's control messages, tasks of inboundSerial.
VoiceStartMessage ==
  /\ secure /\ busy.at = "idle"
  /\ remote' = TRUE
  /\ updateFilePauseForVoice(ui, TRUE)
  /\ UNCHANGED <<ui, secure, stops, overlap, micVars, outVars, inVars, playVars>>

VoiceStopMessage ==
  /\ secure /\ busy.at = "idle"
  /\ remote' = FALSE
  /\ inq' = <<>> /\ jitter' = NewJitter /\ playbackTimer' = FALSE
  /\ updateFilePauseForVoice(ui, FALSE)
  /\ UNCHANGED <<ui, secure, stops, overlap, micVars, outVars, scheduled, tasks, busy, arrived,
                 played>>

VoiceNext ==
  \/ \E i \in Starts : StartVoice(i) \/ StartFails(i) \/ ContextsResumed(i) \/ Microphone(i)
                       \/ WorkletLoaded(i)
  \/ FailedTimer \/ StopVoice \/ StopVoiceSent \/ ToggleMute
  \/ PrepareFreshCryptoEpoch \/ Disconnect \/ Secured
  \/ CaptureFrame \/ PumpSent
  \/ \E f \in Frames : FrameArrives(f)
  \/ ProcessOneInboundVoice \/ Decrypted \/ Play \/ FlushPlayback
  \/ VoiceStartMessage \/ VoiceStopMessage

VoiceSpec == VoiceInit /\ [][VoiceNext]_voiceVars

-----------------------------------------------------------------------------
\* Stopping releases the microphone: whatever permission prompts, failures and new
\* sessions come in between, no microphone is on that the service has lost sight
\* of, as long as nobody starts again before the last start or stop is over.
MicrophoneReleased ==
  ~overlap => /\ live \subseteq {stream}
              /\ ui.voice = "idle" => live = {}

\* "paused during active voice": under the same condition, the file sender is
\* paused exactly while one side's voice is on.
FilesPausedInVoice ==
  ~overlap => (paused <=> IsVoiceActive(ui) \/ remote)

\* pumpOutboundVoice calls itself when it leaves frames behind, without looking
\* for a session: there are none to leave when the session is gone.
PumpNeverSpins ==
  outq > 0 /\ ui.voice # "idle" => secure

\* Received frames are waited for: a task of inboundSerial will take them, or the
\* one at work will look again, however often the queue was cleared meanwhile.
InboundNeverStalls ==
  inq # <<>> => tasks > 0 \/ busy.at # "idle"

\* "sequence ordering": the frames of a call are played in order and once.
PlayedInOrder ==
  [][\A c \in 1..MaxCalls : played'[c] # played[c] => played'[c] > played[c]]_voiceVars
=============================================================================

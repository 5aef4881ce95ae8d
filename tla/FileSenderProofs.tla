--------------------------- MODULE FileSenderProofs ---------------------------
(***************************************************************************)
(* What the methods of module FileSender preserve, for any number of files *)
(* and chunks, any window and any number of retries.                       *)
(*                                                                         *)
(* Sound, Moving and Fed say of one transfer what its record, its running  *)
(* calls and its timers have to do with each other: every chunk issued is  *)
(* either acknowledged or in flight, and while the transfer sends, every   *)
(* chunk in flight has a timer or a call.  A method is a step of one       *)
(* transfer (StepOf) that may take others from the queue (Shown).          *)
(***************************************************************************)
EXTENDS FileSender, FiniteSetTheorems, WellFoundedInduction, TLAPS

-----------------------------------------------------------------------------
(* The types. *)

Statuses == {"none", "queued", "offered", "sending", "paused", "completed", "cancelled", "failed"}
Parked == {"hold", "sending"}
Timed == {"ack", "retry"}
Attempts == 1..(MaxRetries + 1)

Slots == {NoEntry} \cup [attempts : Nat, state : Parked] \cup [attempts : Attempts, state : Timed]

Transfers ==
  [status : Statuses, here : BOOLEAN, accepted : BOOLEAN, paused : BOOLEAN, cancelled : BOOLEAN,
   next : 0..Total, acked : SUBSET Chunks, inflight : [Chunks -> Slots]]

TransferMaps == [Files -> Transfers]
Views == [Files -> Statuses]
Orders == Seq(Files)
Digests == [Files -> {"no", "queued", "offered"}]
Notes == [kind : {"offer", "cancel", "complete"}, file : Files]
CallCounts == [Call -> Nat]
StrayCounts == [Timer -> Nat]

Senders ==
  [tr : TransferMaps, globalPaused : BOOLEAN, voice : SUBSET {"local", "remote"},
   shown : Views, order : Orders, secure : BOOLEAN, digesting : Digests,
   posting : SUBSET Files, waking : SUBSET Files, ctl : Seq(Notes),
   calls : CallCounts, stray : StrayCounts]

-----------------------------------------------------------------------------
(* The inductive invariant, for one transfer. *)

\* The chunks of f with a running call, and those with a stray timer.
CallsOf(s, f) == {i \in Chunks : \E c \in Running(s) : c.file = f /\ c.index = i}
StraysOf(s, f) == {i \in Chunks : \E x \in StrayTimers(s) : x.file = f /\ x.index = i}

\* The chunks issued so far are those acknowledged and those in flight; C has the
\* chunks of running calls and X those of stray timers.
Windowed(t, C, X) ==
  /\ t.acked \cup Inflight(t) = 0..(t.next - 1)
  /\ t.acked \cap Inflight(t) = {}
  /\ Cardinality(Inflight(t)) <= Window
  /\ C \cup X \subseteq 0..(t.next - 1)

\* A transfer in the map of the sender; b: the sender is paused.
Live(t, b, C, X) ==
  /\ t.status # "none"
  /\ IF t.cancelled THEN Inflight(t) = {} ELSE Windowed(t, C, X)
  /\ t.status \in {"queued", "offered"} => t.next = 0
  /\ t.status = "sending" => t.accepted /\ ~t.paused /\ ~b
  /\ t.status = "paused" => t.accepted /\ b

\* Any transfer; d: the state of its digest, p: its offer is being sent, g: what
\* the receiver has stored.
Sound(t, b, C, X, d, p, g) ==
  /\ t.acked \subseteq g
  /\ t.status = "completed" => t.acked = Chunks
  /\ t.cancelled <=> t.status \in {"cancelled", "failed"}
  /\ IF t.status = "none" THEN C = {} /\ X = {} /\ Inflight(t) = {} /\ ~p ELSE d = "no"
  /\ t.here => Live(t, b, C, X)

\* While a transfer sends, every chunk in flight but those of E has a timer or a
\* call; while it is paused, it may be held instead.
Moving(t, C, E) ==
  t.here /\ t.status \in {"sending", "paused"} =>
    \A i \in Inflight(t) \ E :
      \/ t.inflight[i].state \in Timed
      \/ t.inflight[i].state = "sending" /\ i \in C
      \/ t.inflight[i].state = "hold" /\ t.status = "paused"

\* A transfer that sends has a chunk in flight.
Fed(t) == t.here /\ t.status = "sending" => Inflight(t) # {}

SoundAt(s, f, b, g) ==
  Sound(s.tr[f], b, CallsOf(s, f), StraysOf(s, f), s.digesting[f], f \in s.posting, g)

-----------------------------------------------------------------------------
(* Induction, by the least counterexample. *)

\* A non-empty set of numbers has a least element.
LEMMA Least ==
  ASSUME NEW N, N \subseteq Nat, N # {}
  PROVE  \E n \in N : \A m \in N : n <= m
<1> DEFINE lt == OpToRel(<, Nat)
<1>1. IsWellFoundedOn(lt, Nat)
  BY NatLessThanWellFounded, Zenon
<1>2. \A x, y \in Nat : y < x => <<y, x>> \in lt
  BY DEF OpToRel
<1> HIDE DEF lt
<1>3. PICK x \in N : \A y \in N : ~ (<<y, x>> \in lt)
  BY <1>1, WFMin, Zenon
<1>4. \A y \in N : x <= y
  <2> SUFFICES ASSUME NEW y \in N PROVE x <= y
    OBVIOUS
  <2>1. x \in Nat /\ y \in Nat /\ ~(y < x)
    BY <1>2, <1>3, Zenon
  <2>2. QED
    BY <2>1
<1>5. QED
  BY <1>4

\* A finite set without one of its elements is smaller.
LEMMA Smaller ==
  ASSUME NEW D \in SUBSET Files, NEW f \in D
  PROVE  /\ Cardinality(D) \in Nat /\ Cardinality(D \ {f}) \in Nat
         /\ D \ {f} \in SUBSET Files
         /\ Cardinality(D \ {f}) = Cardinality(D) - 1
<1>1. IsFiniteSet(D)
  BY FileSenderAssumption, FS_Subset
<1>2. QED
  BY <1>1, FS_RemoveElement, FS_CardinalityType

\* setGlobalPaused is a recursive function of the set of transfers done.
PauseStep(s, b, h, D) ==
  IF D = {} THEN [s EXCEPT !.globalPaused = b]
  ELSE SetPaused(h[D \ {CHOOSE f \in D : TRUE}], CHOOSE f \in D : TRUE, b)

\* setGlobalPaused(s, b) is the value at Files of a recursive function.
LEMMA PauseDef ==
  ASSUME NEW s, NEW b
  PROVE  setGlobalPaused(s, b) =
           (CHOOSE h : h = [D \in SUBSET Files |-> PauseStep(s, b, h, D)])[Files]
BY DEF setGlobalPaused, PauseStep

\* That function exists: it is built up by the size of the set.
LEMMA PauseExists ==
  ASSUME NEW s, NEW b
  PROVE  \E h : h = [D \in SUBSET Files |-> PauseStep(s, b, h, D)]
<1> DEFINE Upto(h, n) == \A D \in SUBSET Files :
                           Cardinality(D) <= n => h[D] = PauseStep(s, b, h, D)
           Bad == {n \in Nat : ~\E h : Upto(h, n)}
<1>1. Bad = {}
  <2> SUFFICES ASSUME Bad # {} PROVE FALSE
    OBVIOUS
  <2>1. PICK n \in Bad : \A m \in Bad : n <= m
    BY Least, Zenon
  <2>2. CASE n = 0
    <3> DEFINE g == [D \in SUBSET Files |-> PauseStep(s, b, <<>>, D)]
    <3>1. ASSUME NEW D \in SUBSET Files, Cardinality(D) <= 0 PROVE D = {}
      <4> SUFFICES ASSUME NEW f \in D PROVE FALSE
        BY Zenon
      <4>1. /\ Cardinality(D) \in Nat /\ Cardinality(D \ {f}) \in Nat
            /\ Cardinality(D \ {f}) = Cardinality(D) - 1
        BY Smaller, Zenon
      <4> QED
        BY <3>1, <4>1
    <3>2. Upto(g, 0)
      BY <3>1 DEF PauseStep
    <3> QED
      BY <2>1, <2>2, <3>2, Zenon
  <2>3. CASE n # 0
    <3>1. n - 1 \in Nat /\ n - 1 \notin Bad
      BY <2>1, <2>3
    <3>2. PICK h : Upto(h, n - 1)
      BY <3>1
    <3> DEFINE g == [D \in SUBSET Files |->
                       IF Cardinality(D) <= n - 1 THEN h[D] ELSE PauseStep(s, b, h, D)]
    <3>3. ASSUME NEW D \in SUBSET Files, Cardinality(D) <= n PROVE g[D] = PauseStep(s, b, g, D)
      <4>1. g[D] = PauseStep(s, b, h, D)
        BY <3>2
      <4>2. CASE D = {}
        BY <4>1, <4>2 DEF PauseStep
      <4>3. CASE D # {}
        <5> DEFINE f == CHOOSE f \in D : TRUE
        <5>1. f \in D
          BY <4>3
        <5> HIDE DEF f
        <5>2. D \ {f} \in SUBSET Files /\ Cardinality(D \ {f}) <= n - 1
          BY <3>3, <5>1, <2>1, Smaller
        <5>3. g[D \ {f}] = h[D \ {f}]
          BY <5>2
        <5>4. PauseStep(s, b, h, D) = PauseStep(s, b, g, D)
          BY <4>3, <5>3, Zenon DEF PauseStep, f
        <5> QED
          BY <4>1, <5>4
      <4> QED
        BY <4>2, <4>3
    <3>4. Upto(g, n)
      BY <3>3, Zenon
    <3> QED
      BY <2>1, <3>4, Zenon
  <2> QED
    BY <2>2, <2>3
<1>2. Cardinality(Files) \in Nat
  BY FileSenderAssumption, FS_CardinalityType
<1>3. PICK h : Upto(h, Cardinality(Files))
  BY <1>1, <1>2
<1> DEFINE g == [D \in SUBSET Files |-> h[D]]
<1>4. ASSUME NEW D \in SUBSET Files PROVE g[D] = PauseStep(s, b, g, D)
  <2>1. Cardinality(D) <= Cardinality(Files)
    BY FileSenderAssumption, FS_Subset
  <2>2. h[D] = PauseStep(s, b, h, D)
    BY <1>3, <2>1
  <2>3. PauseStep(s, b, h, D) = PauseStep(s, b, g, D)
    <3> DEFINE f == CHOOSE f \in D : TRUE
    <3>1. g[D \ {f}] = h[D \ {f}]
      OBVIOUS
    <3> HIDE DEF g
    <3> QED
      BY <3>1, Zenon DEF PauseStep
  <2> QED
    BY <2>2, <2>3
<1>5. g = [D \in SUBSET Files |-> PauseStep(s, b, g, D)]
  BY <1>4, Zenon
<1> QED
  BY <1>5, Zenon

\* setGlobalPaused, by its recursion equation.
LEMMA PauseFacts ==
  ASSUME NEW s, NEW b
  PROVE  \E h : /\ setGlobalPaused(s, b) = h[Files]
                /\ \A D \in SUBSET Files : h[D] = PauseStep(s, b, h, D)
<1> DEFINE g == CHOOSE h : h = [D \in SUBSET Files |-> PauseStep(s, b, h, D)]
<1>1. setGlobalPaused(s, b) = g[Files]
  BY PauseDef, Zenon
<1>2. g = [D \in SUBSET Files |-> PauseStep(s, b, g, D)]
  BY PauseExists, Zenon
<1> HIDE DEF g
<1>3. \A D \in SUBSET Files : g[D] = PauseStep(s, b, g, D)
  BY <1>2, Zenon
<1> QED
  BY <1>1, <1>3, Zenon

-----------------------------------------------------------------------------
(* The view and the messages. *)

\* A queued transfer is offered.
Offered(t, v) ==
  \/ v = t
  \/ /\ t.status = "queued" /\ ~t.cancelled
     /\ v = [t EXCEPT !.status = "offered", !.paused = FALSE]

\* What the view and sendApp do: a step that leaves the transfers alone but for
\* those it takes from the queue.
Shown(s, u) ==
  /\ u \in Senders
  /\ u.globalPaused = s.globalPaused /\ u.digesting = s.digesting
  /\ u.calls = s.calls /\ u.stray = s.stray
  /\ \A g \in Files : Offered(s.tr[g], u.tr[g])
  /\ \A g \in u.posting : g \in s.posting \/ u.tr[g].status # "none"

\* Doing nothing is such a step.
LEMMA ShownSelf ==
  ASSUME NEW s \in Senders
  PROVE  Shown(s, s)
BY DEF Shown, Offered

\* Such a step after such a step is one.
LEMMA ShownTransitive ==
  ASSUME NEW s \in Senders, NEW u, NEW v, Shown(s, u), Shown(u, v)
  PROVE  Shown(s, v)
<1>1. ASSUME NEW g \in Files PROVE Offered(s.tr[g], v.tr[g])
  <2> DEFINE t == s.tr[g]
             w == u.tr[g]
             x == v.tr[g]
  <2>1. Offered(t, w) /\ Offered(w, x) /\ t \in Transfers
    BY DEF Shown, Senders, TransferMaps
  <2> HIDE DEF t, w, x
  <2>2. Offered(t, x)
    BY <2>1, Zenon DEF Offered, Transfers
  <2> QED
    BY <2>2 DEF t, x
<1>2. ASSUME NEW g \in v.posting PROVE g \in s.posting \/ v.tr[g].status # "none"
  <2> DEFINE w == u.tr[g]
             x == v.tr[g]
  <2>1. g \in Files /\ Offered(w, x) /\ w \in Transfers
    BY DEF Shown, Senders, TransferMaps
  <2>2. g \in u.posting \/ x.status # "none"
    BY DEF Shown
  <2>3. g \in u.posting => g \in s.posting \/ w.status # "none"
    BY DEF Shown
  <2> HIDE DEF w, x
  <2>4. w.status # "none" => x.status # "none"
    BY <2>1, Zenon DEF Offered, Transfers
  <2> QED
    BY <2>2, <2>3, <2>4 DEF x
<1> QED
  BY <1>1, <1>2 DEF Shown

\* sendApp of a message of the sender.
LEMMA PostShown ==
  ASSUME NEW s \in Senders, NEW f \in Files, NEW k \in {"offer", "cancel", "complete"}
  PROVE  Shown(s, post(s, k, f))
<1> DEFINE q == Append(s.ctl, [kind |-> k, file |-> f])
           u == [s EXCEPT !.ctl = q]
<1>1. q \in Seq(Notes)
  BY DEF Senders, Notes
<1>2. post(s, k, f) = IF s.secure THEN u ELSE s
  BY Zenon DEF post, q, u
<1> HIDE DEF q
<1>3. u \in Senders
  BY <1>1, Zenon DEF Senders
<1>4. Shown(s, u)
  BY <1>3, Zenon DEF Shown, Offered, Senders
<1> QED
  BY <1>2, <1>4, ShownSelf

\* upsertTransfer.
LEMMA ShowShown ==
  ASSUME NEW s \in Senders, NEW f \in Files
  PROVE  Shown(s, Show(s, f))
<1> DEFINE v == [s.shown EXCEPT ![f] = s.tr[f].status]
           q == IF s.shown[f] = "none" THEN Append(s.order, f) ELSE s.order
           u == [s EXCEPT !.shown = v, !.order = q]
<1>1. s.tr[f].status \in Statuses
  BY DEF Senders, TransferMaps, Transfers
<1>2. v \in Views
  BY <1>1 DEF Senders, Views
<1>3. q \in Orders
  BY DEF Senders, Orders
<1>4. Show(s, f) = u
  BY DEF Show, Senders
<1> HIDE DEF v, q
<1>5. u \in Senders
  BY <1>2, <1>3, Zenon DEF Senders
<1>6. Shown(s, u)
  BY <1>5 DEF Shown, Offered, Senders
<1> QED
  BY <1>4, <1>6

\* sendOffer up to its await.
LEMMA SendOfferShown ==
  ASSUME NEW s \in Senders, NEW f \in Files, s.tr[f].status # "none"
  PROVE  Shown(s, sendOffer(s, f))
<1> DEFINE u == post(s, "offer", f)
           v == [u EXCEPT !.posting = @ \cup {f}]
<1>1. Shown(s, u)
  BY PostShown
<1> HIDE DEF u
<1>2. u \in Senders
  BY <1>1 DEF Shown
<1>3. v \in Senders
  BY <1>2, Zenon DEF Senders
<1>4. u.tr[f].status # "none"
  <2>1. u.tr = s.tr
    BY DEF post, u
  <2> QED
    BY <2>1
<1>5. Shown(u, v)
  BY <1>2, <1>3, <1>4, Zenon DEF Shown, Offered, Senders
<1> QED
  BY <1>1, <1>5, ShownTransitive DEF sendOffer, u

\* startQueued takes its transfer from the queue, or does nothing.
LEMMA StartQueuedShown ==
  ASSUME NEW s \in Senders, NEW f \in Files
  PROVE  Shown(s, startQueued(s, f))
<1> DEFINE t == s.tr[f]
           v == [t EXCEPT !.status = "offered", !.paused = FALSE]
           m == [s.tr EXCEPT ![f] = v]
           u == [s EXCEPT !.tr = m]
<1>1. CASE ~t.here \/ t.cancelled \/ t.status # "queued"
  BY <1>1, ShownSelf DEF startQueued
<1>2. CASE ~(~t.here \/ t.cancelled \/ t.status # "queued")
  <2>1. t \in Transfers /\ s.tr \in TransferMaps
    BY DEF Senders, TransferMaps
  <2>2. v \in Transfers
    BY <2>1, Zenon DEF Transfers, Statuses
  <2>3. startQueued(s, f) = sendOffer(Show(u, f), f)
    BY <1>2, Zenon DEF startQueued, Senders, TransferMaps
  <2>4. Offered(t, v)
    BY <1>2 DEF Offered
  <2> HIDE DEF v
  <2>5. m \in TransferMaps
    BY <2>1, <2>2 DEF TransferMaps
  <2>6. \A g \in Files : m[g] = IF g = f THEN v ELSE s.tr[g]
    BY <2>1 DEF TransferMaps
  <2> HIDE DEF m
  <2>7. u \in Senders
    BY <2>5 DEF Senders
  <2>8. u.tr = m
    BY DEF Senders
  <2>9. \A g \in Files : Offered(s.tr[g], u.tr[g])
    BY <2>4, <2>6, <2>8, Zenon DEF Offered
  <2>10. Shown(s, u)
    <3>1. u.posting = s.posting
      BY DEF Senders
    <3> QED
      BY <2>7, <2>9, <3>1, Zenon DEF Shown, Senders
  <2> HIDE DEF u
  <2>11. Shown(u, Show(u, f))
    BY <2>7, ShowShown
  <2>14. Show(u, f).tr[f].status # "none"
    <3>1. Show(u, f).tr = u.tr
      BY DEF Show
    <3>2. u.tr[f] = v
      BY <2>6, <2>8
    <3> QED
      BY <2>1, <3>1, <3>2 DEF v, Transfers
  <2>12. Shown(Show(u, f), sendOffer(Show(u, f), f))
    BY <2>11, <2>14, SendOfferShown DEF Shown
  <2>13. Shown(s, sendOffer(Show(u, f), f))
    BY <2>7, <2>10, <2>11, <2>12, ShownTransitive, Zenon
  <2> QED
    BY <2>3, <2>13
<1> QED
  BY <1>1, <1>2

\* startNextQueuedFileIfAllowed.
LEMMA StartNextShown ==
  ASSUME NEW s \in Senders
  PROVE  Shown(s, startNext(s))
<1> DEFINE queued == {i \in 1..Len(s.order) : s.shown[s.order[i]] = "queued"}
           first == CHOOSE i \in queued : \A j \in queued : i <= j
           busy == {f \in Files : s.shown[f] \in {"offered", "sending", "paused"}}
<1>1. CASE s.voice # {} \/ queued = {} \/ busy # {}
  BY <1>1, ShownSelf, Zenon DEF startNext
<1>2. CASE ~(s.voice # {} \/ queued = {} \/ busy # {})
  <2>1. queued \subseteq Nat /\ queued # {}
    BY <1>2
  <2>2. first \in queued
    <3> HIDE DEF queued
    <3> QED
      BY <2>1, Least, Zenon
  <2>3. s.order[first] \in Files
    <3>1. s.order \in Seq(Files) /\ first \in 1..Len(s.order)
      BY <2>2 DEF Senders, Orders
    <3> HIDE DEF first
    <3> QED
      BY <3>1
  <2>4. startNext(s) = startQueued(s, s.order[first])
    BY <1>2 DEF startNext
  <2> QED
    BY <2>3, <2>4, StartQueuedShown, Zenon
<1> QED
  BY <1>1, <1>2, Zenon

\* emit, and the update of the view that it triggers.
LEMMA EmitShown ==
  ASSUME NEW s \in Senders, NEW f \in Files
  PROVE  Shown(s, emit(s, f))
<1>1. Shown(s, Show(s, f))
  BY ShowShown
<1>2. Shown(Show(s, f), startNext(Show(s, f)))
  BY <1>1, StartNextShown DEF Shown
<1>3. Shown(s, startNext(Show(s, f)))
  BY <1>1, <1>2, ShownTransitive
<1> QED
  BY <1>1, <1>3 DEF emit

-----------------------------------------------------------------------------
(* A step of one transfer leaves the others sound. *)

\* What a step of another transfer does to g.
AtRest(s, u, g) ==
  /\ Offered(s.tr[g], u.tr[g])
  /\ CallsOf(u, g) = CallsOf(s, g) /\ StraysOf(u, g) = StraysOf(s, g)
  /\ u.digesting[g] = s.digesting[g]
  /\ g \in u.posting => g \in s.posting \/ u.tr[g].status # "none"

\* A step of the view leaves every transfer at rest.
LEMMA ShownAtRest ==
  ASSUME NEW s \in Senders, NEW u, Shown(s, u), NEW g \in Files
  PROVE  AtRest(s, u, g)
BY DEF Shown, AtRest, CallsOf, StraysOf, Running, StrayTimers

\* A transfer at rest in two steps is so in both together.
LEMMA AtRestTransitive ==
  ASSUME NEW s \in Senders, NEW u \in Senders, NEW v, NEW g \in Files,
         AtRest(s, u, g), AtRest(u, v, g)
  PROVE  AtRest(s, v, g)
<1> DEFINE t == s.tr[g]
           w == u.tr[g]
           x == v.tr[g]
<1>1. Offered(t, w) /\ Offered(w, x) /\ t \in Transfers /\ w \in Transfers
  BY DEF AtRest, Senders, TransferMaps
<1> HIDE DEF t, w, x
<1>2. Offered(t, x) /\ (w.status # "none" => x.status # "none")
  BY <1>1, Zenon DEF Offered, Transfers
<1> QED
  BY <1>2, Zenon DEF AtRest, t, w, x

\* What a transfer has to satisfy survives its being taken from the queue.
LEMMA OfferedSound ==
  ASSUME NEW t \in Transfers, NEW v, Offered(t, v), NEW b, NEW C, NEW X, NEW d, NEW p, NEW q, NEW g,
         Sound(t, b, C, X, d, p, g), q => p \/ v.status # "none"
  PROVE  /\ Sound(v, b, C, X, d, q, g)
         /\ Fed(t) => Fed(v)
         /\ \A E : Moving(t, C, E) => Moving(v, C, E)
<1>1. CASE v = t
  BY <1>1 DEF Sound
<1>2. CASE v # t
  <2>1. /\ t.status = "queued" /\ ~t.cancelled /\ v.status = "offered" /\ v.next = t.next
        /\ v.acked = t.acked /\ v.inflight = t.inflight /\ v.here = t.here
        /\ v.cancelled = t.cancelled
    BY <1>2, ZenonT(30) DEF Offered, Transfers
  <2>2. Inflight(v) = Inflight(t)
    BY <2>1 DEF Inflight
  <2>3. Live(t, b, C, X) => Live(v, b, C, X)
    BY <2>1, <2>2 DEF Live, Windowed
  <2> QED
    BY <2>1, <2>2, <2>3 DEF Sound, Fed, Moving
<1> QED
  BY <1>1, <1>2

\* What a transfer has to satisfy survives the steps of the others.
LEMMA AtRestSound ==
  ASSUME NEW s \in Senders, NEW u, NEW g \in Files, AtRest(s, u, g),
         NEW b, NEW h, SoundAt(s, g, b, h)
  PROVE  /\ SoundAt(u, g, b, h)
         /\ Fed(s.tr[g]) => Fed(u.tr[g])
         /\ \A E : Moving(s.tr[g], CallsOf(s, g), E) => Moving(u.tr[g], CallsOf(u, g), E)
<1> DEFINE t == s.tr[g]
           v == u.tr[g]
           C == CallsOf(s, g)
           X == StraysOf(s, g)
           d == s.digesting[g]
           p == g \in s.posting
           q == g \in u.posting
<1>1. t \in Transfers
  BY DEF Senders, TransferMaps
<1>2. Offered(t, v) /\ Sound(t, b, C, X, d, p, h) /\ (q => p \/ v.status # "none")
  BY DEF AtRest, SoundAt
<1>3. CallsOf(u, g) = C /\ StraysOf(u, g) = X /\ u.digesting[g] = d
  BY DEF AtRest
<1> HIDE DEF t, v, C, X, d, p, q
<1>4. /\ Sound(v, b, C, X, d, q, h)
      /\ Fed(t) => Fed(v)
      /\ \A E : Moving(t, C, E) => Moving(v, C, E)
  BY <1>1, <1>2, OfferedSound, Zenon
<1>5. SoundAt(u, g, b, h)
  BY <1>3, <1>4, Zenon DEF SoundAt, v, q
<1> QED
  BY <1>3, <1>4, <1>5, Zenon DEF t, v, C

-----------------------------------------------------------------------------
(* Steps of one transfer. *)

\* A step that concerns f.
StepOf(s, u, f) ==
  /\ u \in Senders /\ u.globalPaused = s.globalPaused
  /\ \A g \in Files \ {f} : AtRest(s, u, g)

\* A step of f after a step of f is one.
LEMMA StepOfTransitive ==
  ASSUME NEW s \in Senders, NEW u, NEW v, NEW f \in Files, StepOf(s, u, f), StepOf(u, v, f)
  PROVE  StepOf(s, v, f)
<1>1. u \in Senders
  BY DEF StepOf
<1>2. ASSUME NEW g \in Files \ {f} PROVE AtRest(s, v, g)
  <2>1. AtRest(s, u, g) /\ AtRest(u, v, g)
    BY DEF StepOf
  <2> QED
    BY <1>1, <2>1, AtRestTransitive
<1> QED
  BY <1>2 DEF StepOf

\* A step of the view is a step of any transfer.
LEMMA ShownStepOf ==
  ASSUME NEW s \in Senders, NEW u, NEW f \in Files, Shown(s, u)
  PROVE  StepOf(s, u, f)
BY ShownAtRest DEF StepOf, Shown

\* Another record for f.
Put(s, f, v) == [s EXCEPT !.tr = [s.tr EXCEPT ![f] = v]]

\* Assigning the record of f is a step of f, and changes nothing else.
LEMMA PutFacts ==
  ASSUME NEW s \in Senders, NEW f \in Files, NEW v \in Transfers
  PROVE  /\ StepOf(s, Put(s, f, v), f)
         /\ Put(s, f, v).tr[f] = v
         /\ CallsOf(Put(s, f, v), f) = CallsOf(s, f)
         /\ StraysOf(Put(s, f, v), f) = StraysOf(s, f)
         /\ Put(s, f, v).digesting = s.digesting /\ Put(s, f, v).posting = s.posting
<1> DEFINE m == [s.tr EXCEPT ![f] = v]
           u == [s EXCEPT !.tr = m]
<1>1. s.tr \in TransferMaps
  BY DEF Senders
<1>2. m \in TransferMaps /\ m[f] = v /\ \A g \in Files \ {f} : m[g] = s.tr[g]
  BY <1>1 DEF TransferMaps
<1>3. Put(s, f, v) = u
  BY Zenon DEF Put
<1> HIDE DEF m
<1>4. /\ u \in Senders /\ u.globalPaused = s.globalPaused /\ u.digesting = s.digesting
      /\ u.posting = s.posting /\ u.calls = s.calls /\ u.stray = s.stray /\ u.tr = m
  BY <1>2 DEF Senders
<1> HIDE DEF u
<1>5. \A g \in Files : CallsOf(u, g) = CallsOf(s, g) /\ StraysOf(u, g) = StraysOf(s, g)
  BY <1>4 DEF CallsOf, StraysOf, Running, StrayTimers
<1>6. StepOf(s, u, f)
  BY <1>2, <1>4, <1>5, Zenon DEF StepOf, AtRest, Offered
<1> QED
  BY <1>2, <1>3, <1>4, <1>5, <1>6

\* From here on s is the sender before a step of f and SoundAt holds of it, but
\* for what the step is about to mend.
LEMMA RecordOf ==
  ASSUME NEW s \in Senders, NEW f \in Files
  PROVE  /\ s.tr[f] \in Transfers /\ s.globalPaused \in BOOLEAN
         /\ CallsOf(s, f) \subseteq Chunks /\ StraysOf(s, f) \subseteq Chunks
         /\ s.digesting[f] \in {"no", "queued", "offered"}
BY DEF Senders, TransferMaps, Digests, CallsOf, StraysOf

Stopped(t, status) ==
  [t EXCEPT !.status = status, !.cancelled = TRUE, !.inflight = [i \in Chunks |-> NoEntry]]

\* A transfer that was cancelled or has failed is in order.
LEMMA StoppedSound ==
  ASSUME NEW t \in Transfers, NEW status \in {"cancelled", "failed"},
         NEW b, NEW C, NEW X, NEW p, NEW g, t.acked \subseteq g
  PROVE  /\ Stopped(t, status) \in Transfers
         /\ Sound(Stopped(t, status), b, C, X, "no", p, g)
         /\ Fed(Stopped(t, status)) /\ Moving(Stopped(t, status), C, {})
<1> DEFINE v == Stopped(t, status)
           fl == [i \in Chunks |-> NoEntry]
<1>1. fl \in [Chunks -> Slots]
  BY DEF Slots
<1>2. \A i \in Chunks : fl[i] = NoEntry
  OBVIOUS
<1>3. v = [t EXCEPT !.status = status, !.cancelled = TRUE, !.inflight = fl]
  BY Zenon DEF Stopped
<1> HIDE DEF fl, v
<1>4. /\ v \in Transfers /\ v.status = status /\ v.cancelled = TRUE /\ v.inflight = fl
      /\ v.acked = t.acked
  BY <1>1, <1>3, Zenon DEF Transfers, Statuses
<1>5. Inflight(v) = {}
  BY <1>2, <1>4 DEF Inflight
<1>6. Sound(v, b, C, X, "no", p, g) /\ Fed(v) /\ Moving(v, C, {})
  BY <1>4, <1>5 DEF Sound, Live, Fed, Moving
<1> QED
  BY <1>4, <1>6 DEF v

\* A step of f whose record becomes v, its calls C and its stray timers X.
Core(s, w, f, v, C, X) ==
  /\ StepOf(s, w, f) /\ w.tr[f] = v
  /\ CallsOf(w, f) = C /\ StraysOf(w, f) = X
  /\ w.digesting = s.digesting /\ w.posting = s.posting

\* Assigning the record of f leaves its calls and stray timers as they were.
LEMMA PutCore ==
  ASSUME NEW s \in Senders, NEW f \in Files, NEW v \in Transfers
  PROVE  Core(s, Put(s, f, v), f, v, CallsOf(s, f), StraysOf(s, f))
BY PutFacts, Zenon DEF Core

\* A step of f after which all is well with it.
Done(s, u, f, b, g) ==
  /\ u \in Senders /\ StepOf(s, u, f) /\ SoundAt(u, f, b, g) /\ Fed(u.tr[f])
  /\ Moving(u.tr[f], CallsOf(u, f), {})

\* The view is brought up to date after such a step.
LEMMA CoreShown ==
  ASSUME NEW s \in Senders, NEW f \in Files, NEW w, NEW v, NEW C, NEW X, Core(s, w, f, v, C, X),
         NEW u, Shown(w, u),
         NEW b, NEW g, Sound(v, b, C, X, s.digesting[f], f \in s.posting, g)
  PROVE  /\ StepOf(s, u, f) /\ SoundAt(u, f, b, g) /\ u \in Senders
         /\ Fed(v) => Fed(u.tr[f])
         /\ \A E : Moving(v, C, E) => Moving(u.tr[f], CallsOf(u, f), E)
<1>1. /\ StepOf(s, w, f) /\ w.tr[f] = v /\ CallsOf(w, f) = C
      /\ StraysOf(w, f) = X /\ w.digesting = s.digesting /\ w.posting = s.posting
  BY Zenon DEF Core
<1>2. w \in Senders /\ u \in Senders
  BY <1>1 DEF StepOf, Shown
<1>3. SoundAt(w, f, b, g)
  BY <1>1, Zenon DEF SoundAt
<1>5. AtRest(w, u, f) /\ StepOf(w, u, f)
  BY <1>2, ShownAtRest, ShownStepOf, Zenon
<1>6. /\ SoundAt(u, f, b, g)
      /\ Fed(w.tr[f]) => Fed(u.tr[f])
      /\ \A E : Moving(w.tr[f], CallsOf(w, f), E) => Moving(u.tr[f], CallsOf(u, f), E)
  BY <1>2, <1>3, <1>5, AtRestSound, Zenon
<1>7. StepOf(s, u, f)
  BY <1>1, <1>5, StepOfTransitive, Zenon
<1> QED
  BY <1>1, <1>2, <1>6, <1>7, Zenon

\* A step of f whose new record is in order, once it is shown.
LEMMA CoreDone ==
  ASSUME NEW s \in Senders, NEW f \in Files, NEW w, NEW v, NEW C, NEW X, Core(s, w, f, v, C, X),
         NEW u, Shown(w, u),
         NEW b, NEW g, Sound(v, b, C, X, s.digesting[f], f \in s.posting, g),
         Fed(v), Moving(v, C, {})
  PROVE  Done(s, u, f, b, g)
BY CoreShown, Zenon DEF Done

\* fail and failAndNotify.
LEMMA FailDone ==
  ASSUME NEW s \in Senders, NEW f \in Files, NEW b, NEW g,
         s.tr[f].acked \subseteq g, s.digesting[f] = "no"
  PROVE  Done(s, fail(s, f), f, b, g) /\ Done(s, failAndNotify(s, f), f, b, g)
<1> DEFINE t == s.tr[f]
           v == Stopped(t, "failed")
           w == Put(s, f, v)
           u == emit(w, f)
           C == CallsOf(s, f)
           X == StraysOf(s, f)
<1>1. t \in Transfers
  BY RecordOf
<1>2. fail(s, f) = u
  BY ZenonT(30) DEF fail, NewTransfer, Put, Stopped, Senders, TransferMaps
<1>3. failAndNotify(s, f) = post(u, "cancel", f)
  BY <1>2, Zenon DEF failAndNotify
<1>4. /\ v \in Transfers /\ Sound(v, b, C, X, s.digesting[f], f \in s.posting, g)
      /\ Fed(v) /\ Moving(v, C, {})
  <2>1. "failed" \in {"cancelled", "failed"} /\ t.acked \subseteq g
    BY Zenon
  <2>2. /\ v \in Transfers /\ Sound(v, b, C, X, "no", f \in s.posting, g)
        /\ Fed(v) /\ Moving(v, C, {})
    <3> HIDE DEF t, C, X
    <3> QED
      BY <1>1, <2>1, StoppedSound, Zenon
  <2> QED
    BY <2>2, Zenon
<1> HIDE DEF v
<1>5. Core(s, w, f, v, C, X)
  BY <1>4, PutCore, Zenon
<1>6. w \in Senders
  BY <1>5 DEF Core, StepOf
<1> HIDE DEF w
<1>7. Shown(w, u)
  BY <1>6, EmitShown
<1>8. Shown(u, post(u, "cancel", f))
  <2>1. u \in Senders
    BY <1>7, Zenon DEF Shown
  <2> HIDE DEF u
  <2> QED
    BY <2>1, PostShown, Zenon
<1>9. Shown(w, post(u, "cancel", f))
  BY <1>6, <1>7, <1>8, ShownTransitive, Zenon
<1> HIDE DEF u, C, X
<1> QED
  BY <1>2, <1>3, <1>4, <1>5, <1>7, <1>9, CoreDone, Zenon

\* Overwrite.
LEMMA OverwriteCore ==
  ASSUME NEW s \in Senders, NEW f \in Files, NEW i \in Chunks, NEW e \in Slots
  PROVE  \E X : /\ X \subseteq StraysOf(s, f) \cup {i}
                /\ Core(s, Overwrite(s, f, i, e), f, [s.tr[f] EXCEPT !.inflight[i] = e],
                        CallsOf(s, f), X)
<1> DEFINE t == s.tr[f]
           v == [t EXCEPT !.inflight[i] = e]
           old == t.inflight[i]
           timer == [file |-> f, index |-> i, kind |-> old.state, attempts |-> old.attempts]
           w == Put(s, f, v)
           n == [w.stray EXCEPT ![timer] = @ + 1]
           u == [w EXCEPT !.stray = n]
<1>1. t \in Transfers
  BY RecordOf, Zenon
<1>2. v \in Transfers
  <2>1. [t.inflight EXCEPT ![i] = e] \in [Chunks -> Slots]
    BY <1>1 DEF Transfers
  <2> QED
    BY <1>1, <2>1, Zenon DEF Transfers
<1>3. Core(s, w, f, v, CallsOf(s, f), StraysOf(s, f))
  BY <1>2, PutCore, Zenon
<1>4. w \in Senders /\ StepOf(s, w, f) /\ w.tr[f] = v
  BY <1>3 DEF Core, StepOf
<1>5. Overwrite(s, f, i, e) = IF old.state \in Timed THEN u ELSE w
  BY Zenon DEF Overwrite, Timed, Put, Senders, TransferMaps
<1>6. CASE old.state \notin Timed
  BY <1>3, <1>5, <1>6
<1>7. CASE old.state \in Timed
  <2>1. old \in Slots
    BY <1>1 DEF Transfers
  <2> HIDE DEF old
  <2>2. timer \in Timer
    BY <1>7, <2>1 DEF Slots, Timed, Parked, Attempts, Timer, NoEntry
  <2>9. timer.file = f /\ timer.index = i
    OBVIOUS
  <2> HIDE DEF timer, w
  <2>3. w.stray \in StrayCounts
    BY <1>4 DEF Senders
  <2>4. n \in StrayCounts /\ \A x \in Timer : n[x] = IF x = timer THEN w.stray[x] + 1 ELSE w.stray[x]
    BY <2>2, <2>3 DEF StrayCounts
  <2> HIDE DEF n
  <2>5. /\ u \in Senders /\ u.tr = w.tr /\ u.globalPaused = w.globalPaused /\ u.calls = w.calls
        /\ u.digesting = w.digesting /\ u.posting = w.posting /\ u.stray = n
    BY <1>4, <2>4, Zenon DEF Senders
  <2> HIDE DEF u
  <2>6. StrayTimers(u) = StrayTimers(w) \cup {timer}
    <3>1. \A x \in Timer : w.stray[x] \in Nat
      BY <2>3 DEF StrayCounts
    <3> QED
      BY <2>2, <2>4, <2>5, <3>1 DEF StrayTimers
  <2>7. \A g \in Files : CallsOf(u, g) = CallsOf(w, g)
    BY <2>5 DEF CallsOf, Running
  <2>8. StraysOf(u, f) \subseteq StraysOf(w, f) \cup {i} /\ \A g \in Files \ {f} : StraysOf(u, g) = StraysOf(w, g)
    BY <2>6, <2>9 DEF StraysOf
  <2>10. StepOf(w, u, f)
    BY <2>5, <2>7, <2>8 DEF StepOf, AtRest, Offered
  <2>11. StepOf(s, u, f)
    BY <1>4, <2>10, StepOfTransitive, Zenon
  <2>12. Core(s, u, f, v, CallsOf(s, f), StraysOf(u, f))
    BY <1>3, <2>5, <2>7, <2>11, Zenon DEF Core
  <2>13. StraysOf(u, f) \subseteq StraysOf(s, f) \cup {i}
    BY <1>3, <2>8, Zenon DEF Core
  <2> QED
    BY <1>5, <1>7, <2>12, <2>13, Zenon
<1> QED
  BY <1>6, <1>7

\* Issue: the chunks of I get a call each.
Issued(t, I, a) ==
  [t EXCEPT !.inflight = [i \in Chunks |-> IF i \in I THEN Entry(a[i], "sending") ELSE t.inflight[i]]]

IsIssued(t, v, I) ==
  /\ v \in Transfers /\ Inflight(v) = Inflight(t) \cup I
  /\ v.status = t.status /\ v.here = t.here /\ v.accepted = t.accepted
  /\ v.paused = t.paused /\ v.cancelled = t.cancelled /\ v.next = t.next /\ v.acked = t.acked
  /\ \A i \in I : v.inflight[i].state = "sending"
  /\ \A i \in Chunks \ I : v.inflight[i] = t.inflight[i]

\* What Issue does to the record of its transfer.
LEMMA IssuedFacts ==
  ASSUME NEW t \in Transfers, NEW I \in SUBSET Chunks, NEW a \in [Chunks -> Nat]
  PROVE  IsIssued(t, Issued(t, I, a), I)
<1> DEFINE fl == [i \in Chunks |-> IF i \in I THEN Entry(a[i], "sending") ELSE t.inflight[i]]
           v == Issued(t, I, a)
<1>1. \A i \in I : Entry(a[i], "sending") \in Slots /\ Entry(a[i], "sending").state = "sending"
  BY DEF Entry, Slots, Parked
<1>2. t.inflight \in [Chunks -> Slots]
  BY DEF Transfers
<1>3. /\ fl \in [Chunks -> Slots]
      /\ \A i \in Chunks : /\ i \in I => fl[i].state = "sending"
                           /\ i \notin I => fl[i] = t.inflight[i]
  BY <1>1, <1>2
<1>4. v = [t EXCEPT !.inflight = fl]
  BY Zenon DEF Issued
<1> HIDE DEF fl, v
<1>5. /\ v \in Transfers /\ v.inflight = fl
      /\ v.status = t.status /\ v.here = t.here /\ v.accepted = t.accepted
      /\ v.paused = t.paused /\ v.cancelled = t.cancelled /\ v.next = t.next
      /\ v.acked = t.acked
  BY <1>3, <1>4, Zenon DEF Transfers
<1>6. Inflight(v) = Inflight(t) \cup I
  <2>1. NoEntry.state # "sending"
    BY DEF NoEntry
  <2>2. \A i \in Chunks : fl[i] # NoEntry <=> t.inflight[i] # NoEntry \/ i \in I
    BY <1>3, <2>1, Zenon
  <2> QED
    BY <1>5, <2>2, Zenon DEF Inflight
<1>7. /\ \A i \in I : v.inflight[i].state = "sending"
      /\ \A i \in Chunks \ I : v.inflight[i] = t.inflight[i]
  BY <1>3, <1>5, Zenon
<1> QED
  BY <1>5, <1>6, <1>7, Zenon DEF v, IsIssued

\* Issue as a step of f: a call for every chunk of I, then the view.
LEMMA IssueCore ==
  ASSUME NEW s \in Senders, NEW f \in Files, NEW I \in SUBSET Chunks, NEW a \in [Chunks -> Nat],
         \A i \in I : a[i] \in Attempts
  PROVE  \E w : /\ Core(s, w, f, Issued(s.tr[f], I, a), CallsOf(s, f) \cup I, StraysOf(s, f))
                /\ Shown(w, Issue(s, f, I, a))
<1> DEFINE t == s.tr[f]
           v == Issued(t, I, a)
           n == [c \in Call |-> IF c.file = f /\ c.index \in I /\ c.attempts = a[c.index]
                                  THEN s.calls[c] + 1 ELSE s.calls[c]]
           p == Put(s, f, v)
           w == [p EXCEPT !.calls = n]
<1>1. t \in Transfers
  BY RecordOf
<1>2. v \in Transfers
  BY <1>1, IssuedFacts, Zenon DEF IsIssued
<1>3. CASE I = {}
  <2>1. v = t
    <3>1. t.inflight \in [Chunks -> Slots]
      BY <1>1 DEF Transfers
    <3>2. [i \in Chunks |-> IF i \in I THEN Entry(a[i], "sending") ELSE t.inflight[i]] = t.inflight
      BY <1>3, <3>1
    <3> QED
      BY <1>1, <3>2, Zenon DEF Issued, Transfers
  <2>2. Issue(s, f, I, a) = s
    BY <1>3 DEF Issue
  <2>3. Shown(s, s) /\ StepOf(s, s, f)
    BY ShownSelf, ShownStepOf, Zenon
  <2>4. Core(s, s, f, v, CallsOf(s, f) \cup I, StraysOf(s, f))
    BY <1>3, <2>1, <2>3, Zenon DEF Core
  <2> QED
    BY <2>2, <2>3, <2>4, Zenon
<1>4. CASE I # {}
  <2>1. Issue(s, f, I, a) = emit(w, f)
    BY <1>4 DEF Issue, Put, Issued, Senders, TransferMaps, Transfers
  <2> HIDE DEF v
  <2>2. Core(s, p, f, v, CallsOf(s, f), StraysOf(s, f))
    BY <1>2, PutCore, Zenon
  <2>3. p \in Senders /\ StepOf(s, p, f) /\ p.tr[f] = v /\ p.calls = s.calls /\ s.calls \in CallCounts
    BY <2>2, Zenon DEF Core, StepOf, Put, Senders
  <2> HIDE DEF p
  <2>4. n \in CallCounts
    BY <2>3 DEF CallCounts
  <2>5. \A c \in Call : n[c] > 0 <=> s.calls[c] > 0 \/ (c.file = f /\ c.index \in I /\ c.attempts = a[c.index])
    BY <2>3 DEF CallCounts
  <2> HIDE DEF n
  <2>6. /\ w \in Senders /\ w.tr = p.tr /\ w.globalPaused = p.globalPaused /\ w.calls = n
        /\ w.digesting = p.digesting /\ w.posting = p.posting /\ w.stray = p.stray
    BY <2>3, <2>4, Zenon DEF Senders
  <2> HIDE DEF w
  <2>7. Running(w) = Running(p) \cup {c \in Call : c.file = f /\ c.index \in I /\ c.attempts = a[c.index]}
    BY <2>3, <2>5, <2>6, Zenon DEF Running
  <2>8. \A g \in Files : StraysOf(w, g) = StraysOf(p, g)
    BY <2>6 DEF StraysOf, StrayTimers
  <2>9. \A g \in Files \ {f} : CallsOf(w, g) = CallsOf(p, g)
    BY <2>7 DEF CallsOf
  <2>10. CallsOf(w, f) = CallsOf(p, f) \cup I
    <3>1. ASSUME NEW i \in I PROVE \E c \in Running(w) : c.file = f /\ c.index = i
      <4> DEFINE c == [file |-> f, index |-> i, attempts |-> a[i]]
      <4>1. c \in Call /\ c.file = f /\ c.index = i /\ c.attempts = a[i]
        BY DEF Call, Attempts
      <4> HIDE DEF c
      <4> QED
        BY <2>7, <4>1
    <3>2. CallsOf(w, f) \subseteq CallsOf(p, f) \cup I
      BY <2>7 DEF CallsOf
    <3>3. CallsOf(p, f) \subseteq CallsOf(w, f)
      BY <2>7 DEF CallsOf
    <3>4. I \subseteq CallsOf(w, f)
      BY <3>1 DEF CallsOf
    <3> QED
      BY <3>2, <3>3, <3>4
  <2>11. StepOf(p, w, f)
    BY <2>6, <2>8, <2>9 DEF StepOf, AtRest, Offered
  <2>12. StepOf(s, w, f)
    BY <2>3, <2>11, StepOfTransitive, Zenon
  <2>13. Core(s, w, f, v, CallsOf(s, f) \cup I, StraysOf(s, f))
    BY <2>2, <2>6, <2>8, <2>10, <2>12, Zenon DEF Core
  <2>14. Shown(w, emit(w, f))
    BY <2>6, EmitShown
  <2> QED
    BY <2>1, <2>13, <2>14 DEF v
<1> QED
  BY <1>3, <1>4, Zenon

\* A call or a stray timer is taken away.
LEMMA CallGone ==
  ASSUME NEW s \in Senders, NEW c \in Running(s)
  PROVE  \E C : /\ CallsOf(s, c.file) \subseteq C \cup {c.index} /\ C \subseteq CallsOf(s, c.file)
                /\ Core(s, [s EXCEPT !.calls[c] = @ - 1], c.file, s.tr[c.file], C, StraysOf(s, c.file))
<1> DEFINE f == c.file
           n == [s.calls EXCEPT ![c] = @ - 1]
           u == [s EXCEPT !.calls = n]
<1>1. c \in Call /\ s.calls[c] > 0 /\ s.calls \in CallCounts /\ f \in Files
  BY DEF Running, Senders, Call
<1>2. [s EXCEPT !.calls[c] = @ - 1] = u
  BY DEF Senders
<1>3. n \in CallCounts
  BY <1>1 DEF CallCounts
<1>4. \A d \in Call : /\ n[d] > 0 => s.calls[d] > 0
                      /\ s.calls[d] > 0 => n[d] > 0 \/ d = c
  BY <1>1 DEF CallCounts
<1> HIDE DEF n
<1>5. /\ u \in Senders /\ u.tr = s.tr /\ u.globalPaused = s.globalPaused /\ u.calls = n
      /\ u.digesting = s.digesting /\ u.posting = s.posting /\ u.stray = s.stray
  BY <1>3 DEF Senders
<1> HIDE DEF u
<1>6. Running(u) \subseteq Running(s) /\ Running(s) \subseteq Running(u) \cup {c}
  BY <1>4, <1>5 DEF Running
<1>7. \A g \in Files : StraysOf(u, g) = StraysOf(s, g)
  BY <1>5 DEF StraysOf, StrayTimers
<1>8. \A g \in Files \ {f} : CallsOf(u, g) = CallsOf(s, g)
  BY <1>6 DEF CallsOf
<1>9. CallsOf(s, f) \subseteq CallsOf(u, f) \cup {c.index} /\ CallsOf(u, f) \subseteq CallsOf(s, f)
  BY <1>6 DEF CallsOf
<1>10. StepOf(s, u, f)
  BY <1>5, <1>7, <1>8, Zenon DEF StepOf, AtRest, Offered
<1>11. Core(s, u, f, s.tr[f], CallsOf(u, f), StraysOf(s, f))
  BY <1>1, <1>5, <1>7, <1>10, Zenon DEF Core
<1> QED
  BY <1>2, <1>9, <1>11, Zenon

\* The same for a stray timer.
LEMMA StrayGone ==
  ASSUME NEW s \in Senders, NEW x \in StrayTimers(s)
  PROVE  \E X : /\ X \subseteq StraysOf(s, x.file)
                /\ Core(s, [s EXCEPT !.stray[x] = @ - 1], x.file, s.tr[x.file], CallsOf(s, x.file), X)
<1> DEFINE f == x.file
           n == [s.stray EXCEPT ![x] = @ - 1]
           u == [s EXCEPT !.stray = n]
<1>1. x \in Timer /\ s.stray[x] > 0 /\ s.stray \in StrayCounts /\ f \in Files
  BY DEF StrayTimers, Senders, Timer
<1>2. [s EXCEPT !.stray[x] = @ - 1] = u
  BY DEF Senders
<1>3. n \in StrayCounts
  BY <1>1 DEF StrayCounts
<1>4. \A d \in Timer : /\ n[d] > 0 => s.stray[d] > 0
                       /\ s.stray[d] > 0 => n[d] > 0 \/ d = x
  BY <1>1 DEF StrayCounts
<1> HIDE DEF n
<1>5. /\ u \in Senders /\ u.tr = s.tr /\ u.globalPaused = s.globalPaused /\ u.calls = s.calls
      /\ u.digesting = s.digesting /\ u.posting = s.posting /\ u.stray = n
  BY <1>3 DEF Senders
<1> HIDE DEF u
<1>6. StrayTimers(u) \subseteq StrayTimers(s) /\ StrayTimers(s) \subseteq StrayTimers(u) \cup {x}
  BY <1>4, <1>5 DEF StrayTimers
<1>7. \A g \in Files : CallsOf(u, g) = CallsOf(s, g)
  BY <1>5 DEF CallsOf, Running
<1>8. \A g \in Files \ {f} : StraysOf(u, g) = StraysOf(s, g)
  BY <1>6 DEF StraysOf
<1>9. StraysOf(u, f) \subseteq StraysOf(s, f)
  BY <1>6 DEF StraysOf
<1>10. StepOf(s, u, f)
  BY <1>5, <1>7, <1>8, Zenon DEF StepOf, AtRest, Offered
<1>11. Core(s, u, f, s.tr[f], CallsOf(s, f), StraysOf(u, f))
  BY <1>1, <1>5, <1>7, <1>10, Zenon DEF Core
<1> QED
  BY <1>2, <1>9, <1>11, Zenon

-----------------------------------------------------------------------------
(* sendChunk and scheduleRetry. *)

\* v is t with another entry for chunk i.
Slotted(t, v, i) ==
  /\ v \in Transfers /\ v.inflight[i] # NoEntry
  /\ v.status = t.status /\ v.here = t.here /\ v.accepted = t.accepted
  /\ v.paused = t.paused /\ v.cancelled = t.cancelled /\ v.next = t.next /\ v.acked = t.acked
  /\ \A j \in Chunks \ {i} : v.inflight[j] = t.inflight[j]

\* What happens to a chunk that was issued and not acknowledged keeps the window.
LEMMA SlottedSound ==
  ASSUME NEW t \in Transfers, NEW v, NEW i \in Chunks, Slotted(t, v, i),
         NEW b, NEW C, NEW X, NEW d, NEW p, NEW g, Sound(t, b, C, X, d, p, g),
         t.status # "none", ~t.cancelled, i \notin t.acked, t.here => i < t.next,
         NEW D, NEW Y, D \subseteq C \cup {i}, Y \subseteq X \cup {i}
  PROVE  /\ Sound(v, b, D, Y, d, p, g)
         /\ Fed(t) => Fed(v)
         /\ \A j \in Chunks \ {i} : j \in Inflight(v) => j \in Inflight(t)
<1>1. Inflight(v) = Inflight(t) \cup {i}
  BY Zenon DEF Slotted, Inflight
<1>2. ASSUME t.here PROVE Live(v, b, D, Y) /\ Inflight(v) = Inflight(t)
  <2>1. Windowed(t, C, X) /\ Live(t, b, C, X)
    BY <1>2 DEF Sound, Live
  <2>2. i \in 0..(t.next - 1)
    BY <1>2 DEF Chunks, Transfers
  <2>3. Inflight(v) = Inflight(t)
    BY <1>1, <2>1, <2>2, Zenon DEF Windowed
  <2>4. Windowed(v, D, Y)
    BY <2>1, <2>2, <2>3, Zenon DEF Windowed, Slotted
  <2> QED
    BY <2>1, <2>3, <2>4, Zenon DEF Live, Slotted
<1>3. Sound(v, b, D, Y, d, p, g)
  BY <1>2, Zenon DEF Sound, Slotted
<1>4. Fed(t) => Fed(v)
  BY <1>2, Zenon DEF Fed, Slotted
<1> QED
  BY <1>1, <1>3, <1>4, Zenon

\* The new entry has a timer or a call, or is held while the transfer is paused.
Carried(v, i, D) ==
  v.here /\ v.status \in {"sending", "paused"} =>
    \/ v.inflight[i].state \in Timed
    \/ v.inflight[i].state = "sending" /\ i \in D
    \/ v.inflight[i].state = "hold" /\ v.status = "paused"

\* Nothing in flight is forgotten when chunk i gets another entry.
LEMMA SlottedMoving ==
  ASSUME NEW t \in Transfers, NEW v, NEW i \in Chunks, Slotted(t, v, i),
         NEW C, Moving(t, C, {i}), NEW D, C \subseteq D \cup {i}, Carried(v, i, D),
         \A j \in Chunks \ {i} : j \in Inflight(v) => j \in Inflight(t)
  PROVE  Moving(v, D, {})
<1> SUFFICES ASSUME v.here, v.status \in {"sending", "paused"}, NEW j \in Inflight(v)
             PROVE  \/ v.inflight[j].state \in Timed
                    \/ v.inflight[j].state = "sending" /\ j \in D
                    \/ v.inflight[j].state = "hold" /\ v.status = "paused"
  BY DEF Moving
<1>1. CASE j = i
  BY <1>1, Zenon DEF Carried
<1>2. CASE j # i
  <2>1. j \in Chunks \ {i}
    BY <1>2, Zenon DEF Inflight
  <2>2. j \in Inflight(t) \ {i} /\ v.inflight[j] = t.inflight[j]
    BY <2>1, Zenon DEF Slotted
  <2>3. t.here /\ t.status = v.status
    BY Zenon DEF Slotted
  <2>4. \/ t.inflight[j].state \in Timed
        \/ t.inflight[j].state = "sending" /\ j \in C
        \/ t.inflight[j].state = "hold" /\ t.status = "paused"
    BY <2>2, <2>3 DEF Moving
  <2> QED
    BY <1>2, <2>2, <2>3, <2>4, Zenon
<1> QED
  BY <1>1, <1>2, Zenon

\* Assigning an entry of inflight changes that entry only.
LEMMA EntrySlotted ==
  ASSUME NEW t \in Transfers, NEW i \in Chunks, NEW e \in Slots, e # NoEntry
  PROVE  /\ Slotted(t, [t EXCEPT !.inflight[i] = e], i)
         /\ [t EXCEPT !.inflight[i] = e].inflight[i] = e
<1> DEFINE fl == [t.inflight EXCEPT ![i] = e]
           v == [t EXCEPT !.inflight = fl]
<1>1. t.inflight \in [Chunks -> Slots]
  BY DEF Transfers
<1>2. fl \in [Chunks -> Slots] /\ fl[i] = e /\ \A j \in Chunks \ {i} : fl[j] = t.inflight[j]
  BY <1>1
<1>3. [t EXCEPT !.inflight[i] = e] = v
  BY DEF Transfers
<1> HIDE DEF fl
<1>4. /\ v \in Transfers /\ v.inflight = fl
      /\ v.status = t.status /\ v.here = t.here /\ v.accepted = t.accepted
      /\ v.paused = t.paused /\ v.cancelled = t.cancelled /\ v.next = t.next /\ v.acked = t.acked
  BY <1>2 DEF Transfers
<1> HIDE DEF v
<1>5. Slotted(t, v, i) /\ v.inflight[i] = e
  BY <1>2, <1>4, Zenon DEF Slotted
<1> QED
  BY <1>3, <1>5, Zenon

\* The state in which something happens to chunk i of f, whose entry may have lost
\* its timer or its call.
Ready(s, f, i, g) ==
  /\ s \in Senders /\ SoundAt(s, f, s.globalPaused, g)
  /\ Moving(s.tr[f], CallsOf(s, f), {i}) /\ Fed(s.tr[f])
  /\ s.tr[f].status # "none"
  /\ s.tr[f].here /\ ~s.tr[f].cancelled => i < s.tr[f].next

\* Nothing is left to do for a chunk that was acknowledged, or of a transfer that
\* has ended.
LEMMA NothingToDo ==
  ASSUME NEW s, NEW f \in Files, NEW i \in Chunks, NEW g, Ready(s, f, i, g),
         s.tr[f].cancelled \/ i \in s.tr[f].acked
  PROVE  Done(s, s, f, s.globalPaused, g)
<1>1. s \in Senders
  BY DEF Ready
<1>2. StepOf(s, s, f)
  BY <1>1, ShownSelf, ShownStepOf, Zenon
<1>3. Moving(s.tr[f], CallsOf(s, f), {})
  <2> DEFINE t == s.tr[f]
             C == CallsOf(s, f)
             X == StraysOf(s, f)
             d == s.digesting[f]
             p == f \in s.posting
  <2>1. Sound(t, s.globalPaused, C, X, d, p, g) /\ Moving(t, C, {i})
    BY Zenon DEF Ready, SoundAt
  <2>2. t.here /\ t.status \in {"sending", "paused"} => i \notin Inflight(t)
    <3> HIDE DEF t, C, X, d, p
    <3>1. t.cancelled \/ i \in t.acked
      BY Zenon DEF t
    <3> QED
      BY <2>1, <3>1, Zenon DEF Sound, Live, Windowed
  <2> QED
    BY <2>1, <2>2, Zenon DEF Moving
<1> QED
  BY <1>1, <1>2, <1>3, Zenon DEF Done, Ready

\* A step of f that gives chunk i another entry, and is shown.
Renews(s, f, i, u, w, v, D, Y) ==
  /\ Slotted(s.tr[f], v, i) /\ Carried(v, i, D)
  /\ CallsOf(s, f) \subseteq D \cup {i} /\ D \subseteq CallsOf(s, f) \cup {i}
  /\ Y \subseteq StraysOf(s, f) \cup {i}
  /\ Core(s, w, f, v, D, Y) /\ Shown(w, u)

\* Such a step keeps all that f has to satisfy.
LEMMA SlottedDone ==
  ASSUME NEW s, NEW f \in Files, NEW i \in Chunks, NEW g, Ready(s, f, i, g),
         ~(s.tr[f].cancelled \/ i \in s.tr[f].acked),
         NEW u, NEW w, NEW v, NEW D, NEW Y, Renews(s, f, i, u, w, v, D, Y)
  PROVE  Done(s, u, f, s.globalPaused, g)
<1>0. /\ Slotted(s.tr[f], v, i) /\ Carried(v, i, D)
      /\ CallsOf(s, f) \subseteq D \cup {i} /\ D \subseteq CallsOf(s, f) \cup {i}
      /\ Y \subseteq StraysOf(s, f) \cup {i}
      /\ Core(s, w, f, v, D, Y) /\ Shown(w, u)
  BY Zenon DEF Renews
<1> DEFINE t == s.tr[f]
           b == s.globalPaused
           C == CallsOf(s, f)
           X == StraysOf(s, f)
           d == s.digesting[f]
           p == f \in s.posting
<1>1. s \in Senders /\ t \in Transfers
  BY RecordOf, Zenon DEF Ready
<1>2. /\ Sound(t, b, C, X, d, p, g) /\ Moving(t, C, {i}) /\ Fed(t) /\ t.status # "none"
      /\ t.here => i < t.next
  BY Zenon DEF Ready, SoundAt
<1>3. Slotted(t, v, i) /\ ~t.cancelled /\ i \notin t.acked /\ C \subseteq D \cup {i}
      /\ D \subseteq C \cup {i} /\ Y \subseteq X \cup {i} /\ Carried(v, i, D)
  BY <1>0
<1> HIDE DEF t, C, X, b, d, p
<1>4. /\ Sound(v, b, D, Y, d, p, g) /\ Fed(v)
      /\ \A j \in Chunks \ {i} : j \in Inflight(v) => j \in Inflight(t)
  BY <1>1, <1>2, <1>3, SlottedSound, Zenon
<1>5. Moving(v, D, {})
  BY <1>1, <1>2, <1>3, <1>4, SlottedMoving, Zenon
<1>6. Sound(v, b, D, Y, s.digesting[f], f \in s.posting, g)
  BY <1>4 DEF d, p
<1>7. Done(s, u, f, b, g)
  BY <1>0, <1>1, <1>4, <1>5, <1>6, CoreDone, Zenon
<1> QED
  BY <1>7 DEF b

\* While f sends, neither it nor the sender is paused.
LEMMA SendingUnpaused ==
  ASSUME NEW s, NEW f \in Files, NEW i, NEW g, Ready(s, f, i, g), IsPaused(s, f)
  PROVE  ~(s.tr[f].here /\ s.tr[f].status = "sending")
BY Zenon DEF Ready, SoundAt, Sound, Live, IsPaused

\* sendChunk up to its first await.
LEMMA SendChunkDone ==
  ASSUME NEW s, NEW f \in Files, NEW i \in Chunks, NEW g, Ready(s, f, i, g), NEW a \in Nat \ {0}
  PROVE  Done(s, sendChunk(s, f, i, a), f, s.globalPaused, g)
<1> DEFINE t == s.tr[f]
           u == sendChunk(s, f, i, a)
<1>0. s \in Senders /\ t \in Transfers
  BY RecordOf, Zenon DEF Ready
<1>1. CASE t.cancelled \/ i \in t.acked
  <2>1. u = s
    BY <1>1, Zenon DEF sendChunk
  <2> QED
    BY <1>1, <2>1, NothingToDo, Zenon
<1>2. CASE ~(t.cancelled \/ i \in t.acked) /\ IsPaused(s, f)
  <2> DEFINE e == Entry(a, "hold")
             v == [t EXCEPT !.inflight[i] = e]
  <2>1. e \in Slots /\ e # NoEntry /\ e.state = "hold"
    BY Zenon DEF Entry, NoEntry, Slots, Parked
  <2>2. u = Overwrite(s, f, i, e)
    BY <1>2, Zenon DEF sendChunk
  <2> HIDE DEF e, u
  <2>3. PICK Y : Y \subseteq StraysOf(s, f) \cup {i} /\ Core(s, u, f, v, CallsOf(s, f), Y)
    BY <1>0, <2>1, <2>2, OverwriteCore
  <2>4. Slotted(t, v, i) /\ v.inflight[i] = e
    BY <1>0, <2>1, EntrySlotted
  <2>5. Carried(v, i, CallsOf(s, f))
    BY <1>2, <2>1, <2>4, SendingUnpaused DEF Carried, Slotted
  <2>6. Shown(u, u)
    BY <2>3, ShownSelf DEF Core, StepOf
  <2>7. CallsOf(s, f) \subseteq CallsOf(s, f) \cup {i}
    OBVIOUS
  <2> HIDE DEF v
  <2> QED
    <3>1. Renews(s, f, i, u, u, v, CallsOf(s, f), Y)
      BY <2>3, <2>4, <2>5, <2>6, <2>7, Zenon DEF Renews
    <3> QED
      BY <1>2, <3>1, SlottedDone, Zenon DEF u
<1>3. CASE ~(t.cancelled \/ i \in t.acked) /\ ~IsPaused(s, f) /\ a > MaxRetries + 1
  <2>1. u = failAndNotify(s, f)
    BY <1>3, Zenon DEF sendChunk
  <2>2. t.acked \subseteq g /\ s.digesting[f] = "no"
    BY DEF Ready, SoundAt, Sound
  <2> QED
    BY <1>0, <2>1, <2>2, FailDone, Zenon
<1>4. CASE ~(t.cancelled \/ i \in t.acked) /\ ~IsPaused(s, f) /\ ~(a > MaxRetries + 1)
  <2> DEFINE as == [j \in Chunks |-> a]
             v == Issued(t, {i}, as)
             C == CallsOf(s, f)
  <2>1. u = Issue(s, f, {i}, as)
    BY <1>4, Zenon DEF sendChunk
  <2>2. as \in [Chunks -> Nat] /\ \A j \in {i} : as[j] \in Attempts
    BY <1>4, FileSenderAssumption DEF Attempts
  <2> HIDE DEF as, u
  <2>3. PICK w : Core(s, w, f, v, C \cup {i}, StraysOf(s, f)) /\ Shown(w, u)
    BY <1>0, <2>1, <2>2, IssueCore, Zenon
  <2>4. Slotted(t, v, i) /\ v.inflight[i].state = "sending"
    <3>1. IsIssued(t, v, {i})
      BY <1>0, <2>2, IssuedFacts, Zenon
    <3> HIDE DEF v
    <3>2. v.inflight[i].state = "sending" /\ \A j \in Chunks \ {i} : v.inflight[j] = t.inflight[j]
      BY <3>1, Zenon DEF IsIssued
    <3>3. v.inflight[i] # NoEntry
      BY <3>2 DEF NoEntry
    <3> QED
      BY <3>1, <3>2, <3>3 DEF Slotted, IsIssued
  <2>5. Carried(v, i, C \cup {i})
    BY <2>4, Zenon DEF Carried
  <2>6. Renews(s, f, i, u, w, v, C \cup {i}, StraysOf(s, f))
    BY <2>3, <2>4, <2>5, Zenon DEF Renews
  <2> HIDE DEF v
  <2> QED
    BY <1>4, <2>6, SlottedDone, Zenon DEF u
<1> QED
  BY <1>1, <1>2, <1>3, <1>4, Zenon

\* scheduleRetry.
LEMMA ScheduleRetryDone ==
  ASSUME NEW s, NEW f \in Files, NEW i \in Chunks, NEW g, Ready(s, f, i, g), NEW n \in Nat, n > 1
  PROVE  Done(s, scheduleRetry(s, f, i, n), f, s.globalPaused, g)
<1> DEFINE t == s.tr[f]
           u == scheduleRetry(s, f, i, n)
<1>0. s \in Senders /\ t \in Transfers
  BY RecordOf, Zenon DEF Ready
<1>1. CASE t.cancelled \/ i \in t.acked
  <2>1. u = s
    BY <1>1 DEF scheduleRetry
  <2> QED
    BY <1>1, <2>1, NothingToDo
<1>3. CASE ~(t.cancelled \/ i \in t.acked) /\ n > MaxRetries + 1
  <2>1. u = failAndNotify(s, f)
    BY <1>3, Zenon DEF scheduleRetry
  <2>2. t.acked \subseteq g /\ s.digesting[f] = "no"
    BY DEF Ready, SoundAt, Sound
  <2> QED
    BY <1>0, <2>1, <2>2, FailDone, Zenon
<1>4. CASE ~(t.cancelled \/ i \in t.acked) /\ ~(n > MaxRetries + 1)
  <2> DEFINE st == IF IsPaused(s, f) THEN "hold" ELSE "retry"
             e == Entry(n - 1, st)
             v == [t EXCEPT !.inflight[i] = e]
             w == Put(s, f, v)
             C == CallsOf(s, f)
  <2>1. e \in Slots /\ e # NoEntry /\ e.state = st
    BY <1>4, FileSenderAssumption DEF Entry, NoEntry, Slots, Parked, Timed, Attempts
  <2>2. u = emit(w, f)
    BY <1>4 DEF scheduleRetry, Put, Senders, TransferMaps, Transfers
  <2>3. st = "retry" \/ (st = "hold" /\ IsPaused(s, f))
    OBVIOUS
  <2> HIDE DEF e, u, st
  <2>4. Slotted(t, v, i) /\ v.inflight[i] = e
    BY <1>0, <2>1, EntrySlotted
  <2>5. Carried(v, i, C)
    <3>1. IsPaused(s, f) => ~(t.here /\ t.status = "sending")
      BY SendingUnpaused, Zenon
    <3>2. v.here = t.here /\ v.status = t.status
      BY <2>4, Zenon DEF Slotted
    <3> HIDE DEF v, t
    <3> QED
      BY <2>1, <2>3, <2>4, <3>1, <3>2, Zenon DEF Carried, Timed
  <2> HIDE DEF v
  <2>6. Core(s, w, f, v, C, StraysOf(s, f))
    BY <1>0, <2>4, PutCore, Zenon DEF Slotted
  <2> HIDE DEF w
  <2>7. Shown(w, u)
    BY <2>2, <2>6, EmitShown, Zenon DEF Core, StepOf
  <2>8. Renews(s, f, i, u, w, v, C, StraysOf(s, f))
    BY <2>4, <2>5, <2>6, <2>7, Zenon DEF Renews
  <2> QED
    BY <1>4, <2>8, SlottedDone, Zenon DEF u
<1> QED
  BY <1>1, <1>3, <1>4, Zenon

-----------------------------------------------------------------------------
(* pump. *)

\* What is in flight can be counted.
LEMMA InflightFinite ==
  ASSUME NEW t
  PROVE  /\ IsFiniteSet(Inflight(t)) /\ Cardinality(Inflight(t)) \in Nat
         /\ Cardinality(Inflight(t)) = 0 <=> Inflight(t) = {}
<1>1. IsFiniteSet(Chunks)
  BY FileSenderAssumption, FS_Interval DEF Chunks
<1>2. Inflight(t) \in SUBSET Chunks
  BY DEF Inflight
<1>3. IsFiniteSet(Inflight(t))
  BY <1>1, <1>2, FS_Subset, Zenon
<1> QED
  BY <1>3, FS_CardinalityType, FS_EmptySet, Zenon

\* Room is the chunks from next on that the window has room for.
LEMMA RoomFacts ==
  ASSUME NEW t \in Transfers, Cardinality(Inflight(t)) <= Window
  PROVE  \E k \in Nat :
           /\ Cardinality(Room(t)) = k /\ Room(t) = t.next..(t.next + k - 1)
           /\ IsFiniteSet(Room(t))
           /\ t.next + k <= Total /\ Cardinality(Inflight(t)) + k <= Window
           /\ k = 0 /\ Inflight(t) = {} => t.next = Total
<1> DEFINE c == Cardinality(Inflight(t))
           n == t.next
           k == IF n + Window - c <= Total THEN Window - c ELSE Total - n
<1>1. c \in Nat /\ (c = 0 <=> Inflight(t) = {}) /\ c <= Window
  BY InflightFinite, Zenon
<1>2. n \in 0..Total /\ Total \in Nat \ {0} /\ Window \in Nat \ {0}
  BY FileSenderAssumption DEF Transfers
<1>3. Room(t) = {i \in n..(Total - 1) : i < n + Window - c}
  BY DEF Room
<1> HIDE DEF c, n
<1>4. k \in Nat /\ n + k <= Total /\ c + k <= Window /\ (k = 0 /\ c = 0 => n = Total)
  BY <1>1, <1>2
<1>5. Room(t) = n..(n + k - 1)
  BY <1>1, <1>2, <1>3
<1> HIDE DEF k
<1>6. IsFiniteSet(n..(n + k - 1)) /\ Cardinality(n..(n + k - 1)) = k
  <2>1. n \in Int /\ n + k - 1 \in Int /\ (n > n + k - 1 <=> k = 0) /\ (n + k - 1) - n + 1 = k
    BY <1>2, <1>4
  <2> DEFINE z == n + k - 1
  <2>2. IsFiniteSet(n..z) /\ Cardinality(n..z) = IF n > z THEN 0 ELSE z - n + 1
    <3> HIDE DEF z
    <3> QED
      BY <2>1, FS_Interval, Zenon DEF z
  <2> QED
    BY <2>1, <2>2
<1> QED
  BY <1>1, <1>4, <1>5, <1>6, Zenon DEF c, n

\* A step of f after one of f.
LEMMA DoneAfter ==
  ASSUME NEW s \in Senders, NEW f \in Files, NEW u, StepOf(s, u, f),
         NEW x, NEW b, NEW g, Done(u, x, f, b, g)
  PROVE  Done(s, x, f, b, g)
<1>1. StepOf(s, x, f)
  BY StepOfTransitive, Zenon DEF Done
<1> QED
  BY <1>1, Zenon DEF Done

\* completeIfDone: a transfer with nothing left in flight is complete.
LEMMA CompleteDone ==
  ASSUME NEW s \in Senders, NEW f \in Files, NEW b, NEW g,
         SoundAt(s, f, b, g), Moving(s.tr[f], CallsOf(s, f), {}),
         s.tr[f].here,
         s.tr[f].status = "sending" /\ Inflight(s.tr[f]) = {} => s.tr[f].next = Total
  PROVE  Done(s, completeIfDone(s, f), f, b, g)
<1> DEFINE t == s.tr[f]
           C == CallsOf(s, f)
           X == StraysOf(s, f)
           d == s.digesting[f]
           p == f \in s.posting
           stop == t.cancelled \/ t.next < Total \/ Inflight(t) # {} \/ t.acked # Chunks
           v == [t EXCEPT !.status = "completed"]
           w == Put(s, f, v)
           u == emit(w, f)
<1>1. t \in Transfers
  BY RecordOf
<1>2. Sound(t, b, C, X, d, p, g) /\ Live(t, b, C, X) /\ Moving(t, C, {}) /\ t.status # "none"
  BY Zenon DEF SoundAt, Sound, Live
<1>3. CASE stop
  <2>1. completeIfDone(s, f) = s
    BY <1>3, Zenon DEF completeIfDone
  <2>2. Fed(t)
    <3> HIDE DEF C, X, d, p
    <3> SUFFICES ASSUME t.status = "sending", Inflight(t) = {} PROVE FALSE
      BY Zenon DEF Fed
    <3>1. ~t.cancelled /\ t.next = Total
      BY <1>2, Zenon DEF Sound
    <3>2. t.acked = 0..(Total - 1)
      BY <1>2, <3>1, Zenon DEF Live, Windowed
    <3> QED
      BY <1>3, <3>1, <3>2, FileSenderAssumption DEF Chunks
  <2>3. StepOf(s, s, f)
    BY ShownSelf, ShownStepOf, Zenon
  <2> QED
    BY <2>1, <2>2, <2>3, Zenon DEF Done
<1>4. CASE ~stop
  <2>1. completeIfDone(s, f) = post(u, "complete", f)
    BY <1>4 DEF completeIfDone, Put, Senders, TransferMaps, Transfers
  <2>2. /\ v \in Transfers /\ v.status = "completed" /\ v.acked = t.acked /\ v.next = t.next
        /\ v.inflight = t.inflight /\ v.cancelled = t.cancelled /\ v.here = t.here
    BY <1>1, Zenon DEF Transfers, Statuses
  <2> HIDE DEF v
  <2>3. Inflight(v) = Inflight(t)
    BY <2>2 DEF Inflight
  <2>4. Core(s, w, f, v, C, X)
    BY <2>2, PutCore, Zenon
  <2> HIDE DEF C, X, w
  <2>5. Sound(v, b, C, X, d, p, g)
    <3> HIDE DEF d, p
    <3> QED
      BY <1>2, <1>4, <2>2, <2>3, Zenon DEF Sound, Live, Windowed
  <2>6. Fed(v) /\ Moving(v, C, {})
    BY <2>2 DEF Fed, Moving
  <2>7. w \in Senders
    BY <2>4, Zenon DEF Core, StepOf
  <2>8. Shown(w, u) /\ u \in Senders
    BY <2>7, EmitShown, Zenon DEF Shown
  <2> HIDE DEF u
  <2>9. Shown(w, post(u, "complete", f))
    BY <2>7, <2>8, PostShown, ShownTransitive, Zenon
  <2> QED
    BY <2>1, <2>4, <2>5, <2>6, <2>9, CoreDone, Zenon
<1> QED
  BY <1>3, <1>4, Zenon

\* A step of f after a step of f.
LEMMA CoreAfter ==
  ASSUME NEW s \in Senders, NEW f \in Files, NEW w, NEW v, NEW C, NEW X, Core(s, w, f, v, C, X),
         NEW x, NEW y, NEW D, NEW Y, Core(w, x, f, y, D, Y)
  PROVE  Core(s, x, f, y, D, Y)
<1>1. StepOf(s, x, f)
  BY StepOfTransitive, Zenon DEF Core
<1> QED
  BY <1>1, Zenon DEF Core

\* pump moves next on, and issues the chunks I.
Pumps(t, m, v, I) ==
  /\ t.here /\ t.status = "sending"
  /\ m = [t EXCEPT !.next = t.next + Cardinality(Room(t))]
  /\ I = Room(t) \ t.acked
  /\ m \in Transfers => IsIssued(m, v, I)

Pumped(v, b, C, X, d, p, g) ==
  /\ Sound(v, b, C, X, d, p, g) /\ Moving(v, C, {})
  /\ v.here /\ v.status = "sending"
  /\ Inflight(v) = {} => v.next = Total

\* The k chunks from n on, when what is acknowledged or in flight ends before n.
LEMMA SegmentFacts ==
  ASSUME NEW n \in Nat, NEW k \in Nat, NEW total \in Nat, n + k <= total,
         NEW A, NEW F, A \cup F = 0..(n - 1), A \cap F = {}, NEW J, J = n..(n + k - 1)
  PROVE  /\ J \ A = J /\ J \subseteq 0..(total - 1)
         /\ F \cap J = {} /\ F \subseteq 0..(n - 1)
         /\ A \cup (F \cup J) = 0..(n + k - 1) /\ A \cap (F \cup J) = {}
<1>1. J \cap 0..(n - 1) = {} /\ 0..(n - 1) \cup J = 0..(n + k - 1) /\ J \subseteq 0..(total - 1)
  OBVIOUS
<1>2. J \cap A = {} /\ F \cap J = {} /\ F \subseteq 0..(n - 1)
  BY <1>1, Zenon
<1>3. J \ A = J
  BY <1>2, Zenon
<1>4. A \cup (F \cup J) = (A \cup F) \cup J
  BY Zenon
<1>5. A \cap (F \cup J) = {}
  BY <1>2, Zenon
<1>6. A \cup (F \cup J) = 0..(n + k - 1)
  BY <1>1, <1>4, Zenon
<1> QED
  BY <1>1, <1>2, <1>3, <1>5, <1>6, Zenon

\* The window after pump issued the chunks of Room.
LEMMA PumpedSound ==
  ASSUME NEW t \in Transfers, NEW b, NEW C, NEW X, NEW d, NEW p, NEW g,
         Sound(t, b, C, X, d, p, g), Moving(t, C, {}),
         NEW m, NEW v, NEW I, Pumps(t, m, v, I)
  PROVE  m \in Transfers /\ I \subseteq Chunks /\ Pumped(v, b, C \cup I, X, d, p, g)
<1>0. /\ t.here /\ t.status = "sending"
      /\ m = [t EXCEPT !.next = t.next + Cardinality(Room(t))]
      /\ I = Room(t) \ t.acked /\ (m \in Transfers => IsIssued(m, v, I))
  BY Zenon DEF Pumps
<1>1. Live(t, b, C, X) /\ ~t.cancelled
  BY <1>0, Zenon DEF Sound
<1>2. Windowed(t, C, X) /\ Cardinality(Inflight(t)) <= Window
  BY <1>1 DEF Live, Windowed
<1> DEFINE n == t.next
           F == Inflight(t)
<1>3. PICK k \in Nat :
           /\ Cardinality(Room(t)) = k /\ Room(t) = n..(n + k - 1)
           /\ IsFiniteSet(Room(t))
           /\ n + k <= Total /\ Cardinality(F) + k <= Window
           /\ k = 0 /\ F = {} => n = Total
  BY <1>2, RoomFacts, Zenon
<1>4. n \in Nat /\ n <= Total /\ Total \in Nat
  BY FileSenderAssumption DEF Transfers
<1>5. /\ m \in Transfers /\ m.next = n + k
      /\ m.status = t.status /\ m.here = t.here /\ m.accepted = t.accepted
      /\ m.paused = t.paused /\ m.cancelled = t.cancelled /\ m.inflight = t.inflight
      /\ m.acked = t.acked
  <2>1. n + k \in 0..Total
    BY <1>3, <1>4
  <2> QED
    BY <1>0, <1>3, <2>1, Zenon DEF Transfers
<1>6. Inflight(m) = F
  BY <1>5 DEF Inflight
<1>7. /\ Inflight(v) = F \cup I /\ v.next = n + k /\ v.acked = t.acked
      /\ v.status = t.status /\ v.here = t.here /\ v.accepted = t.accepted
      /\ v.paused = t.paused /\ v.cancelled = t.cancelled
      /\ \A i \in I : v.inflight[i].state = "sending"
      /\ \A i \in Chunks \ I : v.inflight[i] = t.inflight[i]
  BY <1>0, <1>5, <1>6, Zenon DEF IsIssued
<1>8. t.acked \cup F = 0..(n - 1) /\ t.acked \cap F = {} /\ C \cup X \subseteq 0..(n - 1)
  BY <1>2 DEF Windowed
<1> HIDE DEF F, n
<1>81. /\ Room(t) \ t.acked = Room(t) /\ Room(t) \subseteq 0..(Total - 1)
       /\ F \cap Room(t) = {} /\ F \subseteq 0..(n - 1)
       /\ t.acked \cup (F \cup Room(t)) = 0..(n + k - 1) /\ t.acked \cap (F \cup Room(t)) = {}
  <2>1. t.acked \cup F = 0..(n - 1) /\ t.acked \cap F = {}
    BY <1>8, Zenon
  <2>2. n + k <= Total /\ Room(t) = n..(n + k - 1)
    BY <1>3, Zenon
  <2> QED
    BY <1>4, <2>1, <2>2, SegmentFacts, SMT
<1>82. I = Room(t)
  BY <1>0, <1>81, Zenon
<1>9. I = n..(n + k - 1) /\ I \subseteq Chunks
  BY <1>3, <1>81, <1>82, Zenon DEF Chunks
<1>10. F \cap I = {} /\ F \subseteq 0..(n - 1)
  BY <1>81, <1>82, Zenon
<1>11. Cardinality(F \cup I) = Cardinality(F) + k
  <2>2. IsFiniteSet(F) /\ IsFiniteSet(I) /\ Cardinality(I) = k /\ Cardinality(F) \in Nat
    BY <1>3, <1>82, InflightFinite, Zenon DEF F
  <2>3. Cardinality(F \cup I) = Cardinality(F) + Cardinality(I) - Cardinality(F \cap I)
    BY <2>2, FS_Union, Zenon
  <2>4. Cardinality(F \cap I) = 0
    BY <1>10, FS_EmptySet, Zenon
  <2> QED
    BY <2>2, <2>3, <2>4
<1>12. Windowed(v, C \cup I, X)
  <2>1. v.acked \cup Inflight(v) = 0..(v.next - 1)
    <3>1. t.acked \cup (F \cup I) = 0..(n + k - 1)
      BY <1>81, <1>82, Zenon
    <3>2. v.acked = t.acked /\ Inflight(v) = F \cup I /\ v.next = n + k
      BY <1>7, Zenon
    <3>3. PICK S, T : S = t.acked \cup (F \cup I) /\ T = 0..(n + k - 1)
      BY Zenon
    <3>4. v.acked \cup Inflight(v) = S
      BY <3>2, <3>3, Zenon
    <3>5. 0..(v.next - 1) = T
      <4>1. v.next - 1 = n + k - 1
        BY <1>4, <3>2
      <4> QED
        BY <3>3, <4>1, Zenon
    <3> QED
      BY <3>1, <3>3, <3>4, <3>5, Zenon
  <2>2. v.acked \cap Inflight(v) = {}
    BY <1>7, <1>81, <1>82, Zenon
  <2>3. Cardinality(Inflight(v)) <= Window
    BY <1>3, <1>7, <1>11, Zenon
  <2>4. (C \cup I) \cup X \subseteq 0..(v.next - 1)
    BY <1>4, <1>7, <1>8, <1>9
  <2> QED
    BY <2>1, <2>2, <2>3, <2>4, Zenon DEF Windowed
<1>13. Sound(v, b, C \cup I, X, d, p, g)
  BY <1>0, <1>1, <1>7, <1>12, Zenon DEF Sound, Live
<1>14. Moving(v, C \cup I, {})
  <2> SUFFICES ASSUME NEW i \in F \cup I
               PROVE  \/ v.inflight[i].state \in Timed
                      \/ v.inflight[i].state = "sending" /\ i \in C \cup I
                      \/ v.inflight[i].state = "hold" /\ v.status = "paused"
    BY <1>7, Zenon DEF Moving
  <2>1. CASE i \in I
    BY <1>7, <2>1, Zenon
  <2>2. CASE i \notin I
    <3>1. i \in F /\ i \in Chunks \ I
      BY <2>2, Zenon DEF F, Inflight
    <3> QED
      BY <1>0, <1>7, <3>1, Zenon DEF Moving, F
  <2> QED
    BY <2>1, <2>2, Zenon
<1>15. Inflight(v) = {} => v.next = Total
  <2> SUFFICES ASSUME Inflight(v) = {} PROVE n + k = Total
    BY <1>7, Zenon
  <2>1. F = {} /\ I = {}
    BY <1>7, Zenon
  <2>2. k = 0
    <3> SUFFICES ASSUME k # 0 PROVE FALSE
      BY Zenon
    <3>1. n \in n..(n + k - 1)
      BY <1>4
    <3> QED
      BY <1>9, <2>1, <3>1, Zenon
  <2> QED
    BY <1>3, <1>4, <2>1, <2>2
<1> QED
  BY <1>0, <1>5, <1>7, <1>9, <1>13, <1>14, <1>15, Zenon DEF Pumped

\* pump issues what the window has room for, or completes the transfer.
LEMMA PumpDone ==
  ASSUME NEW s \in Senders, NEW f \in Files, NEW g,
         SoundAt(s, f, s.globalPaused, g), Moving(s.tr[f], CallsOf(s, f), {}), s.tr[f].here
  PROVE  Done(s, pump(s, f), f, s.globalPaused, g)
<1> DEFINE t == s.tr[f]
           b == s.globalPaused
           C == CallsOf(s, f)
           X == StraysOf(s, f)
           d == s.digesting[f]
           p == f \in s.posting
<1>1. t \in Transfers
  BY RecordOf, Zenon
<1>2. Sound(t, b, C, X, d, p, g) /\ Moving(t, C, {}) /\ t.here
  BY Zenon DEF SoundAt
<1>3. CASE t.status # "sending"
  <2>1. pump(s, f) = s
    BY <1>3, Zenon DEF pump
  <2>2. Fed(t) /\ StepOf(s, s, f)
    BY <1>3, ShownSelf, ShownStepOf, Zenon DEF Fed
  <2> QED
    BY <2>1, <2>2, Zenon DEF Done
<1>4. CASE t.status = "sending"
  <2> DEFINE m == [t EXCEPT !.next = t.next + Cardinality(Room(t))]
             I == Room(t) \ t.acked
             a == [i \in Chunks |-> 1]
             v == Issued(m, I, a)
             w == Put(s, f, m)
             u == Issue(w, f, I, a)
  <2>1. ~t.cancelled /\ t.accepted /\ ~t.paused /\ ~b
    BY <1>2, <1>4, Zenon DEF Sound, Live
  <2>2. pump(s, f) = completeIfDone(u, f)
    <3>1. w = [s EXCEPT !.tr[f].next = @ + Cardinality(Room(s.tr[f]))]
      BY DEF Put, Senders, TransferMaps, Transfers
    <3> HIDE DEF w
    <3> QED
      BY <1>4, <2>1, <3>1, Zenon DEF pump, IsPaused
  <2>3. a \in [Chunks -> Nat] /\ \A i \in Chunks : a[i] \in Attempts
    BY FileSenderAssumption DEF Attempts
  <2> HIDE DEF a
  <2>4. Pumps(t, m, v, I)
    <3>1. I \subseteq Chunks
      BY <1>1, FileSenderAssumption DEF Room, Chunks, Transfers
    <3> HIDE DEF m, I
    <3>2. m \in Transfers => IsIssued(m, v, I)
      BY <2>3, <3>1, IssuedFacts, Zenon
    <3> QED
      BY <1>2, <1>4, <3>2, Zenon DEF Pumps, m, I
  <2> HIDE DEF C, X, d, p, b, t, v
  <2> HIDE DEF m, I
  <2>5. m \in Transfers /\ I \subseteq Chunks /\ Pumped(v, b, C \cup I, X, d, p, g)
    BY <1>1, <1>2, <2>4, PumpedSound, Zenon
  <2>6. Core(s, w, f, m, C, X)
    BY <2>5, PutCore, Zenon DEF C, X
  <2>7. w \in Senders /\ w.tr[f] = m /\ CallsOf(w, f) = C /\ StraysOf(w, f) = X
    BY <2>6 DEF Core, StepOf
  <2> HIDE DEF w
  <2>8. PICK x : Core(w, x, f, v, C \cup I, X) /\ Shown(x, u)
    BY <2>3, <2>5, <2>7, IssueCore, Zenon DEF v
  <2>9. Core(s, x, f, v, C \cup I, X)
    BY <2>6, <2>8, CoreAfter, Zenon
  <2> HIDE DEF u
  <2>10. Sound(v, b, C \cup I, X, s.digesting[f], f \in s.posting, g)
    BY <2>5, Zenon DEF d, p, Pumped
  <2>11. /\ StepOf(s, u, f) /\ SoundAt(u, f, b, g) /\ u \in Senders
         /\ Moving(u.tr[f], CallsOf(u, f), {})
    BY <2>5, <2>8, <2>9, <2>10, CoreShown, Zenon DEF Pumped
  <2>12. u.tr[f] = v
    BY <2>5, <2>8, <2>9, Zenon DEF Shown, Offered, Core, Pumped
  <2>13. Done(u, completeIfDone(u, f), f, b, g)
    BY <2>5, <2>11, <2>12, CompleteDone, Zenon DEF Pumped
  <2>14. Done(s, completeIfDone(u, f), f, b, g)
    BY <2>11, <2>13, DoneAfter, Zenon
  <2> QED
    BY <2>2, <2>14, Zenon DEF b
<1> QED
  BY <1>3, <1>4, Zenon

-----------------------------------------------------------------------------
(* The methods of one transfer. *)

\* All is well with f; b: the sender is paused, g: what the receiver stored of f.
Good(s, f, b, g) ==
  SoundAt(s, f, b, g) /\ Fed(s.tr[f]) /\ Moving(s.tr[f], CallsOf(s, f), {})

\* v, the new record of f, keeps to the invariant.
Keeps(s, f, v, b, g) ==
  /\ v \in Transfers /\ Moving(v, CallsOf(s, f), {})
  /\ Sound(v, b, CallsOf(s, f), StraysOf(s, f), s.digesting[f], f \in s.posting, g)

\* A new record of f is shown.
LEMMA PutShown ==
  ASSUME NEW s \in Senders, NEW f \in Files, NEW b, NEW g, NEW v, Keeps(s, f, v, b, g),
         NEW u, Shown(Put(s, f, v), u)
  PROVE  /\ StepOf(s, u, f) /\ SoundAt(u, f, b, g) /\ u \in Senders
         /\ Moving(u.tr[f], CallsOf(u, f), {}) /\ Offered(v, u.tr[f])
         /\ Fed(v) => Done(s, u, f, b, g)
<1> DEFINE C == CallsOf(s, f)
           X == StraysOf(s, f)
           w == Put(s, f, v)
<1>1. Core(s, w, f, v, C, X)
  BY PutCore, Zenon DEF Keeps
<1>2. Moving(v, C, {}) /\ Sound(v, b, C, X, s.digesting[f], f \in s.posting, g)
  BY Zenon DEF Keeps
<1> HIDE DEF C, X, w
<1>3. Shown(w, u)
  BY Zenon DEF w
<1>4. /\ StepOf(s, u, f) /\ SoundAt(u, f, b, g) /\ u \in Senders
      /\ Fed(v) => Fed(u.tr[f])
      /\ Moving(u.tr[f], CallsOf(u, f), {})
  BY <1>1, <1>2, <1>3, CoreShown, Zenon
<1>5. Offered(v, u.tr[f])
  BY <1>1, <1>3, Zenon DEF Core, Shown
<1> QED
  BY <1>4, <1>5, Zenon DEF Done

\* A method that returns early.
LEMMA NothingDone ==
  ASSUME NEW s \in Senders, NEW f \in Files, NEW b, NEW g, Good(s, f, b, g)
  PROVE  Done(s, s, f, b, g)
<1>1. StepOf(s, s, f)
  BY ShownSelf, ShownStepOf, Zenon
<1> QED
  BY <1>1, Zenon DEF Good, Done

\* A new record of f is shown, and f pumped.
LEMMA PutPumped ==
  ASSUME NEW s \in Senders, NEW f \in Files, NEW g, NEW v, Keeps(s, f, v, s.globalPaused, g),
         v.here, v.status # "queued"
  PROVE  Done(s, pump(emit(Put(s, f, v), f), f), f, s.globalPaused, g)
<1> DEFINE w == Put(s, f, v)
           u == emit(w, f)
<1>1. v \in Transfers
  BY Zenon DEF Keeps
<1>2. w \in Senders
  BY <1>1, PutFacts, Zenon DEF StepOf
<1>3. Shown(w, u)
  BY <1>2, EmitShown
<1> HIDE DEF u
<1>4. /\ StepOf(s, u, f) /\ SoundAt(u, f, s.globalPaused, g) /\ u \in Senders
      /\ Moving(u.tr[f], CallsOf(u, f), {}) /\ Offered(v, u.tr[f])
  BY <1>3, PutShown, Zenon
<1>5. u.tr[f].here
  BY <1>4, Zenon DEF Offered
<1>6. u.globalPaused = s.globalPaused
  BY <1>4, Zenon DEF StepOf
<1>7. SoundAt(u, f, u.globalPaused, g)
  BY <1>4, <1>6, Zenon
<1>8. Done(u, pump(u, f), f, u.globalPaused, g)
  BY <1>4, <1>5, <1>7, PumpDone, Zenon
<1>9. Done(u, pump(u, f), f, s.globalPaused, g)
  BY <1>6, <1>8, Zenon
<1> QED
  BY <1>4, <1>9, DoneAfter, Zenon DEF u

\* Only a transfer that sends or is paused has something in flight.
LEMMA IdleEmpty ==
  ASSUME NEW t \in Transfers, NEW b, NEW C, NEW X, NEW d, NEW p, NEW g,
         Sound(t, b, C, X, d, p, g), t.here, t.status \notin {"sending", "paused"}
  PROVE  Inflight(t) = {}
<1>1. Live(t, b, C, X) /\ t.status # "none"
  BY Zenon DEF Sound, Live
<1>2. CASE t.cancelled
  BY <1>1, <1>2, Zenon DEF Live
<1>3. CASE ~t.cancelled
  <2>1. Windowed(t, C, X)
    BY <1>1, <1>3, Zenon DEF Live
  <2>2. CASE t.status = "completed"
    <3>1. t.acked = Chunks
      BY <2>2, Zenon DEF Sound
    <3> QED
      BY <2>1, <3>1, Zenon DEF Windowed, Inflight
  <2>3. CASE t.status \in {"queued", "offered"}
    <3>1. t.next = 0
      BY <1>1, <2>3, Zenon DEF Live
    <3>2. 0..(0 - 1) = {}
      OBVIOUS
    <3> QED
      BY <2>1, <3>1, <3>2, Zenon DEF Windowed
  <2> QED
    BY <1>1, <1>3, <2>2, <2>3, Zenon DEF Sound, Transfers, Statuses
<1> QED
  BY <1>2, <1>3, Zenon

\* accept, of any transfer that was not cancelled.
LEMMA AcceptDone ==
  ASSUME NEW s \in Senders, NEW f \in Files, NEW g, Good(s, f, s.globalPaused, g)
  PROVE  Done(s, accept(s, f), f, s.globalPaused, g)
<1> DEFINE t == s.tr[f]
           b == s.globalPaused
           C == CallsOf(s, f)
           X == StraysOf(s, f)
           d == s.digesting[f]
           p == f \in s.posting
<1>1. t \in Transfers /\ b \in BOOLEAN
  BY RecordOf, Zenon
<1>2. Sound(t, b, C, X, d, p, g) /\ Moving(t, C, {})
  BY DEF Good, SoundAt
<1>3. CASE ~t.here \/ t.cancelled
  <2>1. accept(s, f) = s
    BY <1>3 DEF accept
  <2> QED
    BY <2>1, NothingDone, Zenon
<1>4. CASE t.here /\ ~t.cancelled
  <2> DEFINE st == IF b THEN "paused" ELSE "sending"
             v == [t EXCEPT !.accepted = TRUE, !.paused = b, !.status = st]
  <2>1. accept(s, f) = pump(emit(Put(s, f, v), f), f)
    <3>1. [s EXCEPT !.tr[f].accepted = TRUE, !.tr[f].paused = b, !.tr[f].status = st] = Put(s, f, v)
      <4> HIDE DEF b, st
      <4> QED
        BY Zenon DEF Put, Senders, TransferMaps, Transfers
    <3> QED
      BY <1>4, <3>1, Zenon DEF accept
  <2>2. /\ v \in Transfers /\ v.accepted = TRUE /\ v.paused = b /\ v.status = st
        /\ v.here = t.here /\ v.cancelled = t.cancelled /\ v.next = t.next
        /\ v.acked = t.acked /\ v.inflight = t.inflight
    BY <1>1, Zenon DEF Transfers, Statuses
  <2>3. Inflight(v) = Inflight(t)
    BY <2>2, Zenon DEF Inflight
  <2>4. (b /\ st = "paused") \/ (~b /\ st = "sending")
    BY <1>1
  <2> HIDE DEF v, st
  <2>5. Keeps(s, f, v, b, g)
    <3> HIDE DEF b, C, X, d, p, t
    <3>1. Live(t, b, C, X) /\ t.status # "none" /\ Windowed(t, C, X) /\ d = "no"
      BY <1>2, <1>4, Zenon DEF Sound, Live
    <3>2. Live(v, b, C, X)
      BY <1>4, <2>2, <2>3, <2>4, <3>1, Zenon DEF Live, Windowed
    <3>3. Sound(v, b, C, X, d, p, g)
      BY <1>2, <1>4, <2>2, <2>4, <3>1, <3>2, Zenon DEF Sound
    <3>4. Moving(v, C, {})
      <4>1. CASE t.status \in {"sending", "paused"}
        <5>1. st = t.status
          BY <2>4, <3>1, <4>1, Zenon DEF Live
        <5> QED
          BY <1>2, <2>2, <2>3, <5>1, Zenon DEF Moving
      <4>2. CASE t.status \notin {"sending", "paused"}
        <5>1. Inflight(t) = {}
          BY <1>1, <1>2, <1>4, <4>2, IdleEmpty, Zenon
        <5> QED
          BY <2>3, <5>1, Zenon DEF Moving
      <4> QED
        BY <4>1, <4>2, Zenon
    <3> QED
      BY <2>2, <3>3, <3>4, Zenon DEF Keeps, C, X, d, p
  <2>6. v.here /\ v.status # "queued"
    BY <1>4, <2>2, <2>4, Zenon
  <2> QED
    BY <2>1, <2>5, <2>6, PutPumped, Zenon
<1> QED
  BY <1>3, <1>4, Zenon

\* ack of a chunk that the receiver stored.
LEMMA AckDone ==
  ASSUME NEW s \in Senders, NEW f \in Files, NEW i \in Chunks, NEW g, i \in g,
         Good(s, f, s.globalPaused, g)
  PROVE  Done(s, ack(s, f, i), f, s.globalPaused, g)
<1> DEFINE t == s.tr[f]
           b == s.globalPaused
           C == CallsOf(s, f)
           X == StraysOf(s, f)
           d == s.digesting[f]
           p == f \in s.posting
<1>1. t \in Transfers
  BY RecordOf, Zenon
<1>2. Sound(t, b, C, X, d, p, g) /\ Moving(t, C, {})
  BY DEF Good, SoundAt
<1>3. CASE ~t.here \/ t.cancelled \/ t.inflight[i] = NoEntry
  <2>1. ack(s, f, i) = s
    BY <1>3, Zenon DEF ack
  <2> QED
    BY <2>1, NothingDone, Zenon
<1>4. CASE t.here /\ ~t.cancelled /\ t.inflight[i] # NoEntry
  <2> DEFINE fl == [t.inflight EXCEPT ![i] = NoEntry]
             v == [t EXCEPT !.inflight = fl, !.acked = t.acked \cup {i}]
  <2>1. ack(s, f, i) = pump(emit(Put(s, f, v), f), f)
    <3>1. [s EXCEPT !.tr[f].inflight[i] = NoEntry, !.tr[f].acked = @ \cup {i}] = Put(s, f, v)
      BY Zenon DEF Put, Senders, TransferMaps, Transfers
    <3> QED
      BY <1>4, <3>1, Zenon DEF ack
  <2>0. t.inflight \in [Chunks -> Slots] /\ NoEntry \in Slots
    BY <1>1, Zenon DEF Transfers, Slots
  <2>2. fl \in [Chunks -> Slots] /\ \A j \in Chunks : fl[j] = IF j = i THEN NoEntry ELSE t.inflight[j]
    BY <2>0, Zenon
  <2> HIDE DEF fl
  <2>3. /\ v \in Transfers /\ v.acked = t.acked \cup {i} /\ v.inflight = fl
        /\ v.status = t.status /\ v.here = t.here /\ v.accepted = t.accepted
        /\ v.paused = t.paused /\ v.cancelled = t.cancelled /\ v.next = t.next
    BY <1>1, <2>2, Zenon DEF Transfers
  <2> HIDE DEF v
  <2>4. Inflight(v) = Inflight(t) \ {i} /\ i \in Inflight(t)
    BY <1>4, <2>2, <2>3, ZenonT(30) DEF Inflight
  <2>5. Keeps(s, f, v, b, g)
    <3> HIDE DEF b, C, X, d, p, t
    <3>1. Live(t, b, C, X) /\ Windowed(t, C, X)
      BY <1>2, <1>4, Zenon DEF Sound, Live
    <3>2. Cardinality(Inflight(v)) <= Window
      <4>1. Cardinality(Inflight(t)) <= Window /\ IsFiniteSet(Inflight(t))
            /\ Cardinality(Inflight(t)) \in Nat
        BY <3>1, InflightFinite, Zenon DEF Windowed
      <4>2. Cardinality(Inflight(t) \ {i}) = Cardinality(Inflight(t)) - 1
        BY <2>4, <4>1, FS_RemoveElement, Zenon
      <4> QED
        BY <2>4, <4>1, <4>2, FileSenderAssumption
    <3>3. Windowed(v, C, X)
      BY <2>3, <2>4, <3>1, <3>2, ZenonT(30) DEF Windowed
    <3>4. Sound(v, b, C, X, d, p, g)
      <4>1. t.acked = Chunks => v.acked = Chunks
        BY <2>3, Zenon
      <4>2. v.acked \subseteq g
        BY <1>2, <2>3, Zenon DEF Sound
      <4>3. Live(v, b, C, X)
        BY <1>4, <2>3, <3>1, <3>3, Zenon DEF Live
      <4>4. t.status # "none"
        BY <3>1, Zenon DEF Live
      <4> QED
        BY <1>2, <2>3, <4>1, <4>2, <4>3, <4>4, Zenon DEF Sound
    <3>5. Moving(v, C, {})
      BY <1>2, <2>2, <2>3, <2>4, Zenon DEF Moving, Inflight
    <3> QED
      BY <2>3, <3>4, <3>5, Zenon DEF Keeps, C, X, d, p
  <2>6. v.here /\ v.status # "queued"
    <3> HIDE DEF b, C, X, d, p, t
    <3>1. t.status \in {"sending", "paused"}
      BY <1>1, <1>2, <1>4, <2>4, IdleEmpty, Zenon
    <3> QED
      BY <1>4, <2>3, <3>1, Zenon
  <2> QED
    BY <2>1, <2>5, <2>6, PutPumped, Zenon
<1> QED
  BY <1>3, <1>4, Zenon

-----------------------------------------------------------------------------
(* Pausing. *)

Held(t) == {i \in Chunks : t.inflight[i].state = "hold"}

\* Of what is held, the chunks before the first that has had its last attempt.
Over(t) == {i \in Chunks \ t.acked : t.inflight[i].state = "hold" /\ t.inflight[i].attempts > MaxRetries}
Resumed(t) == {i \in Held(t) \ t.acked : \A j \in Over(t) : i < j}

\* Every slot counts attempts, and one that is not over may have another.
LEMMA SlotAttempts ==
  ASSUME NEW e \in Slots
  PROVE  e.attempts \in Nat
  BY FileSenderAssumption DEF Slots, NoEntry, Attempts

\* The chunks that resumeOutstanding issues again, up to the first that has had
\* its last attempt, all have a call.
LEMMA ResumedFacts ==
  ASSUME NEW t \in Transfers, NEW b, NEW C, NEW X, NEW d, NEW p, NEW g,
         Sound(t, b, C, X, d, p, g), Moving(t, C, Held(t)), t.here, t.status = "sending",
         NEW v, IsIssued(t, v, Resumed(t))
  PROVE  /\ Sound(v, b, C \cup Resumed(t), X, d, p, g)
         /\ v.here /\ v.status = "sending"
         /\ Over(t) = {} => Moving(v, C \cup Resumed(t), {})
<1> DEFINE I == Resumed(t)
<1>1. Live(t, b, C, X) /\ ~t.cancelled /\ Windowed(t, C, X)
  BY Zenon DEF Sound, Live
<1>2. /\ v \in Transfers /\ Inflight(v) = Inflight(t) \cup I
      /\ v.status = t.status /\ v.here = t.here /\ v.accepted = t.accepted
      /\ v.paused = t.paused /\ v.cancelled = t.cancelled /\ v.next = t.next /\ v.acked = t.acked
      /\ \A i \in I : v.inflight[i].state = "sending"
      /\ \A i \in Chunks \ I : v.inflight[i] = t.inflight[i]
  BY Zenon DEF IsIssued
<1>3. Held(t) \subseteq Inflight(t)
  BY DEF Held, Inflight, NoEntry
<1>4. I \subseteq Inflight(t)
  BY <1>3, Zenon DEF Resumed
<1>5. Inflight(v) = Inflight(t)
  BY <1>2, <1>4, Zenon
<1>6. Over(t) = {} => I = Held(t)
  BY <1>1, <1>3, Zenon DEF Resumed, Windowed
<1> HIDE DEF I
<1>7. Windowed(v, C \cup I, X)
  BY <1>1, <1>2, <1>4, <1>5, Zenon DEF Windowed
<1>8. Sound(v, b, C \cup I, X, d, p, g)
  BY <1>1, <1>2, <1>7, Zenon DEF Sound, Live
<1>9. ASSUME Over(t) = {} PROVE Moving(v, C \cup I, {})
  <2> SUFFICES ASSUME NEW i \in Inflight(t)
               PROVE  \/ v.inflight[i].state \in Timed
                      \/ v.inflight[i].state = "sending" /\ i \in C \cup I
                      \/ v.inflight[i].state = "hold" /\ v.status = "paused"
    BY <1>5, Zenon DEF Moving
  <2>1. CASE i \in I
    BY <1>2, <2>1, Zenon
  <2>2. CASE i \notin I
    <3>1. i \in Inflight(t) \ Held(t) /\ v.inflight[i] = t.inflight[i]
      BY <1>2, <1>6, <1>9, <2>2, Zenon DEF Inflight
    <3> QED
      BY <1>2, <3>1, Zenon DEF Moving
  <2> QED
    BY <2>1, <2>2, Zenon
<1> QED
  BY <1>2, <1>8, <1>9, Zenon DEF I

\* resumeOutstanding.
LEMMA ResumeDone ==
  ASSUME NEW s \in Senders, NEW f \in Files, NEW g, SoundAt(s, f, s.globalPaused, g),
         Moving(s.tr[f], CallsOf(s, f), Held(s.tr[f])), s.tr[f].here, s.tr[f].status = "sending"
  PROVE  Done(s, resumeOutstanding(s, f), f, s.globalPaused, g)
<1> DEFINE t == s.tr[f]
           b == s.globalPaused
           C == CallsOf(s, f)
           X == StraysOf(s, f)
           d == s.digesting[f]
           p == f \in s.posting
           I == Resumed(t)
           a == [i \in Chunks |-> t.inflight[i].attempts + 1]
           v == Issued(t, I, a)
           u == Issue(s, f, I, a)
<1>1. t \in Transfers
  BY RecordOf, Zenon
<1>2. /\ Sound(t, b, C, X, d, p, g) /\ Moving(t, C, Held(t)) /\ t.here /\ t.status = "sending"
      /\ ~t.cancelled /\ ~IsPaused(s, f) /\ t.status # "none"
  BY Zenon DEF SoundAt, Sound, Live, IsPaused
<1>3. resumeOutstanding(s, f) = IF Over(t) # {} THEN failAndNotify(u, f) ELSE pump(u, f)
  <2> DEFINE held == {i \in Chunks \ t.acked : t.inflight[i].state = "hold"}
             over == {i \in held : t.inflight[i].attempts > MaxRetries}
             J == {i \in held : \A j \in over : i < j}
  <2>1. over = Over(t)
    BY Zenon DEF Over
  <2>2. J = I
    <3>1. held = Held(t) \ t.acked
      BY DEF Held
    <3> HIDE DEF over, held
    <3> QED
      BY <2>1, <3>1, Zenon DEF Resumed
  <2>3. resumeOutstanding(s, f) =
          IF over # {} THEN failAndNotify(Issue(s, f, J, a), f) ELSE pump(Issue(s, f, J, a), f)
    BY <1>2, Zenon DEF resumeOutstanding
  <2> HIDE DEF J, over, held, I, a
  <2> QED
    BY <2>1, <2>2, <2>3, Zenon
<1>4. I \in SUBSET Chunks
  BY Zenon DEF Resumed, Held
<1>5. \A i \in Chunks : t.inflight[i].attempts \in Nat
  <2> SUFFICES ASSUME NEW i \in Chunks PROVE t.inflight[i].attempts \in Nat
    BY Zenon
  <2>1. t.inflight[i] \in Slots
    BY <1>1, Zenon DEF Transfers
  <2> QED
    BY <2>1, SlotAttempts, Zenon
<1>6. a \in [Chunks -> Nat] /\ \A i \in I : a[i] \in Attempts
  <2>1. a \in [Chunks -> Nat]
    BY <1>5
  <2>2. ASSUME NEW i \in I PROVE a[i] \in Attempts
    <3>1. i \in Chunks \ t.acked /\ t.inflight[i].state = "hold" /\ (i \in Over(t) => i < i)
      BY Zenon DEF Resumed, Held
    <3>2. ~(t.inflight[i].attempts > MaxRetries)
      BY <3>1 DEF Over, Chunks
    <3> QED
      BY <1>5, <3>1, <3>2, FileSenderAssumption DEF Attempts
  <2> QED
    BY <2>1, <2>2, Zenon
<1> HIDE DEF a
<1>7. PICK w : Core(s, w, f, v, C \cup I, X) /\ Shown(w, u)
  <2> HIDE DEF I
  <2> QED
    BY <1>4, <1>6, IssueCore, Zenon
<1>8. IsIssued(t, v, I)
  BY <1>1, <1>4, <1>6, IssuedFacts, Zenon
<1> HIDE DEF v, u
<1>9. /\ Sound(v, b, C \cup I, X, d, p, g)
      /\ v.here /\ v.status = "sending"
      /\ Over(t) = {} => Moving(v, C \cup I, {})
  <2> HIDE DEF t, b, C, X, d, p
  <2> QED
    BY <1>1, <1>2, <1>8, ResumedFacts, Zenon
<1> HIDE DEF I
<1>10. /\ StepOf(s, u, f) /\ SoundAt(u, f, b, g) /\ u \in Senders
       /\ Over(t) = {} => Moving(u.tr[f], CallsOf(u, f), {})
  <2>1. Sound(v, b, C \cup I, X, s.digesting[f], f \in s.posting, g)
    BY <1>9, Zenon
  <2> HIDE DEF b, C, X
  <2> QED
    BY <1>7, <1>9, <2>1, CoreShown, Zenon
<1>11. u.tr[f] = v
  BY <1>7, <1>9, Zenon DEF Core, Shown, Offered
<1>12. u.globalPaused = b
  BY <1>10, Zenon DEF StepOf
<1>13. CASE Over(t) # {}
  <2>1. u.tr[f].acked \subseteq g /\ u.digesting[f] = "no"
    BY <1>9, <1>10, <1>11, Zenon DEF SoundAt, Sound
  <2>2. Done(u, failAndNotify(u, f), f, b, g)
    BY <1>10, <2>1, FailDone, Zenon
  <2> QED
    BY <1>3, <1>10, <1>13, <2>2, DoneAfter, Zenon
<1>14. CASE Over(t) = {}
  <2>1. Done(u, pump(u, f), f, u.globalPaused, g)
    <3>1. SoundAt(u, f, u.globalPaused, g) /\ u.tr[f].here
      BY <1>9, <1>10, <1>11, <1>12, Zenon
    <3> QED
      BY <1>10, <1>14, <3>1, PumpDone, Zenon
  <2>2. Done(u, pump(u, f), f, b, g)
    BY <1>12, <2>1, Zenon
  <2> QED
    BY <1>3, <1>10, <1>14, <2>2, DoneAfter, Zenon
<1> QED
  BY <1>13, <1>14, Zenon

\* v is t with everything in flight held.
Holds(t, fl, v) ==
  /\ t.here /\ t.status \in {"sending", "paused"}
  /\ fl = [i \in Chunks |-> IF t.inflight[i] = NoEntry THEN NoEntry
                              ELSE Entry(t.inflight[i].attempts, "hold")]
  /\ v = [t EXCEPT !.paused = TRUE, !.status = "paused", !.inflight = fl]

\* holdOutstanding.
LEMMA HoldFacts ==
  ASSUME NEW t \in Transfers, NEW C, NEW X, NEW d, NEW p, NEW g, NEW o,
         Sound(t, o, C, X, d, p, g), NEW fl, NEW v, Holds(t, fl, v)
  PROVE  /\ v \in Transfers /\ Sound(v, TRUE, C, X, d, p, g) /\ Moving(v, C, {}) /\ Fed(v)
<1>0. /\ t.here /\ t.status \in {"sending", "paused"}
      /\ fl = [i \in Chunks |-> IF t.inflight[i] = NoEntry THEN NoEntry
                                  ELSE Entry(t.inflight[i].attempts, "hold")]
      /\ v = [t EXCEPT !.paused = TRUE, !.status = "paused", !.inflight = fl]
  BY Zenon DEF Holds
<1>1. \A i \in Chunks : t.inflight[i] # NoEntry =>
        Entry(t.inflight[i].attempts, "hold") \in Slots \ {NoEntry}
  <2> SUFFICES ASSUME NEW i \in Chunks, t.inflight[i] # NoEntry
               PROVE  Entry(t.inflight[i].attempts, "hold") \in Slots \ {NoEntry}
    BY Zenon
  <2> DEFINE e == t.inflight[i]
  <2>1. e \in Slots
    BY Zenon DEF Transfers
  <2> HIDE DEF e
  <2>2. e.attempts \in Nat
    BY <2>1, FileSenderAssumption DEF Slots, NoEntry, Attempts
  <2>3. Entry(e.attempts, "hold") \in Slots \ {NoEntry}
    BY <2>2, Zenon DEF Entry, NoEntry, Slots, Parked
  <2> QED
    BY <2>3, Zenon DEF e
<1>2. /\ fl \in [Chunks -> Slots]
      /\ \A i \in Chunks : /\ fl[i] = NoEntry <=> t.inflight[i] = NoEntry
                           /\ t.inflight[i] # NoEntry => fl[i].state = "hold"
  <2>1. NoEntry \in Slots
    BY Zenon DEF Slots
  <2>2. \A i \in Chunks : Entry(t.inflight[i].attempts, "hold").state = "hold"
    BY DEF Entry
  <2> QED
    BY <1>0, <1>1, <2>1, <2>2, Zenon
<1>3. /\ v \in Transfers /\ v.paused = TRUE /\ v.status = "paused" /\ v.inflight = fl
      /\ v.here = t.here /\ v.accepted = t.accepted /\ v.cancelled = t.cancelled
      /\ v.next = t.next /\ v.acked = t.acked
  BY <1>0, <1>2, Zenon DEF Transfers, Statuses
<1>4. Inflight(v) = Inflight(t)
  BY <1>2, <1>3, Zenon DEF Inflight
<1>5. Live(t, o, C, X) /\ t.accepted /\ ~t.cancelled /\ Windowed(t, C, X)
  BY <1>0, Zenon DEF Sound, Live
<1>6. Windowed(v, C, X)
  BY <1>3, <1>4, <1>5, Zenon DEF Windowed
<1>7. Sound(v, TRUE, C, X, d, p, g)
  BY <1>3, <1>5, <1>6, Zenon DEF Sound, Live
<1>8. Moving(v, C, {})
  BY <1>2, <1>3, <1>4, Zenon DEF Moving, Inflight
<1>9. Fed(v)
  BY <1>3, Zenon DEF Fed
<1> QED
  BY <1>3, <1>7, <1>8, <1>9, Zenon

\* A transfer that the pause of the sender does not concern.
LEMMA PauseIdle ==
  ASSUME NEW s \in Senders, NEW f \in Files, NEW o, NEW b, NEW g, Good(s, f, o, g),
         ~s.tr[f].here \/ s.tr[f].status \notin {"sending", "paused"}
  PROVE  Good(s, f, b, g)
BY Zenon DEF Good, SoundAt, Sound, Live

\* SetPaused: f was in order when the sender was paused or not (o) and is again,
\* with the sender as it is now.
LEMMA SetPausedDone ==
  ASSUME NEW s \in Senders, NEW f \in Files, NEW o, NEW g, Good(s, f, o, g)
  PROVE  Done(s, SetPaused(s, f, s.globalPaused), f, s.globalPaused, g)
<1> DEFINE t == s.tr[f]
           b == s.globalPaused
           C == CallsOf(s, f)
           X == StraysOf(s, f)
           d == s.digesting[f]
           p == f \in s.posting
<1>1. t \in Transfers /\ b \in BOOLEAN
  BY RecordOf, Zenon
<1>2. Sound(t, o, C, X, d, p, g) /\ Moving(t, C, {})
  BY Zenon DEF Good, SoundAt
<1>3. CASE ~t.here \/ t.status \notin {"sending", "paused"}
  <2>1. SetPaused(s, f, b) = s
    BY <1>3, Zenon DEF SetPaused
  <2>2. Good(s, f, b, g)
    BY <1>3, PauseIdle, Zenon
  <2> QED
    BY <2>1, <2>2, NothingDone, Zenon
<1>4. CASE t.here /\ t.status \in {"sending", "paused"} /\ b
  <2> DEFINE fl == [i \in Chunks |-> IF t.inflight[i] = NoEntry THEN NoEntry
                                       ELSE Entry(t.inflight[i].attempts, "hold")]
             v == [t EXCEPT !.paused = TRUE, !.status = "paused", !.inflight = fl]
             u == emit(Put(s, f, v), f)
  <2>1. SetPaused(s, f, b) = u
    <3> DEFINE m == [t EXCEPT !.paused = TRUE, !.status = "paused"]
               w == [s EXCEPT !.tr[f].paused = TRUE, !.tr[f].status = "paused"]
    <3>1. w = Put(s, f, m)
      BY Zenon DEF Put, Senders, TransferMaps, Transfers
    <3>2. SetPaused(s, f, b) = emit(holdOutstanding(w, f), f)
      BY <1>4, Zenon DEF SetPaused
    <3>4. m \in Transfers /\ m.inflight = t.inflight
      BY <1>1, Zenon DEF Transfers, Statuses
    <3>5. v = [m EXCEPT !.inflight = fl]
      BY <1>1, Zenon DEF Transfers
    <3> HIDE DEF m, w
    <3>6. holdOutstanding(w, f) = [w EXCEPT !.tr[f].inflight = fl]
      <4>1. w.tr[f] = m
        BY <3>1, <3>4, PutFacts, Zenon
      <4> QED
        BY <3>4, <4>1, Zenon DEF holdOutstanding
    <3> HIDE DEF fl, v
    <3>7. [w EXCEPT !.tr[f].inflight = fl] = Put(s, f, v)
      BY <3>1, <3>4, <3>5, Zenon DEF Put, Senders, TransferMaps
    <3> QED
      BY <3>2, <3>6, <3>7, Zenon
  <2>2. /\ v \in Transfers /\ Sound(v, TRUE, C, X, d, p, g) /\ Moving(v, C, {}) /\ Fed(v)
    <3> HIDE DEF t, C, X, d, p
    <3>1. Holds(t, fl, v)
      BY <1>4, Zenon DEF Holds
    <3> HIDE DEF fl, v
    <3> QED
      BY <1>1, <1>2, <3>1, HoldFacts, Zenon
  <2> HIDE DEF v, u
  <2>3. Keeps(s, f, v, b, g)
    BY <1>1, <1>4, <2>2, Zenon DEF Keeps
  <2>4. Shown(Put(s, f, v), u)
    BY <2>2, PutFacts, EmitShown, Zenon DEF StepOf, u
  <2> QED
    BY <2>1, <2>2, <2>3, <2>4, PutShown, Zenon
<1>5. CASE t.here /\ t.status \in {"sending", "paused"} /\ ~b
  <2> DEFINE v == [t EXCEPT !.paused = FALSE, !.status = "sending"]
             w == Put(s, f, v)
             u == emit(w, f)
  <2>1. SetPaused(s, f, b) = resumeOutstanding(u, f)
    <3>1. [s EXCEPT !.tr[f].paused = FALSE, !.tr[f].status = "sending"] = w
      BY Zenon DEF Put, Senders, TransferMaps, Transfers
    <3> QED
      BY <1>5, <3>1, Zenon DEF SetPaused
  <2>2. /\ v \in Transfers /\ v.paused = FALSE /\ v.status = "sending" /\ v.inflight = t.inflight
        /\ v.here = t.here /\ v.accepted = t.accepted /\ v.cancelled = t.cancelled
        /\ v.next = t.next /\ v.acked = t.acked
    BY <1>1, Zenon DEF Transfers, Statuses
  <2> HIDE DEF v
  <2>3. Inflight(v) = Inflight(t) /\ Held(v) = Held(t)
    BY <2>2, Zenon DEF Inflight, Held
  <2>4. Sound(v, b, C, X, d, p, g)
    <3> HIDE DEF t, C, X, d, p, b
    <3>1. Live(t, o, C, X) /\ t.accepted /\ ~t.cancelled /\ Windowed(t, C, X) /\ d = "no"
      BY <1>2, <1>5, Zenon DEF Sound, Live
    <3>2. Windowed(v, C, X)
      BY <2>2, <2>3, <3>1, Zenon DEF Windowed
    <3> QED
      BY <1>2, <1>5, <2>2, <3>1, <3>2, Zenon DEF Sound, Live
  <2>5. Moving(v, C, Held(v))
    BY <1>2, <1>5, <2>2, <2>3, Zenon DEF Moving, Held, Inflight
  <2>6. Core(s, w, f, v, C, X)
    BY <2>2, PutCore, Zenon
  <2>7. Shown(w, u)
    BY <2>6, EmitShown, Zenon DEF Core, StepOf
  <2> HIDE DEF w, u
  <2>8. /\ StepOf(s, u, f) /\ SoundAt(u, f, b, g) /\ u \in Senders
        /\ \A E : Moving(v, C, E) => Moving(u.tr[f], CallsOf(u, f), E)
    <3>1. Sound(v, b, C, X, s.digesting[f], f \in s.posting, g)
      BY <2>4, Zenon
    <3> HIDE DEF b, C, X
    <3> QED
      BY <2>6, <2>7, <3>1, CoreShown, Zenon
  <2>9. u.tr[f] = v
    BY <2>2, <2>6, <2>7, Zenon DEF Core, Shown, Offered
  <2>10. u.globalPaused = b
    BY <2>8, Zenon DEF StepOf
  <2>11. /\ SoundAt(u, f, u.globalPaused, g) /\ u.tr[f].here /\ u.tr[f].status = "sending"
         /\ Moving(u.tr[f], CallsOf(u, f), Held(u.tr[f]))
    BY <1>5, <2>2, <2>5, <2>8, <2>9, <2>10, Zenon
  <2>12. Done(u, resumeOutstanding(u, f), f, b, g)
    BY <2>8, <2>10, <2>11, ResumeDone, Zenon
  <2> QED
    BY <2>1, <2>8, <2>12, DoneAfter, Zenon
<1> QED
  BY <1>1, <1>3, <1>4, <1>5, Zenon

-----------------------------------------------------------------------------
(* All transfers. *)

\* The sender's part of the inductive invariant; G: what the receiver has stored.
Fine(s, G) == s \in Senders /\ \A f \in Files : Good(s, f, s.globalPaused, G[f])

\* A step of f leaves the other transfers in order.
LEMMA OthersGood ==
  ASSUME NEW s \in Senders, NEW f \in Files, NEW u, StepOf(s, u, f),
         NEW h \in Files \ {f}, NEW b, NEW g, Good(s, h, b, g)
  PROVE  Good(u, h, b, g)
<1>1. AtRest(s, u, h) /\ h \in Files
  BY Zenon DEF StepOf
<1>2. SoundAt(s, h, b, g) /\ Fed(s.tr[h]) /\ Moving(s.tr[h], CallsOf(s, h), {})
  BY Zenon DEF Good
<1> QED
  BY <1>1, <1>2, AtRestSound, Zenon DEF Good

\* A step of one transfer keeps the sender's invariant.
LEMMA DoneFine ==
  ASSUME NEW s, NEW G, Fine(s, G), NEW f \in Files, NEW u, Done(s, u, f, s.globalPaused, G[f])
  PROVE  Fine(u, G)
<1>1. s \in Senders /\ u \in Senders /\ StepOf(s, u, f) /\ u.globalPaused = s.globalPaused
  BY DEF Fine, Done, StepOf
<1>2. Good(u, f, s.globalPaused, G[f])
  BY Zenon DEF Done, Good
<1>3. ASSUME NEW h \in Files \ {f} PROVE Good(u, h, s.globalPaused, G[h])
  <2>1. Good(s, h, s.globalPaused, G[h])
    BY DEF Fine
  <2> QED
    BY <1>1, <2>1, OthersGood, Zenon
<1>4. \A h \in Files : Good(u, h, s.globalPaused, G[h])
  BY <1>2, <1>3, Zenon
<1> QED
  BY <1>1, <1>4, Zenon DEF Fine

\* A step of the view keeps the sender's invariant.
LEMMA ShownFine ==
  ASSUME NEW s, NEW G, Fine(s, G), NEW u, Shown(s, u)
  PROVE  Fine(u, G)
<1>1. s \in Senders /\ u \in Senders /\ u.globalPaused = s.globalPaused
  BY DEF Fine, Shown
<1>2. ASSUME NEW h \in Files PROVE Good(u, h, s.globalPaused, G[h])
  <2>1. AtRest(s, u, h)
    BY <1>1, ShownAtRest, Zenon
  <2>2. /\ SoundAt(s, h, s.globalPaused, G[h])
        /\ Fed(s.tr[h]) /\ Moving(s.tr[h], CallsOf(s, h), {})
    BY DEF Fine, Good
  <2> QED
    BY <1>1, <2>1, <2>2, AtRestSound, Zenon DEF Good
<1> QED
  BY <1>1, <1>2, Zenon DEF Fine

\* setGlobalPaused when the transfers of D are done; o: the sender was paused.
Midway(x, D, o, b, G) ==
  /\ x \in Senders /\ x.globalPaused = b
  /\ \A f \in D : Good(x, f, b, G[f])
  /\ \A f \in Files \ D : Good(x, f, o, G[f])

\* setGlobalPaused goes on to one more transfer.
LEMMA MidwayStep ==
  ASSUME NEW x, NEW D \in SUBSET Files, NEW f \in D, NEW o, NEW b, NEW G,
         Midway(x, D \ {f}, o, b, G)
  PROVE  Midway(SetPaused(x, f, b), D, o, b, G)
<1> DEFINE u == SetPaused(x, f, b)
<1>1. x \in Senders /\ x.globalPaused = b /\ Good(x, f, o, G[f]) /\ f \in Files
  BY Zenon DEF Midway
<1>2. Done(x, u, f, x.globalPaused, G[f])
  BY <1>1, SetPausedDone, Zenon
<1> HIDE DEF u
<1>3. u \in Senders /\ StepOf(x, u, f) /\ u.globalPaused = b /\ Good(u, f, b, G[f])
  BY <1>1, <1>2, Zenon DEF Done, StepOf, Good
<1>4. ASSUME NEW h \in D PROVE Good(u, h, b, G[h])
  <2>1. CASE h = f
    BY <1>3, <2>1, Zenon
  <2>2. CASE h # f
    <3>1. h \in Files \ {f} /\ Good(x, h, b, G[h])
      BY <2>2, Zenon DEF Midway
    <3> QED
      BY <1>1, <1>3, <3>1, OthersGood, Zenon
  <2> QED
    BY <2>1, <2>2, Zenon
<1>5. ASSUME NEW h \in Files \ D PROVE Good(u, h, o, G[h])
  <2>1. h \in Files \ {f} /\ Good(x, h, o, G[h])
    BY DEF Midway
  <2> QED
    BY <1>1, <1>3, <2>1, OthersGood, Zenon
<1> QED
  BY <1>3, <1>4, <1>5, Zenon DEF Midway, u

\* setGlobalPaused before its loop.
LEMMA MidwayStart ==
  ASSUME NEW s, NEW G, Fine(s, G), NEW b \in BOOLEAN
  PROVE  Midway([s EXCEPT !.globalPaused = b], {}, s.globalPaused, b, G)
<1> DEFINE u == [s EXCEPT !.globalPaused = b]
<1>1. s \in Senders
  BY DEF Fine
<1>2. /\ u \in Senders /\ u.globalPaused = b /\ u.tr = s.tr /\ u.calls = s.calls
      /\ u.stray = s.stray /\ u.digesting = s.digesting /\ u.posting = s.posting
  BY <1>1, Zenon DEF Senders
<1> HIDE DEF u
<1>3. \A f \in Files : CallsOf(u, f) = CallsOf(s, f) /\ StraysOf(u, f) = StraysOf(s, f)
  BY <1>2 DEF CallsOf, StraysOf, Running, StrayTimers
<1>4. ASSUME NEW f \in Files PROVE Good(u, f, s.globalPaused, G[f])
  <2>1. Good(s, f, s.globalPaused, G[f])
    BY DEF Fine
  <2> QED
    BY <1>2, <1>3, <2>1, Zenon DEF Good, SoundAt
<1>5. Midway(u, {}, s.globalPaused, b, G)
  BY <1>2, <1>4, Zenon DEF Midway
<1> QED
  BY <1>5 DEF u

\* setGlobalPaused keeps the sender's invariant: induction over the transfers done.
LEMMA PauseFine ==
  ASSUME NEW s, NEW G, Fine(s, G), NEW b \in BOOLEAN
  PROVE  Fine(setGlobalPaused(s, b), G)
<1> DEFINE o == s.globalPaused
<1>1. PICK h : /\ setGlobalPaused(s, b) = h[Files]
               /\ \A D \in SUBSET Files : h[D] = PauseStep(s, b, h, D)
  BY PauseFacts, Zenon
<1> DEFINE Bad == {D \in SUBSET Files : ~Midway(h[D], D, o, b, G)}
           N == {Cardinality(D) : D \in Bad}
<1> HIDE DEF o
<1>2. Bad = {}
  <2> SUFFICES ASSUME Bad # {} PROVE FALSE
    BY Zenon
  <2>1. \A D \in SUBSET Files : Cardinality(D) \in Nat
    <3> SUFFICES ASSUME NEW D \in SUBSET Files PROVE Cardinality(D) \in Nat
      BY Zenon
    <3>1. IsFiniteSet(D)
      BY FileSenderAssumption, FS_Subset, Zenon
    <3> QED
      BY <3>1, FS_CardinalityType, Zenon
  <2>2. N \subseteq Nat /\ N # {}
    BY <2>1, Zenon
  <2>3. PICK n \in N : \A m \in N : n <= m
    <3> HIDE DEF N
    <3> QED
      BY <2>2, Least, Zenon
  <2>4. PICK D \in Bad : n = Cardinality(D)
    BY Zenon
  <2>5. D \in SUBSET Files /\ ~Midway(h[D], D, o, b, G)
    BY Zenon
  <2>6. \A E \in SUBSET Files : Cardinality(E) < Cardinality(D) => Midway(h[E], E, o, b, G)
    <3> SUFFICES ASSUME NEW E \in SUBSET Files, Cardinality(E) < Cardinality(D),
                        ~Midway(h[E], E, o, b, G)
                 PROVE  FALSE
      BY Zenon
    <3>1. Cardinality(E) \in N
      BY Zenon
    <3>2. Cardinality(D) <= Cardinality(E) /\ Cardinality(D) \in Nat /\ Cardinality(E) \in Nat
      BY <2>1, <2>3, <2>4, <2>5, <3>1, Zenon
    <3> QED
      BY <3>2
  <2> HIDE DEF Bad, N
  <2>7. CASE D = {}
    <3>1. h[D] = [s EXCEPT !.globalPaused = b]
      BY <1>1, <2>5, <2>7, Zenon DEF PauseStep
    <3> QED
      BY <2>5, <2>7, <3>1, MidwayStart DEF o
  <2>8. CASE D # {}
    <3> DEFINE f == CHOOSE f \in D : TRUE
               x == h[D \ {f}]
    <3>1. f \in D
      BY <2>8, Zenon
    <3>2. h[D] = SetPaused(x, f, b)
      BY <1>1, <2>5, <2>8, Zenon DEF PauseStep
    <3> HIDE DEF f
    <3>3. /\ Cardinality(D) \in Nat /\ Cardinality(D \ {f}) \in Nat
          /\ D \ {f} \in SUBSET Files
          /\ Cardinality(D \ {f}) = Cardinality(D) - 1
      BY <2>5, <3>1, Smaller, Zenon
    <3>4. Midway(x, D \ {f}, o, b, G)
      BY <2>6, <3>3
    <3>5. Midway(SetPaused(x, f, b), D, o, b, G)
      BY <2>5, <3>1, <3>4, MidwayStep, Zenon
    <3> QED
      BY <2>5, <3>2, <3>5, Zenon
  <2> QED
    BY <2>7, <2>8, Zenon
<1>3. Midway(h[Files], Files, o, b, G)
  BY <1>2, Zenon
<1> QED
  BY <1>1, <1>3, Zenon DEF Midway, Fine

-----------------------------------------------------------------------------
(* Without is a recursive function of how much of the sequence is done. *)

KeptStep(q, x, h, n) ==
  IF n = 0 THEN <<>> ELSE IF q[n] = x THEN h[n - 1] ELSE Append(h[n - 1], q[n])

\* Without(q, x) is the value at Len(q) of a recursive function.
LEMMA WithoutDef ==
  ASSUME NEW q, NEW x
  PROVE  Without(q, x) = (CHOOSE h : h = [n \in 0..Len(q) |-> KeptStep(q, x, h, n)])[Len(q)]
BY DEF Without, KeptStep

\* That function exists: it is built up by the length of what is done.
LEMMA KeptExists ==
  ASSUME NEW q, NEW x, Len(q) \in Nat
  PROVE  \E h : h = [n \in 0..Len(q) |-> KeptStep(q, x, h, n)]
<1> DEFINE Upto(h, n) == \A m \in Nat : m <= n => h[m] = KeptStep(q, x, h, m)
           Bad == {n \in Nat : ~\E h : Upto(h, n)}
<1>1. Bad = {}
  <2> SUFFICES ASSUME Bad # {} PROVE FALSE
    OBVIOUS
  <2>1. PICK n \in Bad : \A m \in Bad : n <= m
    BY Least, Zenon
  <2>2. CASE n = 0
    <3> DEFINE g == [m \in Nat |-> <<>>]
    <3>1. Upto(g, 0)
      BY DEF KeptStep
    <3> QED
      BY <2>1, <2>2, <3>1, Zenon
  <2>3. CASE n # 0
    <3>1. n - 1 \in Nat /\ n - 1 \notin Bad
      <4>1. n \in Nat
        BY <2>1, Zenon
      <4> HIDE DEF Bad
      <4> QED
        BY <2>1, <2>3, <4>1
    <3>2. PICK h : Upto(h, n - 1)
      BY <3>1, Zenon
    <3> DEFINE g == [m \in Nat |-> IF m <= n - 1 THEN h[m] ELSE KeptStep(q, x, h, m)]
    <3>3. ASSUME NEW m \in Nat, m <= n PROVE g[m] = KeptStep(q, x, g, m)
      <4>1. g[m] = KeptStep(q, x, h, m)
        BY <3>2, Zenon
      <4>2. CASE m = 0
        BY <4>1, <4>2, Zenon DEF KeptStep
      <4>3. CASE m # 0
        <5>1. m - 1 \in Nat /\ m - 1 <= n - 1
          BY <3>3, <4>3
        <5>2. g[m - 1] = h[m - 1]
          BY <5>1
        <5>3. KeptStep(q, x, h, m) = KeptStep(q, x, g, m)
          BY <5>2, Zenon DEF KeptStep
        <5> QED
          BY <4>1, <5>3, Zenon
      <4> QED
        BY <4>2, <4>3, Zenon
    <3>4. Upto(g, n)
      BY <3>3, Zenon
    <3> QED
      BY <2>1, <3>4, Zenon
  <2> QED
    BY <2>2, <2>3, Zenon
<1>2. PICK h : Upto(h, Len(q))
  BY <1>1, Zenon
<1> DEFINE g == [n \in 0..Len(q) |-> h[n]]
<1>3. ASSUME NEW n \in 0..Len(q) PROVE g[n] = KeptStep(q, x, g, n)
  <2>1. h[n] = KeptStep(q, x, h, n)
    BY <1>2
  <2>2. CASE n = 0
    BY <2>1, <2>2, Zenon DEF KeptStep
  <2>3. CASE n # 0
    <3>1. n - 1 \in 0..Len(q)
      BY <2>3
    <3>2. g[n - 1] = h[n - 1]
      BY <3>1
    <3>3. KeptStep(q, x, h, n) = KeptStep(q, x, g, n)
      BY <3>2, Zenon DEF KeptStep
    <3> QED
      BY <2>1, <3>3, Zenon
  <2> QED
    BY <2>2, <2>3, Zenon
<1>4. g = [n \in 0..Len(q) |-> KeptStep(q, x, g, n)]
  BY <1>3, Zenon
<1> QED
  BY <1>4, Zenon

\* What is left of a sequence is of the same type.
LEMMA WithoutType ==
  ASSUME NEW T, NEW q \in Seq(T), NEW x
  PROVE  Without(q, x) \in Seq(T)
<1> DEFINE h == CHOOSE h : h = [n \in 0..Len(q) |-> KeptStep(q, x, h, n)]
<1>1. Len(q) \in Nat
  OBVIOUS
<1>2. h = [n \in 0..Len(q) |-> KeptStep(q, x, h, n)]
  BY <1>1, KeptExists, Zenon
<1>3. Without(q, x) = h[Len(q)]
  BY WithoutDef, Zenon
<1> HIDE DEF h
<1> DEFINE Bad == {n \in 0..Len(q) : h[n] \notin Seq(T)}
<1>4. Bad = {}
  <2> SUFFICES ASSUME Bad # {} PROVE FALSE
    OBVIOUS
  <2>1. Bad \subseteq Nat
    OBVIOUS
  <2>2. PICK n \in Bad : \A m \in Bad : n <= m
    <3> HIDE DEF Bad
    <3> QED
      BY <2>1, Least, Zenon
  <2>3. n \in 0..Len(q) /\ h[n] \notin Seq(T) /\ h[n] = KeptStep(q, x, h, n)
    BY <1>2, Zenon
  <2>4. CASE n = 0
    BY <2>3, <2>4 DEF KeptStep
  <2>5. CASE n # 0
    <3>1. n - 1 \in 0..Len(q) /\ n - 1 \notin Bad /\ n \in 1..Len(q)
      BY <2>2, <2>3, <2>5
    <3>2. h[n - 1] \in Seq(T) /\ q[n] \in T
      BY <3>1
    <3> QED
      BY <2>3, <2>5, <3>2 DEF KeptStep
  <2> QED
    BY <2>4, <2>5, Zenon
<1>5. Len(q) \in 0..Len(q)
  BY <1>1
<1> QED
  BY <1>3, <1>4, <1>5, Zenon

-----------------------------------------------------------------------------
(* Offering, cancelling, removing and resetting. *)

\* cancel, whether it notifies the peer or not.
LEMMA CancelDone ==
  ASSUME NEW s \in Senders, NEW f \in Files, NEW g, NEW n \in BOOLEAN, Good(s, f, s.globalPaused, g)
  PROVE  Done(s, cancel(s, f, n), f, s.globalPaused, g)
<1> DEFINE t == s.tr[f]
           b == s.globalPaused
           v == Stopped(t, "cancelled")
           w == Put(s, f, v)
           u == emit(w, f)
           x == post(u, "cancel", f)
<1>1. t \in Transfers
  BY RecordOf, Zenon
<1>2. CASE ~t.here
  <2>1. cancel(s, f, n) = s
    BY <1>2, Zenon DEF cancel
  <2> QED
    BY <2>1, NothingDone, Zenon
<1>3. CASE t.here
  <2>1. cancel(s, f, n) = IF n THEN x ELSE u
    <3> DEFINE z == [s EXCEPT !.tr[f].status = "cancelled", !.tr[f].cancelled = TRUE,
                              !.tr[f].inflight = NewTransfer.inflight]
    <3>1. w = z
      BY Zenon DEF NewTransfer, Put, Stopped, Senders, TransferMaps
    <3>2. cancel(s, f, n) = IF n THEN post(emit(z, f), "cancel", f) ELSE emit(z, f)
      BY <1>3, Zenon DEF cancel
    <3> HIDE DEF w, z
    <3> QED
      BY <3>1, <3>2, Zenon
  <2>2. s.digesting[f] = "no" /\ t.acked \subseteq g
    BY <1>3, Zenon DEF Good, SoundAt, Sound, Live
  <2> HIDE DEF v
  <2>3. Keeps(s, f, v, b, g) /\ Fed(v)
    <3> DEFINE C == CallsOf(s, f)
               X == StraysOf(s, f)
    <3>1. "cancelled" \in {"cancelled", "failed"}
      BY Zenon
    <3>2. /\ v \in Transfers /\ Sound(v, b, C, X, "no", f \in s.posting, g)
          /\ Fed(v) /\ Moving(v, C, {})
      <4> HIDE DEF t, C, X
      <4> QED
        BY <1>1, <2>2, <3>1, StoppedSound, Zenon DEF v
    <3> QED
      BY <2>2, <3>2, Zenon DEF Keeps
  <2>4. w \in Senders
    BY <2>3, PutFacts, Zenon DEF Keeps, StepOf
  <2>5. Shown(w, u) /\ u \in Senders
    BY <2>4, EmitShown, Zenon DEF Shown
  <2> HIDE DEF u
  <2>6. Shown(w, x)
    BY <2>4, <2>5, PostShown, ShownTransitive, Zenon
  <2> HIDE DEF x
  <2>7. Done(s, u, f, b, g) /\ Done(s, x, f, b, g)
    BY <2>3, <2>5, <2>6, PutShown, Zenon DEF w
  <2> QED
    BY <2>1, <2>7, Zenon
<1> QED
  BY <1>2, <1>3, Zenon

\* offer, after the digest.
LEMMA OfferDone ==
  ASSUME NEW s \in Senders, NEW f \in Files, NEW g, Good(s, f, s.globalPaused, g),
         s.digesting[f] # "no"
  PROVE  Done(s, offer(s, f), f, s.globalPaused, g)
<1> DEFINE b == s.globalPaused
           d == s.digesting[f]
           new == [NewTransfer EXCEPT !.status = d, !.here = TRUE, !.paused = (d = "queued")]
           m == [s.tr EXCEPT ![f] = new]
           k == [s.digesting EXCEPT ![f] = "no"]
           w == [s EXCEPT !.tr = m, !.digesting = k]
           u == emit(w, f)
           x == sendOffer(u, f)
<1>1. offer(s, f) = IF new.paused THEN u ELSE x
  <2> DEFINE z == [s EXCEPT !.tr[f] = new, !.digesting[f] = "no"]
  <2>1. w = z
    <3> HIDE DEF new
    <3> QED
      BY DEF Senders
  <2>2. offer(s, f) = IF new.paused THEN emit(z, f) ELSE sendOffer(emit(z, f), f)
    BY Zenon DEF offer
  <2> HIDE DEF w, z, new
  <2> QED
    BY <2>1, <2>2, Zenon
<1>2. d \in {"queued", "offered"}
  BY RecordOf, Zenon
<1>3. CallsOf(s, f) = {} /\ StraysOf(s, f) = {} /\ f \notin s.posting
  BY Zenon DEF Good, SoundAt, Sound
<1> HIDE DEF d
<1>4. /\ new \in Transfers /\ new.status = d /\ new.here = TRUE /\ new.next = 0 /\ new.acked = {}
      /\ new.cancelled = FALSE /\ new.inflight = [i \in Chunks |-> NoEntry]
  <2>1. [i \in Chunks |-> NoEntry] \in [Chunks -> Slots]
    BY Zenon DEF Slots
  <2>2. 0 \in 0..Total
    BY FileSenderAssumption
  <2> QED
    BY <1>2, <2>1, <2>2, Zenon DEF NewTransfer, Transfers, Statuses
<1> HIDE DEF new
<1>5. Inflight(new) = {}
  BY <1>4, Zenon DEF Inflight
<1>6. /\ \A p : Sound(new, b, {}, {}, "no", p, g)
      /\ Fed(new) /\ Moving(new, {}, {})
  <2>1. Cardinality({}) = 0 /\ 0..(0 - 1) = {} /\ 0 <= Window
    BY FS_EmptySet, FileSenderAssumption
  <2>2. Windowed(new, {}, {})
    BY <1>4, <1>5, <2>1, Zenon DEF Windowed
  <2> QED
    BY <1>2, <1>4, <1>5, <2>2, Zenon DEF Sound, Live, Fed, Moving
<1>7. /\ s.tr \in TransferMaps /\ s.digesting \in Digests
  BY Zenon DEF Senders
<1>8. /\ m \in TransferMaps /\ m[f] = new /\ \A h \in Files \ {f} : m[h] = s.tr[h]
      /\ k \in Digests /\ k[f] = "no" /\ \A h \in Files \ {f} : k[h] = s.digesting[h]
  BY <1>4, <1>7, Zenon DEF TransferMaps, Digests
<1> HIDE DEF m, k
<1>9. /\ w \in Senders /\ w.globalPaused = b /\ w.tr = m /\ w.digesting = k
      /\ w.posting = s.posting /\ w.calls = s.calls /\ w.stray = s.stray
  BY <1>8, Zenon DEF Senders
<1> HIDE DEF w
<1>10. \A h \in Files : CallsOf(w, h) = CallsOf(s, h) /\ StraysOf(w, h) = StraysOf(s, h)
  BY <1>9, Zenon DEF CallsOf, StraysOf, Running, StrayTimers
<1>11. StepOf(s, w, f)
  BY <1>8, <1>9, <1>10, Zenon DEF StepOf, AtRest, Offered
<1>12. Good(w, f, b, g)
  <2>1. w.tr[f] = new /\ CallsOf(w, f) = {} /\ StraysOf(w, f) = {} /\ w.digesting[f] = "no"
    BY <1>3, <1>8, <1>9, <1>10, Zenon
  <2> QED
    BY <1>6, <2>1, Zenon DEF Good, SoundAt
<1>13. Shown(w, u) /\ u \in Senders
  BY <1>9, EmitShown, Zenon DEF Shown
<1> HIDE DEF u
<1>14. u.tr[f].status # "none"
  <2> DEFINE y == u.tr[f]
  <2>1. Offered(new, y)
    BY <1>8, <1>9, <1>13, Zenon DEF Shown
  <2> HIDE DEF y
  <2>2. y.status # "none"
    BY <1>2, <1>4, <2>1, Zenon DEF Offered, Transfers
  <2> QED
    BY <2>2, Zenon DEF y
<1>15. Shown(w, x)
  BY <1>9, <1>13, <1>14, SendOfferShown, ShownTransitive, Zenon
<1>16. ASSUME NEW y, Shown(w, y) PROVE Done(s, y, f, b, g)
  <2>1. AtRest(w, y, f) /\ StepOf(w, y, f) /\ y \in Senders
    BY <1>9, <1>16, ShownAtRest, ShownStepOf, Zenon DEF Shown
  <2>2. SoundAt(y, f, b, g) /\ Fed(y.tr[f]) /\ Moving(y.tr[f], CallsOf(y, f), {})
    BY <1>9, <1>12, <2>1, AtRestSound, Zenon DEF Good
  <2>3. StepOf(s, y, f)
    BY <1>11, <2>1, StepOfTransitive, Zenon
  <2> QED
    BY <2>1, <2>2, <2>3, Zenon DEF Done
<1> QED
  BY <1>1, <1>13, <1>15, <1>16, Zenon

\* A step that touches nothing the invariant is about.
LEMMA TouchedShown ==
  ASSUME NEW s \in Senders, NEW u \in Senders, u.tr = s.tr, u.globalPaused = s.globalPaused,
         u.digesting = s.digesting, u.calls = s.calls, u.stray = s.stray, u.posting \subseteq s.posting
  PROVE  Shown(s, u)
BY DEF Shown, Offered

\* removeFile: a transfer that has not ended stays in the map.
LEMMA RemoveDone ==
  ASSUME NEW s \in Senders, NEW f \in Files, NEW g, Good(s, f, s.globalPaused, g)
  PROVE  Done(s, removeFile(s, f), f, s.globalPaused, g)
<1> DEFINE t == s.tr[f]
           b == s.globalPaused
           C == CallsOf(s, f)
           X == StraysOf(s, f)
           d == s.digesting[f]
           p == f \in s.posting
           e == IF t.status \in Terminal THEN FALSE ELSE t.here
           v == [t EXCEPT !.here = e]
           w == Put(s, f, v)
           m == [s.shown EXCEPT ![f] = "none"]
           q == Without(s.order, f)
           u == [w EXCEPT !.shown = m, !.order = q]
<1>1. t \in Transfers
  BY RecordOf, Zenon
<1>2. Sound(t, b, C, X, d, p, g) /\ Fed(t) /\ Moving(t, C, {})
  BY Zenon DEF Good, SoundAt
<1>3. m \in Views /\ q \in Orders
  <2>1. s.shown \in Views /\ s.order \in Seq(Files)
    BY DEF Senders, Orders
  <2>2. q \in Seq(Files)
    BY <2>1, WithoutType, Zenon
  <2> QED
    BY <2>1, <2>2, Zenon DEF Views, Statuses, Orders
<1> HIDE DEF q
<1>4. removeFile(s, f) = u
  <2> HIDE DEF e
  <2>1. removeFile(s, f) = [s EXCEPT !.tr[f].here = e, !.shown[f] = "none", !.order = q]
    BY Zenon DEF removeFile, e, q
  <2>2. [s EXCEPT !.tr[f].here = e, !.shown[f] = "none", !.order = q] = u
    BY DEF Put, Senders
  <2> QED
    BY <2>1, <2>2, Zenon
<1> HIDE DEF m
<1>5. e \in BOOLEAN /\ (e => t.here)
  BY <1>1, Zenon DEF Transfers
<1> HIDE DEF e
<1>6. /\ v \in Transfers /\ v.here = e /\ v.status = t.status /\ v.accepted = t.accepted
      /\ v.paused = t.paused /\ v.cancelled = t.cancelled /\ v.next = t.next
      /\ v.acked = t.acked /\ v.inflight = t.inflight
  BY <1>1, <1>5, Zenon DEF Transfers
<1> HIDE DEF v
<1>7. Inflight(v) = Inflight(t)
  BY <1>6, Zenon DEF Inflight
<1>8. Sound(v, b, C, X, d, p, g) /\ Fed(v) /\ Moving(v, C, {})
  <2> HIDE DEF t, b, C, X, d, p
  <2>1. Live(t, b, C, X) => Live(v, b, C, X)
    BY <1>6, <1>7, Zenon DEF Live, Windowed
  <2> QED
    BY <1>2, <1>5, <1>6, <1>7, <2>1, Zenon DEF Sound, Fed, Moving
<1>9. Keeps(s, f, v, b, g)
  BY <1>6, <1>8, Zenon DEF Keeps
<1>10. w \in Senders
  BY <1>6, PutFacts, Zenon DEF StepOf
<1> HIDE DEF w
<1>11. /\ u \in Senders /\ u.tr = w.tr /\ u.globalPaused = w.globalPaused /\ u.digesting = w.digesting
       /\ u.calls = w.calls /\ u.stray = w.stray /\ u.posting = w.posting
  BY <1>3, <1>10, Zenon DEF Senders
<1> HIDE DEF u
<1>12. Shown(w, u)
  BY <1>10, <1>11, TouchedShown, Zenon
<1> QED
  BY <1>4, <1>8, <1>9, <1>12, PutShown, Zenon DEF w

\* reset: no transfer is left in the map.
LEMMA ResetFine ==
  ASSUME NEW s, NEW G, Fine(s, G)
  PROVE  Fine(reset(s), G)
<1> DEFINE fl == [i \in Chunks |-> NoEntry]
           Gone(t) == IF t.here THEN [t EXCEPT !.here = FALSE, !.inflight = fl] ELSE t
           m == [f \in Files |-> Gone(s.tr[f])]
           sh == [f \in Files |-> "none"]
           w == [s EXCEPT !.tr = m, !.globalPaused = FALSE, !.voice = {}]
           no == <<>>
           u == [w EXCEPT !.shown = sh, !.order = no, !.secure = FALSE]
<1>1. s \in Senders /\ s.tr \in TransferMaps
  BY DEF Fine, Senders
<1>2. reset(s) = u
  <2>1. NewTransfer.inflight = fl /\ NewSender.shown = sh
    BY Zenon DEF NewTransfer, NewSender
  <2> HIDE DEF fl, sh
  <2> QED
    BY <1>1, <2>1, Zenon DEF reset
<1>3. fl \in [Chunks -> Slots] /\ \A i \in Chunks : fl[i] = NoEntry
  BY DEF Slots
<1> HIDE DEF fl
<1>4. ASSUME NEW t \in Transfers
      PROVE  /\ Gone(t) \in Transfers /\ Gone(t).here = FALSE /\ Gone(t).status = t.status
             /\ Gone(t).acked = t.acked /\ Gone(t).cancelled = t.cancelled
             /\ Gone(t).inflight \in {fl, t.inflight}
  BY <1>3, Zenon DEF Transfers
<1>5. ASSUME NEW t \in Transfers, NEW b, NEW C, NEW X, NEW d, NEW p, NEW g, Sound(t, b, C, X, d, p, g)
      PROVE  Sound(Gone(t), FALSE, C, X, d, p, g) /\ Fed(Gone(t)) /\ Moving(Gone(t), C, {})
  <2> DEFINE v == Gone(t)
  <2>1. /\ v.here = FALSE /\ v.status = t.status /\ v.acked = t.acked /\ v.cancelled = t.cancelled
        /\ v.inflight \in {fl, t.inflight}
    BY <1>4, Zenon
  <2> HIDE DEF v
  <2>2. Inflight(v) \subseteq Inflight(t)
    BY <1>3, <2>1, Zenon DEF Inflight
  <2>3. Sound(v, FALSE, C, X, d, p, g) /\ Fed(v) /\ Moving(v, C, {})
    BY <1>5, <2>1, <2>2, Zenon DEF Sound, Fed, Moving
  <2> QED
    BY <2>3, Zenon DEF v
<1>6. m \in TransferMaps /\ \A f \in Files : m[f] = Gone(s.tr[f])
  <2> HIDE DEF Gone
  <2> QED
    BY <1>1, <1>4, Zenon DEF TransferMaps
<1>7. sh \in Views
  BY DEF Views, Statuses
<1> HIDE DEF m, Gone, sh
<1>8. /\ u \in Senders /\ u.globalPaused = FALSE /\ u.tr = m /\ u.digesting = s.digesting
      /\ u.posting = s.posting /\ u.calls = s.calls /\ u.stray = s.stray
  <2>1. /\ w \in Senders /\ w.globalPaused = FALSE /\ w.tr = m /\ w.digesting = s.digesting
        /\ w.posting = s.posting /\ w.calls = s.calls /\ w.stray = s.stray
    BY <1>1, <1>6, Zenon DEF Senders
  <2>2. no \in Orders
    BY DEF Orders
  <2> HIDE DEF w, no
  <2> QED
    BY <1>7, <2>1, <2>2, Zenon DEF Senders
<1> HIDE DEF u
<1>9. \A h \in Files : CallsOf(u, h) = CallsOf(s, h) /\ StraysOf(u, h) = StraysOf(s, h)
  BY <1>8, Zenon DEF CallsOf, StraysOf, Running, StrayTimers
<1>10. ASSUME NEW f \in Files PROVE Good(u, f, FALSE, G[f])
  <2> DEFINE t == s.tr[f]
             C == CallsOf(s, f)
             X == StraysOf(s, f)
             d == s.digesting[f]
             p == f \in s.posting
  <2>1. t \in Transfers /\ Sound(t, s.globalPaused, C, X, d, p, G[f])
    BY <1>1, RecordOf, Zenon DEF Fine, Good, SoundAt
  <2> HIDE DEF t, C, X, d, p
  <2>2. Sound(Gone(t), FALSE, C, X, d, p, G[f]) /\ Fed(Gone(t)) /\ Moving(Gone(t), C, {})
    BY <1>5, <2>1, Zenon
  <2>3. u.tr[f] = Gone(t) /\ CallsOf(u, f) = C /\ StraysOf(u, f) = X /\ u.digesting[f] = d
    BY <1>6, <1>8, <1>9, Zenon DEF t, C, X, d
  <2>4. u.posting = s.posting
    BY <1>8, Zenon
  <2> QED
    BY <2>2, <2>3, <2>4, Zenon DEF Good, SoundAt, p
<1> QED
  BY <1>2, <1>8, <1>10, Zenon DEF Fine

\* updateFilePauseForVoice.
LEMMA VoiceFine ==
  ASSUME NEW s, NEW G, Fine(s, G), NEW v \in SUBSET {"local", "remote"}
  PROVE  Fine(updateFilePauseForVoice(s, v), G)
<1> DEFINE w == [s EXCEPT !.voice = v]
           b == v # {}
           u == setGlobalPaused(w, b)
<1>1. s \in Senders
  BY DEF Fine
<1>2. /\ w \in Senders /\ w.tr = s.tr /\ w.globalPaused = s.globalPaused /\ w.digesting = s.digesting
      /\ w.calls = s.calls /\ w.stray = s.stray /\ w.posting = s.posting
  BY <1>1, Zenon DEF Senders
<1>3. updateFilePauseForVoice(s, v) = IF v = {} THEN startNext(u) ELSE u
  BY Zenon DEF updateFilePauseForVoice
<1> HIDE DEF w
<1>4. Shown(s, w)
  BY <1>1, <1>2, TouchedShown, Zenon
<1>5. Fine(w, G)
  BY <1>4, ShownFine, Zenon
<1>6. b \in BOOLEAN
  BY Zenon
<1> HIDE DEF b
<1>7. Fine(u, G)
  BY <1>5, <1>6, PauseFine, Zenon
<1> HIDE DEF u
<1>8. Fine(startNext(u), G)
  BY <1>7, StartNextShown, ShownFine, Zenon DEF Fine
<1> QED
  BY <1>3, <1>7, <1>8, Zenon

-----------------------------------------------------------------------------
(* The steps of the sender. *)

\* The sender's invariant after a step of f that begins with another of f.
LEMMA AfterFine ==
  ASSUME NEW s, NEW G, Fine(s, G), NEW f \in Files, NEW w, StepOf(s, w, f),
         NEW u, Done(w, u, f, w.globalPaused, G[f])
  PROVE  Fine(u, G)
<1>1. s \in Senders /\ w.globalPaused = s.globalPaused
  BY Zenon DEF Fine, StepOf
<1>2. Done(w, u, f, s.globalPaused, G[f])
  BY <1>1, Zenon
<1>3. Done(s, u, f, s.globalPaused, G[f])
  BY <1>1, <1>2, DoneAfter, Zenon
<1> QED
  BY <1>3, DoneFine, Zenon

\* v has the entries of t, that of chunk i in another state.
Renamed(t, v, i) ==
  /\ v \in Transfers /\ Inflight(v) = Inflight(t)
  /\ v.status = t.status /\ v.here = t.here /\ v.accepted = t.accepted
  /\ v.paused = t.paused /\ v.cancelled = t.cancelled /\ v.next = t.next /\ v.acked = t.acked
  /\ \A j \in Chunks \ {i} : v.inflight[j] = t.inflight[j]

\* A call, a stray timer or a timer of chunk i has been taken away.
LEMMA TakenReady ==
  ASSUME NEW s, NEW f \in Files, NEW i \in Chunks, NEW g, s \in Senders,
         Good(s, f, s.globalPaused, g),
         i \in CallsOf(s, f) \cup StraysOf(s, f) \cup Inflight(s.tr[f]),
         NEW w, NEW v, NEW C, NEW X, Core(s, w, f, v, C, X), Renamed(s.tr[f], v, i),
         C \subseteq CallsOf(s, f), CallsOf(s, f) \subseteq C \cup {i}, X \subseteq StraysOf(s, f)
  PROVE  StepOf(s, w, f) /\ Ready(w, f, i, g)
<1> DEFINE t == s.tr[f]
           b == s.globalPaused
           D == CallsOf(s, f)
           Y == StraysOf(s, f)
           d == s.digesting[f]
           p == f \in s.posting
<1>1. /\ Sound(t, b, D, Y, d, p, g) /\ Moving(t, D, {}) /\ Fed(t)
      /\ i \in D \cup Y \cup Inflight(t) /\ Renamed(t, v, i)
      /\ C \subseteq D /\ D \subseteq C \cup {i} /\ X \subseteq Y
  BY Zenon DEF Good, SoundAt
<1>2. /\ StepOf(s, w, f) /\ w.tr[f] = v /\ CallsOf(w, f) = C /\ StraysOf(w, f) = X
      /\ w.digesting = s.digesting /\ w.posting = s.posting
  BY Zenon DEF Core
<1>3. w \in Senders /\ w.globalPaused = b
  BY <1>2 DEF StepOf
<1> HIDE DEF t, b, D, Y, d, p
<1>4. t.status # "none"
  BY <1>1, Zenon DEF Sound
<1>5. ASSUME Live(t, b, D, Y) PROVE Live(v, b, C, X) /\ (~t.cancelled => i < t.next)
  <2>1. Windowed(t, D, Y) => Windowed(v, C, X) /\ i \in 0..(t.next - 1)
    BY <1>1, Zenon DEF Windowed, Renamed
  <2>2. t.next \in Nat
    <3>1. v \in Transfers /\ v.next = t.next
      BY <1>1, Zenon DEF Renamed
    <3> QED
      BY <3>1 DEF Transfers
  <2>3. /\ t.status # "none"
        /\ IF t.cancelled THEN Inflight(t) = {} ELSE Windowed(t, D, Y)
        /\ t.status \in {"queued", "offered"} => t.next = 0
        /\ t.status = "sending" => t.accepted /\ ~t.paused /\ ~b
        /\ t.status = "paused" => t.accepted /\ b
    BY <1>5, Zenon DEF Live
  <2>4. /\ Inflight(v) = Inflight(t)
        /\ v.status = t.status /\ v.accepted = t.accepted
        /\ v.paused = t.paused /\ v.cancelled = t.cancelled /\ v.next = t.next
    BY <1>1, Zenon DEF Renamed
  <2>5. Live(v, b, C, X)
    BY <2>1, <2>3, <2>4, Zenon DEF Live
  <2>6. ~t.cancelled => i \in 0..(t.next - 1)
    BY <2>1, <2>3, Zenon
  <2> QED
    BY <2>2, <2>5, <2>6
<1>6. Sound(v, b, C, X, d, p, g)
  BY <1>1, <1>4, <1>5, Zenon DEF Sound, Renamed
<1>7. Moving(v, C, {i})
  <2> SUFFICES ASSUME v.here, v.status \in {"sending", "paused"}, NEW j \in Inflight(v) \ {i}
               PROVE  \/ v.inflight[j].state \in Timed
                      \/ v.inflight[j].state = "sending" /\ j \in C
                      \/ v.inflight[j].state = "hold" /\ v.status = "paused"
    BY Zenon DEF Moving
  <2>1. j \in Inflight(t) /\ j \in Chunks \ {i} /\ t.here /\ t.status = v.status
        /\ v.inflight[j] = t.inflight[j]
    BY <1>1, Zenon DEF Renamed, Inflight
  <2> QED
    BY <1>1, <2>1, Zenon DEF Moving
<1>8. Fed(v)
  BY <1>1, Zenon DEF Fed, Renamed
<1>9. v.status # "none" /\ (v.here /\ ~v.cancelled => i < v.next)
  BY <1>1, <1>4, <1>5, Zenon DEF Sound, Renamed
<1>10. SoundAt(w, f, w.globalPaused, g)
  BY <1>2, <1>3, <1>6, Zenon DEF SoundAt, d, p
<1> QED
  BY <1>2, <1>3, <1>7, <1>8, <1>9, <1>10, Zenon DEF Ready

\* An unchanged record has its entries.
LEMMA SameRenamed ==
  ASSUME NEW t \in Transfers, NEW i
  PROVE  Renamed(t, t, i)
BY DEF Renamed

\* A sendChunk call resumes after its await.
LEMMA CallReady ==
  ASSUME NEW s, NEW G, Fine(s, G), NEW c \in Running(s)
  PROVE  /\ c.file \in Files /\ c.index \in Chunks /\ c.attempts \in Attempts
         /\ StepOf(s, [s EXCEPT !.calls[c] = @ - 1], c.file)
         /\ Ready([s EXCEPT !.calls[c] = @ - 1], c.file, c.index, G[c.file])
         /\ [s EXCEPT !.calls[c] = @ - 1].tr = s.tr
<1> DEFINE w == [s EXCEPT !.calls[c] = @ - 1]
           f == c.file
           i == c.index
<1>1. s \in Senders
  BY DEF Fine
<1>2. PICK C : /\ CallsOf(s, f) \subseteq C \cup {i} /\ C \subseteq CallsOf(s, f)
               /\ Core(s, w, f, s.tr[f], C, StraysOf(s, f))
  BY <1>1, CallGone, Zenon
<1>3. f \in Files /\ i \in Chunks /\ c.attempts \in Attempts /\ i \in CallsOf(s, f)
  BY DEF Running, Call, CallsOf, Attempts
<1>4. w.tr = s.tr
  BY <1>1, Zenon DEF Senders
<1> HIDE DEF w, f, i
<1>5. Good(s, f, s.globalPaused, G[f])
  BY <1>3, Zenon DEF Fine
<1>6. Renamed(s.tr[f], s.tr[f], i)
  BY <1>1, <1>3, RecordOf, SameRenamed, Zenon
<1>7. StepOf(s, w, f) /\ Ready(w, f, i, G[f])
  <2>1. i \in CallsOf(s, f) \cup StraysOf(s, f) \cup Inflight(s.tr[f]) /\ StraysOf(s, f) \subseteq StraysOf(s, f)
    BY <1>3, Zenon
  <2> QED
    BY <1>1, <1>2, <1>3, <1>5, <1>6, <2>1, TakenReady, Zenon
<1> QED
  BY <1>3, <1>4, <1>7, Zenon DEF w, f, i

\* A stray timer is due.
LEMMA StrayReady ==
  ASSUME NEW s, NEW G, Fine(s, G), NEW x \in StrayTimers(s)
  PROVE  /\ x.file \in Files /\ x.index \in Chunks /\ x.attempts \in Attempts /\ x.kind \in Timed
         /\ StepOf(s, [s EXCEPT !.stray[x] = @ - 1], x.file)
         /\ Ready([s EXCEPT !.stray[x] = @ - 1], x.file, x.index, G[x.file])
<1> DEFINE w == [s EXCEPT !.stray[x] = @ - 1]
           f == x.file
           i == x.index
<1>1. s \in Senders
  BY DEF Fine
<1>2. PICK X : /\ X \subseteq StraysOf(s, f)
               /\ Core(s, w, f, s.tr[f], CallsOf(s, f), X)
  BY <1>1, StrayGone, Zenon
<1>3. /\ f \in Files /\ i \in Chunks /\ x.attempts \in Attempts /\ x.kind \in Timed
      /\ i \in StraysOf(s, f)
  BY Zenon DEF StrayTimers, Timer, StraysOf, Attempts, Timed
<1> HIDE DEF w, f, i
<1>5. Good(s, f, s.globalPaused, G[f])
  BY <1>3, Zenon DEF Fine
<1>6. Renamed(s.tr[f], s.tr[f], i)
  BY <1>1, <1>3, RecordOf, SameRenamed, Zenon
<1>7. StepOf(s, w, f) /\ Ready(w, f, i, G[f])
  <2>1. /\ i \in CallsOf(s, f) \cup StraysOf(s, f) \cup Inflight(s.tr[f])
        /\ CallsOf(s, f) \subseteq CallsOf(s, f) \cup {i} /\ CallsOf(s, f) \subseteq CallsOf(s, f)
    BY <1>3, Zenon
  <2> QED
    BY <1>1, <1>2, <1>3, <1>5, <1>6, <2>1, TakenReady, Zenon
<1> QED
  BY <1>3, <1>7, Zenon DEF w, f, i

\* The timer of an entry is due.
LEMMA TimerReady ==
  ASSUME NEW s, NEW G, Fine(s, G), NEW f \in Files, NEW i \in Chunks,
         s.tr[f].inflight[i].state \in Timed
  PROVE  /\ s.tr[f].inflight[i].attempts \in Attempts
         /\ StepOf(s, [s EXCEPT !.tr[f].inflight[i].state = "sending"], f)
         /\ Ready([s EXCEPT !.tr[f].inflight[i].state = "sending"], f, i, G[f])
<1> DEFINE t == s.tr[f]
           e == t.inflight[i]
           n == [e EXCEPT !.state = "sending"]
           v == [t EXCEPT !.inflight[i] = n]
           w == Put(s, f, v)
<1>1. s \in Senders /\ t \in Transfers
  BY RecordOf DEF Fine
<1>2. w = [s EXCEPT !.tr[f].inflight[i].state = "sending"]
  BY <1>1, Zenon DEF Put, Senders, TransferMaps, Transfers
<1>3. e \in Slots /\ e.state \in Timed
  BY <1>1, Zenon DEF Transfers
<1>4. i \in Inflight(t)
  BY <1>3 DEF Inflight, NoEntry, Timed
<1> HIDE DEF e
<1>5. e.attempts \in Attempts /\ n \in Slots /\ n # NoEntry
  BY <1>3, FileSenderAssumption DEF Slots, NoEntry, Timed, Parked, Attempts
<1> HIDE DEF n
<1>6. Slotted(t, v, i)
  BY <1>1, <1>5, EntrySlotted, Zenon
<1> HIDE DEF v
<1>7. Renamed(t, v, i)
  BY <1>4, <1>6, Zenon DEF Slotted, Renamed, Inflight
<1>8. Core(s, w, f, v, CallsOf(s, f), StraysOf(s, f))
  BY <1>1, <1>6, PutCore, Zenon DEF Slotted
<1>9. Good(s, f, s.globalPaused, G[f])
  BY DEF Fine
<1> HIDE DEF w
<1>10. StepOf(s, w, f) /\ Ready(w, f, i, G[f])
  <2>1. /\ i \in CallsOf(s, f) \cup StraysOf(s, f) \cup Inflight(s.tr[f])
        /\ CallsOf(s, f) \subseteq CallsOf(s, f) \cup {i} /\ CallsOf(s, f) \subseteq CallsOf(s, f)
        /\ StraysOf(s, f) \subseteq StraysOf(s, f)
    BY <1>4, Zenon
  <2> QED
    BY <1>1, <1>7, <1>8, <1>9, <2>1, TakenReady, Zenon
<1> QED
  BY <1>2, <1>5, <1>10, Zenon DEF e

\* A timer fires.
LEMMA FireDone ==
  ASSUME NEW s, NEW f \in Files, NEW i \in Chunks, NEW g, Ready(s, f, i, g),
         NEW k \in Timed, NEW a \in Attempts
  PROVE  Done(s, Fire(s, f, i, k, a), f, s.globalPaused, g)
<1>1. a + 1 \in Nat \ {0} /\ a + 1 > 1
  BY FileSenderAssumption DEF Attempts
<1>2. Done(s, scheduleRetry(s, f, i, a + 1), f, s.globalPaused, g)
  BY <1>1, ScheduleRetryDone, Zenon
<1>3. Done(s, sendChunk(s, f, i, a + 1), f, s.globalPaused, g)
  BY <1>1, SendChunkDone, Zenon
<1> QED
  BY <1>2, <1>3, Zenon DEF Fire

\* A chunk was sent.
LEMMA SentDone ==
  ASSUME NEW s, NEW f \in Files, NEW i \in Chunks, NEW g, Ready(s, f, i, g), NEW a \in Attempts
  PROVE  Done(s, IF s.tr[f].cancelled \/ i \in s.tr[f].acked THEN s
                 ELSE emit(Overwrite(s, f, i, Entry(a, "ack")), f), f, s.globalPaused, g)
<1> DEFINE t == s.tr[f]
           e == Entry(a, "ack")
           w == Overwrite(s, f, i, e)
           u == emit(w, f)
           v == [t EXCEPT !.inflight[i] = e]
<1>1. s \in Senders /\ t \in Transfers
  BY RecordOf, Zenon DEF Ready
<1>2. CASE t.cancelled \/ i \in t.acked
  BY <1>2, NothingToDo, Zenon
<1>3. CASE ~(t.cancelled \/ i \in t.acked)
  <2>1. e \in Slots /\ e # NoEntry /\ e.state = "ack"
    BY DEF Entry, NoEntry, Slots, Timed
  <2> HIDE DEF e
  <2>2. PICK Y : Y \subseteq StraysOf(s, f) \cup {i} /\ Core(s, w, f, v, CallsOf(s, f), Y)
    BY <1>1, <2>1, OverwriteCore
  <2>3. Slotted(t, v, i) /\ v.inflight[i] = e
    BY <1>1, <2>1, EntrySlotted
  <2> HIDE DEF v, w
  <2>4. Carried(v, i, CallsOf(s, f))
    BY <2>1, <2>3, Zenon DEF Carried, Timed
  <2>5. Shown(w, u)
    BY <2>2, EmitShown, Zenon DEF Core, StepOf
  <2>6. CallsOf(s, f) \subseteq CallsOf(s, f) \cup {i}
    OBVIOUS
  <2> HIDE DEF u
  <2>7. Renews(s, f, i, u, w, v, CallsOf(s, f), Y)
    BY <2>2, <2>3, <2>4, <2>5, <2>6, Zenon DEF Renews
  <2>8. Done(s, u, f, s.globalPaused, g)
    BY <1>3, <2>7, SlottedDone, Zenon
  <2> QED
    BY <1>3, <2>8, Zenon DEF u, w, e
<1> QED
  BY <1>2, <1>3, Zenon

-----------------------------------------------------------------------------
(* Steps of the whole sender. *)

\* A step changes only what the transfers do not depend on.
LEMMA CtlFine ==
  ASSUME NEW s, NEW G, Fine(s, G), NEW q \in Seq(Notes)
  PROVE  [s EXCEPT !.ctl = q] \in Senders /\ Fine([s EXCEPT !.ctl = q], G)
<1> DEFINE u == [s EXCEPT !.ctl = q]
<1>1. s \in Senders
  BY DEF Fine
<1>2. /\ u \in Senders /\ u.tr = s.tr /\ u.globalPaused = s.globalPaused
      /\ u.digesting = s.digesting /\ u.calls = s.calls /\ u.stray = s.stray /\ u.posting = s.posting
  BY <1>1, Zenon DEF Senders
<1> HIDE DEF u
<1> QED
  BY <1>1, <1>2, TouchedShown, ShownFine, Zenon DEF u

\* sendOffer ends.
LEMMA PostingFine ==
  ASSUME NEW s, NEW G, Fine(s, G), NEW f
  PROVE  Fine([s EXCEPT !.posting = @ \ {f}], G)
<1> DEFINE u == [s EXCEPT !.posting = @ \ {f}]
<1>1. s \in Senders
  BY DEF Fine
<1>2. /\ u \in Senders /\ u.tr = s.tr /\ u.globalPaused = s.globalPaused
      /\ u.digesting = s.digesting /\ u.calls = s.calls /\ u.stray = s.stray
      /\ u.posting \subseteq s.posting
  BY <1>1, Zenon DEF Senders
<1> HIDE DEF u
<1> QED
  BY <1>1, <1>2, TouchedShown, ShownFine, Zenon DEF u

\* cancelFile awaits sendApp, or no longer does.
LEMMA WakingFine ==
  ASSUME NEW s, NEW G, Fine(s, G), NEW W \in SUBSET Files
  PROVE  Fine([s EXCEPT !.waking = W], G)
<1> DEFINE u == [s EXCEPT !.waking = W]
<1>1. s \in Senders
  BY DEF Fine
<1>2. /\ u \in Senders /\ u.tr = s.tr /\ u.globalPaused = s.globalPaused
      /\ u.digesting = s.digesting /\ u.calls = s.calls /\ u.stray = s.stray
      /\ u.posting \subseteq s.posting
  BY <1>1, Zenon DEF Senders
<1> HIDE DEF u
<1> QED
  BY <1>1, <1>2, TouchedShown, ShownFine, Zenon DEF u

\* startNextQueuedFileIfAllowed keeps the sender's invariant.
LEMMA NextFine ==
  ASSUME NEW s, NEW G, Fine(s, G)
  PROVE  Fine(startNext(s), G)
BY StartNextShown, ShownFine, Zenon DEF Fine

\* The digest of a transfer that does not exist yet starts.
LEMMA OfferFileFine ==
  ASSUME NEW s, NEW G, Fine(s, G), NEW f \in Files, s.tr[f].status = "none"
  PROVE  Fine(offerFile(s, f), G)
<1> DEFINE u == offerFile(s, f)
           d == IF isVoiceActive(s) \/ hasActiveFile(s) THEN "queued" ELSE "offered"
<1>1. s \in Senders
  BY DEF Fine
<1>2. u = [s EXCEPT !.digesting[f] = d] /\ d \in {"no", "queued", "offered"}
  BY Zenon DEF offerFile
<1> HIDE DEF u, d
<1>3. /\ u \in Senders /\ u.tr = s.tr /\ u.globalPaused = s.globalPaused
      /\ u.calls = s.calls /\ u.stray = s.stray /\ u.posting = s.posting
      /\ \A h \in Files \ {f} : u.digesting[h] = s.digesting[h]
  BY <1>1, <1>2, Zenon DEF Senders, Digests
<1>4. ASSUME NEW h \in Files PROVE Good(u, h, u.globalPaused, G[h])
  <2>1. Good(s, h, s.globalPaused, G[h])
    BY Zenon DEF Fine
  <2>2. CallsOf(u, h) = CallsOf(s, h) /\ StraysOf(u, h) = StraysOf(s, h)
    BY <1>3, Zenon DEF CallsOf, StraysOf, Running, StrayTimers
  <2>3. SoundAt(u, h, u.globalPaused, G[h])
    <3>1. CASE h = f
      BY <1>3, <2>1, <2>2, <3>1, Zenon DEF Good, SoundAt, Sound
    <3>2. CASE h # f
      BY <1>3, <2>1, <2>2, <3>2, Zenon DEF Good, SoundAt
    <3> QED
      BY <3>1, <3>2, Zenon
  <2> QED
    BY <1>3, <2>1, <2>2, <2>3, Zenon DEF Good
<1> QED
  BY <1>3, <1>4, Zenon DEF Fine, u

\* sendApp does not take the offer: it fails.
LEMMA OfferFailedFine ==
  ASSUME NEW s, NEW G, Fine(s, G), NEW f \in s.posting, NEW m
  PROVE  Fine(fail([s EXCEPT !.posting = @ \ {f}, !.ctl = Without(@, m)], f), G)
<1> DEFINE q == Without(s.ctl, m)
           x == [s EXCEPT !.posting = @ \ {f}]
           u == [x EXCEPT !.ctl = q]
<1>1. s \in Senders /\ f \in Files
  BY Zenon DEF Fine, Senders
<1>2. q \in Seq(Notes)
  <2>1. s.ctl \in Seq(Notes)
    BY <1>1, Zenon DEF Senders
  <2> QED
    BY <2>1, WithoutType, Zenon
<1>3. [s EXCEPT !.posting = @ \ {f}, !.ctl = Without(@, m)] = u
  BY <1>1, Zenon DEF Senders
<1>4. u.tr = s.tr /\ u.digesting = s.digesting
  BY <1>1, Zenon DEF Senders
<1> HIDE DEF q
<1>5. Fine(x, G)
  BY PostingFine, Zenon
<1> HIDE DEF x
<1>6. u \in Senders /\ Fine(u, G)
  BY <1>2, <1>5, CtlFine, Zenon
<1>7. u.tr[f].acked \subseteq G[f] /\ u.digesting[f] = "no"
  <2>1. Good(s, f, s.globalPaused, G[f])
    BY <1>1, Zenon DEF Fine
  <2>2. s.tr[f].acked \subseteq G[f] /\ s.digesting[f] = "no"
    BY <2>1, Zenon DEF Good, SoundAt, Sound
  <2> QED
    BY <1>4, <2>2, Zenon
<1> HIDE DEF u
<1>8. Done(u, fail(u, f), f, u.globalPaused, G[f])
  BY <1>1, <1>6, <1>7, FailDone, Zenon
<1>9. Fine(fail(u, f), G)
  BY <1>1, <1>6, <1>8, DoneFine, Zenon
<1> QED
  BY <1>3, <1>9, Zenon

\* cancelFile, and its end.
LEMMA CancelFileFine ==
  ASSUME NEW s, NEW G, Fine(s, G), NEW f \in Files
  PROVE  Fine(cancelFile(s, f), G) /\ Fine(cancelFileDone(s, f), G)
<1> DEFINE u == cancel(s, f, TRUE)
<1>1. s \in Senders /\ Good(s, f, s.globalPaused, G[f])
  BY DEF Fine
<1>2. Fine(u, G)
  BY <1>1, CancelDone, DoneFine, Zenon
<1>3. u \in Senders
  BY <1>2, Zenon DEF Fine
<1>4. cancelFile(s, f) \in {[u EXCEPT !.waking = @ \cup {f}], startNext(s)}
  BY Zenon DEF cancelFile
<1> HIDE DEF u
<1>5. Fine([u EXCEPT !.waking = u.waking \cup {f}], G)
  <2>1. u.waking \cup {f} \in SUBSET Files
    BY <1>3, Zenon DEF Senders
  <2> QED
    BY <1>2, <2>1, WakingFine, Zenon
<1>6. Fine([s EXCEPT !.waking = s.waking \ {f}], G)
  <2>1. s.waking \ {f} \in SUBSET Files
    BY <1>1, Zenon DEF Senders
  <2> QED
    BY <2>1, WakingFine, Zenon
<1>7. Fine(startNext([s EXCEPT !.waking = s.waking \ {f}]), G)
  BY <1>6, NextFine, Zenon
<1>8. Fine(cancelFileDone(s, f), G)
  BY <1>7, Zenon DEF cancelFileDone
<1> QED
  BY <1>4, <1>5, <1>8, NextFine, Zenon

\* More was stored.
LEMMA GrownFine ==
  ASSUME NEW s, NEW G, NEW H, Fine(s, G), \A f \in Files : G[f] \subseteq H[f]
  PROVE  Fine(s, H)
<1> SUFFICES ASSUME NEW f \in Files PROVE Good(s, f, s.globalPaused, H[f])
  BY Zenon DEF Fine
<1>1. Good(s, f, s.globalPaused, G[f]) /\ G[f] \subseteq H[f]
  BY DEF Fine
<1> QED
  BY <1>1, Zenon DEF Good, SoundAt, Sound
=============================================================================

-------------------------- MODULE FileTransferProofs --------------------------
(***************************************************************************)
(* Proofs about module FileTransfer: what the receiver's methods preserve, *)
(* the inductive invariant of both sides and what travels between them,    *)
(* and the theorems.                                                       *)
(*                                                                         *)
(* That a completed transfer is whole is not inductive: it rests on every  *)
(* acknowledgement, whether it travels, is being sent or was counted, being*)
(* of a chunk that the receiver stored.  `got` remembers what it stored.   *)
(***************************************************************************)
EXTENDS FileTransfer, FileSenderProofs

-----------------------------------------------------------------------------
(* The receiver. *)

Stages == {"none", "offered", "receiving", "completed", "cancelled", "failed"}
Receipts == [status : Stages, here : BOOLEAN, received : SUBSET Chunks]
ReceiptMaps == [Files -> Receipts]
AckTasks == [stage : {"ack"}, file : Files, index : Chunks, new : BOOLEAN]
DigestTasks == [stage : {"digest"}, file : Files]
Tasks == {R!NoTask} \cup AckTasks \cup DigestTasks
Answers == [kind : {"accept", "reject", "cancel"}, file : Files]

Receivers ==
  [tr : ReceiptMaps, shown : [Files -> Stages], secure : BOOLEAN, task : Tasks,
   posting : SUBSET Files, ctl : Seq(Answers)]

\* What a transfer holds was stored, and one that is completed was stored whole.
Stored(t, g) == t.received \subseteq g /\ (t.status = "completed" => g = Chunks)

\* The receiver's part of the inductive invariant.
Whole(r, G) ==
  /\ r \in Receivers
  /\ \A f \in Files : Stored(r.tr[f], G[f])
  /\ r.task.stage = "digest" => G[r.task.file] = Chunks

\* A step that touches neither the transfers nor the task.
LEMMA TouchedWhole ==
  ASSUME NEW r, NEW G, Whole(r, G), NEW u \in Receivers, u.tr = r.tr, u.task = r.task
  PROVE  Whole(u, G)
BY DEF Whole

\* sendApp of a message of the receiver.
LEMMA PostWhole ==
  ASSUME NEW r, NEW G, Whole(r, G), NEW f \in Files, NEW k \in {"accept", "reject", "cancel"}
  PROVE  Whole(R!post(r, k, f), G)
<1> DEFINE q == Append(r.ctl, [kind |-> k, file |-> f])
           u == [r EXCEPT !.ctl = q]
<1>1. r \in Receivers
  BY Zenon DEF Whole
<1>2. q \in Seq(Answers)
  BY <1>1 DEF Receivers, Answers
<1>3. R!post(r, k, f) = IF r.secure THEN u ELSE r
  BY Zenon DEF R!post
<1> HIDE DEF q
<1>4. u \in Receivers /\ u.tr = r.tr /\ u.task = r.task
  BY <1>1, <1>2, Zenon DEF Receivers
<1> HIDE DEF u
<1> QED
  BY <1>3, <1>4, TouchedWhole, Zenon

\* emit, and the update of the view that it triggers.
LEMMA EmitWhole ==
  ASSUME NEW r, NEW G, Whole(r, G), NEW f \in Files
  PROVE  Whole(R!emit(r, f), G)
<1> DEFINE m == [r.shown EXCEPT ![f] = r.tr[f].status]
           u == [r EXCEPT !.shown = m]
<1>1. r \in Receivers
  BY DEF Whole
<1>2. r.tr[f].status \in Stages
  BY <1>1, Zenon DEF Receivers, ReceiptMaps, Receipts
<1>3. m \in [Files -> Stages]
  BY <1>1, <1>2, Zenon DEF Receivers
<1>4. R!emit(r, f) = u
  BY <1>1, Zenon DEF R!emit, Receivers
<1> HIDE DEF m
<1>5. u \in Receivers /\ u.tr = r.tr /\ u.task = r.task
  BY <1>1, <1>3, Zenon DEF Receivers
<1> QED
  BY <1>4, <1>5, TouchedWhole, Zenon

\* Another record for f.
File(r, f, v) == [r EXCEPT !.tr = [r.tr EXCEPT ![f] = v]]

\* A new record of f that was stored keeps the receiver's part.
LEMMA FileWhole ==
  ASSUME NEW r, NEW G, Whole(r, G), NEW f \in Files, NEW v \in Receipts, Stored(v, G[f])
  PROVE  Whole(File(r, f, v), G)
<1> DEFINE m == [r.tr EXCEPT ![f] = v]
           u == [r EXCEPT !.tr = m]
<1>1. r \in Receivers /\ r.tr \in ReceiptMaps
  BY Zenon DEF Whole, Receivers
<1>2. m \in ReceiptMaps /\ \A h \in Files : m[h] = IF h = f THEN v ELSE r.tr[h]
  BY <1>1, Zenon DEF ReceiptMaps
<1>3. File(r, f, v) = u
  BY Zenon DEF File
<1> HIDE DEF m
<1>4. u \in Receivers /\ u.tr = m /\ u.task = r.task
  BY <1>1, <1>2, Zenon DEF Receivers
<1> HIDE DEF u
<1>5. \A h \in Files : Stored(u.tr[h], G[h])
  BY <1>2, <1>4, Zenon DEF Whole
<1> QED
  BY <1>3, <1>4, <1>5, Zenon DEF Whole

\* Another task.
LEMMA TaskWhole ==
  ASSUME NEW r, NEW G, Whole(r, G), NEW k \in Tasks, k.stage = "digest" => G[k.file] = Chunks
  PROVE  Whole([r EXCEPT !.task = k], G)
<1> DEFINE u == [r EXCEPT !.task = k]
<1>1. r \in Receivers
  BY Zenon DEF Whole
<1>2. u \in Receivers /\ u.tr = r.tr /\ u.task = k
  BY <1>1, Zenon DEF Receivers
<1> HIDE DEF u
<1>3. Whole(u, G)
  BY <1>2, Zenon DEF Whole
<1> QED
  BY <1>3, Zenon DEF u

\* The task of the inbound chain ends.
LEMMA NoTaskWhole ==
  ASSUME NEW r, NEW G, Whole(r, G)
  PROVE  Whole([r EXCEPT !.task = R!NoTask], G)
<1>1. R!NoTask \in Tasks /\ R!NoTask.stage # "digest"
  BY Zenon DEF Tasks, R!NoTask
<1> QED
  BY <1>1, TaskWhole, Zenon

\* A transfer is cancelled or fails, and its chunks are dropped.
LEMMA EndWhole ==
  ASSUME NEW r, NEW G, Whole(r, G), NEW f \in Files, NEW st \in {"cancelled", "failed"}
  PROVE  Whole(R!End(r, f, st), G)
<1> DEFINE t == r.tr[f]
           v == [t EXCEPT !.status = st, !.received = {}]
<1>1. r \in Receivers /\ t \in Receipts
  BY DEF Whole, Receivers, ReceiptMaps
<1>2. v \in Receipts /\ Stored(v, G[f])
  BY <1>1, Zenon DEF Receipts, Stages, Stored
<1>3. R!End(r, f, st) = R!emit(File(r, f, v), f)
  BY <1>1, Zenon DEF R!End, File, Receivers, ReceiptMaps
<1> HIDE DEF v
<1> QED
  BY <1>2, <1>3, FileWhole, EmitWhole, Zenon

\* FileReceiver.offer.
LEMMA OfferWhole ==
  ASSUME NEW r, NEW G, Whole(r, G), NEW f \in Files
  PROVE  Whole(R!offer(r, f), G)
<1> DEFINE v == [R!NewTransfer EXCEPT !.status = "offered", !.here = TRUE]
<1>1. v \in Receipts /\ Stored(v, G[f])
  BY Zenon DEF R!NewTransfer, Receipts, Stages, Stored
<1>2. [r EXCEPT !.tr[f] = v] = File(r, f, v)
  BY Zenon DEF File
<1>3. R!offer(r, f) = R!post(r, "reject", f) \/ R!offer(r, f) = R!emit(File(r, f, v), f)
  BY <1>2, Zenon DEF R!offer
<1> HIDE DEF v
<1>4. Whole(R!emit(File(r, f, v), f), G)
  BY <1>1, FileWhole, EmitWhole, Zenon
<1>5. Whole(R!post(r, "reject", f), G)
  BY PostWhole, Zenon
<1> QED
  BY <1>3, <1>4, <1>5, Zenon

\* acceptFile awaits sendApp, or no longer does.
LEMMA PostingWhole ==
  ASSUME NEW r, NEW G, Whole(r, G), NEW P \in SUBSET Files
  PROVE  Whole([r EXCEPT !.posting = P], G)
<1> DEFINE u == [r EXCEPT !.posting = P]
<1>1. u \in Receivers /\ u.tr = r.tr /\ u.task = r.task
  BY DEF Whole, Receivers
<1> HIDE DEF u
<1>2. Whole(u, G)
  BY <1>1, TouchedWhole, Zenon
<1> QED
  BY <1>2, Zenon DEF u

\* FileReceiver.accept up to its await.
LEMMA AcceptWhole ==
  ASSUME NEW r, NEW G, Whole(r, G), NEW f \in Files
  PROVE  Whole(R!accept(r, f), G)
<1> DEFINE t == r.tr[f]
           v == [t EXCEPT !.status = "receiving"]
           w == R!post(R!emit(File(r, f, v), f), "accept", f)
           P == w.posting \cup {f}
           u == [w EXCEPT !.posting = P]
<1>1. r \in Receivers /\ t \in Receipts /\ Stored(t, G[f])
  BY Zenon DEF Whole, Receivers, ReceiptMaps
<1>2. v \in Receipts /\ Stored(v, G[f])
  BY <1>1, Zenon DEF Receipts, Stages, Stored
<1>3. [r EXCEPT !.tr[f].status = "receiving"] = File(r, f, v)
  BY Zenon DEF File
<1>4. R!accept(r, f) = r \/ R!accept(r, f) = u
  BY <1>3, Zenon DEF R!accept
<1> HIDE DEF v
<1>5. Whole(w, G)
  BY <1>2, FileWhole, EmitWhole, PostWhole, Zenon
<1> HIDE DEF w
<1>6. P \in SUBSET Files
  BY <1>5, Zenon DEF Whole, Receivers
<1> HIDE DEF P
<1>7. Whole(u, G)
  BY <1>5, <1>6, PostingWhole, Zenon
<1> QED
  BY <1>4, <1>7, Zenon

\* FileReceiver.reject.
LEMMA RejectWhole ==
  ASSUME NEW r, NEW G, Whole(r, G), NEW f \in Files
  PROVE  Whole(R!reject(r, f), G)
<1>1. Whole(R!post(R!End(r, f, "cancelled"), "reject", f), G)
  BY EndWhole, PostWhole, Zenon
<1> QED
  BY <1>1, Zenon DEF R!reject

\* FileReceiver.cancel, whether it notifies the peer or not.
LEMMA CancelWhole ==
  ASSUME NEW r, NEW G, Whole(r, G), NEW f \in Files, NEW n
  PROVE  Whole(R!cancel(r, f, n), G)
<1>1. Whole(R!End(r, f, "cancelled"), G)
  BY EndWhole, Zenon
<1>2. Whole(R!post(R!End(r, f, "cancelled"), "cancel", f), G)
  BY <1>1, PostWhole, Zenon
<1> QED
  BY <1>1, <1>2, Zenon DEF R!cancel

\* The sender says that it is done.
LEMMA NoticeWhole ==
  ASSUME NEW r, NEW G, Whole(r, G), NEW f \in Files
  PROVE  Whole(R!completeNotice(r, f), G)
BY EmitWhole, Zenon DEF R!completeNotice

\* sendApp does not take the acceptance: the transfer fails.
LEMMA AcceptFailedWhole ==
  ASSUME NEW r, NEW G, Whole(r, G), NEW f \in Files
  PROVE  Whole(R!acceptFailed(r, f), G)
<1> DEFINE P == r.posting \ {f}
<1>1. P \in SUBSET Files
  BY Zenon DEF Whole, Receivers
<1>2. R!acceptFailed(r, f) = R!End([r EXCEPT !.posting = P], f, "failed")
  BY Zenon DEF R!acceptFailed
<1> HIDE DEF P
<1> QED
  BY <1>1, <1>2, PostingWhole, EndWhole, Zenon

\* removeFile at the receiver.
LEMMA RemoveWhole ==
  ASSUME NEW r, NEW G, Whole(r, G), NEW f \in Files
  PROVE  Whole(R!removeFile(r, f), G)
<1> DEFINE t == r.tr[f]
           h == IF t.status \in R!Terminal THEN FALSE ELSE t.here
           c == IF t.here /\ t.status \in R!Terminal THEN {} ELSE t.received
           v == [t EXCEPT !.here = h, !.received = c]
           w == File(r, f, v)
           m == [r.shown EXCEPT ![f] = "none"]
           u == [w EXCEPT !.shown = m]
<1>1. r \in Receivers /\ t \in Receipts /\ Stored(t, G[f])
  BY Zenon DEF Whole, Receivers, ReceiptMaps
<1>2. R!removeFile(r, f) = u
  <2>1. R!removeFile(r, f) = [r EXCEPT !.tr[f].here = h, !.tr[f].received = c, !.shown[f] = "none"]
    BY <1>1, Zenon DEF R!removeFile, Receivers, ReceiptMaps, Receipts
  <2> HIDE DEF h, c
  <2>2. [r EXCEPT !.tr[f].here = h, !.tr[f].received = c, !.shown[f] = "none"] = u
    BY <1>1, Zenon DEF File, Receivers, ReceiptMaps, Receipts
  <2> QED
    BY <2>1, <2>2, Zenon
<1>3. h \in BOOLEAN /\ c \in SUBSET Chunks /\ c \subseteq G[f]
  BY <1>1, Zenon DEF Receipts, Stored
<1> HIDE DEF h, c
<1>4. v \in Receipts /\ Stored(v, G[f])
  BY <1>1, <1>3, Zenon DEF Receipts, Stored
<1> HIDE DEF v
<1>5. Whole(w, G) /\ m \in [Files -> Stages]
  BY <1>1, <1>4, FileWhole, Zenon DEF Receivers, Stages
<1> HIDE DEF w, m
<1>6. u \in Receivers /\ u.tr = w.tr /\ u.task = w.task
  BY <1>5, Zenon DEF Whole, Receivers
<1> HIDE DEF u
<1> QED
  BY <1>2, <1>5, <1>6, TouchedWhole, Zenon

\* reset at the receiver, and an empty view.
LEMMA ResetWhole ==
  ASSUME NEW r, NEW G, Whole(r, G)
  PROVE  Whole(R!reset(r), G)
<1> DEFINE Gone(t) == IF t.here THEN [t EXCEPT !.here = FALSE, !.received = {}] ELSE t
           m == [f \in Files |-> Gone(r.tr[f])]
           sh == [f \in Files |-> "none"]
           u == [r EXCEPT !.tr = m, !.shown = sh, !.secure = FALSE]
<1>1. r \in Receivers /\ r.tr \in ReceiptMaps
  BY Zenon DEF Whole, Receivers
<1>2. R!reset(r) = u
  <2>1. R!NewReceiver.shown = sh
    BY Zenon DEF R!NewReceiver
  <2> HIDE DEF sh
  <2> QED
    BY <1>1, <2>1, Zenon DEF R!reset
<1>3. ASSUME NEW f \in Files
      PROVE  Gone(r.tr[f]) \in Receipts /\ Stored(Gone(r.tr[f]), G[f])
  <2> DEFINE t == r.tr[f]
  <2>1. t \in Receipts /\ Stored(t, G[f])
    BY <1>1, Zenon DEF Whole, ReceiptMaps
  <2> HIDE DEF t
  <2>2. Gone(t) \in Receipts /\ Stored(Gone(t), G[f])
    BY <2>1, Zenon DEF Receipts, Stored
  <2> QED
    BY <2>2, Zenon DEF t
<1> HIDE DEF Gone
<1>4. m \in ReceiptMaps /\ \A f \in Files : Stored(m[f], G[f])
  BY <1>3, Zenon DEF ReceiptMaps
<1>5. sh \in [Files -> Stages]
  BY Zenon DEF Stages
<1> HIDE DEF m, sh
<1>6. u \in Receivers /\ u.tr = m /\ u.task = r.task
  BY <1>1, <1>4, <1>5, Zenon DEF Receivers
<1> HIDE DEF u
<1> QED
  BY <1>2, <1>4, <1>6, Zenon DEF Whole

Histories == [Files -> SUBSET Chunks]

\* More was stored.
LEMMA GrownWhole ==
  ASSUME NEW r, NEW G \in Histories, NEW H \in Histories, Whole(r, G),
         \A f \in Files : G[f] \subseteq H[f]
  PROVE  Whole(r, H)
<1>1. \A f \in Files : G[f] = Chunks => H[f] = Chunks
  BY Zenon DEF Histories
<1>2. \A f \in Files : Stored(r.tr[f], H[f])
  BY <1>1, Zenon DEF Whole, Stored
<1>3. r.task.stage = "digest" => r.task.file \in Files
  <2>1. r.task \in Tasks
    BY Zenon DEF Whole, Receivers
  <2> QED
    BY <2>1 DEF Tasks, R!NoTask, AckTasks, DigestTasks
<1> QED
  BY <1>1, <1>2, <1>3, Zenon DEF Whole

\* A chunk was stored, or not, and the history follows.
Stores(r, G, f, i, u, H) ==
  /\ u = R!chunk(r, f, i) \/ u = r
  /\ H = [G EXCEPT ![f] = @ \cup u.tr[f].received]

Grown(r, G, f, i, u, H) ==
  /\ Whole(u, H) /\ H \in Histories /\ \A h \in Files : G[h] \subseteq H[h]
  /\ u.task # r.task => i \in H[f]

\* chunk up to the await of the acknowledgement.
LEMMA ChunkWhole ==
  ASSUME NEW r, NEW G \in Histories, Whole(r, G), NEW f \in Files, NEW i \in Chunks,
         NEW u, NEW H, Stores(r, G, f, i, u, H)
  PROVE  Grown(r, G, f, i, u, H)
<1> USE DEF Stores, Grown
<1> DEFINE t == r.tr[f]
           c == t.received \cup {i}
           v == [t EXCEPT !.received = c]
           k == [stage |-> "ack", file |-> f, index |-> i, new |-> i \notin t.received]
           w == File(r, f, v)
           x == [w EXCEPT !.task = k]
<1>1. r \in Receivers /\ t \in Receipts /\ Stored(t, G[f])
  BY Zenon DEF Whole, Receivers, ReceiptMaps
<1>2. CASE u = r
  <2>1. H = G
    BY <1>1, <1>2, Zenon DEF Stored, Histories
  <2> QED
    BY <1>2, <2>1, Zenon
<1>3. CASE u # r
  <2>1. u = x
    <3>1. u = [r EXCEPT !.task = k, !.tr[f].received = @ \cup {i}]
      BY <1>3, Zenon DEF R!chunk
    <3> HIDE DEF k
    <3> QED
      BY <1>1, <3>1, Zenon DEF File, Receivers, ReceiptMaps, Receipts
  <2>2. k \in Tasks /\ k.stage # "digest"
    BY Zenon DEF Tasks, AckTasks
  <2> HIDE DEF k
  <2>3. c \in SUBSET Chunks /\ i \in c
    BY <1>1, Zenon DEF Receipts
  <2> HIDE DEF c
  <2>4. v \in Receipts /\ v.received = c /\ v.status = t.status
    BY <1>1, <2>3, Zenon DEF Receipts
  <2> HIDE DEF v
  <2>5. u.tr[f] = v
    BY <1>1, <2>1, <2>4, Zenon DEF File, Receivers, ReceiptMaps
  <2>6. /\ H \in Histories /\ H[f] = G[f] \cup c /\ \A h \in Files : G[h] \subseteq H[h]
    BY <2>3, <2>4, <2>5, Zenon DEF Histories
  <2>7. Whole(r, H)
    BY <2>6, GrownWhole, Zenon
  <2>8. Stored(v, H[f])
    <3>1. G[f] = Chunks => H[f] = Chunks
      BY <2>3, <2>6, Zenon
    <3> QED
      BY <1>1, <2>4, <2>6, <3>1, Zenon DEF Stored
  <2>9. Whole(w, H)
    BY <2>4, <2>7, <2>8, FileWhole, Zenon
  <2> HIDE DEF w
  <2>10. Whole(x, H)
    BY <2>2, <2>9, TaskWhole, Zenon
  <2> HIDE DEF x
  <2> QED
    BY <2>1, <2>3, <2>6, <2>10, Zenon
<1> QED
  BY <1>2, <1>3, Zenon

\* chunk after it.
LEMMA ChunkAckedWhole ==
  ASSUME NEW r, NEW G \in Histories, Whole(r, G), r.task.stage = "ack"
  PROVE  Whole(R!chunkAcked(r), G)
<1> DEFINE f == r.task.file
           w == [r EXCEPT !.task = R!NoTask]
           u == R!emit(w, f)
           k == [stage |-> "digest", file |-> f]
<1>1. r \in Receivers /\ r.task \in Tasks
  BY Zenon DEF Whole, Receivers
<1>2. f \in Files
  BY <1>1 DEF Tasks, R!NoTask, AckTasks, DigestTasks
<1>3. /\ R!chunkAcked(r) \in {w, u, [u EXCEPT !.task = k]}
      /\ R!chunkAcked(r) \in {w, u} \/ r.tr[f].received = Chunks
  BY Zenon DEF R!chunkAcked, R!Chunks, Chunks
<1> HIDE DEF f
<1>4. Whole(w, G)
  BY NoTaskWhole, Zenon
<1> HIDE DEF w
<1>5. Whole(u, G)
  BY <1>2, <1>4, EmitWhole, Zenon
<1> HIDE DEF u
<1>6. r.tr[f].received = Chunks => Whole([u EXCEPT !.task = k], G)
  <2> SUFFICES ASSUME r.tr[f].received = Chunks PROVE Whole([u EXCEPT !.task = k], G)
    BY Zenon
  <2>1. G[f] = Chunks
    BY <1>2, Zenon DEF Whole, Stored, Histories
  <2>2. k \in Tasks /\ k.file = f
    BY <1>2, Zenon DEF Tasks, DigestTasks
  <2> HIDE DEF k
  <2> QED
    BY <1>5, <2>1, <2>2, TaskWhole, Zenon
<1> QED
  BY <1>3, <1>4, <1>5, <1>6, Zenon

\* complete after the digest, and its catch block.
LEMMA DigestWhole ==
  ASSUME NEW r, NEW G, Whole(r, G), r.task.stage = "digest"
  PROVE  Whole(R!completed(r), G) /\ Whole(R!completeFailed(r), G)
<1> DEFINE f == r.task.file
           w == [r EXCEPT !.task = R!NoTask]
           v == [r.tr[f] EXCEPT !.status = "completed"]
<1>1. r \in Receivers /\ r.task \in Tasks /\ G[f] = Chunks
  BY Zenon DEF Whole, Receivers
<1>2. f \in Files
  BY <1>1 DEF Tasks, R!NoTask, AckTasks, DigestTasks
<1> HIDE DEF f
<1>3. r.tr[f] \in Receipts /\ Stored(r.tr[f], G[f])
  BY <1>1, <1>2, Zenon DEF Whole, Receivers, ReceiptMaps
<1>4. v \in Receipts /\ Stored(v, G[f])
  BY <1>1, <1>3, Zenon DEF Receipts, Stages, Stored
<1>5. [r EXCEPT !.task = R!NoTask, !.tr[f].status = "completed"] = File(w, f, v)
  BY <1>1, <1>2, Zenon DEF File, Receivers
<1>6. R!completed(r) = R!emit(File(w, f, v), f)
  BY <1>5, Zenon DEF R!completed, f
<1>7. R!completeFailed(r) = R!post(R!End(w, f, "failed"), "cancel", f)
  BY Zenon DEF R!completeFailed, f
<1> HIDE DEF v
<1>8. Whole(w, G)
  BY NoTaskWhole, Zenon
<1> HIDE DEF w
<1>9. Whole(R!emit(File(w, f, v), f), G)
  BY <1>2, <1>4, <1>8, FileWhole, EmitWhole, Zenon
<1>10. Whole(R!post(R!End(w, f, "failed"), "cancel", f), G)
  BY <1>2, <1>8, EndWhole, PostWhole, Zenon
<1> QED
  BY <1>6, <1>7, <1>9, <1>10, Zenon

-----------------------------------------------------------------------------
(* The inductive invariant. *)

Packets == [file : Files, index : Chunks]

\* The transfers of both sides are sound with respect to what was ever stored,
\* and only what was stored is acknowledged.
IInv ==
  /\ Fine(snd, got) /\ Whole(rcv, got) /\ got \in Histories
  /\ data \in SUBSET Packets /\ acks \in SUBSET Packets
  /\ \A m \in acks : m.index \in got[m.file]

\* A step of the sender alone, and one of the receiver alone.
LEMMA SenderInv ==
  ASSUME IInv, NEW s, Sender(s), Fine(s, got)
  PROVE  IInv'
BY Zenon DEF IInv, Sender

\* A step of the receiver that stores nothing.
LEMMA ReceiverInv ==
  ASSUME IInv, NEW r, Receiver(r), Whole(r, got)
  PROVE  IInv'
BY Zenon DEF IInv, Receiver

\* At the start no transfer exists.
LEMMA InitInv == Init => IInv
<1> SUFFICES ASSUME Init PROVE IInv
  BY Zenon
<1> DEFINE t == NewTransfer
           no == <<>>
<1>0. Total \in Nat \ {0} /\ Window \in Nat \ {0}
  BY FileSenderAssumption, Zenon
<1>1. t \in Transfers /\ Inflight(t) = {}
  BY <1>0 DEF Transfers, NewTransfer, Statuses, Slots, Inflight
<1>2. no \in Seq(Files) /\ no \in Seq(Notes) /\ no \in Seq(Answers)
  OBVIOUS
<1>3. /\ t.status = "none" /\ ~t.here /\ t.acked = {} /\ ~t.cancelled
  BY Zenon DEF NewTransfer
<1>4. /\ snd.tr = [f \in Files |-> t] /\ snd.globalPaused = FALSE /\ snd.digesting = [f \in Files |-> "no"]
      /\ snd.posting = {} /\ snd.calls = [c \in Call |-> 0] /\ snd.stray = [x \in Timer |-> 0]
  BY Zenon DEF Init, NewSender
<1>5. snd \in Senders
  <2>1. /\ snd.voice = {} /\ snd.shown = [f \in Files |-> "none"] /\ snd.order = no
        /\ snd.secure = TRUE /\ snd.waking = {} /\ snd.ctl = no
    BY Zenon DEF Init, NewSender
  <2>2. snd = [tr |-> snd.tr, globalPaused |-> snd.globalPaused, voice |-> snd.voice,
               shown |-> snd.shown, order |-> snd.order, secure |-> snd.secure,
               digesting |-> snd.digesting, posting |-> snd.posting, waking |-> snd.waking,
               ctl |-> snd.ctl, calls |-> snd.calls, stray |-> snd.stray]
    BY Zenon DEF Init, NewSender
  <2> HIDE DEF t, no
  <2>3. /\ snd.tr \in TransferMaps /\ snd.shown \in Views /\ snd.digesting \in Digests
        /\ snd.calls \in CallCounts /\ snd.stray \in StrayCounts
    <3>1. 0 \in Nat
      OBVIOUS
    <3>2. snd.tr \in TransferMaps
      BY <1>1, <1>4, Zenon DEF TransferMaps
    <3>3. snd.shown \in Views /\ snd.digesting \in Digests
      BY <1>4, <2>1, Zenon DEF Views, Statuses, Digests
    <3>4. snd.calls \in CallCounts /\ snd.stray \in StrayCounts
      BY <1>4, <3>1, Zenon DEF CallCounts, StrayCounts
    <3> QED
      BY <3>2, <3>3, <3>4, Zenon
  <2>4. snd.order \in Orders /\ snd.ctl \in Seq(Notes)
    BY <1>2, <2>1, Zenon DEF Orders
  <2> QED
    BY <1>4, <2>1, <2>2, <2>3, <2>4, Zenon DEF Senders
<1>6. ASSUME NEW f \in Files PROVE Good(snd, f, snd.globalPaused, got[f])
  <2>1. snd.tr[f] = t /\ snd.digesting[f] = "no" /\ f \notin snd.posting
    BY <1>4, Zenon
  <2>2. CallsOf(snd, f) = {} /\ StraysOf(snd, f) = {}
    BY <1>4 DEF CallsOf, StraysOf, Running, StrayTimers
  <2>3. SoundAt(snd, f, snd.globalPaused, got[f])
    BY <1>1, <1>3, <2>1, <2>2, Zenon DEF SoundAt, Sound
  <2>4. Moving(snd.tr[f], CallsOf(snd, f), {}) /\ Fed(snd.tr[f])
    BY <1>3, <2>1, Zenon DEF Moving, Fed
  <2> QED
    BY <2>3, <2>4, Zenon DEF Good
<1>7. Whole(rcv, got)
  <2>1. /\ rcv.tr = [f \in Files |-> R!NewTransfer] /\ rcv.shown = [f \in Files |-> "none"]
        /\ rcv.secure = TRUE /\ rcv.task = R!NoTask /\ rcv.posting = {} /\ rcv.ctl = no
    BY Zenon DEF Init, R!NewReceiver
  <2>2. rcv = [tr |-> rcv.tr, shown |-> rcv.shown, secure |-> rcv.secure, task |-> rcv.task,
               posting |-> rcv.posting, ctl |-> rcv.ctl]
    BY Zenon DEF Init, R!NewReceiver
  <2>3. /\ R!NewTransfer \in Receipts /\ R!NewTransfer.received = {} /\ R!NewTransfer.status = "none"
    BY DEF Receipts, R!NewTransfer, Stages
  <2>4. rcv.task \in Tasks /\ rcv.task.stage = "none"
    BY <2>1 DEF Tasks, R!NoTask
  <2> HIDE DEF no
  <2>5. rcv \in Receivers
    BY <1>2, <2>1, <2>2, <2>3, <2>4, Zenon DEF Receivers, ReceiptMaps, Stages
  <2>6. \A f \in Files : Stored(rcv.tr[f], got[f])
    <3>1. ASSUME NEW f \in Files PROVE rcv.tr[f] = R!NewTransfer
      BY <2>1, Zenon
    <3>2. \A g : Stored(R!NewTransfer, g)
      BY <2>3, Zenon DEF Stored
    <3> QED
      BY <3>1, <3>2, Zenon
  <2> QED
    BY <2>4, <2>5, <2>6, Zenon DEF Whole
<1>8. /\ got \in Histories /\ data \in SUBSET Packets /\ acks \in SUBSET Packets
      /\ \A m \in acks : m.index \in got[m.file]
  BY Zenon DEF Init, Histories
<1> QED
  BY <1>5, <1>6, <1>7, <1>8, Zenon DEF IInv, Fine

\* The sender's user and continuations.
LEMMA SenderStepInv ==
  ASSUME IInv, NEW f \in Files, SenderStep(f)
  PROVE  IInv'
<1>1. Fine(snd, got) /\ snd \in Senders /\ Good(snd, f, snd.globalPaused, got[f])
  BY Zenon DEF IInv, Fine
<1>2. CASE OfferReady(f)
  BY <1>1, <1>2, OfferDone, DoneFine, SenderInv, Zenon DEF OfferReady
<1>3. CASE OfferSent(f)
  BY <1>1, <1>3, PostingFine, SenderInv, Zenon DEF OfferSent
<1>4. CASE OfferFailed(f)
  BY <1>1, <1>4, OfferFailedFine, SenderInv, Zenon DEF OfferFailed
<1>5. CASE CancelFileDone(f)
  BY <1>1, <1>5, CancelFileFine, SenderInv, Zenon DEF CancelFileDone
<1>6. ASSUME NEW i \in Chunks, TimerFires(f, i) PROVE IInv'
  <2> DEFINE e == snd.tr[f].inflight[i]
             w == [snd EXCEPT !.tr[f].inflight[i].state = "sending"]
             u == Fire(w, f, i, e.state, e.attempts)
  <2>1. e.state \in Timed /\ Sender(u)
    BY <1>6, Zenon DEF TimerFires, Timed
  <2>2. e.attempts \in Attempts /\ StepOf(snd, w, f) /\ Ready(w, f, i, got[f])
    BY <1>1, <2>1, TimerReady, Zenon
  <2> HIDE DEF w, e
  <2>3. Done(w, u, f, w.globalPaused, got[f])
    BY <2>1, <2>2, FireDone, Zenon
  <2> HIDE DEF u
  <2>4. Fine(u, got)
    BY <1>1, <2>2, <2>3, AfterFine, Zenon
  <2> QED
    BY <2>1, <2>4, SenderInv, Zenon
<1> QED
  BY <1>2, <1>3, <1>4, <1>5, <1>6, Zenon DEF SenderStep

\* The attempt after one that was made is not the first.
LEMMA NextAttempt == \A n \in Attempts : n + 1 \in Nat /\ n + 1 > 1
  BY FileSenderAssumption DEF Attempts

\* sendChunk calls end.
LEMMA CallsInv ==
  ASSUME IInv, Calls
  PROVE  IInv'
<1>1. PICK c \in Running(snd) : ChunkSent(c) \/ ChunkRefused(c)
  BY Zenon DEF Calls
<1> DEFINE w == [snd EXCEPT !.calls[c] = @ - 1]
           f == c.file
           i == c.index
           u == IF w.tr[f].cancelled \/ i \in w.tr[f].acked THEN w
                ELSE emit(Overwrite(w, f, i, Entry(c.attempts, "ack")), f)
           x == scheduleRetry(w, f, i, c.attempts + 1)
<1>2. Fine(snd, got)
  BY Zenon DEF IInv
<1>3. /\ f \in Files /\ i \in Chunks /\ c.attempts \in Attempts
      /\ StepOf(snd, w, f) /\ Ready(w, f, i, got[f]) /\ w.tr = snd.tr
  BY <1>2, CallReady, Zenon
<1>4. CASE ChunkSent(c)
  <2>1. snd' = u
    BY <1>3, <1>4, Zenon DEF ChunkSent
  <2>2. data' = data \cup {[file |-> f, index |-> i]} /\ UNCHANGED <<rcv, acks, got, breaks>>
    BY <1>4, Zenon DEF ChunkSent
  <2> HIDE DEF w
  <2>3. Done(w, u, f, w.globalPaused, got[f])
    BY <1>3, SentDone, Zenon
  <2> HIDE DEF u
  <2>4. Fine(u, got)
    BY <1>2, <1>3, <2>3, AfterFine, Zenon
  <2>5. [file |-> f, index |-> i] \in Packets
    BY <1>3, Zenon DEF Packets
  <2> HIDE DEF f, i
  <2> QED
    BY <2>1, <2>2, <2>4, <2>5, Zenon DEF IInv
<1>5. CASE ChunkRefused(c)
  <2>1. Sender(x)
    BY <1>5, Zenon DEF ChunkRefused
  <2>2. c.attempts + 1 \in Nat /\ c.attempts + 1 > 1
    BY <1>3, NextAttempt, Zenon
  <2> HIDE DEF w
  <2>3. Done(w, x, f, w.globalPaused, got[f])
    BY <1>3, <2>2, ScheduleRetryDone, Zenon
  <2> HIDE DEF x
  <2>4. Fine(x, got)
    BY <1>2, <1>3, <2>3, AfterFine, Zenon
  <2> QED
    BY <2>1, <2>4, SenderInv, Zenon
<1> QED
  BY <1>1, <1>4, <1>5, Zenon

\* Timers no entry refers to any more fire.
LEMMA StraysInv ==
  ASSUME IInv, Strays
  PROVE  IInv'
<1>1. PICK y \in StrayTimers(snd) : StrayFires(y)
  BY Zenon DEF Strays
<1> DEFINE w == [snd EXCEPT !.stray[y] = @ - 1]
           u == Fire(w, y.file, y.index, y.kind, y.attempts)
<1>2. Fine(snd, got)
  BY DEF IInv
<1>3. /\ y.file \in Files /\ y.index \in Chunks /\ y.attempts \in Attempts /\ y.kind \in Timed
      /\ StepOf(snd, w, y.file) /\ Ready(w, y.file, y.index, got[y.file])
  BY <1>2, StrayReady, Zenon
<1>4. Sender(u)
  BY <1>1, Zenon DEF StrayFires
<1> HIDE DEF w
<1>5. Done(w, u, y.file, w.globalPaused, got[y.file])
  BY <1>3, FireDone, Zenon
<1> HIDE DEF u
<1>6. Fine(u, got)
  BY <1>2, <1>3, <1>5, AfterFine, Zenon
<1> QED
  BY <1>4, <1>6, SenderInv, Zenon

\* What the users of both sides do.
LEMMA UsersInv ==
  ASSUME IInv, NEW f \in Files, Users(f)
  PROVE  IInv'
<1>1. Fine(snd, got) /\ snd \in Senders /\ Good(snd, f, snd.globalPaused, got[f]) /\ Whole(rcv, got)
  BY Zenon DEF IInv, Fine
<1>2. CASE OfferFile(f)
  BY <1>1, <1>2, OfferFileFine, SenderInv, Zenon DEF OfferFile
<1>3. CASE CancelFile(f)
  BY <1>1, <1>3, CancelFileFine, SenderInv, Zenon DEF CancelFile
<1>4. CASE RemoveSent(f)
  BY <1>1, <1>4, RemoveDone, DoneFine, SenderInv, Zenon DEF RemoveSent
<1>5. CASE AcceptFile(f)
  BY <1>1, <1>5, AcceptWhole, ReceiverInv, Zenon DEF AcceptFile
<1>6. CASE RejectFile(f)
  BY <1>1, <1>6, RejectWhole, ReceiverInv, Zenon DEF RejectFile
<1>7. CASE CancelReceive(f)
  BY <1>1, <1>7, CancelWhole, ReceiverInv, Zenon DEF CancelReceive
<1>8. CASE RemoveReceived(f)
  BY <1>1, <1>8, RemoveWhole, ReceiverInv, Zenon DEF RemoveReceived
<1> QED
  BY <1>2, <1>3, <1>4, <1>5, <1>6, <1>7, <1>8, Zenon DEF Users

\* The receiver's messages change.
LEMMA AnswersWhole ==
  ASSUME NEW r, NEW G, Whole(r, G), NEW q \in Seq(Answers)
  PROVE  Whole([r EXCEPT !.ctl = q], G)
<1> DEFINE u == [r EXCEPT !.ctl = q]
<1>1. r \in Receivers
  BY Zenon DEF Whole
<1>2. u \in Receivers /\ u.tr = r.tr /\ u.task = r.task
  BY <1>1, Zenon DEF Receivers
<1> HIDE DEF u
<1> QED
  BY <1>2, TouchedWhole, Zenon DEF u

\* The receiver's continuations.
LEMMA ReceiverStepInv ==
  ASSUME IInv, NEW f \in Files, ReceiverStep(f)
  PROVE  IInv'
<1>1. Whole(rcv, got) /\ rcv \in Receivers
  BY Zenon DEF IInv, Whole
<1>2. CASE AcceptSent(f)
  <2>1. rcv.posting \ {f} \in SUBSET Files
    BY <1>1, Zenon DEF Receivers
  <2>2. Whole([rcv EXCEPT !.posting = rcv.posting \ {f}], got)
    BY <1>1, <2>1, PostingWhole, Zenon
  <2> QED
    BY <1>2, <2>2, ReceiverInv, Zenon DEF AcceptSent
<1>3. CASE AcceptFailed(f)
  <2> DEFINE q == Without(rcv.ctl, Msg("accept", f))
  <2>1. rcv.ctl \in Seq(Answers)
    BY <1>1, Zenon DEF Receivers
  <2>2. q \in Seq(Answers)
    BY <2>1, WithoutType, Zenon
  <2> HIDE DEF q
  <2>3. Whole(R!acceptFailed([rcv EXCEPT !.ctl = q], f), got)
    BY <1>1, <2>2, AnswersWhole, AcceptFailedWhole, Zenon
  <2>4. Receiver(R!acceptFailed([rcv EXCEPT !.ctl = q], f))
    BY <1>3, Zenon DEF AcceptFailed, q
  <2> QED
    BY <2>3, <2>4, ReceiverInv, Zenon
<1> QED
  BY <1>2, <1>3, Zenon DEF ReceiverStep

\* The inbound chain goes on after an await: of the acknowledgement, of the digest.
LEMMA TaskInv ==
  ASSUME IInv, ChunkAcked \/ DigestDone \/ DigestFailed
  PROVE  IInv'
<1>1. Whole(rcv, got) /\ got \in Histories
  BY Zenon DEF IInv
<1>2. CASE ChunkAcked
  BY <1>1, <1>2, ChunkAckedWhole, ReceiverInv, Zenon DEF ChunkAcked
<1>3. CASE DigestDone
  BY <1>1, <1>3, DigestWhole, ReceiverInv, Zenon DEF DigestDone
<1>4. CASE DigestFailed
  BY <1>1, <1>4, DigestWhole, ReceiverInv, Zenon DEF DigestFailed
<1> QED
  BY <1>2, <1>3, <1>4, Zenon

\* A sequence without its first element, and with it at the end.
LEMMA LateType ==
  ASSUME NEW T, NEW q \in Seq(T), q # <<>>
  PROVE  /\ Head(q) \in T /\ Tail(q) \in Seq(T)
         /\ \A p \in Late(q) : p \in Seq(T)
<1>1. Head(q) \in T /\ Tail(q) \in Seq(T)
  OBVIOUS
<1>2. Append(Tail(q), Head(q)) \in Seq(T)
  BY <1>1
<1> QED
  BY <1>1, <1>2, Zenon DEF Late

\* The sender's control messages arrive.
LEMMA ControlInv ==
  ASSUME IInv, ReceiveControl
  PROVE  IInv'
<1> DEFINE m == Head(snd.ctl)
           q == Tail(snd.ctl)
<1>1. Fine(snd, got) /\ Whole(rcv, got) /\ snd.ctl \in Seq(Notes) /\ snd.ctl # <<>>
  BY Zenon DEF IInv, Fine, Senders, ReceiveControl
<1>2. m \in Notes /\ q \in Seq(Notes)
  BY <1>1, LateType, Zenon
<1>3. m.kind \in {"offer", "cancel", "complete"} /\ m.file \in Files
  BY <1>2, Zenon DEF Notes
<1>4. /\ rcv' = CASE ~rcv.secure         -> rcv
                  [] m.kind = "offer"    -> R!offer(rcv, m.file)
                  [] m.kind = "cancel"   -> R!cancel(rcv, m.file, FALSE)
                  [] m.kind = "complete" -> R!completeNotice(rcv, m.file)
      /\ snd' = [snd EXCEPT !.ctl = q]
      /\ UNCHANGED <<data, acks, got, breaks>>
  BY Zenon DEF ReceiveControl
<1> HIDE DEF m, q
<1>5. rcv' \in {rcv, R!offer(rcv, m.file), R!cancel(rcv, m.file, FALSE),
                R!completeNotice(rcv, m.file)}
  BY <1>3, <1>4, Zenon
<1>6. Whole(rcv', got)
  BY <1>1, <1>3, <1>5, OfferWhole, CancelWhole, NoticeWhole, Zenon
<1>7. Fine(snd', got)
  BY <1>1, <1>2, <1>4, CtlFine, Zenon
<1> QED
  BY <1>4, <1>6, <1>7, Zenon DEF IInv

\* The receiver's answers arrive.
LEMMA AnswerInv ==
  ASSUME IInv, ReceiveAnswer
  PROVE  IInv'
<1> DEFINE m == Head(rcv.ctl)
           q == Tail(rcv.ctl)
           u == cancel(snd, m.file, FALSE)
<1>1. Fine(snd, got) /\ snd \in Senders /\ Whole(rcv, got)
  BY Zenon DEF IInv, Fine
<1>2. rcv.ctl \in Seq(Answers) /\ rcv.ctl # <<>>
  BY <1>1, Zenon DEF Whole, Receivers, ReceiveAnswer
<1>3. m \in Answers /\ q \in Seq(Answers)
  BY <1>2, LateType, Zenon
<1>4. m.file \in Files
  BY <1>3, Zenon DEF Answers
<1>5. /\ snd' = CASE ~snd.secure       -> snd
                  [] m.kind = "accept" -> accept(snd, m.file)
                  [] OTHER             -> startNext(u)
      /\ rcv' = [rcv EXCEPT !.ctl = q]
      /\ UNCHANGED <<data, acks, got, breaks>>
  BY Zenon DEF ReceiveAnswer
<1> HIDE DEF m, q
<1>6. snd' \in {snd, accept(snd, m.file), startNext(u)}
  BY <1>5, Zenon
<1>7. Good(snd, m.file, snd.globalPaused, got[m.file])
  BY <1>1, <1>4, Zenon DEF Fine
<1>8. Fine(accept(snd, m.file), got)
  BY <1>1, <1>4, <1>7, AcceptDone, DoneFine, Zenon
<1>9. Fine(startNext(u), got)
  BY <1>1, <1>4, <1>7, CancelDone, DoneFine, NextFine, Zenon
<1>10. Fine(snd', got)
  BY <1>1, <1>6, <1>8, <1>9, Zenon
<1>11. Whole(rcv', got)
  BY <1>1, <1>3, <1>5, AnswersWhole, Zenon
<1> QED
  BY <1>5, <1>10, <1>11, Zenon DEF IInv

\* A chunk arrives.
LEMMA ChunkInv ==
  ASSUME IInv, NEW m \in data, ReceiveChunk(m)
  PROVE  IInv'
<1>1. /\ Fine(snd, got) /\ Whole(rcv, got) /\ got \in Histories /\ data \in SUBSET Packets
      /\ acks \in SUBSET Packets /\ \A a \in acks : a.index \in got[a.file]
  BY Zenon DEF IInv
<1>2. m \in Packets /\ m.file \in Files /\ m.index \in Chunks
  BY <1>1, Zenon DEF Packets
<1>3. /\ rcv' = R!chunk(rcv, m.file, m.index) \/ rcv' = rcv
      /\ got' = [got EXCEPT ![m.file] = @ \cup rcv'.tr[m.file].received]
      /\ data' = data \ {m} /\ snd' = snd
      /\ acks' = IF rcv'.task # rcv.task THEN acks \cup {m} ELSE acks
  BY Zenon DEF ReceiveChunk
<1>4. /\ Whole(rcv', got') /\ got' \in Histories /\ \A h \in Files : got[h] \subseteq got'[h]
      /\ rcv'.task # rcv.task => m.index \in got'[m.file]
  <2> DEFINE r == rcv'
             H == got'
  <2>1. Stores(rcv, got, m.file, m.index, r, H)
    BY <1>3, Zenon DEF Stores
  <2> HIDE DEF r, H
  <2>2. Grown(rcv, got, m.file, m.index, r, H)
    BY <1>1, <1>2, <2>1, ChunkWhole, Zenon
  <2> QED
    BY <2>2, Zenon DEF r, H, Grown
<1>5. Fine(snd', got')
  <2> DEFINE H == got'
  <2>1. \A h \in Files : got[h] \subseteq H[h]
    BY <1>4, Zenon
  <2> HIDE DEF H
  <2>2. Fine(snd, H)
    BY <1>1, <2>1, GrownFine, Zenon
  <2> QED
    BY <1>3, <2>2, Zenon DEF H
<1>6. acks' \in SUBSET Packets /\ \A a \in acks' : a.index \in got'[a.file]
  <2>1. \A a \in Packets : a.file \in Files
    BY Zenon DEF Packets
  <2> QED
    BY <1>1, <1>2, <1>3, <1>4, <2>1, Zenon
<1> QED
  BY <1>1, <1>3, <1>4, <1>5, <1>6, Zenon DEF IInv

\* An acknowledgement arrives.
LEMMA AckInv ==
  ASSUME IInv, NEW m \in acks, ReceiveAck(m)
  PROVE  IInv'
<1>1. /\ Fine(snd, got) /\ acks \in SUBSET Packets /\ m.index \in got[m.file] /\ snd \in Senders
  BY Zenon DEF IInv, Fine
<1>2. m.file \in Files /\ m.index \in Chunks
  BY <1>1, Zenon DEF Packets
<1>3. Good(snd, m.file, snd.globalPaused, got[m.file])
  BY <1>1, <1>2, Zenon DEF Fine
<1>4. Fine(ack(snd, m.file, m.index), got)
  BY <1>1, <1>2, <1>3, AckDone, DoneFine, Zenon
<1>5. /\ snd' \in {snd, ack(snd, m.file, m.index)} /\ acks' = acks \ {m}
      /\ UNCHANGED <<rcv, data, got, breaks>>
  BY Zenon DEF ReceiveAck
<1>6. Fine(snd', got)
  BY <1>1, <1>4, <1>5, Zenon
<1> QED
  BY <1>5, <1>6, Zenon DEF IInv

\* Messages are lost or late.
LEMMA DelayInv ==
  ASSUME IInv, DelayControl
  PROVE  IInv'
<1>1. /\ Fine(snd, got) /\ Whole(rcv, got) /\ snd.ctl \in Seq(Notes) /\ rcv.ctl \in Seq(Answers)
  BY Zenon DEF IInv, Fine, Whole, Senders, Receivers
<1>2. CASE snd.ctl # <<>> /\ \E q \in Late(snd.ctl) : Sender([snd EXCEPT !.ctl = q])
  <2>1. PICK q \in Late(snd.ctl) : Sender([snd EXCEPT !.ctl = q])
    BY <1>2, Zenon
  <2>2. q \in Seq(Notes)
    BY <1>1, <1>2, LateType, Zenon
  <2> QED
    BY <1>1, <2>1, <2>2, CtlFine, SenderInv, Zenon
<1>3. CASE rcv.ctl # <<>> /\ \E q \in Late(rcv.ctl) : Receiver([rcv EXCEPT !.ctl = q])
  <2>1. PICK q \in Late(rcv.ctl) : Receiver([rcv EXCEPT !.ctl = q])
    BY <1>3, Zenon
  <2>2. q \in Seq(Answers)
    BY <1>1, <1>3, LateType, Zenon
  <2> QED
    BY <1>1, <2>1, <2>2, AnswersWhole, ReceiverInv, Zenon
<1> QED
  BY <1>2, <1>3, Zenon DEF DelayControl, Sender, Receiver

\* A packet, a chunk or an acknowledgement, is lost.
LEMMA LosePacketInv ==
  ASSUME IInv, NEW m, LosePacket(m)
  PROVE  IInv'
<1>1. CASE m \in data /\ data' = data \ {m} /\ UNCHANGED <<snd, rcv, acks, got, breaks>>
  BY <1>1, Zenon DEF IInv
<1>2. CASE m \in acks /\ acks' = acks \ {m} /\ UNCHANGED <<snd, rcv, data, got, breaks>>
  BY <1>2, Zenon DEF IInv
<1> QED
  BY <1>1, <1>2, Zenon DEF LosePacket

\* A new session starts with empty queues.
LEMMA EstablishInv ==
  ASSUME IInv, Establish
  PROVE  IInv'
<1> DEFINE no == <<>>
           w == [snd EXCEPT !.ctl = no]
           u == [w EXCEPT !.secure = TRUE]
           x == [rcv EXCEPT !.ctl = no]
           y == [x EXCEPT !.secure = TRUE]
<1>1. Fine(snd, got) /\ snd \in Senders /\ Whole(rcv, got) /\ rcv \in Receivers
  BY Zenon DEF IInv, Fine, Whole
<1>2. no \in Seq(Notes) /\ no \in Seq(Answers)
  OBVIOUS
<1>3. snd' = [snd EXCEPT !.secure = TRUE, !.ctl = no] /\ rcv' = [rcv EXCEPT !.secure = TRUE, !.ctl = no]
  BY Zenon DEF Establish
<1>4. /\ data' = {} /\ acks' = {} /\ UNCHANGED <<got, breaks>>
  BY Zenon DEF Establish
<1> HIDE DEF no
<1>5. snd' = u /\ rcv' = y
  BY <1>1, <1>3, Zenon DEF Senders, Receivers
<1>6. w \in Senders /\ Fine(w, got) /\ Whole(x, got)
  BY <1>1, <1>2, CtlFine, AnswersWhole, Zenon
<1> HIDE DEF w, x
<1>7. Fine(u, got)
  <2>1. /\ u \in Senders /\ u.tr = w.tr /\ u.globalPaused = w.globalPaused
        /\ u.digesting = w.digesting /\ u.calls = w.calls /\ u.stray = w.stray
        /\ u.posting \subseteq w.posting
    BY <1>6, Zenon DEF Senders
  <2> HIDE DEF u
  <2> QED
    BY <1>6, <2>1, TouchedShown, ShownFine, Zenon
<1>8. Whole(y, got)
  <2>1. x \in Receivers
    BY <1>6, Zenon DEF Whole
  <2>2. y \in Receivers /\ y.tr = x.tr /\ y.task = x.task
    BY <2>1, Zenon DEF Receivers
  <2> HIDE DEF y
  <2> QED
    BY <1>6, <2>2, TouchedWhole, Zenon
<1> HIDE DEF u, y
<1> QED
  BY <1>4, <1>5, <1>7, <1>8, Zenon DEF IInv

\* The session and voice.
LEMMA SessionInv ==
  ASSUME IInv, Session
  PROVE  IInv'
<1>1. Fine(snd, got) /\ Whole(rcv, got) /\ snd.voice \in SUBSET {"local", "remote"}
  BY Zenon DEF IInv, Fine, Senders
<1>2. CASE SenderLost
  <2>1. Fine(reset(snd), got)
    BY <1>1, ResetFine, Zenon
  <2>2. snd' = reset(snd) /\ UNCHANGED <<rcv, data, acks, got>>
    BY <1>2, Zenon DEF SenderLost
  <2> QED
    BY <2>1, <2>2, Zenon DEF IInv
<1>3. CASE ReceiverLost
  <2>1. Whole(R!reset(rcv), got)
    BY <1>1, ResetWhole, Zenon
  <2>2. rcv' = R!reset(rcv) /\ UNCHANGED <<snd, data, acks, got>>
    BY <1>3, Zenon DEF ReceiverLost
  <2> QED
    BY <2>1, <2>2, Zenon DEF IInv
<1>4. CASE Connected
  <2>1. Fine(updateFilePauseForVoice(snd, {}), got)
    BY <1>1, VoiceFine, Zenon
  <2> QED
    BY <1>4, <2>1, SenderInv, Zenon DEF Connected
<1>5. ASSUME NEW who \in {"local", "remote"}, VoiceOn(who) PROVE IInv'
  <2> DEFINE v == snd.voice \cup {who}
  <2>1. v \in SUBSET {"local", "remote"}
    BY <1>1, Zenon
  <2>2. snd' = updateFilePauseForVoice(snd, v) /\ UNCHANGED <<rcv, data, acks, got>>
    BY <1>5, Zenon DEF VoiceOn
  <2> HIDE DEF v
  <2>3. Fine(updateFilePauseForVoice(snd, v), got)
    BY <1>1, <2>1, VoiceFine, Zenon
  <2> QED
    BY <2>2, <2>3, Zenon DEF IInv
<1>6. ASSUME NEW who \in {"local", "remote"}, VoiceOff(who) PROVE IInv'
  <2> DEFINE v == snd.voice \ {who}
  <2>1. v \in SUBSET {"local", "remote"}
    BY <1>1, Zenon
  <2>2. Sender(updateFilePauseForVoice(snd, v))
    BY <1>6, Zenon DEF VoiceOff
  <2> HIDE DEF v
  <2>3. Fine(updateFilePauseForVoice(snd, v), got)
    BY <1>1, <2>1, VoiceFine, Zenon
  <2> QED
    BY <2>2, <2>3, SenderInv, Zenon
<1> QED
  BY <1>2, <1>3, <1>4, <1>5, <1>6, EstablishInv, Zenon DEF Session

\* Messages are delivered, delayed or lost.
LEMMA NetworkInv ==
  ASSUME IInv, Network
  PROVE  IInv'
BY ControlInv, AnswerInv, DelayInv, ChunkInv, AckInv, LosePacketInv, Zenon DEF Network

\* Every step preserves the invariant.
LEMMA NextInv == IInv /\ [Next]_vars => IInv'
<1> SUFFICES ASSUME IInv, [Next]_vars PROVE IInv'
  BY Zenon
<1>1. CASE vars' = vars
  BY <1>1, Zenon DEF vars, IInv
<1>2. CASE Next
  <2>1. ASSUME NEW f \in Files, SenderStep(f) \/ Users(f) \/ ReceiverStep(f) PROVE IInv'
    BY <2>1, SenderStepInv, UsersInv, ReceiverStepInv, Zenon
  <2> QED
    BY <1>2, <2>1, CallsInv, StraysInv, SessionInv, NetworkInv, TaskInv, Zenon DEF Next
<1> QED
  BY <1>1, <1>2, Zenon

-----------------------------------------------------------------------------
(* The theorems. *)

\* The invariant holds in every state of every behaviour.
THEOREM TransferInvariance == Spec => []IInv
<1>1. QED
  BY InitInv, NextInv, PTL DEF Spec

\* A transfer that either side reports as completed was received whole
\* (completeIfDone, complete), for every number of files, chunks and retries,
\* every window, and every loss, delay and interruption.
THEOREM CompletedFilesAreWhole == Spec => []CompletedIsWhole
<1>1. IInv => CompletedIsWhole
  <2> SUFFICES ASSUME IInv, NEW f \in Files,
                      "completed" \in {snd.tr[f].status, rcv.tr[f].status}
               PROVE  got[f] = Chunks
    BY Zenon DEF CompletedIsWhole
  <2>1. Good(snd, f, snd.globalPaused, got[f]) /\ Stored(rcv.tr[f], got[f]) /\ got[f] \subseteq Chunks
    BY Zenon DEF IInv, Fine, Whole, Histories
  <2>2. CASE snd.tr[f].status = "completed"
    BY <2>1, <2>2, Zenon DEF Good, SoundAt, Sound
  <2>3. CASE rcv.tr[f].status = "completed"
    BY <2>1, <2>3, Zenon DEF Stored
  <2> QED
    BY <2>2, <2>3, Zenon
<1>2. QED
  BY <1>1, TransferInvariance, PTL

\* The window bounds the chunks in flight, and none of them is acknowledged
\* already (pump, sendChunk, ack).
THEOREM WindowBounded == Spec => []WindowKept
<1>1. IInv => WindowKept
  <2> SUFFICES ASSUME IInv, NEW f \in Files, snd.tr[f].here
               PROVE  /\ Cardinality(Inflight(snd.tr[f])) <= Window
                      /\ Inflight(snd.tr[f]) \cap snd.tr[f].acked = {}
    BY Zenon DEF WindowKept
  <2> DEFINE t == snd.tr[f]
  <2>1. IF t.cancelled THEN Inflight(t) = {} ELSE Windowed(t, CallsOf(snd, f), StraysOf(snd, f))
    BY Zenon DEF IInv, Fine, Good, SoundAt, Sound, Live
  <2> HIDE DEF t
  <2>2. CASE t.cancelled
    <3>1. Window \in Nat
      BY FileSenderAssumption
    <3>2. 0 <= Window
      BY <3>1
    <3>3. Cardinality(Inflight(t)) = 0 /\ Inflight(t) \cap t.acked = {}
      BY <2>1, <2>2, InflightFinite, Zenon
    <3> QED
      BY <3>2, <3>3, Zenon DEF t
  <2>3. CASE ~t.cancelled
    BY <2>1, <2>3, Zenon DEF t, Windowed
  <2> QED
    BY <2>2, <2>3, Zenon
<1>2. QED
  BY <1>1, TransferInvariance, PTL

\* A transfer that is sending has a chunk in flight, and each of those has a
\* timer or a running sendChunk call (scheduleRetry, resumeOutstanding, pump).
THEOREM SendersNeverStall == Spec => []NeverStalls
<1>1. IInv => NeverStalls
  <2> SUFFICES ASSUME IInv, NEW f \in Files, snd.tr[f].here, snd.tr[f].status = "sending"
               PROVE  /\ Inflight(snd.tr[f]) # {}
                      /\ \A i \in Inflight(snd.tr[f]) :
                           \/ snd.tr[f].inflight[i].state \in {"ack", "retry"}
                           \/ \E c \in Running(snd) : c.file = f /\ c.index = i
    BY Zenon DEF NeverStalls
  <2>1. Moving(snd.tr[f], CallsOf(snd, f), {}) /\ Fed(snd.tr[f])
    BY Zenon DEF IInv, Fine, Good
  <2>2. Inflight(snd.tr[f]) # {}
    BY <2>1, Zenon DEF Fed
  <2>3. ASSUME NEW i \in Inflight(snd.tr[f])
        PROVE  snd.tr[f].inflight[i].state \in {"ack", "retry"} \/ i \in CallsOf(snd, f)
    BY <2>1, <2>3, Zenon DEF Moving, Timed
  <2> QED
    BY <2>2, <2>3, Zenon DEF CallsOf
<1>2. QED
  BY <1>1, TransferInvariance, PTL
=============================================================================

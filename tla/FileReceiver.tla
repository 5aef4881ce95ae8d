----------------------------- MODULE FileReceiver -----------------------------
(***************************************************************************)
(* The receiving side of file transfer (features/file/FileReceiver.ts).    *)
(*                                                                         *)
(* As in FileSender, a method is an operator on the receiver's state, up   *)
(* to its next await.  Inbound messages are handled one at a time: `task`  *)
(* is the handler that awaits.  Metadata and chunk sizes come from a peer  *)
(* that runs the same code, so the offers and chunks are well formed.      *)
(***************************************************************************)
EXTENDS Integers, Sequences

CONSTANTS Files, Total

Chunks   == 0..(Total - 1)
Terminal == {"completed", "cancelled", "failed"}
NoTask   == [stage |-> "none"]

NewTransfer == [status |-> "none", here |-> FALSE, received |-> {}]

\* posting: accept calls that await sendApp.
NewReceiver ==
  [tr |-> [f \in Files |-> NewTransfer], shown |-> [f \in Files |-> "none"],
   secure |-> TRUE, task |-> NoTask, posting |-> {}, ctl |-> <<>>]

post(r, kind, f) ==
  IF r.secure THEN [r EXCEPT !.ctl = Append(@, [kind |-> kind, file |-> f])] ELSE r

emit(r, f) == [r EXCEPT !.shown[f] = r.tr[f].status]

\* Ends a transfer: status, release, emit.
End(r, f, status) ==
  emit([r EXCEPT !.tr[f].status = status, !.tr[f].received = {}], f)

offer(r, f) ==
  IF \E g \in Files : r.tr[g].here /\ r.tr[g].status \in {"offered", "receiving"}
  THEN post(r, "reject", f)
  ELSE emit([r EXCEPT !.tr[f] = [NewTransfer EXCEPT !.status = "offered", !.here = TRUE]], f)

accept(r, f) ==
  IF ~r.tr[f].here \/ r.tr[f].status # "offered" THEN r
  ELSE [post(emit([r EXCEPT !.tr[f].status = "receiving"], f), "accept", f)
          EXCEPT !.posting = @ \cup {f}]

reject(r, f) ==
  IF ~r.tr[f].here THEN r ELSE post(End(r, f, "cancelled"), "reject", f)

cancel(r, f, notify) ==
  IF ~r.tr[f].here THEN r
  ELSE IF notify THEN post(End(r, f, "cancelled"), "cancel", f) ELSE End(r, f, "cancelled")

\* chunk up to the await of the acknowledgement.
chunk(r, f, i) ==
  IF ~r.tr[f].here \/ r.tr[f].status # "receiving" THEN r
  ELSE [r EXCEPT !.task = [stage |-> "ack", file |-> f, index |-> i,
                           new |-> i \notin r.tr[f].received],
                 !.tr[f].received = @ \cup {i}]

\* chunk after it: complete, which awaits the digest of a small file.
chunkAcked(r) ==
  LET f == r.task.file
      u == emit([r EXCEPT !.task = NoTask], f)
  IN IF ~r.task.new THEN [r EXCEPT !.task = NoTask]
     ELSE IF r.tr[f].received # Chunks THEN u
     ELSE [u EXCEPT !.task = [stage |-> "digest", file |-> f]]

\* complete after the digest, and its catch block.
completed(r) ==
  emit([r EXCEPT !.task = NoTask, !.tr[r.task.file].status = "completed"], r.task.file)

completeFailed(r) ==
  post(End([r EXCEPT !.task = NoTask], r.task.file, "failed"), "cancel", r.task.file)

completeNotice(r, f) ==
  IF ~r.tr[f].here \/ r.tr[f].status = "completed" \/ r.tr[f].received = Chunks THEN r
  ELSE emit(r, f)

\* accept after sendApp returned false.
acceptFailed(r, f) == End([r EXCEPT !.posting = @ \ {f}], f, "failed")

removeFile(r, f) ==
  [r EXCEPT !.tr[f].here = IF r.tr[f].status \in Terminal THEN FALSE ELSE @,
            !.tr[f].received = IF r.tr[f].here /\ r.tr[f].status \in Terminal THEN {} ELSE @,
            !.shown[f] = "none"]

reset(r) ==
  [r EXCEPT !.tr = [f \in Files |->
              IF @[f].here THEN [@[f] EXCEPT !.here = FALSE, !.received = {}] ELSE @[f]],
            !.shown = NewReceiver.shown, !.secure = FALSE]
=============================================================================

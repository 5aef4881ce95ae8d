----------------------------- MODULE MCHandshake -----------------------------
(* Handshake on small instances. *)
EXTENDS Handshake, TLC

\* The delay before a reconnect outlasts the client's handlers.
Prompt ==
  \A p \in Peers : client'[p].open /\ ~client[p].open => client[p].inbox = <<>>

PromptSpec == Init /\ [][Next /\ Prompt]_vars

Symmetry == Permutations(Peers)
=============================================================================

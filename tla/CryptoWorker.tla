---------------------------- MODULE CryptoWorker ----------------------------
(***************************************************************************)
(* The symmetric ratchet of a client's crypto worker                       *)
(* (crypto/cryptoWorker.ts).                                               *)
(*                                                                         *)
(* The worker handles one request at a time (workerChain), so a request is *)
(* an operator on its module-level variables.  Keys are symbolic: an       *)
(* identity is a number, compared as compareBytes compares the bytes; a    *)
(* chain key is the two identities it was derived from, its label and how  *)
(* many steps it has taken; a message key is the chain key it came from.   *)
(* AES-GCM opens a packet with the key that sealed it and with no other.   *)
(***************************************************************************)
EXTENDS Integers, Sequences, Functions

CONSTANT
  MaxSkipped  \* config.maxSkippedMessageKeys

ASSUME CryptoWorkerAssumption == MaxSkipped \in Nat \ {0}

NoKey == 0
NoChain == [pair |-> {}, label |-> "none", step |-> 0]

\* identity: identityPublicRaw.  skipped: skippedKeys, in insertion order.
\* mixed (history): a packet failed authentication in this session.
NewWorker ==
  [identity |-> NoKey, sendChain |-> NoChain, receiveChain |-> NoChain, outbound |-> 0,
   highest |-> 0, skipped |-> <<>>, mixed |-> FALSE]

resetSession(w) ==
  [w EXCEPT !.sendChain = NoChain, !.receiveChain = NoChain, !.outbound = 0, !.highest = 0,
            !.skipped = <<>>, !.mixed = FALSE]

resetAll(w) == [resetSession(w) EXCEPT !.identity = NoKey]

generateIdentity(w, fresh) == [resetAll(w) EXCEPT !.identity = fresh]

Established(w) == w.sendChain # NoChain

CanEstablish(w, peer) == w.identity # NoKey /\ w.identity # peer

\* Fault: one chain for both directions.
establishSessionOneChain(w, peer) ==
  LET chain == [pair |-> {w.identity, peer}, label |-> "send", step |-> 0]
  IN [resetSession(w) EXCEPT !.sendChain = chain, !.receiveChain = chain]

establishSession(w, peer) ==
  LET lower == w.identity < peer
      chain(label) == [pair |-> {w.identity, peer}, label |-> label, step |-> 0]
  IN [resetSession(w) EXCEPT !.sendChain = chain(IF lower THEN "send" ELSE "recv"),
                             !.receiveChain = chain(IF lower THEN "recv" ELSE "send")]

\* deriveStep, n times: next; its message key is the chain key itself.
Advance(chain, n) == [chain EXCEPT !.step = @ + n]

encryptBinary(w) == [w EXCEPT !.sendChain = Advance(@, 1), !.outbound = @ + 1]

\* The packet encryptBinary returns.
Sealed(w) == [key |-> w.sendChain, counter |-> w.outbound + 1]

\* Fault: the newest key is dropped.
cacheSkippedNewest(cache, counter, key) ==
  LET put == Append(cache, [counter |-> counter, key |-> key])
  IN IF Len(put) > MaxSkipped THEN SubSeq(put, 1, MaxSkipped) ELSE put

\* A Map keeps the place of a key that is set again.
cacheSkipped(cache, counter, key) ==
  LET entry == [counter |-> counter, key |-> key]
      put == IF \E i \in DOMAIN cache : cache[i].counter = counter
             THEN [i \in DOMAIN cache |-> IF cache[i].counter = counter THEN entry ELSE cache[i]]
             ELSE Append(cache, entry)
  IN IF Len(put) > MaxSkipped THEN Tail(put) ELSE put

Cached(w, counter) == {e \in Range(w.skipped) : e.counter = counter}

\* The cache after the loop over the counters that packet p skips.
Skipping(w, p) ==
  LET steps == p.counter - w.highest - 1
      cache[n \in 0..steps] ==
        IF n = 0 THEN w.skipped
        ELSE cacheSkipped(cache[n - 1], w.highest + n, Advance(w.receiveChain, n - 1))
  IN cache[steps]

\* The key decryptBinary tries.
MessageKey(w, p) ==
  IF Cached(w, p.counter) # {} THEN (CHOOSE e \in Cached(w, p.counter) : TRUE).key
  ELSE Advance(w.receiveChain, p.counter - w.highest - 1)

\* "Counter too far ahead" and "Replay detected".
Refused(w, p) ==
  \/ p.counter > w.highest + MaxSkipped + 1
  \/ Cached(w, p.counter) = {} /\ p.counter <= w.highest

Opens(w, p) == Established(w) /\ ~Refused(w, p) /\ MessageKey(w, p) = p.key

\* The chain moves on only with a packet that is authentic, but the keys it
\* skips are cached before that is known.
decryptBinary(w, p) ==
  IF ~Established(w) \/ Refused(w, p) THEN w
  ELSE IF Cached(w, p.counter) # {}
  THEN IF Opens(w, p)
       THEN [w EXCEPT !.skipped = SelectSeq(@, LAMBDA e : e.counter # p.counter)]
       ELSE [w EXCEPT !.mixed = TRUE]
  ELSE IF Opens(w, p)
  THEN [w EXCEPT !.skipped = Skipping(w, p),
                 !.receiveChain = Advance(@, p.counter - w.highest),
                 !.highest = p.counter]
  ELSE [w EXCEPT !.skipped = Skipping(w, p), !.mixed = TRUE]
=============================================================================

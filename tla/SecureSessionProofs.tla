------------------------- MODULE SecureSessionProofs -------------------------
(***************************************************************************)
(* Proofs about SecureSession: for any number of epochs, messages and      *)
(* timeouts, what the user sees as encrypted is (SecureIsReal), and no two *)
(* packets are sealed with the same key (KeyUsedOnce).                     *)
(***************************************************************************)
EXTENDS SecureSession, TLAPS

-----------------------------------------------------------------------------
(* The types. *)

Labels == {"none", "send", "recv"}
Handlers == {"idle", "fresh", "handshake", "decrypt"}

Chains == [pair : SUBSET Nat, label : Labels, step : Nat]
Packets == [to : Peers, key : Chains, counter : Nat]

Requests ==
  [type : {"RESET", "CONFIGURE", "GENERATE", "ESTABLISH", "ENCRYPT"},
   epoch : 0..MaxEpochs, key : Nat]
  \cup [type : {"DECRYPT"}, epoch : 0..MaxEpochs, packet : Packets]

Controllers ==
  [epoch : 0..MaxEpochs, local : Nat, secure : Nat, handler : Handlers,
   serial : [0..MaxEpochs -> Seq(Requests)]]

Clients == [ready : BOOLEAN, chain : Seq(Requests), inbox : Seq(Requests)]

\* A worker; what it has received is of no account here.
IsWorker(w) ==
  w \in [identity : Nat, sendChain : Chains, receiveChain : {w.receiveChain}, outbound : Nat,
         highest : {w.highest}, skipped : {w.skipped}, mixed : {w.mixed}]

-----------------------------------------------------------------------------
(* The inductive invariant. *)

\* The requests of application data, those of prepareFreshCryptoEpoch and those of
\* handleHandshake.
Quiet(q) == q.type \in {"ENCRYPT", "DECRYPT"}
Starting(q) == q.type \in {"RESET", "GENERATE"} \/ (q.type = "CONFIGURE" /\ q.key = NoKey)
Joining(q) == q.type = "ESTABLISH" \/ (q.type = "CONFIGURE" /\ q.key # NoKey)
Opening(q) == q.type = "DECRYPT"

\* What the controller holds while each of its inbound tasks is at work.
Phase(c) ==
  /\ c.handler = "fresh" => c.local = NoKey /\ c.secure = NoKey
  /\ c.handler = "handshake" => c.local # NoKey /\ c.secure = NoKey
  /\ c.handler = "decrypt" => c.secure # NoKey
  /\ c.secure # NoKey => c.local # NoKey

\* cryptoSerial: a later epoch has no task; before the channel is secure the epoch
\* has the task of the handshake and no other; at most one task decrypts.
Queued(c) ==
  /\ \A e \in 0..MaxEpochs : e > c.epoch => c.serial[e] = <<>>
  /\ c.secure = NoKey /\ c.handler # "handshake" => c.serial[c.epoch] = <<>>
  /\ c.handler = "handshake" =>
       Len(c.serial[c.epoch]) = 1 /\ ~Quiet(c.serial[c.epoch][1])
  /\ \A e \in 0..MaxEpochs : \A i \in 1..Len(c.serial[e]) :
       /\ c.serial[e][i].epoch = e
       /\ Quiet(c.serial[e][i]) \/ (e = c.epoch /\ c.handler = "handshake")
       /\ Opening(c.serial[e][i]) => c.handler = "decrypt"
  /\ \A e, f \in 0..MaxEpochs : \A i \in 1..Len(c.serial[e]), j \in 1..Len(c.serial[f]) :
       Opening(c.serial[e][i]) /\ Opening(c.serial[f][j]) => e = f /\ i = j

\* The requests that wait: each belongs to the task at work in its epoch or to the
\* inbound task, and no task has two.
Chained(c, ch) ==
  /\ \A i \in 1..Len(ch) :
       /\ Starting(ch[i]) => c.handler = "fresh" /\ ch[i].epoch = c.epoch
       /\ Joining(ch[i]) => c.handler = "handshake" /\ ch[i].epoch = c.epoch
       /\ Quiet(ch[i]) => /\ Len(c.serial[ch[i].epoch]) > 0
                          /\ c.serial[ch[i].epoch][1] = ch[i]
  /\ \A i, j \in 1..Len(ch) : ~Quiet(ch[i]) /\ ~Quiet(ch[j]) => i = j
  /\ \A i, j \in 1..Len(ch) :
       Quiet(ch[i]) /\ Quiet(ch[j]) /\ ch[i].epoch = ch[j].epoch => i = j

Tasks(c, ch) == Phase(c) /\ Queued(c) /\ Chained(c, ch)

\* The pending request is the last one posted.
Pending(ch, ib) == ch # <<>> => Len(ib) > 0 /\ ib[Len(ib)] = ch[1]

\* The direction of the chain a client with identity i sends to k on.
Direction(i, k) == IF i < k THEN "send" ELSE "recv"

\* The worker has the identity of the controller, and keeps it; once the channel is
\* secure it has its session, and no request is left that would replace it.
Agrees(c, ib, w) ==
  /\ c.local # NoKey =>
       /\ w.identity = c.local
       /\ \A i \in 1..Len(ib) : ib[i].type \notin {"RESET", "GENERATE"}
  /\ c.secure # NoKey =>
       /\ w.sendChain.pair = {c.local, c.secure}
       /\ w.sendChain.label = Direction(c.local, c.secure)
       /\ \A i \in 1..Len(ib) : Quiet(ib[i])

\* o tells who generated the identities in use.
Named(p, c, ch, o) ==
  /\ c.local # NoKey => c.local \in 1..Len(o) /\ o[c.local] = p
  /\ c.secure # NoKey => c.secure \in 1..Len(o) /\ o[c.secure] = Other(p)
  /\ \A i \in 1..Len(ch) : Joining(ch[i]) =>
       ch[i].key \in 1..Len(o) /\ o[ch[i].key] = Other(p)

\* The keys p has used: of a pair of its own identity and one of the other client's,
\* in its own direction; none of the session that is being established, and of the
\* present session only earlier ones.
Spent(p, c, w, s, o) ==
  /\ \A i \in 1..Len(s) : \E l, k \in 1..Len(o) :
       /\ o[l] = p /\ o[k] = Other(p)
       /\ s[i].pair = {l, k} /\ s[i].label = Direction(l, k)
  /\ c.local # NoKey /\ c.secure = NoKey => \A i \in 1..Len(s) : c.local \notin s[i].pair
  /\ c.secure # NoKey => \A i \in 1..Len(s) :
       s[i].pair = w.sendChain.pair => s[i].step < w.sendChain.step
  /\ \A i, j \in 1..Len(s) : s[i] = s[j] => i = j

PeerInv(p, c, r, w, s, o) ==
  /\ c \in Controllers /\ r \in Clients /\ IsWorker(w) /\ s \in Seq(Chains)
  /\ Tasks(c, r.chain) /\ Pending(r.chain, r.inbox) /\ Agrees(c, r.inbox, w)
  /\ Named(p, c, r.chain, o) /\ Spent(p, c, w, s, o)

IInv ==
  /\ ctl \in [Peers -> Controllers] /\ rpc \in [Peers -> Clients]
  /\ DOMAIN worker = Peers /\ worker = [p \in Peers |-> worker[p]]
  /\ sealed \in [Peers -> Seq(Chains)]
  /\ net \in SUBSET Packets /\ owner \in Seq(Peers)
  /\ \A p \in Peers : PeerInv(p, ctl[p], rpc[p], worker[p], sealed[p], owner)

-----------------------------------------------------------------------------
(* What the operators of CryptoClient and SessionController do, field by     *)
(* field.                                                                    *)

Pairs == [c : Controllers, r : Clients]

\* Posts(ib, ch): the requests posted, when those of ch wait after ib was posted.
Posts(ib, ch) == IF ch = <<>> THEN ib ELSE Append(ib, ch[1])

\* The updates the operators are made of.
WithRequests(r, ch, ib) == [r EXCEPT !.chain = ch, !.inbox = ib]
PairWithRequests(x, ch, ib) == [x EXCEPT !.r.chain = ch, !.r.inbox = ib]
WithTasks(x, e, s) == [x EXCEPT !.c.serial[e] = s]

\* Tasks t are the tasks s with q appended in epoch e; without the first one there.
Grows(t, s, e, q) ==
  \A f \in 0..MaxEpochs : t[f] = IF f = e THEN Append(s[f], q) ELSE s[f]
Shrinks(t, s, e) ==
  \A f \in 0..MaxEpochs : t[f] = IF f = e THEN Tail(s[f]) ELSE s[f]

\* What is left of a sequence without its first element.
LEMMA TailFacts ==
  ASSUME NEW S, NEW s \in Seq(S), s # <<>>
  PROVE  /\ Len(s) \in Nat \ {0} /\ Head(s) = s[1] /\ s[1] \in S
         /\ Tail(s) \in Seq(S) /\ Len(Tail(s)) = Len(s) - 1
         /\ \A i \in 1..Len(Tail(s)) : i + 1 \in 1..Len(s) /\ Tail(s)[i] = s[i + 1]
         /\ Tail(s) = <<>> <=> Len(s) = 1
<1>1. Len(s) \in Nat \ {0} /\ Head(s) = s[1] /\ s[1] \in S
  OBVIOUS
<1>2. Tail(s) \in Seq(S) /\ Len(Tail(s)) = Len(s) - 1
  OBVIOUS
<1>3. \A i \in 1..Len(Tail(s)) : i + 1 \in 1..Len(s) /\ Tail(s)[i] = s[i + 1]
  BY <1>1, <1>2
<1>4. Tail(s) = <<>> <=> Len(Tail(s)) = 0
  <2> DEFINE t == Tail(s)
  <2> HIDE DEF t
  <2>1. t \in Seq(S)
    BY <1>2 DEF t
  <2>2. t = <<>> <=> Len(t) = 0
    BY <2>1
  <2> QED
    BY <2>2 DEF t
<1> QED
  BY <1>1, <1>2, <1>3, <1>4

\* What a sequence holds once an element is appended.
LEMMA AppendFacts ==
  ASSUME NEW S, NEW s \in Seq(S), NEW a \in S
  PROVE  /\ Append(s, a) \in Seq(S) /\ Len(Append(s, a)) = Len(s) + 1 /\ Len(s) \in Nat
         /\ Append(s, a) # <<>> /\ Append(s, a)[Len(s) + 1] = a
         /\ \A i \in 1..Len(s) : Append(s, a)[i] = s[i]
  OBVIOUS

\* The places of a sequence that an element is added to.
LEMMA AppendPlaces ==
  ASSUME NEW S, NEW s \in Seq(S), NEW a \in S
  PROVE  /\ Append(s, a) \in Seq(S)
         /\ \A i \in 1..Len(s) : i \in 1..Len(Append(s, a)) /\ Append(s, a)[i] = s[i]
         /\ Len(s) + 1 \in 1..Len(Append(s, a)) /\ Append(s, a)[Len(s) + 1] = a
<1>1. Len(s) \in Nat /\ Len(Append(s, a)) = Len(s) + 1
  OBVIOUS
<1> QED
  BY <1>1

\* Each of those places is an old one or the last.
LEMMA AppendPlace ==
  ASSUME NEW S, NEW s \in Seq(S), NEW a \in S, NEW i \in 1..Len(Append(s, a))
  PROVE  \/ i \in 1..Len(s) /\ Append(s, a)[i] = s[i]
         \/ i = Len(Append(s, a)) /\ Append(s, a)[i] = a
<1>1. Len(s) \in Nat /\ Len(Append(s, a)) = Len(s) + 1
  OBVIOUS
<1> QED
  BY <1>1

\* The empty sequence has no place.
LEMMA EmptyPlaces == Len(<<>>) # 1 /\ \A i \in 1..Len(<<>>) : FALSE
  OBVIOUS

\* A step below another stays below the one after it.
LEMMA StepOrder ==
  ASSUME NEW i \in Nat, NEW j \in Nat
  PROVE  (i < j => i < j + 1) /\ i < i + 1 /\ ~(i < i)
  OBVIOUS

\* The fields of a client whose requests are replaced.
LEMMA ClientFields ==
  ASSUME NEW r \in Clients, NEW ch \in Seq(Requests), NEW ib \in Seq(Requests)
  PROVE  /\ WithRequests(r, ch, ib) \in Clients /\ WithRequests(r, ch, ib).ready = r.ready
         /\ WithRequests(r, ch, ib).chain = ch /\ WithRequests(r, ch, ib).inbox = ib
  BY Zenon DEF Clients, WithRequests

\* The same beside a controller.
LEMMA PairFields ==
  ASSUME NEW x \in Pairs, NEW ch \in Seq(Requests), NEW ib \in Seq(Requests)
  PROVE  /\ PairWithRequests(x, ch, ib) \in Pairs
         /\ PairWithRequests(x, ch, ib).c = x.c
         /\ PairWithRequests(x, ch, ib).r.ready = x.r.ready
         /\ PairWithRequests(x, ch, ib).r.chain = ch
         /\ PairWithRequests(x, ch, ib).r.inbox = ib
  BY Zenon DEF Pairs, Clients, PairWithRequests

\* The fields of a controller whose tasks of an epoch are replaced.
LEMMA SerialFields ==
  ASSUME NEW x \in Pairs, NEW e \in 0..MaxEpochs, NEW s \in Seq(Requests)
  PROVE  /\ WithTasks(x, e, s) \in Pairs /\ WithTasks(x, e, s).r = x.r
         /\ WithTasks(x, e, s).c.epoch = x.c.epoch
         /\ WithTasks(x, e, s).c.local = x.c.local
         /\ WithTasks(x, e, s).c.secure = x.c.secure
         /\ WithTasks(x, e, s).c.handler = x.c.handler
         /\ \A f \in 0..MaxEpochs :
              WithTasks(x, e, s).c.serial[f] = IF f = e THEN s ELSE x.c.serial[f]
  BY Zenon DEF Pairs, Controllers, WithTasks

\* serialRequest puts the request at the end of requestChain, and posts it when no
\* other is pending.
LEMMA SerialRequest ==
  ASSUME NEW x \in Pairs, NEW q \in Requests
  PROVE  LET y == serialRequest(x, q)
         IN /\ y \in Pairs /\ y.c = x.c /\ y.r.ready = x.r.ready
            /\ y.r.chain = Append(x.r.chain, q)
            /\ y.r.inbox = IF x.r.chain = <<>> THEN Append(x.r.inbox, q) ELSE x.r.inbox
<1> DEFINE ch == Append(x.r.chain, q)
           ib == IF x.r.chain = <<>> THEN Append(x.r.inbox, q) ELSE x.r.inbox
<1>1. x.r.chain \in Seq(Requests) /\ x.r.inbox \in Seq(Requests)
  BY DEF Pairs, Clients
<1>2. ch \in Seq(Requests) /\ ib \in Seq(Requests)
  BY <1>1
<1>3. serialRequest(x, q) = PairWithRequests(x, ch, ib)
  BY Zenon DEF serialRequest, PairWithRequests, Pairs, Clients
<1> HIDE DEF ch, ib
<1>4. LET y == serialRequest(x, q)
      IN y \in Pairs /\ y.c = x.c /\ y.r.ready = x.r.ready /\ y.r.chain = ch /\ y.r.inbox = ib
  BY <1>2, <1>3, PairFields
<1> QED
  BY <1>4 DEF ch, ib

\* requestChain holds more than the request that is settled, or that one only.
LEMMA AboveOne ==
  ASSUME NEW n \in Nat \ {0}
  PROVE  n = 1 <=> ~(n > 1)
OBVIOUS

\* A settled request leaves requestChain, and the next one is posted.
LEMMA SettledNext ==
  ASSUME NEW r \in Clients, r.chain # <<>>
  PROVE  LET s == Settled(r)
         IN /\ s \in Clients /\ s.ready = r.ready
            /\ s.chain = Tail(r.chain) /\ s.inbox = Posts(r.inbox, Tail(r.chain))
<1> DEFINE ch == Tail(r.chain)
           ib == IF Len(r.chain) > 1 THEN Append(r.inbox, r.chain[2]) ELSE r.inbox
<1>1. r.chain \in Seq(Requests) /\ r.inbox \in Seq(Requests)
  BY DEF Clients
<1>2. ch \in Seq(Requests) /\ ib \in Seq(Requests)
  BY <1>1
<1>3. Settled(r) = WithRequests(r, ch, ib)
  BY Zenon DEF Settled, WithRequests, Clients
<1>4. ib = Posts(r.inbox, ch)
  <2>1. ch = <<>> <=> ~(Len(r.chain) > 1)
    <3>1. Len(r.chain) \in Nat \ {0} /\ (ch = <<>> <=> Len(r.chain) = 1)
      BY <1>1, TailFacts, Zenon
    <3> QED
      BY <3>1, AboveOne, Zenon
  <2>2. Len(r.chain) > 1 => ch[1] = r.chain[2]
    BY <1>1
  <2> QED
    BY <2>1, <2>2, Zenon DEF Posts
<1> HIDE DEF ch, ib
<1>5. LET s == Settled(r)
      IN s \in Clients /\ s.ready = r.ready /\ s.chain = ch /\ s.inbox = ib
  BY <1>2, <1>3, ClientFields
<1> QED
  BY <1>4, <1>5 DEF ch

\* The next task of cryptoSerial starts when the one at work ends.
LEMMA TaskDoneFields ==
  ASSUME NEW x \in Pairs, NEW e \in 0..MaxEpochs, x.c.serial[e] # <<>>
  PROVE  LET y == TaskDone(x, e)
         IN /\ y \in Pairs /\ y.r.ready = x.r.ready
            /\ y.c.epoch = x.c.epoch /\ y.c.local = x.c.local
            /\ y.c.secure = x.c.secure /\ y.c.handler = x.c.handler
            /\ Shrinks(y.c.serial, x.c.serial, e)
            /\ IF Len(x.c.serial[e]) > 1
               THEN /\ y.r.chain = Append(x.r.chain, x.c.serial[e][2])
                    /\ y.r.inbox = IF x.r.chain = <<>> THEN Append(x.r.inbox, x.c.serial[e][2])
                                   ELSE x.r.inbox
               ELSE y.r = x.r
<1> DEFINE s == Tail(x.c.serial[e])
           z == WithTasks(x, e, s)
<1>a. x.c.serial[e] \in Seq(Requests)
  BY Zenon DEF Pairs, Controllers
<1>0. s \in Seq(Requests)
  BY <1>a
<1>3. TaskDone(x, e) = IF Len(x.c.serial[e]) > 1 THEN serialRequest(z, x.c.serial[e][2]) ELSE z
  BY Zenon DEF TaskDone, WithTasks, Pairs, Controllers
<1>1. /\ z \in Pairs /\ z.r = x.r
      /\ z.c.epoch = x.c.epoch /\ z.c.local = x.c.local
      /\ z.c.secure = x.c.secure /\ z.c.handler = x.c.handler
      /\ \A f \in 0..MaxEpochs : z.c.serial[f] = IF f = e THEN s ELSE x.c.serial[f]
  <2> HIDE DEF s
  <2> QED
    BY <1>0, SerialFields
<1>2. Len(x.c.serial[e]) > 1 => x.c.serial[e][2] \in Requests
  BY <1>a
<1> HIDE DEF z
<1>4. CASE Len(x.c.serial[e]) > 1
  <2> DEFINE y == serialRequest(z, x.c.serial[e][2])
  <2>1. /\ y \in Pairs /\ y.c = z.c /\ y.r.ready = z.r.ready
        /\ y.r.chain = Append(z.r.chain, x.c.serial[e][2])
        /\ y.r.inbox = IF z.r.chain = <<>> THEN Append(z.r.inbox, x.c.serial[e][2])
                       ELSE z.r.inbox
    BY <1>1, <1>2, <1>4, SerialRequest, Zenon
  <2>2. TaskDone(x, e) = y
    BY <1>3, <1>4
  <2> HIDE DEF y, s
  <2>3. \A f \in 0..MaxEpochs : y.c.serial[f] = IF f = e THEN s ELSE x.c.serial[f]
    BY <1>1, <2>1
  <2>4. /\ y.c.epoch = x.c.epoch /\ y.c.local = x.c.local
        /\ y.c.secure = x.c.secure /\ y.c.handler = x.c.handler /\ y.r.ready = x.r.ready
        /\ y.r.chain = Append(x.r.chain, x.c.serial[e][2])
        /\ y.r.inbox = IF x.r.chain = <<>> THEN Append(x.r.inbox, x.c.serial[e][2])
                       ELSE x.r.inbox
    BY <1>1, <2>1
  <2> QED
    BY <1>4, <2>1, <2>2, <2>3, <2>4, Zenon DEF s, Grows, Shrinks
<1>5. CASE ~(Len(x.c.serial[e]) > 1)
  BY <1>1, <1>3, <1>5, Zenon DEF Shrinks
<1> QED
  BY <1>4, <1>5

\* runCrypto appends a task to cryptoSerial, and starts it when it is the only one.
LEMMA RunCryptoFields ==
  ASSUME NEW x \in Pairs, NEW q \in Requests
  PROVE  LET y == runCrypto(x, q)
         IN /\ y \in Pairs /\ y.r.ready = x.r.ready
            /\ y.c.epoch = x.c.epoch /\ y.c.local = x.c.local
            /\ y.c.secure = x.c.secure /\ y.c.handler = x.c.handler
            /\ Grows(y.c.serial, x.c.serial, q.epoch, q)
            /\ IF x.c.serial[q.epoch] = <<>>
               THEN /\ y.r.chain = Append(x.r.chain, q)
                    /\ y.r.inbox = IF x.r.chain = <<>> THEN Append(x.r.inbox, q) ELSE x.r.inbox
               ELSE y.r = x.r
<1> DEFINE e == q.epoch
           s == Append(x.c.serial[e], q)
           z == WithTasks(x, e, s)
<1>1. e \in 0..MaxEpochs
  BY DEF Requests
<1>a. x.c.serial[e] \in Seq(Requests)
  BY <1>1, Zenon DEF Pairs, Controllers
<1>0. s \in Seq(Requests)
  BY <1>a
<1>3. runCrypto(x, q) = IF x.c.serial[q.epoch] = <<>> THEN serialRequest(z, q) ELSE z
  BY <1>1, Zenon DEF runCrypto, WithTasks, Pairs, Controllers
<1>2. /\ z \in Pairs /\ z.r = x.r
      /\ z.c.epoch = x.c.epoch /\ z.c.local = x.c.local
      /\ z.c.secure = x.c.secure /\ z.c.handler = x.c.handler
      /\ \A f \in 0..MaxEpochs : z.c.serial[f] = IF f = e THEN s ELSE x.c.serial[f]
  <2> HIDE DEF s, e
  <2> QED
    BY <1>0, <1>1, SerialFields
<1> HIDE DEF z
<1>4. CASE x.c.serial[q.epoch] = <<>>
  <2> DEFINE y == serialRequest(z, q)
  <2>1. /\ y \in Pairs /\ y.c = z.c /\ y.r.ready = z.r.ready
        /\ y.r.chain = Append(z.r.chain, q)
        /\ y.r.inbox = IF z.r.chain = <<>> THEN Append(z.r.inbox, q) ELSE z.r.inbox
    BY <1>2, SerialRequest, Zenon
  <2>2. runCrypto(x, q) = y
    BY <1>3, <1>4
  <2> HIDE DEF y, s
  <2>3. \A f \in 0..MaxEpochs : y.c.serial[f] = IF f = e THEN s ELSE x.c.serial[f]
    BY <1>2, <2>1
  <2>4. /\ y.c.epoch = x.c.epoch /\ y.c.local = x.c.local
        /\ y.c.secure = x.c.secure /\ y.c.handler = x.c.handler /\ y.r.ready = x.r.ready
        /\ y.r.chain = Append(x.r.chain, q)
        /\ y.r.inbox = IF x.r.chain = <<>> THEN Append(x.r.inbox, q) ELSE x.r.inbox
    BY <1>2, <2>1
  <2> QED
    BY <1>4, <2>1, <2>2, <2>3, <2>4, Zenon DEF s, Grows, Shrinks
<1>5. CASE x.c.serial[q.epoch] # <<>>
  BY <1>2, <1>3, <1>5 DEF Grows
<1> QED
  BY <1>4, <1>5

\* The inbound task ends.
LEMMA HandlerDoneFields ==
  ASSUME NEW x \in Pairs
  PROVE  LET y == HandlerDone(x)
         IN /\ y \in Pairs /\ y.r = x.r /\ y.c.handler = "idle"
            /\ y.c.epoch = x.c.epoch /\ y.c.local = x.c.local
            /\ y.c.secure = x.c.secure /\ y.c.serial = x.c.serial
  BY DEF HandlerDone, Pairs, Controllers, Handlers

-----------------------------------------------------------------------------
(* The tasks and their requests, as they come and go. *)

\* A request is of one kind.
LEMMA Kinds ==
  ASSUME NEW q \in Requests
  PROVE  /\ Quiet(q) \/ Starting(q) \/ Joining(q)
         /\ Quiet(q) => ~Starting(q) /\ ~Joining(q)
         /\ Starting(q) => ~Joining(q)
         /\ Opening(q) => Quiet(q)
         /\ q.epoch \in 0..MaxEpochs
  BY DEF Requests, Quiet, Starting, Joining, Opening

\* A request of a new inbound task or of an epoch's first task joins requestChain:
\* no request that waits is of its kind.
LEMMA FreshBegins ==
  ASSUME NEW c \in Controllers, NEW d \in Controllers, NEW ch \in Seq(Requests),
         NEW q \in Requests, Tasks(c, ch), c.handler = "idle",
         d.epoch = c.epoch + 1, d.local = NoKey, d.secure = NoKey, d.handler = "fresh",
         d.serial = c.serial, Starting(q), q.epoch = d.epoch
  PROVE  Tasks(d, Append(ch, q))
<1> DEFINE a == Append(ch, q)
<1>1. /\ a \in Seq(Requests) /\ Len(a) = Len(ch) + 1 /\ Len(ch) \in Nat
      /\ a[Len(ch) + 1] = q /\ \A i \in 1..Len(ch) : a[i] = ch[i] /\ ch[i] \in Requests
  BY AppendFacts
<1> HIDE DEF a
<1>2. ~Quiet(q) /\ ~Joining(q)
  BY Kinds
<1>3. \A i \in 1..Len(ch) : Quiet(ch[i])
  BY <1>1, Kinds DEF Tasks, Chained
<1>4. Phase(d)
  BY DEF Phase
<1>5. Queued(d)
  BY DEF Tasks, Queued, Controllers
<1>6. \A i \in 1..Len(a) : (i \in 1..Len(ch) /\ a[i] = ch[i]) \/ (i = Len(a) /\ a[i] = q)
  BY <1>1
<1>7. Chained(d, a)
  <2>1. ASSUME NEW i \in 1..Len(a)
        PROVE  /\ Starting(a[i]) => d.handler = "fresh" /\ a[i].epoch = d.epoch
               /\ Joining(a[i]) => d.handler = "handshake" /\ a[i].epoch = d.epoch
               /\ Quiet(a[i]) => /\ Len(d.serial[a[i].epoch]) > 0
                                 /\ d.serial[a[i].epoch][1] = a[i]
    <3>1. CASE i = Len(a) /\ a[i] = q
      BY <1>2, <3>1, Zenon
    <3>2. CASE i \in 1..Len(ch) /\ a[i] = ch[i]
      BY <1>1, <1>3, <3>2, Kinds DEF Tasks, Chained
    <3> QED
      BY <1>6, <3>1, <3>2
  <2>2. ASSUME NEW i \in 1..Len(a), NEW j \in 1..Len(a), ~Quiet(a[i]), ~Quiet(a[j])
        PROVE  i = j
    BY <1>3, <1>6, <2>2
  <2>3. ASSUME NEW i \in 1..Len(a), NEW j \in 1..Len(a), Quiet(a[i]), Quiet(a[j]),
               a[i].epoch = a[j].epoch
        PROVE  i = j
    BY <1>2, <1>6, <2>3 DEF Tasks, Chained
  <2> QED
    BY <2>1, <2>2, <2>3, Zenon DEF Chained
<1> QED
  BY <1>4, <1>5, <1>7 DEF Tasks, a

\* handleHandshake runs its task at once: the epoch has no other.
LEMMA HandshakeBegins ==
  ASSUME NEW c \in Controllers, NEW d \in Controllers, NEW ch \in Seq(Requests),
         NEW q \in Requests, Tasks(c, ch), c.handler = "idle", c.local # NoKey, c.secure = NoKey,
         d.epoch = c.epoch, d.local = c.local, d.secure = NoKey, d.handler = "handshake",
         Joining(q), q.epoch = c.epoch, Grows(d.serial, c.serial, c.epoch, q)
  PROVE  c.serial[c.epoch] = <<>> /\ Tasks(d, Append(ch, q))
<1> DEFINE a == Append(ch, q)
<1>1. /\ a \in Seq(Requests) /\ Len(a) = Len(ch) + 1 /\ Len(ch) \in Nat
      /\ a[Len(ch) + 1] = q /\ \A i \in 1..Len(ch) : a[i] = ch[i] /\ ch[i] \in Requests
  BY AppendFacts
<1> HIDE DEF a
<1>2. ~Quiet(q) /\ ~Starting(q) /\ ~Opening(q)
  BY Kinds, Zenon
<1>3. \A i \in 1..Len(ch) : Quiet(ch[i])
  BY <1>1, Kinds DEF Tasks, Chained
<1>4. c.epoch \in 0..MaxEpochs /\ c.serial[c.epoch] = <<>>
  BY DEF Tasks, Queued, Controllers
<1>5. Len(d.serial[c.epoch]) = 1 /\ d.serial[c.epoch][1] = q
  <2>1. d.serial[c.epoch] = Append(<<>>, q)
    BY <1>4, Zenon DEF Grows
  <2> QED
    BY <2>1
<1>6. \A e \in 0..MaxEpochs : e # c.epoch => d.serial[e] = c.serial[e]
  BY <1>4 DEF Grows
<1>7. Phase(d)
  BY DEF Phase
<1>8. Queued(d)
  <2>1. \A e \in 0..MaxEpochs : e > d.epoch => d.serial[e] = <<>>
    BY <1>6 DEF Tasks, Queued
  <2>2. ASSUME NEW e \in 0..MaxEpochs, NEW i \in 1..Len(d.serial[e])
        PROVE  /\ d.serial[e][i].epoch = e
               /\ Quiet(d.serial[e][i]) \/ (e = d.epoch /\ d.handler = "handshake")
               /\ ~Opening(d.serial[e][i])
    <3>1. CASE e = c.epoch
      <4>0. Len(d.serial[e]) = 1 /\ d.serial[e][1] = q
        BY <1>5, <3>1
      <4>1. i = 1 /\ d.serial[e][i] = q
        BY <4>0
      <4> QED
        BY <1>2, <3>1, <4>1
    <3>2. CASE e # c.epoch
      BY <1>6, <3>2 DEF Tasks, Queued
    <3> QED
      BY <3>1, <3>2
  <2> QED
    BY <1>2, <1>5, <2>1, <2>2, Zenon DEF Queued
<1>9. \A i \in 1..Len(a) : (i \in 1..Len(ch) /\ a[i] = ch[i]) \/ (i = Len(a) /\ a[i] = q)
  BY <1>1
<1>10. \A i \in 1..Len(ch) : /\ ch[i].epoch \in 0..MaxEpochs /\ ch[i].epoch # c.epoch
                             /\ Len(c.serial[ch[i].epoch]) > 0
                             /\ c.serial[ch[i].epoch][1] = ch[i]
  BY <1>1, <1>3, <1>4 DEF Tasks, Chained, Requests
<1>11. Chained(d, a)
  <2>1. ASSUME NEW i \in 1..Len(a)
        PROVE  /\ Starting(a[i]) => d.handler = "fresh" /\ a[i].epoch = d.epoch
               /\ Joining(a[i]) => d.handler = "handshake" /\ a[i].epoch = d.epoch
               /\ Quiet(a[i]) => /\ Len(d.serial[a[i].epoch]) > 0
                                 /\ d.serial[a[i].epoch][1] = a[i]
    <3>1. CASE i = Len(a) /\ a[i] = q
      BY <1>2, <3>1, Zenon
    <3>2. CASE i \in 1..Len(ch) /\ a[i] = ch[i]
      <4>1. d.serial[ch[i].epoch] = c.serial[ch[i].epoch]
        BY <1>6, <1>10, <3>2, Zenon
      <4> QED
        BY <1>1, <1>3, <1>10, <3>2, <4>1, Kinds
    <3> QED
      BY <1>9, <3>1, <3>2
  <2>2. ASSUME NEW i \in 1..Len(a), NEW j \in 1..Len(a), ~Quiet(a[i]), ~Quiet(a[j])
        PROVE  i = j
    BY <1>3, <1>9, <2>2
  <2>3. ASSUME NEW i \in 1..Len(a), NEW j \in 1..Len(a), Quiet(a[i]), Quiet(a[j]),
               a[i].epoch = a[j].epoch
        PROVE  i = j
    BY <1>2, <1>9, <2>3 DEF Tasks, Chained
  <2> QED
    BY <2>1, <2>2, <2>3 DEF Chained
<1> QED
  BY <1>4, <1>7, <1>8, <1>11 DEF Tasks, a

\* runCrypto of application data: the task waits behind the others of its epoch, or
\* its request joins requestChain.
LEMMA QuietBegins ==
  ASSUME NEW c \in Controllers, NEW d \in Controllers, NEW ch \in Seq(Requests),
         NEW q \in Requests, Tasks(c, ch), c.secure # NoKey,
         d.epoch = c.epoch, d.local = c.local, d.secure = c.secure,
         Quiet(q), q.epoch = c.epoch, Grows(d.serial, c.serial, c.epoch, q),
         \/ Opening(q) /\ c.handler = "idle" /\ d.handler = "decrypt"
         \/ ~Opening(q) /\ d.handler = c.handler
  PROVE  Tasks(d, IF c.serial[c.epoch] = <<>> THEN Append(ch, q) ELSE ch)
<1> DEFINE E == c.epoch
           s == c.serial[E]
           t == d.serial[E]
           a == IF c.serial[c.epoch] = <<>> THEN Append(ch, q) ELSE ch
<1>1. E \in 0..MaxEpochs /\ s \in Seq(Requests) /\ \A e \in 0..MaxEpochs : c.serial[e] \in Seq(Requests)
  BY Zenon DEF Controllers
<1>2. t = Append(s, q)
  BY <1>1, Zenon DEF Grows
<1>3. /\ Len(t) = Len(s) + 1 /\ Len(s) \in Nat /\ t[Len(s) + 1] = q
      /\ \A i \in 1..Len(s) : t[i] = s[i]
  <2> HIDE DEF s, t
  <2> QED
    BY <1>1, <1>2, AppendFacts
<1>4. \A e \in 0..MaxEpochs : e # E => d.serial[e] = c.serial[e]
  BY <1>1 DEF Grows
<1>5. c.handler # "fresh" /\ c.handler # "handshake" /\ d.handler # "handshake"
  BY DEF Tasks, Phase
<1>6. Phase(d)
  BY <1>5 DEF Tasks, Phase
<1>7. ASSUME NEW e \in 0..MaxEpochs, NEW i \in 1..Len(d.serial[e])
      PROVE  \/ i \in 1..Len(c.serial[e]) /\ d.serial[e][i] = c.serial[e][i]
             \/ e = E /\ i = Len(t) /\ d.serial[e][i] = q
  <2>1. CASE e = E
    <3>1. i \in 1..Len(t)
      BY <2>1
    <3>2. (i \in 1..Len(s) /\ t[i] = s[i]) \/ (i = Len(t) /\ t[i] = q)
      <4> HIDE DEF s, t
      <4> QED
        BY <1>3, <3>1
    <3> QED
      BY <2>1, <3>2
  <2>2. CASE e # E
    BY <1>4, <2>2, Zenon
  <2> QED
    BY <2>1, <2>2
<1>8. Queued(d)
  <2>1. ASSUME NEW e \in 0..MaxEpochs, e > d.epoch PROVE d.serial[e] = <<>>
    <3>1. \A k \in 0..MaxEpochs : ~(k > k)
      OBVIOUS
    <3>2. e # E /\ e > c.epoch
      BY <1>1, <2>1, <3>1, Zenon
    <3>3. c.serial[e] = <<>>
      BY <3>2, Zenon DEF Tasks, Queued
    <3> QED
      BY <1>4, <3>2, <3>3, Zenon
  <2>2. ASSUME NEW e \in 0..MaxEpochs, NEW i \in 1..Len(d.serial[e])
        PROVE  /\ d.serial[e][i].epoch = e
               /\ Quiet(d.serial[e][i])
               /\ Opening(d.serial[e][i]) => d.handler = "decrypt"
    <3>1. CASE e = E /\ i = Len(t) /\ d.serial[e][i] = q
      BY <3>1, Zenon
    <3>2. CASE i \in 1..Len(c.serial[e]) /\ d.serial[e][i] = c.serial[e][i]
      BY <1>5, <3>2, Zenon DEF Tasks, Queued
    <3> QED
      BY <1>7, <3>1, <3>2, Zenon
  <2>3. ASSUME NEW e \in 0..MaxEpochs, NEW f \in 0..MaxEpochs,
               NEW i \in 1..Len(d.serial[e]), NEW j \in 1..Len(d.serial[f]),
               Opening(d.serial[e][i]), Opening(d.serial[f][j])
        PROVE  e = f /\ i = j
    <3>1. CASE ~Opening(q)
      <4>1. /\ i \in 1..Len(c.serial[e]) /\ d.serial[e][i] = c.serial[e][i]
            /\ j \in 1..Len(c.serial[f]) /\ d.serial[f][j] = c.serial[f][j]
        BY <1>7, <2>3, <3>1, Zenon
      <4>2. Opening(c.serial[e][i]) /\ Opening(c.serial[f][j])
        BY <2>3, <4>1, Zenon
      <4>3. \A g, h \in 0..MaxEpochs : \A k \in 1..Len(c.serial[g]), l \in 1..Len(c.serial[h]) :
               Opening(c.serial[g][k]) /\ Opening(c.serial[h][l]) => g = h /\ k = l
        BY Zenon DEF Tasks, Queued
      <4>4. \A k \in 1..Len(c.serial[e]), l \in 1..Len(c.serial[f]) :
               Opening(c.serial[e][k]) /\ Opening(c.serial[f][l]) => e = f /\ k = l
        BY <4>3, Zenon
      <4> QED
        BY <4>1, <4>2, <4>4, Zenon
    <3>2. CASE Opening(q)
      <4>1. \A g \in 0..MaxEpochs : \A k \in 1..Len(c.serial[g]) : ~Opening(c.serial[g][k])
        BY <3>2, Zenon DEF Tasks, Queued
      <4>2. e = E /\ i = Len(t)
        BY <1>7, <2>3, <4>1, Zenon
      <4>3. f = E /\ j = Len(t)
        BY <1>7, <2>3, <4>1, Zenon
      <4> QED
        BY <4>2, <4>3, Zenon
    <3> QED
      BY <3>1, <3>2, Zenon
  <2> QED
    BY <1>5, <2>1, <2>2, <2>3 DEF Queued
<1>9. \A i \in 1..Len(ch) :
        /\ Quiet(ch[i]) /\ ch[i] \in Requests /\ ch[i].epoch \in 0..MaxEpochs
        /\ Len(c.serial[ch[i].epoch]) > 0 /\ c.serial[ch[i].epoch][1] = ch[i]
  <2>1. \A i \in 1..Len(ch) : ch[i] \in Requests
    OBVIOUS
  <2> QED
    BY <1>5, <2>1, Kinds DEF Tasks, Chained
<1>10. \A i \in 1..Len(ch) :
         /\ Len(d.serial[ch[i].epoch]) > 0 /\ d.serial[ch[i].epoch][1] = ch[i]
  <2> SUFFICES ASSUME NEW i \in 1..Len(ch)
               PROVE  Len(d.serial[ch[i].epoch]) > 0 /\ d.serial[ch[i].epoch][1] = ch[i]
    BY Zenon
  <2>1. CASE ch[i].epoch # E
    BY <1>4, <1>9, <2>1, Zenon
  <2>2. CASE ch[i].epoch = E
    <3>1. Len(s) > 0 /\ s[1] = ch[i]
      BY <1>9, <2>2
    <3>2. Len(t) > 0 /\ t[1] = ch[i]
      <4> HIDE DEF s, t
      <4> QED
        BY <1>3, <3>1
    <3> QED
      BY <2>2, <3>2
  <2> QED
    BY <2>1, <2>2, Zenon
<1>11. CASE s # <<>>
  <2>1. a = ch
    BY <1>11, Zenon
  <2>2. Chained(d, ch)
    BY <1>9, <1>10, Kinds DEF Tasks, Chained
  <2> QED
    BY <1>6, <1>8, <2>1, <2>2 DEF Tasks
<1>12. CASE s = <<>>
  <2> DEFINE b == Append(ch, q)
  <2>1. a = b
    BY <1>12, Zenon
  <2>2. \A i \in 1..Len(b) : (i \in 1..Len(ch) /\ b[i] = ch[i]) \/ (i = Len(b) /\ b[i] = q)
    BY AppendFacts
  <2> HIDE DEF b
  <2>3. \A i \in 1..Len(ch) : ch[i].epoch # E
    <3>1. Len(s) = 0
      BY <1>12
    <3> QED
      BY <1>9, <3>1
  <2>4. Len(t) = 1 /\ t[1] = q
    <3>1. Len(s) = 0
      BY <1>12
    <3> HIDE DEF s, t
    <3> QED
      BY <1>3, <3>1
  <2>5. ASSUME NEW i \in 1..Len(b)
        PROVE  Quiet(b[i]) /\ b[i] \in Requests /\ Len(d.serial[b[i].epoch]) > 0 /\ d.serial[b[i].epoch][1] = b[i]
    BY <1>9, <1>10, <2>2, <2>4
  <2>6. ASSUME NEW i \in 1..Len(b), NEW j \in 1..Len(b), b[i].epoch = b[j].epoch
        PROVE  i = j
    BY <1>9, <2>2, <2>3, <2>6 DEF Tasks, Chained
  <2>7. Chained(d, b)
    BY <2>5, <2>6, Kinds, Zenon DEF Chained
  <2> QED
    BY <1>6, <1>8, <2>1, <2>7, Zenon DEF Tasks
<1> QED
  BY <1>11, <1>12

\* An inbound task goes on with its next request.
LEMMA GoesOn ==
  ASSUME NEW c \in Controllers, NEW ch \in Seq(Requests), ch # <<>>, NEW q \in Requests,
         Tasks(c, ch), q.epoch = ch[1].epoch,
         (Starting(ch[1]) /\ Starting(q)) \/ (Joining(ch[1]) /\ Joining(q))
  PROVE  Tasks(c, Append(Tail(ch), q))
<1> DEFINE u == Tail(ch)
           a == Append(u, q)
<1>1. /\ Len(ch) \in Nat \ {0} /\ ch[1] \in Requests /\ u \in Seq(Requests)
      /\ \A i \in 1..Len(u) : i + 1 \in 1..Len(ch) /\ u[i] = ch[i + 1]
  BY TailFacts
<1>2. \A i \in 1..Len(ch) : ch[i] \in Requests
  OBVIOUS
<1> HIDE DEF u
<1>3. \A i \in 1..Len(a) : (i \in 1..Len(u) /\ a[i] = u[i]) \/ (i = Len(a) /\ a[i] = q)
  BY <1>1, AppendFacts
<1> HIDE DEF a
<1>4. ~Quiet(q) /\ ~Quiet(ch[1]) /\ 1 \in 1..Len(ch)
  BY <1>1, Kinds
<1>5. \A i \in 1..Len(u) : u[i] \in Requests /\ Quiet(u[i])
  <2> SUFFICES ASSUME NEW i \in 1..Len(u) PROVE ch[i + 1] \in Requests /\ Quiet(ch[i + 1])
    BY <1>1
  <2>1. i + 1 \in 1..Len(ch) /\ i + 1 # 1
    BY <1>1
  <2> QED
    BY <1>2, <1>4, <2>1 DEF Tasks, Chained
<1>6. ASSUME NEW i \in 1..Len(u)
      PROVE  /\ Len(c.serial[u[i].epoch]) > 0 /\ c.serial[u[i].epoch][1] = u[i]
             /\ ~Starting(u[i]) /\ ~Joining(u[i])
  <2>1. i + 1 \in 1..Len(ch) /\ u[i] = ch[i + 1] /\ Quiet(ch[i + 1])
    BY <1>1, <1>5, Zenon
  <2>2. Len(c.serial[ch[i + 1].epoch]) > 0 /\ c.serial[ch[i + 1].epoch][1] = ch[i + 1]
    BY <2>1, Zenon DEF Tasks, Chained
  <2> QED
    BY <1>5, <2>1, <2>2, Kinds
<1>7. /\ Starting(q) => c.handler = "fresh" /\ q.epoch = c.epoch
      /\ Joining(q) => c.handler = "handshake" /\ q.epoch = c.epoch
  BY <1>1, <1>4, Kinds DEF Tasks, Chained
<1>8. ASSUME NEW i \in 1..Len(u), NEW j \in 1..Len(u), u[i].epoch = u[j].epoch
      PROVE  i = j
  <2>1. i + 1 \in 1..Len(ch) /\ j + 1 \in 1..Len(ch) /\ u[i] = ch[i + 1] /\ u[j] = ch[j + 1]
    BY <1>1, Zenon
  <2>2. i + 1 = j + 1
    BY <1>5, <1>8, <2>1 DEF Tasks, Chained
  <2> QED
    BY <2>2
<1>9. Chained(c, a)
  <2>1. ASSUME NEW i \in 1..Len(a)
        PROVE  /\ Starting(a[i]) => c.handler = "fresh" /\ a[i].epoch = c.epoch
               /\ Joining(a[i]) => c.handler = "handshake" /\ a[i].epoch = c.epoch
               /\ Quiet(a[i]) => /\ Len(c.serial[a[i].epoch]) > 0
                                 /\ c.serial[a[i].epoch][1] = a[i]
    BY <1>3, <1>4, <1>6, <1>7
  <2>2. ASSUME NEW i \in 1..Len(a), NEW j \in 1..Len(a), ~Quiet(a[i]), ~Quiet(a[j])
        PROVE  i = j
    BY <1>3, <1>5, <2>2
  <2>3. ASSUME NEW i \in 1..Len(a), NEW j \in 1..Len(a), Quiet(a[i]), Quiet(a[j]),
               a[i].epoch = a[j].epoch
        PROVE  i = j
    BY <1>3, <1>4, <1>8, <2>3, Zenon
  <2> QED
    BY <2>1, <2>2, <2>3, Zenon DEF Chained
<1> QED
  BY <1>9 DEF Tasks, u, a

\* An inbound task without application data ends, and with it what cryptoSerial
\* held for it.
LEMMA HandlerEnds ==
  ASSUME NEW c \in Controllers, NEW d \in Controllers, NEW ch \in Seq(Requests), ch # <<>>,
         Tasks(c, ch), ~Quiet(ch[1]), Phase(d),
         d.epoch = c.epoch, d.handler = "idle", d.serial[c.epoch] = <<>>,
         \A e \in 0..MaxEpochs : e # c.epoch => d.serial[e] = c.serial[e]
  PROVE  Tasks(d, Tail(ch))
<1> DEFINE u == Tail(ch)
<1>1. /\ Len(ch) \in Nat \ {0} /\ ch[1] \in Requests /\ u \in Seq(Requests)
      /\ \A i \in 1..Len(u) : i + 1 \in 1..Len(ch) /\ u[i] = ch[i + 1]
  BY TailFacts
<1>2. \A i \in 1..Len(ch) : ch[i] \in Requests
  OBVIOUS
<1> HIDE DEF u
<1>3. c.handler \in {"fresh", "handshake"} /\ c.secure = NoKey
  <2>1. Starting(ch[1]) \/ Joining(ch[1])
    BY <1>1, Kinds
  <2>2. 1 \in 1..Len(ch)
    BY <1>1
  <2> QED
    BY <2>1, <2>2, Zenon DEF Tasks, Chained, Phase
<1>4. \A i \in 1..Len(u) : u[i] \in Requests /\ Quiet(u[i])
  <2> SUFFICES ASSUME NEW i \in 1..Len(u) PROVE ch[i + 1] \in Requests /\ Quiet(ch[i + 1])
    BY <1>1, Zenon
  <2>1. i + 1 \in 1..Len(ch) /\ i + 1 # 1 /\ 1 \in 1..Len(ch)
    BY <1>1
  <2> QED
    BY <1>2, <2>1, Zenon DEF Tasks, Chained
<1>5. ASSUME NEW i \in 1..Len(u)
      PROVE  /\ u[i].epoch \in 0..MaxEpochs
             /\ Len(c.serial[u[i].epoch]) > 0 /\ c.serial[u[i].epoch][1] = u[i]
             /\ ~Starting(u[i]) /\ ~Joining(u[i])
  <2>1. u[i] \in Requests /\ Quiet(u[i]) /\ i + 1 \in 1..Len(ch) /\ u[i] = ch[i + 1]
    BY <1>1, <1>4, Zenon
  <2>2. u[i].epoch \in 0..MaxEpochs /\ ~Starting(u[i]) /\ ~Joining(u[i])
    <3> DEFINE w == u[i]
    <3>1. w \in Requests /\ Quiet(w)
      BY <2>1, Zenon
    <3> HIDE DEF w
    <3>2. w.epoch \in 0..MaxEpochs /\ ~Starting(w) /\ ~Joining(w)
      BY <3>1, Kinds, Zenon
    <3> QED
      BY <3>2, Zenon DEF w
  <2>3. Len(c.serial[u[i].epoch]) > 0 /\ c.serial[u[i].epoch][1] = u[i]
    <3>1. Quiet(ch[i + 1]) =>
            Len(c.serial[ch[i + 1].epoch]) > 0 /\ c.serial[ch[i + 1].epoch][1] = ch[i + 1]
      BY <2>1, Zenon DEF Tasks, Chained
    <3> QED
      BY <2>1, <3>1, Zenon
  <2> QED
    BY <2>2, <2>3, Zenon
<1>6. ASSUME NEW i \in 1..Len(u)
      PROVE  u[i].epoch # c.epoch
  <2>1. SUFFICES ASSUME u[i].epoch = c.epoch PROVE FALSE
    OBVIOUS
  <2>2. Len(c.serial[c.epoch]) > 0 /\ Quiet(c.serial[c.epoch][1])
    BY <1>4, <1>5, <2>1, Zenon
  <2>3. CASE c.handler = "handshake"
    BY <2>2, <2>3 DEF Tasks, Queued
  <2>4. CASE c.handler = "fresh"
    <3>1. c.serial[c.epoch] = <<>>
      BY <1>3, <2>4 DEF Tasks, Queued
    <3> QED
      BY <2>2, <3>1
  <2> QED
    BY <1>3, <2>3, <2>4
<1>7. ASSUME NEW e \in 0..MaxEpochs, NEW i \in 1..Len(d.serial[e])
      PROVE  e # c.epoch /\ i \in 1..Len(c.serial[e]) /\ d.serial[e][i] = c.serial[e][i]
  <2>1. e # c.epoch
    <3>1. SUFFICES ASSUME e = c.epoch PROVE FALSE
      OBVIOUS
    <3>2. Len(d.serial[e]) = 0
      BY <3>1, Zenon
    <3> QED
      BY <3>2
  <2> QED
    BY <2>1, Zenon
<1>8. Queued(d)
  <2>1. \A e \in 0..MaxEpochs : e > d.epoch => d.serial[e] = <<>>
    BY Zenon DEF Tasks, Queued, Controllers
  <2>2. ASSUME NEW e \in 0..MaxEpochs, NEW i \in 1..Len(d.serial[e])
        PROVE  d.serial[e][i].epoch = e /\ Quiet(d.serial[e][i]) /\ ~Opening(d.serial[e][i])
    BY <1>3, <1>7 DEF Tasks, Queued
  <2> QED
    BY <2>1, <2>2 DEF Queued
<1>9. Chained(d, u)
  <2>1. ASSUME NEW i \in 1..Len(u)
        PROVE  Len(d.serial[u[i].epoch]) > 0 /\ d.serial[u[i].epoch][1] = u[i]
    BY <1>5, <1>6, Zenon
  <2>2. ASSUME NEW i \in 1..Len(u), NEW j \in 1..Len(u), u[i].epoch = u[j].epoch
        PROVE  i = j
    <3>1. i + 1 \in 1..Len(ch) /\ j + 1 \in 1..Len(ch) /\ u[i] = ch[i + 1] /\ u[j] = ch[j + 1]
      BY <1>1
    <3>2. i + 1 = j + 1
      BY <1>4, <2>2, <3>1 DEF Tasks, Chained
    <3> QED
      BY <3>2
  <2> QED
    BY <1>4, <1>5, <2>1, <2>2, Zenon DEF Chained
<1> QED
  BY <1>8, <1>9 DEF Tasks, u

\* A task with application data ends: the next one of its epoch begins.
LEMMA TaskEnds ==
  ASSUME NEW c \in Controllers, NEW d \in Controllers, NEW ch \in Seq(Requests), ch # <<>>,
         Tasks(c, ch), Quiet(ch[1]), NEW e \in 0..MaxEpochs, e = ch[1].epoch,
         d.epoch = c.epoch, d.local = c.local, d.secure = c.secure,
         d.handler = IF Opening(ch[1]) THEN "idle" ELSE c.handler,
         Shrinks(d.serial, c.serial, e)
  PROVE  Tasks(d, IF Len(c.serial[e]) > 1 THEN Append(Tail(ch), c.serial[e][2]) ELSE Tail(ch))
<1> DEFINE u == Tail(ch)
           s == c.serial[e]
           t == d.serial[e]
           n == c.serial[e][2]
<1>1. /\ Len(ch) \in Nat \ {0} /\ ch[1] \in Requests /\ u \in Seq(Requests)
      /\ \A i \in 1..Len(u) : i + 1 \in 1..Len(ch) /\ u[i] = ch[i + 1]
  BY TailFacts
<1>2. \A i \in 1..Len(ch) : ch[i] \in Requests
  OBVIOUS
<1>3. 1 \in 1..Len(ch) /\ Len(s) > 0 /\ s[1] = ch[1] /\ s \in Seq(Requests)
  <2>1. 1 \in 1..Len(ch)
    BY <1>1
  <2> QED
    BY <2>1, Zenon DEF Tasks, Chained, Controllers
<1>4. t = Tail(s)
  BY DEF Shrinks
<1>5. \A f \in 0..MaxEpochs : f # e => d.serial[f] = c.serial[f]
  BY DEF Shrinks
<1> HIDE DEF u
<1>6. /\ Len(s) \in Nat \ {0} /\ Len(t) = Len(s) - 1
      /\ \A i \in 1..Len(t) : i + 1 \in 1..Len(s) /\ t[i] = s[i + 1]
  <2> HIDE DEF s, t
  <2>1. s # <<>>
    BY <1>3
  <2> QED
    BY <1>3, <1>4, <2>1, TailFacts
<1>7. c.handler = "handshake" => e # c.epoch
  <2>1. Quiet(c.serial[e][1])
    BY <1>3, Zenon
  <2> QED
    BY <2>1 DEF Tasks, Queued
<1>8. Opening(ch[1]) => c.handler = "decrypt" /\ c.secure # NoKey
  <2>1. 1 \in 1..Len(c.serial[e]) /\ (Opening(ch[1]) => Opening(c.serial[e][1]))
    BY <1>3, <1>6
  <2> QED
    BY <2>1, Zenon DEF Tasks, Queued, Phase
<1>9. Phase(d)
  BY Zenon DEF Tasks, Phase
<1>10. ASSUME NEW f \in 0..MaxEpochs, NEW i \in 1..Len(d.serial[f])
       PROVE  \E k \in 1..Len(c.serial[f]) :
                /\ d.serial[f][i] = c.serial[f][k] /\ k = IF f = e THEN i + 1 ELSE i
  <2>1. CASE f = e
    <3>1. i \in 1..Len(t)
      BY <2>1, Zenon
    <3>2. i + 1 \in 1..Len(s) /\ t[i] = s[i + 1]
      BY <1>6, <3>1
    <3> QED
      BY <2>1, <3>2
  <2>2. CASE f # e
    BY <1>5, <2>2, Zenon
  <2> QED
    BY <2>1, <2>2, Zenon
<1> DEFINE Decrypts(f, i) == /\ f \in 0..MaxEpochs /\ i \in 1..Len(c.serial[f])
                             /\ Opening(c.serial[f][i])
<1>20. \A f, g, i, j : Decrypts(f, i) /\ Decrypts(g, j) => f = g /\ i = j
  BY DEF Tasks, Queued, Decrypts
<1> HIDE DEF Decrypts
\* The only decryption task was at the head.
<1>11. ASSUME Opening(ch[1]), NEW f \in 0..MaxEpochs, NEW i \in 1..Len(d.serial[f])
       PROVE  ~Opening(d.serial[f][i])
  <2>1. PICK k \in 1..Len(c.serial[f]) :
               d.serial[f][i] = c.serial[f][k] /\ k = IF f = e THEN i + 1 ELSE i
    BY <1>10, Zenon
  <2>2. 1 \in 1..Len(c.serial[e]) /\ Opening(c.serial[e][1])
    BY <1>3, <1>6, <1>11
  <2>3. Opening(c.serial[f][k]) => f = e /\ k = 1
    <3>1. \A g, h \in 0..MaxEpochs : \A x \in 1..Len(c.serial[g]), y \in 1..Len(c.serial[h]) :
            Opening(c.serial[g][x]) /\ Opening(c.serial[h][y]) => g = h /\ x = y
      BY Zenon DEF Tasks, Queued
    <3>2. e \in 0..MaxEpochs
      BY Zenon
    <3>3. \A x \in 1..Len(c.serial[f]), y \in 1..Len(c.serial[e]) :
            Opening(c.serial[f][x]) /\ Opening(c.serial[e][y]) => f = e /\ x = y
      BY <3>1, <3>2, Zenon
    <3> QED
      BY <2>2, <3>3, Zenon
  <2>4. i \in Nat /\ i > 0
    OBVIOUS
  <2> QED
    BY <2>1, <2>3, <2>4
<1>12. Queued(d)
  <2>1. \A f \in 0..MaxEpochs : f > d.epoch => d.serial[f] = <<>>
    <3> SUFFICES ASSUME NEW f \in 0..MaxEpochs, f > c.epoch PROVE d.serial[f] = <<>>
      BY Zenon
    <3>1. c.serial[f] = <<>>
      BY DEF Tasks, Queued
    <3>2. f # e
      BY <1>3, <3>1
    <3> QED
      BY <1>5, <3>1, <3>2, Zenon
  <2>2. d.secure = NoKey \/ d.handler = "handshake" => c.epoch # e
    <3>1. c.handler = "handshake" => c.epoch # e
      BY <1>7, Zenon
    <3>2. c.secure = NoKey /\ c.handler # "handshake" => c.serial[c.epoch] = <<>>
      BY DEF Tasks, Queued
    <3> QED
      BY <1>3, <3>1, <3>2
  <2>3. c.epoch \in 0..MaxEpochs
    BY Zenon DEF Controllers
  <2>4. /\ d.secure = NoKey /\ d.handler # "handshake" => d.serial[d.epoch] = <<>>
        /\ d.handler = "handshake" =>
             Len(d.serial[d.epoch]) = 1 /\ ~Quiet(d.serial[d.epoch][1])
    <3>1. d.secure = NoKey \/ d.handler = "handshake" => d.serial[c.epoch] = c.serial[c.epoch]
      BY <1>5, <2>2, <2>3
    <3>2. d.secure = NoKey => d.handler = c.handler
      BY <1>8, Zenon
    <3> QED
      BY <1>8, <3>1, <3>2, Zenon DEF Tasks, Queued
  <2>5. ASSUME NEW f \in 0..MaxEpochs, NEW i \in 1..Len(d.serial[f])
        PROVE  /\ d.serial[f][i].epoch = f
               /\ Quiet(d.serial[f][i]) \/ (f = d.epoch /\ d.handler = "handshake")
               /\ Opening(d.serial[f][i]) => d.handler = "decrypt"
    <3>1. PICK k \in 1..Len(c.serial[f]) : d.serial[f][i] = c.serial[f][k]
      BY <1>10, Zenon
    <3>2. /\ d.serial[f][i].epoch = f
          /\ Quiet(d.serial[f][i]) \/ (f = c.epoch /\ c.handler = "handshake")
          /\ Opening(d.serial[f][i]) => c.handler = "decrypt"
      BY <3>1 DEF Tasks, Queued
    <3> QED
      BY <1>8, <1>11, <3>2
  <2>7. \A f, g \in 0..MaxEpochs : \A i \in 1..Len(d.serial[f]), j \in 1..Len(d.serial[g]) :
          Opening(d.serial[f][i]) /\ Opening(d.serial[g][j]) => f = g /\ i = j
    <3> TAKE f, g \in 0..MaxEpochs
    <3> TAKE i \in 1..Len(d.serial[f]), j \in 1..Len(d.serial[g])
    <3> HAVE Opening(d.serial[f][i]) /\ Opening(d.serial[g][j])
    <3>1. PICK k \in 1..Len(c.serial[f]) :
                 d.serial[f][i] = c.serial[f][k] /\ k = IF f = e THEN i + 1 ELSE i
      BY <1>10, Zenon
    <3>2. PICK l \in 1..Len(c.serial[g]) :
                 d.serial[g][j] = c.serial[g][l] /\ l = IF g = e THEN j + 1 ELSE j
      BY <1>10, Zenon
    <3>3. Decrypts(f, k) /\ Decrypts(g, l)
      BY <3>1, <3>2, Zenon DEF Decrypts
    <3>4. f = g /\ k = l
      BY <1>20, <3>3, Zenon
    <3> QED
      BY <3>1, <3>2, <3>4
  <2>8. \A f \in 0..MaxEpochs : \A i \in 1..Len(d.serial[f]) :
          /\ d.serial[f][i].epoch = f
          /\ Quiet(d.serial[f][i]) \/ (f = d.epoch /\ d.handler = "handshake")
          /\ Opening(d.serial[f][i]) => d.handler = "decrypt"
    BY <2>5, Zenon
  <2> QED
    BY <2>1, <2>4, <2>7, <2>8, Zenon DEF Queued
<1>13. ASSUME NEW i \in 1..Len(u)
       PROVE  /\ u[i] \in Requests
              /\ Starting(u[i]) => d.handler = "fresh" /\ u[i].epoch = d.epoch
              /\ Joining(u[i]) => d.handler = "handshake" /\ u[i].epoch = d.epoch
              /\ Quiet(u[i]) => /\ u[i].epoch # e
                                /\ Len(d.serial[u[i].epoch]) > 0
                                /\ d.serial[u[i].epoch][1] = u[i]
  <2>1. i + 1 \in 1..Len(ch) /\ u[i] = ch[i + 1] /\ ch[i + 1] \in Requests /\ i + 1 # 1
    BY <1>1, <1>2
  <2>2. /\ Starting(u[i]) => c.handler = "fresh" /\ u[i].epoch = c.epoch
        /\ Joining(u[i]) => c.handler = "handshake" /\ u[i].epoch = c.epoch
        /\ Quiet(u[i]) => /\ Len(c.serial[u[i].epoch]) > 0
                          /\ c.serial[u[i].epoch][1] = u[i]
    BY <2>1 DEF Tasks, Chained
  <2>3. Quiet(u[i]) => u[i].epoch # e
    BY <1>3, <2>1 DEF Tasks, Chained
  <2>4. u[i].epoch \in 0..MaxEpochs
    BY <2>1, Kinds, Zenon
  <2>5. Quiet(u[i]) => d.serial[u[i].epoch] = c.serial[u[i].epoch]
    BY <1>5, <2>3, <2>4, Zenon
  <2> QED
    BY <1>8, <2>1, <2>2, <2>3, <2>5, Zenon
<1>14. ASSUME NEW i \in 1..Len(u), NEW j \in 1..Len(u),
              \/ ~Quiet(u[i]) /\ ~Quiet(u[j])
              \/ Quiet(u[i]) /\ Quiet(u[j]) /\ u[i].epoch = u[j].epoch
       PROVE  i = j
  <2>1. i + 1 \in 1..Len(ch) /\ j + 1 \in 1..Len(ch) /\ u[i] = ch[i + 1] /\ u[j] = ch[j + 1]
    BY <1>1, Zenon
  <2>2. i + 1 = j + 1
    BY <1>14, <2>1 DEF Tasks, Chained
  <2> QED
    BY <2>2
<1>15. CASE ~(Len(s) > 1)
  <2>1. Chained(d, u)
    BY <1>13, <1>14, Zenon DEF Chained
  <2> QED
    BY <1>9, <1>12, <1>15, <2>1, Zenon DEF Tasks, u
<1>16. CASE Len(s) > 1
  <2> DEFINE a == Append(u, n)
  <2>1. 2 \in 1..Len(s) /\ n \in Requests /\ 2 # 1
    BY <1>3, <1>6, <1>16
  <2>2. Len(t) > 0 /\ t[1] = n
    <3>1. 1 \in 1..Len(t)
      BY <1>6, <1>16
    <3>2. t[1] = s[1 + 1]
      BY <1>6, <3>1, Zenon
    <3> QED
      BY <3>1, <3>2
  <2>3. n.epoch = e /\ Quiet(n)
    <3>1. n.epoch = e /\ (Quiet(n) \/ (e = c.epoch /\ c.handler = "handshake"))
      BY <2>1, Zenon DEF Tasks, Queued
    <3> QED
      BY <1>7, <3>1, Zenon
  <2>4. \A i \in 1..Len(a) : (i \in 1..Len(u) /\ a[i] = u[i]) \/ (i = Len(a) /\ a[i] = n)
    <3> HIDE DEF n
    <3> QED
      BY <1>1, <2>1, AppendFacts
  <2> HIDE DEF a
  <2>5. ASSUME NEW i \in 1..Len(a)
        PROVE  /\ Starting(a[i]) => d.handler = "fresh" /\ a[i].epoch = d.epoch
               /\ Joining(a[i]) => d.handler = "handshake" /\ a[i].epoch = d.epoch
               /\ Quiet(a[i]) => /\ Len(d.serial[a[i].epoch]) > 0
                                 /\ d.serial[a[i].epoch][1] = a[i]
    <3>1. CASE i \in 1..Len(u) /\ a[i] = u[i]
      BY <1>13, <3>1
    <3>2. CASE i = Len(a) /\ a[i] = n
      <4>1. ~Starting(n) /\ ~Joining(n)
        BY <2>1, <2>3, Kinds, Zenon
      <4> QED
        BY <2>2, <2>3, <3>2, <4>1, Zenon
    <3> QED
      BY <2>4, <3>1, <3>2, Zenon
  <2>6. ASSUME NEW i \in 1..Len(a), NEW j \in 1..Len(a), ~Quiet(a[i]), ~Quiet(a[j])
        PROVE  i = j
    BY <1>14, <2>3, <2>4, <2>6, Zenon
  <2>7. ASSUME NEW i \in 1..Len(a), NEW j \in 1..Len(a), Quiet(a[i]), Quiet(a[j]),
               a[i].epoch = a[j].epoch
        PROVE  i = j
    <3> HIDE DEF n
    <3> QED
      BY <1>13, <1>14, <2>3, <2>4, <2>7
  <2>8. Chained(d, a)
    BY <2>5, <2>6, <2>7 DEF Chained
  <2> QED
    BY <1>9, <1>12, <1>16, <2>8, Zenon DEF Tasks, a, u
<1> QED
  BY <1>15, <1>16

-----------------------------------------------------------------------------
(* What the pending request leads to, answered or not. *)

\* Every request of a for a handshake is for one of ch's.
NoNewKey(a, ch) ==
  \A i \in 1..Len(a) : Joining(a[i]) =>
    \E j \in 1..Len(ch) : Joining(ch[j]) /\ ch[j].key = a[i].key

\* y is what c and r come to when the first request of r.chain is settled, with local
\* identity l and peer key s.
After(y, c, r, l, s) ==
  /\ y \in Pairs /\ y.r.ready = r.ready /\ y.r.inbox = Posts(r.inbox, y.r.chain)
  /\ y.c.epoch = c.epoch /\ y.c.local = l /\ y.c.secure = s
  /\ Tasks(y.c, y.r.chain) /\ NoNewKey(y.r.chain, r.chain)

\* Posting what waits, and then appending to it, posts what is appended to nothing.
LEMMA PostsAppend ==
  ASSUME NEW u \in Seq(Requests), NEW ib \in Seq(Requests), NEW q \in Requests
  PROVE  /\ u = <<>> => Append(Posts(ib, u), q) = Posts(ib, Append(u, q))
         /\ u # <<>> => Posts(ib, u) = Posts(ib, Append(u, q))
<1>1. Append(u, q) # <<>>
  BY AppendFacts
<1>2. CASE u = <<>>
  <2>1. Append(u, q)[1] = q
    BY <1>2
  <2> QED
    BY <1>1, <1>2, <2>1 DEF Posts
<1>3. CASE u # <<>>
  <2>1. Append(u, q)[1] = u[1]
    BY <1>3, AppendFacts, TailFacts
  <2> QED
    BY <1>1, <1>3, <2>1 DEF Posts
<1> QED
  BY <1>2, <1>3

\* The handshakes that wait when the first request is settled, or replaced by one
\* that is for no other handshake.
LEMMA NoNewKeys ==
  ASSUME NEW ch \in Seq(Requests), ch # <<>>
  PROVE  /\ NoNewKey(Tail(ch), ch)
         /\ \A q \in Requests :
              (Joining(q) => Joining(ch[1]) /\ ch[1].key = q.key) => NoNewKey(Append(Tail(ch), q), ch)
<1> DEFINE u == Tail(ch)
<1>1. /\ Len(ch) \in Nat \ {0} /\ u \in Seq(Requests)
      /\ \A i \in 1..Len(u) : i + 1 \in 1..Len(ch) /\ u[i] = ch[i + 1]
  BY TailFacts
<1> HIDE DEF u
<1>2. NoNewKey(u, ch)
  BY <1>1, Zenon DEF NoNewKey
<1>3. ASSUME NEW q \in Requests, Joining(q) => Joining(ch[1]) /\ ch[1].key = q.key
      PROVE  NoNewKey(Append(u, q), ch)
  <2> DEFINE a == Append(u, q)
  <2>1. \A i \in 1..Len(a) : (i \in 1..Len(u) /\ a[i] = u[i]) \/ (i = Len(a) /\ a[i] = q)
    BY <1>1, AppendFacts
  <2> HIDE DEF a
  <2>2. 1 \in 1..Len(ch)
    BY <1>1
  <2>3. NoNewKey(a, ch)
    BY <1>2, <1>3, <2>1, <2>2, Zenon DEF NoNewKey
  <2> QED
    BY <2>3 DEF a
<1> QED
  BY <1>2, <1>3 DEF u

\* The inbound task makes its next request.
LEMMA AfterMore ==
  ASSUME NEW c \in Controllers, NEW r \in Clients, r.chain # <<>>, Tasks(c, r.chain),
         NEW q \in Requests, q.epoch = r.chain[1].epoch,
         \/ Starting(r.chain[1]) /\ Starting(q)
         \/ Joining(r.chain[1]) /\ Joining(q) /\ q.key = r.chain[1].key
  PROVE  After(serialRequest([c |-> c, r |-> Settled(r)], q), c, r, c.local, c.secure)
<1> DEFINE x == [c |-> c, r |-> Settled(r)]
           y == serialRequest(x, q)
           u == Tail(r.chain)
<1>1. r.chain \in Seq(Requests) /\ r.inbox \in Seq(Requests)
  BY Zenon DEF Clients
<1>2. /\ x \in Pairs /\ x.c = c /\ x.r.ready = r.ready
      /\ x.r.chain = u /\ x.r.inbox = Posts(r.inbox, u)
  BY SettledNext DEF Pairs
<1> HIDE DEF x
<1>3. /\ y \in Pairs /\ y.c = x.c /\ y.r.ready = x.r.ready /\ y.r.chain = Append(x.r.chain, q)
      /\ y.r.inbox = IF x.r.chain = <<>> THEN Append(x.r.inbox, q) ELSE x.r.inbox
  BY <1>2, SerialRequest, Zenon
<1> HIDE DEF y
<1>4. u \in Seq(Requests)
  BY <1>1, TailFacts, Zenon
<1>5. y.r.inbox = Posts(r.inbox, y.r.chain)
  <2> HIDE DEF u
  <2>1. /\ y.r.chain = Append(u, q)
        /\ u = <<>> => y.r.inbox = Append(Posts(r.inbox, u), q)
        /\ u # <<>> => y.r.inbox = Posts(r.inbox, u)
    BY <1>2, <1>3
  <2>2. /\ u = <<>> => Append(Posts(r.inbox, u), q) = Posts(r.inbox, Append(u, q))
        /\ u # <<>> => Posts(r.inbox, u) = Posts(r.inbox, Append(u, q))
    BY <1>1, <1>4, PostsAppend, Zenon
  <2> QED
    BY <2>1, <2>2, Zenon
<1>6. Tasks(c, Append(u, q))
  BY <1>1, GoesOn, Zenon
<1>7. NoNewKey(Append(u, q), r.chain)
  <2>1. Joining(q) => Joining(r.chain[1]) /\ r.chain[1].key = q.key
    BY Kinds, Zenon
  <2> QED
    BY <1>1, <2>1, NoNewKeys, Zenon
<1> HIDE DEF u
<1>8. After(y, c, r, c.local, c.secure)
  BY <1>2, <1>3, <1>5, <1>6, <1>7, Zenon DEF After
<1> QED
  BY <1>8 DEF y, x

\* A task with application data is settled.
LEMMA AfterTask ==
  ASSUME NEW c \in Controllers, NEW r \in Clients, r.chain # <<>>, Tasks(c, r.chain),
         NEW x \in Pairs, x = [c |-> c, r |-> Settled(r)],
         NEW e, e = r.chain[1].epoch, Quiet(r.chain[1])
  PROVE  /\ ~Opening(r.chain[1]) => After(TaskDone(x, e), c, r, c.local, c.secure)
         /\ Opening(r.chain[1]) => After(HandlerDone(TaskDone(x, e)), c, r, c.local, c.secure)
<1> DEFINE y == TaskDone(x, e)
           z == HandlerDone(y)
           u == Tail(r.chain)
           n == c.serial[e][2]
           a == IF Len(c.serial[e]) > 1 THEN Append(u, n) ELSE u
<1>1. r.chain \in Seq(Requests) /\ r.inbox \in Seq(Requests)
  BY Zenon DEF Clients
<1>2. /\ x.c = c /\ x.r.ready = r.ready
      /\ x.r.chain = u /\ x.r.inbox = Posts(r.inbox, u)
  BY SettledNext, Zenon
<1>3. r.chain[1] \in Requests /\ u \in Seq(Requests) /\ 1 \in 1..Len(r.chain)
  BY <1>1, TailFacts
<1>4. e \in 0..MaxEpochs /\ c.serial[e] \in Seq(Requests) /\ c.serial[e] # <<>>
  <2>1. e \in 0..MaxEpochs
    BY <1>3, Kinds, Zenon
  <2>2. Len(c.serial[e]) > 0
    BY <1>3 DEF Tasks, Chained
  <2>3. c.serial[e] \in Seq(Requests)
    BY <2>1, Zenon DEF Controllers
  <2> QED
    BY <2>1, <2>2, <2>3
<1>5. /\ y \in Pairs /\ y.r.ready = x.r.ready
      /\ y.c.epoch = x.c.epoch /\ y.c.local = x.c.local
      /\ y.c.secure = x.c.secure /\ y.c.handler = x.c.handler
      /\ Shrinks(y.c.serial, x.c.serial, e)
      /\ IF Len(x.c.serial[e]) > 1
         THEN /\ y.r.chain = Append(x.r.chain, x.c.serial[e][2])
              /\ y.r.inbox = IF x.r.chain = <<>> THEN Append(x.r.inbox, x.c.serial[e][2])
                             ELSE x.r.inbox
         ELSE y.r = x.r
  BY <1>2, <1>4, TaskDoneFields, Zenon
<1>6. /\ z \in Pairs /\ z.r = y.r /\ z.c.handler = "idle"
      /\ z.c.epoch = y.c.epoch /\ z.c.local = y.c.local
      /\ z.c.secure = y.c.secure /\ z.c.serial = y.c.serial
  BY <1>5, HandlerDoneFields, Zenon
<1> HIDE DEF y, z, u, n
<1>7. y.r.chain = a /\ y.r.inbox = Posts(r.inbox, a)
  <2>1. CASE Len(c.serial[e]) > 1
    <3>1. /\ y.r.chain = Append(u, n) /\ a = Append(u, n)
          /\ u = <<>> => y.r.inbox = Append(Posts(r.inbox, u), n)
          /\ u # <<>> => y.r.inbox = Posts(r.inbox, u)
      BY <1>2, <1>5, <2>1, Zenon DEF n
    <3>2. n \in Requests
      BY <1>4, <2>1 DEF n
    <3>3. /\ u = <<>> => Append(Posts(r.inbox, u), n) = Posts(r.inbox, Append(u, n))
          /\ u # <<>> => Posts(r.inbox, u) = Posts(r.inbox, Append(u, n))
      BY <1>1, <1>3, <3>2, PostsAppend, Zenon
    <3> QED
      BY <3>1, <3>3, Zenon
  <2>2. CASE ~(Len(c.serial[e]) > 1)
    BY <1>2, <1>5, <2>2, Zenon
  <2> QED
    BY <2>1, <2>2
<1>8. NoNewKey(a, r.chain)
  <2>1. CASE Len(c.serial[e]) > 1
    <3>1. n \in Requests /\ 2 \in 1..Len(c.serial[e]) /\ 1 \in 1..Len(c.serial[e])
      BY <1>4, <2>1 DEF n
    <3>2. Quiet(n)
      <4>0. \A i \in 1..Len(c.serial[e]) :
              Quiet(c.serial[e][i]) \/ (c.handler = "handshake" /\ e = c.epoch)
        BY <1>4, Zenon DEF Tasks, Queued
      <4>1. Quiet(n) \/ (c.handler = "handshake" /\ e = c.epoch)
        BY <3>1, <4>0, Zenon DEF n
      <4>2. Quiet(c.serial[e][1])
        BY <1>3, Zenon DEF Tasks, Chained
      <4> QED
        BY <4>1, <4>2 DEF Tasks, Queued
    <3>3. ~Joining(n)
      BY <3>1, <3>2, Kinds, Zenon
    <3> QED
      BY <1>1, <2>1, <3>1, <3>3, NoNewKeys, Zenon DEF u
  <2>2. CASE ~(Len(c.serial[e]) > 1)
    BY <1>1, <2>2, NoNewKeys, Zenon DEF u
  <2> QED
    BY <2>1, <2>2, Zenon
<1>9. y.c \in Controllers /\ z.c \in Controllers
  BY <1>5, <1>6, Zenon DEF Pairs
<1>10. ASSUME ~Opening(r.chain[1]) PROVE After(y, c, r, c.local, c.secure)
  <2> DEFINE d == y.c
  <2>1. /\ d \in Controllers /\ d.epoch = c.epoch /\ d.local = c.local /\ d.secure = c.secure
        /\ d.handler = c.handler /\ Shrinks(d.serial, c.serial, e)
    BY <1>2, <1>5, <1>9, Zenon
  <2> HIDE DEF d
  <2>2. Tasks(d, a)
    BY <1>1, <1>4, <1>10, <2>1, TaskEnds, Zenon DEF u, n
  <2> HIDE DEF a
  <2> QED
    BY <1>2, <1>5, <1>7, <1>8, <2>1, <2>2, Zenon DEF After, d
<1>11. ASSUME Opening(r.chain[1]) PROVE After(z, c, r, c.local, c.secure)
  <2> DEFINE d == z.c
  <2>1. /\ d \in Controllers /\ d.epoch = c.epoch /\ d.local = c.local /\ d.secure = c.secure
        /\ d.handler = "idle" /\ Shrinks(d.serial, c.serial, e)
    BY <1>2, <1>5, <1>6, <1>9
  <2> HIDE DEF d
  <2>2. Tasks(d, a)
    BY <1>1, <1>4, <1>11, <2>1, TaskEnds, Zenon DEF u, n
  <2> HIDE DEF a
  <2> QED
    BY <1>2, <1>5, <1>6, <1>7, <1>8, <2>1, <2>2, Zenon DEF After, d
<1> QED
  BY <1>10, <1>11 DEF y, z

\* prepareFreshCryptoEpoch ends, with an identity or without.
LEMMA AfterStart ==
  ASSUME NEW c \in Controllers, NEW r \in Clients, r.chain # <<>>, Tasks(c, r.chain),
         Starting(r.chain[1]), NEW x \in Pairs, x.r = Settled(r), x.c.epoch = c.epoch,
         x.c.secure = c.secure, x.c.serial = c.serial
  PROVE  After(HandlerDone(x), c, r, x.c.local, c.secure)
<1> DEFINE y == HandlerDone(x)
           u == Tail(r.chain)
           d == y.c
<1>1. r.chain \in Seq(Requests) /\ r.inbox \in Seq(Requests)
  BY Zenon DEF Clients
<1>2. x.r.ready = r.ready /\ x.r.chain = u /\ x.r.inbox = Posts(r.inbox, u)
  BY SettledNext, Zenon
<1>3. r.chain[1] \in Requests /\ 1 \in 1..Len(r.chain) /\ ~Quiet(r.chain[1])
  BY <1>1, TailFacts, Kinds
<1>4. /\ y \in Pairs /\ y.r = x.r /\ d.handler = "idle"
      /\ d.epoch = c.epoch /\ d.local = x.c.local /\ d.secure = c.secure /\ d.serial = c.serial
  BY HandlerDoneFields
<1> HIDE DEF y
<1>5. d \in Controllers
  BY <1>4, Zenon DEF Pairs
<1>6. c.handler = "fresh" /\ c.secure = NoKey
  BY <1>3 DEF Tasks, Chained, Phase
<1>7. c.serial[c.epoch] = <<>>
  BY <1>6, Zenon DEF Tasks, Queued
<1> HIDE DEF d
<1>8. Phase(d)
  BY <1>4, <1>6, Zenon DEF Phase
<1>9. Tasks(d, u)
  BY <1>1, <1>3, <1>4, <1>5, <1>7, <1>8, HandlerEnds, Zenon
<1>10. NoNewKey(u, r.chain)
  BY <1>1, NoNewKeys, Zenon
<1> HIDE DEF u
<1>11. After(y, c, r, x.c.local, c.secure)
  BY <1>2, <1>4, <1>9, <1>10, Zenon DEF After, d
<1> QED
  BY <1>11, Zenon DEF y

\* handleHandshake ends, with a session or without.
LEMMA AfterJoin ==
  ASSUME NEW c \in Controllers, NEW r \in Clients, r.chain # <<>>, Tasks(c, r.chain),
         Joining(r.chain[1]), NEW x \in Pairs, x.r = Settled(r), x.c.epoch = c.epoch,
         x.c.local = c.local, x.c.serial = c.serial, NEW e, e = r.chain[1].epoch
  PROVE  After(HandlerDone(TaskDone(x, e)), c, r, c.local, x.c.secure)
<1> DEFINE y == TaskDone(x, e)
           z == HandlerDone(y)
           u == Tail(r.chain)
           d == z.c
<1>1. r.chain \in Seq(Requests) /\ r.inbox \in Seq(Requests)
  BY Zenon DEF Clients
<1>2. x.r.ready = r.ready /\ x.r.chain = u /\ x.r.inbox = Posts(r.inbox, u)
  BY SettledNext, Zenon
<1>3. r.chain[1] \in Requests /\ 1 \in 1..Len(r.chain) /\ ~Quiet(r.chain[1])
  BY <1>1, TailFacts, Kinds
<1>4. c.handler = "handshake" /\ e = c.epoch /\ c.local # NoKey
  BY <1>3 DEF Tasks, Chained, Phase
<1>5. e \in 0..MaxEpochs /\ c.serial[e] \in Seq(Requests)
  BY <1>4, Zenon DEF Controllers
<1>6. Len(c.serial[e]) = 1
  BY <1>4, Zenon DEF Tasks, Queued
<1>7. c.serial[e] # <<>> /\ Tail(c.serial[e]) = <<>>
  <2> DEFINE s == c.serial[e]
  <2>0. s \in Seq(Requests) /\ Len(s) = 1
    BY <1>5, <1>6
  <2> HIDE DEF s
  <2>1. s # <<>>
    <3>1. Len(<<>>) # 1
      OBVIOUS
    <3> QED
      BY <2>0, <3>1, Zenon
  <2>2. Tail(s) = <<>>
    BY <2>0, <2>1, TailFacts, Zenon
  <2> QED
    BY <2>1, <2>2, Zenon DEF s
<1>8. /\ y \in Pairs /\ y.r.ready = x.r.ready
      /\ y.c.epoch = x.c.epoch /\ y.c.local = x.c.local
      /\ y.c.secure = x.c.secure /\ y.c.handler = x.c.handler
      /\ Shrinks(y.c.serial, x.c.serial, e)
      /\ ~(Len(x.c.serial[e]) > 1) => y.r = x.r
  <2>1. x.c.serial[e] # <<>>
    BY <1>7, Zenon
  <2> QED
    BY <1>5, <2>1, TaskDoneFields, Zenon
<1> HIDE DEF y
<1>9. /\ z \in Pairs /\ z.r = y.r /\ d.handler = "idle"
      /\ d.epoch = y.c.epoch /\ d.local = y.c.local
      /\ d.secure = y.c.secure /\ d.serial = y.c.serial
  BY <1>8, HandlerDoneFields, Zenon
<1> HIDE DEF z
<1>10. d \in Controllers
  BY <1>9 DEF Pairs
<1>11. /\ d.serial[c.epoch] = <<>>
       /\ \A f \in 0..MaxEpochs : f # c.epoch => d.serial[f] = c.serial[f]
  BY <1>4, <1>5, <1>7, <1>8, <1>9, Zenon DEF Shrinks
<1>12. z.r = x.r
  BY <1>6, <1>8, <1>9
<1> HIDE DEF d
<1>13. Phase(d)
  BY <1>4, <1>8, <1>9, Zenon DEF Phase
<1>14. Tasks(d, u)
  BY <1>1, <1>3, <1>8, <1>9, <1>10, <1>11, <1>13, HandlerEnds, Zenon
<1>15. NoNewKey(u, r.chain)
  BY <1>1, NoNewKeys, Zenon
<1> HIDE DEF u
<1>16. After(z, c, r, c.local, x.c.secure)
  BY <1>2, <1>8, <1>9, <1>12, <1>14, <1>15, Zenon DEF After, d
<1> QED
  BY <1>16, Zenon DEF y, z

\* A controller with another identity, or another session.
WithLocal(x, k) == [x EXCEPT !.c.local = k]
WithSecure(x, k) == [x EXCEPT !.c.secure = k]

\* A new identity or a new session is a change of that one field.
LEMMA KeyFields ==
  ASSUME NEW x \in Pairs, NEW k \in Nat
  PROVE  /\ WithLocal(x, k) \in Pairs /\ WithLocal(x, k).r = x.r
         /\ WithLocal(x, k).c.epoch = x.c.epoch /\ WithLocal(x, k).c.local = k
         /\ WithLocal(x, k).c.secure = x.c.secure /\ WithLocal(x, k).c.serial = x.c.serial
         /\ WithSecure(x, k) \in Pairs /\ WithSecure(x, k).r = x.r
         /\ WithSecure(x, k).c.epoch = x.c.epoch /\ WithSecure(x, k).c.local = x.c.local
         /\ WithSecure(x, k).c.secure = k /\ WithSecure(x, k).c.serial = x.c.serial
  BY Zenon DEF Pairs, Controllers, WithLocal, WithSecure

\* Every outcome of the pending request.
LEMMA Outcomes ==
  ASSUME NEW c \in Controllers, NEW r \in Clients, r.chain # <<>>, Tasks(c, r.chain),
         NEW x, x = [c |-> c, r |-> Settled(r)], NEW q, q = r.chain[1], NEW v \in Nat
  PROVE  /\ After(rejected(x, q), c, r, c.local, c.secure)
         /\ After(resolved(x, q, v), c, r, IF q.type = "GENERATE" THEN v ELSE c.local,
                                           IF q.type = "ESTABLISH" THEN q.key ELSE c.secure)
<1> DEFINE L == IF q.type = "GENERATE" THEN v ELSE c.local
           S == IF q.type = "ESTABLISH" THEN q.key ELSE c.secure
<1>1. r.chain \in Seq(Requests) /\ q \in Requests
  <2>1. r.chain \in Seq(Requests)
    BY Zenon DEF Clients
  <2> QED
    BY <2>1, TailFacts
<1>2. x \in Pairs /\ x.c = c /\ x.r = Settled(r)
  BY SettledNext, Zenon DEF Pairs
<1>3. q.type \in {"RESET", "CONFIGURE", "GENERATE", "ESTABLISH", "ENCRYPT", "DECRYPT"}
  BY <1>1, Zenon DEF Requests
<1>4. q.type # "DECRYPT" => q.key \in Nat
  BY <1>1, Zenon DEF Requests
<1>5. q.epoch \in 0..MaxEpochs
  BY <1>1, Kinds, Zenon
<1>6. CASE q.type = "RESET"
  <2> DEFINE n == Request("CONFIGURE", q.epoch, NoKey)
  <2>1. n \in Requests /\ n.epoch = q.epoch /\ Starting(n) /\ Starting(q)
    BY <1>5, <1>6 DEF Request, Requests, NoKey, Starting
  <2>2. rejected(x, q) = serialRequest(x, n) /\ resolved(x, q, v) = serialRequest(x, n)
    BY <1>6, Zenon DEF rejected, resolved
  <2>3. L = c.local /\ S = c.secure
    BY <1>6, Zenon
  <2> HIDE DEF n
  <2>4. After(serialRequest(x, n), c, r, c.local, c.secure)
    BY <2>1, AfterMore, Zenon
  <2> QED
    BY <2>2, <2>3, <2>4, Zenon
<1>7. CASE q.type = "CONFIGURE" /\ q.key = NoKey
  <2> DEFINE n == Request("GENERATE", q.epoch, NoKey)
  <2>1. n \in Requests /\ n.epoch = q.epoch /\ Starting(n) /\ Starting(q)
    BY <1>5, <1>7 DEF Request, Requests, NoKey, Starting
  <2>2. rejected(x, q) = HandlerDone(x) /\ resolved(x, q, v) = serialRequest(x, n)
    BY <1>7, Zenon DEF rejected, resolved
  <2>3. L = c.local /\ S = c.secure
    BY <1>7, Zenon
  <2> HIDE DEF n
  <2>4. After(serialRequest(x, n), c, r, c.local, c.secure)
    BY <2>1, AfterMore, Zenon
  <2>5. After(HandlerDone(x), c, r, c.local, c.secure)
    BY <1>2, <2>1, AfterStart, Zenon
  <2> QED
    BY <2>2, <2>3, <2>4, <2>5, Zenon
<1>8. CASE q.type = "CONFIGURE" /\ q.key # NoKey
  <2> DEFINE n == Request("ESTABLISH", q.epoch, q.key)
  <2>1. n \in Requests /\ n.epoch = q.epoch /\ n.key = q.key /\ Joining(n) /\ Joining(q)
    BY <1>4, <1>5, <1>8 DEF Request, Requests, NoKey, Joining
  <2>2. /\ rejected(x, q) = HandlerDone(TaskDone(x, q.epoch))
        /\ resolved(x, q, v) = serialRequest(x, n)
    BY <1>8, Zenon DEF rejected, resolved
  <2>3. L = c.local /\ S = c.secure
    BY <1>8, Zenon
  <2> HIDE DEF n
  <2>4. After(serialRequest(x, n), c, r, c.local, c.secure)
    BY <2>1, AfterMore, Zenon
  <2>5. After(HandlerDone(TaskDone(x, q.epoch)), c, r, c.local, c.secure)
    BY <1>2, <2>1, AfterJoin, Zenon
  <2> QED
    BY <2>2, <2>3, <2>4, <2>5, Zenon
<1>9. CASE q.type = "GENERATE"
  <2> DEFINE y == WithLocal(x, v)
  <2>1. Starting(q)
    BY <1>9 DEF Starting
  <2>2. rejected(x, q) = HandlerDone(x) /\ resolved(x, q, v) = HandlerDone(y)
    BY <1>9, Zenon DEF rejected, resolved, WithLocal
  <2>3. L = v /\ S = c.secure
    BY <1>9
  <2>4. /\ y \in Pairs /\ y.r = x.r /\ y.c.epoch = x.c.epoch /\ y.c.local = v
        /\ y.c.secure = x.c.secure /\ y.c.serial = x.c.serial
    BY <1>2, KeyFields, Zenon
  <2> HIDE DEF y
  <2>5. After(HandlerDone(y), c, r, v, c.secure)
    BY <1>2, <2>1, <2>4, AfterStart, Zenon
  <2>6. After(HandlerDone(x), c, r, c.local, c.secure)
    BY <1>2, <2>1, AfterStart, Zenon
  <2> QED
    BY <2>2, <2>3, <2>5, <2>6, Zenon
<1>10. CASE q.type = "ESTABLISH"
  <2> DEFINE y == WithSecure(x, q.key)
  <2>1. Joining(q) /\ q.key \in Nat
    BY <1>4, <1>10 DEF Joining
  <2>2. /\ rejected(x, q) = HandlerDone(TaskDone(x, q.epoch))
        /\ resolved(x, q, v) = HandlerDone(TaskDone(y, q.epoch))
    BY <1>10, Zenon DEF rejected, resolved, WithSecure
  <2>3. L = c.local /\ S = q.key
    BY <1>10
  <2>4. /\ y \in Pairs /\ y.r = x.r /\ y.c.epoch = x.c.epoch /\ y.c.local = x.c.local
        /\ y.c.secure = q.key /\ y.c.serial = x.c.serial
    BY <1>2, <2>1, KeyFields, ZenonT(60)
  <2> HIDE DEF y
  <2>5. After(HandlerDone(TaskDone(y, q.epoch)), c, r, c.local, q.key)
    BY <1>2, <2>1, <2>4, AfterJoin
  <2>6. After(HandlerDone(TaskDone(x, q.epoch)), c, r, c.local, c.secure)
    BY <1>2, <2>1, AfterJoin, Zenon
  <2> QED
    BY <2>2, <2>3, <2>5, <2>6, Zenon
<1>11. CASE q.type = "ENCRYPT"
  <2>1. Quiet(q) /\ ~Opening(q)
    BY <1>11 DEF Quiet, Opening
  <2>2. rejected(x, q) = TaskDone(x, q.epoch) /\ resolved(x, q, v) = TaskDone(x, q.epoch)
    BY <1>11, Zenon DEF rejected, resolved
  <2>3. L = c.local /\ S = c.secure
    BY <1>11, Zenon
  <2>4. After(TaskDone(x, q.epoch), c, r, c.local, c.secure)
    BY <1>2, <2>1, AfterTask, Zenon
  <2> QED
    BY <2>2, <2>3, <2>4, Zenon
<1>12. CASE q.type = "DECRYPT"
  <2>1. Quiet(q) /\ Opening(q)
    BY <1>12 DEF Quiet, Opening
  <2>2. /\ rejected(x, q) = HandlerDone(TaskDone(x, q.epoch))
        /\ resolved(x, q, v) = HandlerDone(TaskDone(x, q.epoch))
    BY <1>12, Zenon DEF rejected, resolved
  <2>3. L = c.local /\ S = c.secure
    BY <1>12, Zenon
  <2>4. After(HandlerDone(TaskDone(x, q.epoch)), c, r, c.local, c.secure)
    BY <1>2, <2>1, AfterTask
  <2> QED
    BY <2>2, <2>3, <2>4, Zenon
<1> QED
  BY <1>3, <1>6, <1>7, <1>8, <1>9, <1>10, <1>11, <1>12, Zenon

-----------------------------------------------------------------------------
(* What the worker does to its session. *)

\* A packet changes nothing of what the worker sends with.
LEMMA Receiving ==
  ASSUME NEW w, IsWorker(w), NEW pk
  PROVE  LET v == decryptBinary(w, pk)
         IN IsWorker(v) /\ v.identity = w.identity /\ v.sendChain = w.sendChain
<1> DEFINE Kept(v) == IsWorker(v) /\ v.identity = w.identity /\ v.sendChain = w.sendChain
<1>1. Kept(w)
  OBVIOUS
<1>2. Kept([w EXCEPT !.mixed = TRUE])
  BY Zenon DEF IsWorker
<1>3. ASSUME NEW b PROVE Kept([w EXCEPT !.skipped = b])
  BY DEF IsWorker
<1>4. ASSUME NEW b PROVE Kept([w EXCEPT !.skipped = b, !.mixed = TRUE])
  BY Zenon DEF IsWorker
<1>5. ASSUME NEW a, NEW b, NEW h
      PROVE Kept([w EXCEPT !.skipped = b, !.receiveChain = a, !.highest = h])
  BY Zenon DEF IsWorker
<1> HIDE DEF Kept
<1>7. Kept(decryptBinary(w, pk))
  BY <1>1, <1>2, <1>3, <1>4, <1>5, Zenon DEF decryptBinary
<1> QED
  BY <1>7 DEF Kept

\* encryptBinary takes the next key of the chain.
LEMMA Sending ==
  ASSUME NEW w, IsWorker(w)
  PROVE  LET v == encryptBinary(w)
         IN /\ IsWorker(v) /\ v.identity = w.identity
            /\ v.sendChain.pair = w.sendChain.pair /\ v.sendChain.label = w.sendChain.label
            /\ v.sendChain.step = w.sendChain.step + 1
<1> DEFINE ch == Advance(w.sendChain, 1)
           ob == w.outbound + 1
           v == [w EXCEPT !.sendChain = ch, !.outbound = ob]
<1>1. w.sendChain \in Chains /\ w.outbound \in Nat
  BY DEF IsWorker
<1>2. /\ ch \in Chains /\ ch.pair = w.sendChain.pair /\ ch.label = w.sendChain.label
      /\ ch.step = w.sendChain.step + 1 /\ ob \in Nat
  BY <1>1 DEF Advance, Chains
<1>3. encryptBinary(w) = v
  BY Zenon DEF encryptBinary, IsWorker
<1> HIDE DEF ch, ob
<1>4. IsWorker(v) /\ v.identity = w.identity /\ v.sendChain = ch
  BY <1>2, Zenon DEF IsWorker
<1> HIDE DEF v
<1> QED
  BY <1>2, <1>3, <1>4

\* Both resets keep a worker one, resetSession with its identity.
LEMMA Resetting ==
  ASSUME NEW w, IsWorker(w), NEW k \in Nat
  PROVE  /\ IsWorker(resetSession(w)) /\ resetSession(w).identity = w.identity
         /\ IsWorker(resetAll(w))
         /\ IsWorker(generateIdentity(w, k)) /\ generateIdentity(w, k).identity = k
<1> DEFINE v == resetSession(w)
           a == resetAll(w)
<1>1. NoChain \in Chains
  BY DEF NoChain, Chains, Labels
<1>2. IsWorker(v) /\ v.identity = w.identity
  BY <1>1, Zenon DEF resetSession, IsWorker
<1>3. a = [v EXCEPT !.identity = NoKey] /\ NoKey \in Nat
  BY DEF resetAll, NoKey
<1> HIDE DEF v, a
<1>4. IsWorker(a)
  BY <1>2, <1>3 DEF IsWorker
<1>5. generateIdentity(w, k) = [a EXCEPT !.identity = k]
  BY DEF generateIdentity, a
<1>6. IsWorker([a EXCEPT !.identity = k]) /\ [a EXCEPT !.identity = k].identity = k
  BY <1>4, Zenon DEF IsWorker
<1> QED
  BY <1>2, <1>4, <1>5, <1>6, Zenon DEF v, a

\* establishSession derives the chains from the two identities, one a direction.
LEMMA Establishing ==
  ASSUME NEW w, IsWorker(w), NEW k \in Nat
  PROVE  LET v == establishSession(w, k)
         IN /\ IsWorker(v) /\ v.identity = w.identity
            /\ v.sendChain.pair = {w.identity, k}
            /\ v.sendChain.label = Direction(w.identity, k)
<1> DEFINE ch == [pair |-> {w.identity, k}, label |-> Direction(w.identity, k), step |-> 0]
           v == resetSession(w)
           u == establishSession(w, k)
<1>1. w.identity \in Nat
  BY Zenon DEF IsWorker
<1>2. ch \in Chains /\ ch.pair = {w.identity, k} /\ ch.label = Direction(w.identity, k)
  BY <1>1 DEF Chains, Labels, Direction
<1>3. IsWorker(v) /\ v.identity = w.identity
  BY Resetting
<1>4. \E rc : u = [v EXCEPT !.sendChain = ch, !.receiveChain = rc]
  BY Zenon DEF establishSession, Direction
<1> HIDE DEF ch, v, u
<1>5. PICK rc : u = [v EXCEPT !.sendChain = ch, !.receiveChain = rc]
  BY <1>4, Zenon
<1>6. IsWorker(u) /\ u.identity = v.identity /\ u.sendChain = ch
  BY <1>2, <1>3, <1>5, Zenon DEF IsWorker
<1> QED
  BY <1>2, <1>3, <1>6 DEF u

\* What a request does to the identity and the chain to send on.
LEMMA Handling ==
  ASSUME NEW w, IsWorker(w), NEW q \in Requests, owner \in Seq(Peers)
  PROVE  LET v == handle(w, q)
         IN /\ IsWorker(v)
            /\ q.type \notin {"RESET", "GENERATE"} => v.identity = w.identity
            /\ q.type = "GENERATE" => v.identity = Len(owner) + 1
            /\ q.type = "ESTABLISH" /\ CanEstablish(w, q.key) =>
                 /\ v.sendChain.pair = {w.identity, q.key}
                 /\ v.sendChain.label = Direction(w.identity, q.key)
            /\ Quiet(q) =>
                 /\ v.sendChain.pair = w.sendChain.pair /\ v.sendChain.label = w.sendChain.label
                 /\ v.sendChain.step >= w.sendChain.step
            /\ q.type = "ENCRYPT" /\ Established(w) => v.sendChain.step = w.sendChain.step + 1
<1> DEFINE v == handle(w, q)
<1>0. w.sendChain.step \in Nat
  BY DEF IsWorker, Chains
<1>1. q.type \in {"RESET", "CONFIGURE", "GENERATE", "ESTABLISH", "ENCRYPT", "DECRYPT"}
  BY DEF Requests
<1>2. CASE q.type = "RESET"
  <2>1. v = resetAll(w)
    BY <1>2 DEF handle
  <2> HIDE DEF v
  <2>2. IsWorker(v)
    BY <2>1, Resetting, Zenon
  <2> QED
    BY <1>2, <2>2, Zenon DEF v, Quiet
<1>3. CASE q.type = "CONFIGURE"
  <2>1. v = resetSession(w)
    BY <1>3 DEF handle
  <2> HIDE DEF v
  <2>2. IsWorker(v) /\ v.identity = w.identity
    BY <2>1, Resetting, Zenon
  <2> QED
    BY <1>3, <2>2 DEF v, Quiet
<1>4. CASE q.type = "GENERATE"
  <2>1. v = generateIdentity(w, Len(owner) + 1)
    BY <1>4 DEF handle
  <2> HIDE DEF v
  <2>2. Len(owner) + 1 \in Nat
    OBVIOUS
  <2>3. IsWorker(v) /\ v.identity = Len(owner) + 1
    BY <2>1, <2>2, Resetting, Zenon
  <2> QED
    BY <1>4, <2>3 DEF v, Quiet
<1>5. CASE q.type = "ESTABLISH"
  <2>1. v = IF CanEstablish(w, q.key) THEN establishSession(w, q.key) ELSE w
    BY <1>5, Zenon DEF handle
  <2>2. q.key \in Nat
    BY <1>5 DEF Requests
  <2> HIDE DEF v
  <2>3. /\ IsWorker(v) /\ v.identity = w.identity
        /\ CanEstablish(w, q.key) =>
             /\ v.sendChain.pair = {w.identity, q.key}
             /\ v.sendChain.label = Direction(w.identity, q.key)
    BY <2>1, <2>2, Establishing, Zenon
  <2> QED
    BY <1>5, <2>3 DEF v, Quiet
<1>6. CASE q.type = "ENCRYPT"
  <2>1. v = IF Established(w) THEN encryptBinary(w) ELSE w
    BY <1>6, Zenon DEF handle
  <2> HIDE DEF v
  <2>2. CASE Established(w)
    <3>1. v = encryptBinary(w)
      BY <2>1, <2>2
    <3>2. /\ IsWorker(v) /\ v.identity = w.identity
          /\ v.sendChain.pair = w.sendChain.pair /\ v.sendChain.label = w.sendChain.label
          /\ v.sendChain.step = w.sendChain.step + 1
      BY <3>1, Sending, Zenon
    <3> QED
      BY <1>0, <1>6, <3>2 DEF v
  <2>3. CASE ~Established(w)
    <3>1. v = w
      BY <2>1, <2>3, Zenon
    <3> QED
      BY <1>0, <1>6, <2>3, <3>1 DEF v
  <2> QED
    BY <2>2, <2>3, Zenon
<1>7. CASE q.type = "DECRYPT"
  <2>1. v = decryptBinary(w, q.packet)
    BY <1>7 DEF handle
  <2> HIDE DEF v
  <2>2. IsWorker(v) /\ v.identity = w.identity /\ v.sendChain = w.sendChain
    BY <2>1, Receiving, Zenon
  <2> QED
    BY <1>0, <1>7, <2>2 DEF v
<1> QED
  BY <1>1, <1>2, <1>3, <1>4, <1>5, <1>6, <1>7, Zenon

-----------------------------------------------------------------------------
(* A client's part of the invariant, step by step. *)

\* The other client's identities may be as many as they like.
LEMMA Growing ==
  ASSUME NEW p \in Peers, NEW o \in Seq(Peers), NEW g \in Peers, NEW c, NEW r, NEW w, NEW s,
         PeerInv(p, c, r, w, s, o)
  PROVE  PeerInv(p, c, r, w, s, Append(o, g))
<1> DEFINE b == Append(o, g)
<1>1. /\ \A i \in 1..Len(o) : b[i] = o[i]
      /\ \A i \in 1..Len(o) : i \in 1..Len(b)
  BY AppendFacts
<1> HIDE DEF b
<1>2. Named(p, c, r.chain, b)
  BY <1>1, Zenon DEF PeerInv, Named
<1>3. Spent(p, c, w, s, b)
  <2>1. ASSUME NEW i \in 1..Len(s)
        PROVE  \E l, k \in 1..Len(b) :
                 /\ b[l] = p /\ b[k] = Other(p)
                 /\ s[i].pair = {l, k} /\ s[i].label = Direction(l, k)
    <3>1. PICK l \in 1..Len(o), k \in 1..Len(o) :
                 /\ o[l] = p /\ o[k] = Other(p)
                 /\ s[i].pair = {l, k} /\ s[i].label = Direction(l, k)
      BY Zenon DEF PeerInv, Spent
    <3> QED
      BY <1>1, <3>1, Zenon
  <2> QED
    BY <2>1, Zenon DEF PeerInv, Spent
<1> QED
  BY <1>2, <1>3, Zenon DEF PeerInv, b

\* Before its request is answered the inbound task holds what Phase says, and a
\* request of a client with a session is quiet.
LEMMA WhatWaits ==
  ASSUME NEW c \in Controllers, NEW ch \in Seq(Requests), Tasks(c, ch), NEW i \in 1..Len(ch)
  PROVE  /\ Starting(ch[i]) => c.local = NoKey /\ c.secure = NoKey
         /\ Joining(ch[i]) => c.local # NoKey /\ c.secure = NoKey
         /\ c.local # NoKey => ch[i].type \notin {"RESET", "GENERATE"}
         /\ c.secure # NoKey => Quiet(ch[i])
         /\ Quiet(ch[i]) /\ ch[i].epoch = c.epoch => c.secure # NoKey
<1>1. ch[i] \in Requests
  OBVIOUS
<1>2. /\ Starting(ch[i]) => c.local = NoKey /\ c.secure = NoKey
      /\ Joining(ch[i]) => c.local # NoKey /\ c.secure = NoKey
  BY Zenon DEF Tasks, Chained, Phase
<1>3. ch[i].type \in {"RESET", "GENERATE"} => Starting(ch[i])
  BY DEF Starting
<1>4. ASSUME Quiet(ch[i]), ch[i].epoch = c.epoch, c.secure = NoKey PROVE FALSE
  <2>1. Len(c.serial[c.epoch]) > 0 /\ Quiet(c.serial[c.epoch][1])
    BY <1>4, Zenon DEF Tasks, Chained
  <2>2. c.handler # "handshake"
    BY <2>1, Zenon DEF Tasks, Queued
  <2>3. c.serial[c.epoch] = <<>>
    BY <1>4, <2>2, Zenon DEF Tasks, Queued
  <2> QED
    BY <2>1, <2>3
<1> QED
  BY <1>1, <1>2, <1>3, <1>4, Kinds, Zenon

\* What is posted after ib keeps the worker and the controller in agreement.
LEMMA PostsAgree ==
  ASSUME NEW c \in Controllers, NEW ch \in Seq(Requests), NEW ib \in Seq(Requests), NEW w,
         Tasks(c, ch), Agrees(c, ib, w)
  PROVE  Agrees(c, Posts(ib, ch), w) /\ Pending(ch, Posts(ib, ch))
<1> DEFINE b == Posts(ib, ch)
<1>1. CASE ch = <<>>
  BY <1>1, Zenon DEF Posts, Pending
<1>2. CASE ch # <<>>
  <2>1. ch[1] \in Requests /\ 1 \in 1..Len(ch)
    BY <1>2, TailFacts
  <2>2. b = Append(ib, ch[1])
    BY <1>2, Zenon DEF Posts
  <2> DEFINE h == ch[1]
  <2> HIDE DEF b
  <2>3. /\ Len(b) > 0 /\ b[Len(b)] = h
        /\ \A i \in 1..Len(b) : (i \in 1..Len(ib) /\ b[i] = ib[i]) \/ b[i] = h
    <3>1. h \in Requests /\ b = Append(ib, h)
      BY <2>1, <2>2, Zenon
    <3> HIDE DEF h
    <3> QED
      BY <3>1, AppendFacts
  <2>4. /\ c.local # NoKey => h.type \notin {"RESET", "GENERATE"}
        /\ c.secure # NoKey => Quiet(h)
    BY <2>1, WhatWaits, Zenon
  <2>5. Agrees(c, b, w)
    <3> HIDE DEF h
    <3> QED
      BY <2>3, <2>4, Zenon DEF Agrees
  <2> QED
    BY <2>3, <2>5 DEF Pending, b
<1> QED
  BY <1>1, <1>2

\* A request that joins requestChain: what is posted, and what is pending.
LEMMA Enqueued ==
  ASSUME NEW ch \in Seq(Requests), NEW ib \in Seq(Requests), NEW q \in Requests,
         Pending(ch, ib), NEW b, ch = <<>> => b = Append(ib, q), ch # <<>> => b = ib
  PROVE  /\ Pending(Append(ch, q), b)
         /\ \A i \in 1..Len(b) : (i \in 1..Len(ib) /\ b[i] = ib[i]) \/ b[i] = q
<1>1. Append(ch, q) # <<>>
  BY AppendFacts
<1>2. CASE ch = <<>>
  <2>1. b = Append(ib, q) /\ Append(ch, q)[1] = q
    BY <1>2
  <2>2. /\ Len(b) > 0 /\ b[Len(b)] = q
        /\ \A i \in 1..Len(b) : (i \in 1..Len(ib) /\ b[i] = ib[i]) \/ b[i] = q
    BY <2>1, AppendFacts
  <2> QED
    BY <2>1, <2>2 DEF Pending
<1>3. CASE ch # <<>>
  <2>1. b = ib /\ Append(ch, q)[1] = ch[1]
    BY <1>3, AppendFacts, TailFacts
  <2> QED
    BY <1>3, <2>1, Zenon DEF Pending
<1> QED
  BY <1>2, <1>3

\* a is r, or r with request q.
Posted(a, r, q) ==
  \/ a.chain = r.chain /\ a.inbox = r.inbox
  \/ /\ a.chain = Append(r.chain, q)
     /\ a.inbox = IF r.chain = <<>> THEN Append(r.inbox, q) ELSE r.inbox

\* Controller d, which was c, may ask for q.
Allowed(p, c, d, q, o) ==
  /\ (d.local = c.local /\ d.secure = c.secure) \/ (d.local = NoKey /\ d.secure = NoKey)
  /\ d.local # NoKey => q.type \notin {"RESET", "GENERATE"}
  /\ d.secure # NoKey => Quiet(q)
  /\ Joining(q) => q.key \in 1..Len(o) /\ o[q.key] = Other(p)

\* A request is made, or waits behind its epoch's tasks.
LEMMA Asking ==
  ASSUME NEW p \in Peers, NEW c, NEW r, NEW w, NEW s, NEW o, PeerInv(p, c, r, w, s, o),
         NEW d \in Controllers, NEW a \in Clients, NEW q \in Requests, Tasks(d, a.chain),
         Posted(a, r, q), Allowed(p, c, d, q, o)
  PROVE  PeerInv(p, d, a, w, s, o)
<1>20. /\ \/ a.chain = r.chain /\ a.inbox = r.inbox
          \/ /\ a.chain = Append(r.chain, q)
             /\ a.inbox = IF r.chain = <<>> THEN Append(r.inbox, q) ELSE r.inbox
       /\ (d.local = c.local /\ d.secure = c.secure) \/ (d.local = NoKey /\ d.secure = NoKey)
       /\ d.local # NoKey => q.type \notin {"RESET", "GENERATE"}
       /\ d.secure # NoKey => Quiet(q)
       /\ Joining(q) => q.key \in 1..Len(o) /\ o[q.key] = Other(p)
  BY Zenon DEF Posted, Allowed
<1>1. /\ r \in Clients /\ Pending(r.chain, r.inbox) /\ Agrees(c, r.inbox, w)
      /\ Named(p, c, r.chain, o) /\ Spent(p, c, w, s, o)
      /\ IsWorker(w) /\ s \in Seq(Chains)
  BY Zenon DEF PeerInv
<1>2. r.chain \in Seq(Requests) /\ r.inbox \in Seq(Requests)
  BY <1>1 DEF Clients
<1>3. /\ Pending(a.chain, a.inbox)
      /\ \A i \in 1..Len(a.inbox) :
           (i \in 1..Len(r.inbox) /\ a.inbox[i] = r.inbox[i]) \/ a.inbox[i] = q
  <2>1. CASE a.chain = r.chain /\ a.inbox = r.inbox
    BY <1>1, <2>1, Zenon
  <2>2. CASE /\ a.chain = Append(r.chain, q)
             /\ a.inbox = IF r.chain = <<>> THEN Append(r.inbox, q) ELSE r.inbox
    <3>1. /\ r.chain = <<>> => a.inbox = Append(r.inbox, q)
          /\ r.chain # <<>> => a.inbox = r.inbox
      BY <2>2
    <3>2. /\ Pending(Append(r.chain, q), a.inbox)
          /\ \A i \in 1..Len(a.inbox) :
               (i \in 1..Len(r.inbox) /\ a.inbox[i] = r.inbox[i]) \/ a.inbox[i] = q
      BY <1>1, <1>2, <3>1, Enqueued, Zenon
    <3> QED
      BY <2>2, <3>2, Zenon
  <2> QED
    BY <1>20, <2>1, <2>2, Zenon
<1>4. \A i \in 1..Len(a.chain) :
        (i \in 1..Len(r.chain) /\ a.chain[i] = r.chain[i]) \/ a.chain[i] = q
  <2>1. CASE a.chain = r.chain
    BY <2>1, Zenon
  <2>2. CASE a.chain = Append(r.chain, q)
    BY <1>2, <2>2, AppendFacts
  <2> QED
    BY <1>20, <2>1, <2>2, Zenon
<1>5. Agrees(d, a.inbox, w)
  BY <1>1, <1>3, <1>20, Zenon DEF Agrees
<1>6. Named(p, d, a.chain, o)
  BY <1>1, <1>4, <1>20, Zenon DEF Named
<1>7. Spent(p, d, w, s, o)
  BY <1>1, <1>20, Zenon DEF Spent
<1> QED
  BY <1>1, <1>3, <1>5, <1>6, <1>7, Zenon DEF PeerInv

\* Identities generated later change nothing about those of o, and b tells who
\* generated l and k.
Grown(p, l, k, o, b) ==
  /\ \A i \in 1..Len(o) : i \in 1..Len(b) /\ b[i] = o[i]
  /\ l # NoKey => l \in 1..Len(b) /\ b[l] = p
  /\ k # NoKey => k \in 1..Len(b) /\ b[k] = Other(p)

\* A request is settled: y is what c and a come to, where a is r but for what was
\* posted; the worker, the keys used and the identities may have changed with it.
LEMMA Settling ==
  ASSUME NEW p \in Peers, NEW c, NEW r, NEW w, NEW s, NEW o, PeerInv(p, c, r, w, s, o),
         NEW a \in Clients, a.chain = r.chain, NEW y, NEW l, NEW k, After(y, c, a, l, k),
         NEW v, IsWorker(v), NEW t \in Seq(Chains), NEW b, Grown(p, l, k, o, b),
         Agrees(y.c, a.inbox, v), Spent(p, y.c, v, t, b)
  PROVE  PeerInv(p, y.c, y.r, v, t, b)
<1>1. /\ y \in Pairs /\ y.r.inbox = Posts(a.inbox, y.r.chain)
      /\ y.c.local = l /\ y.c.secure = k
      /\ Tasks(y.c, y.r.chain) /\ NoNewKey(y.r.chain, a.chain)
  BY Zenon DEF After
<1>2. /\ y.c \in Controllers /\ y.r \in Clients /\ y.r.chain \in Seq(Requests)
      /\ a.inbox \in Seq(Requests)
  BY <1>1, Zenon DEF Pairs, Clients
<1>3. Agrees(y.c, y.r.inbox, v) /\ Pending(y.r.chain, y.r.inbox)
  BY <1>1, <1>2, PostsAgree, Zenon
<1>4. Named(p, c, r.chain, o)
  BY Zenon DEF PeerInv
<1>5. ASSUME NEW i \in 1..Len(y.r.chain), Joining(y.r.chain[i])
      PROVE  y.r.chain[i].key \in 1..Len(b) /\ b[y.r.chain[i].key] = Other(p)
  <2>1. PICK j \in 1..Len(r.chain) : Joining(r.chain[j]) /\ r.chain[j].key = y.r.chain[i].key
    BY <1>1, <1>5, Zenon DEF NoNewKey
  <2>2. r.chain[j].key \in 1..Len(o) /\ o[r.chain[j].key] = Other(p)
    BY <1>4, <2>1, Zenon DEF Named
  <2> QED
    BY <2>1, <2>2, Zenon DEF Grown
<1>6. Named(p, y.c, y.r.chain, b)
  BY <1>1, <1>5, Zenon DEF Named, Grown
<1> QED
  BY <1>1, <1>2, <1>3, <1>6, Zenon DEF PeerInv

\* A client of which only what was posted is another.
Taken(r, ib) == [r EXCEPT !.inbox = ib]

\* What is posted is a change of that one field.
LEMMA TakenFields ==
  ASSUME NEW r \in Clients, NEW ib \in Seq(Requests)
  PROVE  /\ Taken(r, ib) \in Clients /\ Taken(r, ib).chain = r.chain
         /\ Taken(r, ib).inbox = ib /\ Taken(r, ib).ready = r.ready
  BY Zenon DEF Clients, Taken

\* rawRequest or waitReady gives up.
LEMMA TimeoutKeeps ==
  ASSUME NEW p \in Peers, NEW c, NEW r, NEW w, NEW s, NEW o, PeerInv(p, c, r, w, s, o),
         r.chain # <<>>, NEW a \in Clients, a.chain = r.chain, a.inbox \in {r.inbox, <<>>}
  PROVE  LET y == rejected([c |-> c, r |-> Settled(a)], Head(r.chain))
         IN PeerInv(p, y.c, y.r, w, s, o)
<1>1. /\ c \in Controllers /\ r \in Clients /\ IsWorker(w) /\ s \in Seq(Chains)
      /\ Tasks(c, r.chain) /\ Agrees(c, r.inbox, w)
      /\ Named(p, c, r.chain, o) /\ Spent(p, c, w, s, o)
  BY Zenon DEF PeerInv
<1>2. r.chain \in Seq(Requests)
  BY <1>1 DEF Clients
<1>3. Agrees(c, a.inbox, w)
  <2>1. CASE a.inbox = r.inbox
    BY <1>1, <2>1, Zenon
  <2>2. CASE a.inbox = <<>>
    <3>1. \A i \in 1..Len(<<>>) : FALSE
      OBVIOUS
    <3> QED
      BY <1>1, <2>2, <3>1, Zenon DEF Agrees
  <2> QED
    BY <2>1, <2>2, Zenon
<1>4. Head(r.chain) = r.chain[1]
  BY <1>2, TailFacts
<1> DEFINE y == rejected([c |-> c, r |-> Settled(a)], r.chain[1])
<1>5. After(y, c, a, c.local, c.secure)
  <2>1. 0 \in Nat
    OBVIOUS
  <2> QED
    BY <1>1, <2>1, Outcomes, Zenon
<1> HIDE DEF y
<1>6. y.c.local = c.local /\ y.c.secure = c.secure
  BY <1>5, Zenon DEF After
<1>7. Agrees(y.c, a.inbox, w)
  BY <1>3, <1>6, Zenon DEF Agrees
<1>8. Spent(p, y.c, w, s, o)
  BY <1>1, <1>6, Zenon DEF Spent
<1>9. Grown(p, c.local, c.secure, o, o)
  BY <1>1, Zenon DEF Named, Grown
<1>10. PeerInv(p, y.c, y.r, w, s, o)
  BY <1>1, <1>5, <1>7, <1>8, <1>9, Settling, Zenon
<1> QED
  BY <1>4, <1>10, Zenon DEF y

\* The worker handles q for a controller whose keys stay: they stay in agreement.
LEMMA HandlingAgrees ==
  ASSUME NEW c, NEW ib \in Seq(Requests), ib # <<>>, NEW w, IsWorker(w), Agrees(c, ib, w),
         owner \in Seq(Peers), NEW v, v = handle(w, ib[1])
  PROVE  /\ IsWorker(v) /\ Agrees(c, Tail(ib), v)
         /\ c.secure # NoKey => v.sendChain.step >= w.sendChain.step
                                /\ v.sendChain.pair = w.sendChain.pair
<1> DEFINE q == ib[1]
           u == Tail(ib)
<1>1. /\ q \in Requests /\ 1 \in 1..Len(ib)
      /\ \A i \in 1..Len(u) : i + 1 \in 1..Len(ib) /\ u[i] = ib[i + 1]
  BY TailFacts
<1>2. /\ c.local # NoKey => w.identity = c.local /\ q.type \notin {"RESET", "GENERATE"}
      /\ c.secure # NoKey => Quiet(q)
  BY <1>1, Zenon DEF Agrees
<1> HIDE DEF q, u
<1>3. /\ IsWorker(v)
      /\ q.type \notin {"RESET", "GENERATE"} => v.identity = w.identity
      /\ Quiet(q) =>
           /\ v.sendChain.pair = w.sendChain.pair /\ v.sendChain.label = w.sendChain.label
           /\ v.sendChain.step >= w.sendChain.step
  <2>1. v = handle(w, q)
    BY DEF q
  <2>2. QED
    <3>1. /\ IsWorker(handle(w, q))
          /\ q.type \notin {"RESET", "GENERATE"} => handle(w, q).identity = w.identity
          /\ Quiet(q) =>
               /\ handle(w, q).sendChain.pair = w.sendChain.pair
               /\ handle(w, q).sendChain.label = w.sendChain.label
               /\ handle(w, q).sendChain.step >= w.sendChain.step
      BY <1>1, Handling, Zenon
    <3> QED
      BY <2>1, <3>1, Zenon
<1>4. Agrees(c, u, v)
  BY <1>1, <1>2, <1>3, Zenon DEF Agrees
<1> QED
  BY <1>2, <1>3, <1>4, Zenon DEF u

\* The last index of a sequence that lost one of its several elements.
LEMMA OneLess ==
  ASSUME NEW n \in Nat \ {0}, n # 1, NEW m, m = n - 1
  PROVE  m \in 1..m /\ m + 1 = n /\ m > 0
  OBVIOUS

\* A request nobody waits for any more.
LEMMA LateKeeps ==
  ASSUME NEW p \in Peers, NEW c, NEW r, NEW w, NEW s, PeerInv(p, c, r, w, s, owner),
         owner \in Seq(Peers), r.inbox # <<>>, ~Awaited(r)
  PROVE  PeerInv(p, c, Taken(r, Tail(r.inbox)), handle(w, r.inbox[1]), s, owner)
<1> DEFINE v == handle(w, r.inbox[1])
           u == Tail(r.inbox)
           a == Taken(r, u)
<1>1. /\ c \in Controllers /\ r \in Clients /\ IsWorker(w) /\ s \in Seq(Chains)
      /\ Tasks(c, r.chain) /\ Pending(r.chain, r.inbox) /\ Agrees(c, r.inbox, w)
      /\ Named(p, c, r.chain, owner) /\ Spent(p, c, w, s, owner)
  BY Zenon DEF PeerInv
<1>2. r.chain \in Seq(Requests) /\ r.inbox \in Seq(Requests)
  BY <1>1, Zenon DEF Clients
<1>3. /\ Len(r.inbox) \in Nat \ {0} /\ u \in Seq(Requests) /\ Len(u) = Len(r.inbox) - 1
      /\ \A i \in 1..Len(u) : i + 1 \in 1..Len(r.inbox) /\ u[i] = r.inbox[i + 1]
  BY <1>2, TailFacts
<1>4. /\ IsWorker(v) /\ Agrees(c, u, v)
      /\ c.secure # NoKey => v.sendChain.step >= w.sendChain.step
                             /\ v.sendChain.pair = w.sendChain.pair
  BY <1>1, <1>2, HandlingAgrees, ZenonT(60)
<1> HIDE DEF u, v
<1>5. a \in Clients /\ a.chain = r.chain /\ a.inbox = u
  BY <1>1, <1>3, TakenFields, Zenon
<1> HIDE DEF a
<1>6. Pending(r.chain, u)
  <2>1. SUFFICES ASSUME r.chain # <<>> PROVE Len(u) > 0 /\ u[Len(u)] = r.chain[1]
    BY Zenon DEF Pending
  <2>2. Len(r.inbox) # 1 /\ r.inbox[Len(r.inbox)] = r.chain[1]
    BY <1>1, <2>1 DEF Awaited, Pending
  <2>3. Len(u) \in 1..Len(u) /\ Len(u) + 1 = Len(r.inbox) /\ Len(u) > 0
    <3>1. Len(r.inbox) \in Nat \ {0} /\ Len(u) = Len(r.inbox) - 1
      BY <1>3, Zenon
    <3> QED
      BY <2>2, <3>1, OneLess, Zenon
  <2>4. u[Len(u)] = r.inbox[Len(u) + 1]
    BY <1>3, <2>3
  <2> QED
    BY <2>2, <2>3, <2>4, Zenon
<1>7. Spent(p, c, v, s, owner)
  <2>1. ASSUME c.secure # NoKey, NEW i \in 1..Len(s), s[i].pair = v.sendChain.pair
        PROVE  s[i].step < v.sendChain.step
    <3>1. s[i].step < w.sendChain.step
      BY <1>1, <1>4, <2>1, Zenon DEF Spent
    <3>2. s[i].step \in Nat /\ w.sendChain.step \in Nat /\ v.sendChain.step \in Nat
      <4>1. s[i] \in Chains
        BY <1>1
      <4>2. w.sendChain \in Chains /\ v.sendChain \in Chains
        BY <1>1, <1>4 DEF IsWorker
      <4> QED
        BY <4>1, <4>2, Zenon DEF Chains
    <3> QED
      BY <1>4, <2>1, <3>1, <3>2
  <2> QED
    BY <1>1, <2>1, Zenon DEF Spent
<1>8. PeerInv(p, c, a, v, s, owner)
  BY <1>1, <1>4, <1>5, <1>6, <1>7, Zenon DEF PeerInv
<1> QED
  BY <1>8 DEF a, u, v

\* The keys used, when the controller's keys stay: the transport gets a packet only
\* in a session, sealed with the next key of its chain.
LEMMA SpentKeeps ==
  ASSUME NEW p \in Peers, NEW c, NEW w, IsWorker(w), NEW v, IsWorker(v), NEW s \in Seq(Chains),
         Spent(p, c, w, s, owner), NEW d, d.local = c.local, d.secure = c.secure,
         c.secure # NoKey =>
           /\ v.sendChain.step >= w.sendChain.step /\ v.sendChain.pair = w.sendChain.pair
           /\ w.sendChain.pair = {c.local, c.secure}
           /\ w.sendChain.label = Direction(c.local, c.secure)
           /\ c.local \in 1..Len(owner) /\ owner[c.local] = p
           /\ c.secure \in 1..Len(owner) /\ owner[c.secure] = Other(p),
         NEW t,
         \/ t = s
         \/ /\ t = Append(s, w.sendChain) /\ c.secure # NoKey
            /\ v.sendChain.step = w.sendChain.step + 1
  PROVE  t \in Seq(Chains) /\ Spent(p, d, v, t, owner)
<1>1. w.sendChain \in Chains /\ v.sendChain \in Chains
  BY Zenon DEF IsWorker
<1>2. w.sendChain.step \in Nat /\ v.sendChain.step \in Nat /\ \A i \in 1..Len(s) : s[i].step \in Nat
  <2>1. \A i \in 1..Len(s) : s[i] \in Chains
    OBVIOUS
  <2> QED
    BY <1>1, <2>1, Zenon DEF Chains
<1>3. \A i \in 1..Len(s) : c.secure # NoKey /\ s[i].pair = w.sendChain.pair =>
                             s[i].step < w.sendChain.step
  BY Zenon DEF Spent
<1>4. CASE t = s
  <2>1. \A i \in 1..Len(s) : c.secure # NoKey /\ s[i].pair = v.sendChain.pair =>
                               s[i].step < v.sendChain.step
    BY <1>2, <1>3
  <2>2. Spent(p, d, v, s, owner)
    BY <2>1, Zenon DEF Spent
  <2> QED
    BY <1>4, <2>2, Zenon
<1>5. CASE /\ t = Append(s, w.sendChain) /\ c.secure # NoKey
           /\ v.sendChain.step = w.sendChain.step + 1
  <2>1. /\ t \in Seq(Chains)
        /\ \A i \in 1..Len(t) : (i \in 1..Len(s) /\ t[i] = s[i]) \/ (i = Len(t) /\ t[i] = w.sendChain)
    <3> DEFINE z == Append(s, w.sendChain)
    <3>1. /\ z \in Seq(Chains)
          /\ \A i \in 1..Len(z) : (i \in 1..Len(s) /\ z[i] = s[i]) \/ (i = Len(z) /\ z[i] = w.sendChain)
      <4>1. z \in Seq(Chains)
        BY <1>1, AppendPlaces, Zenon
      <4>2. ASSUME NEW i \in 1..Len(z)
            PROVE  (i \in 1..Len(s) /\ z[i] = s[i]) \/ (i = Len(z) /\ z[i] = w.sendChain)
        BY <1>1, AppendPlace, Zenon
      <4> QED
        BY <4>1, <4>2, Zenon
    <3> QED
      BY <1>5, <3>1, Zenon
  <2>2. ASSUME NEW i \in 1..Len(t)
        PROVE  \E l, k \in 1..Len(owner) :
                 /\ owner[l] = p /\ owner[k] = Other(p)
                 /\ t[i].pair = {l, k} /\ t[i].label = Direction(l, k)
    <3>1. CASE i \in 1..Len(s) /\ t[i] = s[i]
      <4>1. PICK l \in 1..Len(owner), k \in 1..Len(owner) :
                   /\ owner[l] = p /\ owner[k] = Other(p)
                   /\ s[i].pair = {l, k} /\ s[i].label = Direction(l, k)
        BY <3>1, Zenon DEF Spent
      <4> QED
        BY <3>1, <4>1, Zenon
    <3>2. CASE t[i] = w.sendChain
      BY <1>5, <3>2, Zenon
    <3> QED
      BY <2>1, <3>1, <3>2, Zenon
  <2>3. ASSUME NEW i \in 1..Len(t), t[i].pair = v.sendChain.pair
        PROVE  t[i].step < v.sendChain.step
    <3>1. CASE i \in 1..Len(s) /\ t[i] = s[i]
      <4>1. s[i].step < w.sendChain.step
        BY <1>3, <1>5, <2>3, <3>1, Zenon
      <4> QED
        <5>1. s[i].step < w.sendChain.step + 1
          BY <1>2, <3>1, <4>1, StepOrder, Zenon
        <5> QED
          BY <1>5, <3>1, <5>1, Zenon
    <3>2. CASE t[i] = w.sendChain
      BY <1>2, <1>5, <3>2, StepOrder, Zenon
    <3> QED
      BY <2>1, <3>1, <3>2, Zenon
  <2>4. \A i \in 1..Len(s) : s[i] # w.sendChain
    <3> SUFFICES ASSUME NEW i \in 1..Len(s), s[i] = w.sendChain PROVE FALSE
      BY Zenon
    <3>1. s[i].step < w.sendChain.step
      BY <1>3, <1>5, Zenon
    <3> QED
      BY <1>2, <3>1, StepOrder, Zenon
  <2>5. ASSUME NEW i \in 1..Len(t), NEW j \in 1..Len(t), t[i] = t[j]
        PROVE  i = j
    <3>1. CASE i \in 1..Len(s) /\ t[i] = s[i] /\ j \in 1..Len(s) /\ t[j] = s[j]
      BY <2>5, <3>1, ZenonT(60) DEF Spent
    <3>2. CASE i = Len(t) /\ j = Len(t)
      BY <3>2, Zenon
    <3> QED
      BY <2>1, <2>4, <2>5, <3>1, <3>2, Zenon
  <2> QED
    BY <1>5, <2>1, <2>2, <2>3, <2>5, Zenon DEF Spent
<1> QED
  BY <1>4, <1>5, Zenon

\* q is the request at work, a the client without it; y is what its caller goes on
\* with, b the identities generated by then, t the keys of the packets transmitted.
Answered(p, c, r, w, s, q, a, y, b, t) ==
  /\ q = r.inbox[1] /\ a = Taken(r, <<>>)
  /\ LET x == [c |-> c, r |-> Settled(a)]
     IN y = IF Succeeds(w, q) THEN resolved(x, q, Len(owner) + 1) ELSE rejected(x, q)
  /\ b = IF q.type = "GENERATE" THEN Append(owner, p) ELSE owner
  /\ t = IF q.type = "ENCRYPT" /\ Established(w) /\ q.epoch = c.epoch
         THEN Append(s, w.sendChain) ELSE s

\* A request whose caller waits: the answer, or the error.
LEMMA AnswerKeeps ==
  ASSUME NEW p \in Peers, NEW c, NEW r, NEW w, NEW s, PeerInv(p, c, r, w, s, owner),
         owner \in Seq(Peers), Awaited(r), NEW q, NEW a, NEW y, NEW b, NEW t,
         Answered(p, c, r, w, s, q, a, y, b, t)
  PROVE  PeerInv(p, y.c, y.r, handle(w, q), t, b)
<1> DEFINE v == handle(w, q)
           n == Len(owner) + 1
<1>1. /\ c \in Controllers /\ r \in Clients /\ IsWorker(w) /\ s \in Seq(Chains)
      /\ Tasks(c, r.chain) /\ Pending(r.chain, r.inbox) /\ Agrees(c, r.inbox, w)
      /\ Named(p, c, r.chain, owner) /\ Spent(p, c, w, s, owner)
  BY Zenon DEF PeerInv
<1>2. r.chain \in Seq(Requests) /\ r.inbox \in Seq(Requests) /\ <<>> \in Seq(Requests)
  BY <1>1 DEF Clients
<1>3. /\ r.chain # <<>> /\ r.inbox # <<>> /\ Len(r.inbox) = 1
      /\ q = r.chain[1] /\ q \in Requests /\ 1 \in 1..Len(r.chain) /\ 1 \in 1..Len(r.inbox)
  <2>1. r.chain # <<>> /\ Len(r.inbox) = 1
    BY DEF Awaited
  <2>2. q = r.chain[1]
    BY <1>1, <2>1, Zenon DEF Pending, Answered
  <2>3. r.chain[1] \in Requests /\ 1 \in 1..Len(r.chain)
    BY <1>2, <2>1, TailFacts
  <2>4. r.inbox # <<>>
    BY <2>1, EmptyPlaces, Zenon
  <2>5. 1 \in 1..Len(r.inbox)
    BY <2>1
  <2> QED
    BY <2>1, <2>2, <2>3, <2>4, <2>5, Zenon
<1>4. a \in Clients /\ a.chain = r.chain /\ a.inbox = <<>>
  BY <1>1, <1>2, TakenFields, Zenon DEF Answered
<1>5. Len(owner) \in Nat /\ n \in Nat /\ n # NoKey
  BY DEF NoKey
<1> DEFINE x == [c |-> c, r |-> Settled(a)]
<1>6. /\ After(rejected(x, q), c, a, c.local, c.secure)
      /\ After(resolved(x, q, n), c, a, IF q.type = "GENERATE" THEN n ELSE c.local,
                                        IF q.type = "ESTABLISH" THEN q.key ELSE c.secure)
  BY <1>1, <1>3, <1>4, <1>5, Outcomes, Zenon
<1>7. /\ IsWorker(v)
      /\ q.type \notin {"RESET", "GENERATE"} => v.identity = w.identity
      /\ q.type = "GENERATE" => v.identity = Len(owner) + 1
      /\ q.type = "ESTABLISH" /\ CanEstablish(w, q.key) =>
           /\ v.sendChain.pair = {w.identity, q.key}
           /\ v.sendChain.label = Direction(w.identity, q.key)
      /\ Quiet(q) =>
           /\ v.sendChain.pair = w.sendChain.pair /\ v.sendChain.label = w.sendChain.label
           /\ v.sendChain.step >= w.sendChain.step
      /\ q.type = "ENCRYPT" /\ Established(w) => v.sendChain.step = w.sendChain.step + 1
  BY <1>1, <1>3, Handling, ZenonT(60)
<1>72. SUFFICES PeerInv(p, y.c, y.r, v, t, b)
  OBVIOUS
<1> HIDE DEF v
<1>71. IsWorker(v)
  BY <1>7, Zenon
<1>8. /\ Starting(q) => c.local = NoKey /\ c.secure = NoKey
      /\ Joining(q) => c.local # NoKey /\ c.secure = NoKey
      /\ c.local # NoKey => q.type \notin {"RESET", "GENERATE"}
      /\ c.secure # NoKey => Quiet(q)
      /\ Quiet(q) /\ q.epoch = c.epoch => c.secure # NoKey
  BY <1>1, <1>2, <1>3, WhatWaits, Zenon
<1>9. /\ c.local # NoKey => c.local \in 1..Len(owner) /\ owner[c.local] = p
      /\ c.secure # NoKey => c.secure \in 1..Len(owner) /\ owner[c.secure] = Other(p)
      /\ Joining(q) => q.key \in 1..Len(owner) /\ owner[q.key] = Other(p)
  BY <1>1, <1>3, Zenon DEF Named
<1>10. /\ c.local # NoKey => w.identity = c.local
       /\ c.secure # NoKey => w.sendChain.pair = {c.local, c.secure}
                              /\ w.sendChain.label = Direction(c.local, c.secure)
  BY <1>1, Zenon DEF Agrees
<1>12. \A i \in 1..Len(<<>>) : FALSE
  BY EmptyPlaces, Zenon
<1>17. a \in Clients /\ a.chain = r.chain
  BY <1>4, Zenon
\* The controller's keys stay.
<1>13. ASSUME After(y, c, a, c.local, c.secure), b = owner
       PROVE  PeerInv(p, y.c, y.r, v, t, b)
  <2>1. y.c.local = c.local /\ y.c.secure = c.secure
    BY <1>13, Zenon DEF After
  <2>2. Agrees(y.c, a.inbox, v)
    BY <1>4, <1>7, <1>8, <1>10, <1>12, <2>1, Zenon DEF Agrees
  <2>3. \/ t = s
        \/ /\ t = Append(s, w.sendChain) /\ c.secure # NoKey
           /\ v.sendChain.step = w.sendChain.step + 1
    <3>1. q.type = "ENCRYPT" => Quiet(q)
      BY Zenon DEF Quiet
    <3> QED
      BY <1>7, <1>8, <3>1, Zenon DEF Answered
  <2>4. t \in Seq(Chains) /\ Spent(p, y.c, v, t, owner)
    <3> DEFINE d == y.c
    <3>1. d.local = c.local /\ d.secure = c.secure
      BY <2>1, Zenon
    <3> HIDE DEF d
    <3>2. c.secure # NoKey =>
           /\ v.sendChain.step >= w.sendChain.step /\ v.sendChain.pair = w.sendChain.pair
           /\ w.sendChain.pair = {c.local, c.secure}
           /\ w.sendChain.label = Direction(c.local, c.secure)
           /\ c.local \in 1..Len(owner) /\ owner[c.local] = p
           /\ c.secure \in 1..Len(owner) /\ owner[c.secure] = Other(p)
      <4>1. c.secure # NoKey => c.local # NoKey
        BY <1>1, Zenon DEF Tasks, Phase
      <4> QED
        BY <1>7, <1>8, <1>9, <1>10, <4>1, Zenon
    <3>3. t \in Seq(Chains) /\ Spent(p, d, v, t, owner)
      BY <1>1, <1>71, <2>3, <3>1, <3>2, SpentKeeps, Zenon
    <3> QED
      BY <3>3, Zenon DEF d
  <2> QED
    <3>1. Grown(p, c.local, c.secure, owner, b)
      BY <1>9, <1>13, Zenon DEF Grown
    <3>2. Spent(p, y.c, v, t, b)
      BY <1>13, <2>4, Zenon
    <3>3. After(y, c, a, c.local, c.secure) /\ t \in Seq(Chains)
      BY <1>13, <2>4, Zenon
    <3> QED
      BY <1>17, <1>71, <2>2, <3>1, <3>2, <3>3, Settling, Zenon
\* A new identity: no key was ever derived from it.
<1>14. CASE q.type = "GENERATE"
  <2>1. Succeeds(w, q) /\ Starting(q) /\ t = s /\ b = Append(owner, p)
    BY <1>14, Zenon DEF Succeeds, Starting, Answered
  <2>2. After(y, c, a, n, c.secure) /\ c.secure = NoKey
    <3>1. y = resolved(x, q, n)
      BY <2>1, Zenon DEF Answered
    <3> QED
      BY <1>6, <1>8, <1>14, <2>1, <3>1, Zenon
  <2>3. y.c.local = n /\ y.c.secure = NoKey
    BY <2>2, Zenon DEF After
  <2>4. /\ \A i \in 1..Len(owner) : i \in 1..Len(b) /\ b[i] = owner[i]
        /\ n \in 1..Len(b) /\ b[n] = p
    <3> DEFINE z == Append(owner, p)
    <3>1. /\ \A i \in 1..Len(owner) : i \in 1..Len(z) /\ z[i] = owner[i]
          /\ Len(owner) + 1 \in 1..Len(z) /\ z[Len(owner) + 1] = p
      BY AppendPlaces
    <3> QED
      BY <1>5, <2>1, <3>1, Zenon
  <2>5. Agrees(y.c, a.inbox, v)
    BY <1>4, <1>7, <1>12, <1>14, <2>3, Zenon DEF Agrees
  <2>6. Spent(p, y.c, v, t, b)
    <3>1. ASSUME NEW i \in 1..Len(s)
          PROVE  /\ n \notin s[i].pair
                 /\ \E l, k \in 1..Len(b) :
                      /\ b[l] = p /\ b[k] = Other(p)
                      /\ s[i].pair = {l, k} /\ s[i].label = Direction(l, k)
      <4>1. PICK l \in 1..Len(owner), k \in 1..Len(owner) :
                   /\ owner[l] = p /\ owner[k] = Other(p)
                   /\ s[i].pair = {l, k} /\ s[i].label = Direction(l, k)
        BY <1>1, Zenon DEF Spent
      <4>2. n # l /\ n # k
        BY <1>5
      <4> QED
        BY <2>4, <4>1, <4>2, Zenon
    <3>2. \A i, j \in 1..Len(s) : s[i] = s[j] => i = j
      BY <1>1, Zenon DEF Spent
    <3>3. Spent(p, y.c, v, s, b)
      BY <2>3, <3>1, <3>2, Zenon DEF Spent
    <3> QED
      BY <2>1, <3>3, Zenon
  <2>7. NoKey = NoKey /\ t \in Seq(Chains)
    BY <1>1, <2>1, Zenon
  <2>8. PICK l : l = n
    BY Zenon
  <2>9. After(y, c, a, l, NoKey)
    BY <2>2, <2>8
  <2>10. Grown(p, l, NoKey, owner, b)
    BY <2>4, <2>8, Zenon DEF Grown
  <2> QED
    BY <1>17, <1>71, <2>5, <2>6, <2>7, <2>9, <2>10, Settling, Zenon
\* A session: with this identity no packet was sealed yet.
<1>15. CASE q.type = "ESTABLISH" /\ Succeeds(w, q)
  <2>1. CanEstablish(w, q.key) /\ Joining(q) /\ t = s /\ b = owner
    BY <1>15 DEF Succeeds, Joining, Answered
  <2>2. After(y, c, a, c.local, q.key)
    <3>1. y = resolved(x, q, n)
      BY <1>15, Zenon DEF Answered
    <3> QED
      BY <1>6, <1>15, <3>1, Zenon
  <2>3. y.c.local = c.local /\ y.c.secure = q.key
    BY <2>2, Zenon DEF After
  <2>4. c.local # NoKey /\ c.secure = NoKey /\ w.identity = c.local /\ v.identity = c.local
    BY <1>7, <1>8, <1>10, <1>15, <2>1, Zenon
  <2>5. Agrees(y.c, a.inbox, v)
    BY <1>4, <1>7, <1>12, <1>15, <2>1, <2>3, <2>4, Zenon DEF Agrees
  <2>6. Spent(p, y.c, v, t, b)
    <3>1. \A i \in 1..Len(s) : c.local \notin s[i].pair
      BY <1>1, <2>4, Zenon DEF Spent
    <3>2. c.local \in v.sendChain.pair
      BY <1>7, <1>15, <2>1, <2>4, Zenon
    <3>3. \A i \in 1..Len(s) : s[i].pair # v.sendChain.pair
      BY <3>1, <3>2, Zenon
    <3> QED
      BY <1>1, <2>1, <2>3, <2>4, <3>1, <3>3, ZenonT(60) DEF Spent
  <2>7. t \in Seq(Chains)
    BY <1>1, <2>1, Zenon
  <2> QED
    <3>1. Grown(p, c.local, q.key, owner, b)
      BY <1>9, <2>1, Zenon DEF Grown
    <3> QED
      BY <1>17, <1>71, <2>2, <2>5, <2>6, <2>7, <3>1, Settling, Zenon
<1>16. CASE q.type # "GENERATE" /\ ~(q.type = "ESTABLISH" /\ Succeeds(w, q))
  <2>1. b = owner
    BY <1>16, Zenon DEF Answered
  <2>2. After(y, c, a, c.local, c.secure)
    BY <1>6, <1>16, Zenon DEF Answered
  <2> QED
    BY <1>13, <2>1, <2>2, Zenon
<1> QED
  BY <1>14, <1>15, <1>16, Zenon

-----------------------------------------------------------------------------
(* The actions. *)

\* There are two clients: each is the other one's Other.
LEMMA TwoPeers ==
  ASSUME NEW p \in Peers
  PROVE  /\ Other(p) \in Peers /\ Other(p) # p
         /\ \A q \in Peers : q # p => q = Other(p)
<1>4. PICK z \in Peers : z # p /\ \A q \in Peers : q # p => q = z
  BY SecureSessionAssumption
<1>5. Other(p) = z
  BY <1>4, Zenon DEF Other
<1> QED
  BY <1>4, <1>5, Zenon

\* g is f with v at p: an update, or none.
Updates(g, f, p, v) == (g = f /\ v = f[p]) \/ g = [f EXCEPT ![p] = v]

\* f is the state of every client.
IsFamily(f) == f = [q \in Peers |-> f[q]]

\* What an update of the state of one client leaves.
LEMMA Updated ==
  ASSUME NEW p \in Peers, NEW f, IsFamily(f), NEW v, NEW g,
         Updates(g, f, p, v)
  PROVE  /\ DOMAIN g = Peers /\ IsFamily(g)
         /\ g[p] = v /\ \A q \in Peers : q # p => g[q] = f[q]
<1>1. CASE g = f /\ v = f[p]
  <2>1. DOMAIN f = Peers
    BY DEF IsFamily
  <2> QED
    BY <1>1, <2>1, Zenon
<1>2. CASE g = [f EXCEPT ![p] = v]
  <2>1. DOMAIN f = Peers
    BY DEF IsFamily
  <2>2. DOMAIN g = Peers /\ g[p] = v /\ \A q \in Peers : q # p => g[q] = f[q]
    BY <1>2, <2>1, Zenon
  <2>3. IsFamily(g)
    BY <1>2, <2>1, Zenon DEF IsFamily
  <2> QED
    BY <2>2, <2>3, Zenon
<1> QED
  BY <1>1, <1>2, Zenon DEF Updates

\* A step of one client keeps the invariant when it keeps that client's share of it:
\* the other client's share only learns of a new identity.
LEMMA OnePeer ==
  ASSUME IInv, NEW p \in Peers, NEW c, NEW r, NEW w, NEW s,
         Updates(ctl', ctl, p, c),
         Updates(rpc', rpc, p, r),
         Updates(worker', worker, p, w),
         Updates(sealed', sealed, p, s),
         owner' = owner \/ owner' = Append(owner, p),
         PeerInv(p, c, r, w, s, owner'), net' \subseteq Packets
  PROVE  IInv'
<1>1. IsFamily(ctl) /\ IsFamily(rpc) /\ IsFamily(worker) /\ IsFamily(sealed)
  BY Zenon DEF IInv, IsFamily
<1>2. /\ DOMAIN ctl' = Peers /\ IsFamily(ctl')
      /\ ctl'[p] = c /\ \A q \in Peers : q # p => ctl'[q] = ctl[q]
  BY <1>1, Updated
<1>3. /\ DOMAIN rpc' = Peers /\ IsFamily(rpc')
      /\ rpc'[p] = r /\ \A q \in Peers : q # p => rpc'[q] = rpc[q]
  BY <1>1, Updated
<1>4. /\ DOMAIN worker' = Peers /\ IsFamily(worker')
      /\ worker'[p] = w /\ \A q \in Peers : q # p => worker'[q] = worker[q]
  BY <1>1, Updated
<1>5. /\ DOMAIN sealed' = Peers /\ IsFamily(sealed')
      /\ sealed'[p] = s /\ \A q \in Peers : q # p => sealed'[q] = sealed[q]
  BY <1>1, Updated
<1>6. owner \in Seq(Peers) /\ owner' \in Seq(Peers)
  <2>1. owner \in Seq(Peers)
    BY Zenon DEF IInv
  <2>2. Append(owner, p) \in Seq(Peers)
    BY <2>1
  <2> QED
    BY <2>1, <2>2, Zenon
<1>7. ASSUME NEW q \in Peers
      PROVE  PeerInv(q, ctl'[q], rpc'[q], worker'[q], sealed'[q], owner')
  <2>1. CASE q = p
    BY <1>2, <1>3, <1>4, <1>5, <2>1, Zenon
  <2>2. CASE q # p
    <3>1. PeerInv(q, ctl[q], rpc[q], worker[q], sealed[q], owner)
      BY Zenon DEF IInv
    <3>2. PeerInv(q, ctl[q], rpc[q], worker[q], sealed[q], Append(owner, p))
      BY <1>6, <3>1, Growing, Zenon
    <3>3. PeerInv(q, ctl[q], rpc[q], worker[q], sealed[q], owner')
      BY <3>1, <3>2, Zenon
    <3>4. /\ ctl'[q] = ctl[q] /\ rpc'[q] = rpc[q]
          /\ worker'[q] = worker[q] /\ sealed'[q] = sealed[q]
      BY <1>2, <1>3, <1>4, <1>5, <2>2, Zenon
    <3> QED
      BY <3>3, <3>4, Zenon
  <2> QED
    BY <2>1, <2>2, Zenon
<1>8. \A q \in Peers : /\ ctl'[q] \in Controllers /\ rpc'[q] \in Clients
                       /\ sealed'[q] \in Seq(Chains)
  BY <1>7, Zenon DEF PeerInv
<1>9. /\ ctl' \in [Peers -> Controllers] /\ rpc' \in [Peers -> Clients]
      /\ sealed' \in [Peers -> Seq(Chains)]
  BY <1>2, <1>3, <1>5, <1>8, Zenon DEF IsFamily
<1> QED
  BY <1>4, <1>6, <1>7, <1>9, Zenon DEF IInv, IsFamily

\* Fresh: a controller between epochs, and its first request.
FreshCtl(c) ==
  [c EXCEPT !.epoch = @ + 1, !.local = NoKey, !.secure = NoKey, !.handler = "fresh"]

\* prepareFreshCryptoEpoch on one client.
LEMMA FreshKeeps ==
  ASSUME NEW p \in Peers, NEW c, NEW r, NEW w, NEW s, NEW o, PeerInv(p, c, r, w, s, o),
         c.handler = "idle", c.epoch + 1 \in 0..MaxEpochs, NEW y,
         y = serialRequest([c |-> FreshCtl(c), r |-> r],
                           Request("RESET", FreshCtl(c).epoch, NoKey))
  PROVE  PeerInv(p, y.c, y.r, w, s, o)
<1> DEFINE d == FreshCtl(c)
           x == [c |-> d, r |-> r]
           q == Request("RESET", d.epoch, NoKey)
<1>1. c \in Controllers /\ r \in Clients /\ Tasks(c, r.chain)
  BY Zenon DEF PeerInv
<1>2. /\ d \in Controllers /\ d.epoch = c.epoch + 1 /\ d.local = NoKey /\ d.secure = NoKey
      /\ d.handler = "fresh" /\ d.serial = c.serial
  <2>1. d \in Controllers
    BY <1>1, Zenon DEF FreshCtl, Controllers, NoKey, Handlers
  <2>2. d.epoch = c.epoch + 1 /\ d.local = NoKey /\ d.secure = NoKey
    BY <1>1 DEF FreshCtl, Controllers
  <2>3. d.handler = "fresh" /\ d.serial = c.serial
    BY <1>1, Zenon DEF FreshCtl, Controllers
  <2> QED
    BY <2>1, <2>2, <2>3, Zenon
<1> HIDE DEF d
<1>3. /\ q \in Requests /\ q.epoch = d.epoch /\ q.type = "RESET" /\ Starting(q)
      /\ ~Joining(q)
  <2>1. d.epoch \in 0..MaxEpochs
    BY <1>2, Zenon
  <2> QED
    BY <2>1, Zenon DEF Request, Requests, Starting, Joining, NoKey
<1>4. x \in Pairs /\ x.c = d /\ x.r = r
  BY <1>1, <1>2, Zenon DEF Pairs
<1>5. r.chain \in Seq(Requests)
  BY <1>1, Zenon DEF Clients
<1> HIDE DEF q, x
<1>6. Tasks(d, Append(r.chain, q))
  BY <1>1, <1>2, <1>3, <1>5, FreshBegins, Zenon
<1>7. y = serialRequest(x, q)
  BY DEF x, q, d
<1>8. /\ y \in Pairs /\ y.c = d /\ y.r.chain = Append(r.chain, q)
      /\ y.r.inbox = IF r.chain = <<>> THEN Append(r.inbox, q) ELSE r.inbox
  <2>1. /\ y \in Pairs /\ y.c = x.c /\ y.r.chain = Append(x.r.chain, q)
        /\ y.r.inbox = IF x.r.chain = <<>> THEN Append(x.r.inbox, q) ELSE x.r.inbox
    <3> DEFINE z == serialRequest(x, q)
    <3>1. /\ z \in Pairs /\ z.c = x.c /\ z.r.chain = Append(x.r.chain, q)
          /\ z.r.inbox = IF x.r.chain = <<>> THEN Append(x.r.inbox, q) ELSE x.r.inbox
      BY <1>3, <1>4, SerialRequest, Zenon
    <3> HIDE DEF z
    <3>2. y = z
      BY <1>7, Zenon DEF z
    <3> QED
      BY <3>1, <3>2, Zenon
  <2> QED
    BY <1>4, <2>1, Zenon
<1>9. y.r \in Clients /\ Tasks(d, y.r.chain)
  BY <1>6, <1>8, Zenon DEF Pairs
<1>11. Posted(y.r, r, q) /\ Allowed(p, c, d, q, o)
  BY <1>2, <1>3, <1>8, Zenon DEF Posted, Allowed
<1>10. PeerInv(p, d, y.r, w, s, o)
  BY <1>2, <1>3, <1>9, <1>11, Asking, Zenon
<1> QED
  BY <1>8, <1>10, Zenon

\* The inbound task of a controller begins.
LEMMA HandlerFields ==
  ASSUME NEW c \in Controllers, NEW h \in Handlers, NEW k, k = [c EXCEPT !.handler = h]
  PROVE  /\ k \in Controllers /\ k.epoch = c.epoch /\ k.local = c.local
         /\ k.secure = c.secure /\ k.handler = h /\ k.serial = c.serial
<1>1. k \in Controllers
  BY Zenon DEF Controllers
<1>2. k.epoch = c.epoch /\ k.local = c.local /\ k.secure = c.secure
  BY DEF Controllers
<1>3. k.handler = h /\ k.serial = c.serial
  BY DEF Controllers
<1> QED
  BY <1>1, <1>2, <1>3, Zenon

\* A task of runCrypto: what its client asks the worker.
LEMMA TaskKeeps ==
  ASSUME NEW p \in Peers, NEW c, NEW r, NEW w, NEW s, NEW o, PeerInv(p, c, r, w, s, o),
         NEW q \in Requests, q.epoch = c.epoch, NEW x, NEW h, NEW k \in Controllers,
         k.epoch = c.epoch, k.local = c.local, k.secure = c.secure, k.handler = h,
         k.serial = c.serial, x = [c |-> k, r |-> r], NEW y, y = runCrypto(x, q),
         \/ /\ c.handler = "idle" /\ c.local # NoKey /\ c.secure = NoKey /\ h = "handshake"
            /\ Joining(q) /\ q.type \notin {"RESET", "GENERATE"}
            /\ q.key \in 1..Len(o) /\ o[q.key] = Other(p)
         \/ c.secure # NoKey /\ c.handler = "idle" /\ h = "decrypt" /\ Opening(q)
         \/ c.secure # NoKey /\ h = c.handler /\ q.type = "ENCRYPT"
  PROVE  PeerInv(p, y.c, y.r, w, s, o)
<1>1. c \in Controllers /\ r \in Clients /\ Tasks(c, r.chain)
  BY Zenon DEF PeerInv
<1>3. x \in Pairs /\ x.c = k /\ x.r = r
  BY <1>1, Zenon DEF Pairs
<1>4. r.chain \in Seq(Requests)
  BY <1>1, Zenon DEF Clients
<1>5. /\ y \in Pairs /\ y.c.epoch = x.c.epoch /\ y.c.local = x.c.local
      /\ y.c.secure = x.c.secure /\ y.c.handler = x.c.handler
      /\ Grows(y.c.serial, x.c.serial, q.epoch, q)
      /\ IF x.c.serial[q.epoch] = <<>>
         THEN /\ y.r.chain = Append(x.r.chain, q)
              /\ y.r.inbox = IF x.r.chain = <<>> THEN Append(x.r.inbox, q) ELSE x.r.inbox
         ELSE y.r = x.r
  BY <1>3, RunCryptoFields, Zenon
<1>6. /\ y.c.epoch = c.epoch /\ y.c.local = c.local
      /\ y.c.secure = c.secure /\ y.c.handler = h
      /\ Grows(y.c.serial, c.serial, c.epoch, q)
      /\ c.serial[c.epoch] = <<>> =>
           /\ y.r.chain = Append(r.chain, q)
           /\ y.r.inbox = IF r.chain = <<>> THEN Append(r.inbox, q) ELSE r.inbox
      /\ c.serial[c.epoch] # <<>> => y.r.chain = r.chain /\ y.r.inbox = r.inbox
  BY <1>3, <1>5, Zenon
<1>7. y.c \in Controllers /\ y.r \in Clients
  BY <1>5, Zenon DEF Pairs
<1>8. CASE Joining(q) /\ c.secure = NoKey
  <2>1. ~Quiet(q) /\ ~Opening(q)
    BY <1>8, Zenon DEF Joining, Quiet, Opening
  <2>2. /\ c.handler = "idle" /\ c.local # NoKey /\ c.secure = NoKey /\ h = "handshake"
        /\ q.type \notin {"RESET", "GENERATE"}
        /\ q.key \in 1..Len(o) /\ o[q.key] = Other(p)
    BY <1>8, <2>1, Zenon
  <2>3. c.serial[c.epoch] = <<>> /\ Tasks(y.c, Append(r.chain, q))
    BY <1>1, <1>4, <1>6, <1>7, <1>8, <2>2, HandshakeBegins, Zenon
  <2>4. Tasks(y.c, y.r.chain)
    BY <1>6, <2>3, Zenon
  <2> QED
    <3>1. Posted(y.r, r, q) /\ Allowed(p, c, y.c, q, o)
      BY <1>6, <2>2, <2>3, Zenon DEF Posted, Allowed
    <3> QED
      BY <1>7, <2>4, <3>1, Asking, Zenon
<1>9. CASE c.secure # NoKey
  <2>1. Quiet(q) /\ ~Joining(q) /\ q.type \notin {"RESET", "GENERATE"}
    BY <1>9, Zenon DEF Joining, Quiet, Opening
  <2>2. \/ Opening(q) /\ c.handler = "idle" /\ y.c.handler = "decrypt"
        \/ ~Opening(q) /\ y.c.handler = c.handler
    BY <1>6, <1>9, Zenon DEF Opening
  <2>3. Tasks(y.c, IF c.serial[c.epoch] = <<>> THEN Append(r.chain, q) ELSE r.chain)
    BY <1>1, <1>4, <1>6, <1>7, <1>9, <2>1, <2>2, QuietBegins, Zenon
  <2>4. Tasks(y.c, y.r.chain)
    BY <1>6, <2>3, Zenon
  <2> QED
    <3>1. Posted(y.r, r, q) /\ Allowed(p, c, y.c, q, o)
      BY <1>6, <2>1, Zenon DEF Posted, Allowed
    <3> QED
      BY <1>7, <2>4, <3>1, Asking, Zenon
<1> QED
  BY <1>8, <1>9, Zenon

\* A step that only asks the worker for something.
LEMMA PutKeeps ==
  ASSUME IInv, NEW p \in Peers, NEW y, Put(p, y),
         PeerInv(p, y.c, y.r, worker[p], sealed[p], owner), net' \subseteq net,
         UNCHANGED <<worker, owner, sealed>>
  PROVE  IInv'
<1>1. /\ Updates(ctl', ctl, p, y.c) /\ Updates(rpc', rpc, p, y.r)
      /\ Updates(worker', worker, p, worker[p]) /\ Updates(sealed', sealed, p, sealed[p])
  BY Zenon DEF Put, Updates
<1>2. owner' = owner /\ net' \subseteq Packets
  BY DEF IInv
<1>3. PeerInv(p, y.c, y.r, worker[p], sealed[p], owner')
  BY <1>2, Zenon
<1> QED
  BY <1>1, <1>2, <1>3, OnePeer, Zenon

\* The requests of the controller.
LEMMA RequestKinds ==
  ASSUME NEW e \in 0..MaxEpochs
  PROVE  /\ \A k \in Nat : k # NoKey =>
              LET q == Request("CONFIGURE", e, k)
              IN q \in Requests /\ q.epoch = e /\ q.type = "CONFIGURE" /\ q.key = k /\ Joining(q)
         /\ LET q == Request("ENCRYPT", e, NoKey)
            IN q \in Requests /\ q.epoch = e /\ q.type = "ENCRYPT"
         /\ \A pk \in Packets :
              LET q == [type |-> "DECRYPT", epoch |-> e, packet |-> pk]
              IN q \in Requests /\ q.epoch = e /\ Opening(q)
  BY DEF Request, Requests, Joining, Opening, NoKey

\* What the invariant says of one client.
LEMMA PeerFacts ==
  ASSUME IInv, NEW p \in Peers
  PROVE  /\ PeerInv(p, ctl[p], rpc[p], worker[p], sealed[p], owner)
         /\ ctl[p] \in Controllers /\ rpc[p] \in Clients /\ ctl[p].epoch \in 0..MaxEpochs
         /\ owner \in Seq(Peers) /\ net \subseteq Packets /\ MaxEpochs \in Nat
<1>1. ctl[p] \in Controllers /\ rpc[p] \in Clients /\ owner \in Seq(Peers) /\ net \subseteq Packets
  BY Zenon DEF IInv
<1>2. ctl[p].epoch \in 0..MaxEpochs /\ MaxEpochs \in Nat
  BY <1>1, SecureSessionAssumption, Zenon DEF Controllers
<1>3. PeerInv(p, ctl[p], rpc[p], worker[p], sealed[p], owner)
  BY Zenon DEF IInv
<1> QED
  BY <1>1, <1>2, <1>3, Zenon

\* A new epoch.
LEMMA FreshStep ==
  ASSUME IInv, NEW p \in Peers, Fresh(p)
  PROVE  IInv'
<1>1. /\ PeerInv(p, ctl[p], rpc[p], worker[p], sealed[p], owner)
      /\ ctl[p].epoch \in 0..MaxEpochs /\ MaxEpochs \in Nat
  BY PeerFacts, Zenon
<1>2. ctl[Other(p)].epoch \in 0..MaxEpochs
  BY PeerFacts, TwoPeers, Zenon
<1>3. ctl[p].handler = "idle" /\ ctl[p].epoch + 1 \in 0..MaxEpochs
  <2>1. ctl[p].handler = "idle" /\ ctl[p].epoch + ctl[Other(p)].epoch < MaxEpochs
    BY Zenon DEF Fresh
  <2> QED
    BY <1>1, <1>2, <2>1
<1> DEFINE y == serialRequest([c |-> FreshCtl(ctl[p]), r |-> rpc[p]],
                              Request("RESET", FreshCtl(ctl[p]).epoch, NoKey))
<1>4. PeerInv(p, y.c, y.r, worker[p], sealed[p], owner)
  BY <1>1, <1>3, FreshKeeps, Zenon
<1>5. Put(p, y) /\ UNCHANGED <<worker, owner, sealed>> /\ net' \subseteq net
  BY DEF Fresh, FreshCtl
<1> HIDE DEF y
<1> QED
  BY <1>4, <1>5, PutKeeps, Zenon

\* The request for a session with a key.
LEMMA JoinRequest ==
  ASSUME NEW e \in 0..MaxEpochs, NEW k \in Nat, k # NoKey
  PROVE  LET q == Request("CONFIGURE", e, k)
         IN /\ q \in Requests /\ q.epoch = e /\ Joining(q)
            /\ q.type \notin {"RESET", "GENERATE"} /\ q.key = k
  BY RequestKinds

\* An identity that was made is a key.
LEMMA OwnedKey ==
  ASSUME NEW S, NEW o \in Seq(S), NEW k \in DOMAIN o
  PROVE  k \in 1..Len(o) /\ k \in Nat /\ k # NoKey
  BY DEF NoKey

\* A handshake of the other client.
LEMMA HandshakeStep ==
  ASSUME IInv, NEW p \in Peers, NEW k \in DOMAIN owner, HandshakeArrives(p, k)
  PROVE  IInv'
<1> DEFINE h == "handshake"
           d == [ctl[p] EXCEPT !.handler = h]
           x == [c |-> d, r |-> rpc[p]]
           q == Request("CONFIGURE", ctl[p].epoch, k)
           y == runCrypto(x, q)
<1>1. /\ PeerInv(p, ctl[p], rpc[p], worker[p], sealed[p], owner)
      /\ ctl[p].epoch \in 0..MaxEpochs /\ owner \in Seq(Peers) /\ ctl[p] \in Controllers
  BY PeerFacts, Zenon
<1>2. k \in 1..Len(owner) /\ k \in Nat /\ k # NoKey
  BY <1>1, OwnedKey, Zenon
<1>3. /\ q \in Requests /\ q.epoch = ctl[p].epoch /\ Joining(q)
      /\ q.type \notin {"RESET", "GENERATE"} /\ q.key = k
  BY <1>1, <1>2, JoinRequest, Zenon
<1>4. /\ ctl[p].handler = "idle" /\ ctl[p].local # NoKey /\ ctl[p].secure = NoKey
      /\ owner[k] = Other(p) /\ h \in Handlers
  BY DEF HandshakeArrives, Handlers
<1>5. Put(p, y) /\ UNCHANGED <<worker, owner, sealed>> /\ net' \subseteq net
  <2>1. [At(p) EXCEPT !.c.handler = "handshake"] = x
    BY DEF At
  <2> QED
    BY <2>1 DEF HandshakeArrives
<1>7. /\ d \in Controllers /\ d.epoch = ctl[p].epoch /\ d.local = ctl[p].local
      /\ d.secure = ctl[p].secure /\ d.handler = h /\ d.serial = ctl[p].serial
  BY <1>1, <1>4, HandlerFields
<1> HIDE DEF q, d
<1>6. PeerInv(p, y.c, y.r, worker[p], sealed[p], owner)
  BY <1>1, <1>2, <1>3, <1>4, <1>7, TaskKeeps, Zenon
<1> HIDE DEF y
<1> QED
  BY <1>5, <1>6, PutKeeps, Zenon

\* A message to send.
LEMMA SendStep ==
  ASSUME IInv, NEW p \in Peers, SendRawApp(p)
  PROVE  IInv'
<1> DEFINE q == Request("ENCRYPT", ctl[p].epoch, NoKey)
           x == [c |-> ctl[p], r |-> rpc[p]]
           y == runCrypto(x, q)
<1>1. /\ PeerInv(p, ctl[p], rpc[p], worker[p], sealed[p], owner)
      /\ ctl[p].epoch \in 0..MaxEpochs /\ ctl[p] \in Controllers
  BY PeerFacts, Zenon
<1>2. q \in Requests /\ q.epoch = ctl[p].epoch /\ q.type = "ENCRYPT"
  BY <1>1, RequestKinds, Zenon
<1>3. ctl[p].secure # NoKey /\ Put(p, y) /\ UNCHANGED <<worker, owner, sealed>> /\ net' \subseteq net
  BY Zenon DEF SendRawApp, At
<1> HIDE DEF q
<1>4. PeerInv(p, y.c, y.r, worker[p], sealed[p], owner)
  BY <1>1, <1>2, <1>3, TaskKeeps, Zenon
<1> HIDE DEF y
<1> QED
  BY <1>3, <1>4, PutKeeps, Zenon

\* A packet that arrives.
LEMMA EnvelopeStep ==
  ASSUME IInv, NEW p \in Peers, NEW pk \in net, OnEnvelope(p, pk)
  PROVE  IInv'
<1>1. /\ PeerInv(p, ctl[p], rpc[p], worker[p], sealed[p], owner)
      /\ ctl[p].epoch \in 0..MaxEpochs /\ ctl[p] \in Controllers /\ net \subseteq Packets
  BY PeerFacts, Zenon
<1>2. /\ ctl[p].handler = "idle" /\ UNCHANGED <<worker, owner, sealed>> /\ net' \subseteq net
  BY Zenon DEF OnEnvelope
<1>3. CASE ctl[p].secure = NoKey
  <2>1. UNCHANGED <<ctl, rpc>>
    BY <1>3, Zenon DEF OnEnvelope
  <2>2. /\ Updates(ctl', ctl, p, ctl[p]) /\ Updates(rpc', rpc, p, rpc[p])
        /\ Updates(worker', worker, p, worker[p]) /\ Updates(sealed', sealed, p, sealed[p])
    BY <1>2, <2>1 DEF Updates
  <2>3. owner' = owner /\ net' \subseteq Packets
    BY <1>1, <1>2, Zenon
  <2>4. PeerInv(p, ctl[p], rpc[p], worker[p], sealed[p], owner')
    BY <1>1, <2>3, Zenon
  <2> QED
    BY <2>2, <2>3, <2>4, OnePeer, Zenon
<1>4. CASE ctl[p].secure # NoKey
  <2> DEFINE h == "decrypt"
             d == [ctl[p] EXCEPT !.handler = h]
             x == [c |-> d, r |-> rpc[p]]
             q == [type |-> "DECRYPT", epoch |-> ctl[p].epoch, packet |-> pk]
             y == runCrypto(x, q)
  <2>1. q \in Requests /\ q.epoch = ctl[p].epoch /\ Opening(q)
    BY <1>1, RequestKinds, Zenon
  <2>2. Put(p, y)
    <3>1. [At(p) EXCEPT !.c.handler = "decrypt"] = x
      BY DEF At
    <3> QED
      BY <1>4, <3>1 DEF OnEnvelope
  <2>3. h \in Handlers
    BY DEF Handlers
  <2>4. /\ d \in Controllers /\ d.epoch = ctl[p].epoch /\ d.local = ctl[p].local
        /\ d.secure = ctl[p].secure /\ d.handler = h /\ d.serial = ctl[p].serial
    BY <1>1, <2>3, HandlerFields
  <2> HIDE DEF q, d
  <2>5. PeerInv(p, y.c, y.r, worker[p], sealed[p], owner)
    BY <1>1, <1>2, <1>4, <2>1, <2>4, TaskKeeps, Zenon
  <2> HIDE DEF y
  <2> QED
    BY <1>2, <2>2, <2>5, PutKeeps, Zenon
<1> QED
  BY <1>3, <1>4, Zenon

\* A client of which only whether its worker is ready is another.
LEMMA ReadyStep ==
  ASSUME IInv, NEW p \in Peers, WorkerReady(p)
  PROVE  IInv'
<1> DEFINE r == [rpc[p] EXCEPT !.ready = TRUE]
<1>1. PeerInv(p, ctl[p], rpc[p], worker[p], sealed[p], owner) /\ rpc[p] \in Clients
      /\ net \subseteq Packets
  BY PeerFacts, Zenon
<1>2. r \in Clients /\ r.chain = rpc[p].chain /\ r.inbox = rpc[p].inbox
  BY <1>1, Zenon DEF Clients
<1>3. /\ Updates(ctl', ctl, p, ctl[p]) /\ Updates(rpc', rpc, p, r)
      /\ Updates(worker', worker, p, worker[p]) /\ Updates(sealed', sealed, p, sealed[p])
      /\ owner' = owner /\ net' = net
  BY DEF Updates, WorkerReady
<1> HIDE DEF r
<1>4. PeerInv(p, ctl[p], r, worker[p], sealed[p], owner)
  BY <1>1, <1>2, Zenon DEF PeerInv
<1>5. PeerInv(p, ctl[p], r, worker[p], sealed[p], owner') /\ net' \subseteq Packets
  BY <1>1, <1>3, <1>4, Zenon
<1> QED
  BY <1>3, <1>5, OnePeer, Zenon

\* A request that times out.
LEMMA TimeoutStep ==
  ASSUME IInv, NEW p \in Peers, Timeout(p)
  PROVE  IInv'
<1> DEFINE a == IF rpc[p].ready THEN rpc[p] ELSE [rpc[p] EXCEPT !.inbox = <<>>]
           y == rejected([c |-> ctl[p], r |-> Settled(a)], Head(rpc[p].chain))
<1>1. PeerInv(p, ctl[p], rpc[p], worker[p], sealed[p], owner) /\ rpc[p] \in Clients
  BY PeerFacts, Zenon
<1>2. a \in Clients /\ a.chain = rpc[p].chain /\ a.inbox \in {rpc[p].inbox, <<>>}
  <2>1. CASE rpc[p].ready
    BY <1>1, <2>1
  <2>2. CASE ~rpc[p].ready
    <3>1. a = Taken(rpc[p], <<>>) /\ <<>> \in Seq(Requests)
      BY <2>2 DEF Taken
    <3> HIDE DEF a
    <3> QED
      BY <1>1, <3>1, TakenFields, Zenon
  <2> QED
    BY <2>1, <2>2
<1>3. /\ rpc[p].chain # <<>> /\ Put(p, y)
      /\ UNCHANGED <<worker, owner, sealed>> /\ net' \subseteq net
  BY DEF Timeout
<1> HIDE DEF a
<1>4. PeerInv(p, y.c, y.r, worker[p], sealed[p], owner)
  BY <1>1, <1>2, <1>3, TimeoutKeeps, Zenon
<1> HIDE DEF y
<1> QED
  BY <1>3, <1>4, PutKeeps, Zenon

\* The packet that is transmitted.
LEMMA TransmitFacts ==
  ASSUME IInv, NEW p \in Peers, NEW q, Transmit(p, q)
  PROVE  /\ net' \subseteq Packets
         /\ ~Awaited(rpc[p]) => sealed' = sealed
         /\ Awaited(rpc[p]) =>
              Updates(sealed', sealed, p,
                      IF q.type = "ENCRYPT" /\ Established(worker[p]) /\ q.epoch = ctl[p].epoch
                      THEN Append(sealed[p], worker[p].sendChain) ELSE sealed[p])
<1>1. PeerInv(p, ctl[p], rpc[p], worker[p], sealed[p], owner) /\ net \subseteq Packets
  BY PeerFacts, Zenon
<1>2. worker[p].sendChain \in Chains /\ worker[p].outbound + 1 \in Nat
  <2>1. IsWorker(worker[p])
    BY <1>1, Zenon DEF PeerInv
  <2> QED
    BY <2>1 DEF IsWorker
<1>3. [to |-> Other(p), key |-> worker[p].sendChain, counter |-> worker[p].outbound + 1]
        \in Packets
  BY <1>2, TwoPeers, Zenon DEF Packets
<1>4. /\ Sealed(worker[p]).key = worker[p].sendChain
      /\ Sealed(worker[p]).counter = worker[p].outbound + 1
  BY DEF Sealed
<1>5. CASE /\ q.type = "ENCRYPT" /\ Awaited(rpc[p]) /\ Established(worker[p])
           /\ q.epoch = ctl[p].epoch
  <2>1. /\ net' = net \cup {[to |-> Other(p), key |-> worker[p].sendChain,
                             counter |-> worker[p].outbound + 1]}
        /\ sealed' = [sealed EXCEPT ![p] = Append(sealed[p], worker[p].sendChain)]
    BY <1>4, <1>5, Zenon DEF Transmit
  <2> QED
    BY <1>1, <1>3, <1>5, <2>1, Zenon DEF Updates
<1>6. CASE ~(/\ q.type = "ENCRYPT" /\ Awaited(rpc[p]) /\ Established(worker[p])
             /\ q.epoch = ctl[p].epoch)
  <2>1. net' = net /\ sealed' = sealed
    BY <1>6, Zenon DEF Transmit
  <2> QED
    BY <1>1, <1>6, <2>1, Zenon DEF Updates
<1> QED
  BY <1>5, <1>6

\* The worker handles a request.
LEMMA HandleStep ==
  ASSUME IInv, NEW p \in Peers, Handle(p)
  PROVE  IInv'
<1> DEFINE q == Head(rpc[p].inbox)
           a == Taken(rpc[p], Tail(rpc[p].inbox))
           x == [c |-> ctl[p], r |-> Settled(a)]
           v == handle(worker[p], q)
<1>1. /\ PeerInv(p, ctl[p], rpc[p], worker[p], sealed[p], owner) /\ rpc[p] \in Clients
      /\ owner \in Seq(Peers)
  BY PeerFacts, Zenon
<1>2. /\ rpc[p].inbox # <<>> /\ worker' = [worker EXCEPT ![p] = v]
      /\ owner' = (IF q.type = "GENERATE" THEN Append(owner, p) ELSE owner)
      /\ Transmit(p, q)
  BY DEF Handle
<1>3. /\ ~Awaited(rpc[p]) => Put(p, [c |-> ctl[p], r |-> a])
      /\ Awaited(rpc[p]) /\ Succeeds(worker[p], q) => Put(p, resolved(x, q, Len(owner) + 1))
      /\ Awaited(rpc[p]) /\ ~Succeeds(worker[p], q) => Put(p, rejected(x, q))
  BY Zenon DEF Handle, Taken
<1>4. rpc[p].inbox \in Seq(Requests) /\ q = rpc[p].inbox[1]
  <2>1. rpc[p].inbox \in Seq(Requests)
    BY <1>1, Zenon DEF Clients
  <2> QED
    BY <1>2, <2>1, TailFacts, Zenon
<1>5. owner' = owner \/ owner' = Append(owner, p)
  BY <1>2, Zenon
<1>6. Updates(worker', worker, p, v)
  BY <1>2, Zenon DEF Updates
<1> HIDE DEF q
<1>7. /\ net' \subseteq Packets
      /\ ~Awaited(rpc[p]) => sealed' = sealed
      /\ Awaited(rpc[p]) =>
           Updates(sealed', sealed, p,
                   IF q.type = "ENCRYPT" /\ Established(worker[p]) /\ q.epoch = ctl[p].epoch
                   THEN Append(sealed[p], worker[p].sendChain) ELSE sealed[p])
  BY <1>2, TransmitFacts
<1>8. CASE ~Awaited(rpc[p])
  <2>1. PeerInv(p, ctl[p], a, v, sealed[p], owner)
    BY <1>1, <1>2, <1>4, <1>8, LateKeeps, Zenon
  <2> HIDE DEF v, a
  <2>2. PeerInv(p, ctl[p], a, v, sealed[p], Append(owner, p))
    BY <1>1, <2>1, Growing, Zenon
  <2>3. PeerInv(p, ctl[p], a, v, sealed[p], owner')
    BY <1>5, <2>1, <2>2, Zenon
  <2>4. Updates(ctl', ctl, p, ctl[p]) /\ Updates(rpc', rpc, p, a)
        /\ Updates(sealed', sealed, p, sealed[p])
    BY <1>3, <1>7, <1>8, Zenon DEF Put, Updates
  <2> QED
    BY <1>5, <1>6, <1>7, <2>3, <2>4, OnePeer, Zenon
<1>9. CASE Awaited(rpc[p])
  <2> DEFINE y == IF Succeeds(worker[p], q) THEN resolved(x, q, Len(owner) + 1)
                  ELSE rejected(x, q)
             t == IF q.type = "ENCRYPT" /\ Established(worker[p]) /\ q.epoch = ctl[p].epoch
                  THEN Append(sealed[p], worker[p].sendChain) ELSE sealed[p]
  <2>1. a = Taken(rpc[p], <<>>)
    <3>1. Len(rpc[p].inbox) = 1
      BY <1>9 DEF Awaited
    <3>2. Tail(rpc[p].inbox) = <<>>
      BY <1>2, <1>4, <3>1, TailFacts, Zenon
    <3> QED
      BY <3>2, Zenon
  <2> HIDE DEF a
  <2>2. Answered(p, ctl[p], rpc[p], worker[p], sealed[p], q, a, y, owner', t)
    BY <1>2, <1>4, <2>1, Zenon DEF Answered
  <2>3. Put(p, y)
    BY <1>3, <1>9, Zenon
  <2>4. Updates(ctl', ctl, p, y.c) /\ Updates(rpc', rpc, p, y.r)
    BY <2>3, Zenon DEF Put, Updates
  <2>5. Updates(sealed', sealed, p, t)
    BY <1>7, <1>9, Zenon
  <2> HIDE DEF y, t
  <2>6. PeerInv(p, y.c, y.r, v, t, owner')
    BY <1>1, <1>9, <2>2, AnswerKeeps, Zenon
  <2> HIDE DEF v
  <2> QED
    BY <1>5, <1>6, <1>7, <2>4, <2>5, <2>6, OnePeer, Zenon
<1> QED
  BY <1>8, <1>9, Zenon

\* The invariant holds when the two clients start.
LEMMA SessionInit ==
  ASSUME Init
  PROVE  IInv
<1>1. 0 \in 0..MaxEpochs /\ MaxEpochs \in Nat
  BY SecureSessionAssumption
<1>2. \A T : <<>> \in Seq(T) /\ Len(<<>>) = 0
  OBVIOUS
<1>3. NewController \in Controllers /\ NewClient \in Clients /\ IsWorker(NewWorker)
  <2>1. NewController \in Controllers
    BY <1>1, <1>2, Zenon DEF NewController, Controllers, NoKey, Handlers
  <2>2. NewClient \in Clients
    BY <1>2, Zenon DEF NewClient, Clients
  <2>3. IsWorker(NewWorker)
    BY Zenon DEF NewWorker, IsWorker, NoChain, Chains, Labels, NoKey
  <2> QED
    BY <2>1, <2>2, <2>3, Zenon
<1>4. /\ NewController.epoch = 0 /\ NewController.local = NoKey
      /\ NewController.secure = NoKey /\ NewController.handler = "idle"
      /\ \A e \in 0..MaxEpochs : NewController.serial[e] = <<>>
      /\ NewClient.chain = <<>> /\ NewClient.inbox = <<>>
  BY DEF NewController, NewClient
<1>5. \A i \in 1..Len(<<>>) : FALSE
  OBVIOUS
<1>6. Tasks(NewController, NewClient.chain)
  <2>1. Phase(NewController)
    BY <1>4, Zenon DEF Phase
  <2>2. Queued(NewController)
    BY <1>1, <1>4, <1>5, Zenon DEF Queued
  <2>3. Chained(NewController, NewClient.chain)
    BY <1>4, <1>5, Zenon DEF Chained
  <2> QED
    BY <2>1, <2>2, <2>3, Zenon DEF Tasks
<1>7. ASSUME NEW p \in Peers
      PROVE  PeerInv(p, NewController, NewClient, NewWorker, <<>>, <<>>)
  <2>1. Pending(NewClient.chain, NewClient.inbox)
    BY <1>4, Zenon DEF Pending
  <2>2. Agrees(NewController, NewClient.inbox, NewWorker)
    BY <1>4, Zenon DEF Agrees
  <2>3. Named(p, NewController, NewClient.chain, <<>>)
    BY <1>4, <1>5, Zenon DEF Named
  <2>4. Spent(p, NewController, NewWorker, <<>>, <<>>)
    BY <1>4, <1>5, Zenon DEF Spent
  <2> QED
    BY <1>2, <1>3, <1>6, <2>1, <2>2, <2>3, <2>4, Zenon DEF PeerInv
<1>8. \A p \in Peers : /\ ctl[p] = NewController /\ rpc[p] = NewClient
                       /\ worker[p] = NewWorker /\ sealed[p] = <<>>
  BY Zenon DEF Init
<1>9. \A p \in Peers : PeerInv(p, ctl[p], rpc[p], worker[p], sealed[p], owner)
  <2>1. owner = <<>>
    BY Zenon DEF Init
  <2> QED
    BY <1>7, <1>8, <2>1, Zenon
<1>10. /\ ctl \in [Peers -> Controllers] /\ rpc \in [Peers -> Clients]
       /\ sealed \in [Peers -> Seq(Chains)] /\ net \in SUBSET Packets /\ owner \in Seq(Peers)
  BY <1>2, <1>3, Zenon DEF Init
<1>11. DOMAIN worker = Peers /\ worker = [p \in Peers |-> worker[p]]
  BY DEF Init
<1> QED
  BY <1>9, <1>10, <1>11, Zenon DEF IInv

\* Every step of either client keeps the invariant.
LEMMA SessionStep ==
  ASSUME IInv, [Next]_vars
  PROVE  IInv'
<1>1. CASE Next
  <2>1. PICK p \in Peers :
          \/ Fresh(p) \/ SendRawApp(p) \/ WorkerReady(p) \/ Handle(p) \/ Timeout(p)
          \/ \E k \in DOMAIN owner : HandshakeArrives(p, k)
          \/ \E pk \in net : OnEnvelope(p, pk)
    BY <1>1, Zenon DEF Next
  <2>2. ASSUME NEW k \in DOMAIN owner, HandshakeArrives(p, k)
        PROVE  IInv'
    BY <2>2, HandshakeStep, Zenon
  <2>3. ASSUME NEW pk \in net, OnEnvelope(p, pk)
        PROVE  IInv'
    BY <2>3, EnvelopeStep, Zenon
  <2>4. Fresh(p) \/ SendRawApp(p) \/ WorkerReady(p) \/ Handle(p) \/ Timeout(p) => IInv'
    BY FreshStep, SendStep, ReadyStep, HandleStep, TimeoutStep, Zenon
  <2> QED
    BY <2>1, <2>2, <2>3, <2>4, Zenon
<1>2. CASE UNCHANGED vars
  BY <1>2 DEF vars, IInv
<1> QED
  BY <1>1, <1>2, Zenon

-----------------------------------------------------------------------------
(* The theorems. *)

\* Whatever times out, is delayed or is lost, cryptoSerial, the requests of the
\* CryptoClient and the worker of a client fit together: no request is left over
\* that would replace the identity or the session its controller relies on.
THEOREM SessionInvariance == Spec => []IInv
<1>1. Init => IInv
  BY SessionInit
<1>2. IInv /\ [Next]_vars => IInv'
  BY SessionStep
<1> QED
  BY <1>1, <1>2, PTL DEF Spec

\* this.secure of SessionController is set only while the crypto worker holds the
\* session of the two keys it stands for, for any number of epochs, messages and
\* timeouts.
THEOREM SecureMeansEncrypted == Spec => []SecureIsReal
<1>1. IInv => SecureIsReal
  <2> SUFFICES ASSUME IInv, NEW p \in Peers, ctl[p].secure # NoKey
               PROVE  /\ worker[p].identity = ctl[p].local
                      /\ worker[p].sendChain.pair = {ctl[p].local, ctl[p].secure}
    BY Zenon DEF SecureIsReal
  <2>1. PeerInv(p, ctl[p], rpc[p], worker[p], sealed[p], owner)
    BY PeerFacts, Zenon
  <2>2. Agrees(ctl[p], rpc[p].inbox, worker[p]) /\ Phase(ctl[p])
    BY <2>1, Zenon DEF PeerInv, Tasks
  <2> QED
    BY <2>2, Zenon DEF Agrees, Phase
<1> QED
  BY <1>1, SessionInvariance, PTL

\* What one step of either client seals.
SealsInSession(p) ==
  sealed'[p] # sealed[p] =>
    /\ ctl[p].secure # NoKey
    /\ sealed'[p][Len(sealed'[p])].pair = {ctl[p].local, ctl[p].secure}

\* An encryption that is answered in its own epoch belongs to the session: cryptoSerial
\* has no such task before the channel is secure.
LEMMA AnsweredInSession ==
  ASSUME NEW p \in Peers, NEW c, NEW r, NEW w, NEW s, NEW q,
         PeerInv(p, c, r, w, s, owner), Awaited(r), q = r.inbox[1],
         q.type = "ENCRYPT", q.epoch = c.epoch
  PROVE  c.secure # NoKey /\ w.sendChain.pair = {c.local, c.secure}
<1>1. Tasks(c, r.chain) /\ Pending(r.chain, r.inbox) /\ Agrees(c, r.inbox, w) /\ r \in Clients
  BY Zenon DEF PeerInv
<1>2. r.chain # <<>> /\ Len(r.inbox) = 1
  BY DEF Awaited
<1>3. q = r.chain[1]
  BY <1>1, <1>2, Zenon DEF Pending
<1>4. 1 \in 1..Len(r.chain)
  <2>1. r.chain \in Seq(Requests)
    BY <1>1, Zenon DEF Clients
  <2> QED
    BY <1>2, <2>1, TailFacts
<1>5. Quiet(q)
  BY Zenon DEF Quiet
<1>6. Len(c.serial[c.epoch]) > 0 /\ c.serial[c.epoch][1] = q
  <2>1. Quiet(r.chain[1]) => /\ Len(c.serial[r.chain[1].epoch]) > 0
                             /\ c.serial[r.chain[1].epoch][1] = r.chain[1]
    BY <1>1, <1>4, Zenon DEF Tasks, Chained
  <2>2. Quiet(r.chain[1]) /\ r.chain[1].epoch = c.epoch
    BY <1>3, <1>5, Zenon
  <2>3. Len(c.serial[c.epoch]) > 0 /\ c.serial[c.epoch][1] = r.chain[1]
    BY <2>1, <2>2
  <2> QED
    BY <1>3, <2>3, Zenon
<1>7. c.serial[c.epoch] # <<>>
  BY <1>6
<1>8. c.secure # NoKey
  BY <1>1, <1>5, <1>6, <1>7, Zenon DEF Tasks, Queued
<1> QED
  BY <1>1, <1>8, Zenon DEF Agrees

\* Only an encryption that is answered seals a packet.
LEMMA HandleSeals ==
  ASSUME IInv, NEW p \in Peers, NEW q \in Peers, Handle(p)
  PROVE  SealsInSession(q)
<1> DEFINE req == Head(rpc[p].inbox)
           sends == /\ req.type = "ENCRYPT" /\ Awaited(rpc[p]) /\ Established(worker[p])
                    /\ req.epoch = ctl[p].epoch
<1>1. /\ PeerInv(p, ctl[p], rpc[p], worker[p], sealed[p], owner) /\ rpc[p] \in Clients
      /\ sealed \in [Peers -> Seq(Chains)]
  BY PeerFacts, Zenon DEF IInv
<1>2. rpc[p].inbox # <<>> /\ Transmit(p, req)
  BY DEF Handle
<1>3. req = rpc[p].inbox[1]
  <2>1. rpc[p].inbox \in Seq(Requests)
    BY <1>1, Zenon DEF Clients
  <2> QED
    BY <1>2, <2>1, TailFacts, Zenon
<1> HIDE DEF req
<1>4. CASE sends
  <2>1. Sealed(worker[p]).key = worker[p].sendChain
    BY DEF Sealed
  <2>2. sealed' = [sealed EXCEPT ![p] = Append(sealed[p], worker[p].sendChain)]
    BY <1>2, <1>4, <2>1, Zenon DEF Transmit
  <2>3. ctl[p].secure # NoKey /\ worker[p].sendChain.pair = {ctl[p].local, ctl[p].secure}
    <3>1. Awaited(rpc[p]) /\ req.type = "ENCRYPT" /\ req.epoch = ctl[p].epoch
      BY <1>4
    <3> QED
      BY <1>1, <1>3, <3>1, AnsweredInSession
  <2>4. q # p => sealed'[q] = sealed[q]
    BY <1>1, <2>2, Zenon
  <2>5. sealed'[p] = Append(sealed[p], worker[p].sendChain) /\ sealed[p] \in Seq(Chains)
    BY <1>1, <2>2, Zenon
  <2>6. worker[p].sendChain \in Chains
    <3>1. IsWorker(worker[p])
      BY <1>1, Zenon DEF PeerInv
    <3> QED
      BY <3>1, Zenon DEF IsWorker
  <2>7. sealed'[p][Len(sealed'[p])] = worker[p].sendChain
    <3> DEFINE s == sealed[p]  k == worker[p].sendChain
    <3>1. s \in Seq(Chains) /\ k \in Chains
      BY <2>5, <2>6, Zenon
    <3> HIDE DEF s, k
    <3>2. Append(s, k)[Len(Append(s, k))] = k
      BY <3>1
    <3> QED
      BY <2>5, <3>2, Zenon DEF s, k
  <2> QED
    BY <2>3, <2>4, <2>7, Zenon DEF SealsInSession
<1>5. CASE ~sends
  <2>1. sealed' = sealed
    BY <1>2, <1>5, Zenon DEF Transmit
  <2> QED
    BY <2>1, Zenon DEF SealsInSession
<1> QED
  BY <1>4, <1>5, Zenon

\* A packet that sendRawApp gives to the transport, after however many epochs its
\* encryption was awaited, is sealed with the session the client holds at that moment.
THEOREM SealedInSession == Spec => SentUnderSession
<1>1. IInv /\ [Next]_vars => [\A p \in Peers : SealsInSession(p)]_vars
  <2> SUFFICES ASSUME IInv, Next, NEW q \in Peers
               PROVE  SealsInSession(q)
    BY Zenon
  <2>1. PICK p \in Peers :
          \/ Fresh(p) \/ SendRawApp(p) \/ WorkerReady(p) \/ Handle(p) \/ Timeout(p)
          \/ \E k \in DOMAIN owner : HandshakeArrives(p, k)
          \/ \E pk \in net : OnEnvelope(p, pk)
    BY Zenon DEF Next
  <2>2. CASE Handle(p)
    BY <2>2, HandleSeals, Zenon
  <2>3. CASE ~Handle(p)
    <3>1. sealed' = sealed
      BY <2>1, <2>3, Zenon
         DEF Fresh, SendRawApp, WorkerReady, Timeout, HandshakeArrives, OnEnvelope
    <3> QED
      BY <3>1, Zenon DEF SealsInSession
  <2> QED
    BY <2>2, <2>3, Zenon
<1>2. [\A p \in Peers : SealsInSession(p)]_vars
        => [\A p \in Peers : sealed'[p] # sealed[p] =>
              /\ ctl[p].secure # NoKey
              /\ sealed'[p][Len(sealed'[p])].pair = {ctl[p].local, ctl[p].secure}]_vars
  BY Zenon DEF SealsInSession
<1> QED
  BY <1>1, <1>2, SessionInvariance, PTL DEF Spec, SentUnderSession

\* The keys of the two directions of one session differ.
LEMMA Directions ==
  ASSUME NEW l \in Nat, NEW k \in Nat, l # k
  PROVE  Direction(l, k) # Direction(k, l)
  BY DEF Direction

\* deriveStep never gives a key that a packet of either client was sealed with
\* before, in whatever session: the chains of a session start from two identities
\* of which one is new, advance with every packet encryptBinary seals, and are not
\* the same in the two directions.
THEOREM KeysUsedOnce == Spec => []KeyUsedOnce
<1>1. IInv => KeyUsedOnce
  <2> SUFFICES ASSUME IInv PROVE KeyUsedOnce
    OBVIOUS
  <2>1. ASSUME NEW p \in Peers
        PROVE  Spent(p, ctl[p], worker[p], sealed[p], owner) /\ sealed[p] \in Seq(Chains)
    <3>1. PeerInv(p, ctl[p], rpc[p], worker[p], sealed[p], owner)
      BY PeerFacts, Zenon
    <3> QED
      BY <3>1, Zenon DEF PeerInv
  <2>2. \A p \in Peers : DOMAIN sealed[p] = 1..Len(sealed[p])
    BY <2>1
  <2>3. \A p \in Peers : IsInjective(sealed[p])
    <3> SUFFICES ASSUME NEW p \in Peers PROVE IsInjective(sealed[p])
      OBVIOUS
    <3>1. \A i, j \in 1..Len(sealed[p]) : sealed[p][i] = sealed[p][j] => i = j
      BY <2>1, Zenon DEF Spent
    <3> QED
      BY <2>2, <3>1, Zenon DEF IsInjective
  <2>4. ASSUME NEW p \in Peers, NEW q \in Peers, p # q,
               NEW i \in 1..Len(sealed[p]), NEW j \in 1..Len(sealed[q]),
               sealed[p][i] = sealed[q][j]
        PROVE  FALSE
    <3>1. PICK l \in 1..Len(owner), k \in 1..Len(owner) :
            /\ owner[l] = p /\ owner[k] = Other(p)
            /\ sealed[p][i].pair = {l, k} /\ sealed[p][i].label = Direction(l, k)
      <4>1. Spent(p, ctl[p], worker[p], sealed[p], owner)
        BY <2>1, Zenon
      <4> QED
        BY <4>1, Zenon DEF Spent
    <3>2. PICK m \in 1..Len(owner), n \in 1..Len(owner) :
            /\ owner[m] = q /\ owner[n] = Other(q)
            /\ sealed[q][j].pair = {m, n} /\ sealed[q][j].label = Direction(m, n)
      <4>1. Spent(q, ctl[q], worker[q], sealed[q], owner)
        BY <2>1, Zenon
      <4> QED
        BY <4>1, Zenon DEF Spent
    <3>3. Other(p) = q /\ Other(q) = p
      BY <2>4, TwoPeers, Zenon
    <3>4. {l, k} = {m, n} /\ Direction(l, k) = Direction(m, n)
      BY <2>4, <3>1, <3>2, Zenon
    <3>5. l # m /\ l # k /\ k # n
      BY <2>4, <3>1, <3>2, <3>3, Zenon
    <3>6. l = n /\ k = m
      BY <3>4, <3>5, Zenon
    <3>7. l \in Nat /\ k \in Nat
      <4>1. Len(owner) \in Nat
        BY DEF IInv
      <4> QED
        BY <4>1
    <3> QED
      BY <3>4, <3>5, <3>6, <3>7, Directions, Zenon
  <2>5. \A p, q \in Peers : p # q => Range(sealed[p]) \cap Range(sealed[q]) = {}
    BY <2>2, <2>4, Zenon DEF Range
  <2> QED
    BY <2>3, <2>5, Zenon DEF KeyUsedOnce
<1> QED
  BY <1>1, SessionInvariance, PTL
=============================================================================

--------------------------- MODULE TransportProofs ---------------------------
(***************************************************************************)
(* Proofs about modules PacketScheduler and Transport, for any profiles,   *)
(* packets and sockets: the scheduler's counters and budgets (Bounded) and *)
(* what it may drop (DropsByPolicy), then the connection that empties it.  *)
(***************************************************************************)
EXTENDS Transport, FiniteSetTheorems, SequenceTheorems, WellFoundedInduction, TLAPS

Schedulers ==
  [profile : Profiles, queues : [Lanes -> Seq(Packets)], bytes : [Lanes -> Int],
   totalPackets : Int, totalBytes : Int]

Total(f) == f["control"] + f["voice"] + f["text"] + f["file"]
Lengths(q) == [l \in Lanes |-> Len(q[l])]

\* The counters are the sums over the queues.
Tallied(q, b, p, n) ==
  /\ \A l \in Lanes : b[l] = Bytes(q[l])
  /\ p = Total(Lengths(q))
  /\ n = Total(b)

Counted(o) == Tallied(o.queues, o.bytes, o.totalPackets, o.totalBytes)

\* No queue exceeds its budget.
Within(o) ==
  /\ \A l \in Lanes : /\ Len(o.queues[l]) <= o.profile.lanes[l].maxPackets
                      /\ o.bytes[l] <= o.profile.lanes[l].maxBytes
  /\ o.totalPackets <= o.profile.outbox.maxPackets
  /\ o.totalBytes <= o.profile.outbox.maxBytes

-----------------------------------------------------------------------------
(* The bytes of a queue. *)

\* The interval that counts to n.
LEMMA Counting ==
  ASSUME NEW n \in Nat
  PROVE  IsFiniteSet(1..n) /\ Cardinality(1..n) = n
<1>1. 1 \in Int /\ n \in Int
  OBVIOUS
<1>2. IsFiniteSet(1..n) /\ Cardinality(1..n) = IF 1 > n THEN 0 ELSE n - 1 + 1
  BY <1>1, FS_Interval, Zenon
<1>3. QED
  BY <1>2

\* One packet of n bytes counts as n.
LEMMA CountingOne ==
  ASSUME NEW n \in Nat
  PROVE  Cardinality({1} \X (1..n)) = n
<1>1. IsFiniteSet({1}) /\ Cardinality({1}) = 1
  BY FS_Singleton, Zenon
<1>2. Cardinality({1} \X (1..n)) = Cardinality({1}) * Cardinality(1..n)
  BY <1>1, Counting, FS_Product, Zenon
<1>3. Cardinality({1} \X (1..n)) = 1 * n
  BY <1>1, <1>2, Counting, Zenon
<1>4. QED
  BY <1>3

\* A byte of a queue is a place in one of its packets.
LEMMA QueuedByte ==
  ASSUME NEW q \in Seq(Packets), NEW x
  PROVE  x \in QueuedBytes(q) <=>
           \E i \in 1..Len(q), b \in Nat : x = <<i, b>> /\ 1 <= b /\ b <= q[i].size
BY SchedulerAssumption DEF QueuedBytes

\* A queue has finitely many bytes.
LEMMA BytesFinite ==
  ASSUME NEW q \in Seq(Packets)
  PROVE  IsFiniteSet(QueuedBytes(q)) /\ Bytes(q) \in Nat
<1> DEFINE part(i) == {i} \X (1..q[i].size)
           parts == {part(i) : i \in DOMAIN q}
           f == [i \in DOMAIN q |-> part(i)]
<1>1. \A i \in DOMAIN q : IsFiniteSet(part(i))
  <2> SUFFICES ASSUME NEW i \in DOMAIN q PROVE IsFiniteSet(part(i))
    OBVIOUS
  <2>1. q[i].size \in Nat
    BY SchedulerAssumption
  <2>2. IsFiniteSet(1..q[i].size)
    BY <2>1, Counting
  <2>3. QED
    BY <2>2, FS_Singleton, FS_Product, Zenon
<1>2. IsFiniteSet(DOMAIN q)
  BY FS_Interval
<1>3. f \in Surjection(DOMAIN q, parts)
  BY Zenon DEF Surjection
<1>4. IsFiniteSet(parts)
  BY <1>2, <1>3, FS_Surjection
<1>5. IsFiniteSet(UNION parts)
  BY <1>1, <1>4, FS_UNION, Zenon
<1>6. QED
  BY <1>5, FS_CardinalityType DEF QueuedBytes, Bytes

\* The bytes of two queues, one behind the other.
LEMMA BytesConcat ==
  ASSUME NEW s \in Seq(Packets), NEW t \in Seq(Packets)
  PROVE  Bytes(s \o t) = Bytes(s) + Bytes(t)
<1> DEFINE A == QueuedBytes(s)
           B == QueuedBytes(t)
           g == [x \in B |-> <<x[1] + Len(s), x[2]>>]
           C == {g[x] : x \in B}
<1>0. /\ s \o t \in Seq(Packets)
      /\ \A x : x \in QueuedBytes(s \o t) <=>
           \E i \in 1..Len(s \o t), b \in Nat : x = <<i, b>> /\ 1 <= b /\ b <= (s \o t)[i].size
  <2>1. s \o t \in Seq(Packets)
    OBVIOUS
  <2>2. QED
    BY <2>1, QueuedByte, Zenon
<1>1. IsFiniteSet(A) /\ IsFiniteSet(B) /\ Bytes(s) \in Nat /\ Bytes(t) \in Nat
  BY BytesFinite
<1>2. \A x \in B : \E i \in 1..Len(t), b \in Nat : x = <<i, b>> /\ 1 <= b /\ b <= t[i].size
  BY QueuedByte
<1>3. g \in Bijection(B, C)
  <2>1. \A x, y \in B : g[x] = g[y] => x = y
    BY <1>2
  <2>2. QED
    BY <2>1, Zenon DEF Bijection, Injection, Surjection, IsInjective
<1>4. IsFiniteSet(C) /\ Cardinality(C) = Cardinality(B)
  BY <1>1, <1>3, FS_Bijection DEF ExistsBijection
<1>5. A \cap C = {}
  <2> SUFFICES ASSUME NEW x \in A, NEW y \in B, x = g[y] PROVE FALSE
    OBVIOUS
  <2>1. PICK i \in 1..Len(s), b \in Nat : x = <<i, b>> /\ 1 <= b /\ b <= s[i].size
    BY QueuedByte, Zenon
  <2>2. PICK j \in 1..Len(t), c \in Nat : y = <<j, c>>
    BY <1>2
  <2>3. QED
    BY <2>1, <2>2
<1>6. QueuedBytes(s \o t) = A \cup C
  <2>1. ASSUME NEW x \in QueuedBytes(s \o t) PROVE x \in A \cup C
    <3>1. PICK i \in 1..Len(s \o t), b \in Nat : x = <<i, b>> /\ 1 <= b /\ b <= (s \o t)[i].size
      BY <2>1, <1>0
    <3>2. CASE i <= Len(s)
      BY <3>1, <3>2, QueuedByte
    <3>3. CASE i > Len(s)
      <4>1. i - Len(s) \in 1..Len(t) /\ (s \o t)[i] = t[i - Len(s)]
        BY <3>3
      <4>2. <<i - Len(s), b>> \in B
        BY <3>1, <4>1, QueuedByte, Zenon
      <4>3. QED
        BY <3>1, <4>2
    <3>4. QED
      BY <3>2, <3>3
  <2>2. ASSUME NEW x \in A PROVE x \in QueuedBytes(s \o t)
    <3>1. PICK i \in 1..Len(s), b \in Nat : x = <<i, b>> /\ 1 <= b /\ b <= s[i].size
      BY <2>2, QueuedByte
    <3>2. i \in 1..Len(s \o t) /\ (s \o t)[i] = s[i]
      OBVIOUS
    <3>3. QED
      BY <3>1, <3>2, <1>0, Zenon
  <2>3. ASSUME NEW y \in B PROVE g[y] \in QueuedBytes(s \o t)
    <3>1. PICK i \in 1..Len(t), b \in Nat : y = <<i, b>> /\ 1 <= b /\ b <= t[i].size
      BY <2>3, <1>2
    <3>2. i + Len(s) \in 1..Len(s \o t) /\ (s \o t)[i + Len(s)] = t[i]
      OBVIOUS
    <3>3. QED
      BY <3>1, <3>2, <1>0, Zenon
  <2>4. QED
    BY <2>1, <2>2, <2>3, Zenon
<1>7. Cardinality(A \cup C) = Cardinality(A) + Cardinality(C)
  <2>1. Cardinality(A \cup C) = Cardinality(A) + Cardinality(C) - Cardinality(A \cap C)
    BY <1>1, <1>4, FS_Union, Zenon
  <2>2. Cardinality(A) \in Nat /\ Cardinality(C) \in Nat /\ Cardinality(A \cap C) = 0
    BY <1>1, <1>4, <1>5, FS_CardinalityType, FS_EmptySet, Zenon
  <2> HIDE DEF A, C
  <2>3. QED
    BY <2>1, <2>2
<1>8. QED
  BY <1>4, <1>6, <1>7 DEF Bytes

\* One packet.
LEMMA BytesOne ==
  ASSUME NEW p \in Packets
  PROVE  Bytes(<<p>>) = p.size
<1>1. p.size \in Nat
  BY SchedulerAssumption
<1>2. QueuedBytes(<<p>>) = {1} \X (1..p.size)
  BY DEF QueuedBytes
<1>3. QED
  BY <1>1, <1>2, CountingOne, Zenon DEF Bytes

\* No packets.
LEMMA BytesNone == Bytes(<<>>) = 0
<1>1. QueuedBytes(<<>>) = {}
  BY DEF QueuedBytes
<1>2. QED
  BY <1>1, FS_EmptySet DEF Bytes

\* push and shift change the bytes by what they add and take.
LEMMA BytesAppend ==
  ASSUME NEW q \in Seq(Packets), NEW p \in Packets
  PROVE  Bytes(Append(q, p)) = Bytes(q) + p.size
<1>1. Append(q, p) = q \o <<p>> /\ <<p>> \in Seq(Packets)
  OBVIOUS
<1>2. Bytes(q \o <<p>>) = Bytes(q) + Bytes(<<p>>)
  BY <1>1, BytesConcat, Zenon
<1>3. QED
  BY <1>1, <1>2, BytesOne, Zenon

\* The bytes of a queue are those of its first k packets and of the others.
LEMMA BytesSplit ==
  ASSUME NEW q \in Seq(Packets), NEW k \in 0..Len(q)
  PROVE  Bytes(q) = Bytes(SubSeq(q, 1, k)) + Bytes(SubSeq(q, k + 1, Len(q)))
<1>1. SubSeq(q, 1, k) \o SubSeq(q, k + 1, Len(q)) = SubSeq(q, 1, Len(q))
  <2>1. 1 \in 1..Len(q) + 1 /\ k \in (1 - 1)..Len(q) /\ Len(q) \in k..Len(q)
    OBVIOUS
  <2>2. QED
    BY <2>1, ConcatAdjacentSubSeq, Zenon
<1>2. SubSeq(q, 1, Len(q)) = q
  BY SubSeqFull
<1>3. SubSeq(q, 1, k) \in Seq(Packets) /\ SubSeq(q, k + 1, Len(q)) \in Seq(Packets)
  OBVIOUS
<1>4. QED
  BY <1>1, <1>2, <1>3, BytesConcat, ZenonT(60)

-----------------------------------------------------------------------------
(* What each method of PacketScheduler does. *)

\* A sum over the lanes follows the one lane that changes.
LEMMA TotalUpdate ==
  ASSUME NEW f \in [Lanes -> Int], NEW l \in Lanes, NEW d \in Int
  PROVE  Total([f EXCEPT ![l] = d]) = Total(f) - f[l] + d
BY DEF Total, Lanes

\* A sum over the lanes is an integer.
LEMMA TotalType ==
  ASSUME NEW f \in [Lanes -> Int]
  PROVE  Total(f) \in Int
BY DEF Total, Lanes

\* A lane's queue, its bytes and the totals change by the same amounts.
LEMMA Recounted ==
  ASSUME NEW Q \in [Lanes -> Seq(Packets)], NEW B \in [Lanes -> Int], NEW P \in Int, NEW N \in Int,
         Tallied(Q, B, P, N), NEW l \in Lanes, NEW q \in Seq(Packets)
  PROVE  Tallied([Q EXCEPT ![l] = q], [B EXCEPT ![l] = Bytes(q)],
                 P - Len(Q[l]) + Len(q), N - Bytes(Q[l]) + Bytes(q))
<1> DEFINE R == [Q EXCEPT ![l] = q]
           C == [B EXCEPT ![l] = Bytes(q)]
<1>1. \A m \in Lanes : C[m] = Bytes(R[m])
  BY Zenon DEF Tallied
<1>2. Lengths(Q) \in [Lanes -> Int] /\ Len(q) \in Int /\ Bytes(q) \in Int
  BY BytesFinite DEF Lengths
<1>3. Lengths(R) = [Lengths(Q) EXCEPT ![l] = Len(q)] /\ Lengths(Q)[l] = Len(Q[l])
  BY Zenon DEF Lengths
<1>4. Total(Lengths(R)) = Total(Lengths(Q)) - Len(Q[l]) + Len(q)
  <2> DEFINE f == Lengths(Q)
  <2> HIDE DEF f
  <2>1. Total([f EXCEPT ![l] = Len(q)]) = Total(f) - f[l] + Len(q)
    BY <1>2, TotalUpdate, Zenon DEF f
  <2>2. QED
    BY <1>3, <2>1, Zenon DEF f
<1>5. Total(C) = Total(B) - B[l] + Bytes(q)
  BY <1>2, TotalUpdate, Zenon
<1>6. QED
  BY <1>1, <1>4, <1>5, Zenon DEF Tallied

\* Scheduler s is o without the k oldest packets of lane l and their n bytes.
LessOldest(o, s, l, k, n) ==
  /\ s \in Schedulers /\ Counted(s) /\ s.profile = o.profile
  /\ s.queues = [o.queues EXCEPT ![l] = SubSeq(o.queues[l], k + 1, Len(o.queues[l]))]
  /\ Len(s.queues[l]) = Len(o.queues[l]) - k
  /\ n \in Nat /\ n = Bytes(SubSeq(o.queues[l], 1, k))
  /\ s.bytes = [o.bytes EXCEPT ![l] = o.bytes[l] - n]
  /\ s.totalPackets = o.totalPackets - k
  /\ s.totalBytes = o.totalBytes - n

\* Shift takes the k oldest packets of one lane and their bytes off the accounts.
LEMMA Shifted ==
  ASSUME NEW o \in Schedulers, Counted(o), NEW l \in Lanes, NEW k \in 0..Len(o.queues[l])
  PROVE  \E n : LessOldest(o, Shift(o, l, k), l, k, n)
<1> DEFINE s == Shift(o, l, k)
<1>1. PICK Q \in [Lanes -> Seq(Packets)], B \in [Lanes -> Int], P \in Int, N \in Int :
        Q = o.queues /\ B = o.bytes /\ P = o.totalPackets /\ N = o.totalBytes
  BY Zenon DEF Schedulers
<1>2. Q[l] \in Seq(Packets) /\ k \in 0..Len(Q[l]) /\ Tallied(Q, B, P, N)
  BY <1>1 DEF Counted
<1>3. PICK r \in Seq(Packets) : r = SubSeq(Q[l], k + 1, Len(Q[l]))
  <2>1. SubSeq(Q[l], k + 1, Len(Q[l])) \in Seq(Packets)
    BY <1>2
  <2>2. QED
    BY <2>1, Zenon
<1>4. Len(r) = Len(Q[l]) - k /\ SubSeq(Q[l], 1, k) \in Seq(Packets)
  BY <1>2, <1>3
<1>5. PICK n \in Nat : n = Bytes(SubSeq(Q[l], 1, k))
  BY <1>4, BytesFinite, Zenon
<1>6. B[l] = Bytes(Q[l]) /\ Bytes(Q[l]) = n + Bytes(r) /\ Bytes(r) \in Nat
  BY <1>2, <1>3, <1>5, BytesSplit, BytesFinite, Zenon DEF Tallied
<1>7. PICK b \in Int, p \in Int, m \in Int : b = B[l] - n /\ p = P - k /\ m = N - n
  OBVIOUS
<1>8. s = [o EXCEPT !.queues[l] = r, !.bytes[l] = b, !.totalPackets = p, !.totalBytes = m]
  BY <1>1, <1>3, <1>5, <1>7, Zenon DEF Shift
<1>9. s \in Schedulers
  <2>1. [o EXCEPT !.queues[l] = r, !.bytes[l] = b, !.totalPackets = p, !.totalBytes = m]
          \in Schedulers
    BY Zenon DEF Schedulers
  <2>2. QED
    BY <1>8, <2>1, Zenon
<1>10. /\ s.profile = o.profile
       /\ s.queues = [Q EXCEPT ![l] = r] /\ s.bytes = [B EXCEPT ![l] = b]
       /\ s.totalPackets = p /\ s.totalBytes = m
  BY <1>1, <1>8, Zenon DEF Schedulers
<1>11. b = Bytes(r) /\ p = P - Len(Q[l]) + Len(r) /\ m = N - Bytes(Q[l]) + Bytes(r)
  BY <1>2, <1>4, <1>6, <1>7
<1> HIDE DEF s
<1>12. Tallied([Q EXCEPT ![l] = r], [B EXCEPT ![l] = b], p, m)
  BY <1>2, <1>11, Recounted, Zenon
<1>13. Counted(s)
  BY <1>10, <1>12, Zenon DEF Counted
<1>14. [Q EXCEPT ![l] = r][l] = r
  OBVIOUS
<1>15. QED
  BY <1>1, <1>3, <1>4, <1>5, <1>7, <1>9, <1>10, <1>13, <1>14, Zenon DEF s, LessOldest

\* Push puts one packet on its lane and its bytes on the accounts.
LEMMA Pushed ==
  ASSUME NEW o \in Schedulers, Counted(o), NEW p \in Packets
  PROVE  LET s == Push(o, p)
         IN /\ s \in Schedulers /\ Counted(s) /\ s.profile = o.profile
            /\ s.queues = [o.queues EXCEPT ![p.lane] = Append(o.queues[p.lane], p)]
            /\ s.bytes = [o.bytes EXCEPT ![p.lane] = o.bytes[p.lane] + p.size]
            /\ s.totalPackets = o.totalPackets + 1
            /\ s.totalBytes = o.totalBytes + p.size
<1> DEFINE s == Push(o, p)
<1>1. PICK Q \in [Lanes -> Seq(Packets)], B \in [Lanes -> Int], P \in Int, N \in Int :
        Q = o.queues /\ B = o.bytes /\ P = o.totalPackets /\ N = o.totalBytes
  BY Zenon DEF Schedulers
<1>2. PICK l \in Lanes, z \in Nat : l = p.lane /\ z = p.size
  BY SchedulerAssumption, Zenon
<1>3. Q[l] \in Seq(Packets) /\ Tallied(Q, B, P, N)
  BY <1>1 DEF Counted
<1>4. PICK r \in Seq(Packets) : r = Append(Q[l], p)
  <2>1. Append(Q[l], p) \in Seq(Packets)
    BY <1>3
  <2>2. QED
    BY <2>1, Zenon
<1>5. Len(r) = Len(Q[l]) + 1
  BY <1>3, <1>4
<1>6. B[l] = Bytes(Q[l]) /\ Bytes(r) = Bytes(Q[l]) + z /\ Bytes(Q[l]) \in Nat
  BY <1>2, <1>3, <1>4, BytesAppend, BytesFinite, Zenon DEF Tallied
<1>7. PICK b \in Int, c \in Int, m \in Int : b = B[l] + z /\ c = P + 1 /\ m = N + z
  OBVIOUS
<1>8. s = [o EXCEPT !.queues[l] = r, !.bytes[l] = b, !.totalPackets = c, !.totalBytes = m]
  BY <1>1, <1>2, <1>4, <1>7, Zenon DEF Push
<1>9. s \in Schedulers
  <2>1. [o EXCEPT !.queues[l] = r, !.bytes[l] = b, !.totalPackets = c, !.totalBytes = m]
          \in Schedulers
    BY Zenon DEF Schedulers
  <2>2. QED
    BY <1>8, <2>1, Zenon
<1>10. /\ s.profile = o.profile
       /\ s.queues = [Q EXCEPT ![l] = r] /\ s.bytes = [B EXCEPT ![l] = b]
       /\ s.totalPackets = c /\ s.totalBytes = m
  BY <1>1, <1>8, Zenon DEF Schedulers
<1>11. b = Bytes(r) /\ c = P - Len(Q[l]) + Len(r) /\ m = N - Bytes(Q[l]) + Bytes(r)
  BY <1>3, <1>5, <1>6, <1>7
<1> HIDE DEF s
<1>12. Tallied([Q EXCEPT ![l] = r], [B EXCEPT ![l] = b], c, m)
  BY <1>3, <1>11, Recounted, Zenon
<1>13. Counted(s)
  BY <1>10, <1>12, Zenon DEF Counted
<1>14. QED
  BY <1>1, <1>2, <1>4, <1>7, <1>9, <1>10, <1>13, Zenon DEF s

\* clearLane empties one lane and takes it off the accounts.
LEMMA LaneCleared ==
  ASSUME NEW o \in Schedulers, Counted(o), NEW l \in Lanes
  PROVE  LET s == clearLane(o, l)
         IN /\ s \in Schedulers /\ Counted(s) /\ s.profile = o.profile
            /\ s.queues = [o.queues EXCEPT ![l] = <<>>]
            /\ s.bytes = [o.bytes EXCEPT ![l] = 0]
            /\ s.totalPackets = o.totalPackets - Len(o.queues[l])
            /\ s.totalBytes = o.totalBytes - o.bytes[l]
<1> DEFINE s == clearLane(o, l)
<1>1. PICK Q \in [Lanes -> Seq(Packets)], B \in [Lanes -> Int], P \in Int, N \in Int :
        Q = o.queues /\ B = o.bytes /\ P = o.totalPackets /\ N = o.totalBytes
  BY Zenon DEF Schedulers
<1>2. Q[l] \in Seq(Packets) /\ Tallied(Q, B, P, N)
  BY <1>1 DEF Counted
<1>3. PICK r \in Seq(Packets) : r = <<>>
  <2>1. <<>> \in Seq(Packets)
    OBVIOUS
  <2>2. QED
    BY <2>1, Zenon
<1>4. Len(r) = 0 /\ Bytes(r) = 0 /\ Len(Q[l]) \in Nat /\ B[l] = Bytes(Q[l]) /\ Bytes(Q[l]) \in Nat
  BY <1>2, <1>3, BytesNone, BytesFinite DEF Tallied
<1>5. PICK b \in Int, c \in Int, m \in Int : b = 0 /\ c = P - Len(Q[l]) /\ m = N - B[l]
  <2>1. 0 \in Int /\ P - Len(Q[l]) \in Int /\ N - B[l] \in Int
    BY <1>4
  <2>2. QED
    BY <2>1, Zenon
<1>6. s = [o EXCEPT !.queues[l] = r, !.bytes[l] = b, !.totalPackets = c, !.totalBytes = m]
  BY <1>1, <1>3, <1>5, Zenon DEF clearLane
<1>7. s \in Schedulers
  <2>1. [o EXCEPT !.queues[l] = r, !.bytes[l] = b, !.totalPackets = c, !.totalBytes = m]
          \in Schedulers
    BY Zenon DEF Schedulers
  <2>2. QED
    BY <1>6, <2>1, Zenon
<1>8. /\ s.profile = o.profile
      /\ s.queues = [Q EXCEPT ![l] = r] /\ s.bytes = [B EXCEPT ![l] = b]
      /\ s.totalPackets = c /\ s.totalBytes = m
  BY <1>1, <1>6, Zenon DEF Schedulers
<1>9. b = Bytes(r) /\ c = P - Len(Q[l]) + Len(r) /\ m = N - Bytes(Q[l]) + Bytes(r)
  BY <1>4, <1>5
<1> HIDE DEF s
<1>10. Tallied([Q EXCEPT ![l] = r], [B EXCEPT ![l] = b], c, m)
  BY <1>2, <1>9, Recounted, Zenon
<1>11. Counted(s)
  BY <1>8, <1>10, Zenon DEF Counted
<1>12. QED
  BY <1>1, <1>3, <1>5, <1>7, <1>8, <1>11, Zenon DEF s

-----------------------------------------------------------------------------
(* The scheduler keeps its budgets. *)

\* What holds of the scheduler between two calls.
Sound(o) == o \in Schedulers /\ Counted(o) /\ Within(o)

\* A profile's budgets are numbers.
LEMMA Budgets ==
  ASSUME NEW f \in Profiles
  PROVE  /\ f.maxFrameBytes \in Nat /\ f.outbox.maxPackets \in Nat /\ f.outbox.maxBytes \in Nat
         /\ \A l \in Lanes : f.lanes[l].maxPackets \in Nat /\ f.lanes[l].maxBytes \in Nat
BY SchedulerAssumption, Zenon

\* Less of what fits still fits.
LEMMA LessFits == \A a, b \in Int, c \in Nat : a <= b /\ b <= c => a <= c
  OBVIOUS

\* What is not too much fits: one more packet, or that many more bytes.
LEMMA NotTooMuch ==
  /\ \A a \in Int, c \in Nat : a >= c \/ a + 1 <= c
  /\ \A a \in Int, size \in Nat, c \in Nat : a + size > c \/ a + size <= c
  OBVIOUS

\* What is taken off a count leaves at most the count.
LEMMA Fewer == \A a \in Int, n \in Nat : a - n <= a
  OBVIOUS

\* Taking packets off one lane exceeds no budget.
LEMMA WithinLess ==
  ASSUME NEW o \in Schedulers, Within(o), NEW s \in Schedulers, NEW l \in Lanes,
         s.profile = o.profile,
         \A m \in Lanes \ {l} : s.queues[m] = o.queues[m] /\ s.bytes[m] = o.bytes[m],
         Len(s.queues[l]) <= Len(o.queues[l]), s.bytes[l] <= o.bytes[l],
         s.totalPackets <= o.totalPackets, s.totalBytes <= o.totalBytes
  PROVE  Within(s)
<1>1. PICK f \in Profiles : f = o.profile /\ f = s.profile
  BY DEF Schedulers
<1>2. /\ o.queues \in [Lanes -> Seq(Packets)] /\ o.bytes \in [Lanes -> Int]
      /\ s.queues \in [Lanes -> Seq(Packets)] /\ s.bytes \in [Lanes -> Int]
      /\ o.totalPackets \in Int /\ o.totalBytes \in Int /\ s.totalPackets \in Int /\ s.totalBytes \in Int
  BY Zenon DEF Schedulers
<1>3. s.totalPackets <= f.outbox.maxPackets /\ s.totalBytes <= f.outbox.maxBytes
  <2>1. f.outbox.maxPackets \in Nat /\ f.outbox.maxBytes \in Nat
    BY Budgets, Zenon
  <2>2. o.totalPackets <= f.outbox.maxPackets /\ o.totalBytes <= f.outbox.maxBytes
    BY <1>1, Zenon DEF Within
  <2> QED
    BY <1>2, <2>1, <2>2, LessFits, Zenon
<1>4. ASSUME NEW m \in Lanes
      PROVE  Len(s.queues[m]) <= f.lanes[m].maxPackets /\ s.bytes[m] <= f.lanes[m].maxBytes
  <2>1. Len(o.queues[m]) <= f.lanes[m].maxPackets /\ o.bytes[m] <= f.lanes[m].maxBytes
    BY <1>1, Zenon DEF Within
  <2>2. CASE m # l
    BY <2>1, <2>2, Zenon
  <2>3. CASE m = l
    <3>1. /\ Len(o.queues[l]) \in Int /\ Len(s.queues[l]) \in Int
          /\ o.bytes[l] \in Int /\ s.bytes[l] \in Int
      BY <1>2
    <3>2. f.lanes[l].maxPackets \in Nat /\ f.lanes[l].maxBytes \in Nat
      BY Budgets, Zenon
    <3>3. QED
      BY <2>1, <2>3, <3>1, <3>2, LessFits, Zenon
  <2>4. QED
    BY <2>2, <2>3
<1>5. QED
  BY <1>1, <1>3, <1>4, Zenon DEF Within

\* Taking the oldest packets of a lane (shift in next and enqueue) keeps the counters
\* and the budgets.
LEMMA ShiftSound ==
  ASSUME NEW o, Sound(o), NEW l \in Lanes, NEW k \in 0..Len(o.queues[l])
  PROVE  Sound(Shift(o, l, k))
<1> DEFINE s == Shift(o, l, k)
<1>1. o \in Schedulers /\ Counted(o) /\ Within(o)
  BY DEF Sound
<1>2. PICK n : LessOldest(o, s, l, k, n)
  BY <1>1, Shifted, Zenon
<1> HIDE DEF s
<1>3. /\ o.queues \in [Lanes -> Seq(Packets)] /\ o.bytes \in [Lanes -> Int]
      /\ o.totalPackets \in Int /\ o.totalBytes \in Int /\ Len(o.queues[l]) \in Nat
  BY <1>1 DEF Schedulers
<1>4. \A m \in Lanes \ {l} : s.queues[m] = o.queues[m] /\ s.bytes[m] = o.bytes[m]
  BY <1>2, <1>3, Zenon DEF LessOldest
<1>a. k \in Nat /\ n \in Nat /\ o.bytes[l] \in Int /\ Len(o.queues[l]) \in Int
  <2>1. k \in Nat /\ Len(o.queues[l]) \in Int
    BY <1>3
  <2> QED
    BY <1>2, <1>3, <2>1, Zenon DEF LessOldest
<1>5. Len(s.queues[l]) <= Len(o.queues[l]) /\ s.totalPackets <= o.totalPackets
  <2>1. Len(o.queues[l]) - k <= Len(o.queues[l]) /\ o.totalPackets - k <= o.totalPackets
    BY <1>3, <1>a, Fewer, Zenon
  <2> QED
    BY <1>2, <2>1, Zenon DEF LessOldest
<1>6. s.bytes[l] <= o.bytes[l] /\ s.totalBytes <= o.totalBytes
  <2>1. s.bytes[l] = o.bytes[l] - n
    BY <1>2, <1>3, Zenon DEF LessOldest
  <2>2. o.bytes[l] - n <= o.bytes[l] /\ o.totalBytes - n <= o.totalBytes
    BY <1>3, <1>a, Fewer, Zenon
  <2> QED
    BY <1>2, <2>1, <2>2, Zenon DEF LessOldest
<1>7. Within(s)
  BY <1>1, <1>2, <1>4, <1>5, <1>6, WithinLess, Zenon DEF LessOldest
<1>8. QED
  BY <1>2, <1>7, Zenon DEF Sound, LessOldest, s

\* clearLane keeps the counters and the budgets.
LEMMA ClearLaneSound ==
  ASSUME NEW o, Sound(o), NEW l \in Lanes
  PROVE  Sound(clearLane(o, l))
<1> DEFINE s == clearLane(o, l)
<1>1. o \in Schedulers /\ Counted(o) /\ Within(o)
  BY Zenon DEF Sound
<1>2. /\ s \in Schedulers /\ Counted(s) /\ s.profile = o.profile
      /\ s.queues = [o.queues EXCEPT ![l] = <<>>]
      /\ s.bytes = [o.bytes EXCEPT ![l] = 0]
      /\ s.totalPackets = o.totalPackets - Len(o.queues[l])
      /\ s.totalBytes = o.totalBytes - o.bytes[l]
  BY <1>1, LaneCleared, Zenon
<1> HIDE DEF s
<1>3. /\ o.queues \in [Lanes -> Seq(Packets)] /\ o.bytes \in [Lanes -> Int]
      /\ o.totalPackets \in Int /\ o.totalBytes \in Int /\ Len(o.queues[l]) \in Nat
      /\ o.queues[l] \in Seq(Packets)
  BY <1>1 DEF Schedulers
<1>4. \A m \in Lanes \ {l} : s.queues[m] = o.queues[m] /\ s.bytes[m] = o.bytes[m]
  BY <1>2, <1>3, Zenon
<1>5. o.bytes[l] = Bytes(o.queues[l])
  BY <1>1, Zenon DEF Counted, Tallied
<1>6. o.bytes[l] \in Nat
  BY <1>3, <1>5, BytesFinite, Zenon
<1>7. s.queues[l] = <<>> /\ s.bytes[l] = 0
  BY <1>2, <1>3, Zenon
<1>8. Len(s.queues[l]) <= Len(o.queues[l]) /\ s.totalPackets <= o.totalPackets
  BY <1>2, <1>3, <1>7
<1>9. s.bytes[l] <= o.bytes[l] /\ s.totalBytes <= o.totalBytes
  BY <1>2, <1>3, <1>6, <1>7
<1>10. Within(s)
  BY <1>1, <1>2, <1>4, <1>8, <1>9, WithinLess, Zenon
<1>11. QED
  BY <1>2, <1>10, Zenon DEF Sound, s

\* A packet that does not overflow a budget (wouldOverflow) is queued within it.
LEMMA PushSound ==
  ASSUME NEW o, Sound(o), NEW p \in Packets, ~wouldOverflow(o, p.lane, p.size)
  PROVE  Sound(Push(o, p))
<1> DEFINE s == Push(o, p)
           l == p.lane
<1>1. o \in Schedulers /\ Counted(o) /\ Within(o)
  BY Zenon DEF Sound
<1>2. /\ s \in Schedulers /\ Counted(s) /\ s.profile = o.profile
      /\ s.queues = [o.queues EXCEPT ![l] = Append(o.queues[l], p)]
      /\ s.bytes = [o.bytes EXCEPT ![l] = o.bytes[l] + p.size]
      /\ s.totalPackets = o.totalPackets + 1
      /\ s.totalBytes = o.totalBytes + p.size
  BY <1>1, Pushed, Zenon
<1>3. l \in Lanes /\ p.size \in Nat
  BY SchedulerAssumption, Zenon
<1> HIDE DEF s, l
<1>4. /\ o.queues \in [Lanes -> Seq(Packets)] /\ o.bytes \in [Lanes -> Int] /\ o.profile \in Profiles
      /\ o.totalPackets \in Int /\ o.totalBytes \in Int /\ o.queues[l] \in Seq(Packets)
  BY <1>1, <1>3 DEF Schedulers
<1>5. \A m \in Lanes \ {l} : s.queues[m] = o.queues[m] /\ s.bytes[m] = o.bytes[m]
  BY <1>2, <1>4, Zenon
<1>6. s.queues[l] = Append(o.queues[l], p) /\ s.bytes[l] = o.bytes[l] + p.size
  BY <1>2, <1>3, <1>4, Zenon
<1>7. PICK f \in Profiles : f = o.profile
  BY <1>4
<1>8. /\ ~(Len(o.queues[l]) >= f.lanes[l].maxPackets) /\ ~(o.bytes[l] + p.size > f.lanes[l].maxBytes)
      /\ ~(o.totalPackets >= f.outbox.maxPackets) /\ ~(o.totalBytes + p.size > f.outbox.maxBytes)
  BY <1>7, Zenon DEF wouldOverflow, l
<1>9. Len(s.queues[l]) <= f.lanes[l].maxPackets /\ s.bytes[l] <= f.lanes[l].maxBytes
  <2>1. f.lanes[l].maxPackets \in Nat /\ f.lanes[l].maxBytes \in Nat /\ o.bytes[l] \in Int
    BY <1>3, <1>4, Budgets, Zenon
  <2>2. Len(s.queues[l]) = Len(o.queues[l]) + 1 /\ Len(o.queues[l]) \in Int
    <3>1. PICK q \in Seq(Packets) : q = o.queues[l]
      BY <1>4, Zenon
    <3>2. Len(Append(q, p)) = Len(q) + 1 /\ Len(q) \in Int
      BY ONLY <3>1, p \in Packets
    <3> QED
      BY <1>6, <3>1, <3>2, Zenon
  <2>3. QED
    <3>1. Len(o.queues[l]) + 1 <= f.lanes[l].maxPackets
      BY <1>3, <1>8, <2>1, <2>2, NotTooMuch, Zenon
    <3>2. o.bytes[l] + p.size <= f.lanes[l].maxBytes
      BY <1>3, <1>8, <2>1, NotTooMuch, Zenon
    <3> QED
      BY <1>6, <2>2, <3>1, <3>2, Zenon
<1>10. s.totalPackets <= f.outbox.maxPackets /\ s.totalBytes <= f.outbox.maxBytes
  <2>1. f.outbox.maxPackets \in Nat /\ f.outbox.maxBytes \in Nat
    BY Budgets
  <2>2. QED
    <3>1. o.totalPackets + 1 <= f.outbox.maxPackets
      BY <1>3, <1>4, <1>8, <2>1, NotTooMuch, Zenon
    <3>2. o.totalBytes + p.size <= f.outbox.maxBytes
      BY <1>3, <1>4, <1>8, <2>1, NotTooMuch, Zenon
    <3> QED
      BY <1>2, <3>1, <3>2, Zenon
<1>11. Within(s)
  BY <1>1, <1>2, <1>5, <1>7, <1>9, <1>10, Zenon DEF Within
<1>12. QED
  BY <1>2, <1>11, Zenon DEF Sound, s

\* A non-empty set of numbers has a least element.
LEMMA LeastExists ==
  ASSUME NEW S, S \subseteq Nat, S # {}
  PROVE  Min(S) \in S /\ \A y \in S : Min(S) <= y
<1> DEFINE R == OpToRel(<, Nat)
<1>1. IsWellFoundedOn(R, Nat)
  BY NatLessThanWellFounded, Zenon
<1>2. \A x, y \in Nat : y < x => <<y, x>> \in R
  BY DEF OpToRel
<1> HIDE DEF R
<1>3. PICK x \in S : \A y \in S : ~ (<<y, x>> \in R)
  BY <1>1, WFMin, Zenon
<1>4. \A y \in S : x <= y
  <2> SUFFICES ASSUME NEW y \in S PROVE x <= y
    OBVIOUS
  <2>1. x \in Nat /\ y \in Nat /\ ~(y < x)
    BY <1>2, <1>3, Zenon
  <2>2. QED
    BY <2>1
<1>5. QED
  BY <1>4, Zenon DEF Min

\* enqueue drops packets of the lane only, as many as it has at most, and none of a
\* lane whose policy is to fail.
LEMMA DroppedRange ==
  ASSUME NEW o \in Schedulers, NEW p \in Packets
  PROVE  /\ Dropped(o, p) \in 0..Len(o.queues[p.lane])
         /\ o.profile.lanes[p.lane].dropPolicy = "fail" => Dropped(o, p) = 0
<1> DEFINE n == Len(o.queues[p.lane])
           enough == {k \in 0..n : ~wouldOverflow(Shift(o, p.lane, k), p.lane, p.size)}
<1>1. n \in Nat
  BY SchedulerAssumption DEF Schedulers
<1> HIDE DEF n
<1>2. enough \subseteq 0..n /\ enough \subseteq Nat
  BY <1>1
<1> HIDE DEF enough
<1>3. enough # {} => Min(enough) \in 0..n
  BY <1>2, LeastExists, Zenon
<1>4. 0 \in 0..n /\ n \in 0..n
  BY <1>1
<1>5. Dropped(o, p) = IF p.size > o.profile.maxFrameBytes \/ o.profile.lanes[p.lane].dropPolicy = "fail"
                      THEN 0 ELSE IF enough = {} THEN n ELSE Min(enough)
  BY Zenon DEF Dropped, enough, n
<1>6. QED
  BY <1>3, <1>4, <1>5, Zenon DEF n

\* enqueue keeps the counters and the budgets, dropping or refusing what it must.
LEMMA EnqueueSound ==
  ASSUME NEW o, Sound(o), NEW p \in Packets
  PROVE  Sound(enqueue(o, p))
<1> DEFINE s == Shift(o, p.lane, Dropped(o, p))
<1>1. p.lane \in Lanes /\ Dropped(o, p) \in 0..Len(o.queues[p.lane])
  BY DroppedRange, SchedulerAssumption, Zenon DEF Sound
<1>2. Sound(s)
  BY <1>1, ShiftSound, Zenon
<1> HIDE DEF s
<1>3. CASE Accepts(o, p)
  <2>1. ~wouldOverflow(s, p.lane, p.size)
    BY <1>3 DEF Accepts, s
  <2>2. Sound(Push(s, p))
    BY <1>2, <2>1, PushSound, Zenon
  <2>3. QED
    BY <1>3, <2>2, Zenon DEF enqueue, s
<1>4. CASE ~Accepts(o, p)
  BY <1>2, <1>4, Zenon DEF enqueue, s
<1>5. QED
  BY <1>3, <1>4, Zenon

\* next() takes from a lane that has packets.
LEMMA TopReady ==
  ASSUME NEW o \in Schedulers, Ready(o) # {}
  PROVE  Top(o) \in Ready(o)
<1> DEFINE pri(l) == o.profile.lanes[l].priority
<1>1. \A l \in Lanes : pri(l) \in Nat
  BY SchedulerAssumption, Zenon DEF Schedulers
<1>2. Ready(o) \subseteq Lanes
  BY DEF Ready
<1> HIDE DEF pri
<1>3. \E l \in Ready(o) : \A k \in Ready(o) : pri(k) <= pri(l)
  BY <1>1, <1>2 DEF Lanes
<1>4. QED
  BY <1>3, Zenon DEF Top, pri

\* next keeps the counters and the budgets.
LEMMA NextSound ==
  ASSUME NEW o, Sound(o), Ready(o) # {}
  PROVE  Sound(next(o))
<1>1. o \in Schedulers /\ Top(o) \in Ready(o)
  BY TopReady, Zenon DEF Sound
<1>2. Top(o) \in Lanes /\ o.queues[Top(o)] # <<>>
  BY <1>1, Zenon DEF Ready
<1>3. o.queues[Top(o)] \in Seq(Packets)
  BY <1>1, <1>2, Zenon DEF Schedulers
<1>4. 1 \in 0..Len(o.queues[Top(o)])
  BY <1>2, <1>3
<1>5. QED
  BY <1>2, <1>4, ShiftSound, Zenon DEF next

Emptied(o) == \A l \in Lanes : o.queues[l] = <<>>

\* Empty queues exceed no budget.
LEMMA EmptySound ==
  ASSUME NEW o \in Schedulers, Counted(o), Emptied(o)
  PROVE  Sound(o)
<1>1. PICK f \in Profiles : f = o.profile
  BY DEF Schedulers
<1>2. \A l \in Lanes : Len(o.queues[l]) = 0 /\ o.bytes[l] = 0
  BY BytesNone DEF Emptied, Counted, Tallied
<1>3. o.totalPackets = 0 /\ o.totalBytes = 0
  <2>1. Total(Lengths(o.queues)) = 0
    <3>1. \A l \in Lanes : Lengths(o.queues)[l] = 0
      BY <1>2, Zenon DEF Lengths
    <3>2. QED
      BY <3>1 DEF Total, Lanes
  <2>2. Total(o.bytes) = 0
    BY <1>2 DEF Total, Lanes
  <2>3. QED
    BY <2>1, <2>2, Zenon DEF Counted, Tallied
<1>4. \A l \in Lanes : 0 <= f.lanes[l].maxPackets /\ 0 <= f.lanes[l].maxBytes
  BY Budgets
<1>5. 0 <= f.outbox.maxPackets /\ 0 <= f.outbox.maxBytes
  BY Budgets
<1>6. Within(o)
  BY <1>1, <1>2, <1>3, <1>4, <1>5, Zenon DEF Within
<1>7. QED
  BY <1>6, Zenon DEF Sound

\* clear() empties every lane.
LEMMA Cleared ==
  ASSUME NEW o, Sound(o)
  PROVE  Sound(clear(o)) /\ Emptied(clear(o)) /\ clear(o).profile = o.profile
<1> DEFINE a == clearLane(o, "control")
           b == clearLane(a, "voice")
           c == clearLane(b, "text")
           d == clearLane(c, "file")
<1>1. ASSUME NEW x, Sound(x), NEW l \in Lanes
      PROVE  /\ Sound(clearLane(x, l)) /\ clearLane(x, l).profile = x.profile
             /\ clearLane(x, l).queues[l] = <<>>
             /\ \A m \in Lanes \ {l} : clearLane(x, l).queues[m] = x.queues[m]
  <2>1. x \in Schedulers /\ Counted(x)
    BY <1>1, Zenon DEF Sound
  <2>2. x.queues \in [Lanes -> Seq(Packets)]
    BY <2>1 DEF Schedulers
  <2>3. /\ clearLane(x, l).profile = x.profile
        /\ clearLane(x, l).queues = [x.queues EXCEPT ![l] = <<>>]
    BY <2>1, LaneCleared, Zenon
  <2>4. QED
    BY <1>1, <2>2, <2>3, ClearLaneSound, Zenon
<1> HIDE DEF a, b, c, d
<1>2. /\ Sound(a) /\ a.profile = o.profile /\ a.queues["control"] = <<>>
  BY <1>1, Zenon DEF Lanes, a
<1>3. /\ Sound(b) /\ b.profile = o.profile
      /\ b.queues["control"] = <<>> /\ b.queues["voice"] = <<>>
  BY <1>1, <1>2 DEF Lanes, b
<1>4. /\ Sound(c) /\ c.profile = o.profile
      /\ c.queues["control"] = <<>> /\ c.queues["voice"] = <<>> /\ c.queues["text"] = <<>>
  BY <1>1, <1>3 DEF Lanes, c
<1>5. /\ Sound(d) /\ d.profile = o.profile
      /\ d.queues["control"] = <<>> /\ d.queues["voice"] = <<>> /\ d.queues["text"] = <<>>
      /\ d.queues["file"] = <<>>
  BY <1>1, <1>4 DEF Lanes, d
<1>6. d = clear(o)
  BY DEF a, b, c, d, clear
<1>7. QED
  BY <1>5, <1>6, Zenon DEF Emptied, Lanes

\* Where no lane is ready, every queue is empty.
LEMMA NothingReady ==
  ASSUME NEW o, Ready(o) = {}
  PROVE  Emptied(o)
  BY Zenon DEF Ready, Emptied

\* setProfile on empty queues.
LEMMA ProfileSet ==
  ASSUME NEW o, Sound(o), Emptied(o), NEW f \in Profiles
  PROVE  /\ Sound([o EXCEPT !.profile = f]) /\ Emptied([o EXCEPT !.profile = f])
         /\ [o EXCEPT !.profile = f].profile = f
<1> DEFINE s == [o EXCEPT !.profile = f]
<1>1. o \in Schedulers /\ Counted(o)
  BY DEF Sound
<1>2. s \in Schedulers
  BY <1>1, Zenon DEF Schedulers
<1>3. /\ s.profile = f /\ s.queues = o.queues /\ s.bytes = o.bytes
      /\ s.totalPackets = o.totalPackets /\ s.totalBytes = o.totalBytes
  BY <1>1 DEF Schedulers
<1> HIDE DEF s
<1>4. Counted(s) /\ Emptied(s)
  BY <1>1, <1>3, Zenon DEF Counted, Emptied
<1>5. Sound(s)
  BY <1>2, <1>4, EmptySound, Zenon
<1>6. QED
  BY <1>3, <1>4, <1>5, Zenon DEF s

\* A scheduler starts empty.
LEMMA EmptyInit ==
  ASSUME NEW f \in Profiles
  PROVE  Sound(Empty(f)) /\ Emptied(Empty(f))
<1> DEFINE s == Empty(f)
<1>1. [l \in Lanes |-> <<>>] \in [Lanes -> Seq(Packets)] /\ [l \in Lanes |-> 0] \in [Lanes -> Int]
  OBVIOUS
<1>2. s \in Schedulers
  BY <1>1 DEF Empty, Schedulers
<1>3. /\ \A l \in Lanes : s.queues[l] = <<>> /\ s.bytes[l] = 0
      /\ s.totalPackets = 0 /\ s.totalBytes = 0
  BY Zenon DEF Empty
<1> HIDE DEF s
<1>4. Total(Lengths(s.queues)) = 0 /\ Total(s.bytes) = 0
  <2>1. \A l \in Lanes : Lengths(s.queues)[l] = 0
    BY <1>3 DEF Lengths
  <2>2. QED
    BY <1>3, <2>1 DEF Total, Lanes
<1>5. Counted(s)
  BY <1>3, <1>4, BytesNone, Zenon DEF Counted, Tallied
<1>6. Emptied(s)
  BY <1>3 DEF Emptied
<1>7. QED
  BY <1>2, <1>5, <1>6, EmptySound, Zenon DEF s

\* Sound is what Bounded says, and more.
LEMMA SoundIsBounded == Sound(out) => Bounded
<1> SUFFICES ASSUME Sound(out) PROVE Bounded
  OBVIOUS
<1>1. Counted(out) /\ Within(out)
  BY DEF Sound
<1>2. /\ out.totalPackets = Len(out.queues["control"]) + Len(out.queues["voice"])
                             + Len(out.queues["text"]) + Len(out.queues["file"])
      /\ out.totalBytes = out.bytes["control"] + out.bytes["voice"]
                           + out.bytes["text"] + out.bytes["file"]
  <2>1. \A l \in Lanes : Lengths(out.queues)[l] = Len(out.queues[l])
    BY Zenon DEF Lengths
  <2>2. out.totalPackets = Total(Lengths(out.queues)) /\ out.totalBytes = Total(out.bytes)
    BY <1>1 DEF Counted, Tallied
  <2>3. QED
    BY <2>1, <2>2, Zenon DEF Total, Lanes
<1>3. QED
  BY <1>1, <1>2, Zenon DEF Bounded, Counted, Tallied, Within

\* Every method of PacketScheduler keeps Sound.
LEMMA SchedulerStep == Sound(out) /\ [SchedulerNext]_out => Sound(out)'
<1> SUFFICES ASSUME Sound(out), [SchedulerNext]_out PROVE Sound(out')
  BY DEF Sound, Counted, Within, Tallied
<1>1. ASSUME NEW p \in Packets, Enqueue(p) PROVE Sound(out')
  BY <1>1, EnqueueSound, Zenon DEF Enqueue
<1>2. CASE Dequeue
  BY <1>2, NextSound, Zenon DEF Dequeue
<1>3. CASE ClearVoice
  BY <1>3, ClearLaneSound, Zenon DEF ClearVoice, Lanes
<1>4. CASE Clear
  BY <1>4, Cleared, Zenon DEF Clear
<1>5. ASSUME NEW f \in Profiles, SetProfile(f) PROVE Sound(out')
  <2>1. Emptied(out)
    BY <1>5, NothingReady, Zenon DEF SetProfile
  <2>2. QED
    BY <1>5, <2>1, ProfileSet, Zenon DEF SetProfile
<1>6. CASE UNCHANGED out
  BY <1>6, Zenon
<1>7. QED
  BY <1>1, <1>2, <1>3, <1>4, <1>5, <1>6, Zenon DEF SchedulerNext

\* "keep queues bounded" (SDD.md:898, PacketScheduler.ts): whatever enqueue, next, clearLane
\* and clear are called in whatever order, and setProfile between rooms, the counters
\* equal the sums over the queues and no budget of a lane or the outbox is
\* exceeded, for any profiles and packets.
THEOREM QueuesBounded == SchedulerSpec => []Bounded
<1>1. SchedulerInit => Sound(out)
  BY EmptyInit, Zenon DEF SchedulerInit
<1>2. QED
  BY <1>1, SchedulerStep, SoundIsBounded, PTL DEF SchedulerSpec

-----------------------------------------------------------------------------
(* What the queues hold. *)

Items(o, l) == {o.queues[l][i] : i \in DOMAIN o.queues[l]}

\* Taking packets away adds none.
LEMMA ShiftItems ==
  ASSUME NEW o, Sound(o), NEW l \in Lanes, NEW k \in 0..Len(o.queues[l]), NEW m \in Lanes
  PROVE  Items(Shift(o, l, k), m) \subseteq Items(o, m)
<1> DEFINE s == Shift(o, l, k)
<1>1. o \in Schedulers /\ Counted(o)
  BY Zenon DEF Sound
<1>2. PICK n : LessOldest(o, s, l, k, n)
  BY <1>1, Shifted, Zenon
<1> HIDE DEF s
<1>3. PICK Q \in [Lanes -> Seq(Packets)] : Q = o.queues
  BY <1>1 DEF Schedulers
<1>4. s.queues = [Q EXCEPT ![l] = SubSeq(Q[l], k + 1, Len(Q[l]))]
  BY <1>2, <1>3, Zenon DEF LessOldest
<1>5. CASE m # l
  <2>1. s.queues[m] = o.queues[m]
    BY <1>3, <1>4, <1>5, Zenon
  <2>2. QED
    BY <2>1, Zenon DEF Items, s
<1>6. CASE m = l
  <2>1. s.queues[l] = SubSeq(Q[l], k + 1, Len(Q[l]))
    BY <1>4, Zenon
  <2>2. PICK q \in Seq(Packets), r \in Seq(Packets) :
          q = Q[l] /\ r = SubSeq(q, k + 1, Len(q)) /\ k \in 0..Len(q)
    <3>1. Q[l] \in Seq(Packets) /\ k \in 0..Len(Q[l])
      BY <1>3
    <3>2. SubSeq(Q[l], k + 1, Len(Q[l])) \in Seq(Packets)
      BY <3>1
    <3>3. QED
      BY <3>1, <3>2, Zenon
  <2>3. \A i \in DOMAIN r : i + k \in DOMAIN q /\ r[i] = q[i + k]
    BY <2>2
  <2>4. QED
    <3>1. Items(s, m) = {r[i] : i \in DOMAIN r} /\ Items(o, m) = {q[i] : i \in DOMAIN q}
      BY <1>3, <1>6, <2>1, <2>2, Zenon DEF Items
    <3>2. QED
      BY <2>3, <3>1, Zenon DEF s
<1>7. QED
  BY <1>5, <1>6, Zenon

\* A packet pushed is in its own lane and nowhere else.
LEMMA PushItems ==
  ASSUME NEW o, Sound(o), NEW p \in Packets, NEW m \in Lanes
  PROVE  Items(Push(o, p), m) \subseteq Items(o, m) \cup (IF m = p.lane THEN {p} ELSE {})
<1> DEFINE s == Push(o, p)
<1>1. o \in Schedulers /\ Counted(o)
  BY DEF Sound
<1>2. s.queues = [o.queues EXCEPT ![p.lane] = Append(o.queues[p.lane], p)]
  BY <1>1, Pushed, Zenon
<1>3. PICK Q \in [Lanes -> Seq(Packets)] : Q = o.queues
  BY <1>1, Zenon DEF Schedulers
<1> HIDE DEF s
<1>4. CASE m # p.lane
  <2>1. s.queues[m] = o.queues[m]
    BY <1>2, <1>3, <1>4, Zenon
  <2>2. QED
    BY <2>1, Zenon DEF Items, s
<1>5. CASE m = p.lane
  <2>1. s.queues[m] = Append(Q[m], p)
    BY <1>2, <1>3, <1>5, Zenon
  <2>2. PICK q \in Seq(Packets) : q = Q[m]
    OBVIOUS
  <2>3. \A i \in DOMAIN Append(q, p) : Append(q, p)[i] = p \/ (i \in DOMAIN q /\ Append(q, p)[i] = q[i])
    BY <2>2
  <2>4. QED
    <3>1. /\ Items(s, m) = {Append(q, p)[i] : i \in DOMAIN Append(q, p)}
          /\ Items(o, m) = {q[i] : i \in DOMAIN q}
      BY <1>3, <2>1, <2>2, Zenon DEF Items
    <3>2. QED
      BY <1>5, <2>3, <3>1, Zenon DEF s
<1>6. QED
  BY <1>4, <1>5, Zenon

\* clearLane adds no packet.
LEMMA ClearLaneItems ==
  ASSUME NEW o, Sound(o), NEW l \in Lanes, NEW m \in Lanes
  PROVE  Items(clearLane(o, l), m) \subseteq Items(o, m)
<1> DEFINE s == clearLane(o, l)
<1>1. o \in Schedulers /\ Counted(o)
  BY DEF Sound
<1>2. s.queues = [o.queues EXCEPT ![l] = <<>>]
  BY <1>1, LaneCleared, Zenon
<1>3. o.queues \in [Lanes -> Seq(Packets)]
  BY <1>1, Zenon DEF Schedulers
<1> HIDE DEF s
<1>4. s.queues[m] = IF m = l THEN <<>> ELSE o.queues[m]
  BY <1>2, <1>3, Zenon
<1>5. DOMAIN <<>> = {}
  OBVIOUS
<1>6. QED
  BY <1>4, <1>5, Zenon DEF Items, s

\* enqueue adds at most its packet, and a refused one adds nothing.
LEMMA EnqueueItems ==
  ASSUME NEW o, Sound(o), NEW p \in Packets, NEW m \in Lanes
  PROVE  /\ Items(enqueue(o, p), m) \subseteq Items(o, m) \cup (IF m = p.lane THEN {p} ELSE {})
         /\ ~Accepts(o, p) => Items(enqueue(o, p), m) \subseteq Items(o, m)
<1> DEFINE s == Shift(o, p.lane, Dropped(o, p))
<1>1. p.lane \in Lanes /\ Dropped(o, p) \in 0..Len(o.queues[p.lane])
  BY DroppedRange, SchedulerAssumption, Zenon DEF Sound
<1>2. Sound(s) /\ Items(s, m) \subseteq Items(o, m)
  BY <1>1, ShiftSound, ShiftItems, Zenon
<1> HIDE DEF s
<1>3. Items(Push(s, p), m) \subseteq Items(s, m) \cup (IF m = p.lane THEN {p} ELSE {})
  BY <1>2, PushItems, Zenon
<1>4. enqueue(o, p) = IF Accepts(o, p) THEN Push(s, p) ELSE s
  BY Zenon DEF enqueue, s
<1>5. QED
  BY <1>2, <1>3, <1>4, Zenon

\* next adds no packet.
LEMMA NextItems ==
  ASSUME NEW o, Sound(o), Ready(o) # {}, NEW m \in Lanes
  PROVE  Items(next(o), m) \subseteq Items(o, m)
<1>1. o \in Schedulers /\ Top(o) \in Ready(o)
  BY TopReady, Zenon DEF Sound
<1>2. Top(o) \in Lanes /\ o.queues[Top(o)] # <<>>
  BY <1>1, Zenon DEF Ready
<1>3. o.queues[Top(o)] \in Seq(Packets)
  BY <1>1, <1>2, Zenon DEF Schedulers
<1>4. 1 \in 0..Len(o.queues[Top(o)])
  BY <1>2, <1>3
<1>5. QED
  BY <1>2, <1>4, ShiftItems, Zenon DEF next

\* Each packet is in its own lane's queue.
Filed(o) == \A l \in Lanes : \A p \in Items(o, l) : p.lane = l

\* An emptied scheduler holds no packet.
LEMMA EmptyItems ==
  ASSUME NEW o, Emptied(o), NEW l \in Lanes
  PROVE  Items(o, l) = {}
<1>1. o.queues[l] = <<>> /\ DOMAIN <<>> = {}
  BY DEF Emptied
<1>2. QED
  BY <1>1, Zenon DEF Items

\* Every method keeps each packet in the queue of its own lane.
LEMMA FiledStep ==
  ASSUME Sound(out), Filed(out), [SchedulerNext]_out
  PROVE  Filed(out')
<1>1. ASSUME NEW p \in Packets, Enqueue(p) PROVE Filed(out')
  BY <1>1, EnqueueItems, Zenon DEF Enqueue, Filed
<1>2. CASE Dequeue
  BY <1>2, NextItems, Zenon DEF Dequeue, Filed
<1>3. CASE ClearVoice
  <2>1. "voice" \in Lanes
    BY DEF Lanes
  <2>2. QED
    BY <1>3, <2>1, ClearLaneItems, Zenon DEF ClearVoice, Filed
<1>4. CASE Clear
  BY <1>4, Cleared, EmptyItems, Zenon DEF Clear, Filed
<1>5. ASSUME NEW f \in Profiles, SetProfile(f) PROVE Filed(out')
  <2>1. Emptied(out)
    BY <1>5, NothingReady, Zenon DEF SetProfile
  <2>2. Emptied(out')
    BY <1>5, <2>1, ProfileSet, Zenon DEF SetProfile
  <2>3. QED
    BY <2>2, EmptyItems, Zenon DEF Filed
<1>6. CASE UNCHANGED out
  BY <1>6, Zenon
<1>7. QED
  BY <1>1, <1>2, <1>3, <1>4, <1>5, <1>6, Zenon DEF SchedulerNext

\* Voice frames have one size: without its oldest frame the lane has room for
\* one more.
LEMMA RoomForVoice ==
  ASSUME NEW o, Sound(o), Filed(o), NEW p \in Packets, p.lane = "voice",
         o.queues["voice"] # <<>>
  PROVE  /\ 1 \in 0..Len(o.queues["voice"])
         /\ ~wouldOverflow(Shift(o, "voice", 1), "voice", p.size)
<1> DEFINE l == "voice"
           s == Shift(o, l, 1)
<1>1. o \in Schedulers /\ Counted(o) /\ Within(o) /\ l \in Lanes
  BY DEF Sound, Lanes
<1>2. PICK q \in Seq(Packets) : q = o.queues[l]
  BY <1>1, Zenon DEF Schedulers
<1>3. 1 \in 0..Len(q) /\ Len(q) \in Nat /\ q # <<>> /\ 1 \in DOMAIN q
  BY <1>2
<1>4. PICK n : LessOldest(o, s, l, 1, n)
  BY <1>1, <1>2, <1>3, Shifted, Zenon
<1>5. n = p.size /\ n \in Nat
  <2>0. q[1] \in Packets
    BY <1>2, <1>3
  <2>1. SubSeq(q, 1, 1) = <<q[1]>> /\ q[1] \in Packets
    <3>1. /\ SubSeq(q, 1, 1) \in Seq(Packets) /\ <<q[1]>> \in Seq(Packets)
          /\ Len(SubSeq(q, 1, 1)) = 1 /\ Len(<<q[1]>>) = 1
          /\ SubSeq(q, 1, 1)[1] = q[1] /\ <<q[1]>>[1] = q[1]
      BY <1>2, <1>3, <2>0
    <3>2. \A i \in 1..1 : SubSeq(q, 1, 1)[i] = <<q[1]>>[i]
      BY <3>1
    <3>3. QED
      BY <2>0, <3>1, <3>2, SeqEqual, Zenon
  <2>2. n = Bytes(<<q[1]>>) /\ n \in Nat
    BY <1>2, <1>4, <2>1, Zenon DEF LessOldest
  <2>3. n = q[1].size
    BY <2>1, <2>2, BytesOne, Zenon
  <2>4. q[1] \in Items(o, l)
    BY <1>2, <1>3, Zenon DEF Items
  <2>5. q[1].lane = l
    BY <1>1, <2>4, Zenon DEF Filed
  <2>6. QED
    BY <2>1, <2>2, <2>3, <2>5, SchedulerAssumption, Zenon
<1> HIDE DEF s, l
<1>6. PICK f \in Profiles : f = o.profile
  BY <1>1 DEF Schedulers
<1>7. /\ s.profile = f /\ Len(s.queues[l]) = Len(q) - 1 /\ s.bytes[l] = o.bytes[l] - n
      /\ s.totalPackets = o.totalPackets - 1 /\ s.totalBytes = o.totalBytes - n
  <2>1. o.bytes \in [Lanes -> Int]
    BY <1>1 DEF Schedulers
  <2>2. QED
    BY <1>1, <1>2, <1>4, <1>6, <2>1, Zenon DEF LessOldest
<1>8. /\ Len(q) <= f.lanes[l].maxPackets /\ o.bytes[l] <= f.lanes[l].maxBytes
      /\ o.totalPackets <= f.outbox.maxPackets /\ o.totalBytes <= f.outbox.maxBytes
  BY <1>1, <1>2, <1>6, Zenon DEF Within
<1>9. /\ f.lanes[l].maxPackets \in Nat /\ f.lanes[l].maxBytes \in Nat
      /\ f.outbox.maxPackets \in Nat /\ f.outbox.maxBytes \in Nat
      /\ o.bytes[l] \in Int /\ o.totalPackets \in Int /\ o.totalBytes \in Int
  BY <1>1, Budgets, Zenon DEF Schedulers
<1>10. ~(Len(s.queues[l]) >= f.lanes[l].maxPackets)
  BY <1>3, <1>7, <1>8, <1>9
<1>11. ~(s.bytes[l] + p.size > f.lanes[l].maxBytes)
  <2>1. PICK z \in Int, b \in Int : z = n /\ b = o.bytes[l]
    BY <1>5, <1>9
  <2>2. ~(b - z + z > f.lanes[l].maxBytes)
    BY <1>8, <1>9, <2>1
  <2>3. QED
    BY <1>5, <1>7, <2>1, <2>2, Zenon
<1>12. ~(s.totalPackets >= f.outbox.maxPackets)
  BY <1>7, <1>8, <1>9
<1>13. ~(s.totalBytes + p.size > f.outbox.maxBytes)
  <2>1. PICK z \in Int, b \in Int : z = n /\ b = o.totalBytes
    BY <1>5, <1>9
  <2>2. ~(b - z + z > f.outbox.maxBytes)
    BY <1>8, <1>9, <2>1
  <2>3. QED
    BY <1>5, <1>7, <2>1, <2>2, Zenon
<1>14. ~wouldOverflow(s, l, p.size)
  BY <1>7, <1>10, <1>11, <1>12, <1>13, Zenon DEF wouldOverflow
<1>15. QED
  BY <1>2, <1>3, <1>14, Zenon DEF s, l

\* enqueue leaves other lanes alone, and drops at most the oldest frame of a
\* voice lane, for a frame it accepts.
LEMMA EnqueueQueues ==
  ASSUME NEW o, Sound(o), Filed(o), NEW p \in Packets, NEW l \in Lanes
  PROVE  LET q == o.queues[l]
             r == enqueue(o, p).queues[l]
         IN \/ r = q \/ r = Append(q, p)
            \/ l = "voice" /\ q # <<>> /\ r = Append(SubSeq(q, 2, Len(q)), p)
<1> DEFINE m == p.lane
           k == Dropped(o, p)
           s == Shift(o, m, k)
           t == enqueue(o, p)
           enough == {j \in 0..Len(o.queues[m]) : ~wouldOverflow(Shift(o, m, j), m, p.size)}
<1>1. o \in Schedulers /\ Counted(o) /\ m \in Lanes /\ k \in 0..Len(o.queues[m])
  BY DroppedRange, SchedulerAssumption, Zenon DEF Sound
<1>2. PICK n : LessOldest(o, s, m, k, n)
  BY <1>1, Shifted, Zenon
<1>3. t = IF Accepts(o, p) THEN Push(s, p) ELSE s
  BY Zenon DEF enqueue
<1>4. /\ s \in Schedulers /\ Counted(s)
      /\ s.queues = [o.queues EXCEPT ![m] = SubSeq(o.queues[m], k + 1, Len(o.queues[m]))]
  BY <1>2, Zenon DEF LessOldest
<1>5. Push(s, p).queues = [s.queues EXCEPT ![m] = Append(s.queues[m], p)]
  BY <1>4, Pushed, Zenon
<1>6. PICK Q \in [Lanes -> Seq(Packets)] : Q = o.queues
  BY <1>1, Zenon DEF Schedulers
<1>7. k = 0 \/ (m = "voice" /\ k = 1 /\ Q[m] # <<>> /\ Accepts(o, p))
  <2> SUFFICES ASSUME k # 0 PROVE m = "voice" /\ k = 1 /\ Q[m] # <<>> /\ Accepts(o, p)
    BY Zenon
  <2> HIDE DEF k, s, t
  <2>1. Len(Q[m]) \in Nat /\ Q[m] \in Seq(Packets)
    BY <1>1
  <2>2. Q[m] # <<>>
    BY <1>1, <1>6, <2>1
  <2>3. /\ ~(p.size > o.profile.maxFrameBytes) /\ o.profile.lanes[m].dropPolicy # "fail"
        /\ k = IF enough = {} THEN Len(o.queues[m]) ELSE Min(enough)
    BY Zenon DEF Dropped, k
  <2>4. m = "voice"
    BY <1>1, <2>3, SchedulerAssumption, ZenonT(30) DEF Schedulers
  <2>5. 1 \in enough
    BY <1>6, <2>2, <2>4, RoomForVoice, Zenon
  <2>6. enough \subseteq Nat
    BY <1>6, <2>1
  <2> HIDE DEF enough
  <2>7. k \in enough /\ k <= 1
    BY <2>3, <2>5, <2>6, LeastExists, Zenon
  <2>8. k = 1
    BY <2>6, <2>7
  <2>9. p.size <= o.profile.maxFrameBytes
    <3>1. p.size \in Nat /\ o.profile.maxFrameBytes \in Nat
      BY <1>1, Budgets, SchedulerAssumption, Zenon DEF Schedulers
    <3>2. QED
      BY <2>3, <3>1
  <2>10. Accepts(o, p)
    BY <2>7, <2>9, Zenon DEF Accepts, enough, k, m
  <2>11. QED
    BY <2>2, <2>4, <2>8, <2>10, Zenon
<1> HIDE DEF s, t, k, m
<1>8. CASE l # m
  <2>1. s.queues[l] = Q[l] /\ Push(s, p).queues[l] = s.queues[l]
    BY <1>4, <1>5, <1>6, <1>8, Zenon
  <2>2. t.queues[l] = Q[l]
    BY <1>3, <2>1, Zenon
  <2>3. QED
    BY <1>6, <2>2, Zenon DEF t
<1>9. CASE l = m
  <2>1. s.queues[l] = SubSeq(Q[l], k + 1, Len(Q[l])) /\ Push(s, p).queues[l] = Append(s.queues[l], p)
    BY <1>1, <1>4, <1>5, <1>6, <1>9, Zenon
  <2>2. CASE k = 0
    <3>1. SubSeq(Q[l], 0 + 1, Len(Q[l])) = Q[l]
      BY SubSeqFull
    <3>2. t.queues[l] \in {Q[l], Append(Q[l], p)}
      BY <1>3, <2>1, <2>2, <3>1, Zenon
    <3>3. QED
      BY <1>6, <3>2, Zenon DEF t
  <2>3. CASE k # 0
    <3>1. l = "voice" /\ k + 1 = 2 /\ Q[l] # <<>> /\ Accepts(o, p)
      BY <1>7, <1>9, <2>3
    <3>2. t.queues[l] = Append(SubSeq(Q[l], 2, Len(Q[l])), p)
      BY <1>3, <2>1, <3>1, Zenon
    <3>3. QED
      BY <1>6, <3>1, <3>2, Zenon DEF t
  <2>4. QED
    BY <2>2, <2>3, Zenon
<1>10. QED
  BY <1>8, <1>9, Zenon

\* A queue is a prefix of itself and of what a push makes of it, and its tail is the
\* queue without its first packet.
LEMMA PrefixFacts ==
  ASSUME NEW q \in Seq(Packets), NEW p \in Packets
  PROVE  /\ IsPrefix(q, q) /\ IsPrefix(q, Append(q, p))
         /\ q # <<>> => SubSeq(q, 2, Len(q)) = Tail(q)
<1>1. Len(q) \in Nat /\ Len(Append(q, p)) = Len(q) + 1
  OBVIOUS
<1>2. SubSeq(q, 1, Len(q)) = SubSeq(Append(q, p), 1, Len(q))
  <2>1. SubSeq(q, 1, Len(q)) = q
    BY SubSeqFull
  <2>2. SubSeq(Append(q, p), 1, Len(q)) = q
    <3> DEFINE r == SubSeq(Append(q, p), 1, Len(q))
    <3>1. r \in Seq(Packets) /\ Len(r) = Len(q) /\ \A i \in 1..Len(r) : r[i] = q[i]
      BY <1>1
    <3> HIDE DEF r
    <3>2. r = q
      BY <3>1, SeqEqual, Zenon
    <3>3. QED
      BY <3>2, Zenon DEF r
  <2>3. QED
    BY <2>1, <2>2, Zenon
<1>3. q # <<>> => Tail(q) = SubSeq(q, 2, Len(q))
  BY TailIsSubSeq
<1>4. QED
  BY <1>1, <1>2, <1>3 DEF IsPrefix

\* Every method of PacketScheduler drops by policy only.
LEMMA DropsStep ==
  ASSUME Sound(out), Filed(out), SchedulerNext
  PROVE  Drops
<1> SUFFICES ASSUME NEW l \in Lanes, ~Clear
             PROVE  LET q == out.queues[l]
                        r == out'.queues[l]
                    IN \/ IsPrefix(q, r)
                       \/ Dequeue /\ r = Tail(q)
                       \/ out.profile.lanes[l].dropPolicy = "drop-oldest"
                          /\ (ClearVoice \/ \E p \in Packets : r = Append(Tail(q), p))
  BY Zenon DEF Drops
<1> DEFINE q == out.queues[l]
           r == out'.queues[l]
<1>1. out \in Schedulers /\ Counted(out)
  BY DEF Sound
<1>2. out.queues \in [Lanes -> Seq(Packets)] /\ q \in Seq(Packets) /\ out.profile \in Profiles
  BY <1>1, Zenon DEF Schedulers
<1>3. l = "voice" => out.profile.lanes[l].dropPolicy = "drop-oldest"
  BY <1>2, SchedulerAssumption, Zenon
<1>4. IsPrefix(q, q)
  BY <1>2 DEF IsPrefix
<1>5. ASSUME NEW p \in Packets, Enqueue(p)
      PROVE  \/ IsPrefix(q, r)
             \/ out.profile.lanes[l].dropPolicy = "drop-oldest" /\ r = Append(Tail(q), p)
  <2>1. out' = enqueue(out, p)
    BY <1>5 DEF Enqueue
  <2>2. \/ r = q \/ r = Append(q, p)
        \/ l = "voice" /\ q # <<>> /\ r = Append(SubSeq(q, 2, Len(q)), p)
    BY <2>1, EnqueueQueues, Zenon
  <2> HIDE DEF q, r
  <2>3. QED
    BY <1>2, <1>3, <2>2, PrefixFacts, Zenon
<1>6. CASE Dequeue
  <2>1. Top(out) \in Ready(out) /\ out' = Shift(out, Top(out), 1)
    BY <1>1, <1>6, TopReady, Zenon DEF Dequeue, next
  <2>2. Top(out) \in Lanes /\ out.queues[Top(out)] # <<>>
    BY <2>1, Zenon DEF Ready
  <2>3. 1 \in 0..Len(out.queues[Top(out)])
    BY <1>2, <2>2
  <2>4. PICK n : LessOldest(out, out', Top(out), 1, n)
    BY <1>1, <2>1, <2>2, <2>3, Shifted, Zenon
  <2>5. out'.queues = [out.queues EXCEPT ![Top(out)] =
                        SubSeq(out.queues[Top(out)], 1 + 1, Len(out.queues[Top(out)]))]
    BY <2>4, Zenon DEF LessOldest
  <2>6. CASE l = Top(out)
    <3>1. r = SubSeq(q, 2, Len(q))
      BY <1>2, <2>5, <2>6
    <3>2. r = Tail(q)
      BY <1>2, <2>2, <2>6, <3>1, TailIsSubSeq, Zenon
    <3>3. QED
      BY <1>6, <3>2, Zenon
  <2>7. CASE l # Top(out)
    <3>1. r = q
      BY <1>2, <2>5, <2>7, Zenon
    <3>2. QED
      BY <1>4, <3>1, Zenon
  <2>8. QED
    BY <2>6, <2>7, Zenon
<1>7. CASE ClearVoice
  <2>1. "voice" \in Lanes /\ out' = clearLane(out, "voice")
    BY <1>7 DEF ClearVoice, Lanes
  <2>2. out'.queues = [out.queues EXCEPT !["voice"] = <<>>]
    BY <1>1, <2>1, LaneCleared, Zenon
  <2>3. CASE l # "voice"
    <3>1. r = q
      BY <1>2, <2>2, <2>3, Zenon
    <3>2. QED
      BY <1>4, <3>1, Zenon
  <2>4. QED
    BY <1>3, <1>7, <2>3, Zenon
<1>8. ASSUME NEW f \in Profiles, SetProfile(f) PROVE IsPrefix(q, r)
  <2>1. out'.queues = out.queues
    BY <1>1, <1>8 DEF SetProfile, Schedulers
  <2>2. QED
    BY <1>4, <2>1, Zenon
<1>9. QED
  BY <1>5, <1>6, <1>7, <1>8, Zenon DEF SchedulerNext

\* "never drop; bounded failure" and "latest wins; stale audio drops"
\* (docs/TRANSPORT.md:26-29): in any sequence of calls a queue loses a packet only
\* to next() or clear(), or, in the voice lane, to clearLane or as
\* the one oldest frame that a new frame replaces.
THEOREM DropsOnlyByPolicy == SchedulerSpec => DropsByPolicy
<1>1. SchedulerInit => Sound(out) /\ Filed(out)
  BY EmptyInit, EmptyItems, Zenon DEF SchedulerInit, Filed
<1>2. Sound(out) /\ Filed(out) /\ [SchedulerNext]_out => (Sound(out) /\ Filed(out))'
  <2>1. Filed(out)' <=> Filed(out')
    BY Zenon DEF Filed, Items
  <2>2. QED
    BY SchedulerStep, FiledStep, <2>1, Zenon
<1>3. Sound(out) /\ Filed(out) /\ [SchedulerNext]_out => [Drops]_out
  BY DropsStep, Zenon
<1>4. QED
  BY <1>1, <1>2, <1>3, PTL DEF SchedulerSpec, DropsByPolicy

-----------------------------------------------------------------------------
(* The inductive invariant of Transport. *)

Active == {"connecting", "open", "closing"}

Sockets ==
  /\ sock \in [Socks -> Active \cup {"none", "closed"}] /\ opened \in [Socks -> BOOLEAN]
  /\ ws \in Socks \cup {None} /\ cur \in Socks \cup {None} /\ attempts \in Nat
  /\ status \in {"disconnected", "connecting", "connected", "reconnecting", "failed"}

\* this.ws is the socket of the current epoch or null, and it is null only if
\* that socket is closed or was left on purpose.
Current ==
  /\ ws \in {None, cur}
  /\ ~intentionalClose /\ cur # None /\ sock[cur] \in Active => ws = cur
  /\ IsOpen(ws) => opened[ws]

\* A reconnection is pending only after the current socket has closed.
Pending == reconnectTimer => ws = None /\ cur # None /\ sock[cur] = "closed"

\* Who connects has not left.
Wanted == status \in {"connecting", "reconnecting"} => ~intentionalClose

\* While start() prepares the new room, nothing is left of the old one.
Prepared ==
  startup = "preparing" =>
    phase = "starting" /\ intentionalClose /\ ~reconnectTimer /\ ws = None /\ Emptied(out)

\* What is queued for a socket is queued while it is this.ws; it may outlive the
\* socket only where no further one is opened before the queues are cleared.
Clean ==
  ws # None \/ ~intentionalClose =>
    \A l \in Lanes : \A p \in Items(out, l) : p.born = None \/ (ws # None /\ p.born = ws /\ opened[ws])

\* Whoever is connected or about to be knows a slot token, or is ending the chat.
Known == status \notin {"disconnected", "failed"} => slotToken \/ endTimer

Linked ==
  Sockets /\ NoOrphanSocket /\ Current /\ Pending /\ Wanted /\ Known /\ StatusIsTrue

Queueing == Sound(out) /\ buffered \in Nat /\ Clean /\ NoLostWakeup

IInv == Linked /\ Prepared /\ Queueing

-----------------------------------------------------------------------------
(* The connection. *)

\* Nothing of the connection changes.
LEMMA LinkedFrame ==
  ASSUME Linked, UNCHANGED <<sockVars, connVars, slotToken, endTimer>>
  PROVE  Linked'
<1>1. /\ sock' = sock /\ opened' = opened /\ ws' = ws /\ cur' = cur /\ status' = status
      /\ intentionalClose' = intentionalClose /\ attempts' = attempts
      /\ reconnectTimer' = reconnectTimer /\ slotToken' = slotToken /\ endTimer' = endTimer
  BY Zenon DEF sockVars, connVars
<1>2. Sockets' /\ NoOrphanSocket' /\ Current'
  BY <1>1 DEF Linked, Sockets, NoOrphanSocket, Current, IsOpen
<1>3. Pending' /\ Wanted' /\ Known'
  <2>1. Pending'
    BY <1>1, Zenon DEF Linked, Pending
  <2>2. Wanted'
    BY <1>1, Zenon DEF Linked, Wanted
  <2>3. Known'
    <3>1. (slotToken => slotToken') /\ (endTimer => endTimer')
      <4>1. slotToken' = slotToken
        BY <1>1, Zenon
      <4>2. endTimer' = endTimer
        BY <1>1, Zenon
      <4>3. slotToken => slotToken'
        BY <4>1
      <4>4. endTimer => endTimer'
        BY <4>2
      <4>5. QED
        BY <4>3, <4>4, Zenon
    <3>2. Known
      BY Zenon DEF Linked
    <3>3. QED
      BY <1>1, <3>1, <3>2, Zenon DEF Known
  <2>4. QED
    BY <2>1, <2>2, <2>3, Zenon
<1>4. StatusIsTrue'
  BY <1>1, Zenon DEF Linked, StatusIsTrue
<1>5. QED
  BY <1>2, <1>3, <1>4, Zenon DEF Linked

\* The device leaves: disconnect and start().
LEMMA LinkedLeave ==
  ASSUME Linked, sock' \in [Socks -> Active \cup {"none", "closed"}],
         \A t \in Socks : sock'[t] \notin {"connecting", "open"},
         ws' = None, cur' = cur, opened' = opened, attempts' = attempts,
         intentionalClose' = TRUE, reconnectTimer' = FALSE, status' = "disconnected"
  PROVE  Linked'
<1>1. Sockets' /\ NoOrphanSocket'
  BY Zenon DEF Linked, Sockets, NoOrphanSocket
<1>2. Current'
  BY Zenon DEF Current, IsOpen
<1>3. Pending' /\ Wanted' /\ Known' /\ StatusIsTrue'
  BY Zenon DEF Pending, Wanted, Known, StatusIsTrue
<1>4. QED
  BY <1>1, <1>2, <1>3, Zenon DEF Linked

\* closeSocket leaves no socket open or opening if this.ws is the only such one.
LEMMA ClosesAll ==
  ASSUME NEW f \in [Socks -> Active \cup {"none", "closed"}], NEW w \in Socks \cup {None},
         \A t \in Socks : f[t] \in {"connecting", "open"} => w = t
  PROVE  /\ Closing(f, w) \in [Socks -> Active \cup {"none", "closed"}]
         /\ \A t \in Socks : Closing(f, w)[t] \notin {"connecting", "open"}
<1>1. CASE w # None /\ f[w] \in {"connecting", "open"}
  BY <1>1, Zenon DEF Closing, Active
<1>2. CASE ~(w # None /\ f[w] \in {"connecting", "open"})
  <2>1. Closing(f, w) = f
    BY <1>2, Zenon DEF Closing
  <2>2. QED
    BY <1>2, <2>1, TransportAssumption, Zenon
<1>3. QED
  BY <1>1, <1>2, Zenon

\* A new socket is opened.
LEMMA LinkedOpen ==
  ASSUME Linked, NEW s \in Socks, NEW r \in BOOLEAN, open(s, r), attempts' \in Nat,
         ~intentionalClose', ~reconnectTimer', slotToken' \/ endTimer'
  PROVE  Linked'
<1>1. /\ sock \in [Socks -> Active \cup {"none", "closed"}] /\ opened \in [Socks -> BOOLEAN]
      /\ ws \in Socks \cup {None} /\ \A t \in Socks : sock[t] \in {"connecting", "open"} => ws = t
  BY Zenon DEF Linked, Sockets, NoOrphanSocket
<1>2. /\ sock' = [Closing(sock, ws) EXCEPT ![s] = "connecting"]
      /\ opened' = [opened EXCEPT ![s] = FALSE] /\ ws' = s /\ cur' = s
      /\ status' \in {"connecting", "reconnecting"}
  BY Zenon DEF open
<1>3. /\ Closing(sock, ws) \in [Socks -> Active \cup {"none", "closed"}]
      /\ \A t \in Socks : Closing(sock, ws)[t] \notin {"connecting", "open"}
  BY <1>1, ClosesAll, Zenon
<1>4. /\ sock' \in [Socks -> Active \cup {"none", "closed"}] /\ sock'[s] = "connecting"
      /\ \A t \in Socks : t # s => sock'[t] \notin {"connecting", "open"}
      /\ opened' \in [Socks -> BOOLEAN]
  BY <1>1, <1>2, <1>3, Zenon DEF Active
<1>5. s # None
  BY TransportAssumption, Zenon
<1>6. Sockets' /\ NoOrphanSocket'
  BY <1>2, <1>4, Zenon DEF Sockets, NoOrphanSocket
<1>7. Current'
  BY <1>2, <1>4, Zenon DEF Current, IsOpen
<1>8. Pending' /\ Wanted' /\ Known'
  BY Zenon DEF Pending, Wanted, Known
<1>9. StatusIsTrue'
  BY <1>2, <1>4, <1>5, Zenon DEF StatusIsTrue
<1>10. QED
  BY <1>6, <1>7, <1>8, <1>9, Zenon DEF Linked

\* The socket of the current epoch has closed.
LEMMA LinkedClosed ==
  ASSUME Linked, NEW s \in Socks, s = cur, sock[s] \in Active,
         sock' = Shut(s), ws' = Without(s), cur' = cur, opened' = opened, attempts' \in Nat,
         \/ status' = "reconnecting" /\ reconnectTimer' /\ ~intentionalClose'
            /\ (slotToken' \/ endTimer')
         \/ status' \in {"disconnected", "failed"} /\ reconnectTimer' = reconnectTimer
  PROVE  Linked'
<1>1. /\ sock \in [Socks -> Active \cup {"none", "closed"}] /\ opened \in [Socks -> BOOLEAN]
      /\ \A t \in Socks : sock[t] \in {"connecting", "open"} => ws = t
      /\ ws \in {None, cur} /\ cur \in Socks
  BY Zenon DEF Linked, Sockets, NoOrphanSocket, Current
<1>2. s # None /\ ~reconnectTimer
  BY TransportAssumption, Zenon DEF Linked, Pending, Active
<1>3. /\ sock' \in [Socks -> Active \cup {"none", "closed"}] /\ sock'[cur] = "closed"
      /\ \A t \in Socks : sock'[t] \notin {"connecting", "open"}
  <2>1. \A t \in Socks : sock[t] \in {"connecting", "open"} => t = s
    BY <1>1, TransportAssumption, Zenon
  <2>2. QED
    BY <1>1, <2>1, Zenon DEF Shut, Active
<1>4. ws' = None
  BY <1>1, Zenon DEF Without
<1>5. Sockets' /\ NoOrphanSocket'
  BY <1>1, <1>3, <1>4, Zenon DEF Sockets, NoOrphanSocket
<1>6. Current'
  BY <1>3, <1>4, Zenon DEF Current, IsOpen, Active
<1>7. Pending' /\ Known'
  BY <1>1, <1>2, <1>3, <1>4, Zenon DEF Pending, Known
<1>8. Wanted' /\ StatusIsTrue'
  BY <1>2, <1>4 DEF Wanted, StatusIsTrue
<1>9. QED
  BY <1>5, <1>6, <1>7, <1>8, Zenon DEF Linked

\* disconnect closes the only socket that may be open or opening.
LEMMA LinkedDisconnect ==
  ASSUME Linked, NEW f \in [Socks -> Active \cup {"none", "closed"}], NEW w \in Socks \cup {None},
         \A t \in Socks : f[t] \in {"connecting", "open"} => w = t,
         disconnect(f, w)
  PROVE  Linked'
BY ClosesAll, LinkedLeave, Zenon DEF disconnect

\* disconnect, called with the socket the connection holds.
LEMMA LinkedLeft ==
  ASSUME Linked, disconnect(sock, ws)
  PROVE  Linked'
BY LinkedDisconnect, Zenon DEF Linked, Sockets, NoOrphanSocket

\* Whoever has not left and whose socket is not closed yet has a status to say so.
LEMMA StillHere ==
  ASSUME Linked, NEW s \in Socks, s = cur, sock[s] \in Active, ~intentionalClose
  PROVE  slotToken \/ endTimer
<1>1. ws = s /\ s # None
  BY TransportAssumption, Zenon DEF Linked, Current
<1>2. status \notin {"disconnected", "failed"}
  BY <1>1, Zenon DEF Linked, StatusIsTrue
<1>3. QED
  BY <1>2, Zenon DEF Linked, Known

\* scheduleReconnect, where it is called.
LEMMA Rescheduled ==
  ASSUME Linked, NEW s \in Socks, s = cur, sock[s] \in Active, scheduleReconnect,
         intentionalClose => ~opened[s], intentionalClose' = intentionalClose,
         slotToken' = slotToken, endTimer' = endTimer
  PROVE  /\ attempts' \in Nat
         /\ \/ status' = "reconnecting" /\ reconnectTimer' /\ ~intentionalClose'
               /\ (slotToken' \/ endTimer')
            \/ status' \in {"disconnected", "failed"} /\ reconnectTimer' = reconnectTimer
<1>1. attempts \in Nat /\ status \in {"disconnected", "connecting", "connected", "reconnecting", "failed"}
  BY DEF Linked, Sockets
<1>2. CASE intentionalClose
  <2>1. status' = status /\ attempts' = attempts /\ reconnectTimer' = reconnectTimer
    BY <1>2, Zenon DEF scheduleReconnect
  <2>2. status # "connected"
    BY <1>2, Zenon DEF Linked, StatusIsTrue, Current
  <2>3. status \notin {"connecting", "reconnecting"}
    BY <1>2, Zenon DEF Linked, Wanted
  <2>4. QED
    BY <1>1, <2>1, <2>2, <2>3, Zenon
<1>3. CASE ~intentionalClose
  <2>1. slotToken' \/ endTimer'
    BY <1>3, StillHere, Zenon
  <2>2. \/ status' = "failed" /\ attempts' = attempts /\ reconnectTimer' = reconnectTimer
        \/ status' = "reconnecting" /\ attempts' = attempts + 1 /\ reconnectTimer' = TRUE
    BY <1>3, Zenon DEF scheduleReconnect
  <2>3. attempts' \in Nat
    BY <1>1, <2>2
  <2>4. QED
    BY <1>3, <2>1, <2>2, <2>3, Zenon
<1>4. QED
  BY <1>2, <1>3, Zenon

\* Every step keeps the sockets, the status and the timers in agreement.
LEMMA LinkedStep ==
  ASSUME IInv, [Next]_vars
  PROVE  Linked'
<1>1. Linked /\ Prepared
  BY DEF IInv
<1>2. ASSUME UNCHANGED <<sockVars, connVars, slotToken, endTimer>> PROVE Linked'
  BY <1>1, <1>2, LinkedFrame, Zenon
<1>3. CASE leave
  BY <1>1, <1>3, LinkedLeft, Zenon DEF leave
<1>4. CASE DrainStep \/ DrainTimer \/ Flush \/ FreshEpoch
  BY <1>2, <1>4, Zenon DEF DrainStep, DrainTimer, Flush, FreshEpoch, userVars
<1>5. ASSUME NEW p \in Packets, Send(p) PROVE Linked'
  BY <1>2, <1>5, Zenon DEF Send, userVars
<1>6. CASE EndChat
  <2>1. CASE IsOpen(ws)
    <3>1. endTimer' = TRUE /\ UNCHANGED <<sockVars, connVars>>
      BY <1>6, <2>1, Zenon DEF EndChat
    <3>2. /\ sock' = sock /\ opened' = opened /\ ws' = ws /\ cur' = cur /\ status' = status
          /\ intentionalClose' = intentionalClose /\ attempts' = attempts
          /\ reconnectTimer' = reconnectTimer
      BY <3>1, Zenon DEF sockVars, connVars
    <3>3. Sockets' /\ NoOrphanSocket' /\ Current'
      BY <1>1, <3>2, Zenon DEF Linked, Sockets, NoOrphanSocket, Current, IsOpen
    <3>4. Pending' /\ Wanted' /\ StatusIsTrue'
      BY <1>1, <3>2, Zenon DEF Linked, Pending, Wanted, StatusIsTrue
    <3>5. Known'
      BY <3>1, Zenon DEF Known
    <3>6. QED
      BY <3>3, <3>4, <3>5, Zenon DEF Linked
  <2>2. CASE ~IsOpen(ws)
    BY <1>3, <1>6, <2>2, Zenon DEF EndChat
  <2>3. QED
    BY <2>1, <2>2, Zenon
<1>7. CASE EndTimer \/ EndTask
  BY <1>3, <1>7, Zenon DEF EndTimer, EndTask
<1>8. CASE Begin \/ StartStale
  BY <1>2, <1>8, Zenon DEF Begin, StartStale
<1>9. CASE StartFails
  BY <1>1, <1>9, LinkedLeft, Zenon DEF StartFails
<1>10. ASSUME NEW f \in Profiles, Start(f) PROVE Linked'
  <2>1. /\ sock' = Closing(sock, ws) /\ ws' = None /\ cur' = cur /\ opened' = opened
        /\ attempts' = attempts /\ intentionalClose' = TRUE /\ reconnectTimer' = FALSE
        /\ status' = "disconnected"
    BY <1>10, Zenon DEF Start
  <2>2. QED
    BY <1>1, <2>1, ClosesAll, LinkedLeave, Zenon DEF Linked, Sockets, NoOrphanSocket
<1>11. ASSUME NEW s \in Socks, connect(s) PROVE Linked'
  <2>1. /\ open(s, FALSE) /\ attempts' = 0 /\ ~intentionalClose' /\ slotToken'
        /\ reconnectTimer' = reconnectTimer /\ startup = "preparing"
    BY <1>11, Zenon DEF connect
  <2>2. ~reconnectTimer'
    BY <1>1, <2>1, Zenon DEF Prepared
  <2>3. attempts' \in Nat /\ FALSE \in BOOLEAN
    BY <2>1, Zenon
  <2>4. QED
    BY <1>1, <2>1, <2>2, <2>3, LinkedOpen, Zenon
<1>12. ASSUME NEW s \in Socks, Opens(s) PROVE Linked'
  <2>1. /\ sock[s] = "connecting" /\ sock' = [sock EXCEPT ![s] = "open"]
        /\ ws' = ws /\ cur' = cur /\ intentionalClose' = intentionalClose
        /\ reconnectTimer' = reconnectTimer /\ slotToken' = slotToken /\ endTimer' = endTimer
    BY <1>12, Zenon DEF Opens
  <2>2. ws = s /\ s # None /\ s = cur
    BY <1>1, <2>1, TransportAssumption, Zenon DEF Linked, NoOrphanSocket, Current
  <2>3. opened' = [opened EXCEPT ![s] = TRUE] /\ attempts' = 0 /\ status' = "connected"
    BY <1>12, <2>2, Zenon DEF Opens
  <2>4. /\ sock \in [Socks -> Active \cup {"none", "closed"}] /\ opened \in [Socks -> BOOLEAN]
    BY <1>1, Zenon DEF Linked, Sockets
  <2>5. Sockets'
    BY <1>1, <2>1, <2>3, <2>4, Zenon DEF Linked, Sockets, Active
  <2>6. NoOrphanSocket'
    BY <1>1, <2>1, <2>2, <2>4, Zenon DEF Linked, NoOrphanSocket
  <2>7. Current'
    BY <2>1, <2>2, <2>3, <2>4, Zenon DEF Current, IsOpen
  <2>8. ~reconnectTimer
    BY <1>1, <2>2, Zenon DEF Linked, Pending
  <2>9. status \notin {"disconnected", "failed"}
    BY <1>1, <2>2, Zenon DEF Linked, StatusIsTrue
  <2>10. Pending' /\ Wanted' /\ Known'
    BY <1>1, <2>1, <2>3, <2>8, <2>9, Zenon DEF Linked, Pending, Wanted, Known
  <2>11. StatusIsTrue'
    BY <2>1, <2>2, <2>3, <2>4, Zenon DEF StatusIsTrue
  <2>12. QED
    BY <2>5, <2>6, <2>7, <2>10, <2>11, Zenon DEF Linked
<1>13. ASSUME NEW s \in Socks, Closes(s) PROVE Linked'
  <2>1. /\ sock[s] = "open" /\ sock' = [sock EXCEPT ![s] = "closing"]
        /\ UNCHANGED <<opened, ws, cur, status, intentionalClose, attempts, reconnectTimer,
                       slotToken, endTimer>>
    BY <1>13, Zenon DEF Closes, connVars, userVars
  <2>2. /\ sock \in [Socks -> Active \cup {"none", "closed"}] /\ ws \in {None, cur}
        /\ ws \in Socks \cup {None} /\ cur \in Socks \cup {None}
    BY <1>1, Zenon DEF Linked, Sockets, Current
  <2>3. Sockets'
    BY <1>1, <2>1, <2>2, Zenon DEF Linked, Sockets, Active
  <2>4. NoOrphanSocket'
    BY <1>1, <2>1, <2>2, Zenon DEF Linked, NoOrphanSocket
  <2>5. Current'
    BY <1>1, <2>1, <2>2, TransportAssumption, Zenon DEF Linked, Current, IsOpen, Active
  <2>6. Pending' /\ Wanted' /\ Known'
    BY <1>1, <2>1, <2>2, Zenon DEF Linked, Pending, Wanted, Known
  <2>7. StatusIsTrue'
    BY <1>1, <2>1, <2>2, Zenon DEF Linked, StatusIsTrue
  <2>8. QED
    BY <2>3, <2>4, <2>5, <2>6, <2>7, Zenon DEF Linked
<1>14. ASSUME NEW s \in Socks, MessageEnded(s) PROVE Linked'
  <2>1. /\ sock[s] = "open" /\ s = cur /\ intentionalClose' = TRUE
        /\ UNCHANGED <<sock, opened, ws, cur, status, attempts, reconnectTimer, slotToken, endTimer>>
    BY <1>14, Zenon DEF MessageEnded, sockVars
  <2>2. ws = cur
    BY <1>1, <2>1, Zenon DEF Linked, NoOrphanSocket
  <2>3. Sockets' /\ NoOrphanSocket' /\ Pending' /\ Known'
    BY <1>1, <2>1, Zenon DEF Linked, Sockets, NoOrphanSocket, Pending, Known
  <2>4. Current'
    BY <1>1, <2>1, Zenon DEF Linked, Current, IsOpen
  <2>5. status \notin {"connecting", "reconnecting"}
    BY <1>1, <2>1, <2>2, Zenon DEF Linked, Pending, StatusIsTrue
  <2>6. Wanted' /\ StatusIsTrue'
    BY <1>1, <2>1, <2>5, Zenon DEF Linked, Wanted, StatusIsTrue
  <2>7. QED
    BY <2>3, <2>4, <2>6, Zenon DEF Linked
<1>15. ASSUME NEW s \in Socks, Closed(s) PROVE Linked'
  <2>1. sock[s] \in Active /\ s # None
    BY <1>15, TransportAssumption, Zenon DEF Closed, Active
  <2>2. /\ sock \in [Socks -> Active \cup {"none", "closed"}] /\ ws \in {None, cur}
        /\ ws \in Socks \cup {None} /\ cur \in Socks \cup {None} /\ attempts \in Nat
        /\ \A t \in Socks : sock[t] \in {"connecting", "open"} => ws = t
    BY <1>1 DEF Linked, Sockets, Current, NoOrphanSocket
  <2>3. CASE ClosedOld(s)
    <3>1. /\ s # cur /\ sock' = [sock EXCEPT ![s] = "closed"]
          /\ UNCHANGED <<opened, ws, cur, status, intentionalClose, attempts, reconnectTimer,
                         slotToken, endTimer>>
      BY <2>3, Zenon DEF ClosedOld, Shut, connVars, userVars
    <3>2. sock' \in [Socks -> Active \cup {"none", "closed"}] /\ \A t \in Socks : t # s => sock'[t] = sock[t]
      BY <2>2, <3>1, Zenon
    <3>3. sock'[s] = "closed"
      BY <2>2, <3>1, Zenon
    <3>4. cur # None => sock'[cur] = sock[cur]
      BY <2>2, <3>1, <3>2, Zenon
    <3>5. Sockets' /\ NoOrphanSocket'
      BY <1>1, <3>1, <3>2, <3>3, Zenon DEF Linked, Sockets, NoOrphanSocket
    <3>6. Current'
      BY <1>1, <2>2, <3>1, <3>4, Zenon DEF Linked, Current, IsOpen
    <3>7. Pending' /\ Wanted' /\ Known'
      BY <1>1, <3>1, <3>4, Zenon DEF Linked, Pending, Wanted, Known
    <3>8. StatusIsTrue'
      BY <1>1, <2>2, <3>1, <3>4, Zenon DEF Linked, StatusIsTrue
    <3>9. QED
      BY <3>5, <3>6, <3>7, <3>8, Zenon DEF Linked
  <2>4. CASE ConnectFails(s)
    <3>1. s = cur /\ disconnect(Shut(s), Without(s))
      BY <2>4, Zenon DEF ConnectFails
    <3>2. /\ Shut(s) \in [Socks -> Active \cup {"none", "closed"}]
          /\ \A t \in Socks : Shut(s)[t] = IF t = s THEN "closed" ELSE sock[t]
      BY <2>2, Zenon DEF Shut
    <3>3. Without(s) = None
      BY <2>2, <3>1, Zenon DEF Without
    <3>4. \A t \in Socks : Shut(s)[t] \notin {"connecting", "open"}
      BY <2>2, <3>1, <3>2, TransportAssumption, Zenon
    <3>5. QED
      BY <1>1, <3>1, <3>2, <3>3, <3>4, LinkedDisconnect, Zenon
  <2>5. CASE ReconnectFails(s)
    <3>1. /\ s = cur /\ ~opened[s] /\ sock' = Shut(s) /\ ws' = Without(s) /\ scheduleReconnect
          /\ cur' = cur /\ opened' = opened /\ intentionalClose' = intentionalClose
          /\ slotToken' = slotToken /\ endTimer' = endTimer
      BY <2>5, Zenon DEF ReconnectFails, userVars
    <3>2. QED
      BY <1>1, <2>1, <3>1, Rescheduled, LinkedClosed, Zenon
  <2>6. CASE ClosedByEnd(s)
    BY <1>1, <2>1, <2>2, <2>6, LinkedClosed, Zenon DEF ClosedByEnd
  <2>7. CASE ClosedOnPurpose(s)
    BY <1>1, <2>1, <2>2, <2>7, LinkedClosed, Zenon DEF ClosedOnPurpose
  <2>8. CASE Lost(s)
    <3>1. /\ s = cur /\ ~intentionalClose /\ sock' = Shut(s) /\ ws' = Without(s) /\ scheduleReconnect
          /\ cur' = cur /\ opened' = opened /\ intentionalClose' = intentionalClose
          /\ slotToken' = slotToken /\ endTimer' = endTimer
      BY <2>8, Zenon DEF Lost, userVars
    <3>2. QED
      BY <1>1, <2>1, <3>1, Rescheduled, LinkedClosed, Zenon
  <2>9. QED
    BY <1>15, <2>3, <2>4, <2>5, <2>6, <2>7, <2>8, Zenon DEF Closed
<1>16. ASSUME NEW s \in Socks, Reconnect(s) PROVE Linked'
  <2>1. /\ reconnectTimer /\ reconnectTimer' = FALSE
        /\ intentionalClose' = intentionalClose /\ attempts' = attempts
        /\ slotToken' = slotToken /\ endTimer' = endTimer
    BY <1>16, Zenon DEF Reconnect, userVars
  <2>2. CASE intentionalClose
    <3>1. sock' = sock /\ opened' = opened /\ ws' = ws /\ cur' = cur /\ status' = status
      BY <1>16, <2>2, Zenon DEF Reconnect, sockVars
    <3>2. status \notin {"connecting", "reconnecting"}
      BY <1>1, <2>2, Zenon DEF Linked, Wanted
    <3>3. Sockets' /\ NoOrphanSocket' /\ Current'
      BY <1>1, <2>1, <3>1, Zenon DEF Linked, Sockets, NoOrphanSocket, Current, IsOpen
    <3>4. Pending' /\ Wanted' /\ Known'
      BY <1>1, <2>1, <3>1, Zenon DEF Linked, Pending, Wanted, Known
    <3>5. StatusIsTrue'
      BY <1>1, <2>1, <3>1, <3>2, Zenon DEF Linked, StatusIsTrue
    <3>6. QED
      BY <3>3, <3>4, <3>5, Zenon DEF Linked
  <2>3. CASE ~intentionalClose
    <3>1. open(s, TRUE)
      BY <1>16, <2>3, Zenon DEF Reconnect
    <3>2. slotToken' \/ endTimer'
      BY <1>1, <2>1, Zenon DEF Linked, StatusIsTrue, Known
    <3>3. attempts' \in Nat /\ TRUE \in BOOLEAN
      BY <1>1, <2>1, Zenon DEF Linked, Sockets
    <3>4. QED
      BY <1>1, <2>1, <2>3, <3>1, <3>2, <3>3, LinkedOpen, Zenon
  <2>4. QED
    BY <2>2, <2>3, Zenon
<1>17. CASE UNCHANGED vars
  BY <1>2, <1>17, Zenon DEF vars, userVars
<1>18. QED
  BY <1>4, <1>5, <1>6, <1>7, <1>8, <1>9, <1>10, <1>11, <1>12, <1>13, <1>14, <1>15, <1>16, <1>17, Zenon
     DEF Next

-----------------------------------------------------------------------------
(* The queue under the connection. *)

\* next() returns a packet.
LEMMA NextIsPacket ==
  ASSUME NEW o, Sound(o), Ready(o) # {}
  PROVE  NextPacket(o) \in Packets
<1>1. o \in Schedulers /\ Top(o) \in Ready(o)
  BY TopReady, Zenon DEF Sound
<1>2. Top(o) \in Lanes /\ o.queues[Top(o)] # <<>>
  BY <1>1, Zenon DEF Ready
<1>3. o.queues[Top(o)] \in Seq(Packets)
  BY <1>1, <1>2, Zenon DEF Schedulers
<1>4. QED
  BY <1>2, <1>3 DEF NextPacket

\* Fewer packets, fewer lanes with packets.
LEMMA ReadyLess ==
  ASSUME NEW o, Sound(o), NEW s, Sound(s), \A l \in Lanes : Items(s, l) \subseteq Items(o, l)
  PROVE  Ready(s) \subseteq Ready(o)
<1> SUFFICES ASSUME NEW l \in Ready(s) PROVE l \in Ready(o)
  BY Zenon
<1>1. l \in Lanes /\ s.queues[l] # <<>>
  BY Zenon DEF Ready
<1>2. s.queues[l] \in Seq(Packets) /\ o.queues[l] \in Seq(Packets)
  BY <1>1, Zenon DEF Sound, Schedulers
<1>3. 1 \in DOMAIN s.queues[l]
  BY <1>1, <1>2
<1>4. Items(s, l) # {}
  BY <1>3, Zenon DEF Items
<1>5. Items(o, l) # {}
  BY <1>1, <1>4, Zenon
<1>6. DOMAIN <<>> = {}
  OBVIOUS
<1>7. o.queues[l] # <<>>
  BY <1>5, <1>6, Zenon DEF Items
<1>8. QED
  BY <1>1, <1>7, Zenon DEF Ready

\* An emptied scheduler has no lane ready.
LEMMA EmptyReady ==
  ASSUME NEW o, Emptied(o)
  PROVE  Ready(o) = {}
BY DEF Emptied, Ready

\* A round of drain()'s loop only takes packets away, and ends with an empty
\* queue, with another round to come, or with a timer set.
LEMMA IterateQueue ==
  ASSUME NEW o, Sound(o), NEW isOpen, NEW timer, buffered \in Nat, Iterate(o, isOpen, timer)
  PROVE  /\ Sound(out') /\ buffered' \in Nat
         /\ \A l \in Lanes : Items(out', l) \subseteq Items(o, l)
         /\ isOpen => Ready(out') = {} \/ draining' \/ drainTimer'
<1> DEFINE u == WithoutLateVoice(o)
<1>1. "voice" \in Lanes
  BY DEF Lanes
<1>2. u = o \/ u = clearLane(o, "voice")
  BY Zenon DEF WithoutLateVoice
<1>3. Sound(u) /\ \A l \in Lanes : Items(u, l) \subseteq Items(o, l)
  BY <1>1, <1>2, ClearLaneSound, ClearLaneItems, Zenon
<1> HIDE DEF u
<1>4. CASE ~isOpen
  BY <1>4, Zenon DEF Iterate
<1>5. CASE isOpen /\ buffered > o.profile.maxBuffered
  BY <1>5, Zenon DEF Iterate
<1>6. CASE isOpen /\ ~(buffered > o.profile.maxBuffered) /\ Ready(u) = {}
  <2>1. out' = u /\ buffered' = buffered
    BY <1>6, Zenon DEF Iterate, u
  <2>2. QED
    BY <1>3, <1>6, <2>1, Zenon
<1>7. CASE isOpen /\ ~(buffered > o.profile.maxBuffered) /\ Ready(u) # {}
  <2>1. /\ out' = next(u) /\ buffered' = buffered + NextPacket(u).size
        /\ draining' = (buffered' <= o.profile.resume)
        /\ drainTimer' = (timer \/ buffered' > o.profile.resume)
    BY <1>7, Zenon DEF Iterate, u
  <2>2. NextPacket(u).size \in Nat
    BY <1>3, <1>7, NextIsPacket, SchedulerAssumption, Zenon
  <2>3. buffered' \in Nat
    BY <2>1, <2>2
  <2>4. o.profile.resume \in Nat
    BY TransportAssumption, Zenon DEF Sound, Schedulers
  <2>5. buffered' <= o.profile.resume \/ buffered' > o.profile.resume
    BY <2>3, <2>4
  <2>6. draining' \/ drainTimer'
    BY <2>1, <2>5, Zenon
  <2>7. Sound(out') /\ \A l \in Lanes : Items(out', l) \subseteq Items(u, l)
    BY <1>3, <1>7, <2>1, NextSound, NextItems, Zenon
  <2>8. QED
    BY <1>3, <2>3, <2>6, <2>7, Zenon
<1>8. QED
  BY <1>4, <1>5, <1>6, <1>7, Zenon

\* drain() only takes packets away, and does not leave a packet of an open connection
\* behind without a loop or a timer that will serve it.
LEMMA DrainQueue ==
  ASSUME NEW o, Sound(o), NEW isOpen, buffered \in Nat, drain(o, isOpen)
  PROVE  /\ Sound(out') /\ buffered' \in Nat
         /\ \A l \in Lanes : Items(out', l) \subseteq Items(o, l)
         /\ isOpen => Ready(out') = {} \/ draining' \/ drainTimer'
<1>1. CASE draining \/ ~isOpen
  <2>1. out' = o /\ buffered' = buffered /\ draining' = draining
    BY <1>1, Zenon DEF drain, drainVars
  <2>2. draining => draining'
    BY <2>1, Zenon
  <2>3. QED
    BY <1>1, <2>1, <2>2, Zenon
<1>2. CASE ~(draining \/ ~isOpen)
  <2>1. Iterate(o, isOpen, FALSE)
    BY <1>2, Zenon DEF drain
  <2>2. QED
    BY <2>1, IterateQueue, Zenon
<1>3. QED
  BY <1>1, <1>2, Zenon

\* The queues were cleared.
LEMMA QueueCleared ==
  ASSUME Sound(out'), Emptied(out'), buffered' \in Nat
  PROVE  Queueing'
<1>1. Ready(out') = {} /\ \A l \in Lanes : Items(out', l) = {}
  BY EmptyReady, EmptyItems, Zenon
<1>2. Ready(out)' = Ready(out') /\ \A l \in Lanes : Items(out, l)' = Items(out', l)
  BY Zenon DEF Ready, Items
<1>3. Clean' /\ NoLostWakeup'
  BY <1>1, <1>2, Zenon DEF Clean, NoLostWakeup
<1>4. Sound(out)' <=> Sound(out')
  BY Zenon DEF Sound, Counted, Within, Tallied
<1>5. QED
  BY <1>3, <1>4, Zenon DEF Queueing

\* The queues changed under an unchanged connection.
LEMMA QueueUsed ==
  ASSUME Queueing, Current, Sound(out'), buffered' \in Nat,
         \A l \in Lanes : \A x \in Items(out', l) :
           x \in Items(out, l) \/ x.born = IF IsOpen(ws) THEN ws ELSE None,
         IsOpen(ws) => Ready(out') = {} \/ draining' \/ drainTimer',
         UNCHANGED sockVars, intentionalClose => intentionalClose'
  PROVE  Queueing'
<1>1. sock' = sock /\ opened' = opened /\ ws' = ws
  BY DEF sockVars
<1>2. IsOpen(ws)' <=> IsOpen(ws)
  BY <1>1, Zenon DEF IsOpen
<1>3. Ready(out)' = Ready(out') /\ \A l \in Lanes : Items(out, l)' = Items(out', l)
  BY Zenon DEF Ready, Items
<1>4. NoLostWakeup'
  BY <1>2, <1>3, Zenon DEF NoLostWakeup
<1>5. Clean'
  <2> SUFFICES ASSUME ws # None \/ ~intentionalClose, NEW l \in Lanes, NEW x \in Items(out', l)
               PROVE  x.born = None \/ (ws # None /\ x.born = ws /\ opened[ws])
    BY <1>1, <1>3, Zenon DEF Clean
  <2>1. CASE x \in Items(out, l)
    BY <2>1, Zenon DEF Queueing, Clean
  <2>2. CASE x.born = IF IsOpen(ws) THEN ws ELSE None
    BY <2>2, Zenon DEF Current, IsOpen
  <2>3. QED
    BY <2>1, <2>2, Zenon
<1>6. Sound(out)' <=> Sound(out')
  BY Zenon DEF Sound, Counted, Within, Tallied
<1>7. QED
  BY <1>4, <1>5, <1>6, Zenon DEF Queueing

\* The queues are as before, and no socket is open that was not.
LEMMA QueueKept ==
  ASSUME Queueing, out' = out, buffered' \in Nat, Clean',
         IsOpen(ws)' => IsOpen(ws) /\ draining' = draining /\ drainTimer' = drainTimer
  PROVE  Queueing'
<1>1. Ready(out)' = Ready(out) /\ (Sound(out)' <=> Sound(out))
  BY Zenon DEF Ready, Sound, Counted, Within, Tallied
<1>2. NoLostWakeup'
  <2> SUFFICES ASSUME IsOpen(ws)', Ready(out) # {} PROVE draining' \/ drainTimer'
    BY <1>1, Zenon DEF NoLostWakeup
  <2>1. draining' = draining
    OBVIOUS
  <2>2. drainTimer' = drainTimer
    OBVIOUS
  <2>3. draining \/ drainTimer
    BY Zenon DEF Queueing, NoLostWakeup
  <2>4. (draining => draining') /\ (drainTimer => drainTimer')
    BY <2>1, <2>2, Zenon
  <2>5. QED
    BY <2>3, <2>4, Zenon
<1>3. QED
  BY <1>1, <1>2, Zenon DEF Queueing

\* Every step keeps what is said of the queue.
LEMMA QueueingStep ==
  ASSUME IInv, [Next]_vars
  PROVE  Queueing'
<1>1. /\ Linked /\ Prepared /\ Queueing /\ Current /\ Sound(out) /\ buffered \in Nat
      /\ Pending /\ NoOrphanSocket /\ Sockets
  BY DEF IInv, Linked, Queueing
<1>2. ASSUME out' = clear(out), buffered' = buffered PROVE Queueing'
  BY <1>1, <1>2, Cleared, QueueCleared, Zenon
<1>3. ASSUME UNCHANGED <<out, sockVars, draining, drainTimer, buffered>>,
             intentionalClose => intentionalClose'
      PROVE  Queueing'
  <2>1. /\ out' = out /\ sock' = sock /\ opened' = opened /\ ws' = ws /\ draining' = draining
        /\ drainTimer' = drainTimer /\ buffered' = buffered
    BY <1>3, Zenon DEF sockVars
  <2>2. IsOpen(ws)' => IsOpen(ws)
    BY <2>1, Zenon DEF IsOpen
  <2>3. Clean'
    BY <1>1, <1>3, <2>1, ZenonT(60) DEF Queueing, Clean, Items
  <2>4. QED
    BY <1>1, <2>1, <2>2, <2>3, QueueKept, Zenon
<1>4. CASE leave
  BY <1>2, <1>4, Zenon DEF leave, disconnect
<1>5. CASE DrainStep
  <2>1. /\ Iterate(out, IsOpen(ws), drainTimer) /\ UNCHANGED sockVars
        /\ intentionalClose' = intentionalClose
    BY <1>5, Zenon DEF DrainStep, connVars
  <2>2. /\ Sound(out') /\ buffered' \in Nat
        /\ \A l \in Lanes : Items(out', l) \subseteq Items(out, l)
        /\ IsOpen(ws) => Ready(out') = {} \/ draining' \/ drainTimer'
    BY <1>1, <2>1, IterateQueue, Zenon
  <2>3. QED
    BY <1>1, <2>1, <2>2, QueueUsed, Zenon
<1>6. CASE DrainTimer
  <2>1. UNCHANGED sockVars /\ intentionalClose' = intentionalClose
    BY <1>6, Zenon DEF DrainTimer, connVars
  <2>2. CASE draining \/ ~IsOpen(ws)
    <3>1. out' = out /\ draining' = draining /\ buffered' = buffered
      BY <1>6, <2>2, Zenon DEF DrainTimer
    <3>2. draining => draining'
      BY <3>1, Zenon
    <3>3. QED
      BY <1>1, <2>1, <2>2, <3>1, <3>2, QueueUsed, Zenon
  <2>3. CASE ~(draining \/ ~IsOpen(ws))
    <3>1. Iterate(out, TRUE, FALSE)
      BY <1>6, <2>3, Zenon DEF DrainTimer
    <3>2. /\ Sound(out') /\ buffered' \in Nat
          /\ \A l \in Lanes : Items(out', l) \subseteq Items(out, l)
          /\ Ready(out') = {} \/ draining' \/ drainTimer'
      BY <1>1, <3>1, IterateQueue, Zenon
    <3>3. QED
      BY <1>1, <2>1, <3>2, QueueUsed, Zenon
  <2>4. QED
    BY <2>2, <2>3, Zenon
<1>7. CASE Flush
  <2>1. /\ out' = out /\ UNCHANGED sockVars /\ intentionalClose' = intentionalClose
        /\ draining' = draining /\ drainTimer' = drainTimer /\ buffered' = buffered - 1 /\ buffered > 0
    BY <1>7, Zenon DEF Flush, connVars
  <2>2. buffered' \in Nat
    BY <1>1, <2>1
  <2>3. sock' = sock /\ opened' = opened /\ ws' = ws
    BY <2>1, Zenon DEF sockVars
  <2>4. Clean'
    BY <1>1, <2>1, <2>3, ZenonT(60) DEF Queueing, Clean, Items
  <2>5. IsOpen(ws)' => IsOpen(ws)
    BY <2>3, Zenon DEF IsOpen
  <2>6. QED
    BY <1>1, <2>1, <2>2, <2>4, <2>5, QueueKept, Zenon
<1>8. CASE FreshEpoch
  BY <1>2, <1>8, Zenon DEF FreshEpoch
<1>9. ASSUME NEW p \in Packets, Send(p) PROVE Queueing'
  <2>1. /\ p.born = (IF IsOpen(ws) THEN ws ELSE None) /\ send(p) /\ UNCHANGED sockVars
        /\ intentionalClose' = intentionalClose
    BY <1>9, Zenon DEF Send, connVars
  <2>2. Sound(enqueue(out, p))
    BY <1>1, EnqueueSound, Zenon
  <2>3. CASE out' = out /\ UNCHANGED drainVars
    <3>1. UNCHANGED <<out, sockVars, draining, drainTimer, buffered>>
      BY <2>1, <2>3, Zenon DEF drainVars
    <3>2. QED
      BY <1>3, <2>1, <3>1, Zenon
  <2>4. CASE drain(enqueue(out, p), IsOpen(ws))
    <3>1. /\ Sound(out') /\ buffered' \in Nat
          /\ \A l \in Lanes : Items(out', l) \subseteq Items(enqueue(out, p), l)
          /\ IsOpen(ws) => Ready(out') = {} \/ draining' \/ drainTimer'
      BY <1>1, <2>2, <2>4, DrainQueue, Zenon
    <3>2. \A l \in Lanes : \A x \in Items(out', l) : x \in Items(out, l) \/ x = p
      BY <1>1, <3>1, EnqueueItems, Zenon
    <3>3. QED
      BY <1>1, <2>1, <3>1, <3>2, QueueUsed, Zenon
  <2>5. CASE ~Accepts(out, p) /\ out' = enqueue(out, p) /\ UNCHANGED drainVars
    <3>1. \A l \in Lanes : Items(out', l) \subseteq Items(out, l)
      BY <1>1, <2>5, EnqueueItems, Zenon
    <3>2. Ready(out') \subseteq Ready(out)
      BY <1>1, <2>2, <2>5, <3>1, ReadyLess, Zenon
    <3>3. draining' = draining
      BY <2>5, Zenon DEF drainVars
    <3>4. drainTimer' = drainTimer
      BY <2>5, Zenon DEF drainVars
    <3>5. (draining => draining') /\ (drainTimer => drainTimer')
      BY <3>3, <3>4, Zenon
    <3>6. IsOpen(ws) => Ready(out') = {} \/ draining' \/ drainTimer'
      BY <1>1, <3>2, <3>5, Zenon DEF Queueing, NoLostWakeup
    <3>7. buffered' \in Nat
      BY <1>1, <2>5, Zenon DEF drainVars
    <3>8. QED
      BY <1>1, <2>1, <2>2, <2>5, <3>1, <3>6, <3>7, QueueUsed, Zenon
  <2>6. QED
    BY <2>1, <2>3, <2>4, <2>5, Zenon DEF send
<1>10. CASE EndChat
  <2>1. CASE IsOpen(ws)
    <3>1. UNCHANGED <<out, sockVars, draining, drainTimer, buffered>> /\ intentionalClose' = intentionalClose
      BY <1>10, <2>1, Zenon DEF EndChat, connVars, drainVars
    <3>2. QED
      BY <1>3, <3>1, Zenon
  <2>2. CASE ~IsOpen(ws)
    BY <1>4, <1>10, <2>2, Zenon DEF EndChat
  <2>3. QED
    BY <2>1, <2>2, Zenon
<1>11. CASE EndTimer \/ EndTask
  BY <1>4, <1>11, Zenon DEF EndTimer, EndTask
<1>12. CASE Begin \/ StartStale
  <2>1. UNCHANGED <<out, sockVars, draining, drainTimer, buffered>> /\ intentionalClose' = intentionalClose
    BY <1>12, Zenon DEF Begin, StartStale, connVars, drainVars
  <2>2. QED
    BY <1>3, <2>1, Zenon
<1>13. CASE StartFails
  BY <1>2, <1>13, Zenon DEF StartFails, disconnect
<1>14. ASSUME NEW f \in Profiles, Start(f) PROVE Queueing'
  <2>1. out' = [clear(out) EXCEPT !.profile = f] /\ buffered' = buffered
    BY <1>14, Zenon DEF Start
  <2>2. Sound(clear(out)) /\ Emptied(clear(out))
    BY <1>1, Cleared, Zenon
  <2>3. Sound(out') /\ Emptied(out')
    BY <2>1, <2>2, ProfileSet, Zenon
  <2>4. QED
    BY <1>1, <2>1, <2>3, QueueCleared, Zenon
<1>15. ASSUME NEW s \in Socks, connect(s) PROVE Queueing'
  <2>1. out' = out /\ buffered' = 0 /\ startup = "preparing"
    BY <1>15, Zenon DEF connect, open
  <2>2. Emptied(out)
    BY <1>1, <2>1, Zenon DEF Prepared
  <2>3. buffered' \in Nat
    BY <2>1, Zenon
  <2>4. QED
    BY <1>1, <2>1, <2>2, <2>3, QueueCleared, Zenon
<1>16. ASSUME NEW s \in Socks, Opens(s) PROVE Queueing'
  <2>1. /\ sock[s] = "connecting" /\ sock' = [sock EXCEPT ![s] = "open"] /\ ws' = ws
        /\ intentionalClose' = intentionalClose
    BY <1>16, Zenon DEF Opens
  <2>2. ws = s /\ s # None /\ s = cur
    BY <1>1, <2>1, TransportAssumption, Zenon DEF NoOrphanSocket, Current
  <2>3. opened' = [opened EXCEPT ![s] = TRUE] /\ drain(out, TRUE)
    BY <1>16, <2>2, Zenon DEF Opens
  <2>4. /\ Sound(out') /\ buffered' \in Nat
        /\ \A l \in Lanes : Items(out', l) \subseteq Items(out, l)
        /\ Ready(out') = {} \/ draining' \/ drainTimer'
    BY <1>1, <2>3, DrainQueue, Zenon
  <2>5. opened'[s]
    BY <1>1, <2>3, Zenon DEF Sockets
  <2>6. Ready(out)' = Ready(out') /\ \A l \in Lanes : Items(out, l)' = Items(out', l)
    BY Zenon DEF Ready, Items
  <2>7. NoLostWakeup'
    BY <2>4, <2>6, Zenon DEF NoLostWakeup
  <2>8. Clean'
    BY <1>1, <2>1, <2>2, <2>4, <2>5, <2>6, Zenon DEF Queueing, Clean
  <2>9. Sound(out)' <=> Sound(out')
    BY Zenon DEF Sound, Counted, Within, Tallied
  <2>10. QED
    BY <2>4, <2>7, <2>8, <2>9, Zenon DEF Queueing
<1>17. ASSUME NEW s \in Socks,
              (Closes(s) \/ (Closed(s) /\ ClosedOld(s)))
       PROVE  Queueing'
  <2>1. /\ out' = out /\ opened' = opened /\ ws' = ws /\ intentionalClose' = intentionalClose
        /\ draining' = draining /\ drainTimer' = drainTimer /\ buffered' = buffered
    BY <1>17, Zenon DEF Closes, ClosedOld, connVars, drainVars
  <2>2. sock' = [sock EXCEPT ![s] = "closing"] \/ sock' = [sock EXCEPT ![s] = "closed"]
    BY <1>17, Zenon DEF Closes, ClosedOld, Shut
  <2>3. IsOpen(ws)' => IsOpen(ws)
    BY <1>1, <2>1, <2>2, Zenon DEF IsOpen, Sockets
  <2>4. Clean'
    BY <1>1, <2>1, ZenonT(60) DEF Queueing, Clean, Items
  <2>5. QED
    BY <1>1, <2>1, <2>3, <2>4, QueueKept, Zenon
<1>18. ASSUME NEW s \in Socks, MessageEnded(s) PROVE Queueing'
  <2>1. UNCHANGED <<out, sockVars, draining, drainTimer, buffered>> /\ intentionalClose' = TRUE
    BY <1>18, Zenon DEF MessageEnded, drainVars
  <2>2. QED
    BY <1>3, <2>1, Zenon
<1>19. ASSUME NEW s \in Socks, Closed(s) PROVE Queueing'
  <2>1. CASE ClosedOld(s)
    BY <1>17, <1>19, <2>1, Zenon
  <2>2. CASE ConnectFails(s)
    BY <1>2, <2>2, Zenon DEF ConnectFails, disconnect
  <2>3. CASE ReconnectFails(s)
    <3>1. /\ s = cur /\ ~opened[s] /\ ws' = Without(s) /\ out' = out /\ opened' = opened
          /\ intentionalClose' = intentionalClose /\ buffered' = buffered
      BY <2>3, Zenon DEF ReconnectFails, drainVars
    <3>2. ws' = None /\ ws \in {None, s}
      BY <1>1, <3>1, Zenon DEF Without, Current
    <3>3. Clean'
      BY <1>1, <3>1, <3>2, ZenonT(60) DEF Queueing, Clean, Items
    <3>4. QED
      BY <1>1, <3>1, <3>2, <3>3, QueueKept, Zenon DEF IsOpen
  <2>4. CASE ClosedByEnd(s)
    BY <1>2, <2>4, Zenon DEF ClosedByEnd
  <2>5. CASE ClosedOnPurpose(s)
    <3>1. /\ s = cur /\ intentionalClose /\ ws' = Without(s) /\ out' = out
          /\ intentionalClose' = intentionalClose /\ buffered' = buffered
      BY <2>5, Zenon DEF ClosedOnPurpose, drainVars
    <3>2. ws' = None
      BY <1>1, <3>1, Zenon DEF Without, Current
    <3>3. intentionalClose'
      BY <3>1, Zenon
    <3>4. Clean'
      BY <3>2, <3>3, Zenon DEF Clean
    <3>5. QED
      BY <1>1, <3>1, <3>2, <3>4, QueueKept, Zenon DEF IsOpen
  <2>6. CASE Lost(s)
    BY <1>2, <2>6, Zenon DEF Lost
  <2>7. QED
    BY <1>19, <2>1, <2>2, <2>3, <2>4, <2>5, <2>6, Zenon DEF Closed
<1>20. ASSUME NEW s \in Socks, Reconnect(s) PROVE Queueing'
  <2>1. /\ reconnectTimer /\ out' = out /\ intentionalClose' = intentionalClose
        /\ draining' = draining /\ drainTimer' = drainTimer
    BY <1>20, Zenon DEF Reconnect
  <2>2. CASE intentionalClose
    <3>1. UNCHANGED <<out, sockVars, draining, drainTimer, buffered>>
      BY <1>20, <2>1, <2>2, Zenon DEF Reconnect
    <3>2. QED
      BY <1>3, <2>1, <3>1, Zenon
  <2>3. CASE ~intentionalClose
    <3>1. open(s, TRUE)
      BY <1>20, <2>3, Zenon DEF Reconnect
    <3>2. ws' = s /\ sock' = [Closing(sock, ws) EXCEPT ![s] = "connecting"] /\ buffered' = 0
      BY <3>1, Zenon DEF open
    <3>3. ws = None
      BY <1>1, <2>1, Zenon DEF Pending
    <3>4. sock'[s] = "connecting"
      BY <1>1, <3>2, <3>3, Zenon DEF Closing, Sockets
    <3>5. Clean'
      BY <1>1, <2>1, <2>3, <3>3, ZenonT(60) DEF Queueing, Clean, Items
    <3>6. ~IsOpen(ws)' /\ buffered' \in Nat
      BY <3>2, <3>4 DEF IsOpen
    <3>7. QED
      BY <1>1, <2>1, <3>5, <3>6, QueueKept, Zenon
  <2>4. QED
    BY <2>2, <2>3, Zenon
<1>21. CASE UNCHANGED vars
  <2>1. UNCHANGED <<out, sockVars, draining, drainTimer, buffered>> /\ intentionalClose' = intentionalClose
    BY <1>21, Zenon DEF vars, connVars, drainVars
  <2>2. QED
    BY <1>3, <2>1, Zenon
<1>22. QED
  BY <1>5, <1>6, <1>7, <1>8, <1>9, <1>10, <1>11, <1>12, <1>13, <1>14, <1>15, <1>16, <1>17, <1>18, <1>19,
     <1>20, <1>21, Zenon DEF Next

\* Every step keeps what start() relies on while it prepares a room.
LEMMA PreparedStep ==
  ASSUME IInv, [Next]_vars
  PROVE  Prepared'
<1> SUFFICES ASSUME startup' = "preparing"
             PROVE  /\ phase' = "starting" /\ intentionalClose' /\ ~reconnectTimer' /\ ws' = None
                    /\ Emptied(out')
  <2>1. Emptied(out)' <=> Emptied(out')
    BY Zenon DEF Emptied
  <2>2. QED
    BY <2>1, Zenon DEF Prepared
<1>1. /\ Linked /\ Prepared /\ Queueing /\ Current /\ Sound(out) /\ buffered \in Nat
      /\ NoOrphanSocket /\ Sockets
  BY DEF IInv, Linked, Queueing
<1>2. ASSUME NEW f \in Profiles, Start(f)
      PROVE  /\ phase' = "starting" /\ intentionalClose' /\ ~reconnectTimer' /\ ws' = None
             /\ Emptied(out')
  <2>1. /\ out' = [clear(out) EXCEPT !.profile = f] /\ intentionalClose' = TRUE
        /\ reconnectTimer' = FALSE /\ ws' = None /\ phase' = "starting"
    BY <1>2, Zenon DEF Start
  <2>2. Sound(clear(out)) /\ Emptied(clear(out))
    BY <1>1, Cleared, Zenon
  <2>3. QED
    BY <2>1, <2>2, ProfileSet, Zenon
<1>3. ASSUME startup = "preparing", \A f \in Profiles : ~Start(f)
      PROVE  /\ phase' = "starting" /\ intentionalClose' /\ ~reconnectTimer' /\ ws' = None
             /\ Emptied(out')
  <2>1. phase = "starting" /\ intentionalClose /\ ~reconnectTimer /\ ws = None /\ Emptied(out)
    BY <1>1, <1>3, Zenon DEF Prepared
  <2>2. ~IsOpen(ws) /\ \A s \in Socks : sock[s] \notin {"connecting", "open"}
    BY <1>1, <2>1, TransportAssumption, Zenon DEF IsOpen, NoOrphanSocket
  <2>3. CASE UNCHANGED <<out, ws, phase, intentionalClose, reconnectTimer>>
    BY <2>1, <2>3, Zenon
  <2>4. CASE DrainStep \/ DrainTimer \/ Flush
    <3>1. out' = out
      BY <2>2, <2>4, Zenon DEF DrainStep, DrainTimer, Flush, Iterate
    <3>2. UNCHANGED <<ws, phase, intentionalClose, reconnectTimer>>
      BY <2>4, Zenon DEF DrainStep, DrainTimer, Flush, sockVars, connVars, userVars
    <3>3. QED
      BY <2>3, <3>1, <3>2, Zenon
  <2>5. ~FreshEpoch /\ ~EndChat /\ \A q \in Packets : ~Send(q)
    BY <2>1, Zenon DEF FreshEpoch, EndChat, Send
  <2>6. ~EndTimer /\ ~EndTask
    <3>1. leave => startup' = "stale"
      BY <1>3, Zenon DEF leave
    <3>2. QED
      BY <3>1, Zenon DEF EndTimer, EndTask
  <2>7. ~Begin /\ ~StartStale /\ ~StartFails
    BY <1>3, Zenon DEF Begin, StartStale, StartFails
  <2>8. ASSUME NEW s \in Socks
        PROVE  ~connect(s) /\ ~Opens(s) /\ ~Closes(s) /\ ~MessageEnded(s) /\ ~Reconnect(s)
    <3>1. ~connect(s)
      BY DEF connect
    <3>2. ~Opens(s) /\ ~Closes(s) /\ ~MessageEnded(s)
      BY <2>2, Zenon DEF Opens, Closes, MessageEnded
    <3>3. ~Reconnect(s)
      BY <2>1, Zenon DEF Reconnect
    <3>4. QED
      BY <3>1, <3>2, <3>3, Zenon
  <2>9. ASSUME NEW s \in Socks, Closed(s)
        PROVE  /\ phase' = "starting" /\ intentionalClose' /\ ~reconnectTimer' /\ ws' = None
               /\ Emptied(out')
    <3>1. ~ConnectFails(s) /\ ~Lost(s)
      BY <2>1, Zenon DEF ConnectFails, Lost
    <3>2. CASE ClosedOld(s)
      BY <2>3, <3>2, Zenon DEF ClosedOld, connVars, userVars
    <3>3. CASE ReconnectFails(s)
      <4>1. /\ out' = out /\ intentionalClose' = intentionalClose /\ phase' = phase
            /\ ws' = Without(s) /\ scheduleReconnect
        BY <3>3, Zenon DEF ReconnectFails, userVars
      <4>2. ws' = ws /\ reconnectTimer' = reconnectTimer
        BY <2>1, <4>1, Zenon DEF Without, scheduleReconnect
      <4>3. QED
        BY <2>3, <4>1, <4>2, Zenon
    <3>4. CASE ClosedByEnd(s)
      <4>1. /\ out' = clear(out) /\ intentionalClose' = TRUE /\ phase' = phase
            /\ ws' = Without(s) /\ reconnectTimer' = reconnectTimer
        BY <3>4, Zenon DEF ClosedByEnd
      <4>2. Emptied(clear(out))
        BY <1>1, Cleared, Zenon
      <4>3. ws' = ws
        BY <2>1, <4>1, Zenon DEF Without
      <4>4. QED
        BY <2>1, <4>1, <4>2, <4>3, Zenon
    <3>5. CASE ClosedOnPurpose(s)
      <4>1. /\ out' = out /\ intentionalClose' = intentionalClose /\ phase' = phase
            /\ ws' = Without(s) /\ reconnectTimer' = reconnectTimer
        BY <3>5, Zenon DEF ClosedOnPurpose, userVars
      <4>2. ws' = ws
        BY <2>1, <4>1, Zenon DEF Without
      <4>3. QED
        BY <2>3, <4>1, <4>2, Zenon
    <3>6. QED
      BY <2>9, <3>1, <3>2, <3>3, <3>4, <3>5, Zenon DEF Closed
  <2>10. CASE UNCHANGED vars
    BY <2>3, <2>10, Zenon DEF vars, sockVars, connVars, userVars
  <2>11. QED
    BY <1>3, <2>4, <2>5, <2>6, <2>7, <2>8, <2>9, <2>10, Zenon DEF Next
<1>4. ASSUME startup # "preparing", \A f \in Profiles : ~Start(f)
      PROVE  FALSE
  <2>1. CASE UNCHANGED startup
    BY <1>4, <2>1, Zenon
  <2>2. CASE DrainStep \/ DrainTimer \/ Flush \/ FreshEpoch \/ UNCHANGED vars
    BY <2>1, <2>2, Zenon DEF DrainStep, DrainTimer, Flush, FreshEpoch, vars, userVars
  <2>3. ASSUME NEW q \in Packets, Send(q) PROVE FALSE
    BY <2>1, <2>3, Zenon DEF Send, userVars
  <2>4. leave => FALSE
    BY <1>4, Zenon DEF leave
  <2>5. ~EndChat /\ ~EndTimer /\ ~EndTask
    BY <2>1, <2>4, Zenon DEF EndChat, EndTimer, EndTask
  <2>6. ~Begin /\ ~StartStale /\ ~StartFails
    BY Zenon DEF Begin, StartStale, StartFails
  <2>7. ASSUME NEW s \in Socks
        PROVE  ~connect(s) /\ ~Closes(s) /\ ~MessageEnded(s) /\ ~Reconnect(s)
    <3>1. ~connect(s)
      BY DEF connect
    <3>2. ~Closes(s) /\ ~MessageEnded(s) /\ ~Reconnect(s)
      BY <2>1, Zenon DEF Closes, MessageEnded, Reconnect, userVars
    <3>3. QED
      BY <3>1, <3>2, Zenon
  <2>8. ASSUME NEW s \in Socks PROVE ~Opens(s)
    <3>1. Opens(s) => startup' = "none" \/ startup' = startup
      BY Zenon DEF Opens
    <3>2. QED
      BY <1>4, <3>1, Zenon
  <2>9. ASSUME NEW s \in Socks PROVE ~Closed(s)
    <3>1. ~ConnectFails(s)
      BY DEF ConnectFails
    <3>2. ~ClosedOld(s) /\ ~ReconnectFails(s) /\ ~ClosedByEnd(s) /\ ~ClosedOnPurpose(s) /\ ~Lost(s)
      BY <2>1, Zenon DEF ClosedOld, ReconnectFails, ClosedByEnd, ClosedOnPurpose, Lost, userVars
    <3>3. QED
      BY <3>1, <3>2, Zenon DEF Closed
  <2>10. QED
    BY <1>4, <2>2, <2>3, <2>5, <2>6, <2>7, <2>8, <2>9, Zenon DEF Next
<1>5. QED
  BY <1>2, <1>3, <1>4, Zenon

\* The invariant holds before the first connection.
LEMMA TransportInit ==
  ASSUME Init
  PROVE  IInv
<1>1. Sound(out) /\ Emptied(out)
  BY EmptyInit, Zenon DEF Init, SchedulerInit
<1>2. Ready(out) = {} /\ \A l \in Lanes : Items(out, l) = {}
  BY <1>1, EmptyReady DEF Emptied, Items
<1>3. Queueing
  <2>1. Clean /\ NoLostWakeup
    BY <1>2, Zenon DEF Clean, NoLostWakeup
  <2>2. buffered \in Nat
    BY Zenon DEF Init
  <2>3. QED
    BY <1>1, <2>1, <2>2, Zenon DEF Queueing
<1>4. Prepared
  BY Zenon DEF Init, Prepared
<1>5. Sockets /\ NoOrphanSocket
  BY TransportAssumption, Zenon DEF Init, Sockets, NoOrphanSocket
<1>6. Current /\ Pending /\ Wanted /\ Known
  BY TransportAssumption, Zenon DEF Init, Current, Pending, Wanted, Known, IsOpen
<1>7. StatusIsTrue
  BY DEF Init, StatusIsTrue
<1>8. QED
  BY <1>3, <1>4, <1>5, <1>6, <1>7, Zenon DEF IInv, Linked

\* The inductive invariant of a client's connection, for any number of sockets,
\* any lane budgets and any profiles (WebSocketConnection.ts).
THEOREM ConnectionInvariance == Spec => []IInv
<1>1. Init => IInv
  BY TransportInit, Zenon
<1>2. IInv /\ [Next]_vars => IInv'
  BY LinkedStep, PreparedStep, QueueingStep, Zenon DEF IInv
<1>3. QED
  BY <1>1, <1>2, PTL DEF Spec

\* A socket that is open or opening is this.ws, whatever createRoom, disconnect,
\* a lost connection and the reconnect timer do in whatever order (open,
\* closeSocket).
THEOREM OneConnection == Spec => []NoOrphanSocket
<1>1. IInv => NoOrphanSocket
  BY DEF IInv, Linked
<1>2. QED
  BY <1>1, ConnectionInvariance, PTL

\* Whenever packets wait for an open connection, drain()'s loop is running or a
\* drain timer is pending (drain, scheduleDrain, clearDrainTimer).
THEOREM QueueIsServed == Spec => []NoLostWakeup
<1>1. IInv => NoLostWakeup
  BY DEF IInv, Queueing
<1>2. QED
  BY <1>1, ConnectionInvariance, PTL

\* No packet queued for one connection is in the queue of another: every way of
\* replacing a socket that was open clears the queue first (onclose, disconnect,
\* start).
THEOREM NothingCarriedOver == Spec => []NoCarryOver
<1>1. IInv => NoCarryOver
  <2>1. SUFFICES ASSUME IInv, IsOpen(ws), NEW l \in Lanes, NEW i \in DOMAIN out.queues[l]
                 PROVE  out.queues[l][i].born \in {None, ws}
    BY Zenon DEF NoCarryOver
  <2>2. Clean /\ ws # None
    BY <2>1, Zenon DEF IInv, Queueing, IsOpen
  <2>3. out.queues[l][i] \in Items(out, l)
    BY Zenon DEF Items
  <2>4. QED
    BY <2>2, <2>3, Zenon DEF Clean
<1>2. QED
  BY <1>1, ConnectionInvariance, PTL

\* The status that the user sees agrees with the sockets and the reconnect timer
\* (setStatus in open, onopen, onclose, scheduleReconnect and disconnect).
THEOREM StatusAgrees == Spec => []StatusIsTrue
<1>1. IInv => StatusIsTrue
  BY DEF IInv, Linked
<1>2. QED
  BY <1>1, ConnectionInvariance, PTL

\* A device that connects or reconnects knows its slot token, unless it is
\* ending the chat and its fallback timer is pending (forgetSlotToken).
THEOREM SlotKnown == Spec => []SlotIsKnown
<1>1. IInv => SlotIsKnown
  BY DEF IInv, Linked, Known, SlotIsKnown
<1>2. QED
  BY <1>1, ConnectionInvariance, PTL
==============================================================================

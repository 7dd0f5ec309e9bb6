----------------------------- MODULE AbdProofs ------------------------------
(***************************************************************************)
(* Proofs about quorum replication (AbdHistory).  When each register has    *)
(* one writer, whose puts of it do not overlap, and gets do not write back,  *)
(* an acknowledged put is on a whole quorum, survives crashes of fewer       *)
(* servers than that, and is seen by every get and scan that starts          *)
(* afterwards.  Whoever writes, a client's own operations are ordered, and a  *)
(* tag names one value if its puts do not overlap its other operations.       *)
(***************************************************************************)
EXTENDS AbdHistory, DsTagProofs

\* Client c issues puts of register k.
Writes(c, k) == "put" \in Ops[c] /\ k \in PutKeys[c]

\* A register is written by one client only.
OneWriter == \A c, d \in Client, k \in Key : Writes(c, k) /\ Writes(d, k) => c = d

Putting(f) == step[f] \in {"ReadSeq", "OptimisticChain", "CAS"}

\* No two puts of a register are in progress at the same time.
PutsDisjoint ==
    \A f, g \in OpFut : Putting(f) /\ Putting(g) /\ key[f] = key[g] => f = g

-----------------------------------------------------------------------------
(***************************************************************************)
(* The invariant.                                                           *)
(***************************************************************************)

\* What f has posted to slot i and is not yet executed.
Out(f, i) == Within(sq[Owner(f)][i], f)

\* A request of f to slot i has failed.
Failed(f, i) ==
    \E m \in 1 .. Len(cq[Owner(f)][i]) :
        cq[Owner(f)][i][m].fut = f /\ cq[Owner(f)][i][m].ok = FALSE

\* Slot i has executed what f asked of it last.
Closed(f, i) == Out(f, i) = {} /\ ~Failed(f, i)

\* The work requests that f may be waiting for at slot i.
Asked(f, i) ==
    CASE step[f] = "ReadSeq" -> {ReadWR(f, key[f])}
      [] step[f] \in {"OptimisticChain", "CAS"} ->
           {CasWR(f, key[f], expected[f][i], target_reg[f])}
      [] step[f] = "Reading" -> IF f \in OpFut THEN {ReadWR(f, key[f])}
                                ELSE {BulkWR(f, k) : k \in KeysOf(f)}
      [] step[f] = "WritingBack" ->
           {w \in WorkRequest : w.fut = f /\ w.op = "cas" /\ w.key = key[f]}
      [] OTHER -> {}

\* Every queue holds at most one request of each future, the one that the
\* future's state says, and none of its earlier requests there has failed.
QueuesSingle == \A c \in Client, i \in Slot : Single(sq[c][i])
Waits(f, i) ==
    /\ Out(f, i) \subseteq Asked(f, i)
    /\ Out(f, i) # {} \/ step[f] = "Done" => ~Failed(f, i)
QueuesMatch == \A f \in Fut, i \in Slot : Waits(f, i)

\* A future is in a state of its operation, and a put is one its client issues.
FutureSane(f) ==
    /\ step[f] = "WritingBack" => RegWriteback
    /\ f \in RangeFut => step[f] \in {"Done", "Reading"}
    /\ Putting(f) => Writes(Owner(f), key[f])

\* Register k on the server of client c's slot i.
Copy(c, i, k) == mem[quorum_indices(c, i)][k]

\* The put f found R on its whole quorum: a slot that has executed its request
\* answered R, and holds the target now if that was a CAS that expected R.
\* Every slot's CAS expects the same, and after the first round what was found.
PutSlot(f, i, R) ==
    /\ Closed(f, i) => bufs[f][i] = R
    /\ Copy(Owner(f), i, key[f]) =
         IF Closed(f, i) /\ step[f] # "ReadSeq" /\ expected[f][i] = R
         THEN target_reg[f] ELSE R
    /\ step[f] = "CAS" => needs_cas[f][i] /\ expected[f][i] = R
    /\ step[f] = "OptimisticChain" => expected[f][i] = expected[f][1]
PutShape(f, R) == \A i \in Slot : PutSlot(f, i, R)
PutsShaped ==
    \A f \in OpFut : Putting(f) =>
        \E R \in Register : PutShape(f, R) /\ RegLeq(acked[key[f]], R)

\* Between two puts the writer's quorum holds one register, not below the
\* largest tag acknowledged.
Busy(c, k) == \E f \in OpFut : Owner(f) = c /\ Putting(f) /\ key[f] = k
Level(c, k, R) == \A i \in Slot : Copy(c, i, k) = R
IdleShaped ==
    \A c \in Client, k \in Key : Writes(c, k) /\ ~Busy(c, k) =>
        \E R \in Register : Level(c, k, R) /\ RegLeq(acked[k], R)

\* A register that nobody writes has no acknowledged put.
Unwritten == \A k \in Key : (\A c \in Client : ~Writes(c, k)) => acked[k] = ZeroRegister

\* The server s is in the quorum of the writer of k.
OnWriter(s, k) == \E c \in Client : Writes(c, k) /\ \E j \in Slot : s = quorum_indices(c, j)

\* What was acknowledged when an operation started still is.
FloorOK ==
    \A f \in Fut : /\ floor[f].ack \in [Key -> Register]
                   /\ \A k \in Key : RegLeq(floor[f].ack[k], acked[k])

\* What a get or a scan has read from a server of the writer's quorum is not
\* below what had been acknowledged when it started.
GetSees(f) ==
    step[f] = "Reading" =>
      \A i \in Slot : Closed(f, i) /\ OnWriter(quorum_indices(Owner(f), i), key[f])
                        => RegLeq(floor[f].ack[key[f]], bufs[f][i])
Passed(f, i, k) == ~Failed(f, i) /\ \A w \in Out(f, i) : k < w.key
ScanSees(f) ==
    step[f] = "Reading" =>
      \A i \in Slot, k \in KeysOf(f) :
         Passed(f, i, k) /\ OnWriter(quorum_indices(Owner(f), i), k)
           => RegLeq(floor[f].ack[k], bulk_bufs[f][i][k])
Sees(f) == (f \in OpFut => GetSees(f)) /\ (f \in RangeFut => ScanSees(f))

StoreInv == TagInv /\ QueuesSingle /\ QueuesMatch /\ (\A f \in Fut : FutureSane(f))
WriteInv == acked \in [Key -> Register] /\ PutsShaped /\ IdleShaped /\ Unwritten
ReadInv == FloorOK /\ \A f \in Fut : Sees(f)
AbdInv == StoreInv /\ WriteInv /\ ReadInv

-----------------------------------------------------------------------------
(***************************************************************************)
(* Tags, and quorums.                                                       *)
(***************************************************************************)
LEMMA TagOrder ==
    /\ \A a, b, c \in Register : RegLeq(a, b) /\ RegLeq(b, c) => RegLeq(a, c)
    /\ \A a \in Register : RegLeq(a, a) /\ RegLeq(ZeroRegister, a)
    /\ \A a, b \in Register : a.seq < b.seq => RegLeq(a, b)
    /\ \A a, b \in Register : RegLeq(a, b) \/ RegLeq(b, a)
<1>1. \A a \in Register : a.seq \in Nat /\ a.client_id \in Nat
  BY LowFacts
<1> QED
  BY <1>1 DEF RegLeq, RegLess, ZeroRegister

\* The register of two with the larger tag.
LEMMA NewestOfTwo ==
    ASSUME NEW a \in Register, NEW b \in Register
    PROVE  /\ Newest({a, b}) \in {a, b}
           /\ RegLeq(a, Newest({a, b})) /\ RegLeq(b, Newest({a, b}))
<1>1. \E m \in {a, b} : \A r \in {a, b} : ~RegLess(m, r)
  BY TagOrder DEF RegLeq
<1>2. /\ Newest({a, b}) \in {a, b}
      /\ \A r \in {a, b} : ~RegLess(Newest({a, b}), r)
  BY <1>1 DEF Newest
<1> QED
  BY <1>2 DEF RegLeq

\* The slots of a client are on different servers.
LEMMA SlotsDiffer ==
    ASSUME NEW c \in Client, NEW i \in Slot, NEW j \in Slot,
           quorum_indices(c, i) = quorum_indices(c, j)
    PROVE  i = j
<1> DEFINE o == client_idx(c)
           x == o + i - 1
           y == o + j - 1
           n == NumServers
<1>1. /\ x \in Nat /\ y \in Nat /\ n \in Nat /\ n > 0
      /\ x - y < n /\ y - x < n /\ i = x - o + 1 /\ j = y - o + 1 /\ o \in Int
  BY ServersAssumption, QuorumAssumption, NumClientsAssumption, ClientIdxType DEF Client, Slot
<1>2. x % n = y % n
  BY DEF quorum_indices
<1> HIDE DEF o, x, y, n
<1> DEFINE a == x \div n
           b == y \div n
<1>3. a \in Int /\ b \in Int /\ x = n * a + (x % n) /\ y = n * b + (y % n)
  BY <1>1
<1>4. x % n \in Int
  BY <1>1
<1> HIDE DEF a, b
<1>5. a = b
  <2>1. CASE a < b
    <3>1. n * b >= n * (a + 1)
      BY <1>1, <1>3, <2>1
    <3>2. n * (a + 1) = n * a + n
      BY <1>1, <1>3
    <3> QED
      BY <1>1, <1>2, <1>3, <1>4, <3>1, <3>2
  <2>2. CASE b < a
    <3>1. n * a >= n * (b + 1)
      BY <1>1, <1>3, <2>2
    <3>2. n * (b + 1) = n * b + n
      BY <1>1, <1>3
    <3> QED
      BY <1>1, <1>2, <1>3, <1>4, <3>1, <3>2
  <2> QED
    BY <1>3, <2>1, <2>2
<1>6. x = y
  BY <1>2, <1>3, <1>5
<1> QED
  BY <1>1, <1>6

\* A client's quorum has Quorum servers.
Replicas(c) == {quorum_indices(c, i) : i \in Slot}

LEMMA ReplicasCount ==
    ASSUME NEW c \in Client
    PROVE  /\ IsFiniteSet(Replicas(c)) /\ Cardinality(Replicas(c)) = Quorum
           /\ Replicas(c) \subseteq Server
<1>1. IsFiniteSet(Slot) /\ Cardinality(Slot) = Quorum
  BY FS_Interval, QuorumAssumption, ServersAssumption DEF Slot
<1> DEFINE h == [i \in Slot |-> quorum_indices(c, i)]
<1>2. h \in Bijection(Slot, Replicas(c))
  BY SlotsDiffer DEF Bijection, Injection, Surjection, IsInjective, Replicas
<1>3. ExistsBijection(Slot, Replicas(c))
  BY <1>2 DEF ExistsBijection
<1>4. IsFiniteSet(Replicas(c)) /\ Cardinality(Replicas(c)) = Quorum
  BY <1>1, <1>3, FS_Bijection
<1> QED
  BY <1>4, ReplicaType DEF Replicas

LEMMA ServersCount == IsFiniteSet(Server) /\ Cardinality(Server) = NumServers
BY FS_Interval, ServersAssumption DEF Server

\* Two quorums that are majorities have a server in common.
LEMMA QuorumsMeet ==
    ASSUME NEW c \in Client, NEW d \in Client, 2 * Quorum > NumServers
    PROVE  \E i, j \in Slot : quorum_indices(c, i) = quorum_indices(d, j)
<1> SUFFICES ASSUME Replicas(c) \cap Replicas(d) = {} PROVE FALSE
  BY DEF Replicas
<1> DEFINE A == Replicas(c)
           B == Replicas(d)
<1>1. /\ IsFiniteSet(A) /\ Cardinality(A) = Quorum /\ A \subseteq Server
      /\ IsFiniteSet(B) /\ Cardinality(B) = Quorum /\ B \subseteq Server
  BY ReplicasCount
<1> HIDE DEF A, B
<1>2. /\ IsFiniteSet(A \cup B)
      /\ Cardinality(A \cup B) = Cardinality(A) + Cardinality(B) - Cardinality(A \cap B)
  BY <1>1, FS_Union
<1>3. Cardinality(A \cap B) = 0
  BY FS_EmptySet DEF A, B
<1>4. A \cup B \subseteq Server
  BY <1>1
<1>5. Cardinality(A \cup B) <= NumServers
  BY <1>4, ServersCount, FS_Subset
<1> QED
  BY <1>1, <1>2, <1>3, <1>5, QuorumAssumption, ServersAssumption

-----------------------------------------------------------------------------
(***************************************************************************)
(* The queues.                                                              *)
(***************************************************************************)
LEMMA AbdTypes ==
    ASSUME TypeOK
    PROVE  /\ sq \in [Client -> [Slot -> Seq(WorkRequest)]]
           /\ cq \in [Client -> [Slot -> Seq(Completion)]]
           /\ mem \in [Server -> [Key -> Register]]
           /\ cache \in [Client -> [Key -> Register]]
           /\ step \in [Fut -> Step] /\ key \in [Fut -> Key]
           /\ bufs \in [OpFut -> [Slot -> Register]]
           /\ value \in [OpFut -> Value] /\ target_reg \in [OpFut -> Register]
           /\ expected \in [OpFut -> [Slot -> Register]]
           /\ needs_cas \in [OpFut -> [Slot -> BOOLEAN]]
           /\ success_count \in [OpFut -> Nat]
           /\ max_reg \in [OpFut -> Register]
           /\ end_key \in [RangeFut -> Key]
           /\ bulk_bufs \in [RangeFut -> [Slot -> [Key -> Register]]]
           /\ results \in [RangeFut -> [Key -> Register]]
BY DEF TypeOK, StateTypeOK, PutTypeOK, GetTypeOK, RangeTypeOK

LEMMA StoreTypes == StoreInv => TypeOK
BY DEF StoreInv, TagInv, AccountingInv

\* The request at the head of a queue is the one its future asked for.
LEMMA HeadOut ==
    ASSUME StoreInv, NEW c \in Client, NEW i \in Slot, sq[c][i] # << >>,
           NEW w, w = Head(sq[c][i])
    PROVE  /\ w \in WorkRequest /\ w.fut \in Fut /\ Owner(w.fut) = c /\ w.key \in Key
           /\ Out(w.fut, i) = {w} /\ w \in Asked(w.fut, i) /\ ~Failed(w.fut, i)
<1> DEFINE q == sq[c][i]
           f == w.fut
<1>1. q \in Seq(RaisingWR(c)) /\ Single(q)
  BY DEF StoreInv, TagInv, QueuesRaise, QueuesSingle
<1>2. w \in RaisingWR(c)
  BY <1>1
<1>3. w \in WorkRequest /\ Owner(f) = c
  BY <1>2 DEF RaisingWR
<1>4. f \in Fut /\ w.key \in Key
  BY <1>3 DEF WorkRequest, Fut
<1>5. Within(q, f) = {w}
  <2> HIDE DEF q
  <2> QED
    BY <1>1, WithinTail DEF q
<1>6. Out(f, i) = {w}
  BY <1>3, <1>5 DEF Out
<1>7. Out(f, i) \subseteq Asked(f, i) /\ ~Failed(f, i)
  BY <1>4, <1>6 DEF StoreInv, QueuesMatch, Waits
<1> QED
  BY <1>3, <1>4, <1>6, <1>7

\* Every other future, and f at every other slot, waits for what it did.
OutsStay(f, i) ==
    \A g \in Fut, j \in Slot : g # f \/ j # i => Within(sq'[Owner(g)][j], g) = Out(g, j)

LEMMA HeadLeaves ==
    ASSUME StoreInv, NEW c \in Client, NEW i \in Slot, sq[c][i] # << >>,
           NEW f, f = Head(sq[c][i]).fut, sq' = [sq EXCEPT ![c][i] = Tail(sq[c][i])]
    PROVE  /\ QueuesSingle' /\ OutsStay(f, i) /\ Within(sq'[Owner(f)][i], f) = {}
<1> DEFINE q == sq[c][i]
<1>t. sq \in [Client -> [Slot -> Seq(WorkRequest)]]
  BY StoreTypes, AbdTypes
<1>1. q \in Seq(WorkRequest) /\ \A d \in Client, j \in Slot : Single(sq[d][j])
  BY <1>t DEF StoreInv, QueuesSingle
<1>2. \A d \in Client, j \in Slot :
         sq'[d][j] = IF d = c /\ j = i THEN Tail(q) ELSE sq[d][j]
  BY <1>t
<1>3. Owner(f) = c
  BY HeadOut
<1>4. /\ Single(Tail(q)) /\ Within(Tail(q), f) = {}
      /\ \A g : g # f => Within(Tail(q), g) = Within(q, g)
  <2> HIDE DEF q
  <2> QED
    BY <1>1, WithinTail DEF q
<1>5. \A d \in Client, j \in Slot : Single(sq'[d][j])
  BY <1>1, <1>2, <1>4
<1>6. Within(sq'[Owner(f)][i], f) = {}
  BY <1>2, <1>3, <1>4
<1>7. ASSUME NEW g \in Fut, NEW j \in Slot, g # f \/ j # i
      PROVE  Within(sq'[Owner(g)][j], g) = Out(g, j)
  BY <1>2, <1>3, <1>4, <1>7, OwnerType DEF Out
<1> QED
  BY <1>5, <1>6, <1>7 DEF QueuesSingle, OutsStay, Single

LEMMA HeadMoves ==
    ASSUME StoreInv, NEW c \in Client, NEW i \in Slot, sq[c][i] # << >>,
           NEW e \in WorkRequest, e.fut = Head(sq[c][i]).fut,
           sq' = [sq EXCEPT ![c][i] = << e >> \o Tail(sq[c][i])]
    PROVE  /\ QueuesSingle' /\ OutsStay(e.fut, i) /\ Within(sq'[Owner(e.fut)][i], e.fut) = {e}
<1> DEFINE q == sq[c][i]
           f == e.fut
           z == << e >> \o Tail(q)
<1>t. sq \in [Client -> [Slot -> Seq(WorkRequest)]]
  BY StoreTypes, AbdTypes
<1>1. q \in Seq(WorkRequest) /\ \A d \in Client, j \in Slot : Single(sq[d][j])
  BY <1>t DEF StoreInv, QueuesSingle
<1>2. \A d \in Client, j \in Slot : sq'[d][j] = IF d = c /\ j = i THEN z ELSE sq[d][j]
  BY <1>t
<1>3. Owner(f) = c
  BY HeadOut
<1>4. /\ Single(z) /\ Within(z, f) = {e}
      /\ \A g : g # f => Within(z, g) = Within(q, g)
  <2>1. q \in Seq(WorkRequest) /\ q # << >> /\ Single(q) /\ e.fut = Head(q).fut
    BY <1>1
  <2> HIDE DEF q
  <2>2. Single(<< e >> \o Tail(q))
    BY <2>1, WithinReplaced
  <2>3. Within(<< e >> \o Tail(q), e.fut) = {e}
    BY <2>1, WithinReplaced, SMTT(120)
  <2>4. \A g : g # e.fut => Within(<< e >> \o Tail(q), g) = Within(q, g)
    BY <2>1, WithinReplaced
  <2> QED
    BY <2>2, <2>3, <2>4
<1> HIDE DEF z
<1>5. \A d \in Client, j \in Slot : Single(sq'[d][j])
  BY <1>1, <1>2, <1>4
<1>6. Within(sq'[Owner(f)][i], f) = {e}
  BY <1>2, <1>3, <1>4
<1>7. ASSUME NEW g \in Fut, NEW j \in Slot, g # f \/ j # i
      PROVE  Within(sq'[Owner(g)][j], g) = Out(g, j)
  BY <1>2, <1>3, <1>4, <1>7, OwnerType DEF Out
<1> QED
  BY <1>5, <1>6, <1>7 DEF QueuesSingle, OutsStay, Single

\* A future with nothing outstanding posts a request to the slots in S.
Waitless(f) == \A i \in Slot : Out(f, i) = {} /\ ~Failed(f, i)
Requests(f, S, W) == S \subseteq Slot /\ \A i \in S : W[i] \in WorkRequest /\ W[i].fut = f

LEMMA AllPosted ==
    ASSUME StoreInv, NEW f \in Fut, Waitless(f), NEW S, NEW W, Requests(f, S, W), Post(f, S, W)
    PROVE  /\ QueuesSingle'
           /\ \A i \in S : Within(sq'[Owner(f)][i], f) = {W[i]}
           /\ \A i \in Slot \ S : Within(sq'[Owner(f)][i], f) = {}
           /\ \A g \in Fut \ {f}, j \in Slot : Within(sq'[Owner(g)][j], g) = Out(g, j)
<1>r. /\ S \subseteq Slot /\ \A i \in S : W[i] \in WorkRequest /\ W[i].fut = f
      /\ \A i \in Slot : Out(f, i) = {}
  BY DEF Waitless, Requests
<1> DEFINE c == Owner(f)
<1>0. c \in Client
  BY OwnerType
<1>t. sq \in [Client -> [Slot -> Seq(WorkRequest)]]
  BY StoreTypes, AbdTypes
<1>1. \A d \in Client, j \in Slot : sq[d][j] \in Seq(WorkRequest) /\ Single(sq[d][j])
  BY <1>t DEF StoreInv, QueuesSingle
<1>2. \A d \in Client, j \in Slot :
         sq'[d][j] = IF d = c /\ j \in S THEN Append(sq[d][j], W[j]) ELSE sq[d][j]
  BY <1>0, <1>t DEF Post
<1>4. ASSUME NEW j \in S
      PROVE  /\ Single(Append(sq[c][j], W[j])) /\ Within(Append(sq[c][j], W[j]), f) = {W[j]}
             /\ \A g : g # f => Within(Append(sq[c][j], W[j]), g) = Within(sq[c][j], g)
  <2> DEFINE q == sq[c][j]
             w == W[j]
  <2>1. q \in Seq(WorkRequest) /\ Single(q) /\ Within(q, w.fut) = {} /\ w \in WorkRequest /\ w.fut = f
    BY <1>0, <1>1, <1>r DEF Out
  <2> HIDE DEF q, w
  <2>2. Single(Append(q, w))
    BY <2>1, WithinAppend, SMTT(60)
  <2>3. Within(Append(q, w), w.fut) = {w}
    BY <2>1, WithinAppend, SMTT(60)
  <2>4. \A g : g # w.fut => Within(Append(q, w), g) = Within(q, g)
    BY <2>1, WithinAppend, SMTT(60)
  <2> QED
    BY <2>1, <2>2, <2>3, <2>4 DEF q, w
<1>5. \A d \in Client, j \in Slot : Single(sq'[d][j])
  BY <1>1, <1>2, <1>4
<1>6. /\ \A i \in S : Within(sq'[c][i], f) = {W[i]}
      /\ \A i \in Slot \ S : Within(sq'[c][i], f) = {}
  BY <1>0, <1>2, <1>4, <1>r DEF Out
<1>7. ASSUME NEW g \in Fut \ {f}, NEW j \in Slot PROVE Within(sq'[Owner(g)][j], g) = Out(g, j)
  BY <1>2, <1>4, OwnerType DEF Out
<1> QED
  BY <1>5, <1>6, <1>7 DEF QueuesSingle, Single

\* f has no completion in q that reports a failure.
Spoilt(q, f) == \E m \in 1 .. Len(q) : q[m].fut = f /\ q[m].ok = FALSE

LEMMA FailedSpoilt == \A f, i : Failed(f, i) <=> Spoilt(cq[Owner(f)][i], f)
BY DEF Failed, Spoilt

\* A completion is reported.
LEMMA SpoiltAppend ==
    ASSUME NEW q \in Seq(Completion), NEW e \in Completion, NEW f
    PROVE  Spoilt(Append(q, e), f) <=> Spoilt(q, f) \/ (e.fut = f /\ e.ok = FALSE)
<1> DEFINE a == Append(q, e)
           l == Len(q) + 1
<1>1. /\ Len(a) = l /\ a[l] = e /\ Len(q) \in Nat
      /\ \A m \in 1 .. Len(q) : a[m] = q[m]
  BY AppendProperties
<1>2. 1 .. l = (1 .. Len(q)) \cup {l}
  BY <1>1
<1> HIDE DEF a, l
<1> QED
  BY <1>1, <1>2 DEF Spoilt, a

LEMMA Reported ==
    ASSUME StoreInv, NEW c \in Client, NEW i \in Slot, NEW e \in Completion, Owner(e.fut) = c,
           NEW q, q = cq[c][i], cq' = [cq EXCEPT ![c][i] = Append(q, e)]
    PROVE  /\ \A g \in Fut, j \in Slot : g # e.fut \/ j # i =>
                (Spoilt(cq'[Owner(g)][j], g) <=> Failed(g, j))
           /\ Spoilt(cq'[c][i], e.fut) <=> Failed(e.fut, i) \/ e.ok = FALSE
<1>1. cq \in [Client -> [Slot -> Seq(Completion)]] /\ q \in Seq(Completion)
  BY StoreTypes, AbdTypes
<1>2. \A d \in Client, j \in Slot :
         cq'[d][j] = IF d = c /\ j = i THEN Append(q, e) ELSE cq[d][j]
  BY <1>1
<1>3. \A g : Spoilt(Append(q, e), g) <=> Spoilt(q, g) \/ (e.fut = g /\ e.ok = FALSE)
  BY <1>1, SpoiltAppend
<1>5. ASSUME NEW g \in Fut, NEW j \in Slot, g # e.fut \/ j # i
      PROVE  Spoilt(cq'[Owner(g)][j], g) <=> Failed(g, j)
  <2>1. CASE Owner(g) = c /\ j = i
    BY <1>2, <1>3, <1>5, <2>1, FailedSpoilt
  <2>2. CASE ~(Owner(g) = c /\ j = i)
    BY <1>2, <2>2, OwnerType, FailedSpoilt
  <2> QED
    BY <2>1, <2>2
<1>6. Spoilt(cq'[c][i], e.fut) <=> Failed(e.fut, i) \/ e.ok = FALSE
  BY <1>2, <1>3, FailedSpoilt
<1> QED
  BY <1>5, <1>6

\* A poll takes successes only.
LEMMA SpoiltRest ==
    ASSUME NEW q \in Seq(Completion), NEW n \in Nat, n <= Len(q),
           \A m \in 1 .. n : q[m].ok, NEW f
    PROVE  Spoilt(SubSeq(q, n + 1, Len(q)), f) <=> Spoilt(q, f)
<1> DEFINE r == SubSeq(q, n + 1, Len(q))
           l == Len(q)
<1>0. l \in Nat /\ n <= l
  OBVIOUS
<1>1. /\ Len(r) = l - n
      /\ \A m \in 1 .. (l - n) : r[m] = q[n + m]
  <2>1. n + 1 \in 1 .. l + 1 /\ l \in n .. l
    BY <1>0
  <2> QED
    BY <1>0, <2>1, SubSeqProperties
<1> HIDE DEF r
<1>2. ASSUME Spoilt(r, f) PROVE Spoilt(q, f)
  <2>1. PICK m \in 1 .. (l - n) : r[m].fut = f /\ r[m].ok = FALSE
    BY <1>1, <1>2 DEF Spoilt
  <2>2. n + m \in 1 .. l /\ q[n + m] = r[m]
    BY <1>0, <1>1
  <2> QED
    BY <2>1, <2>2 DEF Spoilt
<1>3. ASSUME Spoilt(q, f) PROVE Spoilt(r, f)
  <2>1. PICK m \in 1 .. l : q[m].fut = f /\ q[m].ok = FALSE
    BY <1>3 DEF Spoilt
  <2>2. m \notin 1 .. n
    BY <2>1
  <2>3. m - n \in 1 .. (l - n) /\ n + (m - n) = m
    BY <1>0, <2>2
  <2>4. r[m - n] = q[m]
    BY <1>1, <2>3
  <2> QED
    BY <1>1, <2>1, <2>3, <2>4 DEF Spoilt
<1> QED
  BY <1>2, <1>3 DEF r

\* A quiet future has had all its answers.
LEMMA QuietClosed ==
    ASSUME StoreInv, NEW f \in Fut, Quiet(f), NEW i \in Slot
    PROVE  Out(f, i) = {} /\ Closed(f, i)
<1>1. ~HasOf(sq[Owner(f)][i], f)
  BY QuietHasNone DEF StoreInv, TagInv
<1>2. Out(f, i) = {}
  BY <1>1 DEF HasOf, Out, Within
<1> DEFINE s == sq[Owner(f)][i]
           q == cq[Owner(f)][i]
<1>3. ongoing[f][i] = CountOf(s, f) + CountOf(q, f)
  BY OwnerType, PollAccountingBySlot DEF StoreInv, TagInv, AccountingInv, SlotBalanced
<1>4. s \in Seq(WorkRequest) /\ q \in Seq(Completion)
  BY OwnerType, StoreTypes, AbdTypes
<1>5. CountOf(s, f) \in Nat /\ CountOf(q, f) \in Nat
  BY <1>4, CountType
<1>6. CountOf(q, f) = 0
  BY <1>3, <1>5 DEF Quiet
<1> HIDE DEF q
<1>7. IsFiniteSet(PlacesOf(q, Len(q), f)) /\ Cardinality(PlacesOf(q, Len(q), f)) = 0
  BY <1>4, <1>6, PlacesFinite DEF CountOf
<1>8. PlacesOf(q, Len(q), f) = {}
  BY <1>7, FS_EmptySet
<1>9. ~Spoilt(q, f)
  BY <1>8 DEF PlacesOf, Spoilt
<1> QED
  BY <1>2, <1>9, FailedSpoilt DEF Closed, q

\* A future that is done waits for nothing.
LEMMA DoneOut ==
    ASSUME StoreInv, NEW f \in Fut, step[f] = "Done", NEW i \in Slot
    PROVE  Out(f, i) = {} /\ ~Failed(f, i)
<1>1. Waits(f, i)
  BY DEF StoreInv, QueuesMatch
<1> QED
  BY <1>1 DEF Waits, Asked

-----------------------------------------------------------------------------
(***************************************************************************)
(* Steps, by what they do to each future.                                   *)
(***************************************************************************)

\* A step in which g takes no part.
Still(g) ==
    /\ step'[g] = step[g] /\ key'[g] = key[g]
    /\ g \in OpFut => /\ bufs'[g] = bufs[g] /\ expected'[g] = expected[g]
                      /\ target_reg'[g] = target_reg[g] /\ needs_cas'[g] = needs_cas[g]
    /\ g \in RangeFut => end_key'[g] = end_key[g] /\ bulk_bufs'[g] = bulk_bufs[g]
    /\ \A i \in Slot : /\ Within(sq'[Owner(g)][i], g) = Out(g, i)
                       /\ Spoilt(cq'[Owner(g)][i], g) <=> Failed(g, i)

LEMMA PrimedViews ==
    \A f, i : /\ Out(f, i)' = Within(sq'[Owner(f)][i], f)
              /\ Failed(f, i)' <=> Spoilt(cq'[Owner(f)][i], f)
              /\ Closed(f, i)' <=> Out(f, i)' = {} /\ ~Failed(f, i)'
BY DEF Out, Failed, Closed, Owner, Within, Spoilt

LEMMA StillViews ==
    ASSUME NEW g \in Fut, Still(g), NEW i \in Slot
    PROVE  /\ Out(g, i)' = Out(g, i) /\ (Failed(g, i)' <=> Failed(g, i))
           /\ (Closed(g, i)' <=> Closed(g, i))
           /\ (g \in OpFut \/ step[g] \in {"Done", "Reading"}) => Asked(g, i)' = Asked(g, i)
<1>1. Out(g, i)' = Out(g, i) /\ (Failed(g, i)' <=> Failed(g, i))
  BY PrimedViews DEF Still
<1>2. Closed(g, i)' <=> Closed(g, i)
  BY <1>1, PrimedViews DEF Closed
<1>3. CASE g \in OpFut
  <2>1. /\ step'[g] = step[g] /\ key'[g] = key[g] /\ expected'[g] = expected[g]
        /\ target_reg'[g] = target_reg[g]
    BY <1>3 DEF Still
  <2>2. Asked(g, i)' = Asked(g, i)
    BY <1>3, <2>1 DEF Asked
  <2> QED
    BY <1>1, <1>2, <2>2
<1>4. CASE g \in RangeFut
  <2>1. /\ step'[g] = step[g] /\ key'[g] = key[g] /\ end_key'[g] = end_key[g] /\ g \notin OpFut
    BY <1>4, FutureKinds DEF Still
  <2>2. step[g] \in {"Done", "Reading"} => Asked(g, i)' = Asked(g, i)
    BY <2>1 DEF Asked, KeysOf
  <2> QED
    BY <1>1, <1>2, <2>1, <2>2
<1> QED
  BY <1>3, <1>4, FutureKinds

LEMMA StillStore ==
    ASSUME StoreInv, NEW g \in Fut, Still(g)
    PROVE  FutureSane(g)' /\ \A i \in Slot : Waits(g, i)'
<1>1. FutureSane(g)'
  <2>1. FutureSane(g) /\ step'[g] = step[g] /\ key'[g] = key[g]
    BY DEF StoreInv, Still
  <2> QED
    BY <2>1 DEF FutureSane, Putting
<1>2. ASSUME NEW i \in Slot PROVE Waits(g, i)'
  <2>1. Waits(g, i) /\ FutureSane(g)
    BY DEF StoreInv, QueuesMatch
  <2>2. g \in OpFut \/ step[g] \in {"Done", "Reading"}
    BY <2>1, FutureKinds DEF FutureSane
  <2>3. /\ Out(g, i)' = Out(g, i) /\ Asked(g, i)' = Asked(g, i)
        /\ (Failed(g, i)' <=> Failed(g, i)) /\ step'[g] = step[g]
    BY <2>2, StillViews DEF Still
  <2> QED
    BY <2>1, <2>3 DEF Waits
<1> QED
  BY <1>1, <1>2

\* Only f takes part in the step: what has to be shown of the queues and states.
LEMMA StoreStep ==
    ASSUME StoreInv, TagInv', NEW f \in Fut, \A g \in Fut \ {f} : Still(g),
           QueuesSingle', \A i \in Slot : Waits(f, i)', FutureSane(f)'
    PROVE  StoreInv'
<1>3. \A g \in Fut : FutureSane(g)'
  BY StillStore
<1>4. \A g \in Fut, i \in Slot : Waits(g, i)'
  BY StillStore
<1> QED
  BY <1>3, <1>4 DEF StoreInv, QueuesMatch

\* The history moves with f only, and never back.
LEMMA AckStep ==
    ASSUME TypeOK, acked \in [Key -> Register], HistUpdate, NEW f \in Fut,
           \A g \in Fut \ {f} : step'[g] = step[g]
    PROVE  /\ acked' \in [Key -> Register]
           /\ \A k \in Key : RegLeq(acked[k], acked'[k])
           /\ \A k \in Key : ~(f \in OpFut /\ PutEnds(f) /\ key[f] = k) => acked'[k] = acked[k]
           /\ f \in OpFut /\ PutEnds(f) => acked'[key[f]] \in {acked[key[f]], target_reg[f]}
<1>1. acked' = [k \in Key |-> Newest({acked[k]} \cup AckedNow(Fut, k))]
  BY DEF HistUpdate
<1>2. \A g \in Fut \ {f} : ~PutEnds(g)
  BY DEF PutEnds
<1>3. ASSUME NEW k \in Key, ~(f \in OpFut /\ PutEnds(f) /\ key[f] = k)
      PROVE  acked'[k] = acked[k]
  <2>1. {g \in Fut \cap OpFut : PutEnds(g) /\ key[g] = k} = {}
    BY <1>2, <1>3
  <2>2. AckedNow(Fut, k) = {}
    BY <2>1 DEF AckedNow
  <2>3. {acked[k]} \cup AckedNow(Fut, k) = {acked[k], acked[k]} /\ acked[k] \in Register
    BY <2>2
  <2>4. Newest({acked[k], acked[k]}) \in {acked[k], acked[k]}
    BY <2>3, NewestOfTwo
  <2> QED
    BY <1>1, <2>3, <2>4
<1>4. ASSUME f \in OpFut, PutEnds(f)
      PROVE  /\ acked'[key[f]] \in {acked[key[f]], target_reg[f]}
             /\ RegLeq(acked[key[f]], acked'[key[f]])
  <2> DEFINE k == key[f]
  <2>0. k \in Key /\ target_reg[f] \in Register /\ acked[k] \in Register
    BY <1>4, AbdTypes
  <2>1. {g \in Fut \cap OpFut : PutEnds(g) /\ key[g] = k} = {f}
    BY <1>2, <1>4
  <2> HIDE DEF k
  <2>2. AckedNow(Fut, k) = {target_reg[f]}
    BY <2>1 DEF AckedNow
  <2>3. {acked[k]} \cup AckedNow(Fut, k) = {acked[k], target_reg[f]}
    BY <2>2
  <2>4. /\ Newest({acked[k], target_reg[f]}) \in {acked[k], target_reg[f]}
        /\ RegLeq(acked[k], Newest({acked[k], target_reg[f]}))
    BY <2>0, NewestOfTwo
  <2>5. acked'[k] = Newest({acked[k], target_reg[f]})
    BY <1>1, <2>0, <2>3
  <2> QED
    BY <2>4, <2>5 DEF k
<1>5. \A k \in Key : RegLeq(acked[k], acked'[k]) /\ acked'[k] \in Register
  <2> TAKE k \in Key
  <2>0. acked[k] \in Register
    OBVIOUS
  <2>1. CASE f \in OpFut /\ PutEnds(f) /\ key[f] = k
    BY <1>4, <2>0, <2>1, AbdTypes
  <2>2. CASE ~(f \in OpFut /\ PutEnds(f) /\ key[f] = k)
    BY <1>3, <2>0, <2>2, TagOrder
  <2> QED
    BY <2>1, <2>2
<1>6. acked' \in [Key -> Register]
  BY <1>1, <1>5
<1> QED
  BY <1>3, <1>4, <1>5, <1>6

\* A put that goes on, and a put that ends.
PutRuns(f) ==
    /\ f \in OpFut /\ Putting(f)' /\ (Putting(f) => key'[f] = key[f])
    /\ \A s \in Server, j \in Key : j # key'[f] => mem'[s][j] = mem[s][j]
    /\ \E R \in Register : PutShape(f, R)' /\ RegLeq(acked[key'[f]], R)
PutStops(f) ==
    /\ f \in OpFut /\ Putting(f) /\ PutEnds(f) /\ key'[f] = key[f] /\ mem' = mem
    /\ Level(Owner(f), key[f], target_reg[f]) /\ RegLeq(acked[key[f]], target_reg[f])
NoPut(f) == mem' = mem /\ ~Putting(f) /\ ~Putting(f)'

LEMMA StillShape ==
    ASSUME TypeOK, NEW g \in OpFut, Still(g), NEW R, PutShape(g, R),
           \A s \in Server : mem'[s][key[g]] = mem[s][key[g]]
    PROVE  PutShape(g, R)'
<1>g. g \in Fut /\ Owner(g) \in Client
  BY FutureKinds, OwnerType
<1> SUFFICES ASSUME NEW i \in Slot PROVE PutSlot(g, i, R)'
  BY DEF PutShape
<1>1. /\ step'[g] = step[g] /\ key'[g] = key[g] /\ bufs'[g] = bufs[g]
      /\ expected'[g] = expected[g] /\ target_reg'[g] = target_reg[g]
      /\ needs_cas'[g] = needs_cas[g] /\ (Closed(g, i)' <=> Closed(g, i))
  BY <1>g, StillViews DEF Still
<1>2. quorum_indices(Owner(g), i) \in Server
  BY <1>g, ReplicaType
<1>3. Copy(Owner(g), i, key[g])' = Copy(Owner(g), i, key[g])
  BY <1>1, <1>2 DEF Copy, Owner
<1>4. PutSlot(g, i, R)
  BY DEF PutShape
<1> QED
  BY <1>1, <1>3, <1>4 DEF PutSlot

\* What has to be shown of a step of f for the registers.
LEMMA WriteStep ==
    ASSUME TypeOK, WriteInv, HistUpdate, OneWriter, PutsDisjoint, PutsDisjoint',
           NEW f \in Fut, \A g \in Fut \ {f} : Still(g), FutureSane(f), FutureSane(f)',
           NoPut(f) \/ PutRuns(f) \/ PutStops(f)
    PROVE  WriteInv'
<1>s. \A g \in Fut \ {f} : step'[g] = step[g] /\ key'[g] = key[g]
  BY DEF Still
<1>w. acked \in [Key -> Register] /\ PutsShaped /\ IdleShaped /\ Unwritten
  BY DEF WriteInv
<1>a. /\ acked' \in [Key -> Register]
      /\ \A k \in Key : ~(f \in OpFut /\ PutEnds(f) /\ key[f] = k) => acked'[k] = acked[k]
      /\ f \in OpFut /\ PutEnds(f) => acked'[key[f]] \in {acked[key[f]], target_reg[f]}
  BY <1>s, <1>w, AckStep
<1>o. OpFut \subseteq Fut
  BY FutureKinds
<1>r. \A c \in Client, i \in Slot : quorum_indices(c, i) \in Server
  BY ReplicaType
<1>1. CASE NoPut(f)
  <2>1. mem' = mem /\ ~Putting(f) /\ ~Putting(f)' /\ \A k \in Key : acked'[k] = acked[k]
    BY <1>1, <1>a DEF NoPut, PutEnds, Putting
  <2>2. \A g \in OpFut : Putting(g)' <=> Putting(g)
    BY <1>s, <1>o, <2>1 DEF Putting
  <2>3. \A g \in OpFut : Putting(g) => key'[g] = key[g] /\ g # f
    BY <1>s, <1>o, <2>1
  <2>4. PutsShaped'
    <3> SUFFICES ASSUME NEW g \in OpFut, Putting(g)'
                 PROVE  \E R \in Register : PutShape(g, R)' /\ RegLeq(acked'[key'[g]], R)
      BY DEF PutsShaped
    <3>1. PICK R \in Register : PutShape(g, R) /\ RegLeq(acked[key[g]], R)
      BY <1>w, <2>2 DEF PutsShaped
    <3>2. Still(g) /\ key'[g] = key[g] /\ key[g] \in Key
      BY <1>o, <2>2, <2>3, AbdTypes
    <3>3. PutShape(g, R)'
      BY <2>1, <3>1, <3>2, StillShape
    <3> QED
      BY <2>1, <3>1, <3>2, <3>3
  <2>5. \A c \in Client, k \in Key : Busy(c, k)' <=> Busy(c, k)
    BY <2>2, <2>3 DEF Busy, Owner
  <2>6. \A c, k, R : Level(c, k, R)' <=> Level(c, k, R)
    BY <2>1 DEF Level, Copy
  <2>7. IdleShaped'
    BY <1>w, <2>1, <2>5, <2>6 DEF IdleShaped
  <2>8. Unwritten'
    BY <1>w, <2>1 DEF Unwritten
  <2> QED
    BY <1>a, <2>4, <2>7, <2>8 DEF WriteInv
<1>2. CASE PutRuns(f) \/ PutStops(f)
  <2> DEFINE c == Owner(f)
             k == key'[f]
  <2>0. f \in OpFut /\ c \in Client
    BY <1>2, OwnerType DEF PutRuns, PutStops
  <2>1. Putting(f) => key[f] = k
    BY <1>2 DEF PutRuns, PutStops
  <2>2. Putting(f) \/ Putting(f)'
    BY <1>2 DEF PutRuns, PutStops
  <2>3. Writes(c, k)
    BY <2>1, <2>2 DEF FutureSane, Owner
  <2>k. k \in Key
    <3>1. PutKeys[c] \subseteq Key
      BY <2>0, PutKeysAssumption
    <3> QED
      BY <2>3, <3>1 DEF Writes
  <2>4. \A s \in Server, j \in Key : j # k => mem'[s][j] = mem[s][j]
    BY <1>2 DEF PutRuns, PutStops
  <2>5. \A j \in Key : j # k => acked'[j] = acked[j]
    <3>1. PutEnds(f) => Putting(f)
      BY DEF PutEnds, Putting
    <3> QED
      BY <1>a, <2>1, <3>1
  <2>6. \A g \in OpFut \ {f} : Putting(g)' => key'[g] # k /\ key[g] # k /\ Putting(g) /\ key'[g] = key[g]
    <3> SUFFICES ASSUME NEW g \in OpFut \ {f}, Putting(g)'
                 PROVE  key'[g] # k /\ key[g] # k /\ Putting(g) /\ key'[g] = key[g]
      OBVIOUS
    <3>1. Putting(g) /\ key'[g] = key[g]
      BY <1>s, <1>o DEF Putting
    <3>2. key[g] # k
      <4>1. CASE Putting(f)
        BY <2>0, <2>1, <3>1, <4>1 DEF PutsDisjoint
      <4>2. CASE Putting(f)'
        BY <2>0, <3>1, <4>2 DEF PutsDisjoint
      <4> QED
        BY <2>2, <4>1, <4>2
    <3> QED
      BY <3>1, <3>2
  <2>7. ASSUME NEW g \in OpFut \ {f}, Putting(g)'
        PROVE  \E R \in Register : PutShape(g, R)' /\ RegLeq(acked'[key'[g]], R)
    <3>1. key[g] # k /\ Putting(g) /\ key'[g] = key[g] /\ key[g] \in Key /\ Still(g)
      BY <1>o, <2>6, <2>7, AbdTypes
    <3>2. PICK R \in Register : PutShape(g, R) /\ RegLeq(acked[key[g]], R)
      BY <1>w, <3>1 DEF PutsShaped
    <3>3. PutShape(g, R)'
      BY <2>4, <3>1, <3>2, StillShape
    <3>4. acked'[key'[g]] = acked[key[g]]
      BY <2>5, <3>1
    <3> QED
      BY <3>2, <3>3, <3>4
  <2>8. ASSUME Putting(f)' PROVE \E R \in Register : PutShape(f, R)' /\ RegLeq(acked'[key'[f]], R)
    <3>1. PutRuns(f) /\ ~PutEnds(f)
      BY <1>2, <2>8 DEF PutStops, PutEnds, Putting
    <3>2. acked'[k] = acked[k]
      BY <1>a, <2>k, <3>1
    <3> QED
      BY <3>1, <3>2 DEF PutRuns
  <2>9. PutsShaped'
    BY <2>7, <2>8 DEF PutsShaped
  <2>10. ASSUME NEW d \in Client, NEW j \in Key, Writes(d, j), ~Busy(d, j)'
         PROVE  \E R \in Register : Level(d, j, R)' /\ RegLeq(acked'[j], R)
    <3>1. CASE j # k
      <4>1. ~Busy(d, j)
        <5> SUFFICES ASSUME NEW g \in OpFut, Owner(g) = d, Putting(g), key[g] = j PROVE FALSE
          BY DEF Busy
        <5>1. g # f
          BY <2>1, <3>1
        <5>2. Putting(g)' /\ key'[g] = j
          BY <1>s, <1>o, <5>1 DEF Putting
        <5> QED
          BY <2>10, <5>2 DEF Busy, Owner
      <4>2. PICK R \in Register : Level(d, j, R) /\ RegLeq(acked[j], R)
        BY <1>w, <2>10, <4>1 DEF IdleShaped
      <4>3. Level(d, j, R)'
        BY <1>r, <2>4, <3>1, <4>2 DEF Level, Copy
      <4> QED
        BY <2>5, <3>1, <4>2, <4>3
    <3>2. CASE j = k
      <4>1. d = c
        BY <2>0, <2>3, <2>10, <3>2 DEF OneWriter
      <4>2. ~Putting(f)'
        BY <2>0, <2>10, <3>2, <4>1 DEF Busy, Owner
      <4>3. PutStops(f)
        BY <1>2, <4>2 DEF PutRuns
      <4>4. /\ mem' = mem /\ Level(c, k, target_reg[f]) /\ RegLeq(acked[k], target_reg[f])
            /\ acked'[k] \in {acked[k], target_reg[f]}
        BY <1>a, <2>1, <4>3 DEF PutStops
      <4>5. target_reg[f] \in Register
        BY <2>0, AbdTypes
      <4>6. PICK R : R = target_reg[f]
        OBVIOUS
      <4>7. Level(d, j, R)'
        BY <3>2, <4>1, <4>4, <4>6 DEF Level, Copy
      <4>8. acked[k] \in Register /\ RegLeq(acked'[j], R)
        BY <1>w, <2>k, <3>2, <4>4, <4>5, <4>6, TagOrder
      <4> QED
        BY <4>5, <4>6, <4>7, <4>8
    <3> QED
      BY <3>1, <3>2
  <2>11. IdleShaped'
    BY <2>10 DEF IdleShaped
  <2>12. Unwritten'
    <3> SUFFICES ASSUME NEW j \in Key, \A d \in Client : ~Writes(d, j)
                 PROVE  acked'[j] = ZeroRegister
      BY DEF Unwritten
    <3>1. j # k
      BY <2>0, <2>3
    <3> QED
      BY <1>w, <2>5, <3>1 DEF Unwritten
  <2> QED
    BY <1>a, <2>9, <2>11, <2>12 DEF WriteInv
<1> QED
  BY <1>1, <1>2

\* What had been acknowledged when f started is kept while f reads.
LEMMA FloorKept ==
    ASSUME HistUpdate, NEW f \in Fut, step[f] = "Reading", step'[f] = "Reading"
    PROVE  floor'[f] = floor[f]
BY DEF HistUpdate, Starts

LEMMA StillSees ==
    ASSUME HistUpdate, NEW g \in Fut, Still(g), Sees(g)
    PROVE  Sees(g)'
<1>1. step'[g] = step[g] /\ key'[g] = key[g]
  BY DEF Still
<1>2. step[g] = "Reading" => floor'[g] = floor[g]
  BY <1>1, FloorKept
<1>3. \A i \in Slot : /\ Out(g, i)' = Out(g, i) /\ (Failed(g, i)' <=> Failed(g, i))
                      /\ (Closed(g, i)' <=> Closed(g, i))
  BY <1>1, StillViews
<1>4. CASE g \in OpFut
  <2>1. bufs'[g] = bufs[g] /\ g \notin RangeFut /\ GetSees(g)
    BY <1>1, <1>4, FutureKinds DEF Still, Sees
  <2>2. GetSees(g)'
    BY <1>1, <1>2, <1>3, <2>1 DEF GetSees, Owner
  <2> QED
    BY <2>1, <2>2 DEF Sees
<1>5. CASE g \in RangeFut
  <2>1. /\ bulk_bufs'[g] = bulk_bufs[g] /\ end_key'[g] = end_key[g]
        /\ g \notin OpFut /\ ScanSees(g)
    BY <1>1, <1>5, FutureKinds DEF Still, Sees
  <2>2. KeysOf(g)' = KeysOf(g)
    BY <1>1, <2>1 DEF KeysOf
  <2>3. \A i \in Slot : \A k : Passed(g, i, k)' <=> Passed(g, i, k)
    BY <1>3 DEF Passed
  <2>4. ScanSees(g)'
    BY <1>1, <1>2, <2>1, <2>2, <2>3 DEF ScanSees, Owner
  <2> QED
    BY <2>1, <2>4 DEF Sees
<1> QED
  BY <1>4, <1>5, FutureKinds

\* What has to be shown of a step of f for the reads.
LEMMA ReadStep ==
    ASSUME TypeOK, WriteInv, ReadInv, HistUpdate, NEW f \in Fut,
           \A g \in Fut \ {f} : Still(g), Sees(f)'
    PROVE  ReadInv'
<1>s. \A g \in Fut \ {f} : step'[g] = step[g]
  BY DEF Still
<1>w. acked \in [Key -> Register]
  BY DEF WriteInv
<1>a. acked' \in [Key -> Register] /\ \A k \in Key : RegLeq(acked[k], acked'[k])
  BY <1>s, <1>w, AckStep
<1>1. ASSUME NEW g \in Fut
      PROVE  /\ floor'[g].ack \in [Key -> Register]
             /\ \A k \in Key : RegLeq(floor'[g].ack[k], acked'[k])
  <2>1. floor'[g] = IF step'[g] = "Done" THEN NoFloor
                    ELSE IF Starts(g) THEN [ack |-> acked, own |-> seen[Owner(g)]]
                    ELSE floor[g]
    BY DEF HistUpdate
  <2>2. CASE step'[g] = "Done"
    <3>1. floor'[g].ack = Blank
      BY <2>1, <2>2 DEF NoFloor
    <3>2. Blank \in [Key -> Register] /\ \A k \in Key : Blank[k] = ZeroRegister
      BY ZeroRegisterType DEF Blank
    <3> QED
      BY <1>a, <3>1, <3>2, TagOrder
  <2>3. CASE step'[g] # "Done" /\ Starts(g)
    BY <1>a, <1>w, <2>1, <2>3
  <2>4. CASE step'[g] # "Done" /\ ~Starts(g)
    <3>1. floor'[g].ack = floor[g].ack
      BY <2>1, <2>4
    <3>2. /\ floor[g].ack \in [Key -> Register]
          /\ \A k \in Key : RegLeq(floor[g].ack[k], acked[k])
      BY DEF ReadInv, FloorOK
    <3>3. ASSUME NEW k \in Key PROVE RegLeq(floor[g].ack[k], acked'[k])
      <4>1. floor[g].ack[k] \in Register /\ acked[k] \in Register /\ acked'[k] \in Register
        BY <1>a, <1>w, <3>2
      <4>2. RegLeq(floor[g].ack[k], acked[k]) /\ RegLeq(acked[k], acked'[k])
        BY <1>a, <3>2
      <4> QED
        BY <4>1, <4>2, TagOrder
    <3> QED
      BY <3>1, <3>2, <3>3
  <2> QED
    BY <2>2, <2>3, <2>4
<1>2. \A g \in Fut \ {f} : Sees(g)'
  BY StillSees DEF ReadInv
<1> QED
  BY <1>1, <1>2 DEF ReadInv, FloorOK

\* Everything a step of f has to show.
LEMMA AbdStep ==
    ASSUME AbdInv, TagInv', HistUpdate, OneWriter, PutsDisjoint, PutsDisjoint',
           NEW f \in Fut, \A g \in Fut \ {f} : Still(g),
           QueuesSingle', \A i \in Slot : Waits(f, i)', FutureSane(f)',
           NoPut(f) \/ PutRuns(f) \/ PutStops(f), Sees(f)'
    PROVE  AbdInv'
<1>1. StoreInv /\ WriteInv /\ ReadInv /\ TypeOK /\ FutureSane(f)
  BY StoreTypes DEF AbdInv, StoreInv
<1>2. StoreInv'
  BY <1>1, StoreStep
<1>3. WriteInv'
  BY <1>1, WriteStep
<1>4. ReadInv'
  BY <1>1, ReadStep
<1> QED
  BY <1>2, <1>3, <1>4 DEF AbdInv

\* On the writer's quorum nothing is below what has been acknowledged.
LEMMA WriterHolds ==
    ASSUME AbdInv, NEW c \in Client, NEW k \in Key, Writes(c, k), NEW i \in Slot
    PROVE  RegLeq(acked[k], Copy(c, i, k))
<1>1. CASE ~Busy(c, k)
  BY <1>1 DEF AbdInv, WriteInv, IdleShaped, Level
<1>2. CASE Busy(c, k)
  <2>1. PICK f \in OpFut : Owner(f) = c /\ Putting(f) /\ key[f] = k
    BY <1>2 DEF Busy
  <2>2. PICK R \in Register : PutShape(f, R) /\ RegLeq(acked[k], R)
    BY <2>1 DEF AbdInv, WriteInv, PutsShaped
  <2>3. PutSlot(f, i, R)
    BY <2>2 DEF PutShape
  <2>t. TypeOK
    BY StoreTypes DEF AbdInv
  <2>4. target_reg[f] \in Register /\ acked[k] \in Register /\ expected[f][i] \in Register
    BY <2>t, AbdTypes DEF AbdInv, WriteInv
  <2>5. CASE Copy(c, i, k) = R
    BY <2>2, <2>5
  <2>6. CASE Copy(c, i, k) # R
    <3>1. /\ Copy(c, i, k) = target_reg[f] /\ step[f] \in {"OptimisticChain", "CAS"}
          /\ expected[f][i] = R /\ (step[f] = "CAS" => needs_cas[f][i])
      BY <2>1, <2>3, <2>6 DEF PutSlot, Putting
    <3>2. PutBelow(step[f], needs_cas[f], expected[f], bufs[f], target_reg[f])
      BY DEF AbdInv, StoreInv, TagInv, PutsBelow
    <3>3. R.seq < target_reg[f].seq
      BY <3>1, <3>2 DEF PutBelow
    <3>4. RegLeq(R, target_reg[f])
      BY <2>4, <3>3, TagOrder
    <3> QED
      BY <2>2, <2>4, <3>1, <3>4, TagOrder
  <2> QED
    BY <2>5, <2>6
<1> QED
  BY <1>1, <1>2

-----------------------------------------------------------------------------
(***************************************************************************)
(* The servers' steps.                                                      *)
(***************************************************************************)

\* Slot i of f is answered, and nothing else changes for the futures.
Answered(f, i, r) ==
    /\ \A g \in Fut \ {f} : Still(g)
    /\ QueuesSingle' /\ FutureSane(f)'
    /\ \A j \in Slot : Waits(f, j)'
    /\ bufs'[f][i] = r /\ Closed(f, i)' /\ ~Closed(f, i)
    /\ \A j \in Slot \ {i} : /\ bufs'[f][j] = bufs[f][j] /\ Out(f, j)' = Out(f, j)
                             /\ Closed(f, j)' <=> Closed(f, j)

LEMMA AnswerStep ==
    ASSUME StoreInv, NEW c \in Client, NEW i \in Slot, sq[c][i] # << >>,
           NEW f \in OpFut, f = Head(sq[c][i]).fut, NEW r,
           Complete(c, i, TRUE), bufs' = [bufs EXCEPT ![f][i] = r],
           UNCHANGED << step, key, putVars, rangeVars >>
    PROVE  Answered(f, i, r)
<1>t. TypeOK /\ bufs \in [OpFut -> [Slot -> Register]]
  BY StoreTypes, AbdTypes
<1>0. f \in Fut /\ f \notin RangeFut
  BY FutureKinds
<1>1. PICK w : w = Head(sq[c][i])
  OBVIOUS
<1>2. Owner(f) = c /\ Out(f, i) = {w} /\ ~Failed(f, i)
  BY <1>1, HeadOut
<1>3. /\ sq' = [sq EXCEPT ![c][i] = Tail(sq[c][i])]
      /\ cq' = [cq EXCEPT ![c][i] = Append(cq[c][i], [fut |-> f, ok |-> TRUE])]
  BY DEF Complete
<1>4. QueuesSingle' /\ OutsStay(f, i) /\ Within(sq'[Owner(f)][i], f) = {}
  BY <1>3, HeadLeaves
<1>5. /\ \A g \in Fut, j \in Slot : g # f \/ j # i =>
            (Spoilt(cq'[Owner(g)][j], g) <=> Failed(g, j))
      /\ ~Spoilt(cq'[Owner(f)][i], f)
  <2>1. PICK e \in Completion : e = [fut |-> f, ok |-> TRUE]
    BY <1>0 DEF Completion
  <2>2. e.fut = f /\ ~(e.ok = FALSE)
    BY <2>1
  <2>3. PICK q : q = cq[c][i]
    OBVIOUS
  <2>4. cq' = [cq EXCEPT ![c][i] = Append(q, e)]
    BY <1>3, <2>1, <2>3
  <2>5. /\ \A g \in Fut, j \in Slot : g # e.fut \/ j # i =>
              (Spoilt(cq'[Owner(g)][j], g) <=> Failed(g, j))
        /\ Spoilt(cq'[c][i], e.fut) <=> Failed(e.fut, i) \/ e.ok = FALSE
    BY <1>2, <2>2, <2>3, <2>4, Reported
  <2> QED
    BY <1>2, <2>2, <2>5
<1>6. bufs'[f][i] = r /\ \A j \in Slot \ {i} : bufs'[f][j] = bufs[f][j]
  BY <1>t
<1>7. ASSUME NEW g \in Fut \ {f} PROVE Still(g)
  <2>1. g \in OpFut => bufs'[g] = bufs[g]
    BY <1>t
  <2>2. \A j \in Slot : /\ Within(sq'[Owner(g)][j], g) = Out(g, j)
                        /\ Spoilt(cq'[Owner(g)][j], g) <=> Failed(g, j)
    BY <1>4, <1>5 DEF OutsStay
  <2> QED
    BY <2>1, <2>2 DEF Still, putVars, rangeVars
<1>8. FutureSane(f)'
  <2>1. FutureSane(f)
    BY <1>0 DEF StoreInv
  <2> QED
    BY <2>1 DEF FutureSane, Putting
<1>9. /\ Out(f, i)' = {} /\ ~Failed(f, i)'
      /\ \A j \in Slot \ {i} : Out(f, j)' = Out(f, j) /\ (Failed(f, j)' <=> Failed(f, j))
  BY <1>0, <1>4, <1>5, PrimedViews DEF OutsStay
<1>10. \A j \in Slot : Waits(f, j)'
  <2> TAKE j \in Slot
  <2>1. Waits(f, j) /\ Asked(f, j)' = Asked(f, j)
    <3>1. Waits(f, j)
      BY <1>0 DEF StoreInv, QueuesMatch
    <3> QED
      BY <3>1 DEF Asked, putVars
  <2> QED
    BY <1>9, <2>1 DEF Waits
<1>11. /\ Closed(f, i)' /\ ~Closed(f, i)
       /\ \A j \in Slot \ {i} : Closed(f, j)' <=> Closed(f, j)
  BY <1>2, <1>9, PrimedViews DEF Closed
<1> QED
  BY <1>4, <1>6, <1>7, <1>8, <1>9, <1>10, <1>11 DEF Answered

LEMMA NicReadAbd ==
    ASSUME AbdInv, TagInv', HistUpdate, OneWriter, PutsDisjoint, PutsDisjoint',
           NEW c \in Client, NEW i \in Slot, NicRead(c, i)
    PROVE  AbdInv'
<1>0. StoreInv /\ WriteInv /\ ReadInv /\ TypeOK
  BY StoreTypes DEF AbdInv
<1>1. PICK w : w = Head(sq[c][i])
  OBVIOUS
<1>2. PICK f : f = w.fut
  OBVIOUS
<1> DEFINE s == quorum_indices(c, i)
<1>e. /\ sq[c][i] # << >> /\ w.op = "read"
      /\ bufs' = [bufs EXCEPT ![f][i] = mem[s][w.key]]
      /\ Complete(c, i, TRUE)
      /\ UNCHANGED << mem, step, key, putVars, max_reg, rangeVars >>
  BY <1>1, <1>2 DEF NicRead, Executable
<1>3. /\ w \in WorkRequest /\ f \in Fut /\ Owner(f) = c /\ w.key \in Key
      /\ w \in Asked(f, i)
  BY <1>0, <1>1, <1>2, <1>e, HeadOut
<1>4. f \in OpFut /\ f \notin RangeFut
  BY <1>2, <1>3, <1>e, FutureKinds DEF WorkRequest
<1>5. step[f] \in {"ReadSeq", "Reading"} /\ w.key = key[f]
  BY <1>3, <1>4, <1>e DEF Asked, ReadWR, CasWR
<1>6. Answered(f, i, mem[s][key[f]])
  BY <1>0, <1>1, <1>2, <1>4, <1>5, <1>e, AnswerStep
<1>u. /\ step'[f] = step[f] /\ key'[f] = key[f] /\ mem' = mem
      /\ expected'[f] = expected[f] /\ needs_cas'[f] = needs_cas[f]
      /\ target_reg'[f] = target_reg[f]
  BY <1>e DEF putVars
<1>m. mem[s][key[f]] = Copy(Owner(f), i, key[f])
  BY <1>3 DEF Copy
<1>7. CASE step[f] = "ReadSeq"
  <2>1. PICK R \in Register : PutShape(f, R) /\ RegLeq(acked[key[f]], R)
    BY <1>0, <1>4, <1>7 DEF WriteInv, PutsShaped, Putting
  <2>2. mem[s][key[f]] = R
    BY <1>6, <1>m, <2>1 DEF PutShape, PutSlot, Answered
  <2>3. ASSUME NEW j \in Slot PROVE PutSlot(f, j, R)'
    <3>1. PutSlot(f, j, R)
      BY <2>1 DEF PutShape
    <3>2. Copy(Owner(f), j, key[f])' = Copy(Owner(f), j, key[f])
      BY <1>u DEF Copy, Owner
    <3>3. Copy(Owner(f), j, key[f]) = R
      BY <1>7, <3>1 DEF PutSlot
    <3>4. Closed(f, j)' => bufs'[f][j] = R
      BY <1>6, <2>2, <3>1 DEF PutSlot, Answered
    <3> QED
      BY <1>u, <1>7, <3>2, <3>3, <3>4 DEF PutSlot
  <2>4. PutRuns(f)
    BY <1>4, <1>7, <1>u, <2>1, <2>3 DEF PutRuns, Putting, PutShape
  <2>5. Sees(f)'
    BY <1>4, <1>7, <1>u DEF Sees, GetSees
  <2> QED
    BY <1>3, <1>6, <2>4, <2>5, AbdStep DEF Answered
<1>8. CASE step[f] = "Reading"
  <2>1. NoPut(f)
    BY <1>8, <1>u DEF NoPut, Putting
  <2>2. floor'[f] = floor[f]
    BY <1>3, <1>8, <1>u, FloorKept
  <2>t. /\ key[f] \in Key /\ floor[f].ack[key[f]] \in Register /\ acked[key[f]] \in Register
        /\ mem[s][key[f]] \in Register
    <3>1. floor[f].ack \in [Key -> Register] /\ acked \in [Key -> Register]
      BY <1>0, <1>3 DEF ReadInv, FloorOK, WriteInv
    <3> QED
      BY <1>0, <1>3, <3>1, AbdTypes, ReplicaType
  <2>3. ASSUME NEW j \in Slot, Closed(f, j)', OnWriter(quorum_indices(Owner(f), j), key[f])
        PROVE  RegLeq(floor[f].ack[key[f]], bufs'[f][j])
    <3>1. CASE j = i
      <4>1. PICK d \in Client, l \in Slot : Writes(d, key[f]) /\ s = quorum_indices(d, l)
        BY <1>3, <2>3, <3>1 DEF OnWriter
      <4>2. RegLeq(acked[key[f]], mem[s][key[f]])
        BY <2>t, <4>1, WriterHolds DEF Copy
      <4>3. RegLeq(floor[f].ack[key[f]], acked[key[f]])
        BY <1>0, <1>3, <2>t DEF ReadInv, FloorOK
      <4>4. bufs'[f][j] = mem[s][key[f]]
        BY <1>6, <3>1 DEF Answered
      <4> HIDE DEF s
      <4> QED
        BY <2>t, <4>2, <4>3, <4>4, TagOrder
    <3>2. CASE j # i
      <4>1. Closed(f, j) /\ bufs'[f][j] = bufs[f][j]
        BY <1>6, <2>3, <3>2 DEF Answered
      <4>2. GetSees(f)
        BY <1>0, <1>3, <1>4 DEF ReadInv, Sees
      <4> QED
        BY <1>8, <2>3, <4>1, <4>2 DEF GetSees
    <3> QED
      BY <3>1, <3>2
  <2>4. GetSees(f)'
    BY <1>u, <2>2, <2>3 DEF GetSees, Owner
  <2>5. Sees(f)'
    BY <1>4, <2>4 DEF Sees
  <2> QED
    BY <1>3, <1>6, <2>1, <2>5, AbdStep DEF Answered
<1> QED
  BY <1>5, <1>7, <1>8

LEMMA NicCasAbd ==
    ASSUME AbdInv, TagInv', HistUpdate, OneWriter, PutsDisjoint, PutsDisjoint',
           RegWriteback = FALSE, NEW c \in Client, NEW i \in Slot, NicCas(c, i)
    PROVE  AbdInv'
<1>0. StoreInv /\ WriteInv /\ ReadInv /\ TypeOK
  BY StoreTypes DEF AbdInv
<1>1. PICK w : w = Head(sq[c][i])
  OBVIOUS
<1>2. PICK f : f = w.fut
  OBVIOUS
<1> DEFINE s == quorum_indices(c, i)
           k == key[f]
<1>e. /\ sq[c][i] # << >> /\ w.op = "cas"
      /\ bufs' = [bufs EXCEPT ![f][i] = mem[s][w.key]]
      /\ mem' = [mem EXCEPT ![s][w.key] = IF @ = w.expected THEN w.target ELSE @]
      /\ Complete(c, i, TRUE)
      /\ UNCHANGED << step, key, putVars, max_reg, rangeVars >>
  BY <1>1, <1>2 DEF NicCas, Executable
<1>3. /\ w \in WorkRequest /\ f \in Fut /\ Owner(f) = c /\ w.key \in Key
      /\ w \in Asked(f, i)
  BY <1>0, <1>1, <1>2, <1>e, HeadOut
<1>4. f \in OpFut /\ f \notin RangeFut
  BY <1>2, <1>3, <1>e, FutureKinds DEF WorkRequest
<1>5. /\ step[f] \in {"OptimisticChain", "CAS"} /\ w.key = k
      /\ w.expected = expected[f][i] /\ w.target = target_reg[f]
  <2>1. step[f] # "WritingBack"
    BY <1>0, <1>3 DEF StoreInv, FutureSane
  <2> QED
    BY <1>3, <1>4, <1>e, <2>1 DEF Asked, ReadWR, CasWR, BulkWR
<1>6. Answered(f, i, mem[s][k])
  BY <1>0, <1>1, <1>2, <1>4, <1>5, <1>e, AnswerStep
<1>u. /\ step'[f] = step[f] /\ key'[f] = k
      /\ expected'[f] = expected[f] /\ needs_cas'[f] = needs_cas[f]
      /\ target_reg'[f] = target_reg[f]
  BY <1>e DEF putVars
<1>t. mem \in [Server -> [Key -> Register]] /\ s \in Server /\ k \in Key
  BY <1>0, <1>3, <1>5, AbdTypes, ReplicaType
<1>m. \A t \in Server, j \in Key :
         mem'[t][j] = IF t = s /\ j = k /\ mem[s][k] = expected[f][i] THEN target_reg[f]
                      ELSE mem[t][j]
  <2> HIDE DEF s, k
  <2> QED
    BY <1>t, <1>5, <1>e
<1>7. PICK R \in Register : PutShape(f, R) /\ RegLeq(acked[k], R)
  BY <1>0, <1>4, <1>5 DEF WriteInv, PutsShaped, Putting
<1>8. mem[s][k] = R
  BY <1>3, <1>6, <1>7 DEF PutShape, PutSlot, Answered, Copy
<1>9. ASSUME NEW j \in Slot PROVE PutSlot(f, j, R)'
  <2>1. PutSlot(f, j, R)
    BY <1>7 DEF PutShape
  <2>2. Closed(f, j)' => bufs'[f][j] = R
    BY <1>6, <1>8, <2>1 DEF PutSlot, Answered
  <2>3. /\ Copy(Owner(f), j, k) = mem[quorum_indices(c, j)][k]
        /\ Copy(Owner(f), j, key[f])' = mem'[quorum_indices(c, j)][k]
        /\ quorum_indices(c, j) \in Server
    BY <1>3, <1>u, ReplicaType DEF Copy, Owner
  <2>4. CASE j = i
    <3>1. Copy(Owner(f), j, key[f])' = IF expected[f][j] = R THEN target_reg[f] ELSE R
      BY <1>8, <1>m, <1>t, <2>3, <2>4
    <3>2. Closed(f, j)'
      BY <1>6, <2>4 DEF Answered
    <3> QED
      BY <1>5, <1>u, <2>1, <2>2, <3>1, <3>2 DEF PutSlot
  <2>5. CASE j # i
    <3>1. quorum_indices(c, j) # s
      BY <2>5, SlotsDiffer
    <3>2. Copy(Owner(f), j, key[f])' = Copy(Owner(f), j, k)
      BY <1>m, <1>t, <2>3, <3>1
    <3>3. Closed(f, j)' <=> Closed(f, j)
      BY <1>6, <2>5 DEF Answered
    <3> QED
      BY <1>u, <2>1, <2>2, <3>2, <3>3 DEF PutSlot
  <2> QED
    BY <2>4, <2>5
<1>10. PutRuns(f)
  <2>1. PutShape(f, R)'
    BY <1>9 DEF PutShape
  <2>2. \A t \in Server, j \in Key : j # key'[f] => mem'[t][j] = mem[t][j]
    BY <1>m, <1>u
  <2> QED
    BY <1>4, <1>5, <1>u, <1>7, <2>1, <2>2 DEF PutRuns, Putting
<1>11. Sees(f)'
  BY <1>4, <1>5, <1>u DEF Sees, GetSees
<1> QED
  BY <1>3, <1>6, <1>10, <1>11, AbdStep DEF Answered

\* A request of f to slot i fails, and nothing else changes for the futures.
Fails(f, i) ==
    /\ \A g \in Fut \ {f} : Still(g)
    /\ QueuesSingle' /\ FutureSane(f)'
    /\ \A j \in Slot : Waits(f, j)'
    /\ Failed(f, i)' /\ ~Closed(f, i)' /\ ~Closed(f, i)
    /\ \A j \in Slot \ {i} : /\ Out(f, j)' = Out(f, j) /\ (Failed(f, j)' <=> Failed(f, j))
                             /\ Closed(f, j)' <=> Closed(f, j)

LEMMA NicErrorStep ==
    ASSUME StoreInv, NEW c \in Client, NEW i \in Slot, NicError(c, i)
    PROVE  \E f \in Fut : Fails(f, i)
<1>1. PICK w : w = Head(sq[c][i])
  OBVIOUS
<1>2. PICK f : f = w.fut
  OBVIOUS
<1>e. /\ sq[c][i] # << >>
      /\ sq' = [sq EXCEPT ![c][i] = Tail(sq[c][i])]
      /\ cq' = [cq EXCEPT ![c][i] = Append(cq[c][i], [fut |-> f, ok |-> FALSE])]
      /\ UNCHANGED << mem, step, key, bufs, putVars, max_reg, rangeVars >>
  BY <1>1, <1>2 DEF NicError, Complete
<1>3. /\ f \in Fut /\ Owner(f) = c /\ w \in Asked(f, i) /\ Out(f, i) = {w} /\ ~Failed(f, i)
  BY <1>1, <1>2, <1>e, HeadOut
<1>4. QueuesSingle' /\ OutsStay(f, i) /\ Within(sq'[Owner(f)][i], f) = {}
  BY <1>1, <1>2, <1>e, HeadLeaves
<1>5. /\ \A g \in Fut, j \in Slot : g # f \/ j # i =>
            (Spoilt(cq'[Owner(g)][j], g) <=> Failed(g, j))
      /\ Spoilt(cq'[Owner(f)][i], f)
  <2>1. PICK e \in Completion : e = [fut |-> f, ok |-> FALSE]
    BY <1>3 DEF Completion
  <2>2. e.fut = f /\ e.ok = FALSE
    BY <2>1
  <2>3. PICK q : q = cq[c][i]
    OBVIOUS
  <2>4. cq' = [cq EXCEPT ![c][i] = Append(q, e)]
    BY <1>e, <2>1, <2>3
  <2>5. /\ \A g \in Fut, j \in Slot : g # e.fut \/ j # i =>
              (Spoilt(cq'[Owner(g)][j], g) <=> Failed(g, j))
        /\ Spoilt(cq'[c][i], e.fut) <=> Failed(e.fut, i) \/ e.ok = FALSE
    BY <1>3, <2>2, <2>3, <2>4, Reported
  <2> QED
    BY <1>3, <2>2, <2>5
<1>7. ASSUME NEW g \in Fut \ {f} PROVE Still(g)
  <2>2. \A j \in Slot : /\ Within(sq'[Owner(g)][j], g) = Out(g, j)
                        /\ Spoilt(cq'[Owner(g)][j], g) <=> Failed(g, j)
    BY <1>4, <1>5 DEF OutsStay
  <2> QED
    BY <1>e, <2>2 DEF Still, putVars, rangeVars
<1>u. /\ step'[f] = step[f] /\ key'[f] = key[f] /\ mem' = mem /\ bufs' = bufs
      /\ expected' = expected /\ needs_cas' = needs_cas /\ target_reg' = target_reg
      /\ end_key' = end_key /\ bulk_bufs' = bulk_bufs
  BY <1>e DEF putVars, rangeVars
<1>8. FutureSane(f)'
  <2>1. FutureSane(f)
    BY <1>3 DEF StoreInv
  <2> QED
    BY <1>u, <2>1 DEF FutureSane, Putting
<1>9. /\ Out(f, i)' = {} /\ Failed(f, i)'
      /\ \A j \in Slot \ {i} : Out(f, j)' = Out(f, j) /\ (Failed(f, j)' <=> Failed(f, j))
  BY <1>3, <1>4, <1>5, PrimedViews DEF OutsStay
<1>d. step[f] # "Done"
  BY <1>3 DEF Asked
<1>10. \A j \in Slot : Waits(f, j)'
  <2> TAKE j \in Slot
  <2>1. Waits(f, j)
    BY <1>3 DEF StoreInv, QueuesMatch
  <2>2. Asked(f, j)' = Asked(f, j)
    BY <1>u DEF Asked, KeysOf
  <2> QED
    BY <1>9, <1>d, <1>u, <2>1, <2>2 DEF Waits
<1>11. /\ ~Closed(f, i)' /\ ~Closed(f, i)
       /\ \A j \in Slot \ {i} : Closed(f, j)' <=> Closed(f, j)
  BY <1>3, <1>9, PrimedViews DEF Closed
<1> QED
  BY <1>3, <1>4, <1>7, <1>8, <1>9, <1>10, <1>11 DEF Fails

LEMMA NicErrorAbd ==
    ASSUME AbdInv, TagInv', HistUpdate, OneWriter, PutsDisjoint, PutsDisjoint',
           NEW c \in Client, NEW i \in Slot, NicError(c, i)
    PROVE  AbdInv'
<1>0. StoreInv /\ WriteInv /\ ReadInv /\ TypeOK
  BY StoreTypes DEF AbdInv
<1>1. PICK f \in Fut : Fails(f, i)
  BY <1>0, NicErrorStep
<1>2. /\ Failed(f, i)' /\ \A j \in Slot : Closed(f, j)' <=> Closed(f, j)
      /\ \A j \in Slot \ {i} : Out(f, j)' = Out(f, j) /\ (Failed(f, j)' <=> Failed(f, j))
  BY <1>1 DEF Fails
<1>u. /\ step'[f] = step[f] /\ key'[f] = key[f] /\ mem' = mem /\ bufs' = bufs
      /\ expected' = expected /\ needs_cas' = needs_cas /\ target_reg' = target_reg
      /\ end_key' = end_key /\ bulk_bufs' = bulk_bufs
  BY DEF NicError, putVars, rangeVars
<1>12. NoPut(f) \/ PutRuns(f)
  <2>1. CASE ~Putting(f)
    BY <1>u, <2>1 DEF NoPut, Putting
  <2>2. CASE Putting(f)
    <3>0. f \in OpFut
      BY <1>0, <2>2, FutureKinds DEF StoreInv, FutureSane, Putting
    <3>1. PICK R \in Register : PutShape(f, R) /\ RegLeq(acked[key[f]], R)
      BY <1>0, <2>2, <3>0 DEF WriteInv, PutsShaped
    <3>2. ASSUME NEW j \in Slot PROVE PutSlot(f, j, R)'
      <4>1. PutSlot(f, j, R) /\ (Closed(f, j)' <=> Closed(f, j))
        BY <1>2, <3>1 DEF PutShape
      <4>2. Copy(Owner(f), j, key[f])' = Copy(Owner(f), j, key[f])
        BY <1>u DEF Copy, Owner
      <4> QED
        BY <1>u, <4>1, <4>2 DEF PutSlot
    <3> QED
      BY <1>u, <2>2, <3>0, <3>1, <3>2 DEF PutRuns, Putting, PutShape
  <2> QED
    BY <2>1, <2>2
<1>13. Sees(f)'
  <2>0. Sees(f) /\ (step[f] = "Reading" => floor'[f] = floor[f])
    BY <1>0, <1>u, FloorKept DEF ReadInv
  <2>1. f \in OpFut => GetSees(f)'
    BY <1>2, <1>u, <2>0 DEF Sees, GetSees, Owner
  <2>2. f \in RangeFut => ScanSees(f)'
    <3>1. KeysOf(f)' = KeysOf(f)
      BY <1>u DEF KeysOf
    <3>2. \A j \in Slot : \A k : Passed(f, j, k)' => Passed(f, j, k)
      BY <1>2 DEF Passed
    <3> QED
      BY <1>u, <2>0, <3>1, <3>2 DEF Sees, ScanSees, Owner
  <2> QED
    BY <2>1, <2>2 DEF Sees
<1> QED
  BY <1>1, <1>12, <1>13, AbdStep DEF Fails

\* The bulk read of f at slot i takes register k, and moves on or completes.
Takes(f, i, k) ==
    /\ \A g \in Fut \ {f} : Still(g)
    /\ QueuesSingle' /\ FutureSane(f)'
    /\ \A j \in Slot : Waits(f, j)'
    /\ step[f] = "Reading" /\ k \in KeysOf(f) /\ k \in Key
    /\ ~Passed(f, i, k)
    /\ \A j \in Slot, l \in KeysOf(f) :
         /\ j # i \/ l # k => /\ bulk_bufs'[f][j][l] = bulk_bufs[f][j][l]
                              /\ Passed(f, j, l)' => Passed(f, j, l)
    /\ bulk_bufs'[f][i][k] = Copy(Owner(f), i, k)
    /\ \A l \in KeysOf(f) : l \in Key

LEMMA NicBulkStep ==
    ASSUME StoreInv, NEW c \in Client, NEW i \in Slot, NicBulkWord(c, i)
    PROVE  \E f \in RangeFut : \E k \in Key : Takes(f, i, k)
<1>0. StoreInv /\ TypeOK
  BY StoreTypes
<1>1. PICK w : w = Head(sq[c][i])
  OBVIOUS
<1>2. PICK f : f = w.fut
  OBVIOUS
<1> DEFINE s == quorum_indices(c, i)
<1>e. /\ sq[c][i] # << >> /\ w.op = "bulk"
      /\ bulk_bufs' = [bulk_bufs EXCEPT ![f][i][w.key] = mem[s][w.key]]
      /\ IF w.key < end_key[f]
         THEN /\ sq' = [sq EXCEPT ![c][i] = << [w EXCEPT !.key = w.key + 1] >> \o Tail(sq[c][i])]
              /\ UNCHANGED cq
         ELSE Complete(c, i, TRUE)
      /\ UNCHANGED << mem, step, key, bufs, putVars, max_reg, end_key >>
  BY <1>1, <1>2 DEF NicBulkWord, Executable
<1>3. /\ w \in WorkRequest /\ f \in Fut /\ Owner(f) = c /\ w.key \in Key
      /\ w \in Asked(f, i) /\ Out(f, i) = {w} /\ ~Failed(f, i)
  BY <1>0, <1>1, <1>2, <1>e, HeadOut
<1>4. f \in RangeFut /\ f \notin OpFut
  BY <1>2, <1>3, <1>e, FutureKinds DEF WorkRequest
<1>5. step[f] = "Reading"
  <2>1. FutureSane(f)
    BY <1>0, <1>3 DEF StoreInv
  <2> QED
    BY <1>3, <1>4, <2>1 DEF Asked, FutureSane
<1>6. PICK k \in KeysOf(f) : w = BulkWR(f, k)
  BY <1>3, <1>4, <1>5 DEF Asked
<1>k. w.key = k /\ k \in Key
  BY <1>3, <1>6 DEF BulkWR
<1>t. /\ key[f] \in Key /\ end_key[f] \in Key /\ k \in Int /\ key[f] \in Int /\ end_key[f] \in Int
      /\ bulk_bufs \in [RangeFut -> [Slot -> [Key -> Register]]]
      /\ mem \in [Server -> [Key -> Register]] /\ s \in Server
  BY <1>0, <1>3, <1>4, <1>k, AbdTypes, ReplicaType DEF Key
<1>u. /\ step'[f] = step[f] /\ key'[f] = key[f] /\ mem' = mem /\ bufs' = bufs
      /\ expected' = expected /\ needs_cas' = needs_cas /\ target_reg' = target_reg
      /\ end_key' = end_key /\ step' = step /\ key' = key
  BY <1>e DEF putVars
\* The read moves on, or completes.
<1>7. /\ QueuesSingle' /\ OutsStay(f, i)
      /\ \A g \in Fut, j \in Slot : Spoilt(cq'[Owner(g)][j], g) <=> Failed(g, j)
      /\ \/ Out(f, i)' = {BulkWR(f, k + 1)} /\ k + 1 \in KeysOf(f)
         \/ Out(f, i)' = {} /\ k >= end_key[f]
  <2>1. CASE k < end_key[f]
    <3>1. [w EXCEPT !.key = w.key + 1] = BulkWR(f, k + 1)
      BY <1>6, <1>k DEF BulkWR
    <3>2. k + 1 \in KeysOf(f)
      BY <1>6, <1>t, <2>1 DEF KeysOf
    <3>3. k + 1 \in Key
      <4>1. k \in 0 .. NumRegisters - 1 /\ end_key[f] \in 0 .. NumRegisters - 1
        BY <1>k, <1>t DEF Key
      <4>2. end_key[f] <= NumRegisters - 1 /\ k >= 0 /\ NumRegisters \in Int
        BY <4>1, RegistersAssumption
      <4> QED
        BY <1>t, <2>1, <4>2 DEF Key
    <3>4. PICK e \in WorkRequest : e = BulkWR(f, k + 1) /\ e.fut = f
      <4>1. BulkWR(f, k + 1) \in WorkRequest
        BY <1>4, <3>3 DEF BulkWR, WorkRequest
      <4> QED
        BY <4>1 DEF BulkWR
    <3>5. sq' = [sq EXCEPT ![c][i] = << e >> \o Tail(sq[c][i])] /\ UNCHANGED cq
      BY <1>e, <1>k, <2>1, <3>1, <3>4
    <3>6. QueuesSingle' /\ OutsStay(f, i) /\ Within(sq'[Owner(f)][i], f) = {e}
      <4>1. e.fut = Head(sq[c][i]).fut
        BY <1>1, <1>2, <3>4
      <4>2. QueuesSingle' /\ OutsStay(e.fut, i) /\ Within(sq'[Owner(e.fut)][i], e.fut) = {e}
        BY <1>0, <1>e, <3>5, <4>1, HeadMoves
      <4> QED
        BY <3>4, <4>2
    <3>7. \A g, j : Spoilt(cq'[Owner(g)][j], g) <=> Failed(g, j)
      BY <3>5, FailedSpoilt
    <3> QED
      BY <3>2, <3>4, <3>6, <3>7, PrimedViews
  <2>2. CASE ~(k < end_key[f])
    <3>1. /\ sq' = [sq EXCEPT ![c][i] = Tail(sq[c][i])]
          /\ cq' = [cq EXCEPT ![c][i] = Append(cq[c][i], [fut |-> f, ok |-> TRUE])]
      BY <1>1, <1>2, <1>e, <1>k, <2>2 DEF Complete
    <3>2. QueuesSingle' /\ OutsStay(f, i) /\ Within(sq'[Owner(f)][i], f) = {}
      BY <1>0, <1>1, <1>2, <1>e, <3>1, HeadLeaves
    <3>3. PICK e \in Completion : e = [fut |-> f, ok |-> TRUE]
      BY <1>3 DEF Completion
    <3>4. e.fut = f /\ ~(e.ok = FALSE)
      BY <3>3
    <3>5. PICK q : q = cq[c][i]
      OBVIOUS
    <3>6. cq' = [cq EXCEPT ![c][i] = Append(q, e)]
      BY <3>1, <3>3, <3>5
    <3>7. /\ \A g \in Fut, j \in Slot : g # e.fut \/ j # i =>
                (Spoilt(cq'[Owner(g)][j], g) <=> Failed(g, j))
          /\ Spoilt(cq'[c][i], e.fut) <=> Failed(e.fut, i) \/ e.ok = FALSE
      BY <1>0, <1>3, <3>4, <3>5, <3>6, Reported
    <3>8. \A g \in Fut, j \in Slot : Spoilt(cq'[Owner(g)][j], g) <=> Failed(g, j)
      BY <1>3, <3>4, <3>7
    <3> QED
      BY <1>t, <2>2, <3>2, <3>8, PrimedViews
  <2> QED
    BY <2>1, <2>2
<1>8. ASSUME NEW g \in Fut \ {f} PROVE Still(g)
  <2>1. g \in RangeFut => bulk_bufs'[g] = bulk_bufs[g]
    BY <1>e, <1>t
  <2>2. \A j \in Slot : /\ Within(sq'[Owner(g)][j], g) = Out(g, j)
                        /\ Spoilt(cq'[Owner(g)][j], g) <=> Failed(g, j)
    BY <1>7 DEF OutsStay
  <2> QED
    BY <1>u, <2>1, <2>2 DEF Still
<1>9. FutureSane(f)'
  <2>1. FutureSane(f)
    BY <1>0, <1>3 DEF StoreInv
  <2> QED
    BY <1>u, <2>1 DEF FutureSane, Putting
<1>10. /\ \A j \in Slot \ {i} : Out(f, j)' = Out(f, j)
       /\ \A j \in Slot : Failed(f, j)' <=> Failed(f, j)
  BY <1>3, <1>7, PrimedViews DEF OutsStay
<1>11. \A j \in Slot : Waits(f, j)'
  <2> TAKE j \in Slot
  <2>1. Waits(f, j)
    BY <1>0, <1>3 DEF StoreInv, QueuesMatch
  <2>2. Asked(f, j)' = Asked(f, j)
    BY <1>u DEF Asked, KeysOf
  <2>3. CASE j = i
    <3>1. Asked(f, j) = {BulkWR(f, l) : l \in KeysOf(f)}
      BY <1>4, <1>5 DEF Asked
    <3> QED
      BY <1>3, <1>5, <1>7, <1>10, <1>u, <2>2, <2>3, <3>1 DEF Waits
  <2>4. CASE j # i
    BY <1>10, <1>u, <2>1, <2>2, <2>4 DEF Waits
  <2> QED
    BY <2>3, <2>4
<1>12. KeysOf(f)' = KeysOf(f) /\ \A l \in KeysOf(f) : l \in Key /\ l \in Int /\ l <= end_key[f]
  <2>1. KeysOf(f)' = KeysOf(f)
    BY <1>u DEF KeysOf
  <2>2. /\ key[f] >= 0 /\ end_key[f] <= NumRegisters - 1 /\ NumRegisters \in Int
    BY <1>t, RegistersAssumption DEF Key
  <2>3. \A l \in KeysOf(f) : l \in Key /\ l \in Int /\ l <= end_key[f]
    BY <1>t, <2>2 DEF KeysOf, Key
  <2> QED
    BY <2>1, <2>3
<1>13. /\ bulk_bufs'[f][i][k] = mem[s][k]
       /\ \A j \in Slot, l \in Key : j # i \/ l # k => bulk_bufs'[f][j][l] = bulk_bufs[f][j][l]
  BY <1>4, <1>e, <1>k, <1>t
<1>14. ASSUME NEW j \in Slot, NEW l \in KeysOf(f), j # i \/ l # k, Passed(f, j, l)'
       PROVE  Passed(f, j, l)
  <2>1. CASE j # i
    BY <1>10, <1>14, <2>1 DEF Passed
  <2>2. CASE j = i /\ l # k
    <3>1. ~Failed(f, i) /\ \A x \in Out(f, i)' : l < x.key
      BY <1>10, <1>14, <2>2 DEF Passed
    <3>2. CASE Out(f, i)' = {BulkWR(f, k + 1)}
      <4>1. BulkWR(f, k + 1).key = k + 1
        BY DEF BulkWR
      <4>2. l < k + 1
        BY <3>1, <3>2, <4>1
      <4> QED
        BY <1>3, <1>k, <1>t, <1>12, <2>2, <3>1, <4>2 DEF Passed
    <3>3. CASE k >= end_key[f]
      <4>0. l \in Int /\ l <= end_key[f] /\ l # k
        BY <1>12, <2>2
      <4>i. k \in Int /\ end_key[f] \in Int
        BY <1>t
      <4>1. l < k
        BY <3>3, <4>0, <4>i
      <4> QED
        BY <1>3, <1>k, <2>2, <3>1, <4>1 DEF Passed
    <3> QED
      BY <1>7, <3>2, <3>3
  <2> QED
    BY <1>14, <2>1, <2>2
<1>15. ~Passed(f, i, k)
  BY <1>3, <1>k, <1>t DEF Passed
<1>16. bulk_bufs'[f][i][k] = Copy(Owner(f), i, k)
  BY <1>3, <1>13 DEF Copy
<1> QED
  BY <1>4, <1>5, <1>6, <1>7, <1>8, <1>9, <1>11, <1>12, <1>13, <1>14, <1>15, <1>16, <1>k DEF Takes

LEMMA NicBulkAbd ==
    ASSUME AbdInv, TagInv', HistUpdate, OneWriter, PutsDisjoint, PutsDisjoint',
           NEW c \in Client, NEW i \in Slot, NicBulkWord(c, i)
    PROVE  AbdInv'
<1>0. StoreInv /\ WriteInv /\ ReadInv /\ TypeOK
  BY StoreTypes DEF AbdInv
<1>1. PICK f \in RangeFut, k \in Key : Takes(f, i, k)
  BY <1>0, NicBulkStep
<1>f. f \in Fut /\ f \notin OpFut /\ Owner(f) \in Client /\ step[f] = "Reading" /\ k \in KeysOf(f)
  BY <1>1, FutureKinds, OwnerType DEF Takes
<1>u. step'[f] = step[f] /\ key'[f] = key[f] /\ mem' = mem /\ end_key' = end_key
  BY DEF NicBulkWord
<1>2. NoPut(f)
  BY <1>f, <1>u DEF NoPut, Putting
<1>3. ScanSees(f) /\ floor'[f] = floor[f]
  BY <1>0, <1>f, <1>u, FloorKept DEF ReadInv, Sees
<1>4. KeysOf(f)' = KeysOf(f)
  BY <1>u DEF KeysOf
<1>5. ASSUME NEW j \in Slot, NEW l \in KeysOf(f), Passed(f, j, l)',
             OnWriter(quorum_indices(Owner(f), j), l)
      PROVE  RegLeq(floor[f].ack[l], bulk_bufs'[f][j][l])
  <2>1. CASE j = i /\ l = k
    <3>1. PICK d \in Client, m \in Slot :
            Writes(d, k) /\ quorum_indices(Owner(f), i) = quorum_indices(d, m)
      BY <1>5, <2>1 DEF OnWriter
    <3>2. PICK r : r = Copy(Owner(f), i, k)
      OBVIOUS
    <3>3. RegLeq(acked[k], r)
      BY <3>1, <3>2, WriterHolds DEF Copy
    <3>4. RegLeq(floor[f].ack[k], acked[k])
      BY <1>0, <1>f DEF ReadInv, FloorOK
    <3>5. floor[f].ack[k] \in Register /\ acked[k] \in Register /\ r \in Register
      <4>1. floor[f].ack \in [Key -> Register] /\ acked \in [Key -> Register]
        BY <1>0, <1>f DEF ReadInv, FloorOK, WriteInv
      <4>2. mem \in [Server -> [Key -> Register]] /\ k \in Key
        BY <1>0, <1>f, AbdTypes
      <4>3. quorum_indices(Owner(f), i) \in Server
        BY <1>f, ReplicaType
      <4> QED
        BY <3>2, <4>1, <4>2, <4>3 DEF Copy
    <3>6. bulk_bufs'[f][j][l] = r
      BY <1>1, <2>1, <3>2 DEF Takes
    <3> QED
      BY <2>1, <3>3, <3>4, <3>5, <3>6, TagOrder
  <2>2. CASE ~(j = i /\ l = k)
    BY <1>1, <1>3, <1>5, <1>f, <2>2 DEF ScanSees, Takes
  <2> QED
    BY <2>1, <2>2
<1>6. ScanSees(f)'
  BY <1>u, <1>3, <1>4, <1>5 DEF ScanSees, Owner
<1> QED
  BY <1>1, <1>2, <1>6, <1>f, AbdStep DEF Sees, Takes

-----------------------------------------------------------------------------
(***************************************************************************)
(* Steps in which no future moves.                                          *)
(***************************************************************************)
LEMMA NoneMoves ==
    ASSUME AbdInv, TagInv', HistUpdate, OneWriter, PutsDisjoint, PutsDisjoint',
           \A g \in Fut : Still(g), sq' = sq, mem' = mem
    PROVE  AbdInv'
<1>0. StoreInv /\ WriteInv /\ ReadInv /\ TypeOK
  BY StoreTypes DEF AbdInv
<1>1. PICK f \in OpFut : TRUE
  <2>1. 0 \in Client /\ 0 \in 0 .. (AsyncParallelism - 1)
    BY NumClientsAssumption, AsyncAssumption DEF Client
  <2>2. << "op", 0, 0 >> \in OpFut
    BY <2>1 DEF OpFut
  <2> QED
    BY <2>2
<1>2. f \in Fut /\ Still(f)
  BY FutureKinds
<1>3. QueuesSingle'
  BY <1>0 DEF StoreInv, QueuesSingle, Single
<1>4. FutureSane(f)' /\ (\A i \in Slot : Waits(f, i)') /\ Sees(f)'
  BY <1>0, <1>2, StillStore, StillSees DEF ReadInv
<1>5. NoPut(f) \/ PutRuns(f)
  <2>0. step'[f] = step[f] /\ key'[f] = key[f]
    BY <1>2 DEF Still
  <2>1. CASE ~Putting(f)
    BY <2>0, <2>1 DEF NoPut, Putting
  <2>2. CASE Putting(f)
    <3>1. PICK R \in Register : PutShape(f, R) /\ RegLeq(acked[key[f]], R)
      BY <1>0, <2>2 DEF WriteInv, PutsShaped
    <3>2. PutShape(f, R)'
      BY <1>0, <1>2, <3>1, StillShape
    <3> QED
      BY <2>0, <2>2, <3>1, <3>2 DEF PutRuns, Putting
  <2> QED
    BY <2>1, <2>2
<1> QED
  BY <1>2, <1>3, <1>4, <1>5, AbdStep

\* A poll takes nothing from a future but completions that report success.
LEMMA TickStill ==
    ASSUME StoreInv, NEW c \in Client, TickRdma(c)
    PROVE  (\A g \in Fut : Still(g)) /\ sq' = sq /\ mem' = mem
<1>0. StoreInv /\ TypeOK
  BY StoreTypes
<1>1. PICK n \in [Slot -> 0 .. (2 * AsyncParallelism)] :
         /\ \A i \in Slot : n[i] > 0 => n[i] <= Len(cq[c][i]) /\ n[i] <= to_poll[c][i]
         /\ \A i \in Slot : \A m \in 1 .. n[i] : cq[c][i][m].ok
         /\ cq' = [cq EXCEPT ![c] = [i \in Slot |-> SubSeq(cq[c][i], n[i] + 1, Len(cq[c][i]))]]
         /\ UNCHANGED << mem, sq, step, key, bufs, putVars, max_reg, rangeVars >>
  BY DEF TickRdma
<1>t. cq \in [Client -> [Slot -> Seq(Completion)]]
  BY <1>0, AbdTypes
<1>2. ASSUME NEW g \in Fut, NEW i \in Slot
      PROVE  Spoilt(cq'[Owner(g)][i], g) <=> Failed(g, i)
  <2>1. CASE Owner(g) = c
    <3> DEFINE q == cq[c][i]
               l == n[i]
    <3>1. q \in Seq(Completion) /\ l \in Nat /\ Len(q) \in Nat
      BY <1>t, AsyncAssumption
    <3>2. l <= Len(q) /\ \A m \in 1 .. l : q[m].ok
      BY <1>1, <3>1
    <3>3. cq'[Owner(g)][i] = SubSeq(q, l + 1, Len(q))
      BY <1>1, <1>t, <2>1
    <3> HIDE DEF q, l
    <3>4. Spoilt(SubSeq(q, l + 1, Len(q)), g) <=> Spoilt(q, g)
      BY <3>1, <3>2, SpoiltRest
    <3> QED
      BY <2>1, <3>3, <3>4, FailedSpoilt DEF q
  <2>2. CASE Owner(g) # c
    <3>1. cq'[Owner(g)] = cq[Owner(g)]
      BY <1>1, <1>t, <2>2, OwnerType
    <3> QED
      BY <3>1, FailedSpoilt
  <2> QED
    BY <2>1, <2>2
<1>3. ASSUME NEW g \in Fut PROVE Still(g)
  BY <1>1, <1>2 DEF Still, Out, putVars, rangeVars
<1> QED
  BY <1>1, <1>3

LEMMA TickAbd ==
    ASSUME AbdInv, TagInv', HistUpdate, OneWriter, PutsDisjoint, PutsDisjoint',
           NEW c \in Client, TickRdma(c)
    PROVE  AbdInv'
BY TickStill, NoneMoves DEF AbdInv

LEMMA IdleStill ==
    ASSUME UNCHANGED << mem, sq, cq, step, key, bufs, putVars, rangeVars >>
    PROVE  \A g \in Fut : Still(g)
BY FailedSpoilt DEF Still, Out, putVars, rangeVars

LEMMA IdleAbd ==
    ASSUME AbdInv, TagInv', HistUpdate, OneWriter, PutsDisjoint, PutsDisjoint',
           UNCHANGED << mem, sq, cq, step, key, bufs, putVars, rangeVars >>
    PROVE  AbdInv'
BY IdleStill, NoneMoves

-----------------------------------------------------------------------------
(***************************************************************************)
(* The steps of one future.                                                 *)
(***************************************************************************)

\* The step changes no variable of a future other than f.
OnlyOf(f) ==
    \A g \in Fut \ {f} :
        /\ step'[g] = step[g] /\ key'[g] = key[g]
        /\ g \in OpFut => /\ bufs'[g] = bufs[g] /\ expected'[g] = expected[g]
                          /\ target_reg'[g] = target_reg[g] /\ needs_cas'[g] = needs_cas[g]
        /\ g \in RangeFut => end_key'[g] = end_key[g] /\ bulk_bufs'[g] = bulk_bufs[g]

\* f asks the slots in S for something.
LEMMA AsksSome ==
    ASSUME StoreInv, NEW f \in Fut, Waitless(f), NEW S, NEW W, Requests(f, S, W), Post(f, S, W),
           OnlyOf(f)
    PROVE  /\ QueuesSingle' /\ \A g \in Fut \ {f} : Still(g)
           /\ \A i \in Slot : ~Failed(f, i)'
           /\ \A i \in S : Out(f, i)' = {W[i]} /\ ~Closed(f, i)'
           /\ \A i \in Slot \ S : Out(f, i)' = {}
<1>1. /\ QueuesSingle'
      /\ \A i \in S : Within(sq'[Owner(f)][i], f) = {W[i]}
      /\ \A i \in Slot \ S : Within(sq'[Owner(f)][i], f) = {}
      /\ \A g \in Fut \ {f}, j \in Slot : Within(sq'[Owner(g)][j], g) = Out(g, j)
  BY AllPosted
<1>2. cq' = cq /\ \A i \in Slot : ~Failed(f, i)
  BY DEF Post, Waitless
<1>r. S \subseteq Slot
  BY DEF Requests
<1>3. \A g, j : Spoilt(cq'[Owner(g)][j], g) <=> Failed(g, j)
  BY <1>2, FailedSpoilt
<1>4. \A g \in Fut \ {f} : Still(g)
  BY <1>1, <1>3 DEF OnlyOf, Still
<1>5. /\ \A i \in Slot : ~Failed(f, i)'
      /\ \A i \in S : Out(f, i)' = {W[i]}
      /\ \A i \in Slot \ S : Out(f, i)' = {}
  BY <1>1, <1>2, <1>3, <1>r, PrimedViews
<1>6. \A i \in S : ~Closed(f, i)'
  BY <1>5, PrimedViews
<1> QED
  BY <1>1, <1>4, <1>5, <1>6

\* f asks every slot for something.
LEMMA AsksAll ==
    ASSUME StoreInv, NEW f \in Fut, \A i \in Slot : Out(f, i) = {} /\ ~Failed(f, i),
           NEW W, Post(f, Slot, W), \A i \in Slot : W[i] \in WorkRequest /\ W[i].fut = f,
           OnlyOf(f)
    PROVE  /\ QueuesSingle' /\ \A g \in Fut \ {f} : Still(g)
           /\ \A i \in Slot : Out(f, i)' = {W[i]} /\ ~Failed(f, i)' /\ ~Closed(f, i)'
<1>1. Waitless(f) /\ Requests(f, Slot, W)
  BY DEF Waitless, Requests
<1>2. /\ QueuesSingle' /\ \A g \in Fut \ {f} : Still(g)
      /\ \A i \in Slot : ~Failed(f, i)'
      /\ \A i \in Slot : Out(f, i)' = {W[i]} /\ ~Closed(f, i)'
  BY <1>1, AsksSome
<1> QED
  BY <1>2

\* f is quiet, and done.
LEMMA AsksNothing ==
    ASSUME StoreInv, NEW f \in Fut, Quiet(f), PostNothing, OnlyOf(f), step'[f] = "Done"
    PROVE  /\ QueuesSingle' /\ (\A g \in Fut \ {f} : Still(g))
           /\ (\A i \in Slot : Waits(f, i)') /\ FutureSane(f)' /\ Sees(f)' /\ ~Putting(f)'
<1>1. sq' = sq /\ cq' = cq
  BY DEF PostNothing
<1>2. QueuesSingle'
  BY <1>1 DEF StoreInv, QueuesSingle, Single
<1>3. \A g, j : Spoilt(cq'[Owner(g)][j], g) <=> Failed(g, j)
  BY <1>1, FailedSpoilt
<1>4. \A g \in Fut \ {f} : Still(g)
  BY <1>1, <1>3 DEF OnlyOf, Still, Out
<1>5. ASSUME NEW i \in Slot PROVE Waits(f, i)'
  <2>1. Out(f, i) = {} /\ ~Failed(f, i)
    BY QuietClosed DEF Closed
  <2>2. Out(f, i)' = {} /\ ~Failed(f, i)'
    BY <1>1, <1>3, <2>1, PrimedViews DEF Out
  <2> QED
    BY <2>2 DEF Waits
<1>6. FutureSane(f)' /\ Sees(f)' /\ ~Putting(f)'
  BY FutureKinds DEF FutureSane, Sees, GetSees, ScanSees, Putting
<1> QED
  BY <1>2, <1>4, <1>5, <1>6

\* f asks every slot what its state says.
LEMMA AskedWaits ==
    ASSUME NEW f, NEW W, \A i \in Slot : Out(f, i)' = {W[i]} /\ ~Failed(f, i)',
           \A i \in Slot : W[i] \in Asked(f, i)'
    PROVE  \A i \in Slot : Waits(f, i)'
BY DEF Waits

\* A put that has asked every slot runs, when its quorum holds R.
LEMMA PutAsks ==
    ASSUME TypeOK, NEW f \in OpFut, Putting(f)', \A i \in Slot : ~Closed(f, i)',
           mem' = mem, Putting(f) => key'[f] = key[f],
           NEW R \in Register, Level(Owner(f), key'[f], R), RegLeq(acked[key'[f]], R),
           step'[f] = "CAS" => \A i \in Slot : needs_cas'[f][i] /\ expected'[f][i] = R,
           step'[f] = "OptimisticChain" =>
               \A i \in Slot : expected'[f][i] = expected'[f][1]
    PROVE  PutRuns(f) /\ Sees(f)'
<1>1. ASSUME NEW i \in Slot PROVE PutSlot(f, i, R)'
  <2>1. Copy(Owner(f), i, key[f])' = R
    BY DEF Level, Copy, Owner
  <2> QED
    BY <2>1 DEF PutSlot
<1>2. PutShape(f, R)'
  BY <1>1 DEF PutShape
<1>3. PutRuns(f)
  BY <1>2 DEF PutRuns
<1>4. Sees(f)'
  BY FutureKinds DEF Sees, GetSees, Putting
<1> QED
  BY <1>3, <1>4

\* A put starts when its register is at rest.
LEMMA StartLevel ==
    ASSUME AbdInv, PutsDisjoint', NEW f \in OpFut, step[f] = "Done", Putting(f)',
           NEW k \in Key, key'[f] = k, Writes(Owner(f), k), OnlyOf(f)
    PROVE  \E R \in Register : Level(Owner(f), k, R) /\ RegLeq(acked[k], R)
<1>1. ~Busy(Owner(f), k)
  <2> SUFFICES ASSUME NEW g \in OpFut, Putting(g), key[g] = k PROVE FALSE
    BY DEF Busy
  <2>1. g # f
    BY DEF Putting
  <2>2. step'[g] = step[g] /\ key'[g] = key[g]
    BY <2>1, FutureKinds DEF OnlyOf
  <2>3. Putting(g)' /\ key'[g] = key'[f]
    BY <2>2 DEF Putting
  <2> QED
    BY <2>1, <2>3 DEF PutsDisjoint
<1> QED
  BY <1>1, FutureKinds, OwnerType DEF AbdInv, WriteInv, IdleShaped

LEMMA StartPutAbd ==
    ASSUME AbdInv, TagInv', HistUpdate, OneWriter, PutsDisjoint, PutsDisjoint',
           NEW f \in OpFut, StartPut(f)
    PROVE  AbdInv'
<1>0. StoreInv /\ TypeOK
  BY StoreTypes DEF AbdInv
<1>f. f \in Fut /\ f \notin RangeFut /\ Owner(f) \in Client
  BY FutureKinds, OwnerType
<1>1. PICK k \in PutKeys[Owner(f)], v \in Value : DoPutHit(f, k, v) \/ DoPutMiss(f, k, v)
  BY DEF StartPut
<1>k. k \in Key /\ Writes(Owner(f), k)
  <2>1. PutKeys[Owner(f)] \subseteq Key /\ "put" \in Ops[Owner(f)]
    BY <1>f, PutKeysAssumption DEF StartPut, Issue
  <2> QED
    BY <1>1, <2>1 DEF Writes
<1>2. step[f] = "Done" /\ ~Putting(f)
  BY DEF StartPut, Issue, FreeFuture, Putting
<1>3. \A i \in Slot : Out(f, i) = {} /\ ~Failed(f, i)
  BY <1>0, <1>f, <1>2, DoneOut
<1>t. /\ step \in [Fut -> Step] /\ key \in [Fut -> Key]
      /\ target_reg \in [OpFut -> Register] /\ expected \in [OpFut -> [Slot -> Register]]
      /\ needs_cas \in [OpFut -> [Slot -> BOOLEAN]] /\ cache \in [Client -> [Key -> Register]]
  BY <1>0, AbdTypes
<1>u. UNCHANGED << mem, bufs, end_key, bulk_bufs >>
  BY <1>1 DEF StartPut, DoPutHit, DoPutMiss, rangeVars
<1>z. ASSUME NEW W, Post(f, Slot, W), \A i \in Slot : W[i] \in WorkRequest /\ W[i].fut = f,
             \A i \in Slot : W[i] \in Asked(f, i)',
             OnlyOf(f), step'[f] \in {"ReadSeq", "OptimisticChain"}, key'[f] = k,
             step'[f] = "OptimisticChain" =>
               \A i \in Slot : expected'[f][i] = expected'[f][1]
      PROVE  AbdInv'
  <2>1. /\ QueuesSingle' /\ \A g \in Fut \ {f} : Still(g)
        /\ \A i \in Slot : Out(f, i)' = {W[i]} /\ ~Failed(f, i)' /\ ~Closed(f, i)'
    BY <1>0, <1>f, <1>3, <1>z, AsksAll
  <2>2. \A i \in Slot : Waits(f, i)'
    BY <1>z, <2>1, AskedWaits
  <2>3. Putting(f)' /\ FutureSane(f)'
    BY <1>f, <1>k, <1>z DEF FutureSane, Putting, Owner
  <2>4. PICK R \in Register : Level(Owner(f), k, R) /\ RegLeq(acked[k], R)
    BY <1>2, <1>k, <1>z, <2>3, StartLevel
  <2>5. PutRuns(f) /\ Sees(f)'
    BY <1>0, <1>2, <1>u, <1>z, <2>1, <2>3, <2>4, PutAsks
  <2> QED
    BY <1>f, <2>1, <2>2, <2>3, <2>5, AbdStep
<1>4. CASE DoPutHit(f, k, v)
  <2> DEFINE cached == cache[Owner(f)][k]
             tgt == MkRegister(NextSeq(cached.seq), Owner(f), v)
             W == [i \in Slot |-> CasWR(f, k, cached, tgt)]
  <2>1. /\ step' = [step EXCEPT ![f] = "OptimisticChain"] /\ key' = [key EXCEPT ![f] = k]
        /\ expected' = [expected EXCEPT ![f] = [i \in Slot |-> cached]]
        /\ target_reg' = [target_reg EXCEPT ![f] = tgt]
        /\ needs_cas' = [needs_cas EXCEPT ![f] = [i \in Slot |-> TRUE]]
        /\ Post(f, Slot, W)
    BY <1>4 DEF DoPutHit
  <2>2. cached \in Register /\ tgt \in Register
    <3>1. cached \in Register
      BY <1>f, <1>k, <1>t
    <3>2. cached.seq \in Seq16
      BY <3>1 DEF Register
    <3> QED
      BY <1>f, <3>1, <3>2, NextSeqType, MkRegisterType
  <2> HIDE DEF cached, tgt
  <2>3. \A i \in Slot : W[i] = CasWR(f, k, cached, tgt)
    OBVIOUS
  <2>4. CasWR(f, k, cached, tgt) \in WorkRequest /\ CasWR(f, k, cached, tgt).fut = f
    BY <1>k, <2>2, WorkRequestTypes DEF CasWR
  <2> HIDE DEF W
  <2>5. /\ step'[f] = "OptimisticChain" /\ key'[f] = k /\ target_reg'[f] = tgt
        /\ \A i \in Slot : expected'[f][i] = cached
    BY <1>f, <1>t, <2>1
  <2>6. OnlyOf(f)
    BY <1>t, <1>u, <2>1, FutureKinds DEF OnlyOf
  <2>7. \A i \in Slot : W[i] \in Asked(f, i)'
    BY <1>f, <2>3, <2>5 DEF Asked
  <2>8. 1 \in Slot
    BY SlotFacts
  <2>9. \A i \in Slot : W[i] \in WorkRequest /\ W[i].fut = f
    BY <2>3, <2>4
  <2> QED
    BY <1>z, <2>1, <2>5, <2>6, <2>7, <2>8, <2>9
<1>5. CASE DoPutMiss(f, k, v)
  <2> DEFINE W == [i \in Slot |-> ReadWR(f, k)]
  <2>1. /\ step' = [step EXCEPT ![f] = "ReadSeq"] /\ key' = [key EXCEPT ![f] = k]
        /\ expected' = expected /\ target_reg' = target_reg
        /\ needs_cas' = [needs_cas EXCEPT ![f] = [i \in Slot |-> FALSE]]
        /\ Post(f, Slot, W)
    BY <1>5 DEF DoPutMiss
  <2>3. \A i \in Slot : W[i] = ReadWR(f, k)
    OBVIOUS
  <2>4. ReadWR(f, k) \in WorkRequest /\ ReadWR(f, k).fut = f
    BY <1>k, WorkRequestTypes DEF ReadWR
  <2> HIDE DEF W
  <2>5. step'[f] = "ReadSeq" /\ key'[f] = k
    BY <1>f, <1>t, <2>1
  <2>6. OnlyOf(f)
    BY <1>t, <1>u, <2>1, FutureKinds DEF OnlyOf
  <2>7. \A i \in Slot : W[i] \in Asked(f, i)'
    BY <1>f, <2>3, <2>5 DEF Asked
  <2>9. \A i \in Slot : W[i] \in WorkRequest /\ W[i].fut = f
    BY <2>3, <2>4
  <2> QED
    BY <1>z, <2>1, <2>5, <2>6, <2>7, <2>9
<1> QED
  BY <1>1, <1>4, <1>5

LEMMA StartGetAbd ==
    ASSUME AbdInv, TagInv', HistUpdate, OneWriter, PutsDisjoint, PutsDisjoint',
           NEW f \in OpFut, StartGet(f)
    PROVE  AbdInv'
<1>0. StoreInv /\ TypeOK
  BY StoreTypes DEF AbdInv
<1>f. f \in Fut /\ f \notin RangeFut
  BY FutureKinds
<1>1. PICK k \in Key : DoGet(f, k)
  BY DEF StartGet
<1>2. step[f] = "Done" /\ ~Putting(f)
  BY DEF StartGet, Issue, FreeFuture, Putting
<1>3. \A i \in Slot : Out(f, i) = {} /\ ~Failed(f, i)
  BY <1>0, <1>f, <1>2, DoneOut
<1>t. step \in [Fut -> Step] /\ key \in [Fut -> Key]
  BY <1>0, AbdTypes
<1> DEFINE W == [i \in Slot |-> ReadWR(f, k)]
<1>4. /\ step' = [step EXCEPT ![f] = "Reading"] /\ key' = [key EXCEPT ![f] = k]
      /\ Post(f, Slot, W)
      /\ UNCHANGED << mem, bufs, expected, target_reg, needs_cas, end_key, bulk_bufs >>
  BY <1>1 DEF StartGet, DoGet, putVars, rangeVars
<1>5. \A i \in Slot : W[i] = ReadWR(f, k)
  OBVIOUS
<1>6. ReadWR(f, k) \in WorkRequest /\ ReadWR(f, k).fut = f
  BY WorkRequestTypes DEF ReadWR
<1> HIDE DEF W
<1>7. step'[f] = "Reading" /\ key'[f] = k
  BY <1>f, <1>t, <1>4
<1>8. OnlyOf(f)
  BY <1>t, <1>4 DEF OnlyOf
<1>9. \A i \in Slot : W[i] \in WorkRequest /\ W[i].fut = f
  BY <1>5, <1>6
<1>10. /\ QueuesSingle' /\ \A g \in Fut \ {f} : Still(g)
       /\ \A i \in Slot : Out(f, i)' = {W[i]} /\ ~Failed(f, i)' /\ ~Closed(f, i)'
  BY <1>0, <1>f, <1>3, <1>4, <1>8, <1>9, AsksAll
<1>11. \A i \in Slot : W[i] \in Asked(f, i)'
  BY <1>f, <1>5, <1>7 DEF Asked
<1>12. \A i \in Slot : Waits(f, i)'
  BY <1>10, <1>11, AskedWaits
<1>13. FutureSane(f)' /\ NoPut(f)
  BY <1>f, <1>2, <1>4, <1>7 DEF FutureSane, NoPut, Putting
<1>14. Sees(f)'
  BY <1>f, <1>10 DEF Sees, GetSees
<1> QED
  BY <1>f, <1>10, <1>12, <1>13, <1>14, AbdStep

LEMMA StartRangeAbd ==
    ASSUME AbdInv, TagInv', HistUpdate, OneWriter, PutsDisjoint, PutsDisjoint',
           NEW f \in RangeFut, StartRange(f)
    PROVE  AbdInv'
<1>0. StoreInv /\ TypeOK
  BY StoreTypes DEF AbdInv
<1>f. f \in Fut /\ f \notin OpFut
  BY FutureKinds
<1>1. PICK sk \in Key, ek \in Key : DoRange(f, sk, ek)
  BY DEF StartRange
<1>2. step[f] = "Done" /\ ~Putting(f)
  BY DEF StartRange, Issue, FreeFuture, Putting
<1>3. \A i \in Slot : Out(f, i) = {} /\ ~Failed(f, i)
  BY <1>0, <1>f, <1>2, DoneOut
<1>t. step \in [Fut -> Step] /\ key \in [Fut -> Key] /\ end_key \in [RangeFut -> Key]
  BY <1>0, AbdTypes
<1> DEFINE W == [i \in Slot |-> BulkWR(f, sk)]
<1>4. /\ step' = [step EXCEPT ![f] = "Reading"] /\ key' = [key EXCEPT ![f] = sk]
      /\ end_key' = [end_key EXCEPT ![f] = ek] /\ sk <= ek
      /\ Post(f, Slot, W)
      /\ UNCHANGED << mem, bufs, expected, target_reg, needs_cas, bulk_bufs >>
  BY <1>1 DEF StartRange, DoRange, putVars
<1>5. \A i \in Slot : W[i] = BulkWR(f, sk)
  OBVIOUS
<1>6. BulkWR(f, sk) \in WorkRequest /\ BulkWR(f, sk).fut = f /\ BulkWR(f, sk).key = sk
  BY WorkRequestTypes DEF BulkWR
<1> HIDE DEF W
<1>7. step'[f] = "Reading" /\ key'[f] = sk /\ end_key'[f] = ek
  BY <1>f, <1>t, <1>4
<1>8. OnlyOf(f)
  BY <1>t, <1>4 DEF OnlyOf
<1>9. \A i \in Slot : W[i] \in WorkRequest /\ W[i].fut = f
  BY <1>5, <1>6
<1>10. /\ QueuesSingle' /\ \A g \in Fut \ {f} : Still(g)
       /\ \A i \in Slot : Out(f, i)' = {W[i]} /\ ~Failed(f, i)' /\ ~Closed(f, i)'
  BY <1>0, <1>f, <1>3, <1>4, <1>8, <1>9, AsksAll
<1>k. /\ KeysOf(f)' = sk .. ek /\ sk \in Int /\ ek \in Int /\ sk \in sk .. ek
  BY <1>4, <1>7 DEF KeysOf, Key
<1>11. \A i \in Slot : W[i] \in Asked(f, i)'
  <2>1. \A i \in Slot : Asked(f, i)' = {BulkWR(f, k) : k \in KeysOf(f)'}
    BY <1>f, <1>7 DEF Asked
  <2> QED
    BY <1>5, <1>k, <2>1
<1>12. \A i \in Slot : Waits(f, i)'
  BY <1>10, <1>11, AskedWaits
<1>13. FutureSane(f)' /\ NoPut(f)
  BY <1>f, <1>2, <1>4, <1>7 DEF FutureSane, NoPut, Putting
<1>14. Sees(f)'
  <2>1. ASSUME NEW i \in Slot, NEW k \in KeysOf(f)' PROVE ~Passed(f, i, k)'
    <3>1. k \in sk .. ek
      BY <1>k, <2>1
    <3>2. ~(k < sk)
      BY <1>k, <3>1
    <3>3. BulkWR(f, sk) \in Out(f, i)'
      BY <1>5, <1>10
    <3> QED
      BY <1>6, <3>2, <3>3 DEF Passed
  <2>2. ScanSees(f)'
    BY <2>1 DEF ScanSees
  <2> QED
    BY <1>f, <2>2 DEF Sees
<1> QED
  BY <1>f, <1>10, <1>12, <1>13, <1>14, AbdStep

\* A put whose requests have all been answered found one register everywhere,
\* and has swapped it everywhere or nowhere.
LEMMA PutFound ==
    ASSUME AbdInv, NEW f \in OpFut, Putting(f), Quiet(f)
    PROVE  \E R \in Register :
             /\ RegLeq(acked[key[f]], R) /\ \A i \in Slot : bufs[f][i] = R
             /\ step[f] = "CAS" => \A i \in Slot : needs_cas[f][i]
             /\ \/ /\ step[f] = "ReadSeq" \/ \A i \in Slot : expected[f][i] # R
                   /\ step[f] # "CAS" /\ Level(Owner(f), key[f], R)
                \/ /\ step[f] # "ReadSeq" /\ \A i \in Slot : expected[f][i] = R
                   /\ Level(Owner(f), key[f], target_reg[f])
                   /\ RegLeq(acked[key[f]], target_reg[f])
<1>0. StoreInv /\ TypeOK
  BY StoreTypes DEF AbdInv
<1>1. PICK R \in Register : PutShape(f, R) /\ RegLeq(acked[key[f]], R)
  BY DEF AbdInv, WriteInv, PutsShaped
<1>2. \A i \in Slot : Closed(f, i) /\ PutSlot(f, i, R)
  BY <1>0, <1>1, QuietClosed, FutureKinds DEF PutShape
<1>3. \A i \in Slot : bufs[f][i] = R /\ (step[f] = "CAS" => needs_cas[f][i])
  BY <1>2 DEF PutSlot
<1>s. 1 \in Slot
  BY SlotFacts
<1>4. CASE step[f] = "ReadSeq" \/ (step[f] = "OptimisticChain" /\ expected[f][1] # R)
  <2>1. step[f] = "ReadSeq" \/ \A i \in Slot : expected[f][i] # R
    BY <1>2, <1>4 DEF PutSlot
  <2>2. Level(Owner(f), key[f], R)
    BY <1>2, <2>1 DEF PutSlot, Level
  <2> QED
    BY <1>1, <1>3, <1>4, <2>1, <2>2
<1>5. CASE step[f] = "CAS" \/ (step[f] = "OptimisticChain" /\ expected[f][1] = R)
  <2>1. \A i \in Slot : expected[f][i] = R
    BY <1>2, <1>5 DEF PutSlot
  <2>2. Level(Owner(f), key[f], target_reg[f])
    BY <1>2, <1>5, <2>1 DEF PutSlot, Level
  <2>3. PutBelow(step[f], needs_cas[f], expected[f], bufs[f], target_reg[f])
    BY <1>0 DEF StoreInv, TagInv, PutsBelow
  <2>4. R.seq < target_reg[f].seq
    BY <1>3, <1>5, <1>s, <2>1, <2>3 DEF PutBelow
  <2>5. key[f] \in Key /\ target_reg[f] \in Register /\ acked[key[f]] \in Register
    BY <1>0, AbdTypes, FutureKinds DEF AbdInv, WriteInv
  <2>6. RegLeq(acked[key[f]], target_reg[f])
    BY <1>1, <2>4, <2>5, TagOrder
  <2> QED
    BY <1>1, <1>3, <1>5, <2>1, <2>2, <2>6
<1> QED
  BY <1>4, <1>5 DEF Putting

\* The put goes round with a CAS for every slot.
LEMMA PutRound ==
    ASSUME AbdInv, TagInv', HistUpdate, OneWriter, PutsDisjoint, PutsDisjoint',
           NEW f \in OpFut, Putting(f), Quiet(f),
           NEW R \in Register, Level(Owner(f), key[f], R), RegLeq(acked[key[f]], R),
           NEW tgt \in Register, NEW W, Post(f, Slot, W), mem' = mem,
           \A i \in Slot : W[i] = CasWR(f, key[f], R, tgt), OnlyOf(f),
           step'[f] = "CAS", key'[f] = key[f], target_reg'[f] = tgt,
           \A i \in Slot : needs_cas'[f][i] /\ expected'[f][i] = R
    PROVE  AbdInv'
<1>0. StoreInv /\ TypeOK
  BY StoreTypes DEF AbdInv
<1>f. f \in Fut /\ f \notin RangeFut
  BY FutureKinds
<1>1. key[f] \in Key
  BY <1>0, <1>f, AbdTypes
<1>2. CasWR(f, key[f], R, tgt) \in WorkRequest /\ CasWR(f, key[f], R, tgt).fut = f
  BY <1>1, WorkRequestTypes DEF CasWR
<1>3. \A i \in Slot : W[i] \in WorkRequest /\ W[i].fut = f
  BY <1>2
<1>4. \A i \in Slot : Out(f, i) = {} /\ ~Failed(f, i)
  BY <1>0, <1>f, QuietClosed DEF Closed
<1>5. /\ QueuesSingle' /\ \A g \in Fut \ {f} : Still(g)
      /\ \A i \in Slot : Out(f, i)' = {W[i]} /\ ~Failed(f, i)' /\ ~Closed(f, i)'
  BY <1>0, <1>f, <1>3, <1>4, AsksAll
<1>6. \A i \in Slot : W[i] \in Asked(f, i)'
  BY DEF Asked
<1>7. \A i \in Slot : Waits(f, i)'
  BY <1>5, <1>6, AskedWaits
<1>8. FutureSane(f)' /\ Putting(f)'
  <2>1. FutureSane(f)
    BY <1>0, <1>f DEF StoreInv
  <2> QED
    BY <1>f, <2>1 DEF FutureSane, Putting, Owner
<1>9. PutRuns(f) /\ Sees(f)'
  BY <1>0, <1>5, <1>8, PutAsks
<1> QED
  BY <1>f, <1>5, <1>7, <1>8, <1>9, AbdStep

\* The put is acknowledged.
LEMMA PutFinish ==
    ASSUME AbdInv, TagInv', HistUpdate, OneWriter, PutsDisjoint, PutsDisjoint',
           NEW f \in OpFut, step[f] \in {"OptimisticChain", "CAS"}, Quiet(f), OnlyOf(f),
           PostNothing, mem' = mem, step'[f] = "Done", key'[f] = key[f],
           Level(Owner(f), key[f], target_reg[f]), RegLeq(acked[key[f]], target_reg[f])
    PROVE  AbdInv'
<1>0. StoreInv /\ TypeOK
  BY StoreTypes DEF AbdInv
<1>f. f \in Fut
  BY FutureKinds
<1>1. /\ QueuesSingle' /\ (\A g \in Fut \ {f} : Still(g))
      /\ (\A i \in Slot : Waits(f, i)') /\ FutureSane(f)' /\ Sees(f)'
  BY <1>0, <1>f, AsksNothing
<1>2. PutStops(f)
  BY DEF PutStops, PutEnds, Putting
<1> QED
  BY <1>f, <1>1, <1>2, AbdStep

LEMMA StepPutAbd ==
    ASSUME AbdInv, TagInv', SuccessCounted, HistUpdate, OneWriter, PutsDisjoint, PutsDisjoint',
           NEW f \in OpFut, StepPut(f)
    PROVE  AbdInv'
<1>0. StoreInv /\ TypeOK
  BY StoreTypes DEF AbdInv
<1>f. f \in Fut /\ f \notin RangeFut /\ Owner(f) \in Client
  BY FutureKinds, OwnerType
<1>t. /\ step \in [Fut -> Step] /\ key \in [Fut -> Key] /\ value \in [OpFut -> Value]
      /\ target_reg \in [OpFut -> Register] /\ expected \in [OpFut -> [Slot -> Register]]
      /\ needs_cas \in [OpFut -> [Slot -> BOOLEAN]] /\ success_count \in [OpFut -> Nat]
      /\ bufs \in [OpFut -> [Slot -> Register]]
  BY <1>0, AbdTypes
<1>u. /\ UNCHANGED << mem, key, bufs, end_key, bulk_bufs >> /\ Quiet(f) /\ Putting(f)
  BY DEF StepPut, PutStepReadSeq, PutStepOptimistic, PutStepCAS, PutStepOutrun, rangeVars, Putting
<1>b. PICK R \in Register :
        /\ RegLeq(acked[key[f]], R) /\ \A i \in Slot : bufs[f][i] = R
        /\ step[f] = "CAS" => \A i \in Slot : needs_cas[f][i]
        /\ \/ /\ step[f] = "ReadSeq" \/ \A i \in Slot : expected[f][i] # R
              /\ step[f] # "CAS" /\ Level(Owner(f), key[f], R)
           \/ /\ step[f] # "ReadSeq" /\ \A i \in Slot : expected[f][i] = R
              /\ Level(Owner(f), key[f], target_reg[f])
              /\ RegLeq(acked[key[f]], target_reg[f])
  BY <1>u, PutFound
<1>g. SeqsSeen(f) \subseteq Seq16
  BY <1>0, SeqsSeenType DEF TypeOK
<1>q. Quorum \in Nat /\ Quorum >= 1 /\ Cardinality(Slot) = Quorum /\ 1 \in Slot
  BY SlotFacts, QuorumAssumption, ServersAssumption
<1>z. Cardinality({}) = 0
  BY FS_EmptySet
<1>1. CASE PutStepReadSeq(f)
  <2>1. PICK z \in SeqsSeen(f) \cup {0} :
          /\ step[f] = "ReadSeq"
          /\ expected' = [expected EXCEPT ![f] = bufs[f]]
          /\ needs_cas' = [needs_cas EXCEPT ![f] = [i \in Slot |-> TRUE]]
          /\ target_reg' = [target_reg EXCEPT ![f] = MkRegister(NextSeq(z), Owner(f), value[f])]
          /\ PostCas(f, Slot, bufs[f], MkRegister(NextSeq(z), Owner(f), value[f]))
          /\ step' = [step EXCEPT ![f] = "CAS"]
    BY <1>1 DEF PutStepReadSeq
  <2>2. PICK tgt \in Register : tgt = MkRegister(NextSeq(z), Owner(f), value[f])
    <3>1. z \in Seq16
      BY <1>g, SeqModAssumption DEF Seq16
    <3> QED
      BY <1>f, <1>t, <3>1, NextSeqType, MkRegisterType
  <2>3. PICK W : W = [i \in Slot |-> CasWR(f, key[f], bufs[f][i], tgt)]
    OBVIOUS
  <2>4. Post(f, Slot, W)
    BY <2>1, <2>2, <2>3 DEF PostCas
  <2>5. \A i \in Slot : W[i] = CasWR(f, key[f], R, tgt)
    BY <1>b, <2>3
  <2>6. /\ step'[f] = "CAS" /\ key'[f] = key[f] /\ target_reg'[f] = tgt
        /\ \A i \in Slot : needs_cas'[f][i] /\ expected'[f][i] = R
    BY <1>b, <1>f, <1>t, <1>u, <2>1, <2>2
  <2>7. OnlyOf(f)
    BY <1>t, <1>u, <2>1, FutureKinds DEF OnlyOf
  <2> QED
    BY <1>b, <1>u, <2>1, <2>4, <2>5, <2>6, <2>7, PutRound
<1>2. CASE PutStepOptimistic(f)
  <2> DEFINE won == {i \in Slot : Swapped(f, i)}
             z0 == (target_reg[f].seq - 1) % SeqMod
  <2>1. PICK z \in SeqsSeen(f) \cup {z0} :
          /\ step[f] = "OptimisticChain"
          /\ success_count' = [success_count EXCEPT ![f] = @ + Cardinality(won)]
          /\ needs_cas' = [needs_cas EXCEPT ![f] = [i \in Slot |-> i \notin won]]
          /\ expected' = [expected EXCEPT ![f] =
               [i \in Slot |-> IF i \in won THEN target_reg[f] ELSE bufs[f][i]]]
          /\ IF success_count'[f] >= Quorum
             THEN PutDone(f)
             ELSE PutAgain(f, MkRegister(NextSeq(z), Owner(f), value[f]))
    BY <1>2 DEF PutStepOptimistic
  <2>2. success_count[f] = 0
    BY <2>1 DEF SuccessCounted
  <2>s. success_count'[f] = Cardinality(won)
    <3>1. won \in SUBSET Slot
      OBVIOUS
    <3>2. Cardinality(won) \in Nat
      BY <3>1, SlotFacts
    <3> HIDE DEF won
    <3>3. success_count'[f] = success_count[f] + Cardinality(won)
      BY <1>t, <2>1
    <3> QED
      BY <2>2, <3>2, <3>3
  <2>3. CASE \A i \in Slot : expected[f][i] = R
    <3>1. won = Slot
      BY <1>b, <2>3 DEF Swapped
    <3> HIDE DEF won
    <3>2. PutDone(f)
      BY <1>q, <2>1, <2>s, <3>1
    <3>3. /\ step' = [step EXCEPT ![f] = "Done"] /\ PostNothing /\ UNCHANGED target_reg
      BY <3>2 DEF PutDone
    <3>4. step'[f] = "Done" /\ key'[f] = key[f]
      BY <1>f, <1>t, <1>u, <3>3
    <3>5. OnlyOf(f)
      BY <1>t, <1>u, <2>1, <3>3, FutureKinds DEF OnlyOf
    <3>6. Level(Owner(f), key[f], target_reg[f]) /\ RegLeq(acked[key[f]], target_reg[f])
      BY <1>b, <1>q, <2>1, <2>3
    <3> QED
      BY <1>u, <2>1, <3>3, <3>4, <3>5, <3>6, PutFinish
  <2>4. CASE \A i \in Slot : expected[f][i] # R
    <3>1. won = {}
      BY <1>b, <2>4 DEF Swapped
    <3> HIDE DEF won
    <3>2. PICK tgt \in Register : tgt = MkRegister(NextSeq(z), Owner(f), value[f])
      <4>1. target_reg[f].seq \in Seq16
        BY <1>t DEF Register
      <4>2. z \in Seq16
        BY <1>g, <4>1, PrevSeqType
      <4> QED
        BY <1>f, <1>t, <4>2, NextSeqType, MkRegisterType
    <3>3. PutAgain(f, tgt)
      BY <1>q, <1>z, <2>1, <2>s, <3>1, <3>2
    <3>4. \A i \in Slot : needs_cas'[f][i] /\ expected'[f][i] = R
      BY <1>b, <1>t, <2>1, <3>1
    <3>5. {i \in Slot : needs_cas'[f][i]} = Slot
      BY <3>4
    <3>6. PICK W : W = [i \in Slot |-> CasWR(f, key[f], expected'[f][i], tgt)]
      OBVIOUS
    <3>7. /\ Post(f, Slot, W) /\ step' = [step EXCEPT ![f] = "CAS"]
          /\ target_reg' = [target_reg EXCEPT ![f] = tgt]
      BY <3>3, <3>5, <3>6 DEF PutAgain, PostCas
    <3>8. \A i \in Slot : W[i] = CasWR(f, key[f], R, tgt)
      BY <3>4, <3>6
    <3>9. step'[f] = "CAS" /\ key'[f] = key[f] /\ target_reg'[f] = tgt
      BY <1>f, <1>t, <1>u, <3>7
    <3>10. OnlyOf(f)
      BY <1>t, <1>u, <2>1, <3>7, FutureKinds DEF OnlyOf
    <3>11. Level(Owner(f), key[f], R)
      BY <1>b, <1>q, <2>4
    <3> QED
      BY <1>b, <1>u, <3>4, <3>7, <3>8, <3>9, <3>10, <3>11, PutRound
  <2> QED
    BY <1>b, <2>1, <2>3, <2>4
<1>3. CASE PutStepCAS(f)
  <2> DEFINE won == {i \in Slot : needs_cas[f][i] /\ Swapped(f, i)}
  <2>1. /\ step[f] = "CAS"
        /\ success_count' = [success_count EXCEPT ![f] = @ + Cardinality(won)]
        /\ needs_cas' = [needs_cas EXCEPT ![f] = [i \in Slot |-> @[i] /\ i \notin won]]
        /\ expected' = [expected EXCEPT ![f] =
              [i \in Slot |-> IF needs_cas[f][i] THEN bufs[f][i] ELSE @[i]]]
        /\ IF success_count'[f] >= Quorum THEN PutDone(f) ELSE PutAgain(f, target_reg[f])
    BY <1>3 DEF PutStepCAS
  <2>2. /\ \A i \in Slot : expected[f][i] = R
        /\ Level(Owner(f), key[f], target_reg[f]) /\ RegLeq(acked[key[f]], target_reg[f])
    BY <1>b, <2>1
  <2>3. won = Slot
    BY <1>b, <2>1, <2>2 DEF Swapped
  <2> HIDE DEF won
  <2>4. success_count'[f] >= Quorum
    <3>1. success_count'[f] = success_count[f] + Quorum /\ success_count[f] \in Nat
      BY <1>q, <1>t, <2>1, <2>3
    <3> QED
      BY <1>q, <3>1
  <2>5. /\ step' = [step EXCEPT ![f] = "Done"] /\ PostNothing /\ UNCHANGED target_reg
    BY <2>1, <2>4 DEF PutDone
  <2>6. step'[f] = "Done" /\ key'[f] = key[f]
    BY <1>f, <1>t, <1>u, <2>5
  <2>7. OnlyOf(f)
    BY <1>t, <1>u, <2>1, <2>5, FutureKinds DEF OnlyOf
  <2> QED
    BY <1>u, <2>1, <2>2, <2>5, <2>6, <2>7, PutFinish
<1>4. CASE PutStepOutrun(f)
  <2>1. PICK r \in Slot : step[f] = "CAS" /\ Outrun(f, r)
    BY <1>4 DEF PutStepOutrun
  <2>2. Swapped(f, r)
    BY <1>b, <2>1 DEF Swapped
  <2> QED
    BY <2>1, <2>2 DEF Outrun
<1> QED
  BY <1>1, <1>2, <1>3, <1>4 DEF StepPut

LEMMA StepGetAbd ==
    ASSUME AbdInv, TagInv', HistUpdate, OneWriter, PutsDisjoint, PutsDisjoint',
           RegWriteback = FALSE, NEW f \in OpFut, StepGet(f)
    PROVE  AbdInv'
<1>0. StoreInv /\ TypeOK
  BY StoreTypes DEF AbdInv
<1>f. f \in Fut
  BY FutureKinds
<1>t. step \in [Fut -> Step]
  BY <1>0, AbdTypes
<1>1. step[f] # "WritingBack"
  BY <1>0, <1>f DEF StoreInv, FutureSane
<1>2. GetStepReading(f)
  BY <1>1 DEF StepGet, GetStepWritingBack
<1>3. /\ Quiet(f) /\ step[f] = "Reading" /\ PostNothing
      /\ step' = [step EXCEPT ![f] = "Done"]
      /\ UNCHANGED << mem, key, bufs, expected, target_reg, needs_cas, end_key, bulk_bufs >>
  BY <1>2 DEF GetStepReading, StepGet, putVars, rangeVars
<1>4. step'[f] = "Done" /\ OnlyOf(f)
  BY <1>f, <1>t, <1>3 DEF OnlyOf
<1>5. /\ QueuesSingle' /\ (\A g \in Fut \ {f} : Still(g)) /\ ~Putting(f)'
      /\ (\A i \in Slot : Waits(f, i)') /\ FutureSane(f)' /\ Sees(f)'
  BY <1>0, <1>f, <1>3, <1>4, AsksNothing
<1>6. NoPut(f)
  BY <1>3, <1>5 DEF NoPut, Putting
<1> QED
  BY <1>f, <1>5, <1>6, AbdStep

LEMMA StepRangeAbd ==
    ASSUME AbdInv, TagInv', HistUpdate, OneWriter, PutsDisjoint, PutsDisjoint',
           NEW f \in RangeFut, StepRange(f)
    PROVE  AbdInv'
<1>0. StoreInv /\ TypeOK
  BY StoreTypes DEF AbdInv
<1>f. f \in Fut
  BY FutureKinds
<1>t. step \in [Fut -> Step]
  BY <1>0, AbdTypes
<1>3. /\ Quiet(f) /\ step[f] = "Reading" /\ PostNothing
      /\ step' = [step EXCEPT ![f] = "Done"]
      /\ UNCHANGED << mem, key, bufs, expected, target_reg, needs_cas, end_key, bulk_bufs >>
  BY DEF RangeStepReading, RangeFinish, StepRange, putVars
<1>4. step'[f] = "Done" /\ OnlyOf(f)
  BY <1>f, <1>t, <1>3 DEF OnlyOf
<1>5. /\ QueuesSingle' /\ (\A g \in Fut \ {f} : Still(g)) /\ ~Putting(f)'
      /\ (\A i \in Slot : Waits(f, i)') /\ FutureSane(f)' /\ Sees(f)'
  BY <1>0, <1>f, <1>3, <1>4, AsksNothing
<1>6. NoPut(f)
  BY <1>3, <1>5 DEF NoPut, Putting
<1> QED
  BY <1>f, <1>5, <1>6, AbdStep

LEMMA NextAbdInv ==
    ASSUME OneWriter, RegWriteback = FALSE, AbdInv, SuccessCounted, NoWrap,
           PutsDisjoint, PutsDisjoint', HistNext
    PROVE  AbdInv'
<1>u. Next /\ HistUpdate
  BY DEF HistNext
<1>t. TagInv'
  BY <1>u, NextTagInv DEF AbdInv, StoreInv
<1>1. ASSUME NEW c \in Client, NEW i \in Slot, Nic(c, i) PROVE AbdInv'
  BY <1>1, <1>t, <1>u, NicReadAbd, NicCasAbd, NicBulkAbd, NicErrorAbd DEF Nic
<1>2. ASSUME NEW s \in Server, ServerCrash(s) PROVE AbdInv'
  BY <1>2, <1>t, <1>u, IdleAbd DEF ServerCrash
<1>3. ASSUME NEW c \in Client, TickRdma(c) PROVE AbdInv'
  BY <1>3, <1>t, <1>u, TickAbd
<1>4. ASSUME NEW c \in Client, TickRdmaThrows(c) PROVE AbdInv'
  BY <1>4, <1>t, <1>u, IdleAbd DEF TickRdmaThrows
<1>5. ASSUME NEW f \in Fut, ClientStep(f) PROVE AbdInv'
  <2>1. CASE StepBlocked(f)
    BY <2>1, <1>t, <1>u, IdleAbd DEF StepBlocked, PostNothing
  <2>2. CASE ~StepBlocked(f)
    BY <1>5, <1>t, <1>u, <2>2, StepPutAbd, StepGetAbd, StepRangeAbd DEF ClientStep
  <2> QED
    BY <2>1, <2>2
<1>6. ASSUME NEW f \in Fut, Start(f) PROVE AbdInv'
  BY <1>6, <1>t, <1>u, StartPutAbd, StartGetAbd, StartRangeAbd DEF Start
<1> QED
  BY <1>u, <1>1, <1>2, <1>3, <1>4, <1>5, <1>6 DEF Next

LEMMA InitAbdInv == HistInit => AbdInv
<1> SUFFICES ASSUME HistInit PROVE AbdInv
  OBVIOUS
<1>0. TagInv
  BY InitTagInv DEF HistInit
<1>t. TypeOK
  BY <1>0 DEF TagInv, AccountingInv
<1>i. /\ \A c \in Client, i \in Slot : sq[c][i] = << >> /\ cq[c][i] = << >>
      /\ \A f \in Fut : step[f] = "Done"
      /\ \A s \in Server, k \in Key : mem[s][k] = ZeroRegister
      /\ acked = Blank /\ floor = [f \in Fut |-> NoFloor]
  BY DEF HistInit, Init, StateInit
<1>z. ZeroRegister \in Register /\ RegLeq(ZeroRegister, ZeroRegister)
  BY ZeroRegisterType, TagOrder
<1>b. Blank \in [Key -> Register] /\ \A k \in Key : Blank[k] = ZeroRegister
  BY <1>z DEF Blank
<1>1. QueuesSingle
  BY <1>i DEF QueuesSingle, Single
<1>2. \A f \in Fut : /\ FutureSane(f) /\ ~Putting(f) /\ Sees(f)
  BY <1>i, FutureKinds DEF FutureSane, Putting, Sees, GetSees, ScanSees
<1>3. ASSUME NEW f \in Fut, NEW i \in Slot PROVE Waits(f, i)
  <2>1. sq[Owner(f)][i] = << >> /\ cq[Owner(f)][i] = << >>
    BY <1>i, OwnerType
  <2>2. Out(f, i) = {} /\ ~Failed(f, i)
    BY <2>1 DEF Out, Within, Failed
  <2> QED
    BY <2>2 DEF Waits
<1>4. StoreInv
  BY <1>0, <1>1, <1>2, <1>3 DEF StoreInv, QueuesMatch
<1>5. \A c \in Client, k \in Key : Level(c, k, ZeroRegister)
  BY <1>i, ReplicaType DEF Level, Copy
<1>6. WriteInv
  BY <1>2, <1>5, <1>b, <1>i, <1>z, FutureKinds DEF WriteInv, PutsShaped, IdleShaped, Unwritten
<1>7. FloorOK
  BY <1>b, <1>i, <1>z DEF FloorOK, NoFloor
<1> QED
  BY <1>2, <1>4, <1>6, <1>7 DEF AbdInv, ReadInv

LEMMA StutterStore ==
    ASSUME StoreInv, NoWrap, UNCHANGED vars
    PROVE  /\ StoreInv'
           /\ \A f, i : Out(f, i)' = Out(f, i) /\ (Failed(f, i)' <=> Failed(f, i))
<1>u. UNCHANGED << sq, cq, step, key, expected, target_reg, end_key >>
  BY DEF vars, stateVars, putVars, rangeVars
<1>t. TagInv'
  BY NextTagInv DEF StoreInv
<1>1. \A f, i : /\ Out(f, i)' = Out(f, i) /\ (Failed(f, i)' <=> Failed(f, i))
                /\ Asked(f, i)' = Asked(f, i)
  BY <1>u DEF Out, Failed, Asked, Owner, Within, KeysOf
<1>2. QueuesSingle'
  BY <1>u DEF StoreInv, QueuesSingle
<1>3. QueuesMatch'
  BY <1>u, <1>1 DEF StoreInv, QueuesMatch, Waits
<1>4. \A f \in Fut : FutureSane(f)'
  BY <1>u DEF StoreInv, FutureSane, Putting, Owner
<1> QED
  BY <1>t, <1>1, <1>2, <1>3, <1>4 DEF StoreInv

LEMMA StutterAbdInv ==
    ASSUME AbdInv, NoWrap, UNCHANGED allVars
    PROVE  AbdInv'
<1>u. /\ UNCHANGED << mem, sq, cq, cache, step, key, bufs, value, expected, needs_cas >>
      /\ UNCHANGED << target_reg, end_key, bulk_bufs, acked, floor, vars >>
  BY DEF allVars, vars, histVars, stateVars, putVars, rangeVars
<1>1. \A f, i : /\ Out(f, i)' = Out(f, i) /\ (Failed(f, i)' <=> Failed(f, i))
                /\ (Closed(f, i)' <=> Closed(f, i))
  BY <1>u, StutterStore DEF AbdInv, Closed
<1>2. \A f : Putting(f)' <=> Putting(f)
  BY <1>u DEF Putting
<1>3. StoreInv'
  BY <1>u, StutterStore DEF AbdInv
<1>4. WriteInv'
  <2>0. \A c, i, k : Copy(c, i, k)' = Copy(c, i, k)
    BY <1>u DEF Copy
  <2>1. \A f, R : PutShape(f, R)' <=> PutShape(f, R)
    BY <1>u, <1>1, <2>0 DEF PutShape, PutSlot, Owner
  <2>2. PutsShaped'
    BY <1>u, <1>2, <2>1 DEF AbdInv, WriteInv, PutsShaped
  <2>3. \A c, k : Busy(c, k)' <=> Busy(c, k)
    BY <1>u, <1>2 DEF Busy, Owner
  <2>4. IdleShaped'
    BY <1>u, <2>0, <2>3 DEF AbdInv, WriteInv, IdleShaped, Level
  <2>5. Unwritten' /\ acked' \in [Key -> Register]
    BY <1>u DEF AbdInv, WriteInv, Unwritten
  <2> QED
    BY <2>2, <2>4, <2>5 DEF WriteInv
<1>5. ReadInv'
  <2>1. FloorOK'
    BY <1>u DEF AbdInv, ReadInv, FloorOK
  <2>2. \A f : GetSees(f)' <=> GetSees(f)
    BY <1>u, <1>1 DEF GetSees, Owner
  <2>3. \A f : ScanSees(f)' <=> ScanSees(f)
    BY <1>u, <1>1 DEF ScanSees, Passed, KeysOf, Owner
  <2> QED
    BY <2>1, <2>2, <2>3 DEF AbdInv, ReadInv, Sees
<1> QED
  BY <1>3, <1>4, <1>5 DEF AbdInv

LEMMA AlwaysAbdInv ==
    ASSUME OneWriter, RegWriteback = FALSE
    PROVE  HistSpec /\ []NoWrap /\ []PutsDisjoint => [](AbdInv /\ WakeInv)
<1>1. HistInit => AbdInv /\ WakeInv
  <2> SUFFICES ASSUME HistInit PROVE SuccessCounted /\ NoLostWakeup
    BY InitAbdInv, InitTypeOK, InitAccounting DEF HistInit, WakeInv, AccountingInv
  <2>1. \A f \in Fut : step[f] = "Done"
    BY DEF HistInit, Init, StateInit
  <2> QED
    BY <2>1 DEF SuccessCounted, NoLostWakeup, Fut
<1>2. AbdInv /\ WakeInv /\ NoWrap /\ PutsDisjoint /\ PutsDisjoint' /\ [HistNext]_allVars
        => AbdInv' /\ WakeInv'
  <2> SUFFICES ASSUME AbdInv, WakeInv, NoWrap, PutsDisjoint, PutsDisjoint', [HistNext]_allVars
               PROVE  AbdInv' /\ WakeInv'
    OBVIOUS
  <2>1. [Next]_vars
    BY DEF HistNext, allVars
  <2>2. WakeInv'
    BY <2>1, NextWakeInv
  <2>3. CASE HistNext
    BY <2>2, <2>3, NextAbdInv DEF WakeInv
  <2>4. CASE UNCHANGED allVars
    BY <2>2, <2>4, StutterAbdInv
  <2> QED
    BY <2>3, <2>4
<1> QED
  BY <1>1, <1>2, PTL DEF HistSpec

-----------------------------------------------------------------------------
(***************************************************************************)
(* The results.                                                             *)
(***************************************************************************)

\* The servers that hold at least what was acknowledged are a quorum.
LEMMA QuorumHolds ==
    ASSUME AbdInv, NEW k \in Key
    PROVE  LET H == {s \in Server : RegLeq(acked[k], mem[s][k])}
           IN  IsFiniteSet(H) /\ Cardinality(H) \in Nat /\ Cardinality(H) >= Quorum
<1> DEFINE H == {s \in Server : RegLeq(acked[k], mem[s][k])}
<1>t. TypeOK
  BY StoreTypes DEF AbdInv
<1>1. IsFiniteSet(H) /\ Cardinality(H) \in Nat
  <2>1. H \subseteq Server
    OBVIOUS
  <2> HIDE DEF H
  <2> QED
    BY <2>1, ServersCount, FS_Subset, FS_CardinalityType
<1>2. CASE \E c \in Client : Writes(c, k)
  <2>1. PICK c \in Client : Writes(c, k)
    BY <1>2
  <2>2. \A i \in Slot : RegLeq(acked[k], mem[quorum_indices(c, i)][k])
    BY <2>1, WriterHolds DEF Copy
  <2>3. Replicas(c) \subseteq H
    BY <2>2, ReplicaType DEF Replicas
  <2> HIDE DEF H
  <2>4. IsFiniteSet(Replicas(c)) /\ Cardinality(Replicas(c)) = Quorum
    BY ReplicasCount
  <2>5. Cardinality(Replicas(c)) <= Cardinality(H)
    BY <1>1, <2>3, FS_Subset
  <2>6. Cardinality(H) >= Quorum
    BY <1>1, <2>4, <2>5, QuorumAssumption, ServersAssumption
  <2> QED
    BY <1>1, <2>6 DEF H
<1>3. CASE \A c \in Client : ~Writes(c, k)
  <2>1. acked[k] = ZeroRegister
    BY <1>3 DEF AbdInv, WriteInv, Unwritten
  <2>2. \A s \in Server : mem[s][k] \in Register
    BY <1>t, AbdTypes
  <2>3. H = Server
    BY <2>1, <2>2, TagOrder
  <2> HIDE DEF H
  <2>4. Cardinality(H) >= Quorum
    BY <2>3, ServersCount, QuorumAssumption, ServersAssumption
  <2> QED
    BY <1>1, <2>4 DEF H
<1> QED
  BY <1>2, <1>3

\* Post-commit durability: when every register has one writer, whose puts of it
\* do not overlap, an acknowledged put is held by a whole quorum for good,
\* whatever the clients' gets and scans, the crashes and the interleaving.
THEOREM AckedAtQuorum ==
    ASSUME OneWriter, RegWriteback = FALSE
    PROVE  HistSpec /\ []NoWrap /\ []PutsDisjoint => []CommittedAtQuorum
<1>1. AbdInv => CommittedAtQuorum
  BY QuorumHolds DEF CommittedAtQuorum
<1> QED
  BY <1>1, AlwaysAbdInv, PTL

\* At most MaxCrash servers fail-stop.
CrashBound == up \subseteq Server /\ Cardinality(Server \ up) <= MaxCrash

LEMMA AlwaysCrashBound == Spec => []CrashBound
<1>1. Init => CrashBound
  <2> SUFFICES ASSUME Init PROVE CrashBound
    OBVIOUS
  <2>1. up = Server
    BY DEF Init, StateInit
  <2>2. Server \ up = {}
    BY <2>1
  <2>3. Cardinality(Server \ up) = 0
    BY <2>2, FS_EmptySet
  <2> QED
    BY <2>1, <2>3, CrashAssumption DEF CrashBound
<1>2. CrashBound /\ [Next]_vars => CrashBound'
  <2> SUFFICES ASSUME CrashBound, [Next]_vars PROVE CrashBound'
    OBVIOUS
  <2>1. ASSUME NEW s \in Server, ServerCrash(s) PROVE CrashBound'
    <3> DEFINE D == Server \ up
    <3>1. s \in up /\ Cardinality(D) < MaxCrash /\ up' = up \ {s}
      BY <2>1 DEF ServerCrash
    <3>2. s \notin D /\ Server \ up' = D \cup {s}
      BY <3>1
    <3>3. IsFiniteSet(D) /\ Cardinality(D) \in Nat
      <4>1. D \subseteq Server
        OBVIOUS
      <4> HIDE DEF D
      <4> QED
        BY <4>1, ServersCount, FS_Subset, FS_CardinalityType
    <3> HIDE DEF D
    <3>4. Cardinality(D \cup {s}) = Cardinality(D) + 1
      BY <3>2, <3>3, FS_AddElement
    <3>5. Cardinality(Server \ up') <= MaxCrash
      BY <3>1, <3>2, <3>3, <3>4, CrashAssumption
    <3> QED
      BY <3>1, <3>5 DEF CrashBound
  <2>2. CASE UNCHANGED up
    BY <2>2 DEF CrashBound
  <2>3. ASSUME NEW c \in Client, NEW i \in Slot, Nic(c, i) PROVE UNCHANGED up
    BY <2>3 DEF Nic, NicRead, NicCas, NicBulkWord, NicError
  <2>4. ASSUME NEW c \in Client, TickRdma(c) \/ TickRdmaThrows(c) PROVE UNCHANGED up
    BY <2>4 DEF TickRdma, TickRdmaThrows
  <2>5. ASSUME NEW f \in Fut, ClientStep(f) PROVE UNCHANGED up
    <3>1. CASE StepBlocked(f)
      BY <3>1 DEF StepBlocked
    <3>2. CASE StepPut(f)
      BY <3>2 DEF StepPut, PutStepReadSeq, PutStepOptimistic, PutStepCAS, PutStepOutrun
    <3>3. CASE StepGet(f)
      BY <3>3 DEF StepGet, GetStepReading, GetStepWritingBack
    <3>4. CASE StepRange(f)
      <4>1. PICK acc : RangeFinish(f, acc)
        BY <3>4 DEF StepRange, RangeStepReading
      <4> QED
        BY <4>1 DEF RangeFinish
    <3> QED
      BY <2>5, <3>1, <3>2, <3>3, <3>4 DEF ClientStep
  <2>6. ASSUME NEW f \in Fut, Start(f) PROVE UNCHANGED up
    BY <2>6 DEF Start, StartPut, DoPutHit, DoPutMiss, StartGet, DoGet, StartRange, DoRange
  <2>7. ASSUME UNCHANGED vars PROVE UNCHANGED up
    BY <2>7 DEF vars, stateVars
  <2> QED
    BY <2>1, <2>2, <2>3, <2>4, <2>5, <2>6, <2>7 DEF Next
<1> QED
  BY <1>1, <1>2, PTL DEF Spec

\* The history variables only watch the store.
LEMMA HistIsSpec == HistSpec => Spec
<1>1. HistInit => Init
  BY DEF HistInit
<1>2. [HistNext]_allVars => [Next]_vars
  BY DEF HistNext, allVars
<1> QED
  BY <1>1, <1>2, PTL DEF HistSpec, Spec

\* Durability despite fail-stops: while fewer servers crash than a quorum has,
\* some server that is up holds every acknowledged put.
THEOREM AckedSurvives ==
    ASSUME OneWriter, RegWriteback = FALSE, MaxCrash < Quorum
    PROVE  HistSpec /\ []NoWrap /\ []PutsDisjoint => []CommittedSurvives
<1>1. AbdInv /\ CrashBound => CommittedSurvives
  <2> SUFFICES ASSUME AbdInv, CrashBound, NEW k \in Key
               PROVE  \E s \in up : RegLeq(acked[k], mem[s][k])
    BY DEF CommittedSurvives
  <2> DEFINE H == {s \in Server : RegLeq(acked[k], mem[s][k])}
             D == Server \ up
  <2>1. IsFiniteSet(H) /\ Cardinality(H) \in Nat /\ Cardinality(H) >= Quorum
    BY QuorumHolds
  <2>2. IsFiniteSet(D) /\ Cardinality(D) \in Nat /\ Cardinality(D) <= MaxCrash
    <3>1. D \subseteq Server /\ Cardinality(D) <= MaxCrash
      BY DEF CrashBound
    <3> HIDE DEF D
    <3> QED
      BY <3>1, ServersCount, FS_Subset, FS_CardinalityType
  <2>3. ~(H \subseteq D)
    <3> HIDE DEF H, D
    <3> SUFFICES ASSUME H \subseteq D PROVE FALSE
      OBVIOUS
    <3>1. Cardinality(H) <= Cardinality(D)
      BY <2>2, FS_Subset
    <3> QED
      BY <2>1, <2>2, <3>1, CrashAssumption, QuorumAssumption, ServersAssumption
  <2> QED
    BY <2>3
<1> QED
  BY <1>1, HistIsSpec, AlwaysAbdInv, AlwaysCrashBound, PTL

\* A get or a scan ends with its own step.
LEMMA MovedBy ==
    ASSUME TypeOK, Next, NEW f \in Fut, step'[f] # step[f]
    PROVE  (ClientStep(f) /\ ~StepBlocked(f)) \/ Start(f)
<1>t. step \in [Fut -> Step]
  BY AbdTypes
<1>1. ASSUME UNCHANGED step PROVE FALSE
  BY <1>1
<1>2. PICK g \in Fut : ClientStep(g) \/ Start(g)
  <2>1. ASSUME NEW c \in Client, NEW i \in Slot, Nic(c, i) PROVE FALSE
    BY <1>1, <2>1 DEF Nic, NicRead, NicCas, NicBulkWord, NicError
  <2>2. ASSUME NEW s \in Server, ServerCrash(s) PROVE FALSE
    BY <1>1, <2>2 DEF ServerCrash
  <2>3. ASSUME NEW c \in Client, TickRdma(c) \/ TickRdmaThrows(c) PROVE FALSE
    BY <1>1, <2>3 DEF TickRdma, TickRdmaThrows
  <2> QED
    BY <2>1, <2>2, <2>3 DEF Next
<1>3. \E z : step' = [step EXCEPT ![g] = z]
  <2>1. CASE ClientStep(g)
    <3>1. CASE StepBlocked(g)
      BY <1>1, <3>1 DEF StepBlocked
    <3>2. CASE g \in OpFut /\ StepPut(g)
      BY <3>2 DEF StepPut, PutStepReadSeq, PutStepOptimistic, PutStepCAS, PutStepOutrun,
                  PutDone, PutAgain
    <3>3. CASE g \in OpFut /\ StepGet(g)
      BY <3>3 DEF StepGet, GetStepReading, GetStepWritingBack
    <3>4. CASE g \in RangeFut /\ StepRange(g)
      <4>1. PICK acc : RangeFinish(g, acc)
        BY <3>4 DEF StepRange, RangeStepReading
      <4> QED
        BY <4>1 DEF RangeFinish
    <3> QED
      BY <2>1, <3>1, <3>2, <3>3, <3>4 DEF ClientStep
  <2>2. CASE Start(g)
    BY <2>2 DEF Start, StartPut, DoPutHit, DoPutMiss, StartGet, DoGet, StartRange, DoRange
  <2> QED
    BY <1>2, <2>1, <2>2
<1>4. g = f
  BY <1>3, <1>t
<1>5. ~StepBlocked(f)
  BY <1>1 DEF StepBlocked
<1> QED
  BY <1>2, <1>4, <1>5

LEMMA MovesByStep ==
    ASSUME TypeOK, Next, NEW f \in Fut, step[f] # "Done", step'[f] # step[f]
    PROVE  (f \in OpFut /\ (StepPut(f) \/ StepGet(f))) \/ (f \in RangeFut /\ StepRange(f))
<1>1. ~Start(f)
  BY DEF Start, StartPut, StartGet, StartRange, Issue, FreeFuture
<1> QED
  BY <1>1, MovedBy DEF ClientStep

LEMMA EndsByStep ==
    ASSUME TypeOK, Next, NEW f \in Fut, ReadEnds(f)
    PROVE  (f \in OpFut /\ StepGet(f)) \/ (f \in RangeFut /\ StepRange(f))
<1>1. step[f] \in {"Reading", "WritingBack"} /\ step'[f] = "Done"
  BY DEF ReadEnds
<1>2. ~StepPut(f)
  BY <1>1 DEF StepPut, PutStepReadSeq, PutStepOptimistic, PutStepCAS, PutStepOutrun
<1> QED
  BY <1>1, <1>2, MovesByStep

\* One of the slots of f's client is in the quorum of k's writer, if k has one.
LEMMA SlotOnWriter ==
    ASSUME AbdInv, 2 * Quorum > NumServers, NEW f \in Fut, NEW k \in Key,
           NEW m \in Register,
           \A i \in Slot : OnWriter(quorum_indices(Owner(f), i), k) => RegLeq(floor[f].ack[k], m)
    PROVE  RegLeq(floor[f].ack[k], m)
<1>1. CASE \E c \in Client : Writes(c, k)
  <2>1. PICK c \in Client : Writes(c, k)
    BY <1>1
  <2>2. PICK i \in Slot, j \in Slot : quorum_indices(Owner(f), i) = quorum_indices(c, j)
    BY OwnerType, QuorumsMeet
  <2>3. OnWriter(quorum_indices(Owner(f), i), k)
    BY <2>1, <2>2 DEF OnWriter
  <2> QED
    BY <2>3
<1>2. CASE \A c \in Client : ~Writes(c, k)
  <2>1. acked[k] = ZeroRegister
    BY <1>2 DEF AbdInv, WriteInv, Unwritten
  <2>2. floor[f].ack[k] \in Register /\ RegLeq(floor[f].ack[k], acked[k])
    BY DEF AbdInv, ReadInv, FloorOK
  <2> QED
    BY <2>1, <2>2, ZeroRegisterType, TagOrder
<1> QED
  BY <1>1, <1>2

LEMMA GetReturns ==
    ASSUME AbdInv, RegWriteback = FALSE, 2 * Quorum > NumServers,
           NEW f \in OpFut, StepGet(f), NEW k \in KeysRead(f)
    PROVE  RegLeq(floor[f].ack[k], Answer(f, k))
<1>0. StoreInv /\ TypeOK
  BY StoreTypes DEF AbdInv
<1>f. f \in Fut /\ f \notin RangeFut /\ k = key[f]
  BY FutureKinds DEF KeysRead
<1>t. /\ bufs \in [OpFut -> [Slot -> Register]] /\ max_reg \in [OpFut -> Register]
      /\ key[f] \in Key
  BY <1>0, <1>f, AbdTypes
<1>1. GetStepReading(f)
  BY <1>0, <1>f DEF StoreInv, FutureSane, StepGet, GetStepWritingBack
<1>2. PICK m \in {bufs[f][i] : i \in Slot} \cup {ZeroRegister} :
         /\ Quiet(f) /\ step[f] = "Reading" /\ IsRunningMax(f, m)
         /\ max_reg' = [max_reg EXCEPT ![f] = m]
  BY <1>1 DEF GetStepReading
<1>3. m \in Register /\ Answer(f, k) = m
  BY <1>2, <1>t, ZeroRegisterType DEF Answer
<1>4. \A i \in Slot : RegLeq(bufs[f][i], m)
  BY <1>2 DEF IsRunningMax, RegLeq
<1>5. ASSUME NEW i \in Slot, OnWriter(quorum_indices(Owner(f), i), k)
      PROVE  RegLeq(floor[f].ack[k], m)
  <2>1. Closed(f, i)
    BY <1>0, <1>2, <1>f, QuietClosed
  <2>2. GetSees(f)
    BY <1>f DEF AbdInv, ReadInv, Sees
  <2>3. RegLeq(floor[f].ack[k], bufs[f][i])
    BY <1>2, <1>5, <1>f, <2>1, <2>2 DEF GetSees
  <2>4. floor[f].ack[k] \in Register /\ bufs[f][i] \in Register
    BY <1>f, <1>t DEF AbdInv, ReadInv, FloorOK
  <2> QED
    BY <1>3, <1>4, <2>3, <2>4, TagOrder
<1> QED
  BY <1>3, <1>5, <1>f, <1>t, SlotOnWriter

LEMMA ScanReturns ==
    ASSUME AbdInv, 2 * Quorum > NumServers,
           NEW f \in RangeFut, StepRange(f), NEW k \in KeysRead(f)
    PROVE  RegLeq(floor[f].ack[k], Answer(f, k))
<1>0. StoreInv /\ TypeOK
  BY StoreTypes DEF AbdInv
<1>f. f \in Fut /\ f \notin OpFut /\ k \in KeysOf(f)
  BY FutureKinds DEF KeysRead
<1>t. /\ bulk_bufs \in [RangeFut -> [Slot -> [Key -> Register]]]
      /\ results \in [RangeFut -> [Key -> Register]]
      /\ key[f] \in Key /\ end_key[f] \in Key
  BY <1>0, <1>f, AbdTypes
<1>k. k \in Key
  <2>1. /\ key[f] >= 0 /\ end_key[f] <= NumRegisters - 1 /\ NumRegisters \in Int
        /\ key[f] \in Int /\ end_key[f] \in Int
    BY <1>t, RegistersAssumption DEF Key
  <2> QED
    BY <1>f, <2>1 DEF KeysOf, Key
<1>1. PICK acc : RangeFinish(f, acc)
  BY DEF StepRange, RangeStepReading
<1>2. /\ Quiet(f) /\ step[f] = "Reading" /\ IsMerged(f, k, acc[k])
      /\ results' = [results EXCEPT ![f] =
            [j \in Key |-> IF j \in KeysOf(f) THEN acc[j] ELSE ZeroRegister]]
  BY <1>1, <1>f DEF RangeFinish
<1>3. PICK m : m = acc[k]
  OBVIOUS
<1>4. m \in Register /\ \A i \in Slot : RegLeq(bulk_bufs[f][i][k], m)
  BY <1>2, <1>3, <1>k, <1>t DEF IsMerged, RegLeq
<1>5. Answer(f, k) = m
  BY <1>2, <1>3, <1>f, <1>k, <1>t DEF Answer
<1>6. ASSUME NEW i \in Slot, OnWriter(quorum_indices(Owner(f), i), k)
      PROVE  RegLeq(floor[f].ack[k], m)
  <2>1. Passed(f, i, k)
    BY <1>0, <1>2, <1>f, QuietClosed DEF Closed, Passed
  <2>2. ScanSees(f)
    BY <1>f DEF AbdInv, ReadInv, Sees
  <2>3. RegLeq(floor[f].ack[k], bulk_bufs[f][i][k])
    BY <1>2, <1>6, <1>f, <2>1, <2>2 DEF ScanSees
  <2>4. floor[f].ack[k] \in Register /\ bulk_bufs[f][i][k] \in Register
    BY <1>f, <1>k, <1>t DEF AbdInv, ReadInv, FloorOK
  <2> QED
    BY <1>4, <2>3, <2>4, TagOrder
<1> QED
  BY <1>4, <1>5, <1>6, <1>f, <1>k, SlotOnWriter

\* Reads are regular: when quorums are majorities, no get and no scan returns a
\* tag below one acknowledged before it started, although it does not write
\* back and its quorum need not be the writer's.
THEOREM ReadsSeeAcked ==
    ASSUME OneWriter, RegWriteback = FALSE, 2 * Quorum > NumServers
    PROVE  HistSpec /\ []NoWrap /\ []PutsDisjoint => ReadSeesAcked
<1> DEFINE A == \A f \in Fut : ReadEnds(f) =>
                  \A k \in KeysRead(f) : RegLeq(floor[f].ack[k], Answer(f, k))
<1>1. AbdInv /\ HistNext => A
  <2> SUFFICES ASSUME AbdInv, HistNext, NEW f \in Fut, ReadEnds(f), NEW k \in KeysRead(f)
               PROVE  RegLeq(floor[f].ack[k], Answer(f, k))
    OBVIOUS
  <2>1. TypeOK /\ Next
    BY StoreTypes DEF AbdInv, HistNext
  <2> QED
    BY <2>1, EndsByStep, GetReturns, ScanReturns
<1>2. AbdInv /\ [HistNext]_allVars => [A]_allVars
  BY <1>1
<1> QED
  BY <1>2, AlwaysAbdInv, PTL DEF HistSpec, ReadSeesAcked

\* A put in progress is of a register its client writes.
PutsOwn == \A f \in OpFut : Putting(f) => Writes(Owner(f), key[f])

LEMMA NextPutsOwn == TypeOK /\ PutsOwn /\ [Next]_vars => PutsOwn'
<1> SUFFICES ASSUME TypeOK, PutsOwn, [Next]_vars PROVE PutsOwn'
  OBVIOUS
<1>t. step \in [Fut -> Step] /\ key \in [Fut -> Key] /\ OpFut \subseteq Fut
  BY AbdTypes, FutureKinds
<1>u. ASSUME UNCHANGED << step, key >> PROVE PutsOwn'
  BY <1>u DEF PutsOwn, Putting, Owner
\* A step of g, after which g is no put, or is one of a register its client writes.
<1>s. ASSUME NEW g \in Fut, NEW z, NEW k, step' = [step EXCEPT ![g] = z],
             key' = [key EXCEPT ![g] = k],
             g \in OpFut /\ z \in {"ReadSeq", "OptimisticChain", "CAS"} => Writes(Owner(g), k)
      PROVE  PutsOwn'
  <2> SUFFICES ASSUME NEW f \in OpFut, Putting(f)' PROVE Writes(Owner(f), key'[f])
    BY DEF PutsOwn, Owner
  <2>1. CASE f = g
    BY <1>s, <1>t, <2>1 DEF Putting
  <2>2. CASE f # g
    BY <1>s, <1>t, <2>2 DEF Putting, PutsOwn
  <2> QED
    BY <2>1, <2>2
<1>e. ASSUME NEW g \in Fut, NEW z, step' = [step EXCEPT ![g] = z], UNCHANGED key,
             z = "CAS" => g \in OpFut /\ Putting(g),
             z \in {"Done", "CAS", "WritingBack"}
      PROVE  PutsOwn'
  <2>1. key' = [key EXCEPT ![g] = key[g]]
    BY <1>e, <1>t
  <2>2. g \in OpFut /\ z \in {"ReadSeq", "OptimisticChain", "CAS"} => Writes(Owner(g), key[g])
    BY <1>e DEF PutsOwn
  <2> QED
    BY <1>e, <1>s, <2>1, <2>2
<1>1. ASSUME NEW c \in Client, NEW i \in Slot, Nic(c, i) PROVE PutsOwn'
  BY <1>1, <1>u DEF Nic, NicRead, NicCas, NicBulkWord, NicError
<1>2. ASSUME NEW s \in Server, ServerCrash(s) PROVE PutsOwn'
  BY <1>2, <1>u DEF ServerCrash
<1>3. ASSUME NEW c \in Client, TickRdma(c) \/ TickRdmaThrows(c) PROVE PutsOwn'
  BY <1>3, <1>u DEF TickRdma, TickRdmaThrows
<1>4. ASSUME NEW f \in Fut, ClientStep(f) PROVE PutsOwn'
  <2>1. CASE StepBlocked(f)
    BY <1>u, <2>1 DEF StepBlocked
  <2>2. CASE f \in OpFut /\ StepPut(f)
    <3>1. /\ UNCHANGED key /\ Putting(f)
          /\ \E z \in {"CAS", "Done"} : step' = [step EXCEPT ![f] = z]
      BY <2>2 DEF StepPut, PutStepReadSeq, PutStepOptimistic, PutStepCAS, PutStepOutrun,
                  PutDone, PutAgain, Putting
    <3> QED
      BY <1>e, <2>2, <3>1
  <2>3. CASE f \in OpFut /\ StepGet(f)
    <3>1. /\ UNCHANGED key
          /\ \E z \in {"WritingBack", "Done"} : step' = [step EXCEPT ![f] = z]
      BY <2>3 DEF StepGet, GetStepReading, GetStepWritingBack
    <3> QED
      BY <1>e, <3>1
  <2>4. CASE f \in RangeFut /\ StepRange(f)
    <3>1. PICK acc : RangeFinish(f, acc)
      BY <2>4 DEF StepRange, RangeStepReading
    <3>2. UNCHANGED key /\ step' = [step EXCEPT ![f] = "Done"]
      BY <3>1 DEF RangeFinish
    <3> QED
      BY <1>e, <3>2
  <2> QED
    BY <1>4, <2>1, <2>2, <2>3, <2>4 DEF ClientStep
<1>5. ASSUME NEW f \in Fut, Start(f) PROVE PutsOwn'
  <2>1. CASE f \in OpFut /\ StartPut(f)
    <3>1. PICK k \in PutKeys[Owner(f)], v \in Value : DoPutHit(f, k, v) \/ DoPutMiss(f, k, v)
      BY <2>1 DEF StartPut
    <3>2. Writes(Owner(f), k)
      BY <2>1, <3>1 DEF StartPut, Issue, Writes
    <3>3. /\ key' = [key EXCEPT ![f] = k]
          /\ \E z : step' = [step EXCEPT ![f] = z]
      BY <3>1 DEF DoPutHit, DoPutMiss
    <3> QED
      BY <1>s, <3>2, <3>3
  <2>2. CASE f \in OpFut /\ StartGet(f)
    <3>1. PICK k : DoGet(f, k)
      BY <2>2 DEF StartGet
    <3>2. key' = [key EXCEPT ![f] = k] /\ step' = [step EXCEPT ![f] = "Reading"]
      BY <3>1 DEF DoGet
    <3> QED
      BY <1>s, <3>2
  <2>3. CASE f \in RangeFut /\ StartRange(f)
    <3>1. PICK sk, ek : DoRange(f, sk, ek)
      BY <2>3 DEF StartRange
    <3>2. key' = [key EXCEPT ![f] = sk] /\ step' = [step EXCEPT ![f] = "Reading"]
      BY <3>1 DEF DoRange
    <3> QED
      BY <1>s, <3>2
  <2> QED
    BY <1>5, <2>1, <2>2, <2>3 DEF Start
<1>6. ASSUME UNCHANGED vars PROVE PutsOwn'
  BY <1>6, <1>u DEF vars, stateVars
<1> QED
  BY <1>1, <1>2, <1>3, <1>4, <1>5, <1>6 DEF Next

\* With one future per client the puts of a register cannot overlap, and all of
\* the above holds of the store as it is.
THEOREM OneFutureStore ==
    ASSUME OneWriter, AsyncParallelism = 1, RegWriteback = FALSE,
           2 * Quorum > NumServers, MaxCrash < Quorum
    PROVE  HistSpec /\ []NoWrap =>
             []CommittedAtQuorum /\ []CommittedSurvives /\ ReadSeesAcked
<1>1. PutsOwn => PutsDisjoint
  <2> SUFFICES ASSUME PutsOwn, NEW f \in OpFut, NEW g \in OpFut, Putting(f), Putting(g),
                      key[f] = key[g]
               PROVE  f = g
    BY DEF PutsDisjoint
  <2>1. Writes(Owner(f), key[f]) /\ Writes(Owner(g), key[f])
    BY DEF PutsOwn
  <2>2. Owner(f) \in Client /\ Owner(g) \in Client
    BY FutureKinds, OwnerType
  <2>3. key[f] \in Key
    <3>1. PutKeys[Owner(f)] \subseteq Key
      BY <2>2, PutKeysAssumption
    <3> QED
      BY <2>1, <3>1 DEF Writes
  <2>4. Owner(f) = Owner(g)
    BY <2>1, <2>2, <2>3 DEF OneWriter
  <2>5. 0 .. (AsyncParallelism - 1) = {0}
    OBVIOUS
  <2>6. f = << "op", Owner(f), 0 >> /\ g = << "op", Owner(g), 0 >>
    BY <2>5 DEF OpFut, Owner
  <2> QED
    BY <2>4, <2>6
<1>2. Init => PutsOwn
  BY FutureKinds DEF Init, StateInit, PutsOwn, Putting
<1>3. Spec => []PutsDisjoint
  BY <1>1, <1>2, TypeCorrect, NextPutsOwn, PTL DEF Spec
<1>4. HistSpec /\ []NoWrap => []NoWrap /\ []PutsDisjoint /\ HistSpec
  BY <1>3, HistIsSpec, PTL
<1> QED
  BY <1>4, AckedAtQuorum, AckedSurvives, ReadsSeeAcked

-----------------------------------------------------------------------------
(***************************************************************************)
(* Sessions.  A client works with one quorum, so whatever it was returned    *)
(* or has written is still covered by one of its own replicas; nothing here  *)
(* depends on who else writes, or on whether gets write back.                *)
(***************************************************************************)

\* One of client c's replicas holds at least r in register k.
Held(c, k, r) == \E i \in Slot : RegLeq(r, Copy(c, i, k))
SeenHeld == \A c \in Client, k \in Key : Held(c, k, seen[c][k])

\* What f's client had seen of register k when f started.
Own(f, k) == floor[f].own[k]

\* Slot i covers what f's client had seen, and answers f with no less.
PinnedAt(f, i) ==
    /\ RegLeq(Own(f, key[f]), Copy(Owner(f), i, key[f]))
    /\ Closed(f, i) => RegLeq(Own(f, key[f]), bufs[f][i])

\* A get, and the first round of a put, read one such slot.
SessPinned(f) ==
    step[f] \in {"Reading", "ReadSeq", "OptimisticChain"} => \E i \in Slot : PinnedAt(f, i)
\* What a get has read is covered by the replica it is from.
SessCopies(f) ==
    step[f] = "Reading" =>
        \A i \in Slot : Closed(f, i) => RegLeq(bufs[f][i], Copy(Owner(f), i, key[f]))
\* A get that writes back has its answer.
SessBack(f) ==
    step[f] = "WritingBack" =>
        RegLeq(Own(f, key[f]), max_reg[f]) /\ Held(Owner(f), key[f], max_reg[f])
\* A put that retries has a target above what its client had seen.
SessTarget(f) ==
    /\ step[f] \in {"ReadSeq", "OptimisticChain"} => success_count[f] = 0
    /\ step[f] = "CAS" => Own(f, key[f]).seq < target_reg[f].seq /\ success_count[f] < Quorum
\* A CAS that found what it expected has written the target.
SessSwaps(f) ==
    step[f] \in {"OptimisticChain", "CAS"} =>
        \A i \in Slot : /\ Closed(f, i) /\ bufs[f][i] = expected[f][i]
                        /\ step[f] = "CAS" => needs_cas[f][i]
                        => RegLeq(target_reg[f], Copy(Owner(f), i, key[f]))
OpSess(f) ==
    SessPinned(f) /\ SessCopies(f) /\ SessBack(f) /\ SessTarget(f) /\ SessSwaps(f)

\* The same for each register of a scan.
ScanPinnedAt(f, i, k) ==
    /\ RegLeq(Own(f, k), Copy(Owner(f), i, k))
    /\ Passed(f, i, k) => RegLeq(Own(f, k), bulk_bufs[f][i][k])
ScanSess(f) ==
    step[f] = "Reading" =>
        \A k \in KeysOf(f) :
            /\ \E i \in Slot : ScanPinnedAt(f, i, k)
            /\ \A i \in Slot : Passed(f, i, k) =>
                 RegLeq(bulk_bufs[f][i][k], Copy(Owner(f), i, k))
Sess(f) == (f \in OpFut => OpSess(f)) /\ (f \in RangeFut => ScanSess(f))

SessTypes ==
    /\ seen \in [Client -> [Key -> Register]]
    /\ \A f \in Fut : floor[f].own \in [Key -> Register]
SessInv == StoreInv /\ SessTypes /\ SeenHeld /\ \A f \in Fut : Sess(f)

-----------------------------------------------------------------------------
\* No step lowers a register.
Raised == \A s \in Server, k \in Key : RegLeq(mem[s][k], mem'[s][k])

LEMMA CopyRaised ==
    ASSUME TypeOK, TypeOK', Raised, NEW c \in Client, NEW i \in Slot, NEW k \in Key
    PROVE  /\ Copy(c, i, k) \in Register /\ Copy(c, i, k)' \in Register
           /\ \A r \in Register : RegLeq(r, Copy(c, i, k)) => RegLeq(r, Copy(c, i, k)')
<1>1. quorum_indices(c, i) \in Server
  BY ReplicaType
<1>2. mem \in [Server -> [Key -> Register]] /\ mem' \in [Server -> [Key -> Register]]
  BY DEF TypeOK, StateTypeOK
<1>3. Copy(c, i, k) \in Register /\ Copy(c, i, k)' \in Register
  BY <1>1, <1>2 DEF Copy
<1>4. RegLeq(Copy(c, i, k), Copy(c, i, k)')
  BY <1>1 DEF Copy, Raised
<1> QED
  BY <1>3, <1>4, TagOrder

LEMMA HeldRaised ==
    ASSUME TypeOK, TypeOK', Raised, NEW c \in Client, NEW k \in Key, NEW r \in Register,
           Held(c, k, r)
    PROVE  Held(c, k, r)'
<1>1. PICK i \in Slot : RegLeq(r, Copy(c, i, k))
  BY DEF Held
<1>2. RegLeq(r, Copy(c, i, k)')
  BY <1>1, CopyRaised
<1> QED
  BY <1>2 DEF Held

\* A future that has started keeps its floor.
LEMMA OwnKept ==
    ASSUME HistUpdate, NEW f \in Fut, step[f] # "Done", step'[f] # "Done"
    PROVE  floor'[f] = floor[f]
BY DEF HistUpdate, Starts

LEMMA KeysInRange ==
    ASSUME TypeOK, NEW f \in RangeFut
    PROVE  \A k \in KeysOf(f) : k \in Key
<1>1. key[f] \in Key /\ end_key[f] \in Key
  BY AbdTypes, FutureKinds
<1>2. /\ key[f] >= 0 /\ end_key[f] <= NumRegisters - 1 /\ NumRegisters \in Int
      /\ key[f] \in Int /\ end_key[f] \in Int
  BY <1>1, RegistersAssumption DEF Key
<1> QED
  BY <1>2 DEF KeysOf, Key

\* The step leaves the get's answer and the put's count alone.
Keeps(g) == g \in OpFut => max_reg'[g] = max_reg[g] /\ success_count'[g] = success_count[g]
Others(f) == \A g \in Fut \ {f} : Still(g) /\ Keeps(g)

LEMMA StillSessOp ==
    ASSUME TypeOK, TypeOK', Raised, HistUpdate, SessTypes, NEW g \in OpFut, Still(g), Keeps(g),
           OpSess(g)
    PROVE  OpSess(g)'
<1>0. g \in Fut /\ Owner(g) \in Client /\ key[g] \in Key
  BY FutureKinds, OwnerType, AbdTypes
<1>1. /\ step'[g] = step[g] /\ key'[g] = key[g] /\ bufs'[g] = bufs[g]
      /\ expected'[g] = expected[g] /\ target_reg'[g] = target_reg[g]
      /\ needs_cas'[g] = needs_cas[g] /\ max_reg'[g] = max_reg[g]
      /\ success_count'[g] = success_count[g]
  BY DEF Still, Keeps
<1>2. \A i \in Slot : Closed(g, i)' <=> Closed(g, i)
  BY <1>0, StillViews
<1>3. step[g] # "Done" => floor'[g] = floor[g]
  BY <1>0, <1>1, OwnKept
<1>4. PICK k \in Key, c \in Client : k = key[g] /\ c = Owner(g)
  BY <1>0
<1>5. PICK o : o = Own(g, k)
  OBVIOUS
<1>6. o \in Register /\ (step[g] # "Done" => Own(g, key[g])' = o)
  BY <1>0, <1>1, <1>3, <1>4, <1>5 DEF Own, SessTypes
<1>7. \A i \in Slot : /\ Copy(Owner(g), i, key[g])' = Copy(c, i, k)'
                      /\ \A r \in Register : RegLeq(r, Copy(c, i, k)) => RegLeq(r, Copy(c, i, k)')
  <2>1. \A i \in Slot : Copy(Owner(g), i, key[g])' = Copy(c, i, k)'
    BY <1>1, <1>4 DEF Copy, Owner
  <2> QED
    BY <2>1, CopyRaised
<1>t. /\ max_reg[g] \in Register /\ target_reg[g] \in Register
      /\ \A i \in Slot : bufs[g][i] \in Register
  BY AbdTypes
<1>8. SessPinned(g)'
  <2> SUFFICES ASSUME step[g] \in {"Reading", "ReadSeq", "OptimisticChain"}
               PROVE  \E i \in Slot : PinnedAt(g, i)'
    BY <1>1 DEF SessPinned
  <2>1. PICK i \in Slot : PinnedAt(g, i)
    BY DEF OpSess, SessPinned
  <2>2. RegLeq(o, Copy(c, i, k)) /\ (Closed(g, i) => RegLeq(o, bufs[g][i]))
    BY <1>4, <1>5, <2>1 DEF PinnedAt
  <2>3. PinnedAt(g, i)'
    BY <1>1, <1>2, <1>6, <1>7, <2>2 DEF PinnedAt
  <2> QED
    BY <2>3
<1>9. SessCopies(g)'
  <2> SUFFICES ASSUME step[g] = "Reading", NEW i \in Slot, Closed(g, i)
               PROVE  RegLeq(bufs[g][i], Copy(Owner(g), i, key[g])')
    BY <1>1, <1>2 DEF SessCopies
  <2>1. RegLeq(bufs[g][i], Copy(c, i, k))
    BY <1>4 DEF OpSess, SessCopies
  <2> QED
    BY <1>7, <1>t, <2>1
<1>10. SessBack(g)'
  <2> SUFFICES ASSUME step[g] = "WritingBack"
               PROVE  RegLeq(o, max_reg[g]) /\ \E i \in Slot : RegLeq(max_reg[g], Copy(c, i, k)')
    BY <1>1, <1>6, <1>7 DEF SessBack, Held
  <2>1. RegLeq(o, max_reg[g]) /\ \E i \in Slot : RegLeq(max_reg[g], Copy(c, i, k))
    BY <1>4, <1>5 DEF OpSess, SessBack, Held
  <2> QED
    BY <1>7, <1>t, <2>1
<1>11. SessTarget(g)'
  BY <1>1, <1>4, <1>5, <1>6 DEF OpSess, SessTarget
<1>12. SessSwaps(g)'
  <2> SUFFICES ASSUME step[g] \in {"OptimisticChain", "CAS"}, NEW i \in Slot, Closed(g, i),
                      bufs[g][i] = expected[g][i], step[g] = "CAS" => needs_cas[g][i]
               PROVE  RegLeq(target_reg[g], Copy(Owner(g), i, key[g])')
    BY <1>1, <1>2 DEF SessSwaps
  <2>1. RegLeq(target_reg[g], Copy(c, i, k))
    BY <1>4 DEF OpSess, SessSwaps
  <2> QED
    BY <1>7, <1>t, <2>1
<1> QED
  BY <1>8, <1>9, <1>10, <1>11, <1>12 DEF OpSess

LEMMA StillSessScan ==
    ASSUME TypeOK, TypeOK', Raised, HistUpdate, SessTypes, NEW g \in RangeFut, Still(g),
           ScanSess(g)
    PROVE  ScanSess(g)'
<1>0. g \in Fut /\ Owner(g) \in Client
  BY FutureKinds, OwnerType
<1>1. /\ step'[g] = step[g] /\ key'[g] = key[g] /\ end_key'[g] = end_key[g]
      /\ bulk_bufs'[g] = bulk_bufs[g]
  BY DEF Still
<1>2. KeysOf(g)' = KeysOf(g)
  BY <1>1 DEF KeysOf
<1>3. \A i \in Slot : \A k : Passed(g, i, k)' <=> Passed(g, i, k)
  BY <1>0, StillViews DEF Passed
<1> SUFFICES ASSUME step[g] = "Reading", NEW k \in KeysOf(g)
             PROVE  /\ \E i \in Slot : ScanPinnedAt(g, i, k)'
                    /\ \A i \in Slot : Passed(g, i, k) =>
                         RegLeq(bulk_bufs[g][i][k], Copy(Owner(g), i, k)')
  BY <1>1, <1>2, <1>3 DEF ScanSess
<1>4. k \in Key
  BY KeysInRange
<1>c. PICK c \in Client : c = Owner(g)
  BY <1>0
<1>5. PICK o : o = Own(g, k) /\ c = Owner(g)
  BY <1>c
<1>6. o \in Register /\ Own(g, k)' = o
  BY <1>0, <1>1, <1>4, <1>5, OwnKept DEF Own, SessTypes
<1>7. \A i \in Slot : /\ Copy(Owner(g), i, k)' = Copy(c, i, k)'
                      /\ \A r \in Register : RegLeq(r, Copy(c, i, k)) => RegLeq(r, Copy(c, i, k)')
  <2>1. \A i \in Slot : Copy(Owner(g), i, k)' = Copy(c, i, k)'
    BY <1>5 DEF Copy, Owner
  <2> QED
    BY <1>4, <2>1, CopyRaised
<1>8. \E i \in Slot : ScanPinnedAt(g, i, k)'
  <2>1. PICK i \in Slot : ScanPinnedAt(g, i, k)
    BY DEF ScanSess
  <2>2. RegLeq(o, Copy(c, i, k)) /\ (Passed(g, i, k) => RegLeq(o, bulk_bufs[g][i][k]))
    BY <1>5, <2>1 DEF ScanPinnedAt
  <2>3. ScanPinnedAt(g, i, k)'
    BY <1>1, <1>3, <1>6, <1>7, <2>2 DEF ScanPinnedAt
  <2> QED
    BY <2>3
<1>9. ASSUME NEW i \in Slot, Passed(g, i, k)
      PROVE  RegLeq(bulk_bufs[g][i][k], Copy(Owner(g), i, k)')
  <2>1. RegLeq(bulk_bufs[g][i][k], Copy(c, i, k))
    BY <1>5, <1>9 DEF ScanSess
  <2>2. bulk_bufs[g][i][k] \in Register
    BY <1>4, AbdTypes
  <2> QED
    BY <1>7, <2>1, <2>2
<1> QED
  BY <1>8, <1>9

\* What a client has seen moves with f only, and to what f is given.
EndsHeld(f) ==
    /\ f \in OpFut /\ PutEnds(f) => Held(Owner(f), key[f], target_reg[f])
    /\ ReadEnds(f) => \A k \in KeysRead(f) : Held(Owner(f), k, Answer(f, k))

LEMMA SeenStep ==
    ASSUME TypeOK, TypeOK', SessTypes, HistUpdate, NEW f \in Fut,
           \A g \in Fut \ {f} : step'[g] = step[g], NEW c \in Client, NEW k \in Key
    PROVE  /\ seen'[c][k] \in Register
           /\ \/ seen'[c][k] = seen[c][k]
              \/ /\ f \in OpFut /\ PutEnds(f) /\ c = Owner(f) /\ k = key[f]
                 /\ seen'[c][k] = target_reg[f]
              \/ /\ ReadEnds(f) /\ c = Owner(f) /\ k \in KeysRead(f)
                 /\ seen'[c][k] = Answer(f, k)
           /\ RegLeq(seen[c][k], seen'[c][k])
           /\ f \in OpFut /\ PutEnds(f) /\ c = Owner(f) /\ k = key[f] =>
                RegLeq(target_reg[f], seen'[c][k])
<1> DEFINE own == {g \in Fut : Owner(g) = c}
           A == {g \in own \cap OpFut : PutEnds(g) /\ key[g] = k}
           B == {g \in own : ReadEnds(g) /\ k \in KeysRead(g)}
<1>1. seen'[c][k] = Newest({seen[c][k]} \cup AckedNow(own, k) \cup ReturnedNow(own, k))
  BY DEF HistUpdate
<1>2. A \subseteq {f} /\ B \subseteq {f} /\ (A = {} \/ B = {})
  BY DEF PutEnds, ReadEnds
<1>3. AckedNow(own, k) = {target_reg[g] : g \in A} /\ ReturnedNow(own, k) = {Answer(g, k) : g \in B}
  BY DEF AckedNow, ReturnedNow
<1>t. seen[c][k] \in Register
  BY DEF SessTypes
<1>4. ASSUME NEW x \in Register,
             {seen[c][k]} \cup AckedNow(own, k) \cup ReturnedNow(own, k) = {seen[c][k], x}
      PROVE  /\ seen'[c][k] \in Register /\ seen'[c][k] \in {seen[c][k], x}
             /\ RegLeq(seen[c][k], seen'[c][k]) /\ RegLeq(x, seen'[c][k])
  <2> HIDE DEF own
  <2>1. seen'[c][k] = Newest({seen[c][k], x})
    BY <1>1, <1>4
  <2>2. PICK y : y = seen[c][k]
    OBVIOUS
  <2>3. /\ Newest({y, x}) \in {y, x} /\ RegLeq(y, Newest({y, x})) /\ RegLeq(x, Newest({y, x}))
    BY <1>4, <1>t, <2>2, NewestOfTwo
  <2> QED
    BY <1>4, <1>t, <2>1, <2>2, <2>3
<1>5. CASE A = {} /\ B = {}
  <2>1. {seen[c][k]} \cup AckedNow(own, k) \cup ReturnedNow(own, k) = {seen[c][k], seen[c][k]}
    BY <1>3, <1>5
  <2>2. ~(f \in OpFut /\ PutEnds(f) /\ c = Owner(f) /\ k = key[f])
    BY <1>5
  <2> HIDE DEF own
  <2> QED
    BY <1>4, <1>t, <2>1, <2>2
<1>6. CASE A = {f} /\ B = {}
  <2>1. f \in OpFut /\ PutEnds(f) /\ c = Owner(f) /\ k = key[f]
    BY <1>6
  <2>2. target_reg[f] \in Register
    BY <2>1, AbdTypes
  <2>3. {seen[c][k]} \cup AckedNow(own, k) \cup ReturnedNow(own, k) = {seen[c][k], target_reg[f]}
    BY <1>3, <1>6
  <2> HIDE DEF own
  <2> QED
    BY <1>4, <2>1, <2>2, <2>3
<1>7. CASE A = {} /\ B = {f}
  <2>1. ReadEnds(f) /\ c = Owner(f) /\ k \in KeysRead(f)
    BY <1>7
  <2>2. Answer(f, k) \in Register
    <3>1. max_reg' \in [OpFut -> Register] /\ results' \in [RangeFut -> [Key -> Register]]
      BY DEF TypeOK, GetTypeOK, RangeTypeOK
    <3> QED
      BY <3>1, FutureKinds DEF Answer
  <2>3. {seen[c][k]} \cup AckedNow(own, k) \cup ReturnedNow(own, k) = {seen[c][k], Answer(f, k)}
    BY <1>3, <1>7
  <2>4. ~PutEnds(f)
    BY <2>1 DEF PutEnds, ReadEnds
  <2> HIDE DEF own
  <2> QED
    BY <1>4, <2>1, <2>2, <2>3, <2>4
<1> QED
  BY <1>2, <1>5, <1>6, <1>7

\* What a step of f has to show for the sessions.
LEMMA SessStep ==
    ASSUME SessInv, TagInv', Raised, HistUpdate, NEW f \in Fut,
           \A g \in Fut \ {f} : Still(g) /\ Keeps(g),
           QueuesSingle', \A i \in Slot : Waits(f, i)', FutureSane(f)',
           EndsHeld(f), Sess(f)'
    PROVE  SessInv'
<1>0. /\ StoreInv /\ SessTypes /\ SeenHeld /\ TypeOK /\ TypeOK'
      /\ \A g \in Fut \ {f} : step'[g] = step[g]
  BY StoreTypes DEF SessInv, TagInv, AccountingInv, Still
<1>1. StoreInv'
  BY <1>0, StoreStep
<1>2. ASSUME NEW c \in Client, NEW k \in Key
      PROVE  seen'[c][k] \in Register /\ \E i \in Slot : RegLeq(seen'[c][k], Copy(c, i, k)')
  <2>1. PICK x : x = seen'[c][k]
    OBVIOUS
  <2>2. x \in Register
    BY <1>0, <2>1, SeenStep
  <2>3. Held(c, k, x)
    <3>1. CASE x = seen[c][k]
      BY <1>0, <3>1 DEF SeenHeld
    <3>2. CASE f \in OpFut /\ PutEnds(f) /\ c = Owner(f) /\ k = key[f] /\ x = target_reg[f]
      BY <3>2 DEF EndsHeld
    <3>3. CASE ReadEnds(f) /\ c = Owner(f) /\ k \in KeysRead(f) /\ x = Answer(f, k)
      BY <3>3 DEF EndsHeld
    <3> QED
      BY <1>0, <2>1, <3>1, <3>2, <3>3, SeenStep
  <2>4. Held(c, k, x)'
    BY <1>0, <2>2, <2>3, HeldRaised
  <2> QED
    BY <2>1, <2>2, <2>4 DEF Held
<1>3. seen' \in [Client -> [Key -> Register]]
  BY <1>2 DEF HistUpdate
<1>4. SeenHeld'
  BY <1>2 DEF SeenHeld, Held
<1>5. ASSUME NEW g \in Fut PROVE floor'[g].own \in [Key -> Register]
  <2>1. floor'[g] = IF step'[g] = "Done" THEN NoFloor
                    ELSE IF Starts(g) THEN [ack |-> acked, own |-> seen[Owner(g)]]
                    ELSE floor[g]
    BY DEF HistUpdate
  <2>2. NoFloor.own \in [Key -> Register]
    BY ZeroRegisterType DEF NoFloor, Blank
  <2>3. seen[Owner(g)] \in [Key -> Register] /\ floor[g].own \in [Key -> Register]
    BY <1>0, OwnerType DEF SessTypes
  <2> QED
    BY <2>1, <2>2, <2>3
<1>6. ASSUME NEW g \in Fut \ {f} PROVE Sess(g)'
  <2>1. Still(g) /\ Keeps(g) /\ Sess(g)
    BY DEF SessInv
  <2>2. CASE g \in OpFut
    BY <1>0, <2>1, <2>2, StillSessOp, FutureKinds DEF Sess
  <2>3. CASE g \in RangeFut
    BY <1>0, <2>1, <2>3, StillSessScan, FutureKinds DEF Sess
  <2> QED
    BY <2>2, <2>3, FutureKinds
<1> QED
  BY <1>1, <1>3, <1>4, <1>5, <1>6 DEF SessInv, SessTypes

-----------------------------------------------------------------------------
\* Steps in which no future moves.
LEMMA NoneMovesSess ==
    ASSUME SessInv, TagInv', Raised, HistUpdate,
           \A g \in Fut : Still(g) /\ Keeps(g), sq' = sq
    PROVE  SessInv'
<1>0. StoreInv /\ SessTypes /\ TypeOK /\ TypeOK'
  BY StoreTypes DEF SessInv, TagInv, AccountingInv
<1>1. PICK f \in OpFut : TRUE
  <2>1. 0 \in Client /\ 0 \in 0 .. (AsyncParallelism - 1)
    BY NumClientsAssumption, AsyncAssumption DEF Client
  <2>2. << "op", 0, 0 >> \in OpFut
    BY <2>1 DEF OpFut
  <2> QED
    BY <2>2
<1>2. f \in Fut /\ f \notin RangeFut /\ Still(f) /\ Keeps(f) /\ Sess(f)
  BY FutureKinds DEF SessInv
<1>3. QueuesSingle'
  BY <1>0 DEF StoreInv, QueuesSingle, Single
<1>4. FutureSane(f)' /\ \A i \in Slot : Waits(f, i)'
  BY <1>0, <1>2, StillStore
<1>5. OpSess(f)'
  BY <1>0, <1>2, StillSessOp DEF Sess
<1>6. EndsHeld(f)
  BY <1>2 DEF EndsHeld, PutEnds, ReadEnds, Still
<1> QED
  BY <1>2, <1>3, <1>4, <1>5, <1>6, SessStep DEF Sess

LEMMA TickSess ==
    ASSUME SessInv, TagInv', Raised, HistUpdate, NEW c \in Client, TickRdma(c)
    PROVE  SessInv'
<1>1. (\A g \in Fut : Still(g)) /\ sq' = sq
  BY TickStill DEF SessInv
<1>2. \A g \in Fut : Keeps(g)
  BY DEF TickRdma, Keeps, putVars
<1> QED
  BY <1>1, <1>2, NoneMovesSess

LEMMA IdleSess ==
    ASSUME SessInv, TagInv', Raised, HistUpdate,
           UNCHANGED << mem, sq, cq, step, key, bufs, putVars, max_reg, rangeVars >>
    PROVE  SessInv'
<1>1. \A g \in Fut : Still(g)
  BY IdleStill
<1>2. \A g \in Fut : Keeps(g)
  BY DEF Keeps, putVars
<1> QED
  BY <1>1, <1>2, NoneMovesSess

-----------------------------------------------------------------------------
\* The servers' steps.  Slot i answers f with what it holds.
LEMMA AnswerSess ==
    ASSUME SessInv, TagInv', Raised, HistUpdate, NEW f \in OpFut, NEW i \in Slot,
           Answered(f, i, Copy(Owner(f), i, key[f])), step[f] # "Done",
           UNCHANGED << step, key, putVars, max_reg >>,
           step[f] = "Reading" => mem' = mem,
           step[f] \in {"OptimisticChain", "CAS"} /\ Copy(Owner(f), i, key[f]) = expected[f][i]
             => mem'[quorum_indices(Owner(f), i)][key[f]] = target_reg[f]
    PROVE  SessInv'
<1>0. StoreInv /\ SessTypes /\ TypeOK /\ TypeOK'
  BY StoreTypes DEF SessInv, TagInv, AccountingInv
<1>f. f \in Fut /\ f \notin RangeFut /\ Owner(f) \in Client /\ key[f] \in Key
  BY <1>0, FutureKinds, OwnerType, AbdTypes
<1>1. PICK k \in Key : k = key[f]
  BY <1>f
<1>2. PICK c \in Client : c = Owner(f)
  BY <1>f
<1>3. PICK o : o = Own(f, k)
  OBVIOUS
<1>u. /\ step'[f] = step[f] /\ key'[f] = k /\ expected'[f] = expected[f]
      /\ needs_cas'[f] = needs_cas[f] /\ target_reg'[f] = target_reg[f]
      /\ max_reg'[f] = max_reg[f] /\ success_count'[f] = success_count[f]
  BY <1>1 DEF putVars
<1>4. o \in Register /\ Own(f, key[f])' = o /\ Own(f, key[f]) = o
  BY <1>0, <1>1, <1>3, <1>f, <1>u, OwnKept DEF Own, SessTypes
<1>5. /\ \A j \in Slot : /\ Copy(Owner(f), j, key[f])' = Copy(c, j, k)'
                         /\ Copy(Owner(f), j, key[f]) = Copy(c, j, k)
                         /\ Copy(c, j, k) \in Register
                         /\ \A r \in Register : RegLeq(r, Copy(c, j, k)) => RegLeq(r, Copy(c, j, k)')
  <2>1. \A j \in Slot : /\ Copy(Owner(f), j, key[f])' = Copy(c, j, k)'
                        /\ Copy(Owner(f), j, key[f]) = Copy(c, j, k)
    BY <1>1, <1>2, <1>u DEF Copy, Owner
  <2>2. \A j \in Slot : /\ Copy(c, j, k) \in Register
                        /\ \A r \in Register : RegLeq(r, Copy(c, j, k)) => RegLeq(r, Copy(c, j, k)')
    BY <1>0, CopyRaised
  <2> QED
    BY <2>1, <2>2
<1>6. /\ bufs'[f][i] = Copy(c, i, k) /\ Closed(f, i)'
      /\ \A j \in Slot \ {i} : bufs'[f][j] = bufs[f][j] /\ (Closed(f, j)' <=> Closed(f, j))
  BY <1>5 DEF Answered
<1>s. OpSess(f)
  BY <1>f DEF SessInv, Sess
<1>t. /\ max_reg[f] \in Register /\ target_reg[f] \in Register
      /\ \A j \in Slot : bufs[f][j] \in Register
  BY <1>0, AbdTypes
<1>7. SessPinned(f)'
  <2> SUFFICES ASSUME step[f] \in {"Reading", "ReadSeq", "OptimisticChain"}
               PROVE  \E j \in Slot : PinnedAt(f, j)'
    BY <1>u DEF SessPinned
  <2>1. PICK j \in Slot : PinnedAt(f, j)
    BY <1>s DEF OpSess, SessPinned
  <2>2. RegLeq(o, Copy(c, j, k)) /\ (Closed(f, j) => RegLeq(o, bufs[f][j]))
    BY <1>4, <1>5, <2>1 DEF PinnedAt
  <2>3. RegLeq(o, Copy(c, j, k)')
    BY <1>4, <1>5, <2>2
  <2>4. Closed(f, j)' => RegLeq(o, bufs'[f][j])
    BY <1>6, <2>2
  <2>5. PinnedAt(f, j)'
    BY <1>4, <1>5, <2>3, <2>4 DEF PinnedAt
  <2> QED
    BY <2>5
<1>8. SessCopies(f)'
  <2> SUFFICES ASSUME step[f] = "Reading", NEW j \in Slot, Closed(f, j)'
               PROVE  RegLeq(bufs'[f][j], Copy(c, j, k)')
    BY <1>5, <1>u DEF SessCopies
  <2>1. Copy(c, j, k)' = Copy(c, j, k)
    BY DEF Copy
  <2>2. CASE j = i
    BY <1>5, <1>6, <2>1, <2>2, TagOrder
  <2>3. CASE j # i
    BY <1>5, <1>6, <1>s, <2>1, <2>3 DEF OpSess, SessCopies
  <2> QED
    BY <2>2, <2>3
<1>9. SessBack(f)'
  <2> SUFFICES ASSUME step[f] = "WritingBack"
               PROVE  RegLeq(o, max_reg[f]) /\ \E j \in Slot : RegLeq(max_reg[f], Copy(c, j, k)')
    BY <1>4, <1>5, <1>u DEF SessBack, Held
  <2>1. RegLeq(o, max_reg[f]) /\ \E j \in Slot : RegLeq(max_reg[f], Copy(c, j, k))
    BY <1>4, <1>5, <1>s DEF OpSess, SessBack, Held
  <2> QED
    BY <1>5, <1>t, <2>1
<1>10. SessTarget(f)'
  BY <1>4, <1>s, <1>u DEF OpSess, SessTarget
<1>11. SessSwaps(f)'
  <2> SUFFICES ASSUME step[f] \in {"OptimisticChain", "CAS"}, NEW j \in Slot, Closed(f, j)',
                      bufs'[f][j] = expected[f][j], step[f] = "CAS" => needs_cas[f][j]
               PROVE  RegLeq(target_reg[f], Copy(c, j, k)')
    BY <1>5, <1>u DEF SessSwaps
  <2>1. CASE j = i
    <3>1. Copy(c, i, k)' = target_reg[f]
      BY <1>1, <1>2, <1>5, <1>6, <2>1 DEF Copy
    <3> QED
      BY <1>t, <2>1, <3>1, TagOrder
  <2>2. CASE j # i
    <3>1. RegLeq(target_reg[f], Copy(c, j, k))
      BY <1>5, <1>6, <1>s, <2>2 DEF OpSess, SessSwaps
    <3> QED
      BY <1>5, <1>t, <3>1
  <2> QED
    BY <2>1, <2>2
<1>12. Sess(f)'
  BY <1>7, <1>8, <1>9, <1>10, <1>11, <1>f DEF Sess, OpSess
<1>13. EndsHeld(f)
  BY <1>u DEF EndsHeld, PutEnds, ReadEnds
<1>14. \A g \in Fut \ {f} : Still(g) /\ Keeps(g)
  BY DEF Answered, Keeps, putVars
<1> QED
  BY <1>12, <1>13, <1>14, <1>f, SessStep DEF Answered

LEMMA NicReadSess ==
    ASSUME SessInv, TagInv', Raised, HistUpdate, NEW c \in Client, NEW i \in Slot, NicRead(c, i)
    PROVE  SessInv'
<1>0. StoreInv /\ TypeOK
  BY StoreTypes DEF SessInv
<1>1. PICK w : w = Head(sq[c][i])
  OBVIOUS
<1>2. PICK f : f = w.fut
  OBVIOUS
<1>e. /\ sq[c][i] # << >> /\ w.op = "read"
      /\ bufs' = [bufs EXCEPT ![f][i] = mem[quorum_indices(c, i)][w.key]]
      /\ Complete(c, i, TRUE)
      /\ UNCHANGED << mem, step, key, putVars, max_reg, rangeVars >>
  BY <1>1, <1>2 DEF NicRead, Executable
<1>3. w \in WorkRequest /\ f \in Fut /\ Owner(f) = c /\ w \in Asked(f, i)
  BY <1>0, <1>1, <1>2, <1>e, HeadOut
<1>4. f \in OpFut
  BY <1>2, <1>3, <1>e, FutureKinds DEF WorkRequest
<1>5. step[f] \in {"ReadSeq", "Reading"} /\ w.key = key[f]
  BY <1>3, <1>4, <1>e DEF Asked, ReadWR, CasWR
<1>6. Answered(f, i, mem[quorum_indices(c, i)][key[f]])
  BY <1>0, <1>1, <1>2, <1>4, <1>5, <1>e, AnswerStep
<1>7. Answered(f, i, Copy(Owner(f), i, key[f]))
  BY <1>3, <1>6 DEF Copy
<1> QED
  BY <1>4, <1>5, <1>7, <1>e, AnswerSess

LEMMA NicCasSess ==
    ASSUME SessInv, TagInv', Raised, HistUpdate, NEW c \in Client, NEW i \in Slot, NicCas(c, i)
    PROVE  SessInv'
<1>0. StoreInv /\ TypeOK
  BY StoreTypes DEF SessInv
<1>1. PICK w : w = Head(sq[c][i])
  OBVIOUS
<1>2. PICK f : f = w.fut
  OBVIOUS
<1> DEFINE s == quorum_indices(c, i)
<1>e. /\ sq[c][i] # << >> /\ w.op = "cas"
      /\ bufs' = [bufs EXCEPT ![f][i] = mem[s][w.key]]
      /\ mem' = [mem EXCEPT ![s][w.key] = IF @ = w.expected THEN w.target ELSE @]
      /\ Complete(c, i, TRUE)
      /\ UNCHANGED << step, key, putVars, max_reg, rangeVars >>
  BY <1>1, <1>2 DEF NicCas, Executable
<1>3. w \in WorkRequest /\ f \in Fut /\ Owner(f) = c /\ w \in Asked(f, i) /\ w.key \in Key
  BY <1>0, <1>1, <1>2, <1>e, HeadOut
<1>4. f \in OpFut
  BY <1>2, <1>3, <1>e, FutureKinds DEF WorkRequest
<1>5. /\ step[f] \in {"OptimisticChain", "CAS", "WritingBack"} /\ w.key = key[f]
      /\ step[f] # "WritingBack" => w.expected = expected[f][i] /\ w.target = target_reg[f]
  BY <1>3, <1>4, <1>e DEF Asked, ReadWR, CasWR, BulkWR
<1>6. Answered(f, i, mem[s][key[f]])
  BY <1>0, <1>1, <1>2, <1>4, <1>5, <1>e, AnswerStep
<1>7. Answered(f, i, Copy(Owner(f), i, key[f]))
  BY <1>3, <1>6 DEF Copy
<1>8. ASSUME step[f] # "WritingBack", Copy(Owner(f), i, key[f]) = expected[f][i]
      PROVE  mem'[s][key[f]] = target_reg[f]
  <2>1. mem \in [Server -> [Key -> Register]] /\ s \in Server /\ key[f] \in Key
    BY <1>0, <1>3, <1>5, AbdTypes, ReplicaType
  <2>2. mem[s][key[f]] = w.expected
    BY <1>3, <1>5, <1>8 DEF Copy
  <2> HIDE DEF s
  <2> QED
    BY <1>5, <1>8, <1>e, <2>1, <2>2
<1> QED
  BY <1>3, <1>4, <1>5, <1>7, <1>8, <1>e, AnswerSess

LEMMA NicErrorSess ==
    ASSUME SessInv, TagInv', Raised, HistUpdate, NEW c \in Client, NEW i \in Slot, NicError(c, i)
    PROVE  SessInv'
<1>0. StoreInv /\ TypeOK /\ SessTypes
  BY StoreTypes DEF SessInv
<1>1. PICK f \in Fut : Fails(f, i)
  BY <1>0, NicErrorStep
<1>2. /\ \A j \in Slot : Closed(f, j)' <=> Closed(f, j)
      /\ \A j \in Slot : \A k : Passed(f, j, k)' => Passed(f, j, k)
  BY <1>1 DEF Fails, Passed
<1>u. UNCHANGED << mem, step, key, bufs, putVars, max_reg, rangeVars >>
  BY DEF NicError
<1>v. UNCHANGED << value, expected, needs_cas, target_reg, success_count, end_key, bulk_bufs >>
  BY <1>u DEF putVars, rangeVars
<1>3. Sess(f) /\ (step[f] # "Done" => floor'[f] = floor[f])
  BY <1>u, OwnKept DEF SessInv
<1>4. \A d, j, k : Copy(d, j, k)' = Copy(d, j, k)
  BY <1>u DEF Copy
<1>5. \A k : step[f] # "Done" => Own(f, k)' = Own(f, k)
  BY <1>3 DEF Own
<1>6. ASSUME f \in OpFut PROVE OpSess(f)'
  <2>1. OpSess(f)
    BY <1>3, <1>6 DEF Sess
  <2>2. \A j \in Slot : step[f] # "Done" => (PinnedAt(f, j)' <=> PinnedAt(f, j))
    BY <1>2, <1>4, <1>5, <1>u DEF PinnedAt, Owner
  <2>3. SessPinned(f)'
    BY <1>u, <2>1, <2>2 DEF OpSess, SessPinned
  <2>4. SessCopies(f)'
    BY <1>2, <1>4, <1>u, <2>1 DEF OpSess, SessCopies, Owner
  <2>5. SessBack(f)'
    BY <1>4, <1>5, <1>u, <2>1 DEF OpSess, SessBack, Held, Owner
  <2>6. SessTarget(f)'
    BY <1>5, <1>u, <1>v, <2>1 DEF OpSess, SessTarget
  <2>7. SessSwaps(f)'
    BY <1>2, <1>4, <1>u, <1>v, <2>1 DEF OpSess, SessSwaps, Owner
  <2> QED
    BY <2>3, <2>4, <2>5, <2>6, <2>7 DEF OpSess
<1>7. ASSUME f \in RangeFut PROVE ScanSess(f)'
  <2>1. ScanSess(f) /\ KeysOf(f)' = KeysOf(f)
    BY <1>3, <1>7, <1>u, <1>v DEF Sess, KeysOf
  <2>2. \A j \in Slot : \A k :
           step[f] # "Done" => (ScanPinnedAt(f, j, k) => ScanPinnedAt(f, j, k)')
    BY <1>2, <1>4, <1>5, <1>v DEF ScanPinnedAt, Owner
  <2> QED
    BY <1>2, <1>4, <1>u, <1>v, <2>1, <2>2 DEF ScanSess, Owner
<1>8. EndsHeld(f)
  BY <1>u DEF EndsHeld, PutEnds, ReadEnds
<1>9. \A g \in Fut \ {f} : Still(g) /\ Keeps(g)
  BY <1>1, <1>u, <1>v DEF Fails, Keeps
<1> QED
  BY <1>1, <1>6, <1>7, <1>8, <1>9, SessStep DEF Fails, Sess

LEMMA NicBulkSess ==
    ASSUME SessInv, TagInv', Raised, HistUpdate, NEW c \in Client, NEW i \in Slot,
           NicBulkWord(c, i)
    PROVE  SessInv'
<1>0. StoreInv /\ TypeOK /\ SessTypes
  BY StoreTypes DEF SessInv
<1>1. PICK f \in RangeFut, k \in Key : Takes(f, i, k)
  BY <1>0, NicBulkStep
<1>f. f \in Fut /\ f \notin OpFut /\ Owner(f) \in Client /\ step[f] = "Reading"
  BY <1>1, FutureKinds, OwnerType DEF Takes
<1>u. UNCHANGED << mem, step, key, bufs, putVars, max_reg, end_key >>
  BY DEF NicBulkWord
<1>2. floor'[f] = floor[f] /\ ScanSess(f)
  BY <1>f, <1>u, OwnKept DEF SessInv, Sess
<1>3. \A d, j, l : Copy(d, j, l)' = Copy(d, j, l)
  BY <1>u DEF Copy
<1>4. \A l : Own(f, l)' = Own(f, l)
  BY <1>2 DEF Own
<1>5. KeysOf(f)' = KeysOf(f) /\ \A l \in KeysOf(f) : l \in Key
  BY <1>0, <1>u, KeysInRange DEF KeysOf
<1>6. /\ \A j \in Slot, l \in KeysOf(f) : j # i \/ l # k =>
             /\ bulk_bufs'[f][j][l] = bulk_bufs[f][j][l]
             /\ Passed(f, j, l)' => Passed(f, j, l)
      /\ bulk_bufs'[f][i][k] = Copy(Owner(f), i, k)
  BY <1>1 DEF Takes
<1>7. ASSUME NEW l \in KeysOf(f) PROVE \E j \in Slot : ScanPinnedAt(f, j, l)'
  <2>1. PICK j \in Slot : ScanPinnedAt(f, j, l)
    BY <1>2, <1>f DEF ScanSess
  <2>2. RegLeq(Own(f, l), Copy(Owner(f), j, l)) /\ (Passed(f, j, l) => RegLeq(Own(f, l), bulk_bufs[f][j][l]))
    BY <2>1 DEF ScanPinnedAt
  <2>3. Passed(f, j, l)' => RegLeq(Own(f, l), bulk_bufs'[f][j][l])
    <3>1. CASE j = i /\ l = k
      BY <1>6, <2>2, <3>1
    <3>2. CASE ~(j = i /\ l = k)
      BY <1>6, <2>2, <3>2
    <3> QED
      BY <3>1, <3>2
  <2>4. ScanPinnedAt(f, j, l)'
    BY <1>3, <1>4, <2>2, <2>3 DEF ScanPinnedAt, Owner
  <2> QED
    BY <2>4
<1>8. ASSUME NEW l \in KeysOf(f), NEW j \in Slot, Passed(f, j, l)'
      PROVE  RegLeq(bulk_bufs'[f][j][l], Copy(Owner(f), j, l))
  <2>1. CASE j = i /\ l = k
    <3>1. PICK r : r = Copy(Owner(f), i, k)
      OBVIOUS
    <3>2. r \in Register
      BY <1>0, <1>f, <3>1, AbdTypes, ReplicaType DEF Copy
    <3> QED
      BY <1>6, <2>1, <3>1, <3>2, TagOrder
  <2>2. CASE ~(j = i /\ l = k)
    BY <1>2, <1>6, <1>8, <1>f, <2>2 DEF ScanSess
  <2> QED
    BY <2>1, <2>2
<1>9. ScanSess(f)'
  BY <1>3, <1>5, <1>7, <1>8 DEF ScanSess, Owner
<1>10. EndsHeld(f)
  BY <1>u DEF EndsHeld, PutEnds, ReadEnds
<1>11. \A g \in Fut \ {f} : Still(g) /\ Keeps(g)
  BY <1>1, <1>u DEF Takes, Keeps, putVars
<1> QED
  BY <1>1, <1>9, <1>10, <1>11, <1>f, SessStep DEF Takes, Sess

-----------------------------------------------------------------------------
\* The client's steps.  f has started, and no slot has answered it yet.
Fresh(f) ==
    /\ f \in OpFut => /\ step'[f] \in {"Reading", "ReadSeq", "OptimisticChain"}
                      /\ step'[f] \in {"ReadSeq", "OptimisticChain"} => success_count'[f] = 0
                      /\ \A i \in Slot : ~Closed(f, i)'
    /\ f \in RangeFut => \A i \in Slot : \A k \in KeysOf(f)' : ~Passed(f, i, k)'

LEMMA StartSess ==
    ASSUME SessInv, TagInv', Raised, HistUpdate, NEW f \in Fut, step[f] = "Done",
           step'[f] # "Done", mem' = mem, Fresh(f),
           \A g \in Fut \ {f} : Still(g) /\ Keeps(g),
           QueuesSingle', \A i \in Slot : Waits(f, i)', FutureSane(f)'
    PROVE  SessInv'
<1>0. SeenHeld /\ TypeOK /\ TypeOK'
  BY StoreTypes DEF SessInv, TagInv, AccountingInv
<1>1. PICK c \in Client : c = Owner(f)
  BY OwnerType
<1>2. floor'[f].own = seen[c]
  BY <1>1 DEF HistUpdate, Starts
<1>3. \A i \in Slot : \A k \in Key : Copy(Owner(f), i, k)' = Copy(c, i, k)
  BY <1>1 DEF Copy, Owner
<1>4. EndsHeld(f)
  BY DEF EndsHeld, PutEnds, ReadEnds
<1>5. ASSUME NEW k \in Key
      PROVE  \E i \in Slot : RegLeq(seen[c][k], Copy(c, i, k))
  BY <1>0 DEF SeenHeld, Held
<1>6. ASSUME f \in OpFut PROVE OpSess(f)'
  <2>1. PICK k \in Key : k = key'[f]
    BY <1>0 DEF TypeOK, StateTypeOK
  <2>2. PICK i \in Slot : RegLeq(seen[c][k], Copy(c, i, k))
    BY <1>5
  <2>3. Copy(Owner(f), i, key[f])' = Copy(c, i, k) /\ Own(f, key[f])' = seen[c][k]
    BY <1>1, <1>2, <1>3, <2>1 DEF Copy, Owner, Own
  <2>4. \A j \in Slot : ~Closed(f, j)'
    BY <1>6 DEF Fresh
  <2>5. PinnedAt(f, i)'
    BY <2>2, <2>3, <2>4 DEF PinnedAt
  <2>6. /\ step'[f] \in {"Reading", "ReadSeq", "OptimisticChain"}
        /\ step'[f] \in {"ReadSeq", "OptimisticChain"} => success_count'[f] = 0
    BY <1>6 DEF Fresh
  <2> QED
    BY <2>4, <2>5, <2>6 DEF OpSess, SessPinned, SessCopies, SessBack, SessTarget, SessSwaps
<1>7. ASSUME f \in RangeFut PROVE ScanSess(f)'
  <2>1. \A i \in Slot : \A k \in KeysOf(f)' : ~Passed(f, i, k)'
    BY <1>7 DEF Fresh
  <2>2. ASSUME NEW k \in KeysOf(f)' PROVE \E i \in Slot : ScanPinnedAt(f, i, k)'
    <3>1. k \in Key
      <4>1. key'[f] \in Key /\ end_key'[f] \in Key
        BY <1>0, <1>7 DEF TypeOK, StateTypeOK, RangeTypeOK
      <4>2. /\ key'[f] >= 0 /\ end_key'[f] <= NumRegisters - 1 /\ NumRegisters \in Int
            /\ key'[f] \in Int /\ end_key'[f] \in Int
        BY <4>1, RegistersAssumption DEF Key
      <4> QED
        BY <2>2, <4>2 DEF KeysOf, Key
    <3>2. PICK i \in Slot : RegLeq(seen[c][k], Copy(c, i, k))
      BY <1>5, <3>1
    <3>3. Copy(Owner(f), i, k)' = Copy(c, i, k) /\ Own(f, k)' = seen[c][k]
      BY <1>2, <1>3, <3>1 DEF Own
    <3>4. ScanPinnedAt(f, i, k)'
      BY <2>1, <3>2, <3>3 DEF ScanPinnedAt
    <3> QED
      BY <3>4
  <2> QED
    BY <2>1, <2>2 DEF ScanSess
<1> QED
  BY <1>4, <1>6, <1>7, SessStep DEF Sess

LEMMA StartPutSess ==
    ASSUME SessInv, TagInv', Raised, HistUpdate, NEW f \in OpFut, StartPut(f)
    PROVE  SessInv' /\ Others(f)
<1>0. StoreInv /\ TypeOK
  BY StoreTypes DEF SessInv
<1>f. f \in Fut /\ f \notin RangeFut /\ Owner(f) \in Client
  BY FutureKinds, OwnerType
<1>1. PICK k \in PutKeys[Owner(f)], v \in Value : DoPutHit(f, k, v) \/ DoPutMiss(f, k, v)
  BY DEF StartPut
<1>k. k \in Key /\ Writes(Owner(f), k)
  <2>1. PutKeys[Owner(f)] \subseteq Key /\ "put" \in Ops[Owner(f)]
    BY <1>f, PutKeysAssumption DEF StartPut, Issue
  <2> QED
    BY <1>1, <2>1 DEF Writes
<1>2. step[f] = "Done"
  BY DEF StartPut, Issue, FreeFuture
<1>3. \A i \in Slot : Out(f, i) = {} /\ ~Failed(f, i)
  BY <1>0, <1>f, <1>2, DoneOut
<1>t. /\ step \in [Fut -> Step] /\ key \in [Fut -> Key]
      /\ target_reg \in [OpFut -> Register] /\ expected \in [OpFut -> [Slot -> Register]]
      /\ needs_cas \in [OpFut -> [Slot -> BOOLEAN]] /\ cache \in [Client -> [Key -> Register]]
      /\ success_count \in [OpFut -> Nat]
  BY <1>0, AbdTypes
<1>u. UNCHANGED << mem, bufs, max_reg, end_key, bulk_bufs >>
  BY <1>1 DEF StartPut, DoPutHit, DoPutMiss, rangeVars
<1>c. success_count' = [success_count EXCEPT ![f] = 0]
  BY <1>1 DEF DoPutHit, DoPutMiss
<1>d. success_count'[f] = 0 /\ \A g \in Fut \ {f} : Keeps(g)
  BY <1>c, <1>t, <1>u DEF Keeps
<1>z. ASSUME NEW W, Post(f, Slot, W), \A i \in Slot : W[i] \in WorkRequest /\ W[i].fut = f,
             \A i \in Slot : W[i] \in Asked(f, i)',
             OnlyOf(f), step'[f] \in {"ReadSeq", "OptimisticChain"}, key'[f] = k
      PROVE  SessInv' /\ Others(f)
  <2>1. /\ QueuesSingle' /\ \A g \in Fut \ {f} : Still(g)
        /\ \A i \in Slot : Out(f, i)' = {W[i]} /\ ~Failed(f, i)' /\ ~Closed(f, i)'
    BY <1>0, <1>f, <1>3, <1>z, AsksAll
  <2>2. \A i \in Slot : Waits(f, i)'
    BY <1>z, <2>1, AskedWaits
  <2>3. FutureSane(f)'
    BY <1>f, <1>k, <1>z DEF FutureSane, Putting, Owner
  <2>4. Fresh(f)
    BY <1>d, <1>f, <1>z, <2>1 DEF Fresh
  <2> QED
    BY <1>2, <1>d, <1>f, <1>u, <1>z, <2>1, <2>2, <2>3, <2>4, StartSess DEF Others
<1>4. CASE DoPutHit(f, k, v)
  <2> DEFINE cached == cache[Owner(f)][k]
             tgt == MkRegister(NextSeq(cached.seq), Owner(f), v)
             W == [i \in Slot |-> CasWR(f, k, cached, tgt)]
  <2>1. /\ step' = [step EXCEPT ![f] = "OptimisticChain"] /\ key' = [key EXCEPT ![f] = k]
        /\ expected' = [expected EXCEPT ![f] = [i \in Slot |-> cached]]
        /\ target_reg' = [target_reg EXCEPT ![f] = tgt]
        /\ needs_cas' = [needs_cas EXCEPT ![f] = [i \in Slot |-> TRUE]]
        /\ Post(f, Slot, W)
    BY <1>4 DEF DoPutHit
  <2>2. cached \in Register /\ tgt \in Register
    <3>1. cached \in Register
      BY <1>f, <1>k, <1>t
    <3>2. cached.seq \in Seq16
      BY <3>1 DEF Register
    <3> QED
      BY <1>f, <3>1, <3>2, NextSeqType, MkRegisterType
  <2> HIDE DEF cached, tgt
  <2>3. \A i \in Slot : W[i] = CasWR(f, k, cached, tgt)
    OBVIOUS
  <2>4. CasWR(f, k, cached, tgt) \in WorkRequest /\ CasWR(f, k, cached, tgt).fut = f
    BY <1>k, <2>2, WorkRequestTypes DEF CasWR
  <2> HIDE DEF W
  <2>5. /\ step'[f] = "OptimisticChain" /\ key'[f] = k /\ target_reg'[f] = tgt
        /\ \A i \in Slot : expected'[f][i] = cached
    BY <1>f, <1>t, <2>1
  <2>6. OnlyOf(f)
    BY <1>t, <1>u, <2>1, FutureKinds DEF OnlyOf
  <2>7. \A i \in Slot : W[i] \in Asked(f, i)'
    BY <1>f, <2>3, <2>5 DEF Asked
  <2>9. \A i \in Slot : W[i] \in WorkRequest /\ W[i].fut = f
    BY <2>3, <2>4
  <2> QED
    BY <1>z, <2>1, <2>5, <2>6, <2>7, <2>9
<1>5. CASE DoPutMiss(f, k, v)
  <2> DEFINE W == [i \in Slot |-> ReadWR(f, k)]
  <2>1. /\ step' = [step EXCEPT ![f] = "ReadSeq"] /\ key' = [key EXCEPT ![f] = k]
        /\ expected' = expected /\ target_reg' = target_reg
        /\ needs_cas' = [needs_cas EXCEPT ![f] = [i \in Slot |-> FALSE]]
        /\ Post(f, Slot, W)
    BY <1>5 DEF DoPutMiss
  <2>3. \A i \in Slot : W[i] = ReadWR(f, k)
    OBVIOUS
  <2>4. ReadWR(f, k) \in WorkRequest /\ ReadWR(f, k).fut = f
    BY <1>k, WorkRequestTypes DEF ReadWR
  <2> HIDE DEF W
  <2>5. step'[f] = "ReadSeq" /\ key'[f] = k
    BY <1>f, <1>t, <2>1
  <2>6. OnlyOf(f)
    BY <1>t, <1>u, <2>1, FutureKinds DEF OnlyOf
  <2>7. \A i \in Slot : W[i] \in Asked(f, i)'
    BY <1>f, <2>3, <2>5 DEF Asked
  <2>9. \A i \in Slot : W[i] \in WorkRequest /\ W[i].fut = f
    BY <2>3, <2>4
  <2> QED
    BY <1>z, <2>1, <2>5, <2>6, <2>7, <2>9
<1> QED
  BY <1>1, <1>4, <1>5

LEMMA StartGetSess ==
    ASSUME SessInv, TagInv', Raised, HistUpdate, NEW f \in OpFut, StartGet(f)
    PROVE  SessInv' /\ Others(f) /\ Fresh(f)
<1>0. StoreInv /\ TypeOK
  BY StoreTypes DEF SessInv
<1>f. f \in Fut /\ f \notin RangeFut
  BY FutureKinds
<1>1. PICK k \in Key : DoGet(f, k)
  BY DEF StartGet
<1>2. step[f] = "Done"
  BY DEF StartGet, Issue, FreeFuture
<1>3. \A i \in Slot : Out(f, i) = {} /\ ~Failed(f, i)
  BY <1>0, <1>f, <1>2, DoneOut
<1>t. step \in [Fut -> Step] /\ key \in [Fut -> Key] /\ max_reg \in [OpFut -> Register]
  BY <1>0, AbdTypes
<1> DEFINE W == [i \in Slot |-> ReadWR(f, k)]
<1>4. /\ step' = [step EXCEPT ![f] = "Reading"] /\ key' = [key EXCEPT ![f] = k]
      /\ Post(f, Slot, W)
      /\ max_reg' = [max_reg EXCEPT ![f] = ZeroRegister]
      /\ UNCHANGED << mem, bufs, expected, target_reg, needs_cas, success_count,
                      end_key, bulk_bufs >>
  BY <1>1 DEF StartGet, DoGet, putVars, rangeVars
<1>5. \A i \in Slot : W[i] = ReadWR(f, k)
  OBVIOUS
<1>6. ReadWR(f, k) \in WorkRequest /\ ReadWR(f, k).fut = f
  BY WorkRequestTypes DEF ReadWR
<1> HIDE DEF W
<1>7. step'[f] = "Reading" /\ key'[f] = k
  BY <1>f, <1>t, <1>4
<1>8. OnlyOf(f) /\ \A g \in Fut \ {f} : Keeps(g)
  BY <1>t, <1>4 DEF OnlyOf, Keeps
<1>9. \A i \in Slot : W[i] \in WorkRequest /\ W[i].fut = f
  BY <1>5, <1>6
<1>10. /\ QueuesSingle' /\ \A g \in Fut \ {f} : Still(g)
       /\ \A i \in Slot : Out(f, i)' = {W[i]} /\ ~Failed(f, i)' /\ ~Closed(f, i)'
  BY <1>0, <1>f, <1>3, <1>4, <1>8, <1>9, AsksAll
<1>11. \A i \in Slot : W[i] \in Asked(f, i)'
  BY <1>f, <1>5, <1>7 DEF Asked
<1>12. \A i \in Slot : Waits(f, i)'
  BY <1>10, <1>11, AskedWaits
<1>13. FutureSane(f)' /\ Fresh(f)
  BY <1>f, <1>7, <1>10 DEF FutureSane, Fresh, Putting
<1> QED
  BY <1>2, <1>4, <1>f, <1>7, <1>8, <1>10, <1>12, <1>13, StartSess DEF Others

LEMMA StartRangeSess ==
    ASSUME SessInv, TagInv', Raised, HistUpdate, NEW f \in RangeFut, StartRange(f)
    PROVE  SessInv' /\ Others(f)
<1>0. StoreInv /\ TypeOK
  BY StoreTypes DEF SessInv
<1>f. f \in Fut /\ f \notin OpFut
  BY FutureKinds
<1>1. PICK sk \in Key, ek \in Key : DoRange(f, sk, ek)
  BY DEF StartRange
<1>2. step[f] = "Done"
  BY DEF StartRange, Issue, FreeFuture
<1>3. \A i \in Slot : Out(f, i) = {} /\ ~Failed(f, i)
  BY <1>0, <1>f, <1>2, DoneOut
<1>t. step \in [Fut -> Step] /\ key \in [Fut -> Key] /\ end_key \in [RangeFut -> Key]
  BY <1>0, AbdTypes
<1> DEFINE W == [i \in Slot |-> BulkWR(f, sk)]
<1>4. /\ step' = [step EXCEPT ![f] = "Reading"] /\ key' = [key EXCEPT ![f] = sk]
      /\ end_key' = [end_key EXCEPT ![f] = ek] /\ sk <= ek
      /\ Post(f, Slot, W)
      /\ UNCHANGED << mem, bufs, expected, target_reg, needs_cas, success_count, max_reg,
                      bulk_bufs >>
  BY <1>1 DEF StartRange, DoRange, putVars
<1>5. \A i \in Slot : W[i] = BulkWR(f, sk)
  OBVIOUS
<1>6. BulkWR(f, sk) \in WorkRequest /\ BulkWR(f, sk).fut = f /\ BulkWR(f, sk).key = sk
  BY WorkRequestTypes DEF BulkWR
<1> HIDE DEF W
<1>7. step'[f] = "Reading" /\ key'[f] = sk /\ end_key'[f] = ek
  BY <1>f, <1>t, <1>4
<1>8. OnlyOf(f) /\ \A g \in Fut \ {f} : Keeps(g)
  BY <1>t, <1>4 DEF OnlyOf, Keeps
<1>9. \A i \in Slot : W[i] \in WorkRequest /\ W[i].fut = f
  BY <1>5, <1>6
<1>10. /\ QueuesSingle' /\ \A g \in Fut \ {f} : Still(g)
       /\ \A i \in Slot : Out(f, i)' = {W[i]} /\ ~Failed(f, i)' /\ ~Closed(f, i)'
  BY <1>0, <1>f, <1>3, <1>4, <1>8, <1>9, AsksAll
<1>k. /\ KeysOf(f)' = sk .. ek /\ sk \in Int /\ ek \in Int /\ sk \in sk .. ek
  BY <1>4, <1>7 DEF KeysOf, Key
<1>11. \A i \in Slot : W[i] \in Asked(f, i)'
  <2>1. \A i \in Slot : Asked(f, i)' = {BulkWR(f, k) : k \in KeysOf(f)'}
    BY <1>f, <1>7 DEF Asked
  <2> QED
    BY <1>5, <1>k, <2>1
<1>12. \A i \in Slot : Waits(f, i)'
  BY <1>10, <1>11, AskedWaits
<1>13. FutureSane(f)'
  BY <1>f, <1>7 DEF FutureSane, Putting
<1>14. Fresh(f)
  <2>1. ASSUME NEW i \in Slot, NEW k \in KeysOf(f)' PROVE ~Passed(f, i, k)'
    <3>1. k \in sk .. ek
      BY <1>k, <2>1
    <3>2. ~(k < sk)
      BY <1>k, <3>1
    <3>3. BulkWR(f, sk) \in Out(f, i)'
      BY <1>5, <1>10
    <3> QED
      BY <1>6, <3>2, <3>3 DEF Passed
  <2> QED
    BY <1>f, <2>1 DEF Fresh
<1> QED
  BY <1>2, <1>4, <1>f, <1>7, <1>8, <1>10, <1>12, <1>13, <1>14, StartSess DEF Others

\* A get and a scan answer with something that covers what the client had seen,
\* and that one of the client's replicas covers.
LEMMA GetAnswers ==
    ASSUME SessInv, NEW f \in OpFut, StepGet(f)
    PROVE  /\ max_reg'[f] \in Register
           /\ RegLeq(Own(f, key[f]), max_reg'[f]) /\ Held(Owner(f), key[f], max_reg'[f])
<1>0. StoreInv /\ SessTypes /\ TypeOK /\ OpSess(f)
  BY StoreTypes, FutureKinds DEF SessInv, Sess
<1>f. f \in Fut /\ Owner(f) \in Client /\ key[f] \in Key
  BY <1>0, FutureKinds, OwnerType, AbdTypes
<1>t. /\ bufs \in [OpFut -> [Slot -> Register]] /\ max_reg \in [OpFut -> Register]
      /\ mem \in [Server -> [Key -> Register]]
  BY <1>0, AbdTypes
<1>o. Own(f, key[f]) \in Register
  BY <1>0, <1>f DEF Own, SessTypes
<1>1. CASE GetStepWritingBack(f)
  <2>1. step[f] = "WritingBack" /\ max_reg' = max_reg
    BY <1>1 DEF GetStepWritingBack
  <2> QED
    BY <1>0, <1>t, <2>1 DEF OpSess, SessBack
<1>2. CASE GetStepReading(f)
  <2>1. PICK m \in {bufs[f][i] : i \in Slot} \cup {ZeroRegister} :
           /\ Quiet(f) /\ step[f] = "Reading" /\ IsRunningMax(f, m)
           /\ max_reg' = [max_reg EXCEPT ![f] = m]
    BY <1>2 DEF GetStepReading
  <2>2. m \in Register /\ max_reg'[f] = m
    BY <1>t, <2>1, ZeroRegisterType
  <2>3. \A i \in Slot : RegLeq(bufs[f][i], m)
    BY <2>1 DEF IsRunningMax, RegLeq
  <2>4. \A i \in Slot : Closed(f, i) /\ bufs[f][i] \in Register
    BY <1>0, <1>f, <1>t, <2>1, QuietClosed
  <2>5. RegLeq(Own(f, key[f]), m)
    <3>1. PICK i \in Slot : PinnedAt(f, i)
      BY <1>0, <2>1 DEF OpSess, SessPinned
    <3>2. RegLeq(Own(f, key[f]), bufs[f][i])
      BY <2>4, <3>1 DEF PinnedAt
    <3> QED
      BY <1>o, <2>2, <2>3, <2>4, <3>2, TagOrder
  <2>6. Held(Owner(f), key[f], m)
    <3>1. CASE m = ZeroRegister
      <4>1. 1 \in Slot
        BY SlotFacts
      <4>2. quorum_indices(Owner(f), 1) \in Server
        BY <1>f, <4>1, ReplicaType
      <4>3. Copy(Owner(f), 1, key[f]) \in Register
        BY <1>f, <1>t, <4>2 DEF Copy
      <4> QED
        BY <3>1, <4>1, <4>3, TagOrder DEF Held
    <3>2. CASE \E i \in Slot : m = bufs[f][i]
      BY <1>0, <2>1, <2>4, <3>2 DEF OpSess, SessCopies, Held
    <3> QED
      BY <2>1, <3>1, <3>2
  <2> QED
    BY <2>2, <2>5, <2>6
<1> QED
  BY <1>1, <1>2 DEF StepGet

LEMMA ScanAnswers ==
    ASSUME SessInv, NEW f \in RangeFut, StepRange(f), NEW k \in KeysOf(f)
    PROVE  RegLeq(Own(f, k), results'[f][k]) /\ Held(Owner(f), k, results'[f][k])
<1>0. StoreInv /\ SessTypes /\ TypeOK /\ ScanSess(f)
  BY StoreTypes, FutureKinds DEF SessInv, Sess
<1>f. f \in Fut /\ Owner(f) \in Client /\ k \in Key
  BY <1>0, FutureKinds, OwnerType, KeysInRange
<1>t. /\ bulk_bufs \in [RangeFut -> [Slot -> [Key -> Register]]]
      /\ results \in [RangeFut -> [Key -> Register]]
  BY <1>0, AbdTypes
<1>o. Own(f, k) \in Register
  BY <1>0, <1>f DEF Own, SessTypes
<1>1. PICK acc : RangeFinish(f, acc)
  BY DEF StepRange, RangeStepReading
<1>2. /\ Quiet(f) /\ step[f] = "Reading" /\ IsMerged(f, k, acc[k])
      /\ results' = [results EXCEPT ![f] =
            [j \in Key |-> IF j \in KeysOf(f) THEN acc[j] ELSE ZeroRegister]]
  BY <1>1 DEF RangeFinish
<1>3. PICK m : m = acc[k]
  OBVIOUS
<1>4. results'[f][k] = m
  BY <1>2, <1>3, <1>f, <1>t
<1>5. PICK j \in Slot : m = bulk_bufs[f][j][k] /\ \A i \in Slot : RegLeq(bulk_bufs[f][i][k], m)
  BY <1>2, <1>3 DEF IsMerged, RegLeq
<1>6. \A i \in Slot : Passed(f, i, k) /\ bulk_bufs[f][i][k] \in Register
  BY <1>0, <1>2, <1>f, <1>t, QuietClosed DEF Closed, Passed
<1>7. PICK i \in Slot : ScanPinnedAt(f, i, k)
  BY <1>0, <1>2 DEF ScanSess
<1>8. RegLeq(Own(f, k), bulk_bufs[f][i][k])
  BY <1>6, <1>7 DEF ScanPinnedAt
<1>9. RegLeq(Own(f, k), m)
  BY <1>o, <1>5, <1>6, <1>8, TagOrder
<1>10. Held(Owner(f), k, m)
  BY <1>0, <1>2, <1>5, <1>6 DEF ScanSess, Held
<1> QED
  BY <1>4, <1>9, <1>10

\* A get or a scan is over.
LEMMA ReadDoneSess ==
    ASSUME SessInv, TagInv', Raised, HistUpdate, NEW f \in Fut, Quiet(f), PostNothing,
           OnlyOf(f), step'[f] = "Done", \A g \in Fut \ {f} : Keeps(g), EndsHeld(f)
    PROVE  SessInv' /\ Others(f)
<1>1. /\ QueuesSingle' /\ (\A g \in Fut \ {f} : Still(g))
      /\ (\A i \in Slot : Waits(f, i)') /\ FutureSane(f)'
  BY AsksNothing DEF SessInv
<1>2. Sess(f)'
  BY DEF Sess, OpSess, SessPinned, SessCopies, SessBack, SessTarget, SessSwaps, ScanSess
<1> QED
  BY <1>1, <1>2, SessStep DEF Others

LEMMA StepGetSess ==
    ASSUME SessInv, TagInv', Raised, HistUpdate, NEW f \in OpFut, StepGet(f)
    PROVE  /\ SessInv' /\ Others(f)
           /\ step'[f] = "WritingBack" =>
                \A i \in Slot : \A w \in Out(f, i)' : w.target = max_reg'[f]
<1>0. StoreInv /\ TypeOK /\ OpSess(f)
  BY StoreTypes, FutureKinds DEF SessInv, Sess
<1>f. f \in Fut /\ f \notin RangeFut /\ key[f] \in Key
  BY <1>0, FutureKinds, AbdTypes
<1>t. /\ step \in [Fut -> Step] /\ bufs \in [OpFut -> [Slot -> Register]]
      /\ max_reg \in [OpFut -> Register]
  BY <1>0, AbdTypes
<1>u. /\ UNCHANGED << mem, key, bufs, expected, target_reg, needs_cas, success_count,
                      end_key, bulk_bufs >>
      /\ Quiet(f)
  BY DEF StepGet, GetStepReading, GetStepWritingBack, putVars, rangeVars
<1>a. /\ max_reg'[f] \in Register
      /\ RegLeq(Own(f, key[f]), max_reg'[f]) /\ Held(Owner(f), key[f], max_reg'[f])
  BY GetAnswers
<1>e. step[f] \in {"Reading", "WritingBack"} /\ EndsHeld(f)
  <2>1. step[f] \in {"Reading", "WritingBack"}
    BY DEF StepGet, GetStepReading, GetStepWritingBack
  <2> QED
    BY <1>a, <2>1 DEF EndsHeld, PutEnds, ReadEnds, KeysRead, Answer
<1>k. \A g \in Fut \ {f} : Keeps(g)
  <2>1. max_reg' = max_reg \/ \E m : max_reg' = [max_reg EXCEPT ![f] = m]
    BY DEF StepGet, GetStepReading, GetStepWritingBack
  <2> QED
    BY <1>t, <1>u, <2>1 DEF Keeps
<1>1. CASE PostNothing /\ step' = [step EXCEPT ![f] = "Done"]
  <2>1. step'[f] = "Done" /\ OnlyOf(f)
    BY <1>1, <1>f, <1>t, <1>u DEF OnlyOf
  <2> QED
    BY <1>1, <1>e, <1>f, <1>k, <1>u, <2>1, ReadDoneSess
<1>2. CASE step'[f] = "WritingBack"
  <2>1. PICK m \in {bufs[f][i] : i \in Slot} \cup {ZeroRegister} :
          /\ step[f] = "Reading" /\ RegWriteback
          /\ step' = [step EXCEPT ![f] = "WritingBack"]
          /\ max_reg' = [max_reg EXCEPT ![f] = m]
          /\ Post(f, {i \in Slot : bufs[f][i] # m},
                  [i \in Slot |-> CasWR(f, key[f], bufs[f][i], m)])
    BY <1>2, <1>f, <1>t DEF StepGet, GetStepReading, GetStepWritingBack
  <2>2. PICK S, W : /\ S = {i \in Slot : bufs[f][i] # m}
                    /\ W = [i \in Slot |-> CasWR(f, key[f], bufs[f][i], m)]
    OBVIOUS
  <2>3. Post(f, S, W) /\ S \subseteq Slot /\ \A i \in S : W[i] = CasWR(f, key[f], bufs[f][i], m)
    BY <2>1, <2>2
  <2>4. ASSUME NEW i \in S
        PROVE  W[i] \in WorkRequest /\ W[i].fut = f /\ W[i].op = "cas" /\ W[i].key = key[f]
    <3>1. bufs[f][i] \in Register /\ m \in Register
      BY <1>t, <2>1, <2>3, ZeroRegisterType
    <3>2. CasWR(f, key[f], bufs[f][i], m) \in WorkRequest
      BY <1>f, <3>1, WorkRequestTypes
    <3> QED
      BY <2>3, <3>2 DEF CasWR
  <2>5. Waitless(f) /\ Requests(f, S, W)
    BY <1>0, <1>f, <1>u, <2>3, <2>4, QuietClosed DEF Waitless, Requests, Closed
  <2>6. OnlyOf(f)
    BY <1>t, <1>u, <2>1 DEF OnlyOf
  <2>7. /\ QueuesSingle' /\ \A g \in Fut \ {f} : Still(g)
        /\ \A i \in Slot : ~Failed(f, i)'
        /\ \A i \in S : Out(f, i)' = {W[i]}
        /\ \A i \in Slot \ S : Out(f, i)' = {}
    BY <1>0, <1>f, <2>3, <2>5, <2>6, AsksSome
  <2>8. \A i \in Slot : Waits(f, i)'
    <3>1. \A i \in Slot : Asked(f, i)' =
             {w \in WorkRequest : w.fut = f /\ w.op = "cas" /\ w.key = key[f]}
      BY <1>2, <1>u DEF Asked
    <3>2. \A i \in S : W[i] \in Asked(f, i)'
      BY <2>3, <2>4, <3>1
    <3> QED
      BY <2>7, <3>2 DEF Waits
  <2>9. FutureSane(f)'
    BY <1>2, <1>f, <2>1 DEF FutureSane, Putting
  <2>10. Sess(f)'
    <3>1. floor'[f] = floor[f]
      BY <1>2, <1>f, <2>1, OwnKept
    <3>2. PICK m2 \in Register : m2 = max_reg'[f]
      BY <1>a
    <3>3. RegLeq(Own(f, key[f]), m2)' /\ Held(Owner(f), key[f], m2)'
      BY <1>a, <1>u, <3>1, <3>2 DEF Own, Held, Copy, Owner
    <3>4. SessBack(f)'
      BY <3>2, <3>3 DEF SessBack
    <3> QED
      BY <1>2, <1>f, <3>4 DEF Sess, OpSess, SessPinned, SessCopies, SessTarget, SessSwaps
  <2>11. \A i \in Slot : \A w \in Out(f, i)' : w.target = max_reg'[f]
    <3>1. ASSUME NEW i \in S PROVE W[i].target = m
      <4>1. CasWR(f, key[f], bufs[f][i], m).target = m
        BY DEF CasWR
      <4>2. W[i] = CasWR(f, key[f], bufs[f][i], m)
        BY <2>3
      <4> QED
        BY <4>1, <4>2
    <3>2. max_reg'[f] = m
      BY <1>t, <2>1
    <3> QED
      BY <2>7, <3>1, <3>2
  <2> QED
    BY <1>e, <1>f, <1>k, <2>7, <2>8, <2>9, <2>10, <2>11, SessStep DEF Others
<1>3. \/ PostNothing /\ step' = [step EXCEPT ![f] = "Done"]
      \/ step' = [step EXCEPT ![f] = "WritingBack"]
  BY DEF StepGet, GetStepReading, GetStepWritingBack
<1> QED
  BY <1>1, <1>2, <1>3, <1>f, <1>t

LEMMA StepRangeSess ==
    ASSUME SessInv, TagInv', Raised, HistUpdate, NEW f \in RangeFut, StepRange(f)
    PROVE  SessInv' /\ Others(f)
<1>0. StoreInv /\ TypeOK
  BY StoreTypes DEF SessInv
<1>f. f \in Fut /\ f \notin OpFut
  BY FutureKinds
<1>t. step \in [Fut -> Step]
  BY <1>0, AbdTypes
<1>1. PICK acc : RangeFinish(f, acc)
  BY DEF StepRange, RangeStepReading
<1>2. /\ Quiet(f) /\ step[f] = "Reading" /\ PostNothing
      /\ step' = [step EXCEPT ![f] = "Done"]
      /\ UNCHANGED << mem, key, bufs, expected, target_reg, needs_cas, success_count, max_reg,
                      end_key, bulk_bufs >>
  BY <1>1 DEF RangeFinish, StepRange, putVars
<1>3. step'[f] = "Done" /\ OnlyOf(f) /\ \A g \in Fut \ {f} : Keeps(g)
  BY <1>f, <1>t, <1>2 DEF OnlyOf, Keeps
<1>4. EndsHeld(f)
  BY <1>2, <1>f, ScanAnswers DEF EndsHeld, PutEnds, ReadEnds, KeysRead, Answer
<1> QED
  BY <1>2, <1>3, <1>4, <1>f, ReadDoneSess

\* The put goes round with a CAS for the slots in S.
CasRound(f, S, W) ==
    /\ S \subseteq Slot /\ Post(f, S, W)
    /\ \A i \in S : W[i] = CasWR(f, key[f], expected'[f][i], target_reg'[f])
    /\ \A i \in Slot \ S : ~needs_cas'[f][i]

LEMMA PutRoundSess ==
    ASSUME SessInv, TagInv', Raised, HistUpdate, NEW f \in OpFut, Putting(f), Quiet(f),
           OnlyOf(f), \A g \in Fut \ {f} : Keeps(g), NEW S, NEW W, CasRound(f, S, W),
           key'[f] = key[f], step'[f] = "CAS",
           Own(f, key[f]).seq < target_reg'[f].seq, success_count'[f] < Quorum
    PROVE  SessInv' /\ Others(f)
<1>0. StoreInv /\ TypeOK /\ TypeOK' /\ FutureSane(f)
  BY StoreTypes, FutureKinds DEF SessInv, TagInv, AccountingInv, StoreInv
<1>f. f \in Fut /\ f \notin RangeFut /\ key[f] \in Key
  BY <1>0, FutureKinds, AbdTypes
<1>s. S \subseteq Slot /\ Post(f, S, W) /\ \A i \in Slot \ S : ~needs_cas'[f][i]
  BY DEF CasRound
<1>1. ASSUME NEW i \in S
      PROVE  W[i] \in WorkRequest /\ W[i].fut = f /\ W[i] \in Asked(f, i)'
  <2>1. expected'[f][i] \in Register /\ target_reg'[f] \in Register
    BY <1>0, <1>s DEF TypeOK, PutTypeOK
  <2>2. W[i] = CasWR(f, key[f], expected'[f][i], target_reg'[f])
    BY DEF CasRound
  <2>3. CasWR(f, key[f], expected'[f][i], target_reg'[f]) \in WorkRequest
    BY <1>f, <2>1, WorkRequestTypes
  <2>4. Asked(f, i)' = {CasWR(f, key[f], expected'[f][i], target_reg'[f])}
    BY DEF Asked
  <2> QED
    BY <2>2, <2>3, <2>4 DEF CasWR
<1>2. Waitless(f) /\ Requests(f, S, W)
  BY <1>0, <1>1, <1>f, <1>s, QuietClosed DEF Waitless, Requests, Closed
<1>3. /\ QueuesSingle' /\ \A g \in Fut \ {f} : Still(g)
      /\ \A i \in Slot : ~Failed(f, i)'
      /\ \A i \in S : Out(f, i)' = {W[i]} /\ ~Closed(f, i)'
      /\ \A i \in Slot \ S : Out(f, i)' = {}
  BY <1>0, <1>2, <1>f, <1>s, AsksSome
<1>4. \A i \in Slot : Waits(f, i)'
  BY <1>1, <1>3 DEF Waits
<1>5. FutureSane(f)' /\ EndsHeld(f)
  BY <1>0, <1>f DEF FutureSane, Putting, Owner, EndsHeld, PutEnds, ReadEnds
<1>6. Own(f, key[f])' = Own(f, key[f])
  <2>1. step[f] # "Done"
    BY DEF Putting
  <2> QED
    BY <1>f, <2>1, OwnKept DEF Own
<1>7. SessTarget(f)'
  BY <1>6 DEF SessTarget
<1>8. SessSwaps(f)'
  BY <1>3, <1>s DEF SessSwaps
<1>9. Sess(f)'
  BY <1>7, <1>8, <1>f DEF Sess, OpSess, SessPinned, SessCopies, SessBack
<1> QED
  BY <1>3, <1>4, <1>5, <1>9, <1>f, SessStep DEF Others

\* A round that f began with nothing won is answered by a slot that covers what
\* its client had seen.
LEMMA PutPinned ==
    ASSUME SessInv, NEW f \in OpFut, Quiet(f), step[f] \in {"ReadSeq", "OptimisticChain"}
    PROVE  \E i \in Slot : Own(f, key[f]).seq <= bufs[f][i].seq
<1>0. StoreInv /\ SessTypes /\ TypeOK /\ OpSess(f)
  BY StoreTypes, FutureKinds DEF SessInv, Sess
<1>f. f \in Fut /\ key[f] \in Key
  BY <1>0, FutureKinds, AbdTypes
<1>1. PICK i \in Slot : PinnedAt(f, i)
  BY <1>0 DEF OpSess, SessPinned
<1>2. RegLeq(Own(f, key[f]), bufs[f][i])
  BY <1>0, <1>1, <1>f, QuietClosed DEF PinnedAt
<1>3. Own(f, key[f]) \in Register /\ bufs[f][i] \in Register
  BY <1>0, <1>f, AbdTypes DEF Own, SessTypes
<1>4. /\ Own(f, key[f]).seq \in Nat /\ bufs[f][i].seq \in Nat
  BY <1>3, LowFacts
<1>5. Own(f, key[f]).seq <= bufs[f][i].seq
  BY <1>2, <1>4 DEF RegLeq, RegLess
<1> QED
  BY <1>5

\* A put that is acknowledged has written, to a replica of its client, a target
\* above what its client had seen.
LEMMA PutAnswers ==
    ASSUME SessInv, NEW f \in OpFut, StepPut(f), step'[f] = "Done"
    PROVE  /\ Own(f, key[f]).seq < target_reg[f].seq
           /\ Held(Owner(f), key[f], target_reg[f])
<1>0. StoreInv /\ SessTypes /\ TypeOK /\ OpSess(f)
  BY StoreTypes, FutureKinds DEF SessInv, Sess
<1>f. f \in Fut /\ key[f] \in Key
  BY <1>0, FutureKinds, AbdTypes
<1>t. /\ step \in [Fut -> Step] /\ success_count \in [OpFut -> Nat]
      /\ bufs \in [OpFut -> [Slot -> Register]] /\ target_reg \in [OpFut -> Register]
  BY <1>0, AbdTypes
<1>o. /\ Own(f, key[f]).seq \in Nat /\ target_reg[f].seq \in Nat
      /\ \A i \in Slot : bufs[f][i].seq \in Nat
  <2>1. Own(f, key[f]) \in Register
    BY <1>0, <1>f DEF Own, SessTypes
  <2> QED
    BY <1>t, <2>1, LowFacts
<1>q. Quorum \in Nat /\ Quorum >= 1 /\ Cardinality(Slot) = Quorum /\ IsFiniteSet(Slot)
  BY SlotFacts, QuorumAssumption, ServersAssumption
<1>w. ASSUME NEW i \in Slot, Quiet(f), Swapped(f, i), step[f] \in {"OptimisticChain", "CAS"},
             step[f] = "CAS" => needs_cas[f][i]
      PROVE  Held(Owner(f), key[f], target_reg[f])
  BY <1>0, <1>f, <1>w, QuietClosed DEF OpSess, SessSwaps, Swapped, Held
<1>1. CASE PutStepReadSeq(f) \/ PutStepOutrun(f)
  BY <1>1, <1>f, <1>t DEF PutStepReadSeq, PutStepOutrun, PutAgain
<1>2. CASE PutStepOptimistic(f)
  <2> DEFINE won == {i \in Slot : Swapped(f, i)}
  <2>1. /\ step[f] = "OptimisticChain" /\ Quiet(f)
        /\ success_count' = [success_count EXCEPT ![f] = @ + Cardinality(won)]
    BY <1>2 DEF PutStepOptimistic
  <2>2. success_count'[f] >= Quorum
    BY <1>2, <1>f, <1>t DEF PutStepOptimistic, PutAgain
  <2>3. won \in SUBSET Slot
    OBVIOUS
  <2>4. Cardinality(won) \in Nat /\ Cardinality(won) <= Quorum
        /\ (Cardinality(won) = Quorum => won = Slot)
    BY <1>q, <2>3, SlotFacts, FS_Subset
  <2> HIDE DEF won
  <2>5. success_count[f] = 0 /\ success_count'[f] = success_count[f] + Cardinality(won)
    BY <1>0, <1>t, <2>1 DEF OpSess, SessTarget
  <2>6. won = Slot
    BY <1>q, <2>2, <2>4, <2>5
  <2>7. \A i \in Slot : Swapped(f, i)
    BY <2>6 DEF won
  <2>8. PICK i \in Slot : Own(f, key[f]).seq <= bufs[f][i].seq
    BY <2>1, PutPinned
  <2>9. bufs[f][i].seq < target_reg[f].seq
    BY <1>0, <2>1, <2>7 DEF StoreInv, TagInv, PutsBelow, PutBelow, Swapped
  <2>10. Own(f, key[f]).seq < target_reg[f].seq
    BY <1>o, <2>8, <2>9
  <2> QED
    BY <1>w, <2>1, <2>7, <2>8, <2>10
<1>3. CASE PutStepCAS(f)
  <2> DEFINE won == {i \in Slot : needs_cas[f][i] /\ Swapped(f, i)}
  <2>1. /\ step[f] = "CAS" /\ Quiet(f)
        /\ success_count' = [success_count EXCEPT ![f] = @ + Cardinality(won)]
    BY <1>3 DEF PutStepCAS
  <2>2. success_count'[f] >= Quorum
    BY <1>3, <1>f, <1>t DEF PutStepCAS, PutAgain
  <2>3. Own(f, key[f]).seq < target_reg[f].seq /\ success_count[f] < Quorum
    BY <1>0, <2>1 DEF OpSess, SessTarget
  <2>4. won # {}
    <3> SUFFICES ASSUME won = {} PROVE FALSE
      OBVIOUS
    <3>1. Cardinality(won) = 0
      BY FS_EmptySet
    <3> HIDE DEF won
    <3>2. success_count'[f] = success_count[f] + Cardinality(won) /\ success_count[f] \in Nat
      BY <1>t, <2>1
    <3> QED
      BY <1>q, <2>2, <2>3, <3>1, <3>2
  <2>5. PICK i \in Slot : needs_cas[f][i] /\ Swapped(f, i)
    BY <2>4
  <2> QED
    BY <1>w, <2>1, <2>3, <2>5
<1> QED
  BY <1>1, <1>2, <1>3 DEF StepPut

\* A put that goes round again has a target above what its client had seen, and
\* asks the slots that it marks.
LEMMA PutRetries ==
    ASSUME SessInv, NEW f \in OpFut, StepPut(f), step'[f] = "CAS"
    PROVE  /\ Own(f, key[f]).seq < target_reg'[f].seq /\ success_count'[f] < Quorum
           /\ \E S, W : CasRound(f, S, W)
           /\ step[f] # "ReadSeq" => target_reg[f].seq <= target_reg'[f].seq
           /\ \/ target_reg'[f] = target_reg[f] /\ step[f] # "ReadSeq"
              \/ \E z : target_reg'[f] = MkRegister(z, Owner(f), value[f])
<1>0. StoreInv /\ SessTypes /\ TypeOK /\ OpSess(f) /\ CopiesLow
  BY StoreTypes, FutureKinds DEF SessInv, Sess, StoreInv, TagInv
<1>f. f \in Fut /\ key[f] \in Key
  BY <1>0, FutureKinds, AbdTypes
<1>t. /\ step \in [Fut -> Step] /\ success_count \in [OpFut -> Nat] /\ value \in [OpFut -> Value]
      /\ bufs \in [OpFut -> [Slot -> Register]] /\ target_reg \in [OpFut -> Register]
      /\ needs_cas \in [OpFut -> [Slot -> BOOLEAN]] /\ expected \in [OpFut -> [Slot -> Register]]
  BY <1>0, AbdTypes
<1>o. /\ Own(f, key[f]).seq \in Nat /\ target_reg[f].seq \in Nat /\ target_reg[f].seq < SeqMod
      /\ \A i \in Slot : bufs[f][i].seq \in Nat /\ bufs[f][i].seq < SeqMod - 1
  <2>1. Own(f, key[f]) \in Register
    BY <1>0, <1>f DEF Own, SessTypes
  <2>2. target_reg[f].seq \in Seq16
    BY <1>t DEF Register
  <2>3. \A i \in Slot : bufs[f][i] \in LowRegister
    BY <1>0 DEF CopiesLow
  <2> QED
    BY <1>t, <2>1, <2>2, <2>3, LowFacts, SeqModAssumption DEF Seq16
<1>z. ASSUME NEW z \in SeqsSeen(f) PROVE z \in Nat /\ z < SeqMod - 1
  BY <1>o, <1>z DEF SeqsSeen
<1>m. SeqMod \in Nat /\ SeqMod > 1
  BY SeqModAssumption
<1>q. Quorum \in Nat /\ Quorum >= 1
  BY QuorumAssumption, ServersAssumption
<1>a. ASSUME NEW tgt, PutAgain(f, tgt)
      PROVE  target_reg'[f] = tgt /\ \E S, W : CasRound(f, S, W)
  <2>1. PICK S, W : /\ S = {i \in Slot : needs_cas'[f][i]}
                    /\ W = [i \in Slot |-> CasWR(f, key[f], expected'[f][i], tgt)]
    OBVIOUS
  <2>2. target_reg'[f] = tgt /\ Post(f, S, W)
    BY <1>a, <1>t, <2>1 DEF PutAgain, PostCas
  <2>3. CasRound(f, S, W)
    BY <2>1, <2>2 DEF CasRound
  <2> QED
    BY <2>2, <2>3
<1>1. CASE PutStepReadSeq(f)
  <2>1. PICK z \in SeqsSeen(f) \cup {0} :
          /\ step[f] = "ReadSeq" /\ Quiet(f) /\ IsMaxSeq(f, Slot, 0, z)
          /\ expected' = [expected EXCEPT ![f] = bufs[f]]
          /\ target_reg' = [target_reg EXCEPT ![f] = MkRegister(NextSeq(z), Owner(f), value[f])]
          /\ PostCas(f, Slot, bufs[f], MkRegister(NextSeq(z), Owner(f), value[f]))
          /\ success_count' = success_count
    BY <1>1 DEF PutStepReadSeq
  <2>2. PICK tgt : tgt = MkRegister(NextSeq(z), Owner(f), value[f])
    OBVIOUS
  <2>3. z \in Nat /\ z < SeqMod - 1
    BY <1>z, <1>m
  <2>4. tgt.seq = z + 1
    BY <1>t, <2>2, <2>3, TargetAbove
  <2>5. target_reg'[f] = tgt /\ expected'[f] = bufs[f]
    BY <1>t, <2>1, <2>2
  <2>6. PICK i \in Slot : Own(f, key[f]).seq <= bufs[f][i].seq
    BY <2>1, PutPinned
  <2>7. bufs[f][i].seq <= z
    BY <2>1 DEF IsMaxSeq
  <2>8. Own(f, key[f]).seq < target_reg'[f].seq
    BY <1>o, <2>3, <2>4, <2>5, <2>6, <2>7
  <2>9. success_count'[f] < Quorum
    BY <1>0, <1>q, <2>1 DEF OpSess, SessTarget
  <2>10. PICK W : W = [j \in Slot |-> CasWR(f, key[f], bufs[f][j], tgt)]
    OBVIOUS
  <2>11. CasRound(f, Slot, W)
    BY <2>1, <2>2, <2>5, <2>10 DEF CasRound, PostCas
  <2> QED
    BY <2>1, <2>2, <2>5, <2>8, <2>9, <2>11
<1>2. CASE PutStepOptimistic(f)
  <2> DEFINE won == {i \in Slot : Swapped(f, i)}
             z0 == (target_reg[f].seq - 1) % SeqMod
  <2>1. PICK z \in SeqsSeen(f) \cup {z0} :
          /\ step[f] = "OptimisticChain" /\ Quiet(f) /\ IsMaxSeq(f, Slot \ won, z0, z)
          /\ success_count' = [success_count EXCEPT ![f] = @ + Cardinality(won)]
          /\ IF success_count'[f] >= Quorum
             THEN PutDone(f)
             ELSE PutAgain(f, MkRegister(NextSeq(z), Owner(f), value[f]))
    BY <1>2 DEF PutStepOptimistic
  <2>2. ~(success_count'[f] >= Quorum)
    BY <1>f, <1>t, <2>1 DEF PutDone
  <2>3. success_count'[f] < Quorum
    <3>1. won \in SUBSET Slot
      OBVIOUS
    <3>2. Cardinality(won) \in Nat
      BY <3>1, SlotFacts
    <3> HIDE DEF won
    <3>3. success_count'[f] = success_count[f] + Cardinality(won) /\ success_count[f] \in Nat
      BY <1>t, <2>1
    <3> QED
      BY <1>q, <2>2, <3>2, <3>3
  <2>4. \A i \in Slot : expected[f][i].seq < target_reg[f].seq
    BY <1>0, <2>1 DEF StoreInv, TagInv, PutsBelow, PutBelow
  <2>5. z0 = target_reg[f].seq - 1 /\ z0 \in Nat /\ z0 < SeqMod - 1
    <3>1. target_reg[f].seq >= 1
      <4>1. 1 \in Slot /\ expected[f][1].seq \in Nat
        BY <1>t, SlotFacts, LowFacts
      <4> QED
        BY <1>o, <2>4, <4>1
    <3> QED
      BY <1>o, <1>m, <3>1
  <2> HIDE DEF z0
  <2>6. z \in Nat /\ z < SeqMod - 1
    BY <1>z, <2>5
  <2>7. PICK tgt : tgt = MkRegister(NextSeq(z), Owner(f), value[f])
    OBVIOUS
  <2>8. tgt.seq = z + 1
    BY <1>t, <2>6, <2>7, TargetAbove
  <2>9. PutAgain(f, tgt)
    BY <2>1, <2>2, <2>7
  <2>10. PICK i \in Slot : Own(f, key[f]).seq <= bufs[f][i].seq
    BY <2>1, PutPinned
  <2>11. bufs[f][i].seq <= z
    <3>1. CASE Swapped(f, i)
      <4>1. bufs[f][i].seq < target_reg[f].seq
        BY <2>4, <3>1 DEF Swapped
      <4>2. z0 <= z
        BY <2>1 DEF IsMaxSeq
      <4> QED
        BY <1>o, <2>5, <2>6, <4>1, <4>2
    <3>2. CASE ~Swapped(f, i)
      BY <2>1, <3>2 DEF IsMaxSeq
    <3> QED
      BY <3>1, <3>2
  <2>12. Own(f, key[f]).seq < tgt.seq
    BY <1>o, <2>6, <2>8, <2>10, <2>11
  <2>13. target_reg[f].seq <= tgt.seq
    <3>1. z0 <= z
      BY <2>1 DEF IsMaxSeq
    <3> QED
      BY <1>o, <2>5, <2>6, <2>8, <3>1
  <2> QED
    BY <1>a, <2>3, <2>7, <2>9, <2>12, <2>13
<1>3. CASE PutStepCAS(f)
  <2> DEFINE won == {i \in Slot : needs_cas[f][i] /\ Swapped(f, i)}
  <2>1. /\ step[f] = "CAS"
        /\ success_count' = [success_count EXCEPT ![f] = @ + Cardinality(won)]
        /\ IF success_count'[f] >= Quorum THEN PutDone(f) ELSE PutAgain(f, target_reg[f])
    BY <1>3 DEF PutStepCAS
  <2>2. ~(success_count'[f] >= Quorum)
    BY <1>f, <1>t, <2>1 DEF PutDone
  <2>3. success_count'[f] < Quorum
    <3>1. won \in SUBSET Slot
      OBVIOUS
    <3>2. Cardinality(won) \in Nat
      BY <3>1, SlotFacts
    <3> HIDE DEF won
    <3>3. success_count'[f] = success_count[f] + Cardinality(won) /\ success_count[f] \in Nat
      BY <1>t, <2>1
    <3> QED
      BY <1>q, <2>2, <3>2, <3>3
  <2>4. PutAgain(f, target_reg[f]) /\ Own(f, key[f]).seq < target_reg[f].seq
    BY <1>0, <2>1, <2>2 DEF OpSess, SessTarget
  <2> QED
    BY <1>a, <1>o, <2>1, <2>3, <2>4
<1>4. CASE PutStepOutrun(f)
  <2>1. PICK r \in Slot :
          /\ step[f] = "CAS" /\ Outrun(f, r)
          /\ success_count' = [success_count EXCEPT ![f] = Quorum - r]
          /\ PutAgain(f, MkRegister(NextSeq(bufs[f][r].seq), Owner(f), value[f]))
    BY <1>4 DEF PutStepOutrun
  <2>2. PICK tgt : tgt = MkRegister(NextSeq(bufs[f][r].seq), Owner(f), value[f])
    OBVIOUS
  <2>3. tgt.seq = bufs[f][r].seq + 1
    BY <1>o, <1>t, <2>2, TargetAbove
  <2>4. success_count'[f] = Quorum - r /\ r \in Nat /\ r >= 1
    BY <1>t, <2>1, <1>q DEF Slot
  <2>5. Own(f, key[f]).seq < target_reg[f].seq /\ bufs[f][r].seq >= target_reg[f].seq
    BY <1>0, <2>1 DEF OpSess, SessTarget, Outrun
  <2>6. /\ Own(f, key[f]).seq < tgt.seq /\ success_count'[f] < Quorum
        /\ target_reg[f].seq <= tgt.seq
    BY <1>o, <1>q, <2>3, <2>4, <2>5
  <2> QED
    BY <1>a, <2>1, <2>2, <2>6
<1> QED
  BY <1>1, <1>2, <1>3, <1>4 DEF StepPut

LEMMA StepPutSess ==
    ASSUME SessInv, TagInv', Raised, HistUpdate, NEW f \in OpFut, StepPut(f)
    PROVE  SessInv' /\ Others(f)
<1>0. StoreInv /\ TypeOK
  BY StoreTypes DEF SessInv
<1>f. f \in Fut /\ f \notin RangeFut
  BY FutureKinds
<1>t. /\ step \in [Fut -> Step] /\ target_reg \in [OpFut -> Register]
      /\ expected \in [OpFut -> [Slot -> Register]] /\ success_count \in [OpFut -> Nat]
      /\ needs_cas \in [OpFut -> [Slot -> BOOLEAN]]
  BY <1>0, AbdTypes
<1>u. /\ UNCHANGED << mem, key, bufs, max_reg, end_key, bulk_bufs >> /\ Quiet(f) /\ Putting(f)
  BY DEF StepPut, PutStepReadSeq, PutStepOptimistic, PutStepCAS, PutStepOutrun, rangeVars, Putting
<1>1. /\ \E a : step' = [step EXCEPT ![f] = a] /\ a \in {"CAS", "Done"}
      /\ \E a : expected' = [expected EXCEPT ![f] = a]
      /\ \E a : needs_cas' = [needs_cas EXCEPT ![f] = a]
      /\ target_reg' = target_reg \/ \E a : target_reg' = [target_reg EXCEPT ![f] = a]
      /\ success_count' = success_count \/ \E a : success_count' = [success_count EXCEPT ![f] = a]
  <2>1. CASE PutStepReadSeq(f)
    BY <2>1 DEF PutStepReadSeq
  <2>2. CASE PutStepOptimistic(f)
    BY <2>2 DEF PutStepOptimistic, PutDone, PutAgain
  <2>3. CASE PutStepCAS(f)
    BY <2>3 DEF PutStepCAS, PutDone, PutAgain
  <2>4. CASE PutStepOutrun(f)
    BY <2>4 DEF PutStepOutrun, PutAgain
  <2> QED
    BY <2>1, <2>2, <2>3, <2>4 DEF StepPut
<1>2. step'[f] \in {"CAS", "Done"}
  BY <1>1, <1>f, <1>t
<1>3. OnlyOf(f) /\ \A g \in Fut \ {f} : Keeps(g)
  BY <1>1, <1>t, <1>u, FutureKinds DEF OnlyOf, Keeps
<1>4. CASE step'[f] = "CAS"
  <2>1. PICK S, W : CasRound(f, S, W)
    BY <1>4, PutRetries
  <2>2. Own(f, key[f]).seq < target_reg'[f].seq /\ success_count'[f] < Quorum
    BY <1>4, PutRetries
  <2> QED
    BY <1>3, <1>4, <1>u, <2>1, <2>2, PutRoundSess
<1>5. CASE step'[f] = "Done"
  <2>1. PostNothing
    BY <1>5, <1>f, <1>t DEF StepPut, PutStepReadSeq, PutStepOptimistic, PutStepCAS, PutStepOutrun,
                            PutDone, PutAgain
  <2>2. EndsHeld(f)
    BY <1>5, <1>u, PutAnswers DEF EndsHeld, ReadEnds, Putting
  <2> QED
    BY <1>3, <1>5, <1>f, <1>u, <2>1, <2>2, ReadDoneSess
<1> QED
  BY <1>2, <1>4, <1>5

-----------------------------------------------------------------------------
LEMMA NextSessInv ==
    ASSUME SessInv, NoWrap, HistNext
    PROVE  SessInv'
<1>u. Next /\ HistUpdate
  BY DEF HistNext
<1>t. TagInv'
  BY <1>u, NextTagInv DEF SessInv, StoreInv
<1>r. Raised
  BY <1>u, StepRaises DEF SessInv, StoreInv, Raised
<1>1. ASSUME NEW c \in Client, NEW i \in Slot, Nic(c, i) PROVE SessInv'
  BY <1>1, <1>r, <1>t, <1>u, NicReadSess, NicCasSess, NicBulkSess, NicErrorSess DEF Nic
<1>2. ASSUME NEW s \in Server, ServerCrash(s) PROVE SessInv'
  BY <1>2, <1>r, <1>t, <1>u, IdleSess DEF ServerCrash
<1>3. ASSUME NEW c \in Client, TickRdma(c) PROVE SessInv'
  BY <1>3, <1>r, <1>t, <1>u, TickSess
<1>4. ASSUME NEW c \in Client, TickRdmaThrows(c) PROVE SessInv'
  BY <1>4, <1>r, <1>t, <1>u, IdleSess DEF TickRdmaThrows
<1>5. ASSUME NEW f \in Fut, ClientStep(f) PROVE SessInv'
  <2>1. CASE StepBlocked(f)
    BY <2>1, <1>r, <1>t, <1>u, IdleSess DEF StepBlocked, PostNothing
  <2>2. CASE ~StepBlocked(f)
    BY <1>5, <1>r, <1>t, <1>u, <2>2, StepPutSess, StepGetSess, StepRangeSess DEF ClientStep
  <2> QED
    BY <2>1, <2>2
<1>6. ASSUME NEW f \in Fut, Start(f) PROVE SessInv'
  BY <1>6, <1>r, <1>t, <1>u, StartPutSess, StartGetSess, StartRangeSess DEF Start
<1> QED
  BY <1>u, <1>1, <1>2, <1>3, <1>4, <1>5, <1>6 DEF Next

LEMMA InitSessInv == HistInit => SessInv
<1> SUFFICES ASSUME HistInit PROVE SessInv
  OBVIOUS
<1>1. StoreInv
  BY InitAbdInv DEF AbdInv
<1>i. /\ \A f \in Fut : step[f] = "Done"
      /\ \A s \in Server, k \in Key : mem[s][k] = ZeroRegister
      /\ seen = [c \in Client |-> Blank] /\ floor = [f \in Fut |-> NoFloor]
  BY DEF HistInit, Init, StateInit
<1>b. Blank \in [Key -> Register] /\ \A k \in Key : Blank[k] = ZeroRegister
  BY ZeroRegisterType DEF Blank
<1>2. SessTypes
  BY <1>b, <1>i DEF SessTypes, NoFloor
<1>3. SeenHeld
  <2> SUFFICES ASSUME NEW c \in Client, NEW k \in Key PROVE Held(c, k, ZeroRegister)
    BY <1>b, <1>i DEF SeenHeld
  <2>1. 1 \in Slot /\ quorum_indices(c, 1) \in Server
    BY SlotFacts, ReplicaType
  <2> QED
    BY <1>i, <2>1, ZeroRegisterType, TagOrder DEF Held, Copy
<1>4. ASSUME NEW f \in Fut PROVE Sess(f)
  BY <1>i DEF Sess, OpSess, SessPinned, SessCopies, SessBack, SessTarget, SessSwaps, ScanSess
<1> QED
  BY <1>1, <1>2, <1>3, <1>4 DEF SessInv

LEMMA StutterSessInv ==
    ASSUME SessInv, NoWrap, UNCHANGED allVars
    PROVE  SessInv'
<1>u. /\ UNCHANGED << mem, sq, cq, step, key, bufs, expected, needs_cas, success_count >>
      /\ UNCHANGED << target_reg, max_reg, end_key, bulk_bufs, seen, floor, vars >>
  BY DEF allVars, vars, histVars, stateVars, putVars, rangeVars
<1>1. /\ StoreInv'
      /\ \A f, i : Out(f, i)' = Out(f, i) /\ (Failed(f, i)' <=> Failed(f, i))
  BY <1>u, StutterStore DEF SessInv
<1>2. \A f, i : Closed(f, i)' <=> Closed(f, i)
  BY <1>1 DEF Closed
<1>3. SessTypes' /\ SeenHeld'
  BY <1>u DEF SessInv, SessTypes, SeenHeld, Held, Copy
<1>4. \A f : /\ SessPinned(f)' <=> SessPinned(f)
             /\ SessCopies(f)' <=> SessCopies(f)
             /\ SessBack(f)' <=> SessBack(f)
             /\ SessTarget(f)' <=> SessTarget(f)
             /\ SessSwaps(f)' <=> SessSwaps(f)
  <2>1. \A f : SessPinned(f)' <=> SessPinned(f)
    BY <1>u, <1>2 DEF SessPinned, PinnedAt, Own, Copy, Owner
  <2>2. \A f : SessCopies(f)' <=> SessCopies(f)
    BY <1>u, <1>2 DEF SessCopies, Copy, Owner
  <2>3. \A f : (SessBack(f)' <=> SessBack(f)) /\ (SessTarget(f)' <=> SessTarget(f))
    BY <1>u DEF SessBack, SessTarget, Held, Own, Copy, Owner
  <2>4. \A f : SessSwaps(f)' <=> SessSwaps(f)
    BY <1>u, <1>2 DEF SessSwaps, Copy, Owner
  <2> QED
    BY <2>1, <2>2, <2>3, <2>4
<1>5. \A f : ScanSess(f)' <=> ScanSess(f)
  BY <1>u, <1>1 DEF ScanSess, ScanPinnedAt, Passed, KeysOf, Own, Copy, Owner
<1>6. \A f \in Fut : Sess(f)'
  BY <1>4, <1>5 DEF SessInv, Sess, OpSess
<1> QED
  BY <1>1, <1>3, <1>6 DEF SessInv

\* Sessions are ordered, however many clients write a register, through however
\* many futures each, with or without the gets' writeback and whether or not
\* quorums are majorities: no get or scan (tryStepForward) returns a tag below
\* what its client had been returned or had written when it started, and a put
\* is acknowledged with a tag above it.
THEOREM SessionsOrdered == HistSpec /\ []NoWrap => SessionOrder
<1> DEFINE A == \A f \in Fut :
                  /\ ReadEnds(f) =>
                       \A k \in KeysRead(f) : RegLeq(floor[f].own[k], Answer(f, k))
                  /\ PutEnds(f) => RegLess(floor[f].own[key[f]], target_reg[f])
<1>1. SessInv /\ HistNext => A
  <2> SUFFICES ASSUME SessInv, HistNext, NEW f \in Fut
               PROVE  /\ ReadEnds(f) =>
                           \A k \in KeysRead(f) : RegLeq(floor[f].own[k], Answer(f, k))
                      /\ PutEnds(f) => RegLess(floor[f].own[key[f]], target_reg[f])
    OBVIOUS
  <2>0. TypeOK /\ Next /\ (\A g \in Fut : FutureSane(g))
    BY StoreTypes DEF SessInv, StoreInv, HistNext
  <2>1. ASSUME ReadEnds(f), NEW k \in KeysRead(f) PROVE RegLeq(floor[f].own[k], Answer(f, k))
    <3>1. CASE f \in OpFut /\ StepGet(f)
      BY <2>1, <3>1, GetAnswers DEF KeysRead, Answer, Own
    <3>2. CASE f \in RangeFut /\ StepRange(f)
      BY <2>1, <3>2, ScanAnswers, FutureKinds DEF KeysRead, Answer, Own
    <3> QED
      BY <2>0, <2>1, <3>1, <3>2, EndsByStep
  <2>2. ASSUME PutEnds(f) PROVE RegLess(floor[f].own[key[f]], target_reg[f])
    <3>1. step[f] \in {"OptimisticChain", "CAS"} /\ step'[f] = "Done"
      BY <2>2 DEF PutEnds
    <3>2. f \in OpFut /\ (StepPut(f) \/ StepGet(f))
      <4>1. f \notin RangeFut
        BY <2>0, <3>1 DEF FutureSane
      <4> QED
        BY <2>0, <3>1, <4>1, MovesByStep
    <3>3. StepPut(f)
      BY <3>1, <3>2 DEF StepGet, GetStepReading, GetStepWritingBack
    <3>4. Own(f, key[f]).seq < target_reg[f].seq
      BY <3>1, <3>2, <3>3, PutAnswers
    <3> QED
      BY <3>4 DEF RegLess, Own
  <2> QED
    BY <2>1, <2>2
<1>2. SessInv /\ [HistNext]_allVars => [A]_allVars
  BY <1>1
<1>3. SessInv /\ NoWrap /\ [HistNext]_allVars => SessInv'
  BY NextSessInv, StutterSessInv
<1> QED
  BY <1>2, <1>3, InitSessInv, PTL DEF HistSpec, SessionOrder

-----------------------------------------------------------------------------
(***************************************************************************)
(* Tags name values.  A client must not choose a tag it has used before for  *)
(* another value, and what it goes by is its cache, which its own gets and   *)
(* scans refill; so its puts of a register must not overlap these.           *)
(***************************************************************************)

\* A put overlaps no other operation of its client on the same register.
PutsExclusive ==
    \A f \in OpFut, g \in Fut :
        Putting(f) /\ step[g] # "Done" /\ Owner(g) = Owner(f) /\ key[f] \in KeysRead(g) => g = f

\* The put f writes r to register k.
Target(f, k, r) ==
    /\ f \in OpFut /\ step[f] \in {"OptimisticChain", "CAS"}
    /\ key[f] = k /\ target_reg[f] = r

\* r may still become, or is, the content of register k on some server.
Live(k, r) ==
    \/ \E s \in Server : mem[s][k] = r
    \/ \E f \in OpFut : Target(f, k, r)
    \/ \E f \in OpFut, i \in Slot :
         step[f] = "Reading" /\ key[f] = k /\ Closed(f, i) /\ bufs[f][i] = r
    \/ \E f \in OpFut : step[f] = "WritingBack" /\ key[f] = k /\ max_reg[f] = r

\* How far a client's own tags reach: to the target of a put in progress, and
\* with that its value; to what it had seen when it started, for a put that has not
\* chosen yet and a read; and otherwise to what it has seen and has cached.
PutBound(f, k, r) ==
    f \in OpFut /\ Putting(f) /\ key[f] = k /\ r.client_id = Owner(f) =>
        IF step[f] = "ReadSeq" THEN r.seq <= Own(f, k).seq
        ELSE r.seq < target_reg[f].seq \/ (r.seq = target_reg[f].seq /\ r.value = value[f])
ReadBound(f, k, r) ==
    step[f] = "Reading" /\ k \in KeysRead(f) /\ r.client_id = Owner(f) => r.seq <= Own(f, k).seq
IdleBound(k, r) ==
    ~Busy(r.client_id, k) =>
        /\ r.seq <= seen[r.client_id][k].seq
        /\ RegCache /\ k \in valid[r.client_id] => r.seq <= cache[r.client_id][k].seq

LiveBound(k, r) ==
    /\ r.seq = 0 => r = ZeroRegister
    /\ IdleBound(k, r)
    /\ \A f \in Fut : PutBound(f, k, r) /\ ReadBound(f, k, r)
LiveBounded == \A k \in Key, r \in Register : Live(k, r) => LiveBound(k, r)
LiveNamed ==
    \A k \in Key, r, q \in Register :
        Live(k, r) /\ Live(k, q) /\ r.seq = q.seq /\ r.client_id = q.client_id
            => r.value = q.value

\* A put writes its value under its client's name, a get writes back its answer.
WritesOwn(f) ==
    /\ f \in OpFut /\ step[f] \in {"OptimisticChain", "CAS"} =>
         /\ target_reg[f].client_id = Owner(f) /\ target_reg[f].value = value[f]
         /\ target_reg[f].seq > 0
    /\ f \in OpFut /\ step[f] = "WritingBack" =>
         \A i \in Slot : \A w \in Out(f, i) : w.target = max_reg[f]
NamesInv == LiveBounded /\ LiveNamed /\ \A f \in Fut : WritesOwn(f)

-----------------------------------------------------------------------------
\* Nothing becomes live but what already was, and the target of f.
FromLive(f) ==
    \A k \in Key, r \in Register :
        /\ (\E s \in Server : mem'[s][k] = r) => Live(k, r)
        /\ f \in OpFut /\ key'[f] = k =>
             /\ \A i \in Slot : step'[f] = "Reading" /\ Closed(f, i)' /\ bufs'[f][i] = r => Live(k, r)
             /\ step'[f] = "WritingBack" /\ max_reg'[f] = r => Live(k, r)

\* What is live is still bounded.
StaysBounded(f) ==
    \A k \in Key, r \in Register :
        Live(k, r) => IdleBound(k, r)' /\ PutBound(f, k, r)' /\ ReadBound(f, k, r)'

LEMMA LiveStep ==
    ASSUME NEW f \in Fut, Others(f), FromLive(f), NEW k \in Key, NEW r \in Register, Live(k, r)'
    PROVE  Live(k, r) \/ Target(f, k, r)'
<1>1. \A g \in Fut \ {f} : Still(g) /\ Keeps(g)
  BY DEF Others
<1>2. \A g \in OpFut \ {f} : /\ step'[g] = step[g] /\ key'[g] = key[g] /\ bufs'[g] = bufs[g]
                             /\ target_reg'[g] = target_reg[g] /\ max_reg'[g] = max_reg[g]
                             /\ \A i \in Slot : Closed(g, i)' <=> Closed(g, i)
  BY <1>1, StillViews, FutureKinds DEF Still, Keeps
<1>3. CASE \E s \in Server : mem'[s][k] = r
  BY <1>3 DEF FromLive
<1>4. ASSUME NEW g \in OpFut, Target(g, k, r)' PROVE Live(k, r) \/ Target(f, k, r)'
  <2>1. CASE g = f
    BY <1>4, <2>1
  <2>2. CASE g # f
    <3>1. Target(g, k, r)
      BY <1>2, <1>4, <2>2 DEF Target
    <3> QED
      BY <3>1 DEF Live
  <2> QED
    BY <2>1, <2>2
<1>5. ASSUME NEW g \in OpFut, NEW i \in Slot,
             step'[g] = "Reading", key'[g] = k, Closed(g, i)', bufs'[g][i] = r
      PROVE  Live(k, r)
  <2>1. CASE g = f
    BY <1>5, <2>1 DEF FromLive
  <2>2. CASE g # f
    BY <1>2, <1>5, <2>2 DEF Live
  <2> QED
    BY <2>1, <2>2
<1>6. ASSUME NEW g \in OpFut, step'[g] = "WritingBack", key'[g] = k, max_reg'[g] = r
      PROVE  Live(k, r)
  <2>1. CASE g = f
    BY <1>6, <2>1 DEF FromLive
  <2>2. CASE g # f
    BY <1>2, <1>6, <2>2 DEF Live
  <2> QED
    BY <2>1, <2>2
<1> QED
  BY <1>3, <1>4, <1>5, <1>6 DEF Live

\* What a step of f has to show for the names.
LEMMA NamesStep ==
    ASSUME NamesInv, HistUpdate, PutsExclusive', TypeOK', NEW f \in Fut, Others(f),
           \A g \in OpFut \ {f} : value'[g] = value[g],
           FromLive(f), StaysBounded(f), WritesOwn(f)'
    PROVE  NamesInv'
<1>1. ASSUME NEW g \in Fut \ {f}
      PROVE  /\ step'[g] = step[g] /\ key'[g] = key[g] /\ KeysRead(g)' = KeysRead(g)
             /\ g \in OpFut => /\ target_reg'[g] = target_reg[g] /\ value'[g] = value[g]
                               /\ max_reg'[g] = max_reg[g]
             /\ \A i \in Slot : Out(g, i)' = Out(g, i)
             /\ step[g] # "Done" => floor'[g] = floor[g]
  <2>1. Still(g) /\ Keeps(g)
    BY DEF Others
  <2>2. /\ step'[g] = step[g] /\ key'[g] = key[g]
        /\ g \in OpFut => target_reg'[g] = target_reg[g] /\ max_reg'[g] = max_reg[g]
        /\ g \in RangeFut => end_key'[g] = end_key[g]
    BY <2>1 DEF Still, Keeps
  <2>3. KeysRead(g)' = KeysRead(g)
    BY <2>2, FutureKinds DEF KeysRead, KeysOf
  <2> QED
    BY <2>1, <2>2, <2>3, OwnKept, StillViews
<1>2. ASSUME NEW g \in Fut \ {f} PROVE WritesOwn(g)'
  <2>1. WritesOwn(g)
    BY DEF NamesInv
  <2> QED
    BY <1>1, <2>1 DEF WritesOwn, Owner
<1>3. ASSUME NEW g \in Fut \ {f}, NEW k \in Key, NEW r \in Register
      PROVE  /\ PutBound(g, k, r) => PutBound(g, k, r)'
             /\ ReadBound(g, k, r) => ReadBound(g, k, r)'
  <2>1. step[g] # "Done" => Own(g, k)' = Own(g, k)
    BY <1>1 DEF Own
  <2>2. Putting(g)' <=> Putting(g)
    BY <1>1 DEF Putting
  <2>3. Putting(g) => step[g] # "Done"
    BY DEF Putting
  <2> QED
    BY <1>1, <2>1, <2>2, <2>3 DEF PutBound, ReadBound, Owner
<1>4. ASSUME NEW k \in Key, NEW r \in Register, Live(k, r) PROVE LiveBound(k, r)'
  <2>1. LiveBound(k, r)
    BY <1>4 DEF NamesInv, LiveBounded
  <2>2. IdleBound(k, r)' /\ PutBound(f, k, r)' /\ ReadBound(f, k, r)'
    BY <1>4 DEF StaysBounded
  <2>3. \A g \in Fut : PutBound(g, k, r)' /\ ReadBound(g, k, r)'
    BY <1>3, <2>1, <2>2 DEF LiveBound
  <2> QED
    BY <2>1, <2>2, <2>3 DEF LiveBound
<1>5. ASSUME NEW k \in Key, NEW r \in Register, Target(f, k, r)' PROVE LiveBound(k, r)'
  <2>1. /\ f \in OpFut /\ step'[f] \in {"OptimisticChain", "CAS"} /\ key'[f] = k
        /\ target_reg'[f] = r
    BY <1>5 DEF Target
  <2>2. r.client_id = Owner(f) /\ r.value = value'[f] /\ r.seq > 0
    BY <2>1 DEF WritesOwn, Owner
  <2>3. Busy(r.client_id, k)'
    BY <2>1, <2>2 DEF Busy, Putting, Owner
  <2>4. IdleBound(k, r)'
    BY <2>3 DEF IdleBound
  <2>5. ASSUME NEW g \in Fut, step'[g] # "Done", Owner(g) = Owner(f), k \in KeysRead(g)' PROVE g = f
    BY <2>1, <2>5 DEF PutsExclusive, Putting, Owner
  <2>6. ASSUME NEW g \in Fut PROVE PutBound(g, k, r)'
    <3> SUFFICES ASSUME g \in OpFut, Putting(g)', key'[g] = k, r.client_id = Owner(g)
                 PROVE  IF step'[g] = "ReadSeq" THEN r.seq <= Own(g, k)'.seq
                        ELSE \/ r.seq < target_reg'[g].seq
                             \/ r.seq = target_reg'[g].seq /\ r.value = value'[g]
      BY DEF PutBound, Owner
    <3>1. g = f
      BY <2>2, <2>5 DEF Putting, KeysRead
    <3> QED
      BY <2>1, <2>2, <3>1
  <2>7. ASSUME NEW g \in Fut PROVE ReadBound(g, k, r)'
    <3> SUFFICES ASSUME step'[g] = "Reading", k \in KeysRead(g)', r.client_id = Owner(g)
                 PROVE  FALSE
      BY DEF ReadBound, Owner
    <3>1. g = f
      BY <2>2, <2>5
    <3> QED
      BY <2>1, <3>1
  <2>8. r.seq # 0
    <3>1. r.seq \in Nat
      BY LowFacts
    <3> QED
      BY <2>2, <3>1
  <2> QED
    BY <2>4, <2>6, <2>7, <2>8 DEF LiveBound
<1>6. ASSUME NEW k \in Key, NEW r \in Register, Live(k, r)' PROVE Live(k, r) \/ Target(f, k, r)'
  BY <1>6, LiveStep
<1>7. LiveBounded'
  <2> SUFFICES ASSUME NEW k \in Key, NEW r \in Register, Live(k, r)' PROVE LiveBound(k, r)'
    BY DEF LiveBounded
  <2> QED
    BY <1>4, <1>5, <1>6
<1>8. ASSUME NEW k \in Key, NEW r \in Register, NEW q \in Register, Target(f, k, r)', Live(k, q),
             r.seq = q.seq, r.client_id = q.client_id
      PROVE  r.value = q.value
  <2>1. /\ f \in OpFut /\ step'[f] \in {"OptimisticChain", "CAS"} /\ key'[f] = k
        /\ target_reg'[f] = r
    BY <1>8 DEF Target
  <2>2. r.client_id = Owner(f) /\ r.value = value'[f]
    BY <2>1 DEF WritesOwn, Owner
  <2>3. PutBound(f, k, q)'
    BY <1>8 DEF StaysBounded
  <2>4. \/ q.seq < target_reg'[f].seq
        \/ q.seq = target_reg'[f].seq /\ q.value = value'[f]
    BY <1>8, <2>1, <2>2, <2>3 DEF PutBound, Putting, Owner
  <2>5. q.seq \in Nat
    BY LowFacts
  <2> QED
    BY <1>8, <2>1, <2>2, <2>4, <2>5
<1>9. LiveNamed'
  <2> SUFFICES ASSUME NEW k \in Key, NEW r \in Register, NEW q \in Register,
                      Live(k, r)', Live(k, q)', r.seq = q.seq, r.client_id = q.client_id
               PROVE  r.value = q.value
    BY DEF LiveNamed
  <2>1. CASE Live(k, r) /\ Live(k, q)
    BY <2>1 DEF NamesInv, LiveNamed
  <2>2. CASE Target(f, k, r)' /\ Target(f, k, q)'
    BY <2>2 DEF Target
  <2>3. CASE Target(f, k, r)' /\ Live(k, q)
    BY <1>8, <2>3
  <2>4. CASE Live(k, r) /\ Target(f, k, q)'
    BY <1>8, <2>4
  <2> QED
    BY <1>6, <2>1, <2>2, <2>3, <2>4
<1> QED
  BY <1>2, <1>7, <1>9 DEF NamesInv

\* A put that runs on keeps its register busy.
LEMMA BusyKept ==
    ASSUME NEW f \in Fut, Others(f), Putting(f) => Putting(f)' /\ key'[f] = key[f],
           NEW c, NEW k, Busy(c, k)
    PROVE  Busy(c, k)'
<1>1. PICK g \in OpFut : Owner(g) = c /\ Putting(g) /\ key[g] = k
  BY DEF Busy
<1>2. Putting(g)' /\ key'[g] = key[g]
  <2>1. CASE g = f
    BY <1>1, <2>1
  <2>2. CASE g # f
    <3>1. Still(g)
      BY <2>2, FutureKinds DEF Others
    <3> QED
      BY <1>1, <3>1 DEF Still, Putting
  <2> QED
    BY <2>1, <2>2
<1> QED
  BY <1>1, <1>2 DEF Busy, Owner

LEMMA IdleKept ==
    ASSUME SessInv, TypeOK', HistUpdate, NEW f \in Fut, Others(f),
           NEW k \in Key, NEW r \in Register, IdleBound(k, r),
           Busy(r.client_id, k) => Busy(r.client_id, k)',
           ~Busy(r.client_id, k)' /\ RegCache /\ k \in valid'[r.client_id] =>
               r.seq <= cache'[r.client_id][k].seq
    PROVE  IdleBound(k, r)'
<1>1. PICK c \in Client : c = r.client_id
  BY DEF Register
<1>2. TypeOK /\ SessTypes /\ \A g \in Fut \ {f} : step'[g] = step[g]
  BY StoreTypes DEF SessInv, Others, Still
<1>3. seen'[c][k] \in Register /\ RegLeq(seen[c][k], seen'[c][k])
  BY <1>2, SeenStep
<1>4. seen[c][k] \in Register
  BY <1>2 DEF SessTypes
<1>5. r.seq \in Nat /\ seen[c][k].seq \in Nat /\ seen'[c][k].seq \in Nat
  BY <1>3, <1>4, LowFacts
<1>6. seen[c][k].seq <= seen'[c][k].seq
  BY <1>3, <1>5 DEF RegLeq, RegLess
<1>7. ASSUME ~Busy(c, k)' PROVE r.seq <= seen'[c][k].seq
  <2>1. r.seq <= seen[c][k].seq
    BY <1>1, <1>7 DEF IdleBound
  <2> QED
    BY <1>5, <1>6, <2>1
<1>8. ASSUME ~Busy(c, k)', RegCache, k \in valid'[c] PROVE r.seq <= cache'[c][k].seq
  BY <1>1, <1>8
<1> QED
  BY <1>1, <1>7, <1>8 DEF IdleBound

\* The step leaves the caches, and the puts in progress, alone.
LEMMA CachesKept ==
    ASSUME SessInv, NamesInv, TypeOK', HistUpdate, NEW f \in Fut, Others(f),
           Putting(f) => Putting(f)' /\ key'[f] = key[f], UNCHANGED << cache, valid >>,
           NEW k \in Key, NEW r \in Register, Live(k, r)
    PROVE  IdleBound(k, r)'
<1>1. IdleBound(k, r)
  BY DEF NamesInv, LiveBounded, LiveBound
<1>2. Busy(r.client_id, k) => Busy(r.client_id, k)'
  <2>1. PICK c : c = r.client_id
    OBVIOUS
  <2> QED
    BY <2>1, BusyKept
<1>3. ASSUME ~Busy(r.client_id, k)', RegCache, k \in valid'[r.client_id]
      PROVE  r.seq <= cache'[r.client_id][k].seq
  BY <1>1, <1>2, <1>3 DEF IdleBound
<1> QED
  BY <1>1, <1>2, <1>3, IdleKept

\* A step that takes no future from one state to another.
InPlace(f) ==
    /\ UNCHANGED << step, key, cache, valid, value, target_reg, max_reg, end_key >>
    /\ \A i \in Slot : Out(f, i)' \subseteq Out(f, i)

LEMMA InPlaceNames ==
    ASSUME SessInv, NamesInv, TypeOK', HistUpdate, PutsExclusive', NEW f \in Fut, Others(f),
           InPlace(f), FromLive(f)
    PROVE  NamesInv'
<1>u. UNCHANGED << step, key, cache, valid, value, target_reg, max_reg, end_key >>
  BY DEF InPlace
<1>1. WritesOwn(f)'
  <2>1. WritesOwn(f)
    BY DEF NamesInv
  <2> QED
    BY <1>u, <2>1 DEF WritesOwn, InPlace, Owner
<1>2. ASSUME NEW k \in Key, NEW r \in Register, Live(k, r)
      PROVE  IdleBound(k, r)' /\ PutBound(f, k, r)' /\ ReadBound(f, k, r)'
  <2>1. IdleBound(k, r)'
    BY <1>2, <1>u, CachesKept DEF Putting
  <2>2. PutBound(f, k, r) /\ ReadBound(f, k, r)
    BY <1>2 DEF NamesInv, LiveBounded, LiveBound
  <2>3. step[f] # "Done" => Own(f, k)' = Own(f, k)
    BY <1>u, OwnKept DEF Own
  <2>4. KeysRead(f)' = KeysRead(f) /\ (Putting(f)' <=> Putting(f)) /\ (Putting(f) => step[f] # "Done")
    BY <1>u DEF KeysRead, KeysOf, Putting
  <2>5. PutBound(f, k, r)' /\ ReadBound(f, k, r)'
    BY <1>u, <2>2, <2>3, <2>4 DEF PutBound, ReadBound, Owner
  <2> QED
    BY <2>1, <2>5
<1>3. StaysBounded(f)
  BY <1>2 DEF StaysBounded
<1> QED
  BY <1>1, <1>3, <1>u, NamesStep

\* What a server holds, what a put writes and what a get writes back is live.
LEMMA HeldLive ==
    ASSUME TypeOK, NEW c \in Client, NEW i \in Slot, NEW k \in Key
    PROVE  Copy(c, i, k) \in Register /\ Live(k, Copy(c, i, k))
<1>1. quorum_indices(c, i) \in Server
  BY ReplicaType
<1> QED
  BY <1>1, AbdTypes DEF Copy, Live

\* Steps in which no future moves.
LEMMA NoneMovesNames ==
    ASSUME SessInv, NamesInv, TypeOK', HistUpdate, PutsExclusive',
           \A g \in Fut : Still(g) /\ Keeps(g),
           UNCHANGED << mem, step, key, bufs, cache, valid, value, target_reg, max_reg, end_key >>
    PROVE  NamesInv'
<1>1. PICK f \in OpFut : TRUE
  <2>1. 0 \in Client /\ 0 \in 0 .. (AsyncParallelism - 1)
    BY NumClientsAssumption, AsyncAssumption DEF Client
  <2>2. << "op", 0, 0 >> \in OpFut
    BY <2>1 DEF OpFut
  <2> QED
    BY <2>2
<1>2. f \in Fut /\ Others(f)
  BY FutureKinds DEF Others
<1>3. \A i \in Slot : Out(f, i)' = Out(f, i) /\ (Closed(f, i)' <=> Closed(f, i))
  BY <1>2, StillViews
<1>4. InPlace(f)
  BY <1>3 DEF InPlace
<1>5. FromLive(f)
  BY <1>3 DEF FromLive, Live
<1> QED
  BY <1>2, <1>4, <1>5, InPlaceNames

LEMMA TickNames ==
    ASSUME SessInv, NamesInv, TypeOK', HistUpdate, PutsExclusive', NEW c \in Client, TickRdma(c)
    PROVE  NamesInv'
<1>1. \A g \in Fut : Still(g)
  BY TickStill DEF SessInv
<1>2. UNCHANGED << mem, step, key, bufs, cache, valid, putVars, max_reg, rangeVars >>
  BY DEF TickRdma
<1>3. \A g \in Fut : Keeps(g)
  BY <1>2 DEF Keeps, putVars
<1> QED
  BY <1>1, <1>2, <1>3, NoneMovesNames DEF putVars, rangeVars

LEMMA IdleNames ==
    ASSUME SessInv, NamesInv, TypeOK', HistUpdate, PutsExclusive',
           UNCHANGED << mem, sq, cq, step, key, bufs, cache, valid, putVars, max_reg, rangeVars >>
    PROVE  NamesInv'
<1>1. \A g \in Fut : Still(g)
  BY IdleStill
<1>2. \A g \in Fut : Keeps(g)
  BY DEF Keeps, putVars
<1> QED
  BY <1>1, <1>2, NoneMovesNames DEF putVars, rangeVars

\* The servers' steps.  A slot answers with what it holds.
LEMMA AnswerNames ==
    ASSUME SessInv, NamesInv, TypeOK', HistUpdate, PutsExclusive', NEW f \in OpFut, NEW i \in Slot,
           Answered(f, i, Copy(Owner(f), i, key[f])),
           UNCHANGED << step, key, cache, valid, putVars, max_reg, rangeVars >>,
           \A k \in Key, r \in Register : (\E s \in Server : mem'[s][k] = r) => Live(k, r)
    PROVE  NamesInv'
<1>0. TypeOK
  BY StoreTypes DEF SessInv
<1>f. f \in Fut /\ Owner(f) \in Client /\ key[f] \in Key
  BY <1>0, FutureKinds, OwnerType, AbdTypes
<1>u. UNCHANGED << step, key, cache, valid, value, target_reg, success_count, max_reg, end_key >>
  BY DEF putVars, rangeVars
<1>1. Others(f)
  BY <1>u DEF Others, Answered, Keeps
<1>2. \A j \in Slot : j # i => /\ bufs'[f][j] = bufs[f][j] /\ Out(f, j)' = Out(f, j)
                               /\ Closed(f, j)' <=> Closed(f, j)
  BY DEF Answered
<1>3. Out(f, i)' = {} /\ bufs'[f][i] = Copy(Owner(f), i, key[f])
  BY PrimedViews DEF Answered
<1>4. InPlace(f)
  BY <1>2, <1>3, <1>u DEF InPlace
<1>5. ASSUME NEW k \in Key, NEW r \in Register, key[f] = k, NEW j \in Slot,
             step[f] = "Reading", Closed(f, j)', bufs'[f][j] = r
      PROVE  Live(k, r)
  <2>1. CASE j = i
    BY <1>0, <1>3, <1>5, <1>f, <2>1, HeldLive
  <2>2. CASE j # i
    BY <1>2, <1>5, <2>2 DEF Live
  <2> QED
    BY <2>1, <2>2
<1>6. ASSUME NEW k \in Key, NEW r \in Register, key[f] = k, step[f] = "WritingBack", max_reg[f] = r
      PROVE  Live(k, r)
  BY <1>6 DEF Live
<1>7. FromLive(f)
  BY <1>5, <1>6, <1>u DEF FromLive
<1> QED
  BY <1>1, <1>4, <1>7, <1>f, InPlaceNames

LEMMA NicReadNames ==
    ASSUME SessInv, NamesInv, TypeOK', HistUpdate, PutsExclusive',
           NEW c \in Client, NEW i \in Slot, NicRead(c, i)
    PROVE  NamesInv'
<1>0. StoreInv /\ TypeOK
  BY StoreTypes DEF SessInv
<1>1. PICK w : w = Head(sq[c][i])
  OBVIOUS
<1>2. PICK f : f = w.fut
  OBVIOUS
<1>e. /\ sq[c][i] # << >> /\ w.op = "read"
      /\ bufs' = [bufs EXCEPT ![f][i] = mem[quorum_indices(c, i)][w.key]]
      /\ Complete(c, i, TRUE)
      /\ UNCHANGED << mem, step, key, cache, valid, putVars, max_reg, rangeVars >>
  BY <1>1, <1>2 DEF NicRead, Executable
<1>3. w \in WorkRequest /\ f \in Fut /\ Owner(f) = c /\ w \in Asked(f, i)
  BY <1>0, <1>1, <1>2, <1>e, HeadOut
<1>4. f \in OpFut
  BY <1>2, <1>3, <1>e, FutureKinds DEF WorkRequest
<1>5. w.key = key[f]
  BY <1>3, <1>4, <1>e DEF Asked, ReadWR, CasWR
<1>6. Answered(f, i, mem[quorum_indices(c, i)][key[f]])
  BY <1>0, <1>1, <1>2, <1>4, <1>5, <1>e, AnswerStep
<1>7. Answered(f, i, Copy(Owner(f), i, key[f]))
  BY <1>3, <1>6 DEF Copy
<1>8. \A k \in Key, r \in Register : (\E s \in Server : mem'[s][k] = r) => Live(k, r)
  BY <1>e DEF Live
<1> QED
  BY <1>4, <1>7, <1>8, <1>e, AnswerNames

LEMMA NicCasNames ==
    ASSUME SessInv, NamesInv, TypeOK', HistUpdate, PutsExclusive',
           NEW c \in Client, NEW i \in Slot, NicCas(c, i)
    PROVE  NamesInv'
<1>0. StoreInv /\ TypeOK
  BY StoreTypes DEF SessInv
<1>1. PICK w : w = Head(sq[c][i])
  OBVIOUS
<1>2. PICK f : f = w.fut
  OBVIOUS
<1> DEFINE s == quorum_indices(c, i)
<1>e. /\ sq[c][i] # << >> /\ w.op = "cas"
      /\ bufs' = [bufs EXCEPT ![f][i] = mem[s][w.key]]
      /\ mem' = [mem EXCEPT ![s][w.key] = IF @ = w.expected THEN w.target ELSE @]
      /\ Complete(c, i, TRUE)
      /\ UNCHANGED << step, key, cache, valid, putVars, max_reg, rangeVars >>
  BY <1>1, <1>2 DEF NicCas, Executable
<1>3. /\ w \in WorkRequest /\ f \in Fut /\ Owner(f) = c /\ w \in Asked(f, i) /\ w.key \in Key
      /\ Out(f, i) = {w}
  BY <1>0, <1>1, <1>2, <1>e, HeadOut
<1>4. f \in OpFut
  BY <1>2, <1>3, <1>e, FutureKinds DEF WorkRequest
<1>5. /\ step[f] \in {"OptimisticChain", "CAS", "WritingBack"} /\ w.key = key[f]
      /\ step[f] # "WritingBack" => w.target = target_reg[f]
  BY <1>3, <1>4, <1>e DEF Asked, ReadWR, CasWR, BulkWR
<1>6. Answered(f, i, mem[s][key[f]])
  BY <1>0, <1>1, <1>2, <1>4, <1>5, <1>e, AnswerStep
<1>7. Answered(f, i, Copy(Owner(f), i, key[f]))
  BY <1>3, <1>6 DEF Copy
<1>8. Live(key[f], w.target)
  <2>1. CASE step[f] = "WritingBack"
    <3>1. w.target = max_reg[f]
      BY <1>3, <1>4, <2>1 DEF NamesInv, WritesOwn
    <3> QED
      BY <1>4, <2>1, <3>1 DEF Live
  <2>2. CASE step[f] # "WritingBack"
    BY <1>4, <1>5, <2>2 DEF Live, Target
  <2> QED
    BY <2>1, <2>2
<1>9. ASSUME NEW k \in Key, NEW r \in Register, NEW t \in Server, mem'[t][k] = r PROVE Live(k, r)
  <2>1. mem \in [Server -> [Key -> Register]] /\ s \in Server
    BY <1>0, AbdTypes, ReplicaType
  <2> HIDE DEF s
  <2>2. CASE t = s /\ k = key[f] /\ r = w.target
    BY <1>8, <2>2
  <2>3. CASE r = mem[t][k]
    BY <2>3 DEF Live
  <2> QED
    BY <1>5, <1>9, <1>e, <2>1, <2>2, <2>3
<1> QED
  BY <1>4, <1>7, <1>9, <1>e, AnswerNames

LEMMA NicErrorNames ==
    ASSUME SessInv, NamesInv, TypeOK', HistUpdate, PutsExclusive',
           NEW c \in Client, NEW i \in Slot, NicError(c, i)
    PROVE  NamesInv'
<1>0. StoreInv
  BY DEF SessInv
<1>1. PICK f \in Fut : Fails(f, i)
  BY <1>0, NicErrorStep
<1>u. UNCHANGED << mem, step, key, bufs, cache, valid, value, target_reg, success_count, max_reg, end_key >>
  BY DEF NicError, putVars, rangeVars
<1>2. Others(f)
  BY <1>1, <1>u DEF Others, Fails, Keeps
<1>3. \A j \in Slot : Out(f, j)' \subseteq Out(f, j) /\ (Closed(f, j)' => Closed(f, j))
  <2>1. Out(f, i)' = {} /\ ~Closed(f, i)'
    BY <1>1 DEF Fails, Waits
  <2> QED
    BY <1>1, <2>1 DEF Fails
<1>4. InPlace(f)
  BY <1>3, <1>u DEF InPlace
<1>5. FromLive(f)
  BY <1>3, <1>u DEF FromLive, Live
<1> QED
  BY <1>2, <1>4, <1>5, InPlaceNames

LEMMA NicBulkNames ==
    ASSUME SessInv, NamesInv, TypeOK', HistUpdate, PutsExclusive',
           NEW c \in Client, NEW i \in Slot, NicBulkWord(c, i)
    PROVE  NamesInv'
<1>0. StoreInv
  BY DEF SessInv
<1>1. PICK f \in RangeFut, k \in Key : Takes(f, i, k)
  BY <1>0, NicBulkStep
<1>f. f \in Fut /\ f \notin OpFut
  BY FutureKinds
<1>u. UNCHANGED << mem, step, key, bufs, cache, valid, value, target_reg, success_count, max_reg, end_key >>
  BY DEF NicBulkWord, putVars
<1>2. Others(f)
  BY <1>1, <1>u DEF Others, Takes, Keeps
<1>3. FromLive(f)
  BY <1>f, <1>u DEF FromLive, Live
<1>4. WritesOwn(f)'
  BY <1>f DEF WritesOwn
<1>5. ASSUME NEW l \in Key, NEW r \in Register, Live(l, r)
      PROVE  IdleBound(l, r)' /\ PutBound(f, l, r)' /\ ReadBound(f, l, r)'
  <2>1. IdleBound(l, r)'
    BY <1>2, <1>5, <1>f, <1>u, CachesKept DEF Putting
  <2>2. ReadBound(f, l, r)
    BY <1>5, <1>f DEF NamesInv, LiveBounded, LiveBound
  <2>3. KeysRead(f)' = KeysRead(f)
    BY <1>u DEF KeysRead, KeysOf
  <2>4. step[f] # "Done" => Own(f, l)' = Own(f, l)
    BY <1>f, <1>u, OwnKept DEF Own
  <2> QED
    BY <1>f, <1>u, <2>1, <2>2, <2>3, <2>4 DEF PutBound, ReadBound, Owner
<1>6. StaysBounded(f)
  BY <1>5 DEF StaysBounded
<1> QED
  BY <1>2, <1>3, <1>4, <1>6, <1>f, <1>u, NamesStep

-----------------------------------------------------------------------------
\* The client's steps.  An operation starts when no put of its client is at work
\* on the same register.
LEMMA StartsIdle ==
    ASSUME PutsExclusive', NEW f \in Fut, Others(f), step[f] = "Done", step'[f] # "Done",
           NEW k \in KeysRead(f)'
    PROVE  ~Busy(Owner(f), k)
<1> SUFFICES ASSUME NEW g \in OpFut, Owner(g) = Owner(f), Putting(g), key[g] = k PROVE FALSE
  BY DEF Busy
<1>1. g \in Fut /\ g # f
  BY FutureKinds DEF Putting
<1>2. step'[g] = step[g] /\ key'[g] = key[g]
  BY <1>1 DEF Others, Still
<1>3. Putting(g)'
  BY <1>2 DEF Putting
<1> QED
  BY <1>1, <1>2, <1>3 DEF PutsExclusive, Owner

\* A cached put writes past the register that it has cached.
PastCache(f) ==
    /\ RegCache /\ key'[f] \in valid[Owner(f)]
    /\ cache[Owner(f)][key'[f]] \in Register
    /\ cache[Owner(f)][key'[f]].seq < target_reg'[f].seq

LEMMA StartNames ==
    ASSUME SessInv, NamesInv, TypeOK', HistUpdate, PutsExclusive', NEW f \in Fut, Others(f),
           \A g \in OpFut \ {f} : value'[g] = value[g],
           step[f] = "Done", step'[f] \in {"Reading", "ReadSeq", "OptimisticChain"},
           UNCHANGED << mem, cache, valid >>, step'[f] = "OptimisticChain" => PastCache(f),
           f \in OpFut /\ step'[f] = "Reading" => \A i \in Slot : ~Closed(f, i)',
           WritesOwn(f)'
    PROVE  NamesInv'
<1>0. TypeOK /\ SessTypes
  BY StoreTypes DEF SessInv
<1>1. FromLive(f)
  BY DEF FromLive, Live
<1>2. PICK c \in Client : c = Owner(f)
  BY OwnerType
<1>3. floor'[f].own = seen[c]
  BY <1>2 DEF HistUpdate, Starts
<1>4. ASSUME NEW k \in Key, NEW r \in Register, Live(k, r)
      PROVE  IdleBound(k, r)' /\ PutBound(f, k, r)' /\ ReadBound(f, k, r)'
  <2>1. IdleBound(k, r)'
    BY <1>4, CachesKept DEF Putting
  <2>2. ASSUME k \in KeysRead(f)', r.client_id = c
        PROVE  /\ r.seq <= Own(f, k)'.seq
               /\ RegCache /\ k \in valid[c] => r.seq <= cache[c][k].seq
    <3>1. ~Busy(c, k)
      BY <1>2, <2>2, StartsIdle
    <3>2. IdleBound(k, r)
      BY <1>4 DEF NamesInv, LiveBounded, LiveBound
    <3>3. Own(f, k)' = seen[c][k]
      BY <1>3 DEF Own
    <3> QED
      BY <2>2, <3>1, <3>2, <3>3 DEF IdleBound
  <2>3. ReadBound(f, k, r)'
    BY <1>2, <2>2 DEF ReadBound, Owner
  <2>4. ASSUME f \in OpFut, Putting(f)', key'[f] = k, r.client_id = c
        PROVE  IF step'[f] = "ReadSeq" THEN r.seq <= Own(f, k)'.seq
               ELSE r.seq < target_reg'[f].seq
    <3>1. k \in KeysRead(f)'
      BY <2>4 DEF KeysRead
    <3>2. CASE step'[f] = "ReadSeq"
      BY <2>2, <2>4, <3>1, <3>2
    <3>3. CASE step'[f] = "OptimisticChain"
      <4>1. r.seq <= cache[c][k].seq /\ cache[c][k] \in Register /\ cache[c][k].seq < target_reg'[f].seq
        BY <1>2, <2>2, <2>4, <3>1, <3>3 DEF PastCache
      <4>2. target_reg'[f] \in Register
        BY <2>4 DEF TypeOK, PutTypeOK
      <4>3. r.seq \in Nat /\ cache[c][k].seq \in Nat /\ target_reg'[f].seq \in Nat
        BY <4>1, <4>2, LowFacts
      <4>4. r.seq < target_reg'[f].seq
        BY <4>1, <4>3
      <4> QED
        BY <3>3, <4>4
    <3> QED
      BY <2>4, <3>2, <3>3 DEF Putting
  <2>5. PutBound(f, k, r)'
    BY <1>2, <2>4 DEF PutBound, Owner
  <2> QED
    BY <2>1, <2>3, <2>5
<1>5. StaysBounded(f)
  BY <1>4 DEF StaysBounded
<1> QED
  BY <1>1, <1>5, NamesStep

LEMMA StartPutNames ==
    ASSUME SessInv, NamesInv, TagInv', Raised, HistUpdate, PutsExclusive', NEW f \in OpFut, StartPut(f),
           NumClients <= 256
    PROVE  NamesInv'
<1>0. TypeOK /\ TypeOK' /\ CopiesLow
  BY StoreTypes DEF SessInv, StoreInv, TagInv, AccountingInv
<1>f. f \in Fut /\ Owner(f) \in Client /\ Others(f)
  BY FutureKinds, OwnerType, StartPutSess
<1>1. PICK k \in PutKeys[Owner(f)], v \in Value : DoPutHit(f, k, v) \/ DoPutMiss(f, k, v)
  BY DEF StartPut
<1>k. k \in Key
  BY <1>1, <1>f, PutKeysAssumption
<1>t. /\ step \in [Fut -> Step] /\ key \in [Fut -> Key] /\ value \in [OpFut -> Value]
      /\ target_reg \in [OpFut -> Register]
  BY <1>0, AbdTypes
<1>2. /\ step[f] = "Done" /\ UNCHANGED << mem, cache, valid >>
      /\ key' = [key EXCEPT ![f] = k] /\ value' = [value EXCEPT ![f] = v]
  BY <1>1 DEF StartPut, Issue, FreeFuture, DoPutHit, DoPutMiss
<1>3. key'[f] = k /\ value'[f] = v /\ \A g \in OpFut \ {f} : value'[g] = value[g]
  BY <1>2, <1>f, <1>t
<1>4. CASE DoPutHit(f, k, v)
  <2>1. PICK x : x = cache[Owner(f)][k]
    OBVIOUS
  <2>2. /\ RegCache /\ k \in valid[Owner(f)]
        /\ step' = [step EXCEPT ![f] = "OptimisticChain"]
        /\ target_reg' = [target_reg EXCEPT ![f] = MkRegister(NextSeq(x.seq), Owner(f), v)]
    BY <1>4, <2>1 DEF DoPutHit
  <2>3. x \in LowRegister
    BY <1>0, <1>f, <1>k, <2>1 DEF CopiesLow
  <2>4. x \in Register /\ x.seq \in Nat /\ NextSeq(x.seq) = x.seq + 1
    BY <2>3, LowFacts
  <2>5. step'[f] = "OptimisticChain" /\ target_reg'[f] = MkRegister(x.seq + 1, Owner(f), v)
    BY <1>f, <1>t, <2>2, <2>4
  <2>6. target_reg'[f].seq = x.seq + 1 /\ target_reg'[f].client_id = Owner(f) /\ target_reg'[f].value = v
    BY <1>f, <2>5, ClientIdxOwn, OwnerType DEF MkRegister
  <2>7. PastCache(f)
    BY <1>3, <2>1, <2>2, <2>4, <2>6 DEF PastCache
  <2>8. WritesOwn(f)'
    BY <1>3, <2>4, <2>5, <2>6 DEF WritesOwn, Owner
  <2> QED
    BY <1>0, <1>2, <1>3, <1>f, <2>5, <2>7, <2>8, StartNames
<1>5. CASE DoPutMiss(f, k, v)
  <2>1. step'[f] = "ReadSeq"
    BY <1>5, <1>f, <1>t DEF DoPutMiss
  <2>2. WritesOwn(f)'
    BY <2>1 DEF WritesOwn
  <2> QED
    BY <1>0, <1>2, <1>3, <1>f, <2>1, <2>2, StartNames
<1> QED
  BY <1>1, <1>4, <1>5

LEMMA StartGetNames ==
    ASSUME SessInv, NamesInv, TagInv', Raised, HistUpdate, PutsExclusive', NEW f \in OpFut, StartGet(f)
    PROVE  NamesInv'
<1>0. TypeOK /\ TypeOK'
  BY StoreTypes DEF SessInv, TagInv, AccountingInv
<1>f. f \in Fut /\ Others(f) /\ Fresh(f)
  BY FutureKinds, StartGetSess
<1>1. PICK k \in Key : DoGet(f, k)
  BY DEF StartGet
<1>2. /\ step[f] = "Done" /\ step' = [step EXCEPT ![f] = "Reading"]
      /\ UNCHANGED << mem, cache, valid, value >>
  BY <1>1 DEF StartGet, DoGet, Issue, FreeFuture, putVars
<1>3. step'[f] = "Reading"
  BY <1>0, <1>2, <1>f, AbdTypes
<1>4. WritesOwn(f)' /\ \A i \in Slot : ~Closed(f, i)'
  BY <1>3, <1>f DEF WritesOwn, Fresh
<1> QED
  BY <1>0, <1>2, <1>3, <1>4, <1>f, StartNames

LEMMA StartRangeNames ==
    ASSUME SessInv, NamesInv, TagInv', Raised, HistUpdate, PutsExclusive', NEW f \in RangeFut, StartRange(f)
    PROVE  NamesInv'
<1>0. TypeOK /\ TypeOK'
  BY StoreTypes DEF SessInv, TagInv, AccountingInv
<1>f. f \in Fut /\ f \notin OpFut /\ Others(f)
  BY FutureKinds, StartRangeSess
<1>1. PICK sk \in Key, ek \in Key : DoRange(f, sk, ek)
  BY DEF StartRange
<1>2. /\ step[f] = "Done" /\ step' = [step EXCEPT ![f] = "Reading"]
      /\ UNCHANGED << mem, cache, valid, value >>
  BY <1>1 DEF StartRange, DoRange, Issue, FreeFuture, putVars
<1>3. step'[f] = "Reading"
  BY <1>0, <1>2, <1>f, AbdTypes
<1>4. WritesOwn(f)'
  BY <1>f DEF WritesOwn
<1> QED
  BY <1>0, <1>2, <1>3, <1>4, <1>f, StartNames

\* The register a get finds largest is one it has read.
LEMMA GetLive ==
    ASSUME StoreInv, NamesInv, NEW f \in OpFut, NEW m, Quiet(f), step[f] = "Reading",
           m \in {bufs[f][i] : i \in Slot} \cup {ZeroRegister}, IsRunningMax(f, m)
    PROVE  m \in Register /\ Live(key[f], m)
<1>0. TypeOK /\ f \in Fut /\ key[f] \in Key
  BY StoreTypes, FutureKinds, AbdTypes
<1>1. \A i \in Slot : bufs[f][i] \in Register /\ Live(key[f], bufs[f][i])
  BY <1>0, QuietClosed, AbdTypes DEF Live
<1>2. CASE \E i \in Slot : m = bufs[f][i]
  BY <1>1, <1>2
<1>3. CASE m = ZeroRegister /\ \A i \in Slot : ~RegLess(m, bufs[f][i])
  <2>1. 1 \in Slot
    BY SlotFacts
  <2>2. PICK r \in Register : r = bufs[f][1]
    BY <1>1, <2>1
  <2>3. r.seq \in Nat /\ ~RegLess(ZeroRegister, r)
    BY <1>3, <2>1, <2>2, LowFacts
  <2>4. r.seq = 0
    BY <2>3 DEF RegLess, ZeroRegister
  <2>5. r = ZeroRegister
    BY <1>0, <1>1, <2>1, <2>2, <2>4 DEF NamesInv, LiveBounded, LiveBound
  <2> QED
    BY <1>1, <1>3, <2>1, <2>2, <2>5
<1> QED
  BY <1>2, <1>3 DEF IsRunningMax

\* A get or a scan caches a register that covers what its client had seen.
CachesRead(f) ==
    \A c \in Client, k \in Key :
        \/ cache'[c][k] = cache[c][k] /\ (k \in valid'[c] => k \in valid[c])
        \/ /\ c = Owner(f) /\ k \in KeysRead(f) /\ step[f] = "Reading"
           /\ cache'[c][k] \in Register /\ RegLeq(Own(f, k), cache'[c][k])

LEMMA ReadNames ==
    ASSUME SessInv, NamesInv, TypeOK', HistUpdate, PutsExclusive', NEW f \in Fut, Others(f),
           \A g \in OpFut \ {f} : value'[g] = value[g],
           step[f] \in {"Reading", "WritingBack"}, step'[f] \in {"WritingBack", "Done"},
           CachesRead(f), FromLive(f), WritesOwn(f)'
    PROVE  NamesInv'
<1>0. TypeOK /\ SessTypes
  BY StoreTypes DEF SessInv
<1>1. ASSUME NEW k \in Key, NEW r \in Register, Live(k, r) PROVE IdleBound(k, r)'
  <2>1. IdleBound(k, r) /\ ReadBound(f, k, r)
    BY <1>1 DEF NamesInv, LiveBounded, LiveBound
  <2>2. PICK c \in Client : c = r.client_id
    BY DEF Register
  <2>3. Busy(c, k) => Busy(c, k)'
    BY BusyKept DEF Putting
  <2>4. ASSUME ~Busy(c, k)', RegCache, k \in valid'[c] PROVE r.seq <= cache'[c][k].seq
    <3>1. CASE cache'[c][k] = cache[c][k] /\ (k \in valid'[c] => k \in valid[c])
      BY <2>1, <2>2, <2>3, <2>4, <3>1 DEF IdleBound
    <3>2. CASE /\ c = Owner(f) /\ k \in KeysRead(f) /\ step[f] = "Reading"
               /\ cache'[c][k] \in Register /\ RegLeq(Own(f, k), cache'[c][k])
      <4>1. r.seq <= Own(f, k).seq
        BY <2>1, <2>2, <3>2 DEF ReadBound
      <4>2. PICK x \in Register, y \in Register : x = Own(f, k) /\ y = cache'[c][k]
        BY <1>0, <3>2 DEF SessTypes, Own
      <4>3. x.seq \in Nat /\ y.seq \in Nat /\ r.seq \in Nat
        BY LowFacts
      <4>4. x.seq <= y.seq
        BY <3>2, <4>2, <4>3 DEF RegLeq, RegLess
      <4>5. r.seq <= y.seq
        BY <4>1, <4>2, <4>3, <4>4
      <4> QED
        BY <4>2, <4>5
    <3> QED
      BY <3>1, <3>2 DEF CachesRead
  <2> QED
    BY <2>1, <2>2, <2>3, <2>4, IdleKept
<1>2. StaysBounded(f)
  BY <1>1 DEF StaysBounded, PutBound, ReadBound, Putting
<1> QED
  BY <1>2, NamesStep

LEMMA StepGetNames ==
    ASSUME SessInv, NamesInv, TagInv', Raised, HistUpdate, PutsExclusive', NEW f \in OpFut, StepGet(f)
    PROVE  NamesInv'
<1>0. StoreInv /\ TypeOK /\ TypeOK'
  BY StoreTypes DEF SessInv, TagInv, AccountingInv
<1>f. f \in Fut /\ key[f] \in Key /\ Owner(f) \in Client /\ Others(f)
  BY <1>0, FutureKinds, AbdTypes, OwnerType, StepGetSess
<1>t. step \in [Fut -> Step] /\ max_reg \in [OpFut -> Register] /\ cache \in [Client -> [Key -> Register]]
  BY <1>0, AbdTypes
<1>u. UNCHANGED << mem, key, bufs, value >>
  BY DEF StepGet, GetStepReading, GetStepWritingBack, putVars
<1>s. step[f] \in {"Reading", "WritingBack"} /\ step'[f] \in {"WritingBack", "Done"}
  BY <1>f, <1>t DEF StepGet, GetStepReading, GetStepWritingBack
<1>w. WritesOwn(f)'
  BY <1>s, StepGetSess DEF WritesOwn
<1>m. \A k \in Key, r \in Register : (\E s \in Server : mem'[s][k] = r) => Live(k, r)
  BY <1>u DEF Live
<1>1. CASE GetStepWritingBack(f)
  <2>1. UNCHANGED << cache, valid >> /\ step'[f] = "Done"
    BY <1>1, <1>f, <1>t DEF GetStepWritingBack
  <2>2. CachesRead(f) /\ FromLive(f)
    BY <1>m, <2>1 DEF CachesRead, FromLive
  <2> QED
    BY <1>0, <1>f, <1>s, <1>u, <1>w, <2>2, ReadNames
<1>2. CASE GetStepReading(f)
  <2>1. PICK m \in {bufs[f][i] : i \in Slot} \cup {ZeroRegister} :
          /\ Quiet(f) /\ step[f] = "Reading" /\ IsRunningMax(f, m)
          /\ max_reg' = [max_reg EXCEPT ![f] = m]
          /\ CachePut(Owner(f), key[f], m)
    BY <1>2 DEF GetStepReading
  <2>2. m \in Register /\ Live(key[f], m)
    BY <1>0, <2>1, GetLive
  <2>3. max_reg'[f] = m /\ RegLeq(Own(f, key[f]), m)
    <3>1. max_reg'[f] = m
      BY <1>t, <2>1
    <3> QED
      BY <3>1, GetAnswers
  <2>4. FromLive(f)
    BY <1>m, <1>s, <1>u, <2>2, <2>3 DEF FromLive
  <2>5. CachesRead(f)
    <3> SUFFICES ASSUME NEW c \in Client, NEW k \in Key
                 PROVE  \/ cache'[c][k] = cache[c][k] /\ (k \in valid'[c] => k \in valid[c])
                        \/ /\ c = Owner(f) /\ k \in KeysRead(f) /\ step[f] = "Reading"
                           /\ cache'[c][k] \in Register /\ RegLeq(Own(f, k), cache'[c][k])
      BY DEF CachesRead
    <3>1. CASE RegCache
      <4>1. /\ cache' = [cache EXCEPT ![Owner(f)][key[f]] = m]
            /\ valid' = [valid EXCEPT ![Owner(f)] = @ \cup {key[f]}]
        BY <2>1, <3>1 DEF CachePut
      <4>2. valid \in [Client -> SUBSET Key]
        BY <1>0 DEF TypeOK, StateTypeOK
      <4>3. CASE c = Owner(f) /\ k = key[f]
        <5>1. cache'[c][k] = m
          BY <1>t, <4>1, <4>3
        <5> QED
          BY <2>1, <2>2, <2>3, <4>3, <5>1 DEF KeysRead
      <4>4. CASE ~(c = Owner(f) /\ k = key[f])
        BY <1>f, <1>t, <4>1, <4>2, <4>4
      <4> QED
        BY <4>3, <4>4
    <3>2. CASE ~RegCache
      BY <2>1, <3>2 DEF CachePut
    <3> QED
      BY <3>1, <3>2
  <2> QED
    BY <1>0, <1>f, <1>s, <1>u, <1>w, <2>4, <2>5, ReadNames
<1> QED
  BY <1>1, <1>2 DEF StepGet

LEMMA StepRangeNames ==
    ASSUME SessInv, NamesInv, TagInv', Raised, HistUpdate, PutsExclusive', NEW f \in RangeFut, StepRange(f)
    PROVE  NamesInv'
<1>0. StoreInv /\ TypeOK /\ TypeOK'
  BY StoreTypes DEF SessInv, TagInv, AccountingInv
<1>f. f \in Fut /\ f \notin OpFut /\ Owner(f) \in Client /\ Others(f)
  BY FutureKinds, OwnerType, StepRangeSess
<1>t. /\ step \in [Fut -> Step] /\ cache \in [Client -> [Key -> Register]]
      /\ results \in [RangeFut -> [Key -> Register]] /\ valid \in [Client -> SUBSET Key]
  BY <1>0, AbdTypes DEF TypeOK, StateTypeOK
<1>1. PICK acc : RangeFinish(f, acc)
  BY DEF StepRange, RangeStepReading
<1>2. /\ step[f] = "Reading" /\ step' = [step EXCEPT ![f] = "Done"]
      /\ results' = [results EXCEPT ![f] =
            [k \in Key |-> IF k \in KeysOf(f) THEN acc[k] ELSE ZeroRegister]]
      /\ IF RegCache
         THEN /\ cache' = [cache EXCEPT ![Owner(f)] =
                   [k \in Key |-> IF k \in KeysOf(f) THEN acc[k] ELSE cache[Owner(f)][k]]]
              /\ valid' = [valid EXCEPT ![Owner(f)] = valid[Owner(f)] \cup KeysOf(f)]
         ELSE UNCHANGED << cache, valid >>
      /\ UNCHANGED << mem, value >>
  BY <1>1 DEF RangeFinish, StepRange, putVars
<1>3. step'[f] = "Done" /\ FromLive(f) /\ WritesOwn(f)'
  BY <1>2, <1>f, <1>t DEF FromLive, Live, WritesOwn
<1>4. CachesRead(f)
  <2> SUFFICES ASSUME NEW c \in Client, NEW k \in Key
               PROVE  \/ cache'[c][k] = cache[c][k] /\ (k \in valid'[c] => k \in valid[c])
                      \/ /\ c = Owner(f) /\ k \in KeysRead(f) /\ step[f] = "Reading"
                         /\ cache'[c][k] \in Register /\ RegLeq(Own(f, k), cache'[c][k])
    BY DEF CachesRead
  <2>1. CASE RegCache /\ c = Owner(f) /\ k \in KeysOf(f)
    <3>1. cache'[c][k] = acc[k] /\ results'[f][k] = acc[k]
      BY <1>2, <1>f, <1>t, <2>1
    <3>2. RegLeq(Own(f, k), results'[f][k])
      BY <2>1, ScanAnswers
    <3>3. results'[f][k] \in Register
      BY <1>0 DEF TypeOK, RangeTypeOK
    <3> QED
      BY <1>2, <1>f, <2>1, <3>1, <3>2, <3>3 DEF KeysRead
  <2>2. CASE ~(RegCache /\ c = Owner(f) /\ k \in KeysOf(f))
    BY <1>2, <1>f, <1>t, <2>2
  <2> QED
    BY <2>1, <2>2
<1> QED
  BY <1>0, <1>2, <1>3, <1>4, <1>f, ReadNames

\* The put goes round again: its new target is not below the old one.
LEMMA PutRoundNames ==
    ASSUME SessInv, NamesInv, TagInv', Raised, HistUpdate, PutsExclusive', NEW f \in OpFut,
           StepPut(f), step'[f] = "CAS", NumClients <= 256
    PROVE  NamesInv'
<1>0. StoreInv /\ SessTypes /\ TypeOK /\ TypeOK'
  BY StoreTypes DEF SessInv, TagInv, AccountingInv
<1>f. f \in Fut /\ key[f] \in Key /\ Others(f)
  BY <1>0, FutureKinds, AbdTypes, StepPutSess
<1>t. step \in [Fut -> Step] /\ target_reg \in [OpFut -> Register]
  BY <1>0, AbdTypes
<1>u. /\ UNCHANGED << mem, key, value >> /\ Putting(f)
  BY DEF StepPut, PutStepReadSeq, PutStepOptimistic, PutStepCAS, PutStepOutrun, Putting
<1>c. UNCHANGED << cache, valid >>
  <2>1. CASE PutStepReadSeq(f)
    BY <2>1 DEF PutStepReadSeq
  <2>2. CASE PutStepOptimistic(f)
    BY <1>f, <1>t, <2>2 DEF PutStepOptimistic, PutDone, PutAgain
  <2>3. CASE PutStepCAS(f)
    BY <1>f, <1>t, <2>3 DEF PutStepCAS, PutDone, PutAgain
  <2>4. CASE PutStepOutrun(f)
    BY <2>4 DEF PutStepOutrun, PutAgain
  <2> QED
    BY <2>1, <2>2, <2>3, <2>4 DEF StepPut
<1>1. /\ Own(f, key[f]).seq < target_reg'[f].seq
      /\ step[f] # "ReadSeq" => target_reg[f].seq <= target_reg'[f].seq
      /\ \/ target_reg'[f] = target_reg[f] /\ step[f] # "ReadSeq"
         \/ \E z : target_reg'[f] = MkRegister(z, Owner(f), value[f])
  BY PutRetries
<1>n. /\ Own(f, key[f]).seq \in Nat /\ target_reg[f].seq \in Nat /\ target_reg'[f].seq \in Nat
  <2>1. Own(f, key[f]) \in Register /\ target_reg'[f] \in Register
    BY <1>0, <1>f DEF Own, SessTypes, TypeOK, PutTypeOK
  <2> QED
    BY <1>t, <2>1, LowFacts
<1>2. WritesOwn(f)'
  <2>1. target_reg'[f].client_id = Owner(f) /\ target_reg'[f].value = value[f]
    <3>1. CASE target_reg'[f] = target_reg[f] /\ step[f] # "ReadSeq"
      <4>1. WritesOwn(f) /\ step[f] \in {"OptimisticChain", "CAS"}
        BY <1>f, <1>u, <3>1 DEF NamesInv, Putting
      <4> QED
        BY <3>1, <4>1 DEF WritesOwn
    <3>2. CASE \E z : target_reg'[f] = MkRegister(z, Owner(f), value[f])
      BY <1>f, <3>2, ClientIdxOwn, OwnerType DEF MkRegister
    <3> QED
      BY <1>1, <3>1, <3>2
  <2>2. target_reg'[f].seq > 0
    BY <1>1, <1>n
  <2> QED
    BY <1>u, <2>1, <2>2 DEF WritesOwn, Owner
<1>3. FromLive(f)
  BY <1>u DEF FromLive, Live
<1>4. ASSUME NEW k \in Key, NEW r \in Register, Live(k, r)
      PROVE  IdleBound(k, r)' /\ PutBound(f, k, r)' /\ ReadBound(f, k, r)'
  <2>1. IdleBound(k, r)'
    BY <1>0, <1>4, <1>c, <1>f, <1>u, CachesKept DEF Putting
  <2>2. ReadBound(f, k, r)'
    BY DEF ReadBound
  <2>3. ASSUME key[f] = k, r.client_id = Owner(f)
        PROVE  \/ r.seq < target_reg'[f].seq
               \/ r.seq = target_reg'[f].seq /\ r.value = value[f]
    <3>0. r.seq \in Nat /\ PutBound(f, k, r)
      BY <1>4, <1>f, LowFacts DEF NamesInv, LiveBounded, LiveBound
    <3>1. CASE step[f] = "ReadSeq"
      <4>1. r.seq <= Own(f, key[f]).seq
        BY <1>u, <2>3, <3>0, <3>1 DEF PutBound
      <4> QED
        BY <1>1, <1>n, <3>0, <4>1
    <3>2. CASE step[f] # "ReadSeq"
      <4>1. \/ r.seq < target_reg[f].seq
            \/ r.seq = target_reg[f].seq /\ r.value = value[f]
        BY <1>u, <2>3, <3>0, <3>2 DEF PutBound
      <4>2. target_reg[f].seq <= target_reg'[f].seq
        BY <1>1, <3>2
      <4> QED
        BY <1>n, <3>0, <4>1, <4>2
    <3> QED
      BY <3>1, <3>2
  <2>4. PutBound(f, k, r)'
    BY <1>u, <2>3 DEF PutBound, Owner
  <2> QED
    BY <2>1, <2>2, <2>4
<1>5. StaysBounded(f)
  BY <1>4 DEF StaysBounded
<1> QED
  BY <1>0, <1>2, <1>3, <1>5, <1>f, <1>u, NamesStep

\* The put is acknowledged: its client has seen, and cached, what it wrote last.
LEMMA PutDoneNames ==
    ASSUME SessInv, NamesInv, TagInv', Raised, HistUpdate, PutsExclusive', NEW f \in OpFut,
           StepPut(f), step'[f] = "Done"
    PROVE  NamesInv'
<1>0. StoreInv /\ SessTypes /\ TypeOK /\ TypeOK'
  BY StoreTypes DEF SessInv, TagInv, AccountingInv
<1>f. f \in Fut /\ key[f] \in Key /\ Owner(f) \in Client /\ Others(f)
  BY <1>0, FutureKinds, AbdTypes, OwnerType, StepPutSess
<1>t. /\ step \in [Fut -> Step] /\ target_reg \in [OpFut -> Register]
      /\ cache \in [Client -> [Key -> Register]] /\ valid \in [Client -> SUBSET Key]
  BY <1>0, AbdTypes DEF TypeOK, StateTypeOK
<1>u. UNCHANGED << mem, key, value >>
  BY DEF StepPut, PutStepReadSeq, PutStepOptimistic, PutStepCAS, PutStepOutrun
<1>c. CachePut(Owner(f), key[f], target_reg[f]) /\ step[f] \in {"OptimisticChain", "CAS"}
  <2>1. CASE PutStepReadSeq(f) \/ PutStepOutrun(f)
    BY <1>f, <1>t, <2>1 DEF PutStepReadSeq, PutStepOutrun, PutAgain
  <2>2. CASE PutStepOptimistic(f)
    BY <1>f, <1>t, <2>2 DEF PutStepOptimistic, PutDone, PutAgain
  <2>3. CASE PutStepCAS(f)
    BY <1>f, <1>t, <2>3 DEF PutStepCAS, PutDone, PutAgain
  <2> QED
    BY <2>1, <2>2, <2>3 DEF StepPut
<1>1. PICK d \in Client, l \in Key, t \in Register : d = Owner(f) /\ l = key[f] /\ t = target_reg[f]
  BY <1>f, <1>t
<1>2. \A c \in Client, k \in Key :
        \/ cache'[c][k] = cache[c][k] /\ (k \in valid'[c] => k \in valid[c])
        \/ RegCache /\ c = d /\ k = l
  <2>1. CASE RegCache
    <3>1. /\ cache' = [cache EXCEPT ![d][l] = t]
          /\ valid' = [valid EXCEPT ![d] = valid[d] \cup {l}]
      BY <1>1, <1>c, <2>1 DEF CachePut
    <3> QED
      BY <1>t, <2>1, <3>1
  <2>2. CASE ~RegCache
    BY <1>c, <2>2 DEF CachePut
  <2> QED
    BY <2>1, <2>2
<1>3. RegCache => cache'[d][l] = t
  BY <1>1, <1>c, <1>t DEF CachePut
<1>4. WritesOwn(f)' /\ FromLive(f)
  BY <1>u DEF WritesOwn, FromLive, Live
<1>5. ASSUME NEW k \in Key, NEW r \in Register, Live(k, r) PROVE IdleBound(k, r)'
  <2>0. IdleBound(k, r) /\ PutBound(f, k, r)
    BY <1>5, <1>f DEF NamesInv, LiveBounded, LiveBound
  <2>1. PICK c \in Client : c = r.client_id
    BY DEF Register
  <2>2. CASE c = d /\ k = l
    <3>1. r.seq <= t.seq
      <4>1. \/ r.seq < target_reg[f].seq
            \/ r.seq = target_reg[f].seq /\ r.value = value[f]
        BY <1>1, <1>c, <2>0, <2>1, <2>2 DEF PutBound, Putting
      <4>2. r.seq \in Nat /\ t.seq \in Nat
        BY LowFacts
      <4> QED
        BY <1>1, <4>1, <4>2
    <3>2. PutEnds(f) /\ \A g \in Fut \ {f} : step'[g] = step[g]
      BY <1>c, <1>f DEF PutEnds, Others, Still
    <3>3. seen'[c][k] \in Register /\ RegLeq(t, seen'[c][k])
      BY <1>0, <1>1, <1>f, <2>2, <3>2, SeenStep
    <3>4. r.seq \in Nat /\ t.seq \in Nat /\ seen'[c][k].seq \in Nat
      BY <3>3, LowFacts
    <3>5. t.seq <= seen'[c][k].seq
      BY <3>3, <3>4 DEF RegLeq, RegLess
    <3>6. r.seq <= seen'[c][k].seq
      BY <3>1, <3>4, <3>5
    <3> QED
      BY <1>3, <2>1, <2>2, <3>1, <3>6 DEF IdleBound
  <2>3. CASE ~(c = d /\ k = l)
    <3>1. Busy(c, k) => Busy(c, k)'
      <4> SUFFICES ASSUME NEW g \in OpFut, Owner(g) = c, Putting(g), key[g] = k
                   PROVE  Busy(c, k)'
        BY DEF Busy
      <4>1. g # f /\ g \in Fut
        BY <1>1, <2>3, FutureKinds
      <4>2. step'[g] = step[g] /\ key'[g] = key[g]
        BY <1>f, <4>1 DEF Others, Still
      <4> QED
        BY <4>2 DEF Busy, Putting, Owner
    <3>2. cache'[c][k] = cache[c][k] /\ (k \in valid'[c] => k \in valid[c])
      BY <1>2, <2>3
    <3>3. ASSUME ~Busy(c, k)', RegCache, k \in valid'[c] PROVE r.seq <= cache'[c][k].seq
      BY <2>0, <2>1, <3>1, <3>2, <3>3 DEF IdleBound
    <3> QED
      BY <1>0, <1>f, <2>0, <2>1, <3>1, <3>3, IdleKept
  <2> QED
    BY <2>2, <2>3
<1>6. StaysBounded(f)
  BY <1>5 DEF StaysBounded, PutBound, ReadBound, Putting
<1> QED
  BY <1>0, <1>4, <1>6, <1>f, <1>u, NamesStep

LEMMA StepPutNames ==
    ASSUME SessInv, NamesInv, TagInv', Raised, HistUpdate, PutsExclusive', NEW f \in OpFut, StepPut(f),
           NumClients <= 256
    PROVE  NamesInv'
<1>1. TypeOK /\ f \in Fut
  BY StoreTypes, FutureKinds DEF SessInv
<1>t. step \in [Fut -> Step]
  BY <1>1, AbdTypes
<1>2. step'[f] \in {"CAS", "Done"}
  BY <1>1, <1>t DEF StepPut, PutStepReadSeq, PutStepOptimistic, PutStepCAS, PutStepOutrun, PutDone,
                    PutAgain
<1> QED
  BY <1>2, PutRoundNames, PutDoneNames

-----------------------------------------------------------------------------
LEMMA NextNamesInv ==
    ASSUME SessInv, NamesInv, NoWrap, PutsExclusive', HistNext, NumClients <= 256
    PROVE  NamesInv'
<1>u. Next /\ HistUpdate
  BY DEF HistNext
<1>t. TagInv'
  BY <1>u, NextTagInv DEF SessInv, StoreInv
<1>y. TypeOK'
  BY <1>t DEF TagInv, AccountingInv
<1>r. Raised
  BY <1>u, StepRaises DEF SessInv, StoreInv, Raised
<1>1. ASSUME NEW c \in Client, NEW i \in Slot, Nic(c, i) PROVE NamesInv'
  BY <1>1, <1>u, <1>y, NicReadNames, NicCasNames, NicBulkNames, NicErrorNames DEF Nic
<1>2. ASSUME NEW s \in Server, ServerCrash(s) PROVE NamesInv'
  BY <1>2, <1>u, <1>y, IdleNames DEF ServerCrash
<1>3. ASSUME NEW c \in Client, TickRdma(c) PROVE NamesInv'
  BY <1>3, <1>u, <1>y, TickNames
<1>4. ASSUME NEW c \in Client, TickRdmaThrows(c) PROVE NamesInv'
  BY <1>4, <1>u, <1>y, IdleNames DEF TickRdmaThrows
<1>5. ASSUME NEW f \in Fut, ClientStep(f) PROVE NamesInv'
  <2>1. CASE StepBlocked(f)
    BY <2>1, <1>u, <1>y, IdleNames DEF StepBlocked, PostNothing
  <2>2. CASE ~StepBlocked(f)
    BY <1>5, <1>r, <1>t, <1>u, <2>2, StepPutNames, StepGetNames, StepRangeNames DEF ClientStep
  <2> QED
    BY <2>1, <2>2
<1>6. ASSUME NEW f \in Fut, Start(f) PROVE NamesInv'
  BY <1>6, <1>r, <1>t, <1>u, StartPutNames, StartGetNames, StartRangeNames DEF Start
<1> QED
  BY <1>u, <1>1, <1>2, <1>3, <1>4, <1>5, <1>6 DEF Next

LEMMA InitNamesInv == HistInit => NamesInv
<1> SUFFICES ASSUME HistInit PROVE NamesInv
  OBVIOUS
<1>i. /\ \A f \in Fut : step[f] = "Done"
      /\ \A s \in Server, k \in Key : mem[s][k] = ZeroRegister
      /\ seen = [c \in Client |-> Blank] /\ valid = [c \in Client |-> {}]
  BY DEF HistInit, Init, StateInit
<1>1. ASSUME NEW k \in Key, NEW r, Live(k, r) PROVE r = ZeroRegister
  BY <1>1, <1>i, FutureKinds DEF Live, Target
<1>2. ASSUME NEW k \in Key PROVE LiveBound(k, ZeroRegister)
  <2>1. ZeroRegister.seq = 0 /\ ZeroRegister.client_id \in Client
    BY ZeroRegisterType DEF Register, ZeroRegister
  <2>2. PICK c \in Client : c = ZeroRegister.client_id
    BY <2>1
  <2>3. seen[c][k] = ZeroRegister /\ valid[c] = {}
    BY <1>i DEF Blank
  <2>4. IdleBound(k, ZeroRegister)
    BY <2>1, <2>2, <2>3 DEF IdleBound
  <2> QED
    BY <1>i, <2>4 DEF LiveBound, PutBound, ReadBound, Putting
<1>3. LiveBounded /\ LiveNamed
  BY <1>1, <1>2 DEF LiveBounded, LiveNamed
<1>4. \A f \in Fut : WritesOwn(f)
  BY <1>i DEF WritesOwn
<1> QED
  BY <1>3, <1>4 DEF NamesInv

LEMMA StutterNamesInv ==
    ASSUME SessInv, NamesInv, UNCHANGED allVars
    PROVE  NamesInv'
<1>u. /\ UNCHANGED << mem, sq, cq, step, key, bufs, expected, needs_cas, success_count >>
      /\ UNCHANGED << target_reg, max_reg, end_key, bulk_bufs, seen, floor, vars >>
      /\ UNCHANGED << value, cache, valid >>
  BY DEF allVars, vars, histVars, stateVars, putVars, rangeVars
<1>1. \A f, i : Out(f, i)' = Out(f, i) /\ (Closed(f, i)' <=> Closed(f, i))
  BY <1>u DEF Out, Failed, Closed, Within, Owner
<1>2. \A k, r : Live(k, r)' <=> Live(k, r)
  BY <1>1, <1>u DEF Live, Target
<1>3. \A c, k : Busy(c, k)' <=> Busy(c, k)
  BY <1>u DEF Busy, Putting, Owner
<1>4. \A k, r : IdleBound(k, r)' <=> IdleBound(k, r)
  BY <1>3, <1>u DEF IdleBound
<1>5. \A f, k, r : (PutBound(f, k, r)' <=> PutBound(f, k, r)) /\ (ReadBound(f, k, r)' <=> ReadBound(f, k, r))
  BY <1>u DEF PutBound, ReadBound, Putting, KeysRead, KeysOf, Own, Owner
<1>6. \A k, r : LiveBound(k, r)' <=> LiveBound(k, r)
  BY <1>4, <1>5 DEF LiveBound
<1>7. LiveBounded' /\ LiveNamed'
  BY <1>2, <1>6 DEF NamesInv, LiveBounded, LiveNamed
<1>8. \A f \in Fut : WritesOwn(f)'
  BY <1>1, <1>u DEF NamesInv, WritesOwn, Owner
<1> QED
  BY <1>7, <1>8 DEF NamesInv

\* A tag names one value, whichever of up to 256 clients write a register (as
\* many as the uint8_t client_idx of disco_skip_state.hpp tells apart; nothing
\* in the code refuses more, and then two writers share an id), with or without
\* the gets' writeback and with or without the cache, while a client's puts
\* overlap no other operation of its own on the same register: two replicas that
\* hold the same tag hold the same value, so the max-tag merge of gets and scans
\* (tryStepForward) does not depend on which of them it keeps.
THEOREM TagsNameValues ==
    ASSUME NumClients <= 256
    PROVE  HistSpec /\ []NoWrap /\ []PutsExclusive => []TagsIdentifyValues
<1>1. SessInv /\ NamesInv => TagsIdentifyValues
  <2> SUFFICES ASSUME SessInv, NamesInv, NEW s \in Server, NEW t \in Server, NEW k \in Key,
                      mem[s][k].seq = mem[t][k].seq, mem[s][k].client_id = mem[t][k].client_id
               PROVE  mem[s][k].value = mem[t][k].value
    BY DEF TagsIdentifyValues
  <2>1. mem[s][k] \in Register /\ mem[t][k] \in Register
    BY StoreTypes, AbdTypes DEF SessInv
  <2>2. Live(k, mem[s][k]) /\ Live(k, mem[t][k])
    BY DEF Live
  <2> QED
    BY <2>1, <2>2 DEF NamesInv, LiveNamed
<1>2. SessInv /\ NoWrap /\ [HistNext]_allVars => SessInv'
  BY NextSessInv, StutterSessInv
<1>3. SessInv /\ NamesInv /\ NoWrap /\ PutsExclusive' /\ [HistNext]_allVars => NamesInv'
  BY NextNamesInv, StutterNamesInv
<1> QED
  BY <1>1, <1>2, <1>3, InitSessInv, InitNamesInv, PTL DEF HistSpec

\* A scan in progress is one its client issues.
ScansOwn == \A f \in RangeFut : step[f] # "Done" => "range" \in Ops[Owner(f)]

LEMMA NextScansOwn == TypeOK /\ ScansOwn /\ [Next]_vars => ScansOwn'
<1> SUFFICES ASSUME TypeOK, ScansOwn, [Next]_vars, NEW f \in RangeFut, step'[f] # "Done"
             PROVE  "range" \in Ops[Owner(f)]
  BY DEF ScansOwn, Owner
<1>1. CASE step[f] # "Done"
  BY <1>1 DEF ScansOwn
<1>2. CASE step[f] = "Done"
  <2>1. Next
    BY <1>2 DEF vars, stateVars
  <2>2. f \in Fut /\ f \notin OpFut
    BY FutureKinds
  <2>3. ~StepRange(f)
    <3> SUFFICES ASSUME StepRange(f) PROVE FALSE
      OBVIOUS
    <3>1. PICK acc : RangeFinish(f, acc)
      BY DEF StepRange, RangeStepReading
    <3> QED
      BY <1>2, <3>1 DEF RangeFinish
  <2>4. StartRange(f)
    BY <1>2, <2>1, <2>2, <2>3, MovedBy DEF ClientStep, Start
  <2> QED
    BY <2>4 DEF StartRange, Issue
<1> QED
  BY <1>1, <1>2

\* With one future of each kind per client, and no client that both puts and
\* scans, a client's puts overlap none of its other operations, and a tag names
\* one value in the store of up to 256 clients, whoever writes and whether or
\* not gets write back (main.cpp runs with async_parallelism 1 unless told otherwise).
THEOREM OneFutureNames ==
    ASSUME AsyncParallelism = 1, NumClients <= 256,
           \A c \in Client : ~("put" \in Ops[c] /\ "range" \in Ops[c])
    PROVE  HistSpec /\ []NoWrap => []TagsIdentifyValues
<1>1. PutsOwn /\ ScansOwn => PutsExclusive
  <2> SUFFICES ASSUME PutsOwn, ScansOwn, NEW f \in OpFut, NEW g \in Fut, Putting(f),
                      step[g] # "Done", Owner(g) = Owner(f)
               PROVE  g = f
    BY DEF PutsExclusive
  <2>1. "put" \in Ops[Owner(f)] /\ Owner(f) \in Client
    BY FutureKinds, OwnerType DEF PutsOwn, Writes
  <2>2. g \notin RangeFut
    BY <2>1 DEF ScansOwn
  <2>3. g \in OpFut
    BY <2>2, FutureKinds
  <2>4. 0 .. (AsyncParallelism - 1) = {0}
    OBVIOUS
  <2>5. f = << "op", Owner(f), 0 >> /\ g = << "op", Owner(g), 0 >>
    BY <2>3, <2>4 DEF OpFut, Owner
  <2> QED
    BY <2>5
<1>2. Init => PutsOwn /\ ScansOwn
  BY FutureKinds DEF Init, StateInit, PutsOwn, ScansOwn, Putting
<1>3. Spec => []PutsExclusive
  BY <1>1, <1>2, TypeCorrect, NextPutsOwn, NextScansOwn, PTL DEF Spec
<1> QED
  BY <1>3, HistIsSpec, TagsNameValues, PTL
=============================================================================

----------------------------- MODULE DsTagProofs ----------------------------
(***************************************************************************)
(* Proof that the tag of a register never falls on any memory server, as    *)
(* long as no 16-bit sequence number has reached its last value.            *)
(***************************************************************************)
EXTENDS DsAccountingProofs

\* No register of a memory server and no target of a put has reached the last
\* sequence number: none of the increments so far wrapped to 0.
NoWrap ==
    /\ \A s \in Server, k \in Key : mem[s][k].seq < SeqMod - 1
    /\ \A f \in OpFut : target_reg[f].seq < SeqMod - 1

LowRegister == {r \in Register : r.seq < SeqMod - 1}

\* What clients have read or cached came from such registers.
CopiesLow ==
    /\ cache \in [Client -> [Key -> LowRegister]]
    /\ bufs \in [OpFut -> [Slot -> LowRegister]]
    /\ bulk_bufs \in [RangeFut -> [Slot -> [Key -> LowRegister]]]

\* Client c's queues hold its own work requests, and a CAS that takes effect
\* does not lower the tag.
RaisingWR(c) ==
    {w \in WorkRequest : /\ Owner(w.fut) = c
                         /\ w.op = "cas" => RegLeq(w.expected, w.target)}

QueuesRaise ==
    \A c \in Client, i \in Slot : sq[c][i] \in Seq(RaisingWR(c))

\* A put in state st, with needs_cas nc, expected ex, swap_bufs bf and target tg:
\* what it still has to swap is below the target, and so is what it last saw of
\* a settled slot that comes before one that is not.  (Of the slots after an
\* outrun one nothing is known: the loop counts them as done unseen.)
PutBelow(st, nc, ex, bf, tg) ==
    /\ st = "OptimisticChain" => \A i \in Slot : ex[i].seq < tg.seq
    /\ st = "CAS" => \A i \in Slot : nc[i] => ex[i].seq < tg.seq
    /\ st = "CAS" => \A i, j \in Slot : i < j /\ nc[j] /\ ~nc[i] => bf[i].seq < tg.seq

PutsBelow ==
    \A f \in OpFut :
        PutBelow(step[f], needs_cas[f], expected[f], bufs[f], target_reg[f])

\* The queue q holds a work request of f.
HasOf(q, f) == \E m \in 1 .. Len(q) : q[m].fut = f

\* A retrying put has nothing posted to the slots it is done with.
PendingNeeded ==
    \A f \in OpFut, i \in Slot :
        step[f] = "CAS" /\ HasOf(sq[Owner(f)][i], f) => needs_cas[f][i]

TagInv == AccountingInv /\ CopiesLow /\ QueuesRaise /\ PutsBelow /\ PendingNeeded

-----------------------------------------------------------------------------
LEMMA LowFacts ==
    /\ ZeroRegister \in LowRegister
    /\ LowRegister \subseteq Register
    /\ \A r \in LowRegister : r.seq \in Nat /\ r.seq < SeqMod - 1 /\ NextSeq(r.seq) = r.seq + 1
    /\ \A r \in Register : r.seq \in Nat /\ r.client_id \in Nat
BY ZeroRegisterType, SeqModAssumption, NumClientsAssumption
   DEF LowRegister, ZeroRegister, Register, Seq16, Client, NextSeq

\* A larger sequence number is a larger tag.
LEMMA SeqRaises ==
    ASSUME NEW a \in Register, NEW b \in Register, a.seq < b.seq
    PROVE  RegLeq(a, b)
BY LowFacts DEF RegLeq, RegLess

\* A future that is quiet has nothing posted.
LEMMA QuietHasNone ==
    ASSUME AccountingInv, NEW f \in Fut, Quiet(f), NEW i \in Slot
    PROVE  ~HasOf(sq[Owner(f)][i], f)
<1> DEFINE s == sq[Owner(f)][i]
           q == cq[Owner(f)][i]
<1>1. ongoing[f][i] = CountOf(s, f) + CountOf(q, f)
  BY OwnerType, PollAccountingBySlot DEF AccountingInv, SlotBalanced
<1>2. s \in Seq(WorkRequest) /\ q \in Seq(Completion)
  BY OwnerType DEF AccountingInv, TypeOK, StateTypeOK
<1>3. CountOf(s, f) \in Nat /\ CountOf(q, f) \in Nat
  BY <1>2, CountType
<1>4. CountOf(s, f) = 0
  BY <1>1, <1>3 DEF Quiet
<1> HIDE DEF s
<1>5. IsFiniteSet(PlacesOf(s, Len(s), f)) /\ Cardinality(PlacesOf(s, Len(s), f)) = 0
  BY <1>2, <1>4, PlacesFinite DEF CountOf
<1>6. PlacesOf(s, Len(s), f) = {}
  BY <1>5, FS_EmptySet
<1> QED
  BY <1>6 DEF PlacesOf, HasOf, s

LEMMA HasOfTail ==
    ASSUME NEW T, NEW q \in Seq(T), q # << >>, NEW f, HasOf(Tail(q), f)
    PROVE  HasOf(q, f)
<1> DEFINE r == Tail(q)
<1>1. /\ r \in Seq(T) /\ Len(r) = Len(q) - 1
      /\ \A m \in 1 .. Len(r) : r[m] = q[m + 1]
  BY HeadTailProperties
<1> HIDE DEF r
<1>2. PICK m \in 1 .. Len(r) : r[m].fut = f
  BY DEF HasOf, r
<1>3. m + 1 \in 1 .. Len(q) /\ q[m + 1].fut = f
  BY <1>1, <1>2
<1> QED
  BY <1>3 DEF HasOf

LEMMA HasOfHead ==
    ASSUME NEW T, NEW q \in Seq(T), q # << >>
    PROVE  HasOf(q, Head(q).fut)
<1>1. 1 \in 1 .. Len(q) /\ q[1] = Head(q)
  OBVIOUS
<1> QED
  BY <1>1 DEF HasOf

LEMMA HasOfReplacedHead ==
    ASSUME NEW T, NEW q \in Seq(T), q # << >>, NEW e \in T, e.fut = Head(q).fut, NEW f,
           HasOf(<< e >> \o Tail(q), f)
    PROVE  HasOf(q, f)
<1> DEFINE z == << e >> \o Tail(q)
<1>1. /\ Len(z) = Len(q) /\ z[1] = e /\ q[1] = Head(q)
      /\ \A m \in 2 .. Len(q) : z[m] = q[m]
  OBVIOUS
<1> HIDE DEF z
<1>2. PICK m \in 1 .. Len(q) : z[m].fut = f
  BY <1>1 DEF HasOf, z
<1>3. q[m].fut = f
  <2>1. CASE m = 1
    BY <1>1, <1>2, <2>1
  <2>2. CASE m # 1
    <3>1. m \in 2 .. Len(q)
      BY <1>2, <2>2
    <3> QED
      BY <1>1, <1>2, <3>1
  <2> QED
    BY <2>1, <2>2
<1> QED
  BY <1>2, <1>3 DEF HasOf

LEMMA HasOfAppend ==
    ASSUME NEW T, NEW q \in Seq(T), NEW e, NEW f, HasOf(Append(q, e), f), e.fut # f
    PROVE  HasOf(q, f)
<1> DEFINE a == Append(q, e)
<1>1. /\ Len(a) = Len(q) + 1 /\ a[Len(q) + 1] = e /\ Len(q) \in Nat
      /\ \A m \in 1 .. Len(q) : a[m] = q[m]
  <2>1. q \in Seq(T \cup {e})
    BY SeqMonotonic
  <2> QED
    BY <2>1, AppendProperties
<1> HIDE DEF a
<1>2. PICK m \in 1 .. Len(a) : a[m].fut = f
  BY DEF HasOf, a
<1>3. m \in 1 .. Len(q) /\ q[m].fut = f
  BY <1>1, <1>2
<1> QED
  BY <1>3 DEF HasOf

\* The servers' steps keep the invariant.
LEMMA NicTags ==
    ASSUME TagInv, NoWrap, NEW c \in Client, NEW i \in Slot, Nic(c, i)
    PROVE  CopiesLow' /\ QueuesRaise' /\ PutsBelow' /\ PendingNeeded'
<1> DEFINE s == sq[c][i]
           w == Head(s)
           srv == quorum_indices(c, i)
           r == mem[srv][w.key]
<1>u. UNCHANGED << step, cache, putVars >>
  BY DEF Nic, NicRead, NicCas, NicBulkWord, NicError
<1>e. s # << >>
  BY DEF Nic, NicRead, NicCas, NicBulkWord, NicError, Executable
<1>t. /\ sq \in [Client -> [Slot -> Seq(WorkRequest)]]
      /\ mem \in [Server -> [Key -> Register]]
      /\ bufs \in [OpFut -> [Slot -> LowRegister]]
      /\ bulk_bufs \in [RangeFut -> [Slot -> [Key -> LowRegister]]]
      /\ end_key \in [RangeFut -> Key]
  BY DEF TagInv, AccountingInv, TypeOK, StateTypeOK, RangeTypeOK, CopiesLow
<1>s. s \in Seq(RaisingWR(c)) /\ s \in Seq(WorkRequest)
  BY <1>t DEF TagInv, QueuesRaise
<1>w. w \in RaisingWR(c) /\ w \in WorkRequest /\ w.key \in Key /\ Owner(w.fut) = c
  <2>1. w \in RaisingWR(c)
    BY <1>s, <1>e
  <2> QED
    BY <2>1 DEF RaisingWR, WorkRequest
<1>r. r \in LowRegister
  BY <1>t, <1>w, ReplicaType DEF NoWrap, LowRegister
<1>has. HasOf(s, w.fut)
  BY <1>s, <1>e, HasOfHead
<1>1. PICK S : /\ sq' = [sq EXCEPT ![c][i] = S] /\ S \in Seq(RaisingWR(c))
               /\ \A g : HasOf(S, g) => HasOf(s, g)
  <2>1. CASE sq' = [sq EXCEPT ![c][i] = Tail(s)]
    <3>1. Tail(s) \in Seq(RaisingWR(c))
      BY <1>s, <1>e
    <3>2. \A g : HasOf(Tail(s), g) => HasOf(s, g)
      <4> HIDE DEF s
      <4> QED
        BY <1>s, <1>e, HasOfTail
    <3> QED
      BY <2>1, <3>1, <3>2
  <2>2. CASE /\ w.op = "bulk" /\ w.key < end_key[w.fut]
             /\ sq' = [sq EXCEPT ![c][i] = << [w EXCEPT !.key = w.key + 1] >> \o Tail(s)]
    <3> DEFINE v == [w EXCEPT !.key = w.key + 1]
               z == << v >> \o Tail(s)
    <3>1. w \in [fut : RangeFut, op : {"bulk"}, key : Key,
                 expected : {ZeroRegister}, target : {ZeroRegister}]
      BY <1>w, <2>2 DEF WorkRequest
    <3>2. w.key + 1 \in Key
      BY <1>t, <2>2, <3>1, RegistersAssumption DEF Key
    <3>3. v \in RaisingWR(c) /\ v.fut = w.fut
      BY <3>1, <3>2, <1>w DEF WorkRequest, RaisingWR
    <3>4. z \in Seq(RaisingWR(c))
      BY <3>3, <1>s, <1>e
    <3>5. \A g : HasOf(z, g) => HasOf(s, g)
      <4> HIDE DEF v, s
      <4> QED
        BY <1>s, <1>e, <3>3, HasOfReplacedHead DEF s
    <3> QED
      BY <2>2, <3>4, <3>5
  <2>3. \/ sq' = [sq EXCEPT ![c][i] = Tail(s)]
        \/ /\ w.op = "bulk" /\ w.key < end_key[w.fut]
           /\ sq' = [sq EXCEPT ![c][i] = << [w EXCEPT !.key = w.key + 1] >> \o Tail(s)]
    BY DEF Nic, NicRead, NicCas, NicBulkWord, NicError, Complete, Executable
  <2> QED
    BY <2>1, <2>2, <2>3
<1>2. \/ bufs' = bufs
      \/ w.fut \in OpFut /\ bufs' = [bufs EXCEPT ![w.fut][i] = r]
  <2>1. ASSUME w.op # "bulk" PROVE w.fut \in OpFut
    BY <1>w, <2>1 DEF WorkRequest
  <2> QED
    BY <2>1 DEF Nic, NicRead, NicCas, NicBulkWord, NicError, Executable
<1>3. \/ bulk_bufs' = bulk_bufs
      \/ w.fut \in RangeFut /\ bulk_bufs' = [bulk_bufs EXCEPT ![w.fut][i][w.key] = r]
  <2>1. ASSUME w.op = "bulk" PROVE w.fut \in RangeFut
    BY <1>w, <2>1 DEF WorkRequest
  <2> QED
    BY <2>1 DEF Nic, NicRead, NicCas, NicBulkWord, NicError, Executable, rangeVars
<1> HIDE DEF r, w, s
<1>4. CopiesLow'
  <2>1. bufs' \in [OpFut -> [Slot -> LowRegister]]
    <3> DEFINE g == w.fut
    <3>1. ASSUME g \in OpFut, bufs' = [bufs EXCEPT ![g][i] = r]
          PROVE  bufs' \in [OpFut -> [Slot -> LowRegister]]
      <4> HIDE DEF g
      <4> QED
        BY <3>1, <1>t, <1>r
    <3> QED
      BY <1>2, <1>t, <3>1
  <2>2. bulk_bufs' \in [RangeFut -> [Slot -> [Key -> LowRegister]]]
    <3> DEFINE g == w.fut
               k == w.key
    <3>1. ASSUME g \in RangeFut, bulk_bufs' = [bulk_bufs EXCEPT ![g][i][k] = r]
          PROVE  bulk_bufs' \in [RangeFut -> [Slot -> [Key -> LowRegister]]]
      <4>1. k \in Key
        BY <1>w
      <4> HIDE DEF g, k
      <4> QED
        BY <3>1, <4>1, <1>t, <1>r
    <3> QED
      BY <1>3, <1>t, <3>1
  <2> QED
    BY <1>u, <2>1, <2>2 DEF TagInv, CopiesLow
<1>5. QueuesRaise'
  <2> SUFFICES ASSUME NEW d \in Client, NEW j \in Slot PROVE sq'[d][j] \in Seq(RaisingWR(d))
    BY DEF QueuesRaise, RaisingWR
  <2>1. sq[d][j] \in Seq(RaisingWR(d))
    BY DEF TagInv, QueuesRaise
  <2>2. sq'[d][j] = IF d = c /\ j = i THEN S ELSE sq[d][j]
    BY <1>1, <1>t
  <2> QED
    BY <1>1, <2>1, <2>2
<1>6. PutsBelow'
  <2> SUFFICES ASSUME NEW g \in OpFut
               PROVE  PutBelow(step[g], needs_cas[g], expected[g], bufs'[g], target_reg[g])
    BY <1>u DEF PutsBelow, putVars
  <2>1. PutBelow(step[g], needs_cas[g], expected[g], bufs[g], target_reg[g])
    BY DEF TagInv, PutsBelow
  <2>2. CASE bufs'[g] = bufs[g]
    BY <2>1, <2>2
  <2>3. CASE g = w.fut /\ bufs' = [bufs EXCEPT ![w.fut][i] = r]
    <3>1. step[g] = "CAS" => needs_cas[g][i]
      BY <1>has, <1>w, <2>3 DEF TagInv, PendingNeeded, s
    <3>2. \A j \in Slot : j # i => bufs'[g][j] = bufs[g][j]
      BY <2>3, <1>t
    <3> QED
      BY <2>1, <3>1, <3>2 DEF PutBelow
  <2> QED
    BY <1>2, <1>t, <2>2, <2>3
<1>7. PendingNeeded'
  <2> SUFFICES ASSUME NEW g \in OpFut, NEW j \in Slot, step[g] = "CAS",
                      HasOf(sq'[Owner(g)][j], g)
               PROVE  needs_cas[g][j]
    BY <1>u DEF PendingNeeded, HasOf, putVars
  <2>0. Owner(g) \in Client
    BY OwnerType DEF Fut
  <2>1. sq'[Owner(g)][j] = IF Owner(g) = c /\ j = i THEN S ELSE sq[Owner(g)][j]
    BY <1>1, <1>t, <2>0
  <2>2. HasOf(sq[Owner(g)][j], g)
    BY <1>1, <2>1 DEF s
  <2> QED
    BY <2>2 DEF TagInv, PendingNeeded
<1> QED
  BY <1>4, <1>5, <1>6, <1>7

\* A step that leaves queues, futures and copies alone keeps the invariant.
LEMMA QuietTags ==
    ASSUME TagInv, UNCHANGED << sq, step, bufs, cache, putVars, bulk_bufs >>
    PROVE  CopiesLow' /\ QueuesRaise' /\ PutsBelow' /\ PendingNeeded'
<1>1. CopiesLow'
  BY DEF TagInv, CopiesLow
<1>2. QueuesRaise'
  BY DEF TagInv, QueuesRaise, RaisingWR
<1>3. PutsBelow'
  BY DEF TagInv, PutsBelow, putVars
<1>4. PendingNeeded'
  BY DEF TagInv, PendingNeeded, HasOf, putVars
<1> QED
  BY <1>1, <1>2, <1>3, <1>4

\* Posting raising work requests keeps the queues raising, and adds to a queue
\* only work requests of the future that posts, in the slots it posts to.
LEMMA PostTags ==
    ASSUME TagInv, NEW f \in Fut, NEW S, NEW W, Post(f, S, W),
           \A i \in Slot : i \in S => W[i] \in RaisingWR(Owner(f)) /\ W[i].fut = f
    PROVE  /\ QueuesRaise'
           /\ \A g \in Fut, i \in Slot :
                HasOf(sq'[Owner(g)][i], g) => HasOf(sq[Owner(g)][i], g) \/ (g = f /\ i \in S)
<1> DEFINE c == Owner(f)
<1>t. sq \in [Client -> [Slot -> Seq(WorkRequest)]] /\ c \in Client
  BY OwnerType DEF TagInv, AccountingInv, TypeOK, StateTypeOK
<1>1. ASSUME NEW d \in Client, NEW i \in Slot
      PROVE  sq'[d][i] = IF d = c /\ i \in S THEN Append(sq[d][i], W[i]) ELSE sq[d][i]
  BY <1>t DEF Post
<1> HIDE DEF c
<1>2. ASSUME NEW d \in Client, NEW i \in Slot PROVE sq'[d][i] \in Seq(RaisingWR(d))
  <2>1. sq[d][i] \in Seq(RaisingWR(d))
    BY DEF TagInv, QueuesRaise
  <2>2. CASE d = c /\ i \in S
    <3>1. W[i] \in RaisingWR(d)
      BY <2>2 DEF c
    <3>2. Append(sq[d][i], W[i]) \in Seq(RaisingWR(d))
      BY <2>1, <3>1, AppendProperties
    <3> QED
      BY <1>1, <2>2, <3>2
  <2> QED
    BY <1>1, <2>1, <2>2
<1>3. ASSUME NEW g \in Fut, NEW i \in Slot, HasOf(sq'[Owner(g)][i], g), ~(g = f /\ i \in S)
      PROVE  HasOf(sq[Owner(g)][i], g)
  <2>0. Owner(g) \in Client
    BY OwnerType
  <2>1. CASE Owner(g) = c /\ i \in S
    <3>1. W[i].fut # g
      BY <1>3, <2>1
    <3>2. sq'[Owner(g)][i] = Append(sq[Owner(g)][i], W[i])
      BY <1>1, <2>0, <2>1
    <3>3. sq[Owner(g)][i] \in Seq(WorkRequest)
      BY <1>t, <2>0
    <3> QED
      BY <1>3, <3>1, <3>2, <3>3, HasOfAppend
  <2> QED
    BY <1>1, <1>3, <2>0, <2>1
<1>4. QueuesRaise'
  BY <1>2 DEF QueuesRaise, RaisingWR
<1> QED
  BY <1>3, <1>4

\* The work requests the futures build: reads and bulk reads raise nothing, and a
\* CAS raises if its target's tag is not below the expected one.
LEMMA RaisingRequests ==
    /\ \A f \in OpFut, k \in Key : /\ ReadWR(f, k) \in RaisingWR(Owner(f))
                                   /\ ReadWR(f, k).fut = f
    /\ \A f \in RangeFut, k \in Key : /\ BulkWR(f, k) \in RaisingWR(Owner(f))
                                      /\ BulkWR(f, k).fut = f
    /\ \A f \in OpFut, k \in Key, e, t \in Register :
         RegLeq(e, t) => /\ CasWR(f, k, e, t) \in RaisingWR(Owner(f))
                         /\ CasWR(f, k, e, t).fut = f
<1>1. \A f \in OpFut, k \in Key : /\ ReadWR(f, k) \in RaisingWR(Owner(f))
                                  /\ ReadWR(f, k).fut = f
  BY WorkRequestTypes DEF ReadWR, RaisingWR
<1>2. \A f \in RangeFut, k \in Key : /\ BulkWR(f, k) \in RaisingWR(Owner(f))
                                     /\ BulkWR(f, k).fut = f
  BY WorkRequestTypes DEF BulkWR, RaisingWR
<1>3. ASSUME NEW f \in OpFut, NEW k \in Key, NEW e \in Register, NEW t \in Register,
             RegLeq(e, t)
      PROVE  /\ CasWR(f, k, e, t) \in RaisingWR(Owner(f))
             /\ CasWR(f, k, e, t).fut = f
  <2> DEFINE w == CasWR(f, k, e, t)
  <2>1. w \in WorkRequest
    BY WorkRequestTypes
  <2>2. w.fut = f /\ w.expected = e /\ w.target = t
    BY DEF CasWR
  <2> HIDE DEF w
  <2>3. w \in RaisingWR(Owner(f)) /\ w.fut = f
    BY <1>3, <2>1, <2>2 DEF RaisingWR
  <2> QED
    BY <2>3 DEF w
<1> QED
  BY <1>1, <1>2, <1>3

\* A target built from a sequence number that is not the last is one above it.
LEMMA TargetAbove ==
    ASSUME NEW f \in OpFut, NEW v \in Value, NEW z \in Nat, z < SeqMod - 1
    PROVE  /\ MkRegister(NextSeq(z), Owner(f), v) \in Register
           /\ MkRegister(NextSeq(z), Owner(f), v).seq = z + 1
<1>1. z \in Seq16 /\ NextSeq(z) = z + 1
  BY SeqModAssumption DEF Seq16, NextSeq
<1>2. Owner(f) \in Client
  BY OwnerType DEF Fut
<1>3. MkRegister(NextSeq(z), Owner(f), v) \in Register
  BY <1>1, <1>2, NextSeqType, MkRegisterType
<1> QED
  BY <1>1, <1>3 DEF MkRegister

\* What the steps of one future have to show.
LEMMA OneFutureTags ==
    ASSUME TagInv, NEW f \in Fut, NEW S,
           \A g \in OpFut \ {f} :
             /\ step'[g] = step[g] /\ needs_cas'[g] = needs_cas[g]
             /\ expected'[g] = expected[g] /\ bufs'[g] = bufs[g]
             /\ target_reg'[g] = target_reg[g],
           \A g \in Fut, i \in Slot :
             HasOf(sq'[Owner(g)][i], g) => HasOf(sq[Owner(g)][i], g) \/ (g = f /\ i \in S),
           f \in OpFut =>
             /\ PutBelow(step'[f], needs_cas'[f], expected'[f], bufs'[f], target_reg'[f])
             /\ step'[f] = "CAS" =>
                  \A i \in Slot : HasOf(sq[Owner(f)][i], f) \/ i \in S => needs_cas'[f][i]
    PROVE  PutsBelow' /\ PendingNeeded'
<1>1. ASSUME NEW g \in OpFut
      PROVE  PutBelow(step'[g], needs_cas'[g], expected'[g], bufs'[g], target_reg'[g])
  <2>1. CASE g = f
    BY <2>1
  <2>2. CASE g # f
    BY <2>2 DEF TagInv, PutsBelow
  <2> QED
    BY <2>1, <2>2
<1>2. ASSUME NEW g \in OpFut, NEW i \in Slot, step'[g] = "CAS", HasOf(sq'[Owner(g)][i], g)
      PROVE  needs_cas'[g][i]
  <2>0. g \in Fut
    BY DEF Fut
  <2>1. CASE g = f
    BY <1>2, <2>0, <2>1
  <2>2. CASE g # f
    BY <1>2, <2>0, <2>2 DEF TagInv, PendingNeeded
  <2> QED
    BY <2>1, <2>2
<1>3. PutsBelow'
  BY <1>1 DEF PutsBelow
<1>4. PendingNeeded'
  BY <1>2 DEF PendingNeeded, HasOf
<1> QED
  BY <1>3, <1>4

\* Starting an operation.
LEMMA StartTags ==
    ASSUME TagInv, NoWrap, NEW f \in Fut, Start(f)
    PROVE  CopiesLow' /\ QueuesRaise' /\ PutsBelow' /\ PendingNeeded'
<1>t. /\ step \in [Fut -> Step] /\ OpFut \subseteq Fut /\ Owner(f) \in Client
      /\ needs_cas \in [OpFut -> [Slot -> BOOLEAN]]
      /\ expected \in [OpFut -> [Slot -> Register]]
      /\ target_reg \in [OpFut -> Register]
      /\ cache \in [Client -> [Key -> LowRegister]]
  BY OwnerType
     DEF TagInv, AccountingInv, TypeOK, StateTypeOK, PutTypeOK, Fut, CopiesLow
<1>1. CASE f \in OpFut /\ StartPut(f)
  <2>1. PICK k \in PutKeys[Owner(f)], v \in Value : DoPutHit(f, k, v) \/ DoPutMiss(f, k, v)
    BY <1>1 DEF StartPut
  <2>k. k \in Key
    BY <2>1, <1>t, PutKeysAssumption
  <2>c. CopiesLow' /\ bufs' = bufs
    BY <1>1, <2>1 DEF StartPut, DoPutHit, DoPutMiss, rangeVars, TagInv, CopiesLow
  <2>2. CASE DoPutHit(f, k, v)
    <3> DEFINE cached == cache[Owner(f)][k]
               tgt == MkRegister(NextSeq(cached.seq), Owner(f), v)
               W == [i \in Slot |-> CasWR(f, k, cached, tgt)]
    <3>1. cached \in LowRegister
      BY <1>t, <2>k
    <3>2. cached \in Register /\ cached.seq \in Nat /\ cached.seq < SeqMod - 1
      BY <3>1, LowFacts
    <3>3. tgt \in Register /\ tgt.seq = cached.seq + 1
      BY <1>1, <3>2, TargetAbove
    <3>4. /\ step' = [step EXCEPT ![f] = "OptimisticChain"]
          /\ needs_cas' = [needs_cas EXCEPT ![f] = [i \in Slot |-> TRUE]]
          /\ expected' = [expected EXCEPT ![f] = [i \in Slot |-> cached]]
          /\ target_reg' = [target_reg EXCEPT ![f] = tgt]
          /\ Post(f, Slot, W)
      BY <2>2 DEF DoPutHit
    <3>5. CasWR(f, k, cached, tgt) \in RaisingWR(Owner(f)) /\ CasWR(f, k, cached, tgt).fut = f
      <4>1. RegLeq(cached, tgt)
        <5> HIDE DEF cached, tgt
        <5> QED
          BY <3>2, <3>3, SeqRaises
      <4> HIDE DEF cached, tgt
      <4> QED
        BY <1>1, <2>k, <3>2, <3>3, <4>1, RaisingRequests
    <3>6. \A i \in Slot : i \in Slot => W[i] \in RaisingWR(Owner(f)) /\ W[i].fut = f
      BY <3>5
    <3> HIDE DEF W, cached, tgt
    <3>7. /\ QueuesRaise'
          /\ \A g \in Fut, i \in Slot :
               HasOf(sq'[Owner(g)][i], g) => HasOf(sq[Owner(g)][i], g) \/ (g = f /\ i \in Slot)
      BY <3>4, <3>6, PostTags
    <3>8. \A g \in OpFut \ {f} :
             /\ step'[g] = step[g] /\ needs_cas'[g] = needs_cas[g]
             /\ expected'[g] = expected[g] /\ bufs'[g] = bufs[g]
             /\ target_reg'[g] = target_reg[g]
      BY <1>t, <2>c, <3>4
    <3>9. /\ step'[f] = "OptimisticChain" /\ \A i \in Slot : expected'[f][i] = cached
          /\ target_reg'[f] = tgt
      BY <1>t, <1>1, <3>4
    <3>10. PutBelow(step'[f], needs_cas'[f], expected'[f], bufs'[f], target_reg'[f])
      BY <3>2, <3>3, <3>9 DEF PutBelow
    <3>11. PutsBelow' /\ PendingNeeded'
      BY <3>7, <3>8, <3>9, <3>10, OneFutureTags
    <3> QED
      BY <2>c, <3>7, <3>11
  <2>3. CASE DoPutMiss(f, k, v)
    <3> DEFINE W == [i \in Slot |-> ReadWR(f, k)]
    <3>1. /\ step' = [step EXCEPT ![f] = "ReadSeq"]
          /\ needs_cas' = [needs_cas EXCEPT ![f] = [i \in Slot |-> FALSE]]
          /\ expected' = expected /\ target_reg' = target_reg
          /\ Post(f, Slot, W)
      BY <2>3 DEF DoPutMiss
    <3>2. \A i \in Slot : i \in Slot => W[i] \in RaisingWR(Owner(f)) /\ W[i].fut = f
      BY <1>1, <2>k, RaisingRequests
    <3> HIDE DEF W
    <3>3. /\ QueuesRaise'
          /\ \A g \in Fut, i \in Slot :
               HasOf(sq'[Owner(g)][i], g) => HasOf(sq[Owner(g)][i], g) \/ (g = f /\ i \in Slot)
      BY <3>1, <3>2, PostTags
    <3>4. \A g \in OpFut \ {f} :
             /\ step'[g] = step[g] /\ needs_cas'[g] = needs_cas[g]
             /\ expected'[g] = expected[g] /\ bufs'[g] = bufs[g]
             /\ target_reg'[g] = target_reg[g]
      BY <1>t, <2>c, <3>1
    <3>5. step'[f] = "ReadSeq"
      BY <1>t, <3>1
    <3>6. PutBelow(step'[f], needs_cas'[f], expected'[f], bufs'[f], target_reg'[f])
      BY <3>5 DEF PutBelow
    <3>7. PutsBelow' /\ PendingNeeded'
      BY <3>3, <3>4, <3>5, <3>6, OneFutureTags
    <3> QED
      BY <2>c, <3>3, <3>7
  <2> QED
    BY <2>1, <2>2, <2>3
<1>2. ASSUME NEW W, Post(f, Slot, W), step' = [step EXCEPT ![f] = "Reading"],
             UNCHANGED << putVars, bufs, cache, bulk_bufs >>,
             \A i \in Slot : W[i] \in RaisingWR(Owner(f)) /\ W[i].fut = f
      PROVE  CopiesLow' /\ QueuesRaise' /\ PutsBelow' /\ PendingNeeded'
  <2>c. CopiesLow'
    BY <1>2 DEF TagInv, CopiesLow
  <2>3. /\ QueuesRaise'
        /\ \A g \in Fut, i \in Slot :
             HasOf(sq'[Owner(g)][i], g) => HasOf(sq[Owner(g)][i], g) \/ (g = f /\ i \in Slot)
    BY <1>2, PostTags
  <2>4. \A g \in OpFut \ {f} :
           /\ step'[g] = step[g] /\ needs_cas'[g] = needs_cas[g]
           /\ expected'[g] = expected[g] /\ bufs'[g] = bufs[g]
           /\ target_reg'[g] = target_reg[g]
    BY <1>t, <1>2 DEF putVars
  <2>5. step'[f] = "Reading"
    BY <1>t, <1>2
  <2>6. PutBelow(step'[f], needs_cas'[f], expected'[f], bufs'[f], target_reg'[f])
    BY <2>5 DEF PutBelow
  <2>7. PutsBelow' /\ PendingNeeded'
    BY <2>3, <2>4, <2>5, <2>6, OneFutureTags
  <2> QED
    BY <2>c, <2>3, <2>7
<1>3. CASE f \in OpFut /\ StartGet(f)
  <2>1. PICK k \in Key : DoGet(f, k)
    BY <1>3 DEF StartGet
  <2> DEFINE W == [i \in Slot |-> ReadWR(f, k)]
  <2>2. \A i \in Slot : W[i] \in RaisingWR(Owner(f)) /\ W[i].fut = f
    BY <1>3, RaisingRequests
  <2>3. /\ Post(f, Slot, W) /\ step' = [step EXCEPT ![f] = "Reading"]
        /\ UNCHANGED << putVars, bufs, cache, bulk_bufs >>
    BY <1>3, <2>1 DEF StartGet, DoGet, rangeVars
  <2> HIDE DEF W
  <2> QED
    BY <1>2, <2>2, <2>3
<1>4. CASE f \in RangeFut /\ StartRange(f)
  <2>1. PICK k \in Key, l \in Key : DoRange(f, k, l)
    BY <1>4 DEF StartRange
  <2> DEFINE W == [i \in Slot |-> BulkWR(f, k)]
  <2>2. \A i \in Slot : W[i] \in RaisingWR(Owner(f)) /\ W[i].fut = f
    BY <1>4, RaisingRequests
  <2>3. /\ Post(f, Slot, W) /\ step' = [step EXCEPT ![f] = "Reading"]
        /\ UNCHANGED << putVars, bufs, cache, bulk_bufs >>
    BY <1>4, <2>1 DEF StartRange, DoRange
  <2> HIDE DEF W
  <2> QED
    BY <1>2, <2>2, <2>3
<1> QED
  BY <1>1, <1>3, <1>4 DEF Start

\* A step that posts nothing and ends the operation of f.
LEMMA EndTags ==
    ASSUME TagInv, NEW f \in Fut, PostNothing, step' = [step EXCEPT ![f] = "Done"],
           bufs' = bufs,
           \A g \in OpFut \ {f} : /\ needs_cas'[g] = needs_cas[g]
                                  /\ expected'[g] = expected[g]
                                  /\ target_reg'[g] = target_reg[g]
    PROVE  QueuesRaise' /\ PutsBelow' /\ PendingNeeded'
<1>t. step \in [Fut -> Step] /\ OpFut \subseteq Fut
  BY DEF TagInv, AccountingInv, TypeOK, StateTypeOK, Fut
<1>q. sq' = sq
  BY DEF PostNothing
<1>1. QueuesRaise'
  BY <1>q DEF TagInv, QueuesRaise, RaisingWR
<1>2. \A g \in OpFut \ {f} :
         /\ step'[g] = step[g] /\ needs_cas'[g] = needs_cas[g]
         /\ expected'[g] = expected[g] /\ bufs'[g] = bufs[g]
         /\ target_reg'[g] = target_reg[g]
  BY <1>t
<1>3. step'[f] = "Done"
  BY <1>t
<1>4. PutBelow(step'[f], needs_cas'[f], expected'[f], bufs'[f], target_reg'[f])
  BY <1>3 DEF PutBelow
<1>5. \A g \in Fut, i \in Slot :
         HasOf(sq'[Owner(g)][i], g) => HasOf(sq[Owner(g)][i], g) \/ (g = f /\ i \in {})
  BY <1>q
<1>6. PutsBelow' /\ PendingNeeded'
  BY <1>2, <1>3, <1>4, <1>5, OneFutureTags
<1> QED
  BY <1>1, <1>6

\* The steps of a get: the writeback only raises tags.
LEMMA StepGetTags ==
    ASSUME TagInv, NEW f \in OpFut, StepGet(f)
    PROVE  CopiesLow' /\ QueuesRaise' /\ PutsBelow' /\ PendingNeeded'
<1>t. /\ step \in [Fut -> Step] /\ f \in Fut /\ OpFut \subseteq Fut /\ Owner(f) \in Client
      /\ cache \in [Client -> [Key -> LowRegister]]
      /\ bufs \in [OpFut -> [Slot -> LowRegister]]
      /\ key[f] \in Key
  BY OwnerType DEF TagInv, AccountingInv, TypeOK, StateTypeOK, Fut, CopiesLow
<1>u. UNCHANGED << putVars, bulk_bufs, bufs >>
  BY DEF StepGet, GetStepReading, GetStepWritingBack, rangeVars
<1>1. CASE GetStepWritingBack(f)
  <2>1. CopiesLow'
    BY <1>1, <1>u DEF GetStepWritingBack, TagInv, CopiesLow
  <2>2. PostNothing /\ step' = [step EXCEPT ![f] = "Done"]
    BY <1>1 DEF GetStepWritingBack
  <2> QED
    BY <1>t, <1>u, <2>1, <2>2, EndTags DEF putVars
<1>2. CASE GetStepReading(f)
  <2>1. PICK m \in {bufs[f][i] : i \in Slot} \cup {ZeroRegister} :
          LET lagging == {i \in Slot : bufs[f][i] # m}
          IN  /\ IsRunningMax(f, m)
              /\ CachePut(Owner(f), key[f], m)
              /\ \/ /\ Post(f, lagging, [i \in Slot |-> CasWR(f, key[f], bufs[f][i], m)])
                    /\ step' = [step EXCEPT ![f] = "WritingBack"]
                 \/ /\ PostNothing
                    /\ step' = [step EXCEPT ![f] = "Done"]
    BY <1>2 DEF GetStepReading
  <2>2. m \in LowRegister
    BY <1>t, <2>1, LowFacts
  <2>3. CopiesLow'
    <3>1. cache' \in [Client -> [Key -> LowRegister]]
      <4> DEFINE c == Owner(f)
                 k == key[f]
      <4>1. cache' = cache \/ cache' = [cache EXCEPT ![c][k] = m]
        BY <2>1 DEF CachePut
      <4>2. c \in Client /\ k \in Key
        BY <1>t
      <4>3. ASSUME cache' = [cache EXCEPT ![c][k] = m]
            PROVE  cache' \in [Client -> [Key -> LowRegister]]
        <5> HIDE DEF c, k
        <5> QED
          BY <1>t, <2>2, <4>2, <4>3
      <4> QED
        BY <1>t, <4>1, <4>3
    <3> QED
      BY <1>u, <3>1 DEF TagInv, CopiesLow
  <2>4. CASE PostNothing /\ step' = [step EXCEPT ![f] = "Done"]
    BY <1>t, <1>u, <2>3, <2>4, EndTags DEF putVars
  <2> DEFINE S == {i \in Slot : bufs[f][i] # m}
             W == [i \in Slot |-> CasWR(f, key[f], bufs[f][i], m)]
  <2>5. CASE Post(f, S, W) /\ step' = [step EXCEPT ![f] = "WritingBack"]
    <3>1. ASSUME NEW i \in Slot PROVE W[i] \in RaisingWR(Owner(f)) /\ W[i].fut = f
      <4>1. ~RegLess(m, bufs[f][i])
        BY <2>1 DEF IsRunningMax
      <4>2. bufs[f][i] \in Register /\ m \in Register
        BY <1>t, <2>2, LowFacts
      <4>3. RegLeq(bufs[f][i], m)
        BY <4>1 DEF RegLeq
      <4> QED
        BY <1>t, <4>2, <4>3, RaisingRequests
    <3> HIDE DEF S, W
    <3>2. /\ QueuesRaise'
          /\ \A g \in Fut, i \in Slot :
               HasOf(sq'[Owner(g)][i], g) => HasOf(sq[Owner(g)][i], g) \/ (g = f /\ i \in S)
      BY <1>t, <2>5, <3>1, PostTags
    <3>3. \A g \in OpFut \ {f} :
             /\ step'[g] = step[g] /\ needs_cas'[g] = needs_cas[g]
             /\ expected'[g] = expected[g] /\ bufs'[g] = bufs[g]
             /\ target_reg'[g] = target_reg[g]
      BY <1>t, <1>u, <2>5 DEF putVars
    <3>4. step'[f] = "WritingBack"
      BY <1>t, <2>5
    <3>5. PutBelow(step'[f], needs_cas'[f], expected'[f], bufs'[f], target_reg'[f])
      BY <3>4 DEF PutBelow
    <3>6. PutsBelow' /\ PendingNeeded'
      BY <1>t, <3>2, <3>3, <3>4, <3>5, OneFutureTags
    <3> QED
      BY <2>3, <3>2, <3>6
  <2> QED
    BY <2>1, <2>4, <2>5
<1> QED
  BY <1>1, <1>2 DEF StepGet

\* The step of a scan.
LEMMA StepRangeTags ==
    ASSUME TagInv, NEW f \in RangeFut, StepRange(f)
    PROVE  CopiesLow' /\ QueuesRaise' /\ PutsBelow' /\ PendingNeeded'
<1>f. f \in Fut /\ Owner(f) \in Client
  BY OwnerType DEF Fut
<1>1. /\ PostNothing /\ step' = [step EXCEPT ![f] = "Done"] /\ bufs' = bufs
      /\ UNCHANGED putVars
  BY DEF RangeFinish, StepRange, RangeStepReading
<1>2. \A g \in OpFut \ {f} : /\ needs_cas'[g] = needs_cas[g]
                             /\ expected'[g] = expected[g]
                             /\ target_reg'[g] = target_reg[g]
  BY <1>1 DEF putVars
<1>3. QueuesRaise' /\ PutsBelow' /\ PendingNeeded'
  BY <1>f, <1>1, <1>2, EndTags
<1>4. PICK acc \in [KeysOf(f) -> {bulk_bufs[f][i][k] : i \in Slot, k \in Key}] :
        RangeFinish(f, acc)
  BY DEF StepRange, RangeStepReading
<1>5. \A k \in KeysOf(f) : acc[k] \in LowRegister
  BY <1>4 DEF TagInv, CopiesLow
<1>6. cache' \in [Client -> [Key -> LowRegister]]
  <2>1. CASE cache' = cache
    BY <2>1 DEF TagInv, CopiesLow
  <2>2. CASE cache' = [cache EXCEPT ![Owner(f)] =
                         [k \in Key |-> IF k \in KeysOf(f) THEN acc[k] ELSE @[k]]]
    BY <1>f, <1>5, <2>2 DEF TagInv, CopiesLow
  <2> QED
    BY <1>4, <2>1, <2>2 DEF RangeFinish
<1>7. CopiesLow'
  BY <1>4, <1>6 DEF RangeFinish, TagInv, CopiesLow
<1> QED
  BY <1>7, <1>3

\* A put that goes round again: every CAS it posts raises its slot.
LEMMA PutAgainTags ==
    ASSUME TagInv, NEW f \in OpFut, Quiet(f), NEW tgt \in Register, PutAgain(f, tgt),
           bufs' = bufs, expected'[f] \in [Slot -> Register],
           \A i \in Slot : needs_cas'[f][i] => expected'[f][i].seq < tgt.seq,
           \A i, j \in Slot : i < j /\ needs_cas'[f][j] /\ ~needs_cas'[f][i]
                              => bufs[f][i].seq < tgt.seq,
           \A g \in OpFut \ {f} : needs_cas'[g] = needs_cas[g] /\ expected'[g] = expected[g]
    PROVE  QueuesRaise' /\ PutsBelow' /\ PendingNeeded' /\ cache' = cache
<1>t. /\ step \in [Fut -> Step] /\ f \in Fut /\ OpFut \subseteq Fut /\ key[f] \in Key
      /\ target_reg \in [OpFut -> Register]
  BY DEF TagInv, AccountingInv, TypeOK, StateTypeOK, PutTypeOK, Fut
<1> DEFINE S == {i \in Slot : needs_cas'[f][i]}
           W == [i \in Slot |-> CasWR(f, key[f], expected'[f][i], tgt)]
<1>1. /\ Post(f, S, W) /\ step' = [step EXCEPT ![f] = "CAS"]
      /\ target_reg' = [target_reg EXCEPT ![f] = tgt] /\ cache' = cache
  BY DEF PutAgain, PostCas
<1>2. ASSUME NEW i \in Slot, i \in S PROVE W[i] \in RaisingWR(Owner(f)) /\ W[i].fut = f
  <2>1. expected'[f][i] \in Register /\ expected'[f][i].seq < tgt.seq
    BY <1>2
  <2>2. RegLeq(expected'[f][i], tgt)
    BY <2>1, SeqRaises
  <2> QED
    BY <1>t, <2>1, <2>2, RaisingRequests
<1>s. \A i \in Slot : i \in S => needs_cas'[f][i]
  OBVIOUS
<1> HIDE DEF S, W
<1>3. /\ QueuesRaise'
      /\ \A g \in Fut, i \in Slot :
           HasOf(sq'[Owner(g)][i], g) => HasOf(sq[Owner(g)][i], g) \/ (g = f /\ i \in S)
  BY <1>t, <1>1, <1>2, PostTags
<1>4. \A g \in OpFut \ {f} :
         /\ step'[g] = step[g] /\ needs_cas'[g] = needs_cas[g]
         /\ expected'[g] = expected[g] /\ bufs'[g] = bufs[g]
         /\ target_reg'[g] = target_reg[g]
  BY <1>t, <1>1
<1>5. step'[f] = "CAS" /\ target_reg'[f] = tgt
  BY <1>t, <1>1
<1>6. PutBelow(step'[f], needs_cas'[f], expected'[f], bufs'[f], target_reg'[f])
  BY <1>5 DEF PutBelow
<1>7. \A i \in Slot : HasOf(sq[Owner(f)][i], f) \/ i \in S => needs_cas'[f][i]
  BY <1>t, <1>s, QuietHasNone DEF TagInv
<1>8. PutsBelow' /\ PendingNeeded'
  BY <1>t, <1>3, <1>4, <1>6, <1>7, OneFutureTags
<1> QED
  BY <1>1, <1>3, <1>8

\* The steps of a put.
LEMMA StepPutTags ==
    ASSUME TagInv, NoWrap, NEW f \in OpFut, StepPut(f)
    PROVE  CopiesLow' /\ QueuesRaise' /\ PutsBelow' /\ PendingNeeded'
<1>t. /\ step \in [Fut -> Step] /\ f \in Fut /\ OpFut \subseteq Fut /\ Owner(f) \in Client
      /\ cache \in [Client -> [Key -> LowRegister]]
      /\ bufs \in [OpFut -> [Slot -> LowRegister]]
      /\ key[f] \in Key /\ value[f] \in Value
      /\ needs_cas \in [OpFut -> [Slot -> BOOLEAN]]
      /\ expected \in [OpFut -> [Slot -> Register]]
      /\ target_reg \in [OpFut -> Register]
  BY OwnerType DEF TagInv, AccountingInv, TypeOK, StateTypeOK, PutTypeOK, Fut, CopiesLow
<1>u. bulk_bufs' = bulk_bufs /\ bufs' = bufs /\ Quiet(f)
  BY DEF StepPut, PutStepReadSeq, PutStepOptimistic, PutStepCAS, PutStepOutrun, rangeVars
<1>b. ASSUME NEW i \in Slot
      PROVE  /\ bufs[f][i] \in Register /\ bufs[f][i].seq \in Nat
             /\ bufs[f][i].seq < SeqMod - 1
  BY <1>t, LowFacts
<1>e. ASSUME NEW i \in Slot PROVE expected[f][i] \in Register /\ expected[f][i].seq \in Nat
  BY <1>t, LowFacts
<1>g. /\ target_reg[f] \in LowRegister /\ target_reg[f].seq \in Nat
      /\ target_reg[f].seq < SeqMod - 1
  <2>1. target_reg[f] \in LowRegister
    BY <1>t DEF NoWrap, LowRegister
  <2> QED
    BY <2>1, LowFacts
<1>z. ASSUME NEW z \in SeqsSeen(f) PROVE z \in Nat /\ z < SeqMod - 1
  BY <1>z, <1>b DEF SeqsSeen
<1>p. PutBelow(step[f], needs_cas[f], expected[f], bufs[f], target_reg[f])
  BY DEF TagInv, PutsBelow
<1>same. ASSUME cache' = cache PROVE CopiesLow'
  BY <1>same, <1>u DEF TagInv, CopiesLow
<1>done. ASSUME PutDone(f),
                \A g \in OpFut \ {f} : needs_cas'[g] = needs_cas[g] /\ expected'[g] = expected[g]
         PROVE  CopiesLow' /\ QueuesRaise' /\ PutsBelow' /\ PendingNeeded'
  <2> DEFINE c == Owner(f)
             k == key[f]
             m == target_reg[f]
  <2>1. cache' = cache \/ cache' = [cache EXCEPT ![c][k] = m]
    BY <1>done DEF PutDone, CachePut
  <2>2. c \in Client /\ k \in Key /\ m \in LowRegister
    BY <1>t, <1>g
  <2>3. ASSUME cache' = [cache EXCEPT ![c][k] = m]
        PROVE  cache' \in [Client -> [Key -> LowRegister]]
    <3> HIDE DEF c, k, m
    <3> QED
      BY <1>t, <2>2, <2>3
  <2>4. CopiesLow'
    BY <1>u, <1>t, <2>1, <2>3 DEF TagInv, CopiesLow
  <2>5. PostNothing /\ step' = [step EXCEPT ![f] = "Done"] /\ target_reg' = target_reg
    BY <1>done DEF PutDone
  <2>6. QueuesRaise' /\ PutsBelow' /\ PendingNeeded'
    BY <1>t, <1>u, <1>done, <2>5, EndTags
  <2> QED
    BY <2>4, <2>6
<1>1. CASE PutStepReadSeq(f)
  <2>1. PICK z \in SeqsSeen(f) \cup {0} :
          /\ IsMaxSeq(f, Slot, 0, z)
          /\ expected' = [expected EXCEPT ![f] = bufs[f]]
          /\ needs_cas' = [needs_cas EXCEPT ![f] = [i \in Slot |-> TRUE]]
          /\ target_reg' = [target_reg EXCEPT ![f] =
                              MkRegister(NextSeq(z), Owner(f), value[f])]
          /\ PostCas(f, Slot, bufs[f], MkRegister(NextSeq(z), Owner(f), value[f]))
          /\ step' = [step EXCEPT ![f] = "CAS"]
          /\ UNCHANGED << cache, valid >>
    BY <1>1 DEF PutStepReadSeq
  <2> DEFINE tgt == MkRegister(NextSeq(z), Owner(f), value[f])
  <2>2. z \in Nat /\ z < SeqMod - 1
    BY <1>z, SeqModAssumption
  <2>3. tgt \in Register /\ tgt.seq = z + 1
    BY <1>t, <2>2, TargetAbove
  <2> HIDE DEF tgt
  <2>4. \A i \in Slot : bufs[f][i].seq < tgt.seq
    BY <1>b, <2>1, <2>2, <2>3 DEF IsMaxSeq
  <2>5. /\ expected'[f] = bufs[f] /\ needs_cas'[f] = [i \in Slot |-> TRUE]
        /\ \A g \in OpFut \ {f} : needs_cas'[g] = needs_cas[g] /\ expected'[g] = expected[g]
    BY <1>t, <2>1
  <2>6. PutAgain(f, tgt)
    <3>1. {i \in Slot : needs_cas'[f][i]} = Slot
      BY <2>5
    <3> QED
      BY <2>1, <2>5, <3>1 DEF PutAgain, tgt
  <2>7. \A i \in Slot : expected'[f][i] = bufs[f][i] /\ needs_cas'[f][i]
    BY <2>5
  <2>8. expected'[f] \in [Slot -> Register]
    BY <1>t, <2>5, LowFacts
  <2>9. QueuesRaise' /\ PutsBelow' /\ PendingNeeded' /\ cache' = cache
    BY <1>u, <2>3, <2>4, <2>5, <2>6, <2>7, <2>8, PutAgainTags
  <2> QED
    BY <2>9, <1>same
<1>2. CASE PutStepOptimistic(f)
  <2> DEFINE won == {i \in Slot : Swapped(f, i)}
             z0 == (target_reg[f].seq - 1) % SeqMod
  <2>1. PICK z \in SeqsSeen(f) \cup {z0} :
          /\ IsMaxSeq(f, Slot \ won, z0, z)
          /\ IF success_count'[f] >= Quorum
             THEN PutDone(f)
             ELSE PutAgain(f, MkRegister(NextSeq(z), Owner(f), value[f]))
    BY <1>2 DEF PutStepOptimistic
  <2>2. /\ step[f] = "OptimisticChain"
        /\ needs_cas' = [needs_cas EXCEPT ![f] = [i \in Slot |-> i \notin won]]
        /\ expected' = [expected EXCEPT ![f] =
             [i \in Slot |-> IF i \in won THEN target_reg[f] ELSE bufs[f][i]]]
    BY <1>2 DEF PutStepOptimistic
  <2>3. /\ \A g \in OpFut \ {f} : needs_cas'[g] = needs_cas[g] /\ expected'[g] = expected[g]
        /\ \A i \in Slot : needs_cas'[f][i] <=> i \notin won
        /\ \A i \in Slot : expected'[f][i] = IF i \in won THEN target_reg[f] ELSE bufs[f][i]
        /\ expected'[f] \in [Slot -> Register]
    BY <1>t, <1>b, <2>2
  <2>4. \A i \in Slot : expected[f][i].seq < target_reg[f].seq
    BY <1>p, <2>2 DEF PutBelow
  <2>5. z0 = target_reg[f].seq - 1 /\ z0 \in Nat /\ z0 < SeqMod - 1
    <3>1. expected[f][1].seq < target_reg[f].seq /\ expected[f][1].seq \in Nat
      BY <1>e, <2>4, SlotFacts
    <3> QED
      BY <1>g, <3>1, SeqModAssumption
  <2>won. \A i \in won : bufs[f][i] = expected[f][i]
    BY DEF Swapped
  <2> HIDE DEF won, z0
  <2>6. z \in Nat /\ z < SeqMod - 1
    BY <1>z, <2>5
  <2> DEFINE tgt == MkRegister(NextSeq(z), Owner(f), value[f])
  <2>7. tgt \in Register /\ tgt.seq = z + 1
    BY <1>t, <2>6, TargetAbove
  <2> HIDE DEF tgt
  <2>8. \A i \in Slot : bufs[f][i].seq < tgt.seq
    <3> TAKE i \in Slot
    <3>1. CASE i \in won
      <4>1. bufs[f][i].seq < target_reg[f].seq
        BY <2>4, <2>won, <3>1
      <4>2. z0 <= z
        BY <2>1 DEF IsMaxSeq
      <4> QED
        BY <1>b, <1>g, <2>5, <2>6, <2>7, <4>1, <4>2
    <3>2. CASE i \notin won
      <4>1. bufs[f][i].seq <= z
        BY <2>1, <3>2 DEF IsMaxSeq
      <4> QED
        BY <1>b, <2>6, <2>7, <4>1
    <3> QED
      BY <3>1, <3>2
  <2>9. CASE PutDone(f)
    BY <2>3, <2>9, <1>done
  <2>10. CASE PutAgain(f, tgt)
    <3>1. \A i \in Slot : needs_cas'[f][i] => expected'[f][i].seq < tgt.seq
      BY <2>3, <2>8
    <3>2. QueuesRaise' /\ PutsBelow' /\ PendingNeeded' /\ cache' = cache
      BY <1>u, <2>3, <2>7, <2>8, <2>10, <3>1, PutAgainTags
    <3> QED
      BY <3>2, <1>same
  <2> QED
    BY <2>1, <2>9, <2>10 DEF tgt
<1>3. CASE PutStepCAS(f)
  <2> DEFINE won == {i \in Slot : needs_cas[f][i] /\ Swapped(f, i)}
             tgt == target_reg[f]
  <2>1. /\ step[f] = "CAS"
        /\ \A i \in Slot : ~Outrun(f, i)
        /\ needs_cas' = [needs_cas EXCEPT ![f] =
              [i \in Slot |-> needs_cas[f][i] /\ i \notin won]]
        /\ expected' = [expected EXCEPT ![f] =
              [i \in Slot |-> IF needs_cas[f][i] THEN bufs[f][i] ELSE expected[f][i]]]
        /\ PutDone(f) \/ PutAgain(f, tgt)
    BY <1>3 DEF PutStepCAS
  <2>2. /\ \A g \in OpFut \ {f} : needs_cas'[g] = needs_cas[g] /\ expected'[g] = expected[g]
        /\ \A i \in Slot : needs_cas'[f][i] <=> needs_cas[f][i] /\ i \notin won
        /\ \A i \in Slot : expected'[f][i] =
             IF needs_cas[f][i] THEN bufs[f][i] ELSE expected[f][i]
        /\ expected'[f] \in [Slot -> Register]
    BY <1>t, <1>b, <2>1
  <2>3. \A i \in Slot : needs_cas'[f][i] => expected'[f][i].seq < tgt.seq
    <3> SUFFICES ASSUME NEW i \in Slot, needs_cas'[f][i] PROVE expected'[f][i].seq < tgt.seq
      OBVIOUS
    <3>1. needs_cas[f][i] /\ ~Swapped(f, i) /\ expected'[f][i] = bufs[f][i]
      BY <2>2
    <3>2. ~(bufs[f][i].seq >= tgt.seq)
      BY <2>1, <3>1 DEF Outrun
    <3> QED
      BY <1>b, <1>g, <3>1, <3>2
  <2>4. \A i, j \in Slot : i < j /\ needs_cas'[f][j] /\ ~needs_cas'[f][i]
                           => bufs[f][i].seq < tgt.seq
    <3> SUFFICES ASSUME NEW i \in Slot, NEW j \in Slot, i < j, needs_cas'[f][j],
                        ~needs_cas'[f][i]
                 PROVE  bufs[f][i].seq < tgt.seq
      OBVIOUS
    <3>1. CASE i \in won
      <4>1. bufs[f][i] = expected[f][i] /\ needs_cas[f][i]
        BY <3>1 DEF Swapped
      <4> QED
        BY <1>p, <2>1, <4>1 DEF PutBelow
    <3>2. CASE i \notin won
      <4>1. ~needs_cas[f][i] /\ needs_cas[f][j]
        BY <2>2, <3>2
      <4> QED
        BY <1>p, <2>1, <4>1 DEF PutBelow
    <3> QED
      BY <3>1, <3>2
  <2>5. CASE PutDone(f)
    BY <2>2, <2>5, <1>done
  <2>6. CASE PutAgain(f, tgt)
    <3>1. tgt \in Register
      BY <1>t
    <3> HIDE DEF tgt
    <3>2. QueuesRaise' /\ PutsBelow' /\ PendingNeeded' /\ cache' = cache
      BY <1>u, <2>2, <2>3, <2>4, <2>6, <3>1, PutAgainTags
    <3> QED
      BY <3>2, <1>same
  <2> QED
    BY <2>1, <2>5, <2>6
<1>4. CASE PutStepOutrun(f)
  <2>1. PICK r \in Slot :
          /\ step[f] = "CAS" /\ Outrun(f, r) /\ \A i \in 1 .. (r - 1) : ~Outrun(f, i)
          /\ needs_cas' = [needs_cas EXCEPT ![f] = [i \in Slot |-> i <= r]]
          /\ expected' = [expected EXCEPT ![f] = bufs[f]]
          /\ PutAgain(f, MkRegister(NextSeq(bufs[f][r].seq), Owner(f), value[f]))
    BY <1>4 DEF PutStepOutrun
  <2> DEFINE z == bufs[f][r].seq
             tgt == MkRegister(NextSeq(z), Owner(f), value[f])
  <2>2. z \in Nat /\ z < SeqMod - 1
    BY <1>b
  <2>3. tgt \in Register /\ tgt.seq = z + 1
    BY <1>t, <2>2, TargetAbove
  <2>4. /\ \A g \in OpFut \ {f} : needs_cas'[g] = needs_cas[g] /\ expected'[g] = expected[g]
        /\ \A i \in Slot : needs_cas'[f][i] <=> i <= r
        /\ expected'[f] = bufs[f] /\ expected'[f] \in [Slot -> Register]
    BY <1>t, <1>b, <2>1
  <2>5. needs_cas[f][r] /\ target_reg[f].seq <= z
    BY <1>b, <1>g, <2>1 DEF Outrun
  <2>6. PutAgain(f, tgt)
    BY <2>1
  <2> HIDE DEF tgt
  <2>7. \A i \in Slot : needs_cas'[f][i] => expected'[f][i].seq < tgt.seq
    <3> SUFFICES ASSUME NEW i \in Slot, i <= r PROVE bufs[f][i].seq < tgt.seq
      BY <2>4
    <3>1. CASE i = r
      BY <2>2, <2>3, <3>1
    <3>2. CASE i # r
      <4>1. i \in 1 .. (r - 1) /\ i < r
        BY <3>2, QuorumAssumption, ServersAssumption DEF Slot
      <4>2. ~Outrun(f, i)
        BY <2>1, <4>1
      <4>3. bufs[f][i].seq < target_reg[f].seq
        <5>1. CASE ~needs_cas[f][i]
          BY <1>p, <2>1, <2>5, <4>1, <5>1 DEF PutBelow
        <5>2. CASE needs_cas[f][i] /\ Swapped(f, i)
          BY <1>p, <2>1, <5>2 DEF PutBelow, Swapped
        <5>3. CASE needs_cas[f][i] /\ ~Swapped(f, i)
          BY <1>b, <1>g, <4>2, <5>3 DEF Outrun
        <5> QED
          BY <5>1, <5>2, <5>3
      <4> QED
        BY <1>b, <1>g, <2>2, <2>3, <2>5, <4>3
    <3> QED
      BY <3>1, <3>2
  <2>8. \A i, j \in Slot : i < j /\ needs_cas'[f][j] /\ ~needs_cas'[f][i]
                           => bufs[f][i].seq < tgt.seq
    BY <2>4, QuorumAssumption, ServersAssumption DEF Slot
  <2>9. QueuesRaise' /\ PutsBelow' /\ PendingNeeded' /\ cache' = cache
    BY <1>u, <2>3, <2>4, <2>6, <2>7, <2>8, PutAgainTags
  <2> QED
    BY <2>9, <1>same
<1> QED
  BY <1>1, <1>2, <1>3, <1>4 DEF StepPut

LEMMA NextTagInv == TagInv /\ NoWrap /\ [Next]_vars => TagInv'
<1> SUFFICES ASSUME TagInv, NoWrap, [Next]_vars PROVE TagInv'
  OBVIOUS
<1>a. AccountingInv'
  BY NextTypeOK, NextAccounting DEF TagInv, AccountingInv
<1> SUFFICES CopiesLow' /\ QueuesRaise' /\ PutsBelow' /\ PendingNeeded'
  BY <1>a DEF TagInv
<1>1. ASSUME NEW c \in Client, NEW i \in Slot, Nic(c, i)
      PROVE  CopiesLow' /\ QueuesRaise' /\ PutsBelow' /\ PendingNeeded'
  BY <1>1, NicTags
<1>2. ASSUME NEW s \in Server, ServerCrash(s)
      PROVE  CopiesLow' /\ QueuesRaise' /\ PutsBelow' /\ PendingNeeded'
  BY <1>2, QuietTags DEF ServerCrash, rangeVars
<1>3. ASSUME NEW c \in Client, TickRdma(c) \/ TickRdmaThrows(c)
      PROVE  CopiesLow' /\ QueuesRaise' /\ PutsBelow' /\ PendingNeeded'
  <2>1. UNCHANGED << sq, step, bufs, cache, putVars, bulk_bufs >>
    BY <1>3 DEF TickRdma, TickRdmaThrows, rangeVars
  <2> QED
    BY <2>1, QuietTags
<1>4. ASSUME NEW f \in Fut, ClientStep(f)
      PROVE  CopiesLow' /\ QueuesRaise' /\ PutsBelow' /\ PendingNeeded'
  <2>1. CASE StepBlocked(f)
    BY <2>1, QuietTags DEF StepBlocked, PostNothing, rangeVars
  <2> QED
    BY <1>4, <2>1, StepPutTags, StepGetTags, StepRangeTags DEF ClientStep
<1>5. ASSUME NEW f \in Fut, Start(f)
      PROVE  CopiesLow' /\ QueuesRaise' /\ PutsBelow' /\ PendingNeeded'
  BY <1>5, StartTags
<1>6. CASE UNCHANGED vars
  BY <1>6, QuietTags DEF vars, stateVars, rangeVars
<1> QED
  BY <1>1, <1>2, <1>3, <1>4, <1>5, <1>6 DEF Next

LEMMA InitTagInv == Init => TagInv
<1> SUFFICES ASSUME Init PROVE TagInv
  OBVIOUS
<1>1. AccountingInv
  BY InitTypeOK, InitAccounting DEF AccountingInv
<1>2. CopiesLow
  BY LowFacts DEF Init, StateInit, RangeInit, CopiesLow
<1>3. QueuesRaise
  <2>1. \A c \in Client, i \in Slot : sq[c][i] = << >>
    BY DEF Init, StateInit
  <2>2. \A T : << >> \in Seq(T)
    OBVIOUS
  <2> QED
    BY <2>1, <2>2 DEF QueuesRaise
<1>4. \A f \in OpFut : step[f] = "Done"
  BY DEF Init, StateInit, Fut
<1>5. PutsBelow /\ PendingNeeded
  BY <1>4 DEF PutsBelow, PutBelow, PendingNeeded
<1> QED
  BY <1>1, <1>2, <1>3, <1>5 DEF TagInv

\* The only step that writes a register is a CAS, and what it swaps in is not
\* below what it swaps out.
LEMMA StepRaises ==
    ASSUME TagInv, [Next]_vars, NEW s \in Server, NEW k \in Key
    PROVE  RegLeq(mem[s][k], mem'[s][k])
<1>t. /\ mem \in [Server -> [Key -> Register]]
      /\ sq \in [Client -> [Slot -> Seq(WorkRequest)]]
  BY DEF TagInv, AccountingInv, TypeOK, StateTypeOK
<1>r. \A a \in Register : RegLeq(a, a)
  BY LowFacts DEF RegLeq, RegLess
<1>u. ASSUME mem' = mem PROVE RegLeq(mem[s][k], mem'[s][k])
  BY <1>u, <1>t, <1>r
<1>1. ASSUME NEW c \in Client, NEW i \in Slot, NicCas(c, i)
      PROVE  RegLeq(mem[s][k], mem'[s][k])
  <2> DEFINE srv == quorum_indices(c, i)
             w == Head(sq[c][i])
             a == mem[srv][w.key]
             b == IF a = w.expected THEN w.target ELSE a
  <2>1. srv \in Server /\ sq[c][i] # << >> /\ sq[c][i] \in Seq(RaisingWR(c))
    BY <1>1, ReplicaType DEF NicCas, Executable, TagInv, QueuesRaise
  <2>2. w \in RaisingWR(c) /\ w.op = "cas"
    BY <1>1, <2>1 DEF NicCas, Executable
  <2>3. w.key \in Key /\ RegLeq(w.expected, w.target) /\ w.target \in Register
    BY <2>2 DEF RaisingWR, WorkRequest
  <2>4. mem' = [mem EXCEPT ![srv][w.key] = b]
    BY <1>1 DEF NicCas
  <2>5. RegLeq(a, b)
    BY <1>t, <1>r, <2>1, <2>3
  <2> HIDE DEF srv, w, b
  <2>6. mem'[s][k] = IF s = srv /\ k = w.key THEN b ELSE mem[s][k]
    BY <1>t, <2>1, <2>3, <2>4
  <2> QED
    BY <1>t, <1>r, <2>5, <2>6
<1>2. ASSUME NEW c \in Client, NEW i \in Slot, Nic(c, i), ~NicCas(c, i) PROVE mem' = mem
  BY <1>2 DEF Nic, NicRead, NicBulkWord, NicError
<1>3. ASSUME NEW x \in Server, ServerCrash(x) PROVE mem' = mem
  BY <1>3 DEF ServerCrash
<1>4. ASSUME NEW c \in Client, TickRdma(c) \/ TickRdmaThrows(c) PROVE mem' = mem
  BY <1>4 DEF TickRdma, TickRdmaThrows
<1>5. ASSUME NEW f \in Fut, ClientStep(f) PROVE mem' = mem
  <2>1. CASE StepPut(f)
    BY <2>1 DEF StepPut, PutStepReadSeq, PutStepOptimistic, PutStepCAS, PutStepOutrun
  <2>2. CASE StepGet(f)
    BY <2>2 DEF StepGet, GetStepReading, GetStepWritingBack
  <2>3. CASE StepRange(f) \/ StepBlocked(f)
    BY <2>3 DEF StepRange, RangeStepReading, RangeFinish, StepBlocked
  <2> QED
    BY <1>5, <2>1, <2>2, <2>3 DEF ClientStep
<1>6. ASSUME NEW f \in Fut, Start(f) PROVE mem' = mem
  BY <1>6 DEF Start, StartPut, StartGet, StartRange, DoPutHit, DoPutMiss, DoGet, DoRange
<1>7. CASE UNCHANGED vars
  BY <1>7, <1>u DEF vars, stateVars
<1> QED
  BY <1>u, <1>1, <1>2, <1>3, <1>4, <1>5, <1>6, <1>7 DEF Next

\* As long as no sequence number has reached its last value, no step of any
\* client or server lowers the tag of a register on any replica: not a late CAS
\* of an outrun put, not a retry with stale buffers, not a get's writeback.
THEOREM TagsMonotone == Spec /\ []NoWrap => MonotoneTags
<1> DEFINE A == \A s \in Server, k \in Key : RegLeq(mem[s][k], mem'[s][k])
<1>1. TagInv /\ [Next]_vars => [A]_vars
  BY StepRaises
<1> QED
  BY <1>1, InitTagInv, NextTagInv, PTL DEF Spec, MonotoneTags

-----------------------------------------------------------------------------
(***************************************************************************)
(* Queues in which a future has at most one request, for the proofs about   *)
(* what an operation as a whole does.                                       *)
(***************************************************************************)
\* What the queue q still holds of the future f.
Within(q, f) == {w \in {q[m] : m \in 1 .. Len(q)} : w.fut = f}

\* No future has two work requests in q.
Single(q) == \A m, n \in 1 .. Len(q) : q[m].fut = q[n].fut => m = n

\* Taking the head off a queue.
LEMMA WithinTail ==
    ASSUME NEW T, NEW q \in Seq(T), q # << >>, Single(q)
    PROVE  /\ Single(Tail(q))
           /\ Within(q, Head(q).fut) = {Head(q)}
           /\ Within(Tail(q), Head(q).fut) = {}
           /\ \A g : g # Head(q).fut => Within(Tail(q), g) = Within(q, g)
<1> DEFINE r == Tail(q)
<1>1. /\ r \in Seq(T) /\ Len(r) = Len(q) - 1 /\ Len(q) \in Nat /\ Len(q) >= 1
      /\ q[1] = Head(q)
      /\ \A m \in 1 .. Len(r) : r[m] = q[m + 1]
  BY HeadTailProperties
<1> HIDE DEF r
<1>2. \A m \in 1 .. Len(r) : m + 1 \in 1 .. Len(q) /\ m + 1 # 1
  BY <1>1
<1>3. \A m \in 1 .. Len(q) : m # 1 => m - 1 \in 1 .. Len(r) /\ r[m - 1] = q[m]
  <2> SUFFICES ASSUME NEW m \in 1 .. Len(q), m # 1
               PROVE  m - 1 \in 1 .. Len(r) /\ r[m - 1] = q[m]
    OBVIOUS
  <2>1. m - 1 \in 1 .. Len(r) /\ (m - 1) + 1 = m
    BY <1>1
  <2> QED
    BY <2>1, <1>1
<1>4. 1 \in 1 .. Len(q)
  BY <1>1
<1>5. Single(r)
  <2> SUFFICES ASSUME NEW m \in 1 .. Len(r), NEW n \in 1 .. Len(r), r[m].fut = r[n].fut
               PROVE  m = n
    BY DEF Single
  <2>1. m + 1 = n + 1
    BY <1>1, <1>2 DEF Single
  <2> QED
    BY <2>1, <1>1
<1>6. Within(q, Head(q).fut) = {Head(q)}
  BY <1>1, <1>4 DEF Within, Single
<1>7. Within(r, Head(q).fut) = {}
  BY <1>1, <1>2, <1>4 DEF Within, Single
<1>8. ASSUME NEW g, g # Head(q).fut PROVE Within(r, g) = Within(q, g)
  <2>1. \A m \in 1 .. Len(r) : \E n \in 1 .. Len(q) : q[n] = r[m]
    BY <1>1, <1>2
  <2>2. \A n \in 1 .. Len(q) : q[n].fut = g => \E m \in 1 .. Len(r) : r[m] = q[n]
    BY <1>1, <1>3, <1>8
  <2> QED
    BY <2>1, <2>2 DEF Within
<1> QED
  BY <1>5, <1>6, <1>7, <1>8 DEF r

\* Replacing the head of a queue by another request of the same future.
LEMMA WithinReplaced ==
    ASSUME NEW T, NEW q \in Seq(T), q # << >>, Single(q), NEW e \in T, e.fut = Head(q).fut
    PROVE  /\ Single(<< e >> \o Tail(q))
           /\ Within(<< e >> \o Tail(q), e.fut) = {e}
           /\ \A g : g # e.fut => Within(<< e >> \o Tail(q), g) = Within(q, g)
<1> DEFINE z == << e >> \o Tail(q)
<1>1. /\ Len(z) = Len(q) /\ z[1] = e /\ q[1] = Head(q) /\ Len(q) \in Nat /\ Len(q) >= 1
      /\ \A m \in 2 .. Len(q) : z[m] = q[m]
  OBVIOUS
<1> HIDE DEF z
<1>2. \A m \in 1 .. Len(q) : z[m].fut = q[m].fut /\ (m # 1 => z[m] = q[m])
  <2> SUFFICES ASSUME NEW m \in 1 .. Len(q), m # 1 PROVE z[m] = q[m]
    BY <1>1
  <2>1. m \in 2 .. Len(q)
    BY <1>1
  <2> QED
    BY <1>1, <2>1
<1>3. 1 \in 1 .. Len(q)
  BY <1>1
<1>4. Single(z)
  BY <1>1, <1>2 DEF Single
<1>5. Within(z, e.fut) = {e}
  BY <1>1, <1>2, <1>3 DEF Within, Single
<1>6. \A g : g # e.fut => Within(z, g) = Within(q, g)
  BY <1>1, <1>2, <1>3 DEF Within
<1> QED
  BY <1>4, <1>5, <1>6 DEF z

\* Posting a request of a future that has none.
LEMMA WithinAppend ==
    ASSUME NEW T, NEW q \in Seq(T), Single(q), NEW e \in T, Within(q, e.fut) = {}
    PROVE  /\ Single(Append(q, e))
           /\ Within(Append(q, e), e.fut) = {e}
           /\ \A g : g # e.fut => Within(Append(q, e), g) = Within(q, g)
<1> DEFINE a == Append(q, e)
           l == Len(q) + 1
<1>1. /\ Len(a) = l /\ a[l] = e /\ Len(q) \in Nat
      /\ \A m \in 1 .. Len(q) : a[m] = q[m]
  BY AppendProperties
<1>2. 1 .. l = (1 .. Len(q)) \cup {l} /\ l \notin 1 .. Len(q)
  BY <1>1
<1> HIDE DEF a, l
<1>3. \A m \in 1 .. Len(q) : q[m].fut # e.fut
  BY DEF Within
<1>4. Single(a)
  BY <1>1, <1>2, <1>3 DEF Single
<1>5. Within(a, e.fut) = {e}
  BY <1>1, <1>2, <1>3 DEF Within
<1>6. \A g : g # e.fut => Within(a, g) = Within(q, g)
  BY <1>1, <1>2, <1>3 DEF Within
<1> QED
  BY <1>4, <1>5, <1>6 DEF a

LEMMA FutureKinds ==
    /\ OpFut \subseteq Fut /\ RangeFut \subseteq Fut /\ OpFut \cap RangeFut = {}
    /\ \A f \in Fut : f \in OpFut \/ f \in RangeFut
BY DEF Fut, OpFut, RangeFut
=============================================================================

------------------------- MODULE DsAccountingProofs -------------------------
(***************************************************************************)
(* Proofs about the completions of the register store: the two counters     *)
(* tickRdma keeps (to_poll_per_server of the client, ongoing_per_server of  *)
(* each future) agree with the queues, and a future is never forgotten.     *)
(***************************************************************************)
EXTENDS DsClientProofs, FunctionTheorems

\* The places among the first n of the queue q that belong to future f, and
\* how many places of q do.
PlacesOf(q, n, f) == {m \in 1 .. n : q[m].fut = f}
CountOf(q, f) == Cardinality(PlacesOf(q, Len(q), f))

LEMMA PlacesFinite ==
    ASSUME NEW q, NEW n \in Nat, NEW f
    PROVE  /\ IsFiniteSet(PlacesOf(q, n, f))
           /\ Cardinality(PlacesOf(q, n, f)) \in Nat
<1>1. IsFiniteSet(1 .. n)
  BY FS_Interval
<1>2. PlacesOf(q, n, f) \in SUBSET (1 .. n)
  BY DEF PlacesOf
<1>3. IsFiniteSet(PlacesOf(q, n, f))
  BY <1>1, <1>2, FS_Subset
<1> QED
  BY <1>3, FS_CardinalityType

LEMMA CountType ==
    ASSUME NEW T, NEW q \in Seq(T), NEW f
    PROVE  CountOf(q, f) \in Nat
BY PlacesFinite DEF CountOf

\* An empty queue holds nothing of f.
LEMMA CountEmpty == \A f : CountOf(<< >>, f) = 0
<1> TAKE f
<1>1. PlacesOf(<< >>, Len(<< >>), f) = {}
  BY DEF PlacesOf
<1> QED
  BY <1>1, FS_EmptySet DEF CountOf

\* Posting or completing one more.
LEMMA CountAppend ==
    ASSUME NEW T, NEW q \in Seq(T), NEW e, NEW f
    PROVE  CountOf(Append(q, e), f) = CountOf(q, f) + (IF e.fut = f THEN 1 ELSE 0)
<1> DEFINE a == Append(q, e)
           P == PlacesOf(q, Len(q), f)
           x == Len(q) + 1
<1>1. /\ Len(a) = x
      /\ \A m \in 1 .. Len(q) : a[m] = q[m]
      /\ a[x] = e
  <2>1. q \in Seq(T \cup {e})
    BY SeqMonotonic
  <2> QED
    BY <2>1, AppendProperties
<1>0. Len(q) \in Nat
  OBVIOUS
<1> HIDE DEF a
<1>2. IsFiniteSet(P) /\ Cardinality(P) \in Nat
  BY <1>0, PlacesFinite
<1>3. CASE e.fut = f
  <2>1. PlacesOf(a, x, f) = P \cup {x}
    BY <1>0, <1>1, <1>3 DEF PlacesOf
  <2>2. x \notin P
    BY <1>0 DEF PlacesOf
  <2>3. Cardinality(P \cup {x}) = Cardinality(P) + 1
    BY <1>2, <2>2, FS_AddElement
  <2> QED
    BY <1>1, <1>3, <2>1, <2>3 DEF CountOf, a
<1>4. CASE e.fut # f
  <2>1. PlacesOf(a, x, f) = P
    BY <1>0, <1>1, <1>4 DEF PlacesOf
  <2> QED
    BY <1>1, <1>2, <1>4, <2>1 DEF CountOf, a
<1> QED
  BY <1>3, <1>4

\* Taking the first n off: what is left is what was not among them.
LEMMA CountSplit ==
    ASSUME NEW T, NEW q \in Seq(T), NEW r \in Seq(T), NEW n \in 0 .. Len(q), NEW f,
           Len(r) = Len(q) - n, \A m \in 1 .. Len(r) : r[m] = q[m + n]
    PROVE  CountOf(q, f) = Cardinality(PlacesOf(q, n, f)) + CountOf(r, f)
<1> DEFINE A == PlacesOf(q, n, f)
           C == PlacesOf(r, Len(r), f)
           B == {m \in (n + 1) .. Len(q) : q[m].fut = f}
           g == [m \in C |-> m + n]
<1>1. n \in Nat /\ Len(q) \in Nat /\ Len(r) \in Nat
  OBVIOUS
<1>2. IsFiniteSet(A) /\ Cardinality(A) \in Nat /\ IsFiniteSet(C) /\ Cardinality(C) \in Nat
  BY <1>1, PlacesFinite
<1>3. g \in [C -> B]
  BY <1>1 DEF PlacesOf
<1>4. \A a, b \in C : g[a] = g[b] => a = b
  BY <1>1 DEF PlacesOf
<1>5. \A t \in B : \E s \in C : g[s] = t
  <2> SUFFICES ASSUME NEW t \in B PROVE t - n \in C /\ g[t - n] = t
    OBVIOUS
  <2>1. t - n \in 1 .. Len(r) /\ t = (t - n) + n /\ q[t].fut = f
    BY <1>1
  <2>2. r[t - n] = q[t]
    BY <2>1
  <2>3. t - n \in C
    BY <2>1, <2>2 DEF PlacesOf
  <2> QED
    BY <2>1, <2>3
<1>6. g \in Bijection(C, B)
  <2> HIDE DEF g, B, C
  <2> QED
    BY <1>3, <1>4, <1>5, Fun_IsBij
<1>7. IsFiniteSet(B) /\ Cardinality(B) = Cardinality(C)
  <2>1. ExistsBijection(C, B)
    BY <1>6, Fun_ExistsBij
  <2> HIDE DEF B, C
  <2> QED
    BY <1>2, <2>1, FS_Bijection
<1>8. PlacesOf(q, Len(q), f) = A \cup B /\ A \cap B = {}
  BY <1>1 DEF PlacesOf
<1>9. Cardinality(A \cup B) = Cardinality(A) + Cardinality(B) - Cardinality(A \cap B)
  <2> HIDE DEF A, B
  <2> QED
    BY <1>2, <1>7, FS_Union
<1>10. Cardinality(A \cap B) = 0
  BY <1>8, FS_EmptySet
<1> HIDE DEF A, B, C
<1> QED
  BY <1>2, <1>7, <1>8, <1>9, <1>10 DEF CountOf, A, C

\* Executing the head of a queue.
LEMMA CountTail ==
    ASSUME NEW T, NEW q \in Seq(T), q # << >>, NEW f
    PROVE  CountOf(q, f) = CountOf(Tail(q), f) + (IF Head(q).fut = f THEN 1 ELSE 0)
<1> DEFINE r == Tail(q)
           h == Head(q)
<1>1. /\ r \in Seq(T) /\ Len(r) = Len(q) - 1
      /\ \A m \in 1 .. Len(r) : r[m] = q[m + 1]
  BY HeadTailProperties
<1>2. 1 \in 0 .. Len(q) /\ h = q[1]
  OBVIOUS
<1> HIDE DEF r, h
<1>3. CountOf(q, f) = Cardinality(PlacesOf(q, 1, f)) + CountOf(r, f)
  BY <1>1, <1>2, CountSplit
<1>4. CountOf(r, f) \in Nat
  BY <1>1, CountType
<1>5. ASSUME h.fut = f PROVE CountOf(q, f) = CountOf(r, f) + 1
  <2>1. PlacesOf(q, 1, f) = {1}
    BY <1>2, <1>5 DEF PlacesOf
  <2>2. Cardinality({1}) = 1
    BY FS_Singleton
  <2>3. Cardinality(PlacesOf(q, 1, f)) = 1
    BY <2>1, <2>2, Zenon
  <2> QED
    BY <1>3, <1>4, <2>3
<1>6. ASSUME h.fut # f PROVE CountOf(q, f) = CountOf(r, f) + 0
  <2>1. PlacesOf(q, 1, f) = {}
    BY <1>2, <1>6 DEF PlacesOf
  <2>2. Cardinality({}) = 0
    BY FS_EmptySet
  <2>3. Cardinality(PlacesOf(q, 1, f)) = 0
    BY <2>1, <2>2, Zenon
  <2> QED
    BY <1>3, <1>4, <2>3
<1>7. CountOf(q, f) = CountOf(r, f) + (IF h.fut = f THEN 1 ELSE 0)
  BY <1>5, <1>6
<1> QED
  BY <1>7 DEF r, h

\* The bulk read at the head of a queue moves on to its next register.
LEMMA CountHead ==
    ASSUME NEW T, NEW q \in Seq(T), q # << >>, NEW e \in T, e.fut = Head(q).fut, NEW f
    PROVE  /\ CountOf(<< e >> \o Tail(q), f) = CountOf(q, f)
           /\ Len(<< e >> \o Tail(q)) = Len(q)
<1> DEFINE z == << e >> \o Tail(q)
<1>1. z \in Seq(T) /\ z # << >> /\ Len(z) = Len(q) /\ Head(z) = e /\ Tail(z) = Tail(q)
  OBVIOUS
<1> HIDE DEF z
<1>2. CountOf(z, f) = CountOf(Tail(z), f) + (IF Head(z).fut = f THEN 1 ELSE 0)
  BY <1>1, CountTail
<1>3. CountOf(q, f) = CountOf(Tail(q), f) + (IF Head(q).fut = f THEN 1 ELSE 0)
  BY CountTail
<1>4. Head(z).fut = Head(q).fut
  BY <1>1
<1>5. CountOf(z, f) = CountOf(q, f)
  <2> DEFINE x == CountOf(Tail(q), f) + (IF Head(q).fut = f THEN 1 ELSE 0)
  <2>1. CountOf(z, f) = x /\ CountOf(q, f) = x
    BY <1>1, <1>2, <1>3, <1>4, Zenon
  <2> HIDE DEF x
  <2> QED
    BY <2>1
<1> QED
  BY <1>1, <1>5 DEF z

-----------------------------------------------------------------------------
\* PollAccounting for one connection: slot i of client c, whose to_poll is tp,
\* with the queues s and q and the ongoing counters og.
SlotBalanced(c, i, tp, s, q, og) ==
    /\ tp = Len(s) + Len(q)
    /\ \A f \in Fut : Owner(f) = c => og[f][i] = CountOf(s, f) + CountOf(q, f)

LEMMA PollAccountingBySlot ==
    PollAccounting <=> \A c \in Client, i \in Slot :
        SlotBalanced(c, i, to_poll[c][i], sq[c][i], cq[c][i], ongoing)
BY DEF PollAccounting, SlotBalanced, CountOf, PlacesOf

LEMMA PollAccountingBySlotNext ==
    PollAccounting' <=> \A c \in Client, i \in Slot :
        SlotBalanced(c, i, to_poll'[c][i], sq'[c][i], cq'[c][i], ongoing')
BY DEF PollAccounting, SlotBalanced, CountOf, PlacesOf

\* A work request that completes moves from one queue to the other.
LEMMA CompleteBalanced ==
    ASSUME NEW c, NEW i, NEW tp, NEW og, NEW s \in Seq(WorkRequest), s # << >>,
           NEW q \in Seq(Completion), NEW e \in Completion, e.fut = Head(s).fut,
           SlotBalanced(c, i, tp, s, q, og)
    PROVE  SlotBalanced(c, i, tp, Tail(s), Append(q, e), og)
<1>1. Len(Tail(s)) + Len(Append(q, e)) = Len(s) + Len(q)
  OBVIOUS
<1>2. ASSUME NEW f \in Fut
      PROVE  CountOf(Tail(s), f) + CountOf(Append(q, e), f) = CountOf(s, f) + CountOf(q, f)
  <2> DEFINE t == Tail(s)
             a == Append(q, e)
             x == IF e.fut = f THEN 1 ELSE 0
  <2>1. t \in Seq(WorkRequest) /\ a \in Seq(Completion)
    OBVIOUS
  <2>2. CountOf(t, f) \in Nat /\ CountOf(q, f) \in Nat
    BY <2>1, CountType
  <2>3. CountOf(s, f) = CountOf(t, f) + x
    BY CountTail
  <2>4. CountOf(a, f) = CountOf(q, f) + x
    BY CountAppend
  <2>5. x \in Nat
    OBVIOUS
  <2> HIDE DEF t, a, x
  <2>6. CountOf(t, f) + CountOf(a, f) = CountOf(s, f) + CountOf(q, f)
    BY <2>2, <2>3, <2>4, <2>5
  <2> QED
    BY <2>6 DEF t, a
<1> QED
  BY <1>1, <1>2, Zenon DEF SlotBalanced

\* The servers' steps keep the counters.
LEMMA NicAccounting ==
    ASSUME TypeOK, PollAccounting, NEW c \in Client, NEW i \in Slot, Nic(c, i)
    PROVE  PollAccounting'
<1>t. /\ sq \in [Client -> [Slot -> Seq(WorkRequest)]]
      /\ cq \in [Client -> [Slot -> Seq(Completion)]]
  BY DEF TypeOK, StateTypeOK
<1>u. ongoing' = ongoing /\ to_poll' = to_poll
  BY DEF Nic, NicRead, NicCas, NicBulkWord, NicError
<1>e. sq[c][i] # << >>
  BY DEF Nic, NicRead, NicCas, NicBulkWord, NicError, Executable
<1> DEFINE s == sq[c][i]
           q == cq[c][i]
           w == Head(s)
<1>s. s \in Seq(WorkRequest) /\ q \in Seq(Completion)
  BY <1>t
<1>w. w \in WorkRequest
  BY <1>e, <1>s
<1>b. SlotBalanced(c, i, to_poll[c][i], s, q, ongoing)
  BY PollAccountingBySlot
<1> SUFFICES ASSUME NEW S, NEW Q, SlotBalanced(c, i, to_poll[c][i], S, Q, ongoing)
             PROVE  sq' = [sq EXCEPT ![c][i] = S] /\ cq' = [cq EXCEPT ![c][i] = Q]
                    => PollAccounting'
  <2>1. ASSUME NEW ok \in BOOLEAN, Complete(c, i, ok)
        PROVE  \E S, Q : /\ SlotBalanced(c, i, to_poll[c][i], S, Q, ongoing)
                         /\ sq' = [sq EXCEPT ![c][i] = S]
                         /\ cq' = [cq EXCEPT ![c][i] = Q]
    <3> DEFINE e == [fut |-> w.fut, ok |-> ok]
    <3>1. e \in Completion /\ e.fut = w.fut
      BY <1>w DEF WorkRequest, Completion, Fut
    <3>2. sq' = [sq EXCEPT ![c][i] = Tail(s)] /\ cq' = [cq EXCEPT ![c][i] = Append(q, e)]
      BY <2>1 DEF Complete
    <3> HIDE DEF s, q, e
    <3>3. SlotBalanced(c, i, to_poll[c][i], Tail(s), Append(q, e), ongoing)
      BY <1>s, <1>e, <1>b, <3>1, CompleteBalanced DEF s
    <3> QED
      BY <3>2, <3>3
  <2>2. ASSUME w.op = "bulk", w.key < end_key[w.fut], cq' = cq,
               sq' = [sq EXCEPT ![c][i] = << [w EXCEPT !.key = w.key + 1] >> \o Tail(s)]
        PROVE  \E S, Q : /\ SlotBalanced(c, i, to_poll[c][i], S, Q, ongoing)
                         /\ sq' = [sq EXCEPT ![c][i] = S]
                         /\ cq' = [cq EXCEPT ![c][i] = Q]
    <3> DEFINE v == [w EXCEPT !.key = w.key + 1]
               z == << v >> \o Tail(s)
    <3>1. w \in [fut : RangeFut, op : {"bulk"}, key : Key,
                 expected : {ZeroRegister}, target : {ZeroRegister}]
      BY <1>w, <2>2 DEF WorkRequest
    <3>2. w.key + 1 \in Key
      BY <2>2, <3>1, RegistersAssumption DEF TypeOK, RangeTypeOK, Key
    <3>3. v \in WorkRequest /\ v.fut = w.fut
      BY <3>1, <3>2 DEF WorkRequest
    <3>4. sq' = [sq EXCEPT ![c][i] = z] /\ cq' = [cq EXCEPT ![c][i] = q]
      BY <1>t, <2>2
    <3>5. Len(z) = Len(s) /\ \A f \in Fut : CountOf(z, f) = CountOf(s, f)
      <4> HIDE DEF v, s
      <4> QED
        BY <1>e, <1>s, <3>3, CountHead DEF s
    <3>6. SlotBalanced(c, i, to_poll[c][i], z, q, ongoing)
      <4> HIDE DEF s, q, z
      <4> QED
        BY <1>b, <3>5 DEF SlotBalanced
    <3> QED
      BY <3>4, <3>6
  <2>3. \/ \E ok \in BOOLEAN : Complete(c, i, ok)
        \/ /\ w.op = "bulk" /\ w.key < end_key[w.fut] /\ cq' = cq
           /\ sq' = [sq EXCEPT ![c][i] = << [w EXCEPT !.key = w.key + 1] >> \o Tail(s)]
    BY DEF Nic, NicRead, NicCas, NicBulkWord, NicError, Executable
  <2> QED
    BY <2>1, <2>2, <2>3
<1> SUFFICES ASSUME sq' = [sq EXCEPT ![c][i] = S], cq' = [cq EXCEPT ![c][i] = Q],
                    NEW d \in Client, NEW j \in Slot
             PROVE  SlotBalanced(d, j, to_poll'[d][j], sq'[d][j], cq'[d][j], ongoing')
  BY PollAccountingBySlotNext
<1>1. CASE d = c /\ j = i
  BY <1>1, <1>t, <1>u
<1>2. CASE ~(d = c /\ j = i)
  <2>1. sq'[d][j] = sq[d][j] /\ cq'[d][j] = cq[d][j]
    BY <1>2, <1>t
  <2> QED
    BY <2>1, <1>u, PollAccountingBySlot
<1> QED
  BY <1>1, <1>2

\* Posting keeps the counters, provided the work requests carry the future.
LEMMA PostAccounting ==
    ASSUME TypeOK, PollAccounting, NEW f \in Fut, NEW S, NEW W,
           \A i \in Slot : W[i].fut = f, Post(f, S, W)
    PROVE  PollAccounting'
<1> DEFINE c == Owner(f)
<1>t. /\ sq \in [Client -> [Slot -> Seq(WorkRequest)]]
      /\ cq \in [Client -> [Slot -> Seq(Completion)]]
      /\ ongoing \in [Fut -> [Slot -> Int]]
      /\ to_poll \in [Client -> [Slot -> Int]]
      /\ c \in Client
  BY OwnerType DEF TypeOK, StateTypeOK
<1> SUFFICES ASSUME NEW d \in Client, NEW i \in Slot
             PROVE  SlotBalanced(d, i, to_poll'[d][i], sq'[d][i], cq'[d][i], ongoing')
  BY PollAccountingBySlotNext
<1>b. SlotBalanced(d, i, to_poll[d][i], sq[d][i], cq[d][i], ongoing)
  BY PollAccountingBySlot
<1>c. cq' = cq
  BY DEF Post
<1>o. ASSUME NEW g \in Fut, g # f PROVE ongoing'[g] = ongoing[g]
  BY <1>o, <1>t DEF Post
<1>1. CASE d # c
  <2>1. to_poll'[d] = to_poll[d] /\ sq'[d] = sq[d]
    BY <1>1, <1>t DEF Post
  <2>2. ASSUME NEW g \in Fut, Owner(g) = d PROVE ongoing'[g] = ongoing[g]
    BY <1>o, <1>1, <2>2
  <2> QED
    BY <1>b, <1>c, <2>1, <2>2 DEF SlotBalanced
<1>2. CASE d = c /\ i \notin S
  <2>1. to_poll'[d][i] = to_poll[d][i] /\ sq'[d][i] = sq[d][i]
    BY <1>2, <1>t DEF Post
  <2>2. ongoing'[f][i] = ongoing[f][i]
    BY <1>2, <1>t DEF Post
  <2>3. ASSUME NEW g \in Fut PROVE ongoing'[g][i] = ongoing[g][i]
    BY <1>o, <2>2
  <2> QED
    BY <1>b, <1>c, <2>1, <2>3 DEF SlotBalanced
<1>3. CASE d = c /\ i \in S
  <2> DEFINE s == sq[d][i]
             q == cq[d][i]
             a == Append(s, W[i])
  <2>1. to_poll'[d][i] = to_poll[d][i] + 1 /\ sq'[d][i] = a
    BY <1>3, <1>t DEF Post
  <2>2. ongoing'[f][i] = ongoing[f][i] + 1
    BY <1>3, <1>t DEF Post
  <2>3. s \in Seq(WorkRequest) /\ q \in Seq(Completion) /\ W[i].fut = f
    BY <1>t
  <2>4. Len(a) = Len(s) + 1 /\ Len(s) \in Nat /\ Len(q) \in Nat
    BY <2>3
  <2> HIDE DEF s, q
  <2>p. to_poll[d][i] = Len(s) + Len(q)
    BY <1>b DEF SlotBalanced, s, q
  <2>5. to_poll'[d][i] = Len(a) + Len(q)
    <3> HIDE DEF a
    <3> QED
      BY <2>1, <2>4, <2>p
  <2>6. ASSUME NEW g \in Fut, Owner(g) = d
        PROVE  ongoing'[g][i] = CountOf(a, g) + CountOf(q, g)
    <3>1. CountOf(s, g) \in Nat /\ CountOf(q, g) \in Nat
      BY <2>3, CountType
    <3>2. CountOf(a, g) = CountOf(s, g) + (IF W[i].fut = g THEN 1 ELSE 0)
      BY <2>3, CountAppend
    <3>3. ongoing[g][i] = CountOf(s, g) + CountOf(q, g)
      BY <1>b, <2>6 DEF SlotBalanced, s, q
    <3> HIDE DEF a
    <3>4. CASE g = f
      BY <2>2, <2>3, <3>1, <3>2, <3>3, <3>4
    <3>5. CASE g # f
      BY <1>o, <2>3, <3>1, <3>2, <3>3, <3>5
    <3> QED
      BY <3>4, <3>5
  <2> HIDE DEF a
  <2> QED
    BY <1>c, <2>1, <2>5, <2>6 DEF SlotBalanced, q
<1> QED
  BY <1>1, <1>2, <1>3

\* Whatever a future posts carries its own wr_id.
LEMMA FuturesPost ==
    ASSUME NEW f \in Fut, ClientStep(f) \/ Start(f)
    PROVE  \/ PostNothing
           \/ \E S, W : (\A i \in Slot : W[i].fut = f) /\ Post(f, S, W)
<1> DEFINE Posts == \E S, W : (\A i \in Slot : W[i].fut = f) /\ Post(f, S, W)
<1> SUFFICES PostNothing \/ Posts
  OBVIOUS
<1>c. ASSUME NEW S, NEW k, NEW x, NEW t, Post(f, S, [i \in Slot |-> CasWR(f, k, x[i], t)])
      PROVE  Posts
  BY <1>c DEF CasWR
<1>1. ASSUME NEW S, NEW x, NEW t, PostCas(f, S, x, t) PROVE Posts
  BY <1>1, <1>c DEF PostCas
<1>2. ASSUME NEW t, PutAgain(f, t) PROVE Posts
  BY <1>2, <1>1 DEF PutAgain
<1>3. CASE PutStepReadSeq(f) \/ PutStepOptimistic(f) \/ PutStepCAS(f) \/ PutStepOutrun(f)
  <2> HIDE DEF Posts
  <2>1. CASE PutStepReadSeq(f)
    BY <1>1, <2>1 DEF PutStepReadSeq
  <2>2. CASE PutStepOptimistic(f)
    BY <1>2, <2>2 DEF PutStepOptimistic, PutDone
  <2>3. CASE PutStepCAS(f)
    BY <1>2, <2>3 DEF PutStepCAS, PutDone
  <2>4. CASE PutStepOutrun(f)
    BY <1>2, <2>4 DEF PutStepOutrun
  <2> QED
    BY <1>3, <2>1, <2>2, <2>3, <2>4 DEF Posts
<1>4. CASE GetStepReading(f) \/ GetStepWritingBack(f)
  <2>1. CASE GetStepWritingBack(f)
    BY <2>1 DEF GetStepWritingBack
  <2>2. CASE GetStepReading(f)
    <3>1. PICK m : \/ PostNothing
                   \/ \E S : Post(f, S, [i \in Slot |-> CasWR(f, key[f], bufs[f][i], m)])
      BY <2>2 DEF GetStepReading
    <3> HIDE DEF Posts
    <3>2. ASSUME NEW S, Post(f, S, [i \in Slot |-> CasWR(f, key[f], bufs[f][i], m)])
          PROVE  Posts
      <4> DEFINE x == bufs[f]
      <4>1. Post(f, S, [i \in Slot |-> CasWR(f, key[f], x[i], m)])
        BY <3>2
      <4> HIDE DEF x
      <4> QED
        BY <4>1, <1>c
    <3> QED
      BY <3>1, <3>2 DEF Posts
  <2> QED
    BY <1>4, <2>1, <2>2
<1>5. CASE RangeStepReading(f) \/ StepBlocked(f)
  BY <1>5 DEF RangeStepReading, RangeFinish, StepBlocked
<1>6. CASE Start(f)
  <2>1. ASSUME NEW k, Post(f, Slot, [i \in Slot |-> ReadWR(f, k)]) PROVE Posts
    BY <2>1 DEF ReadWR
  <2>2. ASSUME NEW k, Post(f, Slot, [i \in Slot |-> BulkWR(f, k)]) PROVE Posts
    BY <2>2 DEF BulkWR
  <2>3. ASSUME NEW k, NEW x, NEW t, Post(f, Slot, [i \in Slot |-> CasWR(f, k, x, t)])
        PROVE Posts
    BY <2>3 DEF CasWR
  <2> HIDE DEF Posts
  <2>4. ASSUME NEW k, NEW v, DoPutHit(f, k, v) PROVE Posts
    BY <2>3, <2>4 DEF DoPutHit
  <2>5. ASSUME NEW k, NEW v, DoPutMiss(f, k, v) PROVE Posts
    BY <2>1, <2>5 DEF DoPutMiss
  <2>6. ASSUME NEW k, DoGet(f, k) PROVE Posts
    BY <2>1, <2>6 DEF DoGet
  <2>7. ASSUME NEW k, NEW l, DoRange(f, k, l) PROVE Posts
    BY <2>2, <2>7 DEF DoRange
  <2>8. Posts
    BY <1>6, <2>4, <2>5, <2>6, <2>7 DEF Start, StartPut, StartGet, StartRange
  <2> QED
    BY <2>8 DEF Posts
<1> QED
  BY <1>3, <1>4, <1>5, <1>6 DEF ClientStep, StepPut, StepGet, StepRange

\* A poll takes as much off the counters as off the completion queues.
LEMMA TickAccounting ==
    ASSUME TypeOK, PollAccounting, NEW c \in Client, TickRdma(c)
    PROVE  PollAccounting'
<1>t. /\ sq \in [Client -> [Slot -> Seq(WorkRequest)]]
      /\ cq \in [Client -> [Slot -> Seq(Completion)]]
      /\ ongoing \in [Fut -> [Slot -> Int]]
      /\ to_poll \in [Client -> [Slot -> Int]]
  BY DEF TypeOK, StateTypeOK
<1>1. PICK n \in [Slot -> 0 .. (2 * AsyncParallelism)] :
        /\ \A i \in Slot : n[i] > 0 => n[i] <= Len(cq[c][i])
        /\ cq' = [cq EXCEPT ![c] =
                    [i \in Slot |-> SubSeq(cq[c][i], n[i] + 1, Len(cq[c][i]))]]
        /\ ongoing' = [f \in Fut |-> [i \in Slot |->
                         IF Owner(f) = c THEN ongoing[f][i] - Reaped(f, i, n[i])
                                         ELSE ongoing[f][i]]]
        /\ to_poll' = [to_poll EXCEPT ![c] = [i \in Slot |-> to_poll[c][i] - n[i]]]
        /\ sq' = sq
  BY DEF TickRdma
<1> SUFFICES ASSUME NEW d \in Client, NEW i \in Slot
             PROVE  SlotBalanced(d, i, to_poll'[d][i], sq'[d][i], cq'[d][i], ongoing')
  BY PollAccountingBySlotNext
<1>b. SlotBalanced(d, i, to_poll[d][i], sq[d][i], cq[d][i], ongoing)
  BY PollAccountingBySlot
<1>2. CASE d # c
  <2>1. to_poll'[d] = to_poll[d] /\ cq'[d] = cq[d]
    BY <1>1, <1>2, <1>t
  <2>2. ASSUME NEW f \in Fut, Owner(f) = d PROVE ongoing'[f][i] = ongoing[f][i]
    BY <1>1, <1>2, <2>2
  <2> QED
    BY <1>b, <1>1, <2>1, <2>2 DEF SlotBalanced
<1>3. CASE d = c
  <2> DEFINE s == sq[c][i]
             q == cq[c][i]
             k == n[i]
             r == SubSeq(q, k + 1, Len(q))
  <2>0. s \in Seq(WorkRequest) /\ q \in Seq(Completion) /\ Len(q) \in Nat /\ Len(s) \in Nat
    BY <1>t
  <2>k. k \in 0 .. Len(q)
    <3>1. k \in Nat
      BY AsyncAssumption
    <3> QED
      BY <1>1, <2>0, <3>1
  <2>1. cq'[c][i] = r /\ to_poll'[c][i] = to_poll[c][i] - k /\ sq'[c][i] = s
    BY <1>1, <1>t
  <2> HIDE DEF q, s, k
  <2>2. /\ r \in Seq(Completion) /\ Len(r) = Len(q) - k
        /\ \A m \in 1 .. Len(r) : r[m] = q[m + k]
    <3> DEFINE a == k + 1
               b == Len(q)
    <3>1. a \in Int /\ b \in Int /\ \A m \in a .. b : q[m] \in Completion
      BY <2>0, <2>k
    <3>2. a <= b => b - a + 1 = b - k
      BY <2>0, <2>k
    <3>3. ~(a <= b) => b - k = 0
      BY <2>0, <2>k
    <3>4. b - a + 1 = b - k /\ \A m \in 1 .. (b - k) : a + m - 1 = m + k
      BY <2>0, <2>k
    <3> HIDE DEF a, b
    <3>5. /\ SubSeq(q, a, b) \in Seq(Completion)
          /\ Len(SubSeq(q, a, b)) = IF a <= b THEN b - a + 1 ELSE 0
          /\ \A m \in 1 .. b - a + 1 : SubSeq(q, a, b)[m] = q[a + m - 1]
      BY <3>1, SubSeqProperties
    <3> DEFINE z == SubSeq(q, a, b)
    <3>7. z = r /\ b = Len(q)
      BY DEF a, b
    <3> HIDE DEF z, r
    <3>8. z \in Seq(Completion) /\ Len(z) = b - k
      BY <3>2, <3>3, <3>5 DEF z
    <3>9. \A m \in 1 .. Len(z) : z[m] = q[m + k]
      BY <3>4, <3>5, <3>8 DEF z
    <3> QED
      BY <3>7, <3>8, <3>9
  <2> HIDE DEF r
  <2>3. to_poll'[c][i] = Len(s) + Len(r)
    <3>1. to_poll[c][i] = Len(s) + Len(q)
      BY <1>b, <1>3 DEF SlotBalanced, s, q
    <3> QED
      BY <2>0, <2>k, <2>1, <2>2, <3>1
  <2>4. ASSUME NEW f \in Fut, Owner(f) = c
        PROVE  ongoing'[f][i] = CountOf(s, f) + CountOf(r, f)
    <3>1. ongoing'[f][i] = ongoing[f][i] - Cardinality(PlacesOf(q, k, f))
      BY <1>1, <2>4 DEF Reaped, PlacesOf, q, k
    <3>2. CountOf(q, f) = Cardinality(PlacesOf(q, k, f)) + CountOf(r, f)
      BY <2>0, <2>k, <2>2, CountSplit
    <3>3. ongoing[f][i] = CountOf(s, f) + CountOf(q, f)
      BY <1>b, <1>3, <2>4 DEF SlotBalanced, s, q
    <3>4. CountOf(s, f) \in Nat /\ CountOf(r, f) \in Nat
      BY <2>0, <2>2, CountType
    <3>5. k \in Nat
      BY <2>0, <2>k
    <3>6. Cardinality(PlacesOf(q, k, f)) \in Nat
      BY <3>5, PlacesFinite
    <3> QED
      BY <3>1, <3>2, <3>3, <3>4, <3>6
  <2> QED
    BY <1>3, <2>1, <2>3, <2>4 DEF SlotBalanced
<1> QED
  BY <1>2, <1>3

LEMMA NextAccounting ==
    ASSUME TypeOK, PollAccounting, [Next]_vars
    PROVE  PollAccounting'
<1>u. ASSUME PostNothing PROVE PollAccounting'
  BY <1>u, PollAccountingBySlot, PollAccountingBySlotNext DEF PostNothing
<1>1. ASSUME NEW c \in Client, NEW i \in Slot, Nic(c, i) PROVE PollAccounting'
  BY <1>1, NicAccounting
<1>2. ASSUME NEW s \in Server, ServerCrash(s) PROVE PollAccounting'
  BY <1>2, <1>u DEF ServerCrash, PostNothing
<1>3. ASSUME NEW c \in Client, TickRdma(c) PROVE PollAccounting'
  BY <1>3, TickAccounting
<1>4. ASSUME NEW c \in Client, TickRdmaThrows(c) PROVE PollAccounting'
  BY <1>4, <1>u DEF TickRdmaThrows, PostNothing
<1>5. ASSUME NEW f \in Fut, ClientStep(f) \/ Start(f) PROVE PollAccounting'
  BY <1>5, <1>u, FuturesPost, PostAccounting
<1>6. CASE UNCHANGED vars
  BY <1>6, <1>u DEF vars, stateVars, PostNothing
<1> QED
  BY <1>1, <1>2, <1>3, <1>4, <1>5, <1>6 DEF Next

LEMMA InitAccounting == Init => PollAccounting
<1> SUFFICES ASSUME Init, NEW c \in Client, NEW i \in Slot
             PROVE  SlotBalanced(c, i, to_poll[c][i], sq[c][i], cq[c][i], ongoing)
  BY PollAccountingBySlot
<1>1. /\ to_poll[c][i] = 0 /\ sq[c][i] = << >> /\ cq[c][i] = << >>
      /\ \A f \in Fut : ongoing[f][i] = 0
  BY DEF Init, StateInit
<1>2. Len(<< >>) = 0
  OBVIOUS
<1>3. to_poll[c][i] = Len(sq[c][i]) + Len(cq[c][i])
  BY <1>1, <1>2
<1>4. \A f \in Fut : ongoing[f][i] = CountOf(sq[c][i], f) + CountOf(cq[c][i], f)
  BY <1>1, CountEmpty
<1> QED
  BY <1>3, <1>4 DEF SlotBalanced

AccountingInv == TypeOK /\ PollAccounting

\* However posts, completions in any order of the connections and polls of any
\* size interleave, to_poll_per_server is what is outstanding on the connection
\* and ongoing_per_server what is outstanding of the future: tickRdma never
\* polls for a completion that will not come and no counter goes below zero.
THEOREM AccountingSound == Spec => []PollAccounting
<1>1. Init => AccountingInv
  BY InitTypeOK, InitAccounting DEF AccountingInv
<1>2. AccountingInv /\ [Next]_vars => AccountingInv'
  BY NextTypeOK, NextAccounting DEF AccountingInv
<1>3. AccountingInv => PollAccounting
  BY DEF AccountingInv
<1> QED
  BY <1>1, <1>2, <1>3, PTL DEF Spec

-----------------------------------------------------------------------------
\* The slots that the put of f is done with.
Settled(f) == {i \in Slot : ~needs_cas[f][i]}

\* success_count is the number of settled slots while the put retries, and has
\* not started to count before.
SuccessCounted ==
    \A f \in OpFut :
        /\ step[f] \in {"ReadSeq", "OptimisticChain"} => success_count[f] = 0
        /\ step[f] = "CAS" => success_count[f] = Cardinality(Settled(f))

WakeInv == AccountingInv /\ SuccessCounted /\ NoLostWakeup

LEMMA OngoingNat ==
    ASSUME AccountingInv, NEW f \in Fut, NEW i \in Slot
    PROVE  ongoing[f][i] \in Nat
<1> DEFINE s == sq[Owner(f)][i]
           q == cq[Owner(f)][i]
<1>1. ongoing[f][i] = CountOf(s, f) + CountOf(q, f)
  BY OwnerType, PollAccountingBySlot DEF AccountingInv, SlotBalanced
<1>2. s \in Seq(WorkRequest) /\ q \in Seq(Completion)
  BY OwnerType DEF AccountingInv, TypeOK, StateTypeOK
<1>3. CountOf(s, f) \in Nat /\ CountOf(q, f) \in Nat
  BY <1>2, CountType
<1> QED
  BY <1>1, <1>3

\* A future that posts to some slot waits for a completion.
LEMMA PostWaits ==
    ASSUME AccountingInv, NEW f \in Fut, NEW S, NEW W, Post(f, S, W), S \cap Slot # {}
    PROVE  \E i \in Slot : ongoing'[f][i] > 0
<1>1. PICK i \in Slot : i \in S
  OBVIOUS
<1>2. ongoing'[f][i] = ongoing[f][i] + 1
  BY <1>1 DEF Post, AccountingInv, TypeOK, StateTypeOK
<1> QED
  BY <1>2, OngoingNat

LEMMA SlotFacts ==
    /\ 1 \in Slot
    /\ IsFiniteSet(Slot) /\ Cardinality(Slot) = Quorum
    /\ \A S \in SUBSET Slot : IsFiniteSet(S) /\ Cardinality(S) \in Nat
<1>1. Quorum \in Nat /\ Quorum >= 1
  BY QuorumAssumption, ServersAssumption
<1>2. IsFiniteSet(Slot) /\ Cardinality(Slot) = Quorum
  BY <1>1, FS_Interval DEF Slot
<1>3. \A S \in SUBSET Slot : IsFiniteSet(S) /\ Cardinality(S) \in Nat
  BY <1>2, FS_Subset, FS_CardinalityType
<1> QED
  BY <1>1, <1>2, <1>3 DEF Slot

\* Fewer settled slots than the quorum leave a slot to retry.
LEMMA SomeSlotLeft ==
    ASSUME NEW S \in SUBSET Slot, ~(Cardinality(S) >= Quorum)
    PROVE  \E i \in Slot : i \notin S
<1> SUFFICES ASSUME \A i \in Slot : i \in S PROVE FALSE
  OBVIOUS
<1>1. S = Slot
  OBVIOUS
<1>2. Cardinality(S) = Quorum /\ Quorum \in Nat
  BY <1>1, SlotFacts, QuorumAssumption, ServersAssumption
<1> QED
  BY <1>2

\* A put that steps keeps the count, and either acknowledges or waits again.
LEMMA PutSteps ==
    ASSUME WakeInv, NEW f \in OpFut,
           PutStepReadSeq(f) \/ PutStepOptimistic(f) \/ PutStepCAS(f) \/ PutStepOutrun(f)
    PROVE  /\ step'[f] \in {"Done", "CAS"}
           /\ step'[f] = "CAS" => success_count'[f] = Cardinality(Settled(f)')
           /\ step'[f] = "Done" \/ \E i \in Slot : ongoing'[f][i] > 0
<1>f. f \in Fut
  BY DEF Fut
<1>t. /\ success_count \in [OpFut -> Nat] /\ needs_cas \in [OpFut -> [Slot -> BOOLEAN]]
      /\ step \in [Fut -> Step]
  BY DEF WakeInv, AccountingInv, TypeOK, PutTypeOK, StateTypeOK
<1>q. Quorum \in Nat
  BY QuorumAssumption, ServersAssumption
<1>again. ASSUME NEW tgt, NEW S \in SUBSET Slot, PutAgain(f, tgt), S = Settled(f)',
                 ~(Cardinality(S) >= Quorum)
          PROVE  step'[f] = "CAS" /\ \E i \in Slot : ongoing'[f][i] > 0
  <2>1. PICK i \in Slot : i \notin S
    BY <1>again, SomeSlotLeft
  <2>2. needs_cas'[f][i]
    BY <1>again, <2>1 DEF Settled
  <2> DEFINE N == {j \in Slot : needs_cas'[f][j]}
             W == [j \in Slot |-> CasWR(f, key[f], expected'[f][j], tgt)]
  <2>3. Post(f, N, W) /\ N \cap Slot # {}
    BY <1>again, <2>2 DEF PutAgain, PostCas
  <2> HIDE DEF N, W
  <2>4. \E j \in Slot : ongoing'[f][j] > 0
    BY <1>f, <2>3, PostWaits DEF WakeInv
  <2> QED
    BY <1>again, <1>f, <1>t, <2>4 DEF PutAgain
<1>done. ASSUME PutDone(f) PROVE step'[f] = "Done"
  BY <1>done, <1>f, <1>t DEF PutDone
<1>1. CASE PutStepReadSeq(f)
  <2>1. PICK z : /\ needs_cas' = [needs_cas EXCEPT ![f] = [i \in Slot |-> TRUE]]
                 /\ PostCas(f, Slot, bufs[f], z)
                 /\ step' = [step EXCEPT ![f] = "CAS"]
                 /\ success_count' = success_count
                 /\ step[f] = "ReadSeq"
    BY <1>1 DEF PutStepReadSeq
  <2>2. Settled(f)' = {}
    BY <2>1, <1>t DEF Settled
  <2>3. success_count'[f] = 0 /\ step'[f] = "CAS"
    BY <2>1, <1>f, <1>t DEF WakeInv, SuccessCounted
  <2>4. Cardinality(Settled(f)') = 0
    BY <2>2, FS_EmptySet
  <2>5. \E i \in Slot : ongoing'[f][i] > 0
    <3> DEFINE W == [j \in Slot |-> CasWR(f, key[f], bufs[f][j], z)]
    <3>1. Post(f, Slot, W)
      BY <2>1 DEF PostCas
    <3> HIDE DEF W
    <3> QED
      BY <1>f, <3>1, PostWaits, SlotFacts DEF WakeInv
  <2> QED
    BY <2>3, <2>4, <2>5
<1>2. CASE PutStepOptimistic(f)
  <2> DEFINE won == {i \in Slot : Swapped(f, i)}
  <2>1. PICK z : /\ step[f] = "OptimisticChain"
                 /\ success_count' = [success_count EXCEPT ![f] = success_count[f] + Cardinality(won)]
                 /\ needs_cas' = [needs_cas EXCEPT ![f] = [i \in Slot |-> i \notin won]]
                 /\ IF success_count'[f] >= Quorum THEN PutDone(f) ELSE PutAgain(f, z)
    BY <1>2 DEF PutStepOptimistic
  <2>2. won \in SUBSET Slot
    OBVIOUS
  <2> HIDE DEF won
  <2>3. Settled(f)' = won
    BY <2>1, <2>2, <1>t DEF Settled
  <2>4. success_count'[f] = Cardinality(won)
    <3>1. success_count[f] = 0 /\ Cardinality(won) \in Nat
      BY <2>1, <2>2, SlotFacts DEF WakeInv, SuccessCounted
    <3> QED
      BY <2>1, <3>1, <1>t
  <2> QED
    BY <2>1, <2>2, <2>3, <2>4, <1>again, <1>done
<1>3. CASE PutStepCAS(f)
  <2> DEFINE won == {i \in Slot : needs_cas[f][i] /\ Swapped(f, i)}
             old == Settled(f)
  <2>1. /\ step[f] = "CAS"
        /\ success_count' = [success_count EXCEPT ![f] = success_count[f] + Cardinality(won)]
        /\ needs_cas' = [needs_cas EXCEPT ![f] =
              [i \in Slot |-> needs_cas[f][i] /\ i \notin won]]
        /\ IF success_count'[f] >= Quorum THEN PutDone(f) ELSE PutAgain(f, target_reg[f])
    BY <1>3 DEF PutStepCAS
  <2>2. won \in SUBSET Slot /\ old \in SUBSET Slot /\ won \cap old = {}
    BY DEF Settled
  <2>3. Settled(f)' = old \cup won
    BY <2>1, <2>2, <1>t DEF Settled
  <2> HIDE DEF won, old
  <2>4. success_count'[f] = Cardinality(old \cup won)
    <3>1. success_count[f] = Cardinality(old)
      BY <2>1 DEF WakeInv, SuccessCounted, old
    <3>2. IsFiniteSet(old) /\ IsFiniteSet(won) /\ Cardinality(old) \in Nat /\ Cardinality(won) \in Nat
      BY <2>2, SlotFacts
    <3>3. Cardinality(old \cup won) = Cardinality(old) + Cardinality(won) - Cardinality(old \cap won)
      BY <3>2, FS_Union
    <3>4. Cardinality(old \cap won) = 0
      <4>1. old \cap won = {}
        BY <2>2
      <4> QED
        BY <4>1, FS_EmptySet
    <3>5. success_count'[f] = success_count[f] + Cardinality(won)
      BY <2>1, <1>t
    <3> QED
      BY <3>1, <3>2, <3>3, <3>4, <3>5
  <2> DEFINE S == old \cup won
  <2>5. S \in SUBSET Slot /\ Settled(f)' = S /\ success_count'[f] = Cardinality(S)
    BY <2>2, <2>3, <2>4
  <2> HIDE DEF S
  <2> QED
    BY <2>1, <2>5, <1>again, <1>done
<1>4. CASE PutStepOutrun(f)
  <2>1. PICK r \in Slot :
              /\ success_count' = [success_count EXCEPT ![f] = Quorum - r]
              /\ needs_cas' = [needs_cas EXCEPT ![f] = [i \in Slot |-> i <= r]]
              /\ \E z : PutAgain(f, z)
    BY <1>4 DEF PutStepOutrun
  <2> DEFINE S == (r + 1) .. Quorum
  <2>2. Settled(f)' = S /\ S \in SUBSET Slot
    <3>1. needs_cas'[f] = [i \in Slot |-> i <= r]
      BY <2>1, <1>t
    <3>2. Settled(f)' = {i \in Slot : ~(i <= r)}
      BY <3>1 DEF Settled
    <3>3. {i \in 1 .. Quorum : ~(i <= r)} = S /\ S \in SUBSET (1 .. Quorum)
      BY <1>q DEF Slot
    <3> QED
      BY <3>2, <3>3 DEF Slot
  <2>3. Cardinality(S) = Quorum - r
    <3>1. r + 1 \in Int /\ Quorum \in Int /\ r \in Int /\ r <= Quorum
      BY <1>q DEF Slot
    <3>2. Cardinality(S) = IF r + 1 > Quorum THEN 0 ELSE Quorum - (r + 1) + 1
      BY <3>1, FS_Interval
    <3> QED
      BY <3>1, <3>2
  <2>4. success_count'[f] = Quorum - r
    BY <2>1, <1>t
  <2>5. ~(Cardinality(S) >= Quorum)
    BY <2>3, <1>q DEF Slot
  <2> HIDE DEF S
  <2> QED
    BY <2>1, <2>2, <2>3, <2>4, <2>5, <1>again
<1> QED
  BY <1>1, <1>2, <1>3, <1>4

\* What one future does leaves the others alone; it is done or waits.
LEMMA FutureMoves ==
    ASSUME WakeInv, NEW f \in Fut, ClientStep(f) \/ Start(f), ~StepBlocked(f)
    PROVE  /\ \A g \in Fut \ {f} : /\ step'[g] = step[g] /\ progress'[g] = progress[g]
                                   /\ ongoing'[g] = ongoing[g]
           /\ \A g \in OpFut \ {f} : /\ success_count'[g] = success_count[g]
                                     /\ needs_cas'[g] = needs_cas[g]
           /\ step'[f] = "Done" \/ \E i \in Slot : ongoing'[f][i] > 0
           /\ f \in OpFut =>
                /\ step'[f] \in {"ReadSeq", "OptimisticChain"} => success_count'[f] = 0
                /\ step'[f] = "CAS" => success_count'[f] = Cardinality(Settled(f)')
<1>t. /\ success_count \in [OpFut -> Nat] /\ needs_cas \in [OpFut -> [Slot -> BOOLEAN]]
      /\ step \in [Fut -> Step] /\ progress \in [Fut -> BOOLEAN]
      /\ ongoing \in [Fut -> [Slot -> Int]] /\ OpFut \subseteq Fut
  BY DEF WakeInv, AccountingInv, TypeOK, PutTypeOK, StateTypeOK, Fut
<1>p. ASSUME NEW W, Post(f, Slot, W) PROVE \E i \in Slot : ongoing'[f][i] > 0
  BY <1>p, PostWaits, SlotFacts DEF WakeInv
<1>1. CASE f \in OpFut /\ StepPut(f)
  <2>1. /\ step'[f] \in {"Done", "CAS"}
        /\ step'[f] = "CAS" => success_count'[f] = Cardinality(Settled(f)')
        /\ step'[f] = "Done" \/ \E i \in Slot : ongoing'[f][i] > 0
    BY <1>1, PutSteps DEF StepPut
  <2>2. /\ \A g \in Fut \ {f} : step'[g] = step[g] /\ ongoing'[g] = ongoing[g]
        /\ \A g \in Fut \ {f} : progress'[g] = progress[g]
        /\ \A g \in OpFut \ {f} : /\ success_count'[g] = success_count[g]
                                  /\ needs_cas'[g] = needs_cas[g]
    <3>1. CASE PutStepReadSeq(f)
      BY <3>1, <1>t DEF PutStepReadSeq, PostCas, Post
    <3>2. CASE PutStepOptimistic(f)
      BY <3>2, <1>t DEF PutStepOptimistic, PutDone, PutAgain, PostCas, Post, PostNothing
    <3>3. CASE PutStepCAS(f)
      BY <3>3, <1>t DEF PutStepCAS, PutDone, PutAgain, PostCas, Post, PostNothing
    <3>4. CASE PutStepOutrun(f)
      BY <3>4, <1>t DEF PutStepOutrun, PutAgain, PostCas, Post
    <3> QED
      BY <1>1, <3>1, <3>2, <3>3, <3>4 DEF StepPut
  <2> QED
    BY <2>1, <2>2
<1>2. CASE f \in OpFut /\ StepGet(f)
  <2>1. success_count' = success_count /\ needs_cas' = needs_cas
    BY <1>2 DEF StepGet, putVars
  <2>2. CASE GetStepWritingBack(f)
    BY <1>t, <2>1, <2>2 DEF GetStepWritingBack, PostNothing
  <2>3. CASE GetStepReading(f)
    <3>1. PICK m :
            LET lagging == {i \in Slot : bufs[f][i] # m}
            IN  /\ IF RegWriteback /\ lagging # {}
                   THEN /\ Post(f, lagging, [i \in Slot |-> CasWR(f, key[f], bufs[f][i], m)])
                        /\ step' = [step EXCEPT ![f] = "WritingBack"]
                   ELSE /\ PostNothing
                        /\ step' = [step EXCEPT ![f] = "Done"]
                /\ progress' = [progress EXCEPT ![f] = FALSE]
      BY <2>3 DEF GetStepReading
    <3> DEFINE lagging == {i \in Slot : bufs[f][i] # m}
               W == [i \in Slot |-> CasWR(f, key[f], bufs[f][i], m)]
    <3>2. CASE RegWriteback /\ lagging # {}
      <4>1. Post(f, lagging, W) /\ step' = [step EXCEPT ![f] = "WritingBack"]
        BY <3>1, <3>2
      <4>2. lagging \cap Slot # {}
        BY <3>2
      <4> HIDE DEF lagging, W
      <4>3. \E i \in Slot : ongoing'[f][i] > 0
        BY <4>1, <4>2, PostWaits DEF WakeInv
      <4>4. step'[f] = "WritingBack" /\ \A g \in Fut \ {f} : step'[g] = step[g]
        BY <4>1, <1>t
      <4>5. \A g \in Fut \ {f} : ongoing'[g] = ongoing[g] /\ progress'[g] = progress[g]
        BY <3>1, <4>1, <1>t DEF Post
      <4> QED
        BY <4>3, <4>4, <4>5, <2>1
    <3>3. CASE ~(RegWriteback /\ lagging # {})
      <4>1. ongoing' = ongoing /\ step' = [step EXCEPT ![f] = "Done"]
        BY <3>1, <3>3 DEF PostNothing
      <4> QED
        BY <3>1, <4>1, <1>t, <2>1
    <3> QED
      BY <3>2, <3>3
  <2> QED
    BY <1>2, <2>2, <2>3 DEF StepGet
<1>3. CASE f \in RangeFut /\ StepRange(f)
  <2>1. f \notin OpFut
    BY <1>3 DEF OpFut, RangeFut
  <2> QED
    BY <1>3, <1>t, <2>1
       DEF StepRange, RangeStepReading, RangeFinish, PostNothing, putVars
<1>4. CASE f \in OpFut /\ StartPut(f)
  <2>1. PICK k \in PutKeys[Owner(f)], v \in Value : DoPutHit(f, k, v) \/ DoPutMiss(f, k, v)
    BY <1>4 DEF StartPut
  <2>2. PICK W : Post(f, Slot, W)
    BY <2>1 DEF DoPutHit, DoPutMiss
  <2>3. /\ success_count' = [success_count EXCEPT ![f] = 0]
        /\ \/ step' = [step EXCEPT ![f] = "OptimisticChain"]
           \/ step' = [step EXCEPT ![f] = "ReadSeq"]
        /\ \E x : needs_cas' = [needs_cas EXCEPT ![f] = x]
        /\ progress' = progress
    BY <2>1 DEF DoPutHit, DoPutMiss
  <2>4. \E x : ongoing' = [ongoing EXCEPT ![f] = x]
    BY <2>2 DEF Post
  <2> QED
    BY <1>t, <1>p, <1>4, <2>2, <2>3, <2>4
<1>5. CASE f \in OpFut /\ StartGet(f)
  <2>1. PICK k \in Key : DoGet(f, k)
    BY <1>5 DEF StartGet
  <2>2. PICK W : Post(f, Slot, W)
    BY <2>1 DEF DoGet
  <2>3. /\ success_count' = success_count /\ needs_cas' = needs_cas
        /\ step' = [step EXCEPT ![f] = "Reading"] /\ progress' = progress
    BY <1>5, <2>1 DEF DoGet, StartGet, putVars
  <2>4. \E x : ongoing' = [ongoing EXCEPT ![f] = x]
    BY <2>2 DEF Post
  <2> QED
    BY <1>t, <1>p, <2>2, <2>3, <2>4
<1>6. CASE f \in RangeFut /\ StartRange(f)
  <2>1. PICK k \in Key, l \in Key : DoRange(f, k, l)
    BY <1>6 DEF StartRange
  <2>2. PICK W : Post(f, Slot, W)
    BY <2>1 DEF DoRange
  <2>3. /\ success_count' = success_count /\ needs_cas' = needs_cas
        /\ step' = [step EXCEPT ![f] = "Reading"] /\ progress' = progress
    BY <1>6, <2>1 DEF DoRange, StartRange, putVars
  <2>4. \E x : ongoing' = [ongoing EXCEPT ![f] = x]
    BY <2>2 DEF Post
  <2>5. f \notin OpFut
    BY <1>6 DEF OpFut, RangeFut
  <2> QED
    BY <1>t, <1>p, <2>2, <2>3, <2>4, <2>5
<1> QED
  BY <1>1, <1>2, <1>3, <1>4, <1>5, <1>6 DEF ClientStep, Start

\* A poll that empties a future's counters tells the future so.
LEMMA TickWakes ==
    ASSUME WakeInv, NEW c \in Client, TickRdma(c)
    PROVE  NoLostWakeup'
<1>1. PICK n \in [Slot -> 0 .. (2 * AsyncParallelism)] :
        /\ ongoing' = [f \in Fut |-> [i \in Slot |->
                         IF Owner(f) = c THEN ongoing[f][i] - Reaped(f, i, n[i])
                                         ELSE ongoing[f][i]]]
        /\ progress' = [f \in Fut |->
                          \/ progress[f]
                          \/ Owner(f) = c /\ \E i \in Slot : Reaped(f, i, n[i]) > 0]
        /\ step' = step
  BY DEF TickRdma
<1>t. ongoing \in [Fut -> [Slot -> Int]]
  BY DEF WakeInv, AccountingInv, TypeOK, StateTypeOK
<1> SUFFICES ASSUME NEW f \in Fut, step[f] # "Done", ~progress'[f]
             PROVE  \E i \in Slot : ~(ongoing'[f][i] <= 0)
  BY <1>1 DEF NoLostWakeup, Quiet
<1>2. ~progress[f] /\ (Owner(f) = c => \A i \in Slot : ~(Reaped(f, i, n[i]) > 0))
  BY <1>1
<1>3. PICK i \in Slot : ~(ongoing[f][i] <= 0)
  BY <1>2 DEF WakeInv, NoLostWakeup, Quiet
<1>4. n[i] \in Nat
  BY AsyncAssumption
<1>5. Reaped(f, i, n[i]) \in Nat
  BY <1>4, ReapedType
<1>6. ongoing'[f][i] = ongoing[f][i]
  <2>1. CASE Owner(f) = c
    <3>1. Reaped(f, i, n[i]) = 0
      BY <1>2, <1>5, <2>1
    <3>2. ongoing'[f][i] = ongoing[f][i] - Reaped(f, i, n[i])
      BY <1>1, <2>1
    <3> QED
      BY <3>1, <3>2, <1>t
  <2>2. CASE Owner(f) # c
    BY <1>1, <2>2
  <2> QED
    BY <2>1, <2>2
<1> QED
  BY <1>3, <1>6

LEMMA NextWakeInv == WakeInv /\ [Next]_vars => WakeInv'
<1> SUFFICES ASSUME WakeInv, [Next]_vars PROVE WakeInv'
  OBVIOUS
<1>a. AccountingInv'
  BY NextTypeOK, NextAccounting DEF WakeInv, AccountingInv
<1> SUFFICES SuccessCounted' /\ NoLostWakeup'
  BY <1>a DEF WakeInv
<1>s. ASSUME UNCHANGED << step, putVars >> PROVE SuccessCounted'
  BY <1>s DEF WakeInv, SuccessCounted, Settled, putVars
<1>w. ASSUME UNCHANGED << step, ongoing, progress >> PROVE NoLostWakeup'
  BY <1>w DEF WakeInv, NoLostWakeup, Quiet
<1>1. ASSUME NEW c \in Client, NEW i \in Slot, Nic(c, i)
      PROVE  SuccessCounted' /\ NoLostWakeup'
  BY <1>1, <1>s, <1>w DEF Nic, NicRead, NicCas, NicBulkWord, NicError
<1>2. ASSUME NEW s \in Server, ServerCrash(s) PROVE SuccessCounted' /\ NoLostWakeup'
  BY <1>2, <1>s, <1>w DEF ServerCrash
<1>3. ASSUME NEW c \in Client, TickRdma(c) PROVE SuccessCounted' /\ NoLostWakeup'
  <2>1. UNCHANGED << step, putVars >>
    BY <1>3 DEF TickRdma
  <2> QED
    BY <1>3, <2>1, <1>s, TickWakes
<1>4. ASSUME NEW c \in Client, TickRdmaThrows(c) PROVE SuccessCounted' /\ NoLostWakeup'
  BY <1>4, <1>s, <1>w DEF TickRdmaThrows
<1>5. ASSUME NEW f \in Fut, StepBlocked(f) PROVE SuccessCounted' /\ NoLostWakeup'
  <2>1. UNCHANGED << step, putVars, ongoing >> /\ ~Quiet(f)
    BY <1>5 DEF StepBlocked, PostNothing
  <2>2. \A g \in Fut \ {f} : progress'[g] = progress[g]
    BY <1>5 DEF StepBlocked, WakeInv, AccountingInv, TypeOK, StateTypeOK
  <2>3. NoLostWakeup'
    BY <2>1, <2>2 DEF WakeInv, NoLostWakeup, Quiet
  <2> QED
    BY <2>1, <2>3, <1>s
<1>6. ASSUME NEW f \in Fut, ClientStep(f) \/ Start(f), ~StepBlocked(f)
      PROVE  SuccessCounted' /\ NoLostWakeup'
  <2>1. /\ \A g \in Fut \ {f} : /\ step'[g] = step[g] /\ progress'[g] = progress[g]
                                /\ ongoing'[g] = ongoing[g]
        /\ \A g \in OpFut \ {f} : /\ success_count'[g] = success_count[g]
                                  /\ needs_cas'[g] = needs_cas[g]
        /\ step'[f] = "Done" \/ \E i \in Slot : ongoing'[f][i] > 0
        /\ f \in OpFut =>
             /\ step'[f] \in {"ReadSeq", "OptimisticChain"} => success_count'[f] = 0
             /\ step'[f] = "CAS" => success_count'[f] = Cardinality(Settled(f)')
    BY <1>6, FutureMoves
  <2>2. ASSUME NEW g \in OpFut
        PROVE  /\ step'[g] \in {"ReadSeq", "OptimisticChain"} => success_count'[g] = 0
               /\ step'[g] = "CAS" => success_count'[g] = Cardinality(Settled(g)')
    <3>1. CASE g = f
      BY <2>1, <3>1
    <3>2. CASE g # f
      <4>1. Settled(g)' = Settled(g) /\ step'[g] = step[g]
        BY <2>1, <3>2 DEF Settled, Fut
      <4> QED
        BY <2>1, <3>2, <4>1 DEF WakeInv, SuccessCounted
    <3> QED
      BY <3>1, <3>2
  <2>3. ASSUME NEW g \in Fut, step'[g] # "Done", ~progress'[g]
        PROVE  \E i \in Slot : ~(ongoing'[g][i] <= 0)
    <3>1. CASE g = f
      <4>1. PICK i \in Slot : ongoing'[f][i] > 0
        BY <2>1, <2>3, <3>1
      <4>2. ongoing'[f][i] \in Int
        BY <1>a DEF AccountingInv, TypeOK, StateTypeOK
      <4> QED
        BY <3>1, <4>1, <4>2
    <3>2. CASE g # f
      BY <2>1, <2>3, <3>2 DEF WakeInv, NoLostWakeup, Quiet
    <3> QED
      BY <3>1, <3>2
  <2> QED
    BY <2>2, <2>3 DEF SuccessCounted, NoLostWakeup, Quiet
<1>7. CASE UNCHANGED vars
  BY <1>7, <1>s, <1>w DEF vars, stateVars
<1> QED
  BY <1>1, <1>2, <1>3, <1>4, <1>5, <1>6, <1>7 DEF Next

\* A future that is not done has a completion coming or has been told of one:
\* tickRdma never empties its counters silently, and every retry of a put, a
\* writeback and a start posts at least one work request.
THEOREM NoWakeupIsLost == Spec => []NoLostWakeup
<1>1. Init => WakeInv
  <2> SUFFICES ASSUME Init PROVE SuccessCounted /\ NoLostWakeup
    BY InitTypeOK, InitAccounting DEF WakeInv, AccountingInv
  <2>1. \A f \in Fut : step[f] = "Done"
    BY DEF Init, StateInit
  <2> QED
    BY <2>1 DEF SuccessCounted, NoLostWakeup, Fut
<1>2. WakeInv => NoLostWakeup
  BY DEF WakeInv
<1> QED
  BY <1>1, <1>2, NextWakeInv, PTL DEF Spec
=============================================================================

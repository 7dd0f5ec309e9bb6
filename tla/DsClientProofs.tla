--------------------------- MODULE DsClientProofs ---------------------------
(***************************************************************************)
(* Proofs about the register store, for every number of clients, servers,   *)
(* registers and futures, every quorum size and both compile-time toggles.  *)
(***************************************************************************)
EXTENDS DsClient, TLAPS, FiniteSetTheorems, SequenceTheorems

\* A future belongs to a client.
LEMMA OwnerType == \A f \in Fut : Owner(f) \in Client
BY DEF Fut, OpFut, RangeFut, Owner

\* The id in a tag is that of one of the clients, the client's own when there are
\* at most as many as the type of the id tells apart.
LEMMA ClientIdxType == \A c \in Client : client_idx(c) \in Client
BY NumClientsAssumption DEF Client, client_idx

LEMMA ClientIdxOwn ==
    ASSUME NumClients <= 256
    PROVE  \A c \in Client : client_idx(c) = c
BY NumClientsAssumption DEF Client, client_idx

\* Every quorum slot is a server of the layout.
LEMMA ReplicaType == \A c \in Client, i \in Slot : quorum_indices(c, i) \in Server
BY ServersAssumption, QuorumAssumption, NumClientsAssumption, ClientIdxType
   DEF Client, Slot, Server, quorum_indices

\* The sequence number stays in its field (static_cast<uint16_t>).
LEMMA NextSeqType == \A s \in Seq16 : NextSeq(s) \in Seq16
BY SeqModAssumption DEF Seq16, NextSeq

\* So does the decrement of the optimistic path (uint16_t z_max).
LEMMA PrevSeqType == \A s \in Seq16 : (s - 1) % SeqMod \in Seq16
BY SeqModAssumption DEF Seq16

LEMMA MkRegisterType ==
    \A s \in Seq16, c \in Client, v \in Value : MkRegister(s, c, v) \in Register
BY ClientIdxType DEF MkRegister, Register

LEMMA ZeroRegisterType == ZeroRegister \in Register
BY SeqModAssumption, NumClientsAssumption, ValueAssumption
   DEF ZeroRegister, Register, Seq16, Client

LEMMA ZeroKey == 0 \in Key
BY RegistersAssumption DEF Key

\* The work requests the futures build are work requests.
LEMMA WorkRequestTypes ==
    /\ \A f \in OpFut, k \in Key : ReadWR(f, k) \in WorkRequest
    /\ \A f \in RangeFut, k \in Key : BulkWR(f, k) \in WorkRequest
    /\ \A f \in OpFut, k \in Key, e, t \in Register : CasWR(f, k, e, t) \in WorkRequest
BY ZeroRegisterType DEF ReadWR, BulkWR, CasWR, WorkRequest

LEMMA InitTypeOK == Init => TypeOK
<1> SUFFICES ASSUME Init PROVE TypeOK
  OBVIOUS
<1>1. StateTypeOK
  BY ZeroRegisterType, ZeroKey
     DEF Init, StateInit, StateTypeOK, Step
<1>2. PutTypeOK
  BY ZeroRegisterType, ValueAssumption DEF Init, PutInit, PutTypeOK
<1>3. GetTypeOK
  BY ZeroRegisterType DEF Init, GetInit, GetTypeOK
<1>4. RangeTypeOK
  BY ZeroRegisterType, ZeroKey DEF Init, RangeInit, RangeTypeOK
<1>5. issued \in [Client -> 0 .. MaxOps]
  BY MaxOpsAssumption DEF Init
<1> QED
  BY <1>1, <1>2, <1>3, <1>4, <1>5 DEF TypeOK

\* An executed work request leaves well-formed queues behind.
LEMMA CompleteType ==
    ASSUME StateTypeOK, NEW c \in Client, NEW i \in Slot, NEW ok \in BOOLEAN,
           sq[c][i] # << >>, Complete(c, i, ok)
    PROVE  /\ sq' \in [Client -> [Slot -> Seq(WorkRequest)]]
           /\ cq' \in [Client -> [Slot -> Seq(Completion)]]
<1> DEFINE w == Head(sq[c][i])
<1>1. w \in WorkRequest /\ Tail(sq[c][i]) \in Seq(WorkRequest)
  BY DEF StateTypeOK
<1>2. [fut |-> w.fut, ok |-> ok] \in Completion
  BY <1>1 DEF WorkRequest, Completion, Fut
<1>3. Append(cq[c][i], [fut |-> w.fut, ok |-> ok]) \in Seq(Completion)
  BY <1>2 DEF StateTypeOK
<1> HIDE DEF w
<1> QED
  BY <1>1, <1>3 DEF StateTypeOK, Complete, w

\* The servers' steps preserve the types.
LEMMA NicTypeOK ==
    ASSUME TypeOK, NEW c \in Client, NEW i \in Slot, Nic(c, i)
    PROVE  TypeOK'
<1> USE DEF TypeOK
<1> DEFINE w == Head(sq[c][i])
           s == quorum_indices(c, i)
<1>s. s \in Server
  BY ReplicaType
<1>w. ASSUME sq[c][i] # << >> PROVE w \in WorkRequest
  BY <1>w DEF StateTypeOK
<1>1. CASE NicRead(c, i)
  <2>1. sq[c][i] # << >> /\ w.op = "read"
    BY <1>1 DEF NicRead, Executable
  <2>2. mem[s][w.key] \in Register
    BY <1>w, <1>s, <2>1 DEF StateTypeOK, WorkRequest
  <2>3. bufs' \in [OpFut -> [Slot -> Register]]
    BY <1>1, <2>2 DEF NicRead, StateTypeOK
  <2>4. /\ sq' \in [Client -> [Slot -> Seq(WorkRequest)]]
        /\ cq' \in [Client -> [Slot -> Seq(Completion)]]
    BY <1>1, <2>1, CompleteType DEF NicRead
  <2> QED
    BY <1>1, <2>3, <2>4
       DEF NicRead, StateTypeOK, PutTypeOK, GetTypeOK, RangeTypeOK, putVars, rangeVars
<1>2. CASE NicCas(c, i)
  <2>1. sq[c][i] # << >> /\ w.op = "cas"
    BY <1>2 DEF NicCas, Executable
  <2>2. /\ mem[s][w.key] \in Register
        /\ w.target \in Register
        /\ w.key \in Key
    BY <1>w, <1>s, <2>1 DEF StateTypeOK, WorkRequest
  <2>3. bufs' \in [OpFut -> [Slot -> Register]]
    BY <1>2, <2>2 DEF NicCas, StateTypeOK
  <2>4. mem' \in [Server -> [Key -> Register]]
    BY <1>2, <1>s, <2>2 DEF NicCas, StateTypeOK
  <2>5. /\ sq' \in [Client -> [Slot -> Seq(WorkRequest)]]
        /\ cq' \in [Client -> [Slot -> Seq(Completion)]]
    BY <1>2, <2>1, CompleteType DEF NicCas
  <2> QED
    BY <1>2, <2>3, <2>4, <2>5
       DEF NicCas, StateTypeOK, PutTypeOK, GetTypeOK, RangeTypeOK, putVars, rangeVars
<1>3. CASE NicBulkWord(c, i)
  <2>1. sq[c][i] # << >> /\ w.op = "bulk"
    BY <1>3 DEF NicBulkWord, Executable
  <2>2. /\ w \in [fut : RangeFut, op : {"bulk"}, key : Key,
                  expected : {ZeroRegister}, target : {ZeroRegister}]
        /\ mem[s][w.key] \in Register
    BY <1>w, <1>s, <2>1 DEF StateTypeOK, WorkRequest
  <2>3. bulk_bufs' \in [RangeFut -> [Slot -> [Key -> Register]]]
    BY <1>3, <2>2 DEF NicBulkWord, RangeTypeOK
  <2>4. /\ sq' \in [Client -> [Slot -> Seq(WorkRequest)]]
        /\ cq' \in [Client -> [Slot -> Seq(Completion)]]
    <3>1. CASE w.key < end_key[w.fut]
      <4>1. w.key + 1 \in Key
        BY <2>2, <3>1, RegistersAssumption DEF RangeTypeOK, Key
      <4>2. [w EXCEPT !.key = @ + 1] \in WorkRequest
        BY <2>2, <4>1 DEF WorkRequest
      <4>3. << [w EXCEPT !.key = @ + 1] >> \o Tail(sq[c][i]) \in Seq(WorkRequest)
        BY <2>1, <4>2 DEF StateTypeOK
      <4> DEFINE q == << [w EXCEPT !.key = @ + 1] >> \o Tail(sq[c][i])
      <4>4. /\ sq' = [sq EXCEPT ![c][i] = q]
            /\ cq' = cq
        BY <1>3, <3>1 DEF NicBulkWord
      <4> HIDE DEF q
      <4>5. q \in Seq(WorkRequest)
        BY <4>3 DEF q
      <4> QED
        BY <4>4, <4>5 DEF StateTypeOK
    <3>2. CASE ~(w.key < end_key[w.fut])
      BY <1>3, <2>1, <3>2, CompleteType DEF NicBulkWord
    <3> QED
      BY <3>1, <3>2
  <2> QED
    BY <1>3, <2>3, <2>4
       DEF NicBulkWord, StateTypeOK, PutTypeOK, GetTypeOK, RangeTypeOK, putVars
<1>4. CASE NicError(c, i)
  <2>1. /\ sq' \in [Client -> [Slot -> Seq(WorkRequest)]]
        /\ cq' \in [Client -> [Slot -> Seq(Completion)]]
    BY <1>4, CompleteType DEF NicError
  <2> QED
    BY <1>4, <2>1
       DEF NicError, StateTypeOK, PutTypeOK, GetTypeOK, RangeTypeOK, putVars, rangeVars
<1> QED
  BY <1>1, <1>2, <1>3, <1>4 DEF Nic

\* How many completions of a future a poll reaps is a number.
LEMMA ReapedType ==
    ASSUME NEW f, NEW i, NEW n \in Nat
    PROVE  Reaped(f, i, n) \in Nat
<1>1. IsFiniteSet(1 .. n)
  BY FS_Interval
<1>2. IsFiniteSet({m \in 1 .. n : cq[Owner(f)][i][m].fut = f})
  BY <1>1, FS_Subset
<1> QED
  BY <1>2, FS_CardinalityType DEF Reaped

\* tickRdma preserves the types.
LEMMA TickTypeOK ==
    ASSUME TypeOK, NEW c \in Client, TickRdma(c) \/ TickRdmaThrows(c)
    PROVE  TypeOK'
<1> USE DEF TypeOK
<1>1. CASE TickRdma(c)
  <2>1. PICK n \in [Slot -> 0 .. (2 * AsyncParallelism)] :
          /\ \A i \in Slot : n[i] > 0 => n[i] <= Len(cq[c][i]) /\ n[i] <= to_poll[c][i]
          /\ cq' = [cq EXCEPT ![c] =
                      [i \in Slot |-> SubSeq(cq[c][i], n[i] + 1, Len(cq[c][i]))]]
          /\ ongoing' = [f \in Fut |-> [i \in Slot |->
                           IF Owner(f) = c THEN ongoing[f][i] - Reaped(f, i, n[i])
                                           ELSE ongoing[f][i]]]
          /\ progress' = [f \in Fut |->
                            \/ progress[f]
                            \/ Owner(f) = c /\ \E i \in Slot : Reaped(f, i, n[i]) > 0]
          /\ to_poll' = [to_poll EXCEPT ![c] = [i \in Slot |-> to_poll[c][i] - n[i]]]
          /\ UNCHANGED << mem, up, halted, cache, valid, sq, step, key, bufs,
                          putVars, max_reg, rangeVars, issued >>
    BY <1>1 DEF TickRdma
  <2>2. \A i \in Slot : n[i] \in Nat
    BY AsyncAssumption
  <2>3. cq' \in [Client -> [Slot -> Seq(Completion)]]
    <3>1. ASSUME NEW i \in Slot
          PROVE  SubSeq(cq[c][i], n[i] + 1, Len(cq[c][i])) \in Seq(Completion)
      <4>1. cq[c][i] \in Seq(Completion)
        BY DEF StateTypeOK
      <4> QED
        BY <2>2, <4>1
    <3> QED
      BY <2>1, <3>1 DEF StateTypeOK
  <2>4. ongoing' \in [Fut -> [Slot -> Int]]
    <3>1. ASSUME NEW f \in Fut, NEW i \in Slot
          PROVE  /\ ongoing[f][i] \in Int
                 /\ ongoing[f][i] - Reaped(f, i, n[i]) \in Int
      BY <2>2, ReapedType DEF StateTypeOK
    <3> QED
      BY <2>1, <3>1
  <2>5. progress' \in [Fut -> BOOLEAN]
    BY <2>1
  <2>6. to_poll' \in [Client -> [Slot -> Int]]
    BY <2>1, <2>2 DEF StateTypeOK
  <2> QED
    BY <2>1, <2>3, <2>4, <2>5, <2>6
       DEF StateTypeOK, PutTypeOK, GetTypeOK, RangeTypeOK, putVars, rangeVars
<1>2. CASE TickRdmaThrows(c)
  BY <1>2 DEF TickRdmaThrows, StateTypeOK, PutTypeOK, GetTypeOK, RangeTypeOK,
              putVars, rangeVars
<1> QED
  BY <1>1, <1>2

\* Posting work requests keeps the queues and the counters typed.
LEMMA PostType ==
    ASSUME StateTypeOK, NEW f \in Fut, NEW S \in SUBSET Slot,
           NEW W \in [Slot -> WorkRequest],
           Post(f, S, W)
    PROVE  /\ sq' \in [Client -> [Slot -> Seq(WorkRequest)]]
           /\ cq' \in [Client -> [Slot -> Seq(Completion)]]
           /\ ongoing' \in [Fut -> [Slot -> Int]]
           /\ to_poll' \in [Client -> [Slot -> Int]]
<1>1. Owner(f) \in Client
  BY OwnerType
<1>2. ASSUME NEW i \in Slot
      PROVE  Append(sq[Owner(f)][i], W[i]) \in Seq(WorkRequest)
  BY <1>1 DEF StateTypeOK
<1>3. sq' \in [Client -> [Slot -> Seq(WorkRequest)]]
  BY <1>1, <1>2 DEF Post, StateTypeOK
<1>4. ongoing' \in [Fut -> [Slot -> Int]]
  BY DEF Post, StateTypeOK
<1>5. to_poll' \in [Client -> [Slot -> Int]]
  BY <1>1 DEF Post, StateTypeOK
<1> QED
  BY <1>3, <1>4, <1>5 DEF Post, StateTypeOK

\* Cache::put keeps the cache typed.
LEMMA CachePutType ==
    ASSUME StateTypeOK, NEW c \in Client, NEW k \in Key, NEW r \in Register,
           CachePut(c, k, r)
    PROVE  /\ cache' \in [Client -> [Key -> Register]]
           /\ valid' \in [Client -> SUBSET Key]
<1>1. CASE RegCache
  <2>1. /\ cache' = [cache EXCEPT ![c][k] = r]
        /\ valid' = [valid EXCEPT ![c] = @ \cup {k}]
    BY <1>1 DEF CachePut
  <2>2. valid[c] \cup {k} \in SUBSET Key
    BY DEF StateTypeOK
  <2> QED
    BY <2>1, <2>2 DEF StateTypeOK
<1>2. CASE ~RegCache
  BY <1>2 DEF CachePut, StateTypeOK
<1> QED
  BY <1>1, <1>2

\* Starting a put preserves the types.
LEMMA StartPutTypeOK ==
    ASSUME TypeOK, NEW f \in OpFut, StartPut(f)
    PROVE  TypeOK'
<1> USE DEF TypeOK
<1>f. f \in Fut /\ Owner(f) \in Client
  BY OwnerType DEF Fut
<1>i. issued' \in [Client -> 0 .. MaxOps]
  BY <1>f, MaxOpsAssumption DEF StartPut, Issue
<1>1. PICK k \in PutKeys[Owner(f)], v \in Value : DoPutHit(f, k, v) \/ DoPutMiss(f, k, v)
  BY DEF StartPut
<1>k. k \in Key
  BY <1>1, <1>f, PutKeysAssumption
<1>2. CASE DoPutHit(f, k, v)
  <2> DEFINE cached == cache[Owner(f)][k]
             tgt == MkRegister(NextSeq(cached.seq), Owner(f), v)
  <2>1. cached \in Register
    BY <1>f, <1>k DEF StateTypeOK
  <2>2. tgt \in Register
    <3>1. cached.seq \in Seq16
      BY <2>1 DEF Register
    <3> QED
      BY <3>1, <1>f, NextSeqType, MkRegisterType
  <2>3. CasWR(f, k, cached, tgt) \in WorkRequest
    BY <1>k, <2>1, <2>2, WorkRequestTypes
  <2> DEFINE W == [i \in Slot |-> CasWR(f, k, cached, tgt)]
  <2>4. /\ sq' \in [Client -> [Slot -> Seq(WorkRequest)]]
        /\ cq' \in [Client -> [Slot -> Seq(Completion)]]
        /\ ongoing' \in [Fut -> [Slot -> Int]]
        /\ to_poll' \in [Client -> [Slot -> Int]]
    <3>1. W \in [Slot -> WorkRequest]
      BY <2>3
    <3>2. Post(f, Slot, W)
      BY <1>2 DEF DoPutHit, Post
    <3> HIDE DEF W
    <3> QED
      BY <1>f, <3>1, <3>2, PostType
  <2> HIDE DEF cached, tgt
  <2>5. /\ expected' = [expected EXCEPT ![f] = [i \in Slot |-> cached]]
        /\ target_reg' = [target_reg EXCEPT ![f] = tgt]
    BY <1>2 DEF DoPutHit, cached, tgt
  <2>6. PutTypeOK'
    BY <1>2, <2>1, <2>2, <2>5 DEF DoPutHit, PutTypeOK
  <2>7. StateTypeOK'
    BY <1>2, <1>f, <1>k, <2>4 DEF DoPutHit, StateTypeOK, Step
  <2> QED
    BY <1>i, <2>6, <2>7 DEF StartPut, GetTypeOK, RangeTypeOK, rangeVars
<1>3. CASE DoPutMiss(f, k, v)
  <2> DEFINE W == [i \in Slot |-> ReadWR(f, k)]
  <2>1. /\ sq' \in [Client -> [Slot -> Seq(WorkRequest)]]
        /\ cq' \in [Client -> [Slot -> Seq(Completion)]]
        /\ ongoing' \in [Fut -> [Slot -> Int]]
        /\ to_poll' \in [Client -> [Slot -> Int]]
    <3>1. W \in [Slot -> WorkRequest]
      BY <1>k, WorkRequestTypes
    <3>2. Post(f, Slot, W)
      BY <1>3 DEF DoPutMiss, Post
    <3> HIDE DEF W
    <3> QED
      BY <1>f, <3>1, <3>2, PostType
  <2>2. PutTypeOK'
    BY <1>3 DEF DoPutMiss, PutTypeOK
  <2>3. StateTypeOK'
    BY <1>3, <1>f, <1>k, <2>1 DEF DoPutMiss, StateTypeOK, Step
  <2> QED
    BY <1>i, <2>2, <2>3 DEF StartPut, GetTypeOK, RangeTypeOK, rangeVars
<1> QED
  BY <1>1, <1>2, <1>3

\* Starting a get preserves the types.
LEMMA StartGetTypeOK ==
    ASSUME TypeOK, NEW f \in OpFut, StartGet(f)
    PROVE  TypeOK'
<1> USE DEF TypeOK
<1>f. f \in Fut /\ Owner(f) \in Client
  BY OwnerType DEF Fut
<1>i. issued' \in [Client -> 0 .. MaxOps]
  BY <1>f, MaxOpsAssumption DEF StartGet, Issue
<1>1. PICK k \in Key : DoGet(f, k)
  BY DEF StartGet
<1> DEFINE W == [i \in Slot |-> ReadWR(f, k)]
<1>2. /\ sq' \in [Client -> [Slot -> Seq(WorkRequest)]]
      /\ cq' \in [Client -> [Slot -> Seq(Completion)]]
      /\ ongoing' \in [Fut -> [Slot -> Int]]
      /\ to_poll' \in [Client -> [Slot -> Int]]
  <2>1. W \in [Slot -> WorkRequest]
    BY WorkRequestTypes
  <2>2. Post(f, Slot, W)
    BY <1>1 DEF DoGet, Post
  <2> HIDE DEF W
  <2> QED
    BY <1>f, <2>1, <2>2, PostType
<1>3. GetTypeOK'
  BY <1>1, ZeroRegisterType DEF DoGet, GetTypeOK
<1>4. StateTypeOK'
  BY <1>1, <1>f, <1>2 DEF DoGet, StateTypeOK, Step
<1> QED
  BY <1>i, <1>3, <1>4 DEF StartGet, PutTypeOK, RangeTypeOK, putVars, rangeVars

\* Starting a scan preserves the types.
LEMMA StartRangeTypeOK ==
    ASSUME TypeOK, NEW f \in RangeFut, StartRange(f)
    PROVE  TypeOK'
<1> USE DEF TypeOK
<1>f. f \in Fut /\ Owner(f) \in Client
  BY OwnerType DEF Fut
<1>i. issued' \in [Client -> 0 .. MaxOps]
  BY <1>f, MaxOpsAssumption DEF StartRange, Issue
<1>1. PICK sk \in Key, ek \in Key : DoRange(f, sk, ek)
  BY DEF StartRange
<1> DEFINE W == [i \in Slot |-> BulkWR(f, sk)]
<1>2. /\ sq' \in [Client -> [Slot -> Seq(WorkRequest)]]
      /\ cq' \in [Client -> [Slot -> Seq(Completion)]]
      /\ ongoing' \in [Fut -> [Slot -> Int]]
      /\ to_poll' \in [Client -> [Slot -> Int]]
  <2>1. W \in [Slot -> WorkRequest]
    BY WorkRequestTypes
  <2>2. Post(f, Slot, W)
    BY <1>1 DEF DoRange, Post
  <2> HIDE DEF W
  <2> QED
    BY <1>f, <2>1, <2>2, PostType
<1>3. RangeTypeOK'
  BY <1>1 DEF DoRange, RangeTypeOK
<1>4. StateTypeOK'
  BY <1>1, <1>f, <1>2 DEF DoRange, StateTypeOK, Step
<1> QED
  BY <1>i, <1>3, <1>4 DEF StartRange, PutTypeOK, GetTypeOK, putVars

\* Every retry of a put builds well-formed registers and work requests.
LEMMA PutAgainType ==
    ASSUME StateTypeOK, NEW f \in OpFut, NEW tgt \in Register, PutAgain(f, tgt),
           expected' \in [OpFut -> [Slot -> Register]],
           target_reg \in [OpFut -> Register]
    PROVE  /\ sq' \in [Client -> [Slot -> Seq(WorkRequest)]]
           /\ cq' \in [Client -> [Slot -> Seq(Completion)]]
           /\ ongoing' \in [Fut -> [Slot -> Int]]
           /\ to_poll' \in [Client -> [Slot -> Int]]
           /\ cache' \in [Client -> [Key -> Register]]
           /\ valid' \in [Client -> SUBSET Key]
           /\ step' \in [Fut -> Step]
           /\ target_reg' \in [OpFut -> Register]
<1> DEFINE S == {i \in Slot : needs_cas'[f][i]}
           W == [i \in Slot |-> CasWR(f, key[f], expected'[f][i], tgt)]
<1>1. f \in Fut
  BY DEF Fut
<1>2. W \in [Slot -> WorkRequest]
  BY <1>1, WorkRequestTypes DEF StateTypeOK
<1>3. Post(f, S, W)
  BY DEF PutAgain, PostCas, Post
<1>4. S \in SUBSET Slot
  OBVIOUS
<1> HIDE DEF S, W
<1>5. /\ sq' \in [Client -> [Slot -> Seq(WorkRequest)]]
      /\ cq' \in [Client -> [Slot -> Seq(Completion)]]
      /\ ongoing' \in [Fut -> [Slot -> Int]]
      /\ to_poll' \in [Client -> [Slot -> Int]]
  BY <1>1, <1>2, <1>3, <1>4, PostType
<1> QED
  BY <1>1, <1>5 DEF PutAgain, StateTypeOK, Step

\* So does its acknowledgement.
LEMMA PutDoneType ==
    ASSUME StateTypeOK, NEW f \in OpFut, PutDone(f),
           target_reg \in [OpFut -> Register]
    PROVE  /\ sq' \in [Client -> [Slot -> Seq(WorkRequest)]]
           /\ cq' \in [Client -> [Slot -> Seq(Completion)]]
           /\ ongoing' \in [Fut -> [Slot -> Int]]
           /\ to_poll' \in [Client -> [Slot -> Int]]
           /\ cache' \in [Client -> [Key -> Register]]
           /\ valid' \in [Client -> SUBSET Key]
           /\ step' \in [Fut -> Step]
           /\ target_reg' \in [OpFut -> Register]
<1>1. f \in Fut /\ Owner(f) \in Client
  BY OwnerType DEF Fut
<1>2. key[f] \in Key
  BY <1>1 DEF StateTypeOK
<1>3. /\ cache' \in [Client -> [Key -> Register]]
      /\ valid' \in [Client -> SUBSET Key]
  BY <1>1, <1>2, CachePutType DEF PutDone
<1> QED
  BY <1>1, <1>3 DEF PutDone, PostNothing, StateTypeOK, Step

\* What a set of slots counts is a number.
LEMMA SlotCount == \A S \in SUBSET Slot : Cardinality(S) \in Nat
<1>1. IsFiniteSet(Slot)
  BY FS_Interval, QuorumAssumption, ServersAssumption DEF Slot
<1> QED
  BY <1>1, FS_Subset, FS_CardinalityType

\* The buffers of a future hold sequence numbers of the field.
LEMMA SeqsSeenType ==
    ASSUME StateTypeOK, NEW f \in OpFut
    PROVE  SeqsSeen(f) \subseteq Seq16
BY DEF StateTypeOK, SeqsSeen, Register

\* The steps of a put preserve the types.
LEMMA StepPutTypeOK ==
    ASSUME TypeOK, NEW f \in OpFut, StepPut(f)
    PROVE  TypeOK'
<1> USE DEF TypeOK
<1>f. f \in Fut /\ Owner(f) \in Client
  BY OwnerType DEF Fut
<1>t. ASSUME NEW z \in Seq16
      PROVE  MkRegister(NextSeq(z), Owner(f), value[f]) \in Register
  BY <1>f, NextSeqType, MkRegisterType DEF PutTypeOK
<1>z. SeqsSeen(f) \subseteq Seq16
  BY SeqsSeenType
<1>1. CASE PutStepReadSeq(f)
  <2>1. PICK z_max \in SeqsSeen(f) \cup {0} :
          LET tgt == MkRegister(NextSeq(z_max), Owner(f), value[f])
          IN  /\ expected' = [expected EXCEPT ![f] = bufs[f]]
              /\ needs_cas' = [needs_cas EXCEPT ![f] = [i \in Slot |-> TRUE]]
              /\ target_reg' = [target_reg EXCEPT ![f] = tgt]
              /\ PostCas(f, Slot, bufs[f], tgt)
    BY <1>1 DEF PutStepReadSeq
  <2> DEFINE tgt == MkRegister(NextSeq(z_max), Owner(f), value[f])
             W == [i \in Slot |-> CasWR(f, key[f], bufs[f][i], tgt)]
  <2>2. tgt \in Register
    <3>1. z_max \in Seq16
      BY <1>z, SeqModAssumption DEF Seq16
    <3> QED
      BY <3>1, <1>t
  <2> HIDE DEF tgt
  <2>3. W \in [Slot -> WorkRequest]
    BY <1>f, <2>2, WorkRequestTypes DEF StateTypeOK
  <2>4. Post(f, Slot, W)
    BY <2>1 DEF PostCas, Post, tgt
  <2> HIDE DEF W
  <2>5. /\ sq' \in [Client -> [Slot -> Seq(WorkRequest)]]
        /\ cq' \in [Client -> [Slot -> Seq(Completion)]]
        /\ ongoing' \in [Fut -> [Slot -> Int]]
        /\ to_poll' \in [Client -> [Slot -> Int]]
    BY <1>f, <2>3, <2>4, PostType
  <2>6. PutTypeOK'
    <3>1. target_reg' \in [OpFut -> Register]
      BY <2>1, <2>2 DEF PutTypeOK, tgt
    <3>2. expected' \in [OpFut -> [Slot -> Register]]
      BY <2>1 DEF PutTypeOK, StateTypeOK
    <3>3. needs_cas' \in [OpFut -> [Slot -> BOOLEAN]]
      BY <2>1 DEF PutTypeOK
    <3> QED
      BY <1>1, <3>1, <3>2, <3>3 DEF PutStepReadSeq, PutTypeOK
  <2>7. StateTypeOK'
    BY <1>1, <1>f, <2>5 DEF PutStepReadSeq, StateTypeOK, Step
  <2> QED
    BY <2>6, <2>7 DEF StepPut, GetTypeOK, RangeTypeOK, rangeVars
<1>2. CASE PutStepOptimistic(f)
  <2> DEFINE won == {i \in Slot : Swapped(f, i)}
             z0 == (target_reg[f].seq - 1) % SeqMod
  <2>1. PICK z_max \in SeqsSeen(f) \cup {z0} :
          IF success_count'[f] >= Quorum
          THEN PutDone(f)
          ELSE PutAgain(f, MkRegister(NextSeq(z_max), Owner(f), value[f]))
    BY <1>2 DEF PutStepOptimistic
  <2>2. /\ success_count' = [success_count EXCEPT ![f] = @ + Cardinality(won)]
        /\ needs_cas' = [needs_cas EXCEPT ![f] = [i \in Slot |-> i \notin won]]
        /\ expected' = [expected EXCEPT ![f] =
             [i \in Slot |-> IF i \in won THEN target_reg[f] ELSE bufs[f][i]]]
        /\ progress' = [progress EXCEPT ![f] = FALSE]
        /\ UNCHANGED << mem, up, halted, key, bufs, value >>
    BY <1>2 DEF PutStepOptimistic
  <2>3. z_max \in Seq16
    <3>1. target_reg[f].seq \in Seq16
      BY DEF PutTypeOK, Register
    <3> QED
      BY <1>z, <3>1, PrevSeqType
  <2>4. Cardinality(won) \in Nat
    BY SlotCount
  <2> HIDE DEF won, z0
  <2>5. /\ success_count' \in [OpFut -> Nat]
        /\ needs_cas' \in [OpFut -> [Slot -> BOOLEAN]]
        /\ expected' \in [OpFut -> [Slot -> Register]]
    <3>1. success_count' \in [OpFut -> Nat]
      BY <2>2, <2>4 DEF PutTypeOK
    <3>2. needs_cas' \in [OpFut -> [Slot -> BOOLEAN]]
      BY <2>2 DEF PutTypeOK
    <3>3. expected' \in [OpFut -> [Slot -> Register]]
      BY <2>2 DEF PutTypeOK, StateTypeOK
    <3> QED
      BY <3>1, <3>2, <3>3
  <2>6. /\ sq' \in [Client -> [Slot -> Seq(WorkRequest)]]
        /\ cq' \in [Client -> [Slot -> Seq(Completion)]]
        /\ ongoing' \in [Fut -> [Slot -> Int]]
        /\ to_poll' \in [Client -> [Slot -> Int]]
        /\ cache' \in [Client -> [Key -> Register]]
        /\ valid' \in [Client -> SUBSET Key]
        /\ step' \in [Fut -> Step]
        /\ target_reg' \in [OpFut -> Register]
    <3>1. target_reg \in [OpFut -> Register]
      BY DEF PutTypeOK
    <3>2. CASE PutDone(f)
      BY <3>1, <3>2, PutDoneType
    <3>3. CASE PutAgain(f, MkRegister(NextSeq(z_max), Owner(f), value[f]))
      BY <3>1, <3>3, <2>3, <2>5, <1>t, PutAgainType
    <3> QED
      BY <2>1, <3>2, <3>3
  <2>7. PutTypeOK'
    BY <2>2, <2>5, <2>6 DEF PutTypeOK
  <2>8. StateTypeOK'
    BY <2>2, <2>6 DEF StateTypeOK
  <2> QED
    BY <2>7, <2>8 DEF StepPut, GetTypeOK, RangeTypeOK, rangeVars
<1>3. CASE PutStepCAS(f)
  <2> DEFINE won == {i \in Slot : needs_cas[f][i] /\ Swapped(f, i)}
  <2>1. /\ success_count' = [success_count EXCEPT ![f] = @ + Cardinality(won)]
        /\ needs_cas' = [needs_cas EXCEPT ![f] =
              [i \in Slot |-> needs_cas[f][i] /\ i \notin won]]
        /\ expected' = [expected EXCEPT ![f] =
              [i \in Slot |-> IF needs_cas[f][i] THEN bufs[f][i] ELSE expected[f][i]]]
        /\ progress' = [progress EXCEPT ![f] = FALSE]
        /\ UNCHANGED << mem, up, halted, key, bufs, value >>
    BY <1>3 DEF PutStepCAS
  <2>2. PutDone(f) \/ PutAgain(f, target_reg[f])
    BY <1>3 DEF PutStepCAS
  <2>3. Cardinality(won) \in Nat
    BY SlotCount
  <2> HIDE DEF won
  <2>4. /\ success_count' \in [OpFut -> Nat]
        /\ needs_cas' \in [OpFut -> [Slot -> BOOLEAN]]
        /\ expected' \in [OpFut -> [Slot -> Register]]
    <3>1. success_count' \in [OpFut -> Nat]
      BY <2>1, <2>3 DEF PutTypeOK
    <3>2. needs_cas' \in [OpFut -> [Slot -> BOOLEAN]]
      BY <2>1 DEF PutTypeOK
    <3>3. expected' \in [OpFut -> [Slot -> Register]]
      BY <2>1 DEF PutTypeOK, StateTypeOK
    <3> QED
      BY <3>1, <3>2, <3>3
  <2>5. target_reg \in [OpFut -> Register] /\ target_reg[f] \in Register
    BY DEF PutTypeOK
  <2>6. /\ sq' \in [Client -> [Slot -> Seq(WorkRequest)]]
        /\ cq' \in [Client -> [Slot -> Seq(Completion)]]
        /\ ongoing' \in [Fut -> [Slot -> Int]]
        /\ to_poll' \in [Client -> [Slot -> Int]]
        /\ cache' \in [Client -> [Key -> Register]]
        /\ valid' \in [Client -> SUBSET Key]
        /\ step' \in [Fut -> Step]
        /\ target_reg' \in [OpFut -> Register]
    <3>1. CASE PutDone(f)
      BY <3>1, <2>5, PutDoneType
    <3>2. CASE PutAgain(f, target_reg[f])
      BY <3>2, <2>4, <2>5, PutAgainType
    <3> QED
      BY <2>2, <3>1, <3>2
  <2>7. PutTypeOK'
    BY <2>1, <2>4, <2>6 DEF PutTypeOK
  <2>8. StateTypeOK'
    BY <2>1, <2>6 DEF StateTypeOK
  <2> QED
    BY <2>7, <2>8 DEF StepPut, GetTypeOK, RangeTypeOK, rangeVars
<1>4. CASE PutStepOutrun(f)
  <2>1. PICK r \in Slot :
          /\ success_count' = [success_count EXCEPT ![f] = Quorum - r]
          /\ needs_cas' = [needs_cas EXCEPT ![f] = [i \in Slot |-> i <= r]]
          /\ expected' = [expected EXCEPT ![f] = bufs[f]]
          /\ PutAgain(f, MkRegister(NextSeq(bufs[f][r].seq), Owner(f), value[f]))
          /\ progress' = [progress EXCEPT ![f] = FALSE]
          /\ UNCHANGED << mem, up, halted, key, bufs, value >>
    BY <1>4 DEF PutStepOutrun
  <2>2. success_count' \in [OpFut -> Nat]
    <3>1. Quorum - r \in Nat
      BY QuorumAssumption, ServersAssumption DEF Slot
    <3> QED
      BY <2>1, <3>1 DEF PutTypeOK
  <2>3. needs_cas' \in [OpFut -> [Slot -> BOOLEAN]]
    BY <2>1 DEF PutTypeOK
  <2>4. expected' \in [OpFut -> [Slot -> Register]]
    BY <2>1 DEF PutTypeOK, StateTypeOK
  <2>5. MkRegister(NextSeq(bufs[f][r].seq), Owner(f), value[f]) \in Register
    BY <1>t DEF StateTypeOK, Register
  <2>6. /\ sq' \in [Client -> [Slot -> Seq(WorkRequest)]]
        /\ cq' \in [Client -> [Slot -> Seq(Completion)]]
        /\ ongoing' \in [Fut -> [Slot -> Int]]
        /\ to_poll' \in [Client -> [Slot -> Int]]
        /\ cache' \in [Client -> [Key -> Register]]
        /\ valid' \in [Client -> SUBSET Key]
        /\ step' \in [Fut -> Step]
        /\ target_reg' \in [OpFut -> Register]
    <3>1. target_reg \in [OpFut -> Register]
      BY DEF PutTypeOK
    <3> QED
      BY <2>1, <2>4, <2>5, <3>1, PutAgainType
  <2>7. PutTypeOK'
    BY <2>1, <2>2, <2>3, <2>4, <2>6 DEF PutTypeOK
  <2>8. StateTypeOK'
    BY <2>1, <2>6 DEF StateTypeOK
  <2> QED
    BY <2>7, <2>8 DEF StepPut, GetTypeOK, RangeTypeOK, rangeVars
<1> QED
  BY <1>1, <1>2, <1>3, <1>4 DEF StepPut

\* The steps of a get preserve the types.
LEMMA StepGetTypeOK ==
    ASSUME TypeOK, NEW f \in OpFut, StepGet(f)
    PROVE  TypeOK'
<1> USE DEF TypeOK
<1>f. f \in Fut /\ Owner(f) \in Client
  BY OwnerType DEF Fut
<1>1. CASE GetStepReading(f)
  <2>1. PICK m \in {bufs[f][i] : i \in Slot} \cup {ZeroRegister} :
          LET lagging == {i \in Slot : bufs[f][i] # m}
          IN  /\ max_reg' = [max_reg EXCEPT ![f] = m]
              /\ CachePut(Owner(f), key[f], m)
              /\ \/ /\ Post(f, lagging, [i \in Slot |-> CasWR(f, key[f], bufs[f][i], m)])
                    /\ step' = [step EXCEPT ![f] = "WritingBack"]
                 \/ /\ PostNothing
                    /\ step' = [step EXCEPT ![f] = "Done"]
    BY <1>1 DEF GetStepReading
  <2>2. m \in Register /\ key[f] \in Key
    BY <1>f, <2>1, ZeroRegisterType DEF StateTypeOK
  <2> DEFINE lagging == {i \in Slot : bufs[f][i] # m}
             W == [i \in Slot |-> CasWR(f, key[f], bufs[f][i], m)]
  <2>3. /\ sq' \in [Client -> [Slot -> Seq(WorkRequest)]]
        /\ cq' \in [Client -> [Slot -> Seq(Completion)]]
        /\ ongoing' \in [Fut -> [Slot -> Int]]
        /\ to_poll' \in [Client -> [Slot -> Int]]
    <3>1. CASE PostNothing
      BY <3>1 DEF PostNothing, StateTypeOK
    <3>2. CASE Post(f, lagging, [i \in Slot |-> CasWR(f, key[f], bufs[f][i], m)])
      <4>1. W \in [Slot -> WorkRequest]
        BY <2>2, WorkRequestTypes DEF StateTypeOK
      <4>2. Post(f, lagging, W)
        BY <3>2 DEF Post
      <4>3. lagging \in SUBSET Slot
        OBVIOUS
      <4> HIDE DEF W, lagging
      <4> QED
        BY <1>f, <4>1, <4>2, <4>3, PostType
    <3> QED
      BY <2>1, <3>1, <3>2
  <2>4. /\ cache' \in [Client -> [Key -> Register]]
        /\ valid' \in [Client -> SUBSET Key]
    BY <1>f, <2>1, <2>2, CachePutType
  <2>5. step' \in [Fut -> Step] /\ GetTypeOK'
    BY <1>f, <2>1, <2>2 DEF StateTypeOK, GetTypeOK, Step
  <2>6. StateTypeOK'
    BY <1>1, <2>3, <2>4, <2>5 DEF GetStepReading, StateTypeOK
  <2> QED
    BY <2>5, <2>6 DEF StepGet, PutTypeOK, RangeTypeOK, putVars, rangeVars
<1>2. CASE GetStepWritingBack(f)
  BY <1>2, <1>f
     DEF GetStepWritingBack, StepGet, PostNothing, StateTypeOK, PutTypeOK, GetTypeOK,
         RangeTypeOK, putVars, rangeVars, Step
<1> QED
  BY <1>1, <1>2 DEF StepGet

\* The step of a scan preserves the types.
LEMMA StepRangeTypeOK ==
    ASSUME TypeOK, NEW f \in RangeFut, StepRange(f)
    PROVE  TypeOK'
<1> USE DEF TypeOK
<1>f. f \in Fut /\ Owner(f) \in Client
  BY OwnerType DEF Fut
<1>1. PICK acc \in [KeysOf(f) -> {bulk_bufs[f][i][k] : i \in Slot, k \in Key}] :
        RangeFinish(f, acc)
  BY DEF StepRange, RangeStepReading
<1>2. \A k \in KeysOf(f) : acc[k] \in Register
  BY <1>1 DEF RangeTypeOK
<1>3. KeysOf(f) \subseteq Key
  BY <1>f, RegistersAssumption DEF StateTypeOK, RangeTypeOK, KeysOf, Key
<1>4. /\ cache' \in [Client -> [Key -> Register]]
      /\ valid' \in [Client -> SUBSET Key]
  <2>1. CASE UNCHANGED << cache, valid >>
    BY <2>1 DEF StateTypeOK
  <2>2. CASE /\ cache' = [cache EXCEPT ![Owner(f)] =
                  [k \in Key |-> IF k \in KeysOf(f) THEN acc[k] ELSE @[k]]]
             /\ valid' = [valid EXCEPT ![Owner(f)] = @ \cup KeysOf(f)]
    <3>1. cache' \in [Client -> [Key -> Register]]
      BY <1>f, <1>2, <2>2 DEF StateTypeOK
    <3>2. valid[Owner(f)] \cup KeysOf(f) \in SUBSET Key
      BY <1>f, <1>3 DEF StateTypeOK
    <3>3. valid' \in [Client -> SUBSET Key]
      BY <1>f, <2>2, <3>2 DEF StateTypeOK
    <3> QED
      BY <3>1, <3>3
  <2> QED
    BY <1>1, <2>1, <2>2 DEF RangeFinish
<1>5. RangeTypeOK'
  BY <1>1, <1>2, ZeroRegisterType DEF RangeTypeOK, RangeFinish
<1>6. StateTypeOK'
  BY <1>1, <1>f, <1>4 DEF StateTypeOK, PostNothing, Step, RangeFinish
<1> QED
  BY <1>5, <1>6 DEF StepRange, PutTypeOK, GetTypeOK, putVars

\* Every step preserves the types.
LEMMA NextTypeOK == TypeOK /\ [Next]_vars => TypeOK'
<1> SUFFICES ASSUME TypeOK, [Next]_vars PROVE TypeOK'
  OBVIOUS
<1>1. ASSUME NEW c \in Client, NEW i \in Slot, Nic(c, i) PROVE TypeOK'
  BY <1>1, NicTypeOK
<1>2. ASSUME NEW s \in Server, ServerCrash(s) PROVE TypeOK'
  BY <1>2 DEF ServerCrash, TypeOK, StateTypeOK, PutTypeOK, GetTypeOK, RangeTypeOK,
              putVars, rangeVars
<1>3. ASSUME NEW c \in Client, TickRdma(c) \/ TickRdmaThrows(c) PROVE TypeOK'
  BY <1>3, TickTypeOK
<1>4. ASSUME NEW f \in Fut, ClientStep(f) PROVE TypeOK'
  <2>1. CASE StepBlocked(f)
    BY <2>1 DEF StepBlocked, PostNothing, TypeOK, StateTypeOK, PutTypeOK, GetTypeOK,
                RangeTypeOK, putVars, rangeVars
  <2> QED
    BY <1>4, <2>1, StepPutTypeOK, StepGetTypeOK, StepRangeTypeOK DEF ClientStep
<1>5. ASSUME NEW f \in Fut, Start(f) PROVE TypeOK'
  BY <1>5, StartPutTypeOK, StartGetTypeOK, StartRangeTypeOK DEF Start
<1>6. CASE UNCHANGED vars
  BY <1>6 DEF vars, stateVars, putVars, rangeVars, TypeOK, StateTypeOK, PutTypeOK,
              GetTypeOK, RangeTypeOK
<1> QED
  BY <1>1, <1>2, <1>3, <1>4, <1>5, <1>6 DEF Next

\* The code's fields stay within their widths, and every register, queue and
\* counter within its type, for every configuration.
THEOREM TypeCorrect == Spec => []TypeOK
BY InitTypeOK, NextTypeOK, PTL DEF Spec

-----------------------------------------------------------------------------
\* An unsuccessful completion comes from a server that has fail-stopped.
ErrorsFromCrashed ==
    \A c \in Client, i \in Slot : \A m \in 1 .. Len(cq[c][i]) :
        ~cq[c][i][m].ok => quorum_indices(c, i) \notin up

HaltInv == TypeOK /\ ErrorsFromCrashed /\ HaltOnlyOnCrash

\* A completion appended with the status of its server keeps ErrorsFromCrashed.
LEMMA CompleteErrors ==
    ASSUME HaltInv, NEW c \in Client, NEW i \in Slot, NEW ok \in BOOLEAN,
           Complete(c, i, ok), ~ok => quorum_indices(c, i) \notin up,
           up' = up, halted' = halted
    PROVE  ErrorsFromCrashed' /\ HaltOnlyOnCrash'
<1> DEFINE e == [fut |-> Head(sq[c][i]).fut, ok |-> ok]
<1>1. cq' = [cq EXCEPT ![c][i] = Append(cq[c][i], e)]
  BY DEF Complete
<1>2. e.ok = ok
  OBVIOUS
<1> HIDE DEF e
<1>3. ASSUME NEW d \in Client, NEW j \in Slot, NEW m \in 1 .. Len(cq'[d][j]),
             ~cq'[d][j][m].ok
      PROVE  quorum_indices(d, j) \notin up'
  <2>0. cq \in [Client -> [Slot -> Seq(Completion)]]
    BY DEF HaltInv, TypeOK, StateTypeOK
  <2>1. CASE d = c /\ j = i
    <3>1. cq'[d][j] = Append(cq[c][i], e)
      BY <1>1, <2>0, <2>1
    <3>2. cq[c][i] \in Seq(Completion)
      BY <2>0
    <3>3. CASE m = Len(cq[c][i]) + 1
      <4>1. cq'[d][j][m] = e
        BY <3>1, <3>2, <3>3
      <4> QED
        BY <1>2, <1>3, <2>1, <4>1
    <3>4. CASE m # Len(cq[c][i]) + 1
      <4>1. m \in 1 .. Len(cq[c][i])
        BY <1>3, <3>1, <3>2, <3>4
      <4>2. cq'[d][j][m] = cq[c][i][m]
        BY <3>1, <3>2, <4>1
      <4> QED
        BY <1>3, <2>1, <4>1, <4>2 DEF HaltInv, ErrorsFromCrashed
    <3> QED
      BY <3>3, <3>4
  <2>2. CASE ~(d = c /\ j = i)
    <3>1. cq'[d][j] = cq[d][j]
      BY <1>1, <2>0, <2>2
    <3> QED
      BY <1>3, <3>1 DEF HaltInv, ErrorsFromCrashed
  <2> QED
    BY <2>1, <2>2
<1>4. ErrorsFromCrashed'
  BY <1>3 DEF ErrorsFromCrashed, quorum_indices
<1> QED
  BY <1>4 DEF HaltInv, HaltOnlyOnCrash

LEMMA NextHaltInv == HaltInv /\ [Next]_vars => HaltInv'
<1> SUFFICES ASSUME HaltInv, [Next]_vars PROVE HaltInv'
  OBVIOUS
<1>t. TypeOK'
  BY NextTypeOK DEF HaltInv
<1>u. ASSUME UNCHANGED << up, halted, cq >> PROVE ErrorsFromCrashed' /\ HaltOnlyOnCrash'
  BY <1>u DEF HaltInv, ErrorsFromCrashed, HaltOnlyOnCrash
<1> SUFFICES ErrorsFromCrashed' /\ HaltOnlyOnCrash'
  BY <1>t DEF HaltInv
<1>1. ASSUME NEW c \in Client, NEW i \in Slot, Nic(c, i)
      PROVE  ErrorsFromCrashed' /\ HaltOnlyOnCrash'
  <2>1. CASE NicRead(c, i)
    BY <2>1, CompleteErrors DEF NicRead
  <2>2. CASE NicCas(c, i)
    BY <2>2, CompleteErrors DEF NicCas
  <2>3. CASE NicBulkWord(c, i)
    <3>1. CASE Complete(c, i, TRUE)
      BY <2>3, <3>1, CompleteErrors DEF NicBulkWord
    <3>2. CASE UNCHANGED cq
      BY <2>3, <3>2, <1>u DEF NicBulkWord
    <3> QED
      BY <2>3, <3>1, <3>2 DEF NicBulkWord
  <2>4. CASE NicError(c, i)
    BY <2>4, CompleteErrors DEF NicError
  <2> QED
    BY <1>1, <2>1, <2>2, <2>3, <2>4 DEF Nic
<1>2. ASSUME NEW s \in Server, ServerCrash(s)
      PROVE  ErrorsFromCrashed' /\ HaltOnlyOnCrash'
  BY <1>2 DEF ServerCrash, HaltInv, ErrorsFromCrashed, HaltOnlyOnCrash
<1>3. ASSUME NEW c \in Client, TickRdma(c) PROVE ErrorsFromCrashed' /\ HaltOnlyOnCrash'
  <2>1. PICK n \in [Slot -> 0 .. (2 * AsyncParallelism)] :
          /\ \A i \in Slot : n[i] > 0 => n[i] <= Len(cq[c][i])
          /\ cq' = [cq EXCEPT ![c] =
                      [i \in Slot |-> SubSeq(cq[c][i], n[i] + 1, Len(cq[c][i]))]]
          /\ up' = up /\ halted' = halted
    BY <1>3 DEF TickRdma
  <2>2. ASSUME NEW d \in Client, NEW j \in Slot, NEW m \in 1 .. Len(cq'[d][j]),
               ~cq'[d][j][m].ok
        PROVE  quorum_indices(d, j) \notin up
    <3>0. cq[d][j] \in Seq(Completion) /\ n[j] \in Nat
      BY AsyncAssumption DEF HaltInv, TypeOK, StateTypeOK
    <3>1. CASE d = c
      <4>1. cq'[d][j] = SubSeq(cq[d][j], n[j] + 1, Len(cq[d][j]))
        BY <2>1, <3>1 DEF HaltInv, TypeOK, StateTypeOK
      <4>2. /\ m + n[j] \in 1 .. Len(cq[d][j])
            /\ cq'[d][j][m] = cq[d][j][m + n[j]]
        <5> DEFINE q == cq[d][j]
                   a == n[j] + 1
                   b == Len(q)
        <5>1. q \in Seq(Completion) /\ a \in Nat /\ b \in Nat /\ a >= 1
          BY <3>0
        <5>2. m \in 1 .. Len(SubSeq(q, a, b))
          BY <2>2, <4>1
        <5> HIDE DEF q, a, b
        <5>3. m \in 1 .. (b - a + 1)
          BY <5>1, <5>2, SubSeqProperties DEF b
        <5>4. SubSeq(q, a, b)[m] = q[a + m - 1]
          BY <5>1, <5>3, SubSeqProperties DEF b
        <5>5. n[j] \in Nat /\ a = n[j] + 1
          BY <3>0 DEF a
        <5>6. a + m - 1 = m + n[j] /\ m + n[j] \in 1 .. b
          BY <5>1, <5>3, <5>5
        <5> QED
          BY <4>1, <5>4, <5>6 DEF q, a, b
      <4> QED
        BY <2>2, <4>2 DEF HaltInv, ErrorsFromCrashed
    <3>2. CASE d # c
      <4>1. cq'[d][j] = cq[d][j]
        BY <2>1, <3>2 DEF HaltInv, TypeOK, StateTypeOK
      <4> QED
        BY <2>2, <4>1 DEF HaltInv, ErrorsFromCrashed
    <3> QED
      BY <3>1, <3>2
  <2> QED
    BY <2>1, <2>2 DEF HaltInv, ErrorsFromCrashed, HaltOnlyOnCrash, quorum_indices
<1>4. ASSUME NEW c \in Client, TickRdmaThrows(c)
      PROVE  ErrorsFromCrashed' /\ HaltOnlyOnCrash'
  <2>1. PICK i \in Slot : \E m \in 1 .. Len(cq[c][i]) : ~cq[c][i][m].ok
    BY <1>4 DEF TickRdmaThrows
  <2>2. quorum_indices(c, i) \notin up
    BY <2>1 DEF HaltInv, ErrorsFromCrashed
  <2> QED
    BY <1>4, <2>2 DEF TickRdmaThrows, HaltInv, ErrorsFromCrashed, HaltOnlyOnCrash
<1>5. ASSUME NEW f \in Fut, ClientStep(f) PROVE UNCHANGED << up, halted, cq >>
  <2>1. CASE StepPut(f)
    <3>1. CASE PutStepReadSeq(f)
      BY <3>1 DEF PutStepReadSeq, PostCas, Post
    <3>2. CASE PutStepOptimistic(f)
      BY <3>2 DEF PutStepOptimistic, PutDone, PutAgain, PostCas, Post, PostNothing
    <3>3. CASE PutStepCAS(f)
      BY <3>3 DEF PutStepCAS, PutDone, PutAgain, PostCas, Post, PostNothing
    <3>4. CASE PutStepOutrun(f)
      BY <3>4 DEF PutStepOutrun, PutAgain, PostCas, Post
    <3> QED
      BY <2>1, <3>1, <3>2, <3>3, <3>4 DEF StepPut
  <2>2. CASE StepGet(f)
    BY <2>2 DEF StepGet, GetStepReading, GetStepWritingBack, Post, PostNothing
  <2>3. CASE StepRange(f)
    BY <2>3 DEF StepRange, RangeStepReading, RangeFinish, PostNothing
  <2>4. CASE StepBlocked(f)
    BY <2>4 DEF StepBlocked, PostNothing
  <2> QED
    BY <1>5, <2>1, <2>2, <2>3, <2>4 DEF ClientStep
<1>6. ASSUME NEW f \in Fut, Start(f) PROVE UNCHANGED << up, halted, cq >>
  BY <1>6 DEF Start, StartPut, StartGet, StartRange, DoPutHit, DoPutMiss, DoGet, DoRange,
              Post
<1>7. CASE UNCHANGED vars
  BY <1>7, <1>u DEF vars, stateVars
<1> QED
  BY <1>1, <1>2, <1>3, <1>4, <1>5, <1>6, <1>7, <1>u DEF Next

\* tickRdma throws only when a memory server of the client's quorum has really
\* fail-stopped; no interleaving of polls and posts makes a client give up.
THEOREM HaltSound == Spec => []HaltOnlyOnCrash
<1>1. Init => HaltInv
  <2> SUFFICES ASSUME Init PROVE HaltInv
    OBVIOUS
  <2>1. ASSUME NEW c \in Client, NEW i \in Slot PROVE Len(cq[c][i]) = 0
    BY DEF Init, StateInit
  <2>2. ErrorsFromCrashed
    BY <2>1 DEF ErrorsFromCrashed
  <2>3. HaltOnlyOnCrash
    BY DEF Init, StateInit, HaltOnlyOnCrash
  <2> QED
    BY <2>2, <2>3, InitTypeOK DEF HaltInv
<1>2. HaltInv => HaltOnlyOnCrash
  BY DEF HaltInv
<1> QED
  BY <1>1, <1>2, NextHaltInv, PTL DEF Spec
=============================================================================

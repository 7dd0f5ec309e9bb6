-------------------------- MODULE OneReplicaProofs --------------------------
(***************************************************************************)
(* Proof that the register store built with one replica is linearizable: it *)
(* implements AtomicRegisters, as long as the server is up and no sequence  *)
(* number has reached its last value.                                       *)
(***************************************************************************)
EXTENDS OneReplica, DsTagProofs

\* The work requests that f may be waiting for.
Asked(f) ==
    CASE step[f] = "ReadSeq" -> {ReadWR(f, key[f])}
      [] step[f] \in {"OptimisticChain", "CAS"} ->
           {CasWR(f, key[f], expected[f][1], target_reg[f])}
      [] step[f] = "Reading" -> IF f \in OpFut THEN {ReadWR(f, key[f])}
                                ELSE {BulkWR(f, k) : k \in KeysOf(f)}
      [] OTHER -> {}

\* The one queue of each client holds at most one request of each future, the
\* one that the future's state says.
QueuesMatch ==
    /\ \A c \in Client : Single(sq[c][1])
    /\ \A f \in Fut : Pending(f) \subseteq Asked(f)

\* A put writes its caller's value, and retries until its CAS has taken effect;
\* with one replica no get writes back; a scan has a range.
FutureSane(f) ==
    /\ f \in OpFut => /\ step[f] # "WritingBack"
                      /\ step[f] \in {"OptimisticChain", "CAS"} =>
                           target_reg[f].value = value[f]
                      /\ step[f] = "CAS" => needs_cas[f][1]
    /\ f \in RangeFut => step[f] \in {"Done", "Reading"} /\ key[f] <= end_key[f]

\* Sequence number 0 is only ever the initial content.
Genuine(r) == r.seq = 0 => r = ZeroRegister

ContentsGenuine ==
    /\ \A k \in Key : Genuine(mem[0][k])
    /\ \A f \in OpFut : Genuine(bufs[f][1])

OneInv ==
    /\ WakeInv /\ TagInv
    /\ QueuesMatch /\ (\A f \in Fut : FutureSane(f)) /\ ContentsGenuine

-----------------------------------------------------------------------------
(***************************************************************************)
(* The steps of AtomicRegisters, in terms of the refinement mapping.        *)
(***************************************************************************)

\* Every future but f is, to its caller, where it was.
OthersStay(f) == \A g \in Fut \ {f} : OpOf(g)' = OpOf(g)

AbsOp == [f \in Fut |-> OpOf(f)]
AbsReg == [k \in Key |-> mem[0][k].value]

LEMMA AbsOpMoves ==
    ASSUME NEW f \in Fut, OthersStay(f)
    PROVE  AbsOp' = [AbsOp EXCEPT ![f] = OpOf(f)']
BY DEF AbsOp, OthersStay

LEMMA AbsStutter ==
    ASSUME \A g \in Fut : OpOf(g)' = OpOf(g), UNCHANGED << mem, max_reg, results >>
    PROVE  UNCHANGED Atomic!avars
<1>1. AbsOp' = AbsOp
  BY DEF AbsOp
<1> QED
  BY <1>1 DEF AbsOp, Atomic!avars

\* An operation of AtomicRegisters.
AbsCall(kind, last, arg, next, got) ==
    [kind |-> kind, last |-> last, arg |-> arg, next |-> next, got |-> got]

LEMMA AbsRead ==
    ASSUME NEW f \in Fut, OthersStay(f), NEW l \in Int, NEW k \in Key, k <= l,
           NEW got \in [Key -> Value],
           OpOf(f) = AbsCall("read", l, 0, k, got),
           OpOf(f)' = AbsCall("read", l, 0, k + 1, [got EXCEPT ![k] = mem[0][k].value]),
           UNCHANGED << mem, max_reg, results >>
    PROVE  Atomic!ANext
<1>1. AbsOp' = [AbsOp EXCEPT ![f] = OpOf(f)']
  BY AbsOpMoves
<1>2. AbsOp[f] = OpOf(f)
  BY DEF AbsOp
<1>3. AbsReg[k] = mem[0][k].value
  BY DEF AbsReg
<1> HIDE DEF AbsReg
<1>4. AbsOp' = [AbsOp EXCEPT ![f].got[AbsOp[f].next] = AbsReg[AbsOp[f].next],
                             ![f].next = @ + 1]
  <2> DEFINE v == mem[0][k].value
             a == AbsCall("read", l, 0, k, [got EXCEPT ![k] = v])
             A == [AbsOp EXCEPT ![f].got[k] = v]
  <2>1. DOMAIN AbsOp = Fut /\ AbsOp = [g \in Fut |-> AbsOp[g]]
    BY DEF AbsOp
  <2>2. A = [AbsOp EXCEPT ![f] = a]
    <3>1. [AbsOp[f] EXCEPT !.got[k] = v] = a
      BY <1>2 DEF AbsCall
    <3>2. A = [AbsOp EXCEPT ![f] = [AbsOp[f] EXCEPT !.got[k] = v]]
      BY <2>1
    <3> QED
      BY <3>1, <3>2
  <2>3. A[f] = a /\ A[f].next = k
    BY <2>1, <2>2 DEF AbsCall
  <2>4. [A EXCEPT ![f].next = @ + 1] = [AbsOp EXCEPT ![f] = OpOf(f)']
    <3>1. [a EXCEPT !.next = k + 1] = OpOf(f)'
      BY DEF AbsCall
    <3> HIDE DEF a, A
    <3>2. [A EXCEPT ![f].next = @ + 1] = [A EXCEPT ![f] = OpOf(f)']
      BY <2>3, <3>1
    <3> QED
      BY <2>1, <2>2, <3>2
  <2>5. AbsOp[f].next = k
    BY <1>2 DEF AbsCall
  <2>6. [AbsOp EXCEPT ![f].got[k] = v, ![f].next = @ + 1] = [A EXCEPT ![f].next = @ + 1]
    OBVIOUS
  <2> HIDE DEF v
  <2> QED
    BY <1>1, <1>3, <2>4, <2>5, <2>6 DEF v
<1>5. Atomic!Read(f)
  BY <1>2, <1>4 DEF Atomic!Read, AbsOp, AbsReg, AbsCall
<1> QED
  BY <1>5 DEF Atomic!ANext, Fut

LEMMA AbsWrite ==
    ASSUME NEW f \in Fut, OthersStay(f), NEW k \in Key, NEW v, NEW got,
           OpOf(f) = AbsCall("put", k, v, k, got),
           OpOf(f)' = AbsCall("put", k, v, k + 1, got),
           AbsReg' = [AbsReg EXCEPT ![k] = v],
           UNCHANGED << max_reg, results >>
    PROVE  Atomic!ANext
<1>1. AbsOp' = [AbsOp EXCEPT ![f] = OpOf(f)']
  BY AbsOpMoves
<1>2. AbsOp[f] = OpOf(f)
  BY DEF AbsOp
<1>3. AbsOp' = [AbsOp EXCEPT ![f].next = @ + 1]
  <2>1. [AbsOp[f] EXCEPT !.next = @ + 1] = OpOf(f)'
    BY <1>2 DEF AbsCall
  <2>2. [AbsOp EXCEPT ![f].next = @ + 1] = [AbsOp EXCEPT ![f] = [AbsOp[f] EXCEPT !.next = @ + 1]]
    OBVIOUS
  <2> QED
    BY <1>1, <2>1, <2>2
<1>4. /\ AbsOp[f].kind = "put" /\ AbsOp[f].next = k /\ AbsOp[f].last = k
      /\ AbsOp[f].arg = v /\ k <= k
  BY <1>2 DEF AbsCall, Key
<1>5. Atomic!Write(f)
  BY <1>3, <1>4 DEF Atomic!Write, AbsOp, AbsReg
<1> QED
  BY <1>5 DEF Atomic!ANext, Fut

LEMMA AbsReturn ==
    ASSUME NEW f \in Fut, OthersStay(f), NEW kind, kind # "idle", NEW l, NEW v, NEW got,
           OpOf(f) = AbsCall(kind, l, v, l + 1, got), OpOf(f)' = IdleOp,
           AbsReg' = AbsReg,
           [g \in OpFut |-> max_reg[g].value]' =
              IF f \in OpFut /\ kind = "read"
              THEN [[g \in OpFut |-> max_reg[g].value] EXCEPT ![f] = got[l]]
              ELSE [g \in OpFut |-> max_reg[g].value],
           [g \in RangeFut |-> [k \in Key |-> results[g][k].value]]' =
              IF f \in RangeFut
              THEN [[g \in RangeFut |-> [k \in Key |-> results[g][k].value]] EXCEPT ![f] = got]
              ELSE [g \in RangeFut |-> [k \in Key |-> results[g][k].value]]
    PROVE  Atomic!ANext
<1>1. AbsOp' = [AbsOp EXCEPT ![f] = IdleOp]
  BY AbsOpMoves
<1>2. AbsOp[f] = OpOf(f)
  BY DEF AbsOp
<1>3. /\ AbsOp[f].kind = kind /\ AbsOp[f].next = AbsOp[f].last + 1 /\ AbsOp[f].last = l
      /\ AbsOp[f].got = got
  BY <1>2 DEF AbsCall
<1>4. Atomic!Return(f)
  BY <1>1, <1>3 DEF Atomic!Return, Atomic!Idle, Atomic!Nothing, IdleOp, AbsOp, AbsReg
<1> QED
  BY <1>4 DEF Atomic!ANext, Fut

\* The caller of f begins an operation.
LEMMA AbsBegins ==
    ASSUME NEW f \in Fut, OthersStay(f), OpOf(f) = IdleOp, NEW kind, kind # "idle",
           NEW l, NEW v, NEW k,
           OpOf(f)' = AbsCall(kind, l, v, k, [j \in Key |-> 0])
    PROVE  /\ AbsOp[f] = Atomic!Idle
           /\ AbsOp' = [AbsOp EXCEPT ![f] = Atomic!Call(kind, k, l, v)]
           /\ AbsOp'[f] # Atomic!Idle
<1>1. AbsOp' = [AbsOp EXCEPT ![f] = OpOf(f)']
  BY AbsOpMoves
<1>2. AbsOp[f] = OpOf(f) /\ AbsOp'[f] = OpOf(f)'
  BY DEF AbsOp
<1>3. OpOf(f)' = Atomic!Call(kind, k, l, v)
  BY DEF Atomic!Call, Atomic!Nothing, AbsCall
<1>4. IdleOp = Atomic!Idle
  BY DEF IdleOp, Atomic!Idle, Atomic!Nothing
<1>5. OpOf(f)'.kind = kind /\ Atomic!Idle.kind = "idle"
  BY DEF AbsCall, Atomic!Idle
<1> QED
  BY <1>1, <1>2, <1>3, <1>4, <1>5

LEMMA AbsPut ==
    ASSUME NEW f \in OpFut, OthersStay(f), OpOf(f) = IdleOp, NEW k \in Key, NEW v \in Value,
           OpOf(f)' = AbsCall("put", k, v, k, [j \in Key |-> 0]),
           UNCHANGED << mem, max_reg, results >>
    PROVE  Atomic!ANext
<1>1. /\ AbsOp[f] = Atomic!Idle
      /\ AbsOp' = [AbsOp EXCEPT ![f] = Atomic!Call("put", k, k, v)]
      /\ AbsOp'[f] # Atomic!Idle
  BY AbsBegins DEF Fut
<1>2. Atomic!InvokePut(f, k, v)
  BY <1>1 DEF Atomic!InvokePut, AbsOp
<1>3. Atomic!Begins(f)
  BY <1>1 DEF Atomic!Begins, AbsOp
<1> QED
  BY <1>2, <1>3 DEF Atomic!ANext

LEMMA AbsGet ==
    ASSUME NEW f \in OpFut, OthersStay(f), OpOf(f) = IdleOp, NEW k \in Key,
           OpOf(f)' = AbsCall("read", k, 0, k, [j \in Key |-> 0]),
           max_reg' = [max_reg EXCEPT ![f] = ZeroRegister],
           max_reg \in [OpFut -> Register],
           UNCHANGED << mem, results >>
    PROVE  Atomic!ANext
<1>1. /\ AbsOp[f] = Atomic!Idle
      /\ AbsOp' = [AbsOp EXCEPT ![f] = Atomic!Call("read", k, k, 0)]
      /\ AbsOp'[f] # Atomic!Idle
  BY AbsBegins DEF Fut
<1>2. [g \in OpFut |-> max_reg[g].value]' = [[g \in OpFut |-> max_reg[g].value] EXCEPT ![f] = 0]
  BY DEF ZeroRegister
<1>3. Atomic!InvokeGet(f, k)
  BY <1>1, <1>2 DEF Atomic!InvokeGet, AbsOp
<1>4. Atomic!Begins(f)
  BY <1>1 DEF Atomic!Begins, AbsOp
<1> QED
  BY <1>3, <1>4 DEF Atomic!ANext

LEMMA AbsScan ==
    ASSUME NEW f \in RangeFut, OthersStay(f), OpOf(f) = IdleOp,
           NEW k \in Key, NEW l \in Key, k <= l,
           OpOf(f)' = AbsCall("read", l, 0, k, [j \in Key |-> 0]),
           UNCHANGED << mem, max_reg, results >>
    PROVE  Atomic!ANext
<1>1. /\ AbsOp[f] = Atomic!Idle
      /\ AbsOp' = [AbsOp EXCEPT ![f] = Atomic!Call("read", k, l, 0)]
      /\ AbsOp'[f] # Atomic!Idle
  BY AbsBegins DEF Fut
<1>2. Atomic!InvokeScan(f, k, l)
  BY <1>1 DEF Atomic!InvokeScan, AbsOp
<1>3. Atomic!Begins(f)
  BY <1>1 DEF Atomic!Begins, AbsOp
<1> QED
  BY <1>2, <1>3 DEF Atomic!ANext

-----------------------------------------------------------------------------
(***************************************************************************)
(* The futures and their queue.                                             *)
(***************************************************************************)
LEMMA OneSlot ==
    ASSUME NumServers = 1
    PROVE  /\ Quorum = 1 /\ Slot = {1} /\ Server = {0}
           /\ \A c \in Client : quorum_indices(c, 1) = 0
<1>1. Quorum = 1 /\ Slot = {1} /\ Server = {0}
  BY QuorumAssumption DEF Slot, Server
<1>2. \A c \in Client : quorum_indices(c, 1) = 0
  BY <1>1, ReplicaType
<1> QED
  BY <1>1, <1>2

LEMMA PendingWithin == \A f : Pending(f) = Within(sq[Owner(f)][1], f)
BY DEF Pending, Within

LEMMA PendingWithinNext == \A f : Pending(f)' = Within(sq'[Owner(f)][1], f)
BY DEF Pending, Within, Owner

\* What the proofs use of the types.
LEMMA OneTypes ==
    ASSUME OneInv, NumServers = 1
    PROVE  /\ sq \in [Client -> [{1} -> Seq(WorkRequest)]]
           /\ mem \in [{0} -> [Key -> Register]]
           /\ step \in [Fut -> Step] /\ key \in [Fut -> Key]
           /\ bufs \in [OpFut -> [{1} -> Register]]
           /\ value \in [OpFut -> Value] /\ target_reg \in [OpFut -> Register]
           /\ expected \in [OpFut -> [{1} -> Register]]
           /\ needs_cas \in [OpFut -> [{1} -> BOOLEAN]]
           /\ success_count \in [OpFut -> Nat]
           /\ max_reg \in [OpFut -> Register]
           /\ end_key \in [RangeFut -> Key]
           /\ bulk_bufs \in [RangeFut -> [{1} -> [Key -> Register]]]
           /\ results \in [RangeFut -> [Key -> Register]]
BY OneSlot DEF OneInv, WakeInv, AccountingInv, TypeOK, StateTypeOK, PutTypeOK, GetTypeOK,
               RangeTypeOK

\* The request at the head of a client's queue.
LEMMA HeadRequest ==
    ASSUME OneInv, NumServers = 1, NEW c \in Client, sq[c][1] # << >>, NEW w, w = Head(sq[c][1])
    PROVE  /\ w \in WorkRequest /\ w.fut \in Fut /\ Owner(w.fut) = c /\ w.key \in Key
           /\ Pending(w.fut) = {w} /\ w \in Asked(w.fut)
<1> DEFINE q == sq[c][1]
           f == w.fut
<1>1. q \in Seq(RaisingWR(c)) /\ Single(q)
  BY OneSlot DEF OneInv, TagInv, QueuesRaise, QueuesMatch
<1>2. w \in RaisingWR(c)
  BY <1>1
<1>3. w \in WorkRequest /\ Owner(f) = c
  BY <1>2 DEF RaisingWR
<1>4. f \in Fut /\ w.key \in Key
  BY <1>3 DEF WorkRequest, Fut
<1>5. Within(q, f) = {w}
  <2> HIDE DEF q
  <2> QED
    BY <1>1, WithinTail DEF q
<1>6. Pending(f) = {w}
  BY <1>3, <1>5, PendingWithin
<1>7. Pending(f) \subseteq Asked(f)
  BY <1>4 DEF OneInv, QueuesMatch
<1> QED
  BY <1>3, <1>4, <1>6, <1>7

\* The head of c's queue completes.
LEMMA HeadCompletes ==
    ASSUME OneInv, NumServers = 1, NEW c \in Client, sq[c][1] # << >>,
           NEW f, f = Head(sq[c][1]).fut, sq' = [sq EXCEPT ![c][1] = Tail(sq[c][1])]
    PROVE  /\ \A d \in Client : Single(sq'[d][1])
           /\ Pending(f)' = {}
           /\ \A g \in Fut \ {f} : Pending(g)' = Pending(g)
<1> DEFINE q == sq[c][1]
<1>1. q \in Seq(WorkRequest) /\ \A d \in Client : Single(sq[d][1])
  BY OneTypes DEF OneInv, QueuesMatch
<1>2. \A d \in Client : sq'[d][1] = IF d = c THEN Tail(q) ELSE sq[d][1]
  BY OneTypes
<1>3. Owner(f) = c
  BY HeadRequest
<1>4. /\ Single(Tail(q)) /\ Within(Tail(q), f) = {}
      /\ \A g : g # f => Within(Tail(q), g) = Within(q, g)
  <2> HIDE DEF q
  <2> QED
    BY <1>1, WithinTail DEF q
<1>5. \A d \in Client : Single(sq'[d][1])
  BY <1>1, <1>2, <1>4
<1>6. \A d \in Client : d = c => sq'[d][1] = Tail(q)
  BY <1>2
<1>7. Pending(f)' = {}
  <2>1. sq'[Owner(f)][1] = Tail(q)
    BY <1>3, <1>6
  <2> HIDE DEF q
  <2> QED
    BY <1>4, <2>1, PendingWithinNext
<1>8. ASSUME NEW g \in Fut \ {f} PROVE Pending(g)' = Pending(g)
  BY <1>2, <1>4, OwnerType, PendingWithin, PendingWithinNext
<1> QED
  BY <1>5, <1>7, <1>8

\* The bulk read at the head of c's queue goes on to its next register.
LEMMA HeadAdvances ==
    ASSUME OneInv, NumServers = 1, NEW c \in Client, sq[c][1] # << >>,
           NEW e \in WorkRequest, e.fut = Head(sq[c][1]).fut,
           sq' = [sq EXCEPT ![c][1] = << e >> \o Tail(sq[c][1])]
    PROVE  /\ \A d \in Client : Single(sq'[d][1])
           /\ Pending(e.fut)' = {e}
           /\ \A g \in Fut \ {e.fut} : Pending(g)' = Pending(g)
<1> DEFINE q == sq[c][1]
           f == e.fut
           z == << e >> \o Tail(q)
<1>1. q \in Seq(WorkRequest) /\ \A d \in Client : Single(sq[d][1])
  BY OneTypes DEF OneInv, QueuesMatch
<1>2. \A d \in Client : sq'[d][1] = IF d = c THEN z ELSE sq[d][1]
  BY OneTypes
<1>3. Owner(f) = c
  BY HeadRequest
<1>4. /\ Single(z) /\ Within(z, f) = {e}
      /\ \A g : g # f => Within(z, g) = Within(q, g)
  <2>1. q \in Seq(WorkRequest) /\ q # << >> /\ Single(q) /\ e.fut = Head(q).fut
    BY <1>1
  <2> HIDE DEF q
  <2> QED
    BY <2>1, WithinReplaced
<1> HIDE DEF z
<1>5. \A d \in Client : Single(sq'[d][1])
  BY <1>1, <1>2, <1>4
<1>6. Pending(f)' = {e}
  BY <1>2, <1>3, <1>4, PendingWithinNext
<1>7. ASSUME NEW g \in Fut \ {f} PROVE Pending(g)' = Pending(g)
  BY <1>2, <1>4, OwnerType, PendingWithin, PendingWithinNext
<1> QED
  BY <1>5, <1>6, <1>7

\* A future that has nothing posted posts a request.
LEMMA RequestPosted ==
    ASSUME OneInv, NumServers = 1, NEW f \in Fut, Pending(f) = {}, NEW S, NEW W, Post(f, S, W),
           1 \in S, NEW w \in WorkRequest, W[1] = w, w.fut = f
    PROVE  /\ \A d \in Client : Single(sq'[d][1])
           /\ Pending(f)' = {w}
           /\ \A g \in Fut \ {f} : Pending(g)' = Pending(g)
<1> DEFINE c == Owner(f)
           q == sq[c][1]
           z == Append(q, w)
<1>0. c \in Client
  BY OwnerType
<1>1. q \in Seq(WorkRequest) /\ \A d \in Client : Single(sq[d][1])
  BY <1>0, OneTypes DEF OneInv, QueuesMatch
<1>2. \A d \in Client : sq'[d][1] = IF d = c THEN z ELSE sq[d][1]
  BY <1>0, OneTypes, OneSlot DEF Post
<1>3. Within(q, f) = {}
  BY PendingWithin
<1>4. /\ Single(z) /\ Within(z, f) = {w}
      /\ \A g : g # f => Within(z, g) = Within(q, g)
  <2>1. q \in Seq(WorkRequest) /\ Single(q) /\ Within(q, w.fut) = {}
    BY <1>0, <1>1, <1>3
  <2> HIDE DEF q
  <2>2. /\ Single(Append(q, w)) /\ Within(Append(q, w), w.fut) = {w}
        /\ \A g : g # w.fut => Within(Append(q, w), g) = Within(q, g)
    BY <2>1, WithinAppend
  <2> QED
    BY <2>2
<1> HIDE DEF z
<1>5. \A d \in Client : Single(sq'[d][1])
  BY <1>1, <1>2, <1>4
<1>6. Pending(f)' = {w}
  BY <1>0, <1>2, <1>4, PendingWithinNext
<1>7. ASSUME NEW g \in Fut \ {f} PROVE Pending(g)' = Pending(g)
  BY <1>2, <1>4, OwnerType, PendingWithin, PendingWithinNext
<1> QED
  BY <1>5, <1>6, <1>7

\* What the caller of f sees, by the state of f.
PutView(f) ==
    AbsCall("put", key[f], value[f], IF Applied(f) THEN key[f] + 1 ELSE key[f],
            [k \in Key |-> 0])
ReadView(f, n) ==
    AbsCall("read", LastKey(f), 0, n,
            [k \in Key |-> IF k \in key[f] .. (n - 1) THEN Got(f, k) ELSE 0])

Views(f) ==
    /\ step[f] = "Done" => OpOf(f) = IdleOp
    /\ f \in OpFut /\ IsPut(f) => OpOf(f) = PutView(f)
    /\ step[f] = "Reading" /\ Pending(f) = {} => OpOf(f) = ReadView(f, LastKey(f) + 1)
    /\ step[f] = "Reading" => \A w : Pending(f) = {w} => OpOf(f) = ReadView(f, w.key)

LEMMA ViewsHold == \A f : Views(f)
<1> TAKE f
<1>1. step[f] = "Done" => OpOf(f) = IdleOp
  BY DEF OpOf
<1>2. f \in OpFut /\ IsPut(f) => OpOf(f) = PutView(f)
  BY FutureKinds DEF OpOf, PutView, AbsCall, NextKey, IsPut, LastKey
<1>3. step[f] = "Reading" /\ Pending(f) = {} => OpOf(f) = ReadView(f, LastKey(f) + 1)
  BY DEF OpOf, ReadView, AbsCall, NextKey, IsPut
<1>4. ASSUME NEW w, step[f] = "Reading", Pending(f) = {w} PROVE OpOf(f) = ReadView(f, w.key)
  <2>1. (CHOOSE x \in Pending(f) : TRUE) = w
    BY <1>4
  <2>2. NextKey(f) = w.key
    BY <1>4, <2>1 DEF NextKey, IsPut
  <2> QED
    BY <1>4, <2>2 DEF OpOf, ReadView, AbsCall, IsPut
<1> QED
  BY <1>1, <1>2, <1>3, <1>4 DEF Views

LEMMA ViewsHoldNext == \A f : Views(f)'
<1>1. (\A f : Views(f))'
  BY ViewsHold, PTL
<1> QED
  BY <1>1

\* A step in which g takes no part.
Unmoved(g) ==
    /\ step'[g] = step[g] /\ key'[g] = key[g] /\ Pending(g)' = Pending(g)
    /\ g \in OpFut => /\ bufs'[g] = bufs[g] /\ expected'[g] = expected[g]
                      /\ value'[g] = value[g] /\ target_reg'[g] = target_reg[g]
                      /\ needs_cas'[g] = needs_cas[g]
    /\ g \in RangeFut => end_key'[g] = end_key[g] /\ bulk_bufs'[g] = bulk_bufs[g]

LEMMA UnmovedStays ==
    ASSUME NEW g \in Fut, FutureSane(g), Unmoved(g)
    PROVE  OpOf(g)' = OpOf(g) /\ FutureSane(g)' /\ Asked(g)' = Asked(g)
<1>1. CASE g \in OpFut
  <2>u. /\ step'[g] = step[g] /\ key'[g] = key[g] /\ Pending(g)' = Pending(g)
        /\ bufs'[g] = bufs[g] /\ expected'[g] = expected[g]
        /\ value'[g] = value[g] /\ target_reg'[g] = target_reg[g]
        /\ needs_cas'[g] = needs_cas[g] /\ g \notin RangeFut
    BY <1>1, FutureKinds DEF Unmoved
  <2>1. LastKey(g)' = LastKey(g) /\ NextKey(g)' = NextKey(g) /\ IsPut(g)' = IsPut(g)
    BY <2>u DEF LastKey, NextKey, IsPut, Applied
  <2>2. \A k \in Key : Got(g, k)' = Got(g, k)
    BY <2>u DEF Got
  <2>3. OpOf(g)' = OpOf(g)
    BY <2>u, <2>1, <2>2 DEF OpOf
  <2>4. FutureSane(g)'
    BY <2>u DEF FutureSane
  <2>5. Asked(g)' = Asked(g)
    BY <1>1, <2>u DEF Asked
  <2> QED
    BY <2>3, <2>4, <2>5
<1>2. CASE g \in RangeFut
  <2>u. /\ step'[g] = step[g] /\ key'[g] = key[g] /\ Pending(g)' = Pending(g)
        /\ end_key'[g] = end_key[g] /\ bulk_bufs'[g] = bulk_bufs[g]
        /\ g \notin OpFut /\ step[g] \in {"Done", "Reading"}
    BY <1>2, FutureKinds DEF Unmoved, FutureSane
  <2>1. LastKey(g)' = LastKey(g) /\ NextKey(g)' = NextKey(g) /\ ~IsPut(g)' /\ ~IsPut(g)
    BY <1>2, <2>u DEF LastKey, NextKey, IsPut
  <2>2. \A k \in Key : Got(g, k)' = Got(g, k)
    BY <1>2, <2>u DEF Got
  <2>3. OpOf(g)' = OpOf(g)
    BY <2>u, <2>1, <2>2 DEF OpOf
  <2>4. FutureSane(g)'
    BY <2>u DEF FutureSane
  <2>5. Asked(g)' = Asked(g)
    BY <1>2, <2>u DEF Asked, KeysOf
  <2> QED
    BY <2>3, <2>4, <2>5
<1> QED
  BY <1>1, <1>2, FutureKinds

\* What a step of f, or for f, has to show of f.
LEMMA OneMoves ==
    ASSUME OneInv, NEW f \in Fut, \A g \in Fut \ {f} : Unmoved(g),
           \A c \in Client : Single(sq'[c][1]),
           Pending(f)' \subseteq Asked(f)', FutureSane(f)'
    PROVE  QueuesMatch' /\ (\A g \in Fut : FutureSane(g)') /\ OthersStay(f)
<1>1. ASSUME NEW g \in Fut \ {f}
      PROVE  OpOf(g)' = OpOf(g) /\ FutureSane(g)' /\ Asked(g)' = Asked(g) /\ Pending(g)' = Pending(g)
  BY UnmovedStays DEF OneInv, Unmoved
<1>2. ASSUME NEW g \in Fut PROVE Pending(g)' \subseteq Asked(g)' /\ FutureSane(g)'
  BY <1>1 DEF OneInv, QueuesMatch
<1>3. QueuesMatch'
  BY <1>2 DEF QueuesMatch, Single
<1> QED
  BY <1>1, <1>2, <1>3 DEF OthersStay

\* A step that no future takes part in.
LEMMA NoneMoves ==
    ASSUME OneInv, UNCHANGED << sq, step, key, bufs, putVars, rangeVars, mem, max_reg >>
    PROVE  /\ QueuesMatch' /\ (\A g \in Fut : FutureSane(g)') /\ ContentsGenuine'
           /\ UNCHANGED Atomic!avars
<1>1. \A g : Pending(g)' = Pending(g)
  BY DEF Pending, Owner
<1>2. \A g \in Fut : Unmoved(g)
  BY <1>1 DEF Unmoved, putVars, rangeVars
<1>3. ASSUME NEW g \in Fut
      PROVE  OpOf(g)' = OpOf(g) /\ FutureSane(g)' /\ Asked(g)' = Asked(g)
  BY <1>2, UnmovedStays DEF OneInv
<1>4. QueuesMatch'
  <2>1. \A c \in Client : Single(sq'[c][1])
    BY DEF OneInv, QueuesMatch
  <2>2. \A g \in Fut : Pending(g)' \subseteq Asked(g)'
    BY <1>1, <1>3 DEF OneInv, QueuesMatch
  <2> QED
    BY <2>1, <2>2 DEF QueuesMatch, Single
<1>5. ContentsGenuine'
  BY DEF OneInv, ContentsGenuine, Genuine
<1>6. UNCHANGED << mem, max_reg, results >>
  BY DEF rangeVars
<1> QED
  BY <1>3, <1>4, <1>5, <1>6, AbsStutter

-----------------------------------------------------------------------------
(***************************************************************************)
(* The server's steps.                                                      *)
(***************************************************************************)

\* What every step has to show: it keeps the parts of OneInv that are about one
\* replica, and is a step of AtomicRegisters or changes none of its variables.
Refined ==
    /\ QueuesMatch' /\ (\A g \in Fut : FutureSane(g)') /\ ContentsGenuine'
    /\ [Atomic!ANext]_(Atomic!avars)

LEMMA NicReadRefined ==
    ASSUME OneInv, NumServers = 1, NEW c \in Client, NicRead(c, 1)
    PROVE  Refined
<1>1. PICK w : w = Head(sq[c][1])
  OBVIOUS
<1>2. PICK f : f = w.fut
  OBVIOUS
<1>e. /\ sq[c][1] # << >> /\ w.op = "read"
      /\ sq' = [sq EXCEPT ![c][1] = Tail(sq[c][1])]
      /\ bufs' = [bufs EXCEPT ![f][1] = mem[0][w.key]]
      /\ UNCHANGED << mem, step, key, putVars, max_reg, rangeVars >>
  BY <1>1, <1>2, OneSlot DEF NicRead, Executable, Complete
<1>3. /\ w \in WorkRequest /\ f \in Fut /\ Owner(f) = c /\ w.key \in Key
      /\ Pending(f) = {w} /\ w \in Asked(f)
  BY <1>1, <1>2, <1>e, HeadRequest
<1>4. /\ \A d \in Client : Single(sq'[d][1])
      /\ Pending(f)' = {} /\ \A g \in Fut \ {f} : Pending(g)' = Pending(g)
  BY <1>1, <1>2, <1>e, HeadCompletes
<1>5. f \in OpFut
  BY <1>2, <1>3, <1>e DEF WorkRequest
<1>6. /\ step[f] \in {"ReadSeq", "Reading"} /\ w = ReadWR(f, key[f]) /\ w.key = key[f]
  BY <1>3, <1>5, <1>e DEF Asked, ReadWR, CasWR
<1>t. /\ bufs \in [OpFut -> [{1} -> Register]] /\ mem \in [{0} -> [Key -> Register]]
      /\ key[f] \in Key /\ step \in [Fut -> Step]
  BY <1>3, OneTypes
<1>7. /\ bufs'[f][1] = mem[0][key[f]] /\ \A g \in OpFut \ {f} : bufs'[g] = bufs[g]
  BY <1>t, <1>5, <1>6, <1>e
<1>8. \A g \in Fut \ {f} : Unmoved(g)
  BY <1>4, <1>7, <1>e DEF Unmoved, putVars, rangeVars
<1>9. FutureSane(f)'
  BY <1>3, <1>e DEF OneInv, FutureSane, putVars, rangeVars
<1>10. QueuesMatch' /\ (\A g \in Fut : FutureSane(g)') /\ OthersStay(f)
  BY <1>3, <1>4, <1>8, <1>9, OneMoves
<1>11. ContentsGenuine'
  <2>1. \A k \in Key : Genuine(mem[0][k])
    BY DEF OneInv, ContentsGenuine
  <2>2. \A g \in OpFut : Genuine(bufs[g][1])
    BY DEF OneInv, ContentsGenuine
  <2>3. \A g \in OpFut : Genuine(bufs'[g][1])
    BY <1>7, <1>t, <2>1, <2>2
  <2> QED
    BY <1>e, <2>1, <2>3 DEF ContentsGenuine, Genuine
<1>u. UNCHANGED << mem, max_reg, results >> /\ step'[f] = step[f] /\ key'[f] = key[f]
  BY <1>e DEF rangeVars
<1>v. Views(f) /\ Views(f)'
  BY ViewsHold, ViewsHoldNext
<1>12. CASE step[f] = "ReadSeq"
  <2>1. OpOf(f) = PutView(f) /\ OpOf(f)' = PutView(f)'
    BY <1>5, <1>12, <1>u, <1>v DEF Views, IsPut
  <2>2. ~Applied(f) /\ ~Applied(f)'
    BY <1>12, <1>u DEF Applied
  <2>3. value'[f] = value[f]
    BY <1>e DEF putVars
  <2>4. OpOf(f)' = OpOf(f)
    BY <1>u, <2>1, <2>2, <2>3 DEF PutView, AbsCall
  <2>5. UNCHANGED Atomic!avars
    BY <1>10, <1>u, <2>4, AbsStutter DEF OthersStay
  <2> QED
    BY <1>10, <1>11, <2>5 DEF Refined
<1>13. CASE step[f] = "Reading"
  <2> DEFINE k == key[f]
             none == [j \in Key |-> 0]
  <2>1. LastKey(f) = k /\ LastKey(f)' = k
    BY <1>5, <1>u, FutureKinds DEF LastKey
  <2>2. OpOf(f) = ReadView(f, w.key) /\ OpOf(f)' = ReadView(f, LastKey(f) + 1)'
    BY <1>3, <1>4, <1>13, <1>u, <1>v DEF Views
  <2>i. k \in Int /\ \A j \in Key : j \in Int
    BY <1>t DEF Key
  <2>3. OpOf(f) = AbsCall("read", k, 0, k, none)
    <3>1. \A j \in Key : j \notin k .. (k - 1)
      BY <2>i
    <3> QED
      BY <1>6, <2>1, <2>2, <3>1 DEF ReadView
  <2>4. \A j \in Key : Got(f, j)' = mem[0][k].value
    BY <1>5, <1>7, FutureKinds DEF Got
  <2>5. OpOf(f)' = AbsCall("read", k, 0, k + 1, [none EXCEPT ![k] = mem[0][k].value])
    <3>1. \A j \in Key : j \in k .. ((k + 1) - 1) <=> j = k
      BY <2>i
    <3> HIDE DEF k
    <3>2. OpOf(f)' = AbsCall("read", k, 0, k + 1,
                        [j \in Key |-> IF j \in k .. ((k + 1) - 1) THEN mem[0][k].value ELSE 0])
      BY <1>u, <2>1, <2>2, <2>4 DEF ReadView, k
    <3> QED
      BY <3>1, <3>2
  <2>6. none \in [Key -> Value] /\ k <= k
    BY <2>i, ValueAssumption
  <2> HIDE DEF k, none
  <2>7. Atomic!ANext
    BY <1>3, <1>10, <1>u, <1>t, <2>i, <2>3, <2>5, <2>6, AbsRead DEF k
  <2> QED
    BY <1>10, <1>11, <2>7 DEF Refined
<1> QED
  BY <1>6, <1>12, <1>13

\* What a put is about to write has a sequence number above 0.
LEMMA TargetsGenuine ==
    ASSUME OneInv, NumServers = 1, NEW f \in OpFut, Pending(f) # {},
           step[f] \in {"OptimisticChain", "CAS"}
    PROVE  Genuine(target_reg[f])
<1>1. PutBelow(step[f], needs_cas[f], expected[f], bufs[f], target_reg[f]) /\ 1 \in Slot
  BY OneSlot DEF OneInv, TagInv, PutsBelow
<1>2. step[f] = "CAS" => needs_cas[f][1]
  <2>1. HasOf(sq[Owner(f)][1], f)
    BY DEF Pending, HasOf
  <2> QED
    BY <1>1, <2>1 DEF OneInv, TagInv, PendingNeeded
<1>3. expected[f][1].seq < target_reg[f].seq
  BY <1>1, <1>2 DEF PutBelow
<1>4. expected[f][1].seq \in Nat /\ target_reg[f].seq \in Nat
  BY OneTypes, LowFacts
<1>5. target_reg[f].seq # 0
  BY <1>3, <1>4
<1> QED
  BY <1>5 DEF Genuine

LEMMA NicCasRefined ==
    ASSUME OneInv, NumServers = 1, NEW c \in Client, NicCas(c, 1)
    PROVE  Refined
<1>1. PICK w : w = Head(sq[c][1])
  OBVIOUS
<1>2. PICK f : f = w.fut
  OBVIOUS
<1> DEFINE swap(m) == IF m = w.expected THEN w.target ELSE m
<1>e. /\ sq[c][1] # << >> /\ w.op = "cas"
      /\ sq' = [sq EXCEPT ![c][1] = Tail(sq[c][1])]
      /\ bufs' = [bufs EXCEPT ![f][1] = mem[0][w.key]]
      /\ mem' = [mem EXCEPT ![0][w.key] = swap(@)]
      /\ UNCHANGED << step, key, putVars, max_reg, rangeVars >>
  BY <1>1, <1>2, OneSlot DEF NicCas, Executable, Complete
<1>3. /\ w \in WorkRequest /\ f \in Fut /\ Owner(f) = c /\ w.key \in Key
      /\ Pending(f) = {w} /\ w \in Asked(f)
  BY <1>1, <1>2, <1>e, HeadRequest
<1>4. /\ \A d \in Client : Single(sq'[d][1])
      /\ Pending(f)' = {} /\ \A g \in Fut \ {f} : Pending(g)' = Pending(g)
  BY <1>1, <1>2, <1>e, HeadCompletes
<1>5. f \in OpFut
  BY <1>2, <1>3, <1>e DEF WorkRequest
<1>6. /\ step[f] \in {"OptimisticChain", "CAS"} /\ w.key = key[f]
      /\ w.expected = expected[f][1] /\ w.target = target_reg[f]
  BY <1>3, <1>5, <1>e DEF Asked, ReadWR, CasWR
<1>t. /\ bufs \in [OpFut -> [{1} -> Register]] /\ mem \in [{0} -> [Key -> Register]]
      /\ key[f] \in Key /\ step \in [Fut -> Step]
  BY <1>3, OneTypes
<1> DEFINE k == key[f]
           m == mem[0][k]
           hit == m = expected[f][1]
<1>7. /\ bufs'[f][1] = m /\ \A g \in OpFut \ {f} : bufs'[g] = bufs[g]
  BY <1>t, <1>5, <1>6, <1>e
<1>m. \A j \in Key : mem'[0][j] = IF hit /\ j = k THEN target_reg[f] ELSE mem[0][j]
  BY <1>t, <1>6, <1>e
<1>8. \A g \in Fut \ {f} : Unmoved(g)
  BY <1>4, <1>7, <1>e DEF Unmoved, putVars, rangeVars
<1>9. FutureSane(f) /\ FutureSane(f)'
  BY <1>3, <1>e DEF OneInv, FutureSane, putVars, rangeVars
<1>10. QueuesMatch' /\ (\A g \in Fut : FutureSane(g)') /\ OthersStay(f)
  BY <1>3, <1>4, <1>8, <1>9, OneMoves
<1>11. ContentsGenuine'
  <2>1. \A j \in Key : Genuine(mem[0][j])
    BY DEF OneInv, ContentsGenuine
  <2>2. \A g \in OpFut : Genuine(bufs[g][1])
    BY DEF OneInv, ContentsGenuine
  <2>3. \A g \in OpFut : Genuine(bufs'[g][1])
    BY <1>7, <1>t, <2>1, <2>2
  <2>4. Genuine(target_reg[f])
    BY <1>3, <1>5, <1>6, TargetsGenuine
  <2>5. \A j \in Key : Genuine(mem'[0][j])
    BY <1>m, <2>1, <2>4
  <2> QED
    BY <2>3, <2>5 DEF ContentsGenuine, Genuine
<1>u. /\ UNCHANGED << max_reg, results >> /\ step'[f] = step[f] /\ key'[f] = key[f]
      /\ value'[f] = value[f] /\ expected'[f] = expected[f]
  BY <1>e DEF rangeVars, putVars
<1>v. Views(f) /\ Views(f)'
  BY ViewsHold, ViewsHoldNext
<1>12. OpOf(f) = PutView(f) /\ OpOf(f)' = PutView(f)'
  BY <1>5, <1>6, <1>u, <1>v DEF Views, IsPut
<1>13. ~Applied(f) /\ (Applied(f)' <=> hit)
  BY <1>3, <1>4, <1>6, <1>7, <1>u DEF Applied
<1> DEFINE none == [j \in Key |-> 0]
<1>14. OpOf(f) = AbsCall("put", k, value[f], k, none)
  BY <1>12, <1>13 DEF PutView
<1>15. CASE hit
  <2>1. OpOf(f)' = AbsCall("put", k, value[f], k + 1, none)
    BY <1>12, <1>13, <1>15, <1>u DEF PutView
  <2>2. AbsReg' = [AbsReg EXCEPT ![k] = value[f]]
    <3>1. target_reg[f].value = value[f]
      BY <1>5, <1>6, <1>9 DEF FutureSane
    <3> HIDE DEF hit, k
    <3>2. \A j \in Key : mem'[0][j].value = IF j = k THEN value[f] ELSE mem[0][j].value
      BY <1>15, <1>m, <3>1
    <3> QED
      BY <3>2 DEF AbsReg
  <2> HIDE DEF none, k
  <2>3. Atomic!ANext
    BY <1>3, <1>10, <1>14, <1>t, <1>u, <2>1, <2>2, AbsWrite DEF k
  <2> QED
    BY <1>10, <1>11, <2>3 DEF Refined
<1>16. CASE ~hit
  <2>1. OpOf(f)' = OpOf(f)
    BY <1>12, <1>13, <1>14, <1>16, <1>u DEF PutView
  <2>2. mem' = mem
    BY <1>16, <1>m, <1>t, <1>e
  <2>3. UNCHANGED Atomic!avars
    BY <1>10, <1>u, <2>1, <2>2, AbsStutter DEF OthersStay
  <2> QED
    BY <1>10, <1>11, <2>3 DEF Refined
<1> QED
  BY <1>15, <1>16

LEMMA NicBulkRefined ==
    ASSUME OneInv, NumServers = 1, NEW c \in Client, NicBulkWord(c, 1)
    PROVE  Refined
<1>1. PICK w : w = Head(sq[c][1])
  OBVIOUS
<1>2. PICK f : f = w.fut
  OBVIOUS
<1>e. /\ sq[c][1] # << >> /\ w.op = "bulk"
      /\ bulk_bufs' = [bulk_bufs EXCEPT ![f][1][w.key] = mem[0][w.key]]
      /\ IF w.key < end_key[f]
         THEN sq' = [sq EXCEPT ![c][1] = << [w EXCEPT !.key = w.key + 1] >> \o Tail(sq[c][1])]
         ELSE sq' = [sq EXCEPT ![c][1] = Tail(sq[c][1])]
      /\ UNCHANGED << mem, step, key, bufs, putVars, max_reg, end_key, results >>
  BY <1>1, <1>2, OneSlot DEF NicBulkWord, Executable, Complete
<1>3. /\ w \in WorkRequest /\ f \in Fut /\ Owner(f) = c /\ w.key \in Key
      /\ Pending(f) = {w} /\ w \in Asked(f)
  BY <1>1, <1>2, <1>e, HeadRequest
<1>5. f \in RangeFut /\ f \notin OpFut
  BY <1>2, <1>3, <1>e, FutureKinds DEF WorkRequest
<1>6. step[f] = "Reading" /\ FutureSane(f)
  BY <1>3, <1>5 DEF OneInv, FutureSane, Asked
<1> DEFINE k == w.key
           a == key[f]
           l == end_key[f]
<1>7. k \in a .. l /\ w = BulkWR(f, k)
  BY <1>3, <1>5, <1>6 DEF Asked, KeysOf, BulkWR
<1>t. /\ bulk_bufs \in [RangeFut -> [{1} -> [Key -> Register]]]
      /\ mem \in [{0} -> [Key -> Register]]
      /\ a \in Key /\ l \in Key /\ k \in Key /\ step \in [Fut -> Step]
  BY <1>3, <1>5, OneTypes
<1>i. a \in Int /\ l \in Int /\ k \in Int /\ \A j \in Key : j \in Int
  BY <1>t DEF Key
<1>b. /\ \A j \in Key : bulk_bufs'[f][1][j] = IF j = k THEN mem[0][k] ELSE bulk_bufs[f][1][j]
      /\ \A g \in RangeFut \ {f} : bulk_bufs'[g] = bulk_bufs[g]
  BY <1>e, <1>t, <1>5
<1>u. /\ UNCHANGED << mem, max_reg, results >> /\ step'[f] = step[f] /\ key'[f] = key[f]
      /\ end_key'[f] = end_key[f]
  BY <1>e
<1>8. /\ \A d \in Client : Single(sq'[d][1])
      /\ \A g \in Fut \ {f} : Pending(g)' = Pending(g)
      /\ Pending(f)' \subseteq Asked(f)'
      /\ \/ k = l /\ Pending(f)' = {}
         \/ \E v : Pending(f)' = {v} /\ v.key = k + 1
  <2>1. CASE k < l
    <3> DEFINE x == [w EXCEPT !.key = k + 1]
    <3>1. x = BulkWR(f, k + 1)
      BY <1>7 DEF BulkWR
    <3>k. k + 1 \in a .. l /\ k + 1 \in Key
      <4> HIDE DEF k, a, l
      <4> QED
        BY <1>7, <1>i, <2>1, <1>t, RegistersAssumption DEF Key
    <3>2. PICK e : e = x
      OBVIOUS
    <3>3. e = BulkWR(f, k + 1) /\ e \in WorkRequest /\ e.fut = f /\ e.key = k + 1
      <4>1. BulkWR(f, k + 1).fut = f /\ BulkWR(f, k + 1).key = k + 1
        BY DEF BulkWR
      <4> QED
        BY <1>5, <3>1, <3>2, <3>k, <4>1, WorkRequestTypes
    <3>4. sq' = [sq EXCEPT ![c][1] = << e >> \o Tail(sq[c][1])]
      BY <1>e, <2>1, <3>2
    <3> HIDE DEF x
    <3>5. /\ \A d \in Client : Single(sq'[d][1])
          /\ Pending(e.fut)' = {e}
          /\ \A g \in Fut \ {e.fut} : Pending(g)' = Pending(g)
      BY <1>1, <1>2, <1>e, <3>3, <3>4, HeadAdvances
    <3>6. e \in Asked(f)'
      BY <1>5, <1>6, <1>u, <3>3, <3>k DEF Asked, KeysOf
    <3> QED
      BY <3>3, <3>5, <3>6
  <2>2. CASE ~(k < l)
    <3>1. sq' = [sq EXCEPT ![c][1] = Tail(sq[c][1])] /\ k = l
      BY <1>e, <1>7, <1>i, <2>2
    <3>2. /\ \A d \in Client : Single(sq'[d][1])
          /\ Pending(f)' = {} /\ \A g \in Fut \ {f} : Pending(g)' = Pending(g)
      BY <1>1, <1>2, <1>e, <3>1, HeadCompletes
    <3> QED
      BY <3>1, <3>2
  <2> QED
    BY <2>1, <2>2
<1>9. \A g \in Fut \ {f} : Unmoved(g)
  BY <1>8, <1>b, <1>e DEF Unmoved, putVars
<1>10. FutureSane(f)'
  BY <1>5, <1>6, <1>u DEF FutureSane
<1>11. QueuesMatch' /\ (\A g \in Fut : FutureSane(g)') /\ OthersStay(f)
  BY <1>3, <1>8, <1>9, <1>10, OneMoves
<1>12. ContentsGenuine'
  BY <1>e DEF OneInv, ContentsGenuine, Genuine
<1>v. Views(f) /\ Views(f)'
  BY ViewsHold, ViewsHoldNext
<1>13. LastKey(f) = l /\ LastKey(f)' = l
  BY <1>5, <1>u DEF LastKey
<1>14. OpOf(f) = ReadView(f, k) /\ OpOf(f)' = ReadView(f, k + 1)'
  <2>1. OpOf(f) = ReadView(f, k)
    BY <1>3, <1>6, <1>v DEF Views
  <2>p. PICK n : n = k
    OBVIOUS
  <2>2. CASE k = l /\ Pending(f)' = {}
    <3>1. OpOf(f)' = ReadView(f, LastKey(f) + 1)'
      BY <1>6, <1>u, <1>v, <2>2 DEF Views
    <3>2. LastKey(f)' + 1 = k + 1
      BY <1>13, <2>2
    <3> QED
      BY <2>1, <3>1, <3>2 DEF ReadView
  <2>3. CASE \E v : Pending(f)' = {v} /\ v.key = k + 1
    <3>1. PICK v : Pending(f)' = {v} /\ v.key = k + 1
      BY <2>3
    <3>2. OpOf(f)' = ReadView(f, v.key)'
      BY <1>6, <1>u, <1>v, <3>1 DEF Views
    <3> QED
      BY <2>1, <3>1, <3>2
  <2> QED
    BY <1>8, <2>2, <2>3
<1> DEFINE got == [j \in Key |-> IF j \in a .. (k - 1) THEN bulk_bufs[f][1][j].value ELSE 0]
<1>15. \A j \in Key : Got(f, j) = bulk_bufs[f][1][j].value /\ Got(f, j)' = bulk_bufs'[f][1][j].value
  BY <1>5 DEF Got
<1>16. OpOf(f) = AbsCall("read", l, 0, k, got)
  BY <1>13, <1>14, <1>15 DEF ReadView
<1>17. OpOf(f)' = AbsCall("read", l, 0, k + 1, [got EXCEPT ![k] = mem[0][k].value])
  <2> DEFINE new == [j \in Key |-> IF j \in a .. ((k + 1) - 1) THEN bulk_bufs'[f][1][j].value ELSE 0]
  <2>1. OpOf(f)' = AbsCall("read", l, 0, k + 1, new)
    BY <1>13, <1>14, <1>15, <1>u DEF ReadView
  <2>2. \A j \in Key : j \in a .. ((k + 1) - 1) <=> j \in a .. (k - 1) \/ j = k
    BY <1>i, <1>7
  <2>3. ASSUME NEW j \in Key
        PROVE  new[j] = IF j = k THEN mem[0][k].value ELSE got[j]
    <3>1. k \notin a .. (k - 1)
      BY <1>i
    <3> HIDE DEF k, a
    <3> QED
      BY <1>b, <2>2, <3>1
  <2>4. new = [got EXCEPT ![k] = mem[0][k].value]
    <3>1. [got EXCEPT ![k] = mem[0][k].value] =
             [j \in Key |-> IF j = k THEN mem[0][k].value ELSE got[j]]
      OBVIOUS
    <3>2. new = [j \in Key |-> new[j]]
      OBVIOUS
    <3> HIDE DEF new, got
    <3> QED
      BY <2>3, <3>1, <3>2
  <2> QED
    BY <2>1, <2>4
<1>18. got \in [Key -> Value] /\ k <= l
  <2>1. \A j \in Key : bulk_bufs[f][1][j].value \in Value
    BY <1>t, <1>5 DEF Register
  <2> QED
    BY <2>1, <1>7, <1>i, ValueAssumption
<1>19. Atomic!ANext
  <2> HIDE DEF got, k, l
  <2> QED
    BY <1>3, <1>11, <1>16, <1>17, <1>18, <1>i, <1>t, <1>u, AbsRead
<1> QED
  BY <1>11, <1>12, <1>19 DEF Refined

-----------------------------------------------------------------------------
(***************************************************************************)
(* The clients' steps.                                                      *)
(***************************************************************************)

\* A step of f changes the fields of no other future.
Elsewhere(f) ==
    \A g \in Fut \ {f} :
        /\ step'[g] = step[g] /\ key'[g] = key[g]
        /\ g \in OpFut => /\ bufs'[g] = bufs[g] /\ expected'[g] = expected[g]
                          /\ value'[g] = value[g] /\ target_reg'[g] = target_reg[g]
                          /\ needs_cas'[g] = needs_cas[g]
        /\ g \in RangeFut => end_key'[g] = end_key[g] /\ bulk_bufs'[g] = bulk_bufs[g]

\* A step of f that posts its next request.
LEMMA PostingStep ==
    ASSUME OneInv, NumServers = 1, NEW f \in Fut, Pending(f) = {}, NEW S, NEW W,
           Post(f, S, W), 1 \in S, NEW w \in WorkRequest, W[1] = w, w.fut = f,
           Elsewhere(f), w \in Asked(f)', FutureSane(f)', UNCHANGED << mem, bufs >>
    PROVE  /\ QueuesMatch' /\ (\A g \in Fut : FutureSane(g)') /\ ContentsGenuine'
           /\ OthersStay(f) /\ Pending(f)' = {w}
<1>1. /\ \A d \in Client : Single(sq'[d][1])
      /\ Pending(f)' = {w}
      /\ \A g \in Fut \ {f} : Pending(g)' = Pending(g)
  BY RequestPosted
<1>2. \A g \in Fut \ {f} : Unmoved(g)
  BY <1>1 DEF Elsewhere, Unmoved
<1>3. QueuesMatch' /\ (\A g \in Fut : FutureSane(g)') /\ OthersStay(f)
  BY <1>1, <1>2, OneMoves
<1>4. ContentsGenuine'
  BY DEF OneInv, ContentsGenuine, Genuine
<1> QED
  BY <1>1, <1>3, <1>4

\* A step of f that ends its operation.
LEMMA EndingStep ==
    ASSUME OneInv, NumServers = 1, NEW f \in Fut, Pending(f) = {}, PostNothing,
           Elsewhere(f), FutureSane(f)', UNCHANGED << mem, bufs >>
    PROVE  /\ QueuesMatch' /\ (\A g \in Fut : FutureSane(g)') /\ ContentsGenuine'
           /\ OthersStay(f)
<1>1. /\ \A d \in Client : Single(sq'[d][1])
      /\ Pending(f)' = {}
      /\ \A g \in Fut \ {f} : Pending(g)' = Pending(g)
  BY DEF PostNothing, Pending, Owner, OneInv, QueuesMatch
<1>2. \A g \in Fut \ {f} : Unmoved(g)
  BY <1>1 DEF Elsewhere, Unmoved
<1>3. QueuesMatch' /\ (\A g \in Fut : FutureSane(g)') /\ OthersStay(f)
  BY <1>1, <1>2, OneMoves
<1>4. ContentsGenuine'
  BY DEF OneInv, ContentsGenuine, Genuine
<1> QED
  BY <1>1, <1>3, <1>4

LEMMA DoneHasNone ==
    ASSUME OneInv, NEW f \in Fut, step[f] = "Done"
    PROVE  Pending(f) = {} /\ OpOf(f) = IdleOp
<1>1. Pending(f) \subseteq Asked(f)
  BY DEF OneInv, QueuesMatch
<1> QED
  BY <1>1, ViewsHold DEF Asked, Views

LEMMA QuietIsIdle ==
    ASSUME OneInv, NumServers = 1, NEW f \in Fut, Quiet(f)
    PROVE  Pending(f) = {}
<1>1. ~HasOf(sq[Owner(f)][1], f)
  BY QuietHasNone, OneSlot DEF OneInv, WakeInv
<1> QED
  BY <1>1 DEF HasOf, Pending

LEMMA StartPutRefined ==
    ASSUME OneInv, NumServers = 1, NEW f \in OpFut, StartPut(f)
    PROVE  Refined
<1>f. f \in Fut /\ f \notin RangeFut /\ Owner(f) \in Client
  BY FutureKinds, OwnerType
<1>1. PICK k \in PutKeys[Owner(f)], v \in Value : DoPutHit(f, k, v) \/ DoPutMiss(f, k, v)
  BY DEF StartPut
<1>k. k \in Key
  BY <1>1, <1>f, PutKeysAssumption
<1>2. step[f] = "Done"
  BY DEF StartPut, Issue, FreeFuture
<1>3. Pending(f) = {} /\ OpOf(f) = IdleOp
  BY <1>f, <1>2, DoneHasNone
<1>t. /\ step \in [Fut -> Step] /\ key \in [Fut -> Key] /\ value \in [OpFut -> Value]
      /\ target_reg \in [OpFut -> Register] /\ expected \in [OpFut -> [{1} -> Register]]
      /\ needs_cas \in [OpFut -> [{1} -> BOOLEAN]]
  BY OneTypes
<1>s. Slot = {1} /\ 1 \in Slot
  BY OneSlot
<1>u. UNCHANGED << mem, bufs, max_reg, results, end_key, bulk_bufs >>
  BY <1>1 DEF StartPut, DoPutHit, DoPutMiss, rangeVars
<1>z. ASSUME step'[f] \in {"OptimisticChain", "ReadSeq"}, key'[f] = k, value'[f] = v,
             Pending(f)' # {}, OthersStay(f)
      PROVE  Atomic!ANext
  <2>1. ~Applied(f)'
    BY <1>z DEF Applied
  <2>2. OpOf(f)' = PutView(f)'
    BY <1>z, ViewsHoldNext DEF Views, IsPut
  <2>3. OpOf(f)' = AbsCall("put", k, v, k, [j \in Key |-> 0])
    BY <1>z, <2>1, <2>2 DEF PutView
  <2> QED
    BY <1>z, <1>3, <1>k, <1>u, <2>3, AbsPut
<1>4. CASE DoPutHit(f, k, v)
  <2> DEFINE cached == cache[Owner(f)][k]
             tgt == MkRegister(NextSeq(cached.seq), Owner(f), v)
             W == [i \in Slot |-> CasWR(f, k, cached, tgt)]
  <2>1. /\ step' = [step EXCEPT ![f] = "OptimisticChain"]
        /\ key' = [key EXCEPT ![f] = k] /\ value' = [value EXCEPT ![f] = v]
        /\ expected' = [expected EXCEPT ![f] = [i \in Slot |-> cached]]
        /\ target_reg' = [target_reg EXCEPT ![f] = tgt]
        /\ needs_cas' = [needs_cas EXCEPT ![f] = [i \in Slot |-> TRUE]]
        /\ Post(f, Slot, W)
    BY <1>4 DEF DoPutHit
  <2>2. cached \in Register
    BY <1>f, <1>k DEF OneInv, WakeInv, AccountingInv, TypeOK, StateTypeOK
  <2>3. tgt \in Register /\ tgt.value = v
    <3>1. cached.seq \in Seq16
      BY <2>2 DEF Register
    <3> QED
      BY <1>f, <3>1, NextSeqType, MkRegisterType DEF MkRegister
  <2>4. PICK w : w = CasWR(f, k, cached, tgt)
    OBVIOUS
  <2>5. w \in WorkRequest /\ W[1] = w /\ w.fut = f
    <3>1. CasWR(f, k, cached, tgt).fut = f
      BY DEF CasWR
    <3> HIDE DEF cached, tgt
    <3> QED
      BY <1>k, <1>s, <2>2, <2>3, <2>4, <3>1, WorkRequestTypes
  <2> HIDE DEF cached, tgt, W
  <2>6. /\ step'[f] = "OptimisticChain" /\ key'[f] = k /\ value'[f] = v
        /\ expected'[f][1] = cached /\ target_reg'[f] = tgt
    BY <1>f, <1>s, <1>t, <2>1
  <2>7. Elsewhere(f)
    BY <1>t, <1>u, <2>1, FutureKinds DEF Elsewhere
  <2>8. w \in Asked(f)' /\ FutureSane(f)'
    BY <1>f, <2>3, <2>4, <2>6 DEF Asked, FutureSane
  <2>9. /\ QueuesMatch' /\ (\A g \in Fut : FutureSane(g)') /\ ContentsGenuine'
        /\ OthersStay(f) /\ Pending(f)' = {w}
    BY <1>f, <1>3, <1>s, <1>u, <2>1, <2>5, <2>7, <2>8, PostingStep
  <2> QED
    BY <1>z, <2>6, <2>9 DEF Refined
<1>5. CASE DoPutMiss(f, k, v)
  <2> DEFINE W == [i \in Slot |-> ReadWR(f, k)]
  <2>1. /\ step' = [step EXCEPT ![f] = "ReadSeq"]
        /\ key' = [key EXCEPT ![f] = k] /\ value' = [value EXCEPT ![f] = v]
        /\ expected' = expected /\ target_reg' = target_reg
        /\ needs_cas' = [needs_cas EXCEPT ![f] = [i \in Slot |-> FALSE]]
        /\ Post(f, Slot, W)
    BY <1>5 DEF DoPutMiss
  <2>2. PICK w : w = ReadWR(f, k)
    OBVIOUS
  <2>3. w \in WorkRequest /\ W[1] = w /\ w.fut = f
    <3>1. ReadWR(f, k).fut = f
      BY DEF ReadWR
    <3> QED
      BY <1>k, <1>s, <2>2, <3>1, WorkRequestTypes
  <2> HIDE DEF W
  <2>4. step'[f] = "ReadSeq" /\ key'[f] = k /\ value'[f] = v
    BY <1>f, <1>t, <2>1
  <2>5. Elsewhere(f)
    BY <1>t, <1>u, <2>1, FutureKinds DEF Elsewhere
  <2>6. w \in Asked(f)' /\ FutureSane(f)'
    BY <1>f, <2>2, <2>4 DEF Asked, FutureSane
  <2>7. /\ QueuesMatch' /\ (\A g \in Fut : FutureSane(g)') /\ ContentsGenuine'
        /\ OthersStay(f) /\ Pending(f)' = {w}
    BY <1>f, <1>3, <1>s, <1>u, <2>1, <2>3, <2>5, <2>6, PostingStep
  <2> QED
    BY <1>z, <2>4, <2>7 DEF Refined
<1> QED
  BY <1>1, <1>4, <1>5

LEMMA StartGetRefined ==
    ASSUME OneInv, NumServers = 1, NEW f \in OpFut, StartGet(f)
    PROVE  Refined
<1>f. f \in Fut /\ f \notin RangeFut
  BY FutureKinds
<1>1. PICK k \in Key : DoGet(f, k)
  BY DEF StartGet
<1>2. step[f] = "Done"
  BY DEF StartGet, Issue, FreeFuture
<1>3. Pending(f) = {} /\ OpOf(f) = IdleOp
  BY <1>f, <1>2, DoneHasNone
<1>t. step \in [Fut -> Step] /\ key \in [Fut -> Key] /\ max_reg \in [OpFut -> Register]
  BY OneTypes
<1>s. Slot = {1} /\ 1 \in Slot
  BY OneSlot
<1> DEFINE W == [i \in Slot |-> ReadWR(f, k)]
<1>4. /\ step' = [step EXCEPT ![f] = "Reading"] /\ key' = [key EXCEPT ![f] = k]
      /\ max_reg' = [max_reg EXCEPT ![f] = ZeroRegister]
      /\ Post(f, Slot, W)
      /\ UNCHANGED << mem, bufs, results, end_key, bulk_bufs, putVars >>
  BY <1>1 DEF StartGet, DoGet, rangeVars
<1>5. PICK w : w = ReadWR(f, k)
  OBVIOUS
<1>6. w \in WorkRequest /\ W[1] = w /\ w.fut = f /\ w.key = k
  <2>1. ReadWR(f, k).fut = f /\ ReadWR(f, k).key = k
    BY DEF ReadWR
  <2> QED
    BY <1>s, <1>5, <2>1, WorkRequestTypes
<1> HIDE DEF W
<1>7. step'[f] = "Reading" /\ key'[f] = k
  BY <1>f, <1>t, <1>4
<1>8. Elsewhere(f)
  BY <1>t, <1>4, FutureKinds DEF Elsewhere, putVars
<1>9. w \in Asked(f)' /\ FutureSane(f)'
  BY <1>f, <1>5, <1>7 DEF Asked, FutureSane
<1>10. /\ QueuesMatch' /\ (\A g \in Fut : FutureSane(g)') /\ ContentsGenuine'
       /\ OthersStay(f) /\ Pending(f)' = {w}
  BY <1>f, <1>3, <1>s, <1>4, <1>6, <1>8, <1>9, PostingStep
<1>11. OpOf(f)' = ReadView(f, w.key)' /\ LastKey(f)' = k
  BY <1>7, <1>10, <1>f, ViewsHoldNext DEF Views, LastKey
<1>12. OpOf(f)' = AbsCall("read", k, 0, k, [j \in Key |-> 0])
  <2>1. \A j \in Key : j \notin k .. (k - 1)
    BY DEF Key
  <2> QED
    BY <1>6, <1>7, <1>11, <2>1 DEF ReadView
<1>13. Atomic!ANext
  BY <1>3, <1>4, <1>10, <1>12, <1>t, AbsGet
<1> QED
  BY <1>10, <1>13 DEF Refined

LEMMA StartRangeRefined ==
    ASSUME OneInv, NumServers = 1, NEW f \in RangeFut, StartRange(f)
    PROVE  Refined
<1>f. f \in Fut /\ f \notin OpFut
  BY FutureKinds
<1>1. PICK k \in Key, l \in Key : DoRange(f, k, l)
  BY DEF StartRange
<1>2. step[f] = "Done"
  BY DEF StartRange, Issue, FreeFuture
<1>3. Pending(f) = {} /\ OpOf(f) = IdleOp
  BY <1>f, <1>2, DoneHasNone
<1>t. step \in [Fut -> Step] /\ key \in [Fut -> Key] /\ end_key \in [RangeFut -> Key]
  BY OneTypes
<1>s. Slot = {1} /\ 1 \in Slot
  BY OneSlot
<1> DEFINE W == [i \in Slot |-> BulkWR(f, k)]
<1>4. /\ step' = [step EXCEPT ![f] = "Reading"] /\ key' = [key EXCEPT ![f] = k]
      /\ end_key' = [end_key EXCEPT ![f] = l] /\ k <= l
      /\ Post(f, Slot, W)
      /\ UNCHANGED << mem, bufs, results, max_reg, bulk_bufs, putVars >>
  BY <1>1 DEF StartRange, DoRange
<1>5. PICK w : w = BulkWR(f, k)
  OBVIOUS
<1>6. w \in WorkRequest /\ W[1] = w /\ w.fut = f /\ w.key = k
  <2>1. BulkWR(f, k).fut = f /\ BulkWR(f, k).key = k
    BY DEF BulkWR
  <2> QED
    BY <1>s, <1>5, <2>1, WorkRequestTypes
<1> HIDE DEF W
<1>7. step'[f] = "Reading" /\ key'[f] = k /\ end_key'[f] = l
  BY <1>f, <1>t, <1>4
<1>8. Elsewhere(f)
  BY <1>t, <1>4, FutureKinds DEF Elsewhere, putVars
<1>9. w \in Asked(f)' /\ FutureSane(f)'
  <2>1. k \in k .. l
    BY <1>4 DEF Key
  <2> QED
    BY <1>f, <1>4, <1>5, <1>7, <2>1 DEF Asked, FutureSane, KeysOf
<1>10. /\ QueuesMatch' /\ (\A g \in Fut : FutureSane(g)') /\ ContentsGenuine'
       /\ OthersStay(f) /\ Pending(f)' = {w}
  BY <1>f, <1>3, <1>s, <1>4, <1>6, <1>8, <1>9, PostingStep
<1>11. OpOf(f)' = ReadView(f, w.key)' /\ LastKey(f)' = l
  BY <1>7, <1>10, ViewsHoldNext DEF Views, LastKey
<1>12. OpOf(f)' = AbsCall("read", l, 0, k, [j \in Key |-> 0])
  <2>1. \A j \in Key : j \notin k .. (k - 1)
    BY DEF Key
  <2> QED
    BY <1>6, <1>7, <1>11, <2>1 DEF ReadView
<1>13. Atomic!ANext
  BY <1>3, <1>4, <1>10, <1>12, AbsScan
<1> QED
  BY <1>10, <1>13 DEF Refined

\* A put steps: it is acknowledged once its CAS has taken effect, and goes round
\* again, with nothing to show its caller, as long as it has not.
LEMMA StepPutRefined ==
    ASSUME OneInv, NumServers = 1, NEW f \in OpFut, StepPut(f)
    PROVE  Refined
<1>f. f \in Fut /\ f \notin RangeFut /\ Owner(f) \in Client
  BY FutureKinds, OwnerType
<1>s. Slot = {1} /\ 1 \in Slot /\ Quorum = 1
  BY OneSlot
<1>u. /\ Quiet(f) /\ step[f] \in {"ReadSeq", "OptimisticChain", "CAS"}
      /\ UNCHANGED << mem, key, bufs, value, max_reg, rangeVars >>
  BY DEF StepPut, PutStepReadSeq, PutStepOptimistic, PutStepCAS, PutStepOutrun
<1>q. Pending(f) = {}
  BY <1>f, <1>u, QuietIsIdle
<1>t. /\ step \in [Fut -> Step] /\ key \in [Fut -> Key] /\ value \in [OpFut -> Value]
      /\ target_reg \in [OpFut -> Register] /\ expected \in [OpFut -> [{1} -> Register]]
      /\ needs_cas \in [OpFut -> [{1} -> BOOLEAN]] /\ bufs \in [OpFut -> [{1} -> Register]]
      /\ success_count \in [OpFut -> Nat]
  BY OneTypes
<1>sane. FutureSane(f)
  BY <1>f DEF OneInv
<1>v. OpOf(f) = PutView(f)
  BY <1>u, ViewsHold DEF Views, IsPut
<1>b. bufs[f][1] \in Register /\ bufs[f][1].seq \in Seq16 /\ value[f] \in Value /\ key[f] \in Key
  BY <1>t, <1>f DEF Register
<1>m. ASSUME NEW z \in Seq16
      PROVE  /\ MkRegister(NextSeq(z), Owner(f), value[f]) \in Register
             /\ MkRegister(NextSeq(z), Owner(f), value[f]).value = value[f]
  BY <1>f, <1>b, NextSeqType, MkRegisterType DEF MkRegister
<1>others. ASSUME \A g \in OpFut \ {f} : /\ expected'[g] = expected[g]
                                         /\ needs_cas'[g] = needs_cas[g]
                                         /\ target_reg'[g] = target_reg[g],
                  \A g \in Fut \ {f} : step'[g] = step[g]
           PROVE  Elsewhere(f)
  BY <1>others, <1>u DEF Elsewhere, rangeVars
<1>res. UNCHANGED << mem, max_reg, results >> /\ key'[f] = key[f] /\ value'[f] = value[f]
  BY <1>u DEF rangeVars
\* The next CAS of the put is posted.
<1>post. ASSUME NEW S, 1 \in S, NEW ex, ex[1] = expected'[f][1], ex[1] \in Register,
                NEW tgt \in Register, tgt.value = value[f], PostCas(f, S, ex, tgt),
                step' = [step EXCEPT ![f] = "CAS"],
                target_reg' = [target_reg EXCEPT ![f] = tgt], needs_cas'[f][1],
                \A g \in OpFut \ {f} : /\ expected'[g] = expected[g]
                                       /\ needs_cas'[g] = needs_cas[g],
                ~Applied(f)
         PROVE  Refined
  <2> DEFINE W == [i \in Slot |-> CasWR(f, key[f], ex[i], tgt)]
  <2>1. Post(f, S, W)
    BY <1>post DEF PostCas
  <2>2. PICK w : w = CasWR(f, key[f], ex[1], tgt)
    OBVIOUS
  <2>3. w \in WorkRequest /\ W[1] = w /\ w.fut = f
    <3>1. CasWR(f, key[f], ex[1], tgt).fut = f
      BY DEF CasWR
    <3>2. CasWR(f, key[f], ex[1], tgt) \in WorkRequest
      BY <1>post, <1>b, WorkRequestTypes
    <3> QED
      BY <1>s, <2>2, <3>1, <3>2
  <2> HIDE DEF W
  <2>4. step'[f] = "CAS" /\ target_reg'[f] = tgt
    BY <1>post, <1>t, <1>f
  <2>5. Elsewhere(f)
    BY <1>others, <1>post, <1>t
  <2>6. w \in Asked(f)' /\ FutureSane(f)'
    BY <1>f, <1>post, <1>res, <2>2, <2>4 DEF Asked, FutureSane
  <2>7. /\ QueuesMatch' /\ (\A g \in Fut : FutureSane(g)') /\ ContentsGenuine'
        /\ OthersStay(f) /\ Pending(f)' = {w}
    BY <1>f, <1>q, <1>u, <1>post, <2>1, <2>3, <2>5, <2>6, PostingStep
  <2>8. OpOf(f)' = PutView(f)'
    BY <2>4, ViewsHoldNext DEF Views, IsPut
  <2>9. ~Applied(f)'
    BY <2>7 DEF Applied
  <2>10. OpOf(f)' = OpOf(f)
    BY <1>post, <1>v, <1>res, <2>8, <2>9 DEF PutView
  <2>11. UNCHANGED Atomic!avars
    BY <1>res, <2>7, <2>10, AbsStutter DEF OthersStay
  <2> QED
    BY <2>7, <2>11 DEF Refined
\* The put is acknowledged.
<1>done. ASSUME PutDone(f), Applied(f),
                \A g \in OpFut \ {f} : /\ expected'[g] = expected[g]
                                       /\ needs_cas'[g] = needs_cas[g]
         PROVE  Refined
  <2>1. PostNothing /\ step' = [step EXCEPT ![f] = "Done"] /\ target_reg' = target_reg
    BY <1>done DEF PutDone
  <2>2. step'[f] = "Done"
    BY <2>1, <1>t, <1>f
  <2>3. Elsewhere(f)
    BY <1>others, <1>done, <1>t, <2>1
  <2>4. FutureSane(f)'
    BY <1>f, <2>2 DEF FutureSane
  <2>5. /\ QueuesMatch' /\ (\A g \in Fut : FutureSane(g)') /\ ContentsGenuine'
        /\ OthersStay(f)
    BY <1>f, <1>q, <1>u, <2>1, <2>3, <2>4, EndingStep
  <2>6. OpOf(f)' = IdleOp
    BY <2>2, ViewsHoldNext DEF Views
  <2>7. OpOf(f) = AbsCall("put", key[f], value[f], key[f] + 1, [k \in Key |-> 0])
    BY <1>v, <1>done DEF PutView
  <2>8. AbsReg' = AbsReg
    BY <1>res DEF AbsReg
  <2>9. Atomic!ANext
    BY <1>f, <1>res, <2>5, <2>6, <2>7, <2>8, AbsReturn
  <2> QED
    BY <2>5, <2>9 DEF Refined
<1>1. CASE PutStepReadSeq(f)
  <2>1. PICK z \in SeqsSeen(f) \cup {0} :
           LET tgt == MkRegister(NextSeq(z), Owner(f), value[f])
           IN  /\ step[f] = "ReadSeq"
               /\ expected' = [expected EXCEPT ![f] = bufs[f]]
               /\ needs_cas' = [needs_cas EXCEPT ![f] = [i \in Slot |-> TRUE]]
               /\ target_reg' = [target_reg EXCEPT ![f] = tgt]
               /\ PostCas(f, Slot, bufs[f], tgt)
               /\ step' = [step EXCEPT ![f] = "CAS"]
    BY <1>1 DEF PutStepReadSeq
  <2>2. z \in Seq16
    <3>1. StateTypeOK /\ 0 \in Seq16
      BY SeqModAssumption DEF OneInv, WakeInv, AccountingInv, TypeOK, Seq16
    <3> QED
      BY <3>1, SeqsSeenType
  <2> DEFINE tgt == MkRegister(NextSeq(z), Owner(f), value[f])
  <2>3. tgt \in Register /\ tgt.value = value[f]
    BY <2>2, <1>m
  <2>4. /\ target_reg' = [target_reg EXCEPT ![f] = tgt] /\ PostCas(f, Slot, bufs[f], tgt)
        /\ step' = [step EXCEPT ![f] = "CAS"]
    BY <2>1
  <2> HIDE DEF tgt
  <2>5. bufs[f][1] = expected'[f][1] /\ needs_cas'[f][1]
    BY <2>1, <1>t, <1>s
  <2>6. \A g \in OpFut \ {f} : expected'[g] = expected[g] /\ needs_cas'[g] = needs_cas[g]
    BY <2>1, <1>t
  <2>7. ~Applied(f)
    BY <2>1 DEF Applied
  <2> QED
    BY <1>post, <1>s, <1>b, <2>3, <2>4, <2>5, <2>6, <2>7
<1>again. ASSUME NEW tgt \in Register, tgt.value = value[f], PutAgain(f, tgt),
                 needs_cas'[f][1], expected'[f][1] \in Register, ~Applied(f),
                 \A g \in OpFut \ {f} : /\ expected'[g] = expected[g]
                                        /\ needs_cas'[g] = needs_cas[g]
          PROVE  Refined
  <2> DEFINE S == {i \in Slot : needs_cas'[f][i]}
  <2>1. /\ target_reg' = [target_reg EXCEPT ![f] = tgt]
        /\ PostCas(f, S, expected'[f], tgt)
        /\ step' = [step EXCEPT ![f] = "CAS"]
    BY <1>again DEF PutAgain
  <2>2. 1 \in S
    BY <1>again, <1>s
  <2> HIDE DEF S
  <2>3. PICK ex : ex = expected'[f]
    OBVIOUS
  <2> QED
    BY <1>post, <1>again, <2>1, <2>2, <2>3
<1>card. Cardinality({}) = 0 /\ Cardinality({1}) = 1
  BY FS_EmptySet, FS_Singleton
<1>2. CASE PutStepOptimistic(f)
  <2> DEFINE won == {i \in Slot : Swapped(f, i)}
             z0 == (target_reg[f].seq - 1) % SeqMod
  <2>1. PICK z \in SeqsSeen(f) \cup {z0} :
            /\ step[f] = "OptimisticChain"
            /\ success_count' = [success_count EXCEPT ![f] = @ + Cardinality(won)]
            /\ needs_cas' = [needs_cas EXCEPT ![f] = [i \in Slot |-> i \notin won]]
            /\ expected' = [expected EXCEPT ![f] =
                 [i \in Slot |-> IF i \in won THEN target_reg[f] ELSE bufs[f][i]]]
            /\ IF success_count'[f] >= Quorum
               THEN PutDone(f)
               ELSE PutAgain(f, MkRegister(NextSeq(z), Owner(f), value[f]))
    BY <1>2 DEF PutStepOptimistic
  <2>2. z \in Seq16
    <3>1. StateTypeOK /\ target_reg[f].seq \in Seq16
      BY <1>t DEF OneInv, WakeInv, AccountingInv, TypeOK, Register
    <3> QED
      BY <3>1, SeqsSeenType, PrevSeqType
  <2>3. success_count'[f] = Cardinality(won)
    <3>1. success_count[f] = 0
      BY <2>1 DEF OneInv, WakeInv, SuccessCounted
    <3>2. Cardinality(won) \in Nat
      BY SlotFacts
    <3> HIDE DEF won
    <3> QED
      BY <2>1, <3>1, <3>2, <1>t
  <2>4. \A g \in OpFut \ {f} : expected'[g] = expected[g] /\ needs_cas'[g] = needs_cas[g]
    BY <2>1, <1>t
  <2>5. CASE Swapped(f, 1)
    <3>1. won = {1}
      BY <1>s, <2>5
    <3>2. Applied(f)
      BY <1>q, <2>1, <2>5 DEF Applied, Swapped
    <3> HIDE DEF won
    <3>n. success_count'[f] >= Quorum
      BY <1>s, <1>card, <2>3, <3>1
    <3>3. PutDone(f)
      BY <2>1, <3>n
    <3> QED
      BY <1>done, <2>4, <3>2, <3>3
  <2>6. CASE ~Swapped(f, 1)
    <3>1. won = {}
      BY <1>s, <2>6
    <3>2. ~Applied(f)
      BY <2>6 DEF Applied, Swapped
    <3> HIDE DEF won
    <3>3. PutAgain(f, MkRegister(NextSeq(z), Owner(f), value[f]))
      BY <1>s, <1>card, <2>1, <2>3, <3>1
    <3>4. needs_cas'[f][1] /\ expected'[f][1] \in Register
      BY <1>b, <1>s, <1>t, <2>1, <3>1
    <3>5. PICK tgt : tgt = MkRegister(NextSeq(z), Owner(f), value[f])
      OBVIOUS
    <3> QED
      BY <1>again, <1>m, <2>2, <2>4, <3>2, <3>3, <3>4, <3>5
  <2> QED
    BY <2>5, <2>6
<1>3. CASE PutStepCAS(f)
  <2> DEFINE won == {i \in Slot : needs_cas[f][i] /\ Swapped(f, i)}
  <2>1. /\ step[f] = "CAS"
        /\ success_count' = [success_count EXCEPT ![f] = @ + Cardinality(won)]
        /\ needs_cas' = [needs_cas EXCEPT ![f] = [i \in Slot |-> @[i] /\ i \notin won]]
        /\ expected' = [expected EXCEPT ![f] =
              [i \in Slot |-> IF needs_cas[f][i] THEN bufs[f][i] ELSE @[i]]]
        /\ IF success_count'[f] >= Quorum THEN PutDone(f) ELSE PutAgain(f, target_reg[f])
    BY <1>3 DEF PutStepCAS
  <2>n. needs_cas[f][1] = TRUE /\ target_reg[f].value = value[f] /\ target_reg[f] \in Register
    BY <1>sane, <1>t, <2>1 DEF FutureSane
  <2>3. success_count'[f] = Cardinality(won)
    <3>1. Settled(f) = {}
      BY <1>s, <2>n DEF Settled
    <3>2. success_count[f] = 0
      BY <1>card, <2>1, <3>1 DEF OneInv, WakeInv, SuccessCounted
    <3>3. Cardinality(won) \in Nat
      BY SlotFacts
    <3> HIDE DEF won
    <3> QED
      BY <2>1, <3>2, <3>3, <1>t
  <2>4. \A g \in OpFut \ {f} : expected'[g] = expected[g] /\ needs_cas'[g] = needs_cas[g]
    BY <2>1, <1>t
  <2>5. CASE Swapped(f, 1)
    <3>1. won = {1}
      BY <1>s, <2>5, <2>n
    <3>2. Applied(f)
      BY <1>q, <2>1, <2>5 DEF Applied, Swapped
    <3> HIDE DEF won
    <3>n. success_count'[f] >= Quorum
      BY <1>s, <1>card, <2>3, <3>1
    <3>3. PutDone(f)
      BY <2>1, <3>n
    <3> QED
      BY <1>done, <2>4, <3>2, <3>3
  <2>6. CASE ~Swapped(f, 1)
    <3>1. won = {}
      BY <1>s, <2>6
    <3>2. ~Applied(f)
      BY <2>6 DEF Applied, Swapped
    <3> HIDE DEF won
    <3>3. PutAgain(f, target_reg[f])
      BY <1>s, <1>card, <2>1, <2>3, <3>1
    <3>4. needs_cas'[f][1] /\ expected'[f][1] \in Register
      BY <1>b, <1>s, <1>t, <2>1, <2>n, <3>1
    <3>5. PICK tgt : tgt = target_reg[f]
      OBVIOUS
    <3> QED
      BY <1>again, <2>n, <2>4, <3>2, <3>3, <3>4, <3>5
  <2> QED
    BY <2>5, <2>6
<1>4. CASE PutStepOutrun(f)
  <2>1. /\ step[f] = "CAS" /\ Outrun(f, 1)
        /\ needs_cas' = [needs_cas EXCEPT ![f] = [i \in Slot |-> i <= 1]]
        /\ expected' = [expected EXCEPT ![f] = bufs[f]]
        /\ PutAgain(f, MkRegister(NextSeq(bufs[f][1].seq), Owner(f), value[f]))
    BY <1>4, <1>s DEF PutStepOutrun
  <2>2. ~Applied(f)
    BY <2>1 DEF Outrun, Swapped, Applied
  <2>3. needs_cas'[f][1] /\ expected'[f][1] \in Register
    <3>1. needs_cas'[f] = [i \in Slot |-> i <= 1]
      BY <1>t, <2>1
    <3>2. needs_cas'[f][1] = (1 <= 1)
      BY <1>s, <3>1
    <3>3. expected'[f][1] \in Register
      BY <1>b, <1>t, <2>1
    <3>4. (1 <= 1) = TRUE
      OBVIOUS
    <3>5. needs_cas'[f][1] = TRUE
      BY <3>2, <3>4, Zenon
    <3> QED
      BY <3>3, <3>5
  <2>4. \A g \in OpFut \ {f} : expected'[g] = expected[g] /\ needs_cas'[g] = needs_cas[g]
    BY <2>1, <1>t
  <2>5. PICK tgt : tgt = MkRegister(NextSeq(bufs[f][1].seq), Owner(f), value[f])
    OBVIOUS
  <2> QED
    BY <1>again, <1>b, <1>m, <2>1, <2>2, <2>3, <2>4, <2>5
<1> QED
  BY <1>1, <1>2, <1>3, <1>4 DEF StepPut

\* A get with one replica returns what it read, the initial content included.
LEMMA MaxIsRead ==
    ASSUME OneInv, NumServers = 1, NEW f \in OpFut, NEW m, IsRunningMax(f, m)
    PROVE  m = bufs[f][1]
<1>s. Slot = {1}
  BY OneSlot
<1>t. bufs[f][1] \in Register /\ bufs[f][1].seq \in Nat
  BY OneTypes, LowFacts
<1>1. CASE m = ZeroRegister /\ ~RegLess(m, bufs[f][1])
  <2>1. bufs[f][1].seq = 0
    BY <1>1, <1>t DEF RegLess, ZeroRegister
  <2>2. Genuine(bufs[f][1])
    BY DEF OneInv, ContentsGenuine
  <2> QED
    BY <1>1, <2>1, <2>2 DEF Genuine
<1> QED
  BY <1>s, <1>1 DEF IsRunningMax

LEMMA StepGetRefined ==
    ASSUME OneInv, NumServers = 1, NEW f \in OpFut, StepGet(f)
    PROVE  Refined
<1>f. f \in Fut /\ f \notin RangeFut
  BY FutureKinds
<1>s. Slot = {1}
  BY OneSlot
<1>1. GetStepReading(f)
  <2>1. step[f] # "WritingBack"
    BY <1>f DEF OneInv, FutureSane
  <2> QED
    BY <2>1 DEF StepGet, GetStepWritingBack
<1>2. PICK m : LET lagging == {i \in Slot : bufs[f][i] # m}
               IN  /\ Quiet(f) /\ step[f] = "Reading" /\ IsRunningMax(f, m)
                   /\ max_reg' = [max_reg EXCEPT ![f] = m]
                   /\ IF RegWriteback /\ lagging # {}
                      THEN /\ Post(f, lagging, [i \in Slot |-> CasWR(f, key[f], bufs[f][i], m)])
                           /\ step' = [step EXCEPT ![f] = "WritingBack"]
                      ELSE /\ PostNothing
                           /\ step' = [step EXCEPT ![f] = "Done"]
                   /\ UNCHANGED << mem, key, bufs >>
  BY <1>1 DEF GetStepReading
<1>3. m = bufs[f][1]
  BY <1>2, MaxIsRead
<1>4. {i \in Slot : bufs[f][i] # m} = {}
  BY <1>3, <1>s
<1>5. PostNothing /\ step' = [step EXCEPT ![f] = "Done"]
  BY <1>2, <1>4
<1>6. UNCHANGED << mem, key, bufs, putVars, rangeVars >> /\ Quiet(f) /\ step[f] = "Reading"
  BY <1>2 DEF StepGet
<1>7. max_reg' = [max_reg EXCEPT ![f] = m]
  BY <1>2
<1>q. Pending(f) = {}
  BY <1>f, <1>6, QuietIsIdle
<1>t. step \in [Fut -> Step] /\ key[f] \in Key /\ max_reg \in [OpFut -> Register]
  BY <1>f, OneTypes
<1>8. step'[f] = "Done" /\ Elsewhere(f)
  BY <1>5, <1>6, <1>t, <1>f DEF Elsewhere, putVars, rangeVars
<1>9. FutureSane(f)'
  BY <1>f, <1>8 DEF FutureSane
<1>10. /\ QueuesMatch' /\ (\A g \in Fut : FutureSane(g)') /\ ContentsGenuine'
       /\ OthersStay(f)
  BY <1>f, <1>q, <1>5, <1>6, <1>8, <1>9, EndingStep
<1>11. OpOf(f)' = IdleOp
  BY <1>8, ViewsHoldNext DEF Views
<1> DEFINE l == key[f]
           got == [k \in Key |-> IF k \in l .. ((l + 1) - 1) THEN bufs[f][1].value ELSE 0]
<1>12. OpOf(f) = AbsCall("read", l, 0, l + 1, got)
  <2>1. OpOf(f) = ReadView(f, LastKey(f) + 1) /\ LastKey(f) = l
    BY <1>f, <1>6, <1>q, ViewsHold DEF Views, LastKey
  <2>2. \A k \in Key : Got(f, k) = bufs[f][1].value
    BY <1>f DEF Got
  <2> QED
    BY <2>1, <2>2 DEF ReadView
<1>13. got[l] = m.value
  <2>1. l \in l .. ((l + 1) - 1)
    BY <1>t DEF Key
  <2> QED
    BY <1>3, <1>t, <2>1
<1>14. [g \in OpFut |-> max_reg[g].value]' =
          [[g \in OpFut |-> max_reg[g].value] EXCEPT ![f] = got[l]]
  <2> HIDE DEF got, l
  <2> QED
    BY <1>7, <1>13, <1>t
<1>15. AbsReg' = AbsReg /\ results' = results
  BY <1>6 DEF AbsReg, rangeVars
<1>16. Atomic!ANext
  <2> HIDE DEF got, l
  <2> QED
    BY <1>f, <1>10, <1>11, <1>12, <1>14, <1>15, AbsReturn
<1> QED
  BY <1>10, <1>16 DEF Refined

LEMMA StepRangeRefined ==
    ASSUME OneInv, NumServers = 1, NEW f \in RangeFut, StepRange(f)
    PROVE  Refined
<1>f. f \in Fut /\ f \notin OpFut
  BY FutureKinds
<1>s. Slot = {1}
  BY OneSlot
<1>1. PICK acc : RangeFinish(f, acc)
  BY DEF StepRange, RangeStepReading
<1> DEFINE a == key[f]
           l == end_key[f]
           got == [k \in Key |-> IF k \in a .. ((l + 1) - 1) THEN bulk_bufs[f][1][k].value ELSE 0]
<1>2. /\ Quiet(f) /\ step[f] = "Reading" /\ PostNothing
      /\ step' = [step EXCEPT ![f] = "Done"]
      /\ results' = [results EXCEPT ![f] =
            [k \in Key |-> IF k \in KeysOf(f) THEN acc[k] ELSE ZeroRegister]]
      /\ UNCHANGED << mem, key, bufs, end_key, bulk_bufs, putVars, max_reg >>
  BY <1>1 DEF RangeFinish, StepRange
<1>3. \A k \in KeysOf(f) : acc[k] = bulk_bufs[f][1][k]
  <2>1. \A k \in KeysOf(f) : IsMerged(f, k, acc[k])
    BY <1>1 DEF RangeFinish
  <2> QED
    BY <1>s, <2>1 DEF IsMerged
<1>q. Pending(f) = {}
  BY <1>f, <1>2, QuietIsIdle
<1>t. /\ step \in [Fut -> Step] /\ a \in Key /\ l \in Key
      /\ results \in [RangeFut -> [Key -> Register]]
  BY <1>f, OneTypes
<1>8. step'[f] = "Done" /\ Elsewhere(f)
  BY <1>2, <1>t, <1>f DEF Elsewhere, putVars
<1>9. FutureSane(f)'
  BY <1>f, <1>2, <1>8 DEF OneInv, FutureSane
<1>10. /\ QueuesMatch' /\ (\A g \in Fut : FutureSane(g)') /\ ContentsGenuine'
       /\ OthersStay(f)
  BY <1>f, <1>q, <1>2, <1>8, <1>9, EndingStep
<1>11. OpOf(f)' = IdleOp
  BY <1>8, ViewsHoldNext DEF Views
<1>12. OpOf(f) = AbsCall("read", l, 0, l + 1, got)
  <2>1. OpOf(f) = ReadView(f, LastKey(f) + 1) /\ LastKey(f) = l
    BY <1>2, <1>q, ViewsHold DEF Views, LastKey
  <2>2. \A k \in Key : Got(f, k) = bulk_bufs[f][1][k].value
    BY DEF Got
  <2> QED
    BY <2>1, <2>2 DEF ReadView
<1>13. \A k \in Key : results'[f][k].value = got[k]
  <2> TAKE k \in Key
  <2>1. k \in a .. ((l + 1) - 1) <=> k \in KeysOf(f)
    <3>1. (l + 1) - 1 = l
      BY <1>t DEF Key
    <3> QED
      BY <3>1 DEF KeysOf
  <2>2. results'[f][k] = IF k \in KeysOf(f) THEN acc[k] ELSE ZeroRegister
    BY <1>2, <1>t
  <2>3. ZeroRegister.value = 0
    BY DEF ZeroRegister
  <2> QED
    BY <1>3, <2>1, <2>2, <2>3
<1>14. \A g \in RangeFut \ {f} : results'[g] = results[g]
  BY <1>2, <1>t
<1>15. [g \in RangeFut |-> [k \in Key |-> results[g][k].value]]' =
          [[g \in RangeFut |-> [k \in Key |-> results[g][k].value]] EXCEPT ![f] = got]
  <2>1. [k \in Key |-> results'[f][k].value] = got
    BY <1>13
  <2> HIDE DEF got
  <2> QED
    BY <1>14, <2>1
<1>16. AbsReg' = AbsReg /\ max_reg' = max_reg
  BY <1>2 DEF AbsReg
<1>17. Atomic!ANext
  <2> HIDE DEF got, l
  <2> QED
    BY <1>f, <1>10, <1>11, <1>12, <1>15, <1>16, AbsReturn
<1> QED
  BY <1>10, <1>17 DEF Refined

-----------------------------------------------------------------------------
\* No memory server has fail-stopped.
AllUp == up = Server

LEMMA StepRefined ==
    ASSUME OneInv, NumServers = 1, AllUp, [Next]_vars
    PROVE  Refined
<1>q. ASSUME UNCHANGED << sq, step, key, bufs, putVars, rangeVars, mem, max_reg >>
      PROVE  Refined
  BY <1>q, NoneMoves DEF Refined
<1>1. ASSUME NEW c \in Client, NEW i \in Slot, Nic(c, i) PROVE Refined
  <2>1. i = 1
    BY OneSlot
  <2>2. ~NicError(c, i)
    BY ReplicaType DEF NicError, AllUp
  <2> QED
    BY <1>1, <2>1, <2>2, NicReadRefined, NicCasRefined, NicBulkRefined DEF Nic
<1>2. ASSUME NEW s \in Server, ServerCrash(s) PROVE Refined
  BY <1>2, <1>q DEF ServerCrash
<1>3. ASSUME NEW c \in Client, TickRdma(c) \/ TickRdmaThrows(c) PROVE Refined
  BY <1>3, <1>q DEF TickRdma, TickRdmaThrows
<1>4. ASSUME NEW f \in Fut, ClientStep(f) PROVE Refined
  <2>1. CASE StepBlocked(f)
    BY <2>1, <1>q DEF StepBlocked, PostNothing
  <2> QED
    BY <1>4, <2>1, StepPutRefined, StepGetRefined, StepRangeRefined DEF ClientStep
<1>5. ASSUME NEW f \in Fut, Start(f) PROVE Refined
  BY <1>5, StartPutRefined, StartGetRefined, StartRangeRefined DEF Start
<1>6. CASE UNCHANGED vars
  BY <1>6, <1>q DEF vars, stateVars
<1> QED
  BY <1>1, <1>2, <1>3, <1>4, <1>5, <1>6 DEF Next

LEMMA NextOneInv ==
    ASSUME OneInv, NumServers = 1, AllUp, NoWrap, [Next]_vars
    PROVE  OneInv'
<1>1. WakeInv' /\ TagInv'
  BY NextWakeInv, NextTagInv DEF OneInv
<1>2. QueuesMatch' /\ (\A g \in Fut : FutureSane(g)') /\ ContentsGenuine'
  BY StepRefined DEF Refined
<1> QED
  BY <1>1, <1>2 DEF OneInv

LEMMA InitOneInv ==
    ASSUME Init, NumServers = 1
    PROVE  OneInv /\ Atomic!AInit
<1>s. Slot = {1} /\ Server = {0}
  BY OneSlot
<1>1. \A f \in Fut : step[f] = "Done"
  BY DEF Init, StateInit
<1>2. WakeInv /\ TagInv
  <2>1. SuccessCounted /\ NoLostWakeup
    BY <1>1 DEF SuccessCounted, NoLostWakeup, Fut
  <2> QED
    BY <2>1, InitTypeOK, InitAccounting, InitTagInv DEF WakeInv, AccountingInv
<1>3. \A c \in Client : sq[c][1] = << >>
  BY <1>s DEF Init, StateInit
<1>4. QueuesMatch
  <2>1. Len(<< >>) = 0 /\ 1 .. 0 = {}
    OBVIOUS
  <2>2. \A f \in Fut : Pending(f) = {}
    BY <1>3, <2>1, OwnerType DEF Pending
  <2>3. \A c \in Client : Single(sq[c][1])
    BY <1>3, <2>1 DEF Single
  <2> QED
    BY <2>2, <2>3 DEF QueuesMatch
<1>5. ASSUME NEW f \in Fut PROVE FutureSane(f)
  <2>1. f \in RangeFut => key[f] = 0 /\ end_key[f] = 0
    BY FutureKinds DEF Init, StateInit, RangeInit
  <2> QED
    BY <1>1, <2>1 DEF FutureSane
<1>6. ContentsGenuine
  BY <1>s DEF Init, StateInit, ContentsGenuine, Genuine
<1>7. \A f \in Fut : OpOf(f) = IdleOp
  BY <1>1, ViewsHold DEF Views
<1>8. AbsOp = [f \in Fut |-> Atomic!Idle]
  BY <1>7 DEF AbsOp, IdleOp, Atomic!Idle, Atomic!Nothing
<1>9. ZeroRegister.value = 0
  BY DEF ZeroRegister
<1>10. AbsReg = [k \in Key |-> 0]
  BY <1>9, <1>s DEF AbsReg, Init, StateInit
<1>11. [f \in OpFut |-> max_reg[f].value] = [f \in OpFut |-> 0]
  BY <1>9 DEF Init, GetInit
<1>12. [f \in RangeFut |-> [k \in Key |-> results[f][k].value]] =
          [f \in RangeFut |-> [k \in Key |-> 0]]
  BY <1>9 DEF Init, RangeInit
<1>13. Atomic!AInit
  BY <1>8, <1>10, <1>11, <1>12 DEF Atomic!AInit, Atomic!Nothing, AbsOp, AbsReg, Fut
<1> QED
  BY <1>2, <1>4, <1>5, <1>6, <1>13 DEF OneInv

\* With one replica the register store is linearizable, for any number of
\* clients, registers and futures and any load: as long as the memory server is
\* up and no sequence number has reached its last value, every behaviour is one
\* of AtomicRegisters, in which a put takes effect where its CAS finds what it
\* expects, a get where its READ executes, and a scan register by register.
THEOREM OneReplicaLinearizable ==
    ASSUME NumServers = 1
    PROVE  Spec /\ []AllUp /\ []NoWrap => AtomicSpec
<1>1. Init => OneInv /\ Atomic!AInit
  BY InitOneInv
<1>2. OneInv /\ AllUp /\ NoWrap /\ [Next]_vars => OneInv' /\ [Atomic!ANext]_(Atomic!avars)
  BY NextOneInv, StepRefined DEF Refined
<1> QED
  BY <1>1, <1>2, PTL DEF Spec, AtomicSpec, Atomic!ASpec
=============================================================================

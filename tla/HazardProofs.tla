---------------------------- MODULE HazardProofs ----------------------------
(***************************************************************************)
(* Proofs about the hazard pointers, for any number of threads, any length  *)
(* of the layer and any zombie array larger than what the other threads can *)
(* protect, when a hazard pointer is visible as soon as it is stored: no     *)
(* thread reaches a deleted node, and every unlinked node is in one place.   *)
(***************************************************************************)
EXTENDS HazardPointers, TLAPS, FiniteSetTheorems, SequenceTheorems

Ref == HpNode \cup {HpNull}
Slot == {0, 1}

Holding == {"locked", "again", "reclaim", "sweep", "push"}
Reading == {"read", "taken", "confirmed", "next"}
Walking == {"at"} \cup Reading \cup Holding
HpPc == {"start", "idle", "done"} \cup Walking

HpTypeOK ==
    /\ hnext \in [HpNode -> Ref] /\ hlock \in [HpNode -> Nat]
    /\ freed \subseteq HpNode /\ contexts \in Seq(HpThread)
    /\ hazP \in [HpThread -> [Slot -> Ref]] /\ curr_idx \in [HpThread -> Slot]
    /\ buffer = [t \in HpThread |-> <<>>]
    /\ zombies \in [HpThread -> SUBSET HpNode]
    /\ hpc \in [HpThread -> HpPc]
    /\ curr \in [HpThread -> Ref] /\ nxt \in [HpThread -> Ref]
    /\ curr_lock \in [HpThread -> Nat] /\ next_lock \in [HpThread -> Nat]
    /\ in_use \in [HpThread -> SUBSET HpNode]
    /\ scan \in [HpThread -> [left : Seq(HpThread), i : Slot]]

\* The layer: its nodes are not frozen, the head is never unlinked, a linked
\* node's successor is linked and has no other linked predecessor.
Linked(n) == State(hlock[n]) \in {0, 4}
LayerOK ==
    /\ Linked(0)
    /\ \A n \in HpNode :
        /\ State(hlock[n]) \in {0, 4, 6}
        /\ hnext[n] # 0
        /\ Linked(n) /\ hnext[n] # HpNull => Linked(hnext[n])
        /\ \A m \in HpNode : Linked(n) /\ Linked(m) /\ n # m /\ hnext[n] # HpNull
                                => hnext[n] # hnext[m]

\* Where a thread is: what its slots hold and that its versions are from the past.
PlaceOK(t) ==
    /\ hpc[t] # "done"
    /\ hpc[t] \in Walking =>
        /\ curr[t] \in HpNode /\ hazP[t][curr_idx[t]] = curr[t]
        /\ State(curr_lock[t]) = 0 /\ curr_lock[t] <= begin_read(hlock[curr[t]])
    /\ hpc[t] \in Reading \cup Holding => nxt[t] \in HpNode
    /\ hpc[t] \in {"next", "locked", "again"} => State(next_lock[t]) = 0
    /\ hpc[t] = "next" => next_lock[t] <= begin_read(hlock[nxt[t]])
    /\ hpc[t] \in {"taken", "confirmed", "next"} => hazP[t][1 - curr_idx[t]] = nxt[t]
    /\ hpc[t] \in {"at", "read"} \cup Holding => hazP[t][1 - curr_idx[t]] = HpNull
    /\ hpc[t] \notin Walking => \A i \in Slot : hazP[t][i] = HpNull

\* The write locks: one holder, whose next is the successor until it is unlinked.
HoldOK(t) ==
    /\ hpc[t] \in Holding =>
        /\ State(hlock[curr[t]]) = 4
        /\ \A u \in HpThread : u # t /\ hpc[u] \in Holding => curr[u] # curr[t]
    /\ hpc[t] \in {"locked", "again"} => hnext[curr[t]] = nxt[t]

\* A reader whose version is still valid, or becomes so again when a writer that
\* has changed nothing lets go, has read the successor.
Unchanged(t) ==
    \/ hlock[curr[t]] = curr_lock[t]
    \/ /\ hlock[curr[t]] = curr_lock[t] + 4
       /\ \E u \in HpThread : hpc[u] = "locked" /\ curr[u] = curr[t]
ReadOK(t) == hpc[t] \in Reading /\ Unchanged(t) => hnext[curr[t]] = nxt[t]

\* The dead nodes: each deleted, or with one thread that has to delete it.
Owns(t, n) == n \in zombies[t] \/ (hpc[t] \in {"reclaim", "sweep", "push"} /\ nxt[t] = n)
DeadOK ==
    \A n \in HpNode :
        /\ State(hlock[n]) = 6 <=> n \in freed \/ \E t \in HpThread : Owns(t, n)
        /\ \A t \in HpThread :
            /\ Owns(t, n) => n \notin freed /\ \A u \in HpThread : u # t => ~Owns(u, n)
            /\ n \in zombies[t] /\ hpc[t] \in {"reclaim", "sweep", "push"} => nxt[t] # n

\* A slot protects what it holds: no sweep that could delete it has passed the
\* slot without seeing it.
Protects(t, i) ==
    \/ hpc[t] \in Walking /\ i = curr_idx[t]
    \/ hpc[t] \in {"confirmed", "next"} /\ i = 1 - curr_idx[t]
Pending(u, t, i) ==
    \E k \in 1 .. Len(scan[u].left) : scan[u].left[k] = t /\ (k = 1 => i >= scan[u].i)
ProtectOK(t) ==
    \A i \in Slot : Protects(t, i) =>
        /\ hazP[t][i] \notin freed
        /\ \A u \in HpThread : hpc[u] = "sweep" /\ hazP[t][i] \in zombies[u]
                                 => hazP[t][i] \in in_use[u] \/ Pending(u, t, i)
\* A context is on the list once, from when its thread starts.
ContextsOK ==
    /\ \A t \in HpThread : hpc[t] = "start" <=> \A k \in 1 .. Len(contexts) : contexts[k] # t
    /\ \A k, m \in 1 .. Len(contexts) : contexts[k] = contexts[m] => k = m

\* What a sweep has seen of others is at most two nodes for each context it is past.
Past(t) == { u \in HpThread : u # t /\ \A k \in 1 .. Len(scan[t].left) : scan[t].left[k] # u }
Half(t) == IF scan[t].left # <<>> /\ Head(scan[t].left) # t THEN scan[t].i ELSE 0
SweepOK(t) ==
    /\ hpc[t] = "sweep" =>
        /\ \A k, m \in 1 .. Len(scan[t].left) : scan[t].left[k] = scan[t].left[m] => k = m
        /\ Cardinality(in_use[t] \ {curr[t]}) <= 2 * Cardinality(Past(t)) + Half(t)
    /\ Cardinality(zombies[t]) <= ZombieCap
    /\ hpc[t] = "push" => Cardinality(zombies[t]) < ZombieCap

HpLive ==
    /\ LayerOK /\ DeadOK /\ ContextsOK
    /\ \A t \in HpThread : PlaceOK(t) /\ HoldOK(t) /\ ReadOK(t) /\ ProtectOK(t) /\ SweepOK(t)
HpOver == contexts = <<>> /\ \A t \in HpThread : hpc[t] = "done"
HpInv == HpTypeOK /\ (HpLive \/ HpOver)
-----------------------------------------------------------------------------
\* Lock words as this module uses them: free, held or dead.
LEMMA Words ==
    ASSUME NEW v \in Nat
    PROVE  /\ State(v) \in {0, 2, 4, 6}
           /\ begin_read(v) \in Nat /\ State(begin_read(v)) = 0 /\ begin_read(v) <= v
           /\ State(v) = 0 => /\ begin_read(v) = v
                              /\ State(v + 4) = 4 /\ begin_read(v + 4) = v
                              /\ State(v + 6) = 6 /\ begin_read(v + 6) = v
           /\ State(v) = 4 => /\ v - 4 \in Nat /\ State(v - 4) = 0
                              /\ begin_read(v) = v - 4 /\ begin_read(v - 4) = v - 4
                              /\ State(v + 4) = 0 /\ begin_read(v + 4) = v + 4
BY DEF State, begin_read, FREEZE_BIT

\* A version validates only against the word it was read from.
LEMMA Confirmed ==
    ASSUME NEW v \in Nat, State(v) \in {0, 4, 6}, NEW s \in Nat, State(s) = 0
    PROVE  confirm_read(v, s) <=> v = s
<1>1. CASE State(v) = 6
  BY <1>1 DEF confirm_read, is_frozen, is_dead, State, FREEZE_BIT, LOCK_BIT
<1>2. CASE State(v) # 6
  BY <1>2 DEF confirm_read, is_frozen, is_dead, FREEZE_BIT, LOCK_BIT
<1> QED
  BY <1>1, <1>2

\* The operations on a word in numbers.
LEMMA WordOps ==
    ASSUME NEW v \in Nat
    PROVE  /\ acquire(v) = v + 4 /\ release(v) = v + 4 /\ die(acquire(v)) = v + 6
           /\ release_changed_if(v, TRUE) = v + 4 /\ release_changed_if(v, FALSE) = v - 4
           /\ is_dead(v) <=> State(v) = 6
BY DEF acquire, release, die, release_changed_if, release_unchanged, is_dead, LOCK_BIT, FREEZE_BIT

LEMMA OtherSlot ==
    ASSUME NEW i \in Slot
    PROVE  1 - i \in Slot /\ 1 - i # i /\ 1 - (1 - i) = i /\ Slot = {i, 1 - i}
BY DEF Slot

\* A store without a store buffer changes the slots at once.
LEMMA Stores ==
    ASSUME ~StoreBuffer, HpTypeOK, NEW t \in HpThread, NEW p \in Ref, NEW i \in Slot
    PROVE  /\ Store(t, <<<<i, p>>>>) => /\ hazP' = [hazP EXCEPT ![t] = [@ EXCEPT ![i] = p]]
                                        /\ buffer' = buffer
           /\ Store(t, <<<<1 - i, p>>, <<i, p>>>>) => /\ hazP' = [hazP EXCEPT ![t] = [j \in Slot |-> p]]
                                                      /\ buffer' = buffer
<1>1. Written(hazP[t], <<<<i, p>>>>) = [hazP[t] EXCEPT ![i] = p]
  BY DEF Written, HpTypeOK, Slot
<1>2. Written(hazP[t], <<<<1 - i, p>>, <<i, p>>>>) = [j \in Slot |-> p]
  BY DEF Written, HpTypeOK, Slot
<1> QED
  BY <1>1, <1>2 DEF Store, HpTypeOK

\* Only what thread t has of its own changes.
OnlyOf(t) ==
    \A u \in HpThread \ {t} :
        /\ hpc'[u] = hpc[u] /\ curr'[u] = curr[u] /\ nxt'[u] = nxt[u]
        /\ curr_lock'[u] = curr_lock[u] /\ next_lock'[u] = next_lock[u]
        /\ hazP'[u] = hazP[u] /\ curr_idx'[u] = curr_idx[u]
        /\ in_use'[u] = in_use[u] /\ scan'[u] = scan[u] /\ zombies'[u] = zombies[u]

\* A linked node is neither deleted nor waits to be.
LEMMA LinkedIsSafe ==
    ASSUME DeadOK, NEW n \in HpNode, Linked(n)
    PROVE  n \notin freed /\ \A u \in HpThread : ~Owns(u, n)
BY DEF DeadOK, Linked

\* A step of a thread that holds no lock, before and after it, and leaves the
\* layer alone: its own slots must keep what they protect or protect a linked node.
LEMMA LocalStep ==
    ASSUME HpTypeOK, HpLive, HpTypeOK', NEW t \in HpThread, OnlyOf(t),
           UNCHANGED <<hnext, hlock, freed, zombies, in_use, scan>>, ContextsOK',
           hpc[t] \notin Holding, hpc'[t] \notin Holding,
           PlaceOK(t)', ReadOK(t)',
           \A i \in Slot : Protects(t, i)' =>
                \/ Protects(t, i) /\ hazP'[t][i] = hazP[t][i]
                \/ hazP'[t][i] \in HpNode /\ Linked(hazP'[t][i])
    PROVE  HpLive'
<1>1. LayerOK'
  BY DEF HpLive, LayerOK, Linked
<1>2. ASSUME NEW u \in HpThread, NEW n \in HpNode
      PROVE  Owns(u, n)' <=> Owns(u, n)
  BY <1>2 DEF Owns, OnlyOf, Holding
<1>3. DeadOK'
  <2>1. ASSUME NEW u \in HpThread, NEW n \in HpNode, n \in zombies[u],
               hpc'[u] \in {"reclaim", "sweep", "push"}
        PROVE  nxt'[u] # n
    BY <2>1 DEF HpLive, DeadOK, OnlyOf, Holding
  <2> QED
    BY <1>2, <2>1 DEF HpLive, DeadOK
<1>5. ASSUME NEW u \in HpThread PROVE PlaceOK(u)'
  BY <1>5 DEF HpLive, PlaceOK, OnlyOf
<1>6. ASSUME NEW u \in HpThread PROVE HoldOK(u)'
  BY <1>6 DEF HpLive, HoldOK, OnlyOf, Holding
<1>7. ASSUME NEW u \in HpThread PROVE ReadOK(u)'
  <2>1. CASE u = t
    BY <2>1
  <2>2. CASE u # t
    <3>1. ReadOK(u)
      BY DEF HpLive
    <3>2. Unchanged(u)' => Unchanged(u)
      BY <2>2 DEF Unchanged, OnlyOf, Holding
    <3> QED
      BY <2>2, <3>1, <3>2 DEF ReadOK, OnlyOf
  <2> QED
    BY <2>1, <2>2
<1>8. ASSUME NEW u \in HpThread PROVE ProtectOK(u)'
  <2> SUFFICES ASSUME NEW i \in Slot, Protects(u, i)'
               PROVE  /\ hazP'[u][i] \notin freed
                      /\ \A w \in HpThread : hpc'[w] = "sweep" /\ hazP'[u][i] \in zombies[w]
                            => hazP'[u][i] \in in_use[w] \/ Pending(w, u, i)
    BY DEF ProtectOK, Pending
  <2>1. \A w \in HpThread : hpc'[w] = "sweep" => hpc[w] = "sweep"
    BY DEF OnlyOf, Holding
  <2>2. CASE Protects(u, i) /\ hazP'[u][i] = hazP[u][i]
    BY <2>1, <2>2 DEF HpLive, ProtectOK
  <2>3. CASE hazP'[u][i] \in HpNode /\ Linked(hazP'[u][i])
    BY <2>3, LinkedIsSafe DEF HpLive, Owns
  <2>4. u # t => Protects(u, i) /\ hazP'[u][i] = hazP[u][i]
    BY DEF Protects, OnlyOf
  <2> QED
    BY <2>2, <2>3, <2>4
<1>9. ASSUME NEW u \in HpThread PROVE SweepOK(u)'
  <2>1. SweepOK(u)
    BY DEF HpLive
  <2>2. (hpc'[u] = "sweep" => hpc[u] = "sweep" /\ curr'[u] = curr[u])
        /\ (hpc'[u] = "push" => hpc[u] = "push")
    BY DEF OnlyOf, Holding
  <2>3. Past(u)' = Past(u) /\ Half(u)' = Half(u)
    BY DEF Past, Half
  <2> QED
    BY <2>1, <2>2, <2>3 DEF SweepOK
<1> QED
  BY <1>1, <1>3, <1>5, <1>6, <1>7, <1>8, <1>9 DEF HpLive

LEMMA WalkStep ==
    ASSUME HpTypeOK, HpLive, HpTypeOK', NEW t \in HpThread, OnlyOf(t),
           UNCHANGED <<hnext, hlock, freed, contexts, zombies, in_use, scan>>,
           hpc[t] \notin Holding \cup {"start"}, hpc'[t] \notin Holding \cup {"start"},
           PlaceOK(t)', ReadOK(t)',
           \A i \in Slot : Protects(t, i)' =>
                \/ Protects(t, i) /\ hazP'[t][i] = hazP[t][i]
                \/ hazP'[t][i] \in HpNode /\ Linked(hazP'[t][i])
    PROVE  HpLive'
<1>1. ContextsOK'
  BY DEF HpLive, ContextsOK, OnlyOf
<1> QED
  BY <1>1, LocalStep

\* A thread without a lock gives up its walk: it protects nothing any more.
LEMMA ForgetStep ==
    ASSUME ~StoreBuffer, HpTypeOK, HpLive, NEW t \in HpThread,
           hpc[t] \in {"at"} \cup Reading,
           (hpc[t] = "at" /\ drop_curr(t)) \/ drop_next_then_curr(t), HpForget(t),
           UNCHANGED <<hnext, hlock, freed, contexts, zombies, in_use, scan>>
    PROVE  HpTypeOK' /\ HpLive'
<1>1. HpNull \in Ref
  BY DEF Ref
<1>2. hazP' = [hazP EXCEPT ![t] = [j \in Slot |-> HpNull]]
  <2>1. curr_idx[t] \in Slot /\ hazP[t] \in [Slot -> Ref]
    BY DEF HpTypeOK
  <2>2. CASE hpc[t] = "at" /\ drop_curr(t)
    <3>1. hazP[t][1 - curr_idx[t]] = HpNull
      BY <2>2 DEF HpLive, PlaceOK
    <3>2. [hazP[t] EXCEPT ![curr_idx[t]] = HpNull] = [j \in Slot |-> HpNull]
      BY <2>1, <3>1, OtherSlot
    <3>3. hazP' = [hazP EXCEPT ![t] = [hazP[t] EXCEPT ![curr_idx[t]] = HpNull]]
      BY <1>1, <2>1, <2>2, Stores DEF drop_curr
    <3> QED
      BY <3>2, <3>3
  <2>3. CASE drop_next_then_curr(t)
    BY <1>1, <2>1, <2>3, Stores DEF drop_next_then_curr, next_idx
  <2> QED
    BY <2>2, <2>3
<1>3. buffer' = buffer /\ curr_idx' = [curr_idx EXCEPT ![t] = 1 - curr_idx[t]]
  BY <1>1, Stores DEF drop_curr, drop_next_then_curr, next_idx, HpTypeOK
<1>4. HpTypeOK'
  <2>1. curr_idx' \in [HpThread -> Slot]
    <3>1. 1 - curr_idx[t] \in Slot
      BY OtherSlot DEF HpTypeOK
    <3> QED
      BY <1>3, <3>1 DEF HpTypeOK
  <2>2. hazP' \in [HpThread -> [Slot -> Ref]]
    BY <1>1, <1>2 DEF HpTypeOK
  <2>3. hpc' \in [HpThread -> HpPc]
    BY DEF HpTypeOK, HpForget, HpGoto, HpPc
  <2>4. curr' \in [HpThread -> Ref] /\ nxt' \in [HpThread -> Ref]
    BY <1>1 DEF HpTypeOK, HpForget
  <2>5. curr_lock' \in [HpThread -> Nat] /\ next_lock' \in [HpThread -> Nat]
    BY DEF HpTypeOK, HpForget
  <2> QED
    BY <1>3, <2>1, <2>2, <2>3, <2>4, <2>5 DEF HpTypeOK
<1>5. OnlyOf(t)
  BY <1>2, <1>3 DEF OnlyOf, HpTypeOK, HpForget, HpGoto
<1>6. hpc'[t] = "idle" /\ \A i \in Slot : hazP'[t][i] = HpNull
  BY <1>2 DEF HpTypeOK, HpForget, HpGoto
<1> QED
  BY <1>4, <1>5, <1>6, WalkStep DEF PlaceOK, ReadOK, Protects, Walking, Reading, Holding

\* What a confirmed version says: curr is linked, and next is its successor.
LEMMA ConfirmedCurr ==
    ASSUME HpTypeOK, HpLive, NEW t \in HpThread, hpc[t] \in Reading,
           hlock[curr[t]] = curr_lock[t]
    PROVE  /\ Linked(curr[t]) /\ curr[t] \in HpNode
           /\ hnext[curr[t]] = nxt[t] /\ nxt[t] \in HpNode /\ Linked(nxt[t])
<1>1. PlaceOK(t) /\ ReadOK(t) /\ LayerOK
  BY DEF HpLive
<1>2. curr[t] \in HpNode /\ nxt[t] \in HpNode /\ State(curr_lock[t]) = 0
  BY <1>1 DEF PlaceOK, Walking
<1>3. Linked(curr[t]) /\ hnext[curr[t]] = nxt[t]
  BY <1>1, <1>2 DEF Linked, ReadOK, Unchanged
<1>4. nxt[t] # HpNull
  BY <1>2, HpNodesAssumption DEF HpNode, HpNull
<1> QED
  BY <1>1, <1>2, <1>3, <1>4 DEF LayerOK

LEMMA ConfirmSays ==
    ASSUME HpTypeOK, HpLive, NEW t \in HpThread
    PROVE  /\ hpc[t] \in Reading => (HpConfirm(curr[t], curr_lock[t]) <=> hlock[curr[t]] = curr_lock[t])
           /\ hpc[t] = "next" => (HpConfirm(nxt[t], next_lock[t]) <=> hlock[nxt[t]] = next_lock[t])
<1>1. PlaceOK(t) /\ LayerOK
  BY DEF HpLive
<1>2. ASSUME NEW n \in HpNode, NEW s \in Nat, State(s) = 0
      PROVE  HpConfirm(n, s) <=> hlock[n] = s
  BY <1>1, <1>2, Confirmed DEF LayerOK, HpConfirm, HpTypeOK
<1> QED
  BY <1>1, <1>2 DEF PlaceOK, HpTypeOK, Walking, Reading

\* The walk of check_next() on the side of the reader.
LEMMA StartWalkInv ==
    ASSUME ~StoreBuffer, HpTypeOK, HpLive, NEW t \in HpThread, StartWalk(t)
    PROVE  HpTypeOK' /\ HpLive'
<1>1. 0 \in HpNode /\ 0 \in Ref
  BY HpNodesAssumption DEF HpNode, Ref
<1>2. begin_read(hlock[0]) \in Nat /\ State(begin_read(hlock[0])) = 0
  BY <1>1, Words DEF HpTypeOK
<1>3. hazP' = [hazP EXCEPT ![t] = [@ EXCEPT ![curr_idx[t]] = 0]] /\ buffer' = buffer
      /\ UNCHANGED curr_idx /\ curr_idx[t] \in Slot
  BY <1>1, Stores DEF StartWalk, take_first, HpTypeOK
<1>4. hazP' \in [HpThread -> [Slot -> Ref]]
  BY <1>1, <1>3 DEF HpTypeOK
<1>5. HpTypeOK'
  BY <1>1, <1>2, <1>3, <1>4 DEF HpTypeOK, StartWalk, HpGoto, HpPc, Walking, heap, sweeping
<1>6. OnlyOf(t) /\ UNCHANGED <<hnext, hlock, freed, contexts, zombies, in_use, scan>>
  BY <1>3 DEF OnlyOf, HpTypeOK, StartWalk, HpGoto, heap, sweeping
<1>7. /\ hpc[t] = "idle" /\ hpc'[t] = "at" /\ curr'[t] = 0 /\ hazP'[t][curr_idx[t]] = 0
      /\ hazP'[t][1 - curr_idx[t]] = hazP[t][1 - curr_idx[t]]
      /\ curr_lock'[t] = begin_read(hlock[0])
  BY <1>3, OtherSlot DEF HpTypeOK, StartWalk, HpGoto, HpAt
<1>8. hazP[t][1 - curr_idx[t]] = HpNull
  BY <1>3, <1>7, OtherSlot DEF HpLive, PlaceOK, Walking, Reading, Holding
<1>9. PlaceOK(t)'
  BY <1>1, <1>2, <1>3, <1>6, <1>7, <1>8 DEF PlaceOK, Walking, Reading, Holding
<1> QED
  BY <1>1, <1>3, <1>5, <1>6, <1>7, <1>9, WalkStep
     DEF ReadOK, Protects, Reading, Holding, HpLive, LayerOK

LEMMA ReadNextInv ==
    ASSUME ~StoreBuffer, HpTypeOK, HpLive, NEW t \in HpThread, ReadNext(t) \/ BeginNext(t)
    PROVE  HpTypeOK' /\ HpLive'
<1>1. /\ UNCHANGED <<hnext, hlock, freed, contexts, zombies, in_use, scan, hazP, curr_idx, buffer>>
      /\ UNCHANGED <<curr, curr_lock>>
  BY DEF ReadNext, BeginNext, heap, sweeping
<1>2. hpc[t] \in {"at", "confirmed"} /\ PlaceOK(t)
  BY DEF ReadNext, BeginNext, HpAt, HpLive
<1>3. curr[t] \in HpNode /\ (hpc[t] = "confirmed" => nxt[t] \in HpNode)
  BY <1>2 DEF PlaceOK, Walking, Reading
<1>4. CASE ReadNext(t)
  <2>1. hnext[curr[t]] \in HpNode
    BY <1>3, <1>4 DEF ReadNext, HpTypeOK, Ref
  <2>2. HpTypeOK'
    BY <1>1, <1>3, <1>4 DEF HpTypeOK, ReadNext, HpGoto, HpPc, Walking, Reading
  <2>3. OnlyOf(t)
    BY <1>1, <1>4 DEF OnlyOf, HpTypeOK, ReadNext, HpGoto
  <2>4. hpc'[t] = "read" /\ nxt'[t] = hnext[curr[t]] /\ hpc[t] = "at"
    BY <1>4 DEF ReadNext, HpGoto, HpTypeOK, HpAt
  <2>5. PlaceOK(t)' /\ ReadOK(t)'
    BY <1>1, <1>2, <2>1, <2>4 DEF PlaceOK, ReadOK, Walking, Reading, Holding
  <2> QED
    BY <1>1, <2>2, <2>3, <2>4, <2>5, WalkStep DEF Protects, Walking, Reading, Holding
<1>5. CASE BeginNext(t)
  <2>1. /\ hpc[t] = "confirmed" /\ nxt[t] \in HpNode
        /\ begin_read(hlock[nxt[t]]) \in Nat /\ State(begin_read(hlock[nxt[t]])) = 0
    BY <1>3, <1>5, Words DEF HpTypeOK, BeginNext, HpAt
  <2>2. HpTypeOK'
    BY <1>1, <1>5, <2>1 DEF HpTypeOK, BeginNext, HpGoto, HpPc, Walking, Reading
  <2>3. OnlyOf(t)
    BY <1>1, <1>5 DEF OnlyOf, HpTypeOK, BeginNext, HpGoto
  <2>4. hpc'[t] = "next" /\ nxt'[t] = nxt[t] /\ next_lock'[t] = begin_read(hlock[nxt[t]])
    BY <1>5 DEF BeginNext, HpGoto, HpTypeOK
  <2>5. PlaceOK(t)'
    BY <1>1, <1>2, <2>1, <2>4 DEF PlaceOK, Walking, Reading, Holding
  <2>6. ReadOK(t)'
    <3>1. Unchanged(t)' => Unchanged(t)
      BY <1>1, <2>3, <2>4 DEF Unchanged, OnlyOf
    <3> QED
      BY <1>1, <2>1, <2>4, <3>1 DEF HpLive, ReadOK, Reading
  <2> QED
    BY <1>1, <2>1, <2>2, <2>3, <2>4, <2>5, <2>6, WalkStep DEF Protects, Walking, Reading, Holding
<1> QED
  BY <1>4, <1>5

LEMMA TakeNextInv ==
    ASSUME ~StoreBuffer, HpTypeOK, HpLive, NEW t \in HpThread, TakeNext(t)
    PROVE  HpTypeOK' /\ HpLive'
<1>1. hpc[t] = "read" /\ PlaceOK(t) /\ ReadOK(t) /\ nxt[t] \in HpNode /\ curr_idx[t] \in Slot
  BY DEF TakeNext, HpAt, HpLive, PlaceOK, HpTypeOK, Reading
<1>2. nxt[t] \in Ref /\ 1 - curr_idx[t] \in Slot
  BY <1>1, OtherSlot DEF Ref
<1>3. hazP' = [hazP EXCEPT ![t] = [hazP[t] EXCEPT ![1 - curr_idx[t]] = nxt[t]]] /\ buffer' = buffer
  BY <1>2, Stores DEF TakeNext, take_next, next_idx
<1>4. UNCHANGED <<hnext, hlock, freed, contexts, zombies, in_use, scan, curr_idx, buffer,
                  curr, nxt, curr_lock, next_lock>>
  BY <1>3 DEF TakeNext, take_next, heap, sweeping, place
<1>5. HpTypeOK'
  <2>1. hazP' \in [HpThread -> [Slot -> Ref]]
    BY <1>2, <1>3 DEF HpTypeOK
  <2>2. hpc' \in [HpThread -> HpPc]
    BY DEF HpTypeOK, TakeNext, HpGoto, HpPc, Walking, Reading
  <2> QED
    BY <1>4, <2>1, <2>2 DEF HpTypeOK
<1>6. OnlyOf(t)
  BY <1>3, <1>4 DEF OnlyOf, HpTypeOK, TakeNext, HpGoto
<1>7. /\ hpc'[t] = "taken" /\ hazP'[t][1 - curr_idx[t]] = nxt[t]
      /\ hazP'[t][curr_idx[t]] = hazP[t][curr_idx[t]]
  BY <1>1, <1>2, <1>3, OtherSlot DEF HpTypeOK, TakeNext, HpGoto
<1>8. PlaceOK(t)'
  BY <1>1, <1>4, <1>7 DEF PlaceOK, Walking, Reading, Holding
<1>9. ReadOK(t)'
  <2>1. Unchanged(t)' => Unchanged(t)
    BY <1>4, <1>6, <1>7 DEF Unchanged, OnlyOf
  <2> QED
    BY <1>1, <1>4, <1>7, <2>1 DEF ReadOK, Reading
<1> QED
  BY <1>1, <1>4, <1>5, <1>6, <1>7, <1>8, <1>9, WalkStep DEF Protects, Walking, Reading, Holding

LEMMA ConfirmTakenInv ==
    ASSUME ~StoreBuffer, HpTypeOK, HpLive, NEW t \in HpThread, ConfirmTaken(t)
    PROVE  HpTypeOK' /\ HpLive'
<1>1. hpc[t] = "taken" /\ PlaceOK(t) /\ ReadOK(t) /\ curr_idx[t] \in Slot
      /\ UNCHANGED <<hnext, hlock, freed, contexts, zombies, in_use, scan>>
  BY DEF ConfirmTaken, HpAt, HpLive, HpTypeOK, heap, sweeping
<1>2. CASE HpConfirm(curr[t], curr_lock[t])
  <2>1. /\ UNCHANGED <<hazP, curr_idx, buffer, curr, nxt, curr_lock, next_lock>>
        /\ hpc' = [hpc EXCEPT ![t] = "confirmed"]
    BY <1>2 DEF ConfirmTaken, place, HpGoto
  <2>2. HpTypeOK'
    BY <1>1, <2>1 DEF HpTypeOK, HpPc, Walking, Reading
  <2>3. OnlyOf(t) /\ hpc'[t] = "confirmed"
    BY <1>1, <2>1 DEF OnlyOf, HpTypeOK
  <2>4. hlock[curr[t]] = curr_lock[t]
    BY <1>1, <1>2, ConfirmSays DEF Reading
  <2>5. hnext[curr[t]] = nxt[t] /\ nxt[t] \in HpNode /\ Linked(nxt[t])
    BY <1>1, <2>4, ConfirmedCurr DEF Reading
  <2>6. PlaceOK(t)' /\ ReadOK(t)'
    BY <1>1, <2>1, <2>3, <2>5 DEF PlaceOK, ReadOK, Walking, Reading, Holding
  <2>7. hazP[t][1 - curr_idx[t]] = nxt[t]
    BY <1>1 DEF PlaceOK
  <2> QED
    BY <1>1, <2>1, <2>2, <2>3, <2>5, <2>6, <2>7, WalkStep DEF Protects, Walking, Reading, Holding
<1>3. CASE ~HpConfirm(curr[t], curr_lock[t])
  BY <1>1, <1>3, ForgetStep DEF ConfirmTaken, Reading
<1> QED
  BY <1>2, <1>3

LEMMA RuleOutNextInv ==
    ASSUME ~StoreBuffer, HpTypeOK, HpLive, NEW t \in HpThread, RuleOutNext(t)
    PROVE  HpTypeOK' /\ HpLive'
<1>1. hpc[t] = "next" /\ PlaceOK(t) /\ curr_idx[t] \in Slot
      /\ UNCHANGED <<hnext, hlock, freed, contexts, zombies, in_use, scan>>
  BY DEF RuleOutNext, HpAt, HpLive, HpTypeOK, heap, sweeping
<1>2. CASE HpConfirm(nxt[t], next_lock[t])
  <2>1. HpNull \in Ref /\ 1 - curr_idx[t] \in Slot
    BY <1>1, OtherSlot DEF Ref
  <2>2. hazP' = [hazP EXCEPT ![t] = [hazP[t] EXCEPT ![1 - curr_idx[t]] = HpNull]] /\ buffer' = buffer
    BY <1>2, <2>1, Stores DEF RuleOutNext, drop_next, next_idx
  <2>3. /\ UNCHANGED <<curr_idx, curr, curr_lock>>
        /\ hpc' = [hpc EXCEPT ![t] = "at"] /\ nxt' = [nxt EXCEPT ![t] = HpNull]
        /\ next_lock' = [next_lock EXCEPT ![t] = 0]
    BY <1>2 DEF RuleOutNext, HpGoto, drop_next
  <2>4. HpTypeOK'
    <3>1. hazP' \in [HpThread -> [Slot -> Ref]]
      BY <2>1, <2>2 DEF HpTypeOK
    <3> QED
      BY <1>1, <2>1, <2>2, <2>3, <3>1 DEF HpTypeOK, HpPc, Walking
  <2>5. OnlyOf(t) /\ hpc'[t] = "at"
    BY <1>1, <2>2, <2>3 DEF OnlyOf, HpTypeOK
  <2>6. hazP'[t][1 - curr_idx[t]] = HpNull /\ hazP'[t][curr_idx[t]] = hazP[t][curr_idx[t]]
    BY <1>1, <2>1, <2>2, OtherSlot DEF HpTypeOK
  <2>7. PlaceOK(t)' /\ ReadOK(t)'
    BY <1>1, <2>3, <2>5, <2>6 DEF PlaceOK, ReadOK, Walking, Reading, Holding
  <2> QED
    BY <1>1, <2>3, <2>4, <2>5, <2>6, <2>7, WalkStep DEF Protects, Walking, Reading, Holding
<1>3. CASE ~HpConfirm(nxt[t], next_lock[t])
  BY <1>1, <1>3, ForgetStep DEF RuleOutNext, Reading
<1> QED
  BY <1>2, <1>3

LEMMA AdvanceInv ==
    ASSUME ~StoreBuffer, HpTypeOK, HpLive, NEW t \in HpThread, Advance(t)
    PROVE  HpTypeOK' /\ HpLive'
<1>1. hpc[t] = "next" /\ PlaceOK(t) /\ curr_idx[t] \in Slot
      /\ UNCHANGED <<hnext, hlock, freed, contexts, zombies, in_use, scan>>
  BY DEF Advance, HpAt, HpLive, HpTypeOK, heap, sweeping
<1>2. CASE HpConfirm(curr[t], curr_lock[t])
  <2>1. HpNull \in Ref /\ 1 - curr_idx[t] \in Slot /\ nxt[t] \in HpNode
    BY <1>1, OtherSlot DEF Ref, PlaceOK, Reading
  <2>2. hazP' = [hazP EXCEPT ![t] = [hazP[t] EXCEPT ![curr_idx[t]] = HpNull]] /\ buffer' = buffer
    BY <1>1, <1>2, <2>1, Stores DEF Advance, drop_curr
  <2>3. /\ curr_idx' = [curr_idx EXCEPT ![t] = 1 - curr_idx[t]]
        /\ hpc' = [hpc EXCEPT ![t] = "at"] /\ nxt' = [nxt EXCEPT ![t] = HpNull]
        /\ curr' = [curr EXCEPT ![t] = nxt[t]]
        /\ curr_lock' = [curr_lock EXCEPT ![t] = next_lock[t]]
        /\ next_lock' = [next_lock EXCEPT ![t] = 0]
    BY <1>2 DEF Advance, HpGoto, drop_curr, next_idx
  <2>4. HpTypeOK'
    <3>1. hazP' \in [HpThread -> [Slot -> Ref]]
      BY <1>1, <2>1, <2>2 DEF HpTypeOK
    <3> QED
      BY <1>1, <2>1, <2>2, <2>3, <3>1 DEF HpTypeOK, HpPc, Walking
  <2>5. OnlyOf(t) /\ hpc'[t] = "at"
    BY <1>1, <2>2, <2>3 DEF OnlyOf, HpTypeOK
  <2>6. /\ curr_idx'[t] = 1 - curr_idx[t] /\ 1 - curr_idx'[t] = curr_idx[t]
        /\ hazP'[t][curr_idx[t]] = HpNull /\ hazP'[t][1 - curr_idx[t]] = hazP[t][1 - curr_idx[t]]
        /\ curr'[t] = nxt[t] /\ curr_lock'[t] = next_lock[t]
    BY <1>1, <2>1, <2>2, <2>3, OtherSlot DEF HpTypeOK
  <2>7. PlaceOK(t)' /\ ReadOK(t)'
    BY <1>1, <2>1, <2>3, <2>5, <2>6 DEF PlaceOK, ReadOK, Walking, Reading, Holding
  <2> QED
    BY <1>1, <2>3, <2>4, <2>5, <2>6, <2>7, WalkStep DEF Protects, Walking, Reading, Holding
<1>3. CASE ~HpConfirm(curr[t], curr_lock[t])
  BY <1>1, <1>3, ForgetStep DEF Advance, Reading
<1> QED
  BY <1>2, <1>3

LEMMA InitContextInv ==
    ASSUME HpTypeOK, HpLive, NEW t \in HpThread, InitContext(t)
    PROVE  HpTypeOK' /\ HpLive'
<1>1. /\ UNCHANGED <<hnext, hlock, freed, zombies, in_use, scan, hazP, curr_idx, buffer,
                     curr, nxt, curr_lock, next_lock>>
      /\ hpc[t] = "start" /\ hpc' = [hpc EXCEPT ![t] = "idle"] /\ contexts' = <<t>> \o contexts
  BY DEF InitContext, HpAt, HpGoto, heap, place, sweeping
<1>2. contexts \in Seq(HpThread) /\ <<t>> \in Seq(HpThread)
  BY DEF HpTypeOK
<1>3. HpTypeOK'
  BY <1>1, <1>2 DEF HpTypeOK, HpPc
<1>4. OnlyOf(t) /\ hpc'[t] = "idle"
  BY <1>1 DEF OnlyOf, HpTypeOK
<1>5. ContextsOK'
  <2>1. /\ Len(contexts') = Len(contexts) + 1 /\ Len(contexts) \in Nat
        /\ \A k \in 1 .. Len(contexts) + 1 : contexts'[k] = IF k = 1 THEN t ELSE contexts[k - 1]
    BY <1>1, <1>2
  <2>2. ContextsOK /\ \A k \in 1 .. Len(contexts) : contexts[k] # t
    BY <1>1 DEF HpLive, ContextsOK
  <2>3. ASSUME NEW u \in HpThread
        PROVE  hpc'[u] = "start" <=> \A k \in 1 .. Len(contexts') : contexts'[k] # u
    <3>1. CASE u = t
      BY <1>4, <2>1, <3>1
    <3>2. CASE u # t
      <4>1. \A k \in 1 .. Len(contexts) : contexts'[k + 1] = contexts[k]
        BY <2>1
      <4>2. (\A k \in 1 .. Len(contexts') : contexts'[k] # u)
               <=> \A k \in 1 .. Len(contexts) : contexts[k] # u
        BY <2>1, <3>2, <4>1
      <4> QED
        BY <1>4, <2>2, <3>2, <4>2 DEF ContextsOK, OnlyOf
    <3> QED
      BY <3>1, <3>2
  <2>4. ASSUME NEW k \in 1 .. Len(contexts'), NEW m \in 1 .. Len(contexts'),
               contexts'[k] = contexts'[m]
        PROVE  k = m
    BY <2>1, <2>2, <2>4 DEF ContextsOK
  <2> QED
    BY <2>3, <2>4 DEF ContextsOK
<1>6. PlaceOK(t)' /\ ReadOK(t)'
  BY <1>1, <1>4 DEF HpLive, PlaceOK, ReadOK, Walking, Reading, Holding
<1> QED
  BY <1>1, <1>3, <1>4, <1>5, <1>6, LocalStep DEF Protects, Walking, Reading, Holding

\* A step in which t changes the lock word of its curr, or only lets go of the
\* zombie it was to push: the layer stays as it is.
LEMMA LockStep ==
    ASSUME HpTypeOK, HpLive, HpTypeOK', NEW t \in HpThread, OnlyOf(t),
           UNCHANGED <<hnext, freed, contexts>>,
           NEW c \in HpNode, c = curr[t], NEW w \in Nat, hlock' = [hlock EXCEPT ![c] = w],
           State(hlock[c]) \in {0, 4}, State(w) \in {0, 4},
           begin_read(hlock[c]) <= begin_read(w),
           \A u \in HpThread : u # t /\ hpc[u] \in Holding => curr[u] # c,
           \A u \in HpThread : u # t /\ hpc[u] \in Reading /\ curr[u] = c
                                 /\ Unchanged(u)' => Unchanged(u),
           hpc[t] # "start", hpc'[t] \notin {"start", "reclaim", "sweep", "push"},
           hpc'[t] \in Holding => curr'[t] = c,
           \A n \in HpNode : Owns(t, n)' <=> Owns(t, n),
           Cardinality(zombies'[t]) <= ZombieCap,
           PlaceOK(t)', HoldOK(t)', ReadOK(t)',
           \A i \in Slot : Protects(t, i)' =>
                \/ Protects(t, i) /\ hazP'[t][i] = hazP[t][i]
                \/ hazP'[t][i] \in HpNode /\ Linked(hazP'[t][i])
    PROVE  HpLive'
<1>1. /\ \A n \in HpNode : n # c => hlock'[n] = hlock[n]
      /\ hlock'[c] = w
      /\ \A n \in HpNode : State(hlock'[n]) = 6 <=> State(hlock[n]) = 6
      /\ \A n \in HpNode : Linked(n)' <=> Linked(n)
      /\ \A n \in HpNode : State(hlock'[n]) \in {0, 4, 6}
  BY DEF HpLive, LayerOK, Linked, HpTypeOK
<1>2. \A n \in HpNode : /\ begin_read(hlock[n]) \in Nat /\ begin_read(hlock'[n]) \in Nat
                        /\ begin_read(hlock[n]) <= begin_read(hlock'[n])
  BY <1>1, Words DEF HpTypeOK
<1>3. LayerOK'
  <2>1. 0 \in HpNode /\ \A n \in HpNode : hnext[n] # HpNull => hnext[n] \in HpNode
    BY HpNodesAssumption DEF HpNode, HpTypeOK, Ref
  <2>2. Linked(0)'
    BY <1>1, <2>1 DEF HpLive, LayerOK
  <2>3. ASSUME NEW n \in HpNode
        PROVE  /\ State(hlock'[n]) \in {0, 4, 6} /\ hnext'[n] # 0
               /\ Linked(n)' /\ hnext'[n] # HpNull => Linked(hnext[n])'
               /\ \A m \in HpNode : Linked(n)' /\ Linked(m)' /\ n # m /\ hnext'[n] # HpNull
                                      => hnext'[n] # hnext'[m]
    BY <1>1, <2>1, <2>3 DEF HpLive, LayerOK
  <2> QED
    BY <2>2, <2>3 DEF LayerOK, Linked
<1>4. \A u \in HpThread, n \in HpNode : Owns(u, n)' <=> Owns(u, n)
  BY DEF Owns, OnlyOf
<1>5. DeadOK'
  <2>1. ASSUME NEW u \in HpThread, NEW n \in HpNode, n \in zombies'[u],
               hpc'[u] \in {"reclaim", "sweep", "push"}
        PROVE  nxt'[u] # n
    BY <2>1 DEF HpLive, DeadOK, OnlyOf
  <2> QED
    BY <1>1, <1>4, <2>1 DEF HpLive, DeadOK
<1>6. ContextsOK'
  BY DEF HpLive, ContextsOK, OnlyOf
<1>7. ASSUME NEW u \in HpThread PROVE PlaceOK(u)'
  <2>1. CASE u # t
    <3>1. PlaceOK(u)
      BY DEF HpLive
    <3>2. curr_lock[u] \in Nat /\ next_lock[u] \in Nat
      BY DEF HpTypeOK
    <3> QED
      BY <1>2, <2>1, <3>1, <3>2 DEF PlaceOK, OnlyOf, Walking, Reading
  <2> QED
    BY <2>1
<1>8. ASSUME NEW u \in HpThread PROVE HoldOK(u)'
  <2>1. CASE u # t
    <3>1. HoldOK(u) /\ PlaceOK(u)
      BY DEF HpLive
    <3>2. hpc[u] \in Holding => curr[u] \in HpNode /\ curr[u] # c
      BY <2>1, <3>1 DEF PlaceOK, Walking
    <3> QED
      BY <1>1, <2>1, <3>1, <3>2 DEF HoldOK, OnlyOf, Holding
  <2> QED
    BY <2>1
<1>9. ASSUME NEW u \in HpThread PROVE ReadOK(u)'
  <2>1. CASE u # t /\ hpc[u] \in Reading
    <3>1. curr[u] \in HpNode /\ ReadOK(u)
      BY <2>1 DEF HpLive, PlaceOK, Walking
    <3>2. CASE curr[u] = c
      BY <2>1, <3>1, <3>2 DEF ReadOK, OnlyOf
    <3>3. CASE curr[u] # c
      <4>1. hlock'[curr[u]] = hlock[curr[u]]
        BY <1>1, <3>1, <3>3
      <4>2. \A v \in HpThread : hpc'[v] = "locked" /\ curr'[v] = curr[u]
                                  => hpc[v] = "locked" /\ curr[v] = curr[u]
        BY <3>3 DEF OnlyOf, Holding
      <4>3. Unchanged(u)' => Unchanged(u)
        BY <2>1, <4>1, <4>2 DEF Unchanged, OnlyOf
      <4> QED
        BY <2>1, <3>1, <4>3 DEF ReadOK, OnlyOf
    <3> QED
      BY <3>2, <3>3
  <2>2. CASE u # t /\ hpc[u] \notin Reading
    BY <2>2 DEF ReadOK, OnlyOf
  <2> QED
    BY <2>1, <2>2
<1>10. ASSUME NEW u \in HpThread PROVE ProtectOK(u)'
  <2> SUFFICES ASSUME NEW i \in Slot, Protects(u, i)', NEW p, p = hazP'[u][i]
               PROVE  /\ p \notin freed
                      /\ \A v \in HpThread : hpc'[v] = "sweep" /\ p \in zombies'[v]
                            => p \in in_use'[v] \/ Pending(v, u, i)'
    BY DEF ProtectOK
  <2>1. \A v \in HpThread : hpc'[v] = "sweep" => v # t /\ hpc[v] = "sweep"
    BY DEF OnlyOf
  <2>2. \A v \in HpThread : v # t => zombies'[v] = zombies[v] /\ in_use'[v] = in_use[v]
                                     /\ (Pending(v, u, i)' <=> Pending(v, u, i))
    BY DEF OnlyOf, Pending
  <2>3. CASE Protects(u, i) /\ p = hazP[u][i]
    BY <2>1, <2>2, <2>3 DEF HpLive, ProtectOK
  <2>4. CASE p \in HpNode /\ Linked(p)
    BY <2>1, <2>2, <2>4, LinkedIsSafe DEF HpLive, Owns
  <2>5. u # t => Protects(u, i) /\ p = hazP[u][i]
    BY DEF Protects, OnlyOf
  <2> QED
    BY <2>3, <2>4, <2>5
<1>11. ASSUME NEW u \in HpThread PROVE SweepOK(u)'
  <2>1. CASE u # t
    <3>1. SweepOK(u) /\ Past(u)' = Past(u) /\ Half(u)' = Half(u)
      BY <2>1 DEF HpLive, Past, Half, OnlyOf
    <3> QED
      BY <2>1, <3>1 DEF SweepOK, OnlyOf
  <2>2. CASE u = t
    BY <2>2 DEF SweepOK
  <2> QED
    BY <2>1, <2>2
<1> QED
  BY <1>3, <1>5, <1>6, <1>7, <1>8, <1>9, <1>10, <1>11 DEF HpLive

\* try_upgrade() of curr: whoever still has a valid version of it keeps it for
\* as long as nothing is changed.
LEMMA LockCurrInv ==
    ASSUME ~StoreBuffer, HpTypeOK, HpLive, NEW t \in HpThread, LockCurr(t)
    PROVE  HpTypeOK' /\ HpLive'
<1>1. hpc[t] = "next" /\ PlaceOK(t) /\ LayerOK /\ curr_idx[t] \in Slot
      /\ curr[t] \in HpNode /\ nxt[t] \in HpNode
      /\ UNCHANGED <<hnext, freed, contexts, zombies, in_use, scan>>
  BY DEF LockCurr, HpAt, HpLive, PlaceOK, HpTypeOK, sweeping, Walking, Reading
<1>2. CASE try_upgrade_ok(hlock[curr[t]], curr_lock[t])
  <2> DEFINE c == curr[t]
  <2>1. /\ hlock[c] = curr_lock[t] /\ State(hlock[c]) = 0 /\ hlock[c] \in Nat
        /\ hnext[c] = nxt[t]
    BY <1>1, <1>2, ConfirmedCurr DEF try_upgrade_ok, PlaceOK, HpTypeOK, Reading, Walking
  <2>2. /\ hlock' = [hlock EXCEPT ![c] = hlock[c] + 4] /\ hlock[c] + 4 \in Nat
        /\ hpc' = [hpc EXCEPT ![t] = "locked"]
        /\ UNCHANGED <<curr, nxt, curr_lock, next_lock, curr_idx>>
    BY <1>2, <2>1 DEF LockCurr, HpGoto, place, drop_next, acquire, LOCK_BIT
  <2>3. HpNull \in Ref /\ 1 - curr_idx[t] \in Slot
    BY <1>1, OtherSlot DEF Ref
  <2>4. hazP' = [hazP EXCEPT ![t] = [hazP[t] EXCEPT ![1 - curr_idx[t]] = HpNull]] /\ buffer' = buffer
    BY <1>2, <2>3, Stores DEF LockCurr, drop_next, next_idx
  <2>5. HpTypeOK'
    <3>1. hazP' \in [HpThread -> [Slot -> Ref]]
      BY <2>3, <2>4 DEF HpTypeOK
    <3>2. hlock' \in [HpNode -> Nat]
      BY <1>1, <2>2 DEF HpTypeOK
    <3>3. hpc' \in [HpThread -> HpPc]
      BY <2>2 DEF HpTypeOK, HpPc, Walking, Holding
    <3> QED
      BY <1>1, <2>2, <2>4, <3>1, <3>2, <3>3 DEF HpTypeOK
  <2>6. OnlyOf(t) /\ hpc'[t] = "locked" /\ hlock'[c] = hlock[c] + 4
    BY <1>1, <2>2, <2>4 DEF OnlyOf, HpTypeOK
  <2>7. hazP'[t][1 - curr_idx[t]] = HpNull /\ hazP'[t][curr_idx[t]] = hazP[t][curr_idx[t]]
    BY <1>1, <2>3, <2>4, OtherSlot DEF HpTypeOK
  <2>8. State(hlock[c] + 4) = 4 /\ begin_read(hlock[c] + 4) = hlock[c] /\ begin_read(hlock[c]) = hlock[c]
    BY <2>1, Words
  <2>9. \A u \in HpThread : hpc[u] \in Holding => curr[u] # c
    BY <2>1 DEF HpLive, HoldOK
  <2>10. PlaceOK(t)' /\ ReadOK(t)'
    BY <1>1, <2>1, <2>2, <2>6, <2>7, <2>8 DEF PlaceOK, ReadOK, Walking, Reading, Holding, HpTypeOK
  <2>11. HoldOK(t)'
    BY <1>1, <2>1, <2>2, <2>6, <2>8, <2>9 DEF HoldOK, OnlyOf
  <2>12. ASSUME NEW u \in HpThread, u # t, hpc[u] \in Reading, curr[u] = c, Unchanged(u)'
         PROVE  Unchanged(u)
    <3>1. PlaceOK(u) /\ curr_lock'[u] = curr_lock[u] /\ curr'[u] = c /\ curr_lock[u] \in Nat
      BY <2>6, <2>12 DEF HpLive, OnlyOf, HpTypeOK
    <3>2. State(curr_lock[u]) = 0
      BY <2>12, <3>1 DEF PlaceOK, Walking
    <3>3. hlock[c] + 4 = curr_lock[u] + 4
      BY <2>6, <2>8, <2>12, <3>1, <3>2 DEF Unchanged
    <3> QED
      BY <2>1, <2>12, <3>1, <3>3 DEF Unchanged
  <2>13. \A n \in HpNode : Owns(t, n)' <=> Owns(t, n)
    BY <1>1, <2>6 DEF Owns
  <2>14. Cardinality(zombies'[t]) <= ZombieCap
    BY <1>1 DEF HpLive, SweepOK
  <2>15. c \in HpNode /\ c = curr[t] /\ curr'[t] = c
    BY <1>1, <2>2
  <2>16. \A i \in Slot : Protects(t, i)' => Protects(t, i) /\ hazP'[t][i] = hazP[t][i]
    BY <1>1, <2>2, <2>6, <2>7 DEF Protects, Walking, Reading, Holding
  <2> DEFINE w == hlock[c] + 4
  <2>17. /\ w \in Nat /\ hlock' = [hlock EXCEPT ![c] = w] /\ State(w) \in {0, 4}
         /\ begin_read(hlock[c]) <= begin_read(w) /\ State(hlock[c]) \in {0, 4}
    BY <2>1, <2>2, <2>8
  <2>18. hpc[t] # "start" /\ hpc'[t] \notin {"start", "reclaim", "sweep", "push"}
    BY <1>1, <2>6
  <2> HIDE DEF c, w
  <2> QED
    BY <1>1, <2>5, <2>6, <2>9, <2>10, <2>11, <2>12, <2>13, <2>14, <2>15, <2>16, <2>17, <2>18, LockStep
<1>3. CASE ~try_upgrade_ok(hlock[curr[t]], curr_lock[t])
  BY <1>1, <1>3, ForgetStep DEF LockCurr, Reading
<1> QED
  BY <1>2, <1>3

\* Letting go of curr: unchanged only where nothing was unlinked from it.
LEMMA ReleasedReaders ==
    ASSUME HpTypeOK, HpLive, HpTypeOK', NEW t \in HpThread, OnlyOf(t), hpc[t] \in Holding,
           NEW c \in HpNode, c = curr[t], NEW w \in Nat, hlock'[c] = w,
           w = hlock[c] + 4 \/ (w = hlock[c] - 4 /\ hpc[t] = "locked"),
           hpc'[t] # "locked", NEW u \in HpThread, u # t, hpc[u] \in Reading, curr[u] = c,
           Unchanged(u)'
    PROVE  Unchanged(u)
<1>1. PlaceOK(u) /\ curr_lock'[u] = curr_lock[u] /\ curr'[u] = c /\ curr_lock[u] \in Nat
  BY DEF HpLive, OnlyOf, HpTypeOK
<1>2. State(curr_lock[u]) = 0 /\ curr_lock[u] <= begin_read(hlock[c])
  BY <1>1 DEF PlaceOK, Walking
<1>3. HoldOK(t) /\ State(hlock[c]) = 4 /\ hlock[c] \in Nat
  BY DEF HpLive, HoldOK, HpTypeOK
<1>4. begin_read(hlock[c]) = hlock[c] - 4 /\ State(hlock[c] - 4) = 0 /\ State(hlock[c] + 4) = 0
  BY <1>3, Words
<1>5. \A v \in HpThread : hpc'[v] = "locked" => hpc[v] = "locked" /\ v # t /\ curr'[v] = curr[v]
  BY DEF OnlyOf
<1>6. \A v \in HpThread : hpc'[v] = "locked" => curr'[v] # c
  BY <1>3, <1>5 DEF HoldOK, Holding
<1>7. w = curr_lock[u]
  BY <1>1, <1>6 DEF Unchanged
<1>8. w = hlock[c] - 4 /\ hpc[t] = "locked"
  BY <1>1, <1>2, <1>3, <1>4, <1>7
<1> QED
  BY <1>1, <1>3, <1>7, <1>8 DEF Unchanged

\* merge() fails on a locked next: curr is released and the walk given up.
LEMMA UnlinkFails ==
    ASSUME ~StoreBuffer, HpTypeOK, HpLive, NEW t \in HpThread, Unlink(t),
           ~try_upgrade_ok(hlock[nxt[t]], next_lock[t])
    PROVE  HpTypeOK' /\ HpLive'
<1> DEFINE c == curr[t]
           w == release_changed_if(hlock[c], HpAt(t, "again"))
<1>1. /\ hpc[t] \in {"locked", "again"} /\ PlaceOK(t) /\ HoldOK(t) /\ curr_idx[t] \in Slot
      /\ c \in HpNode /\ State(hlock[c]) = 4 /\ hlock[c] \in Nat
      /\ UNCHANGED <<hnext, freed, contexts, zombies, in_use, scan>>
  BY DEF Unlink, HpAt, HpLive, PlaceOK, HoldOK, HpTypeOK, sweeping, Walking, Holding
<1>2. drop_curr(t) /\ HpForget(t) /\ hlock' = [hlock EXCEPT ![c] = w]
  BY DEF Unlink
<1>3. /\ HpAt(t, "again") \in BOOLEAN
      /\ (HpAt(t, "again") /\ w = hlock[c] + 4) \/ (hpc[t] = "locked" /\ w = hlock[c] - 4)
  BY <1>1 DEF HpAt, release_changed_if, release, release_unchanged, LOCK_BIT
<1>4. w \in Nat /\ State(w) = 0 /\ begin_read(hlock[c]) <= begin_read(w)
  BY <1>1, <1>3, Words
<1>5. HpNull \in Ref /\ 1 - curr_idx[t] \in Slot
  BY <1>1, OtherSlot DEF Ref
<1>6. hazP' = [hazP EXCEPT ![t] = [j \in Slot |-> HpNull]] /\ buffer' = buffer
  <2>1. hazP[t][1 - curr_idx[t]] = HpNull /\ hazP[t] \in [Slot -> Ref]
    BY <1>1 DEF PlaceOK, HpTypeOK, Holding
  <2>2. [hazP[t] EXCEPT ![curr_idx[t]] = HpNull] = [j \in Slot |-> HpNull]
    BY <1>1, <2>1, OtherSlot
  <2>3. hazP' = [hazP EXCEPT ![t] = [hazP[t] EXCEPT ![curr_idx[t]] = HpNull]] /\ buffer' = buffer
    BY <1>1, <1>2, <1>5, Stores DEF drop_curr
  <2> QED
    BY <2>2, <2>3
<1>7. HpTypeOK'
  <2>1. hazP' \in [HpThread -> [Slot -> Ref]]
    BY <1>5, <1>6 DEF HpTypeOK
  <2>2. hlock' \in [HpNode -> Nat]
    BY <1>1, <1>2, <1>4 DEF HpTypeOK
  <2>3. curr_idx' \in [HpThread -> Slot]
    BY <1>2, <1>5 DEF HpTypeOK, drop_curr, next_idx
  <2>4. hpc' \in [HpThread -> HpPc]
    BY <1>2 DEF HpTypeOK, HpForget, HpGoto, HpPc
  <2>5. curr' \in [HpThread -> Ref] /\ nxt' \in [HpThread -> Ref]
        /\ curr_lock' \in [HpThread -> Nat] /\ next_lock' \in [HpThread -> Nat]
    BY <1>2, <1>5 DEF HpTypeOK, HpForget
  <2> QED
    BY <1>1, <1>6, <2>1, <2>2, <2>3, <2>4, <2>5 DEF HpTypeOK
<1>8. OnlyOf(t) /\ hpc'[t] = "idle" /\ hlock'[c] = w /\ \A i \in Slot : hazP'[t][i] = HpNull
  BY <1>1, <1>2, <1>6 DEF OnlyOf, HpTypeOK, HpForget, HpGoto, drop_curr
<1>9. PlaceOK(t)' /\ ReadOK(t)' /\ HoldOK(t)'
  BY <1>8 DEF PlaceOK, ReadOK, HoldOK, Walking, Reading, Holding
<1>10. \A i \in Slot : ~Protects(t, i)'
  BY <1>8 DEF Protects, Walking, Reading, Holding
<1>11. \A n \in HpNode : Owns(t, n)' <=> Owns(t, n)
  BY <1>1, <1>8 DEF Owns
<1>12. Cardinality(zombies'[t]) <= ZombieCap
  BY <1>1 DEF HpLive, SweepOK
<1>13. \A u \in HpThread : u # t /\ hpc[u] \in Holding => curr[u] # c
  BY <1>1 DEF HoldOK, Holding
<1>14. hpc[t] \in Holding /\ hpc[t] # "start" /\ hpc'[t] \notin Holding
       /\ hpc'[t] \notin {"locked", "start", "reclaim", "sweep", "push"}
  BY <1>1, <1>8 DEF Holding
<1>15. c = curr[t] /\ State(hlock[c]) \in {0, 4} /\ State(w) \in {0, 4}
       /\ (w = hlock[c] + 4 \/ (w = hlock[c] - 4 /\ hpc[t] = "locked"))
  BY <1>1, <1>3, <1>4
<1> HIDE DEF c, w
<1>16. \A u \in HpThread : u # t /\ hpc[u] \in Reading /\ curr[u] = c
                             /\ Unchanged(u)' => Unchanged(u)
  BY <1>1, <1>4, <1>7, <1>8, <1>14, <1>15, ReleasedReaders
<1> QED
  BY <1>1, <1>2, <1>4, <1>7, <1>8, <1>9, <1>10, <1>11, <1>12, <1>13, <1>14, <1>15, <1>16, LockStep

\* The zombie enters the array, which has room for it.
LEMMA PushedCount ==
    ASSUME HpTypeOK, HpLive, NEW t \in HpThread, NEW n, zombies'[t] = zombies[t] \cup {n},
           \/ hpc[t] = "push"
           \/ Cardinality(zombies[t]) < ZombieCap
    PROVE  Cardinality(zombies'[t]) <= ZombieCap
<1>1. IsFiniteSet(zombies[t])
  <2>1. IsFiniteSet(HpNode)
    BY FS_Interval, HpNodesAssumption DEF HpNode
  <2> QED
    BY <2>1, FS_Subset DEF HpTypeOK
<1>2. Cardinality(zombies[t]) < ZombieCap
  BY DEF HpLive, SweepOK
<1>3. /\ Cardinality(zombies[t]) \in Nat
      /\ \/ Cardinality(zombies'[t]) = Cardinality(zombies[t])
         \/ Cardinality(zombies'[t]) = Cardinality(zombies[t]) + 1
  BY <1>1, FS_AddElement, FS_CardinalityType
<1> QED
  BY <1>2, <1>3, ZombieCapAssumption

LEMMA PushInv ==
    ASSUME ~StoreBuffer, HpTypeOK, HpLive, NEW t \in HpThread,
           NEW how \in {"again", "cleanup", "keep"}, Push(t, how)
    PROVE  HpTypeOK' /\ HpLive'
<1> DEFINE c == curr[t]
           n == hnext[c]
           w == IF how = "again" THEN hlock[c] ELSE hlock[c] + 4
           nl == IF how = "cleanup" THEN 0 ELSE begin_read(hlock[n])
           pc == IF how = "again" THEN "again" ELSE IF how = "keep" THEN "next" ELSE "at"
           nx == IF how = "cleanup" THEN HpNull ELSE n
           cl == IF how = "again" THEN curr_lock[t] ELSE w
<1>1. /\ hpc[t] \in {"push", "reclaim"} /\ PlaceOK(t) /\ HoldOK(t) /\ curr_idx[t] \in Slot
      /\ hpc[t] \in Holding
  BY DEF Push, HpAt, HpLive, HpTypeOK, Holding
<1>2. c \in HpNode /\ State(hlock[c]) = 4 /\ hlock[c] \in Nat /\ nxt[t] \in HpNode
  BY <1>1 DEF PlaceOK, HoldOK, HpTypeOK, Walking, Holding
<1>3. how # "cleanup" => n \in HpNode /\ Linked(n)
  <2>1. how # "cleanup" => n # HpNull
    BY DEF Push
  <2> QED
    BY <1>2, <2>1 DEF HpLive, LayerOK, Linked, HpTypeOK, Ref
<1>4. /\ w \in Nat /\ State(w) \in {0, 4} /\ begin_read(hlock[c]) <= begin_read(w)
      /\ how # "again" => State(w) = 0 /\ begin_read(w) = w
  BY <1>2, Words
<1>5. nl \in Nat /\ State(nl) = 0 /\ (how # "cleanup" => nl = begin_read(hlock[n]))
  <2>1. State(0) = 0
    BY DEF State, FREEZE_BIT
  <2> QED
    BY <1>3, <2>1, Words DEF HpTypeOK
<1>6. /\ UNCHANGED <<hnext, freed, contexts, curr, curr_idx, buffer, in_use, scan>>
      /\ zombies' = [zombies EXCEPT ![t] = @ \cup {nxt[t]}]
      /\ nxt' = [nxt EXCEPT ![t] = nx] /\ next_lock' = [next_lock EXCEPT ![t] = nl]
  BY DEF Push, sweeping
<1>7. hlock' = [hlock EXCEPT ![c] = w]
  <2>1. hlock = [hlock EXCEPT ![c] = hlock[c]]
    BY DEF HpTypeOK
  <2>2. CASE how = "again"
    BY <2>1, <2>2 DEF Push
  <2>3. CASE how # "again"
    BY <1>2, <2>3 DEF Push, release, LOCK_BIT
  <2> QED
    BY <2>2, <2>3
<1>8. hpc' = [hpc EXCEPT ![t] = pc]
  BY DEF Push, HpGoto
<1>9. curr_lock' = [curr_lock EXCEPT ![t] = cl]
  <2>1. curr_lock = [curr_lock EXCEPT ![t] = curr_lock[t]]
    BY DEF HpTypeOK
  <2>2. CASE how = "again"
    BY <2>1, <2>2 DEF Push
  <2>3. CASE how # "again"
    BY <1>2, <2>3 DEF Push, release, LOCK_BIT
  <2> QED
    BY <2>2, <2>3
<1>10. /\ how = "keep" => hazP' = [hazP EXCEPT ![t] = [hazP[t] EXCEPT ![1 - curr_idx[t]] = n]]
       /\ how # "keep" => hazP' = hazP
  BY DEF Push, next_idx
<1>11. cl \in Nat /\ State(cl) = 0 /\ nx \in Ref /\ pc \in HpPc /\ 1 - curr_idx[t] \in Slot
  <2>1. curr_lock[t] \in Nat /\ State(curr_lock[t]) = 0
    BY <1>1 DEF HpTypeOK, PlaceOK, Walking
  <2>2. nx \in Ref
    BY <1>3 DEF Ref
  <2>3. pc \in HpPc
    BY DEF HpPc, Walking, Reading, Holding
  <2> QED
    BY <1>1, <1>4, <2>1, <2>2, <2>3, OtherSlot
<1> HIDE DEF c, n, w, nl, pc, nx, cl
<1>12. HpTypeOK'
  <2>1. hazP' \in [HpThread -> [Slot -> Ref]]
    <3>1. CASE how = "keep"
      <4>1. n \in Ref /\ hazP[t] \in [Slot -> Ref]
        BY <1>3, <3>1 DEF HpTypeOK, Ref
      <4>2. [hazP[t] EXCEPT ![1 - curr_idx[t]] = n] \in [Slot -> Ref]
        BY <1>11, <4>1
      <4> QED
        BY <1>10, <3>1, <4>2 DEF HpTypeOK
    <3> QED
      BY <1>10, <3>1 DEF HpTypeOK
  <2>2. zombies' \in [HpThread -> SUBSET HpNode]
    BY <1>2, <1>6 DEF HpTypeOK
  <2>3. hlock' \in [HpNode -> Nat]
    BY <1>2, <1>4, <1>7 DEF HpTypeOK
  <2> QED
    BY <1>5, <1>6, <1>8, <1>9, <1>11, <2>1, <2>2, <2>3 DEF HpTypeOK
<1>13. /\ OnlyOf(t) /\ hlock'[c] = w /\ hpc'[t] = pc /\ curr'[t] = c /\ curr[t] = c
       /\ nxt'[t] = nx /\ next_lock'[t] = nl /\ curr_lock'[t] = cl
       /\ zombies'[t] = zombies[t] \cup {nxt[t]}
  <2>1. OnlyOf(t)
    BY <1>6, <1>8, <1>9, <1>10 DEF OnlyOf, HpTypeOK
  <2> QED
    BY <1>2, <1>6, <1>7, <1>8, <1>9, <2>1 DEF HpTypeOK, c
<1>14. /\ hazP'[t][curr_idx[t]] = hazP[t][curr_idx[t]]
       /\ hazP'[t][1 - curr_idx[t]] = IF how = "keep" THEN n ELSE hazP[t][1 - curr_idx[t]]
  BY <1>1, <1>10, <1>11, OtherSlot DEF HpTypeOK
<1>15. /\ (pc = "again" <=> how = "again") /\ (pc = "next" <=> how = "keep")
       /\ (pc = "at" <=> how = "cleanup") /\ pc \in {"again", "next", "at"}
       /\ how # "cleanup" => nx = n /\ n = hnext[c]
       /\ how = "again" => w = hlock[c] /\ cl = curr_lock[t]
       /\ how # "again" => w = hlock[c] + 4 /\ cl = w
  BY DEF pc, nx, n, w, cl
<1>16. how = "keep" => nl <= begin_read(hlock'[n])
  <2>1. how = "keep" => begin_read(hlock[n]) <= begin_read(hlock'[n])
    <3>1. CASE n = c
      BY <1>4, <1>13, <3>1
    <3>2. CASE n # c
      <4>1. how = "keep" => hlock'[n] = hlock[n] /\ begin_read(hlock[n]) \in Nat
        BY <1>3, <1>7, <3>2, Words DEF HpTypeOK
      <4> QED
        BY <4>1
    <3> QED
      BY <3>1, <3>2
  <2> QED
    BY <1>5, <2>1
<1>17. PlaceOK(t)'
  <2>1. cl <= begin_read(w) /\ hazP[t][curr_idx[t]] = c
        /\ hazP[t][1 - curr_idx[t]] = HpNull
    BY <1>1, <1>4, <1>13, <1>15 DEF PlaceOK, Walking, Holding
  <2>2. curr_idx'[t] = curr_idx[t]
    BY <1>6
  <2> QED
    BY <1>2, <1>3, <1>5, <1>11, <1>13, <1>14, <1>15, <1>16, <2>1, <2>2
       DEF PlaceOK, Walking, Reading, Holding
<1>18. HoldOK(t)' /\ ReadOK(t)'
  BY <1>1, <1>2, <1>6, <1>13, <1>15 DEF HoldOK, ReadOK, OnlyOf, Reading, Holding
<1>19. \A i \in Slot : Protects(t, i)' =>
            \/ Protects(t, i) /\ hazP'[t][i] = hazP[t][i]
            \/ hazP'[t][i] \in HpNode /\ Linked(hazP'[t][i])
  <2>1. curr_idx'[t] = curr_idx[t]
    BY <1>6
  <2> QED
    BY <1>1, <1>3, <1>13, <1>14, <1>15, <2>1 DEF Protects, Walking
<1>20. \A m \in HpNode : Owns(t, m)' <=> Owns(t, m)
  BY <1>1, <1>13, <1>15 DEF Owns
<1>21. Cardinality(zombies'[t]) <= ZombieCap
  BY <1>13, PushedCount DEF Push, HpAt
<1>22. \A u \in HpThread : u # t /\ hpc[u] \in Holding => curr[u] # c
  BY <1>1, <1>13 DEF HoldOK
<1>23. hpc[t] # "start" /\ hpc'[t] \notin {"locked", "start", "reclaim", "sweep", "push"}
       /\ State(hlock[c]) \in {0, 4} /\ c = curr[t]
  BY <1>1, <1>2, <1>13, <1>15
<1>24. \A u \in HpThread : u # t /\ hpc[u] \in Reading /\ curr[u] = c
                             /\ Unchanged(u)' => Unchanged(u)
  <2>1. CASE how # "again"
    BY <1>1, <1>2, <1>4, <1>12, <1>13, <1>15, <1>23, <2>1, ReleasedReaders
  <2>2. CASE how = "again"
    <3>1. \A v \in HpThread : hpc'[v] = "locked" => hpc[v] = "locked" /\ curr'[v] = curr[v]
      BY <1>13, <1>23 DEF OnlyOf
    <3>2. hlock'[c] = hlock[c]
      BY <1>13, <1>15, <2>2
    <3> QED
      BY <1>13, <3>1, <3>2 DEF Unchanged, OnlyOf
  <2> QED
    BY <2>1, <2>2
<1> QED
  BY <1>2, <1>4, <1>6, <1>7, <1>12, <1>13, <1>17, <1>18, <1>19, <1>20, <1>21, <1>22, <1>23, <1>24,
     LockStep

\* merge(): the successor of curr is unlinked and dies.
LEMMA UnlinkWorks ==
    ASSUME HpTypeOK, HpLive, NEW t \in HpThread, Unlink(t),
           try_upgrade_ok(hlock[nxt[t]], next_lock[t])
    PROVE  HpTypeOK' /\ HpLive'
<1> DEFINE c == curr[t]
           z == nxt[t]
<1>1. /\ hpc[t] \in {"locked", "again"} /\ PlaceOK(t) /\ HoldOK(t) /\ hpc[t] \in Holding
  BY DEF Unlink, HpAt, HpLive, Holding
<1>2. /\ c \in HpNode /\ State(hlock[c]) = 4 /\ hlock[c] \in Nat /\ hnext[c] = z
      /\ z \in HpNode /\ State(hlock[z]) = 0 /\ hlock[z] \in Nat /\ c # z
      /\ hnext[z] \in Ref
  BY <1>1 DEF PlaceOK, HoldOK, HpTypeOK, Walking, try_upgrade_ok
<1>3. /\ UNCHANGED <<freed, contexts, zombies, in_use, scan, hazP, buffer, curr_idx,
                     curr, nxt, curr_lock, next_lock>>
      /\ hnext' = [hnext EXCEPT ![c] = hnext[z]]
      /\ hlock' = [hlock EXCEPT ![z] = hlock[z] + 6]
      /\ hpc' = [hpc EXCEPT ![t] = "reclaim"]
  <2>1. hlock' = [hlock EXCEPT ![z] = die(acquire(hlock[z]))]
    BY DEF Unlink
  <2>2. die(acquire(hlock[z])) = hlock[z] + 6
    BY <1>2, WordOps
  <2> QED
    BY <2>1, <2>2 DEF Unlink, HpGoto, place, sweeping
<1>4. State(hlock[z] + 6) = 6 /\ begin_read(hlock[z] + 6) = hlock[z] /\ begin_read(hlock[z]) = hlock[z]
  BY <1>2, Words
<1> HIDE DEF c, z
<1>5. HpTypeOK'
  <2>1. hnext' \in [HpNode -> Ref] /\ hlock' \in [HpNode -> Nat] /\ hpc' \in [HpThread -> HpPc]
    BY <1>2, <1>3 DEF HpTypeOK, HpPc, Walking, Holding
  <2> QED
    BY <1>3, <2>1 DEF HpTypeOK
<1>6. /\ OnlyOf(t) /\ hpc'[t] = "reclaim" /\ curr[t] = c /\ nxt[t] = z
      /\ hnext'[c] = hnext[z] /\ hlock'[z] = hlock[z] + 6
      /\ \A m \in HpNode : (m # c => hnext'[m] = hnext[m]) /\ (m # z => hlock'[m] = hlock[m])
  <2>1. OnlyOf(t)
    BY <1>3 DEF OnlyOf, HpTypeOK
  <2> QED
    BY <1>2, <1>3, <2>1 DEF HpTypeOK, c, z
<1>7. /\ Linked(c) /\ Linked(z) /\ LayerOK /\ DeadOK
      /\ \A m \in HpNode : Linked(m)' <=> Linked(m) /\ m # z
      /\ \A m \in HpNode : State(hlock'[m]) = 6 <=> State(hlock[m]) = 6 \/ m = z
      /\ \A m \in HpNode : State(hlock'[m]) \in {0, 4, 6}
      /\ \A m \in HpNode : begin_read(hlock'[m]) = begin_read(hlock[m])
  BY <1>2, <1>4, <1>6 DEF HpLive, LayerOK, Linked
<1>8. LayerOK'
  <2>1. 0 \in HpNode /\ HpNull \notin HpNode
        /\ \A m \in HpNode : hnext[m] # HpNull => hnext[m] \in HpNode
    BY HpNodesAssumption DEF HpNode, HpTypeOK, Ref, HpNull
  <2>2. Linked(0)'
    BY <1>2, <1>7, <2>1 DEF LayerOK
  <2>3. hnext[z] # z /\ \A m \in HpNode : Linked(m) /\ m # c => hnext[m] # z
    BY <1>2, <1>7, <2>1 DEF LayerOK
  <2>4. ASSUME NEW m \in HpNode
        PROVE  hnext'[m] # 0 /\ (Linked(m)' /\ hnext'[m] # HpNull => Linked(hnext[m])')
    BY <1>2, <1>6, <1>7, <2>1, <2>3 DEF LayerOK
  <2>5. ASSUME NEW m \in HpNode, NEW k \in HpNode, Linked(m)', Linked(k)', m # k, hnext'[m] # HpNull
        PROVE  hnext'[m] # hnext'[k]
    BY <1>2, <1>6, <1>7, <2>1, <2>5 DEF LayerOK
  <2> QED
    BY <1>7, <2>2, <2>4, <2>5 DEF LayerOK
<1>9. DeadOK'
  <2>1. z \notin freed /\ \A u \in HpThread : ~Owns(u, z)
    BY <1>2, <1>7, LinkedIsSafe
  <2>2. \A u \in HpThread, m \in HpNode : Owns(u, m)' <=> Owns(u, m) \/ (u = t /\ m = z)
    BY <1>1, <1>3, <1>6 DEF Owns, OnlyOf
  <2>3. ASSUME NEW u \in HpThread, NEW m \in HpNode, m \in zombies'[u],
               hpc'[u] \in {"reclaim", "sweep", "push"}
        PROVE  nxt'[u] # m
    BY <1>3, <1>6, <1>7, <2>1, <2>3 DEF DeadOK, OnlyOf, Owns
  <2> QED
    BY <1>3, <1>7, <2>1, <2>2, <2>3 DEF DeadOK
<1>10. ContextsOK'
  BY <1>1, <1>3, <1>6 DEF HpLive, ContextsOK, OnlyOf
<1>11. ASSUME NEW u \in HpThread PROVE PlaceOK(u)'
  <2>1. PlaceOK(u)
    BY DEF HpLive
  <2>2. CASE u # t
    BY <1>3, <1>6, <1>7, <2>1, <2>2 DEF PlaceOK, OnlyOf, Walking, Reading
  <2>3. CASE u = t
    BY <1>1, <1>3, <1>6, <1>7, <2>1, <2>3 DEF PlaceOK, Walking, Reading, Holding
  <2> QED
    BY <2>2, <2>3
<1>12. ASSUME NEW u \in HpThread PROVE HoldOK(u)'
  <2>1. HoldOK(u) /\ PlaceOK(u)
    BY DEF HpLive
  <2>2. CASE u # t
    <3>1. hpc[u] \in Holding => curr[u] # c /\ curr[u] \in HpNode
      BY <1>1, <1>6, <2>1, <2>2 DEF HoldOK, PlaceOK, Walking
    <3>2. hpc[u] \in Holding => curr[u] # z
      BY <1>2, <2>1 DEF HoldOK
    <3> QED
      BY <1>3, <1>6, <2>1, <2>2, <3>1, <3>2 DEF HoldOK, OnlyOf, Holding
  <2>3. CASE u = t
    BY <1>1, <1>2, <1>3, <1>6, <2>3 DEF HoldOK, OnlyOf, Holding
  <2> QED
    BY <2>2, <2>3
<1>13. ASSUME NEW u \in HpThread PROVE ReadOK(u)'
  <2>1. CASE u # t /\ hpc[u] \in Reading
    <3>1. PlaceOK(u) /\ ReadOK(u) /\ curr_lock[u] \in Nat
          /\ hpc'[u] = hpc[u] /\ curr'[u] = curr[u] /\ curr_lock'[u] = curr_lock[u] /\ nxt'[u] = nxt[u]
      BY <1>6, <2>1 DEF HpLive, HpTypeOK, OnlyOf
    <3>2. curr[u] \in HpNode /\ State(curr_lock[u]) = 0 /\ State(curr_lock[u] + 4) = 4
      BY <2>1, <3>1, Words DEF PlaceOK, Walking
    <3>3. \A v \in HpThread : hpc'[v] = "locked" => hpc[v] = "locked" /\ v # t /\ curr'[v] = curr[v]
      BY <1>3, <1>6 DEF OnlyOf
    <3>4. \A v \in HpThread : hpc'[v] = "locked" => curr'[v] # c
      BY <1>1, <1>6, <3>3 DEF HoldOK, Holding
    <3>5. CASE curr[u] = c
      <4>1. ~Unchanged(u)'
        BY <1>2, <1>6, <3>1, <3>2, <3>4, <3>5 DEF Unchanged
      <4> QED
        BY <4>1 DEF ReadOK
    <3>6. CASE curr[u] = z
      <4>1. ~Unchanged(u)'
        BY <1>4, <1>6, <3>1, <3>2, <3>6 DEF Unchanged
      <4> QED
        BY <4>1 DEF ReadOK
    <3>7. CASE curr[u] # c /\ curr[u] # z
      <4>1. Unchanged(u)' => Unchanged(u)
        BY <1>6, <3>1, <3>2, <3>3, <3>7 DEF Unchanged
      <4> QED
        BY <1>6, <2>1, <3>1, <3>2, <3>7, <4>1 DEF ReadOK
    <3> QED
      BY <3>5, <3>6, <3>7
  <2>2. CASE u = t \/ hpc[u] \notin Reading
    BY <1>6, <2>2 DEF ReadOK, OnlyOf, Reading
  <2> QED
    BY <2>1, <2>2
<1>14. ASSUME NEW u \in HpThread PROVE ProtectOK(u)'
  <2>1. \A v \in HpThread : hpc'[v] = "sweep" => hpc[v] = "sweep"
    BY <1>6 DEF OnlyOf
  <2>2. \A i \in Slot : Protects(u, i)' => Protects(u, i)
    BY <1>1, <1>3, <1>6 DEF Protects, OnlyOf, Walking
  <2>3. \A v \in HpThread, i \in Slot : Pending(v, u, i) => Pending(v, u, i)'
    BY <1>3 DEF Pending
  <2> QED
    BY <1>3, <2>1, <2>2, <2>3 DEF HpLive, ProtectOK
<1>15. ASSUME NEW u \in HpThread PROVE SweepOK(u)'
  <2>1. SweepOK(u) /\ Past(u)' = Past(u) /\ Half(u)' = Half(u)
    BY <1>3 DEF HpLive, Past, Half
  <2>2. (hpc'[u] = "sweep" => hpc[u] = "sweep") /\ (hpc'[u] = "push" => hpc[u] = "push")
    BY <1>6 DEF OnlyOf
  <2> QED
    BY <1>3, <2>1, <2>2 DEF SweepOK
<1> QED
  BY <1>5, <1>8, <1>9, <1>10, <1>11, <1>12, <1>13, <1>14, <1>15 DEF HpLive

\* reclaim() and sweep() change only what t knows and keeps.
LEMMA SweepStep ==
    ASSUME HpTypeOK, HpLive, HpTypeOK', NEW t \in HpThread, OnlyOf(t),
           UNCHANGED <<hnext, hlock, contexts, hazP, curr_idx, curr, nxt, curr_lock, next_lock>>,
           hpc[t] \in {"reclaim", "sweep", "push"}, hpc'[t] \in {"reclaim", "sweep", "push"},
           DeadOK', SweepOK(t)', \A u \in HpThread : ProtectOK(u)'
    PROVE  HpLive'
<1>1. LayerOK' /\ ContextsOK'
  BY DEF HpLive, LayerOK, Linked, ContextsOK, OnlyOf
<1>2. ASSUME NEW u \in HpThread PROVE PlaceOK(u)' /\ HoldOK(u)'
  <2>1. PlaceOK(u) /\ HoldOK(u)
    BY DEF HpLive
  <2>2. \A v \in HpThread :
            \/ hpc'[v] = hpc[v]
            \/ v = t /\ hpc[v] \in {"reclaim", "sweep", "push"} /\ hpc'[v] \in {"reclaim", "sweep", "push"}
    BY DEF OnlyOf
  <2>3. PlaceOK(u)'
    BY <2>1, <2>2 DEF PlaceOK, Walking, Reading, Holding
  <2>4. HoldOK(u)'
    BY <2>1, <2>2 DEF HoldOK, Holding
  <2> QED
    BY <2>3, <2>4
<1>3. ASSUME NEW u \in HpThread PROVE ReadOK(u)'
  <2>1. Unchanged(u)' => Unchanged(u)
    BY DEF Unchanged, OnlyOf
  <2>2. hpc'[u] \in Reading => hpc[u] \in Reading
    BY DEF OnlyOf, Reading
  <2> QED
    BY <2>1, <2>2 DEF HpLive, ReadOK
<1>4. ASSUME NEW u \in HpThread PROVE SweepOK(u)'
  <2>1. CASE u # t
    <3>1. SweepOK(u) /\ Past(u)' = Past(u) /\ Half(u)' = Half(u)
      BY <2>1 DEF HpLive, Past, Half, OnlyOf
    <3> QED
      BY <2>1, <3>1 DEF SweepOK, OnlyOf
  <2> QED
    BY <2>1
<1> QED
  BY <1>1, <1>2, <1>3, <1>4 DEF HpLive

\* The nodes are finitely many, and so are the contexts a sweep is past.
LEMMA SmallSets ==
    ASSUME HpTypeOK, NEW t \in HpThread
    PROVE  /\ IsFiniteSet(zombies[t]) /\ Cardinality(zombies[t]) \in Nat
           /\ IsFiniteSet(in_use[t]) /\ Cardinality(in_use[t]) \in Nat
           /\ IsFiniteSet(in_use[t] \ {curr[t]}) /\ Cardinality(in_use[t] \ {curr[t]}) \in Nat
           /\ IsFiniteSet(Past(t)) /\ Cardinality(Past(t)) \in Nat
           /\ Cardinality(Past(t)) <= Cardinality(HpThread) - 1
           /\ Cardinality(HpThread) \in Nat
<1>1. IsFiniteSet(HpNode)
  BY FS_Interval, HpNodesAssumption DEF HpNode
<1>2. IsFiniteSet(zombies[t]) /\ IsFiniteSet(in_use[t]) /\ IsFiniteSet(in_use[t] \ {curr[t]})
  BY <1>1, FS_Subset DEF HpTypeOK
<1>3. IsFiniteSet(HpThread \ {t}) /\ Cardinality(HpThread \ {t}) = Cardinality(HpThread) - 1
  BY HpThreadAssumption, FS_RemoveElement
<1>4. Past(t) \subseteq HpThread \ {t}
  BY DEF Past
<1>5. IsFiniteSet(Past(t)) /\ Cardinality(Past(t)) <= Cardinality(HpThread \ {t})
  BY <1>3, <1>4, FS_Subset
<1> QED
  BY <1>2, <1>3, <1>5, HpThreadAssumption, FS_CardinalityType

LEMMA StartSweepInv ==
    ASSUME HpTypeOK, HpLive, NEW t \in HpThread, StartSweep(t)
    PROVE  HpTypeOK' /\ HpLive'
<1>1. /\ UNCHANGED <<hnext, hlock, freed, contexts, hazP, curr_idx, buffer, zombies,
                     curr, nxt, curr_lock, next_lock>>
      /\ hpc[t] = "reclaim" /\ hpc' = [hpc EXCEPT ![t] = "sweep"]
      /\ scan' = [scan EXCEPT ![t] = [left |-> contexts, i |-> 0]]
      /\ in_use' = [in_use EXCEPT ![t] = {}]
  BY DEF StartSweep, HpAt, HpGoto, heap, place
<1>2. HpTypeOK'
  <2>1. [left |-> contexts, i |-> 0] \in [left : Seq(HpThread), i : Slot]
    BY DEF HpTypeOK, Slot
  <2> QED
    BY <1>1, <2>1 DEF HpTypeOK, HpPc, Walking, Holding
<1>3. /\ OnlyOf(t) /\ hpc'[t] = "sweep" /\ in_use'[t] = {}
      /\ scan'[t].left = contexts /\ scan'[t].i = 0
  BY <1>1 DEF OnlyOf, HpTypeOK
<1>4. DeadOK'
  <2>1. \A u \in HpThread, m \in HpNode : Owns(u, m)' <=> Owns(u, m)
    BY <1>1, <1>3 DEF Owns, OnlyOf
  <2>2. ASSUME NEW u \in HpThread, NEW m \in HpNode, m \in zombies'[u],
               hpc'[u] \in {"reclaim", "sweep", "push"}
        PROVE  nxt'[u] # m
    BY <1>1, <1>3, <2>2 DEF HpLive, DeadOK, OnlyOf
  <2> QED
    BY <1>1, <2>1, <2>2 DEF HpLive, DeadOK
<1>5. SweepOK(t)'
  <2>1. Cardinality(in_use'[t] \ {curr'[t]}) = 0
    <3>1. in_use'[t] \ {curr'[t]} = {}
      BY <1>3
    <3> QED
      BY <3>1, FS_EmptySet
  <2>2. Half(t)' = 0
    BY <1>3 DEF Half
  <2>3. Cardinality(Past(t)') \in Nat
    <3>1. IsFiniteSet(Past(t)')
      BY HpThreadAssumption, FS_Subset DEF Past
    <3> QED
      BY <3>1, FS_CardinalityType
  <2>4. \A k, m \in 1 .. Len(scan'[t].left) : scan'[t].left[k] = scan'[t].left[m] => k = m
    BY <1>3 DEF HpLive, ContextsOK
  <2>5. Cardinality(zombies'[t]) <= ZombieCap
    BY <1>1 DEF HpLive, SweepOK
  <2> QED
    BY <1>3, <2>1, <2>2, <2>3, <2>4, <2>5 DEF SweepOK
<1>6. ASSUME NEW u \in HpThread PROVE ProtectOK(u)'
  <2> SUFFICES ASSUME NEW i \in Slot, Protects(u, i)'
               PROVE  /\ hazP[u][i] \notin freed
                      /\ \A v \in HpThread : hpc'[v] = "sweep" /\ hazP[u][i] \in zombies[v]
                            => hazP[u][i] \in in_use'[v] \/ Pending(v, u, i)'
    BY <1>1 DEF ProtectOK
  <2>1. Protects(u, i)
    BY <1>1, <1>3 DEF Protects, OnlyOf, Walking, Holding
  <2>2. hpc[u] # "start"
    BY <2>1 DEF Protects, Walking, Reading, Holding
  <2>3. PICK k \in 1 .. Len(contexts) : contexts[k] = u
    BY <2>2 DEF HpLive, ContextsOK
  <2>4. Pending(t, u, i)'
    BY <1>3, <2>3 DEF Pending, Slot
  <2>5. \A v \in HpThread : v # t => hpc'[v] = hpc[v] /\ in_use'[v] = in_use[v]
                                     /\ (Pending(v, u, i) => Pending(v, u, i)')
    BY <1>3 DEF OnlyOf, Pending
  <2> QED
    BY <2>1, <2>4, <2>5 DEF HpLive, ProtectOK
<1> QED
  BY <1>1, <1>2, <1>3, <1>4, <1>5, <1>6, SweepStep

\* One more node adds at most one.
LEMMA OneMore ==
    ASSUME NEW S, IsFiniteSet(S), NEW T, NEW p, T \subseteq S \cup {p}
    PROVE  Cardinality(T) \in Nat /\ Cardinality(S) \in Nat /\ Cardinality(T) <= Cardinality(S) + 1
<1>1. IsFiniteSet(S \cup {p}) /\ Cardinality(S) \in Nat
      /\ Cardinality(S \cup {p}) \in {Cardinality(S), Cardinality(S) + 1}
  BY FS_AddElement, FS_CardinalityType
<1>2. IsFiniteSet(T) /\ Cardinality(T) <= Cardinality(S \cup {p})
  BY <1>1, FS_Subset
<1> QED
  BY <1>1, <1>2, FS_CardinalityType

LEMMA ScanSlotInv ==
    ASSUME HpTypeOK, HpLive, NEW t \in HpThread, ScanSlot(t)
    PROVE  HpTypeOK' /\ HpLive'
<1> DEFINE left == scan[t].left
           q == Head(left)
           s == scan[t].i
           p == hazP[q][s]
           left2 == IF s = 1 THEN Tail(left) ELSE left
           s2 == 1 - s
<1>1. /\ left \in Seq(HpThread) /\ left # <<>> /\ s \in Slot /\ q \in HpThread /\ p \in Ref
      /\ left2 \in Seq(HpThread) /\ s2 \in Slot
  BY OtherSlot DEF HpTypeOK, ScanSlot
<1>2. /\ UNCHANGED <<hnext, hlock, freed, contexts, hazP, curr_idx, buffer, zombies, hpc,
                     curr, nxt, curr_lock, next_lock>>
      /\ hpc[t] = "sweep"
      /\ in_use' = [in_use EXCEPT ![t] = @ \cup ({p} \ {HpNull})]
      /\ scan' = [scan EXCEPT ![t] = [left |-> left2, i |-> s2]]
  <2>1. scan' = [scan EXCEPT ![t] = [left |-> left2, i |-> s2]]
    <3>1. CASE s = 1
      BY <3>1 DEF ScanSlot
    <3>2. CASE s = 0
      BY <3>2 DEF ScanSlot
    <3> QED
      BY <1>1, <3>1, <3>2 DEF Slot
  <2> QED
    BY <2>1 DEF ScanSlot, HpAt, heap, place
<1>3. /\ Len(left) \in Nat /\ Len(left) >= 1 /\ q = left[1]
      /\ s = 0 => left2 = left
      /\ s = 1 => Len(left2) = Len(left) - 1 /\ \A k \in 1 .. Len(left2) : left2[k] = left[k + 1]
  BY <1>1
<1>4. SweepOK(t) /\ PlaceOK(t) /\ Half(t) = (IF q # t THEN s ELSE 0)
  BY <1>1 DEF HpLive, Half
<1>5. \A k, m \in 1 .. Len(left) : left[k] = left[m] => k = m
  BY <1>2, <1>4 DEF SweepOK
<1>6. Cardinality(in_use[t] \ {curr[t]}) <= 2 * Cardinality(Past(t)) + Half(t)
  BY <1>2, <1>4 DEF SweepOK
<1>7. Past(t) = { u \in HpThread : u # t /\ \A k \in 1 .. Len(left) : left[k] # u }
  BY DEF Past
<1>8. q = t => p \in {curr[t], HpNull}
  <2>1. curr_idx[t] \in Slot /\ hazP[t][curr_idx[t]] = curr[t] /\ hazP[t][1 - curr_idx[t]] = HpNull
    BY <1>2, <1>4 DEF PlaceOK, HpTypeOK, Walking, Holding
  <2> QED
    BY <1>1, <2>1, OtherSlot
<1> HIDE DEF left, q, s, p, left2, s2
<1>9. HpTypeOK'
  <2>1. in_use' \in [HpThread -> SUBSET HpNode]
    BY <1>1, <1>2 DEF HpTypeOK, Ref
  <2>2. scan' \in [HpThread -> [left : Seq(HpThread), i : Slot]]
    BY <1>1, <1>2 DEF HpTypeOK
  <2> QED
    BY <1>2, <2>1, <2>2 DEF HpTypeOK
<1>10. /\ OnlyOf(t) /\ in_use'[t] = in_use[t] \cup ({p} \ {HpNull})
       /\ scan'[t].left = left2 /\ scan'[t].i = s2
  BY <1>2 DEF OnlyOf, HpTypeOK
<1>11. DeadOK'
  BY <1>2 DEF HpLive, DeadOK, Owns
<1>12. SweepOK(t)'
  <2>1. \A k, m \in 1 .. Len(left2) : left2[k] = left2[m] => k = m
    BY <1>1, <1>3, <1>5 DEF Slot
  <2>2. Half(t)' = (IF q # t THEN s2 ELSE 0) \/ (s = 1 /\ Half(t)' = 0)
    <3>1. CASE s = 0
      BY <1>3, <1>10, <3>1 DEF Half, q, left
    <3>2. CASE s = 1
      BY <1>10, <3>2 DEF Half, s2
    <3> QED
      BY <1>1, <3>1, <3>2 DEF Slot
  <2> DEFINE D == in_use[t] \ {curr[t]}
             D2 == in_use'[t] \ {curr[t]}
             P == Past(t)
             P2 == { u \in HpThread : u # t /\ \A k \in 1 .. Len(left2) : left2[k] # u }
  <2>3. Past(t)' = P2
    BY <1>10 DEF Past
  <2>4. IsFiniteSet(D) /\ IsFiniteSet(P) /\ Cardinality(D) \in Nat /\ Cardinality(P) \in Nat
    BY SmallSets
  <2>5. D2 \subseteq D \cup {p} /\ (q = t => D2 = D)
    BY <1>8, <1>10
  <2>6. s = 0 => P2 = P
    BY <1>3, <1>7
  <2>7. s = 1 /\ q = t => P2 = P
    <3>1. ASSUME s = 1, q = t, NEW u \in HpThread, u # t
          PROVE  (\A k \in 1 .. Len(left2) : left2[k] # u) <=> \A k \in 1 .. Len(left) : left[k] # u
      <4>1. ASSUME NEW k \in 1 .. Len(left), left[k] = u PROVE k - 1 \in 1 .. Len(left2) /\ left2[k - 1] = u
        <5>1. k # 1
          BY <1>3, <3>1, <4>1
        <5>2. k - 1 \in 1 .. Len(left2) /\ k = (k - 1) + 1
          BY <1>3, <3>1, <5>1
        <5> QED
          BY <1>3, <3>1, <4>1, <5>2
      <4>2. ASSUME NEW k \in 1 .. Len(left2) PROVE k + 1 \in 1 .. Len(left) /\ left[k + 1] = left2[k]
        BY <1>3, <3>1, <4>2
      <4> QED
        BY <4>1, <4>2
    <3> QED
      BY <1>7, <3>1
  <2>8. s = 1 /\ q # t => P2 = P \cup {q} /\ q \notin P
    <3>1. ASSUME s = 1, q # t, NEW u \in HpThread
          PROVE  (\A k \in 1 .. Len(left2) : left2[k] # u) <=> (u = q \/ \A k \in 1 .. Len(left) : left[k] # u)
      <4>1. ASSUME NEW k \in 1 .. Len(left), left[k] = u, k # 1
            PROVE  k - 1 \in 1 .. Len(left2) /\ left2[k - 1] = u
        BY <1>3, <3>1, <4>1
      <4>2. ASSUME NEW k \in 1 .. Len(left2)
            PROVE  k + 1 \in 1 .. Len(left) /\ left[k + 1] = left2[k] /\ left2[k] # q
        BY <1>3, <1>5, <3>1, <4>2
      <4> QED
        BY <1>3, <4>1, <4>2
    <3>2. q \notin P
      BY <1>3, <1>7
    <3> QED
      BY <1>1, <1>7, <3>1, <3>2
  <2> HIDE DEF D, D2, P, P2
  <2>9. Cardinality(D2) \in Nat /\ Cardinality(D2) <= Cardinality(D) + 1 /\ (q = t => Cardinality(D2) = Cardinality(D))
    BY <2>4, <2>5, OneMore
  <2>10. (s = 1 /\ q # t => Cardinality(P2) = Cardinality(P) + 1)
         /\ (~(s = 1 /\ q # t) => Cardinality(P2) = Cardinality(P))
    BY <1>1, <2>4, <2>6, <2>7, <2>8, FS_AddElement DEF Slot
  <2>11. Cardinality(D) <= 2 * Cardinality(P) + (IF q # t THEN s ELSE 0)
    BY <1>4, <1>6 DEF D, P
  <2>12. Cardinality(D2) <= 2 * Cardinality(P2) + Half(t)'
    <3>1. CASE q = t
      <4>1. Half(t)' = 0
        BY <2>2, <3>1
      <4> QED
        BY <2>4, <2>9, <2>10, <2>11, <3>1, <4>1
    <3>2. CASE q # t /\ s = 0
      <4>1. Half(t)' = 1
        BY <2>2, <3>2 DEF s2
      <4> QED
        BY <2>4, <2>9, <2>10, <2>11, <3>2, <4>1
    <3>3. CASE q # t /\ s = 1
      <4>1. Half(t)' = 0
        BY <2>2, <3>3 DEF s2
      <4> QED
        BY <2>4, <2>9, <2>10, <2>11, <3>3, <4>1
    <3> QED
      BY <1>1, <3>1, <3>2, <3>3 DEF Slot
  <2>13. Cardinality(in_use'[t] \ {curr'[t]}) <= 2 * Cardinality(Past(t)') + Half(t)'
    BY <1>2, <2>3, <2>12 DEF D2
  <2> QED
    BY <1>2, <1>4, <1>10, <2>1, <2>13 DEF SweepOK
<1>13. ASSUME NEW u \in HpThread PROVE ProtectOK(u)'
  <2> SUFFICES ASSUME NEW j \in Slot, Protects(u, j)
               PROVE  /\ hazP[u][j] \notin freed
                      /\ \A v \in HpThread : hpc[v] = "sweep" /\ hazP[u][j] \in zombies[v]
                            => hazP[u][j] \in in_use'[v] \/ Pending(v, u, j)'
    BY <1>2 DEF ProtectOK, Protects
  <2>1. \A v \in HpThread : v # t => in_use'[v] = in_use[v] /\ (Pending(v, u, j) => Pending(v, u, j)')
    BY <1>10 DEF OnlyOf, Pending
  <2>2. ASSUME Pending(t, u, j), hazP[u][j] \in HpNode
        PROVE  hazP[u][j] \in in_use'[t] \/ Pending(t, u, j)'
    <3>1. PICK k \in 1 .. Len(left) : left[k] = u /\ (k = 1 => j >= s)
      BY <2>2 DEF Pending, left, s
    <3>2. CASE k = 1 /\ j = s
      <4>1. hazP[u][j] = p /\ p # HpNull
        BY <1>3, <2>2, <3>1, <3>2, HpNodesAssumption DEF p, HpNode, HpNull
      <4> QED
        BY <1>10, <4>1
    <3>3. CASE k = 1 /\ j # s
      <4>1. s = 0 /\ j = 1
        BY <1>1, <3>1, <3>3 DEF Slot
      <4> QED
        BY <1>3, <1>10, <3>1, <4>1 DEF Pending, s2
    <3>4. CASE k # 1 /\ s = 0
      BY <1>3, <1>10, <3>1, <3>4 DEF Pending
    <3>5. CASE k # 1 /\ s = 1
      <4>1. k - 1 \in 1 .. Len(left2) /\ left2[k - 1] = u /\ s2 = 0 /\ j >= s2
        BY <1>3, <3>1, <3>5 DEF s2, Slot
      <4> QED
        BY <1>10, <4>1 DEF Pending
    <3> QED
      BY <1>1, <3>2, <3>3, <3>4, <3>5 DEF Slot
  <2>3. zombies[t] \subseteq HpNode /\ in_use[t] \subseteq in_use'[t]
    BY <1>10 DEF HpTypeOK
  <2>4. ProtectOK(u)
    BY DEF HpLive
  <2> QED
    BY <1>2, <2>1, <2>2, <2>3, <2>4 DEF ProtectOK
<1> QED
  BY <1>2, <1>9, <1>10, <1>11, <1>12, <1>13, SweepStep

LEMMA SweepInv ==
    ASSUME HpTypeOK, HpLive, NEW t \in HpThread, Sweep(t)
    PROVE  HpTypeOK' /\ HpLive'
<1> DEFINE gone == zombies[t] \ in_use[t]
           kept == zombies[t] \cap in_use[t]
<1>1. /\ UNCHANGED <<hnext, hlock, contexts, hazP, curr_idx, buffer, curr, nxt, curr_lock, next_lock, scan>>
      /\ hpc[t] = "sweep" /\ scan[t].left = <<>> /\ hpc' = [hpc EXCEPT ![t] = "push"]
      /\ freed' = freed \cup gone
      /\ zombies' = [zombies EXCEPT ![t] = kept]
      /\ in_use' = [in_use EXCEPT ![t] = {}]
  BY DEF Sweep, HpAt, HpGoto, place
<1>2. HpTypeOK'
  BY <1>1 DEF HpTypeOK, HpPc, Walking, Holding
<1>3. OnlyOf(t) /\ hpc'[t] = "push" /\ zombies'[t] = kept
  BY <1>1 DEF OnlyOf, HpTypeOK
<1>4. /\ \A m \in HpNode : Owns(t, m)' <=> Owns(t, m) /\ m \notin gone
      /\ \A m \in HpNode : m \in gone => Owns(t, m)
      /\ \A u \in HpThread, m \in HpNode : u # t => (Owns(u, m)' <=> Owns(u, m))
  BY <1>1, <1>3 DEF HpLive, DeadOK, Owns, OnlyOf
<1>5. DeadOK'
  <2>1. ASSUME NEW u \in HpThread, NEW m \in HpNode, m \in zombies'[u],
               hpc'[u] \in {"reclaim", "sweep", "push"}
        PROVE  nxt'[u] # m
    BY <1>1, <1>3, <2>1 DEF HpLive, DeadOK, OnlyOf
  <2>2. ASSUME NEW m \in HpNode
        PROVE  State(hlock[m]) = 6 <=> m \in freed' \/ \E u \in HpThread : Owns(u, m)'
    BY <1>1, <1>4, <2>2 DEF HpLive, DeadOK
  <2>3. ASSUME NEW m \in HpNode, NEW u \in HpThread, Owns(u, m)'
        PROVE  m \notin freed' /\ \A v \in HpThread : v # u => ~Owns(v, m)'
    BY <1>1, <1>4, <2>3 DEF HpLive, DeadOK
  <2> QED
    BY <1>1, <2>1, <2>2, <2>3 DEF DeadOK
<1>6. SweepOK(t)'
  <2>1. curr[t] \notin zombies[t]
    <3>1. curr[t] \in HpNode /\ Linked(curr[t])
      BY <1>1 DEF HpLive, PlaceOK, HoldOK, Linked, Walking, Holding
    <3> QED
      BY <3>1, LinkedIsSafe DEF HpLive, Owns
  <2>2. kept \subseteq in_use[t] \ {curr[t]}
    BY <2>1
  <2>3. Half(t) = 0
    BY <1>1 DEF Half
  <2>4. Cardinality(in_use[t] \ {curr[t]}) <= 2 * Cardinality(Past(t)) + Half(t)
    BY <1>1 DEF HpLive, SweepOK
  <2> HIDE DEF kept
  <2>5. Cardinality(kept) \in Nat /\ Cardinality(kept) <= Cardinality(in_use[t] \ {curr[t]})
    BY <2>2, SmallSets, FS_Subset, FS_CardinalityType
  <2>6. Cardinality(kept) < ZombieCap
    <3> DEFINE a == Cardinality(in_use[t] \ {curr[t]})
               b == Cardinality(Past(t))
               all == Cardinality(HpThread)
    <3>1. a \in Nat /\ b \in Nat /\ all \in Nat /\ b <= all - 1
      BY SmallSets
    <3>2. a <= 2 * b /\ Cardinality(kept) <= a /\ Cardinality(kept) \in Nat
          /\ ZombieCap \in Nat /\ ZombieCap > 2 * (all - 1)
      BY <2>3, <2>4, <2>5, <3>1, ZombieCapAssumption
    <3> HIDE DEF a, b, all
    <3> QED
      BY <3>1, <3>2
  <2> QED
    BY <1>3, <2>5, <2>6, ZombieCapAssumption DEF SweepOK
<1>7. ASSUME NEW u \in HpThread PROVE ProtectOK(u)'
  <2> SUFFICES ASSUME NEW j \in Slot, Protects(u, j)'
               PROVE  /\ hazP[u][j] \notin freed'
                      /\ \A v \in HpThread : hpc'[v] = "sweep" /\ hazP[u][j] \in zombies'[v]
                            => hazP[u][j] \in in_use'[v] \/ Pending(v, u, j)'
    BY <1>1 DEF ProtectOK
  <2>1. Protects(u, j) /\ ProtectOK(u)
    BY <1>1, <1>3 DEF HpLive, Protects, OnlyOf, Walking, Holding
  <2>2. ~Pending(t, u, j)
    BY <1>1 DEF Pending
  <2>3. hazP[u][j] \notin freed'
    BY <1>1, <2>1, <2>2 DEF ProtectOK
  <2>4. \A v \in HpThread : hpc'[v] = "sweep" => v # t
    BY <1>3
  <2>5. \A v \in HpThread : v # t => /\ hpc'[v] = hpc[v] /\ in_use'[v] = in_use[v]
                                     /\ zombies'[v] = zombies[v]
                                     /\ (Pending(v, u, j) => Pending(v, u, j)')
    BY <1>3 DEF OnlyOf, Pending
  <2> QED
    BY <2>1, <2>3, <2>4, <2>5 DEF ProtectOK
<1> QED
  BY <1>1, <1>2, <1>3, <1>5, <1>6, <1>7, SweepStep
-----------------------------------------------------------------------------
LEMMA HpInitInv == HpInit => HpInv
<1> SUFFICES ASSUME HpInit PROVE HpTypeOK /\ HpLive
  BY DEF HpInv
<1>1. /\ 0 \in HpNode /\ HpNull \in Ref /\ HpNull \notin HpNode /\ <<>> \in Seq(HpThread)
      /\ \A n \in HpNode : n \in Nat /\ n # HpNodes => n + 1 \in HpNode
  BY HpNodesAssumption DEF HpNode, HpNull, Ref
<1>2. hlock = [n \in HpNode |-> 1] /\ State(1) = 0
  BY DEF HpInit, new_lock, ORPHAN_BIT, State, FREEZE_BIT
<1>3. HpTypeOK
  <2>1. hnext \in [HpNode -> Ref]
    BY <1>1 DEF HpInit, Ref, HpNode
  <2>2. scan \in [HpThread -> [left : Seq(HpThread), i : Slot]]
    BY <1>1 DEF HpInit, Slot
  <2>3. hazP \in [HpThread -> [Slot -> Ref]] /\ curr_idx \in [HpThread -> Slot]
    BY <1>1 DEF HpInit, Slot
  <2>4. hpc \in [HpThread -> HpPc]
    BY DEF HpInit, HpPc
  <2>5. curr \in [HpThread -> Ref] /\ nxt \in [HpThread -> Ref]
        /\ curr_lock \in [HpThread -> Nat] /\ next_lock \in [HpThread -> Nat]
    BY <1>1 DEF HpInit
  <2>6. zombies \in [HpThread -> SUBSET HpNode] /\ in_use \in [HpThread -> SUBSET HpNode]
    BY DEF HpInit
  <2>7. freed \subseteq HpNode /\ contexts \in Seq(HpThread) /\ hlock \in [HpNode -> Nat]
        /\ buffer = [t \in HpThread |-> <<>>]
    BY <1>1, <1>2 DEF HpInit
  <2> QED
    BY <2>1, <2>2, <2>3, <2>4, <2>5, <2>6, <2>7 DEF HpTypeOK
<1>4. LayerOK
  <2>1. \A n \in HpNode : Linked(n)
    BY <1>2 DEF Linked
  <2>2. \A n \in HpNode : n \in Nat /\ hnext[n] = IF n = HpNodes THEN -1 ELSE n + 1
    BY DEF HpInit, HpNode, HpNull
  <2>3. ASSUME NEW n \in HpNode
        PROVE  /\ hnext[n] # 0 /\ (hnext[n] # HpNull => hnext[n] \in HpNode)
               /\ \A m \in HpNode : n # m /\ hnext[n] # HpNull => hnext[n] # hnext[m]
    BY <1>1, <2>2, <2>3 DEF HpNull
  <2> QED
    BY <1>1, <1>2, <2>1, <2>3 DEF LayerOK
<1>5. \A t \in HpThread : hpc[t] = "start" /\ zombies[t] = {}
  BY DEF HpInit
<1>6. DeadOK /\ ContextsOK
  <2>1. freed = {} /\ contexts = <<>> /\ Len(contexts) = 0
    BY DEF HpInit
  <2>2. DeadOK
    BY <1>2, <1>5, <2>1 DEF DeadOK, Owns
  <2>3. ContextsOK
    BY <1>5, <2>1 DEF ContextsOK
  <2> QED
    BY <2>2, <2>3
<1>7. ASSUME NEW t \in HpThread
      PROVE  PlaceOK(t) /\ HoldOK(t) /\ ReadOK(t) /\ ProtectOK(t) /\ SweepOK(t)
  <2>1. Cardinality(zombies[t]) = 0
    BY <1>5, FS_EmptySet
  <2>2. SweepOK(t)
    BY <1>5, <2>1, ZombieCapAssumption DEF SweepOK
  <2>3. \A i \in Slot : hazP[t][i] = HpNull
    BY DEF HpInit, Slot
  <2> QED
    BY <1>5, <2>2, <2>3
       DEF PlaceOK, HoldOK, ReadOK, ProtectOK, Protects, Walking, Reading, Holding
<1> QED
  BY <1>3, <1>4, <1>6, <1>7 DEF HpLive

LEMMA HpNextInv ==
    ASSUME ~StoreBuffer, HpInv, [HpNext]_hpVars
    PROVE  HpInv'
<1>1. CASE UNCHANGED hpVars
  <2>1. HpTypeOK'
    BY <1>1 DEF HpInv, HpTypeOK, hpVars
  <2>2. HpOver => HpOver'
    BY <1>1 DEF HpOver, hpVars
  <2>3. HpLive => HpLive'
    <3>1. LayerOK => LayerOK'
      BY <1>1 DEF hpVars, LayerOK, Linked
    <3>2. DeadOK => DeadOK'
      BY <1>1 DEF hpVars, DeadOK, Owns
    <3>3. ContextsOK => ContextsOK'
      BY <1>1 DEF hpVars, ContextsOK
    <3>4. ASSUME NEW t \in HpThread
          PROVE  /\ PlaceOK(t) /\ HoldOK(t) /\ ReadOK(t) => PlaceOK(t)' /\ HoldOK(t)' /\ ReadOK(t)'
                 /\ ProtectOK(t) => ProtectOK(t)'
      BY <1>1 DEF hpVars, PlaceOK, HoldOK, ReadOK, Unchanged, ProtectOK, Protects, Pending
    <3>5. ASSUME NEW t \in HpThread PROVE SweepOK(t) => SweepOK(t)'
      BY <1>1 DEF hpVars, SweepOK, Past, Half
    <3> QED
      BY <3>1, <3>2, <3>3, <3>4, <3>5 DEF HpLive
  <2> QED
    BY <2>1, <2>2, <2>3 DEF HpInv
<1>2. CASE TearDown
  <2>1. HpTypeOK'
    BY <1>2 DEF HpInv, HpTypeOK, TearDown, place, sweeping, HpPc
  <2>2. HpOver'
    BY <1>2 DEF HpOver, TearDown
  <2> QED
    BY <2>1, <2>2 DEF HpInv
<1>3. ASSUME NEW t \in HpThread,
             \/ InitContext(t) \/ StartWalk(t) \/ StopWalk(t)
             \/ ReadNext(t) \/ TakeNext(t) \/ ConfirmTaken(t) \/ BeginNext(t)
             \/ RuleOutNext(t) \/ Advance(t)
             \/ LockCurr(t) \/ Unlink(t) \/ StartSweep(t) \/ ScanSlot(t) \/ Sweep(t)
             \/ \E how \in {"again", "cleanup", "keep"} : Push(t, how)
      PROVE  HpInv'
  <2>1. hpc[t] # "done"
    BY <1>3 DEF InitContext, StartWalk, StopWalk, ReadNext, TakeNext, ConfirmTaken, BeginNext,
               RuleOutNext, Advance, LockCurr, Unlink, StartSweep, ScanSlot, Sweep, Push, HpAt
  <2>2. HpTypeOK /\ HpLive
    BY <2>1 DEF HpInv, HpOver
  <2>3. CASE StopWalk(t)
    BY <2>2, <2>3, ForgetStep DEF StopWalk, HpAt, heap, sweeping, HpInv
  <2>4. CASE Unlink(t)
    BY <2>2, <2>4, UnlinkFails, UnlinkWorks DEF HpInv
  <2>5. CASE \E how \in {"again", "cleanup", "keep"} : Push(t, how)
    BY <2>2, <2>5, PushInv DEF HpInv
  <2> QED
    BY <1>3, <2>2, <2>3, <2>4, <2>5, InitContextInv, StartWalkInv, ReadNextInv, TakeNextInv,
       ConfirmTakenInv, RuleOutNextInv, AdvanceInv, LockCurrInv, StartSweepInv, ScanSlotInv,
       SweepInv DEF HpInv
<1> QED
  BY <1>1, <1>2, <1>3 DEF HpNext

LEMMA HpInvariant ==
    ASSUME ~StoreBuffer
    PROVE  HpSpec => []HpInv
<1>1. HpInit => HpInv
  BY HpInitInv
<1>2. HpInv /\ [HpNext]_hpVars => HpInv'
  BY HpNextInv
<1> QED
  BY <1>1, <1>2, PTL DEF HpSpec

\* While the hazard pointers a thread stores are visible at once, no thread ever
\* stands on a deleted node or has validated its way to one: check_next() may use
\* curr and next without a lock (skipvector.h:247-253), and a sweep that reads
\* the others' slots one after the other deletes none of them (hp_manager.h:105).
THEOREM NoUseAfterFreeSound ==
    ASSUME ~StoreBuffer
    PROVE  HpSpec => []NoUseAfterFree
<1>1. HpInv => NoUseAfterFree
  <2> SUFFICES ASSUME HpTypeOK, HpLive \/ HpOver, NEW t \in HpThread
               PROVE  /\ hpc[t] \notin {"start", "idle", "done"} => curr[t] \notin freed
                      /\ hpc[t] \in {"confirmed", "next", "locked", "again"} => nxt[t] \notin freed
    BY DEF HpInv, NoUseAfterFree
  <2>1. CASE HpOver
    BY <2>1 DEF HpOver
  <2>2. CASE HpLive
    <3>1. PlaceOK(t) /\ ProtectOK(t) /\ HoldOK(t) /\ curr_idx[t] \in Slot /\ hpc[t] \in HpPc
      BY <2>2 DEF HpLive, HpTypeOK
    <3>2. hpc[t] \in Walking => curr[t] \notin freed
      BY <3>1 DEF ProtectOK, Protects, PlaceOK
    <3>3. hpc[t] \in {"confirmed", "next"} => nxt[t] \notin freed
      BY <3>1, OtherSlot DEF ProtectOK, Protects, PlaceOK
    <3>4. hpc[t] \in {"locked", "again"} => nxt[t] \notin freed
      <4> SUFFICES ASSUME hpc[t] \in {"locked", "again"} PROVE nxt[t] \notin freed
        OBVIOUS
      <4>1. curr[t] \in HpNode /\ Linked(curr[t]) /\ hnext[curr[t]] = nxt[t] /\ nxt[t] \in HpNode
        BY <3>1 DEF PlaceOK, HoldOK, Linked, Walking, Holding
      <4>2. nxt[t] # HpNull
        BY <4>1, HpNodesAssumption DEF HpNode, HpNull
      <4>3. Linked(nxt[t])
        BY <2>2, <4>1, <4>2 DEF HpLive, LayerOK
      <4> QED
        BY <2>2, <4>1, <4>3, LinkedIsSafe DEF HpLive
    <3> QED
      BY <3>1, <3>2, <3>3, <3>4 DEF HpPc
  <2> QED
    BY <2>1, <2>2
<1> QED
  BY <1>1, HpInvariant, PTL

\* Under the same condition every unlinked node is with one thread or deleted,
\* never both, and no zombie array overflows: the sweep of a full array always
\* frees room for the zombie reclaim() was called with (hp_manager.h:87-101).
THEOREM NodesAccountedSound ==
    ASSUME ~StoreBuffer
    PROVE  HpSpec => []NodesAccounted
<1>1. HpInv => NodesAccounted
  <2> SUFFICES ASSUME HpTypeOK, HpLive
               PROVE  NodesAccounted
    BY DEF HpInv, HpOver, NodesAccounted
  <2>1. DeadOK /\ \A t \in HpThread : PlaceOK(t) /\ SweepOK(t)
    BY DEF HpLive
  <2>2. \A t \in HpThread : Cardinality(zombies[t]) <= ZombieCap
    BY <2>1 DEF SweepOK
  <2>3. ASSUME NEW t \in HpThread, NEW n
        PROVE  /\ n \in Unpushed(t) <=> hpc[t] \in {"reclaim", "sweep", "push"} /\ nxt[t] = n
               /\ n \in zombies[t] \cup Unpushed(t) <=> Owns(t, n)
               /\ Owns(t, n) => n \in HpNode
    BY <2>1, <2>3 DEF Unpushed, Owns, PlaceOK, HpTypeOK, Holding
  <2>4. ASSUME NEW t \in HpThread
        PROVE  zombies[t] \cap freed = {} /\ Unpushed(t) \cap (zombies[t] \cup freed) = {}
    BY <2>1, <2>3, <2>4 DEF DeadOK, Owns
  <2>5. ASSUME NEW t \in HpThread, NEW u \in HpThread, t # u
        PROVE  zombies[t] \cap (zombies[u] \cup Unpushed(u)) = {}
    BY <2>1, <2>3, <2>5 DEF DeadOK, Owns
  <2>6. { n \in HpNode : is_dead(hlock[n]) }
          = freed \cup UNION { zombies[t] \cup Unpushed(t) : t \in HpThread }
    <3>1. \A n \in HpNode : is_dead(hlock[n]) <=> State(hlock[n]) = 6
      BY WordOps DEF HpTypeOK
    <3>2. \A n : n \in UNION { zombies[t] \cup Unpushed(t) : t \in HpThread }
                   <=> \E t \in HpThread : Owns(t, n)
      BY <2>3
    <3> QED
      BY <2>1, <2>3, <3>1, <3>2 DEF DeadOK, HpTypeOK
  <2> QED
    BY <2>2, <2>4, <2>5, <2>6 DEF NodesAccounted
<1> QED
  BY <1>1, HpInvariant, PTL
=============================================================================

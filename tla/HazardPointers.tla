--------------------------- MODULE HazardPointers ---------------------------
(***************************************************************************)
(* Hazard pointers (hp_manager.h, hp_thread_context.h) under the traversal  *)
(* that relies on them: threads walk a layer of the skip vector hand over   *)
(* hand as check_next() does, unlink the nodes that should be merged and    *)
(* reclaim them, sweeping when their zombie array is full.                  *)
(*                                                                          *)
(* A hazard pointer is stored with memory_order_relaxed.  With StoreBuffer  *)
(* such a store may stay in the thread's store buffer, past later loads of  *)
(* the thread, until it drains or the thread executes a locked instruction, *)
(* as on x86; without it stores take effect at once.                        *)
(***************************************************************************)
EXTENDS SvLock, Sequences, FiniteSets

CONSTANTS
    HpThread,       \* the threads
    HpNodes,        \* bound: nodes 1 .. HpNodes follow the head, node 0
    ZombieCap,      \* ZOMBIE_CAP
    StoreBuffer     \* whether relaxed stores are buffered

\* zombies_capacity() is ten times the hazard pointers of all threads; more
\* than the other threads can hold is what reclaim() needs.
ASSUME HpThreadAssumption == IsFiniteSet(HpThread)
ASSUME HpNodesAssumption == HpNodes \in Nat
ASSUME ZombieCapAssumption == ZombieCap \in Nat /\ ZombieCap > 2 * (Cardinality(HpThread) - 1)
ASSUME StoreBufferAssumption == StoreBuffer \in BOOLEAN

HpNull == -1
HpNode == 0 .. HpNodes

VARIABLES
    hnext,      \* hnext[n]: the successor in the layer
    hlock,       \* hlock[n]: the node's sv_lock word
    freed,      \* the deleted nodes
    contexts,   \* the list of thread contexts, newest first
    hazP,       \* hazP[t][i]: the two hazard pointers, i \in {0, 1}
    curr_idx,   \* curr_idx[t]
    buffer,     \* buffer[t]: relaxed stores of t not yet visible
    zombies,    \* zombies[t]: unlinked nodes t has to delete
    hpc,        \* hpc[t]: where thread t is
    curr, nxt,  \* curr[t], nxt[t]: the two nodes it works on
    curr_lock, next_lock,   \* the lock values it began to read them with
    in_use, scan            \* of a sweep: what it saw, the contexts it still has to
                            \* read (left) and the slot it reads next (i)

hpVars == <<hnext, hlock, freed, contexts, hazP, curr_idx, buffer, zombies, hpc,
            curr, nxt, curr_lock, next_lock, in_use, scan>>
heap == <<hnext, hlock, freed>>
sweeping == <<in_use, scan>>
place == <<curr, nxt, curr_lock, next_lock>>

HpInit ==
    /\ hnext = [n \in HpNode |-> IF n = HpNodes THEN HpNull ELSE n + 1]
    /\ hlock = [n \in HpNode |-> new_lock(TRUE)]
    /\ freed = {}
    /\ contexts = <<>>
    /\ hazP = [t \in HpThread |-> [i \in {0, 1} |-> HpNull]]
    /\ curr_idx = [t \in HpThread |-> 0]
    /\ buffer = [t \in HpThread |-> <<>>]
    /\ zombies = [t \in HpThread |-> {}]
    /\ hpc = [t \in HpThread |-> "start"]
    /\ curr = [t \in HpThread |-> HpNull] /\ nxt = curr
    /\ curr_lock = [t \in HpThread |-> 0] /\ next_lock = curr_lock
    /\ in_use = [t \in HpThread |-> {}]
    /\ scan = [t \in HpThread |-> [left |-> <<>>, i |-> 0]]

\* --- the hazard pointer operations -----------------------------------------

\* The slots h after the relaxed stores of one call, which makes one or two.
Written(h, stores) ==
    LET first == stores[1] last == stores[Len(stores)] IN
    [i \in {0, 1} |-> IF i = last[1] THEN last[2] ELSE IF i = first[1] THEN first[2] ELSE h[i]]

Store(t, stores) ==
    IF StoreBuffer
    THEN buffer' = [buffer EXCEPT ![t] = @ \o stores] /\ UNCHANGED hazP
    ELSE hazP' = [hazP EXCEPT ![t] = Written(@, stores)] /\ UNCHANGED buffer

Drained(t) == buffer[t] = <<>>

next_idx(t) == 1 - curr_idx[t]

take_first(t, p) == Store(t, <<<<curr_idx[t], p>>>>) /\ UNCHANGED curr_idx
take_next(t, p) == Store(t, <<<<next_idx(t), p>>>>) /\ UNCHANGED curr_idx
drop_next(t) == Store(t, <<<<next_idx(t), HpNull>>>>) /\ UNCHANGED curr_idx
drop_curr(t) == /\ Store(t, <<<<curr_idx[t], HpNull>>>>)
                /\ curr_idx' = [curr_idx EXCEPT ![t] = next_idx(t)]
drop_next_then_curr(t) == /\ Store(t, <<<<next_idx(t), HpNull>>, <<curr_idx[t], HpNull>>>>)
                          /\ curr_idx' = [curr_idx EXCEPT ![t] = next_idx(t)]

Drain(t) ==
    /\ ~Drained(t)
    /\ hazP' = [hazP EXCEPT ![t] = Written(@, <<Head(buffer[t])>>)]
    /\ buffer' = [buffer EXCEPT ![t] = Tail(@)]
    /\ UNCHANGED <<hnext, hlock, freed, contexts, curr_idx, zombies, hpc, place, sweeping>>

\* --- the traversal ---------------------------------------------------------

HpAt(t, pc) == hpc[t] = pc
HpGoto(t, pc) == hpc' = [hpc EXCEPT ![t] = pc]
HpConfirm(n, v) == confirm_read(hlock[n], v)

\* init_context(): the compare-and-swap pushes the context on the list.
InitContext(t) ==
    /\ HpAt(t, "start") /\ Drained(t) /\ HpGoto(t, "idle")
    /\ contexts' = <<t>> \o contexts
    /\ UNCHANGED <<heap, hazP, curr_idx, buffer, zombies, place, sweeping>>

StartWalk(t) ==
    /\ HpAt(t, "idle") /\ HpGoto(t, "at")
    /\ take_first(t, 0)
    /\ curr' = [curr EXCEPT ![t] = 0]
    /\ curr_lock' = [curr_lock EXCEPT ![t] = begin_read(hlock[0])]
    /\ UNCHANGED <<heap, contexts, zombies, nxt, next_lock, sweeping>>

HpForget(t) ==
    /\ HpGoto(t, "idle")
    /\ curr' = [curr EXCEPT ![t] = HpNull] /\ nxt' = [nxt EXCEPT ![t] = HpNull]
    /\ curr_lock' = [curr_lock EXCEPT ![t] = 0] /\ next_lock' = [next_lock EXCEPT ![t] = 0]

\* The operation is done, or its sequence lock check failed and it starts over.
StopWalk(t) ==
    /\ HpAt(t, "at") /\ drop_curr(t) /\ HpForget(t)
    /\ UNCHANGED <<heap, contexts, zombies, sweeping>>

\* next = curr->next: from here on the successor may be unlinked and deleted.
ReadNext(t) ==
    /\ HpAt(t, "at") /\ hnext[curr[t]] # HpNull /\ HpGoto(t, "read")
    /\ nxt' = [nxt EXCEPT ![t] = hnext[curr[t]]]
    /\ UNCHANGED <<heap, contexts, hazP, curr_idx, buffer, zombies, curr, curr_lock, next_lock, sweeping>>

TakeNext(t) ==
    /\ HpAt(t, "read") /\ HpGoto(t, "taken")
    /\ take_next(t, nxt[t])
    /\ UNCHANGED <<heap, contexts, zombies, place, sweeping>>

\* "Take a hazard pointer on next, then make sure curr hasn't changed."
ConfirmTaken(t) ==
    /\ HpAt(t, "taken")
    /\ IF HpConfirm(curr[t], curr_lock[t])
       THEN HpGoto(t, "confirmed") /\ UNCHANGED <<place, hazP, curr_idx, buffer>>
       ELSE drop_next_then_curr(t) /\ HpForget(t)
    /\ UNCHANGED <<heap, contexts, zombies, sweeping>>

BeginNext(t) ==
    /\ HpAt(t, "confirmed") /\ HpGoto(t, "next")
    /\ next_lock' = [next_lock EXCEPT ![t] = begin_read(hlock[nxt[t]])]
    /\ UNCHANGED <<heap, contexts, hazP, curr_idx, buffer, zombies, curr, nxt, curr_lock, sweeping>>

\* The key sought is before next: the walk stays on curr if next is unchanged.
RuleOutNext(t) ==
    /\ HpAt(t, "next")
    /\ IF HpConfirm(nxt[t], next_lock[t])
       THEN /\ drop_next(t) /\ HpGoto(t, "at") /\ UNCHANGED <<curr, curr_lock>>
            /\ nxt' = [nxt EXCEPT ![t] = HpNull] /\ next_lock' = [next_lock EXCEPT ![t] = 0]
       ELSE drop_next_then_curr(t) /\ HpForget(t)
    /\ UNCHANGED <<heap, contexts, zombies, sweeping>>

\* next is not merged: curr is confirmed again and the walk moves on.
Advance(t) ==
    /\ HpAt(t, "next")
    /\ IF HpConfirm(curr[t], curr_lock[t])
       THEN /\ drop_curr(t) /\ HpGoto(t, "at")
            /\ curr' = [curr EXCEPT ![t] = nxt[t]] /\ nxt' = [nxt EXCEPT ![t] = HpNull]
            /\ curr_lock' = [curr_lock EXCEPT ![t] = next_lock[t]]
            /\ next_lock' = [next_lock EXCEPT ![t] = 0]
       ELSE drop_next_then_curr(t) /\ HpForget(t)
    /\ UNCHANGED <<heap, contexts, zombies, sweeping>>

\* next should be merged: curr is write-locked; a locked instruction drains.
LockCurr(t) ==
    /\ HpAt(t, "next") /\ Drained(t)
    /\ IF try_upgrade_ok(hlock[curr[t]], curr_lock[t])
       THEN /\ hlock' = [hlock EXCEPT ![curr[t]] = acquire(@)] /\ HpGoto(t, "locked")
            /\ drop_next(t) /\ UNCHANGED place
       ELSE drop_next_then_curr(t) /\ HpForget(t) /\ UNCHANGED hlock
    /\ UNCHANGED <<hnext, freed, contexts, zombies, sweeping>>

\* merge(): next is locked, unlinked and dies.  Where that fails curr is released,
\* as changed if an earlier round of the loop has unlinked from it ("again").
Unlink(t) ==
    LET c == curr[t] z == nxt[t] IN
    /\ (HpAt(t, "locked") \/ HpAt(t, "again")) /\ Drained(t)
    /\ IF try_upgrade_ok(hlock[z], next_lock[t])
       THEN /\ hnext' = [hnext EXCEPT ![c] = hnext[z]]
            /\ hlock' = [hlock EXCEPT ![z] = die(acquire(@))]
            /\ HpGoto(t, "reclaim") /\ UNCHANGED <<place, hazP, buffer, curr_idx>>
       ELSE /\ hlock' = [hlock EXCEPT ![c] = release_changed_if(@, HpAt(t, "again"))]
            /\ drop_curr(t) /\ HpForget(t) /\ UNCHANGED hnext
    /\ UNCHANGED <<freed, contexts, zombies, sweeping>>

\* reclaim(): a full zombie array is swept first.
StartSweep(t) ==
    /\ HpAt(t, "reclaim") /\ Cardinality(zombies[t]) >= ZombieCap /\ HpGoto(t, "sweep")
    /\ scan' = [scan EXCEPT ![t] = [left |-> contexts, i |-> 0]]
    /\ in_use' = [in_use EXCEPT ![t] = {}]
    /\ UNCHANGED <<heap, contexts, hazP, curr_idx, buffer, zombies, place>>

\* Mutant: only the first hazard pointer of a context is read.
ScanFirstSlot(t) ==
    /\ HpAt(t, "sweep") /\ scan[t].left # <<>>
    /\ in_use' = [in_use EXCEPT ![t] = @ \cup ({hazP[Head(scan[t].left)][0]} \ {HpNull})]
    /\ scan' = [scan EXCEPT ![t] = [left |-> Tail(@.left), i |-> 0]]
    /\ UNCHANGED <<heap, contexts, hazP, curr_idx, buffer, zombies, hpc, place>>

\* get_in_use(): one slot of one context at a time, without a lock.
ScanSlot(t) ==
    /\ HpAt(t, "sweep") /\ scan[t].left # <<>>
    /\ in_use' = [in_use EXCEPT ![t] = @ \cup ({hazP[Head(scan[t].left)][scan[t].i]} \ {HpNull})]
    /\ scan' = [scan EXCEPT ![t] = IF @.i = 1 THEN [left |-> Tail(@.left), i |-> 0]
                                   ELSE [left |-> @.left, i |-> 1]]
    /\ UNCHANGED <<heap, contexts, hazP, curr_idx, buffer, zombies, hpc, place>>

\* Mutant: the zombies still in use are not kept.
SweepForgets(t) ==
    /\ HpAt(t, "sweep") /\ scan[t].left = <<>> /\ HpGoto(t, "push")
    /\ freed' = freed \cup (zombies[t] \ in_use[t])
    /\ zombies' = [zombies EXCEPT ![t] = {}]
    /\ in_use' = [in_use EXCEPT ![t] = {}]
    /\ UNCHANGED <<hnext, hlock, contexts, hazP, curr_idx, buffer, place, scan>>

\* hp_thread_context::sweep(in_use): deletes the zombies nobody was seen to use.
Sweep(t) ==
    /\ HpAt(t, "sweep") /\ scan[t].left = <<>> /\ HpGoto(t, "push")
    /\ freed' = freed \cup (zombies[t] \ in_use[t])
    /\ zombies' = [zombies EXCEPT ![t] = @ \cap in_use[t]]
    /\ in_use' = [in_use EXCEPT ![t] = {}]
    /\ UNCHANGED <<hnext, hlock, contexts, hazP, curr_idx, buffer, place, scan>>

\* The zombie enters the array.  Then the loop of check_next() goes on: it
\* merges the new next as well (again), or releases curr and either looks at
\* curr afresh (cleanup) or keeps next under a new hazard pointer (keep).
Push(t, how) ==
    LET c == curr[t] n == hnext[c] w == release(hlock[c]) IN
    /\ \/ HpAt(t, "push")
       \/ HpAt(t, "reclaim") /\ Cardinality(zombies[t]) < ZombieCap
    /\ zombies' = [zombies EXCEPT ![t] = @ \cup {nxt[t]}]
    /\ n = HpNull => how = "cleanup"
    /\ how # "cleanup" => Drained(t)
    /\ nxt' = [nxt EXCEPT ![t] = IF how = "cleanup" THEN HpNull ELSE n]
    /\ next_lock' = [next_lock EXCEPT ![t] = IF how = "cleanup" THEN 0 ELSE begin_read(hlock[n])]
    /\ IF how = "again"
       THEN HpGoto(t, "again") /\ UNCHANGED <<hlock, curr_lock>>
       ELSE /\ HpGoto(t, IF how = "keep" THEN "next" ELSE "at")
            /\ hlock' = [hlock EXCEPT ![c] = w]
            /\ curr_lock' = [curr_lock EXCEPT ![t] = w]
    /\ IF how = "keep"            \* taken before the release, which drains it
       THEN hazP' = [hazP EXCEPT ![t][next_idx(t)] = n]
       ELSE UNCHANGED hazP
    /\ UNCHANGED <<hnext, freed, contexts, curr, curr_idx, buffer, sweeping>>

\* The destructor, in isolation: deletes the linked nodes and, with sweep_all()
\* and tear_down(), every zombie and context.
TearDown ==
    /\ contexts # <<>> /\ \A t \in HpThread : (HpAt(t, "idle") \/ HpAt(t, "start")) /\ Drained(t)
    /\ freed' = HpNode
    /\ zombies' = [t \in HpThread |-> {}]
    /\ contexts' = <<>>
    /\ hpc' = [t \in HpThread |-> "done"]
    /\ UNCHANGED <<hnext, hlock, hazP, curr_idx, buffer, place, sweeping>>

HpNext ==
    \/ \E t \in HpThread :
          \/ InitContext(t) \/ StartWalk(t) \/ StopWalk(t)
          \/ ReadNext(t) \/ TakeNext(t) \/ ConfirmTaken(t) \/ BeginNext(t)
          \/ RuleOutNext(t) \/ Advance(t)
          \/ LockCurr(t) \/ Unlink(t) \/ StartSweep(t) \/ ScanSlot(t) \/ Sweep(t)
          \/ \E how \in {"again", "cleanup", "keep"} : Push(t, how)
    \/ TearDown

HpSpec == HpInit /\ [][HpNext]_hpVars

\* The same with store buffers that drain at any moment.
HpBufferedNext == HpNext \/ \E t \in HpThread : Drain(t)
HpBufferedSpec == HpInit /\ [][HpBufferedNext]_hpVars
-----------------------------------------------------------------------------
\* No thread stands on, or has validated its way to, a node that was deleted:
\* a sweep that reads the hazard pointers of the others one by one, while they
\* move, never misses one that protects a node it is about to delete
\* (hp_manager.h:105: "results may be stale, but that is fine for the use case").
NoUseAfterFree ==
    \A t \in HpThread :
        /\ hpc[t] \notin {"start", "idle", "done"} => curr[t] \notin freed
        /\ hpc[t] \in {"confirmed", "next", "locked", "again"} => nxt[t] \notin freed

\* Until the tear-down every node is in one place: linked, about to be pushed by
\* the thread that unlinked it, in one thread's zombie array, or deleted. So no
\* node is deleted twice or forgotten, and the array is never overrun.
Unpushed(t) == IF hpc[t] \in {"reclaim", "sweep", "push"} THEN {nxt[t]} ELSE {}
NodesAccounted ==
    contexts # <<>> =>
        /\ \A t \in HpThread : Cardinality(zombies[t]) <= ZombieCap
        /\ \A t \in HpThread : zombies[t] \cap freed = {} /\ Unpushed(t) \cap (zombies[t] \cup freed) = {}
        /\ \A t, u \in HpThread : t # u => zombies[t] \cap (zombies[u] \cup Unpushed(u)) = {}
        /\ { n \in HpNode : is_dead(hlock[n]) }
             = freed \cup UNION { zombies[t] \cup Unpushed(t) : t \in HpThread }
=============================================================================

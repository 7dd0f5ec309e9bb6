----------------------------- MODULE SkipVector -----------------------------
(***************************************************************************)
(* The concurrent operations of the skip vector (skipvector.h): contains,   *)
(* insert, remove, for_each and range, run by several threads on a          *)
(* structure that insert_seq set up.                                        *)
(*                                                                          *)
(* A reader remembers the node it is at (curr) with the lock word it began  *)
(* with (seen), and every use of what it read is validated against that     *)
(* word later.  A validated read returns what the node holds at the moment  *)
(* of the validation, and one that fails is thrown away; so one step here   *)
(* goes from one validation to the next: it validates curr, reads it, and   *)
(* begins to read the node it moves to.  A critical section under one lock  *)
(* that does not wait is one step too.  What a thread does while it holds a *)
(* lock and waits or tries for another one is a step of its own.  Unlinked  *)
(* nodes are not reused: that is what HazardPointers establishes.           *)
(***************************************************************************)
EXTENDS SvNodes

LOCAL INSTANCE SequencesExt

CONSTANTS
    SvThread,
    SvConfigs,      \* the configurations: parameters, set-up, operations tried
    SvCalls         \* bound: operations begun in a run

ASSUME SvLayersAssumption == \A c \in SvConfigs : c.layers \in Nat \ {0}

NoOp == [kind |-> "none"]
NoAnswer == <<>>

VARIABLES
    cfg,            \* the configuration of this run
    heap,           \* the nodes
    sop,            \* sop[t]: the operation t is in
    sres,           \* sres[t]: its answer, once decided
    spc,            \* spc[t]: where t is
    sl,             \* sl[t]: its local variables
    scalls          \* operations begun

svVars == <<cfg, heap, sop, sres, spc, sl, scalls>>

Locals == [layer |-> 0, curr |-> Null, seen |-> 0, nxt |-> Null, nseen |-> 0, changed |-> FALSE,
           frozen |-> <<>>, checkpoint |-> Null, down |-> Null, start |-> 0, locked |-> <<>>, got |-> {}]

SvSetup(c) == FoldLeft(LAMBDA h, kh : insert_seq(c, h, <<kh[1], 0>>, kh[2]), sv_heads(c.layers), c.setup)

SvInit ==
    /\ cfg \in SvConfigs
    /\ heap = SvSetup(cfg)
    /\ sop = [t \in SvThread |-> NoOp]
    /\ sres = [t \in SvThread |-> NoAnswer]
    /\ spc = [t \in SvThread |-> "idle"]
    /\ sl = [t \in SvThread |-> Locals]
    /\ scalls = 0

Kind(t) == sop[t].kind
SvKey(t) == sop[t].k
Height(t) == sop[t].height
Cleanup(t) == Kind(t) \in {"insert", "remove"}
Word(n) == heap[n].lock
Vec(n) == heap[n].v
Confirmed(t) == confirm_read(Word(sl[t].curr), sl[t].seen)
Upgradable(t) == try_upgrade_ok(Word(sl[t].curr), sl[t].seen)

SvGoto(t, pc) == spc' = [spc EXCEPT ![t] = pc]
Same == UNCHANGED <<cfg, sop, scalls>>
Undecided == UNCHANGED sres

\* The operation ends with answer r.
Answer(t, r) ==
    /\ sres' = [sres EXCEPT ![t] = <<r>>]
    /\ SvGoto(t, "return") /\ sl' = [sl EXCEPT ![t] = Locals]

\* A validation failed: back to the checkpoint, or to the top.
Retry(t, h) ==
    LET l == sl[t] IN
    IF l.checkpoint # Null
    THEN SvGoto(t, "hop") /\ sl' = [sl EXCEPT ![t].curr = l.checkpoint,
                                              ![t].seen = begin_read(h[l.checkpoint].lock)]
    ELSE SvGoto(t, "top") /\ UNCHANGED sl

\* Read node n of the given layer from now on.
ReadNode(t, n, layer, pc) ==
    /\ sl' = [sl EXCEPT ![t].curr = n, ![t].seen = begin_read(Word(n)), ![t].layer = layer,
                        ![t].nxt = Null]
    /\ SvGoto(t, pc)

SvCall(t, op) ==
    /\ spc[t] = "idle" /\ scalls < SvCalls
    /\ sop' = [sop EXCEPT ![t] = op]
    /\ scalls' = scalls + 1
    /\ SvGoto(t, IF op.kind = "for_each" THEN "lock" ELSE "top")
    /\ sl' = [sl EXCEPT ![t].curr = IF op.kind = "for_each" THEN HeadOf(DataLayer) ELSE Null]
    /\ UNCHANGED <<cfg, heap, sres>>

SvReturn(t) ==
    /\ spc[t] = "return" /\ SvGoto(t, "idle")
    /\ sop' = [sop EXCEPT ![t] = NoOp]
    /\ sres' = [sres EXCEPT ![t] = NoAnswer]
    /\ UNCHANGED <<cfg, heap, sl, scalls>>

Top(t) ==
    /\ spc[t] = "top"
    /\ Same /\ UNCHANGED heap
    /\ IF Kind(t) = "range" /\ SvKey(t) > sop[t].to THEN Answer(t, {})
       ELSE ReadNode(t, HeadOf(cfg.layers - 1), cfg.layers - 1, "hop") /\ Undecided

\* --- check_next ---------------------------------------------------------------

\* One round of the loop: stop here, go on to next, or lock curr to absorb it.
Hop(t) ==
    LET l == sl[t]
        c == l.curr
        n == heap[c].next
    IN  /\ spc[t] = "hop" /\ Same /\ Undecided
        /\ IF ~Confirmed(t) THEN Retry(t, heap) /\ UNCHANGED heap
           ELSE IF ~may_follow(heap, c, SvKey(t))
           THEN SvGoto(t, "at") /\ UNCHANGED <<heap, sl>>
           ELSE IF should_merge(cfg, l.layer, heap, c, n, Cleanup(t))
           THEN IF Upgradable(t)
                THEN /\ heap' = [heap EXCEPT ![c].lock = acquire(@)]
                     /\ sl' = [sl EXCEPT ![t].nxt = n, ![t].nseen = begin_read(Word(n)), ![t].changed = FALSE]
                     /\ SvGoto(t, "merge")
                ELSE Retry(t, heap) /\ UNCHANGED heap
           ELSE /\ UNCHANGED heap
                /\ IF SvKey(t) >= sfra_first(Vec(n)) THEN ReadNode(t, n, l.layer, "hop")
                   ELSE IF confirm_read(Word(n), begin_read(Word(n))) THEN SvGoto(t, "at") /\ UNCHANGED sl
                   ELSE Retry(t, heap)

\* curr is locked: lock next as it was read, absorb it and look at the one after.
Merge(t) ==
    LET l == sl[t]
        c == l.curr
        g == node_merge(heap, c)
        n == g[c].next
        done == [g EXCEPT ![c].lock = release(@)]
    IN  /\ spc[t] = "merge" /\ Same /\ Undecided
        /\ IF ~try_upgrade_ok(Word(l.nxt), l.nseen)
           THEN /\ heap' = [heap EXCEPT ![c].lock = release_changed_if(@, l.changed)]
                /\ Retry(t, heap')
           ELSE IF n # Null /\ should_merge(cfg, l.layer, g, c, n, Cleanup(t))
           THEN /\ heap' = g /\ UNCHANGED spc
                /\ sl' = [sl EXCEPT ![t].nxt = n, ![t].nseen = begin_read(g[n].lock), ![t].changed = TRUE]
           ELSE /\ heap' = done
                /\ sl' = [sl EXCEPT ![t].seen = done[c].lock]
                /\ SvGoto(t, IF n = Null THEN "at" ELSE "hop")

\* --- the node of an index layer that covers the key ------------------------------

Covering(t) == spc[t] = "at" /\ sl[t].layer >= 0
FoundDown(t) == sfra_find_lte(Vec(sl[t].curr), SvKey(t))
FoundKey(t) == found_key(FoundDown(t), SvKey(t))
Freezes(t) == Kind(t) = "insert" /\ sl[t].layer < Height(t)
Failed(t) == UNCHANGED heap /\ Retry(t, heap) /\ Undecided

\* The traversal goes down: reader_swap takes a hazard pointer on the node below
\* and confirms curr, so that what it read there names a node still linked.
Descend(t) ==
    /\ Covering(t) /\ Same
    /\ ~Freezes(t)
    /\ Kind(t) \in {"insert", "remove"} => ~FoundKey(t)
    /\ IF ~Confirmed(t) THEN Failed(t)
       ELSE /\ sl' = [sl EXCEPT ![t].nxt = down_of(FoundDown(t), sl[t].layer)]
            /\ SvGoto(t, "swap") /\ UNCHANGED heap /\ Undecided

\* Where a traversal of layer goes on, once it has swapped to the layer below.
Below(t) == IF Kind(t) = "range" /\ sl[t].layer = 0 THEN "lock" ELSE "hop"

\* Mutant: curr is not confirmed again once the node below is being read.
SwapOnce(t) ==
    /\ spc[t] = "swap" /\ Same /\ UNCHANGED heap /\ Undecided
    /\ ReadNode(t, sl[t].nxt, sl[t].layer - 1, Below(t))

\* reader_swap begins to read the node below and confirms curr once more: the
\* key that led there may have been removed, and inserted again at a lower
\* height, since the first confirmation.
Swap(t) ==
    /\ spc[t] = "swap" /\ Same
    /\ IF Confirmed(t)
       THEN UNCHANGED heap /\ Undecided /\ ReadNode(t, sl[t].nxt, sl[t].layer - 1, Below(t))
       ELSE Failed(t)

\* insert() reaches a layer the new key goes to: it freezes the node, and the
\* node below becomes its checkpoint.
Thawed(h, frozen) ==
    [n \in DOMAIN h |-> IF \E i \in DOMAIN frozen : frozen[i] = n
                        THEN [h[n] EXCEPT !.lock = thaw(@)] ELSE h[n]]
Freeze(t) ==
    LET l == sl[t]
        down == down_of(FoundDown(t), l.layer)
    IN  /\ Covering(t) /\ Freezes(t) /\ Same
        /\ IF ~try_freeze_ok(Word(l.curr), l.seen) THEN Failed(t)
           ELSE IF FoundKey(t)
           THEN heap' = Thawed(heap, l.frozen) /\ Answer(t, FALSE)
           ELSE /\ heap' = [heap EXCEPT ![l.curr].lock = freeze(@)]
                /\ sl' = [sl EXCEPT ![t].frozen = @ @@ (l.layer :> l.curr), ![t].checkpoint = down,
                                    ![t].curr = down, ![t].seen = begin_read(heap'[down].lock),
                                    ![t].layer = @ - 1]
                /\ SvGoto(t, "hop") /\ Undecided

\* insert() finds the key in a layer above its height.
InsertFinds(t) ==
    /\ Covering(t) /\ Kind(t) = "insert" /\ ~Freezes(t) /\ FoundKey(t) /\ Same
    /\ IF Confirmed(t) THEN UNCHANGED heap /\ Answer(t, FALSE) ELSE Failed(t)

\* remove() finds the key: unless an insertion of it is still on its way up,
\* the node is locked.
RemoveFinds(t) ==
    LET l == sl[t] IN
    /\ Covering(t) /\ Kind(t) = "remove" /\ FoundKey(t) /\ Same
    /\ IF (~is_orphan(l.seen) /\ sfra_first(Vec(l.curr)) = SvKey(t)) \/ ~Upgradable(t) THEN Failed(t)
       ELSE /\ heap' = [heap EXCEPT ![l.curr].lock = acquire(@)]
            /\ sl' = [sl EXCEPT ![t].start = l.layer]
            /\ SvGoto(t, "unlink") /\ Undecided

\* remove(), on the way down: the key leaves curr, the node below is locked,
\* then curr is released, as an orphan below the uppermost layer.
Unlink(t) ==
    LET l == sl[t]
        r == sfra_remove(Vec(l.curr), SvKey(t))
        down == r.val
    IN  /\ spc[t] = "unlink" /\ l.layer >= 0 /\ Same /\ Undecided
        /\ is_unlocked(Word(down))
        /\ heap' = [heap EXCEPT ![l.curr].v = r.v,
                                ![l.curr].lock = IF l.layer = l.start THEN release(@) ELSE release_as_orphan(@),
                                ![down].lock = acquire(@)]
        /\ sl' = [sl EXCEPT ![t].curr = down, ![t].layer = @ - 1]
        /\ UNCHANGED spc

RemoveData(t) ==
    LET c == sl[t].curr IN
    /\ spc[t] = "unlink" /\ sl[t].layer = DataLayer /\ Same
    /\ heap' = [heap EXCEPT ![c].v = sfra_remove(@, SvKey(t)).v, ![c].lock = release_as_orphan(@)]
    /\ Answer(t, TRUE)

\* --- the data node that covers the key --------------------------------------------

AtData(t, kind) == spc[t] = "at" /\ sl[t].layer = DataLayer /\ Kind(t) = kind /\ Same

ContainsData(t) ==
    /\ AtData(t, "contains")
    /\ IF Confirmed(t)
       THEN UNCHANGED heap /\ Answer(t, { e \in Entries(Vec(sl[t].curr)) : KeyOf(e) = SvKey(t) })
       ELSE Failed(t)

\* Mutant: the first key of a node that is no orphan is removed like any other.
RemoveShortAnyway(t) ==
    LET l == sl[t]
        r == sfra_remove(Vec(l.curr), SvKey(t))
    IN  /\ AtData(t, "remove")
        /\ IF ~Upgradable(t) THEN Failed(t)
           ELSE /\ heap' = [heap EXCEPT ![l.curr].v = r.v,
                                        ![l.curr].lock = release_changed_if(acquire(@), r.ok)]
                /\ Answer(t, r.ok)

RemoveShort(t) ==
    LET l == sl[t]
        r == sfra_remove(Vec(l.curr), SvKey(t))
    IN  /\ AtData(t, "remove")
        /\ IF \/ ~Upgradable(t)
              \/ ~is_orphan(l.seen) /\ sfra_first(Vec(l.curr)) = SvKey(t)
           THEN Failed(t)
           ELSE /\ heap' = [heap EXCEPT ![l.curr].v = r.v,
                                        ![l.curr].lock = release_changed_if(acquire(@), r.ok)]
                /\ Answer(t, r.ok)

InsertShort(t) ==
    LET c == sl[t].curr
        r == node_insert(cfg, DataLayer, heap, c, <<SvKey(t), sop[t].v>>)
    IN  /\ AtData(t, "insert") /\ Height(t) = 0
        /\ IF ~Upgradable(t) THEN Failed(t)
           ELSE /\ heap' = [r.heap EXCEPT ![c].lock = release_changed_if(acquire(@), r.ok)]
                /\ Answer(t, r.ok)

\* A tall insertion splits the data node, and then goes up through the nodes it
\* has frozen.
InsertTall(t) ==
    LET c == sl[t].curr
        g == node_partition(cfg, DataLayer, heap, c, <<SvKey(t), sop[t].v>>)
    IN  /\ AtData(t, "insert") /\ Height(t) > 0
        /\ IF ~Upgradable(t) THEN Failed(t)
           ELSE IF sfra_contains(Vec(c), SvKey(t))
           THEN heap' = Thawed(heap, sl[t].frozen) /\ Answer(t, FALSE)
           ELSE /\ heap' = [g EXCEPT ![c].lock = release(acquire(@)), ![Len(g)].lock = release(acquire(@))]
                /\ sl' = [sl EXCEPT ![t].layer = 0, ![t].down = Len(g)]
                /\ sres' = [sres EXCEPT ![t] = <<TRUE>>]
                /\ SvGoto(t, "link")

LinkSplit(t) ==
    LET l == sl[t]
        victim == l.frozen[l.layer]
        g == node_partition(cfg, l.layer, heap, victim, <<SvKey(t), l.down>>)
    IN  /\ spc[t] = "link" /\ l.layer + 1 < Height(t) /\ Same /\ Undecided
        /\ heap' = [g EXCEPT ![victim].lock = release(acquire_frozen(@))]
        /\ sl' = [sl EXCEPT ![t].layer = @ + 1, ![t].down = Len(g)]
        /\ UNCHANGED spc

LinkTop(t) ==
    LET l == sl[t]
        top == l.frozen[l.layer]
        g == node_insert(cfg, l.layer, heap, top, <<SvKey(t), l.down>>).heap
    IN  /\ spc[t] = "link" /\ l.layer + 1 = Height(t) /\ Same /\ Undecided
        /\ heap' = [g EXCEPT ![top].lock = release(acquire_frozen(@))]
        /\ sl' = [sl EXCEPT ![t] = Locals]
        /\ SvGoto(t, "return")

\* --- for_each and range -------------------------------------------------------------

\* Lock the next data node and visit its entries; the last node decides.  The
\* first node of a range comes from skip_to, which upgrades what it read.
LockAndVisit(t) ==
    LET l == sl[t]
        c == l.curr
        from == IF Kind(t) = "range" THEN SvKey(t) ELSE 0
        r == sfra_range(Vec(c), from, sop[t].to, sop[t].stop)
        exit_flag == \E i \in 1 .. Len(r.seen) : KeyOf(r.seen[i]) = sop[t].stop
        got == l.got \cup Entries(r.seen)
        skip_to == Kind(t) = "range" /\ l.locked = <<>>
        last == heap[c].next = Null \/ exit_flag \/ (Kind(t) = "range" /\ r.end)
    IN  /\ spc[t] = "lock" /\ Same
        /\ IF skip_to /\ ~Upgradable(t) THEN Failed(t)
           ELSE /\ is_unlocked(Word(c))
                /\ heap' = [heap EXCEPT ![c].lock = acquire(@)]
                /\ sl' = [sl EXCEPT ![t].curr = heap[c].next, ![t].got = got, ![t].locked = Append(@, c)]
                /\ IF last THEN SvGoto(t, "release") /\ sres' = [sres EXCEPT ![t] = <<got>>]
                   ELSE UNCHANGED <<spc, sres>>

ReleaseAll(t) ==
    /\ spc[t] = "release" /\ Same /\ Undecided
    /\ heap' = [n \in DOMAIN heap |-> IF n \in { sl[t].locked[i] : i \in 1 .. Len(sl[t].locked) }
                                      THEN [heap[n] EXCEPT !.lock = release(@)] ELSE heap[n]]
    /\ sl' = [sl EXCEPT ![t] = Locals]
    /\ SvGoto(t, "return")

SvStep(t) ==
    \/ SvReturn(t) \/ Top(t) \/ Hop(t) \/ Merge(t) \/ Descend(t) \/ Swap(t) \/ Freeze(t) \/ InsertFinds(t)
    \/ RemoveFinds(t) \/ Unlink(t) \/ RemoveData(t) \/ ContainsData(t) \/ RemoveShort(t)
    \/ InsertShort(t) \/ InsertTall(t) \/ LinkSplit(t) \/ LinkTop(t) \/ LockAndVisit(t) \/ ReleaseAll(t)
SvNext == \E t \in SvThread : SvStep(t) \/ \E op \in cfg.ops : SvCall(t, op)

\* The operating system keeps running every thread, so none stops in the middle
\* of an operation.
SvFairness == \A t \in SvThread : WF_svVars(SvStep(t))
SvSpec == SvInit /\ [][SvNext]_svVars /\ SvFairness
-----------------------------------------------------------------------------
\* The structure implements a map whose operations are atomic: the entries are
\* those of the data layer, and each answer is the map's at some moment of the
\* operation, whatever splits, merges and lazy removals happen meanwhile.
Map == INSTANCE ConcurrentMap WITH
    Caller <- SvThread, MapOps <- UNION { c.ops : c \in SvConfigs },
    map <- LayerEntries(heap, DataLayer), pending <- sop, answer <- sres
SvLinearizable == [][Map!MapNext]_(Map!mapVars)

\* verify() holds whenever no operation is running: in particular no frozen
\* or locked node is left behind, every node that is no orphan has its entry in
\* the layer above, and no down pointer dangles.
SvQuiescentVerify == (\A t \in SvThread : spc[t] = "idle") => sv_verify(cfg, heap)

\* Every operation ends: no thread waits for ever for a lock, a freeze or an
\* insertion that another one has begun.
SvOperationsEnd == \A t \in SvThread : (spc[t] # "idle") ~> (spc[t] = "idle")
=============================================================================

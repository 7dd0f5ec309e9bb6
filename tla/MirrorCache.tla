----------------------------- MODULE MirrorCache -----------------------------
(***************************************************************************)
(* The compute-local mirror of the remote index (skipvector_disco.h).       *)
(* Level 0 is the directory, whose entries map keys to the addresses of     *)
(* remote data nodes; levels 1 and up are index levels with local down      *)
(* pointers.  Threads look keys up (locate_data, gather_prevs), repair the  *)
(* cache from what a remote descent saw (mirror_reconcile), and record      *)
(* their own remote insertions (mirror_insert).  Nodes are never unlinked.  *)
(* The steps are cut as in SkipVector, from validation to validation.       *)
(*                                                                          *)
(* The remote structure is what the callers report: the keys that have been *)
(* inserted, each with its height, and the remote orphans.  A key of height *)
(* h starts a data node, a node of every level below h - 1, and is an entry *)
(* at level h - 1.  Remote addresses are stable: <<level, least key>>, with *)
(* level -1 for data nodes and least key 0 for the leftmost nodes.          *)
(***************************************************************************)
EXTENDS SvNodes

CONSTANTS
    MirThread,
    MirConfigs,     \* layers, exp, height of each key, remote orphans, warm entries, operations
    MirCalls        \* bound: operations begun in a run

ASSUME MirLayersAssumption == \A c \in MirConfigs : c.layers > 1

VARIABLES
    mcfg,           \* the configuration of this run
    mheap,          \* the nodes of the cache
    remote,         \* the keys inserted remotely
    mop, mpc, ml, mcalls,
    mseen           \* history: the last answer given to t, with the entries cached at that moment

mirVars == <<mcfg, mheap, remote, mop, mpc, ml, mcalls, mseen>>

NullAddr == <<-2, 0>>
DataAddr(k) == <<-1, k>>
NodeAddr(level, k) == <<level, k>>
MirHead(level) == level + 1
MirCap == get_vector_size(mcfg.exp)

\* --- the remote side, as a descent sees it ------------------------------------

RemoteMins(level) == { k \in remote : mcfg.height[k] >= level + 2 \/ <<level, k>> \in mcfg.orphans }
Greatest(S) == CHOOSE m \in S : \A x \in S : x <= m
Covering0(S, k) == IF \E m \in S : m <= k THEN Greatest({ m \in S : m <= k }) ELSE 0

\* The steps of a path up to the first level where the leftmost node covers k.
PathOf(k) ==
    LET mins == [L \in 0 .. mcfg.layers - 1 |-> Covering0(RemoteMins(L), k)]
        ends == { L \in DOMAIN mins : mins[L] = 0 }
    IN  [k_min |-> mins, levels |-> IF ends = {} THEN mcfg.layers
                                    ELSE CHOOSE L \in ends : \A x \in ends : L <= x]
\* The address a commit reports for the level the key joins: a remote orphan, if
\* the remote node overflowed too.
TopAddrs(level) == {NullAddr} \cup { NodeAddr(o[1], o[2]) : o \in { o \in mcfg.orphans : o[1] = level } }

\* --- nodes ----------------------------------------------------------------------

mir_new_node(orphan, addr, v, next) ==
    [lock |-> new_lock(orphan), addr |-> addr, v |-> v, next |-> next]
mir_stitch(h, prev, orphan, addr, v) ==
    Append([h EXCEPT ![prev].next = Len(h) + 1], mir_new_node(orphan, addr, v, h[prev].next))

\* Mutant: the node an overflow makes is not an orphan.
mir_insert_adopted(h, c, e, addr) ==
    LET r == sfra_insert(h[c].v, e, MirCap)
        s == sfra_steal_half_and_insert(h[c].v, e)
    IN  IF r.overfull
        THEN [ok |-> TRUE, made |-> Len(h) + 1,
              heap |-> mir_stitch([h EXCEPT ![c].v = s.victim], c, FALSE, addr, s.new)]
        ELSE [ok |-> r.ok, made |-> Null, heap |-> [h EXCEPT ![c].v = r.v]]

\* insert(): made is the orphan a split made, or null.
mir_insert(h, c, e, addr) ==
    LET r == sfra_insert(h[c].v, e, MirCap)
        s == sfra_steal_half_and_insert(h[c].v, e)
    IN  IF r.overfull
        THEN [ok |-> TRUE, made |-> Len(h) + 1,
              heap |-> mir_stitch([h EXCEPT ![c].v = s.victim], c, TRUE, addr, s.new)]
        ELSE [ok |-> r.ok, made |-> Null, heap |-> [h EXCEPT ![c].v = r.v]]

\* The heads, bootstrapped by set_head_remote_addrs.
MirHeads(c) ==
    [n \in 1 .. c.layers |->
        mir_new_node(TRUE, NodeAddr(n - 1, 0), IF n = 1 THEN [i \in 1 .. Len(c.warm) |-> <<c.warm[i], DataAddr(c.warm[i])>>]
                                               ELSE <<>>, Null)]

MirIdle == [key |-> 0, layer |-> 0, target |-> 0, curr |-> Null, seen |-> 0, path |-> [k_min |-> <<>>, levels |-> 0],
            child |-> Null, addr |-> NullAddr, made |-> Null, todo |-> "none", prevs |-> <<>>]

MirInit ==
    /\ mcfg \in MirConfigs
    /\ mheap = MirHeads(mcfg)
    /\ remote = { mcfg.warm[i] : i \in 1 .. Len(mcfg.warm) } \cup mcfg.known
    /\ mop = [t \in MirThread |-> [kind |-> "none"]]
    /\ mpc = [t \in MirThread |-> "idle"]
    /\ ml = [t \in MirThread |-> MirIdle]
    /\ mcalls = 0
    /\ mseen = [t \in MirThread |-> <<>>]

Directory(h) == UNION { Entries(h[n].v) : n \in { chain(h, MirHead(0))[i] : i \in 1 .. Len(chain(h, MirHead(0))) } }

MirLayer(level) == chain(mheap, MirHead(level))

\* History, of a node gather_prevs takes the address of: what it is, and the node
\* that covers the key at that moment.
MirCovering(level, k) ==
    LET ns == MirLayer(level)
        from(i) == i = 1 \/ (mheap[ns[i]].v # <<>> /\ sfra_first(mheap[ns[i]].v) <= k)
    IN  ns[Greatest({ i \in 1 .. Len(ns) : from(i) })]
Gathered(n, level, k) ==
    [node |-> n, addr |-> mheap[n].addr, orphan |-> is_orphan(mheap[n].lock), covering |-> MirCovering(level, k)]

MirSame == UNCHANGED <<mcfg, remote, mop, mcalls>>
MirGoto(t, pc) == mpc' = [mpc EXCEPT ![t] = pc]
MirConfirmed(t) == confirm_read(mheap[ml[t].curr].lock, ml[t].seen)
MirUpgradable(t) == try_upgrade_ok(mheap[ml[t].curr].lock, ml[t].seen)
MirWord(n) == mheap[n].lock

MirAnswer(t, a) ==
    /\ mseen' = [mseen EXCEPT ![t] = <<[op |-> mop[t], answer |-> a, cached |-> Directory(mheap)]>>]
    /\ MirGoto(t, "idle") /\ ml' = [ml EXCEPT ![t] = MirIdle]
MirDone(t) == MirGoto(t, "idle") /\ ml' = [ml EXCEPT ![t] = MirIdle] /\ UNCHANGED mseen

\* Go and do "todo" at the node of the given level that covers key.
MirSeek(t, l, todo, key, level) ==
    /\ ml' = [ml EXCEPT ![t] = [l EXCEPT !.todo = todo, !.key = key, !.target = level]]
    /\ MirGoto(t, "top") /\ UNCHANGED mseen
MirRestart(t) == MirGoto(t, "top") /\ UNCHANGED <<ml, mheap, mseen>>

MirCall(t, op) ==
    /\ mpc[t] = "idle" /\ mcalls < MirCalls
    /\ mcalls' = mcalls + 1
    /\ mop' = [mop EXCEPT ![t] = op]
    /\ UNCHANGED <<mcfg, mheap>>
    /\ \/ /\ op.kind \in {"locate", "gather"} /\ UNCHANGED remote
          /\ MirSeek(t, MirIdle, op.kind, op.k, 0)
       \/ \* mirror_reconcile, with the path the descent for k saw or without one
          /\ op.kind = "reconcile" /\ UNCHANGED remote
          /\ Covering0(remote, op.k) # 0
          /\ LET path == PathOf(op.k)
                 l == [MirIdle EXCEPT !.path = IF op.path THEN path ELSE @,
                                      !.addr = IF op.path /\ path.levels > 0
                                               THEN NodeAddr(0, path.k_min[0]) ELSE NullAddr]
             IN  MirSeek(t, l, "data entry", Covering0(remote, op.k), 0)
       \/ \* mirror_insert, once the remote insertion has committed
          /\ op.kind = "insert"
          /\ remote' = remote \cup {op.k}
          /\ IF mcfg.height[op.k] = 1
             THEN \E a \in TopAddrs(0) : MirSeek(t, [MirIdle EXCEPT !.addr = a], "top entry", op.k, 0)
             ELSE MirSeek(t, MirIdle, "split", op.k, 0)

\* --- descend_to_directory and descend_to_index_level -----------------------------

MirTop(t) ==
    /\ mpc[t] = "top" /\ MirSame /\ UNCHANGED <<mheap, mseen>>
    /\ LET n == MirHead(mcfg.layers - 1)
       IN  ml' = [ml EXCEPT ![t].curr = n, ![t].seen = begin_read(MirWord(n)), ![t].layer = mcfg.layers - 1]
    /\ MirGoto(t, "hop")

\* check_next: nothing is merged.
MirHop(t) ==
    LET l == ml[t]
        n == mheap[l.curr].next
    IN  /\ mpc[t] = "hop" /\ MirSame
        /\ IF ~MirConfirmed(t) THEN MirRestart(t)
           ELSE IF ~may_follow(mheap, l.curr, l.key) THEN MirGoto(t, "at") /\ UNCHANGED <<ml, mheap, mseen>>
           ELSE IF l.key >= sfra_first(mheap[n].v)
           THEN /\ ml' = [ml EXCEPT ![t].curr = n, ![t].seen = begin_read(MirWord(n))]
                /\ UNCHANGED <<mpc, mheap, mseen>>
           ELSE IF confirm_read(MirWord(n), begin_read(MirWord(n)))
           THEN MirGoto(t, "at") /\ UNCHANGED <<ml, mheap, mseen>>
           ELSE MirRestart(t)

\* follow and reader_swap; gather_prevs keeps the address of the node it leaves.
MirFollow(t) ==
    LET l == ml[t]
        f == sfra_find_lte(mheap[l.curr].v, l.key)
        down == IF f = <<>> THEN MirHead(l.layer - 1) ELSE ValOf(f[1])
        keep == l.todo = "gather" /\ l.layer < mop[t].height
    IN  /\ mpc[t] = "at" /\ l.layer > l.target /\ MirSame
        /\ IF ~MirConfirmed(t) THEN MirRestart(t)
           ELSE /\ ml' = [ml EXCEPT ![t].curr = down, ![t].seen = begin_read(MirWord(down)), ![t].layer = @ - 1,
                                    ![t].prevs = IF keep THEN (l.layer :> Gathered(l.curr, l.layer, l.key)) @@ @ ELSE @]
                /\ MirGoto(t, "hop") /\ UNCHANGED <<mheap, mseen>>

MirAt(t, todo) == mpc[t] = "at" /\ ml[t].layer = ml[t].target /\ ml[t].todo = todo /\ MirSame

\* --- the look-ups -----------------------------------------------------------------

\* Mutant: the answer is not confirmed.
LocateDataUnconfirmed(t) ==
    LET f == sfra_find_lte(mheap[ml[t].curr].v, ml[t].key) IN
    /\ MirAt(t, "locate")
    /\ MirAnswer(t, IF f = <<>> THEN NullAddr ELSE ValOf(f[1])) /\ UNCHANGED mheap

LocateData(t) ==
    LET f == sfra_find_lte(mheap[ml[t].curr].v, ml[t].key) IN
    /\ MirAt(t, "locate")
    /\ IF ~MirConfirmed(t) THEN MirRestart(t)
       ELSE MirAnswer(t, IF f = <<>> THEN NullAddr ELSE ValOf(f[1])) /\ UNCHANGED mheap

GatherPrevs(t) ==
    /\ MirAt(t, "gather")
    /\ IF ~MirConfirmed(t) THEN MirRestart(t)
       ELSE MirAnswer(t, (0 :> Gathered(ml[t].curr, 0, ml[t].key)) @@ ml[t].prevs) /\ UNCHANGED mheap

\* --- the updates ------------------------------------------------------------------

\* The key is a boundary of level L as well.
Climbs(t, L) ==
    IF mop[t].kind = "reconcile" THEN L < ml[t].path.levels /\ ml[t].path.k_min[L] = ml[t].path.k_min[0]
    ELSE L < mcfg.height[mop[t].k] - 1

\* The node "child" of level L - 1 still needs its entry at level L.
Parent(t, child, L) ==
    LET l == ml[t] IN
    IF L >= mcfg.layers THEN MirDone(t)
    ELSE IF Climbs(t, L) THEN MirSeek(t, [l EXCEPT !.child = child], "split", l.key, L)
    ELSE IF mop[t].kind = "reconcile"
    THEN LET a == IF L < l.path.levels THEN NodeAddr(L, l.path.k_min[L]) ELSE NullAddr
         IN  MirSeek(t, [l EXCEPT !.child = child, !.addr = a], "index entry", l.key, L)
    ELSE \E a \in TopAddrs(L) : MirSeek(t, [l EXCEPT !.child = child, !.addr = a], "top entry", l.key, L)

\* Mutant: a level that made no node of its own still gets its parent entry.
AfterSplitAlways(t, n) == Parent(t, IF n = Null THEN ml[t].curr ELSE n, ml[t].target + 1)

\* The split of one level returned a node, or null.
AfterSplit(t, n) ==
    LET L == ml[t].target IN
    IF n # Null THEN Parent(t, n, L + 1)
    ELSE IF L = 0 THEN MirDone(t)
    ELSE LET a == IF mop[t].kind = "reconcile" THEN NodeAddr(L, ml[t].path.k_min[L]) ELSE NodeAddr(L, ml[t].key)
         IN  MirSeek(t, [ml[t] EXCEPT !.addr = a],
                     IF mop[t].kind = "reconcile" THEN "index entry" ELSE "top entry", ml[t].key, L)

\* install_data_entry, then the directory is lined up with the path.
InstallDataEntry(t) ==
    LET l == ml[t]
        r == mir_insert(mheap, l.curr, <<l.key, DataAddr(l.key)>>, l.addr)
    IN  /\ MirAt(t, "data entry")
        /\ IF ~MirUpgradable(t) THEN MirRestart(t)
           ELSE /\ mheap' = [r.heap EXCEPT ![l.curr].lock = release_changed_if(acquire(@), r.ok)]
                /\ IF r.made # Null /\ mcfg.promote
                   THEN /\ ml' = [ml EXCEPT ![t].made = r.made, ![t].target = 0]
                        /\ MirGoto(t, "promote") /\ UNCHANGED mseen
                   ELSE IF l.path.levels = 0 THEN MirDone(t)
                   ELSE MirSeek(t, l, "split", l.path.k_min[0], 0)

\* install_index_entry, and mirror_insert_at_top_level at an index level.
InstallIndexEntry(t) ==
    LET l == ml[t]
        r == mir_insert(mheap, l.curr, <<l.key, l.child>>, l.addr)
    IN  /\ MirAt(t, "index entry")
        /\ IF ~MirUpgradable(t) THEN MirRestart(t)
           ELSE /\ mheap' = [r.heap EXCEPT ![l.curr].lock = release_changed_if(acquire(@), r.ok)]
                /\ IF r.made # Null /\ mcfg.promote
                   THEN /\ ml' = [ml EXCEPT ![t].made = r.made, ![t].path.levels = 0]
                        /\ MirGoto(t, "promote") /\ UNCHANGED mseen
                   ELSE MirDone(t)

InsertAtTopLevel(t) ==
    LET l == ml[t]
        e == <<l.key, IF l.target = 0 THEN DataAddr(l.key) ELSE l.child>>
        r == mir_insert(mheap, l.curr, e, l.addr)
    IN  /\ MirAt(t, "top entry")
        /\ IF ~MirUpgradable(t) THEN MirRestart(t)
           ELSE /\ mheap' = [r.heap EXCEPT ![l.curr].lock = release_changed_if(acquire(@), r.ok)]
                /\ MirDone(t)

\* mirror_split_at_level: the node may start at the key already, may hold it as
\* an ordinary entry, or is split by the new entry.
SplitAtLevel(t) ==
    LET l == ml[t]
        c == l.curr
        h == mheap
        down == IF l.target = 0 THEN DataAddr(l.key) ELSE l.child
        addr == NodeAddr(l.target, l.key)
        starts == h[c].v # <<>> /\ sfra_first(h[c].v) = l.key
        at == sfra_split_at(h[c].v, l.key)
        full == Len(h[c].v) = MirCap /\ l.key < sfra_first(h[c].v)
        half == sfra_steal_half(h[c].v)
        g == IF full THEN mir_stitch([h EXCEPT ![c].v = half.victim], c, TRUE, NullAddr, half.new) ELSE h
        s == sfra_split_insert(g[c].v, <<l.key, down>>)
        Released(x) == [x EXCEPT ![c].lock = release(acquire(@))]
    IN  /\ MirAt(t, "split")
        /\ IF ~MirUpgradable(t) THEN MirRestart(t)
           ELSE IF starts /\ is_orphan(l.seen) THEN AfterSplit(t, Null) /\ UNCHANGED mheap
           ELSE IF starts
           THEN mheap' = Released([h EXCEPT ![c].addr = addr]) /\ AfterSplit(t, c)
           ELSE IF sfra_contains(h[c].v, l.key)
           THEN /\ mheap' = Released(mir_stitch([h EXCEPT ![c].v = at.victim], c, FALSE, addr, at.new))
                /\ AfterSplit(t, Len(h) + 1)
           ELSE /\ mheap' = Released(mir_stitch([g EXCEPT ![c].v = s.victim], c, FALSE, addr, s.new))
                /\ AfterSplit(t, Len(g) + 1)

\* --- promote_orphan: off unless the build switches it on -----------------------------

\* promote_one reads the least key of the orphan, installs it one level up and
\* then adopts the orphan; an orphan that makes in turn is promoted next.
PromoteRead(t) ==
    LET l == ml[t] IN
    /\ mpc[t] = "promote" /\ MirSame /\ UNCHANGED mheap
    /\ confirm_read(MirWord(l.made), begin_read(MirWord(l.made)))
    /\ IF l.target + 1 >= mcfg.layers THEN MirGoto(t, "promoted") /\ UNCHANGED <<ml, mseen>>
       ELSE MirSeek(t, [l EXCEPT !.child = l.made], "promote", sfra_first(mheap[l.made].v), l.target + 1)

PromoteInstall(t) ==
    LET l == ml[t]
        r == mir_insert(mheap, l.curr, <<l.key, l.child>>, NullAddr)
    IN  /\ MirAt(t, "promote")
        /\ IF ~MirUpgradable(t) THEN MirRestart(t)
           ELSE /\ mheap' = [r.heap EXCEPT ![l.curr].lock = release_changed_if(acquire(@), r.ok)]
                /\ MirGoto(t, IF r.ok THEN "adopt" ELSE "promoted")
                /\ ml' = [ml EXCEPT ![t].made = r.made] /\ UNCHANGED mseen

Adopt(t) ==
    LET n == ml[t].child IN
    /\ mpc[t] = "adopt" /\ MirSame /\ UNCHANGED <<ml, mseen>>
    /\ is_unlocked(MirWord(n))
    /\ mheap' = [mheap EXCEPT ![n].lock = IF is_orphan(@) THEN release_and_adopt(acquire(@)) ELSE @]
    /\ MirGoto(t, IF ml[t].made # Null THEN "promote" ELSE "promoted")

\* Back in mirror_reconcile.
Promoted(t) ==
    LET l == [ml[t] EXCEPT !.made = Null] IN
    /\ mpc[t] = "promoted" /\ MirSame /\ UNCHANGED mheap
    /\ IF l.path.levels = 0 THEN MirDone(t) ELSE MirSeek(t, l, "split", l.path.k_min[0], 0)

MirStep(t) ==
    \/ MirTop(t) \/ MirHop(t) \/ MirFollow(t) \/ LocateData(t) \/ GatherPrevs(t)
    \/ InstallDataEntry(t) \/ InstallIndexEntry(t) \/ InsertAtTopLevel(t) \/ SplitAtLevel(t)
    \/ PromoteRead(t) \/ PromoteInstall(t) \/ Adopt(t) \/ Promoted(t)
MirNext == \E t \in MirThread : MirStep(t) \/ \E op \in mcfg.ops : MirCall(t, op)
MirSpec == MirInit /\ [][MirNext]_mirVars
-----------------------------------------------------------------------------
MirQuiet == \A t \in MirThread : mpc[t] = "idle"

\* verify() of one level: its nodes are unlocked and within capacity, empty ones are
\* orphans, and the keys ascend from node to node.
mir_verify_level(level) ==
    LET ns == MirLayer(level)
        all == Concat(mheap, ns)
    IN  /\ \A i \in 1 .. Len(ns) :
             /\ is_unlocked(mheap[ns[i]].lock) /\ Len(mheap[ns[i]].v) <= MirCap
             /\ mheap[ns[i]].v = <<>> => is_orphan(mheap[ns[i]].lock)
        /\ \A i \in 2 .. Len(all) : KeyOf(all[i - 1]) < KeyOf(all[i])

\* verify_index(): the down pointers of a level are the nodes of the level below that
\* are no orphans, in order, each under its first key.
mir_verify_index(level) ==
    LET downs == Concat(mheap, MirLayer(level))
        routed == SelectSeq(MirLayer(level - 1), LAMBDA n : ~is_orphan(mheap[n].lock))
    IN  /\ routed = [i \in 1 .. Len(downs) |-> ValOf(downs[i])]
        /\ \A i \in 1 .. Len(downs) : mheap[routed[i]].v # <<>> /\ KeyOf(downs[i]) = sfra_first(mheap[routed[i]].v)

\* The structure is sound whenever no operation is running, as verify() says: locks
\* are free, keys ascend along every level and every level routes to exactly the
\* nodes below that are no orphans.  Only the heads are ever empty.
MirQuiescentVerify ==
    MirQuiet =>
      /\ \A level \in 0 .. mcfg.layers - 1 : mir_verify_level(level)
      /\ \A level \in 1 .. mcfg.layers - 1 : mir_verify_index(level)
      /\ \A level \in 0 .. mcfg.layers - 1 : \A i \in 2 .. Len(MirLayer(level)) : mheap[MirLayer(level)[i]].v # <<>>

\* The fidelity property of the interface document, at every moment and not
\* only at rest: a node that is not an orphan starts where a remote node of its
\* level starts, and carries that node's address; a cached routing entry is
\* never wrong.  (Promotion gives it up by design.)
MirFidelity ==
    /\ ~mcfg.promote =>
         \A level \in 0 .. mcfg.layers - 1 : \A i \in 2 .. Len(MirLayer(level)) :
            LET n == mheap[MirLayer(level)[i]]
            IN  is_orphan(n.lock) \/ /\ sfra_first(n.v) \in RemoteMins(level)
                                     /\ n.addr = NodeAddr(level, sfra_first(n.v))
    /\ \A e \in Directory(mheap) : KeyOf(e) \in remote /\ ValOf(e) = DataAddr(KeyOf(e))

\* locate_data answers with the entry of the greatest cached key not above the
\* one sought, and gather_prevs, at every level, with the address of the node that
\* covers the key at the moment it is read, however the levels are being split.
\* That address is of a remote node of the same level, never one to the right of
\* the key; only what a local orphan carries is a mere hint, as the interface
\* document says (cache-remote-interface.md:134-145): an overflow tags the orphan
\* with the address its caller came with, whatever keys it takes.
MirLookupsExact ==
    \A t \in MirThread : mseen[t] # <<>> =>
      LET s == mseen[t][1]
          below == { KeyOf(e) : e \in { e \in s.cached : KeyOf(e) <= s.op.k } }
      IN  IF s.op.kind = "locate"
          THEN s.answer = IF below = {} THEN NullAddr ELSE DataAddr(Greatest(below))
          ELSE /\ DOMAIN s.answer = 0 .. (IF s.op.height > mcfg.layers THEN mcfg.layers ELSE s.op.height) - 1
               /\ \A L \in DOMAIN s.answer :
                    LET g == s.answer[L] IN
                    /\ g.node = g.covering
                    /\ g.addr = NullAddr \/ g.addr[1] = L
                    /\ g.orphan \/ g.addr[2] <= s.op.k
=============================================================================

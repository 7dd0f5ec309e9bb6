------------------------------ MODULE SvNodes ------------------------------
(***************************************************************************)
(* The nodes of a skip vector and the sequential algorithms on them         *)
(* (skipvector.h).  A heap is a sequence of nodes; a pointer is a position  *)
(* in it, 0 the null pointer.  Layer -1 is the data layer, layer i >= 0 the *)
(* index layer i; the heads of the layers are the first nodes of the heap.  *)
(* A node's vector is the sequence of its entries <<key, value or down      *)
(* pointer>> with the operations of VectorSfra.                             *)
(*                                                                          *)
(* cfg holds the template and run-time parameters: layers, the exponents    *)
(* idx and data, and merge_threshold.                                       *)
(***************************************************************************)
EXTENDS SvLock, VectorSfra, TLC

Null == 0
HeadOf(layer) == layer + 2
DataLayer == -1

sv_new_node(orphan, v, next) == [lock |-> new_lock(orphan), v |-> v, next |-> next]
sv_heads(layers) == [n \in 1 .. layers + 1 |-> sv_new_node(TRUE, <<>>, Null)] \o <<>>

\* new node_t(prev, orphan): the node is stitched in after prev.
stitch(h, prev, orphan, v) ==
    Append([h EXCEPT ![prev].next = Len(h) + 1], sv_new_node(orphan, v, h[prev].next))

exp_of(cfg, layer) == IF layer = DataLayer THEN cfg.data ELSE cfg.idx
get_vector_size(exp) == IF exp > 0 THEN 2 * 2 ^ exp ELSE 1

should_merge(cfg, layer, h, c, n, cleanup) ==
    /\ is_orphan(h[n].lock)
    /\ \/ h[n].v = <<>>
       \/ /\ cleanup /\ exp_of(cfg, layer) > 0
          /\ Len(h[c].v) + Len(h[n].v) < cfg.merge_threshold * 2 ^ exp_of(cfg, layer)

\* merge() takes over the successor's entries and unlinks it; the caller has
\* the successor's lock, which dies.
node_merge(h, c) ==
    LET zombie == h[c].next
    IN  [h EXCEPT ![c].v = sfra_merge(@, h[zombie].v), ![c].next = h[zombie].next,
                  ![zombie].v = <<>>, ![zombie].lock = die(acquire(@))]

\* insert(): a full node is split, its upper half goes to a new orphan.
node_insert(cfg, layer, h, c, e) ==
    LET r == sfra_insert(h[c].v, e, get_vector_size(exp_of(cfg, layer)))
        s == sfra_steal_half_and_insert(h[c].v, e)
    IN  IF r.overfull
        THEN [ok |-> TRUE, heap |-> stitch([h EXCEPT ![c].v = s.victim], c, TRUE, s.new)]
        ELSE [ok |-> r.ok, heap |-> [h EXCEPT ![c].v = r.v]]

\* The partition of a node at a new boundary: entry e and what is above it go
\* to a new node, the last of the heap.  A full leftmost node whose least key
\* is above e first sheds its upper half.
node_partition(cfg, layer, h, c, e) ==
    LET half == sfra_steal_half(h[c].v)
        full == Len(h[c].v) = get_vector_size(exp_of(cfg, layer)) /\ KeyOf(e) < sfra_first(h[c].v)
        g == IF full THEN stitch([h EXCEPT ![c].v = half.victim], c, TRUE, half.new) ELSE h
        s == sfra_split_insert(g[c].v, e)
    IN  stitch([g EXCEPT ![c].v = s.victim], c, FALSE, s.new)

\* The down pointer for k: the entry's, or the head of the layer below.
down_of(f, layer) == IF f = <<>> THEN HeadOf(layer - 1) ELSE ValOf(f[1])
found_key(f, k) == f # <<>> /\ KeyOf(f[1]) = k

\* The while condition of check_next: the search may have to go on to next.
may_follow(h, c, k) == h[c].next # Null /\ (h[c].v = <<>> \/ k > sfra_last(h[c].v))
-----------------------------------------------------------------------------
RECURSIVE check_next_sequential(_, _, _, _, _)
check_next_sequential(cfg, layer, h, c, k) ==
    LET n == h[c].next IN
    IF ~may_follow(h, c, k) THEN [heap |-> h, node |-> c]
    ELSE IF should_merge(cfg, layer, h, c, n, TRUE)
    THEN LET RECURSIVE absorb(_)
             absorb(g) == IF g[c].next # Null /\ should_merge(cfg, layer, g, c, g[c].next, TRUE)
                          THEN absorb(node_merge(g, c)) ELSE g
             g == absorb(h)
         IN  IF g[c].next = Null \/ k < sfra_first(g[g[c].next].v) THEN [heap |-> g, node |-> c]
             ELSE check_next_sequential(cfg, layer, g, g[c].next, k)
    ELSE IF k < sfra_first(h[n].v) THEN [heap |-> h, node |-> c]
    ELSE check_next_sequential(cfg, layer, h, n, k)

\* insert_seq: the descent, and then the insertion at the height chosen.
RECURSIVE seq_descent(_, _, _, _, _, _)
seq_descent(cfg, layer, h, c, k, prev_nodes) ==
    LET a == check_next_sequential(cfg, layer, h, c, k)
        f == sfra_find_lte(a.heap[a.node].v, k)
    IN  IF layer = DataLayer \/ found_key(f, k)
        THEN [heap |-> a.heap, node |-> a.node, prev_nodes |-> prev_nodes,
              found |-> sfra_contains(a.heap[a.node].v, k)]
        ELSE seq_descent(cfg, layer - 1, a.heap, down_of(f, layer), k, prev_nodes @@ (layer :> a.node))

RECURSIVE seq_link(_, _, _, _, _, _)
seq_link(cfg, i, h, prev_nodes, height, e) ==
    IF i + 1 < height
    THEN LET g == node_partition(cfg, i, h, prev_nodes[i], e)
         IN  seq_link(cfg, i + 1, g, prev_nodes, height, <<KeyOf(e), Len(g)>>)
    ELSE node_insert(cfg, i, h, prev_nodes[i], e).heap

insert_seq(cfg, h, e, height) ==
    LET d == seq_descent(cfg, cfg.layers - 1, h, HeadOf(cfg.layers - 1), KeyOf(e), <<>>)
        g == node_partition(cfg, DataLayer, d.heap, d.node, e)
    IN  IF d.found THEN d.heap
        ELSE IF height = 0 THEN node_insert(cfg, DataLayer, d.heap, d.node, e).heap
        ELSE seq_link(cfg, 0, g, d.prev_nodes, height, <<KeyOf(e), Len(g)>>)

\* random_height(): which heights the geometric draw can give.
random_height(cfg) == 0 .. cfg.layers
-----------------------------------------------------------------------------
\* The nodes of a layer, in order.
RECURSIVE chain(_, _)
chain(h, n) == IF n = Null THEN <<>> ELSE <<n>> \o chain(h, h[n].next)
Layer(h, layer) == chain(h, HeadOf(layer))
LayerNodes(h, layer) == LET ns == Layer(h, layer) IN { ns[i] : i \in 1 .. Len(ns) }
LayerEntries(h, layer) == UNION { Entries(h[n].v) : n \in LayerNodes(h, layer) }

RECURSIVE Concat(_, _)
Concat(h, ns) == IF ns = <<>> THEN <<>> ELSE h[Head(ns)].v \o Concat(h, Tail(ns))

\* verify(), verify_lock() and verify_index() of a quiescent structure: no node
\* of a layer is locked or dead, an empty node is an orphan, the keys ascend
\* along the layer, and the down pointers of an index layer lead, in order, to
\* exactly the nodes of the layer below that are not orphans, each under its
\* first key.
verify_layer(cfg, h, layer) ==
    LET ns == Layer(h, layer)
        all == Concat(h, ns)
    IN  /\ \A i \in 1 .. Len(ns) : /\ is_unlocked(h[ns[i]].lock)
                                   /\ h[ns[i]].v = <<>> => is_orphan(h[ns[i]].lock)
                                   /\ sfra_verify(h[ns[i]].v, get_vector_size(exp_of(cfg, layer)))
        /\ \A i \in 2 .. Len(all) : KeyOf(all[i - 1]) < KeyOf(all[i])
verify_index(h, layer) ==
    LET downs == Concat(h, Layer(h, layer))
        below == SelectSeq(Layer(h, layer - 1), LAMBDA n : ~is_orphan(h[n].lock))
    IN  /\ below = [i \in 1 .. Len(downs) |-> ValOf(downs[i])]
        /\ \A i \in 1 .. Len(downs) : KeyOf(downs[i]) = sfra_first(h[below[i]].v)
sv_verify(cfg, h) ==
    /\ \A layer \in DataLayer .. cfg.layers - 1 : verify_layer(cfg, h, layer)
    /\ \A layer \in 0 .. cfg.layers - 1 : verify_index(h, layer)
=============================================================================

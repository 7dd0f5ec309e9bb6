------------------------------- MODULE MCNodes ------------------------------
(***************************************************************************)
(* What the skip vectors are made of, for TLC: the lock of a node, its      *)
(* vectors, the hazard pointers, and the mirror cache built from them.  The *)
(* parts share nothing here; a behaviour exercises one of them and leaves   *)
(* the others at rest.                                                      *)
(***************************************************************************)
EXTENDS LockUse, NodeVectors, HazardPointers, MultivectorAsr, MirrorCache

CONSTANTS t1, t2, t3

VARIABLE part   \* the part exercised

\* The threads t1 and t2 are interchangeable: no operator chooses one.
Threads == Permutations({t1, t2})

nodesVars == <<part, lockVars, vecVars, hpVars, asrVars, mirVars>>

Locate(k) == [kind |-> "locate", k |-> k]
Gather(k, height) == [kind |-> "gather", k |-> k, height |-> height]
Reconcile(k, path) == [kind |-> "reconcile", k |-> k, path |-> path]
Insert(k) == [kind |-> "insert", k |-> k]

\* Nodes of one entry: every insertion splits.
NarrowMirror ==
    [layers |-> 3, exp |-> 0, height |-> <<3, 1, 2>>, orphans |-> {}, warm |-> <<>>, known |-> {1, 2},
     promote |-> FALSE,
     ops |-> {Locate(3), Gather(2, 2), Insert(3)} \cup { Reconcile(k, TRUE) : k \in {1, 2, 3} }]
\* Nodes of four entries over a directory that is one entry short of full, and
\* a remote directory node that overflowed.
WideMirror ==
    [layers |-> 2, exp |-> 1, height |-> <<2, 1, 2, 1, 1, 2>>, orphans |-> {<<0, 4>>}, warm |-> <<2, 4, 5>>,
     known |-> {1, 6}, promote |-> FALSE,
     ops |-> {Locate(4), Gather(5, 2), Insert(3), Reconcile(1, FALSE), Reconcile(1, TRUE), Reconcile(5, TRUE), Reconcile(6, TRUE)}]
\* The build that promotes overflow nodes.
PromotingMirror ==
    [layers |-> 3, exp |-> 0, height |-> <<2, 2, 1>>, orphans |-> {}, warm |-> <<2>>, known |-> {1, 3},
     promote |-> TRUE,
     ops |-> {Locate(3), Reconcile(3, FALSE)} \cup { Reconcile(k, TRUE) : k \in 1 .. 3 }]
MCMirConfigs == {NarrowMirror, WideMirror, PromotingMirror}

VecRest == vkind = "none" /\ left = <<>> /\ right = left /\ refL = {} /\ refR = refL /\ agree = TRUE

NodesInit ==
    /\ part \in {"lock", "vectors", "hazard pointers", "multivector", "mirror"}
    /\ LockInit /\ (part # "lock" => lkind = "seq")
    /\ IF part = "vectors" THEN VecInit ELSE VecRest
    /\ HpInit /\ AsrInit
    /\ MirInit /\ (part # "mirror" => mcfg = NarrowMirror)

NodesNext ==
    \/ part = "lock" /\ LockNext /\ UNCHANGED <<part, vecVars, hpVars, asrVars, mirVars>>
    \/ part = "vectors" /\ VecNext /\ UNCHANGED <<part, lockVars, hpVars, asrVars, mirVars>>
    \/ part = "hazard pointers" /\ HpNext /\ UNCHANGED <<part, lockVars, vecVars, asrVars, mirVars>>
    \/ part = "multivector" /\ AsrNext /\ UNCHANGED <<part, lockVars, vecVars, hpVars, mirVars>>
    \/ part = "mirror" /\ MirNext /\ UNCHANGED <<part, lockVars, vecVars, hpVars, asrVars>>

NodesSpec == NodesInit /\ [][NodesNext]_nodesVars
=============================================================================

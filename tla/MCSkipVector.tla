---------------------------- MODULE MCSkipVector ----------------------------
\* Instances of SkipVector for TLC.
EXTENDS SkipVector

CONSTANTS s1, s2

Op(kind, k) == [kind |-> kind, k |-> k]
Points(keys, heights) ==
    { Op("contains", k) : k \in keys } \cup { Op("remove", k) : k \in keys }
    \cup { [kind |-> "insert", k |-> k, v |-> 1, height |-> h] : k \in keys, h \in heights }
Walk(kind, k, to, stop) == [kind |-> kind, k |-> k, to |-> to, stop |-> stop]

\* Nodes of one entry: every insertion splits, nothing but empty nodes merges.
ListConfig ==
    [layers |-> 2, idx |-> 0, data |-> 0, merge_threshold |-> 1,
     setup |-> <<<<1, 1>>, <<2, 2>>, <<3, 0>>>>,
     ops |-> Points({2, 3}, 0 .. 2) \cup {Walk("for_each", 0, 9, 0), Walk("range", 2, 3, 0)}]

\* Nodes of up to four entries that merge below four.
VectorConfig ==
    [layers |-> 2, idx |-> 1, data |-> 1, merge_threshold |-> 2,
     setup |-> <<<<1, 0>>, <<2, 2>>, <<4, 1>>, <<5, 0>>>>,
     ops |-> Points({2, 4}, {0, 2}) \cup {Walk("for_each", 0, 9, 4), Walk("range", 3, 5, 0), Walk("range", 3, 2, 0)}]

\* A node that loses its first key, and is too large to be merged, no longer
\* covers the keys after it: a traversal that chose it before must notice.
ShrinkConfig ==
    [layers |-> 1, idx |-> 1, data |-> 1, merge_threshold |-> 1,
     setup |-> <<<<2, 0>>, <<4, 1>>, <<6, 0>>>>,
     ops |-> {Op("remove", 4), Op("contains", 5)} \cup
             { [kind |-> "insert", k |-> k, v |-> 1, height |-> 0] : k \in {4, 5} }]
MCSvConfigs == {ListConfig, VectorConfig, ShrinkConfig}
=============================================================================

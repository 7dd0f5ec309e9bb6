----------------------------- MODULE NodeVectors ----------------------------
(***************************************************************************)
(* The vectors of two neighbouring skip-vector nodes, called as the nodes   *)
(* call them under their lock: insert into the left one, split it into the  *)
(* empty right one, merge the right one back, remove, and move on to the    *)
(* right node.  Beside them the reference: the sets of entries (for the     *)
(* multimap, the stable sequences) the two vectors are meant to hold.       *)
(***************************************************************************)
EXTENDS VectorUmfra, MultivectorCfra

CONSTANTS
    VecCapacity,    \* CAPACITY of the vectors
    VecKeys,        \* bound: the keys used
    VecVals,        \* bound: the values used in the maps
    MultiKeys       \* bound: the keys used in the multimap

ASSUME VecCapacityAssumption == VecCapacity \in Nat \ {0}
ASSUME VecKeysAssumption == VecKeys \subseteq Nat \ {0}

VARIABLES
    vkind,      \* which vector class: "sfra", "umfra" or "cfra"
    left,       \* the vector of the node
    right,      \* the vector of its successor
    refL,       \* what left is meant to hold
    refR,       \* what right is meant to hold
    agree       \* the last call returned what the reference returns

vecVars == <<vkind, left, right, refL, refR, agree>>

VecEntry == VecKeys \X VecVals
Keys(S) == { KeyOf(e) : e \in S }
Lowest(S, n) == { e \in S : Cardinality({ f \in S : KeyOf(f) < KeyOf(e) }) < n }
Above(S, k) == { e \in S : KeyOf(e) > k }
CeilHalf(n) == (n + 1) \div 2

VecInit ==
    /\ vkind \in {"sfra", "umfra", "cfra"}
    /\ left = IF vkind = "cfra" THEN cfra_new(VecCapacity) ELSE <<>>
    /\ right = left
    /\ refL = IF vkind = "cfra" THEN <<>> ELSE {}
    /\ refR = refL
    /\ agree = TRUE

\* --- the two map vectors -------------------------------------------------

IsMap == vkind \in {"sfra", "umfra"}
Sorted == vkind = "sfra"

\* node_t::insert: an overfull vector is split and the new node takes the rest.
NodeInsert(e) ==
    /\ IsMap
    /\ right # <<>> => KeyOf(e) < IF Sorted THEN sfra_first(right) ELSE umfra_first(right)
    /\ LET r == IF Sorted THEN sfra_insert(left, e, VecCapacity)
                ELSE umfra_insert(left, e, VecCapacity)
           s == IF Sorted THEN sfra_steal_half_and_insert(left, e)
                ELSE umfra_steal_half_and_insert(left, e, VecCapacity)
           all == refL \cup {e}
       IN  /\ r.overfull => right = <<>>
           /\ left' = IF r.overfull THEN s.victim ELSE r.v
           /\ right' = IF r.overfull THEN s.new ELSE right
           /\ refL' = IF KeyOf(e) \in Keys(refL) THEN refL
                      ELSE Lowest(all, IF r.overfull THEN CeilHalf(VecCapacity + 1)
                                       ELSE Cardinality(all))
           /\ refR' = IF r.overfull THEN all \ refL' ELSE refR
           /\ agree' = (r.ok = (KeyOf(e) \notin Keys(refL) /\ Cardinality(refL) < VecCapacity)
                        /\ r.overfull = (KeyOf(e) \notin Keys(refL) /\ Cardinality(refL) = VecCapacity))
    /\ UNCHANGED vkind

\* The new tall node takes e and everything above it; a full vector whose keys
\* are all above e has been halved before.
NodeSplitInsert(e) ==
    /\ IsMap /\ right = <<>> /\ KeyOf(e) \notin Keys(refL)
    /\ ~(Cardinality(refL) = VecCapacity /\ Keys(refL) = Keys(Above(refL, KeyOf(e))))
    /\ LET s == IF Sorted THEN sfra_split_insert(left, e) ELSE umfra_split_insert(left, e)
       IN  left' = s.victim /\ right' = s.new
    /\ refR' = {e} \cup Above(refL, KeyOf(e))
    /\ refL' = refL \ refR'
    /\ agree' = TRUE
    /\ UNCHANGED vkind

\* split_at: only the sorted vector has it; k is an entry already.
NodeSplitAt(k) ==
    /\ Sorted /\ right = <<>> /\ sfra_contains(left, k)
    /\ LET s == sfra_split_at(left, k) IN left' = s.victim /\ right' = s.new
    /\ refR' = { e \in refL : KeyOf(e) >= k }
    /\ refL' = refL \ refR'
    /\ agree' = TRUE
    /\ UNCHANGED vkind

NodeStealHalf ==
    /\ IsMap /\ right = <<>>
    /\ LET s == IF Sorted THEN sfra_steal_half(left) ELSE umfra_steal_half(left)
       IN  left' = s.victim /\ right' = s.new
    /\ refL' = Lowest(refL, Cardinality(refL) \div 2)
    /\ refR' = refL \ refL'
    /\ agree' = TRUE
    /\ UNCHANGED vkind

NodeMerge ==
    /\ IsMap /\ Len(left) + Len(right) <= VecCapacity
    /\ left' = IF Sorted THEN sfra_merge(left, right) ELSE umfra_merge(left, right)
    /\ right' = <<>>
    /\ refL' = refL \cup refR
    /\ refR' = {}
    /\ agree' = TRUE
    /\ UNCHANGED vkind

NodeRemove(k) ==
    /\ IsMap
    /\ LET r == IF Sorted THEN sfra_remove(left, k) ELSE umfra_remove(left, k)
       IN  /\ left' = r.v
           /\ agree' = (r.ok = (k \in Keys(refL)))
    /\ refL' = { e \in refL : KeyOf(e) # k }
    /\ UNCHANGED <<vkind, right, refR>>

\* for_each() and range() of the unsorted vector sort it in place.
NodeSort ==
    /\ vkind = "umfra"
    /\ left' = umfra_sort(left)
    /\ UNCHANGED <<vkind, right, refL, refR, agree>>

NodeAdvance ==
    /\ right # (IF IsMap THEN <<>> ELSE cfra_new(VecCapacity))
    /\ left' = right
    /\ right' = IF IsMap THEN <<>> ELSE cfra_new(VecCapacity)
    /\ refL' = refR
    /\ refR' = IF IsMap THEN {} ELSE <<>>
    /\ UNCHANGED <<vkind, agree>>

\* --- the multimap vector -------------------------------------------------

\* One vector at a time: the stolen one becomes the left one by NodeAdvance.
Multi == vkind = "cfra" /\ right = cfra_new(VecCapacity)

\* A value no live entry with the key has, so that an entry names its insertion.
Stamps(k) == { ValOf(e) : e \in { f \in Entries(refL) \cup Entries(refR) : KeyOf(f) = k } }
Stamp(k) == CHOOSE v \in 1 .. 2 * VecCapacity + 1 :
               v \notin Stamps(k) /\ 1 .. v - 1 \subseteq Stamps(k)

MultiInsert(k) ==
    /\ Multi
    /\ LET e == <<k, Stamp(k)>>
           r == cfra_insert(left, e)
           after == Cardinality({ i \in 1 .. Len(refL) : KeyOf(refL[i]) <= KeyOf(e) })
       IN  /\ left' = r.v
           /\ refL' = IF Len(refL) = VecCapacity THEN refL ELSE InsertAtPos(refL, after, e)
           /\ agree' = ((r.res = "MUST_SPLIT") = (Len(refL) = VecCapacity))
    /\ UNCHANGED <<vkind, right, refR>>

MultiSplit(k, half) ==
    /\ Multi
    /\ LET e == <<k, Stamp(k)>>
           s == IF half THEN cfra_steal_half(left) ELSE cfra_split_insert(left, e)
           keep == IF half THEN Len(refL) \div 2
                   ELSE Cardinality({ i \in 1 .. Len(refL) : KeyOf(refL[i]) <= KeyOf(e) })
       IN  /\ half \/ Len(refL) - keep < VecCapacity
           /\ left' = s.victim /\ right' = s.new
           /\ refL' = Prefix(refL, keep)
           /\ refR' = (IF half THEN <<>> ELSE <<e>>) \o Suffix(refL, keep)
    /\ agree' = TRUE
    /\ UNCHANGED vkind

MultiRemove(k) ==
    /\ Multi
    /\ LET r == cfra_remove(left, k)
           at == { i \in 1 .. Len(refL) : KeyOf(refL[i]) = k }
           i == CHOOSE x \in at : \A y \in at : x <= y
       IN  /\ left' = r.v
           /\ refL' = IF at = {} THEN refL ELSE Prefix(refL, i - 1) \o Suffix(refL, i)
           /\ agree' = IF at = {} THEN ~r.ok ELSE r.ok /\ r.val = ValOf(refL[i])
    /\ UNCHANGED <<vkind, right, refR>>

MultiExtractMin ==
    /\ Multi
    /\ LET r == cfra_extract_min(left)
       IN  /\ left' = r.v
           /\ refL' = IF refL = <<>> THEN refL ELSE Tail(refL)
           /\ agree' = IF refL = <<>> THEN ~r.ok ELSE r.ok /\ r.entry = refL[1]
    /\ UNCHANGED <<vkind, right, refR>>

VecNext ==
    \/ \E e \in VecEntry : NodeInsert(e) \/ NodeSplitInsert(e)
    \/ \E k \in VecKeys : NodeSplitAt(k) \/ NodeRemove(k)
    \/ \E k \in MultiKeys : MultiInsert(k) \/ MultiRemove(k) \/ MultiSplit(k, FALSE)
    \/ MultiSplit(0, TRUE)
    \/ NodeStealHalf
    \/ NodeMerge
    \/ NodeSort
    \/ NodeAdvance
    \/ MultiExtractMin

VecSpec == VecInit /\ [][VecNext]_vecVars
-----------------------------------------------------------------------------
\* The vectors satisfy their own verify(), hold exactly the reference entries,
\* and every call returned what the reference returns: no split, half-steal,
\* merge or gap-filling removal loses, duplicates or misplaces an entry, the
\* minimum and the maximum stay where first() and last() look for them, and the
\* multimap keeps entries with equal keys in insertion order.
VectorsHoldTheirEntries ==
    /\ agree
    /\ CASE vkind = "sfra" -> /\ sfra_verify(left, VecCapacity) /\ sfra_verify(right, VecCapacity)
                              /\ Entries(left) = refL /\ Entries(right) = refR
         [] vkind = "umfra" -> /\ umfra_verify(left, VecCapacity) /\ umfra_verify(right, VecCapacity)
                               /\ Entries(left) = refL /\ Entries(right) = refR
         [] vkind = "cfra" -> /\ cfra_verify(left) /\ cfra_verify(right)
                              /\ Contents(left) = refL /\ Contents(right) = refR
         [] OTHER -> TRUE

\* The greatest reference entries at or below k (one, or none).
RefLte(S, k) == { e \in S : KeyOf(e) <= k /\ \A f \in S : KeyOf(f) <= k => KeyOf(f) <= KeyOf(e) }
RefLteSeq(s, k) ==
    LET n == Cardinality({ i \in 1 .. Len(s) : KeyOf(s[i]) <= k })
    IN  IF n = 0 THEN <<>> ELSE <<s[n]>>
RefLookup(s, k) ==
    LET t == SelectSeq(s, LAMBDA e : KeyOf(e) = k)
    IN  IF t = <<>> THEN <<>> ELSE <<ValOf(t[1])>>
SortedUpTo(S, from, to, stop) ==
    { e \in S : /\ KeyOf(e) >= from /\ KeyOf(e) <= to
                /\ \A f \in S : KeyOf(f) = stop /\ KeyOf(f) >= from => KeyOf(e) <= KeyOf(f) }

\* The searches agree with the reference for every key: contains(), find_lte()
\* (which picks the child to descend to), first() and last(), the multimap's
\* lookup of the first and find_lte() of the last of equal keys, the visiting
\* order of for_each(), and range(), with f stopping it anywhere.  Of the unsorted
\* vector's range() it says that no entry of the range is missed.  The converse,
\* that f is applied to the intersection only (vector_umfra.h:898-899), is not
\* true of the loop, which hands f the first entry beyond the range before it
\* stops.
SearchesAgree ==
    /\ IsMap => \A k \in VecKeys :
         /\ (IF Sorted THEN sfra_contains(left, k) ELSE umfra_contains(left, k))
              = (k \in Keys(refL))
         /\ Entries(IF Sorted THEN sfra_find_lte(left, k) ELSE umfra_find_lte(left, k))
              = RefLte(refL, k)
         /\ refL # {} =>
              /\ \A j \in Keys(refL) :
                   (IF Sorted THEN sfra_first(left) ELSE umfra_first(left)) <= j
              /\ \A j \in Keys(refL) :
                   j <= IF Sorted THEN sfra_last(left) ELSE umfra_last(left)
         /\ vkind = "umfra" =>
              LET t == umfra_for_each(left, k)
              IN  /\ Entries(t) = SortedUpTo(refL, 0, 1000, k)
                  /\ \A i \in 2 .. Len(t) : KeyOf(t[i - 1]) < KeyOf(t[i])
                  /\ \A i \in 1 .. Len(t) : umfra_at(umfra_sort(left), i - 1) = KeyOf(t[i])
         /\ Sorted => \A to, stop \in VecKeys :
              LET r == sfra_range(left, k, to, stop)
              IN  /\ Entries(r.seen) = SortedUpTo(refL, k, to, stop)
                  /\ r.end = (/\ \E e \in Above(refL, to) : KeyOf(e) >= k
                              /\ stop \notin Keys(Entries(r.seen)))
         /\ ~Sorted => \A to, stop \in VecKeys :
              SortedUpTo(refL, k, to, stop) \subseteq Entries(umfra_range(left, k, to, stop).seen)
    /\ vkind = "cfra" => \A k \in MultiKeys :
         /\ cfra_contains(left, k) = (RefLookup(refL, k) # <<>>)
         /\ cfra_lookup(left, k) = RefLookup(refL, k)
         /\ cfra_find_lte(left, k) = RefLteSeq(refL, k)
         /\ refL # <<>> => cfra_first(left) = KeyOf(refL[1]) /\ cfra_last(left) = KeyOf(refL[Len(refL)])
=============================================================================

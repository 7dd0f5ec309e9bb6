--------------------------- MODULE MultivectorCfra --------------------------
(***************************************************************************)
(* The circular sorted multimap vector (multivector_cfra.h): a physical     *)
(* array, the physical index of the minimum and the number of entries.      *)
(* Keys may repeat; insert() and remove() are stable.  A slot outside the   *)
(* live window holds NoEntry: the code leaves stale bytes there and no      *)
(* operation reads them.                                                    *)
(***************************************************************************)
EXTENDS VectorSfra

NoEntry == <<0, 0>>

cfra_new(cap) == [list |-> [i \in 0 .. cap - 1 |-> NoEntry], min_index |-> 0, size |-> 0]
Capacity(c) == Cardinality(DOMAIN c.list)

phys(c, idx) == (idx + c.min_index) % Capacity(c)
Logical(c, idx) == c.list[phys(c, idx)]
LogicalKey(c, idx) == KeyOf(Logical(c, idx))
Slots(c) == { phys(c, i) : i \in 0 .. c.size - 1 }

\* The bytes outside the window are dead.
Live(c) == [c EXCEPT !.list = [p \in DOMAIN c.list |->
                                 IF p \in Slots(c) THEN c.list[p] ELSE NoEntry]]

\* The array that holds the entries of s from physical index m on.
Laid(cap, m, s) ==
    [list |-> [p \in 0 .. cap - 1 |->
                 LET i == (p + cap - m) % cap IN IF i < Len(s) THEN s[i + 1] ELSE NoEntry],
     min_index |-> m, size |-> Len(s)]

find_any(c, k) ==
    LET search[left \in 0 .. c.size, right \in -1 .. c.size - 1] ==
          LET mid == left + ((right - left) \div 2)
          IN  IF right < left THEN left
              ELSE IF LogicalKey(c, mid) = k THEN mid
              ELSE IF LogicalKey(c, mid) > k THEN search[left, mid - 1]
              ELSE search[mid + 1, right]
    IN  search[0, c.size - 1]

find_first(c, k) ==
    LET search[left \in 0 .. c.size, right \in -1 .. c.size - 1] ==
          LET mid == left + ((right - left) \div 2)
          IN  IF left > right THEN left
              ELSE IF left = right
              THEN IF LogicalKey(c, left) >= k THEN left ELSE left + 1
              ELSE IF LogicalKey(c, mid) = k THEN search[left, mid]
              ELSE IF LogicalKey(c, mid) > k THEN search[left, mid - 1]
              ELSE search[mid + 1, right]
    IN  search[0, c.size - 1]

find_last(c, k) ==
    LET search[left \in 0 .. c.size, right \in -1 .. c.size - 1] ==
          LET mid == left + ((right - left + 1) \div 2)
          IN  IF left > right THEN right
              ELSE IF left = right
              THEN IF LogicalKey(c, right) <= k THEN right ELSE right - 1
              ELSE IF LogicalKey(c, mid) > k THEN search[left, mid - 1]
              ELSE IF LogicalKey(c, mid) < k THEN search[mid + 1, right]
              ELSE search[mid, right]
    IN  search[0, c.size - 1]

\* The memcpy of a window of the victim, in two pieces when it wraps around.
cfra_copy(victim, start_pos, count) ==
    LET cap == Capacity(victim)
        from == (victim.min_index + start_pos) % cap
        first_batch == IF from + count > cap THEN cap - from ELSE count
    IN  [i \in 1 .. count |->
           IF i <= first_batch THEN victim.list[from + i - 1] ELSE victim.list[i - first_batch - 1]]

cfra_split_insert(victim, e) ==
    LET start_pos == find_last(victim, KeyOf(e)) + 1
        stolen == victim.size - start_pos
    IN  Split(Laid(Capacity(victim), 0, <<e>> \o cfra_copy(victim, start_pos, stolen)),
              Live([victim EXCEPT !.size = @ - stolen]))

cfra_steal_half(victim) ==
    LET stolen == (victim.size + 1) \div 2
    IN  Split(Laid(Capacity(victim), 0, cfra_copy(victim, victim.size - stolen, stolen)),
              Live([victim EXCEPT !.size = @ - stolen]))

\* insert(): MUST_SPLIT when full; the shift runs from the nearer end.
cfra_insert(c, e) ==
    LET cap == Capacity(c)
        n == c.size
        k == KeyOf(e)
        right == n > 0 /\ k >= LogicalKey(c, n \div 2)
        m == IF n > 0 /\ ~right THEN (c.min_index + cap - 1) % cap ELSE c.min_index
        \* the entries that stay in front of the new one
        front == IF right
                 THEN CHOOSE i \in 1 .. n : /\ LogicalKey(c, i - 1) <= k
                                            /\ \A j \in i .. n - 1 : LogicalKey(c, j) > k
                 ELSE CHOOSE i \in 0 .. n : /\ \A j \in 0 .. i - 1 : LogicalKey(c, j) <= k
                                            /\ i < n => LogicalKey(c, i) > k
        shifted == [p \in 0 .. cap - 1 |->
                      LET i == (p + cap - m) % cap          \* logical position in the result
                      IN  IF i = front THEN e
                          ELSE IF right /\ i > front /\ i <= n THEN Logical(c, i - 1)
                          ELSE IF ~right /\ i < front THEN Logical(c, i)
                          ELSE c.list[p]]
    IN  IF n = cap THEN [res |-> "MUST_SPLIT", v |-> c]
        ELSE [res |-> "SUCCESS", v |-> [list |-> shifted, min_index |-> m, size |-> n + 1]]

cfra_remove(c, k) ==
    LET n == c.size
        i == find_first(c, k)
        found == i < n /\ LogicalKey(c, i) <= k
        right == i >= n \div 2
        closed == [p \in DOMAIN c.list |->
                     LET j == (p + Capacity(c) - c.min_index) % Capacity(c)
                     IN  IF right /\ j >= i /\ j < n - 1 THEN Logical(c, j + 1)
                         ELSE IF ~right /\ j > 0 /\ j <= i THEN Logical(c, j - 1)
                         ELSE c.list[p]]
        m == IF right THEN c.min_index ELSE (c.min_index + 1) % Capacity(c)
    IN  [ok |-> found, val |-> IF found THEN ValOf(Logical(c, i)) ELSE 0,
         v |-> IF found THEN Live([list |-> closed, min_index |-> m, size |-> n - 1]) ELSE c]

cfra_contains(c, k) == find_any(c, k) < c.size /\ LogicalKey(c, find_any(c, k)) = k
\* contains(k, v): the value of the first entry with the key.
cfra_lookup(c, k) ==
    LET i == find_first(c, k)
    IN  IF i >= c.size \/ LogicalKey(c, i) # k THEN <<>> ELSE <<ValOf(Logical(c, i))>>

cfra_extract_min(c) ==
    IF c.size <= 0 THEN [ok |-> FALSE, entry |-> NoEntry, v |-> c]
    ELSE [ok |-> TRUE, entry |-> Logical(c, 0),
          v |-> Live([c EXCEPT !.size = @ - 1, !.min_index = (@ + 1) % Capacity(c)])]

cfra_first(c) == LogicalKey(c, 0)
cfra_last(c) == LogicalKey(c, c.size - 1)

cfra_find_lte(c, k) ==
    LET pos == find_last(c, k) IN IF pos < 0 THEN <<>> ELSE <<Logical(c, pos)>>

cfra_verify(c) ==
    /\ c.size <= Capacity(c)
    /\ \A i \in 1 .. c.size - 1 : LogicalKey(c, i) >= LogicalKey(c, i - 1)

\* The logical contents, in order.
Contents(c) == [i \in 1 .. c.size |-> Logical(c, i - 1)]
=============================================================================

----------------------------- MODULE VectorUmfra ----------------------------
(***************************************************************************)
(* The unsorted vector of the data nodes (vector_umfra.h): its invariant is *)
(* that the minimum is at position 0 and, of two or more entries, the       *)
(* maximum at position 1.  Same conventions as VectorSfra.  Entry i of the  *)
(* array is element i + 1 of the sequence.                                  *)
(***************************************************************************)
EXTENDS VectorSfra

LOCAL INSTANCE SequencesExt

At(s, pos) == s[pos + 1]
KeyAt(s, pos) == KeyOf(s[pos + 1])
Put(s, pos, e) == IF pos = Len(s) THEN Append(s, e) ELSE [s EXCEPT ![pos + 1] = e]
Swap(s, n, m) == [s EXCEPT ![n + 1] = At(s, m), ![m + 1] = At(s, n)]

\* Position of the least / greatest key among the positions P of s.
ArgMin(s, P) == CHOOSE p \in P : \A q \in P : KeyAt(s, p) <= KeyAt(s, q)
ArgMax(s, P) == CHOOSE p \in P : \A q \in P : KeyAt(s, p) >= KeyAt(s, q)

umfra_find(s, k) == \E i \in 1 .. Len(s) : KeyOf(s[i]) = k

\* Swaps the maximum to the end and partitions the rest around its median.
\* std::nth_element sorts a range of up to three entries by insertion, which is
\* every range a vector of capacity 4 gives it: here the range comes out sorted.
umfra_quickselect_median(s) ==
    IF Len(s) <= 2 THEN s
    ELSE LET moved == Swap(s, 1, Len(s) - 1)
             middle == SubSeq(moved, 2, Len(s) - 1)
         IN  <<moved[1]>> \o SortSeq(middle, LAMBDA d, e : KeyOf(d) < KeyOf(e))
                          \o <<moved[Len(s)]>>

umfra_restore_invariant(s) == IF Len(s) > 2 THEN Swap(s, 1, Len(s) - 1) ELSE s

umfra_find_new_min(s) ==
    IF Len(s) <= 2 THEN s ELSE Swap(s, 0, ArgMin(s, {0} \cup 2 .. Len(s) - 1))

umfra_find_new_max(s) ==
    IF Len(s) <= 2 THEN s ELSE Swap(s, 1, ArgMax(s, 1 .. Len(s) - 1))

umfra_insert(s, e, cap) ==
    LET exists == umfra_find(s, KeyOf(e))
        overfull == ~exists /\ Len(s) = cap
        n == Len(s)
    IN  [ok |-> ~exists /\ ~overfull, overfull |-> overfull,
         v |-> IF exists \/ overfull THEN s
               ELSE IF n >= 1 /\ KeyOf(e) < KeyAt(s, 0)
                    THEN Put(Append(s, At(s, 0)), 0, e)
               ELSE IF n >= 2 /\ KeyOf(e) > KeyAt(s, 1)
                    THEN Put(Append(s, At(s, 1)), 1, e)
               ELSE Append(s, e)]

\* The last entry moves into the gap that pos leaves.
FillGap(s, pos) ==
    LET n == Len(s) - 1
    IN  IF pos = n THEN Prefix(s, n) ELSE Put(Prefix(s, n), pos, At(s, n))

umfra_remove(s, k) ==
    LET n == Len(s)
        removed == IF n >= 1 /\ k = KeyAt(s, 0)
                   THEN IF n = 1 THEN <<>>
                        ELSE LET m == ArgMin(s, 1 .. n - 1)
                             IN  FillGap(Put(s, 0, At(s, m)), m)
                   ELSE IF n >= 2 /\ k = KeyAt(s, 1)
                   THEN IF n = 2 THEN Prefix(s, 1)
                        ELSE LET m == ArgMax(s, 2 .. n - 1)
                             IN  FillGap(Put(s, 1, At(s, m)), m)
                   ELSE IF umfra_find(s, k)
                   THEN FillGap(s, CHOOSE p \in 0 .. n - 1 : KeyAt(s, p) = k)
                   ELSE s
    IN  [ok |-> umfra_find(s, k), v |-> removed]

umfra_contains(s, k) == umfra_find(s, k)
umfra_first(s) == KeyAt(s, 0)
umfra_last(s) == IF Len(s) >= 2 THEN KeyAt(s, 1) ELSE KeyAt(s, 0)

umfra_find_lte(s, k) ==
    LET below == { p \in 0 .. Len(s) - 1 : KeyAt(s, p) <= k }
    IN  IF below = {} THEN <<>> ELSE <<At(s, ArgMax(s, below))>>

\* The last loop of split_insert: entries above k go from the victim to the new
\* vector, the end of the victim closing each gap.
umfra_steal_above(new, victim, k) ==
    LET n == Len(victim)
        state[step \in 0 .. n] ==
          IF step = 0 THEN [i |-> 2, new |-> new, victim |-> victim]
          ELSE LET st == state[step - 1]
                   v == st.victim
                   last == Len(v) - 1
               IN  IF st.i > last THEN st
                   ELSE IF KeyAt(v, st.i) < k THEN [st EXCEPT !.i = @ + 1]
                   ELSE IF KeyAt(v, last) > k
                   THEN [st EXCEPT !.new = Append(@, At(v, last)), !.victim = Prefix(v, last)]
                   ELSE [i |-> st.i + 1, new |-> Append(st.new, At(v, st.i)),
                         victim |-> FillGap(v, st.i)]
    IN  Split(state[n].new, state[n].victim)

umfra_split_insert(victim, e) ==
    LET k == KeyOf(e)
        n == Len(victim)
        above == { p \in 0 .. n - 1 : KeyAt(victim, p) > k }
        kept == { p \in 0 .. n - 1 : p # 1 /\ KeyAt(victim, p) < k }
    IN  IF above = {} THEN Split(<<e>>, victim)
        ELSE IF Cardinality(above) = n                        \* steal everything
        THEN Split(IF n = 1 THEN <<e, At(victim, 0)>>
                   ELSE <<e, At(victim, 1), At(victim, 0)>> \o Suffix(victim, 2), <<>>)
        ELSE IF kept = {0}                                    \* all but the minimum
        THEN Split(<<e>> \o Suffix(victim, 1), Prefix(victim, 1))
        ELSE LET m == ArgMax(victim, kept)
                 rest == FillGap(Put(victim, 1, At(victim, m)), m)
             IN  umfra_steal_above(<<e, At(victim, 1)>>, rest, k)

umfra_steal_half_and_insert(victim, e, cap) ==
    LET v == umfra_quickselect_median(victim)
        median_pos == Len(v) \div 2
        below == KeyOf(e) < KeyAt(v, median_pos)
        first == IF below THEN median_pos ELSE median_pos + 1
        new == umfra_restore_invariant(Suffix(v, first))
        left == Prefix(v, first)
    IN  IF below
        THEN Split(new, umfra_insert(umfra_find_new_max(left), e, cap).v)
        ELSE Split(umfra_insert(umfra_find_new_min(new), e, cap).v,
                   umfra_restore_invariant(left))

umfra_steal_half(victim) ==
    LET v == umfra_quickselect_median(victim)
        median_pos == Len(v) \div 2
    IN  Split(umfra_restore_invariant(Suffix(v, median_pos)),
              umfra_find_new_max(Prefix(v, median_pos)))

umfra_merge(s, victim) ==
    LET n == Len(s)
        m == Len(victim)
        displaced(t) == Append(t, At(t, 1))       \* list[size] = list[1]
    IN  IF m = 0 THEN s
        ELSE IF n = 0 THEN victim
        ELSE IF m = 1
        THEN IF n = 1 THEN Append(s, At(victim, 0))
             ELSE Put(displaced(s), 1, At(victim, 0))
        ELSE Put(displaced(Append(s, At(victim, 0))), 1, At(victim, 1)) \o Suffix(victim, 2)

umfra_verify(s, cap) ==
    /\ Len(s) <= cap
    /\ \A i, j \in 1 .. Len(s) : KeyOf(s[i]) = KeyOf(s[j]) => i = j
    /\ Len(s) >= 2 => KeyAt(s, 0) < KeyAt(s, 1)
    /\ \A p \in 2 .. Len(s) - 1 : KeyAt(s, p) > KeyAt(s, 0) /\ KeyAt(s, p) < KeyAt(s, 1)

umfra_sort(s) ==
    IF Len(s) > 3
    THEN Prefix(s, 2) \o SortSeq(Suffix(s, 2), LAMBDA d, e : KeyOf(d) < KeyOf(e)) ELSE s

\* at(index) of a sorted vector.
umfra_at(s, index) ==
    IF index = 0 THEN KeyAt(s, 0)
    ELSE IF index = Len(s) - 1 THEN KeyAt(s, 1) ELSE KeyAt(s, index + 1)

\* The order in which for_each() and range() come to the entries.
Visiting(s) ==
    LET t == umfra_sort(s)
    IN  IF Len(t) <= 1 THEN t ELSE <<t[1]>> \o Suffix(t, 2) \o <<t[2]>>

umfra_for_each(s, stop) ==
    LET t == Visiting(s)
    IN  Prefix(t, Cardinality({ i \in 1 .. Len(t) : \A j \in 1 .. i - 1 : KeyOf(t[j]) # stop }))

\* iterate_element_range1 skips what is below from and stops before what is
\* above to; iterate_element_range2 raises exit_flag on what is above to and
\* still applies f to it.  The first and the last entry visited go through the
\* former, an entry in between does once no earlier one was at or above from.
umfra_range(s, from, to, stop) ==
    LET t == Visiting(s)
        n == Len(t)
        visit[i \in 0 .. n] ==
          IF i = 0 THEN [seen |-> <<>>, reached |-> FALSE, exit |-> FALSE]
          ELSE LET st == visit[i - 1]
                   k == KeyOf(t[i])
                   range1 == i = n \/ ~st.reached
               IN  IF st.exit THEN st
                   ELSE IF range1 /\ k < from THEN st
                   ELSE IF range1 /\ k > to THEN [st EXCEPT !.reached = TRUE, !.exit = TRUE]
                   ELSE [seen |-> Append(st.seen, t[i]), reached |-> TRUE,
                         exit |-> k >= to \/ k = stop]
    IN  [seen |-> visit[n].seen, end |-> visit[n].exit]
=============================================================================

----------------------------- MODULE VectorSfra -----------------------------
(***************************************************************************)
(* The sorted fixed-capacity vector of the index nodes (vector_sfra.h), as  *)
(* operators on the sequence of its entries <<key, value>>: the live prefix *)
(* of the array "list", which "size" delimits.  Positions are the code's,   *)
(* from 0; entry i of the array is element i + 1 of the sequence.           *)
(***************************************************************************)
EXTENDS Integers, Sequences, FiniteSets

KeyOf(e) == e[1]
ValOf(e) == e[2]
Prefix(s, n) == SubSeq(s, 1, n)
Suffix(s, n) == SubSeq(s, n + 1, Len(s))     \* from position n on
InsertAtPos(s, pos, e) == Prefix(s, pos) \o <<e>> \o Suffix(s, pos)
Entries(s) == { s[i] : i \in 1 .. Len(s) }

\* The binary search: the position of k, or the one it should be inserted at.
sfra_find(s, k) ==
    LET search[left \in 0 .. Len(s), right \in -1 .. Len(s) - 1] ==
          LET mid == left + ((right - left) \div 2)
              at_mid == KeyOf(s[mid + 1])
          IN  IF right < left THEN left
              ELSE IF at_mid = k THEN mid
              ELSE IF at_mid > k THEN search[left, mid - 1]
              ELSE search[mid + 1, right]
    IN  search[0, Len(s) - 1]

Holds(s, pos, k) == pos < Len(s) /\ KeyOf(s[pos + 1]) = k

\* Two vectors come out of a split: the stealing one and its victim.
Split(new, victim) == [new |-> new, victim |-> victim]

sfra_split_insert(victim, e) ==
    LET start_pos == sfra_find(victim, KeyOf(e))
    IN  Split(<<e>> \o Suffix(victim, start_pos), Prefix(victim, start_pos))

sfra_split_at(victim, k) ==
    LET start_pos == sfra_find(victim, k)
    IN  Split(Suffix(victim, start_pos), Prefix(victim, start_pos))

sfra_insert_at(s, e) == InsertAtPos(s, sfra_find(s, KeyOf(e)), e)

\* insert(pair, overfull): an existing key is left alone, a full vector reports
\* itself overfull; ok is the returned flag.
sfra_insert(s, e, cap) ==
    LET exists == Holds(s, sfra_find(s, KeyOf(e)), KeyOf(e))
        overfull == ~exists /\ Len(s) = cap
    IN  [ok |-> ~exists /\ ~overfull, overfull |-> overfull,
         v |-> IF exists \/ overfull THEN s ELSE sfra_insert_at(s, e)]

\* Mutant: the median is neither kept nor taken when the entry goes to the right.
sfra_steal_half_no_median(victim, e) ==
    LET insert_pos == sfra_find(victim, KeyOf(e))
        median_pos == Len(victim) \div 2
    IN  IF insert_pos <= median_pos
        THEN Split(Suffix(victim, median_pos), sfra_insert_at(Prefix(victim, median_pos), e))
        ELSE Split(InsertAtPos(Suffix(victim, median_pos + 1), insert_pos - (median_pos + 1), e),
                   Prefix(victim, median_pos))

sfra_steal_half_and_insert(victim, e) ==
    LET insert_pos == sfra_find(victim, KeyOf(e))
        median_pos == Len(victim) \div 2
        batch == Suffix(victim, median_pos + 1)
    IN  IF insert_pos <= median_pos
        THEN Split(Suffix(victim, median_pos), sfra_insert_at(Prefix(victim, median_pos), e))
        ELSE Split(InsertAtPos(batch, insert_pos - (median_pos + 1), e),
                   Prefix(victim, median_pos + 1))

sfra_steal_half(victim) ==
    LET median_pos == Len(victim) \div 2
    IN  Split(Suffix(victim, median_pos), Prefix(victim, median_pos))

sfra_remove(s, k) ==
    LET pos == sfra_find(s, k)
    IN  [ok |-> Holds(s, pos, k),
         val |-> IF Holds(s, pos, k) THEN ValOf(s[pos + 1]) ELSE 0,
         v |-> IF Holds(s, pos, k) THEN Prefix(s, pos) \o Suffix(s, pos + 1) ELSE s]

sfra_contains(s, k) == Holds(s, sfra_find(s, k), k)
sfra_first(s) == KeyOf(s[1])
sfra_last(s) == KeyOf(s[Len(s)])             \* for a non-empty vector

\* Mutant: find_lt.
sfra_find_lt(s, k) ==
    LET pos == sfra_find(s, k) IN IF pos = 0 THEN <<>> ELSE <<s[pos]>>

\* find_lte: the sequence of the one entry found, or the empty sequence.
sfra_find_lte(s, k) ==
    LET pos == sfra_find(s, k)
        lte == IF pos >= Len(s) \/ KeyOf(s[pos + 1]) > k THEN pos - 1 ELSE pos
    IN  IF lte < 0 THEN <<>> ELSE <<s[lte + 1]>>

sfra_merge(s, victim) == s \o victim

sfra_verify(s, cap) ==
    /\ Len(s) <= cap
    /\ \A i \in 2 .. Len(s) : KeyOf(s[i]) > KeyOf(s[i - 1])

\* range(from, to, f) and for_each(f): the entries f is applied to, in order,
\* and the flag returned.  stop is the key at which f raises exit_flag.
sfra_range(s, from, to, stop) ==
    LET visit[i \in 0 .. Len(s)] ==
          IF i = 0 THEN [seen |-> <<>>, exit |-> FALSE, end |-> FALSE]
          ELSE LET st == visit[i - 1]
                   k == KeyOf(s[i])
               IN  IF st.exit \/ st.end \/ k < from THEN st
                   ELSE IF k > to THEN [st EXCEPT !.end = TRUE]
                   ELSE [st EXCEPT !.seen = Append(@, s[i]), !.exit = (k = stop)]
    IN  [seen |-> visit[Len(s)].seen, end |-> visit[Len(s)].end]
=============================================================================

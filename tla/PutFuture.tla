----------------------------- MODULE PutFuture ------------------------------
(***************************************************************************)
(* PutFuture (put_future.hpp): CAS a new register value, with a sequence    *)
(* number above every one seen, into all replicas of the client's quorum.   *)
(* A cached register starts with optimistic CASes, a miss starts with reads.*)
(***************************************************************************)
EXTENDS DsState

VARIABLES
    value,          \* value[f]: the value being put
    expected,       \* expected[f][i]: what slot i is believed to hold
    needs_cas,      \* needs_cas[f][i]: slot i must still be CASed
    target_reg,     \* target_reg[f]: the register being written
    success_count   \* success_count[f]

putVars == << value, expected, needs_cas, target_reg, success_count >>

PutInit ==
    /\ value = [f \in OpFut |-> 0]
    /\ expected = [f \in OpFut |-> [i \in Slot |-> ZeroRegister]]
    /\ needs_cas = [f \in OpFut |-> [i \in Slot |-> FALSE]]
    /\ target_reg = [f \in OpFut |-> ZeroRegister]
    /\ success_count = [f \in OpFut |-> 0]

PutTypeOK ==
    /\ value \in [OpFut -> Value]
    /\ expected \in [OpFut -> [Slot -> Register]]
    /\ needs_cas \in [OpFut -> [Slot -> BOOLEAN]]
    /\ target_reg \in [OpFut -> Register]
    /\ success_count \in [OpFut -> Nat]

\* postCas / postOptimisticChain for the slots in S.
PostCas(f, S, exp, tgt) ==
    Post(f, S, [i \in Slot |-> CasWR(f, key[f], exp[i], tgt)])

\* doPut, cache hit: one optimistic CAS per replica.
DoPutHit(f, k, v) ==
    LET c == Owner(f)
        cached == cache[c][k]
        tgt == MkRegister(NextSeq(cached.seq), c, v)
    IN  /\ RegCache /\ k \in valid[c]
        /\ key' = [key EXCEPT ![f] = k]
        /\ value' = [value EXCEPT ![f] = v]
        /\ expected' = [expected EXCEPT ![f] = [i \in Slot |-> cached]]
        /\ needs_cas' = [needs_cas EXCEPT ![f] = [i \in Slot |-> TRUE]]
        /\ target_reg' = [target_reg EXCEPT ![f] = tgt]
        /\ success_count' = [success_count EXCEPT ![f] = 0]
        /\ Post(f, Slot, [i \in Slot |-> CasWR(f, k, cached, tgt)])
        /\ step' = [step EXCEPT ![f] = "OptimisticChain"]
        /\ UNCHANGED << mem, up, halted, cache, valid, bufs, progress >>

\* doPut, cache miss (or no cache): read the quorum first.
DoPutMiss(f, k, v) ==
    /\ ~(RegCache /\ k \in valid[Owner(f)])
    /\ key' = [key EXCEPT ![f] = k]
    /\ value' = [value EXCEPT ![f] = v]
    /\ needs_cas' = [needs_cas EXCEPT ![f] = [i \in Slot |-> FALSE]]
    /\ success_count' = [success_count EXCEPT ![f] = 0]
    /\ Post(f, Slot, [i \in Slot |-> ReadWR(f, k)])
    /\ step' = [step EXCEPT ![f] = "ReadSeq"]
    /\ UNCHANGED << mem, up, halted, cache, valid, bufs, progress, expected,
                    target_reg >>

\* tryStepForward, case ReadSeq.
PutStepReadSeq(f) ==
    \E z_max \in SeqsSeen(f) \cup {0} :
        LET tgt == MkRegister(NextSeq(z_max), Owner(f), value[f])
        IN  /\ CanStep(f) /\ Quiet(f) /\ step[f] = "ReadSeq"
            /\ IsMaxSeq(f, Slot, 0, z_max)
            /\ expected' = [expected EXCEPT ![f] = bufs[f]]
            /\ needs_cas' = [needs_cas EXCEPT ![f] = [i \in Slot |-> TRUE]]
            /\ target_reg' = [target_reg EXCEPT ![f] = tgt]
            /\ PostCas(f, Slot, bufs[f], tgt)
            /\ step' = [step EXCEPT ![f] = "CAS"]
            /\ progress' = [progress EXCEPT ![f] = FALSE]
            /\ UNCHANGED << mem, up, halted, cache, valid, key, bufs, value,
                            success_count >>

\* The put is acknowledged: the cache learns target_reg.
PutDone(f) ==
    /\ CachePut(Owner(f), key[f], target_reg[f])
    /\ step' = [step EXCEPT ![f] = "Done"]
    /\ PostNothing
    /\ UNCHANGED target_reg

\* The put goes round again with the target tgt for the slots still marked.
PutAgain(f, tgt) ==
    /\ target_reg' = [target_reg EXCEPT ![f] = tgt]
    /\ PostCas(f, {i \in Slot : needs_cas'[f][i]}, expected'[f], tgt)
    /\ step' = [step EXCEPT ![f] = "CAS"]
    /\ UNCHANGED << cache, valid >>

\* Mutant of Swapped: any register that is not ahead of the target will do.
SwappedLoosely(f, i) == bufs[f][i].seq <= target_reg[f].seq

\* The CAS of slot i found what it expected, i.e. it took effect.
Swapped(f, i) == bufs[f][i] = expected[f][i]

\* tryStepForward, case OptimisticChain.  A replica whose CAS took effect is
\* done with, although a retry writes a larger target to the others.
PutStepOptimistic(f) ==
    LET won == {i \in Slot : Swapped(f, i)}
        z0 == (target_reg[f].seq - 1) % SeqMod
    IN  \E z_max \in SeqsSeen(f) \cup {z0} :
            /\ CanStep(f) /\ Quiet(f) /\ step[f] = "OptimisticChain"
            /\ IsMaxSeq(f, Slot \ won, z0, z_max)
            /\ success_count' = [success_count EXCEPT ![f] = @ + Cardinality(won)]
            /\ needs_cas' = [needs_cas EXCEPT ![f] = [i \in Slot |-> i \notin won]]
            /\ expected' = [expected EXCEPT ![f] =
                 [i \in Slot |-> IF i \in won THEN target_reg[f] ELSE bufs[f][i]]]
            /\ IF success_count'[f] >= Quorum
               THEN PutDone(f)
               ELSE PutAgain(f, MkRegister(NextSeq(z_max), Owner(f), value[f]))
            /\ progress' = [progress EXCEPT ![f] = FALSE]
            /\ UNCHANGED << mem, up, halted, key, bufs, value >>

\* Slot i's CAS failed against a register whose seq is not below the target's.
Outrun(f, i) ==
    /\ needs_cas[f][i] /\ ~Swapped(f, i)
    /\ bufs[f][i].seq >= target_reg[f].seq

\* Case CAS, no slot outrun: the slots whose CAS took effect are done, the
\* others are retried with what they were found to hold.
PutStepCAS(f) ==
    LET won == {i \in Slot : needs_cas[f][i] /\ Swapped(f, i)}
    IN  /\ CanStep(f) /\ Quiet(f) /\ step[f] = "CAS"
        /\ \A i \in Slot : ~Outrun(f, i)
        /\ success_count' = [success_count EXCEPT ![f] = @ + Cardinality(won)]
        /\ needs_cas' = [needs_cas EXCEPT ![f] =
              [i \in Slot |-> @[i] /\ i \notin won]]
        /\ expected' = [expected EXCEPT ![f] =
              [i \in Slot |-> IF needs_cas[f][i] THEN bufs[f][i] ELSE @[i]]]
        /\ IF success_count'[f] >= Quorum
           THEN PutDone(f)
           ELSE PutAgain(f, target_reg[f])
        /\ progress' = [progress EXCEPT ![f] = FALSE]
        /\ UNCHANGED << mem, up, halted, key, bufs, value >>

\* Mutant of PutStepOutrun: only the slot that was outrun is redone, although
\* the count of successes starts over.
PutStepOutrunKeepsOthers(f) ==
    \E r \in Slot :
        LET tgt == MkRegister(NextSeq(bufs[f][r].seq), Owner(f), value[f])
        IN  /\ CanStep(f) /\ Quiet(f) /\ step[f] = "CAS"
            /\ Outrun(f, r) /\ \A i \in 1 .. (r - 1) : ~Outrun(f, i)
            /\ success_count' = [success_count EXCEPT ![f] = 0]
            /\ needs_cas' = [needs_cas EXCEPT ![f] = [i \in Slot |-> i = r]]
            /\ expected' = [expected EXCEPT ![f] = bufs[f]]
            /\ PutAgain(f, tgt)
            /\ progress' = [progress EXCEPT ![f] = FALSE]
            /\ UNCHANGED << mem, up, halted, key, bufs, value >>

\* Case CAS, some slot outrun.  At the first outrun slot r the loop bumps the
\* target past the seq found there, sets every expected[j] to swap_bufs[j],
\* marks every slot and clears success_count.  The rest of the same loop then
\* meets the slots j > r with swap_bufs[j] = expected[j], so it counts each of
\* them as a CAS that took effect and unmarks it.
PutStepOutrun(f) ==
    \E r \in Slot :
        LET tgt == MkRegister(NextSeq(bufs[f][r].seq), Owner(f), value[f])
        IN  /\ CanStep(f) /\ Quiet(f) /\ step[f] = "CAS"
            /\ Outrun(f, r) /\ \A i \in 1 .. (r - 1) : ~Outrun(f, i)
            /\ success_count' = [success_count EXCEPT ![f] = Quorum - r]
            /\ needs_cas' = [needs_cas EXCEPT ![f] = [i \in Slot |-> i <= r]]
            /\ expected' = [expected EXCEPT ![f] = bufs[f]]
            /\ PutAgain(f, tgt)
            /\ progress' = [progress EXCEPT ![f] = FALSE]
            /\ UNCHANGED << mem, up, halted, key, bufs, value >>
=============================================================================

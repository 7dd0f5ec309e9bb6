---------------------------- MODULE RangeFuture -----------------------------
(***************************************************************************)
(* RangeFuture (range_future.hpp): one bulk read of consecutive registers   *)
(* per replica of the quorum, merged register by register by tag.           *)
(***************************************************************************)
EXTENDS DsState

CONSTANTS MaxRange   \* layout.max_range

ASSUME MaxRangeAssumption == MaxRange \in Nat \ {0}

VARIABLES
    end_key,     \* end_key[f]: the last register of the range
    bulk_bufs,   \* bulk_bufs[f][i][k]: what slot i's bulk read put for k
    results      \* results[f][k]: the merged register returned for k

rangeVars == << end_key, bulk_bufs, results >>

RangeInit ==
    /\ end_key = [f \in RangeFut |-> 0]
    /\ bulk_bufs = [f \in RangeFut |->
                      [i \in Slot |-> [k \in Key |-> ZeroRegister]]]
    /\ results = [f \in RangeFut |-> [k \in Key |-> ZeroRegister]]

RangeTypeOK ==
    /\ end_key \in [RangeFut -> Key]
    /\ bulk_bufs \in [RangeFut -> [Slot -> [Key -> Register]]]
    /\ results \in [RangeFut -> [Key -> Register]]

\* Mutant of KeysOf: the length of the range without its + 1.
KeysOfShort(f) == key[f] .. (end_key[f] - 1)

\* The registers of f's range.
KeysOf(f) == key[f] .. end_key[f]

\* doRange; a range longer than max_range throws before anything is posted.
DoRange(f, sk, ek) ==
    /\ sk <= ek /\ ek - sk + 1 <= MaxRange
    /\ key' = [key EXCEPT ![f] = sk]
    /\ end_key' = [end_key EXCEPT ![f] = ek]
    /\ Post(f, Slot, [i \in Slot |-> BulkWR(f, sk)])
    /\ step' = [step EXCEPT ![f] = "Reading"]
    /\ UNCHANGED << mem, up, halted, cache, valid, bufs, progress, bulk_bufs,
                    results >>

\* m is the running maximum over the slots for key k: it starts with the first
\* slot and moves only to a strictly larger tag.
IsMerged(f, k, m) ==
    \E i \in Slot :
        /\ m = bulk_bufs[f][i][k]
        /\ \A j \in Slot : ~RegLess(m, bulk_bufs[f][j][k])
        /\ \A j \in 1 .. (i - 1) : RegLess(bulk_bufs[f][j][k], m)

\* tryStepForward, case Reading: acc is returned, and fills the cache.
RangeFinish(f, acc) ==
    /\ CanStep(f) /\ Quiet(f) /\ step[f] = "Reading"
    /\ \A k \in KeysOf(f) : IsMerged(f, k, acc[k])
    /\ results' = [results EXCEPT ![f] =
          [k \in Key |-> IF k \in KeysOf(f) THEN acc[k] ELSE ZeroRegister]]
    /\ IF RegCache
       THEN /\ cache' = [cache EXCEPT ![Owner(f)] =
                [k \in Key |-> IF k \in KeysOf(f) THEN acc[k] ELSE @[k]]]
            /\ valid' = [valid EXCEPT ![Owner(f)] = @ \cup KeysOf(f)]
       ELSE UNCHANGED << cache, valid >>
    /\ step' = [step EXCEPT ![f] = "Done"]
    /\ progress' = [progress EXCEPT ![f] = FALSE]
    /\ PostNothing
    /\ UNCHANGED << mem, up, halted, key, bufs, end_key, bulk_bufs >>

RangeStepReading(f) ==
    \E acc \in [KeysOf(f) -> {bulk_bufs[f][i][k] : i \in Slot, k \in Key}] :
        RangeFinish(f, acc)
=============================================================================

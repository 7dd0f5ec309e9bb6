------------------------------ MODULE AsrProofs -----------------------------
(***************************************************************************)
(* Proofs about the vector with atomic slot reservation (MultivectorAsr):   *)
(* no entry is lost or taken twice, reserved slots are filled, and a full   *)
(* vector that an inserter leaves to be split has another thread that will  *)
(* split it, for every capacity, set of threads and set of keys.            *)
(*                                                                          *)
(* The inductive invariant AsrInv says which slots are reserved: there is a *)
(* number n, read off the counters in a way that depends on the phase       *)
(* (AsrCountOK), such that below n every slot is filled or waited for by    *)
(* exactly one inserter and above n every slot is vacant (AsrSlotsOK).      *)
(***************************************************************************)
EXTENDS MultivectorAsr, TLAPS, FiniteSetTheorems, SequenceTheorems

AsrPc == {"idle", "reserve", "value", "key", "split", "close faa", "publish", "held", "release",
          "rollback", "dying", "extract"}
AsrEntry == [key : Nat, val : Nat]
AsrSlotArray == [0 .. CAPACITY - 1 -> AsrEntry]
AsrFreshArray == [0 .. CAPACITY - 1 -> [key : Nat, val : Int]]
AsrWord == [ver : Int, lck : BOOLEAN, n : Nat]
AsrLocal == [id : Nat, slot : Nat, limit : Nat, ver : Int, todo : Nat, key : Nat, must : BOOLEAN]

AsrTypeOK ==
    /\ slots \in AsrSlotArray
    /\ faa_counter \in Nat
    /\ cas_counter \in AsrWord
    /\ elements_at_phase_change \in Nat
    /\ extraction_counter \in Nat
    /\ fresh \in [slots : AsrFreshArray, faa : Nat, cas : AsrWord]
    /\ apc \in [AsrThread -> AsrPc]
    /\ loc \in [AsrThread -> AsrLocal]
    /\ offered \in Nat
    /\ acquisitions \in Nat
    /\ placed \subseteq AsrEntry
    /\ stolen \subseteq AsrEntry
    /\ extracted \in Seq(AsrEntry)

AsrHolder(t) == apc[t] \in {"close faa", "publish", "held", "release", "rollback"}
AsrInserting(t) == apc[t] \in {"value", "key"}
AsrExtraction == cas_counter.ver < 0

\* One thread holds the lock, and what the counters are at each of its steps.
AsrLockOK ==
    /\ \A t, u \in AsrThread : AsrHolder(t) /\ AsrHolder(u) => t = u
    /\ \A t, u \in AsrThread : apc[t] = "dying" /\ apc[u] = "dying" => t = u
    /\ \A t \in AsrThread : AsrHolder(t) => cas_counter.lck /\ cas_counter.ver >= 0
    /\ AsrExtraction => cas_counter = EXTRACTION_STATE_VALUE
    /\ cas_counter.lck => AsrExtraction \/ (\E t \in AsrThread : AsrHolder(t))
    /\ ~cas_counter.lck /\ cas_counter.ver = 0 => cas_counter.n = 0
    /\ \A t \in AsrThread : apc[t] \in {"dying", "extract"} => AsrExtraction
    /\ \A t \in AsrThread : apc[t] \in {"close faa", "publish"} => cas_counter.ver = 0 /\ cas_counter.n = 0
    /\ \A t \in AsrThread : apc[t] = "rollback" => cas_counter.ver = 0 /\ cas_counter.n <= FAA_CAPACITY
    /\ \A t \in AsrThread : apc[t] \in {"publish", "held", "release"} => faa_counter > FAA_CAPACITY
    /\ \A t \in AsrThread : apc[t] \in {"held", "release"} /\ cas_counter.ver = 0 => cas_counter.n <= FAA_CAPACITY
    /\ cas_counter.ver # 0 => faa_counter > FAA_CAPACITY

\* n is the number of reserved slots: how the counters, or the thread between
\* two stores to them, say so in each phase.
AsrCountOK(n) ==
    /\ n \in 0 .. CAPACITY
    /\ \A t \in AsrThread : apc[t] \in {"publish", "dying"} => loc[t].slot = n
    /\ AsrExtraction /\ (\A t \in AsrThread : apc[t] # "dying") => elements_at_phase_change = n
    /\ cas_counter.ver > 0 => get_valid_reservations(cas_counter) = n
    /\ \A t \in AsrThread : apc[t] \in {"held", "release"} => get_valid_reservations(cas_counter) = n
    /\ cas_counter.ver = 0 => n <= FAA_CAPACITY
    /\ cas_counter.ver = 0 /\ (\A t \in AsrThread : apc[t] \notin {"publish", "held", "release"})
         => n = IF faa_counter <= FAA_CAPACITY THEN faa_counter ELSE FAA_CAPACITY

\* The slots a thread has reserved and not yet filled.
AsrPends(t, i) == AsrInserting(t) /\ loc[t].slot <= i /\ i < loc[t].limit /\ i < loc[t].slot + loc[t].todo

AsrSlotsOK(n) ==
    /\ \A i \in 0 .. CAPACITY - 1 : slots[i].key = ASR_EMPTY /\ i < n => \E t \in AsrThread : AsrPends(t, i)
    /\ \A i \in 0 .. CAPACITY - 1 : i >= n => slots[i].key = ASR_EMPTY
    /\ \A t \in AsrThread, i \in 0 .. CAPACITY - 1 : AsrPends(t, i) => i < n /\ slots[i].key = ASR_EMPTY
    /\ \A t, u \in AsrThread, i \in 0 .. CAPACITY - 1 : AsrPends(t, i) /\ AsrPends(u, i) => t = u

AsrBusy(t) == apc[t] \in {"reserve", "value", "key"}

AsrLocalOK ==
    \A t \in AsrThread :
        /\ AsrBusy(t) => loc[t].key # ASR_EMPTY
        /\ apc[t] = "reserve" => loc[t].slot >= FAA_CAPACITY /\ loc[t].todo > 0
        /\ AsrInserting(t) => /\ loc[t].slot <= loc[t].limit
                              /\ loc[t].limit \in {FAA_CAPACITY, CAPACITY}
                              /\ cas_counter.ver = 0 => loc[t].limit = FAA_CAPACITY
        /\ apc[t] = "key" => /\ loc[t].todo > 0 /\ loc[t].slot < loc[t].limit
                             /\ slots[loc[t].slot].val = loc[t].id
        /\ apc[t] = "split" => loc[t].must
        /\ apc[t] = "idle" => ~loc[t].must

\* An entry is known by its number: the numbers of the entries still to be
\* written are distinct and no entry written has one of them.
AsrHasId(t, v) == AsrBusy(t) /\ loc[t].id <= v /\ v < loc[t].id + loc[t].todo
AsrIdsOK ==
    /\ \A t \in AsrThread, v \in Int : AsrHasId(t, v) => v <= offered
    /\ \A t, u \in AsrThread, v \in Int : AsrHasId(t, v) /\ AsrHasId(u, v) => t = u
    /\ \A e \in placed : e.val <= offered /\ \A t \in AsrThread : ~AsrHasId(t, e.val)

AsrEntriesOK ==
    /\ placed = SlotEntries(slots) \cup stolen
    /\ \A i, j \in 0 .. CAPACITY - 1 :
         slots[i].key # ASR_EMPTY /\ slots[j].key # ASR_EMPTY /\ slots[i].val = slots[j].val => i = j
    /\ \A e \in stolen, i \in 0 .. CAPACITY - 1 : slots[i].key # ASR_EMPTY => slots[i].val # e.val

AsrExtractOK(n) ==
    /\ ~AsrExtraction => extracted = <<>> /\ extraction_counter = 0
    /\ \A t \in AsrThread : apc[t] = "extract" => loc[t].slot < n /\ loc[t].slot < extraction_counter
    /\ \A t, u \in AsrThread : apc[t] = "extract" /\ apc[u] = "extract" /\ loc[t].slot = loc[u].slot => t = u
    /\ \A m \in 1 .. Len(extracted) : \E i \in 0 .. CAPACITY - 1 :
         /\ i < extraction_counter /\ slots[i].key # ASR_EMPTY /\ slots[i] = extracted[m]
         /\ \A t \in AsrThread : apc[t] = "extract" => loc[t].slot # i
    /\ \A m, k \in 1 .. Len(extracted) : extracted[m] = extracted[k] => m = k

\* A thread that will find entries left over, or has been told MUST_SPLIT.
AsrCrosses(t) ==
    \/ AsrInserting(t) /\ loc[t].slot + loc[t].todo > loc[t].limit
    \/ apc[t] = "split"
    \/ apc[t] \in {"close faa", "publish", "held"} /\ loc[t].must
AsrWillSplit(t) == AsrCrosses(t) \/ (apc[t] = "reserve" /\ loc[t].slot = FAA_CAPACITY)

AsrSplitOK(n) ==
    /\ cas_counter.n > CAPACITY => \E t \in AsrThread : AsrCrosses(t)
    /\ \A t \in AsrThread : apc[t] = "held" /\ loc[t].must /\ cas_counter.ver > 0 => cas_counter.n > CAPACITY
    /\ /\ cas_counter.ver = 0 /\ faa_counter > FAA_CAPACITY
       /\ \A t \in AsrThread : apc[t] \notin {"publish", "held", "release"}
       => \E t \in AsrThread : AsrWillSplit(t)
    /\ /\ cas_counter.ver = 0 /\ \A t \in AsrThread : apc[t] # "release"
       => \A t \in AsrThread : AsrWillSplit(t) => n = FAA_CAPACITY

AsrFreshOK ==
    /\ verify_locked(fresh.slots, IF fresh.faa <= FAA_CAPACITY THEN fresh.faa ELSE fresh.cas.n)
    /\ fresh.faa > FAA_CAPACITY <=> fresh.cas.ver > 0

AsrInvAt(n) ==
    /\ AsrTypeOK /\ AsrLockOK /\ AsrLocalOK /\ AsrIdsOK /\ AsrEntriesOK /\ AsrFreshOK
    /\ AsrCountOK(n) /\ AsrSlotsOK(n) /\ AsrExtractOK(n) /\ AsrSplitOK(n)
AsrInv == \E n \in 0 .. CAPACITY : AsrInvAt(n)

\* The number of elements is stored once, by the second store of die().
AsrPhaseOK == elements_at_phase_change # 0 => AsrExtraction /\ \A t \in AsrThread : apc[t] # "dying"
-----------------------------------------------------------------------------
\* FAA_CAPACITY is between 1 and CAPACITY, whatever CAPACITY is.
LEMMA FaaCapacityFits == FAA_CAPACITY \in Nat /\ FAA_CAPACITY >= 1 /\ FAA_CAPACITY <= CAPACITY
BY AsrCapacityAssumption DEF FAA_CAPACITY

\* get_valid_reservations() never names a slot the vector does not have.
LEMMA ValidReservations ==
    ASSUME AsrTypeOK
    PROVE  /\ get_valid_reservations(cas_counter) \in 0 .. CAPACITY
           /\ cas_counter.n <= CAPACITY => get_valid_reservations(cas_counter) = cas_counter.n
           /\ cas_counter.n > CAPACITY => get_valid_reservations(cas_counter) = CAPACITY
BY AsrCapacityAssumption DEF AsrTypeOK, AsrWord, get_valid_reservations

\* The four states of cas_counter, by its fields.
LEMMA AsrStates ==
    ASSUME AsrTypeOK, AsrLockOK
    PROVE  /\ get_state(cas_counter) = "EXTRACTION" <=> AsrExtraction
           /\ get_state(cas_counter) = "FAA_INSERTION" <=> cas_counter.ver = 0 /\ ~cas_counter.lck
           /\ get_state(cas_counter) = "LOCKED" <=> cas_counter.ver >= 0 /\ cas_counter.lck
           /\ get_state(cas_counter) = "CAS_INSERTION" <=> cas_counter.ver > 0 /\ ~cas_counter.lck
           /\ get_state(cas_counter) \in {"EXTRACTION", "FAA_INSERTION", "LOCKED", "CAS_INSERTION"}
<1> DEFINE c == cas_counter
<1> DEFINE zero == AsrCounter(0, FALSE, 0)
<1>1. c \in AsrWord
  BY DEF AsrTypeOK
<1>2. c = zero <=> c.ver = 0 /\ c.lck = FALSE /\ c.n = 0
  BY <1>1 DEF AsrCounter, AsrWord, zero
<1>3. c = EXTRACTION_STATE_VALUE <=> c.ver < 0
  <2>1. c.ver < 0 => c = EXTRACTION_STATE_VALUE
    BY DEF AsrLockOK, AsrExtraction
  <2>2. EXTRACTION_STATE_VALUE.ver = -1
    BY DEF EXTRACTION_STATE_VALUE, AsrCounter
  <2> QED
    BY <2>1, <2>2
<1>4. ~c.lck /\ c.ver = 0 => c.n = 0
  BY DEF AsrLockOK
<1>5. c.lck \in BOOLEAN /\ c.ver \in Int /\ c.n \in Nat
  BY <1>1 DEF AsrWord
<1>6. c.ver < 0 => c.lck
  BY <1>3 DEF EXTRACTION_STATE_VALUE, AsrCounter
<1>7. AsrExtraction <=> c.ver < 0
  BY DEF AsrExtraction
<1>8. get_state(c) = IF c = zero THEN "FAA_INSERTION"
                     ELSE IF c = EXTRACTION_STATE_VALUE THEN "EXTRACTION"
                     ELSE IF c.lck THEN "LOCKED" ELSE "CAS_INSERTION"
  BY DEF get_state, zero
<1> HIDE DEF c, zero
<1>9. /\ get_state(c) = "EXTRACTION" <=> AsrExtraction
      /\ get_state(c) = "FAA_INSERTION" <=> c.ver = 0 /\ ~c.lck
      /\ get_state(c) = "LOCKED" <=> c.ver >= 0 /\ c.lck
      /\ get_state(c) = "CAS_INSERTION" <=> c.ver > 0 /\ ~c.lck
      /\ get_state(c) \in {"EXTRACTION", "FAA_INSERTION", "LOCKED", "CAS_INSERTION"}
  <2>1. CASE c.ver < 0
    <3>1. get_state(c) = "EXTRACTION"
      BY <2>1, <1>2, <1>3, <1>5, <1>8
    <3> QED
      BY <3>1, <2>1, <1>5, <1>6, <1>7
  <2>2. CASE c.ver >= 0 /\ c.lck
    BY <2>2, <1>2, <1>3, <1>5, <1>7, <1>8
  <2>3. CASE c.ver = 0 /\ ~c.lck
    <3>1. get_state(c) = "FAA_INSERTION"
      BY <2>3, <1>2, <1>4, <1>5, <1>8
    <3> QED
      BY <3>1, <2>3, <1>5, <1>6, <1>7
  <2>4. CASE c.ver > 0 /\ ~c.lck
    <3>1. get_state(c) = "CAS_INSERTION"
      BY <2>4, <1>2, <1>3, <1>5, <1>8
    <3> QED
      BY <3>1, <2>4, <1>5, <1>6, <1>7
  <2> QED
    BY <2>1, <2>2, <2>3, <2>4, <1>5
<1> QED
  BY <1>9 DEF c

AsrOthers(t) == \A u \in AsrThread : u # t => apc'[u] = apc[u] /\ loc'[u] = loc[u]

\* What extraction has done is untouched by a thread that does not extract.
LEMMA AsrSameExtract ==
    ASSUME NEW n \in 0 .. CAPACITY, AsrExtractOK(n), NEW t \in AsrThread, AsrOthers(t),
           UNCHANGED <<slots, extracted, extraction_counter>>,
           apc[t] # "extract", apc'[t] # "extract", AsrExtraction => AsrExtraction'
    PROVE  AsrExtractOK(n)'
<1>1. \A u \in AsrThread : (apc'[u] = "extract") = (apc[u] = "extract")
  BY DEF AsrOthers
<1>2. \A u \in AsrThread : apc[u] = "extract" => loc'[u] = loc[u]
  BY DEF AsrOthers
<1>3. ~AsrExtraction' => extracted' = <<>> /\ extraction_counter' = 0
  BY DEF AsrExtractOK
<1>4. \A m \in 1 .. Len(extracted') : \E i \in 0 .. CAPACITY - 1 :
        /\ i < extraction_counter' /\ slots'[i].key # ASR_EMPTY /\ slots'[i] = extracted'[m]
        /\ \A u \in AsrThread : apc'[u] = "extract" => loc'[u].slot # i
  BY <1>1, <1>2 DEF AsrExtractOK
<1>5. \A m, k \in 1 .. Len(extracted') : extracted'[m] = extracted'[k] => m = k
  BY DEF AsrExtractOK
<1>6. /\ \A u \in AsrThread : apc'[u] = "extract" => loc'[u].slot < n /\ loc'[u].slot < extraction_counter'
      /\ \A u, w \in AsrThread :
           apc'[u] = "extract" /\ apc'[w] = "extract" /\ loc'[u].slot = loc'[w].slot => u = w
  BY <1>1, <1>2 DEF AsrExtractOK
<1> QED
  BY <1>3, <1>4, <1>5, <1>6 DEF AsrExtractOK

\* A step that neither reserves nor fills a slot and moves no entry.
LEMMA AsrQuietStep ==
    ASSUME AsrTypeOK, AsrIdsOK, AsrEntriesOK, AsrFreshOK, NEW n \in 0 .. CAPACITY, AsrSlotsOK(n), AsrExtractOK(n),
           NEW t \in AsrThread, AsrOthers(t),
           UNCHANGED <<slots, placed, stolen, extracted, fresh, offered, extraction_counter>>,
           \A i \in 0 .. CAPACITY - 1 : AsrPends(t, i)' <=> AsrPends(t, i),
           \A v \in Int : AsrHasId(t, v)' => AsrHasId(t, v),
           apc[t] # "extract", apc'[t] # "extract", AsrExtraction => AsrExtraction'
    PROVE  AsrIdsOK' /\ AsrEntriesOK' /\ AsrFreshOK' /\ AsrSlotsOK(n)' /\ AsrExtractOK(n)'
<1>1. \A u \in AsrThread, i \in 0 .. CAPACITY - 1 : AsrPends(u, i)' <=> AsrPends(u, i)
  BY DEF AsrOthers, AsrPends, AsrInserting
<1>2. \A u \in AsrThread, v \in Int : AsrHasId(u, v)' => AsrHasId(u, v)
  BY DEF AsrOthers, AsrHasId, AsrBusy
<1>3. AsrIdsOK'
  <2>1. \A e \in placed : e.val \in Int
    BY DEF AsrTypeOK, AsrEntry
  <2> QED
    BY <1>2, <2>1 DEF AsrIdsOK
<1>4. AsrSlotsOK(n)'
  BY <1>1 DEF AsrSlotsOK
<1>5. AsrEntriesOK' /\ AsrFreshOK'
  BY DEF AsrEntriesOK, AsrFreshOK, SlotEntries, AsrSlots, verify_locked
<1>6. AsrExtractOK(n)'
  BY AsrSameExtract
<1> QED
  BY <1>3, <1>4, <1>5, <1>6

AsrOutside == {"idle", "reserve", "value", "key", "split"}

\* A step of a thread without the lock that leaves the counters alone.
LEMMA AsrPrivateStep ==
    ASSUME NEW n \in 0 .. CAPACITY, AsrInvAt(n), NEW t \in AsrThread, AsrOthers(t),
           UNCHANGED <<faa_counter, cas_counter, elements_at_phase_change>>,
           apc[t] \in AsrOutside, apc'[t] \in AsrOutside,
           AsrCrosses(t) => AsrCrosses(t)' \/ (cas_counter.ver # 0 /\ cas_counter.n <= CAPACITY),
           AsrWillSplit(t) => AsrWillSplit(t)' \/ cas_counter.ver # 0,
           AsrWillSplit(t)' => AsrWillSplit(t)
    PROVE  AsrLockOK' /\ AsrCountOK(n)' /\ AsrSplitOK(n)'
<1> DEFINE inside == AsrPc \ AsrOutside
<1>1. \A u \in AsrThread, p \in inside : apc'[u] = p <=> apc[u] = p
  BY DEF AsrOthers, AsrOutside
<1>2. \A u \in AsrThread : apc[u] \in inside => loc'[u] = loc[u]
  BY DEF AsrOthers, AsrOutside
<1>3. {"close faa", "publish", "held", "release", "rollback", "dying", "extract"} \subseteq inside
  BY DEF AsrPc, AsrOutside
<1> HIDE DEF inside
<1>4. AsrTypeOK /\ AsrLockOK /\ AsrCountOK(n) /\ AsrSplitOK(n)
  BY DEF AsrInvAt
<1>5. \A u \in AsrThread : AsrHolder(u)' <=> AsrHolder(u)
  BY <1>1, <1>3 DEF AsrHolder
<1>6. AsrLockOK'
  <2>1. AsrExtraction' <=> AsrExtraction
    BY DEF AsrExtraction
  <2>2. \A u \in AsrThread, p \in {"close faa", "publish", "held", "release", "rollback", "dying", "extract"} :
          apc'[u] = p <=> apc[u] = p
    BY <1>1, <1>3
  <2> QED
    BY <1>4, <1>5, <2>1, <2>2 DEF AsrLockOK
<1>7. AsrCountOK(n)'
  <2>1. AsrExtraction' <=> AsrExtraction
    BY DEF AsrExtraction
  <2>2. \A u \in AsrThread, p \in {"publish", "held", "release", "dying"} : apc'[u] = p <=> apc[u] = p
    BY <1>1, <1>3
  <2>3. \A u \in AsrThread : apc[u] \in {"publish", "dying"} => loc'[u] = loc[u]
    BY <1>2, <1>3
  <2> QED
    BY <1>4, <2>1, <2>2, <2>3 DEF AsrCountOK, get_valid_reservations
<1>8. AsrSplitOK(n)'
  <2>1. \A u \in AsrThread : u # t => (AsrCrosses(u)' <=> AsrCrosses(u)) /\ (AsrWillSplit(u)' <=> AsrWillSplit(u))
    BY DEF AsrOthers, AsrCrosses, AsrWillSplit, AsrInserting
  <2>2. \A u \in AsrThread, p \in {"publish", "held", "release"} : apc'[u] = p <=> apc[u] = p
    BY <1>1, <1>3
  <2>3. \A u \in AsrThread : apc[u] = "held" => loc'[u] = loc[u]
    BY <1>2, <1>3
  <2>4. cas_counter.n \in Nat /\ cas_counter.ver \in Int /\ CAPACITY \in Nat
    BY <1>4, AsrCapacityAssumption DEF AsrTypeOK, AsrWord
  <2>5. cas_counter'.n > CAPACITY => \E u \in AsrThread : AsrCrosses(u)'
    BY <1>4, <2>1, <2>4 DEF AsrSplitOK
  <2>6. \A u \in AsrThread :
          apc'[u] = "held" /\ loc'[u].must /\ cas_counter'.ver > 0 => cas_counter'.n > CAPACITY
    BY <1>4, <2>2, <2>3 DEF AsrSplitOK
  <2>7. /\ cas_counter'.ver = 0 /\ faa_counter' > FAA_CAPACITY
        /\ \A u \in AsrThread : apc'[u] \notin {"publish", "held", "release"}
        => \E u \in AsrThread : AsrWillSplit(u)'
    BY <1>4, <2>1, <2>2, <2>4 DEF AsrSplitOK
  <2>8. /\ cas_counter'.ver = 0 /\ \A u \in AsrThread : apc'[u] # "release"
        => \A u \in AsrThread : AsrWillSplit(u)' => n = FAA_CAPACITY
    BY <1>4, <2>1, <2>2, <2>4 DEF AsrSplitOK
  <2> QED
    BY <2>5, <2>6, <2>7, <2>8 DEF AsrSplitOK
<1> QED
  BY <1>6, <1>7, <1>8

\* The locals of a thread outside every operation.
LEMMA AsrIdleType == AsrIdle \in AsrLocal /\ AsrIdle.must = FALSE
BY DEF AsrIdle, AsrLocal, ASR_EMPTY

\* What AsrReturn leaves: an idle thread with cleared locals.
LEMMA AsrReturned ==
    ASSUME AsrTypeOK, NEW t \in AsrThread, AsrReturn(t)
    PROVE  AsrOthers(t) /\ apc'[t] = "idle" /\ loc'[t] = AsrIdle /\ AsrIdle \in AsrLocal
           /\ apc' \in [AsrThread -> AsrPc] /\ loc' \in [AsrThread -> AsrLocal]
<1>1. AsrIdle \in AsrLocal
  BY AsrIdleType
<1>2. apc \in [AsrThread -> AsrPc] /\ loc \in [AsrThread -> AsrLocal] /\ "idle" \in AsrPc
  BY DEF AsrTypeOK, AsrPc
<1> QED
  BY <1>1, <1>2 DEF AsrReturn, AsrOthers

\* A thread that holds nothing returns.
LEMMA AsrGiveUp ==
    ASSUME NEW n \in 0 .. CAPACITY, AsrInvAt(n), NEW t \in AsrThread, AsrReturn(t),
           apc[t] \in {"reserve", "value", "split"},
           \A i \in 0 .. CAPACITY - 1 : ~AsrPends(t, i),
           AsrCrosses(t) => cas_counter.ver # 0 /\ cas_counter.n <= CAPACITY,
           AsrWillSplit(t) => cas_counter.ver # 0,
           UNCHANGED <<slots, asrCounters, fresh, offered, acquisitions, asrHistory>>
    PROVE  AsrInvAt(n)'
<1>1. AsrTypeOK /\ AsrLocalOK /\ AsrIdsOK /\ AsrEntriesOK /\ AsrFreshOK /\ AsrSlotsOK(n) /\ AsrExtractOK(n)
  BY DEF AsrInvAt
<1>2. /\ AsrOthers(t) /\ apc'[t] = "idle" /\ loc'[t] = AsrIdle
      /\ apc' \in [AsrThread -> AsrPc] /\ loc' \in [AsrThread -> AsrLocal]
  BY <1>1, AsrReturned
<1>3. AsrTypeOK'
  BY <1>1, <1>2 DEF AsrTypeOK, asrCounters, asrHistory
<1>4. ~AsrCrosses(t)' /\ ~AsrWillSplit(t)'
  BY <1>2 DEF AsrCrosses, AsrWillSplit, AsrInserting
<1>5. AsrLockOK' /\ AsrCountOK(n)' /\ AsrSplitOK(n)'
  BY <1>2, <1>4, AsrPrivateStep DEF AsrOutside, asrCounters
<1>6. AsrIdsOK' /\ AsrEntriesOK' /\ AsrFreshOK' /\ AsrSlotsOK(n)' /\ AsrExtractOK(n)'
  <2>1. \A i \in 0 .. CAPACITY - 1 : AsrPends(t, i)' <=> AsrPends(t, i)
    BY <1>2 DEF AsrPends, AsrInserting
  <2>2. \A v \in Int : AsrHasId(t, v)' => AsrHasId(t, v)
    BY <1>2 DEF AsrHasId, AsrBusy
  <2>3. AsrExtraction => AsrExtraction'
    BY DEF AsrExtraction, asrCounters
  <2> QED
    BY <1>1, <1>2, <2>1, <2>2, <2>3, AsrQuietStep DEF asrCounters, asrHistory
<1>7. AsrLocalOK'
  BY <1>1, <1>2, AsrIdleType DEF AsrLocalOK, AsrOthers, AsrBusy, AsrInserting, asrCounters
<1> QED
  BY <1>3, <1>5, <1>6, <1>7 DEF AsrInvAt

\* insert_concurrent returns: SUCCESS, or MUST_SPLIT with entries left over.
LEMMA FinishInsertStep ==
    ASSUME NEW n \in 0 .. CAPACITY, AsrInvAt(n), NEW t \in AsrThread, FinishInsert(t)
    PROVE  AsrInvAt(n)'
<1>1. AsrTypeOK /\ AsrLocalOK /\ AsrIdsOK /\ AsrEntriesOK /\ AsrFreshOK /\ AsrSlotsOK(n) /\ AsrExtractOK(n)
  BY DEF AsrInvAt
<1>2. /\ loc[t].slot \in Nat /\ loc[t].todo \in Nat /\ loc[t].limit \in Nat
      /\ apc[t] = "value" /\ loc[t].slot <= loc[t].limit /\ (loc[t].todo = 0 \/ loc[t].slot >= loc[t].limit)
  BY <1>1 DEF AsrTypeOK, AsrLocal, AsrLocalOK, AsrInserting, FinishInsert
<1>3. \A i \in 0 .. CAPACITY - 1 : ~AsrPends(t, i)
  BY <1>2 DEF AsrPends
<1>4. UNCHANGED <<slots, asrCounters, fresh, offered, acquisitions, asrHistory>>
  BY DEF FinishInsert
<1>5. CASE loc[t].todo = 0
  <2>1. AsrReturn(t)
    BY <1>5 DEF FinishInsert
  <2>2. ~AsrCrosses(t) /\ ~AsrWillSplit(t)
    BY <1>2, <1>5 DEF AsrCrosses, AsrWillSplit
  <2> QED
    BY <1>2, <1>3, <1>4, <2>1, <2>2, AsrGiveUp
<1>6. CASE loc[t].todo # 0
  <2> DEFINE l == [AsrIdle EXCEPT !.must = TRUE]
  <2>1. apc' = [apc EXCEPT ![t] = "split"] /\ loc' = [loc EXCEPT ![t] = l]
    BY <1>6 DEF FinishInsert, AsrGoto
  <2>2. l \in AsrLocal /\ l.must = TRUE
    BY AsrIdleType DEF AsrLocal
  <2> HIDE DEF l
  <2>3. /\ AsrOthers(t) /\ apc'[t] = "split" /\ loc'[t] = l
        /\ apc' \in [AsrThread -> AsrPc] /\ loc' \in [AsrThread -> AsrLocal]
    BY <1>1, <2>1, <2>2 DEF AsrTypeOK, AsrPc, AsrOthers
  <2>4. AsrTypeOK'
    BY <1>1, <1>4, <2>3 DEF AsrTypeOK, asrCounters, asrHistory
  <2>5. AsrCrosses(t) /\ AsrCrosses(t)'
    BY <1>2, <1>6, <2>3 DEF AsrCrosses, AsrInserting
  <2>6. AsrLockOK' /\ AsrCountOK(n)' /\ AsrSplitOK(n)'
    BY <1>2, <1>4, <2>3, <2>5, AsrPrivateStep DEF AsrOutside, asrCounters, AsrWillSplit
  <2>7. AsrIdsOK' /\ AsrEntriesOK' /\ AsrFreshOK' /\ AsrSlotsOK(n)' /\ AsrExtractOK(n)'
    <3>1. \A i \in 0 .. CAPACITY - 1 : AsrPends(t, i)' <=> AsrPends(t, i)
      BY <1>3, <2>3 DEF AsrPends, AsrInserting
    <3>2. \A v \in Int : AsrHasId(t, v)' => AsrHasId(t, v)
      BY <2>3 DEF AsrHasId, AsrBusy
    <3>3. AsrExtraction => AsrExtraction'
      BY <1>4 DEF AsrExtraction, asrCounters
    <3> QED
      BY <1>1, <1>2, <1>4, <2>3, <3>1, <3>2, <3>3, AsrQuietStep DEF asrCounters, asrHistory
  <2>8. AsrLocalOK'
    BY <1>1, <1>4, <2>2, <2>3 DEF AsrLocalOK, AsrOthers, AsrBusy, AsrInserting, asrCounters
  <2> QED
    BY <2>4, <2>6, <2>7, <2>8 DEF AsrInvAt
<1> QED
  BY <1>5, <1>6

AsrTaken(t) ==
    /\ apc[t] \in {"idle", "split"} /\ cas_counter.lck = FALSE /\ cas_counter.ver >= 0
    /\ apc[t] = "split" /\ cas_counter.ver > 0 => cas_counter.n > CAPACITY
    /\ cas_counter' = AsrLocked(cas_counter) /\ loc' = loc
    /\ apc' = [apc EXCEPT ![t] = IF cas_counter.ver = 0 THEN "close faa" ELSE "held"]
    /\ acquisitions' \in Nat
    /\ UNCHANGED <<slots, faa_counter, elements_at_phase_change, extraction_counter, fresh, offered, asrHistory>>

\* The lock is taken: from fetch-and-add insertion its holder goes to close the
\* phase, otherwise it holds the vector.
LEMMA AsrTakeLock ==
    ASSUME NEW n \in 0 .. CAPACITY, AsrInvAt(n), NEW t \in AsrThread, AsrTaken(t)
    PROVE  AsrInvAt(n)'
<1>1. /\ AsrTypeOK /\ AsrLockOK /\ AsrLocalOK /\ AsrIdsOK /\ AsrEntriesOK /\ AsrFreshOK
      /\ AsrCountOK(n) /\ AsrSlotsOK(n) /\ AsrExtractOK(n) /\ AsrSplitOK(n)
  BY DEF AsrInvAt
<1> DEFINE c == cas_counter
<1>0. /\ apc[t] \in {"idle", "split"} /\ c.lck = FALSE /\ c.ver >= 0
      /\ apc[t] = "split" /\ c.ver > 0 => c.n > CAPACITY
      /\ faa_counter' = faa_counter /\ elements_at_phase_change' = elements_at_phase_change
  BY DEF AsrTaken
<1>2. c \in AsrWord /\ c.n \in Nat /\ c.ver \in Int /\ c.lck \in BOOLEAN /\ CAPACITY \in Nat
  BY <1>1, AsrCapacityAssumption DEF AsrTypeOK, AsrWord
<1>3. c' \in AsrWord /\ c'.n = c.n /\ c'.ver = c.ver /\ c'.lck = TRUE
  BY <1>2 DEF AsrWord, AsrLocked, AsrTaken
<1>4. /\ AsrOthers(t) /\ loc'[t] = loc[t] /\ apc' \in [AsrThread -> AsrPc]
      /\ apc'[t] = IF cas_counter.ver = 0 THEN "close faa" ELSE "held"
  BY <1>1 DEF AsrTypeOK, AsrPc, AsrOthers, AsrTaken
<1>5. \A u \in AsrThread : ~AsrHolder(u)
  BY <1>0, <1>1 DEF AsrLockOK
<1>6. \A u \in AsrThread : AsrHolder(u)' <=> u = t
  BY <1>0, <1>4, <1>5 DEF AsrHolder, AsrOthers
<1> HIDE DEF c
<1>7. AsrTypeOK'
  BY <1>1, <1>3, <1>4 DEF AsrTypeOK, asrHistory, AsrTaken, c
<1>8. AsrLockOK'
  <2>1. c.ver # 0 => faa_counter > FAA_CAPACITY
    BY <1>1 DEF AsrLockOK, c
  <2>2. c.ver = 0 => c.n = 0
    BY <1>0, <1>1 DEF AsrLockOK, c
  <2>3. ~AsrExtraction /\ ~AsrExtraction'
    BY <1>0, <1>2, <1>3 DEF AsrExtraction, c
  <2>4. \A u \in AsrThread : apc'[u] \notin {"dying", "extract"}
    BY <1>1, <1>4, <2>3 DEF AsrLockOK, AsrOthers
  <2>5. \A u \in AsrThread : u # t => apc'[u] \notin {"close faa", "publish", "held", "release", "rollback"}
    BY <1>6 DEF AsrHolder
  <2> QED
    BY <1>2, <1>3, <1>4, <1>6, <2>1, <2>2, <2>3, <2>4, <2>5, <1>0 DEF AsrLockOK, c
<1>9. AsrLocalOK'
  BY <1>0, <1>1, <1>3, <1>4 DEF AsrLocalOK, AsrOthers, AsrBusy, AsrInserting, AsrTaken, c
<1>10. AsrIdsOK' /\ AsrEntriesOK' /\ AsrFreshOK' /\ AsrSlotsOK(n)' /\ AsrExtractOK(n)'
  <2>1. \A i \in 0 .. CAPACITY - 1 : AsrPends(t, i)' <=> AsrPends(t, i)
    BY <1>0, <1>4 DEF AsrPends, AsrInserting
  <2>2. \A v \in Int : AsrHasId(t, v)' => AsrHasId(t, v)
    BY <1>0, <1>4 DEF AsrHasId, AsrBusy
  <2>3. AsrExtraction => AsrExtraction'
    BY <1>3 DEF AsrExtraction, c
  <2> QED
    BY <1>0, <1>1, <1>4, <2>1, <2>2, <2>3, AsrQuietStep DEF asrHistory, AsrTaken
<1>11. AsrCountOK(n)'
  <2>1. get_valid_reservations(cas_counter)' = get_valid_reservations(cas_counter)
    BY <1>3 DEF get_valid_reservations, c
  <2>2. \A u \in AsrThread : u # t => apc'[u] \notin {"publish", "held", "release"}
    BY <1>6 DEF AsrHolder
  <2>3. \A u \in AsrThread : apc[u] \notin {"publish", "held", "release"}
    BY <1>5 DEF AsrHolder
  <2>4. ~AsrExtraction /\ ~AsrExtraction'
    BY <1>0, <1>2, <1>3 DEF AsrExtraction, c
  <2>5. \A u \in AsrThread : apc'[u] # "dying"
    BY <1>1, <1>4, <2>4 DEF AsrLockOK, AsrOthers
  <2>6. apc'[t] \notin {"publish", "release"} /\ (apc'[t] = "held" => c.ver > 0)
    <3>1. c.ver = 0 => apc'[t] = "close faa"
      BY <1>4 DEF c
    <3>2. c.ver # 0 => apc'[t] = "held"
      BY <1>4 DEF c
    <3>3. c.ver # 0 => c.ver > 0
      BY <1>0, <1>2
    <3> QED
      BY <3>1, <3>2, <3>3
  <2>7. c.ver > 0 => get_valid_reservations(cas_counter) = n
    BY <1>1 DEF AsrCountOK, c
  <2>8. /\ \A u \in AsrThread : apc'[u] \in {"publish", "dying"} => loc'[u].slot = n
        /\ \A u \in AsrThread : apc'[u] \in {"held", "release"} => get_valid_reservations(cas_counter)' = n
    BY <2>1, <2>2, <2>5, <2>6, <2>7
  <2>9. c.ver = 0 => n = IF faa_counter <= FAA_CAPACITY THEN faa_counter ELSE FAA_CAPACITY
    BY <1>1, <2>3 DEF AsrCountOK, c
  <2>10. c.ver = 0 => n <= FAA_CAPACITY
    BY <1>1 DEF AsrCountOK, c
  <2> QED
    BY <1>0, <1>3, <2>1, <2>4, <2>7, <2>8, <2>9, <2>10 DEF AsrCountOK, c
<1>12. AsrSplitOK(n)'
  <2>1. \A u \in AsrThread : u # t => (AsrCrosses(u)' <=> AsrCrosses(u)) /\ (AsrWillSplit(u)' <=> AsrWillSplit(u))
    BY <1>4 DEF AsrOthers, AsrCrosses, AsrWillSplit, AsrInserting
  <2>2. /\ AsrCrosses(t)' <=> AsrCrosses(t)
        /\ AsrWillSplit(t)' <=> AsrWillSplit(t)
    BY <1>0, <1>1, <1>4 DEF AsrLocalOK, AsrCrosses, AsrWillSplit, AsrInserting
  <2>3. \A u \in AsrThread : apc[u] \notin {"publish", "held", "release"}
    BY <1>5 DEF AsrHolder
  <2>4. \A u \in AsrThread : u # t => apc'[u] # "held"
    BY <1>6 DEF AsrHolder
  <2>5. \A u \in AsrThread :
          apc'[u] = "held" /\ loc'[u].must /\ c'.ver > 0 => c'.n > CAPACITY
    BY <1>0, <1>1, <1>3, <1>4, <2>4 DEF AsrLocalOK
  <2> QED
    BY <1>0, <1>1, <1>2, <1>3, <2>1, <2>2, <2>3, <2>5 DEF AsrSplitOK, c
<1> QED
  BY <1>7, <1>8, <1>9, <1>10, <1>11, <1>12 DEF AsrInvAt

\* acquire_for_split: gives up after somebody else's split, or takes the lock.
LEMMA AcquireForSplitStep ==
    ASSUME NEW n \in 0 .. CAPACITY, AsrInvAt(n), NEW t \in AsrThread, AcquireForSplit(t)
    PROVE  AsrInvAt(n)'
<1>1. /\ AsrTypeOK /\ AsrLockOK /\ AsrLocalOK /\ AsrIdsOK /\ AsrEntriesOK /\ AsrFreshOK
      /\ AsrCountOK(n) /\ AsrSlotsOK(n) /\ AsrExtractOK(n) /\ AsrSplitOK(n)
  BY DEF AsrInvAt
<1> DEFINE c == cas_counter
<1>2. c \in AsrWord /\ c.n \in Nat /\ c.ver \in Int /\ c.lck \in BOOLEAN /\ CAPACITY \in Nat
  BY <1>1, AsrCapacityAssumption DEF AsrTypeOK, AsrWord
<1>3. apc[t] = "split" /\ loc[t].must
  BY <1>1 DEF AcquireForSplit, AsrLocalOK
<1>4. \A i \in 0 .. CAPACITY - 1 : ~AsrPends(t, i)
  BY <1>3 DEF AsrPends, AsrInserting
<1>5. CASE get_state(c) = "EXTRACTION" \/ (c.ver > 0 /\ c.n <= CAPACITY)
  <2>1. AsrReturn(t) /\ UNCHANGED <<slots, asrCounters, fresh, offered, acquisitions, asrHistory>>
    BY <1>5 DEF AcquireForSplit, asrCounters
  <2>2. c.ver # 0 /\ c.n <= CAPACITY
    <3>1. CASE get_state(c) = "EXTRACTION"
      <4>1. c = EXTRACTION_STATE_VALUE /\ c.ver < 0
        BY <3>1, <1>1, AsrStates DEF AsrLockOK, AsrExtraction
      <4> QED
        BY <4>1, <1>2 DEF EXTRACTION_STATE_VALUE, AsrCounter
    <3> QED
      BY <1>2, <1>5, <3>1
  <2> QED
    BY <1>3, <1>4, <2>1, <2>2, AsrGiveUp
<1>6. CASE ~(get_state(c) = "EXTRACTION" \/ (c.ver > 0 /\ c.n <= CAPACITY))
  <2>1. c.lck = FALSE /\ c.ver >= 0
    <3>1. get_state(c) \in {"FAA_INSERTION", "CAS_INSERTION"}
      BY <1>1, <1>6, AsrStates DEF AcquireForSplit
    <3> QED
      BY <1>1, <1>2, <3>1, AsrStates
  <2>2. /\ c' = AsrLocked(c) /\ loc' = loc
        /\ apc' = [apc EXCEPT ![t] = IF c.ver = 0 THEN "close faa" ELSE "held"]
        /\ UNCHANGED <<slots, faa_counter, elements_at_phase_change, extraction_counter, fresh,
                       offered, acquisitions, asrHistory>>
    BY <1>6 DEF AcquireForSplit, AsrGoto
  <2>3. c.ver > 0 => c.n > CAPACITY
    BY <1>2, <1>6
  <2>4. acquisitions' \in Nat
    BY <1>1, <2>2 DEF AsrTypeOK
  <2> QED
    BY <1>3, <2>1, <2>2, <2>3, <2>4, AsrTakeLock DEF AsrTaken
<1> QED
  BY <1>5, <1>6

\* acquire() and try_upgrade().
LEMMA AsrAcquireStep ==
    ASSUME NEW n \in 0 .. CAPACITY, AsrInvAt(n), NEW t \in AsrThread, AsrAcquire(t)
    PROVE  AsrInvAt(n)'
<1>1. AsrTypeOK /\ AsrLockOK
  BY DEF AsrInvAt
<1>2. cas_counter.lck = FALSE /\ cas_counter.ver >= 0
  <2>1. get_state(cas_counter) \in {"FAA_INSERTION", "CAS_INSERTION"} /\ cas_counter.ver \in Int /\ cas_counter.lck \in BOOLEAN
    BY <1>1 DEF AsrAcquire, is_insertion_state, AsrTypeOK, AsrWord
  <2> QED
    BY <1>1, <2>1, AsrStates
<1>3. /\ apc[t] = "idle" /\ cas_counter' = AsrLocked(cas_counter) /\ loc' = loc
      /\ apc' = [apc EXCEPT ![t] = IF cas_counter.ver = 0 THEN "close faa" ELSE "held"]
      /\ UNCHANGED <<slots, faa_counter, elements_at_phase_change, extraction_counter, fresh,
                     offered, asrHistory>>
  BY DEF AsrAcquire, AsrGoto
<1>4. acquisitions' \in Nat
  <2>1. acquisitions \in Nat
    BY <1>1 DEF AsrTypeOK
  <2>2. acquisitions' = acquisitions + 1
    BY DEF AsrAcquire
  <2> QED
    BY <2>1, <2>2
<1> QED
  BY <1>2, <1>3, <1>4, AsrTakeLock DEF AsrTaken

AsrInside == {"close faa", "publish", "held", "release", "rollback", "dying", "extract"}

\* What is known of the other threads while t holds the lock.
LEMMA AsrHolderAlone ==
    ASSUME NEW n \in 0 .. CAPACITY, AsrInvAt(n), NEW t \in AsrThread, AsrHolder(t)
    PROVE  /\ \A u \in AsrThread : u # t => apc[u] \notin AsrInside
           /\ cas_counter.lck = TRUE /\ cas_counter.ver \in Nat /\ ~AsrExtraction
<1>1. AsrTypeOK /\ AsrLockOK
  BY DEF AsrInvAt
<1>2. cas_counter.ver \in Int /\ cas_counter.lck \in BOOLEAN
  BY <1>1 DEF AsrTypeOK, AsrWord
<1>3. cas_counter.lck /\ cas_counter.ver >= 0
  BY <1>1 DEF AsrLockOK
<1>4. ~AsrExtraction
  BY <1>2, <1>3 DEF AsrExtraction
<1>5. \A u \in AsrThread : apc[u] \notin {"dying", "extract"}
  BY <1>1, <1>4 DEF AsrLockOK
<1>6. \A u \in AsrThread : u # t => ~AsrHolder(u)
  BY <1>1 DEF AsrLockOK
<1>7. \A u \in AsrThread : u # t => apc[u] \notin AsrInside
  BY <1>5, <1>6 DEF AsrHolder, AsrInside
<1>8. cas_counter.lck = TRUE /\ cas_counter.ver \in Nat
  BY <1>2, <1>3
<1> QED
  BY <1>4, <1>7, <1>8

\* The lock invariant, when only t may be between two of the holder's steps.
LEMMA AsrLockOne ==
    ASSUME NEW t \in AsrThread, \A u \in AsrThread : u # t => apc'[u] \notin AsrInside,
           AsrHolder(t)' => cas_counter'.lck /\ cas_counter'.ver >= 0,
           AsrExtraction' => cas_counter' = EXTRACTION_STATE_VALUE,
           cas_counter'.lck => AsrExtraction' \/ AsrHolder(t)',
           ~cas_counter'.lck /\ cas_counter'.ver = 0 => cas_counter'.n = 0,
           apc'[t] \in {"dying", "extract"} => AsrExtraction',
           apc'[t] \in {"close faa", "publish"} => cas_counter'.ver = 0 /\ cas_counter'.n = 0,
           apc'[t] = "rollback" => cas_counter'.ver = 0 /\ cas_counter'.n <= FAA_CAPACITY,
           apc'[t] \in {"publish", "held", "release"} => faa_counter' > FAA_CAPACITY,
           apc'[t] \in {"held", "release"} /\ cas_counter'.ver = 0 => cas_counter'.n <= FAA_CAPACITY,
           cas_counter'.ver # 0 => faa_counter' > FAA_CAPACITY
    PROVE  AsrLockOK'
<1>1. \A u \in AsrThread, p \in AsrInside : apc'[u] = p => u = t
  OBVIOUS
<1>2. \A u \in AsrThread : AsrHolder(u)' => u = t
  BY <1>1 DEF AsrHolder, AsrInside
<1>3. \A u \in AsrThread, p \in {"close faa", "publish", "held", "release", "rollback", "dying", "extract"} :
        apc'[u] = p => u = t
  BY <1>1 DEF AsrInside
<1> QED
  BY <1>2, <1>3 DEF AsrLockOK

\* A step of the holder that moves no entry.
LEMMA AsrHolderQuiet ==
    ASSUME NEW n \in 0 .. CAPACITY, AsrInvAt(n), NEW t \in AsrThread, AsrHolder(t), AsrOthers(t),
           apc'[t] \in {"idle", "publish", "held", "release", "rollback", "dying"},
           apc'[t] = "idle" => ~loc'[t].must,
           cas_counter'.ver = 0 => cas_counter.ver = 0,
           UNCHANGED <<slots, placed, stolen, extracted, fresh, offered, extraction_counter>>
    PROVE  AsrLocalOK' /\ AsrIdsOK' /\ AsrEntriesOK' /\ AsrFreshOK' /\ AsrSlotsOK(n)' /\ AsrExtractOK(n)'
<1>1. AsrTypeOK /\ AsrLocalOK /\ AsrIdsOK /\ AsrEntriesOK /\ AsrFreshOK /\ AsrSlotsOK(n) /\ AsrExtractOK(n)
  BY DEF AsrInvAt
<1>2. ~AsrExtraction
  BY AsrHolderAlone
<1>3. \A i \in 0 .. CAPACITY - 1 : AsrPends(t, i)' <=> AsrPends(t, i)
  BY DEF AsrPends, AsrInserting, AsrHolder
<1>4. \A v \in Int : AsrHasId(t, v)' => AsrHasId(t, v)
  BY DEF AsrHasId, AsrBusy
<1>5. apc[t] # "extract" /\ apc'[t] # "extract"
  BY DEF AsrHolder
<1>6. AsrIdsOK' /\ AsrEntriesOK' /\ AsrFreshOK' /\ AsrSlotsOK(n)' /\ AsrExtractOK(n)'
  BY <1>1, <1>2, <1>3, <1>4, <1>5, AsrQuietStep
<1>7. AsrLocalOK'
  <2> SUFFICES ASSUME NEW u \in AsrThread
               PROVE  /\ AsrBusy(u)' => loc'[u].key # ASR_EMPTY
                      /\ apc'[u] = "reserve" => loc'[u].slot >= FAA_CAPACITY /\ loc'[u].todo > 0
                      /\ AsrInserting(u)' => /\ loc'[u].slot <= loc'[u].limit
                                             /\ loc'[u].limit \in {FAA_CAPACITY, CAPACITY}
                                             /\ cas_counter'.ver = 0 => loc'[u].limit = FAA_CAPACITY
                      /\ apc'[u] = "key" => /\ loc'[u].todo > 0 /\ loc'[u].slot < loc'[u].limit
                                            /\ slots'[loc'[u].slot].val = loc'[u].id
                      /\ apc'[u] = "split" => loc'[u].must
                      /\ apc'[u] = "idle" => ~loc'[u].must
    BY DEF AsrLocalOK
  <2>1. CASE u = t
    BY <2>1 DEF AsrBusy, AsrInserting
  <2>2. CASE u # t
    BY <1>1, <2>2 DEF AsrLocalOK, AsrBusy, AsrInserting, AsrOthers
  <2> QED
    BY <2>1, <2>2
<1> QED
  BY <1>6, <1>7

\* The same for the count of reserved slots.
LEMMA AsrCountOne ==
    ASSUME NEW n \in 0 .. CAPACITY, NEW t \in AsrThread, \A u \in AsrThread : u # t => apc'[u] \notin AsrInside,
           apc'[t] \in {"publish", "dying"} => loc'[t].slot = n,
           AsrExtraction' /\ apc'[t] # "dying" => elements_at_phase_change' = n,
           cas_counter'.ver > 0 => get_valid_reservations(cas_counter)' = n,
           apc'[t] \in {"held", "release"} => get_valid_reservations(cas_counter)' = n,
           cas_counter'.ver = 0 => n <= FAA_CAPACITY,
           cas_counter'.ver = 0 /\ apc'[t] \notin {"publish", "held", "release"}
             => n = IF faa_counter' <= FAA_CAPACITY THEN faa_counter' ELSE FAA_CAPACITY
    PROVE  AsrCountOK(n)'
<1>1. \A u \in AsrThread, p \in {"publish", "held", "release", "dying"} : apc'[u] = p => u = t
  BY DEF AsrInside
<1> QED
  BY <1>1 DEF AsrCountOK

\* The first store of faa_to_cas_transition: no slot can be reserved by the FAA.
LEMMA CloseFaaStep ==
    ASSUME NEW n \in 0 .. CAPACITY, AsrInvAt(n), NEW t \in AsrThread, CloseFaa(t)
    PROVE  AsrInvAt(n)'
<1>1. AsrTypeOK /\ AsrLockOK /\ AsrLocalOK /\ AsrCountOK(n) /\ AsrSplitOK(n)
  BY DEF AsrInvAt
<1>2. /\ apc[t] = "close faa" /\ AsrHolder(t) /\ cas_counter' = cas_counter
      /\ UNCHANGED <<slots, elements_at_phase_change, extraction_counter, fresh,
                     offered, acquisitions, placed, stolen, extracted>>
  BY DEF CloseFaa, AsrHolder, asrHistory
<1>3. /\ \A u \in AsrThread : u # t => apc[u] \notin AsrInside
      /\ cas_counter.lck = TRUE /\ cas_counter.ver \in Nat /\ ~AsrExtraction
  BY <1>2, AsrHolderAlone
<1>4. cas_counter.ver = 0 /\ cas_counter.n = 0
  BY <1>1, <1>2 DEF AsrLockOK
<1>5. n = IF faa_counter <= FAA_CAPACITY THEN faa_counter ELSE FAA_CAPACITY
  <2>1. \A u \in AsrThread : apc[u] \notin {"publish", "held", "release"}
    BY <1>2, <1>3 DEF AsrInside
  <2> QED
    BY <1>1, <1>4, <2>1 DEF AsrCountOK
<1>6. loc' = [loc EXCEPT ![t].slot = n, ![t].ver = 0] /\ apc' = [apc EXCEPT ![t] = "publish"]
  BY <1>5 DEF CloseFaa, AsrGoto
<1>7. /\ AsrOthers(t) /\ apc' \in [AsrThread -> AsrPc] /\ loc' \in [AsrThread -> AsrLocal]
      /\ apc'[t] = "publish" /\ loc'[t].slot = n /\ loc'[t].must = loc[t].must
  <2>1. loc[t] \in AsrLocal /\ loc \in [AsrThread -> AsrLocal] /\ apc \in [AsrThread -> AsrPc]
    BY <1>1 DEF AsrTypeOK
  <2> DEFINE l == [loc[t] EXCEPT !.slot = n, !.ver = 0]
  <2>2. loc' = [loc EXCEPT ![t] = l]
    BY <1>6, <2>1
  <2>3. l = [loc[t] EXCEPT !.slot = n, !.ver = 0] /\ n \in Nat /\ 0 \in Int
    BY AsrCapacityAssumption
  <2> HIDE DEF l
  <2>4. l \in AsrLocal /\ l.slot = n /\ l.must = loc[t].must
    <3> DEFINE k == loc[t]
    <3>1. k \in AsrLocal /\ l = [k EXCEPT !.slot = n, !.ver = 0]
      BY <2>1, <2>3
    <3> HIDE DEF k
    <3>2. l \in AsrLocal /\ l.slot = n /\ l.must = k.must
      BY <2>3, <3>1 DEF AsrLocal
    <3> QED
      BY <3>2 DEF k
  <2> QED
    BY <1>6, <2>1, <2>2, <2>4 DEF AsrPc, AsrOthers
<1>8. faa_counter' \in Nat /\ faa_counter' > FAA_CAPACITY
  <2>1. faa_counter' = IF faa_counter <= FAA_CAPACITY THEN FAA_CAPACITY + 1 ELSE faa_counter
    BY DEF CloseFaa
  <2> QED
    BY <1>1, <2>1, FaaCapacityFits DEF AsrTypeOK
<1>9. AsrTypeOK'
  BY <1>1, <1>2, <1>7, <1>8 DEF AsrTypeOK
<1>10. AsrLocalOK' /\ AsrIdsOK' /\ AsrEntriesOK' /\ AsrFreshOK' /\ AsrSlotsOK(n)' /\ AsrExtractOK(n)'
  BY <1>2, <1>7, AsrHolderQuiet
<1>11. \A u \in AsrThread : u # t => apc'[u] \notin AsrInside
  BY <1>3, <1>7 DEF AsrOthers
<1>12. AsrLockOK'
  <2>1. cas_counter'.ver = 0 /\ cas_counter'.n = 0 /\ cas_counter'.lck = TRUE /\ ~AsrExtraction' /\ AsrHolder(t)'
    BY <1>2, <1>3, <1>4, <1>7 DEF AsrHolder, AsrExtraction
  <2> QED
    BY <1>7, <1>8, <1>11, <2>1, AsrLockOne
<1>13. AsrCountOK(n)'
  BY <1>1, <1>2, <1>3, <1>4, <1>7, <1>11 DEF AsrCountOK, AsrInside, AsrExtraction
<1>14. AsrSplitOK(n)'
  <2>1. \A u \in AsrThread : AsrWillSplit(u)' => AsrWillSplit(u)
    BY <1>2, <1>7 DEF AsrOthers, AsrCrosses, AsrWillSplit, AsrInserting
  <2>2. \A u \in AsrThread : apc[u] # "release"
    BY <1>2, <1>3 DEF AsrInside
  <2>3. \A u \in AsrThread : AsrWillSplit(u) => n = FAA_CAPACITY
    BY <1>1, <1>4, <2>2 DEF AsrSplitOK
  <2>4. CAPACITY \in Nat
    BY AsrCapacityAssumption
  <2> QED
    <3>1. cas_counter'.ver = 0 /\ cas_counter'.n = 0
      BY <1>2, <1>4
    <3> QED
      BY <1>7, <2>1, <2>3, <2>4, <3>1 DEF AsrSplitOK
<1> QED
  BY <1>9, <1>10, <1>12, <1>13, <1>14 DEF AsrInvAt

\* Its second store: the count moves from a local variable to cas_counter.
LEMMA PublishCasStep ==
    ASSUME NEW n \in 0 .. CAPACITY, AsrInvAt(n), NEW t \in AsrThread, PublishCas(t)
    PROVE  AsrInvAt(n)'
<1>1. AsrTypeOK /\ AsrLockOK /\ AsrLocalOK /\ AsrCountOK(n) /\ AsrSplitOK(n)
  BY DEF AsrInvAt
<1>2. /\ apc[t] = "publish" /\ AsrHolder(t) /\ loc' = loc /\ apc' = [apc EXCEPT ![t] = "held"]
      /\ UNCHANGED <<slots, faa_counter, elements_at_phase_change, extraction_counter, fresh,
                     offered, acquisitions, placed, stolen, extracted>>
  BY DEF PublishCas, AsrHolder, asrHistory, AsrGoto
<1>3. /\ \A u \in AsrThread : u # t => apc[u] \notin AsrInside
      /\ cas_counter.lck = TRUE /\ cas_counter.ver \in Nat /\ ~AsrExtraction
  BY <1>2, AsrHolderAlone
<1>4. cas_counter.ver = 0 /\ cas_counter.n = 0 /\ faa_counter > FAA_CAPACITY
  BY <1>1, <1>2 DEF AsrLockOK
<1>5. loc[t].slot = n /\ n \in Nat /\ n <= FAA_CAPACITY /\ FAA_CAPACITY <= CAPACITY
  BY <1>1, <1>2, <1>4, FaaCapacityFits, AsrCapacityAssumption DEF AsrCountOK
<1>6. cas_counter' \in AsrWord /\ cas_counter'.ver = 0 /\ cas_counter'.lck = TRUE /\ cas_counter'.n = n
  <2>1. cas_counter' = AsrCounter(0, TRUE, n)
    BY <1>5 DEF PublishCas
  <2> QED
    BY <1>5, <2>1 DEF AsrCounter, AsrWord
<1>7. /\ AsrOthers(t) /\ apc' \in [AsrThread -> AsrPc] /\ apc'[t] = "held" /\ loc'[t] = loc[t]
  BY <1>1, <1>2 DEF AsrTypeOK, AsrPc, AsrOthers
<1>8. AsrTypeOK'
  BY <1>1, <1>2, <1>6, <1>7 DEF AsrTypeOK
<1>9. AsrLocalOK' /\ AsrIdsOK' /\ AsrEntriesOK' /\ AsrFreshOK' /\ AsrSlotsOK(n)' /\ AsrExtractOK(n)'
  BY <1>2, <1>4, <1>7, AsrHolderQuiet
<1>10. \A u \in AsrThread : u # t => apc'[u] \notin AsrInside
  BY <1>3, <1>7 DEF AsrOthers
<1>11. ~AsrExtraction' /\ AsrHolder(t)'
  BY <1>6, <1>7 DEF AsrHolder, AsrExtraction
<1>12. AsrLockOK'
  <2>1. faa_counter' > FAA_CAPACITY /\ cas_counter'.n <= FAA_CAPACITY
    BY <1>2, <1>4, <1>5, <1>6
  <2> QED
    <3>1. cas_counter'.ver = 0 /\ cas_counter'.ver >= 0 /\ cas_counter'.lck = TRUE /\ apc'[t] = "held"
      BY <1>6, <1>7
    <3> QED
      BY <1>10, <1>11, <2>1, <3>1, AsrLockOne
<1>13. AsrCountOK(n)'
  <2>1. get_valid_reservations(cas_counter)' = n
    BY <1>5, <1>6, AsrCapacityAssumption, FaaCapacityFits DEF get_valid_reservations
  <2> QED
    BY <1>5, <1>6, <1>7, <1>10, <1>11, <2>1 DEF AsrCountOK, AsrInside
<1>14. AsrSplitOK(n)'
  <2>1. \A u \in AsrThread : AsrWillSplit(u)' => AsrWillSplit(u)
    BY <1>2, <1>7 DEF AsrOthers, AsrCrosses, AsrWillSplit, AsrInserting
  <2>2. \A u \in AsrThread : apc[u] # "release"
    BY <1>2, <1>3 DEF AsrInside
  <2>3. \A u \in AsrThread : AsrWillSplit(u) => n = FAA_CAPACITY
    BY <1>1, <1>4, <2>2 DEF AsrSplitOK
  <2>4. ~(n > CAPACITY)
    BY <1>5, AsrCapacityAssumption, FaaCapacityFits
  <2> QED
    BY <1>6, <1>7, <2>1, <2>3, <2>4 DEF AsrSplitOK
<1> QED
  BY <1>8, <1>9, <1>12, <1>13, <1>14 DEF AsrInvAt

\* release(): the version goes up and the vector is in the CAS phase.
LEMMA AsrReleaseStep ==
    ASSUME NEW n \in 0 .. CAPACITY, AsrInvAt(n), NEW t \in AsrThread, AsrRelease(t)
    PROVE  AsrInvAt(n)'
<1>1. AsrTypeOK /\ AsrLockOK /\ AsrLocalOK /\ AsrCountOK(n) /\ AsrSplitOK(n)
  BY DEF AsrInvAt
<1>2. /\ apc[t] = "release" /\ AsrHolder(t) /\ AsrReturn(t)
      /\ UNCHANGED <<slots, faa_counter, elements_at_phase_change, extraction_counter, fresh,
                     offered, acquisitions, placed, stolen, extracted>>
  BY DEF AsrRelease, AsrHolder, asrHistory
<1>3. /\ \A u \in AsrThread : u # t => apc[u] \notin AsrInside
      /\ cas_counter.lck = TRUE /\ cas_counter.ver \in Nat /\ ~AsrExtraction
  BY <1>2, AsrHolderAlone
<1>4. faa_counter > FAA_CAPACITY /\ get_valid_reservations(cas_counter) = n
  BY <1>1, <1>2 DEF AsrLockOK, AsrCountOK
<1>5. /\ cas_counter' \in AsrWord /\ cas_counter'.ver > 0 /\ cas_counter'.ver \in Nat
      /\ cas_counter'.lck = FALSE /\ cas_counter'.n = cas_counter.n
  <2>1. cas_counter' = AsrCounter(cas_counter.ver + 1, FALSE, cas_counter.n) /\ cas_counter.n \in Nat
    BY <1>1 DEF AsrRelease, AsrTypeOK, AsrWord
  <2> QED
    BY <1>3, <2>1 DEF AsrCounter, AsrWord
<1>6. /\ AsrOthers(t) /\ apc'[t] = "idle" /\ loc'[t] = AsrIdle
      /\ apc' \in [AsrThread -> AsrPc] /\ loc' \in [AsrThread -> AsrLocal]
  BY <1>1, <1>2, AsrReturned
<1>7. AsrTypeOK'
  BY <1>1, <1>2, <1>5, <1>6 DEF AsrTypeOK
<1>8. AsrLocalOK' /\ AsrIdsOK' /\ AsrEntriesOK' /\ AsrFreshOK' /\ AsrSlotsOK(n)' /\ AsrExtractOK(n)'
  BY <1>2, <1>5, <1>6, AsrHolderQuiet, AsrIdleType
<1>9. \A u \in AsrThread : u # t => apc'[u] \notin AsrInside
  BY <1>3, <1>6 DEF AsrOthers
<1>10. ~AsrExtraction' /\ ~AsrHolder(t)'
  BY <1>5, <1>6 DEF AsrHolder, AsrExtraction
<1>11. AsrLockOK'
  <2>1. faa_counter' > FAA_CAPACITY
    BY <1>2, <1>4
  <2> QED
    <3>1. cas_counter'.ver # 0 /\ cas_counter'.lck = FALSE /\ apc'[t] = "idle"
      BY <1>5, <1>6
    <3> QED
      BY <1>9, <1>10, <2>1, <3>1, AsrLockOne
<1>12. AsrCountOK(n)'
  <2>1. get_valid_reservations(cas_counter)' = n
    BY <1>4, <1>5 DEF get_valid_reservations
  <2> QED
    BY <1>5, <1>6, <1>9, <1>10, <2>1, AsrCountOne
<1>13. AsrSplitOK(n)'
  <2>1. \A u \in AsrThread : AsrCrosses(u) => AsrCrosses(u)'
    BY <1>2, <1>6 DEF AsrOthers, AsrCrosses, AsrInserting
  <2>2. \A u \in AsrThread : apc'[u] # "held"
    BY <1>6, <1>9 DEF AsrInside
  <2> QED
    BY <1>1, <1>5, <2>1, <2>2 DEF AsrSplitOK
<1> QED
  BY <1>7, <1>8, <1>11, <1>12, <1>13 DEF AsrInvAt

\* The second store of release_unchanged at version 0.
LEMMA RollbackStep ==
    ASSUME NEW n \in 0 .. CAPACITY, AsrInvAt(n), NEW t \in AsrThread, Rollback(t)
    PROVE  AsrInvAt(n)'
<1>1. AsrTypeOK /\ AsrLockOK /\ AsrLocalOK /\ AsrCountOK(n) /\ AsrSplitOK(n)
  BY DEF AsrInvAt
<1>2. /\ apc[t] = "rollback" /\ AsrHolder(t) /\ AsrReturn(t)
      /\ UNCHANGED <<slots, faa_counter, elements_at_phase_change, extraction_counter, fresh,
                     offered, acquisitions, placed, stolen, extracted>>
  BY DEF Rollback, AsrHolder, asrHistory
<1>3. /\ \A u \in AsrThread : u # t => apc[u] \notin AsrInside
      /\ cas_counter.lck = TRUE /\ cas_counter.ver \in Nat /\ ~AsrExtraction
  BY <1>2, AsrHolderAlone
<1>4. cas_counter.ver = 0
  BY <1>1, <1>2 DEF AsrLockOK
<1>5. /\ cas_counter' \in AsrWord /\ cas_counter'.ver = 0 /\ cas_counter'.lck = FALSE /\ cas_counter'.n = 0
  <2>1. cas_counter' = AsrCounter(0, FALSE, 0)
    BY DEF Rollback
  <2> QED
    BY <2>1 DEF AsrCounter, AsrWord
<1>6. /\ AsrOthers(t) /\ apc'[t] = "idle" /\ loc'[t] = AsrIdle
      /\ apc' \in [AsrThread -> AsrPc] /\ loc' \in [AsrThread -> AsrLocal]
  BY <1>1, <1>2, AsrReturned
<1>7. AsrTypeOK'
  BY <1>1, <1>2, <1>5, <1>6 DEF AsrTypeOK
<1>8. AsrLocalOK' /\ AsrIdsOK' /\ AsrEntriesOK' /\ AsrFreshOK' /\ AsrSlotsOK(n)' /\ AsrExtractOK(n)'
  BY <1>2, <1>4, <1>5, <1>6, AsrHolderQuiet, AsrIdleType
<1>9. \A u \in AsrThread : u # t => apc'[u] \notin AsrInside
  BY <1>3, <1>6 DEF AsrOthers
<1>10. ~AsrExtraction' /\ ~AsrHolder(t)'
  BY <1>5, <1>6 DEF AsrHolder, AsrExtraction
<1>11. AsrLockOK'
  BY <1>2, <1>5, <1>6, <1>9, <1>10, AsrLockOne
<1>12. \A u \in AsrThread : apc[u] \notin {"publish", "held", "release"}
  BY <1>2, <1>3 DEF AsrInside
<1>13. AsrCountOK(n)'
  <2>1. n = IF faa_counter <= FAA_CAPACITY THEN faa_counter ELSE FAA_CAPACITY
    BY <1>1, <1>4, <1>12 DEF AsrCountOK
  <2>2. n <= FAA_CAPACITY
    BY <1>1, <1>4 DEF AsrCountOK
  <2> QED
    BY <1>2, <1>5, <1>6, <1>9, <1>10, <2>1, <2>2, AsrCountOne
<1>14. AsrSplitOK(n)'
  <2>1. \A u \in AsrThread : AsrWillSplit(u)' <=> AsrWillSplit(u)
    BY <1>2, <1>6 DEF AsrOthers, AsrCrosses, AsrWillSplit, AsrInserting
  <2>2. \A u \in AsrThread : apc'[u] # "held"
    BY <1>6, <1>9 DEF AsrInside
  <2>3. faa_counter > FAA_CAPACITY => \E u \in AsrThread : AsrWillSplit(u)
    BY <1>1, <1>4, <1>12 DEF AsrSplitOK
  <2>4. \A u \in AsrThread : AsrWillSplit(u) => n = FAA_CAPACITY
    BY <1>1, <1>4, <1>12 DEF AsrSplitOK
  <2> QED
    BY <1>2, <1>5, <2>1, <2>2, <2>3, <2>4, AsrCapacityAssumption DEF AsrSplitOK
<1> QED
  BY <1>7, <1>8, <1>11, <1>13, <1>14 DEF AsrInvAt

\* release_unchanged from compare-and-swap insertion just drops the lock bit;
\* whoever has to split an overfull vector is another thread.
LEMMA ReleaseUnchangedCas ==
    ASSUME NEW n \in 0 .. CAPACITY, AsrInvAt(n), NEW t \in AsrThread, ReleaseUnchanged(t), cas_counter.ver >= 1
    PROVE  AsrInvAt(n)'
<1>1. AsrTypeOK /\ AsrLockOK /\ AsrLocalOK /\ AsrCountOK(n) /\ AsrSplitOK(n)
  BY DEF AsrInvAt
<1>2. /\ apc[t] = "held" /\ ~loc[t].must /\ AsrHolder(t) /\ AsrReturn(t)
      /\ UNCHANGED <<slots, faa_counter, elements_at_phase_change, extraction_counter, fresh,
                     offered, acquisitions, placed, stolen, extracted>>
  BY DEF ReleaseUnchanged, AsrHolder, asrHistory
<1>3. /\ \A u \in AsrThread : u # t => apc[u] \notin AsrInside
      /\ cas_counter.lck = TRUE /\ cas_counter.ver \in Nat /\ ~AsrExtraction
  BY <1>2, AsrHolderAlone
<1>4. faa_counter > FAA_CAPACITY /\ get_valid_reservations(cas_counter) = n
  BY <1>1, <1>2 DEF AsrLockOK, AsrCountOK
<1>5. /\ cas_counter' \in AsrWord /\ cas_counter'.ver > 0 /\ cas_counter'.ver \in Nat
      /\ cas_counter'.lck = FALSE /\ cas_counter'.n = cas_counter.n
  <2> DEFINE c == cas_counter
  <2>1. c \in AsrWord /\ c.ver >= 1
    BY <1>1 DEF AsrTypeOK
  <2>2. c' = [c EXCEPT !.lck = FALSE]
    BY DEF ReleaseUnchanged
  <2> HIDE DEF c
  <2>3. c' \in AsrWord /\ c'.ver = c.ver /\ c'.lck = FALSE /\ c'.n = c.n
    BY <2>1, <2>2 DEF AsrWord
  <2> QED
    BY <1>3, <2>1, <2>3 DEF c
<1>6. /\ AsrOthers(t) /\ apc'[t] = "idle" /\ loc'[t] = AsrIdle
      /\ apc' \in [AsrThread -> AsrPc] /\ loc' \in [AsrThread -> AsrLocal]
  BY <1>1, <1>2, AsrReturned
<1>7. AsrTypeOK'
  BY <1>1, <1>2, <1>5, <1>6 DEF AsrTypeOK
<1>8. AsrLocalOK' /\ AsrIdsOK' /\ AsrEntriesOK' /\ AsrFreshOK' /\ AsrSlotsOK(n)' /\ AsrExtractOK(n)'
  BY <1>2, <1>5, <1>6, AsrHolderQuiet, AsrIdleType
<1>9. \A u \in AsrThread : u # t => apc'[u] \notin AsrInside
  BY <1>3, <1>6 DEF AsrOthers
<1>10. ~AsrExtraction' /\ ~AsrHolder(t)'
  BY <1>5, <1>6 DEF AsrHolder, AsrExtraction
<1>11. AsrLockOK'
  <2>1. faa_counter' > FAA_CAPACITY
    BY <1>2, <1>4
  <2>2. cas_counter'.ver # 0 /\ cas_counter'.lck = FALSE /\ apc'[t] = "idle"
    BY <1>5, <1>6
  <2> QED
    BY <1>9, <1>10, <2>1, <2>2, AsrLockOne
<1>12. AsrCountOK(n)'
  <2>1. get_valid_reservations(cas_counter)' = n
    BY <1>4, <1>5 DEF get_valid_reservations
  <2> QED
    BY <1>5, <1>6, <1>9, <1>10, <2>1, AsrCountOne
<1>13. AsrSplitOK(n)'
  <2>1. \A u \in AsrThread : AsrCrosses(u) => AsrCrosses(u)'
    BY <1>2, <1>6 DEF AsrOthers, AsrCrosses, AsrInserting
  <2>2. \A u \in AsrThread : apc'[u] # "held"
    BY <1>6, <1>9 DEF AsrInside
  <2> QED
    BY <1>1, <1>5, <2>1, <2>2 DEF AsrSplitOK
<1> QED
  BY <1>7, <1>8, <1>11, <1>12, <1>13 DEF AsrInvAt

\* At version 0 the first of its two stores reopens the fetch-and-add phase with
\* the count of reserved slots.
LEMMA ReleaseUnchangedFaa ==
    ASSUME NEW n \in 0 .. CAPACITY, AsrInvAt(n), NEW t \in AsrThread, ReleaseUnchanged(t), ~(cas_counter.ver >= 1)
    PROVE  AsrInvAt(n)'
<1>1. AsrTypeOK /\ AsrLockOK /\ AsrLocalOK /\ AsrCountOK(n) /\ AsrSplitOK(n)
  BY DEF AsrInvAt
<1>2. /\ apc[t] = "held" /\ ~loc[t].must /\ AsrHolder(t) /\ faa_counter' = cas_counter.n
      /\ apc' = [apc EXCEPT ![t] = "rollback"]
      /\ UNCHANGED <<slots, cas_counter, loc, elements_at_phase_change, extraction_counter, fresh,
                     offered, acquisitions, placed, stolen, extracted>>
  BY DEF ReleaseUnchanged, AsrHolder, asrHistory, AsrGoto
<1>3. /\ \A u \in AsrThread : u # t => apc[u] \notin AsrInside
      /\ cas_counter.lck = TRUE /\ cas_counter.ver \in Nat /\ ~AsrExtraction
  BY <1>2, AsrHolderAlone
<1>4. cas_counter.ver = 0
  BY <1>3
<1>5. cas_counter.n = n /\ n <= FAA_CAPACITY /\ n \in Nat
  <2>1. cas_counter.n \in Nat /\ get_valid_reservations(cas_counter) = n /\ n <= FAA_CAPACITY
    BY <1>1, <1>2, <1>4 DEF AsrTypeOK, AsrWord, AsrCountOK
  <2>2. cas_counter.n <= FAA_CAPACITY
    BY <1>1, <1>2, <1>4 DEF AsrLockOK
  <2>3. cas_counter.n <= CAPACITY
    BY <2>1, <2>2, FaaCapacityFits, AsrCapacityAssumption
  <2> QED
    BY <1>1, <2>1, <2>3, ValidReservations
<1>6. AsrOthers(t) /\ apc' \in [AsrThread -> AsrPc] /\ apc'[t] = "rollback" /\ loc'[t] = loc[t]
  BY <1>1, <1>2 DEF AsrTypeOK, AsrPc, AsrOthers
<1>7. cas_counter' = cas_counter /\ faa_counter' = n /\ elements_at_phase_change' = elements_at_phase_change
  BY <1>2, <1>5
<1>8. AsrTypeOK'
  BY <1>1, <1>2, <1>5, <1>6, <1>7 DEF AsrTypeOK
<1>9. AsrLocalOK' /\ AsrIdsOK' /\ AsrEntriesOK' /\ AsrFreshOK' /\ AsrSlotsOK(n)' /\ AsrExtractOK(n)'
  BY <1>2, <1>4, <1>6, AsrHolderQuiet
<1>10. \A u \in AsrThread : u # t => apc'[u] \notin AsrInside
  BY <1>3, <1>6 DEF AsrOthers
<1>11. /\ ~AsrExtraction' /\ AsrHolder(t)' /\ cas_counter'.ver = 0 /\ cas_counter'.ver >= 0
       /\ cas_counter'.lck = TRUE /\ cas_counter'.n = n
  BY <1>3, <1>4, <1>5, <1>6, <1>7 DEF AsrHolder, AsrExtraction
<1>12. AsrLockOK'
  BY <1>5, <1>6, <1>10, <1>11, AsrLockOne
<1>13. AsrCountOK(n)'
  <2>1. n = IF faa_counter' <= FAA_CAPACITY THEN faa_counter' ELSE FAA_CAPACITY
    BY <1>5, <1>7
  <2>2. ~(cas_counter'.ver > 0)
    BY <1>11
  <2> QED
    BY <1>5, <1>6, <1>10, <1>11, <2>1, <2>2, AsrCountOne
<1>14. AsrSplitOK(n)'
  <2>1. \A u \in AsrThread : AsrWillSplit(u)' => AsrWillSplit(u)
    BY <1>2, <1>6 DEF AsrOthers, AsrCrosses, AsrWillSplit, AsrInserting
  <2>2. \A u \in AsrThread : apc[u] # "release"
    BY <1>2, <1>3 DEF AsrInside
  <2>3. \A u \in AsrThread : AsrWillSplit(u) => n = FAA_CAPACITY
    BY <1>1, <1>4, <2>2 DEF AsrSplitOK
  <2>4. ~(n > CAPACITY) /\ ~(n > FAA_CAPACITY)
    BY <1>5, AsrCapacityAssumption, FaaCapacityFits
  <2>5. \A u \in AsrThread : apc'[u] # "held"
    BY <1>6, <1>10 DEF AsrInside
  <2> QED
    BY <1>7, <1>11, <2>1, <2>3, <2>4, <2>5 DEF AsrSplitOK
<1> QED
  BY <1>8, <1>9, <1>12, <1>13, <1>14 DEF AsrInvAt

\* die(): the change to the extraction phase.
LEMMA AsrDieStep ==
    ASSUME NEW n \in 0 .. CAPACITY, AsrInvAt(n), NEW t \in AsrThread, AsrDie(t)
    PROVE  AsrInvAt(n)'
<1>1. AsrTypeOK /\ AsrLockOK /\ AsrLocalOK /\ AsrCountOK(n) /\ AsrSplitOK(n)
  BY DEF AsrInvAt
<1>2. /\ apc[t] = "held" /\ AsrHolder(t) /\ cas_counter' = EXTRACTION_STATE_VALUE
      /\ apc' = [apc EXCEPT ![t] = "dying"]
      /\ loc' = [loc EXCEPT ![t].slot = get_valid_reservations(cas_counter)]
      /\ UNCHANGED <<slots, faa_counter, elements_at_phase_change, extraction_counter, fresh,
                     offered, acquisitions, placed, stolen, extracted>>
  BY DEF AsrDie, AsrHolder, asrHistory, AsrGoto
<1>3. /\ \A u \in AsrThread : u # t => apc[u] \notin AsrInside
      /\ cas_counter.lck = TRUE /\ cas_counter.ver \in Nat /\ ~AsrExtraction
  BY <1>2, AsrHolderAlone
<1>4. faa_counter > FAA_CAPACITY /\ get_valid_reservations(cas_counter) = n /\ n \in Nat
  <2>1. faa_counter > FAA_CAPACITY /\ get_valid_reservations(cas_counter) = n
    BY <1>1, <1>2 DEF AsrLockOK, AsrCountOK
  <2> QED
    BY <2>1, AsrCapacityAssumption
<1>5. AsrOthers(t) /\ apc' \in [AsrThread -> AsrPc] /\ apc'[t] = "dying"
  BY <1>1, <1>2 DEF AsrTypeOK, AsrPc, AsrOthers
<1>6. loc' \in [AsrThread -> AsrLocal] /\ loc'[t].slot = n
  <2> DEFINE k == loc[t]
  <2> DEFINE l == [k EXCEPT !.slot = n]
  <2>1. k \in AsrLocal /\ loc' = [loc EXCEPT ![t] = l] /\ loc \in [AsrThread -> AsrLocal]
    BY <1>1, <1>2, <1>4 DEF AsrTypeOK
  <2> HIDE DEF k
  <2>2. l \in AsrLocal /\ l.slot = n
    BY <1>4, <2>1 DEF AsrLocal
  <2> HIDE DEF l
  <2> QED
    BY <2>1, <2>2
<1>7. /\ cas_counter' \in AsrWord /\ cas_counter'.ver = -1 /\ cas_counter'.n = 0 /\ AsrExtraction'
  BY <1>2 DEF EXTRACTION_STATE_VALUE, AsrCounter, AsrWord, AsrExtraction
<1>8. AsrTypeOK'
  BY <1>1, <1>2, <1>5, <1>6, <1>7 DEF AsrTypeOK
<1>9. AsrLocalOK' /\ AsrIdsOK' /\ AsrEntriesOK' /\ AsrFreshOK' /\ AsrSlotsOK(n)' /\ AsrExtractOK(n)'
  BY <1>2, <1>5, <1>7, AsrHolderQuiet
<1>10. \A u \in AsrThread : u # t => apc'[u] \notin AsrInside
  BY <1>3, <1>5 DEF AsrOthers
<1>11. faa_counter' > FAA_CAPACITY /\ ~AsrHolder(t)' /\ cas_counter'.ver # 0 /\ ~(cas_counter'.ver > 0)
  BY <1>2, <1>4, <1>5, <1>7 DEF AsrHolder
<1>12. AsrLockOK'
  <2>1. cas_counter' = EXTRACTION_STATE_VALUE
    BY <1>2
  <2> QED
    BY <1>5, <1>7, <1>10, <1>11, <2>1, AsrLockOne
<1>13. AsrCountOK(n)'
  BY <1>5, <1>6, <1>10, <1>11, AsrCountOne
<1>14. AsrSplitOK(n)'
  <2>1. ~(cas_counter'.n > CAPACITY)
    BY <1>7, AsrCapacityAssumption
  <2> QED
    BY <1>11, <2>1 DEF AsrSplitOK
<1> QED
  BY <1>8, <1>9, <1>12, <1>13, <1>14 DEF AsrInvAt

\* In the extraction phase nobody holds the lock and only one thread may still
\* be about to store the number of elements.
LEMMA AsrDiedStep ==
    ASSUME NEW n \in 0 .. CAPACITY, AsrInvAt(n), NEW t \in AsrThread, AsrDied(t)
    PROVE  AsrInvAt(n)'
<1>1. /\ AsrTypeOK /\ AsrLockOK /\ AsrLocalOK /\ AsrIdsOK /\ AsrEntriesOK /\ AsrFreshOK
      /\ AsrCountOK(n) /\ AsrSlotsOK(n) /\ AsrExtractOK(n) /\ AsrSplitOK(n)
  BY DEF AsrInvAt
<1>2. /\ apc[t] = "dying" /\ AsrReturn(t) /\ elements_at_phase_change' = loc[t].slot
      /\ UNCHANGED <<slots, faa_counter, cas_counter, extraction_counter, fresh, offered, acquisitions,
                     placed, stolen, extracted>>
  BY DEF AsrDied, asrHistory
<1>3. loc[t].slot = n /\ n \in Nat
  <2>1. loc[t].slot = n
    BY <1>1, <1>2 DEF AsrCountOK
  <2> QED
    BY <2>1, AsrCapacityAssumption
<1>4. /\ AsrOthers(t) /\ apc'[t] = "idle" /\ loc'[t] = AsrIdle
      /\ apc' \in [AsrThread -> AsrPc] /\ loc' \in [AsrThread -> AsrLocal]
  BY <1>1, <1>2, AsrReturned
<1>5. AsrTypeOK'
  BY <1>1, <1>2, <1>3, <1>4 DEF AsrTypeOK
<1>6. AsrExtraction /\ AsrExtraction' /\ cas_counter' = cas_counter /\ faa_counter' = faa_counter
  BY <1>1, <1>2 DEF AsrLockOK, AsrExtraction
<1>7. cas_counter.ver # 0 /\ ~(cas_counter.ver > 0) /\ cas_counter.ver \in Int
  BY <1>1, <1>6 DEF AsrExtraction, AsrTypeOK, AsrWord
<1>8. \A u \in AsrThread : ~AsrHolder(u) /\ ~AsrHolder(u)'
  <2>1. \A u \in AsrThread : ~AsrHolder(u)
    <3> SUFFICES ASSUME NEW u \in AsrThread, AsrHolder(u)
                 PROVE  FALSE
      OBVIOUS
    <3> QED
      BY <1>6, AsrHolderAlone
  <2> QED
    BY <1>4, <2>1 DEF AsrHolder, AsrOthers
<1>9. \A u \in AsrThread : apc'[u] # "dying"
  BY <1>1, <1>2, <1>4 DEF AsrLockOK, AsrOthers
<1>10. \A u \in AsrThread : apc'[u] = "extract" => apc[u] = "extract"
  BY <1>4 DEF AsrOthers
<1>11. AsrLockOK'
  <2>1. \A u \in AsrThread : apc'[u] \notin {"close faa", "publish", "held", "release", "rollback"}
    BY <1>8 DEF AsrHolder
  <2>2. /\ AsrExtraction' => cas_counter' = EXTRACTION_STATE_VALUE
        /\ cas_counter'.ver # 0 => faa_counter' > FAA_CAPACITY
    BY <1>1, <1>6 DEF AsrLockOK
  <2>3. cas_counter'.ver # 0
    BY <1>6, <1>7
  <2> QED
    BY <1>6, <1>8, <1>9, <2>1, <2>2, <2>3 DEF AsrLockOK
<1>12. AsrIdsOK' /\ AsrEntriesOK' /\ AsrFreshOK' /\ AsrSlotsOK(n)' /\ AsrExtractOK(n)'
  <2>1. \A i \in 0 .. CAPACITY - 1 : AsrPends(t, i)' <=> AsrPends(t, i)
    BY <1>2, <1>4 DEF AsrPends, AsrInserting
  <2>2. \A v \in Int : AsrHasId(t, v)' => AsrHasId(t, v)
    BY <1>4 DEF AsrHasId, AsrBusy
  <2> QED
    BY <1>1, <1>2, <1>4, <1>6, <2>1, <2>2, AsrQuietStep
<1>13. AsrLocalOK'
  <2>1. slots' = slots /\ cas_counter' = cas_counter
    BY <1>2
  <2> QED
    BY <1>1, <1>4, <2>1, AsrIdleType DEF AsrLocalOK, AsrOthers, AsrBusy, AsrInserting
<1>14. AsrCountOK(n)'
  <2>1. \A u \in AsrThread : apc'[u] \notin {"publish", "held", "release", "dying"}
    BY <1>8, <1>9 DEF AsrHolder
  <2>2. elements_at_phase_change' = n
    BY <1>2, <1>3
  <2> QED
    BY <1>6, <1>7, <2>1, <2>2 DEF AsrCountOK
<1>15. AsrSplitOK(n)'
  <2>1. \A u \in AsrThread : AsrCrosses(u) => AsrCrosses(u)'
    BY <1>2, <1>4 DEF AsrOthers, AsrCrosses, AsrInserting
  <2> QED
    BY <1>1, <1>6, <1>7, <2>1 DEF AsrSplitOK
<1> QED
  BY <1>5, <1>11, <1>12, <1>13, <1>14, <1>15 DEF AsrInvAt

\* A step of an extractor touches only the extraction counter and the history.
LEMMA AsrExtractorStep ==
    ASSUME NEW n \in 0 .. CAPACITY, AsrInvAt(n), NEW t \in AsrThread, AsrOthers(t), AsrExtraction,
           UNCHANGED <<slots, faa_counter, cas_counter, elements_at_phase_change, fresh, offered, placed, stolen>>,
           apc[t] \in {"idle", "extract"}, apc'[t] \in {"idle", "extract"}, apc'[t] = "idle" => ~loc'[t].must
    PROVE  /\ AsrLockOK' /\ AsrLocalOK' /\ AsrIdsOK' /\ AsrEntriesOK' /\ AsrFreshOK'
           /\ AsrCountOK(n)' /\ AsrSlotsOK(n)' /\ AsrSplitOK(n)'
<1>1. /\ AsrTypeOK /\ AsrLockOK /\ AsrLocalOK /\ AsrIdsOK /\ AsrEntriesOK /\ AsrFreshOK
      /\ AsrCountOK(n) /\ AsrSlotsOK(n) /\ AsrSplitOK(n)
  BY DEF AsrInvAt
<1>2. \A u \in AsrThread, p \in AsrPc \ {"idle", "extract"} : apc'[u] = p <=> apc[u] = p
  BY DEF AsrOthers
<1>3. \A u \in AsrThread, p \in {"close faa", "publish", "held", "release", "rollback", "dying",
                                "reserve", "value", "key", "split"} : apc'[u] = p <=> apc[u] = p
  BY <1>2 DEF AsrPc
<1>4. \A u \in AsrThread : apc[u] \notin {"idle", "extract"} => loc'[u] = loc[u]
  BY DEF AsrOthers
<1>5. cas_counter' = cas_counter /\ faa_counter' = faa_counter /\ slots' = slots
      /\ elements_at_phase_change' = elements_at_phase_change
  OBVIOUS
<1>6. AsrExtraction' /\ cas_counter'.ver # 0 /\ ~(cas_counter'.ver > 0)
  <2>1. cas_counter.ver \in Int /\ cas_counter.ver < 0
    BY <1>1 DEF AsrTypeOK, AsrWord, AsrExtraction
  <2> QED
    BY <1>5, <2>1 DEF AsrExtraction
<1>7. AsrLockOK'
  <2>1. \A u \in AsrThread : AsrHolder(u)' <=> AsrHolder(u)
    BY <1>3 DEF AsrHolder
  <2> QED
    BY <1>1, <1>3, <1>5, <1>6, <2>1 DEF AsrLockOK
<1>8. AsrCountOK(n)'
  <2>1. \A u \in AsrThread : apc[u] = "dying" => loc'[u] = loc[u]
    BY <1>4
  <2>2. \A u \in AsrThread : apc[u] = "publish" => loc'[u] = loc[u]
    BY <1>4
  <2>3. get_valid_reservations(cas_counter)' = get_valid_reservations(cas_counter)
    BY <1>5 DEF get_valid_reservations
  <2> QED
    BY <1>1, <1>3, <1>5, <1>6, <2>1, <2>2, <2>3 DEF AsrCountOK
<1>9. \A u \in AsrThread, i \in 0 .. CAPACITY - 1 : AsrPends(u, i)' <=> AsrPends(u, i)
  BY DEF AsrOthers, AsrPends, AsrInserting
<1>10. AsrSlotsOK(n)'
  BY <1>1, <1>5, <1>9 DEF AsrSlotsOK
<1>11. \A u \in AsrThread, v \in Int : AsrHasId(u, v)' => AsrHasId(u, v)
  BY DEF AsrOthers, AsrHasId, AsrBusy
<1>12. AsrIdsOK'
  <2>1. \A e \in placed : e.val \in Int
    BY <1>1 DEF AsrTypeOK, AsrEntry
  <2> QED
    BY <1>1, <1>11, <2>1 DEF AsrIdsOK
<1>13. AsrEntriesOK' /\ AsrFreshOK'
  BY <1>1 DEF AsrEntriesOK, AsrFreshOK, SlotEntries, AsrSlots, verify_locked
<1>14. AsrLocalOK'
  BY <1>1, <1>5 DEF AsrLocalOK, AsrOthers, AsrBusy, AsrInserting
<1>15. AsrSplitOK(n)'
  <2>1. \A u \in AsrThread : AsrCrosses(u) => AsrCrosses(u)'
    BY DEF AsrOthers, AsrCrosses, AsrInserting
  <2> QED
    BY <1>1, <1>5, <1>6, <2>1 DEF AsrSplitOK
<1> QED
  BY <1>7, <1>8, <1>10, <1>12, <1>13, <1>14, <1>15

\* extract(): the next slot to read, or none; none also when die() has not stored
\* the number of elements yet.
LEMMA ReserveExtractionStep ==
    ASSUME NEW n \in 0 .. CAPACITY, AsrInvAt(n), AsrPhaseOK, NEW t \in AsrThread, ReserveExtraction(t)
    PROVE  AsrInvAt(n)'
<1>1. /\ AsrTypeOK /\ AsrLockOK /\ AsrLocalOK /\ AsrIdsOK /\ AsrEntriesOK /\ AsrFreshOK
      /\ AsrCountOK(n) /\ AsrSlotsOK(n) /\ AsrExtractOK(n) /\ AsrSplitOK(n)
  BY DEF AsrInvAt
<1>2. /\ apc[t] = "idle"
      /\ extraction_counter' = extraction_counter + 1 /\ extraction_counter \in Nat
      /\ UNCHANGED <<slots, faa_counter, cas_counter, elements_at_phase_change, fresh, offered,
                     acquisitions, placed, stolen, extracted>>
  BY <1>1 DEF ReserveExtraction, asrHistory, AsrTypeOK
<1>3. AsrExtraction /\ AsrExtraction'
  <2>1. AsrExtraction
    BY <1>1, AsrStates DEF ReserveExtraction
  <2> QED
    BY <1>2, <2>1 DEF AsrExtraction
<1>4. elements_at_phase_change \in {0, n}
  BY <1>1, <1>3 DEF AsrCountOK, AsrPhaseOK
<1> DEFINE x == extraction_counter
<1>5. \/ apc' = apc /\ loc' = loc
      \/ x < n /\ apc' = [apc EXCEPT ![t] = "extract"] /\ loc' = [loc EXCEPT ![t].slot = x]
  BY <1>2, <1>4, AsrCapacityAssumption DEF ReserveExtraction, AsrGoto
<1> HIDE DEF x
<1>6. x \in Nat
  BY <1>2 DEF x
<1>7. AsrExtractOK(n)
  BY <1>1
<1>8. \A m \in 1 .. Len(extracted) : \E i \in 0 .. CAPACITY - 1 :
        /\ i < x /\ slots[i].key # ASR_EMPTY /\ slots[i] = extracted[m]
        /\ \A u \in AsrThread : apc[u] = "extract" => loc[u].slot # i
  BY <1>7 DEF AsrExtractOK, x
<1>9. \A u \in AsrThread : apc[u] = "extract" => loc[u].slot < n /\ loc[u].slot < x
  BY <1>7 DEF AsrExtractOK, x
<1>10. CASE apc' = apc /\ loc' = loc
  <2>1. AsrOthers(t) /\ apc'[t] = "idle" /\ ~loc'[t].must
    BY <1>1, <1>2, <1>10 DEF AsrOthers, AsrLocalOK
  <2>2. /\ AsrLockOK' /\ AsrLocalOK' /\ AsrIdsOK' /\ AsrEntriesOK' /\ AsrFreshOK'
        /\ AsrCountOK(n)' /\ AsrSlotsOK(n)' /\ AsrSplitOK(n)'
    BY <1>2, <1>3, <2>1, AsrExtractorStep
  <2>3. AsrTypeOK'
    BY <1>1, <1>2, <1>10 DEF AsrTypeOK
  <2>4. AsrExtractOK(n)'
    <3>1. x' = x + 1 /\ slots' = slots /\ extracted' = extracted
      BY <1>2 DEF x
    <3>2. \A m \in 1 .. Len(extracted') : \E i \in 0 .. CAPACITY - 1 :
            /\ i < x' /\ slots'[i].key # ASR_EMPTY /\ slots'[i] = extracted'[m]
            /\ \A u \in AsrThread : apc'[u] = "extract" => loc'[u].slot # i
      BY <1>6, <1>8, <1>10, <3>1
    <3>3. \A u \in AsrThread : apc'[u] = "extract" => loc'[u].slot < n /\ loc'[u].slot < x'
      <4>1. \A u \in AsrThread : loc[u].slot \in Nat
        BY <1>1 DEF AsrTypeOK, AsrLocal
      <4> QED
        BY <1>6, <1>9, <1>10, <3>1, <4>1
    <3>4. /\ \A u, w \in AsrThread :
               apc'[u] = "extract" /\ apc'[w] = "extract" /\ loc'[u].slot = loc'[w].slot => u = w
          /\ \A m, k \in 1 .. Len(extracted') : extracted'[m] = extracted'[k] => m = k
      BY <1>7, <1>10, <3>1 DEF AsrExtractOK
    <3> QED
      BY <1>3, <3>2, <3>3, <3>4 DEF AsrExtractOK, x
  <2> QED
    BY <2>2, <2>3, <2>4 DEF AsrInvAt
<1>11. CASE x < n /\ apc' = [apc EXCEPT ![t] = "extract"] /\ loc' = [loc EXCEPT ![t].slot = x]
  <2>1. AsrOthers(t) /\ apc'[t] = "extract" /\ apc' \in [AsrThread -> AsrPc]
    BY <1>1, <1>11 DEF AsrOthers, AsrTypeOK, AsrPc
  <2>2. loc' \in [AsrThread -> AsrLocal] /\ loc'[t].slot = x
    <3> DEFINE k == loc[t]
    <3> DEFINE l == [k EXCEPT !.slot = x]
    <3>1. k \in AsrLocal /\ loc' = [loc EXCEPT ![t] = l] /\ loc \in [AsrThread -> AsrLocal]
      BY <1>1, <1>11 DEF AsrTypeOK
    <3> HIDE DEF k
    <3>2. l \in AsrLocal /\ l.slot = x
      BY <1>6, <3>1 DEF AsrLocal
    <3> HIDE DEF l
    <3> QED
      BY <3>1, <3>2
  <2>3. /\ AsrLockOK' /\ AsrLocalOK' /\ AsrIdsOK' /\ AsrEntriesOK' /\ AsrFreshOK'
        /\ AsrCountOK(n)' /\ AsrSlotsOK(n)' /\ AsrSplitOK(n)'
    BY <1>2, <1>3, <2>1, AsrExtractorStep
  <2>4. AsrTypeOK'
    BY <1>1, <1>2, <2>1, <2>2 DEF AsrTypeOK
  <2>5. AsrExtractOK(n)'
    <3>1. x' = x + 1 /\ slots' = slots /\ extracted' = extracted
      BY <1>2 DEF x
    <3>2. \A u \in AsrThread : loc[u].slot \in Nat
      BY <1>1 DEF AsrTypeOK, AsrLocal
    <3>3. \A m \in 1 .. Len(extracted') : \E i \in 0 .. CAPACITY - 1 :
            /\ i < x' /\ slots'[i].key # ASR_EMPTY /\ slots'[i] = extracted'[m]
            /\ \A u \in AsrThread : apc'[u] = "extract" => loc'[u].slot # i
      <4> SUFFICES ASSUME NEW m \in 1 .. Len(extracted)
                   PROVE  \E i \in 0 .. CAPACITY - 1 :
                            /\ i < x' /\ slots[i].key # ASR_EMPTY /\ slots[i] = extracted[m]
                            /\ \A u \in AsrThread : apc'[u] = "extract" => loc'[u].slot # i
        BY <3>1
      <4>1. PICK i \in 0 .. CAPACITY - 1 :
              /\ i < x /\ slots[i].key # ASR_EMPTY /\ slots[i] = extracted[m]
              /\ \A u \in AsrThread : apc[u] = "extract" => loc[u].slot # i
        BY <1>8
      <4>2. \A u \in AsrThread : apc'[u] = "extract" => loc'[u].slot # i
        BY <1>6, <2>1, <2>2, <4>1 DEF AsrOthers
      <4>3. i < x'
        BY <1>6, <3>1, <4>1
      <4> QED
        BY <4>1, <4>2, <4>3
    <3>4. \A u \in AsrThread : apc'[u] = "extract" => loc'[u].slot < n /\ loc'[u].slot < x'
      BY <1>6, <1>9, <1>11, <2>1, <2>2, <3>1, <3>2 DEF AsrOthers
    <3>5. \A u, w \in AsrThread :
            apc'[u] = "extract" /\ apc'[w] = "extract" /\ loc'[u].slot = loc'[w].slot => u = w
      <4>1. \A u, w \in AsrThread :
              apc[u] = "extract" /\ apc[w] = "extract" /\ loc[u].slot = loc[w].slot => u = w
        BY <1>7 DEF AsrExtractOK
      <4>2. \A u \in AsrThread : u # t /\ apc'[u] = "extract" => loc'[u].slot # x
        BY <1>6, <1>9, <2>1, <3>2 DEF AsrOthers
      <4> QED
        BY <2>1, <2>2, <4>1, <4>2 DEF AsrOthers
    <3> QED
      BY <1>3, <1>7, <3>1, <3>3, <3>4, <3>5 DEF AsrExtractOK, x
  <2> QED
    BY <2>3, <2>4, <2>5 DEF AsrInvAt
<1> QED
  BY <1>5, <1>10, <1>11

\* An extractor reads the slot it has reserved.
LEMMA AsrExtractStep ==
    ASSUME NEW n \in 0 .. CAPACITY, AsrInvAt(n), NEW t \in AsrThread, AsrExtract(t)
    PROVE  AsrInvAt(n)'
<1>1. /\ AsrTypeOK /\ AsrLockOK /\ AsrLocalOK /\ AsrEntriesOK /\ AsrExtractOK(n)
  BY DEF AsrInvAt
<1> DEFINE s == loc[t].slot
<1>2. /\ apc[t] = "extract" /\ AsrReturn(t) /\ slots[s].key # ASR_EMPTY
      /\ extracted' = Append(extracted, slots[s])
      /\ UNCHANGED <<slots, faa_counter, cas_counter, elements_at_phase_change, extraction_counter, fresh,
                     offered, acquisitions, placed, stolen>>
  BY DEF AsrExtract, asrCounters
<1>3. AsrExtraction /\ s \in Nat /\ s < n /\ s < extraction_counter
  BY <1>1, <1>2 DEF AsrLockOK, AsrExtractOK, AsrTypeOK, AsrLocal
<1>4. s \in 0 .. CAPACITY - 1
  BY <1>3, AsrCapacityAssumption
<1>5. /\ AsrOthers(t) /\ apc'[t] = "idle" /\ loc'[t] = AsrIdle
      /\ apc' \in [AsrThread -> AsrPc] /\ loc' \in [AsrThread -> AsrLocal]
  BY <1>1, <1>2, AsrReturned
<1>6. /\ AsrLockOK' /\ AsrLocalOK' /\ AsrIdsOK' /\ AsrEntriesOK' /\ AsrFreshOK'
      /\ AsrCountOK(n)' /\ AsrSlotsOK(n)' /\ AsrSplitOK(n)'
  BY <1>2, <1>3, <1>5, AsrExtractorStep, AsrIdleType
<1>7. slots[s] \in AsrEntry /\ extracted \in Seq(AsrEntry)
  BY <1>1, <1>4 DEF AsrTypeOK, AsrSlotArray
<1>8. AsrTypeOK'
  <2>1. extracted' \in Seq(AsrEntry)
    BY <1>2, <1>7
  <2> QED
    BY <1>1, <1>2, <1>5, <2>1 DEF AsrTypeOK
<1> DEFINE e == slots[s]
<1>9. /\ Len(extracted) \in Nat /\ Len(extracted') = Len(extracted) + 1 /\ extracted'[Len(extracted) + 1] = e
      /\ \A m \in 1 .. Len(extracted) : extracted'[m] = extracted[m]
  BY <1>2, <1>7
<1> HIDE DEF e, s
<1>10. slots' = slots /\ extraction_counter' = extraction_counter
  BY <1>2
<1>11. \A u \in AsrThread : apc'[u] = "extract" => u # t /\ apc[u] = "extract" /\ loc'[u] = loc[u]
  BY <1>5 DEF AsrOthers
<1>12. \A u \in AsrThread : apc'[u] = "extract" => loc'[u].slot # s
  BY <1>1, <1>2, <1>11 DEF AsrExtractOK, s
<1>13. \A m \in 1 .. Len(extracted) : \E i \in 0 .. CAPACITY - 1 :
         /\ i < extraction_counter /\ slots[i].key # ASR_EMPTY /\ slots[i] = extracted[m] /\ i # s
         /\ \A u \in AsrThread : apc'[u] = "extract" => loc'[u].slot # i
  <2> SUFFICES ASSUME NEW m \in 1 .. Len(extracted)
               PROVE  \E i \in 0 .. CAPACITY - 1 :
                        /\ i < extraction_counter /\ slots[i].key # ASR_EMPTY /\ slots[i] = extracted[m] /\ i # s
                        /\ \A u \in AsrThread : apc'[u] = "extract" => loc'[u].slot # i
    OBVIOUS
  <2>1. PICK i \in 0 .. CAPACITY - 1 :
          /\ i < extraction_counter /\ slots[i].key # ASR_EMPTY /\ slots[i] = extracted[m]
          /\ \A u \in AsrThread : apc[u] = "extract" => loc[u].slot # i
    BY <1>1 DEF AsrExtractOK
  <2>2. i # s /\ \A u \in AsrThread : apc'[u] = "extract" => loc'[u].slot # i
    BY <1>2, <1>11, <2>1 DEF s
  <2> QED
    BY <2>1, <2>2
<1>14. \A m \in 1 .. Len(extracted) : extracted[m] # e
  <2> SUFFICES ASSUME NEW m \in 1 .. Len(extracted)
               PROVE  extracted[m] # e
    OBVIOUS
  <2>1. PICK i \in 0 .. CAPACITY - 1 : slots[i].key # ASR_EMPTY /\ slots[i] = extracted[m] /\ i # s
    BY <1>13
  <2>2. slots[i].val # slots[s].val
    BY <1>1, <1>2, <1>4, <2>1 DEF AsrEntriesOK, s
  <2> QED
    BY <2>1, <2>2 DEF e
<1>15. AsrExtractOK(n)'
  <2>1. \A m \in 1 .. Len(extracted') : \E i \in 0 .. CAPACITY - 1 :
          /\ i < extraction_counter' /\ slots'[i].key # ASR_EMPTY /\ slots'[i] = extracted'[m]
          /\ \A u \in AsrThread : apc'[u] = "extract" => loc'[u].slot # i
    <3> SUFFICES ASSUME NEW m \in 1 .. Len(extracted) + 1
                 PROVE  \E i \in 0 .. CAPACITY - 1 :
                          /\ i < extraction_counter /\ slots[i].key # ASR_EMPTY /\ slots[i] = extracted'[m]
                          /\ \A u \in AsrThread : apc'[u] = "extract" => loc'[u].slot # i
      BY <1>9, <1>10
    <3>1. CASE m = Len(extracted) + 1
      BY <1>2, <1>3, <1>4, <1>9, <1>12, <3>1 DEF e, s
    <3>2. CASE m \in 1 .. Len(extracted)
      BY <1>9, <1>13, <3>2
    <3> QED
      BY <1>9, <3>1, <3>2
  <2>2. \A m, k \in 1 .. Len(extracted') : extracted'[m] = extracted'[k] => m = k
    <3> DEFINE N == Len(extracted)
    <3>1. \A m, k \in 1 .. N : extracted[m] = extracted[k] => m = k
      BY <1>1 DEF AsrExtractOK
    <3>2. /\ N \in Nat /\ Len(extracted') = N + 1 /\ extracted'[N + 1] = e
          /\ \A m \in 1 .. N : extracted'[m] = extracted[m] /\ extracted[m] # e
      BY <1>9, <1>14
    <3> HIDE DEF N
    <3> QED
      BY <3>1, <3>2
  <2>3. \A u \in AsrThread : apc'[u] = "extract" => loc'[u].slot < n /\ loc'[u].slot < extraction_counter'
    BY <1>1, <1>10, <1>11 DEF AsrExtractOK
  <2>4. \A u, w \in AsrThread :
          apc'[u] = "extract" /\ apc'[w] = "extract" /\ loc'[u].slot = loc'[w].slot => u = w
    BY <1>1, <1>11 DEF AsrExtractOK
  <2>5. AsrExtraction'
    BY <1>2, <1>3 DEF AsrExtraction
  <2> QED
    BY <2>1, <2>2, <2>3, <2>4, <2>5 DEF AsrExtractOK
<1> QED
  BY <1>6, <1>8, <1>15 DEF AsrInvAt

\* --- reservations and writes --------------------------------------------------

\* Slots n .. m - 1 become t's to fill.
LEMMA AsrReserveSlots ==
    ASSUME NEW n \in 0 .. CAPACITY, NEW m \in 0 .. CAPACITY, AsrSlotsOK(n), NEW t \in AsrThread, AsrOthers(t),
           slots' = slots, ~AsrInserting(t), apc'[t] = "value", loc'[t].slot = n,
           \A i \in 0 .. CAPACITY - 1 : i < m <=> i < loc'[t].limit /\ i < n + loc'[t].todo, n <= m
    PROVE  AsrSlotsOK(m)'
<1>1. \A u \in AsrThread, i \in 0 .. CAPACITY - 1 : u # t => (AsrPends(u, i)' <=> AsrPends(u, i))
  BY DEF AsrOthers, AsrPends, AsrInserting
<1>2. \A i \in 0 .. CAPACITY - 1 : AsrPends(t, i)' <=> n <= i /\ i < m
  BY DEF AsrPends, AsrInserting
<1>3. \A i \in 0 .. CAPACITY - 1 : ~AsrPends(t, i)
  BY DEF AsrPends
<1>4. \A i \in 0 .. CAPACITY - 1 : slots[i].key = ASR_EMPTY /\ i < m => \E u \in AsrThread : AsrPends(u, i)'
  <2> SUFFICES ASSUME NEW i \in 0 .. CAPACITY - 1, slots[i].key = ASR_EMPTY, i < m
               PROVE  \E u \in AsrThread : AsrPends(u, i)'
    OBVIOUS
  <2>1. CASE n <= i
    BY <1>2, <2>1
  <2>2. CASE i < n
    BY <1>1, <1>3, <2>2 DEF AsrSlotsOK
  <2> QED
    BY <2>1, <2>2, AsrCapacityAssumption
<1>5. \A i \in 0 .. CAPACITY - 1 : i >= m => slots[i].key = ASR_EMPTY
  <2> SUFFICES ASSUME NEW i \in 0 .. CAPACITY - 1, i >= m
               PROVE  slots[i].key = ASR_EMPTY
    OBVIOUS
  <2>1. i >= n
    BY AsrCapacityAssumption
  <2> QED
    BY <2>1 DEF AsrSlotsOK
<1>6. \A i \in 0 .. CAPACITY - 1 : n <= i /\ i < m => slots[i].key = ASR_EMPTY
  BY AsrCapacityAssumption DEF AsrSlotsOK
<1>7. \A u \in AsrThread, i \in 0 .. CAPACITY - 1 : AsrPends(u, i)' => i < m /\ slots[i].key = ASR_EMPTY
  <2> SUFFICES ASSUME NEW u \in AsrThread, NEW i \in 0 .. CAPACITY - 1, AsrPends(u, i)'
               PROVE  i < m /\ slots[i].key = ASR_EMPTY
    OBVIOUS
  <2>1. CASE u = t
    BY <1>2, <1>6, <2>1
  <2>2. CASE u # t
    <3>1. i < n /\ slots[i].key = ASR_EMPTY
      BY <1>1, <2>2 DEF AsrSlotsOK
    <3> QED
      BY <3>1, AsrCapacityAssumption
  <2> QED
    BY <2>1, <2>2
<1>8. \A u, w \in AsrThread, i \in 0 .. CAPACITY - 1 : AsrPends(u, i)' /\ AsrPends(w, i)' => u = w
  <2>1. \A u \in AsrThread, i \in 0 .. CAPACITY - 1 : u # t /\ AsrPends(u, i)' => ~AsrPends(t, i)'
    <3> SUFFICES ASSUME NEW u \in AsrThread, NEW i \in 0 .. CAPACITY - 1, u # t, AsrPends(u, i)'
                 PROVE  ~AsrPends(t, i)'
      OBVIOUS
    <3>1. i < n
      BY <1>1 DEF AsrSlotsOK
    <3>2. ~(n <= i)
      BY <3>1, AsrCapacityAssumption
    <3> QED
      BY <1>2, <3>2
  <2> QED
    BY <1>1, <2>1 DEF AsrSlotsOK
<1> QED
  BY <1>4, <1>5, <1>7, <1>8 DEF AsrSlotsOK

\* The entries of a new insertion get numbers nobody has.
LEMMA AsrNewIds ==
    ASSUME AsrTypeOK, AsrIdsOK, NEW t \in AsrThread, AsrOthers(t), ~AsrBusy(t), placed' = placed,
           loc'[t].id = offered + 1, NEW k \in Nat, loc'[t].todo = k, offered' = offered + k
    PROVE  AsrIdsOK'
<1>1. offered \in Nat /\ \A e \in placed : e.val \in Int
  BY DEF AsrTypeOK, AsrEntry
<1>2. \A u \in AsrThread, v \in Int : u # t => (AsrHasId(u, v)' <=> AsrHasId(u, v))
  BY DEF AsrOthers, AsrHasId, AsrBusy
<1>3. \A v \in Int : AsrHasId(t, v)' => offered < v /\ v <= offered + k
  BY <1>1 DEF AsrHasId
<1>4. \A u \in AsrThread, v \in Int : u # t /\ AsrHasId(u, v)' => v <= offered
  BY <1>2 DEF AsrIdsOK
<1>5. \A u \in AsrThread, v \in Int : AsrHasId(u, v)' => v <= offered'
  <2> SUFFICES ASSUME NEW u \in AsrThread, NEW v \in Int, AsrHasId(u, v)'
               PROVE  v <= offered + k
    OBVIOUS
  <2>1. CASE u = t
    BY <1>3, <2>1
  <2>2. CASE u # t
    <3>1. v <= offered
      BY <1>4, <2>2
    <3> QED
      BY <1>1, <3>1
  <2> QED
    BY <2>1, <2>2
<1>6. \A u, w \in AsrThread, v \in Int : AsrHasId(u, v)' /\ AsrHasId(w, v)' => u = w
  <2>1. \A u \in AsrThread, v \in Int : u # t /\ AsrHasId(u, v)' => ~AsrHasId(t, v)'
    <3> SUFFICES ASSUME NEW u \in AsrThread, NEW v \in Int, u # t, AsrHasId(u, v)', AsrHasId(t, v)'
                 PROVE  FALSE
      OBVIOUS
    <3>1. v <= offered /\ offered < v
      BY <1>3, <1>4
    <3> QED
      BY <1>1, <3>1
  <2> QED
    BY <1>2, <2>1 DEF AsrIdsOK
<1>7. \A e \in placed : e.val <= offered + k /\ \A u \in AsrThread : ~AsrHasId(u, e.val)'
  <2> SUFFICES ASSUME NEW e \in placed
               PROVE  e.val <= offered + k /\ \A u \in AsrThread : ~AsrHasId(u, e.val)'
    OBVIOUS
  <2>1. e.val <= offered /\ e.val \in Int /\ \A u \in AsrThread : ~AsrHasId(u, e.val)
    BY <1>1 DEF AsrIdsOK
  <2>2. ~(offered < e.val) /\ e.val <= offered + k
    BY <1>1, <2>1
  <2>3. ~AsrHasId(t, e.val)'
    BY <1>3, <2>1, <2>2
  <2> QED
    BY <1>2, <2>1, <2>2, <2>3
<1> QED
  BY <1>5, <1>6, <1>7 DEF AsrIdsOK

\* The locals of an insertion with slots the FAA gave it.
AsrAtLimit(l, lim) == [l EXCEPT !.limit = lim, !.ver = 0]
LEMMA AsrWithLimit ==
    ASSUME NEW l \in AsrLocal, NEW lim \in Nat
    PROVE  /\ AsrAtLimit(l, lim) \in AsrLocal /\ AsrAtLimit(l, lim).limit = lim
           /\ AsrAtLimit(l, lim).id = l.id /\ AsrAtLimit(l, lim).slot = l.slot
           /\ AsrAtLimit(l, lim).todo = l.todo /\ AsrAtLimit(l, lim).key = l.key
           /\ AsrAtLimit(l, lim).must = l.must
<1>0. PICK m : m = [l EXCEPT !.limit = lim, !.ver = 0]
  OBVIOUS
<1>1. m.limit = lim /\ m.ver = 0 /\ m.id = l.id /\ m.slot = l.slot
  BY <1>0 DEF AsrLocal
<1>2. m.todo = l.todo /\ m.key = l.key /\ m.must = l.must
  BY <1>0 DEF AsrLocal
<1>3. m = [id |-> m.id, slot |-> m.slot, limit |-> m.limit, ver |-> m.ver, todo |-> m.todo,
           key |-> m.key, must |-> m.must]
  BY <1>0 DEF AsrLocal
<1>4. /\ m.limit \in Nat /\ m.ver \in Int /\ m.id \in Nat /\ m.slot \in Nat
      /\ m.todo \in Nat /\ m.key \in Nat /\ m.must \in BOOLEAN
  BY <1>1, <1>2 DEF AsrLocal
<1>5. m \in AsrLocal
  BY <1>3, <1>4 DEF AsrLocal
<1>6. AsrAtLimit(l, lim) = m
  BY <1>0 DEF AsrAtLimit
<1> QED
  BY <1>1, <1>2, <1>5, <1>6

\* The fetch-and-add hits a free slot: the vector is in its first phase and t
\* owns the slots from n on.
LEMMA ReserveFaaFast ==
    ASSUME NEW n \in 0 .. CAPACITY, AsrInvAt(n), NEW t \in AsrThread, NEW k \in 1 .. 2, NEW v \in Int,
           NEW key \in AsrKeys, ReserveFaa(t, k, v, key), faa_counter < FAA_CAPACITY
    PROVE  AsrInv'
<1>1. /\ AsrTypeOK /\ AsrLockOK /\ AsrLocalOK /\ AsrIdsOK /\ AsrEntriesOK /\ AsrFreshOK
      /\ AsrCountOK(n) /\ AsrSlotsOK(n) /\ AsrExtractOK(n) /\ AsrSplitOK(n)
  BY DEF AsrInvAt
<1>2. /\ CAPACITY \in Nat /\ FAA_CAPACITY \in Nat /\ FAA_CAPACITY <= CAPACITY /\ faa_counter \in Nat
      /\ key \in Nat /\ key # ASR_EMPTY /\ offered \in Nat /\ k \in Nat /\ k > 0
  BY <1>1, FaaCapacityFits, AsrCapacityAssumption, AsrKeysAssumption DEF AsrTypeOK, ASR_EMPTY
<1> DEFINE l0 == [AsrIdle EXCEPT !.id = offered + 1, !.slot = faa_counter, !.todo = k, !.key = key, !.ver = v]
<1> DEFINE l == [l0 EXCEPT !.limit = FAA_CAPACITY, !.ver = 0]
<1>3. /\ apc[t] = "idle" /\ apc' = [apc EXCEPT ![t] = "value"] /\ loc' = [loc EXCEPT ![t] = l]
      /\ faa_counter' = faa_counter + k /\ offered' = offered + k
      /\ UNCHANGED <<slots, cas_counter, elements_at_phase_change, extraction_counter, fresh,
                     acquisitions, placed, stolen, extracted>>
  BY DEF ReserveFaa, AsrGoto, asrHistory
<1>4. /\ l0 \in AsrLocal /\ l0.id = offered + 1 /\ l0.slot = faa_counter /\ l0.todo = k
      /\ l0.key = key /\ l0.must = FALSE
  <2>1. offered + 1 \in Nat /\ faa_counter \in Nat /\ k \in Nat /\ key \in Nat /\ v \in Int
    BY <1>2
  <2> QED
    BY <2>1, AsrIdleType DEF AsrLocal
<1> HIDE DEF l0
<1>5. /\ l \in AsrLocal /\ l.id = offered + 1 /\ l.slot = faa_counter /\ l.todo = k /\ l.key = key
      /\ l.must = FALSE /\ l.limit = FAA_CAPACITY
  <2>1. l = AsrAtLimit(l0, FAA_CAPACITY)
    BY DEF AsrAtLimit
  <2> HIDE DEF l
  <2>2. l0 \in AsrLocal /\ FAA_CAPACITY \in Nat
    BY <1>2, <1>4
  <2>3. /\ l \in AsrLocal /\ l.limit = FAA_CAPACITY
        /\ l.id = l0.id /\ l.slot = l0.slot /\ l.todo = l0.todo /\ l.key = l0.key /\ l.must = l0.must
    BY <2>1, <2>2, AsrWithLimit
  <2> QED
    BY <1>4, <2>3
<1> HIDE DEF l
<1>6. /\ AsrOthers(t) /\ apc'[t] = "value" /\ loc'[t] = l
      /\ apc' \in [AsrThread -> AsrPc] /\ loc' \in [AsrThread -> AsrLocal]
  BY <1>1, <1>3, <1>5 DEF AsrTypeOK, AsrPc, AsrOthers
<1>7. AsrTypeOK'
  BY <1>1, <1>2, <1>3, <1>6 DEF AsrTypeOK
<1>8. cas_counter.ver = 0 /\ \A u \in AsrThread : apc[u] \notin {"publish", "held", "release"}
  <2>1. ~(faa_counter > FAA_CAPACITY)
    BY <1>2
  <2> QED
    BY <1>1, <2>1 DEF AsrLockOK
<1>9. n = faa_counter
  <2>1. n = IF faa_counter <= FAA_CAPACITY THEN faa_counter ELSE FAA_CAPACITY
    BY <1>1, <1>8 DEF AsrCountOK
  <2> QED
    BY <1>2, <2>1
<1> DEFINE sum == faa_counter + k
<1>10. PICK m \in 0 .. CAPACITY : m = IF sum <= FAA_CAPACITY THEN sum ELSE FAA_CAPACITY
  BY <1>2
<1>11. /\ n <= m /\ m <= FAA_CAPACITY
       /\ \A i \in 0 .. CAPACITY - 1 : i < m <=> i < FAA_CAPACITY /\ i < n + k
  BY <1>2, <1>9, <1>10
<1>12. (n + k > FAA_CAPACITY => m = FAA_CAPACITY) /\ faa_counter' = sum
  BY <1>2, <1>3, <1>9, <1>10
<1> HIDE DEF sum
<1>13. AsrSlotsOK(m)'
  <2>1. \A i \in 0 .. CAPACITY - 1 : i < m <=> i < loc'[t].limit /\ i < n + loc'[t].todo
    BY <1>5, <1>6, <1>11
  <2>2. slots' = slots /\ ~AsrInserting(t) /\ loc'[t].slot = n
    BY <1>3, <1>5, <1>6, <1>9 DEF AsrInserting
  <2> QED
    BY <1>1, <1>6, <1>11, <2>1, <2>2, AsrReserveSlots
<1>14. cas_counter' = cas_counter /\ slots' = slots /\ cas_counter'.ver = 0 /\ ~AsrExtraction /\ ~AsrExtraction'
  BY <1>3, <1>8 DEF AsrExtraction
<1>15. \A u \in AsrThread, p \in AsrInside : apc'[u] = p <=> apc[u] = p
  BY <1>3, <1>6 DEF AsrOthers, AsrInside
<1>16. \A u \in AsrThread, p \in {"close faa", "publish", "held", "release", "rollback", "dying", "extract"} :
         apc'[u] = p <=> apc[u] = p
  BY <1>15 DEF AsrInside
<1>17. \A u \in AsrThread : apc[u] \notin {"publish", "held", "release", "dying", "extract"}
                           /\ apc'[u] \notin {"publish", "held", "release", "dying", "extract"}
  BY <1>1, <1>8, <1>14, <1>16 DEF AsrLockOK
<1>18. AsrLockOK'
  <2>1. \A u \in AsrThread : AsrHolder(u)' <=> AsrHolder(u)
    BY <1>16 DEF AsrHolder
  <2> QED
    BY <1>1, <1>14, <1>16, <1>17, <2>1 DEF AsrLockOK
<1>19. AsrCountOK(m)'
  <2>1. ~(cas_counter'.ver > 0)
    BY <1>14
  <2>2. m = IF faa_counter' <= FAA_CAPACITY THEN faa_counter' ELSE FAA_CAPACITY
    BY <1>10, <1>12
  <2> QED
    BY <1>11, <1>14, <1>17, <2>1, <2>2 DEF AsrCountOK
<1>20. AsrExtractOK(m)'
  <2>1. extracted' = <<>> /\ extraction_counter' = 0
    BY <1>1, <1>3, <1>14 DEF AsrExtractOK
  <2> QED
    BY <1>14, <1>17, <2>1 DEF AsrExtractOK
<1>21. AsrIdsOK'
  <2>1. ~AsrBusy(t) /\ placed' = placed /\ loc'[t].id = offered + 1 /\ loc'[t].todo = k /\ offered' = offered + k
    BY <1>3, <1>5, <1>6 DEF AsrBusy
  <2> QED
    BY <1>1, <1>2, <1>6, <2>1, AsrNewIds
<1>22. AsrEntriesOK' /\ AsrFreshOK'
  BY <1>1, <1>3 DEF AsrEntriesOK, AsrFreshOK, SlotEntries, AsrSlots, verify_locked
<1>23. AsrLocalOK'
  <2>1. l.slot <= l.limit
    BY <1>2, <1>5
  <2> QED
    BY <1>1, <1>2, <1>5, <1>6, <1>14, <2>1 DEF AsrLocalOK, AsrOthers, AsrBusy, AsrInserting
<1>24. AsrSplitOK(m)'
  <2>1. \A u \in AsrThread : u # t => (AsrCrosses(u)' <=> AsrCrosses(u)) /\ (AsrWillSplit(u)' <=> AsrWillSplit(u))
    BY <1>6 DEF AsrOthers, AsrCrosses, AsrWillSplit, AsrInserting
  <2>2. ~AsrCrosses(t) /\ ~AsrWillSplit(t)
    BY <1>3 DEF AsrCrosses, AsrWillSplit, AsrInserting
  <2>3. AsrWillSplit(t)' <=> n + k > FAA_CAPACITY
    BY <1>5, <1>6, <1>9 DEF AsrCrosses, AsrWillSplit, AsrInserting
  <2>4. \A u \in AsrThread : ~AsrWillSplit(u)
    <3>1. \A u \in AsrThread : AsrWillSplit(u) => n = FAA_CAPACITY
      BY <1>1, <1>8 DEF AsrSplitOK
    <3>2. n # FAA_CAPACITY
      BY <1>2, <1>9
    <3> QED
      BY <3>1, <3>2
  <2>5. \A u \in AsrThread : AsrWillSplit(u)' => m = FAA_CAPACITY
    BY <1>12, <2>1, <2>3, <2>4
  <2>6. cas_counter'.n > CAPACITY => \E u \in AsrThread : AsrCrosses(u)'
    BY <1>1, <1>14, <2>1, <2>2 DEF AsrSplitOK
  <2>7. faa_counter' > FAA_CAPACITY => AsrWillSplit(t)'
    BY <1>3, <1>9, <2>3
  <2>8. \A u \in AsrThread : apc'[u] # "held"
    BY <1>17
  <2> QED
    BY <2>5, <2>6, <2>7, <2>8 DEF AsrSplitOK
<1>25. AsrInvAt(m)'
  BY <1>7, <1>13, <1>18, <1>19, <1>20, <1>21, <1>22, <1>23, <1>24 DEF AsrInvAt
<1> QED
  BY <1>25 DEF AsrInv

\* The fetch-and-add comes too late: t goes on to the loop on cas_counter.  The
\* first one to find the phase full is the one that will split.
LEMMA ReserveFaaSlow ==
    ASSUME NEW n \in 0 .. CAPACITY, AsrInvAt(n), NEW t \in AsrThread, NEW k \in 1 .. 2, NEW v \in Int,
           NEW key \in AsrKeys, ReserveFaa(t, k, v, key), ~(faa_counter < FAA_CAPACITY)
    PROVE  AsrInvAt(n)'
<1>1. /\ AsrTypeOK /\ AsrLockOK /\ AsrLocalOK /\ AsrIdsOK /\ AsrEntriesOK /\ AsrFreshOK
      /\ AsrCountOK(n) /\ AsrSlotsOK(n) /\ AsrExtractOK(n) /\ AsrSplitOK(n)
  BY DEF AsrInvAt
<1>2. /\ CAPACITY \in Nat /\ FAA_CAPACITY \in Nat /\ FAA_CAPACITY <= CAPACITY /\ faa_counter \in Nat
      /\ key \in Nat /\ key # ASR_EMPTY /\ offered \in Nat /\ k \in Nat /\ k > 0
  BY <1>1, FaaCapacityFits, AsrCapacityAssumption, AsrKeysAssumption DEF AsrTypeOK, ASR_EMPTY
<1> DEFINE l == [AsrIdle EXCEPT !.id = offered + 1, !.slot = faa_counter, !.todo = k, !.key = key, !.ver = v]
<1>3. /\ apc[t] = "idle" /\ apc' = [apc EXCEPT ![t] = "reserve"] /\ loc' = [loc EXCEPT ![t] = l]
      /\ faa_counter' = faa_counter + k /\ offered' = offered + k
      /\ UNCHANGED <<slots, cas_counter, elements_at_phase_change, extraction_counter, fresh,
                     acquisitions, placed, stolen, extracted>>
  BY DEF ReserveFaa, AsrGoto, asrHistory
<1>4. /\ l \in AsrLocal /\ l.id = offered + 1 /\ l.slot = faa_counter /\ l.todo = k
      /\ l.key = key /\ l.must = FALSE
  <2>1. offered + 1 \in Nat /\ faa_counter \in Nat /\ k \in Nat /\ key \in Nat /\ v \in Int
    BY <1>2
  <2> QED
    BY <2>1, AsrIdleType DEF AsrLocal
<1> HIDE DEF l
<1>6. /\ AsrOthers(t) /\ apc'[t] = "reserve" /\ loc'[t] = l
      /\ apc' \in [AsrThread -> AsrPc] /\ loc' \in [AsrThread -> AsrLocal]
  BY <1>1, <1>3, <1>4 DEF AsrTypeOK, AsrPc, AsrOthers
<1>7. AsrTypeOK'
  BY <1>1, <1>2, <1>3, <1>6 DEF AsrTypeOK
<1>8. faa_counter' > FAA_CAPACITY /\ faa_counter >= FAA_CAPACITY
  BY <1>2, <1>3
<1>14. /\ cas_counter' = cas_counter /\ slots' = slots /\ elements_at_phase_change' = elements_at_phase_change
       /\ AsrExtraction' <=> AsrExtraction
  BY <1>3 DEF AsrExtraction
<1>15. \A u \in AsrThread, p \in AsrInside : apc'[u] = p <=> apc[u] = p
  BY <1>3, <1>6 DEF AsrOthers, AsrInside
<1>16. \A u \in AsrThread, p \in {"close faa", "publish", "held", "release", "rollback", "dying", "extract"} :
         (apc'[u] = p <=> apc[u] = p) /\ (apc[u] = p => loc'[u] = loc[u])
  BY <1>3, <1>6, <1>15 DEF AsrInside, AsrOthers
<1>18. AsrLockOK'
  <2>1. \A u \in AsrThread : AsrHolder(u)' <=> AsrHolder(u)
    BY <1>16 DEF AsrHolder
  <2>2. \A u \in AsrThread, p \in {"close faa", "publish", "held", "release", "rollback", "dying", "extract"} :
          apc'[u] = p <=> apc[u] = p
    BY <1>16
  <2> QED
    BY <1>1, <1>8, <1>14, <2>1, <2>2 DEF AsrLockOK
<1>19. AsrCountOK(n)'
  <2>1. \/ n = FAA_CAPACITY
        \/ ~(cas_counter.ver = 0 /\ (\A u \in AsrThread : apc[u] \notin {"publish", "held", "release"}))
    BY <1>1, <1>2, <1>8 DEF AsrCountOK
  <2>2. ~(faa_counter' <= FAA_CAPACITY)
    BY <1>2, <1>8, <1>3
  <2>3. \A u \in AsrThread, p \in {"publish", "held", "release", "dying"} : apc'[u] = p <=> apc[u] = p
    BY <1>16
  <2>4. \A u \in AsrThread : apc[u] \in {"publish", "dying"} => loc'[u] = loc[u]
    BY <1>16
  <2> QED
    BY <1>1, <1>14, <2>1, <2>2, <2>3, <2>4 DEF AsrCountOK, get_valid_reservations
<1>20. AsrExtractOK(n)'
  BY <1>1, <1>3, <1>6, <1>14, AsrSameExtract
<1>21. AsrIdsOK'
  <2>1. ~AsrBusy(t) /\ placed' = placed /\ loc'[t].id = offered + 1 /\ loc'[t].todo = k /\ offered' = offered + k
    BY <1>3, <1>4, <1>6 DEF AsrBusy
  <2> QED
    BY <1>1, <1>2, <1>6, <2>1, AsrNewIds
<1>22. AsrEntriesOK' /\ AsrFreshOK'
  BY <1>1, <1>3 DEF AsrEntriesOK, AsrFreshOK, SlotEntries, AsrSlots, verify_locked
<1>23. AsrLocalOK'
  BY <1>1, <1>2, <1>4, <1>6, <1>8, <1>14 DEF AsrLocalOK, AsrOthers, AsrBusy, AsrInserting
<1>24. AsrSlotsOK(n)'
  <2>1. \A u \in AsrThread, i \in 0 .. CAPACITY - 1 : AsrPends(u, i)' <=> AsrPends(u, i)
    BY <1>3, <1>6 DEF AsrOthers, AsrPends, AsrInserting
  <2> QED
    BY <1>1, <1>14, <2>1 DEF AsrSlotsOK
<1>25. AsrSplitOK(n)'
  <2>1. \A u \in AsrThread : u # t => (AsrCrosses(u)' <=> AsrCrosses(u)) /\ (AsrWillSplit(u)' <=> AsrWillSplit(u))
    BY <1>6 DEF AsrOthers, AsrCrosses, AsrWillSplit, AsrInserting
  <2>2. ~AsrCrosses(t) /\ ~AsrWillSplit(t)
    BY <1>3 DEF AsrCrosses, AsrWillSplit, AsrInserting
  <2>3. AsrWillSplit(t)' <=> faa_counter = FAA_CAPACITY
    BY <1>4, <1>6 DEF AsrCrosses, AsrWillSplit, AsrInserting
  <2>4. cas_counter'.n > CAPACITY => \E u \in AsrThread : AsrCrosses(u)'
    BY <1>1, <1>14, <2>1, <2>2 DEF AsrSplitOK
  <2>5. \A u \in AsrThread, p \in {"publish", "held", "release"} : apc'[u] = p <=> apc[u] = p
    BY <1>16
  <2>6. \A u \in AsrThread : apc[u] = "held" => loc'[u] = loc[u]
    BY <1>16
  <2>7. \A u \in AsrThread :
          apc'[u] = "held" /\ loc'[u].must /\ cas_counter'.ver > 0 => cas_counter'.n > CAPACITY
    BY <1>1, <1>14, <2>5, <2>6 DEF AsrSplitOK
  <2>8. cas_counter'.ver = 0 /\ (\A u \in AsrThread : apc'[u] \notin {"publish", "held", "release"})
        => \E u \in AsrThread : AsrWillSplit(u)'
    <3>1. CASE faa_counter = FAA_CAPACITY
      BY <2>3, <3>1
    <3>2. CASE faa_counter > FAA_CAPACITY
      BY <1>1, <1>14, <2>1, <2>2, <2>5, <3>2 DEF AsrSplitOK
    <3> QED
      BY <1>2, <1>8, <3>1, <3>2
  <2>9. /\ cas_counter'.ver = 0 /\ \A u \in AsrThread : apc'[u] # "release"
        => \A u \in AsrThread : AsrWillSplit(u)' => n = FAA_CAPACITY
    <3>1. CASE faa_counter = FAA_CAPACITY
      <4>1. \A u \in AsrThread : apc[u] \notin {"publish", "held", "release"}
        <5>1. ~(faa_counter > FAA_CAPACITY)
          BY <1>2, <3>1
        <5> QED
          BY <1>1, <5>1 DEF AsrLockOK
      <4>2. cas_counter.ver = 0 => n = FAA_CAPACITY
        BY <1>1, <1>2, <3>1, <4>1 DEF AsrCountOK
      <4> QED
        BY <1>14, <4>2
    <3>2. CASE faa_counter # FAA_CAPACITY
      BY <1>1, <1>14, <2>1, <2>3, <2>5, <3>2 DEF AsrSplitOK
    <3> QED
      BY <3>1, <3>2
  <2> QED
    BY <2>4, <2>7, <2>8, <2>9 DEF AsrSplitOK
<1> QED
  BY <1>7, <1>18, <1>19, <1>20, <1>21, <1>22, <1>23, <1>24, <1>25 DEF AsrInvAt

\* reserve_for_insertion gives up: extraction, another version, or SPLIT_PENDING.
LEMMA ReserveCasReturns ==
    ASSUME NEW n \in 0 .. CAPACITY, AsrInvAt(n), NEW t \in AsrThread, apc[t] = "reserve", AsrReturn(t),
           cas_counter.ver # 0 \/ loc[t].slot > FAA_CAPACITY,
           UNCHANGED <<slots, asrCounters, fresh, offered, acquisitions, asrHistory>>
    PROVE  AsrInvAt(n)'
<1>1. ~AsrCrosses(t) /\ \A i \in 0 .. CAPACITY - 1 : ~AsrPends(t, i)
  BY DEF AsrCrosses, AsrPends, AsrInserting
<1>2. AsrWillSplit(t) => cas_counter.ver # 0
  BY <1>1, FaaCapacityFits DEF AsrWillSplit
<1> QED
  BY <1>1, <1>2, AsrGiveUp

\* In the fetch-and-add phase only the one that found exactly the last slot
\* taken goes on, with nothing to write and a split to make.
\* The slot at FAA_CAPACITY falls to the thread whose FAA returned it.
AsrLastTaken(t) == AsrGoto(t, "value") /\ loc' = [loc EXCEPT ![t].limit = FAA_CAPACITY, ![t].ver = 0]
LEMMA ReserveCasLast ==
    ASSUME NEW n \in 0 .. CAPACITY, AsrInvAt(n), NEW t \in AsrThread, apc[t] = "reserve", AsrLastTaken(t),
           cas_counter.ver = 0, ~(loc[t].slot > FAA_CAPACITY),
           UNCHANGED <<slots, asrCounters, fresh, offered, acquisitions, asrHistory>>
    PROVE  AsrInvAt(n)'
<1>1. /\ AsrTypeOK /\ AsrLocalOK /\ AsrIdsOK /\ AsrEntriesOK /\ AsrFreshOK
      /\ AsrSlotsOK(n) /\ AsrExtractOK(n)
  BY DEF AsrInvAt
<1> DEFINE k == loc[t]
<1>2. /\ k \in AsrLocal /\ loc' = [loc EXCEPT ![t] = AsrAtLimit(k, FAA_CAPACITY)]
      /\ loc \in [AsrThread -> AsrLocal] /\ apc \in [AsrThread -> AsrPc] /\ FAA_CAPACITY \in Nat
  BY <1>1, FaaCapacityFits DEF AsrTypeOK, AsrAtLimit, AsrLastTaken
<1>3. k.slot >= FAA_CAPACITY /\ k.todo > 0 /\ k.key # ASR_EMPTY
  BY <1>1 DEF AsrLocalOK, AsrBusy
<1>4. k.slot = FAA_CAPACITY /\ k.todo \in Nat
  <2>1. k.slot \in Nat /\ ~(k.slot > FAA_CAPACITY) /\ k.todo \in Nat
    BY <1>2 DEF AsrLocal
  <2> HIDE DEF k
  <2> QED
    BY <1>2, <1>3, <2>1
<1>5. AsrWillSplit(t) /\ ~AsrCrosses(t)
  BY <1>4 DEF AsrWillSplit, AsrCrosses, AsrInserting
<1>6. ~AsrInserting(t) /\ AsrBusy(t) /\ apc[t] \in AsrOutside
  BY DEF AsrInserting, AsrBusy, AsrOutside
<1> DEFINE l == AsrAtLimit(k, FAA_CAPACITY)
<1>7. \A v \in Int : AsrHasId(t, v) <=> k.id <= v /\ v < k.id + k.todo
  BY <1>6 DEF AsrHasId
<1> HIDE DEF k
<1>8. /\ l \in AsrLocal /\ l.limit = FAA_CAPACITY /\ l.slot = FAA_CAPACITY /\ l.todo = k.todo
      /\ l.id = k.id /\ l.key = k.key
  BY <1>2, <1>4, AsrWithLimit
<1> HIDE DEF l
<1>9. loc' = [loc EXCEPT ![t] = l] /\ apc' = [apc EXCEPT ![t] = "value"]
  BY <1>2 DEF l, AsrGoto, AsrLastTaken
<1>10. /\ AsrOthers(t) /\ apc'[t] = "value" /\ loc'[t] = l
       /\ apc' \in [AsrThread -> AsrPc] /\ loc' \in [AsrThread -> AsrLocal]
  BY <1>2, <1>8, <1>9 DEF AsrPc, AsrOthers
<1>11. /\ UNCHANGED <<slots, faa_counter, cas_counter, elements_at_phase_change, extraction_counter, fresh,
                      offered, acquisitions, placed, stolen, extracted>>
  BY DEF asrCounters, asrHistory
<1>12. AsrTypeOK'
  BY <1>1, <1>10, <1>11 DEF AsrTypeOK
<1>13. AsrInserting(t)' /\ AsrBusy(t)' /\ apc'[t] \in AsrOutside
  BY <1>10 DEF AsrInserting, AsrBusy, AsrOutside
<1>14. AsrWillSplit(t)' /\ AsrCrosses(t)'
  <2>1. l.slot + l.todo > l.limit
    BY <1>2, <1>3, <1>4, <1>8
  <2> QED
    BY <1>10, <1>13, <2>1 DEF AsrWillSplit, AsrCrosses
<1>15. AsrLockOK' /\ AsrCountOK(n)' /\ AsrSplitOK(n)'
  BY <1>5, <1>6, <1>10, <1>11, <1>13, <1>14, AsrPrivateStep
<1>16. \A i \in 0 .. CAPACITY - 1 : AsrPends(t, i)' <=> AsrPends(t, i)
  <2>1. \A i \in 0 .. CAPACITY - 1 : ~(l.slot <= i /\ i < l.limit)
    BY <1>2, <1>8
  <2> QED
    BY <1>6, <1>10, <2>1 DEF AsrPends
<1>17. \A v \in Int : AsrHasId(t, v)' => AsrHasId(t, v)
  BY <1>7, <1>8, <1>10 DEF AsrHasId
<1>18. AsrExtraction => AsrExtraction'
  BY <1>11 DEF AsrExtraction
<1>19. AsrIdsOK' /\ AsrEntriesOK' /\ AsrFreshOK' /\ AsrSlotsOK(n)' /\ AsrExtractOK(n)'
  BY <1>1, <1>10, <1>11, <1>16, <1>17, <1>18, AsrQuietStep
<1>20. AsrLocalOK'
  <2>1. l.slot <= l.limit /\ l.key # ASR_EMPTY /\ l.limit = FAA_CAPACITY
    BY <1>2, <1>3, <1>8
  <2>2. slots' = slots /\ cas_counter' = cas_counter
    BY <1>11
  <2>3. AsrOthers(t) /\ apc'[t] = "value" /\ loc'[t] = l
    BY <1>10
  <2> QED
    BY <1>1, <2>1, <2>2, <2>3 DEF AsrLocalOK, AsrOthers, AsrBusy, AsrInserting
<1> QED
  BY <1>12, <1>15, <1>19, <1>20 DEF AsrInvAt

\* The locals of an insertion with slots of cas_counter.
AsrAtSlot(l, slot, lim, ver) == [l EXCEPT !.slot = slot, !.limit = lim, !.ver = ver]
LEMMA AsrWithSlot ==
    ASSUME NEW l \in AsrLocal, NEW slot \in Nat, NEW lim \in Nat, NEW ver \in Int
    PROVE  /\ AsrAtSlot(l, slot, lim, ver) \in AsrLocal /\ AsrAtSlot(l, slot, lim, ver).limit = lim
           /\ AsrAtSlot(l, slot, lim, ver).id = l.id /\ AsrAtSlot(l, slot, lim, ver).slot = slot
           /\ AsrAtSlot(l, slot, lim, ver).todo = l.todo /\ AsrAtSlot(l, slot, lim, ver).key = l.key
<1>0. PICK m : m = [l EXCEPT !.slot = slot, !.limit = lim, !.ver = ver]
  OBVIOUS
<1>1. m.limit = lim /\ m.ver = ver /\ m.id = l.id /\ m.slot = slot
  BY <1>0 DEF AsrLocal
<1>2. m.todo = l.todo /\ m.key = l.key /\ m.must = l.must
  BY <1>0 DEF AsrLocal
<1>3. m = [id |-> m.id, slot |-> m.slot, limit |-> m.limit, ver |-> m.ver, todo |-> m.todo,
           key |-> m.key, must |-> m.must]
  BY <1>0 DEF AsrLocal
<1>4. /\ m.limit \in Nat /\ m.ver \in Int /\ m.id \in Nat /\ m.slot \in Nat
      /\ m.todo \in Nat /\ m.key \in Nat /\ m.must \in BOOLEAN
  BY <1>1, <1>2 DEF AsrLocal
<1>5. m \in AsrLocal
  BY <1>3, <1>4 DEF AsrLocal
<1>6. AsrAtSlot(l, slot, lim, ver) = m
  BY <1>0 DEF AsrAtSlot
<1> QED
  BY <1>1, <1>2, <1>5, <1>6

\* A thread that has been given slots goes on to write the first: its record and its
\* place in the code change, and no other thread's.
LEMMA AsrGoesToValue ==
    ASSUME NEW t \in AsrThread, NEW l \in AsrLocal, loc \in [AsrThread -> AsrLocal], apc \in [AsrThread -> AsrPc],
           AsrGoto(t, "value"), loc' = [loc EXCEPT ![t] = l]
    PROVE  /\ AsrOthers(t) /\ apc'[t] = "value" /\ loc'[t] = l
           /\ apc' \in [AsrThread -> AsrPc] /\ loc' \in [AsrThread -> AsrLocal]
BY DEF AsrPc, AsrOthers, AsrGoto

\* The reservation by compare-and-swap.
LEMMA ReserveCasReserves ==
    ASSUME NEW n \in 0 .. CAPACITY, AsrInvAt(n), NEW t \in AsrThread, apc[t] = "reserve", AsrGoto(t, "value"),
           cas_counter.ver > 0, cas_counter.lck = FALSE, ~(cas_counter.n > CAPACITY),
           cas_counter' = [cas_counter EXCEPT !.n = @ + loc[t].todo],
           loc' = [loc EXCEPT ![t].slot = cas_counter.n, ![t].limit = CAPACITY, ![t].ver = cas_counter.ver],
           UNCHANGED <<slots, faa_counter, elements_at_phase_change, extraction_counter, fresh,
                       offered, acquisitions, asrHistory>>
    PROVE  AsrInv'
<1>1. /\ AsrTypeOK /\ AsrLockOK /\ AsrLocalOK /\ AsrIdsOK /\ AsrEntriesOK /\ AsrFreshOK
      /\ AsrCountOK(n) /\ AsrSlotsOK(n) /\ AsrExtractOK(n)
  BY DEF AsrInvAt
<1> DEFINE c == cas_counter
<1>2. c \in AsrWord /\ c.n \in Nat /\ c.ver \in Int /\ CAPACITY \in Nat /\ n \in Nat
  BY <1>1, AsrCapacityAssumption DEF AsrTypeOK, AsrWord
<1>3. c.n = n
  <2>1. get_valid_reservations(cas_counter) = n
    BY <1>1 DEF AsrCountOK
  <2>2. c.n <= CAPACITY
    BY <1>2
  <2> QED
    BY <1>1, <2>1, <2>2, ValidReservations
<1> DEFINE k == loc[t]
<1>4. k \in AsrLocal /\ k.todo > 0 /\ k.key # ASR_EMPTY
  BY <1>1 DEF AsrLocalOK, AsrBusy, AsrTypeOK
<1>5. k.todo \in Nat /\ k.id \in Nat
  BY <1>4 DEF AsrLocal
<1> DEFINE l == AsrAtSlot(k, n, CAPACITY, c.ver)
<1>6. loc' = [loc EXCEPT ![t] = l] /\ loc \in [AsrThread -> AsrLocal] /\ apc \in [AsrThread -> AsrPc]
  BY <1>1, <1>3 DEF AsrTypeOK, AsrAtSlot
<1>7. \A v \in Int : AsrHasId(t, v) <=> k.id <= v /\ v < k.id + k.todo
  BY DEF AsrHasId, AsrBusy
<1>8. \A i \in 0 .. CAPACITY - 1 : ~AsrPends(t, i)
  BY DEF AsrPends, AsrInserting
<1>9. c' = [c EXCEPT !.n = c.n + k.todo] /\ c' = cas_counter'
  OBVIOUS
<1>10. c' \in AsrWord /\ c'.ver = c.ver /\ c'.lck = FALSE /\ c'.n = n + k.todo
  <2>1. c.n + k.todo \in Nat
    BY <1>2, <1>5
  <2> HIDE DEF k
  <2> QED
    BY <1>2, <1>3, <1>9, <2>1 DEF AsrWord
<1> HIDE DEF k
<1>11. /\ l \in AsrLocal /\ l.limit = CAPACITY /\ l.slot = n /\ l.todo = k.todo
       /\ l.id = k.id /\ l.key = k.key
  <2>1. n \in Nat /\ CAPACITY \in Nat /\ c.ver \in Int /\ k \in AsrLocal
    BY <1>2, <1>4
  <2> HIDE DEF c
  <2> QED
    BY <2>1, AsrWithSlot
<1> HIDE DEF l
<1>12. /\ AsrOthers(t) /\ apc'[t] = "value" /\ loc'[t] = l
       /\ apc' \in [AsrThread -> AsrPc] /\ loc' \in [AsrThread -> AsrLocal]
  BY <1>6, <1>11, AsrGoesToValue
<1>13. /\ UNCHANGED <<slots, faa_counter, elements_at_phase_change, extraction_counter, fresh,
                      offered, acquisitions, placed, stolen, extracted>>
  BY DEF asrHistory
<1>14. AsrTypeOK'
  BY <1>1, <1>9, <1>10, <1>12, <1>13 DEF AsrTypeOK
<1> DEFINE sum == n + k.todo
<1>15. PICK m \in 0 .. CAPACITY : m = IF sum <= CAPACITY THEN sum ELSE CAPACITY
  BY <1>2, <1>5
<1>16. n <= m /\ \A i \in 0 .. CAPACITY - 1 : i < m <=> i < CAPACITY /\ i < n + k.todo
  BY <1>2, <1>5, <1>15
<1>17. cas_counter'.ver > 0 /\ cas_counter'.lck = FALSE /\ cas_counter'.n = sum /\ sum \in Nat /\ cas_counter'.ver \in Int
  BY <1>2, <1>5, <1>9, <1>10
<1> HIDE DEF sum
<1>18. AsrSlotsOK(m)'
  <2>1. \A i \in 0 .. CAPACITY - 1 : i < m <=> i < loc'[t].limit /\ i < n + loc'[t].todo
    BY <1>11, <1>12, <1>16
  <2>2. slots' = slots /\ ~AsrInserting(t) /\ loc'[t].slot = n
    BY <1>11, <1>12, <1>13 DEF AsrInserting
  <2> QED
    BY <1>1, <1>12, <1>16, <2>1, <2>2, AsrReserveSlots
<1>19. ~AsrExtraction /\ ~AsrExtraction'
  BY <1>2, <1>17 DEF AsrExtraction
<1>20. \A u \in AsrThread : apc[u] \notin AsrInside
  <2>1. \A u \in AsrThread : ~AsrHolder(u) /\ apc[u] \notin {"dying", "extract"}
    BY <1>1, <1>19 DEF AsrLockOK
  <2> QED
    BY <2>1 DEF AsrHolder, AsrInside
<1>21. \A u \in AsrThread : apc'[u] \notin AsrInside
  BY <1>12, <1>20 DEF AsrOthers, AsrInside
<1>22. \A u \in AsrThread : ~AsrHolder(u)'
  BY <1>21 DEF AsrHolder, AsrInside
<1>23. AsrLockOK'
  <2>1. \A u \in AsrThread : apc'[u] \notin {"close faa", "publish", "held", "release", "rollback", "dying", "extract"}
    BY <1>21 DEF AsrInside
  <2>2. ~(cas_counter'.ver = 0) /\ faa_counter' > FAA_CAPACITY
    <3>1. c.ver # 0
      BY <1>2
    <3>2. faa_counter > FAA_CAPACITY
      BY <1>1, <3>1 DEF AsrLockOK
    <3> QED
      BY <1>13, <1>17, <3>2
  <2> QED
    BY <1>17, <1>19, <1>22, <2>1, <2>2 DEF AsrLockOK
<1>24. AsrCountOK(m)'
  <2>1. get_valid_reservations(cas_counter)' = m
    BY <1>2, <1>15, <1>17 DEF get_valid_reservations
  <2>2. \A u \in AsrThread : apc'[u] \notin {"publish", "held", "release", "dying"}
    BY <1>21 DEF AsrInside
  <2>3. ~(cas_counter'.ver = 0)
    BY <1>17
  <2> QED
    BY <1>19, <2>1, <2>2, <2>3 DEF AsrCountOK
<1>25. AsrExtractOK(m)'
  <2>1. extracted' = <<>> /\ extraction_counter' = 0
    BY <1>1, <1>13, <1>19 DEF AsrExtractOK
  <2>2. \A u \in AsrThread : apc'[u] # "extract"
    BY <1>21 DEF AsrInside
  <2> QED
    BY <1>19, <2>1, <2>2 DEF AsrExtractOK
<1>26. AsrIdsOK'
  <2>1. \A u \in AsrThread, v \in Int : AsrHasId(u, v)' => AsrHasId(u, v)
    <3>1. \A v \in Int : AsrHasId(t, v)' => AsrHasId(t, v)
      BY <1>7, <1>11, <1>12 DEF AsrHasId
    <3> QED
      BY <1>12, <3>1 DEF AsrOthers, AsrHasId, AsrBusy
  <2>2. \A e \in placed : e.val \in Int
    BY <1>1 DEF AsrTypeOK, AsrEntry
  <2>3. placed' = placed /\ offered' = offered
    BY <1>13
  <2> QED
    BY <1>1, <2>1, <2>2, <2>3 DEF AsrIdsOK
<1>27. AsrEntriesOK' /\ AsrFreshOK'
  BY <1>1, <1>13 DEF AsrEntriesOK, AsrFreshOK, SlotEntries, AsrSlots, verify_locked
<1>28. AsrLocalOK'
  <2>1. l.slot <= l.limit /\ l.key # ASR_EMPTY /\ l.limit = CAPACITY
    BY <1>2, <1>4, <1>11
  <2>2. slots' = slots /\ ~(cas_counter'.ver = 0)
    BY <1>13, <1>17
  <2>3. AsrOthers(t) /\ apc'[t] = "value" /\ loc'[t] = l
    BY <1>12
  <2> QED
    BY <1>1, <2>1, <2>2, <2>3 DEF AsrLocalOK, AsrOthers, AsrBusy, AsrInserting
<1>29. AsrSplitOK(m)'
  <2>1. cas_counter'.n > CAPACITY => AsrCrosses(t)'
    BY <1>11, <1>12, <1>17 DEF AsrCrosses, AsrInserting, sum
  <2>2. \A u \in AsrThread : apc'[u] # "held"
    BY <1>21 DEF AsrInside
  <2>3. ~(cas_counter'.ver = 0)
    BY <1>17
  <2> QED
    BY <2>1, <2>2, <2>3 DEF AsrSplitOK
<1>30. AsrInvAt(m)'
  BY <1>14, <1>18, <1>23, <1>24, <1>25, <1>26, <1>27, <1>28, <1>29 DEF AsrInvAt
<1> QED
  BY <1>30 DEF AsrInv

\* The loop of reserve_for_insertion on cas_counter.
LEMMA ReserveCasStep ==
    ASSUME NEW n \in 0 .. CAPACITY, AsrInvAt(n), NEW t \in AsrThread, ReserveCas(t)
    PROVE  AsrInv'
<1>1. AsrTypeOK /\ AsrLockOK
  BY DEF AsrInvAt
<1>2. /\ apc[t] = "reserve"
      /\ UNCHANGED <<slots, faa_counter, elements_at_phase_change, extraction_counter, fresh,
                     offered, acquisitions, asrHistory>>
  BY DEF ReserveCas
<1>3. CASE get_state(cas_counter) = "EXTRACTION"
  <2>1. cas_counter.ver # 0
    BY <1>1, <1>3, AsrStates DEF AsrExtraction
  <2>2. AsrReturn(t) /\ UNCHANGED cas_counter
    BY <1>3 DEF ReserveCas
  <2> QED
    BY <1>2, <2>1, <2>2, ReserveCasReturns DEF asrCounters, AsrInv
<1>4. CASE get_state(cas_counter) = "FAA_INSERTION"
  <2>1. cas_counter.ver = 0
    BY <1>1, <1>4, AsrStates
  <2>2. UNCHANGED cas_counter
    BY <1>4 DEF ReserveCas
  <2>3. CASE loc[t].slot > FAA_CAPACITY
    <3>1. AsrReturn(t)
      BY <1>4, <2>3 DEF ReserveCas
    <3> QED
      BY <1>2, <2>2, <2>3, <3>1, ReserveCasReturns DEF asrCounters, AsrInv
  <2>4. CASE ~(loc[t].slot > FAA_CAPACITY)
    <3>1. AsrGoto(t, "value") /\ loc' = [loc EXCEPT ![t].limit = FAA_CAPACITY, ![t].ver = 0]
      BY <1>4, <2>4 DEF ReserveCas
    <3> QED
      BY <1>2, <2>1, <2>2, <2>4, <3>1, ReserveCasLast DEF asrCounters, AsrInv, AsrLastTaken
  <2> QED
    BY <2>3, <2>4
<1>5. CASE get_state(cas_counter) = "CAS_INSERTION"
  <2>1. cas_counter.ver > 0 /\ cas_counter.lck = FALSE
    BY <1>1, <1>5, AsrStates DEF AsrTypeOK, AsrWord
  <2>2. CASE AsrReturn(t) /\ UNCHANGED cas_counter
    <3>1. cas_counter.ver # 0
      BY <1>1, <2>1
    <3> QED
      BY <1>2, <2>2, <3>1, ReserveCasReturns DEF asrCounters, AsrInv
  <2>3. CASE /\ ~(cas_counter.n > CAPACITY) /\ AsrGoto(t, "value")
             /\ cas_counter' = [cas_counter EXCEPT !.n = @ + loc[t].todo]
             /\ loc' = [loc EXCEPT ![t].slot = cas_counter.n, ![t].limit = CAPACITY, ![t].ver = cas_counter.ver]
    BY <1>2, <2>1, <2>3, ReserveCasReserves
  <2> QED
    BY <1>5, <2>2, <2>3 DEF ReserveCas
<1> QED
  BY <1>1, <1>3, <1>4, <1>5, AsrStates DEF ReserveCas

AsrKept(i) == slots[i].key # ASR_EMPTY => slots'[i] = slots[i]
AsrSame == UNCHANGED <<faa_counter, cas_counter, elements_at_phase_change, extraction_counter, fresh,
                       offered, acquisitions, stolen, extracted>>

\* An inserter's store to a slot nobody has filled.
LEMMA AsrWriteStep ==
    ASSUME NEW n \in 0 .. CAPACITY, AsrInvAt(n), NEW t \in AsrThread, AsrOthers(t), AsrSame,
           AsrInserting(t), AsrInserting(t)', AsrCrosses(t)' <=> AsrCrosses(t),
           \A i \in 0 .. CAPACITY - 1 : AsrKept(i)
    PROVE  AsrLockOK' /\ AsrCountOK(n)' /\ AsrSplitOK(n)' /\ AsrFreshOK' /\ AsrExtractOK(n)'
<1>1. /\ AsrFreshOK /\ AsrExtractOK(n)
  BY DEF AsrInvAt
<1>2. /\ UNCHANGED <<faa_counter, cas_counter, elements_at_phase_change>>
      /\ extraction_counter' = extraction_counter /\ extracted' = extracted /\ fresh' = fresh
  BY DEF AsrSame
<1>3. AsrWillSplit(t)' <=> AsrWillSplit(t)
  BY DEF AsrWillSplit, AsrInserting
<1>4. apc[t] \in AsrOutside /\ apc'[t] \in AsrOutside /\ apc[t] # "extract" /\ apc'[t] # "extract"
  BY DEF AsrInserting, AsrOutside
<1>5. AsrLockOK' /\ AsrCountOK(n)' /\ AsrSplitOK(n)'
  BY <1>2, <1>3, <1>4, AsrPrivateStep
<1>6. AsrFreshOK'
  BY <1>1, <1>2 DEF AsrFreshOK, verify_locked, AsrSlots
<1>7. AsrExtraction' <=> AsrExtraction
  BY <1>2 DEF AsrExtraction
<1>8. \A u \in AsrThread : (apc'[u] = "extract" <=> apc[u] = "extract") /\ (apc[u] = "extract" => loc'[u] = loc[u])
  BY <1>4 DEF AsrOthers
<1>9. \A m \in 1 .. Len(extracted) : \E i \in 0 .. CAPACITY - 1 :
        /\ i < extraction_counter /\ slots'[i].key # ASR_EMPTY /\ slots'[i] = extracted[m]
        /\ \A u \in AsrThread : apc'[u] = "extract" => loc'[u].slot # i
  <2> SUFFICES ASSUME NEW m \in 1 .. Len(extracted)
               PROVE  \E i \in 0 .. CAPACITY - 1 :
                        /\ i < extraction_counter /\ slots'[i].key # ASR_EMPTY /\ slots'[i] = extracted[m]
                        /\ \A u \in AsrThread : apc'[u] = "extract" => loc'[u].slot # i
    OBVIOUS
  <2>1. PICK i \in 0 .. CAPACITY - 1 :
          /\ i < extraction_counter /\ slots[i].key # ASR_EMPTY /\ slots[i] = extracted[m]
          /\ \A u \in AsrThread : apc[u] = "extract" => loc[u].slot # i
    BY <1>1 DEF AsrExtractOK
  <2>2. slots'[i] = slots[i] /\ slots'[i].key # ASR_EMPTY
    BY <2>1 DEF AsrKept
  <2>3. \A u \in AsrThread : apc'[u] = "extract" => loc'[u].slot # i
    BY <1>8, <2>1
  <2> QED
    BY <2>1, <2>2, <2>3
<1>10. AsrExtractOK(n)'
  <2>1. \A m, k \in 1 .. Len(extracted) : extracted[m] = extracted[k] => m = k
    BY <1>1 DEF AsrExtractOK
  <2>2. ~AsrExtraction => extracted = <<>> /\ extraction_counter = 0
    BY <1>1 DEF AsrExtractOK
  <2>3. /\ \A u \in AsrThread : apc'[u] = "extract" => loc'[u].slot < n /\ loc'[u].slot < extraction_counter
        /\ \A u, w \in AsrThread :
             apc'[u] = "extract" /\ apc'[w] = "extract" /\ loc'[u].slot = loc'[w].slot => u = w
    BY <1>1, <1>8 DEF AsrExtractOK
  <2> QED
    BY <1>2, <1>7, <1>9, <2>1, <2>2, <2>3 DEF AsrExtractOK
<1> QED
  BY <1>5, <1>6, <1>10

\* Where an inserter writes: a slot it alone has reserved.
LEMMA AsrOwnSlot ==
    ASSUME NEW n \in 0 .. CAPACITY, AsrInvAt(n), NEW t \in AsrThread, AsrInserting(t),
           loc[t].todo > 0, loc[t].slot < loc[t].limit
    PROVE  /\ loc[t].slot \in 0 .. CAPACITY - 1 /\ AsrPends(t, loc[t].slot) /\ slots[loc[t].slot].key = ASR_EMPTY
           /\ \A u \in AsrThread : u # t /\ apc[u] = "key" => loc[u].slot # loc[t].slot
<1>1. AsrTypeOK /\ AsrLocalOK /\ AsrSlotsOK(n)
  BY DEF AsrInvAt
<1>2. FAA_CAPACITY \in Nat /\ FAA_CAPACITY <= CAPACITY /\ CAPACITY \in Nat
  BY FaaCapacityFits, AsrCapacityAssumption
<1>3. \A u \in AsrThread : loc[u].slot \in Nat /\ loc[u].todo \in Nat /\ loc[u].limit \in Nat
  BY <1>1 DEF AsrTypeOK, AsrLocal
<1>4. \A u \in AsrThread : AsrInserting(u) => loc[u].limit \in {FAA_CAPACITY, CAPACITY}
  BY <1>1 DEF AsrLocalOK
<1>5. \A u \in AsrThread : AsrInserting(u) /\ loc[u].todo > 0 /\ loc[u].slot < loc[u].limit
        => loc[u].slot \in 0 .. CAPACITY - 1 /\ AsrPends(u, loc[u].slot)
  <2> SUFFICES ASSUME NEW u \in AsrThread, AsrInserting(u), loc[u].todo > 0, loc[u].slot < loc[u].limit
               PROVE  loc[u].slot \in 0 .. CAPACITY - 1 /\ AsrPends(u, loc[u].slot)
    OBVIOUS
  <2> DEFINE s == loc[u].slot
  <2>1. s \in Nat /\ loc[u].todo \in Nat /\ loc[u].limit \in Nat /\ loc[u].limit <= CAPACITY
    BY <1>2, <1>3, <1>4
  <2>2. s \in 0 .. CAPACITY - 1 /\ s <= s /\ s < s + loc[u].todo
    BY <1>2, <2>1
  <2> QED
    BY <2>2 DEF AsrPends
<1>6. loc[t].slot \in 0 .. CAPACITY - 1 /\ AsrPends(t, loc[t].slot)
  BY <1>5
<1>7. \A u \in AsrThread : apc[u] = "key" => AsrPends(u, loc[u].slot)
  <2>1. \A u \in AsrThread : apc[u] = "key" => loc[u].todo > 0 /\ loc[u].slot < loc[u].limit /\ AsrInserting(u)
    BY <1>1 DEF AsrLocalOK, AsrInserting
  <2> QED
    BY <1>5, <2>1
<1> QED
  BY <1>1, <1>6, <1>7 DEF AsrSlotsOK

\* An inserter writes the value of an entry, in a slot that is its own.
LEMMA WriteValueStep ==
    ASSUME NEW n \in 0 .. CAPACITY, AsrInvAt(n), NEW t \in AsrThread, WriteValue(t)
    PROVE  AsrInvAt(n)'
<1>1. /\ AsrTypeOK /\ AsrLocalOK /\ AsrIdsOK /\ AsrEntriesOK /\ AsrSlotsOK(n)
  BY DEF AsrInvAt
<1> DEFINE s == loc[t].slot
<1> DEFINE id == loc[t].id
<1>2. /\ apc[t] = "value" /\ loc[t].todo > 0 /\ s < loc[t].limit
      /\ apc' = [apc EXCEPT ![t] = "key"] /\ slots' = [slots EXCEPT ![s].val = id]
      /\ loc' = loc /\ placed' = placed /\ AsrSame
  BY DEF WriteValue, AsrGoto, AsrSame, asrCounters, asrHistory
<1>3. AsrInserting(t)
  BY <1>2 DEF AsrInserting
<1>4. /\ s \in 0 .. CAPACITY - 1 /\ slots[s].key = ASR_EMPTY
      /\ \A u \in AsrThread : u # t /\ apc[u] = "key" => loc[u].slot # s
  BY <1>2, <1>3, AsrOwnSlot
<1>5. /\ slots \in AsrSlotArray /\ id \in Nat /\ loc \in [AsrThread -> AsrLocal] /\ apc \in [AsrThread -> AsrPc]
  BY <1>1 DEF AsrTypeOK, AsrLocal
<1>6. stolen' = stolen /\ cas_counter' = cas_counter /\ offered' = offered
  BY <1>2 DEF AsrSame
<1>7. loc[t].todo > 0 /\ s < loc[t].limit /\ loc[t].slot = s /\ loc[t].id = id
  BY <1>2
<1> HIDE DEF s, id
<1>8. /\ slots' \in AsrSlotArray
      /\ \A i \in 0 .. CAPACITY - 1 : slots'[i].key = slots[i].key /\ (i # s => slots'[i] = slots[i])
      /\ slots'[s].val = id
  <2> DEFINE e == slots[s]
  <2> DEFINE f == [e EXCEPT !.val = id]
  <2>1. e \in AsrEntry /\ slots' = [slots EXCEPT ![s] = f]
    BY <1>2, <1>4, <1>5 DEF AsrSlotArray
  <2>2. f \in AsrEntry /\ f.key = e.key /\ f.val = id
    <3> HIDE DEF e
    <3> QED
      BY <1>5, <2>1 DEF AsrEntry
  <2> HIDE DEF f
  <2>3. e.key = slots[s].key
    OBVIOUS
  <2> HIDE DEF e
  <2> QED
    BY <1>4, <1>5, <2>1, <2>2, <2>3 DEF AsrSlotArray
<1>9. /\ AsrOthers(t) /\ apc'[t] = "key" /\ apc' \in [AsrThread -> AsrPc] /\ AsrInserting(t)'
  BY <1>2, <1>5 DEF AsrOthers, AsrPc, AsrInserting
<1>10. \A i \in 0 .. CAPACITY - 1 : AsrKept(i)
  BY <1>4, <1>8 DEF AsrKept
<1>11. AsrCrosses(t)' <=> AsrCrosses(t)
  BY <1>2, <1>3, <1>9 DEF AsrCrosses, AsrInserting
<1>12. AsrLockOK' /\ AsrCountOK(n)' /\ AsrSplitOK(n)' /\ AsrFreshOK' /\ AsrExtractOK(n)'
  BY <1>2, <1>3, <1>9, <1>10, <1>11, AsrWriteStep
<1>13. AsrTypeOK'
  BY <1>1, <1>2, <1>8, <1>9 DEF AsrTypeOK, AsrSame
<1>14. AsrSlotsOK(n)'
  <2>1. \A u \in AsrThread, i \in 0 .. CAPACITY - 1 : AsrPends(u, i)' <=> AsrPends(u, i)
    BY <1>2, <1>3, <1>9 DEF AsrOthers, AsrPends, AsrInserting
  <2>2. \A i \in 0 .. CAPACITY - 1 : slots'[i].key = slots[i].key
    BY <1>8
  <2> QED
    BY <1>1, <2>1, <2>2 DEF AsrSlotsOK
<1>15. AsrIdsOK'
  <2>1. \A u \in AsrThread, v \in Int : AsrHasId(u, v)' <=> AsrHasId(u, v)
    BY <1>2, <1>9 DEF AsrOthers, AsrHasId, AsrBusy
  <2>2. \A e \in placed : e.val \in Int
    BY <1>1 DEF AsrTypeOK, AsrEntry
  <2> QED
    BY <1>1, <1>2, <1>6, <2>1, <2>2 DEF AsrIdsOK
<1>16. AsrEntriesOK'
  <2>1. \A i \in 0 .. CAPACITY - 1 : /\ slots'[i].key # ASR_EMPTY <=> slots[i].key # ASR_EMPTY
                                     /\ slots[i].key # ASR_EMPTY => slots'[i] = slots[i]
    BY <1>4, <1>8
  <2>2. DOMAIN slots = 0 .. CAPACITY - 1 /\ DOMAIN slots' = 0 .. CAPACITY - 1
    BY <1>5, <1>8 DEF AsrSlotArray
  <2>3. AsrSlots(slots') = AsrSlots(slots) /\ AsrSlots(slots) \subseteq 0 .. CAPACITY - 1
    BY <2>1, <2>2 DEF AsrSlots
  <2>4. \A i \in AsrSlots(slots) : slots'[i] = slots[i]
    BY <2>1, <2>2 DEF AsrSlots
  <2>5. SlotEntries(slots') = SlotEntries(slots)
    BY <2>3, <2>4 DEF SlotEntries
  <2>6. placed' = SlotEntries(slots') \cup stolen'
    BY <1>1, <1>2, <1>6, <2>5 DEF AsrEntriesOK
  <2>7. \A i, j \in 0 .. CAPACITY - 1 :
          slots'[i].key # ASR_EMPTY /\ slots'[j].key # ASR_EMPTY /\ slots'[i].val = slots'[j].val => i = j
    BY <1>1, <2>1 DEF AsrEntriesOK
  <2>8. \A e \in stolen', i \in 0 .. CAPACITY - 1 : slots'[i].key # ASR_EMPTY => slots'[i].val # e.val
    BY <1>1, <1>6, <2>1 DEF AsrEntriesOK
  <2> QED
    BY <2>6, <2>7, <2>8 DEF AsrEntriesOK
<1>17. AsrLocalOK'
  <2> SUFFICES ASSUME NEW u \in AsrThread
               PROVE  /\ AsrBusy(u)' => loc'[u].key # ASR_EMPTY
                      /\ apc'[u] = "reserve" => loc'[u].slot >= FAA_CAPACITY /\ loc'[u].todo > 0
                      /\ AsrInserting(u)' => /\ loc'[u].slot <= loc'[u].limit
                                             /\ loc'[u].limit \in {FAA_CAPACITY, CAPACITY}
                                             /\ cas_counter'.ver = 0 => loc'[u].limit = FAA_CAPACITY
                      /\ apc'[u] = "key" => /\ loc'[u].todo > 0 /\ loc'[u].slot < loc'[u].limit
                                            /\ slots'[loc'[u].slot].val = loc'[u].id
                      /\ apc'[u] = "split" => loc'[u].must
                      /\ apc'[u] = "idle" => ~loc'[u].must
    BY DEF AsrLocalOK
  <2>1. CASE u = t
    BY <1>1, <1>2, <1>3, <1>6, <1>7, <1>8, <1>9, <2>1 DEF AsrLocalOK, AsrBusy, AsrInserting
  <2>2. CASE u # t
    <3>1. apc'[u] = apc[u] /\ loc'[u] = loc[u]
      BY <1>9, <2>2 DEF AsrOthers
    <3>2. apc[u] = "key" => slots'[loc[u].slot].val = loc[u].id
      <4>1. apc[u] = "key" => /\ loc[u].slot # s /\ slots[loc[u].slot].val = loc[u].id
                              /\ loc[u].todo > 0 /\ loc[u].slot < loc[u].limit
        BY <1>1, <1>4, <2>2 DEF AsrLocalOK
      <4>2. apc[u] = "key" => loc[u].slot \in 0 .. CAPACITY - 1
        BY <4>1, AsrOwnSlot DEF AsrInserting
      <4> QED
        BY <1>8, <4>1, <4>2
    <3> QED
      BY <1>1, <1>6, <3>1, <3>2 DEF AsrLocalOK, AsrBusy, AsrInserting
  <2> QED
    BY <2>1, <2>2
<1> QED
  BY <1>12, <1>13, <1>14, <1>15, <1>16, <1>17 DEF AsrInvAt

\* The locals after one entry has been written.
AsrStepped(l) == [l EXCEPT !.id = @ + 1, !.slot = @ + 1, !.todo = @ - 1]
LEMMA AsrSteppedFields ==
    ASSUME NEW l \in AsrLocal, l.todo > 0
    PROVE  /\ AsrStepped(l) \in AsrLocal /\ AsrStepped(l).limit = l.limit /\ AsrStepped(l).key = l.key
           /\ AsrStepped(l).id = l.id + 1 /\ AsrStepped(l).slot = l.slot + 1 /\ AsrStepped(l).todo = l.todo - 1
<1>0. PICK m : m = [l EXCEPT !.id = @ + 1, !.slot = @ + 1, !.todo = @ - 1]
  OBVIOUS
<1>1. m.limit = l.limit /\ m.ver = l.ver /\ m.id = l.id + 1 /\ m.slot = l.slot + 1
  BY <1>0 DEF AsrLocal
<1>2. m.todo = l.todo - 1 /\ m.key = l.key /\ m.must = l.must
  BY <1>0 DEF AsrLocal
<1>3. m = [id |-> m.id, slot |-> m.slot, limit |-> m.limit, ver |-> m.ver, todo |-> m.todo,
           key |-> m.key, must |-> m.must]
  BY <1>0 DEF AsrLocal
<1>4. /\ m.limit \in Nat /\ m.ver \in Int /\ m.id \in Nat /\ m.slot \in Nat
      /\ m.todo \in Nat /\ m.key \in Nat /\ m.must \in BOOLEAN
  BY <1>1, <1>2 DEF AsrLocal
<1>5. m \in AsrLocal
  BY <1>3, <1>4 DEF AsrLocal
<1>6. AsrStepped(l) = m
  BY <1>0 DEF AsrStepped
<1> QED
  BY <1>1, <1>2, <1>5, <1>6

\* An inserter writes the key, which makes the entry visible.
LEMMA WriteKeyStep ==
    ASSUME NEW n \in 0 .. CAPACITY, AsrInvAt(n), NEW t \in AsrThread, WriteKey(t)
    PROVE  AsrInvAt(n)'
<1>1. /\ AsrTypeOK /\ AsrLocalOK /\ AsrIdsOK /\ AsrEntriesOK /\ AsrSlotsOK(n)
  BY DEF AsrInvAt
<1> DEFINE k == loc[t]
<1> DEFINE l == AsrStepped(k)
<1> DEFINE e == slots[k.slot]
<1> DEFINE f == [e EXCEPT !.key = k.key]
<1>2. /\ apc[t] = "key" /\ apc' = [apc EXCEPT ![t] = "value"]
      /\ slots' = [slots EXCEPT ![k.slot].key = k.key]
      /\ placed' = placed \cup {f} /\ AsrSame
  BY DEF WriteKey, AsrGoto, AsrSame, asrCounters
<1>3. AsrInserting(t)
  BY <1>2 DEF AsrInserting
<1>4. k.todo > 0 /\ k.slot < k.limit /\ e.val = k.id /\ k.key # ASR_EMPTY
  BY <1>1, <1>2 DEF AsrLocalOK, AsrBusy
<1>5. /\ k.slot \in 0 .. CAPACITY - 1 /\ slots[k.slot].key = ASR_EMPTY /\ AsrPends(t, k.slot)
      /\ \A u \in AsrThread : u # t /\ apc[u] = "key" => loc[u].slot # k.slot
  BY <1>3, <1>4, AsrOwnSlot
<1>6. k \in AsrLocal /\ loc \in [AsrThread -> AsrLocal] /\ apc \in [AsrThread -> AsrPc] /\ slots \in AsrSlotArray
  BY <1>1 DEF AsrTypeOK
<1>7. loc' = [loc EXCEPT ![t] = l]
  BY <1>6 DEF WriteKey, AsrStepped
<1>8. e \in AsrEntry /\ slots' = [slots EXCEPT ![k.slot] = f]
  BY <1>2, <1>5, <1>6 DEF AsrSlotArray
<1>9. /\ \A i \in 0 .. CAPACITY - 1 : AsrPends(t, i) <=> k.slot <= i /\ i < k.limit /\ i < k.slot + k.todo
      /\ \A v \in Int : AsrHasId(t, v) <=> k.id <= v /\ v < k.id + k.todo
  BY <1>2, <1>3 DEF AsrPends, AsrHasId, AsrBusy
<1>10. AsrCrosses(t) <=> k.slot + k.todo > k.limit
  BY <1>2 DEF AsrCrosses, AsrInserting
<1>11. loc[t] = k
  OBVIOUS
<1> HIDE DEF e
<1>12. k.todo \in Nat /\ k.slot \in Nat /\ k.limit \in Nat /\ k.id \in Nat /\ k.key \in Nat
  BY <1>6 DEF AsrLocal
<1> HIDE DEF k
<1>13. f \in AsrEntry /\ f.key = k.key /\ f.val = k.id
  BY <1>4, <1>8, <1>12 DEF AsrEntry
<1> HIDE DEF f
<1>14. /\ l \in AsrLocal /\ l.limit = k.limit /\ l.key = k.key
       /\ l.id = k.id + 1 /\ l.slot = k.slot + 1 /\ l.todo = k.todo - 1
  BY <1>4, <1>6, AsrSteppedFields
<1> HIDE DEF l
<1>15. /\ AsrOthers(t) /\ apc'[t] = "value" /\ loc'[t] = l /\ AsrInserting(t)'
       /\ apc' \in [AsrThread -> AsrPc] /\ loc' \in [AsrThread -> AsrLocal]
  BY <1>2, <1>6, <1>7, <1>14 DEF AsrPc, AsrOthers, AsrInserting
<1>16. stolen' = stolen /\ cas_counter' = cas_counter /\ offered' = offered
  BY <1>2 DEF AsrSame
<1>17. /\ slots' \in AsrSlotArray /\ slots'[k.slot] = f
       /\ \A i \in 0 .. CAPACITY - 1 : i # k.slot => slots'[i] = slots[i]
  BY <1>5, <1>6, <1>8, <1>13 DEF AsrSlotArray
<1>18. \A i \in 0 .. CAPACITY - 1 : AsrKept(i)
  BY <1>5, <1>17 DEF AsrKept
<1>19. AsrCrosses(t)' <=> AsrCrosses(t)
  <2>1. l.slot + l.todo > l.limit <=> k.slot + k.todo > k.limit
    BY <1>12, <1>14
  <2> QED
    BY <1>10, <1>15, <2>1 DEF AsrCrosses, AsrInserting
<1>20. AsrLockOK' /\ AsrCountOK(n)' /\ AsrSplitOK(n)' /\ AsrFreshOK' /\ AsrExtractOK(n)'
  BY <1>2, <1>3, <1>15, <1>18, <1>19, AsrWriteStep
<1>21. AsrTypeOK'
  BY <1>1, <1>2, <1>13, <1>15, <1>17 DEF AsrTypeOK, AsrSame
<1>22. \A i \in 0 .. CAPACITY - 1 : AsrPends(t, i)' <=> AsrPends(t, i) /\ i # k.slot
  <2>1. \A i \in 0 .. CAPACITY - 1 : (l.slot <= i /\ i < l.limit /\ i < l.slot + l.todo)
                                     <=> (k.slot <= i /\ i < k.limit /\ i < k.slot + k.todo /\ i # k.slot)
    BY <1>12, <1>14
  <2>2. \A i \in 0 .. CAPACITY - 1 : AsrPends(t, i)' <=> l.slot <= i /\ i < l.limit /\ i < l.slot + l.todo
    BY <1>15 DEF AsrPends
  <2> QED
    BY <1>9, <2>1, <2>2
<1>23. \A v \in Int : AsrHasId(t, v)' <=> AsrHasId(t, v) /\ v # k.id
  <2>1. \A v \in Int : (l.id <= v /\ v < l.id + l.todo) <=> (k.id <= v /\ v < k.id + k.todo /\ v # k.id)
    BY <1>12, <1>14
  <2>2. \A v \in Int : AsrHasId(t, v)' <=> l.id <= v /\ v < l.id + l.todo
    BY <1>15 DEF AsrHasId, AsrBusy
  <2> QED
    BY <1>9, <2>1, <2>2
<1>24. AsrHasId(t, k.id) /\ k.id \in Int
  <2>1. k.id \in Int /\ k.id <= k.id /\ k.id < k.id + k.todo
    BY <1>4, <1>12
  <2> QED
    BY <1>9, <2>1
<1>25. AsrSlotsOK(n)'
  <2>1. \A u \in AsrThread, i \in 0 .. CAPACITY - 1 : u # t => (AsrPends(u, i)' <=> AsrPends(u, i))
    BY <1>15 DEF AsrOthers, AsrPends, AsrInserting
  <2>2. \A u \in AsrThread, i \in 0 .. CAPACITY - 1 : AsrPends(u, i)' <=> AsrPends(u, i) /\ i # k.slot
    BY <1>1, <1>5, <1>22, <2>1 DEF AsrSlotsOK
  <2>3. slots'[k.slot].key # ASR_EMPTY /\ k.slot < n
    BY <1>1, <1>4, <1>5, <1>13, <1>17 DEF AsrSlotsOK
  <2>4. \A i \in 0 .. CAPACITY - 1 : slots'[i].key = ASR_EMPTY /\ i < n => \E u \in AsrThread : AsrPends(u, i)'
    BY <1>1, <1>17, <2>2, <2>3 DEF AsrSlotsOK
  <2>5. \A i \in 0 .. CAPACITY - 1 : i >= n => slots'[i].key = ASR_EMPTY
    <3>1. k.slot \in Int /\ n \in Int /\ ~(k.slot >= n)
      BY <2>3, <1>5, AsrCapacityAssumption
    <3> QED
      BY <1>1, <1>17, <3>1 DEF AsrSlotsOK
  <2>6. \A u \in AsrThread, i \in 0 .. CAPACITY - 1 : AsrPends(u, i)' => i < n /\ slots'[i].key = ASR_EMPTY
    BY <1>1, <1>17, <2>2 DEF AsrSlotsOK
  <2>7. \A u, w \in AsrThread, i \in 0 .. CAPACITY - 1 : AsrPends(u, i)' /\ AsrPends(w, i)' => u = w
    BY <1>1, <2>2 DEF AsrSlotsOK
  <2> QED
    BY <2>4, <2>5, <2>6, <2>7 DEF AsrSlotsOK
<1>26. AsrIdsOK'
  <2>1. \A u \in AsrThread, v \in Int : u # t => (AsrHasId(u, v)' <=> AsrHasId(u, v))
    BY <1>15 DEF AsrOthers, AsrHasId, AsrBusy
  <2>2. \A u \in AsrThread, v \in Int : AsrHasId(u, v)' <=> AsrHasId(u, v) /\ v # k.id
    BY <1>1, <1>23, <1>24, <2>1 DEF AsrIdsOK
  <2>3. \A a \in placed : a.val \in Int
    BY <1>1 DEF AsrTypeOK, AsrEntry
  <2>4. k.id <= offered
    BY <1>1, <1>24 DEF AsrIdsOK
  <2>5. \A a \in placed' : a.val <= offered' /\ \A u \in AsrThread : ~AsrHasId(u, a.val)'
    <3> SUFFICES ASSUME NEW a \in placed'
                 PROVE  a.val <= offered /\ \A u \in AsrThread : ~AsrHasId(u, a.val)'
      BY <1>16
    <3>1. CASE a = f
      BY <1>13, <1>24, <2>2, <2>4, <3>1
    <3>2. CASE a \in placed
      BY <1>1, <2>2, <2>3, <3>2 DEF AsrIdsOK
    <3> QED
      BY <1>2, <3>1, <3>2
  <2>6. /\ \A u \in AsrThread, v \in Int : AsrHasId(u, v)' => v <= offered'
        /\ \A u, w \in AsrThread, v \in Int : AsrHasId(u, v)' /\ AsrHasId(w, v)' => u = w
    BY <1>1, <1>16, <2>2 DEF AsrIdsOK
  <2> QED
    BY <2>5, <2>6 DEF AsrIdsOK
<1>27. AsrEntriesOK'
  <2>1. DOMAIN slots = 0 .. CAPACITY - 1 /\ DOMAIN slots' = 0 .. CAPACITY - 1
    BY <1>6, <1>17 DEF AsrSlotArray
  <2>2. f.key # ASR_EMPTY
    BY <1>4, <1>13
  <2>3. AsrSlots(slots') = AsrSlots(slots) \cup {k.slot} /\ k.slot \notin AsrSlots(slots)
    BY <1>5, <1>17, <2>1, <2>2 DEF AsrSlots
  <2>4. SlotEntries(slots') = SlotEntries(slots) \cup {f}
    <3>1. \A i \in AsrSlots(slots) : slots'[i] = slots[i]
      BY <1>17, <2>1, <2>3 DEF AsrSlots
    <3>2. slots'[k.slot] = f
      BY <1>17
    <3> QED
      BY <2>3, <3>1, <3>2 DEF SlotEntries
  <2>5. placed' = SlotEntries(slots') \cup stolen'
    BY <1>1, <1>2, <1>16, <2>4 DEF AsrEntriesOK
  <2>6. \A a \in placed : a.val # k.id
    BY <1>1, <1>24 DEF AsrIdsOK
  <2>7. \A i \in 0 .. CAPACITY - 1 : slots[i].key # ASR_EMPTY => slots[i] \in placed
    BY <1>1, <2>1 DEF AsrEntriesOK, SlotEntries, AsrSlots
  <2>8. \A i \in 0 .. CAPACITY - 1 : slots'[i].key # ASR_EMPTY /\ slots'[i].val = k.id => i = k.slot
    BY <1>17, <2>6, <2>7
  <2>9. \A i, j \in 0 .. CAPACITY - 1 :
          slots'[i].key # ASR_EMPTY /\ slots'[j].key # ASR_EMPTY /\ slots'[i].val = slots'[j].val => i = j
    BY <1>1, <1>13, <1>17, <2>8 DEF AsrEntriesOK
  <2>10. \A a \in stolen : a.val # k.id
    BY <1>1, <2>6 DEF AsrEntriesOK
  <2>11. \A a \in stolen', i \in 0 .. CAPACITY - 1 : slots'[i].key # ASR_EMPTY => slots'[i].val # a.val
    BY <1>1, <1>13, <1>16, <1>17, <2>10 DEF AsrEntriesOK
  <2> QED
    BY <2>5, <2>9, <2>11 DEF AsrEntriesOK
<1>28. AsrLocalOK'
  <2> SUFFICES ASSUME NEW u \in AsrThread
               PROVE  /\ AsrBusy(u)' => loc'[u].key # ASR_EMPTY
                      /\ apc'[u] = "reserve" => loc'[u].slot >= FAA_CAPACITY /\ loc'[u].todo > 0
                      /\ AsrInserting(u)' => /\ loc'[u].slot <= loc'[u].limit
                                             /\ loc'[u].limit \in {FAA_CAPACITY, CAPACITY}
                                             /\ cas_counter'.ver = 0 => loc'[u].limit = FAA_CAPACITY
                      /\ apc'[u] = "key" => /\ loc'[u].todo > 0 /\ loc'[u].slot < loc'[u].limit
                                            /\ slots'[loc'[u].slot].val = loc'[u].id
                      /\ apc'[u] = "split" => loc'[u].must
                      /\ apc'[u] = "idle" => ~loc'[u].must
    BY DEF AsrLocalOK
  <2>1. CASE u = t
    <3>1. /\ k.limit \in {FAA_CAPACITY, CAPACITY}
          /\ cas_counter.ver = 0 => k.limit = FAA_CAPACITY
      BY <1>1, <1>3, <1>11 DEF AsrLocalOK
    <3>2. l.slot <= l.limit /\ l.key # ASR_EMPTY
      BY <1>4, <1>12, <1>14
    <3> QED
      BY <1>14, <1>15, <1>16, <2>1, <3>1, <3>2
  <2>2. CASE u # t
    <3>1. apc'[u] = apc[u] /\ loc'[u] = loc[u]
      BY <1>15, <2>2 DEF AsrOthers
    <3>2. apc[u] = "key" => slots'[loc[u].slot].val = loc[u].id
      <4>1. apc[u] = "key" => /\ loc[u].slot # k.slot /\ slots[loc[u].slot].val = loc[u].id
                              /\ loc[u].todo > 0 /\ loc[u].slot < loc[u].limit
        BY <1>1, <1>5, <2>2 DEF AsrLocalOK
      <4>2. apc[u] = "key" => loc[u].slot \in 0 .. CAPACITY - 1
        BY <4>1, AsrOwnSlot DEF AsrInserting
      <4> QED
        BY <1>17, <4>1, <4>2
    <3> QED
      BY <1>1, <1>16, <3>1, <3>2 DEF AsrLocalOK, AsrBusy, AsrInserting
  <2> QED
    BY <2>1, <2>2
<1> QED
  BY <1>20, <1>21, <1>25, <1>26, <1>27, <1>28 DEF AsrInvAt

\* --- splits --------------------------------------------------------------------

\* With the lock held and every insertion done, the filled slots are the first
\* n and nobody is about to write one.
LEMMA AsrHeldFilled ==
    ASSUME NEW n \in 0 .. CAPACITY, AsrInvAt(n), NEW t \in AsrThread, apc[t] = "held", InsertionsDone
    PROVE  /\ get_valid_reservations(cas_counter) = n
           /\ \A i \in 0 .. CAPACITY - 1 : slots[i].key # ASR_EMPTY <=> i < n
           /\ \A u \in AsrThread, i \in 0 .. CAPACITY - 1 : ~AsrPends(u, i)
           /\ \A u \in AsrThread : apc[u] # "key"
<1>1. AsrTypeOK /\ AsrLocalOK /\ AsrCountOK(n) /\ AsrSlotsOK(n)
  BY DEF AsrInvAt
<1>2. get_valid_reservations(cas_counter) = n
  BY <1>1 DEF AsrCountOK
<1>3. \A i \in 0 .. n - 1 : slots[i].key # ASR_EMPTY
  BY <1>2 DEF InsertionsDone
<1>4. \A i \in 0 .. CAPACITY - 1 : i < n => slots[i].key # ASR_EMPTY
  <2>1. \A i \in 0 .. CAPACITY - 1 : i < n => i \in 0 .. n - 1
    BY AsrCapacityAssumption
  <2> QED
    BY <1>3, <2>1
<1>5. \A i \in 0 .. CAPACITY - 1 : slots[i].key # ASR_EMPTY <=> i < n
  <2>1. \A i \in 0 .. CAPACITY - 1 : i < n \/ i >= n
    BY AsrCapacityAssumption
  <2> QED
    BY <1>1, <1>4, <2>1 DEF AsrSlotsOK
<1>6. \A u \in AsrThread, i \in 0 .. CAPACITY - 1 : ~AsrPends(u, i)
  BY <1>1, <1>4 DEF AsrSlotsOK
<1>7. \A u \in AsrThread : apc[u] # "key"
  <2>1. \A u \in AsrThread : apc[u] = "key" => AsrInserting(u) /\ loc[u].todo > 0 /\ loc[u].slot < loc[u].limit
    BY <1>1 DEF AsrLocalOK, AsrInserting
  <2> QED
    BY <1>6, <2>1, AsrOwnSlot
<1> QED
  BY <1>2, <1>5, <1>6, <1>7

\* keep and take share out the filled slots; take may start with a new entry.
AsrShares(n, keep, take) ==
    /\ Len(keep) \in 0 .. n /\ Len(take) \in 0 .. CAPACITY
    /\ \A i \in 1 .. Len(keep) : \E j \in 0 .. n - 1 : keep[i] = slots[j]
    /\ \A i, j \in 1 .. Len(keep) : keep[i] = keep[j] => i = j
    /\ \A i \in 1 .. Len(take) : take[i] \in [key : Nat \ {0}, val : Int]
    /\ \A i \in 1 .. Len(take) : take[i].val \in Nat => \E j \in 0 .. n - 1 : take[i] = slots[j]
    /\ \A j \in 0 .. n - 1 : \/ \E i \in 1 .. Len(keep) : keep[i] = slots[j]
                             \/ \E i \in 1 .. Len(take) : take[i] = slots[j]
    /\ \A i \in 1 .. Len(keep), j \in 1 .. Len(take) : keep[i] # take[j]

AsrKeptSlots(keep) == slots' = [i \in 0 .. CAPACITY - 1 |-> IF i < Len(keep) THEN keep[i + 1] ELSE Vacant]
AsrTookAway(take) == stolen' = stolen \cup ({ take[i] : i \in 1 .. Len(take) } \cap placed)

\* The slots after a split: the entries kept, and nothing above them.
LEMMA AsrMovedSlots ==
    ASSUME NEW n \in 0 .. CAPACITY, AsrTypeOK, \A i \in 0 .. n - 1 : slots[i].key # ASR_EMPTY,
           NEW keep, NEW take, AsrShares(n, keep, take), AsrKeptSlots(keep)
    PROVE  /\ slots' \in AsrSlotArray
           /\ \A i \in 0 .. CAPACITY - 1 : slots'[i].key # ASR_EMPTY <=> i < Len(keep)
           /\ \A i \in 0 .. CAPACITY - 1 : i < Len(keep) => slots'[i] = keep[i + 1]
<1>1. CAPACITY \in Nat /\ n \in Nat /\ Len(keep) \in Nat /\ slots \in AsrSlotArray
  BY AsrCapacityAssumption DEF AsrShares, AsrTypeOK
<1>2. \A i \in 1 .. Len(keep) : keep[i] \in AsrEntry /\ keep[i].key # ASR_EMPTY
  <2> SUFFICES ASSUME NEW i \in 1 .. Len(keep)
               PROVE  keep[i] \in AsrEntry /\ keep[i].key # ASR_EMPTY
    OBVIOUS
  <2>1. PICK j \in 0 .. n - 1 : keep[i] = slots[j]
    BY DEF AsrShares
  <2>2. j \in 0 .. CAPACITY - 1
    BY <1>1
  <2> QED
    BY <1>1, <2>1, <2>2 DEF AsrSlotArray
<1>3. Vacant \in AsrEntry /\ Vacant.key = ASR_EMPTY
  BY DEF Vacant, AsrEntry, ASR_EMPTY
<1>4. \A i \in 0 .. CAPACITY - 1 : i < Len(keep) => i + 1 \in 1 .. Len(keep)
  BY <1>1
<1>5. \A i \in 0 .. CAPACITY - 1 : slots'[i] = IF i < Len(keep) THEN keep[i + 1] ELSE Vacant
  BY DEF AsrKeptSlots
<1>6. slots' \in AsrSlotArray
  <2>1. slots' = [i \in 0 .. CAPACITY - 1 |-> IF i < Len(keep) THEN keep[i + 1] ELSE Vacant]
    BY DEF AsrKeptSlots
  <2> QED
    BY <1>2, <1>3, <1>4, <2>1 DEF AsrSlotArray
<1> QED
  BY <1>2, <1>3, <1>4, <1>5, <1>6

\* A split that shares out the entries loses none and keeps none twice.
LEMMA AsrMovedEntries ==
    ASSUME NEW n \in 0 .. CAPACITY, AsrTypeOK, AsrEntriesOK,
           \A i \in 0 .. CAPACITY - 1 : slots[i].key # ASR_EMPTY <=> i < n,
           NEW keep, NEW take, AsrShares(n, keep, take), AsrKeptSlots(keep), AsrTookAway(take), placed' = placed
    PROVE  AsrEntriesOK' /\ stolen' \subseteq AsrEntry
<1>1. CAPACITY \in Nat /\ n \in Nat /\ Len(keep) \in Nat /\ slots \in AsrSlotArray /\ Len(keep) <= n /\ n <= CAPACITY
  BY AsrCapacityAssumption DEF AsrShares, AsrTypeOK
<1>2. \A i \in 0 .. n - 1 : i \in 0 .. CAPACITY - 1 /\ slots[i].key # ASR_EMPTY
  <2>1. \A i \in 0 .. n - 1 : i \in 0 .. CAPACITY - 1 /\ i < n
    BY <1>1
  <2> QED
    BY <2>1
<1>3. /\ slots' \in AsrSlotArray
      /\ \A i \in 0 .. CAPACITY - 1 : slots'[i].key # ASR_EMPTY <=> i < Len(keep)
      /\ \A i \in 0 .. CAPACITY - 1 : i < Len(keep) => slots'[i] = keep[i + 1]
  BY <1>2, AsrMovedSlots
<1>4. DOMAIN slots = 0 .. CAPACITY - 1 /\ DOMAIN slots' = 0 .. CAPACITY - 1
  BY <1>1, <1>3 DEF AsrSlotArray
<1>5. \A x : x \in SlotEntries(slots) <=> \E j \in 0 .. n - 1 : x = slots[j]
  <2>1. AsrSlots(slots) = 0 .. n - 1
    <3>1. \A i : i \in 0 .. n - 1 <=> i \in 0 .. CAPACITY - 1 /\ i < n
      BY <1>1
    <3> QED
      BY <1>4, <3>1 DEF AsrSlots
  <2> QED
    BY <2>1 DEF SlotEntries
<1>6. \A x : x \in SlotEntries(slots') <=> \E i \in 1 .. Len(keep) : x = keep[i]
  <2>1. AsrSlots(slots') = 0 .. Len(keep) - 1
    <3>1. \A i : i \in 0 .. Len(keep) - 1 <=> i \in 0 .. CAPACITY - 1 /\ i < Len(keep)
      BY <1>1
    <3> QED
      BY <1>3, <1>4, <3>1 DEF AsrSlots
  <2>2. \A i \in 0 .. Len(keep) - 1 : slots'[i] = keep[i + 1] /\ i + 1 \in 1 .. Len(keep)
    <3>1. \A i \in 0 .. Len(keep) - 1 : i \in 0 .. CAPACITY - 1 /\ i < Len(keep) /\ i + 1 \in 1 .. Len(keep)
      BY <1>1
    <3> QED
      BY <1>3, <3>1
  <2>3. \A i \in 1 .. Len(keep) : \E j \in 0 .. Len(keep) - 1 : slots'[j] = keep[i]
    <3> SUFFICES ASSUME NEW i \in 1 .. Len(keep)
                 PROVE  \E j \in 0 .. Len(keep) - 1 : slots'[j] = keep[i]
      OBVIOUS
    <3>1. i - 1 \in 0 .. Len(keep) - 1 /\ (i - 1) + 1 = i
      BY <1>1
    <3>2. slots'[i - 1] = keep[i]
      BY <2>2, <3>1
    <3> QED
      BY <3>1, <3>2
  <2>4. SlotEntries(slots') = { slots'[i] : i \in 0 .. Len(keep) - 1 }
    BY <2>1 DEF SlotEntries
  <2>5. \A x : x \in SlotEntries(slots') => \E i \in 1 .. Len(keep) : x = keep[i]
    BY <2>2, <2>4
  <2>6. \A i \in 1 .. Len(keep) : keep[i] \in SlotEntries(slots')
    BY <2>3, <2>4
  <2> QED
    BY <2>5, <2>6
<1>7. placed = SlotEntries(slots) \cup stolen /\ placed \subseteq AsrEntry
  BY DEF AsrEntriesOK, AsrTypeOK
<1>8. \A x : x \in stolen' <=> x \in stolen \/ (x \in placed /\ \E i \in 1 .. Len(take) : x = take[i])
  BY DEF AsrTookAway
<1>9. placed' = SlotEntries(slots') \cup stolen'
  <2>1. \A x \in placed : x \in SlotEntries(slots') \/ x \in stolen'
    <3> SUFFICES ASSUME NEW x \in placed, x \notin stolen
                 PROVE  x \in SlotEntries(slots') \/ x \in stolen'
      BY <1>8
    <3>1. PICK j \in 0 .. n - 1 : x = slots[j]
      BY <1>5, <1>7
    <3>2. (\E i \in 1 .. Len(keep) : keep[i] = x) \/ (\E i \in 1 .. Len(take) : take[i] = x)
      BY <3>1 DEF AsrShares
    <3> QED
      BY <1>6, <1>8, <3>2
  <2>2. \A x : x \in SlotEntries(slots') => x \in placed
    BY <1>5, <1>6, <1>7 DEF AsrShares
  <2>3. \A x : x \in stolen' => x \in placed
    BY <1>7, <1>8
  <2> QED
    BY <2>1, <2>2, <2>3
<1>10. \A i, j \in 1 .. Len(keep) : keep[i].val = keep[j].val => i = j
  <2> SUFFICES ASSUME NEW i \in 1 .. Len(keep), NEW j \in 1 .. Len(keep), keep[i].val = keep[j].val
               PROVE  i = j
    OBVIOUS
  <2>1. PICK a \in 0 .. n - 1 : keep[i] = slots[a]
    BY DEF AsrShares
  <2>2. PICK b \in 0 .. n - 1 : keep[j] = slots[b]
    BY DEF AsrShares
  <2>3. a = b
    BY <1>2, <2>1, <2>2 DEF AsrEntriesOK
  <2> QED
    BY <2>1, <2>2, <2>3 DEF AsrShares
<1>11. \A i, j \in 0 .. CAPACITY - 1 :
         slots'[i].key # ASR_EMPTY /\ slots'[j].key # ASR_EMPTY /\ slots'[i].val = slots'[j].val => i = j
  <2> SUFFICES ASSUME NEW i \in 0 .. CAPACITY - 1, NEW j \in 0 .. CAPACITY - 1,
                      slots'[i].key # ASR_EMPTY, slots'[j].key # ASR_EMPTY, slots'[i].val = slots'[j].val
               PROVE  i = j
    OBVIOUS
  <2>1. slots'[i] = keep[i + 1] /\ slots'[j] = keep[j + 1] /\ i < Len(keep) /\ j < Len(keep)
    BY <1>3
  <2>2. i + 1 \in 1 .. Len(keep) /\ j + 1 \in 1 .. Len(keep)
    BY <1>1, <2>1
  <2>3. i + 1 = j + 1
    BY <1>10, <2>1, <2>2
  <2> QED
    BY <2>3
<1>12. \A e \in stolen', i \in 0 .. CAPACITY - 1 : slots'[i].key # ASR_EMPTY => slots'[i].val # e.val
  <2> SUFFICES ASSUME NEW e \in stolen', NEW i \in 0 .. CAPACITY - 1, slots'[i].key # ASR_EMPTY,
                      slots'[i].val = e.val
               PROVE  FALSE
    OBVIOUS
  <2>1. slots'[i] = keep[i + 1] /\ i < Len(keep)
    BY <1>3
  <2>2. i + 1 \in 1 .. Len(keep)
    BY <1>1, <2>1
  <2>3. PICK a \in 0 .. n - 1 : slots'[i] = slots[a]
    BY <2>1, <2>2 DEF AsrShares
  <2>4. e \notin stolen
    BY <1>2, <2>3 DEF AsrEntriesOK
  <2>5. PICK b \in 1 .. Len(take) : e = take[b] /\ e \in placed
    BY <1>8, <2>4
  <2>6. e.val \in Nat
    BY <1>7, <2>5 DEF AsrEntry
  <2>7. PICK j \in 0 .. n - 1 : take[b] = slots[j]
    BY <2>5, <2>6 DEF AsrShares
  <2>8. a = j
    BY <1>2, <2>3, <2>5, <2>7 DEF AsrEntriesOK
  <2> QED
    BY <2>1, <2>2, <2>3, <2>5, <2>7, <2>8 DEF AsrShares
<1>13. stolen' \subseteq AsrEntry
  BY <1>7, <1>9
<1> QED
  BY <1>9, <1>11, <1>12, <1>13 DEF AsrEntriesOK

\* The fresh vector: exactly its first slots are filled, and its counters say so.
\* The vector a split populates.
AsrGiven(take, faa, cas) ==
    fresh' = [slots |-> [i \in 0 .. CAPACITY - 1 |-> IF i < Len(take) THEN take[i + 1] ELSE Vacant],
              faa |-> faa, cas |-> cas]
LEMMA AsrGivenFresh ==
    ASSUME NEW take, NEW faa \in Nat, NEW cas \in AsrWord, AsrGiven(take, faa, cas),
           Len(take) \in 0 .. CAPACITY, \A i \in 1 .. Len(take) : take[i] \in [key : Nat \ {0}, val : Int],
           Len(take) = IF faa <= FAA_CAPACITY THEN faa ELSE cas.n, faa > FAA_CAPACITY <=> cas.ver > 0
    PROVE  AsrFreshOK' /\ fresh' \in [slots : AsrFreshArray, faa : Nat, cas : AsrWord]
<1> DEFINE L == Len(take)
<1> DEFINE a == [i \in 0 .. CAPACITY - 1 |-> IF i < L THEN take[i + 1] ELSE Vacant]
<1>1. fresh' = [slots |-> a, faa |-> faa, cas |-> cas]
  BY DEF AsrGiven
<1>2. CAPACITY \in Nat /\ L \in Nat /\ L <= CAPACITY
  BY AsrCapacityAssumption
<1>3. \A i \in 0 .. CAPACITY - 1 : i < L => i + 1 \in 1 .. L
  BY <1>2
<1>4. \A i \in 1 .. L : take[i] \in [key : Nat, val : Int] /\ take[i].key # ASR_EMPTY
  BY DEF ASR_EMPTY
<1>5. Vacant \in [key : Nat, val : Int] /\ Vacant.key = ASR_EMPTY
  BY DEF Vacant, ASR_EMPTY
<1>6. L = IF faa <= FAA_CAPACITY THEN faa ELSE cas.n
  OBVIOUS
<1> HIDE DEF L
<1>7. a \in AsrFreshArray
  BY <1>3, <1>4, <1>5 DEF AsrFreshArray
<1>8. AsrSlots(a) = 0 .. L - 1
  <2>1. \A i : i \in 0 .. L - 1 <=> i \in 0 .. CAPACITY - 1 /\ i < L
    BY <1>2
  <2>2. \A i \in 0 .. CAPACITY - 1 : a[i].key # ASR_EMPTY <=> i < L
    BY <1>3, <1>4, <1>5
  <2>3. DOMAIN a = 0 .. CAPACITY - 1
    OBVIOUS
  <2> HIDE DEF a
  <2> QED
    BY <2>1, <2>2, <2>3 DEF AsrSlots
<1> HIDE DEF a
<1>9. fresh'.slots = a /\ fresh'.faa = faa /\ fresh'.cas = cas
  BY <1>1
<1>10. fresh' \in [slots : AsrFreshArray, faa : Nat, cas : AsrWord]
  BY <1>1, <1>7
<1>11. AsrFreshOK'
  BY <1>2, <1>6, <1>8, <1>9 DEF AsrFreshOK, verify_locked
<1> QED
  BY <1>10, <1>11

\* The holder's locals and the others' numbers, in a step to "release" with no
\* insertion under way.
LEMMA AsrMovedLocals ==
    ASSUME AsrTypeOK, AsrLocalOK, AsrIdsOK, NEW t \in AsrThread, AsrOthers(t), apc[t] = "held", apc'[t] = "release",
           \A u \in AsrThread : apc[u] # "key",
           cas_counter'.ver = cas_counter.ver, placed' = placed, offered' = offered
    PROVE  AsrLocalOK' /\ AsrIdsOK'
<1>1. AsrIdsOK'
  <2>1. \A u \in AsrThread, v \in Int : AsrHasId(u, v)' => AsrHasId(u, v)
    BY DEF AsrOthers, AsrHasId, AsrBusy
  <2>2. \A e \in placed : e.val \in Int
    BY DEF AsrTypeOK, AsrEntry
  <2> QED
    BY <2>1, <2>2 DEF AsrIdsOK
<1>2. AsrLocalOK'
  BY DEF AsrLocalOK, AsrOthers, AsrBusy, AsrInserting
<1> QED
  BY <1>1, <1>2

\* Every split whose two halves share out the entries preserves the invariant.
LEMMA AsrMovedStep ==
    ASSUME NEW n \in 0 .. CAPACITY, AsrInvAt(n), NEW t \in AsrThread, NEW keep, NEW take,
           NEW faa \in Nat, NEW cas \in AsrWord,
           apc[t] = "held", InsertionsDone, AsrShares(n, keep, take), AsrMoved(t, keep, take, faa, cas),
           Len(take) = IF faa <= FAA_CAPACITY THEN faa ELSE cas.n, faa > FAA_CAPACITY <=> cas.ver > 0
    PROVE  AsrInv'
<1>1. /\ AsrTypeOK /\ AsrLockOK /\ AsrLocalOK /\ AsrIdsOK /\ AsrEntriesOK
      /\ AsrCountOK(n) /\ AsrExtractOK(n)
  BY DEF AsrInvAt
<1>2. /\ AsrKeptSlots(keep) /\ AsrGiven(take, faa, cas) /\ AsrTookAway(take) /\ placed' = placed
      /\ apc' = [apc EXCEPT ![t] = "release"] /\ loc' = loc
      /\ UNCHANGED <<faa_counter, elements_at_phase_change, extraction_counter, offered, acquisitions, extracted>>
  BY DEF AsrMoved, AsrKeptSlots, AsrGiven, AsrTookAway, AsrGoto
<1>3. /\ get_valid_reservations(cas_counter) = n
      /\ \A i \in 0 .. CAPACITY - 1 : slots[i].key # ASR_EMPTY <=> i < n
      /\ \A u \in AsrThread, i \in 0 .. CAPACITY - 1 : ~AsrPends(u, i)
      /\ \A u \in AsrThread : apc[u] # "key"
  BY AsrHeldFilled
<1>4. CAPACITY \in Nat /\ n \in Nat /\ FAA_CAPACITY \in Nat
  BY AsrCapacityAssumption, FaaCapacityFits
<1>5. PICK p \in 0 .. CAPACITY : p = Len(keep) /\ p <= n
  BY <1>4 DEF AsrShares
<1>6. /\ \A u \in AsrThread : u # t => apc[u] \notin AsrInside
      /\ cas_counter.lck = TRUE /\ cas_counter.ver \in Nat /\ ~AsrExtraction
  BY AsrHolderAlone DEF AsrHolder
<1>7. /\ cas_counter' \in AsrWord /\ cas_counter'.ver = cas_counter.ver /\ cas_counter'.lck = TRUE
      /\ cas_counter'.n = p
  <2> DEFINE c == cas_counter
  <2>1. c \in AsrWord /\ c' = [c EXCEPT !.n = p] /\ p \in Nat /\ c.lck = TRUE
    BY <1>1, <1>4, <1>5, <1>6 DEF AsrMoved, AsrTypeOK
  <2>2. c' \in AsrWord /\ c'.ver = c.ver /\ c'.lck = TRUE /\ c'.n = p
    BY <2>1 DEF AsrWord
  <2> QED
    BY <2>2
<1>8. /\ AsrOthers(t) /\ apc'[t] = "release" /\ apc' \in [AsrThread -> AsrPc]
  BY <1>1, <1>2 DEF AsrTypeOK, AsrPc, AsrOthers
<1>9. \A u \in AsrThread : u # t => apc'[u] \notin AsrInside
  BY <1>6, <1>8 DEF AsrOthers
<1>10. ~AsrExtraction'
  BY <1>6, <1>7 DEF AsrExtraction
<1>11. AsrEntriesOK' /\ stolen' \subseteq AsrEntry
  BY <1>1, <1>2, <1>3, AsrMovedEntries
<1>12. /\ slots' \in AsrSlotArray
       /\ \A i \in 0 .. CAPACITY - 1 : slots'[i].key # ASR_EMPTY <=> i < p
  <2>1. \A i \in 0 .. n - 1 : slots[i].key # ASR_EMPTY
    <3>1. \A i \in 0 .. n - 1 : i \in 0 .. CAPACITY - 1 /\ i < n
      BY <1>4
    <3> QED
      BY <1>3, <3>1
  <2> QED
    BY <1>1, <1>2, <1>5, <2>1, AsrMovedSlots
<1>13. AsrFreshOK' /\ fresh' \in [slots : AsrFreshArray, faa : Nat, cas : AsrWord]
  <2>1. Len(take) \in 0 .. CAPACITY /\ \A i \in 1 .. Len(take) : take[i] \in [key : Nat \ {0}, val : Int]
    BY DEF AsrShares
  <2> QED
    BY <1>2, <2>1, AsrGivenFresh
<1>14. AsrTypeOK'
  BY <1>1, <1>2, <1>7, <1>8, <1>11, <1>12, <1>13 DEF AsrTypeOK
<1>15. AsrLocalOK' /\ AsrIdsOK'
  BY <1>1, <1>2, <1>3, <1>7, <1>8, AsrMovedLocals
<1>16. faa_counter' > FAA_CAPACITY /\ (cas_counter.ver = 0 => p <= FAA_CAPACITY)
  <2>1. faa_counter > FAA_CAPACITY /\ (cas_counter.ver = 0 => n <= FAA_CAPACITY)
    BY <1>1 DEF AsrLockOK, AsrCountOK
  <2> QED
    BY <1>2, <1>4, <1>5, <2>1
<1>17. AsrLockOK'
  <2>1. cas_counter'.ver >= 0 /\ cas_counter'.lck = TRUE /\ AsrHolder(t)'
    BY <1>6, <1>7, <1>8 DEF AsrHolder
  <2>2. cas_counter'.ver = 0 => cas_counter'.n <= FAA_CAPACITY
    BY <1>7, <1>16
  <2>3. apc'[t] = "release" /\ faa_counter' > FAA_CAPACITY
    BY <1>8, <1>16
  <2> QED
    BY <1>9, <1>10, <2>1, <2>2, <2>3, AsrLockOne
<1>18. AsrCountOK(p)'
  <2>1. get_valid_reservations(cas_counter)' = p
    <3>1. ~(p > CAPACITY)
      BY <1>4
    <3> QED
      BY <1>7, <3>1 DEF get_valid_reservations
  <2>2. apc'[t] = "release" /\ (cas_counter'.ver = 0 => p <= FAA_CAPACITY)
    BY <1>7, <1>8, <1>16
  <2> QED
    BY <1>9, <1>10, <2>1, <2>2, AsrCountOne
<1>19. AsrSlotsOK(p)'
  <2>1. \A u \in AsrThread, i \in 0 .. CAPACITY - 1 : ~AsrPends(u, i)'
    BY <1>2, <1>3, <1>8 DEF AsrPends, AsrInserting, AsrOthers
  <2>2. \A i \in 0 .. CAPACITY - 1 : i >= p => ~(i < p)
    BY <1>4
  <2> QED
    BY <1>12, <2>1, <2>2 DEF AsrSlotsOK
<1>20. AsrExtractOK(p)'
  <2>1. extracted' = <<>> /\ extraction_counter' = 0
    BY <1>1, <1>2, <1>6 DEF AsrExtractOK
  <2>2. \A u \in AsrThread : apc'[u] # "extract"
    BY <1>8, <1>9 DEF AsrInside
  <2> QED
    BY <1>10, <2>1, <2>2 DEF AsrExtractOK
<1>21. AsrSplitOK(p)'
  <2>1. \A u \in AsrThread : apc'[u] # "held"
    BY <1>8, <1>9 DEF AsrInside
  <2>2. ~(cas_counter'.n > CAPACITY)
    BY <1>4, <1>7
  <2> QED
    BY <1>8, <2>1, <2>2 DEF AsrSplitOK
<1>22. AsrInvAt(p)'
  BY <1>11, <1>13, <1>14, <1>15, <1>17, <1>18, <1>19, <1>20, <1>21 DEF AsrInvAt
<1> QED
  BY <1>22 DEF AsrInv

\* Along a chain of sets B[j], one for each j, the cardinalities count 1, 2, ...
AsrIsChain(S, B) ==
    /\ B \in [S -> SUBSET S]
    /\ \A j \in S : j \in B[j]
    /\ \A j, k \in S : j # k => (B[j] \subseteq B[k] /\ k \notin B[j]) \/ (B[k] \subseteq B[j] /\ j \notin B[k])
AsrCounted(S, B) ==
    /\ \A j \in S : Cardinality(B[j]) \in 1 .. Cardinality(S)
    /\ \A j, k \in S : Cardinality(B[j]) = Cardinality(B[k]) => j = k
    /\ \A i \in 1 .. Cardinality(S) : \E j \in S : Cardinality(B[j]) = i
LEMMA AsrChain ==
    ASSUME NEW S, IsFiniteSet(S), NEW B, AsrIsChain(S, B)
    PROVE  AsrCounted(S, B)
<1> DEFINE c == Cardinality(S)
<1>1. c \in Nat
  BY FS_CardinalityType
<1>2. \A j \in S : B[j] \in SUBSET S
  BY DEF AsrIsChain
<1>3. \A j \in S : IsFiniteSet(B[j]) /\ Cardinality(B[j]) <= c
  BY <1>2, FS_Subset
<1>4. \A j \in S : Cardinality(B[j]) \in Nat
  BY <1>3, FS_CardinalityType
<1>5. \A j \in S : Cardinality(B[j]) # 0
  <2>1. \A j \in S : B[j] # {}
    BY DEF AsrIsChain
  <2> QED
    BY <1>3, <2>1, FS_EmptySet
<1>6. \A j \in S : Cardinality(B[j]) \in 1 .. c
  <2> HIDE DEF c
  <2> QED
    BY <1>1, <1>3, <1>4, <1>5
<1>7. \A j, k \in S : B[j] \subseteq B[k] /\ k \notin B[j] => Cardinality(B[j]) # Cardinality(B[k])
  <2> SUFFICES ASSUME NEW j \in S, NEW k \in S, B[j] \subseteq B[k], k \notin B[j], Cardinality(B[j]) = Cardinality(B[k])
               PROVE  FALSE
    OBVIOUS
  <2>1. B[j] \in SUBSET B[k] /\ IsFiniteSet(B[k])
    BY <1>3
  <2>2. B[j] = B[k]
    BY <2>1, FS_Subset
  <2> QED
    BY <2>2 DEF AsrIsChain
<1>8. \A j, k \in S : Cardinality(B[j]) = Cardinality(B[k]) => j = k
  BY <1>7 DEF AsrIsChain
<1>9. \A i \in 1 .. c : \E j \in S : Cardinality(B[j]) = i
  <2> DEFINE f == [j \in S |-> Cardinality(B[j])]
  <2>1. f \in Injection(S, 1 .. c)
    BY <1>6, <1>8 DEF Injection, IsInjective
  <2>2. IsFiniteSet(1 .. c) /\ Cardinality(1 .. c) = c
    <3>1. IsFiniteSet(1 .. c) /\ Cardinality(1 .. c) = IF 1 > c THEN 0 ELSE c - 1 + 1
      BY <1>1, FS_Interval
    <3> HIDE DEF c
    <3> QED
      BY <1>1, <3>1
  <2>3. f \in Surjection(S, 1 .. c)
    BY <2>1, <2>2, FS_Injection
  <2> QED
    BY <2>3 DEF Surjection
<1> QED
  BY <1>6, <1>8, <1>9 DEF AsrCounted

\* The positions 1 .. n are finitely many, n of them.
LEMMA AsrPositions ==
    ASSUME NEW n \in Nat
    PROVE  IsFiniteSet(1 .. n) /\ Cardinality(1 .. n) = n
<1>1. IsFiniteSet(1 .. n) /\ Cardinality(1 .. n) = IF 1 > n THEN 0 ELSE n - 1 + 1
  BY FS_Interval
<1> QED
  BY <1>1

\* pick(S) lists the entries at the positions S in their order: the rank of a
\* position in S is a one-to-one map onto 1 .. Cardinality(S).
AsrRank(S, j) == Cardinality({ x \in S : x <= j })
LEMMA AsrRanks ==
    ASSUME NEW n \in Nat, NEW S \in SUBSET (1 .. n)
    PROVE  /\ IsFiniteSet(S) /\ Cardinality(S) \in 0 .. n
           /\ \A j \in S : AsrRank(S, j) \in 1 .. Cardinality(S)
           /\ \A j, k \in S : AsrRank(S, j) = AsrRank(S, k) => j = k
           /\ \A i \in 1 .. Cardinality(S) : \E j \in S : AsrRank(S, j) = i
<1>1. IsFiniteSet(S) /\ Cardinality(S) <= n
  <2>1. IsFiniteSet(1 .. n) /\ Cardinality(1 .. n) = n
    BY AsrPositions
  <2> QED
    BY <2>1, FS_Subset
<1>2. Cardinality(S) \in 0 .. n
  BY <1>1, FS_CardinalityType
<1> DEFINE B == [j \in S |-> { x \in S : x <= j }]
<1>3. B \in [S -> SUBSET S]
  OBVIOUS
<1>4. \A j \in S : j \in Int
  OBVIOUS
<1>5. \A j \in S : j \in B[j]
  BY <1>4
<1>6. \A j, k \in S : j < k => B[j] \subseteq B[k] /\ k \notin B[j]
  <2> SUFFICES ASSUME NEW j \in S, NEW k \in S, j < k
               PROVE  B[j] \subseteq B[k] /\ k \notin B[j]
    OBVIOUS
  <2>1. \A x \in S : x <= j => x <= k
    BY <1>4
  <2>2. ~(k <= j)
    BY <1>4
  <2> QED
    BY <2>1, <2>2
<1>7. \A j, k \in S : j # k => j < k \/ k < j
  BY <1>4
<1>8. \A j \in S : AsrRank(S, j) = Cardinality(B[j])
  BY DEF AsrRank
<1> HIDE DEF B
<1>9. AsrIsChain(S, B)
  BY <1>3, <1>5, <1>6, <1>7 DEF AsrIsChain
<1>10. /\ \A j \in S : Cardinality(B[j]) \in 1 .. Cardinality(S)
       /\ \A j, k \in S : Cardinality(B[j]) = Cardinality(B[k]) => j = k
       /\ \A i \in 1 .. Cardinality(S) : \E j \in S : Cardinality(B[j]) = i
  <2>1. AsrCounted(S, B)
    BY <1>1, <1>9, AsrChain
  <2> QED
    BY <2>1 DEF AsrCounted
<1> QED
  BY <1>1, <1>2, <1>8, <1>10

\* The entries at the positions S, in the order of the positions.
AsrPick(S) == [i \in 1 .. Cardinality(S) |-> AsrPresent[CHOOSE j \in S : Cardinality({ x \in S : x <= j }) = i]]
LEMMA AsrPicks ==
    ASSUME NEW n \in Nat, NEW S \in SUBSET (1 .. n)
    PROVE  /\ Len(AsrPick(S)) = Cardinality(S) /\ Cardinality(S) \in 0 .. n
           /\ \A i \in 1 .. Cardinality(S) :
                \E j \in S : AsrPick(S)[i] = AsrPresent[j] /\ AsrRank(S, j) = i
           /\ \A j \in S : \E i \in 1 .. Cardinality(S) : AsrPick(S)[i] = AsrPresent[j]
<1> DEFINE c == Cardinality(S)
<1> DEFINE at(i) == CHOOSE j \in S : AsrRank(S, j) = i
<1>1. /\ c \in 0 .. n
      /\ \A j \in S : AsrRank(S, j) \in 1 .. c
      /\ \A j, k \in S : AsrRank(S, j) = AsrRank(S, k) => j = k
      /\ \A i \in 1 .. c : \E j \in S : AsrRank(S, j) = i
  BY AsrRanks
<1>2. AsrPick(S) = [i \in 1 .. c |-> AsrPresent[at(i)]]
  BY DEF AsrPick, AsrRank
<1>3. \A i \in 1 .. c : at(i) \in S /\ AsrRank(S, at(i)) = i
  BY <1>1
<1> HIDE DEF at, c
<1>4. c \in Nat
  BY <1>1
<1>5. Len(AsrPick(S)) = c
  BY <1>2, <1>4
<1>6. \A i \in 1 .. c : AsrPick(S)[i] = AsrPresent[at(i)]
  BY <1>2
<1>7. \A i \in 1 .. c : \E j \in S : AsrPick(S)[i] = AsrPresent[j] /\ AsrRank(S, j) = i
  BY <1>3, <1>6
<1>8. \A j \in S : \E i \in 1 .. c : AsrPick(S)[i] = AsrPresent[j]
  <2> SUFFICES ASSUME NEW j \in S
               PROVE  \E i \in 1 .. c : AsrPick(S)[i] = AsrPresent[j]
    OBVIOUS
  <2>1. AsrRank(S, j) \in 1 .. c
    BY <1>1
  <2>2. at(AsrRank(S, j)) = j
    BY <1>1, <1>3, <2>1
  <2> QED
    BY <1>6, <2>1, <2>2
<1> QED
  BY <1>1, <1>5, <1>7, <1>8 DEF c

\* The entries a split shares out.
LEMMA AsrPresentEntries ==
    ASSUME NEW n \in 0 .. CAPACITY, AsrInvAt(n), NEW t \in AsrThread, apc[t] = "held", InsertionsDone
    PROVE  /\ Len(AsrPresent) = n
           /\ \A j \in 1 .. n : AsrPresent[j] = slots[j - 1]
           /\ \A j \in 1 .. n : AsrPresent[j] \in [key : Nat \ {0}, val : Nat]
           /\ \A i, j \in 1 .. n : AsrPresent[i] = AsrPresent[j] => i = j
<1>1. AsrTypeOK /\ AsrEntriesOK
  BY DEF AsrInvAt
<1>2. /\ get_valid_reservations(cas_counter) = n
      /\ \A i \in 0 .. CAPACITY - 1 : slots[i].key # ASR_EMPTY <=> i < n
  BY AsrHeldFilled
<1>3. AsrPresent = [i \in 1 .. n |-> slots[i - 1]] /\ n \in Nat /\ CAPACITY \in Nat
  BY <1>2, AsrCapacityAssumption DEF AsrPresent
<1>4. Len(AsrPresent) = n
  BY <1>3
<1>5. \A j \in 1 .. n : AsrPresent[j] = slots[j - 1]
  BY <1>3
<1>6. \A j \in 1 .. n : j - 1 \in 0 .. CAPACITY - 1 /\ j - 1 < n
  BY <1>3
<1>7. \A j \in 1 .. n : slots[j - 1] \in AsrEntry /\ slots[j - 1].key # ASR_EMPTY
  BY <1>1, <1>2, <1>6 DEF AsrTypeOK, AsrSlotArray
<1>8. \A j \in 1 .. n : slots[j - 1] \in [key : Nat \ {0}, val : Nat]
  <2> SUFFICES ASSUME NEW j \in 1 .. n
               PROVE  slots[j - 1] \in [key : Nat \ {0}, val : Nat]
    OBVIOUS
  <2> DEFINE e == slots[j - 1]
  <2>1. e \in AsrEntry /\ e.key # 0
    BY <1>7 DEF ASR_EMPTY
  <2> HIDE DEF e
  <2>2. e \in [key : Nat \ {0}, val : Nat]
    BY <2>1 DEF AsrEntry
  <2> QED
    BY <2>2 DEF e
<1>9. \A i, j \in 1 .. n : slots[i - 1] = slots[j - 1] => i = j
  <2> SUFFICES ASSUME NEW i \in 1 .. n, NEW j \in 1 .. n, slots[i - 1] = slots[j - 1]
               PROVE  i = j
    OBVIOUS
  <2>1. i - 1 = j - 1
    BY <1>1, <1>6, <1>7 DEF AsrEntriesOK
  <2> QED
    BY <2>1
<1> QED
  BY <1>4, <1>5, <1>8, <1>9

\* What is kept and what is taken, by positions in AsrPresent.
\* keep lists the entries at low once each; take lists those at high, and may
\* hold a tall entry, whose val is no number.
AsrKeepsAt(n, low, keep) ==
    /\ Len(keep) \in 0 .. n
    /\ \A i \in 1 .. Len(keep) : \E j \in low : keep[i] = AsrPresent[j]
    /\ \A i, j \in 1 .. Len(keep) : keep[i] = keep[j] => i = j
    /\ \A j \in low : \E i \in 1 .. Len(keep) : keep[i] = AsrPresent[j]
AsrTakesAt(high, take) ==
    /\ Len(take) \in 0 .. CAPACITY
    /\ \A i \in 1 .. Len(take) : take[i] \in [key : Nat \ {0}, val : Int]
    /\ \A i \in 1 .. Len(take) : take[i].val \in Nat => \E j \in high : take[i] = AsrPresent[j]
    /\ \A j \in high : \E i \in 1 .. Len(take) : take[i] = AsrPresent[j]
LEMMA AsrSharesBy ==
    ASSUME NEW n \in 0 .. CAPACITY, AsrInvAt(n), NEW t \in AsrThread, apc[t] = "held", InsertionsDone,
           NEW keep, NEW take, NEW low \in SUBSET (1 .. n),
           AsrKeepsAt(n, low, keep), AsrTakesAt((1 .. n) \ low, take)
    PROVE  AsrShares(n, keep, take)
<1> DEFINE P == AsrPresent
<1>1. /\ \A j \in 1 .. n : P[j] = slots[j - 1]
      /\ \A j \in 1 .. n : P[j] \in [key : Nat \ {0}, val : Nat]
      /\ \A i, j \in 1 .. n : P[i] = P[j] => i = j
  BY AsrPresentEntries
<1> HIDE DEF P
<1>2. CAPACITY \in Nat /\ n \in Nat
  BY AsrCapacityAssumption
<1>3. \A j \in 1 .. n : j - 1 \in 0 .. n - 1
  BY <1>2
<1>4. \A j \in 0 .. n - 1 : j + 1 \in 1 .. n /\ (j + 1) - 1 = j
  BY <1>2
<1>5. \A j \in 0 .. n - 1 : slots[j] = P[j + 1] /\ j + 1 \in 1 .. n
  BY <1>1, <1>4
<1>6. \A x : (\E j \in 1 .. n : x = P[j]) => (\E j \in 0 .. n - 1 : x = slots[j])
  BY <1>1, <1>3
<1>7. \A i \in 1 .. Len(keep) : \E j \in 0 .. n - 1 : keep[i] = slots[j]
  <2>1. \A i \in 1 .. Len(keep) : \E j \in 1 .. n : keep[i] = P[j]
    BY DEF P, AsrKeepsAt
  <2> QED
    BY <1>6, <2>1
<1>8. \A i \in 1 .. Len(take) : take[i].val \in Nat => \E j \in 0 .. n - 1 : take[i] = slots[j]
  BY <1>6 DEF P, AsrTakesAt
<1>9. \A j \in 0 .. n - 1 : \/ \E i \in 1 .. Len(keep) : keep[i] = slots[j]
                            \/ \E i \in 1 .. Len(take) : take[i] = slots[j]
  <2>1. \A j \in 1 .. n : \/ \E i \in 1 .. Len(keep) : keep[i] = P[j]
                          \/ \E i \in 1 .. Len(take) : take[i] = P[j]
    BY DEF P, AsrKeepsAt, AsrTakesAt
  <2> SUFFICES ASSUME NEW j \in 0 .. n - 1
               PROVE  \/ \E i \in 1 .. Len(keep) : keep[i] = slots[j]
                      \/ \E i \in 1 .. Len(take) : take[i] = slots[j]
    OBVIOUS
  <2>2. slots[j] = P[j + 1] /\ j + 1 \in 1 .. n
    BY <1>5
  <2>3. \/ \E i \in 1 .. Len(keep) : keep[i] = P[j + 1]
        \/ \E i \in 1 .. Len(take) : take[i] = P[j + 1]
    BY <2>1, <2>2
  <2> QED
    BY <2>2, <2>3
<1>10. \A i \in 1 .. Len(keep), j \in 1 .. Len(take) : keep[i] # take[j]
  <2> SUFFICES ASSUME NEW i \in 1 .. Len(keep), NEW j \in 1 .. Len(take), keep[i] = take[j]
               PROVE  FALSE
    OBVIOUS
  <2>1. PICK a \in low : keep[i] = P[a]
    BY DEF P, AsrKeepsAt
  <2>2. take[j].val \in Nat
    BY <1>1, <2>1
  <2>3. PICK b \in (1 .. n) \ low : take[j] = P[b]
    BY <2>2 DEF P, AsrTakesAt
  <2>4. P[a] = P[b] /\ a \in 1 .. n /\ b \in 1 .. n
    BY <2>1, <2>3
  <2>5. a = b
    BY <1>1, <2>4
  <2> QED
    BY <2>3, <2>5
<1> QED
  BY <1>7, <1>8, <1>9, <1>10 DEF AsrShares, AsrKeepsAt, AsrTakesAt

\* Of finitely many entries one is the last of those with the greatest key.
LEMMA AsrLastGreatest ==
    ASSUME NEW n \in Nat, n > 0, NEW s, \A i \in 1 .. n : s[i].key \in Nat
    PROVE  \E i \in 1 .. n : /\ \A j \in 1 .. n : s[j].key <= s[i].key
                             /\ \A j \in i + 1 .. n : s[j].key < s[i].key
<1> DEFINE B == [i \in 1 .. n |-> { x \in 1 .. n : s[x].key < s[i].key \/ (s[x].key = s[i].key /\ x <= i) }]
<1> DEFINE before(x, i) == s[x].key < s[i].key \/ (s[x].key = s[i].key /\ x <= i)
<1>1. B \in [1 .. n -> SUBSET (1 .. n)]
  OBVIOUS
<1>2. \A i \in 1 .. n : \A x : x \in B[i] <=> x \in 1 .. n /\ before(x, i)
  OBVIOUS
<1> HIDE DEF B
<1>3. \A i \in 1 .. n : before(i, i)
  OBVIOUS
<1>4. \A i, j \in 1 .. n : i # j => (before(i, j) /\ ~before(j, i)) \/ (before(j, i) /\ ~before(i, j))
  OBVIOUS
<1>5. \A x, i, j \in 1 .. n : before(x, i) /\ before(i, j) => before(x, j)
  OBVIOUS
<1> HIDE DEF before
<1>6. \A i, j \in 1 .. n : before(i, j) /\ ~before(j, i) => B[i] \subseteq B[j] /\ j \notin B[i]
  BY <1>2, <1>5
<1>7. AsrIsChain(1 .. n, B)
  BY <1>1, <1>2, <1>3, <1>4, <1>6 DEF AsrIsChain
<1>8. IsFiniteSet(1 .. n) /\ Cardinality(1 .. n) = n
  BY AsrPositions
<1>9. AsrCounted(1 .. n, B)
  BY <1>7, <1>8, AsrChain
<1>10. PICK i \in 1 .. n : Cardinality(B[i]) = n
  BY <1>8, <1>9 DEF AsrCounted
<1>11. B[i] = 1 .. n
  BY <1>1, <1>8, <1>10, FS_Subset
<1>12. \A j \in 1 .. n : s[j].key < s[i].key \/ (s[j].key = s[i].key /\ j <= i)
  BY <1>2, <1>11 DEF before
<1>13. \A j \in 1 .. n : s[j].key <= s[i].key
  BY <1>12
<1>14. \A j \in i + 1 .. n : s[j].key < s[i].key
  <2>1. \A j \in i + 1 .. n : j \in 1 .. n /\ ~(j <= i)
    OBVIOUS
  <2> QED
    BY <1>12, <2>1
<1> QED
  BY <1>13, <1>14

\* steal_max: the greatest entry moves and the last one closes the gap.
LEMMA StealMaxStep ==
    ASSUME NEW n \in 0 .. CAPACITY, AsrInvAt(n), NEW t \in AsrThread, StealMax(t)
    PROVE  AsrInv'
<1>1. apc[t] = "held" /\ loc[t].must /\ cas_counter.ver = 0 /\ InsertionsDone
  BY DEF StealMax
<1>2. n = FAA_CAPACITY /\ n \in Nat /\ n > 0 /\ CAPACITY \in Nat
  <2>1. \A u \in AsrThread : apc[u] # "release"
    BY <1>1, AsrHolderAlone DEF AsrHolder, AsrInside
  <2>2. AsrWillSplit(t)
    BY <1>1 DEF AsrWillSplit, AsrCrosses
  <2>3. n = FAA_CAPACITY
    BY <1>1, <2>1, <2>2 DEF AsrInvAt, AsrSplitOK
  <2> QED
    BY <2>3, FaaCapacityFits, AsrCapacityAssumption
<1>3. /\ Len(AsrPresent) = n
      /\ \A j \in 1 .. n : AsrPresent[j] \in [key : Nat \ {0}, val : Nat]
      /\ \A i, j \in 1 .. n : AsrPresent[i] = AsrPresent[j] => i = j
  BY <1>1, AsrPresentEntries
<1> DEFINE s == AsrPresent
<1> DEFINE N == Len(s)
<1> DEFINE m == CHOOSE i \in 1 .. N : /\ \A j \in 1 .. N : s[j].key <= s[i].key
                                     /\ \A j \in i + 1 .. N : s[j].key < s[i].key
<1> DEFINE keep == [i \in 1 .. N - 1 |-> IF i = m THEN s[N] ELSE s[i]]
<1> DEFINE take == <<s[m]>>
<1>4. AsrMoved(t, keep, take, 1, AsrCounter(0, FALSE, 0))
  BY DEF StealMax
<1>5. m \in 1 .. n
  <2>1. N = n /\ \A i \in 1 .. N : s[i].key \in Nat
    BY <1>3
  <2> HIDE DEF s, N
  <2>2. \E i \in 1 .. N : /\ \A j \in 1 .. N : s[j].key <= s[i].key
                         /\ \A j \in i + 1 .. N : s[j].key < s[i].key
    BY <1>2, <2>1, AsrLastGreatest
  <2>3. m \in 1 .. N
    BY <2>2
  <2> HIDE DEF m
  <2> QED
    BY <2>1, <2>3
<1>6. s = AsrPresent /\ N = n
  BY <1>3
<1> HIDE DEF s, N, m
<1>7. keep = [i \in 1 .. n - 1 |-> IF i = m THEN s[n] ELSE s[i]] /\ take = <<s[m]>>
  BY <1>6
<1> HIDE DEF keep, take
<1>10. Len(keep) = n - 1 /\ Len(take) = 1 /\ take[1] = s[m]
  BY <1>2, <1>7
<1>11. \A i \in 1 .. n - 1 : keep[i] = IF i = m THEN s[n] ELSE s[i]
  BY <1>7
<1> DEFINE low == (1 .. n) \ {m}
<1>12. low \in SUBSET (1 .. n) /\ low = (1 .. n) \ {m} /\ (1 .. n) \ low = {m}
  BY <1>5
<1> HIDE DEF low
<1>13. /\ \A i \in 1 .. n - 1 : i \in 1 .. n /\ n \in 1 .. n /\ i # n
       /\ \A j \in 1 .. n : j # n => j \in 1 .. n - 1
  BY <1>2
<1>14. \A i \in 1 .. n - 1 : \E j \in low : keep[i] = s[j] /\ (i = m => j = n) /\ (i # m => j = i)
  <2> SUFFICES ASSUME NEW i \in 1 .. n - 1
               PROVE  \E j \in low : keep[i] = s[j] /\ (i = m => j = n) /\ (i # m => j = i)
    OBVIOUS
  <2>1. CASE i = m
    BY <1>11, <1>12, <1>13, <2>1
  <2>2. CASE i # m
    BY <1>11, <1>12, <1>13, <2>2
  <2> QED
    BY <2>1, <2>2
<1>15. \A i, j \in 1 .. n - 1 : keep[i] = keep[j] => i = j
  <2> SUFFICES ASSUME NEW i \in 1 .. n - 1, NEW j \in 1 .. n - 1, keep[i] = keep[j]
               PROVE  i = j
    OBVIOUS
  <2>1. PICK a \in low : keep[i] = s[a] /\ (i = m => a = n) /\ (i # m => a = i)
    BY <1>14
  <2>2. PICK b \in low : keep[j] = s[b] /\ (j = m => b = n) /\ (j # m => b = j)
    BY <1>14
  <2>3. a = b
    <3>1. a \in 1 .. n /\ b \in 1 .. n /\ s[a] = s[b]
      BY <1>12, <2>1, <2>2
    <3> QED
      BY <1>3, <1>6, <3>1
  <2> QED
    BY <1>13, <2>1, <2>2, <2>3
<1>16. \A j \in low : \E i \in 1 .. n - 1 : keep[i] = s[j]
  <2> SUFFICES ASSUME NEW j \in low
               PROVE  \E i \in 1 .. n - 1 : keep[i] = s[j]
    OBVIOUS
  <2>1. CASE j = n
    BY <1>11, <1>12, <1>13, <2>1
  <2>2. CASE j # n
    BY <1>11, <1>12, <1>13, <2>2
  <2> QED
    BY <2>1, <2>2
<1>17. AsrShares(n, keep, take)
  <2>1. Len(keep) \in 0 .. n /\ Len(take) \in 0 .. CAPACITY
    BY <1>2, <1>10, AsrCapacityAssumption
  <2>2. \A i \in 1 .. Len(keep) : \E j \in low : keep[i] = AsrPresent[j]
    BY <1>6, <1>10, <1>14
  <2>3. \A i, j \in 1 .. Len(keep) : keep[i] = keep[j] => i = j
    BY <1>10, <1>15
  <2>4. \A j \in low : \E i \in 1 .. Len(keep) : keep[i] = AsrPresent[j]
    BY <1>6, <1>10, <1>16
  <2>5. \A i \in 1 .. Len(take) : i = 1
    BY <1>10
  <2>6. \A i \in 1 .. Len(take) : take[i] \in [key : Nat \ {0}, val : Int]
    <3> DEFINE e == s[m]
    <3>1. e \in [key : Nat \ {0}, val : Nat]
      BY <1>3, <1>5, <1>6
    <3> HIDE DEF e
    <3>2. e \in [key : Nat \ {0}, val : Int]
      BY <3>1
    <3> QED
      BY <1>10, <2>5, <3>2 DEF e
  <2>7. \A i \in 1 .. Len(take) : take[i].val \in Nat => \E j \in (1 .. n) \ low : take[i] = AsrPresent[j]
    BY <1>6, <1>10, <1>12, <2>5
  <2>8. \A j \in (1 .. n) \ low : \E i \in 1 .. Len(take) : take[i] = AsrPresent[j]
    BY <1>6, <1>10, <1>12
  <2> QED
    <3>1. AsrKeepsAt(n, low, keep) /\ AsrTakesAt((1 .. n) \ low, take)
      BY <2>1, <2>2, <2>3, <2>4, <2>6, <2>7, <2>8 DEF AsrKeepsAt, AsrTakesAt
    <3> QED
      BY <1>1, <1>12, <3>1, AsrSharesBy
<1> DEFINE z == AsrCounter(0, FALSE, 0)
<1>18. z \in AsrWord /\ z.ver = 0
  BY DEF AsrCounter, AsrWord
<1> HIDE DEF z
<1>19. /\ Len(take) = IF 1 <= FAA_CAPACITY THEN 1 ELSE z.n
       /\ 1 > FAA_CAPACITY <=> z.ver > 0
       /\ 1 \in Nat /\ AsrMoved(t, keep, take, 1, z)
  <2>1. 1 <= FAA_CAPACITY /\ ~(1 > FAA_CAPACITY) /\ ~(0 > 0)
    BY FaaCapacityFits
  <2> QED
    BY <1>4, <1>10, <1>18, <2>1 DEF z
<1> QED
  BY <1>1, <1>17, <1>18, <1>19, AsrMovedStep

\* The entries at a set of positions, in order, are each of them once.
LEMMA AsrPickKeeps ==
    ASSUME NEW n \in 0 .. CAPACITY, AsrInvAt(n), NEW t \in AsrThread, apc[t] = "held", InsertionsDone,
           NEW S \in SUBSET (1 .. n)
    PROVE  /\ AsrKeepsAt(n, S, AsrPick(S)) /\ Len(AsrPick(S)) = Cardinality(S) /\ Cardinality(S) \in 0 .. n
           /\ AsrPick(S) \in Seq([key : Nat \ {0}, val : Nat])
<1> DEFINE k == AsrPick(S)
<1> DEFINE c == Cardinality(S)
<1>1. n \in Nat
  BY AsrCapacityAssumption
<1>2. /\ Len(k) = c /\ c \in 0 .. n
      /\ \A i \in 1 .. c : \E j \in S : k[i] = AsrPresent[j] /\ AsrRank(S, j) = i
      /\ \A j \in S : \E i \in 1 .. c : k[i] = AsrPresent[j]
  BY <1>1, AsrPicks
<1>3. /\ \A j \in 1 .. n : AsrPresent[j] \in [key : Nat \ {0}, val : Nat]
      /\ \A i, j \in 1 .. n : AsrPresent[i] = AsrPresent[j] => i = j
  BY AsrPresentEntries
<1>4. \A i, j \in 1 .. c : k[i] = k[j] => i = j
  <2> SUFFICES ASSUME NEW i \in 1 .. c, NEW j \in 1 .. c, k[i] = k[j]
               PROVE  i = j
    OBVIOUS
  <2> HIDE DEF k, c
  <2>1. PICK a \in S : k[i] = AsrPresent[a] /\ AsrRank(S, a) = i
    BY <1>2
  <2>2. PICK b \in S : k[j] = AsrPresent[b] /\ AsrRank(S, b) = j
    BY <1>2
  <2>3. a \in 1 .. n /\ b \in 1 .. n /\ AsrPresent[a] = AsrPresent[b]
    BY <2>1, <2>2
  <2>4. a = b
    BY <1>3, <2>3
  <2> QED
    BY <2>1, <2>2, <2>4
<1>5. AsrKeepsAt(n, S, k)
  <2> HIDE DEF k, c
  <2> QED
    BY <1>2, <1>4 DEF AsrKeepsAt
<1>6. k \in Seq([key : Nat \ {0}, val : Nat])
  <2> DEFINE E == [key : Nat \ {0}, val : Nat]
  <2>1. \A i \in 1 .. c : k[i] \in E
    BY <1>2, <1>3
  <2>2. k = [i \in 1 .. c |-> AsrPresent[CHOOSE j \in S : Cardinality({ x \in S : x <= j }) = i]]
    BY DEF AsrPick
  <2>3. c \in Nat
    BY <1>1, <1>2
  <2> HIDE DEF k, c, E
  <2>4. k \in [1 .. c -> E]
    BY <2>1, <2>2
  <2>5. k \in Seq(E)
    BY <2>3, <2>4, SeqDef
  <2> QED
    BY <2>5 DEF E
<1> QED
  BY <1>2, <1>5, <1>6

\* The greater half fits the fetch-and-add phase of the new vector.
LEMMA AsrHalves ==
    ASSUME NEW n \in 0 .. CAPACITY
    PROVE  n - (n \div 2) \in 0 .. FAA_CAPACITY
BY AsrCapacityAssumption DEF FAA_CAPACITY

\* steal_half: the greater half moves, in any order the partition leaves.
LEMMA StealHalfStep ==
    ASSUME NEW n \in 0 .. CAPACITY, AsrInvAt(n), NEW t \in AsrThread, StealHalf(t)
    PROVE  AsrInv'
<1>1. apc[t] = "held" /\ InsertionsDone
  BY DEF StealHalf
<1>2. Len(AsrPresent) = n
  BY <1>1, AsrPresentEntries
<1>3. PICK low \in SUBSET (1 .. n) : /\ Cardinality(low) = n \div 2
        /\ AsrMoved(t, AsrPick(low), AsrPick((1 .. n) \ low), n - (n \div 2), AsrCounter(0, FALSE, 0))
  <2> DEFINE s == AsrPresent
  <2> DEFINE N == Len(s)
  <2> DEFINE half == N \div 2
  <2> DEFINE parts == { S \in SUBSET (1 .. N) : /\ Cardinality(S) = half
                                               /\ \A i \in S, j \in (1 .. N) \ S : s[i].key <= s[j].key }
  <2> DEFINE pick(S) == [i \in 1 .. Cardinality(S) |-> s[CHOOSE j \in S : Cardinality({ x \in S : x <= j }) = i]]
  <2>1. \E low \in parts : AsrMoved(t, pick(low), pick((1 .. N) \ low), N - half, AsrCounter(0, FALSE, 0))
    BY DEF StealHalf
  <2>2. N = n
    BY <1>2
  <2>3. \A S : pick(S) = AsrPick(S)
    BY DEF AsrPick
  <2> HIDE DEF pick
  <2>4. \E low \in parts : AsrMoved(t, AsrPick(low), AsrPick((1 .. N) \ low), N - half, AsrCounter(0, FALSE, 0))
    BY <2>1, <2>3
  <2>5. \A low \in parts : low \in SUBSET (1 .. N) /\ Cardinality(low) = half
    OBVIOUS
  <2>6. half = n \div 2
    BY <2>2
  <2> HIDE DEF parts, half, N
  <2> QED
    BY <2>2, <2>4, <2>5, <2>6
<1> DEFINE high == (1 .. n) \ low
<1> DEFINE keep == AsrPick(low)
<1> DEFINE take == AsrPick(high)
<1> DEFINE z == AsrCounter(0, FALSE, 0)
<1>4. AsrMoved(t, keep, take, n - (n \div 2), z)
  BY <1>3
<1>5. z \in AsrWord /\ z.ver = 0
  BY DEF AsrCounter, AsrWord
<1>6. high \in SUBSET (1 .. n) /\ (1 .. n) \ low = high
  OBVIOUS
<1>7. n \in Nat /\ CAPACITY \in Nat /\ FAA_CAPACITY \in Nat /\ FAA_CAPACITY <= CAPACITY
  BY AsrCapacityAssumption, FaaCapacityFits
<1>8. Cardinality(high) = n - (n \div 2)
  <2>1. IsFiniteSet(1 .. n) /\ Cardinality(1 .. n) = n
    BY <1>7, AsrPositions
  <2>2. Cardinality(high) = Cardinality(1 .. n) - Cardinality((1 .. n) \cap low)
    BY <2>1, FS_Difference
  <2>3. (1 .. n) \cap low = low
    OBVIOUS
  <2> QED
    BY <1>3, <2>1, <2>2, <2>3
<1> HIDE DEF high, z
<1>9. AsrKeepsAt(n, low, keep)
  BY <1>1, AsrPickKeeps
<1>10. AsrKeepsAt(n, high, take) /\ Len(take) = Cardinality(high) /\ Cardinality(high) \in 0 .. n
  BY <1>1, <1>6, AsrPickKeeps
<1> HIDE DEF keep, take
<1>11. AsrTakesAt(high, take)
  <2>1. Len(take) \in 0 .. CAPACITY
    BY <1>7, <1>10
  <2>2. \A j \in 1 .. n : AsrPresent[j] \in [key : Nat \ {0}, val : Nat]
    BY <1>1, AsrPresentEntries
  <2>3. \A x : x \in [key : Nat \ {0}, val : Nat] => x \in [key : Nat \ {0}, val : Int]
    OBVIOUS
  <2>4. \A i \in 1 .. Len(take) : \E j \in high : take[i] = AsrPresent[j]
    BY <1>10 DEF AsrKeepsAt
  <2>5. \A i \in 1 .. Len(take) : take[i] \in [key : Nat \ {0}, val : Int]
    <3>1. \A j \in high : j \in 1 .. n
      BY <1>6
    <3> QED
      BY <2>2, <2>3, <2>4, <3>1
  <2>6. \A j \in high : \E i \in 1 .. Len(take) : take[i] = AsrPresent[j]
    BY <1>10 DEF AsrKeepsAt
  <2> QED
    BY <2>1, <2>4, <2>5, <2>6 DEF AsrTakesAt
<1>12. AsrShares(n, keep, take)
  BY <1>1, <1>6, <1>9, <1>11, AsrSharesBy
<1> DEFINE h == n - (n \div 2)
<1>13. h \in Nat /\ h <= FAA_CAPACITY /\ ~(h > FAA_CAPACITY) /\ Len(take) = h
  BY <1>7, <1>8, <1>10, AsrHalves
<1>14. AsrMoved(t, keep, take, h, z)
  BY <1>4
<1> HIDE DEF h
<1>15. Len(take) = (IF h <= FAA_CAPACITY THEN h ELSE z.n) /\ (h > FAA_CAPACITY <=> z.ver > 0)
  BY <1>5, <1>13
<1> QED
  BY <1>1, <1>5, <1>12, <1>13, <1>14, <1>15, AsrMovedStep

\* split_insert with nothing above the tall entry: the new vector gets the tall
\* entry alone.
LEMMA AsrTallAlone ==
    ASSUME NEW k \in AsrKeys,
           fresh' = [NewVector EXCEPT !.slots[0] = [key |-> k, val |-> -1], !.faa = 1]
    PROVE  AsrFreshOK' /\ fresh' \in [slots : AsrFreshArray, faa : Nat, cas : AsrWord]
<1> DEFINE tall == [key |-> k, val |-> -1]
<1> DEFINE z == AsrCounter(0, FALSE, 0)
<1> DEFINE take == <<tall>>
<1> DEFINE dom == 0 .. CAPACITY - 1
<1>1. tall \in [key : Nat \ {0}, val : Int]
  BY AsrKeysAssumption
<1>2. z \in AsrWord /\ z.ver = 0
  BY DEF AsrCounter, AsrWord
<1> HIDE DEF tall
<1>3. Len(take) = 1 /\ take[1] = tall
  OBVIOUS
<1>4. PICK v : v = [NewVector EXCEPT !.slots[0] = tall, !.faa = 1]
  OBVIOUS
<1>5. v = [slots |-> [EmptyList EXCEPT ![0] = tall], faa |-> 1, cas |-> z]
  BY <1>4 DEF NewVector
<1> HIDE DEF z
<1>6. [EmptyList EXCEPT ![0] = tall] = [i \in dom |-> IF i < Len(take) THEN take[i + 1] ELSE Vacant]
  <2>1. \A i \in dom : i < 1 <=> i = 0
    BY AsrCapacityAssumption
  <2>2. 0 \in dom
    BY AsrCapacityAssumption
  <2> HIDE DEF dom, take
  <2>3. EmptyList = [i \in dom |-> Vacant]
    BY DEF EmptyList, dom
  <2>4. [EmptyList EXCEPT ![0] = tall] = [i \in dom |-> IF i = 0 THEN tall ELSE Vacant]
    BY <2>2, <2>3
  <2>5. \A i \in dom : (IF i < Len(take) THEN take[i + 1] ELSE Vacant) = IF i = 0 THEN tall ELSE Vacant
    BY <1>3, <2>1
  <2> QED
    BY <2>4, <2>5
<1>7. fresh' = v
  BY <1>4 DEF tall
<1>8. AsrGiven(take, 1, z)
  <2>1. v = [slots |-> [i \in dom |-> IF i < Len(take) THEN take[i + 1] ELSE Vacant], faa |-> 1, cas |-> z]
    BY <1>5, <1>6
  <2> HIDE DEF take
  <2> QED
    BY <1>7, <2>1 DEF AsrGiven
<1>9. \A i \in 1 .. Len(take) : take[i] \in [key : Nat \ {0}, val : Int]
  <2>1. \A i \in 1 .. Len(take) : i = 1
    BY <1>3
  <2> QED
    BY <1>1, <1>3, <2>1
<1> HIDE DEF take
<1>10. 1 <= FAA_CAPACITY /\ ~(1 > FAA_CAPACITY) /\ 1 \in 0 .. CAPACITY
  BY FaaCapacityFits, AsrCapacityAssumption
<1>11. Len(take) = (IF 1 <= FAA_CAPACITY THEN 1 ELSE z.n) /\ (1 > FAA_CAPACITY <=> z.ver > 0)
  BY <1>2, <1>3, <1>10
<1> QED
  BY <1>2, <1>3, <1>8, <1>9, <1>10, <1>11, AsrGivenFresh

\* The victim is left as it is when nothing is above the tall entry.
LEMMA AsrNothingAbove ==
    ASSUME NEW n \in 0 .. CAPACITY, AsrInvAt(n), NEW t \in AsrThread, NEW k \in AsrKeys,
           apc[t] = "held", ~loc[t].must, InsertionsDone,
           fresh' = [NewVector EXCEPT !.slots[0] = [key |-> k, val |-> -1], !.faa = 1],
           AsrGoto(t, "release"), UNCHANGED <<slots, asrCounters, loc, offered, acquisitions, asrHistory>>
    PROVE  AsrInvAt(n)'
<1>1. /\ AsrTypeOK /\ AsrLockOK /\ AsrLocalOK /\ AsrIdsOK /\ AsrEntriesOK
      /\ AsrCountOK(n) /\ AsrSlotsOK(n) /\ AsrExtractOK(n) /\ AsrSplitOK(n)
  BY DEF AsrInvAt
<1>2. /\ apc' = [apc EXCEPT ![t] = "release"] /\ loc' = loc /\ slots' = slots
      /\ faa_counter' = faa_counter /\ cas_counter' = cas_counter
      /\ elements_at_phase_change' = elements_at_phase_change /\ extraction_counter' = extraction_counter
      /\ offered' = offered /\ acquisitions' = acquisitions
      /\ placed' = placed /\ stolen' = stolen /\ extracted' = extracted
  BY DEF AsrGoto, asrCounters, asrHistory
<1>3. /\ get_valid_reservations(cas_counter) = n
      /\ \A u \in AsrThread, i \in 0 .. CAPACITY - 1 : ~AsrPends(u, i)
      /\ \A u \in AsrThread : apc[u] # "key"
  BY AsrHeldFilled
<1>4. /\ \A u \in AsrThread : u # t => apc[u] \notin AsrInside
      /\ cas_counter.lck = TRUE /\ cas_counter.ver \in Nat /\ ~AsrExtraction
  BY AsrHolderAlone DEF AsrHolder
<1>5. AsrOthers(t) /\ apc'[t] = "release" /\ apc' \in [AsrThread -> AsrPc]
  BY <1>1, <1>2 DEF AsrTypeOK, AsrPc, AsrOthers
<1>6. AsrFreshOK' /\ fresh' \in [slots : AsrFreshArray, faa : Nat, cas : AsrWord]
  BY AsrTallAlone
<1>7. AsrTypeOK'
  BY <1>1, <1>2, <1>5, <1>6 DEF AsrTypeOK
<1>8. \A u \in AsrThread : u # t => apc'[u] \notin AsrInside
  BY <1>4, <1>5 DEF AsrOthers
<1>9. ~AsrExtraction'
  BY <1>2, <1>4 DEF AsrExtraction
<1>10. AsrLocalOK' /\ AsrIdsOK'
  BY <1>1, <1>2, <1>3, <1>5, AsrMovedLocals
<1>11. AsrEntriesOK'
  BY <1>1, <1>2 DEF AsrEntriesOK, SlotEntries, AsrSlots
<1>12. AsrExtractOK(n)'
  BY <1>1, <1>2, <1>4, <1>5, AsrSameExtract
<1>13. AsrSlotsOK(n)'
  <2>1. \A u \in AsrThread, i \in 0 .. CAPACITY - 1 : ~AsrPends(u, i)'
    BY <1>2, <1>3, <1>5 DEF AsrPends, AsrInserting, AsrOthers
  <2> QED
    BY <1>1, <1>2, <1>3, <2>1 DEF AsrSlotsOK
<1>14. faa_counter' > FAA_CAPACITY /\ (cas_counter.ver = 0 => cas_counter.n <= FAA_CAPACITY /\ n <= FAA_CAPACITY)
  BY <1>1, <1>2 DEF AsrLockOK, AsrCountOK
<1>15. AsrLockOK'
  <2>1. cas_counter'.ver >= 0 /\ cas_counter'.lck = TRUE /\ AsrHolder(t)'
    BY <1>2, <1>4, <1>5 DEF AsrHolder
  <2>2. cas_counter'.ver = 0 => cas_counter'.n <= FAA_CAPACITY
    BY <1>2, <1>14
  <2> QED
    BY <1>5, <1>8, <1>9, <1>14, <2>1, <2>2, AsrLockOne
<1>16. AsrCountOK(n)'
  <2>1. get_valid_reservations(cas_counter)' = n
    BY <1>2, <1>3 DEF get_valid_reservations
  <2>2. cas_counter'.ver = 0 => n <= FAA_CAPACITY
    BY <1>2, <1>14
  <2> QED
    BY <1>5, <1>8, <1>9, <2>1, <2>2, AsrCountOne
<1>17. AsrSplitOK(n)'
  <2>1. \A u \in AsrThread : apc'[u] # "held"
    BY <1>5, <1>8 DEF AsrInside
  <2>2. ~AsrCrosses(t)
    BY DEF AsrCrosses, AsrInserting
  <2>3. \A u \in AsrThread : u # t => (AsrCrosses(u)' <=> AsrCrosses(u))
    BY <1>5 DEF AsrOthers, AsrCrosses, AsrInserting
  <2>4. cas_counter'.n > CAPACITY => \E u \in AsrThread : AsrCrosses(u)'
    BY <1>1, <1>2, <2>2, <2>3 DEF AsrSplitOK
  <2> QED
    BY <1>5, <2>1, <2>4 DEF AsrSplitOK
<1> QED
  BY <1>6, <1>7, <1>10, <1>11, <1>12, <1>13, <1>15, <1>16, <1>17 DEF AsrInvAt

\* The new vector of split_insert: the tall entry, then what was above it.
LEMMA AsrTallTakes ==
    ASSUME NEW n \in 0 .. CAPACITY, AsrInvAt(n), NEW t \in AsrThread, NEW k \in AsrKeys,
           apc[t] = "held", InsertionsDone, NEW high \in SUBSET (1 .. n), Cardinality(high) < CAPACITY
    PROVE  /\ AsrTakesAt(high, <<[key |-> k, val |-> -1]>> \o AsrPick(high))
           /\ Len(<<[key |-> k, val |-> -1]>> \o AsrPick(high)) = 1 + Cardinality(high)
           /\ Cardinality(high) \in Nat
<1> DEFINE tall == [key |-> k, val |-> -1]
<1> DEFINE E == [key : Nat \ {0}, val : Int]
<1> DEFINE p == AsrPick(high)
<1> DEFINE one == <<tall>>
<1> DEFINE take == one \o p
<1> DEFINE c == Cardinality(high)
<1>1. tall \in E /\ tall.val \notin Nat
  BY AsrKeysAssumption
<1>2. AsrKeepsAt(n, high, p) /\ Len(p) = c /\ c \in 0 .. n /\ p \in Seq([key : Nat \ {0}, val : Nat])
  BY AsrPickKeeps
<1>3. p \in Seq(E)
  <2>1. [key : Nat \ {0}, val : Nat] \subseteq E
    OBVIOUS
  <2> HIDE DEF E, p
  <2> QED
    BY <1>2, <2>1, SeqMonotonic
<1>4. c \in Nat /\ c < CAPACITY /\ CAPACITY \in Nat
  BY <1>2, AsrCapacityAssumption
<1> HIDE DEF tall, E, p, c
<1>5. one \in Seq(E) /\ Len(one) = 1 /\ one[1] = tall
  BY <1>1
<1> HIDE DEF one
<1>6. /\ Len(take) = 1 + c
      /\ \A i \in 1 .. 1 + c : take[i] = IF i <= 1 THEN one[i] ELSE p[i - 1]
      /\ take \in Seq(E)
  <2>1. /\ take \in Seq(E)
        /\ Len(take) = Len(one) + Len(p)
        /\ \A i \in 1 .. Len(one) + Len(p) : take[i] = IF i <= Len(one) THEN one[i] ELSE p[i - Len(one)]
    BY <1>3, <1>5, ConcatProperties
  <2> HIDE DEF take
  <2> QED
    BY <1>2, <1>5, <2>1
<1> HIDE DEF take
<1>7. \A i \in 1 .. 1 + c : (i = 1 /\ take[i] = tall) \/ (i - 1 \in 1 .. c /\ take[i] = p[i - 1])
  BY <1>4, <1>5, <1>6
<1>8. \A i \in 1 .. c : i + 1 \in 1 .. 1 + c /\ take[i + 1] = p[i]
  <2> SUFFICES ASSUME NEW i \in 1 .. c
               PROVE  i + 1 \in 1 .. 1 + c /\ take[i + 1] = p[i]
    OBVIOUS
  <2>1. i + 1 \in 1 .. 1 + c /\ ~(i + 1 <= 1) /\ (i + 1) - 1 = i
    BY <1>4
  <2> QED
    BY <1>6, <2>1
<1>9. \A i \in 1 .. Len(take) : take[i] \in E
  BY <1>6, ElementOfSeq
<1>10. \A i \in 1 .. Len(take) : take[i].val \in Nat => \E j \in high : take[i] = AsrPresent[j]
  <2> SUFFICES ASSUME NEW i \in 1 .. 1 + c, take[i].val \in Nat
               PROVE  \E j \in high : take[i] = AsrPresent[j]
    BY <1>6
  <2>1. i - 1 \in 1 .. c /\ take[i] = p[i - 1]
    BY <1>1, <1>7
  <2>2. \A x \in 1 .. c : \E j \in high : p[x] = AsrPresent[j]
    BY <1>2 DEF AsrKeepsAt
  <2> QED
    BY <2>1, <2>2
<1>11. \A j \in high : \E i \in 1 .. Len(take) : take[i] = AsrPresent[j]
  <2> SUFFICES ASSUME NEW j \in high
               PROVE  \E i \in 1 .. 1 + c : take[i] = AsrPresent[j]
    BY <1>6
  <2>1. PICK x \in 1 .. c : p[x] = AsrPresent[j]
    BY <1>2 DEF AsrKeepsAt
  <2> QED
    BY <1>8, <2>1
<1>12. Len(take) \in 0 .. CAPACITY
  BY <1>4, <1>6
<1>13. AsrTakesAt(high, take)
  <2>1. \A i \in 1 .. Len(take) : take[i] \in [key : Nat \ {0}, val : Int]
    BY <1>9 DEF E
  <2> QED
    BY <1>10, <1>11, <1>12, <2>1 DEF AsrTakesAt
<1> QED
  BY <1>4, <1>6, <1>13 DEF take, one, tall, p, c

\* What split_insert does, by the set of positions above the tall entry.
LEMMA SplitInsertCases ==
    ASSUME NEW n \in 0 .. CAPACITY, AsrInvAt(n), NEW t \in AsrThread, NEW k \in AsrKeys, SplitInsert(t, k)
    PROVE  /\ apc[t] = "held" /\ ~loc[t].must /\ InsertionsDone
           /\ \E high \in SUBSET (1 .. n) :
                /\ Cardinality(high) < CAPACITY
                /\ \/ /\ fresh' = [NewVector EXCEPT !.slots[0] = [key |-> k, val |-> -1], !.faa = 1]
                      /\ AsrGoto(t, "release")
                      /\ UNCHANGED <<slots, asrCounters, loc, offered, acquisitions, asrHistory>>
                   \/ /\ 1 + Cardinality(high) <= FAA_CAPACITY
                      /\ AsrMoved(t, AsrPick((1 .. n) \ high), <<[key |-> k, val |-> -1]>> \o AsrPick(high),
                                  1 + Cardinality(high), AsrCounter(0, FALSE, 0))
                   \/ /\ ~(1 + Cardinality(high) <= FAA_CAPACITY)
                      /\ AsrMoved(t, AsrPick((1 .. n) \ high), <<[key |-> k, val |-> -1]>> \o AsrPick(high),
                                  FAA_CAPACITY + 1, AsrCounter(1, FALSE, 1 + Cardinality(high)))
<1> DEFINE s == AsrPresent
<1> DEFINE N == Len(s)
<1> DEFINE tall == [key |-> k, val |-> -1]
<1> DEFINE above == { i \in 1 .. N : s[i].key > k }
<1> DEFINE below == (1 .. N) \ above
<1> DEFINE pick(S) == [i \in 1 .. Cardinality(S) |-> s[CHOOSE j \in S : Cardinality({ x \in S : x <= j }) = i]]
<1> DEFINE size == 1 + Cardinality(above)
<1>1. apc[t] = "held" /\ ~loc[t].must /\ InsertionsDone /\ Cardinality(above) < CAPACITY
  BY DEF SplitInsert
<1>2. \/ /\ fresh' = [NewVector EXCEPT !.slots[0] = tall, !.faa = 1]
         /\ AsrGoto(t, "release")
         /\ UNCHANGED <<slots, asrCounters, loc, offered, acquisitions, asrHistory>>
      \/ /\ size <= FAA_CAPACITY
         /\ AsrMoved(t, pick(below), <<tall>> \o pick(above), size, AsrCounter(0, FALSE, 0))
      \/ /\ ~(size <= FAA_CAPACITY)
         /\ AsrMoved(t, pick(below), <<tall>> \o pick(above), FAA_CAPACITY + 1, AsrCounter(1, FALSE, size))
  BY DEF SplitInsert
<1>3. N = n
  BY <1>1, AsrPresentEntries
<1>4. \A S : pick(S) = AsrPick(S)
  BY DEF AsrPick
<1>5. above \in SUBSET (1 .. n) /\ below = (1 .. n) \ above
  BY <1>3
<1> HIDE DEF pick, above, below, N, s
<1>6. pick(below) = AsrPick((1 .. n) \ above) /\ pick(above) = AsrPick(above)
  BY <1>4, <1>5
<1> QED
  BY <1>1, <1>2, <1>5, <1>6

\* split_insert: the tall entry and what is above it make a new vector.
LEMMA SplitInsertStep ==
    ASSUME NEW n \in 0 .. CAPACITY, AsrInvAt(n), NEW t \in AsrThread, NEW k \in AsrKeys, SplitInsert(t, k)
    PROVE  AsrInv'
<1> DEFINE tall == [key |-> k, val |-> -1]
<1> DEFINE alone == /\ fresh' = [NewVector EXCEPT !.slots[0] = tall, !.faa = 1]
                    /\ AsrGoto(t, "release")
                    /\ UNCHANGED <<slots, asrCounters, loc, offered, acquisitions, asrHistory>>
<1>1. apc[t] = "held" /\ ~loc[t].must /\ InsertionsDone
  BY SplitInsertCases
<1>2. PICK high \in SUBSET (1 .. n) :
        /\ Cardinality(high) < CAPACITY
        /\ \/ alone
           \/ /\ 1 + Cardinality(high) <= FAA_CAPACITY
              /\ AsrMoved(t, AsrPick((1 .. n) \ high), <<tall>> \o AsrPick(high),
                          1 + Cardinality(high), AsrCounter(0, FALSE, 0))
           \/ /\ ~(1 + Cardinality(high) <= FAA_CAPACITY)
              /\ AsrMoved(t, AsrPick((1 .. n) \ high), <<tall>> \o AsrPick(high),
                          FAA_CAPACITY + 1, AsrCounter(1, FALSE, 1 + Cardinality(high)))
  BY SplitInsertCases
<1>3. CASE alone
  <2>1. AsrInvAt(n)'
    BY <1>1, <1>3, AsrNothingAbove
  <2> QED
    BY <2>1 DEF AsrInv
<1> HIDE DEF alone
<1> DEFINE low == (1 .. n) \ high
<1> DEFINE keep == AsrPick(low)
<1> DEFINE take == <<tall>> \o AsrPick(high)
<1> DEFINE size == 1 + Cardinality(high)
<1>4. low \in SUBSET (1 .. n) /\ (1 .. n) \ low = high
  OBVIOUS
<1>5. AsrTakesAt(high, take) /\ Len(take) = size /\ size \in Nat
  BY <1>1, <1>2, AsrTallTakes
<1> HIDE DEF low, take
<1>6. AsrKeepsAt(n, low, keep)
  BY <1>1, <1>4, AsrPickKeeps
<1> HIDE DEF keep, size
<1>7. AsrShares(n, keep, take)
  BY <1>1, <1>4, <1>5, <1>6, AsrSharesBy
<1>8. CASE size <= FAA_CAPACITY /\ AsrMoved(t, keep, take, size, AsrCounter(0, FALSE, 0))
  <2> DEFINE z == AsrCounter(0, FALSE, 0)
  <2>1. z \in AsrWord /\ z.ver = 0
    BY DEF AsrCounter, AsrWord
  <2> HIDE DEF z
  <2>2. Len(take) = (IF size <= FAA_CAPACITY THEN size ELSE z.n) /\ (size > FAA_CAPACITY <=> z.ver > 0)
    BY <1>5, <1>8, <2>1, FaaCapacityFits
  <2>3. AsrMoved(t, keep, take, size, z)
    BY <1>8 DEF z
  <2> QED
    BY <1>1, <1>5, <1>7, <2>1, <2>2, <2>3, AsrMovedStep
<1>9. CASE AsrMoved(t, keep, take, FAA_CAPACITY + 1, AsrCounter(1, FALSE, size))
  <2> DEFINE z == AsrCounter(1, FALSE, size)
  <2> DEFINE f == FAA_CAPACITY + 1
  <2>1. z \in AsrWord /\ z.ver = 1 /\ z.n = size
    BY <1>5 DEF AsrCounter, AsrWord
  <2>2. f \in Nat /\ ~(f <= FAA_CAPACITY) /\ f > FAA_CAPACITY
    BY FaaCapacityFits
  <2>3. AsrMoved(t, keep, take, f, z)
    BY <1>9
  <2> HIDE DEF z, f
  <2>4. Len(take) = (IF f <= FAA_CAPACITY THEN f ELSE z.n) /\ (f > FAA_CAPACITY <=> z.ver > 0)
    BY <1>5, <2>1, <2>2
  <2> QED
    BY <1>1, <1>7, <2>1, <2>2, <2>3, <2>4, AsrMovedStep
<1> QED
  BY <1>2, <1>3, <1>8, <1>9 DEF low, keep, take, size

-----------------------------------------------------------------------------
\* An empty vector in the fetch-and-add phase has no slot reserved.
LEMMA AsrInitially == AsrInit => AsrInv
<1> SUFFICES ASSUME AsrInit
             PROVE  AsrInv
  OBVIOUS
<1> DEFINE z == AsrCounter(0, FALSE, 0)
<1>1. z \in AsrWord /\ z.ver = 0 /\ z.lck = FALSE /\ z.n = 0
  BY DEF AsrCounter, AsrWord
<1>2. /\ slots = EmptyList /\ faa_counter = 0 /\ cas_counter = z /\ elements_at_phase_change = 0
      /\ extraction_counter = 0 /\ fresh = NewVector /\ offered = 0 /\ acquisitions = 0
      /\ placed = {} /\ stolen = {} /\ extracted = <<>>
      /\ apc = [t \in AsrThread |-> "idle"] /\ loc = [t \in AsrThread |-> AsrIdle]
  BY DEF AsrInit
<1> HIDE DEF z
<1>3. CAPACITY \in Nat /\ FAA_CAPACITY \in Nat /\ 0 <= FAA_CAPACITY /\ 0 \in 0 .. CAPACITY
  BY AsrCapacityAssumption, FaaCapacityFits
<1>4. /\ EmptyList \in AsrSlotArray /\ EmptyList \in AsrFreshArray
      /\ \A i \in 0 .. CAPACITY - 1 : EmptyList[i].key = ASR_EMPTY
      /\ AsrSlots(EmptyList) = {}
  BY DEF EmptyList, Vacant, ASR_EMPTY, AsrSlotArray, AsrFreshArray, AsrEntry, AsrSlots
<1>5. NewVector = [slots |-> EmptyList, faa |-> 0, cas |-> z]
  BY DEF NewVector, z
<1>6. AsrTypeOK
  <2>1. AsrIdle \in AsrLocal
    BY AsrIdleType
  <2>2. fresh \in [slots : AsrFreshArray, faa : Nat, cas : AsrWord]
    BY <1>1, <1>2, <1>4, <1>5
  <2>3. apc \in [AsrThread -> AsrPc] /\ loc \in [AsrThread -> AsrLocal]
    BY <1>2, <2>1 DEF AsrPc
  <2> QED
    BY <1>1, <1>2, <1>4, <2>2, <2>3 DEF AsrTypeOK
<1>7. /\ \A t \in AsrThread : apc[t] = "idle" /\ loc[t] = AsrIdle
      /\ \A t \in AsrThread : ~AsrHolder(t) /\ ~AsrInserting(t) /\ ~AsrBusy(t)
      /\ ~AsrExtraction /\ cas_counter.ver = 0 /\ cas_counter.n = 0 /\ cas_counter.lck = FALSE
  BY <1>1, <1>2 DEF AsrHolder, AsrInserting, AsrBusy, AsrExtraction
<1>8. AsrLockOK /\ AsrLocalOK
  BY <1>3, <1>7, AsrIdleType DEF AsrLockOK, AsrLocalOK
<1>9. AsrIdsOK /\ AsrEntriesOK
  BY <1>2, <1>4, <1>7 DEF AsrIdsOK, AsrEntriesOK, AsrHasId, SlotEntries
<1>10. AsrFreshOK
  <2>1. fresh.slots = EmptyList /\ fresh.faa = 0 /\ fresh.cas = z
    BY <1>2, <1>5
  <2>2. 0 .. 0 - 1 = {}
    OBVIOUS
  <2> QED
    BY <1>1, <1>3, <1>4, <2>1, <2>2 DEF AsrFreshOK, verify_locked
<1>11. AsrCountOK(0)
  BY <1>2, <1>3, <1>7 DEF AsrCountOK
<1>12. AsrSlotsOK(0)
  BY <1>2, <1>4, <1>7 DEF AsrSlotsOK, AsrPends
<1>13. AsrExtractOK(0)
  BY <1>2, <1>7 DEF AsrExtractOK
<1>14. AsrSplitOK(0)
  BY <1>2, <1>3, <1>7 DEF AsrSplitOK, AsrWillSplit, AsrCrosses
<1>15. AsrInvAt(0)
  BY <1>6, <1>8, <1>9, <1>10, <1>11, <1>12, <1>13, <1>14 DEF AsrInvAt
<1> QED
  BY <1>3, <1>15 DEF AsrInv

\* The fetch-and-add of reserve_for_insertion, inside the FAA slots and past them.
LEMMA ReserveFaaStep ==
    ASSUME NEW n \in 0 .. CAPACITY, AsrInvAt(n), NEW t \in AsrThread,
           NEW elts \in 1 .. 2, NEW ver \in {-1, cas_counter.ver}, NEW k \in AsrKeys, ReserveFaa(t, elts, ver, k)
    PROVE  AsrInv'
<1>1. ver \in Int
  BY DEF AsrInvAt, AsrTypeOK, AsrWord
<1>2. CASE faa_counter < FAA_CAPACITY
  BY <1>1, <1>2, ReserveFaaFast
<1>3. CASE ~(faa_counter < FAA_CAPACITY)
  <2>1. AsrInvAt(n)'
    BY <1>1, <1>3, ReserveFaaSlow
  <2> QED
    BY <2>1 DEF AsrInv
<1> QED
  BY <1>2, <1>3

\* Every step preserves the invariant: one case for each action.
LEMMA AsrNextStep ==
    ASSUME AsrInv, AsrPhaseOK, AsrNext
    PROVE  AsrInv'
<1>1. PICK n \in 0 .. CAPACITY : AsrInvAt(n)
  BY DEF AsrInv
<1>2. AsrInvAt(n)' => AsrInv'
  BY DEF AsrInv
<1>3. PICK t \in AsrThread :
        \/ \E elts \in 1 .. 2, ver \in {-1, cas_counter.ver}, k \in AsrKeys : ReserveFaa(t, elts, ver, k)
        \/ ReserveCas(t) \/ WriteValue(t) \/ WriteKey(t) \/ FinishInsert(t)
        \/ AcquireForSplit(t) \/ AsrAcquire(t) \/ CloseFaa(t) \/ PublishCas(t)
        \/ AsrRelease(t) \/ ReleaseUnchanged(t) \/ Rollback(t)
        \/ StealMax(t) \/ StealHalf(t) \/ \E k \in AsrKeys : SplitInsert(t, k)
        \/ AsrDie(t) \/ AsrDied(t) \/ ReserveExtraction(t) \/ AsrExtract(t)
  BY DEF AsrNext
<1>4. CASE \E elts \in 1 .. 2, ver \in {-1, cas_counter.ver}, k \in AsrKeys : ReserveFaa(t, elts, ver, k)
  BY <1>1, <1>4, ReserveFaaStep
<1>5. CASE ReserveCas(t)
  BY <1>1, <1>5, ReserveCasStep
<1>6. CASE WriteValue(t)
  BY <1>1, <1>2, <1>6, WriteValueStep
<1>7. CASE WriteKey(t)
  BY <1>1, <1>2, <1>7, WriteKeyStep
<1>8. CASE FinishInsert(t)
  BY <1>1, <1>2, <1>8, FinishInsertStep
<1>9. CASE AcquireForSplit(t)
  BY <1>1, <1>2, <1>9, AcquireForSplitStep
<1>10. CASE AsrAcquire(t)
  BY <1>1, <1>2, <1>10, AsrAcquireStep
<1>11. CASE CloseFaa(t)
  BY <1>1, <1>2, <1>11, CloseFaaStep
<1>12. CASE PublishCas(t)
  BY <1>1, <1>2, <1>12, PublishCasStep
<1>13. CASE AsrRelease(t)
  BY <1>1, <1>2, <1>13, AsrReleaseStep
<1>14. CASE ReleaseUnchanged(t)
  <2>1. CASE cas_counter.ver >= 1
    BY <1>1, <1>2, <1>14, <2>1, ReleaseUnchangedCas
  <2>2. CASE ~(cas_counter.ver >= 1)
    BY <1>1, <1>2, <1>14, <2>2, ReleaseUnchangedFaa
  <2> QED
    BY <2>1, <2>2
<1>15. CASE Rollback(t)
  BY <1>1, <1>2, <1>15, RollbackStep
<1>16. CASE StealMax(t)
  BY <1>1, <1>16, StealMaxStep
<1>17. CASE StealHalf(t)
  BY <1>1, <1>17, StealHalfStep
<1>18. CASE \E k \in AsrKeys : SplitInsert(t, k)
  BY <1>1, <1>18, SplitInsertStep
<1>19. CASE AsrDie(t)
  BY <1>1, <1>2, <1>19, AsrDieStep
<1>20. CASE AsrDied(t)
  BY <1>1, <1>2, <1>20, AsrDiedStep
<1>21. CASE ReserveExtraction(t)
  BY <1>1, <1>2, <1>21, ReserveExtractionStep
<1>22. CASE AsrExtract(t)
  BY <1>1, <1>2, <1>22, AsrExtractStep
<1> QED
  BY <1>3, <1>4, <1>5, <1>6, <1>7, <1>8, <1>9, <1>10, <1>11, <1>12, <1>13, <1>14, <1>15, <1>16, <1>17,
     <1>18, <1>19, <1>20, <1>21, <1>22

\* So does a step of the rest of the program.
LEMMA AsrStutters ==
    ASSUME AsrInv, UNCHANGED asrVars
    PROVE  AsrInv'
<1>1. PICK n \in 0 .. CAPACITY : AsrInvAt(n)
  BY DEF AsrInv
<1>2. /\ slots' = slots /\ faa_counter' = faa_counter /\ cas_counter' = cas_counter
      /\ elements_at_phase_change' = elements_at_phase_change /\ extraction_counter' = extraction_counter
      /\ fresh' = fresh /\ apc' = apc /\ loc' = loc /\ offered' = offered /\ acquisitions' = acquisitions
      /\ placed' = placed /\ stolen' = stolen /\ extracted' = extracted
  BY DEF asrVars
<1>3. AsrTypeOK' /\ AsrLockOK' /\ AsrLocalOK'
  BY <1>1, <1>2 DEF AsrInvAt, AsrTypeOK, AsrLockOK, AsrLocalOK, AsrHolder, AsrExtraction, AsrBusy, AsrInserting
<1>4. AsrIdsOK' /\ AsrEntriesOK' /\ AsrFreshOK'
  BY <1>1, <1>2 DEF AsrInvAt, AsrIdsOK, AsrEntriesOK, AsrFreshOK, AsrHasId, AsrBusy, SlotEntries, AsrSlots,
                    verify_locked
<1>5. AsrCountOK(n)' /\ AsrSlotsOK(n)' /\ AsrExtractOK(n)' /\ AsrSplitOK(n)'
  <2>1. AsrCountOK(n) /\ AsrSlotsOK(n) /\ AsrExtractOK(n) /\ AsrSplitOK(n)
    BY <1>1 DEF AsrInvAt
  <2>2. AsrCountOK(n)'
    BY <1>2, <2>1 DEF AsrCountOK, AsrExtraction, get_valid_reservations
  <2>3. AsrSlotsOK(n)'
    BY <1>2, <2>1 DEF AsrSlotsOK, AsrPends, AsrInserting
  <2>4. AsrExtractOK(n)'
    BY <1>2, <2>1 DEF AsrExtractOK, AsrExtraction
  <2>5. AsrSplitOK(n)'
    BY <1>2, <2>1 DEF AsrSplitOK, AsrWillSplit, AsrCrosses, AsrInserting
  <2> QED
    BY <2>2, <2>3, <2>4, <2>5
<1>6. AsrInvAt(n)'
  BY <1>3, <1>4, <1>5 DEF AsrInvAt
<1> QED
  BY <1>6 DEF AsrInv

\* Once the number of elements is there, the phase does not change again.
LEMMA AsrPhaseStep ==
    ASSUME AsrInv, AsrPhaseOK, [AsrNext]_asrVars
    PROVE  AsrPhaseOK'
<1>1. PICK n \in 0 .. CAPACITY : AsrInvAt(n)
  BY DEF AsrInv
<1>2. AsrTypeOK /\ AsrLockOK /\ apc \in [AsrThread -> AsrPc]
  BY <1>1 DEF AsrInvAt, AsrTypeOK
<1>3. ASSUME NEW t \in AsrThread, AsrDied(t)
      PROVE  AsrPhaseOK'
  <2>1. apc[t] = "dying" /\ apc' = [apc EXCEPT ![t] = "idle"] /\ cas_counter' = cas_counter
    BY <1>3 DEF AsrDied, AsrReturn
  <2>2. AsrExtraction /\ \A u \in AsrThread : apc[u] = "dying" => u = t
    BY <1>2, <2>1 DEF AsrLockOK
  <2> QED
    BY <1>2, <2>1, <2>2 DEF AsrPhaseOK, AsrExtraction
<1>4. ASSUME elements_at_phase_change' = elements_at_phase_change,
             AsrExtraction => cas_counter' = cas_counter,
             AsrExtraction => \A u \in AsrThread : apc'[u] = "dying" => apc[u] = "dying"
      PROVE  AsrPhaseOK'
  BY <1>4 DEF AsrPhaseOK, AsrExtraction
<1>5. CASE UNCHANGED asrVars
  BY <1>4, <1>5 DEF asrVars
<1>6. ASSUME NEW t \in AsrThread,
             \/ \E elts \in 1 .. 2, ver \in {-1, cas_counter.ver}, k \in AsrKeys : ReserveFaa(t, elts, ver, k)
             \/ WriteValue(t) \/ WriteKey(t) \/ FinishInsert(t) \/ ReserveExtraction(t) \/ AsrExtract(t)
      PROVE  AsrPhaseOK'
  <2>1. /\ cas_counter' = cas_counter /\ elements_at_phase_change' = elements_at_phase_change
        /\ \/ apc' = apc
           \/ \E p \in {"idle", "reserve", "value", "key", "split", "extract"} : apc' = [apc EXCEPT ![t] = p]
    BY <1>6 DEF ReserveFaa, WriteValue, WriteKey, FinishInsert, ReserveExtraction, AsrExtract, AsrGoto, AsrReturn,
                asrCounters
  <2> QED
    BY <1>2, <1>4, <2>1
<1>7. ASSUME NEW t \in AsrThread, ReserveCas(t) \/ AcquireForSplit(t) \/ AsrAcquire(t)
      PROVE  AsrPhaseOK'
  <2>1. elements_at_phase_change' = elements_at_phase_change
    BY <1>7 DEF ReserveCas, AcquireForSplit, AsrAcquire
  <2>2. ASSUME AsrExtraction
        PROVE  cas_counter' = cas_counter /\ apc' = [apc EXCEPT ![t] = "idle"]
    <3>1. get_state(cas_counter) = "EXTRACTION"
      BY <1>2, <2>2, AsrStates
    <3> QED
      BY <1>7, <3>1 DEF ReserveCas, AcquireForSplit, AsrAcquire, AsrReturn, is_insertion_state
  <2> QED
    BY <1>2, <1>4, <2>1, <2>2
<1>8. ASSUME NEW t \in AsrThread,
             \/ CloseFaa(t) \/ PublishCas(t) \/ AsrRelease(t) \/ ReleaseUnchanged(t) \/ Rollback(t)
             \/ StealMax(t) \/ StealHalf(t) \/ (\E k \in AsrKeys : SplitInsert(t, k)) \/ AsrDie(t)
      PROVE  AsrPhaseOK'
  <2>1. elements_at_phase_change' = elements_at_phase_change
    BY <1>8 DEF CloseFaa, PublishCas, AsrRelease, ReleaseUnchanged, Rollback, StealMax, StealHalf, SplitInsert,
                AsrDie, AsrMoved, asrCounters
  <2>2. AsrHolder(t)
    BY <1>8 DEF CloseFaa, PublishCas, AsrRelease, ReleaseUnchanged, Rollback, StealMax, StealHalf, SplitInsert,
                AsrDie, AsrHolder
  <2>3. ~AsrExtraction
    BY <1>1, <2>2, AsrHolderAlone
  <2> QED
    BY <1>4, <2>1, <2>3
<1> QED
  BY <1>3, <1>5, <1>6, <1>7, <1>8 DEF AsrNext

\* The reserved slots are always the ones the counters name: the inductive
\* invariant behind the three theorems below.
THEOREM AsrInvariant == AsrSpec => []AsrInv
<1>1. AsrInit => AsrInv /\ AsrPhaseOK
  BY AsrInitially DEF AsrInit, AsrPhaseOK
<1>2. AsrInv /\ AsrPhaseOK /\ [AsrNext]_asrVars => AsrInv' /\ AsrPhaseOK'
  BY AsrNextStep, AsrStutters, AsrPhaseStep
<1> QED
  BY <1>1, <1>2, PTL DEF AsrSpec

\* Entries have distinct numbers, so there are as many as there are filled slots.
LEMMA AsrEntriesCounted ==
    ASSUME AsrTypeOK, AsrEntriesOK
    PROVE  Cardinality(SlotEntries(slots)) = Cardinality(AsrSlots(slots))
<1> DEFINE S == AsrSlots(slots)
<1> DEFINE T == SlotEntries(slots)
<1> DEFINE f == [i \in S |-> slots[i]]
<1>1. S \subseteq 0 .. CAPACITY - 1 /\ \A i \in S : slots[i].key # ASR_EMPTY
  BY DEF AsrTypeOK, AsrSlotArray, AsrSlots
<1>2. T = { slots[i] : i \in S }
  BY DEF SlotEntries
<1>3. \A i, j \in S : slots[i] = slots[j] => i = j
  BY <1>1 DEF AsrEntriesOK
<1> HIDE DEF S, T
<1>4. IsFiniteSet(S)
  <2>1. IsFiniteSet(0 .. CAPACITY - 1)
    BY AsrCapacityAssumption, FS_Interval
  <2> QED
    BY <1>1, <2>1, FS_Subset
<1>5. f \in [S -> T] /\ \A i, j \in S : f[i] = f[j] => i = j
  BY <1>2, <1>3
<1>6. \A e \in T : \E i \in S : f[i] = e
  BY <1>2
<1>7. DOMAIN f = S
  OBVIOUS
<1> HIDE DEF f
<1>8. f \in Bijection(S, T)
  BY <1>5, <1>6, <1>7 DEF Bijection, Injection, Surjection, IsInjective
<1>9. ExistsBijection(S, T)
  BY <1>8 DEF ExistsBijection
<1> QED
  BY <1>4, <1>9, FS_Bijection DEF S, T

\* What the invariant says of the entries is NoEntryLost.
LEMMA AsrInvNoEntryLost == AsrInv => NoEntryLost
<1> SUFFICES ASSUME NEW n \in 0 .. CAPACITY, AsrInvAt(n)
             PROVE  NoEntryLost
  BY DEF AsrInv
<1>1. AsrTypeOK /\ AsrEntriesOK /\ AsrExtractOK(n)
  BY DEF AsrInvAt
<1>2. placed = SlotEntries(slots) \cup stolen
  BY <1>1 DEF AsrEntriesOK
<1>3. \A e \in SlotEntries(slots) : \E i \in 0 .. CAPACITY - 1 : slots[i].key # ASR_EMPTY /\ slots[i] = e
  BY <1>1 DEF AsrTypeOK, AsrSlotArray, SlotEntries, AsrSlots
<1>4. SlotEntries(slots) \cap stolen = {}
  BY <1>1, <1>3 DEF AsrEntriesOK
<1>5. \A m \in 1 .. Len(extracted) : extracted[m] \in placed
  <2> SUFFICES ASSUME NEW m \in 1 .. Len(extracted)
               PROVE  extracted[m] \in placed
    OBVIOUS
  <2>1. PICK i \in 0 .. CAPACITY - 1 : slots[i].key # ASR_EMPTY /\ slots[i] = extracted[m]
    BY <1>1 DEF AsrExtractOK
  <2>2. i \in DOMAIN slots
    BY <1>1 DEF AsrTypeOK, AsrSlotArray
  <2> QED
    BY <1>2, <2>1, <2>2 DEF SlotEntries, AsrSlots
<1>6. \A m, k \in 1 .. Len(extracted) : extracted[m] = extracted[k] => m = k
  BY <1>1 DEF AsrExtractOK
<1> QED
  BY <1>1, <1>2, <1>4, <1>5, <1>6, AsrEntriesCounted DEF NoEntryLost

\* With no thread inside an insertion exactly the slots below n are filled.
LEMMA AsrQuiescentSlots ==
    ASSUME NEW n \in 0 .. CAPACITY, AsrInvAt(n), \A t \in AsrThread : apc[t] = "idle"
    PROVE  AsrSlots(slots) = 0 .. n - 1
<1>1. AsrTypeOK /\ AsrSlotsOK(n)
  BY DEF AsrInvAt
<1>2. \A t \in AsrThread, i \in 0 .. CAPACITY - 1 : ~AsrPends(t, i)
  BY DEF AsrPends, AsrInserting
<1>3. n \in Nat /\ n <= CAPACITY /\ CAPACITY \in Nat
  BY AsrCapacityAssumption
<1>4. \A i \in 0 .. CAPACITY - 1 : i < n \/ i >= n
  BY <1>3
<1>5. \A i \in 0 .. CAPACITY - 1 : slots[i].key # ASR_EMPTY <=> i < n
  <2>1. \A i \in 0 .. CAPACITY - 1 : i < n => ~(i >= n)
    BY <1>3
  <2> QED
    BY <1>1, <1>2, <1>4, <2>1 DEF AsrSlotsOK
<1>6. \A i : i \in 0 .. n - 1 <=> i \in 0 .. CAPACITY - 1 /\ i < n
  BY <1>3
<1>7. DOMAIN slots = 0 .. CAPACITY - 1
  BY <1>1 DEF AsrTypeOK, AsrSlotArray
<1> QED
  BY <1>5, <1>6, <1>7 DEF AsrSlots

\* With every thread outside, the count the invariant names is size().
LEMMA AsrInvReservedSlotsFilled == AsrInv => ReservedSlotsFilled
<1> SUFFICES ASSUME NEW n \in 0 .. CAPACITY, AsrInvAt(n)
             PROVE  ReservedSlotsFilled
  BY DEF AsrInv
<1>1. AsrTypeOK /\ AsrLockOK /\ AsrFreshOK /\ AsrCountOK(n)
  BY DEF AsrInvAt
<1>2. ASSUME \A t \in AsrThread : apc[t] = "idle"
      PROVE  /\ asr_verify
             /\ get_state(cas_counter) = "EXTRACTION" => AsrSlots(slots) = 0 .. elements_at_phase_change - 1
  <2>1. AsrSlots(slots) = 0 .. n - 1
    BY <1>2, AsrQuiescentSlots
  <2>2. \A t \in AsrThread : ~AsrHolder(t) /\ apc[t] \notin {"publish", "held", "release", "dying"}
    BY <1>2 DEF AsrHolder
  <2>3. cas_counter.lck => AsrExtraction
    BY <1>1, <2>2 DEF AsrLockOK
  <2>4. /\ cas_counter.ver \in Int /\ cas_counter.n \in Nat /\ faa_counter \in Nat /\ FAA_CAPACITY \in Nat
        /\ cas_counter.lck \in BOOLEAN
    BY <1>1, FaaCapacityFits DEF AsrTypeOK, AsrWord
  <2>5. cas_counter.ver # 0 => faa_counter > FAA_CAPACITY
    BY <1>1 DEF AsrLockOK
  <2>6. CASE AsrExtraction
    <3>1. get_state(cas_counter) = "EXTRACTION"
      BY <1>1, <2>6, AsrStates
    <3>2. elements_at_phase_change = n
      BY <1>1, <2>2, <2>6 DEF AsrCountOK
    <3>3. cas_counter.ver # 0
      BY <2>4, <2>6 DEF AsrExtraction
    <3>4. verify_extraction_node
      BY <2>5, <3>1, <3>3 DEF verify_extraction_node
    <3> QED
      BY <2>1, <3>2, <3>4 DEF asr_verify
  <2>7. CASE ~AsrExtraction
    <3>1. cas_counter.ver >= 0 /\ ~cas_counter.lck
      BY <2>3, <2>4, <2>7 DEF AsrExtraction
    <3>2. /\ get_state(cas_counter) # "EXTRACTION" /\ get_state(cas_counter) # "LOCKED"
          /\ is_insertion_state(cas_counter)
      BY <1>1, <2>7, <3>1, AsrStates DEF is_insertion_state
    <3>3. AsrSize = n
      <4>1. CASE cas_counter.ver = 0
        <5>1. n = IF faa_counter <= FAA_CAPACITY THEN faa_counter ELSE FAA_CAPACITY
          BY <1>1, <2>2, <4>1 DEF AsrCountOK
        <5>2. get_state(cas_counter) = "FAA_INSERTION"
          BY <1>1, <3>1, <4>1, AsrStates
        <5>3. cas_counter = AsrCounter(0, FALSE, 0)
          BY <5>2 DEF get_state
        <5> QED
          BY <5>1, <5>3 DEF AsrSize
      <4>2. CASE cas_counter.ver > 0
        <5>1. get_valid_reservations(cas_counter) = n /\ ~(faa_counter <= FAA_CAPACITY)
          BY <1>1, <2>4, <2>5, <4>2 DEF AsrCountOK
        <5>2. cas_counter # AsrCounter(0, FALSE, 0)
          BY <4>2 DEF AsrCounter
        <5> QED
          BY <3>2, <5>1, <5>2 DEF AsrSize
      <4> QED
        BY <2>4, <3>1, <4>1, <4>2
    <3> QED
      BY <2>1, <3>2, <3>3 DEF asr_verify
  <2> QED
    BY <2>6, <2>7
<1> QED
  BY <1>1, <1>2 DEF ReservedSlotsFilled, AsrFreshOK

\* Whoever is told SPLIT_PENDING for a vector that is full leaves it to a thread
\* that crosses its limit; it does not cross it itself.
LEMMA AsrInvPendingSplitIsOwed == AsrInv => PendingSplitIsOwed
<1> SUFFICES ASSUME NEW n \in 0 .. CAPACITY, AsrInvAt(n), NEW t \in AsrThread, ToldSplitPending(t),
                    ~(get_state(cas_counter) = "FAA_INSERTION" /\ faa_counter <= FAA_CAPACITY)
             PROVE  \E u \in AsrThread \ {t} : OwesSplit(u)
  BY DEF AsrInv, PendingSplitIsOwed
<1>1. /\ AsrTypeOK /\ AsrLockOK /\ AsrSplitOK(n)
      /\ faa_counter \in Nat /\ FAA_CAPACITY \in Nat /\ loc[t].slot \in Nat
  BY FaaCapacityFits DEF AsrInvAt, AsrTypeOK, AsrLocal
<1>2. apc[t] = "reserve"
  BY DEF ToldSplitPending
<1>3. \A u \in AsrThread : AsrCrosses(u) => u # t /\ OwesSplit(u)
  BY <1>2 DEF AsrCrosses, AsrInserting, OwesSplit
<1>4. CASE get_state(cas_counter) = "FAA_INSERTION"
  <2>1. cas_counter.ver = 0 /\ ~cas_counter.lck
    BY <1>1, <1>4, AsrStates
  <2>2. faa_counter > FAA_CAPACITY
    BY <1>1, <1>4
  <2>3. \A u \in AsrThread : apc[u] \notin {"publish", "held", "release"}
    BY <1>1, <2>1 DEF AsrLockOK, AsrHolder
  <2>4. PICK u \in AsrThread : AsrWillSplit(u)
    BY <1>1, <2>1, <2>2, <2>3 DEF AsrSplitOK
  <2>5. CASE AsrCrosses(u)
    BY <1>3, <2>5
  <2>6. CASE apc[u] = "reserve" /\ loc[u].slot = FAA_CAPACITY
    <3>1. loc[t].slot > FAA_CAPACITY
      BY <1>4 DEF ToldSplitPending
    <3>2. u # t /\ loc[u].slot <= FAA_CAPACITY
      BY <1>1, <2>6, <3>1
    <3> QED
      BY <1>4, <2>6, <3>2 DEF OwesSplit
  <2> QED
    BY <2>4, <2>5, <2>6 DEF AsrWillSplit
<1>5. CASE get_state(cas_counter) # "FAA_INSERTION"
  <2>1. cas_counter.n > CAPACITY
    BY <1>5 DEF ToldSplitPending
  <2>2. PICK u \in AsrThread : AsrCrosses(u)
    BY <1>1, <2>1 DEF AsrSplitOK
  <2> QED
    BY <1>3, <2>2
<1> QED
  BY <1>4, <1>5

\* Inserters, splitters and extractors of multivector_asr.h together lose no
\* entry, overwrite none and hand none out twice, for every capacity, every set
\* of threads and every set of keys: each slot below the reserved count has at
\* most one writer, and a split runs only when no reserved slot is being written.
THEOREM NoEntryLostSound == AsrSpec => []NoEntryLost
BY AsrInvariant, AsrInvNoEntryLost, PTL

\* verify() of multivector_asr.h holds whenever the vector is quiescent, and
\* verify_locked() of every vector a split populates.
THEOREM ReservedSlotsSound == AsrSpec => []ReservedSlotsFilled
BY AsrInvariant, AsrInvReservedSlotsFilled, PTL

\* SPLIT_PENDING leaves a vector that is full to somebody: another thread has been
\* told MUST_SPLIT and has not split yet, or will be told so, in every interleaving
\* of reservations, splits and roll-backs, for every capacity and every set of
\* threads.  A slot that a roll-back took back is not covered: there the answer is
\* given with nobody to split.
THEOREM PendingSplitSound == AsrSpec => []PendingSplitIsOwed
BY AsrInvariant, AsrInvPendingSplitIsOwed, PTL
=============================================================================

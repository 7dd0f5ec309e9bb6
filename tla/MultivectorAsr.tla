--------------------------- MODULE MultivectorAsr ---------------------------
(***************************************************************************)
(* The concurrent multimap vector with atomic slot reservation              *)
(* (multivector_asr.h).  Inserters reserve slots, first by fetch-and-add on *)
(* faa_counter, later by compare-and-swap on cas_counter, and then fill     *)
(* them; one thread at a time locks the vector through cas_counter to split *)
(* it, to insert into the middle of it, or to end the insertion phase;      *)
(* after that, extractors reserve the entries one by one.                   *)
(*                                                                          *)
(* cas_counter packs a version, the lock bit and the number of reserved     *)
(* slots; here it is the record of the three.                               *)
(***************************************************************************)
EXTENDS Integers, Sequences, FiniteSets

CONSTANTS
    AsrThread,      \* the threads
    CAPACITY,       \* slots
    AsrKeys,        \* bound: keys
    MaxEntries,     \* bound: entries offered to insert in a run
    MaxLocks        \* bound: acquisitions that no insertion asked for

ASSUME AsrCapacityAssumption == CAPACITY \in Nat \ {0}
ASSUME AsrKeysAssumption == AsrKeys \subseteq Nat \ {0}

FAA_CAPACITY == (CAPACITY \div 2) + 1
ASR_EMPTY == 0
Vacant == [key |-> ASR_EMPTY, val |-> 0]
AsrCounter(ver, lck, n) == [ver |-> ver, lck |-> lck, n |-> n]
EXTRACTION_STATE_VALUE == AsrCounter(-1, TRUE, 0)

VARIABLES
    slots,           \* the slots 0 .. CAPACITY - 1
    faa_counter, cas_counter, elements_at_phase_change, extraction_counter,
    fresh,          \* the vector the last split populated, with its counters
    apc,            \* apc[t]: where thread t is
    loc,            \* loc[t]: its local variables
    offered,        \* entries offered so far; an entry's val is its number
    acquisitions,          \* acquisitions made outside insert
    placed,         \* history: the entries whose key an inserter has written
    stolen,         \* history: the entries moved to other vectors
    extracted       \* history: the entries extracted, in order

asrVars == <<slots, faa_counter, cas_counter, elements_at_phase_change, extraction_counter,
             fresh, apc, loc, offered, acquisitions, placed, stolen, extracted>>
asrCounters == <<faa_counter, cas_counter, elements_at_phase_change, extraction_counter>>
asrHistory == <<placed, stolen, extracted>>

AsrSlots(s) == { i \in DOMAIN s : s[i].key # ASR_EMPTY }
SlotEntries(s) == { s[i] : i \in AsrSlots(s) }
EmptyList == [i \in 0 .. CAPACITY - 1 |-> Vacant]
NewVector == [slots |-> EmptyList, faa |-> 0, cas |-> AsrCounter(0, FALSE, 0)]
AsrIdle == [id |-> 0, slot |-> 0, limit |-> 0, ver |-> -1, todo |-> 0, key |-> ASR_EMPTY, must |-> FALSE]

AsrInit ==
    /\ slots = EmptyList
    /\ faa_counter = 0 /\ cas_counter = AsrCounter(0, FALSE, 0)
    /\ elements_at_phase_change = 0 /\ extraction_counter = 0
    /\ fresh = NewVector
    /\ apc = [t \in AsrThread |-> "idle"]
    /\ loc = [t \in AsrThread |-> AsrIdle]
    /\ offered = 0 /\ acquisitions = 0
    /\ placed = {} /\ stolen = {} /\ extracted = <<>>

get_state(c) ==
    IF c = AsrCounter(0, FALSE, 0) THEN "FAA_INSERTION"
    ELSE IF c = EXTRACTION_STATE_VALUE THEN "EXTRACTION"
    ELSE IF c.lck THEN "LOCKED" ELSE "CAS_INSERTION"
is_insertion_state(c) == get_state(c) \in {"FAA_INSERTION", "CAS_INSERTION"}
get_valid_reservations(c) == IF c.n > CAPACITY THEN CAPACITY ELSE c.n

AsrGoto(t, pc) == apc' = [apc EXCEPT ![t] = pc]
AsrReturn(t) == apc' = [apc EXCEPT ![t] = "idle"] /\ loc' = [loc EXCEPT ![t] = AsrIdle]

\* --- insert_concurrent(b, e, version) ---------------------------------------

\* reserve_for_insertion: the fetch-and-add.  ver is -1 (any version) or the
\* version the caller read before.
ReserveFaa(t, elts, ver, k) ==
    /\ apc[t] = "idle" /\ offered + elts <= MaxEntries
    /\ offered' = offered + elts
    /\ faa_counter' = faa_counter + elts
    /\ LET l == [AsrIdle EXCEPT !.id = offered + 1, !.slot = faa_counter, !.todo = elts, !.key = k, !.ver = ver]
       IN  IF faa_counter < FAA_CAPACITY
           THEN /\ AsrGoto(t, "value")
                /\ loc' = [loc EXCEPT ![t] = [l EXCEPT !.limit = FAA_CAPACITY, !.ver = 0]]
           ELSE AsrGoto(t, "reserve") /\ loc' = [loc EXCEPT ![t] = l]
    /\ UNCHANGED <<slots, cas_counter, elements_at_phase_change, extraction_counter, fresh,
                   acquisitions, asrHistory>>

\* reserve_for_insertion: the loop on cas_counter; it spins while LOCKED.
ReserveCas(t) ==
    LET l == loc[t] c == cas_counter IN
    /\ apc[t] = "reserve" /\ get_state(c) # "LOCKED"
    /\ CASE get_state(c) = "EXTRACTION" -> AsrReturn(t) /\ UNCHANGED cas_counter
         [] get_state(c) = "FAA_INSERTION" ->         \* slot is the one the FAA returned
              /\ UNCHANGED cas_counter
              /\ IF l.slot > FAA_CAPACITY THEN AsrReturn(t)               \* SPLIT_PENDING
                 ELSE /\ AsrGoto(t, "value")
                      /\ loc' = [loc EXCEPT ![t].limit = FAA_CAPACITY, ![t].ver = 0]
         [] get_state(c) = "CAS_INSERTION" ->
              IF l.ver >= 0 /\ c.ver # l.ver
              THEN AsrReturn(t) /\ UNCHANGED cas_counter                  \* VERSION_CHANGED
              ELSE IF c.n > CAPACITY
              THEN AsrReturn(t) /\ UNCHANGED cas_counter                  \* SPLIT_PENDING
              ELSE /\ cas_counter' = [c EXCEPT !.n = @ + l.todo]
                   /\ AsrGoto(t, "value")
                   /\ loc' = [loc EXCEPT ![t].slot = c.n, ![t].limit = CAPACITY, ![t].ver = c.ver]
    /\ UNCHANGED <<slots, faa_counter, elements_at_phase_change, extraction_counter, fresh,
                   offered, acquisitions, asrHistory>>

\* slots[slot] = entry writes the value first and the key second.
WriteValue(t) ==
    LET l == loc[t] IN
    /\ apc[t] = "value" /\ l.todo > 0 /\ l.slot < l.limit
    /\ slots' = [slots EXCEPT ![l.slot].val = l.id]
    /\ AsrGoto(t, "key")
    /\ UNCHANGED <<asrCounters, fresh, loc, offered, acquisitions, asrHistory>>

WriteKey(t) ==
    LET l == loc[t] IN
    /\ apc[t] = "key"
    /\ slots' = [slots EXCEPT ![l.slot].key = l.key]
    /\ placed' = placed \cup {[slots[l.slot] EXCEPT !.key = l.key]}
    /\ loc' = [loc EXCEPT ![t].id = @ + 1, ![t].slot = @ + 1, ![t].todo = @ - 1]
    /\ AsrGoto(t, "value")
    /\ UNCHANGED <<asrCounters, fresh, offered, acquisitions, stolen, extracted>>

\* SUCCESS, or MUST_SPLIT when entries are left: the thread has to split.
FinishInsert(t) ==
    LET l == loc[t] IN
    /\ apc[t] = "value" /\ (l.todo = 0 \/ l.slot >= l.limit)
    /\ IF l.todo = 0 THEN AsrReturn(t)
       ELSE AsrGoto(t, "split") /\ loc' = [loc EXCEPT ![t] = [AsrIdle EXCEPT !.must = TRUE]]
    /\ UNCHANGED <<slots, asrCounters, fresh, offered, acquisitions, asrHistory>>

\* --- the lock ---------------------------------------------------------------

AsrLocked(c) == [c EXCEPT !.lck = TRUE]

\* Mutant: the reservations are looked at in the fetch-and-add phase too.
AcquireForSplitLate(t) ==
    LET c == cas_counter IN
    /\ apc[t] = "split" /\ get_state(c) # "LOCKED"
    /\ IF get_state(c) = "EXTRACTION" \/ c.n <= CAPACITY
       THEN AsrReturn(t) /\ UNCHANGED cas_counter
       ELSE cas_counter' = AsrLocked(c) /\ AsrGoto(t, "held") /\ UNCHANGED loc
    /\ UNCHANGED <<slots, faa_counter, elements_at_phase_change, extraction_counter, fresh,
                   offered, acquisitions, asrHistory>>

\* acquire_for_split: nothing to do when somebody else has split meanwhile.
AcquireForSplit(t) ==
    LET c == cas_counter IN
    /\ apc[t] = "split" /\ get_state(c) # "LOCKED"
    /\ IF get_state(c) = "EXTRACTION" \/ (c.ver > 0 /\ c.n <= CAPACITY)
       THEN AsrReturn(t) /\ UNCHANGED cas_counter
       ELSE /\ cas_counter' = AsrLocked(c)
            /\ IF c.ver = 0 THEN AsrGoto(t, "close faa") /\ UNCHANGED loc
               ELSE AsrGoto(t, "held") /\ UNCHANGED loc
    /\ UNCHANGED <<slots, faa_counter, elements_at_phase_change, extraction_counter, fresh,
                   offered, acquisitions, asrHistory>>

\* acquire(), and try_upgrade() with the current version.
AsrAcquire(t) ==
    LET c == cas_counter IN
    /\ apc[t] = "idle" /\ acquisitions < MaxLocks /\ is_insertion_state(c)
    /\ acquisitions' = acquisitions + 1
    /\ cas_counter' = AsrLocked(c)
    /\ AsrGoto(t, IF c.ver = 0 THEN "close faa" ELSE "held")
    /\ UNCHANGED <<slots, faa_counter, elements_at_phase_change, extraction_counter, fresh,
                   loc, offered, asrHistory>>

\* Mutant: the transition counts the entries and leaves faa_counter open.
CloseFaaOpen(t) ==
    /\ apc[t] = "close faa" /\ AsrGoto(t, "publish")
    /\ loc' = [loc EXCEPT ![t].slot = IF faa_counter <= FAA_CAPACITY THEN faa_counter ELSE FAA_CAPACITY,
                          ![t].ver = 0]
    /\ UNCHANGED <<slots, asrCounters, fresh, offered, acquisitions, asrHistory>>

\* faa_to_cas_transition: closes faa_counter, then publishes the count.
CloseFaa(t) ==
    /\ apc[t] = "close faa" /\ AsrGoto(t, "publish")
    /\ loc' = [loc EXCEPT ![t].slot = IF faa_counter <= FAA_CAPACITY THEN faa_counter ELSE FAA_CAPACITY,
                          ![t].ver = 0]
    /\ faa_counter' = IF faa_counter <= FAA_CAPACITY THEN FAA_CAPACITY + 1 ELSE faa_counter
    /\ UNCHANGED <<slots, cas_counter, elements_at_phase_change, extraction_counter, fresh,
                   offered, acquisitions, asrHistory>>

PublishCas(t) ==
    /\ apc[t] = "publish" /\ AsrGoto(t, "held")
    /\ cas_counter' = AsrCounter(0, TRUE, loc[t].slot)
    /\ UNCHANGED <<slots, faa_counter, elements_at_phase_change, extraction_counter, fresh,
                   loc, offered, acquisitions, asrHistory>>

AsrRelease(t) ==
    /\ apc[t] = "release" /\ AsrReturn(t)
    /\ cas_counter' = AsrCounter(cas_counter.ver + 1, FALSE, cas_counter.n)
    /\ UNCHANGED <<slots, faa_counter, elements_at_phase_change, extraction_counter, fresh,
                   offered, acquisitions, asrHistory>>

\* release_unchanged: at version 0 it goes back to fetch-and-add insertion,
\* in two stores.
ReleaseUnchanged(t) ==
    /\ apc[t] = "held" /\ ~loc[t].must
    /\ IF cas_counter.ver >= 1
       THEN /\ cas_counter' = [cas_counter EXCEPT !.lck = FALSE]
            /\ AsrReturn(t) /\ UNCHANGED faa_counter
       ELSE /\ faa_counter' = cas_counter.n
            /\ AsrGoto(t, "rollback") /\ UNCHANGED <<cas_counter, loc>>
    /\ UNCHANGED <<slots, elements_at_phase_change, extraction_counter, fresh, offered, acquisitions, asrHistory>>

Rollback(t) ==
    /\ apc[t] = "rollback" /\ AsrReturn(t)
    /\ cas_counter' = AsrCounter(0, FALSE, 0)
    /\ UNCHANGED <<slots, faa_counter, elements_at_phase_change, extraction_counter, fresh,
                   offered, acquisitions, asrHistory>>

\* --- under the lock ---------------------------------------------------------

\* wait_for_insertions: every reserved slot is filled.
InsertionsDone == \A i \in 0 .. get_valid_reservations(cas_counter) - 1 : slots[i].key # ASR_EMPTY

\* The victim keeps the entries of its first n slots compactly; the others go
\* to a new vector, in the order given.
AsrMoved(t, keep, take, faa, cas) ==
    /\ slots' = [i \in 0 .. CAPACITY - 1 |-> IF i < Len(keep) THEN keep[i + 1] ELSE Vacant]
    /\ fresh' = [slots |-> [i \in 0 .. CAPACITY - 1 |-> IF i < Len(take) THEN take[i + 1] ELSE Vacant],
                 faa |-> faa, cas |-> cas]
    /\ stolen' = stolen \cup ({ take[i] : i \in 1 .. Len(take) } \cap placed)
    /\ cas_counter' = [cas_counter EXCEPT !.n = Len(keep)]
    /\ AsrGoto(t, "release")
    /\ UNCHANGED <<faa_counter, elements_at_phase_change, extraction_counter, loc, offered,
                   acquisitions, placed, extracted>>

AsrPresent == [i \in 1 .. get_valid_reservations(cas_counter) |-> slots[i - 1]]

\* steal_max, for the split that ends fetch-and-add insertion: the last of the
\* greatest keys moves, the last entry closes the gap.
StealMax(t) ==
    LET s == AsrPresent
        n == Len(s)
        m == CHOOSE i \in 1 .. n : /\ \A j \in 1 .. n : s[j].key <= s[i].key
                                   /\ \A j \in i + 1 .. n : s[j].key < s[i].key
        keep == [i \in 1 .. n - 1 |-> IF i = m THEN s[n] ELSE s[i]]
    IN  /\ apc[t] = "held" /\ loc[t].must /\ cas_counter.ver = 0 /\ InsertionsDone
        /\ AsrMoved(t, keep, <<s[m]>>, 1, AsrCounter(0, FALSE, 0))

\* steal_half: quickselect puts the greater half last; which of the orders it
\* leaves is the partition's, here any that respects the median.
StealHalf(t) ==
    LET s == AsrPresent
        n == Len(s)
        half == n \div 2
    IN  /\ apc[t] = "held" /\ loc[t].must /\ cas_counter.ver > 0 /\ InsertionsDone
        /\ \E low \in { S \in SUBSET (1 .. n) : /\ Cardinality(S) = half
                                                /\ \A i \in S, j \in (1 .. n) \ S : s[i].key <= s[j].key } :
             LET pick(S) == [i \in 1 .. Cardinality(S) |->
                               s[CHOOSE j \in S : Cardinality({ x \in S : x <= j }) = i]]
             IN  AsrMoved(t, pick(low), pick((1 .. n) \ low), n - half, AsrCounter(0, FALSE, 0))

\* split_insert: a tall entry with key k starts a new vector and takes what is
\* above it; the new vector starts in the phase its size asks for.  With
\* nothing to steal the victim's counter is left as it is.
SplitInsert(t, k) ==
    LET s == AsrPresent
        n == Len(s)
        tall == [key |-> k, val |-> -1]
        above == { i \in 1 .. n : s[i].key > k }
        below == (1 .. n) \ above
        pick(S) == [i \in 1 .. Cardinality(S) |->
                      s[CHOOSE j \in S : Cardinality({ x \in S : x <= j }) = i]]
        size == 1 + Cardinality(above)
    IN  /\ apc[t] = "held" /\ ~loc[t].must /\ InsertionsDone /\ Cardinality(above) < CAPACITY
        /\ IF above = {}
           THEN /\ fresh' = [NewVector EXCEPT !.slots[0] = tall, !.faa = 1]
                /\ AsrGoto(t, "release")
                /\ UNCHANGED <<slots, asrCounters, loc, offered, acquisitions, asrHistory>>
           ELSE IF size <= FAA_CAPACITY
           THEN AsrMoved(t, pick(below), <<tall>> \o pick(above), size, AsrCounter(0, FALSE, 0))
           ELSE AsrMoved(t, pick(below), <<tall>> \o pick(above), FAA_CAPACITY + 1, AsrCounter(1, FALSE, size))

\* Mutant: reservations beyond the capacity count as entries.
AsrDieOverfull(t) ==
    /\ apc[t] = "held" /\ ~loc[t].must /\ AsrGoto(t, "dying")
    /\ loc' = [loc EXCEPT ![t].slot = cas_counter.n]
    /\ cas_counter' = EXTRACTION_STATE_VALUE
    /\ UNCHANGED <<slots, faa_counter, elements_at_phase_change, extraction_counter, fresh,
                   offered, acquisitions, asrHistory>>

\* die: the phase changes first, the number of entries is stored after.
AsrDie(t) ==
    /\ apc[t] = "held" /\ ~loc[t].must /\ AsrGoto(t, "dying")
    /\ loc' = [loc EXCEPT ![t].slot = get_valid_reservations(cas_counter)]
    /\ cas_counter' = EXTRACTION_STATE_VALUE
    /\ UNCHANGED <<slots, faa_counter, elements_at_phase_change, extraction_counter, fresh,
                   offered, acquisitions, asrHistory>>

AsrDied(t) ==
    /\ apc[t] = "dying" /\ AsrReturn(t)
    /\ elements_at_phase_change' = loc[t].slot
    /\ UNCHANGED <<slots, faa_counter, cas_counter, extraction_counter, fresh, offered, acquisitions, asrHistory>>

\* --- extraction: from the moment the phase has changed, so also before die()
\* has stored the number of entries, when it finds none -------------------------

ReserveExtraction(t) ==
    /\ apc[t] = "idle" /\ get_state(cas_counter) = "EXTRACTION"
    /\ extraction_counter <= elements_at_phase_change          \* bound: one failed extraction
    /\ extraction_counter' = extraction_counter + 1
    /\ IF extraction_counter >= elements_at_phase_change THEN UNCHANGED <<apc, loc>>
       ELSE AsrGoto(t, "extract") /\ loc' = [loc EXCEPT ![t].slot = extraction_counter]
    /\ UNCHANGED <<slots, faa_counter, cas_counter, elements_at_phase_change, fresh, offered,
                   acquisitions, asrHistory>>

\* An unfinished insertion may still have to fill the slot.
AsrExtract(t) ==
    /\ apc[t] = "extract" /\ slots[loc[t].slot].key # ASR_EMPTY
    /\ extracted' = Append(extracted, slots[loc[t].slot])
    /\ AsrReturn(t)
    /\ UNCHANGED <<slots, asrCounters, fresh, offered, acquisitions, placed, stolen>>

AsrNext ==
    \E t \in AsrThread :
        \/ \E elts \in 1 .. 2, ver \in {-1, cas_counter.ver}, k \in AsrKeys : ReserveFaa(t, elts, ver, k)
        \/ ReserveCas(t) \/ WriteValue(t) \/ WriteKey(t) \/ FinishInsert(t)
        \/ AcquireForSplit(t) \/ AsrAcquire(t) \/ CloseFaa(t) \/ PublishCas(t)
        \/ AsrRelease(t) \/ ReleaseUnchanged(t) \/ Rollback(t)
        \/ StealMax(t) \/ StealHalf(t) \/ \E k \in AsrKeys : SplitInsert(t, k)
        \/ AsrDie(t) \/ AsrDied(t) \/ ReserveExtraction(t) \/ AsrExtract(t)

AsrSpec == AsrInit /\ [][AsrNext]_asrVars
-----------------------------------------------------------------------------
\* No entry an inserter has written is overwritten, lost or taken twice, by any
\* interleaving of reservations, roll-backs to fetch-and-add, splits and
\* extractions.  Extraction leaves the slots as they are, so there the slots
\* and what was stolen account for everything.
NoEntryLost ==
    /\ placed = SlotEntries(slots) \cup stolen
    /\ SlotEntries(slots) \cap stolen = {}
    /\ Cardinality(SlotEntries(slots)) = Cardinality(AsrSlots(slots))
    /\ \A i \in 1 .. Len(extracted) : extracted[i] \in placed
    /\ \A i, j \in 1 .. Len(extracted) : extracted[i] = extracted[j] => i = j

AsrSize == IF faa_counter <= FAA_CAPACITY THEN faa_counter
           ELSE IF cas_counter = AsrCounter(0, FALSE, 0) THEN FAA_CAPACITY
           ELSE IF get_state(cas_counter) # "EXTRACTION" THEN get_valid_reservations(cas_counter)
           ELSE IF extraction_counter > elements_at_phase_change THEN 0
           ELSE elements_at_phase_change - extraction_counter
verify_locked(s, n) == n <= CAPACITY /\ AsrSlots(s) = 0 .. n - 1
verify_extraction_node == faa_counter > FAA_CAPACITY /\ get_state(cas_counter) = "EXTRACTION"
asr_verify ==
    \/ is_insertion_state(cas_counter) /\ AsrSlots(slots) = 0 .. AsrSize - 1
    \/ verify_extraction_node

\* verify() holds when no thread is inside an operation, and verify_locked() of the
\* vector a split populates: exactly the reserved slots are filled, and the counters
\* are those of one of the two insertion phases; an extraction finds the elements
\* that were there at the change of phase.
ReservedSlotsFilled ==
    /\ (\A t \in AsrThread : apc[t] = "idle") =>
          /\ asr_verify
          /\ get_state(cas_counter) = "EXTRACTION" => AsrSlots(slots) = 0 .. elements_at_phase_change - 1
    /\ verify_locked(fresh.slots, IF fresh.faa <= FAA_CAPACITY THEN fresh.faa ELSE fresh.cas.n)
    /\ fresh.faa > FAA_CAPACITY <=> fresh.cas.ver > 0

\* What the loop of reserve_for_insertion is about to answer t is SPLIT_PENDING.
ToldSplitPending(t) ==
    /\ apc[t] = "reserve"
    /\ \/ get_state(cas_counter) = "FAA_INSERTION" /\ loc[t].slot > FAA_CAPACITY
       \/ /\ get_state(cas_counter) = "CAS_INSERTION" /\ cas_counter.n > CAPACITY
          /\ loc[t].ver < 0 \/ loc[t].ver = cas_counter.ver

\* u was told MUST_SPLIT and has not split yet, or will be told when the slots
\* it has reserved are used up.
OwesSplit(u) ==
    \/ apc[u] = "split"
    \/ apc[u] \in {"close faa", "publish", "held"} /\ loc[u].must
    \/ apc[u] \in {"value", "key"} /\ loc[u].slot + loc[u].todo > loc[u].limit
    \/ /\ apc[u] = "reserve" /\ get_state(cas_counter) = "FAA_INSERTION"
       /\ loc[u].slot <= FAA_CAPACITY

\* An inserter that is told SPLIT_PENDING (multivector_asr.h:620-623) leaves the
\* vector to another thread, and that thread is still going to split it: no
\* interleaving of reservations, acquisitions, splits and roll-backs lets the
\* duty be dropped or fall to the thread that was sent away.  There is one case
\* where nobody has it, which insert_result.h:21-23 does not allow for and which
\* the second conjunct of the antecedent sets apart: the slot was beyond the limit
\* because another thread had closed the counter to acquire the vector, and its
\* release_unchanged has since brought the reservations below the limit again.
PendingSplitIsOwed ==
    \A t \in AsrThread :
        ToldSplitPending(t) /\ ~(get_state(cas_counter) = "FAA_INSERTION" /\ faa_counter <= FAA_CAPACITY)
          => \E u \in AsrThread \ {t} : OwesSplit(u)
=============================================================================

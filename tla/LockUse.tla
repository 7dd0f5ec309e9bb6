------------------------------- MODULE LockUse ------------------------------
(***************************************************************************)
(* Threads that share one node lock, sv_lock or seq_lock, and the data it    *)
(* protects: two words, so that a torn read can be told from a whole one.    *)
(* Readers read optimistically and then confirm, upgrade or freeze; writers  *)
(* write both words and leave through every release the classes offer.       *)
(***************************************************************************)
EXTENDS SvLock, SeqLock, FiniteSets

CONSTANTS
    LockThread,     \* the threads
    MaxVersion      \* bound: no acquisition starts beyond this counter

\* "It is technically possible but unfeasible for the lock to be incremented to"
\* the dead value (seq_lock.h:18): the counter stays below it.
ASSUME MaxVersionAssumption == MaxVersion \in Nat /\ 2 * MaxVersion + 2 < SeqWords

VARIABLES
    lkind,      \* "sv" or "seq"
    word,       \* std::atomic<uint64_t> lock
    datum,      \* the protected words <<x, y>>
    lpc,        \* lpc[t]: where thread t is
    lv,         \* lv[t]: the value its begin_read() returned, or it loaded
    copy,       \* copy[t]: the words it has read
    versions    \* history: the <<unlocked word, datum>> pairs there have been

lockVars == <<lkind, word, datum, lpc, lv, copy, versions>>

Sv == lkind = "sv"
Unlocked(v) == IF Sv THEN is_unlocked(v) ELSE seq_is_unlocked(v)
Dead(v) == IF Sv THEN is_dead(v) ELSE seq_is_dead(v)
BeginRead(v) == IF Sv THEN begin_read(v) ELSE seq_begin_read(v)
Confirms(v, s) == IF Sv THEN confirm_read(v, s) ELSE seq_confirm_read(v, s)
Upgrades(v, s) == IF Sv THEN try_upgrade_ok(v, s) ELSE seq_try_upgrade_ok(v, s)
Acquired(v) == IF Sv THEN acquire(v) ELSE seq_acquire(v)

Version(v) == v \div (2 * (IF Sv THEN LOCK_BIT ELSE SEQ_LOCK_BIT))   \* the counter

LockInit ==
    /\ lkind \in {"sv", "seq"}
    /\ word \in IF lkind = "sv" THEN {new_lock(FALSE), new_lock(TRUE)} ELSE {0}
    /\ datum = <<0, 0>>
    /\ lpc = [t \in LockThread |-> "idle"]
    /\ lv = [t \in LockThread |-> 0]
    /\ copy = [t \in LockThread |-> <<0, 0>>]
    /\ versions = {<<word, datum>>}

LockGoto(t, pc) == lpc' = [lpc EXCEPT ![t] = pc]
LockForget(t) == /\ LockGoto(t, "idle")
             /\ lv' = [lv EXCEPT ![t] = 0]
             /\ copy' = [copy EXCEPT ![t] = <<0, 0>>]

\* --- readers ---------------------------------------------------------------

BeginReading(t) ==
    /\ lpc[t] = "idle" /\ LockGoto(t, "read x")
    /\ lv' = [lv EXCEPT ![t] = BeginRead(word)]
    /\ UNCHANGED <<lkind, word, datum, copy, versions>>

ReadWord(t) ==
    /\ \/ lpc[t] = "read x" /\ LockGoto(t, "read y") /\ copy' = [copy EXCEPT ![t][1] = datum[1]]
       \/ lpc[t] = "read y" /\ LockGoto(t, "read") /\ copy' = [copy EXCEPT ![t][2] = datum[2]]
    /\ UNCHANGED <<lkind, word, datum, lv, versions>>

\* confirm_read(): "valid" when it returns true.
ConfirmReading(t) ==
    /\ lpc[t] = "read"
    /\ IF Confirms(word, lv[t]) THEN LockGoto(t, "valid") /\ UNCHANGED <<lv, copy>> ELSE LockForget(t)
    /\ UNCHANGED <<lkind, word, datum, versions>>

FinishReading(t) ==
    /\ lpc[t] = "valid" /\ LockForget(t)
    /\ UNCHANGED <<lkind, word, datum, versions>>

\* try_upgrade() and try_freeze() with the value the read began with.
TryUpgrade(t) ==
    /\ lpc[t] = "read" /\ Version(lv[t]) <= MaxVersion
    /\ IF Upgrades(word, lv[t])
       THEN word' = Acquired(word) /\ LockGoto(t, "held") /\ UNCHANGED <<lv, copy>>
       ELSE LockForget(t) /\ UNCHANGED word
    /\ UNCHANGED <<lkind, datum, versions>>

TryFreeze(t) ==
    /\ Sv /\ lpc[t] = "read" /\ Version(lv[t]) <= MaxVersion
    /\ IF try_freeze_ok(word, lv[t])
       THEN word' = freeze(word) /\ LockGoto(t, "frozen") /\ UNCHANGED <<lv, copy>>
       ELSE LockForget(t) /\ UNCHANGED word
    /\ UNCHANGED <<lkind, datum, versions>>

\* --- writers ---------------------------------------------------------------

\* acquire() and freeze() wait for an unlocked word; on a dead one they return
\* false, which changes nothing.
Acquire(t) ==
    /\ lpc[t] = "idle" /\ Unlocked(word) /\ Version(word) <= MaxVersion
    /\ word' = Acquired(word) /\ LockGoto(t, "held")
    /\ copy' = [copy EXCEPT ![t] = datum]
    /\ UNCHANGED <<lkind, datum, lv, versions>>

Freeze(t) ==
    /\ Sv /\ lpc[t] = "idle" /\ Unlocked(word) /\ Version(word) <= MaxVersion
    /\ word' = freeze(word) /\ LockGoto(t, "frozen")
    /\ copy' = [copy EXCEPT ![t] = datum]
    /\ UNCHANGED <<lkind, datum, lv, versions>>

\* acquire_frozen(): a load and a store, not one atomic step.
AcquireFrozenLoad(t) ==
    /\ lpc[t] = "frozen" /\ LockGoto(t, "upgrading")
    /\ lv' = [lv EXCEPT ![t] = word]
    /\ UNCHANGED <<lkind, word, datum, copy, versions>>

AcquireFrozenStore(t) ==
    /\ lpc[t] = "upgrading" /\ LockGoto(t, "held")
    /\ word' = acquire_frozen(lv[t])
    /\ UNCHANGED <<lkind, datum, lv, copy, versions>>

Thaw(t) ==
    /\ lpc[t] = "frozen" /\ word' = thaw(word) /\ LockForget(t)
    /\ UNCHANGED <<lkind, datum, versions>>

WriteWord(t) ==
    /\ \/ lpc[t] = "held" /\ LockGoto(t, "half") /\ datum' = [datum EXCEPT ![1] = @ + 1]
       \/ lpc[t] = "half" /\ LockGoto(t, "written") /\ datum' = [datum EXCEPT ![2] = @ + 1]
    /\ UNCHANGED <<lkind, word, lv, copy, versions>>

\* The thread leaves with the word w; the history learns the new version.
Leave(t, w) ==
    /\ word' = w /\ LockForget(t)
    /\ versions' = versions \cup {<<w, datum>>}
    /\ UNCHANGED <<lkind, datum>>

Release(t) ==
    /\ lpc[t] \in {"held", "written"}
    /\ Leave(t, IF Sv THEN release(word) ELSE seq_release(word))

ReleaseAsOrphan(t) ==
    /\ Sv /\ lpc[t] \in {"held", "written"} /\ ~is_orphan(word)
    /\ Leave(t, release_as_orphan(word))

ReleaseAndAdopt(t) ==
    /\ Sv /\ lpc[t] \in {"held", "written"} /\ is_orphan(word)
    /\ Leave(t, release_and_adopt(word))

\* release_changed_if(b) and release_unchanged().
ReleaseChangedIf(t) ==
    /\ lpc[t] \in {"held", "written"}
    /\ LET b == lpc[t] = "written"
       IN  Leave(t, IF Sv THEN release_changed_if(word, b) ELSE seq_release_changed_if(word, b))

Die(t) ==
    /\ lpc[t] \in {"held", "written"}
    /\ word' = (IF Sv THEN die(word) ELSE seq_die(word))
    /\ LockForget(t)
    /\ UNCHANGED <<lkind, datum, versions>>

LockNext ==
    \E t \in LockThread :
        \/ BeginReading(t) \/ ReadWord(t) \/ ConfirmReading(t) \/ FinishReading(t)
        \/ TryUpgrade(t) \/ TryFreeze(t) \/ Acquire(t) \/ Freeze(t)
        \/ AcquireFrozenLoad(t) \/ AcquireFrozenStore(t) \/ Thaw(t)
        \/ WriteWord(t) \/ Release(t) \/ ReleaseAsOrphan(t) \/ ReleaseAndAdopt(t)
        \/ ReleaseChangedIf(t) \/ Die(t)

LockSpec == LockInit /\ [][LockNext]_lockVars
-----------------------------------------------------------------------------
Writers == { t \in LockThread : lpc[t] \in {"held", "half", "written"} }
Freezers == { t \in LockThread : lpc[t] \in {"frozen", "upgrading"} }

\* At most one thread holds the lock or has frozen it, and the bits of the word
\* say which: readers may run beside a freezer, and the plain load and store of
\* acquire_frozen() never lose another thread's change to the word.
LockWordTellsHolder ==
    /\ Cardinality(Writers \cup Freezers) <= 1
    /\ Writers # {} <=> ~Unlocked(word) /\ ~Dead(word) /\ Freezers = {}
    /\ Freezers # {} <=> Sv /\ is_frozen(word)

\* An unlocked word stands for one value of the data for ever: no sequence of
\* releases, changed or unchanged, orphaning or adopting, brings a word back
\* with other data under it.  This is what a reader's confirm_read() relies on.
VersionNamesData ==
    /\ \A p, q \in versions : p[1] = q[1] => p[2] = q[2]
    /\ Writers = {} /\ ~Dead(word) => <<BeginRead(word), datum>> \in versions

\* A read that validates, by confirm_read(), try_upgrade() or try_freeze(), has
\* seen the data as it is at that moment, whole.
ValidatedReadsAreCurrent ==
    [][\A t \in LockThread :
         lpc[t] = "read" /\ lpc'[t] \in {"valid", "held", "frozen"} => copy[t] = datum]_lockVars
=============================================================================

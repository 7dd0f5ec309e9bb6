------------------------------- MODULE SvLock -------------------------------
(***************************************************************************)
(* The lock word of a skip-vector node (sv_lock.h): an orphan bit, a freeze *)
(* bit, a lock bit and above them a counter, all in one integer that the    *)
(* atomic operations add to.  Each operator is the effect on the word of    *)
(* one method of the class; who may call it when is the caller's matter.    *)
(***************************************************************************)
EXTENDS Integers

ORPHAN_BIT == 1
FREEZE_BIT == 2
LOCK_BIT == 4

State(v) == ((v \div FREEZE_BIT) % 4) * FREEZE_BIT   \* v & STATE_MASK

is_orphan(v) == v % 2 = ORPHAN_BIT
is_unlocked(v) == State(v) = 0
is_frozen(v) == State(v) = FREEZE_BIT
is_locked(v) == State(v) = LOCK_BIT
is_dead(v) == State(v) = LOCK_BIT + FREEZE_BIT

\* The constructor and initialize().
new_lock(orphan) == IF orphan THEN ORPHAN_BIT ELSE 0

\* acquire() and freeze() spin until the word is unlocked and give up on a
\* dead one; the compare-and-swap that ends the spin is the whole effect.
acquire(v) == v + LOCK_BIT
freeze(v) == v + FREEZE_BIT

\* try_upgrade(seen) and try_freeze(seen): a compare-and-swap from the value a
\* reader began with.
try_upgrade_ok(v, seen) == v = seen
\* Mutant: only the counter is compared.
try_freeze_masked(v, seen) == v - State(v) = seen
try_freeze_ok(v, seen) == v = seen

\* acquire_frozen() loads the word and stores it back with the bits changed.
acquire_frozen(loaded) == loaded + (LOCK_BIT - FREEZE_BIT)
thaw(v) == v - FREEZE_BIT

\* Mutant: the release does not count.
release_uncounted(v) == v - LOCK_BIT
release(v) == v + LOCK_BIT
release_as_orphan(v) == v + LOCK_BIT + ORPHAN_BIT
release_and_adopt(v) == v + (LOCK_BIT - ORPHAN_BIT)
release_unchanged(v) == v - LOCK_BIT
release_changed_if(v, b) == IF b THEN release(v) ELSE release_unchanged(v)
die(v) == v + FREEZE_BIT

\* Mutant: the orphan bit is masked as well.
begin_read_masked(v) == v - State(v) - (v % 2)
begin_read(v) == v - State(v)
\* Mutant: the lock bit is masked as well.
confirm_read_masked(v, seen) == seen = v - State(v)
confirm_read(v, seen) == seen = v - (IF is_frozen(v) \/ is_dead(v) THEN FREEZE_BIT ELSE 0)
=============================================================================

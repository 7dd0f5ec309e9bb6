------------------------------- MODULE SeqLock ------------------------------
(***************************************************************************)
(* The lock word of seq_lock.h, the lock of the multimap nodes: a lock bit   *)
(* and above it a counter; one special value, all ones, marks the lock dead. *)
(***************************************************************************)
EXTENDS Integers

CONSTANT SeqWords       \* number of values of the word (2^64 in the code)
ASSUME SeqWordsAssumption == SeqWords \in Nat /\ SeqWords > 2 /\ SeqWords % 2 = 0

SEQ_LOCK_BIT == 1
DEAD_VALUE == SeqWords - 1

seq_is_unlocked(v) == v % 2 = 0
seq_is_locked(v) == v % 2 = SEQ_LOCK_BIT
seq_is_dead(v) == v = DEAD_VALUE

seq_acquire(v) == v + SEQ_LOCK_BIT
seq_try_upgrade_ok(v, seen) == v = seen
seq_release(v) == (v + SEQ_LOCK_BIT) % SeqWords
seq_release_unchanged(v) == v - SEQ_LOCK_BIT
seq_release_changed_if(v, b) == IF b THEN seq_release(v) ELSE seq_release_unchanged(v)
seq_die(v) == DEAD_VALUE
seq_begin_read(v) == v - (v % 2)
seq_confirm_read(v, seen) == v = seen
=============================================================================

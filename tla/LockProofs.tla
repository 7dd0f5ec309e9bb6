----------------------------- MODULE LockProofs -----------------------------
(***************************************************************************)
(* Proofs about the node locks, for any number of threads, any bound on the  *)
(* counter and any width of the word that does not let it wrap: who holds    *)
(* the lock is in the word, a word names one value of the data, and a read   *)
(* that validates is current.                                                *)
(***************************************************************************)
EXTENDS LockUse, TLAPS, FiniteSetTheorems

Kind == {"sv", "seq"}

\* The operators of LockUse with the kind of lock as a parameter.
Free(k, v) == IF k = "sv" THEN is_unlocked(v) ELSE seq_is_unlocked(v)
Gone(k, v) == IF k = "sv" THEN is_dead(v) ELSE seq_is_dead(v)
Frozen(k, v) == k = "sv" /\ is_frozen(v)
Taken(k, v) == ~Free(k, v) /\ ~Gone(k, v) /\ ~Frozen(k, v)
Base(k, v) == IF k = "sv" THEN begin_read(v) ELSE seq_begin_read(v)
Count(k, v) == IF k = "sv" THEN v \div 8 ELSE v \div 2

LEMMA KindOperators ==
    ASSUME lkind \in Kind
    PROVE  /\ Sv <=> lkind = "sv"
           /\ \A v \in Nat :
                /\ Unlocked(v) <=> Free(lkind, v)
                /\ Dead(v) <=> Gone(lkind, v)
                /\ BeginRead(v) = Base(lkind, v)
                /\ Version(v) = Count(lkind, v)
BY DEF Kind, Sv, Unlocked, Dead, BeginRead, Version, Free, Gone, Base, Count,
       LOCK_BIT, SEQ_LOCK_BIT

\* The four states of a word exclude each other.
LEMMA WordStates ==
    ASSUME NEW k \in Kind, NEW v \in Nat
    PROVE  /\ Free(k, v) \/ Gone(k, v) \/ Frozen(k, v) \/ Taken(k, v)
           /\ ~(Free(k, v) /\ Gone(k, v))
           /\ ~(Free(k, v) /\ Frozen(k, v))
           /\ ~(Gone(k, v) /\ Frozen(k, v))
BY SeqWordsAssumption
   DEF Kind, Free, Gone, Frozen, Taken, is_unlocked, is_dead, is_frozen, State,
       seq_is_unlocked, seq_is_dead, DEAD_VALUE, FREEZE_BIT, LOCK_BIT

\* begin_read() returns an unlocked word of the same counter.
LEMMA BaseWord ==
    ASSUME NEW k \in Kind, NEW v \in Nat
    PROVE  /\ Base(k, v) \in Nat
           /\ Free(k, Base(k, v))
           /\ Count(k, Base(k, v)) = Count(k, v)
           /\ Count(k, v) \in Nat
           /\ Free(k, v) => Base(k, v) = v
<1>1. CASE k = "sv"
  BY <1>1 DEF Base, Free, Count, begin_read, is_unlocked, State, FREEZE_BIT
<1>2. CASE k = "seq"
  BY <1>2 DEF Base, Free, Count, seq_begin_read, seq_is_unlocked
<1> QED
  BY <1>1, <1>2 DEF Kind

\* acquire() and try_upgrade() take a free word.
LEMMA AcquireWord ==
    ASSUME NEW k \in Kind, NEW v \in Nat, Free(k, v), Count(k, v) <= MaxVersion,
           NEW w, w = IF k = "sv" THEN acquire(v) ELSE seq_acquire(v)
    PROVE  w \in Nat /\ Taken(k, w) /\ Base(k, w) = v /\ Count(k, w) = Count(k, v)
<1>1. CASE k = "sv"
  BY <1>1 DEF Taken, Base, Free, Gone, Frozen, Count, begin_read, is_unlocked, is_dead,
              is_frozen, State, FREEZE_BIT, LOCK_BIT, acquire
<1>2. CASE k = "seq"
  BY <1>2, SeqWordsAssumption, MaxVersionAssumption
     DEF Taken, Base, Free, Gone, Frozen, Count, seq_begin_read, seq_is_unlocked,
         seq_is_dead, DEAD_VALUE, SEQ_LOCK_BIT, seq_acquire
<1> QED
  BY <1>1, <1>2 DEF Kind

\* freeze() and try_freeze() freeze a free one.
LEMMA FreezeWord ==
    ASSUME NEW v \in Nat, Free("sv", v)
    PROVE  /\ freeze(v) \in Nat /\ Frozen("sv", freeze(v))
           /\ Base("sv", freeze(v)) = v /\ Count("sv", freeze(v)) = Count("sv", v)
BY DEF Base, Free, Frozen, Count, begin_read, is_unlocked, is_frozen, State, FREEZE_BIT,
       LOCK_BIT, freeze

\* acquire_frozen() and thaw() of a frozen word.
LEMMA UnfreezeWord ==
    ASSUME NEW v \in Nat, Frozen("sv", v)
    PROVE  /\ thaw(v) \in Nat /\ Free("sv", thaw(v)) /\ thaw(v) = Base("sv", v)
           /\ acquire_frozen(v) \in Nat /\ Taken("sv", acquire_frozen(v))
           /\ Base("sv", acquire_frozen(v)) = Base("sv", v)
           /\ Count("sv", acquire_frozen(v)) = Count("sv", v)
BY DEF Base, Free, Frozen, Taken, Gone, Count, begin_read, is_unlocked, is_frozen, is_dead,
       State, FREEZE_BIT, LOCK_BIT, thaw, acquire_frozen

\* Every release that counts gives a free word of the next counter.
NextWord(k, v, w) == w \in Nat /\ Free(k, w) /\ Count(k, w) = Count(k, v) + 1
LEMMA ReleaseWord ==
    ASSUME NEW k \in Kind, NEW v \in Nat, Taken(k, v), Count(k, v) <= MaxVersion
    PROVE  /\ NextWord(k, v, IF k = "sv" THEN release(v) ELSE seq_release(v))
           /\ k = "sv" /\ ~is_orphan(v) => NextWord(k, v, release_as_orphan(v))
           /\ k = "sv" /\ is_orphan(v) => NextWord(k, v, release_and_adopt(v))
<1>1. CASE k = "sv"
  BY <1>1 DEF NextWord, Taken, Free, Gone, Frozen, Count, is_unlocked, is_dead, is_frozen,
              State, FREEZE_BIT, LOCK_BIT, ORPHAN_BIT, release, release_as_orphan,
              release_and_adopt, is_orphan
<1>2. CASE k = "seq"
  <2>1. v % 2 = 1 /\ v + 1 < SeqWords
    BY <1>2, SeqWordsAssumption, MaxVersionAssumption
       DEF Taken, Free, Gone, Frozen, Count, seq_is_unlocked, seq_is_dead, DEAD_VALUE
  <2>2. seq_release(v) = v + 1
    BY <2>1, SeqWordsAssumption DEF seq_release, SEQ_LOCK_BIT
  <2> QED
    BY <1>2, <2>1, <2>2 DEF NextWord, Free, Count, seq_is_unlocked
<1> QED
  BY <1>1, <1>2 DEF Kind

\* A release that does not count gives the word back that was taken.
LEMMA ReleaseUnchangedWord ==
    ASSUME NEW k \in Kind, NEW v \in Nat, Taken(k, v)
    PROVE  (IF k = "sv" THEN release_unchanged(v) ELSE seq_release_unchanged(v)) = Base(k, v)
<1>1. CASE k = "sv"
  BY <1>1 DEF Taken, Base, Free, Gone, Frozen, begin_read, is_unlocked, is_dead, is_frozen,
              State, FREEZE_BIT, LOCK_BIT, release_unchanged
<1>2. CASE k = "seq"
  BY <1>2 DEF Taken, Base, Free, Gone, Frozen, seq_begin_read, seq_is_unlocked,
              SEQ_LOCK_BIT, seq_release_unchanged
<1> QED
  BY <1>1, <1>2 DEF Kind

\* die() leaves a dead word.
LEMMA DieWord ==
    ASSUME NEW k \in Kind, NEW v \in Nat, Taken(k, v),
           NEW w, w = IF k = "sv" THEN die(v) ELSE seq_die(v)
    PROVE  w \in Nat /\ Gone(k, w)
<1>1. CASE k = "sv"
  BY <1>1 DEF Taken, Free, Gone, Frozen, is_unlocked, is_dead, is_frozen, State, FREEZE_BIT,
              LOCK_BIT, die
<1>2. CASE k = "seq"
  BY <1>2, SeqWordsAssumption DEF Gone, seq_is_dead, DEAD_VALUE, seq_die
<1> QED
  BY <1>1, <1>2 DEF Kind

\* confirm_read() succeeds only on a word that is free or frozen and has the
\* counter and the orphan bit of the word the read began with.
LEMMA ConfirmWord ==
    ASSUME NEW k \in Kind, NEW v \in Nat, NEW s \in Nat, Free(k, s),
           IF k = "sv" THEN confirm_read(v, s) ELSE seq_confirm_read(v, s)
    PROVE  ~Taken(k, v) /\ ~Gone(k, v) /\ Base(k, v) = s
<1>1. CASE k = "sv"
  BY <1>1 DEF Taken, Base, Free, Gone, Frozen, begin_read, is_unlocked, is_dead, is_frozen,
              State, FREEZE_BIT, LOCK_BIT, confirm_read
<1>2. CASE k = "seq"
  BY <1>2, WordStates, BaseWord DEF Taken, Free, seq_confirm_read
<1> QED
  BY <1>1, <1>2 DEF Kind
-----------------------------------------------------------------------------
Reading == {"read x", "read y", "read"}
Holding == {"held", "half", "written"}
Freezing == {"frozen", "upgrading"}

Words == [1 .. 2 -> Nat]

LockTypeOK ==
    /\ lkind \in Kind
    /\ word \in Nat
    /\ datum \in Words
    /\ lpc \in [LockThread -> {"idle", "valid"} \cup Reading \cup Holding \cup Freezing]
    /\ lv \in [LockThread -> Nat]
    /\ copy \in [LockThread -> Words]
    /\ versions \subseteq Nat \X Words

\* The word says what its one holder, if there is one, is doing.
HolderInv ==
    /\ \A t, u \in LockThread :
         lpc[t] \in Holding \cup Freezing /\ lpc[u] \in Holding \cup Freezing => t = u
    /\ \A t \in LockThread :
         /\ lpc[t] \in Holding => Taken(lkind, word)
         /\ lpc[t] \in Freezing => Frozen(lkind, word)
         /\ lpc[t] = "upgrading" => lv[t] = word
    /\ (\A t \in LockThread : lpc[t] \notin Holding \cup Freezing)
         => Free(lkind, word) \/ Gone(lkind, word)
    /\ Taken(lkind, word) \/ Frozen(lkind, word) => Count(lkind, word) <= MaxVersion

\* Nobody has written to the data since the last release.
Stable == ~Gone(lkind, word) /\ \A t \in LockThread : lpc[t] \notin {"half", "written"}

\* The words a reader began with, or the history knows, are the current one or
\* have a smaller counter.
Past(v) == v = Base(lkind, word) \/ Count(lkind, v) < Count(lkind, word)

HistoryInv ==
    /\ \A p, q \in versions : p[1] = q[1] => p[2] = q[2]
    /\ ~Gone(lkind, word) => \A p \in versions : Past(p[1])
    /\ Stable => <<Base(lkind, word), datum>> \in versions

\* What a reader has read so far is what is there, if it could still validate.
ReaderInv ==
    \A t \in LockThread : lpc[t] \in Reading =>
        /\ Free(lkind, lv[t])
        /\ ~Gone(lkind, word) => Past(lv[t])
        /\ Stable /\ lv[t] = Base(lkind, word) =>
             /\ lpc[t] \in {"read y", "read"} => copy[t][1] = datum[1]
             /\ lpc[t] = "read" => copy[t][2] = datum[2]

LockInv == LockTypeOK /\ HolderInv /\ HistoryInv /\ ReaderInv

LEMMA NoWords == <<0, 0>> \in Words
BY DEF Words

LEMMA LockInitInv == LockInit => LockInv
<1> SUFFICES ASSUME LockInit PROVE LockInv
  OBVIOUS
<1>1. lkind \in Kind /\ word \in Nat /\ Free(lkind, word)
  BY DEF LockInit, Kind, Free, new_lock, ORPHAN_BIT, is_unlocked, seq_is_unlocked, State,
         FREEZE_BIT
<1>2. LockTypeOK
  BY <1>1, NoWords DEF LockInit, LockTypeOK
<1>3. Base(lkind, word) = word /\ ~Taken(lkind, word) /\ ~Frozen(lkind, word)
  BY <1>1, BaseWord, WordStates DEF Taken
<1>4. HolderInv
  BY <1>1, <1>3 DEF LockInit, HolderInv, Holding, Freezing
<1>5. HistoryInv
  BY <1>3 DEF LockInit, HistoryInv, Past
<1>6. ReaderInv
  BY DEF LockInit, ReaderInv, Reading
<1> QED
  BY <1>2, <1>4, <1>5, <1>6 DEF LockInv

\* A step that leaves the word, the data and the history alone, of a thread that
\* neither holds nor freezes the lock before or after it.
LEMMA OutsideStep ==
    ASSUME LockInv, LockTypeOK', NEW t \in LockThread, NEW pc \in {"idle", "valid"} \cup Reading,
           lpc[t] \in {"idle", "valid"} \cup Reading, LockGoto(t, pc),
           UNCHANGED <<lkind, word, datum, versions>>,
           \A u \in LockThread : u # t => lv'[u] = lv[u] /\ copy'[u] = copy[u],
           pc \in Reading =>
             /\ Free(lkind, lv'[t])
             /\ ~Gone(lkind, word) => Past(lv'[t])
             /\ Stable /\ lv'[t] = Base(lkind, word) =>
                  /\ pc \in {"read y", "read"} => copy'[t][1] = datum[1]
                  /\ pc = "read" => copy'[t][2] = datum[2]
    PROVE  LockInv'
<1>1. /\ lpc'[t] = pc
      /\ \A u \in LockThread : u # t => lpc'[u] = lpc[u]
  BY DEF LockInv, LockTypeOK, LockGoto
<1>2. HolderInv'
  BY <1>1 DEF LockInv, HolderInv, Reading, Holding, Freezing
<1>3. Stable' <=> Stable
  BY <1>1 DEF Stable, Reading
<1>4. HistoryInv'
  BY <1>3 DEF LockInv, HistoryInv, Past
<1>5. ReaderInv'
  BY <1>1, <1>3 DEF LockInv, ReaderInv, Past
<1> QED
  BY <1>2, <1>4, <1>5 DEF LockInv

\* Forgetting a read.
LEMMA ForgetStep ==
    ASSUME LockInv, NEW t \in LockThread, lpc[t] \in {"idle", "valid"} \cup Reading,
           LockForget(t), UNCHANGED <<lkind, word, datum, versions>>
    PROVE  LockInv'
<1>1. LockTypeOK'
  BY NoWords DEF LockInv, LockTypeOK, LockForget, LockGoto
<1>2. \A u \in LockThread : u # t => lv'[u] = lv[u] /\ copy'[u] = copy[u]
  BY DEF LockInv, LockTypeOK, LockForget
<1> QED
  BY <1>1, <1>2, OutsideStep DEF LockForget, Reading

LEMMA ReaderSteps ==
    ASSUME LockInv, NEW t \in LockThread,
           BeginReading(t) \/ ReadWord(t) \/ ConfirmReading(t) \/ FinishReading(t)
    PROVE  LockInv'
<1>0. LockTypeOK
  BY DEF LockInv
<1>1. CASE BeginReading(t)
  <2>1. Base(lkind, word) \in Nat /\ lv' = [lv EXCEPT ![t] = Base(lkind, word)]
    BY <1>0, <1>1, KindOperators, BaseWord DEF BeginReading, LockTypeOK
  <2>2. LockTypeOK'
    BY <1>0, <1>1, <2>1 DEF BeginReading, LockTypeOK, LockGoto, Reading
  <2>3. Free(lkind, Base(lkind, word))
    BY <1>0, BaseWord DEF LockTypeOK
  <2> QED
    BY <1>0, <1>1, <2>1, <2>2, <2>3, OutsideStep
       DEF BeginReading, LockTypeOK, Past, Reading
<1>2. CASE lpc[t] = "read x" /\ ReadWord(t)
  <2> DEFINE w == [copy[t] EXCEPT ![1] = datum[1]]
  <2>1. w \in Words /\ w[1] = datum[1]
    <3>1. copy[t] \in Words /\ datum \in Words
      BY <1>0 DEF LockTypeOK
    <3> QED
      BY <3>1 DEF Words
  <2>2. LockGoto(t, "read y") /\ copy' = [copy EXCEPT ![t] = w]
    BY <1>2 DEF ReadWord
  <2> HIDE DEF w
  <2>3. LockTypeOK' /\ copy'[t] = w
    BY <1>0, <1>2, <2>1, <2>2 DEF ReadWord, LockTypeOK, LockGoto, Reading
  <2>4. \A u \in LockThread : u # t => lv'[u] = lv[u] /\ copy'[u] = copy[u]
    BY <1>0, <1>2, <2>2 DEF ReadWord, LockTypeOK
  <2> QED
    BY <1>2, <2>1, <2>2, <2>3, <2>4, OutsideStep DEF ReadWord, LockInv, ReaderInv, Reading
<1>3. CASE lpc[t] = "read y" /\ ReadWord(t)
  <2> DEFINE w == [copy[t] EXCEPT ![2] = datum[2]]
  <2>1. w \in Words /\ w[2] = datum[2] /\ w[1] = copy[t][1]
    <3>1. copy[t] \in Words /\ datum \in Words
      BY <1>0 DEF LockTypeOK
    <3> QED
      BY <3>1 DEF Words
  <2>2. LockGoto(t, "read") /\ copy' = [copy EXCEPT ![t] = w]
    BY <1>3 DEF ReadWord
  <2> HIDE DEF w
  <2>3. LockTypeOK' /\ copy'[t] = w
    BY <1>0, <1>3, <2>1, <2>2 DEF ReadWord, LockTypeOK, LockGoto, Reading
  <2>4. \A u \in LockThread : u # t => lv'[u] = lv[u] /\ copy'[u] = copy[u]
    BY <1>0, <1>3, <2>2 DEF ReadWord, LockTypeOK
  <2> QED
    BY <1>3, <2>1, <2>2, <2>3, <2>4, OutsideStep DEF ReadWord, LockInv, ReaderInv, Reading
<1>4. CASE ConfirmReading(t)
  <2>1. CASE LockForget(t)
    BY <1>4, <2>1, ForgetStep DEF ConfirmReading, Reading
  <2>2. CASE LockGoto(t, "valid") /\ UNCHANGED <<lv, copy>>
    <3>1. LockTypeOK'
      BY <1>0, <1>4, <2>2 DEF ConfirmReading, LockTypeOK, LockGoto, Reading
    <3> QED
      BY <1>4, <2>2, <3>1, OutsideStep DEF ConfirmReading, Reading
  <2> QED
    BY <1>4, <2>1, <2>2 DEF ConfirmReading
<1>5. CASE FinishReading(t)
  BY <1>5, ForgetStep DEF FinishReading
<1> QED
  BY <1>1, <1>2, <1>3, <1>4, <1>5 DEF ReadWord

\* A thread outside takes a free lock, or freezes it: the word keeps its counter
\* and the data is as it was.
LEMMA TakeStep ==
    ASSUME LockInv, LockTypeOK', NEW t \in LockThread, NEW pc \in {"held", "frozen"},
           LockGoto(t, pc), UNCHANGED <<lkind, datum, versions>>,
           \A u \in LockThread : u # t => lv'[u] = lv[u] /\ copy'[u] = copy[u],
           Free(lkind, word), Count(lkind, word) <= MaxVersion,
           Base(lkind, word') = Base(lkind, word), Count(lkind, word') = Count(lkind, word),
           pc = "held" => Taken(lkind, word'),
           pc = "frozen" => Frozen(lkind, word')
    PROVE  LockInv'
<1>0. LockTypeOK /\ lkind' = lkind /\ word' \in Nat
  BY DEF LockInv, LockTypeOK
<1>1. /\ lpc'[t] = pc
      /\ \A u \in LockThread : u # t => lpc'[u] = lpc[u]
  BY <1>0 DEF LockTypeOK, LockGoto
<1>2. \A u \in LockThread : lpc[u] \notin Holding \cup Freezing
  BY <1>0, WordStates DEF LockInv, HolderInv, LockTypeOK, Taken
<1>3. ~Gone(lkind, word) /\ ~Gone(lkind, word')
  BY <1>0, WordStates DEF LockTypeOK, Taken
<1>4. HolderInv'
  BY <1>0, <1>1, <1>2, <1>3, WordStates DEF HolderInv, Holding, Freezing, LockTypeOK, Taken
<1>5. Stable /\ Stable'
  BY <1>0, <1>1, <1>2, <1>3 DEF Stable, Holding, Freezing
<1>6. HistoryInv'
  BY <1>3, <1>5 DEF LockInv, HistoryInv, Past
<1>7. ReaderInv'
  BY <1>1, <1>3, <1>5 DEF LockInv, ReaderInv, Past, Reading
<1> QED
  BY <1>4, <1>6, <1>7 DEF LockInv

LEMMA TakingSteps ==
    ASSUME LockInv, NEW t \in LockThread,
           TryUpgrade(t) \/ TryFreeze(t) \/ Acquire(t) \/ Freeze(t)
    PROVE  LockInv'
<1>0. LockTypeOK /\ lkind \in Kind /\ word \in Nat
  BY DEF LockInv, LockTypeOK
<1>k. /\ Sv <=> lkind = "sv"
      /\ Acquired(word) = IF lkind = "sv" THEN acquire(word) ELSE seq_acquire(word)
      /\ Unlocked(word) <=> Free(lkind, word)
      /\ \A v \in Nat : Version(v) = Count(lkind, v)
  BY <1>0, KindOperators DEF Acquired, Sv
<1>r. ASSUME lpc[t] = "read", word = lv[t]
      PROVE  Free(lkind, word)
  BY <1>r DEF LockInv, ReaderInv, Reading
<1>f. ASSUME Free(lkind, word) PROVE Base(lkind, word) = word
  BY <1>0, <1>f, BaseWord
<1>1. ASSUME word' = Acquired(word), LockGoto(t, "held"),
             Free(lkind, word), Version(word) <= MaxVersion,
             UNCHANGED <<lkind, datum, versions, lv>>,
             copy' = copy \/ copy' = [copy EXCEPT ![t] = datum]
      PROVE  LockInv'
  <2>1. /\ word' \in Nat /\ Taken(lkind, word') /\ Base(lkind, word') = word
        /\ Count(lkind, word') = Count(lkind, word)
    BY <1>0, <1>1, <1>k, AcquireWord
  <2>2. LockTypeOK'
    BY <1>0, <1>1, <2>1 DEF LockTypeOK, LockGoto, Holding
  <2>3. \A u \in LockThread : u # t => lv'[u] = lv[u] /\ copy'[u] = copy[u]
    BY <1>0, <1>1 DEF LockTypeOK
  <2> QED
    BY <1>0, <1>1, <1>k, <1>f, <2>1, <2>2, <2>3, TakeStep
<1>2. ASSUME Sv, word' = freeze(word), LockGoto(t, "frozen"),
             Free(lkind, word), Version(word) <= MaxVersion,
             UNCHANGED <<lkind, datum, versions, lv>>,
             copy' = copy \/ copy' = [copy EXCEPT ![t] = datum]
      PROVE  LockInv'
  <2>1. /\ word' \in Nat /\ Frozen(lkind, word') /\ Base(lkind, word') = word
        /\ Count(lkind, word') = Count(lkind, word)
    BY <1>0, <1>2, <1>k, FreezeWord
  <2>2. LockTypeOK'
    BY <1>0, <1>2, <2>1 DEF LockTypeOK, LockGoto, Freezing
  <2>3. \A u \in LockThread : u # t => lv'[u] = lv[u] /\ copy'[u] = copy[u]
    BY <1>0, <1>2 DEF LockTypeOK
  <2> QED
    BY <1>0, <1>2, <1>k, <1>f, <2>1, <2>2, <2>3, TakeStep
<1>3. ASSUME lpc[t] = "read", LockForget(t), UNCHANGED <<lkind, word, datum, versions>>
      PROVE  LockInv'
  BY <1>3, ForgetStep DEF Reading
<1>4. CASE TryUpgrade(t)
  <2>1. CASE Upgrades(word, lv[t])
    <3>1. word = lv[t]
      BY <2>1 DEF Upgrades, try_upgrade_ok, seq_try_upgrade_ok
    <3> QED
      BY <1>4, <2>1, <3>1, <1>1, <1>r DEF TryUpgrade
  <2> QED
    BY <1>4, <2>1, <1>3 DEF TryUpgrade
<1>5. CASE TryFreeze(t)
  <2>1. CASE try_freeze_ok(word, lv[t])
    BY <1>5, <2>1, <1>2, <1>r DEF TryFreeze, try_freeze_ok
  <2> QED
    BY <1>5, <2>1, <1>3 DEF TryFreeze
<1>6. CASE Acquire(t)
  BY <1>6, <1>1, <1>k DEF Acquire
<1>7. CASE Freeze(t)
  BY <1>7, <1>2, <1>k DEF Freeze
<1> QED
  BY <1>4, <1>5, <1>6, <1>7

\* The holder or freezer t goes on, or gives the lock back, without touching the
\* data or the counter.
LEMMA KeepStep ==
    ASSUME LockInv, LockTypeOK', NEW t \in LockThread, NEW pc \in {"idle", "held", "upgrading"},
           LockGoto(t, pc), lpc[t] \in {"held", "frozen", "upgrading"},
           UNCHANGED <<lkind, datum>>,
           \A u \in LockThread : u # t => lv'[u] = lv[u] /\ copy'[u] = copy[u],
           Base(lkind, word') = Base(lkind, word), Count(lkind, word') = Count(lkind, word),
           pc = "idle" => Free(lkind, word'),
           pc = "held" => Taken(lkind, word'),
           pc = "upgrading" => Frozen(lkind, word') /\ lv'[t] = word',
           versions' \in {versions, versions \cup {<<Base(lkind, word), datum>>}}
    PROVE  LockInv'
<1>0. LockTypeOK /\ lkind' = lkind /\ word' \in Nat
  BY DEF LockInv, LockTypeOK
<1>1. /\ lpc'[t] = pc
      /\ \A u \in LockThread : u # t => lpc'[u] = lpc[u]
  BY <1>0 DEF LockTypeOK, LockGoto
<1>2. \A u \in LockThread : u # t => lpc[u] \notin Holding \cup Freezing
  BY DEF LockInv, HolderInv, Holding, Freezing
<1>3. Taken(lkind, word) \/ Frozen(lkind, word)
  BY DEF LockInv, HolderInv, Holding, Freezing
<1>4. ~Gone(lkind, word) /\ ~Gone(lkind, word') /\ Count(lkind, word) <= MaxVersion
  BY <1>0, <1>3, WordStates DEF LockInv, HolderInv, LockTypeOK, Taken
<1>5. HolderInv'
  BY <1>0, <1>1, <1>2, <1>4, WordStates DEF HolderInv, Holding, Freezing, LockTypeOK, Taken
<1>6. Stable /\ Stable'
  BY <1>0, <1>1, <1>2, <1>4 DEF Stable, Holding, Freezing
<1>7. <<Base(lkind, word), datum>> \in versions
  BY <1>6 DEF LockInv, HistoryInv
<1>8. versions' = versions
  BY <1>7
<1>9. HistoryInv'
  BY <1>0, <1>4, <1>6, <1>8 DEF LockInv, HistoryInv, Past
<1>10. ReaderInv'
  <2> SUFFICES ASSUME NEW u \in LockThread, lpc'[u] \in Reading
               PROVE  /\ Free(lkind, lv'[u])
                      /\ \/ lv'[u] = Base(lkind, word)
                         \/ Count(lkind, lv'[u]) < Count(lkind, word)
                      /\ lv'[u] = Base(lkind, word) =>
                           /\ lpc'[u] \in {"read y", "read"} => copy'[u][1] = datum[1]
                           /\ lpc'[u] = "read" => copy'[u][2] = datum[2]
    BY <1>0 DEF ReaderInv, Past
  <2>1. u # t
    BY <1>1 DEF Reading
  <2>2. lpc'[u] = lpc[u] /\ lv'[u] = lv[u] /\ copy'[u] = copy[u]
    BY <1>1, <2>1
  <2> QED
    BY <1>4, <1>6, <2>2 DEF LockInv, ReaderInv, Past
<1> QED
  BY <1>5, <1>9, <1>10 DEF LockInv

LEMMA FreezerSteps ==
    ASSUME LockInv, NEW t \in LockThread,
           AcquireFrozenLoad(t) \/ AcquireFrozenStore(t) \/ Thaw(t)
    PROVE  LockInv'
<1>0. LockTypeOK /\ word \in Nat
  BY DEF LockInv, LockTypeOK
<1>1. lpc[t] \in Freezing
  BY DEF AcquireFrozenLoad, AcquireFrozenStore, Thaw, Freezing
<1>2. Frozen(lkind, word) /\ lkind = "sv"
  BY <1>1 DEF LockInv, HolderInv, Frozen
<1>3. CASE AcquireFrozenLoad(t)
  <2>1. LockTypeOK'
    BY <1>0, <1>3 DEF AcquireFrozenLoad, LockTypeOK, LockGoto, Freezing
  <2>2. lv'[t] = word /\ \A u \in LockThread : u # t => lv'[u] = lv[u]
    BY <1>0, <1>3 DEF AcquireFrozenLoad, LockTypeOK
  <2> QED
    BY <1>2, <1>3, <2>1, <2>2, KeepStep DEF AcquireFrozenLoad
<1>4. CASE AcquireFrozenStore(t)
  <2>1. word' = acquire_frozen(word)
    BY <1>4 DEF AcquireFrozenStore, LockInv, HolderInv
  <2>2. LockTypeOK'
    BY <1>0, <1>2, <1>4, <2>1, UnfreezeWord DEF AcquireFrozenStore, LockTypeOK, LockGoto, Holding
  <2> QED
    BY <1>0, <1>2, <1>4, <2>1, <2>2, UnfreezeWord, KeepStep DEF AcquireFrozenStore
<1>5. CASE Thaw(t)
  <2>1. LockTypeOK'
    BY <1>0, <1>2, <1>5, UnfreezeWord, NoWords DEF Thaw, LockTypeOK, LockForget, LockGoto
  <2>2. \A u \in LockThread : u # t => lv'[u] = lv[u] /\ copy'[u] = copy[u]
    BY <1>0, <1>5 DEF Thaw, LockForget, LockTypeOK
  <2>3. /\ word' = Base(lkind, word) /\ Free(lkind, word')
    BY <1>0, <1>2, <1>5, UnfreezeWord DEF Thaw
  <2>4. Base(lkind, word') = Base(lkind, word) /\ Count(lkind, word') = Count(lkind, word)
    BY <1>0, <1>2, <2>3, BaseWord DEF LockTypeOK
  <2> QED
    BY <1>5, <2>1, <2>2, <2>3, <2>4, KeepStep DEF Thaw, LockForget
<1> QED
  BY <1>3, <1>4, <1>5

\* While the holder writes, no reader can validate: nothing is promised to it.
LEMMA WriterSteps ==
    ASSUME LockInv, NEW t \in LockThread, WriteWord(t)
    PROVE  LockInv'
<1>0. LockTypeOK
  BY DEF LockInv
<1>1. PICK pc \in {"half", "written"} : LockGoto(t, pc)
  BY DEF WriteWord
<1>2. datum' \in Words
  BY <1>0 DEF WriteWord, LockTypeOK, Words
<1>3. LockTypeOK'
  BY <1>0, <1>1, <1>2 DEF WriteWord, LockTypeOK, LockGoto, Holding
<1>4. /\ lpc'[t] = pc /\ lpc[t] \in Holding
      /\ \A u \in LockThread : u # t => lpc'[u] = lpc[u]
  BY <1>0, <1>1 DEF WriteWord, LockTypeOK, LockGoto, Holding
<1>5. HolderInv'
  BY <1>4 DEF WriteWord, LockInv, HolderInv, Holding, Freezing
<1>6. ~Stable'
  BY <1>4 DEF Stable
<1>7. HistoryInv'
  BY <1>6 DEF WriteWord, LockInv, HistoryInv, Past
<1>8. ReaderInv'
  BY <1>4, <1>6 DEF WriteWord, LockInv, ReaderInv, Past, Reading, Holding
<1> QED
  BY <1>3, <1>5, <1>7, <1>8 DEF LockInv

\* A release that counts: the readers that began before it can no longer
\* validate, and the history has never seen the new word.
LEMMA CountedRelease ==
    ASSUME LockInv, NEW t \in LockThread, lpc[t] \in Holding, NEW w,
           NextWord(lkind, word, w), Leave(t, w)
    PROVE  LockInv'
<1>0. LockTypeOK /\ lkind' = lkind /\ word' = w /\ word' \in Nat /\ datum' = datum
  BY DEF LockInv, LockTypeOK, Leave, NextWord
<1>1. LockTypeOK'
  <2>1. versions' \subseteq Nat \X Words
    BY <1>0 DEF LockTypeOK, Leave
  <2> QED
    BY <1>0, <2>1, NoWords DEF Leave, LockForget, LockGoto, LockTypeOK
<1>2. /\ lpc'[t] = "idle"
      /\ \A u \in LockThread : u # t =>
           lpc'[u] = lpc[u] /\ lv'[u] = lv[u] /\ copy'[u] = copy[u]
  BY <1>0 DEF LockTypeOK, Leave, LockForget, LockGoto
<1>3. \A u \in LockThread : u # t => lpc[u] \notin Holding \cup Freezing
  BY DEF LockInv, HolderInv
<1>4. /\ Free(lkind, word') /\ Base(lkind, word') = word'
      /\ Count(lkind, word') = Count(lkind, word) + 1
      /\ ~Gone(lkind, word) /\ ~Gone(lkind, word')
      /\ ~Taken(lkind, word') /\ ~Frozen(lkind, word')
  BY <1>0, BaseWord, WordStates DEF LockInv, HolderInv, LockTypeOK, Taken, NextWord
<1>5. HolderInv'
  BY <1>0, <1>2, <1>3, <1>4 DEF HolderInv, Holding, Freezing
<1>6. ASSUME NEW v \in Nat, Past(v)
      PROVE  v # Base(lkind, word') /\ Count(lkind, v) < Count(lkind, word')
  <2>1. /\ Count(lkind, v) \in Nat /\ Count(lkind, word) \in Nat
        /\ Count(lkind, Base(lkind, word)) = Count(lkind, word)
    BY <1>0, BaseWord DEF LockTypeOK
  <2> QED
    BY <1>4, <1>6, <2>1 DEF Past
<1>7. ASSUME NEW p \in versions
      PROVE  p[1] \in Nat /\ p[1] # word' /\ Count(lkind, p[1]) < Count(lkind, word')
  <2>1. p[1] \in Nat /\ Past(p[1])
    BY <1>0, <1>4 DEF LockTypeOK, LockInv, HistoryInv
  <2> QED
    BY <1>4, <1>6, <2>1
<1>8. versions' = versions \cup {<<word', datum>>}
  BY <1>0 DEF Leave
<1>9. HistoryInv'
  <2>1. \A p, q \in versions' : p[1] = q[1] => p[2] = q[2]
    BY <1>7, <1>8 DEF LockInv, HistoryInv
  <2>2. \A p \in versions' : Past(p[1])'
    BY <1>0, <1>4, <1>7, <1>8 DEF Past
  <2>3. <<Base(lkind', word'), datum'>> \in versions'
    BY <1>0, <1>4, <1>8
  <2> QED
    BY <2>1, <2>2, <2>3 DEF HistoryInv
<1>10. ReaderInv'
  <2> SUFFICES ASSUME NEW u \in LockThread, lpc'[u] \in Reading
               PROVE  /\ Free(lkind, lv[u]) /\ lv'[u] = lv[u]
                      /\ lv[u] # Base(lkind, word') /\ Count(lkind, lv[u]) < Count(lkind, word')
    BY <1>0 DEF ReaderInv, Past
  <2>1. u # t
    BY <1>2 DEF Reading
  <2>2. lpc[u] \in Reading /\ lv'[u] = lv[u] /\ lv[u] \in Nat
    BY <1>0, <1>2, <2>1 DEF LockTypeOK
  <2>3. Free(lkind, lv[u]) /\ Past(lv[u])
    BY <1>4, <2>2 DEF LockInv, ReaderInv
  <2> QED
    BY <1>6, <2>2, <2>3
<1> QED
  BY <1>1, <1>5, <1>9, <1>10 DEF LockInv

LEMMA ReleaseSteps ==
    ASSUME LockInv, NEW t \in LockThread,
           Release(t) \/ ReleaseAsOrphan(t) \/ ReleaseAndAdopt(t) \/ ReleaseChangedIf(t)
    PROVE  LockInv'
<1>0. /\ LockTypeOK /\ word \in Nat /\ lkind \in Kind
      /\ lpc[t] \in {"held", "written"} /\ lpc[t] \in Holding
  BY DEF LockInv, LockTypeOK, Release, ReleaseAsOrphan, ReleaseAndAdopt, ReleaseChangedIf, Holding
<1>1. Taken(lkind, word) /\ Count(lkind, word) <= MaxVersion
  BY <1>0 DEF LockInv, HolderInv
<1>2. CASE Release(t)
  BY <1>0, <1>1, <1>2, ReleaseWord, CountedRelease DEF Release, Sv
<1>3. CASE ReleaseAsOrphan(t)
  BY <1>0, <1>1, <1>3, ReleaseWord, CountedRelease DEF ReleaseAsOrphan, Sv
<1>4. CASE ReleaseAndAdopt(t)
  BY <1>0, <1>1, <1>4, ReleaseWord, CountedRelease DEF ReleaseAndAdopt, Sv
<1>5. CASE ReleaseChangedIf(t) /\ lpc[t] = "written"
  BY <1>0, <1>1, <1>5, ReleaseWord, CountedRelease
     DEF ReleaseChangedIf, Sv, release_changed_if, seq_release_changed_if
<1>6. CASE ReleaseChangedIf(t) /\ lpc[t] = "held"
  <2>1. Leave(t, Base(lkind, word))
    BY <1>0, <1>1, <1>6, ReleaseUnchangedWord
       DEF ReleaseChangedIf, Sv, release_changed_if, seq_release_changed_if
  <2>2. LockTypeOK'
    <3>1. Base(lkind, word) \in Nat
      BY <1>0, BaseWord
    <3>2. versions' \subseteq Nat \X Words
      BY <1>0, <2>1, <3>1 DEF LockTypeOK, Leave
    <3> QED
      BY <1>0, <2>1, <3>1, <3>2, NoWords DEF Leave, LockForget, LockGoto, LockTypeOK
  <2>3. \A u \in LockThread : u # t => lv'[u] = lv[u] /\ copy'[u] = copy[u]
    BY <1>0, <2>1 DEF Leave, LockForget, LockTypeOK
  <2>4. /\ word' = Base(lkind, word) /\ Free(lkind, word')
        /\ Base(lkind, word') = Base(lkind, word) /\ Count(lkind, word') = Count(lkind, word)
    BY <1>0, <2>1, BaseWord DEF Leave
  <2> QED
    BY <1>6, <2>1, <2>2, <2>3, <2>4, KeepStep DEF Leave, LockForget
<1> QED
  BY <1>0, <1>2, <1>3, <1>4, <1>5, <1>6

\* Nobody can take or validate a dead lock.
LEMMA DieStep ==
    ASSUME LockInv, NEW t \in LockThread, Die(t)
    PROVE  LockInv'
<1>0. LockTypeOK /\ word \in Nat /\ lkind \in Kind /\ lpc[t] \in Holding
  BY DEF LockInv, LockTypeOK, Die, Holding
<1>1. Taken(lkind, word)
  BY <1>0 DEF LockInv, HolderInv
<1>2. word' \in Nat /\ Gone(lkind, word') /\ lkind' = lkind
  BY <1>0, <1>1, DieWord DEF Die, Sv
<1>3. LockTypeOK'
  BY <1>0, <1>2, NoWords DEF Die, LockForget, LockGoto, LockTypeOK
<1>4. /\ lpc'[t] = "idle"
      /\ \A u \in LockThread : u # t => lpc'[u] = lpc[u] /\ lv'[u] = lv[u]
  BY <1>0 DEF LockTypeOK, Die, LockForget, LockGoto
<1>5. ~Frozen(lkind, word') /\ ~Taken(lkind, word')
  BY <1>0, <1>2, WordStates DEF Taken
<1>6. HolderInv'
  BY <1>0, <1>2, <1>4, <1>5 DEF LockInv, HolderInv, Holding, Freezing
<1>7. HistoryInv'
  BY <1>2 DEF Die, LockInv, HistoryInv, Stable
<1>8. ReaderInv'
  BY <1>2, <1>4 DEF LockInv, ReaderInv, Stable, Reading
<1> QED
  BY <1>3, <1>6, <1>7, <1>8 DEF LockInv

LEMMA LockNextInv == LockInv /\ [LockNext]_lockVars => LockInv'
<1> SUFFICES ASSUME LockInv, [LockNext]_lockVars PROVE LockInv'
  OBVIOUS
<1>1. CASE UNCHANGED lockVars
  BY <1>1 DEF lockVars, LockInv, LockTypeOK, HolderInv, HistoryInv, ReaderInv, Stable, Past
<1>2. CASE LockNext
  BY <1>2, ReaderSteps, TakingSteps, FreezerSteps, WriterSteps, ReleaseSteps, DieStep
     DEF LockNext
<1> QED
  BY <1>1, <1>2

LEMMA LockInvariant == LockSpec => []LockInv
BY LockInitInv, LockNextInv, PTL DEF LockSpec

\* Mutual exclusion of node locks (sv_lock.h, seq_lock.h): at most one thread
\* holds or freezes a lock, and the word says so to everybody else.
THEOREM LockHolderSound == LockSpec => []LockWordTellsHolder
<1>1. LockInv => LockWordTellsHolder
  <2> SUFFICES ASSUME LockInv PROVE LockWordTellsHolder
    OBVIOUS
  <2>0. LockTypeOK
    BY DEF LockInv
  <2>1. Cardinality(Writers \cup Freezers) <= 1
    <3>1. CASE Writers \cup Freezers = {}
      BY <3>1, FS_EmptySet
    <3>2. CASE Writers \cup Freezers # {}
      <4>1. PICK t : t \in Writers \cup Freezers
        BY <3>2
      <4>2. Writers \cup Freezers = {t}
        BY <4>1 DEF LockInv, HolderInv, Writers, Freezers, Holding, Freezing
      <4>3. Cardinality({t}) = 1
        BY FS_Singleton
      <4> QED
        BY <4>2, <4>3
    <3> QED
      BY <3>1, <3>2
  <2>2. /\ Unlocked(word) <=> Free(lkind, word)
        /\ Dead(word) <=> Gone(lkind, word)
        /\ Sv /\ is_frozen(word) <=> Frozen(lkind, word)
    BY <2>0, KindOperators DEF LockTypeOK, Frozen
  <2>3. Writers # {} => Taken(lkind, word) /\ Freezers = {}
    BY <2>0, WordStates DEF LockInv, HolderInv, Writers, Freezers, Holding, Freezing, LockTypeOK, Taken
  <2>4. Freezers # {} => Frozen(lkind, word)
    BY DEF LockInv, HolderInv, Freezers, Freezing
  <2>5. Writers = {} /\ Freezers = {} => Free(lkind, word) \/ Gone(lkind, word)
    BY DEF LockInv, HolderInv, Writers, Freezers, Holding, Freezing
  <2> QED
    BY <2>0, <2>1, <2>2, <2>3, <2>4, <2>5, WordStates DEF LockWordTellsHolder, LockTypeOK, Taken
<1> QED
  BY <1>1, LockInvariant, PTL

\* No ABA on the lock word: whatever releases there have been, a word that comes
\* back to a reader stands for the same data.
THEOREM LockVersionsSound == LockSpec => []VersionNamesData
<1>1. LockInv => VersionNamesData
  <2> SUFFICES ASSUME LockInv PROVE VersionNamesData
    OBVIOUS
  <2>1. /\ Dead(word) <=> Gone(lkind, word)
        /\ BeginRead(word) = Base(lkind, word)
    BY KindOperators DEF LockInv, LockTypeOK
  <2>2. Writers = {} => \A t \in LockThread : lpc[t] \notin {"half", "written"}
    BY DEF Writers
  <2> QED
    BY <2>1, <2>2 DEF VersionNamesData, LockInv, HistoryInv, Stable
<1> QED
  BY <1>1, LockInvariant, PTL

\* confirm_read(), try_upgrade() and try_freeze() succeed only for a reader that
\* has seen both words as they are now.
THEOREM LockReadsSound == LockSpec => ValidatedReadsAreCurrent
<1> DEFINE Current == \A t \in LockThread :
             lpc[t] = "read" /\ lpc'[t] \in {"valid", "held", "frozen"} => copy[t] = datum
<1>1. LockInv /\ [LockNext]_lockVars => [Current]_lockVars
  <2> SUFFICES ASSUME LockInv, LockNext, NEW t \in LockThread,
                      lpc[t] = "read", lpc'[t] \in {"valid", "held", "frozen"}
               PROVE  copy[t] = datum
    OBVIOUS
  <2>0. LockTypeOK /\ lkind \in Kind /\ word \in Nat /\ lv[t] \in Nat
    BY DEF LockInv, LockTypeOK
  <2>1. PICK u \in LockThread :
        \/ BeginReading(u) \/ ReadWord(u) \/ ConfirmReading(u) \/ FinishReading(u)
        \/ TryUpgrade(u) \/ TryFreeze(u) \/ Acquire(u) \/ Freeze(u)
        \/ AcquireFrozenLoad(u) \/ AcquireFrozenStore(u) \/ Thaw(u)
        \/ WriteWord(u) \/ Release(u) \/ ReleaseAsOrphan(u) \/ ReleaseAndAdopt(u)
        \/ ReleaseChangedIf(u) \/ Die(u)
    BY DEF LockNext
  <2>2. \A v \in LockThread : v # u => lpc'[v] = lpc[v]
    BY <2>0, <2>1 DEF LockTypeOK, LockGoto, LockForget, Leave,
       BeginReading, ReadWord, ConfirmReading, FinishReading,
       TryUpgrade, TryFreeze, Acquire, Freeze, AcquireFrozenLoad, AcquireFrozenStore, Thaw,
       WriteWord, Release, ReleaseAsOrphan, ReleaseAndAdopt, ReleaseChangedIf, Die
  <2>3. u = t
    BY <2>2
  <2>4. /\ LockForget(t) => lpc'[t] = "idle"
        /\ LockGoto(t, "read x") => lpc'[t] = "read x"
    BY <2>0 DEF LockTypeOK, LockForget, LockGoto
  <2>5. Free(lkind, lv[t])
    BY DEF LockInv, ReaderInv, Reading
  <2>6. ~Taken(lkind, word) /\ ~Gone(lkind, word) /\ Base(lkind, word) = lv[t]
    <3>1. CASE ConfirmReading(t)
      <4>1. Confirms(word, lv[t])
        BY <2>4, <3>1 DEF ConfirmReading
      <4> QED
        BY <2>0, <2>5, <4>1, ConfirmWord DEF Confirms, Sv
    <3>2. CASE TryUpgrade(t) \/ TryFreeze(t)
      <4>1. word = lv[t]
        BY <2>4, <3>2 DEF TryUpgrade, TryFreeze, Upgrades, try_upgrade_ok, seq_try_upgrade_ok,
                          try_freeze_ok
      <4> QED
        BY <2>0, <2>5, <4>1, WordStates, BaseWord DEF Taken
    <3> QED
      BY <2>1, <2>3, <3>1, <3>2
         DEF BeginReading, ReadWord, FinishReading, Acquire, Freeze, AcquireFrozenLoad,
             AcquireFrozenStore, Thaw, WriteWord, Release, ReleaseAsOrphan, ReleaseAndAdopt,
             ReleaseChangedIf, Die
  <2>7. Stable
    BY <2>0, <2>6 DEF LockInv, HolderInv, Stable, Holding
  <2>8. copy[t][1] = datum[1] /\ copy[t][2] = datum[2]
    BY <2>6, <2>7 DEF LockInv, ReaderInv, Reading
  <2>9. copy[t] \in Words /\ datum \in Words
    BY <2>0 DEF LockTypeOK
  <2> QED
    BY <2>8, <2>9 DEF Words
<1> QED
  BY <1>1, LockInvariant, PTL DEF LockSpec, ValidatedReadsAreCurrent
=============================================================================

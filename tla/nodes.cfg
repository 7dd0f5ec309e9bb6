SPECIFICATION NodesSpec
CONSTANTS
  t1 = t1
  t2 = t2
  t3 = t3
  LockThread = {t1, t2, t3}
  MaxVersion = 1
  SeqWords = 256
  VecCapacity = 4
  VecKeys = {1, 2, 3, 4, 5, 6}
  VecVals = {1, 2}
  MultiKeys = {1, 2, 3}
  HpThread = {t1, t2}
  HpNodes = 4
  ZombieCap = 3
  StoreBuffer = FALSE
  AsrThread = {t1, t2}
  CAPACITY = 3
  AsrKeys = {1, 2}
  MaxEntries = 4
  MaxLocks = 2
  MirThread = {t1, t2}
  MirConfigs <- MCMirConfigs
  MirCalls = 3
INVARIANT LockWordTellsHolder
INVARIANT VersionNamesData
PROPERTY ValidatedReadsAreCurrent
INVARIANT VectorsHoldTheirEntries
INVARIANT SearchesAgree
INVARIANT NoUseAfterFree
INVARIANT NodesAccounted
INVARIANT NoEntryLost
INVARIANT ReservedSlotsFilled
INVARIANT PendingSplitIsOwed
INVARIANT MirQuiescentVerify
INVARIANT MirFidelity
INVARIANT MirLookupsExact
SYMMETRY Threads
CHECK_DEADLOCK FALSE

SPECIFICATION ReplicationSpec
CONSTANTS
  SeqMod = 65536
  NumClients = 2
  Value = {0}
  NumServers = 3
  Quorum = 2
  NumRegisters = 1
  AsyncParallelism = 1
  RegCache = TRUE
  RegWriteback = FALSE
  MaxCrash = 1
  MaxRange = 1
  Ops <- OneWriterReads
  PutKeys <- AnyKey
  MaxOps = 2
  SgConfigs <- ConfigsAndIdle
  LogIds = 4
INVARIANT CommittedAtQuorum
INVARIANT CommittedSurvives
PROPERTY ReadSeesAcked
INVARIANT SgLinearizable
INVARIANT SgSettled
INVARIANT SgAwaited
PROPERTY SgWordsGrow
CHECK_DEADLOCK FALSE

SPECIFICATION HistSpec
CONSTANTS
  SeqMod = 65536
  NumClients = 2
  Value = {0, 1}
  NumServers = 3
  Quorum = 2
  NumRegisters = 1
  AsyncParallelism = 1
  RegCache = TRUE
  RegWriteback = TRUE
  MaxCrash = 0
  MaxRange = 1
  Ops <- PutGet
  PutKeys <- AnyKey
  MaxOps = 2
INVARIANT TypeOK
INVARIANT PollAccounting
INVARIANT NoLostWakeup
INVARIANT TagsIdentifyValues
PROPERTY MonotoneTags
PROPERTY SessionOrder
CHECK_DEADLOCK FALSE

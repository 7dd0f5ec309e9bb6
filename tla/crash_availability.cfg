SPECIFICATION FairSpec
CONSTANTS
  SeqMod = 65536
  NumClients = 2
  Value = {0}
  NumServers = 3
  Quorum = 2
  NumRegisters = 1
  AsyncParallelism = 1
  RegCache = TRUE
  RegWriteback = FALSE
  MaxCrash = 1
  MaxRange = 1
  Ops <- PutGet
  PutKeys <- AnyKey
  MaxOps = 1
PROPERTY OpEndsDespiteCrash
CHECK_DEADLOCK FALSE

SPECIFICATION LoadSpec
CONSTANTS
  SeqMod = 65536
  NumClients = 2
  Value = {0, 1, 2}
  NumServers = 1
  Quorum = 1
  NumRegisters = 2
  AsyncParallelism = 2
  RegCache = TRUE
  RegWriteback = FALSE
  MaxCrash = 0
  MaxRange = 2
  Ops <- AllOps
  PutKeys <- AnyKey
  MaxOps = 4
PROPERTY AtomicSpec
CHECK_DEADLOCK FALSE

SPECIFICATION HistSpec
CONSTANTS
  SeqMod = 65536
  NumClients = 2
  Value = {0}
  NumServers = 3
  Quorum = 2
  NumRegisters = 1
  AsyncParallelism = 1
  RegCache = FALSE
  RegWriteback = FALSE
  MaxCrash = 0
  MaxRange = 1
  Ops <- AllPut
  PutKeys <- AnyKey
  MaxOps = 1
INVARIANT CommittedAtQuorum
CHECK_DEADLOCK FALSE

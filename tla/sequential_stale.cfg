SPECIFICATION SequentialSpec
CONSTANTS
  SeqMod = 65536
  NumClients = 3
  Value = {0}
  NumServers = 3
  Quorum = 2
  NumRegisters = 1
  AsyncParallelism = 1
  RegCache = TRUE
  RegWriteback = FALSE
  MaxCrash = 0
  MaxRange = 1
  Ops <- LastGets
  PutKeys <- AnyKey
  MaxOps = 2
PROPERTY ReadSeesAcked
CHECK_DEADLOCK FALSE

SPECIFICATION DeploySpec
CONSTANTS
  RdvDeployments <- MCRdvDeployments
  RdvRuns = 2
  RdvTimeouts = 1
  SeqMod = 65536
  NumClients = 2
  Value = {0}
  NumServers = 3
  Quorum = 2
  NumRegisters = 1
  AsyncParallelism = 1
  RegCache = TRUE
  RegWriteback = FALSE
  MaxCrash = 1
  MaxRange = 1
  Ops <- AllPut
  PutKeys <- AnyKey
  MaxOps = 2
INVARIANT HaltOnlyOnCrash
INVARIANT RdvNoCollision
INVARIANT RdvWorkIsConnected
PROPERTY OpEnds
PROPERTY RdvRunsEnd
CHECK_DEADLOCK FALSE

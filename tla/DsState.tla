------------------------------ MODULE DsState -------------------------------
(***************************************************************************)
(* What the operations of a disco-skip client share (disco_skip_state.hpp,  *)
(* layout.hpp, cache.hpp): the register arrays of the passive memory        *)
(* servers, the client's flat register cache, the scratch buffers of its    *)
(* futures, its reliable connections to the servers, and the number of      *)
(* completions it still has to poll from each of them.                      *)
(*                                                                          *)
(* A client runs one thread; a future is one asynchronous operation of it.  *)
(* A client only ever talks to the servers of its quorum, so everything     *)
(* kept per server is indexed by quorum slot: the code indexes part of it   *)
(* by slot and part by server, and quorum_indices maps one to the other     *)
(* one to one.                                                              *)
(***************************************************************************)
EXTENDS Register, Sequences, FiniteSets

CONSTANTS
    NumServers,        \* memory servers (layout.num_servers)
    Quorum,            \* replicas an operation touches (layout.majority)
    NumRegisters,      \* registers per server (layout.num_registers)
    AsyncParallelism,  \* futures per client (layout.async_parallelism)
    RegCache,          \* DS_REG_CACHE_ENABLED
    RegWriteback,      \* DS_REG_WRITEBACK_ENABLED
    MaxCrash           \* bound: memory servers that may fail-stop

ASSUME ServersAssumption == NumServers \in Nat \ {0}
ASSUME QuorumAssumption == Quorum \in 1 .. NumServers
ASSUME RegistersAssumption == NumRegisters \in Nat \ {0}
ASSUME AsyncAssumption == AsyncParallelism \in Nat \ {0}
ASSUME ToggleAssumption == RegCache \in BOOLEAN /\ RegWriteback \in BOOLEAN
ASSUME CrashAssumption == MaxCrash \in Nat

Server == 0 .. (NumServers - 1)
Key == 0 .. (NumRegisters - 1)
Slot == 1 .. Quorum

\* A future is named by the kind bit of its wr_id (bit 63), its client and its
\* index in DsClient::futures or DsClient::range_futures.
OpFut == {"op"} \X Client \X (0 .. (AsyncParallelism - 1))
RangeFut == {"range"} \X Client \X (0 .. (AsyncParallelism - 1))
Fut == OpFut \cup RangeFut
Owner(f) == f[2]

\* DsState::quorum_indices, fixed per client at construction.
quorum_indices(c, i) == (client_idx(c) + i - 1) % NumServers

VARIABLES
    mem,         \* mem[s][k]: register k of memory server s
    up,          \* the memory servers that have not fail-stopped
    halted,      \* clients whose tickRdma threw
    cache,       \* cache[c][k]: Cache::data_
    valid,       \* valid[c]: the keys whose Cache::valid_ bit is set
    to_poll,     \* to_poll[c][i]: to_poll_per_server
    sq,          \* sq[c][i]: work requests posted to the QP, not yet executed
    cq,          \* cq[c][i]: completions not yet polled
    step,        \* step[f]: the future's state
    key,         \* key[f]: the register it works on (start_key of a range)
    bufs,        \* bufs[f][i]: read_bufs (READ) or swap_bufs (CAS)
    ongoing,     \* ongoing[f][i]: ongoing_per_server
    progress     \* progress[f]: a completion arrived since the last step

stateVars == << mem, up, halted, cache, valid, to_poll, sq, cq, step, key,
                bufs, ongoing, progress >>

Step == {"Done", "ReadSeq", "OptimisticChain", "CAS", "Reading", "WritingBack"}

\* Work requests carry the future they belong to as wr_id; a completion
\* carries the wr_id and whether its status is IBV_WC_SUCCESS.
WorkRequest ==
    [fut : OpFut, op : {"read", "cas"}, key : Key,
     expected : Register, target : Register]
    \cup
    [fut : RangeFut, op : {"bulk"}, key : Key,
     expected : {ZeroRegister}, target : {ZeroRegister}]

Completion == [fut : Fut, ok : BOOLEAN]

CasWR(f, k, exp, tgt) ==
    [fut |-> f, op |-> "cas", key |-> k, expected |-> exp, target |-> tgt]
ReadWR(f, k) ==
    [fut |-> f, op |-> "read", key |-> k,
     expected |-> ZeroRegister, target |-> ZeroRegister]
BulkWR(f, k) ==
    [fut |-> f, op |-> "bulk", key |-> k,
     expected |-> ZeroRegister, target |-> ZeroRegister]

StateInit ==
    /\ mem = [s \in Server |-> [k \in Key |-> ZeroRegister]]
    /\ up = Server
    /\ halted = {}
    /\ cache = [c \in Client |-> [k \in Key |-> ZeroRegister]]
    /\ valid = [c \in Client |-> {}]
    /\ to_poll = [c \in Client |-> [i \in Slot |-> 0]]
    /\ sq = [c \in Client |-> [i \in Slot |-> << >>]]
    /\ cq = [c \in Client |-> [i \in Slot |-> << >>]]
    /\ step = [f \in Fut |-> "Done"]
    /\ key = [f \in Fut |-> 0]
    /\ bufs = [f \in OpFut |-> [i \in Slot |-> ZeroRegister]]
    /\ ongoing = [f \in Fut |-> [i \in Slot |-> 0]]
    /\ progress = [f \in Fut |-> FALSE]

StateTypeOK ==
    /\ mem \in [Server -> [Key -> Register]]
    /\ up \subseteq Server
    /\ halted \subseteq Client
    /\ cache \in [Client -> [Key -> Register]]
    /\ valid \in [Client -> SUBSET Key]
    /\ to_poll \in [Client -> [Slot -> Int]]
    /\ sq \in [Client -> [Slot -> Seq(WorkRequest)]]
    /\ cq \in [Client -> [Slot -> Seq(Completion)]]
    /\ step \in [Fut -> Step]
    /\ key \in [Fut -> Key]
    /\ bufs \in [OpFut -> [Slot -> Register]]
    /\ ongoing \in [Fut -> [Slot -> Int]]
    /\ progress \in [Fut -> BOOLEAN]

\* Mutant of Post: the post is not added to the client's to_poll counter.
PostUncounted(f, S, W) ==
    /\ sq' = [sq EXCEPT ![Owner(f)] =
                [i \in Slot |-> IF i \in S THEN Append(@[i], W[i]) ELSE @[i]]]
    /\ ongoing' = [ongoing EXCEPT ![f] =
                [i \in Slot |-> IF i \in S THEN @[i] + 1 ELSE @[i]]]
    /\ UNCHANGED << to_poll, cq >>

(***************************************************************************)
(* Posting: the QPs of the slots in S get the work request W[i]; each post  *)
(* bumps the future's ongoing counter and the client's to_poll counter.     *)
(***************************************************************************)
Post(f, S, W) ==
    /\ sq' = [sq EXCEPT ![Owner(f)] =
                [i \in Slot |-> IF i \in S THEN Append(@[i], W[i]) ELSE @[i]]]
    /\ ongoing' = [ongoing EXCEPT ![f] =
                [i \in Slot |-> IF i \in S THEN @[i] + 1 ELSE @[i]]]
    /\ to_poll' = [to_poll EXCEPT ![Owner(f)] =
                [i \in Slot |-> IF i \in S THEN @[i] + 1 ELSE @[i]]]
    /\ UNCHANGED cq

PostNothing == UNCHANGED << sq, cq, ongoing, to_poll >>

\* Cache::put
CachePut(c, k, reg) ==
    IF RegCache
    THEN /\ cache' = [cache EXCEPT ![c][k] = reg]
         /\ valid' = [valid EXCEPT ![c] = @ \cup {k}]
    ELSE UNCHANGED << cache, valid >>

\* Mutant of Quiet: one completed replica is enough.
QuietSome(f) == \E i \in Slot : ongoing[f][i] <= 0

\* tryStepForward's first line: every RDMA the future issued has completed.
Quiet(f) == \A i \in Slot : ongoing[f][i] <= 0

\* The client thread calls tryStepForward on a future that made progress.
CanStep(f) == progress[f] /\ Owner(f) \notin halted

\* The sequence numbers in f's buffers.
SeqsSeen(f) == {bufs[f][i].seq : i \in Slot}

\* Mutant of IsMaxSeq: the smallest seq.
IsMinSeq(f, S, z, m) ==
    /\ m = z \/ \E i \in S : m = bufs[f][i].seq
    /\ m <= z /\ \A i \in S : m <= bufs[f][i].seq

\* m is the largest seq in the buffers of the slots in S, at least z.
IsMaxSeq(f, S, z, m) ==
    /\ m = z \/ \E i \in S : m = bufs[f][i].seq
    /\ z <= m /\ \A i \in S : bufs[f][i].seq <= m
=============================================================================

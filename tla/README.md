# disco-skip: TLA+ specification, model checking and proofs

disco-skip is a replicated register store on disaggregated memory. Memory
servers are passive: they register a region of 8-byte registers with their RDMA
NIC and run no code per operation. Clients do all the work with one-sided READs
and compare-and-swaps. The repository also carries the system it grew out of
(swarm-kv), a baseline (fusee), a compute-local index cache (the skip vector) and
the RDMA plumbing. This directory holds the specification of these parts, their
checks and proofs, and the plan for the rest.

## 1. Inventory

| Part | State it keeps | Operations | Hard because | Right when |
|---|---|---|---|---|
| Register (`register.hpp`) | one 64-bit word: 16-bit seq, 16-bit writer id, 32-bit value | construct, tag comparison | the seq wraps; comparison ignores values | a tag names one write |
| Put (`put_future.hpp`) | expected word and mark per replica, target, success count | cached fast path, read phase, CAS rounds, reset when outrun | interleaves with other puts at every replica; partial success | an acknowledged put is on a majority and later reads see it |
| Get (`get_future.hpp`) | running maximum | quorum read, optional writeback | reads replicas at different moments; races with puts | not older than what was acknowledged or returned before |
| Range (`range_future.hpp`) | bulk buffers, merged result | one bulk read per replica, merge per register | not atomic across registers | each register is at least as new as any acknowledged put |
| Client engine (`disco_skip_client.hpp`, `disco_skip_state.hpp`) | outstanding completions per server, progress flags, futures | poll, route by `wr_id`, pick a free future, drain | completions interleave; a wakeup can be lost | counters match what is outstanding; every operation ends |
| Register cache (`cache.hpp`) | last known register per key | put, get | may be stale | staleness costs retries, never answers |
| Driver (`main.cpp`) | workload position | YCSB loop, ML tracker | concurrency differs per workload | - |
| Rendezvous (`conn/rc-exchanger.hpp`, `memstore/store.cpp`) | announcements in memcached | announce, wait, connect, unannounce | processes at different speeds, leftovers of a previous run | nobody waits for an announcement that is gone |
| Sequence lock (`sv_lock.h`) | one word: counter, lock, freeze and orphan bits | acquire, freeze, upgrade, release variants, validate | optimistic readers | a validated read saw no change |
| Node vectors (`vector_sfra.h`, `vector_umfra.h`, `multivector_cfra.h`) | a fixed array of entries | insert, remove, searches, splits, merge, range | median splits, gap filling, wrap-around | they hold the entries they were given |
| Slot-reserving vector (`multivector_asr.h`) | slots, two counters, extraction counter | reserve and fill, lock, split, close, extract | reservations race locks and phase changes | no entry lost or taken twice |
| Skip vector (`skipvector.h`) | layers of nodes | contains, insert, remove, for_each, range | optimistic descent, freezes, lazy merges | a map with atomic operations; `verify()` |
| Mirror (`skipvector_disco.h`) | directory and index levels of a remote structure | mirror insert / split / reconcile, lookups | fine-grained locks, lazy repair | the invariants of `verify()`; no wrong routing entry |
| Hazard pointers (`hp_manager.h`) | published pointers, zombies | take, drop, reclaim, sweep | unlocked scans | no node freed while protected |
| swarm-kv (`unreliable_maxreg.hpp`, `relaxed_maxreg.hpp`, `oops_*.hpp`) | per-server max registers, timestamps, logs | Safe-Guess reads and writes | guessed timestamps, notifications, lazy servers | linearizable reads and writes |
| RACE index (`race/*.hpp`) | buckets on servers | search, insert | CAS races on slots | an inserted key is found |
| fusee, conn UD, ctrl, memory, shared, special, third-party, build | - | - | - | support code |

How they interact: `main.cpp` runs the rendezvous, then each client process calls
`getFreeFuture().doPut/doGet` and `getFreeRangeFuture().doRange`. A future posts
work requests on the queue pairs of its client's quorum; the servers' NICs execute
them; `tickRdma` polls the completion queues, routes each completion to its future
through `wr_id`, and sets a progress flag; the client thread then calls
`tryStepForward` on that future. Futures of one client share its queue pairs, its
completion counters and its register cache; clients share only the servers' memory.
At this commit the skip-vector cache is constructed by `DsState` and not consulted by
any future.

## 2. Modules

| Module | Models | Extends |
|---|---|---|
| `Register` | `register.hpp`: word, tag order, 16-bit seq arithmetic, 8-bit client index | - |
| `DsState` | shared state: server memory, connections, counters, cache, futures' buffers; posting | `Register` |
| `PutFuture`, `GetFuture`, `RangeFuture` | the three state machines, one action per transition | `DsState` |
| `DsClient` | the whole store: NIC, server fail-stop, client thread; `Spec`, `FairSpec`, properties of the mechanism | the three futures |
| `AbdHistory` | history variables (acknowledged and per-session tags) that only observe the steps of `DsClient`; properties of quorum replication | `DsClient` |
| `AtomicRegisters` | abstract specification: an array of atomic registers with invoke / linearize / respond | - |
| `OneReplica` | refinement mapping from the store with one replica to `AtomicRegisters` | `DsClient` |
| `DsClientProofs`, `DsAccountingProofs`, `DsTagProofs` | theorems about the register store: types and halts; completions and wakeups; tags | `DsClient`, and each the one before it |
| `OneReplicaProofs` | the refinement of `AtomicRegisters` with one replica | `OneReplica`, `DsTagProofs` |
| `AbdProofs` | theorems about quorum replication with one writer per register, about sessions, and about tags naming values | `AbdHistory`, `DsTagProofs` |
| `SvLock`, `SeqLock` | the lock words of `sv_lock.h` and `seq_lock.h`, one operator per method | - |
| `LockUse` | threads that read and write a pair of words under such a lock | `SvLock`, `SeqLock` |
| `LockProofs` | theorems about the locks | `LockUse` |
| `VectorSfra`, `VectorUmfra`, `MultivectorCfra` | the sequential vector classes as operators on sequences | - |
| `NodeVectors` | two neighbouring vectors and the reference sets they must agree with | the vector modules |
| `MultivectorAsr` | the concurrent vector with atomic slot reservation | - |
| `AsrProofs` | theorems about that vector | `MultivectorAsr` |
| `HazardPointers` | `hp_manager.h`, `hp_thread_context.h` under the traversal of `check_next` | `SvLock` |
| `HazardProofs` | theorems about the hazard pointers | `HazardPointers` |
| `SvNodes` | nodes, `insert_seq`, merge rule and `verify()` of `skipvector.h` | `SvLock`, `VectorSfra` |
| `SkipVector` | the concurrent operations of `skipvector.h` | `SvNodes` |
| `ConcurrentMap` | abstract specification: a map with call / apply / return | - |
| `MirrorCache` | `skipvector_disco.h`: lookups, repairs, insertions, promotion | `SvNodes` |
| `SafeGuess` | swarm-kv: max register of a server, replicated register, Safe-Guess, key operations | - |
| `Rendezvous` | `rc-exchanger.hpp` over `store.cpp`, as called by the three programs and the RACE index | - |
| `MCDsClient`, `MCAbd`, `MCOneReplica`, `MCRendezvous`, `MCDeployment`, `MCNodes`, `MCSkipVector`, `MCSafeGuess`, `MCReplication` | instances for TLC | the modules they check |

`MCNodes`, `MCDeployment` and `MCReplication` bring several components into one run: an initial choice
(`part`) says which of them a behaviour exercises, the others stay at rest. The parts share no
state, so this is the union of their state graphs and not their product.

### Register store

* A client only addresses the servers of its fixed quorum, so everything the code
  keeps per server (`ongoing_per_server`, `to_poll_per_server`, the buffers) or per
  quorum slot (`expected`) is indexed by slot; `quorum_indices` is the one-to-one map
  between the two.
* `sq[c][i]` and `cq[c][i]` are the send queue and the completion queue of the
  connection of client `c` to slot `i`. A reliable connection executes and completes
  in order; connections are independent, so any interleaving between slots and between
  clients is a behaviour.
* `read_bufs` and `swap_bufs` are one variable, `bufs`: a future reads from one of them
  in a phase that has just written all of it, or (the reset of a put) after CAS rounds.
* `NicRead`, `NicCas`, `NicBulkWord`, `NicError` are the hardware: a CAS returns the old
  word whether or not it swaps; a bulk read proceeds register by register, so it is not
  atomic; work for a dead server completes with an error.
* `TickRdma` is one call of `tickRdma`: any prefix of what has arrived on each slot, at
  most `to_poll`. `TickRdmaThrows` is the call that meets an error and throws.
* `DoPutHit` / `DoPutMiss`, `PutStepReadSeq`, `PutStepOptimistic`, `PutStepCAS`,
  `PutStepOutrun` are the branches of `doPut` and `tryStepForward`. The CAS loop is
  sequential code; its outcome depends on whether a slot was outrun, so it is two actions:
  `PutStepCAS` when none is, `PutStepOutrun` when slot `r` is the first. The second action
  says what the loop does to the slots after `r`: their `expected` has just been overwritten
  with their own buffer, so they are counted as successes.
* `StepBlocked` is the `tryStepForward` that finds something outstanding and returns; the
  progress flag is cleared anyway.
* Measurement, counters for reports, logging and printing are left out.

### Locks (`SvLock`, `SeqLock`, `LockUse`)

A lock word is the number the code keeps, with its bits (orphan 1, freeze 2, lock 4, counter from
8; `seq_lock.h` has the lock bit only). Every method is an operator on words; a compare-and-swap
method has a predicate `..._ok` for its success. `LockUse` gives the methods to threads as actions.
What the lock protects is two words, written one after the other and read one after the other, so
that a torn read exists. `acquire_frozen` is two actions, the plain load and the plain store.

### Node vectors

An array with its size is a sequence, except in `multivector_cfra.h`, where the physical layout is
the point and is kept. The operators return what the methods return and leave behind; `NodeVectors`
calls them as the nodes do (insert, split by an insertion, split at a key, steal half, merge,
remove, sort, extract) and keeps the reference beside them. `nth_element` in the unsorted vector is
what the library does on the short ranges the model uses.

`MultivectorAsr` cuts the code at its atomic accesses: the fetch-and-add, the loop on
`cas_counter`, the store of the value, the store of the key, the two stores that close the
fetch-and-add phase, the lock, the roll-back. What a thread does with the lock held and all
reservations filled is one step. The version, lock bit and count packed into the counter are a record.

### Hazard pointers

A thread walks a chain of nodes. `ReadNext` loads `curr`'s next pointer and `TakeNext` publishes it;
`ConfirmTaken` validates `curr`, `BeginNext` reads the lock word of the node taken; `RuleOutNext`
drops a next node that is past the key, `Advance` moves on, or `LockCurr`, `Unlink` and `Push` merge
and reclaim. `Unlink` runs again for the node after the one it has unlinked; when that second
attempt fails, the lock of `curr` is released as changed, and as unchanged when the first one does.
`StartSweep` and `ScanSlot` read the other threads' pointers one load at a time, `Sweep` deletes. With
`StoreBuffer` the relaxed stores of the pointers go through a FIFO buffer per thread that drains at
any moment and is empty at a locked instruction, as on x86. A deleted node is never reused, so a
use after free is visible as such.

### Skip vector and mirror

The traversals are optimistic: what is read from a node counts only once the node's lock word is
validated. A validated read returned what the node holds at the validation, and one that fails is
thrown away, so one step goes from a validation to the next. A critical section that waits for
nothing is one step; what a thread does while it holds or has frozen one node and goes for another
is a step each (`Freeze`, `Merge`, `InsertTall`, `LinkSplit`, `LinkTop`, `RemoveData`,
`LockAndVisit`). Going down a layer is two steps, `Descend` and `Swap`: `reader_swap` confirms the
node above before and after it begins to read the node below, and what happens in between is what the
second confirmation is for. The height of an insertion is an input, in place of `random_height`. The set-up of
a run is made by `insert_seq` itself.

In `MirrorCache` the remote structure is a set of keys with heights; a path handed to
`mirror_reconcile` is what a descent at that moment sees and may be stale when the locks are taken.
`TopAddrs` is what a commit may report. What `gather_prevs` collects at a level is recorded with the
node of that level that covers the key at that moment (`Gathered`). `MirLookupsExact` says that they are
the same node, and that its address is exact unless the node is an orphan of the cache, as
`cache-remote-interface.md` has it: an overflow node made by an installation carries the address of
the path it was installed with, which may be that of a remote node to the right of its keys. The promotion of overflow nodes, off by default, has a
configuration of its own.

### swarm-kv

`SafeGuess` follows the nesting of the code: the record of a client holds the future of each layer,
and an operator is one call (`RegStep`, `RStep`, `DStep`, `OopsStep`). A tick of a client is one
step; the execution of one work request by a server's NIC is one step (a write of the in-place
entry is two, header before payload, which is the torn read the checksum is for); the index answer
is one step. Timestamps are numbers; a log slot is named by client and number, and an update's value
by the slot it is written to. The clock is an oracle: at the moments the code reads it, it may have
moved on by `skews`, and may have passed the death point. The LRU cache is `warm` or not. The
configuration is that of `main.cpp`'s defaults: one tsp per key, in-place data, guessing on (one
configuration has it off), one future per client.

### Rendezvous

A process is the list of store calls it has still to make, as `QpExchange`, `IndexExchange`,
`ServerIndex` and `ClientIndexes` give it for each program; an announcement carries the run in
which it was made, so that one left over from an earlier run can be told apart. `set` looks for the
key first and throws when it is there; `connect` throws when the key is missing or memcached times out.
A run with `--ml` (the runs in `ml` of a deployment) adds the workers' done flags (`MlWork`): each worker
sets one, the tracker waits for all of them, and nobody removes them.

## 3. Runs

| Run | Instance | Shows |
|---|---|---|
| `one_replica` | 1 server; two clients on 2 registers with the cache, or one client with two operations in flight on one register | the store implements atomic registers (`AtomicSpec`) |
| `contention` | 3 servers, quorum 2, 2 clients putting and getting one register, cache and writeback on | types, completion accounting, no lost wakeup, tags identify values, tags never go down, session order |
| `replication` | disco-skip: 3 servers, 1 writer, 1 reader that gets and scans, one fail-stop; swarm-kv: 7 configurations of 1 to 3 servers and 2 or 3 clients | acknowledged puts are on a majority, survive, and are seen; Safe-Guess answers are linearizable, writes are settled, operations are awaited, words only grow |
| `crash` | 3 servers, 2 writers, one fail-stop, fairness; and three programs with 3 processes, 2 runs (one of them with `--ml`, or none), one time-out | operations end or the client throws; clients throw only for a failed server; nobody works on a half-made connection, collides with leftovers or waits for what was taken back |
| `nodes` | locks under 3 threads; vectors of 4 slots; 4 nodes under 2 threads; a 3-slot reserving vector under 2 threads; 3 mirror configurations under 2 threads | the 13 properties of the parts the skip vectors are made of |
| `skip_vector` | 1 and 2 index layers, 2 threads, 3 operations, nodes of 1 and of up to 4 entries, fairness | refinement of `ConcurrentMap`, `verify()` at rest, every operation ends |
| `outrun_reset` (violation) | 3 servers, 2 clients, 1 put each, no cache | finding 1 |
| `sequential_stale` (violation) | 3 clients taking turns, cache on | finding 2 |
| `crash_availability` (violation) | one fail-stop, fairness | finding 3 |
| `hp_store_buffer` (violation) | 2 threads with store buffers | finding 4 |
| `notify_stale_entry` (violation) | 2 servers, a writer and a reader that know the key | finding 5 |
| `ml_second_run` (violation) | disco-skip, one server, a tracker and a worker, two runs with `--ml` | finding 6 |

### Bounds and why they are enough

*Register store.* `MaxOps` caps the operations of a client (2 to 4): with two clients that is
enough for a stale cache, an optimistic chain that half succeeds, an outrun put and a retry after
it, which are the states in which the code branches. `SeqMod` is the real 2^16, so no wrap is
hidden; the wrap itself is listed as a hazard. Quorum 2 of 3 servers with two clients gives two
quorums that overlap in one server, the smallest case in which they differ. `MaxCrash` = 1 is the
documented failure model.

*Locks and vectors.* `MaxVersion` = 1 lets a writer, a second writer and a reader overlap with
each other and with a freezer. A vector of capacity 4 has the median on either side of an
insertion, and 6 keys fill two of them. Four nodes and a zombie array of 3 make a sweep run while
another thread holds its two pointers. A reserving vector of 3 slots has a fetch-and-add phase of 2,
and four entries close the phase, overfill it and split it.

*Skip vector and mirror.* Three operations, two at a time, on structures in which one configuration
splits with every insertion and merges only empty nodes, and the other splits and merges nodes
that hold several entries. Two index levels are the least in which a tall insertion freezes more
than one node; the mirror has up to three. A third configuration has a node too large to be merged,
which loses its first key while a traversal is on its way to it: without the second confirmation of
`reader_swap` the traversal misses, or inserts twice, a key that the node no longer covers. The mirror's
lookups ask for keys to whose right there are others, so that an address too far right would show, and
one configuration installs a key at the end of a full node, so that an overflow node exists.

*Safe-Guess.* Two servers with a majority of two are the smallest case in which clients see
different words; one server is the case in which writers are notified; three are needed for one to
die. One update and two reads are the smallest history in which reads can disagree.

*Rendezvous.* Three processes, two runs: a leftover needs an earlier run, and a process that
overtakes needs a third one that is slow. A run with `--ml` is followed by one without; two of them on
one store are finding 6. Once a process has thrown, its announcements stay, and starting the programs
again over them is not modelled: the store has to be emptied by hand.

Symmetry: in `nodes` the threads `t1` and `t2` may be exchanged; all parts quantify over threads
and none chooses or orders one, and the run has no liveness property. Runs turn the deadlock check
off because clients and threads stop issuing operations at their bound.

The two regimes of the register store are deliberate. `CommittedAtQuorum` and `ReadSeesAcked` hold
for one writer per register and do not for two. Section 4 says what goes wrong. Everything in
`contention` and `crash` holds for contending writers. In the same way the Safe-Guess part of `replication` leaves out the
one configuration of `notify_stale_entry`, a cached key with a reader beside a writer over two
servers.

### Fairness

* Register store (`Fairness`, and its copy in `DeployFairness`): weak fairness of each connection's
  NIC (RC hardware executes what is posted or reports an error), of each client's poll, and of
  stepping a future that has progress; `finishAllFutures` and `getFreeFuture` spin on exactly these.
  Issuing operations and crashing are not fair.
* `DeployFairness` for the rendezvous: every program keeps running and the launch script starts
  every process. A time-out is not fair.
* `SvFairness`: the operating system keeps running every thread inside an operation. A thread that
  spins on a lock is enabled only when the lock is free; nothing promises it the lock, and nothing
  in the instance needs that, as the number of operations is bounded.
* `SafeGuess` has no fairness: that an operation is not abandoned is the invariant `SgAwaited`
  (something it will be woken by is always on its way).

## 4. What the checks found

1. **A put outrun in the CAS loop is acknowledged too early** (`put_future.hpp:275`). The
   reset overwrites `expected[j]` of slots the loop has not visited; they then compare
   equal to their own buffer and count as successes.
2. **An optimistic chain that half succeeds leaves two tags** (`put_future.hpp:233`). Only
   the laggards get the larger target, yet the put is acknowledged with it. A client whose
   quorum shares only the other replica reads an older register, with no concurrency at all.
3. **A fail-stopped server stops its clients** (`disco_skip_client.hpp:64`,
   `disco_skip_state.hpp:105`): the quorum is fixed, and an error completion throws.
4. **A hazard pointer may be published too late** (`hp_thread_context.h:99`). Its store is relaxed
   and the validation after it is a load; with x86 store buffers a sweep can miss the pointer and
   delete the node. Without the buffers (run `nodes`) the scheme is sound: the store needs sequential
   consistency or a fence.
5. **A read that notified a writer may answer with an entry it read before** (`oops_data_future.hpp:240`,
   `relaxed_maxreg.hpp:245`): the timestamp is new, the buffer it is paired with is not.
6. **A second `--ml` run takes the flags of the first for its own** (`disco-skip/src/main.cpp:166`). The
   tracker stops at once, and each worker ends with an exception when it sets a flag that is there already.

Seen on the way and listed as hazards: without the writeback two gets of different clients can go
back in time; when the 16-bit seq wraps, tag (0,0) is not above a get's starting maximum; the
writeback of a put's own target makes the put outrun itself; several futures of one client on one
register (the ML worker) can write one tag with two values; and so can two clients, once there are more
than the 256 that the client index tells apart (`disco_skip_state.hpp:90`). Two more contradict a
comment of the code:

* `insert_result.h:21` says of `SPLIT_PENDING` that "some other thread is responsible for splitting". An
  inserter whose fetch-and-add came while another thread held the vector at version 0 gets a slot above the
  limit; that thread rolls back (`multivector_asr.h:1213`), and the inserter is sent away from a vector that
  is not full and that nobody will split. A caller that waits for a split waits for nothing; one that tries
  again is served. `PendingSplitIsOwed` says that this is the only case.
* `vector_umfra.h:898` says that `range()` applies its function to the intersection of the vector and the
  range. The first entry beyond the range ends the iteration, but only after the function has been applied to
  it (`vector_umfra.h:863`). `SearchesAgree` states for the unsorted vector only that nothing in the range is
  missed.

## 5. Proofs

Every theorem holds for every value of the constants that the named `ASSUME`s of the component's
modules allow: any number of threads, clients, servers, registers, nodes and slots. Each proof is
that of an inductive invariant: one lemma per action, in it one step per part the action can
disturb, a lemma for `Next`, and a temporal step. The invariants were checked by TLC first, on the
instances of section 3 or smaller ones, with the infinite sets of their quantifiers cut down.

**Register store, types and halts** (`DsClientProofs`). `TypeCorrect` (`Spec => []TypeOK`; `TypeOK`
is inductive: the seq arithmetic stays in its field, every work request that reaches a NIC is well
formed, merged, cached and written registers are registers). `HaltSound` (`[]HaltOnlyOnCrash`),
strengthened with `ErrorsFromCrashed`: an error completion still queued comes from a server that is
down, which lasts because a server never comes back. Of the theorems about the store only
`ReadsSeeAcked` needs quorums that intersect.

**Completions and wakeups** (`DsAccountingProofs`). `AccountingSound` (`[]PollAccounting`) is inductive
together with the types. Its content is counting: `CountOf` counts a future's places in a queue, and
lemmas say what an append, the removal of the head and the removal of a polled prefix do to the count.
`NoWakeupIsLost` (`[]NoLostWakeup`) needs `SuccessCounted`: in the CAS phase of a put the
`success_count` is the number of slots with nothing left to do. Without it a put could end a round
with no slot to retry and fewer successes than the quorum, post nothing and sleep for ever.

**Tags** (`DsTagProofs`). `TagsMonotone` is `Spec /\ []NoWrap => MonotoneTags`. The hypothesis is
needed: after 2^16 - 1 puts of one register the 16-bit field wraps and a put lowers the tag by design
of the format. `TagInv` adds that copies clients hold come from unwrapped registers (`CopiesLow`),
that a queued CAS does not lower the tag it expects (`QueuesRaise`), that what a put expects of a slot
it has not won is below its target, also across the reset of an outrun put (`PutsBelow`), and that a
retrying put has nothing posted to the slots it is done with (`PendingNeeded`).

**One replica** (`OneReplicaProofs`). `OneReplicaLinearizable` is
`Spec /\ []AllUp /\ []NoWrap => AtomicSpec` for one server: every step of the store is a step of
`AtomicRegisters` or a stutter under the mapping of `OneReplica`. A put takes effect when its CAS hits
(`NicCas`), a get when its READ executes, a scan register by register in `NicBulkWord`; a READ
of a put and a CAS that misses are stutters. `AllUp` is needed because a request that a dead
server fails leaves the queue without having been executed, and the mapping reads "no longer queued" as
"executed"; `NoWrap` because a get starts its maximum at `Register(0)`, so a written register with
seq 0 would not be returned. The invariant `OneInv` adds to the accounting and the tags: a
queue holds at most one request of a future, and it is the one its state says (`QueuesMatch`); a put's target
carries the caller's value and nothing is ever written back (`FutureSane`); and a register
with seq 0 is the initial one (`ContentsGenuine`).

**Quorum replication** (`AbdProofs`). `AckedAtQuorum` (`[]CommittedAtQuorum`), `AckedSurvives`
(`[]CommittedSurvives`, when `MaxCrash < Quorum`) and `ReadsSeeAcked` (`ReadSeesAcked`, when
`2 * Quorum > NumServers`) hold of `HistSpec` for any number of servers, clients, registers and futures, with
or without the register cache, under these hypotheses:

* `OneWriter`: a register is put by one client. With two writers the first and the third are false
  (findings 1 and 2).
* `[]PutsDisjoint`: no two puts of a register are in progress at once. `OneFutureStore` derives
  it for `AsyncParallelism = 1`, and states the three results without it. Overlapping puts of one client
  are contending writers again.
* `RegWriteback = FALSE`, the default of the build: a get that writes back is another writer.
* `[]NoWrap`, as for `TagsMonotone`.

The invariant is `AbdInv`. `StoreInv`: tags; a queue holds at most one request of each future, the
one its state says; a request that failed leaves its future waiting for ever. `WriteInv`: while a put
runs its quorum holds one register `R` everywhere, or the target where a CAS that expected `R` has been
executed (`PutsShaped`); between puts the quorum is level (`IdleShaped`); in both cases `R` is not
below what has been acknowledged. Hence a put wins all slots or none: the half-won chain of finding 2 and the
reset of finding 1 cannot arise. `ReadInv`: what a get or a scan has read
from a server of the writer's quorum is not below what had been acknowledged when it started. The
reader's quorum meets the writer's in some slot, and when the read ends that slot has
been read. Crashes are in all of this: a failed request is never `Closed`, so nothing is
concluded from its buffer.

**Sessions** (`AbdProofs`). `SessionsOrdered` is `HistSpec /\ []NoWrap => SessionOrder`, with no
hypothesis on who writes what, on the number of futures, on the size of the quorum or on the
writeback: none of the findings about contending writers reaches a client's own order. The
reason is that a client always works with the same quorum. `SessInv` says that what a client has
been returned or has written is covered by one of its own replicas, not by all of them (`SeenHeld`). So an
operation that starts has a slot that answers it with no less (`SessPinned`), since no replica's tag goes down
(`MonotoneTags`' step lemma), and for a get that is enough: its maximum covers that
slot, and is covered by the slot it is from (`SessCopies`). For a put the argument needs more, because an
acknowledgement may rest on slots that were never swapped (finding 1): its target is above
what the client had seen from the first retry on (`SessTarget`); a put that ends in its first round
has won every slot, the pinned one included; and the count of successes left by a retry or a reset is below
the quorum, so a put that ends has just swapped some slot, which covers the target
(`SessSwaps`).

**Tags name values** (`AbdProofs`). `TagsNameValues` is
`HistSpec /\ []NoWrap /\ []PutsExclusive => []TagsIdentifyValues` for `NumClients <= 256`: whoever writes, with and without
the register cache and the writeback, and for quorums of any size, two servers that hold the same tag
of a register hold the same value. The bound on the clients is that of `client_idx`, a `uint8_t`: the
tag of client 256 has the id of client 0 (`ClientIdxOwn` is where the proof uses it). `PutsExclusive` says that a put overlaps no other operation of its
own client on the same register. It is needed because a client chooses a tag above what it has cached,
and a get or a scan that was started before a put and ends after it puts an older register back into
the cache: the next optimistic put would choose the tag of the last one again. Overlapping puts choose
the same tag from the start, which is what the ML worker can do with several futures. `OneFutureNames` derives the
hypothesis for `AsyncParallelism = 1` when no client both puts and scans (a client has a scan future
beside its operation future). The invariant is `NamesInv`, on top of `SessInv`. A register is `Live`
when a server holds it, a put is writing it, a get has read it (it may write it back) or is writing it
back. `LiveNamed` is the property for live registers; memory alone is not inductive,
since a put not yet executed anywhere may clash with one a get is about to write back. `LiveBounded`
says how far a client's own live tags reach: to its put's target while a put that has chosen is in
progress, and the register with that tag has the put's value (`PutBound`); to what the client had seen
when it started, for a put that has not chosen and for a read (`PutBound`, `ReadBound`); otherwise to what
it has seen and to what it has cached (`IdleBound`). So a tag newly chosen is above every live tag
of the same client. `WritesOwn` says that a target carries its client's name and its caller's value.

**Locks** (`LockProofs`). `LockHolderSound` (`[]LockWordTellsHolder`), `LockVersionsSound`
(`[]VersionNamesData`) and `LockReadsSound` (`ValidatedReadsAreCurrent`, an action property) follow
from `LockInv`: types; `HolderInv` (writers and freezers are one thread at most, and the word's bits
are theirs); `HistoryInv` (each word ever published goes with one value of the data, and is the
current one or has a smaller counter); `ReaderInv` (what a reader has read so far under a
word that may still validate agrees with the data). The last two are what makes the first
more than a statement about bits: a release as unchanged returns to a word that readers remember.
`MaxVersionAssumption` says that the counter does not wrap within `SeqWords`.

**Hazard pointers** (`HazardProofs`). `NoUseAfterFreeSound` and `NodesAccountedSound` assume
`~StoreBuffer`. That is not a convenience: the run `hp_store_buffer` shows the
first one false with store buffers (finding 4). The invariant is
`HpTypeOK /\ (HpLive \/ HpOver)`, before and after tear-down. Its core: the next node of a linked
node is linked, and of no other one (`LayerOK`); a dead node is a zombie of one thread, about to be
one, or freed (`DeadOK`); where a thread is and what its pointers hold (`PlaceOK`); one thread holds
a node (`HoldOK`); a reader whose version of `curr` may still validate has read its successor
(`ReadOK`); a sweep has seen a pointer that protects one of its zombies or has still to come to it
(`ProtectOK`), and has seen at most two nodes for each context it is past (`SweepOK`). That a zombie cannot be newly protected behind the scan's back is the point of
the scheme: taking a pointer is only worth something if `curr` validates afterwards, and `curr` no
longer leads to a zombie. `ZombieCapAssumption` (more room than the others' pointers) holds of the
size `hp_manager.h` computes from the number of threads; from it the zombie array never overflows.

The proof attempt found an error of the model: after a first successful merge a failing second
`Unlink` released `curr` as unchanged, although its next pointer had changed. `ReadOK` is not
inductive with that; the code (`skipvector.h`, `release_changed_if`) was right and the model was corrected.

**Slot reservation** (`AsrProofs`). `NoEntryLostSound`, `ReservedSlotsSound` and `PendingSplitSound` follow
from `AsrInv`: there is a number `n` of reserved slots such that

* `AsrCountOK(n)`: the counters say so, in the way of the phase. The FAA counter in the first phase,
  cut at `FAA_CAPACITY`; a local variable of the thread between the two stores of the phase change;
  `cas_counter` from then on; a local variable again, and then `elements_at_phase_change`, after `die()`.
* `AsrSlotsOK(n)`: a vacant slot below `n` is waited for by exactly one inserter, and slots from `n` on
  are vacant.
* `AsrIdsOK`, `AsrEntriesOK`: an entry is known by its number; the numbers not yet written are
  distinct and no written entry has one of them.
* `AsrLockOK`, `AsrLocalOK`: one holder, the counters at each of its steps, the limits inserters work under.
  At version 0 all of them work under `FAA_CAPACITY`, which is what allows the roll-back to the
  fetch-and-add phase.
* `AsrExtractOK(n)`: an extractor's slot is its own; extracted entries are in distinct slots.
* `AsrSplitOK(n)`: an overfull vector has a thread that crosses the limit, and the fetch-and-add phase
  can only be overfull when it is full; so a roll-back never forgets a thread that was told to split.
* `AsrPhaseOK`, beside `AsrInv`: the number of elements is stored once, by the second store of `die()`, so
  an extractor that comes between the two stores finds nothing to take.
* `AsrFreshOK`: the counters of a vector that a split has populated fit what is in it.

All splits are one lemma (`AsrMovedStep`): whatever lists are kept and taken, if together they hold each
entry once, the invariant survives. That `steal_max`, `steal_half` and `split_insert` share the entries
out in this way is shown from what the selection by rank does (`AsrRanks`, `AsrPicks`), for any capacity.
Nothing is assumed but a positive capacity and keys other than the empty one.

Only model-checked:

* liveness (`OpEnds`, `RdvRunsEnd`, `SvOperationsEnd`), which the prover does not do;
* `SvNodes`, `SkipVector`, `MirrorCache` and `SafeGuess`, whose recursive code is written with RECURSIVE
  operators, and `ConcurrentMap`, which `SkipVector` refines;
* `NodeVectors`: what sorting, searching and selecting compute is an induction over data;
* `Rendezvous`: programs are sequences put together from sorted sets, and the
  argument is about positions in them.

## 6. Plan

Models: search and insertion of the RACE index; swarm-kv with several futures per client and its
LRU cache; fusee's store; the pool allocator.

### Not modelled

* Verbs wrappers (`conn`, `ctrl`) are I/O and appear as the NIC's actions. Unreliable datagrams are
  used by no program of the repository.
* Latency profilers, statistics, logging, pinning and argument parsing carry no protocol state.
* Third-party code and the build system are not the program.
* `OpFuture::doRange` is never called; `collect_range_addrs` is commented out; the mirror's
  `insert_seq` and `sv_lock_disco.h` have no user; `barrier()` has no caller.
* `SafeGuess` has one key. A register future that is re-targeted while completions are outstanding
  (`unreliable_maxreg.hpp:417`) is re-targeted to the same key; the test for another one is left out.
* The reserving vector's minimum in slot 0 is not stated as a property: its callers have to keep it
  up, the code drops its own assertion of it because the leftmost vector does not have it
  (`multivector_asr.h:625-635`), and nothing but a benchmark uses the class.
* The RACE index appears in `SafeGuess` as an oracle that answers with the key's slot: in the
  programs the first client inserts all keys before the others start.
* fusee's store is a second design kept for comparison; only its exchange is in `Rendezvous`.

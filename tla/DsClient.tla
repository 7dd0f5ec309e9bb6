------------------------------ MODULE DsClient ------------------------------
(***************************************************************************)
(* The disco-skip register store: DsClient (disco_skip_client.hpp) drives   *)
(* its futures against passive memory servers through one-sided RDMA.       *)
(*                                                                          *)
(* Actors: the NIC of each memory server (executes posted work requests and *)
(* fails them when the server is down), and the one thread of each client   *)
(* (polls completions, steps futures, starts operations).                   *)
(***************************************************************************)
EXTENDS PutFuture, GetFuture, RangeFuture

CONSTANTS
    Ops,       \* Ops[c]: kinds of operation client c issues
    PutKeys,   \* PutKeys[c]: the registers client c writes
    MaxOps     \* bound: operations one client issues

ASSUME OpsAssumption == Ops \in [Client -> SUBSET {"get", "put", "range"}]
ASSUME PutKeysAssumption == PutKeys \in [Client -> SUBSET Key]
ASSUME MaxOpsAssumption == MaxOps \in Nat

VARIABLES issued   \* issued[c]: operations client c has started

vars == << stateVars, putVars, max_reg, rangeVars, issued >>

Init ==
    /\ StateInit /\ PutInit /\ GetInit /\ RangeInit
    /\ issued = [c \in Client |-> 0]

TypeOK ==
    /\ StateTypeOK /\ PutTypeOK /\ GetTypeOK /\ RangeTypeOK
    /\ issued \in [Client -> 0 .. MaxOps]

-----------------------------------------------------------------------------
(***************************************************************************)
(* The memory servers' NICs.  A reliable connection executes its work       *)
(* requests in the order they were posted and reports their completions in  *)
(* the same order.                                                          *)
(***************************************************************************)

\* The next work request on slot i of client c is for a server that is up.
Executable(c, i, op) ==
    /\ sq[c][i] # << >> /\ Head(sq[c][i]).op = op
    /\ quorum_indices(c, i) \in up

\* The head of slot i's queue completes.
Complete(c, i, ok) ==
    /\ sq' = [sq EXCEPT ![c][i] = Tail(@)]
    /\ cq' = [cq EXCEPT ![c][i] =
                Append(@, [fut |-> Head(sq[c][i]).fut, ok |-> ok])]

NicRead(c, i) ==
    LET w == Head(sq[c][i])
    IN  /\ Executable(c, i, "read")
        /\ bufs' = [bufs EXCEPT ![w.fut][i] = mem[quorum_indices(c, i)][w.key]]
        /\ Complete(c, i, TRUE)
        /\ UNCHANGED << mem, up, halted, cache, valid, to_poll, step, key, ongoing,
                        progress, putVars, max_reg, rangeVars, issued >>

\* A compare-and-swap returns the old content whether or not it swaps.
NicCas(c, i) ==
    LET s == quorum_indices(c, i)
        w == Head(sq[c][i])
    IN  /\ Executable(c, i, "cas")
        /\ bufs' = [bufs EXCEPT ![w.fut][i] = mem[s][w.key]]
        /\ mem' = [mem EXCEPT ![s][w.key] = IF @ = w.expected THEN w.target ELSE @]
        /\ Complete(c, i, TRUE)
        /\ UNCHANGED << up, halted, cache, valid, to_poll, step, key, ongoing,
                        progress, putVars, max_reg, rangeVars, issued >>

\* A bulk read is only atomic per register: it proceeds one register a step.
NicBulkWord(c, i) ==
    LET w == Head(sq[c][i])
    IN  /\ Executable(c, i, "bulk")
        /\ bulk_bufs' = [bulk_bufs EXCEPT ![w.fut][i][w.key] =
                            mem[quorum_indices(c, i)][w.key]]
        /\ IF w.key < end_key[w.fut]
           THEN /\ sq' = [sq EXCEPT ![c][i] =
                            << [w EXCEPT !.key = @ + 1] >> \o Tail(@)]
                /\ UNCHANGED cq
           ELSE Complete(c, i, TRUE)
        /\ UNCHANGED << mem, up, halted, cache, valid, to_poll, step, key, bufs,
                        ongoing, progress, putVars, max_reg, end_key, results,
                        issued >>

\* A work request to a server that is down completes with an error.
NicError(c, i) ==
    /\ sq[c][i] # << >> /\ quorum_indices(c, i) \notin up
    /\ Complete(c, i, FALSE)
    /\ UNCHANGED << mem, up, halted, cache, valid, to_poll, step, key, bufs,
                    ongoing, progress, putVars, max_reg, rangeVars, issued >>

\* A memory server fail-stops.
ServerCrash(s) ==
    /\ s \in up /\ Cardinality(Server \ up) < MaxCrash
    /\ up' = up \ {s}
    /\ UNCHANGED << mem, halted, cache, valid, to_poll, sq, cq, step, key, bufs,
                    ongoing, progress, putVars, max_reg, rangeVars, issued >>

-----------------------------------------------------------------------------
\* The client thread.

\* How many of the first n completions of slot i belong to f.
Reaped(f, i, n) ==
    Cardinality({m \in 1 .. n : cq[Owner(f)][i][m].fut = f})

\* tickRdma: from each server the completions that have arrived, at most
\* to_poll of them; n[i] were there when slot i was polled.
TickRdma(c) ==
    \E n \in [Slot -> 0 .. (2 * AsyncParallelism)] :
        /\ c \notin halted
        /\ \E i \in Slot : n[i] > 0
        /\ \A i \in Slot : n[i] > 0 => n[i] <= Len(cq[c][i]) /\ n[i] <= to_poll[c][i]
        /\ \A i \in Slot : \A m \in 1 .. n[i] : cq[c][i][m].ok
        /\ cq' = [cq EXCEPT ![c] =
                    [i \in Slot |-> SubSeq(@[i], n[i] + 1, Len(@[i]))]]
        /\ ongoing' = [f \in Fut |-> [i \in Slot |->
                         IF Owner(f) = c THEN ongoing[f][i] - Reaped(f, i, n[i])
                                         ELSE ongoing[f][i]]]
        /\ progress' = [f \in Fut |->
                          \/ progress[f]
                          \/ Owner(f) = c /\ \E i \in Slot : Reaped(f, i, n[i]) > 0]
        /\ to_poll' = [to_poll EXCEPT ![c] = [i \in Slot |-> @[i] - n[i]]]
        /\ UNCHANGED << mem, up, halted, cache, valid, sq, step, key, bufs,
                        putVars, max_reg, rangeVars, issued >>

\* Mutant of TickRdmaThrows: a poll that reaps less than to_poll throws.
TickRdmaThrowsShort(c) ==
    /\ c \notin halted
    /\ \E i \in Slot : Len(cq[c][i]) < to_poll[c][i]
    /\ halted' = halted \cup {c}
    /\ UNCHANGED << mem, up, cache, valid, to_poll, sq, cq, step, key, bufs,
                    ongoing, progress, putVars, max_reg, rangeVars, issued >>

\* tickRdma meets an unsuccessful completion and throws: nothing catches it.
TickRdmaThrows(c) ==
    /\ c \notin halted
    /\ \E i \in Slot : \E m \in 1 .. Len(cq[c][i]) :
         m <= to_poll[c][i] /\ ~cq[c][i][m].ok
    /\ halted' = halted \cup {c}
    /\ UNCHANGED << mem, up, cache, valid, to_poll, sq, cq, step, key, bufs,
                    ongoing, progress, putVars, max_reg, rangeVars, issued >>

\* tryStepForward returned without a transition; the flag is cleared anyway.
StepBlocked(f) ==
    /\ CanStep(f) /\ ~Quiet(f)
    /\ progress' = [progress EXCEPT ![f] = FALSE]
    /\ PostNothing
    /\ UNCHANGED << mem, up, halted, cache, valid, step, key, bufs, putVars,
                    max_reg, rangeVars, issued >>

\* getFreeFuture / getFreeRangeFuture return the first future that is done.
FreeFuture(f) ==
    /\ Owner(f) \notin halted
    /\ step[f] = "Done"
    /\ \A j \in 0 .. (f[3] - 1) : step[<<f[1], f[2], j>>] # "Done"
    /\ \A j \in 0 .. f[3] : ~progress[<<f[1], f[2], j>>]

Issue(f, op) ==
    /\ FreeFuture(f)
    /\ op \in Ops[Owner(f)] /\ issued[Owner(f)] < MaxOps
    /\ issued' = [issued EXCEPT ![Owner(f)] = @ + 1]

StartPut(f) ==
    /\ Issue(f, "put")
    /\ \E k \in PutKeys[Owner(f)], v \in Value :
         DoPutHit(f, k, v) \/ DoPutMiss(f, k, v)
    /\ UNCHANGED << max_reg, rangeVars >>

StartGet(f) ==
    /\ Issue(f, "get")
    /\ \E k \in Key : DoGet(f, k)
    /\ UNCHANGED << putVars, rangeVars >>

StartRange(f) ==
    /\ Issue(f, "range")
    /\ \E sk, ek \in Key : DoRange(f, sk, ek)
    /\ UNCHANGED << putVars, max_reg >>

StepPut(f) ==
    /\ PutStepReadSeq(f) \/ PutStepOptimistic(f) \/ PutStepCAS(f) \/ PutStepOutrun(f)
    /\ UNCHANGED << max_reg, rangeVars, issued >>

StepGet(f) ==
    /\ GetStepReading(f) \/ GetStepWritingBack(f)
    /\ UNCHANGED << putVars, rangeVars, issued >>

StepRange(f) ==
    /\ RangeStepReading(f)
    /\ UNCHANGED << putVars, max_reg, issued >>

-----------------------------------------------------------------------------
Nic(c, i) == NicRead(c, i) \/ NicCas(c, i) \/ NicBulkWord(c, i) \/ NicError(c, i)

ClientStep(f) ==
    \/ f \in OpFut /\ (StepPut(f) \/ StepGet(f))
    \/ f \in RangeFut /\ StepRange(f)
    \/ StepBlocked(f)

Start(f) ==
    \/ f \in OpFut /\ (StartPut(f) \/ StartGet(f))
    \/ f \in RangeFut /\ StartRange(f)

Next ==
    \/ \E c \in Client, i \in Slot : Nic(c, i)
    \/ \E s \in Server : ServerCrash(s)
    \/ \E c \in Client : TickRdma(c) \/ TickRdmaThrows(c)
    \/ \E f \in Fut : ClientStep(f) \/ Start(f)

Spec == Init /\ [][Next]_vars

\* The NIC executes what is posted, and the client thread keeps polling and
\* stepping (finishAllFutures spins until every future is done).
Fairness ==
    /\ \A c \in Client, i \in Slot : WF_vars(Nic(c, i))
    /\ \A c \in Client : WF_vars(TickRdma(c) \/ TickRdmaThrows(c))
    /\ \A f \in Fut : WF_vars(ClientStep(f))

FairSpec == Spec /\ Fairness

-----------------------------------------------------------------------------
\* No step lowers the tag of a register of a memory server.
MonotoneTags ==
    [][\A s \in Server, k \in Key : RegLeq(mem[s][k], mem'[s][k])]_vars

\* to_poll counts exactly the completions outstanding on each connection, and
\* ongoing those of each future: no poll is missed and none goes negative.
PollAccounting ==
    \A c \in Client, i \in Slot :
        /\ to_poll[c][i] = Len(sq[c][i]) + Len(cq[c][i])
        /\ \A f \in Fut : Owner(f) = c =>
             ongoing[f][i] =
               Cardinality({m \in 1 .. Len(sq[c][i]) : sq[c][i][m].fut = f})
               + Cardinality({m \in 1 .. Len(cq[c][i]) : cq[c][i][m].fut = f})

\* A future that is not done either waits for a completion or has progress to
\* act on: it never sleeps forever.
NoLostWakeup ==
    \A f \in Fut : step[f] # "Done" => ~Quiet(f) \/ progress[f]

\* A tag names one write: two replicas that hold the same tag of a register
\* hold the same value (max-tag reads rely on it).
TagsIdentifyValues ==
    \A s, t \in Server, k \in Key :
        /\ mem[s][k].seq = mem[t][k].seq
        /\ mem[s][k].client_id = mem[t][k].client_id
        => mem[s][k].value = mem[t][k].value

\* A client only gives up when a server of its quorum has fail-stopped.
HaltOnlyOnCrash ==
    \A c \in halted : \E i \in Slot : quorum_indices(c, i) \notin up

\* An operation that starts ends, unless its client gave up.
OpEnds ==
    \A f \in Fut : step[f] # "Done" ~> (step[f] = "Done" \/ Owner(f) \in halted)

\* Three-way replication tolerates a fail-stopped memory server: an operation
\* that starts ends, whether or not a server fails.
OpEndsDespiteCrash == \A f \in Fut : step[f] # "Done" ~> step[f] = "Done"
=============================================================================

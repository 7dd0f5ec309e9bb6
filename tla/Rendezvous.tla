----------------------------- MODULE Rendezvous -----------------------------
(***************************************************************************)
(* How the processes of a deployment find each other: RcConnectionExchanger *)
(* (rc-exchanger.hpp) over a memcached store (store.cpp), as the programs   *)
(* disco-skip, swarm-kv and fusee and the RACE index call it.  Every        *)
(* process announces its queue pairs, waits for the others, connects, works *)
(* and cleans up; the next run of the programs starts over on the same      *)
(* store, where some announcements of the previous run are still found.     *)
(*                                                                          *)
(* A process is the sequence of the store calls it has still to make.  Each *)
(* key is written by one process only, so set(), which looks for the key    *)
(* before it writes it, is one step.                                        *)
(***************************************************************************)
EXTENDS Integers, Sequences

LOCAL INSTANCE SequencesExt

CONSTANTS
    RdvDeployments, \* records: the system, its servers, its clients and the runs started with --ml
    RdvRuns,        \* bound: runs of the programs over one store
    RdvTimeouts     \* bound: processes whose connect() meets a memcached time-out

ASSUME RdvDisjoint == \A d \in RdvDeployments : d.servers \cap d.clients = {}

VARIABLES
    dep,            \* the deployment
    announced,      \* <<topic, p, q, run>>: p's queue pair for q is in the store
    ready,          \* <<topic, p, reason, run>>: p's announcement is in the store
    todo,           \* todo[p]: the calls p has still to make
    rrun,           \* rrun[p]: the run p is in, or has finished
    peers,           \* peers[p]: <<topic, q, run>>, the queue pairs p is connected to
    threw,          \* processes that ended with an exception
    timedout        \* processes whose connect() met a time-out

rdvVars == <<dep, announced, ready, todo, rrun, peers, threw, timedout>>

Procs == dep.servers \cup dep.clients
Client1 == CHOOSE c \in dep.clients : \A d \in dep.clients : c <= d

\* --- the programs: which calls they make, in order --------------------------------

Call(do, topic, what, with) == <<[do |-> do, topic |-> topic, what |-> what, with |-> with]>>
\* A call for each remote, in the order of remote_ids.
CallAll(do, topic, what, S) ==
    LET ids == SetToSortSeq(S, <) IN [i \in 1 .. Len(ids) |-> Call(do, topic, what, ids[i])[1]]

announceAll(topic, S) == CallAll("announce", topic, "qp", S)
unannounceAll(topic, S) == CallAll("unannounce", topic, "qp", S)
connectAll(topic, S) == CallAll("connect", topic, "qp", S)
announceReady(topic, reason) == Call("set ready", topic, reason, 0)
unannounceReady(topic, reason) == Call("remove ready", topic, reason, 0)
waitReadyAll(topic, reason, S) == CallAll("wait ready", topic, reason, S)

\* Mutant: "finished" is left in the store.
QpExchangeNoCleanup(p) ==
    LET S == Procs \ {p} IN
    announceAll("qp", S) \o announceReady("qp", "prepared") \o waitReadyAll("qp", "prepared", S)
      \o connectAll("qp", S)
      \o announceReady("qp", "connected") \o waitReadyAll("qp", "connected", S)
      \o unannounceAll("qp", S) \o unannounceReady("qp", "prepared")
\* Mutant: it is removed at once.
QpExchangeEarlyCleanup(p) == unannounceReady("qp", "finished") \o QpExchangeNoCleanup(p)

\* The exchange at the start of the programs, with all other processes.
QpExchange(p) ==
    LET S == Procs \ {p} IN
    announceAll("qp", S) \o announceReady("qp", "prepared") \o waitReadyAll("qp", "prepared", S)
      \o unannounceReady("qp", "finished")                       \* of the previous run
      \o connectAll("qp", S)
      \o announceReady("qp", "connected") \o waitReadyAll("qp", "connected", S)
      \o unannounceAll("qp", S) \o unannounceReady("qp", "prepared")

\* The constructors of the server and the client side of the index.
IndexExchange(topic, S) ==
    announceAll(topic, S) \o unannounceReady(topic, "connected")  \* of the previous run
      \o announceReady(topic, "prepared") \o waitReadyAll(topic, "prepared", S)
      \o connectAll(topic, S)
      \o announceReady(topic, "connected") \o waitReadyAll(topic, "connected", S)
      \o unannounceAll(topic, S) \o unannounceReady(topic, "prepared")

\* swarm-kv has one index for all servers, fusee one for each server.
Topic(s) == IF dep.system = "swarm-kv" THEN "race" ELSE ToString(s)
ServerIndex(s) == IF dep.system = "disco-skip" THEN <<>> ELSE IndexExchange(Topic(s), dep.clients)
ClientIndexes ==
    LET ids == SetToSortSeq(dep.servers, <) IN
    CASE dep.system = "disco-skip" -> <<>>
      [] dep.system = "swarm-kv" -> IndexExchange("race", dep.servers)
      [] dep.system = "fusee" -> FlattenSeq([i \in 1 .. Len(ids) |-> IndexExchange(Topic(ids[i]), {ids[i]})])

\* The --ml workload: the first client scans until it has seen the flag of every
\* other one; the others put, then set their flags.  Nobody removes a flag.
MlWork(p) ==
    Call("work", "qp", "work", 0)
      \o IF p = Client1 THEN waitReadyAll("ml", "done", dep.clients \ {p})
         ELSE announceReady("ml", "done")

\* The first client loads the data.
ClientWork(p, run) ==
    LET S == Procs \ {p} IN
    (IF p = Client1 THEN Call("load", "qp", "work", 0) ELSE <<>>)
      \o announceReady("qp", "initialized") \o waitReadyAll("qp", "initialized", S)
      \o (IF run \in dep.ml THEN MlWork(p) ELSE Call("work", "qp", "work", 0))
      \o announceReady("qp", "finished") \o waitReadyAll("qp", "finished", S)
      \o unannounceReady("qp", "initialized")

ServerWork(p) ==
    announceReady("qp", "initialized") \o announceReady("qp", "finished")
      \o waitReadyAll("qp", "finished", Procs \ {p})
      \o unannounceReady("qp", "initialized")

Program(p, run) ==
    QpExchange(p)
      \o (IF p \in dep.clients THEN ClientIndexes \o ClientWork(p, run) ELSE ServerIndex(p) \o ServerWork(p))
      \o unannounceReady("qp", "connected")

RdvInit ==
    /\ dep \in RdvDeployments
    /\ announced = {} /\ ready = {}
    /\ todo = [p \in Procs |-> <<>>]
    /\ rrun = [p \in Procs |-> 0]
    /\ peers = [p \in Procs |-> {}]
    /\ threw = {} /\ timedout = {}

\* --- the calls -----------------------------------------------------------------

Calls(p, do) == todo[p] # <<>> /\ todo[p][1].do = do
Returns(p) == todo' = [todo EXCEPT ![p] = Tail(@)] /\ UNCHANGED threw
Throws(p) == todo' = [todo EXCEPT ![p] = <<>>] /\ threw' = threw \cup {p}
Qp(p) == { a \in announced : a[1] = todo[p][1].topic /\ a[2] = p /\ a[3] = todo[p][1].with }
RemoteQp(p) == { a \in announced : a[1] = todo[p][1].topic /\ a[2] = todo[p][1].with /\ a[3] = p }
Ready(p, owner) == { a \in ready : a[1] = todo[p][1].topic /\ a[2] = owner /\ a[3] = todo[p][1].what }

\* Every process is started again for the next run.
StartRun(p) ==
    /\ todo[p] = <<>> /\ p \notin threw /\ rrun[p] < RdvRuns
    /\ todo' = [todo EXCEPT ![p] = Program(p, rrun[p] + 1)]
    /\ rrun' = [rrun EXCEPT ![p] = @ + 1]
    /\ peers' = [peers EXCEPT ![p] = {}]
    /\ UNCHANGED <<dep, announced, ready, threw, timedout>>

\* set() throws when it finds the key.
Announce(p) ==
    /\ Calls(p, "announce")
    /\ IF Qp(p) # {} THEN Throws(p) /\ UNCHANGED announced
       ELSE Returns(p) /\ announced' = announced \cup {<<todo[p][1].topic, p, todo[p][1].with, rrun[p]>>}
    /\ UNCHANGED <<dep, ready, rrun, peers, timedout>>

AnnounceReady(p) ==
    /\ Calls(p, "set ready")
    /\ IF Ready(p, p) # {} THEN Throws(p) /\ UNCHANGED ready
       ELSE Returns(p) /\ ready' = ready \cup {<<todo[p][1].topic, p, todo[p][1].what, rrun[p]>>}
    /\ UNCHANGED <<dep, announced, rrun, peers, timedout>>

\* remove() does not mind a missing key.
Unannounce(p) ==
    /\ \/ Calls(p, "unannounce") /\ announced' = announced \ Qp(p) /\ UNCHANGED ready
       \/ Calls(p, "remove ready") /\ ready' = ready \ Ready(p, p) /\ UNCHANGED announced
    /\ Returns(p)
    /\ UNCHANGED <<dep, rrun, peers, timedout>>

\* Mutant: waitReady() asks once.
WaitReadyOnce(p) ==
    /\ Calls(p, "wait ready") /\ Returns(p)
    /\ UNCHANGED <<dep, announced, ready, rrun, peers, timedout>>

\* waitReady() retries until get() finds the key.
WaitReady(p) ==
    /\ Calls(p, "wait ready") /\ Ready(p, todo[p][1].with) # {}
    /\ Returns(p)
    /\ UNCHANGED <<dep, announced, ready, rrun, peers, timedout>>

\* connect() asks once; get() answers false for a missing key and for a time-out.
Connect(p) ==
    /\ Calls(p, "connect")
    /\ IF RemoteQp(p) = {} THEN Throws(p) /\ UNCHANGED peers
       ELSE /\ Returns(p)
            /\ peers' = [peers EXCEPT ![p] = @ \cup { <<a[1], a[2], a[4]>> : a \in RemoteQp(p) }]
    /\ UNCHANGED <<dep, announced, ready, rrun, timedout>>

ConnectTimesOut(p) ==
    /\ Calls(p, "connect") /\ Cardinality(timedout) < RdvTimeouts
    /\ timedout' = timedout \cup {p} /\ Throws(p)
    /\ UNCHANGED <<dep, announced, ready, rrun, peers>>

DoWork(p) ==
    /\ Calls(p, "load") \/ Calls(p, "work")
    /\ Returns(p)
    /\ UNCHANGED <<dep, announced, ready, rrun, peers, timedout>>

RdvStep(p) ==
    StartRun(p) \/ Announce(p) \/ AnnounceReady(p) \/ Unannounce(p) \/ WaitReady(p) \/ Connect(p) \/ DoWork(p)
RdvNext == \E p \in Procs : RdvStep(p) \/ ConnectTimesOut(p)
RdvSpec == RdvInit /\ [][RdvNext]_rdvVars
-----------------------------------------------------------------------------
\* No run fails on what another one left in the store, nor on what another
\* process of the same run has not announced yet or has taken back: no set() finds
\* its key there already (store.cpp:47) and every queue pair is there when it is
\* asked for (rc-exchanger.hpp:135).  A process throws only for its own memcached
\* time-out; the others wait.  (Two runs with --ml on one store are left out: see
\* MlFlagMeansDone.)
RdvNoCollision == threw \subseteq timedout

\* While a client works, every other process is up, in the same run, and the two
\* are connected to each other's queue pairs of that run, on the topics they
\* share, and everybody is initialized.  While the first client loads the data
\* that holds of the servers.
Linked(p, q, topic) == <<topic, q, rrun[q]>> \in peers[p] /\ <<topic, p, rrun[p]>> \in peers[q]
Works(p) == Calls(p, "work") \/ (Calls(p, "wait ready") /\ todo[p][1].topic = "ml")
RdvWorkIsConnected ==
    \A p \in Procs : (Calls(p, "load") \/ Works(p)) =>
      \A q \in (IF Calls(p, "load") THEN dep.servers ELSE Procs \ {p}) :
        /\ rrun[q] = rrun[p] /\ todo[q] # <<>> /\ Linked(p, q, "qp")
        /\ dep.system # "disco-skip" /\ q \in dep.servers => Linked(p, q, Topic(q))
        /\ Works(p) => <<"qp", q, "initialized", rrun[p]>> \in ready

\* The flag of a worker tells the tracker that this worker is done (main.cpp:165):
\* the tracker ends its scans, and announces that it has finished, when all the
\* workers of its run have done their puts.
MlFlagMeansDone ==
    \A q \in dep.clients \ {Client1} :
        (rrun[Client1] \in dep.ml /\ <<"qp", Client1, "finished", rrun[Client1]>> \in ready /\ rrun[q] = rrun[Client1])
          => \A i \in 1 .. Len(todo[q]) : todo[q][i].do # "work"

\* What has been started ends, all the runs of it: no process waits for an
\* announcement that has been taken back before it came to look.
RdvRunsEnd ==
    (\E p \in Procs : todo[p] # <<>>)
      ~> (threw # {} \/ \A p \in Procs : todo[p] = <<>> /\ rrun[p] = RdvRuns)
=============================================================================

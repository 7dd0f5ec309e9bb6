------------------------------ MODULE SafeGuess ------------------------------
(***************************************************************************)
(* swarm-kv: one key, replicated over memory servers by clients that only   *)
(* use one-sided RDMA.  Bottom up, a client's future is made of             *)
(*   reg[s]   UnreliableMaxRegFuture: the max register of one server;       *)
(*   r...     RelaxedMaxRegFuture: the same operation on a majority;        *)
(*   d...     OopsDataFuture: Safe-Guess, the timestamps guessed by writers *)
(*            and validated by readers;                                     *)
(*   step     OopsFuture: insert, read and update of a key.                 *)
(* A client posts work requests, the network cards execute them in order    *)
(* per client and server, and a tick of the client reaps the completions    *)
(* and steps the future: the three kinds of steps interleave freely.        *)
(*                                                                          *)
(* The defaults of main.cpp are modelled: num_tsp = 1, in_place, one future *)
(* per client, and payloads small enough to be inlined, so that a posted    *)
(* write carries the entry as it was when it was posted.  The value of an   *)
(* update is named by the log slot it is written to.                        *)
(***************************************************************************)
EXTENDS Integers, Sequences, FiniteSets

LOCAL INSTANCE SequencesExt

CONSTANTS
    SgConfigs,      \* servers, majority, whether server 0 may die, guess_ts, warm, skews, the clients' operations
    LogIds          \* bound: log slots per client

VARIABLES
    sg,             \* the configuration of this run
    word,           \* word[s]: the tsp word of the key on server s
    inplace,        \* inplace[s]: its in-place KV
    logs,           \* logs[s][<<c, log_id>>]: the out-of-place entries
    fut,            \* fut[c]: client c with its future
    todo,           \* todo[c]: the operations c has still to issue
    lin             \* history: the ways to linearize what has returned so far

sgVars == <<sg, word, inplace, logs, fut, todo, lin>>

SgClients == 1 .. Len(sg.ops)
SgServers == 0 .. sg.servers - 1
NoTsp == -1                 \* std::nullopt
None == "none"
NoVal == <<0, 0>>

\* --- tspointers.hpp: (ts, log id, client, verified), most significant first -----

makeTsp(ts, log_id, c, validated) == (((ts * LogIds + log_id) * 8) + c) * 2 + validated
extractTs(t) == t \div (16 * LogIds)
LogRef(t) == <<(t \div 2) % 8, (t \div 16) % LogIds>>      \* filterLogIdAndClientProcId
isVerified(t) == t % 2 = 1
Verified(t) == 2 * (t \div 2) + 1
ValueOr(t, default) == IF t = NoTsp THEN default ELSE t
MaxOf(a, b) == IF a < b THEN b ELSE a

hashOf(tsp, val) == <<LogRef(tsp), val>>
\* Mutant: a torn entry is not noticed.
NeverTorn(e) == TRUE
Intact(e) == e.chsum = hashOf(e.tsp, e.val)
NoEntry == [tsp |-> 0, val |-> NoVal, chsum |-> <<>>]
KvOf(e) == [tsp |-> e.tsp, val |-> e.val, chsum |-> e.chsum]

\* --- the clock: a lower bound on the next timestamp; the oracle skew says by how
\* much real time has moved on, and dies whether it has passed the death point -------

newTs(f) == [f EXCEPT !.clock = @ + f.skew, !.dead = IF f.dies THEN 1 ELSE @]
\* Mutant: the clock is not synchronised with the timestamps seen.
OwnClock(f, tsp) == f
syncClock(f, tsp) ==
    IF extractTs(tsp) <= f.max_ever_seen_ts THEN f
    ELSE [f EXCEPT !.max_ever_seen_ts = extractTs(tsp), !.clock = MaxOf(@, extractTs(tsp) + 1)]
GuessTs(f, validated) ==
    LET g == newTs(f) IN [g EXCEPT !.wentry.tsp = makeTsp(g.clock, g.log_id, g.me, validated)]

\* --- UnreliableMaxRegFuture ------------------------------------------------------

isLazy(f, s) == s >= sg.majority /\ f.dead < 1 + s - sg.majority
isDead(f, s) == s < f.dead
ActiveSeq(f) == SelectSeq([i \in 1 .. sg.servers |-> i - 1], LAMBDA s : ~isLazy(f, s) /\ ~isDead(f, s))
Active(f) == ToSet(ActiveSeq(f))

\* An entry is named by the server whose local read entry it is, or Local for the
\* write entry.
Local == -1
Same == -2                  \* the entry it has
EntryOf(f, n) == IF n = Local THEN f.wentry ELSE f.rent[n]
WriteTsp(f, s) == EntryOf(f, f.reg[s].went).tsp

\* The steps that what is known of the register makes superfluous.  doNext() compares
\* with <, transitionTo() with <=, that is with w - 1.
Shortened(w, max, st) ==
    LET ts == IF w < max THEN "Done" ELSE "WriteTs" IN
    CASE st \in {"ReplicateAll", "ReplicateTs"} /\ w < Verified(max) -> "ReadNotifs"
      [] st \in {"WriteAll", "TryWriteAll"} /\ w < Verified(max) -> ts
      [] st = "WriteTs" -> ts
      [] OTHER -> st
doNext(f, s, st) == [f EXCEPT !.reg[s].next = Shortened(WriteTsp(f, s), f.reg[s].max, st)]

Signaled(wr) == wr.op \in {"readKV", "readTs", "readLog", "readNotif", "casTsp"}
addToOngoingRDMA(f, s, ws) == [f EXCEPT !.q[s] = @ \o ws, !.reg[s].to_poll = @ + Len(SelectSeq(ws, Signaled))]
If(b, ws) == IF b THEN ws ELSE <<>>

\* The work requests of a step.
\* Mutant: the tsp is swapped in but the entry it points to is not written.
NoLogWritten(f, s, st) ==
    CASE st \in {"TryReadAll", "ReadTs", "NotifyAndReadTs"} -> <<[op |-> "readTs"]>>
      [] st = "ReadLog" -> <<[op |-> "readLog", ref |-> f.reg[s].ref]>>
      [] st = "ReadNotifs" -> <<[op |-> "readNotif", ref |-> f.reg[s].ref]>>
      [] OTHER -> <<[op |-> "casTsp", old |-> ValueOr(f.reg[s].mine, 0), new |-> WriteTsp(f, s)]>>
Requests(f, s, st) ==
    LET r == f.reg[s]
        e == KvOf(EntryOf(f, r.went))
        cas == <<[op |-> "casTsp", old |-> ValueOr(r.mine, 0), new |-> e.tsp]>>
        readTs == <<[op |-> "readTs"]>>
        readNotif == <<[op |-> "readNotif", ref |-> r.ref]>>
        writeIn == <<[op |-> "writeIn", e |-> e]>>
        indexing == s = 0 /\ r.mine = NoTsp
    IN  CASE st = "TryReadAll" -> IF r.in_place THEN <<[op |-> "readKV"]>> ELSE readTs
          [] st = "ReadTs" -> readTs
          [] st = "NotifyAndReadTs" -> <<[op |-> "casNotif", ref |-> r.ref]>> \o readTs
          [] st = "ReadLog" -> <<[op |-> "readLog", ref |-> r.ref]>>
          [] st \in {"TryWriteAll", "WriteAll", "ReplicateAll"} ->
               <<[op |-> "writeLog", ref |-> r.ref, e |-> e]>> \o cas
                 \o If(indexing \/ (r.in_place /\ r.went = Local /\ st # "TryWriteAll"), writeIn)
                 \o If(st = "ReplicateAll", readNotif)
          [] st = "WriteTsAndIn" -> cas \o If(r.in_place, writeIn)
          [] st = "WriteTs" -> cas
          [] st = "ReplicateTs" -> cas \o readNotif
          [] st = "ReadNotifs" -> readNotif

RegTo(f, s, st0) ==
    LET st == Shortened(WriteTsp(f, s) - 1, f.reg[s].max, st0)
        g == [f EXCEPT !.reg[s].step = st]
    IN  IF st = "Done" THEN g ELSE addToOngoingRDMA([g EXCEPT !.reg[s].ongoing = g.reg[s].went], s, Requests(g, s, st))

\* What a finished step tells of the register.
Learn(f, s) ==
    LET r == f.reg[s]
        swapped == f.rent[s].from
        mine == IF ValueOr(r.mine, 0) = swapped THEN EntryOf(f, r.ongoing).tsp ELSE swapped
        Seen(g, t) == IF r.max < t THEN syncClock([g EXCEPT !.reg[s].max = t], t) ELSE g
        g == [f EXCEPT !.reg[s].mine = mine]
    IN  CASE r.step \in {"TryWriteAll", "WriteAll", "ReplicateAll", "WriteTsAndIn", "WriteTs", "ReplicateTs"} ->
               Seen(IF r.ongoing = Local THEN g ELSE [g EXCEPT !.rent[r.ongoing].word = mine], mine)
          [] r.step \in {"TryReadAll", "ReadTs", "NotifyAndReadTs"} ->
               Seen([f EXCEPT !.reg[s].mine = f.rent[s].word], f.rent[s].word)
          [] OTHER -> f

\* The step that follows one that is complete: the pending one, or the next of its kind.
Following(f, s) ==
    LET r == f.reg[s] IN
    CASE r.next # None -> r.next
      [] r.next = None /\ r.step \in {"WriteAll", "WriteTsAndIn", "WriteTs"} -> "WriteTs"
      [] r.next = None /\ r.step \in {"ReplicateAll", "ReplicateTs"} ->
           IF WriteTsp(f, s) < Verified(r.max) THEN "Done" ELSE "ReplicateTs"
      [] OTHER -> "Done"
Advance(f, s) ==
    RegTo([f EXCEPT !.reg[s].next = None, !.reg[s].progress = @ \/ f.reg[s].next = None], s, Following(f, s))
RegStep(f, s) == IF f.reg[s].to_poll > 0 THEN f ELSE Advance(Learn(f, s), s)

RegDone(f, s) == f.reg[s].step = "Done" /\ f.reg[s].next \in {None, "Done"}
RegLinearized(f, s) ==
    \/ f.reg[s].step = "Done" /\ f.reg[s].next = None
    \/ f.reg[s].next = "Done"
    \/ Verified(f.reg[s].max) >= WriteTsp(f, s)

\* --- RelaxedMaxRegFuture ---------------------------------------------------------

ResetProgress(f) == [f EXCEPT !.reg = [s \in SgServers |-> [@[s] EXCEPT !.progress = FALSE]]]

\* One operation on every register: on the entry and the log slot given, if any.
Aimed(r, went, ref) == [r EXCEPT !.went = IF went = Same THEN @ ELSE went, !.ref = IF ref = NoVal THEN @ ELSE ref]
OnAll(f, rstep, st, went, ref) ==
    LET g == [f EXCEPT !.rstep = rstep, !.reg = [s \in SgServers |-> Aimed(@[s], went, ref)]]
    IN  ResetProgress(FoldLeft(LAMBDA x, s : doNext(x, s, st), g, [i \in 1 .. sg.servers |-> i - 1]))

RDone(f) == f.rstep = "Done"
RLinearized(f) == f.rstep \in {"Done", "Linearized"}
getMyTsp(f) == LET ts == { f.reg[s].mine : s \in Active(f) } IN CHOOSE t \in ts : \A u \in ts : u <= t
getMinTsp(f) == LET ts == { f.reg[s].max : s \in Active(f) } \cup {f.rmax} IN CHOOSE t \in ts : \A u \in ts : t <= u
getMyMinTsp(f) == LET ts == { ValueOr(f.reg[s].mine, 0) : s \in Active(f) } IN CHOOSE t \in ts : \A u \in ts : t <= u
notified(f) == \E s \in Active(f) : f.rent[s].notif # 0

\* Steps register s and keeps the entry of the greatest tsp seen.
One(b) == IF b THEN 1 ELSE 0
Stepped(a, s, f) ==
    LET r == f.reg[s]
        ready == RegDone(f, s) \/ (f.rstep = "Write" /\ RegLinearized(f, s))
        newest == f.rmax < r.max \/ (f.rmax = r.max /\ r.in_place)
    IN  [f |-> IF newest THEN [f EXCEPT !.rmax = r.max, !.rentry = s, !.rent[s].tsp = r.max] ELSE f,
         ready |-> a.ready + One(ready),
         done |-> a.done + One(RegDone(f, s)),
         progress |-> a.progress + One(ready \/ r.progress)]
Visit(a, s) == Stepped(a, s, RegStep(a.f, s))

MarkDone(f) == [f EXCEPT !.rstep = "Done", !.reg = [s \in SgServers |-> [@[s] EXCEPT !.next = "Done"]], !.ok = TRUE]

\* What a majority of steps makes of the operation: the entry whose in-place copy is
\* intact, else the log slot that the greatest tsp names, else whatever was read last.
FirstActive(f, P(_)) == LET hits == SelectSeq(ActiveSeq(f), P) IN IF hits = <<>> THEN NoTsp ELSE hits[1]
InPlaceHit(f) == FirstActive(f, LAMBDA s : /\ f.reg[s].in_place /\ f.reg[s].max = f.rmax
                                           /\ Verified(f.rent[s].tsp) = Verified(f.rmax) /\ Intact(f.rent[s]))
LogHit(f) == FirstActive(f, LAMBDA s : LogRef(f.rent[s].tsp) = LogRef(f.rmax))
ReadFrom(f, s) == [f EXCEPT !.rentry = s, !.rent[s].tsp = f.rmax]

RECURSIVE RStep(_)
Progressed(f, ready, done) ==
    IF ready < sg.majority THEN f
    ELSE CASE f.rstep = "Write" /\ done < sg.majority -> [f EXCEPT !.rstep = "Linearized"]
           [] f.rstep = "TryRead" ->
                IF InPlaceHit(f) # NoTsp THEN MarkDone([f EXCEPT !.rentry = InPlaceHit(f)])
                ELSE [RStep(OnAll(f, "ReadLog", "ReadLog", Same, LogRef(f.rmax))) EXCEPT !.ok = TRUE]
           [] f.rstep = "ReadLog" -> MarkDone(ReadFrom(f, IF LogHit(f) = NoTsp THEN f.rentry ELSE LogHit(f)))
           [] OTHER -> MarkDone(f)
Visited(a) ==
    IF a.progress < sg.majority THEN [a.f EXCEPT !.ok = FALSE]
    ELSE Progressed([ResetProgress(a.f) EXCEPT !.ok = TRUE], a.ready, a.done)
RStep(f) ==
    IF RDone(f) THEN [ResetProgress(f) EXCEPT !.ok = TRUE]
    ELSE Visited(FoldLeft(Visit, [f |-> f, ready |-> 0, done |-> 0, progress |-> 0], ActiveSeq(f)))

\* --- OopsDataFuture ----------------------------------------------------------------

\* The operation of the replicated register that a step stands for.
NoReg == [rstep |-> None]
On(rstep, st, went, ref) == [rstep |-> rstep, st |-> st, went |-> went, ref |-> ref]
RegisterOp(f) ==
    LET mine == <<f.me, f.log_id>>
        other == LogRef(f.rent[f.rentry].tsp)
    IN  CASE f.dstep = "WTryOptimisticTs" -> On("TryWrite", "TryWriteAll", Local, mine)
          [] f.dstep = "WPrepareToRepare" -> On("ReadLog", "ReadLog", Same, LogRef(f.rmax))
          [] f.dstep = "WTryRepare" -> On("Write", "ReplicateAll", f.rentry, other)
          [] f.dstep = "WReadToWrite" -> On("Read", "ReadTs", Same, NoVal)
          [] f.dstep = "RReading" -> On("TryRead", "TryReadAll", Same, NoVal)
          [] f.dstep = "RTryNotifyWriter" -> On("Read", "NotifyAndReadTs", Same, other)
          [] f.dstep = "ReplicateAsVerified" -> On("Write", "WriteAll", f.rentry, other)
          [] f.dstep = "WriteTsAsVerified" -> On("Write", "WriteTsAndIn", Local, NoVal)
          [] f.dstep = "WriteAsVerified" -> On("Write", "WriteAll", Local, mine)
          [] OTHER -> NoReg
Entered(f, st) ==
    LET g == [f EXCEPT !.dstep = st] IN
    CASE st = "WTryOptimisticTs" -> GuessTs(g, 0)
      [] st = "RReading" -> [g EXCEPT !.previous_ts = f.m_ts]
      [] st = "ReplicateAsVerified" -> [g EXCEPT !.rent[f.rentry].tsp = Verified(@), !.result = f.rent[f.rentry].val]
      [] st \in {"WriteTsAsVerified", "WriteAsVerified"} -> [g EXCEPT !.wentry.tsp = Verified(@)]
      [] OTHER -> g
Blind(f) == ~sg.guess \/ (2 <= Len(sg.ops) /\ ValueOr(getMyTsp(f), 1) = 0)
Launched(f, o) == IF o = NoReg THEN f ELSE OnAll(f, o.rstep, o.st, o.went, o.ref)
StartStep(f) == Launched(f, RegisterOp(f))

RECURSIVE DStep(_)
\* Mutant: transitionTo() does not try to step forward.
DToNoStep(f, st) == StartStep(Entered(f, st))
DTo(f, st) == DStep(StartStep(Entered(f, IF st = "WTryOptimisticTs" /\ Blind(f) THEN "WReadToWrite" ELSE st)))

\* What a read does with the greatest tsp it has seen.
ReadNext(f) ==
    LET m == [f EXCEPT !.m_ts = f.rmax]
        c == LogRef(f.rmax)[1]
    IN  CASE isVerified(f.rmax) -> [f |-> m, to |-> "ReplicateAsVerified"]
          [] ~isVerified(f.rmax) /\ f.rmax = f.previous_ts -> [f |-> m, to |-> "RTryNotifyWriter"]
          [] ~isVerified(f.rmax) /\ f.rmax # f.previous_ts ->
               IF f.seen[c] # NoTsp
               THEN [f |-> [m EXCEPT !.m_ts = f.seen[c], !.result = f.rent[f.rentry].val], to |-> "Linearized"]
               ELSE [f |-> [m EXCEPT !.seen[c] = f.rmax], to |-> "RReading"]
WriteNext(f) ==
    LET w == f.wentry.tsp
        m == [f EXCEPT !.m_ts = f.rmax]
        finish == IF RDone(f) THEN "Done" ELSE "Linearized"
    IN  CASE f.dstep = "WTryOptimisticTs" ->
               IF f.rmax <= Verified(w) THEN [f |-> m, to |-> "WriteTsAsVerified"]
               ELSE IF getMinTsp(f) <= w THEN [f |-> m, to |-> "WPrepareToRepare"]
               ELSE IF getMyMinTsp(f) <= w THEN [f |-> m, to |-> "WTryRepare"]
               ELSE [f |-> GuessTs(m, 1), to |-> "WriteTsAsVerified"]
          [] f.dstep = "WPrepareToRepare" -> [f |-> f, to |-> "WTryRepare"]
          [] f.dstep = "WTryRepare" ->
               IF notified(f) THEN [f |-> f, to |-> finish] ELSE [f |-> GuessTs(f, 1), to |-> "WriteTsAsVerified"]
          [] f.dstep = "WReadToWrite" -> [f |-> GuessTs(m, 1), to |-> "WriteAsVerified"]
          [] f.dstep \in {"ReplicateAsVerified", "WriteTsAsVerified", "WriteAsVerified"} -> [f |-> f, to |-> finish]
          [] f.dstep = "Linearized" -> [f |-> f, to |-> "Done"]
          [] OTHER -> [f |-> f, to |-> None]

\* A read whose notification changed nothing replicates what it has, and falls through.
Fallen(f) == f.dstep = "RTryNotifyWriter" /\ f.rmax = f.previous_ts
Follow(d) == IF d.to = None THEN d.f ELSE [DTo(d.f, d.to) EXCEPT !.ok = TRUE]
Decided(f) ==
    IF ~f.ok \/ ~RLinearized(f) \/ (f.dstep = "Linearized" /\ ~RDone(f)) THEN f
    ELSE Follow(IF f.dstep \in {"RReading", "RTryNotifyWriter"}
                THEN ReadNext(IF Fallen(f) THEN DTo(f, "ReplicateAsVerified") ELSE f)
                ELSE WriteNext(f))
DStep(f) == Decided(RStep(f))

\* --- OopsFuture -----------------------------------------------------------------

RegForKV(r, tsp) == [r EXCEPT !.mine = tsp, !.max = ValueOr(tsp, 0)]
\* The key's main server is 0; once it is dead, server 1 keeps the in-place copy.
RelaxedForKV(f, tsp) ==
    [f EXCEPT !.rmax = 0, !.rentry = 0,
              !.reg = [s \in SgServers |-> [RegForKV(@[s], tsp) EXCEPT !.in_place = s = 0 \/ (f.dead > 0 /\ s = 1)]]]
forKV(f, tsp) == [RelaxedForKV(f, tsp) EXCEPT !.m_ts = ValueOr(tsp, 0), !.previous_ts = 0]
prepareToWrite(f) ==
    LET v == <<f.me, f.log_id>> t == makeTsp(0, f.log_id, f.me, 0)
    IN  [f EXCEPT !.wentry = [tsp |-> t, val |-> v, chsum |-> hashOf(t, v)]]
dataRead(f, tsp) == DTo([forKV(f, tsp) EXCEPT !.seen = [c \in SgClients |-> NoTsp]], "RReading")
dataWrite(f, tsp) == DTo(forKV(f, tsp), "WTryOptimisticTs")
getNextLogId(f) == [f EXCEPT !.log_id = f.next_log_id, !.next_log_id = @ + 1]

doInsert(f) ==
    [dataWrite(prepareToWrite(getNextLogId(f)), NoTsp) EXCEPT !.step = "InsertDataAndSearch", !.index = "posted"]
doRead(f) ==
    IF f.cache # NoTsp THEN [dataRead(f, f.cache) EXCEPT !.step = "ReadData"]
    ELSE [f EXCEPT !.step = "ReadSearch", !.index = "posted"]
doUpdate(f) ==
    IF f.cache # NoTsp THEN [dataWrite(prepareToWrite(getNextLogId(f)), f.cache) EXCEPT !.step = "UpdateData"]
    ELSE [prepareToWrite(getNextLogId(f)) EXCEPT !.step = "UpdateSearch", !.index = "posted"]
StartOp(f, kind) == CASE kind = "insert" -> doInsert(f) [] kind = "read" -> doRead(f) [] kind = "update" -> doUpdate(f)

Settle(f) ==
    CASE ~f.ok \/ f.index # "quiet" -> f
      [] OTHER ->
         CASE f.step = "InsertDataAndSearch" -> [f EXCEPT !.step = "InsertToIndex", !.index = "posted"]
           [] f.step = "ReadSearch" -> [dataRead(f, NoTsp) EXCEPT !.step = "ReadData"]
           [] f.step = "UpdateSearch" -> [dataWrite(f, NoTsp) EXCEPT !.step = "UpdateData"]
           [] f.step \in {"ReadData", "UpdateData"} /\ f.dstep \in {"Done", "Linearized"} ->
                [f EXCEPT !.step = f.dstep,
                          !.cache = LET t == ValueOr(getMyTsp(f), 0) IN IF f.dstep = "Done" THEN t ELSE Verified(t)]
           [] f.step \in {"InsertToIndex", "Linearized"} /\ f.dstep = "Done" -> [f EXCEPT !.step = "Done"]
           [] OTHER -> f
OopsStep(f) == Settle(DStep(f))

\* --- the register the key should be: all ways to linearize, as answers return -------

NoAnswer == <<>>
Written == <<0>>
Invoked(f) == f.step # "Done" /\ f.step # "Linearized"
Applied(x, c) ==
    IF fut[c].kind = "read" THEN [x EXCEPT !.ans[c] = x.val]
    ELSE [val |-> <<c, fut[c].log_id>>, ans |-> [x.ans EXCEPT ![c] = Written]]
Linearizations(X) ==
    LET More[n \in 0 .. Len(sg.ops)] ==
          IF n = 0 THEN X
          ELSE More[n - 1] \cup UNION { { Applied(x, c) : c \in { d \in SgClients : Invoked(fut[d]) /\ x.ans[d] = NoAnswer } }
                                        : x \in More[n - 1] }
    IN  More[Len(sg.ops)]
Answered(c, a) == { [x EXCEPT !.ans[c] = NoAnswer] : x \in { x \in Linearizations(lin) : x.ans[c] = a } }

\* --- clients and network cards -------------------------------------------------------

NewReg == [step |-> "Done", next |-> None, to_poll |-> 0, max |-> 0, mine |-> 0, went |-> Local, ongoing |-> Local,
           ref |-> NoVal, progress |-> FALSE, in_place |-> FALSE]
NewClient(cfg, c) ==
    [me |-> c, kind |-> None, step |-> "Done", index |-> "quiet", ok |-> TRUE,
     dstep |-> "Done", seen |-> [d \in 1 .. Len(cfg.ops) |-> NoTsp], m_ts |-> 0, previous_ts |-> 0, log_id |-> 0,
     rstep |-> "Done", rmax |-> 0, rentry |-> 0,
     reg |-> [s \in 0 .. cfg.servers - 1 |-> NewReg],
     wentry |-> NoEntry, result |-> NoVal,
     rent |-> [s \in 0 .. cfg.servers - 1 |-> [tsp |-> 0, val |-> NoVal, chsum |-> <<>>, notif |-> 0, from |-> 0, word |-> 0]],
     q |-> [s \in 0 .. cfg.servers - 1 |-> <<>>], cqe |-> [s \in 0 .. cfg.servers - 1 |-> 0],
     clock |-> 0, max_ever_seen_ts |-> 0, dead |-> 0, next_log_id |-> 0, cache |-> NoTsp,
     skew |-> 0, dies |-> FALSE]

SgInit ==
    /\ sg \in SgConfigs
    /\ word = [s \in SgServers |-> 0]
    /\ inplace = [s \in SgServers |-> NoEntry]
    /\ logs = [s \in SgServers |-> [ref \in SgClients \X (0 .. LogIds - 1) |-> [notif |-> 0, tsp |-> 0, val |-> NoVal, chsum |-> <<>>]]]
    /\ fut = [c \in SgClients |-> NewClient(sg, c)]
    /\ todo = [c \in SgClients |-> If(c = 1, <<"insert">>) \o If(sg.warm, <<"read">>) \o sg.ops[c]]
    /\ lin = {[val |-> NoVal, ans |-> [c \in SgClients |-> NoAnswer]]}

\* The moments at which the code looks at the clock: nothing, or any advance.
Timed(f) == { [f EXCEPT !.skew = k, !.dies = d] :
                k \in (IF f.clock = 0 THEN {0} ELSE sg.skews), d \in (IF sg.dies /\ f.clock > 0 /\ f.dead = 0 THEN BOOLEAN ELSE {FALSE}) }
Untimed(f) == [f EXCEPT !.skew = 0, !.dies = FALSE]

\* The workload waits for the insertion and the barrier; then initClock().  In a warm
\* configuration every client first reads the key, by itself, and so has it cached.
Started(c) == Len(todo[c]) <= Len(sg.ops[c]) /\ (Len(todo[c]) = Len(sg.ops[c]) => fut[c].step = "Done")
BeginOp(c) ==
    LET kind == Head(todo[c])
        f == IF kind = "insert" THEN fut[c] ELSE [fut[c] EXCEPT !.clock = MaxOf(@, 1)]
    IN  /\ todo[c] # <<>> /\ fut[c].step = "Done"
        /\ \A d \in SgClients : d < c \/ Started(c) => Started(d)
        /\ \E t \in Timed(f) : fut' = [fut EXCEPT ![c] = Untimed(StartOp([t EXCEPT !.kind = kind], kind))]
        /\ todo' = [todo EXCEPT ![c] = Tail(@)]
        /\ UNCHANGED <<sg, word, inplace, logs, lin>>

\* tickRdma() reaps what has completed, and the future steps forward.
Reap(f) ==
    [f EXCEPT !.index = IF @ = "arrived" THEN "quiet" ELSE @,
              !.reg = [s \in SgServers |-> [@[s] EXCEPT !.to_poll = @ - f.cqe[s]]],
              !.cqe = [s \in SgServers |-> 0]]
Tick(c) ==
    /\ fut[c].index = "arrived" \/ \E s \in SgServers : fut[c].cqe[s] > 0
    /\ \E f \in { Untimed(OopsStep(t)) : t \in Timed(Reap(fut[c])) } :
         /\ fut' = [fut EXCEPT ![c] = f]
         /\ lin' = IF Invoked(fut[c]) /\ ~Invoked(f)
                   THEN Answered(c, IF f.kind = "read" THEN f.result ELSE Written)
                   ELSE lin
    /\ UNCHANGED <<sg, word, inplace, logs, todo>>

\* The index always holds the key when it is searched (the first client inserts it
\* before the barrier), so a search or the insertion only takes its time.
IndexAnswers(c) ==
    /\ fut[c].index = "posted"
    /\ fut' = [fut EXCEPT ![c].index = "arrived"]
    /\ UNCHANGED <<sg, word, inplace, logs, todo, lin>>

\* The network card executes the oldest work request of client c to server s.  A write
\* of the in-place KV is not atomic: its header lands before its payload.
Execute(c, s) ==
    LET wr == Head(fut[c].q[s])
        f == [fut[c] EXCEPT !.q[s] = Tail(@), !.cqe[s] = @ + (IF Signaled(wr) THEN 1 ELSE 0)]
        Into(g) == fut' = [fut EXCEPT ![c] = g]
    IN  /\ fut[c].q[s] # <<>>
        /\ CASE wr.op = "readKV" ->
                  /\ Into([f EXCEPT !.rent[s] = inplace[s] @@ [notif |-> @.notif, from |-> @.from, word |-> word[s]]])
                  /\ UNCHANGED <<word, inplace, logs>>
             [] wr.op = "readTs" -> Into([f EXCEPT !.rent[s].word = word[s]]) /\ UNCHANGED <<word, inplace, logs>>
             [] wr.op = "readLog" ->
                  /\ Into([f EXCEPT !.rent[s] = KvOf(logs[s][wr.ref]) @@ [notif |-> @.notif, from |-> @.from, word |-> @.word]])
                  /\ UNCHANGED <<word, inplace, logs>>
             [] wr.op = "readNotif" -> Into([f EXCEPT !.rent[s].notif = logs[s][wr.ref].notif]) /\ UNCHANGED <<word, inplace, logs>>
             [] wr.op = "casNotif" ->
                  /\ Into([f EXCEPT !.rent[s].notif = logs[s][wr.ref].notif])
                  /\ logs' = [logs EXCEPT ![s][wr.ref].notif = 1] /\ UNCHANGED <<word, inplace>>
             [] wr.op = "casTsp" ->
                  /\ Into([f EXCEPT !.rent[s].from = word[s]])
                  /\ word' = [word EXCEPT ![s] = IF @ = wr.old THEN wr.new ELSE @] /\ UNCHANGED <<inplace, logs>>
             [] wr.op = "writeLog" ->
                  /\ Into(f)
                  /\ logs' = [logs EXCEPT ![s][wr.ref] = wr.e @@ [notif |-> @.notif]] /\ UNCHANGED <<word, inplace>>
             [] wr.op = "writeIn" ->
                  /\ Into([fut[c] EXCEPT !.q[s][1].op = "writeIn2"])
                  /\ inplace' = [inplace EXCEPT ![s] = [wr.e EXCEPT !.val = inplace[s].val]] /\ UNCHANGED <<word, logs>>
             [] wr.op = "writeIn2" ->
                  /\ Into(f)
                  /\ inplace' = [inplace EXCEPT ![s] = wr.e] /\ UNCHANGED <<word, logs>>
        /\ UNCHANGED <<sg, todo, lin>>

SgNext ==
    \E c \in SgClients :
        \/ BeginOp(c) \/ Tick(c) \/ IndexAnswers(c)
        \/ \E s \in SgServers : Execute(c, s)
SgSpec == SgInit /\ [][SgNext]_sgVars
-----------------------------------------------------------------------------

\* The key is an atomic register: whatever the guessed timestamps, repairs, torn
\* in-place reads and notifications, the operations that have returned can be put in
\* one order, each between its start and its linearization point, in which every read
\* returns the value of the last write (OopsDataFuture's Linearized and Done steps).
SgLinearizable == lin # {}

\* When all operations are over, what the clients left on the servers is final: the
\* greatest tsp on the servers a client uses is verified, the log slot it names holds
\* its entry intact on one of them, and that entry is a value the register may have in
\* the end (OopsDataFuture::WriteTsAsVerified, WTryRepare and ReplicateAsVerified).
SgSettled ==
    (\A c \in SgClients : fut[c].step = "Done" /\ todo[c] = <<>>) =>
        \A c \in SgClients :
            \E s \in Active(fut[c]) :
                LET ref == LogRef(word[s]) IN
                /\ \A t \in Active(fut[c]) : word[t] <= word[s]
                /\ isVerified(word[s])
                /\ Intact(logs[s][ref]) /\ logs[s][ref].val = ref
                /\ \E x \in lin : x.val = ref

\* A max register never goes back: no compare-and-swap of any step, whatever the clients
\* guessed and whatever they believed the word to be, replaces a tsp by a smaller one
\* (UnreliableMaxRegFuture's casTsp requests, OopsState::syncClock()).
SgWordsGrow == [][\A s \in SgServers : word[s] <= word'[s]]_sgVars

\* No lost wakeup: a client steps its future only when tickRdma() reaps a completion of
\* it (OopsClient::progress), so as long as the operation is not done there is one, in
\* the completion queue or still to come, whatever shortcuts the registers took and
\* whichever server became active or died in between.
SgAwaited ==
    \A c \in SgClients :
        fut[c].step # "Done" =>
            \/ fut[c].index # "quiet"
            \/ \E s \in SgServers : fut[c].cqe[s] > 0 \/ \E i \in DOMAIN fut[c].q[s] : Signaled(fut[c].q[s][i])
=============================================================================

--------------------------- MODULE AtomicRegisters --------------------------
(***************************************************************************)
(* What the register store promises to its callers when it is atomic: a put *)
(* and a get take effect at one instant between their call and their        *)
(* return, and a scan reads the registers of its range one after the other, *)
(* each at one instant of its own.                                          *)
(***************************************************************************)
EXTENDS Integers

CONSTANTS Point,    \* callers of put and get
          Scan,     \* callers of scan
          Key,      \* registers, a set of integers
          Value     \* contents, 0 initially

VARIABLES reg,      \* reg[k]: the content of register k
          op,       \* op[p]: the operation p has under way
          val,      \* val[p]: what p's last get returned (0 while it runs)
          vec       \* vec[p]: what p's last scan returned

avars == << reg, op, val, vec >>

Nothing == [k \in Key |-> 0]
Idle == [kind |-> "idle", last |-> 0, arg |-> 0, next |-> 0, got |-> Nothing]

\* A call is served register by register, from next to last.
Call(kind, k, last, v) ==
    [kind |-> kind, last |-> last, arg |-> v, next |-> k, got |-> Nothing]

AInit ==
    /\ reg = Nothing
    /\ op = [p \in Point \cup Scan |-> Idle]
    /\ val = [p \in Point |-> 0]
    /\ vec = [p \in Scan |-> Nothing]

InvokePut(p, k, v) ==
    /\ op[p] = Idle
    /\ op' = [op EXCEPT ![p] = Call("put", k, k, v)]
    /\ UNCHANGED << reg, val, vec >>

InvokeGet(p, k) ==
    /\ op[p] = Idle
    /\ op' = [op EXCEPT ![p] = Call("read", k, k, 0)]
    /\ val' = [val EXCEPT ![p] = 0]
    /\ UNCHANGED << reg, vec >>

InvokeScan(p, k, l) ==
    /\ op[p] = Idle /\ k <= l
    /\ op' = [op EXCEPT ![p] = Call("read", k, l, 0)]
    /\ UNCHANGED << reg, val, vec >>

\* The put takes effect.
Write(p) ==
    /\ op[p].kind = "put" /\ op[p].next <= op[p].last
    /\ reg' = [reg EXCEPT ![op[p].next] = op[p].arg]
    /\ op' = [op EXCEPT ![p].next = @ + 1]
    /\ UNCHANGED << val, vec >>

\* The next register of a get or a scan is read.
Read(p) ==
    /\ op[p].kind = "read" /\ op[p].next <= op[p].last
    /\ op' = [op EXCEPT ![p].got[op[p].next] = reg[op[p].next],
                        ![p].next = @ + 1]
    /\ UNCHANGED << reg, val, vec >>

Return(p) ==
    /\ op[p].kind # "idle" /\ op[p].next = op[p].last + 1
    /\ op' = [op EXCEPT ![p] = Idle]
    /\ val' = IF p \in Point /\ op[p].kind = "read"
              THEN [val EXCEPT ![p] = op[p].got[op[p].last]] ELSE val
    /\ vec' = IF p \in Scan THEN [vec EXCEPT ![p] = op[p].got] ELSE vec
    /\ UNCHANGED reg

Begins(p) == op[p] = Idle /\ op'[p] # Idle
ANext ==
    \/ \E p \in Point : Begins(p) /\ \E k \in Key, v \in Value : InvokePut(p, k, v)
    \/ \E p \in Point : Begins(p) /\ \E k \in Key : InvokeGet(p, k)
    \/ \E p \in Scan : Begins(p) /\ \E k, l \in Key : InvokeScan(p, k, l)
    \/ \E p \in Point \cup Scan : Write(p) \/ Read(p) \/ Return(p)

ASpec == AInit /\ [][ANext]_avars
=============================================================================

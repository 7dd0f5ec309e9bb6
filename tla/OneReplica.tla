----------------------------- MODULE OneReplica -----------------------------
(***************************************************************************)
(* The register store built with one replica (DS_N_REPLICAS = 1, Quorum =   *)
(* NumServers = 1) implements AtomicRegisters: a get takes effect when its  *)
(* READ executes, a put when its CAS finds the register it expects.         *)
(***************************************************************************)
EXTENDS DsClient

\* The work request of f that has not executed yet, if there is one.
Pending(f) == {w \in {sq[Owner(f)][1][m] : m \in 1 .. Len(sq[Owner(f)][1])} :
                 w.fut = f}

IsPut(f) == step[f] \in {"ReadSeq", "OptimisticChain", "CAS"}

\* The CAS of the put f has taken effect.
Applied(f) ==
    /\ step[f] \in {"OptimisticChain", "CAS"}
    /\ Pending(f) = {} /\ bufs[f][1] = expected[f][1]

LastKey(f) == IF f \in RangeFut THEN end_key[f] ELSE key[f]

\* The register f serves next.
NextKey(f) ==
    IF IsPut(f)
    THEN IF Applied(f) THEN key[f] + 1 ELSE key[f]
    ELSE IF Pending(f) = {} THEN LastKey(f) + 1
                            ELSE (CHOOSE w \in Pending(f) : TRUE).key

\* What f has read of register k.
Got(f, k) == IF f \in RangeFut THEN bulk_bufs[f][1][k].value ELSE bufs[f][1].value

IdleOp == [kind |-> "idle", last |-> 0, arg |-> 0, next |-> 0,
           got |-> [k \in Key |-> 0]]

OpOf(f) ==
    IF step[f] = "Done" THEN IdleOp
    ELSE [kind |-> IF IsPut(f) THEN "put" ELSE "read",
          last |-> LastKey(f),
          arg  |-> IF IsPut(f) THEN value[f] ELSE 0,
          next |-> NextKey(f),
          got  |-> [k \in Key |-> IF ~IsPut(f) /\ k \in key[f] .. (NextKey(f) - 1)
                                  THEN Got(f, k) ELSE 0]]

Atomic == INSTANCE AtomicRegisters WITH
    Point <- OpFut, Scan <- RangeFut,
    reg <- [k \in Key |-> mem[0][k].value],
    op  <- [f \in Fut |-> OpOf(f)],
    val <- [f \in OpFut |-> max_reg[f].value],
    vec <- [f \in RangeFut |-> [k \in Key |-> results[f][k].value]]

\* Every behaviour of the one-replica store is one of atomic registers: puts
\* and gets are linearizable, and a scan returns for each register a content
\* it had while the scan ran.
AtomicSpec == Atomic!ASpec
=============================================================================

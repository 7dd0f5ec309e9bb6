---------------------------- MODULE MCOneReplica ----------------------------
(***************************************************************************)
(* The one-replica register store, for TLC, under one of two loads: two     *)
(* synchronous clients on two registers, or one client that keeps two       *)
(* operations of any kind in flight on one register.                        *)
(***************************************************************************)
EXTENDS OneReplica, MCDsClient

VARIABLE load

loadVars == <<vars, load>>

\* Client 0 puts register 0 and gets, client 1 puts and scans: two operations
\* each, one future of each kind, and values that tell the writers apart.
Mixed(f) ==
    /\ f[3] = 0 /\ issued[Owner(f)] < 2
    /\ IF Owner(f) = 0 THEN f \in OpFut /\ (IsPut(f)' => key'[f] = 0)
                       ELSE f \in OpFut => IsPut(f)'
    /\ f \in OpFut /\ IsPut(f)' => value'[f] = Owner(f) + 1
Async(f) ==
    /\ Owner(f) = 0 /\ key'[f] = 0
    /\ IF f \in RangeFut THEN end_key'[f] = 0 ELSE value'[f] < 2

Offered(f) == IF load = "mixed" THEN Mixed(f) ELSE Async(f)

LoadInit == Init /\ load \in {"mixed", "async"}
LoadNext ==
    /\ Next /\ UNCHANGED load
    /\ \A f \in Fut : step[f] = "Done" /\ step'[f] # "Done" => Offered(f)
LoadSpec == LoadInit /\ [][LoadNext]_loadVars
=============================================================================

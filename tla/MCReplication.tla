--------------------------- MODULE MCReplication ---------------------------
(***************************************************************************)
(* The two replicated registers, for TLC: the store of disco-skip with one *)
(* writer, and Safe-Guess of swarm-kv.  They share nothing; a behaviour    *)
(* exercises one of them and leaves the other at rest.                     *)
(***************************************************************************)
EXTENDS MCAbd, MCSafeGuess

VARIABLE part   \* the part exercised

replicationVars == <<part, allVars, sgVars>>

\* Safe-Guess at rest: a server and no client.
Idle == [OneServer EXCEPT !.warm = FALSE]
ConfigsAndIdle == Configs \cup {Idle}

ReplicationInit ==
    /\ part \in {"disco-skip", "swarm-kv"} /\ HistInit
    /\ SgInit /\ (part = "disco-skip" <=> sg = Idle)

ReplicationNext ==
    \/ part = "disco-skip" /\ HistNext /\ UNCHANGED <<part, sgVars>>
    \/ part = "swarm-kv" /\ SgNext /\ UNCHANGED <<part, allVars>>

ReplicationSpec == ReplicationInit /\ [][ReplicationNext]_replicationVars
=============================================================================

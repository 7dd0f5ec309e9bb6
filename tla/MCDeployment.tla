---------------------------- MODULE MCDeployment ----------------------------
(***************************************************************************)
(* A deployment, for TLC: how its processes find each other, over two runs  *)
(* on one store, and the operations of the register store while a memory    *)
(* server may fail.  A behaviour exercises one of the two.                  *)
(***************************************************************************)
EXTENDS MCDsClient, MCRendezvous

VARIABLE part   \* the part exercised

deployVars == <<part, vars, rdvVars>>

Operations(A) == part = "operations" /\ A /\ UNCHANGED <<part, rdvVars>>
Exchange(A) == part = "rendezvous" /\ A /\ UNCHANGED <<part, vars>>

DeployInit ==
    /\ part \in {"operations", "rendezvous"} /\ Init
    /\ RdvInit /\ (part = "operations" => dep.system = "fusee")
DeployNext == Operations(Next) \/ Exchange(RdvNext)

\* The programs keep running, and the launch script starts every process.
DeployFairness ==
    /\ \A c \in Client, i \in Slot : WF_deployVars(Operations(Nic(c, i)))
    /\ \A c \in Client : WF_deployVars(Operations(TickRdma(c) \/ TickRdmaThrows(c)))
    /\ \A f \in Fut : WF_deployVars(Operations(ClientStep(f)))
    /\ \A p \in 1 .. 3 : WF_deployVars(Exchange(RdvStep(p)))

DeploySpec == DeployInit /\ [][DeployNext]_deployVars /\ DeployFairness
=============================================================================

---------------------------- MODULE MCRendezvous ----------------------------
(* Deployments of the three programs for TLC. *)
EXTENDS Rendezvous

Deployment(system, servers, clients, ml) ==
    [system |-> system, servers |-> servers, clients |-> clients, ml |-> ml]

\* One tracker and one worker; or two YCSB clients.
MCRdvDeployments ==
    { Deployment("disco-skip", {1}, {2, 3}, {}), Deployment("disco-skip", {1}, {2, 3}, {1}),
      Deployment("swarm-kv", {1}, {2, 3}, {}), Deployment("fusee", {1, 2}, {3}, {}) }
\* The --ml workload twice.
MCMlTwice == { Deployment("disco-skip", {1}, {2, 3}, {1, 2}) }
=============================================================================

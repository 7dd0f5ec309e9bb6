----------------------------- MODULE AbdHistory -----------------------------
(***************************************************************************)
(* The register store with the history its clients can observe: which tags  *)
(* have been acknowledged and returned to whom, and which had been when an  *)
(* operation started.  The history only watches the steps of DsClient.      *)
(***************************************************************************)
EXTENDS DsClient

VARIABLES
    acked,      \* acked[k]: the largest tag an acknowledged put wrote to k
    seen,       \* seen[c][k]: the largest tag c itself wrote or was returned
    floor       \* floor[f]: the largest tag acknowledged, and the one its client saw, when f started

histVars == << acked, seen, floor >>
allVars == << vars, histVars >>

Blank == [k \in Key |-> ZeroRegister]
NoFloor == [ack |-> Blank, own |-> Blank]

Starts(f) == step[f] = "Done" /\ step'[f] # "Done"
PutEnds(f) == step[f] \in {"OptimisticChain", "CAS"} /\ step'[f] = "Done"
ReadEnds(f) == step[f] \in {"Reading", "WritingBack"} /\ step'[f] = "Done"

\* The registers the future f works on, and what its read of k returns.
KeysRead(f) == IF f \in OpFut THEN {key[f]} ELSE KeysOf(f)
Answer(f, k) == IF f \in OpFut THEN max_reg'[f] ELSE results'[f][k]

\* The tags acknowledged to, and returned to, the futures in F for key k.
AckedNow(F, k) == {target_reg[f] : f \in {g \in F \cap OpFut : PutEnds(g) /\ key[g] = k}}
ReturnedNow(F, k) == {Answer(f, k) : f \in {g \in F : ReadEnds(g) /\ k \in KeysRead(g)}}

\* The register of R with the largest tag.
Newest(R) == CHOOSE m \in R : \A r \in R : ~RegLess(m, r)

HistInit ==
    /\ Init
    /\ acked = Blank
    /\ seen = [c \in Client |-> Blank]
    /\ floor = [f \in Fut |-> NoFloor]

HistUpdate ==
    /\ acked' = [k \in Key |-> Newest({acked[k]} \cup AckedNow(Fut, k))]
    /\ seen' = [c \in Client |-> [k \in Key |->
          LET own == {f \in Fut : Owner(f) = c}
          IN  Newest({seen[c][k]} \cup AckedNow(own, k) \cup ReturnedNow(own, k))]]
    /\ floor' = [f \in Fut |->
          IF step'[f] = "Done" THEN NoFloor
          ELSE IF Starts(f)
               THEN [ack |-> acked, own |-> seen[Owner(f)]]
               ELSE floor[f]]

HistNext == Next /\ HistUpdate
HistSpec == HistInit /\ [][HistNext]_allVars

\* The same system driven sequentially: an operation is only issued when every
\* earlier one, of any client, has finished.
OneAtATime == (\E f \in Fut : Starts(f)) => \A g \in Fut : step[g] = "Done"
SequentialSpec == HistInit /\ [][HistNext /\ OneAtATime]_allVars

-----------------------------------------------------------------------------
\* Post-commit durability: the replicas that hold at least the tag of every
\* acknowledged put number at least a majority (PutFuture's acknowledgement).
CommittedAtQuorum ==
    \A k \in Key :
        Cardinality({s \in Server : RegLeq(acked[k], mem[s][k])}) >= Quorum

\* Durability despite a fail-stop: some server that is still up holds at least
\* the tag of every acknowledged put.
CommittedSurvives ==
    \A k \in Key : \E s \in up : RegLeq(acked[k], mem[s][k])

\* A get or scan never returns a tag below one whose put was acknowledged
\* before it started.
ReadSeesAcked ==
    [][\A f \in Fut : ReadEnds(f) =>
         \A k \in KeysRead(f) : RegLeq(floor[f].ack[k], Answer(f, k))]_allVars

\* Sessions: what a client reads is never older than what it had itself
\* written or read before, and a put of its own gets a tag above all of it.
SessionOrder ==
    [][\A f \in Fut :
         /\ ReadEnds(f) =>
              \A k \in KeysRead(f) : RegLeq(floor[f].own[k], Answer(f, k))
         /\ PutEnds(f) => RegLess(floor[f].own[key[f]], target_reg[f])]_allVars
=============================================================================

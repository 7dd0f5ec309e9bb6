----------------------------- MODULE GetFuture ------------------------------
(***************************************************************************)
(* GetFuture (get_future.hpp): read a quorum, return the register with the  *)
(* largest tag, and (when the writeback is compiled in) CAS it into the     *)
(* replicas of the quorum that held something else.                         *)
(***************************************************************************)
EXTENDS DsState

VARIABLES max_reg   \* max_reg[f]: the register the get returns

GetTypeOK == max_reg \in [OpFut -> Register]
GetInit == max_reg = [f \in OpFut |-> ZeroRegister]

\* doGet
DoGet(f, k) ==
    /\ key' = [key EXCEPT ![f] = k]
    /\ max_reg' = [max_reg EXCEPT ![f] = ZeroRegister]
    /\ Post(f, Slot, [i \in Slot |-> ReadWR(f, k)])
    /\ step' = [step EXCEPT ![f] = "Reading"]
    /\ UNCHANGED << mem, up, halted, cache, valid, bufs, progress >>

\* Mutant of IsRunningMax: the last replica of the quorum wins.
IsLastRead(f, m) == m = bufs[f][Quorum]

\* The running maximum of the loop over the quorum: it starts at Register(0)
\* and moves only to a strictly larger tag, so of equal tags the first stays.
IsRunningMax(f, m) ==
    \/ /\ m = ZeroRegister
       /\ \A i \in Slot : ~RegLess(m, bufs[f][i])
    \/ \E i \in Slot :
         /\ m = bufs[f][i] /\ RegLess(ZeroRegister, m)
         /\ \A j \in Slot : ~RegLess(m, bufs[f][j])
         /\ \A j \in 1 .. (i - 1) : RegLess(bufs[f][j], m)

\* tryStepForward, case Reading.  max_count counts the slots that hold m.
GetStepReading(f) ==
    \E m \in {bufs[f][i] : i \in Slot} \cup {ZeroRegister} :
        LET lagging == {i \in Slot : bufs[f][i] # m}
        IN  /\ CanStep(f) /\ Quiet(f) /\ step[f] = "Reading"
            /\ IsRunningMax(f, m)
            /\ max_reg' = [max_reg EXCEPT ![f] = m]
            /\ CachePut(Owner(f), key[f], m)
            /\ IF RegWriteback /\ lagging # {}
               THEN /\ Post(f, lagging, [i \in Slot |-> CasWR(f, key[f], bufs[f][i], m)])
                    /\ step' = [step EXCEPT ![f] = "WritingBack"]
               ELSE /\ PostNothing
                    /\ step' = [step EXCEPT ![f] = "Done"]
            /\ progress' = [progress EXCEPT ![f] = FALSE]
            /\ UNCHANGED << mem, up, halted, key, bufs >>

\* tryStepForward, case WritingBack: the outcome of the CASes is only counted.
GetStepWritingBack(f) ==
    /\ CanStep(f) /\ Quiet(f) /\ step[f] = "WritingBack"
    /\ step' = [step EXCEPT ![f] = "Done"]
    /\ progress' = [progress EXCEPT ![f] = FALSE]
    /\ UNCHANGED << mem, up, halted, cache, valid, key, bufs, max_reg >>
    /\ PostNothing
=============================================================================

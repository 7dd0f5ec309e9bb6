---------------------------- MODULE ConcurrentMap ----------------------------
(***************************************************************************)
(* What the skip vector promises: every operation takes effect, and has its *)
(* answer, in one step between its call and its return.  An operation is a  *)
(* record with its kind, a key k, for an insertion the value v, and for the *)
(* traversals the greatest key "to" and the key "stop" at which the caller's *)
(* function ends the traversal (0: it never does).                          *)
(***************************************************************************)
EXTENDS Integers

CONSTANTS Caller, MapOps, NoOp, NoAnswer

VARIABLES map, pending, answer
mapVars == <<map, pending, answer>>

Bound(k) == \E e \in map : e[1] = k
Visited(op) ==
    LET inside == { e \in map : op.k <= e[1] /\ e[1] <= op.to }
    IN  IF \E e \in inside : e[1] = op.stop THEN { e \in inside : e[1] <= op.stop } ELSE inside

MapInit == pending = [t \in Caller |-> NoOp] /\ answer = [t \in Caller |-> NoAnswer]

MapCall(t, op) ==
    /\ pending[t] = NoOp
    /\ pending' = [pending EXCEPT ![t] = op]
    /\ UNCHANGED <<map, answer>>

MapApply(t) ==
    LET op == pending[t] IN
    /\ op # NoOp /\ answer[t] = NoAnswer
    /\ UNCHANGED pending
    /\ \/ /\ op.kind = "contains" /\ UNCHANGED map
          /\ answer' = [answer EXCEPT ![t] = <<{ e \in map : e[1] = op.k }>>]
       \/ /\ op.kind = "insert"
          /\ answer' = [answer EXCEPT ![t] = <<~Bound(op.k)>>]
          /\ map' = IF Bound(op.k) THEN map ELSE map \cup {<<op.k, op.v>>}
       \/ /\ op.kind = "remove"
          /\ answer' = [answer EXCEPT ![t] = <<Bound(op.k)>>]
          /\ map' = { e \in map : e[1] # op.k }
       \/ /\ op.kind \in {"for_each", "range"} /\ UNCHANGED map
          /\ answer' = [answer EXCEPT ![t] = <<Visited(op)>>]

MapReturn(t) ==
    /\ answer[t] # NoAnswer
    /\ pending' = [pending EXCEPT ![t] = NoOp]
    /\ answer' = [answer EXCEPT ![t] = NoAnswer]
    /\ UNCHANGED map

MapNext == \E t \in Caller : (\E op \in MapOps : MapCall(t, op)) \/ MapApply(t) \/ MapReturn(t)
MapSpec == MapInit /\ [][MapNext]_mapVars
=============================================================================

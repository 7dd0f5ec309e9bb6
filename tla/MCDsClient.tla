----------------------------- MODULE MCDsClient -----------------------------
(* Workloads of the register store for TLC. *)
EXTENDS DsClient

AllPut == [c \in Client |-> {"put"}]
PutGet == [c \in Client |-> {"put", "get"}]
\* Client 0 writes, the others get and scan.
OneWriterReads == [c \in Client |-> IF c = 0 THEN {"put"} ELSE {"get", "range"}]
\* The last client gets, the others put.
LastGets == [c \in Client |-> IF c = NumClients - 1 THEN {"get"} ELSE {"put"}]
AllOps == [c \in Client |-> {"put", "get", "range"}]
AnyKey == [c \in Client |-> Key]
=============================================================================

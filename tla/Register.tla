------------------------------ MODULE Register ------------------------------
(***************************************************************************)
(* The 8-byte register of disco-skip (src/disco-skip/src/register.hpp): a   *)
(* 16-bit sequence number, a 16-bit writer id and a 32-bit value, packed    *)
(* in one CAS-able word.  The pair (seq, client_id) is the register's tag.  *)
(***************************************************************************)
EXTENDS Integers

CONSTANTS
    SeqMod,        \* number of values of the seq field (2^16 in the code)
    NumClients,    \* the clients are 0 .. NumClients-1
    Value          \* register values; 0 is the initial content

ASSUME SeqModAssumption == SeqMod \in Nat /\ SeqMod > 1
ASSUME NumClientsAssumption == NumClients \in Nat \ {0}
ASSUME ValueAssumption == 0 \in Value

Client == 0 .. (NumClients - 1)
Seq16 == 0 .. (SeqMod - 1)

Register == [seq : Seq16, client_id : Client, value : Value]

\* Servers memset their region to 0, and Register() : raw(0).
ZeroRegister == [seq |-> 0, client_id |-> 0, value |-> 0]

\* The id a client's tags carry, static_cast<uint8_t> of the client's number:
\* client 256 writes under the id of client 0.
client_idx(c) == c % 256

\* Mutants of MkRegister: the writer id left out, and the process id of a client
\* (which counts from 1) used in its place.
MkRegisterAnonymous(s, c, v) == [seq |-> s, client_id |-> 0, value |-> v]
MkRegisterProcId(s, c, v) == [seq |-> s, client_id |-> c + 1, value |-> v]

MkRegister(s, c, v) == [seq |-> s, client_id |-> client_idx(c), value |-> v]

\* static_cast<uint16_t>(s + 1)
NextSeq(s) == (s + 1) % SeqMod

\* Register::operator< compares tags only, never values.
RegLess(a, b) ==
    \/ a.seq < b.seq
    \/ a.seq = b.seq /\ a.client_id < b.client_id

RegLeq(a, b) == ~RegLess(b, a)
=============================================================================

----------------------------- MODULE MCExceptions -----------------------------
(* Instances of TrapHistory for TLC: three or four priorities; MaxWord,      *)
(* which stands for 0xFFFF, is 1; the four faults and a vector of the        *)
(* program's.                                                                *)
EXTENDS TrapHistory

CONSTANT USER

MCVectors == {FAULT_ILL_INST, FAULT_INV_ADDR, FAULT_PRI, FAULT_DBL, USER}

Vec(p, a) == [priority |-> p, address |-> a]

\* A table in which the priority fault outranks the rest.
Sound == [v \in MCVectors |-> Vec(IF v \in {FAULT_PRI, FAULT_DBL} THEN 2 ELSE 1, MaxWord - 1)]
\* A program that sets no vectors: the table is read from zeroed memory.
Zeroed == [v \in MCVectors |-> Vec(0, 0)]
\* A handler at an odd address.
OddHandler == [Sound EXCEPT ![FAULT_INV_ADDR].address = 1]

\* The vectors spread over the three priorities above the program's.
Ladder == [v \in MCVectors |->
    Vec(CASE v = FAULT_ILL_INST -> 1
          [] v \in {USER, FAULT_INV_ADDR} -> 2
          [] OTHER -> 3, MaxWord - 1)]

LadderTable == {Ladder}
AnyTable   == {Sound, Zeroed, OddHandler}

TrapOps == {"MOV", "SVC"}
AllOps == {"MOV", "BRANCH", "SVC", "ILLEGAL", "SETPRI", "WRITE", "CEX"}
===============================================================================

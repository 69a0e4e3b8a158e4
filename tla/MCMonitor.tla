------------------------------- MODULE MCMonitor -------------------------------
(* An instance of Monitor for TLC: two priorities, four words.               *)
EXTENDS Monitor

MCVectors == {FAULT_ILL_INST, FAULT_INV_ADDR, FAULT_PRI, FAULT_DBL}

\* The handler of the invalid address is at 2, the others are at 0.
MCTables == {[v \in MCVectors |->
    [priority |-> 1, address |-> IF v = FAULT_INV_ADDR THEN 2 ELSE 0]]}

MCOps      == {"MOV", "BRANCH", "SVC"}
MCNumbers  == {2}
MCSettings == {MaxWord + 2}
================================================================================

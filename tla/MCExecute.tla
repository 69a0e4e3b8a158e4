------------------------------- MODULE MCExecute -------------------------------
(* Instances of Execute for TLC.                                             *)
EXTENDS Execute

AllWords == 0 .. 65535

State(dest, source, carry) ==
    [regs |-> [r \in 0 .. 7 |-> CASE r = 0 -> dest
                                  [] r = 1 -> source
                                  [] r = 7 -> 1026
                                  [] OTHER -> 256 * r],
     psw  |-> [carry |-> carry, zero |-> 0, negative |-> carry,
               sleep |-> 0, overflow |-> 1 - carry]]

\* Operands at the edges of byte, word, sign and decimal digits.
Edges == {0, 1, 2, 7, 8, 9, 15, 16, 31, 32, 127, 128, 129, 153, 255, 256,
          2457, 4660, 21845, 32767, 32768, 32769, 39321, 65408, 65534, 65535}

\* In both widths, the instructions of R1 and R0 (arithmetic at 0x4000 in steps
\* of 0x100, MOV at 0x4C00) and those of R0 alone (0x4D00 in steps of 8).
WithOperands ==
    {16384 + 256 * k + 64 * b + 8 : k \in 0 .. 11, b \in Bit}
        \cup {19456 + 64 * b + 8 : b \in Bit}
        \cup {19712 + 64 * b + 8 * k : k \in 0 .. 4, b \in Bit}

\* Every word from some state, those with operands from many.
MCBefore(w) ==
    IF w \in WithOperands
    THEN {State(x, y, c) : x, y \in Edges, c \in Bit}
    ELSE {State(4660, 22136, w % 2)}

\* CMP R1,R0 and SUB R1,R0 only, of small numbers.
MCCompare  == {17672, 16904}
MCSmall(w) == {State(x, y, 0) : x, y \in 0 .. 9}
================================================================================

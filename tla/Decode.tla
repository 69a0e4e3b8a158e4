-------------------------------- MODULE Decode --------------------------------
(***************************************************************************)
(* decode of CPU.c: from the word in the instruction register to the       *)
(* instruction, and the operand fields execute then takes from that word.  *)
(***************************************************************************)
EXTENDS Naturals, Sequences, Functions

CONSTANT Words   \* the words that may be in the instruction register

ASSUME WordsAssumption == Words \subseteq 0 .. 65535

VARIABLES ir, inst

(* n bits of w from bit low up: the BITS_.. macros of instructions.h.      *)
Bits(w, low, n) == (w \div 2^low) % 2^n
-----------------------------------------------------------------------------
(* The instructions of instructions.h in the order of their codes; "NONE"  *)
(* is the code -1.  A name with a suffix after "_" is a plausible slip in  *)
(* the definition that follows it.                                         *)
Instructions == <<
    "BL", "BEQBZ", "BNEBNZ", "BCBHS", "BNCBLO", "BN", "BGE", "BLT", "BRA",
    "ADD", "ADDC", "SUB", "SUBC", "DADD", "CMP", "XOR", "AND", "OR",
    "BIT", "BIC", "BIS", "MOV", "SWAP", "SRA", "RRC", "COMP", "SWPB", "SXT",
    "SETPRI", "SVC", "SETCC", "CLRCC", "CEX", "LD", "ST",
    "MOVL", "MOVLZ", "MOVLS", "MOVH", "LDR", "STR" >>

ConditionalBranches ==
    <<"BEQBZ", "BNEBNZ", "BCBHS", "BNCBLO", "BN", "BGE", "BLT", "BRA">>
Arithmetic == << <<"ADD", "ADDC", "SUB", "SUBC">>,
                 <<"DADD", "CMP", "XOR", "AND">>,
                 <<"OR", "BIT", "BIC", "BIS">> >>
OneRegister == <<"SRA", "RRC", "COMP", "SWPB", "SXT", "NONE", "NONE", "NONE">>
ByteMoves   == <<"MOVL", "MOVLZ", "MOVLS", "MOVH">>

(* Bits 6 and 5 tell the control instructions apart; 01 has no case.       *)
Control(w) ==
    <<IF Bits(w, 4, 1) = 0 THEN "SETPRI" ELSE "SVC", "NONE", "CLRCC", "SVC">>
        [Bits(w, 5, 2) + 1]

Registers_LowField(w) ==
    <<"MOV", "SWAP", OneRegister[Bits(w, 3, 3) + 1], Control(w),
      "NONE", "NONE", "NONE", "NONE">> [Bits(w, 6, 3) + 1]
Registers(w) ==
    <<"MOV", "SWAP", OneRegister[Bits(w, 3, 3) + 1], Control(w),
      "NONE", "NONE", "NONE", "NONE">> [Bits(w, 7, 3) + 1]

Middle(w) ==
    CASE Bits(w, 10, 3) \in 0 .. 2 -> Arithmetic[Bits(w, 10, 3) + 1][Bits(w, 8, 2) + 1]
      [] Bits(w, 10, 3) = 3        -> Registers(w)
      [] Bits(w, 10, 3) = 4        -> "CEX"
      [] Bits(w, 10, 3) = 5        -> "NONE"
      [] Bits(w, 10, 3) = 6        -> "LD"
      [] Bits(w, 10, 3) = 7        -> "ST"

Decoded(w) ==
    CASE Bits(w, 14, 2) = 0 -> IF Bits(w, 13, 1) = 0 THEN "BL"
                               ELSE ConditionalBranches[Bits(w, 10, 3) + 1]
      [] Bits(w, 14, 2) = 1 -> IF Bits(w, 13, 1) = 0 THEN Middle(w)
                               ELSE ByteMoves[Bits(w, 11, 2) + 1]
      [] Bits(w, 14, 2) = 2 -> "LDR"
      [] Bits(w, 14, 2) = 3 -> "STR"

(* The comparison of codes by which execute tells branches; Code is one    *)
(* more than the code, so that "NONE" has 0.                               *)
Code(i) == CHOOSE k \in 0 .. Len(Instructions) :
              IF k = 0 THEN i = "NONE" ELSE Instructions[k] = i
IsBranch_NotBra(i) == Code(i) >= Code("BL") /\ Code(i) < Code("BRA")
IsBranch(i) == Code(i) >= Code("BL") /\ Code(i) <= Code("BRA")

(* The bits of the word execute hands to each instruction.                 *)
DestBits   == 0 .. 2
SourceBits == 3 .. 5
OperandBits(i) ==
    CASE i = "BL"                              -> 0 .. 12
      [] i \in Range(ConditionalBranches)      -> 0 .. 9
      [] i \in UNION {Range(Arithmetic[k]) : k \in 1 .. 3} ->
                                   {7, 6} \cup SourceBits \cup DestBits
      [] i = "MOV"                             -> {6} \cup SourceBits \cup DestBits
      [] i = "SWAP"                            -> SourceBits \cup DestBits
      [] i \in {"SRA", "RRC", "COMP"}          -> {6} \cup DestBits
      [] i \in {"SWPB", "SXT"}                 -> DestBits
      [] i = "SETPRI"                          -> 0 .. 2
      [] i = "SVC"                             -> 0 .. 3
      [] i \in {"SETCC", "CLRCC"}              -> 0 .. 4
      [] i = "CEX"                             -> 0 .. 9
      [] i \in {"LD", "ST"}                    -> 6 .. 9 \cup SourceBits \cup DestBits
      [] i \in Range(ByteMoves)                -> 3 .. 10 \cup DestBits
      [] i \in {"LDR", "STR"}                  -> 6 .. 13 \cup SourceBits \cup DestBits
      [] i = "NONE"                            -> {}
-----------------------------------------------------------------------------
decode == inst' = Decoded(ir) /\ UNCHANGED ir
-----------------------------------------------------------------------------
(* Properties.                                                             *)

Flip(w, b) == IF Bits(w, b, 1) = 0 THEN w + 2^b ELSE w - 2^b

(* The operands are no part of the opcode: whatever registers, offsets,    *)
(* immediates or counts an instruction is assembled with, it is decoded as *)
(* the same instruction.                                                   *)
OperandsFree ==
    inst \in Range(Instructions) => \A b \in OperandBits(inst) : Decoded(Flip(ir, b)) = inst

(* The instructions that switch CEX off are those below 0x4000.            *)
BranchesLow == inst \in Range(Instructions) => (IsBranch(inst) <=> ir < 16384)
===============================================================================

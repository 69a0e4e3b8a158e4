-------------------------------- MODULE Execute --------------------------------
(***************************************************************************)
(* decode and execute of CPU.c for the instructions that work on registers *)
(* and flags: one instruction, from the word in cpu.ir to the registers    *)
(* after it.  regs is regfile[0], the PC already advanced by fetch.        *)
(*                                                                         *)
(* The rest of execute's switch is in other modules: CEX in Cex, loads and *)
(* stores in LoadStore, SVC, SETPRI, interrupt returns and the illegal     *)
(* instruction fault in Exceptions.  There is no word SETCC is decoded     *)
(* from.                                                                   *)
(***************************************************************************)
EXTENDS Decode, Alu

CONSTANT Before(_)   \* the states [regs, psw] an instruction word is run in

ASSUME BeforeAssumption ==
    \A w \in Words : Before(w) \subseteq [regs : [0 .. 7 -> Word], psw : PSW]

VARIABLES regs, psw

vars == <<ir, inst, regs, psw>>

Constants == <<0, 1, 2, 4, 8, 16, 32, 65535>>

Dest   == Bits(ir, 0, 3)
Source == Bits(ir, 3, 3)
WB     == IF Bits(ir, 6, 1) = 1 THEN "BYTE" ELSE "WORD"
RC     == Bits(ir, 7, 1) = 1

d == regs[Dest]
s == regs[Source]
Operand == IF RC THEN Constants[Source + 1] ELSE s

PC == regs[7]
LR == regs[5]

Init ==
    /\ ir \in Words
    /\ \E b \in Before(ir) : regs = b.regs /\ psw = b.psw
    /\ inst = "UNDECODED"

Decode1 == inst = "UNDECODED" /\ decode /\ UNCHANGED <<regs, psw>>

Into(r, w) == regs' = [regs EXCEPT ![r] = w]

(* The case of execute's switch for the instructions of a set.             *)
Case(instructions) ==
    /\ inst \in instructions
    /\ inst' = "EXECUTED"
    /\ UNCHANGED ir
-----------------------------------------------------------------------------
BL ==
    /\ Case({"BL"})
    /\ regs' = [regs EXCEPT ![5] = PC,
                            ![7] = (PC + 2 * Extended(Bits(ir, 0, 13), 13)) % 65536]
    /\ UNCHANGED psw

(* The condition each branch tests, by the number of its code.             *)
Taken(i) ==
    CASE i = "BEQBZ"  -> psw.zero = 1
      [] i = "BNEBNZ" -> psw.zero = 0
      [] i = "BCBHS"  -> psw.carry = 1
      [] i = "BNCBLO" -> psw.carry = 0
      [] i = "BN"     -> psw.negative = 1
      [] i = "BGE"    -> ~(psw.negative = 1 \/ psw.overflow = 1)
      [] i = "BLT"    -> psw.negative = 1 \/ psw.overflow = 1
      [] i = "BRA"    -> TRUE

branch_conditional ==
    /\ Case(Range(ConditionalBranches))
    /\ Into(7, IF Taken(inst)
               THEN (PC + 2 * Extended(Bits(ir, 0, 10), 10)) % 65536 ELSE PC)
    /\ UNCHANGED psw

(* The source and the carry ADD, ADDC, SUB and SUBC hand to add.           *)
Addend == CASE inst \in {"ADD", "ADDC"} -> Operand
            [] inst = "SUB"             -> Negated(Operand)
            [] inst = "SUBC"            -> Not(Operand)
CarryIn == IF inst \in {"ADDC", "SUBC"} THEN psw.carry ELSE 0

Add ==
    /\ Case({"ADD", "ADDC", "SUB", "SUBC"})
    /\ LET r == add(d, Addend, CarryIn, WB)
       IN Into(Dest, r) /\ psw' = update_psw(psw, d, Addend, r, WB)

DADD ==
    /\ Case({"DADD"})
    /\ LET r == add_decimal(d, Operand, WB)
       IN Into(Dest, r) /\ psw' = update_psw(psw, d, Operand, r, WB)

CMP ==
    /\ Case({"CMP"})
    /\ psw' = compare(psw, d, Operand, WB)
    /\ UNCHANGED regs

Logic ==
    /\ Case({"XOR", "AND", "OR"})
    /\ LET r == logical(inst, d, Operand, WB)
       IN Into(Dest, r) /\ psw' = update_psw(psw, d, Operand, r, WB)

BIT ==
    /\ Case({"BIT"})
    /\ psw' = compare_bit(psw, d, Operand, WB)
    /\ UNCHANGED regs

(* clear_bit and set_bit do the same in both widths.                       *)
BIC ==
    /\ Case({"BIC"})
    /\ \E k \in Positions(Operand) :
        LET r == WithBit(d, k, 0)
        IN Into(Dest, r) /\ psw' = [psw EXCEPT !.zero = Flag(r = 0)]

BIS ==
    /\ Case({"BIS"})
    /\ \E k \in Positions(Operand) : Into(Dest, WithBit(d, k, 1))
    /\ psw' = [psw EXCEPT !.zero = 0]

(* Where move sees no interrupt return.                                    *)
MOV ==
    /\ ~(s = LR /\ d = PC /\ s = 65535)
    /\ Case({"MOV"})
    /\ Into(Dest, Placed(d, Low(s, WB), WB))
    /\ UNCHANGED psw

SWAP ==
    /\ Case({"SWAP"})
    /\ regs' = [regs EXCEPT ![Dest] = s, ![Source] = d]
    /\ UNCHANGED psw

SRA == Case({"SRA"}) /\ Into(Dest, shift(d, WB)) /\ UNCHANGED psw

RRC ==
    /\ Case({"RRC"})
    /\ Into(Dest, rotate(psw.carry, d, WB))
    /\ psw' = [psw EXCEPT !.carry = d % 2]

OneOperand ==
    /\ Case({"COMP", "SWPB", "SXT"})
    /\ Into(Dest, CASE inst = "COMP" -> complement(d, WB)
                    [] inst = "SWPB" -> swap_byte(d)
                    [] inst = "SXT"  -> sign_extend(d))
    /\ UNCHANGED psw

CLRCC ==
    /\ Case({"CLRCC"})
    /\ psw' = Cleared(psw, Bits(ir, 0, 5))
    /\ UNCHANGED regs

move_bytes ==
    /\ Case(Range(ByteMoves))
    /\ LET b == Bits(ir, 3, 8)
       IN Into(Dest, CASE inst = "MOVL"  -> combine_bytes(MSByte(d), b)
                       [] inst = "MOVLZ" -> b
                       [] inst = "MOVLS" -> combine_bytes(255, b)
                       [] inst = "MOVH"  -> combine_bytes(b, LSByte(d)))
    /\ UNCHANGED psw

Execute ==
    \/ BL \/ branch_conditional \/ Add \/ DADD \/ CMP \/ Logic
    \/ BIT \/ BIC \/ BIS \/ MOV \/ SWAP \/ SRA \/ RRC \/ OneOperand
    \/ CLRCC \/ move_bytes

Next == Decode1 \/ Execute

Spec == Init /\ [][Next]_vars
-----------------------------------------------------------------------------
(* Properties.  Each compares the registers and flags an instruction left  *)
(* with those it found; n values fit in the width it works in.             *)

TypeOK ==
    /\ ir \in Words
    /\ inst \in Range(Instructions) \cup {"NONE", "UNDECODED", "EXECUTED"}
    /\ regs \in [0 .. 7 -> Word]
    /\ psw \in PSW

Ran(instructions) == inst \in instructions /\ inst' = "EXECUTED"

n == Size(WB)
Signed(w) == IF MSBit(w, WB) = 1 THEN Low(w, WB) - n ELSE Low(w, WB)
Result == regs'[Dest]

(* The conditions of CEX on the flags.                                     *)
Conditional == INSTANCE Cex WITH
    MaxCount <- 7, Codes <- {}, Parts <- {},
    cex <- [true_count |-> 0, false_count |-> 0], plan <- <<>>
EQ == Conditional!Holds(0)
NE == Conditional!Holds(1)
HS == Conditional!Holds(2)
LO == Conditional!Holds(3)
HI == Conditional!Holds(8)
LS == Conditional!Holds(9)
GE == Conditional!Holds(10)
LT == Conditional!Holds(11)
GT == Conditional!Holds(12)
LE == Conditional!Holds(13)

(* The carry is the bit the sum of destination, addend and carry leaves    *)
(* the width with, and overflow says that the signed sum does not fit in   *)
(* it.  The addend is what add is given: for SUB the negated source.       *)
SumsExact ==
    [][Ran({"ADD", "ADDC", "SUB", "SUBC"}) =>
        LET sum == Signed(d) + Signed(Addend) + CarryIn
        IN  /\ n * psw'.carry + Low(Result, WB)
                   = Low(d, WB) + Low(Addend, WB) + CarryIn
            /\ psw'.overflow = Flag(sum < -(n \div 2) \/ sum >= n \div 2)]_vars

(* After SUB the conditions of CEX order the operands as they are named    *)
(* (instructions.c:473-533), unsigned and signed; not LE, and not for the  *)
(* two sources whose negation is out of range: 0, which leaves no carry,   *)
(* and the least signed number.                                            *)
Ordered ==
    /\ EQ' <=> Low(d, WB) = Low(Operand, WB)
    /\ NE' <=> Low(d, WB) # Low(Operand, WB)
    /\ Low(Operand, WB) # 0 =>
          /\ HS' <=> Low(d, WB) >= Low(Operand, WB)
          /\ LO' <=> Low(d, WB) < Low(Operand, WB)
          /\ HI' <=> Low(d, WB) > Low(Operand, WB)
          /\ LS' <=> Low(d, WB) <= Low(Operand, WB)
    /\ Signed(Operand) # -(n \div 2) =>
          /\ GE' <=> Signed(d) >= Signed(Operand)
          /\ LT' <=> Signed(d) < Signed(Operand)
          /\ GT' <=> Signed(d) > Signed(Operand)
SubtractOrders == [][Ran({"SUB"}) => Ordered]_vars

(* "LT (signed less than)", "LE (signed less than or equal)" and "CS/HS    *)
(* (carry set/unsigned higher or same)" (instructions.c:528, 538, 483)     *)
(* hold after SUB and CMP, which both are "two's complement subtraction"   *)
(* (CPU.c:479, instructions.c:136), iff the operands are in that order.    *)
OrderedAsNamed ==
    /\ LT' <=> Signed(d) < Signed(Operand)
    /\ LE' <=> Signed(d) <= Signed(Operand)
    /\ HS' <=> Low(d, WB) >= Low(Operand, WB)
ComparisonsOrder == [][Ran({"SUB", "CMP"}) => OrderedAsNamed]_vars

(* DADD adds decimal numbers, over all digits of its width; the byte form  *)
(* leaves the upper byte 0 (tests/instructions/Dadd.asm:26).               *)
Digits       == IF WB = "WORD" THEN 0 .. 3 ELSE 0 .. 1
IsDecimal(w) == \A k \in Digits : Nibble(w, k) <= 9
Decimal(w)   == Nibble(w, 0) + 10 * Nibble(w, 1)
                    + IF WB = "BYTE" THEN 0
                      ELSE 100 * Nibble(w, 2) + 1000 * Nibble(w, 3)
DecimalExact ==
    [][Ran({"DADD"}) /\ IsDecimal(d) /\ IsDecimal(Operand) =>
        /\ Low(Result, WB) = Result
        /\ IsDecimal(Result)
        /\ Decimal(Result) = (Decimal(d) + Decimal(Operand))
                                  % (IF WB = "WORD" THEN 10000 ELSE 100)]_vars

(* Shifting right: SRA halves the signed number, rounding down; RRC moves  *)
(* the bits of destination and carry round and loses none.                 *)
ShiftsExact ==
    [][/\ Ran({"SRA"}) => Signed(Result) = Signed(d) \div 2
       /\ Ran({"RRC"}) => 2 * Low(Result, WB) + psw'.carry
                              = Low(d, WB) + n * psw.carry]_vars

(* "Byte operations affect the least-significant byte only. The            *)
(* most-significant byte is untouched." (instructions.c:59): so it is but  *)
(* for DADD and COMP, and for BIC and BIS of a bit above the byte.         *)
HighByteKept ==
    [][/\ WB = "BYTE"
       /\ \/ Ran({"ADD", "ADDC", "SUB", "SUBC", "XOR", "AND", "OR",
                  "MOV", "SRA", "RRC"})
          \/ Ran({"BIC", "BIS"}) /\ Operand < 8
       => MSByte(Result) = MSByte(d)]_vars

(* A branch goes to its signed offset, in words, from the instruction      *)
(* behind it, backwards too; BL leaves the way back in LR.                 *)
BranchTargets ==
    [][Ran({"BL"} \cup Range(ConditionalBranches)) =>
        LET bits == IF inst = "BL" THEN 13 ELSE 10
            o    == Bits(ir, 0, bits)
            words == IF o < 2^(bits - 1) THEN o ELSE o - 2^bits
        IN  /\ regs'[7] \in {PC, (PC + 2 * words) % 65536}
            /\ inst \in {"BL", "BRA"} => regs'[7] = (PC + 2 * words) % 65536
            /\ inst = "BL" => regs'[5] = PC]_vars
===============================================================================

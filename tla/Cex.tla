---------------------------------- MODULE Cex ----------------------------------
(***************************************************************************)
(* Conditional execution: exec_conditional and cex_blocking of             *)
(* instructions.c, called by execute.                                      *)
(*                                                                         *)
(* CEX c,t,f governs the t + f instructions behind it: the first t run if  *)
(* c holds, the next f if it does not.  plan is history: what is due to    *)
(* each of the instructions governed, next one first.                      *)
(***************************************************************************)
EXTENDS Naturals, Sequences

CONSTANTS
    MaxCount,  \* 7, what the bit fields of struct _CEX hold
    Codes,     \* the conditions the program uses
    Parts      \* the pairs <<t, f>> it uses

Counts == 0 .. MaxCount
Bit    == {0, 1}
Flags  == [carry : Bit, zero : Bit, negative : Bit, overflow : Bit]

ASSUME CexAssumption ==
    MaxCount \in Nat /\ Codes \subseteq 0 .. 15 /\ Parts \subseteq Counts \X Counts

VARIABLES psw, cex, plan

vars == <<psw, cex, plan>>
-----------------------------------------------------------------------------
(* The conditions of exec_conditional by code, as its switch computes them *)
(* (13 compares the zero flag with 10).  A name with a suffix after "_" is *)
(* a plausible slip in the definition that follows it.                     *)

Condition == <<
    psw.zero = 1,                                   \* EQ
    psw.zero = 0,                                   \* NE
    psw.carry = 1,                                  \* CS/HS
    psw.carry = 0,                                  \* CC/LO
    psw.negative = 1,                               \* MI
    psw.negative = 0,                               \* PL
    psw.overflow = 1,                               \* VS
    psw.overflow = 0,                               \* VC
    psw.carry = 1 /\ psw.zero = 0,                  \* HI
    psw.carry = 0 \/ psw.zero = 1,                  \* LS
    psw.negative = psw.overflow,                    \* GE
    psw.negative # psw.overflow,                    \* LT
    psw.zero = 0 /\ psw.negative = psw.overflow,    \* GT
    psw.zero = 10 /\ psw.negative # psw.overflow,   \* LE
    TRUE,                                           \* TR
    FALSE >>                                        \* FL

Holds(code) == Condition[code + 1]
-----------------------------------------------------------------------------
Init ==
    /\ psw = [carry |-> 0, zero |-> 0, negative |-> 0, overflow |-> 0]
    /\ cex = [true_count |-> 0, false_count |-> 0]
    /\ plan = <<>>

Blocked_AtZero == cex.true_count = 0 /\ cex.false_count >= 0
Blocked == cex.true_count = 0 /\ cex.false_count > 0

(* The counts when cex_blocking has let an instruction pass.               *)
Passed_NotCounted == cex
Passed == [cex EXCEPT !.true_count = IF @ > 0 THEN @ - 1 ELSE 0]

Rest == IF plan = <<>> THEN <<>> ELSE Tail(plan)

Parted(t, f, holds) == [k \in 1 .. t + f |-> (k <= t) = holds]

(* A condition that does not hold leaves the true count as it is.          *)
ExecConditional(code, t, f) ==
    /\ ~Blocked
    /\ cex' = IF Holds(code) THEN [true_count |-> t, false_count |-> f]
                             ELSE [Passed EXCEPT !.false_count = f]
    /\ plan' = Parted(t, f, Holds(code))
    /\ UNCHANGED psw

(* Any other instruction, which may set the flags.                         *)
Instruction(flags) ==
    /\ ~Blocked
    /\ psw' = flags
    /\ cex' = Passed
    /\ plan' = Rest

Skip ==
    /\ Blocked
    /\ cex' = [cex EXCEPT !.false_count = @ - 1]
    /\ plan' = Rest
    /\ UNCHANGED psw

(* A branch runs in either part and ends the governing of both, taken or   *)
(* not: where it leads is of no concern here.                              *)
Branch ==
    /\ cex' = [true_count |-> 0, false_count |-> 0]
    /\ plan' = <<>>
    /\ UNCHANGED psw

Next ==
    \/ \E code \in Codes, p \in Parts : ExecConditional(code, p[1], p[2])
    \/ \E flags \in Flags : Instruction(flags)
    \/ Skip
    \/ Branch

Spec == Init /\ [][Next]_vars

(* Programs as the tests have them: no CEX among the instructions another  *)
(* one governs, and parts of equal length (unless the condition holds).    *)
Flat ==
    \A code \in Codes, p \in Parts :
        ExecConditional(code, p[1], p[2]) =>
            plan = <<>> /\ (p[1] = p[2] \/ Holds(code))

FlatSpec == Init /\ [][Next /\ Flat]_vars
-----------------------------------------------------------------------------
(* Properties.                                                             *)

TypeOK ==
    /\ psw \in Flags
    /\ cex \in [true_count : Counts, false_count : Counts]
    /\ plan \in Seq(BOOLEAN)

(* In the programs of FlatSpec exactly the instructions due to be skipped  *)
(* are blocked, whatever the instructions that run do to the flags and     *)
(* wherever a branch cuts the block short.                                 *)
BlockedAsPlanned == Blocked <=> plan # <<>> /\ ~plan[1]
===============================================================================

------------------------------ MODULE TrapHistory ------------------------------
(***************************************************************************)
(* Exceptions with the history by which programs are judged: whether the   *)
(* program has been polite to the priorities so far (polite), whether its  *)
(* conditional blocks have been flat (flat), and as long as they have what *)
(* is due to the instructions a CEX governs, for whoever runs (plan) and   *)
(* for everyone interrupted, one plan per frame (plans).                   *)
(*                                                                         *)
(* A trap may come anywhere in a block, of the program or of a handler:    *)
(* by an instruction the block lets run, which is done when the frame is   *)
(* pushed, or from fetch, where the instruction is still due.              *)
(***************************************************************************)
EXTENDS Exceptions

VARIABLES polite, flat, plan, plans

hvars == <<vars, polite, flat, plan, plans>>

HInit == Init /\ polite = TRUE /\ flat = TRUE /\ plan = <<>> /\ plans = <<>>

(* Polite programs raise only traps whose handler outranks them, no fault  *)
(* while the faulting bit is set, lower a handler's priority only to above *)
(* what it interrupted, and return only from handlers.                     *)
Polite ==
    /\ at # "fault" /\ at' \in {"fault", "supervisory_call"} =>
          Outranks(call'.vector)
    /\ at' = "fault" => ~psw'.faulting
    /\ at = "execute" /\ psw'.current < psw.current =>
          stack' # stack \/ stack = <<>> \/ psw'.current > Top.psw.current
    /\ at' # "underflow"

Rest == IF plan = <<>> THEN <<>> ELSE Tail(plan)
Parted(t, f, holds) == [k \in 1 .. t + f |-> (k <= t) = holds]
-----------------------------------------------------------------------------
(* The actions of Exceptions, with what each does to the plans.            *)

Between ==
    /\ Fault \/ TakePriority \/ Fetch
    /\ UNCHANGED <<flat, plan, plans>>

Interrupt ==
    /\ SupervisoryCall
    /\ IF stack' = stack THEN UNCHANGED <<plan, plans>>
       ELSE plans' = Append(plans, plan) /\ plan' = <<>>
    /\ UNCHANGED flat

Resume ==
    /\ \E d, s \in Regs : Return(d, s)
    /\ plan' = plans[Len(plans)]
    /\ plans' = SubSeq(plans, 1, Len(plans) - 1)
    /\ UNCHANGED flat

Governed ==
    /\ \/ Skip
       \/ \E values \in [Regs -> Words] : WriteRegs(values)
       \/ \E d, s \in Regs : ReturnUnderflow(d, s) \/ Copy(d, s)
       \/ \E v \in Vectors : Svc(v)
       \/ Illegal
       \/ \E p \in Priority : SetPri(p)
    /\ plan' = Rest
    /\ UNCHANGED <<flat, plans>>

BranchOut ==
    /\ \E n \in Words, link \in BOOLEAN : ~Odd(n) /\ Branch(n, link)
    /\ plan' = <<>>
    /\ UNCHANGED <<flat, plans>>

(* Blocks as the tests have them: no CEX among the instructions another    *)
(* one governs, and parts of equal length (unless the condition holds).    *)
FlatCex(t, f, holds) ==
    /\ plan = <<>> /\ (t = f \/ holds)
    /\ Cex(t, f)
    /\ cex' = IF holds THEN [true_count |-> t, false_count |-> f]
                       ELSE [Unblocked EXCEPT !.false_count = f]
    /\ plan' = Parted(t, f, holds)
    /\ UNCHANGED <<flat, plans>>

OtherCex(t, f) ==
    /\ plan # <<>> \/ t # f
    /\ Cex(t, f)
    /\ flat' = FALSE /\ plan' = <<>> /\ plans' = <<>>

Planned ==
    /\ flat
    /\ \/ Between \/ Interrupt \/ Resume \/ Governed \/ BranchOut
       \/ \E t, f \in Counts, holds \in BOOLEAN : FlatCex(t, f, holds)
       \/ \E t, f \in Counts : OtherCex(t, f)

Unplanned == ~flat /\ Next /\ UNCHANGED <<flat, plan, plans>>

HNext == (Planned \/ Unplanned) /\ polite' = (polite /\ Polite)

HSpec == HInit /\ [][HNext]_hvars

(* The loop of main.c may wait for its user before an instruction; within  *)
(* one nothing waits.                                                      *)
HFairSpec == HSpec /\ WF_vars(at # "fetch" /\ Next)
-----------------------------------------------------------------------------
(* Properties.                                                             *)

(* As long as a program is polite, each handler outranks what it           *)
(* interrupted, so that the frames are never more than the priority levels *)
(* ("We know the maximum size of the stack will be 8", exceptions.c:42).   *)
StackWithinPriorities == polite => Len(stack) <= psw.current

(* "We know the maximum size of the stack will be 8, as that is the        *)
(* maximum number of priority levels" (exceptions.c:42): a polite program  *)
(* never pushes past the end of a stack of one place per priority above 0. *)
StackSuffices == polite => at # "overflow"

(* A polite program always gets back to the loop of main.c, or ceases to   *)
(* be polite.                                                              *)
BackToLoop == at # "fetch" ~> at = "fetch" \/ ~polite

(* As long as blocks are flat, handlers' included, an instruction is       *)
(* blocked exactly if its own block excludes it, wherever traps, faults    *)
(* and refused calls interrupted the block and however deep they nested: a *)
(* handler does not inherit the block it interrupts, and its return gives  *)
(* back what was left of it, the instruction that trapped counted once.    *)
BlocksSurviveTraps ==
    flat /\ at \in {"fetch", "execute"} => (Blocked <=> plan # <<>> /\ ~plan[1])
===============================================================================

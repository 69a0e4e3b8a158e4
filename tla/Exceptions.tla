------------------------------ MODULE Exceptions ------------------------------
(***************************************************************************)
(* Traps, faults, priorities and returns of the XM-23: exceptions.c with   *)
(* the parts of fetch, execute and move that reach it.                     *)
(*                                                                         *)
(* The program is arbitrary: at each instruction it may do anything the    *)
(* instruction set allows to the registers, so the model has every         *)
(* behaviour of every program made of the instructions in Ops.  The C      *)
(* calls fault -> supervisory_call -> fault are steps of their own, since  *)
(* their recursion need not end.                                           *)
(*                                                                         *)
(* A word is 0 .. MaxWord, MaxWord standing for 0xFFFF.  Of the registers  *)
(* LR, PC and one general register R are kept; of the PSW the priority and *)
(* the faulting bit.                                                       *)
(*                                                                         *)
(* A name with a suffix after "_" is a plausible slip in the definition    *)
(* that follows it, never part of the model.                               *)
(***************************************************************************)
EXTENDS Naturals, Sequences

CONSTANTS
    MaxPriority,   \* 7, the highest priority a psw can hold
    StackSize,     \* STACK_SIZE
    MaxWord,       \* 0xFFFF
    MaxCount,      \* 7, the highest CEX count
    Vectors,       \* the interrupt vectors
    FAULT_ILL_INST, FAULT_INV_ADDR, FAULT_PRI, FAULT_DBL,
    Tables,        \* the interrupt vector tables programs come with
    FaultingBits,  \* what psw_decode may leave in the bit it does not set
    Ops            \* the kinds of instruction the program contains

Priority == 0 .. MaxPriority
Words    == 0 .. MaxWord
Counts   == 0 .. MaxCount
Regs     == {"R", "LR", "PC"}
Vector   == [priority : Priority, address : Words]

ASSUME WidthAssumption ==
    /\ MaxPriority \in Nat /\ StackSize \in Nat /\ MaxCount \in Nat
    /\ MaxWord \in Nat /\ MaxWord % 2 = 1
ASSUME VectorAssumption ==
    /\ {FAULT_ILL_INST, FAULT_INV_ADDR, FAULT_PRI, FAULT_DBL} \subseteq Vectors
    /\ Tables \subseteq [Vectors -> Vector]
    /\ FaultingBits \subseteq BOOLEAN

VARIABLES
    regfile,
    psw,          \* current priority and faulting bit
    cex,          \* counts of the conditional execution in progress
    stack,        \* the frames below stack_idx, the last pushed last
    i_vec_table,
    at,           \* where the emulator is in its code
    call          \* the arguments of the calls under way

vars == <<regfile, psw, cex, stack, i_vec_table, at, call>>

PC  == regfile["PC"]
LR  == regfile["LR"]
Odd(w)     == w % 2 = 1
Plus(w, n) == (w + n) % (MaxWord + 1)

Pri(v)      == i_vec_table[v].priority
Outranks(v) == Pri(v) > psw.current

NoCex  == [true_count |-> 0, false_count |-> 0]
NoCall == [vector |-> FAULT_DBL, ret |-> "fetch", new_pri |-> 0]

(* "overflow" is the write past the end of stack, "underflow" the read     *)
(* before its start, "exhausted" the end of the host's own stack: what the *)
(* process does then is undefined, and the model stops.  "killed" is the   *)
(* end by the user, which no step of this module is.                       *)
Dead == {"overflow", "underflow", "exhausted", "killed"}

Init ==
    /\ \E start \in Words : regfile = [R |-> 0, LR |-> 0, PC |-> start]
    /\ psw = [current |-> 0, faulting |-> FALSE]
    /\ cex = NoCex
    /\ stack = <<>>
    /\ i_vec_table \in Tables
    /\ at = "fetch"
    /\ call = NoCall
-----------------------------------------------------------------------------
(* The calls.                                                              *)

CallFault(id, ret, p) ==
    /\ at' = "fault"
    /\ call' = [vector |-> id, ret |-> ret, new_pri |-> p]

(* fault in a faulting state calls fault(FAULT_DBL), which finds the same  *)
(* state and does so again.                                                *)
Fault ==
    /\ at = "fault"
    /\ IF ~psw.faulting
       THEN at' = "supervisory_call" /\ UNCHANGED call
       ELSE IF call.vector # FAULT_DBL
       THEN CallFault(FAULT_DBL, call.ret, call.new_pri)
       ELSE at' = "exhausted" /\ UNCHANGED call
    /\ UNCHANGED <<regfile, psw, cex, stack, i_vec_table>>

Frame == [pc |-> PC, lr |-> LR, psw |-> psw, cex |-> cex]

(* The priority loaded from the vector is compared with that of the frame  *)
(* pushed, when psw, PC and LR are the handler's already.                  *)
Refused_Lower(v)    == Pri(v) < psw.current
Refused_Reversed(v) == Pri(v) >= psw.current
Refused(v) == Pri(v) <= psw.current

EnterHandler_PushLate(v) ==
    /\ \E b \in FaultingBits : psw' = [current |-> Pri(v), faulting |-> b]
    /\ stack' = Append(stack, [Frame EXCEPT !.psw = psw'])
    /\ regfile' = [regfile EXCEPT !["PC"] = i_vec_table[v].address,
                                  !["LR"] = MaxWord]
    /\ cex' = NoCex
EnterHandler_KeepPriority(v) ==
    /\ stack' = Append(stack, Frame)
    /\ \E b \in FaultingBits : psw' = [psw EXCEPT !.faulting = b]
    /\ regfile' = [regfile EXCEPT !["PC"] = i_vec_table[v].address,
                                  !["LR"] = MaxWord]
    /\ cex' = NoCex
EnterHandler_KeepCounts(v) ==
    /\ stack' = Append(stack, Frame)
    /\ \E b \in FaultingBits : psw' = [current |-> Pri(v), faulting |-> b]
    /\ regfile' = [regfile EXCEPT !["PC"] = i_vec_table[v].address,
                                  !["LR"] = MaxWord]
    /\ cex' = cex
EnterHandler(v) ==
    /\ stack' = Append(stack, Frame)
    /\ \E b \in FaultingBits : psw' = [current |-> Pri(v), faulting |-> b]
    /\ regfile' = [regfile EXCEPT !["PC"] = i_vec_table[v].address,
                                  !["LR"] = MaxWord]
    /\ cex' = NoCex

SupervisoryCall ==
    /\ at = "supervisory_call"
    /\ UNCHANGED i_vec_table
    /\ IF Len(stack) = StackSize
       THEN at' = "overflow" /\ UNCHANGED <<regfile, psw, cex, stack, call>>
       ELSE /\ EnterHandler(call.vector)
            /\ IF Refused(call.vector)
               THEN CallFault(FAULT_PRI, call.ret, call.new_pri)
               ELSE /\ at' = call.ret
                    /\ call' = IF call.ret = "set_priority" THEN call ELSE NoCall

(* set_priority, with nothing between it and the call of fault's return.   *)
TakePriority ==
    /\ at = "set_priority"
    /\ psw' = [psw EXCEPT !.current = call.new_pri]
    /\ at' = "fetch"
    /\ call' = NoCall
    /\ UNCHANGED <<regfile, cex, stack, i_vec_table>>
-----------------------------------------------------------------------------
(* fetch.                                                                  *)

Advance ==
    /\ regfile' = [regfile EXCEPT !["PC"] = Plus(PC, 2)]
    /\ at' = "execute"
    /\ UNCHANGED <<psw, cex, stack, i_vec_table, call>>

FetchEven_Unchecked == at = "fetch" /\ Advance
FetchEven == at = "fetch" /\ ~Odd(PC) /\ Advance

FetchOdd ==
    /\ at = "fetch" /\ Odd(PC)
    /\ CallFault(FAULT_INV_ADDR, "fetched", 0)
    /\ UNCHANGED <<regfile, psw, cex, stack, i_vec_table>>

(* The rest of fetch after the fault: whatever PC is by now is used.       *)
FetchResumed == at = "fetched" /\ Advance
-----------------------------------------------------------------------------
(* execute.  Each instruction but a branch passes cex_blocking first.      *)

Blocked_AtZero == cex.true_count = 0 /\ cex.false_count >= 0
Blocked == cex.true_count = 0 /\ cex.false_count > 0

Skip ==
    /\ at = "execute" /\ Blocked
    /\ cex' = [cex EXCEPT !.false_count = @ - 1]
    /\ at' = "fetch"
    /\ UNCHANGED <<regfile, psw, stack, i_vec_table, call>>

Unblocked == [cex EXCEPT !.true_count = IF @ > 0 THEN @ - 1 ELSE 0]

Executing(op) == at = "execute" /\ op \in Ops /\ ~Blocked

(* Loads, stores, arithmetic, swaps, ...: the registers take any values    *)
(* (SWAP and the indexed LD write two of them), or keep theirs.            *)
WriteRegs(values) ==
    /\ Executing("WRITE")
    /\ regfile' = values
    /\ cex' = Unblocked
    /\ at' = "fetch"
    /\ UNCHANGED <<psw, stack, i_vec_table, call>>

(* move knows values, not registers.                                       *)
IsReturn(d, s) == regfile[s] = LR /\ regfile[d] = PC /\ regfile[s] = MaxWord

Top   == stack[Len(stack)]
Below == SubSeq(stack, 1, Len(stack) - 1)

(* The frame is pulled; the destination then takes the PC pulled.          *)
Return_KeepCounts(d, s) ==
    /\ Executing("MOV") /\ IsReturn(d, s)
    /\ stack # <<>>
    /\ regfile' = [[regfile EXCEPT !["PC"] = Top.pc, !["LR"] = Top.lr]
                        EXCEPT ![d] = Top.pc]
    /\ psw' = Top.psw
    /\ cex' = Unblocked
    /\ stack' = Below
    /\ at' = "fetch"
    /\ UNCHANGED <<i_vec_table, call>>
Return(d, s) ==
    /\ Executing("MOV") /\ IsReturn(d, s)
    /\ stack # <<>>
    /\ regfile' = [[regfile EXCEPT !["PC"] = Top.pc, !["LR"] = Top.lr]
                        EXCEPT ![d] = Top.pc]
    /\ psw' = Top.psw
    /\ cex' = Top.cex
    /\ stack' = Below
    /\ at' = "fetch"
    /\ UNCHANGED <<i_vec_table, call>>

ReturnUnderflow(d, s) ==
    /\ Executing("MOV") /\ IsReturn(d, s)
    /\ stack = <<>>
    /\ at' = "underflow"
    /\ cex' = Unblocked
    /\ UNCHANGED <<regfile, psw, stack, i_vec_table, call>>

Copy(d, s) ==
    /\ Executing("MOV") /\ ~IsReturn(d, s)
    /\ regfile' = [regfile EXCEPT ![d] = regfile[s]]
    /\ cex' = Unblocked
    /\ at' = "fetch"
    /\ UNCHANGED <<psw, stack, i_vec_table, call>>

(* Branches clear the CEX state, blocked or not; only BL links.            *)
Branch(n, link) ==
    /\ at = "execute" /\ "BRANCH" \in Ops
    /\ regfile' = [regfile EXCEPT !["PC"] = Plus(PC, n),
                                  !["LR"] = IF link THEN PC ELSE LR]
    /\ cex' = NoCex
    /\ at' = "fetch"
    /\ UNCHANGED <<psw, stack, i_vec_table, call>>

Cex(t, f) ==
    /\ Executing("CEX")
    /\ cex' \in {[true_count |-> t, false_count |-> f],
                 [Unblocked EXCEPT !.false_count = f]}
    /\ at' = "fetch"
    /\ UNCHANGED <<regfile, psw, stack, i_vec_table, call>>

Svc(v) ==
    /\ Executing("SVC")
    /\ cex' = Unblocked
    /\ at' = "supervisory_call"
    /\ call' = [vector |-> v, ret |-> "fetch", new_pri |-> 0]
    /\ UNCHANGED <<regfile, psw, stack, i_vec_table>>

Illegal ==
    /\ Executing("ILLEGAL")
    /\ cex' = Unblocked
    /\ CallFault(FAULT_ILL_INST, "fetch", 0)
    /\ UNCHANGED <<regfile, psw, stack, i_vec_table>>

SetPri(p) ==
    /\ Executing("SETPRI")
    /\ cex' = Unblocked
    /\ IF p > psw.current
       THEN CallFault(FAULT_PRI, "set_priority", p) /\ UNCHANGED psw
       ELSE at' = "fetch" /\ psw' = [psw EXCEPT !.current = p] /\ UNCHANGED call
    /\ UNCHANGED <<regfile, stack, i_vec_table>>
-----------------------------------------------------------------------------
Internal == Fault \/ SupervisoryCall \/ TakePriority
Fetch    == FetchEven \/ FetchOdd \/ FetchResumed

Move(d, s) == Return(d, s) \/ ReturnUnderflow(d, s) \/ Copy(d, s)

Execute ==
    \/ Skip
    \/ \E values \in [Regs -> Words] : WriteRegs(values)
    \/ \E d, s \in Regs : Move(d, s)
    \/ \E n \in Words, link \in BOOLEAN : ~Odd(n) /\ Branch(n, link)
    \/ \E t, f \in Counts : Cex(t, f)
    \/ \E v \in Vectors : Svc(v)
    \/ Illegal
    \/ \E p \in Priority : SetPri(p)

Next == Internal \/ Fetch \/ Execute

Spec == Init /\ [][Next]_vars
-----------------------------------------------------------------------------
(* Properties.                                                             *)

FrameType == [pc : Words, lr : Words, psw : [current : Priority, faulting : BOOLEAN],
              cex : [true_count : Counts, false_count : Counts]]

TypeOK ==
    /\ regfile \in [Regs -> Words]
    /\ psw \in [current : Priority, faulting : BOOLEAN]
    /\ cex \in [true_count : Counts, false_count : Counts]
    /\ stack \in Seq(FrameType) /\ Len(stack) <= StackSize
    /\ i_vec_table \in [Vectors -> Vector]
    /\ at \in {"fetch", "fetched", "execute", "fault", "supervisory_call",
               "set_priority"} \cup Dead
    /\ call \in [vector : Vectors, ret : {"fetch", "fetched", "set_priority"},
                 new_pri : Priority]

(* Whatever instructions it is made of and whatever the vectors hold, the  *)
(* program that handlers interrupt runs at priority 0: it starts there, a  *)
(* refused SETPRI or SVC raises the handler's priority but never its own,  *)
(* and returns give back what was pushed.                                  *)
BasePriority == IF stack = <<>> THEN psw.current ELSE stack[1].psw.current
BaseAtZero   == BasePriority = 0

(* "Throws a invalid address fault if the CPU attempts to fetch an         *)
(* odd-numbered address" (CPU.c:123): no word is read from one.  fetch     *)
(* goes on after the fault without looking at the PC again, whatever       *)
(* handlers were entered by then, so this needs handlers at even addresses.*)
EvenHandlers == \A v \in Vectors : ~Odd(i_vec_table[v].address)
FetchesEven  == [][EvenHandlers /\ Advance => ~Odd(PC)]_vars

(* A priority fault that its own handler does not outrank is raised again  *)
(* by that handler's entry, and a fault while the faulting bit is set is   *)
(* raised again by fault itself: neither gets back to the loop that tests  *)
(* for ctrl-c, the emulator dies.                                          *)
Storm ==
    \/ /\ at \in {"fault", "supervisory_call"}
       /\ call.vector = FAULT_PRI /\ ~Outranks(FAULT_PRI)
    \/ at = "fault" /\ psw.faulting
StormIsFatal == Storm ~> at \in Dead

(* "Throws a priority fault if the SVC was called by a process with a      *)
(* higher priority than the interrupt handler" (exceptions.c:109): the     *)
(* handler refused does not run, so that whoever runs outranks what it     *)
(* interrupted.                                                            *)
HandlerOutranks ==
    at = "execute" /\ stack # <<>> => psw.current > Top.psw.current
===============================================================================

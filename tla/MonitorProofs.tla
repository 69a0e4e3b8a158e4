----------------------------- MODULE MonitorProofs -----------------------------
(***************************************************************************)
(* Proofs about Monitor, for every program, vector table and user: what    *)
(* ExceptionsProofs shows of the machine alone is carried over to it under *)
(* its monitor, whose commands change the PC between instructions.         *)
(***************************************************************************)
EXTENDS Monitor, ExceptionsProofs

USE WidthAssumption, VectorAssumption, NumbersAssumption

LEMMA CutToWord == \A v \in Int : v % (MaxWord + 1) \in Words
<1>1. MaxWord + 1 \in Nat \ {0}
  OBVIOUS
<1>2. \A v \in Int, m \in Nat \ {0} : v % m \in 0 .. (m - 1)
  BY SMT
<1>. QED
  BY <1>1, <1>2 DEF Words
-----------------------------------------------------------------------------
(* What each step of the monitor does to the machine.                      *)

MachineKept == UNCHANGED vars
Redirected ==
    /\ at \notin Dead /\ mode = "prompt"
    /\ \E v \in Int : regfile' = [regfile EXCEPT !["PC"] = v % (MaxWord + 1)]
    /\ UNCHANGED <<psw, cex, stack, i_vec_table, at, call>>
Killed ==
    /\ at' = "killed"
    /\ UNCHANGED <<regfile, psw, cex, stack, i_vec_table, call>>

LEMMA TypedNumber ==
    ASSUME MTypeOK, NEW numbers, numbers \subseteq Int, NEW v \in Typed(numbers)
    PROVE  v \in Int
  BY DEF Typed, MTypeOK

LEMMA NumbersAreInts == Numbers \subseteq Int
  BY DEF Words

LEMMA MachineSteps ==
    ASSUME MTypeOK, [MNext]_mvars
    PROVE  \/ Next /\ Cpu
           \/ MachineKept
           \/ Redirected
           \/ Killed
<1>1. CASE Command
  <2>1. CASE SetPC
    <3>1. PICK v \in Typed(Numbers) :
              regfile' = [regfile EXCEPT !["PC"] = v % (MaxWord + 1)]
      BY <2>1 DEF SetPC
    <3>2. v \in Int
      BY TypedNumber, NumbersAreInts
    <3>. QED
      BY <2>1, <3>1, <3>2 DEF SetPC, Prompted, Alive, Redirected
  <2>2. CASE ~SetPC
    BY <1>1, <2>2 DEF Command, Begin, SetBreakpoint, TwoNumbers, Show, Exit, MachineKept
  <2>. QED
    BY <2>1, <2>2
<1>2. CASE Cpu
  BY <1>2 DEF Cpu
<1>3. CASE Press
  BY <1>3 DEF Press, Killed, MachineKept, vars
<1>4. CASE EndOfInput \/ EndRun \/ sigint_hdlr \/ UNCHANGED mvars
  BY <1>4 DEF EndOfInput, EndRun, sigint_hdlr, SetFlag, Reinstall, mvars, MachineKept
<1>. QED
  BY <1>1, <1>2, <1>3, <1>4 DEF MNext
-----------------------------------------------------------------------------
(* Types.                                                                  *)

LEMMA MInitTyped == MInit => MTypeOK
<1>1. MInit => TypeOK
  BY InitTyped DEF MInit
<1>2. MInit => /\ mode \in {"prompt", "run", "step", "flush_buffer", "exited"}
               /\ sigint \in {"installed", "called", "flagged"}
               /\ ctrl_c_fnd \in BOOLEAN /\ pressed \in BOOLEAN
  BY Zenon DEF MInit
<1>3. MInit => input_mod1 \in Int /\ breakpoint \in Int
  BY SMT DEF MInit
<1>. QED
  BY <1>1, <1>2, <1>3 DEF MTypeOK

LEMMA ConsoleTyped ==
    ASSUME MTypeOK, [MNext]_mvars
    PROVE  /\ mode' \in {"prompt", "run", "step", "flush_buffer", "exited"}
           /\ input_mod1' \in Int /\ breakpoint' \in Int
           /\ ctrl_c_fnd' \in BOOLEAN /\ pressed' \in BOOLEAN
           /\ sigint' \in {"installed", "called", "flagged"}
<1>1. CASE Command
  <2>1. ASSUME NEW numbers, numbers \subseteq Int, NEW v \in Typed(numbers)
        PROVE  v \in Int
    BY <2>1, TypedNumber
  <2>2. CASE SetBreakpoint
    BY <2>1, <2>2, NumbersAreInts DEF SetBreakpoint, Prompted, MTypeOK
  <2>3. CASE SetPC
    BY <2>1, <2>3, NumbersAreInts DEF SetPC, Prompted, MTypeOK
  <2>4. ASSUME NEW numbers, numbers \subseteq Int, TwoNumbers(numbers)
        PROVE  /\ input_mod1' \in Int
               /\ UNCHANGED <<mode, breakpoint>> /\ Prompted
    BY <2>1, <2>4 DEF TwoNumbers
  <2>5. CASE TwoNumbers(Numbers) \/ TwoNumbers(Settings)
    BY <2>4, <2>5, NumbersAreInts DEF Prompted, MTypeOK
  <2>6. CASE Begin("run") \/ Begin("step") \/ Show \/ Exit
    BY <2>6 DEF Begin, Show, Exit, Prompted, MTypeOK
  <2>. QED
    BY <1>1, <2>2, <2>3, <2>5, <2>6 DEF Command
<1>2. CASE Cpu
  BY <1>2 DEF Cpu, MTypeOK
<1>3. CASE EndOfInput \/ EndRun \/ Press
  BY <1>3 DEF EndOfInput, EndRun, Press, MTypeOK
<1>4. CASE sigint_hdlr
  BY <1>4 DEF sigint_hdlr, SetFlag, Reinstall, MTypeOK
<1>5. CASE UNCHANGED mvars
  BY <1>5 DEF mvars, console, MTypeOK
<1>. QED
  BY <1>1, <1>2, <1>3, <1>4, <1>5 DEF MNext

LEMMA MTypeInvariant == MTypeOK /\ [MNext]_mvars => MTypeOK'
<1>. SUFFICES ASSUME MTypeOK, [MNext]_mvars
              PROVE  TypeOK'
  BY ConsoleTyped DEF MTypeOK
<1>. TypeOK
  BY DEF MTypeOK
<1>1. CASE Next \/ MachineKept
  BY <1>1, TypeInvariant DEF MachineKept
<1>2. CASE Redirected
  BY <1>2, CutToWord DEF Redirected, TypeOK
<1>3. CASE Killed
  BY <1>3 DEF Killed, TypeOK, Dead
<1>. QED
  BY <1>1, <1>2, <1>3, MachineSteps

(* Types, under whatever numbers are typed: the PC stays a word.           *)
THEOREM MTypeCorrect == MSpec => []MTypeOK
  BY MInitTyped, MTypeInvariant, PTL DEF MSpec
-----------------------------------------------------------------------------
(* Why a run ends.  A flag set during a run is due to a press the run may  *)
(* see, since the prompt has reset the flag; what it cannot reset is a     *)
(* handler that has been called and not yet set it.                        *)

SignalInv ==
    /\ sigint = "called" => pressed
    /\ mode = "run" /\ ctrl_c_fnd => pressed

LEMMA SignalInvariant == MTypeOK /\ SignalInv /\ [MNext]_mvars => SignalInv'
<1>. SUFFICES ASSUME MTypeOK, SignalInv, [MNext]_mvars
              PROVE  SignalInv'
  OBVIOUS
<1>. USE DEF SignalInv
<1>1. CASE Command
  <2>1. Prompted
    BY <1>1 DEF Command, Begin, SetBreakpoint, SetPC, TwoNumbers, Show, Exit
  <2>. QED
    BY <2>1 DEF Prompted
<1>2. CASE Cpu
  BY <1>2 DEF Cpu
<1>3. CASE EndOfInput \/ EndRun
  BY <1>3 DEF EndOfInput, EndRun
<1>4. CASE Press
  BY <1>4 DEF Press
<1>5. CASE sigint_hdlr
  BY <1>5 DEF sigint_hdlr, SetFlag, Reinstall
<1>6. CASE UNCHANGED mvars
  BY <1>6 DEF mvars, console
<1>. QED
  BY <1>1, <1>2, <1>3, <1>4, <1>5, <1>6 DEF MNext

(* A run ends at the breakpoint or by a ctrl-c that was meant for it.      *)
THEOREM RunEndsForCauseCorrect == MSpec => RunEndsForCause
<1>1. MInit => SignalInv
  BY DEF MInit, SignalInv
<1>2. SignalInv /\ [MNext]_mvars =>
          [mode = "run" /\ mode' = "prompt" => PC = breakpoint \/ pressed]_mvars
  <2>. SUFFICES ASSUME SignalInv, MNext, mode = "run", mode' = "prompt"
                PROVE  PC = breakpoint \/ pressed
    OBVIOUS
  <2>1. ~Command /\ ~EndOfInput
    BY DEF Command, Begin, SetBreakpoint, SetPC, TwoNumbers, Show, Exit, Prompted,
           EndOfInput
  <2>2. ~Cpu /\ ~Press /\ ~sigint_hdlr
    BY DEF Cpu, Press, sigint_hdlr, SetFlag, Reinstall
  <2>3. EndRun
    BY <2>1, <2>2 DEF MNext
  <2>. QED
    BY <2>3 DEF EndRun, RunOn, SignalInv
<1>. QED
  BY <1>1, <1>2, SignalInvariant, MTypeCorrect, PTL DEF MSpec, RunEndsForCause
-----------------------------------------------------------------------------
(* The machine under its monitor.                                          *)

(* The user changes the PC of a program that handlers have interrupted,    *)
(* its priority he never changes.                                          *)
THEOREM MonitoredBaseAtZero == MSpec => []BaseAtZero
<1>1. MInit => BaseInv
  BY DEF MInit, Init, BaseInv, BaseAtZero, BasePriority
<1>2. MTypeOK /\ BaseInv /\ [MNext]_mvars => BaseInv'
  <2>. SUFFICES ASSUME MTypeOK, BaseInv, [MNext]_mvars
                PROVE  BaseInv'
    OBVIOUS
  <2>1. CASE Next \/ MachineKept
    BY <2>1, BaseInvariant DEF MTypeOK, MachineKept
  <2>2. CASE Redirected \/ Killed
    BY <2>2 DEF Redirected, Killed, BaseInv, BaseAtZero, BasePriority
  <2>. QED
    BY <2>1, <2>2, MachineSteps
<1>3. BaseInv => BaseAtZero
  BY DEF BaseInv
<1>. QED
  BY <1>1, <1>2, <1>3, MTypeCorrect, PTL DEF MSpec

(* The prompt comes between two instructions, never within one.            *)
PromptBetween == mode # "run" /\ mode # "step" => at \in {"fetch"} \cup Dead

LEMMA PromptBetweenInvariant ==
    MTypeOK /\ PromptBetween /\ [MNext]_mvars => PromptBetween'
<1>. SUFFICES ASSUME MTypeOK, PromptBetween, [MNext]_mvars
              PROVE  PromptBetween'
  OBVIOUS
<1>. USE DEF PromptBetween
<1>1. CASE Command
  <2>1. mode = "prompt" /\ at' = at
    BY <1>1 DEF Command, Begin, SetBreakpoint, SetPC, TwoNumbers, Show, Exit, Prompted, vars
  <2>. QED
    BY <2>1
<1>2. CASE Cpu
  BY <1>2 DEF Cpu
<1>3. CASE EndOfInput \/ EndRun
  BY <1>3 DEF EndOfInput, EndRun, vars
<1>4. CASE Press
  BY <1>4 DEF Press, Dead
<1>5. CASE sigint_hdlr \/ UNCHANGED mvars
  BY <1>5 DEF sigint_hdlr, SetFlag, Reinstall, mvars, vars, console
<1>. QED
  BY <1>1, <1>2, <1>3, <1>4, <1>5 DEF MNext

(* With handlers at even addresses no word is fetched from an odd one,     *)
(* whatever PC the user sets: he cannot do so after fetch has looked at it.*)
THEOREM MonitoredFetchesEven == MSpec => FetchesEven
<1>. DEFINE Even == ResumedEven /\ PromptBetween
<1>1. MInit => Even
  BY DEF MInit, Init, ResumedEven, PromptBetween
<1>2. MTypeOK /\ Even /\ [MNext]_mvars => Even'
  <2>. SUFFICES ASSUME MTypeOK, Even, [MNext]_mvars
                PROVE  ResumedEven'
    BY PromptBetweenInvariant
  <2>1. CASE Next \/ MachineKept
    BY <2>1, ResumedEvenInvariant DEF MTypeOK, MachineKept
  <2>2. CASE Redirected
    BY <2>2 DEF Redirected, ResumedEven, PromptBetween, Dead
  <2>3. CASE Killed
    BY <2>3 DEF Killed, ResumedEven
  <2>. QED
    BY <2>1, <2>2, <2>3, MachineSteps
<1>3. MTypeOK /\ Even /\ [MNext]_mvars => [EvenHandlers /\ Advance => ~Odd(PC)]_vars
  <2>. SUFFICES ASSUME MTypeOK, Even, [MNext]_mvars, EvenHandlers, Advance, ~MachineKept
                PROVE  ~Odd(PC)
    BY DEF MachineKept
  <2>1. CASE Next
    BY <2>1, FetchStep DEF MTypeOK, MachineKept
  <2>2. CASE Redirected
    BY <2>2 DEF Redirected, PromptBetween, Advance, Dead
  <2>3. CASE Killed
    BY <2>3 DEF Killed, Advance
  <2>. QED
    BY <2>1, <2>2, <2>3, MachineSteps
<1>. QED
  BY <1>1, <1>2, <1>3, MTypeCorrect, PTL DEF MSpec, FetchesEven
================================================================================

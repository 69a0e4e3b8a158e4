-------------------------------- MODULE Monitor --------------------------------
(***************************************************************************)
(* The command loop of main.c around the CPU of Exceptions, with the       *)
(* SIGINT handler of utils.c, which runs between any two of its steps.     *)
(*                                                                         *)
(* The user types a command and, for some, a number.  What scanf cannot    *)
(* read leaves the variable as it was: a garbled command repeats the last  *)
(* one, which he might have typed as well, and a garbled number is the one *)
(* last typed, whatever it was for, as four commands share input_mod1.     *)
(*                                                                         *)
(* A name with a suffix after "_" is a plausible slip in the definition    *)
(* that follows it.                                                        *)
(***************************************************************************)
EXTENDS Exceptions, Integers

CONSTANT Numbers   \* what the user types where a word is asked for
CONSTANT Settings  \* what he types for the cache's organization, any int

ASSUME NumbersAssumption ==
    Numbers \subseteq Words /\ Settings \subseteq Int

VARIABLES
    mode,         \* what main is doing: a command, its prompt, or nothing more
    input_mod1, breakpoint,
    ctrl_c_fnd,
    sigint,       \* where the handler is; while it is not installed ctrl-c kills
    pressed       \* history: a ctrl-c that the run in progress may be due to see

console == <<mode, input_mod1, breakpoint, ctrl_c_fnd, sigint, pressed>>
mvars   == <<vars, console>>

Alive == at \notin Dead

MInit ==
    /\ Init
    /\ mode = "prompt"
    /\ input_mod1 = 0 /\ breakpoint = 0
    /\ ctrl_c_fnd = FALSE
    /\ sigint = "installed"
    /\ pressed = FALSE
-----------------------------------------------------------------------------
(* The prompt: a command is read, then the flag is reset.                  *)

Prompted_NoReset ==
    /\ Alive /\ mode = "prompt"
    /\ pressed' = (sigint = "called")
    /\ UNCHANGED <<sigint, ctrl_c_fnd>>
Prompted ==
    /\ Alive /\ mode = "prompt"
    /\ ctrl_c_fnd' = FALSE
    /\ pressed' = (sigint = "called")
    /\ UNCHANGED sigint

Typed(numbers) == numbers \cup {input_mod1}

Begin(c) ==
    /\ Prompted
    /\ mode' = c
    /\ UNCHANGED <<vars, input_mod1, breakpoint>>

(* Registers, PSW or cache are printed.                                    *)
Show ==
    /\ Prompted
    /\ UNCHANGED <<vars, mode, input_mod1, breakpoint>>

SetBreakpoint ==
    /\ Prompted
    /\ \E v \in Typed(Numbers) : input_mod1' = v /\ breakpoint' = v
    /\ UNCHANGED <<vars, mode>>

(* The int is cut to the register's width.                                 *)
SetPC_Uncut ==
    /\ Prompted
    /\ \E v \in Typed(Numbers) :
        /\ input_mod1' = v
        /\ regfile' = [regfile EXCEPT !["PC"] = v]
    /\ UNCHANGED <<psw, cex, stack, i_vec_table, at, call, mode, breakpoint>>
SetPC ==
    /\ Prompted
    /\ \E v \in Typed(Numbers) :
        /\ input_mod1' = v
        /\ regfile' = [regfile EXCEPT !["PC"] = v % (MaxWord + 1)]
    /\ UNCHANGED <<psw, cex, stack, i_vec_table, at, call, mode, breakpoint>>

(* print_mem and cache_config: of the two numbers typed the first stays.   *)
TwoNumbers(numbers) ==
    /\ Prompted
    /\ input_mod1' \in Typed(numbers)
    /\ UNCHANGED <<vars, mode, breakpoint>>

Exit ==
    /\ Prompted
    /\ mode' = "exited"
    /\ UNCHANGED <<vars, input_mod1, breakpoint>>

Command ==
    \/ Begin("run") \/ Begin("step")
    \/ SetBreakpoint
    \/ SetPC
    \/ TwoNumbers(Numbers) \/ TwoNumbers(Settings)
    \/ Show
    \/ Exit

(* flush_buffer waits for the end of a line that never comes.              *)
EndOfInput ==
    /\ Alive /\ mode = "prompt"
    /\ mode' = "flush_buffer"
    /\ UNCHANGED <<vars, input_mod1, breakpoint, ctrl_c_fnd, sigint, pressed>>
-----------------------------------------------------------------------------
(* Run and step.                                                           *)

RunOn_NoSignal == PC # breakpoint
RunOn == PC # breakpoint /\ ~ctrl_c_fnd

Cpu ==
    /\ mode \in {"run", "step"}
    /\ mode = "run" /\ at = "fetch" => RunOn
    /\ Next
    /\ mode' = IF mode = "step" /\ at' = "fetch" THEN "prompt" ELSE mode
    /\ UNCHANGED <<input_mod1, breakpoint, ctrl_c_fnd, sigint, pressed>>

EndRun ==
    /\ mode = "run" /\ at = "fetch" /\ ~RunOn
    /\ mode' = "prompt"
    /\ UNCHANGED <<vars, input_mod1, breakpoint, ctrl_c_fnd, sigint, pressed>>
-----------------------------------------------------------------------------
(* SIGINT.  The C library takes the handler out before it calls it.        *)

Press ==
    /\ Alive /\ mode # "exited"
    /\ IF sigint = "installed"
       THEN sigint' = "called" /\ pressed' = TRUE /\ UNCHANGED at
       ELSE at' = "killed" /\ UNCHANGED <<sigint, pressed>>
    /\ UNCHANGED <<regfile, psw, cex, stack, i_vec_table, call,
                   mode, input_mod1, breakpoint, ctrl_c_fnd>>

SetFlag ==
    /\ Alive /\ sigint = "called"
    /\ ctrl_c_fnd' = TRUE
    /\ sigint' = "flagged"
    /\ UNCHANGED <<vars, mode, input_mod1, breakpoint, pressed>>

Reinstall ==
    /\ Alive /\ sigint = "flagged"
    /\ sigint' = "installed"
    /\ UNCHANGED <<vars, mode, input_mod1, breakpoint, ctrl_c_fnd, pressed>>

sigint_hdlr == SetFlag \/ Reinstall
-----------------------------------------------------------------------------
MNext ==
    \/ Command
    \/ EndOfInput
    \/ Cpu
    \/ EndRun
    \/ Press
    \/ sigint_hdlr

(* The user may leave the prompt alone; the loop and the handler run.      *)
MSpec == MInit /\ [][MNext]_mvars /\ WF_mvars(Cpu \/ EndRun) /\ WF_mvars(sigint_hdlr)
-----------------------------------------------------------------------------
(* Properties.                                                             *)

(* Types; the PC stays a word though what is typed need not be one.        *)
MTypeOK ==
    /\ TypeOK
    /\ mode \in {"prompt", "run", "step", "flush_buffer", "exited"}
    /\ input_mod1 \in Int /\ breakpoint \in Int
    /\ ctrl_c_fnd \in BOOLEAN /\ pressed \in BOOLEAN
    /\ sigint \in {"installed", "called", "flagged"}

(* "Can be stopped using Ctrl+c" (README.md:18): once ctrl-c is pressed    *)
(* during a run, or its handler is late from before, the run ends.  It is  *)
(* seen between instructions only, and the flag may not be lost before; an *)
(* instruction that raises faults without end takes the emulator down.     *)
(* A step ends by itself.                                                  *)
BackToPrompt ==
    /\ mode = "run" /\ (sigint = "called" \/ ctrl_c_fnd) ~> mode # "run" \/ ~Alive
    /\ mode = "step" ~> mode # "step" \/ ~Alive

(* A run ends at the breakpoint or by a ctrl-c meant for it: one pressed   *)
(* and handled at the prompt does not end the run after it (main.c:71).    *)
RunEndsForCause ==
    [][mode = "run" /\ mode' = "prompt" => PC = breakpoint \/ pressed]_mvars

(* "A breakpoint can be set to stop program execution at a chosen memory   *)
(* address" (README.md:20): a run fetches no instruction from there.       *)
BreakpointStops ==
    [][mode = "run" /\ at # "execute" /\ Advance => PC # breakpoint]_mvars
================================================================================

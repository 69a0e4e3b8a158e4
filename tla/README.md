# A TLA+ development of the XM-23 emulator

The program is a console emulator of the XM-23 RISC machine: C, one thread,
one signal handler. It loads an S-record file into 64 KB of memory and then lets
its user run or step the program, set a breakpoint, change the program counter,
print the machine and change the cache settings.

This directory holds specifications of its parts translated from the C source,
TLC configurations that check them on small instances, and proofs of theorems
about them checked with TLAPS. `PROJECT.json` lists the runs, the source lines
each definition stands for, the hazards of the code and the disagreements found.

    tlc -config cache_words.cfg MCCache      # any run: module and cfg in PROJECT.json
    tlapm CacheProofs.tla                    # the proofs of a component

## 1. Inventory

| component | source | state | operations |
|---|---|---|---|
| Monitor | main.c, utils.c | `breakpoint`, `input_mod1`, `ctrl_c_fnd` | the prompt, run, step, breakpoint, set PC, print, settings; `sigint_hdlr` |
| Loader | memory.c `load_srec` | memory, start address | one pass over the records of a file |
| CPU loop | CPU.c | `regfile`, `psw`, `cpu.mar/mbr/ir` | `fetch`, `decode`, `execute` |
| Data instructions | instructions.c, `update_psw` | registers, PSW flags | add, add_decimal, compare, logic, bits, shifts, byte moves, branches |
| Load and store | instructions.c | registers, memory through the cache | `load`, `store`, `load_rel`, `store_rel` |
| Conditional execution | instructions.c | `cex.true_count`, `cex.false_count` | `exec_conditional`, `cex_blocking` |
| Exceptions | exceptions.c, `move` | `stack`, `stack_idx`, `i_vec_table`, `psw`, `cex`, PC, LR | `supervisory_call`, `fault`, `set_priority`, interrupt return |
| Cache | cache.c | 32 lines (address, data, usage, dirty), organization, policy | `cache_bus`, `cache_config`, `cache_init` |
| Bus, memory | memory.c | `mem` (bytes and words in a union) | `bus`, `mem_read`, `mem_write` |

How they interact: the monitor's loop calls `fetch` and `execute` alternately
and looks at `PC` and `ctrl_c_fnd` between two instructions only. `fetch`,
`load` and `store` put an address in `cpu.mar` and call `cache_bus`, which calls
`bus` for the accesses that reach memory. `fetch` (odd PC), `execute`
(unknown word), `supervisory_call` (priority) and `set_priority` call `fault`,
which calls `supervisory_call`: the two are mutually recursive. `execute` asks
`cex_blocking` before every instruction; traps save and clear the CEX counts,
branches clear them, and `move` restores them when it recognises a return. The
printer reads memory behind the cache's back; the vector table is copied from
memory once, at start.

What is hard in it:

* **Cache.** No valid bit, so an empty line looks like one holding address 0;
  the associative search keeps the last match and the replacement takes the
  first of equals; ages saturate at 0; words and bytes share lines; dirty lines
  meet changes of policy. What a load returns depends on a long history.
* **Exceptions.** Calls that recurse and sometimes do not end, a check made
  after the state it guards has been replaced, a callee whose return is not
  expected by its caller, a fixed array as a stack, a bit nobody initialises.
* **CEX.** Two counters that describe a block which traps, branches and other
  CEX instructions may interrupt.
* **Data instructions.** Nested switches over overlapping fields; carry and
  overflow from tables over three sign bits, in two widths; negation before
  addition; nibble carries; sign extension by macros.
* **Load and store.** The register moved before or after the access, and which
  value of it is used when both operands are the same.
* **Loader.** Data is written as it is read; errors are found afterwards.
* **Monitor.** A flag set by a signal handler that is not installed while it
  runs, reset by the prompt, tested between instructions; one variable that four
  commands share.

What makes each component correct is stated with its properties in section 3.

## 2. Modules

| module | extends | models |
|---|---|---|
| `WordStore` | | abstract: a store of words in front of a memory that receives them later |
| `Cache` | | `cache_bus` and what it calls, `cache_config`, `bus`, the union of bytes and words |
| `CacheRecency` | `Cache` | `Cache` with the history of line uses its ages stand for |
| `Stack` | | abstract: a register and a last-in-first-out sequence |
| `LoadStore` | `Cache` | the four load and store instructions, and programs that keep a stack with them |
| `Exceptions` | | traps, faults, priorities, returns; the control of `fetch` and `execute` around them |
| `TrapHistory` | `Exceptions` | `Exceptions` with the history that says whether a program was polite, and what is due in its conditional blocks |
| `Monitor` | `Exceptions` | the command loop, run and step, and the signal handler as a concurrent process |
| `Cex` | | conditional execution with all sixteen conditions |
| `Decode` | | `decode` over every word |
| `Alu` | | `update_psw` and the arithmetic, logic and shift functions as operators on 16-bit words |
| `Execute` | `Decode`, `Alu` | `decode` and `execute` of one instruction on registers and flags |
| `Loader` | | `load_srec` line by line, and what `main` does with its result |
| `CacheProofs` | `CacheRecency` | theorems about the cache and its ages |
| `CacheStoreProofs` | `CacheProofs` | the cache implements `WordStore` |
| `LoadStoreProofs` | `LoadStore`, `CacheStoreProofs` | the stack over the cache implements `Stack` |
| `ExceptionsProofs`, `MonitorProofs`, `CexProofs`, `ExecuteProofs`, `LoaderProofs` | the module they are about | theorems; `ExceptionsProofs` also those about `TrapHistory`, `ExecuteProofs` those about `Decode` and `Alu` |
| `MCCache`, `MCCacheRecency`, `MCLoadStore`, `MCExceptions`, `MCMonitor`, `MCCex`, `MCExecute`, `MCLoader` | the module named | instances for TLC, `MCExceptions` of `TrapHistory` |

A definition whose name has a suffix after `_` (`LastMatch_First`) is a slip
someone could make in the definition that follows it. It is used by nothing; the
properties were tried against the model with the slip in place, and notice it.

### Cache

State: `mem` (bytes), `cache` (a function from lines to records),
`organization_method`, `replacement_policy`, `mar`, `mbr`. A step of `Next` is
one call of `cache_bus` or `cache_config`, complete with the ageing of lines and
every access to the bus: the program is single-threaded and nothing observes a
call half done. `ReadHit` and `ReadMiss` are the two branches of `cache_read`,
`WriteBackPolicy` and `WriteThroughPolicy` those of `cache_write`; `Searched` is
the side effect of the associative search. The program is arbitrary: any access
of the set `Access`, any word of `Data`, in any order. A word is a pair of bytes,
low byte first, the layout the union has on a little-endian host. An odd
address used as a word reads the word it lies in, as the shift in `word(x)` does.

`CacheRecency` adds `later`, the pairs of lines of which the first was used after
the last use of the second, and a change of settings forgets them as it forgets
the lines. The code has only the counters.

`WordStore` says what the cache promises, without lines. The refinement maps
`store[a]` to what a load of `a` would return, `saved[a]` to what memory holds.
It holds for programs of aligned words other than word 0 (`AlignedWords`), as
all the repository's cache tests are except tests/cache/cache_inst.asm, which
stores and loads one byte at an address of its own. `cache_byte_word` shows why
bytes are excluded; word 0 is excluded because a load of address 0 hits an empty
line and returns 0 whatever memory holds.

### LoadStore and Stack

State: `Cache`'s, a stack pointer and one more register, and `way`, the way the
program keeps its stack, fixed from the start: elements are words or bytes, the
stack grows up or down, the pointer is moved before or after a push. `Load`,
`Store`, `LoadRel` and `StoreRel` are the whole instructions, each with its one
call of `cache_bus`; a register has as many bits as an address. The program
(`Push`, `Pop`, `Peek`, `Poke`, `Set`) uses them with the settings that make them
a stack's operations; the property is that it then sees `Stack`, which knows
neither addresses nor a cache. `place` is history and part of what `Stack` shows:
the element a relative access means, if its offset is signed. `Peek(k)` has to deliver that
element and `Poke(k)` to change that one and no other; without `place` the
refinement could take a value read from anywhere for one just loaded by the program.

Two limits of what is promised, both the cache's and not the instructions':
stacks of bytes are used under write-through only (under write-back an eviction
writes a word), and the user changes the settings while no line is dirty.

### Exceptions

State: the registers LR, PC and one general register `R`; of the PSW the
priority and the faulting bit; the CEX counts; the frames below `stack_idx`; the
vector table; and where the emulator is in its code: `at` with the arguments of
the calls under way in `call`. The recursion of `fault` and `supervisory_call`
is the reason the calls are separate steps: a recursion without end is a
behaviour to find, so each call is a step. Nothing else runs between them.

The program is arbitrary here too. Instructions that do not change control are
`WriteRegs`: the registers take any values. A word is `0 .. MaxWord`, where
`MaxWord` stands for 0xFFFF and is odd as that is; the model distinguishes words
by parity, by being 0xFFFF and by equality. The runs of `Exceptions` have
`MaxWord = 1` (one even word, and 0xFFFF), that of `Monitor` has two of each
parity.

Undefined behaviour of the C is modelled as what it may do:

* `psw_decode` returns a struct whose `faulting` bit was never assigned, and
  `fault` reads it: the bit is any of `FaultingBits`, which are both values in
  `exc_any`.
* A ninth frame is written past the end of `stack`, a return without a frame
  reads before its start, an endless recursion exhausts the host's stack. The
  model stops there (`Dead`), which is why these runs do not check for deadlock.

Left out: `cpu.clock`, `psw.previous` (written, printed, never read by the
machine), `psw.sleep` and the flags, `MOV.B` as a copy (it is a register write
among others).

### Monitor

State: `Exceptions`' and the console's: `mode` (at the prompt, in a run or a
step, waiting in `flush_buffer` for ever, exited), `input_mod1`, `breakpoint`,
`ctrl_c_fnd`, and `sigint`, where the signal handler is. Before it calls the
handler the C library takes it out, so between the call and the `signal` inside it
a second ctrl-c has the default effect, which ends the emulator (`killed`). `Press`,
`SetFlag` and `Reinstall` may happen between any two steps of the CPU or the
prompt, also inside an instruction. `pressed` is history: a ctrl-c that the run in progress
may be due to see.

What is typed: a command is one atomic step that resets `ctrl_c_fnd`, as the
prompt does after it has read a line. A number is any of `Numbers`, or, when
`scanf` cannot read it, the one `input_mod1` still holds from another command;
the number of the cache settings may be any int. The end of the input leaves
`flush_buffer` waiting for a newline. Commands that print change nothing; what
the settings do to the cache is `Reconfigure` of `Cache`.

### Cex

State: the four flags, the counts, and `plan`, which is history: for each of the
instructions the last CEX governs, whether it is due to run. `Instruction` is any
instruction that is neither CEX nor a branch, and may set the flags to anything.

`TrapHistory` has such a plan for whoever runs and one for each frame, so
that traps may come anywhere: by an instruction of the block, which is counted
before the frame is pushed, or from `fetch`, before the instruction is. Which
condition a CEX tests does not matter there, only whether it holds. The plans are kept
as long as no block is nested in another or skips parts of different length (`flat`);
the counts go on for every program.

### Decode, Alu and Execute

A behaviour of `Execute` is one instruction: any word of `Words`, in any state of
registers and flags that `Before` gives for it, is decoded and then executed. All
numbers are of 16 bits as in the code. `OperandBits` are the bits the macros of
instructions.h cut out in `execute`. `Alu` follows the code where it is
peculiar: `&` is built from one bit up by halves, `|` and `^` from it; `combine_bytes` does not mask its low argument, so `COMP.B` sets the
upper byte to 255; the macro in `compare_bit` shifts the source alone; the shift
of `BIC` and `BIS` is not defined in C from 32 on, and any position may come out;
branches on less and greater-or-equal test `negative` or `overflow`.

### Loader

A step is one line. A line is the fields `sscanf` finds in it, each a number or
`Unreadable`; `Unscannable`, `Ignored`, `Record` and `Truncated` are the ways
through the body of the loop, with the writes each has made when it ends. Data
beyond the last byte of memory goes to other variables of the process, and the
model stops (`Overrun`). A file that fails gives -1, which becomes the PC 0xFFFF.

## 3. Runs

### Runs that pass

| run | instance | shows |
|---|---|---|
| `cache_words` | 2 lines, 4 words of memory, three words used, two values, all four settings and the refused ones | the cache implements `WordStore`; clean lines agree with memory; under write-through the monitor prints what the program would load; bytes no access covers are never written |
| `cache_mixed` | 3 lines, words and bytes, odd addresses, address 0, all settings, with history | dirty lines under write-back only; one line per address in use; what hits keeps its data; ages are distinct down to 0, the victim's is 0, and ages never contradict the order of last uses |
| `ls_stack` | 2 lines, 16 bytes of 2 bits, registers of 4 bits, stacks of up to 3 elements, the eight ways to keep one, all settings | programs that push, pop and index with loads and stores see the abstract stack, and read and write in place the element they mean |
| `exc_any` | 3 priorities, 2 frames, counts to 1, three vector tables, all instructions | any program: the interrupted program's priority is always 0; a priority fault whose handler does not outrank the running one, or a fault in a faulting state, kills the emulator; with handlers at even addresses no odd word is fetched. As long as the program is polite: frames never outnumber priorities, so the stack suffices, and the emulator always gets back to its loop. As long as its blocks are flat: traps, faults and returns anywhere in them, those of handlers included, leave every block as it was |
| `monitor` | 2 priorities, 1 frame, 4 words, all commands, numbers readable and not, ctrl-c at any time | ctrl-c ends a run, and no run ends without a cause; a step ends; the PC stays a word |
| `cex_flat` | counts to 3, all conditions | blocks of equal parts, not nested: exactly the excluded part is blocked |
| `execute_all` | all 65536 words; those with two operands or a shift on 26 x 26 operands and both carries | sums, carries and overflows are exact in both widths; SUB orders its operands but for two sources; DADD is decimal; shifts lose no bit; byte operations keep the upper byte; branches go where their offsets say; no operand bit changes the instruction decoded |
| `loader` | 6 values of a byte, 36 bytes of memory, every file of up to two lines out of 48, and some of three | memory is the image of the records read so far, broken ones and wrong checksums included; a load that reports nothing found nothing wrong and starts at the last S9 |

Why the bounds are enough to be of interest. Two lines and three words make
every pair of a direct line collide and force associative evictions; three lines
are the smallest cache in which ages of lines differ and saturate. A stack of
three elements does not fit in two lines. Three
priorities are the program's, a handler's and that of the handler that interrupts
it; the stack is as deep as there are priorities above 0, as in the code (8 places for
8 levels leave one unused). The bound of a count, 3, leaves parts of every
relative length. The operands of `execute_all` are the values at the edges of
byte, word, sign and decimal digits; other words run in one state each, their
operation having no edge. Records of the loader overlap, fit exactly at the end
of memory and pass it, and each line is broken off at each of its fields. The
monitor's four words are one each for the fault's handler, the others' handlers
and what may be odd or 0xFFFF. The theorems of section 5 hold without bounds.

"Polite" (`Polite` in `TrapHistory`) is what the comment on the stack's size
(exceptions.c:42) takes for granted: traps go only to handlers that outrank the
code running, a handler lowers its priority at most to just above what it
interrupted, faults are raised only while the faulting bit is clear, and only
handlers return. So no call of a polite program is refused, and what is shown of
polite programs says nothing of refused calls: that is `exc_refused`, in which the
program and its handlers only trap and return.

The runs of `Execute` and `loader` do not check for deadlock since an instruction
and a load come to an end, nor do those of `Monitor`, whose emulator may exit,
nor those of `Exceptions`, where the process may die.

**Fairness.** `HFairSpec` assumes weak fairness of the steps
inside an instruction only (`at # "fetch"`). Between two instructions the loop of
main.c may wait for its user forever; inside one the C code just runs. Nothing is
assumed about which instruction the program executes. `MSpec` assumes it of the
loop of a run or a step, which never waits, and of the signal handler, which once called
runs; the user may leave the prompt alone and need not press ctrl-c.

### Runs that refute a comment or a test

Each of these checks one statement quoted from the repository and finds an
execution of the code that contradicts it.

| run | statement | what happens |
|---|---|---|
| `cache_byte_word` | instructions.c:592, loads memory | a word load hits the half word a byte load left |
| `execute_order` | instructions.c:538, 528 and 483, signed less than or equal, less than, unsigned higher or same; CPU.c:479 and instructions.c:136, two's complement subtraction | after SUB of 0 from 0 LE does not hold, as the zero flag, one bit, is compared with 10, nor does HS, as the negation of 0 leaves no carry |
| `exc_refused` | exceptions.c:109, a call of a handler of lower priority faults; tests/exceptions/fault_pri.asm:67, that handler is empty | the fault is raised after the refused handler was installed (exceptions.c:126): the fault's handler returns to it, and it runs |
| `monitor_break` | README.md:20, a breakpoint stops the program | `fetch` meets an odd PC, and the first instruction of its fault's handler runs though the breakpoint is there |

Other disagreements between the code and what it or a test says of it, visible
in the models but without a run of their own:

* cache.c:170, header.h:68, each address contains a byte: evicting a line that a byte
  store filled writes the whole word, over the neighbouring byte
  (`UntouchedBytesKept` is of programs of words).
* cache.c:104, "Determines the index of the LRU cache line": ages saturate at 0
  and ties go to the lowest index, so a line used later than another may be
  replaced before it. What does hold is `VictimIdle` and
  `UsageAgreesWithHistory`.
* cache.c:60, "Re-initialize the cache to avoid errors": under write-back a
  change of settings drops the stores that only the cache has (`Reset` of
  `WordStore`).
* exceptions.c:42, at most 8 frames: true of polite programs only. A handler that
  lowers its priority and is called again, or calls refused again and again,
  write past the stack (`at = "overflow"`).
* exceptions.c:133, "Checks if a double fault has occured": `fault(FAULT_DBL)`
  meets the same faulting bit and recurses without end (`StormIsFatal`).
* exceptions.c:151: a refused SETPRI faults, and sets the refused priority when
  `fault` has returned (`TakePriority`).
* instructions.c:282: `move` compares values, so moves of equal values between
  other registers than LR and PC return from an interrupt too (`IsReturn`).
* instructions.c:144: CMP takes carry and overflow from its source before the
  negation, so that LT is wrong after comparing 0 with 1 (`ComparisonsOrder` fails of CMP
  alone too).
* CPU.c:483: SUB of 0 leaves no carry, so that a chain of SUB and SUBC over several
  words borrows one too many.
* instructions.c:695, "This offset is sign extended": the sign is tested at bit 13
  of a seven-bit offset, so that a negative one goes upwards (`Displacement`).
* instructions.c:548, the false part always executes: under FL what is skipped is
  as many instructions as the false part has, from the first one on (`Blocked`
  looks at the false count alone).
* tests/instructions/CEX_SETCC_CLRCC.asm:10: SETCC has no case in `decode`
  (CPU.c:298) and is an illegal instruction.
* instructions.c:225, the negative flag of BIT: `MSBIT_WORD(dest & source)` expands
  to a shift of the source alone, so that the flag stays clear where
  tests/instructions/BitBicBis.asm:28 and :29 expect it set.
* instructions.c:59, the upper byte is untouched by byte operations: `COMP.B` sets
  it to 255 (instructions.c:388), `DADD.B` clears it, `BIC.B` and `BIS.B` of a bit
  above 7 change it.
* CPU.c:444 to 455: the branches BGE and BLT test `negative` or `overflow`, where GE and LT of
  CEX test whether they differ.
* utils.c:81: at the end of the input `flush_buffer` never returns and ctrl-c
  does not end it.
* memory.c `load_srec`: a blank or unscannable line ends the load with the PC at 0xFFFF
  and memory half filled; a wrong checksum is reported when the data is in memory;
  records past the end of memory are written there.

## 4. What is model-checked only

Liveness: `StormIsFatal`, `BackToLoop` and `BackToPrompt`, which is outside what
the proof system can do. Every invariant, action property and refinement that a
passing run checks is also a theorem of section 5, some of them under hypotheses
named there. The statements of the four refuting runs are false, of course, and
have a counterexample instead of a proof.

What `Total`, the sum of a line's pairs, computes is not proved, as it is a fold over
a sequence of any length: `LoaderProofs` needs only that the model and the
property mean the same sum by it, and the run computes it.

## 5. Proofs

The proof modules assume only the named ASSUMEs of the modules they extend: the
number of lines and words is positive, the program's accesses are addresses, the
vector table has vectors, what is typed is an int, a file is a sequence of lines,
a register is as wide as an address. They hold for every number of
lines, every memory size, every set of settings the user may type, every
program. Some theorems have a hypothesis besides, which they state and which is
explained below: `AlignedWords`, `WordsOnly`, `StackFits` with `Understood`, and for
the stack of frames a place per priority.

`CacheProofs`. `TypeCorrect` needs that the two CHOOSEs, the last match and the
line to replace, name lines: a nonempty set of lines has a greatest element, and
some line is first among those of smallest age. `WriteThroughCleanCorrect` and
`SingleCopyCorrect` and `UsageDistinctCorrect` are inductive together with the
types. `SingleCopy` is the one whose induction is delicate: a refill of address
`a` happens only when no line matches `a`, except that empty lines match 0; the
last match being used, the line in use stays above the empty ones, and the
replacement, which prefers low indices among equals, never takes it while an
empty one is left. `VictimIdleCorrect` is a pigeonhole argument: after any
associative access one line has age `CacheSize - 1`; positive ages are distinct
and below that, so if no line had age 0 there would be more lines than ages.

`UsageAgreesWithHistoryCorrect` is about `RSpec`, which implies `Spec`
(`HistoryFollowsCache`), so that the types can be used, which with the agreement
are inductive: an access ages all lines alike, so a line above another
after it was above it before, and those that fall to 0 meet others at 0, about which
nothing is claimed; the line used is on top of both orders (`UsedKeepsAgreement`).

`ResidentCopyStableCorrect`: if address `a` hits before and after a step that is
not a store to it, the line that hits is the same (`ElsewhereKeepsIndex`), and the
step leaves its data. The first half needs `SingleCopy`: were there two lines of address `a` in use, the
eviction of one could leave `a` a hit, on the other; lower lines that match are
empty and of age 0, and so are replaced first. `UntouchedBytesKeptCorrect` holds for programs of words,
odd addresses included (`WordsOnly`): a dirty line's address is one the program
accesses (`DirtyAccessed`, inductive), so an eviction writes only words the
program covers. With byte stores it is false, and that is the code's (section 3).

`CacheStoreProofs`. `ImplementsWordStoreCorrect`: if the program's accesses are
`AlignedWords`, a hypothesis of the theorem, every step of the cache is a step of
`WordStore` or a stutter. The inductive invariant `Inv` adds to types,
`WriteThroughClean` and `SingleCopy` that a line of the direct organization holds
an address of its own index (`DirectPlaced`) and that a clean line in use equals
memory (`CleanLinesMatch`). By it there is at most one line that can serve
an address (`Located`), so what a load returns changes only where a store is
(`VisibleAfter`), also when the line is evicted; aligned words do not overlap in
memory, so a write to one leaves the others (`WordWritten`).
`CleanLinesMatchCorrect` and `PrintedCurrentCorrect` come from the same invariant.

`LoadStoreProofs`. `LTypeCorrect` has no hypothesis: addresses wrap around.
`ImplementsStackCorrect` is the refinement of `Stack`, for every number of lines,
size of memory, depth and sequence of settings, in the eight ways to keep a stack.
It does not follow from `ImplementsWordStore`, which is about words. Instead
`Coherent(A, wb)` says of the cache that it serves accesses of one width at the addresses of
`A`: types, `WriteThroughClean`, `SingleCopy` and `DirectPlaced` of before, and that
a line in use holds an address of `A`, in the width `wb`, and if clean what
memory holds there, and that lines of bytes are clean. `Exchanged` is what any one load or store at
`a` does to the machine, hit or miss, whatever is evicted; it keeps `Coherent`
(`ExchangedKeepsLines`) and what loads of the other addresses return
(`ExchangedLoads`). The invariant `LInv` is `Coherent` of the addresses an element
can have (`Spots`), and that the register SP is where the depth says. Each action of
the program has a lemma on the elements (`PushStep`, `PopStep`, `PeekStep`,
`PokeStep`, `ConfigureStep`, `SetStep`), and `StackStep` puts them together.
Its two hypotheses are conditions on the program, not on the code:

* `StackFits`: the stack begins at an even address and its deepest place, in either
  direction, is above address 0 and below the end of memory. A program keeps its
  stack so, or it is no stack: an address wraps around, and a load of address 0 may hit
  an empty line.
* `Understood`: the offsets used to peek and poke are those that `load_rel` and
  `store_rel` take for what they mean. With the code's 7 bits and its test of bit
  13 they are the offsets below 64. With the others the access is to another
  address than that of the element meant, which `place` tells, and the property is false.

`ls_stack` is an instance that satisfies both.

`ExecuteProofs`. Everything is proved for all 65536 instruction words, all
operands, all flags and both widths, of which `execute_all` takes the edges. The words being
of fixed size, most leaves are linear arithmetic once the cases are separated:

* Types: `And` lies between 0 and its operands, by halves (`And1Within` to
  `AndWithin`), from which `Or`, `Xor` and what `combine_bytes` makes of an
  unmasked low part are words; `Computed` collects it for every operation,
  `Executed` for every instruction.
* Decoding: `OperandsFreeCorrect` says that flipping an operand bit leaves the
  decoded instruction. A flip of bit `b` changes no field above `b`
  (`FlipKeepsAbove`), `OperandsReach` bounds the operand bits that `execute` cuts out for
  each instruction, and the fields `decode` looked at to find the instruction are above
  that bound (`RegistersAlike`, `MiddleAlike`, `DecodedAlike`).
  The invariant is `DecodedInst`: an instruction decoded is that of the word in `ir`.
* Arithmetic: `Tables` reads the two tables of `update_psw` as conditions on the
  sign bits; `SumFlags` derives from it that carry and overflow are those of the sum of
  the operands as unsigned and as signed numbers, by cases of the signs. SUB is the
  sum with the two's complement (`LowOfNegated`), and `DifferenceFlags` turns its flags into
  the conditions CEX tests. DADD is proved digit by digit (`DecimalDigit`,
  `AddDigits`), each with the carry into the next.
* Branches: an extended offset is the offset modulo 2^16, and doubling loses only
  what the PC drops (`SignedOffset`).

`LoaderProofs`. `MemoryIsImageCorrect`: the invariant `Image` exhibits, for every
address something was said of, the last record that said it (`Said`); a line more
either covers the address and has written its byte, as far as it was read, or
changes nothing there (`LineMore`, `Imaged`). That the model's `DataRead`, a CHOOSE, names
the place where the line breaks off is `Read`, by a least element.
`SilentMeansRightCorrect` rests on `Silent`, which says of the lines read so far
what the property says of all, and on `Ended`, that a load ends behind the last line.

`ExceptionsProofs`. `BaseAtZeroCorrect` rests on an invariant about the calls
under way: a SETPRI that was refused has pushed at least one frame before the
priority is set, so it cannot be the interrupted program's. `FetchesEvenCorrect` rests on `ResumedEven`: a fetch that
goes on after its fault has the address of the last handler entered in the PC.
As long as the program is polite, `PoliteInv` holds: priorities increase strictly from frame
to frame up to the current one, and whatever call is under way is to a vector
that outranks the caller. From it follow `StackWithinPrioritiesCorrect` (a
strictly increasing sequence of naturals is no longer than its last element is
large) and `StackSufficesCorrect` for every stack with
at least one place per priority above 0 (the code has 8 for 7).
`BlocksSurviveTrapsCorrect`: as long as blocks are flat the invariant `PlansInv` says that counts and
plan match (`Matched`, the two forms explained under `CexProofs`) for whoever runs and for every frame,
pushed with what was left; `PassedMatched`, `SkippedMatched` and `PartsMatched` are the
three ways an instruction changes both.

`MonitorProofs`. What a step of the monitor does to the machine is one of four
things (`MachineSteps`): a step of the CPU, nothing, a new PC given at the
prompt, death. So the invariants of `ExceptionsProofs` carry over
(`MonitoredBaseAtZero`, `MonitoredFetchesEven`), the latter because a prompt never comes
within an instruction (`PromptBetween`). `RunEndsForCauseCorrect` rests on
`SignalInv`: whenever the flag is set, or the handler is about to set it, in a
run, `pressed` holds; the prompt's reset is what re-establishes it. `MTypeCorrect`
needs that the PC is cut to a word however large the number typed is.

`CexProofs`. `BlockedAsPlannedCorrect` rests on `PlanInv`: the plan is the true
part's count of instructions that run followed by the false count of those that do
not (`Truthful`), or, when the condition did not hold, as many that do not as the
false count says, and then those that run (`Falsified`). Here the two parts must be of
equal length, which is where `FlatSpec` needs it: the code skips the first
`false_count` instructions, and these are the true part only if the parts agree.

## 6. Plan

Done: the cache, loads and stores over it, exceptions, conditional execution,
decoding and the data instructions, the loader, the monitor.

Proved: every safety property and refinement of the passing runs.

Next, in this order:

1. `ImplementsStack` for programs that keep two stacks, or a stack and other
   data, which `Coherent` allows: its set of addresses is a parameter.
2. That a polite handler's return restores the registers and the priority of what
   it interrupted, as `BlocksSurviveTraps` says of the counts.
3. A refinement of the loader: the image of a file as one step.

## 7. Not modelled

* A machine that fetches its own words through the cache and executes them,
  `Execute`, `Exceptions`, `Cex` and `LoadStore` composed: with words wide enough
  to hold an instruction its state is out of TLC's reach at any size at which the
  questions above are of interest. Programs are arbitrary sequences of
  instructions instead, which allows more behaviours. Not covered is what depends
  on the words themselves, such as a program that stores into its own code.
* Console output (`print_*`, `VERBOSE`, `cache_print`), opening the file, editing
  its name, the wording of messages: no state of the machine.
* `cpu.clock`, which is counted and printed only; `psw.previous` and `psw.sleep`
  in `Exceptions`.
* `psw_mod`'s setting of bits, since no word is decoded as SETCC; `mem_read`, which
  nothing calls; declarations without a use.
* The assembler programs under tests/, which are inputs, read here as
  documentation of what is expected.

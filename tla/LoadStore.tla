------------------------------- MODULE LoadStore -------------------------------
(***************************************************************************)
(* load, store, load_rel and store_rel of instructions.c over the cache,   *)
(* and the programs that keep a stack in memory with them.                 *)
(*                                                                         *)
(* A register holds a number of as many bits as an address; the cache      *)
(* moves pairs of bytes.  A name with a suffix after "_" is a plausible    *)
(* slip in the definition that follows it.                                 *)
(***************************************************************************)
EXTENDS Cache, Integers, Sequences, FiniteSets

CONSTANTS
    OffsetBits,   \* 7, the bits of a relative offset
    SignBit,      \* 13, the bit load_rel takes for its sign
    Offsets,      \* the offsets the program uses
    StackBase,    \* where its stack begins
    MaxDepth,     \* bound: elements on the stack
    Item          \* the values it puts in its register

ByteSize    == Cardinality(Byte)
AddressSize == 2 * NumWords

ASSUME NumbersAssumption ==
    /\ ByteSize \in Nat \ {0} /\ Byte = 0 .. ByteSize - 1 /\ Zero = 0
    /\ AddressSize = ByteSize * ByteSize
    /\ OffsetBits \in Nat \ {0} /\ SignBit \in Nat /\ MaxDepth \in Nat
    /\ 2^OffsetBits \in Nat /\ 2^SignBit \in Nat \ {0}
    /\ Offsets \subseteq 0 .. 2^OffsetBits - 1
    /\ StackBase \in Address /\ Item \subseteq Address

VARIABLES
    regs,   \* the stack pointer SP and a register X of regfile[0]
    way,    \* how the program keeps its stack: fixed from the start
    place   \* history: the element last meant by a relative access, see Stack

lvars == <<vars, regs, way, place>>

Value(w) == w[1] + ByteSize * w[2]
Pair_Uncut(v) == <<v, v \div ByteSize>>
Pair(v)  == <<v % ByteSize, v \div ByteSize>>
Bytes(wb) == IF wb = "WORD" THEN 2 ELSE 1
-----------------------------------------------------------------------------
(* The instructions.  dec and inc are the bits of the word: both may be    *)
(* set, and then cancel out.                                               *)

Moved_ByOne(v, dec, inc, wb) == (v - dec + inc) % AddressSize
Moved(v, dec, inc, wb) == (v + Bytes(wb) * (inc - dec)) % AddressSize

(* With POST the register is moved after it may have been loaded.          *)
Load_MoveBoth(dest, source, prpo, dec, inc, wb) ==
    LET moved == Moved(regs[source], dec, inc, wb)
    IN  /\ Read(moved, wb)
        /\ regs' = [regs EXCEPT ![source] = moved, ![dest] = Value(mbr')]
Load(dest, source, prpo, dec, inc, wb) ==
    LET moved == Moved(regs[source], dec, inc, wb)
    IN  \/ /\ prpo = "PRE"
           /\ Read(moved, wb)
           /\ regs' = [regs EXCEPT ![source] = moved, ![dest] = Value(mbr')]
        \/ /\ prpo = "POST"
           /\ Read(regs[source], wb)
           /\ regs' = [regs EXCEPT ![dest] = Value(mbr'),
                                   ![source] = Moved(@, dec, inc, wb)]

(* The source is passed by value: it is stored as it was before the move.  *)
Store(dest, source, prpo, dec, inc, wb) ==
    LET moved == Moved(regs[dest], dec, inc, wb)
    IN  /\ Write(IF prpo = "PRE" THEN moved ELSE regs[dest],
                 Pair(regs[source]), wb)
        /\ regs' = [regs EXCEPT ![dest] = moved]

(* The offset as a signed number of words, should its SignBit be set.      *)
Displacement_NotDoubled(o) ==
    IF (o \div 2^SignBit) % 2 = 1 THEN o - 2^OffsetBits ELSE o
Displacement(o) ==
    2 * IF (o \div 2^SignBit) % 2 = 1 THEN o - 2^OffsetBits ELSE o

LoadRel(dest, source, o, wb) ==
    /\ Read((regs[source] + Displacement(o)) % AddressSize, wb)
    /\ regs' = [regs EXCEPT ![dest] = Value(mbr')]

StoreRel(dest, source, o, wb) ==
    /\ Write((regs[dest] + Displacement(o)) % AddressSize, Pair(regs[source]), wb)
    /\ UNCHANGED regs
-----------------------------------------------------------------------------
(* The program.  Its stack grows up or down, and SP is on the last element *)
(* (push moves first) or behind it (push moves last); elements are words,  *)
(* or bytes if the user has set write-through.                             *)

Ways == [wb : Width, push : {"PRE", "POST"}, up : {0, 1}]

Depth == (IF way.up = 1 THEN regs.SP - StackBase ELSE StackBase - regs.SP) \div Bytes(way.wb)

ElementAt(k) ==
    LET steps == Bytes(way.wb) * (IF way.push = "PRE" THEN k ELSE k - 1)
    IN  IF way.up = 1 THEN StackBase + steps ELSE StackBase - steps

Clean == \A i \in Lines : ~cache[i].dirty

LInit ==
    /\ Init
    /\ way \in Ways
    /\ regs = [SP |-> StackBase, X |-> 0]
    /\ place = 0

Set ==
    /\ \E v \in Item :
        /\ way.wb = "BYTE" => v < ByteSize
        /\ regs' = [regs EXCEPT !.X = v]
    /\ place' = 0
    /\ UNCHANGED <<vars, way>>

Push ==
    /\ Depth < MaxDepth
    /\ way.wb = "BYTE" => ~WriteBack
    /\ Store("SP", "X", way.push, 1 - way.up, way.up, way.wb)
    /\ place' = 0
    /\ UNCHANGED way

Pop ==
    /\ Depth > 0
    /\ Load("X", "SP", IF way.push = "PRE" THEN "POST" ELSE "PRE",
            way.up, 1 - way.up, way.wb)
    /\ place' = 0
    /\ UNCHANGED way

(* What an offset means, if offsets are signed: the program uses those     *)
(* that mean an element.                                                   *)
Meant(o) == (regs.SP + 2 * IF o < 2^(OffsetBits - 1) THEN o ELSE o - 2^OffsetBits)
                % AddressSize

Peek(k) ==
    /\ \E o \in Offsets : Meant(o) = ElementAt(k) /\ LoadRel("X", "SP", o, way.wb)
    /\ place' = k
    /\ UNCHANGED way

Poke(k) ==
    /\ way.wb = "BYTE" => ~WriteBack
    /\ \E o \in Offsets : Meant(o) = ElementAt(k) /\ StoreRel("SP", "X", o, way.wb)
    /\ place' = k
    /\ UNCHANGED way

(* The user changes the settings while nothing is lost by it.              *)
Configure ==
    /\ Clean
    /\ \E set \in Settings :
        /\ way.wb = "BYTE" => set[2] # "WRITE_BACK"
        /\ Reconfigure(set[1], set[2])
    /\ UNCHANGED <<regs, way, place>>

LNext ==
    \/ Set \/ Push \/ Pop
    \/ \E k \in 1 .. Depth : Peek(k) \/ Poke(k)
    \/ Configure

LSpec == LInit /\ [][LNext]_lvars
-----------------------------------------------------------------------------
(* Properties.                                                             *)

(* Stacks of words work in any direction, in either organization and under *)
(* either policy, however many of their elements have left the cache, and  *)
(* with elements read and written in place, the element meant and no       *)
(* other; stacks of bytes work under write-through.                        *)
AsStack == INSTANCE Stack WITH
    Item  <- Address,
    stack <- [k \in 1 .. Depth |-> Value(Loaded(ElementAt(k), way.wb))],
    x     <- regs.X
ImplementsStack == AsStack!Spec
================================================================================

--------------------------------- MODULE Loader ---------------------------------
(***************************************************************************)
(* load_srec of memory.c and what main does with its result: the lines of  *)
(* an S-record file, one step each, into memory and a start address.       *)
(*                                                                         *)
(* A line is the fields sscanf finds in it: the two characters of its type *)
(* and pairs of digits, of which a field that is missing or no number is   *)
(* Unreadable.  bytes are the pairs behind the address; the length says    *)
(* how many of them are data, and which one is the checksum.               *)
(*                                                                         *)
(* A name with a suffix after "_" is a plausible slip in the definition    *)
(* that follows it.                                                        *)
(***************************************************************************)
EXTENDS Naturals, Sequences, SequencesExt

CONSTANTS
    ByteSize,    \* 256, the values of a pair of digits
    MaxLength,   \* 36, the longest record
    Unreadable,
    Files        \* the files the user may name

Byte    == 0 .. ByteSize - 1
Address == 0 .. ByteSize * ByteSize - 1   \* MEMORY_SIZE of them
Field   == Byte \cup {Unreadable}
Types   == {"S0", "S1", "S9"}
Line    == [type : Types \cup {"other", Unreadable}, length : Field,
            high : Field, low : Field, bytes : Seq(Field)]

ASSUME FilesAssumption ==
    /\ ByteSize \in Nat \ {0} /\ MaxLength \in Nat /\ Unreadable \notin Byte
    /\ \A f \in Files : f \in Seq(Line)

VARIABLES
    file,          \* fixed from the start
    next,          \* the line fgets reads next
    mem,
    startAddress,
    reported,      \* an error was printed
    at,            \* "loading", "loaded", "failed" or "overrun"
    pc             \* the PC main sets from what load_srec returns

vars == <<file, next, mem, startAddress, reported, at, pc>>

line == file[next]

FixedFieldsRead == Unreadable \notin {line.type, line.length, line.high, line.low}

Valid == line.type \in Types /\ line.length \in 3 .. MaxLength

Addr   == ByteSize * line.high + line.low
Wanted == line.length - 3

(* The data sscanf reads before one that it cannot read: the line may end  *)
(* before the length says so.                                              *)
Readable(k) == k \in DOMAIN line.bytes /\ line.bytes[k] # Unreadable
DataRead == CHOOSE n \in 0 .. Wanted :
                /\ \A k \in 1 .. n : Readable(k)
                /\ n < Wanted => ~Readable(n + 1)
Complete == DataRead = Wanted /\ Readable(Wanted + 1)

(* An S1 record is written as it is read.                                  *)
Written_WhenComplete == IF line.type = "S1" /\ Complete THEN DataRead ELSE 0
Written == IF line.type = "S1" THEN DataRead ELSE 0

(* The sum of the pairs of a line behind its address, checksum included.   *)
Total(l) == FoldLeft(+, 0, SubSeq(l.bytes, 1, l.length - 2))
Sum_NoAddress == (line.length + Total(line)) % ByteSize
Sum == (line.length + line.high + line.low + Total(line)) % ByteSize
-----------------------------------------------------------------------------
Init ==
    /\ file \in Files
    /\ next = 1
    /\ mem = [a \in Address |-> 0]
    /\ startAddress = 0
    /\ reported = FALSE
    /\ at = "loading"
    /\ pc = 0

(* return -1, cut to the register's width.                                 *)
Fail_Uncut ==
    /\ at' = "failed"
    /\ reported' = TRUE
    /\ pc' = ByteSize^4 - 1
Fail ==
    /\ at' = "failed"
    /\ reported' = TRUE
    /\ pc' = ByteSize * ByteSize - 1

Loading == at = "loading" /\ next <= Len(file)

Unscannable ==
    /\ Loading /\ ~FixedFieldsRead
    /\ Fail
    /\ UNCHANGED <<file, next, mem, startAddress>>

Ignored ==
    /\ Loading /\ FixedFieldsRead /\ ~Valid
    /\ reported' = TRUE
    /\ next' = next + 1
    /\ UNCHANGED <<file, mem, startAddress, at, pc>>

InRange == Addr + Written - 1 \in Address \/ Written = 0

Store ==
    mem' = [a \in Address |-> IF a \in Addr .. Addr + Written - 1
                              THEN line.bytes[a - Addr + 1] ELSE mem[a]]

(* A wrong checksum is found, and reported, when all has been done.        *)
Record ==
    /\ Loading /\ FixedFieldsRead /\ Valid /\ InRange /\ Complete
    /\ Store
    /\ startAddress' = IF line.type = "S9" THEN Addr ELSE startAddress
    /\ reported' = (reported \/ Sum # ByteSize - 1)
    /\ next' = next + 1
    /\ UNCHANGED <<file, at, pc>>

Truncated ==
    /\ Loading /\ FixedFieldsRead /\ Valid /\ InRange /\ ~Complete
    /\ Store
    /\ Fail
    /\ startAddress' = IF line.type = "S9" /\ DataRead = Wanted
                       THEN Addr ELSE startAddress
    /\ UNCHANGED <<file, next>>

(* Behind the last byte of memory are other variables of the process: what *)
(* it does then is not defined, and the model stops.                       *)
Overrun ==
    /\ Loading /\ FixedFieldsRead /\ Valid /\ ~InRange
    /\ at' = "overrun"
    /\ UNCHANGED <<file, next, mem, startAddress, reported, pc>>

EndOfFile ==
    /\ at = "loading" /\ next > Len(file)
    /\ at' = "loaded"
    /\ pc' = startAddress
    /\ UNCHANGED <<file, next, mem, startAddress, reported>>

Next == Unscannable \/ Ignored \/ Record \/ Truncated \/ Overrun \/ EndOfFile

Spec == Init /\ [][Next]_vars
-----------------------------------------------------------------------------
(* Properties.                                                             *)

TypeOK ==
    /\ file \in Seq(Line)
    /\ next \in 1 .. Len(file) + 1
    /\ mem \in [Address -> Byte]
    /\ startAddress \in Address /\ pc \in Address
    /\ reported \in BOOLEAN
    /\ at \in {"loading", "loaded", "failed", "overrun"}

(* What a line says on its own, if it says anything.                       *)
Place(l)    == ByteSize * l.high + l.low
Says(l)     == /\ Unreadable \notin {l.type, l.length, l.high, l.low}
               /\ l.length \in 3 .. MaxLength
Holds(l, a) == /\ Says(l) /\ l.type = "S1"
               /\ a \in Place(l) .. Place(l) + l.length - 4
               /\ \A k \in 1 .. a - Place(l) + 1 :
                     k \in DOMAIN l.bytes /\ l.bytes[k] # Unreadable

(* Whether or not the load succeeds, and whether or not checksums are      *)
(* right: an address holds what the last record so far said of it that got *)
(* as far as its byte, and 0 if none did.                                  *)
Done == next - 1 + IF at = "failed" THEN 1 ELSE 0
MemoryIsImage ==
    \A a \in Address :
        LET said == {k \in 1 .. Done : Holds(file[k], a)}
        IN  IF said = {} THEN mem[a] = 0
            ELSE LET l == file[Max(said)]
                 IN  mem[a] = l.bytes[a - Place(l) + 1]

(* A load that printed no error found every line to be a whole record with *)
(* the right checksum, which makes the sum of all its pairs end in the     *)
(* largest byte, and main starts at the address of the last S9.            *)
Right(l) ==
    /\ Says(l) /\ l.type \in Types
    /\ \A k \in 1 .. l.length - 2 : k \in DOMAIN l.bytes /\ l.bytes[k] # Unreadable
    /\ (l.length + l.high + l.low + Total(l)) % ByteSize = ByteSize - 1
SilentMeansRight ==
    at = "loaded" /\ ~reported =>
        /\ \A k \in DOMAIN file : Right(file[k])
        /\ LET ends == {k \in DOMAIN file : file[k].type = "S9"}
           IN  pc = IF ends = {} THEN 0 ELSE Place(file[Max(ends)])
=================================================================================

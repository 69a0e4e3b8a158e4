-------------------------------- MODULE Cache --------------------------------
(***************************************************************************)
(* The cache of cache.c and the bus of memory.c behind it.                 *)
(*                                                                         *)
(* Every fetch, load and store of the CPU goes through cache_bus: it looks *)
(* the address up by the current organization, and serves a hit from the   *)
(* line or refills the line from main memory, writing a dirty victim back. *)
(* The user may change organization and policy between two instructions    *)
(* (cache_config), which empties every line.                               *)
(*                                                                         *)
(* A word is its pair of bytes <<low, high>>: the union of header.h gives  *)
(* mem.word[k] the bytes 2k and 2k+1, low byte first on the build's        *)
(* little-endian machine.  cpu.clock, which only counts, is left out.      *)
(***************************************************************************)
EXTENDS Naturals

CONSTANTS
    CacheSize,  \* CACHE_SIZE, the number of lines
    NumWords,   \* MEMORY_SIZE / 2
    Byte,       \* the values of a byte
    Zero,       \* the zero byte
    Access,     \* the <<address, width>> pairs the program loads and stores
    Data,       \* the words it stores
    Images,     \* the memory contents the loader may leave
    Settings    \* the <<organization, policy>> pairs the user may enter

Lines   == 0 .. (CacheSize - 1)
Address == 0 .. (2 * NumWords - 1)
Width   == {"WORD", "BYTE"}
Word    == Byte \X Byte

ASSUME SizeAssumption == CacheSize \in Nat \ {0} /\ NumWords \in Nat \ {0}
ASSUME DataAssumption ==
    /\ Zero \in Byte
    /\ Data \subseteq Word
    /\ Access \subseteq Address \X Width
    /\ Images \subseteq [Address -> Byte]

VARIABLES
    mem,                  \* mem.byte
    cache,                \* the lines
    organization_method,
    replacement_policy,
    mar, mbr              \* cpu.mar and cpu.mbr

vars == <<mem, cache, organization_method, replacement_policy, mar, mbr>>

ZeroWord  == <<Zero, Zero>>
LSByte(w) == <<w[1], Zero>>
Narrow(w, wb) == IF wb = "WORD" THEN w ELSE LSByte(w)

Direct      == organization_method = "DIRECT"
WriteBack   == replacement_policy = "WRITE_BACK"

Organizations == {"DIRECT", "ASSOCIATIVE"}
Policies      == {"WRITE_BACK", "WRITE_THROUGH"}

(* The settings cache_config accepts.  A name with a suffix after "_" is a *)
(* plausible slip in the definition that follows it, never part of the     *)
(* model: the properties are shown to notice it.                           *)
Accepted_NWay(org, pol) == org \in Organizations \cup {"N_WAY"} /\ pol \in Policies
Accepted(org, pol)      == org \in Organizations /\ pol \in Policies
-----------------------------------------------------------------------------
(* The bus: a word access ignores the low bit of the address.              *)

Base(a)    == 2 * (a \div 2)
WordAt(m, a) == <<m[Base(a)], m[Base(a) + 1]>>

BusRead(m, a, wb) == IF wb = "WORD" THEN WordAt(m, a) ELSE <<m[a], Zero>>

BusWrite(m, a, w, wb) ==
    IF wb = "WORD"
    THEN [m EXCEPT ![Base(a)] = w[1], ![Base(a) + 1] = w[2]]
    ELSE [m EXCEPT ![a] = w[1]]
-----------------------------------------------------------------------------
(* Lines and the search for one.                                           *)

EmptyLine == [address |-> 0, data |-> ZeroWord, usage |-> 0, dirty |-> FALSE]

DirectIndex(a) == (a \div 2) % CacheSize

(* The associative search has no break: the last match wins.               *)
Matches(a)   == {i \in Lines : cache[i].address = a}
LastMatch_First(a) == CHOOSE i \in Matches(a) : \A j \in Matches(a) : j >= i
LastMatch(a) == CHOOSE i \in Matches(a) : \A j \in Matches(a) : j <= i

(* The first of the lines with the smallest usage.                         *)
IsLru_LastOfEquals(i) ==
    \A j \in Lines : \/ cache[i].usage < cache[j].usage
                     \/ cache[i].usage = cache[j].usage /\ i >= j
IsLru_MostRecent(i) ==
    \A j \in Lines : \/ cache[i].usage > cache[j].usage
                     \/ cache[i].usage = cache[j].usage /\ i <= j
IsLru(i) ==
    \A j \in Lines : \/ cache[i].usage < cache[j].usage
                     \/ cache[i].usage = cache[j].usage /\ i <= j
LruLine == CHOOSE i \in Lines : IsLru(i)

Hit(a) == IF Direct THEN cache[DirectIndex(a)].address = a
                    ELSE Matches(a) # {}

Index(a) == IF Direct THEN DirectIndex(a)
            ELSE IF Hit(a) THEN LastMatch(a) ELSE LruLine

(* cache_dec_associative: every other line ages by one.                    *)
UsageAfter_NoAging(i, j) == IF j = i THEN CacheSize - 1 ELSE cache[j].usage
UsageAfter_NoRefresh(i, j) ==
    IF j = i /\ cache[j].usage = 0 THEN CacheSize - 1
    ELSE IF cache[j].usage > 0 THEN cache[j].usage - 1 ELSE 0
UsageAfter(i, j) ==
    IF j = i THEN CacheSize - 1
    ELSE IF cache[j].usage > 0 THEN cache[j].usage - 1 ELSE 0

Searched(i) ==
    IF Direct THEN cache
    ELSE [j \in Lines |-> [cache[j] EXCEPT !.usage = UsageAfter(i, j)]]

(* Main memory once the line has been written back, if it has to be.       *)
WrittenBack_Never(i)  == mem
WrittenBack_Always(i) == BusWrite(mem, cache[i].address, cache[i].data, "WORD")
WrittenBack(i) ==
    IF cache[i].dirty
    THEN BusWrite(mem, cache[i].address, cache[i].data, "WORD")
    ELSE mem
-----------------------------------------------------------------------------
Init ==
    /\ mem \in Images
    /\ cache = [i \in Lines |-> EmptyLine]
    /\ organization_method = "DIRECT"
    /\ replacement_policy = "WRITE_BACK"
    /\ mar = 0
    /\ mbr = ZeroWord

(* cache_read, reached with cpu.mar = a.                                   *)
ReadHit(a, wb) ==
    /\ Hit(a)
    /\ cache' = Searched(Index(a))
    /\ mbr' = Narrow(cache[Index(a)].data, wb)
    /\ mar' = a
    /\ UNCHANGED <<mem, organization_method, replacement_policy>>

ReadMiss(a, wb) ==
    /\ ~Hit(a)
    /\ LET i == Index(a)
       IN  /\ mem' = WrittenBack(i)
           /\ mbr' = BusRead(mem', a, wb)
           /\ cache' = [Searched(i) EXCEPT ![i].address = a,
                                           ![i].data    = mbr',
                                           ![i].dirty   = FALSE]
    /\ mar' = a
    /\ UNCHANGED <<organization_method, replacement_policy>>

(* cache_write, reached with cpu.mar = a and cpu.mbr = w.                  *)
Fill_AlwaysDirty(i, a, w, wb, d) ==
    [Searched(i) EXCEPT ![i].address = a,
                        ![i].data    = Narrow(w, wb),
                        ![i].dirty   = TRUE]
Fill(i, a, w, wb, d) ==
    [Searched(i) EXCEPT ![i].address = a,
                        ![i].data    = Narrow(w, wb),
                        ![i].dirty   = d]

WriteBackPolicy(a, w, wb) ==
    /\ WriteBack
    /\ mem' = IF Hit(a) THEN mem ELSE WrittenBack(Index(a))
    /\ cache' = Fill(Index(a), a, w, wb, TRUE)
    /\ mar' = a
    /\ mbr' = w
    /\ UNCHANGED <<organization_method, replacement_policy>>

WriteThroughPolicy_MissOnly(a, w, wb) ==
    /\ ~WriteBack
    /\ mem' = IF Hit(a) THEN mem ELSE BusWrite(mem, a, w, wb)
    /\ cache' = Fill(Index(a), a, w, wb, cache[Index(a)].dirty)
    /\ mar' = a
    /\ mbr' = w
    /\ UNCHANGED <<organization_method, replacement_policy>>

WriteThroughPolicy(a, w, wb) ==
    /\ ~WriteBack
    /\ mem' = BusWrite(mem, a, w, wb)
    /\ cache' = Fill(Index(a), a, w, wb, cache[Index(a)].dirty)
    /\ mar' = a
    /\ mbr' = w
    /\ UNCHANGED <<organization_method, replacement_policy>>

(* cache_config: the lines are emptied whatever they hold.                 *)
Reconfigure_KeepLines(org, pol) ==
    /\ org # organization_method \/ pol # replacement_policy
    /\ Accepted(org, pol)
    /\ organization_method' = org
    /\ replacement_policy' = pol
    /\ UNCHANGED <<mem, cache, mar, mbr>>
Reconfigure(org, pol) ==
    /\ org # organization_method \/ pol # replacement_policy
    /\ Accepted(org, pol)
    /\ cache' = [i \in Lines |-> EmptyLine]
    /\ organization_method' = org
    /\ replacement_policy' = pol
    /\ UNCHANGED <<mem, mar, mbr>>

Read(a, wb)     == ReadHit(a, wb) \/ ReadMiss(a, wb)
Write(a, w, wb) == WriteBackPolicy(a, w, wb) \/ WriteThroughPolicy(a, w, wb)

Next ==
    \/ \E x \in Access : Read(x[1], x[2])
    \/ \E x \in Access, w \in Data : Write(x[1], w, x[2])
    \/ \E s \in Settings : Reconfigure(s[1], s[2])

Spec == Init /\ [][Next]_vars
-----------------------------------------------------------------------------
(* Properties.                                                             *)

LineType == [address : Address, data : Word,
             usage : 0 .. (CacheSize - 1), dirty : BOOLEAN]

(* Types; in particular N_WAY, whose search finds nothing, is never in     *)
(* force (cache_config's range check).                                     *)
TypeOK ==
    /\ mem \in [Address -> Byte]
    /\ cache \in [Lines -> LineType]
    /\ organization_method \in Organizations
    /\ replacement_policy \in Policies
    /\ mar \in Address
    /\ mbr \in Word

(* Under write-through no line is dirty, so that no eviction writes to     *)
(* memory; the flag is set under write-back only, and the change of policy *)
(* is what keeps one regime's flags out of the other.                      *)
WriteThroughClean ==
    ~WriteBack => \A i \in Lines : ~cache[i].dirty

(* The associative search takes the last of several matches, and all lines *)
(* of an empty cache match address 0.  Whatever the program does, a second *)
(* line with the same address is one that was never filled, below the line *)
(* in use.                                                                 *)
SingleCopy ==
    ~Direct => \A i, j \in Lines :
        i < j /\ cache[i].address = cache[j].address => cache[i] = EmptyLine

(* As long as an address keeps hitting, what the hit returns changes by a  *)
(* store to that address only.  For address 0 of the associative cache     *)
(* this depends on the replacement taking the first of equally old lines:  *)
(* it must not evict the copy in use while an empty line still matches.    *)
Resident(a) == cache[Index(a)].data
ResidentCopyStable ==
    [][\A a \in Address :
          \/ ~Hit(a) \/ ~Hit(a)' \/ Resident(a)' = Resident(a)
          \/ \E w \in Data, wb \in Width : Write(a, w, wb)
          \/ organization_method' # organization_method
          \/ replacement_policy' # replacement_policy]_vars

(* Ages of associative lines: two lines of the same age are both of age 0. *)
UsageDistinct ==
    ~Direct => \A i, j \in Lines :
        cache[i].usage = cache[j].usage => i = j \/ cache[i].usage = 0

(* The victim has age 0: none of the last CacheSize - 1 accesses used it.  *)
VictimIdle == ~Direct => cache[LruLine].usage = 0

(* A load delivers what main memory holds at the address, for the programs *)
(* that never store (Data = {}): cache.c and ld (instructions.c:592) speak *)
(* of the memory at the address, whatever was loaded before.               *)
Loaded(a, wb) ==
    IF Hit(a) THEN Narrow(Resident(a), wb)
              ELSE BusRead(WrittenBack(Index(a)), a, wb)
LoadsReturnMemory ==
    \A x \in Access : Loaded(x[1], x[2]) = BusRead(mem, x[1], x[2])

(* The bytes of memory no access of the program covers are never written:  *)
(* "Each memory address contains 1 byte" (header.h:68) of its own.  It     *)
(* holds of programs of words; an eviction writes a line that a byte store *)
(* filled back as a word (cache.c:170).                                    *)
Covered == UNION {IF x[2] = "WORD" THEN {Base(x[1]), Base(x[1]) + 1}
                                   ELSE {x[1]} : x \in Access}
UntouchedBytesKept ==
    [][\A a \in Address \ Covered : mem'[a] = mem[a]]_vars
-----------------------------------------------------------------------------
(* Programs that use aligned words only, as fetches and most of the tests  *)
(* do, and leave word 0 alone.                                             *)

AlignedWords ==
    \A x \in Access : x[2] = "WORD" /\ x[1] % 2 = 0 /\ x[1] # 0

WordAddress == {x[1] : x \in Access}

(* For them a clean line in use holds what main memory holds, and every    *)
(* line is empty or holds a word of the program.                           *)
CleanLinesMatch ==
    \A i \in Lines :
        \/ cache[i] = EmptyLine
        \/ /\ cache[i].address \in WordAddress
           /\ ~cache[i].dirty =>
                 cache[i].data = WordAt(mem, cache[i].address)

(* What a load of the word at a returns.                                   *)
Visible(a) == IF Hit(a) THEN Resident(a) ELSE WordAt(mem, a)

(* What the monitor prints for the addresses from start up to end.         *)
print_mem(start, end) ==
    IF start <= end /\ end <= 2 * NumWords
    THEN [a \in start .. end - 1 |-> mem[a]] ELSE <<>>

(* For them, under write-through, what the user sees printed is what the   *)
(* program would load, whatever the lines hold and whatever the policy was *)
(* before; under write-back memory lags behind the lines.                  *)
PrintedCurrent ==
    ~WriteBack => \A a \in WordAddress :
        LET shown == print_mem(a, a + 2)
        IN  <<shown[a], shown[a + 1]>> = Visible(a)

(* For them the cache, in either organization and under either policy, is  *)
(* the store of WordStore: loads return the last word stored, memory       *)
(* receives stored words only, and a change of settings falls back to it.  *)
Abstract == INSTANCE WordStore WITH
                Addr  <- WordAddress,
                store <- [a \in WordAddress |-> Visible(a)],
                saved <- [a \in WordAddress |-> WordAt(mem, a)],
                out   <- mbr
ImplementsWordStore == Abstract!Spec
=============================================================================

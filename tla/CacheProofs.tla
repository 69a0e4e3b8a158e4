----------------------------- MODULE CacheProofs -----------------------------
(***************************************************************************)
(* Proofs about Cache and its history, for every number of lines, every memory size, every *)
(* program and every choice of settings.                                   *)
(***************************************************************************)
EXTENDS CacheRecency, FiniteSetTheorems, WellFoundedInduction, TLAPS

USE SizeAssumption, DataAssumption
-----------------------------------------------------------------------------
(* Arithmetic.                                                             *)

(* A set of naturals has a least element, a bounded one a greatest.        *)
LEMMA Least ==
    ASSUME NEW T, T \subseteq Nat, T # {}
    PROVE  \E x \in T : \A y \in T : x <= y
<1>1. PICK x \in T : \A y \in T : ~(<<y, x>> \in OpToRel(<, Nat))
  BY NatLessThanWellFounded, WFMin
<1>2. \A y \in T : ~(y < x)
  BY <1>1 DEF OpToRel
<1>. QED
  BY <1>2

LEMMA Greatest ==
    ASSUME NEW n \in Nat, NEW T, T \subseteq 0 .. (n - 1), T # {}
    PROVE  \E x \in T : \A y \in T : y <= x
<1>. DEFINE U == {n - 1 - x : x \in T}
<1>0. \A x \in T : x \in 0 .. (n - 1) /\ n - 1 - x \in Nat
  OBVIOUS
<1>1. U \subseteq Nat /\ U # {}
  <2>1. U \subseteq Nat
    BY <1>0
  <2>2. U # {}
    OBVIOUS
  <2>. QED
    BY <2>1, <2>2
<1>2. PICK u \in U : \A v \in U : u <= v
  BY <1>1, Least
<1>3. PICK x \in T : u = n - 1 - x
  BY <1>2
<1>4. \A y \in T : u <= n - 1 - y
  BY <1>2
<1>. QED
  BY <1>0, <1>3, <1>4

LEMMA Remainder ==
    ASSUME NEW a \in Nat, NEW n \in Nat \ {0}
    PROVE  a % n \in 0 .. (n - 1)
  BY SMT

(* Both bytes of a word are in memory.                                     *)
LEMMA BaseInMemory ==
    ASSUME NEW a \in Address
    PROVE  /\ Base(a) \in Address /\ Base(a) + 1 \in Address
           /\ a \in {Base(a), Base(a) + 1}
  BY SMT DEF Base, Address
-----------------------------------------------------------------------------
(* The bus keeps memory a memory and delivers words.                       *)

LEMMA BusReadWord ==
    ASSUME NEW m \in [Address -> Byte], NEW a \in Address, NEW wb
    PROVE  BusRead(m, a, wb) \in Word
  BY BaseInMemory DEF BusRead, WordAt, Word

LEMMA BusWriteMemory ==
    ASSUME NEW m \in [Address -> Byte], NEW a \in Address, NEW w \in Word, NEW wb
    PROVE  BusWrite(m, a, w, wb) \in [Address -> Byte]
<1>1. w[1] \in Byte /\ w[2] \in Byte
  BY DEF Word
<1>. QED
  BY <1>1, BaseInMemory DEF BusWrite

LEMMA NarrowWord ==
    ASSUME NEW w \in Word, NEW wb
    PROVE  Narrow(w, wb) \in Word
  BY DEF Narrow, LSByte, Word
-----------------------------------------------------------------------------
(* The search always ends at a line.                                       *)

LEMMA DirectIndexLine ==
    ASSUME NEW a \in Address
    PROVE  DirectIndex(a) \in Lines
<1>1. a \div 2 \in Nat
  BY SMT DEF Address
<1>. QED
  BY <1>1, Remainder DEF DirectIndex, Lines

LEMMA LastMatchIsLast ==
    ASSUME NEW a, Matches(a) # {}
    PROVE  /\ LastMatch(a) \in Matches(a)
           /\ \A j \in Matches(a) : j <= LastMatch(a)
<1>1. Matches(a) \subseteq 0 .. (CacheSize - 1)
  BY DEF Matches, Lines
<1>2. \E i \in Matches(a) : \A j \in Matches(a) : j <= i
  BY <1>1, Greatest
<1>. QED
  BY <1>2 DEF LastMatch

LEMMA LruLineIsLru ==
    ASSUME TypeOK
    PROVE  LruLine \in Lines /\ IsLru(LruLine)
<1>. DEFINE Ages == {cache[i].usage : i \in Lines}
<1>1. \A i \in Lines : cache[i].usage \in Nat
  BY DEF TypeOK, LineType
<1>2. Ages \subseteq Nat /\ Ages # {}
  <2>1. Ages \subseteq Nat
    BY <1>1
  <2>2. 0 \in Lines
    BY DEF Lines
  <2>. QED
    BY <2>1, <2>2
<1>3. PICK u \in Ages : \A v \in Ages : u <= v
  BY <1>2, Least
<1>. DEFINE Oldest == {i \in Lines : cache[i].usage = u}
<1>4. Oldest \subseteq Nat /\ Oldest # {}
  BY <1>3 DEF Lines
<1>5. PICK i \in Oldest : \A j \in Oldest : i <= j
  BY <1>4, Least
<1>6. \A j \in Lines : u < cache[j].usage \/ j \in Oldest
  BY <1>1, <1>2, <1>3
<1>7. i \in Lines /\ IsLru(i)
  BY <1>5, <1>6 DEF IsLru
<1>. QED
  BY <1>7 DEF LruLine

LEMMA IndexIsLine ==
    ASSUME TypeOK, NEW a \in Address
    PROVE  Index(a) \in Lines
  BY DirectIndexLine, LastMatchIsLast, LruLineIsLru DEF Index, Hit, Matches

(* Ageing keeps the lines typed.                                           *)
LEMMA SearchedTyped ==
    ASSUME TypeOK, NEW i \in Lines
    PROVE  Searched(i) \in [Lines -> LineType]
<1>1. \A j \in Lines : UsageAfter(i, j) \in 0 .. (CacheSize - 1)
  BY DEF TypeOK, LineType, UsageAfter
<1>. QED
  BY <1>1 DEF TypeOK, Searched, LineType
-----------------------------------------------------------------------------
(* What each operation does to the lines, apart from their ages.           *)

LEMMA WrittenBackMemory ==
    ASSUME TypeOK, NEW i \in Lines
    PROVE  WrittenBack(i) \in [Address -> Byte]
<1>1. cache[i].address \in Address /\ cache[i].data \in Word
  BY DEF TypeOK, LineType
<1>. QED
  BY <1>1, BusWriteMemory DEF WrittenBack, TypeOK

LEMMA FillTyped ==
    ASSUME TypeOK, NEW i \in Lines, NEW a \in Address, NEW w \in Word, NEW wb,
           NEW d \in BOOLEAN
    PROVE  Fill(i, a, w, wb, d) \in [Lines -> LineType]
<1>1. Searched(i) \in [Lines -> LineType]
  BY SearchedTyped
<1>2. Narrow(w, wb) \in Word
  BY NarrowWord
<1>. QED
  BY <1>1, <1>2 DEF Fill, LineType

(* Types are kept by every operation, whatever its address.                *)
LEMMA ReadTyped ==
    ASSUME TypeOK, NEW a \in Address, NEW wb, Read(a, wb)
    PROVE  TypeOK'
<1>. DEFINE i == Index(a)
<1>1. i \in Lines
  BY IndexIsLine
<1>2. Searched(i) \in [Lines -> LineType] /\ cache[i].data \in Word
  BY <1>1, SearchedTyped DEF TypeOK, LineType
<1>3. CASE ReadHit(a, wb)
  BY <1>1, <1>2, <1>3, NarrowWord DEF ReadHit, TypeOK
<1>4. CASE ReadMiss(a, wb)
  <2>1. mem' \in [Address -> Byte]
    BY <1>1, <1>4, WrittenBackMemory DEF ReadMiss
  <2>2. mbr' \in Word
    BY <1>1, <1>4, <2>1, BusReadWord DEF ReadMiss
  <2>3. cache' \in [Lines -> LineType]
    BY <1>1, <1>2, <1>4, <2>2 DEF ReadMiss, LineType
  <2>. QED
    BY <1>1, <1>4, <2>1, <2>2, <2>3 DEF ReadMiss, TypeOK
<1>. QED
  BY <1>3, <1>4 DEF Read

LEMMA WriteTyped ==
    ASSUME TypeOK, NEW a \in Address, NEW wb, NEW w \in Word, Write(a, w, wb)
    PROVE  TypeOK'
<1>. DEFINE i == Index(a)
<1>1. i \in Lines
  BY IndexIsLine
<1>2. cache[i].dirty \in BOOLEAN
  BY <1>1 DEF TypeOK, LineType
<1>3. CASE WriteBackPolicy(a, w, wb)
  <2>1. mem' \in [Address -> Byte]
    BY <1>1, <1>3, WrittenBackMemory DEF WriteBackPolicy, TypeOK
  <2>. QED
    BY <1>1, <1>3, <2>1, FillTyped DEF WriteBackPolicy, TypeOK
<1>4. CASE WriteThroughPolicy(a, w, wb)
  <2>1. mem' \in [Address -> Byte]
    BY <1>1, <1>4, BusWriteMemory DEF WriteThroughPolicy, TypeOK
  <2>. QED
    BY <1>1, <1>2, <1>4, <2>1, FillTyped DEF WriteThroughPolicy, TypeOK
<1>. QED
  BY <1>3, <1>4 DEF Write

LEMMA ReconfigureTyped ==
    ASSUME TypeOK, NEW org, NEW pol, Reconfigure(org, pol)
    PROVE  TypeOK'
<1>1. EmptyLine \in LineType
  BY DEF EmptyLine, ZeroWord, LineType, Word, Address
<1>. QED
  BY <1>1 DEF Reconfigure, Accepted, TypeOK

LEMMA TypeInvariant == TypeOK /\ [Next]_vars => TypeOK'
<1>. SUFFICES ASSUME TypeOK, [Next]_vars
              PROVE  TypeOK'
  OBVIOUS
<1>1. ASSUME NEW x \in Access, Read(x[1], x[2])
      PROVE  TypeOK'
  BY <1>1, ReadTyped
<1>2. ASSUME NEW x \in Access, NEW w \in Data, Write(x[1], w, x[2])
      PROVE  TypeOK'
  BY <1>2, WriteTyped
<1>3. ASSUME NEW s \in Settings, Reconfigure(s[1], s[2])
      PROVE  TypeOK'
  BY <1>3, ReconfigureTyped
<1>4. CASE UNCHANGED vars
  BY <1>4 DEF vars, TypeOK, LineType
<1>. QED
  BY <1>1, <1>2, <1>3, <1>4 DEF Next

LEMMA InitTyped == Init => TypeOK
<1>1. EmptyLine \in LineType /\ ZeroWord \in Word /\ 0 \in Address
  BY DEF EmptyLine, ZeroWord, LineType, Word, Address
<1>. QED
  BY <1>1 DEF Init, TypeOK, Organizations, Policies

(* The state of the cache is well typed in every behaviour.                *)
THEOREM TypeCorrect == Spec => []TypeOK
  BY InitTyped, TypeInvariant, PTL DEF Spec
-----------------------------------------------------------------------------
(* A line in terms of its fields before the step.                          *)

LEMMA SearchedLine ==
    ASSUME TypeOK, NEW i \in Lines, NEW j \in Lines
    PROVE  /\ Searched(i)[j].address = cache[j].address
           /\ Searched(i)[j].data = cache[j].data
           /\ Searched(i)[j].dirty = cache[j].dirty
           /\ Searched(i)[j].usage = IF Direct THEN cache[j].usage
                                             ELSE UsageAfter(i, j)
  BY DEF Searched, TypeOK, LineType

LEMMA FilledLine ==
    ASSUME TypeOK, NEW i \in Lines, NEW a, NEW w, NEW wb, NEW d
    PROVE  /\ Fill(i, a, w, wb, d)[i].address = a
           /\ Fill(i, a, w, wb, d)[i].data = Narrow(w, wb)
           /\ Fill(i, a, w, wb, d)[i].dirty = d
           /\ Fill(i, a, w, wb, d)[i].usage = Searched(i)[i].usage
           /\ \A j \in Lines \ {i} : Fill(i, a, w, wb, d)[j] = Searched(i)[j]
<1>1. Searched(i) \in [Lines -> LineType]
  BY SearchedTyped
<1>. QED
  BY <1>1 DEF Fill, LineType

(* A read fills the line it ends at as a write does, on a miss.            *)
LEMMA ReadMissFills ==
    ASSUME TypeOK, NEW a \in Address, NEW wb \in Width, ReadMiss(a, wb)
    PROVE  LET i == Index(a)
           IN  /\ cache'[i].address = a
               /\ cache'[i].data = mbr'
               /\ cache'[i].dirty = FALSE
               /\ cache'[i].usage = Searched(i)[i].usage
               /\ \A j \in Lines \ {i} : cache'[j] = Searched(i)[j]
<1>1. Index(a) \in Lines /\ Searched(Index(a)) \in [Lines -> LineType]
  BY IndexIsLine, SearchedTyped
<1>. QED
  BY <1>1 DEF ReadMiss, LineType
-----------------------------------------------------------------------------
(* Write-through never leaves a dirty line.                                *)

LEMMA ReadClean ==
    ASSUME TypeOK, WriteThroughClean, NEW a \in Address, NEW wb \in Width, Read(a, wb)
    PROVE  WriteThroughClean'
<1>. SUFFICES ASSUME ~WriteBack', NEW j \in Lines
              PROVE  ~cache'[j].dirty
  BY DEF WriteThroughClean
<1>1. Index(a) \in Lines
  BY IndexIsLine
<1>2. ~WriteBack
  BY DEF Read, ReadHit, ReadMiss, WriteBack
<1>3. ~Searched(Index(a))[j].dirty
  BY <1>1, <1>2, SearchedLine DEF WriteThroughClean
<1>4. CASE ReadHit(a, wb)
  BY <1>3, <1>4 DEF ReadHit
<1>5. CASE ReadMiss(a, wb)
  BY <1>1, <1>3, <1>5, ReadMissFills
<1>. QED
  BY <1>4, <1>5 DEF Read

LEMMA WriteClean ==
    ASSUME TypeOK, WriteThroughClean, NEW a \in Address, NEW w, NEW wb, Write(a, w, wb)
    PROVE  WriteThroughClean'
<1>. SUFFICES ASSUME ~WriteBack', NEW j \in Lines
              PROVE  ~cache'[j].dirty
  BY DEF WriteThroughClean
<1>. DEFINE i == Index(a)
<1>1. i \in Lines
  BY IndexIsLine
<1>2. ~WriteBack /\ WriteThroughPolicy(a, w, wb)
  BY DEF Write, WriteBackPolicy, WriteThroughPolicy, WriteBack
<1>3. cache' = Fill(i, a, w, wb, cache[i].dirty)
  BY <1>2 DEF WriteThroughPolicy
<1>4. ~cache[i].dirty /\ ~Searched(i)[j].dirty
  BY <1>1, <1>2, SearchedLine DEF WriteThroughClean
<1>. QED
  BY <1>1, <1>3, <1>4, FilledLine

LEMMA CleanInvariant ==
    TypeOK /\ WriteThroughClean /\ [Next]_vars => WriteThroughClean'
<1>. SUFFICES ASSUME TypeOK, WriteThroughClean, [Next]_vars
              PROVE  WriteThroughClean'
  OBVIOUS
<1>1. ASSUME NEW x \in Access, Read(x[1], x[2])
      PROVE  WriteThroughClean'
  BY <1>1, ReadClean
<1>2. ASSUME NEW x \in Access, NEW w \in Data, Write(x[1], w, x[2])
      PROVE  WriteThroughClean'
  BY <1>2, WriteClean
<1>3. ASSUME NEW s \in Settings, Reconfigure(s[1], s[2])
      PROVE  WriteThroughClean'
  BY <1>3 DEF Reconfigure, EmptyLine, WriteThroughClean
<1>4. CASE UNCHANGED vars
  BY <1>4 DEF vars, WriteThroughClean, WriteBack
<1>. QED
  BY <1>1, <1>2, <1>3, <1>4 DEF Next

(* No line is dirty while the policy is write-through, whatever the user   *)
(* and the program did before.                                             *)
THEOREM WriteThroughCleanCorrect == Spec => []WriteThroughClean
<1>1. Init => WriteThroughClean
  BY DEF Init, WriteThroughClean, WriteBack
<1>. QED
  BY <1>1, CleanInvariant, TypeCorrect, PTL DEF Spec
-----------------------------------------------------------------------------
(* One line per address in the associative cache.                          *)

(* Where an associative search ends: at the last of the matching lines, or *)
(* at a line that takes an address no other line has.                      *)
LEMMA AssociativeIndex ==
    ASSUME TypeOK, ~Direct, NEW a \in Address,
           NEW k \in Lines, cache[k].address = a
    PROVE  Hit(a) /\ k <= Index(a) /\ cache[Index(a)].address = a
<1>1. k \in Matches(a)
  BY DEF Matches
<1>. QED
  BY <1>1, LastMatchIsLast DEF Hit, Index, Matches

(* An empty line the step does not end at stays empty.                     *)
LEMMA EmptyStaysEmpty ==
    ASSUME TypeOK, ~Direct, NEW i \in Lines, NEW j \in Lines, i # j,
           cache[j] = EmptyLine
    PROVE  Searched(i)[j] = EmptyLine
<1>1. UsageAfter(i, j) = 0
  BY DEF UsageAfter, EmptyLine
<1>. QED
  BY <1>1 DEF Searched, EmptyLine

(* What a read or a write of address a makes of the lines: the line it     *)
(* ends at has address a, the others only age.                             *)
Accessed(a) ==
    /\ cache'[Index(a)].address = a
    /\ \A j \in Lines \ {Index(a)} : cache'[j] = Searched(Index(a))[j]
    /\ UNCHANGED organization_method

LEMMA ReadAccesses ==
    ASSUME TypeOK, NEW a \in Address, NEW wb \in Width, Read(a, wb)
    PROVE  Accessed(a)
<1>1. Index(a) \in Lines
  BY IndexIsLine
<1>2. CASE ReadHit(a, wb)
  <2>1. cache[Index(a)].address = a
    BY <1>2, AssociativeIndex DEF ReadHit, Hit, Index, Matches
  <2>. QED
    BY <1>1, <1>2, <2>1, SearchedLine DEF ReadHit, Accessed
<1>3. CASE ReadMiss(a, wb)
  BY <1>1, <1>3, ReadMissFills DEF ReadMiss, Accessed
<1>. QED
  BY <1>2, <1>3 DEF Read

LEMMA WriteAccesses ==
    ASSUME TypeOK, NEW a \in Address, NEW w, NEW wb \in Width, Write(a, w, wb)
    PROVE  Accessed(a)
<1>1. Index(a) \in Lines
  BY IndexIsLine
<1>2. PICK d : cache' = Fill(Index(a), a, w, wb, d)
  BY DEF Write, WriteBackPolicy, WriteThroughPolicy
<1>3. UNCHANGED organization_method
  BY DEF Write, WriteBackPolicy, WriteThroughPolicy
<1>. QED
  BY <1>1, <1>2, <1>3, FilledLine DEF Accessed

LEMMA AccessKeepsSingleCopy ==
    ASSUME TypeOK, SingleCopy, NEW a \in Address, Accessed(a)
    PROVE  SingleCopy'
<1>. SUFFICES ASSUME ~Direct', NEW j \in Lines, NEW k \in Lines, j < k,
                     cache'[j].address = cache'[k].address
              PROVE  cache'[j] = EmptyLine
  BY DEF SingleCopy
<1>. DEFINE i == Index(a)
<1>1. ~Direct /\ i \in Lines /\ j \in Int /\ k \in Int
  BY IndexIsLine DEF Accessed, Direct, Lines
<1>2. \A n \in Lines \ {i} : cache'[n] = Searched(i)[n]
                             /\ cache'[n].address = cache[n].address
  BY <1>1, SearchedLine DEF Accessed
<1>3. CASE j = i
  <2>1. k # i /\ cache[k].address = a
    BY <1>1, <1>2, <1>3 DEF Accessed
  <2>2. k <= i
    BY <1>1, <2>1, AssociativeIndex
  <2>. QED
    BY <1>1, <1>3, <2>2
<1>4. CASE j # i /\ k = i
  <2>1. cache[j].address = a
    BY <1>1, <1>2, <1>4 DEF Accessed
  <2>2. cache[i].address = a
    BY <1>1, <2>1, AssociativeIndex
  <2>3. cache[j] = EmptyLine
    BY <1>1, <1>4, <2>1, <2>2 DEF SingleCopy
  <2>. QED
    BY <1>1, <1>2, <1>4, <2>3, EmptyStaysEmpty
<1>5. CASE j # i /\ k # i
  <2>1. cache[j] = EmptyLine
    BY <1>1, <1>2, <1>5 DEF SingleCopy
  <2>. QED
    BY <1>1, <1>2, <1>5, <2>1, EmptyStaysEmpty
<1>. QED
  BY <1>3, <1>4, <1>5

LEMMA SingleCopyInvariant == TypeOK /\ SingleCopy /\ [Next]_vars => SingleCopy'
<1>. SUFFICES ASSUME TypeOK, SingleCopy, [Next]_vars
              PROVE  SingleCopy'
  OBVIOUS
<1>1. ASSUME NEW x \in Access, Read(x[1], x[2])
      PROVE  SingleCopy'
  BY <1>1, ReadAccesses, AccessKeepsSingleCopy
<1>2. ASSUME NEW x \in Access, NEW w \in Data, Write(x[1], w, x[2])
      PROVE  SingleCopy'
  BY <1>2, WriteAccesses, AccessKeepsSingleCopy
<1>3. ASSUME NEW s \in Settings, Reconfigure(s[1], s[2])
      PROVE  SingleCopy'
  BY <1>3 DEF Reconfigure, SingleCopy
<1>4. CASE UNCHANGED vars
  BY <1>4 DEF vars, SingleCopy, Direct
<1>. QED
  BY <1>1, <1>2, <1>3, <1>4 DEF Next

(* Two lines of the associative cache have the same address only if the    *)
(* lower one was never filled, so taking the last match is right.          *)
THEOREM SingleCopyCorrect == Spec => []SingleCopy
<1>1. Init => SingleCopy
  BY DEF Init, SingleCopy
<1>. QED
  BY <1>1, SingleCopyInvariant, TypeCorrect, PTL DEF Spec
-----------------------------------------------------------------------------
(* Ages.                                                                   *)

LEMMA AccessedUsage ==
    ASSUME TypeOK, NEW a \in Address, NEW wb \in Width, NEW w, NEW j \in Lines,
           Read(a, wb) \/ Write(a, w, wb)
    PROVE  cache'[j].usage = Searched(Index(a))[j].usage
<1>. DEFINE i == Index(a)
<1>1. i \in Lines
  BY IndexIsLine
<1>2. CASE ReadHit(a, wb)
  BY <1>2 DEF ReadHit
<1>3. CASE ReadMiss(a, wb)
  <2>1. /\ cache'[i].usage = Searched(i)[i].usage
        /\ \A k \in Lines \ {i} : cache'[k] = Searched(i)[k]
    BY <1>3, ReadMissFills
  <2>. QED
    BY <1>1, <2>1
<1>4. CASE Write(a, w, wb)
  <2>1. PICK d : cache' = Fill(i, a, w, wb, d)
    BY <1>4 DEF Write, WriteBackPolicy, WriteThroughPolicy
  <2>. QED
    BY <1>1, <2>1, FilledLine
<1>. QED
  BY <1>2, <1>3, <1>4 DEF Read

LEMMA AgeingKeepsDistinct ==
    ASSUME TypeOK, UsageDistinct, NEW a \in Address, Accessed(a),
           \A j \in Lines : cache'[j].usage = Searched(Index(a))[j].usage
    PROVE  UsageDistinct'
<1>. SUFFICES ASSUME ~Direct', NEW j \in Lines, NEW k \in Lines, j # k,
                     cache'[j].usage = cache'[k].usage
              PROVE  cache'[j].usage = 0
  BY DEF UsageDistinct
<1>. DEFINE i == Index(a)
<1>1. ~Direct /\ i \in Lines
  BY IndexIsLine DEF Accessed, Direct
<1>2. \A n \in Lines : cache[n].usage \in 0 .. (CacheSize - 1)
  BY DEF TypeOK, LineType
<1>3. \A n \in Lines : cache'[n].usage = UsageAfter(i, n)
  BY <1>1, SearchedLine
<1>4. cache[j].usage = cache[k].usage => cache[j].usage = 0
  BY <1>1 DEF UsageDistinct
<1>5. UsageAfter(i, j) = UsageAfter(i, k) /\ CacheSize - 1 \in Nat
  BY <1>3
<1>. QED
  BY <1>2, <1>3, <1>4, <1>5 DEF UsageAfter

LEMMA UsageDistinctInvariant ==
    TypeOK /\ UsageDistinct /\ [Next]_vars => UsageDistinct'
<1>. SUFFICES ASSUME TypeOK, UsageDistinct, [Next]_vars
              PROVE  UsageDistinct'
  OBVIOUS
<1>1. ASSUME NEW x \in Access, Read(x[1], x[2])
      PROVE  UsageDistinct'
  BY <1>1, ReadAccesses, AccessedUsage, AgeingKeepsDistinct
<1>2. ASSUME NEW x \in Access, NEW w \in Data, Write(x[1], w, x[2])
      PROVE  UsageDistinct'
  BY <1>2, WriteAccesses, AccessedUsage, AgeingKeepsDistinct
<1>3. ASSUME NEW s \in Settings, Reconfigure(s[1], s[2])
      PROVE  UsageDistinct'
  BY <1>3 DEF Reconfigure, UsageDistinct, EmptyLine
<1>4. CASE UNCHANGED vars
  BY <1>4 DEF vars, UsageDistinct, Direct
<1>. QED
  BY <1>1, <1>2, <1>3, <1>4 DEF Next

(* Two associative lines of the same age are both of age 0.                *)
THEOREM UsageDistinctCorrect == Spec => []UsageDistinct
<1>1. Init => UsageDistinct
  BY DEF Init, UsageDistinct, EmptyLine
<1>. QED
  BY <1>1, UsageDistinctInvariant, TypeCorrect, PTL DEF Spec

(* Distinct ages above 0 do not suffice for all lines, so some line is of  *)
(* age 0, and the line cache_find_lru_associative takes is one of them.    *)
LEMMA VictimIdleFollows == TypeOK /\ UsageDistinct => VictimIdle
<1>. SUFFICES ASSUME TypeOK, UsageDistinct, ~Direct, cache[LruLine].usage # 0
              PROVE  FALSE
  BY DEF VictimIdle
<1>. DEFINE Older == 1 .. (CacheSize - 1)
            age == [j \in Lines |-> cache[j].usage]
<1>1. \A j \in Lines : cache[j].usage \in 0 .. (CacheSize - 1)
  BY DEF TypeOK, LineType
<1>2. \A j \in Lines : cache[j].usage \in Older
  BY <1>1, LruLineIsLru DEF IsLru
<1>3. IsFiniteSet(Lines) /\ Cardinality(Lines) = CacheSize
  BY FS_Interval DEF Lines
<1>4. IsFiniteSet(Older) /\ Cardinality(Older) = CacheSize - 1
  BY FS_Interval
<1>5. PICK j \in Lines, k \in Lines : j # k /\ age[j] = age[k]
  <2>1. age \in [Lines -> Older]
    BY <1>2
  <2>2. Cardinality(Older) < Cardinality(Lines)
    BY <1>3, <1>4
  <2>. HIDE DEF age, Older
  <2>. QED
    BY <1>3, <1>4, <2>1, <2>2, FS_PigeonHole
<1>6. cache[j].usage = cache[k].usage
  BY <1>5
<1>. QED
  BY <1>2, <1>5, <1>6 DEF UsageDistinct

(* The line replaced was used by none of the last CacheSize - 1 accesses.  *)
THEOREM VictimIdleCorrect == Spec => []VictimIdle
  BY TypeCorrect, UsageDistinctCorrect, VictimIdleFollows, PTL
-----------------------------------------------------------------------------
(* The history of line uses.                                               *)

LEMMA UsedKeepsAgreement ==
    ASSUME TypeOK, UsageAgreesWithHistory, NEW a \in Address, Accessed(a),
           \A j \in Lines : cache'[j].usage = Searched(Index(a))[j].usage,
           later' = Used(Index(a))
    PROVE  UsageAgreesWithHistory'
<1>. SUFFICES ASSUME ~Direct', NEW j \in Lines, NEW k \in Lines,
                     cache'[j].usage > cache'[k].usage
              PROVE  <<j, k>> \in later'
  BY DEF UsageAgreesWithHistory
<1>. DEFINE i == Index(a)
<1>1. ~Direct /\ i \in Lines
  BY IndexIsLine DEF Accessed, Direct
<1>2. \A n \in Lines : cache[n].usage \in 0 .. (CacheSize - 1)
  BY DEF TypeOK, LineType
<1>3. \A n \in Lines : cache'[n].usage = UsageAfter(i, n)
  BY <1>1, SearchedLine
<1>4. k # i
  BY <1>1, <1>2, <1>3 DEF UsageAfter
<1>5. CASE j = i
  BY <1>4, <1>5 DEF Used
<1>6. CASE j # i
  <2>1. cache[j].usage > cache[k].usage
    BY <1>2, <1>3, <1>4, <1>6 DEF UsageAfter
  <2>2. <<j, k>> \in later
    BY <1>1, <2>1 DEF UsageAgreesWithHistory
  <2>. QED
    BY <1>4, <2>2 DEF Used
<1>. QED
  BY <1>5, <1>6

LEMMA AgreementInvariant ==
    TypeOK /\ UsageAgreesWithHistory /\ [RNext]_rvars => UsageAgreesWithHistory'
<1>. SUFFICES ASSUME TypeOK, UsageAgreesWithHistory, [RNext]_rvars
              PROVE  UsageAgreesWithHistory'
  OBVIOUS
<1>1. ASSUME NEW x \in Access, Access1(x), later' = Used(Index(x[1]))
      PROVE  UsageAgreesWithHistory'
  <2>1. x[1] \in Address /\ x[2] \in Width
    OBVIOUS
  <2>2. CASE Read(x[1], x[2])
    BY <1>1, <2>1, <2>2, ReadAccesses, AccessedUsage, UsedKeepsAgreement
  <2>3. CASE \E w \in Data : Write(x[1], w, x[2])
    BY <1>1, <2>1, <2>3, WriteAccesses, AccessedUsage, UsedKeepsAgreement
  <2>. QED
    BY <1>1, <2>2, <2>3 DEF Access1
<1>2. ASSUME NEW s \in Settings, Reconfigure(s[1], s[2])
      PROVE  UsageAgreesWithHistory'
  BY <1>2 DEF Reconfigure, UsageAgreesWithHistory, EmptyLine
<1>3. CASE UNCHANGED rvars
  BY <1>3 DEF rvars, UsageAgreesWithHistory, Direct
<1>. QED
  BY <1>1, <1>2, <1>3 DEF RNext

LEMMA HistoryFollowsCache == RSpec => Spec
<1>1. RInit => Init
  BY DEF RInit
<1>2. [RNext]_rvars => [Next]_vars
  BY DEF RNext, rvars, Access1, Next, vars
<1>. QED
  BY <1>1, <1>2, PTL DEF RSpec, Spec

(* The ages never contradict the order in which the lines were last used.  *)
THEOREM UsageAgreesWithHistoryCorrect == RSpec => []UsageAgreesWithHistory
<1>1. RInit => UsageAgreesWithHistory
  BY DEF RInit, Init, Direct, UsageAgreesWithHistory
<1>. QED
  BY <1>1, AgreementInvariant, HistoryFollowsCache, TypeCorrect, PTL DEF RSpec
-----------------------------------------------------------------------------
(* Hits.                                                                   *)

(* An access to another address that leaves a hit of address c a hit has   *)
(* left the line it is served from alone.                                  *)
LEMMA ElsewhereKeepsIndex ==
    ASSUME TypeOK, SingleCopy, NEW a \in Address, NEW c \in Address, a # c,
           Accessed(a), Hit(c), Hit(c)'
    PROVE  Index(c)' = Index(c) /\ Index(c) # Index(a)
<1>. DEFINE i == Index(a)
<1>1. /\ i \in Lines /\ Index(c) \in Lines
      /\ Direct' = Direct /\ cache'[i].address = a
  BY IndexIsLine DEF Accessed, Direct
<1>2. \A n \in Lines \ {i} : cache'[n].address = cache[n].address
  BY <1>1, SearchedLine DEF Accessed
<1>3. CASE Direct
  <2>1. Index(c)' = DirectIndex(c) /\ Index(c) = DirectIndex(c)
    BY <1>1, <1>3 DEF Index
  <2>2. cache'[DirectIndex(c)].address = c
    BY <1>1, <1>3 DEF Hit
  <2>. QED
    BY <1>1, <2>1, <2>2
<1>4. CASE ~Direct
  <2>1. /\ Index(c) = LastMatch(c) /\ Index(c)' = LastMatch(c)'
        /\ Matches(c) # {} /\ Matches(c)' # {}
    BY <1>1, <1>4 DEF Index, Hit
  <2>2. Matches(c)' = Matches(c) \ {i}
    BY <1>1, <1>2 DEF Matches
  <2>3. /\ LastMatch(c) \in Matches(c)
        /\ \A n \in Matches(c) : n <= LastMatch(c)
    BY <2>1, LastMatchIsLast
  <2>4. LastMatch(c) # i
    <3>. SUFFICES ASSUME LastMatch(c) = i PROVE FALSE
      OBVIOUS
    <3>1. cache[i].address = c
      BY <2>3 DEF Matches
    <3>2. ~Hit(a) /\ i = LruLine
      BY <1>1, <1>4, <3>1, LastMatchIsLast DEF Index, Hit, Matches
    <3>3. PICK n \in Matches(c) : n # i
      BY <2>1, <2>2
    <3>4. n \in Lines /\ n < i /\ cache[n].address = c
      BY <1>1, <2>3, <3>3 DEF Matches, Lines
    <3>5. cache[n].usage = 0
      BY <1>1, <1>4, <3>1, <3>4 DEF SingleCopy, EmptyLine
    <3>6. IsLru(i)
      BY <3>2, LruLineIsLru
    <3>7. cache[i].usage \in Nat
      BY <1>1 DEF TypeOK, LineType
    <3>. QED
      BY <1>1, <3>4, <3>5, <3>6, <3>7 DEF IsLru, Lines
  <2>5. LastMatch(c)' = LastMatch(c)
    <3>1. LastMatch(c) \in Matches(c)' /\ \A n \in Matches(c)' : n <= LastMatch(c)
      BY <2>2, <2>3, <2>4
    <3>2. \A m \in Matches(c)' : (\A n \in Matches(c)' : n <= m) => m = LastMatch(c)
      BY <3>1, <2>2 DEF Matches, Lines
    <3>3. LastMatch(c)' = CHOOSE m \in Matches(c)' : \A n \in Matches(c)' : n <= m
      BY DEF LastMatch
    <3>. QED
      BY <3>1, <3>2, <3>3
  <2>. QED
    BY <2>1, <2>4, <2>5
<1>. QED
  BY <1>3, <1>4

LEMMA ElsewhereKeepsResident ==
    ASSUME TypeOK, SingleCopy, NEW a \in Address, NEW c \in Address, a # c,
           Accessed(a), Hit(c), Hit(c)'
    PROVE  Resident(c)' = Resident(c)
<1>1. Index(c)' = Index(c) /\ Index(c) # Index(a)
  BY ElsewhereKeepsIndex
<1>2. Index(a) \in Lines /\ Index(c) \in Lines
  BY IndexIsLine
<1>3. cache'[Index(c)].data = cache[Index(c)].data
  BY <1>1, <1>2, SearchedLine DEF Accessed
<1>. QED
  BY <1>1, <1>3 DEF Resident

(* A hit changes no address, so that the next search ends where it did.    *)
LEMMA HitKeepsResident ==
    ASSUME TypeOK, NEW a \in Address, NEW wb, ReadHit(a, wb)
    PROVE  Resident(a)' = Resident(a)
<1>1. Index(a) \in Lines /\ Direct' = Direct
  BY IndexIsLine DEF ReadHit, Direct
<1>2. \A n \in Lines : /\ cache'[n].address = cache[n].address
                       /\ cache'[n].data = cache[n].data
  BY <1>1, SearchedLine DEF ReadHit
<1>3. Matches(a)' = Matches(a)
  BY <1>2 DEF Matches
<1>4. LastMatch(a)' = LastMatch(a)
  BY <1>3 DEF LastMatch
<1>5. Hit(a) /\ Hit(a)'
  BY <1>1, <1>2, <1>3, DirectIndexLine DEF ReadHit, Hit
<1>6. Index(a)' = Index(a)
  BY <1>1, <1>4, <1>5 DEF Index
<1>. QED
  BY <1>1, <1>2, <1>6 DEF Resident

LEMMA ResidentStep ==
    ASSUME TypeOK, SingleCopy, [Next]_vars, NEW c \in Address, Hit(c), Hit(c)',
           ~\E w \in Data, wb \in Width : Write(c, w, wb),
           organization_method' = organization_method,
           replacement_policy' = replacement_policy
    PROVE  Resident(c)' = Resident(c)
<1>1. ASSUME NEW x \in Access, Read(x[1], x[2])
      PROVE  Resident(c)' = Resident(c)
  <2>1. x[1] \in Address /\ x[2] \in Width
    OBVIOUS
  <2>2. CASE x[1] = c
    BY <1>1, <2>1, <2>2, HitKeepsResident DEF Read, ReadMiss
  <2>3. CASE x[1] # c
    BY <1>1, <2>1, <2>3, ReadAccesses, ElsewhereKeepsResident
  <2>. QED
    BY <2>2, <2>3
<1>2. ASSUME NEW x \in Access, NEW w \in Data, Write(x[1], w, x[2])
      PROVE  Resident(c)' = Resident(c)
  <2>1. x[1] \in Address /\ x[2] \in Width /\ x[1] # c
    BY <1>2
  <2>. QED
    BY <1>2, <2>1, WriteAccesses, ElsewhereKeepsResident
<1>3. ASSUME NEW s \in Settings, Reconfigure(s[1], s[2])
      PROVE  FALSE
  BY <1>3 DEF Reconfigure
<1>4. CASE UNCHANGED vars
  BY <1>4 DEF vars, Resident, Index, Hit, Direct, LastMatch, Matches, LruLine, IsLru
<1>. QED
  BY <1>1, <1>2, <1>3, <1>4 DEF Next

(* As long as an address keeps hitting, only a store to it changes what    *)
(* the hit returns, words and bytes, odd addresses and address 0 included. *)
THEOREM ResidentCopyStableCorrect == Spec => ResidentCopyStable
<1>1. TypeOK /\ SingleCopy /\ [Next]_vars =>
        [\A a \in Address :
              \/ ~Hit(a) \/ ~Hit(a)' \/ Resident(a)' = Resident(a)
              \/ \E w \in Data, wb \in Width : Write(a, w, wb)
              \/ organization_method' # organization_method
              \/ replacement_policy' # replacement_policy]_vars
  BY ResidentStep
<1>. QED
  BY <1>1, TypeCorrect, SingleCopyCorrect, PTL DEF Spec, ResidentCopyStable
-----------------------------------------------------------------------------
(* Bytes of memory no access covers.                                       *)

(* Programs of words, at odd addresses and at address 0 too.               *)
WordsOnly == \A x \in Access : x[2] = "WORD"

DirtyAccessed ==
    \A i \in Lines : cache[i].dirty => \E x \in Access : cache[i].address = x[1]

LEMMA DirtyAccessedInvariant ==
    TypeOK /\ DirtyAccessed /\ [Next]_vars => DirtyAccessed'
<1>. SUFFICES ASSUME TypeOK, DirtyAccessed, [Next]_vars,
                     NEW j \in Lines, cache'[j].dirty
              PROVE  \E x \in Access : cache'[j].address = x[1]
  BY DEF DirtyAccessed
<1>1. ASSUME NEW x \in Access, Accessed(x[1])
      PROVE  \E y \in Access : cache'[j].address = y[1]
  <2>1. x[1] \in Address /\ Index(x[1]) \in Lines
    BY IndexIsLine
  <2>2. CASE j = Index(x[1])
    BY <1>1, <2>2 DEF Accessed
  <2>3. CASE j # Index(x[1])
    <3>1. cache'[j] = Searched(Index(x[1]))[j]
      BY <1>1, <2>3 DEF Accessed
    <3>2. /\ Searched(Index(x[1]))[j].dirty = cache[j].dirty
          /\ Searched(Index(x[1]))[j].address = cache[j].address
      BY <2>1, SearchedLine
    <3>3. cache[j].dirty /\ cache'[j].address = cache[j].address
      BY <3>1, <3>2, Zenon
    <3>. QED
      BY <3>3, Zenon DEF DirtyAccessed
  <2>. QED
    BY <2>2, <2>3
<1>2. ASSUME NEW x \in Access, Read(x[1], x[2])
      PROVE  \E y \in Access : cache'[j].address = y[1]
  BY <1>1, <1>2, ReadAccesses
<1>3. ASSUME NEW x \in Access, NEW w \in Data, Write(x[1], w, x[2])
      PROVE  \E y \in Access : cache'[j].address = y[1]
  BY <1>1, <1>3, WriteAccesses
<1>4. ASSUME NEW s \in Settings, Reconfigure(s[1], s[2])
      PROVE  FALSE
  BY <1>4 DEF Reconfigure, EmptyLine
<1>5. CASE UNCHANGED vars
  BY <1>5 DEF vars, DirtyAccessed
<1>. QED
  BY <1>2, <1>3, <1>4, <1>5 DEF Next

(* A word written to an address some access covers changes no other byte.  *)
LEMMA CoveredWrite ==
    ASSUME WordsOnly, NEW x \in Access, NEW m \in [Address -> Byte], NEW w,
           NEW a \in Address \ Covered
    PROVE  BusWrite(m, x[1], w, "WORD")[a] = m[a]
<1>. DEFINE Bytes(y) == IF y[2] = "WORD" THEN {Base(y[1]), Base(y[1]) + 1} ELSE {y[1]}
<1>1. Base(x[1]) \in Covered /\ Base(x[1]) + 1 \in Covered
  <2>1. Bytes(x) = {Base(x[1]), Base(x[1]) + 1}
    BY DEF WordsOnly
  <2>2. Bytes(x) \subseteq UNION {Bytes(y) : y \in Access}
    BY Zenon
  <2>3. Covered = UNION {Bytes(y) : y \in Access}
    BY Zenon DEF Covered
  <2>. QED
    BY <2>1, <2>2, <2>3
<1>2. Base(x[1]) \in Address /\ Base(x[1]) + 1 \in Address
  BY BaseInMemory
<1>. QED
  BY <1>1, <1>2 DEF BusWrite

LEMMA WrittenBackCovered ==
    ASSUME WordsOnly, TypeOK, DirtyAccessed, NEW i \in Lines,
           NEW a \in Address \ Covered
    PROVE  WrittenBack(i)[a] = mem[a]
<1>1. CASE cache[i].dirty
  <2>1. PICK x \in Access : cache[i].address = x[1]
    BY <1>1 DEF DirtyAccessed
  <2>. QED
    BY <1>1, <2>1, CoveredWrite DEF WrittenBack, TypeOK
<1>2. CASE ~cache[i].dirty
  BY <1>2 DEF WrittenBack
<1>. QED
  BY <1>1, <1>2

LEMMA UntouchedStep ==
    ASSUME WordsOnly, TypeOK, DirtyAccessed, [Next]_vars,
           NEW a \in Address \ Covered
    PROVE  mem'[a] = mem[a]
<1>1. ASSUME NEW x \in Access, Read(x[1], x[2])
      PROVE  mem'[a] = mem[a]
  <2>1. Index(x[1]) \in Lines
    BY IndexIsLine
  <2>. QED
    BY <1>1, <2>1, WrittenBackCovered DEF Read, ReadHit, ReadMiss
<1>2. ASSUME NEW x \in Access, NEW w \in Data, Write(x[1], w, x[2])
      PROVE  mem'[a] = mem[a]
  <2>1. Index(x[1]) \in Lines /\ x[2] = "WORD"
    BY IndexIsLine DEF WordsOnly
  <2>2. BusWrite(mem, x[1], w, "WORD")[a] = mem[a]
    BY CoveredWrite DEF TypeOK
  <2>. QED
    BY <1>2, <2>1, <2>2, WrittenBackCovered
       DEF Write, WriteBackPolicy, WriteThroughPolicy
<1>3. ASSUME NEW s \in Settings, Reconfigure(s[1], s[2])
      PROVE  mem'[a] = mem[a]
  BY <1>3 DEF Reconfigure
<1>4. CASE UNCHANGED vars
  BY <1>4 DEF vars
<1>. QED
  BY <1>1, <1>2, <1>3, <1>4 DEF Next

(* A program of words never writes a byte outside its words, whatever is   *)
(* evicted when.  (One that stores bytes does: an eviction writes a word.) *)
THEOREM UntouchedBytesKeptCorrect ==
    ASSUME WordsOnly
    PROVE  Spec => UntouchedBytesKept
<1>1. Init => DirtyAccessed
  BY DEF Init, DirtyAccessed, EmptyLine
<1>2. TypeOK /\ DirtyAccessed /\ [Next]_vars =>
        [\A a \in Address \ Covered : mem'[a] = mem[a]]_vars
  BY UntouchedStep
<1>. QED
  BY <1>1, <1>2, DirtyAccessedInvariant, TypeCorrect, PTL DEF Spec, UntouchedBytesKept
=============================================================================

--------------------------- MODULE CacheStoreProofs ---------------------------
(***************************************************************************)
(* For programs of aligned words other than word 0 the cache implements    *)
(* WordStore, whatever the number of its lines, the size of memory, the    *)
(* words stored and the settings typed.  AlignedWords is a hypothesis of   *)
(* each theorem, not an assumption of the module.                          *)
(***************************************************************************)
EXTENDS CacheProofs

USE SizeAssumption, DataAssumption

(* In the direct organization a line holds an address of its own.          *)
DirectPlaced ==
    Direct => \A j \in Lines :
        cache[j].address # 0 => DirectIndex(cache[j].address) = j

Inv ==
    /\ TypeOK
    /\ WriteThroughClean
    /\ SingleCopy
    /\ DirectPlaced
    /\ CleanLinesMatch
-----------------------------------------------------------------------------
(* Words of memory.                                                        *)

LEMMA WordAddresses ==
    ASSUME AlignedWords, NEW a \in WordAddress
    PROVE  a \in Address /\ a % 2 = 0 /\ a # 0
<1>1. PICK x \in Access : a = x[1]
  BY DEF WordAddress
<1>2. x \in Address \X Width
  OBVIOUS
<1>. QED
  BY <1>1, <1>2 DEF AlignedWords

LEMMA EvenBase ==
    ASSUME NEW a \in Address, a % 2 = 0
    PROVE  Base(a) = a /\ a \in Nat /\ a + 1 \in Address
<1>1. Base(a) = a
  BY SMT DEF Base, Address
<1>2. a \in Nat
  BY DEF Address
<1>3. Base(a) + 1 \in Address
  BY BaseInMemory
<1>. QED
  BY <1>1, <1>2, <1>3

(* A word written is the word read, and no other word changes.             *)
LEMMA WordWritten ==
    ASSUME AlignedWords, NEW m \in [Address -> Byte],
           NEW a \in WordAddress, NEW w \in Word
    PROVE  /\ WordAt(BusWrite(m, a, w, "WORD"), a) = w
           /\ \A b \in WordAddress \ {a} :
                 WordAt(BusWrite(m, a, w, "WORD"), b) = WordAt(m, b)
<1>1. /\ Base(a) = a /\ a \in Nat /\ a \in Address /\ a + 1 \in Address
      /\ w = <<w[1], w[2]>>
  BY WordAddresses, EvenBase DEF Word
<1>2. BusWrite(m, a, w, "WORD") = [m EXCEPT ![a] = w[1], ![a + 1] = w[2]]
  BY <1>1 DEF BusWrite
<1>3. ASSUME NEW b \in WordAddress \ {a}
      PROVE  WordAt(BusWrite(m, a, w, "WORD"), b) = WordAt(m, b)
  <2>1. Base(b) = b /\ b \in Nat /\ b \in Address /\ b + 1 \in Address
    BY WordAddresses, EvenBase
  <2>2. a % 2 = 0 /\ b % 2 = 0 /\ a # b
    BY WordAddresses
  <2>3. b # a /\ b # a + 1 /\ b + 1 # a /\ b + 1 # a + 1
    BY <1>1, <2>1, <2>2
  <2>. QED
    BY <1>2, <2>1, <2>3 DEF WordAt
<1>4. WordAt(BusWrite(m, a, w, "WORD"), a) = w
  BY <1>1, <1>2 DEF WordAt
<1>. QED
  BY <1>3, <1>4
-----------------------------------------------------------------------------
(* Where the word of an address is.                                        *)

LEMMA HitAddress ==
    ASSUME TypeOK, NEW a \in Address, Hit(a)
    PROVE  Index(a) \in Lines /\ cache[Index(a)].address = a
  BY IndexIsLine, LastMatchIsLast DEF Hit, Index, Matches

(* The line that holds an address other than 0 is the one the search finds.*)
LEMMA Located ==
    ASSUME TypeOK, SingleCopy, DirectPlaced,
           NEW a \in Address \ {0}, NEW j \in Lines, cache[j].address = a
    PROVE  Hit(a) /\ Index(a) = j
<1>1. CASE Direct
  BY <1>1 DEF DirectPlaced, Hit, Index
<1>2. CASE ~Direct
  <2>1. Hit(a) /\ j <= Index(a) /\ cache[Index(a)].address = a
    BY <1>2, AssociativeIndex
  <2>2. Index(a) \in Lines
    BY IndexIsLine
  <2>3. cache[j] # EmptyLine
    BY DEF EmptyLine
  <2>4. ~(j < Index(a))
    BY <1>2, <2>1, <2>2, <2>3 DEF SingleCopy
  <2>. QED
    BY <2>1, <2>2, <2>4 DEF Lines
<1>. QED
  BY <1>1, <1>2

LEMMA VisibleWhere ==
    AlignedWords /\ Inv =>
        \A b \in WordAddress :
            /\ \A j \in Lines : cache[j].address = b => Visible(b) = cache[j].data
            /\ (\A j \in Lines : cache[j].address # b) => Visible(b) = WordAt(mem, b)
<1>. SUFFICES ASSUME AlignedWords, Inv, NEW b \in WordAddress
              PROVE  /\ \A j \in Lines : cache[j].address = b => Visible(b) = cache[j].data
                     /\ (\A j \in Lines : cache[j].address # b) =>
                            Visible(b) = WordAt(mem, b)
  OBVIOUS
<1>1. b \in Address \ {0}
  BY WordAddresses
<1>2. ASSUME NEW j \in Lines, cache[j].address = b
      PROVE  Visible(b) = cache[j].data
  BY <1>1, <1>2, Located DEF Inv, Visible, Resident
<1>3. ASSUME \A j \in Lines : cache[j].address # b
      PROVE  Visible(b) = WordAt(mem, b)
  BY <1>1, <1>3, HitAddress DEF Inv, Visible
<1>. QED
  BY <1>2, <1>3
-----------------------------------------------------------------------------
(* What a load or store of the word at a does, v being the word exchanged: *)
(* the line it ends at gets the word, memory receives the word the line    *)
(* held before or that of a, and nothing else.                             *)

Served(a, v) ==
    /\ Accessed(a)
    /\ cache'[Index(a)].data = v
    /\ mbr' = v
    /\ WordAt(mem', a) \in {WordAt(mem, a), v}
    /\ ~cache'[Index(a)].dirty => WordAt(mem', a) = v
    /\ \A b \in WordAddress \ {a} :
          WordAt(mem', b) = IF cache[Index(a)].address = b
                            THEN cache[Index(a)].data ELSE WordAt(mem, b)

(* The line's word gets to memory when the line is given up.               *)
LEMMA VictimSaved ==
    ASSUME AlignedWords, Inv, NEW i \in Lines, NEW b \in WordAddress
    PROVE  WordAt(WrittenBack(i), b) =
               IF cache[i].address = b THEN cache[i].data ELSE WordAt(mem, b)
<1>1. /\ mem \in [Address -> Byte] /\ cache[i].data \in Word
      /\ cache[i] = EmptyLine \/ cache[i].address \in WordAddress
  BY DEF Inv, TypeOK, LineType, CleanLinesMatch
<1>2. CASE cache[i].dirty
  <2>1. cache[i].address \in WordAddress
    BY <1>1, <1>2 DEF EmptyLine
  <2>. QED
    BY <1>1, <1>2, <2>1, WordWritten DEF WrittenBack
<1>3. CASE ~cache[i].dirty
  <2>1. cache[i].address = b => cache[i].data = WordAt(mem, b)
    BY <1>3, WordAddresses DEF Inv, CleanLinesMatch, EmptyLine
  <2>. QED
    BY <1>3, <2>1 DEF WrittenBack
<1>. QED
  BY <1>2, <1>3

LEMMA MissElsewhere ==
    ASSUME Inv, AlignedWords, NEW a \in WordAddress, ~Hit(a)
    PROVE  cache[Index(a)].address # a
<1>1. a \in Address \ {0} /\ Index(a) \in Lines
  BY WordAddresses, IndexIsLine DEF Inv
<1>. QED
  BY <1>1, Located DEF Inv

LEMMA ReadServed ==
    ASSUME AlignedWords, Inv, NEW a \in WordAddress, Read(a, "WORD")
    PROVE  Served(a, Visible(a))
<1>. DEFINE i == Index(a)
<1>1. a \in Address /\ i \in Lines /\ TypeOK /\ "WORD" \in Width
  BY WordAddresses, IndexIsLine DEF Inv, Width
<1>2. Accessed(a)
  BY <1>1, ReadAccesses
<1>3. CASE ReadHit(a, "WORD")
  <2>1. /\ mem' = mem /\ mbr' = cache[i].data /\ cache[i].address = a
        /\ cache'[i].data = cache[i].data /\ cache'[i].dirty = cache[i].dirty
    BY <1>1, <1>3, SearchedLine, HitAddress DEF ReadHit, Narrow
  <2>2. Visible(a) = cache[i].data
    BY <1>3 DEF ReadHit, Visible, Resident
  <2>3. ~cache[i].dirty => cache[i].data = WordAt(mem, a)
    BY <1>1, <2>1, WordAddresses DEF Inv, CleanLinesMatch, EmptyLine
  <2>. QED
    BY <1>2, <2>1, <2>2, <2>3 DEF Served
<1>4. CASE ReadMiss(a, "WORD")
  <2>1. mem' = WrittenBack(i) /\ mbr' = WordAt(mem', a) /\ ~Hit(a)
    BY <1>4 DEF ReadMiss, BusRead
  <2>2. cache'[i].data = mbr' /\ cache'[i].dirty = FALSE
    BY <1>1, <1>4, ReadMissFills
  <2>3. Visible(a) = WordAt(mem, a) /\ cache[i].address # a
    BY <2>1, MissElsewhere DEF Visible
  <2>4. \A b \in WordAddress :
            WordAt(mem', b) = IF cache[i].address = b THEN cache[i].data
                                                      ELSE WordAt(mem, b)
    BY <1>1, <2>1, VictimSaved
  <2>. QED
    BY <1>2, <2>1, <2>2, <2>3, <2>4 DEF Served
<1>. QED
  BY <1>3, <1>4 DEF Read

LEMMA FilledWord ==
    ASSUME TypeOK, NEW i \in Lines, NEW a, NEW w, NEW d,
           cache' = Fill(i, a, w, "WORD", d)
    PROVE  cache'[i].data = w /\ cache'[i].dirty = d
<1>1. /\ Fill(i, a, w, "WORD", d)[i].data = Narrow(w, "WORD")
      /\ Fill(i, a, w, "WORD", d)[i].dirty = d
  BY FilledLine
<1>. QED
  BY <1>1 DEF Narrow

LEMMA WriteServed ==
    ASSUME AlignedWords, Inv, NEW a \in WordAddress, NEW w \in Data, Write(a, w, "WORD")
    PROVE  Served(a, w)
<1>. DEFINE i == Index(a)
<1>1. /\ a \in Address /\ i \in Lines /\ TypeOK /\ "WORD" \in Width
      /\ w \in Word /\ mem \in [Address -> Byte]
  <2>1. a \in Address /\ TypeOK
    BY WordAddresses DEF Inv
  <2>2. w \in Word /\ "WORD" \in Width
    BY DEF Width
  <2>. QED
    BY <2>1, <2>2, IndexIsLine DEF TypeOK
<1>2. Accessed(a)
  BY <1>1, WriteAccesses
<1>3. CASE WriteBackPolicy(a, w, "WORD")
  <2>1. mbr' = w /\ cache'[i].data = w /\ cache'[i].dirty = TRUE
    <3>1. mbr' = w /\ cache' = Fill(i, a, w, "WORD", TRUE)
      BY <1>3 DEF WriteBackPolicy
    <3>. QED
      BY <1>1, <3>1, FilledWord
  <2>2. CASE Hit(a)
    <3>1. mem' = mem /\ cache[i].address = a
      BY <1>1, <1>3, <2>2, HitAddress DEF WriteBackPolicy
    <3>. QED
      BY <1>2, <2>1, <3>1 DEF Served
  <2>3. CASE ~Hit(a)
    <3>1. mem' = WrittenBack(i) /\ cache[i].address # a
      BY <1>3, <2>3, MissElsewhere DEF WriteBackPolicy
    <3>2. \A b \in WordAddress :
              WordAt(mem', b) = IF cache[i].address = b THEN cache[i].data
                                                        ELSE WordAt(mem, b)
      BY <1>1, <3>1, VictimSaved
    <3>. QED
      BY <1>2, <2>1, <3>1, <3>2 DEF Served
  <2>. QED
    BY <2>2, <2>3
<1>4. CASE WriteThroughPolicy(a, w, "WORD")
  <2>1. mbr' = w /\ cache'[i].data = w /\ mem' = BusWrite(mem, a, w, "WORD")
    BY <1>1, <1>4, FilledLine DEF WriteThroughPolicy, Narrow
  <2>2. WordAt(mem', a) = w
        /\ \A b \in WordAddress \ {a} : WordAt(mem', b) = WordAt(mem, b)
    BY <1>1, <2>1, WordWritten
  <2>3. ~cache[i].dirty
    BY <1>1, <1>4 DEF Inv, WriteThroughClean, WriteThroughPolicy
  <2>4. \A b \in WordAddress : cache[i].address = b => cache[i].data = WordAt(mem, b)
    BY <1>1, <2>3, WordAddresses DEF Inv, CleanLinesMatch, EmptyLine
  <2>. QED
    BY <1>2, <2>1, <2>2, <2>4 DEF Served
<1>. QED
  BY <1>3, <1>4 DEF Write
-----------------------------------------------------------------------------
(* The invariant.                                                          *)

LEMMA ServedKeepsPlaced ==
    ASSUME AlignedWords, Inv, NEW a \in WordAddress, NEW v, Served(a, v)
    PROVE  DirectPlaced' /\ CleanLinesMatch'
<1>. DEFINE i == Index(a)
<1>1. /\ a \in Address \ {0} /\ i \in Lines /\ TypeOK /\ SingleCopy /\ DirectPlaced
      /\ cache'[i].address = a /\ Direct' = Direct
  BY WordAddresses, IndexIsLine DEF Inv, Served, Accessed, Direct
<1>2. \A j \in Lines \ {i} : /\ cache'[j] = Searched(i)[j]
                             /\ cache'[j].address = cache[j].address
                             /\ cache'[j].data = cache[j].data
                             /\ cache'[j].dirty = cache[j].dirty
  BY <1>1, SearchedLine DEF Served, Accessed
<1>3. DirectPlaced'
  <2>1. Direct => i = DirectIndex(a)
    BY DEF Index
  <2>. QED
    BY <1>1, <1>2, <2>1 DEF DirectPlaced, DirectIndex
<1>4. ASSUME NEW j \in Lines
      PROVE  \/ cache'[j] = EmptyLine
             \/ /\ cache'[j].address \in WordAddress
                /\ ~cache'[j].dirty => cache'[j].data = WordAt(mem', cache'[j].address)
  <2>1. CASE j = i
    BY <1>1, <2>1 DEF Served
  <2>2. CASE j # i /\ cache[j] = EmptyLine
    <3>1. Searched(i)[j] = EmptyLine
      <4>1. CASE Direct
        BY <2>2, <4>1 DEF Searched
      <4>2. CASE ~Direct
        BY <1>1, <2>2, <4>2, EmptyStaysEmpty
      <4>. QED
        BY <4>1, <4>2
    <3>. QED
      BY <1>2, <2>2, <3>1
  <2>3. CASE j # i /\ cache[j] # EmptyLine
    <3>. DEFINE b == cache[j].address
    <3>1. b \in WordAddress /\ (~cache[j].dirty => cache[j].data = WordAt(mem, b))
      BY <2>3 DEF Inv, CleanLinesMatch
    <3>2. b \in Address \ {0}
      BY <3>1, WordAddresses
    <3>3. b # a /\ cache[i].address # b
      BY <1>1, <2>3, <3>2, Located
    <3>4. WordAt(mem', b) = WordAt(mem, b)
      BY <3>1, <3>3 DEF Served
    <3>. QED
      BY <1>2, <2>3, <3>1, <3>4
  <2>. QED
    BY <2>1, <2>2, <2>3
<1>5. CleanLinesMatch'
  BY <1>4 DEF CleanLinesMatch
<1>. QED
  BY <1>3, <1>5

(* Under AlignedWords every step is one of these.                          *)
LEMMA WordSteps ==
    ASSUME AlignedWords, Inv, Next
    PROVE  \/ \E a \in WordAddress : Served(a, Visible(a))
           \/ \E a \in WordAddress, w \in Data : Served(a, w)
           \/ /\ cache' = [j \in Lines |-> EmptyLine]
              /\ UNCHANGED <<mem, mbr>>
<1>1. ASSUME NEW x \in Access, Read(x[1], x[2])
      PROVE  \E a \in WordAddress : Served(a, Visible(a))
  <2>1. x[1] \in WordAddress /\ x[2] = "WORD"
    BY DEF WordAddress, AlignedWords
  <2>. QED
    BY <1>1, <2>1, ReadServed
<1>2. ASSUME NEW x \in Access, NEW w \in Data, Write(x[1], w, x[2])
      PROVE  \E a \in WordAddress : Served(a, w)
  <2>1. x[1] \in WordAddress /\ x[2] = "WORD"
    BY DEF WordAddress, AlignedWords
  <2>. QED
    BY <1>2, <2>1, WriteServed
<1>. QED
  BY <1>1, <1>2 DEF Next, Reconfigure

LEMMA InitInv == Init => Inv
<1>1. Init => TypeOK
  BY InitTyped
<1>. QED
  BY <1>1 DEF Init, Inv, WriteThroughClean, WriteBack, SingleCopy, DirectPlaced,
              CleanLinesMatch, EmptyLine

LEMMA InvInvariant == AlignedWords /\ Inv /\ [Next]_vars => Inv'
<1>. SUFFICES ASSUME AlignedWords, Inv, [Next]_vars
              PROVE  Inv'
  OBVIOUS
<1>1. TypeOK' /\ WriteThroughClean' /\ SingleCopy'
  BY TypeInvariant, CleanInvariant, SingleCopyInvariant DEF Inv
<1>2. ASSUME NEW a \in WordAddress, NEW v, Served(a, v)
      PROVE  DirectPlaced' /\ CleanLinesMatch'
  BY <1>2, ServedKeepsPlaced
<1>3. ASSUME cache' = [j \in Lines |-> EmptyLine]
      PROVE  DirectPlaced' /\ CleanLinesMatch'
  BY <1>3 DEF DirectPlaced, CleanLinesMatch, EmptyLine
<1>4. CASE UNCHANGED vars
  <2>1. /\ cache' = cache /\ mem' = mem
        /\ organization_method' = organization_method
    BY <1>4 DEF vars
  <2>2. DirectPlaced'
    BY <2>1 DEF Inv, DirectPlaced, Direct
  <2>3. CleanLinesMatch'
    BY <2>1 DEF Inv, CleanLinesMatch
  <2>. QED
    BY <1>1, <2>2, <2>3 DEF Inv
<1>5. CASE Next
  <2>1. DirectPlaced' /\ CleanLinesMatch'
    BY <1>2, <1>3, <1>5, WordSteps
  <2>. QED
    BY <1>1, <2>1 DEF Inv
<1>. QED
  BY <1>4, <1>5

(* A clean line in use holds what memory holds.                            *)
THEOREM CleanLinesMatchCorrect ==
    ASSUME AlignedWords
    PROVE  Spec => []CleanLinesMatch
<1>1. Inv => CleanLinesMatch
  BY DEF Inv
<1>2. Inv /\ [Next]_vars => Inv'
  BY InvInvariant
<1>. QED
  BY <1>1, <1>2, InitInv, PTL DEF Spec

(* Under write-through what the monitor prints is what the program would   *)
(* load.                                                                   *)
THEOREM PrintedCurrentCorrect ==
    ASSUME AlignedWords
    PROVE  Spec => []PrintedCurrent
<1>1. Inv => PrintedCurrent
  <2>. SUFFICES ASSUME Inv, ~WriteBack, NEW a \in WordAddress
                PROVE  LET shown == print_mem(a, a + 2)
                       IN  <<shown[a], shown[a + 1]>> = Visible(a)
    BY DEF PrintedCurrent
  <2>1. /\ a \in Address /\ a \in Nat /\ Base(a) = a /\ a + 1 \in Address
    BY WordAddresses, EvenBase
  <2>2. a <= a + 2 /\ a + 2 <= 2 * NumWords /\ a \in a .. a + 2 - 1 /\ a + 1 \in a .. a + 2 - 1
    BY <2>1 DEF Address
  <2>3. print_mem(a, a + 2) = [b \in a .. a + 2 - 1 |-> mem[b]]
    BY <2>2 DEF print_mem
  <2>4. Visible(a) = WordAt(mem, a)
    <3>1. ASSUME NEW j \in Lines, cache[j].address = a
          PROVE  Visible(a) = WordAt(mem, a)
      <4>1. ~cache[j].dirty /\ cache[j] # EmptyLine
        BY <3>1, WordAddresses DEF Inv, WriteThroughClean, EmptyLine
      <4>2. cache[j].data = WordAt(mem, a)
        BY <3>1, <4>1 DEF Inv, CleanLinesMatch
      <4>. QED
        BY <3>1, <4>2, VisibleWhere
    <3>. QED
      BY <3>1, VisibleWhere
  <2>. QED
    BY <2>1, <2>2, <2>3, <2>4 DEF WordAt
<1>2. Inv /\ [Next]_vars => Inv'
  BY InvInvariant
<1>. QED
  BY <1>1, <1>2, InitInv, PTL DEF Spec
-----------------------------------------------------------------------------
(* The refinement.                                                         *)

store == [a \in WordAddress |-> Visible(a)]
saved == [a \in WordAddress |-> WordAt(mem, a)]

(* What a served access makes of the words visible and saved.              *)
LEMMA VisibleAfter ==
    ASSUME AlignedWords, Inv, NEW a \in WordAddress, NEW v, Served(a, v),
           NEW b \in WordAddress,
           \A j \in Lines : cache'[j].address = b => Visible(b)' = cache'[j].data,
           (\A j \in Lines : cache'[j].address # b) => Visible(b)' = WordAt(mem', b)
    PROVE  /\ Visible(b)' = IF b = a THEN v ELSE Visible(b)
           /\ WordAt(mem', b) \in {WordAt(mem, b), Visible(b)'}
<1>. DEFINE i == Index(a)
<1>1. /\ i \in Lines /\ TypeOK /\ cache'[i].address = a /\ cache'[i].data = v
  BY WordAddresses, IndexIsLine DEF Inv, Served, Accessed
<1>2. \A j \in Lines \ {i} : /\ cache'[j].address = cache[j].address
                             /\ cache'[j].data = cache[j].data
  BY <1>1, SearchedLine DEF Served, Accessed
<1>3. CASE b = a
  BY <1>1, <1>3 DEF Served
<1>4. CASE b # a
  <2>1. CASE cache[i].address = b
    <3>1. \A j \in Lines : cache'[j].address # b
      <4>1. ASSUME NEW j \in Lines \ {i} PROVE cache[j].address # b
        <5>1. b \in Address \ {0}
          BY WordAddresses
        <5>. QED
          BY <1>1, <2>1, <4>1, <5>1, Located DEF Inv
      <4>. QED
        BY <1>1, <1>2, <1>4, <4>1
    <3>2. Visible(b)' = WordAt(mem', b) /\ WordAt(mem', b) = cache[i].data
      BY <1>4, <2>1, <3>1 DEF Served
    <3>3. Visible(b) = cache[i].data
      BY <1>1, <2>1, VisibleWhere
    <3>. QED
      BY <1>4, <3>2, <3>3
  <2>2. CASE cache[i].address # b
    <3>1. WordAt(mem', b) = WordAt(mem, b)
      BY <1>4, <2>2 DEF Served
    <3>2. CASE \E j \in Lines : cache[j].address = b
      <4>1. PICK j \in Lines : cache[j].address = b
        BY <3>2
      <4>2. Visible(b)' = cache'[j].data /\ cache'[j].data = cache[j].data
        BY <1>2, <2>2, <4>1
      <4>3. Visible(b) = cache[j].data
        BY <4>1, VisibleWhere
      <4>. QED
        BY <1>4, <3>1, <4>2, <4>3
    <3>3. CASE \A j \in Lines : cache[j].address # b
      <4>1. \A j \in Lines : cache'[j].address # b
        BY <1>1, <1>2, <1>4, <3>3
      <4>2. Visible(b) = WordAt(mem, b)
        BY <3>3, VisibleWhere
      <4>. QED
        BY <1>4, <3>1, <4>1, <4>2
    <3>. QED
      BY <3>2, <3>3
  <2>. QED
    BY <2>1, <2>2
<1>. QED
  BY <1>3, <1>4

LEMMA WordAtWord ==
    ASSUME NEW m \in [Address -> Byte], NEW a \in Address
    PROVE  WordAt(m, a) \in Word
  BY BaseInMemory DEF WordAt, Word

LEMMA RefinesInit == AlignedWords /\ Init => Abstract!Init
<1>. SUFFICES ASSUME AlignedWords, Init
              PROVE  Abstract!Init
  OBVIOUS
<1>1. Inv /\ TypeOK
  BY InitInv DEF Inv
<1>2. ASSUME NEW a \in WordAddress
      PROVE  Visible(a) = WordAt(mem, a) /\ WordAt(mem, a) \in Word
  <2>1. \A j \in Lines : cache[j].address # a
    BY WordAddresses DEF Init, EmptyLine
  <2>2. a \in Address /\ mem \in [Address -> Byte]
    BY <1>1, WordAddresses DEF TypeOK
  <2>. QED
    BY <1>1, <2>1, <2>2, VisibleWhere, WordAtWord
<1>3. mbr \in Word
  BY <1>1 DEF TypeOK
<1>. QED
  BY <1>2, <1>3 DEF Abstract!Init

LEMMA RefinesStep ==
    ASSUME AlignedWords, Inv, [Next]_vars, TypeOK',
           \A b \in WordAddress :
               /\ \A j \in Lines : cache'[j].address = b => Visible(b)' = cache'[j].data
               /\ (\A j \in Lines : cache'[j].address # b) =>
                      Visible(b)' = WordAt(mem', b)
    PROVE  [Abstract!Next]_(Abstract!svars)
<1>1. \A b \in WordAddress : b \in Address /\ b # 0
  BY WordAddresses
<1>2. \A b \in WordAddress : WordAt(mem', b) \in Word
  BY <1>1, WordAtWord DEF TypeOK
<1>3. ASSUME NEW a \in WordAddress, NEW v, Served(a, v)
      PROVE  /\ Abstract!Propagate
             /\ store' = [store EXCEPT ![a] = v]
             /\ mbr' = v
  <2>1. \A b \in WordAddress : /\ Visible(b)' = IF b = a THEN v ELSE Visible(b)
                               /\ WordAt(mem', b) \in {WordAt(mem, b), Visible(b)'}
    BY <1>3, VisibleAfter
  <2>2. Abstract!Propagate
    BY <1>2, <2>1 DEF Abstract!Propagate
  <2>3. store' = [store EXCEPT ![a] = v]
    BY <2>1 DEF store
  <2>. QED
    BY <1>3, <2>2, <2>3 DEF Served
<1>4. ASSUME NEW a \in WordAddress, Served(a, Visible(a))
      PROVE  Abstract!Next
  <2>1. store' = [store EXCEPT ![a] = Visible(a)] /\ mbr' = Visible(a)
        /\ Abstract!Propagate
    BY <1>3, <1>4
  <2>2. store' = store
    BY <2>1 DEF store
  <2>3. Abstract!Load(a)
    BY <2>1, <2>2 DEF Abstract!Load, store
  <2>. QED
    BY <2>3 DEF Abstract!Next
<1>5. ASSUME NEW a \in WordAddress, NEW w \in Data, Served(a, w)
      PROVE  Abstract!Next
  <2>1. Abstract!Store(a, w)
    BY <1>3, <1>5 DEF Abstract!Store, store
  <2>. QED
    BY <2>1 DEF Abstract!Next
<1>6. ASSUME cache' = [j \in Lines |-> EmptyLine], UNCHANGED <<mem, mbr>>
      PROVE  Abstract!Next
  <2>1. \A b \in WordAddress, j \in Lines : cache'[j].address # b
    BY <1>1, <1>6 DEF EmptyLine
  <2>2. \A b \in WordAddress : Visible(b)' = WordAt(mem, b)
    BY <1>6, <2>1
  <2>. QED
    BY <1>6, <2>2 DEF Abstract!Next, Abstract!Reset
<1>7. CASE UNCHANGED vars
  <2>1. \A b \in WordAddress : Visible(b)' = Visible(b)
    BY <1>7 DEF vars, Visible, Hit, Resident, Index, Direct, DirectIndex, Matches,
               LastMatch, LruLine, IsLru
  <2>. QED
    BY <1>7, <2>1 DEF vars, Abstract!svars
<1>8. CASE Next
  BY <1>4, <1>5, <1>6, <1>8, WordSteps
<1>. QED
  BY <1>7, <1>8

(* The cache is a store of words: loads return the word last stored,       *)
(* memory receives stored words only, a change of settings falls back to   *)
(* what it has received.                                                   *)
THEOREM ImplementsWordStoreCorrect ==
    ASSUME AlignedWords
    PROVE  Spec => ImplementsWordStore
<1>1. Init => Abstract!Init
  BY RefinesInit
<1>2. Inv /\ [Next]_vars => Inv'
  BY InvInvariant
<1>. DEFINE W == \A b \in WordAddress :
            /\ \A j \in Lines : cache[j].address = b => Visible(b) = cache[j].data
            /\ (\A j \in Lines : cache[j].address # b) => Visible(b) = WordAt(mem, b)
<1>3. Inv => W
  BY VisibleWhere
<1>4. Inv /\ TypeOK' /\ W' /\ [Next]_vars => [Abstract!Next]_(Abstract!svars)
  BY RefinesStep
<1>5. Inv => TypeOK
  BY DEF Inv
<1>. QED
  BY <1>1, <1>2, <1>3, <1>4, <1>5, InitInv, PTL
     DEF Spec, ImplementsWordStore, Abstract!Spec
================================================================================

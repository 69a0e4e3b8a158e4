---------------------------- MODULE LoadStoreProofs ----------------------------
(***************************************************************************)
(* Proofs about LoadStore: the stacks its programs keep in memory work,    *)
(* whatever the number of lines, the size of memory, the settings and the  *)
(* depth of the stack.                                                     *)
(***************************************************************************)
EXTENDS LoadStore, CacheStoreProofs, SequenceTheorems

LEMMA Sizes ==
    /\ ByteSize \in Nat \ {0} /\ Byte = 0 .. ByteSize - 1 /\ Zero = 0
    /\ AddressSize = ByteSize * ByteSize /\ AddressSize \in Nat \ {0}
    /\ Address = 0 .. AddressSize - 1 /\ StackBase \in Address /\ Item \subseteq Address
    /\ MaxDepth \in Nat
  BY NumbersAssumption DEF AddressSize, Address

LEMMA Wrapped == \A v \in Int : v % AddressSize \in Address
<1>1. \A n \in Nat \ {0} : \A v \in Int : v % n \in 0 .. n - 1
  OBVIOUS
<1>. QED
  BY <1>1, Sizes

(* A register and the pair of bytes the cache moves.                       *)
LEMMA ValueAddress == \A w \in Word : Value(w) \in Address
<1>1. \A b, x, y \in Nat : x < b /\ y < b => y + b * x \in Nat /\ y + b * x < b * b
  <2>1. SUFFICES ASSUME NEW b \in Nat, NEW x \in Nat, NEW y \in Nat, x < b, y < b
                 PROVE  y + b * x \in Nat /\ y + b * x < b * b
    OBVIOUS
  <2>2. b * x <= b * (b - 1)
    BY <2>1
  <2>3. b * (b - 1) = b * b - b
    BY <2>1
  <2>. QED
    BY <2>1, <2>2, <2>3
<1>2. \A w \in Word : w[1] \in Nat /\ w[1] < ByteSize /\ w[2] \in Nat /\ w[2] < ByteSize
  BY Sizes DEF Word
<1>3. ASSUME NEW w \in Word
      PROVE  Value(w) \in Address
  <2>1. w[1] + ByteSize * w[2] \in Nat /\ w[1] + ByteSize * w[2] < ByteSize * ByteSize
    BY <1>1, <1>2, Sizes
  <2>. QED
    BY <2>1, Sizes DEF Value
<1>. QED
  BY <1>3

LEMMA PairWord == \A v \in Address : Pair(v) \in Word /\ Value(Pair(v)) = v
<1>1. \A n \in Nat \ {0} : \A v \in Nat :
          /\ v % n \in Nat /\ v % n < n /\ v \div n \in Nat
          /\ (v % n) + n * (v \div n) = v
  OBVIOUS
<1>2. \A n, q, r, v \in Nat : v = r + n * q /\ v < n * n => q < n
  <2>1. SUFFICES ASSUME NEW n \in Nat, NEW q \in Nat, NEW r \in Nat, q >= n
                 PROVE  r + n * q >= n * n
    OBVIOUS
  <2>. QED
    BY <2>1
<1>3. ASSUME NEW v \in Address
      PROVE  Pair(v) \in Word /\ Value(Pair(v)) = v
  <2>1. v \in Nat /\ v < ByteSize * ByteSize
    BY Sizes
  <2>2. /\ v % ByteSize \in Nat /\ v % ByteSize < ByteSize /\ v \div ByteSize \in Nat
        /\ (v % ByteSize) + ByteSize * (v \div ByteSize) = v
    BY <1>1, <2>1, Sizes
  <2>3. v \div ByteSize < ByteSize
    BY <1>2, <2>1, <2>2, Sizes
  <2>. QED
    BY <2>2, <2>3, Sizes DEF Pair, Value, Word
<1>. QED
  BY <1>3
-----------------------------------------------------------------------------
(* The cache serving accesses of one width wb at the addresses of A, which *)
(* for words are even.  Address 0 is left out as in AlignedWords; under    *)
(* write-back only words are stored.                                       *)

Fits(A, wb) ==
    /\ A \subseteq Address \ {0} /\ wb \in Width
    /\ wb = "WORD" => \A a \in A : a % 2 = 0

Coherent(A, wb) ==
    /\ TypeOK /\ WriteThroughClean /\ SingleCopy /\ DirectPlaced
    /\ \A i \in Lines :
          \/ cache[i] = EmptyLine
          \/ /\ cache[i].address \in A
             /\ cache[i].dirty => wb = "WORD"
             /\ ~cache[i].dirty => cache[i].data = BusRead(mem, cache[i].address, wb)

LEMMA BusKeepsOthers ==
    ASSUME NEW A, NEW wb, Fits(A, wb), NEW m \in [Address -> Byte],
           NEW a \in A, NEW w \in Word
    PROVE  /\ BusRead(BusWrite(m, a, w, wb), a, wb) = Narrow(w, wb)
           /\ \A b \in A \ {a} : BusRead(BusWrite(m, a, w, wb), b, wb) = BusRead(m, b, wb)
<1>1. a \in Address /\ a \in Nat /\ w = <<w[1], w[2]>>
  BY DEF Fits, Address, Word
<1>2. CASE wb = "WORD"
  <2>1. \A b \in A : Base(b) = b /\ b \in Nat /\ b \in Address /\ b + 1 \in Address /\ b % 2 = 0
    BY <1>2, EvenBase DEF Fits
  <2>2. BusWrite(m, a, w, wb) = [m EXCEPT ![a] = w[1], ![a + 1] = w[2]]
    BY <1>2, <2>1 DEF BusWrite
  <2>3. ASSUME NEW b \in A \ {a}
        PROVE  BusRead(BusWrite(m, a, w, wb), b, wb) = BusRead(m, b, wb)
    <3>1. b # a /\ b # a + 1 /\ b + 1 # a /\ b + 1 # a + 1
      BY <2>1
    <3>. QED
      BY <1>2, <2>1, <2>2, <3>1 DEF BusRead, WordAt
  <2>4. BusRead(BusWrite(m, a, w, wb), a, wb) = w
    BY <1>1, <1>2, <2>1, <2>2 DEF BusRead, WordAt
  <2>. QED
    BY <1>2, <2>3, <2>4 DEF Narrow
<1>3. CASE wb = "BYTE"
  BY <1>1, <1>3 DEF BusRead, BusWrite, Narrow, LSByte
<1>. QED
  BY <1>2, <1>3 DEF Fits, Width

LEMMA LineData ==
    ASSUME NEW A, NEW wb, Fits(A, wb), Coherent(A, wb), NEW i \in Lines,
           NEW b \in A, cache[i].address = b
    PROVE  /\ cache[i].dirty => wb = "WORD"
           /\ ~cache[i].dirty => cache[i].data = BusRead(mem, b, wb)
           /\ Narrow(cache[i].data, wb) = cache[i].data
<1>1. /\ cache[i].dirty => wb = "WORD"
      /\ ~cache[i].dirty => cache[i].data = BusRead(mem, b, wb)
  BY DEF Fits, Coherent, EmptyLine
<1>2. Narrow(cache[i].data, wb) = cache[i].data
  <2>1. CASE wb = "WORD"
    BY <2>1 DEF Narrow
  <2>2. CASE wb = "BYTE"
    BY <1>1, <2>2 DEF Narrow, LSByte, BusRead
  <2>. QED
    BY <2>1, <2>2 DEF Fits, Width
<1>. QED
  BY <1>1, <1>2

LEMMA VictimKept ==
    ASSUME NEW A, NEW wb, Fits(A, wb), Coherent(A, wb), NEW i \in Lines, NEW b \in A
    PROVE  BusRead(WrittenBack(i), b, wb) =
               IF cache[i].address = b THEN cache[i].data ELSE BusRead(mem, b, wb)
<1>1. /\ mem \in [Address -> Byte] /\ cache[i].data \in Word
      /\ cache[i] = EmptyLine \/ cache[i].address \in A
  BY DEF Coherent, TypeOK, LineType
<1>2. CASE cache[i].dirty
  <2>1. cache[i].address \in A
    BY <1>1, <1>2 DEF EmptyLine
  <2>2. wb = "WORD"
    BY <1>2, <2>1, LineData
  <2>3. WrittenBack(i) = BusWrite(mem, cache[i].address, cache[i].data, wb)
    BY <1>2, <2>2 DEF WrittenBack
  <2>. QED
    BY <1>1, <2>1, <2>2, <2>3, BusKeepsOthers DEF Narrow
<1>3. CASE ~cache[i].dirty
  BY <1>3, LineData DEF WrittenBack
<1>. QED
  BY <1>2, <1>3

(* What a load returns: the line with the address, or else memory.         *)
LEMMA LoadedWhere ==
    ASSUME NEW A, NEW wb, Fits(A, wb), Coherent(A, wb), NEW b \in A
    PROVE  /\ \A j \in Lines : cache[j].address = b => Loaded(b, wb) = cache[j].data
           /\ (\A j \in Lines : cache[j].address # b) =>
                  Loaded(b, wb) = BusRead(mem, b, wb) /\ ~Hit(b)
<1>1. b \in Address \ {0} /\ TypeOK
  BY DEF Fits, Coherent
<1>2. ASSUME NEW j \in Lines, cache[j].address = b
      PROVE  Loaded(b, wb) = cache[j].data
  <2>1. Hit(b) /\ Index(b) = j
    BY <1>1, <1>2, Located DEF Coherent
  <2>. QED
    BY <1>2, <2>1, LineData DEF Loaded, Resident
<1>3. ASSUME \A j \in Lines : cache[j].address # b
      PROVE  Loaded(b, wb) = BusRead(mem, b, wb) /\ ~Hit(b)
  <2>1. ~Hit(b) /\ Index(b) \in Lines
    BY <1>1, <1>3, HitAddress, IndexIsLine
  <2>. QED
    BY <1>3, <2>1, VictimKept DEF Loaded
<1>. QED
  BY <1>2, <1>3

(* What a load or store at a does, v being what a load of a then returns.  *)
Exchanged(A, wb, a, v) ==
    /\ Accessed(a)
    /\ cache'[Index(a)].data = v
    /\ cache'[Index(a)].dirty => wb = "WORD"
    /\ ~cache'[Index(a)].dirty => v = BusRead(mem', a, wb)
    /\ \A b \in A \ {a} :
          BusRead(mem', b, wb) = IF cache[Index(a)].address = b
                                 THEN cache[Index(a)].data ELSE BusRead(mem, b, wb)

LEMMA ReadExchanged ==
    ASSUME NEW A, NEW wb, Fits(A, wb), Coherent(A, wb), NEW a \in A, Read(a, wb)
    PROVE  Exchanged(A, wb, a, Loaded(a, wb)) /\ mbr' = Loaded(a, wb)
<1>. DEFINE i == Index(a)
<1>1. a \in Address \ {0} /\ i \in Lines /\ TypeOK /\ wb \in Width
  BY IndexIsLine DEF Fits, Coherent
<1>2. Accessed(a)
  BY <1>1, ReadAccesses
<1>3. CASE ReadHit(a, wb)
  <2>1. cache[i].address = a
    BY <1>1, <1>3, HitAddress DEF ReadHit
  <2>2. /\ mem' = mem /\ mbr' = Narrow(cache[i].data, wb)
        /\ cache'[i].data = cache[i].data /\ cache'[i].dirty = cache[i].dirty
    BY <1>1, <1>3, SearchedLine DEF ReadHit
  <2>3. /\ cache[i].dirty => wb = "WORD"
        /\ ~cache[i].dirty => cache[i].data = BusRead(mem, a, wb)
        /\ Narrow(cache[i].data, wb) = cache[i].data
    BY <1>1, <2>1, LineData
  <2>4. Loaded(a, wb) = cache[i].data
    BY <1>1, <2>1, LoadedWhere
  <2>. QED
    BY <1>2, <2>1, <2>2, <2>3, <2>4 DEF Exchanged
<1>4. CASE ReadMiss(a, wb)
  <2>1. mem' = WrittenBack(i) /\ mbr' = BusRead(mem', a, wb) /\ ~Hit(a)
    BY <1>4 DEF ReadMiss
  <2>2. cache'[i].data = mbr' /\ cache'[i].dirty = FALSE
    BY <1>1, <1>4, ReadMissFills
  <2>3. Loaded(a, wb) = BusRead(mem', a, wb)
    BY <2>1 DEF Loaded
  <2>4. \A b \in A : BusRead(mem', b, wb) = IF cache[i].address = b THEN cache[i].data
                                             ELSE BusRead(mem, b, wb)
    BY <1>1, <2>1, VictimKept
  <2>. QED
    BY <1>2, <2>1, <2>2, <2>3, <2>4 DEF Exchanged
<1>. QED
  BY <1>3, <1>4 DEF Read

LEMMA FilledNarrow ==
    ASSUME TypeOK, NEW i \in Lines, NEW a, NEW w, NEW wb, NEW d,
           cache' = Fill(i, a, w, wb, d)
    PROVE  cache'[i].data = Narrow(w, wb) /\ cache'[i].dirty = d
<1>1. /\ Fill(i, a, w, wb, d)[i].data = Narrow(w, wb)
      /\ Fill(i, a, w, wb, d)[i].dirty = d
  BY FilledLine
<1>. QED
  BY <1>1

LEMMA WriteExchanged ==
    ASSUME NEW A, NEW wb, Fits(A, wb), Coherent(A, wb), NEW a \in A, NEW w \in Word,
           Write(a, w, wb), wb = "BYTE" => ~WriteBack
    PROVE  Exchanged(A, wb, a, Narrow(w, wb))
<1>. DEFINE i == Index(a)
<1>1. /\ a \in Address \ {0} /\ i \in Lines /\ TypeOK /\ wb \in Width
      /\ mem \in [Address -> Byte]
  BY IndexIsLine DEF Fits, Coherent, TypeOK
<1>2. Accessed(a)
  BY <1>1, WriteAccesses
<1>3. CASE WriteBackPolicy(a, w, wb)
  <2>1. wb = "WORD"
    BY <1>1, <1>3 DEF WriteBackPolicy, Width
  <2>2. cache'[i].data = Narrow(w, wb) /\ cache'[i].dirty = TRUE
    <3>1. cache' = Fill(i, a, w, wb, TRUE)
      BY <1>3 DEF WriteBackPolicy
    <3>. QED
      BY <1>1, <3>1, FilledNarrow
  <2>3. CASE Hit(a)
    <3>1. mem' = mem /\ cache[i].address = a
      BY <1>1, <1>3, <2>3, HitAddress DEF WriteBackPolicy
    <3>. QED
      BY <1>2, <2>1, <2>2, <3>1 DEF Exchanged
  <2>4. CASE ~Hit(a)
    <3>1. mem' = WrittenBack(i)
      BY <1>3, <2>4 DEF WriteBackPolicy
    <3>2. \A b \in A : BusRead(mem', b, wb) = IF cache[i].address = b THEN cache[i].data
                                               ELSE BusRead(mem, b, wb)
      BY <1>1, <3>1, VictimKept
    <3>. QED
      BY <1>2, <2>1, <2>2, <3>2 DEF Exchanged
  <2>. QED
    BY <2>3, <2>4
<1>4. CASE WriteThroughPolicy(a, w, wb)
  <2>1. ~cache[i].dirty
    BY <1>1, <1>4 DEF Coherent, WriteThroughClean, WriteThroughPolicy
  <2>2. /\ cache'[i].data = Narrow(w, wb) /\ cache'[i].dirty = FALSE
        /\ mem' = BusWrite(mem, a, w, wb)
    <3>1. cache[i].dirty \in BOOLEAN
      BY <1>1 DEF TypeOK, LineType
    <3>. QED
      BY <1>1, <1>4, <2>1, <3>1, FilledLine DEF WriteThroughPolicy
  <2>3. /\ BusRead(mem', a, wb) = Narrow(w, wb)
        /\ \A b \in A \ {a} : BusRead(mem', b, wb) = BusRead(mem, b, wb)
    BY <1>1, <2>2, BusKeepsOthers
  <2>4. \A b \in A : cache[i].address = b => cache[i].data = BusRead(mem, b, wb)
    BY <1>1, <2>1, LineData
  <2>. QED
    BY <1>2, <2>2, <2>3, <2>4 DEF Exchanged
<1>. QED
  BY <1>3, <1>4 DEF Write

LEMMA ExchangedKeepsLines ==
    ASSUME NEW A, NEW wb, Fits(A, wb), Coherent(A, wb), NEW a \in A, NEW v,
           Exchanged(A, wb, a, v), TypeOK', WriteThroughClean'
    PROVE  Coherent(A, wb)'
<1>. DEFINE i == Index(a)
<1>1. /\ a \in Address \ {0} /\ i \in Lines /\ TypeOK /\ SingleCopy /\ DirectPlaced
      /\ cache'[i].address = a /\ Direct' = Direct
  BY IndexIsLine DEF Fits, Coherent, Exchanged, Accessed, Direct
<1>2. \A j \in Lines \ {i} : /\ cache'[j] = Searched(i)[j]
                             /\ cache'[j].address = cache[j].address
                             /\ cache'[j].data = cache[j].data
                             /\ cache'[j].dirty = cache[j].dirty
  BY <1>1, SearchedLine DEF Exchanged, Accessed
<1>3. DirectPlaced'
  <2>1. Direct => i = DirectIndex(a)
    BY DEF Index
  <2>. QED
    BY <1>1, <1>2, <2>1 DEF DirectPlaced, DirectIndex
<1>4. SingleCopy'
  BY <1>1, AccessKeepsSingleCopy DEF Exchanged
<1>5. ASSUME NEW j \in Lines
      PROVE  \/ cache'[j] = EmptyLine
             \/ /\ cache'[j].address \in A
                /\ cache'[j].dirty => wb = "WORD"
                /\ ~cache'[j].dirty => cache'[j].data = BusRead(mem', cache'[j].address, wb)
  <2>1. CASE j = i
    BY <1>1, <2>1 DEF Exchanged
  <2>2. CASE j # i /\ cache[j] = EmptyLine
    <3>1. Searched(i)[j] = EmptyLine
      <4>1. CASE Direct
        BY <2>2, <4>1 DEF Searched
      <4>2. CASE ~Direct
        BY <1>1, <2>2, <4>2, EmptyStaysEmpty
      <4>. QED
        BY <4>1, <4>2
    <3>. QED
      BY <1>2, <2>2, <3>1
  <2>3. CASE j # i /\ cache[j] # EmptyLine
    <3>. DEFINE b == cache[j].address
    <3>1. /\ b \in A /\ b \in Address \ {0} /\ (cache[j].dirty => wb = "WORD")
          /\ ~cache[j].dirty => cache[j].data = BusRead(mem, b, wb)
      BY <2>3 DEF Coherent, Fits
    <3>2. b # a /\ cache[i].address # b
      BY <1>1, <2>3, <3>1, Located
    <3>3. BusRead(mem', b, wb) = BusRead(mem, b, wb)
      BY <3>1, <3>2 DEF Exchanged
    <3>. QED
      BY <1>2, <2>3, <3>1, <3>3
  <2>. QED
    BY <2>1, <2>2, <2>3
<1>. QED
  BY <1>3, <1>4, <1>5 DEF Coherent

LoadsWhere(A, wb, b) ==
    Fits(A, wb) /\ Coherent(A, wb) /\ b \in A =>
        /\ \A j \in Lines : cache[j].address = b => Loaded(b, wb) = cache[j].data
        /\ (\A j \in Lines : cache[j].address # b) => Loaded(b, wb) = BusRead(mem, b, wb)

LEMMA LoadsWhereThen ==
    ASSUME NEW A, NEW wb, NEW b
    PROVE  LoadsWhere(A, wb, b)'
<1>1. LoadsWhere(A, wb, b)
  BY LoadedWhere DEF LoadsWhere
<1>. QED
  BY <1>1, PTL

LEMMA LoadedWhereAfter ==
    ASSUME NEW A, NEW wb, Fits(A, wb), Coherent(A, wb)', NEW b \in A
    PROVE  /\ \A j \in Lines : cache'[j].address = b => Loaded(b, wb)' = cache'[j].data
           /\ (\A j \in Lines : cache'[j].address # b) =>
                  Loaded(b, wb)' = BusRead(mem', b, wb)
<1>1. LoadsWhere(A, wb, b)'
  BY LoadsWhereThen
<1>2. Fits(A, wb)'
  BY DEF Fits
<1>. QED
  BY <1>1, <1>2 DEF LoadsWhere

LEMMA ExchangedLoads ==
    ASSUME NEW A, NEW wb, Fits(A, wb), Coherent(A, wb), Coherent(A, wb)',
           NEW a \in A, NEW v, Exchanged(A, wb, a, v), NEW b \in A
    PROVE  Loaded(b, wb)' = IF b = a THEN v ELSE Loaded(b, wb)
<1>. DEFINE i == Index(a)
<1>1. /\ a \in Address \ {0} /\ b \in Address \ {0} /\ i \in Lines /\ TypeOK
      /\ SingleCopy /\ DirectPlaced /\ cache'[i].address = a
  BY IndexIsLine DEF Fits, Coherent, Exchanged, Accessed
<1>2. CASE b = a
  BY <1>1, <1>2, LoadedWhereAfter DEF Exchanged
<1>3. CASE b # a
  <2>1. \A j \in Lines \ {i} : /\ cache'[j].address = cache[j].address
                               /\ cache'[j].data = cache[j].data
    BY <1>1, SearchedLine DEF Exchanged, Accessed
  <2>2. CASE cache[i].address = b
    <3>1. Hit(b) /\ Index(b) = i /\ \A j \in Lines : cache[j].address = b => j = i
      BY <1>1, <2>2, Located
    <3>2. \A j \in Lines : cache'[j].address # b
      BY <1>1, <1>3, <2>1, <3>1
    <3>3. Loaded(b, wb) = cache[i].data /\ Loaded(b, wb)' = BusRead(mem', b, wb)
      BY <1>1, <2>2, <3>2, LoadedWhere, LoadedWhereAfter
    <3>. QED
      BY <1>3, <2>2, <3>3 DEF Exchanged
  <2>3. CASE cache[i].address # b
    <3>1. BusRead(mem', b, wb) = BusRead(mem, b, wb)
      BY <1>3, <2>3 DEF Exchanged
    <3>2. CASE \E j \in Lines : cache[j].address = b
      <4>1. PICK j \in Lines : cache[j].address = b
        BY <3>2
      <4>2. j # i /\ cache'[j].address = b /\ cache'[j].data = cache[j].data
        BY <2>1, <2>3, <4>1
      <4>. QED
        BY <1>3, <4>1, <4>2, LoadedWhere, LoadedWhereAfter
    <3>3. CASE ~ \E j \in Lines : cache[j].address = b
      <4>1. \A j \in Lines : cache'[j].address # b
        BY <1>1, <1>3, <2>1, <3>3
      <4>2. Loaded(b, wb) = BusRead(mem, b, wb) /\ Loaded(b, wb)' = BusRead(mem', b, wb)
        BY <3>3, <4>1, LoadedWhere, LoadedWhereAfter
      <4>. QED
        BY <1>3, <3>1, <4>2
    <3>. QED
      BY <3>2, <3>3
  <2>. QED
    BY <2>2, <2>3
<1>. QED
  BY <1>2, <1>3

LEMMA EmptiedCoherent ==
    ASSUME NEW A, NEW wb, Fits(A, wb), Coherent(A, wb), NEW org, NEW pol,
           Reconfigure(org, pol)
    PROVE  Coherent(A, wb)'
<1>1. cache' = [j \in Lines |-> EmptyLine] /\ mem' = mem
  BY DEF Reconfigure
<1>2. TypeOK'
  BY ReconfigureTyped DEF Coherent
<1>3. WriteThroughClean' /\ SingleCopy' /\ DirectPlaced'
  BY <1>1 DEF WriteThroughClean, SingleCopy, DirectPlaced, EmptyLine
<1>. QED
  BY <1>1, <1>2, <1>3 DEF Coherent

LEMMA EmptiedLoads ==
    ASSUME NEW A, NEW wb, Fits(A, wb), Coherent(A, wb),
           \A i \in Lines : ~cache[i].dirty,
           NEW org, NEW pol, Reconfigure(org, pol), NEW b \in A
    PROVE  Loaded(b, wb)' = Loaded(b, wb)
<1>1. cache' = [j \in Lines |-> EmptyLine] /\ mem' = mem
  BY DEF Reconfigure
<1>2. Coherent(A, wb)'
  BY EmptiedCoherent
<1>3. Loaded(b, wb)' = BusRead(mem, b, wb)
  <2>1. \A j \in Lines : cache'[j].address # b
    BY <1>1 DEF EmptyLine, Fits
  <2>. QED
    BY <1>1, <1>2, <2>1, LoadedWhereAfter
<1>4. Loaded(b, wb) = BusRead(mem, b, wb)
  <2>1. CASE \E j \in Lines : cache[j].address = b
    BY <2>1, LoadedWhere, LineData
  <2>2. CASE ~ \E j \in Lines : cache[j].address = b
    BY <2>2, LoadedWhere
  <2>. QED
    BY <2>1, <2>2
<1>. QED
  BY <1>3, <1>4
-----------------------------------------------------------------------------
(* Types.                                                                  *)

Typed ==
    /\ TypeOK
    /\ way \in Ways
    /\ regs \in [SP : Address, X : Address]

LEMMA MovedAddress ==
    ASSUME NEW v \in Address, NEW dec \in {0, 1}, NEW inc \in {0, 1}, NEW wb
    PROVE  Moved(v, dec, inc, wb) \in Address
<1>1. v + Bytes(wb) * (inc - dec) \in Int
  BY Sizes DEF Bytes
<1>. QED
  BY <1>1, Wrapped DEF Moved

LEMMA DisplacementInt == \A o \in Offsets : Displacement(o) \in Int
<1>1. \A o \in Offsets : o \in Int
  BY NumbersAssumption
<1>2. 2^OffsetBits \in Nat /\ 2^SignBit \in Nat \ {0}
  BY NumbersAssumption
<1>3. \A v \in Int, p \in Nat : 2 * v \in Int /\ 2 * (v - p) \in Int
  OBVIOUS
<1>. QED
  BY <1>1, <1>2, <1>3 DEF Displacement

LEMMA LoadTyped ==
    ASSUME Typed, NEW prpo, NEW dec \in {0, 1}, NEW inc \in {0, 1}, NEW wb,
           Load("X", "SP", prpo, dec, inc, wb), UNCHANGED way
    PROVE  Typed'
<1>. DEFINE moved == Moved(regs["SP"], dec, inc, wb)
<1>1. regs.SP \in Address /\ regs.X \in Address /\ moved \in Address /\ TypeOK
  BY MovedAddress DEF Typed
<1>2. TypeOK'
  BY <1>1, ReadTyped DEF Load
<1>3. Value(mbr') \in Address
  BY <1>2, ValueAddress DEF TypeOK
<1>4. \/ regs' = [regs EXCEPT !["SP"] = moved, !["X"] = Value(mbr')]
      \/ regs' = [regs EXCEPT !["X"] = Value(mbr'), !["SP"] = moved]
  BY <1>1 DEF Load, Typed
<1>. HIDE DEF moved
<1>. QED
  BY <1>1, <1>2, <1>3, <1>4 DEF Typed

LEMMA StoreTyped ==
    ASSUME Typed, NEW prpo, NEW dec \in {0, 1}, NEW inc \in {0, 1}, NEW wb,
           Store("SP", "X", prpo, dec, inc, wb), UNCHANGED way
    PROVE  Typed'
<1>. DEFINE moved == Moved(regs["SP"], dec, inc, wb)
<1>1. regs.SP \in Address /\ regs.X \in Address /\ moved \in Address /\ TypeOK
  BY MovedAddress DEF Typed
<1>2. Pair(regs.X) \in Word
  BY <1>1, PairWord
<1>3. TypeOK'
  BY <1>1, <1>2, WriteTyped DEF Store
<1>4. regs' = [regs EXCEPT !["SP"] = moved]
  BY DEF Store
<1>. HIDE DEF moved
<1>. QED
  BY <1>1, <1>3, <1>4 DEF Typed

LEMMA RelativeTyped ==
    ASSUME Typed, NEW o \in Offsets, NEW wb, UNCHANGED way,
           LoadRel("X", "SP", o, wb) \/ StoreRel("SP", "X", o, wb)
    PROVE  Typed'
<1>. DEFINE a == (regs["SP"] + Displacement(o)) % AddressSize
<1>1. regs.SP \in Address /\ regs.X \in Address /\ regs.SP + Displacement(o) \in Int
  BY DisplacementInt, Sizes DEF Typed
<1>2. a \in Address /\ TypeOK /\ Pair(regs.X) \in Word
  BY <1>1, Wrapped, PairWord DEF Typed
<1>3. CASE LoadRel("X", "SP", o, wb)
  <2>1. Read(a, wb) /\ regs' = [regs EXCEPT !["X"] = Value(mbr')]
    BY <1>3 DEF LoadRel
  <2>2. TypeOK'
    BY <1>2, <2>1, ReadTyped
  <2>3. Value(mbr') \in Address
    BY <2>2, ValueAddress DEF TypeOK
  <2>. QED
    BY <2>1, <2>2, <2>3 DEF Typed
<1>4. CASE StoreRel("SP", "X", o, wb)
  <2>1. Write(a, Pair(regs.X), wb) /\ UNCHANGED regs
    BY <1>4 DEF StoreRel
  <2>2. TypeOK'
    BY <1>2, <2>1, WriteTyped
  <2>. QED
    BY <2>1, <2>2 DEF Typed
<1>. QED
  BY <1>3, <1>4

LEMMA LInitTyped == LInit => Typed
<1>1. LInit => TypeOK
  BY InitTyped DEF LInit
<1>2. 0 \in Address /\ StackBase \in Address
  BY Sizes
<1>. QED
  BY <1>1, <1>2 DEF LInit, Typed

LEMMA TypedInvariant == Typed /\ [LNext]_lvars => Typed'
<1>. SUFFICES ASSUME Typed, [LNext]_lvars
              PROVE  Typed'
  OBVIOUS
<1>0. way.up \in {0, 1} /\ 1 - way.up \in {0, 1}
  BY DEF Typed, Ways
<1>1. CASE Set
  <2>1. TypeOK'
    BY <1>1 DEF Set, Typed, TypeOK, vars
  <2>. QED
    BY <1>1, <2>1, Sizes DEF Set, Typed
<1>2. CASE Push
  BY <1>0, <1>2, StoreTyped DEF Push
<1>3. CASE Pop
  BY <1>0, <1>3, LoadTyped DEF Pop
<1>4. ASSUME NEW k \in 1 .. Depth, Peek(k)
      PROVE  Typed'
  BY <1>4, RelativeTyped DEF Peek
<1>5. ASSUME NEW k \in 1 .. Depth, Poke(k)
      PROVE  Typed'
  BY <1>5, RelativeTyped DEF Poke
<1>6. CASE Configure
  BY <1>6, ReconfigureTyped DEF Configure, Typed
<1>7. CASE UNCHANGED lvars
  BY <1>7 DEF lvars, vars, Typed, TypeOK
<1>. QED
  BY <1>1, <1>2, <1>3, <1>4, <1>5, <1>6, <1>7 DEF LNext

(* Whatever a program with such a stack does, and however far it runs off  *)
(* its ends, cache, bus and registers hold values of their types: the      *)
(* addresses computed by load, store, load_rel and store_rel wrap around.  *)
THEOREM LTypeCorrect == LSpec => []TypeOK
<1>1. Typed => TypeOK
  BY DEF Typed
<1>. QED
  BY <1>1, LInitTyped, TypedInvariant, PTL DEF LSpec
-----------------------------------------------------------------------------
(* Where the stack is.  It fits when it begins at an even address and its  *)
(* deepest element, in either direction, is between address 0 and the end  *)
(* of memory; SP is At(k) when k elements are on it.                       *)

StackFits ==
    /\ StackBase % 2 = 0
    /\ StackBase - 2 * MaxDepth > 0
    /\ StackBase + 2 * MaxDepth < AddressSize

At(k) == IF way.up = 1 THEN StackBase + Bytes(way.wb) * k
                       ELSE StackBase - Bytes(way.wb) * k

Spots == {ElementAt(k) : k \in 1 .. MaxDepth}

LEMMA AtDepth ==
    ASSUME StackFits, way \in Ways, NEW k \in 0 .. MaxDepth
    PROVE  /\ At(k) \in Address
           /\ (IF way.up = 1 THEN At(k) - StackBase ELSE StackBase - At(k))
                  \div Bytes(way.wb) = k
<1>1. \A v \in Nat : v \div 1 = v /\ (2 * v) \div 2 = v
  OBVIOUS
<1>2. k \in Nat /\ k <= MaxDepth /\ MaxDepth \in Nat /\ StackBase \in Nat /\ AddressSize \in Nat
  BY Sizes
<1>3. way.up \in {0, 1} /\ way.wb \in {"WORD", "BYTE"}
  BY DEF Ways, Width
<1>4. At(k) \in Address
  BY <1>2, <1>3, Sizes DEF At, Bytes, StackFits
<1>5. (IF way.up = 1 THEN At(k) - StackBase ELSE StackBase - At(k)) = Bytes(way.wb) * k
  BY <1>2, <1>3 DEF At, Bytes
<1>6. (Bytes(way.wb) * k) \div Bytes(way.wb) = k
  BY <1>1, <1>2, <1>3 DEF Bytes
<1>. QED
  BY <1>4, <1>5, <1>6

LEMMA Spaced ==
    ASSUME StackFits, way \in Ways, NEW j \in 1 .. MaxDepth, NEW k \in 1 .. MaxDepth
    PROVE  /\ ElementAt(k) \in Address \ {0}
           /\ way.wb = "WORD" => ElementAt(k) % 2 = 0
           /\ ElementAt(j) = ElementAt(k) => j = k
<1>1. /\ k \in Nat /\ k <= MaxDepth /\ k >= 1 /\ MaxDepth \in Nat
      /\ j \in Nat /\ j <= MaxDepth /\ j >= 1 /\ StackBase \in Nat /\ AddressSize \in Nat
  BY Sizes
<1>2. way.up \in {0, 1} /\ way.wb \in {"WORD", "BYTE"} /\ way.push \in {"PRE", "POST"}
  BY DEF Ways, Width
<1>3. ElementAt(k) \in Address \ {0}
  BY <1>1, <1>2, Sizes DEF ElementAt, Bytes, StackFits
<1>4. way.wb = "WORD" => ElementAt(k) % 2 = 0
  <2>1. \A u, v \in Int : u % 2 = 0 => (u + 2 * v) % 2 = 0 /\ (u - 2 * v) % 2 = 0
    OBVIOUS
  <2>. QED
    BY <1>1, <1>2, <2>1 DEF ElementAt, Bytes, StackFits
<1>5. ElementAt(j) = ElementAt(k) => j = k
  BY <1>1, <1>2 DEF ElementAt, Bytes
<1>. QED
  BY <1>3, <1>4, <1>5

LEMMA SpotsFit == StackFits /\ way \in Ways => Fits(Spots, way.wb)
<1>. SUFFICES ASSUME StackFits, way \in Ways
              PROVE  Fits(Spots, way.wb)
  OBVIOUS
<1>1. way.wb \in Width
  BY DEF Ways
<1>. QED
  BY <1>1, Spaced DEF Fits, Spots

(* Pushing and popping move SP by one element, and use the one they pass.  *)
LEMMA Steps ==
    ASSUME StackFits, way \in Ways, NEW k \in 1 .. MaxDepth
    PROVE  /\ Moved(At(k - 1), 1 - way.up, way.up, way.wb) = At(k)
           /\ Moved(At(k), way.up, 1 - way.up, way.wb) = At(k - 1)
           /\ ElementAt(k) = IF way.push = "PRE" THEN At(k) ELSE At(k - 1)
<1>1. /\ k \in Nat /\ k - 1 \in Nat /\ k \in 0 .. MaxDepth /\ k - 1 \in 0 .. MaxDepth
      /\ StackBase \in Nat /\ AddressSize \in Nat
  BY Sizes
<1>2. way.up \in {0, 1} /\ way.wb \in {"WORD", "BYTE"} /\ way.push \in {"PRE", "POST"}
  BY DEF Ways, Width
<1>3. At(k) \in Address /\ At(k - 1) \in Address
  BY <1>1, AtDepth
<1>4. /\ At(k - 1) + Bytes(way.wb) * (way.up - (1 - way.up)) = At(k)
      /\ At(k) + Bytes(way.wb) * ((1 - way.up) - way.up) = At(k - 1)
  BY <1>1, <1>2 DEF At, Bytes
<1>5. \A v \in Address : v % AddressSize = v
  <2>1. \A n \in Nat \ {0} : \A v \in 0 .. n - 1 : v % n = v
    OBVIOUS
  <2>. QED
    BY <2>1, Sizes
<1>6. ElementAt(k) = IF way.push = "PRE" THEN At(k) ELSE At(k - 1)
  BY <1>1, <1>2 DEF ElementAt, At
<1>. QED
  BY <1>3, <1>4, <1>5, <1>6 DEF Moved
-----------------------------------------------------------------------------
(* The invariant: SP is where as many elements as the stack has end, the   *)
(* lines serve the addresses of the stack, and a program of bytes has a    *)
(* byte in its register.                                                   *)

LInv ==
    /\ Typed
    /\ way.wb = "BYTE" => regs.X < ByteSize
    /\ Coherent(Spots, way.wb)
    /\ Depth \in 0 .. MaxDepth
    /\ regs.SP = At(Depth)

Element(k) == Value(Loaded(ElementAt(k), way.wb))

LEMMA LoadedValue ==
    ASSUME TypeOK, NEW a \in Address, NEW wb \in Width
    PROVE  /\ Value(Loaded(a, wb)) \in Address
           /\ wb = "BYTE" => Value(Loaded(a, wb)) < ByteSize
<1>1. Index(a) \in Lines
  BY IndexIsLine
<1>2. /\ cache[Index(a)].data \in Word
      /\ WrittenBack(Index(a)) \in [Address -> Byte]
  BY <1>1, WrittenBackMemory DEF TypeOK, LineType
<1>3. Narrow(cache[Index(a)].data, wb) \in Word
      /\ BusRead(WrittenBack(Index(a)), a, wb) \in Word
  BY <1>2, NarrowWord, BusReadWord
<1>4. Loaded(a, wb) \in Word
  BY <1>3 DEF Loaded, Resident, Narrow
<1>5. wb = "BYTE" => Loaded(a, wb)[2] = 0
  BY Sizes DEF Loaded, Narrow, LSByte, BusRead
<1>6. ASSUME wb = "BYTE"
      PROVE  Value(Loaded(a, wb)) < ByteSize
  <2>1. \A w \in Word : w[2] = 0 => Value(w) < ByteSize
    BY Sizes DEF Word, Value
  <2>. QED
    BY <1>4, <1>5, <1>6, <2>1
<1>. QED
  BY <1>4, <1>6, ValueAddress

LEMMA ExchangedKeeps ==
    ASSUME StackFits, LInv, Typed', way' = way, NEW a \in Spots, NEW v,
           Exchanged(Spots, way.wb, a, v), WriteThroughClean'
    PROVE  /\ Coherent(Spots, way.wb)'
           /\ \A j \in 1 .. MaxDepth :
                 Element(j)' = IF ElementAt(j) = a THEN Value(v) ELSE Element(j)
<1>1. PICK A, wb : A = Spots /\ wb = way.wb
  OBVIOUS
<1>2. /\ Fits(A, wb) /\ Coherent(A, wb) /\ Exchanged(A, wb, a, v) /\ a \in A
      /\ TypeOK' /\ WriteThroughClean'
  BY <1>1, SpotsFit DEF LInv, Typed
<1>3. Coherent(A, wb)'
  BY <1>2, ExchangedKeepsLines
<1>4. Spots' = A /\ (way.wb)' = wb
  BY <1>1 DEF Spots, ElementAt
<1>5. ASSUME NEW j \in 1 .. MaxDepth
      PROVE  Element(j)' = IF ElementAt(j) = a THEN Value(v) ELSE Element(j)
  <2>1. PICK b : b = ElementAt(j)
    OBVIOUS
  <2>2. b \in A
    BY <1>1, <2>1 DEF Spots
  <2>3. Loaded(b, wb)' = IF b = a THEN v ELSE Loaded(b, wb)
    BY <1>2, <1>3, <2>2, ExchangedLoads
  <2>4. ElementAt(j)' = b
    BY <2>1 DEF ElementAt
  <2>5. Element(j)' = Value(Loaded(b, wb)') /\ Element(j) = Value(Loaded(b, wb))
    BY <1>1, <1>4, <2>1, <2>4 DEF Element, Value
  <2>. QED
    BY <2>1, <2>3, <2>5
<1>. QED
  BY <1>3, <1>4, <1>5 DEF Coherent

LEMMA ReadKeeps ==
    ASSUME StackFits, LInv, Typed', way' = way, NEW k \in 1 .. MaxDepth,
           Read(ElementAt(k), way.wb)
    PROVE  /\ Coherent(Spots, way.wb)'
           /\ Value(mbr') = Element(k)
           /\ \A j \in 1 .. MaxDepth : Element(j)' = Element(j)
<1>1. PICK A, wb : A = Spots /\ wb = way.wb
  OBVIOUS
<1>2. PICK a : a = ElementAt(k)
  OBVIOUS
<1>3. /\ Fits(A, wb) /\ Coherent(A, wb) /\ a \in A /\ Read(a, wb)
      /\ a \in Address /\ wb \in Width /\ TypeOK /\ WriteThroughClean
  BY <1>1, <1>2, SpotsFit, Spaced DEF LInv, Typed, Spots, Coherent, Fits
<1>4. Exchanged(A, wb, a, Loaded(a, wb)) /\ mbr' = Loaded(a, wb)
  BY <1>3, ReadExchanged
<1>5. WriteThroughClean'
  BY <1>3, ReadClean
<1>6. PICK v : v = Loaded(a, wb)
  OBVIOUS
<1>7. Exchanged(Spots, way.wb, a, v) /\ a \in Spots /\ mbr' = v
  BY <1>1, <1>3, <1>4, <1>6
<1>8. /\ Coherent(Spots, way.wb)'
      /\ \A j \in 1 .. MaxDepth :
            Element(j)' = IF ElementAt(j) = a THEN Value(v) ELSE Element(j)
  BY <1>5, <1>7, ExchangedKeeps
<1>9. \A j \in 1 .. MaxDepth : ElementAt(j) = a => Element(j) = Value(v)
  BY <1>1, <1>6 DEF Element
<1>. QED
  BY <1>2, <1>7, <1>8, <1>9

LEMMA WriteKeeps ==
    ASSUME StackFits, LInv, Typed', way' = way, NEW k \in 1 .. MaxDepth,
           Write(ElementAt(k), Pair(regs.X), way.wb), way.wb = "BYTE" => ~WriteBack
    PROVE  /\ Coherent(Spots, way.wb)'
           /\ \A j \in 1 .. MaxDepth : Element(j)' = IF j = k THEN regs.X ELSE Element(j)
<1>1. PICK A, wb : A = Spots /\ wb = way.wb
  OBVIOUS
<1>2. PICK a, w : a = ElementAt(k) /\ w = Pair(regs.X)
  OBVIOUS
<1>3. regs.X \in Address /\ w \in Word /\ Value(w) = regs.X
  BY <1>2, PairWord DEF LInv, Typed
<1>4. /\ Fits(A, wb) /\ Coherent(A, wb) /\ a \in A /\ Write(a, w, wb)
      /\ a \in Address /\ wb \in Width /\ TypeOK /\ WriteThroughClean
      /\ wb = "BYTE" => ~WriteBack
  BY <1>1, <1>2, SpotsFit, Spaced DEF LInv, Typed, Spots, Coherent, Fits
<1>5. Exchanged(A, wb, a, Narrow(w, wb))
  BY <1>3, <1>4, WriteExchanged
<1>6. WriteThroughClean'
  BY <1>4, WriteClean
<1>7. PICK v : v = Narrow(w, wb)
  OBVIOUS
<1>8. /\ Coherent(Spots, way.wb)'
      /\ \A j \in 1 .. MaxDepth :
            Element(j)' = IF ElementAt(j) = a THEN Value(v) ELSE Element(j)
  <2>1. Exchanged(Spots, way.wb, a, v) /\ a \in Spots
    BY <1>1, <1>4, <1>5, <1>7
  <2>. QED
    BY <1>6, <2>1, ExchangedKeeps
<1>9. Value(v) = regs.X
  <2>1. CASE wb = "WORD"
    BY <1>3, <1>7, <2>1 DEF Narrow
  <2>2. CASE wb = "BYTE"
    <3>1. regs.X \in Nat /\ regs.X < ByteSize
      BY <1>1, <1>3, <2>2, Sizes DEF LInv
    <3>2. \A n \in Nat \ {0} : \A x \in Nat : x < n => x % n = x
      OBVIOUS
    <3>3. w[1] = regs.X
      BY <1>2, <3>1, <3>2, Sizes DEF Pair
    <3>. QED
      BY <1>7, <2>2, <3>1, <3>3, Sizes DEF Narrow, LSByte, Value
  <2>. QED
    BY <1>4, <2>1, <2>2 DEF Width
<1>10. \A j \in 1 .. MaxDepth : ElementAt(j) = a <=> j = k
  BY <1>2, Spaced DEF LInv, Typed
<1>. QED
  BY <1>8, <1>9, <1>10
-----------------------------------------------------------------------------
(* What each action of the program does to the invariant and the elements. *)

(* The offsets used are taken for what they mean: with the 7 bits and the  *)
(* bit 13 of the code, the offsets below 64.                               *)
Understood ==
    \A o \in Offsets :
        Displacement(o) = 2 * IF o < 2^(OffsetBits - 1) THEN o ELSE o - 2^OffsetBits

LEMMA DepthAfter ==
    ASSUME StackFits, way \in Ways, way' = way, NEW k \in 0 .. MaxDepth, regs'.SP = At(k)
    PROVE  Depth' = k /\ regs'.SP = At(Depth)'
<1>1. Depth' = k
  BY AtDepth DEF Depth
<1>2. At(Depth)' = At(k)
  BY <1>1 DEF At
<1>. QED
  BY <1>1, <1>2

LEMMA PushStep ==
    ASSUME StackFits, LInv, Typed', Push
    PROVE  /\ LInv' /\ Depth' = Depth + 1 /\ regs'.X = regs.X
           /\ \A j \in 1 .. MaxDepth :
                 Element(j)' = IF j = Depth + 1 THEN regs.X ELSE Element(j)
<1>1. PICK k : k = Depth + 1
  OBVIOUS
<1>2. /\ way \in Ways /\ way' = way /\ regs.SP = At(k - 1) /\ Depth = k - 1
      /\ k \in 1 .. MaxDepth /\ k \in 0 .. MaxDepth
      /\ way.wb = "BYTE" => ~WriteBack
  BY <1>1, Sizes DEF Push, LInv, Typed
<1>3. /\ Moved(regs["SP"], 1 - way.up, way.up, way.wb) = At(k)
      /\ ElementAt(k) = IF way.push = "PRE" THEN At(k) ELSE regs["SP"]
  BY <1>2, Steps
<1>4. /\ Write(ElementAt(k), Pair(regs.X), way.wb)
      /\ regs' = [regs EXCEPT !["SP"] = At(k)]
  BY <1>3 DEF Push, Store
<1>5. regs'.SP = At(k) /\ regs'.X = regs.X
  BY <1>4 DEF LInv, Typed
<1>6. Depth' = k /\ regs'.SP = At(Depth)'
  BY <1>2, <1>5, DepthAfter
<1>7. /\ Coherent(Spots, way.wb)'
      /\ \A j \in 1 .. MaxDepth : Element(j)' = IF j = k THEN regs.X ELSE Element(j)
  BY <1>2, <1>4, WriteKeeps
<1>8. LInv'
  <2>1. MaxDepth' = MaxDepth /\ (way.wb)' = way.wb /\ ByteSize' = ByteSize
    BY <1>2 DEF ByteSize
  <2>. QED
    BY <1>2, <1>5, <1>6, <1>7, <2>1 DEF LInv
<1>. QED
  BY <1>1, <1>5, <1>6, <1>7, <1>8

LEMMA ElementByte ==
    ASSUME StackFits, LInv, NEW k \in 1 .. MaxDepth
    PROVE  Element(k) \in Address /\ (way.wb = "BYTE" => Element(k) < ByteSize)
<1>1. TypeOK /\ way \in Ways /\ way.wb \in Width
  BY DEF LInv, Typed, Ways
<1>2. ElementAt(k) \in Address
  BY <1>1, Spaced
<1>. QED
  BY <1>1, <1>2, LoadedValue DEF Element

LEMMA PopStep ==
    ASSUME StackFits, LInv, Typed', Pop
    PROVE  /\ LInv' /\ Depth \in 1 .. MaxDepth /\ Depth' = Depth - 1
           /\ regs'.X = Element(Depth)
           /\ \A j \in 1 .. MaxDepth : Element(j)' = Element(j)
<1>1. PICK k : k = Depth
  OBVIOUS
<1>2. /\ way \in Ways /\ way' = way /\ regs.SP = At(k)
      /\ k \in 1 .. MaxDepth /\ k - 1 \in 0 .. MaxDepth
      /\ way.push \in {"PRE", "POST"}
  BY <1>1, Sizes DEF Pop, LInv, Typed, Ways
<1>3. /\ Moved(regs["SP"], way.up, 1 - way.up, way.wb) = At(k - 1)
      /\ ElementAt(k) = IF way.push = "PRE" THEN regs["SP"] ELSE At(k - 1)
  BY <1>2, Steps
<1>4. /\ Read(ElementAt(k), way.wb)
      /\ \/ regs' = [regs EXCEPT !["SP"] = At(k - 1), !["X"] = Value(mbr')]
         \/ regs' = [regs EXCEPT !["X"] = Value(mbr'), !["SP"] = At(k - 1)]
  <2>1. CASE way.push = "PRE"
    <3>1. Load("X", "SP", "POST", way.up, 1 - way.up, way.wb)
      BY <2>1 DEF Pop
    <3>2. /\ Read(regs["SP"], way.wb)
          /\ regs' = [regs EXCEPT !["X"] = Value(mbr'),
                                  !["SP"] = Moved(@, way.up, 1 - way.up, way.wb)]
      BY <3>1 DEF Load
    <3>3. [regs EXCEPT !["X"] = Value(mbr')]["SP"] = regs["SP"]
      BY DEF LInv, Typed
    <3>. QED
      BY <1>3, <2>1, <3>2, <3>3
  <2>2. CASE way.push = "POST"
    <3>1. Load("X", "SP", "PRE", way.up, 1 - way.up, way.wb)
      BY <2>2 DEF Pop
    <3>. QED
      BY <1>3, <2>2, <3>1 DEF Load
  <2>. QED
    BY <1>2, <2>1, <2>2
<1>5. regs'.SP = At(k - 1) /\ regs'.X = Value(mbr')
  BY <1>4 DEF LInv, Typed
<1>6. Depth' = k - 1 /\ regs'.SP = At(Depth)'
  BY <1>2, <1>5, DepthAfter
<1>7. /\ Coherent(Spots, way.wb)' /\ Value(mbr') = Element(k)
      /\ \A j \in 1 .. MaxDepth : Element(j)' = Element(j)
  BY <1>2, <1>4, ReadKeeps
<1>8. way.wb = "BYTE" => Element(k) < ByteSize
  BY <1>2, ElementByte
<1>9. LInv'
  <2>1. MaxDepth' = MaxDepth /\ (way.wb)' = way.wb /\ ByteSize' = ByteSize
    BY <1>2 DEF ByteSize
  <2>. QED
    BY <1>2, <1>5, <1>6, <1>7, <1>8, <2>1 DEF LInv
<1>. QED
  BY <1>1, <1>2, <1>5, <1>6, <1>7, <1>9

LEMMA DepthStays ==
    ASSUME LInv, way' = way, regs'.SP = regs.SP
    PROVE  Depth' = Depth /\ regs'.SP = At(Depth)'
<1>1. Depth' = Depth
  BY DEF Depth
<1>. QED
  BY <1>1 DEF At, LInv

LEMMA MeantElement ==
    ASSUME Understood, StackFits, LInv, NEW o \in Offsets, NEW k \in 1 .. Depth,
           Meant(o) = ElementAt(k)
    PROVE  /\ k \in 1 .. MaxDepth
           /\ (regs["SP"] + Displacement(o)) % AddressSize = ElementAt(k)
<1>1. k \in 1 .. MaxDepth
  BY Sizes DEF LInv
<1>. QED
  BY <1>1 DEF Understood, Meant

LEMMA PeekStep ==
    ASSUME Understood, StackFits, LInv, Typed', NEW k \in 1 .. Depth, Peek(k)
    PROVE  /\ LInv' /\ Depth' = Depth
           /\ regs'.X = Element(k) /\ place' = k
           /\ \A j \in 1 .. MaxDepth : Element(j)' = Element(j)
<1>1. PICK o \in Offsets : Meant(o) = ElementAt(k) /\ LoadRel("X", "SP", o, way.wb)
  BY DEF Peek
<1>2. k \in 1 .. MaxDepth /\ (regs["SP"] + Displacement(o)) % AddressSize = ElementAt(k)
  BY <1>1, MeantElement
<1>3. /\ Read(ElementAt(k), way.wb) /\ regs' = [regs EXCEPT !["X"] = Value(mbr')]
      /\ way' = way /\ place' = k
  BY <1>1, <1>2 DEF LoadRel, Peek
<1>4. regs'.SP = regs.SP /\ regs'.X = Value(mbr')
  BY <1>3 DEF LInv, Typed
<1>5. /\ Coherent(Spots, way.wb)' /\ Value(mbr') = Element(k)
      /\ \A j \in 1 .. MaxDepth : Element(j)' = Element(j)
  BY <1>2, <1>3, ReadKeeps
<1>6. Depth' = Depth /\ regs'.SP = At(Depth)'
  BY <1>3, <1>4, DepthStays
<1>7. way.wb = "BYTE" => Element(k) < ByteSize
  BY <1>2, ElementByte
<1>8. LInv'
  <2>1. MaxDepth' = MaxDepth /\ (way.wb)' = way.wb /\ ByteSize' = ByteSize
    BY <1>3 DEF ByteSize
  <2>. QED
    BY <1>4, <1>5, <1>6, <1>7, <2>1 DEF LInv
<1>. QED
  BY <1>3, <1>4, <1>5, <1>6, <1>8

LEMMA PokeStep ==
    ASSUME Understood, StackFits, LInv, Typed', NEW k \in 1 .. Depth, Poke(k)
    PROVE  /\ LInv' /\ Depth' = Depth /\ regs'.X = regs.X /\ place' = k
           /\ \A j \in 1 .. MaxDepth :
                 Element(j)' = IF j = k THEN regs.X ELSE Element(j)
<1>1. PICK o \in Offsets : Meant(o) = ElementAt(k) /\ StoreRel("SP", "X", o, way.wb)
  BY DEF Poke
<1>2. k \in 1 .. MaxDepth /\ (regs["SP"] + Displacement(o)) % AddressSize = ElementAt(k)
  BY <1>1, MeantElement
<1>3. /\ Write(ElementAt(k), Pair(regs.X), way.wb) /\ regs' = regs /\ way' = way
      /\ place' = k /\ (way.wb = "BYTE" => ~WriteBack)
  BY <1>1, <1>2 DEF StoreRel, Poke
<1>4. /\ Coherent(Spots, way.wb)'
      /\ \A j \in 1 .. MaxDepth : Element(j)' = IF j = k THEN regs.X ELSE Element(j)
  BY <1>2, <1>3, WriteKeeps
<1>5. Depth' = Depth /\ regs'.SP = At(Depth)'
  BY <1>3, DepthStays
<1>6. LInv'
  <2>1. MaxDepth' = MaxDepth /\ (way.wb)' = way.wb /\ ByteSize' = ByteSize
    BY <1>3 DEF ByteSize
  <2>. QED
    BY <1>3, <1>4, <1>5, <2>1 DEF LInv
<1>. QED
  BY <1>2, <1>3, <1>4, <1>5, <1>6

LEMMA ConfigureStep ==
    ASSUME StackFits, LInv, Typed', Configure
    PROVE  /\ LInv' /\ Depth' = Depth /\ regs'.X = regs.X
           /\ \A j \in 1 .. MaxDepth : Element(j)' = Element(j)
<1>1. PICK set \in Settings : Reconfigure(set[1], set[2])
  BY DEF Configure
<1>2. regs' = regs /\ way' = way /\ \A i \in Lines : ~cache[i].dirty
  BY DEF Configure, Clean
<1>3. PICK A, wb : A = Spots /\ wb = way.wb
  OBVIOUS
<1>4. Fits(A, wb) /\ Coherent(A, wb)
  BY <1>3, SpotsFit DEF LInv, Typed
<1>5. \A b \in A : Loaded(b, wb)' = Loaded(b, wb)
  BY <1>1, <1>2, <1>4, EmptiedLoads
<1>6. Spots' = A /\ (way.wb)' = wb
  BY <1>2, <1>3 DEF Spots, ElementAt
<1>7. Coherent(Spots, way.wb)'
  <2>1. Coherent(A, wb)'
    BY <1>1, <1>2, <1>4, EmptiedCoherent
  <2>. QED
    BY <1>6, <2>1 DEF Coherent
<1>8. ASSUME NEW j \in 1 .. MaxDepth
      PROVE  Element(j)' = Element(j)
  <2>1. PICK b : b = ElementAt(j)
    OBVIOUS
  <2>2. b \in A /\ ElementAt(j)' = b
    BY <1>2, <1>3, <2>1 DEF Spots, ElementAt
  <2>. QED
    BY <1>3, <1>5, <1>6, <2>1, <2>2 DEF Element, Value
<1>9. Depth' = Depth /\ regs'.SP = At(Depth)'
  BY <1>2, DepthStays
<1>10. LInv'
  <2>1. MaxDepth' = MaxDepth /\ (way.wb)' = way.wb /\ ByteSize' = ByteSize
    BY <1>2 DEF ByteSize
  <2>. QED
    BY <1>2, <1>7, <1>9, <2>1 DEF LInv
<1>. QED
  BY <1>2, <1>8, <1>9, <1>10

(* Steps that leave cache and memory alone.                                *)
LEMMA StillStep ==
    ASSUME StackFits, LInv, Typed', UNCHANGED <<vars, way>>, regs'.SP = regs.SP,
           way.wb = "BYTE" => regs'.X < ByteSize
    PROVE  /\ LInv' /\ Depth' = Depth
           /\ \A j \in 1 .. MaxDepth : Element(j)' = Element(j)
<1>1. way' = way /\ UNCHANGED vars
  OBVIOUS
<1>2. Coherent(Spots, way.wb)'
  BY <1>1 DEF LInv, Coherent, vars, TypeOK, WriteThroughClean, WriteBack, SingleCopy,
              DirectPlaced, Direct, Spots, ElementAt
<1>3. ASSUME NEW j \in 1 .. MaxDepth
      PROVE  Element(j)' = Element(j)
  BY <1>1 DEF vars, Element, ElementAt, Loaded, Hit, Direct, Matches, Resident,
              Index, LastMatch, LruLine, IsLru, WrittenBack, Value
<1>4. Depth' = Depth /\ regs'.SP = At(Depth)'
  BY <1>1, DepthStays
<1>5. LInv'
  <2>1. MaxDepth' = MaxDepth /\ (way.wb)' = way.wb /\ ByteSize' = ByteSize
    BY <1>1 DEF ByteSize
  <2>. QED
    BY <1>2, <1>4, <2>1 DEF LInv
<1>. QED
  BY <1>3, <1>4, <1>5

LEMMA SetStep ==
    ASSUME StackFits, LInv, Typed', Set
    PROVE  /\ LInv' /\ Depth' = Depth
           /\ \A j \in 1 .. MaxDepth : Element(j)' = Element(j)
<1>1. PICK v \in Item : (way.wb = "BYTE" => v < ByteSize) /\ regs' = [regs EXCEPT !.X = v]
  BY DEF Set
<1>2. regs'.SP = regs.SP /\ regs'.X = v
  BY <1>1 DEF LInv, Typed
<1>3. way.wb = "BYTE" => regs'.X < ByteSize
  BY <1>1, <1>2
<1>4. UNCHANGED <<vars, way>>
  BY DEF Set
<1>. QED
  BY <1>2, <1>3, <1>4, StillStep
-----------------------------------------------------------------------------
(* Sequences given by their length and their elements.                     *)

LEMMA SameElements ==
    ASSUME NEW S, NEW D, NEW s \in [D -> S], NEW t \in [D -> S],
           \A k \in D : t[k] = s[k]
    PROVE  t = s
  OBVIOUS

LEMMA Lengths ==
    ASSUME NEW S, NEW n \in Nat, NEW s \in [1 .. n -> S]
    PROVE  s \in Seq(S) /\ Len(s) = n
<1>1. s \in Seq(S)
  BY SeqDef
<1>2. Len(s) \in Nat /\ DOMAIN s = 1 .. Len(s) /\ DOMAIN s = 1 .. n
  BY <1>1, LenProperties
<1>. QED
  BY <1>1, <1>2

LEMMA Appended ==
    ASSUME NEW S, NEW n \in Nat, NEW s \in [1 .. n -> S], NEW t \in [1 .. n + 1 -> S],
           NEW v \in S, t[n + 1] = v, \A k \in 1 .. n : t[k] = s[k]
    PROVE  t = Append(s, v)
<1>1. s \in Seq(S) /\ Len(s) = n
  BY Lengths
<1>. DEFINE u == Append(s, v)
<1>3. /\ u \in Seq(S) /\ Len(u) = n + 1 /\ u[n + 1] = v
      /\ \A k \in 1 .. n : u[k] = s[k]
  BY <1>1, AppendProperties
<1>4. u \in [1 .. n + 1 -> S]
  BY <1>3, LenProperties
<1>. HIDE DEF u
<1>5. ASSUME NEW k \in 1 .. n + 1
      PROVE  t[k] = u[k]
  <2>1. k \in 1 .. n \/ k = n + 1
    OBVIOUS
  <2>. QED
    BY <1>3, <2>1
<1>6. t = u
  BY <1>4, <1>5
<1>. QED
  BY <1>6 DEF u

LEMMA Shortened ==
    ASSUME NEW S, NEW n \in Nat \ {0}, NEW s \in [1 .. n -> S],
           NEW t \in [1 .. n - 1 -> S], \A k \in 1 .. n - 1 : t[k] = s[k]
    PROVE  s # <<>> /\ Len(s) = n /\ t = SubSeq(s, 1, n - 1)
<1>1. s \in Seq(S) /\ Len(s) = n
  BY Lengths
<1>2. s # <<>>
  BY <1>1
<1>. DEFINE u == SubSeq(s, 1, n - 1)
<1>3. u \in Seq(S) /\ Len(u) = n - 1 /\ \A k \in 1 .. n - 1 : u[k] = s[k]
  <2>1. \A k \in 1 .. n - 1 : s[k] \in S
    OBVIOUS
  <2>2. /\ u \in Seq(S) /\ Len(u) = IF 1 <= n - 1 THEN (n - 1) - 1 + 1 ELSE 0
        /\ \A k \in 1 .. (n - 1) - 1 + 1 : u[k] = s[1 + k - 1]
    BY <2>1, SubSeqProperties
  <2>3. \A k \in 1 .. n - 1 : u[k] = s[1 + k - 1] /\ 1 + k - 1 = k
    BY <2>2
  <2>. QED
    BY <2>2, <2>3
<1>4. u \in [1 .. n - 1 -> S]
  BY <1>3, LenProperties
<1>. HIDE DEF u
<1>5. t = u
  BY <1>3, <1>4
<1>. QED
  BY <1>1, <1>2, <1>5 DEF u
-----------------------------------------------------------------------------
(* The refinement.                                                         *)

TheStack == [k \in 1 .. Depth |-> Element(k)]

LEMMA StackType ==
    ASSUME StackFits, LInv
    PROVE  /\ Depth \in Nat /\ regs.X \in Address
           /\ TheStack \in [1 .. Depth -> Address]
           /\ \A k \in 1 .. Depth : k \in 1 .. MaxDepth
<1>1. Depth \in Nat /\ regs.X \in Address /\ \A k \in 1 .. Depth : k \in 1 .. MaxDepth
  BY Sizes DEF LInv, Typed
<1>2. \A k \in 1 .. Depth : Element(k) \in Address
  BY <1>1, ElementByte
<1>. QED
  BY <1>1, <1>2 DEF TheStack

LEMMA LInitInv == StackFits /\ LInit => LInv
<1>. SUFFICES ASSUME StackFits, LInit
              PROVE  LInv
  OBVIOUS
<1>1. Typed /\ way \in Ways /\ regs.SP = StackBase /\ regs.X = 0
  BY LInitTyped DEF LInit
<1>2. Coherent(Spots, way.wb)
  BY <1>1 DEF LInit, Init, Typed, Coherent, WriteThroughClean, WriteBack, SingleCopy,
              DirectPlaced, EmptyLine
<1>3. At(0) = StackBase
  BY Sizes DEF At, Bytes
<1>4. Depth = 0 /\ 0 \in 0 .. MaxDepth
  BY <1>1, <1>3, AtDepth, Sizes DEF Depth
<1>. QED
  BY <1>1, <1>2, <1>3, <1>4, Sizes DEF LInv

LEMMA StackInit == StackFits /\ LInit => AsStack!Init
<1>. SUFFICES ASSUME StackFits, LInit
              PROVE  AsStack!Init
  OBVIOUS
<1>1. Depth = 0 /\ regs.X \in Address
  <2>1. regs.SP = StackBase /\ way \in Ways
    BY DEF LInit
  <2>2. At(0) = StackBase
    BY Sizes DEF At, Bytes
  <2>3. Depth = 0
    BY <2>1, <2>2, AtDepth, Sizes DEF Depth
  <2>. QED
    BY <2>3, Sizes DEF LInit
<1>2. [k \in 1 .. Depth |-> Value(Loaded(ElementAt(k), way.wb))] = <<>>
  BY <1>1
<1>. QED
  BY <1>1, <1>2 DEF AsStack!Init, LInit

(* The same in the state after a step.                                     *)
StackTyped ==
    StackFits /\ LInv => /\ Depth \in Nat /\ regs.X \in Address
                         /\ TheStack \in [1 .. Depth -> Address]

LEMMA StackTypedAlways == StackTyped
  BY StackType DEF StackTyped

LEMMA StackTypedThen == StackTyped'
  BY StackTypedAlways, PTL

LEMMA StackAfter ==
    ASSUME StackFits, LInv'
    PROVE  /\ Depth' \in Nat /\ regs'.X \in Address
           /\ TheStack' \in [1 .. Depth' -> Address]
           /\ \A k \in 1 .. Depth' : TheStack'[k] = Element(k)'
<1>1. StackFits'
  BY DEF StackFits, AddressSize
<1>2. \A k \in 1 .. Depth' : TheStack'[k] = Element(k)'
  BY DEF TheStack
<1>. QED
  BY <1>1, <1>2, StackTypedThen DEF StackTyped

LEMMA SameStack ==
    ASSUME StackFits, LInv, LInv', Depth' = Depth,
           \A j \in 1 .. MaxDepth : Element(j)' = Element(j)
    PROVE  TheStack' = TheStack
<1>1. PICK s, t, D : s = TheStack /\ t = TheStack' /\ D = 1 .. Depth
  OBVIOUS
<1>2. s \in [D -> Address] /\ t \in [D -> Address]
  BY <1>1, StackType, StackAfter
<1>3. \A k \in D : t[k] = s[k]
  BY <1>1, StackType, StackAfter DEF TheStack
<1>4. t = s
  BY <1>2, <1>3, SameElements
<1>. QED
  BY <1>1, <1>4

LEMMA StackStep ==
    ASSUME Understood, StackFits, LInv, Typed', [LNext]_lvars
    PROVE  LInv' /\ [AsStack!Next]_(AsStack!svars)
<1>1. /\ Depth \in Nat /\ regs.X \in Address /\ TheStack \in [1 .. Depth -> Address]
      /\ \A k \in 1 .. Depth : k \in 1 .. MaxDepth /\ TheStack[k] = Element(k)
  BY StackType DEF TheStack
<1>2. CASE Set
  <2>1. LInv' /\ TheStack' = TheStack
    BY <1>2, SetStep, SameStack
  <2>2. regs'.X \in Address
    BY <2>1, StackAfter
  <2>3. AsStack!Set
    BY <1>2, <2>1, <2>2 DEF Set, AsStack!Set, TheStack, Element
  <2>. QED
    BY <2>1, <2>3 DEF AsStack!Next
<1>3. CASE Push
  <2>1. /\ LInv' /\ Depth' = Depth + 1 /\ regs'.X = regs.X
        /\ \A j \in 1 .. MaxDepth :
              Element(j)' = IF j = Depth + 1 THEN regs.X ELSE Element(j)
    BY <1>3, PushStep
  <2>2. /\ TheStack' \in [1 .. Depth + 1 -> Address]
        /\ \A k \in 1 .. Depth + 1 : TheStack'[k] = Element(k)'
        /\ \A k \in 1 .. Depth + 1 : k \in 1 .. MaxDepth
    <3>1. Depth + 1 \in 0 .. MaxDepth
      BY <2>1 DEF LInv
    <3>. QED
      BY <1>1, <2>1, <3>1, StackAfter
  <2>3. TheStack' = Append(TheStack, regs.X)
    <3>1. /\ TheStack'[Depth + 1] = regs.X
          /\ \A k \in 1 .. Depth : TheStack'[k] = TheStack[k]
      BY <1>1, <2>1, <2>2
    <3>. QED
      BY <1>1, <2>2, <3>1, Appended
  <2>4. AsStack!Push
    <3>1. place' = 0
      BY <1>3 DEF Push
    <3>. QED
      BY <2>1, <2>3, <3>1 DEF AsStack!Push, TheStack, Element
  <2>. QED
    BY <2>1, <2>4 DEF AsStack!Next
<1>4. CASE Pop
  <2>1. /\ LInv' /\ Depth \in 1 .. MaxDepth /\ Depth' = Depth - 1
        /\ regs'.X = Element(Depth)
        /\ \A j \in 1 .. MaxDepth : Element(j)' = Element(j)
    BY <1>4, PopStep
  <2>2. /\ Depth \in Nat \ {0} /\ TheStack' \in [1 .. Depth - 1 -> Address]
        /\ \A k \in 1 .. Depth - 1 : TheStack'[k] = TheStack[k]
    BY <1>1, <2>1, StackAfter
  <2>3. /\ TheStack # <<>> /\ Len(TheStack) = Depth
        /\ TheStack' = SubSeq(TheStack, 1, Depth - 1)
    BY <1>1, <2>2, Shortened
  <2>4. TheStack[Depth] = Element(Depth)
    BY <1>1, <2>2
  <2>5. AsStack!Pop
    <3>1. place' = 0
      BY <1>4 DEF Pop
    <3>. QED
      BY <2>1, <2>3, <2>4, <3>1 DEF AsStack!Pop, TheStack, Element
  <2>. QED
    BY <2>1, <2>5 DEF AsStack!Next
<1>5. ASSUME NEW k \in 1 .. Depth, Peek(k)
      PROVE  LInv' /\ [AsStack!Next]_(AsStack!svars)
  <2>1. /\ LInv' /\ TheStack' = TheStack
        /\ regs'.X = Element(k) /\ place' = k
    BY <1>5, PeekStep, SameStack
  <2>2. k \in DOMAIN TheStack /\ regs'.X = TheStack[k]
    BY <1>1, <2>1
  <2>3. AsStack!Peek(k)
    BY <2>1, <2>2 DEF AsStack!Peek, TheStack, Element
  <2>. QED
    BY <2>1, <2>2, <2>3 DEF AsStack!Next, TheStack, Element
<1>6. ASSUME NEW k \in 1 .. Depth, Poke(k)
      PROVE  LInv' /\ [AsStack!Next]_(AsStack!svars)
  <2>1. /\ LInv' /\ Depth' = Depth /\ regs'.X = regs.X /\ place' = k
        /\ \A j \in 1 .. MaxDepth :
              Element(j)' = IF j = k THEN regs.X ELSE Element(j)
    BY <1>6, PokeStep
  <2>2. /\ TheStack' \in [1 .. Depth -> Address]
        /\ \A j \in 1 .. Depth : TheStack'[j] = IF j = k THEN regs.X ELSE TheStack[j]
    BY <1>1, <2>1, StackAfter
  <2>3. TheStack' = [TheStack EXCEPT ![k] = regs.X] /\ k \in DOMAIN TheStack
    BY <1>1, <2>2
  <2>4. AsStack!Poke(k)
    BY <2>1, <2>3 DEF AsStack!Poke, TheStack, Element
  <2>. QED
    BY <2>1, <2>3, <2>4 DEF AsStack!Next, TheStack, Element
<1>7. CASE Configure
  <2>1. LInv' /\ TheStack' = TheStack /\ regs'.X = regs.X /\ place' = place
    BY <1>7, ConfigureStep, SameStack DEF Configure
  <2>. QED
    BY <2>1 DEF AsStack!svars, TheStack, Element
<1>8. CASE UNCHANGED lvars
  <2>1. UNCHANGED <<vars, way>> /\ regs' = regs /\ place' = place
    BY <1>8 DEF lvars
  <2>2. way.wb = "BYTE" => regs'.X < ByteSize
    BY <2>1 DEF LInv
  <2>3. LInv' /\ TheStack' = TheStack
    BY <2>1, <2>2, StillStep, SameStack
  <2>. QED
    BY <2>1, <2>3 DEF AsStack!svars, TheStack, Element
<1>. QED
  BY <1>2, <1>3, <1>4, <1>5, <1>6, <1>7, <1>8 DEF LNext

(* Whatever the number of lines, the organization, the policy and the      *)
(* changes between them, and whichever elements have left the cache, the   *)
(* program's stack behaves as a sequence: a pop or a peek loads what was   *)
(* last pushed or poked there.  For stacks between address 0 and the end   *)
(* of memory, and offsets the code takes for what they mean.               *)
THEOREM ImplementsStackCorrect ==
    ASSUME StackFits, Understood
    PROVE  LSpec => ImplementsStack
<1>1. LInit => AsStack!Init /\ LInv /\ Typed
  BY StackInit, LInitInv, LInitTyped
<1>2. Typed /\ [LNext]_lvars => Typed'
  BY TypedInvariant
<1>3. LInv /\ Typed' /\ [LNext]_lvars => LInv' /\ [AsStack!Next]_(AsStack!svars)
  BY StackStep
<1>. QED
  BY <1>1, <1>2, <1>3, PTL DEF LSpec, ImplementsStack, AsStack!Spec
================================================================================

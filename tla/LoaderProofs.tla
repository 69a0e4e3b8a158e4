----------------------------- MODULE LoaderProofs -----------------------------
(***************************************************************************)
(* Proofs about Loader, for every width of a byte, every longest record    *)
(* and every file.                                                         *)
(***************************************************************************)
EXTENDS Loader, WellFoundedInduction, TLAPS

LEMMA Sizes ==
    /\ ByteSize \in Nat \ {0} /\ MaxLength \in Nat /\ Unreadable \notin Byte
    /\ ByteSize * ByteSize \in Nat \ {0}
<1>1. \A b \in Nat \ {0} : b * b \in Nat \ {0}
  OBVIOUS
<1>. QED
  BY <1>1, FilesAssumption

LEMMA Least ==
    ASSUME NEW T, T \subseteq Nat, T # {}
    PROVE  \E x \in T : \A y \in T : x <= y
<1>1. PICK x \in T : \A y \in T : ~(<<y, x>> \in OpToRel(<, Nat))
  BY NatLessThanWellFounded, WFMin
<1>2. \A y \in T : ~(y < x)
  BY <1>1 DEF OpToRel
<1>. QED
  BY <1>2

(* An address is made of two bytes.                                        *)
LEMMA TwoBytes ==
    ASSUME NEW h \in Byte, NEW l \in Byte
    PROVE  ByteSize * h + l \in Address
<1>1. \A b, x, y \in Nat : x < b /\ y < b => b * x + y < b * b /\ b * x + y \in Nat
  <2>1. SUFFICES ASSUME NEW b \in Nat, NEW x \in Nat, NEW y \in Nat, x < b, y < b
                 PROVE  b * x + y < b * b /\ b * x + y \in Nat
    OBVIOUS
  <2>2. b * x <= b * (b - 1)
    BY <2>1
  <2>3. b * (b - 1) = b * b - b
    BY <2>1
  <2>. QED
    BY <2>1, <2>2, <2>3
<1>. QED
  BY <1>1, Sizes DEF Byte, Address

LEMMA MaxIs ==
    ASSUME NEW S, S \subseteq Nat, NEW k \in S, \A j \in S : j <= k
    PROVE  Max(S) = k
<1>1. \E x \in S : \A y \in S : x >= y
  OBVIOUS
<1>2. Max(S) \in S /\ \A y \in S : Max(S) >= y
  BY <1>1 DEF Max
<1>3. Max(S) \in Nat /\ k \in Nat /\ Max(S) >= k /\ Max(S) <= k
  BY <1>2, Zenon
<1>. QED
  BY <1>3
-----------------------------------------------------------------------------
(* A line.                                                                 *)

LEMMA Read ==
    ASSUME Wanted \in Nat
    PROVE  /\ DataRead \in 0 .. Wanted
           /\ \A k \in 1 .. DataRead : Readable(k)
           /\ DataRead < Wanted => ~Readable(DataRead + 1)
<1>. DEFINE T == {k \in Nat : k = Wanted \/ ~Readable(k + 1)}
<1>1. Wanted \in T
  OBVIOUS
<1>2. PICK x \in T : \A y \in T : x <= y
  BY <1>1, Least
<1>3. x \in 0 .. Wanted /\ (x < Wanted => ~Readable(x + 1))
  BY <1>1, <1>2
<1>4. ASSUME NEW k \in 1 .. x
      PROVE  Readable(k)
  <2>1. k - 1 \in Nat /\ ~(x <= k - 1) /\ (k - 1) + 1 = k
    BY <1>3
  <2>. QED
    BY <1>2, <2>1
<1>. QED
  BY <1>3, <1>4, Zenon DEF DataRead

LEMMA Fields ==
    ASSUME file \in Seq(Line), next \in 1 .. Len(file)
    PROVE  /\ line \in Line
           /\ line.length \in Field /\ line.high \in Field /\ line.low \in Field
           /\ \A k \in DOMAIN line.bytes : k \in Nat \ {0} /\ line.bytes[k] \in Field
<1>1. line \in Line
  BY DEF line
<1>2. line.length \in Field /\ line.high \in Field /\ line.low \in Field
  BY <1>1 DEF Line
<1>3. line.bytes \in Seq(Field)
  BY <1>1 DEF Line
<1>4. \A k \in DOMAIN line.bytes : k \in Nat \ {0} /\ line.bytes[k] \in Field
  BY <1>3
<1>. QED
  BY <1>1, <1>2, <1>4

LEMMA Scanned ==
    ASSUME file \in Seq(Line), next \in 1 .. Len(file), FixedFieldsRead, Valid
    PROVE  /\ line.length \in Nat /\ line.length >= 3 /\ line.length <= MaxLength
           /\ Wanted \in Nat /\ Addr \in Address /\ Addr = Place(line)
           /\ line.type \in Types /\ Says(line)
           /\ Written \in Nat /\ Written <= Wanted
<1>1. line.length \in Nat /\ line.length >= 3 /\ line.length <= MaxLength
  BY Fields, Sizes DEF Valid
<1>2. line.high \in Byte /\ line.low \in Byte
  BY Fields DEF FixedFieldsRead, Field
<1>3. Addr \in Address
  BY <1>2, TwoBytes DEF Addr
<1>4. Wanted \in Nat
  BY <1>1 DEF Wanted
<1>5. DataRead \in Nat /\ DataRead <= Wanted
  BY <1>4, Read
<1>6. Written \in Nat /\ Written <= Wanted
  BY <1>4, <1>5 DEF Written
<1>. QED
  BY <1>1, <1>3, <1>4, <1>6 DEF Valid, Says, FixedFieldsRead, Place, Addr

(* What a line stores is what it says of the addresses.                    *)
LEMMA Stored ==
    ASSUME file \in Seq(Line), next \in 1 .. Len(file), FixedFieldsRead, Valid,
           NEW a \in Address
    PROVE  /\ a \in Addr .. Addr + Written - 1 <=> Holds(line, a)
           /\ Holds(line, a) => line.bytes[a - Addr + 1] \in Byte
<1>. DEFINE p == Addr
            g == line.length
<1>1. /\ g \in Nat /\ g >= 3 /\ Wanted = g - 3 /\ p \in Nat
      /\ p = Place(line) /\ Says(line) /\ Wanted \in Nat /\ a \in Nat
  BY Scanned, Sizes DEF Address, Wanted
<1>2. /\ DataRead \in Nat /\ DataRead <= Wanted
      /\ \A k \in 1 .. DataRead : Readable(k)
      /\ DataRead < Wanted => ~Readable(DataRead + 1)
  BY <1>1, Read
<1>. HIDE DEF p, g
<1>3. Holds(line, a) <=> /\ line.type = "S1"
                         /\ a \in p .. p + g - 4
                         /\ \A k \in 1 .. a - p + 1 : Readable(k)
  BY <1>1 DEF Holds, Readable, g
<1>4. ASSUME line.type = "S1", a \in p .. p + DataRead - 1
      PROVE  Holds(line, a)
  <2>1. a \in p .. p + g - 4
    BY <1>1, <1>2, <1>4
  <2>2. \A k \in 1 .. a - p + 1 : k \in 1 .. DataRead
    BY <1>1, <1>2, <1>4
  <2>. QED
    BY <1>2, <1>3, <1>4, <2>1, <2>2
<1>5. ASSUME Holds(line, a)
      PROVE  a \in p .. p + DataRead - 1
  <2>1. a \in Nat /\ a >= p /\ a <= p + g - 4
    BY <1>1, <1>3, <1>5
  <2>2. ASSUME a > p + DataRead - 1
        PROVE  FALSE
    <3>1. DataRead < Wanted /\ DataRead + 1 \in 1 .. a - p + 1
      BY <1>1, <1>2, <2>1, <2>2
    <3>. QED
      BY <1>2, <1>3, <1>5, <3>1
  <2>. QED
    BY <1>1, <1>2, <2>1, <2>2
<1>6. a \in p .. p + Written - 1 <=> Holds(line, a)
  <2>1. CASE line.type = "S1"
    BY <1>4, <1>5, <2>1 DEF Written
  <2>2. CASE line.type # "S1"
    BY <1>1, <1>3, <2>2 DEF Written
  <2>. QED
    BY <2>1, <2>2
<1>7. ASSUME Holds(line, a)
      PROVE  line.bytes[a - p + 1] \in Byte
  <2>1. a - p + 1 \in 1 .. a - p + 1
    BY <1>1, <1>3, <1>7
  <2>2. Readable(a - p + 1)
    BY <1>3, <1>7, <2>1
  <2>. QED
    BY <2>2, Fields DEF Readable, Field
<1>. QED
  BY <1>6, <1>7 DEF p

LEMMA NothingSaid ==
    ASSUME NEW a, ~FixedFieldsRead \/ ~Valid
    PROVE  ~Holds(line, a)
BY DEF Holds, Says, FixedFieldsRead, Valid, Types
-----------------------------------------------------------------------------
(* Type correctness.                                                       *)

LEMMA WrittenByte ==
    ASSUME TypeOK, Loading, FixedFieldsRead, Valid, Store
    PROVE  mem' \in [Address -> Byte]
<1>1. file \in Seq(Line) /\ next \in 1 .. Len(file)
  BY DEF TypeOK, Loading
<1>2. ASSUME NEW a \in Address
      PROVE  (IF a \in Addr .. Addr + Written - 1 THEN line.bytes[a - Addr + 1] ELSE mem[a])
                \in Byte
  BY <1>1, Stored DEF TypeOK
<1>. QED
  BY <1>2 DEF Store

LEMMA Typed ==
    ASSUME TypeOK, [Next]_vars
    PROVE  TypeOK'
<1>1. CASE UNCHANGED vars
  BY <1>1 DEF TypeOK, vars
<1>2. ByteSize * ByteSize - 1 \in Address
  BY Sizes DEF Address
<1>3. CASE Unscannable
  BY <1>2, <1>3 DEF TypeOK, Unscannable, Fail
<1>4. CASE Ignored
  BY <1>4 DEF TypeOK, Ignored, Loading
<1>5. CASE Record
  <2>1. file \in Seq(Line) /\ next \in 1 .. Len(file)
    BY <1>5 DEF TypeOK, Record, Loading
  <2>2. Addr \in Address /\ mem' \in [Address -> Byte]
    BY <1>5, <2>1, Scanned, WrittenByte DEF Record
  <2>. QED
    BY <1>5, <2>1, <2>2 DEF TypeOK, Record
<1>6. CASE Truncated
  <2>1. file \in Seq(Line) /\ next \in 1 .. Len(file)
    BY <1>6 DEF TypeOK, Truncated, Loading
  <2>2. Addr \in Address /\ mem' \in [Address -> Byte]
    BY <1>6, <2>1, Scanned, WrittenByte DEF Truncated
  <2>. QED
    BY <1>2, <1>6, <2>1, <2>2 DEF TypeOK, Truncated, Fail
<1>7. CASE Overrun
  BY <1>7 DEF TypeOK, Overrun
<1>8. CASE EndOfFile
  BY <1>8 DEF TypeOK, EndOfFile
<1>. QED
  BY <1>1, <1>3, <1>4, <1>5, <1>6, <1>7, <1>8 DEF Next

(* Memory holds bytes, and every value main puts in the PC is an address.  *)
THEOREM TypeCorrect == Spec => []TypeOK
<1>1. Init => TypeOK
  <2>1. 0 \in Address /\ 0 \in Byte
    BY Sizes DEF Address, Byte
  <2>. QED
    BY <2>1, FilesAssumption DEF Init, TypeOK
<1>2. TypeOK /\ [Next]_vars => TypeOK'
  BY Typed
<1>. QED
  BY <1>1, <1>2, PTL DEF Spec
-----------------------------------------------------------------------------
(* The image of the file in memory.  Image is MemoryIsImage with the last  *)
(* record of an address exhibited; it is inductive with TypeOK.            *)

Unsaid(a) == \A k \in 1 .. Done : ~Holds(file[k], a)
Said(a, k) == /\ k \in 1 .. Done /\ Holds(file[k], a)
              /\ \A j \in 1 .. Done : Holds(file[j], a) => j <= k
Image ==
    \A a \in Address :
        \/ Unsaid(a) /\ mem[a] = 0
        \/ \E k \in Nat : Said(a, k) /\ mem[a] = file[k].bytes[a - Place(file[k]) + 1]

(* A line more, of which memory holds what it says.                        *)
LEMMA LineMore ==
    ASSUME TypeOK, Image, at = "loading", next <= Len(file), file' = file, Done' = next,
           \A a \in Address :
               mem'[a] = IF Holds(line, a) THEN line.bytes[a - Place(line) + 1] ELSE mem[a]
    PROVE  Image'
<1>1. next \in Nat /\ next >= 1 /\ Done = next - 1 /\ line = file[next]
  BY DEF TypeOK, Done, line
<1>2. \A k : k \in 1 .. Done' <=> k \in 1 .. Done \/ k = next
  BY <1>1
<1>. SUFFICES ASSUME NEW a \in Address
     PROVE  \/ Unsaid(a)' /\ mem'[a] = 0
            \/ \E k \in Nat : Said(a, k)' /\ mem'[a] = file[k].bytes[a - Place(file[k]) + 1]
  BY DEF Image
<1>3. CASE Holds(line, a)
  <2>1. PICK k \in Nat : k = next
    BY <1>1
  <2>2. Said(a, k)'
    BY <1>1, <1>2, <1>3, <2>1 DEF Said
  <2>3. mem'[a] = file[k].bytes[a - Place(file[k]) + 1]
    BY <1>1, <1>3, <2>1
  <2>. QED
    BY <2>2, <2>3
<1>4. CASE ~Holds(line, a)
  <2>1. mem'[a] = mem[a]
    BY <1>4
  <2>2. CASE Unsaid(a) /\ mem[a] = 0
    <3>1. Unsaid(a)'
      BY <1>1, <1>2, <1>4, <2>2 DEF Unsaid
    <3>. QED
      BY <2>1, <2>2, <3>1
  <2>3. ASSUME NEW k \in Nat, Said(a, k), mem[a] = file[k].bytes[a - Place(file[k]) + 1]
        PROVE  Said(a, k)' /\ mem'[a] = file[k].bytes[a - Place(file[k]) + 1]
    <3>1. Said(a, k)'
      BY <1>1, <1>2, <1>4, <2>3 DEF Said
    <3>. QED
      BY <2>1, <2>3, <3>1
  <2>. QED
    BY <2>2, <2>3 DEF Image
<1>. QED
  BY <1>3, <1>4

LEMMA Imaged ==
    ASSUME TypeOK, Image, [Next]_vars
    PROVE  Image'
<1>1. ASSUME UNCHANGED <<file, mem>>, Done' = Done
      PROVE  Image'
  BY <1>1 DEF Image, Unsaid, Said
<1>2. CASE UNCHANGED vars
  BY <1>1, <1>2 DEF vars, Done
<1>3. ASSUME Loading
      PROVE  /\ at = "loading" /\ next <= Len(file) /\ next \in Nat
             /\ file \in Seq(Line) /\ next \in 1 .. Len(file)
  BY <1>3 DEF Loading, TypeOK
<1>4. ASSUME Loading, file' = file, ~FixedFieldsRead \/ ~Valid, mem' = mem, Done' = next
      PROVE  Image'
  BY <1>3, <1>4, LineMore, NothingSaid
<1>5. ASSUME Loading, FixedFieldsRead, Valid, Store, file' = file, Done' = next
      PROVE  Image'
  <2>1. \A a \in Address :
            mem'[a] = IF Holds(line, a) THEN line.bytes[a - Place(line) + 1] ELSE mem[a]
    <3>1. SUFFICES ASSUME NEW a \in Address
                   PROVE  mem'[a] = IF Holds(line, a)
                                    THEN line.bytes[a - Place(line) + 1] ELSE mem[a]
      OBVIOUS
    <3>2. mem'[a] = IF a \in Addr .. Addr + Written - 1
                    THEN line.bytes[a - Addr + 1] ELSE mem[a]
      BY <1>5 DEF Store
    <3>3. a \in Addr .. Addr + Written - 1 <=> Holds(line, a)
      BY <1>3, <1>5, Stored
    <3>4. Addr = Place(line)
      BY DEF Addr, Place
    <3>. QED
      BY <3>2, <3>3, <3>4
  <2>. QED
    BY <1>3, <1>5, <2>1, LineMore
<1>6. CASE Unscannable
  BY <1>3, <1>4, <1>6 DEF Unscannable, Fail, Done
<1>7. CASE Ignored
  BY <1>3, <1>4, <1>7 DEF Ignored, Done
<1>8. CASE Record
  BY <1>3, <1>5, <1>8 DEF Record, Done
<1>9. CASE Truncated
  BY <1>3, <1>5, <1>9 DEF Truncated, Fail, Done
<1>10. CASE Overrun
  BY <1>1, <1>3, <1>10 DEF Overrun, Done
<1>11. CASE EndOfFile
  BY <1>1, <1>11 DEF EndOfFile, Done
<1>. QED
  BY <1>2, <1>6, <1>7, <1>8, <1>9, <1>10, <1>11 DEF Next

LEMMA ImageMeans ==
    ASSUME TypeOK, Image
    PROVE  MemoryIsImage
<1>. SUFFICES ASSUME NEW a \in Address
     PROVE  LET said == {k \in 1 .. Done : Holds(file[k], a)}
            IN  IF said = {} THEN mem[a] = 0
                ELSE LET l == file[Max(said)]
                     IN  mem[a] = l.bytes[a - Place(l) + 1]
  BY DEF MemoryIsImage
<1>. DEFINE said == {k \in 1 .. Done : Holds(file[k], a)}
<1>1. CASE Unsaid(a) /\ mem[a] = 0
  <2>1. said = {}
    BY <1>1 DEF Unsaid
  <2>. QED
    BY <1>1, <2>1
<1>2. ASSUME NEW k \in Nat, Said(a, k), mem[a] = file[k].bytes[a - Place(file[k]) + 1]
      PROVE  said # {} /\ Max(said) = k
  <2>1. k \in said /\ said \subseteq Nat /\ \A j \in said : j <= k
    BY <1>2 DEF Said
  <2>. QED
    BY <2>1, MaxIs
<1>. QED
  BY <1>1, <1>2 DEF Image

(* Whether or not the load succeeds: an address holds what the last record *)
(* so far said of it that got as far as its byte, and 0 if none did.       *)
THEOREM MemoryIsImageCorrect == Spec => []MemoryIsImage
<1>1. Init => Image
  BY DEF Init, Image, Unsaid, Done
<1>2. TypeOK /\ Image /\ [Next]_vars => Image'
  BY Imaged
<1>3. TypeOK /\ Image => MemoryIsImage
  BY ImageMeans
<1>. QED
  BY <1>1, <1>2, <1>3, TypeCorrect, PTL DEF Spec
-----------------------------------------------------------------------------
(* What a load without a message means.                                    *)

LastEnd(k, n) == /\ k \in 1 .. n /\ file[k].type = "S9"
                 /\ \A j \in 1 .. n : file[j].type = "S9" => j <= k
Silent ==
    ~reported =>
        /\ at # "failed"
        /\ \A k \in 1 .. next - 1 : Right(file[k])
        /\ \/ (\A k \in 1 .. next - 1 : file[k].type # "S9") /\ startAddress = 0
           \/ \E k \in Nat : LastEnd(k, next - 1) /\ startAddress = Place(file[k])
Ended == at = "loaded" => next = Len(file) + 1 /\ pc = startAddress

LEMMA Summed ==
    ASSUME TypeOK, Record, Sum = ByteSize - 1
    PROVE  Right(line)
<1>1. file \in Seq(Line) /\ next \in 1 .. Len(file)
  BY DEF TypeOK, Record, Loading
<1>2. /\ Says(line) /\ line.type \in Types
      /\ Wanted \in Nat /\ Wanted = line.length - 3 /\ line.length \in Nat
  BY <1>1, Scanned DEF Record, Wanted
<1>3. DataRead = Wanted /\ Readable(Wanted + 1) /\ \A k \in 1 .. DataRead : Readable(k)
  BY <1>2, Read DEF Record, Complete
<1>4. \A k \in 1 .. line.length - 2 : k \in 1 .. DataRead \/ k = Wanted + 1
  BY <1>2, <1>3
<1>5. \A k \in 1 .. line.length - 2 : Readable(k)
  BY <1>3, <1>4
<1>. QED
  BY <1>2, <1>5 DEF Right, Readable, Sum

LEMMA Hushed ==
    ASSUME TypeOK, Silent, Ended, [Next]_vars
    PROVE  Silent' /\ Ended'
<1>1. CASE UNCHANGED vars
  BY <1>1 DEF Silent, Ended, LastEnd, vars
<1>2. CASE Unscannable \/ Truncated
  BY <1>2 DEF Unscannable, Truncated, Fail, Silent, Ended
<1>3. CASE Ignored
  BY <1>3 DEF Ignored, Loading, Silent, Ended
<1>4. CASE Record
  <2>1. Ended' /\ at' = "loading"
    BY <1>4 DEF Record, Loading, Ended
  <2>2. SUFFICES ASSUME ~reported'
                 PROVE  Silent'
    BY <2>1 DEF Silent
  <2>3. ~reported /\ Right(line) /\ line = file[next] /\ file' = file /\ next' = next + 1
    BY <1>4, <2>2, Summed DEF Record, line
  <2>4. next \in Nat /\ next >= 1 /\ next' - 1 = next
    BY <2>3 DEF TypeOK
  <2>5. \A k : k \in 1 .. next' - 1 <=> k \in 1 .. next - 1 \/ k = next
    BY <2>4
  <2>6. \A k \in 1 .. next' - 1 : Right(file'[k])
    BY <2>3, <2>5 DEF Silent
  <2>7. CASE line.type = "S9"
    <3>1. PICK k \in Nat : k = next
      BY <2>4
    <3>2. startAddress' = Place(file'[k])
      BY <1>4, <2>3, <2>7, <3>1 DEF Record, Addr, Place
    <3>3. LastEnd(k, next - 1)'
      BY <2>3, <2>4, <2>5, <2>7, <3>1 DEF LastEnd
    <3>. QED
      BY <2>1, <2>6, <3>2, <3>3 DEF Silent
  <2>8. CASE line.type # "S9"
    <3>1. startAddress' = startAddress
      BY <1>4, <2>8 DEF Record
    <3>. QED
      BY <2>1, <2>3, <2>4, <2>5, <2>6, <2>8, <3>1 DEF Silent, LastEnd
  <2>. QED
    BY <2>7, <2>8
<1>5. CASE Overrun
  BY <1>5 DEF Overrun, Silent, Ended, LastEnd
<1>6. CASE EndOfFile
  BY <1>6 DEF EndOfFile, Silent, Ended, LastEnd, TypeOK
<1>. QED
  BY <1>1, <1>2, <1>3, <1>4, <1>5, <1>6 DEF Next

LEMMA HushedMeans ==
    ASSUME TypeOK, Silent, Ended
    PROVE  SilentMeansRight
<1>. SUFFICES ASSUME at = "loaded", ~reported
     PROVE  /\ \A k \in DOMAIN file : Right(file[k])
            /\ LET ends == {k \in DOMAIN file : file[k].type = "S9"}
               IN  pc = IF ends = {} THEN 0 ELSE Place(file[Max(ends)])
  BY DEF SilentMeansRight
<1>. DEFINE ends == {k \in DOMAIN file : file[k].type = "S9"}
<1>1. DOMAIN file = 1 .. next - 1 /\ pc = startAddress
  BY DEF Ended, TypeOK
<1>2. \A k \in DOMAIN file : Right(file[k])
  BY <1>1 DEF Silent
<1>3. CASE (\A k \in 1 .. next - 1 : file[k].type # "S9") /\ startAddress = 0
  <2>1. ends = {}
    BY <1>1, <1>3
  <2>. QED
    BY <1>1, <1>2, <1>3, <2>1
<1>4. ASSUME NEW k \in Nat, LastEnd(k, next - 1), startAddress = Place(file[k])
      PROVE  ends # {} /\ Max(ends) = k
  <2>1. k \in ends /\ ends \subseteq Nat /\ \A j \in ends : j <= k
    BY <1>1, <1>4 DEF LastEnd
  <2>. QED
    BY <2>1, MaxIs
<1>. QED
  BY <1>1, <1>2, <1>3, <1>4 DEF Silent

(* A load that printed no error found every line to be a whole record with *)
(* the right checksum, and main starts at the address of the last S9.      *)
THEOREM SilentMeansRightCorrect == Spec => []SilentMeansRight
<1>1. Init => Silent /\ Ended
  BY DEF Init, Silent, Ended
<1>2. TypeOK /\ Silent /\ Ended /\ [Next]_vars => Silent' /\ Ended'
  BY Hushed
<1>3. TypeOK /\ Silent /\ Ended => SilentMeansRight
  BY HushedMeans
<1>. QED
  BY <1>1, <1>2, <1>3, TypeCorrect, PTL DEF Spec
================================================================================

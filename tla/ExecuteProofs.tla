----------------------------- MODULE ExecuteProofs -----------------------------
(***************************************************************************)
(* Proofs about Execute, for every operand, all flags and any set of       *)
(* instruction words.  First the words and bits of Alu, then decoding,     *)
(* then the steps and what each group of instructions computes.            *)
(***************************************************************************)
EXTENDS Execute, TLAPS
-----------------------------------------------------------------------------
(* Words and bits.  The provers spell a range of constants out, so words   *)
(* are numbers with bounds here.                                           *)

LEMMA Interval == \A lo, hi \in Int : \A w : w \in lo .. hi <=> w \in Int /\ lo <= w /\ w <= hi
  OBVIOUS

LEMMA Words16 == \A w : w \in Word <=> w \in Nat /\ w < 65536
<1>1. MaxWord = 65535
  BY DEF MaxWord
<1>2. \A w : w \in Word <=> w \in Int /\ 0 <= w /\ w <= MaxWord
  <2>1. MaxWord \in Int
    BY <1>1
  <2>. QED
    BY <2>1, Interval DEF Word
<1>. QED
  BY <1>1, <1>2

LEMMA IrWords == \A w \in Words : w \in Nat /\ w < 65536
<1>1. Words \subseteq Word
  BY WordsAssumption, PTL DEF Word, MaxWord
<1>. QED
  BY <1>1, Words16

(* What & has at least and at most, for every number of bits.              *)
Within(and, x, y, m) ==
    /\ and \in Nat /\ and <= x /\ and <= y
    /\ and >= x + y - (m - 1)

LEMMA Halving ==
    ASSUME NEW h \in {2, 4, 16, 256}, NEW x \in Nat, x < h * h
    PROVE  /\ x % h \in Nat /\ x % h < h
           /\ x \div h \in Nat /\ x \div h < h
           /\ x = h * (x \div h) + (x % h)
<1>1. CASE h = 2
  BY <1>1
<1>2. CASE h = 4
  BY <1>2
<1>3. CASE h = 16
  BY <1>3
<1>4. CASE h = 256
  BY <1>4
<1>. QED
  BY <1>1, <1>2, <1>3, <1>4

LEMMA And1Within == \A x, y \in Nat : x < 2 /\ y < 2 => Within(And1(x, y), x, y, 2)
<1>1. SUFFICES ASSUME NEW x \in Nat, NEW y \in Nat, x < 2, y < 2
      PROVE  Within(x * y, x, y, 2)
  BY DEF And1
<1>2. (x = 0 \/ x = 1) /\ (y = 0 \/ y = 1)
  BY <1>1
<1>. QED
  BY <1>2 DEF Within

LEMMA And2Within == \A x, y \in Nat : x < 4 /\ y < 4 => Within(And2(x, y), x, y, 4)
<1>1. SUFFICES ASSUME NEW x \in Nat, NEW y \in Nat, x < 4, y < 4
      PROVE  Within(And2(x, y), x, y, 4)
  OBVIOUS
<1>2. Within(And1(x % 2, y % 2), x % 2, y % 2, 2)
  BY <1>1, Halving, And1Within
<1>3. Within(And1(x \div 2, y \div 2), x \div 2, y \div 2, 2)
  BY <1>1, Halving, And1Within
<1>. QED
  BY <1>1, <1>2, <1>3, Halving DEF Within, And2, Halves

LEMMA And4Within == \A x, y \in Nat : x < 16 /\ y < 16 => Within(And4(x, y), x, y, 16)
<1>1. SUFFICES ASSUME NEW x \in Nat, NEW y \in Nat, x < 16, y < 16
      PROVE  Within(And4(x, y), x, y, 16)
  OBVIOUS
<1>2. Within(And2(x % 4, y % 4), x % 4, y % 4, 4)
  BY <1>1, Halving, And2Within
<1>3. Within(And2(x \div 4, y \div 4), x \div 4, y \div 4, 4)
  BY <1>1, Halving, And2Within
<1>. QED
  BY <1>1, <1>2, <1>3, Halving DEF Within, And4, Halves

LEMMA And8Within == \A x, y \in Nat : x < 256 /\ y < 256 => Within(And8(x, y), x, y, 256)
<1>1. SUFFICES ASSUME NEW x \in Nat, NEW y \in Nat, x < 256, y < 256
      PROVE  Within(And8(x, y), x, y, 256)
  OBVIOUS
<1>2. Within(And4(x % 16, y % 16), x % 16, y % 16, 16)
  BY <1>1, Halving, And4Within
<1>3. Within(And4(x \div 16, y \div 16), x \div 16, y \div 16, 16)
  BY <1>1, Halving, And4Within
<1>. QED
  BY <1>1, <1>2, <1>3, Halving DEF Within, And8, Halves

LEMMA AndWithin == \A x, y \in Word : Within(And(x, y), x, y, 65536)
<1>1. SUFFICES ASSUME NEW x \in Nat, NEW y \in Nat, x < 65536, y < 65536
      PROVE  Within(And(x, y), x, y, 65536)
  BY Words16
<1>2. Within(And8(x % 256, y % 256), x % 256, y % 256, 256)
  BY <1>1, Halving, And8Within
<1>3. Within(And8(x \div 256, y \div 256), x \div 256, y \div 256, 256)
  BY <1>1, Halving, And8Within
<1>. QED
  BY <1>1, <1>2, <1>3, Halving DEF Within, And, Halves

LEMMA LogicalWord ==
    ASSUME NEW op \in {"XOR", "AND", "OR"}, NEW x \in Word, NEW y \in Word
    PROVE  Logical(op, x, y) \in Word
<1>1. Within(And(x, y), x, y, 65536)
  BY AndWithin
<1>2. And(x, y) \in Word /\ Or(x, y) \in Word /\ Xor(x, y) \in Word
  BY <1>1, Words16 DEF Within, Or, Xor
<1>3. Logical(op, x, y) \in {And(x, y), Or(x, y), Xor(x, y)}
  BY Zenon DEF Logical
<1>. QED
  BY <1>2, <1>3

LEMMA OfWord ==
    ASSUME NEW w \in Word
    PROVE  /\ MSByte(w) \in Nat /\ MSByte(w) < 256
           /\ LSByte(w) \in Nat /\ LSByte(w) < 256
           /\ w = 256 * MSByte(w) + LSByte(w)
           /\ Not(w) \in Word /\ Negated(w) \in Word
<1>1. w \in Nat /\ w < 65536
  BY Words16
<1>2. Not(w) \in Word
  BY <1>1, Words16 DEF Not
<1>3. Negated(w) \in Word
  BY <1>1, Words16 DEF Negated
<1>. QED
  BY <1>1, <1>2, <1>3, Halving DEF MSByte, LSByte

LEMMA CombineWord ==
    ASSUME NEW m \in Nat, m < 256, NEW b \in Word
    PROVE  /\ combine_bytes(m, b) \in Word
           /\ b < 256 => combine_bytes(m, b) = 256 * m + b
<1>1. 256 * m \in Word
  BY Words16
<1>2. Within(And(256 * m, b), 256 * m, b, 65536)
  BY <1>1, AndWithin
<1>3. Or(256 * m, b) \in Word
  BY <1>1, <1>2, Words16 DEF Within, Or
<1>4. b < 256 => 256 * m + b \in Word
  BY Words16
<1>. QED
  BY <1>3, <1>4 DEF combine_bytes

(* The numbers of the two widths.                                          *)
LEMMA Sizes ==
    ASSUME NEW wb \in Width
    PROVE  \/ wb = "WORD" /\ Size(wb) = 65536
           \/ wb = "BYTE" /\ Size(wb) = 256
  BY DEF Width, Size

LEMMA LowAndSign ==
    ASSUME NEW wb \in Width, NEW w \in Word
    PROVE  /\ Low(w, wb) \in Word /\ Low(w, wb) < Size(wb)
           /\ MSBit(w, wb) = 0 \/ MSBit(w, wb) = 1
           /\ 0 <= Low(w, wb) - MSBit(w, wb) * (Size(wb) \div 2)
           /\ Low(w, wb) - MSBit(w, wb) * (Size(wb) \div 2) < Size(wb) \div 2
<1>1. w \in Nat /\ w < 65536
  BY Words16
<1>2. CASE wb = "WORD" /\ Size(wb) = 65536
  BY <1>1, <1>2, Words16 DEF Low, MSBit
<1>3. CASE wb = "BYTE" /\ Size(wb) = 256
  BY <1>1, <1>3, Words16 DEF Low, MSBit
<1>. QED
  BY <1>2, <1>3, Sizes

(* A result of the width goes to its place, and a byte leaves the other    *)
(* byte as it was.                                                         *)
LEMMA PlacedWord ==
    ASSUME NEW wb \in Width, NEW x \in Word, NEW low \in Word, low < Size(wb)
    PROVE  /\ Placed(x, low, wb) \in Word
           /\ Low(Placed(x, low, wb), wb) = low
           /\ wb = "BYTE" => MSByte(Placed(x, low, wb)) = MSByte(x)
<1>1. low \in Nat /\ low < 65536
  BY Words16
<1>2. CASE wb = "WORD" /\ Size(wb) = 65536
  BY <1>1, <1>2 DEF Placed, Low
<1>3. CASE wb = "BYTE" /\ Size(wb) = 256
  <2>1. MSByte(x) \in Nat /\ MSByte(x) < 256
    BY OfWord
  <2>2. /\ Placed(x, low, wb) = 256 * MSByte(x) + low
        /\ Placed(x, low, wb) \in Word
    BY <1>3, <2>1, CombineWord DEF Placed
  <2>3. (256 * MSByte(x) + low) % 256 = low
    BY <1>1, <1>3, <2>1
  <2>4. (256 * MSByte(x) + low) \div 256 = MSByte(x)
    BY <1>1, <1>3, <2>1
  <2>. QED
    BY <1>3, <2>2, <2>3, <2>4 DEF Low, MSByte
<1>. QED
  BY <1>2, <1>3, Sizes

(* The flags, and the tables update_psw looks them up in: a carry is the   *)
(* majority of the sign bits of source, destination and, inverted, result; *)
(* an overflow is a result of another sign than both.                      *)
Carries(ms, md, mr)   == ms + md + (1 - mr) >= 2
Overflows(ms, md, mr) == ms = md /\ mr # md

LEMMA Tables ==
    ASSUME NEW wb \in Width, NEW x \in Word, NEW y \in Word, NEW r \in Word
    PROVE  /\ Entry(<<0, 0, 1, 0, 1, 0, 1, 1>>, y, x, r, wb)
                  = Flag(Carries(MSBit(y, wb), MSBit(x, wb), MSBit(r, wb)))
           /\ Entry(<<0, 1, 0, 0, 0, 0, 1, 0>>, y, x, r, wb)
                  = Flag(Overflows(MSBit(y, wb), MSBit(x, wb), MSBit(r, wb)))
<1>1. ASSUME NEW ms \in {0, 1}, NEW md \in {0, 1}, NEW mr \in {0, 1}
      PROVE  /\ <<0, 0, 1, 0, 1, 0, 1, 1>>[4 * ms + 2 * md + mr + 1]
                    = Flag(Carries(ms, md, mr))
             /\ <<0, 1, 0, 0, 0, 0, 1, 0>>[4 * ms + 2 * md + mr + 1]
                    = Flag(Overflows(ms, md, mr))
  <2>1. CASE ms = 0 /\ md = 0
    BY <2>1 DEF Carries, Overflows, Flag
  <2>2. CASE ms = 0 /\ md = 1
    BY <2>2 DEF Carries, Overflows, Flag
  <2>3. CASE ms = 1 /\ md = 0
    BY <2>3 DEF Carries, Overflows, Flag
  <2>4. CASE ms = 1 /\ md = 1
    BY <2>4 DEF Carries, Overflows, Flag
  <2>. QED
    BY <2>1, <2>2, <2>3, <2>4
<1>2. /\ MSBit(y, wb) \in {0, 1} /\ MSBit(x, wb) \in {0, 1}
      /\ MSBit(r, wb) \in {0, 1}
  BY LowAndSign
<1>. QED
  BY <1>1, <1>2 DEF Entry

LEMMA UpdatedFlags ==
    ASSUME NEW f \in PSW, NEW wb \in Width,
           NEW x \in Word, NEW y \in Word, NEW r \in Word
    PROVE  LET p == update_psw(f, x, y, r, wb)
           IN  /\ p \in PSW
               /\ p.carry = Flag(Carries(MSBit(y, wb), MSBit(x, wb), MSBit(r, wb)))
               /\ p.overflow = Flag(Overflows(MSBit(y, wb), MSBit(x, wb), MSBit(r, wb)))
               /\ p.zero = Flag(Low(r, wb) = 0)
               /\ p.negative = MSBit(r, wb)
<1>1. MSBit(r, wb) \in Bit
  BY LowAndSign DEF Bit
<1>2. \A b : Flag(b) \in Bit
  BY DEF Flag, Bit
<1>. DEFINE c == Entry(<<0, 0, 1, 0, 1, 0, 1, 1>>, y, x, r, wb)
            o == Entry(<<0, 1, 0, 0, 0, 0, 1, 0>>, y, x, r, wb)
            z == Flag(Low(r, wb) = 0)
            g == MSBit(r, wb)
            p == update_psw(f, x, y, r, wb)
<1>3. /\ c = Flag(Carries(MSBit(y, wb), MSBit(x, wb), MSBit(r, wb)))
      /\ o = Flag(Overflows(MSBit(y, wb), MSBit(x, wb), MSBit(r, wb)))
  BY Tables
<1>4. c \in Bit /\ o \in Bit /\ z \in Bit /\ g \in Bit
  BY <1>1, <1>2, <1>3, Zenon
<1>5. p = [f EXCEPT !.carry = c, !.zero = z, !.negative = g, !.overflow = o]
  BY Zenon DEF update_psw
<1>. HIDE DEF c, o, z, g, p
<1>6. p \in PSW /\ p.carry = c /\ p.zero = z /\ p.negative = g /\ p.overflow = o
  BY <1>4, <1>5 DEF PSW
<1>. QED
  BY <1>3, <1>6 DEF p, z, g

(* The powers of 2 that are bits of a word, and how a bit cuts a word.      *)
LEMMA Powers ==
    ASSUME NEW k \in Nat, k < 16
    PROVE  \/ (k = 0 /\ 2^k = 1)
           \/ (k = 1 /\ 2^k = 2)
           \/ (k = 2 /\ 2^k = 4)
           \/ (k = 3 /\ 2^k = 8)
           \/ (k = 4 /\ 2^k = 16)
           \/ (k = 5 /\ 2^k = 32)
           \/ (k = 6 /\ 2^k = 64)
           \/ (k = 7 /\ 2^k = 128)
           \/ (k = 8 /\ 2^k = 256)
           \/ (k = 9 /\ 2^k = 512)
           \/ (k = 10 /\ 2^k = 1024)
           \/ (k = 11 /\ 2^k = 2048)
           \/ (k = 12 /\ 2^k = 4096)
           \/ (k = 13 /\ 2^k = 8192)
           \/ (k = 14 /\ 2^k = 16384)
           \/ (k = 15 /\ 2^k = 32768)
<1>1. 2^0 = 1 /\ 2^1 = 2 /\ 2^2 = 4 /\ 2^3 = 8 /\ 2^4 = 16 /\ 2^5 = 32
  OBVIOUS
<1>2. 2^6 = 64 /\ 2^7 = 128 /\ 2^8 = 256 /\ 2^9 = 512 /\ 2^10 = 1024 /\ 2^11 = 2048
  OBVIOUS
<1>3. 2^12 = 4096 /\ 2^13 = 8192 /\ 2^14 = 16384 /\ 2^15 = 32768
  OBVIOUS
<1>4. \/ k = 0 \/ k = 1 \/ k = 2 \/ k = 3 \/ k = 4 \/ k = 5 \/ k = 6 \/ k = 7
      \/ k = 8 \/ k = 9 \/ k = 10 \/ k = 11 \/ k = 12 \/ k = 13 \/ k = 14 \/ k = 15
  OBVIOUS
<1>5. CASE k = 0
  BY <1>1, <1>5
<1>6. CASE k = 1
  BY <1>1, <1>6
<1>7. CASE k = 2
  BY <1>1, <1>7
<1>8. CASE k = 3
  BY <1>1, <1>8
<1>9. CASE k = 4
  BY <1>1, <1>9
<1>10. CASE k = 5
  BY <1>1, <1>10
<1>11. CASE k = 6
  BY <1>2, <1>11
<1>12. CASE k = 7
  BY <1>2, <1>12
<1>13. CASE k = 8
  BY <1>2, <1>13
<1>14. CASE k = 9
  BY <1>2, <1>14
<1>15. CASE k = 10
  BY <1>2, <1>15
<1>16. CASE k = 11
  BY <1>2, <1>16
<1>17. CASE k = 12
  BY <1>3, <1>17
<1>18. CASE k = 13
  BY <1>3, <1>18
<1>19. CASE k = 14
  BY <1>3, <1>19
<1>20. CASE k = 15
  BY <1>3, <1>20
<1>. QED
  BY <1>4, <1>5, <1>6, <1>7, <1>8, <1>9, <1>10, <1>11, <1>12, <1>13, <1>14, <1>15, <1>16, <1>17, <1>18, <1>19, <1>20

LEMMA BitZeroOne ==
    \A w \in Nat, k \in Nat : w < 65536 /\ k < 16 => BitOf(w, k) = 0 \/ BitOf(w, k) = 1
<1>1. SUFFICES ASSUME NEW w \in Nat, NEW k \in Nat, w < 65536, k < 16
      PROVE  BitOf(w, k) = 0 \/ BitOf(w, k) = 1
  OBVIOUS
<1>2. ASSUME NEW p \in Nat, p > 0
      PROVE  (w \div p) % 2 = 0 \/ (w \div p) % 2 = 1
  BY <1>2
<1>3. 2^k \in Nat /\ 2^k > 0
  BY <1>1, Powers
<1>. QED
  BY <1>2, <1>3 DEF BitOf

LEMMA WithBitWord ==
    ASSUME NEW x \in Word, NEW k \in Nat, NEW b \in Bit
    PROVE  /\ WithBit(x, k, b) \in Word
           /\ k < 8 => MSByte(WithBit(x, k, b)) = MSByte(x)
<1>1. x \in Nat /\ x < 65536 /\ (b = 0 \/ b = 1)
  BY Words16 DEF Bit
<1>2. ASSUME NEW p \in {1, 2, 4, 8, 16, 32, 64, 128}
      PROVE  /\ x + (b - ((x \div p) % 2)) * p \in Nat
             /\ x + (b - ((x \div p) % 2)) * p < 65536
             /\ (x + (b - ((x \div p) % 2)) * p) \div 256 = x \div 256
  <2>1. CASE p = 1
    BY <1>1, <2>1
  <2>2. CASE p = 2
    BY <1>1, <2>2
  <2>3. CASE p = 4
    BY <1>1, <2>3
  <2>4. CASE p = 8
    BY <1>1, <2>4
  <2>5. CASE p = 16
    BY <1>1, <2>5
  <2>6. CASE p = 32
    BY <1>1, <2>6
  <2>7. CASE p = 64
    BY <1>1, <2>7
  <2>8. CASE p = 128
    BY <1>1, <2>8
  <2>. QED
    BY <2>1, <2>2, <2>3, <2>4, <2>5, <2>6, <2>7, <2>8
<1>3. ASSUME NEW p \in {256, 512, 1024, 2048, 4096, 8192, 16384, 32768}
      PROVE  /\ x + (b - ((x \div p) % 2)) * p \in Nat
             /\ x + (b - ((x \div p) % 2)) * p < 65536
  <2>1. CASE p = 256
    BY <1>1, <2>1
  <2>2. CASE p = 512
    BY <1>1, <2>2
  <2>3. CASE p = 1024
    BY <1>1, <2>3
  <2>4. CASE p = 2048
    BY <1>1, <2>4
  <2>5. CASE p = 4096
    BY <1>1, <2>5
  <2>6. CASE p = 8192
    BY <1>1, <2>6
  <2>7. CASE p = 16384
    BY <1>1, <2>7
  <2>8. CASE p = 32768
    BY <1>1, <2>8
  <2>. QED
    BY <2>1, <2>2, <2>3, <2>4, <2>5, <2>6, <2>7, <2>8
<1>4. CASE k < 8
  <2>1. 2^k \in {1, 2, 4, 8, 16, 32, 64, 128}
    BY <1>4, Powers
  <2>2. WithBit(x, k, b) = x + (b - ((x \div 2^k) % 2)) * 2^k
    BY <1>4 DEF WithBit, BitOf
  <2>. QED
    BY <1>2, <2>1, <2>2, Words16 DEF MSByte
<1>5. CASE 8 <= k /\ k < 16
  <2>1. 2^k \in {256, 512, 1024, 2048, 4096, 8192, 16384, 32768}
    BY <1>5, Powers
  <2>2. WithBit(x, k, b) = x + (b - ((x \div 2^k) % 2)) * 2^k
    BY <1>5 DEF WithBit, BitOf
  <2>. QED
    BY <1>3, <1>5, <2>1, <2>2, Words16
<1>6. CASE 15 < k
  BY <1>6 DEF WithBit
<1>. QED
  BY <1>4, <1>5, <1>6

LEMMA LowOfInt ==
    ASSUME NEW wb \in Width, NEW w \in Int
    PROVE  Low(w, wb) \in Word /\ Low(w, wb) < Size(wb)
<1>1. CASE wb = "WORD" /\ Size(wb) = 65536
  BY <1>1, Words16 DEF Low
<1>2. CASE wb = "BYTE" /\ Size(wb) = 256
  BY <1>2, Words16 DEF Low
<1>. QED
  BY <1>1, <1>2, Sizes

(* What add, logical, shift and rotate put in the place of the width.      *)
LEMMA Halved ==
    ASSUME NEW wb \in Width, NEW x \in Word, NEW c \in Bit
    PROVE  LET low == Low(x, wb) \div 2 + c * (Size(wb) \div 2)
           IN  low \in Word /\ low < Size(wb)
<1>1. Low(x, wb) \in Nat /\ Low(x, wb) < Size(wb)
  BY LowAndSign, Words16
<1>2. c = 0 \/ c = 1
  BY DEF Bit
<1>3. CASE wb = "WORD" /\ Size(wb) = 65536
  BY <1>1, <1>2, <1>3, Words16
<1>4. CASE wb = "BYTE" /\ Size(wb) = 256
  BY <1>1, <1>2, <1>4, Words16
<1>. QED
  BY <1>3, <1>4, Sizes

LEMMA Computed ==
    ASSUME NEW wb \in Width, NEW x \in Word, NEW y \in Word, NEW c \in Bit
    PROVE  /\ add(x, y, c, wb) \in Word
           /\ add_decimal(x, y, wb) \in Word
           /\ \A op \in {"XOR", "AND", "OR"} : logical(op, x, y, wb) \in Word
           /\ Placed(x, Low(y, wb), wb) \in Word
           /\ shift(x, wb) \in Word /\ rotate(c, x, wb) \in Word
           /\ complement(x, wb) \in Word
           /\ swap_byte(x) \in Word /\ sign_extend(x) \in Word
<1>1. x \in Nat /\ x < 65536 /\ y \in Nat /\ y < 65536 /\ (c = 0 \/ c = 1)
  BY Words16 DEF Bit
<1>2. add(x, y, c, wb) \in Word
  <2>1. x + y + c \in Int
    BY <1>1
  <2>. QED
    BY <2>1, LowOfInt, PlacedWord DEF add
<1>3. add_decimal(x, y, wb) \in Word
  <2>1. ASSUME NEW a \in Int, NEW b \in Int, NEW h \in Int
        PROVE  bcd_arith(a, b, h) \in Nat /\ bcd_arith(a, b, h) < 16
    <3>1. HalfCarry(a, b, h) \in Int
      BY DEF HalfCarry, Flag
    <3>. QED
      BY <3>1 DEF bcd_arith
  <2>2. ASSUME NEW k \in {0, 1, 2, 3}
        PROVE  Nibble(x, k) \in Int /\ Nibble(y, k) \in Int
    <3>1. 16^0 = 1 /\ 16^1 = 16 /\ 16^2 = 256 /\ 16^3 = 4096
      OBVIOUS
    <3>. QED
      BY <1>1, <3>1 DEF Nibble
  <2>3. \A a, b, h : HalfCarry(a, b, h) \in Int
    BY DEF HalfCarry, Flag
  <2>. DEFINE h1 == HalfCarry(Nibble(x, 0), Nibble(y, 0), 0)
              h2 == HalfCarry(Nibble(x, 1), Nibble(y, 1), h1)
              h3 == HalfCarry(Nibble(x, 2), Nibble(y, 2), h2)
              r0 == bcd_arith(Nibble(x, 0), Nibble(y, 0), 0)
              r1 == bcd_arith(Nibble(x, 1), Nibble(y, 1), h1)
              r2 == bcd_arith(Nibble(x, 2), Nibble(y, 2), h2)
              r3 == bcd_arith(Nibble(x, 3), Nibble(y, 3), h3)
  <2>4. h1 \in Int /\ h2 \in Int /\ h3 \in Int
    BY <2>3
  <2>5. add_decimal(x, y, wb) = IF wb = "WORD" THEN r0 + 16 * r1 + 256 * (r2 + 16 * r3)
                                ELSE r0 + 16 * r1
    BY DEF add_decimal
  <2>. HIDE DEF h1, h2, h3
  <2>6. /\ r0 \in Nat /\ r0 < 16 /\ r1 \in Nat /\ r1 < 16
        /\ r2 \in Nat /\ r2 < 16 /\ r3 \in Nat /\ r3 < 16
    <3>1. /\ Nibble(x, 0) \in Int /\ Nibble(x, 1) \in Int
          /\ Nibble(x, 2) \in Int /\ Nibble(x, 3) \in Int
          /\ Nibble(y, 0) \in Int /\ Nibble(y, 1) \in Int
          /\ Nibble(y, 2) \in Int /\ Nibble(y, 3) \in Int /\ 0 \in Int
      BY <2>2
    <3>2. r0 \in Nat /\ r0 < 16
      BY <2>1, <3>1, Zenon
    <3>3. r1 \in Nat /\ r1 < 16
      BY <2>1, <2>4, <3>1, Zenon
    <3>4. r2 \in Nat /\ r2 < 16
      BY <2>1, <2>4, <3>1, Zenon
    <3>5. r3 \in Nat /\ r3 < 16
      BY <2>1, <2>4, <3>1, Zenon
    <3>. QED
      BY <3>2, <3>3, <3>4, <3>5
  <2>. HIDE DEF r0, r1, r2, r3
  <2>. QED
    BY <2>5, <2>6, Words16
<1>4. ASSUME NEW op \in {"XOR", "AND", "OR"}
      PROVE  logical(op, x, y, wb) \in Word
  <2>1. Logical(op, x, y) \in Int
    BY LogicalWord, Words16
  <2>. QED
    BY <2>1, LowOfInt, PlacedWord DEF logical
<1>5. Placed(x, Low(y, wb), wb) \in Word
  BY LowAndSign, PlacedWord
<1>6. shift(x, wb) \in Word /\ rotate(c, x, wb) \in Word
  <2>1. MSBit(x, wb) \in Bit
    BY LowAndSign DEF Bit
  <2>. QED
    BY <2>1, Halved, PlacedWord DEF shift, rotate
<1>7. complement(x, wb) \in Word
  <2>1. Not(x) \in Word /\ MSByte(x) \in Nat /\ MSByte(x) < 256
    BY OfWord
  <2>2. LSByte(x) \in Word
    BY OfWord, Words16
  <2>. QED
    BY <2>1, <2>2, OfWord, CombineWord DEF complement
<1>8. swap_byte(x) \in Word /\ sign_extend(x) \in Word
  <2>1. MSByte(x) \in Word /\ LSByte(x) \in Word
    BY OfWord, Words16
  <2>2. "BYTE" \in Width
    BY DEF Width
  <2>3. MSBit(x, "BYTE") = 0 \/ MSBit(x, "BYTE") = 1
    BY <2>2, LowAndSign
  <2>4. 255 * MSBit(x, "BYTE") \in Nat /\ 255 * MSBit(x, "BYTE") < 256
    BY <2>3
  <2>. QED
    BY <2>1, <2>4, OfWord, CombineWord DEF swap_byte, sign_extend
<1>. QED
  BY <1>2, <1>3, <1>4, <1>5, <1>6, <1>7, <1>8
-----------------------------------------------------------------------------
(* Decoding.                                                               *)

LEMMA Fields ==
    ASSUME NEW w \in Nat, NEW k \in Nat, k < 16
    PROVE  /\ Bits(w, k, 1) \in {0, 1}
           /\ Bits(w, k, 2) \in {0, 1, 2, 3}
           /\ Bits(w, k, 3) \in {0, 1, 2, 3, 4, 5, 6, 7}
           /\ \A m \in {4, 5, 8, 10, 13} : Bits(w, k, m) \in Nat
<1>1. 2^1 = 2 /\ 2^2 = 4 /\ 2^3 = 8 /\ 2^4 = 16 /\ 2^5 = 32 /\ 2^8 = 256
      /\ 2^10 = 1024 /\ 2^13 = 8192
  OBVIOUS
<1>2. 2^k \in Nat /\ 2^k > 0
  BY Powers
<1>3. ASSUME NEW p \in Nat, p > 0
      PROVE  /\ (w \div p) % 2 \in {0, 1}
             /\ (w \div p) % 4 \in {0, 1, 2, 3}
             /\ (w \div p) % 8 \in {0, 1, 2, 3, 4, 5, 6, 7}
             /\ \A q \in {16, 32, 256, 1024, 8192} : (w \div p) % q \in Nat
  <2>1. w \div p \in Nat
    BY <1>3
  <2>2. ASSUME NEW v \in Nat
        PROVE  /\ v % 2 \in {0, 1} /\ v % 4 \in {0, 1, 2, 3}
               /\ v % 8 \in {0, 1, 2, 3, 4, 5, 6, 7}
               /\ \A q \in {16, 32, 256, 1024, 8192} : v % q \in Nat
    OBVIOUS
  <2>. QED
    BY <2>1, <2>2
<1>. QED
  BY <1>1, <1>2, <1>3 DEF Bits

LEMMA Named ==
    /\ Range(Instructions) = {
          "BL", "BEQBZ", "BNEBNZ", "BCBHS", "BNCBLO", "BN", "BGE", "BLT", "BRA",
          "ADD", "ADDC", "SUB", "SUBC", "DADD", "CMP", "XOR", "AND", "OR",
          "BIT", "BIC", "BIS", "MOV", "SWAP", "SRA", "RRC", "COMP", "SWPB", "SXT",
          "SETPRI", "SVC", "SETCC", "CLRCC", "CEX", "LD", "ST",
          "MOVL", "MOVLZ", "MOVLS", "MOVH", "LDR", "STR"}
    /\ Range(ConditionalBranches) =
          {"BEQBZ", "BNEBNZ", "BCBHS", "BNCBLO", "BN", "BGE", "BLT", "BRA"}
    /\ Range(ByteMoves) = {"MOVL", "MOVLZ", "MOVLS", "MOVH"}
<1>1. Range(ByteMoves) = {"MOVL", "MOVLZ", "MOVLS", "MOVH"}
  BY DEF Range, ByteMoves
<1>2. Range(ConditionalBranches) =
          {"BEQBZ", "BNEBNZ", "BCBHS", "BNCBLO", "BN", "BGE", "BLT", "BRA"}
  BY DEF Range, ConditionalBranches
<1>3. Range(Instructions) = {
          "BL", "BEQBZ", "BNEBNZ", "BCBHS", "BNCBLO", "BN", "BGE", "BLT", "BRA",
          "ADD", "ADDC", "SUB", "SUBC", "DADD", "CMP", "XOR", "AND", "OR",
          "BIT", "BIC", "BIS", "MOV", "SWAP", "SRA", "RRC", "COMP", "SWPB", "SXT",
          "SETPRI", "SVC", "SETCC", "CLRCC", "CEX", "LD", "ST",
          "MOVL", "MOVLZ", "MOVLS", "MOVH", "LDR", "STR"}
  BY DEF Range, Instructions
<1>. QED
  BY <1>1, <1>2, <1>3

LEMMA DecodedNamed ==
    ASSUME NEW w \in Nat
    PROVE  Decoded(w) \in Range(Instructions) \cup {"NONE"}
<1>1. ASSUME NEW k \in {0, 1, 2, 3, 4, 5, 6, 7}
      PROVE  /\ ConditionalBranches[k + 1] \in Range(Instructions)
             /\ OneRegister[k + 1] \in Range(Instructions) \cup {"NONE"}
  BY Named DEF ConditionalBranches, OneRegister
<1>2. ASSUME NEW k \in {0, 1, 2, 3}
      PROVE  /\ ByteMoves[k + 1] \in Range(Instructions)
             /\ \A j \in {0, 1, 2} : Arithmetic[j + 1][k + 1] \in Range(Instructions)
  BY Named DEF ByteMoves, Arithmetic
<1>3. Control(w) \in Range(Instructions) \cup {"NONE"}
  <2>1. Bits(w, 5, 2) \in {0, 1, 2, 3}
    BY Fields
  <2>2. \A x \in Range(Instructions) : \A k \in {0, 1, 2, 3} :
            <<x, "NONE", "CLRCC", "SVC">>[k + 1] \in Range(Instructions) \cup {"NONE"}
    BY Named
  <2>. QED
    BY <2>1, <2>2, Named DEF Control
<1>4. Registers(w) \in Range(Instructions) \cup {"NONE"}
  <2>1. Bits(w, 7, 3) \in {0, 1, 2, 3, 4, 5, 6, 7} /\ Bits(w, 3, 3) \in {0, 1, 2, 3, 4, 5, 6, 7}
    BY Fields
  <2>2. \A x, y \in Range(Instructions) \cup {"NONE"} : \A k \in {0, 1, 2, 3, 4, 5, 6, 7} :
            <<"MOV", "SWAP", x, y, "NONE", "NONE", "NONE", "NONE">>[k + 1]
                \in Range(Instructions) \cup {"NONE"}
    BY Named
  <2>. QED
    BY <1>1, <1>3, <2>1, <2>2 DEF Registers
<1>5. Middle(w) \in Range(Instructions) \cup {"NONE"}
  <2>1. Bits(w, 10, 3) \in {0, 1, 2, 3, 4, 5, 6, 7} /\ Bits(w, 8, 2) \in {0, 1, 2, 3}
    BY Fields
  <2>. QED
    BY <1>2, <1>4, <2>1, Named DEF Middle
<1>. QED
  <2>1. /\ Bits(w, 14, 2) \in {0, 1, 2, 3} /\ Bits(w, 13, 1) \in {0, 1}
        /\ Bits(w, 10, 3) \in {0, 1, 2, 3, 4, 5, 6, 7} /\ Bits(w, 11, 2) \in {0, 1, 2, 3}
    BY Fields
  <2>. QED
    BY <1>1, <1>2, <1>5, <2>1, Named DEF Decoded
-----------------------------------------------------------------------------
(* The operands of an instruction are below, or beside, the bits decode    *)
(* tells it by: flipping a bit b changes no field above b.                  *)

LEMMA Quotient ==
    ASSUME NEW n0 \in Nat \ {0}, NEW c \in Nat, NEW r \in Nat, r < n0
    PROVE  (n0 * c + r) \div n0 = c
<1>1. \A x \in Nat : x = n0 * (x \div n0) + (x % n0) /\ x % n0 < n0 /\ x % n0 \in Nat
                     /\ x \div n0 \in Nat
  OBVIOUS
<1>. DEFINE q == (n0 * c + r) \div n0
            e == (n0 * c + r) % n0
<1>2. n0 * c + r \in Nat
  OBVIOUS
<1>3. q \in Nat /\ e \in Nat /\ e < n0 /\ n0 * c + r = n0 * q + e
  BY <1>1, <1>2
<1>. HIDE DEF q, e
<1>4. \A m \in Nat : m >= 1 => n0 * m >= n0
  OBVIOUS
<1>5. CASE q > c
  <2>1. PICK m \in Nat : q = c + m /\ m >= 1
    BY <1>3, <1>5
  <2>2. n0 * q = n0 * c + n0 * m
    BY <2>1
  <2>. QED
    BY <1>3, <1>4, <2>1, <2>2
<1>6. CASE c > q
  <2>1. PICK m \in Nat : c = q + m /\ m >= 1
    BY <1>3, <1>6
  <2>2. n0 * c = n0 * q + n0 * m
    BY <1>3, <2>1
  <2>. QED
    BY <1>3, <1>4, <2>1, <2>2
<1>7. q = c
  BY <1>3, <1>5, <1>6
<1>. QED
  BY <1>7 DEF q

LEMMA Doubled ==
    ASSUME NEW x \in Nat, NEW p \in Nat \ {0}
    PROVE  /\ x \div (2 * p) = (x \div p) \div 2
           /\ x \div (2 * p) \in Nat
           /\ \E r \in Nat : /\ r < p
                             /\ x = (2 * p) * (x \div (2 * p)) + p * ((x \div p) % 2) + r
<1>1. PICK q \in Nat, r \in Nat : q = x \div p /\ r < p /\ x = p * q + r
  OBVIOUS
<1>2. PICK c \in Nat, e \in Nat : /\ c = q \div 2 /\ e = q % 2 /\ q = c + c + e
                                /\ (e = 0 \/ e = 1)
  <2>1. \A v \in Nat : v \div 2 \in Nat /\ v % 2 \in Nat /\ v = (v \div 2) + (v \div 2) + (v % 2)
                       /\ (v % 2 = 0 \/ v % 2 = 1)
    OBVIOUS
  <2>. QED
    BY <2>1
<1>3. p * q = p * c + p * c + p * e /\ p * c \in Nat /\ (2 * p) * c = p * c + p * c
  <2>1. \A a, b, f \in Nat : a * (b + b + f) = a * b + a * b + a * f
                             /\ a * b \in Nat /\ (2 * a) * b = a * b + a * b
    OBVIOUS
  <2>2. /\ p * (c + c + e) = p * c + p * c + p * e /\ p * c \in Nat
        /\ (2 * p) * c = p * c + p * c
    BY <2>1
  <2>. QED
    BY <1>2, <2>2
<1>4. p * e = 0 \/ p * e = p
  BY <1>2
<1>5. p * e + r \in Nat /\ p * e + r < 2 * p /\ 2 * p \in Nat \ {0}
  BY <1>1, <1>4
<1>6. x = (2 * p) * c + (p * e + r)
  BY <1>1, <1>2, <1>3, <1>4
<1>7. x \div (2 * p) = c
  BY <1>5, <1>6, Quotient
<1>8. x = (2 * p) * c + p * e + r
  BY <1>1, <1>3, <1>4
<1>9. x \div (2 * p) = (x \div p) \div 2 /\ c = x \div (2 * p) /\ e = (x \div p) % 2
  BY <1>1, <1>2, <1>7
<1>10. x = (2 * p) * (x \div (2 * p)) + p * ((x \div p) % 2) + r
  BY <1>8, <1>9
<1>. QED
  BY <1>1, <1>9, <1>10

SameFrom(x, y, k) == x \div 2^k = y \div 2^k

LEMMA SameAbove ==
    ASSUME NEW x \in Nat, NEW y \in Nat, NEW j \in Nat, NEW k \in Nat, j <= k, k < 16,
           SameFrom(x, y, j)
    PROVE  SameFrom(x, y, k)
<1>1. ASSUME NEW i \in Nat, i < 15, SameFrom(x, y, i)
      PROVE  SameFrom(x, y, i + 1)
  <2>1. 2^i \in Nat \ {0} /\ 2^(i + 1) = 2 * 2^i
    <3>1. i < 16 /\ i + 1 \in Nat /\ i + 1 < 16
      BY <1>1
    <3>2. /\ 2^0 = 1 /\ 2^1 = 2 /\ 2^2 = 4 /\ 2^3 = 8 /\ 2^4 = 16 /\ 2^5 = 32
          /\ 2^6 = 64 /\ 2^7 = 128 /\ 2^8 = 256 /\ 2^9 = 512 /\ 2^10 = 1024
          /\ 2^11 = 2048 /\ 2^12 = 4096 /\ 2^13 = 8192 /\ 2^14 = 16384 /\ 2^15 = 32768
      OBVIOUS
    <3>3. PICK p, q : p = 2^i /\ q = 2^(i + 1)
      OBVIOUS
    <3>4. p \in Nat \ {0} /\ q = 2 * p
      BY <3>1, <3>3, Powers
    <3>. QED
      BY <3>3, <3>4
  <2>2. \A v \in Nat : v \div 2^(i + 1) = (v \div 2^i) \div 2
    BY <2>1, Doubled
  <2>. QED
    BY <1>1, <2>2 DEF SameFrom
<1>. QED
  BY <1>1

LEMMA FlipKeepsAbove ==
    ASSUME NEW w \in Nat, NEW b \in Nat, b < 15
    PROVE  /\ Flip(w, b) \in Nat
           /\ \A k, m \in Nat : b < k /\ k < 16 => Bits(Flip(w, b), k, m) = Bits(w, k, m)
<1>1. PICK p : p = 2^b
  OBVIOUS
<1>2. p \in Nat \ {0} /\ 2^(b + 1) = 2 * p
  <2>1. /\ 2^0 = 1 /\ 2^1 = 2 /\ 2^2 = 4 /\ 2^3 = 8 /\ 2^4 = 16 /\ 2^5 = 32
        /\ 2^6 = 64 /\ 2^7 = 128 /\ 2^8 = 256 /\ 2^9 = 512 /\ 2^10 = 1024
        /\ 2^11 = 2048 /\ 2^12 = 4096 /\ 2^13 = 8192 /\ 2^14 = 16384 /\ 2^15 = 32768
    OBVIOUS
  <2>2. b < 16 /\ b + 1 \in Nat /\ b + 1 < 16
    OBVIOUS
  <2>3. PICK q : q = 2^(b + 1)
    OBVIOUS
  <2>4. p \in Nat \ {0} /\ q = 2 * p
    BY <1>1, <2>2, <2>3, Powers
  <2>. QED
    BY <2>3, <2>4
<1>3. PICK c \in Nat, e \in Nat, r \in Nat :
          /\ c = w \div (2 * p) /\ e = (w \div p) % 2 /\ r < p
          /\ w = (2 * p) * c + p * e + r
  <2>1. (w \div p) % 2 \in Nat /\ w \div (2 * p) \in Nat
    BY <1>2, Doubled
  <2>2. PICK r \in Nat : /\ r < p
                         /\ w = (2 * p) * (w \div (2 * p)) + p * ((w \div p) % 2) + r
    BY <1>2, Doubled
  <2>3. PICK c, e : c = w \div (2 * p) /\ e = (w \div p) % 2
    OBVIOUS
  <2>4. w = (2 * p) * c + p * e + r
    BY <2>2, <2>3
  <2>. QED
    BY <2>1, <2>2, <2>3, <2>4
<1>4. Flip(w, b) = IF e = 0 THEN w + p ELSE w - p
  <2>1. 2^1 = 2
    OBVIOUS
  <2>. QED
    BY <1>1, <1>3, <2>1 DEF Flip, Bits
<1>5. e = 0 \/ e = 1
  BY <1>2, <1>3
<1>6. (2 * p) * c \in Nat /\ p * 0 = 0 /\ p * 1 = p /\ 2 * p \in Nat \ {0}
  BY <1>2
<1>7. Flip(w, b) \in Nat /\ Flip(w, b) \div (2 * p) = c
  <2>1. CASE e = 0
    <3>1. w = (2 * p) * c + r
      BY <1>3, <1>6, <2>1
    <3>2. Flip(w, b) = (2 * p) * c + (p + r) /\ p + r \in Nat /\ p + r < 2 * p
      BY <1>2, <1>3, <1>4, <1>6, <2>1, <3>1
    <3>. QED
      BY <1>6, <3>2, Quotient
  <2>2. CASE e = 1
    <3>1. w = (2 * p) * c + p + r
      BY <1>3, <1>6, <2>2
    <3>2. PICK x \in Nat : x = (2 * p) * c
      BY <1>6
    <3>3. w - p = x + r /\ x + r \in Nat
      <4>1. w = x + p + r
        BY <3>1, <3>2
      <4>2. \A u, v, t \in Nat : (u + v + t) - v = u + t /\ u + t \in Nat
        OBVIOUS
      <4>3. (x + p + r) - p = x + r /\ x + r \in Nat
        BY <1>2, <4>2
      <4>. QED
        BY <4>1, <4>3
    <3>4. Flip(w, b) = w - p
      BY <1>4, <2>2
    <3>5. Flip(w, b) = (2 * p) * c + r /\ Flip(w, b) \in Nat
      BY <3>2, <3>3, <3>4
    <3>6. r < 2 * p
      BY <1>2, <1>3
    <3>. QED
      BY <1>3, <1>6, <3>5, <3>6, Quotient
  <2>. QED
    BY <1>5, <2>1, <2>2
<1>8. SameFrom(Flip(w, b), w, b + 1)
  BY <1>2, <1>3, <1>7 DEF SameFrom
<1>9. ASSUME NEW k \in Nat, NEW m \in Nat, b < k, k < 16
      PROVE  Bits(Flip(w, b), k, m) = Bits(w, k, m)
  <2>1. b + 1 <= k /\ b + 1 \in Nat
    BY <1>9
  <2>2. SameFrom(Flip(w, b), w, k)
    BY <1>7, <1>8, <1>9, <2>1, SameAbove
  <2>. QED
    BY <2>2 DEF SameFrom, Bits
<1>. QED
  BY <1>7, <1>9

LEMMA ArithmeticNamed ==
    UNION {Range(Arithmetic[k]) : k \in 1 .. 3} =
        {"ADD", "ADDC", "SUB", "SUBC", "DADD", "CMP", "XOR", "AND", "OR", "BIT", "BIC", "BIS"}
<1>1. /\ Range(Arithmetic[1]) = {"ADD", "ADDC", "SUB", "SUBC"}
      /\ Range(Arithmetic[2]) = {"DADD", "CMP", "XOR", "AND"}
      /\ Range(Arithmetic[3]) = {"OR", "BIT", "BIC", "BIS"}
  BY DEF Range, Arithmetic
<1>2. \A k : k \in 1 .. 3 <=> k = 1 \/ k = 2 \/ k = 3
  OBVIOUS
<1>3. UNION {Range(Arithmetic[k]) : k \in 1 .. 3} =
          Range(Arithmetic[1]) \cup Range(Arithmetic[2]) \cup Range(Arithmetic[3])
  BY <1>2
<1>. QED
  BY <1>1, <1>3

(* How far up the operands of each instruction reach.                      *)
LEMMA OperandsReach ==
    /\ OperandBits("NONE") = {}
    /\ \A b \in OperandBits("BL") : b \in Nat /\ b < 13
    /\ \A i \in Range(ConditionalBranches) : \A b \in OperandBits(i) : b \in Nat /\ b < 10
    /\ \A i \in UNION {Range(Arithmetic[k]) : k \in 1 .. 3} :
          \A b \in OperandBits(i) : b \in Nat /\ b < 8
    /\ \A i \in {"MOV", "SWAP"} : \A b \in OperandBits(i) : b \in Nat /\ b < 7
    /\ \A i \in {"SRA", "RRC", "COMP"} : \A b \in OperandBits(i) : b \in Nat /\ (b < 3 \/ b = 6)
    /\ \A i \in {"SWPB", "SXT", "SETPRI"} : \A b \in OperandBits(i) : b \in Nat /\ b < 3
    /\ \A b \in OperandBits("SVC") : b \in Nat /\ b < 4
    /\ \A i \in {"SETCC", "CLRCC"} : \A b \in OperandBits(i) : b \in Nat /\ b < 5
    /\ \A i \in {"CEX", "LD", "ST"} : \A b \in OperandBits(i) : b \in Nat /\ b < 10
    /\ \A i \in Range(ByteMoves) : \A b \in OperandBits(i) : b \in Nat /\ b < 11
    /\ \A i \in {"LDR", "STR"} : \A b \in OperandBits(i) : b \in Nat /\ b < 14
<1>1. OperandBits("NONE") = {} /\ OperandBits("BL") = 0 .. 12
  BY Named, ArithmeticNamed DEF OperandBits
<1>2. \A i \in Range(ConditionalBranches) : OperandBits(i) = 0 .. 9
  BY Named, ArithmeticNamed DEF OperandBits
<1>3. \A i \in UNION {Range(Arithmetic[k]) : k \in 1 .. 3} :
          OperandBits(i) = {7, 6} \cup SourceBits \cup DestBits
  BY Named, ArithmeticNamed DEF OperandBits
<1>4. /\ OperandBits("MOV") = {6} \cup SourceBits \cup DestBits
      /\ OperandBits("SWAP") = SourceBits \cup DestBits
  BY Named, ArithmeticNamed DEF OperandBits
<1>5. /\ \A i \in {"SRA", "RRC", "COMP"} : OperandBits(i) = {6} \cup DestBits
      /\ \A i \in {"SWPB", "SXT"} : OperandBits(i) = DestBits
  BY Named, ArithmeticNamed DEF OperandBits
<1>6. /\ OperandBits("SETPRI") = 0 .. 2 /\ OperandBits("SVC") = 0 .. 3
      /\ OperandBits("SETCC") = 0 .. 4 /\ OperandBits("CLRCC") = 0 .. 4
      /\ OperandBits("CEX") = 0 .. 9
  BY Named, ArithmeticNamed DEF OperandBits
<1>7. \A i \in {"LD", "ST"} : OperandBits(i) = 6 .. 9 \cup SourceBits \cup DestBits
  BY Named, ArithmeticNamed DEF OperandBits
<1>8. \A i \in Range(ByteMoves) : OperandBits(i) = 3 .. 10 \cup DestBits
  BY Named, ArithmeticNamed DEF OperandBits
<1>9. \A i \in {"LDR", "STR"} : OperandBits(i) = 6 .. 13 \cup SourceBits \cup DestBits
  BY Named, ArithmeticNamed DEF OperandBits
<1>. QED
  BY <1>1, <1>2, <1>3, <1>4, <1>5, <1>6, <1>7, <1>8, <1>9 DEF SourceBits, DestBits

(* decode looks at no other bits of v and w, and tells the same of both.   *)
Alike(v, w, b) == \A k, m \in Nat : b < k /\ k < 16 => Bits(v, k, m) = Bits(w, k, m)

LEMMA FieldRanges ==
    ASSUME NEW w \in Nat
    PROVE  /\ Bits(w, 4, 1) \in {0, 1} /\ Bits(w, 13, 1) \in {0, 1}
           /\ Bits(w, 5, 2) \in {0, 1, 2, 3} /\ Bits(w, 8, 2) \in {0, 1, 2, 3}
           /\ Bits(w, 11, 2) \in {0, 1, 2, 3} /\ Bits(w, 14, 2) \in {0, 1, 2, 3}
           /\ Bits(w, 3, 3) \in {0, 1, 2, 3, 4, 5, 6, 7}
           /\ Bits(w, 7, 3) \in {0, 1, 2, 3, 4, 5, 6, 7}
           /\ Bits(w, 10, 3) \in {0, 1, 2, 3, 4, 5, 6, 7}
<1>1. Bits(w, 4, 1) \in {0, 1} /\ Bits(w, 13, 1) \in {0, 1}
  BY Fields
<1>2. Bits(w, 5, 2) \in {0, 1, 2, 3} /\ Bits(w, 8, 2) \in {0, 1, 2, 3}
  BY Fields
<1>3. Bits(w, 11, 2) \in {0, 1, 2, 3} /\ Bits(w, 14, 2) \in {0, 1, 2, 3}
  BY Fields
<1>4. Bits(w, 3, 3) \in {0, 1, 2, 3, 4, 5, 6, 7} /\ Bits(w, 7, 3) \in {0, 1, 2, 3, 4, 5, 6, 7}
  BY Fields
<1>5. Bits(w, 10, 3) \in {0, 1, 2, 3, 4, 5, 6, 7}
  BY Fields
<1>. QED
  BY <1>1, <1>2, <1>3, <1>4, <1>5

LEMMA RegistersAlike ==
    ASSUME NEW w \in Nat, NEW v, NEW b \in Nat, Alike(v, w, b),
           b = 6 => Bits(v, 3, 3) = Bits(w, 3, 3), b \in OperandBits(Registers(w))
    PROVE  Registers(v) = Registers(w) /\ b < 7
<1>1. Bits(w, 7, 3) \in {0, 1, 2, 3, 4, 5, 6, 7} /\ Bits(w, 3, 3) \in {0, 1, 2, 3, 4, 5, 6, 7}
      /\ Bits(w, 5, 2) \in {0, 1, 2, 3} /\ Bits(w, 4, 1) \in {0, 1}
  BY FieldRanges
<1>2. b < 7 => Bits(v, 7, 3) = Bits(w, 7, 3)
  BY DEF Alike
<1>3. CASE Bits(w, 7, 3) = 0 \/ Bits(w, 7, 3) = 1
  <2>1. Registers(w) \in {"MOV", "SWAP"}
    BY <1>3 DEF Registers
  <2>2. b < 7
    BY <2>1, OperandsReach
  <2>. QED
    BY <1>2, <1>3, <2>2 DEF Registers
<1>4. CASE Bits(w, 7, 3) = 2
  <2>1. Registers(w) = OneRegister[Bits(w, 3, 3) + 1]
    BY <1>4 DEF Registers
  <2>2. OneRegister[Bits(w, 3, 3) + 1] \in {"SRA", "RRC", "COMP", "SWPB", "SXT", "NONE"}
    BY <1>1 DEF OneRegister
  <2>3. b < 3 \/ b = 6
    BY <2>1, <2>2, OperandsReach
  <2>4. Bits(v, 3, 3) = Bits(w, 3, 3)
    BY <2>3 DEF Alike
  <2>. QED
    BY <1>2, <1>4, <2>1, <2>3, <2>4 DEF Registers
<1>5. CASE Bits(w, 7, 3) = 3
  <2>1. Registers(w) = Control(w)
    BY <1>5 DEF Registers
  <2>2. /\ Bits(w, 5, 2) = 0 => Control(w) = IF Bits(w, 4, 1) = 0 THEN "SETPRI" ELSE "SVC"
        /\ Bits(w, 5, 2) = 1 => Control(w) = "NONE"
        /\ Bits(w, 5, 2) = 2 => Control(w) = "CLRCC"
        /\ Bits(w, 5, 2) = 3 => Control(w) = "SVC"
    BY DEF Control
  <2>3. b < 5 /\ (Bits(w, 5, 2) # 2 => b < 4)
    BY <1>1, <2>1, <2>2, OperandsReach
  <2>4. Bits(v, 5, 2) = Bits(w, 5, 2) /\ (Bits(w, 5, 2) # 2 => Bits(v, 4, 1) = Bits(w, 4, 1))
    BY <2>3 DEF Alike
  <2>5. Control(v) = Control(w)
    BY <1>1, <2>4 DEF Control
  <2>. QED
    BY <1>2, <1>5, <2>1, <2>3, <2>5 DEF Registers
<1>6. CASE Bits(w, 7, 3) \in {4, 5, 6, 7}
  <2>1. Registers(w) = "NONE"
    BY <1>6 DEF Registers
  <2>. QED
    BY <2>1, OperandsReach
<1>. QED
  BY <1>1, <1>3, <1>4, <1>5, <1>6

LEMMA MiddleAlike ==
    ASSUME NEW w \in Nat, NEW v, NEW b \in Nat, Alike(v, w, b),
           b = 6 => Bits(v, 3, 3) = Bits(w, 3, 3), b \in OperandBits(Middle(w))
    PROVE  Middle(v) = Middle(w) /\ b < 10
<1>1. Bits(w, 10, 3) \in {0, 1, 2, 3, 4, 5, 6, 7} /\ Bits(w, 8, 2) \in {0, 1, 2, 3}
  BY FieldRanges
<1>2. b < 10 => Bits(v, 10, 3) = Bits(w, 10, 3)
  BY DEF Alike
<1>3. CASE Bits(w, 10, 3) \in {0, 1, 2}
  <2>1. Middle(w) = Arithmetic[Bits(w, 10, 3) + 1][Bits(w, 8, 2) + 1]
    BY <1>3 DEF Middle
  <2>2. \A j \in {0, 1, 2}, k \in {0, 1, 2, 3} :
            Arithmetic[j + 1][k + 1] \in UNION {Range(Arithmetic[i]) : i \in 1 .. 3}
    BY ArithmeticNamed DEF Arithmetic
  <2>3. b < 8
    BY <1>1, <1>3, <2>1, <2>2, OperandsReach
  <2>4. Bits(v, 8, 2) = Bits(w, 8, 2)
    BY <2>3 DEF Alike
  <2>. QED
    BY <1>2, <1>3, <2>1, <2>3, <2>4 DEF Middle
<1>4. CASE Bits(w, 10, 3) = 3
  <2>1. Middle(w) = Registers(w)
    BY <1>4 DEF Middle
  <2>2. Registers(v) = Registers(w) /\ b < 7
    BY <2>1, RegistersAlike
  <2>. QED
    BY <1>2, <1>4, <2>1, <2>2 DEF Middle
<1>5. CASE Bits(w, 10, 3) \in {4, 5, 6, 7}
  <2>1. Middle(w) \in {"CEX", "NONE", "LD", "ST"}
    BY <1>5 DEF Middle
  <2>2. b < 10
    BY <2>1, OperandsReach
  <2>. QED
    BY <1>2, <1>5, <2>2 DEF Middle
<1>. QED
  BY <1>1, <1>3, <1>4, <1>5

LEMMA DecodedAlike ==
    ASSUME NEW w \in Nat, NEW v, NEW b \in Nat, Alike(v, w, b),
           b = 6 => Bits(v, 3, 3) = Bits(w, 3, 3), b \in OperandBits(Decoded(w))
    PROVE  Decoded(v) = Decoded(w)
<1>1. Bits(w, 14, 2) \in {0, 1, 2, 3} /\ Bits(w, 13, 1) \in {0, 1}
      /\ Bits(w, 10, 3) \in {0, 1, 2, 3, 4, 5, 6, 7} /\ Bits(w, 11, 2) \in {0, 1, 2, 3}
  BY FieldRanges
<1>2. /\ b < 14 => Bits(v, 14, 2) = Bits(w, 14, 2)
      /\ b < 13 => Bits(v, 13, 1) = Bits(w, 13, 1)
  BY DEF Alike
<1>3. CASE Bits(w, 14, 2) = 0 /\ Bits(w, 13, 1) = 0
  <2>1. Decoded(w) = "BL"
    BY <1>3 DEF Decoded
  <2>2. b < 13
    BY <2>1, OperandsReach
  <2>. QED
    BY <1>2, <1>3, <2>2 DEF Decoded
<1>4. CASE Bits(w, 14, 2) = 0 /\ Bits(w, 13, 1) # 0
  <2>1. Decoded(w) = ConditionalBranches[Bits(w, 10, 3) + 1]
    BY <1>4 DEF Decoded
  <2>2. \A k \in {0, 1, 2, 3, 4, 5, 6, 7} :
            ConditionalBranches[k + 1] \in Range(ConditionalBranches)
    BY Named DEF ConditionalBranches
  <2>3. b < 10
    BY <1>1, <2>1, <2>2, OperandsReach
  <2>4. Bits(v, 10, 3) = Bits(w, 10, 3)
    BY <2>3 DEF Alike
  <2>. QED
    BY <1>2, <1>4, <2>1, <2>3, <2>4 DEF Decoded
<1>5. CASE Bits(w, 14, 2) = 1 /\ Bits(w, 13, 1) = 0
  <2>1. Decoded(w) = Middle(w)
    BY <1>5 DEF Decoded
  <2>2. Middle(v) = Middle(w) /\ b < 10
    BY <2>1, MiddleAlike
  <2>. QED
    BY <1>2, <1>5, <2>1, <2>2 DEF Decoded
<1>6. CASE Bits(w, 14, 2) = 1 /\ Bits(w, 13, 1) # 0
  <2>1. Decoded(w) = ByteMoves[Bits(w, 11, 2) + 1]
    BY <1>6 DEF Decoded
  <2>2. \A k \in {0, 1, 2, 3} : ByteMoves[k + 1] \in Range(ByteMoves)
    BY Named DEF ByteMoves
  <2>3. b < 11
    BY <1>1, <2>1, <2>2, OperandsReach
  <2>4. Bits(v, 11, 2) = Bits(w, 11, 2)
    BY <2>3 DEF Alike
  <2>. QED
    BY <1>2, <1>6, <2>1, <2>3, <2>4 DEF Decoded
<1>7. CASE Bits(w, 14, 2) \in {2, 3}
  <2>1. Decoded(w) \in {"LDR", "STR"}
    BY <1>7 DEF Decoded
  <2>2. b < 14
    BY <2>1, OperandsReach
  <2>. QED
    BY <1>2, <1>7, <2>2 DEF Decoded
<1>. QED
  BY <1>1, <1>3, <1>4, <1>5, <1>6, <1>7

LEMMA OperandsAside ==
    ASSUME NEW w \in Nat, NEW b \in OperandBits(Decoded(w))
    PROVE  Decoded(Flip(w, b)) = Decoded(w)
<1>1. b \in Nat /\ b < 14
  BY DecodedNamed, Named, ArithmeticNamed, OperandsReach
<1>2. Alike(Flip(w, b), w, b)
  BY <1>1, FlipKeepsAbove DEF Alike
<1>3. b = 6 => Bits(Flip(w, b), 3, 3) = Bits(w, 3, 3)
  <2>1. 2^1 = 2 /\ 2^3 = 8 /\ 2^6 = 64
    OBVIOUS
  <2>2. Flip(w, 6) = IF (w \div 64) % 2 = 0 THEN w + 64 ELSE w - 64
    BY <2>1 DEF Flip, Bits
  <2>3. /\ ((w + 64) \div 8) % 8 = (w \div 8) % 8
        /\ (w \div 64) % 2 # 0 => ((w - 64) \div 8) % 8 = (w \div 8) % 8
    OBVIOUS
  <2>. QED
    BY <2>1, <2>2, <2>3 DEF Bits
<1>. QED
  BY <1>1, <1>2, <1>3, DecodedAlike

LEMMA MiddleNames ==
    ASSUME NEW w \in Nat
    PROVE  Middle(w) \in (UNION {Range(Arithmetic[k]) : k \in 1 .. 3}) \cup
                {"MOV", "SWAP", "SRA", "RRC", "COMP", "SWPB", "SXT", "SETPRI", "SVC",
                 "CLRCC", "CEX", "LD", "ST", "NONE"}
<1>1. Control(w) \in {"SETPRI", "SVC", "CLRCC", "NONE"}
  BY FieldRanges DEF Control
<1>2. \A k \in {0, 1, 2, 3, 4, 5, 6, 7} :
          OneRegister[k + 1] \in {"SRA", "RRC", "COMP", "SWPB", "SXT", "NONE"}
  BY DEF OneRegister
<1>3. Registers(w) \in {"MOV", "SWAP", Control(w), "NONE"} \cup
                          {"SRA", "RRC", "COMP", "SWPB", "SXT"}
  <2>1. Bits(w, 7, 3) \in {0, 1, 2, 3, 4, 5, 6, 7} /\ Bits(w, 3, 3) \in {0, 1, 2, 3, 4, 5, 6, 7}
    BY FieldRanges
  <2>. QED
    BY <1>2, <2>1 DEF Registers
<1>4. \A j \in {0, 1, 2}, k \in {0, 1, 2, 3} :
          Arithmetic[j + 1][k + 1] \in UNION {Range(Arithmetic[i]) : i \in 1 .. 3}
  BY ArithmeticNamed DEF Arithmetic
<1>5. Middle(w) \in (UNION {Range(Arithmetic[k]) : k \in 1 .. 3}) \cup
                      {Registers(w), "CEX", "NONE", "LD", "ST"}
  <2>1. Bits(w, 10, 3) \in {0, 1, 2, 3, 4, 5, 6, 7} /\ Bits(w, 8, 2) \in {0, 1, 2, 3}
    BY FieldRanges
  <2>. QED
    BY <1>4, <2>1 DEF Middle
<1>. QED
  BY <1>1, <1>3, <1>5

(* The nine branches are the instructions that come first, and those of    *)
(* the words whose two highest bits are zero.                              *)
LEMMA CodeOf ==
    ASSUME NEW i \in Range(Instructions)
    PROVE  Code(i) \in 1 .. 41 /\ Instructions[Code(i)] = i
<1>1. Len(Instructions) = 41 /\ DOMAIN Instructions = 1 .. 41
  BY DEF Instructions
<1>2. PICK j \in 1 .. 41 : Instructions[j] = i
  BY <1>1 DEF Range
<1>3. i # "NONE"
  BY Named
<1>. DEFINE Coded(k) == IF k = 0 THEN i = "NONE" ELSE Instructions[k] = i
<1>4. j \in 0 .. 41 /\ Coded(j)
  BY <1>2
<1>5. Code(i) = CHOOSE k \in 0 .. 41 : Coded(k)
  BY <1>1 DEF Code
<1>6. Code(i) \in 0 .. 41 /\ Coded(Code(i))
  BY <1>4, <1>5
<1>. QED
  BY <1>3, <1>6

LEMMA BranchNames ==
    ASSUME NEW i \in Range(Instructions)
    PROVE  IsBranch(i) <=> i \in {"BL"} \cup Range(ConditionalBranches)
<1>1. \A k \in 1 .. 41 :
          /\ Instructions[k] \in {"BL"} \cup Range(ConditionalBranches) <=> k <= 9
          /\ Instructions[k] = "BL" => k = 1
          /\ Instructions[k] = "BRA" => k = 9
  BY Named DEF Instructions
<1>2. "BL" \in Range(Instructions) /\ "BRA" \in Range(Instructions)
  BY Named
<1>3. Code("BL") = 1 /\ Code("BRA") = 9
  BY <1>1, <1>2, CodeOf
<1>4. Code(i) \in 1 .. 41 /\ Instructions[Code(i)] = i
  BY CodeOf
<1>. QED
  BY <1>1, <1>3, <1>4 DEF IsBranch

LEMMA BranchWords ==
    ASSUME NEW w \in Nat, w < 65536, Decoded(w) \in Range(Instructions)
    PROVE  IsBranch(Decoded(w)) <=> w < 16384
<1>1. Bits(w, 14, 2) \in {0, 1, 2, 3} /\ Bits(w, 13, 1) \in {0, 1}
  BY FieldRanges
<1>2. Bits(w, 10, 3) \in {0, 1, 2, 3, 4, 5, 6, 7} /\ Bits(w, 11, 2) \in {0, 1, 2, 3}
  BY FieldRanges
<1>3. Bits(w, 14, 2) = 0 <=> w < 16384
  <2>1. 2^14 = 16384 /\ 2^2 = 4
    OBVIOUS
  <2>2. (w \div 16384) % 4 = 0 <=> w < 16384
    OBVIOUS
  <2>. QED
    BY <2>1, <2>2 DEF Bits
<1>4. CASE Bits(w, 14, 2) = 0
  <2>1. \A k \in {0, 1, 2, 3, 4, 5, 6, 7} :
            ConditionalBranches[k + 1] \in Range(ConditionalBranches)
    BY Named DEF ConditionalBranches
  <2>2. Decoded(w) \in {"BL"} \cup Range(ConditionalBranches)
    BY <1>1, <1>2, <1>4, <2>1 DEF Decoded
  <2>. QED
    BY <1>3, <1>4, <2>2, BranchNames
<1>5. CASE Bits(w, 14, 2) # 0
  <2>1. Middle(w) \notin {"BL"} \cup Range(ConditionalBranches)
    BY MiddleNames, Named, ArithmeticNamed
  <2>2. \A k \in {0, 1, 2, 3} : ByteMoves[k + 1] \in Range(ByteMoves)
    BY Named DEF ByteMoves
  <2>3. Decoded(w) \in {Middle(w), "LDR", "STR"} \cup Range(ByteMoves)
    BY <1>1, <1>2, <1>5, <2>2 DEF Decoded
  <2>4. Decoded(w) \notin {"BL"} \cup Range(ConditionalBranches)
    BY <2>1, <2>3, Named
  <2>. QED
    BY <1>3, <1>5, <2>4, BranchNames
<1>. QED
  BY <1>4, <1>5
-----------------------------------------------------------------------------
(* Steps.                                                                  *)

LEMMA Operands ==
    ASSUME TypeOK
    PROVE  /\ Dest \in 0 .. 7 /\ Source \in 0 .. 7 /\ WB \in Width
           /\ d \in Word /\ s \in Word /\ Operand \in Word
           /\ PC \in Word /\ LR \in Word
<1>1. ir \in Nat
  BY IrWords DEF TypeOK
<1>2. Dest \in 0 .. 7 /\ Source \in 0 .. 7
  BY <1>1, Fields DEF Dest, Source
<1>3. WB \in Width
  BY DEF WB, Width
<1>4. d \in Word /\ s \in Word /\ PC \in Word /\ LR \in Word
  BY <1>2 DEF TypeOK, d, s, PC, LR
<1>5. ASSUME NEW k \in 0 .. 7
      PROVE  Constants[k + 1] \in Word
  <2>1. Constants[k + 1] \in {0, 1, 2, 4, 8, 16, 32, 65535}
    BY DEF Constants
  <2>. QED
    BY <2>1, Words16
<1>6. Operand \in Word
  BY <1>2, <1>4, <1>5 DEF Operand
<1>. QED
  BY <1>2, <1>3, <1>4, <1>6

LEMMA IntoTyped ==
    ASSUME TypeOK, NEW r \in 0 .. 7, NEW w \in Word, Into(r, w)
    PROVE  /\ regs' \in [0 .. 7 -> Word]
           /\ regs'[r] = w
           /\ \A q \in 0 .. 7 \ {r} : regs'[q] = regs[q]
  BY DEF TypeOK, Into

(* What add is given.                                                      *)
LEMMA Summands ==
    ASSUME TypeOK, inst \in {"ADD", "ADDC", "SUB", "SUBC"}
    PROVE  Addend \in Word /\ CarryIn \in Bit
<1>1. Negated(Operand) \in Word /\ Not(Operand) \in Word /\ Operand \in Word
  BY Operands, OfWord
<1>2. Addend \in Word
  BY <1>1 DEF Addend
<1>3. psw.carry \in Bit
  BY DEF TypeOK, PSW
<1>. QED
  BY <1>2, <1>3 DEF CarryIn, Bit

LEMMA Executed ==
    ASSUME TypeOK, Next
    PROVE  TypeOK'
<1>1. ir \in Nat
  BY IrWords DEF TypeOK
<1>2. CASE Decode1
  BY <1>1, <1>2, DecodedNamed DEF Decode1, decode, TypeOK
<1>3. ASSUME NEW set, Case(set), regs' \in [0 .. 7 -> Word], psw' \in PSW
      PROVE  TypeOK'
  BY <1>3 DEF Case, TypeOK
<1>4. psw \in PSW /\ regs \in [0 .. 7 -> Word]
  BY DEF TypeOK
<1>5. CASE BL
  <2>1. ASSUME NEW o \in Int
        PROVE  (PC + 2 * o) % 65536 \in Word
    BY Operands, Words16
  <2>2. Bits(ir, 0, 13) \in Nat
    BY <1>1, Fields
  <2>3. Extended(Bits(ir, 0, 13), 13) \in Int
    BY <2>2 DEF Extended
  <2>4. regs' \in [0 .. 7 -> Word]
    BY <1>4, <1>5, <2>1, <2>3, Operands DEF BL
  <2>. QED
    BY <1>3, <1>4, <1>5, <2>4 DEF BL
<1>6. CASE branch_conditional
  <2>1. ASSUME NEW o \in Int
        PROVE  (PC + 2 * o) % 65536 \in Word
    BY Operands, Words16
  <2>2. Bits(ir, 0, 10) \in Nat
    BY <1>1, Fields
  <2>3. Extended(Bits(ir, 0, 10), 10) \in Int
    BY <2>2 DEF Extended
  <2>. DEFINE there == (PC + 2 * Extended(Bits(ir, 0, 10), 10)) % 65536
              w     == IF Taken(inst) THEN there ELSE PC
  <2>4. there \in Word /\ PC \in Word
    BY <2>1, <2>3, Operands
  <2>5. Into(7, w)
    BY <1>6 DEF branch_conditional
  <2>. HIDE DEF there
  <2>6. w \in Word
    BY <2>4
  <2>. HIDE DEF w
  <2>7. regs' \in [0 .. 7 -> Word]
    BY <2>5, <2>6, IntoTyped
  <2>. QED
    BY <1>3, <1>4, <1>6, <2>7 DEF branch_conditional
<1>7. CASE Add
  <2>. DEFINE r == add(d, Addend, CarryIn, WB)
  <2>1. Addend \in Word /\ CarryIn \in Bit
    BY <1>7, Summands DEF Add, Case
  <2>2. r \in Word
    BY <2>1, Computed, Operands
  <2>3. Into(Dest, r) /\ psw' = update_psw(psw, d, Addend, r, WB)
    BY <1>7 DEF Add
  <2>. HIDE DEF r
  <2>4. update_psw(psw, d, Addend, r, WB) \in PSW
    BY <1>4, <2>1, <2>2, Operands, UpdatedFlags
  <2>. QED
    BY <1>3, <1>7, <2>2, <2>3, <2>4, Operands, IntoTyped DEF Add
<1>8. CASE DADD
  <2>. DEFINE r == add_decimal(d, Operand, WB)
  <2>1. r \in Word
    <3>1. 0 \in Bit
      BY DEF Bit
    <3>. QED
      BY <3>1, Computed, Operands
  <2>2. Into(Dest, r) /\ psw' = update_psw(psw, d, Operand, r, WB)
    BY <1>8 DEF DADD
  <2>. HIDE DEF r
  <2>3. update_psw(psw, d, Operand, r, WB) \in PSW
    BY <1>4, <2>1, Operands, UpdatedFlags
  <2>. QED
    BY <1>3, <1>8, <2>1, <2>2, <2>3, Operands, IntoTyped DEF DADD
<1>9. CASE CMP
  <2>1. Low(d - Operand, WB) \in Word
    <3>1. d - Operand \in Int
      BY Operands, Words16
    <3>. QED
      BY <3>1, Operands, LowOfInt
  <2>2. psw' \in PSW
    BY <1>4, <1>9, <2>1, Operands, UpdatedFlags DEF CMP, compare
  <2>. QED
    BY <1>3, <1>4, <1>9, <2>2 DEF CMP
<1>10. CASE Logic
  <2>. DEFINE r == logical(inst, d, Operand, WB)
  <2>1. r \in Word
    <3>1. 0 \in Bit /\ inst \in {"XOR", "AND", "OR"}
      BY <1>10 DEF Bit, Logic, Case
    <3>. QED
      BY <3>1, Computed, Operands
  <2>2. Into(Dest, r) /\ psw' = update_psw(psw, d, Operand, r, WB)
    BY <1>10 DEF Logic
  <2>. HIDE DEF r
  <2>3. update_psw(psw, d, Operand, r, WB) \in PSW
    BY <1>4, <2>1, Operands, UpdatedFlags
  <2>. QED
    BY <1>3, <1>10, <2>1, <2>2, <2>3, Operands, IntoTyped DEF Logic
<1>11. CASE BIT
  <2>1. /\ BitOf(d, 0) = 0 \/ BitOf(d, 0) = 1
        /\ BitOf(Operand, 15) = 0 \/ BitOf(Operand, 15) = 1
        /\ BitOf(Operand, 7) = 0 \/ BitOf(Operand, 7) = 1
    BY Operands, Words16, BitZeroOne
  <2>2. BitOf(d, 0) * BitOf(Operand, IF WB = "WORD" THEN 15 ELSE 7) \in Bit
    BY <2>1 DEF Bit
  <2>3. psw' \in PSW
    BY <1>4, <1>11, <2>2 DEF BIT, compare_bit, PSW, Bit
  <2>. QED
    BY <1>3, <1>4, <1>11, <2>3 DEF BIT
<1>12. ASSUME NEW k \in Positions(Operand), NEW b \in Bit
       PROVE  WithBit(d, k, b) \in Word
  <2>1. k \in Nat
    BY Operands, Words16 DEF Positions
  <2>. QED
    BY <2>1, Operands, WithBitWord
<1>13. CASE BIC
  <2>1. PICK k \in Positions(Operand) :
            LET r == WithBit(d, k, 0)
            IN Into(Dest, r) /\ psw' = [psw EXCEPT !.zero = Flag(r = 0)]
    BY <1>13 DEF BIC
  <2>2. 0 \in Bit /\ Flag(WithBit(d, k, 0) = 0) \in Bit
    BY DEF Bit, Flag
  <2>3. WithBit(d, k, 0) \in Word
    BY <1>12, <2>2
  <2>4. psw' \in PSW
    BY <1>4, <2>1, <2>2 DEF PSW
  <2>. QED
    BY <1>3, <1>13, <2>1, <2>3, <2>4, Operands, IntoTyped DEF BIC
<1>14. CASE BIS
  <2>1. PICK k \in Positions(Operand) : Into(Dest, WithBit(d, k, 1))
    BY <1>14 DEF BIS
  <2>2. 0 \in Bit /\ 1 \in Bit
    BY DEF Bit
  <2>3. WithBit(d, k, 1) \in Word
    BY <1>12, <2>2
  <2>4. psw' \in PSW
    BY <1>4, <1>14, <2>2 DEF BIS, PSW
  <2>. QED
    BY <1>3, <1>14, <2>1, <2>3, <2>4, Operands, IntoTyped DEF BIS
<1>15. /\ 0 \in Bit /\ psw.carry \in Bit
  BY <1>4 DEF PSW, Bit
<1>16. CASE MOV
  <2>1. Placed(d, Low(s, WB), WB) \in Word
    BY <1>15, Computed, Operands
  <2>. QED
    BY <1>3, <1>4, <1>16, <2>1, Operands, IntoTyped DEF MOV
<1>17. CASE SWAP
  <2>1. regs' \in [0 .. 7 -> Word]
    BY <1>4, <1>17, Operands DEF SWAP
  <2>. QED
    BY <1>3, <1>4, <1>17, <2>1 DEF SWAP
<1>18. CASE SRA
  <2>1. shift(d, WB) \in Word
    BY <1>15, Computed, Operands
  <2>. QED
    BY <1>3, <1>4, <1>18, <2>1, Operands, IntoTyped DEF SRA
<1>19. CASE RRC
  <2>1. rotate(psw.carry, d, WB) \in Word
    BY <1>15, Computed, Operands
  <2>2. d % 2 \in Bit
    BY Operands, Words16 DEF Bit
  <2>3. psw' \in PSW
    BY <1>4, <1>19, <2>2 DEF RRC, PSW
  <2>. QED
    BY <1>3, <1>19, <2>1, <2>3, Operands, IntoTyped DEF RRC
<1>20. CASE OneOperand
  <2>1. complement(d, WB) \in Word /\ swap_byte(d) \in Word /\ sign_extend(d) \in Word
    BY <1>15, Computed, Operands
  <2>2. PICK w \in Word : Into(Dest, w)
    BY <1>20, <2>1 DEF OneOperand, Case
  <2>. QED
    BY <1>3, <1>4, <1>20, <2>2, Operands, IntoTyped DEF OneOperand
<1>21. CASE CLRCC
  <2>1. Bits(ir, 0, 5) \in Nat
    BY <1>1, Fields
  <2>2. ASSUME NEW k \in {0, 1, 2, 3, 4}, NEW b \in Bit
        PROVE  b * (1 - BitOf(Bits(ir, 0, 5), k)) \in Bit
    <3>1. Bits(ir, 0, 5) < 65536
      <4>1. 2^5 = 32 /\ 2^0 = 1
        OBVIOUS
      <4>. QED
        BY <1>1, <4>1 DEF Bits
    <3>2. BitOf(Bits(ir, 0, 5), k) = 0 \/ BitOf(Bits(ir, 0, 5), k) = 1
      BY <2>1, <3>1, BitZeroOne
    <3>. QED
      BY <3>2 DEF Bit
  <2>3. psw' \in PSW
    <3>1. psw' = Cleared(psw, Bits(ir, 0, 5))
      BY <1>21 DEF CLRCC
    <3>. QED
      BY <1>4, <2>2, <3>1 DEF Cleared, PSW
  <2>. QED
    BY <1>3, <1>4, <1>21, <2>3 DEF CLRCC
<1>22. CASE move_bytes
  <2>. DEFINE b == Bits(ir, 3, 8)
  <2>1. b \in Nat /\ b < 256
    <3>1. 2^8 = 256 /\ 2^3 = 8
      OBVIOUS
    <3>. QED
      BY <1>1, <3>1 DEF Bits
  <2>2. b \in Word
    BY <2>1, Words16
  <2>3. LSByte(d) \in Word
    BY Operands, OfWord, Words16
  <2>4. /\ combine_bytes(MSByte(d), b) \in Word /\ combine_bytes(255, b) \in Word
        /\ combine_bytes(b, LSByte(d)) \in Word
    BY <2>1, <2>2, <2>3, Operands, OfWord, CombineWord
  <2>5. inst \in {"MOVL", "MOVLZ", "MOVLS", "MOVH"}
    BY <1>22, Named DEF move_bytes, Case
  <2>6. PICK w \in Word : Into(Dest, w)
    BY <1>22, <2>2, <2>4, <2>5 DEF move_bytes
  <2>. QED
    BY <1>3, <1>4, <1>22, <2>6, Operands, IntoTyped DEF move_bytes
<1>. QED
  BY <1>2, <1>5, <1>6, <1>7, <1>8, <1>9, <1>10, <1>11, <1>13, <1>14, <1>16, <1>17,
     <1>18, <1>19, <1>20, <1>21, <1>22 DEF Next, Execute

(* Every instruction leaves words in the registers and bits in the flags.  *)
THEOREM TypeCorrect == Spec => []TypeOK
<1>1. Init => TypeOK
  <2>. SUFFICES ASSUME Init PROVE TypeOK
    OBVIOUS
  <2>1. PICK b \in Before(ir) : regs = b.regs /\ psw = b.psw
    BY DEF Init
  <2>2. b \in [regs : [0 .. 7 -> Word], psw : PSW]
    BY <2>1, BeforeAssumption, Zenon DEF Init
  <2>. QED
    BY <2>1, <2>2 DEF Init, TypeOK
<1>2. TypeOK /\ [Next]_vars => TypeOK'
  <2>1. TypeOK /\ UNCHANGED vars => TypeOK'
    BY DEF TypeOK, vars
  <2>. QED
    BY <2>1, Executed
<1>. QED
  BY <1>1, <1>2, PTL DEF Spec

DecodedInst ==
    /\ ir \in Words
    /\ inst \in Range(Instructions) => inst = Decoded(ir)

LEMMA DecodedInvariant == DecodedInst /\ [Next]_vars => DecodedInst'
<1>. SUFFICES ASSUME DecodedInst, [Next]_vars
              PROVE  DecodedInst'
  OBVIOUS
<1>1. CASE Decode1
  BY <1>1 DEF Decode1, decode, DecodedInst
<1>2. CASE Execute
  <2>1. inst' = "EXECUTED" /\ ir' = ir
    BY <1>2 DEF Execute, Case, BL, branch_conditional, Add, DADD, CMP, Logic,
       BIT, BIC, BIS, MOV, SWAP, SRA, RRC, OneOperand, CLRCC, move_bytes
  <2>. QED
    BY <2>1, Named DEF DecodedInst
<1>3. CASE UNCHANGED vars
  BY <1>3 DEF vars, DecodedInst
<1>. QED
  BY <1>1, <1>2, <1>3 DEF Next

LEMMA DecodedInitially == Init => DecodedInst
  BY Named DEF Init, DecodedInst

(* Whatever the operands of a word, it is decoded as the same instruction: *)
(* the bits execute takes operands from are none that decode's switches on *)
(* the way to the instruction look at.                                     *)
THEOREM OperandsFreeCorrect == Spec => []OperandsFree
<1>1. DecodedInst => OperandsFree
  <2>. SUFFICES ASSUME DecodedInst, inst \in Range(Instructions), NEW b \in OperandBits(inst)
                PROVE  Decoded(Flip(ir, b)) = inst
    BY DEF OperandsFree
  <2>1. ir \in Nat /\ inst = Decoded(ir)
    BY IrWords DEF DecodedInst
  <2>. QED
    BY <2>1, OperandsAside
<1>. QED
  BY <1>1, DecodedInitially, DecodedInvariant, PTL DEF Spec

(* The codes execute compares to switch CEX off are those of the words     *)
(* below 0x4000, the nine branches, and of no others.                      *)
THEOREM BranchesLowCorrect == Spec => []BranchesLow
<1>1. DecodedInst => BranchesLow
  <2>. SUFFICES ASSUME DecodedInst, inst \in Range(Instructions)
                PROVE  IsBranch(inst) <=> ir < 16384
    BY DEF BranchesLow
  <2>1. ir \in Nat /\ ir < 65536 /\ inst = Decoded(ir)
    BY IrWords DEF DecodedInst
  <2>. QED
    BY <2>1, BranchWords
<1>. QED
  BY <1>1, DecodedInitially, DecodedInvariant, PTL DEF Spec
-----------------------------------------------------------------------------
(* What the instructions compute.                                          *)

(* A step from a decoded instruction is the case of execute for it.        *)
LEMMA WhichCase ==
    ASSUME [Next]_vars, inst # "EXECUTED", inst # "UNDECODED", inst' = "EXECUTED"
    PROVE  /\ inst \in {"ADD", "ADDC", "SUB", "SUBC"} => Add
           /\ inst = "DADD" => DADD
           /\ inst \in {"XOR", "AND", "OR"} => Logic
           /\ inst = "BIC" => BIC
           /\ inst = "BIS" => BIS
           /\ inst = "MOV" => MOV
           /\ inst = "SRA" => SRA
           /\ inst = "RRC" => RRC
           /\ inst = "BL" => BL
           /\ inst \in Range(ConditionalBranches) => branch_conditional
<1>1. Execute
  BY DEF Next, Decode1, vars
<1>. QED
  BY <1>1, Named DEF Execute, Case, BL, branch_conditional, Add, DADD, CMP, Logic,
     BIT, BIC, BIS, MOV, SWAP, SRA, RRC, OneOperand, CLRCC, move_bytes

SignedIn(w, wb) == IF MSBit(w, wb) = 1 THEN Low(w, wb) - Size(wb) ELSE Low(w, wb)

(* The bound of a word by its sign, which all of the flags rest on.        *)
LEMMA BySign ==
    ASSUME NEW wb \in Width, NEW w \in Word
    PROVE  /\ Low(w, wb) \in Nat /\ Low(w, wb) < Size(wb)
           /\ \/ MSBit(w, wb) = 0 /\ SignedIn(w, wb) = Low(w, wb)
              \/ MSBit(w, wb) = 1 /\ SignedIn(w, wb) = Low(w, wb) - Size(wb)
           /\ wb = "WORD" => (MSBit(w, wb) = 1 <=> Low(w, wb) >= 32768)
           /\ wb = "BYTE" => (MSBit(w, wb) = 1 <=> Low(w, wb) >= 128)
<1>1. Low(w, wb) \in Nat /\ Low(w, wb) < Size(wb)
  BY LowAndSign, Words16
<1>2. CASE wb = "WORD" /\ Size(wb) = 65536
  BY <1>1, <1>2, LowAndSign DEF SignedIn
<1>3. CASE wb = "BYTE" /\ Size(wb) = 256
  BY <1>1, <1>3, LowAndSign DEF SignedIn
<1>. QED
  BY <1>2, <1>3, Sizes

LEMMA LowOfSum ==
    ASSUME NEW wb \in Width, NEW x \in Word, NEW y \in Word, NEW c \in Bit
    PROVE  \/ /\ Low(x, wb) + Low(y, wb) + c < Size(wb)
              /\ Low(add(x, y, c, wb), wb) = Low(x, wb) + Low(y, wb) + c
           \/ /\ Low(x, wb) + Low(y, wb) + c >= Size(wb)
              /\ Low(add(x, y, c, wb), wb) = Low(x, wb) + Low(y, wb) + c - Size(wb)
<1>1. x \in Nat /\ x < 65536 /\ y \in Nat /\ y < 65536 /\ (c = 0 \/ c = 1)
  BY Words16 DEF Bit
<1>2. Low(add(x, y, c, wb), wb) = Low(x + y + c, wb)
  <2>1. x + y + c \in Int
    BY <1>1
  <2>. QED
    BY <2>1, LowOfInt, PlacedWord DEF add
<1>3. CASE wb = "WORD" /\ Size(wb) = 65536
  BY <1>1, <1>2, <1>3 DEF Low
<1>4. CASE wb = "BYTE" /\ Size(wb) = 256
  <2>. DEFINE lx == x % 256
              ly == y % 256
              l  == (x + y + c) % 256
  <2>1. /\ lx \in Nat /\ ly \in Nat /\ l \in Nat
        /\ \/ lx + ly + c < 256 /\ l = lx + ly + c
           \/ lx + ly + c >= 256 /\ l = lx + ly + c - 256
    BY <1>1
  <2>2. Low(x, wb) = lx /\ Low(y, wb) = ly /\ Low(x + y + c, wb) = l
    BY <1>4, Zenon DEF Low
  <2>. HIDE DEF lx, ly, l
  <2>. QED
    BY <1>1, <1>2, <1>4, <2>1, <2>2
<1>. QED
  BY <1>3, <1>4, Sizes

LEMMA SumFlags ==
    ASSUME NEW wb \in Width, NEW x \in Word, NEW y \in Word, NEW c \in Bit, NEW f \in PSW
    PROVE  /\ Size(wb) * update_psw(f, x, y, add(x, y, c, wb), wb).carry
                    + Low(add(x, y, c, wb), wb)
                  = Low(x, wb) + Low(y, wb) + c
           /\ update_psw(f, x, y, add(x, y, c, wb), wb).overflow
                  = Flag(\/ SignedIn(x, wb) + SignedIn(y, wb) + c < -(Size(wb) \div 2)
                         \/ SignedIn(x, wb) + SignedIn(y, wb) + c >= Size(wb) \div 2)
<1>. DEFINE r  == add(x, y, c, wb)
            p  == update_psw(f, x, y, r, wb)
            lx == Low(x, wb)
            ly == Low(y, wb)
            lr == Low(r, wb)
            mx == MSBit(x, wb)
            my == MSBit(y, wb)
            mr == MSBit(r, wb)
            sx == SignedIn(x, wb)
            sy == SignedIn(y, wb)
            n2 == Size(wb)
<1>1. r \in Word
  BY Computed
<1>2. p.carry = Flag(Carries(my, mx, mr)) /\ p.overflow = Flag(Overflows(my, mx, mr))
  BY <1>1, UpdatedFlags
<1>3. \/ lx + ly + c < n2 /\ lr = lx + ly + c
      \/ lx + ly + c >= n2 /\ lr = lx + ly + c - n2
  BY LowOfSum, Zenon
<1>4. /\ lx \in Nat /\ lx < n2
      /\ \/ mx = 0 /\ sx = lx
         \/ mx = 1 /\ sx = lx - n2
      /\ wb = "WORD" => (mx = 1 <=> lx >= 32768)
      /\ wb = "BYTE" => (mx = 1 <=> lx >= 128)
  BY BySign
<1>5. /\ ly \in Nat /\ ly < n2
      /\ \/ my = 0 /\ sy = ly
         \/ my = 1 /\ sy = ly - n2
      /\ wb = "WORD" => (my = 1 <=> ly >= 32768)
      /\ wb = "BYTE" => (my = 1 <=> ly >= 128)
  BY BySign
<1>6. /\ lr \in Nat /\ lr < n2
      /\ mr = 0 \/ mr = 1
      /\ wb = "WORD" => (mr = 1 <=> lr >= 32768)
      /\ wb = "BYTE" => (mr = 1 <=> lr >= 128)
  BY <1>1, BySign
<1>7. \/ wb = "WORD" /\ n2 = 65536
      \/ wb = "BYTE" /\ n2 = 256
  BY Sizes
<1>8. c = 0 \/ c = 1
  BY DEF Bit
<1>. HIDE DEF r, p, lx, ly, lr, mx, my, mr, sx, sy, n2
<1>9. n2 * p.carry + lr = lx + ly + c
  <2>1. CASE Carries(my, mx, mr)
    <3>1. lx + ly + c >= n2
      BY <1>3, <1>4, <1>5, <1>6, <1>7, <1>8, <2>1 DEF Carries
    <3>. QED
      BY <1>2, <1>3, <1>4, <1>5, <1>7, <1>8, <2>1, <3>1 DEF Flag
  <2>2. CASE ~Carries(my, mx, mr)
    <3>1. lx + ly + c < n2
      BY <1>3, <1>4, <1>5, <1>6, <1>7, <1>8, <2>2 DEF Carries
    <3>. QED
      BY <1>2, <1>3, <1>4, <1>5, <1>7, <1>8, <2>2, <3>1 DEF Flag
  <2>. QED
    BY <2>1, <2>2
<1>10. Overflows(my, mx, mr) <=> sx + sy + c < -(n2 \div 2) \/ sx + sy + c >= n2 \div 2
  <2>1. CASE wb = "WORD" /\ n2 = 65536
    BY <1>3, <1>4, <1>5, <1>6, <1>8, <2>1 DEF Overflows
  <2>2. CASE wb = "BYTE" /\ n2 = 256
    BY <1>3, <1>4, <1>5, <1>6, <1>8, <2>2 DEF Overflows
  <2>. QED
    BY <1>7, <2>1, <2>2
<1>11. p.overflow = Flag(sx + sy + c < -(n2 \div 2) \/ sx + sy + c >= n2 \div 2)
  BY <1>2, <1>10 DEF Flag
<1>. QED
  BY <1>9, <1>11, Zenon DEF r, p, lx, ly, lr, sx, sy, n2

LEMMA AddStep ==
    ASSUME TypeOK, [Next]_vars, Ran({"ADD", "ADDC", "SUB", "SUBC"})
    PROVE  /\ Addend \in Word /\ CarryIn \in Bit
           /\ Result = add(d, Addend, CarryIn, WB)
           /\ psw' = update_psw(psw, d, Addend, add(d, Addend, CarryIn, WB), WB)
<1>1. Add
  BY WhichCase DEF Ran
<1>2. Addend \in Word /\ CarryIn \in Bit
  BY Summands DEF Ran
<1>. DEFINE r == add(d, Addend, CarryIn, WB)
<1>3. r \in Word
  BY <1>2, Computed, Operands
<1>4. Into(Dest, r) /\ psw' = update_psw(psw, d, Addend, r, WB)
  BY <1>1 DEF Add
<1>. HIDE DEF r
<1>5. regs'[Dest] = r
  BY <1>3, <1>4, Operands, IntoTyped
<1>. QED
  BY <1>2, <1>4, <1>5 DEF r, Result

(* The carry and the overflow that ADD, ADDC, SUB and SUBC leave are those *)
(* of the sum of numbers.                                                  *)
THEOREM SumsExactCorrect == Spec => SumsExact
<1>1. ASSUME TypeOK, [Next]_vars, Ran({"ADD", "ADDC", "SUB", "SUBC"})
      PROVE  LET sum == Signed(d) + Signed(Addend) + CarryIn
             IN  /\ n * psw'.carry + Low(Result, WB) = Low(d, WB) + Low(Addend, WB) + CarryIn
                 /\ psw'.overflow = Flag(sum < -(n \div 2) \/ sum >= n \div 2)
  <2>1. psw \in PSW
    BY <1>1 DEF TypeOK
  <2>2. Signed(d) = SignedIn(d, WB) /\ Signed(Addend) = SignedIn(Addend, WB) /\ n = Size(WB)
    BY DEF Signed, SignedIn, n
  <2>3. /\ Size(WB) * psw'.carry + Low(Result, WB) = Low(d, WB) + Low(Addend, WB) + CarryIn
        /\ psw'.overflow
              = Flag(\/ SignedIn(d, WB) + SignedIn(Addend, WB) + CarryIn < -(Size(WB) \div 2)
                     \/ SignedIn(d, WB) + SignedIn(Addend, WB) + CarryIn >= Size(WB) \div 2)
    <3>. DEFINE r == add(d, Addend, CarryIn, WB)
                p == update_psw(psw, d, Addend, r, WB)
    <3>1. WB \in Width /\ d \in Word /\ Addend \in Word /\ CarryIn \in Bit
      BY <1>1, AddStep, Operands
    <3>2. /\ Size(WB) * p.carry + Low(r, WB) = Low(d, WB) + Low(Addend, WB) + CarryIn
          /\ p.overflow
                = Flag(\/ SignedIn(d, WB) + SignedIn(Addend, WB) + CarryIn < -(Size(WB) \div 2)
                       \/ SignedIn(d, WB) + SignedIn(Addend, WB) + CarryIn >= Size(WB) \div 2)
      BY <2>1, <3>1, SumFlags
    <3>3. psw' = p /\ Result = r
      BY <1>1, AddStep
    <3>. QED
      BY <3>2, <3>3, Zenon
  <2>. QED
    BY <2>2, <2>3, Zenon
<1>2. TypeOK /\ [Next]_vars =>
        [Ran({"ADD", "ADDC", "SUB", "SUBC"}) =>
            LET sum == Signed(d) + Signed(Addend) + CarryIn
            IN  /\ n * psw'.carry + Low(Result, WB) = Low(d, WB) + Low(Addend, WB) + CarryIn
                /\ psw'.overflow = Flag(sum < -(n \div 2) \/ sum >= n \div 2)]_vars
  BY <1>1
<1>. QED
  BY <1>2, TypeCorrect, PTL DEF Spec, SumsExact

LEMMA LowOfNegated ==
    ASSUME NEW wb \in Width, NEW y \in Word
    PROVE  /\ Low(y, wb) = 0 => Low(Negated(y), wb) = 0
           /\ Low(y, wb) # 0 => Low(Negated(y), wb) = Size(wb) - Low(y, wb)
<1>1. y \in Nat /\ y < 65536
  BY Words16
<1>2. CASE wb = "WORD" /\ Size(wb) = 65536
  BY <1>1, <1>2 DEF Low, Negated
<1>3. CASE wb = "BYTE" /\ Size(wb) = 256
  <2>1. CASE y = 0
    BY <1>3, <2>1 DEF Low, Negated
  <2>2. CASE y # 0
    <3>1. Negated(y) = 65536 - y
      BY <1>1, <2>2 DEF Negated
    <3>2. (65536 - y) % 256 = IF y % 256 = 0 THEN 0 ELSE 256 - (y % 256)
      BY <1>1
    <3>. QED
      BY <1>1, <1>3, <3>1, <3>2 DEF Low
  <2>. QED
    BY <2>1, <2>2
<1>. QED
  BY <1>2, <1>3, Sizes

(* Equal as signed numbers is equal as unsigned ones.                      *)
LEMMA SignedOrder ==
    ASSUME NEW wb \in Width, NEW x \in Word, NEW y \in Word
    PROVE  /\ Low(x, wb) \in Int /\ Low(y, wb) \in Int
           /\ SignedIn(x, wb) \in Int /\ SignedIn(y, wb) \in Int
           /\ SignedIn(x, wb) = SignedIn(y, wb) <=> Low(x, wb) = Low(y, wb)
<1>1. CASE wb = "WORD" /\ Size(wb) = 65536
  BY <1>1, BySign
<1>2. CASE wb = "BYTE" /\ Size(wb) = 256
  BY <1>2, BySign
<1>. QED
  BY <1>1, <1>2, Sizes

(* Conditions of CEX, before and after a step.                             *)
FlagsTold ==
    /\ EQ <=> psw.zero = 1
    /\ NE <=> psw.zero = 0
    /\ HS <=> psw.carry = 1
    /\ LO <=> psw.carry = 0
    /\ HI <=> psw.carry = 1 /\ psw.zero = 0
    /\ LS <=> psw.carry = 0 \/ psw.zero = 1
    /\ GE <=> psw.negative = psw.overflow
    /\ LT <=> psw.negative # psw.overflow
    /\ GT <=> psw.zero = 0 /\ psw.negative = psw.overflow

LEMMA Conditions == FlagsTold
<1>1. /\ Conditional!Condition[1] = (psw.zero = 1)
      /\ Conditional!Condition[2] = (psw.zero = 0)
      /\ Conditional!Condition[3] = (psw.carry = 1)
      /\ Conditional!Condition[4] = (psw.carry = 0)
  BY SMT DEF Conditional!Condition
<1>2. /\ Conditional!Condition[9] = (psw.carry = 1 /\ psw.zero = 0)
      /\ Conditional!Condition[10] = (psw.carry = 0 \/ psw.zero = 1)
  BY SMT DEF Conditional!Condition
<1>3. /\ Conditional!Condition[11] = (psw.negative = psw.overflow)
      /\ Conditional!Condition[12] = (psw.negative # psw.overflow)
      /\ Conditional!Condition[13] = (psw.zero = 0 /\ psw.negative = psw.overflow)
  BY SMT DEF Conditional!Condition
<1>4. /\ Conditional!Holds(0) = Conditional!Condition[1]
      /\ Conditional!Holds(1) = Conditional!Condition[2]
      /\ Conditional!Holds(2) = Conditional!Condition[3]
      /\ Conditional!Holds(3) = Conditional!Condition[4]
      /\ Conditional!Holds(8) = Conditional!Condition[9]
      /\ Conditional!Holds(9) = Conditional!Condition[10]
      /\ Conditional!Holds(10) = Conditional!Condition[11]
      /\ Conditional!Holds(11) = Conditional!Condition[12]
      /\ Conditional!Holds(12) = Conditional!Condition[13]
  BY SMT DEF Conditional!Holds
<1>. QED
  BY <1>1, <1>2, <1>3, <1>4, Zenon DEF FlagsTold, EQ, NE, HS, LO, HI, LS, GE, LT, GT

LEMMA ConditionsAfter ==
    /\ EQ' <=> psw'.zero = 1
    /\ NE' <=> psw'.zero = 0
    /\ HS' <=> psw'.carry = 1
    /\ LO' <=> psw'.carry = 0
    /\ HI' <=> psw'.carry = 1 /\ psw'.zero = 0
    /\ LS' <=> psw'.carry = 0 \/ psw'.zero = 1
    /\ GE' <=> psw'.negative = psw'.overflow
    /\ LT' <=> psw'.negative # psw'.overflow
    /\ GT' <=> psw'.zero = 0 /\ psw'.negative = psw'.overflow
<1>1. FlagsTold'
  BY Conditions, PTL
<1>. QED
  BY <1>1 DEF FlagsTold

(* The flags of adding the negated source, as an order.                    *)
Subtracted(f, x, y, wb) ==
    update_psw(f, x, Negated(y), add(x, Negated(y), 0, wb), wb)

LEMMA DifferenceFlags ==
    ASSUME NEW wb \in Width, NEW x \in Word, NEW y \in Word, NEW f \in PSW
    PROVE  /\ Subtracted(f, x, y, wb).zero = 1 <=> Low(x, wb) = Low(y, wb)
           /\ Low(y, wb) # 0 => (Subtracted(f, x, y, wb).carry = 1 <=> Low(x, wb) >= Low(y, wb))
           /\ SignedIn(y, wb) # -(Size(wb) \div 2) =>
                 (Subtracted(f, x, y, wb).negative # Subtracted(f, x, y, wb).overflow
                      <=> SignedIn(x, wb) < SignedIn(y, wb))
           /\ Subtracted(f, x, y, wb).zero \in Bit /\ Subtracted(f, x, y, wb).carry \in Bit
<1>. DEFINE z  == Negated(y)
            r  == add(x, z, 0, wb)
            p  == update_psw(f, x, z, r, wb)
            lx == Low(x, wb)
            ly == Low(y, wb)
            lz == Low(z, wb)
            lr == Low(r, wb)
            mr == MSBit(r, wb)
            sx == SignedIn(x, wb)
            sy == SignedIn(y, wb)
            sz == SignedIn(z, wb)
            m  == Size(wb)
<1>1. z \in Word /\ 0 \in Bit
  BY OfWord DEF Bit
<1>2. r \in Word
  BY <1>1, Computed
<1>3. p.zero = Flag(lr = 0) /\ p.negative = mr
  BY <1>1, <1>2, UpdatedFlags
<1>4. \/ lx + lz + 0 < m /\ lr = lx + lz + 0
      \/ lx + lz + 0 >= m /\ lr = lx + lz + 0 - m
  BY <1>1, LowOfSum, Zenon
<1>5. /\ m * p.carry + lr = lx + lz + 0
      /\ p.overflow = Flag(sx + sz + 0 < -(m \div 2) \/ sx + sz + 0 >= m \div 2)
  BY <1>1, SumFlags
<1>6. /\ ly = 0 => lz = 0
      /\ ly # 0 => lz = m - ly
  BY LowOfNegated
<1>7. ASSUME NEW v \in Word
      PROVE  /\ Low(v, wb) \in Nat /\ Low(v, wb) < m
             /\ \/ /\ MSBit(v, wb) = 0 /\ Low(v, wb) < m \div 2
                   /\ SignedIn(v, wb) = Low(v, wb)
                \/ /\ MSBit(v, wb) = 1 /\ Low(v, wb) >= m \div 2
                   /\ SignedIn(v, wb) = Low(v, wb) - m
  <2>1. CASE wb = "WORD" /\ m = 65536
    BY <2>1, BySign
  <2>2. CASE wb = "BYTE" /\ m = 256
    BY <2>2, BySign
  <2>. QED
    BY <2>1, <2>2, Sizes
<1>8. /\ lx \in Nat /\ lx < m
      /\ \/ lx < m \div 2 /\ sx = lx
         \/ lx >= m \div 2 /\ sx = lx - m
  BY <1>7, Zenon
<1>9. /\ ly \in Nat /\ ly < m
      /\ \/ ly < m \div 2 /\ sy = ly
         \/ ly >= m \div 2 /\ sy = ly - m
  BY <1>7, Zenon
<1>10. /\ lz \in Nat /\ lz < m
       /\ \/ lz < m \div 2 /\ sz = lz
          \/ lz >= m \div 2 /\ sz = lz - m
  BY <1>1, <1>7, Zenon
<1>11. /\ lr \in Nat /\ lr < m
       /\ \/ mr = 0 /\ lr < m \div 2
          \/ mr = 1 /\ lr >= m \div 2
  BY <1>2, <1>7, Zenon
<1>12. m = 65536 \/ m = 256
  BY Sizes
<1>13. p.carry = 0 \/ p.carry = 1
  <2>1. p.carry = Flag(Carries(MSBit(z, wb), MSBit(x, wb), mr))
    BY <1>1, <1>2, UpdatedFlags
  <2>. QED
    BY <2>1 DEF Flag
<1>. HIDE DEF z, r, p, lx, ly, lz, lr, mr, sx, sy, sz, m
<1>14. lr = 0 <=> lx = ly
  BY <1>4, <1>6, <1>8, <1>9, <1>10, <1>12
<1>15. ly # 0 => (p.carry = 1 <=> lx >= ly)
  BY <1>5, <1>6, <1>8, <1>9, <1>11, <1>12, <1>13
<1>16. ASSUME sy # -(m \div 2)
       PROVE  /\ (sx + sz + 0 < -(m \div 2) \/ sx + sz + 0 >= m \div 2)
                     => (mr = 0 <=> sx < sy)
              /\ ~(sx + sz + 0 < -(m \div 2) \/ sx + sz + 0 >= m \div 2)
                     => (mr = 1 <=> sx < sy)
  <2>1. sz = -sy
    BY <1>6, <1>9, <1>10, <1>12, <1>16
  <2>2. CASE m = 65536
    BY <1>4, <1>8, <1>9, <1>10, <1>11, <2>1, <2>2
  <2>3. CASE m = 256
    BY <1>4, <1>8, <1>9, <1>10, <1>11, <2>1, <2>3
  <2>. QED
    BY <1>12, <2>2, <2>3
<1>17. sy # -(m \div 2) => (p.negative # p.overflow <=> sx < sy)
  BY <1>3, <1>5, <1>11, <1>16 DEF Flag
<1>18. p.zero = 1 <=> lx = ly
  BY <1>3, <1>14 DEF Flag
<1>19. p.zero \in Bit /\ p.carry \in Bit
  BY <1>3, <1>13 DEF Flag, Bit
<1>. QED
  BY <1>15, <1>17, <1>18, <1>19, Zenon DEF Subtracted, p, r, z, lx, ly, sx, sy, m

(* After SUB the conditions of CEX order the operands.                     *)
THEOREM SubtractOrdersCorrect == Spec => SubtractOrders
<1>1. ASSUME TypeOK, [Next]_vars, Ran({"SUB"})
      PROVE  Ordered
  <2>. DEFINE D == Low(d, WB)
              S == Low(Operand, WB)
  <2>1. psw \in PSW /\ WB \in Width /\ d \in Word /\ Operand \in Word
    BY <1>1, Operands DEF TypeOK
  <2>2. inst = "SUB" /\ Ran({"ADD", "ADDC", "SUB", "SUBC"})
    BY <1>1 DEF Ran
  <2>3. Addend = Negated(Operand) /\ CarryIn = 0
    BY <2>2 DEF Addend, CarryIn
  <2>4. psw' = Subtracted(psw, d, Operand, WB)
    BY <1>1, <2>2, <2>3, AddStep DEF Subtracted
  <2>5. /\ psw'.zero = 1 <=> D = S
        /\ S # 0 => (psw'.carry = 1 <=> D >= S)
        /\ SignedIn(Operand, WB) # -(Size(WB) \div 2) =>
              (psw'.negative # psw'.overflow <=> SignedIn(d, WB) < SignedIn(Operand, WB))
        /\ psw'.zero \in Bit /\ psw'.carry \in Bit
    BY <2>1, <2>4, DifferenceFlags, Zenon
  <2>6. Signed(d) = SignedIn(d, WB) /\ Signed(Operand) = SignedIn(Operand, WB) /\ n = Size(WB)
    BY DEF Signed, SignedIn, n
  <2>7. /\ D \in Int /\ S \in Int /\ Signed(d) \in Int /\ Signed(Operand) \in Int
        /\ Signed(d) = Signed(Operand) <=> D = S
    BY <2>1, <2>6, SignedOrder
  <2>8. /\ (EQ' <=> D = S) /\ (NE' <=> D # S)
        /\ S # 0 => /\ (HS' <=> D >= S) /\ (LO' <=> D < S)
                    /\ (HI' <=> D > S)  /\ (LS' <=> D <= S)
    <3>. HIDE DEF D, S
    <3>. QED
      BY <2>5, <2>7, ConditionsAfter DEF Bit
  <2>9. Signed(Operand) # -(n \div 2) =>
           /\ GE' <=> Signed(d) >= Signed(Operand)
           /\ LT' <=> Signed(d) < Signed(Operand)
           /\ GT' <=> Signed(d) > Signed(Operand)
    <3>1. Signed(Operand) # -(n \div 2) =>
             (psw'.negative # psw'.overflow <=> Signed(d) < Signed(Operand))
      BY <2>5, <2>6
    <3>. HIDE DEF D, S
    <3>. QED
      BY <2>5, <2>7, <3>1, ConditionsAfter DEF Bit
  <2>. QED
    BY <2>8, <2>9, Zenon DEF Ordered
<1>2. TypeOK /\ [Next]_vars => [Ran({"SUB"}) => Ordered]_vars
  BY <1>1
<1>. QED
  BY <1>2, TypeCorrect, PTL DEF Spec, SubtractOrders

Digit(a)  == a \in Nat /\ a <= 9
HalfBit(h) == h = 0 \/ h = 1
FromNibbles(a, b, c, e) == a + 16 * b + 256 * (c + 16 * e)
FromDigits(a, b, c, e)  == a + 10 * b + 100 * c + 1000 * e

LEMMA DecimalDigit ==
    \A a, b, h : Digit(a) /\ Digit(b) /\ HalfBit(h) =>
        /\ HalfBit(HalfCarry(a, b, h)) /\ Digit(bcd_arith(a, b, h))
        /\ bcd_arith(a, b, h) + 10 * HalfCarry(a, b, h) = a + b + h
<1>. SUFFICES ASSUME NEW a, NEW b, NEW h, Digit(a), Digit(b), HalfBit(h)
     PROVE  /\ HalfBit(HalfCarry(a, b, h)) /\ Digit(bcd_arith(a, b, h))
            /\ bcd_arith(a, b, h) + 10 * HalfCarry(a, b, h) = a + b + h
  OBVIOUS
<1>1. a \in Nat /\ b \in Nat /\ h \in Nat /\ a <= 9 /\ b <= 9 /\ h <= 1
  BY DEF Digit, HalfBit
<1>2. CASE a + b + h > 9
  <2>1. HalfCarry(a, b, h) = 1
    BY <1>2 DEF HalfCarry, Flag
  <2>. QED
    BY <1>1, <1>2, <2>1 DEF bcd_arith, Digit, HalfBit
<1>3. CASE a + b + h <= 9
  <2>1. HalfCarry(a, b, h) = 0
    BY <1>1, <1>3 DEF HalfCarry, Flag
  <2>. QED
    BY <1>1, <1>3, <2>1 DEF bcd_arith, Digit, HalfBit
<1>. QED
  BY <1>1, <1>2, <1>3

LEMMA Nibbles ==
    \A a, b, c, e : Digit(a) /\ Digit(b) /\ Digit(c) /\ Digit(e) =>
        /\ Nibble(FromNibbles(a, b, c, e), 0) = a /\ Nibble(FromNibbles(a, b, c, e), 1) = b
        /\ Nibble(FromNibbles(a, b, c, e), 2) = c /\ Nibble(FromNibbles(a, b, c, e), 3) = e
<1>. SUFFICES ASSUME NEW a, NEW b, NEW c, NEW e, Digit(a), Digit(b), Digit(c), Digit(e)
     PROVE  /\ Nibble(FromNibbles(a, b, c, e), 0) = a /\ Nibble(FromNibbles(a, b, c, e), 1) = b
            /\ Nibble(FromNibbles(a, b, c, e), 2) = c /\ Nibble(FromNibbles(a, b, c, e), 3) = e
  OBVIOUS
<1>. DEFINE w == FromNibbles(a, b, c, e)
<1>1. /\ a \in Nat /\ b \in Nat /\ c \in Nat /\ e \in Nat
      /\ a <= 9 /\ b <= 9 /\ c <= 9 /\ e <= 9
  BY DEF Digit
<1>2. w = a + 16 * b + 256 * (c + 16 * e)
  BY DEF FromNibbles
<1>. HIDE DEF w
<1>3. 16^0 = 1 /\ 16^1 = 16 /\ 16^2 = 256 /\ 16^3 = 4096
  OBVIOUS
<1>4. w \in Nat /\ w % 16 = a /\ w \div 1 = w
  BY <1>1, <1>2
<1>5. w \div 16 = b + 16 * c + 256 * e
  BY <1>1, <1>2
<1>6. w \div 256 = c + 16 * e
  BY <1>1, <1>2
<1>7. w \div 4096 = e
  BY <1>1, <1>2
<1>8. (b + 16 * c + 256 * e) % 16 = b /\ (c + 16 * e) % 16 = c /\ e % 16 = e
  BY <1>1
<1>9. Nibble(w, 0) = a /\ Nibble(w, 1) = b /\ Nibble(w, 2) = c /\ Nibble(w, 3) = e
  BY <1>3, <1>4, <1>5, <1>6, <1>7, <1>8 DEF Nibble
<1>. QED
  BY <1>9, Zenon DEF w

LEMMA AddDigits ==
    ASSUME NEW x0, NEW x1, NEW x2, NEW x3, NEW y0, NEW y1, NEW y2, NEW y3,
           Digit(x0), Digit(x1), Digit(x2), Digit(x3),
           Digit(y0), Digit(y1), Digit(y2), Digit(y3),
           NEW h1, NEW h2, NEW h3, NEW h4, NEW r0, NEW r1, NEW r2, NEW r3,
           HalfBit(h1), HalfBit(h2), HalfBit(h3), HalfBit(h4),
           Digit(r0), Digit(r1), Digit(r2), Digit(r3),
           r0 + 10 * h1 = x0 + y0 + 0, r1 + 10 * h2 = x1 + y1 + h1,
           r2 + 10 * h3 = x2 + y2 + h2, r3 + 10 * h4 = x3 + y3 + h3
    PROVE  FromDigits(r0, r1, r2, r3)
              = (FromDigits(x0, x1, x2, x3) + FromDigits(y0, y1, y2, y3)) % 10000
<1>1. \A a : Digit(a) => a \in Nat /\ a <= 9
  BY DEF Digit
<1>2. \A h : HalfBit(h) => h \in Nat /\ (h = 0 \/ h = 1)
  BY DEF HalfBit
<1>3. x0 \in Nat /\ x1 \in Nat /\ x2 \in Nat /\ x3 \in Nat
  BY <1>1, Zenon
<1>4. y0 \in Nat /\ y1 \in Nat /\ y2 \in Nat /\ y3 \in Nat
  BY <1>1, Zenon
<1>5. /\ r0 \in Nat /\ r1 \in Nat /\ r2 \in Nat /\ r3 \in Nat
      /\ r0 <= 9 /\ r1 <= 9 /\ r2 <= 9 /\ r3 <= 9
  BY <1>1, Zenon
<1>6. h1 \in Nat /\ h2 \in Nat /\ h3 \in Nat /\ h4 \in Nat /\ (h4 = 0 \/ h4 = 1)
  BY <1>2, Zenon
<1>. DEFINE p == FromDigits(r0, r1, r2, r3)
            q == FromDigits(x0, x1, x2, x3) + FromDigits(y0, y1, y2, y3)
<1>7. p \in Nat /\ p < 10000
  BY <1>5 DEF FromDigits
<1>8. q \in Nat
  BY <1>3, <1>4 DEF FromDigits
<1>9. q = p + 10000 * h4
  BY <1>3, <1>4, <1>5, <1>6 DEF FromDigits
<1>10. \A u, v : u \in Nat /\ u < 10000 /\ (v = u \/ v = u + 10000) => v % 10000 = u
  OBVIOUS
<1>11. q = p \/ q = p + 10000
  <2>. HIDE DEF p, q
  <2>. QED
    BY <1>6, <1>7, <1>9
<1>12. q % 10000 = p
  <2>. HIDE DEF p, q
  <2>. QED
    BY <1>7, <1>10, <1>11, SMT
<1>. QED
  BY <1>12, SMT

LEMMA AddTwoDigits ==
    ASSUME NEW x0, NEW x1, NEW y0, NEW y1, Digit(x0), Digit(x1), Digit(y0), Digit(y1),
           NEW h1, NEW h2, NEW r0, NEW r1,
           HalfBit(h1), HalfBit(h2), Digit(r0), Digit(r1),
           r0 + 10 * h1 = x0 + y0 + 0, r1 + 10 * h2 = x1 + y1 + h1
    PROVE  FromDigits(r0, r1, 0, 0)
              = (FromDigits(x0, x1, 0, 0) + FromDigits(y0, y1, 0, 0)) % 100
<1>1. /\ x0 \in Nat /\ x1 \in Nat /\ y0 \in Nat /\ y1 \in Nat
      /\ r0 \in Nat /\ r1 \in Nat /\ r0 <= 9 /\ r1 <= 9
      /\ h1 \in Nat /\ h2 \in Nat /\ (h2 = 0 \/ h2 = 1)
  BY DEF Digit, HalfBit
<1>. DEFINE p == FromDigits(r0, r1, 0, 0)
            q == FromDigits(x0, x1, 0, 0) + FromDigits(y0, y1, 0, 0)
<1>2. p \in Nat /\ p < 100
  BY <1>1 DEF FromDigits
<1>3. q \in Nat /\ q = p + 100 * h2
  BY <1>1 DEF FromDigits
<1>. HIDE DEF p, q
<1>4. q % 100 = p
  BY <1>1, <1>2, <1>3
<1>. QED
  BY <1>4 DEF p, q

LEMMA NibbleNat == \A w \in Word : \A k \in {0, 1, 2, 3} : Nibble(w, k) \in Nat
<1>1. 16^0 = 1 /\ 16^1 = 16 /\ 16^2 = 256 /\ 16^3 = 4096
  OBVIOUS
<1>2. \A w \in Nat : /\ (w \div 1) % 16 \in Nat /\ (w \div 16) % 16 \in Nat
                     /\ (w \div 256) % 16 \in Nat /\ (w \div 4096) % 16 \in Nat
  OBVIOUS
<1>3. ASSUME NEW w \in Word
      PROVE  /\ Nibble(w, 0) \in Nat /\ Nibble(w, 1) \in Nat
             /\ Nibble(w, 2) \in Nat /\ Nibble(w, 3) \in Nat
  BY <1>1, <1>2, <1>3, Words16 DEF Nibble
<1>. QED
  BY <1>3

(* What add_decimal makes of decimal numbers, in the two widths.           *)
Digits4(w) == /\ Digit(Nibble(w, 0)) /\ Digit(Nibble(w, 1))
              /\ Digit(Nibble(w, 2)) /\ Digit(Nibble(w, 3))
Value4(w) == FromDigits(Nibble(w, 0), Nibble(w, 1), Nibble(w, 2), Nibble(w, 3))
Digits2(w) == Digit(Nibble(w, 0)) /\ Digit(Nibble(w, 1))
Value2(w) == FromDigits(Nibble(w, 0), Nibble(w, 1), 0, 0)

LEMMA DecimalWord ==
    ASSUME NEW x, NEW y, Digits4(x), Digits4(y)
    PROVE  /\ Digits4(add_decimal(x, y, "WORD"))
           /\ Value4(add_decimal(x, y, "WORD")) = (Value4(x) + Value4(y)) % 10000
<1>. DEFINE h1 == HalfCarry(Nibble(x, 0), Nibble(y, 0), 0)
            h2 == HalfCarry(Nibble(x, 1), Nibble(y, 1), h1)
            h3 == HalfCarry(Nibble(x, 2), Nibble(y, 2), h2)
            h4 == HalfCarry(Nibble(x, 3), Nibble(y, 3), h3)
            r0 == bcd_arith(Nibble(x, 0), Nibble(y, 0), 0)
            r1 == bcd_arith(Nibble(x, 1), Nibble(y, 1), h1)
            r2 == bcd_arith(Nibble(x, 2), Nibble(y, 2), h2)
            r3 == bcd_arith(Nibble(x, 3), Nibble(y, 3), h3)
<1>1. /\ Digit(Nibble(x, 0)) /\ Digit(Nibble(x, 1)) /\ Digit(Nibble(x, 2)) /\ Digit(Nibble(x, 3))
      /\ Digit(Nibble(y, 0)) /\ Digit(Nibble(y, 1)) /\ Digit(Nibble(y, 2)) /\ Digit(Nibble(y, 3))
  BY DEF Digits4
<1>2. HalfBit(0)
  BY DEF HalfBit
<1>3. HalfBit(h1) /\ Digit(r0) /\ r0 + 10 * h1 = Nibble(x, 0) + Nibble(y, 0) + 0
  BY <1>1, <1>2, DecimalDigit
<1>. HIDE DEF h1, r0
<1>4. HalfBit(h2) /\ Digit(r1) /\ r1 + 10 * h2 = Nibble(x, 1) + Nibble(y, 1) + h1
  BY <1>1, <1>3, DecimalDigit
<1>. HIDE DEF h2, r1
<1>5. HalfBit(h3) /\ Digit(r2) /\ r2 + 10 * h3 = Nibble(x, 2) + Nibble(y, 2) + h2
  BY <1>1, <1>4, DecimalDigit
<1>. HIDE DEF h3, r2
<1>6. HalfBit(h4) /\ Digit(r3) /\ r3 + 10 * h4 = Nibble(x, 3) + Nibble(y, 3) + h3
  BY <1>1, <1>5, DecimalDigit
<1>. HIDE DEF h4, r3
<1>7. add_decimal(x, y, "WORD") = r0 + 16 * r1 + 256 * (r2 + 16 * r3)
  BY DEF add_decimal, h1, h2, h3, r0, r1, r2, r3
<1>8. add_decimal(x, y, "WORD") = FromNibbles(r0, r1, r2, r3)
  BY <1>7, Zenon DEF FromNibbles
<1>. HIDE DEF r3
<1>9. /\ Nibble(add_decimal(x, y, "WORD"), 0) = r0
      /\ Nibble(add_decimal(x, y, "WORD"), 1) = r1
      /\ Nibble(add_decimal(x, y, "WORD"), 2) = r2
      /\ Nibble(add_decimal(x, y, "WORD"), 3) = r3
  <2>1. /\ Nibble(FromNibbles(r0, r1, r2, r3), 0) = r0
        /\ Nibble(FromNibbles(r0, r1, r2, r3), 1) = r1
        /\ Nibble(FromNibbles(r0, r1, r2, r3), 2) = r2
        /\ Nibble(FromNibbles(r0, r1, r2, r3), 3) = r3
    BY <1>3, <1>4, <1>5, <1>6, Nibbles
  <2>. QED
    BY <1>8, <2>1
<1>10. FromDigits(r0, r1, r2, r3)
         = (Value4(x) + Value4(y)) % 10000
  BY <1>1, <1>3, <1>4, <1>5, <1>6, AddDigits DEF Value4
<1>. QED
  BY <1>3, <1>4, <1>5, <1>6, <1>9, <1>10 DEF Digits4, Value4

LEMMA DecimalByte ==
    ASSUME NEW x, NEW y, Digits2(x), Digits2(y)
    PROVE  /\ Digits2(add_decimal(x, y, "BYTE"))
           /\ Low(add_decimal(x, y, "BYTE"), "BYTE") = add_decimal(x, y, "BYTE")
           /\ Value2(add_decimal(x, y, "BYTE")) = (Value2(x) + Value2(y)) % 100
<1>. DEFINE h1 == HalfCarry(Nibble(x, 0), Nibble(y, 0), 0)
            h2 == HalfCarry(Nibble(x, 1), Nibble(y, 1), h1)
            r0 == bcd_arith(Nibble(x, 0), Nibble(y, 0), 0)
            r1 == bcd_arith(Nibble(x, 1), Nibble(y, 1), h1)
<1>1. /\ Digit(Nibble(x, 0)) /\ Digit(Nibble(x, 1))
      /\ Digit(Nibble(y, 0)) /\ Digit(Nibble(y, 1))
  BY DEF Digits2
<1>2. HalfBit(0) /\ Digit(0)
  BY DEF HalfBit, Digit
<1>3. HalfBit(h1) /\ Digit(r0) /\ r0 + 10 * h1 = Nibble(x, 0) + Nibble(y, 0) + 0
  BY <1>1, <1>2, DecimalDigit
<1>. HIDE DEF h1, r0
<1>4. HalfBit(h2) /\ Digit(r1) /\ r1 + 10 * h2 = Nibble(x, 1) + Nibble(y, 1) + h1
  BY <1>1, <1>3, DecimalDigit
<1>. HIDE DEF h2, r1
<1>. HIDE DEF h2, r1
<1>5. add_decimal(x, y, "BYTE") = r0 + 16 * r1
  BY DEF add_decimal, h1, r0, r1
<1>6. r0 \in Nat /\ r1 \in Nat /\ r0 <= 9 /\ r1 <= 9
  BY <1>3, <1>4 DEF Digit
<1>7. add_decimal(x, y, "BYTE") = FromNibbles(r0, r1, 0, 0)
  BY <1>5, <1>6 DEF FromNibbles
<1>8. /\ Nibble(add_decimal(x, y, "BYTE"), 0) = r0
      /\ Nibble(add_decimal(x, y, "BYTE"), 1) = r1
  <2>1. /\ Nibble(FromNibbles(r0, r1, 0, 0), 0) = r0
        /\ Nibble(FromNibbles(r0, r1, 0, 0), 1) = r1
    BY <1>2, <1>3, <1>4, Nibbles
  <2>. QED
    BY <1>7, <2>1
<1>9. Low(add_decimal(x, y, "BYTE"), "BYTE") = add_decimal(x, y, "BYTE")
  BY <1>5, <1>6 DEF Low, Size
<1>10. FromDigits(r0, r1, 0, 0) = (Value2(x) + Value2(y)) % 100
  BY <1>1, <1>3, <1>4, AddTwoDigits DEF Value2
<1>. QED
  BY <1>3, <1>4, <1>8, <1>9, <1>10 DEF Digits2, Value2

(* DADD adds decimal numbers, over all digits of its width; the byte form  *)
(* leaves the upper byte 0.                                                *)
THEOREM DecimalExactCorrect == Spec => DecimalExact
<1>1. ASSUME TypeOK, [Next]_vars, Ran({"DADD"}), IsDecimal(d), IsDecimal(Operand)
      PROVE  /\ Low(Result, WB) = Result
             /\ IsDecimal(Result)
             /\ Decimal(Result) = (Decimal(d) + Decimal(Operand))
                                      % (IF WB = "WORD" THEN 10000 ELSE 100)
  <2>1. WB \in Width /\ d \in Word /\ Operand \in Word /\ psw \in PSW /\ Dest \in 0 .. 7
    BY <1>1, Operands DEF TypeOK
  <2>2. DADD
    BY <1>1, WhichCase DEF Ran
  <2>3. Into(Dest, add_decimal(d, Operand, WB))
    BY <2>2 DEF DADD
  <2>4. add_decimal(d, Operand, WB) \in Word
    BY <2>1, Computed DEF Bit
  <2>5. Result = add_decimal(d, Operand, WB)
    BY <1>1, <2>1, <2>3, <2>4, IntoTyped DEF Result
  <2>6. /\ \A k \in {0, 1, 2, 3} : Nibble(d, k) \in Nat
        /\ \A k \in {0, 1, 2, 3} : Nibble(Operand, k) \in Nat
        /\ \A k \in {0, 1, 2, 3} : Nibble(Result, k) \in Nat
    BY <2>1, <2>4, <2>5, NibbleNat
  <2>7. CASE WB = "WORD"
    <3>1. \A w : IsDecimal(w) <=> /\ Nibble(w, 0) <= 9 /\ Nibble(w, 1) <= 9
                                  /\ Nibble(w, 2) <= 9 /\ Nibble(w, 3) <= 9
      BY <2>7 DEF IsDecimal, Digits
    <3>2. Digits4(d) /\ Digits4(Operand)
      BY <1>1, <2>6, <3>1 DEF Digits4, Digit
    <3>3. /\ Digits4(Result)
          /\ Value4(Result) = (Value4(d) + Value4(Operand)) % 10000
      BY <2>5, <2>7, <3>2, DecimalWord
    <3>4. IsDecimal(Result)
      BY <3>1, <3>3 DEF Digits4, Digit
    <3>5. \A w \in {d, Operand, Result} : Decimal(w) = Value4(w)
      BY <2>6, <2>7 DEF Decimal, Value4, FromDigits
    <3>6. Low(Result, WB) = Result
      BY <2>4, <2>5, <2>7, Words16 DEF Low, Size
    <3>. QED
      BY <2>7, <3>3, <3>4, <3>5, <3>6
  <2>8. CASE WB = "BYTE"
    <3>1. \A w : IsDecimal(w) <=> Nibble(w, 0) <= 9 /\ Nibble(w, 1) <= 9
      BY <2>8 DEF IsDecimal, Digits
    <3>2. Digits2(d) /\ Digits2(Operand)
      BY <1>1, <2>6, <3>1 DEF Digits2, Digit
    <3>3. /\ Digits2(Result) /\ Low(Result, WB) = Result
          /\ Value2(Result) = (Value2(d) + Value2(Operand)) % 100
      BY <2>5, <2>8, <3>2, DecimalByte
    <3>4. IsDecimal(Result)
      BY <3>1, <3>3 DEF Digits2, Digit
    <3>5. \A w \in {d, Operand, Result} : Decimal(w) = Value2(w)
      BY <2>6, <2>8 DEF Decimal, Value2, FromDigits
    <3>. QED
      BY <2>8, <3>3, <3>4, <3>5
  <2>. QED
    BY <2>1, <2>7, <2>8 DEF Width
<1>2. TypeOK /\ [Next]_vars =>
        [Ran({"DADD"}) /\ IsDecimal(d) /\ IsDecimal(Operand) =>
            /\ Low(Result, WB) = Result
            /\ IsDecimal(Result)
            /\ Decimal(Result) = (Decimal(d) + Decimal(Operand))
                                      % (IF WB = "WORD" THEN 10000 ELSE 100)]_vars
  BY <1>1
<1>. QED
  BY <1>2, TypeCorrect, PTL DEF Spec, DecimalExact

LEMMA Shifted ==
    ASSUME NEW wb \in Width, NEW x \in Word, NEW c \in Bit
    PROVE  /\ SignedIn(shift(x, wb), wb) = SignedIn(x, wb) \div 2
           /\ 2 * Low(rotate(c, x, wb), wb) + (x % 2) = Low(x, wb) + Size(wb) * c
<1>. DEFINE lx  == Low(x, wb)
            m   == MSBit(x, wb)
            sh  == lx \div 2 + m * (Size(wb) \div 2)
            rt  == lx \div 2 + c * (Size(wb) \div 2)
<1>1. lx \in Nat /\ lx < Size(wb) /\ m \in Bit /\ (c = 0 \/ c = 1)
  BY LowAndSign, Words16 DEF Bit
<1>2. sh \in Word /\ sh < Size(wb) /\ rt \in Word /\ rt < Size(wb)
  BY <1>1, Halved
<1>3. /\ shift(x, wb) \in Word /\ Low(shift(x, wb), wb) = sh
      /\ rotate(c, x, wb) \in Word /\ Low(rotate(c, x, wb), wb) = rt
  BY <1>2, PlacedWord DEF shift, rotate
<1>4. \/ MSBit(x, wb) = 0 /\ SignedIn(x, wb) = lx
      \/ MSBit(x, wb) = 1 /\ SignedIn(x, wb) = lx - Size(wb)
  BY BySign
<1>5. \/ MSBit(shift(x, wb), wb) = 0 /\ SignedIn(shift(x, wb), wb) = sh
      \/ MSBit(shift(x, wb), wb) = 1 /\ SignedIn(shift(x, wb), wb) = sh - Size(wb)
  BY <1>3, BySign
<1>6. /\ wb = "WORD" => (MSBit(shift(x, wb), wb) = 1 <=> sh >= 32768)
      /\ wb = "BYTE" => (MSBit(shift(x, wb), wb) = 1 <=> sh >= 128)
  BY <1>3, BySign
<1>7. x \in Nat /\ x < 65536
  BY Words16
<1>8. CASE wb = "WORD"
  <2>1. Size(wb) = 65536 /\ lx = x
    BY <1>7, <1>8 DEF Size, Low
  <2>2. sh = lx \div 2 + m * 32768 /\ rt = lx \div 2 + c * 32768
    BY <1>1, <2>1
  <2>. HIDE DEF lx, sh, rt
  <2>3. SignedIn(shift(x, wb), wb) = SignedIn(x, wb) \div 2
    <3>1. CASE m = 0
      BY <1>1, <1>4, <1>5, <1>6, <1>8, <2>1, <2>2, <3>1
    <3>2. CASE m = 1
      BY <1>1, <1>4, <1>5, <1>6, <1>8, <2>1, <2>2, <3>2
    <3>. QED
      BY <1>1, <3>1, <3>2 DEF Bit
  <2>4. 2 * rt + (x % 2) = lx + Size(wb) * c
    BY <1>1, <1>7, <2>1, <2>2
  <2>. QED
    BY <1>3, <2>3, <2>4 DEF lx
<1>9. CASE wb = "BYTE"
  <2>1. Size(wb) = 256 /\ lx = x % 256
    BY <1>7, <1>9 DEF Size, Low
  <2>2. sh = lx \div 2 + m * 128 /\ rt = lx \div 2 + c * 128
    BY <1>1, <2>1
  <2>. HIDE DEF lx, sh, rt
  <2>3. SignedIn(shift(x, wb), wb) = SignedIn(x, wb) \div 2
    <3>1. CASE m = 0
      BY <1>1, <1>4, <1>5, <1>6, <1>9, <2>1, <2>2, <3>1
    <3>2. CASE m = 1
      BY <1>1, <1>4, <1>5, <1>6, <1>9, <2>1, <2>2, <3>2
    <3>. QED
      BY <1>1, <3>1, <3>2 DEF Bit
  <2>4. 2 * rt + (x % 2) = lx + Size(wb) * c
    <3>1. x % 2 = lx % 2
      <4>1. \A q, r \in Nat : (256 * q + r) % 2 = r % 2
        OBVIOUS
      <4>2. x \div 256 \in Nat /\ x = 256 * (x \div 256) + lx
        BY <1>7, <2>1
      <4>. QED
        BY <1>1, <4>1, <4>2
    <3>2. lx = 2 * (lx \div 2) + (lx % 2)
      BY <1>1
    <3>. QED
      BY <1>1, <2>1, <2>2, <3>1, <3>2
  <2>. QED
    BY <1>3, <2>3, <2>4 DEF lx
<1>. QED
  BY <1>8, <1>9 DEF Width

(* Shifting right: SRA halves the signed number, rounding down; RRC moves  *)
(* the bits of destination and carry round and loses none.                 *)
THEOREM ShiftsExactCorrect == Spec => ShiftsExact
<1>1. ASSUME TypeOK, [Next]_vars, Ran({"SRA"})
      PROVE  Signed(Result) = Signed(d) \div 2
  <2>1. WB \in Width /\ d \in Word /\ Dest \in 0 .. 7
    BY <1>1, Operands
  <2>2. Into(Dest, shift(d, WB))
    BY <1>1, WhichCase DEF Ran, SRA
  <2>3. shift(d, WB) \in Word
    BY <2>1, Computed DEF Bit
  <2>4. Result = shift(d, WB)
    BY <1>1, <2>1, <2>2, <2>3, IntoTyped DEF Result
  <2>5. SignedIn(shift(d, WB), WB) = SignedIn(d, WB) \div 2
    BY <2>1, Shifted DEF Bit
  <2>6. Signed(Result) = SignedIn(Result, WB) /\ Signed(d) = SignedIn(d, WB)
    BY DEF Signed, SignedIn, n
  <2>. QED
    BY <2>4, <2>5, <2>6
<1>2. ASSUME TypeOK, [Next]_vars, Ran({"RRC"})
      PROVE  2 * Low(Result, WB) + psw'.carry = Low(d, WB) + n * psw.carry
  <2>1. WB \in Width /\ d \in Word /\ Dest \in 0 .. 7 /\ psw.carry \in Bit
    BY <1>2, Operands DEF TypeOK, PSW
  <2>2. Into(Dest, rotate(psw.carry, d, WB)) /\ psw' = [psw EXCEPT !.carry = d % 2]
    BY <1>2, WhichCase DEF Ran, RRC
  <2>3. rotate(psw.carry, d, WB) \in Word
    BY <2>1, Computed
  <2>4. Result = rotate(psw.carry, d, WB)
    BY <1>2, <2>1, <2>2, <2>3, IntoTyped DEF Result
  <2>5. psw'.carry = d % 2
    BY <1>2, <2>2 DEF TypeOK, PSW
  <2>6. 2 * Low(rotate(psw.carry, d, WB), WB) + (d % 2) = Low(d, WB) + Size(WB) * psw.carry
    BY <2>1, Shifted
  <2>. QED
    BY <2>4, <2>5, <2>6 DEF n
<1>3. TypeOK /\ [Next]_vars =>
        [/\ Ran({"SRA"}) => Signed(Result) = Signed(d) \div 2
         /\ Ran({"RRC"}) => 2 * Low(Result, WB) + psw'.carry
                                = Low(d, WB) + n * psw.carry]_vars
  BY <1>1, <1>2
<1>. QED
  BY <1>3, TypeCorrect, PTL DEF Spec, ShiftsExact

LEMMA HighKept ==
    ASSUME NEW x \in Word, NEW y \in Word, NEW c \in Bit
    PROVE  /\ MSByte(add(x, y, c, "BYTE")) = MSByte(x)
           /\ \A op \in {"XOR", "AND", "OR"} : MSByte(logical(op, x, y, "BYTE")) = MSByte(x)
           /\ MSByte(Placed(x, Low(y, "BYTE"), "BYTE")) = MSByte(x)
           /\ MSByte(shift(x, "BYTE")) = MSByte(x)
           /\ MSByte(rotate(c, x, "BYTE")) = MSByte(x)
<1>1. "BYTE" \in Width /\ x \in Nat /\ y \in Nat /\ c \in Nat
  BY Words16 DEF Width, Bit
<1>2. \A low \in Word : low < Size("BYTE") => MSByte(Placed(x, low, "BYTE")) = MSByte(x)
  BY <1>1, PlacedWord
<1>3. x + y + c \in Int
  BY <1>1
<1>4. Low(x + y + c, "BYTE") \in Word /\ Low(x + y + c, "BYTE") < Size("BYTE")
  BY <1>1, <1>3, LowOfInt
<1>5. ASSUME NEW op \in {"XOR", "AND", "OR"}
      PROVE  MSByte(logical(op, x, y, "BYTE")) = MSByte(x)
  <2>1. Logical(op, x, y) \in Word
    BY <1>5, LogicalWord
  <2>2. /\ Low(Logical(op, x, y), "BYTE") \in Word
        /\ Low(Logical(op, x, y), "BYTE") < Size("BYTE")
    BY <1>1, <2>1, LowAndSign
  <2>. QED
    BY <1>2, <2>2 DEF logical
<1>6. Low(y, "BYTE") \in Word /\ Low(y, "BYTE") < Size("BYTE")
  BY <1>1, LowAndSign
<1>7. MSBit(x, "BYTE") \in Bit
  BY <1>1, LowAndSign DEF Bit
<1>. QED
  BY <1>1, <1>2, <1>4, <1>5, <1>6, <1>7, Halved DEF add, shift, rotate

(* Byte operations leave the upper byte of the destination alone.          *)
THEOREM HighByteKeptCorrect == Spec => HighByteKept
<1>. DEFINE Kept == {"ADD", "ADDC", "SUB", "SUBC", "XOR", "AND", "OR",
                     "MOV", "SRA", "RRC"}
<1>1. ASSUME TypeOK, [Next]_vars, WB = "BYTE",
             Ran(Kept) \/ (Ran({"BIC", "BIS"}) /\ Operand < 8)
      PROVE  MSByte(Result) = MSByte(d)
  <2>1. /\ WB \in Width /\ d \in Word /\ s \in Word /\ Operand \in Word /\ Dest \in 0 .. 7
        /\ psw.carry \in Bit
    BY <1>1, Operands DEF TypeOK, PSW
  <2>2. /\ inst \in Kept \cup {"BIC", "BIS"}
        /\ inst' = "EXECUTED" /\ inst # "EXECUTED" /\ inst # "UNDECODED"
    BY <1>1 DEF Ran
  <2>3. CASE inst \in {"ADD", "ADDC", "SUB", "SUBC"}
    <3>1. Ran({"ADD", "ADDC", "SUB", "SUBC"})
      BY <2>2, <2>3 DEF Ran
    <3>. QED
      BY <1>1, <2>1, <3>1, AddStep, HighKept
  <2>4. CASE inst \in {"XOR", "AND", "OR"}
    <3>1. Into(Dest, logical(inst, d, Operand, WB))
      BY <1>1, <2>2, <2>4, WhichCase DEF Logic
    <3>2. logical(inst, d, Operand, WB) \in Word
      BY <2>1, <2>4, Computed DEF Bit
    <3>3. Result = logical(inst, d, Operand, WB)
      BY <1>1, <2>1, <3>1, <3>2, IntoTyped DEF Result
    <3>. QED
      BY <1>1, <2>1, <2>4, <3>3, HighKept
  <2>5. CASE inst = "MOV"
    <3>1. Into(Dest, Placed(d, Low(s, WB), WB))
      BY <1>1, <2>2, <2>5, WhichCase DEF MOV
    <3>2. Placed(d, Low(s, WB), WB) \in Word
      BY <2>1, Computed
    <3>3. Result = Placed(d, Low(s, WB), WB)
      BY <1>1, <2>1, <3>1, <3>2, IntoTyped DEF Result
    <3>. QED
      BY <1>1, <2>1, <3>3, HighKept
  <2>6. CASE inst = "SRA"
    <3>1. Into(Dest, shift(d, WB))
      BY <1>1, <2>2, <2>6, WhichCase DEF SRA
    <3>2. shift(d, WB) \in Word
      BY <2>1, Computed
    <3>3. Result = shift(d, WB)
      BY <1>1, <2>1, <3>1, <3>2, IntoTyped DEF Result
    <3>. QED
      BY <1>1, <2>1, <3>3, HighKept
  <2>7. CASE inst = "RRC"
    <3>1. Into(Dest, rotate(psw.carry, d, WB))
      BY <1>1, <2>2, <2>7, WhichCase DEF RRC
    <3>2. rotate(psw.carry, d, WB) \in Word
      BY <2>1, Computed
    <3>3. Result = rotate(psw.carry, d, WB)
      BY <1>1, <2>1, <3>1, <3>2, IntoTyped DEF Result
    <3>. QED
      BY <1>1, <2>1, <3>3, HighKept
  <2>8. CASE inst \in {"BIC", "BIS"}
    <3>1. Operand < 8 /\ Operand \in Nat
      BY <1>1, <2>1, <2>8, Words16 DEF Ran
    <3>2. Positions(Operand) = {Operand}
      BY <3>1 DEF Positions
    <3>3. PICK b \in Bit : Into(Dest, WithBit(d, Operand, b))
      <4>1. CASE inst = "BIC"
        <5>1. BIC
          BY <1>1, <2>2, <4>1, WhichCase
        <5>2. PICK k \in Positions(Operand) : Into(Dest, WithBit(d, k, 0))
          BY <5>1 DEF BIC
        <5>. QED
          BY <3>2, <5>2 DEF Bit
      <4>2. CASE inst = "BIS"
        <5>1. BIS
          BY <1>1, <2>2, <4>2, WhichCase
        <5>2. PICK k \in Positions(Operand) : Into(Dest, WithBit(d, k, 1))
          BY <5>1 DEF BIS
        <5>. QED
          BY <3>2, <5>2 DEF Bit
      <4>. QED
        BY <2>8, <4>1, <4>2
    <3>4. WithBit(d, Operand, b) \in Word /\ MSByte(WithBit(d, Operand, b)) = MSByte(d)
      BY <2>1, <3>1, WithBitWord
    <3>5. Result = WithBit(d, Operand, b)
      BY <1>1, <2>1, <3>3, <3>4, IntoTyped DEF Result
    <3>. QED
      BY <3>4, <3>5
  <2>. QED
    BY <2>2, <2>3, <2>4, <2>5, <2>6, <2>7, <2>8
<1>2. TypeOK /\ [Next]_vars =>
        [/\ WB = "BYTE"
         /\ \/ Ran({"ADD", "ADDC", "SUB", "SUBC", "XOR", "AND", "OR",
                     "MOV", "SRA", "RRC"})
            \/ Ran({"BIC", "BIS"}) /\ Operand < 8
         => MSByte(Result) = MSByte(d)]_vars
  BY <1>1
<1>. QED
  BY <1>2, TypeCorrect, PTL DEF Spec, HighByteKept

(* The extended offset is the signed one, modulo the 2^16 addresses.       *)
Offset(o, m)    == IF o < 2^(m - 1) THEN o ELSE o - 2^m
Ahead(pc, words) == (pc + 2 * words) % 65536

LEMMA SignedOffset ==
    ASSUME NEW m \in {10, 13}, NEW o \in Nat, o < 2^m, NEW pc \in Nat
    PROVE  /\ Ahead(pc, Extended(o, m)) = Ahead(pc, Offset(o, m))
           /\ Ahead(pc, Extended(o, m)) \in Word
<1>1. /\ 2^13 = 8192 /\ 2^10 = 1024 /\ 2^12 = 4096 /\ 2^9 = 512
      /\ 13 - 1 = 12 /\ 10 - 1 = 9
  OBVIOUS
<1>2. \A q \in Int : /\ (q + 131072) % 65536 = q % 65536
                     /\ q % 65536 \in Nat /\ q % 65536 < 65536
  OBVIOUS
<1>3. CASE m = 13
  <2>1. Extended(o, 13) = IF (o \div 4096) % 2 = 1 THEN o + 65536 - 8192 ELSE o
    BY <1>1 DEF Extended, BitOf
  <2>2. CASE o < 4096
    <3>1. (o \div 4096) % 2 = 0
      BY <2>2
    <3>2. Extended(o, 13) = o
      BY <2>1, <3>1
    <3>3. Offset(o, 13) = o
      BY <1>1, <2>2 DEF Offset
    <3>. QED
      BY <1>2, <1>3, <3>2, <3>3, Words16 DEF Ahead
  <2>3. CASE ~(o < 4096)
    <3>1. o < 8192
      BY <1>1, <1>3
    <3>2. (o \div 4096) % 2 = 1
      BY <2>3, <3>1
    <3>3. Extended(o, 13) = o + 57344
      BY <2>1, <3>2
    <3>4. pc + 2 * (o + 57344) = (pc + 2 * (o - 8192)) + 131072
      OBVIOUS
    <3>5. pc + 2 * (o - 8192) \in Int
      OBVIOUS
    <3>6. (pc + 2 * (o + 57344)) % 65536 = (pc + 2 * (o - 8192)) % 65536
      BY <1>2, <3>4, <3>5
    <3>7. Offset(o, 13) = o - 8192
      BY <1>1, <2>3 DEF Offset
    <3>. QED
      BY <1>2, <1>3, <3>3, <3>4, <3>5, <3>6, <3>7, Words16 DEF Ahead
  <2>. QED
    BY <2>2, <2>3
<1>4. CASE m = 10
  <2>1. Extended(o, 10) = IF (o \div 512) % 2 = 1 THEN o + 65536 - 1024 ELSE o
    BY <1>1 DEF Extended, BitOf
  <2>2. CASE o < 512
    <3>1. (o \div 512) % 2 = 0
      BY <2>2
    <3>2. Extended(o, 10) = o
      BY <2>1, <3>1
    <3>3. Offset(o, 10) = o
      BY <1>1, <2>2 DEF Offset
    <3>. QED
      BY <1>2, <1>4, <3>2, <3>3, Words16 DEF Ahead
  <2>3. CASE ~(o < 512)
    <3>1. o < 1024
      BY <1>1, <1>4
    <3>2. (o \div 512) % 2 = 1
      BY <2>3, <3>1
    <3>3. Extended(o, 10) = o + 64512
      BY <2>1, <3>2
    <3>4. pc + 2 * (o + 64512) = (pc + 2 * (o - 1024)) + 131072
      OBVIOUS
    <3>5. pc + 2 * (o - 1024) \in Int
      OBVIOUS
    <3>6. (pc + 2 * (o + 64512)) % 65536 = (pc + 2 * (o - 1024)) % 65536
      BY <1>2, <3>4, <3>5
    <3>7. Offset(o, 10) = o - 1024
      BY <1>1, <2>3 DEF Offset
    <3>. QED
      BY <1>2, <1>4, <3>3, <3>4, <3>5, <3>6, <3>7, Words16 DEF Ahead
  <2>. QED
    BY <2>2, <2>3
<1>. QED
  BY <1>3, <1>4

(* A branch goes to its signed offset, in words, from the instruction      *)
(* behind it, backwards too; BL leaves the way back in LR.                 *)
THEOREM BranchTargetsCorrect == Spec => BranchTargets
<1>. DEFINE m     == IF inst = "BL" THEN 13 ELSE 10
            o     == Bits(ir, 0, m)
            there == Ahead(PC, Extended(o, m))
            goal  == Ahead(PC, Offset(o, m))
<1>1. ASSUME TypeOK, [Next]_vars, Ran({"BL"} \cup Range(ConditionalBranches))
      PROVE  /\ regs'[7] \in {PC, goal}
             /\ inst \in {"BL", "BRA"} => regs'[7] = goal
             /\ inst = "BL" => regs'[5] = PC
  <2>1. PC \in Word /\ PC \in Nat /\ ir \in Nat
    BY <1>1, Operands, Words16, IrWords DEF TypeOK
  <2>2. /\ inst \in {"BL"} \cup Range(ConditionalBranches)
        /\ inst' = "EXECUTED" /\ inst # "EXECUTED" /\ inst # "UNDECODED"
    BY <1>1, Named DEF Ran
  <2>3. m \in {10, 13}
    OBVIOUS
  <2>4. o \in Nat /\ o < 2^m
    <3>1. 2^0 = 1 /\ 2^10 = 1024 /\ 2^13 = 8192
      OBVIOUS
    <3>2. Bits(ir, 0, 13) \in Nat /\ Bits(ir, 0, 13) < 8192
      BY <2>1, <3>1 DEF Bits
    <3>3. Bits(ir, 0, 10) \in Nat /\ Bits(ir, 0, 10) < 1024
      BY <2>1, <3>1 DEF Bits
    <3>. QED
      BY <3>1, <3>2, <3>3
  <2>5. there = goal /\ there \in Word
    <3>. HIDE DEF m, o
    <3>. QED
      BY <2>1, <2>3, <2>4, SignedOffset
  <2>6. CASE inst = "BL"
    <3>1. BL
      BY <2>2, <2>6, <1>1, WhichCase
    <3>2. m = 13
      BY <2>6
    <3>3. regs' = [regs EXCEPT ![5] = PC, ![7] = Ahead(PC, Extended(Bits(ir, 0, 13), 13))]
      BY <3>1, PTL DEF BL, Ahead
    <3>4. regs' = [regs EXCEPT ![5] = PC, ![7] = there]
      BY <3>2, <3>3
    <3>. HIDE DEF m, o, there, goal
    <3>5. regs'[5] = PC /\ regs'[7] = there
      BY <1>1, <3>4 DEF TypeOK
    <3>. QED
      BY <2>5, <3>5
  <2>7. CASE inst # "BL"
    <3>1. branch_conditional
      BY <1>1, <2>2, <2>7, WhichCase
    <3>2. m = 10
      BY <2>7
    <3>3. Into(7, IF Taken(inst) THEN there ELSE PC)
      BY <3>1, <3>2 DEF branch_conditional, Ahead
    <3>. HIDE DEF m, o, there, goal
    <3>4. (IF Taken(inst) THEN there ELSE PC) \in Word
      BY <2>1, <2>5
    <3>5. regs'[7] = IF Taken(inst) THEN there ELSE PC
      BY <1>1, <3>3, <3>4, IntoTyped
    <3>6. inst = "BRA" => Taken(inst)
      BY DEF Taken
    <3>. QED
      BY <2>5, <2>7, <3>5, <3>6
  <2>. QED
    BY <2>6, <2>7
<1>2. TypeOK /\ [Next]_vars =>
        [Ran({"BL"} \cup Range(ConditionalBranches)) =>
            /\ regs'[7] \in {PC, goal}
            /\ inst \in {"BL", "BRA"} => regs'[7] = goal
            /\ inst = "BL" => regs'[5] = PC]_vars
  <2>. HIDE DEF goal
  <2>. QED
    BY <1>1
<1>. QED
  BY <1>2, TypeCorrect, PTL DEF Spec, BranchTargets, Ahead, Offset
================================================================================

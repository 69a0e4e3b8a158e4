---------------------------------- MODULE Alu ----------------------------------
(***************************************************************************)
(* The arithmetic of instructions.c and update_psw of CPU.c as operators   *)
(* on 16-bit words: d is the destination, s the source, wb the width, f    *)
(* the flags before.  A name with a suffix after "_" is a plausible slip   *)
(* in the definition that follows it.                                      *)
(***************************************************************************)
EXTENDS Integers, Sequences

MaxWord == 65535
Word  == 0 .. MaxWord
Width == {"WORD", "BYTE"}
Bit   == {0, 1}
PSW   == [carry : Bit, zero : Bit, negative : Bit, sleep : Bit, overflow : Bit]

Flag(b) == IF b THEN 1 ELSE 0

Size(wb)     == IF wb = "WORD" THEN 65536 ELSE 256
Low(w, wb)   == w % Size(wb)
MSByte(w)    == w \div 256
LSByte(w)    == w % 256
MSBit(w, wb) == Low(w, wb) \div (Size(wb) \div 2)
BitOf(w, k)  == (w \div 2^k) % 2

(* & of C, on 16 bits from 8, 4, 2 and 1; | and ^ by it.                    *)
Halves(and(_, _), n, d, s) ==
    and(d % n, s % n) + n * and(d \div n, s \div n)
And1(d, s) == d * s
And2(d, s) == Halves(And1, 2, d, s)
And4(d, s) == Halves(And2, 4, d, s)
And8(d, s) == Halves(And4, 16, d, s)
And(d, s)  == Halves(And8, 256, d, s)
Or(d, s)  == d + s - And(d, s)
Xor(d, s) == d + s - 2 * And(d, s)
Not(w)    == 65535 - w
Negated(w) == (65536 - w) % 65536

(* The low argument is not masked: bits above its byte reach the result.   *)
combine_bytes(msb, lsb) ==
    IF lsb < 256 THEN 256 * msb + lsb ELSE Or(256 * msb, lsb)

(* A result of the width in its place in the destination.                  *)
Placed_Zeroed(d, low, wb) == low
Placed(d, low, wb) == IF wb = "WORD" THEN low ELSE combine_bytes(MSByte(d), low)
-----------------------------------------------------------------------------
(* update_psw: carry and overflow are looked up by the most significant    *)
(* bits of source, destination and result.                                 *)

Entry(table, s, d, r, wb) ==
    table[4 * MSBit(s, wb) + 2 * MSBit(d, wb) + MSBit(r, wb) + 1]

update_psw_CarrySwapped(f, d, s, r, wb) ==
    [f EXCEPT !.carry    = Entry(<<0, 0, 0, 1, 0, 1, 1, 1>>, s, d, r, wb),
              !.zero     = Flag(Low(r, wb) = 0),
              !.negative = MSBit(r, wb),
              !.overflow = Entry(<<0, 1, 0, 0, 0, 0, 1, 0>>, s, d, r, wb)]
update_psw_OverflowSwapped(f, d, s, r, wb) ==
    [f EXCEPT !.carry    = Entry(<<0, 0, 1, 0, 1, 0, 1, 1>>, s, d, r, wb),
              !.zero     = Flag(Low(r, wb) = 0),
              !.negative = MSBit(r, wb),
              !.overflow = Entry(<<0, 0, 0, 1, 1, 0, 0, 0>>, s, d, r, wb)]
update_psw(f, d, s, r, wb) ==
    [f EXCEPT !.carry    = Entry(<<0, 0, 1, 0, 1, 0, 1, 1>>, s, d, r, wb),
              !.zero     = Flag(Low(r, wb) = 0),
              !.negative = MSBit(r, wb),
              !.overflow = Entry(<<0, 1, 0, 0, 0, 0, 1, 0>>, s, d, r, wb)]

add_Untruncated(d, s, c, wb) == Placed(d, d + s + c, wb)
add(d, s, c, wb) == Placed(d, Low(d + s + c, wb), wb)

(* Decimal addition, digit by digit with the half carry; the digits that   *)
(* are not added are 0, so that the byte form clears the upper byte.       *)
Nibble(w, k) == (w \div 16^k) % 16
HalfCarry_AboveTen(a, b, hc) == Flag(a + b + hc > 10)
HalfCarry(a, b, hc)          == Flag(a + b + hc > 9)
bcd_arith(a, b, hc) == (a + b + hc - 10 * HalfCarry(a, b, hc)) % 16

add_decimal(d, s, wb) ==
    LET h1 == HalfCarry(Nibble(d, 0), Nibble(s, 0), 0)
        h2 == HalfCarry(Nibble(d, 1), Nibble(s, 1), h1)
        h3 == HalfCarry(Nibble(d, 2), Nibble(s, 2), h2)
        low  == bcd_arith(Nibble(d, 0), Nibble(s, 0), 0)
                    + 16 * bcd_arith(Nibble(d, 1), Nibble(s, 1), h1)
        high == bcd_arith(Nibble(d, 2), Nibble(s, 2), h2)
                    + 16 * bcd_arith(Nibble(d, 3), Nibble(s, 3), h3)
    IN  IF wb = "WORD" THEN low + 256 * high ELSE low

(* The flags of compare: update_psw gets the source before negation.       *)
compare(f, d, s, wb) == update_psw(f, d, s, Low(d - s, wb), wb)

Logical(op, d, s) ==
    CASE op = "XOR" -> Xor(d, s)
      [] op = "AND" -> And(d, s)
      [] op = "OR"  -> Or(d, s)
logical(op, d, s, wb) == Placed(d, Low(Logical(op, d, s), wb), wb)

(* compare_bit looks at the whole words for a match, in both widths.  The  *)
(* macro it takes the sign with does not parenthesise its argument, d & s: *)
(* it is the source alone that is shifted.                                 *)
compare_bit(f, d, s, wb) ==
    IF And(d, s) # 0
    THEN [f EXCEPT !.zero = 0,
                   !.negative = BitOf(d, 0) * BitOf(s, IF wb = "WORD" THEN 15 ELSE 7)]
    ELSE [f EXCEPT !.zero = 1]

(* 1 << s.  Positions above 15 are cut off with the upper half of the int; *)
(* from 32 on C does not define the shift, and any position may come out.  *)
Positions(s) == IF s < 32 THEN {s} ELSE 0 .. 31
WithBit(d, k, b) == IF k > 15 THEN d ELSE d + (b - BitOf(d, k)) * 2^k
-----------------------------------------------------------------------------
shift_Logical(d, wb) == Placed(d, Low(d, wb) \div 2, wb)
shift(d, wb) ==
    Placed(d, Low(d, wb) \div 2 + MSBit(d, wb) * (Size(wb) \div 2), wb)

rotate_NewCarry(c, d, wb) ==
    Placed(d, Low(d, wb) \div 2 + (d % 2) * (Size(wb) \div 2), wb)
rotate(c, d, wb) ==
    Placed(d, Low(d, wb) \div 2 + c * (Size(wb) \div 2), wb)

complement(d, wb) ==
    IF wb = "WORD" THEN Not(d) ELSE combine_bytes(MSByte(d), Not(LSByte(d)))

swap_byte(d)   == combine_bytes(LSByte(d), MSByte(d))
sign_extend(d) == combine_bytes(255 * MSBit(d, "BYTE"), LSByte(d))

(* psw_mod as CLRCC calls it.                                              *)
Cleared(f, bits) ==
    [f EXCEPT !.carry    = @ * (1 - BitOf(bits, 0)),
              !.zero     = @ * (1 - BitOf(bits, 1)),
              !.negative = @ * (1 - BitOf(bits, 2)),
              !.sleep    = @ * (1 - BitOf(bits, 3)),
              !.overflow = @ * (1 - BitOf(bits, 4))]

(* An offset of n bits as the branches extend it to a word, by its top bit.*)
Extended_LowBit(o, n) == IF BitOf(o, n - 2) = 1 THEN o + 65536 - 2^n ELSE o
Extended(o, n)        == IF BitOf(o, n - 1) = 1 THEN o + 65536 - 2^n ELSE o
===============================================================================

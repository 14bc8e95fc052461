----------------------------- MODULE Conversions -----------------------------
(***************************************************************************)
(* The conversions of core/privacy (utils/conversions.ts, element.ts) and  *)
(* bnToBuf of the bri-1 example, as operators.  A string of digits is a    *)
(* sequence of their values, most significant first; an array of digits,   *)
(* as the code keeps it, has the least significant first.  The prefix 0x   *)
(* is left out of the strings, since every function strips it and puts it  *)
(* back; inferType alone looks at it.                                      *)
(*                                                                         *)
(* What the code answers with null or an exception is Failure.             *)
(***************************************************************************)
EXTENDS Integers, Sequences, SequencesExt

\* No string of digits.
Failure == <<-1>>

Zeros(n) == [k \in 1..n |-> 0]
PadStart(str, n) == IF Len(str) >= n THEN str ELSE Zeros(n - Len(str)) \o str

-----------------------------------------------------------------------------
(* Any base to any base                                                    *)

ParseToDigitsArray(str, base) ==
    IF \E k \in DOMAIN str : str[k] >= base THEN Failure ELSE Reverse(str)

\* The digits of the sum, as far as those of the longer number go, and the carry that
\* is left.
SumOf(x, y, base) ==
    LET n == IF Len(x) >= Len(y) THEN Len(x) ELSE Len(y)
        digit(z, i) == IF i <= Len(z) THEN z[i] ELSE 0
        sum[i \in 0..n] ==
            IF i = 0 THEN [z |-> <<>>, carry |-> 0]
            ELSE LET old == sum[i - 1]
                     zi == old.carry + digit(x, i) + digit(y, i)
                 IN  [z |-> Append(old.z, zi % base), carry |-> zi \div base]
    IN  sum[n]

\* Mutant: the last carry is dropped.
AddNoCarry(x, y, base) == SumOf(x, y, base).z

\* The last carry is a digit.
Add(x, y, base) ==
    LET sum == SumOf(x, y, base)
    IN  IF sum.carry = 0 THEN sum.z ELSE Append(sum.z, sum.carry)

\* Doubling and adding: num is halved until it is zero, for which num turns are enough.
MultiplyByNumber(num, x, base) ==
    LET turn[k \in 0..num] ==
            IF k = 0 THEN [num |-> num, result |-> <<>>, power |-> x]
            ELSE LET old == turn[k - 1] IN
                 IF old.num = 0 THEN old
                 ELSE [num    |-> old.num \div 2,
                       result |-> IF old.num % 2 = 1 THEN Add(old.result, old.power, base)
                                  ELSE old.result,
                       power  |-> Add(old.power, old.power, base)]
    IN  turn[num].result

ConvertBase(str, fromBase, toBase) ==
    LET digits == ParseToDigitsArray(str, fromBase)
        turn[i \in 0..Len(digits)] ==
            IF i = 0 THEN [out |-> <<>>, power |-> <<1>>]
            ELSE LET old == turn[i - 1] IN
                 [out   |-> IF digits[i] = 0 THEN old.out
                            ELSE Add(old.out, MultiplyByNumber(digits[i], old.power, toBase),
                                     toBase),
                  power |-> MultiplyByNumber(fromBase, old.power, toBase)]
        out == turn[Len(digits)].out
    IN  IF digits = Failure THEN Failure
        ELSE IF out = <<>> THEN <<0>> ELSE Reverse(out)

HexToBinary(hex) == ConvertBase(hex, 16, 2)
BinToDec(bits) == ConvertBase(bits, 2, 10)
DecToHex(dec) == ConvertBase(dec, 10, 16)

-----------------------------------------------------------------------------
(* Limbs of a field element                                                *)

LeftPadBits(bits, n) == IF Len(bits) > n THEN Failure ELSE PadStart(bits, n)

\* The rightmost n bits are the last chunk; what remains is split likewise.
SplitAndPadBits(bits, n) ==
    LET chunks[len \in 0..Len(bits)] ==
            IF len <= n THEN <<LeftPadBits(SubSeq(bits, 1, len), n)>>
            ELSE chunks[len - n] \o <<SubSeq(bits, len - n + 1, len)>>
    IN  chunks[Len(bits)]

SplitHexToBits(hex, n) == SplitAndPadBits(HexToBinary(hex), n)

\* Missing limbs are put in front; limbs in excess are refused, or removed
\* from the front when warnings are silenced.
HexToFieldLimbs(hex, limbBits, limbs, silent) ==
    LET all == SplitHexToBits(hex, limbBits)
        dec == [k \in DOMAIN all |-> BinToDec(all[k])]
        excess == Len(dec) - limbs
    IN  IF excess > 0
        THEN IF silent THEN SubSeq(dec, excess + 1, Len(dec)) ELSE <<Failure>>
        ELSE [k \in 1..-excess |-> <<0>>] \o dec

-----------------------------------------------------------------------------
(* Text                                                                    *)

\* Mutant: the padding goes behind the text.
Utf8ToHexPadEnd(bytes, outLength) ==
    LET hex == FlattenSeq([k \in DOMAIN bytes |-> <<bytes[k] \div 16, bytes[k] % 16>>])
    IN  IF Len(hex) > outLength * 2 THEN Failure
        ELSE hex \o <<0>> \o Zeros(outLength * 2 - Len(hex))

\* utf8ToHex and asciiToHex.
Utf8ToHex(bytes, outLength) ==
    LET hex == FlattenSeq([k \in DOMAIN bytes |-> <<bytes[k] \div 16, bytes[k] % 16>>])
    IN  IF Len(hex) > outLength * 2 THEN Failure ELSE PadStart(hex, outLength * 2)

\* replace(/00/g, ''): every 00 from the left, wherever in a byte it begins.
WithoutZeros(hex) ==
    LET from[k \in 1..Len(hex) + 2] ==
            IF k > Len(hex) THEN <<>>
            ELSE IF k < Len(hex) /\ hex[k] = 0 /\ hex[k + 1] = 0 THEN from[k + 2]
            ELSE <<hex[k]>> \o from[k + 1]
    IN  from[1]

\* Buffer.from ignores an odd digit at the end.  (hexToAscii also clears the high
\* bit of every byte, which this does not.)
HexToUtf8(hex) ==
    LET clean == WithoutZeros(hex)
    IN  [k \in 1..Len(clean) \div 2 |-> 16 * clean[2 * k - 1] + clean[2 * k]]

-----------------------------------------------------------------------------
(* Elements                                                                *)

\* Digits alone are taken for an integer, even when hex was meant, unless 0x is in
\* front of them.  A string with other characters is text and goes to Utf8ToHex.
InferType(str, prefixed) ==
    IF ~prefixed /\ \A k \in DOMAIN str : str[k] < 10 THEN "integer" ELSE "hex"

\* The value an Element keeps, as hex.
ElementHex(str, prefixed) ==
    IF InferType(str, prefixed) = "integer" THEN DecToHex(str) ELSE str

ElementField(str, prefixed, limbBits, limbs, silent) ==
    HexToFieldLimbs(ElementHex(str, prefixed), limbBits, limbs, silent)

-----------------------------------------------------------------------------
(* bnToBuf: a decimal string that is not longer than twice the buffer is   *)
(* put at the end of a buffer of fixed size; others are not padded.        *)

BnToBuf(dec, size) ==
    LET hex == DecToHex(dec)
        even == PadStart(hex, 2 * ((Len(hex) + 1) \div 2))
        u8 == [k \in 1..Len(even) \div 2 |-> 16 * even[2 * k - 1] + even[2 * k]]
    IN  IF Len(dec) <= 2 * size THEN PadStart(u8, size) ELSE u8
=============================================================================

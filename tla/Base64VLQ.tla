------------------------------ MODULE Base64VLQ -------------------------------
(***************************************************************************)
(* The numbers of a source map's "mappings": base64 digits of which one    *)
(* bit says that another follows, the sign in the lowest bit of the value. *)
(* A text is a sequence of digits and separators; which letter stands for  *)
(* a digit is left out.  The shifts of JavaScript are on 32 bits.          *)
(***************************************************************************)
EXTENDS Integers, SequencesExt

CONSTANTS
  Base,     \* VLQ_BASE: 32, what a digit holds besides its continuation bit
  Modulus   \* the integers that a shift tells apart: 2^32

ASSUME Base64Assumption ==
  /\ Base \in Nat \ {0, 1}
  /\ Modulus \in Nat /\ Modulus % 4 = 0 /\ Modulus > 4

Comma == -1
Semicolon == -2

Word(v) == v % Modulus
SignedWord(v) ==
  IF Word(v) < Modulus \div 2 THEN Word(v) ELSE Word(v) - Modulus

\* The vlq that >>>= divides, hence without a sign.
ToVLQSigned(v) == Word(IF v < 0 THEN 2 * (-v) + 1 ELSE 2 * v)

FromVLQSigned(v) ==
  LET shifted == SignedWord(v) \div 2 IN IF v % 2 = 1 THEN -shifted ELSE shifted

\* The loop runs once, and on while something is left.
Digits[vlq \in Nat] ==
  IF vlq < Base THEN <<vlq>> ELSE <<Base + (vlq % Base)>> \o Digits[vlq \div Base]

Encode(v) == Digits[ToVLQSigned(v)]

\* One turn of decode's loop; what is read of a value that goes on is kept.
DecodeDigit(out, digit) ==
  LET result == out.result + (digit % Base) * out.weight
  IN  IF digit >= Base
        THEN [out EXCEPT !.result = result, !.weight = out.weight * Base]
        ELSE [values |-> Append(out.values, FromVLQSigned(result)),
              result |-> 0, weight |-> 1]

\* The values of a segment, by decode called until the segment is at its end.
\* Digits beyond the width of an integer are left out.
Decode(digits) ==
  FoldLeft(DecodeDigit, [values |-> <<>>, result |-> 0, weight |-> 1], digits)

\* decode throws: the last digit says that another follows, and none does.
IsCutShort(out) == out.weight # 1

===============================================================================

----------------------------- MODULE MipsWords -----------------------------
(***************************************************************************)
(* The words of the simulated MIPS.  A byte has ByteBits bits instead of   *)
(* 8, a word is four bytes: every mask, shift and sign bit of the source   *)
(* scales with it.  A word is the natural number its bits spell.           *)
(***************************************************************************)
EXTENDS Integers, Sequences, SequencesExt, Bitwise

CONSTANT ByteBits

ASSUME WordAssumption == ByteBits \in {n \in 1..6 : n % 2 = 0}

WordBits == 4 * ByteBits
Byte == 2 ^ ByteBits
Half == 2 ^ (2 * ByteBits)
Word == 2 ^ WordBits
SignBit == Word \div 2

Wrap(x) == x % Word
Negative(x) == x >= SignBit
Signed(x) == IF Negative(x) THEN x - Word ELSE x
Invert(x) == Word - 1 - x
\* A value of n patterns (a byte, a half) widened to a word with its sign.
Extend(x, n) == IF x >= n \div 2 THEN Wrap(x - n) ELSE x

ShiftLeft(x, n) == Wrap(x * 2 ^ n)
ShiftRight(x, n) == x \div 2 ^ n
ShiftArithmetic(x, n) == Wrap(Signed(x) \div 2 ^ n)

Magnitude(x) == IF x < 0 THEN -x ELSE x
\* Division of C: it truncates.
Quotient(a, b) ==
    LET q == Magnitude(a) \div Magnitude(b)
    IN IF (a < 0) = (b < 0) THEN q ELSE -q
Remainder(a, b) == a - b * Quotient(a, b)

\* The bytes of a word, the least significant first, and back.
BytesOf(x, size) == [k \in 1..size |-> (x \div Byte ^ (k - 1)) % Byte]
WordOf(bytes) == FoldRight(LAMBDA b, x : b + Byte * x, bytes, 0)
=============================================================================

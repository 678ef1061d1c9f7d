------------------------------- MODULE Words32 -------------------------------
(***************************************************************************)
(* External: 32-bit unsigned arithmetic of C++, on words of four bytes, the *)
(* highest first.  An int that meets a word is taken modulo 2^32.           *)
(***************************************************************************)
EXTENDS Integers, Sequences, SequencesExt, FiniteSetsExt

Word(n) == [k \in 1 .. 4 |-> (n \div 256 ^ (4 - k)) % 256]

(* Digits may be larger than a byte: the carry goes to the one before.      *)
Carry(digits) ==
  LET c4 == digits[4] \div 256
      c3 == (digits[3] + c4) \div 256
      c2 == (digits[2] + c3) \div 256
  IN  <<(digits[1] + c2) % 256, (digits[2] + c3) % 256, (digits[3] + c4) % 256, digits[4] % 256>>

Add(a, b) == Carry(<<a[1] + b[1], a[2] + b[2], a[3] + b[3], a[4] + b[4]>>)
Negative(a) == Add([k \in 1 .. 4 |-> 255 - a[k]], Word(1))
Subtract(a, b) == Add(a, Negative(b))
Multiply(a, b) ==
  Carry(<<a[1] * b[4] + a[2] * b[3] + a[3] * b[2] + a[4] * b[1],
          a[2] * b[4] + a[3] * b[3] + a[4] * b[2],
          a[3] * b[4] + a[4] * b[3],
          a[4] * b[4]>>)

AtLeast(a, b) ==
  \/ a = b
  \/ \E k \in 1 .. 4 : a[k] > b[k] /\ \A j \in 1 .. k - 1 : a[j] = b[j]

(* By an int that is not 0: a negative one is a word of 2^31 or more.        *)
Divide(a, n) ==
  IF n < 0 THEN Word(IF AtLeast(a, Word(n)) THEN 1 ELSE 0)
  ELSE FoldLeft(LAMBDA acc, byte : [quotient |-> Append(acc.quotient, (256 * acc.rest + byte) \div n),
                                    rest     |-> (256 * acc.rest + byte) % n],
                [quotient |-> <<>>, rest |-> 0], a).quotient

XorByte(x, y) ==
  MapThenSumSet(LAMBDA k : 2 ^ k * (((x \div 2 ^ k) + (y \div 2 ^ k)) % 2), 0 .. 7)
Xor(a, b) == [k \in 1 .. 4 |-> XorByte(a[k], b[k])]
=============================================================================

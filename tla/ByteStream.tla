------------------------------ MODULE ByteStream ------------------------------
(***************************************************************************)
(* The reads of src/src/common/stream.cpp that find scripts and names, on  *)
(* a buffer whose bytes are data[1], data[2], ...; positions are counted   *)
(* from 0, numbers are big-endian.  A read moves the cursor first and      *)
(* throws if that takes it past the end: Holds is the opposite.            *)
(***************************************************************************)
EXTENDS Integers, Sequences, SequencesExt, FiniteSetsExt

Holds(data, pos, len) == pos + len <= Len(data)
BytesAt(data, pos, len) == SubSeq(data, pos + 1, pos + len)

Unsigned(bytes) == FoldLeft(LAMBDA value, byte : 256 * value + byte, 0, bytes)
(* Two's complement.                                                       *)
Signed(bytes) ==
  FoldLeft(LAMBDA value, byte : 256 * value + byte,
           IF bytes[1] >= 128 THEN bytes[1] - 256 ELSE bytes[1], Tail(bytes))

ReadUint8(data, pos) == data[pos + 1]
ReadUint16(data, pos) == Unsigned(BytesAt(data, pos, 2))
ReadInt16(data, pos) == Signed(BytesAt(data, pos, 2))
(* From MaxOffset on, numbers are one: as an offset, a length or a count     *)
(* each is past the end of every buffer.                                   *)
MaxOffset == 2 ^ 30
ReadUint32(data, pos) ==
  IF data[pos + 1] >= 64 THEN MaxOffset ELSE Unsigned(BytesAt(data, pos, 4))
ReadInt32(data, pos) == Signed(BytesAt(data, pos, 4))

(* A string that is made from a buffer ends at its first zero.              *)
ReadString(bytes) ==
  LET zeros == {k \in DOMAIN bytes : bytes[k] = 0}
  IN  IF zeros = {} THEN bytes ELSE SubSeq(bytes, 1, Min(zeros) - 1)

(* readDouble moves the cursor by four bytes and takes eight.  What is not   *)
(* in the buffer is an unknown byte.                                       *)
DoubleAdvanceOfNone == 0   (* the end is never met *)
DoubleAdvance == 4
ReadDouble(data, pos, unknown) ==
  [k \in 1 .. 8 |-> IF Holds(data, pos, k) THEN data[pos + k] ELSE unknown]

(***************************************************************************)
(* An 80-bit number: a sign bit, 15 bits of exponent, an integer bit, 63    *)
(* bits of fraction.  Its double, byte by byte: the exponent has 11 bits,   *)
(* the fraction the first 52 of the 63.                                    *)
(***************************************************************************)
Exponent80(bytes) == Unsigned(SubSeq(bytes, 1, 2)) % 32768
DoubleExponent(exponent) ==
  CASE exponent = 0 -> 0
    [] exponent = 32767 -> 2047
    [] OTHER -> exponent - 16383 + 1023

ExponentIsRefused(exponent) ==
  /\ exponent \notin {0, 32767}
  /\ exponent - 16383 < -1022 \/ exponent - 16383 >= 1023

ReadAppleFloat80(bytes) ==
  LET exponent == DoubleExponent(Exponent80(bytes))
      fraction == [k \in 1 .. 8 |-> IF k = 1 THEN bytes[3] % 128 ELSE bytes[k + 2]]
  IN  <<128 * (bytes[1] \div 128) + exponent \div 16,
        16 * (exponent % 16) + fraction[1] \div 8>>
      \o [k \in 1 .. 6 |-> 32 * (fraction[k] % 8) + fraction[k + 1] \div 8]
=============================================================================

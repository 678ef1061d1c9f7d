----------------------------- MODULE ChunksProofs -----------------------------
(***************************************************************************)
(* Proofs about the sounds of module Chunks.                               *)
(*                                                                         *)
(* The fields of a header have offsets, which add up to the size of the      *)
(* header for any number of formats and commands.  Every run that is        *)
(* written keeps its place, and the place says what it must hold: the field *)
(* at its own offset in the header, and behind it the sound from the first   *)
(* sample after the ones to skip.                                          *)
(***************************************************************************)
EXTENDS Chunks, SequenceTheorems, TLAPS

-----------------------------------------------------------------------------
(***************************************************************************)
(* Offsets of the fields with the given widths.                             *)
(***************************************************************************)
Width == Nat \ {0}
IsOffsets(off, widths) ==
  /\ off \in [0 .. Len(widths) -> Nat] /\ off[0] = 0
  /\ \A k \in 1 .. Len(widths) : off[k] = off[k - 1] + widths[k]
  /\ \A k \in 0 .. Len(widths) : off[k] <= off[Len(widths)]
SumsTo(widths, total) ==
  /\ widths \in Seq(Width)
  /\ \E off : IsOffsets(off, widths) /\ off[Len(widths)] = total

(* The fields of two parts, one after the other.                            *)
LEMMA ConcatSums ==
  ASSUME NEW s, NEW t, NEW a, NEW b, SumsTo(s, a), SumsTo(t, b)
  PROVE  SumsTo(s \o t, a + b)
<1>1. s \in Seq(Width) /\ t \in Seq(Width)
  BY DEF SumsTo
<1>2. PICK f : IsOffsets(f, s) /\ f[Len(s)] = a
  BY DEF SumsTo
<1>3. PICK g : IsOffsets(g, t) /\ g[Len(t)] = b
  BY DEF SumsTo
<1>4. s \o t \in Seq(Width) /\ Len(s \o t) = Len(s) + Len(t)
      /\ \A k \in 1 .. Len(s) + Len(t) : (s \o t)[k] = IF k <= Len(s) THEN s[k] ELSE t[k - Len(s)]
  BY <1>1 DEF Width
<1>5. Len(s) \in Nat /\ Len(t) \in Nat /\ a \in Nat /\ b \in Nat
  <2>1. Len(s) \in Nat /\ Len(t) \in Nat
    BY <1>1
  <2>2. f[Len(s)] \in Nat /\ g[Len(t)] \in Nat
    BY <1>2, <1>3, <2>1 DEF IsOffsets
  <2>3. QED
    BY <1>2, <1>3, <2>1, <2>2
<1>6. /\ \A k \in 0 .. Len(s) : f[k] \in Nat /\ f[k] <= a
      /\ \A k \in 0 .. Len(t) : g[k] \in Nat /\ g[k] <= b
      /\ f[0] = 0 /\ g[0] = 0
      /\ \A k \in 1 .. Len(s) : f[k] = f[k - 1] + s[k]
      /\ \A k \in 1 .. Len(t) : g[k] = g[k - 1] + t[k]
  BY <1>2, <1>3 DEF IsOffsets
<1> DEFINE h == [k \in 0 .. Len(s) + Len(t) |-> IF k <= Len(s) THEN f[k] ELSE a + g[k - Len(s)]]
<1>7. \A k \in 0 .. Len(s) + Len(t) : h[k] \in Nat /\ h[k] <= a + b
  <2>1. ASSUME NEW k \in 0 .. Len(s) + Len(t), k <= Len(s)
        PROVE  h[k] \in Nat /\ h[k] <= a + b
    <3>1. k \in 0 .. Len(s) /\ h[k] = f[k]
      BY <1>5, <2>1
    <3>2. QED
      BY <1>5, <1>6, <3>1
  <2>2. ASSUME NEW k \in 0 .. Len(s) + Len(t), ~(k <= Len(s))
        PROVE  h[k] \in Nat /\ h[k] <= a + b
    <3>1. k - Len(s) \in 0 .. Len(t) /\ h[k] = a + g[k - Len(s)]
      BY <1>5, <2>2
    <3>2. g[k - Len(s)] \in Nat /\ g[k - Len(s)] <= b
      BY <1>6, <3>1
    <3>3. QED
      BY <1>5, <3>1, <3>2
  <2>3. QED
    BY <2>1, <2>2
<1>8. h[Len(s) + Len(t)] = a + b /\ h[0] = 0
  BY <1>2, <1>3, <1>5, <1>6
<1>9. \A k \in 1 .. Len(s) + Len(t) : h[k] = h[k - 1] + (s \o t)[k]
  <2>1. ASSUME NEW k \in 1 .. Len(s)
        PROVE  h[k] = h[k - 1] + (s \o t)[k]
    <3>1. h[k] = f[k] /\ h[k - 1] = f[k - 1] /\ (s \o t)[k] = s[k]
      BY <1>4, <1>5
    <3>2. QED
      BY <1>6, <3>1
  <2>2. ASSUME NEW k \in 1 .. Len(t)
        PROVE  h[Len(s) + k] = h[Len(s) + k - 1] + (s \o t)[Len(s) + k]
    <3>1. h[Len(s) + k] = a + g[k] /\ (s \o t)[Len(s) + k] = t[k]
      BY <1>4, <1>5
    <3>2. h[Len(s) + k - 1] = a + g[k - 1]
      BY <1>2, <1>5, <1>6
    <3>3. g[k] = g[k - 1] + t[k] /\ g[k - 1] \in Nat /\ t[k] \in Nat
      BY <1>1, <1>5, <1>6 DEF Width
    <3>4. QED
      BY <1>5, <3>1, <3>2, <3>3
  <2>3. ASSUME NEW k \in 1 .. Len(s) + Len(t)
        PROVE  h[k] = h[k - 1] + (s \o t)[k]
    <3>1. CASE k <= Len(s)
      <4>1. k \in 1 .. Len(s)
        BY <1>5, <3>1
      <4>2. QED
        BY <2>1, <4>1
    <3>2. CASE k > Len(s)
      <4>1. PICK j \in 1 .. Len(t) : k = Len(s) + j
        <5>1. k - Len(s) \in 1 .. Len(t) /\ k = Len(s) + (k - Len(s))
          BY <1>5, <3>2
        <5>2. QED
          BY <5>1
      <4>2. Len(s) + j = k /\ Len(s) + j - 1 = k - 1
        BY <1>5, <4>1
      <4>3. h[Len(s) + j] = h[Len(s) + j - 1] + (s \o t)[Len(s) + j]
        BY <2>2
      <4>4. QED
        BY <4>2, <4>3
    <3>3. QED
      BY <1>5, <3>1, <3>2
  <2>4. QED
    BY <2>3
<1>10. h \in [0 .. Len(s) + Len(t) -> Nat]
  BY <1>7
<1>11. IsOffsets(h, s \o t) /\ h[Len(s \o t)] = a + b
  <2> HIDE DEF h
  <2>1. QED
    BY <1>4, <1>7, <1>8, <1>9, <1>10 DEF IsOffsets
<1>12. QED
  BY <1>4, <1>11 DEF SumsTo

LEMMA NoWidths == SumsTo(<<>>, 0)
<1> DEFINE off == [k \in 0 .. 0 |-> 0]
<1>1. IsOffsets(off, <<>>) /\ off[Len(<<>>)] = 0
  BY DEF IsOffsets
<1>2. QED
  BY <1>1 DEF SumsTo, Width

LEMMA OneWidth == \A n \in Width : SumsTo(<<n>>, n)
<1> TAKE n \in Width
<1> DEFINE off == [k \in 0 .. 1 |-> IF k = 0 THEN 0 ELSE n]
<1>1. IsOffsets(off, <<n>>) /\ off[Len(<<n>>)] = n
  BY DEF IsOffsets, Width
<1>2. QED
  BY <1>1 DEF SumsTo

LEMMA PairOf ==
  ASSUME NEW m, NEW n
  PROVE  <<m>> \o <<n>> = <<m, n>>
<1> DEFINE x == <<m>> \o <<n>>
           y == <<m, n>>
           S == {m, n}
<1>1. x \in Seq(S) /\ y \in Seq(S)
  OBVIOUS
<1>2. Len(x) = 2 /\ x[1] = m /\ x[2] = n
  OBVIOUS
<1>3. Len(y) = 2 /\ y[1] = m /\ y[2] = n
  OBVIOUS
<1>4. x = y
  <2> HIDE DEF x, y, S
  <2>1. QED
    BY <1>1, <1>2, <1>3, SeqEqual
<1>5. QED
  BY <1>4

LEMMA FourOf ==
  ASSUME NEW k, NEW l, NEW m, NEW n
  PROVE  <<k, l>> \o <<m, n>> = <<k, l, m, n>>
<1> DEFINE x == <<k, l>> \o <<m, n>>
           y == <<k, l, m, n>>
           S == {k, l, m, n}
<1>1. x \in Seq(S) /\ y \in Seq(S)
  OBVIOUS
<1>2. Len(x) = 4 /\ x[1] = k /\ x[2] = l /\ x[3] = m /\ x[4] = n
  OBVIOUS
<1>3. Len(y) = 4 /\ y[1] = k /\ y[2] = l /\ y[3] = m /\ y[4] = n
  OBVIOUS
<1>4. x = y
  <2> HIDE DEF x, y, S
  <2>1. QED
    BY <1>1, <1>2, <1>3, SeqEqual
<1>5. QED
  BY <1>4

LEMMA HeaderRecord == <<4, 4, 2, 2>> \o <<4, 4, 1, 1>> = <<4, 4, 2, 2, 4, 4, 1, 1>>
<1> DEFINE x == <<4, 4, 2, 2>> \o <<4, 4, 1, 1>>
           y == <<4, 4, 2, 2, 4, 4, 1, 1>>
<1>1. x \in Seq(Nat) /\ y \in Seq(Nat)
  OBVIOUS
<1>2. /\ Len(x) = 8 /\ x[1] = 4 /\ x[2] = 4 /\ x[3] = 2 /\ x[4] = 2
      /\ x[5] = 4 /\ x[6] = 4 /\ x[7] = 1 /\ x[8] = 1
  OBVIOUS
<1>3. /\ Len(y) = 8 /\ y[1] = 4 /\ y[2] = 4 /\ y[3] = 2 /\ y[4] = 2
      /\ y[5] = 4 /\ y[6] = 4 /\ y[7] = 1 /\ y[8] = 1
  OBVIOUS
<1>4. x = y
  <2>1. \A i \in 1 .. 8 : x[i] = y[i]
    BY <1>2, <1>3
  <2> HIDE DEF x, y
  <2>2. QED
    BY <1>1, <1>2, <1>3, <2>1, SeqEqual
<1>5. QED
  BY <1>4

LEMMA ExtendedHeader ==
  (<<4, 10, 4, 4>> \o <<4, 2, 2, 4>>) \o <<4, 4>> = Sound!ExtendedFields
<1> DEFINE z == <<4, 10, 4, 4>> \o <<4, 2, 2, 4>>
           w == <<4, 4>>
           x == z \o w
           y == <<4, 10, 4, 4, 4, 2, 2, 4, 4, 4>>
<1>1. /\ z \in Seq(Nat)
      /\ Len(z) = 8 /\ z[1] = 4 /\ z[2] = 10 /\ z[3] = 4 /\ z[4] = 4
      /\ z[5] = 4 /\ z[6] = 2 /\ z[7] = 2 /\ z[8] = 4
  OBVIOUS
<1>2. /\ x \in Seq(Nat)
      /\ Len(x) = 10 /\ x[1] = 4 /\ x[2] = 10 /\ x[3] = 4 /\ x[4] = 4 /\ x[5] = 4
      /\ x[6] = 2 /\ x[7] = 2 /\ x[8] = 4 /\ x[9] = 4 /\ x[10] = 4
  <2> HIDE DEF z
  <2>1. w \in Seq(Nat) /\ Len(w) = 2 /\ w[1] = 4 /\ w[2] = 4
    OBVIOUS
  <2> HIDE DEF w
  <2>2. /\ x \in Seq(Nat) /\ Len(x) = 10
        /\ \A i \in 1 .. 10 : x[i] = IF i <= 8 THEN z[i] ELSE w[i - 8]
    <3>1. /\ x \in Seq(Nat) /\ Len(x) = Len(z) + Len(w)
          /\ \A i \in 1 .. Len(z) + Len(w) : x[i] = IF i <= Len(z) THEN z[i] ELSE w[i - Len(z)]
      <4>1. z \in Seq(Nat) /\ w \in Seq(Nat)
        BY <1>1, <2>1
      <4>2. QED
        BY <4>1, ConcatProperties
    <3>2. Len(z) = 8 /\ Len(w) = 2
      BY <1>1, <2>1
    <3> HIDE DEF x
    <3>3. QED
      BY <3>1, <3>2
  <2> HIDE DEF x
  <2>3. \A i \in 1 .. 8 : x[i] = z[i]
    BY <2>2
  <2>4. x[9] = 4 /\ x[10] = 4
    BY <2>1, <2>2
  <2>5. QED
    BY <1>1, <2>2, <2>3, <2>4
<1>3. /\ y \in Seq(Nat)
      /\ Len(y) = 10 /\ y[1] = 4 /\ y[2] = 10 /\ y[3] = 4 /\ y[4] = 4 /\ y[5] = 4
      /\ y[6] = 2 /\ y[7] = 2 /\ y[8] = 4 /\ y[9] = 4 /\ y[10] = 4
  OBVIOUS
<1>4. x = y
  <2>1. \A i \in 1 .. 10 : x[i] = y[i]
    BY <1>2, <1>3
  <2> HIDE DEF x, y
  <2>2. QED
    BY <1>2, <1>3, <2>1, SeqEqual
<1>5. y = Sound!ExtendedFields
  BY DEF Sound!ExtendedFields, Sound!AIFFSampleRate
<1>6. QED
  BY <1>4, <1>5

LEMMA TwoWidths == \A m, n \in Width : SumsTo(<<m, n>>, m + n)
<1> TAKE m, n \in Width
<1>1. SumsTo(<<m>> \o <<n>>, m + n)
  BY OneWidth, ConcatSums
<1>2. <<m>> \o <<n>> = <<m, n>>
  BY PairOf
<1>3. QED
  BY <1>1, <1>2

LEMMA FourWidths == \A k, l, m, n \in Width : SumsTo(<<k, l, m, n>>, k + l + m + n)
<1> TAKE k, l, m, n \in Width
<1>1. SumsTo(<<k, l>> \o <<m, n>>, (k + l) + (m + n))
  BY TwoWidths, ConcatSums
<1>2. <<k, l>> \o <<m, n>> = <<k, l, m, n>>
  BY FourOf
<1>3. (k + l) + (m + n) = k + l + m + n
  BY DEF Width
<1>4. QED
  BY <1>1, <1>2, <1>3

(* A group of fields that is repeated.                                      *)
LEMMA TimesPairs ==
  ASSUME NEW n \in Nat
  PROVE  SumsTo(Sound!Times(n, <<2, 4>>), 6 * n)
<1> DEFINE s == [k \in 1 .. 2 * n |-> IF k % 2 = 1 THEN 2 ELSE 4]
           off == [k \in 0 .. 2 * n |-> 6 * (k \div 2) + 2 * (k % 2)]
<1>1. Sound!Times(n, <<2, 4>>) = s
  <2>1. n * Len(<<2, 4>>) = 2 * n
    OBVIOUS
  <2>2. ASSUME NEW k \in 1 .. 2 * n
        PROVE  <<2, 4>>[((k - 1) % 2) + 1] = IF k % 2 = 1 THEN 2 ELSE 4
    OBVIOUS
  <2>3. QED
    BY <2>1, <2>2 DEF Sound!Times
<1>2. s \in Seq(Width) /\ Len(s) = 2 * n
  BY DEF Width
<1>3. \A k \in 0 .. 2 * n : off[k] \in Nat /\ off[k] <= 6 * n
  OBVIOUS
<1>4. off[0] = 0 /\ off[2 * n] = 6 * n
  OBVIOUS
<1>5. ASSUME NEW k \in 1 .. 2 * n
      PROVE  off[k] = off[k - 1] + s[k]
  <2>1. k = 2 * (k \div 2) + (k % 2) /\ k \div 2 \in Nat /\ k % 2 \in 0 .. 1
    OBVIOUS
  <2>2. PICK q \in Nat, r \in 0 .. 1 : k = 2 * q + r
    BY <2>1
  <2>3. off[k] = 6 * (k \div 2) + 2 * (k % 2) /\ off[k - 1] = 6 * ((k - 1) \div 2) + 2 * ((k - 1) % 2)
    OBVIOUS
  <2>4. CASE r = 0
    <3>1. k \div 2 = q /\ k % 2 = 0 /\ (k - 1) \div 2 = q - 1 /\ (k - 1) % 2 = 1
      BY <2>2, <2>4
    <3>2. QED
      BY <2>3, <3>1
  <2>5. CASE r # 0
    <3>1. k \div 2 = q /\ k % 2 = 1 /\ (k - 1) \div 2 = q /\ (k - 1) % 2 = 0
      BY <2>2, <2>5
    <3>2. QED
      BY <2>3, <2>5, <3>1
  <2>6. QED
    BY <2>4, <2>5
<1>6. IsOffsets(off, s) /\ off[Len(s)] = 6 * n
  <2>1. off \in [0 .. 2 * n -> Nat]
    BY <1>3
  <2> HIDE DEF off, s
  <2>2. QED
    BY <1>2, <1>3, <1>4, <1>5, <2>1 DEF IsOffsets
<1>7. QED
  <2> HIDE DEF off, s
  <2>1. QED
    BY <1>1, <1>2, <1>6 DEF SumsTo

LEMMA TimesTriples ==
  ASSUME NEW n \in Nat
  PROVE  SumsTo(Sound!Times(n, <<2, 2, 4>>), 8 * n)
<1> DEFINE s == [k \in 1 .. 3 * n |-> IF k % 3 = 0 THEN 4 ELSE 2]
           off == [k \in 0 .. 3 * n |-> 8 * (k \div 3) + 2 * (k % 3)]
<1>1. Sound!Times(n, <<2, 2, 4>>) = s
  <2>1. n * Len(<<2, 2, 4>>) = 3 * n
    OBVIOUS
  <2>2. ASSUME NEW k \in 1 .. 3 * n
        PROVE  <<2, 2, 4>>[((k - 1) % 3) + 1] = IF k % 3 = 0 THEN 4 ELSE 2
    OBVIOUS
  <2>3. QED
    BY <2>1, <2>2 DEF Sound!Times
<1>2. s \in Seq(Width) /\ Len(s) = 3 * n
  BY DEF Width
<1>3. \A k \in 0 .. 3 * n : off[k] \in Nat /\ off[k] <= 8 * n
  OBVIOUS
<1>4. off[0] = 0 /\ off[3 * n] = 8 * n
  OBVIOUS
<1>5. ASSUME NEW k \in 1 .. 3 * n
      PROVE  off[k] = off[k - 1] + s[k]
  <2>1. k = 3 * (k \div 3) + (k % 3) /\ k \div 3 \in Nat /\ k % 3 \in 0 .. 2
    OBVIOUS
  <2>2. PICK q \in Nat, r \in 0 .. 2 : k = 3 * q + r
    BY <2>1
  <2>3. off[k] = 8 * (k \div 3) + 2 * (k % 3) /\ off[k - 1] = 8 * ((k - 1) \div 3) + 2 * ((k - 1) % 3)
    OBVIOUS
  <2>4. CASE r = 0
    <3>1. k \div 3 = q /\ k % 3 = 0 /\ (k - 1) \div 3 = q - 1 /\ (k - 1) % 3 = 2
      BY <2>2, <2>4
    <3>2. QED
      BY <2>3, <3>1
  <2>5. CASE r # 0
    <3>1. k \div 3 = q /\ k % 3 = r /\ (k - 1) \div 3 = q /\ (k - 1) % 3 = r - 1
      BY <2>2, <2>5
    <3>2. QED
      BY <2>3, <2>5, <3>1
  <2>6. QED
    BY <2>4, <2>5
<1>6. IsOffsets(off, s) /\ off[Len(s)] = 8 * n
  <2>1. off \in [0 .. 3 * n -> Nat]
    BY <1>3
  <2> HIDE DEF off, s
  <2>2. QED
    BY <1>2, <1>3, <1>4, <1>5, <2>1 DEF IsOffsets
<1>7. QED
  <2> HIDE DEF off, s
  <2>1. QED
    BY <1>1, <1>2, <1>6 DEF SumsTo

(* The fields of every header that a sound can have.                        *)
LEMMA HeaderSums ==
  ASSUME chunk.count \in Nat, chunk.commands \in Nat
  PROVE  SumsTo(Sound!Fields, Sound!HeaderSize)
<1> DEFINE formats == IF chunk.format = 1 THEN <<2, 2>> \o Sound!Times(chunk.count, <<2, 4>>) ELSE <<2, 2>>
           formatsSize == 4 + (IF chunk.format = 1 THEN 6 * chunk.count ELSE 0)
           commands == Sound!Times(chunk.commands, <<2, 2, 4>>)
           record == <<4, 4, 2, 2, 4, 4, 1, 1>>
           extended == IF Sound!Extended THEN Sound!ExtendedFields ELSE <<>>
           extendedSize == IF Sound!Extended THEN 42 ELSE 0
<1>1. SumsTo(formats, formatsSize)
  <2>1. SumsTo(<<2, 2>>, 4)
    BY TwoWidths DEF Width
  <2>2. SumsTo(<<2, 2>> \o Sound!Times(chunk.count, <<2, 4>>), 4 + 6 * chunk.count)
    BY <2>1, TimesPairs, ConcatSums
  <2>3. QED
    BY <2>1, <2>2
<1>2. SumsTo(commands, 8 * chunk.commands)
  BY TimesTriples
<1>3. SumsTo(record, 22)
  <2>1. SumsTo(<<4, 4, 2, 2>>, 12) /\ SumsTo(<<4, 4, 1, 1>>, 10)
    BY FourWidths DEF Width
  <2>2. SumsTo(<<4, 4, 2, 2>> \o <<4, 4, 1, 1>>, 12 + 10)
    BY <2>1, ConcatSums
  <2>3. SumsTo(record, 12 + 10)
    BY <2>2, HeaderRecord
  <2>4. QED
    BY <2>3
<1>4. SumsTo(extended, extendedSize)
  <2>1. SumsTo(<<4, 10, 4, 4>>, 22) /\ SumsTo(<<4, 2, 2, 4>>, 12) /\ SumsTo(<<4, 4>>, 8)
    BY FourWidths, TwoWidths DEF Width
  <2>2. SumsTo((<<4, 10, 4, 4>> \o <<4, 2, 2, 4>>) \o <<4, 4>>, (22 + 12) + 8)
    BY <2>1, ConcatSums
  <2>3. SumsTo(Sound!ExtendedFields, (22 + 12) + 8)
    BY <2>2, ExtendedHeader
  <2>4. (22 + 12) + 8 = 42
    OBVIOUS
  <2>5. QED
    BY <2>3, <2>4, NoWidths
<1>5. SumsTo(<<2>>, 2)
  BY OneWidth DEF Width
<1>6. SumsTo(formats \o <<2>> \o commands \o record \o extended,
             formatsSize + 2 + 8 * chunk.commands + 22 + extendedSize)
  <2> HIDE DEF formats, formatsSize, commands, record, extended, extendedSize
  <2>1. SumsTo(formats \o <<2>>, formatsSize + 2)
    BY <1>1, <1>5, ConcatSums
  <2>2. SumsTo(formats \o <<2>> \o commands, formatsSize + 2 + 8 * chunk.commands)
    BY <1>2, <2>1, ConcatSums
  <2>3. SumsTo(formats \o <<2>> \o commands \o record, formatsSize + 2 + 8 * chunk.commands + 22)
    BY <1>3, <2>2, ConcatSums
  <2>4. QED
    BY <1>4, <2>3, ConcatSums
<1>7. Sound!Fields = formats \o <<2>> \o commands \o record \o extended
  BY DEF Sound!Fields
<1>8. formatsSize + 2 + 8 * chunk.commands + 22 + extendedSize = Sound!HeaderSize
  BY DEF Sound!HeaderSize, Sound!Extended
<1>9. QED
  <2> HIDE DEF formats, formatsSize, commands, record, extended, extendedSize
  <2>1. QED
    BY <1>6, <1>7, <1>8

-----------------------------------------------------------------------------
(***************************************************************************)
(* The inductive invariant.                                                *)
(***************************************************************************)
HeaderSize == Sound!HeaderSize
Garbage == Sound!Garbage
FieldCount == Len(Sound!Fields)
Offset == CHOOSE off : IsOffsets(off, Sound!Fields) /\ off[FieldCount] = HeaderSize

Runs == [of : {"in", "pcm"}, from : Nat, at : Nat, len : Width]
SoundTypes ==
  /\ chunk \in Sounds /\ out \in Seq(Runs)
  /\ inPos \in Nat /\ outPos \in 0 .. chunk.uncompressedLen
  /\ decoded \in 0 .. chunk.audio /\ bytesToSkip \in Int /\ bytesToRead \in Nat

(* A run holds what its place says.                                         *)
FieldRun(k) ==
  /\ out[k].of = "in" /\ out[k].from = out[k].at
  /\ out[k].at = Offset[k - 1] /\ out[k].len = Sound!Fields[k]
SoundRun(k) ==
  /\ out[k].of = "pcm" /\ out[k].at >= HeaderSize
  /\ out[k].from = Garbage + (out[k].at - HeaderSize)
Placed ==
  /\ Sound!NoGaps
  /\ \A k \in DOMAIN out : IF k <= FieldCount THEN FieldRun(k) ELSE SoundRun(k)
  /\ Len(out) > FieldCount => ~Sound!FormatDiffers

HeaderRead ==
  /\ Len(out) >= FieldCount /\ HeaderSize <= outPos
  /\ HeaderSize + 4 <= chunk.size /\ chunk.encode # "unknown"
(* The first sample is next, or nothing is left.                            *)
Started ==
  /\ err = "done" => decoded = chunk.audio
  /\ \/ decoded = Garbage + (outPos - HeaderSize)
     \/ err = "done" /\ outPos = HeaderSize /\ (~chunk.short => decoded <= Garbage)
Taken ==
  /\ HeaderRead /\ Started /\ handle = "released" /\ err # "error" /\ ~Sound!FormatDiffers
  /\ outPos = chunk.uncompressedLen \/ err = "done"
OpenForAReason == handle = "open" => Sound!FormatDiffers
Refused ==
  /\ OpenForAReason
  /\ chunk.encode = "unknown" \/ Sound!FormatDiffers \/ err = "error" \/ handle = "none"

AtStart == pc = "start" => out = <<>> /\ inPos = 0 /\ decoded = 0 /\ err = "ok" /\ handle = "none"
InHeader ==
  pc = "header" =>
    /\ Len(out) <= FieldCount /\ inPos = Offset[Len(out)]
    /\ decoded = 0 /\ err = "ok" /\ handle = "none"
AtOpen == pc = "open" => HeaderRead /\ Len(out) = FieldCount /\ decoded = 0
Opened ==
  pc \in {"format", "skip", "decode"} =>
    /\ HeaderRead /\ handle = "open" /\ err # "error"
    /\ bytesToRead = chunk.uncompressedLen - outPos
    /\ err = "done" => decoded = chunk.audio
AtFormat == pc = "format" => Len(out) = FieldCount /\ decoded = 0
Skipping ==
  pc = "skip" =>
    /\ Len(out) = FieldCount /\ ~Sound!FormatDiffers /\ bytesToSkip = Garbage - decoded
    /\ ~chunk.short => decoded <= Garbage /\ (decoded \in {0, Garbage} \/ err = "done")
Decoding == pc = "decode" => ~Sound!FormatDiffers /\ Started
Returned ==
  pc = "returned" =>
    \/ chunk.size = 0 /\ result = 0 /\ handle = "none"
    \/ result = -1 /\ Refused
    \/ result = chunk.uncompressedLen /\ Taken
Cached ==
  pc = "cached" => (chunk.size = 0 /\ chunk.uncompressedLen = 0 /\ handle = "none") \/ Taken
Thrown ==
  pc = "thrown" =>
    /\ OpenForAReason
    /\ \/ chunk.size = 0 \/ chunk.size < HeaderSize + 4 \/ chunk.uncompressedLen < HeaderSize
       \/ Refused

Phases ==
  /\ AtStart /\ InHeader /\ AtOpen /\ Opened /\ AtFormat /\ Skipping /\ Decoding
  /\ Returned /\ Cached /\ Thrown
SoundInv == SoundTypes /\ Placed /\ Phases
Inv == kind = "sound" => SoundInv

-----------------------------------------------------------------------------
(***************************************************************************)
(* What does not change with a chunk.                                       *)
(***************************************************************************)
Fixed ==
  /\ chunk.size \in Nat /\ chunk.uncompressedLen \in Nat /\ chunk.audio \in Nat
  /\ Sound!Fields \in Seq(Width) /\ FieldCount \in Nat /\ HeaderSize \in Nat /\ Garbage \in Nat
  /\ IsOffsets(Offset, Sound!Fields) /\ Offset[FieldCount] = HeaderSize

LEMMA ChunkFields ==
  ASSUME NEW c \in Sounds
  PROVE  /\ c.size \in Nat /\ c.uncompressedLen \in Nat /\ c.audio \in Nat
         /\ c.count \in Nat /\ c.commands \in Nat /\ c.skip \in Nat
         /\ c.found.channels \in {1, 2}
  BY SoundsAssumption

LEMMA FixedHolds ==
  ASSUME chunk \in Sounds
  PROVE  Fixed
<1>1. /\ chunk.size \in Nat /\ chunk.uncompressedLen \in Nat /\ chunk.audio \in Nat
      /\ chunk.count \in Nat /\ chunk.commands \in Nat /\ chunk.skip \in Nat
  BY ChunkFields
<1>2. SumsTo(Sound!Fields, Sound!HeaderSize)
  BY <1>1, HeaderSums
<1>3. Sound!Fields \in Seq(Width) /\ FieldCount \in Nat
  BY <1>2 DEF SumsTo, FieldCount
<1>4. IsOffsets(Offset, Sound!Fields) /\ Offset[FieldCount] = HeaderSize
  BY <1>2 DEF SumsTo, FieldCount, Offset, HeaderSize
<1>5. HeaderSize \in Nat
  BY <1>1 DEF HeaderSize, Sound!HeaderSize
<1>6. Garbage \in Nat
  BY <1>1 DEF Garbage, Sound!Garbage, Sound!SamplesToBytes
<1>7. QED
  BY <1>1, <1>3, <1>4, <1>5, <1>6 DEF Fixed

LEMMA ChunkStays ==
  ASSUME chunk' = chunk
  PROVE  /\ Sound!Fields' = Sound!Fields /\ FieldCount' = FieldCount /\ Offset' = Offset
         /\ HeaderSize' = HeaderSize /\ Garbage' = Garbage
         /\ Sound!FormatDiffers' <=> Sound!FormatDiffers
<1>1. Sound!Fields' = Sound!Fields
  BY DEF Sound!Fields, Sound!Extended
<1>2. HeaderSize' = HeaderSize
  BY DEF HeaderSize, Sound!HeaderSize
<1>3. FieldCount' = FieldCount
  BY <1>1 DEF FieldCount
<1>4. Offset' = Offset
  BY <1>1, <1>2, <1>3 DEF Offset
<1>5. Garbage' = Garbage
  BY DEF Garbage, Sound!Garbage, Sound!NumChannels, Sound!SampleSize, Sound!Extended
<1>6. Sound!FormatDiffers' <=> Sound!FormatDiffers
  BY DEF Sound!FormatDiffers, Sound!NumChannels, Sound!SampleSize, Sound!Extended, Sound!ExpectedEncoding
<1>7. QED
  BY <1>1, <1>2, <1>3, <1>4, <1>5, <1>6

LEMMA OffsetFacts ==
  ASSUME Fixed
  PROVE  /\ Offset[0] = 0
         /\ \A k \in 0 .. FieldCount : Offset[k] \in Nat /\ Offset[k] <= HeaderSize
         /\ \A k \in 1 .. FieldCount :
              Sound!Fields[k] \in Width /\ Offset[k] = Offset[k - 1] + Sound!Fields[k]
<1>1. Len(Sound!Fields) = FieldCount /\ FieldCount \in Nat
  BY DEF Fixed, FieldCount
<1>2. /\ Offset \in [0 .. FieldCount -> Nat] /\ Offset[0] = 0
      /\ \A k \in 1 .. FieldCount : Offset[k] = Offset[k - 1] + Sound!Fields[k]
      /\ \A k \in 0 .. FieldCount : Offset[k] <= HeaderSize
  BY <1>1 DEF Fixed, IsOffsets
<1>3. \A k \in 1 .. FieldCount : Sound!Fields[k] \in Width
  BY <1>1 DEF Fixed
<1>4. QED
  BY <1>2, <1>3
-----------------------------------------------------------------------------
(***************************************************************************)
(* What is written.                                                        *)
(***************************************************************************)
LEMMA RunFields ==
  ASSUME NEW r \in Runs
  PROVE  r.of \in {"in", "pcm"} /\ r.from \in Nat /\ r.at \in Nat /\ r.len \in Width
  BY DEF Runs

LEMMA OutFacts ==
  ASSUME SoundTypes
  PROVE  Len(out) \in Nat /\ DOMAIN out = 1 .. Len(out) /\ \A k \in 1 .. Len(out) : out[k] \in Runs
  BY DEF SoundTypes

(* While the header is written, the position is the offset of the next field. *)
LEMMA AtTheNextField ==
  ASSUME Fixed, SoundTypes, Placed, Len(out) <= FieldCount
  PROVE  outPos = Offset[Len(out)]
<1>1. Len(out) \in Nat /\ DOMAIN out = 1 .. Len(out)
  BY OutFacts
<1>2. outPos = Sound!End(Len(out))
  BY DEF Placed, Sound!NoGaps
<1>3. CASE Len(out) = 0
  BY <1>2, <1>3, OffsetFacts DEF Sound!End
<1>4. CASE Len(out) # 0
  <2>1. Len(out) \in DOMAIN out /\ Len(out) \in 1 .. FieldCount
    BY <1>1, <1>4 DEF Fixed
  <2>2. out[Len(out)].at = Offset[Len(out) - 1] /\ out[Len(out)].len = Sound!Fields[Len(out)]
    BY <2>1 DEF Placed, FieldRun
  <2>3. outPos = out[Len(out)].at + out[Len(out)].len
    BY <1>2, <1>4 DEF Sound!End
  <2>4. QED
    BY <2>1, <2>2, <2>3, OffsetFacts
<1>5. QED
  BY <1>3, <1>4

LEMMA PlacedStays ==
  ASSUME Placed, chunk' = chunk, out' = out, outPos' = outPos
  PROVE  Placed'
<1>1. Sound!NoGaps'
  BY DEF Placed, Sound!NoGaps, Sound!End
<1>2. \A k : (FieldRun(k) => FieldRun(k)') /\ (SoundRun(k) => SoundRun(k)')
  BY ChunkStays DEF FieldRun, SoundRun
<1>3. QED
  BY <1>1, <1>2, ChunkStays DEF Placed

LEMMA AppendPlaced ==
  ASSUME Fixed, SoundTypes, Placed, chunk' = chunk,
         NEW r \in Runs, out' = Append(out, r), r.at = outPos, outPos' = outPos + r.len,
         Len(out) < FieldCount =>
           r.of = "in" /\ r.from = r.at /\ r.len = Sound!Fields[Len(out) + 1],
         Len(out) >= FieldCount =>
           /\ r.of = "pcm" /\ r.at >= HeaderSize /\ r.from = Garbage + (r.at - HeaderSize)
           /\ ~Sound!FormatDiffers
  PROVE  Placed'
<1>0. PICK n \in Nat : n = Len(out)
  BY OutFacts
<1>1. n \in Nat /\ DOMAIN out = 1 .. n /\ out \in Seq(Runs) /\ FieldCount \in Nat
  BY <1>0, OutFacts DEF SoundTypes, Fixed
<1>2. /\ Len(out') = n + 1 /\ DOMAIN (out') = 1 .. n + 1
      /\ \A k \in 1 .. n : out'[k] = out[k]
      /\ out'[n + 1] = r
  BY <1>0, <1>1
<1>3. outPos = Sound!End(n) /\ \A k \in 1 .. n : out[k].at = Sound!End(k - 1)
  BY <1>0, <1>1 DEF Placed, Sound!NoGaps
<1>4. \A k \in 0 .. n : Sound!End(k)' = Sound!End(k)
  <2>1. TAKE k \in 0 .. n
  <2>2. CASE k = 0
    BY <2>2 DEF Sound!End
  <2>3. CASE k # 0
    <3>1. k \in 1 .. n
      BY <1>1, <2>3
    <3>2. QED
      BY <1>2, <2>3, <3>1 DEF Sound!End
  <2>4. QED
    BY <2>2, <2>3
<1>5. Sound!End(n + 1)' = r.at + r.len
  BY <1>1, <1>2 DEF Sound!End
<1>6. Sound!NoGaps'
  <2>1. outPos' = Sound!End(Len(out))'
    BY <1>2, <1>5
  <2>2. ASSUME NEW k \in 1 .. n + 1
        PROVE  out'[k].at = Sound!End(k - 1)'
    <3>1. CASE k <= n
      <4>1. k \in 1 .. n /\ k - 1 \in 0 .. n
        BY <1>1, <3>1
      <4>2. QED
        BY <1>2, <1>3, <1>4, <4>1
    <3>2. CASE k > n
      <4>1. k = n + 1 /\ k - 1 = n /\ n \in 0 .. n
        BY <1>1, <3>2
      <4>2. Sound!End(n)' = Sound!End(n)
        BY <1>4, <4>1
      <4>3. QED
        BY <1>2, <1>3, <4>1, <4>2
    <3>3. QED
      BY <1>1, <3>1, <3>2
  <2>3. QED
    BY <1>2, <2>1, <2>2 DEF Sound!NoGaps
<1>7. ASSUME NEW k \in 1 .. n + 1
      PROVE  IF k <= FieldCount' THEN FieldRun(k)' ELSE SoundRun(k)'
  <2>1. CASE k <= n
    <3>1. k \in 1 .. n
      BY <1>1, <2>1
    <3>2. IF k <= FieldCount THEN FieldRun(k) ELSE SoundRun(k)
      BY <1>1, <3>1 DEF Placed
    <3>3. out'[k] = out[k]
      BY <1>2, <3>1
    <3>4. FieldRun(k) => FieldRun(k)'
      BY <3>3, ChunkStays DEF FieldRun
    <3>5. SoundRun(k) => SoundRun(k)'
      BY <3>3, ChunkStays DEF SoundRun
    <3>6. QED
      BY <3>2, <3>4, <3>5, ChunkStays
  <2>2. CASE k > n
    <3>1. k = n + 1 /\ out'[k] = r
      BY <1>1, <1>2, <2>2
    <3>2. CASE k <= FieldCount
      <4>1. n < FieldCount
        BY <1>1, <3>1, <3>2
      <4>2. r.of = "in" /\ r.from = r.at /\ r.len = Sound!Fields[k]
        BY <1>0, <3>1, <4>1
      <4>3. r.at = Offset[k - 1]
        <5>1. n <= FieldCount /\ k - 1 = n
          BY <1>1, <3>1, <4>1
        <5>2. outPos = Offset[n]
          BY <1>0, <5>1, AtTheNextField
        <5>3. QED
          BY <5>1, <5>2
      <4>4. FieldRun(k)'
        BY <3>1, <4>2, <4>3, ChunkStays DEF FieldRun
      <4>5. QED
        BY <3>2, <4>4, ChunkStays
    <3>3. CASE ~(k <= FieldCount)
      <4>1. n >= FieldCount
        BY <1>1, <3>1, <3>3
      <4>2. r.of = "pcm" /\ r.at >= HeaderSize /\ r.from = Garbage + (r.at - HeaderSize)
        BY <1>0, <4>1
      <4>3. SoundRun(k)'
        BY <3>1, <4>2, ChunkStays DEF SoundRun
      <4>4. QED
        BY <3>3, <4>3, ChunkStays
    <3>4. QED
      BY <3>2, <3>3
  <2>3. QED
    BY <1>1, <2>1, <2>2
<1>8. Len(out') > FieldCount => ~Sound!FormatDiffers
  BY <1>0, <1>1, <1>2
<1>9. QED
  BY <1>2, <1>6, <1>7, <1>8, ChunkStays DEF Placed

-----------------------------------------------------------------------------
(***************************************************************************)
(* The steps.                                                              *)
(***************************************************************************)
LEMMA InvFacts ==
  ASSUME SoundInv
  PROVE  SoundTypes /\ Placed /\ Phases /\ Fixed
  BY FixedHolds DEF SoundInv, SoundTypes

LEMMA StartStep ==
  ASSUME SoundInv, Sound!Start
  PROVE  SoundInv'
<1>1. SoundTypes /\ Placed /\ Phases /\ Fixed
  BY InvFacts
<1>2. /\ chunk' = chunk /\ out' = out /\ outPos' = outPos /\ inPos' = inPos /\ err' = err
      /\ decoded' = decoded /\ bytesToSkip' = bytesToSkip /\ bytesToRead' = bytesToRead
      /\ handle' = handle
  BY DEF Sound!Start, Sound!ReturnOf
<1>3. out = <<>> /\ inPos = 0 /\ decoded = 0 /\ err = "ok" /\ handle = "none"
  BY <1>1 DEF Phases, AtStart, Sound!Start
<1>4. SoundTypes' /\ Placed'
  BY <1>1, <1>2, PlacedStays DEF SoundTypes
<1>5. CASE chunk.size = 0
  <2>1. pc' = "returned" /\ result' = 0
    BY <1>5 DEF Sound!Start, Sound!ReturnOf
  <2>2. Phases'
    BY <1>2, <1>3, <1>5, <2>1
    DEF Phases, AtStart, InHeader, AtOpen, Opened, AtFormat, Skipping,
     Decoding, Returned, Cached, Thrown
  <2>3. QED
    BY <1>4, <2>2 DEF SoundInv
<1>6. CASE chunk.size # 0
  <2>1. pc' = "header"
    BY <1>6 DEF Sound!Start
  <2>2. Len(out') <= FieldCount' /\ inPos' = Offset'[Len(out')]
    <3>1. Len(out) = 0 /\ FieldCount \in Nat /\ Offset[0] = 0
      BY <1>1, <1>3, OffsetFacts DEF Fixed
    <3>2. QED
      BY <1>2, <1>3, <3>1, ChunkStays
  <2>3. Phases'
    BY <1>2, <1>3, <2>1, <2>2
    DEF Phases, AtStart, InHeader, AtOpen, Opened, AtFormat, Skipping,
     Decoding, Returned, Cached, Thrown
  <2>4. QED
    BY <1>4, <2>3 DEF SoundInv
<1>7. QED
  BY <1>5, <1>6

LEMMA CopyFieldStep ==
  ASSUME SoundInv, Sound!CopyField
  PROVE  SoundInv'
<1>1. SoundTypes /\ Placed /\ Phases /\ Fixed
  BY InvFacts
<1>2. PICK n \in Nat : n = Len(out)
  BY <1>1, OutFacts
<1>3. PICK width : width = Sound!Fields[n + 1]
  OBVIOUS
<1>4. /\ chunk' = chunk /\ err' = err /\ decoded' = decoded /\ handle' = handle
      /\ bytesToSkip' = bytesToSkip /\ bytesToRead' = bytesToRead /\ inPos' = inPos + width
  BY <1>2, <1>3 DEF Sound!CopyField, Sound!Throw
<1>5. n < FieldCount /\ pc = "header"
  BY <1>2 DEF Sound!CopyField, FieldCount
<1>6. inPos = Offset[n] /\ decoded = 0 /\ err = "ok" /\ handle = "none"
  BY <1>1, <1>2, <1>5 DEF Phases, InHeader
<1>7. outPos = Offset[n]
  BY <1>1, <1>2, <1>5, AtTheNextField DEF Fixed
<1>8. width \in Width /\ Offset[n + 1] = Offset[n] + width /\ Offset[n] \in Nat /\ Offset[n + 1] <= HeaderSize
  <2>1. n + 1 \in 1 .. FieldCount /\ n + 1 \in 0 .. FieldCount /\ n \in 0 .. FieldCount /\ (n + 1) - 1 = n
    BY <1>1, <1>5 DEF Fixed
  <2>2. QED
    BY <1>1, <1>3, <2>1, OffsetFacts
<1>9. CASE Sound!ReadFails(width) \/ Sound!WriteFails(width)
  <2>1. pc' = "thrown" /\ out' = out /\ outPos' = outPos
    BY <1>2, <1>3, <1>9 DEF Sound!CopyField, Sound!Throw
  <2>2. SoundTypes' /\ Placed'
    BY <1>1, <1>4, <1>8, <2>1, PlacedStays DEF SoundTypes, Width
  <2>3. chunk.size < HeaderSize + 4 \/ chunk.uncompressedLen < HeaderSize
    <3>1. HeaderSize \in Nat /\ chunk.size \in Nat /\ chunk.uncompressedLen \in Nat /\ width \in Nat
      BY <1>1, <1>8 DEF Fixed, Width
    <3>2. Offset[n] + width > chunk.size \/ Offset[n] + width > chunk.uncompressedLen
      BY <1>6, <1>7, <1>9 DEF Sound!ReadFails, Sound!WriteFails
    <3>3. QED
      BY <1>8, <3>1, <3>2
  <2>4. Phases'
    <3>1. Thrown'
      BY <1>4, <1>6, <2>3, ChunkStays DEF Thrown, OpenForAReason
    <3>2. QED
      BY <2>1, <3>1
      DEF Phases, AtStart, InHeader, AtOpen, Opened, AtFormat, Skipping, Decoding, Returned, Cached
  <2>5. QED
    BY <2>2, <2>4 DEF SoundInv
<1>10. CASE ~(Sound!ReadFails(width) \/ Sound!WriteFails(width))
  <2>1. PICK r : r = Sound!Run("in", inPos, width)
    OBVIOUS
  <2>2. /\ out' = Append(out, r) /\ outPos' = outPos + width /\ pc' = pc
    BY <1>2, <1>3, <1>10, <2>1 DEF Sound!CopyField
  <2>3. r.of = "in" /\ r.from = inPos /\ r.at = outPos /\ r.len = width /\ r \in Runs
    BY <1>6, <1>7, <1>8, <2>1 DEF Sound!Run, Runs
  <2>4. Placed'
    <3>1. Len(out) < FieldCount =>
            r.of = "in" /\ r.from = r.at /\ r.len = Sound!Fields[Len(out) + 1]
      BY <1>2, <1>3, <1>6, <1>7, <2>3
    <3>2. ~(Len(out) >= FieldCount) /\ r.at = outPos /\ outPos' = outPos + r.len
      BY <1>1, <1>2, <1>5, <2>2, <2>3 DEF Fixed
    <3>3. QED
      BY <1>1, <1>4, <2>2, <2>3, <3>1, <3>2, AppendPlaced
  <2>5. SoundTypes'
    <3>1. outPos + width <= chunk.uncompressedLen /\ chunk.uncompressedLen \in Nat
      BY <1>1, <1>7, <1>8, <1>10 DEF Sound!WriteFails, Fixed, Width
    <3>2. outPos' \in 0 .. chunk.uncompressedLen /\ inPos' \in Nat
      BY <1>4, <1>6, <1>7, <1>8, <2>2, <3>1 DEF Width
    <3>3. out' \in Seq(Runs)
      BY <1>1, <2>2, <2>3 DEF SoundTypes
    <3>4. QED
      BY <1>1, <1>4, <3>2, <3>3 DEF SoundTypes
  <2>6. Len(out') = n + 1 /\ n + 1 <= FieldCount /\ inPos' = Offset[n + 1]
    BY <1>1, <1>2, <1>4, <1>5, <1>6, <1>8, <2>2 DEF SoundTypes, Fixed
  <2>7. Phases'
    <3>1. InHeader'
      BY <1>4, <1>6, <2>6, ChunkStays DEF InHeader
    <3>2. pc' = "header"
      BY <1>5, <2>2
    <3>3. QED
      BY <3>1, <3>2
      DEF Phases, AtStart, AtOpen, Opened, AtFormat, Skipping, Decoding, Returned, Cached, Thrown
  <2>8. QED
    BY <2>4, <2>5, <2>7 DEF SoundInv
<1>11. QED
  BY <1>9, <1>10

LEMMA AfterHeaderStep ==
  ASSUME SoundInv, Sound!AfterHeader
  PROVE  SoundInv'
<1>1. SoundTypes /\ Placed /\ Phases /\ Fixed
  BY InvFacts
<1>2. /\ chunk' = chunk /\ out' = out /\ outPos' = outPos /\ err' = err /\ decoded' = decoded
      /\ handle' = handle /\ bytesToSkip' = bytesToSkip /\ bytesToRead' = bytesToRead
  BY DEF Sound!AfterHeader, Sound!ReturnOf, Sound!Throw
<1>3. Len(out) = FieldCount /\ pc = "header"
  BY DEF Sound!AfterHeader, FieldCount
<1>4. inPos = HeaderSize /\ decoded = 0 /\ err = "ok" /\ handle = "none"
  BY <1>1, <1>3 DEF Phases, InHeader, Fixed
<1>5. outPos = HeaderSize
  BY <1>1, <1>3, AtTheNextField DEF Fixed
<1>6. inPos' \in {inPos, inPos + 4}
  BY DEF Sound!AfterHeader, Sound!SkipSamplesWidth
<1>7. SoundTypes' /\ Placed'
  <2>1. inPos' \in Nat
    BY <1>1, <1>6 DEF SoundTypes
  <2>2. QED
    BY <1>1, <1>2, <2>1, PlacedStays DEF SoundTypes
<1>8. CASE chunk.encode = "unknown"
  <2>1. pc' = "returned" /\ result' = -1
    BY <1>8 DEF Sound!AfterHeader, Sound!ReturnOf
  <2>2. Refused'
    BY <1>2, <1>4 DEF Refused, OpenForAReason
  <2>3. Phases'
    BY <2>1, <2>2
    DEF Phases, AtStart, InHeader, AtOpen, Opened, AtFormat, Skipping,
     Decoding, Returned, Cached, Thrown
  <2>4. QED
    BY <1>7, <2>3 DEF SoundInv
<1>9. CASE chunk.encode # "unknown" /\ HeaderSize + 4 > chunk.size
  <2>1. pc' = "thrown"
    BY <1>4, <1>9 DEF Sound!AfterHeader, Sound!Throw, Sound!ReadFails, Sound!SkipSamplesWidth, Sound!AIFFSampleRate
  <2>2. chunk.size < HeaderSize + 4
    BY <1>1, <1>9 DEF Fixed
  <2>3. Thrown'
    BY <1>2, <1>4, <2>2, ChunkStays DEF Thrown, OpenForAReason
  <2>4. Phases'
    BY <2>1, <2>3
    DEF Phases, AtStart, InHeader, AtOpen, Opened, AtFormat, Skipping, Decoding, Returned, Cached
  <2>5. QED
    BY <1>7, <2>4 DEF SoundInv
<1>10. CASE chunk.encode # "unknown" /\ ~(HeaderSize + 4 > chunk.size)
  <2>1. pc' = "open"
    BY <1>4, <1>10 DEF Sound!AfterHeader, Sound!Throw, Sound!ReadFails, Sound!SkipSamplesWidth, Sound!AIFFSampleRate
  <2>2. HeaderSize + 4 <= chunk.size /\ FieldCount \in Nat /\ HeaderSize \in Nat
    BY <1>1, <1>10 DEF Fixed
  <2>3. AtOpen'
    BY <1>2, <1>3, <1>4, <1>5, <1>10, <2>2, ChunkStays DEF AtOpen, HeaderRead
  <2>4. Phases'
    BY <2>1, <2>3
    DEF Phases, AtStart, InHeader, Opened, AtFormat, Skipping, Decoding, Returned, Cached, Thrown
  <2>5. QED
    BY <1>7, <2>4 DEF SoundInv
<1>11. QED
  BY <1>8, <1>9, <1>10

(* The parts of the invariant that speak of what is fixed and of out.        *)
LEMMA HeaderReadStays ==
  ASSUME Fixed, SoundTypes, HeaderRead, chunk' = chunk, Len(out') >= Len(out), Len(out') \in Nat,
         outPos' >= outPos, outPos' \in Nat
  PROVE  HeaderRead'
<1>1. outPos \in Nat /\ Len(out) \in Nat
  BY OutFacts DEF SoundTypes, Fixed
<1>2. HeaderSize <= outPos' /\ Len(out') >= FieldCount
  BY <1>1 DEF HeaderRead, Fixed
<1>3. QED
  BY <1>2, ChunkStays DEF HeaderRead

LEMMA OpenStep ==
  ASSUME SoundInv, Sound!Open
  PROVE  SoundInv'
<1>1. SoundTypes /\ Placed /\ Phases /\ Fixed
  BY InvFacts
<1>2. /\ chunk' = chunk /\ out' = out /\ outPos' = outPos /\ inPos' = inPos /\ decoded' = decoded
      /\ bytesToSkip' = bytesToSkip /\ bytesToRead' = chunk.uncompressedLen - outPos
  BY DEF Sound!Open
<1>3. HeaderRead /\ Len(out) = FieldCount /\ decoded = 0
  BY <1>1 DEF Phases, AtOpen, Sound!Open
<1>4. SoundTypes' /\ Placed'
  <2>1. bytesToRead' \in Nat
    BY <1>1, <1>2 DEF SoundTypes, Fixed
  <2>2. QED
    BY <1>1, <1>2, <2>1, PlacedStays DEF SoundTypes
<1>5. CASE Sound!ReturnOf(-1, "none") /\ UNCHANGED err
  <2>1. pc' = "returned" /\ result' = -1 /\ handle' = "none"
    BY <1>5 DEF Sound!ReturnOf
  <2>2. Refused'
    BY <2>1 DEF Refused, OpenForAReason
  <2>3. Phases'
    BY <2>1, <2>2
    DEF Phases, AtStart, InHeader, AtOpen, Opened, AtFormat, Skipping,
     Decoding, Returned, Cached, Thrown
  <2>4. QED
    BY <1>4, <2>3 DEF SoundInv
<1>6. CASE err' = "error" /\ Sound!ReturnOf(-1, "released")
  <2>1. pc' = "returned" /\ result' = -1 /\ handle' = "released"
    BY <1>6 DEF Sound!ReturnOf
  <2>2. Refused'
    BY <1>6, <2>1 DEF Refused, OpenForAReason
  <2>3. Phases'
    BY <2>1, <2>2
    DEF Phases, AtStart, InHeader, AtOpen, Opened, AtFormat, Skipping,
     Decoding, Returned, Cached, Thrown
  <2>4. QED
    BY <1>4, <2>3 DEF SoundInv
<1>7. CASE /\ err' \in IF Sound!ToDecode = 0 THEN {"ok", "done"} ELSE {"ok"}
           /\ pc' = "format" /\ handle' = "open" /\ UNCHANGED result
  <2>1. err' # "error" /\ (err' = "done" => decoded' = chunk.audio)
    BY <1>1, <1>2, <1>3, <1>7 DEF Sound!ToDecode, Fixed
  <2>2. HeaderRead'
    BY <1>2, <1>3, ChunkStays DEF HeaderRead
  <2>3. Opened'
    BY <1>2, <1>7, <2>1, <2>2 DEF Opened
  <2>4. AtFormat'
    BY <1>2, <1>3, ChunkStays DEF AtFormat
  <2>5. Phases'
    BY <1>7, <2>3, <2>4
    DEF Phases, AtStart, InHeader, AtOpen, Skipping, Decoding, Returned, Cached, Thrown
  <2>6. QED
    BY <1>4, <2>5 DEF SoundInv
<1>8. QED
  BY <1>5, <1>6, <1>7 DEF Sound!Open

LEMMA CheckFormatStep ==
  ASSUME SoundInv, Sound!CheckFormat
  PROVE  SoundInv'
<1>1. SoundTypes /\ Placed /\ Phases /\ Fixed
  BY InvFacts
<1>2. /\ chunk' = chunk /\ out' = out /\ outPos' = outPos /\ inPos' = inPos /\ decoded' = decoded
      /\ err' = err /\ bytesToRead' = bytesToRead /\ handle' = handle
  BY DEF Sound!CheckFormat, Sound!ReturnOf
<1>3. Len(out) = FieldCount /\ decoded = 0 /\ Opened /\ pc = "format"
  BY <1>1 DEF Phases, AtFormat, Sound!CheckFormat
<1>4. /\ HeaderRead /\ handle = "open" /\ err # "error"
      /\ bytesToRead = chunk.uncompressedLen - outPos
      /\ err = "done" => decoded = chunk.audio
  BY <1>3 DEF Opened
<1>5. bytesToSkip' \in {bytesToSkip, Garbage}
  BY DEF Sound!CheckFormat, Garbage, Sound!Garbage
<1>6. SoundTypes' /\ Placed'
  <2>1. bytesToSkip' \in Int
    BY <1>1, <1>5 DEF SoundTypes, Fixed
  <2>2. QED
    BY <1>1, <1>2, <2>1, PlacedStays DEF SoundTypes
<1>7. CASE Sound!FormatDiffers
  <2>1. pc' = "returned" /\ result' = -1
    BY <1>7 DEF Sound!CheckFormat, Sound!ReturnOf
  <2>2. Refused'
    BY <1>2, <1>7, ChunkStays DEF Refused, OpenForAReason
  <2>3. Phases'
    BY <2>1, <2>2
    DEF Phases, AtStart, InHeader, AtOpen, Opened, AtFormat, Skipping,
     Decoding, Returned, Cached, Thrown
  <2>4. QED
    BY <1>6, <2>3 DEF SoundInv
<1>8. CASE ~Sound!FormatDiffers
  <2>1. pc' = "skip" /\ bytesToSkip' = Garbage
    BY <1>8 DEF Sound!CheckFormat, Garbage, Sound!Garbage
  <2>2. HeaderRead'
    BY <1>2, <1>4, ChunkStays DEF HeaderRead
  <2>3. Opened'
    BY <1>2, <1>4, <2>2 DEF Opened
  <2>4. Skipping'
    <3>1. Garbage = Garbage - 0 /\ 0 <= Garbage /\ 0 \in {0, Garbage}
      BY <1>1 DEF Fixed
    <3>2. QED
      BY <1>2, <1>3, <1>8, <2>1, <3>1, ChunkStays DEF Skipping
  <2>5. Phases'
    BY <2>1, <2>3, <2>4
    DEF Phases, AtStart, InHeader, AtOpen, AtFormat, Decoding, Returned, Cached, Thrown
  <2>6. QED
    BY <1>6, <2>5 DEF SoundInv
<1>9. QED
  BY <1>7, <1>8

(* What one call of mpg123_read may do.                                     *)
LEMMA Delivered ==
  ASSUME Fixed, SoundTypes, NEW asked \in Nat, NEW e, NEW done \in Nat, Sound!Deliver(asked, e, done)
  PROVE  /\ done <= asked /\ decoded + done \in 0 .. chunk.audio
         /\ e \in {"ok", "done", "error"} /\ (e = "done" => decoded + done = chunk.audio)
         /\ (e = "ok" => chunk.short \/ done = asked)
<1>1. decoded \in Nat /\ decoded <= chunk.audio /\ chunk.audio \in Nat
  BY DEF SoundTypes, Fixed
<1>2. CASE /\ Sound!ToDecode > 0 /\ e = "ok"
           /\ done \in 1 .. (IF asked < Sound!ToDecode THEN asked ELSE Sound!ToDecode)
           /\ chunk.short \/ done = asked
  <2>1. done <= asked /\ done <= chunk.audio - decoded
    BY <1>1, <1>2 DEF Sound!ToDecode
  <2>2. QED
    BY <1>1, <1>2, <2>1
<1>3. CASE e = "done" /\ done = Sound!ToDecode /\ done <= asked
  BY <1>1, <1>3 DEF Sound!ToDecode
<1>4. CASE e = "error" /\ done = 0
  BY <1>1, <1>4
<1>5. QED
  BY <1>2, <1>3, <1>4 DEF Sound!Deliver

LEMMA SkipStep ==
  ASSUME SoundInv, Sound!Skip
  PROVE  SoundInv'
<1>1. SoundTypes /\ Placed /\ Phases /\ Fixed
  BY InvFacts
<1>2. /\ chunk' = chunk /\ out' = out /\ outPos' = outPos /\ inPos' = inPos
      /\ bytesToRead' = bytesToRead
  BY DEF Sound!Skip
<1>3. Opened /\ Skipping /\ pc = "skip"
  BY <1>1 DEF Phases, Sound!Skip
<1>4. /\ HeaderRead /\ handle = "open" /\ err # "error"
      /\ bytesToRead = chunk.uncompressedLen - outPos
      /\ err = "done" => decoded = chunk.audio
  BY <1>3 DEF Opened
<1>5. /\ Len(out) = FieldCount /\ ~Sound!FormatDiffers /\ bytesToSkip = Garbage - decoded
      /\ ~chunk.short => decoded <= Garbage /\ (decoded \in {0, Garbage} \/ err = "done")
  BY <1>3 DEF Skipping
<1>6. HeaderRead' /\ Placed'
  BY <1>1, <1>2, <1>4, ChunkStays, PlacedStays DEF HeaderRead
<1>7. decoded \in Nat /\ Garbage \in Nat
  BY <1>1 DEF SoundTypes, Fixed
<1>8. CASE Sound!SkipGoesOn
  <2>1. bytesToSkip # 0 /\ err # "done"
    BY <1>8 DEF Sound!SkipGoesOn
  <2>2. PICK done \in 0 .. chunk.audio :
          /\ Sound!Deliver(Sound!Garbage, err', done)
          /\ decoded' = decoded + done
          /\ IF err' = "error" THEN Sound!ReturnOf(-1, "released") /\ UNCHANGED bytesToSkip
             ELSE bytesToSkip' = bytesToSkip - done /\ UNCHANGED <<pc, result, handle>>
    BY <1>8 DEF Sound!Skip, Sound!StillToSkip
  <2>3. PICK e : e = err'
    OBVIOUS
  <2>4. PICK asked \in Nat : asked = Garbage
    BY <1>7
  <2>5. Sound!Deliver(asked, e, done) /\ done \in Nat
    BY <1>1, <2>2, <2>3, <2>4 DEF Garbage, Fixed
  <2>6. /\ done <= Garbage /\ decoded + done \in 0 .. chunk.audio
        /\ err' \in {"ok", "done", "error"} /\ (err' = "done" => decoded + done = chunk.audio)
        /\ (err' = "ok" => chunk.short \/ done = Garbage)
    BY <1>1, <2>3, <2>4, <2>5, Delivered
  <2>7. SoundTypes'
    <3>1. bytesToSkip' \in Int
      BY <1>1, <2>2, <2>5 DEF SoundTypes
    <3>2. QED
      BY <1>1, <1>2, <2>2, <2>6, <3>1 DEF SoundTypes
  <2>8. CASE err' = "error"
    <3>1. pc' = "returned" /\ result' = -1 /\ handle' = "released"
      BY <2>2, <2>8 DEF Sound!ReturnOf
    <3>2. Refused'
      BY <2>8, <3>1 DEF Refused, OpenForAReason
    <3>3. Phases'
      BY <3>1, <3>2
      DEF Phases, AtStart, InHeader, AtOpen, Opened, AtFormat, Skipping,
     Decoding, Returned, Cached, Thrown
    <3>4. QED
      BY <1>6, <2>7, <3>3 DEF SoundInv
  <2>9. CASE err' # "error"
    <3>1. pc' = "skip" /\ handle' = "open" /\ bytesToSkip' = bytesToSkip - done
      BY <1>3, <1>4, <2>2, <2>9
    <3>2. Opened'
      BY <1>2, <1>4, <1>6, <2>2, <2>6, <2>9, <3>1 DEF Opened
    <3>3. bytesToSkip' = Garbage - decoded'
      BY <1>5, <1>7, <2>2, <2>5, <3>1
    <3>4. ~chunk.short => decoded' <= Garbage /\ (decoded' \in {0, Garbage} \/ err' = "done")
      <4>1. SUFFICES ASSUME ~chunk.short
                     PROVE  decoded' <= Garbage /\ (decoded' \in {0, Garbage} \/ err' = "done")
        OBVIOUS
      <4>2. decoded = 0
        BY <1>5, <1>7, <2>1, <4>1
      <4>3. decoded' = done
        BY <2>2, <2>5, <4>2
      <4>4. QED
        BY <2>6, <2>9, <4>1, <4>3
    <3>5. Skipping'
      BY <1>2, <1>5, <3>3, <3>4, ChunkStays DEF Skipping
    <3>6. Phases'
      BY <3>1, <3>2, <3>5
      DEF Phases, AtStart, InHeader, AtOpen, AtFormat, Decoding, Returned, Cached, Thrown
    <3>7. QED
      BY <1>6, <2>7, <3>6 DEF SoundInv
  <2>10. QED
    BY <2>8, <2>9
<1>9. CASE ~Sound!SkipGoesOn
  <2>1. /\ pc' = "decode" /\ err' = err /\ bytesToSkip' = bytesToSkip /\ decoded' = decoded
        /\ handle' = handle
    BY <1>9 DEF Sound!Skip
  <2>2. SoundTypes'
    BY <1>1, <1>2, <2>1 DEF SoundTypes
  <2>3. Opened'
    BY <1>2, <1>4, <1>6, <2>1 DEF Opened
  <2>4. outPos = HeaderSize /\ HeaderSize \in Nat
    BY <1>1, <1>5, AtTheNextField DEF Fixed
  <2>5. Started
    <3>1. bytesToSkip = 0 \/ err = "done"
      BY <1>9 DEF Sound!SkipGoesOn
    <3>2. CASE bytesToSkip = 0
      <4>1. decoded = Garbage + (outPos - HeaderSize)
        BY <1>5, <1>7, <2>4, <3>2
      <4>2. QED
        BY <1>4, <4>1 DEF Started
    <3>3. CASE err = "done"
      BY <1>4, <1>5, <2>4, <3>3 DEF Started
    <3>4. QED
      BY <3>1, <3>2, <3>3
  <2>6. Decoding'
    BY <1>2, <1>5, <2>1, <2>5, ChunkStays DEF Decoding, Started
  <2>7. Phases'
    BY <2>1, <2>3, <2>6
    DEF Phases, AtStart, InHeader, AtOpen, AtFormat, Skipping, Returned, Cached, Thrown
  <2>8. QED
    BY <1>6, <2>2, <2>7 DEF SoundInv
<1>10. QED
  BY <1>8, <1>9

LEMMA DecodeStep ==
  ASSUME SoundInv, Sound!Decode
  PROVE  SoundInv'
<1>1. SoundTypes /\ Placed /\ Phases /\ Fixed
  BY InvFacts
<1>2. chunk' = chunk /\ inPos' = inPos /\ bytesToSkip' = bytesToSkip
  BY DEF Sound!Decode
<1>3. Opened /\ Decoding /\ pc = "decode"
  BY <1>1 DEF Phases, Sound!Decode
<1>4. /\ HeaderRead /\ handle = "open" /\ err # "error"
      /\ bytesToRead = chunk.uncompressedLen - outPos
  BY <1>3 DEF Opened
<1>5. Started /\ ~Sound!FormatDiffers
  BY <1>3 DEF Decoding
<1>6. /\ decoded \in Nat /\ bytesToRead \in Nat /\ outPos \in Nat /\ HeaderSize \in Nat
      /\ Garbage \in Nat /\ chunk.uncompressedLen \in Nat /\ FieldCount \in Nat /\ Len(out) \in Nat
  BY <1>1, OutFacts DEF SoundTypes, Fixed
<1>7. CASE bytesToRead # 0 /\ err # "done"
  <2>1. PICK done \in 0 .. chunk.audio :
          /\ Sound!Deliver(bytesToRead, err', done)
          /\ out' = IF done = 0 THEN out ELSE Append(out, Sound!Run("pcm", decoded, done))
          /\ outPos' = outPos + done
          /\ decoded' = decoded + done
          /\ IF err' = "error" THEN Sound!ReturnOf(-1, "released") /\ UNCHANGED bytesToRead
             ELSE bytesToRead' = bytesToRead - done /\ UNCHANGED <<pc, result, handle>>
    BY <1>7 DEF Sound!Decode, Sound!StillToRead
  <2>2. PICK e : e = err'
    OBVIOUS
  <2>3. PICK asked \in Nat : asked = bytesToRead
    BY <1>6
  <2>4. Sound!Deliver(asked, e, done) /\ done \in Nat
    BY <1>1, <2>1, <2>2, <2>3 DEF Fixed
  <2>5. /\ done <= bytesToRead /\ decoded + done \in 0 .. chunk.audio
        /\ err' \in {"ok", "done", "error"} /\ (err' = "done" => decoded + done = chunk.audio)
    BY <1>1, <2>2, <2>3, <2>4, Delivered
  <2>6. decoded = Garbage + (outPos - HeaderSize)
    BY <1>5, <1>7 DEF Started
  <2>7. outPos' \in 0 .. chunk.uncompressedLen /\ outPos' >= outPos /\ HeaderSize <= outPos
    BY <1>4, <1>6, <2>1, <2>4, <2>5 DEF HeaderRead
  <2>8. out' \in Seq(Runs) /\ Len(out') >= Len(out) /\ Len(out') \in Nat /\ Placed'
    <3>1. CASE done = 0
      <4>1. out' = out /\ outPos' = outPos
        BY <1>6, <2>1, <3>1
      <4>2. QED
        BY <1>1, <1>2, <1>6, <4>1, PlacedStays DEF SoundTypes
    <3>2. CASE done # 0
      <4>1. PICK r : r = Sound!Run("pcm", decoded, done)
        OBVIOUS
      <4>2. out' = Append(out, r)
        BY <2>1, <3>2, <4>1
      <4>3. r.of = "pcm" /\ r.from = decoded /\ r.at = outPos /\ r.len = done /\ r \in Runs
        BY <1>6, <2>4, <3>2, <4>1 DEF Sound!Run, Runs, Width
      <4>4. Len(out) >= FieldCount /\ ~(Len(out) < FieldCount)
        BY <1>4, <1>6 DEF HeaderRead
      <4>5. r.at >= HeaderSize /\ r.from = Garbage + (r.at - HeaderSize)
        BY <1>6, <2>6, <2>7, <4>3
      <4>6. Placed'
        <5>1. r.at = outPos /\ outPos' = outPos + r.len
          BY <2>1, <4>3
        <5>2. QED
          BY <1>1, <1>2, <1>5, <4>2, <4>3, <4>4, <4>5, <5>1, AppendPlaced
      <4>7. out' \in Seq(Runs) /\ Len(out') = Len(out) + 1
        BY <1>1, <4>2, <4>3 DEF SoundTypes
      <4>8. QED
        BY <1>6, <4>6, <4>7
    <3>3. QED
      BY <3>1, <3>2
  <2>9. SoundTypes'
    <3>1. bytesToRead' \in Nat
      BY <1>6, <2>1, <2>4, <2>5
    <3>2. QED
      BY <1>1, <1>2, <2>1, <2>5, <2>7, <2>8, <3>1 DEF SoundTypes
  <2>10. HeaderRead'
    <3>1. outPos' \in Nat
      BY <2>7
    <3>2. QED
      BY <1>1, <1>2, <1>4, <2>7, <2>8, <3>1, HeaderReadStays
  <2>11. CASE err' = "error"
    <3>1. pc' = "returned" /\ result' = -1 /\ handle' = "released"
      BY <2>1, <2>11 DEF Sound!ReturnOf
    <3>2. Refused'
      BY <2>11, <3>1 DEF Refused, OpenForAReason
    <3>3. Phases'
      BY <3>1, <3>2
      DEF Phases, AtStart, InHeader, AtOpen, Opened, AtFormat, Skipping,
     Decoding, Returned, Cached, Thrown
    <3>4. QED
      BY <2>8, <2>9, <3>3 DEF SoundInv
  <2>12. CASE err' # "error"
    <3>1. pc' = "decode" /\ handle' = "open" /\ bytesToRead' = bytesToRead - done
      BY <1>3, <1>4, <2>1, <2>12
    <3>2. bytesToRead' = chunk.uncompressedLen - outPos'
      BY <1>4, <1>6, <2>1, <2>4, <3>1
    <3>3. decoded' = Garbage + (outPos' - HeaderSize)
      BY <1>6, <2>1, <2>4, <2>6
    <3>4. err' = "done" => decoded' = chunk.audio
      BY <2>1, <2>5
    <3>5. Started'
      BY <1>2, <3>3, <3>4, ChunkStays DEF Started
    <3>6. Opened'
      BY <1>2, <2>10, <2>12, <3>1, <3>2, <3>4 DEF Opened
    <3>7. Decoding'
      BY <1>2, <1>5, <3>5, ChunkStays DEF Decoding
    <3>8. Phases'
      BY <3>1, <3>6, <3>7
      DEF Phases, AtStart, InHeader, AtOpen, AtFormat, Skipping, Returned, Cached, Thrown
    <3>9. QED
      BY <2>8, <2>9, <3>8 DEF SoundInv
  <2>13. QED
    BY <2>11, <2>12
<1>8. CASE ~(bytesToRead # 0 /\ err # "done")
  <2>1. /\ pc' = "returned" /\ result' = chunk.uncompressedLen /\ handle' = "released"
        /\ out' = out /\ outPos' = outPos /\ err' = err /\ bytesToRead' = bytesToRead
        /\ decoded' = decoded
    BY <1>8 DEF Sound!Decode, Sound!ReturnOf
  <2>2. SoundTypes' /\ Placed'
    BY <1>1, <1>2, <2>1, PlacedStays DEF SoundTypes
  <2>3. outPos = chunk.uncompressedLen \/ err = "done"
    BY <1>4, <1>6, <1>8
  <2>4. Taken'
    BY <1>2, <1>4, <1>5, <2>1, <2>3, ChunkStays DEF Taken, HeaderRead, Started
  <2>5. Phases'
    <3>1. Returned'
      BY <1>2, <2>1, <2>4 DEF Returned
    <3>2. QED
      BY <2>1, <3>1
      DEF Phases, AtStart, InHeader, AtOpen, Opened, AtFormat, Skipping, Decoding, Cached, Thrown
  <2>6. QED
    BY <2>2, <2>5 DEF SoundInv
<1>9. QED
  BY <1>7, <1>8

LEMMA GetChunkDataStep ==
  ASSUME SoundInv, Sound!GetChunkData
  PROVE  SoundInv'
<1>1. SoundTypes /\ Placed /\ Phases /\ Fixed
  BY InvFacts
<1>2. /\ chunk' = chunk /\ out' = out /\ outPos' = outPos /\ inPos' = inPos /\ err' = err
      /\ decoded' = decoded /\ bytesToSkip' = bytesToSkip /\ bytesToRead' = bytesToRead
      /\ handle' = handle
  BY DEF Sound!GetChunkData
<1>3. SoundTypes' /\ Placed'
  BY <1>1, <1>2, PlacedStays DEF SoundTypes
<1>4. Returned /\ pc = "returned"
  BY <1>1 DEF Phases, Sound!GetChunkData
<1>5. pc' = IF result # -1 /\ result = chunk.uncompressedLen THEN "cached" ELSE "thrown"
  BY DEF Sound!GetChunkData, Sound!ResultIsTaken
<1>6. /\ (Taken' <=> Taken)
      /\ (Refused' <=> Refused)
      /\ (OpenForAReason' <=> OpenForAReason)
  BY <1>2, ChunkStays DEF Taken, HeaderRead, Started, Refused, OpenForAReason
<1>7. chunk.uncompressedLen \in Nat
  BY <1>1 DEF Fixed
<1>8. Cached'
  <2>1. SUFFICES ASSUME pc' = "cached"
                 PROVE  \/ chunk.size = 0 /\ chunk.uncompressedLen = 0 /\ handle = "none"
                        \/ Taken
    BY <1>2, <1>6 DEF Cached
  <2>2. QED
    BY <1>4, <1>5, <2>1 DEF Returned
<1>9. Thrown'
  <2>1. SUFFICES ASSUME pc' = "thrown"
                 PROVE  OpenForAReason /\ (chunk.size = 0 \/ Refused)
    BY <1>2, <1>6 DEF Thrown
  <2>2. ~Taken \/ result # chunk.uncompressedLen
    BY <1>5, <1>7, <2>1
  <2>3. QED
    BY <1>4, <2>2 DEF Returned, Refused, OpenForAReason
<1>10. Phases'
  <2>1. pc' \in {"cached", "thrown"}
    BY <1>5
  <2>2. QED
    BY <1>8, <1>9, <2>1
    DEF Phases, AtStart, InHeader, AtOpen, Opened, AtFormat, Skipping, Decoding, Returned
<1>11. QED
  BY <1>3, <1>10 DEF SoundInv

LEMMA InitInv == Init => Inv
<1>1. SUFFICES ASSUME Sound!Init
               PROVE  SoundInv
  BY DEF Init, Inv
<1>2. /\ chunk \in Sounds /\ pc = "start" /\ inPos = 0 /\ out = <<>> /\ outPos = 0
      /\ err = "ok" /\ handle = "none" /\ bytesToSkip = 0 /\ bytesToRead = 0 /\ decoded = 0
  BY <1>1 DEF Sound!Init
<1>3. Fixed
  BY <1>2, FixedHolds
<1>4. SoundTypes
  BY <1>2, <1>3 DEF SoundTypes, Fixed
<1>5. Placed
  <2>1. Len(out) = 0 /\ DOMAIN out = {} /\ ~(Len(out) > FieldCount)
    BY <1>2, <1>3 DEF Fixed
  <2>2. Sound!NoGaps
    BY <1>2, <2>1 DEF Sound!NoGaps, Sound!End
  <2>3. QED
    BY <2>1, <2>2 DEF Placed
<1>6. Phases
  BY <1>2
  DEF Phases, AtStart, InHeader, AtOpen, Opened, AtFormat, Skipping,
     Decoding, Returned, Cached, Thrown
<1>7. QED
  BY <1>4, <1>5, <1>6 DEF SoundInv

LEMMA SoundUnchanged ==
  ASSUME SoundInv, UNCHANGED <<chunk, ofSound>>
  PROVE  SoundInv'
<1>1. SoundTypes /\ Placed /\ Phases
  BY InvFacts
<1>2. /\ chunk' = chunk /\ pc' = pc /\ inPos' = inPos /\ out' = out /\ outPos' = outPos
      /\ err' = err /\ handle' = handle /\ bytesToSkip' = bytesToSkip
      /\ bytesToRead' = bytesToRead /\ decoded' = decoded /\ result' = result
  BY DEF ofSound
<1>3. SoundTypes' /\ Placed'
  BY <1>1, <1>2, PlacedStays DEF SoundTypes
<1>4. /\ (HeaderRead' <=> HeaderRead)
      /\ (Started' <=> Started)
      /\ (Taken' <=> Taken)
      /\ (Refused' <=> Refused)
      /\ (OpenForAReason' <=> OpenForAReason)
  BY <1>2, ChunkStays DEF HeaderRead, Started, Taken, Refused, OpenForAReason
<1>5. AtStart' /\ InHeader' /\ AtOpen' /\ Opened' /\ AtFormat'
  BY <1>1, <1>2, <1>4, ChunkStays DEF Phases, AtStart, InHeader, AtOpen, Opened, AtFormat
<1>6. Skipping' /\ Decoding' /\ Returned' /\ Cached' /\ Thrown'
  BY <1>1, <1>2, <1>4, ChunkStays DEF Phases, Skipping, Decoding, Returned, Cached, Thrown
<1>7. QED
  BY <1>3, <1>5, <1>6 DEF SoundInv, Phases

LEMMA NextInv == Inv /\ [Next]_vars => Inv'
<1>1. SUFFICES ASSUME Inv, [Next]_vars, kind' = "sound"
               PROVE  SoundInv'
  BY DEF Inv
<1>2. kind = "sound" /\ SoundInv
  BY <1>1 DEF Inv, Next, vars, MemberStep, ConfigStep, ScriptStep, SoundStep, ObjectStep
<1>3. CASE SoundStep
  <2>1. Sound!Next
    BY <1>3 DEF SoundStep
  <2>2. QED
    BY <1>2, <2>1, StartStep, CopyFieldStep, AfterHeaderStep, OpenStep, CheckFormatStep, SkipStep,
       DecodeStep, GetChunkDataStep DEF Sound!Next
<1>4. CASE MemberStep \/ ConfigStep \/ ScriptStep \/ ObjectStep
  BY <1>2, <1>4 DEF MemberStep, ConfigStep, ScriptStep, ObjectStep
<1>5. CASE UNCHANGED vars
  BY <1>2, <1>5, SoundUnchanged DEF vars
<1>6. QED
  BY <1>1, <1>3, <1>4, <1>5 DEF Next
-----------------------------------------------------------------------------
(***************************************************************************)
(* What follows from it.                                                    *)
(***************************************************************************)
LEMMA FieldRunEnds ==
  ASSUME Fixed, SoundTypes, Placed, NEW k \in DOMAIN out
  PROVE  IF k <= FieldCount THEN out[k].at < HeaderSize /\ Sound!End(k) <= HeaderSize
         ELSE out[k].at >= HeaderSize
<1>1. k \in 1 .. Len(out) /\ Len(out) \in Nat /\ FieldCount \in Nat
  BY OutFacts DEF Fixed
<1>2. CASE k <= FieldCount
  <2>1. k \in 1 .. FieldCount /\ k \in 0 .. FieldCount /\ k - 1 \in 0 .. FieldCount
    BY <1>1, <1>2
  <2>2. out[k].at = Offset[k - 1] /\ out[k].len = Sound!Fields[k]
    BY <1>2 DEF Placed, FieldRun
  <2>3. /\ Sound!Fields[k] \in Width /\ Offset[k] = Offset[k - 1] + Sound!Fields[k]
        /\ Offset[k] <= HeaderSize /\ Offset[k - 1] \in Nat
    BY <2>1, OffsetFacts
  <2>4. Sound!End(k) = Offset[k]
    BY <1>1, <2>2, <2>3 DEF Sound!End
  <2>5. out[k].at < HeaderSize
    BY <2>2, <2>3 DEF Width, Fixed
  <2>6. QED
    BY <1>2, <2>3, <2>4, <2>5
<1>3. CASE ~(k <= FieldCount)
  BY <1>3 DEF Placed, SoundRun
<1>4. QED
  BY <1>2, <1>3

LEMMA HeaderHolds ==
  ASSUME SoundInv
  PROVE  Sound!HeaderIsKept
<1>1. SoundTypes /\ Placed /\ Phases /\ Fixed
  BY InvFacts
<1>2. SUFFICES ASSUME pc = "cached", chunk.size > 0
               PROVE  /\ HeaderSize <= chunk.size /\ HeaderSize <= outPos /\ Sound!NoGaps
                      /\ \A k \in DOMAIN out :
                           IF out[k].at < HeaderSize
                           THEN out[k].of = "in" /\ out[k].from = out[k].at /\ Sound!End(k) <= HeaderSize
                           ELSE out[k].of = "pcm"
  BY DEF Sound!HeaderIsKept, HeaderSize
<1>3. Taken
  BY <1>1, <1>2 DEF Phases, Cached, Fixed
<1>4. HeaderSize <= outPos /\ HeaderSize + 4 <= chunk.size
  BY <1>3 DEF Taken, HeaderRead
<1>5. HeaderSize <= chunk.size
  BY <1>1, <1>4 DEF Fixed
<1>6. ASSUME NEW k \in DOMAIN out
      PROVE  IF out[k].at < HeaderSize
             THEN out[k].of = "in" /\ out[k].from = out[k].at /\ Sound!End(k) <= HeaderSize
             ELSE out[k].of = "pcm"
  <2>1. out[k] \in Runs
    BY <1>1, <1>6, OutFacts
  <2>2. out[k].at \in Nat /\ HeaderSize \in Nat
    BY <1>1, <2>1, RunFields DEF Fixed
  <2>3. IF k <= FieldCount THEN out[k].at < HeaderSize /\ Sound!End(k) <= HeaderSize
        ELSE out[k].at >= HeaderSize
    BY <1>1, FieldRunEnds
  <2>4. IF k <= FieldCount THEN FieldRun(k) ELSE SoundRun(k)
    BY <1>1 DEF Placed
  <2>5. QED
    BY <2>2, <2>3, <2>4 DEF FieldRun, SoundRun
<1>7. Sound!NoGaps
  BY <1>1 DEF Placed
<1>8. QED
  BY <1>4, <1>5, <1>6, <1>7

(* What is skipped is counted as the first sample is.                        *)
LEMMA FirstIsBehindGarbage ==
  ASSUME SoundTypes, ~Sound!FormatDiffers, Sound!SampleSize \in {8, 16}
  PROVE  Sound!FirstSample = Garbage
<1>1. chunk.found.channels \in {1, 2} /\ chunk.skip \in Nat
  BY ChunkFields DEF SoundTypes
<1>2. Sound!NumChannels \in {1, 2}
  BY <1>1 DEF Sound!FormatDiffers
<1>3. 8 \div 8 = 1 /\ 16 \div 8 = 2
  OBVIOUS
<1>4. QED
  BY <1>1, <1>2, <1>3 DEF Sound!FirstSample, Garbage, Sound!Garbage, Sound!SamplesToBytes

LEMMA NothingTooEarly ==
  ASSUME SoundInv
  PROVE  Sound!NeverTooEarly
<1>1. SoundTypes /\ Placed /\ Phases /\ Fixed
  BY InvFacts
<1>2. SUFFICES ASSUME Sound!SampleSize \in {8, 16}, NEW k \in DOMAIN out, out[k].of = "pcm"
               PROVE  out[k].from = Sound!FirstSample + (out[k].at - HeaderSize)
  BY DEF Sound!NeverTooEarly, HeaderSize
<1>3. ~(k <= FieldCount) /\ SoundRun(k)
  BY <1>1, <1>2 DEF Placed, FieldRun
<1>4. Len(out) > FieldCount
  BY <1>1, <1>3, OutFacts DEF Fixed
<1>5. Sound!FirstSample = Garbage
  BY <1>1, <1>2, <1>4, FirstIsBehindGarbage DEF Placed
<1>6. QED
  BY <1>3, <1>5 DEF SoundRun

LEMMA WholeSound ==
  ASSUME SoundInv
  PROVE  Sound!SoundIsWhole
<1>1. SoundTypes /\ Placed /\ Phases /\ Fixed
  BY InvFacts
<1> DEFINE space == chunk.uncompressedLen - HeaderSize
           rest == IF Garbage < chunk.audio THEN chunk.audio - Garbage ELSE 0
<1>2. ASSUME pc = "cached", chunk.size > 0, ~chunk.short, Sound!SampleSize \in {8, 16}
      PROVE  Sound!FirstSample = Garbage /\ outPos = HeaderSize + (IF space < rest THEN space ELSE rest)
  <2>1. Taken
    BY <1>1, <1>2 DEF Phases, Cached, Fixed
  <2>2. Sound!FirstSample = Garbage
    BY <1>1, <1>2, <2>1, FirstIsBehindGarbage DEF Taken
  <2>3. /\ decoded \in Nat /\ decoded <= chunk.audio /\ outPos \in Nat /\ HeaderSize \in Nat
        /\ outPos <= chunk.uncompressedLen /\ Garbage \in Nat /\ chunk.audio \in Nat
        /\ chunk.uncompressedLen \in Nat /\ HeaderSize <= outPos
    BY <1>1, <2>1 DEF SoundTypes, Fixed, Taken, HeaderRead
  <2>4. /\ err = "done" => decoded = chunk.audio
        /\ \/ decoded = Garbage + (outPos - HeaderSize)
           \/ err = "done" /\ outPos = HeaderSize /\ decoded <= Garbage
        /\ outPos = chunk.uncompressedLen \/ err = "done"
    BY <1>2, <2>1 DEF Taken, Started
  <2>5. QED
    BY <2>2, <2>3, <2>4
<1>3. QED
  BY <1>2 DEF Sound!SoundIsWhole, HeaderSize

LEMMA ReasonsHold ==
  ASSUME SoundInv
  PROVE  Sound!TakenOrRefusedForAReason
<1>1. SoundTypes /\ Placed /\ Phases /\ Fixed
  BY InvFacts
<1>2. ASSUME pc = "cached"
      PROVE  /\ \/ chunk.size = 0 /\ chunk.uncompressedLen = 0
                \/ /\ handle = "released" /\ err # "error"
                   /\ ~Sound!FormatDiffers /\ chunk.encode # "unknown"
                   /\ HeaderSize + 4 <= chunk.size /\ HeaderSize <= chunk.uncompressedLen
             /\ handle = "open" => Sound!FormatDiffers
  <2>1. (chunk.size = 0 /\ chunk.uncompressedLen = 0 /\ handle = "none") \/ Taken
    BY <1>1, <1>2 DEF Phases, Cached
  <2>2. Taken => HeaderSize <= chunk.uncompressedLen
    BY <1>1 DEF Taken, HeaderRead, SoundTypes, Fixed
  <2>3. QED
    BY <1>1, <1>2, <2>1, <2>2 DEF Taken, HeaderRead, Phases, Cached
<1>3. ASSUME pc = "thrown"
      PROVE  /\ \/ chunk.size = 0
                \/ chunk.size < HeaderSize + 4 \/ chunk.uncompressedLen < HeaderSize
                \/ chunk.encode = "unknown" \/ Sound!FormatDiffers \/ err = "error" \/ handle = "none"
             /\ handle = "open" => Sound!FormatDiffers
  BY <1>1, <1>3 DEF Phases, Thrown, Refused, OpenForAReason
<1>4. QED
  BY <1>2, <1>3 DEF Sound!TakenOrRefusedForAReason, HeaderSize

(* Whatever the header announces, however libmpg123 cuts the sound and       *)
(* wherever an error or the end comes: a sound that is taken is its header   *)
(* and then the samples from the first one that is not to be skipped, as     *)
(* many as there are or as fit, and it is taken or refused for a reason      *)
(* (decompressSnd, decodeMP3, getChunkData).                                *)
THEOREM SoundsKept == Spec => []SoundsAreKept
<1>1. Inv => SoundsAreKept
  BY HeaderHolds, NothingTooEarly, WholeSound, ReasonsHold DEF Inv, SoundsAreKept
<1>2. QED
  BY <1>1, InitInv, NextInv, PTL DEF Spec
=============================================================================

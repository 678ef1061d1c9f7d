--------------------------- MODULE JsonCallsProofs ---------------------------
(***************************************************************************)
(* Proof that the counters of the code writer are true and that a dump      *)
(* reads back as the calls that wrote it, for any strings and any nesting.  *)
(***************************************************************************)
EXTENDS JsonCalls, NumberLemmas, SequenceTheorems

Byte == 0 .. 255
Symbol == {Char(code) : code \in Byte} \cup {<<"word", "null">>}

(***************************************************************************)
(* Texts, character by character.                                           *)
(***************************************************************************)
LEMMA AppendShape ==
  ASSUME NEW S, NEW s \in Seq(S), NEW x \in S
  PROVE  /\ Append(s, x) \in Seq(S) /\ Len(Append(s, x)) = Len(s) + 1
         /\ Append(s, x)[Len(s) + 1] = x
         /\ \A k \in 1 .. Len(s) : Append(s, x)[k] = s[k]
OBVIOUS

LEMMA ConcatShape ==
  ASSUME NEW S, NEW s \in Seq(S), NEW t \in Seq(S)
  PROVE  /\ s \o t \in Seq(S) /\ Len(s \o t) = Len(s) + Len(t)
         /\ \A k \in 1 .. Len(s) : (s \o t)[k] = s[k]
         /\ \A k \in 1 .. Len(t) : (s \o t)[Len(s) + k] = t[k]
OBVIOUS

LEMMA SameSeq ==
  ASSUME NEW S, NEW s \in Seq(S), NEW t \in Seq(S), Len(s) = Len(t),
         \A k \in 1 .. Len(s) : s[k] = t[k]
  PROVE  s = t
OBVIOUS

LEMMA AppendConcat ==
  ASSUME NEW S, NEW s \in Seq(S), NEW t \in Seq(S), NEW x \in S
  PROVE  s \o Append(t, x) = Append(s \o t, x)
OBVIOUS

LEMMA ConcatOne ==
  ASSUME NEW S, NEW s \in Seq(S), NEW x \in S
  PROVE  s \o <<x>> = Append(s, x) /\ <<x>> \in Seq(S)
OBVIOUS

LEMMA ConcatNone ==
  ASSUME NEW S, NEW s \in Seq(S)
  PROVE  s \o <<>> = s /\ <<>> \o s = s
OBVIOUS

LEMMA ConcatAssociates ==
  ASSUME NEW S, NEW s \in Seq(S), NEW t \in Seq(S), NEW u \in Seq(S)
  PROVE  (s \o t) \o u = s \o (t \o u)
<1>1. /\ (s \o t) \o u \in Seq(S) /\ s \o (t \o u) \in Seq(S)
      /\ Len((s \o t) \o u) = Len(s) + Len(t) + Len(u)
      /\ Len(s \o (t \o u)) = Len(s) + Len(t) + Len(u)
  OBVIOUS
<1>2. ASSUME NEW k \in 1 .. Len(s) + Len(t) + Len(u)
      PROVE  ((s \o t) \o u)[k] = (s \o (t \o u))[k]
  OBVIOUS
<1>3. QED
  BY <1>1, <1>2, SameSeq

(* A sequence up to its first n elements.                                    *)
Upto(s, n) == SubSeq(s, 1, n)
LEMMA UptoShape ==
  ASSUME NEW S, NEW s \in Seq(S), NEW n \in 0 .. Len(s)
  PROVE  /\ Upto(s, n) \in Seq(S) /\ Len(Upto(s, n)) = n
         /\ Upto(s, 0) = <<>> /\ Upto(s, Len(s)) = s
         /\ n # 0 => s[n] \in S /\ Upto(s, n) = Append(Upto(s, n - 1), s[n])
<1>1. Upto(s, n) \in Seq(S) /\ Len(Upto(s, n)) = n /\ Upto(s, 0) = <<>>
  BY DEF Upto
<1>2. Upto(s, Len(s)) = s
  BY DEF Upto
<1>3. ASSUME n # 0
      PROVE  s[n] \in S /\ Upto(s, n) = Append(Upto(s, n - 1), s[n])
  <2>1. s[n] \in S /\ Upto(s, n - 1) \in Seq(S) /\ Len(Upto(s, n - 1)) = n - 1
    BY <1>3 DEF Upto
  <2>2. Append(Upto(s, n - 1), s[n]) \in Seq(S) /\ Len(Append(Upto(s, n - 1), s[n])) = n
    BY <2>1, AppendShape
  <2>3. ASSUME NEW k \in 1 .. n
        PROVE  Upto(s, n)[k] = Append(Upto(s, n - 1), s[n])[k]
    <3>1. Upto(s, n)[k] = s[k]
      BY DEF Upto
    <3>2. CASE k = n
      BY <2>1, <3>1, <3>2, AppendShape
    <3>3. CASE k # n
      <4>1. k \in 1 .. n - 1
        BY <3>3
      <4>2. Upto(s, n - 1)[k] = s[k]
        BY <4>1 DEF Upto
      <4>3. QED
        BY <2>1, <3>1, <4>1, <4>2, AppendShape
    <3>4. QED
      BY <3>2, <3>3
  <2>4. QED
    BY <1>1, <2>1, <2>2, <2>3, SameSeq
<1>4. QED
  BY <1>1, <1>2, <1>3
-----------------------------------------------------------------------------
(***************************************************************************)
(* The reader.  After is a recursive function of the text: it exists,       *)
(* because each value rests on the one before, and what it is after a text  *)
(* does not depend on how the text goes on.                                 *)
(***************************************************************************)
ReadStep(text, f, k) == IF k = 0 THEN Start ELSE Read(f[k - 1], text[k])
IsTrace(text, n, f) == f = [k \in 0 .. n |-> ReadStep(text, f, k)]

LEMMA TraceExists ==
  ASSUME NEW text, Len(text) \in Nat
  PROVE  \E f : IsTrace(text, Len(text), f)
<1> DEFINE Bad == {n \in 0 .. Len(text) : ~\E f : IsTrace(text, n, f)}
<1>1. Bad = {}
  <2>1. SUFFICES ASSUME Bad # {}
                 PROVE  FALSE
    OBVIOUS
  <2>2. PICK m \in Bad : \A k \in Bad : m <= k
    <3>1. Bad \subseteq Nat
      OBVIOUS
    <3>2. QED
      BY <2>1, <3>1, LeastExists
  <2>3. m \in 0 .. Len(text) /\ ~\E f : IsTrace(text, m, f)
    OBVIOUS
  <2>4. CASE m = 0
    <3>1. IsTrace(text, 0, [k \in 0 .. 0 |-> Start])
      BY DEF IsTrace, ReadStep
    <3>2. QED
      BY <2>3, <2>4, <3>1
  <2>5. CASE m # 0
    <3>1. m - 1 \in 0 .. Len(text) /\ m - 1 \notin Bad
      BY <2>2, <2>3, <2>5
    <3>2. PICK f : IsTrace(text, m - 1, f)
      BY <3>1
    <3> DEFINE g == [k \in 0 .. m |-> ReadStep(text, f, k)]
    <3>3. \A k \in 0 .. m - 1 : g[k] = f[k]
      <4>1. TAKE k \in 0 .. m - 1
      <4>2. f[k] = ReadStep(text, f, k)
        BY <3>2 DEF IsTrace
      <4>3. k \in 0 .. m
        BY <2>3
      <4>4. QED
        BY <4>2, <4>3
    <3>4. \A k \in 0 .. m : ReadStep(text, f, k) = ReadStep(text, g, k)
      <4>1. TAKE k \in 0 .. m
      <4>2. CASE k = 0
        BY <4>2 DEF ReadStep
      <4>3. CASE k # 0
        <5>1. k - 1 \in 0 .. m - 1
          BY <2>3, <4>3
        <5>2. QED
          BY <3>3, <5>1 DEF ReadStep
      <4>4. QED
        BY <4>2, <4>3
    <3>5. IsTrace(text, m, g)
      BY <3>4 DEF IsTrace
    <3>6. QED
      BY <2>3, <3>5
  <2>6. QED
    BY <2>4, <2>5
<1>2. QED
  BY <1>1

LEMMA AfterIsTrace ==
  ASSUME NEW text, Len(text) \in Nat
  PROVE  \E f : IsTrace(text, Len(text), f) /\ After(text) = f[Len(text)]
<1> DEFINE f == CHOOSE f : IsTrace(text, Len(text), f)
<1>1. IsTrace(text, Len(text), f)
  BY TraceExists
<1>2. After(text) = f[Len(text)]
  BY DEF After, IsTrace, ReadStep
<1>3. QED
  BY <1>1, <1>2

LEMMA TraceAt ==
  ASSUME NEW text, NEW n \in Nat, NEW f, IsTrace(text, n, f), NEW k \in 0 .. n
  PROVE  f[k] = ReadStep(text, f, k)
BY DEF IsTrace

LEMMA AfterNothing == After(<<>>) = Start
<1>1. Len(<<>>) = 0
  OBVIOUS
<1>2. PICK f : IsTrace(<<>>, 0, f) /\ After(<<>>) = f[0]
  BY <1>1, AfterIsTrace
<1>3. f[0] = ReadStep(<<>>, f, 0)
  BY <1>2, TraceAt
<1>4. QED
  BY <1>2, <1>3 DEF ReadStep

LEMMA AfterOne ==
  ASSUME NEW S, NEW text \in Seq(S), NEW char \in S
  PROVE  After(Append(text, char)) = Read(After(text), char)
<1> DEFINE longer == Append(text, char)
<1>0. /\ longer \in Seq(S) /\ Len(longer) = Len(text) + 1 /\ Len(text) \in Nat
      /\ longer[Len(text) + 1] = char /\ \A k \in 1 .. Len(text) : longer[k] = text[k]
  BY AppendShape
<1> HIDE DEF longer
<1>1. PICK f : IsTrace(text, Len(text), f) /\ After(text) = f[Len(text)]
  BY <1>0, AfterIsTrace
<1>2. PICK g : IsTrace(longer, Len(longer), g) /\ After(longer) = g[Len(longer)]
  BY <1>0, AfterIsTrace
<1> DEFINE Bad == {n \in 0 .. Len(text) : g[n] # f[n]}
<1>3. Bad = {}
  <2>1. SUFFICES ASSUME Bad # {}
                 PROVE  FALSE
    OBVIOUS
  <2>2. PICK m \in Bad : \A k \in Bad : m <= k
    <3>1. Bad \subseteq Nat
      BY <1>0
    <3>2. QED
      BY <2>1, <3>1, LeastExists
  <2>3. m \in 0 .. Len(text) /\ m \in 0 .. Len(longer) /\ g[m] # f[m]
    BY <1>0
  <2>4. f[m] = ReadStep(text, f, m)
    BY <1>0, <1>1, <2>3, TraceAt
  <2>5. g[m] = ReadStep(longer, g, m)
    BY <1>0, <1>2, <2>3, TraceAt
  <2>6. m # 0
    BY <2>3, <2>4, <2>5 DEF ReadStep
  <2>7. m - 1 \in 0 .. Len(text) /\ m - 1 \notin Bad /\ m \in 1 .. Len(text)
    BY <1>0, <2>2, <2>3, <2>6
  <2>8. g[m - 1] = f[m - 1] /\ longer[m] = text[m]
    BY <1>0, <2>7
  <2>9. QED
    BY <2>3, <2>4, <2>5, <2>8 DEF ReadStep
<1>4. g[Len(text)] = f[Len(text)]
  BY <1>0, <1>3
<1>5. g[Len(text) + 1] = ReadStep(longer, g, Len(text) + 1)
  BY <1>0, <1>2, TraceAt
<1>6. g[Len(text) + 1] = Read(g[Len(text)], char)
  BY <1>0, <1>5 DEF ReadStep
<1>7. QED
  BY <1>0, <1>1, <1>2, <1>4, <1>6 DEF longer
-----------------------------------------------------------------------------
(***************************************************************************)
(* A reader in the middle of a string.                                      *)
(***************************************************************************)
Reader(mode, open, escape, want, n, c, p) ==
  [mode |-> mode, open |-> open, escape |-> escape, want |-> want, nest |-> n, calls |-> c,
   unlisted |-> p]

LEMMA ReaderFields ==
  ASSUME NEW m, NEW o, NEW e, NEW w, NEW n, NEW c, NEW p, NEW x, NEW y
  PROVE  /\ Reader(m, o, e, w, n, c, p).mode = m /\ Reader(m, o, e, w, n, c, p).open = o
         /\ Reader(m, o, e, w, n, c, p).escape = e /\ Reader(m, o, e, w, n, c, p).want = w
         /\ Reader(m, o, e, w, n, c, p).nest = n /\ Reader(m, o, e, w, n, c, p).calls = c
         /\ Reader(m, o, e, w, n, c, p).unlisted = p
BY DEF Reader

LEMMA HoldingReader ==
  ASSUME NEW m, NEW o, NEW e, NEW w, NEW n, NEW c, NEW p, NEW byte
  PROVE  Holding(Reader(m, o, e, w, n, c, p), byte) = Reader(m, Append(o, byte), <<>>, w, n, c, p)
<1>1. PICK x : x = Append(o, byte)
  OBVIOUS
<1>2. PICK st : st = Reader(m, o, e, w, n, c, p)
  OBVIOUS
<1>3. st.open = o
  BY <1>2 DEF Reader
<1>4. Holding(st, byte) = [[st EXCEPT !.open = x] EXCEPT !.escape = <<>>]
  BY <1>1, <1>3 DEF Holding
<1>5. [[st EXCEPT !.open = x] EXCEPT !.escape = <<>>] = Reader(m, x, <<>>, w, n, c, p)
  <2>1. PICK st1 : st1 = [st EXCEPT !.open = x]
    OBVIOUS
  <2>2. st1 = Reader(m, x, e, w, n, c, p)
    BY <1>2, <2>1 DEF Reader
  <2>3. [st1 EXCEPT !.escape = <<>>] = Reader(m, x, <<>>, w, n, c, p)
    BY <2>2 DEF Reader
  <2>4. QED
    BY <2>1, <2>3
<1>6. QED
  BY <1>1, <1>2, <1>4, <1>5

LEMMA HoldingItselfReader ==
  ASSUME NEW m, NEW o, NEW e, NEW w, NEW n, NEW c, NEW p, NEW code
  PROVE  HoldingItself(Reader(m, o, e, w, n, c, p), code)
           = Reader(m, Append(o, code), <<>>, w, n, c, p \cup ({code} \ Listed))
<1>1. PICK st : st = Reader(m, Append(o, code), <<>>, w, n, c, p)
  OBVIOUS
<1>2. Holding(Reader(m, o, e, w, n, c, p), code) = st /\ st.unlisted = p
  BY <1>1, HoldingReader, ReaderFields
<1>3. PICK q : q = p \cup ({code} \ Listed)
  OBVIOUS
<1>4. HoldingItself(Reader(m, o, e, w, n, c, p), code) = [st EXCEPT !.unlisted = q]
  BY <1>2, <1>3 DEF HoldingItself
<1>5. [st EXCEPT !.unlisted = q] = Reader(m, Append(o, code), <<>>, w, n, c, q)
  <2>1. PICK x : x = Append(o, code)
    OBVIOUS
  <2>2. st = Reader(m, x, <<>>, w, n, c, p)
    BY <1>1, <2>1
  <2>3. [st EXCEPT !.unlisted = q] = Reader(m, x, <<>>, w, n, c, q)
    BY <2>2 DEF Reader
  <2>4. QED
    BY <2>1, <2>3
<1>6. QED
  BY <1>3, <1>4, <1>5

LEMMA EscapingReader ==
  ASSUME NEW m, NEW o, NEW e, NEW w, NEW n, NEW c, NEW p, NEW codes
  PROVE  Escaping(Reader(m, o, e, w, n, c, p), codes) = Reader(m, o, codes, w, n, c, p)
BY DEF Escaping, Reader

LEMMA CharShape ==
  ASSUME NEW code
  PROVE  Char(code)[1] = "c" /\ Char(code)[2] = code
BY DEF Char

LEMMA ReadsCode ==
  ASSUME NEW o, NEW e, NEW w, NEW n, NEW c, NEW p, NEW code
  PROVE  Read(Reader("string", o, e, w, n, c, p), Char(code))
           = ReadInString(Reader("string", o, e, w, n, c, p), code)
BY CharShape, ReaderFields DEF Read

LEMMA EscapeShapes ==
  ASSUME NEW a, NEW b, NEW d
  PROVE  /\ <<a>> # <<>> /\ <<a, b>> # <<>> /\ <<a, b, d>> # <<>>
         /\ Len(<<a>>) = 1 /\ Len(<<a, b>>) = 2 /\ Len(<<a, b, d>>) = 3 /\ <<a, b, d>>[3] = d
OBVIOUS

(* The cases of a string, for any reader.                                   *)
LEMMA InStringPlainly ==
  ASSUME NEW st, NEW code, st.escape = <<>>
  PROVE  /\ code = 34 => ReadInString(st, code) = StringEnds(st)
         /\ code # 34 /\ code = 92 => ReadInString(st, code) = Escaping(st, << 92 >>)
         /\ code # 34 /\ code # 92 => ReadInString(st, code) = HoldingItself(st, code)
BY DEF ReadInString

LEMMA InStringEscaped ==
  ASSUME NEW st, NEW code, st.escape = << 92 >>
  PROVE  /\ code = 120 => ReadInString(st, code) = Escaping(st, <<92, 120>>)
         /\ code # 120 /\ code \in DOMAIN Meaning => ReadInString(st, code) = Holding(st, Meaning[code])
BY EscapeShapes DEF ReadInString

LEMMA InStringHex ==
  ASSUME NEW st, NEW code \in HexDigits, st.escape = <<92, 120>>
  PROVE  ReadInString(st, code) = Escaping(st, <<92, 120, code>>)
BY EscapeShapes DEF ReadInString

LEMMA InStringLastHex ==
  ASSUME NEW st, NEW code \in HexDigits, NEW d, st.escape = <<92, 120, d>>
  PROVE  ReadInString(st, code) = Holding(st, 16 * HexValue(d) + HexValue(code))
<1>1. st.escape # <<>> /\ Len(st.escape) = 3 /\ st.escape[3] = d
  OBVIOUS
<1>2. ReadInString(st, code) = Holding(st, 16 * HexValue(st.escape[3]) + HexValue(code))
  BY <1>1 DEF ReadInString
<1>3. HexValue(st.escape[3]) = HexValue(d)
  BY <1>1
<1>4. QED
  BY <1>2, <1>3

LEMMA ReadsPlain ==
  ASSUME NEW o, NEW w, NEW n, NEW c, NEW p, NEW code \in Byte, code # 34, code # 92
  PROVE  Read(Reader("string", o, <<>>, w, n, c, p), Char(code))
           = Reader("string", Append(o, code), <<>>, w, n, c, p \cup ({code} \ Listed))
<1>1. PICK st : st = Reader("string", o, <<>>, w, n, c, p) /\ st.escape = <<>>
  BY ReaderFields
<1>2. ReadInString(st, code) = HoldingItself(st, code)
  BY <1>1, InStringPlainly
<1>3. QED
  BY <1>1, <1>2, ReadsCode, HoldingItselfReader

LEMMA ReadsBackslash ==
  ASSUME NEW o, NEW w, NEW n, NEW c, NEW p
  PROVE  Read(Reader("string", o, <<>>, w, n, c, p), Char(92)) = Reader("string", o, << 92 >>, w, n, c, p)
<1>1. PICK st : st = Reader("string", o, <<>>, w, n, c, p) /\ st.escape = <<>>
  BY ReaderFields
<1>2. ReadInString(st, 92) = Escaping(st, << 92 >>)
  BY <1>1, InStringPlainly
<1>3. QED
  BY <1>1, <1>2, ReadsCode, EscapingReader

LEMMA ReadsLetter ==
  ASSUME NEW o, NEW w, NEW n, NEW c, NEW p, NEW code \in DOMAIN Meaning
  PROVE  Read(Reader("string", o, << 92 >>, w, n, c, p), Char(code))
           = Reader("string", Append(o, Meaning[code]), <<>>, w, n, c, p)
<1>1. code # 120
  BY DEF Meaning
<1>2. PICK st : st = Reader("string", o, << 92 >>, w, n, c, p) /\ st.escape = << 92 >>
  BY ReaderFields
<1>3. PICK byte : byte = Meaning[code]
  OBVIOUS
<1>4. ReadInString(st, code) = Holding(st, byte)
  BY <1>1, <1>2, <1>3, InStringEscaped
<1>5. QED
  BY <1>2, <1>3, <1>4, ReadsCode, HoldingReader

LEMMA ReadsHex ==
  ASSUME NEW o, NEW w, NEW n, NEW c, NEW p
  PROVE  Read(Reader("string", o, << 92 >>, w, n, c, p), Char(120))
           = Reader("string", o, <<92, 120>>, w, n, c, p)
<1>1. PICK st : st = Reader("string", o, << 92 >>, w, n, c, p) /\ st.escape = << 92 >>
  BY ReaderFields
<1>2. ReadInString(st, 120) = Escaping(st, <<92, 120>>)
  BY <1>1, InStringEscaped
<1>3. QED
  BY <1>1, <1>2, ReadsCode, EscapingReader

LEMMA ReadsFirstDigit ==
  ASSUME NEW o, NEW w, NEW n, NEW c, NEW p, NEW code \in HexDigits
  PROVE  Read(Reader("string", o, <<92, 120>>, w, n, c, p), Char(code))
           = Reader("string", o, <<92, 120, code>>, w, n, c, p)
<1>1. PICK st : st = Reader("string", o, <<92, 120>>, w, n, c, p) /\ st.escape = <<92, 120>>
  BY ReaderFields
<1>2. ReadInString(st, code) = Escaping(st, <<92, 120, code>>)
  BY <1>1, InStringHex
<1>3. QED
  BY <1>1, <1>2, ReadsCode, EscapingReader

LEMMA ReadsSecondDigit ==
  ASSUME NEW o, NEW w, NEW n, NEW c, NEW p, NEW d, NEW code \in HexDigits
  PROVE  Read(Reader("string", o, <<92, 120, d>>, w, n, c, p), Char(code))
           = Reader("string", Append(o, 16 * HexValue(d) + HexValue(code)), <<>>, w, n, c, p)
<1>1. PICK st : st = Reader("string", o, <<92, 120, d>>, w, n, c, p) /\ st.escape = <<92, 120, d>>
  BY ReaderFields
<1>2. PICK byte : byte = 16 * HexValue(d) + HexValue(code)
  OBVIOUS
<1>3. ReadInString(st, code) = Holding(st, byte)
  <2>1. ReadInString(st, code) = Holding(st, 16 * HexValue(d) + HexValue(code))
    BY <1>1, InStringLastHex
  <2>2. QED
    BY <1>2, <2>1
<1>4. Holding(st, byte) = Reader("string", Append(o, byte), <<>>, w, n, c, p)
  BY <1>1, HoldingReader
<1>5. Read(st, Char(code)) = ReadInString(st, code)
  BY <1>1, ReadsCode
<1>6. QED
  BY <1>1, <1>2, <1>3, <1>4, <1>5

LEMMA ReadsQuote ==
  ASSUME NEW o, NEW w, NEW n, NEW c, NEW p
  PROVE  Read(Reader("string", o, <<>>, w, n, c, p), Char(34))
           = Take(Reader("between", o, <<>>, w, n, c, p), <<"string", o>>)
<1>1. PICK st : st = Reader("string", o, <<>>, w, n, c, p)
  OBVIOUS
<1>2. [st EXCEPT !.mode = "between"] = Reader("between", o, <<>>, w, n, c, p)
  BY <1>1 DEF Reader
<1>3. st.open = o
  BY <1>1 DEF Reader
<1>4. StringEnds(st) = Take(Reader("between", o, <<>>, w, n, c, p), <<"string", o>>)
  BY <1>2, <1>3 DEF StringEnds
<1>5. st.escape = <<>>
  BY <1>1 DEF Reader
<1>6. ReadInString(st, 34) = StringEnds(st)
  BY <1>5, InStringPlainly
<1>7. QED
  BY <1>1, <1>4, <1>6, ReadsCode

(***************************************************************************)
(* What escapeString makes of a byte is read as that byte.                  *)
(***************************************************************************)
LEMMA LettersMean ==
  ASSUME NEW ch \in DOMAIN LetterOf
  PROVE  /\ LetterOf[ch] \in DOMAIN Meaning /\ Meaning[LetterOf[ch]] = ch
         /\ LetterOf[ch] \in 32 .. 127
<1>1. ch \in {8, 9, 10, 11, 12, 13, 34, 92}
  BY DEF LetterOf, Quote, Backslash
<1>2. LetterOf[ch] = CASE ch = 8 -> 98 [] ch = 9 -> 116 [] ch = 10 -> 110 [] ch = 11 -> 118
                       [] ch = 12 -> 102 [] ch = 13 -> 114 [] ch \in {34, 92} -> ch
  BY DEF LetterOf, Quote, Backslash
<1>3. \/ (ch = 8 /\ LetterOf[ch] = 98) \/ (ch = 9 /\ LetterOf[ch] = 116)
      \/ (ch = 10 /\ LetterOf[ch] = 110) \/ (ch = 11 /\ LetterOf[ch] = 118)
      \/ (ch = 12 /\ LetterOf[ch] = 102) \/ (ch = 13 /\ LetterOf[ch] = 114)
      \/ (ch = 34 /\ LetterOf[ch] = 34) \/ (ch = 92 /\ LetterOf[ch] = 92)
  BY <1>1, <1>2
<1>4. /\ Meaning[98] = 8 /\ Meaning[116] = 9 /\ Meaning[110] = 10 /\ Meaning[118] = 11
      /\ Meaning[102] = 12 /\ Meaning[114] = 13 /\ Meaning[34] = 34 /\ Meaning[92] = 92
      /\ DOMAIN Meaning = {34, 92, 98, 116, 110, 118, 102, 114}
  BY DEF Meaning
<1>5. QED
  BY <1>3, <1>4

LEMMA HexMeans ==
  ASSUME NEW ch \in Byte
  PROVE  /\ 16 * HexValue(HexDigit(ch \div 16)) + HexValue(HexDigit(ch % 16)) = ch
         /\ HexDigit(ch \div 16) \in 48 .. 70 /\ HexDigit(ch % 16) \in 48 .. 70
         /\ HexDigit(ch \div 16) \in HexDigits /\ HexDigit(ch % 16) \in HexDigits
<1>1. ch \div 16 \in 0 .. 15 /\ ch % 16 \in 0 .. 15 /\ ch = 16 * (ch \div 16) + (ch % 16)
  BY DEF Byte
<1>2. \A d \in 0 .. 15 : /\ HexValue(HexDigit(d)) = d /\ HexDigit(d) \in 48 .. 70
                         /\ HexDigit(d) \in HexDigits
  BY DEF HexValue, HexDigit, HexDigits
<1>3. QED
  BY <1>1, <1>2

LEMMA FourCodes ==
  ASSUME NEW a, NEW b, NEW h, NEW l
  PROVE  <<a, b>> \o <<h, l>> = <<a, b, h, l>>
<1> DEFINE x == <<a, b>> \o <<h, l>>
           y == <<a, b, h, l>>
           S == {a, b, h, l}
<1>1. x \in Seq(S) /\ y \in Seq(S)
  OBVIOUS
<1>2. Len(x) = 4 /\ x[1] = a /\ x[2] = b /\ x[3] = h /\ x[4] = l
  OBVIOUS
<1>3. Len(y) = 4 /\ y[1] = a /\ y[2] = b /\ y[3] = h /\ y[4] = l
  OBVIOUS
<1>4. x = y
  <2> HIDE DEF x, y, S
  <2>1. QED
    BY <1>1, <1>2, <1>3, SameSeq
<1>5. QED
  BY <1>4

LEMMA EscapedShapes ==
  ASSUME NEW ch \in Byte
  PROVE  \/ /\ ch \in DOMAIN LetterOf /\ ch # 127
            /\ EscapedByte(ch) = <<92, LetterOf[ch]>>
         \/ /\ ch # 127
            /\ EscapedByte(ch) = <<92, 120, HexDigit(ch \div 16), HexDigit(ch % 16)>>
         \/ ch \in 32 .. 127 /\ ch # 34 /\ ch # 92 /\ EscapedByte(ch) = <<ch>>
<1>1. CASE ch \in DOMAIN LetterOf
  BY <1>1 DEF EscapedByte, Backslash, LetterOf, Quote
<1>2. CASE ch \notin DOMAIN LetterOf /\ IsEscaped(ch)
  <2>1. EscapedByte(ch) = <<92, 120>> \o <<HexDigit(ch \div 16), HexDigit(ch % 16)>>
    BY <1>2 DEF EscapedByte, Backslash, ByteToString
  <2>2. ch # 127
    BY <1>2 DEF IsEscaped
  <2>3. QED
    BY <2>1, <2>2, FourCodes
<1>3. CASE ch \notin DOMAIN LetterOf /\ ~IsEscaped(ch)
  <2>1. ch \in 32 .. 127 /\ ch # 34 /\ ch # 92
    BY <1>3 DEF IsEscaped, LetterOf, Byte, Quote, Backslash
  <2>2. QED
    BY <1>3, <2>1 DEF EscapedByte
<1>4. QED
  BY <1>1, <1>2, <1>3

Printable == 32 .. 127
LEMMA EscapedIsPrintable ==
  ASSUME NEW ch \in Byte
  PROVE  EscapedByte(ch) \in Seq(Printable)
<1>1. CASE ch \in DOMAIN LetterOf /\ EscapedByte(ch) = <<92, LetterOf[ch]>>
  BY <1>1, LettersMean DEF Printable
<1>2. CASE EscapedByte(ch) = <<92, 120, HexDigit(ch \div 16), HexDigit(ch % 16)>>
  <2>1. 92 \in Printable /\ 120 \in Printable
        /\ HexDigit(ch \div 16) \in Printable /\ HexDigit(ch % 16) \in Printable
    BY HexMeans DEF Printable
  <2>2. QED
    BY <1>2, <2>1
<1>3. CASE ch \in 32 .. 127 /\ EscapedByte(ch) = <<ch>>
  BY <1>3 DEF Printable
<1>4. QED
  BY <1>1, <1>2, <1>3, EscapedShapes

LEMMA CharsShape ==
  ASSUME NEW s \in Seq(Byte)
  PROVE  /\ Chars(s) \in Seq(Symbol) /\ Len(Chars(s)) = Len(s)
         /\ \A k \in 1 .. Len(s) : Chars(s)[k] = Char(s[k])
<1>1. /\ DOMAIN s = 1 .. Len(s) /\ Len(s) \in Nat
      /\ \A k \in 1 .. Len(s) : s[k] \in Byte
  OBVIOUS
<1>2. \A k \in 1 .. Len(s) : Char(s[k]) \in Symbol
  BY <1>1 DEF Symbol
<1>3. QED
  BY <1>1, <1>2 DEF Chars

LEMMA CharsTuples ==
  ASSUME NEW a, NEW b
  PROVE  Chars(<<a>>) = <<Char(a)>> /\ Chars(<<a, b>>) = <<Char(a), Char(b)>>
BY DEF Chars

LEMMA CharsFour ==
  ASSUME NEW a, NEW b, NEW d, NEW e
  PROVE  Chars(<<a, b, d, e>>) = <<Char(a), Char(b), Char(d), Char(e)>>
BY DEF Chars
-----------------------------------------------------------------------------
(***************************************************************************)
(* Whole strings, and what is passed over between lexemes.                  *)
(***************************************************************************)
LEMMA PairShape ==
  ASSUME NEW S, NEW a \in S, NEW b \in S
  PROVE  <<a, b>> \in Seq(S) /\ Len(<<a, b>>) = 2 /\ <<a, b>>[1] = a /\ <<a, b>>[2] = b
OBVIOUS

LEMMA LenIsNat ==
  ASSUME NEW S, NEW s \in Seq(S)
  PROVE  Len(s) \in Nat /\ 0 \in 0 .. Len(s) /\ Len(s) \in 0 .. Len(s)
OBVIOUS

LEMMA CharsAreSymbols ==
  ASSUME NEW code \in Byte
  PROVE  Char(code) \in Symbol
BY DEF Symbol

LEMMA SomeBytes ==
  /\ 92 \in Byte /\ 120 \in Byte /\ 34 \in Byte /\ 44 \in Byte /\ 58 \in Byte /\ 32 \in Byte
  /\ 10 \in Byte /\ 13 \in Byte /\ 123 \in Byte /\ 125 \in Byte /\ 91 \in Byte /\ 93 \in Byte
  /\ 32 .. 127 \subseteq Byte /\ 48 .. 70 \subseteq Byte
BY DEF Byte

(* One character more, and a few.                                           *)
LEMMA AfterTwo ==
  ASSUME NEW text \in Seq(Symbol), NEW a \in Symbol, NEW b \in Symbol
  PROVE  /\ text \o <<a, b>> = Append(Append(text, a), b)
         /\ After(text \o <<a, b>>) = Read(Read(After(text), a), b)
<1>1. Append(text, a) \in Seq(Symbol) /\ Append(Append(text, a), b) \in Seq(Symbol)
  OBVIOUS
<1>2. text \o <<a, b>> = Append(Append(text, a), b)
  <2>1. <<a, b>> \in Seq(Symbol) /\ text \o <<a, b>> \in Seq(Symbol)
    OBVIOUS
  <2>2. Len(text \o <<a, b>>) = Len(text) + 2 /\ Len(Append(Append(text, a), b)) = Len(text) + 2
    OBVIOUS
  <2>3. ASSUME NEW k \in 1 .. Len(text) + 2
        PROVE  (text \o <<a, b>>)[k] = Append(Append(text, a), b)[k]
    OBVIOUS
  <2>4. QED
    BY <1>1, <2>1, <2>2, <2>3, SameSeq
<1>3. After(Append(Append(text, a), b)) = Read(After(Append(text, a)), b)
  BY <1>1, AfterOne
<1>4. After(Append(text, a)) = Read(After(text), a)
  BY AfterOne
<1>5. QED
  BY <1>2, <1>3, <1>4

LEMMA TextAssociates ==
  ASSUME NEW text \in Seq(Symbol), NEW s1 \in Seq(Symbol), NEW s2 \in Seq(Symbol)
  PROVE  (text \o s1) \o s2 = text \o (s1 \o s2)
BY ConcatAssociates

LEMMA AfterFour ==
  ASSUME NEW text \in Seq(Symbol), NEW a \in Symbol, NEW b \in Symbol, NEW h \in Symbol, NEW l \in Symbol
  PROVE  After(text \o <<a, b, h, l>>) = Read(Read(Read(Read(After(text), a), b), h), l)
<1>2. <<a, b>> \in Seq(Symbol) /\ <<h, l>> \in Seq(Symbol)
  BY PairShape
<1>7. PICK s1 \in Seq(Symbol) : s1 = <<a, b>>
  BY <1>2
<1>8. PICK s2 \in Seq(Symbol) : s2 = <<h, l>>
  BY <1>2
<1>1. PICK t \in Seq(Symbol) : t = text \o s1
  BY ConcatShape
<1>3. text \o <<a, b, h, l>> = t \o <<h, l>>
  <2>1. <<a, b, h, l>> = s1 \o s2
    <3>1. <<a, b, h, l>> = <<a, b>> \o <<h, l>>
      BY FourCodes
    <3>2. QED
      BY <1>7, <1>8, <3>1
  <2>2. (text \o s1) \o s2 = text \o (s1 \o s2)
    BY TextAssociates
  <2>3. PICK four : four = <<a, b, h, l>>
    OBVIOUS
  <2>4. PICK last : last = <<h, l>>
    OBVIOUS
  <2>5. four = s1 \o s2 /\ last = s2
    BY <1>8, <2>1, <2>3, <2>4
  <2>6. text \o four = t \o last
    BY <1>1, <2>2, <2>5
  <2>7. QED
    BY <2>3, <2>4, <2>6
<1>4. After(t \o <<h, l>>) = Read(Read(After(t), h), l)
  BY <1>8, AfterTwo
<1>5. After(t) = Read(Read(After(text), a), b)
  BY <1>1, <1>7, AfterTwo
<1>6. QED
  BY <1>3, <1>4, <1>5

LEMMA ReadsByte ==
  ASSUME NEW text \in Seq(Symbol), NEW o, NEW w, NEW n, NEW c, NEW p, NEW ch \in Byte,
         After(text) = Reader("string", o, <<>>, w, n, c, p)
  PROVE  After(text \o Chars(EscapedByte(ch)))
           = Reader("string", Append(o, ch), <<>>, w, n, c, p \cup ({127} \cap {ch}))
<1>0. ch # 127 => p \cup ({127} \cap {ch}) = p
  OBVIOUS
<1>1. CASE ch \in DOMAIN LetterOf /\ ch # 127 /\ EscapedByte(ch) = <<92, LetterOf[ch]>>
  <2>1. PICK letter : letter = LetterOf[ch] /\ letter \in DOMAIN Meaning /\ Meaning[letter] = ch
                      /\ letter \in 32 .. 127
    BY <1>1, LettersMean
  <2>2. Chars(EscapedByte(ch)) = <<Char(92), Char(letter)>>
    BY <1>1, <2>1, CharsTuples
  <2>3. Char(92) \in Symbol /\ Char(letter) \in Symbol
    BY <2>1, SomeBytes, CharsAreSymbols
  <2>4. After(text \o <<Char(92), Char(letter)>>) = Read(Read(After(text), Char(92)), Char(letter))
    BY <2>3, AfterTwo
  <2>5. QED
    BY <1>0, <1>1, <2>1, <2>2, <2>4, ReadsBackslash, ReadsLetter
<1>2. CASE ch # 127 /\ EscapedByte(ch) = <<92, 120, HexDigit(ch \div 16), HexDigit(ch % 16)>>
  <2>1. PICK h, l : /\ h = HexDigit(ch \div 16) /\ l = HexDigit(ch % 16)
                    /\ h \in 48 .. 70 /\ l \in 48 .. 70 /\ 16 * HexValue(h) + HexValue(l) = ch
                    /\ h \in HexDigits /\ l \in HexDigits
    <3>1. PICK h : h = HexDigit(ch \div 16)
      OBVIOUS
    <3>2. PICK l : l = HexDigit(ch % 16)
      OBVIOUS
    <3>3. /\ h \in 48 .. 70 /\ l \in 48 .. 70 /\ 16 * HexValue(h) + HexValue(l) = ch
          /\ h \in HexDigits /\ l \in HexDigits
      BY <3>1, <3>2, HexMeans
    <3>4. QED
      BY <3>1, <3>2, <3>3
  <2>2. Chars(EscapedByte(ch)) = <<Char(92), Char(120), Char(h), Char(l)>>
    <3>1. EscapedByte(ch) = <<92, 120, h, l>>
      BY <1>2, <2>1
    <3>2. PICK escape : escape = EscapedByte(ch)
      OBVIOUS
    <3>3. escape = <<92, 120, h, l>>
      BY <3>1, <3>2
    <3>4. Chars(<<92, 120, h, l>>) = <<Char(92), Char(120), Char(h), Char(l)>>
      <4>1. PICK a, b : a = 92 /\ b = 120
        OBVIOUS
      <4>2. Chars(<<a, b, h, l>>) = <<Char(a), Char(b), Char(h), Char(l)>>
        BY CharsFour
      <4>3. QED
        BY <4>1, <4>2
    <3>5. Chars(escape) = <<Char(92), Char(120), Char(h), Char(l)>>
      BY <3>3, <3>4
    <3>6. QED
      BY <3>2, <3>5
  <2>3. Char(92) \in Symbol /\ Char(120) \in Symbol /\ Char(h) \in Symbol /\ Char(l) \in Symbol
    BY <2>1, SomeBytes, CharsAreSymbols
  <2>4. After(text \o <<Char(92), Char(120), Char(h), Char(l)>>)
          = Read(Read(Read(Read(After(text), Char(92)), Char(120)), Char(h)), Char(l))
    BY <2>3, AfterFour
  <2>5. Read(Read(After(text), Char(92)), Char(120)) = Reader("string", o, <<92, 120>>, w, n, c, p)
    BY ReadsBackslash, ReadsHex
  <2>6. Read(Reader("string", o, <<92, 120>>, w, n, c, p), Char(h))
          = Reader("string", o, <<92, 120, h>>, w, n, c, p)
    BY <2>1, ReadsFirstDigit
  <2>7. PICK byte : byte = 16 * HexValue(h) + HexValue(l)
    OBVIOUS
  <2>8. Read(Reader("string", o, <<92, 120, h>>, w, n, c, p), Char(l))
          = Reader("string", Append(o, byte), <<>>, w, n, c, p)
    BY <2>1, <2>7, ReadsSecondDigit
  <2>9. byte = ch
    BY <2>1, <2>7
  <2>10. QED
    BY <1>0, <1>2, <2>2, <2>4, <2>5, <2>6, <2>8, <2>9
<1>3. CASE ch \in 32 .. 127 /\ ch # 34 /\ ch # 92 /\ EscapedByte(ch) = <<ch>>
  <2>1. Chars(EscapedByte(ch)) = <<Char(ch)>> /\ Char(ch) \in Symbol
    BY <1>3, CharsTuples, CharsAreSymbols
  <2>2. After(text \o <<Char(ch)>>) = Read(After(text), Char(ch))
    BY <2>1, ConcatOne, AfterOne
  <2>3. PICK q : q = p \cup ({ch} \ Listed)
    OBVIOUS
  <2>4. q = p \cup ({127} \cap {ch})
    <3>1. {ch} \ Listed = {127} \cap {ch}
      <4>1. ch \in Listed <=> ch # 127
        BY <1>3 DEF Listed
      <4>2. PICK listed : listed = Listed
        OBVIOUS
      <4>3. QED
        BY <4>1, <4>2
    <3>2. QED
      BY <2>3, <3>1
  <2>5. Read(After(text), Char(ch)) = Reader("string", Append(o, ch), <<>>, w, n, c, q)
    BY <1>3, <2>3, ReadsPlain
  <2>6. QED
    BY <2>1, <2>2, <2>4, <2>5
<1>4. QED
  BY <1>1, <1>2, <1>3, EscapedShapes

(* escapeString, byte by byte.                                              *)
EscapeStep(str, f, k) == IF k = 0 THEN <<>> ELSE f[k - 1] \o EscapedByte(str[k])
IsEscaping(str, n, f) == f = [k \in 0 .. n |-> EscapeStep(str, f, k)]

LEMMA EscapingExists ==
  ASSUME NEW str, Len(str) \in Nat
  PROVE  \E f : IsEscaping(str, Len(str), f)
<1> DEFINE Bad == {n \in 0 .. Len(str) : ~\E f : IsEscaping(str, n, f)}
<1>1. Bad = {}
  <2>1. SUFFICES ASSUME Bad # {}
                 PROVE  FALSE
    OBVIOUS
  <2>2. PICK m \in Bad : \A k \in Bad : m <= k
    <3>1. Bad \subseteq Nat
      OBVIOUS
    <3>2. QED
      BY <2>1, <3>1, LeastExists
  <2>3. m \in 0 .. Len(str) /\ ~\E f : IsEscaping(str, m, f)
    OBVIOUS
  <2>4. CASE m = 0
    <3>1. IsEscaping(str, 0, [k \in 0 .. 0 |-> <<>>])
      BY DEF IsEscaping, EscapeStep
    <3>2. QED
      BY <2>3, <2>4, <3>1
  <2>5. CASE m # 0
    <3>1. m - 1 \in 0 .. Len(str) /\ m - 1 \notin Bad
      BY <2>2, <2>3, <2>5
    <3>2. PICK f : IsEscaping(str, m - 1, f)
      BY <3>1
    <3> DEFINE g == [k \in 0 .. m |-> EscapeStep(str, f, k)]
    <3>3. \A k \in 0 .. m - 1 : g[k] = f[k]
      <4>1. TAKE k \in 0 .. m - 1
      <4>2. f[k] = EscapeStep(str, f, k)
        BY <3>2 DEF IsEscaping
      <4>3. k \in 0 .. m
        BY <2>3
      <4>4. QED
        BY <4>2, <4>3
    <3>4. \A k \in 0 .. m : EscapeStep(str, f, k) = EscapeStep(str, g, k)
      <4>1. TAKE k \in 0 .. m
      <4>2. CASE k = 0
        BY <4>2 DEF EscapeStep
      <4>3. CASE k # 0
        <5>1. k - 1 \in 0 .. m - 1
          BY <2>3, <4>3
        <5>2. QED
          BY <3>3, <5>1 DEF EscapeStep
      <4>4. QED
        BY <4>2, <4>3
    <3>5. IsEscaping(str, m, g)
      BY <3>4 DEF IsEscaping
    <3>6. QED
      BY <2>3, <3>5
  <2>6. QED
    BY <2>4, <2>5
<1>2. QED
  BY <1>1

LEMMA EscapeStringIs ==
  ASSUME NEW str, Len(str) \in Nat
  PROVE  \E f : IsEscaping(str, Len(str), f) /\ EscapeString(str) = f[Len(str)]
<1> DEFINE f == CHOOSE f : IsEscaping(str, Len(str), f)
<1>1. IsEscaping(str, Len(str), f)
  BY EscapingExists
<1>2. EscapeString(str) = f[Len(str)]
  BY DEF EscapeString, IsEscaping, EscapeStep
<1>3. QED
  BY <1>1, <1>2

LEMMA CharsConcat ==
  ASSUME NEW s \in Seq(Byte), NEW t \in Seq(Byte)
  PROVE  Chars(s \o t) = Chars(s) \o Chars(t)
<1>1. /\ s \o t \in Seq(Byte) /\ Len(s \o t) = Len(s) + Len(t)
      /\ \A k \in 1 .. Len(s) : (s \o t)[k] = s[k]
      /\ \A k \in 1 .. Len(t) : (s \o t)[Len(s) + k] = t[k]
  BY ConcatShape
<1>2. /\ Chars(s) \in Seq(Symbol) /\ Len(Chars(s)) = Len(s)
      /\ \A k \in 1 .. Len(s) : Chars(s)[k] = Char(s[k])
  BY CharsShape
<1>3. /\ Chars(t) \in Seq(Symbol) /\ Len(Chars(t)) = Len(t)
      /\ \A k \in 1 .. Len(t) : Chars(t)[k] = Char(t[k])
  BY CharsShape
<1>4. /\ Chars(s \o t) \in Seq(Symbol) /\ Len(Chars(s \o t)) = Len(s) + Len(t)
      /\ \A k \in 1 .. Len(s) + Len(t) : Chars(s \o t)[k] = Char((s \o t)[k])
  BY <1>1, CharsShape
<1>5. /\ Chars(s) \o Chars(t) \in Seq(Symbol) /\ Len(Chars(s) \o Chars(t)) = Len(s) + Len(t)
      /\ \A k \in 1 .. Len(s) : (Chars(s) \o Chars(t))[k] = Chars(s)[k]
      /\ \A k \in 1 .. Len(t) : (Chars(s) \o Chars(t))[Len(s) + k] = Chars(t)[k]
  <2>1. PICK cs \in Seq(Symbol) : cs = Chars(s) /\ Len(cs) = Len(s)
    BY <1>2
  <2>2. PICK ct \in Seq(Symbol) : ct = Chars(t) /\ Len(ct) = Len(t)
    BY <1>3
  <2>3. /\ cs \o ct \in Seq(Symbol) /\ Len(cs \o ct) = Len(cs) + Len(ct)
        /\ \A k \in 1 .. Len(cs) : (cs \o ct)[k] = cs[k]
        /\ \A k \in 1 .. Len(ct) : (cs \o ct)[Len(cs) + k] = ct[k]
    BY ConcatShape
  <2>4. QED
    BY <2>1, <2>2, <2>3
<1>6. ASSUME NEW k \in 1 .. Len(s) + Len(t)
      PROVE  Chars(s \o t)[k] = (Chars(s) \o Chars(t))[k]
  <2>1. CASE k \in 1 .. Len(s)
    BY <1>1, <1>2, <1>4, <1>5, <2>1
  <2>2. CASE k \notin 1 .. Len(s)
    <3>1. PICK i \in 1 .. Len(t) : k = Len(s) + i
      <4>1. k - Len(s) \in 1 .. Len(t) /\ k = Len(s) + (k - Len(s))
        BY <2>2
      <4>2. QED
        BY <4>1
    <3>2. QED
      BY <1>1, <1>3, <1>4, <1>5, <3>1
  <2>3. QED
    BY <2>1, <2>2
<1>7. QED
  BY <1>4, <1>5, <1>6, SameSeq

(* What of a string is written as it is though it is not printable.           *)
DeletesOf(str) == {127} \cap {str[k] : k \in DOMAIN str}
(* An escaped string is printable and read as the string it was.             *)
LEMMA DeletesOfBytes ==
  ASSUME NEW u \in Seq(Byte), NEW ch \in Byte, NEW p
  PROVE  /\ p \cup DeletesOf(<<>>) = p
         /\ (p \cup DeletesOf(u)) \cup ({127} \cap {ch}) = p \cup DeletesOf(Append(u, ch))
<1>1. /\ Append(u, ch) \in Seq(Byte) /\ Len(Append(u, ch)) = Len(u) + 1 /\ Len(u) \in Nat
      /\ Append(u, ch)[Len(u) + 1] = ch /\ \A k \in 1 .. Len(u) : Append(u, ch)[k] = u[k]
  BY AppendShape
<1>2. PICK v \in Seq(Byte) : v = Append(u, ch)
  BY <1>1
<1>3. DOMAIN v = 1 .. Len(u) + 1 /\ DOMAIN u = 1 .. Len(u)
  BY <1>1, <1>2
<1>4. {v[k] : k \in DOMAIN v} = {u[k] : k \in DOMAIN u} \cup {ch}
  BY <1>1, <1>2, <1>3
<1>5. {<<>>[k] : k \in DOMAIN <<>>} = {}
  OBVIOUS
<1>6. p \cup DeletesOf(<<>>) = p
  BY <1>5 DEF DeletesOf
<1>7. (p \cup DeletesOf(u)) \cup ({127} \cap {ch}) = p \cup DeletesOf(v)
  <2>1. PICK old, new : old = {u[k] : k \in DOMAIN u} /\ new = {v[k] : k \in DOMAIN v}
    OBVIOUS
  <2>2. new = old \cup {ch}
    BY <1>4, <2>1
  <2>3. DeletesOf(u) = {127} \cap old /\ DeletesOf(v) = {127} \cap new
    BY <2>1 DEF DeletesOf
  <2>4. QED
    BY <2>2, <2>3
<1>8. QED
  BY <1>2, <1>6, <1>7

LEMMA StringReads ==
  ASSUME NEW text \in Seq(Symbol), NEW str \in Seq(Byte), NEW w, NEW n, NEW c, NEW p,
         After(text) = Reader("string", <<>>, <<>>, w, n, c, p)
  PROVE  /\ EscapeString(str) \in Seq(Printable)
         /\ After(text \o Chars(EscapeString(str)))
              = Reader("string", str, <<>>, w, n, c, p \cup DeletesOf(str))
<1>1. PICK f : IsEscaping(str, Len(str), f) /\ EscapeString(str) = f[Len(str)]
  BY EscapeStringIs
<1>2. \A k \in 0 .. Len(str) : f[k] = EscapeStep(str, f, k)
  BY <1>1 DEF IsEscaping
<1> DEFINE Good(k) ==
             /\ f[k] \in Seq(Printable)
             /\ After(text \o Chars(f[k]))
                  = Reader("string", Upto(str, k), <<>>, w, n, c, p \cup DeletesOf(Upto(str, k)))
           Bad == {k \in 0 .. Len(str) : ~Good(k)}
<1>3. Bad = {}
  <2>1. SUFFICES ASSUME Bad # {}
                 PROVE  FALSE
    OBVIOUS
  <2>2. PICK m \in Bad : \A k \in Bad : m <= k
    <3>1. Bad \subseteq Nat
      OBVIOUS
    <3>2. QED
      BY <2>1, <3>1, LeastExists
  <2>3. m \in 0 .. Len(str) /\ ~Good(m)
    OBVIOUS
  <2>4. CASE m = 0
    <3>0. f[0] = EscapeStep(str, f, 0)
      BY <1>2, LenIsNat
    <3>1. f[0] = <<>> /\ Upto(str, 0) = <<>> /\ <<>> \in Seq(Printable)
      BY <3>0, LenIsNat, UptoShape DEF EscapeStep
    <3>2. text \o Chars(<<>>) = text
      <4>1. Chars(<<>>) = <<>>
        BY DEF Chars
      <4>2. QED
        BY <4>1, ConcatNone
    <3>3. Good(0)
      <4>1. p \cup DeletesOf(<<>>) = p
        BY DEF DeletesOf
      <4>2. QED
        BY <3>1, <3>2, <4>1
    <3>4. QED
      BY <2>3, <2>4, <3>3
  <2>5. CASE m # 0
    <3>1. m - 1 \in 0 .. Len(str) /\ m - 1 \notin Bad
      BY <2>2, <2>3, <2>5
    <3>2. Good(m - 1)
      BY <3>1
    <3>3. str[m] \in Byte /\ Upto(str, m) = Append(Upto(str, m - 1), str[m])
      BY <2>3, <2>5, UptoShape
    <3>4. PICK s, t : s = f[m - 1] /\ t = EscapedByte(str[m])
      OBVIOUS
    <3>5. f[m] = s \o t
      BY <1>2, <2>3, <2>5, <3>4 DEF EscapeStep
    <3>6. s \in Seq(Printable) /\ t \in Seq(Printable) /\ s \in Seq(Byte) /\ t \in Seq(Byte)
      <4>1. s \in Seq(Printable) /\ t \in Seq(Printable)
        BY <3>2, <3>3, <3>4, EscapedIsPrintable
      <4>2. Printable \subseteq Byte
        BY DEF Printable, Byte
      <4>3. QED
        BY <4>1, <4>2
    <3>7. s \o t \in Seq(Printable)
      BY <3>6, ConcatShape
    <3>8. Chars(s \o t) = Chars(s) \o Chars(t) /\ Chars(s) \in Seq(Symbol) /\ Chars(t) \in Seq(Symbol)
      BY <3>6, CharsConcat, CharsShape
    <3>9. text \o Chars(s \o t) = (text \o Chars(s)) \o Chars(t) /\ text \o Chars(s) \in Seq(Symbol)
      <4>1. PICK cs \in Seq(Symbol) : cs = Chars(s)
        BY <3>8
      <4>2. PICK ct \in Seq(Symbol) : ct = Chars(t)
        BY <3>8
      <4>3. (text \o cs) \o ct = text \o (cs \o ct)
        BY ConcatAssociates
      <4>4. text \o cs \in Seq(Symbol)
        BY ConcatShape
      <4>5. QED
        BY <3>8, <4>1, <4>2, <4>3, <4>4
    <3>10. After(text \o Chars(s))
             = Reader("string", Upto(str, m - 1), <<>>, w, n, c, p \cup DeletesOf(Upto(str, m - 1)))
      BY <3>2, <3>4
    <3>11. After((text \o Chars(s)) \o Chars(t))
             = Reader("string", Append(Upto(str, m - 1), str[m]), <<>>, w, n, c,
                      p \cup DeletesOf(Append(Upto(str, m - 1), str[m])))
      <4>1. PICK o \in Seq(Byte), ch \in Byte : o = Upto(str, m - 1) /\ ch = str[m]
        BY <3>1, <3>3, UptoShape
      <4>2. PICK longer \in Seq(Symbol) : longer = text \o Chars(s)
        BY <3>9
      <4>3. PICK q : q = p \cup DeletesOf(o)
        OBVIOUS
      <4>4. After(longer) = Reader("string", o, <<>>, w, n, c, q)
        BY <3>10, <4>1, <4>2, <4>3
      <4>5. After(longer \o Chars(EscapedByte(ch)))
              = Reader("string", Append(o, ch), <<>>, w, n, c, q \cup ({127} \cap {ch}))
        BY <4>4, ReadsByte
      <4>6. q \cup ({127} \cap {ch}) = p \cup DeletesOf(Append(o, ch))
        BY <4>3, DeletesOfBytes
      <4>7. QED
        BY <3>4, <4>1, <4>2, <4>5, <4>6
    <3>12. Good(m)
      BY <3>3, <3>5, <3>7, <3>9, <3>11
    <3>13. QED
      BY <2>3, <3>12
  <2>6. QED
    BY <2>4, <2>5
<1>4. Good(Len(str)) /\ Upto(str, Len(str)) = str
  <2>1. Len(str) \in 0 .. Len(str)
    BY LenIsNat
  <2>2. Good(Len(str))
    BY <1>3, <2>1
  <2>3. QED
    BY <2>1, <2>2, UptoShape
<1>5. QED
  BY <1>1, <1>4

(* Spaces and line ends change nothing.                                      *)
IsBlank(s) == \A k \in 1 .. Len(s) : s[k] \in {Char(10), Char(13), Char(32)}
LEMMA BlanksAreSkipped ==
  ASSUME NEW text \in Seq(Symbol), NEW blank \in Seq(Symbol), IsBlank(blank),
         After(text).mode = "between"
  PROVE  After(text \o blank) = After(text)
<1> DEFINE Good(k) == After(text \o Upto(blank, k)) = After(text)
           Bad == {k \in 0 .. Len(blank) : ~Good(k)}
<1>1. Bad = {}
  <2>1. SUFFICES ASSUME Bad # {}
                 PROVE  FALSE
    OBVIOUS
  <2>2. PICK m \in Bad : \A k \in Bad : m <= k
    <3>1. Bad \subseteq Nat
      OBVIOUS
    <3>2. QED
      BY <2>1, <3>1, LeastExists
  <2>3. m \in 0 .. Len(blank) /\ ~Good(m)
    OBVIOUS
  <2>4. m # 0
    BY <2>3, UptoShape, ConcatNone
  <2>5. m - 1 \in 0 .. Len(blank) /\ m - 1 \notin Bad /\ m \in 1 .. Len(blank)
    BY <2>2, <2>3, <2>4
  <2>6. PICK s \in Seq(Symbol), char \in Symbol :
          s = Upto(blank, m - 1) /\ char = blank[m] /\ Upto(blank, m) = Append(s, char)
    BY <2>3, <2>4, <2>5, UptoShape
  <2>7. text \o Append(s, char) = Append(text \o s, char) /\ text \o s \in Seq(Symbol)
    BY AppendConcat, ConcatShape
  <2>8. After(text \o Append(s, char)) = Read(After(text \o s), char)
    BY <2>7, AfterOne
  <2>9. After(text \o s) = After(text)
    BY <2>5, <2>6
  <2>10. Read(After(text), char) = After(text)
    <3>1. PICK code \in {10, 13, 32} : char = Char(code)
      BY <2>5, <2>6 DEF IsBlank
    <3>2. char[1] = "c" /\ char[2] = code
      BY <3>1, CharShape
    <3>3. QED
      BY <3>1, <3>2 DEF Read
  <2>11. QED
    BY <2>3, <2>6, <2>8, <2>9, <2>10
<1>2. Good(Len(blank)) /\ Upto(blank, Len(blank)) = blank
  <2>1. Len(blank) \in 0 .. Len(blank)
    BY LenIsNat
  <2>2. Good(Len(blank))
    BY <1>1, <2>1
  <2>3. QED
    BY <2>1, <2>2, UptoShape
<1>3. QED
  BY <1>2
-----------------------------------------------------------------------------
(***************************************************************************)
(* The writer, with its fields in view.                                     *)
(***************************************************************************)
Endings == {Chars(<< 10 >>), Chars(<<13, 10>>)}
Step == Chars(<<32, 32>>)

Always == TRUE
Writer(s, e, level, written, width, size, ctx) ==
  [stream |-> s, lineEnding |-> e, indentation |-> Step, indentationLevel |-> level,
   indentationWritten |-> written, doIndentation |-> Always, lineWidth |-> width, size |-> size,
   context |-> ctx]

Flat(s) == \A k \in 1 .. Len(s) : s[k] # Char(10)
IsWidth(s, width) ==
  /\ width \in 0 .. Len(s)
  /\ \A k \in 1 .. Len(s) : k > Len(s) - width => s[k] # Char(10)
  /\ width # Len(s) => s[Len(s) - width] = Char(10)

Sound(s, e, level, written, width, size) ==
  /\ s \in Seq(Symbol) /\ e \in Endings /\ level \in Nat /\ IsWidth(s, width)
  /\ written \in {TRUE, FALSE} /\ (written = FALSE => width = 0)
  /\ size = Len(s)

IsWriter(j, written, ctx, level) ==
  \E s, e, width, size : /\ j = Writer(s, e, level, written, width, size, ctx)
                         /\ Sound(s, e, level, written, width, size)

LEMMA WriterFields ==
  ASSUME NEW s, NEW e, NEW level, NEW written, NEW width, NEW size, NEW ctx, NEW j,
         j = Writer(s, e, level, written, width, size, ctx)
  PROVE  /\ j.stream = s /\ j.lineEnding = e /\ j.indentation = Step
         /\ j.indentationLevel = level /\ j.indentationWritten = written /\ j.lineWidth = width
         /\ j.size = size /\ j.context = ctx /\ j.doIndentation = Always
BY DEF Writer

(* A writer that has written: its text, the head of its line, the width of    *)
(* the line and the size.                                                   *)
Patch(j, s, written, width, size) ==
  [j EXCEPT !.stream = s, !.indentationWritten = written, !.lineWidth = width, !.size = size]
More(j, s, width, size) == [j EXCEPT !.stream = s, !.lineWidth = width, !.size = size]

LEMMA PatchedWriter ==
  ASSUME NEW s, NEW e, NEW level, NEW written, NEW width, NEW size, NEW ctx, NEW j,
         j = Writer(s, e, level, written, width, size, ctx),
         NEW s1, NEW written1, NEW width1, NEW size1
  PROVE  Patch(j, s1, written1, width1, size1) = Writer(s1, e, level, written1, width1, size1, ctx)
<1>1. PICK j1 : j1 = [j EXCEPT !.stream = s1]
  OBVIOUS
<1>2. PICK j2 : j2 = [j1 EXCEPT !.indentationWritten = written1]
  OBVIOUS
<1>3. PICK j3 : j3 = [j2 EXCEPT !.lineWidth = width1]
  OBVIOUS
<1>4. Patch(j, s1, written1, width1, size1) = [j3 EXCEPT !.size = size1]
  BY <1>1, <1>2, <1>3 DEF Patch
<1>5. j1 = Writer(s1, e, level, written, width, size, ctx)
  BY <1>1 DEF Writer
<1>6. j2 = Writer(s1, e, level, written1, width, size, ctx)
  BY <1>2, <1>5 DEF Writer
<1>7. j3 = Writer(s1, e, level, written1, width1, size, ctx)
  BY <1>3, <1>6 DEF Writer
<1>8. [j3 EXCEPT !.size = size1] = Writer(s1, e, level, written1, width1, size1, ctx)
  BY <1>7 DEF Writer
<1>9. QED
  BY <1>4, <1>8

LEMMA MoreWriter ==
  ASSUME NEW s, NEW e, NEW level, NEW written, NEW width, NEW size, NEW ctx, NEW j,
         j = Writer(s, e, level, written, width, size, ctx),
         NEW s1, NEW width1, NEW size1
  PROVE  More(j, s1, width1, size1) = Writer(s1, e, level, written, width1, size1, ctx)
<1>1. PICK j1 : j1 = [j EXCEPT !.stream = s1]
  OBVIOUS
<1>2. PICK j2 : j2 = [j1 EXCEPT !.lineWidth = width1]
  OBVIOUS
<1>3. More(j, s1, width1, size1) = [j2 EXCEPT !.size = size1]
  BY <1>1, <1>2 DEF More
<1>4. j1 = Writer(s1, e, level, written, width, size, ctx)
  BY <1>1 DEF Writer
<1>5. j2 = Writer(s1, e, level, written, width1, size, ctx)
  BY <1>2, <1>4 DEF Writer
<1>6. [j2 EXCEPT !.size = size1] = Writer(s1, e, level, written, width1, size1, ctx)
  BY <1>5 DEF Writer
<1>7. QED
  BY <1>3, <1>6

LEMMA CharsDiffer ==
  ASSUME NEW a, NEW b, a # b
  PROVE  Char(a) # Char(b)
<1>1. Char(a)[2] = a /\ Char(b)[2] = b
  BY CharShape
<1>2. QED
  BY <1>1

LEMMA WidthGrows ==
  ASSUME NEW s \in Seq(Symbol), NEW t \in Seq(Symbol), NEW width, IsWidth(s, width), Flat(t)
  PROVE  IsWidth(s \o t, width + Len(t))
<1>1. PICK u \in Seq(Symbol) : u = s \o t
  BY ConcatShape
<1>2. /\ Len(u) = Len(s) + Len(t) /\ Len(s) \in Nat /\ Len(t) \in Nat
      /\ \A k \in 1 .. Len(s) : u[k] = s[k]
      /\ \A k \in 1 .. Len(t) : u[Len(s) + k] = t[k]
  BY <1>1, ConcatShape, LenIsNat
<1>3. /\ width \in 0 .. Len(s) /\ width + Len(t) \in 0 .. Len(u)
      /\ Len(u) - (width + Len(t)) = Len(s) - width
  BY <1>2 DEF IsWidth
<1>4. ASSUME NEW k \in 1 .. Len(u), k > Len(s) - width
      PROVE  u[k] # Char(10)
  <2>1. CASE k \in 1 .. Len(s)
    BY <1>2, <1>4, <2>1 DEF IsWidth
  <2>2. CASE k \notin 1 .. Len(s)
    <3>1. k - Len(s) \in 1 .. Len(t) /\ k = Len(s) + (k - Len(s))
      BY <1>2, <2>2
    <3>2. u[k] = t[k - Len(s)]
      BY <1>2, <3>1
    <3>3. QED
      BY <3>1, <3>2 DEF Flat
  <2>3. QED
    BY <2>1, <2>2
<1>5. ASSUME width + Len(t) # Len(u)
      PROVE  u[Len(s) - width] = Char(10)
  <2>1. width # Len(s) /\ Len(s) - width \in 1 .. Len(s)
    <3>1. width \in Int /\ Len(s) \in Int /\ Len(t) \in Int /\ Len(u) = Len(s) + Len(t)
      BY <1>2, <1>3
    <3>2. width # Len(s)
      BY <1>5, <3>1
    <3>3. width \in 0 .. Len(s)
      BY <1>3
    <3>4. Len(s) - width \in 1 .. Len(s)
      BY <3>1, <3>2, <3>3
    <3>5. QED
      BY <3>2, <3>4
  <2>2. QED
    BY <1>2, <2>1 DEF IsWidth
<1>6. IsWidth(u, width + Len(t))
  BY <1>3, <1>4, <1>5 DEF IsWidth
<1>7. QED
  BY <1>1, <1>6

LEMMA EndingShape ==
  ASSUME NEW e \in Endings
  PROVE  e \in Seq(Symbol) /\ IsBlank(e) /\ Len(e) \in 1 .. 2 /\ e[Len(e)] = Char(10)
<1>1. Char(10) \in Symbol /\ Char(13) \in Symbol
  BY SomeBytes, CharsAreSymbols
<1>2. CASE e = Chars(<< 10 >>)
  <2>1. PICK a : a = 10
    OBVIOUS
  <2>2. e = <<Char(a)>>
    BY <1>2, <2>1, CharsTuples
  <2>3. QED
    BY <1>1, <2>1, <2>2 DEF IsBlank
<1>3. CASE e = Chars(<<13, 10>>)
  <2>1. PICK a, b : a = 13 /\ b = 10
    OBVIOUS
  <2>2. e = <<Char(a), Char(b)>>
    BY <1>3, <2>1, CharsTuples
  <2>3. e \in Seq(Symbol) /\ Len(e) = 2 /\ e[1] = Char(a) /\ e[2] = Char(b)
    BY <1>1, <2>1, <2>2, PairShape
  <2>4. QED
    BY <2>1, <2>3 DEF IsBlank
<1>4. QED
  BY <1>2, <1>3 DEF Endings

LEMMA WidthOfNewLine ==
  ASSUME NEW s \in Seq(Symbol), NEW e \in Endings
  PROVE  IsWidth(s \o e, 0)
<1>1. e \in Seq(Symbol) /\ Len(e) \in 1 .. 2 /\ e[Len(e)] = Char(10)
  BY EndingShape
<1>2. PICK u \in Seq(Symbol) : u = s \o e
  BY <1>1, ConcatShape
<1>3. /\ Len(u) = Len(s) + Len(e) /\ Len(s) \in Nat
      /\ \A k \in 1 .. Len(e) : u[Len(s) + k] = e[k]
  BY <1>1, <1>2, ConcatShape, LenIsNat
<1>4. u[Len(u)] = Char(10)
  <2>1. PICK n : n = Len(e)
    OBVIOUS
  <2>2. n \in 1 .. 2 /\ n \in 1 .. n
    BY <1>1, <2>1
  <2>3. u[Len(s) + n] = e[n]
    BY <1>3, <2>1, <2>2
  <2>4. QED
    BY <1>1, <1>3, <2>1, <2>3
<1>5. IsWidth(u, 0)
  BY <1>1, <1>3, <1>4 DEF IsWidth
<1>6. QED
  BY <1>2, <1>5

(***************************************************************************)
(* The width and the size of a new line, and of a text that is written on.  *)
(***************************************************************************)
LEMMA LineIsWritten ==
  ASSUME NEW j, NEW written, NEW ctx, NEW level, IsWriter(j, written, ctx, level)
  PROVE  /\ IsWriter(WriteLine(j), FALSE, ctx, level)
         /\ \E e \in Endings : WriteLine(j).stream = j.stream \o e
<1>1. PICK s, e, width, size :
        /\ j = Writer(s, e, level, written, width, size, ctx)
        /\ Sound(s, e, level, written, width, size)
  BY DEF IsWriter
<1>2. j.stream = s /\ j.lineEnding = e /\ j.size = Len(s)
  BY <1>1, WriterFields DEF Sound
<1>3. s \in Seq(Symbol) /\ e \in Endings /\ e \in Seq(Symbol) /\ level \in Nat
  BY <1>1, EndingShape DEF Sound
<1>4. PICK u \in Seq(Symbol) : u = s \o e /\ Len(u) = Len(s) + Len(e)
  BY <1>3, ConcatShape
<1>5. PICK n : n = Len(s) + Len(e)
  OBVIOUS
<1>6. PICK f : f = FALSE
  OBVIOUS
<1>7. WriteLine(j) = Patch(j, u, f, 0, n)
  BY <1>2, <1>4, <1>5, <1>6 DEF WriteLine, Patch
<1>8. Patch(j, u, f, 0, n) = Writer(u, e, level, f, 0, n, ctx)
  BY <1>1, PatchedWriter
<1>9. IsWidth(u, 0)
  BY <1>3, <1>4, WidthOfNewLine
<1>10. Sound(u, e, level, f, 0, n)
  BY <1>3, <1>4, <1>5, <1>6, <1>9 DEF Sound
<1>11. WriteLine(j).stream = u
  BY <1>7, <1>8, WriterFields
<1>12. QED
  BY <1>2, <1>3, <1>4, <1>6, <1>7, <1>8, <1>10, <1>11 DEF IsWriter
-----------------------------------------------------------------------------
LEMMA StepShape ==
  Step \in Seq(Symbol) /\ Len(Step) = 2 /\ Step[1] = Char(32) /\ Step[2] = Char(32)
<1>1. PICK a : a = 32
  OBVIOUS
<1>2. Step = <<Char(a), Char(a)>>
  BY <1>1, CharsTuples DEF Step
<1>3. Char(a) \in Symbol
  BY <1>1, SomeBytes, CharsAreSymbols
<1>4. QED
  BY <1>1, <1>2, <1>3, PairShape

LEMMA IndentationShape ==
  ASSUME NEW j, j.indentation = Step, j.indentationLevel \in Nat
  PROVE  /\ Indentation(j) \in Seq(Symbol) /\ Len(Indentation(j)) = j.indentationLevel * 2
         /\ IsBlank(Indentation(j)) /\ Flat(Indentation(j))
<1>1. PICK n \in Nat : n = j.indentationLevel * 2
  OBVIOUS
<1>2. PICK s : s = Indentation(j)
  OBVIOUS
<1>3. s = [k \in 1 .. n |-> Step[((k - 1) % 2) + 1]]
  BY <1>1, <1>2, StepShape DEF Indentation
<1>4. \A k \in 1 .. n : Step[((k - 1) % 2) + 1] = Char(32)
  <2>1. TAKE k \in 1 .. n
  <2>2. (k - 1) % 2 = 0 \/ (k - 1) % 2 = 1
    OBVIOUS
  <2>3. QED
    BY <2>2, StepShape
<1>5. Char(32) \in Symbol
  BY SomeBytes, CharsAreSymbols
<1>6. \A k \in 1 .. n : s[k] = Char(32) /\ s[k] \in Symbol
  BY <1>3, <1>4, <1>5
<1>7. s \in Seq(Symbol) /\ Len(s) = n
  BY <1>3, <1>4, <1>5
<1>8. Char(32) # Char(10)
  BY CharsDiffer
<1>9. IsBlank(s) /\ Flat(s)
  BY <1>6, <1>7, <1>8 DEF IsBlank, Flat
<1>10. QED
  BY <1>1, <1>2, <1>7, <1>9

LEMMA IndentationIsWritten ==
  ASSUME NEW j, NEW written, NEW ctx, NEW level, IsWriter(j, written, ctx, level)
  PROVE  /\ IsWriter(WriteIndentation(j), TRUE, ctx, level)
         /\ \E blank \in Seq(Symbol) :
              /\ IsBlank(blank) /\ WriteIndentation(j).stream = j.stream \o blank
              /\ written = TRUE => blank = <<>>
<1>1. PICK s, e, width, size :
        /\ j = Writer(s, e, level, written, width, size, ctx)
        /\ Sound(s, e, level, written, width, size)
  BY DEF IsWriter
<1>2. /\ j.stream = s /\ j.size = size /\ j.indentation = Step /\ j.indentationLevel = level
      /\ j.indentationWritten = written
  BY <1>1, WriterFields
<1>7. j.doIndentation = TRUE
  <2>1. j.doIndentation = Always
    BY <1>1, WriterFields
  <2>2. QED
    BY <2>1 DEF Always
<1>3. s \in Seq(Symbol) /\ level \in Nat /\ size = Len(s) /\ IsWidth(s, width) /\ written \in {TRUE, FALSE}
  BY <1>1 DEF Sound
<1>4. CASE written = TRUE
  <2>1. WriteIndentation(j) = j
    BY <1>2, <1>4 DEF WriteIndentation
  <2>2. <<>> \in Seq(Symbol) /\ IsBlank(<<>>) /\ s \o <<>> = s
    BY <1>3, ConcatNone DEF IsBlank
  <2>3. QED
    BY <1>2, <1>4, <2>1, <2>2
<1>5. CASE written = FALSE
  <2>1. PICK blank \in Seq(Symbol) : /\ blank = Indentation(j) /\ Len(blank) = level * 2
                                     /\ IsBlank(blank) /\ Flat(blank)
    BY <1>2, <1>3, IndentationShape
  <2>2. PICK u \in Seq(Symbol) : u = s \o blank /\ Len(u) = Len(s) + Len(blank)
    BY <1>3, ConcatShape
  <2>3. PICK n, m, t : n = level * 2 /\ m = size + level * 2 /\ t = TRUE
    OBVIOUS
  <2>4. level * Len(Step) = n
    BY <2>3, StepShape
  <2>5. WriteIndentation(j) = Patch(j, u, t, n, m)
    BY <1>2, <1>5, <1>7, <2>1, <2>2, <2>3, <2>4 DEF WriteIndentation, Patch
  <2>6. Patch(j, u, t, n, m) = Writer(u, e, level, t, n, m, ctx)
    BY <1>1, PatchedWriter
  <2>7. width = 0
    BY <1>1, <1>5 DEF Sound
  <2>8. IsWidth(u, n)
    <3>1. IsWidth(u, width + Len(blank))
      BY <1>3, <2>1, <2>2, WidthGrows
    <3>2. width + Len(blank) = n
      BY <1>3, <2>1, <2>3, <2>7
    <3>3. QED
      BY <3>1, <3>2
  <2>9. m = Len(u)
    BY <1>3, <2>1, <2>2, <2>3
  <2>10. Sound(u, e, level, t, n, m)
    BY <1>1, <1>3, <2>2, <2>3, <2>8, <2>9 DEF Sound
  <2>11. WriteIndentation(j).stream = u
    BY <2>5, <2>6, WriterFields
  <2>12. QED
    BY <1>2, <1>5, <2>1, <2>2, <2>3, <2>5, <2>6, <2>10, <2>11 DEF IsWriter
<1>6. QED
  BY <1>3, <1>4, <1>5

LEMMA TextIsWritten ==
  ASSUME NEW j, NEW written, NEW ctx, NEW level, IsWriter(j, written, ctx, level),
         NEW str \in Seq(Symbol), Flat(str), written = TRUE \/ str # <<>>
  PROVE  /\ IsWriter(Write(j, str), TRUE, ctx, level)
         /\ \E blank \in Seq(Symbol) :
              /\ IsBlank(blank) /\ Write(j, str).stream = (j.stream \o blank) \o str
              /\ written = TRUE => blank = <<>>
<1>0. j.stream \in Seq(Symbol)
  BY WriterFields DEF IsWriter, Sound
<1>1. CASE str = <<>>
  <2>1. Write(j, str) = j /\ written = TRUE
    BY <1>1 DEF Write
  <2>2. <<>> \in Seq(Symbol) /\ IsBlank(<<>>) /\ (j.stream \o <<>>) \o <<>> = j.stream
    BY <1>0, ConcatNone DEF IsBlank
  <2>3. QED
    BY <1>1, <2>1, <2>2
<1>2. CASE str # <<>>
  <2>1. PICK j1 : j1 = WriteIndentation(j)
    OBVIOUS
  <2>2. PICK blank \in Seq(Symbol) :
          /\ IsBlank(blank) /\ j1.stream = j.stream \o blank
          /\ written = TRUE => blank = <<>>
    BY <2>1, IndentationIsWritten
  <2>3. IsWriter(j1, TRUE, ctx, level)
    BY <2>1, IndentationIsWritten
  <2>4. PICK t : t = TRUE
    OBVIOUS
  <2>5. PICK s, e, width, size :
          /\ j1 = Writer(s, e, level, t, width, size, ctx)
          /\ Sound(s, e, level, t, width, size)
    BY <2>3, <2>4 DEF IsWriter
  <2>6. j1.stream = s /\ j1.lineWidth = width /\ j1.size = size
    BY <2>5, WriterFields
  <2>7. s \in Seq(Symbol) /\ size = Len(s) /\ IsWidth(s, width)
    BY <2>5 DEF Sound
  <2>8. PICK u \in Seq(Symbol) : u = s \o str /\ Len(u) = Len(s) + Len(str)
    BY <2>7, ConcatShape
  <2>9. PICK n, m : n = width + Len(str) /\ m = size + Len(str)
    OBVIOUS
  <2>10. Write(j, str) = More(j1, u, n, m)
    BY <1>2, <2>1, <2>6, <2>8, <2>9 DEF Write, More
  <2>11. More(j1, u, n, m) = Writer(u, e, level, t, n, m, ctx)
    BY <2>5, MoreWriter
  <2>12. IsWidth(u, n)
    BY <2>7, <2>8, <2>9, WidthGrows
  <2>13. m = Len(u)
    BY <2>7, <2>8, <2>9
  <2>14. Sound(u, e, level, t, n, m)
    BY <2>4, <2>5, <2>8, <2>12, <2>13 DEF Sound
  <2>15. Write(j, str).stream = u
    BY <2>10, <2>11, WriterFields
  <2>16. IsWriter(Write(j, str), TRUE, ctx, level)
    BY <2>4, <2>10, <2>11, <2>14 DEF IsWriter
  <2>17. QED
    BY <2>2, <2>6, <2>8, <2>15, <2>16
<1>3. QED
  BY <1>1, <1>2

(***************************************************************************)
(* The other fields.                                                        *)
(***************************************************************************)
LEMMA IndentedWriter ==
  ASSUME NEW j, NEW written, NEW ctx, NEW level, IsWriter(j, written, ctx, level)
  PROVE  /\ IsWriter(Indent(j), written, ctx, level + 1) /\ Indent(j).stream = j.stream
         /\ level # 0 => /\ IsWriter(Unindent(j), written, ctx, level - 1)
                         /\ Unindent(j).stream = j.stream
<1>1. PICK s, e, width, size :
        /\ j = Writer(s, e, level, written, width, size, ctx)
        /\ Sound(s, e, level, written, width, size)
  BY DEF IsWriter
<1>2. j.indentationLevel = level /\ j.stream = s /\ level \in Nat
  BY <1>1, WriterFields DEF Sound
<1>3. PICK up, down : up = level + 1 /\ down = level - 1
  OBVIOUS
<1>4. Indent(j) = [j EXCEPT !.indentationLevel = up]
  BY <1>2, <1>3 DEF Indent
<1>5. [j EXCEPT !.indentationLevel = up] = Writer(s, e, up, written, width, size, ctx)
  BY <1>1 DEF Writer
<1>6. Sound(s, e, up, written, width, size)
  <2>1. up \in Nat
    BY <1>2, <1>3
  <2>2. QED
    BY <1>1, <2>1 DEF Sound
<1>7. Indent(j).stream = s
  <2>1. Indent(j) = Writer(s, e, up, written, width, size, ctx)
    BY <1>4, <1>5
  <2>2. QED
    BY <2>1, WriterFields
<1>8. ASSUME level # 0
      PROVE  IsWriter(Unindent(j), written, ctx, down) /\ Unindent(j).stream = s
  <2>1. level > 0 /\ down \in Nat
    BY <1>2, <1>3, <1>8
  <2>2. Unindent(j) = [j EXCEPT !.indentationLevel = down]
    BY <1>2, <1>3, <2>1 DEF Unindent
  <2>3. [j EXCEPT !.indentationLevel = down] = Writer(s, e, down, written, width, size, ctx)
    BY <1>1 DEF Writer
  <2>4. Sound(s, e, down, written, width, size)
    BY <1>1, <2>1 DEF Sound
  <2>5. Unindent(j).stream = s
    <3>1. Unindent(j) = Writer(s, e, down, written, width, size, ctx)
      BY <2>2, <2>3
    <3>2. QED
      BY <3>1, WriterFields
  <2>6. QED
    BY <2>2, <2>3, <2>4, <2>5 DEF IsWriter
<1>9. IsWriter(Indent(j), written, ctx, up)
  BY <1>4, <1>5, <1>6 DEF IsWriter
<1>10. QED
  BY <1>2, <1>3, <1>7, <1>8, <1>9

LEMMA WriterIn ==
  ASSUME NEW j, NEW written, NEW ctx, NEW level, IsWriter(j, written, ctx, level), NEW context
  PROVE  IsWriter(In(j, context), written, context, level) /\ In(j, context).stream = j.stream
<1>1. PICK s, e, width, size :
        /\ j = Writer(s, e, level, written, width, size, ctx)
        /\ Sound(s, e, level, written, width, size)
  BY DEF IsWriter
<1>2. In(j, context) = Writer(s, e, level, written, width, size, context)
  BY <1>1 DEF In, Writer
<1>3. In(j, context).stream = s /\ j.stream = s
  BY <1>1, <1>2, WriterFields
<1>4. QED
  BY <1>1, <1>2, <1>3 DEF IsWriter
-----------------------------------------------------------------------------
(***************************************************************************)
(* The writer of JSON, and what a reader has seen of its text.              *)
(***************************************************************************)
Seen(j) == After(j.stream)
Writing(j, ctx, level) == IsWriter(j, TRUE, ctx, level)
Ready(j, ctx, level) == \E written : IsWriter(j, written, ctx, level)

LEMMA ReadyStream ==
  ASSUME NEW j, NEW written, NEW ctx, NEW level, IsWriter(j, written, ctx, level)
  PROVE  /\ j.stream \in Seq(Symbol) /\ j.context = ctx /\ j.indentationLevel = level
         /\ level \in Nat
BY WriterFields DEF IsWriter, Sound

LEMMA WritingIsReady ==
  ASSUME NEW j, NEW ctx, NEW level, Writing(j, ctx, level)
  PROVE  Ready(j, ctx, level) /\ j.stream \in Seq(Symbol)
BY ReadyStream DEF Writing, Ready

LEMMA OneSymbol ==
  ASSUME NEW x \in Symbol, x # Char(10)
  PROVE  <<x>> \in Seq(Symbol) /\ Flat(<<x>>) /\ <<x>> # <<>>
<1>1. <<x>> \in Seq(Symbol)
  BY ConcatOne, ConcatNone
<1>2. Len(<<x>>) = 1 /\ <<x>>[1] = x /\ <<x>> # <<>>
  OBVIOUS
<1>3. QED
  BY <1>1, <1>2 DEF Flat

LEMMA SymbolIsWritten ==
  ASSUME NEW j, NEW ctx, NEW level, Ready(j, ctx, level), Seen(j).mode = "between",
         NEW x \in Symbol, x # Char(10)
  PROVE  /\ Writing(Write(j, <<x>>), ctx, level)
         /\ Seen(Write(j, <<x>>)) = Read(Seen(j), x)
<1>1. PICK written : IsWriter(j, written, ctx, level)
  BY DEF Ready
<1>2. PICK str \in Seq(Symbol) : str = <<x>> /\ Flat(str) /\ str # <<>>
  BY OneSymbol
<1>3. PICK j1 : j1 = Write(j, str)
  OBVIOUS
<1>4. Writing(j1, ctx, level)
  BY <1>1, <1>2, <1>3, TextIsWritten DEF Writing
<1>5. PICK blank \in Seq(Symbol) : IsBlank(blank) /\ j1.stream = (j.stream \o blank) \o str
  BY <1>1, <1>2, <1>3, TextIsWritten
<1>6. PICK s \in Seq(Symbol) : s = j.stream
  BY <1>1, ReadyStream
<1>7. PICK u \in Seq(Symbol) : u = s \o blank
  BY ConcatShape
<1>8. After(u) = After(s)
  BY <1>6, <1>5, <1>7, BlanksAreSkipped DEF Seen
<1>9. After(u \o <<x>>) = Read(After(u), x)
  BY ConcatOne, AfterOne
<1>10. QED
  BY <1>2, <1>3, <1>4, <1>5, <1>6, <1>7, <1>8, <1>9 DEF Seen

LEMMA CharIsWritten ==
  ASSUME NEW j, NEW ctx, NEW level, Ready(j, ctx, level), Seen(j).mode = "between",
         NEW code \in Byte, code # 10
  PROVE  /\ Writing(Write(j, Chars(<<code>>)), ctx, level)
         /\ Seen(Write(j, Chars(<<code>>))) = Read(Seen(j), Char(code))
<1>1. Chars(<<code>>) = <<Char(code)>>
  BY CharsTuples
<1>2. Char(code) \in Symbol /\ Char(code) # Char(10)
  BY CharsAreSymbols, CharsDiffer
<1>3. QED
  BY <1>1, <1>2, SymbolIsWritten

LEMMA LineIsSkipped ==
  ASSUME NEW j, NEW ctx, NEW level, Ready(j, ctx, level), Seen(j).mode = "between"
  PROVE  Ready(WriteLine(j), ctx, level) /\ Seen(WriteLine(j)) = Seen(j)
<1>1. PICK written : IsWriter(j, written, ctx, level)
  BY DEF Ready
<1>2. IsWriter(WriteLine(j), FALSE, ctx, level)
  BY <1>1, LineIsWritten
<1>3. PICK e \in Endings : WriteLine(j).stream = j.stream \o e
  BY <1>1, LineIsWritten
<1>4. e \in Seq(Symbol) /\ IsBlank(e) /\ j.stream \in Seq(Symbol)
  BY <1>1, EndingShape, ReadyStream
<1>5. After(j.stream \o e) = After(j.stream)
  BY <1>4, BlanksAreSkipped DEF Seen
<1>6. QED
  BY <1>2, <1>3, <1>5 DEF Ready, Seen

LEMMA TurnedWriter ==
  ASSUME NEW j, NEW ctx, NEW level, Ready(j, ctx, level), NEW context
  PROVE  /\ Ready(Indent(j), ctx, level + 1) /\ Seen(Indent(j)) = Seen(j)
         /\ level # 0 => Ready(Unindent(j), ctx, level - 1) /\ Seen(Unindent(j)) = Seen(j)
         /\ Ready(In(j, context), context, level) /\ Seen(In(j, context)) = Seen(j)
<1>1. PICK written : IsWriter(j, written, ctx, level)
  BY DEF Ready
<1>2. QED
  BY <1>1, IndentedWriter, WriterIn DEF Ready, Seen

(***************************************************************************)
(* A string between its quotes.                                             *)
(***************************************************************************)
LEMMA PrintableText ==
  ASSUME NEW str \in Seq(Printable)
  PROVE  Chars(str) \in Seq(Symbol) /\ Flat(Chars(str))
<1>1. str \in Seq(Byte) /\ \A k \in 1 .. Len(str) : str[k] \in Printable
  <2>1. Printable \subseteq Byte
    BY DEF Printable, Byte
  <2>2. QED
    BY <2>1
<1>2. /\ Chars(str) \in Seq(Symbol) /\ Len(Chars(str)) = Len(str)
      /\ \A k \in 1 .. Len(str) : Chars(str)[k] = Char(str[k])
  BY <1>1, CharsShape
<1>3. ASSUME NEW k \in 1 .. Len(str)
      PROVE  Chars(str)[k] # Char(10)
  <2>1. PICK code \in Printable : code = str[k]
    BY <1>1
  <2>2. code # 10
    BY DEF Printable
  <2>3. Chars(str)[k] = Char(code)
    BY <1>2, <2>1
  <2>4. QED
    BY <2>2, <2>3, CharsDiffer
<1>4. QED
  BY <1>2, <1>3 DEF Flat

LEMMA MoreIsWritten ==
  ASSUME NEW j, NEW ctx, NEW level, Writing(j, ctx, level),
         NEW str \in Seq(Symbol), Flat(str)
  PROVE  /\ Writing(Write(j, str), ctx, level)
         /\ Write(j, str).stream = j.stream \o str
<1>1. PICK t : t = TRUE
  OBVIOUS
<1>2. IsWriter(j, t, ctx, level)
  BY <1>1 DEF Writing
<1>3. Writing(Write(j, str), ctx, level)
  BY <1>1, <1>2, TextIsWritten DEF Writing
<1>4. PICK blank \in Seq(Symbol) : /\ Write(j, str).stream = (j.stream \o blank) \o str
                                   /\ t = TRUE => blank = <<>>
  BY <1>1, <1>2, TextIsWritten
<1>5. j.stream \o blank = j.stream
  BY <1>1, <1>2, <1>4, ReadyStream, ConcatNone
<1>6. QED
  BY <1>3, <1>4, <1>5

LEMMA OpensString ==
  ASSUME NEW o, NEW w, NEW n, NEW c, NEW p
  PROVE  Read(Reader("between", o, <<>>, w, n, c, p), Char(34)) = Reader("string", <<>>, <<>>, w, n, c, p)
<1>1. PICK st : st = Reader("between", o, <<>>, w, n, c, p)
  OBVIOUS
<1>2. st.mode = "between"
  BY <1>1, ReaderFields
<1>3. PICK char : char = Char(34) /\ char[1] = "c" /\ char[2] = 34
  BY CharShape
<1>4. Read(st, char) = [st EXCEPT !.mode = "string", !.open = <<>>]
  BY <1>2, <1>3 DEF Read
<1>5. PICK st1 : st1 = [st EXCEPT !.mode = "string"]
  OBVIOUS
<1>6. [st EXCEPT !.mode = "string", !.open = <<>>] = [st1 EXCEPT !.open = <<>>]
  BY <1>5
<1>7. st1 = Reader("string", o, <<>>, w, n, c, p)
  BY <1>1, <1>5 DEF Reader
<1>8. [st1 EXCEPT !.open = <<>>] = Reader("string", <<>>, <<>>, w, n, c, p)
  BY <1>7 DEF Reader
<1>9. QED
  BY <1>1, <1>3, <1>4, <1>6, <1>8

LEMMA StringIsWritten ==
  ASSUME NEW j, NEW ctx, NEW level, Ready(j, ctx, level), NEW o, NEW w, NEW n, NEW c, NEW p,
         Seen(j) = Reader("between", o, <<>>, w, n, c, p), NEW str \in Seq(Byte)
  PROVE  /\ Ready(WriteString(j, str), ctx, level)
         /\ Seen(WriteString(j, str))
              = Take(Reader("between", str, <<>>, w, n, c, p \cup DeletesOf(str)), <<"string", str>>)
<1>1. Seen(j).mode = "between"
  BY ReaderFields
<1>2. PICK j1 : j1 = Write(j, Chars(<< 34 >>))
  OBVIOUS
<1>3. Writing(j1, ctx, level) /\ Seen(j1) = Reader("string", <<>>, <<>>, w, n, c, p)
  <2>1. PICK code \in Byte : code = 34 /\ code # 10
    BY SomeBytes
  <2>2. Writing(j1, ctx, level) /\ Seen(j1) = Read(Seen(j), Char(code))
    BY <1>1, <1>2, <2>1, CharIsWritten
  <2>3. QED
    BY <2>1, <2>2, OpensString
<1>4. PICK s \in Seq(Symbol) : s = j1.stream
  BY <1>3, WritingIsReady
<1>5. After(s) = Reader("string", <<>>, <<>>, w, n, c, p)
  BY <1>3, <1>4 DEF Seen
<1>21. PICK q : q = p \cup DeletesOf(str)
  OBVIOUS
<1>6. PICK str1 : str1 = EscapeString(str)
  OBVIOUS
<1>7. str1 \in Seq(Printable) /\ After(s \o Chars(str1)) = Reader("string", str, <<>>, w, n, c, q)
  BY <1>5, <1>6, <1>21, StringReads
<1>8. PICK text \in Seq(Symbol) : text = Chars(str1) /\ Flat(text)
  BY <1>7, PrintableText
<1>9. PICK j2 : j2 = Write(j1, text)
  OBVIOUS
<1>10. Writing(j2, ctx, level) /\ j2.stream = s \o text
  BY <1>3, <1>4, <1>8, <1>9, MoreIsWritten
<1>11. PICK quote \in Seq(Symbol) : quote = Chars(<< 34 >>) /\ quote = <<Char(34)>> /\ Flat(quote)
  <2>1. PICK code \in Byte : code = 34 /\ code # 10
    BY SomeBytes
  <2>2. Char(code) # Char(10) /\ Char(code) \in Symbol /\ Chars(<<code>>) = <<Char(code)>>
    BY <2>1, CharsDiffer, CharsAreSymbols, CharsTuples
  <2>3. QED
    BY <2>1, <2>2, OneSymbol
<1>12. PICK j3 : j3 = Write(j2, quote)
  OBVIOUS
<1>13. Writing(j3, ctx, level) /\ j3.stream = j2.stream \o quote
  BY <1>10, <1>11, <1>12, MoreIsWritten
<1>14. PICK u \in Seq(Symbol) : u = s \o text
  BY ConcatShape
<1>15. Char(34) \in Symbol
  BY SomeBytes, CharsAreSymbols
<1>16. After(u \o <<Char(34)>>) = Read(After(u), Char(34))
  BY <1>15, ConcatOne, AfterOne
<1>17. After(u) = Reader("string", str, <<>>, w, n, c, q)
  BY <1>7, <1>8, <1>14
<1>18. Seen(j3) = Take(Reader("between", str, <<>>, w, n, c, q), <<"string", str>>)
  BY <1>10, <1>11, <1>13, <1>14, <1>16, <1>17, ReadsQuote DEF Seen
<1>19. WriteString(j, str) = j3
  BY <1>2, <1>6, <1>8, <1>9, <1>11, <1>12 DEF WriteString, Quote
<1>20. QED
  BY <1>13, <1>18, <1>19, <1>21, WritingIsReady
-----------------------------------------------------------------------------
(***************************************************************************)
(* What the reader makes of a lexeme.                                       *)
(***************************************************************************)
LEMMA Marks ==
  ASSUME NEW a
  PROVE  Mark(a)[1] = "mark" /\ Mark(a)[2] = a
BY DEF Mark

LEMMA MarksDiffer ==
  ASSUME NEW a, NEW b, a # b
  PROVE  Mark(a) # Mark(b)
<1>1. Mark(a)[2] = a /\ Mark(b)[2] = b
  BY Marks
<1>2. QED
  BY <1>1

LEMMA SomeMarksDiffer ==
  /\ Mark(123) # Mark(125) /\ Mark(123) # Mark(93) /\ Mark(91) # Mark(125) /\ Mark(91) # Mark(93)
  /\ Mark(44) # Mark(125) /\ Mark(44) # Mark(93) /\ Mark(44) # Mark(123) /\ Mark(44) # Mark(91)
  /\ Mark(91) # Mark(123) /\ Mark(58) # Mark(125) /\ Mark(58) # Mark(93)
  /\ Mark(58) # Mark(123) /\ Mark(58) # Mark(91)
BY MarksDiffer

LEMMA ReadsMark ==
  ASSUME NEW st, st.mode = "between", NEW code \in {44, 58, 91, 93, 123, 125}
  PROVE  Read(st, Char(code)) = Take(st, Mark(code))
<1>1. PICK char : char = Char(code) /\ char[1] = "c" /\ char[2] = code
  BY CharShape
<1>2. code # 34 /\ code \notin {10, 13, 32}
  OBVIOUS
<1>3. Read(st, char) = Take(st, Mark(code))
  BY <1>1, <1>2 DEF Read
<1>4. QED
  BY <1>1, <1>3

LEMMA ReadsWord ==
  ASSUME NEW st, st.mode = "between"
  PROVE  Read(st, <<"word", "null">>) = Take(st, <<"word", "null">>)
<1>1. PICK char : char = <<"word", "null">>
  OBVIOUS
<1>2. char[1] = "word"
  BY <1>1
<1>3. Read(st, char) = Take(st, char)
  BY <1>2 DEF Read
<1>4. QED
  BY <1>1, <1>3

LEMMA CalledReader ==
  ASSUME NEW o, NEW w, NEW n, NEW c, NEW p, NEW call
  PROVE  Called(Reader("between", o, <<>>, w, n, c, p), call)
           = Reader("between", o, <<>>, w, n, Append(c, call), p)
<1>1. PICK st : st = Reader("between", o, <<>>, w, n, c, p)
  OBVIOUS
<1>2. PICK x : x = Append(c, call)
  OBVIOUS
<1>3. st.calls = c
  BY <1>1, ReaderFields
<1>4. Called(st, call) = [st EXCEPT !.calls = x]
  BY <1>2, <1>3 DEF Called
<1>5. [st EXCEPT !.calls = x] = Reader("between", o, <<>>, w, n, x, p)
  BY <1>1 DEF Reader
<1>6. QED
  BY <1>1, <1>2, <1>4, <1>5

WhenDone(n) == IF n = <<>> THEN "nothing" ELSE "separator"
LEMMA DoneReader ==
  ASSUME NEW o, NEW w, NEW n, NEW c, NEW p
  PROVE  Done(Reader("between", o, <<>>, w, n, c, p)) = Reader("between", o, <<>>, WhenDone(n), n, c, p)
<1>1. PICK st, x : st = Reader("between", o, <<>>, w, n, c, p) /\ x = WhenDone(n)
  OBVIOUS
<1>2. st.nest = n
  BY <1>1, ReaderFields
<1>3. Done(st) = [st EXCEPT !.want = x]
  BY <1>1, <1>2 DEF Done, WhenDone
<1>4. [st EXCEPT !.want = x] = Reader("between", o, <<>>, x, n, c, p)
  BY <1>1 DEF Reader
<1>5. QED
  BY <1>1, <1>3, <1>4

LEMMA OpenedReader ==
  ASSUME NEW o, NEW w, NEW n, NEW c, NEW p, NEW lexeme, NEW want1
  PROVE  Opened(Reader("between", o, <<>>, w, n, c, p), lexeme, want1)
           = Reader("between", o, <<>>, want1, Append(n, lexeme), Append(c, lexeme), p)
<1>1. PICK st, x : st = Reader("between", o, <<>>, w, n, Append(c, lexeme), p) /\ x = Append(n, lexeme)
  OBVIOUS
<1>2. st.nest = n
  BY <1>1, ReaderFields
<1>3. Called(Reader("between", o, <<>>, w, n, c, p), lexeme) = st
  BY <1>1, CalledReader
<1>4. Opened(Reader("between", o, <<>>, w, n, c, p), lexeme, want1)
        = [st EXCEPT !.nest = x, !.want = want1]
  BY <1>1, <1>2, <1>3 DEF Opened
<1>5. PICK st1 : st1 = [st EXCEPT !.nest = x]
  OBVIOUS
<1>6. [st EXCEPT !.nest = x, !.want = want1] = [st1 EXCEPT !.want = want1]
  BY <1>5
<1>7. st1 = Reader("between", o, <<>>, w, x, Append(c, lexeme), p)
  <2>1. PICK d : d = Append(c, lexeme)
    OBVIOUS
  <2>2. st = Reader("between", o, <<>>, w, n, d, p)
    BY <1>1, <2>1
  <2>3. st1 = Reader("between", o, <<>>, w, x, d, p)
    BY <1>5, <2>2 DEF Reader
  <2>4. QED
    BY <2>1, <2>3
<1>8. [st1 EXCEPT !.want = want1] = Reader("between", o, <<>>, want1, x, Append(c, lexeme), p)
  <2>1. PICK d : d = Append(c, lexeme)
    OBVIOUS
  <2>2. st1 = Reader("between", o, <<>>, w, x, d, p)
    BY <1>7, <2>1
  <2>3. [st1 EXCEPT !.want = want1] = Reader("between", o, <<>>, want1, x, d, p)
    BY <2>2 DEF Reader
  <2>4. QED
    BY <2>1, <2>3
<1>9. QED
  BY <1>1, <1>4, <1>6, <1>8

LEMMA ClosedReader ==
  ASSUME NEW o, NEW w, NEW n, NEW c, NEW p, NEW lexeme
  PROVE  Closed(Reader("between", o, <<>>, w, n, c, p), lexeme)
           = Reader("between", o, <<>>, WhenDone(Outer(n)), Outer(n), Append(c, lexeme), p)
<1>1. PICK st, x, d : /\ d = Append(c, lexeme) /\ x = Outer(n)
                      /\ st = Reader("between", o, <<>>, w, n, d, p)
  OBVIOUS
<1>2. st.nest = n
  BY <1>1, ReaderFields
<1>3. Called(Reader("between", o, <<>>, w, n, c, p), lexeme) = st
  BY <1>1, CalledReader
<1>4. PICK st1 : st1 = [st EXCEPT !.nest = x]
  OBVIOUS
<1>5. st1 = Reader("between", o, <<>>, w, x, d, p)
  BY <1>1, <1>4 DEF Reader
<1>6. Closed(Reader("between", o, <<>>, w, n, c, p), lexeme) = Done(st1)
  BY <1>1, <1>2, <1>3, <1>4 DEF Closed
<1>7. Done(st1) = Reader("between", o, <<>>, WhenDone(x), x, d, p)
  BY <1>5, DoneReader
<1>8. QED
  BY <1>1, <1>6, <1>7
-----------------------------------------------------------------------------
OpenWant(brace) == IF brace = 123 THEN "keyOrEnd" ELSE "valueOrEnd"
Ends(brace, end) == (brace = 123 /\ end = 125) \/ (brace = 91 /\ end = 93)
CommaWant(n) == IF Innermost(n) = Mark(123) THEN "key" ELSE "value"

CanClose(w, n, brace, end) ==
  /\ w \in {"keyOrEnd", "valueOrEnd", "separator"} /\ n # <<>>
  /\ Innermost(n) = Mark(brace) /\ Ends(brace, end)

LEMMA TakesOpening ==
  ASSUME NEW o, NEW w \in {"value", "valueOrEnd"}, NEW n, NEW c, NEW p, NEW brace \in {123, 91}
  PROVE  Take(Reader("between", o, <<>>, w, n, c, p), Mark(brace))
           = Reader("between", o, <<>>, OpenWant(brace), Append(n, Mark(brace)), Append(c, Mark(brace)), p)
<1>1. PICK st : st = Reader("between", o, <<>>, w, n, c, p)
  OBVIOUS
<1>2. st.want = w
  BY <1>1, ReaderFields
<1>3. ~Closes(st, Mark(brace)) /\ WantsValue(st)
  BY <1>2, SomeMarksDiffer DEF Closes, WantsValue
<1>4. Take(st, Mark(brace)) = Opened(st, Mark(brace), OpenWant(brace))
  <2>1. CASE brace = 123
    BY <1>3, <2>1 DEF Take, OpenWant
  <2>2. CASE brace = 91
    <3>1. Mark(91) # Mark(123)
      BY SomeMarksDiffer
    <3>2. Take(st, Mark(91)) = Opened(st, Mark(91), "valueOrEnd")
      BY <1>3, <2>2, <3>1 DEF Take
    <3>3. QED
      BY <2>2, <3>2 DEF OpenWant
  <2>3. QED
    BY <2>1, <2>2
<1>5. QED
  BY <1>1, <1>4, OpenedReader

LEMMA TakesClosing ==
  ASSUME NEW o, NEW w, NEW n, NEW c, NEW p, NEW brace, NEW end, CanClose(w, n, brace, end)
  PROVE  Take(Reader("between", o, <<>>, w, n, c, p), Mark(end))
           = Reader("between", o, <<>>, WhenDone(Outer(n)), Outer(n), Append(c, Mark(end)), p)
<1>1. PICK st : st = Reader("between", o, <<>>, w, n, c, p)
  OBVIOUS
<1>2. st.want = w /\ st.nest = n
  BY <1>1, ReaderFields
<1>3. Closes(st, Mark(end))
  BY <1>2 DEF Closes, CanClose, Ends
<1>4. Take(st, Mark(end)) = Closed(st, Mark(end))
  BY <1>3 DEF Take
<1>5. QED
  BY <1>1, <1>4, ClosedReader

LEMMA TakesComma ==
  ASSUME NEW o, NEW n, NEW c, NEW p, n # <<>>
  PROVE  Take(Reader("between", o, <<>>, "separator", n, c, p), Mark(44))
           = Reader("between", o, <<>>, CommaWant(n), n, c, p)
<1>1. PICK st : st = Reader("between", o, <<>>, "separator", n, c, p)
  OBVIOUS
<1>2. st.want = "separator" /\ st.nest = n
  BY <1>1, ReaderFields
<1>3. PICK lexeme : lexeme = Mark(44)
  OBVIOUS
<1>4. ~Closes(st, lexeme) /\ ~WantsValue(st)
  BY <1>2, <1>3, SomeMarksDiffer DEF Closes, WantsValue
<1>5. Separates(st, lexeme)
  BY <1>2, <1>3 DEF Separates
<1>6. PICK x : x = CommaWant(n)
  OBVIOUS
<1>7. Take(st, lexeme) = [st EXCEPT !.want = x]
  BY <1>2, <1>4, <1>5, <1>6 DEF Take, CommaWant
<1>8. [st EXCEPT !.want = x] = Reader("between", o, <<>>, x, n, c, p)
  BY <1>1 DEF Reader
<1>9. QED
  BY <1>1, <1>3, <1>6, <1>7, <1>8

IsScalar(lexeme) == lexeme[1] # "mark"
LEMMA TakesScalar ==
  ASSUME NEW o, NEW w \in {"value", "valueOrEnd"}, NEW n, NEW c, NEW p, NEW lexeme, IsScalar(lexeme)
  PROVE  Take(Reader("between", o, <<>>, w, n, c, p), lexeme)
           = Reader("between", o, <<>>, WhenDone(n), n, Append(c, lexeme), p)
<1>1. PICK st : st = Reader("between", o, <<>>, w, n, c, p)
  OBVIOUS
<1>2. st.want = w
  BY <1>1, ReaderFields
<1>0. lexeme[1] # "mark"
  BY DEF IsScalar
<1>3. \A a : lexeme # Mark(a)
  BY <1>0, Marks
<1>4. ~Closes(st, lexeme) /\ WantsValue(st)
  BY <1>2, <1>3 DEF Closes, WantsValue
<1>5. Take(st, lexeme) = Done(Called(st, lexeme))
  BY <1>0, <1>3, <1>4 DEF Take
<1>6. Called(st, lexeme) = Reader("between", o, <<>>, w, n, Append(c, lexeme), p)
  BY <1>1, CalledReader
<1>7. QED
  BY <1>1, <1>5, <1>6, DoneReader

LEMMA TakesString ==
  ASSUME NEW s, NEW w \in {"value", "valueOrEnd"}, NEW n, NEW c, NEW p
  PROVE  Take(Reader("between", s, <<>>, w, n, c, p), <<"string", s>>)
           = Reader("between", s, <<>>, WhenDone(n), n, Append(c, <<"string", s>>), p)
<1>1. PICK lexeme : lexeme = <<"string", s>>
  OBVIOUS
<1>2. IsScalar(lexeme)
  BY <1>1 DEF IsScalar
<1>3. Take(Reader("between", s, <<>>, w, n, c, p), lexeme)
        = Reader("between", s, <<>>, WhenDone(n), n, Append(c, lexeme), p)
  BY <1>2, TakesScalar
<1>4. QED
  BY <1>1, <1>3

LEMMA TakesKey ==
  ASSUME NEW o, NEW w \in {"key", "keyOrEnd"}, NEW n, NEW c, NEW p, NEW str
  PROVE  Take(Reader("between", o, <<>>, w, n, c, p), <<"string", str>>)
           = Reader("between", o, <<>>, "colon", n, Append(c, <<"key", str>>), p)
<1>1. PICK st : st = Reader("between", o, <<>>, w, n, c, p)
  OBVIOUS
<1>2. st.want = w
  BY <1>1, ReaderFields
<1>3. PICK lexeme : lexeme = <<"string", str>>
  OBVIOUS
<1>4. lexeme[1] = "string" /\ lexeme[2] = str
  BY <1>3
<1>5. \A a : lexeme # Mark(a)
  BY <1>4, Marks
<1>6. ~Closes(st, lexeme) /\ ~WantsValue(st)
  BY <1>2, <1>5 DEF Closes, WantsValue
<1>7. PICK key : key = <<"key", str>>
  OBVIOUS
<1>8. Take(st, lexeme) = [Called(st, key) EXCEPT !.want = "colon"]
  BY <1>2, <1>4, <1>5, <1>6, <1>7 DEF Take
<1>9. PICK d : d = Append(c, key)
  OBVIOUS
<1>10. PICK st1 : st1 = Called(st, key)
  OBVIOUS
<1>11. st1 = Reader("between", o, <<>>, w, n, d, p)
  BY <1>1, <1>9, <1>10, CalledReader
<1>12. [st1 EXCEPT !.want = "colon"] = Reader("between", o, <<>>, "colon", n, d, p)
  BY <1>11 DEF Reader
<1>13. QED
  BY <1>1, <1>3, <1>7, <1>8, <1>9, <1>10, <1>12

LEMMA TakesColon ==
  ASSUME NEW o, NEW n, NEW c, NEW p
  PROVE  Take(Reader("between", o, <<>>, "colon", n, c, p), Mark(58))
           = Reader("between", o, <<>>, "value", n, c, p)
<1>1. PICK st : st = Reader("between", o, <<>>, "colon", n, c, p)
  OBVIOUS
<1>2. st.want = "colon"
  BY <1>1, ReaderFields
<1>3. PICK lexeme : lexeme = Mark(58)
  OBVIOUS
<1>4. ~Closes(st, lexeme) /\ ~WantsValue(st)
  BY <1>2 DEF Closes, WantsValue
<1>5. Take(st, lexeme) = [st EXCEPT !.want = "value"]
  BY <1>2, <1>3, <1>4 DEF Take
<1>6. [st EXCEPT !.want = "value"] = Reader("between", o, <<>>, "value", n, c, p)
  BY <1>1 DEF Reader
<1>7. QED
  BY <1>1, <1>3, <1>5, <1>6

(***************************************************************************)
(* The calls of the writer: what each leaves of the writer, and what the     *)
(* reader has seen then.                                                    *)
(***************************************************************************)
LEMMA PrefixIsWritten ==
  ASSUME NEW j, NEW ctx \in {"start", "openBrace", "key", "value"}, NEW level,
         Ready(j, ctx, level), NEW o, NEW w, NEW n, NEW c, NEW p,
         Seen(j) = Reader("between", o, <<>>, w, n, c, p),
         ctx = "value" => w = "separator" /\ n # <<>>
  PROVE  /\ Ready(WriteValuePrefix(j), ctx, level)
         /\ Seen(WriteValuePrefix(j))
              = Reader("between", o, <<>>, IF ctx = "value" THEN CommaWant(n) ELSE w, n, c, p)
<1>1. j.context = ctx /\ Seen(j).mode = "between"
  BY ReadyStream, ReaderFields DEF Ready
<1>2. CASE ctx \in {"start", "key"}
  BY <1>1, <1>2 DEF WriteValuePrefix
<1>3. CASE ctx = "openBrace"
  <2>1. WriteValuePrefix(j) = WriteLine(j)
    BY <1>1, <1>3 DEF WriteValuePrefix
  <2>2. QED
    BY <1>1, <1>3, <2>1, LineIsSkipped
<1>4. CASE ctx = "value"
  <2>1. PICK j1 : j1 = Write(j, Chars(<< 44 >>))
    OBVIOUS
  <2>2. PICK code \in Byte : code = 44 /\ code # 10
    BY SomeBytes
  <2>3. Writing(j1, ctx, level) /\ Seen(j1) = Read(Seen(j), Char(code))
    BY <1>1, <2>1, <2>2, CharIsWritten
  <2>4. Read(Seen(j), Char(code)) = Take(Seen(j), Mark(code))
    BY <1>1, <2>2, ReadsMark
  <2>5. Seen(j1) = Reader("between", o, <<>>, CommaWant(n), n, c, p)
    BY <1>4, <2>2, <2>3, <2>4, TakesComma
  <2>6. Ready(j1, ctx, level) /\ Seen(j1).mode = "between"
    BY <2>3, <2>5, WritingIsReady, ReaderFields
  <2>7. WriteValuePrefix(j) = WriteLine(j1)
    BY <1>1, <1>4, <2>1 DEF WriteValuePrefix
  <2>8. QED
    BY <1>4, <2>5, <2>6, <2>7, LineIsSkipped
<1>5. QED
  BY <1>2, <1>3, <1>4

LEMMA SuffixIsWritten ==
  ASSUME NEW j, NEW ctx, NEW level, Ready(j, ctx, level), Seen(j).mode = "between"
  PROVE  Ready(WriteValueSuffix(j), ctx, level) /\ Seen(WriteValueSuffix(j)) = Seen(j)
BY LineIsSkipped DEF WriteValueSuffix

LEMMA CloseBraceLine ==
  ASSUME NEW j, NEW ctx, NEW level, Ready(j, ctx, level), Seen(j).mode = "between"
  PROVE  Ready(WriteCloseBracePrefix(j), ctx, level) /\ Seen(WriteCloseBracePrefix(j)) = Seen(j)
BY LineIsSkipped DEF WriteCloseBracePrefix

LEMMA OpenIsWritten ==
  ASSUME NEW j, NEW ctx, NEW level, NEW o, NEW w \in {"value", "valueOrEnd"}, NEW n, NEW c, NEW p,
         Ready(WriteValuePrefix(j), ctx, level),
         Seen(WriteValuePrefix(j)) = Reader("between", o, <<>>, w, n, c, p), NEW brace \in {123, 91}
  PROVE  /\ Ready(Open(j, brace), "openBrace", level + 1)
         /\ Seen(Open(j, brace)) = Reader("between", o, <<>>, OpenWant(brace),
                                          Append(n, Mark(brace)), Append(c, Mark(brace)), p)
<1>1. PICK j0 : j0 = WriteValuePrefix(j)
  OBVIOUS
<1>2. PICK j1 : j1 = Write(j0, Chars(<<brace>>))
  OBVIOUS
<1>3. brace \in Byte /\ brace # 10 /\ Seen(j0).mode = "between"
  <2>1. brace \in Byte /\ brace # 10
    BY DEF Byte
  <2>2. Seen(j0).mode = "between"
    BY <1>1, ReaderFields
  <2>3. QED
    BY <2>1, <2>2
<1>4. Writing(j1, ctx, level) /\ Seen(j1) = Read(Seen(j0), Char(brace))
  BY <1>1, <1>2, <1>3, CharIsWritten
<1>5. Seen(j1) = Take(Seen(j0), Mark(brace))
  BY <1>3, <1>4, ReadsMark
<1>6. Seen(j1) = Reader("between", o, <<>>, OpenWant(brace),
                        Append(n, Mark(brace)), Append(c, Mark(brace)), p)
  BY <1>1, <1>5, TakesOpening
<1>7. PICK j2 : j2 = Indent(j1)
  OBVIOUS
<1>8. Ready(j2, ctx, level + 1) /\ Seen(j2) = Seen(j1)
  BY <1>4, <1>7, WritingIsReady, TurnedWriter
<1>9. Ready(In(j2, "openBrace"), "openBrace", level + 1) /\ Seen(In(j2, "openBrace")) = Seen(j2)
  BY <1>8, TurnedWriter
<1>10. QED
  BY <1>1, <1>2, <1>6, <1>7, <1>8, <1>9 DEF Open

LEMMA CloseIsWritten ==
  ASSUME NEW j, NEW ctx, NEW level, level # 0, Ready(j, ctx, level),
         NEW o, NEW w, NEW n, NEW c, NEW p, Seen(j) = Reader("between", o, <<>>, w, n, c, p),
         NEW brace, NEW end, CanClose(w, n, brace, end)
  PROVE  /\ Ready(Close(j, end), "value", level - 1)
         /\ Seen(Close(j, end)) = Reader("between", o, <<>>, WhenDone(Outer(n)), Outer(n),
                                         Append(c, Mark(end)), p)
<1>1. Seen(j).mode = "between"
  BY ReaderFields
<1>2. PICK j1 : j1 = WriteCloseBracePrefix(j)
  OBVIOUS
<1>3. Ready(j1, ctx, level) /\ Seen(j1) = Seen(j)
  BY <1>1, <1>2, CloseBraceLine
<1>4. PICK j2 : j2 = Unindent(j1)
  OBVIOUS
<1>5. Ready(j2, ctx, level - 1) /\ Seen(j2) = Seen(j)
  BY <1>3, <1>4, TurnedWriter
<1>6. PICK j3 : j3 = Write(j2, Chars(<<end>>))
  OBVIOUS
<1>7. end \in Byte /\ end # 10 /\ end \in {44, 58, 91, 93, 123, 125}
  <2>1. end \in {125, 93}
    BY DEF CanClose, Ends
  <2>2. QED
    BY <2>1 DEF Byte
<1>8. Writing(j3, ctx, level - 1) /\ Seen(j3) = Read(Seen(j), Char(end))
  BY <1>1, <1>5, <1>6, <1>7, CharIsWritten
<1>9. Seen(j3) = Take(Seen(j), Mark(end))
  BY <1>1, <1>7, <1>8, ReadsMark
<1>10. Seen(j3) = Reader("between", o, <<>>, WhenDone(Outer(n)), Outer(n), Append(c, Mark(end)), p)
  <2>1. Take(Reader("between", o, <<>>, w, n, c, p), Mark(end))
          = Reader("between", o, <<>>, WhenDone(Outer(n)), Outer(n), Append(c, Mark(end)), p)
    BY TakesClosing
  <2>2. QED
    BY <1>9, <2>1
<1>11. PICK j4 : j4 = In(j3, "value")
  OBVIOUS
<1>12. Ready(j4, "value", level - 1) /\ Seen(j4) = Seen(j3)
  BY <1>8, <1>11, WritingIsReady, TurnedWriter
<1>13. Seen(j4).mode = "between"
  BY <1>10, <1>12, ReaderFields
<1>14. Close(j, end) = WriteValueSuffix(j4)
  BY <1>2, <1>4, <1>6, <1>11 DEF Close
<1>15. QED
  BY <1>10, <1>12, <1>13, <1>14, SuffixIsWritten

LEMMA ColonIsWritten ==
  ASSUME NEW j, NEW ctx, NEW level, Ready(j, ctx, level), NEW o, NEW n, NEW c, NEW p,
         Seen(j) = Reader("between", o, <<>>, "colon", n, c, p)
  PROVE  /\ Ready(Write(j, Chars(<<58, 32>>)), ctx, level)
         /\ Seen(Write(j, Chars(<<58, 32>>))) = Reader("between", o, <<>>, "value", n, c, p)
<1>1. PICK written : IsWriter(j, written, ctx, level)
  BY DEF Ready
<1>2. PICK a \in Byte, b \in Byte : a = 58 /\ b = 32
  BY SomeBytes
<1>3. PICK x \in Symbol, y \in Symbol : x = Char(a) /\ y = Char(b)
  BY CharsAreSymbols
<1>4. PICK str \in Seq(Symbol) : str = <<x, y>> /\ Len(str) = 2 /\ str[1] = x /\ str[2] = y
  <2>1. /\ <<x, y>> \in Seq(Symbol) /\ Len(<<x, y>>) = 2
        /\ <<x, y>>[1] = x /\ <<x, y>>[2] = y
    BY PairShape
  <2>2. PICK str : str = <<x, y>>
    OBVIOUS
  <2>3. str \in Seq(Symbol) /\ Len(str) = 2 /\ str[1] = x /\ str[2] = y
    BY <2>1, <2>2
  <2>4. QED
    BY <2>2, <2>3
<1>5. x # Char(10) /\ y # Char(10)
  BY <1>2, <1>3, CharsDiffer
<1>6. Flat(str) /\ str # <<>>
  BY <1>4, <1>5 DEF Flat
<1>7. PICK j1 : j1 = Write(j, str)
  OBVIOUS
<1>8. Writing(j1, ctx, level)
  BY <1>1, <1>6, <1>7, TextIsWritten DEF Writing
<1>9. PICK blank \in Seq(Symbol) : IsBlank(blank) /\ j1.stream = (j.stream \o blank) \o str
  BY <1>1, <1>6, <1>7, TextIsWritten
<1>10. PICK s \in Seq(Symbol) : s = j.stream
  BY <1>1, ReadyStream
<1>11. PICK u \in Seq(Symbol) : u = s \o blank
  BY ConcatShape
<1>12. PICK st : st = Reader("between", o, <<>>, "colon", n, c, p)
  OBVIOUS
<1>13. After(s) = st /\ st.mode = "between"
  BY <1>10, <1>12, ReaderFields DEF Seen
<1>14. After(u) = st
  BY <1>9, <1>11, <1>13, BlanksAreSkipped
<1>15. After(u \o <<x, y>>) = Read(Read(st, x), y)
  BY <1>14, AfterTwo
<1>16. PICK st1 : st1 = Reader("between", o, <<>>, "value", n, c, p) /\ st1.mode = "between"
  BY ReaderFields
<1>17. Read(st, Char(a)) = st1
  BY <1>2, <1>12, <1>13, <1>16, ReadsMark, TakesColon
<1>18. Read(st1, y) = st1
  <2>1. y[1] = "c" /\ y[2] = 32
    BY <1>2, <1>3, CharShape
  <2>2. QED
    BY <1>16, <2>1 DEF Read
<1>19. Seen(j1) = st1
  BY <1>3, <1>4, <1>9, <1>10, <1>11, <1>15, <1>17, <1>18 DEF Seen
<1>20. Chars(<<58, 32>>) = str
  BY <1>2, <1>3, <1>4, CharsTuples
<1>21. Write(j, Chars(<<58, 32>>)) = j1
  BY <1>7, <1>20
<1>22. QED
  BY <1>8, <1>16, <1>19, <1>21, WritingIsReady

KeyWritten(j, level, n, c, p, key) ==
  /\ Ready(WriteKey(j, key), "key", level)
  /\ Seen(WriteKey(j, key)) = Reader("between", key, <<>>, "value", n, Append(c, <<"key", key>>),
                                     p \cup DeletesOf(key))
LEMMA KeyIsWritten ==
  ASSUME NEW j, NEW ctx, NEW level, NEW o, NEW w \in {"key", "keyOrEnd"}, NEW n, NEW c, NEW p,
         Ready(WriteValuePrefix(j), ctx, level),
         Seen(WriteValuePrefix(j)) = Reader("between", o, <<>>, w, n, c, p), NEW key \in Seq(Byte)
  PROVE  KeyWritten(j, level, n, c, p, key)
<1>0. PICK q : q = p \cup DeletesOf(key)
  OBVIOUS
<1>1. PICK j1 : j1 = WriteString(WriteValuePrefix(j), key)
  OBVIOUS
<1>2. PICK d : d = Append(c, <<"key", key>>)
  OBVIOUS
<1>3. Ready(j1, ctx, level)
      /\ Seen(j1) = Take(Reader("between", key, <<>>, w, n, c, q), <<"string", key>>)
  BY <1>0, <1>1, StringIsWritten
<1>4. Seen(j1) = Reader("between", key, <<>>, "colon", n, d, q)
  <2>1. PICK s : s = key
    OBVIOUS
  <2>2. Take(Reader("between", s, <<>>, w, n, c, q), <<"string", s>>)
          = Reader("between", s, <<>>, "colon", n, Append(c, <<"key", s>>), q)
    BY TakesKey
  <2>3. QED
    BY <1>2, <1>3, <2>1, <2>2
<1>5. PICK j2 : j2 = Write(j1, Chars(<<58, 32>>))
  OBVIOUS
<1>6. Ready(j2, ctx, level) /\ Seen(j2) = Reader("between", key, <<>>, "value", n, d, q)
  BY <1>3, <1>4, <1>5, ColonIsWritten
<1>7. WriteKey(j, key) = In(j2, "key")
  BY <1>1, <1>5 DEF WriteKey
<1>8. Ready(In(j2, "key"), "key", level) /\ Seen(In(j2, "key")) = Seen(j2)
  BY <1>6, TurnedWriter
<1>9. QED
  BY <1>0, <1>2, <1>6, <1>7, <1>8 DEF KeyWritten

ValWritten(j, level, n, c, p, str) ==
  /\ Ready(WriteVal(j, str), "value", level)
  /\ Seen(WriteVal(j, str)) = Reader("between", str, <<>>, WhenDone(n), n, Append(c, <<"string", str>>),
                                     p \cup DeletesOf(str))
LEMMA ValIsWritten ==
  ASSUME NEW j, NEW ctx, NEW level, NEW o, NEW w \in {"value", "valueOrEnd"}, NEW n, NEW c, NEW p,
         Ready(WriteValuePrefix(j), ctx, level),
         Seen(WriteValuePrefix(j)) = Reader("between", o, <<>>, w, n, c, p), NEW str \in Seq(Byte)
  PROVE  ValWritten(j, level, n, c, p, str)
<1>0. PICK q : q = p \cup DeletesOf(str)
  OBVIOUS
<1>1. PICK j1 : j1 = WriteString(WriteValuePrefix(j), str)
  OBVIOUS
<1>2. PICK lexeme : lexeme = <<"string", str>>
  OBVIOUS
<1>3. Ready(j1, ctx, level) /\ Seen(j1) = Take(Reader("between", str, <<>>, w, n, c, q), lexeme)
  BY <1>0, <1>1, <1>2, StringIsWritten
<1>5. Seen(j1) = Reader("between", str, <<>>, WhenDone(n), n, Append(c, lexeme), q)
  <2>1. PICK s : s = str
    OBVIOUS
  <2>2. Take(Reader("between", s, <<>>, w, n, c, q), <<"string", s>>)
          = Reader("between", s, <<>>, WhenDone(n), n, Append(c, <<"string", s>>), q)
    BY TakesString
  <2>3. QED
    BY <1>2, <1>3, <2>1, <2>2
<1>6. PICK j2 : j2 = In(j1, "value")
  OBVIOUS
<1>7. Ready(j2, "value", level) /\ Seen(j2) = Seen(j1) /\ Seen(j2).mode = "between"
  <2>1. Ready(j2, "value", level) /\ Seen(j2) = Seen(j1)
    BY <1>3, <1>6, TurnedWriter
  <2>2. Seen(j1).mode = "between"
    BY <1>5, ReaderFields
  <2>3. QED
    BY <2>1, <2>2
<1>8. WriteVal(j, str) = WriteValueSuffix(j2)
  BY <1>1, <1>6 DEF WriteVal
<1>9. QED
  BY <1>0, <1>2, <1>5, <1>7, <1>8, SuffixIsWritten DEF ValWritten

LEMMA WordIsWritten ==
  ASSUME NEW j, NEW ctx, NEW level, NEW o, NEW w \in {"value", "valueOrEnd"}, NEW n, NEW c, NEW p,
         Ready(WriteValuePrefix(j), ctx, level),
         Seen(WriteValuePrefix(j)) = Reader("between", o, <<>>, w, n, c, p)
  PROVE  /\ Ready(WriteWord(j, "null"), "value", level)
         /\ Seen(WriteWord(j, "null"))
              = Reader("between", o, <<>>, WhenDone(n), n, Append(c, <<"word", "null">>), p)
<1>1. PICK j0 : j0 = WriteValuePrefix(j)
  OBVIOUS
<1>2. PICK lexeme \in Symbol : lexeme = <<"word", "null">>
  BY DEF Symbol
<1>3. lexeme[1] = "word"
  BY <1>2
<1>4. lexeme # Char(10)
  BY <1>3, CharShape
<1>5. PICK j1 : j1 = Write(j0, <<lexeme>>)
  OBVIOUS
<1>6. Seen(j0).mode = "between"
  BY <1>1, ReaderFields
<1>7. Writing(j1, ctx, level) /\ Seen(j1) = Read(Seen(j0), lexeme)
  BY <1>1, <1>4, <1>5, <1>6, SymbolIsWritten
<1>8. Seen(j1) = Take(Seen(j0), lexeme)
  BY <1>2, <1>6, <1>7, ReadsWord
<1>9. Seen(j1) = Reader("between", o, <<>>, WhenDone(n), n, Append(c, lexeme), p)
  <2>1. IsScalar(lexeme)
    BY <1>3 DEF IsScalar
  <2>2. QED
    BY <1>1, <1>8, <2>1, TakesScalar
<1>10. PICK j2 : j2 = In(j1, "value")
  OBVIOUS
<1>11. Ready(j2, "value", level) /\ Seen(j2) = Seen(j1) /\ Seen(j2).mode = "between"
  <2>1. Ready(j1, ctx, level)
    BY <1>7, WritingIsReady
  <2>2. Ready(j2, "value", level) /\ Seen(j2) = Seen(j1)
    BY <1>10, <2>1, TurnedWriter
  <2>3. Seen(j1).mode = "between"
    BY <1>9, ReaderFields
  <2>4. QED
    BY <2>2, <2>3
<1>12. WriteWord(j, "null") = WriteValueSuffix(j2)
  BY <1>1, <1>2, <1>5, <1>10 DEF WriteWord
<1>13. QED
  BY <1>2, <1>9, <1>11, <1>12, SuffixIsWritten
-----------------------------------------------------------------------------
(***************************************************************************)
(* The invariant: the writer is in step with the reader of what it has       *)
(* written.  The context of the writer says what the reader waits for, and   *)
(* the braces and calls that the reader has found are those of the caller.   *)
(***************************************************************************)
Brace == {Mark(123), Mark(91)}
Lexeme ==
  {Mark(code) : code \in {91, 93, 123, 125}} \cup {<<"key", s>> : s \in Seq(Byte)}
    \cup {<<"string", s>> : s \in Seq(Byte)} \cup {<<"word", "null">>}

KeyLast(c) == c # <<>> /\ c[Len(c)][1] = "key"
MayWrite(n, c) == IF n = <<>> THEN c = <<>> ELSE Innermost(n) = Mark(91) \/ KeyLast(c)

Want(ctx, n) ==
  IF ctx \in {"start", "key"} THEN "value"
  ELSE IF ctx = "openBrace" THEN (IF Innermost(n) = Mark(123) THEN "keyOrEnd" ELSE "valueOrEnd")
  ELSE WhenDone(n)

Fits(ctx, n, c) ==
  /\ ctx \in {"start", "openBrace", "key", "value"}
  /\ (ctx = "start") <=> (c = <<>>)
  /\ (ctx = "key") <=> KeyLast(c)
  /\ ctx = "start" => n = <<>>
  /\ ctx \in {"key", "openBrace"} => n # <<>>
  /\ ctx = "key" => Innermost(n) = Mark(123)

(* The unprintable bytes that the strings of some calls leave in the text.     *)
Deletes(c) == {Delete} \cap BytesOfAll(c)

Bounded(n, c) ==
  /\ n \in Seq(Brace) /\ Len(n) <= MaxDepth /\ c \in Seq(Lexeme) /\ Len(c) <= MaxCalls

InStep(j, n, c) ==
  /\ Bounded(n, c)
  /\ \E ctx, o : /\ Ready(j, ctx, Len(n)) /\ Fits(ctx, n, c)
                 /\ Seen(j) = Reader("between", o, <<>>, Want(ctx, n), n, c, Deletes(c))

LEMMA InnermostIsBrace ==
  ASSUME NEW n \in Seq(Brace), n # <<>>
  PROVE  /\ Innermost(n) \in Brace /\ Outer(n) \in Seq(Brace)
         /\ Len(n) \in Nat /\ Len(n) # 0 /\ Len(Outer(n)) = Len(n) - 1
<1>1. Len(n) \in Nat /\ Len(n) # 0
  OBVIOUS
<1>2. Innermost(n) \in Brace
  BY <1>1 DEF Innermost
<1>3. Outer(n) \in Seq(Brace) /\ Len(Outer(n)) = Len(n) - 1
  <2>1. Len(n) - 1 \in 0 .. Len(n)
    BY <1>1
  <2>2. Outer(n) = Upto(n, Len(n) - 1)
    BY DEF Outer, Upto
  <2>3. QED
    BY <2>1, <2>2, UptoShape
<1>4. QED
  BY <1>1, <1>2, <1>3

LEMMA LastCall ==
  ASSUME NEW c \in Seq(Lexeme), NEW call \in Lexeme
  PROVE  /\ Append(c, call) \in Seq(Lexeme) /\ Len(Append(c, call)) = Len(c) + 1
         /\ Append(c, call) # <<>> /\ Len(c) \in Nat
         /\ KeyLast(Append(c, call)) <=> (call[1] = "key")
<1>1. PICK d \in Seq(Lexeme) : /\ d = Append(c, call) /\ Len(d) = Len(c) + 1 /\ Len(c) \in Nat
                               /\ d[Len(d)] = call
  <2>1. PICK d : d = Append(c, call)
    OBVIOUS
  <2>2. d \in Seq(Lexeme) /\ Len(d) = Len(c) + 1 /\ d[Len(c) + 1] = call
    BY <2>1, AppendShape
  <2>3. Len(c) \in Nat /\ d[Len(d)] = call
    BY <2>2, LenIsNat
  <2>4. QED
    BY <2>1, <2>2, <2>3
<1>2. d # <<>>
  BY <1>1
<1>3. KeyLast(d) <=> (call[1] = "key")
  BY <1>1, <1>2 DEF KeyLast
<1>4. QED
  BY <1>1, <1>2, <1>3

LEMMA DeletesMore ==
  ASSUME NEW c \in Seq(Lexeme), NEW call \in Lexeme
  PROVE  Deletes(Append(c, call)) = Deletes(c) \cup ({Delete} \cap BytesOf(call))
<1>1. PICK d \in Seq(Lexeme) : /\ d = Append(c, call) /\ Len(d) = Len(c) + 1 /\ Len(c) \in Nat
                              /\ d[Len(c) + 1] = call /\ \A k \in 1 .. Len(c) : d[k] = c[k]
  <2>1. PICK d : d = Append(c, call)
    OBVIOUS
  <2>2. /\ d \in Seq(Lexeme) /\ Len(d) = Len(c) + 1 /\ d[Len(c) + 1] = call
        /\ \A k \in 1 .. Len(c) : d[k] = c[k]
    BY <2>1, AppendShape
  <2>3. QED
    BY <2>1, <2>2, LenIsNat
<1>2. DOMAIN d = 1 .. Len(c) + 1 /\ DOMAIN c = 1 .. Len(c)
  BY <1>1
<1>3. {BytesOf(d[k]) : k \in DOMAIN d} = {BytesOf(c[k]) : k \in DOMAIN c} \cup {BytesOf(call)}
  <2>1. ASSUME NEW k \in DOMAIN c
        PROVE  k \in DOMAIN d /\ d[k] = c[k]
    BY <1>1, <1>2
  <2>2. Len(c) + 1 \in DOMAIN d
    BY <1>1, <1>2
  <2>3. ASSUME NEW k \in DOMAIN d, k # Len(c) + 1
        PROVE  k \in DOMAIN c
    BY <1>1, <1>2, <2>3
  <2>4. QED
    BY <1>1, <2>1, <2>2, <2>3
<1>4. BytesOfAll(d) = BytesOfAll(c) \cup BytesOf(call)
  BY <1>3 DEF BytesOfAll
<1>5. QED
  BY <1>1, <1>4 DEF Deletes

LEMMA BytesOfCalls ==
  ASSUME NEW code, NEW str
  PROVE  /\ BytesOf(Mark(code)) = {} /\ BytesOf(<<"word", "null">>) = {}
         /\ {Delete} \cap BytesOf(<<"key", str>>) = DeletesOf(str)
         /\ {Delete} \cap BytesOf(<<"string", str>>) = DeletesOf(str)
<1>1. BytesOf(Mark(code)) = {}
  BY Marks DEF BytesOf
<1>2. BytesOf(<<"word", "null">>) = {}
  BY DEF BytesOf
<1>3. BytesOf(<<"key", str>>) = {str[k] : k \in DOMAIN str}
  BY DEF BytesOf
<1>4. BytesOf(<<"string", str>>) = {str[k] : k \in DOMAIN str}
  BY DEF BytesOf
<1>5. QED
  BY <1>1, <1>2, <1>3, <1>4 DEF Delete, DeletesOf

LEMMA DeletesSame ==
  ASSUME NEW c \in Seq(Lexeme), NEW call \in Lexeme, BytesOf(call) = {}
  PROVE  Deletes(Append(c, call)) = Deletes(c)
BY DeletesMore

LEMMA Lexemes ==
  /\ \A code \in {91, 93, 123, 125} : Mark(code) \in Lexeme
  /\ \A s \in Seq(Byte) : <<"key", s>> \in Lexeme /\ <<"string", s>> \in Lexeme
  /\ <<"word", "null">> \in Lexeme
BY DEF Lexeme

(***************************************************************************)
(* Before a value the reader waits for a value, before a key for a key.      *)
(***************************************************************************)
Writable(j, n, c, wants) ==
  \E ctx, o, w : /\ w \in wants /\ Ready(WriteValuePrefix(j), ctx, Len(n))
                 /\ Seen(WriteValuePrefix(j)) = Reader("between", o, <<>>, w, n, c, Deletes(c))

LEMMA BeforeValue ==
  ASSUME NEW j, NEW n, NEW c, InStep(j, n, c), MayWrite(n, c)
  PROVE  Writable(j, n, c, {"value", "valueOrEnd"})
<1>1. PICK ctx, o : /\ Ready(j, ctx, Len(n)) /\ Fits(ctx, n, c)
                    /\ Seen(j) = Reader("between", o, <<>>, Want(ctx, n), n, c, Deletes(c))
  BY DEF InStep
<1>2. /\ ctx \in {"start", "openBrace", "key", "value"}
      /\ ctx = "value" => n # <<>>
      /\ ctx \in {"openBrace", "value"} => Innermost(n) = Mark(91)
  BY <1>1 DEF Fits, MayWrite
<1>3. PICK w : w = IF ctx = "value" THEN CommaWant(n) ELSE Want(ctx, n)
  OBVIOUS
<1>4. w \in {"value", "valueOrEnd"}
  <2>1. CASE ctx \in {"start", "key"}
    BY <1>3, <2>1 DEF Want
  <2>2. CASE ctx \in {"openBrace", "value"}
    <3>1. Innermost(n) # Mark(123)
      BY <1>2, <2>2, SomeMarksDiffer
    <3>2. QED
      BY <1>3, <2>2, <3>1 DEF Want, CommaWant
  <2>3. QED
    BY <1>2, <2>1, <2>2
<1>5. ctx = "value" => Want(ctx, n) = "separator" /\ n # <<>>
  BY <1>2 DEF Want, WhenDone
<1>6. PICK want : want = Want(ctx, n)
  OBVIOUS
<1>7. /\ Seen(j) = Reader("between", o, <<>>, want, n, c, Deletes(c))
      /\ ctx = "value" => want = "separator" /\ n # <<>>
  BY <1>1, <1>5, <1>6
<1>8. /\ Ready(WriteValuePrefix(j), ctx, Len(n))
      /\ Seen(WriteValuePrefix(j))
           = Reader("between", o, <<>>, IF ctx = "value" THEN CommaWant(n) ELSE want, n, c, Deletes(c))
  BY <1>1, <1>2, <1>7, PrefixIsWritten
<1>9. Seen(WriteValuePrefix(j)) = Reader("between", o, <<>>, w, n, c, Deletes(c))
  BY <1>3, <1>6, <1>8
<1>10. QED
  BY <1>4, <1>8, <1>9 DEF Writable

LEMMA BeforeKey ==
  ASSUME NEW j, NEW n, NEW c, InStep(j, n, c), n # <<>>, Innermost(n) = Mark(123), ~KeyLast(c)
  PROVE  Writable(j, n, c, {"key", "keyOrEnd"})
<1>1. PICK ctx, o : /\ Ready(j, ctx, Len(n)) /\ Fits(ctx, n, c)
                    /\ Seen(j) = Reader("between", o, <<>>, Want(ctx, n), n, c, Deletes(c))
  BY DEF InStep
<1>2. ctx \in {"openBrace", "value"}
  BY <1>1 DEF Fits
<1>3. PICK w : w = IF ctx = "value" THEN CommaWant(n) ELSE Want(ctx, n)
  OBVIOUS
<1>4. w \in {"key", "keyOrEnd"}
  BY <1>2, <1>3 DEF CommaWant, Want
<1>5. ctx = "value" => Want(ctx, n) = "separator" /\ n # <<>>
  BY DEF Want, WhenDone
<1>6. PICK want : want = Want(ctx, n)
  OBVIOUS
<1>7. /\ Seen(j) = Reader("between", o, <<>>, want, n, c, Deletes(c))
      /\ ctx = "value" => want = "separator" /\ n # <<>>
  BY <1>1, <1>5, <1>6
<1>8. /\ Ready(WriteValuePrefix(j), ctx, Len(n))
      /\ Seen(WriteValuePrefix(j))
           = Reader("between", o, <<>>, IF ctx = "value" THEN CommaWant(n) ELSE want, n, c, Deletes(c))
  BY <1>1, <1>2, <1>7, PrefixIsWritten
<1>9. Seen(WriteValuePrefix(j)) = Reader("between", o, <<>>, w, n, c, Deletes(c))
  BY <1>3, <1>6, <1>8
<1>10. QED
  BY <1>4, <1>8, <1>9 DEF Writable

(***************************************************************************)
(* Each call keeps them in step.                                            *)
(***************************************************************************)
LEMMA ValueIsDone ==
  ASSUME NEW j, NEW n, NEW c, NEW call \in Lexeme, NEW o, Bounded(n, Append(c, call)),
         c \in Seq(Lexeme), call[1] # "key", Ready(j, "value", Len(n)),
         Seen(j) = Reader("between", o, <<>>, WhenDone(n), n, Append(c, call), Deletes(Append(c, call)))
  PROVE  InStep(j, n, Append(c, call))
<1>1. Append(c, call) # <<>> /\ ~KeyLast(Append(c, call))
  BY LastCall
<1>2. PICK d : d = Append(c, call)
  OBVIOUS
<1>3. Fits("value", n, d)
  BY <1>1, <1>2 DEF Fits
<1>4. Want("value", n) = WhenDone(n)
  BY DEF Want
<1>5. Seen(j) = Reader("between", o, <<>>, Want("value", n), n, d, Deletes(d)) /\ Bounded(n, d)
  BY <1>2, <1>4
<1>6. InStep(j, n, d)
  BY <1>3, <1>5 DEF InStep
<1>7. QED
  BY <1>2, <1>6

LEMMA KeepsOpening ==
  ASSUME NEW j, NEW n, NEW c, InStep(j, n, c), MayWrite(n, c), Len(n) < MaxDepth,
         Len(c) < MaxCalls, NEW brace \in {123, 91}
  PROVE  InStep(Open(j, brace), Append(n, Mark(brace)), Append(c, Mark(brace)))
<1>1. PICK ctx, o, w : /\ w \in {"value", "valueOrEnd"} /\ Ready(WriteValuePrefix(j), ctx, Len(n))
                       /\ Seen(WriteValuePrefix(j)) = Reader("between", o, <<>>, w, n, c, Deletes(c))
  BY BeforeValue DEF Writable
<1>2. PICK mark : mark = Mark(brace)
  OBVIOUS
<1>3. /\ Ready(Open(j, brace), "openBrace", Len(n) + 1)
      /\ Seen(Open(j, brace)) = Reader("between", o, <<>>, OpenWant(brace), Append(n, mark),
                                      Append(c, mark), Deletes(c))
  BY <1>1, <1>2, OpenIsWritten
<1>4. mark \in Brace /\ mark \in Lexeme /\ mark[1] = "mark"
  BY <1>2, Lexemes, Marks DEF Brace
<1>5. n \in Seq(Brace) /\ c \in Seq(Lexeme) /\ MaxDepth \in Nat /\ MaxCalls \in Nat
  BY CallAssumption DEF InStep, Bounded
<1>6. PICK n1 \in Seq(Brace) : /\ n1 = Append(n, mark) /\ Len(n1) = Len(n) + 1
                               /\ n1[Len(n) + 1] = mark /\ Len(n) \in Nat
  BY <1>4, <1>5, AppendShape, LenIsNat
<1>7. PICK c1 \in Seq(Lexeme) : /\ c1 = Append(c, mark) /\ Len(c1) = Len(c) + 1
                                /\ c1 # <<>> /\ ~KeyLast(c1) /\ Len(c) \in Nat
  <2>1. PICK c1 : c1 = Append(c, mark)
    OBVIOUS
  <2>2. c1 \in Seq(Lexeme) /\ Len(c1) = Len(c) + 1 /\ c1 # <<>> /\ Len(c) \in Nat
    BY <1>4, <1>5, <2>1, LastCall
  <2>3. ~KeyLast(c1)
    BY <1>4, <1>5, <2>1, LastCall
  <2>4. QED
    BY <2>1, <2>2, <2>3
<1>8. Bounded(n1, c1)
  BY <1>5, <1>6, <1>7 DEF Bounded
<1>9. Innermost(n1) = mark /\ n1 # <<>>
  BY <1>6 DEF Innermost
<1>10. Fits("openBrace", n1, c1)
  BY <1>7, <1>9 DEF Fits
<1>11. Want("openBrace", n1) = OpenWant(brace)
  BY <1>2, <1>9, SomeMarksDiffer DEF Want, OpenWant
<1>15. Deletes(c1) = Deletes(c)
  BY <1>2, <1>4, <1>5, <1>7, BytesOfCalls, DeletesSame
<1>12. /\ Ready(Open(j, brace), "openBrace", Len(n1))
       /\ Seen(Open(j, brace)) = Reader("between", o, <<>>, Want("openBrace", n1), n1, c1, Deletes(c1))
  BY <1>3, <1>6, <1>7, <1>11, <1>15
<1>13. InStep(Open(j, brace), n1, c1)
  BY <1>8, <1>10, <1>12 DEF InStep
<1>14. QED
  BY <1>2, <1>6, <1>7, <1>13

LEMMA KeepsClosing ==
  ASSUME NEW j, NEW n, NEW c, InStep(j, n, c), n # <<>>, ~KeyLast(c), Len(c) < MaxCalls,
         NEW brace, NEW end, Innermost(n) = Mark(brace), Ends(brace, end)
  PROVE  InStep(Close(j, end), Outer(n), Append(c, Mark(end)))
<1>1. PICK ctx, o : /\ Ready(j, ctx, Len(n)) /\ Fits(ctx, n, c)
                    /\ Seen(j) = Reader("between", o, <<>>, Want(ctx, n), n, c, Deletes(c))
  BY DEF InStep
<1>2. ctx \in {"openBrace", "value"}
  BY <1>1 DEF Fits
<1>3. PICK w : w = Want(ctx, n)
  OBVIOUS
<1>4. w \in {"keyOrEnd", "valueOrEnd", "separator"}
  BY <1>2, <1>3 DEF Want, WhenDone
<1>5. CanClose(w, n, brace, end)
  BY <1>4 DEF CanClose
<1>6. n \in Seq(Brace) /\ c \in Seq(Lexeme) /\ Len(n) <= MaxDepth /\ MaxDepth \in Nat /\ MaxCalls \in Nat
  BY CallAssumption DEF InStep, Bounded
<1>7. PICK n1 \in Seq(Brace) : n1 = Outer(n) /\ Len(n1) = Len(n) - 1 /\ Len(n) \in Nat /\ Len(n) # 0
  BY <1>6, InnermostIsBrace
<1>8. PICK mark : mark = Mark(end)
  OBVIOUS
<1>9. mark \in Lexeme /\ mark[1] # "key"
  BY <1>8, Lexemes, Marks DEF Ends
<1>10. Len(Append(c, mark)) = Len(c) + 1 /\ Append(c, mark) \in Seq(Lexeme) /\ Len(c) \in Nat
  BY <1>6, <1>9, LastCall
<1>11. Bounded(n1, Append(c, mark))
  BY <1>6, <1>7, <1>10 DEF Bounded
<1>12. /\ Ready(Close(j, end), "value", Len(n) - 1)
       /\ Seen(Close(j, end)) = Reader("between", o, <<>>, WhenDone(Outer(n)), Outer(n),
                                       Append(c, Mark(end)), Deletes(c))
  BY <1>1, <1>3, <1>5, <1>7, CloseIsWritten
<1>16. Deletes(Append(c, mark)) = Deletes(c)
  BY <1>6, <1>8, <1>9, BytesOfCalls, DeletesSame
<1>13. /\ Ready(Close(j, end), "value", Len(n1))
       /\ Seen(Close(j, end)) = Reader("between", o, <<>>, WhenDone(n1), n1, Append(c, mark),
                                       Deletes(Append(c, mark)))
  BY <1>7, <1>8, <1>12, <1>16
<1>14. InStep(Close(j, end), n1, Append(c, mark))
  BY <1>6, <1>9, <1>11, <1>13, ValueIsDone
<1>15. QED
  BY <1>7, <1>8, <1>14

LEMMA KeepsKey ==
  ASSUME NEW j, NEW n, NEW c, InStep(j, n, c), n # <<>>, Innermost(n) = Mark(123), ~KeyLast(c),
         Len(c) < MaxCalls, NEW key \in Seq(Byte)
  PROVE  InStep(WriteKey(j, key), n, Append(c, <<"key", key>>))
<1>1. PICK ctx, o, w : /\ w \in {"key", "keyOrEnd"} /\ Ready(WriteValuePrefix(j), ctx, Len(n))
                       /\ Seen(WriteValuePrefix(j)) = Reader("between", o, <<>>, w, n, c, Deletes(c))
  BY BeforeKey DEF Writable
<1>2. PICK call : call = <<"key", key>>
  OBVIOUS
<1>3. /\ Ready(WriteKey(j, key), "key", Len(n))
      /\ Seen(WriteKey(j, key)) = Reader("between", key, <<>>, "value", n, Append(c, call),
                                         Deletes(c) \cup DeletesOf(key))
  <2>1. PICK p : p = Deletes(c)
    OBVIOUS
  <2>2. Seen(WriteValuePrefix(j)) = Reader("between", o, <<>>, w, n, c, p)
    BY <1>1, <2>1
  <2>3. w \in {"key", "keyOrEnd"} /\ Ready(WriteValuePrefix(j), ctx, Len(n))
    BY <1>1
  <2>4. KeyWritten(j, Len(n), n, c, p, key)
    BY <2>2, <2>3, KeyIsWritten
  <2>5. QED
    BY <1>2, <2>1, <2>4 DEF KeyWritten
<1>4. call \in Lexeme /\ call[1] = "key"
  <2>1. call \in Lexeme
    BY <1>2, Lexemes
  <2>2. call[1] = "key"
    BY <1>2
  <2>3. QED
    BY <2>1, <2>2
<1>5. Bounded(n, c) /\ c \in Seq(Lexeme) /\ MaxCalls \in Nat
  BY CallAssumption DEF InStep, Bounded
<1>6. PICK c1 \in Seq(Lexeme) : /\ c1 = Append(c, call) /\ Len(c1) = Len(c) + 1
                                /\ c1 # <<>> /\ KeyLast(c1) /\ Len(c) \in Nat
  BY <1>4, <1>5, LastCall
<1>13. Deletes(c1) = Deletes(c) \cup DeletesOf(key)
  <2>1. Deletes(Append(c, call)) = Deletes(c) \cup ({Delete} \cap BytesOf(call))
    BY <1>4, <1>5, DeletesMore
  <2>2. {Delete} \cap BytesOf(<<"key", key>>) = DeletesOf(key)
    BY BytesOfCalls
  <2>3. QED
    BY <1>2, <1>6, <2>1, <2>2
<1>7. Bounded(n, c1)
  BY <1>5, <1>6 DEF Bounded
<1>8. Fits("key", n, c1)
  BY <1>6 DEF Fits
<1>9. Want("key", n) = "value"
  BY DEF Want
<1>10. Seen(WriteKey(j, key)) = Reader("between", key, <<>>, Want("key", n), n, c1, Deletes(c1))
  BY <1>3, <1>6, <1>9, <1>13
<1>11. InStep(WriteKey(j, key), n, c1)
  BY <1>3, <1>7, <1>8, <1>10 DEF InStep
<1>12. QED
  BY <1>2, <1>6, <1>11

LEMMA KeepsScalar ==
  ASSUME NEW j, NEW n, NEW c, InStep(j, n, c), MayWrite(n, c), Len(c) < MaxCalls
  PROVE  /\ \A str \in Seq(Byte) : InStep(WriteVal(j, str), n, Append(c, <<"string", str>>))
         /\ InStep(WriteWord(j, "null"), n, Append(c, <<"word", "null">>))
<1>1. PICK ctx, o, w : /\ w \in {"value", "valueOrEnd"} /\ Ready(WriteValuePrefix(j), ctx, Len(n))
                       /\ Seen(WriteValuePrefix(j)) = Reader("between", o, <<>>, w, n, c, Deletes(c))
  BY BeforeValue DEF Writable
<1>2. Bounded(n, c) /\ c \in Seq(Lexeme) /\ MaxCalls \in Nat
  BY CallAssumption DEF InStep, Bounded
<1>3. ASSUME NEW call \in Lexeme
      PROVE  Bounded(n, Append(c, call))
  <2>1. Append(c, call) \in Seq(Lexeme) /\ Len(Append(c, call)) = Len(c) + 1 /\ Len(c) \in Nat
    BY <1>2, LastCall
  <2>2. QED
    BY <1>2, <2>1 DEF Bounded
<1>4. ASSUME NEW str \in Seq(Byte)
      PROVE  InStep(WriteVal(j, str), n, Append(c, <<"string", str>>))
  <2>1. PICK call : call = <<"string", str>>
    OBVIOUS
  <2>2. call \in Lexeme
    BY <2>1, Lexemes
  <2>3. call[1] # "key"
    BY <2>1
  <2>4. /\ Ready(WriteVal(j, str), "value", Len(n))
        /\ Seen(WriteVal(j, str)) = Reader("between", str, <<>>, WhenDone(n), n, Append(c, call),
                                           Deletes(c) \cup DeletesOf(str))
    <3>1. PICK p : p = Deletes(c)
      OBVIOUS
    <3>2. Seen(WriteValuePrefix(j)) = Reader("between", o, <<>>, w, n, c, p)
      BY <1>1, <3>1
    <3>3. w \in {"value", "valueOrEnd"} /\ Ready(WriteValuePrefix(j), ctx, Len(n))
      BY <1>1
    <3>4. ValWritten(j, Len(n), n, c, p, str)
      BY <3>2, <3>3, ValIsWritten
    <3>5. QED
      BY <2>1, <3>1, <3>4 DEF ValWritten
  <2>7. Deletes(Append(c, call)) = Deletes(c) \cup DeletesOf(str)
    <3>1. Deletes(Append(c, call)) = Deletes(c) \cup ({Delete} \cap BytesOf(call))
      BY <1>2, <2>2, DeletesMore
    <3>2. {Delete} \cap BytesOf(<<"string", str>>) = DeletesOf(str)
      BY BytesOfCalls
    <3>3. QED
      BY <2>1, <3>1, <3>2
  <2>8. Seen(WriteVal(j, str)) = Reader("between", str, <<>>, WhenDone(n), n, Append(c, call),
                                        Deletes(Append(c, call)))
    BY <2>4, <2>7
  <2>5. InStep(WriteVal(j, str), n, Append(c, call))
    BY <1>2, <1>3, <2>2, <2>3, <2>4, <2>8, ValueIsDone
  <2>6. QED
    BY <2>1, <2>5
<1>5. InStep(WriteWord(j, "null"), n, Append(c, <<"word", "null">>))
  <2>1. PICK call : call = <<"word", "null">>
    OBVIOUS
  <2>2. call \in Lexeme
    BY <2>1, Lexemes
  <2>3. call[1] # "key"
    BY <2>1
  <2>4. /\ Ready(WriteWord(j, "null"), "value", Len(n))
        /\ Seen(WriteWord(j, "null")) = Reader("between", o, <<>>, WhenDone(n), n, Append(c, call),
                                               Deletes(Append(c, call)))
    <3>1. Deletes(Append(c, call)) = Deletes(c)
      BY <1>2, <2>1, <2>2, BytesOfCalls, DeletesSame
    <3>2. QED
      BY <1>1, <2>1, <3>1, WordIsWritten
  <2>5. InStep(WriteWord(j, "null"), n, Append(c, call))
    BY <1>2, <1>3, <2>2, <2>3, <2>4, ValueIsDone
  <2>6. QED
    BY <2>1, <2>5
<1>6. QED
  BY <1>4, <1>5
-----------------------------------------------------------------------------
JsonInv == InStep(json, nest, calls)

LEMMA StartIsInStep ==
  ASSUME NEW lineEnding \in LineEndings
  PROVE  InStep(JsonStart(lineEnding), <<>>, <<>>)
<1>1. PICK e \in Endings : e = Chars(lineEnding)
  BY CallAssumption DEF Endings
<1>2. PICK no, written : no = <<>> /\ written = FALSE
  OBVIOUS
<1>3. no \in Seq(Symbol) /\ Len(no) = 0 /\ no \in Seq(Brace) /\ no \in Seq(Lexeme)
  BY <1>2
<1>4. PICK j : j = JsonStart(lineEnding)
  OBVIOUS
<1>5. j = Writer(no, e, 0, written, 0, 0, "start")
  BY <1>1, <1>2, <1>4 DEF JsonStart, Writer, Step, Always
<1>6. IsWidth(no, 0)
  BY <1>3 DEF IsWidth
<1>7. Sound(no, e, 0, written, 0, 0)
  BY <1>2, <1>3, <1>6 DEF Sound
<1>8. Ready(j, "start", Len(no))
  BY <1>3, <1>5, <1>7 DEF Ready, IsWriter
<1>9. j.stream = no
  BY <1>5, WriterFields
<1>10. Seen(j) = Reader("between", <<>>, <<>>, "value", no, no, Deletes(no))
  <2>1. Seen(j) = Reader("between", <<>>, <<>>, "value", no, no, {})
    BY <1>2, <1>9, AfterNothing DEF Seen, Start, Reader
  <2>2. Deletes(no) = {}
    <3>1. DOMAIN no = {}
      BY <1>3
    <3>2. QED
      BY <3>1 DEF Deletes, BytesOfAll
  <2>3. QED
    BY <2>1, <2>2
<1>11. Want("start", no) = "value"
  BY DEF Want
<1>12. Fits("start", no, no)
  BY <1>2 DEF Fits, KeyLast
<1>13. Bounded(no, no)
  BY <1>3, CallAssumption DEF Bounded
<1>14. InStep(j, no, no)
  BY <1>8, <1>10, <1>11, <1>12, <1>13 DEF InStep
<1>15. QED
  BY <1>2, <1>4, <1>14

LEMMA StringsAreBytes ==
  /\ Keys \subseteq Seq(Byte) /\ Strings \subseteq Seq(Byte) /\ LoneStrings \subseteq Seq(Byte)
BY CallAssumption DEF Byte

LEMMA StepsStayInStep ==
  ASSUME JsonInv, Next
  PROVE  JsonInv'
<1> USE DEF JsonInv
<1>1. /\ MayWriteValue => MayWrite(nest, calls)
      /\ AfterKey <=> KeyLast(calls)
  BY DEF MayWriteValue, MayWrite, AfterKey, KeyLast
<1>2. CASE CallStartObject
  <2>1. /\ MayWrite(nest, calls) /\ Len(nest) < MaxDepth /\ Len(calls) < MaxCalls
        /\ calls' = Append(calls, Mark(123)) /\ nest' = Append(nest, Mark(123))
        /\ json' = Open(json, 123)
    BY <1>1, <1>2 DEF CallStartObject, CallStart, Call, StartObject
  <2>2. QED
    BY <2>1, KeepsOpening
<1>3. CASE CallStartArray
  <2>1. /\ MayWrite(nest, calls) /\ Len(nest) < MaxDepth /\ Len(calls) < MaxCalls
        /\ calls' = Append(calls, Mark(91)) /\ nest' = Append(nest, Mark(91))
        /\ json' = Open(json, 91)
    BY <1>1, <1>3 DEF CallStartArray, CallStart, Call, StartArray
  <2>2. QED
    BY <2>1, KeepsOpening
<1>4. CASE CallEndObject
  <2>1. /\ nest # <<>> /\ Innermost(nest) = Mark(123) /\ ~KeyLast(calls) /\ Len(calls) < MaxCalls
        /\ calls' = Append(calls, Mark(125)) /\ nest' = Outer(nest) /\ json' = Close(json, 125)
    BY <1>1, <1>4 DEF CallEndObject, CallEnd, Call, EndObject
  <2>2. Ends(123, 125)
    BY DEF Ends
  <2>3. InStep(Close(json, 125), Outer(nest), Append(calls, Mark(125)))
    BY <2>1, <2>2, KeepsClosing
  <2>4. QED
    BY <2>1, <2>3
<1>5. CASE CallEndArray
  <2>1. /\ nest # <<>> /\ Innermost(nest) = Mark(91) /\ ~KeyLast(calls) /\ Len(calls) < MaxCalls
        /\ calls' = Append(calls, Mark(93)) /\ nest' = Outer(nest) /\ json' = Close(json, 93)
    BY <1>1, <1>5 DEF CallEndArray, CallEnd, Call, EndArray
  <2>2. Ends(91, 93)
    BY DEF Ends
  <2>3. InStep(Close(json, 93), Outer(nest), Append(calls, Mark(93)))
    BY <2>1, <2>2, KeepsClosing
  <2>4. QED
    BY <2>1, <2>3
<1>6. CASE CallWriteKey
  <2>1. PICK key \in Keys : /\ Len(calls) < MaxCalls /\ calls' = Append(calls, <<"key", key>>)
                            /\ json' = WriteKey(json, key)
    BY <1>6 DEF CallWriteKey, Call
  <2>2. /\ nest # <<>> /\ Innermost(nest) = Mark(123) /\ ~KeyLast(calls) /\ nest' = nest
    BY <1>1, <1>6 DEF CallWriteKey
  <2>3. key \in Seq(Byte)
    BY StringsAreBytes
  <2>4. QED
    BY <2>1, <2>2, <2>3, KeepsKey
<1>7. CASE CallWriteVal
  <2>1. MayWrite(nest, calls) /\ nest' = nest /\ Len(calls) < MaxCalls
    BY <1>1, <1>7 DEF CallWriteVal, Call
  <2>2. \/ \E str \in Strings \cup LoneStrings :
             calls' = Append(calls, <<"string", str>>) /\ json' = WriteVal(json, str)
        \/ calls' = Append(calls, <<"word", "null">>) /\ json' = WriteWord(json, "null")
    BY <1>7 DEF CallWriteVal, Call
  <2>3. CASE \E str \in Strings \cup LoneStrings :
               calls' = Append(calls, <<"string", str>>) /\ json' = WriteVal(json, str)
    <3>1. PICK str \in Seq(Byte) :
            calls' = Append(calls, <<"string", str>>) /\ json' = WriteVal(json, str)
      BY <2>3, StringsAreBytes
    <3>2. QED
      BY <2>1, <3>1, KeepsScalar
  <2>4. CASE calls' = Append(calls, <<"word", "null">>) /\ json' = WriteWord(json, "null")
    BY <2>1, <2>4, KeepsScalar
  <2>5. QED
    BY <2>2, <2>3, <2>4
<1>8. QED
  BY <1>2, <1>3, <1>4, <1>5, <1>6, <1>7 DEF Next

LEMMA StaysInStep == Spec => []JsonInv
<1>1. Init => JsonInv
  BY StartIsInStep DEF Init, JsonInv
<1>2. JsonInv /\ [Next]_vars => JsonInv'
  <2>1. JsonInv /\ UNCHANGED vars => JsonInv'
    BY DEF JsonInv, vars
  <2>2. QED
    BY <2>1, StepsStayInStep
<1>3. QED
  BY <1>1, <1>2, PTL DEF Spec

(***************************************************************************)
(* What the invariant says of the text.                                     *)
(***************************************************************************)
LEMMA WidthIsOfLastLine ==
  ASSUME NEW width, json.stream \in Seq(Symbol), IsWidth(json.stream, width)
  PROVE  width = Len(LastLine)
<1>1. PICK s \in Seq(Symbol) : s = json.stream
  OBVIOUS
<1>2. /\ DOMAIN s = 1 .. Len(s) /\ Len(s) \in Nat /\ width \in 0 .. Len(s)
      /\ \A k \in 1 .. Len(s) : k > Len(s) - width => s[k] # Char(10)
      /\ width # Len(s) => s[Len(s) - width] = Char(10)
  BY <1>1 DEF IsWidth
<1>3. PICK ends : ends = {k \in 1 .. Len(s) : s[k] = Char(10)}
  OBVIOUS
<1>4. LastLine = IF ends = {} THEN s
                 ELSE SubSeq(s, (CHOOSE k \in ends : \A l \in ends : l <= k) + 1, Len(s))
  BY <1>1, <1>2, <1>3 DEF LastLine
<1>5. CASE width = Len(s)
  <2>1. ends = {}
    BY <1>2, <1>3, <1>5
  <2>2. QED
    BY <1>4, <1>5, <2>1
<1>6. CASE width # Len(s)
  <2>0. PICK n \in Nat : n = Len(s)
    BY <1>2
  <2>12. n \in Int /\ width \in 0 .. n /\ width # n
    <3>1. n \in Int
      OBVIOUS
    <3>2. width \in 0 .. n
      BY <1>2, <2>0
    <3>3. width # n
      BY <1>6, <2>0
    <3>4. QED
      BY <3>1, <3>2, <3>3
  <2>1. PICK m \in 1 .. n : m = n - width
    BY <2>12
  <2>2. m \in ends
    <3>1. s[m] = Char(10)
      BY <1>2, <1>6, <2>0, <2>1
    <3>2. QED
      BY <1>3, <2>0, <3>1
  <2>3. ASSUME NEW l \in ends
        PROVE  l \in 1 .. n /\ l <= m
    <3>1. l \in 1 .. n /\ s[l] = Char(10)
      BY <1>3, <2>0
    <3>2. ~(l > n - width)
      BY <1>2, <2>0, <3>1
    <3>3. QED
      BY <2>1, <2>12, <3>1, <3>2
  <2>4. PICK last : last = CHOOSE k \in ends : \A l \in ends : l <= k
    OBVIOUS
  <2>5. last \in ends /\ \A l \in ends : l <= last
    BY <2>2, <2>3, <2>4
  <2>6. last = m
    BY <2>2, <2>3, <2>5
  <2>7. LastLine = SubSeq(s, m + 1, n)
    BY <1>4, <2>0, <2>2, <2>4, <2>6
  <2>8. Len(SubSeq(s, m + 1, n)) = n - m
    BY <2>0, <2>1
  <2>9. n - m = width
    BY <2>1, <2>12
  <2>10. QED
    BY <2>7, <2>8, <2>9
<1>7. QED
  BY <1>5, <1>6

LEMMA CountersOfAWriter ==
  ASSUME JsonInv
  PROVE  CountersAreTrue
<1>1. PICK ctx, o : /\ Ready(json, ctx, Len(nest)) /\ Fits(ctx, nest, calls)
                    /\ Seen(json) = Reader("between", o, <<>>, Want(ctx, nest), nest, calls, Deletes(calls))
  BY DEF JsonInv, InStep
<1>2. PICK written : IsWriter(json, written, ctx, Len(nest))
  BY <1>1 DEF Ready
<1>3. PICK s, e, width, size :
        /\ json = Writer(s, e, Len(nest), written, width, size, ctx)
        /\ Sound(s, e, Len(nest), written, width, size)
  BY <1>2 DEF IsWriter
<1>4. /\ json.stream = s /\ json.lineWidth = width /\ json.size = size
      /\ json.indentationLevel = Len(nest) /\ json.context = ctx
  BY <1>3, WriterFields
<1>5. s \in Seq(Symbol) /\ IsWidth(s, width) /\ size = Len(s)
  BY <1>3 DEF Sound
<1>6. json.lineWidth = Len(LastLine)
  BY <1>4, <1>5, WidthIsOfLastLine
<1>7. nest \in Seq(Brace) /\ Len(nest) <= MaxDepth /\ Len(calls) <= MaxCalls
  BY DEF JsonInv, InStep, Bounded
<1>8. Types
  <2>1. ASSUME NEW k \in DOMAIN json.stream
        PROVE  json.stream[k][1] \in {"c", "word"}
    <3>1. PICK x \in Symbol : x = json.stream[k]
      BY <1>4, <1>5, <2>1
    <3>2. x[1] = "c" \/ x[1] = "word"
      BY CharShape DEF Symbol
    <3>3. QED
      BY <3>1, <3>2
  <2>2. json.context \in {"start", "openBrace", "key", "value"}
    BY <1>1, <1>4 DEF Fits
  <2>3. json.indentationLevel \in 0 .. MaxDepth
    BY <1>4, <1>7, LenIsNat, CallAssumption
  <2>4. \A k \in DOMAIN nest : nest[k] \in {Mark(123), Mark(91)}
    BY <1>7 DEF Brace
  <2>5. QED
    BY <1>7, <2>1, <2>2, <2>3, <2>4 DEF Types
<1>9. QED
  BY <1>4, <1>5, <1>6, <1>8 DEF CountersAreTrue

LEMMA DumpOfAWriter ==
  ASSUME JsonInv
  PROVE  DumpReadsBack
<1>1. SUFFICES ASSUME Finished
               PROVE  /\ Parsed(json.stream) = calls
                      /\ UnlistedBytes(json.stream) = {Delete} \cap BytesOfAll(calls)
  BY DEF DumpReadsBack
<1>2. PICK ctx, o : /\ Ready(json, ctx, Len(nest)) /\ Fits(ctx, nest, calls)
                    /\ Seen(json) = Reader("between", o, <<>>, Want(ctx, nest), nest, calls, Deletes(calls))
  BY DEF JsonInv, InStep
<1>3. ctx = "value"
  BY <1>1, <1>2 DEF Finished, Fits
<1>4. Want(ctx, nest) = "nothing"
  BY <1>1, <1>3 DEF Want, WhenDone, Finished
<1>5. PICK st : st = After(json.stream)
  OBVIOUS
<1>6. /\ st.mode = "between" /\ st.want = "nothing" /\ st.calls = calls
      /\ st.unlisted = Deletes(calls)
  BY <1>2, <1>4, <1>5, ReaderFields DEF Seen
<1>7. QED
  BY <1>5, <1>6 DEF Parsed, UnlistedBytes, Deletes

(* However the calls of a dump are nested and whatever their strings are, the *)
(* counters of the code writer are those of its text, its last line and its  *)
(* open braces (CodeWriter, JSONWriter).                                     *)
THEOREM CountersHold == Spec => []CountersAreTrue
<1>1. JsonInv => CountersAreTrue
  BY CountersOfAWriter
<1>2. QED
  BY <1>1, StaysInStep, PTL

(* A finished dump is JSON, and says the calls that wrote it, for strings of  *)
(* any bytes: escapeString leaves no quote and no backslash that ends or      *)
(* changes the string, and every comma is where JSON wants one.  The bytes    *)
(* in it that json.h:16-24 does not list are those of its strings that are    *)
(* 127, and no others: the range that escapeString escapes is too small by    *)
(* that byte and by none other (util.cpp:72).                                *)
THEOREM DumpsReadBack == Spec => []DumpReadsBack
<1>1. JsonInv => DumpReadsBack
  BY DumpOfAWriter
<1>2. QED
  BY <1>1, StaysInStep, PTL
=============================================================================

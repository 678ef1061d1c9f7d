------------------------------ MODULE JsonWriter ------------------------------
(***************************************************************************)
(* src/src/common/json.cpp on a code writer, with escapeString of util.cpp. *)
(* A string is the sequence of its bytes.                                  *)
(***************************************************************************)
EXTENDS CodeWriter

(***************************************************************************)
(* escapeString.                                                           *)
(***************************************************************************)
Backslash == 92
Quote == 34
(* The letters of \", \\, \b, \f, \n, \r, \t and \v by the byte they mean.   *)
LetterOf ==
  [ch \in {8, 9, 10, 11, 12, 13, Quote, Backslash} |->
     CASE ch = 8 -> 98 [] ch = 9 -> 116 [] ch = 10 -> 110 [] ch = 11 -> 118
       [] ch = 12 -> 102 [] ch = 13 -> 114 [] ch \in {Quote, Backslash} -> ch]

HexDigit(n) == IF n < 10 THEN 48 + n ELSE 55 + n
ByteToString(byte) == <<HexDigit(byte \div 16), HexDigit(byte % 16)>>

IsEscapedIfControl(ch) == ch < 32         (* leaves the other encodings alone *)
IsEscaped(ch) == ch < 32 \/ ch > 127

EscapedByte(ch) ==
  IF ch \in DOMAIN LetterOf THEN <<Backslash, LetterOf[ch]>>
  ELSE IF IsEscaped(ch) THEN <<Backslash, 120>> \o ByteToString(ch)
  ELSE <<ch>>

EscapedByteQuotesOnly(ch) ==              (* leaves the backslash alone *)
  IF ch = Backslash THEN <<Backslash>> ELSE EscapedByte(ch)
EscapeStringQuotesOnly(str) ==
  LET escaped[k \in 0 .. Len(str)] ==
        IF k = 0 THEN <<>> ELSE escaped[k - 1] \o EscapedByteQuotesOnly(str[k])
  IN  escaped[Len(str)]
EscapeString(str) ==
  LET escaped[k \in 0 .. Len(str)] == IF k = 0 THEN <<>> ELSE escaped[k - 1] \o EscapedByte(str[k])
  IN  escaped[Len(str)]
-----------------------------------------------------------------------------
(***************************************************************************)
(* JSONWriter: a code writer with a context.                               *)
(***************************************************************************)
JsonStart(lineEnding) ==
  [stream |-> <<>>, lineEnding |-> Chars(lineEnding), indentation |-> Chars(<<32, 32>>),
   indentationLevel |-> 0, indentationWritten |-> FALSE, doIndentation |-> TRUE,
   lineWidth |-> 0, size |-> 0, context |-> "start"]
In(j, context1) == [j EXCEPT !.context = context1]

WriteString(j, str) ==
  Write(Write(Write(j, Chars(<<Quote>>)), Chars(EscapeString(str))), Chars(<<Quote>>))

WriteValuePrefixNoComma(j) ==             (* forgets the comma *)
  IF j.context \in {"value", "openBrace"} THEN WriteLine(j) ELSE j
WriteValuePrefix(j) ==
  LET j1 == IF j.context = "value" THEN Write(j, Chars(<<44>>)) ELSE j
  IN  IF j.context \in {"value", "openBrace"} THEN WriteLine(j1) ELSE j1

WriteValueSuffix(j) == IF j.indentationLevel = 0 THEN WriteLine(j) ELSE j
WriteCloseBracePrefix(j) == IF j.context = "value" THEN WriteLine(j) ELSE j

Open(j, brace) == In(Indent(Write(WriteValuePrefix(j), Chars(<<brace>>))), "openBrace")
Close(j, brace) ==
  WriteValueSuffix(In(Write(Unindent(WriteCloseBracePrefix(j)), Chars(<<brace>>)), "value"))

StartObject(j) == Open(j, 123)
EndObject(j) == Close(j, 125)
StartArray(j) == Open(j, 91)
EndArray(j) == Close(j, 93)

WriteKey(j, key) ==
  In(Write(WriteString(WriteValuePrefix(j), key), Chars(<<58, 32>>)), "key")

(* A number, or null.                                                      *)
WriteWord(j, word) ==
  WriteValueSuffix(In(Write(WriteValuePrefix(j), <<<<"word", word>>>>), "value"))
WriteVal(j, str) == WriteValueSuffix(In(WriteString(WriteValuePrefix(j), str), "value"))
=============================================================================

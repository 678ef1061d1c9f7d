------------------------------ MODULE JsonReader ------------------------------
(***************************************************************************)
(* A reader of the JSON that src/src/common/json.h describes: JSON, with    *)
(* strings whose bytes are written as in lines 16 to 24.  What it finds is  *)
(* the calls that a writer must have got: "{", "}", "[", "]", <<"key", str>>, *)
(* <<"string", str>> and <<"word", w>>.  It reads a byte that those lines do  *)
(* not list as the byte it is, and remembers that the text is of another     *)
(* variant.                                                                *)
(***************************************************************************)
EXTENDS Integers, Sequences

(***************************************************************************)
(* The reader.  "mode" is where it is: between lexemes, in a string, or      *)
(* "broken" by what is no JSON.  "open" is the bytes of the string that is   *)
(* being read and "escape" the characters after a backslash; "want" is what  *)
(* may come next, "nest" the braces that are open; "unlisted" has the bytes   *)
(* that were in a string though json.h lists no such byte.                  *)
(***************************************************************************)
Start ==
  [mode |-> "between", open |-> <<>>, escape |-> <<>>,
   want |-> "value", nest |-> <<>>, calls |-> <<>>, unlisted |-> {}]
Break(st) == [st EXCEPT !.mode = "broken"]
(***************************************************************************)
(* Grammar.                                                                *)
(***************************************************************************)
Mark(code) == <<"mark", code>>
Innermost(nest) == nest[Len(nest)]
Outer(nest) == SubSeq(nest, 1, Len(nest) - 1)

Called(st, call) == [st EXCEPT !.calls = Append(@, call)]
Done(st) == [st EXCEPT !.want = IF st.nest = <<>> THEN "nothing" ELSE "separator"]
Opened(st, lexeme, want1) == [Called(st, lexeme) EXCEPT !.nest = Append(@, lexeme), !.want = want1]
Closed(st, lexeme) == Done([Called(st, lexeme) EXCEPT !.nest = Outer(@)])

Closes(st, lexeme) ==
  /\ st.want \in {"keyOrEnd", "valueOrEnd", "separator"} /\ st.nest # <<>>
  /\ \/ Innermost(st.nest) = Mark(123) /\ lexeme = Mark(125)
     \/ Innermost(st.nest) = Mark(91) /\ lexeme = Mark(93)
Separates(st, lexeme) == st.want = "separator" /\ st.nest # <<>> /\ lexeme = Mark(44)
WantsValue(st) == st.want \in {"value", "valueOrEnd"}

Take(st, lexeme) ==
  IF Closes(st, lexeme) THEN Closed(st, lexeme)
  ELSE IF WantsValue(st) /\ lexeme = Mark(123) THEN Opened(st, lexeme, "keyOrEnd")
  ELSE IF WantsValue(st) /\ lexeme = Mark(91) THEN Opened(st, lexeme, "valueOrEnd")
  ELSE IF WantsValue(st) /\ lexeme[1] # "mark" THEN Done(Called(st, lexeme))
  ELSE IF st.want \in {"key", "keyOrEnd"} /\ lexeme[1] = "string"
       THEN [Called(st, <<"key", lexeme[2]>>) EXCEPT !.want = "colon"]
  ELSE IF st.want = "colon" /\ lexeme = Mark(58) THEN [st EXCEPT !.want = "value"]
  ELSE IF Separates(st, lexeme)
       THEN [st EXCEPT !.want = IF Innermost(st.nest) = Mark(123) THEN "key" ELSE "value"]
  ELSE Break(st)
(***************************************************************************)
(* Characters.                                                             *)
(***************************************************************************)
HexDigits == (48 .. 57) \cup (65 .. 70)
HexValue(code) == IF code >= 65 THEN code - 55 ELSE code - 48
(* The byte that the letter after a backslash stands for.                    *)
Meaning ==
  [letter \in {34, 92, 98, 116, 110, 118, 102, 114} |->
     CASE letter \in {34, 92} -> letter
       [] letter = 98 -> 8 [] letter = 116 -> 9 [] letter = 110 -> 10
       [] letter = 118 -> 11 [] letter = 102 -> 12 [] letter = 114 -> 13]

Holding(st, byte) == [st EXCEPT !.open = Append(@, byte), !.escape = <<>>]
(* Printable ASCII characters stand for themselves.                          *)
Listed == 32 .. 126
HoldingItself(st, code) == [Holding(st, code) EXCEPT !.unlisted = @ \cup ({code} \ Listed)]
Escaping(st, codes) == [st EXCEPT !.escape = codes]

StringEnds(st) == Take([st EXCEPT !.mode = "between"], <<"string", st.open>>)

ReadInString(st, code) ==
  IF st.escape = <<>>
  THEN IF code = 34 THEN StringEnds(st)
       ELSE IF code = 92 THEN Escaping(st, <<92>>)
       ELSE HoldingItself(st, code)
  ELSE IF Len(st.escape) = 1
  THEN IF code = 120 THEN Escaping(st, <<92, 120>>)
       ELSE IF code \in DOMAIN Meaning THEN Holding(st, Meaning[code])
       ELSE Break(st)
  ELSE IF code \notin HexDigits THEN Break(st)
  ELSE IF Len(st.escape) = 2 THEN Escaping(st, <<92, 120, code>>)
  ELSE Holding(st, 16 * HexValue(st.escape[3]) + HexValue(code))

Read(st, char) ==
  IF st.mode = "broken" THEN st
  ELSE IF st.mode = "string"
       THEN IF char[1] = "word" THEN Break(st) ELSE ReadInString(st, char[2])
  ELSE IF char[1] = "word" THEN Take(st, char)
  ELSE IF char[2] = 34 THEN [st EXCEPT !.mode = "string", !.open = <<>>]
  ELSE IF char[2] \in {10, 13, 32} THEN st
  ELSE Take(st, Mark(char[2]))

(* What the reader is like after a text.                                    *)
After(text) ==
  LET after[k \in 0 .. Len(text)] == IF k = 0 THEN Start ELSE Read(after[k - 1], text[k])
  IN  after[Len(text)]

(* The calls, of a text that is JSON; no calls, of another.                  *)
Parsed(text) ==
  LET st == After(text)
  IN  IF st.mode = "between" /\ st.want = "nothing" THEN st.calls ELSE <<>>
(* None, of a text that is of the variant.                                   *)
UnlistedBytes(text) == After(text).unlisted
=============================================================================

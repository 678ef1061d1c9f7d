------------------------------ MODULE CodeWriter ------------------------------
(***************************************************************************)
(* src/src/common/codewriter.cpp: text with an indentation, and what it     *)
(* counts of it.  A text is a sequence of characters <<"c", code>> and of    *)
(* whole words <<"word", w>> where no property looks into them.  This is as   *)
(* much of it as a JSON writer uses; one character and a line with its text   *)
(* (lines 21 to 38) are written by scripts and bytecode listings only.        *)
(***************************************************************************)
EXTENDS Integers, Sequences

Char(code) == <<"c", code>>
Chars(codes) == [k \in DOMAIN codes |-> Char(codes[k])]

(* The indentation at the head of a line, once for each level.               *)
Indentation(w) ==
  [k \in 1 .. w.indentationLevel * Len(w.indentation) |->
     w.indentation[((k - 1) % Len(w.indentation)) + 1]]

WriteIndentationOfLevels(w) ==           (* forgets how wide a level is *)
  IF w.indentationWritten \/ ~w.doIndentation THEN w
  ELSE [w EXCEPT !.stream = @ \o Indentation(w),
                 !.indentationWritten = TRUE,
                 !.lineWidth = w.indentationLevel,
                 !.size = @ + w.indentationLevel]
WriteIndentation(w) ==
  IF w.indentationWritten \/ ~w.doIndentation THEN w
  ELSE LET width == w.indentationLevel * Len(w.indentation)
       IN  [w EXCEPT !.stream = @ \o Indentation(w),
                     !.indentationWritten = TRUE,
                     !.lineWidth = width,
                     !.size = @ + width]

Write(w, str) ==
  IF str = <<>> THEN w
  ELSE LET w1 == WriteIndentation(w)
       IN  [w1 EXCEPT !.stream = @ \o str, !.lineWidth = @ + Len(str), !.size = @ + Len(str)]

WriteLine(w) ==
  [w EXCEPT !.stream = @ \o w.lineEnding,
            !.indentationWritten = FALSE, !.lineWidth = 0,
            !.size = @ + Len(w.lineEnding)]

Indent(w) == [w EXCEPT !.indentationLevel = @ + 1]
UnindentNot(w) == w                      (* forgets to go back *)
Unindent(w) == [w EXCEPT !.indentationLevel = IF @ > 0 THEN @ - 1 ELSE @]
=============================================================================

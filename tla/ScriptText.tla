------------------------------ MODULE ScriptText ------------------------------
(***************************************************************************)
(* The text of expressions and of the assignments and calls over them: the  *)
(* writeScriptText and hasSpaces of their nodes in src/src/lingodec/ast.cpp. *)
(*                                                                         *)
(* A text is the sequence of words written; blanks are left out, except     *)
(* around a binary operator, where a sign has none.  dot asks for the       *)
(* syntax of version 700; some parts of a node never take it.  A datum is   *)
(* any of its kind: floats, the names of single characters and PI, SPACE    *)
(* and VOID are words like others.                                         *)
(***************************************************************************)
EXTENDS Integers, SequencesExt, LingoReader

CONSTANTS
  Trees    (* The nodes to write.                                           *)

VARIABLES
  tree,    (* A statement or an expression; never changes.                  *)
  dot,     (* DirectorFile::dotSyntax.                                      *)
  text     (* What has been written.                                        *)

vars == <<tree, dot, text>>

(* Node kinds: a call that is a statement is a "command", and an assignment *)
(* to a property that kOpSet sets is a "setverbose".  The sign of an        *)
(* integer is not a part of its name.                                      *)
Literals == {"int", "negative", "string", "symbol", "list", "proplist"}

IsBinary(n) == n.kind = "binary"
-----------------------------------------------------------------------------
(***************************************************************************)
(* What has spaces is put in parentheses where a name could stand.          *)
(***************************************************************************)
IsMemberExpr(n) ==
  /\ n.kind = "call"
  /\ \/ n.name \in {"cast", "member", "script"} /\ Len(n.kids) \in {1, 2}
     \/ n.name \in {"castLib", "window"} /\ Len(n.kids) = 1

HasSpaces(n, verbose) ==
  CASE n.kind \in Literals \cup {"var", "error", "objcall", "callv4", "bracket", "propindex"} -> FALSE
    [] n.kind \in {"member", "objprop"} -> verbose
    [] n.kind = "call" -> verbose /\ IsMemberExpr(n)
    [] OTHER -> TRUE

Precedence(n) ==
  IF \E p \in 1 .. 5 : n.name \in Operators(p)
  THEN CHOOSE p \in 1 .. 5 : n.name \in Operators(p)
  ELSE 0

ParenLeft(n) ==
  /\ Precedence(n) # 0
  /\ IsBinary(n.kids[1]) /\ Precedence(n.kids[1]) # Precedence(n)

ParenLooserRight(n) ==   (* takes operators of one precedence for associative *)
  /\ Precedence(n) # 0
  /\ IsBinary(n.kids[2]) /\ Precedence(n.kids[2]) # Precedence(n)
ParenRight(n) == Precedence(n) # 0 /\ IsBinary(n.kids[2])

IsZero(n) == n = Zero
HasCastID(n) == Len(n.kids) = 2 /\ ~IsZero(n.kids[2])
IsBiggerChunk(whole, n) ==
  LET size == [char |-> 1, word |-> 2, item |-> 3, line |-> 4]
  IN  whole.kind = "chunk" /\ size[whole.name] > size[n.name]
-----------------------------------------------------------------------------
RECURSIVE Text(_, _)

Enclosed(n, paren, d) == IF paren THEN <<"(">> \o Text(n, d) \o <<")">> ELSE Text(n, d)
Operand(n, d) == Enclosed(n, IsBinary(n), d)
Object(n, d) == Enclosed(n, HasSpaces(n, ~d), d)
Commas(kids, d) ==
  FlattenSeq([k \in DOMAIN kids |-> (IF k = 1 THEN <<>> ELSE <<",">>) \o Text(kids[k], d)])

PropListText(n, d) ==
  IF n.kids = <<>> THEN <<"[", ":", "]">>
  ELSE <<"[">>
       \o FlattenSeq([k \in DOMAIN n.kids |->
            (IF k = 1 THEN <<>> ELSE IF k % 2 = 1 THEN <<",">> ELSE <<":">>) \o Text(n.kids[k], d)])
       \o <<"]">>

LiteralText(n, d) ==
  CASE n.kind = "negative" -> <<"-", n.name>>
    [] n.kind = "symbol"   -> <<"#", n.name>>
    [] n.kind = "list"     -> <<"[">> \o Commas(n.kids, d) \o <<"]">>
    [] n.kind = "proplist" -> PropListText(n, d)
    [] OTHER               -> <<n.name>>

BinaryText(n, d) ==
  Enclosed(n.kids[1], ParenLeft(n), d) \o <<n.name>> \o Enclosed(n.kids[2], ParenRight(n), d)

ChunkText(n, d) ==
  LET first == n.kids[1]
      last  == n.kids[2]
      whole == n.kids[3]
  IN  <<n.name>> \o Object(first, d)
      \o (IF IsZero(last) THEN <<>> ELSE <<"to">> \o Object(last, d))
      \o <<"of">>
      \o Enclosed(whole, ~IsBiggerChunk(whole, n) /\ HasSpaces(whole, ~d), FALSE)

SpritesText(n, d) == <<"sprite">> \o Operand(n.kids[1], d) \o <<n.name>> \o Operand(n.kids[2], d)

OfCastLib(n, d) == <<"of", "castLib">> \o Operand(n.kids[2], d)

MemberText(n, d) ==
  IF d
  THEN <<n.name, "(">> \o Text(n.kids[1], d)
       \o (IF HasCastID(n) THEN <<",">> \o Text(n.kids[2], d) ELSE <<>>) \o <<")">>
  ELSE <<n.name>> \o Operand(n.kids[1], d)
       \o (IF HasCastID(n) THEN OfCastLib(n, d) ELSE <<>>)

NoParens(n) == n.kind = "command" /\ n.name \in {"put", "return"}

CallText(n, d) ==
  CASE ~d /\ IsMemberExpr(n) -> <<n.name>> \o Operand(n.kids[1], d)
                                \o (IF Len(n.kids) = 2 THEN OfCastLib(n, d) ELSE <<>>)
    [] NoParens(n)           -> <<n.name>> \o Commas(n.kids, d)
    [] OTHER                 -> <<n.name, "(">> \o Commas(n.kids, d) \o <<")">>

ObjCallText(n, d) ==
  Object(n.kids[1], d) \o <<".", n.name, "(">> \o Commas(Tail(n.kids), d) \o <<")">>
ObjCallV4Text(n, d) ==
  Text(n.kids[1], d) \o <<"(">> \o Commas(Tail(n.kids), d) \o <<")">>

(* The string that is counted or cut is always verbose.                     *)
LastChunkText(n) == <<"the last", n.name, "in">> \o Operand(n.kids[1], FALSE)
ChunkCountText(n) == <<"the number of", n.name, "s in">> \o Operand(n.kids[1], FALSE)

PropOf(n, entity, k, d) == <<"the", n.name, "of">> \o entity \o Operand(n.kids[k], d)

MenuItemText(n, d) == PropOf(n, <<"menuItem">>, 1, d) \o <<"of", "menu">> \o Operand(n.kids[2], d)

ObjPropText(n, d) ==
  IF d THEN Object(n.kids[1], d) \o <<".", n.name>> ELSE PropOf(n, <<>>, 1, d)

BracketText(n, d) == Object(n.kids[1], d) \o <<"[">> \o Text(n.kids[2], d) \o <<"]">>

PropIndexText(n, d) ==
  Object(n.kids[1], d) \o <<".", n.name, "[">> \o Text(n.kids[2], d)
  \o (IF Len(n.kids) = 3 THEN <<"..">> \o Text(n.kids[3], d) ELSE <<>>) \o <<"]">>

NewText(n, d) == <<"new", n.name, "(">> \o Commas(n.kids, d) \o <<")">>

AssignmentText(n, d) ==
  IF ~d \/ n.kind = "setverbose"
  THEN <<"set">> \o Text(n.kids[1], FALSE) \o <<"to">> \o Text(n.kids[2], d)
  ELSE Text(n.kids[1], d) \o <<" = ">> \o Text(n.kids[2], d)

PutText(n, d) == <<"put">> \o Text(n.kids[1], d) \o <<n.name>> \o Text(n.kids[2], FALSE)

Text(n, d) ==
  CASE n.kind \in {"var", "error"} \cup Literals -> LiteralText(n, d)
    [] n.kind = "inverse"      -> <<"-">> \o Object(n.kids[1], d)
    [] n.kind = "not"          -> <<"not">> \o Object(n.kids[1], d)
    [] n.kind = "binary"       -> BinaryText(n, d)
    [] n.kind = "chunk"        -> ChunkText(n, d)
    [] n.kind = "sprites"      -> SpritesText(n, d)
    [] n.kind = "member"       -> MemberText(n, d)
    [] n.kind = "call"         -> CallText(n, d)
    [] n.kind = "command"      -> CallText(n, d)
    [] n.kind = "objcall"      -> ObjCallText(n, d)
    [] n.kind = "callv4"       -> ObjCallV4Text(n, d)
    [] n.kind = "the"          -> <<"the", n.name>>
    [] n.kind = "lastchunk"    -> LastChunkText(n)
    [] n.kind = "chunkcount"   -> ChunkCountText(n)
    [] n.kind = "menuprop"     -> PropOf(n, <<"menu">>, 1, d)
    [] n.kind = "menuitemprop" -> MenuItemText(n, d)
    [] n.kind = "soundprop"    -> PropOf(n, <<"sound">>, 1, d)
    [] n.kind = "spriteprop"   -> PropOf(n, <<"sprite">>, 1, d)
    [] n.kind = "theprop"      -> PropOf(n, <<>>, 1, FALSE)
    [] n.kind = "objprop"      -> ObjPropText(n, d)
    [] n.kind = "bracket"      -> BracketText(n, d)
    [] n.kind = "propindex"    -> PropIndexText(n, d)
    [] n.kind = "new"          -> NewText(n, d)
    [] n.kind \in {"set", "setverbose"} -> AssignmentText(n, d)
    [] n.kind = "put"          -> PutText(n, d)
    [] n.kind = "hilite"       -> <<"hilite">> \o Text(n.kids[1], d)
    [] n.kind = "delete"       -> <<"delete">> \o Text(n.kids[1], d)
-----------------------------------------------------------------------------
WriteScriptText ==
  /\ text = <<>>
  /\ text' = Text(tree, dot)
  /\ UNCHANGED <<tree, dot>>

Written == text # <<>> /\ UNCHANGED vars

Init == tree \in Trees /\ dot \in BOOLEAN /\ text = <<>>

Next == WriteScriptText \/ Written

Spec == Init /\ [][Next]_vars
-----------------------------------------------------------------------------
(***************************************************************************)
(* Properties.                                                             *)
(***************************************************************************)
IsStatement(n) == n.kind \in {"set", "setverbose", "put", "hilite", "delete", "command"}

(* Nodes that differ and say the same: a property by either syntax, a       *)
(* member by a call, the first cast library left out, a number with a sign. *)
RECURSIVE Meaning(_)
Meaning(n) ==
  LET kids == [k \in DOMAIN n.kids |-> Meaning(n.kids[k])]
      same == [n EXCEPT !.kids = kids]
  IN  CASE n.kind = "member" /\ ~HasCastID(n) -> Tree("member", n.name, <<kids[1]>>)
        [] n.kind = "call" /\ n.name \in MemberWords -> Meaning(Tree("member", n.name, n.kids))
        [] n.kind = "theprop" -> [same EXCEPT !.kind = "objprop"]
        [] n.kind = "setverbose" -> [same EXCEPT !.kind = "set"]
        [] n.kind = "negative" -> Tree("inverse", "", <<Leaf("int", n.name)>>)
        [] n.kind = "bracket" /\ kids[1].kind = "objprop" ->
             Tree("propindex", kids[1].name, kids[1].kids \o <<kids[2]>>)
        [] n.kind = "callv4" -> Tree("call", n.kids[1].name, Tail(kids))
        [] OTHER -> same

(* Director reads the text of a node as that node: parentheses are where an *)
(* operand would end too late or too early, in both syntaxes and where one  *)
(* goes over into the other.                                               *)
ReadsBack ==
  text # <<>> =>
    Meaning(tree) =
      Meaning(IF IsStatement(tree) THEN Statement(text)
              ELSE LET read == Expression(text, 1)
                   IN  IF read.next = Len(text) + 1 THEN read.node ELSE Garbled)

(* README.md:9: the program can reconstruct the Lingo source code of a      *)
(* movie.  At least two scripts that mean different things are not written  *)
(* as the same text.                                                       *)
TextDeterminesTree ==
  text # <<>> =>
    \A other \in Trees : Text(other, dot) = text => Meaning(other) = Meaning(tree)
=============================================================================

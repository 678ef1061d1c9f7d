----------------------------- MODULE MCScriptText -----------------------------
(***************************************************************************)
(* Expressions two levels deep with every kind of node in every place, some *)
(* three levels deep, and the statements over them.                        *)
(***************************************************************************)
EXTENDS ScriptText, FiniteSets

A == Leaf("var", "a")
B == Leaf("var", "b")
One == Leaf("int", "1")
MinusOne == Leaf("negative", "1")

Join == " & "

(* Every node that has n for a part, with leaves for the others.            *)
Binaries(n) ==
  {Tree("binary", op, kids) : op \in {" * ", " - ", " + ", " = ", " and ", Join},
                              kids \in {<<n, B>>, <<A, n>>}}
Signs(n) == {Tree("inverse", "", <<n>>), Tree("not", "", <<n>>)}
Chunks(n) ==
  {Tree("chunk", "word", kids) : kids \in {<<n, Zero, A>>, <<One, n, A>>, <<One, Zero, n>>, <<n, B, n>>}}
  \cup {Tree("chunk", "line", <<One, Zero, n>>), Tree("lastchunk", "char", <<n>>),
        Tree("chunkcount", "word", <<n>>)}
Entities(n) ==
  {Tree("member", "field", kids) : kids \in {<<n>>, <<n, Zero>>, <<n, B>>, <<A, n>>}}
  \cup {Tree("call", "member", kids) : kids \in {<<n>>, <<n, B>>, <<A, n>>}}
  \cup {Tree("sprites", "within", <<n, B>>), Tree("sprites", "intersects", <<A, n>>),
        Tree("spriteprop", "loc", <<n>>), Tree("menuprop", "name", <<n>>),
        Tree("soundprop", "volume", <<n>>), Tree("menuitemprop", "name", <<n, B>>),
        Tree("menuitemprop", "name", <<A, n>>)}
Props(n) == {Tree("theprop", "text", <<n>>), Tree("objprop", "text", <<n>>)}
Calls(n) ==
  {Tree("call", "f", <<A, n>>), Tree("new", "f", <<n>>), Tree("list", "", <<n, B>>),
   Tree("proplist", "", <<A, n>>), Tree("callv4", "", <<A, n>>)}
Dotted(n) ==
  {Tree("objcall", "f", <<n, B>>), Tree("objcall", "f", <<A, n>>), Tree("bracket", "", <<n, B>>),
   Tree("bracket", "", <<A, n>>), Tree("propindex", "p", <<n, One>>), Tree("propindex", "p", <<A, n, B>>)}

(* Methods and elements are of the version that brought the dot syntax.     *)
Over(n) == Binaries(n) \cup Signs(n) \cup Chunks(n) \cup Entities(n) \cup Props(n)
           \cup Calls(n) \cup IF dot THEN Dotted(n) ELSE {}
Seeds == {A, MinusOne, Leaf("the", "time"), Leaf("symbol", "p"), Leaf("proplist", "")}

RECURSIVE Depth(_)
Depth(n) == IF n.kids = <<>> THEN 0
            ELSE 1 + Max({Depth(n.kids[k]) : k \in DOMAIN n.kids})
Deeper(n) ==
  {Tree("binary", " - ", <<A, n>>), Tree("chunk", "word", <<One, Zero, n>>),
   Tree("objprop", "text", <<n>>), Tree("not", "", <<n>>)}

Statements(n) ==
  {Tree("put", "after", <<n, A>>), Tree("command", "put", <<n, B>>),
   Tree("command", "f", <<n>>),
   Tree("set", "", <<A, n>>), Tree("set", "", <<Tree("objprop", "text", <<A>>), n>>),
   Tree("setverbose", "", <<Tree("theprop", "text", <<Tree("member", "field", <<A, B>>)>>), n>>)}
  \cup (IF n.kind = "chunk" THEN {Tree("hilite", "", <<n>>), Tree("delete", "", <<n>>)} ELSE {})
  \cup IF n.kind \in {"chunk", "member"} THEN {Tree("put", "into", <<A, n>>)} ELSE {}

(***************************************************************************)
(* What is left out of ReadsBack: nested operators without a precedence, an *)
(* `of' after an expression that could go on with it, and a sign on a       *)
(* negative number, all of which are written without parentheses; a         *)
(* property of a comparison and an element of a negative number, which no   *)
(* script has.                                                             *)
(***************************************************************************)
RECURSIVE TakesOf(_), BeginsEnclosed(_), IsUsual(_)
TakesOf(n) ==
  \/ n.kind \in {"the", "member", "theprop", "objprop", "call", "chunk"}
  \/ n.kind \notin {"binary", "list", "proplist"} /\ \E k \in DOMAIN n.kids : TakesOf(n.kids[k])
BeginsEnclosed(n) ==
  /\ n.kind \in {"objprop", "objcall", "bracket", "propindex"}
  /\ HasSpaces(n.kids[1], FALSE) \/ BeginsEnclosed(n.kids[1])
GoesOnWithOf(n) ==
  n.kind = "menuitemprop" \/ ((n.kind = "member" \/ IsMemberExpr(n)) /\ Len(n.kids) = 2)
IsUsual(n) ==
  /\ \A k \in DOMAIN n.kids : IsUsual(n.kids[k])
  /\ n.name = Join => \A k \in DOMAIN n.kids : ~IsBinary(n.kids[k])
  /\ GoesOnWithOf(n) => ~TakesOf(n.kids[1])
  /\ n.kind = "member" \/ IsMemberExpr(n) => ~BeginsEnclosed(n.kids[1])
  /\ n.kind \in {"inverse", "objprop", "objcall", "bracket", "propindex"} => n.kids[1].kind # "negative"
  /\ n.kind \in {"theprop", "objprop"} => n.kids[1].kind # "sprites"

(* Nodes are made from the parts that were made before.                     *)
Larger(n) ==
  CASE Depth(n) < 2 -> Over(n) \cup Statements(n)
    [] Depth(n) = 2 -> Deeper(n) \cup Statements(n)
    [] OTHER        -> {}
Grow ==
  /\ text = <<>> /\ ~IsStatement(tree)
  /\ tree' \in {n \in Larger(tree) : IsUsual(n)}
  /\ UNCHANGED <<dot, text>>

MCSpec == Init /\ [][Next \/ Grow]_vars

Joins ==
  LET j == Tree("binary", Join, <<A, B>>)
      c == Tree("binary", " contains ", <<A, B>>)
  IN  UNION {{Tree("binary", op, <<n, B>>), Tree("binary", op, <<A, n>>)} :
               op \in {Join, " contains "}, n \in {j, c}}
      \cup {Tree("binary", Join, <<c, A>>), Tree("binary", " contains ", <<A, Tree("binary", Join, <<B, A>>)>>)}
=============================================================================

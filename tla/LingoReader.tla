----------------------------- MODULE LingoReader -----------------------------
(***************************************************************************)
(* How Director reads an expression or a simple statement of Lingo, as far *)
(* as the text that src/src/lingodec/ast.cpp writes depends on it.          *)
(*                                                                         *)
(* A text is a sequence of tokens.  A binary operator has its blanks, which *)
(* tell it from a sign; operators that are chained without parentheses are *)
(* of one precedence and group to the left, and the reader refuses to mix  *)
(* precedences, so that nothing rests on their order.  Operands of `not`,   *)
(* of a sign and of `of' end as early as they can.                          *)
(*                                                                         *)
(* A node is its kind, a name and its parts.  Each operator gives the node  *)
(* that starts at a token and where the text goes on.                       *)
(***************************************************************************)
EXTENDS Naturals, Sequences

Tree(kind, name, kids) == [kind |-> kind, name |-> name, kids |-> kids]
Leaf(kind, name) == Tree(kind, name, <<>>)
Zero == Leaf("int", "0")
Garbled == Leaf("garbled", "")

Numbers == {"0", "1", "2"}
Strings == {"EMPTY", "QUOTE"}
ChunkWords == {"char", "word", "item", "line"}
MemberWords == {"member", "cast", "field", "script", "castLib", "window"}
PutWords == {"into", "after", "before"}

Operators(precedence) ==
  CASE precedence = 1 -> {" * ", " / ", " mod "}
    [] precedence = 2 -> {" + ", " - "}
    [] precedence = 3 -> {" < ", " <= ", " <> ", " = ", " > ", " >= "}
    [] precedence = 4 -> {" and "}
    [] precedence = 5 -> {" or "}
    [] OTHER          -> {" & ", " && ", " contains ", " starts "}

Read(node, next) == [node |-> node, next |-> next]
Token(text, k) == IF k <= Len(text) THEN text[k] ELSE ""

(* All the rules are one recursive operator: sofar is what has been read of *)
(* a list, or the node that may go on.                                      *)
RECURSIVE Parse(_, _, _, _)
Expression(text, k) == Parse("expression", text, k, <<>>)
Primary(text, k) == Parse("primary", text, k, <<>>)
Items(text, k, read) == Parse("items", text, k, read)
Pairs(text, k, read) == Parse("pairs", text, k, read)
Chain(text, left, precedence) == Parse("chain", text, left.next, <<left.node, precedence>>)
Postfixes(text, obj) == Parse("postfixes", text, obj.next, obj.node)

ReadChain(text, left, precedence) ==
  LET right == Primary(text, left.next + 1)
  IN  IF Token(text, left.next) \notin Operators(precedence) THEN left
      ELSE Chain(text, Read(Tree("binary", text[left.next], <<left.node, right.node>>),
                            right.next), precedence)

ReadExpression(text, k) ==
  LET left == Primary(text, k)
      same == {p \in 0 .. 5 : Token(text, left.next) \in Operators(p)}
  IN  IF same = {} THEN left ELSE Chain(text, left, CHOOSE p \in same : TRUE)

(* Expressions with commas between them, after those read already.          *)
ReadItems(text, k, read) ==
  LET item == Expression(text, k)
      all  == Append(read, item.node)
  IN  IF Token(text, item.next) = "," THEN Items(text, item.next + 1, all)
      ELSE Read(all, item.next)
ReadPairs(text, k, read) ==
  LET key   == Expression(text, k)
      value == Expression(text, key.next + 1)
      all   == read \o <<key.node, value.node>>
  IN  IF Token(text, value.next) = "," THEN Pairs(text, value.next + 1, all)
      ELSE Read(all, value.next)

(* From an opening bracket to the one that closes it.                       *)
Bracketed(text, k, close) ==
  IF Token(text, k + 1) = close THEN Read(<<>>, k + 2)
  ELSE LET items == Items(text, k + 1, <<>>)
       IN  IF Token(text, items.next) = close THEN Read(items.node, items.next + 1)
           ELSE Read(<<Garbled>>, items.next + 1)

(* .prop, .method(...), .prop[...], [...]                                   *)
ReadPostfixes(text, obj) ==
  LET k == obj.next
      PropOf == Read(Tree("objprop", Token(text, k + 1), <<obj.node>>), k + 2)
      Args == Bracketed(text, k + 2, ")")
      Index(open, kind, name) ==
        LET from == Expression(text, open + 1)
            to   == Expression(text, from.next + 1)
        IN  IF Token(text, from.next) = ".."
            THEN Read(Tree(kind, name, <<obj.node, from.node, to.node>>), to.next + 1)
            ELSE Read(Tree(kind, name, <<obj.node, from.node>>), from.next + 1)
  IN  CASE Token(text, k) = "[" -> Postfixes(text, Index(k, "bracket", ""))
        [] Token(text, k) = "." ->
             Postfixes(text,
               CASE Token(text, k + 2) = "(" ->
                      Read(Tree("objcall", text[k + 1], <<obj.node>> \o Args.node), Args.next)
                 [] Token(text, k + 2) = "[" -> Index(k + 2, "propindex", text[k + 1])
                 [] OTHER -> PropOf)
        [] OTHER -> obj

The(text, k) ==
  LET name == Token(text, k + 1)
      entity == Token(text, k + 3)
      part == Primary(text, k + 4)
      menu == Primary(text, part.next + 2)
      obj  == Primary(text, k + 3)
  IN  CASE Token(text, k + 2) # "of" -> Read(Leaf("the", name), k + 2)
        [] entity = "menuItem" -> Read(Tree("menuitemprop", name, <<part.node, menu.node>>), menu.next)
        [] entity = "menu"     -> Read(Tree("menuprop", name, <<part.node>>), part.next)
        [] entity = "sound"    -> Read(Tree("soundprop", name, <<part.node>>), part.next)
        [] entity = "sprite"   -> Read(Tree("spriteprop", name, <<part.node>>), part.next)
        [] OTHER               -> Read(Tree("objprop", name, <<obj.node>>), obj.next)

Chunk(text, k) ==
  LET first == Primary(text, k + 1)
      ranged == Token(text, first.next) = "to"
      last == IF ranged THEN Primary(text, first.next + 1) ELSE Read(Zero, first.next)
      whole == Primary(text, last.next + 1)
  IN  Read(Tree("chunk", text[k], <<first.node, last.node, whole.node>>), whole.next)

(* A member's number in parentheses is an argument, unless a cast library   *)
(* follows.                                                                *)
InCastLib(text, k) == Token(text, k) = "of" /\ Token(text, k + 1) = "castLib"
Member(text, k) ==
  LET id == Primary(text, k + 1)
      lib == Primary(text, id.next + 2)
  IN  IF InCastLib(text, id.next)
      THEN Read(Tree("member", text[k], <<id.node, lib.node>>), lib.next)
      ELSE Read(Tree("member", text[k], <<id.node>>), id.next)

Sprites(text, k) ==
  LET first == Primary(text, k + 1)
      second == Primary(text, first.next + 1)
  IN  Read(Tree("sprites", Token(text, first.next), <<first.node, second.node>>), second.next)

Word(token) ==
  CASE token \in Numbers -> Leaf("int", token)
    [] token \in Strings -> Leaf("string", token)
    [] OTHER             -> Leaf("var", token)

ReadPrimary(text, k) ==
  LET token == Token(text, k)
      inner == Expression(text, k + 1)
      operand == Primary(text, k + 1)
      args == Bracketed(text, k + 1, ")")
      newArgs == Bracketed(text, k + 2, ")")
      list == Bracketed(text, k, "]")
      pairs == Pairs(text, k + 1, <<>>)
      counted == Primary(text, k + 3)
  IN  CASE token = "" \/ (token = "-" /\ Token(text, k + 1) = "-") -> Read(Garbled, Len(text) + 1)
        [] token = "-" -> Read(Tree("inverse", "", <<operand.node>>), operand.next)
        [] token = "#" -> Postfixes(text, Read(Leaf("symbol", Token(text, k + 1)), k + 2))
        [] token = "not" -> Read(Tree("not", "", <<operand.node>>), operand.next)
        [] token = "the last" -> Read(Tree("lastchunk", text[k + 1], <<counted.node>>), counted.next)
        [] token = "the number of" -> Read(Tree("chunkcount", text[k + 1], <<counted.node>>), counted.next)
        [] token = "the" -> The(text, k)
        [] token \in ChunkWords -> Chunk(text, k)
        [] token = "sprite" -> Sprites(text, k)
        [] token = "new" -> Read(Tree("new", text[k + 1], newArgs.node), newArgs.next)
        [] token \in MemberWords /\ (Token(text, k + 1) # "(" \/ InCastLib(text, args.next)) ->
             Member(text, k)
        [] token = "(" -> Postfixes(text, Read(inner.node, inner.next + 1))
        [] token = "[" /\ Token(text, k + 1) = ":" -> Postfixes(text, Read(Leaf("proplist", ""), k + 3))
        [] token = "[" /\ Token(text, inner.next) = ":" ->
             Postfixes(text, Read(Tree("proplist", "", pairs.node), pairs.next + 1))
        [] token = "[" -> Postfixes(text, Read(Tree("list", "", list.node), list.next))
        [] Token(text, k + 1) = "(" -> Postfixes(text, Read(Tree("call", token, args.node), args.next))
        [] OTHER -> Postfixes(text, Read(Word(token), k + 1))

Parse(rule, text, k, sofar) ==
  CASE rule = "expression" -> ReadExpression(text, k)
    [] rule = "primary"    -> ReadPrimary(text, k)
    [] rule = "items"      -> ReadItems(text, k, sofar)
    [] rule = "pairs"      -> ReadPairs(text, k, sofar)
    [] rule = "chain"      -> ReadChain(text, Read(sofar[1], k), sofar[2])
    [] rule = "postfixes"  -> ReadPostfixes(text, Read(sofar, k))

(* A text that goes on after the statement is garbled.                      *)
Statement(text) ==
  LET whole == Items(text, 2, <<>>)
      variable == Primary(text, whole.next + 1)
      target == Primary(text, 2)
      value == Expression(text, target.next + 1)
      assigned == Primary(text, 1)
      new == Expression(text, assigned.next + 1)
      read == CASE text[1] = "put" /\ Token(text, whole.next) \in PutWords ->
                     Read(Tree("put", text[whole.next], whole.node \o <<variable.node>>), variable.next)
                [] text[1] \in {"put", "return"} -> Read(Tree("command", text[1], whole.node), whole.next)
                [] text[1] = "set" -> Read(Tree("set", "", <<target.node, value.node>>), value.next)
                [] text[1] \in {"hilite", "delete"} ->
                     Read(Tree(text[1], "", <<target.node>>), target.next)
                [] Token(text, assigned.next) = " = " ->
                     Read(Tree("set", "", <<assigned.node, new.node>>), new.next)
                [] OTHER -> Read([assigned.node EXCEPT !.kind = "command"], assigned.next)
  IN  IF read.next = Len(text) + 1 THEN read.node ELSE Garbled
=============================================================================

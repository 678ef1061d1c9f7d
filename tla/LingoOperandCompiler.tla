------------------------- MODULE LingoOperandCompiler -------------------------
(***************************************************************************)
(* EXTERNAL: the bytecode Director's Lingo compiler emits for expressions  *)
(* and simple statements, as far as translateBytecode of                   *)
(* src/src/lingodec/handler.cpp shows it by what it takes off the stack.   *)
(* A tree, in the form of LingoOperands, becomes code here.                *)
(***************************************************************************)
EXTENDS LingoOperands, SequencesExt

I(op, obj) == <<[op |-> op, obj |-> obj]>>
I0(op) == I(op, 0)

Place(table, name) == (CHOOSE k \in 1 .. Len(table) : table[k] = name) - 1
NameId(name) == Place(Names, name)
Within(table, name) == \E k \in 1 .. Len(table) : table[k] = name

(* What the number of a variable or a literal is multiplied by.            *)
Stride(v) == CASE v < 500 -> 6 [] v \in 500 .. 849 -> 8 [] v >= 850 -> 1
Builtins == {"date"}

(* The operands of a tree, in the order they are pushed in, and the        *)
(* instruction that takes them.                                            *)
Shape(parts, ending) == [parts |-> parts, ending |-> ending]

(* get, set and put take a variable's number, or its name, from the stack. *)
VarType(n) == IF n.kind = "member" THEN 6
              ELSE IF Within(Arguments, n.name) THEN 4
              ELSE IF Within(Locals, n.name) THEN 5 ELSE 1
VarParts(v, n) ==
  CASE VarType(n) = 6 -> n.kids
    [] VarType(n) = 4 -> <<Number(Place(Arguments, n.name) * Stride(v))>>
    [] VarType(n) = 5 -> <<Number(Place(Locals, n.name) * Stride(v))>>
    [] VarType(n) = 1 -> <<n>>

VarOps(n, param, local, name, v) ==
  CASE Within(Arguments, n.name) -> I(param, Place(Arguments, n.name) * Stride(v))
    [] Within(Locals, n.name) -> I(local, Place(Locals, n.name) * Stride(v))
    [] OTHER -> I(name, NameId(n.name))

(* char of word of item of line of a string: every level that is there,    *)
(* outermost first, and two zeros for each that is not.                    *)
Level(type, t) == IF t.kind = "chunk" /\ t.num = type THEN t ELSE Numbered("chunk", type, <<Number(0), Number(0), t>>)
ChunkPath(t) ==
  LET char == Level(Char, t)
      word == Level(Word, char.kids[3])
      item == Level(Item, word.kids[3])
      line == Level(Line, item.kids[3])
      ends(level) == <<level.kids[1], level.kids[2]>>
  IN  [ends |-> ends(char) \o ends(word) \o ends(item) \o ends(line), of |-> line.kids[3]]

(* Properties by number: type, operands and number.                        *)
MemberType(name, chunked) ==
  CASE name = "field" -> IF chunked THEN 12 ELSE 11
    [] name = "script" -> IF chunked THEN 21 ELSE 20
    [] OTHER -> IF chunked THEN 10 ELSE 9
V4Kinds == {"lastchunk", "chunkcount", "menuprop", "menuitemprop", "soundprop", "spriteprop", "theprop"}
IsV4(t) == t.kind \in V4Kinds \/ (t.kind = "the" /\ t.name \in {"movie", "animation", "animation2"})
V4(v, t) ==
  LET is(type, parts, id) == [type |-> type, parts |-> parts, id |-> Number(id)]
      path == ChunkPath(t.kids[1])
  IN  CASE t.kind = "lastchunk" -> is(0, t.kids, t.num + LastMovieProperty)
        [] t.kind = "chunkcount" -> is(1, t.kids, t.num)
        [] t.kind = "menuprop" -> is(2, t.kids, t.num)
        [] t.kind = "menuitemprop" -> is(3, Reverse(t.kids), t.num)
        [] t.kind = "soundprop" -> is(4, t.kids, t.num)
        [] t.kind = "spriteprop" -> is(6, t.kids, t.num)
        [] t.kind = "the" /\ t.name = "movie" -> is(0, <<>>, t.num)
        [] t.kind = "the" /\ t.name = "animation" -> is(7, <<>>, t.num)
        [] t.kind = "the" /\ t.name = "animation2" ->
             is(8, IF t.num = 2 /\ v >= 500 THEN <<Number(0)>> ELSE <<>>, t.num)
        [] t.kind = "theprop" /\ t.name = "animation2" -> is(8, t.kids[1].kids, t.num)
        [] t.kind = "theprop" /\ t.name = "member" ->
             is(MemberType(path.of.name, t.kids[1].kind = "chunk"),
                (IF t.kids[1].kind = "chunk" THEN path.ends ELSE <<>>) \o path.of.kids, t.num)

Args(kind, items) == Plain(kind, items)
Method(name, kind, items) == Shape(<<Args(kind, items)>>, I("objcall", NameId(name)))
Symbol(name) == Named("symbol", name, <<>>)

AssignShape(v, target, value) ==
  CASE target.kind = "var" -> Shape(<<value>>, VarOps(target, "setparam", "setlocal", "setname", v))
    [] target.kind = "objprop" -> Shape(<<target.kids[1], value>>, I("setobjprop", NameId(target.name)))
    [] target.kind = "objbracket" -> Method("setAt", "arglistnoret", Append(target.kids, value))
    [] target.kind = "objpropindex" ->
         Method("setProp", "arglistnoret",
                <<target.kids[1], Symbol(target.name)>> \o Tail(target.kids) \o <<value>>)
    [] IsV4(target) -> LET p == V4(v, target) IN Shape(p.parts \o <<value, p.id>>, I("set", p.type))
    [] OTHER -> Shape(<<value>>, I("setmovieprop", NameId(target.name)))

IsOldVariable(n) == n.kind = "varref" \/ n.kind = "member"

PutShape(v, t) ==
  LET var == t.kids[1]
      path == ChunkPath(var)
      type == 16 * t.num + VarType(path.of)
  IN  CASE IsOldVariable(var) -> Shape(<<t.kids[2]>> \o VarParts(v, var), I("put", type))
        [] var.kind = "chunk" /\ IsOldVariable(path.of) ->
             Shape(<<t.kids[2]>> \o path.ends \o VarParts(v, path.of), I("putchunk", type))
        [] OTHER -> Method(CASE t.num = 1 -> "setContents" [] t.num = 2 -> "setContentsAfter"
                             [] t.num = 3 -> "setContentsBefore", "arglistnoret", t.kids)

DeleteShape(v, chunk) ==
  LET path == ChunkPath(chunk)
  IN  IF chunk.kind = "chunk" /\ IsOldVariable(path.of)
      THEN Shape(path.ends \o VarParts(v, path.of), I("deletechunk", VarType(path.of)))
      ELSE Method("delete", "arglistnoret", <<chunk>>)

HiliteShape(chunk) ==
  LET path == ChunkPath(chunk)
  IN  IF chunk.kind = "chunk" /\ path.of.kind = "member"
      THEN Shape(path.ends \o path.of.kids, I0("hilitechunk"))
      ELSE Method("hilite", "arglistnoret", <<chunk>>)

ShapeOf(v, t) ==
  CASE t.kind = "int" -> Shape(<<>>, IF t.num = 0 THEN I0("pushzero") ELSE I("pushint", t.num))
    [] t.kind = "string" -> Shape(<<>>, I("pushcons", Place(Literals, t) * Stride(v)))
    [] t.kind = "symbol" -> Shape(<<>>, I("pushsymb", NameId(t.name)))
    [] t.kind = "varref" -> IF VarType(t) = 1 THEN Shape(<<>>, I("pushvarref", NameId(t.name)))
                            ELSE Shape(VarParts(v, t), I("pushchunkvarref", VarType(t)))
    [] t.kind = "var" -> Shape(<<>>, VarOps(t, "getparam", "getlocal", "getname", v))
    [] t.kind \in {"arglist", "arglistnoret"} -> Shape(t.kids, I(t.kind, Len(t.kids)))
    [] t.kind = "list" -> Shape(<<Args("arglist", t.kids)>>, I0("pushlist"))
    [] t.kind = "proplist" -> Shape(<<Args("arglist", t.kids)>>, I0("pushproplist"))
    [] t.kind \in {"unary", "binary"} -> Shape(t.kids, I0(t.kind))
    [] t.kind = "intersects" -> Shape(t.kids, I0("ontospr"))
    [] t.kind = "within" -> Shape(t.kids, I0("intospr"))
    [] t.kind = "chunk" -> LET path == ChunkPath(t) IN Shape(path.ends \o <<path.of>>, I0("getchunk"))
    [] t.kind = "member" -> Shape(t.kids, I0("getfield"))
    [] IsV4(t) -> LET p == V4(v, t) IN Shape(Append(p.parts, p.id), I("get", p.type))
    [] t.kind = "the" /\ ~IsV4(t) ->
         IF t.name \in Builtins THEN Shape(<<Args("arglist", <<>>)>>, I("thebuiltin", NameId(t.name)))
         ELSE Shape(<<>>, I("getmovieprop", NameId(t.name)))
    [] t.kind = "objprop" ->
         IF t.name = "count" /\ t.kids[1].kind = "objprop"
         THEN Method("count", "arglist", <<t.kids[1].kids[1], Symbol(t.kids[1].name)>>)
         ELSE Shape(t.kids, I("getobjprop", NameId(t.name)))
    [] t.kind = "objbracket" -> Method("getAt", "arglist", t.kids)
    [] t.kind = "objpropindex" ->
         Method("getProp", "arglist", <<t.kids[1], Symbol(t.name)>> \o Tail(t.kids))
    [] t.kind = "newobj" -> Shape(t.kids, I("newobj", NameId(t.name)))
    [] t.kind = "call" -> Shape(t.kids, IF Within(Handlers, t.name) THEN I("localcall", Place(Handlers, t.name))
                                        ELSE I("extcall", NameId(t.name)))
    [] t.kind = "objcall" -> Shape(t.kids, I("objcall", NameId(t.name)))
    [] t.kind = "objcallv4" ->
         LET args == t.kids[2]
             asSymbol == IF args.kids = <<>> THEN args ELSE [args EXCEPT !.kids[1] = Symbol(@.name)]
         IN  Shape(<<asSymbol>> \o VarParts(v, t.kids[1]), I("objcallv4", VarType(t.kids[1])))
    [] t.kind = "soundcmd" -> Shape(<<[t.kids[1] EXCEPT !.kids = <<Symbol(t.name)>> \o @]>>,
                                    I("extcall", NameId("sound")))
    [] t.kind = "playcmd" -> Shape(t.kids, I("extcall", NameId("play")))
    [] t.kind = "when" -> Shape(<<Named("string", t.name, <<>>), Number(t.num)>>, I("set", 0))
    [] t.kind = "assign" -> AssignShape(v, t.kids[1], t.kids[2])
    [] t.kind = "put" -> PutShape(v, t)
    [] t.kind = "delete" -> DeleteShape(v, t.kids[1])
    [] t.kind = "hilite" -> HiliteShape(t.kids[1])

RECURSIVE Compile(_, _)
Compile(v, t) ==
  LET shape == ShapeOf(v, t)
  IN  FlattenSeq([k \in DOMAIN shape.parts |-> Compile(v, shape.parts[k])]) \o shape.ending
=============================================================================

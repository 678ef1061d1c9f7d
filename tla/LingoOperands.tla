---------------------------- MODULE LingoOperands ----------------------------
(***************************************************************************)
(* The operand side of Handler::translateBytecode                          *)
(* (src/src/lingodec/handler.cpp): which values an instruction takes off   *)
(* the stack, in which order, and the node it makes of them.               *)
(* LingoDecompiler models how the same instructions are put into blocks    *)
(* and leaves their operands abstract; here blocks are left out.           *)
(*                                                                         *)
(* A node is a record [kind, name, num, kids]: a name or a number it       *)
(* carries and its children in the order of the constructor of ast.h.  An  *)
(* absent child (nullptr) is not in kids.  A literal has the type of its   *)
(* Datum as its kind; the items of a list are its kids.                    *)
(***************************************************************************)
EXTENDS Integers, Sequences

CONSTANTS
  Versions,    (* The versions of scripts.                                  *)
  Names,       (* The name table: an id is a place in it, counted from 0.   *)
  Arguments,   (* The names of the handler's arguments.                     *)
  Locals,      (* The names of its local variables.                         *)
  Literals,    (* The script's literals.                                    *)
  Handlers,    (* The names of the script's handlers.                       *)
  Tasks        (* What there is to translate: [version, code, below].       *)

ASSUME TablesAssumption ==
  /\ Versions \subseteq Nat
  /\ Names \in Seq(STRING) /\ Arguments \in Seq(STRING)
  /\ Locals \in Seq(STRING) /\ Handlers \in Seq(STRING)

N(kind, name, num, kids) == [kind |-> kind, name |-> name, num |-> num, kids |-> kids]
Named(kind, name, kids) == N(kind, name, 0, kids)
Numbered(kind, num, kids) == N(kind, "", num, kids)
Plain(kind, kids) == N(kind, "", 0, kids)

Error == Plain("error", <<>>)
Number(n) == Numbered("int", n, <<>>)
Comment == Plain("comment", <<>>)
Var(name) == Named("var", name, <<>>)

StoredKinds == {"int", "string", "float", "void"}     (* In the script's table. *)
LiteralKinds ==
  StoredKinds \cup {"symbol", "varref", "list", "proplist", "arglist", "arglistnoret"}
ListKinds == {"list", "proplist", "arglist", "arglistnoret"}
Statements == {"assign", "put", "when", "hilite", "delete", "soundcmd", "playcmd", "comment"}
Calls == {"call", "objcall", "objcallv4"}

VARIABLES
  version,     (* Script::version.                                          *)
  code,        (* The instructions not yet translated: [op, obj] records.   *)
  stack,       (* Handler::stack, the top last.                             *)
  statements   (* The statements added to the block so far.                 *)

vars == <<version, code, stack, statements>>

(* A call is a statement when its arguments say that nothing is returned;  *)
(* every other node that is not a statement is an expression.              *)
ReturnsNothing(n) == n.kind \in Calls /\ n.kids[Len(n.kids)].kind = "arglistnoret"
IsExpressionByKind(n) == n.kind \notin Statements
IsExpression(n) == n.kind \notin Statements /\ ~ReturnsNothing(n)

Sequence(s) == s \in Seq({s[k] : k \in DOMAIN s})
IsNode(n) == n = N(n.kind, n.name, n.num, n.kids) /\ Sequence(n.kids)

Children(n) == {n.kids[k] : k \in DOMAIN n.kids}
Operand(n) == n.kind # "comment" /\ \A c \in Children(n) : c.kind # "comment"
FreeOfComments(n) == \A child \in Children(n) : Operand(child)
Value(n) == IsNode(n) /\ FreeOfComments(n) /\ IsExpression(n)

(* A literal of the table is no list and has no parts                      *)
(* (LiteralStore::readData, script.cpp).                                   *)
ASSUME LiteralsAssumption ==
  Literals \in Seq([kind : StoredKinds, name : STRING, num : Int, kids : {<<>>}])

(* Below the instructions there is whatever earlier ones left.             *)
ASSUME TasksAssumption ==
  \A t \in Tasks :
    /\ t.version \in Versions
    /\ t.code \in Seq([op : STRING, obj : Int])
    /\ Sequence(t.below) /\ \A k \in DOMAIN t.below : Value(t.below[k])
-----------------------------------------------------------------------------
(***************************************************************************)
(* Tables of names.                                                        *)
(***************************************************************************)
Entry(table, id, unknown) == IF id \in 0 .. Len(table) - 1 THEN table[id + 1] ELSE unknown
GetName(id) == Entry(Names, id, "UNKNOWN_NAME")
GetArgumentName(id) == Entry(Arguments, id, "UNKNOWN_ARG")
GetLocalName(id) == Entry(Locals, id, "UNKNOWN_LOCAL")

(* Before version 850 the numbers of variables and literals are offsets    *)
(* into a table of records.                                                *)
VariableMultiplier == IF version >= 850 THEN 1 ELSE IF version >= 500 THEN 8 ELSE 6
Quotient(n, d) == IF n >= 0 THEN n \div d ELSE -((-n) \div d)
Ordinal(obj) == Quotient(obj, VariableMultiplier)
-----------------------------------------------------------------------------
(***************************************************************************)
(* Popping.                                                                *)
(***************************************************************************)

(* The k-th value popped, and what is left after k of them.                *)
Popped(k) == IF k <= Len(stack) THEN stack[Len(stack) - k + 1] ELSE Error
Below(k) == IF k < Len(stack) THEN SubSeq(stack, 1, Len(stack) - k) ELSE <<>>

(* Node::getValue is a void Datum for anything but a literal.  That Datum   *)
(* is gone when the calls below ask for the size of its list: a reference   *)
(* to it dangles (handler.cpp:897, 914, 1131).  Nothing is allocated in     *)
(* between, so what they find is still the list of a void Datum, no items.  *)
ToInt(n) == IF n.kind = "int" THEN n.num ELSE 0
Items(n) == IF n.kind \in ListKinds THEN n.kids ELSE <<>>
IsZero(n) == n.kind = "int" /\ n.num = 0

(* Field references have a cast library from version 500 on.               *)
AlwaysTwo == 2
MemberOperands == IF version >= 500 THEN 2 ELSE 1

(* A member reference whose operands begin with the (k+1)-th value popped: *)
(* the library, when there is one, was pushed last.                        *)
Member(prefix, k) ==
  Named("member", prefix,
        IF MemberOperands = 2 THEN <<Popped(k + 2), Popped(k + 1)>> ELSE <<Popped(k + 1)>>)

(* readVar: how many values it pops and the node it makes.                 *)
VarOperands(type) == IF type = 6 THEN MemberOperands ELSE 1
ReadVar(type, k) ==
  CASE type \in 1 .. 3 -> Popped(k + 1)
    [] type = 4 -> Named("varref", GetArgumentName(Ordinal(ToInt(Popped(k + 1)))), <<>>)
    [] type = 5 -> Named("varref", GetLocalName(Ordinal(ToInt(Popped(k + 1)))), <<>>)
    [] type = 6 -> Member("field", k)
    [] OTHER -> Error

(* readChunkRef: first and last of line, item, word and char, in the order *)
(* they are popped in; a first that is the literal 0 is no chunk at all.   *)
ChunkOperands == 8
Char == 1
Word == 2
Item == 3
Line == 4

Chunk(type, k, string) ==
  LET last == Popped(k + 1)
      first == Popped(k + 2)
  IN  IF IsZero(first) THEN string ELSE Numbered("chunk", type, <<first, last, string>>)
ReadChunkRefInwards(string, k) ==
  Chunk(Line, k, Chunk(Item, k + 2, Chunk(Word, k + 4, Chunk(Char, k + 6, string))))
ReadChunkRef(string, k) ==
  Chunk(Char, k + 6, Chunk(Word, k + 4, Chunk(Item, k + 2, Chunk(Line, k, string))))
-----------------------------------------------------------------------------
(***************************************************************************)
(* readV4Property: properties by type and number.                          *)
(***************************************************************************)
LastMovieProperty == 11
MemberTypes == 9 .. 21
ChunkTypes == {10, 12, 21}
FieldTypes == {11, 12}
ScriptTypes == {20, 21}

(* The number of castMembers may name a cast library.                      *)
CountsMembers(type, id) == type = 8 /\ id = 2 /\ version >= 500

PropertyOperands(type, id) ==
  CASE type = 0 -> IF id <= LastMovieProperty THEN 0 ELSE 1
    [] type \in {1, 2, 4, 6} -> 1
    [] type = 3 -> 2
    [] type = 8 -> IF CountsMembers(type, id) THEN 1 ELSE 0
    [] type \in MemberTypes -> MemberOperands + (IF type \in ChunkTypes THEN ChunkOperands ELSE 0)
    [] OTHER -> 0

MemberPrefix(type) ==
  IF type \in FieldTypes THEN "field"
  ELSE IF type \in ScriptTypes THEN "script"
  ELSE IF version >= 500 THEN "member" ELSE "cast"

MemberEntity(type, k) ==
  LET member == Member(MemberPrefix(type), k)
  IN  IF type \in ChunkTypes THEN ReadChunkRef(member, k + MemberOperands) ELSE member

ReadV4Property(type, id, k) ==
  CASE type = 0 /\ id <= LastMovieProperty -> N("the", "movie", id, <<>>)
    [] type = 0 /\ id > LastMovieProperty -> Numbered("lastchunk", id - LastMovieProperty, <<Popped(k + 1)>>)
    [] type = 1 -> Numbered("chunkcount", id, <<Popped(k + 1)>>)
    [] type = 2 -> Numbered("menuprop", id, <<Popped(k + 1)>>)
    [] type = 3 -> Numbered("menuitemprop", id, <<Popped(k + 1), Popped(k + 2)>>)
    [] type = 4 -> Numbered("soundprop", id, <<Popped(k + 1)>>)
    [] type = 6 -> Numbered("spriteprop", id, <<Popped(k + 1)>>)
    [] type = 7 -> N("the", "animation", id, <<>>)
    [] type = 8 -> IF CountsMembers(type, id) /\ ~IsZero(Popped(k + 1))
                   THEN N("theprop", "animation2", id, <<Named("member", "castLib", <<Popped(k + 1)>>)>>)
                   ELSE N("the", "animation2", id, <<>>)
    [] type \in MemberTypes -> N("theprop", "member", id, <<MemberEntity(type, k)>>)
    [] OTHER -> Comment
-----------------------------------------------------------------------------
(***************************************************************************)
(* Translating one instruction.                                            *)
(***************************************************************************)

(* An expression goes on the stack, a statement into the block, once the   *)
(* operands are off the stack.                                             *)
Becomes(k, n) ==
  /\ IF IsExpression(n)
     THEN stack' = Append(Below(k), n) /\ UNCHANGED statements
     ELSE stack' = Below(k) /\ statements' = Append(statements, n)
  /\ code' = Tail(code)
  /\ UNCHANGED version

Op == Head(code).op
Obj == Head(code).obj
At(op) == code # <<>> /\ Op = op

PushLiteral ==
  \/ At("pushzero") /\ Becomes(0, Number(0))
  \/ At("pushint") /\ Becomes(0, Number(Obj))
  \/ At("pushcons") /\ Becomes(0, Entry(Literals, Ordinal(Obj), Error))
  \/ At("pushsymb") /\ Becomes(0, Named("symbol", GetName(Obj), <<>>))
  \/ At("pushvarref") /\ Becomes(0, Named("varref", GetName(Obj), <<>>))

GetVariable ==
  \/ At("getname") /\ Becomes(0, Var(GetName(Obj)))
  \/ At("getparam") /\ Becomes(0, Var(GetArgumentName(Ordinal(Obj))))
  \/ At("getlocal") /\ Becomes(0, Var(GetLocalName(Ordinal(Obj))))

SetVariable ==
  \/ At("setname") /\ Becomes(1, Plain("assign", <<Var(GetName(Obj)), Popped(1)>>))
  \/ At("setparam") /\ Becomes(1, Plain("assign", <<Var(GetArgumentName(Ordinal(Obj))), Popped(1)>>))
  \/ At("setlocal") /\ Becomes(1, Plain("assign", <<Var(GetLocalName(Ordinal(Obj))), Popped(1)>>))

Operator ==
  \/ At("binary") /\ Becomes(2, Plain("binary", <<Popped(2), Popped(1)>>))
  \/ At("unary") /\ Becomes(1, Plain("unary", <<Popped(1)>>))
  \/ At("ontospr") /\ Becomes(2, Plain("intersects", <<Popped(2), Popped(1)>>))
  \/ At("intospr") /\ Becomes(2, Plain("within", <<Popped(2), Popped(1)>>))

(* The last argument is on top.  With a number below 0 the resizing of the  *)
(* list throws.                                                            *)
Popping(n) == [k \in 1 .. n |-> Popped(n - k + 1)]
ArgList ==
  /\ At("arglist") \/ At("arglistnoret")
  /\ Obj >= 0
  /\ Becomes(Obj, Plain(Op, Popping(Obj)))

(* A list is made of the argument list in place: the Datum changes type.   *)
(* A literal of the script shares its Datum with the table and with every   *)
(* node made of it, and all of them would change (handler.cpp:657, 719).    *)
(* That no list is made of one is a bound of the model.                    *)
Retype(n, kind) == IF n.kind \in LiteralKinds THEN [n EXCEPT !.kind = kind] ELSE n
MakeList ==
  /\ Popped(1).kind \notin StoredKinds
  /\ \/ At("pushlist") /\ Becomes(1, Retype(Popped(1), "list"))
     \/ At("pushproplist") /\ Becomes(1, Retype(Popped(1), "proplist"))

Swap ==
  /\ At("swap")
  /\ stack' = IF Len(stack) >= 2 THEN Append(Append(Below(2), Popped(1)), Popped(2)) ELSE stack
  /\ code' = Tail(code)
  /\ UNCHANGED <<version, statements>>

ChunkOp ==
  \/ At("getchunk") /\ Becomes(1 + ChunkOperands, ReadChunkRef(Popped(1), 1))
  \/ /\ At("hilitechunk")
     /\ Becomes(MemberOperands + ChunkOperands,
                Plain("hilite", <<ReadChunkRef(Member("field", 0), MemberOperands)>>))
  \/ /\ At("deletechunk")
     /\ Becomes(VarOperands(Obj) + ChunkOperands,
                Plain("delete", <<ReadChunkRef(ReadVar(Obj, 0), VarOperands(Obj))>>))

GetField == At("getfield") /\ Becomes(MemberOperands, Member("field", 0))

(* The type of put is in the high nibble, that of the variable in the low. *)
PutType == (Obj \div 16) % 16
PutVar == Obj % 16
Put ==
  LET used == VarOperands(PutVar)
      var == ReadVar(PutVar, 0)
      far == used + ChunkOperands
  IN  \/ At("put") /\ Becomes(used + 1, Numbered("put", PutType, <<var, Popped(used + 1)>>))
      \/ /\ At("putchunk")
         /\ Becomes(far + 1, Numbered("put", PutType, <<ReadChunkRef(var, used), Popped(far + 1)>>))

Get ==
  /\ At("get")
  /\ LET id == ToInt(Popped(1))
     IN  Becomes(1 + PropertyOperands(Obj, id), ReadV4Property(Obj, id, 1))

(* "If the script starts with a space, it's probably a when statement":    *)
(* the names of string literals are their classes.                         *)
WhenStrings == {"spaced", "lines"}
IsWhen(id, value) == Obj = 0 /\ id \in 1 .. 5 /\ value.kind = "string" /\ value.name \in WhenStrings

AssignToAnything(prop, value) == Plain("assign", <<prop, value>>)
AssignTo(prop, value) == IF prop.kind = "comment" THEN prop ELSE Plain("assign", <<prop, value>>)
Set ==
  /\ At("set")
  /\ LET id == ToInt(Popped(1))
         value == Popped(2)
         prop == ReadV4Property(Obj, id, 2)
     IN  IF IsWhen(id, value) THEN Becomes(2, N("when", value.name, id, <<>>))
         ELSE Becomes(2 + PropertyOperands(Obj, id), AssignTo(prop, value))

Property ==
  \/ At("getmovieprop") /\ Becomes(0, Named("the", GetName(Obj), <<>>))
  \/ /\ At("setmovieprop")
     /\ Becomes(1, Plain("assign", <<Named("the", GetName(Obj), <<>>), Popped(1)>>))
  \/ At("getobjprop") /\ Becomes(1, Named("objprop", GetName(Obj), <<Popped(1)>>))
  \/ /\ At("setobjprop")
     /\ Becomes(2, Plain("assign", <<Named("objprop", GetName(Obj), <<Popped(2)>>), Popped(1)>>))
  \/ At("thebuiltin") /\ Becomes(1, Named("the", GetName(Obj), <<>>))
  \/ At("gettoplevelprop") /\ Becomes(0, Var(GetName(Obj)))
  \/ At("pushchunkvarref") /\ Becomes(VarOperands(Obj), ReadVar(Obj, 0))
  \/ At("newobj") /\ Becomes(1, Named("newobj", GetName(Obj), <<Popped(1)>>))
-----------------------------------------------------------------------------
(***************************************************************************)
(* Calls.                                                                  *)
(***************************************************************************)
(* An id that is none of a handler is indexed with all the same            *)
(* (handler.cpp:888).  That the id is one of a handler is a bound of the     *)
(* model: a task with any other id stops at it.                            *)
LocalCall ==
  /\ At("localcall") /\ Obj \in 0 .. Len(Handlers) - 1
  /\ Becomes(1, Named("call", Handlers[Obj + 1], <<Popped(1)>>))

(* `sound playFile 1, x' is a call of sound with the command as a symbol.  *)
IsSoundCmd(name, args) ==
  /\ args.kind = "arglistnoret" /\ name = "sound"
  /\ args.kids # <<>> /\ args.kids[1].kind = "symbol"
IsPlayCmd(name, args) ==
  args.kind = "arglistnoret" /\ name = "play" /\ Len(args.kids) <= 2

CallNode(name, args) ==
  IF IsSoundCmd(name, args)
  THEN Named("soundcmd", args.kids[1].name, <<[args EXCEPT !.kids = Tail(@)]>>)
  ELSE IF IsPlayCmd(name, args) THEN Plain("playcmd", <<args>>)
  ELSE Named("call", name, <<args>>)

ExtCall == At("extcall") /\ Becomes(1, CallNode(GetName(Obj), Popped(1)))

(* The method is a symbol in the arguments, which becomes a variable.      *)
ObjCallV4 ==
  /\ At("objcallv4")
  /\ LET used == VarOperands(Obj)
         args == Popped(used + 1)
         method == IF Items(args) # <<>> /\ args.kids[1].kind \in {"symbol", "string", "varref"}
                   THEN args.kids[1].name ELSE ""
         named == IF Items(args) = <<>> THEN args ELSE [args EXCEPT !.kids[1] = Var(method)]
     IN  Becomes(used + 1, Plain("objcallv4", <<ReadVar(Obj, 0), named>>))

(* Calls of a method that are written some other way.                      *)
Into(method) == CASE method = "setContents" -> 1 [] method = "setContentsAfter" -> 2
                  [] method = "setContentsBefore" -> 3 [] OTHER -> 0
IsSymbol(n) == n.kind = "symbol"

MethodNodeNoSymbolTest(method, args) ==
  IF method = "count" /\ Len(Items(args)) = 2
  THEN Named("objprop", "count", <<Named("objprop", args.kids[2].name, <<args.kids[1]>>)>>)
  ELSE Named("objcall", method, <<args>>)

MethodNode(method, args) ==
  LET a == Items(args)
      n == Len(a)
      bracket == Plain("objbracket", <<a[1], a[2]>>)
      index == Named("objpropindex", a[2].name, <<a[1]>> \o SubSeq(a, 3, n))
      indexBeforeLast == Named("objpropindex", a[2].name, <<a[1]>> \o SubSeq(a, 3, n - 1))
  IN  CASE method = "getAt" /\ n = 2 -> bracket
        [] method = "setAt" /\ n = 3 -> Plain("assign", <<bracket, a[3]>>)
        [] method \in {"getProp", "getPropRef"} /\ n \in 3 .. 4 /\ IsSymbol(a[2]) -> index
        [] method = "setProp" /\ n \in 4 .. 5 /\ IsSymbol(a[2]) -> Plain("assign", <<indexBeforeLast, a[n]>>)
        [] method = "count" /\ n = 2 /\ IsSymbol(a[2]) ->
             Named("objprop", "count", <<Named("objprop", a[2].name, <<a[1]>>)>>)
        [] Into(method) # 0 /\ n = 2 -> Numbered("put", Into(method), <<a[1], a[2]>>)
        [] method = "hilite" /\ n = 1 -> Plain("hilite", <<a[1]>>)
        [] method = "delete" /\ n = 1 -> Plain("delete", <<a[1]>>)
        [] OTHER -> Named("objcall", method, <<args>>)

ObjCall == At("objcall") /\ Becomes(1, MethodNode(GetName(Obj), Popped(1)))

(* "Clear stack so later bytecode won't be too screwed up".                *)
Unknown == At("unknown") /\ Becomes(Len(stack), Comment)
-----------------------------------------------------------------------------
Translate ==
  \/ PushLiteral \/ GetVariable \/ SetVariable \/ Operator \/ ArgList \/ MakeList \/ Swap
  \/ ChunkOp \/ GetField \/ Put \/ Get \/ Set \/ Property
  \/ LocalCall \/ ExtCall \/ ObjCallV4 \/ ObjCall \/ Unknown

Init ==
  \E t \in Tasks :
    /\ version = t.version
    /\ code = t.code
    /\ stack = t.below
    /\ statements = <<>>

Next == Translate

Spec == Init /\ [][Next]_vars
-----------------------------------------------------------------------------
(* Only values are ever on the stack; only statements, calls that return   *)
(* nothing and error comments are in the block (handler.cpp:1226).         *)
TypeOK ==
  /\ version \in Versions
  /\ code \in Seq([op : STRING, obj : Int])
  /\ \A k \in DOMAIN stack : stack[k].kind \notin Statements /\ ~ReturnsNothing(stack[k])
  /\ \A k \in DOMAIN statements : statements[k].kind \in Statements \/ ReturnsNothing(statements[k])

(* An error comment is written "-- ERROR ..." and makes a comment of the   *)
(* rest of its line, so it stands alone as a statement and is never part   *)
(* of another node ("error comment", handler.cpp:609, 940, 951, 978),      *)
(* whatever the bytecode is.                                               *)
CommentsStandAlone ==
  \A n \in {stack[k] : k \in DOMAIN stack} \cup {statements[k] : k \in DOMAIN statements} :
    FreeOfComments(n)

(* Every node is where its kind belongs: a value on the stack, a statement   *)
(* in the block, an error comment alone (handler.cpp:1226).                 *)
NodesAreInPlace == TypeOK /\ CommentsStandAlone
=============================================================================

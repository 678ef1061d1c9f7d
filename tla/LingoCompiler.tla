---------------------------- MODULE LingoCompiler ----------------------------
(***************************************************************************)
(* EXTERNAL: the shape of the bytecode Director's Lingo compiler emits,    *)
(* as far as src/src/lingodec/handler.cpp shows it by what it recognises:  *)
(* the loops of isRepeatWithIn and identifyLoop, the if / else of the jmp  *)
(* case, the case statements of kOpPeek and kOpPop, tell blocks, and the   *)
(* ret that ends every handler.  It is the inverse the decompiler is       *)
(* checked against: a source tree becomes bytecode here.                   *)
(*                                                                         *)
(* A statement is a record [k, e, ...], k its kind and e the code of its   *)
(* main expression; a block is a sequence of statements.  Instructions are *)
(* [op, obj] records; ReadData numbers them by byte position.              *)
(***************************************************************************)
EXTENDS Integers, Sequences

(* Two things handler.cpp does not settle, so that a program has a shape:    *)
(* trailingJmp, whether the last label of a case without otherwise also ends *)
(* in a jmp to the end of the case (handler.cpp:1061 accepts both), and      *)
(* popsOnLeave, whether leaving a loop from inside a case pops the value of  *)
(* the case first, as leaving the handler does (handler.cpp:1115).           *)

I(op, obj) == [op |-> op, obj |-> obj]
I0(op) == I(op, 0)

(* Opcodes below 0x40 have no operand; the others here have one byte.      *)
NoOperandOps == {"ret", "not", "add", "eq", "nteq", "lteq", "gteq", "join",
                 "starttell", "endtell", "swap"}
Width(ins) == IF ins.op \in NoOperandOps THEN 1 ELSE 2

(* Byte length of the first n instructions.                                *)
Prefix(c, n) == LET len[k \in 0 .. n] == IF k = 0 THEN 0 ELSE len[k - 1] + Width(c[k])
                IN  len[n]
Bytes(c) == Prefix(c, Len(c))

(* Handler::readData: an instruction's pos is its offset from the start.   *)
ReadData(c) == LET at[k \in 1 .. Len(c)] == IF k = 1 THEN 0 ELSE at[k - 1] + Width(c[k - 1])
               IN  [k \in 1 .. Len(c) |-> [op |-> c[k].op, obj |-> c[k].obj, pos |-> at[k]]]
-----------------------------------------------------------------------------
(* Jumps whose target is not known yet carry a mark until the statement    *)
(* they leave has been laid out.                                           *)
ToLoopEnd == -1000
ToLoopStep == -1001
ToCaseEnd == -1002

Patch(c, mark, target) ==
  [k \in 1 .. Len(c) |-> IF c[k].op = "jmp" /\ c[k].obj = mark
                         THEN I("jmp", target - Prefix(c, k - 1)) ELSE c[k]]

(* A loop: code before the condition, condition, body, what steps it, and  *)
(* what follows; endrepeat jumps back to the condition.                    *)
Loop(before, cond, bodyStart, body, step, after) ==
  LET inside == bodyStart \o body
      skip == I("jmpifz", 2 + Bytes(inside) + Bytes(step) + 2)
      back == I("endrepeat", Bytes(cond) + 2 + Bytes(inside) + Bytes(step))
      turn == cond \o <<skip>> \o inside
      all == turn \o step \o <<back>>
      patched == Patch(Patch(all, ToLoopStep, Bytes(turn)), ToLoopEnd, Bytes(all))
  IN  before \o patched \o after

Pops(n) == [k \in 1 .. n |-> I("pop", 1)]

(* Compile a block in a context: the shape, the number of case statements    *)
(* around the block and how many of them are inside the innermost loop.     *)
Outermost(shape) == [shape |-> shape, cases |-> 0, inLoop |-> 0]
InsideCase(ctx) == [ctx EXCEPT !.cases = @ + 1, !.inLoop = @ + 1]

(* A counter of the kind that has opcodes of its own, or of another.         *)
Global2 == 3
Set(var) == I(IF var = Global2 THEN "setglobal2" ELSE "set", var)
Get(var) == I(IF var = Global2 THEN "getglobal2" ELSE "get", var)

RECURSIVE CompileBlock(_, _), CompileStmt(_, _), CompileLabels(_, _, _)

CompileBlock(b, ctx) ==
  IF b = <<>> THEN <<>>
  ELSE CompileStmt(Head(b), ctx) \o CompileBlock(Tail(b), ctx)

(* One label [vals, b] after another.  Equivalent values compare with nteq *)
(* and jump into the block; the last value compares with eq and jumps past *)
(* it.                                                                     *)
CompileLabels(ls, hasOther, ctx) ==
  IF ls = <<>> THEN <<>>
  ELSE LET l == Head(ls)
           leaves == Len(ls) > 1 \/ hasOther \/ ctx.shape.trailingJmp
           body == CompileBlock(l.b, ctx)
                   \o (IF leaves THEN <<I("jmp", ToCaseEnd)>> ELSE <<>>)
           test(k, cmp, jump) == <<I("peek", 0)>> \o l.vals[k] \o <<I0(cmp), I("jmpifz", jump)>>
           tests[k \in 1 .. Len(l.vals)] ==
             IF k = Len(l.vals) THEN test(k, "eq", 2 + Bytes(body))
             ELSE test(k, "nteq", 2 + Bytes(tests[k + 1])) \o tests[k + 1]
       IN  tests[1] \o body \o CompileLabels(Tail(ls), hasOther, ctx)

CompileStmt(s, ctx) ==
  LET In(b) == CompileBlock(b, ctx)
      InBody(b) == CompileBlock(b, [ctx EXCEPT !.inLoop = 0])
      InCase(b) == CompileBlock(b, InsideCase(ctx))
      early == IF ctx.shape.popsOnLeave THEN Pops(ctx.inLoop) ELSE <<>>
  IN CASE s.k = "simple" -> s.e
       [] s.k = "exit" -> Pops(ctx.cases) \o <<I0("ret")>>
       [] s.k = "exitrepeat" -> early \o <<I("jmp", ToLoopEnd)>>
       [] s.k = "nextrepeat" -> early \o <<I("jmp", ToLoopStep)>>
       [] s.k = "if" ->
            LET then == In(s.b1)
                else == In(s.b2)
            IN  IF s.hasElse
                THEN s.e \o <<I("jmpifz", 2 + Bytes(then) + 2)>> \o then
                         \o <<I("jmp", 2 + Bytes(else))>> \o else
                ELSE s.e \o <<I("jmpifz", 2 + Bytes(then))>> \o then
       [] s.k = "while" -> Loop(<<>>, s.e, <<>>, InBody(s.b1), <<>>, <<>>)
       [] s.k \in {"to", "downto"} ->
            Loop(s.e \o <<Set(s.var)>>,
                 <<Get(s.var)>> \o s.e2 \o <<I0(IF s.k = "to" THEN "lteq" ELSE "gteq")>>,
                 <<>>, InBody(s.b1),
                 <<I("pushint8", IF s.k = "to" THEN 1 ELSE -1), Get(s.var), I0("add"), Set(s.var)>>,
                 <<>>)
       [] s.k = "in" ->
            Loop(s.e \o <<I("peek", 0), I("arglist", 1), I("extcall", 1), I("pushint8", 1)>>,
                 <<I("peek", 0), I("peek", 2), I0("lteq")>>,
                 <<I("peek", 2), I("peek", 1), I("arglist", 2), I("extcall", 2), I("set", s.var)>>,
                 InBody(s.b1),
                 <<I("pushint8", 1), I0("add")>>,
                 <<I("pop", 3)>>)
       [] s.k = "case" ->
            LET all == CompileLabels(s.labels, s.hasElse, InsideCase(ctx))
                       \o (IF s.labels = <<>> /\ s.hasElse THEN <<I("jmp", ToCaseEnd)>> ELSE <<>>)
                       \o InCase(s.b2)
            IN  s.e \o Patch(all, ToCaseEnd, Bytes(all)) \o <<I("pop", 1)>>
       [] s.k = "tell" -> s.e \o <<I0("starttell")>> \o In(s.b1) \o <<I0("endtell")>>
       [] OTHER -> <<I0("unknown")>>

Compile(shape, program) == CompileBlock(program, Outermost(shape)) \o <<I0("ret")>>
=============================================================================

---------------------------- MODULE LingoRoundTrip ----------------------------
(***************************************************************************)
(* What decompiling promises: the tree that LingoDecompiler builds from    *)
(* the bytecode of a program means that program.  The programs come from   *)
(* the compiler of LingoCompiler, and the tree is judged by compiling it   *)
(* again: trees may differ in wording (an else that ends a loop and a      *)
(* `next repeat' are the same bytecode) but never in bytecode.  Other code,  *)
(* which no compiler made, must only be got through.                       *)
(***************************************************************************)
EXTENDS LingoDecompiler, LingoCompiler

CONSTANT Programs   (* The source programs: [shape, block] with the shape of *)
                    (* their bytecode and their statements.                 *)

VARIABLE compiler   (* The shape of the bytecode it makes; NoCompiler if the *)
                    (* code was not compiled, and is one of Codes.          *)

NoCompiler == [trailingJmp |-> FALSE]
IsCompiled == compiler # NoCompiler

RoundTripInit ==
  /\ \/ compiler = NoCompiler /\ code \in Codes
     \/ \E p \in Programs : compiler = p.shape /\ code = ReadData(Compile(p.shape, p.block))
  /\ Begin
RoundTripNext == Next /\ UNCHANGED compiler
RoundTripSpec == RoundTripInit /\ [][RoundTripNext]_<<vars, compiler>> /\ WF_<<vars, compiler>>(RoundTripNext)

(* A statement with nothing set but its kind.                              *)
Empty(kind) == [k |-> kind, e |-> <<>>, e2 |-> <<>>, var |-> 0, b1 |-> <<>>, b2 |-> <<>>,
                hasElse |-> FALSE, labels |-> <<>>]
-----------------------------------------------------------------------------
(***************************************************************************)
(* The tree, read back from the nodes in the form the compiler takes.      *)
(***************************************************************************)
RECURSIVE ExprCode(_), ArgsCode(_), BlockTree(_), StmtTree(_), LabelTrees(_, _)

InstrAt(k) == I(At(k).op, At(k).obj)
ArgsCode(args) == IF args = <<>> THEN <<>> ELSE ExprCode(Head(args)) \o ArgsCode(Tail(args))
ExprCode(n) == IF n = Null THEN <<I0("unknown")>>
               ELSE ArgsCode(nodes[n].args) \o <<InstrAt(nodes[n].at)>>

BlockTree(b) == [k \in 1 .. Len(nodes[b].kids) |-> StmtTree(nodes[b].kids[k])]

(* CaseLabelNode::writeScriptText: equivalent values up to the one with    *)
(* the block, then the next label.                                         *)
LabelTrees(l, vals) ==
  IF l = Null THEN <<>>
  ELSE LET all == Append(vals, ArgsCode(nodes[l].args))
       IN  IF nodes[l].expect = "or" THEN LabelTrees(nodes[l].next, all)
           ELSE <<[vals |-> all, b |-> BlockTree(nodes[l].block1)]>>
                \o LabelTrees(nodes[l].next, <<>>)

StmtTree(n) ==
  LET s == nodes[n]
      plain == [Empty(s.kind) EXCEPT !.e = ArgsCode(s.args)]
  IN CASE s.kind = "simple" -> [plain EXCEPT !.e = @ \o <<InstrAt(s.at)>>]
       [] s.kind = "if" -> [plain EXCEPT !.b1 = BlockTree(s.block1), !.hasElse = s.hasElse,
                                         !.b2 = IF s.hasElse THEN BlockTree(s.block2) ELSE <<>>]
       [] s.kind \in {"while", "in", "tell"} -> [plain EXCEPT !.var = s.var, !.b1 = BlockTree(s.block1)]
       [] s.kind \in {"to", "downto"} ->
            [Empty(s.kind) EXCEPT !.e = ExprCode(s.args[1]), !.e2 = ExprCode(s.args[2]),
                                  !.var = s.var, !.b1 = BlockTree(s.block1)]
       [] s.kind = "case" ->
            [plain EXCEPT !.labels = LabelTrees(s.next, <<>>), !.hasElse = (s.otherwise # Null),
                          !.b2 = IF s.otherwise # Null THEN BlockTree(nodes[s.otherwise].block1) ELSE <<>>]
       [] OTHER -> plain
-----------------------------------------------------------------------------
(* The decompiled handler compiles to the bytecode it was made from:       *)
(* tagLoops skips exactly the bookkeeping of a loop, every jmp is read as  *)
(* what it was (exit repeat, next repeat, else, end of a label), every     *)
(* statement is in the block it belongs to and has the operands it had.    *)
RecompilesToCode ==
  IsCompiled /\ phase = "done" => ReadData(Compile(compiler, BlockTree(RootBlock))) = code

(* Compiled bytecode never makes parse dereference a null currentBlock or  *)
(* index outside bytecodeArray; when parse reaches its end every block has  *)
(* been exited (AST::exitBlock) and every value used (Handler::pop).        *)
NeverCrashes == phase # "crashed"
AllClosedAtEnd == phase = "done" => cur = RootBlock /\ stack = <<>>
IsGotThrough == IsCompiled => NeverCrashes /\ AllClosedAtEnd

(* Only "internal loop logic" is tagged kTagSkip (handler.cpp:336): every    *)
(* turn of a counted loop that gets to its endrepeat runs the whole step     *)
(* that tagLoops hides, so no jump of the body lands in the middle of it.    *)
HiddenStepIsLoopLogic ==
  \A s \in Index : tag[s] \in {"to", "downto"} =>
    LET e == IndexAt(JumpPos(s))
    IN  \A k \in s + 1 .. e - 6 :
          At(k).op \in {"jmp", "jmpifz"} => IndexAt(JumpPos(k)) \notin e - 4 .. e - 1
=============================================================================

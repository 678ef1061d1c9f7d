--------------------------- MODULE LingoDecompiler ---------------------------
(***************************************************************************)
(* The reconstruction of Lingo control flow from bytecode:                 *)
(* Handler::tagLoops, Handler::parse and Handler::translateBytecode of     *)
(* src/src/lingodec/handler.cpp with the block stack of the AST            *)
(* (src/src/lingodec/ast.cpp, ast.h).                                      *)
(*                                                                         *)
(* One behaviour decompiles one handler.  The loops of the handler are     *)
(* tagged first, one jmpifz per step; then every step is one iteration of  *)
(* the block-closing loop of parse or one call of translateBytecode.  A    *)
(* kOpPeek translates the instructions that follow it by calling           *)
(* translateBytecode itself; the frames of those calls are the variable    *)
(* `frames'.                                                               *)
(*                                                                         *)
(* Instruction indices are the ones of the code (0-based).  A node keeps   *)
(* the index it was translated from; its text follows from that and from   *)
(* its arguments, so how it is printed is left out here, and so is         *)
(* Bytecode::translation, which only the bytecode listing reads.           *)
(***************************************************************************)
EXTENDS Integers, Sequences

CONSTANTS
  Codes,       (* The handlers to decompile: sequences of bytecodes.          *)
  PosModulus   (* Positions are unsigned; 2^32 in the code.                   *)

(***************************************************************************)
(* Opcodes, grouped by what translateBytecode does with them.              *)
(***************************************************************************)
LeafOps    == {"pushint8", "pushcons", "get", "getglobal2"}
UnaryOps   == {"not"}
BinaryOps  == {"add", "eq", "nteq", "lteq", "gteq", "join"}
ArgListOps == {"arglist", "arglistnoret"}
FlowOps    == {"jmp", "jmpifz", "endrepeat", "peek", "pop"}
SetOps     == {"set", "setglobal2"}
OtherOps   == {"ret", "extcall", "starttell", "endtell", "swap", "unknown"}
Ops        == LeafOps \cup UnaryOps \cup BinaryOps \cup ArgListOps \cup FlowOps \cup SetOps \cup OtherOps

(* get and set stand for the opcodes of globals, properties, parameters and *)
(* locals, with an operand that says which: identifyLoop asks for a pair of *)
(* them.  It knows one pair more, which isRepeatWithIn does not.            *)
GetterOf(op) == IF op = "set" THEN "get" ELSE "getglobal2"

(* The names that loop recognition compares the operand of an extcall with *)
NameCount == 1
NameGetAt == 2

Bytecode == [op : Ops, obj : Int, pos : Nat]

ASSUME PosModulusAssumption == PosModulus \in Nat \ {0}

(* The length of the code has 32 bits, so the last of its bytes lies before *)
(* the position (uint32_t)-1.                                               *)
ASSUME CodesAssumption ==
  \A c \in Codes :
    /\ c \in Seq(Bytecode)
    /\ \A k \in 1 .. Len(c) : c[k].pos < PosModulus - 1

Tags == {"none", "skip", "while", "in", "to", "downto", "nexttarget", "endcase"}

Null == 0
NoOwner == -1            (* UINT32_MAX *)
NoPos == PosModulus - 1  (* (uint32_t)-1 *)
RootBlock == 1

StatementKinds == {"if", "while", "in", "to", "downto", "case", "tell",
                   "simple", "exit", "exitrepeat", "nextrepeat"}
LoopKinds == {"while", "in", "to", "downto"}
Kinds == StatementKinds \cup {"block", "label", "otherwise", "comment", "expr"}
Expects == {"none", "end", "or", "next", "otherwise"}

VARIABLES
  code,    (* The bytecode array of the handler; never changes.             *)
  phase,   (* "tag", "parse", "done" or "crashed".                          *)
  tag,     (* Bytecode::tag, by index.                                      *)
  owner,   (* Bytecode::ownerLoop, by index.                                *)
  i,       (* The index of tagLoops, then of parse.                         *)
  frames,  (* Calls of translateBytecode made by kOpPeek, outermost first.  *)
  stack,   (* Handler::stack: ids of expression nodes, Null an error node.  *)
  nodes,   (* The AST nodes made so far; a node's id is its place here.     *)
  cur      (* AST::currentBlock.                                            *)

vars == <<code, phase, tag, owner, i, frames, stack, nodes, cur>>

Size == Len(code)
Index == 0 .. Size - 1
Node == 1 .. Len(nodes)
At(k) == code[k + 1]

(* Unsigned arithmetic on positions.                                       *)
Wrap(n) == n % PosModulus
JumpPos(k) == Wrap(At(k).pos + At(k).obj)
LoopBackPos(k) == Wrap(At(k).pos - At(k).obj)

(* bytecodePosMap[p]: operator[] of a map yields 0 for a key it lacks.      *)
IndexAt(p) == IF \E k \in Index : At(k).pos = p
              THEN CHOOSE k \in Index : At(k).pos = p
              ELSE 0

Is(k, op, obj) == At(k).op = op /\ At(k).obj = obj
-----------------------------------------------------------------------------
(***************************************************************************)
(* Tagging of loops.                                                       *)
(***************************************************************************)

(* jmpifz at s, the instruction after the loop at e.                       *)
IsRepeatWithIn(s, e) ==
  /\ s >= 7 /\ s <= Size - 6 /\ e >= 3
  /\ Is(s - 7, "peek", 0)
  /\ Is(s - 6, "arglist", 1)
  /\ Is(s - 5, "extcall", NameCount)
  /\ Is(s - 4, "pushint8", 1)
  /\ Is(s - 3, "peek", 0)
  /\ Is(s - 2, "peek", 2)
  /\ At(s - 1).op = "lteq"
  /\ Is(s + 1, "peek", 2)
  /\ Is(s + 2, "peek", 1)
  /\ Is(s + 3, "arglist", 2)
  /\ Is(s + 4, "extcall", NameGetAt)
  /\ At(s + 5).op = "set"
  /\ Is(e - 3, "pushint8", 1)
  /\ At(e - 2).op = "add"
  /\ Is(e, "pop", 3)

(* A counter set before the condition, compared in it and stepped by       *)
(* `step' at the end of the body.                                          *)
CountsBy(step, s, e) ==
  LET c == IndexAt(LoopBackPos(e - 1))
      v == At(c - 1).obj
      setOp == At(c - 1).op
  IN  /\ c >= 1
      /\ setOp \in SetOps
      /\ Is(c, GetterOf(setOp), v)
      /\ e >= 5
      /\ Is(e - 5, "pushint8", step)
      /\ Is(e - 4, GetterOf(setOp), v)
      /\ At(e - 3).op = "add"
      /\ Is(e - 2, setOp, v)

IdentifyLoop(s, e) ==
  IF IsRepeatWithIn(s, e) THEN "in"
  ELSE IF s >= 1 /\ At(s - 1).op = "lteq" /\ CountsBy(1, s, e) THEN "to"
  ELSE IF s >= 1 /\ At(s - 1).op = "gteq" /\ CountsBy(-1, s, e) THEN "downto"
  ELSE "while"

(* The endrepeat before e jumps back to the condition of the jmpifz at s,  *)
(* so it does not belong to a loop nested in what s skips.                 *)
AnyEndRepeatCloses(s, e) == At(e - 1).op = "endrepeat"
ClosesLoop(s, e) ==
  /\ At(e - 1).op = "endrepeat"
  /\ LoopBackPos(e - 1) <= At(s).pos

Skipped(kind, s, e) ==
  CASE kind = "in" -> (s - 7 .. s - 1) \cup (s + 1 .. s + 5) \cup {e - 2, e - 1, e}
    [] kind \in {"to", "downto"} ->
         LET c == IndexAt(LoopBackPos(e - 1))
         IN  {c - 1, c, s - 1} \cup (e - 4 .. e - 1)
    [] OTHER -> {}

NextTarget(kind, e) ==
  CASE kind = "in" -> e - 3
    [] kind \in {"to", "downto"} -> e - 5
    [] OTHER -> e - 1

TagLoop ==
  /\ phase = "tag" /\ i < Size
  /\ At(i).op = "jmpifz"
  /\ \E e \in {IndexAt(JumpPos(i))} \ {0} :
       /\ \/ /\ ~ClosesLoop(i, e)
             /\ UNCHANGED <<tag, owner>>
          \/ /\ ClosesLoop(i, e)
             /\ \E kind \in {IdentifyLoop(i, e)} :
                  /\ tag' = [k \in Index |->
                               IF k = NextTarget(kind, e) THEN "nexttarget"
                               ELSE IF k \in Skipped(kind, i, e) THEN "skip"
                               ELSE IF k = i THEN kind
                               ELSE tag[k]]
                  /\ owner' = [k \in Index |-> IF k \in {NextTarget(kind, e), e - 1} THEN i ELSE owner[k]]
  /\ i' = i + 1
  /\ UNCHANGED <<code, phase, frames, stack, nodes, cur>>

TagOther ==
  /\ phase = "tag" /\ i < Size
  /\ At(i).op # "jmpifz"
  /\ i' = i + 1
  /\ UNCHANGED <<code, phase, tag, owner, frames, stack, nodes, cur>>

(* parse: an empty stack and an AST with the handler's block.              *)
StartParse ==
  /\ phase = "tag" /\ i = Size
  /\ phase' = "parse"
  /\ i' = 0
  /\ UNCHANGED <<code, tag, owner, frames, stack, nodes, cur>>
-----------------------------------------------------------------------------
(***************************************************************************)
(* The AST: nodes, their parents, and the block being filled.              *)
(***************************************************************************)

(* The fields of every kind of node; a node uses those of its kind:        *)
(*   block             kids, endPos, label (currentCaseLabel)              *)
(*   if                block1, block2, hasElse                             *)
(*   loops             block1, var; their startIndex is `at'               *)
(*   case              next (firstLabel), otherwise, endPos, potential     *)
(*   label             expect, next (nextOr or nextLabel), block1          *)
(*   otherwise, tell   block1                                              *)
Blank == [kind |-> "block", parent |-> Null, at |-> NoOwner, args |-> <<>>, var |-> 0,
          block1 |-> Null, block2 |-> Null, hasElse |-> FALSE,
          kids |-> <<>>, endPos |-> NoPos, label |-> Null,
          expect |-> "none", next |-> Null, otherwise |-> Null, potential |-> NoPos]

OrphanBlock(parent, endPos) == [Blank EXCEPT !.endPos = endPos]
BlockOf(parent, endPos) == [Blank EXCEPT !.parent = parent, !.endPos = endPos]

(* The node that is next to be made, and the ones after it.                *)
New == Len(nodes) + 1

(* AST::addStatement, of a node that gets the id New.                      *)
AdoptByRoot == [nodes EXCEPT ![RootBlock].kids = Append(@, New)]
Adopt == [nodes EXCEPT ![cur].kids = Append(@, New)]
Stmt(kind, at, args) == [Blank EXCEPT !.kind = kind, !.parent = cur, !.at = at, !.args = args]

(* Node::ancestorStatement and Node::ancestorLoop: the nearest ancestor of *)
(* one of the kinds.  The walks start at blocks and never pass through an  *)
(* expression, so the parents of expressions are left out.                 *)
NearestFrom(tree, kinds) ==
  LET from[a \in 0 .. Len(tree)] ==
        IF a = Null THEN Null
        ELSE IF tree[a].kind \in kinds THEN a ELSE from[tree[a].parent]
  IN  from
Ancestor(n, kinds) ==
  LET found == NearestFrom(nodes, kinds)[nodes[n].parent]
  IN  IF found \in Node THEN found ELSE Null

AncestorStatement(n) == Ancestor(n, StatementKinds)
AncestorLoop(n) == Ancestor(n, LoopKinds)

(* AST::exitBlock: the block that holds the statement the block is part    *)
(* of, or no block at all.                                                 *)
Enclosing(b) ==
  LET s == AncestorStatement(b)
      up == nodes[s].parent
  IN  IF s # Null /\ up \in Node /\ nodes[up].kind = "block" THEN up ELSE Null
-----------------------------------------------------------------------------
(***************************************************************************)
(* parse: closing the blocks that end at the next instruction.             *)
(***************************************************************************)

AtTop == phase = "parse" /\ frames = <<>> /\ i < Size
BlockEndsHere == cur # Null /\ nodes[cur].endPos = At(i).pos

HasElse(s) == nodes[s].hasElse
EndsThen(s) == nodes[s].hasElse /\ cur = nodes[s].block1
EnterElse(s) == cur' = nodes[s].block2 /\ UNCHANGED nodes

(* CaseStmtNode::addOtherwise, and entering its block.                     *)
EnterOtherwise(s, up) ==
  /\ nodes' = [nodes EXCEPT ![up].label = Null, ![s].otherwise = New]
              \o <<[Blank EXCEPT !.kind = "otherwise", !.parent = s, !.block1 = New + 1],
                   BlockOf(New, nodes[s].endPos)>>
  /\ cur' = New + 1

KeepLabel(up) == cur' = up /\ UNCHANGED nodes
ForgetLabel(up) == nodes' = [nodes EXCEPT ![up].label = Null] /\ cur' = up

CloseBlock ==
  /\ AtTop /\ BlockEndsHere
  /\ LET s == AncestorStatement(cur)
         up == Enclosing(cur)
         is(kind) == s # Null /\ nodes[s].kind = kind
         expects(e) == /\ is("case") /\ up # Null /\ nodes[up].label # Null
                       /\ nodes[nodes[up].label].expect = e
     IN  IF is("if") /\ EndsThen(s) THEN EnterElse(s)
         ELSE IF expects("otherwise") THEN EnterOtherwise(s, up)
         ELSE IF expects("end") THEN ForgetLabel(up)
         ELSE cur' = up /\ UNCHANGED nodes
  /\ UNCHANGED <<code, phase, tag, owner, i, frames, stack>>
-----------------------------------------------------------------------------
(***************************************************************************)
(* translateBytecode: the instruction being translated, and the return to  *)
(* its caller (parse, or the search of a kOpPeek, which ignores the size). *)
(***************************************************************************)

Frame == frames[Len(frames)]
Callers == SubSeq(frames, 1, Len(frames) - 1)
Ip == IF frames = <<>> THEN i ELSE Frame.curr

(* The do-while of kOpPeek is over: the comparison of the case value, or   *)
(* the end of the handler, is reached.  Its body runs at least once.       *)
SearchOver ==
  /\ frames # <<>>
  /\ Frame.curr > Frame.at + 1
  /\ Frame.curr < Size => /\ Len(stack) = Frame.base + 1
                          /\ At(Frame.curr).op \in {"eq", "nteq"}

Return(callers, k, size) ==
  /\ IF callers = <<>>
     THEN i' = k + size /\ frames' = <<>>
     ELSE i' = i /\ frames' = [callers EXCEPT ![Len(callers)].curr = @ + 1]
  /\ UNCHANGED <<code, phase, owner>>

Proceed == Return(frames, Ip, 1)

(* The call of translateBytecode at Ip comes next.                         *)
Calls ==
  /\ phase = "parse" /\ Ip < Size
  /\ IF frames = <<>> THEN cur # Null /\ ~BlockEndsHere ELSE ~SearchOver

Hidden(k) == tag[k] \in {"skip", "nexttarget"}
Translates(ops) == Calls /\ ~Hidden(Ip) /\ At(Ip).op \in ops

SkipTagged ==
  /\ Calls /\ Hidden(Ip)
  /\ Proceed
  /\ UNCHANGED <<tag, stack, nodes, cur>>

(* Handler::pop, n times: the k-th operand popped, and what is left.       *)
OperandPastBottom(k) == IF k > Len(stack) THEN NoOwner ELSE stack[Len(stack) + 1 - k]
Operand(k) == IF k > Len(stack) THEN Null ELSE stack[Len(stack) + 1 - k]
Below(n) == IF n > Len(stack) THEN <<>> ELSE SubSeq(stack, 1, Len(stack) - n)
Args(n) == [k \in 1 .. n |-> Operand(n + 1 - k)]

(* An expression takes its operands from the stack and goes onto it.       *)
PushExpr(arity) ==
  /\ nodes' = Append(nodes, [Blank EXCEPT !.kind = "expr", !.at = Ip, !.args = Args(arity)])
  /\ stack' = Append(Below(arity), New)
  /\ Proceed
  /\ UNCHANGED <<tag, cur>>

(* A statement takes its operands from the stack and joins the block.      *)
AddStatement(kind, arity) ==
  /\ cur # Null
  /\ nodes' = Append(Adopt, Stmt(kind, Ip, Args(arity)))
  /\ stack' = Below(arity)
  /\ Proceed
  /\ UNCHANGED <<tag, cur>>

Leaf     == Translates(LeafOps)    /\ PushExpr(0)
Unary    == Translates(UnaryOps)   /\ PushExpr(1)
Binary   == Translates(BinaryOps)  /\ PushExpr(2)
ArgList  == Translates(ArgListOps) /\ At(Ip).obj >= 0 /\ PushExpr(At(Ip).obj)
Assign   == Translates(SetOps)     /\ AddStatement("simple", 1)
StrayEnd == Translates({"endrepeat"}) /\ AddStatement("comment", 0)

(* A call is a statement when its argument list is of the kind that        *)
(* returns nothing.                                                        *)
ReturnsNothing(n) == n # Null /\ At(nodes[n].at).op = "arglistnoret"
Call ==
  /\ Translates({"extcall"})
  /\ IF ReturnsNothing(Operand(1)) THEN AddStatement("simple", 1) ELSE PushExpr(1)

(* The ret that ends the handler is no statement.                          *)
Exit ==
  /\ Translates({"ret"})
  /\ IF Ip = Size - 1
     THEN Proceed /\ UNCHANGED <<tag, stack, nodes, cur>>
     ELSE AddStatement("exit", 0)

Swap ==
  /\ Translates({"swap"})
  /\ stack' = IF Len(stack) >= 2 THEN Below(2) \o <<Operand(1), Operand(2)>> ELSE stack
  /\ Proceed
  /\ UNCHANGED <<tag, nodes, cur>>

(* An opcode without a translation becomes a comment and clears the stack. *)
Unknown ==
  /\ Translates({"unknown"}) /\ cur # Null
  /\ nodes' = Append(Adopt, Stmt("comment", Ip, <<>>))
  /\ stack' = <<>>
  /\ Proceed
  /\ UNCHANGED <<tag, cur>>
-----------------------------------------------------------------------------
(***************************************************************************)
(* Instructions that open and close blocks.                                *)
(***************************************************************************)

(* A statement whose block, with the given end, is entered.                *)
OpenBlock(stmt, endPos) ==
  /\ cur # Null
  /\ nodes' = Adopt \o <<[stmt EXCEPT !.block1 = New + 1], BlockOf(New, endPos)>>
  /\ cur' = New + 1

StartTell ==
  /\ Translates({"starttell"})
  /\ OpenBlock(Stmt("tell", Ip, Args(1)), NoPos)
  /\ stack' = Below(1)
  /\ Proceed
  /\ UNCHANGED tag

EndTell ==
  /\ Translates({"endtell"}) /\ cur # Null
  /\ cur' = Enclosing(cur)
  /\ Proceed
  /\ UNCHANGED <<tag, stack, nodes>>

(* An if has both blocks from the start; where the second ends is known    *)
(* when the jmp at the end of the first is met.                            *)
OpenIf ==
  /\ nodes' = Adopt \o <<[Stmt("if", Ip, Args(1)) EXCEPT !.block1 = New + 1, !.block2 = New + 2],
                         BlockOf(New, JumpPos(Ip)), BlockOf(New, NoPos)>>
  /\ cur' = New + 1
  /\ stack' = Below(1)

OpenLoop(kind, arity, var) ==
  /\ OpenBlock([Stmt(kind, Ip, Args(arity)) EXCEPT !.var = var], JumpPos(Ip))
  /\ stack' = Below(arity)

(* The variable a counted loop starts from: the set before its condition.  *)
CounterVar(k) == At(IndexAt(LoopBackPos(IndexAt(JumpPos(k)) - 1)) - 1).obj

JmpIfZ ==
  /\ Translates({"jmpifz"}) /\ cur # Null
  /\ CASE tag[Ip] = "while" -> OpenLoop("while", 1, 0)
       [] tag[Ip] = "in" -> OpenLoop("in", 1, At(Ip + 5).obj)
       [] tag[Ip] \in {"to", "downto"} -> OpenLoop(tag[Ip], 2, CounterVar(Ip))
       [] OTHER -> OpenIf
  /\ Proceed
  /\ UNCHANGED tag

(* What a jmp means depends on the loop and the statement around it.       *)
Target == IndexAt(JumpPos(Ip))
InLoop == AncestorLoop(cur) # Null
OwnedByLoop(k) == owner[k] = nodes[AncestorLoop(cur)].at
LeavesLoop == InLoop /\ At(Target - 1).op = "endrepeat" /\ OwnedByLoop(Target - 1)
NextTurn == InLoop /\ tag[Target] = "nexttarget" /\ OwnedByLoop(Target)
EndsBranch == AncestorStatement(cur) # Null /\ At(Ip + 1).pos = nodes[cur].endPos

JmpElse(s) ==
  /\ nodes' = [nodes EXCEPT ![s].hasElse = TRUE, ![nodes[s].block2].endPos = JumpPos(Ip)]
  /\ UNCHANGED <<tag, stack, cur>>

JmpEndOfLabel(s) ==
  /\ nodes' = [nodes EXCEPT ![s].potential = At(Ip).pos, ![s].endPos = JumpPos(Ip)]
  /\ tag' = [tag EXCEPT ![Target] = "endcase"]
  /\ UNCHANGED <<stack, cur>>

(* A case that starts with its otherwise.                                  *)
JmpOtherwiseOnly ==
  /\ nodes' = Adopt \o <<[Stmt("case", Ip, Args(1)) EXCEPT !.otherwise = New + 1, !.endPos = JumpPos(Ip)],
                         [Blank EXCEPT !.kind = "otherwise", !.parent = New, !.block1 = New + 2],
                         BlockOf(New + 1, JumpPos(Ip))>>
  /\ cur' = New + 2
  /\ stack' = Below(1)
  /\ tag' = [tag EXCEPT ![Target] = "endcase"]

JmpUnidentified ==
  /\ nodes' = Append(Adopt, Stmt("comment", Ip, <<>>))
  /\ UNCHANGED <<tag, stack, cur>>

JmpLoop(kind) ==
  /\ nodes' = Append(Adopt, Stmt(kind, Ip, <<>>))
  /\ UNCHANGED <<tag, stack, cur>>

Jmp ==
  /\ Translates({"jmp"}) /\ cur # Null
  /\ InLoop => Target > 0
  /\ LET s == AncestorStatement(cur) IN
     IF LeavesLoop THEN JmpLoop("exitrepeat")
     ELSE IF NextTurn THEN JmpLoop("nextrepeat")
     ELSE /\ s # Null => Ip + 1 < Size
          /\ IF EndsBranch /\ nodes[s].kind = "if" /\ cur = nodes[s].block1 THEN JmpElse(s)
             ELSE IF EndsBranch /\ nodes[s].kind = "case" THEN JmpEndOfLabel(s)
             ELSE IF Is(Target, "pop", 1) THEN JmpOtherwiseOnly
             ELSE JmpUnidentified
  /\ Proceed
-----------------------------------------------------------------------------
(***************************************************************************)
(* Case statements.                                                        *)
(***************************************************************************)

(* kOpPeek: remember the label before this one and the height of the       *)
(* stack, then translate the instructions of the case value.               *)
Peek ==
  /\ Translates({"peek"}) /\ cur # Null
  /\ Ip + 1 < Size
  /\ frames' = Append(frames, [at |-> Ip, curr |-> Ip + 1, base |-> Len(stack), prev |-> nodes[cur].label])
  /\ UNCHANGED <<code, phase, tag, owner, i, stack, nodes, cur>>

ExpectationByPrevious(k, isOr) ==
  LET t == IndexAt(JumpPos(k))
  IN  IF isOr THEN "or"
      ELSE IF At(t).op = "peek" THEN "next"
      ELSE IF Is(t, "pop", 1) /\ At(t - 1).op # "jmp" THEN "end"
      ELSE "otherwise"

(* What the jmpifz at k says about the rest of the case statement.         *)
Expectation(k, isOr) ==
  LET t == IndexAt(JumpPos(k))
  IN  IF isOr THEN "or"
      ELSE IF At(t).op = "peek" THEN "next"
      ELSE IF /\ Is(t, "pop", 1)
              /\ At(t - 1).op # "jmp" \/ JumpPos(t - 1) = At(t).pos THEN "end"
      ELSE "otherwise"

(* The first label makes the case statement, with the peeked value; a      *)
(* later one hangs on the label before it.  The label of the last of       *)
(* several equivalent values has the block.                                *)
NewLabel(k, expect) ==
  LET prev == Frame.prev
      first == prev = Null
      label == IF first THEN New + 1 ELSE New
      follows == ~first /\ nodes[prev].expect \in {"or", "next"}
      open == expect # "or"
      parent == IF first THEN New ELSE IF follows THEN prev ELSE Null
      labelNode == [Blank EXCEPT !.kind = "label", !.parent = parent, !.at = k,
                                 !.args = <<Operand(1)>>, !.expect = expect,
                                 !.block1 = IF open THEN label + 1 ELSE Null]
      caseNode == [Stmt("case", Frame.at, <<Operand(2)>>) EXCEPT !.next = label]
      old == IF first THEN Adopt ELSE IF follows THEN [nodes EXCEPT ![prev].next = label] ELSE nodes
      more == (IF first THEN <<caseNode>> ELSE <<>>)
              \o <<labelNode>>
              \o (IF open THEN <<BlockOf(label, JumpPos(k))>> ELSE <<>>)
  IN  /\ nodes' = [old EXCEPT ![cur].label = label] \o more
      /\ stack' = IF first THEN Below(2) ELSE Below(1)
      /\ cur' = IF open THEN label + 1 ELSE cur
      /\ UNCHANGED tag

(* The comparison is not where it should be: an error comment.             *)
NoLabel(popped) ==
  /\ nodes' = Append(Adopt, Stmt("comment", Frame.at, <<>>))
  /\ stack' = Below(popped)
  /\ UNCHANGED <<tag, cur>>

PeekNoComparison ==
  /\ phase = "parse" /\ SearchOver /\ cur # Null
  /\ Frame.curr >= Size
  /\ NoLabel(0)
  /\ Return(Callers, Frame.at, Frame.curr - Frame.at + 1)

PeekNoJump ==
  /\ phase = "parse" /\ SearchOver /\ cur # Null
  /\ Frame.curr < Size
  /\ Frame.curr + 1 < Size => At(Frame.curr + 1).op # "jmpifz"
  /\ NoLabel(1)
  /\ Return(Callers, Frame.at, Frame.curr - Frame.at + 2)

PeekLabel ==
  /\ phase = "parse" /\ SearchOver /\ cur # Null
  /\ Frame.curr + 1 < Size /\ At(Frame.curr + 1).op = "jmpifz"
  /\ LET k == Frame.curr + 1
         isOr == At(Frame.curr).op = "nteq"
     IN  /\ ~isOr /\ Is(IndexAt(JumpPos(k)), "pop", 1) => IndexAt(JumpPos(k)) > 0
         /\ NewLabel(k, Expectation(k, isOr))
         /\ Return(Callers, Frame.at, k - Frame.at + 1)

(* A pop that no jmp announced as the end of a case: the end of a case     *)
(* without labels if a value is left, else the cleanup before leaving a    *)
(* case early, or the end of a case of one label.                          *)
Pop ==
  /\ Translates({"pop"})
  /\ IF tag[Ip] # "endcase" /\ At(Ip).obj = 1 /\ Len(stack) = 1
     THEN AddStatement("case", 1)
     ELSE Proceed /\ UNCHANGED <<tag, stack, nodes, cur>>
-----------------------------------------------------------------------------
(***************************************************************************)
(* The end of the handler, and reads outside the bytecode array or through *)
(* a null block, after which the model says nothing, or a list of fewer     *)
(* than no arguments, which throws.                                        *)
(***************************************************************************)

Finish ==
  /\ phase = "parse" /\ frames = <<>> /\ i >= Size
  /\ phase' = "done"
  /\ UNCHANGED <<code, tag, owner, i, frames, stack, nodes, cur>>

TagReadsBeforeArray ==
  phase = "tag" /\ i < Size /\ At(i).op = "jmpifz" /\ IndexAt(JumpPos(i)) = 0

NullBlock ==
  /\ phase = "parse" /\ cur = Null
  /\ \/ AtTop
     \/ frames # <<>> /\ SearchOver
     \/ Translates(SetOps \cup {"endrepeat", "starttell", "endtell", "unknown", "jmp", "jmpifz", "peek"})
     \/ Translates({"extcall"}) /\ ReturnsNothing(Operand(1))
     \/ Translates({"ret"}) /\ Ip # Size - 1
     \/ Translates({"pop"}) /\ tag[Ip] # "endcase" /\ At(Ip).obj = 1 /\ Len(stack) = 1

ReadsOutsideArray ==
  /\ phase = "parse" /\ cur # Null
  /\ \/ Translates({"peek"}) /\ Ip + 1 >= Size
     \/ Translates({"jmp"}) /\ InLoop /\ Target = 0
     \/ /\ Translates({"jmp"}) /\ AncestorStatement(cur) # Null /\ Ip + 1 >= Size
        /\ InLoop => Target > 0 /\ ~LeavesLoop /\ ~NextTurn
     \/ /\ SearchOver /\ Frame.curr + 1 < Size
        /\ At(Frame.curr).op = "eq" /\ At(Frame.curr + 1).op = "jmpifz"
        /\ IndexAt(JumpPos(Frame.curr + 1)) = 0 /\ Is(0, "pop", 1)

(* readData reads four bytes as a signed number.                           *)
CountsBelowZero == Translates(ArgListOps) /\ At(Ip).obj < 0

Crash ==
  /\ TagReadsBeforeArray \/ NullBlock \/ ReadsOutsideArray \/ CountsBelowZero
  /\ phase' = "crashed"
  /\ UNCHANGED <<code, tag, owner, i, frames, stack, nodes, cur>>

Ended == phase \in {"done", "crashed"} /\ UNCHANGED vars
-----------------------------------------------------------------------------
Begin ==
  /\ phase = "tag"
  /\ tag = [k \in Index |-> "none"]
  /\ owner = [k \in Index |-> NoOwner]
  /\ i = 0
  /\ frames = <<>>
  /\ stack = <<>>
  /\ nodes = <<Blank>>
  /\ cur = RootBlock
Init == code \in Codes /\ Begin

Tagging == TagLoop \/ TagOther \/ StartParse
Translate == \/ SkipTagged \/ Leaf \/ Unary \/ Binary \/ ArgList \/ Assign \/ StrayEnd
             \/ Call \/ Exit \/ Swap \/ Unknown \/ StartTell \/ EndTell
             \/ JmpIfZ \/ Jmp \/ Peek \/ Pop
             \/ PeekNoComparison \/ PeekNoJump \/ PeekLabel
Next == Tagging \/ CloseBlock \/ Translate \/ Finish \/ Crash \/ Ended

Spec == Init /\ [][Next]_vars
-----------------------------------------------------------------------------
(***************************************************************************)
(* Properties of the decompiler on any bytecode, compiled or not.          *)
(***************************************************************************)

NodeRecord == [kind : Kinds, parent : Nat, at : Int, args : Seq(Nat), var : Int,
               block1 : Nat, block2 : Nat, hasElse : BOOLEAN, kids : Seq(Nat), endPos : Int,
               label : Nat, expect : Expects, next : Nat, otherwise : Nat, potential : Int]
FrameRecord == [at : Nat, curr : Nat, base : Nat, prev : Nat]

TypeOK ==
  /\ code \in Seq(Bytecode)
  /\ phase \in {"tag", "parse", "done", "crashed"}
  /\ tag \in [Index -> Tags]
  /\ owner \in [Index -> Int]
  /\ i \in Nat
  /\ frames \in Seq(FrameRecord)
  /\ stack \in Seq(Nat)
  /\ nodes \in Seq(NodeRecord)
  /\ cur \in Nat

(* The AST is a tree whatever the bytecode: a parent is older than its      *)
(* child, so that the walks of ancestorStatement and ancestorLoop end, and  *)
(* what addStatement put into a block has that block as its parent.         *)
ParentsAreOlder == \A n \in Node : nodes[n].parent < n
ChildrenKnowTheirBlock ==
  \A b \in Node : \A k \in 1 .. Len(nodes[b].kids) :
    /\ nodes[b].kids[k] \in Node
    /\ nodes[nodes[b].kids[k]].parent = b
AstIsTree == cur <= Len(nodes) /\ ParentsAreOlder /\ ChildrenKnowTheirBlock

(* Blocks end by position, tell blocks by kOpEndTell: without a stray       *)
(* endtell no bytecode makes exitBlock leave the handler's own block.       *)
OnlyEndTellLosesBlock ==
  cur = Null => \E k \in Index : At(k).op = "endtell"

(* parse ends on every handler, although the search of kOpPeek calls        *)
(* translateBytecode again and the closing of blocks opens others.          *)
Terminates == <>(phase \in {"done", "crashed"})
=============================================================================

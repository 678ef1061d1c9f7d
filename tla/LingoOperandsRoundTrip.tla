------------------------ MODULE LingoOperandsRoundTrip ------------------------
(***************************************************************************)
(* What translateBytecode promises of one statement: compiled by Director  *)
(* and translated back, it is the statement it was, and the values below   *)
(* it on the stack (the value of an enclosing case statement) are as they  *)
(* were.                                                                   *)
(***************************************************************************)
EXTENDS LingoOperandCompiler

CONSTANT Trees      (* The statements: [version, tree].                     *)

VARIABLE source     (* What is being translated: [tree, below] with the      *)
                    (* stack it starts from; no tree if nobody compiled it.  *)

(* The value a case statement keeps on the stack while its labels run.     *)
CaseValue == Var("x")

NoTree == Plain("none", <<>>)

RoundTripInit ==
  \/ /\ Init
     /\ source = [tree |-> NoTree, below |-> stack]
  \/ \E t \in Trees, below \in {<<>>, <<CaseValue>>} :
       /\ source = [tree |-> t.tree, below |-> below]
       /\ version = t.version
       /\ code = Compile(t.version, t.tree)
       /\ stack = below
       /\ statements = <<>>

RoundTripNext == Next /\ UNCHANGED source
RoundTripSpec == RoundTripInit /\ [][RoundTripNext]_<<vars, source>>
-----------------------------------------------------------------------------
Tree == source.tree
IsCompiled == Tree # NoTree
Finished == IsCompiled /\ code = <<>>

(* Methods that ObjCall writes as a value (handler.cpp:1132, 1143, 1161)   *)
(* and as a command (1137, 1151, 1167, 1182, 1186).  It goes by the name   *)
(* and the number of the arguments alone, so a call of the first kind      *)
(* whose value is not used becomes an expression, and a call of the second *)
(* kind whose value is used becomes a statement.                           *)
WrittenAsValue(method, args) ==
  LET n == Len(args)
  IN  \/ method = "getAt" /\ n = 2
      \/ method \in {"getProp", "getPropRef"} /\ n \in {3, 4} /\ args[2].kind = "symbol"
      \/ method = "count" /\ n = 2 /\ args[2].kind = "symbol"
WrittenAsCommand(method, args) ==
  LET n == Len(args)
  IN  \/ method = "setAt" /\ n = 3
      \/ method = "setProp" /\ n \in {4, 5} /\ args[2].kind = "symbol"
      \/ method \in {"setContents", "setContentsAfter", "setContentsBefore"} /\ n = 2
      \/ method \in {"hilite", "delete"} /\ n = 1

LosesStatement ==
  /\ Tree.kind = "objcall" /\ Tree.kids[1].kind = "arglistnoret"
  /\ WrittenAsValue(Tree.name, Tree.kids[1].kids)
LosesValue ==
  /\ Tree.kind = "assign" /\ Tree.kids[2].kind = "objcall"
  /\ WrittenAsCommand(Tree.kids[2].name, Tree.kids[2].kids[1].kids)

(* A statement comes back as it was: every operand in its place, chunks in *)
(* their order, the library of a member with its member, the number of a   *)
(* variable divided by what it was multiplied by (handler.cpp:145).        *)
StatementsComeBack ==
  Finished /\ ~LosesStatement /\ ~LosesValue => statements = <<Tree>>

(* Nothing is left on the stack and nothing below the statement is taken:  *)
(* in a case statement the next label peeks at the value of the case       *)
(* (handler.cpp:1026), so one value too many or too few breaks all of it.  *)
StackIsBalanced ==
  Finished => IF LosesStatement THEN Len(stack) = Len(source.below) + 1
              ELSE IF LosesValue THEN stack = <<>>
              ELSE stack = source.below

(* The values of an enclosing case statement are never touched meanwhile.  *)
KeepsWhatIsBelow ==
  \/ ~IsCompiled
  \/ Finished /\ LosesValue
  \/ LosesValue /\ Len(statements) = 1
  \/ SubSeq(stack, 1, Len(source.below)) = source.below

(* Before, at and after its end, a statement leaves the stack as it must.    *)
StackIsKept == StackIsBalanced /\ KeepsWhatIsBelow
=============================================================================

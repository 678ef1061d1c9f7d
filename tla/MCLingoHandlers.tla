---------------------------- MODULE MCLingoHandlers ----------------------------
(***************************************************************************)
(* Programs: loops and ifs nested three deep, with every way of leaving      *)
(* them; case statements with equivalent values, several labels, otherwise,  *)
(* no labels at all, nested in each other, in ifs, in loops and in tell      *)
(* blocks, and left early.  And bytecode no compiler made.                   *)
(***************************************************************************)
EXTENDS LingoRoundTrip

CONSTANT TailLength

Falls == [trailingJmp |-> FALSE, popsOnLeave |-> FALSE]
Jumps == [trailingJmp |-> TRUE, popsOnLeave |-> TRUE]

Cond == <<I("get", 1), I("pushint8", 5), I0("lteq")>>
Other == <<I("pushcons", 0), I("arglist", 1), I("extcall", 0), I0("not")>>
Fetch == <<I("pushcons", 0), I("arglist", 1), I("extcall", 0)>>
Same == <<I("get", 1), I("get", 2), I0("eq")>>
Five == <<I("pushint8", 5)>>
One == <<I("pushint8", 1)>>

Do(code0) == [Empty("simple") EXCEPT !.e = code0]
A == Do(<<I("pushint8", 5), I("set", 1)>>)
Proc == Do(<<I("pushcons", 0), I("get", 2), I("arglistnoret", 2), I("extcall", 0)>>)
Exit0 == Empty("exit")
NextRepeat == Empty("nextrepeat")
ExitRepeat == Empty("exitrepeat")

If(b) == [Empty("if") EXCEPT !.e = Cond, !.b1 = b]
IfElse(b, c) == [Empty("if") EXCEPT !.e = Same, !.b1 = b, !.hasElse = TRUE, !.b2 = c]
IfNot(b, c) == [IfElse(b, c) EXCEPT !.e = Other]
While(b) == [Empty("while") EXCEPT !.e = Cond, !.b1 = b]
Each(b) == [Empty("in") EXCEPT !.e = Other, !.var = 1, !.b1 = b]
Tell(b) == [Empty("tell") EXCEPT !.e = Fetch, !.b1 = b]
LoopsOver(b) == {While(b), Each(b),
                 [Empty("to") EXCEPT !.e = Five, !.e2 = Other, !.var = 1, !.b1 = b],
                 [Empty("downto") EXCEPT !.e = Other, !.e2 = Five, !.var = 2, !.b1 = b]}
-----------------------------------------------------------------------------
(* Loops.                                                                   *)
LoopFlat == {<<>>, <<Proc>>, <<A, Exit0>>}
Short == LoopFlat \cup {<<ExitRepeat>>, <<NextRepeat>>, <<A, NextRepeat>>}

(* Statements of depth one inside a loop, and the blocks made of them.     *)
Inner == {If(b) : b \in Short} \cup {IfNot(b, c) : b \in Short, c \in Short}
         \cup UNION {LoopsOver(b) : b \in Short}
Bodies == Short \cup {<<s>> : s \in Inner} \cup {<<s, A>> : s \in Inner}

(* A `repeat while' whose body ends in x = 1 + x after x = 5 is the bytecode *)
(* of a `repeat with', and is read as one.                                   *)
Inc == Do(<<I("pushint8", 1), I("get", 1), I0("add"), I("set", 1)>>)
Counting == {<<A, While(b \o <<Inc>>)>> : b \in {<<>>, <<Proc>>, <<If(<<ExitRepeat>>)>>, <<IfNot(<<Proc>>, <<A>>)>>}}

(* The same with a global that has the other opcodes: throughout, and, which  *)
(* is no `repeat with', in some of the places only.  That the variable of a  *)
(* `repeat with in' is no such global is a bound: that loop is not           *)
(* recognised (handler.cpp:412).                                            *)
Steps(set0, get0, get1, set1) ==
  <<Do(<<I("pushint8", 5), set0>>),
    [While(<<Proc, Do(<<I("pushint8", 1), get1, I0("add"), set1>>)>>) EXCEPT !.e = <<get0>> \o Tail(Cond)]>>
Setters == {I(op, Global2) : op \in SetOps}
Getters == {I(GetterOf(op), Global2) : op \in SetOps}
CountingGlobals ==
  {Steps(set0, get0, get1, set1) :
     set0 \in {Set(Global2)}, get0 \in Getters, get1 \in Getters, set1 \in Setters}
  \cup {<<[Empty(k) EXCEPT !.e = Five, !.e2 = Other, !.var = Global2, !.b1 = b]>> :
           k \in {"to", "downto"}, b \in Short}

LoopPrograms ==
  LET loops == UNION {LoopsOver(b) : b \in Bodies}
      ifs == UNION {LoopsOver(<<If(b)>>) \cup LoopsOver(<<IfNot(b, <<A>>)>>)
                    \cup LoopsOver(<<IfNot(<<Proc>>, b)>>) : b \in Bodies}
  IN  {<<s>> : s \in loops} \cup {<<A, s>> : s \in ifs} \cup Counting \cup CountingGlobals

(* The same with x = 1 + x in a branch that is not always taken.             *)
MCSometimesCounting == {[shape |-> Falls, block |-> <<A, While(<<IfNot(<<Proc>>, <<Inc>>)>>)>>]}
-----------------------------------------------------------------------------
(* Cases.                                                                   *)
Label(vals, b) == [vals |-> vals, b |-> b]
CaseOf(labels) == [Empty("case") EXCEPT !.e = Fetch, !.labels = labels]
CaseElse(labels, b) == [CaseOf(labels) EXCEPT !.hasElse = TRUE, !.b2 = b]

Flat == {<<>>, <<A>>, <<Exit0>>}
Leaving == {<<ExitRepeat>>, <<A, NextRepeat>>}

(* The cases made of the blocks bs, and, as `last', of those that may end   *)
(* a case.                                                                  *)
Cases(bs, last) ==
  {CaseOf(<<>>), CaseElse(<<>>, <<>>)}
  \cup {CaseElse(<<>>, b) : b \in bs}
  \cup {CaseOf(<<Label(<<v>>, b)>>) : v \in {One, Same}, b \in last}
  \cup {CaseOf(<<Label(<<Fetch, Same, One>>, b)>>) : b \in last}
  \cup {CaseOf(<<Label(<<One>>, b), Label(<<One, Fetch>>, c)>>) : b \in bs \cap (Flat \cup Leaving), c \in last}
  \cup {CaseElse(<<Label(<<Same, One>>, b)>>, c) : b \in bs, c \in (bs \cap (Flat \cup Leaving)) \ {<<>>}}
  \cup {CaseElse(<<Label(<<One>>, b), Label(<<Fetch>>, b)>>, <<A>>) : b \in bs}

(* A last label without a trailing jmp whose block ends in a jmp out of it  *)
(* is read as if an otherwise followed (handler.cpp:1061).                  *)
EndsInJmp(b) == LET c == CompileBlock(b, Outermost(Falls))
                IN  c # <<>> /\ c[Len(c)].op = "jmp" /\ c[Len(c)].obj \in {ToLoopEnd, ToLoopStep}
MayEndCase(shape, bs) == {b \in bs : shape.trailingJmp \/ ~EndsInJmp(b)}

Ifs(bs) == {<<If(b)>> : b \in bs} \cup {<<IfElse(b, c)>> : b \in bs, c \in bs}
Outside == Flat \cup Ifs(Flat) \cup {<<Tell(<<A>>)>>, <<While(<<ExitRepeat>>)>>, <<Each(<<NextRepeat>>), A>>}
Inside == Flat \cup Leaving \cup {<<If(b)>> : b \in Leaving} \cup {<<IfElse(b, <<A>>)>> : b \in Flat \cup Leaving}
          \cup {<<IfElse(<<A>>, b)>> : b \in Flat \cup Leaving} \cup {<<While(<<NextRepeat>>)>>}

Nested == {<<c>> : c \in Cases({<<>>, <<A>>, <<Exit0>>}, {<<A>>, <<Exit0>>})}

CasePrograms(shape) ==
  LET outside == Cases(Outside, MayEndCase(shape, Outside))
      inside == Cases(Inside, MayEndCase(shape, Inside))
      nested == Cases(Nested, Nested)
  IN  {<<s>> : s \in outside} \cup {<<If(<<s>>)>> : s \in outside}
      \cup {<<While(<<s>>)>> : s \in inside} \cup {<<Each(<<s, A>>)>> : s \in inside}
      \cup {<<A, While(<<IfElse(<<s>>, <<A>>), A>>)>> : s \in inside}
      \cup {<<Tell(<<s>>), A>> : s \in nested} \cup {<<IfElse(<<A>>, <<s>>)>> : s \in nested}

MCPrograms ==
  [shape : {Falls}, block : LoopPrograms]
  \cup UNION {[shape : {shape}, block : CasePrograms(shape)] : shape \in {Falls, Jumps}}
-----------------------------------------------------------------------------
(* Any code: a prefix that leaves parse in the middle of a case, a loop, an  *)
(* if or a tell, then TailLength instructions that open or close something,  *)
(* or one fewer of any kind.                                                *)
Control == {I("pushint8", 1), I("jmpifz", 3), I("jmp", 2), I("jmp", 4), I("endrepeat", 3),
            I("peek", 0), I("pop", 1), I0("starttell"), I0("endtell"), I0("eq"), I0("nteq"), I0("ret")}
Alphabet == Control \cup {I0("unknown"), I0("swap"), I("set", 1), I("arglistnoret", 1), I("extcall", 0)}
Tails == [1 .. TailLength -> Control] \cup [1 .. TailLength - 1 -> Alphabet]

OpenLabel == <<I("pushcons", 0), I("peek", 0), I("pushint8", 1), I0("eq"), I("jmpifz", 4)>>
OneLabelCase == <<I("pushcons", 0), I("peek", 0), I("pushint8", 1), I0("eq"), I("jmpifz", 2), I("pop", 1)>>
Prefixes == {<<>>, OpenLabel, OneLabelCase \o OpenLabel, <<I("pushcons", 0), I("jmpifz", 5)>>,
             <<I("pushcons", 0), I("jmpifz", 8)>>, OpenLabel \o <<I("peek", 0)>>}

Suffix == <<I0("ret"), I0("ret"), I0("ret")>>
MCCodes == {ReadData(p \o t \o Suffix) : p \in Prefixes, t \in Tails}
           \cup {ReadData(<<I("arglist", -1)>> \o Suffix)}
=============================================================================

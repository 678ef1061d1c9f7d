------------------------ MODULE LingoOperandsProofs ------------------------
(***************************************************************************)
(* Proof that every node is where its kind belongs, whatever the bytecode:  *)
(* values on the stack, statements in the block, and error comments alone.  *)
(*                                                                         *)
(* A node is made of operands: values popped off the stack, parts of a      *)
(* popped list, and nodes made on the way.  None of them is an error        *)
(* comment or has one as a part, and that is all the node needs.           *)
(***************************************************************************)
EXTENDS LingoOperands, SequenceTheorems, TLAPS

Operands(s) == Sequence(s) /\ \A k \in DOMAIN s : Operand(s[k])

(* A node that may be written, and one that may be part of another.         *)
Whole(n) == IsNode(n) /\ FreeOfComments(n)
Part(n) == Whole(n) /\ n.kind # "comment"

OperandInv ==
  /\ NodesAreInPlace
  /\ Sequence(stack) /\ \A k \in DOMAIN stack : Value(stack[k])
  /\ Sequence(statements)
-----------------------------------------------------------------------------
(* Sequences of anything.                                                   *)
LEMMA SequenceMade ==
  ASSUME NEW s, NEW n \in Nat, DOMAIN s = 1 .. n, s = [k \in 1 .. n |-> s[k]]
  PROVE  Sequence(s)
<1> DEFINE S == {s[k] : k \in DOMAIN s}
<1>1. \A k \in 1 .. n : s[k] \in S
  OBVIOUS
<1>2. [k \in 1 .. n |-> s[k]] \in [1 .. n -> S]
  BY <1>1
<1>3. [k \in 1 .. n |-> s[k]] \in Seq(S)
  BY <1>2, SeqDef
<1>4. QED
  BY <1>3 DEF Sequence

LEMMA SequenceOf ==
  ASSUME NEW S, NEW s \in Seq(S)
  PROVE  Sequence(s)
<1>1. Len(s) \in Nat /\ DOMAIN s = 1 .. Len(s) /\ s = [k \in 1 .. Len(s) |-> s[k]]
  OBVIOUS
<1>2. QED
  BY <1>1, SequenceMade

LEMMA SequenceFacts ==
  ASSUME NEW s, Sequence(s)
  PROVE  /\ Len(s) \in Nat /\ DOMAIN s = 1 .. Len(s)
         /\ \E S : s \in Seq(S)
BY DEF Sequence

LEMMA ElementOf ==
  ASSUME NEW S, NEW s \in Seq(S)
  PROVE  (\A i \in 1 .. Len(s) : s[i] \in S) /\ (s # <<>> => Head(s) \in S)
OBVIOUS

(* The operands of a node, one by one and in lists.                         *)
LEMMA NoOperands == Operands(<<>>)
<1>1. <<>> \in Seq({})
  OBVIOUS
<1>2. DOMAIN <<>> = {}
  OBVIOUS
<1>3. QED
  BY <1>1, <1>2, SequenceOf DEF Operands

LEMMA OneOperand ==
  ASSUME NEW a, Operand(a)
  PROVE  Operands(<<a>>)
<1>1. <<a>> \in Seq({a}) /\ DOMAIN <<a>> = {1} /\ <<a>>[1] = a
  OBVIOUS
<1>2. Sequence(<<a>>)
  BY <1>1, SequenceOf
<1>3. QED
  BY <1>1, <1>2 DEF Operands

LEMMA TwoOperands ==
  ASSUME NEW a, NEW b, Operand(a), Operand(b)
  PROVE  Operands(<<a, b>>)
<1>1. <<a, b>> \in Seq({a, b}) /\ DOMAIN <<a, b>> = {1, 2} /\ <<a, b>>[1] = a /\ <<a, b>>[2] = b
  OBVIOUS
<1>2. Sequence(<<a, b>>)
  BY <1>1, SequenceOf
<1>3. QED
  BY <1>1, <1>2 DEF Operands

LEMMA ThreeOperands ==
  ASSUME NEW a, NEW b, NEW c, Operand(a), Operand(b), Operand(c)
  PROVE  Operands(<<a, b, c>>)
<1>1. <<a, b, c>> \in Seq({a, b, c}) /\ DOMAIN <<a, b, c>> = {1, 2, 3}
      /\ <<a, b, c>>[1] = a /\ <<a, b, c>>[2] = b /\ <<a, b, c>>[3] = c
  OBVIOUS
<1>2. Sequence(<<a, b, c>>)
  BY <1>1, SequenceOf
<1>3. QED
  BY <1>1, <1>2 DEF Operands

LEMMA OperandsBehind ==
  ASSUME NEW s, Operands(s), s # <<>>
  PROVE  Operands(Tail(s))
<1>1. PICK S : s \in Seq(S)
  BY SequenceFacts DEF Operands
<1>2. Tail(s) \in Seq(S)
  BY <1>1
<1>3. \A k \in DOMAIN Tail(s) : k + 1 \in DOMAIN s /\ Tail(s)[k] = s[k + 1]
  BY <1>1
<1>4. QED
  BY <1>2, <1>3, SequenceOf DEF Operands

(* The first operand again, and those from the third to the m-th.           *)
LEMMA OperandsAround ==
  ASSUME NEW s, Operands(s), NEW m \in 2 .. Len(s)
  PROVE  Operands(<<s[1]>> \o SubSeq(s, 3, m))
<1>1. PICK S : s \in Seq(S)
  BY SequenceFacts DEF Operands
<1> DEFINE r == SubSeq(s, 3, m)
           t == <<s[1]>> \o r
<1>2. r \in Seq(S) /\ Len(r) = m - 2 /\ \A k \in 1 .. m - 2 : r[k] = s[k + 2]
  BY <1>1
<1>3. s[1] \in S /\ <<s[1]>> \in Seq(S) /\ Len(<<s[1]>>) = 1
  BY <1>1
<1> HIDE DEF r
<1>4. t \in Seq(S) /\ Len(t) = m - 1 /\ t[1] = s[1] /\ \A k \in 2 .. m - 1 : t[k] = r[k - 1]
  BY <1>2, <1>3
<1>5. \A k \in 1 .. m - 1 : \E i \in DOMAIN s : t[k] = s[i]
  <2>1. TAKE k \in 1 .. m - 1
  <2>2. CASE k = 1
    BY <1>1, <1>4, <2>2
  <2>3. CASE k # 1
    <3>1. k \in 2 .. m - 1 /\ k - 1 \in 1 .. m - 2 /\ k + 1 \in 1 .. Len(s) /\ (k - 1) + 2 = k + 1
      BY <1>1, <2>3
    <3>2. t[k] = s[k + 1]
      BY <1>2, <1>4, <3>1
    <3>3. k + 1 \in DOMAIN s
      BY <1>1, <3>1
    <3>4. QED
      BY <3>2, <3>3
  <2>4. QED
    BY <2>2, <2>3
<1> HIDE DEF t
<1>6. Sequence(t) /\ DOMAIN t = 1 .. m - 1
  BY <1>4, SequenceOf
<1>7. Operands(t)
  BY <1>5, <1>6 DEF Operands
<1>8. QED
  BY <1>7 DEF t, r

LEMMA FirstReplaced ==
  ASSUME NEW s, Operands(s), NEW a, Operand(a)
  PROVE  Operands([s EXCEPT ![1] = a])
<1> DEFINE t == [s EXCEPT ![1] = a]
<1>1. Len(s) \in Nat /\ DOMAIN s = 1 .. Len(s)
  BY SequenceFacts DEF Operands
<1>2. DOMAIN t = 1 .. Len(s) /\ t = [k \in 1 .. Len(s) |-> t[k]]
  BY <1>1
<1>3. \A k \in DOMAIN t : t[k] = a \/ t[k] = s[k]
  BY <1>1
<1>4. Sequence(t)
  BY <1>1, <1>2, SequenceMade
<1>5. QED
  BY <1>1, <1>2, <1>3, <1>4 DEF Operands
-----------------------------------------------------------------------------
(* What is made of operands.                                                *)
LEMMA Made ==
  ASSUME NEW kind, NEW name, NEW num, NEW kids, Operands(kids)
  PROVE  LET n == N(kind, name, num, kids)
         IN  /\ n.kind = kind /\ n.name = name /\ n.num = num /\ n.kids = kids
             /\ Whole(n)
             /\ kind # "comment" => Part(n)
<1> DEFINE n == N(kind, name, num, kids)
<1>1. n.kind = kind /\ n.name = name /\ n.num = num /\ n.kids = kids
  BY DEF N
<1>2. IsNode(n)
  BY <1>1 DEF IsNode, Operands
<1>3. FreeOfComments(n)
  BY <1>1 DEF FreeOfComments, Children, Operands
<1>4. QED
  BY <1>1, <1>2, <1>3 DEF Whole, Part

LEMMA PartIsOperand ==
  ASSUME NEW n, Part(n)
  PROVE  Operand(n)
BY DEF Part, Whole, FreeOfComments, Operand

LEMMA ValueIsPart ==
  ASSUME NEW n, Value(n)
  PROVE  Part(n) /\ Operand(n)
<1>1. Part(n)
  BY DEF Value, Part, Whole, IsExpression, Statements
<1>2. QED
  BY <1>1, PartIsOperand

LEMMA PartsOfWhole ==
  ASSUME NEW n, Whole(n)
  PROVE  /\ Operands(n.kids) /\ Operands(Items(n))
         /\ n = N(n.kind, n.name, n.num, n.kids)
<1>1. Operands(n.kids) /\ n = N(n.kind, n.name, n.num, n.kids)
  BY DEF Whole, IsNode, FreeOfComments, Children, Operands
<1>2. Operands(Items(n))
  BY <1>1, NoOperands DEF Items
<1>3. QED
  BY <1>1, <1>2

LEMMA Leaves ==
  /\ \A kind, name, num : Whole(N(kind, name, num, <<>>))
  /\ Value(Error) /\ Whole(Comment)
  /\ \A name : Part(Var(name)) /\ Operand(Var(name))
  /\ \A n : Part(Number(n))
<1>1. \A kind, name, num : Whole(N(kind, name, num, <<>>)) /\ N(kind, name, num, <<>>).kind = kind
  BY NoOperands, Made
<1>2. Value(Error)
  <2>1. Error = N("error", "", 0, <<>>)
    BY DEF Error, Plain
  <2>2. Whole(Error) /\ Error.kind = "error"
    BY <1>1, <2>1
  <2>3. IsExpression(Error)
    BY <2>2 DEF IsExpression, ReturnsNothing, Statements, Calls
  <2>4. QED
    BY <2>2, <2>3 DEF Whole, Value
<1>3. \A name : Part(Var(name))
  BY <1>1 DEF Var, Named, Part
<1>4. \A n : Part(Number(n))
  <2>1. TAKE n
  <2>2. Number(n) = N("int", "", n, <<>>)
    BY DEF Number, Numbered
  <2>3. Whole(Number(n)) /\ Number(n).kind = "int"
    BY <1>1, <2>2
  <2>4. QED
    BY <2>3 DEF Part
<1>5. QED
  BY <1>1, <1>2, <1>3, <1>4, PartIsOperand DEF Comment, Plain
-----------------------------------------------------------------------------
(* Popping values, and what becomes of the node that is made.               *)
LEMMA PoppedIsValue ==
  ASSUME OperandInv
  PROVE  \A k \in Nat \ {0} : Value(Popped(k)) /\ Part(Popped(k)) /\ Operand(Popped(k))
<1> SUFFICES ASSUME NEW k \in Nat \ {0}
             PROVE  Value(Popped(k))
  BY ValueIsPart
<1>1. Len(stack) \in Nat /\ DOMAIN stack = 1 .. Len(stack)
  BY SequenceFacts DEF OperandInv
<1>2. CASE k <= Len(stack)
  <2>1. Len(stack) - k + 1 \in DOMAIN stack
    BY <1>1, <1>2
  <2>2. QED
    BY <1>2, <2>1 DEF OperandInv, Popped
<1>3. CASE ~(k <= Len(stack))
  BY <1>3, Leaves DEF Popped
<1>4. QED
  BY <1>2, <1>3

LEMMA LeftBelow ==
  ASSUME OperandInv
  PROVE  \A k \in Nat : /\ Sequence(Below(k))
                         /\ \A i \in DOMAIN Below(k) : Value(Below(k)[i])
<1> SUFFICES ASSUME NEW k \in Nat
             PROVE  /\ Sequence(Below(k))
                    /\ \A i \in DOMAIN Below(k) : Value(Below(k)[i])
  OBVIOUS
<1>1. Len(stack) \in Nat /\ DOMAIN stack = 1 .. Len(stack)
  BY SequenceFacts DEF OperandInv
<1>2. PICK S : stack \in Seq(S)
  BY SequenceFacts DEF OperandInv
<1>3. CASE k < Len(stack)
  <2> DEFINE m == Len(stack) - k
             t == SubSeq(stack, 1, m)
  <2>1. m \in 1 .. Len(stack)
    BY <1>1, <1>3
  <2> HIDE DEF m
  <2>2. t \in Seq(S) /\ Len(t) = m /\ \A i \in 1 .. m : t[i] = stack[i]
    BY <1>2, <2>1
  <2> HIDE DEF t
  <2>3. DOMAIN t = 1 .. m /\ Sequence(t)
    BY <1>2, <2>1, <2>2, SequenceOf
  <2>4. \A i \in 1 .. m : i \in DOMAIN stack
    BY <1>1, <2>1
  <2>5. \A i \in DOMAIN t : Value(t[i])
    BY <2>2, <2>3, <2>4 DEF OperandInv
  <2>6. Below(k) = t
    BY <1>3 DEF Below, m, t
  <2>7. QED
    BY <2>3, <2>5, <2>6
<1>4. CASE ~(k < Len(stack))
  BY <1>4, NoOperands DEF Below, Operands
<1>5. QED
  BY <1>3, <1>4

LEMMA Appended ==
  ASSUME NEW s, Sequence(s), NEW n
  PROVE  /\ Sequence(Append(s, n))
         /\ \A i \in DOMAIN Append(s, n) : (i \in DOMAIN s /\ Append(s, n)[i] = s[i]) \/ Append(s, n)[i] = n
<1>1. PICK S : s \in Seq(S)
  BY SequenceFacts
<1> DEFINE T == S \cup {n}
<1>2. s \in Seq(T) /\ n \in T
  <2>1. \A k \in 1 .. Len(s) : s[k] \in T
    BY <1>1
  <2>2. QED
    BY <1>1, <2>1
<1> HIDE DEF T
<1>3. Append(s, n) \in Seq(T) /\ Len(Append(s, n)) = Len(s) + 1
      /\ \A i \in 1 .. Len(s) : Append(s, n)[i] = s[i]
      /\ Append(s, n)[Len(s) + 1] = n
  BY <1>2
<1>4. Sequence(Append(s, n))
  BY <1>3, SequenceOf
<1>5. Len(s) \in Nat /\ DOMAIN s = 1 .. Len(s) /\ DOMAIN Append(s, n) = 1 .. Len(s) + 1
  BY <1>2, <1>3
<1>6. \A i \in 1 .. Len(s) + 1 : i \in 1 .. Len(s) \/ i = Len(s) + 1
  BY <1>5
<1>7. QED
  BY <1>3, <1>4, <1>5, <1>6

LEMMA Placed ==
  ASSUME NEW s, Sequence(s), \A i \in DOMAIN s : Value(s[i]), NEW n, Value(n)
  PROVE  /\ Sequence(Append(s, n))
         /\ \A i \in DOMAIN Append(s, n) : Value(Append(s, n)[i])
BY Appended

LEMMA BecomesKeeps ==
  ASSUME OperandInv, code # <<>>, NEW k \in Nat, NEW n, Whole(n), Becomes(k, n)
  PROVE  OperandInv'
<1>1. Sequence(Below(k)) /\ \A i \in DOMAIN Below(k) : Value(Below(k)[i])
  BY LeftBelow
<1>2. version' \in Versions
  BY DEF Becomes, OperandInv, NodesAreInPlace, TypeOK
<1>3. code' \in Seq([op : STRING, obj : Int])
  BY DEF Becomes, OperandInv, NodesAreInPlace, TypeOK
<1>4. Sequence(stack') /\ \A i \in DOMAIN stack' : Value(stack'[i])
  <2>1. CASE IsExpression(n)
    <3>1. stack' = Append(Below(k), n)
      BY <2>1 DEF Becomes
    <3>2. Value(n)
      BY <2>1 DEF Value, Whole
    <3>3. QED
      BY <1>1, <3>1, <3>2, Placed
  <2>2. CASE ~IsExpression(n)
    <3>1. stack' = Below(k)
      BY <2>2 DEF Becomes
    <3>2. QED
      BY <1>1, <3>1
  <2>3. QED
    BY <2>1, <2>2
<1>5. /\ Sequence(statements')
      /\ \A i \in DOMAIN statements' : /\ FreeOfComments(statements'[i])
                                       /\ ~IsExpression(statements'[i])
  <2>1. /\ Sequence(statements)
        /\ \A i \in DOMAIN statements : FreeOfComments(statements[i]) /\ ~IsExpression(statements[i])
    BY DEF OperandInv, NodesAreInPlace, TypeOK, CommentsStandAlone, IsExpression
  <2>2. CASE IsExpression(n)
    <3>1. statements' = statements
      BY <2>2 DEF Becomes
    <3>2. QED
      BY <2>1, <3>1
  <2>3. CASE ~IsExpression(n)
    <3>1. statements' = Append(statements, n)
      BY <2>3 DEF Becomes
    <3>2. FreeOfComments(n)
      BY DEF Whole
    <3>3. QED
      BY <2>1, <2>3, <3>1, <3>2, Appended
  <2>4. QED
    BY <2>2, <2>3
<1>6. TypeOK'
  BY <1>2, <1>3, <1>4, <1>5 DEF TypeOK, Value, IsExpression
<1>7. CommentsStandAlone'
  BY <1>4, <1>5 DEF CommentsStandAlone, Value
<1>8. QED
  BY <1>4, <1>5, <1>6, <1>7 DEF OperandInv, NodesAreInPlace
-----------------------------------------------------------------------------
(* The nodes of the translator are whole.                                   *)
LEMMA MemberIsPart ==
  ASSUME OperandInv
  PROVE  \A prefix : \A k \in Nat : Part(Member(prefix, k)) /\ Operand(Member(prefix, k))
<1> SUFFICES ASSUME NEW prefix, NEW k \in Nat
             PROVE  Part(Member(prefix, k))
  BY PartIsOperand
<1>1. Operand(Popped(k + 1)) /\ Operand(Popped(k + 2))
  BY PoppedIsValue
<1>2. Operands(<<Popped(k + 2), Popped(k + 1)>>) /\ Operands(<<Popped(k + 1)>>)
  BY <1>1, OneOperand, TwoOperands
<1>3. CASE MemberOperands = 2
  BY <1>2, <1>3, Made DEF Member, Named
<1>4. CASE MemberOperands # 2
  BY <1>2, <1>4, Made DEF Member, Named
<1>5. QED
  BY <1>3, <1>4

LEMMA ReadVarIsPart ==
  ASSUME OperandInv
  PROVE  \A type : \A k \in Nat : Part(ReadVar(type, k)) /\ Operand(ReadVar(type, k))
<1> SUFFICES ASSUME NEW type, NEW k \in Nat
             PROVE  Part(ReadVar(type, k))
  BY PartIsOperand
<1>1. Part(Popped(k + 1)) /\ Part(Member("field", k)) /\ Part(Error)
  BY PoppedIsValue, MemberIsPart, Leaves, ValueIsPart
<1>2. \A name : Part(N("varref", name, 0, <<>>))
  BY NoOperands, Made
<1>3. CASE type \in 1 .. 3
  BY <1>1, <1>3 DEF ReadVar
<1>4. CASE type = 4
  BY <1>2, <1>4 DEF ReadVar, Named
<1>5. CASE type = 5
  BY <1>2, <1>5 DEF ReadVar, Named
<1>6. CASE type = 6
  BY <1>1, <1>6 DEF ReadVar
<1>7. CASE type \notin 1 .. 3 /\ type # 4 /\ type # 5 /\ type # 6
  BY <1>1, <1>7 DEF ReadVar
<1>8. QED
  BY <1>3, <1>4, <1>5, <1>6, <1>7

LEMMA ChunkIsPart ==
  ASSUME OperandInv
  PROVE  \A type, string : \A k \in Nat : Part(string) => Part(Chunk(type, k, string))
<1> SUFFICES ASSUME NEW type, NEW string, NEW k \in Nat, Part(string)
             PROVE  Part(Chunk(type, k, string))
  OBVIOUS
<1>1. Operand(Popped(k + 1)) /\ Operand(Popped(k + 2)) /\ Operand(string)
  BY PoppedIsValue, PartIsOperand
<1>2. Operands(<<Popped(k + 2), Popped(k + 1), string>>)
  BY <1>1, ThreeOperands
<1>3. Part(N("chunk", "", type, <<Popped(k + 2), Popped(k + 1), string>>))
  BY <1>2, Made
<1>4. QED
  BY <1>3 DEF Chunk, Numbered

LEMMA ReadChunkRefIsPart ==
  ASSUME OperandInv
  PROVE  \A string : \A k \in Nat : Part(string) => /\ Part(ReadChunkRef(string, k))
                                                   /\ Operand(ReadChunkRef(string, k))
<1> SUFFICES ASSUME NEW string, NEW k \in Nat, Part(string)
             PROVE  Part(ReadChunkRef(string, k))
  BY PartIsOperand
<1>1. Part(Chunk(Line, k, string))
  BY ChunkIsPart
<1>2. Part(Chunk(Item, k + 2, Chunk(Line, k, string)))
  BY <1>1, ChunkIsPart
<1>3. Part(Chunk(Word, k + 4, Chunk(Item, k + 2, Chunk(Line, k, string))))
  BY <1>2, ChunkIsPart
<1>4. Part(Chunk(Char, k + 6, Chunk(Word, k + 4, Chunk(Item, k + 2, Chunk(Line, k, string)))))
  BY <1>3, ChunkIsPart
<1>5. QED
  BY <1>4 DEF ReadChunkRef

LEMMA Counts ==
  /\ MemberOperands \in Nat
  /\ \A type : VarOperands(type) \in Nat
  /\ \A type, id : PropertyOperands(type, id) \in Nat
<1>1. MemberOperands \in Nat
  BY DEF MemberOperands
<1>2. \A type : VarOperands(type) \in Nat
  BY <1>1 DEF VarOperands
<1>3. \A type, id : PropertyOperands(type, id) \in Nat
  <2>1. TAKE type, id
  <2>2. MemberOperands + (IF type \in ChunkTypes THEN ChunkOperands ELSE 0) \in Nat
    BY <1>1 DEF ChunkOperands
  <2>3. QED
    BY <2>2 DEF PropertyOperands
<1>4. QED
  BY <1>1, <1>2, <1>3

LEMMA EntityIsPart ==
  ASSUME OperandInv
  PROVE  \A type : \A k \in Nat : Operand(MemberEntity(type, k))
<1> SUFFICES ASSUME NEW type, NEW k \in Nat
             PROVE  Operand(MemberEntity(type, k))
  OBVIOUS
<1>1. Part(Member(MemberPrefix(type), k)) /\ Operand(Member(MemberPrefix(type), k))
  BY MemberIsPart
<1>2. k + MemberOperands \in Nat
  BY Counts
<1>3. Operand(ReadChunkRef(Member(MemberPrefix(type), k), k + MemberOperands))
  BY <1>1, <1>2, ReadChunkRefIsPart
<1>4. QED
  BY <1>1, <1>3 DEF MemberEntity

LEMMA PropertyIsWhole ==
  ASSUME OperandInv
  PROVE  \A type, id : \A k \in Nat : Whole(ReadV4Property(type, id, k))
<1> SUFFICES ASSUME NEW type, NEW id, NEW k \in Nat
             PROVE  Whole(ReadV4Property(type, id, k))
  OBVIOUS
<1>1. Operand(Popped(k + 1)) /\ Operand(Popped(k + 2)) /\ Operand(MemberEntity(type, k))
  BY PoppedIsValue, EntityIsPart
<1>2. Operands(<<Popped(k + 1)>>) /\ Operands(<<Popped(k + 1), Popped(k + 2)>>)
      /\ Operands(<<MemberEntity(type, k)>>)
  BY <1>1, OneOperand, TwoOperands
<1>3. \A kind, name, num : /\ Whole(N(kind, name, num, <<>>))
                           /\ Whole(N(kind, name, num, <<Popped(k + 1)>>))
                           /\ Whole(N(kind, name, num, <<Popped(k + 1), Popped(k + 2)>>))
                           /\ Whole(N(kind, name, num, <<MemberEntity(type, k)>>))
  BY <1>2, NoOperands, Made
<1>4. Operand(Named("member", "castLib", <<Popped(k + 1)>>))
  <2>1. Part(N("member", "castLib", 0, <<Popped(k + 1)>>))
    BY <1>2, Made
  <2>2. QED
    BY <2>1, PartIsOperand DEF Named
<1>5. Whole(N("theprop", "animation2", id, <<Named("member", "castLib", <<Popped(k + 1)>>)>>))
  BY <1>4, OneOperand, Made
<1>6. Whole(Comment)
  BY Leaves
<1>7. QED
  BY <1>3, <1>5, <1>6 DEF ReadV4Property, Numbered
-----------------------------------------------------------------------------
(* Every instruction keeps what is on the stack and in the block in place.  *)
LEMMA EntryOfLiterals ==
  \A id : Whole(Entry(Literals, id, Error))
<1>1. TAKE id
<1>2. CASE id \in 0 .. Len(Literals) - 1
  <2>1. Literals \in Seq([kind : StoredKinds, name : STRING, num : Int, kids : {<<>>}])
    BY LiteralsAssumption
  <2>2. id + 1 \in 1 .. Len(Literals)
    BY <1>2, <2>1
  <2>3. Literals[id + 1] \in [kind : StoredKinds, name : STRING, num : Int, kids : {<<>>}]
    BY <2>1, <2>2, ElementOf
  <2>4. PICK kind, name, num : Literals[id + 1] = N(kind, name, num, <<>>)
    BY <2>3 DEF N
  <2>5. Whole(Literals[id + 1])
    BY <2>4, Leaves
  <2>6. QED
    BY <1>2, <2>5 DEF Entry
<1>3. CASE id \notin 0 .. Len(Literals) - 1
  BY <1>3, Leaves DEF Entry, Value, Whole
<1>4. QED
  BY <1>2, <1>3

LEMMA PushLiteralKeeps ==
  ASSUME OperandInv, PushLiteral
  PROVE  OperandInv'
<1>1. code # <<>>
  BY DEF PushLiteral, At
<1>2. \A n : Whole(n) /\ Becomes(0, n) => OperandInv'
  BY <1>1, BecomesKeeps
<1>3. \A n : Whole(Number(n))
  BY Leaves DEF Part
<1>4. Whole(Entry(Literals, Ordinal(Obj), Error))
  BY EntryOfLiterals
<1>5. \A kind, name : Whole(Named(kind, name, <<>>))
  BY Leaves DEF Named
<1>6. QED
  BY <1>2, <1>3, <1>4, <1>5 DEF PushLiteral

LEMMA GetVariableKeeps ==
  ASSUME OperandInv, GetVariable
  PROVE  OperandInv'
<1>1. code # <<>>
  BY DEF GetVariable, At
<1>2. \A n : Whole(n) /\ Becomes(0, n) => OperandInv'
  BY <1>1, BecomesKeeps
<1>3. \A name : Whole(Var(name))
  BY Leaves DEF Part
<1>4. QED
  BY <1>2, <1>3 DEF GetVariable

LEMMA SetVariableKeeps ==
  ASSUME OperandInv, SetVariable
  PROVE  OperandInv'
<1>1. code # <<>>
  BY DEF SetVariable, At
<1>2. \A n : Whole(n) /\ Becomes(1, n) => OperandInv'
  BY <1>1, BecomesKeeps
<1>3. \A name : Whole(Plain("assign", <<Var(name), Popped(1)>>))
  <2>1. TAKE name
  <2>2. Operand(Var(name)) /\ Operand(Popped(1))
    BY Leaves, PoppedIsValue
  <2>3. QED
    BY <2>2, TwoOperands, Made DEF Plain
<1>4. QED
  BY <1>2, <1>3 DEF SetVariable

LEMMA OperatorKeeps ==
  ASSUME OperandInv, Operator
  PROVE  OperandInv'
<1>1. code # <<>>
  BY DEF Operator, At
<1>2. \A n : Whole(n) /\ (Becomes(1, n) \/ Becomes(2, n)) => OperandInv'
  BY <1>1, BecomesKeeps
<1>3. Operand(Popped(1)) /\ Operand(Popped(2))
  BY PoppedIsValue
<1>4. \A kind : Whole(Plain(kind, <<Popped(2), Popped(1)>>)) /\ Whole(Plain(kind, <<Popped(1)>>))
  BY <1>3, OneOperand, TwoOperands, Made DEF Plain
<1>5. QED
  BY <1>2, <1>4 DEF Operator

LEMMA ArgListKeeps ==
  ASSUME OperandInv, ArgList
  PROVE  OperandInv'
<1>1. code # <<>>
  BY DEF ArgList, At
<1>2. Obj \in Nat
  <2>1. code \in Seq([op : STRING, obj : Int])
    BY DEF OperandInv, NodesAreInPlace, TypeOK
  <2>2. Head(code) \in [op : STRING, obj : Int]
    BY <1>1, <2>1, ElementOf
  <2>3. Obj \in Int
    BY <2>2 DEF Obj
  <2>4. QED
    BY <2>3 DEF ArgList
<1> DEFINE args == Popping(Obj)
<1>3. DOMAIN args = 1 .. Obj /\ args = [k \in 1 .. Obj |-> args[k]]
  BY DEF Popping
<1>4. \A k \in 1 .. Obj : Obj - k + 1 \in Nat \ {0} /\ args[k] = Popped(Obj - k + 1)
  BY <1>2 DEF Popping
<1> HIDE DEF args
<1>5. \A k \in 1 .. Obj : Operand(args[k])
  BY <1>4, PoppedIsValue
<1>6. Operands(args)
  BY <1>2, <1>3, <1>5, SequenceMade DEF Operands
<1>7. Whole(Plain(Op, args))
  BY <1>6, Made DEF Plain
<1>8. Becomes(Obj, Plain(Op, args))
  BY DEF ArgList, args
<1>9. QED
  BY <1>1, <1>2, <1>7, <1>8, BecomesKeeps

LEMMA MakeListKeeps ==
  ASSUME OperandInv, MakeList
  PROVE  OperandInv'
<1>1. code # <<>>
  BY DEF MakeList, At
<1>2. \A n : Whole(n) /\ Becomes(1, n) => OperandInv'
  BY <1>1, BecomesKeeps
<1>3. \A n, kind : Whole(n) => Whole(Retype(n, kind))
  <2>1. SUFFICES ASSUME NEW n, NEW kind, Whole(n)
                 PROVE  Whole(Retype(n, kind))
    OBVIOUS
  <2>2. n = N(n.kind, n.name, n.num, n.kids) /\ Operands(n.kids)
    BY <2>1, PartsOfWhole
  <2>3. [n EXCEPT !.kind = kind] = N(kind, n.name, n.num, n.kids)
    BY <2>2 DEF N
  <2>4. Whole(N(kind, n.name, n.num, n.kids))
    BY <2>2, Made
  <2>5. QED
    BY <2>1, <2>3, <2>4 DEF Retype
<1>4. Whole(Popped(1))
  BY PoppedIsValue DEF Part
<1>5. QED
  BY <1>2, <1>3, <1>4 DEF MakeList

LEMMA SwapKeeps ==
  ASSUME OperandInv, Swap
  PROVE  OperandInv'
<1>1. code # <<>>
  BY DEF Swap, At
<1>2. version' \in Versions /\ code' \in Seq([op : STRING, obj : Int])
  BY <1>1 DEF Swap, OperandInv, NodesAreInPlace, TypeOK
<1>3. Sequence(stack') /\ \A i \in DOMAIN stack' : Value(stack'[i])
  <2> DEFINE once == Append(Below(2), Popped(1))
             twice == Append(once, Popped(2))
  <2>1. Sequence(Below(2)) /\ \A i \in DOMAIN Below(2) : Value(Below(2)[i])
    BY LeftBelow
  <2>2. Value(Popped(1)) /\ Value(Popped(2))
    BY PoppedIsValue
  <2>3. Sequence(once) /\ \A i \in DOMAIN once : Value(once[i])
    BY <2>1, <2>2, Placed
  <2> HIDE DEF once
  <2>4. Sequence(twice) /\ \A i \in DOMAIN twice : Value(twice[i])
    BY <2>2, <2>3, Placed
  <2> HIDE DEF twice
  <2>5. stack' = twice \/ stack' = stack
    BY DEF Swap, once, twice
  <2>6. CASE stack' = twice
    BY <2>4, <2>6
  <2>7. CASE stack' = stack
    BY <2>7 DEF OperandInv
  <2>8. QED
    BY <2>5, <2>6, <2>7
<1>4. statements' = statements
  BY DEF Swap
<1>5. TypeOK'
  BY <1>2, <1>3, <1>4 DEF OperandInv, NodesAreInPlace, TypeOK, Value, IsExpression
<1>6. CommentsStandAlone'
  BY <1>3, <1>4 DEF OperandInv, NodesAreInPlace, CommentsStandAlone, Value
<1>7. QED
  BY <1>3, <1>4, <1>5, <1>6 DEF OperandInv, NodesAreInPlace

LEMMA ChunkOpKeeps ==
  ASSUME OperandInv, ChunkOp
  PROVE  OperandInv'
<1>1. code # <<>>
  BY DEF ChunkOp, At
<1>2. \A k \in Nat : \A n : Whole(n) /\ Becomes(k, n) => OperandInv'
  BY <1>1, BecomesKeeps
<1>3. MemberOperands \in Nat /\ VarOperands(Obj) \in Nat
      /\ 1 + ChunkOperands \in Nat /\ MemberOperands + ChunkOperands \in Nat
      /\ VarOperands(Obj) + ChunkOperands \in Nat
  BY Counts DEF ChunkOperands
<1>4. Whole(ReadChunkRef(Popped(1), 1))
  <2>1. Part(Popped(1))
    BY PoppedIsValue
  <2>2. QED
    BY <2>1, ReadChunkRefIsPart DEF Part
<1>5. Whole(Plain("hilite", <<ReadChunkRef(Member("field", 0), MemberOperands)>>))
  <2>1. Part(Member("field", 0))
    BY MemberIsPart
  <2>2. Operand(ReadChunkRef(Member("field", 0), MemberOperands))
    BY <1>3, <2>1, ReadChunkRefIsPart
  <2>3. QED
    BY <2>2, OneOperand, Made DEF Plain
<1>6. Whole(Plain("delete", <<ReadChunkRef(ReadVar(Obj, 0), VarOperands(Obj))>>))
  <2>1. Part(ReadVar(Obj, 0))
    BY ReadVarIsPart
  <2>2. Operand(ReadChunkRef(ReadVar(Obj, 0), VarOperands(Obj)))
    BY <1>3, <2>1, ReadChunkRefIsPart
  <2>3. QED
    BY <2>2, OneOperand, Made DEF Plain
<1>7. QED
  BY <1>2, <1>3, <1>4, <1>5, <1>6 DEF ChunkOp

LEMMA GetFieldKeeps ==
  ASSUME OperandInv, GetField
  PROVE  OperandInv'
<1>1. code # <<>> /\ Becomes(MemberOperands, Member("field", 0))
  BY DEF GetField, At
<1>2. Whole(Member("field", 0))
  BY MemberIsPart DEF Part
<1>3. QED
  BY <1>1, <1>2, Counts, BecomesKeeps

LEMMA PutKeeps ==
  ASSUME OperandInv, Put
  PROVE  OperandInv'
<1> DEFINE used == VarOperands(PutVar)
           var == ReadVar(PutVar, 0)
           far == used + ChunkOperands
<1>1. code # <<>>
  BY DEF Put, At
<1>2. \A k \in Nat : \A n : Whole(n) /\ Becomes(k, n) => OperandInv'
  BY <1>1, BecomesKeeps
<1>3. used \in Nat /\ far \in Nat /\ used + 1 \in Nat \ {0} /\ far + 1 \in Nat \ {0}
  BY Counts DEF ChunkOperands
<1>4. Part(var) /\ Operand(var)
  BY ReadVarIsPart
<1> HIDE DEF used, var, far
<1>5. Operand(Popped(used + 1)) /\ Operand(Popped(far + 1))
  BY <1>3, PoppedIsValue
<1>6. Operand(ReadChunkRef(var, used))
  BY <1>3, <1>4, ReadChunkRefIsPart
<1>7. Whole(Numbered("put", PutType, <<var, Popped(used + 1)>>))
  BY <1>4, <1>5, TwoOperands, Made DEF Numbered
<1>8. Whole(Numbered("put", PutType, <<ReadChunkRef(var, used), Popped(far + 1)>>))
  BY <1>5, <1>6, TwoOperands, Made DEF Numbered
<1>9. \/ Becomes(used + 1, Numbered("put", PutType, <<var, Popped(used + 1)>>))
      \/ Becomes(far + 1, Numbered("put", PutType, <<ReadChunkRef(var, used), Popped(far + 1)>>))
  BY DEF Put, used, var, far
<1>10. QED
  BY <1>2, <1>3, <1>7, <1>8, <1>9

LEMMA GetKeeps ==
  ASSUME OperandInv, Get
  PROVE  OperandInv'
<1> DEFINE id == ToInt(Popped(1))
<1>1. code # <<>> /\ Becomes(1 + PropertyOperands(Obj, id), ReadV4Property(Obj, id, 1))
  BY DEF Get, At
<1> HIDE DEF id
<1>2. 1 + PropertyOperands(Obj, id) \in Nat
  BY Counts
<1>3. Whole(ReadV4Property(Obj, id, 1))
  BY PropertyIsWhole
<1>4. QED
  BY <1>1, <1>2, <1>3, BecomesKeeps

LEMMA SetKeeps ==
  ASSUME OperandInv, Set
  PROVE  OperandInv'
<1> DEFINE id == ToInt(Popped(1))
           value == Popped(2)
           prop == ReadV4Property(Obj, id, 2)
<1>1. code # <<>>
  BY DEF Set, At
<1>2. \/ Becomes(2, N("when", value.name, id, <<>>))
      \/ Becomes(2 + PropertyOperands(Obj, id), AssignTo(prop, value))
  BY DEF Set
<1>3. Operand(value) /\ Whole(prop)
  BY PoppedIsValue, PropertyIsWhole
<1> HIDE DEF id, value, prop
<1>4. Whole(N("when", value.name, id, <<>>))
  BY Leaves
<1>5. Whole(AssignTo(prop, value))
  <2>1. CASE prop.kind = "comment"
    BY <1>3, <2>1 DEF AssignTo
  <2>2. CASE prop.kind # "comment"
    <3>1. Operand(prop)
      BY <1>3, <2>2, PartIsOperand DEF Part
    <3>2. Whole(N("assign", "", 0, <<prop, value>>))
      BY <1>3, <3>1, TwoOperands, Made
    <3>3. QED
      BY <2>2, <3>2 DEF AssignTo, Plain
  <2>3. QED
    BY <2>1, <2>2
<1>6. 2 + PropertyOperands(Obj, id) \in Nat
  BY Counts
<1>7. QED
  BY <1>1, <1>2, <1>4, <1>5, <1>6, BecomesKeeps

LEMMA PropertyKeeps ==
  ASSUME OperandInv, Property
  PROVE  OperandInv'
<1>1. code # <<>>
  BY DEF Property, At
<1>2. \A k \in Nat : \A n : Whole(n) /\ Becomes(k, n) => OperandInv'
  BY <1>1, BecomesKeeps
<1>3. Operand(Popped(1)) /\ Operand(Popped(2))
  BY PoppedIsValue
<1>4. \A kind, name : Whole(Named(kind, name, <<>>)) /\ Whole(Named(kind, name, <<Popped(1)>>))
  BY <1>3, Leaves, OneOperand, Made DEF Named
<1>5. \A name : Whole(Plain("assign", <<Named("the", name, <<>>), Popped(1)>>))
  <2>1. TAKE name
  <2>2. Operand(Named("the", name, <<>>))
    BY NoOperands, Made, PartIsOperand DEF Named
  <2>3. QED
    BY <1>3, <2>2, TwoOperands, Made DEF Plain
<1>6. \A name : Whole(Plain("assign", <<Named("objprop", name, <<Popped(2)>>), Popped(1)>>))
  <2>1. TAKE name
  <2>2. Operand(Named("objprop", name, <<Popped(2)>>))
    BY <1>3, OneOperand, Made, PartIsOperand DEF Named
  <2>3. QED
    BY <1>3, <2>2, TwoOperands, Made DEF Plain
<1>7. \A name : Whole(Var(name))
  BY Leaves DEF Part
<1>8. Whole(ReadVar(Obj, 0)) /\ VarOperands(Obj) \in Nat
  BY ReadVarIsPart, Counts DEF Part
<1>9. QED
  BY <1>2, <1>4, <1>5, <1>6, <1>7, <1>8 DEF Property
-----------------------------------------------------------------------------
(* Calls: what is taken out of the popped list is a part of it.             *)
LEMMA LocalCallKeeps ==
  ASSUME OperandInv, LocalCall
  PROVE  OperandInv'
<1>1. code # <<>> /\ Becomes(1, Named("call", Handlers[Obj + 1], <<Popped(1)>>))
  BY DEF LocalCall, At
<1>2. Operand(Popped(1))
  BY PoppedIsValue
<1>3. \A name : Whole(Named("call", name, <<Popped(1)>>))
  BY <1>2, OneOperand, Made DEF Named
<1>4. QED
  BY <1>1, <1>3, BecomesKeeps

LEMMA CallNodeIsWhole ==
  \A name, args : Part(args) => Whole(CallNode(name, args))
<1>1. SUFFICES ASSUME NEW name, NEW args, Part(args)
               PROVE  Whole(CallNode(name, args))
  OBVIOUS
<1>2. Operand(args) /\ Whole(args)
  BY <1>1, PartIsOperand DEF Part
<1>3. args = N(args.kind, args.name, args.num, args.kids) /\ Operands(args.kids)
  BY <1>2, PartsOfWhole
<1>4. \A kind, command : Whole(Named(kind, command, <<args>>))
  BY <1>2, OneOperand, Made DEF Named
<1>5. CASE IsSoundCmd(name, args)
  <2> DEFINE rest == [args EXCEPT !.kids = Tail(@)]
  <2>1. rest = N(args.kind, args.name, args.num, Tail(args.kids))
    <3>1. PICK kind, command, num, kids : args = N(kind, command, num, kids)
      BY <1>3
    <3> DEFINE tail == Tail(args.kids)
    <3>2. rest = [args EXCEPT !.kids = tail]
      OBVIOUS
    <3> HIDE DEF tail, rest
    <3>3. rest = N(args.kind, args.name, args.num, tail)
      BY <3>1, <3>2 DEF N
    <3>4. QED
      BY <3>3 DEF tail
  <2>2. Operands(Tail(args.kids))
    BY <1>3, <1>5, OperandsBehind DEF IsSoundCmd
  <2>3. args.kind # "comment"
    BY <1>1 DEF Part
  <2>4. Part(rest)
    BY <2>1, <2>2, <2>3, Made
  <2> HIDE DEF rest
  <2>5. \A command : Whole(Named("soundcmd", command, <<rest>>))
    BY <2>4, PartIsOperand, OneOperand, Made DEF Named
  <2>6. CallNode(name, args) = Named("soundcmd", args.kids[1].name, <<rest>>)
    BY <1>5 DEF CallNode, rest
  <2>7. QED
    BY <2>5, <2>6
<1>6. CASE ~IsSoundCmd(name, args)
  BY <1>4, <1>6 DEF CallNode, Plain, Named
<1>7. QED
  BY <1>5, <1>6

LEMMA ExtCallKeeps ==
  ASSUME OperandInv, ExtCall
  PROVE  OperandInv'
<1>1. code # <<>> /\ Becomes(1, CallNode(GetName(Obj), Popped(1)))
  BY DEF ExtCall, At
<1>2. Whole(CallNode(GetName(Obj), Popped(1)))
  BY PoppedIsValue, CallNodeIsWhole
<1>3. QED
  BY <1>1, <1>2, BecomesKeeps

LEMMA ObjCallV4Keeps ==
  ASSUME OperandInv, ObjCallV4
  PROVE  OperandInv'
<1> DEFINE used == VarOperands(Obj)
           args == Popped(used + 1)
           method == IF Items(args) # <<>> /\ args.kids[1].kind \in {"symbol", "string", "varref"}
                     THEN args.kids[1].name ELSE ""
           named == IF Items(args) = <<>> THEN args ELSE [args EXCEPT !.kids[1] = Var(method)]
<1>1. code # <<>> /\ Becomes(used + 1, Plain("objcallv4", <<ReadVar(Obj, 0), named>>))
  BY DEF ObjCallV4, At
<1>2. used + 1 \in Nat \ {0}
  BY Counts
<1>3. Operand(ReadVar(Obj, 0))
  BY ReadVarIsPart
<1> HIDE DEF used
<1>4. Part(args)
  BY <1>2, PoppedIsValue
<1> HIDE DEF args
<1>5. args = N(args.kind, args.name, args.num, args.kids) /\ Operands(args.kids)
  BY <1>4, PartsOfWhole DEF Part
<1> HIDE DEF method
<1>6. Operand(named)
  <2> DEFINE kids == [args.kids EXCEPT ![1] = Var(method)]
  <2>1. [args EXCEPT !.kids[1] = Var(method)] = N(args.kind, args.name, args.num, kids)
    BY <1>5 DEF N
  <2>2. Operands(kids)
    BY <1>5, Leaves, FirstReplaced
  <2>3. args.kind # "comment"
    BY <1>4 DEF Part
  <2> HIDE DEF kids
  <2>4. Operand(N(args.kind, args.name, args.num, kids))
    BY <2>2, <2>3, Made, PartIsOperand
  <2>5. Operand(args)
    BY <1>4, PartIsOperand
  <2>6. QED
    BY <2>1, <2>4, <2>5
<1> HIDE DEF named
<1>7. Whole(Plain("objcallv4", <<ReadVar(Obj, 0), named>>))
  BY <1>3, <1>6, TwoOperands, Made DEF Plain
<1>8. QED
  BY <1>1, <1>2, <1>7, BecomesKeeps

LEMMA MethodNodeIsWhole ==
  \A method, args : Part(args) => Whole(MethodNode(method, args))
<1>1. SUFFICES ASSUME NEW method, NEW args, Part(args)
               PROVE  Whole(MethodNode(method, args))
  OBVIOUS
<1> DEFINE a == Items(args)
           n == Len(a)
           bracket == Plain("objbracket", <<a[1], a[2]>>)
           index == Named("objpropindex", a[2].name, <<a[1]>> \o SubSeq(a, 3, n))
           indexBeforeLast == Named("objpropindex", a[2].name, <<a[1]>> \o SubSeq(a, 3, n - 1))
           counted == Named("objprop", "count", <<Named("objprop", a[2].name, <<a[1]>>)>>)
           result == MethodNode(method, args)
<1>2. Operand(args) /\ Operands(a)
  BY <1>1, PartIsOperand, PartsOfWhole DEF Part
<1>3. result =
        CASE method = "getAt" /\ n = 2 -> bracket
          [] method = "setAt" /\ n = 3 -> Plain("assign", <<bracket, a[3]>>)
          [] method \in {"getProp", "getPropRef"} /\ n \in 3 .. 4 /\ IsSymbol(a[2]) -> index
          [] method = "setProp" /\ n \in 4 .. 5 /\ IsSymbol(a[2]) ->
               Plain("assign", <<indexBeforeLast, a[n]>>)
          [] method = "count" /\ n = 2 /\ IsSymbol(a[2]) -> counted
          [] Into(method) # 0 /\ n = 2 -> Numbered("put", Into(method), <<a[1], a[2]>>)
          [] method = "hilite" /\ n = 1 -> Plain("hilite", <<a[1]>>)
          [] method = "delete" /\ n = 1 -> Plain("delete", <<a[1]>>)
          [] OTHER -> Named("objcall", method, <<args>>)
  BY DEF MethodNode
<1> HIDE DEF a, result
<1>4. n \in Nat /\ \A i \in 1 .. n : Operand(a[i])
  BY <1>2, SequenceFacts DEF Operands
<1>5. CASE n = 2
  <2>1. Operand(a[1]) /\ Operand(a[2])
    BY <1>4, <1>5
  <2>0. Operands(<<a[1], a[2]>>)
    BY <2>1, TwoOperands
  <2>2. Whole(bracket)
    BY <2>0, Made DEF Plain
  <2>3. Whole(counted)
    <3>1. Operand(Named("objprop", a[2].name, <<a[1]>>))
      BY <2>1, OneOperand, Made, PartIsOperand DEF Named
    <3>2. QED
      BY <3>1, OneOperand, Made DEF Named
  <2>4. Whole(Numbered("put", Into(method), <<a[1], a[2]>>))
    BY <2>0, Made DEF Numbered
  <2>5. Whole(Named("objcall", method, <<args>>))
    BY <1>2, OneOperand, Made DEF Named
  <2> HIDE DEF bracket, counted
  <2>6. result \in {bracket, counted, Numbered("put", Into(method), <<a[1], a[2]>>),
                     Named("objcall", method, <<args>>)}
    BY <1>3, <1>5
  <2>7. QED
    BY <2>2, <2>3, <2>4, <2>5, <2>6 DEF result
<1>6. CASE n \in 3 .. 5
  <2>1. Operand(a[1]) /\ Operand(a[2]) /\ Operand(a[3]) /\ Operand(a[n])
    BY <1>4, <1>6
  <2>2. Operand(bracket)
    <3>1. Operands(<<a[1], a[2]>>)
      BY <2>1, TwoOperands
    <3>2. QED
      BY <3>1, Made, PartIsOperand DEF Plain
  <2>3. Whole(Plain("assign", <<bracket, a[3]>>))
    <3> HIDE DEF bracket
    <3>1. Operands(<<bracket, a[3]>>)
      BY <2>1, <2>2, TwoOperands
    <3>2. QED
      BY <3>1, Made DEF Plain
  <2>4. Whole(index)
    <3>1. n \in 2 .. Len(a)
      BY <1>6
    <3>2. Operands(<<a[1]>> \o SubSeq(a, 3, n))
      BY <1>2, <3>1, OperandsAround
    <3>3. QED
      BY <3>2, Made DEF Named
  <2>5. Operand(indexBeforeLast)
    <3>1. n - 1 \in 2 .. Len(a)
      BY <1>6
    <3>2. Operands(<<a[1]>> \o SubSeq(a, 3, n - 1))
      BY <1>2, <3>1, OperandsAround
    <3>3. QED
      BY <3>2, Made, PartIsOperand DEF Named
  <2>6. Whole(Plain("assign", <<indexBeforeLast, a[n]>>))
    <3> HIDE DEF indexBeforeLast
    <3>1. Operands(<<indexBeforeLast, a[n]>>)
      BY <2>1, <2>5, TwoOperands
    <3>2. QED
      BY <3>1, Made DEF Plain
  <2>7. Whole(Named("objcall", method, <<args>>))
    BY <1>2, OneOperand, Made DEF Named
  <2> HIDE DEF bracket, index, indexBeforeLast, counted
  <2>8. n # 1 /\ n # 2
    BY <1>6
  <2>9. result \in {Plain("assign", <<bracket, a[3]>>), index,
                     Plain("assign", <<indexBeforeLast, a[n]>>), Named("objcall", method, <<args>>)}
    BY <1>3, <2>8
  <2>10. QED
    BY <2>3, <2>4, <2>6, <2>7, <2>9 DEF result
<1>7. CASE n \notin 2 .. 5
  <2>1. Whole(Named("objcall", method, <<args>>))
    BY <1>2, OneOperand, Made DEF Named
  <2>2. n = 1 => Whole(Plain("hilite", <<a[1]>>)) /\ Whole(Plain("delete", <<a[1]>>))
    <3>1. HAVE n = 1
    <3>2. Operand(a[1])
      BY <1>4, <3>1
    <3>3. QED
      BY <3>2, OneOperand, Made DEF Plain
  <2>3. n # 2 /\ n # 3 /\ n \notin 3 .. 4 /\ n \notin 4 .. 5
    BY <1>4, <1>7
  <2> HIDE DEF bracket, index, indexBeforeLast, counted, n
  <2>4. \/ n = 1 /\ result \in {Plain("hilite", <<a[1]>>), Plain("delete", <<a[1]>>)}
        \/ result = Named("objcall", method, <<args>>)
    BY <1>3, <2>3
  <2>5. QED
    BY <2>1, <2>2, <2>4 DEF result
<1>8. QED
  BY <1>4, <1>5, <1>6, <1>7

LEMMA ObjCallKeeps ==
  ASSUME OperandInv, ObjCall
  PROVE  OperandInv'
<1>1. code # <<>> /\ Becomes(1, MethodNode(GetName(Obj), Popped(1)))
  BY DEF ObjCall, At
<1>2. Whole(MethodNode(GetName(Obj), Popped(1)))
  BY PoppedIsValue, MethodNodeIsWhole
<1>3. QED
  BY <1>1, <1>2, BecomesKeeps

LEMMA UnknownKeeps ==
  ASSUME OperandInv, Unknown
  PROVE  OperandInv'
<1>1. code # <<>> /\ Becomes(Len(stack), Comment)
  BY DEF Unknown, At
<1>2. Len(stack) \in Nat
  BY SequenceFacts DEF OperandInv
<1>3. Whole(Comment)
  BY Leaves
<1>4. QED
  BY <1>1, <1>2, <1>3, BecomesKeeps
-----------------------------------------------------------------------------
LEMMA StartsInPlace ==
  ASSUME Init
  PROVE  OperandInv
<1>1. PICK t \in Tasks : version = t.version /\ code = t.code /\ stack = t.below /\ statements = <<>>
  BY DEF Init
<1>2. /\ version \in Versions /\ code \in Seq([op : STRING, obj : Int])
      /\ Sequence(stack) /\ \A k \in DOMAIN stack : Value(stack[k])
  BY <1>1, TasksAssumption
<1>3. Sequence(statements) /\ DOMAIN statements = {}
  BY <1>1, NoOperands DEF Operands
<1>4. TypeOK /\ CommentsStandAlone
  BY <1>2, <1>3 DEF TypeOK, CommentsStandAlone, Value, IsExpression
<1>5. QED
  BY <1>2, <1>3, <1>4 DEF OperandInv, NodesAreInPlace

(* Whatever the bytecode, the tables and the values below, only values are  *)
(* on the stack and only statements in the block, and an error comment is   *)
(* never part of another node: the comment that it makes of the rest of its *)
(* line hides nothing (handler.cpp:609, 940, 1226).                         *)
THEOREM NodesStay == Spec => []NodesAreInPlace
<1>1. Init => OperandInv
  BY StartsInPlace
<1>2. OperandInv /\ [Next]_vars => OperandInv'
  <2> SUFFICES ASSUME OperandInv, [Next]_vars
               PROVE  OperandInv'
    OBVIOUS
  <2>1. CASE Next
    BY <2>1, PushLiteralKeeps, GetVariableKeeps, SetVariableKeeps, OperatorKeeps, ArgListKeeps,
       MakeListKeeps, SwapKeeps, ChunkOpKeeps, GetFieldKeeps, PutKeeps, GetKeeps, SetKeeps,
       PropertyKeeps, LocalCallKeeps, ExtCallKeeps, ObjCallV4Keeps, ObjCallKeeps, UnknownKeeps
       DEF Next, Translate
  <2>2. CASE UNCHANGED vars
    BY <2>2 DEF vars, OperandInv, NodesAreInPlace, TypeOK, CommentsStandAlone
  <2>3. QED
    BY <2>1, <2>2
<1>3. OperandInv => NodesAreInPlace
  BY DEF OperandInv
<1>4. QED
  BY <1>1, <1>2, <1>3, PTL DEF Spec
=============================================================================

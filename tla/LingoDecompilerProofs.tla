------------------------ MODULE LingoDecompilerProofs ------------------------
(***************************************************************************)
(* Proofs about the reconstruction of control flow, for any bytecode.      *)
(***************************************************************************)
EXTENDS LingoDecompiler, NumberLemmas

(***************************************************************************)
(* The walks up the tree.  NearestFrom is a recursive function: it exists   *)
(* because parents are older than their children.                          *)
(***************************************************************************)

IsTree(tree) ==
  /\ Len(tree) \in Nat
  /\ \A n \in 1 .. Len(tree) : tree[n].parent \in Nat /\ tree[n].parent < n

(* One step of the walk, of a function that has the others.                 *)
WalkStep(tree, kinds, f, a) ==
  IF a = Null THEN Null
  ELSE IF tree[a].kind \in kinds THEN a ELSE f[tree[a].parent]

(* NearestFrom is what its definition says.                                 *)
LEMMA NearestMeans ==
  ASSUME NEW tree, IsTree(tree), NEW kinds
  PROVE  NearestFrom(tree, kinds)
           = [a \in 0 .. Len(tree) |-> WalkStep(tree, kinds, NearestFrom(tree, kinds), a)]
<1> DEFINE Good(n, f) == f = [a \in 0 .. n |-> WalkStep(tree, kinds, f, a)]
           Bad == {n \in 0 .. Len(tree) : ~\E f : Good(n, f)}
<1>1. Bad = {}
  <2>1. SUFFICES ASSUME Bad # {}
                 PROVE  FALSE
    OBVIOUS
  <2>2. PICK m \in Bad : \A k \in Bad : m <= k
    <3>1. Bad \subseteq Nat
      BY DEF IsTree
    <3>2. QED
      BY <2>1, <3>1, LeastExists
  <2>3. m \in 0 .. Len(tree) /\ ~\E f : Good(m, f)
    OBVIOUS
  <2>4. CASE m = 0
    <3>1. Good(0, [a \in 0 .. 0 |-> Null])
      BY DEF WalkStep, Null
    <3>2. QED
      BY <2>3, <2>4, <3>1
  <2>5. CASE m # 0
    <3>1. m - 1 \in 0 .. Len(tree) /\ m - 1 \notin Bad
      BY <2>2, <2>3, <2>5 DEF IsTree
    <3>2. PICK f : Good(m - 1, f)
      BY <3>1
    <3> DEFINE g == [a \in 0 .. m |-> WalkStep(tree, kinds, f, a)]
    <3>3. \A a \in 0 .. m - 1 : g[a] = f[a]
      <4>1. TAKE a \in 0 .. m - 1
      <4>2. f[a] = WalkStep(tree, kinds, f, a)
        BY <3>2
      <4>3. a \in 0 .. m
        BY <2>3 DEF IsTree
      <4>4. QED
        BY <4>2, <4>3
    <3>4. \A a \in 0 .. m : WalkStep(tree, kinds, f, a) = WalkStep(tree, kinds, g, a)
      <4>1. TAKE a \in 0 .. m
      <4>2. CASE a = 0
        BY <4>2 DEF WalkStep, Null
      <4>3. CASE a # 0
        <5>1. tree[a].parent \in 0 .. m - 1
          BY <2>3, <4>3 DEF IsTree
        <5>2. QED
          BY <3>3, <5>1 DEF WalkStep
      <4>4. QED
        BY <4>2, <4>3
    <3>5. Good(m, g)
      BY <3>4
    <3>6. QED
      BY <2>3, <3>5
  <2>6. QED
    BY <2>4, <2>5
<1>2. \E f : Good(Len(tree), f)
  BY <1>1 DEF IsTree
<1>3. Good(Len(tree), CHOOSE f : Good(Len(tree), f))
  BY <1>2
<1>4. NearestFrom(tree, kinds) = CHOOSE f : Good(Len(tree), f)
  BY DEF NearestFrom, WalkStep
<1>5. QED
  BY <1>3, <1>4

LEMMA NearestAt ==
  ASSUME NEW tree, IsTree(tree), NEW kinds, NEW a \in 0 .. Len(tree)
  PROVE  NearestFrom(tree, kinds)[a] = WalkStep(tree, kinds, NearestFrom(tree, kinds), a)
BY NearestMeans

(* The walk ends at a node of the kinds or at no node, and never goes down.  *)
LEMMA NearestFinds ==
  ASSUME NEW tree, IsTree(tree), NEW kinds, NEW a \in 0 .. Len(tree)
  PROVE  /\ NearestFrom(tree, kinds)[a] \in 0 .. a
         /\ NearestFrom(tree, kinds)[a] # Null => tree[NearestFrom(tree, kinds)[a]].kind \in kinds
<1> DEFINE f == NearestFrom(tree, kinds)
           Fits(n) == f[n] \in 0 .. n /\ (f[n] # Null => tree[f[n]].kind \in kinds)
           Bad == {n \in 0 .. Len(tree) : ~Fits(n)}
<1> HIDE DEF f
<1>0. \A n \in 0 .. Len(tree) : f[n] = WalkStep(tree, kinds, f, n)
  BY NearestAt DEF f
<1>1. SUFFICES ASSUME Bad # {}
               PROVE  FALSE
  BY DEF f
<1>2. PICK m \in Bad : \A k \in Bad : m <= k
  <2>1. Bad \subseteq Nat
    BY DEF IsTree
  <2>2. QED
    BY <1>1, <2>1, LeastExists
<1>3. m \in 0 .. Len(tree) /\ ~Fits(m)
  OBVIOUS
<1>4. m # 0
  BY <1>0, <1>3 DEF WalkStep, Null
<1>5. tree[m].kind \notin kinds
  BY <1>0, <1>3, <1>4 DEF WalkStep, Null
<1>6. f[m] = f[tree[m].parent]
  BY <1>0, <1>3, <1>4, <1>5 DEF WalkStep, Null
<1>7. tree[m].parent \in 0 .. Len(tree) /\ tree[m].parent < m /\ tree[m].parent \in Nat /\ m \in Nat
  BY <1>3, <1>4 DEF IsTree
<1>8. Fits(tree[m].parent)
  BY <1>2, <1>7
<1>9. QED
  BY <1>3, <1>6, <1>7, <1>8

(* A tree that grows keeps the walks of the nodes it had.                   *)
LEMMA NearestStays ==
  ASSUME NEW old, IsTree(old), NEW new, IsTree(new), NEW kinds,
         Len(old) <= Len(new),
         \A n \in 1 .. Len(old) : new[n].kind = old[n].kind /\ new[n].parent = old[n].parent,
         NEW a \in 0 .. Len(old)
  PROVE  NearestFrom(new, kinds)[a] = NearestFrom(old, kinds)[a]
<1> DEFINE f == NearestFrom(old, kinds)
           g == NearestFrom(new, kinds)
           Bad == {n \in 0 .. Len(old) : g[n] # f[n]}
<1> HIDE DEF f, g
<1>0. /\ \A n \in 0 .. Len(old) : f[n] = WalkStep(old, kinds, f, n)
      /\ \A n \in 0 .. Len(new) : g[n] = WalkStep(new, kinds, g, n)
  BY NearestAt DEF f, g
<1>1. SUFFICES ASSUME Bad # {}
               PROVE  FALSE
  BY DEF f, g
<1>2. PICK m \in Bad : \A k \in Bad : m <= k
  <2>1. Bad \subseteq Nat
    BY DEF IsTree
  <2>2. QED
    BY <1>1, <2>1, LeastExists
<1>3. m \in 0 .. Len(old) /\ m \in 0 .. Len(new) /\ g[m] # f[m]
  BY DEF IsTree
<1>4. m # 0
  BY <1>0, <1>3 DEF WalkStep, Null
<1>5. old[m].parent \in 0 .. Len(old) /\ old[m].parent < m /\ old[m].parent \in Nat /\ m \in Nat
  BY <1>3, <1>4 DEF IsTree
<1>6. g[old[m].parent] = f[old[m].parent]
  BY <1>2, <1>5
<1>7. new[m].kind = old[m].kind /\ new[m].parent = old[m].parent
  BY <1>3, <1>4 DEF IsTree
<1>8. QED
  BY <1>0, <1>3, <1>4, <1>6, <1>7 DEF WalkStep, Null
-----------------------------------------------------------------------------
(***************************************************************************)
(* The inductive invariant of the types and of the tree.                   *)
(***************************************************************************)

(* A loop is tagged as one that counts only where its counter is; so the    *)
(* operands that are read for it are there.                                 *)
TagInv ==
  \A k \in Index :
    /\ tag[k] = "in" => k + 5 \in Index
    /\ tag[k] \in {"to", "downto"} => IndexAt(LoopBackPos(IndexAt(JumpPos(k)) - 1)) - 1 \in Index

(* The links that are followed later lead to nodes.                         *)
LinksInv ==
  /\ \A n \in Node : nodes[n].block2 <= Len(nodes) /\ nodes[n].label <= Len(nodes)
  /\ \A f \in 1 .. Len(frames) : frames[f].prev <= Len(nodes)

TreeInv == code \in Codes /\ TypeOK /\ AstIsTree /\ TagInv /\ LinksInv

(* Of what the code says.                                                   *)
LEMMA CodeFacts ==
  ASSUME TypeOK
  PROVE  /\ Size \in Nat
         /\ \A k \in Index : At(k) \in Bytecode /\ JumpPos(k) \in Nat /\ LoopBackPos(k) \in Nat
         /\ \A p : IndexAt(p) \in Nat /\ (IndexAt(p) # 0 => IndexAt(p) \in Index)
<1>1. Size \in Nat
  BY DEF TypeOK, Size
<1>2. \A k \in Index : At(k) \in Bytecode
  BY DEF TypeOK, Size, Index, At
<1>3. \A k \in Index : JumpPos(k) \in Nat /\ LoopBackPos(k) \in Nat
  BY <1>2, PosModulusAssumption DEF JumpPos, LoopBackPos, Wrap, Bytecode
<1>4. \A p : IndexAt(p) \in Nat /\ (IndexAt(p) # 0 => IndexAt(p) \in Index)
  BY <1>1 DEF IndexAt, Index
<1>5. QED
  BY <1>1, <1>2, <1>3, <1>4

(* Of the operand stack.                                                    *)
LEMMA StackFacts ==
  ASSUME TypeOK
  PROVE  /\ \A k \in Nat : Operand(k + 1) \in Nat
         /\ \A n \in Nat : Below(n) \in Seq(Nat)
         /\ \A n \in Nat : Args(n) \in Seq(Nat)
<1>0. stack \in Seq(Nat)
  BY DEF TypeOK
<1>1. \A k \in Nat : Operand(k + 1) \in Nat
  BY <1>0 DEF Operand, Null
<1>2. \A n \in Nat : Below(n) \in Seq(Nat)
  BY <1>0 DEF Below
<1>3. ASSUME NEW n \in Nat
      PROVE  Args(n) \in Seq(Nat)
  <2>1. ASSUME NEW k \in 1 .. n
        PROVE  Operand(n + 1 - k) \in Nat
    <3>1. n - k \in Nat /\ n + 1 - k = (n - k) + 1
      OBVIOUS
    <3>2. QED
      BY <1>1, <3>1
  <2>2. QED
    BY <2>1 DEF Args
<1>4. QED
  BY <1>1, <1>2, <1>3

(* A call of translateBytecode is of an instruction of the handler.         *)
LEMMA CallFacts ==
  ASSUME TypeOK, phase = "parse"
  PROVE  /\ Ip \in Nat
         /\ Calls => Ip \in Index
         /\ frames # <<>> => Frame \in FrameRecord /\ Callers \in Seq(FrameRecord)
                             /\ \E f \in 1 .. Len(frames) : Frame = frames[f]
<1>1. frames # <<>> => Frame \in FrameRecord /\ Callers \in Seq(FrameRecord)
                       /\ \E f \in 1 .. Len(frames) : Frame = frames[f]
  BY DEF TypeOK, Frame, Callers
<1>2. Ip \in Nat
  BY <1>1 DEF TypeOK, Ip, FrameRecord
<1>3. Size \in Nat
  BY CodeFacts
<1>4. QED
  BY <1>1, <1>2, <1>3 DEF Calls, Index

(* What returning to the caller leaves.                                     *)
ReturnOK ==
  /\ code' = code /\ phase' = phase /\ owner' = owner
  /\ i' \in Nat /\ frames' \in Seq(FrameRecord)
  /\ \A f \in 1 .. Len(frames') : \E g \in 1 .. Len(frames) : frames'[f].prev = frames[g].prev

LEMMA ReturnFacts ==
  ASSUME TypeOK, NEW callers \in Seq(FrameRecord), NEW k, NEW size, k + size \in Nat,
         Return(callers, k, size),
         \A f \in 1 .. Len(callers) : \E g \in 1 .. Len(frames) : callers[f].prev = frames[g].prev
  PROVE  ReturnOK
<1>1. CASE callers = <<>>
  <2>1. i' = k + size /\ frames' = <<>> /\ code' = code /\ phase' = phase /\ owner' = owner
    BY <1>1 DEF Return
  <2>2. QED
    BY <2>1 DEF ReturnOK
<1>2. CASE callers # <<>>
  <2>1. /\ i' = i /\ frames' = [callers EXCEPT ![Len(callers)].curr = @ + 1]
        /\ code' = code /\ phase' = phase /\ owner' = owner
    BY <1>2 DEF Return
  <2>2. Len(callers) \in 1 .. Len(callers) /\ callers[Len(callers)] \in FrameRecord
    BY <1>2
  <2>3. PICK last : last = [callers[Len(callers)] EXCEPT !.curr = @ + 1]
    OBVIOUS
  <2>4. last \in FrameRecord /\ last.prev = callers[Len(callers)].prev
    <3>1. \A r \in FrameRecord : [r EXCEPT !.curr = @ + 1] \in FrameRecord
                                  /\ [r EXCEPT !.curr = @ + 1].prev = r.prev
      BY DEF FrameRecord
    <3>2. QED
      BY <2>2, <2>3, <3>1
  <2>5. frames' = [callers EXCEPT ![Len(callers)] = last]
    BY <2>1, <2>2, <2>3
  <2>6. Len(frames') = Len(callers) /\ frames' \in Seq(FrameRecord)
    BY <2>2, <2>4, <2>5
  <2>7. \A f \in 1 .. Len(callers) : frames'[f].prev = callers[f].prev
    BY <2>2, <2>4, <2>5
  <2>8. QED
    BY <2>1, <2>6, <2>7 DEF ReturnOK, TypeOK
<1>3. QED
  BY <1>1, <1>2

LEMMA ProceedFacts ==
  ASSUME TypeOK, phase = "parse", Proceed
  PROVE  ReturnOK
<1>1. Ip \in Nat /\ frames \in Seq(FrameRecord)
  BY CallFacts DEF TypeOK
<1>2. QED
  BY <1>1, ReturnFacts DEF Proceed

LEMMA CallersFacts ==
  ASSUME TypeOK, phase = "parse", frames # <<>>, NEW k, NEW size, k + size \in Nat,
         Return(Callers, k, size)
  PROVE  ReturnOK
<1>1. Callers \in Seq(FrameRecord)
  BY CallFacts
<1>2. \A f \in 1 .. Len(Callers) : Callers[f] = frames[f] /\ f \in 1 .. Len(frames)
  BY DEF Callers, TypeOK
<1>3. QED
  BY <1>1, <1>2, ReturnFacts
-----------------------------------------------------------------------------
(* The kinds of record a node may be.                                       *)
LEMMA BlankFacts ==
  Blank \in NodeRecord
<1>1. NoPos \in Int
  BY PosModulusAssumption DEF NoPos
<1>2. QED
  BY <1>1 DEF Blank, NodeRecord, NoOwner, Null, Kinds, Expects

LEMMA BlockFacts ==
  ASSUME NEW parent \in Nat, NEW endPos \in Int
  PROVE  /\ BlockOf(parent, endPos) \in NodeRecord
         /\ BlockOf(parent, endPos).kind = "block" /\ BlockOf(parent, endPos).parent = parent
         /\ BlockOf(parent, endPos).kids = <<>> /\ BlockOf(parent, endPos).label = Null
         /\ BlockOf(parent, endPos).block2 = Null /\ BlockOf(parent, endPos).endPos = endPos
<1>1. Blank.kind = "block" /\ Blank.kids = <<>> /\ Blank.label = Null /\ Blank.block2 = Null
  BY DEF Blank
<1>2. QED
  BY <1>1, BlankFacts DEF BlockOf, NodeRecord

LEMMA StmtFacts ==
  ASSUME TypeOK, NEW kind \in Kinds, NEW at \in Int, NEW args \in Seq(Nat)
  PROVE  /\ Stmt(kind, at, args) \in NodeRecord
         /\ Stmt(kind, at, args).kind = kind /\ Stmt(kind, at, args).parent = cur
         /\ Stmt(kind, at, args).kids = <<>> /\ Stmt(kind, at, args).label = Null
         /\ Stmt(kind, at, args).block2 = Null
<1>1. Blank.kids = <<>> /\ Blank.label = Null /\ Blank.block2 = Null
  BY DEF Blank
<1>2. cur \in Nat
  BY DEF TypeOK
<1>3. QED
  BY <1>1, <1>2, BlankFacts DEF Stmt, NodeRecord

(* A node joins the block that is filled, with others behind it.            *)
LEMMA AdoptIs ==
  ASSUME TypeOK, cur \in Node
  PROVE  /\ Adopt \in Seq(NodeRecord) /\ Len(Adopt) = Len(nodes)
         /\ \A n \in Node : Adopt[n] = IF n = cur THEN [nodes[n] EXCEPT !.kids = Append(@, New)] ELSE nodes[n]
<1>1. nodes \in Seq(NodeRecord) /\ Len(nodes) \in Nat /\ New \in Nat
  BY DEF TypeOK, New
<1>2. PICK kept : kept = [nodes[cur] EXCEPT !.kids = Append(@, New)]
  OBVIOUS
<1>3. nodes[cur] \in NodeRecord
  BY <1>1 DEF Node
<1>4. kept \in NodeRecord
  <2>1. nodes[cur].kids \in Seq(Nat)
    BY <1>3 DEF NodeRecord
  <2>2. Append(nodes[cur].kids, New) \in Seq(Nat)
    BY <1>1, <2>1
  <2>3. QED
    BY <1>2, <1>3, <2>2 DEF NodeRecord
<1>5. Adopt = [nodes EXCEPT ![cur] = kept]
  <2>1. \A s \in Seq(NodeRecord) : \A k \in 1 .. Len(s) :
          [s EXCEPT ![k].kids = Append(@, New)] = [s EXCEPT ![k] = [s[k] EXCEPT !.kids = Append(@, New)]]
    OBVIOUS
  <2>2. QED
    BY <1>1, <1>2, <2>1 DEF Adopt, Node
<1>6. Adopt \in Seq(NodeRecord) /\ Len(Adopt) = Len(nodes)
  BY <1>1, <1>4, <1>5 DEF Node
<1>7. \A n \in Node : Adopt[n] = IF n = cur THEN kept ELSE nodes[n]
  BY <1>1, <1>5 DEF Node
<1>8. \A n \in Node : Adopt[n] = IF n = cur THEN [nodes[n] EXCEPT !.kids = Append(@, New)] ELSE nodes[n]
  BY <1>2, <1>7
<1>9. QED
  BY <1>6, <1>8

LEMMA AdoptFacts ==
  ASSUME TypeOK, cur \in Node, NEW more \in Seq(NodeRecord)
  PROVE  /\ Adopt \in Seq(NodeRecord)
         /\ Adopt \o more \in Seq(NodeRecord)
         /\ Len(Adopt \o more) = Len(nodes) + Len(more)
         /\ \A n \in Node : (Adopt \o more)[n] = IF n = cur THEN [nodes[n] EXCEPT !.kids = Append(@, New)] ELSE nodes[n]
         /\ \A k \in 1 .. Len(more) : (Adopt \o more)[Len(nodes) + k] = more[k]
<1>1. /\ Adopt \in Seq(NodeRecord) /\ Len(Adopt) = Len(nodes)
      /\ \A n \in Node : Adopt[n] = IF n = cur THEN [nodes[n] EXCEPT !.kids = Append(@, New)] ELSE nodes[n]
  BY AdoptIs
<1>2. PICK adopt : adopt = Adopt
  OBVIOUS
<1>3. /\ adopt \o more \in Seq(NodeRecord) /\ Len(adopt \o more) = Len(nodes) + Len(more)
      /\ \A n \in Node : (adopt \o more)[n] = adopt[n]
      /\ \A k \in 1 .. Len(more) : (adopt \o more)[Len(nodes) + k] = more[k]
  BY <1>1, <1>2 DEF Node
<1>4. QED
  BY <1>1, <1>2, <1>3, Zenon
-----------------------------------------------------------------------------
(* What every step does to the tree: a node keeps its kind, its parent and   *)
(* its blocks; a block may adopt the first of the new nodes; the new nodes   *)
(* hang on older ones.                                                     *)
Keeps(n) ==
  /\ nodes'[n].kind = nodes[n].kind /\ nodes'[n].parent = nodes[n].parent
  /\ nodes'[n].block1 = nodes[n].block1 /\ nodes'[n].block2 = nodes[n].block2
  /\ nodes'[n].expect = nodes[n].expect
Adopts(n) ==
  /\ nodes'[n].kids = Append(nodes[n].kids, New)
  /\ New <= Len(nodes') /\ nodes'[New].parent = n
TreeGrows ==
  /\ nodes' \in Seq(NodeRecord) /\ Len(nodes) <= Len(nodes')
  /\ \A n \in Node :
       /\ Keeps(n)
       /\ nodes'[n].kids = nodes[n].kids \/ Adopts(n)
       /\ nodes'[n].label <= Len(nodes')
  /\ \A n \in New .. Len(nodes') :
       /\ nodes'[n].parent < n /\ nodes'[n].kids = <<>>
       /\ nodes'[n].block2 <= Len(nodes') /\ nodes'[n].label = Null

LEMMA TreeStep ==
  ASSUME TypeOK, AstIsTree, LinksInv, TreeGrows
  PROVE  /\ ParentsAreOlder' /\ ChildrenKnowTheirBlock'
         /\ \A n \in 1 .. Len(nodes') : nodes'[n].block2 <= Len(nodes') /\ nodes'[n].label <= Len(nodes')
<1>0. /\ Len(nodes) \in Nat /\ Len(nodes') \in Nat /\ New = Len(nodes) + 1 /\ Len(nodes) <= Len(nodes')
      /\ \A n \in 1 .. Len(nodes') : n \in Node \/ n \in New .. Len(nodes')
      /\ Node \subseteq 1 .. Len(nodes') /\ Node' = 1 .. Len(nodes')
      /\ \A n \in 1 .. Len(nodes') : nodes'[n] \in NodeRecord
      /\ \A n \in Node : nodes[n] \in NodeRecord
  BY DEF TypeOK, TreeGrows, New, Node
<1>1. ASSUME NEW n \in 1 .. Len(nodes')
      PROVE  nodes'[n].parent < n
  <2>1. CASE n \in Node
    BY <2>1 DEF TreeGrows, Keeps, AstIsTree, ParentsAreOlder
  <2>2. CASE n \in New .. Len(nodes')
    BY <2>2 DEF TreeGrows
  <2>3. QED
    BY <1>0, <2>1, <2>2
<1>2. ASSUME NEW b \in 1 .. Len(nodes'), NEW k \in 1 .. Len(nodes'[b].kids)
      PROVE  nodes'[b].kids[k] \in 1 .. Len(nodes') /\ nodes'[nodes'[b].kids[k]].parent = b
  <2>1. CASE b \in Node /\ nodes'[b].kids = nodes[b].kids
    <3>1. nodes[b].kids[k] \in Node /\ nodes[nodes[b].kids[k]].parent = b
      BY <2>1 DEF AstIsTree, ChildrenKnowTheirBlock
    <3>2. QED
      BY <1>0, <2>1, <3>1 DEF TreeGrows, Keeps
  <2>2. CASE b \in Node /\ Adopts(b)
    <3>1. nodes[b].kids \in Seq(Nat) /\ Len(nodes[b].kids) \in Nat
      <4>1. nodes[b] \in NodeRecord
        BY <1>0, <2>2
      <4>2. nodes[b].kids \in Seq(Nat)
        BY <4>1 DEF NodeRecord
      <4>3. QED
        BY <4>2
    <3>2. CASE k \in 1 .. Len(nodes[b].kids)
      <4>1. nodes'[b].kids[k] = nodes[b].kids[k]
        BY <2>2, <3>1, <3>2 DEF Adopts
      <4>2. nodes[b].kids[k] \in Node /\ nodes[nodes[b].kids[k]].parent = b
        BY <2>2, <3>2 DEF AstIsTree, ChildrenKnowTheirBlock
      <4>3. QED
        BY <1>0, <4>1, <4>2 DEF TreeGrows, Keeps
    <3>3. CASE k = Len(nodes[b].kids) + 1
      <4>1. nodes'[b].kids[k] = New
        BY <2>2, <3>1, <3>3 DEF Adopts
      <4>2. New \in 1 .. Len(nodes')
        BY <1>0, <2>2 DEF Adopts
      <4>3. nodes'[New].parent = b
        BY <2>2 DEF Adopts
      <4>4. QED
        BY <4>1, <4>2, <4>3
    <3>4. Len(nodes'[b].kids) = Len(nodes[b].kids) + 1
      BY <2>2, <3>1 DEF Adopts
    <3>5. QED
      BY <3>1, <3>2, <3>3, <3>4
  <2>3. CASE b \in New .. Len(nodes')
    <3>1. nodes'[b].kids = <<>>
      BY <2>3 DEF TreeGrows
    <3>2. QED
      BY <3>1
  <2>4. QED
    BY <1>0, <2>1, <2>2, <2>3 DEF TreeGrows
<1>3. ASSUME NEW n \in 1 .. Len(nodes')
      PROVE  nodes'[n].block2 <= Len(nodes') /\ nodes'[n].label <= Len(nodes')
  <2>1. CASE n \in Node
    <3>1. nodes[n].block2 <= Len(nodes) /\ nodes[n].block2 \in Nat
      BY <1>0, <2>1 DEF LinksInv, NodeRecord
    <3>2. QED
      BY <1>0, <2>1, <3>1 DEF TreeGrows, Keeps
  <2>2. CASE n \in New .. Len(nodes')
    BY <1>0, <2>2 DEF TreeGrows, Null
  <2>3. QED
    BY <1>0, <2>1, <2>2
<1>4. QED
  BY <1>0, <1>1, <1>2, <1>3 DEF ParentsAreOlder, ChildrenKnowTheirBlock

(* A step that leaves the tree alone.                                       *)
LEMMA SameTree ==
  ASSUME TypeOK, LinksInv, nodes' = nodes
  PROVE  TreeGrows
BY DEF TypeOK, LinksInv, TreeGrows, Keeps, Node, New

(* The tags that say where a counter is are those of tagLoops.              *)
KeepsTags ==
  /\ tag' \in [Index -> Tags]
  /\ \A k \in Index : tag'[k] \in {"in", "to", "downto"} => tag'[k] = tag[k]

LEMMA TagsStay ==
  ASSUME TagInv, KeepsTags, code' = code
  PROVE  TagInv'
<1>0. Index' = Index /\ Size' = Size
  BY DEF Index, Size
<1>1. ASSUME NEW k \in Index
      PROVE  IndexAt(LoopBackPos(IndexAt(JumpPos(k)) - 1))' = IndexAt(LoopBackPos(IndexAt(JumpPos(k)) - 1))
  BY <1>0 DEF JumpPos, LoopBackPos, IndexAt, At
<1>2. ASSUME NEW k \in Index
      PROVE  /\ tag'[k] = "in" => k + 5 \in Index
             /\ tag'[k] \in {"to", "downto"} => IndexAt(LoopBackPos(IndexAt(JumpPos(k)) - 1)) - 1 \in Index
  BY DEF TagInv, KeepsTags
<1>3. QED
  BY <1>0, <1>1, <1>2 DEF TagInv

(* What a call of translateBytecode leaves is what it has to find.          *)
LEMMA TranslateStep ==
  ASSUME TreeInv, phase = "parse", ReturnOK, KeepsTags, stack' \in Seq(Nat), TreeGrows,
         cur' \in Nat, cur' <= Len(nodes')
  PROVE  TreeInv'
<1>0. TypeOK /\ AstIsTree /\ LinksInv /\ TagInv /\ code \in Codes /\ code' = code
  BY DEF TreeInv, ReturnOK
<1>1. Index' = Index /\ Size' = Size
  BY <1>0 DEF Index, Size
<1>2. TypeOK'
  <2>1. /\ code' \in Seq(Bytecode) /\ phase' \in {"tag", "parse", "done", "crashed"}
        /\ owner' \in [Index' -> Int] /\ i' \in Nat /\ frames' \in Seq(FrameRecord)
    BY <1>0, <1>1 DEF TypeOK, ReturnOK
  <2>2. tag' \in [Index' -> Tags] /\ nodes' \in Seq(NodeRecord)
    BY <1>1 DEF KeepsTags, TreeGrows
  <2>3. QED
    BY <2>1, <2>2 DEF TypeOK
<1>3. ParentsAreOlder' /\ ChildrenKnowTheirBlock'
      /\ \A n \in 1 .. Len(nodes') : nodes'[n].block2 <= Len(nodes') /\ nodes'[n].label <= Len(nodes')
  BY <1>0, TreeStep
<1>4. LinksInv'
  <2>1. ASSUME NEW f \in 1 .. Len(frames')
        PROVE  frames'[f].prev <= Len(nodes')
    <3>1. PICK g \in 1 .. Len(frames) : frames'[f].prev = frames[g].prev
      BY DEF ReturnOK
    <3>2. frames[g].prev \in Nat /\ frames[g].prev <= Len(nodes)
      <4>1. frames[g] \in FrameRecord
        BY <1>0 DEF TypeOK
      <4>2. QED
        BY <1>0, <4>1 DEF LinksInv, FrameRecord
    <3>3. Len(nodes) <= Len(nodes') /\ Len(nodes) \in Nat /\ Len(nodes') \in Nat
      BY <1>0 DEF TreeGrows, TypeOK
    <3>4. QED
      BY <3>1, <3>2, <3>3
  <2>2. QED
    BY <1>3, <2>1 DEF LinksInv, Node
<1>5. TagInv'
  BY <1>0, TagsStay
<1>6. QED
  BY <1>0, <1>2, <1>3, <1>4, <1>5 DEF TreeInv, AstIsTree
-----------------------------------------------------------------------------
(* Steps of the tree that move no label.                                    *)
KeepsLabels == \A n \in Node : nodes'[n].label = nodes[n].label
KeepsEnds == \A n \in Node : nodes'[n].endPos = nodes[n].endPos

LEMMA CurIsNode ==
  ASSUME TypeOK, AstIsTree, cur # Null
  PROVE  cur \in Node
BY DEF TypeOK, AstIsTree, Node, Null

(* More nodes, the first of which joins the block that is filled.           *)
LEMMA AdoptGrows ==
  ASSUME TypeOK, AstIsTree, LinksInv, cur \in Node,
         NEW more \in Seq(NodeRecord), Len(more) >= 1, more[1].parent = cur,
         \A k \in 1 .. Len(more) :
           /\ more[k].parent < Len(nodes) + k /\ more[k].kids = <<>>
           /\ more[k].block2 <= Len(nodes) + Len(more) /\ more[k].label = Null,
         nodes' = Adopt \o more
  PROVE  /\ TreeGrows /\ KeepsLabels /\ KeepsEnds
         /\ Len(nodes') = Len(nodes) + Len(more)
         /\ \A k \in 1 .. Len(more) : nodes'[Len(nodes) + k] = more[k]
<1>0. Len(nodes) \in Nat /\ Len(more) \in Nat /\ New = Len(nodes) + 1
  BY DEF TypeOK, New
<1>1. /\ nodes' \in Seq(NodeRecord) /\ Len(nodes') = Len(nodes) + Len(more)
      /\ \A n \in Node : nodes'[n] = IF n = cur THEN [nodes[n] EXCEPT !.kids = Append(@, New)] ELSE nodes[n]
      /\ \A k \in 1 .. Len(more) : nodes'[Len(nodes) + k] = more[k]
  BY AdoptFacts
<1>2. \A n \in New .. Len(nodes') : \E k \in 1 .. Len(more) : n = Len(nodes) + k
  <2>1. ASSUME NEW n \in New .. Len(nodes')
        PROVE  n - Len(nodes) \in 1 .. Len(more) /\ n = Len(nodes) + (n - Len(nodes))
    BY <1>0, <1>1
  <2>2. QED
    BY <2>1
<1>3. ASSUME NEW n \in Node
      PROVE  /\ Keeps(n) /\ nodes'[n].label = nodes[n].label /\ nodes'[n].endPos = nodes[n].endPos
             /\ nodes'[n].kids = nodes[n].kids \/ Adopts(n)
  <2>0. nodes[n] \in NodeRecord
    BY DEF TypeOK, Node
  <2>1. CASE n # cur
    BY <1>1, <2>1 DEF Keeps
  <2>2. CASE n = cur
    <3>1. nodes'[n] = [nodes[n] EXCEPT !.kids = Append(@, New)]
      BY <1>1, <2>2
    <3>2. /\ nodes'[n].kind = nodes[n].kind /\ nodes'[n].parent = nodes[n].parent
          /\ nodes'[n].block1 = nodes[n].block1 /\ nodes'[n].block2 = nodes[n].block2
          /\ nodes'[n].expect = nodes[n].expect /\ nodes'[n].label = nodes[n].label
          /\ nodes'[n].endPos = nodes[n].endPos /\ nodes'[n].kids = Append(nodes[n].kids, New)
      BY <2>0, <3>1 DEF NodeRecord
    <3>3. New <= Len(nodes') /\ nodes'[New] = more[1]
      BY <1>0, <1>1
    <3>4. QED
      BY <2>2, <3>2, <3>3 DEF Keeps, Adopts
  <2>3. QED
    BY <2>1, <2>2
<1>4. ASSUME NEW n \in Node
      PROVE  nodes'[n].label <= Len(nodes')
  <2>1. nodes[n] \in NodeRecord /\ nodes[n].label <= Len(nodes)
    BY DEF TypeOK, Node, LinksInv
  <2>2. nodes[n].label \in Nat
    BY <2>1 DEF NodeRecord
  <2>3. Len(nodes) <= Len(nodes') /\ Len(nodes) \in Nat /\ Len(nodes') \in Nat
    BY <1>0, <1>1
  <2>4. nodes'[n].label = nodes[n].label
    BY <1>3
  <2>5. QED
    BY <2>1, <2>2, <2>3, <2>4
<1>5. ASSUME NEW n \in New .. Len(nodes')
      PROVE  /\ nodes'[n].parent < n /\ nodes'[n].kids = <<>>
             /\ nodes'[n].block2 <= Len(nodes') /\ nodes'[n].label = Null
  <2>1. PICK k \in 1 .. Len(more) : n = Len(nodes) + k
    BY <1>2
  <2>2. nodes'[n] = more[k]
    BY <1>1, <2>1
  <2>3. QED
    BY <1>1, <2>1, <2>2
<1>6. Len(nodes) <= Len(nodes')
  BY <1>0, <1>1
<1>7. QED
  BY <1>1, <1>3, <1>4, <1>5, <1>6 DEF TreeGrows, KeepsLabels, KeepsEnds

(* A statement without a block.                                             *)
LEMMA StatementGrows ==
  ASSUME TypeOK, AstIsTree, LinksInv, cur \in Node,
         NEW kind \in Kinds, NEW at \in Int, NEW args \in Seq(Nat),
         nodes' = Append(Adopt, Stmt(kind, at, args))
  PROVE  /\ TreeGrows /\ KeepsLabels /\ KeepsEnds
         /\ Len(nodes') = Len(nodes) + 1 /\ nodes'[New].kind = kind
<1>1. PICK stmt : stmt = Stmt(kind, at, args)
  OBVIOUS
<1>2. /\ stmt \in NodeRecord /\ stmt.kind = kind /\ stmt.parent = cur
      /\ stmt.kids = <<>> /\ stmt.label = Null /\ stmt.block2 = Null
  BY <1>1, StmtFacts
<1>3. PICK more : more = <<stmt>>
  OBVIOUS
<1>4. more \in Seq(NodeRecord) /\ Len(more) = 1 /\ more[1] = stmt /\ \A k \in 1 .. Len(more) : k = 1
  BY <1>2, <1>3
<1>5. Adopt \in Seq(NodeRecord)
  BY <1>4, AdoptFacts
<1>6. nodes' = Adopt \o more
  BY <1>1, <1>2, <1>3, <1>5
<1>7. \A k \in 1 .. Len(more) :
        /\ more[k].parent < Len(nodes) + k /\ more[k].kids = <<>>
        /\ more[k].block2 <= Len(nodes) + Len(more) /\ more[k].label = Null
  <2>1. cur < Len(nodes) + 1 /\ Len(nodes) \in Nat
    BY DEF Node, TypeOK
  <2>2. QED
    BY <1>2, <1>4, <2>1 DEF Null
<1>8. /\ TreeGrows /\ KeepsLabels /\ KeepsEnds /\ Len(nodes') = Len(nodes) + 1
      /\ nodes'[Len(nodes) + 1] = stmt
  <2>1. Len(more) >= 1 /\ more[1].parent = cur /\ 1 \in 1 .. Len(more)
    BY <1>2, <1>4
  <2>2. /\ TreeGrows /\ KeepsLabels /\ KeepsEnds /\ Len(nodes') = Len(nodes) + Len(more)
        /\ \A k \in 1 .. Len(more) : nodes'[Len(nodes) + k] = more[k]
    BY <1>4, <1>6, <1>7, <2>1, AdoptGrows
  <2>3. QED
    BY <1>4, <2>1, <2>2
<1>9. QED
  BY <1>2, <1>8 DEF New

(* An expression joins no block.                                            *)
LEMMA ExprGrows ==
  ASSUME TypeOK, AstIsTree, LinksInv, NEW expr \in NodeRecord,
         expr.parent = Null, expr.kids = <<>>, expr.block2 = Null, expr.label = Null,
         nodes' = Append(nodes, expr)
  PROVE  /\ TreeGrows /\ KeepsLabels /\ KeepsEnds
         /\ Len(nodes') = Len(nodes) + 1 /\ nodes'[New] = expr
<1>0. nodes \in Seq(NodeRecord) /\ Len(nodes) \in Nat /\ New = Len(nodes) + 1
  BY DEF TypeOK, New
<1>1. /\ nodes' \in Seq(NodeRecord) /\ Len(nodes') = Len(nodes) + 1 /\ nodes'[New] = expr
      /\ \A n \in Node : nodes'[n] = nodes[n]
  BY <1>0 DEF Node
<1>2. ASSUME NEW n \in Node
      PROVE  nodes'[n].label <= Len(nodes')
  <2>1. nodes[n] \in NodeRecord /\ nodes[n].label <= Len(nodes)
    BY DEF TypeOK, Node, LinksInv
  <2>2. nodes[n].label \in Nat
    BY <2>1 DEF NodeRecord
  <2>3. Len(nodes) <= Len(nodes') /\ Len(nodes) \in Nat /\ Len(nodes') \in Nat
    BY <1>0, <1>1
  <2>4. nodes'[n].label = nodes[n].label
    BY <1>1
  <2>5. QED
    BY <2>1, <2>2, <2>3, <2>4
<1>3. \A n \in New .. Len(nodes') : n = New
  BY <1>0, <1>1
<1>4. KeepsLabels /\ KeepsEnds /\ \A n \in Node : Keeps(n) /\ nodes'[n].kids = nodes[n].kids
  BY <1>1 DEF KeepsLabels, KeepsEnds, Keeps
<1>5. \A n \in New .. Len(nodes') :
        /\ nodes'[n].parent < n /\ nodes'[n].kids = <<>>
        /\ nodes'[n].block2 <= Len(nodes') /\ nodes'[n].label = Null
  BY <1>0, <1>1, <1>3 DEF Null
<1>6. Len(nodes) <= Len(nodes')
  BY <1>0, <1>1
<1>7. QED
  BY <1>1, <1>2, <1>4, <1>5, <1>6 DEF TreeGrows
-----------------------------------------------------------------------------
(* A statement with its block, which is entered.                            *)
LEMMA OpenGrows ==
  ASSUME TypeOK, AstIsTree, LinksInv, cur \in Node,
         NEW stmt \in NodeRecord, stmt.parent = cur, stmt.kids = <<>>, stmt.block2 = Null, stmt.label = Null,
         NEW endPos \in Int,
         nodes' = Adopt \o <<[stmt EXCEPT !.block1 = New + 1], BlockOf(New, endPos)>>
  PROVE  /\ TreeGrows /\ KeepsLabels /\ KeepsEnds
         /\ Len(nodes') = Len(nodes) + 2
         /\ nodes'[New].kind = stmt.kind /\ nodes'[New].parent = cur
         /\ nodes'[New + 1].kind = "block" /\ nodes'[New + 1].parent = New
<1>0. Len(nodes) \in Nat /\ New = Len(nodes) + 1
  BY DEF TypeOK, New
<1>1. PICK s, b : s = [stmt EXCEPT !.block1 = New + 1] /\ b = BlockOf(New, endPos)
  OBVIOUS
<1>2. /\ s \in NodeRecord /\ s.kind = stmt.kind /\ s.parent = cur
      /\ s.kids = <<>> /\ s.label = Null /\ s.block2 = Null
  <2>1. New + 1 \in Nat
    BY <1>0
  <2>2. QED
    BY <1>1, <2>1 DEF NodeRecord
<1>3. /\ b \in NodeRecord /\ b.kind = "block" /\ b.parent = New
      /\ b.kids = <<>> /\ b.label = Null /\ b.block2 = Null
  <2>1. New \in Nat /\ b = BlockOf(New, endPos)
    BY <1>0, <1>1
  <2>2. QED
    BY <2>1, BlockFacts
<1>4. PICK more : more = <<s, b>>
  OBVIOUS
<1>5. /\ more \in Seq(NodeRecord) /\ Len(more) = 2 /\ more[1] = s /\ more[2] = b
      /\ \A k \in 1 .. Len(more) : k = 1 \/ k = 2
  BY <1>2, <1>3, <1>4
<1>6. \A k \in 1 .. Len(more) :
        /\ more[k].parent < Len(nodes) + k /\ more[k].kids = <<>>
        /\ more[k].block2 <= Len(nodes) + Len(more) /\ more[k].label = Null
  <2>1. cur < Len(nodes) + 1
    BY <1>0 DEF Node
  <2>2. QED
    BY <1>0, <1>2, <1>3, <1>5, <2>1 DEF Null
<1>7. /\ TreeGrows /\ KeepsLabels /\ KeepsEnds /\ Len(nodes') = Len(nodes) + Len(more)
      /\ \A k \in 1 .. Len(more) : nodes'[Len(nodes) + k] = more[k]
  <2>1. nodes' = Adopt \o more
    <3>1. nodes' = Adopt \o <<s, b>>
      BY <1>1
    <3>2. QED
      BY <3>1, <1>4
  <2>2. Len(more) >= 1 /\ more[1].parent = cur
    BY <1>2, <1>5
  <2>3. QED
    BY <1>5, <1>6, <2>1, <2>2, AdoptGrows
<1>8. nodes'[New] = s /\ nodes'[New + 1] = b
  <2>1. 1 \in 1 .. Len(more) /\ 2 \in 1 .. Len(more) /\ New + 1 = Len(nodes) + 2
    BY <1>0, <1>5
  <2>2. QED
    BY <1>0, <1>5, <1>7, <2>1
<1>9. QED
  BY <1>2, <1>3, <1>5, <1>7, <1>8

(* An if with both its blocks, the first of which is entered.               *)
LEMMA IfGrows ==
  ASSUME TypeOK, AstIsTree, LinksInv, cur \in Node,
         NEW at \in Int, NEW args \in Seq(Nat), NEW endPos \in Int,
         nodes' = Adopt \o <<[Stmt("if", at, args) EXCEPT !.block1 = New + 1, !.block2 = New + 2],
                             BlockOf(New, endPos), BlockOf(New, NoPos)>>
  PROVE  /\ TreeGrows /\ KeepsLabels /\ KeepsEnds
         /\ Len(nodes') = Len(nodes) + 3
         /\ nodes'[New].kind = "if" /\ nodes'[New].parent = cur
         /\ nodes'[New].block1 = New + 1 /\ nodes'[New].block2 = New + 2
         /\ nodes'[New + 1].kind = "block" /\ nodes'[New + 1].parent = New
         /\ nodes'[New + 2].kind = "block" /\ nodes'[New + 2].parent = New
<1>0. Len(nodes) \in Nat /\ New = Len(nodes) + 1
  BY DEF TypeOK, New
<1>1. PICK s, a, b : /\ s = [Stmt("if", at, args) EXCEPT !.block1 = New + 1, !.block2 = New + 2]
                     /\ a = BlockOf(New, endPos) /\ b = BlockOf(New, NoPos)
  OBVIOUS
<1>2. /\ s \in NodeRecord /\ s.kind = "if" /\ s.parent = cur
      /\ s.kids = <<>> /\ s.label = Null /\ s.block1 = New + 1 /\ s.block2 = New + 2
  <2>1. New + 1 \in Nat /\ New + 2 \in Nat /\ "if" \in Kinds
    BY <1>0 DEF Kinds, StatementKinds
  <2>2. PICK r : r = Stmt("if", at, args)
    OBVIOUS
  <2>3. r \in NodeRecord /\ r.kind = "if" /\ r.parent = cur /\ r.kids = <<>> /\ r.label = Null
    BY <2>1, <2>2, StmtFacts
  <2>4. s = [r EXCEPT !.block1 = New + 1, !.block2 = New + 2]
    BY <1>1, <2>2
  <2>5. QED
    BY <2>1, <2>3, <2>4 DEF NodeRecord
<1>3. /\ a \in NodeRecord /\ a.kind = "block" /\ a.parent = New
      /\ a.kids = <<>> /\ a.label = Null /\ a.block2 = Null
      /\ b \in NodeRecord /\ b.kind = "block" /\ b.parent = New
      /\ b.kids = <<>> /\ b.label = Null /\ b.block2 = Null
  <2>1. NoPos \in Int /\ New \in Nat
    BY <1>0, PosModulusAssumption DEF NoPos
  <2>2. QED
    BY <1>1, <2>1, BlockFacts
<1>4. PICK more : more = <<s, a, b>>
  OBVIOUS
<1>5. /\ more \in Seq(NodeRecord) /\ Len(more) = 3 /\ more[1] = s /\ more[2] = a /\ more[3] = b
      /\ \A k \in 1 .. Len(more) : k = 1 \/ k = 2 \/ k = 3
  BY <1>2, <1>3, <1>4
<1>6. \A k \in 1 .. Len(more) :
        /\ more[k].parent < Len(nodes) + k /\ more[k].kids = <<>>
        /\ more[k].block2 <= Len(nodes) + Len(more) /\ more[k].label = Null
  <2>1. cur < Len(nodes) + 1
    BY <1>0 DEF Node
  <2>2. QED
    BY <1>0, <1>2, <1>3, <1>5, <2>1 DEF Null
<1>7. /\ TreeGrows /\ KeepsLabels /\ KeepsEnds /\ Len(nodes') = Len(nodes) + Len(more)
      /\ \A k \in 1 .. Len(more) : nodes'[Len(nodes) + k] = more[k]
  <2>1. nodes' = Adopt \o more
    <3>1. nodes' = Adopt \o <<s, a, b>>
      BY <1>1
    <3>2. QED
      BY <3>1, <1>4
  <2>2. Len(more) >= 1 /\ more[1].parent = cur
    BY <1>2, <1>5
  <2>3. QED
    BY <1>5, <1>6, <2>1, <2>2, AdoptGrows
<1>8. nodes'[New] = s /\ nodes'[New + 1] = a /\ nodes'[New + 2] = b
  <2>1. /\ 1 \in 1 .. Len(more) /\ 2 \in 1 .. Len(more) /\ 3 \in 1 .. Len(more)
        /\ New + 1 = Len(nodes) + 2 /\ New + 2 = Len(nodes) + 3
    BY <1>0, <1>5
  <2>2. QED
    BY <1>0, <1>5, <1>7, <2>1
<1>9. QED
  BY <1>2, <1>3, <1>5, <1>7, <1>8

(* A case that starts with its otherwise, whose block is entered.           *)
LEMMA CaseGrows ==
  ASSUME TypeOK, AstIsTree, LinksInv, cur \in Node,
         NEW at \in Int, NEW args \in Seq(Nat), NEW endPos \in Int,
         nodes' = Adopt \o <<[Stmt("case", at, args) EXCEPT !.otherwise = New + 1, !.endPos = endPos],
                             [Blank EXCEPT !.kind = "otherwise", !.parent = New, !.block1 = New + 2],
                             BlockOf(New + 1, endPos)>>
  PROVE  /\ TreeGrows /\ KeepsLabels /\ KeepsEnds
         /\ Len(nodes') = Len(nodes) + 3
         /\ nodes'[New].kind = "case" /\ nodes'[New].parent = cur
         /\ nodes'[New + 1].kind = "otherwise" /\ nodes'[New + 1].parent = New
         /\ nodes'[New + 2].kind = "block" /\ nodes'[New + 2].parent = New + 1
<1>0. Len(nodes) \in Nat /\ New = Len(nodes) + 1
  BY DEF TypeOK, New
<1>1. PICK s, a, b : /\ s = [Stmt("case", at, args) EXCEPT !.otherwise = New + 1, !.endPos = endPos]
                     /\ a = [Blank EXCEPT !.kind = "otherwise", !.parent = New, !.block1 = New + 2]
                     /\ b = BlockOf(New + 1, endPos)
  OBVIOUS
<1>2. /\ s \in NodeRecord /\ s.kind = "case" /\ s.parent = cur
      /\ s.kids = <<>> /\ s.label = Null /\ s.block2 = Null
  <2>1. New + 1 \in Nat /\ "case" \in Kinds
    BY <1>0 DEF Kinds, StatementKinds
  <2>2. PICK r, kind : r = Stmt(kind, at, args) /\ kind = "case"
    OBVIOUS
  <2>3. r \in NodeRecord /\ r.kind = kind /\ r.parent = cur /\ r.kids = <<>> /\ r.label = Null /\ r.block2 = Null
    BY <2>1, <2>2, StmtFacts
  <2>4. s = [r EXCEPT !.otherwise = New + 1, !.endPos = endPos]
    BY <1>1, <2>2
  <2>5. r.kind = "case"
    BY <2>2, <2>3
  <2>6. QED
    BY <2>1, <2>3, <2>4, <2>5 DEF NodeRecord
<1>3. /\ a \in NodeRecord /\ a.kind = "otherwise" /\ a.parent = New
      /\ a.kids = <<>> /\ a.label = Null /\ a.block2 = Null
  <2>1. New \in Nat /\ New + 2 \in Nat /\ "otherwise" \in Kinds
    BY <1>0 DEF Kinds
  <2>2. Blank.kids = <<>> /\ Blank.label = Null /\ Blank.block2 = Null
    BY DEF Blank
  <2>3. QED
    BY <1>1, <2>1, <2>2, BlankFacts DEF NodeRecord
<1>4. /\ b \in NodeRecord /\ b.kind = "block" /\ b.parent = New + 1
      /\ b.kids = <<>> /\ b.label = Null /\ b.block2 = Null
  <2>1. New + 1 \in Nat
    BY <1>0
  <2>2. QED
    BY <1>1, <2>1, BlockFacts
<1>5. PICK more : more = <<s, a, b>>
  OBVIOUS
<1>6. /\ more \in Seq(NodeRecord) /\ Len(more) = 3 /\ more[1] = s /\ more[2] = a /\ more[3] = b
      /\ \A k \in 1 .. Len(more) : k = 1 \/ k = 2 \/ k = 3
  BY <1>2, <1>3, <1>4, <1>5
<1>7. \A k \in 1 .. Len(more) :
        /\ more[k].parent < Len(nodes) + k /\ more[k].kids = <<>>
        /\ more[k].block2 <= Len(nodes) + Len(more) /\ more[k].label = Null
  <2>1. cur < Len(nodes) + 1
    BY <1>0 DEF Node
  <2>2. QED
    BY <1>0, <1>2, <1>3, <1>4, <1>6, <2>1 DEF Null
<1>8. /\ TreeGrows /\ KeepsLabels /\ KeepsEnds /\ Len(nodes') = Len(nodes) + Len(more)
      /\ \A k \in 1 .. Len(more) : nodes'[Len(nodes) + k] = more[k]
  <2>1. nodes' = Adopt \o more
    <3>1. nodes' = Adopt \o <<s, a, b>>
      BY <1>1
    <3>2. QED
      BY <3>1, <1>5
  <2>2. Len(more) >= 1 /\ more[1].parent = cur
    BY <1>2, <1>6
  <2>3. QED
    BY <1>6, <1>7, <2>1, <2>2, AdoptGrows
<1>9. nodes'[New] = s /\ nodes'[New + 1] = a /\ nodes'[New + 2] = b
  <2>1. /\ 1 \in 1 .. Len(more) /\ 2 \in 1 .. Len(more) /\ 3 \in 1 .. Len(more)
        /\ New + 1 = Len(nodes) + 2 /\ New + 2 = Len(nodes) + 3
    BY <1>0, <1>6
  <2>2. QED
    BY <1>0, <1>6, <1>8, <2>1
<1>10. QED
  BY <1>2, <1>3, <1>4, <1>6, <1>8, <1>9
-----------------------------------------------------------------------------
(* Other fields of the nodes set, and more nodes.                           *)
Like(base) ==
  /\ base \in Seq(NodeRecord) /\ Len(base) = Len(nodes)
  /\ \A n \in Node :
       /\ base[n].kind = nodes[n].kind /\ base[n].parent = nodes[n].parent
       /\ base[n].block1 = nodes[n].block1 /\ base[n].block2 = nodes[n].block2
       /\ base[n].expect = nodes[n].expect

LEMMA Joined ==
  ASSUME NEW s \in Seq(NodeRecord), NEW t \in Seq(NodeRecord)
  PROVE  /\ s \o t \in Seq(NodeRecord) /\ Len(s \o t) = Len(s) + Len(t)
         /\ \A n \in 1 .. Len(s) : (s \o t)[n] = s[n]
         /\ \A k \in 1 .. Len(t) : (s \o t)[Len(s) + k] = t[k]
OBVIOUS

LEMMA LikeGrows ==
  ASSUME TypeOK, AstIsTree, LinksInv, NEW base, Like(base), NEW more \in Seq(NodeRecord),
         \A n \in Node :
           \/ base[n].kids = nodes[n].kids
           \/ base[n].kids = Append(nodes[n].kids, New) /\ Len(more) >= 1 /\ more[1].parent = n,
         \A n \in Node : base[n].label <= Len(nodes) + Len(more),
         \A k \in 1 .. Len(more) :
           /\ more[k].parent < Len(nodes) + k /\ more[k].kids = <<>>
           /\ more[k].block2 <= Len(nodes) + Len(more) /\ more[k].label = Null,
         nodes' = base \o more
  PROVE  /\ TreeGrows
         /\ Len(nodes') = Len(nodes) + Len(more)
         /\ \A n \in Node : nodes'[n] = base[n]
         /\ \A k \in 1 .. Len(more) : nodes'[Len(nodes) + k] = more[k]
<1>0. Len(nodes) \in Nat /\ Len(more) \in Nat /\ New = Len(nodes) + 1
  BY DEF TypeOK, New
<1>1. /\ nodes' \in Seq(NodeRecord) /\ Len(nodes') = Len(nodes) + Len(more)
      /\ \A n \in Node : nodes'[n] = base[n]
      /\ \A k \in 1 .. Len(more) : nodes'[Len(nodes) + k] = more[k]
  <2>1. base \in Seq(NodeRecord) /\ Len(base) = Len(nodes)
    BY DEF Like
  <2>2. /\ base \o more \in Seq(NodeRecord) /\ Len(base \o more) = Len(base) + Len(more)
        /\ \A n \in 1 .. Len(base) : (base \o more)[n] = base[n]
        /\ \A k \in 1 .. Len(more) : (base \o more)[Len(base) + k] = more[k]
    BY <2>1, Joined
  <2>3. QED
    BY <2>1, <2>2 DEF Node
<1>2. \A n \in New .. Len(nodes') : \E k \in 1 .. Len(more) : n = Len(nodes) + k
  <2>1. ASSUME NEW n \in New .. Len(nodes')
        PROVE  n - Len(nodes) \in 1 .. Len(more) /\ n = Len(nodes) + (n - Len(nodes))
    BY <1>0, <1>1
  <2>2. QED
    BY <2>1
<1>3. ASSUME NEW n \in Node
      PROVE  /\ Keeps(n) /\ nodes'[n].label <= Len(nodes')
             /\ nodes'[n].kids = nodes[n].kids \/ Adopts(n)
  <2>0. nodes'[n] = base[n] /\ base[n].label <= Len(nodes')
    BY <1>1
  <2>1. Keeps(n) /\ nodes'[n].label <= Len(nodes')
    <3>1. /\ base[n].kind = nodes[n].kind /\ base[n].parent = nodes[n].parent
          /\ base[n].block1 = nodes[n].block1 /\ base[n].block2 = nodes[n].block2
          /\ base[n].expect = nodes[n].expect
      BY DEF Like
    <3>2. QED
      BY <2>0, <3>1 DEF Keeps
  <2>2. CASE base[n].kids = nodes[n].kids
    BY <1>1, <2>1, <2>2
  <2>3. CASE base[n].kids = Append(nodes[n].kids, New) /\ Len(more) >= 1 /\ more[1].parent = n
    <3>1. 1 \in 1 .. Len(more) /\ New <= Len(nodes')
      BY <1>0, <1>1, <2>3
    <3>2. nodes'[New] = more[1]
      BY <1>0, <1>1, <3>1
    <3>3. nodes'[n].kids = Append(nodes[n].kids, New)
      BY <1>1, <2>3
    <3>4. QED
      BY <2>1, <2>3, <3>1, <3>2, <3>3 DEF Adopts
  <2>4. QED
    BY <2>2, <2>3
<1>4. ASSUME NEW n \in New .. Len(nodes')
      PROVE  /\ nodes'[n].parent < n /\ nodes'[n].kids = <<>>
             /\ nodes'[n].block2 <= Len(nodes') /\ nodes'[n].label = Null
  <2>1. PICK k \in 1 .. Len(more) : n = Len(nodes) + k
    BY <1>2
  <2>2. nodes'[n] = more[k]
    BY <1>1, <2>1
  <2>3. QED
    BY <1>1, <2>1, <2>2
<1>5. Len(nodes) <= Len(nodes')
  BY <1>0, <1>1
<1>6. TreeGrows
  BY <1>1, <1>3, <1>4, <1>5 DEF TreeGrows
<1>7. QED
  BY <1>1, <1>6
(* Fields of one node set.                                                  *)
SameBut(r, s) ==
  /\ s.kind = r.kind /\ s.parent = r.parent /\ s.block1 = r.block1 /\ s.block2 = r.block2
  /\ s.expect = r.expect /\ s.kids = r.kids

LEMMA NodePut ==
  ASSUME NEW s \in Seq(NodeRecord), NEW m \in 1 .. Len(s), NEW r \in NodeRecord
  PROVE  /\ [s EXCEPT ![m] = r] \in Seq(NodeRecord) /\ Len([s EXCEPT ![m] = r]) = Len(s)
         /\ \A n \in 1 .. Len(s) : [s EXCEPT ![m] = r][n] = IF n = m THEN r ELSE s[n]
OBVIOUS

LabelledAs(t, s, m, label) == t = [s EXCEPT ![m].label = label]
OnlyLabel(t, s, m, label) ==
  /\ t \in Seq(NodeRecord) /\ Len(t) = Len(s)
  /\ \A n \in 1 .. Len(s) : /\ SameBut(s[n], t[n]) /\ t[n].endPos = s[n].endPos
                            /\ t[n].label = IF n = m THEN label ELSE s[n].label
LEMMA LabelSet ==
  ASSUME NEW s \in Seq(NodeRecord), NEW m \in 1 .. Len(s), NEW label \in Nat,
         NEW t, LabelledAs(t, s, m, label)
  PROVE  OnlyLabel(t, s, m, label)
<1>1. PICK r : r = [s[m] EXCEPT !.label = label]
  OBVIOUS
<1>2. s[m] \in NodeRecord
  OBVIOUS
<1>3. r \in NodeRecord /\ SameBut(s[m], r) /\ r.endPos = s[m].endPos /\ r.label = label
  BY <1>1, <1>2 DEF NodeRecord, SameBut
<1>4. t = [s EXCEPT ![m] = r]
  BY <1>1 DEF LabelledAs
<1>5. t \in Seq(NodeRecord) /\ Len(t) = Len(s) /\ \A n \in 1 .. Len(s) : t[n] = IF n = m THEN r ELSE s[n]
  BY <1>3, <1>4
<1>6. \A n \in 1 .. Len(s) : SameBut(s[n], s[n])
  BY DEF SameBut
<1>7. QED
  BY <1>3, <1>5, <1>6 DEF OnlyLabel

(* Only links that SameBut does not compare.                                *)
OnlyLinks(t, s) ==
  /\ t \in Seq(NodeRecord) /\ Len(t) = Len(s)
  /\ \A n \in 1 .. Len(s) : /\ SameBut(s[n], t[n]) /\ t[n].endPos = s[n].endPos
                            /\ t[n].label = s[n].label

NextAt(t, s, m, next) == t = [s EXCEPT ![m].next = next]
LEMMA NextSet ==
  ASSUME NEW s \in Seq(NodeRecord), NEW m \in 1 .. Len(s), NEW next \in Nat,
         NEW t, NextAt(t, s, m, next)
  PROVE  OnlyLinks(t, s)
<1>1. PICK r : r = [s[m] EXCEPT !.next = next]
  OBVIOUS
<1>2. s[m] \in NodeRecord
  OBVIOUS
<1>3. r \in NodeRecord /\ SameBut(s[m], r) /\ r.endPos = s[m].endPos /\ r.label = s[m].label
  BY <1>1, <1>2 DEF NodeRecord, SameBut
<1>4. t = [s EXCEPT ![m] = r]
  BY <1>1 DEF NextAt
<1>5. t \in Seq(NodeRecord) /\ Len(t) = Len(s) /\ \A n \in 1 .. Len(s) : t[n] = IF n = m THEN r ELSE s[n]
  BY <1>3, <1>4
<1>6. \A n \in 1 .. Len(s) : SameBut(s[n], s[n])
  BY DEF SameBut
<1>7. QED
  BY <1>3, <1>5, <1>6 DEF OnlyLinks

OtherwiseAt(t, s, m, otherwise) == t = [s EXCEPT ![m].otherwise = otherwise]
LEMMA OtherwiseSet ==
  ASSUME NEW s \in Seq(NodeRecord), NEW m \in 1 .. Len(s), NEW otherwise \in Nat,
         NEW t, OtherwiseAt(t, s, m, otherwise)
  PROVE  OnlyLinks(t, s)
<1>1. PICK r : r = [s[m] EXCEPT !.otherwise = otherwise]
  OBVIOUS
<1>2. s[m] \in NodeRecord
  OBVIOUS
<1>3. r \in NodeRecord /\ SameBut(s[m], r) /\ r.endPos = s[m].endPos /\ r.label = s[m].label
  BY <1>1, <1>2 DEF NodeRecord, SameBut
<1>4. t = [s EXCEPT ![m] = r]
  BY <1>1 DEF OtherwiseAt
<1>5. t \in Seq(NodeRecord) /\ Len(t) = Len(s) /\ \A n \in 1 .. Len(s) : t[n] = IF n = m THEN r ELSE s[n]
  BY <1>3, <1>4
<1>6. \A n \in 1 .. Len(s) : SameBut(s[n], s[n])
  BY DEF SameBut
<1>7. QED
  BY <1>3, <1>5, <1>6 DEF OnlyLinks

ElseAs(t, s, m, yes) == t = [s EXCEPT ![m].hasElse = yes]
LEMMA ElseSet ==
  ASSUME NEW s \in Seq(NodeRecord), NEW m \in 1 .. Len(s), NEW yes \in BOOLEAN,
         NEW t, ElseAs(t, s, m, yes)
  PROVE  OnlyLinks(t, s)
<1>1. PICK r : r = [s[m] EXCEPT !.hasElse = yes]
  OBVIOUS
<1>2. s[m] \in NodeRecord
  OBVIOUS
<1>3. r \in NodeRecord /\ SameBut(s[m], r) /\ r.endPos = s[m].endPos /\ r.label = s[m].label
  BY <1>1, <1>2 DEF NodeRecord, SameBut
<1>4. t = [s EXCEPT ![m] = r]
  BY <1>1 DEF ElseAs
<1>5. t \in Seq(NodeRecord) /\ Len(t) = Len(s) /\ \A n \in 1 .. Len(s) : t[n] = IF n = m THEN r ELSE s[n]
  <2>1. r \in NodeRecord
    BY <1>3
  <2>2. /\ [s EXCEPT ![m] = r] \in Seq(NodeRecord) /\ Len([s EXCEPT ![m] = r]) = Len(s)
        /\ \A n \in 1 .. Len(s) : [s EXCEPT ![m] = r][n] = IF n = m THEN r ELSE s[n]
    BY <2>1, NodePut
  <2>3. QED
    BY <1>4, <2>2, Zenon
<1>6. \A n \in 1 .. Len(s) : SameBut(s[n], s[n])
  BY DEF SameBut
<1>7. QED
  BY <1>3, <1>5, <1>6 DEF OnlyLinks

EndsAt(t, s, m, endPos) == t = [s EXCEPT ![m].endPos = endPos]
LEMMA EndSet ==
  ASSUME NEW s \in Seq(NodeRecord), NEW m, NEW endPos \in Int,
         NEW t, EndsAt(t, s, m, endPos)
  PROVE  /\ t \in Seq(NodeRecord) /\ Len(t) = Len(s)
         /\ \A n \in 1 .. Len(s) : /\ SameBut(s[n], t[n]) /\ t[n].label = s[n].label
                                   /\ n # m => t[n].endPos = s[n].endPos
<1>1. PICK r : r = [s[m] EXCEPT !.endPos = endPos]
  OBVIOUS
<1>2. t = [s EXCEPT ![m] = r]
  BY <1>1 DEF EndsAt
<1>3. \A n \in 1 .. Len(s) : SameBut(s[n], s[n])
  BY DEF SameBut
<1>4. CASE m \in 1 .. Len(s)
  <2>1. s[m] \in NodeRecord
    BY <1>4
  <2>2. r \in NodeRecord /\ SameBut(s[m], r) /\ r.label = s[m].label
    BY <1>1, <2>1 DEF NodeRecord, SameBut
  <2>3. t \in Seq(NodeRecord) /\ Len(t) = Len(s) /\ \A n \in 1 .. Len(s) : t[n] = IF n = m THEN r ELSE s[n]
    BY <1>2, <1>4, <2>2
  <2>4. QED
    BY <1>3, <2>2, <2>3
<1>5. CASE m \notin 1 .. Len(s)
  <2>1. t = s
    BY <1>2, <1>5
  <2>2. QED
    BY <1>3, <2>1
<1>6. QED
  BY <1>4, <1>5

MayEndAt(t, s, m, potential) == t = [s EXCEPT ![m].potential = potential]
LEMMA PotentialSet ==
  ASSUME NEW s \in Seq(NodeRecord), NEW m \in 1 .. Len(s), NEW potential \in Int,
         NEW t, MayEndAt(t, s, m, potential)
  PROVE  /\ t \in Seq(NodeRecord) /\ Len(t) = Len(s)
         /\ \A n \in 1 .. Len(s) : /\ SameBut(s[n], t[n]) /\ t[n].endPos = s[n].endPos
                                   /\ t[n].label = s[n].label
<1>1. PICK r : r = [s[m] EXCEPT !.potential = potential]
  OBVIOUS
<1>2. s[m] \in NodeRecord
  OBVIOUS
<1>3. r \in NodeRecord /\ SameBut(s[m], r) /\ r.endPos = s[m].endPos /\ r.label = s[m].label
  BY <1>1, <1>2 DEF NodeRecord, SameBut
<1>4. t = [s EXCEPT ![m] = r]
  BY <1>1 DEF MayEndAt
<1>5. t \in Seq(NodeRecord) /\ Len(t) = Len(s) /\ \A n \in 1 .. Len(s) : t[n] = IF n = m THEN r ELSE s[n]
  BY <1>3, <1>4
<1>6. \A n \in 1 .. Len(s) : SameBut(s[n], s[n])
  BY DEF SameBut
<1>7. QED
  BY <1>3, <1>5, <1>6
-----------------------------------------------------------------------------
(* A label, with its case if it is the first, and its block if it has one.   *)
LabelId == IF Frame.prev = Null THEN New + 1 ELSE New
LabelParent ==
  IF Frame.prev = Null THEN New
  ELSE IF nodes[Frame.prev].expect \in {"or", "next"} THEN Frame.prev ELSE Null

LabelOld ==
  IF Frame.prev = Null THEN Adopt
  ELSE IF nodes[Frame.prev].expect \in {"or", "next"}
  THEN [nodes EXCEPT ![Frame.prev].next = LabelId] ELSE nodes

(* What becomes of the nodes that are there.                                *)
LEMMA LabelBase ==
  ASSUME TypeOK, AstIsTree, LinksInv, cur \in Node, Frame.prev \in Nat, Frame.prev <= Len(nodes),
         NEW old, old = LabelOld
  PROVE  /\ old \in Seq(NodeRecord) /\ Len(old) = Len(nodes)
         /\ \A n \in Node :
              /\ old[n].kind = nodes[n].kind /\ old[n].parent = nodes[n].parent
              /\ old[n].block1 = nodes[n].block1 /\ old[n].block2 = nodes[n].block2
              /\ old[n].expect = nodes[n].expect
              /\ old[n].label = nodes[n].label /\ old[n].endPos = nodes[n].endPos
              /\ \/ old[n].kids = nodes[n].kids
                 \/ old[n].kids = Append(nodes[n].kids, New) /\ Frame.prev = Null /\ n = cur
<1>0. /\ nodes \in Seq(NodeRecord) /\ Len(nodes) \in Nat /\ New \in Nat /\ LabelId \in Nat
      /\ \A n \in Node : nodes[n] \in NodeRecord
  BY DEF TypeOK, New, LabelId, Node
<1>1. CASE Frame.prev = Null
  <2>0. old = Adopt
    BY <1>1 DEF LabelOld
  <2>1. /\ old \in Seq(NodeRecord) /\ Len(old) = Len(nodes)
        /\ \A n \in Node : old[n] = IF n = cur THEN [nodes[n] EXCEPT !.kids = Append(@, New)] ELSE nodes[n]
    BY <2>0, AdoptIs
  <2>2. ASSUME NEW n \in Node
        PROVE  /\ old[n].kind = nodes[n].kind /\ old[n].parent = nodes[n].parent
               /\ old[n].block1 = nodes[n].block1 /\ old[n].block2 = nodes[n].block2
               /\ old[n].expect = nodes[n].expect
               /\ old[n].label = nodes[n].label /\ old[n].endPos = nodes[n].endPos
               /\ old[n].kids = IF n = cur THEN Append(nodes[n].kids, New) ELSE nodes[n].kids
    <3>1. nodes[n] \in NodeRecord
      BY <1>0
    <3>2. CASE n = cur
      <4>1. old[n] = [nodes[n] EXCEPT !.kids = Append(@, New)]
        BY <2>1, <3>2
      <4>2. QED
        BY <3>1, <3>2, <4>1 DEF NodeRecord
    <3>3. CASE n # cur
      BY <2>1, <3>3
    <3>4. QED
      BY <3>2, <3>3
  <2>3. QED
    BY <1>1, <2>1, <2>2
<1>2. CASE Frame.prev # Null /\ nodes[Frame.prev].expect \in {"or", "next"}
  <2>1. Frame.prev \in 1 .. Len(nodes)
    BY <1>0, <1>2 DEF Null
  <2>2. old = [nodes EXCEPT ![Frame.prev].next = LabelId]
    BY <1>2 DEF LabelOld
  <2>3. /\ old \in Seq(NodeRecord) /\ Len(old) = Len(nodes)
        /\ \A n \in Node : /\ SameBut(nodes[n], old[n]) /\ old[n].endPos = nodes[n].endPos
                           /\ old[n].label = nodes[n].label
    <3>1. NextAt(old, nodes, Frame.prev, LabelId) /\ nodes \in Seq(NodeRecord) /\ LabelId \in Nat
      BY <1>0, <2>2 DEF NextAt
    <3>2. OnlyLinks(old, nodes)
      BY <2>1, <3>1, NextSet
    <3>3. QED
      BY <3>2 DEF OnlyLinks, Node
  <2>4. QED
    BY <2>3 DEF SameBut
<1>3. CASE Frame.prev # Null /\ ~(nodes[Frame.prev].expect \in {"or", "next"})
  <2>1. old = nodes
    BY <1>3 DEF LabelOld
  <2>2. QED
    BY <1>0, <2>1
<1>4. QED
  BY <1>1, <1>2, <1>3

LEMMA LabelGrows ==
  ASSUME TypeOK, AstIsTree, LinksInv, cur \in Node, Frame.prev \in Nat, Frame.prev <= Len(nodes),
         Frame.at \in Nat, NEW k \in Index, NEW expect \in Expects, NewLabel(k, expect)
  PROVE  /\ TreeGrows /\ KeepsEnds
         /\ \A n \in Node : nodes'[n].label = IF n = cur THEN LabelId ELSE nodes[n].label
         /\ Len(nodes') = IF expect = "or" THEN LabelId ELSE LabelId + 1
         /\ nodes'[LabelId].kind = "label" /\ nodes'[LabelId].parent = LabelParent
         /\ nodes'[LabelId].expect = expect
         /\ Frame.prev = Null => nodes'[New].kind = "case" /\ nodes'[New].parent = cur
         /\ expect # "or" => nodes'[LabelId + 1].kind = "block" /\ nodes'[LabelId + 1].parent = LabelId
         /\ cur' = IF expect = "or" THEN cur ELSE LabelId + 1
         /\ stack' \in Seq(Nat) /\ tag' = tag
<1>0. /\ nodes \in Seq(NodeRecord) /\ Len(nodes) \in Nat /\ New = Len(nodes) + 1 /\ New \in Nat
      /\ LabelId \in Nat /\ LabelParent \in Nat /\ cur \in Nat /\ cur < New
      /\ Operand(1) \in Nat /\ Operand(2) \in Nat /\ JumpPos(k) \in Int /\ k \in Int /\ Frame.at \in Int
  <2>1. Operand(0 + 1) \in Nat /\ Operand(1 + 1) \in Nat
    BY StackFacts
  <2>2. k \in Int /\ Frame.at \in Int
    BY DEF Index
  <2>3. JumpPos(k) \in Int
    BY CodeFacts
  <2>4. nodes \in Seq(NodeRecord) /\ Len(nodes) \in Nat /\ New = Len(nodes) + 1 /\ cur \in Nat /\ cur < New
    BY DEF TypeOK, New, Node
  <2>5. LabelId \in Nat /\ LabelParent \in Nat
    BY <2>4 DEF LabelId, LabelParent, Null
  <2>6. QED
    BY <2>1, <2>2, <2>3, <2>4, <2>5
<1>1. PICK c, l, b :
        /\ c = [Stmt("case", Frame.at, <<Operand(2)>>) EXCEPT !.next = LabelId]
        /\ l = [Blank EXCEPT !.kind = "label", !.parent = LabelParent, !.at = k,
                             !.args = <<Operand(1)>>, !.expect = expect,
                             !.block1 = IF expect # "or" THEN LabelId + 1 ELSE Null]
        /\ b = BlockOf(LabelId, JumpPos(k))
  OBVIOUS
<1>2. /\ c \in NodeRecord /\ c.kind = "case" /\ c.parent = cur
      /\ c.kids = <<>> /\ c.label = Null /\ c.block2 = Null
  <2>1. PICK place, args : place = Frame.at /\ args = <<Operand(2)>>
    OBVIOUS
  <2>2. "case" \in Kinds /\ place \in Int /\ args \in Seq(Nat)
    BY <1>0, <2>1 DEF Kinds, StatementKinds
  <2>3. PICK r : r = Stmt("case", place, args)
    OBVIOUS
  <2>4. r \in NodeRecord /\ r.kind = "case" /\ r.parent = cur /\ r.kids = <<>> /\ r.label = Null /\ r.block2 = Null
    BY <2>2, <2>3, StmtFacts
  <2>5. c = [r EXCEPT !.next = LabelId]
    BY <1>1, <2>1, <2>3
  <2>6. LabelId \in Nat
    BY <1>0
  <2>7. QED
    BY <2>4, <2>5, <2>6 DEF NodeRecord
<1>3. /\ l \in NodeRecord /\ l.kind = "label" /\ l.parent = LabelParent /\ l.expect = expect
      /\ l.kids = <<>> /\ l.label = Null /\ l.block2 = Null
  <2>1. "label" \in Kinds /\ <<Operand(1)>> \in Seq(Nat)
    BY <1>0 DEF Kinds
  <2>2. PICK block : block = (IF expect # "or" THEN LabelId + 1 ELSE Null)
    OBVIOUS
  <2>3. block \in Nat
    BY <1>0, <2>2 DEF Null
  <2>4. Blank.kids = <<>> /\ Blank.label = Null /\ Blank.block2 = Null
    BY DEF Blank
  <2>5. PICK args : args = <<Operand(1)>>
    OBVIOUS
  <2>6. l = [Blank EXCEPT !.kind = "label", !.parent = LabelParent, !.at = k,
                          !.args = args, !.expect = expect, !.block1 = block]
    BY <1>1, <2>2, <2>5
  <2>7. args \in Seq(Nat)
    BY <2>1, <2>5
  <2>8. QED
    BY <1>0, <2>1, <2>3, <2>4, <2>6, <2>7, BlankFacts DEF NodeRecord
<1>4. /\ b \in NodeRecord /\ b.kind = "block" /\ b.parent = LabelId
      /\ b.kids = <<>> /\ b.label = Null /\ b.block2 = Null
  BY <1>0, <1>1, BlockFacts
<1>5. PICK old, base, more :
        /\ old = LabelOld
        /\ base = [old EXCEPT ![cur].label = LabelId]
        /\ more = (IF Frame.prev = Null THEN <<c>> ELSE <<>>)
                  \o <<l>> \o (IF expect # "or" THEN <<b>> ELSE <<>>)
  OBVIOUS
<1>6. nodes' = base \o more
  BY <1>1, <1>5 DEF NewLabel, LabelId, LabelParent, LabelOld
<1>7. /\ more \in Seq(NodeRecord) /\ Len(more) >= 1
      /\ Frame.prev = Null => more[1] = c /\ more[2] = l /\ Len(more) = IF expect = "or" THEN 2 ELSE 3
      /\ Frame.prev # Null => more[1] = l /\ Len(more) = IF expect = "or" THEN 1 ELSE 2
      /\ expect # "or" => more[Len(more)] = b
  <2>1. CASE Frame.prev = Null /\ expect = "or"
    <3>1. more = <<c>> \o <<l>> \o <<>>
      BY <1>5, <2>1
    <3>2. QED
      BY <1>2, <1>3, <2>1, <3>1
  <2>2. CASE Frame.prev = Null /\ expect # "or"
    <3>1. more = <<c>> \o <<l>> \o <<b>>
      BY <1>5, <2>2
    <3>2. PICK two : two = <<c>> \o <<l>>
      OBVIOUS
    <3>3. two \in Seq(NodeRecord) /\ Len(two) = 2 /\ two[1] = c /\ two[2] = l
      BY <1>2, <1>3, <3>2
    <3>4. PICK one : one = <<b>>
      OBVIOUS
    <3>5. one \in Seq(NodeRecord) /\ Len(one) = 1 /\ one[1] = b /\ more = two \o one
      BY <1>4, <3>1, <3>2, <3>4
    <3>6. /\ more \in Seq(NodeRecord) /\ Len(more) = Len(two) + Len(one)
          /\ \A n \in 1 .. Len(two) : more[n] = two[n]
          /\ \A n \in 1 .. Len(one) : more[Len(two) + n] = one[n]
      BY <3>3, <3>5, Joined
    <3>7. more \in Seq(NodeRecord) /\ Len(more) = 3 /\ more[1] = c /\ more[2] = l /\ more[3] = b
      BY <3>3, <3>5, <3>6
    <3>8. QED
      BY <2>2, <3>7
  <2>3. CASE Frame.prev # Null /\ expect = "or"
    <3>1. more = <<>> \o <<l>> \o <<>>
      BY <1>5, <2>3
    <3>2. QED
      BY <1>3, <2>3, <3>1
  <2>4. CASE Frame.prev # Null /\ expect # "or"
    <3>1. more = <<>> \o <<l>> \o <<b>>
      BY <1>5, <2>4
    <3>2. QED
      BY <1>3, <1>4, <2>4, <3>1
  <2>5. QED
    BY <2>1, <2>2, <2>3, <2>4
<1>8. /\ old \in Seq(NodeRecord) /\ Len(old) = Len(nodes)
      /\ \A n \in Node :
           /\ old[n].kind = nodes[n].kind /\ old[n].parent = nodes[n].parent
           /\ old[n].block1 = nodes[n].block1 /\ old[n].block2 = nodes[n].block2
           /\ old[n].expect = nodes[n].expect
           /\ old[n].label = nodes[n].label /\ old[n].endPos = nodes[n].endPos
           /\ \/ old[n].kids = nodes[n].kids
              \/ old[n].kids = Append(nodes[n].kids, New) /\ Frame.prev = Null /\ n = cur
  <2>1. old = LabelOld
    BY <1>5
  <2>2. QED
    BY <2>1, LabelBase
<1>9. /\ base \in Seq(NodeRecord) /\ Len(base) = Len(nodes)
      /\ \A n \in Node : /\ SameBut(old[n], base[n]) /\ base[n].endPos = old[n].endPos
                         /\ base[n].label = IF n = cur THEN LabelId ELSE old[n].label
  <2>0. LabelledAs(base, old, cur, LabelId)
    BY <1>5 DEF LabelledAs
  <2>1. cur \in 1 .. Len(old) /\ old \in Seq(NodeRecord) /\ LabelId \in Nat
    BY <1>0, <1>8 DEF Node
  <2>2. /\ base \in Seq(NodeRecord) /\ Len(base) = Len(old)
        /\ \A n \in 1 .. Len(old) : /\ SameBut(old[n], base[n]) /\ base[n].endPos = old[n].endPos
                                     /\ base[n].label = IF n = cur THEN LabelId ELSE old[n].label
    <3>1. OnlyLabel(base, old, cur, LabelId)
      BY <2>0, <2>1, LabelSet
    <3>2. QED
      BY <3>1 DEF OnlyLabel
  <2>3. QED
    BY <1>8, <2>2 DEF Node
<1>10. Like(base)
  BY <1>8, <1>9 DEF Like, SameBut
<1>11. \A n \in Node :
         /\ base[n].endPos = nodes[n].endPos
         /\ base[n].label = IF n = cur THEN LabelId ELSE nodes[n].label
         /\ \/ base[n].kids = nodes[n].kids
            \/ base[n].kids = Append(nodes[n].kids, New) /\ Frame.prev = Null /\ n = cur
  BY <1>8, <1>9 DEF SameBut
<1>12. LabelId <= Len(nodes) + Len(more) /\ LabelParent < LabelId /\ LabelId = New + (IF Frame.prev = Null THEN 1 ELSE 0)
  <2>1. CASE Frame.prev = Null
    BY <1>0, <1>7, <2>1 DEF LabelId, LabelParent
  <2>2. CASE Frame.prev # Null
    <3>1. LabelId = Len(nodes) + 1 /\ (LabelParent = Frame.prev \/ LabelParent = 0)
      BY <1>0, <2>2 DEF LabelId, LabelParent, Null
    <3>2. LabelParent < LabelId
      BY <1>0, <3>1
    <3>3. LabelId <= Len(nodes) + Len(more)
      BY <1>0, <1>7, <2>2, <3>1
    <3>4. QED
      BY <1>0, <2>2, <3>1, <3>2, <3>3
  <2>3. QED
    BY <2>1, <2>2
<1>13. ASSUME NEW n \in Node
       PROVE  base[n].label <= Len(nodes) + Len(more)
  <2>1. nodes[n] \in NodeRecord /\ nodes[n].label <= Len(nodes)
    BY <1>0 DEF LinksInv, Node
  <2>2. nodes[n].label \in Nat
    BY <2>1 DEF NodeRecord
  <2>3. Len(more) \in Nat /\ LabelId <= Len(nodes) + Len(more) /\ Len(nodes) \in Nat
    BY <1>0, <1>7, <1>12
  <2>4. base[n].label = LabelId \/ base[n].label = nodes[n].label
    BY <1>11
  <2>5. QED
    BY <2>1, <2>2, <2>3, <2>4
<1>14. /\ LabelId - Len(nodes) \in 1 .. Len(more) /\ more[LabelId - Len(nodes)] = l
       /\ Frame.prev = Null => more[1] = c
       /\ expect # "or" => /\ LabelId + 1 - Len(nodes) = Len(more) /\ Len(more) \in 1 .. Len(more)
                           /\ more[Len(more)] = b
       /\ Len(nodes) + Len(more) = IF expect = "or" THEN LabelId ELSE LabelId + 1
  <2>1. CASE Frame.prev = Null /\ expect = "or"
    <3>1. LabelId = Len(nodes) + 2 /\ Len(more) = 2 /\ more[1] = c /\ more[2] = l
      BY <1>0, <1>7, <1>12, <2>1
    <3>2. QED
      BY <1>0, <2>1, <3>1
  <2>2. CASE Frame.prev = Null /\ expect # "or"
    <3>1. LabelId = Len(nodes) + 2 /\ Len(more) = 3 /\ more[1] = c /\ more[2] = l /\ more[Len(more)] = b
      BY <1>0, <1>7, <1>12, <2>2
    <3>2. QED
      BY <1>0, <2>2, <3>1
  <2>3. CASE Frame.prev # Null /\ expect = "or"
    <3>1. LabelId = Len(nodes) + 1 /\ Len(more) = 1 /\ more[1] = l
      BY <1>0, <1>7, <1>12, <2>3
    <3>2. QED
      BY <1>0, <2>3, <3>1
  <2>4. CASE Frame.prev # Null /\ expect # "or"
    <3>1. LabelId = Len(nodes) + 1 /\ Len(more) = 2 /\ more[1] = l /\ more[Len(more)] = b
      BY <1>0, <1>7, <1>12, <2>4
    <3>2. QED
      BY <1>0, <2>4, <3>1
  <2>5. QED
    BY <2>1, <2>2, <2>3, <2>4
<1>15. ASSUME NEW j \in 1 .. Len(more)
       PROVE  /\ more[j].parent < Len(nodes) + j /\ more[j].kids = <<>>
              /\ more[j].block2 <= Len(nodes) + Len(more) /\ more[j].label = Null
  <2>11. cur < Len(nodes) + 1 /\ Null = 0
    BY <1>0 DEF Null
  <2>12. LabelParent < LabelId
    BY <1>12
  <2>13. Len(nodes) + Len(more) \in Nat /\ Null = 0 /\ 0 <= Len(nodes) + Len(more)
    BY <1>0, <1>7 DEF Null
  <2>1. CASE j = LabelId - Len(nodes)
    <3>1. more[j] = l
      BY <1>14, <2>1
    <3>2. Len(nodes) + j = LabelId
      BY <1>0, <2>1
    <3>3. QED
      BY <1>3, <2>12, <2>13, <3>1, <3>2
  <2>2. CASE Frame.prev = Null /\ j = 1
    <3>1. more[j] = c
      BY <1>14, <2>2
    <3>2. QED
      BY <1>2, <2>11, <2>13, <2>2, <3>1
  <2>3. CASE expect # "or" /\ j = Len(more)
    <3>1. more[j] = b
      BY <1>14, <2>3
    <3>2. LabelId < Len(nodes) + j
      BY <1>0, <1>14, <2>3
    <3>3. QED
      BY <1>4, <2>13, <3>1, <3>2
  <2>4. j = LabelId - Len(nodes) \/ (Frame.prev = Null /\ j = 1) \/ (expect # "or" /\ j = Len(more))
    <3>1. CASE Frame.prev = Null
      <4>1. LabelId = Len(nodes) + 2 /\ Len(more) = IF expect = "or" THEN 2 ELSE 3
        BY <1>0, <1>7, <1>12, <3>1
      <4>2. QED
        BY <1>0, <3>1, <4>1
    <3>2. CASE Frame.prev # Null
      <4>1. LabelId = Len(nodes) + 1 /\ Len(more) = IF expect = "or" THEN 1 ELSE 2
        BY <1>0, <1>7, <1>12, <3>2
      <4>2. QED
        BY <1>0, <3>2, <4>1
    <3>3. QED
      BY <3>1, <3>2
  <2>5. QED
    BY <2>1, <2>2, <2>3, <2>4
<1>16. ASSUME NEW n \in Node
       PROVE  \/ base[n].kids = nodes[n].kids
              \/ base[n].kids = Append(nodes[n].kids, New) /\ Len(more) >= 1 /\ more[1].parent = n
  BY <1>2, <1>7, <1>11, <1>14
<1>17. /\ TreeGrows
       /\ Len(nodes') = Len(nodes) + Len(more)
       /\ \A n \in Node : nodes'[n] = base[n]
       /\ \A j \in 1 .. Len(more) : nodes'[Len(nodes) + j] = more[j]
  BY <1>6, <1>7, <1>10, <1>13, <1>15, <1>16, LikeGrows
<1>18. /\ nodes'[LabelId] = l
       /\ Frame.prev = Null => nodes'[New] = c
       /\ expect # "or" => nodes'[LabelId + 1] = b
  <2>1. LabelId = Len(nodes) + (LabelId - Len(nodes)) /\ LabelId + 1 = Len(nodes) + (LabelId + 1 - Len(nodes))
    BY <1>0
  <2>2. nodes'[LabelId] = l
    BY <1>14, <1>17, <2>1
  <2>3. ASSUME Frame.prev = Null PROVE nodes'[New] = c
    <3>1. 1 \in 1 .. Len(more)
      BY <1>7
    <3>2. nodes'[Len(nodes) + 1] = more[1]
      BY <1>17, <3>1
    <3>3. QED
      BY <1>0, <1>14, <2>3, <3>2
  <2>4. ASSUME expect # "or" PROVE nodes'[LabelId + 1] = b
    BY <1>14, <1>17, <2>1, <2>4
  <2>5. QED
    BY <2>2, <2>3, <2>4
<1>19. KeepsEnds /\ \A n \in Node : nodes'[n].label = IF n = cur THEN LabelId ELSE nodes[n].label
  BY <1>11, <1>17 DEF KeepsEnds
<1>20. cur' = (IF expect = "or" THEN cur ELSE LabelId + 1) /\ stack' \in Seq(Nat) /\ tag' = tag
  <2>1. Below(2) \in Seq(Nat) /\ Below(1) \in Seq(Nat)
    BY StackFacts
  <2>2. /\ tag' = tag /\ stack' = (IF Frame.prev = Null THEN Below(2) ELSE Below(1))
        /\ cur' = (IF expect # "or" THEN LabelId + 1 ELSE cur)
    BY DEF NewLabel, LabelId
  <2>3. QED
    BY <2>1, <2>2
<1>21. QED
  BY <1>2, <1>3, <1>4, <1>14, <1>17, <1>18, <1>19, <1>20
-----------------------------------------------------------------------------
(***************************************************************************)
(* The steps of translateBytecode, each by what it does to the tree.       *)
(***************************************************************************)

(* The handler's own block never ends; an if has its two blocks.            *)
RootInv ==
  /\ nodes[RootBlock].kind = "block" /\ nodes[RootBlock].parent = Null
  /\ nodes[RootBlock].endPos = NoPos
  /\ RootBlock <= Len(nodes)
HasBlocks(tree, s) ==
  /\ tree[s].block1 \in 1 .. Len(tree) /\ tree[s].block2 \in 1 .. Len(tree)
  /\ tree[s].block1 < tree[s].block2
  /\ tree[tree[s].block1].parent = s /\ tree[tree[s].block2].parent = s
  /\ tree[tree[s].block2].kind = "block"
IfInv == \A s \in Node : nodes[s].kind = "if" => HasBlocks(nodes, s)

BlockInv == TreeInv /\ RootInv /\ IfInv

(* An if that is made has its blocks made with it.                          *)
NewIfs ==
  \A s \in New .. Len(nodes') :
    nodes'[s].kind = "if" => HasBlocks(nodes', s) /\ nodes'[s].block1 >= New
RootKept == nodes'[RootBlock].endPos = nodes[RootBlock].endPos

StepOK ==
  /\ ReturnOK /\ KeepsTags /\ stack' \in Seq(Nat)
  /\ TreeGrows /\ NewIfs /\ RootKept
  /\ cur' \in Nat /\ cur' <= Len(nodes')

(* The block that is filled stays, or one is opened in it by a statement    *)
(* that is added to it.                                                     *)
Quiet == cur' = cur /\ KeepsLabels
Opened ==
  /\ KeepsLabels
  /\ \E b \in New .. Len(nodes') :
       /\ cur' = b /\ nodes'[b].kind = "block"
       /\ AncestorStatement(b)' \in New .. Len(nodes')
       /\ nodes'[AncestorStatement(b)'].parent = cur

LEMMA BlockStep ==
  ASSUME BlockInv, TreeGrows, NewIfs, RootKept
  PROVE  RootInv' /\ IfInv'
<1>0. /\ nodes \in Seq(NodeRecord) /\ nodes' \in Seq(NodeRecord) /\ Len(nodes) \in Nat /\ Len(nodes') \in Nat
      /\ Len(nodes) <= Len(nodes') /\ New = Len(nodes) + 1
      /\ \A n \in Node : Keeps(n)
  BY DEF BlockInv, TreeInv, TypeOK, TreeGrows, New
<1>1. RootBlock \in Node
  BY <1>0 DEF BlockInv, RootInv, RootBlock, Node
<1>2. RootInv'
  BY <1>0, <1>1 DEF BlockInv, RootInv, RootKept, Keeps, RootBlock
<1>3. ASSUME NEW s \in 1 .. Len(nodes'), nodes'[s].kind = "if"
      PROVE  HasBlocks(nodes', s)
  <2>1. CASE s \in Node
    <3>1. nodes[s].kind = "if" /\ nodes'[s].block1 = nodes[s].block1 /\ nodes'[s].block2 = nodes[s].block2
      BY <1>0, <1>3, <2>1 DEF Keeps
    <3>2. HasBlocks(nodes, s)
      BY <2>1, <3>1 DEF BlockInv, IfInv
    <3>3. nodes[s].block1 \in Node /\ nodes[s].block2 \in Node
      BY <3>2 DEF HasBlocks, Node
    <3>4. Keeps(nodes[s].block1) /\ Keeps(nodes[s].block2)
      BY <1>0, <3>3
    <3>5. QED
      BY <1>0, <3>1, <3>2, <3>3, <3>4 DEF HasBlocks, Keeps, Node
  <2>2. CASE s \in New .. Len(nodes')
    BY <1>3, <2>2 DEF NewIfs
  <2>3. s \in Node \/ s \in New .. Len(nodes')
    BY <1>0, <1>3 DEF Node
  <2>4. QED
    BY <2>1, <2>2, <2>3
<1>4. IfInv'
  BY <1>3 DEF IfInv, Node
<1>5. QED
  BY <1>2, <1>4

LEMMA StepKeepsInv ==
  ASSUME BlockInv, phase = "parse", StepOK
  PROVE  BlockInv'
<1>1. TreeInv /\ TreeGrows /\ NewIfs /\ RootKept
  BY DEF BlockInv, StepOK
<1>2. TreeInv'
  BY <1>1, TranslateStep DEF StepOK
<1>3. QED
  BY <1>1, <1>2, BlockStep DEF BlockInv

(* The walk from a block just made, through at most one node that is no     *)
(* statement.                                                               *)
LEMMA NewBlockIn ==
  ASSUME TypeOK, AstIsTree, LinksInv, TreeGrows,
         NEW b \in New .. Len(nodes'), NEW s \in 1 .. Len(nodes'), s < b,
         nodes'[s].kind \in StatementKinds,
         \/ nodes'[b].parent = s
         \/ \E o \in 1 .. Len(nodes') : /\ nodes'[b].parent = o /\ nodes'[o].kind \notin StatementKinds
                                        /\ nodes'[o].parent = s
  PROVE  AncestorStatement(b)' = s
<1>0. nodes' \in Seq(NodeRecord) /\ Len(nodes') \in Nat /\ b \in 1 .. Len(nodes')
  BY DEF TypeOK, TreeGrows, New
<1>1. ParentsAreOlder'
  BY TreeStep
<1>2. \A n \in 1 .. Len(nodes') : nodes'[n].parent \in Nat /\ nodes'[n].parent < n
  <2>1. ASSUME NEW n \in 1 .. Len(nodes')
        PROVE  nodes'[n].parent \in Nat
    <3>1. nodes'[n] \in NodeRecord
      BY <1>0, <2>1
    <3>2. QED
      BY <3>1 DEF NodeRecord
  <2>2. QED
    BY <1>1, <2>1 DEF ParentsAreOlder, Node
<1>3. PICK tree : tree = nodes'
  OBVIOUS
<1>4. IsTree(tree)
  BY <1>0, <1>2, <1>3 DEF IsTree
<1>5. NearestFrom(tree, StatementKinds)[s] = s
  <2>1. s \in 0 .. Len(tree) /\ s # Null /\ tree[s].kind \in StatementKinds
    BY <1>0, <1>3 DEF Null
  <2>2. NearestFrom(tree, StatementKinds)[s] = WalkStep(tree, StatementKinds, NearestFrom(tree, StatementKinds), s)
    BY <1>4, <2>1, NearestAt
  <2>3. QED
    BY <2>1, <2>2 DEF WalkStep
<1>6. NearestFrom(tree, StatementKinds)[tree[b].parent] = s
  <2>1. CASE nodes'[b].parent = s
    BY <1>3, <1>5, <2>1
  <2>2. CASE \E o \in 1 .. Len(nodes') : /\ nodes'[b].parent = o /\ nodes'[o].kind \notin StatementKinds
                                         /\ nodes'[o].parent = s
    <3>1. PICK o \in 1 .. Len(nodes') : /\ nodes'[b].parent = o /\ nodes'[o].kind \notin StatementKinds
                                        /\ nodes'[o].parent = s
      BY <2>2
    <3>2. o \in 0 .. Len(tree) /\ o # Null
      BY <1>0, <1>3 DEF Null
    <3>3. NearestFrom(tree, StatementKinds)[o] = WalkStep(tree, StatementKinds, NearestFrom(tree, StatementKinds), o)
      BY <1>4, <3>2, NearestAt
    <3>4. NearestFrom(tree, StatementKinds)[o] = NearestFrom(tree, StatementKinds)[s]
      BY <1>3, <3>1, <3>2, <3>3 DEF WalkStep
    <3>5. QED
      BY <1>3, <1>5, <3>1, <3>4
  <2>3. QED
    BY <2>1, <2>2
<1>7. AncestorStatement(b)' = IF s \in 1 .. Len(nodes') THEN s ELSE Null
  BY <1>3, <1>6 DEF AncestorStatement, Ancestor, Node
<1>8. QED
  BY <1>7

(* A statement without a block, or a comment, joins the block.              *)
LEMMA AddedStep ==
  ASSUME BlockInv, cur # Null, NEW kind \in Kinds, kind # "if",
         NEW at \in Int, NEW args \in Seq(Nat),
         nodes' = Append(Adopt, Stmt(kind, at, args)), cur' = cur,
         stack' \in Seq(Nat), ReturnOK, KeepsTags
  PROVE  StepOK /\ Quiet
<1>0. /\ TypeOK /\ AstIsTree /\ LinksInv /\ Len(nodes) \in Nat /\ cur \in Nat
      /\ cur <= Len(nodes) /\ New = Len(nodes) + 1
  BY DEF BlockInv, TreeInv, TypeOK, AstIsTree, New
<1>1. cur \in Node
  BY <1>0, CurIsNode
<1>2. TreeGrows /\ KeepsLabels /\ KeepsEnds /\ Len(nodes') = Len(nodes) + 1 /\ nodes'[New].kind = kind
  BY <1>0, <1>1, StatementGrows
<1>3. NewIfs
  BY <1>0, <1>2 DEF NewIfs
<1>4. RootKept
  BY <1>0, <1>2 DEF BlockInv, RootInv, RootKept, KeepsEnds, Node, RootBlock
<1>5. cur' \in Nat /\ cur' <= Len(nodes')
  BY <1>0, <1>2
<1>6. QED
  BY <1>2, <1>3, <1>4, <1>5 DEF StepOK, Quiet

LEMMA AddStatementStep ==
  ASSUME BlockInv, phase = "parse", NEW kind \in Kinds, kind # "if", NEW arity \in Nat,
         AddStatement(kind, arity)
  PROVE  StepOK /\ Quiet
<1>0. TypeOK
  BY DEF BlockInv, TreeInv
<1>1. Ip \in Int /\ Args(arity) \in Seq(Nat) /\ Below(arity) \in Seq(Nat) /\ ReturnOK
  BY <1>0, CallFacts, StackFacts, ProceedFacts DEF AddStatement
<1>2. KeepsTags
  BY <1>0 DEF KeepsTags, AddStatement, TypeOK
<1>3. QED
  BY <1>1, <1>2, AddedStep DEF AddStatement

LEMMA PushExprStep ==
  ASSUME BlockInv, phase = "parse", NEW arity \in Nat, PushExpr(arity)
  PROVE  StepOK /\ Quiet
<1>0. /\ TypeOK /\ AstIsTree /\ LinksInv /\ Len(nodes) \in Nat /\ cur \in Nat
      /\ cur <= Len(nodes) /\ New = Len(nodes) + 1
  BY DEF BlockInv, TreeInv, TypeOK, AstIsTree, New
<1>1. /\ Ip \in Int /\ Args(arity) \in Seq(Nat) /\ Below(arity) \in Seq(Nat) /\ ReturnOK
  BY <1>0, CallFacts, StackFacts, ProceedFacts DEF PushExpr
<1>2. PICK args, expr : args = Args(arity) /\ expr = [Blank EXCEPT !.kind = "expr", !.at = Ip, !.args = args]
  OBVIOUS
<1>3. "expr" \in Kinds
  BY DEF Kinds
<1>4. /\ expr \in NodeRecord /\ expr.parent = Null /\ expr.kids = <<>> /\ expr.block2 = Null
      /\ expr.label = Null /\ expr.kind = "expr"
  <2>1. Blank.parent = Null /\ Blank.kids = <<>> /\ Blank.label = Null /\ Blank.block2 = Null
    BY DEF Blank
  <2>2. args \in Seq(Nat)
    BY <1>1, <1>2
  <2>3. QED
    BY <1>1, <1>2, <1>3, <2>1, <2>2, BlankFacts DEF NodeRecord
<1>5. nodes' = Append(nodes, expr)
  BY <1>2 DEF PushExpr
<1>6. TreeGrows /\ KeepsLabels /\ KeepsEnds /\ Len(nodes') = Len(nodes) + 1 /\ nodes'[New] = expr
  BY <1>0, <1>4, <1>5, ExprGrows
<1>7. NewIfs
  BY <1>0, <1>4, <1>6 DEF NewIfs
<1>8. RootKept
  BY <1>0, <1>6 DEF BlockInv, RootInv, RootKept, KeepsEnds, Node, RootBlock
<1>9. KeepsTags /\ cur' = cur /\ cur' \in Nat /\ cur' <= Len(nodes')
  BY <1>0, <1>6 DEF KeepsTags, PushExpr, TypeOK
<1>10. stack' \in Seq(Nat)
  BY <1>0, <1>1 DEF PushExpr
<1>11. QED
  BY <1>1, <1>6, <1>7, <1>8, <1>9, <1>10 DEF StepOK, Quiet

LEMMA StaysStep ==
  ASSUME BlockInv, nodes' = nodes, cur' = cur, stack' \in Seq(Nat), ReturnOK, KeepsTags
  PROVE  StepOK /\ Quiet
<1>1. TypeOK /\ LinksInv /\ Len(nodes) \in Nat /\ cur \in Nat /\ cur <= Len(nodes)
  BY DEF BlockInv, TreeInv, TypeOK, AstIsTree
<1>2. TreeGrows
  BY <1>1, SameTree
<1>3. NewIfs /\ RootKept /\ KeepsLabels
  BY <1>1 DEF NewIfs, RootKept, KeepsLabels, New
<1>4. QED
  BY <1>1, <1>2, <1>3 DEF StepOK, Quiet

LEMMA SimpleStep ==
  ASSUME BlockInv,
         SkipTagged \/ Leaf \/ Unary \/ Binary \/ ArgList \/ Assign \/ StrayEnd
           \/ Call \/ Exit \/ Swap \/ Unknown \/ Pop
  PROVE  phase = "parse" /\ StepOK /\ Quiet
<1>0. TypeOK
  BY DEF BlockInv, TreeInv
<1>1. phase = "parse"
  BY DEF SkipTagged, Leaf, Unary, Binary, ArgList, Assign, StrayEnd, Call, Exit, Swap, Unknown, Pop,
         Translates, Calls
<1>2. {"simple", "comment", "exit", "case"} \subseteq Kinds
  BY DEF Kinds, StatementKinds
<1>3. ASSUME UNCHANGED tag, UNCHANGED stack, UNCHANGED nodes, UNCHANGED cur, Proceed
      PROVE  StepOK /\ Quiet
  <2>1. KeepsTags /\ stack' \in Seq(Nat) /\ ReturnOK
    BY <1>0, <1>1, <1>3, ProceedFacts DEF KeepsTags, TypeOK
  <2>2. QED
    BY <1>3, <2>1, StaysStep
<1>4. CASE SkipTagged
  BY <1>1, <1>3, <1>4 DEF SkipTagged
<1>5. CASE Leaf
  BY <1>1, <1>5, PushExprStep DEF Leaf
<1>6. CASE Unary
  BY <1>1, <1>6, PushExprStep DEF Unary
<1>7. CASE Binary
  BY <1>1, <1>7, PushExprStep DEF Binary
<1>8. CASE ArgList
  <2>1. Ip \in Index /\ At(Ip).obj >= 0 /\ PushExpr(At(Ip).obj)
    BY <1>0, <1>1, <1>8, CallFacts DEF ArgList, Translates
  <2>2. At(Ip) \in Bytecode
    BY <1>0, <2>1, CodeFacts DEF BlockInv, TreeInv, TypeOK
  <2>3. At(Ip).obj >= 0 /\ At(Ip).obj \in Int
    BY <2>1, <2>2 DEF Bytecode
  <2>4. QED
    BY <1>1, <2>1, <2>3, PushExprStep
<1>9. CASE Assign
  BY <1>1, <1>2, <1>9, AddStatementStep DEF Assign
<1>10. CASE StrayEnd
  BY <1>1, <1>2, <1>10, AddStatementStep DEF StrayEnd
<1>11. CASE Call
  <2>1. AddStatement("simple", 1) \/ PushExpr(1)
    BY <1>11 DEF Call
  <2>2. QED
    BY <1>1, <1>2, <2>1, AddStatementStep, PushExprStep
<1>12. CASE Exit
  <2>1. AddStatement("exit", 0) \/ (Proceed /\ UNCHANGED <<tag, stack, nodes, cur>>)
    BY <1>12 DEF Exit
  <2>2. QED
    BY <1>1, <1>2, <1>3, <2>1, AddStatementStep
<1>13. CASE Swap
  <2>1. KeepsTags /\ ReturnOK /\ nodes' = nodes /\ cur' = cur
    BY <1>0, <1>1, <1>13, ProceedFacts DEF Swap, KeepsTags, TypeOK
  <2>2. Operand(0 + 1) \in Nat /\ Operand(1 + 1) \in Nat /\ Below(2) \in Seq(Nat)
    BY <1>0, StackFacts
  <2>3. Operand(1) \in Nat /\ Operand(2) \in Nat
    BY <2>2
  <2>4. stack' = Below(2) \o <<Operand(1), Operand(2)>> \/ stack' = stack
    BY <1>13 DEF Swap
  <2>5. stack' \in Seq(Nat)
    <3>1. PICK below, pair : below = Below(2) /\ pair = <<Operand(1), Operand(2)>>
      OBVIOUS
    <3>2. below \in Seq(Nat) /\ pair \in Seq(Nat)
      BY <2>2, <2>3, <3>1
    <3>3. below \o pair \in Seq(Nat)
      BY <3>2
    <3>4. QED
      BY <1>0, <2>4, <3>1, <3>3 DEF TypeOK
  <2>6. QED
    BY <1>1, <2>1, <2>5, StaysStep
<1>14. CASE Unknown
  <2>1. /\ Ip \in Int /\ KeepsTags /\ ReturnOK /\ stack' = <<>> /\ cur # Null /\ cur' = cur
        /\ nodes' = Append(Adopt, Stmt("comment", Ip, <<>>))
    BY <1>0, <1>1, <1>14, ProceedFacts, CallFacts DEF Unknown, KeepsTags, TypeOK
  <2>2. <<>> \in Seq(Nat)
    OBVIOUS
  <2>3. QED
    BY <1>1, <1>2, <2>1, <2>2, AddedStep
<1>15. CASE Pop
  <2>1. AddStatement("case", 1) \/ (Proceed /\ UNCHANGED <<tag, stack, nodes, cur>>)
    BY <1>15 DEF Pop
  <2>2. QED
    BY <1>1, <1>2, <1>3, <2>1, AddStatementStep
<1>16. QED
  BY <1>1, <1>4, <1>5, <1>6, <1>7, <1>8, <1>9, <1>10, <1>11, <1>12, <1>13, <1>14, <1>15

(* A tell or a loop is added, and its block opened.                         *)
LEMMA OpenBlockStep ==
  ASSUME BlockInv, cur # Null, NEW stmt \in NodeRecord,
         stmt.kind \in StatementKinds, stmt.kind # "if", stmt.parent = cur,
         stmt.kids = <<>>, stmt.block2 = Null, stmt.label = Null,
         NEW endPos \in Int, OpenBlock(stmt, endPos),
         stack' \in Seq(Nat), ReturnOK, KeepsTags
  PROVE  StepOK /\ Opened
<1>0. /\ TypeOK /\ AstIsTree /\ LinksInv /\ Len(nodes) \in Nat /\ cur \in Nat
      /\ cur <= Len(nodes) /\ New = Len(nodes) + 1
  BY DEF BlockInv, TreeInv, TypeOK, AstIsTree, New
<1>1. cur \in Node
  BY <1>0, CurIsNode
<1>2. nodes' = Adopt \o <<[stmt EXCEPT !.block1 = New + 1], BlockOf(New, endPos)>> /\ cur' = New + 1
  BY DEF OpenBlock
<1>3. /\ TreeGrows /\ KeepsLabels /\ KeepsEnds /\ Len(nodes') = Len(nodes) + 2
      /\ nodes'[New].kind = stmt.kind /\ nodes'[New].parent = cur
      /\ nodes'[New + 1].kind = "block" /\ nodes'[New + 1].parent = New
  BY <1>0, <1>1, <1>2, OpenGrows
<1>4. NewIfs
  <2>1. \A s \in New .. Len(nodes') : s = New \/ s = New + 1
    BY <1>0, <1>3
  <2>2. QED
    BY <1>3, <2>1 DEF NewIfs
<1>5. RootKept
  BY <1>0, <1>3 DEF BlockInv, RootInv, RootKept, KeepsEnds, Node, RootBlock
<1>6. PICK b, s : b = New + 1 /\ s = New
  OBVIOUS
<1>7. /\ b \in New .. Len(nodes') /\ s \in New .. Len(nodes') /\ s \in 1 .. Len(nodes') /\ s < b
      /\ cur' = b /\ nodes'[b].kind = "block" /\ nodes'[b].parent = s
      /\ nodes'[s].kind \in StatementKinds /\ nodes'[s].parent = cur
  BY <1>0, <1>2, <1>3, <1>6
<1>8. AncestorStatement(b)' = s
  BY <1>0, <1>3, <1>7, NewBlockIn
<1>9. Opened
  BY <1>3, <1>7, <1>8 DEF Opened
<1>10. cur' \in Nat /\ cur' <= Len(nodes')
  BY <1>0, <1>7
<1>11. QED
  BY <1>3, <1>4, <1>5, <1>9, <1>10 DEF StepOK

LEMMA StartTellStep ==
  ASSUME BlockInv, StartTell
  PROVE  phase = "parse" /\ StepOK /\ Opened
<1>0. TypeOK /\ phase = "parse" /\ cur # Null
  BY DEF BlockInv, TreeInv, StartTell, Translates, Calls, OpenBlock
<1>1. /\ Ip \in Int /\ Args(1) \in Seq(Nat) /\ Below(1) \in Seq(Nat) /\ ReturnOK /\ KeepsTags
  <2>1. Ip \in Nat /\ ReturnOK
    BY <1>0, CallFacts, ProceedFacts DEF StartTell
  <2>2. Args(1) \in Seq(Nat) /\ Below(1) \in Seq(Nat)
    BY <1>0, StackFacts
  <2>3. KeepsTags
    BY <1>0 DEF StartTell, KeepsTags, TypeOK
  <2>4. QED
    BY <2>1, <2>2, <2>3
<1>2. PICK stmt : stmt = Stmt("tell", Ip, Args(1))
  OBVIOUS
<1>3. "tell" \in Kinds /\ "tell" \in StatementKinds
  BY DEF Kinds, StatementKinds
<1>4. /\ stmt \in NodeRecord /\ stmt.kind = "tell" /\ stmt.parent = cur
      /\ stmt.kids = <<>> /\ stmt.label = Null /\ stmt.block2 = Null
  BY <1>0, <1>1, <1>2, <1>3, StmtFacts
<1>5. OpenBlock(stmt, NoPos) /\ stack' \in Seq(Nat)
  BY <1>1, <1>2 DEF StartTell
<1>6. NoPos \in Int
  BY PosModulusAssumption DEF NoPos
<1>7. QED
  BY <1>0, <1>1, <1>3, <1>4, <1>5, <1>6, OpenBlockStep

LEMMA OpenLoopStep ==
  ASSUME BlockInv, phase = "parse", Ip \in Index, cur # Null, NEW kind \in LoopKinds, NEW arity \in Nat,
         NEW var \in Int, OpenLoop(kind, arity, var), ReturnOK, KeepsTags
  PROVE  StepOK /\ Opened
<1>0. TypeOK
  BY DEF BlockInv, TreeInv
<1>1. /\ Ip \in Int /\ Args(arity) \in Seq(Nat) /\ Below(arity) \in Seq(Nat) /\ JumpPos(Ip) \in Int
  BY <1>0, CallFacts, StackFacts, CodeFacts
<1>2. PICK r, stmt : r = Stmt(kind, Ip, Args(arity)) /\ stmt = [r EXCEPT !.var = var]
  OBVIOUS
<1>3. kind \in Kinds /\ kind \in StatementKinds /\ kind # "if"
  BY DEF Kinds, StatementKinds, LoopKinds
<1>4. /\ r \in NodeRecord /\ r.kind = kind /\ r.parent = cur
      /\ r.kids = <<>> /\ r.label = Null /\ r.block2 = Null
  BY <1>0, <1>1, <1>2, <1>3, StmtFacts
<1>5. /\ stmt \in NodeRecord /\ stmt.kind = kind /\ stmt.parent = cur
      /\ stmt.kids = <<>> /\ stmt.label = Null /\ stmt.block2 = Null
  BY <1>2, <1>4 DEF NodeRecord
<1>6. OpenBlock(stmt, JumpPos(Ip)) /\ stack' \in Seq(Nat)
  BY <1>1, <1>2 DEF OpenLoop
<1>7. QED
  BY <1>1, <1>3, <1>5, <1>6, OpenBlockStep

LEMMA OpenIfStep ==
  ASSUME BlockInv, phase = "parse", Ip \in Index, cur # Null, OpenIf, ReturnOK, KeepsTags
  PROVE  StepOK /\ Opened
<1>0. /\ TypeOK /\ AstIsTree /\ LinksInv /\ Len(nodes) \in Nat /\ cur \in Nat
      /\ cur <= Len(nodes) /\ New = Len(nodes) + 1
  BY DEF BlockInv, TreeInv, TypeOK, AstIsTree, New
<1>1. cur \in Node
  BY <1>0, CurIsNode
<1>2. /\ Ip \in Int /\ Args(1) \in Seq(Nat) /\ Below(1) \in Seq(Nat) /\ JumpPos(Ip) \in Int
  BY <1>0, CallFacts, StackFacts, CodeFacts
<1>3. /\ TreeGrows /\ KeepsLabels /\ KeepsEnds
      /\ Len(nodes') = Len(nodes) + 3
      /\ nodes'[New].kind = "if" /\ nodes'[New].parent = cur
      /\ nodes'[New].block1 = New + 1 /\ nodes'[New].block2 = New + 2
      /\ nodes'[New + 1].kind = "block" /\ nodes'[New + 1].parent = New
      /\ nodes'[New + 2].kind = "block" /\ nodes'[New + 2].parent = New
  BY <1>0, <1>1, <1>2, IfGrows DEF OpenIf
<1>4. NewIfs
  <2>1. \A s \in New .. Len(nodes') : s = New \/ s = New + 1 \/ s = New + 2
    BY <1>0, <1>3
  <2>2. New + 1 \in 1 .. Len(nodes') /\ New + 2 \in 1 .. Len(nodes') /\ New + 1 < New + 2 /\ New + 1 >= New
    BY <1>0, <1>3
  <2>3. HasBlocks(nodes', New) /\ nodes'[New].block1 >= New
    BY <1>3, <2>2 DEF HasBlocks
  <2>4. QED
    BY <1>3, <2>1, <2>3 DEF NewIfs
<1>5. RootKept
  BY <1>0, <1>3 DEF BlockInv, RootInv, RootKept, KeepsEnds, Node, RootBlock
<1>6. PICK b, s : b = New + 1 /\ s = New
  OBVIOUS
<1>7. /\ b \in New .. Len(nodes') /\ s \in New .. Len(nodes') /\ s \in 1 .. Len(nodes') /\ s < b
      /\ cur' = b /\ nodes'[b].kind = "block" /\ nodes'[b].parent = s
      /\ nodes'[s].kind \in StatementKinds /\ nodes'[s].parent = cur
  BY <1>0, <1>3, <1>6 DEF OpenIf, StatementKinds
<1>8. AncestorStatement(b)' = s
  BY <1>0, <1>3, <1>7, NewBlockIn
<1>9. Opened
  BY <1>3, <1>7, <1>8 DEF Opened
<1>10. cur' \in Nat /\ cur' <= Len(nodes') /\ stack' \in Seq(Nat)
  BY <1>0, <1>2, <1>7 DEF OpenIf
<1>11. QED
  BY <1>3, <1>4, <1>5, <1>9, <1>10 DEF StepOK

LEMMA JmpIfZStep ==
  ASSUME BlockInv, JmpIfZ
  PROVE  phase = "parse" /\ StepOK /\ Opened
<1>0. TypeOK /\ TagInv /\ phase = "parse" /\ cur # Null
  BY DEF BlockInv, TreeInv, JmpIfZ, Translates, Calls
<1>1. Ip \in Index /\ ReturnOK /\ KeepsTags
  BY <1>0, CallFacts, ProceedFacts DEF JmpIfZ, Translates, KeepsTags, TypeOK
<1>2. \/ OpenLoop("while", 1, 0)
      \/ tag[Ip] = "in" /\ OpenLoop("in", 1, At(Ip + 5).obj)
      \/ tag[Ip] \in {"to", "downto"} /\ OpenLoop(tag[Ip], 2, CounterVar(Ip))
      \/ OpenIf
  BY DEF JmpIfZ
<1>3. CASE OpenLoop("while", 1, 0)
  <2>1. "while" \in LoopKinds
    BY DEF LoopKinds
  <2>2. QED
    BY <1>0, <1>1, <1>3, <2>1, OpenLoopStep
<1>4. CASE tag[Ip] = "in" /\ OpenLoop("in", 1, At(Ip + 5).obj)
  <2>1. "in" \in LoopKinds
    BY DEF LoopKinds
  <2>2. Ip + 5 \in Index
    BY <1>0, <1>1, <1>4 DEF TagInv
  <2>3. At(Ip + 5) \in Bytecode
    BY <1>0, <2>2, CodeFacts
  <2>4. At(Ip + 5).obj \in Int
    BY <2>3 DEF Bytecode
  <2>5. QED
    BY <1>0, <1>1, <1>4, <2>1, <2>4, OpenLoopStep
<1>5. CASE tag[Ip] \in {"to", "downto"} /\ OpenLoop(tag[Ip], 2, CounterVar(Ip))
  <2>1. tag[Ip] \in LoopKinds
    BY <1>5 DEF LoopKinds
  <2>2. PICK k : k = IndexAt(LoopBackPos(IndexAt(JumpPos(Ip)) - 1)) - 1
    OBVIOUS
  <2>3. k \in Index
    BY <1>0, <1>1, <1>5, <2>2 DEF TagInv
  <2>4. At(k) \in Bytecode
    BY <1>0, <2>3, CodeFacts
  <2>5. CounterVar(Ip) \in Int
    BY <2>2, <2>4 DEF Bytecode, CounterVar
  <2>6. PICK kind, var : kind = tag[Ip] /\ var = CounterVar(Ip)
    OBVIOUS
  <2>7. kind \in LoopKinds /\ var \in Int /\ OpenLoop(kind, 2, var)
    BY <1>5, <2>1, <2>5, <2>6
  <2>8. QED
    BY <1>0, <1>1, <2>7, OpenLoopStep
<1>6. CASE OpenIf
  BY <1>0, <1>1, <1>6, OpenIfStep
<1>7. QED
  BY <1>2, <1>3, <1>4, <1>5, <1>6

(* The fields of nodes are changed, and none is added.                      *)
LEMMA AlteredGrows ==
  ASSUME TypeOK, AstIsTree, LinksInv, NEW t, nodes' = t, Like(t),
         \A n \in Node : t[n].kids = nodes[n].kids /\ t[n].label <= Len(nodes)
  PROVE  TreeGrows /\ NewIfs /\ Len(nodes') = Len(nodes)
<1>0. /\ Len(nodes) \in Nat /\ New = Len(nodes) + 1 /\ t \in Seq(NodeRecord) /\ Len(t) = Len(nodes)
  BY DEF TypeOK, New, Like
<1>1. PICK more : more = <<>> /\ more \in Seq(NodeRecord)
  <2>1. <<>> \in Seq(NodeRecord)
    OBVIOUS
  <2>2. QED
    BY <2>1
<1>2. nodes' = t \o more /\ Len(more) = 0
  BY <1>0, <1>1
<1>3. \A k \in 1 .. Len(more) :
        /\ more[k].parent < Len(nodes) + k /\ more[k].kids = <<>>
        /\ more[k].block2 <= Len(nodes) + Len(more) /\ more[k].label = Null
  BY <1>2
<1>4. \A n \in Node : t[n].label <= Len(nodes) + Len(more)
  <2>1. Len(nodes) + Len(more) = Len(nodes)
    BY <1>0, <1>2
  <2>2. QED
    BY <2>1
<1>5. TreeGrows
  BY <1>1, <1>2, <1>3, <1>4, LikeGrows
<1>6. NewIfs
  BY <1>0 DEF NewIfs
<1>7. QED
  BY <1>0, <1>5, <1>6

LEMMA JmpElseStep ==
  ASSUME BlockInv, phase = "parse", Ip \in Index, NEW s \in Node, nodes[s].kind = "if", JmpElse(s),
         ReturnOK
  PROVE  StepOK /\ Quiet
<1>0. /\ TypeOK /\ AstIsTree /\ LinksInv /\ nodes \in Seq(NodeRecord) /\ Len(nodes) \in Nat
      /\ cur \in Nat /\ cur <= Len(nodes) /\ stack \in Seq(Nat) /\ tag \in [Index -> Tags]
  BY DEF BlockInv, TreeInv, TypeOK, AstIsTree
<1>1. JumpPos(Ip) \in Int
  BY <1>0, CodeFacts
<1>2. HasBlocks(nodes, s)
  BY DEF BlockInv, IfInv
<1>3. PICK m, yes, endPos : m = nodes[s].block2 /\ yes = TRUE /\ endPos = JumpPos(Ip)
  OBVIOUS
<1>4. m \in Node /\ m # RootBlock
  BY <1>0, <1>2, <1>3 DEF HasBlocks, Node, BlockInv, RootInv, Null
<1>5. PICK t1, t : t1 = [nodes EXCEPT ![s].hasElse = yes] /\ t = [t1 EXCEPT ![m].endPos = endPos]
  OBVIOUS
<1>6. nodes' = t
  BY <1>3, <1>5 DEF JmpElse
<1>7. /\ t1 \in Seq(NodeRecord) /\ Len(t1) = Len(nodes)
      /\ \A n \in 1 .. Len(nodes) : /\ SameBut(nodes[n], t1[n]) /\ t1[n].endPos = nodes[n].endPos
                                    /\ t1[n].label = nodes[n].label
  <2>1. yes \in BOOLEAN
    BY <1>3
  <2>2. s \in 1 .. Len(nodes)
    BY DEF Node
  <2>3. t1 = [nodes EXCEPT ![s].hasElse = yes]
    BY <1>5
  <2>4. nodes \in Seq(NodeRecord)
    BY <1>0
  <2>5. QED
    <3>1. ElseAs(t1, nodes, s, yes)
      BY <2>3 DEF ElseAs
    <3>2. OnlyLinks(t1, nodes)
      BY <2>1, <2>2, <2>4, <3>1, ElseSet
    <3>3. QED
      BY <3>2 DEF OnlyLinks
<1>8. /\ t \in Seq(NodeRecord) /\ Len(t) = Len(t1)
      /\ \A n \in 1 .. Len(t1) : /\ SameBut(t1[n], t[n]) /\ t[n].label = t1[n].label
                                 /\ n # m => t[n].endPos = t1[n].endPos
  <2>1. endPos \in Int
    BY <1>1, <1>3
  <2>2. EndsAt(t, t1, m, endPos)
    BY <1>5 DEF EndsAt
  <2>3. t1 \in Seq(NodeRecord)
    BY <1>7
  <2>4. QED
    BY <2>1, <2>2, <2>3, EndSet
<1>9. Like(t) /\ \A n \in Node : t[n].kids = nodes[n].kids /\ t[n].label = nodes[n].label
  BY <1>7, <1>8 DEF Like, SameBut, Node
<1>10. \A n \in Node : t[n].label <= Len(nodes)
  BY <1>0, <1>9 DEF LinksInv
<1>11. TreeGrows /\ NewIfs /\ Len(nodes') = Len(nodes)
  BY <1>0, <1>6, <1>9, <1>10, AlteredGrows
<1>12. RootKept
  BY <1>4, <1>6, <1>7, <1>8 DEF RootKept, BlockInv, RootInv, Node, RootBlock
<1>13. KeepsLabels
  BY <1>6, <1>9 DEF KeepsLabels
<1>14. cur' = cur /\ stack' \in Seq(Nat) /\ KeepsTags
  BY <1>0 DEF JmpElse, KeepsTags
<1>15. QED
  BY <1>0, <1>11, <1>12, <1>13, <1>14 DEF StepOK, Quiet

(* Only the pop that ends a case is tagged after tagLoops.                  *)
LEMMA EndCaseTag ==
  ASSUME TypeOK, NEW k, tag' = [tag EXCEPT ![k] = "endcase"]
  PROVE  KeepsTags
<1>1. "endcase" \in Tags
  BY DEF Tags
<1>2. tag \in [Index -> Tags]
  BY DEF TypeOK
<1>3. QED
  BY <1>1, <1>2 DEF KeepsTags

LEMMA JmpEndOfLabelStep ==
  ASSUME BlockInv, phase = "parse", Ip \in Index, NEW s \in Node, nodes[s].kind = "case",
         JmpEndOfLabel(s), ReturnOK
  PROVE  StepOK /\ Quiet
<1>0. /\ TypeOK /\ AstIsTree /\ LinksInv /\ nodes \in Seq(NodeRecord) /\ Len(nodes) \in Nat
      /\ cur \in Nat /\ cur <= Len(nodes) /\ stack \in Seq(Nat)
  BY DEF BlockInv, TreeInv, TypeOK, AstIsTree
<1>1. JumpPos(Ip) \in Int /\ At(Ip) \in Bytecode
  BY <1>0, CodeFacts
<1>2. At(Ip).pos \in Int
  BY <1>1 DEF Bytecode
<1>3. s # RootBlock
  BY DEF BlockInv, RootInv
<1>4. PICK potential, endPos : potential = At(Ip).pos /\ endPos = JumpPos(Ip)
  OBVIOUS
<1>5. PICK t1, t : t1 = [nodes EXCEPT ![s].potential = potential] /\ t = [t1 EXCEPT ![s].endPos = endPos]
  OBVIOUS
<1>6. nodes' = t
  BY <1>4, <1>5 DEF JmpEndOfLabel
<1>7. /\ t1 \in Seq(NodeRecord) /\ Len(t1) = Len(nodes)
      /\ \A n \in 1 .. Len(nodes) : /\ SameBut(nodes[n], t1[n]) /\ t1[n].endPos = nodes[n].endPos
                                    /\ t1[n].label = nodes[n].label
  <2>1. potential \in Int
    BY <1>2, <1>4
  <2>2. s \in 1 .. Len(nodes)
    BY DEF Node
  <2>3. MayEndAt(t1, nodes, s, potential)
    BY <1>5 DEF MayEndAt
  <2>4. nodes \in Seq(NodeRecord)
    BY <1>0
  <2>5. QED
    BY <2>1, <2>2, <2>3, <2>4, PotentialSet
<1>8. /\ t \in Seq(NodeRecord) /\ Len(t) = Len(t1)
      /\ \A n \in 1 .. Len(t1) : /\ SameBut(t1[n], t[n]) /\ t[n].label = t1[n].label
                                 /\ n # s => t[n].endPos = t1[n].endPos
  <2>1. endPos \in Int
    BY <1>1, <1>4
  <2>2. EndsAt(t, t1, s, endPos)
    BY <1>5 DEF EndsAt
  <2>3. t1 \in Seq(NodeRecord)
    BY <1>7
  <2>4. QED
    BY <2>1, <2>2, <2>3, EndSet
<1>9. Like(t) /\ \A n \in Node : t[n].kids = nodes[n].kids /\ t[n].label = nodes[n].label
  BY <1>7, <1>8 DEF Like, SameBut, Node
<1>10. \A n \in Node : t[n].label <= Len(nodes)
  BY <1>0, <1>9 DEF LinksInv
<1>11. TreeGrows /\ NewIfs /\ Len(nodes') = Len(nodes)
  BY <1>0, <1>6, <1>9, <1>10, AlteredGrows
<1>12. RootKept
  BY <1>3, <1>6, <1>7, <1>8 DEF RootKept, BlockInv, RootInv, Node, RootBlock
<1>13. KeepsLabels
  BY <1>6, <1>9 DEF KeepsLabels
<1>14. cur' = cur /\ stack' \in Seq(Nat)
  BY <1>0 DEF JmpEndOfLabel
<1>15. KeepsTags
  BY <1>0, EndCaseTag DEF JmpEndOfLabel
<1>16. QED
  BY <1>0, <1>11, <1>12, <1>13, <1>14, <1>15 DEF StepOK, Quiet

(* A walk starts above the node it is for.                                  *)
LEMMA AncestorFacts ==
  ASSUME TypeOK, AstIsTree, NEW b \in Node, NEW kinds
  PROVE  /\ Ancestor(b, kinds) \in Nat /\ Ancestor(b, kinds) < b
         /\ Ancestor(b, kinds) # Null => /\ Ancestor(b, kinds) \in Node
                                         /\ nodes[Ancestor(b, kinds)].kind \in kinds
         /\ Ancestor(b, kinds) = NearestFrom(nodes, kinds)[nodes[b].parent]
<1>0. nodes \in Seq(NodeRecord) /\ Len(nodes) \in Nat /\ b \in Nat /\ b <= Len(nodes)
  BY DEF TypeOK, Node
<1>1. \A n \in Node : nodes[n].parent \in Nat /\ nodes[n].parent < n
  <2>1. ASSUME NEW n \in Node
        PROVE  nodes[n].parent \in Nat
    <3>1. nodes[n] \in NodeRecord
      BY <1>0 DEF Node
    <3>2. QED
      BY <3>1 DEF NodeRecord
  <2>2. QED
    BY <2>1 DEF AstIsTree, ParentsAreOlder
<1>2. IsTree(nodes)
  BY <1>0, <1>1 DEF IsTree, Node
<1>3. PICK a, found : a = nodes[b].parent /\ found = NearestFrom(nodes, kinds)[a]
  OBVIOUS
<1>4. a \in 0 .. Len(nodes) /\ a \in Nat /\ a < b
  BY <1>0, <1>1, <1>3
<1>5. found \in 0 .. a /\ (found # Null => nodes[found].kind \in kinds)
  BY <1>2, <1>3, <1>4, NearestFinds
<1>6. found \in Node \/ found = Null
  BY <1>0, <1>4, <1>5 DEF Node, Null
<1>7. Ancestor(b, kinds) = found
  BY <1>3, <1>6 DEF Ancestor
<1>8. found \in Nat /\ found < b
  BY <1>0, <1>4, <1>5
<1>9. found # Null => found \in Node /\ nodes[found].kind \in kinds
  BY <1>5, <1>6
<1>10. QED
  BY <1>3, <1>7, <1>8, <1>9, Zenon

LEMMA EnclosingFacts ==
  ASSUME TypeOK, AstIsTree, NEW b \in Node
  PROVE  /\ AncestorStatement(b) \in Nat /\ AncestorStatement(b) < b
         /\ AncestorStatement(b) # Null => /\ AncestorStatement(b) \in Node
                                           /\ nodes[AncestorStatement(b)].kind \in StatementKinds
         /\ Enclosing(b) \in Nat /\ Enclosing(b) < b
         /\ Enclosing(b) # Null => /\ Enclosing(b) \in Node /\ AncestorStatement(b) # Null
                                   /\ Enclosing(b) = nodes[AncestorStatement(b)].parent
<1>1. /\ AncestorStatement(b) \in Nat /\ AncestorStatement(b) < b
      /\ AncestorStatement(b) # Null => /\ AncestorStatement(b) \in Node
                                        /\ nodes[AncestorStatement(b)].kind \in StatementKinds
  BY AncestorFacts DEF AncestorStatement
<1>2. PICK s, up : s = AncestorStatement(b) /\ up = nodes[s].parent
  OBVIOUS
<1>3. s # Null => up < s
  BY <1>1, <1>2 DEF AstIsTree, ParentsAreOlder
<1>4. Enclosing(b) = Null \/ (Enclosing(b) = up /\ s # Null /\ up \in Node)
  BY <1>2 DEF Enclosing
<1>5. b \in Nat /\ b > 0 /\ Len(nodes) \in Nat
  BY DEF Node, TypeOK
<1>6. Enclosing(b) \in Nat /\ Enclosing(b) < b
  BY <1>1, <1>2, <1>3, <1>4, <1>5 DEF Null, Node
<1>7. QED
  BY <1>1, <1>2, <1>4, <1>6

(* A case that starts with its otherwise is added, and the block opened.    *)
LEMMA OtherwiseOnlyStep ==
  ASSUME BlockInv, phase = "parse", Ip \in Index, cur # Null, JmpOtherwiseOnly, ReturnOK
  PROVE  StepOK /\ Opened
<1>0. /\ TypeOK /\ AstIsTree /\ LinksInv /\ Len(nodes) \in Nat /\ cur \in Nat
      /\ cur <= Len(nodes) /\ New = Len(nodes) + 1
  BY DEF BlockInv, TreeInv, TypeOK, AstIsTree, New
<1>1. cur \in Node
  BY <1>0, CurIsNode
<1>2. /\ Ip \in Int /\ Args(1) \in Seq(Nat) /\ Below(1) \in Seq(Nat) /\ JumpPos(Ip) \in Int
  BY <1>0, CallFacts, StackFacts, CodeFacts
<1>3. /\ TreeGrows /\ KeepsLabels /\ KeepsEnds
      /\ Len(nodes') = Len(nodes) + 3
      /\ nodes'[New].kind = "case" /\ nodes'[New].parent = cur
      /\ nodes'[New + 1].kind = "otherwise" /\ nodes'[New + 1].parent = New
      /\ nodes'[New + 2].kind = "block" /\ nodes'[New + 2].parent = New + 1
  BY <1>0, <1>1, <1>2, CaseGrows DEF JmpOtherwiseOnly
<1>4. NewIfs
  <2>1. \A s \in New .. Len(nodes') : s = New \/ s = New + 1 \/ s = New + 2
    BY <1>0, <1>3
  <2>2. QED
    BY <1>3, <2>1 DEF NewIfs
<1>5. RootKept
  BY <1>0, <1>3 DEF BlockInv, RootInv, RootKept, KeepsEnds, Node, RootBlock
<1>6. PICK b, o, s : b = New + 2 /\ o = New + 1 /\ s = New
  OBVIOUS
<1>7. /\ b \in New .. Len(nodes') /\ s \in New .. Len(nodes') /\ s \in 1 .. Len(nodes') /\ s < b
      /\ cur' = b /\ nodes'[b].kind = "block" /\ nodes'[b].parent = o
      /\ o \in 1 .. Len(nodes') /\ nodes'[o].kind \notin StatementKinds /\ nodes'[o].parent = s
      /\ nodes'[s].kind \in StatementKinds /\ nodes'[s].parent = cur
  BY <1>0, <1>3, <1>6 DEF JmpOtherwiseOnly, StatementKinds
<1>8. AncestorStatement(b)' = s
  BY <1>0, <1>3, <1>7, NewBlockIn
<1>9. Opened
  BY <1>3, <1>7, <1>8 DEF Opened
<1>10. cur' \in Nat /\ cur' <= Len(nodes') /\ stack' \in Seq(Nat)
  <2>1. stack' = Below(1)
    BY DEF JmpOtherwiseOnly
  <2>2. cur' \in Nat /\ cur' <= Len(nodes')
    BY <1>0, <1>7
  <2>3. QED
    BY <1>2, <2>1, <2>2
<1>11. KeepsTags
  BY <1>0, EndCaseTag DEF JmpOtherwiseOnly
<1>12. QED
  BY <1>3, <1>4, <1>5, <1>9, <1>10, <1>11 DEF StepOK

LEMMA JmpStep ==
  ASSUME BlockInv, Jmp
  PROVE  phase = "parse" /\ StepOK /\ (Quiet \/ Opened)
<1>0. /\ TypeOK /\ AstIsTree /\ phase = "parse" /\ cur # Null /\ stack \in Seq(Nat)
      /\ tag \in [Index -> Tags]
  BY DEF BlockInv, TreeInv, TypeOK, Jmp, Translates, Calls
<1>1. Ip \in Index /\ ReturnOK /\ Ip \in Int
  BY <1>0, CallFacts, ProceedFacts DEF Jmp, Translates
<1>2. cur \in Node
  BY <1>0, CurIsNode
<1>3. PICK s : s = AncestorStatement(cur)
  OBVIOUS
<1>4. s # Null => s \in Node
  BY <1>0, <1>2, <1>3, EnclosingFacts
<1>5. {"exitrepeat", "nextrepeat", "comment"} \subseteq Kinds
  BY DEF Kinds, StatementKinds
<1>6. ASSUME NEW kind \in {"exitrepeat", "nextrepeat", "comment"},
             nodes' = Append(Adopt, Stmt(kind, Ip, <<>>)), UNCHANGED <<tag, stack, cur>>
      PROVE  StepOK /\ Quiet
  <2>1. KeepsTags /\ stack' \in Seq(Nat) /\ cur' = cur
    BY <1>0, <1>6 DEF KeepsTags
  <2>2. <<>> \in Seq(Nat) /\ kind \in Kinds /\ kind # "if"
    BY <1>5
  <2>3. QED
    BY <1>0, <1>1, <1>6, <2>1, <2>2, AddedStep
<1>7. \/ JmpLoop("exitrepeat") \/ JmpLoop("nextrepeat") \/ JmpUnidentified
      \/ s # Null /\ nodes[s].kind = "if" /\ JmpElse(s)
      \/ s # Null /\ nodes[s].kind = "case" /\ JmpEndOfLabel(s)
      \/ JmpOtherwiseOnly
  BY <1>3 DEF Jmp, EndsBranch
<1>8. CASE JmpLoop("exitrepeat")
  BY <1>0, <1>6, <1>8 DEF JmpLoop
<1>9. CASE JmpLoop("nextrepeat")
  BY <1>0, <1>6, <1>9 DEF JmpLoop
<1>10. CASE JmpUnidentified
  BY <1>0, <1>6, <1>10 DEF JmpUnidentified
<1>11. CASE s # Null /\ nodes[s].kind = "if" /\ JmpElse(s)
  BY <1>0, <1>1, <1>4, <1>11, JmpElseStep
<1>12. CASE s # Null /\ nodes[s].kind = "case" /\ JmpEndOfLabel(s)
  BY <1>0, <1>1, <1>4, <1>12, JmpEndOfLabelStep
<1>13. CASE JmpOtherwiseOnly
  BY <1>0, <1>1, <1>13, OtherwiseOnlyStep
<1>14. QED
  BY <1>7, <1>8, <1>9, <1>10, <1>11, <1>12, <1>13

(* A failed search for the comparison leaves a comment.                     *)
LEMMA NoLabelStep ==
  ASSUME BlockInv, phase = "parse", cur # Null, Frame.at \in Nat, NEW popped \in Nat, NoLabel(popped), ReturnOK
  PROVE  StepOK /\ Quiet
<1>0. TypeOK
  BY DEF BlockInv, TreeInv
<1>1. KeepsTags /\ cur' = cur
  BY <1>0 DEF NoLabel, KeepsTags, TypeOK
<1>2. stack' \in Seq(Nat)
  BY <1>0, StackFacts DEF NoLabel
<1>3. PICK args, at : args = <<>> /\ at = Frame.at
  OBVIOUS
<1>4. args \in Seq(Nat) /\ at \in Int /\ "comment" \in Kinds
  BY <1>3 DEF Kinds
<1>5. nodes' = Append(Adopt, Stmt("comment", at, args))
  BY <1>3 DEF NoLabel
<1>6. QED
  BY <1>1, <1>2, <1>4, <1>5, AddedStep

LEMMA SearchFacts ==
  ASSUME TypeOK, phase = "parse", SearchOver
  PROVE  /\ frames # <<>> /\ Frame \in FrameRecord
         /\ Frame.at \in Nat /\ Frame.curr \in Nat /\ Frame.curr > Frame.at + 1 /\ Frame.prev \in Nat
         /\ \E f \in 1 .. Len(frames) : Frame = frames[f]
<1>1. frames # <<>> /\ Frame.curr > Frame.at + 1
  BY DEF SearchOver
<1>2. Frame \in FrameRecord /\ \E f \in 1 .. Len(frames) : Frame = frames[f]
  BY <1>1, CallFacts
<1>3. Frame.at \in Nat /\ Frame.curr \in Nat /\ Frame.prev \in Nat
  BY <1>2 DEF FrameRecord
<1>4. QED
  BY <1>1, <1>2, <1>3

LEMMA SearchFailsStep ==
  ASSUME BlockInv, PeekNoComparison \/ PeekNoJump
  PROVE  phase = "parse" /\ StepOK /\ Quiet
<1>0. TypeOK /\ phase = "parse" /\ cur # Null /\ SearchOver
  BY DEF BlockInv, TreeInv, PeekNoComparison, PeekNoJump
<1>1. frames # <<>> /\ Frame.at \in Nat /\ Frame.curr \in Nat /\ Frame.curr > Frame.at + 1
  BY <1>0, SearchFacts
<1>2. PICK at, curr : at = Frame.at /\ curr = Frame.curr
  OBVIOUS
<1>3. at \in Nat /\ at + (curr - at + 1) \in Nat /\ at + (curr - at + 2) \in Nat
  BY <1>1, <1>2
<1>4. CASE PeekNoComparison
  <2>1. NoLabel(0) /\ Return(Callers, at, curr - at + 1)
    BY <1>2, <1>4 DEF PeekNoComparison
  <2>2. ReturnOK
    BY <1>0, <1>1, <1>3, <2>1, CallersFacts
  <2>3. QED
    BY <1>0, <1>1, <2>1, <2>2, NoLabelStep
<1>5. CASE PeekNoJump
  <2>1. NoLabel(1) /\ Return(Callers, at, curr - at + 2)
    BY <1>2, <1>5 DEF PeekNoJump
  <2>2. ReturnOK
    BY <1>0, <1>1, <1>3, <2>1, CallersFacts
  <2>3. QED
    BY <1>0, <1>1, <2>1, <2>2, NoLabelStep
<1>6. QED
  BY <1>4, <1>5

(* A label is made: with its case if it is the first, and it has a block if *)
(* it is the last of several values.                                        *)
Labelled(expect) ==
  /\ \A n \in Node : nodes'[n].label = IF n = cur THEN LabelId ELSE nodes[n].label
  /\ Len(nodes') = IF expect = "or" THEN LabelId ELSE LabelId + 1
  /\ nodes'[LabelId].kind = "label" /\ nodes'[LabelId].parent = LabelParent
  /\ nodes'[LabelId].expect = expect
  /\ Frame.prev = Null => nodes'[New].kind = "case" /\ nodes'[New].parent = cur
  /\ expect # "or" => nodes'[LabelId + 1].kind = "block" /\ nodes'[LabelId + 1].parent = LabelId
  /\ cur' = IF expect = "or" THEN cur ELSE LabelId + 1

LEMMA PeekLabelStep ==
  ASSUME BlockInv, PeekLabel
  PROVE  /\ phase = "parse" /\ cur \in Node /\ StepOK
         /\ frames # <<>> /\ \E f \in 1 .. Len(frames) : Frame = frames[f]
         /\ \E expect \in {"or", "next", "end", "otherwise"} : Labelled(expect)
<1>0. /\ TypeOK /\ AstIsTree /\ LinksInv /\ phase = "parse" /\ cur # Null /\ SearchOver
      /\ Len(nodes) \in Nat /\ New = Len(nodes) + 1 /\ cur \in Nat /\ cur <= Len(nodes)
      /\ tag \in [Index -> Tags]
  BY DEF BlockInv, TreeInv, PeekLabel, TypeOK, AstIsTree, New
<1>1. cur \in Node
  BY <1>0, CurIsNode
<1>2. /\ frames # <<>> /\ Frame.at \in Nat /\ Frame.curr \in Nat /\ Frame.curr > Frame.at + 1
      /\ Frame.prev \in Nat /\ \E f \in 1 .. Len(frames) : Frame = frames[f]
  BY <1>0, SearchFacts
<1>3. Frame.prev <= Len(nodes)
  BY <1>0, <1>2 DEF LinksInv
<1>4. PICK at, k, expect : /\ at = Frame.at /\ k = Frame.curr + 1
                           /\ expect = Expectation(k, At(Frame.curr).op = "nteq")
  OBVIOUS
<1>5. expect \in {"or", "next", "end", "otherwise"}
  BY <1>4 DEF Expectation
<1>6. k \in Index /\ NewLabel(k, expect) /\ Return(Callers, at, k - at + 1)
  <2>1. k < Size
    BY <1>4 DEF PeekLabel
  <2>2. k \in Nat /\ Size \in Nat
    BY <1>0, <1>2, <1>4, CodeFacts
  <2>3. NewLabel(k, expect) /\ Return(Callers, at, k - at + 1)
    BY <1>4 DEF PeekLabel
  <2>4. QED
    BY <2>1, <2>2, <2>3 DEF Index
<1>7. at + (k - at + 1) \in Nat
  BY <1>2, <1>4
<1>8. ReturnOK
  BY <1>0, <1>2, <1>6, <1>7, CallersFacts
<1>9. expect \in Expects
  BY <1>5 DEF Expects
<1>10. /\ TreeGrows /\ KeepsEnds /\ Labelled(expect) /\ stack' \in Seq(Nat) /\ tag' = tag
  <2>1. /\ TreeGrows /\ KeepsEnds
        /\ \A n \in Node : nodes'[n].label = IF n = cur THEN LabelId ELSE nodes[n].label
        /\ Len(nodes') = IF expect = "or" THEN LabelId ELSE LabelId + 1
        /\ nodes'[LabelId].kind = "label" /\ nodes'[LabelId].parent = LabelParent
        /\ nodes'[LabelId].expect = expect
        /\ Frame.prev = Null => nodes'[New].kind = "case" /\ nodes'[New].parent = cur
        /\ expect # "or" => nodes'[LabelId + 1].kind = "block" /\ nodes'[LabelId + 1].parent = LabelId
        /\ cur' = IF expect = "or" THEN cur ELSE LabelId + 1
        /\ stack' \in Seq(Nat) /\ tag' = tag
    BY <1>0, <1>1, <1>2, <1>3, <1>6, <1>9, LabelGrows
  <2>2. QED
    BY <2>1 DEF Labelled
<1>11. LabelId = New \/ (Frame.prev = Null /\ LabelId = New + 1)
  BY DEF LabelId
<1>12. NewIfs
  <2>1. \A s \in New .. Len(nodes') :
          s = LabelId \/ (expect # "or" /\ s = LabelId + 1) \/ (Frame.prev = Null /\ s = New)
    <3>1. CASE expect = "or"
      BY <1>0, <1>10, <1>11, <3>1 DEF Labelled
    <3>2. CASE expect # "or"
      BY <1>0, <1>10, <1>11, <3>2 DEF Labelled
    <3>3. QED
      BY <3>1, <3>2
  <2>2. \A s \in New .. Len(nodes') : nodes'[s].kind \in {"label", "block", "case"}
    BY <1>10, <2>1 DEF Labelled
  <2>3. QED
    BY <2>2 DEF NewIfs
<1>13. RootKept
  BY <1>0, <1>10 DEF BlockInv, RootInv, RootKept, KeepsEnds, Node, RootBlock
<1>14. KeepsTags
  BY <1>0, <1>10 DEF KeepsTags
<1>15. cur' \in Nat /\ cur' <= Len(nodes')
  <2>1. CASE expect = "or"
    BY <1>0, <1>10, <1>11, <2>1 DEF Labelled
  <2>2. CASE expect # "or"
    BY <1>0, <1>10, <1>11, <2>2 DEF Labelled
  <2>3. QED
    BY <2>1, <2>2
<1>16. StepOK
  BY <1>8, <1>10, <1>12, <1>13, <1>14, <1>15 DEF StepOK
<1>17. QED
  BY <1>0, <1>1, <1>2, <1>5, <1>10, <1>16

(* A kOpEndTell leaves the block, or the handler's own.                     *)
LEMMA EndTellStep ==
  ASSUME BlockInv, EndTell
  PROVE  phase = "parse" /\ StepOK
<1>0. /\ TypeOK /\ AstIsTree /\ LinksInv /\ phase = "parse" /\ cur # Null /\ stack \in Seq(Nat)
      /\ tag \in [Index -> Tags] /\ Len(nodes) \in Nat /\ cur \in Nat /\ cur <= Len(nodes)
  BY DEF BlockInv, TreeInv, EndTell, Translates, Calls, TypeOK, AstIsTree
<1>1. cur \in Node
  BY <1>0, CurIsNode
<1>2. cur' \in Nat /\ cur' < cur /\ nodes' = nodes
  BY <1>0, <1>1, EnclosingFacts DEF EndTell
<1>3. ReturnOK
  BY <1>0, ProceedFacts DEF EndTell
<1>4. KeepsTags /\ stack' \in Seq(Nat)
  BY <1>0 DEF KeepsTags, EndTell
<1>5. TreeGrows /\ NewIfs /\ RootKept
  BY <1>0, <1>2, SameTree DEF NewIfs, RootKept, New
<1>6. cur' <= Len(nodes')
  BY <1>0, <1>2
<1>7. QED
  BY <1>0, <1>2, <1>3, <1>4, <1>5, <1>6 DEF StepOK
-----------------------------------------------------------------------------
(***************************************************************************)
(* parse closes a block: the block around it is filled again, unless there  *)
(* is an else or an otherwise to fill first.                               *)
(***************************************************************************)
InCase(b) == AncestorStatement(b) # Null /\ nodes[AncestorStatement(b)].kind = "case"
Awaits(b, expect) ==
  /\ InCase(b) /\ Enclosing(b) # Null /\ nodes[Enclosing(b)].label # Null
  /\ nodes[nodes[Enclosing(b)].label].expect = expect

LabelForgotten(up) ==
  \A n \in Node : nodes'[n].label = IF n = up THEN Null ELSE nodes[n].label

Closed ==
  /\ cur' = Enclosing(cur) /\ ~Awaits(cur, "otherwise")
  /\ \/ Awaits(cur, "end") /\ LabelForgotten(Enclosing(cur))
     \/ ~Awaits(cur, "end") /\ KeepsLabels
ElseEntered ==
  \E s \in Node : /\ s = AncestorStatement(cur) /\ nodes[s].kind = "if"
                  /\ cur = nodes[s].block1 /\ cur' = nodes[s].block2
                  /\ nodes' = nodes
OtherwiseEntered ==
  /\ Awaits(cur, "otherwise") /\ LabelForgotten(Enclosing(cur))
  /\ cur' = New + 1 /\ Len(nodes') = New + 1
  /\ nodes'[New].kind = "otherwise" /\ nodes'[New].parent = AncestorStatement(cur)
  /\ nodes'[New + 1].kind = "block" /\ nodes'[New + 1].parent = New

LEMMA EnterOtherwiseStep ==
  ASSUME BlockInv, cur \in Node, Awaits(cur, "otherwise"),
         EnterOtherwise(AncestorStatement(cur), Enclosing(cur))
  PROVE  /\ TreeGrows /\ NewIfs /\ RootKept /\ cur' \in Nat /\ cur' <= Len(nodes')
         /\ OtherwiseEntered
<1>0. /\ TypeOK /\ AstIsTree /\ LinksInv /\ nodes \in Seq(NodeRecord) /\ Len(nodes) \in Nat
      /\ New = Len(nodes) + 1 /\ New \in Nat /\ cur \in Nat
  BY DEF BlockInv, TreeInv, TypeOK, New
<1>1. PICK s, up : s = AncestorStatement(cur) /\ up = Enclosing(cur)
  OBVIOUS
<1>2. s \in Node /\ up \in Node
  BY <1>0, <1>1, EnclosingFacts DEF Awaits, InCase
<1>3. PICK forgotten, other : forgotten = Null /\ other = New
  OBVIOUS
<1>4. PICK t1, t : t1 = [nodes EXCEPT ![up].label = forgotten] /\ t = [t1 EXCEPT ![s].otherwise = other]
  OBVIOUS
<1>5. PICK o, b : /\ o = [Blank EXCEPT !.kind = "otherwise", !.parent = s, !.block1 = New + 1]
                  /\ b = BlockOf(New, nodes[s].endPos)
  OBVIOUS
<1>6. PICK more : more = <<o, b>>
  OBVIOUS
<1>7. nodes' = t \o more /\ cur' = New + 1
  BY <1>1, <1>3, <1>4, <1>5, <1>6 DEF EnterOtherwise
<1>8. /\ t1 \in Seq(NodeRecord) /\ Len(t1) = Len(nodes)
      /\ \A n \in 1 .. Len(nodes) : /\ SameBut(nodes[n], t1[n]) /\ t1[n].endPos = nodes[n].endPos
                                    /\ t1[n].label = IF n = up THEN forgotten ELSE nodes[n].label
  <2>1. forgotten \in Nat
    BY <1>3 DEF Null
  <2>2. up \in 1 .. Len(nodes)
    BY <1>2 DEF Node
  <2>3. LabelledAs(t1, nodes, up, forgotten)
    BY <1>4 DEF LabelledAs
  <2>4. nodes \in Seq(NodeRecord)
    BY <1>0
  <2>5. QED
    <3>1. OnlyLabel(t1, nodes, up, forgotten)
      BY <2>1, <2>2, <2>3, <2>4, LabelSet
    <3>2. QED
      BY <1>0, <3>1 DEF OnlyLabel
<1>9. /\ t \in Seq(NodeRecord) /\ Len(t) = Len(t1)
      /\ \A n \in 1 .. Len(t1) : /\ SameBut(t1[n], t[n]) /\ t[n].endPos = t1[n].endPos
                                 /\ t[n].label = t1[n].label
  <2>1. other \in Nat
    BY <1>0, <1>3
  <2>2. s \in 1 .. Len(t1)
    BY <1>2, <1>8 DEF Node
  <2>3. OtherwiseAt(t, t1, s, other)
    BY <1>4 DEF OtherwiseAt
  <2>4. t1 \in Seq(NodeRecord)
    BY <1>8
  <2>5. QED
    <3>1. OnlyLinks(t, t1)
      BY <2>1, <2>2, <2>3, <2>4, OtherwiseSet
    <3>2. QED
      BY <3>1 DEF OnlyLinks
<1>10. Like(t)
  BY <1>8, <1>9 DEF Like, SameBut, Node
<1>11. \A n \in Node : /\ t[n].kids = nodes[n].kids /\ t[n].endPos = nodes[n].endPos
                       /\ t[n].label = IF n = up THEN Null ELSE nodes[n].label
  BY <1>3, <1>8, <1>9 DEF SameBut, Node
<1>12. nodes[s] \in NodeRecord /\ s \in Nat /\ s < New
  BY <1>0, <1>2 DEF Node
<1>13. /\ b \in NodeRecord /\ b.kind = "block" /\ b.parent = New
       /\ b.kids = <<>> /\ b.label = Null /\ b.block2 = Null
  <2>1. nodes[s].endPos \in Int
    BY <1>12 DEF NodeRecord
  <2>2. QED
    BY <1>0, <1>5, <2>1, BlockFacts
<1>14. /\ o \in NodeRecord /\ o.kind = "otherwise" /\ o.parent = s
       /\ o.kids = <<>> /\ o.label = Null /\ o.block2 = Null
  <2>1. Blank.kids = <<>> /\ Blank.label = Null /\ Blank.block2 = Null
    BY DEF Blank
  <2>2. "otherwise" \in Kinds
    BY DEF Kinds
  <2>3. New + 1 \in Nat
    BY <1>0
  <2>4. QED
    BY <1>5, <1>12, <2>1, <2>2, <2>3, BlankFacts DEF NodeRecord
<1>15. more \in Seq(NodeRecord) /\ Len(more) = 2 /\ more[1] = o /\ more[2] = b
  BY <1>6, <1>13, <1>14
<1>16. ASSUME NEW k \in 1 .. Len(more)
       PROVE  /\ more[k].parent < Len(nodes) + k /\ more[k].kids = <<>>
              /\ more[k].block2 <= Len(nodes) + Len(more) /\ more[k].label = Null
  <2>1. k = 1 \/ k = 2
    BY <1>15
  <2>2. CASE k = 1
    BY <1>0, <1>12, <1>14, <1>15, <2>2 DEF Null
  <2>3. CASE k = 2
    BY <1>0, <1>13, <1>15, <2>3 DEF Null
  <2>4. QED
    BY <2>1, <2>2, <2>3
<1>17. ASSUME NEW n \in Node
       PROVE  t[n].label <= Len(nodes) + Len(more)
  <2>1. nodes[n].label <= Len(nodes) /\ nodes[n] \in NodeRecord
    BY <1>0 DEF LinksInv, Node
  <2>2. nodes[n].label \in Nat
    BY <2>1 DEF NodeRecord
  <2>3. t[n].label = Null \/ t[n].label = nodes[n].label
    BY <1>11
  <2>4. QED
    BY <1>0, <1>15, <2>1, <2>2, <2>3 DEF Null
<1>18. /\ TreeGrows /\ Len(nodes') = Len(nodes) + Len(more)
       /\ \A n \in Node : nodes'[n] = t[n]
       /\ \A k \in 1 .. Len(more) : nodes'[Len(nodes) + k] = more[k]
  BY <1>0, <1>7, <1>10, <1>11, <1>15, <1>16, <1>17, LikeGrows
<1>19. nodes'[New] = o /\ nodes'[New + 1] = b /\ Len(nodes') = New + 1
  <2>1. 1 \in 1 .. Len(more) /\ 2 \in 1 .. Len(more) /\ New = Len(nodes) + 1 /\ New + 1 = Len(nodes) + 2
    BY <1>0, <1>15
  <2>2. nodes'[Len(nodes) + 1] = more[1] /\ nodes'[Len(nodes) + 2] = more[2]
    BY <1>18, <2>1
  <2>3. QED
    BY <1>0, <1>15, <1>18, <2>1, <2>2
<1>20. NewIfs
  <2>1. \A n \in New .. Len(nodes') : n = New \/ n = New + 1
    BY <1>0, <1>19
  <2>2. QED
    BY <1>13, <1>14, <1>19, <2>1 DEF NewIfs
<1>21. RootKept
  BY <1>0, <1>11, <1>18 DEF BlockInv, RootInv, RootKept, Node, RootBlock
<1>22. LabelForgotten(Enclosing(cur))
  BY <1>1, <1>11, <1>18 DEF LabelForgotten
<1>23. OtherwiseEntered
  BY <1>1, <1>7, <1>13, <1>14, <1>19, <1>22 DEF OtherwiseEntered
<1>24. cur' \in Nat /\ cur' <= Len(nodes')
  BY <1>0, <1>7, <1>19
<1>25. QED
  BY <1>18, <1>20, <1>21, <1>23, <1>24

LEMMA ForgetLabelStep ==
  ASSUME BlockInv, cur \in Node, Awaits(cur, "end"), ForgetLabel(Enclosing(cur))
  PROVE  /\ TreeGrows /\ NewIfs /\ RootKept /\ cur' \in Nat /\ cur' <= Len(nodes')
         /\ cur' = Enclosing(cur) /\ LabelForgotten(Enclosing(cur))
<1>0. /\ TypeOK /\ AstIsTree /\ LinksInv /\ nodes \in Seq(NodeRecord) /\ Len(nodes) \in Nat
      /\ cur \in Nat
  BY DEF BlockInv, TreeInv, TypeOK
<1>1. PICK up, forgotten, t : /\ up = Enclosing(cur) /\ forgotten = Null
                              /\ t = [nodes EXCEPT ![up].label = forgotten]
  OBVIOUS
<1>2. up \in Node
  BY <1>0, <1>1, EnclosingFacts DEF Awaits
<1>3. nodes' = t /\ cur' = up
  BY <1>1 DEF ForgetLabel
<1>4. /\ t \in Seq(NodeRecord) /\ Len(t) = Len(nodes)
      /\ \A n \in 1 .. Len(nodes) : /\ SameBut(nodes[n], t[n]) /\ t[n].endPos = nodes[n].endPos
                                    /\ t[n].label = IF n = up THEN forgotten ELSE nodes[n].label
  <2>1. forgotten \in Nat
    BY <1>1 DEF Null
  <2>2. up \in 1 .. Len(nodes)
    BY <1>2 DEF Node
  <2>3. LabelledAs(t, nodes, up, forgotten)
    BY <1>1 DEF LabelledAs
  <2>4. nodes \in Seq(NodeRecord)
    BY <1>0
  <2>5. QED
    <3>1. OnlyLabel(t, nodes, up, forgotten)
      BY <2>1, <2>2, <2>3, <2>4, LabelSet
    <3>2. QED
      BY <3>1 DEF OnlyLabel
<1>5. Like(t) /\ \A n \in Node : t[n].kids = nodes[n].kids
  BY <1>4 DEF Like, SameBut, Node
<1>6. ASSUME NEW n \in Node
      PROVE  t[n].label <= Len(nodes)
  <2>1. nodes[n].label <= Len(nodes)
    BY <1>0 DEF LinksInv
  <2>2. t[n].label = Null \/ t[n].label = nodes[n].label
    BY <1>1, <1>4 DEF Node
  <2>3. QED
    BY <1>0, <2>1, <2>2 DEF Null
<1>7. TreeGrows /\ NewIfs /\ Len(nodes') = Len(nodes)
  BY <1>0, <1>3, <1>5, <1>6, AlteredGrows
<1>8. RootKept
  BY <1>0, <1>3, <1>4 DEF BlockInv, RootInv, RootKept, Node, RootBlock
<1>9. LabelForgotten(Enclosing(cur))
  BY <1>1, <1>3, <1>4 DEF LabelForgotten, Node
<1>10. cur' \in Nat /\ cur' <= Len(nodes')
  BY <1>0, <1>2, <1>3, <1>7 DEF Node
<1>11. QED
  BY <1>1, <1>3, <1>7, <1>8, <1>9, <1>10

LEMMA CloseBlockStep ==
  ASSUME BlockInv, CloseBlock
  PROVE  /\ phase = "parse" /\ frames = <<>> /\ frames' = <<>> /\ cur \in Node /\ BlockEndsHere /\ i \in Index
         /\ StepOK
         /\ Closed \/ ElseEntered \/ OtherwiseEntered
<1>0. /\ TypeOK /\ AstIsTree /\ LinksInv /\ stack \in Seq(Nat) /\ Size \in Nat /\ i \in Nat
      /\ tag \in [Index -> Tags] /\ Len(nodes) \in Nat /\ cur \in Nat
      /\ phase = "parse" /\ frames = <<>> /\ i < Size /\ BlockEndsHere /\ cur # Null
  BY CodeFacts DEF BlockInv, TreeInv, TypeOK, CloseBlock, AtTop, BlockEndsHere
<1>1. cur \in Node /\ i \in Index
  BY <1>0, CurIsNode DEF Index
<1>2. ReturnOK /\ KeepsTags /\ stack' \in Seq(Nat) /\ frames' = <<>>
  <2>1. /\ code' = code /\ phase' = phase /\ owner' = owner /\ i' = i /\ frames' = frames
        /\ tag' = tag /\ stack' = stack
    BY DEF CloseBlock
  <2>2. frames' \in Seq(FrameRecord) /\ i' \in Nat
    BY <2>1 DEF BlockInv, TreeInv, TypeOK
  <2>3. QED
    BY <1>0, <2>1, <2>2 DEF ReturnOK, KeepsTags
<1>3. PICK s, up : s = AncestorStatement(cur) /\ up = Enclosing(cur)
  OBVIOUS
<1>4. /\ s # Null => s \in Node
      /\ up \in Nat /\ up < cur
  BY <1>0, <1>1, <1>3, EnclosingFacts
<1>5. \/ s # Null /\ nodes[s].kind = "if" /\ EndsThen(s) /\ EnterElse(s)
      \/ Awaits(cur, "otherwise") /\ EnterOtherwise(s, up)
      \/ Awaits(cur, "end") /\ ~Awaits(cur, "otherwise") /\ ForgetLabel(up)
      \/ ~Awaits(cur, "end") /\ ~Awaits(cur, "otherwise") /\ cur' = up /\ UNCHANGED nodes
  BY <1>3, Zenon DEF CloseBlock, Awaits, InCase
<1>6. CASE s # Null /\ nodes[s].kind = "if" /\ EndsThen(s) /\ EnterElse(s)
  <2>1. s \in Node /\ cur = nodes[s].block1 /\ cur' = nodes[s].block2 /\ nodes' = nodes
    BY <1>4, <1>6 DEF EndsThen, EnterElse
  <2>2. HasBlocks(nodes, s)
    BY <1>6, <2>1 DEF BlockInv, IfInv
  <2>3. TreeGrows /\ NewIfs /\ RootKept
    BY <1>0, <2>1, SameTree DEF NewIfs, RootKept, New
  <2>4. cur' \in Nat /\ cur' <= Len(nodes')
    BY <1>0, <2>1, <2>2 DEF HasBlocks
  <2>5. ElseEntered
    BY <1>3, <1>6, <2>1 DEF ElseEntered
  <2>6. QED
    BY <1>0, <1>1, <1>2, <2>3, <2>4, <2>5 DEF StepOK
<1>7. CASE Awaits(cur, "otherwise") /\ EnterOtherwise(s, up)
  <2>1. /\ TreeGrows /\ NewIfs /\ RootKept /\ cur' \in Nat /\ cur' <= Len(nodes')
        /\ OtherwiseEntered
    BY <1>1, <1>3, <1>7, EnterOtherwiseStep
  <2>2. QED
    BY <1>0, <1>1, <1>2, <2>1 DEF StepOK
<1>8. CASE Awaits(cur, "end") /\ ~Awaits(cur, "otherwise") /\ ForgetLabel(up)
  <2>1. /\ TreeGrows /\ NewIfs /\ RootKept /\ cur' \in Nat /\ cur' <= Len(nodes')
        /\ cur' = Enclosing(cur) /\ LabelForgotten(Enclosing(cur))
    BY <1>1, <1>3, <1>8, ForgetLabelStep
  <2>2. Closed
    BY <1>8, <2>1 DEF Closed
  <2>3. QED
    BY <1>0, <1>1, <1>2, <2>1, <2>2 DEF StepOK
<1>9. CASE ~Awaits(cur, "end") /\ ~Awaits(cur, "otherwise") /\ cur' = up /\ UNCHANGED nodes
  <2>1. TreeGrows /\ NewIfs /\ RootKept /\ KeepsLabels
    BY <1>0, <1>9, SameTree DEF NewIfs, RootKept, New, KeepsLabels
  <2>2. cur' \in Nat /\ cur' <= Len(nodes')
    BY <1>0, <1>1, <1>4, <1>9 DEF Node
  <2>3. Closed
    BY <1>3, <1>9, <2>1 DEF Closed
  <2>4. QED
    BY <1>0, <1>1, <1>2, <2>1, <2>2, <2>3 DEF StepOK
<1>10. QED
  BY <1>5, <1>6, <1>7, <1>8, <1>9

(* kOpPeek remembers the label of the block it is met in.                   *)
LEMMA PeekStep ==
  ASSUME BlockInv, Peek
  PROVE  /\ BlockInv' /\ phase = "parse" /\ cur \in Node
         /\ nodes' = nodes /\ cur' = cur /\ code' = code
         /\ \A f \in 1 .. Len(frames') :
              \/ frames'[f].prev = nodes[cur].label
              \/ \E g \in 1 .. Len(frames) : frames'[f].prev = frames[g].prev
<1>0. /\ TypeOK /\ AstIsTree /\ LinksInv /\ TagInv /\ code \in Codes /\ phase = "parse" /\ cur # Null
      /\ nodes \in Seq(NodeRecord) /\ frames \in Seq(FrameRecord) /\ stack \in Seq(Nat)
  BY DEF BlockInv, TreeInv, TypeOK, Peek, Translates, Calls
<1>1. cur \in Node /\ Ip \in Nat
  BY <1>0, CurIsNode, CallFacts
<1>2. PICK frame : frame = [at |-> Ip, curr |-> Ip + 1, base |-> Len(stack), prev |-> nodes[cur].label]
  OBVIOUS
<1>3. frames' = Append(frames, frame) /\ UNCHANGED <<code, phase, tag, owner, i, stack, nodes, cur>>
  BY <1>2 DEF Peek
<1>4. nodes[cur].label \in Nat /\ nodes[cur].label <= Len(nodes)
  <2>1. nodes[cur] \in NodeRecord
    BY <1>0, <1>1 DEF Node
  <2>2. QED
    BY <1>0, <1>1, <2>1 DEF NodeRecord, LinksInv
<1>5. frame \in FrameRecord /\ frame.prev = nodes[cur].label
  BY <1>0, <1>1, <1>2, <1>4 DEF FrameRecord
<1>6. /\ frames' \in Seq(FrameRecord)
      /\ \A f \in 1 .. Len(frames') : frames'[f] = frame \/ (f \in 1 .. Len(frames) /\ frames'[f] = frames[f])
  BY <1>0, <1>3, <1>5
<1>7. TypeOK'
  BY <1>0, <1>3, <1>6 DEF TypeOK, Index, Size
<1>8. \A f \in 1 .. Len(frames') :
        \/ frames'[f].prev = nodes[cur].label
        \/ \E g \in 1 .. Len(frames) : frames'[f].prev = frames[g].prev
  BY <1>5, <1>6
<1>9. LinksInv'
  <2>1. \A f \in 1 .. Len(frames') : frames'[f].prev <= Len(nodes)
    BY <1>0, <1>4, <1>8 DEF LinksInv
  <2>2. \A n \in Node : nodes[n].block2 <= Len(nodes) /\ nodes[n].label <= Len(nodes)
    BY <1>0 DEF LinksInv
  <2>3. nodes' = nodes
    BY <1>3
  <2>4. QED
    BY <2>1, <2>2, <2>3 DEF LinksInv, Node
<1>10. AstIsTree'
  BY <1>0, <1>3 DEF AstIsTree, ParentsAreOlder, ChildrenKnowTheirBlock, Node
<1>11. TagInv'
  <2>1. KeepsTags
    BY <1>0, <1>3 DEF KeepsTags, TypeOK
  <2>2. QED
    BY <1>0, <1>3, <2>1, TagsStay
<1>12. RootInv' /\ IfInv'
  BY <1>3 DEF BlockInv, RootInv, IfInv, HasBlocks, Node
<1>13. QED
  BY <1>0, <1>1, <1>3, <1>7, <1>8, <1>9, <1>10, <1>11, <1>12 DEF BlockInv, TreeInv
-----------------------------------------------------------------------------
(***************************************************************************)
(* The tagging of loops, and the steps that change nothing of the tree.    *)
(***************************************************************************)
LEMMA TagLoopStep ==
  ASSUME BlockInv, TagLoop
  PROVE  BlockInv'
<1>0. /\ TypeOK /\ AstIsTree /\ LinksInv /\ TagInv /\ code \in Codes
      /\ i \in Nat /\ i < Size /\ Size \in Nat /\ i \in Index /\ Index \subseteq Int
      /\ tag \in [Index -> Tags] /\ owner \in [Index -> Int]
  BY CodeFacts DEF BlockInv, TreeInv, TypeOK, TagLoop, Index
<1>1. UNCHANGED <<code, phase, frames, stack, nodes, cur>> /\ i' = i + 1
  BY DEF TagLoop
<1>2. Index' = Index
  BY <1>1 DEF Index, Size
<1>3. PICK e : /\ e = IndexAt(JumpPos(i)) /\ e # 0
               /\ \/ UNCHANGED <<tag, owner>>
                  \/ \E kind \in {IdentifyLoop(i, e)} :
                       /\ tag' = [k \in Index |->
                                    IF k = NextTarget(kind, e) THEN "nexttarget"
                                    ELSE IF k \in Skipped(kind, i, e) THEN "skip"
                                    ELSE IF k = i THEN kind
                                    ELSE tag[k]]
                       /\ owner' = [k \in Index |-> IF k \in {NextTarget(kind, e), e - 1} THEN i ELSE owner[k]]
  BY DEF TagLoop
<1>4. CASE UNCHANGED <<tag, owner>>
  <2>1. KeepsTags
    BY <1>0, <1>4 DEF KeepsTags
  <2>2. TagInv'
    BY <1>0, <1>1, <2>1, TagsStay
  <2>3. TypeOK'
    BY <1>0, <1>1, <1>2, <1>4 DEF TypeOK
  <2>4. LinksInv' /\ AstIsTree' /\ RootInv' /\ IfInv'
    BY <1>0, <1>1 DEF BlockInv, LinksInv, AstIsTree, ParentsAreOlder, ChildrenKnowTheirBlock,
                      RootInv, IfInv, HasBlocks, Node
  <2>5. QED
    BY <1>0, <1>1, <2>2, <2>3, <2>4 DEF BlockInv, TreeInv
<1>5. CASE \E kind \in {IdentifyLoop(i, e)} :
             /\ tag' = [k \in Index |->
                          IF k = NextTarget(kind, e) THEN "nexttarget"
                          ELSE IF k \in Skipped(kind, i, e) THEN "skip"
                          ELSE IF k = i THEN kind
                          ELSE tag[k]]
             /\ owner' = [k \in Index |-> IF k \in {NextTarget(kind, e), e - 1} THEN i ELSE owner[k]]
  <2>1. PICK kind : /\ kind = IdentifyLoop(i, e)
                    /\ tag' = [k \in Index |->
                                 IF k = NextTarget(kind, e) THEN "nexttarget"
                                 ELSE IF k \in Skipped(kind, i, e) THEN "skip"
                                 ELSE IF k = i THEN kind
                                 ELSE tag[k]]
                    /\ owner' = [k \in Index |-> IF k \in {NextTarget(kind, e), e - 1} THEN i ELSE owner[k]]
    BY <1>5
  <2>2. kind \in {"in", "to", "downto", "while"}
    BY <2>1 DEF IdentifyLoop
  <2>3. {"in", "to", "downto", "while", "nexttarget", "skip"} \subseteq Tags
    BY DEF Tags
  <2>4. tag' \in [Index -> Tags]
    BY <1>0, <2>1, <2>2, <2>3
  <2>5. owner' \in [Index -> Int]
    BY <1>0, <2>1
  <2>6. kind = "in" => i + 5 \in Index
    <3>1. kind = "in" => IsRepeatWithIn(i, e)
      BY <2>1 DEF IdentifyLoop
    <3>2. kind = "in" => i <= Size - 6
      BY <3>1 DEF IsRepeatWithIn
    <3>3. QED
      BY <1>0, <3>2 DEF Index
  <2>7. kind \in {"to", "downto"} => IndexAt(LoopBackPos(e - 1)) - 1 \in Index
    <3>1. kind \in {"to", "downto"} => \E step : CountsBy(step, i, e)
      BY <2>1 DEF IdentifyLoop
    <3>2. kind \in {"to", "downto"} => IndexAt(LoopBackPos(e - 1)) >= 1
      BY <3>1 DEF CountsBy
    <3>3. PICK c : c = IndexAt(LoopBackPos(e - 1))
      OBVIOUS
    <3>4. c \in Nat /\ (c # 0 => c \in Index)
      BY <1>0, <3>3, CodeFacts
    <3>5. c >= 1 => c - 1 \in Index
      BY <1>0, <3>4 DEF Index
    <3>6. QED
      BY <3>2, <3>3, <3>5
  <2>8. \A k \in Index : tag'[k] \in {"in", "to", "downto"} => tag'[k] = tag[k] \/ (k = i /\ tag'[k] = kind)
    BY <2>1
  <2>9. ASSUME NEW k \in Index
        PROVE  /\ tag'[k] = "in" => k + 5 \in Index
               /\ tag'[k] \in {"to", "downto"} => IndexAt(LoopBackPos(IndexAt(JumpPos(k)) - 1)) - 1 \in Index
    <3>1. CASE tag'[k] = tag[k]
      BY <1>0, <3>1 DEF TagInv
    <3>2. CASE k = i /\ tag'[k] = kind
      BY <1>3, <2>6, <2>7, <3>2
    <3>3. CASE tag'[k] \notin {"in", "to", "downto"}
      BY <3>3
    <3>4. QED
      BY <2>8, <3>1, <3>2, <3>3
  <2>10. \A k \in Index : IndexAt(LoopBackPos(IndexAt(JumpPos(k)) - 1))' = IndexAt(LoopBackPos(IndexAt(JumpPos(k)) - 1))
    BY <1>1, <1>2 DEF JumpPos, LoopBackPos, IndexAt, At
  <2>11. TagInv'
    BY <1>2, <2>9, <2>10 DEF TagInv
  <2>12. TypeOK'
    <3>1. tag' \in [Index' -> Tags] /\ owner' \in [Index' -> Int] /\ i' \in Nat
      BY <1>0, <1>1, <1>2, <2>4, <2>5
    <3>2. /\ code' \in Seq(Bytecode) /\ phase' \in {"tag", "parse", "done", "crashed"}
          /\ frames' \in Seq(FrameRecord) /\ stack' \in Seq(Nat) /\ nodes' \in Seq(NodeRecord) /\ cur' \in Nat
      BY <1>0, <1>1 DEF TypeOK
    <3>3. QED
      BY <3>1, <3>2 DEF TypeOK
  <2>13. LinksInv' /\ AstIsTree' /\ RootInv' /\ IfInv'
    BY <1>0, <1>1 DEF BlockInv, LinksInv, AstIsTree, ParentsAreOlder, ChildrenKnowTheirBlock,
                      RootInv, IfInv, HasBlocks, Node
  <2>14. QED
    BY <1>0, <1>1, <2>11, <2>12, <2>13 DEF BlockInv, TreeInv
<1>6. QED
  BY <1>3, <1>4, <1>5

LEMMA OtherSteps ==
  ASSUME BlockInv, TagOther \/ StartParse \/ Finish \/ Crash \/ Ended \/ UNCHANGED vars
  PROVE  BlockInv' /\ UNCHANGED <<code, frames, nodes, cur>>
<1>0. TypeOK /\ AstIsTree /\ LinksInv /\ TagInv /\ code \in Codes /\ tag \in [Index -> Tags]
  BY DEF BlockInv, TreeInv, TypeOK
<1>1. UNCHANGED <<code, tag, owner, frames, stack, nodes, cur>>
  BY DEF TagOther, StartParse, Finish, Crash, Ended, vars
<1>2. i' \in Nat
  BY <1>0 DEF TypeOK, TagOther, StartParse, Finish, Crash, Ended, vars
<1>3. phase' \in {"tag", "parse", "done", "crashed"}
  BY <1>0 DEF TypeOK, TagOther, StartParse, Finish, Crash, Ended, vars
<1>4. KeepsTags
  BY <1>0, <1>1 DEF KeepsTags
<1>5. TagInv'
  BY <1>0, <1>1, <1>4, TagsStay
<1>6. TypeOK'
  BY <1>0, <1>1, <1>2, <1>3 DEF TypeOK, Index, Size
<1>7. LinksInv' /\ AstIsTree' /\ RootInv' /\ IfInv'
  BY <1>0, <1>1 DEF BlockInv, LinksInv, AstIsTree, ParentsAreOlder, ChildrenKnowTheirBlock,
                    RootInv, IfInv, HasBlocks, Node
<1>8. QED
  BY <1>0, <1>1, <1>5, <1>6, <1>7 DEF BlockInv, TreeInv

LEMMA BlockInvInit ==
  ASSUME Init
  PROVE  BlockInv
<1>0. PICK blank : blank = Blank
  OBVIOUS
<1>1. blank \in NodeRecord /\ blank.kind = "block" /\ blank.parent = Null /\ blank.kids = <<>>
      /\ blank.block2 = Null /\ blank.label = Null /\ blank.endPos = NoPos
  BY <1>0, BlankFacts DEF Blank
<1>2. nodes = <<blank>> /\ cur = 1 /\ code \in Codes /\ frames = <<>> /\ stack = <<>> /\ i = 0 /\ phase = "tag"
      /\ tag = [k \in Index |-> "none"] /\ owner = [k \in Index |-> NoOwner]
  BY <1>0 DEF Init, Begin, RootBlock
<1>3. nodes \in Seq(NodeRecord) /\ Len(nodes) = 1 /\ nodes[1] = blank
  BY <1>1, <1>2
<1>4. frames \in Seq(FrameRecord) /\ Len(frames) = 0 /\ stack \in Seq(Nat)
  BY <1>2
<1>5. code \in Seq(Bytecode)
  BY <1>2, CodesAssumption
<1>6. tag \in [Index -> Tags] /\ owner \in [Index -> Int] /\ \A k \in Index : tag[k] = "none"
  BY <1>2 DEF Tags, NoOwner
<1>7. TypeOK
  BY <1>2, <1>3, <1>4, <1>5, <1>6 DEF TypeOK
<1>8. Node = {1}
  BY <1>3 DEF Node
<1>9. AstIsTree
  BY <1>1, <1>2, <1>3, <1>8 DEF AstIsTree, ParentsAreOlder, ChildrenKnowTheirBlock, Null
<1>10. LinksInv
  BY <1>1, <1>3, <1>4, <1>8 DEF LinksInv, Null
<1>11. TagInv
  BY <1>6 DEF TagInv
<1>12. RootInv /\ IfInv
  BY <1>1, <1>3, <1>8 DEF RootInv, RootBlock, IfInv
<1>13. QED
  BY <1>2, <1>7, <1>9, <1>10, <1>11, <1>12 DEF BlockInv, TreeInv

LEMMA BlockInvNext ==
  ASSUME BlockInv, [Next]_vars
  PROVE  BlockInv'
<1>1. CASE TagLoop
  BY <1>1, TagLoopStep
<1>2. CASE TagOther \/ StartParse \/ Finish \/ Crash \/ Ended \/ UNCHANGED vars
  BY <1>2, OtherSteps
<1>3. CASE CloseBlock
  BY <1>3, CloseBlockStep, StepKeepsInv
<1>4. CASE SkipTagged \/ Leaf \/ Unary \/ Binary \/ ArgList \/ Assign \/ StrayEnd
             \/ Call \/ Exit \/ Swap \/ Unknown \/ Pop
  BY <1>4, SimpleStep, StepKeepsInv
<1>5. CASE StartTell
  BY <1>5, StartTellStep, StepKeepsInv
<1>6. CASE EndTell
  BY <1>6, EndTellStep, StepKeepsInv
<1>7. CASE JmpIfZ
  BY <1>7, JmpIfZStep, StepKeepsInv
<1>8. CASE Jmp
  BY <1>8, JmpStep, StepKeepsInv
<1>9. CASE Peek
  BY <1>9, PeekStep
<1>10. CASE PeekNoComparison \/ PeekNoJump
  BY <1>10, SearchFailsStep, StepKeepsInv
<1>11. CASE PeekLabel
  BY <1>11, PeekLabelStep, StepKeepsInv
<1>12. QED
  BY <1>1, <1>2, <1>3, <1>4, <1>5, <1>6, <1>7, <1>8, <1>9, <1>10, <1>11, Zenon DEF Next, Tagging, Translate
-----------------------------------------------------------------------------
(* The invariant holds throughout, whatever the bytecode.                   *)
LEMMA BlockInvHolds == Spec => []BlockInv
<1>1. Init => BlockInv
  BY BlockInvInit
<1>2. BlockInv /\ [Next]_vars => BlockInv'
  BY BlockInvNext
<1>3. QED
  BY <1>1, <1>2, PTL DEF Spec

(* The state of Handler::parse keeps its types: every instruction that a    *)
(* tag or a jump leads translateBytecode to read is in the bytecode array,  *)
(* every operand it pops and every link it follows is a node or none.       *)
THEOREM TypeCorrect == Spec => []TypeOK
<1>1. BlockInv => TypeOK
  BY DEF BlockInv, TreeInv
<1>2. QED
  BY <1>1, BlockInvHolds, PTL

(* The nodes form a tree, so the walks of ancestorStatement and             *)
(* ancestorLoop end; what addStatement put into a block has it as parent.   *)
THEOREM TreeHolds == Spec => []AstIsTree
<1>1. BlockInv => AstIsTree
  BY DEF BlockInv, TreeInv
<1>2. QED
  BY <1>1, BlockInvHolds, PTL
-----------------------------------------------------------------------------
(***************************************************************************)
(* The blocks of a handler nest: without a kOpEndTell no bytecode makes     *)
(* exitBlock leave the handler's own block, so that addStatement always has *)
(* a block to add to.                                                      *)
(*                                                                         *)
(* The argument is about the blocks that can still be filled: the current   *)
(* one, the one around each of them, and the one around the case statement  *)
(* whose label a kOpPeek has remembered.                                   *)
(***************************************************************************)
NoEndTell == \A k \in Index : At(k).op # "endtell"

(* A label that is followed by another one of its case.                     *)
Continues(l) == nodes[l].expect \in {"or", "next"}

(* The last label made in a block, if the block is still to see another.    *)
Fine(b) == nodes[b].label # Null => Continues(nodes[b].label)
Continuing(l, R) ==
  /\ l \in Node /\ nodes[l].kind = "label" /\ Continues(l)
  /\ InCase(l) /\ Enclosing(l) \in R

(* A block that can be filled is one of the handler's own or lies in such a *)
(* block; the label that was made last in it belongs to a case around       *)
(* which there is such a block, not below it.                               *)
LabelOK(b, R) ==
  \/ nodes[b].label = Null
  \/ nodes[b].label \in Node /\ nodes[nodes[b].label].expect \in {"end", "otherwise"}
  \/ Continuing(nodes[b].label, R) /\ Enclosing(nodes[b].label) <= b
Nested(b, R) ==
  b # RootBlock => Enclosing(b) \in R /\ (Fine(Enclosing(b)) \/ InCase(b))

(* While the then of an if can be filled, its else is untouched.            *)
ElsesWait(R) ==
  \A s \in Node : nodes[s].kind = "if" /\ nodes[s].block1 \in R =>
    nodes[s].block2 \notin R /\ nodes[nodes[s].block2].label = Null

FramesOK(R) == \A f \in 1 .. Len(frames) : frames[f].prev # Null => Continuing(frames[f].prev, R)

ReachInv(R) ==
  /\ R \subseteq 1 .. cur /\ cur \in R /\ Fine(cur)
  /\ \A b \in R : nodes[b].kind = "block" /\ LabelOK(b, R) /\ Nested(b, R)
  /\ FramesOK(R) /\ ElsesWait(R)

FilledInv == NoEndTell => \E R \in SUBSET Nat : ReachInv(R)
-----------------------------------------------------------------------------
(* What a growing tree leaves as it is.                                     *)
LEMMA TypeFacts ==
  ASSUME BlockInv
  PROVE  /\ TypeOK /\ AstIsTree /\ LinksInv
         /\ nodes \in Seq(NodeRecord) /\ Len(nodes) \in Nat /\ New = Len(nodes) + 1
         /\ cur \in Nat /\ cur <= Len(nodes)
         /\ \A n \in Node : /\ nodes[n] \in NodeRecord
                            /\ nodes[n].parent \in Nat /\ nodes[n].parent < n
                            /\ nodes[n].label \in Nat /\ nodes[n].label <= Len(nodes)
                            /\ nodes[n].label # Null => nodes[n].label \in Node
<1>1. /\ TypeOK /\ AstIsTree /\ LinksInv
      /\ nodes \in Seq(NodeRecord) /\ Len(nodes) \in Nat /\ New = Len(nodes) + 1
      /\ cur \in Nat /\ cur <= Len(nodes)
  BY DEF BlockInv, TreeInv, TypeOK, AstIsTree, New
<1>2. ASSUME NEW n \in Node
      PROVE  /\ nodes[n] \in NodeRecord
             /\ nodes[n].parent \in Nat /\ nodes[n].parent < n
             /\ nodes[n].label \in Nat /\ nodes[n].label <= Len(nodes)
  <2>1. nodes[n] \in NodeRecord
    BY <1>1 DEF Node
  <2>2. nodes[n].parent \in Nat /\ nodes[n].label \in Nat
    BY <2>1 DEF NodeRecord
  <2>3. nodes[n].parent < n /\ nodes[n].label <= Len(nodes)
    BY <1>1 DEF AstIsTree, ParentsAreOlder, LinksInv
  <2>4. QED
    BY <2>1, <2>2, <2>3
<1>3. \A n \in Node : nodes[n].label # Null => nodes[n].label \in Node
  BY <1>1, <1>2 DEF Node, Null
<1>4. QED
  BY <1>1, <1>2, <1>3

LEMMA Unmoved ==
  ASSUME BlockInv, TreeGrows, NEW n \in Node
  PROVE  /\ n \in Node' /\ nodes'[n].kind = nodes[n].kind /\ nodes'[n].parent = nodes[n].parent
         /\ nodes'[n].expect = nodes[n].expect
         /\ AncestorStatement(n)' = AncestorStatement(n)
         /\ Enclosing(n)' = Enclosing(n)
         /\ InCase(n)' <=> InCase(n)
<1>0. /\ TypeOK /\ AstIsTree /\ LinksInv /\ nodes \in Seq(NodeRecord) /\ Len(nodes) \in Nat
      /\ \A k \in Node : nodes[k].parent \in Nat /\ nodes[k].parent < k
  BY TypeFacts
<1>1. /\ nodes' \in Seq(NodeRecord) /\ Len(nodes') \in Nat /\ Len(nodes) <= Len(nodes')
      /\ \A k \in Node : nodes'[k].kind = nodes[k].kind /\ nodes'[k].parent = nodes[k].parent
                         /\ nodes'[k].expect = nodes[k].expect
  BY DEF TreeGrows, Keeps
<1>2. n \in Node' /\ n \in Nat
  BY <1>0, <1>1 DEF Node
<1>3. \A k \in 1 .. Len(nodes') : nodes'[k].parent \in Nat /\ nodes'[k].parent < k
  <2>1. ParentsAreOlder'
    BY <1>0, TreeStep
  <2>2. ASSUME NEW k \in 1 .. Len(nodes')
        PROVE  nodes'[k].parent \in Nat
    <3>1. nodes'[k] \in NodeRecord
      BY <1>1
    <3>2. QED
      BY <3>1 DEF NodeRecord
  <2>3. QED
    BY <2>1, <2>2 DEF ParentsAreOlder, Node
<1>4. PICK old, new, a : old = nodes /\ new = nodes' /\ a = nodes[n].parent
  OBVIOUS
<1>5. IsTree(old) /\ IsTree(new) /\ Len(old) <= Len(new)
  BY <1>0, <1>1, <1>3, <1>4 DEF IsTree, Node
<1>6. \A k \in 1 .. Len(old) : new[k].kind = old[k].kind /\ new[k].parent = old[k].parent
  BY <1>1, <1>4 DEF Node
<1>7. a \in 0 .. Len(old)
  BY <1>0, <1>4 DEF Node
<1>8. NearestFrom(new, StatementKinds)[a] = NearestFrom(old, StatementKinds)[a]
  BY <1>5, <1>6, <1>7, NearestStays
<1>9. NearestFrom(old, StatementKinds)[a] \in 0 .. a
  BY <1>5, <1>7, NearestFinds
<1>10. AncestorStatement(n)' = AncestorStatement(n)
  <2>1. PICK found : found = NearestFrom(old, StatementKinds)[a]
    OBVIOUS
  <2>2. AncestorStatement(n) = IF found \in 1 .. Len(nodes) THEN found ELSE Null
    BY <1>4, <2>1 DEF AncestorStatement, Ancestor, Node
  <2>3. AncestorStatement(n)' = IF found \in 1 .. Len(nodes') THEN found ELSE Null
    BY <1>1, <1>4, <1>8, <2>1 DEF AncestorStatement, Ancestor, Node
  <2>4. found \in 1 .. Len(nodes) <=> found \in 1 .. Len(nodes')
    BY <1>0, <1>1, <1>4, <1>7, <1>9, <2>1
  <2>5. QED
    BY <2>2, <2>3, <2>4
<1>11. PICK s, up : s = AncestorStatement(n) /\ up = nodes[s].parent
  OBVIOUS
<1>12. s \in Nat /\ (s # Null => s \in Node)
  BY <1>0, <1>11, EnclosingFacts
<1>13. s # Null => /\ nodes'[s].parent = up /\ nodes'[s].kind = nodes[s].kind
                   /\ up \in Node <=> up \in Node'
                   /\ up \in Node => nodes'[up].kind = nodes[up].kind
  <2>1. SUFFICES ASSUME s # Null
                 PROVE  /\ nodes'[s].parent = up /\ nodes'[s].kind = nodes[s].kind
                        /\ up \in Node <=> up \in Node'
                        /\ up \in Node => nodes'[up].kind = nodes[up].kind
    OBVIOUS
  <2>2. s \in Node /\ up \in Nat /\ up < s
    BY <1>0, <1>11, <1>12, <2>1
  <2>3. up \in Node <=> up \in Node'
    BY <1>0, <1>1, <2>2 DEF Node
  <2>4. QED
    BY <1>1, <1>11, <2>2, <2>3
<1>14. Enclosing(n)' = Enclosing(n)
  BY <1>10, <1>11, <1>13 DEF Enclosing
<1>15. InCase(n)' <=> InCase(n)
  BY <1>10, <1>11, <1>13 DEF InCase
<1>16. QED
  BY <1>1, <1>2, <1>10, <1>14, <1>15

LEMMA FineStays ==
  ASSUME BlockInv, TreeGrows, NEW b \in Node, Fine(b),
         nodes'[b].label = nodes[b].label \/ nodes'[b].label = Null
  PROVE  Fine(b)'
<1>1. CASE nodes'[b].label = Null
  BY <1>1 DEF Fine
<1>2. CASE nodes'[b].label = nodes[b].label /\ nodes[b].label # Null
  <2>1. nodes[b].label \in Node
    BY <1>2, TypeFacts
  <2>2. nodes'[nodes[b].label].expect = nodes[nodes[b].label].expect
    BY <2>1, Unmoved
  <2>3. QED
    BY <1>2, <2>2 DEF Fine, Continues
<1>3. QED
  BY <1>1, <1>2

LEMMA ContinuingStays ==
  ASSUME BlockInv, TreeGrows, NEW l, NEW R, NEW S, Continuing(l, R), Enclosing(l) \in S
  PROVE  Continuing(l, S)'
<1>1. l \in Node
  BY DEF Continuing
<1>2. /\ l \in Node' /\ nodes'[l].kind = nodes[l].kind /\ nodes'[l].expect = nodes[l].expect
      /\ Enclosing(l)' = Enclosing(l)
      /\ InCase(l)' <=> InCase(l)
  BY <1>1, Unmoved
<1>3. QED
  BY <1>2 DEF Continuing, Continues

(* The older blocks stay, and see no other label.                           *)
OlderStay(R, S, b) ==
  \A n \in R : n < b => n \in S /\ (nodes'[n].label = nodes[n].label \/ nodes'[n].label = Null)

(* What is around a block stays around it.                                  *)
LEMMA NestedStays ==
  ASSUME BlockInv, TreeGrows, NEW R, NEW S, R \subseteq Node, NEW b \in R, Nested(b, R),
         OlderStay(R, S, b)
  PROVE  Nested(b, S)'
<1>0. TypeOK /\ AstIsTree /\ b \in Node /\ b \in Nat
  <2>1. TypeOK /\ AstIsTree
    BY TypeFacts
  <2>2. b \in Node
    OBVIOUS
  <2>3. QED
    BY <2>1, <2>2 DEF Node
<1>1. /\ b \in Node' /\ Enclosing(b)' = Enclosing(b)
      /\ InCase(b)' <=> InCase(b)
  BY <1>0, Unmoved
<1>2. ASSUME b # RootBlock
      PROVE  Enclosing(b) \in S /\ (Fine(Enclosing(b))' \/ InCase(b)')
  <2>1. Enclosing(b) \in R /\ (Fine(Enclosing(b)) \/ InCase(b))
    BY <1>2 DEF Nested
  <2>2. Enclosing(b) < b
    BY <1>0, EnclosingFacts
  <2>3. PICK up : up = Enclosing(b)
    OBVIOUS
  <2>4. up \in Node /\ up \in S /\ (nodes'[up].label = nodes[up].label \/ nodes'[up].label = Null)
    BY <2>1, <2>2, <2>3 DEF OlderStay
  <2>5. Fine(up) => Fine(up)'
    BY <2>4, FineStays
  <2>6. Fine(Enclosing(b))' <=> Fine(up)'
    BY <1>1, <2>3 DEF Fine
  <2>7. Fine(Enclosing(b)) <=> Fine(up)
    BY <2>3
  <2>8. QED
    BY <1>1, <2>1, <2>3, <2>4, <2>5, <2>6, <2>7
<1>3. QED
  BY <1>1, <1>2 DEF Nested

(* A block that could be filled still can, as long as what is around it can.*)
LEMMA BlockStays ==
  ASSUME BlockInv, TreeGrows, NEW R, NEW S, R \subseteq Node, NEW b \in R,
         nodes[b].kind = "block", LabelOK(b, R), Nested(b, R),
         \A n \in R : n <= b => /\ n \in S
                                /\ nodes'[n].label = nodes[n].label \/ nodes'[n].label = Null
  PROVE  (nodes[b].kind = "block" /\ LabelOK(b, S) /\ Nested(b, S))'
<1>0. TypeOK /\ AstIsTree /\ b \in Node /\ b \in Nat /\ b <= b
  BY TypeFacts DEF Node
<1>1. /\ b \in Node' /\ nodes'[b].kind = "block" /\ Enclosing(b)' = Enclosing(b)
      /\ InCase(b)' <=> InCase(b)
  BY <1>0, Unmoved
<1>2. LabelOK(b, S)'
  <2>1. CASE nodes'[b].label = Null
    BY <2>1 DEF LabelOK
  <2>2. CASE nodes'[b].label = nodes[b].label /\ nodes[b].label # Null
    <3>1. PICK l : l = nodes[b].label
      OBVIOUS
    <3>2. l \in Node
      BY <1>0, <2>2, <3>1, TypeFacts
    <3>3. l \in Node' /\ nodes'[l].expect = nodes[l].expect /\ Enclosing(l)' = Enclosing(l)
      BY <3>2, Unmoved
    <3>4. CASE nodes[l].expect \in {"end", "otherwise"}
      BY <2>2, <3>1, <3>3, <3>4 DEF LabelOK
    <3>5. CASE Continuing(l, R) /\ Enclosing(l) <= b
      <4>1. Enclosing(l) \in S
        BY <3>5 DEF Continuing
      <4>2. Continuing(l, S)'
        BY <3>5, <4>1, ContinuingStays
      <4>3. nodes'[b].label = l /\ Enclosing(l)' <= b
        BY <2>2, <3>1, <3>3, <3>5
      <4>4. QED
        BY <4>2, <4>3 DEF LabelOK
    <3>6. QED
      BY <2>2, <3>1, <3>4, <3>5 DEF LabelOK
  <2>3. nodes'[b].label = nodes[b].label \/ nodes'[b].label = Null
    BY <1>0
  <2>4. QED
    BY <2>1, <2>2, <2>3
<1>3. OlderStay(R, S, b)
  BY <1>0 DEF OlderStay, Node
<1>4. Nested(b, S)'
  BY <1>3, NestedStays
<1>5. QED
  BY <1>1, <1>2, <1>4

LEMMA FramesStay ==
  ASSUME BlockInv, TreeGrows, NEW R, NEW S, R \subseteq S, FramesOK(R),
         \A f \in 1 .. Len(frames') : frames'[f].prev # Null =>
           \/ \E g \in 1 .. Len(frames) : frames'[f].prev = frames[g].prev
           \/ Continuing(frames'[f].prev, R)
  PROVE  FramesOK(S)'
<1>1. ASSUME NEW f \in 1 .. Len(frames'), frames'[f].prev # Null
      PROVE  Continuing(frames[f].prev, S)'
  <2>1. PICK l : l = frames'[f].prev
    OBVIOUS
  <2>2. Continuing(l, R)
    BY <1>1, <2>1 DEF FramesOK
  <2>3. Continuing(l, S)'
    BY <2>2, ContinuingStays DEF Continuing
  <2>4. (frames[f].prev)' = l
    BY <2>1
  <2>5. QED
    BY <2>3, <2>4 DEF Continuing, Continues, InCase, Enclosing, AncestorStatement, Ancestor
<1>2. QED
  BY <1>1, Zenon DEF FramesOK

(* The blocks that can be filled, fewer than before but for one that is new.*)
LEMMA ElsesStay ==
  ASSUME BlockInv, TreeGrows, NewIfs, NEW R, ElsesWait(R), NEW b, b \notin Node,
         NEW S, S \subseteq R \cup {b}, R \subseteq Node,
         \A n \in Node : n \notin R => nodes'[n].label = nodes[n].label \/ nodes'[n].label = Null
  PROVE  ElsesWait(S)'
<1>0. /\ Len(nodes) \in Nat /\ New = Len(nodes) + 1 /\ Len(nodes') \in Nat
      /\ \A n \in Node : nodes'[n].kind = nodes[n].kind /\ Keeps(n)
      /\ \A n \in New .. Len(nodes') : nodes'[n].label = Null
  BY TypeFacts DEF TreeGrows, Keeps
<1>1. ASSUME NEW s \in Node', nodes'[s].kind = "if", nodes'[s].block1 \in S
      PROVE  nodes'[s].block2 \notin S /\ nodes'[nodes'[s].block2].label = Null
  <2>1. CASE s \in Node
    <3>1. HasBlocks(nodes, s) /\ nodes'[s].block1 = nodes[s].block1 /\ nodes'[s].block2 = nodes[s].block2
      BY <1>0, <1>1, <2>1 DEF BlockInv, IfInv, Keeps
    <3>2. nodes[s].block1 \in Node /\ nodes[s].block2 \in Node
      BY <3>1 DEF HasBlocks, Node
    <3>3. nodes[s].block1 \in R
      BY <1>1, <3>1, <3>2
    <3>4. nodes[s].block2 \notin R /\ nodes[nodes[s].block2].label = Null
      BY <1>0, <1>1, <2>1, <3>3 DEF ElsesWait
    <3>5. nodes'[s].block2 \notin S
      BY <3>1, <3>2, <3>4
    <3>6. nodes'[nodes[s].block2].label = Null
      BY <3>2, <3>4
    <3>7. QED
      BY <3>1, <3>5, <3>6
  <2>2. CASE s \in New .. Len(nodes')
    <3>1. HasBlocks(nodes', s) /\ nodes'[s].block1 >= New
      BY <1>1, <2>2 DEF NewIfs
    <3>2. /\ nodes'[s].block1 \in New .. Len(nodes') /\ nodes'[s].block2 \in New .. Len(nodes')
          /\ nodes'[s].block1 # nodes'[s].block2
      BY <1>0, <3>1 DEF HasBlocks
    <3>3. nodes'[s].block1 \notin R /\ nodes'[s].block2 \notin R
      BY <1>0, <3>2 DEF Node
    <3>4. nodes'[s].block2 \notin S
      BY <1>1, <3>2, <3>3
    <3>5. QED
      BY <1>0, <3>2, <3>4
  <2>3. s \in Node \/ s \in New .. Len(nodes')
    BY <1>0, <1>1 DEF Node
  <2>4. QED
    BY <2>1, <2>2, <2>3
<1>2. QED
  BY <1>1 DEF ElsesWait

(* What is known of the blocks that can be filled.                          *)
LEMMA ReachFacts ==
  ASSUME BlockInv, NEW R, ReachInv(R)
  PROVE  /\ R \subseteq Node /\ cur \in R /\ cur \in Node /\ Fine(cur)
         /\ \A b \in R : /\ b \in Nat /\ b <= cur
                         /\ nodes[b].kind = "block" /\ LabelOK(b, R) /\ Nested(b, R)
         /\ FramesOK(R) /\ ElsesWait(R)
<1>1. cur \in Nat /\ cur <= Len(nodes) /\ Len(nodes) \in Nat
  BY TypeFacts
<1>2. R \subseteq 1 .. cur /\ cur \in R
  BY DEF ReachInv
<1>3. R \subseteq Node /\ \A b \in R : b \in Nat /\ b <= cur
  BY <1>1, <1>2 DEF Node
<1>4. QED
  BY <1>2, <1>3 DEF ReachInv

(* The block that is filled stays the same.                                 *)
LEMMA ReachQuiet ==
  ASSUME BlockInv, TreeGrows, NewIfs, Quiet, NEW R, ReachInv(R),
         \A f \in 1 .. Len(frames') : frames'[f].prev # Null =>
           \/ \E g \in 1 .. Len(frames) : frames'[f].prev = frames[g].prev
           \/ Continuing(frames'[f].prev, R)
  PROVE  ReachInv(R)'
<1>0. /\ TreeGrows /\ NewIfs /\ cur' = cur /\ Len(nodes) \in Nat /\ New = Len(nodes) + 1
      /\ \A n \in Node : nodes'[n].label = nodes[n].label
  BY TypeFacts DEF Quiet, KeepsLabels
<1>1. /\ R \subseteq Node /\ cur \in R /\ cur \in Node /\ Fine(cur)
      /\ \A b \in R : /\ b \in Nat /\ b <= cur
                      /\ nodes[b].kind = "block" /\ LabelOK(b, R) /\ Nested(b, R)
      /\ FramesOK(R) /\ ElsesWait(R)
  BY ReachFacts
<1>2. R \subseteq 1 .. cur' /\ cur' \in R
  BY <1>0 DEF ReachInv
<1>3. Fine(cur)'
  <2>1. PICK c : c = cur
    OBVIOUS
  <2>2. Fine(c)'
    BY <1>0, <1>1, <2>1, FineStays
  <2>3. QED
    BY <1>0, <2>1, <2>2 DEF Fine
<1>4. ASSUME NEW b \in R
      PROVE  (nodes[b].kind = "block" /\ LabelOK(b, R) /\ Nested(b, R))'
  <2>1. nodes[b].kind = "block" /\ LabelOK(b, R) /\ Nested(b, R)
    BY <1>1
  <2>2. \A n \in R : n <= b => n \in R /\ (nodes'[n].label = nodes[n].label \/ nodes'[n].label = Null)
    BY <1>0, <1>1
  <2>3. QED
    BY <1>0, <1>1, <2>1, <2>2, BlockStays
<1>5. FramesOK(R)'
  <2>1. R \subseteq R
    OBVIOUS
  <2>2. QED
    BY <1>0, <1>1, <2>1, FramesStay
<1>6. ElsesWait(R)'
  <2>1. New \notin Node /\ R \subseteq R \cup {New}
    BY <1>0 DEF Node
  <2>2. QED
    BY <1>0, <1>1, <2>1, ElsesStay
<1>7. QED
  BY <1>2, <1>3, <1>4, <1>5, <1>6 DEF ReachInv

(* A statement opens a block in the one that was filled.                    *)
LEMMA ReachOpened ==
  ASSUME BlockInv, StepOK, Opened, NEW R, ReachInv(R)
  PROVE  \E S \in SUBSET Nat : ReachInv(S)'
<1>0. /\ TreeGrows /\ NewIfs /\ Len(nodes) \in Nat /\ New = Len(nodes) + 1 /\ Len(nodes') \in Nat
      /\ Len(nodes) <= Len(nodes')
      /\ \A n \in Node : nodes'[n].label = nodes[n].label
      /\ \A n \in New .. Len(nodes') : nodes'[n].label = Null
  BY TypeFacts DEF StepOK, Opened, KeepsLabels, TreeGrows
<1>1. /\ R \subseteq Node /\ cur \in R /\ cur \in Node /\ Fine(cur)
      /\ \A b \in R : /\ b \in Nat /\ b <= cur
                      /\ nodes[b].kind = "block" /\ LabelOK(b, R) /\ Nested(b, R)
      /\ FramesOK(R) /\ ElsesWait(R)
  BY ReachFacts
<1>2. PICK b \in New .. Len(nodes') :
        /\ cur' = b /\ nodes'[b].kind = "block"
        /\ AncestorStatement(b)' \in New .. Len(nodes')
        /\ nodes'[AncestorStatement(b)'].parent = cur
  BY DEF Opened
<1>3. PICK S, c : S = R \cup {b} /\ c = cur
  OBVIOUS
<1>4. Enclosing(b)' = c
  <2>1. AncestorStatement(b)' # Null /\ c \in Node'
    BY <1>0, <1>1, <1>2, <1>3 DEF Null, Node
  <2>2. nodes'[c].kind = "block"
    BY <1>0, <1>1, <1>3, Unmoved
  <2>3. QED
    BY <1>2, <1>3, <2>1, <2>2 DEF Enclosing
<1>5. Fine(c)'
  BY <1>0, <1>1, <1>3, FineStays
<1>6. nodes'[b].label = Null
  BY <1>0, <1>2
<1>7. (nodes[b].kind = "block" /\ LabelOK(b, S) /\ Nested(b, S))'
  <2>1. c \in S
    BY <1>1, <1>3
  <2>2. PICK up : up = Enclosing(b)'
    OBVIOUS
  <2>3. Fine(Enclosing(b))' <=> Fine(c)'
    BY <1>4 DEF Fine, Continues
  <2>4. Nested(b, S)'
    BY <1>4, <1>5, <2>1, <2>3 DEF Nested
  <2>5. LabelOK(b, S)'
    BY <1>6 DEF LabelOK
  <2>6. QED
    BY <1>2, <2>4, <2>5
<1>8. ASSUME NEW n \in R
      PROVE  (nodes[n].kind = "block" /\ LabelOK(n, S) /\ Nested(n, S))'
  <2>1. nodes[n].kind = "block" /\ LabelOK(n, R) /\ Nested(n, R)
    BY <1>1
  <2>2. \A m \in R : m <= n => m \in S /\ (nodes'[m].label = nodes[m].label \/ nodes'[m].label = Null)
    BY <1>0, <1>1, <1>3
  <2>3. QED
    BY <1>0, <1>1, <2>1, <2>2, BlockStays
<1>9. ASSUME NEW n \in S
      PROVE  (nodes[n].kind = "block" /\ LabelOK(n, S) /\ Nested(n, S))'
  <2>1. n \in R \/ n = b
    BY <1>3
  <2>2. QED
    BY <1>7, <1>8, <2>1
<1>10. FramesOK(S)'
  <2>1. \A f \in 1 .. Len(frames') : \E g \in 1 .. Len(frames) : frames'[f].prev = frames[g].prev
    BY DEF StepOK, ReturnOK
  <2>2. R \subseteq S
    BY <1>3
  <2>3. QED
    BY <1>0, <1>1, <2>1, <2>2, FramesStay
<1>11. ElsesWait(S)'
  <2>1. b \notin Node /\ S \subseteq R \cup {b}
    BY <1>0, <1>2, <1>3 DEF Node
  <2>2. QED
    BY <1>0, <1>1, <2>1, ElsesStay
<1>12. S \subseteq 1 .. b /\ b \in S /\ S \in SUBSET Nat
  BY <1>0, <1>1, <1>3 DEF Node
<1>13. Fine(cur)'
  BY <1>2, <1>6 DEF Fine
<1>14. ReachInv(S)'
  BY <1>2, <1>9, <1>10, <1>11, <1>12, <1>13 DEF ReachInv
<1>15. QED
  BY <1>12, <1>14

(* Nothing ends where the handler's own block does.                         *)
LEMMA EndsNotRoot ==
  ASSUME BlockInv, BlockEndsHere, i \in Index
  PROVE  cur # RootBlock
<1>1. nodes[cur].endPos = At(i).pos
  BY DEF BlockEndsHere
<1>2. code \in Codes /\ i + 1 \in 1 .. Len(code)
  BY CodeFacts DEF BlockInv, TreeInv, Index, Size
<1>3. At(i).pos < PosModulus - 1 /\ At(i).pos \in Nat
  <2>1. \A k \in 1 .. Len(code) : code[k].pos < PosModulus - 1
    BY <1>2, CodesAssumption
  <2>2. At(i) \in Bytecode
    BY CodeFacts DEF BlockInv, TreeInv
  <2>3. QED
    BY <1>2, <2>1, <2>2 DEF At, Bytecode
<1>4. At(i).pos # NoPos
  BY <1>3, PosModulusAssumption DEF NoPos
<1>5. QED
  BY <1>1, <1>4 DEF BlockInv, RootInv

(* A block is closed, and the one around it is filled again.                *)
LEMMA ReachClosed ==
  ASSUME BlockInv, StepOK, Closed, frames' = <<>>, cur # RootBlock, NEW R, ReachInv(R)
  PROVE  \E S \in SUBSET Nat : ReachInv(S)'
<1>0. TreeGrows /\ NewIfs /\ Len(nodes) \in Nat /\ New = Len(nodes) + 1
  BY TypeFacts DEF StepOK
<1>1. /\ R \subseteq Node /\ cur \in R /\ cur \in Node /\ Fine(cur)
      /\ \A b \in R : /\ b \in Nat /\ b <= cur
                      /\ nodes[b].kind = "block" /\ LabelOK(b, R) /\ Nested(b, R)
      /\ FramesOK(R) /\ ElsesWait(R)
  BY ReachFacts
<1>2. PICK up : up = Enclosing(cur)
  OBVIOUS
<1>3. up \in R /\ up \in Node /\ up \in Nat /\ (Fine(up) \/ InCase(cur))
  BY <1>1, <1>2 DEF Nested
<1>4. cur' = up /\ \A n \in Node : nodes'[n].label = nodes[n].label \/ nodes'[n].label = Null
  BY <1>2 DEF Closed, LabelForgotten, KeepsLabels
<1>5. Fine(up)'
  <2>1. CASE Awaits(cur, "end") /\ LabelForgotten(Enclosing(cur))
    BY <1>2, <1>3, <2>1 DEF Fine, LabelForgotten
  <2>2. CASE ~Awaits(cur, "end") /\ KeepsLabels
    <3>1. Fine(up)
      <4>1. SUFFICES ASSUME ~Fine(up)
                     PROVE  FALSE
        OBVIOUS
      <4>2. nodes[up].label # Null /\ ~Continues(nodes[up].label) /\ InCase(cur)
        BY <1>3, <4>1 DEF Fine
      <4>3. LabelOK(up, R)
        BY <1>1, <1>3
      <4>4. nodes[nodes[up].label].expect \in {"end", "otherwise"}
        BY <4>2, <4>3 DEF LabelOK, Continuing
      <4>5. up # Null
        BY <1>3 DEF Node, Null
      <4>6. Awaits(cur, "end") \/ Awaits(cur, "otherwise")
        BY <1>2, <4>2, <4>4, <4>5 DEF Awaits
      <4>7. QED
        BY <2>2, <4>6 DEF Closed
    <3>2. QED
      BY <1>0, <1>3, <1>4, <3>1, FineStays
  <2>3. QED
    BY <2>1, <2>2 DEF Closed
<1>6. PICK S : S = {b \in R : b <= up}
  OBVIOUS
<1>7. ASSUME NEW n \in S
      PROVE  (nodes[n].kind = "block" /\ LabelOK(n, S) /\ Nested(n, S))'
  <2>1. n \in R /\ n <= up /\ n \in Nat
    BY <1>1, <1>6
  <2>2. nodes[n].kind = "block" /\ LabelOK(n, R) /\ Nested(n, R)
    BY <1>1, <2>1
  <2>3. \A m \in R : m <= n => m \in S /\ (nodes'[m].label = nodes[m].label \/ nodes'[m].label = Null)
    BY <1>1, <1>3, <1>4, <1>6, <2>1
  <2>4. QED
    BY <1>0, <1>1, <2>1, <2>2, <2>3, BlockStays
<1>8. FramesOK(S)'
  BY DEF FramesOK
<1>9. ElsesWait(S)'
  <2>1. New \notin Node /\ S \subseteq R \cup {New}
    BY <1>0, <1>6 DEF Node
  <2>2. QED
    BY <1>0, <1>1, <1>4, <2>1, ElsesStay
<1>10. S \subseteq 1 .. up /\ up \in S /\ S \in SUBSET Nat
  <2>1. \A b \in S : b \in R /\ b \in Nat /\ b <= up
    BY <1>1, <1>6
  <2>2. \A b \in R : b >= 1
    BY <1>0, <1>1 DEF Node
  <2>3. S \subseteq 1 .. up
    BY <1>3, <2>1, <2>2
  <2>4. up \in S
    BY <1>3, <1>6
  <2>5. QED
    BY <2>1, <2>3, <2>4
<1>11. Fine(cur)'
  BY <1>4, <1>5 DEF Fine, Continues
<1>12. ReachInv(S)'
  BY <1>4, <1>7, <1>8, <1>9, <1>10, <1>11 DEF ReachInv
<1>13. QED
  BY <1>10, <1>12

(* The else of an if follows its then.                                      *)
LEMMA ReachElse ==
  ASSUME BlockInv, StepOK, ElseEntered, frames' = <<>>, NEW R, ReachInv(R)
  PROVE  \E S \in SUBSET Nat : ReachInv(S)'
<1>0. /\ TreeGrows /\ Len(nodes) \in Nat /\ TypeOK /\ AstIsTree
      /\ \A n \in Node : nodes[n].parent \in Nat /\ nodes[n].parent < n
  BY TypeFacts DEF StepOK
<1>1. /\ R \subseteq Node /\ cur \in R /\ cur \in Node /\ Fine(cur)
      /\ \A b \in R : /\ b \in Nat /\ b <= cur
                      /\ nodes[b].kind = "block" /\ LabelOK(b, R) /\ Nested(b, R)
      /\ FramesOK(R) /\ ElsesWait(R)
  BY ReachFacts
<1>2. PICK s \in Node : /\ s = AncestorStatement(cur) /\ nodes[s].kind = "if"
                        /\ cur = nodes[s].block1 /\ cur' = nodes[s].block2
                        /\ nodes' = nodes
  BY DEF ElseEntered
<1>3. PICK c, e : c = cur /\ e = nodes[s].block2
  OBVIOUS
<1>4. HasBlocks(nodes, s)
  BY <1>2 DEF BlockInv, IfInv
<1>5. /\ e \in Node /\ e \in Nat /\ c \in Nat /\ c \in Node /\ c \in R /\ c < e /\ nodes[c].parent = s
      /\ nodes[e].parent = s /\ nodes[e].kind = "block" /\ cur' = e
  <2>1. c = nodes[s].block1 /\ e = nodes[s].block2 /\ cur' = e /\ c \in R /\ c \in Node /\ c \in Nat
    BY <1>1, <1>2, <1>3
  <2>2. /\ nodes[s].block2 \in Node /\ nodes[s].block1 < nodes[s].block2
        /\ nodes[nodes[s].block1].parent = s /\ nodes[nodes[s].block2].parent = s
        /\ nodes[nodes[s].block2].kind = "block"
    BY <1>4 DEF HasBlocks, Node
  <2>3. e \in Node /\ e \in Nat
    BY <1>0, <2>1, <2>2 DEF Node
  <2>4. QED
    BY <2>1, <2>2, <2>3
<1>6. e \notin R /\ nodes[e].label = Null
  BY <1>1, <1>2, <1>3 DEF ElsesWait
<1>7. PICK S : S = {b \in R : b < c} \cup {e}
  OBVIOUS
<1>8. c # RootBlock
  BY <1>0, <1>2, <1>5 DEF BlockInv, RootInv, Null, Node
<1>9. Enclosing(e) = Enclosing(c) /\ (InCase(e) <=> InCase(c))
  BY <1>5 DEF Enclosing, InCase, AncestorStatement, Ancestor
<1>10. PICK up : up = Enclosing(c)
  OBVIOUS
<1>11. up \in R /\ (Fine(up) \/ InCase(c)) /\ up \in S /\ up \in Node
  <2>1. Nested(c, R)
    BY <1>1, <1>5
  <2>2. up \in R /\ (Fine(up) \/ InCase(c))
    BY <1>8, <1>10, <2>1 DEF Nested
  <2>3. up < c
    BY <1>0, <1>5, <1>10, EnclosingFacts
  <2>4. QED
    BY <1>1, <1>7, <2>2, <2>3
<1>12. (nodes[e].kind = "block" /\ LabelOK(e, S) /\ Nested(e, S))'
  <2>1. Enclosing(e)' = up /\ (InCase(e)' <=> InCase(c))
    BY <1>0, <1>5, <1>9, <1>10, Unmoved
  <2>2. Fine(Enclosing(e))' <=> Fine(up)
    BY <1>2, <2>1 DEF Fine, Continues
  <2>3. Nested(e, S)'
    BY <1>11, <2>1, <2>2 DEF Nested
  <2>4. LabelOK(e, S)'
    BY <1>2, <1>6 DEF LabelOK
  <2>5. QED
    BY <1>2, <1>5, <2>3, <2>4
<1>13. ASSUME NEW n \in R, n < c
       PROVE  (nodes[n].kind = "block" /\ LabelOK(n, S) /\ Nested(n, S))'
  <2>1. nodes[n].kind = "block" /\ LabelOK(n, R) /\ Nested(n, R) /\ n \in Nat
    BY <1>1
  <2>2. \A m \in R : m <= n => m \in S /\ (nodes'[m].label = nodes[m].label \/ nodes'[m].label = Null)
    <3>1. SUFFICES ASSUME NEW m \in R, m <= n
                   PROVE  m \in S /\ (nodes'[m].label = nodes[m].label \/ nodes'[m].label = Null)
      OBVIOUS
    <3>2. m < c
      BY <1>1, <1>5, <1>13, <2>1, <3>1
    <3>3. QED
      BY <1>2, <1>7, <3>2
  <2>3. QED
    BY <1>0, <1>1, <2>1, <2>2, BlockStays
<1>14. ASSUME NEW n \in S
       PROVE  (nodes[n].kind = "block" /\ LabelOK(n, S) /\ Nested(n, S))'
  <2>1. (n \in R /\ n < c) \/ n = e
    BY <1>7
  <2>2. QED
    BY <1>12, <1>13, <2>1
<1>15. FramesOK(S)'
  BY DEF FramesOK
<1>16. ASSUME NEW t \in Node, nodes[t].kind = "if", nodes[t].block1 \in S
       PROVE  nodes[t].block2 \notin S /\ nodes[nodes[t].block2].label = Null
  <2>1. HasBlocks(nodes, t)
    BY <1>16 DEF BlockInv, IfInv
  <2>2. t = s => nodes[t].block1 = c
    BY <1>2, <1>3
  <2>3. nodes[nodes[t].block1].parent = t /\ nodes[nodes[t].block2].parent = t
    BY <2>1 DEF HasBlocks
  <2>4. c \notin S
    BY <1>5, <1>7
  <2>5. t # s
    BY <1>16, <2>2, <2>4
  <2>6. nodes[t].block1 # e /\ nodes[t].block2 # e
    BY <1>5, <2>3, <2>5
  <2>7. nodes[t].block1 \in R
    BY <1>7, <1>16, <2>6
  <2>8. nodes[t].block2 \notin R /\ nodes[nodes[t].block2].label = Null
    BY <1>1, <1>16, <2>7 DEF ElsesWait
  <2>9. QED
    BY <1>7, <2>6, <2>8
<1>17. ElsesWait(S)'
  BY <1>2, <1>16 DEF ElsesWait, Node
<1>18. S \subseteq 1 .. e /\ e \in S /\ S \in SUBSET Nat
  <2>1. \A b \in R : b \in 1 .. Len(nodes)
    BY <1>1 DEF Node
  <2>2. e \in 1 .. e /\ e \in Nat
    BY <1>5 DEF Node
  <2>3. ASSUME NEW b \in R, b < c
        PROVE  b \in 1 .. e /\ b \in Nat
    <3>1. b \in 1 .. Len(nodes)
      BY <2>1
    <3>2. c \in Nat /\ e \in Nat /\ c < e
      BY <1>5
    <3>3. QED
      BY <2>3, <3>1, <3>2
  <2>4. \A b \in S : (b \in R /\ b < c) \/ b = e
    BY <1>7
  <2>5. e \in S
    BY <1>7
  <2>6. QED
    BY <2>2, <2>3, <2>4, <2>5
<1>19. Fine(cur)'
  BY <1>2, <1>5, <1>6 DEF Fine
<1>20. ReachInv(S)'
  BY <1>5, <1>14, <1>15, <1>17, <1>18, <1>19 DEF ReachInv
<1>21. QED
  BY <1>18, <1>20

(* The walk passes through a node that is no statement.                     *)
LEMMA Through ==
  ASSUME BlockInv, TreeGrows, NEW n \in 1 .. Len(nodes'), NEW p \in 1 .. Len(nodes'),
         nodes'[n].parent = p, nodes'[p].kind \notin StatementKinds
  PROVE  /\ AncestorStatement(n)' = AncestorStatement(p)' /\ Enclosing(n)' = Enclosing(p)'
         /\ InCase(n)' <=> InCase(p)'
<1>0. nodes' \in Seq(NodeRecord) /\ Len(nodes') \in Nat /\ ParentsAreOlder'
  BY TypeFacts, TreeStep DEF TreeGrows
<1>1. \A k \in 1 .. Len(nodes') : nodes'[k].parent \in Nat /\ nodes'[k].parent < k
  <2>1. ASSUME NEW k \in 1 .. Len(nodes')
        PROVE  nodes'[k].parent \in Nat
    <3>1. nodes'[k] \in NodeRecord
      BY <1>0
    <3>2. QED
      BY <3>1 DEF NodeRecord
  <2>2. QED
    BY <1>0, <2>1 DEF ParentsAreOlder, Node
<1>2. PICK tree : tree = nodes'
  OBVIOUS
<1>3. IsTree(tree) /\ p \in 0 .. Len(tree) /\ p # Null
  BY <1>0, <1>1, <1>2 DEF IsTree, Null
<1>4. NearestFrom(tree, StatementKinds)[p] = WalkStep(tree, StatementKinds, NearestFrom(tree, StatementKinds), p)
  BY <1>3, NearestAt
<1>5. NearestFrom(tree, StatementKinds)[p] = NearestFrom(tree, StatementKinds)[tree[p].parent]
  BY <1>2, <1>3, <1>4 DEF WalkStep
<1>6. AncestorStatement(n)' = AncestorStatement(p)'
  BY <1>2, <1>5 DEF AncestorStatement, Ancestor, Node
<1>7. QED
  BY <1>6 DEF Enclosing, InCase

(* The otherwise of a case follows its last label.                          *)
LEMMA ReachOtherwise ==
  ASSUME BlockInv, StepOK, OtherwiseEntered, frames' = <<>>, cur # RootBlock, NEW R, ReachInv(R)
  PROVE  \E S \in SUBSET Nat : ReachInv(S)'
<1>0. /\ TreeGrows /\ NewIfs /\ TypeOK /\ AstIsTree /\ LinksInv
      /\ Len(nodes) \in Nat /\ New = Len(nodes) + 1 /\ Len(nodes') = New + 1
      /\ \A n \in New .. Len(nodes') : nodes'[n].label = Null
  BY TypeFacts DEF StepOK, TreeGrows, OtherwiseEntered
<1>1. /\ R \subseteq Node /\ cur \in R /\ cur \in Node /\ Fine(cur)
      /\ \A b \in R : /\ b \in Nat /\ b <= cur
                      /\ nodes[b].kind = "block" /\ LabelOK(b, R) /\ Nested(b, R)
      /\ FramesOK(R) /\ ElsesWait(R)
  BY ReachFacts
<1>2. PICK b, o, s, up : b = New + 1 /\ o = New /\ s = AncestorStatement(cur) /\ up = Enclosing(cur)
  OBVIOUS
<1>3. up \in R /\ up \in Node /\ up \in Nat
  BY <1>1, <1>2 DEF Nested
<1>4. s \in Node /\ nodes[s].kind = "case" /\ nodes[s].parent = up
  <2>1. s # Null /\ nodes[s].kind = "case" /\ up # Null
    BY <1>2 DEF OtherwiseEntered, Awaits, InCase
  <2>2. QED
    BY <1>0, <1>1, <1>2, <2>1, EnclosingFacts
<1>5. nodes'[s].kind = "case" /\ nodes'[s].parent = up /\ nodes'[up].kind = "block" /\ up \in Node'
  BY <1>0, <1>1, <1>3, <1>4, Unmoved
<1>6. /\ b \in New .. Len(nodes') /\ o \in 1 .. Len(nodes') /\ s \in 1 .. Len(nodes') /\ s < b
      /\ nodes'[b].kind = "block" /\ nodes'[b].parent = o
      /\ nodes'[o].kind = "otherwise" /\ nodes'[o].parent = s /\ cur' = b
  BY <1>0, <1>2, <1>4 DEF OtherwiseEntered, Node
<1>7. AncestorStatement(b)' = s
  <2>1. nodes'[o].kind \notin StatementKinds /\ nodes'[s].kind \in StatementKinds
    BY <1>5, <1>6 DEF StatementKinds
  <2>2. QED
    BY <1>0, <1>6, <2>1, NewBlockIn
<1>8. Enclosing(b)' = up /\ InCase(b)'
  <2>1. s # Null
    BY <1>4 DEF Node, Null
  <2>2. QED
    BY <1>5, <1>7, <2>1 DEF Enclosing, InCase
<1>9. \A n \in Node : nodes'[n].label = nodes[n].label \/ nodes'[n].label = Null
  BY DEF OtherwiseEntered, LabelForgotten
<1>10. nodes'[b].label = Null
  BY <1>0, <1>6
<1>11. PICK S : S = {n \in R : n <= up} \cup {b}
  OBVIOUS
<1>12. (nodes[b].kind = "block" /\ LabelOK(b, S) /\ Nested(b, S))'
  <2>1. up \in S
    BY <1>3, <1>11
  <2>2. Nested(b, S)'
    BY <1>8, <2>1 DEF Nested
  <2>3. LabelOK(b, S)'
    BY <1>10 DEF LabelOK
  <2>4. QED
    BY <1>6, <2>2, <2>3
<1>13. ASSUME NEW n \in R, n <= up
       PROVE  (nodes[n].kind = "block" /\ LabelOK(n, S) /\ Nested(n, S))'
  <2>1. nodes[n].kind = "block" /\ LabelOK(n, R) /\ Nested(n, R) /\ n \in Nat
    BY <1>1
  <2>2. \A m \in R : m <= n => m \in S /\ (nodes'[m].label = nodes[m].label \/ nodes'[m].label = Null)
    <3>1. SUFFICES ASSUME NEW m \in R, m <= n
                   PROVE  m \in S /\ (nodes'[m].label = nodes[m].label \/ nodes'[m].label = Null)
      OBVIOUS
    <3>2. m <= up
      BY <1>1, <1>3, <1>13, <2>1, <3>1
    <3>3. QED
      BY <1>1, <1>9, <1>11, <3>2
  <2>3. QED
    BY <1>0, <1>1, <2>1, <2>2, BlockStays
<1>14. ASSUME NEW n \in S
       PROVE  (nodes[n].kind = "block" /\ LabelOK(n, S) /\ Nested(n, S))'
  <2>1. (n \in R /\ n <= up) \/ n = b
    BY <1>11
  <2>2. QED
    BY <1>12, <1>13, <2>1
<1>15. FramesOK(S)'
  BY DEF FramesOK
<1>16. ElsesWait(S)'
  <2>1. b \notin Node /\ S \subseteq R \cup {b}
    BY <1>0, <1>2, <1>11 DEF Node
  <2>2. QED
    BY <1>0, <1>1, <1>9, <2>1, ElsesStay
<1>17. S \subseteq 1 .. b /\ b \in S /\ S \in SUBSET Nat
  <2>1. b \in Nat /\ b = Len(nodes) + 2
    BY <1>0, <1>2
  <2>2. \A n \in R : n \in Nat /\ 1 <= n /\ n <= Len(nodes)
    BY <1>0, <1>1 DEF Node
  <2>3. \A n \in S : n \in Nat /\ 1 <= n /\ n <= b
    BY <1>0, <1>11, <2>1, <2>2
  <2>4. QED
    BY <1>11, <2>1, <2>3
<1>18. Fine(cur)'
  BY <1>6, <1>10 DEF Fine
<1>19. ReachInv(S)'
  BY <1>6, <1>14, <1>15, <1>16, <1>17, <1>18 DEF ReachInv
<1>20. QED
  BY <1>17, <1>19

(* Where a new label hangs: in a case of the block that is filled, or in    *)
(* the case of the label before it.                                         *)
LEMMA LabelHangs ==
  ASSUME BlockInv, TreeGrows, NEW expect \in {"or", "next", "end", "otherwise"}, Labelled(expect),
         NEW R, ReachInv(R), NEW f \in 1 .. Len(frames), Frame = frames[f]
  PROVE  \E l \in New .. Len(nodes') :
           /\ l = LabelId /\ nodes'[l].kind = "label" /\ nodes'[l].expect = expect
           /\ InCase(l)' /\ Enclosing(l)' \in R
<1>0. /\ TypeOK /\ AstIsTree /\ LinksInv
      /\ Len(nodes) \in Nat /\ New = Len(nodes) + 1 /\ Len(nodes') \in Nat
      /\ nodes' \in Seq(NodeRecord) /\ Len(nodes) <= Len(nodes')
  BY TypeFacts DEF TreeGrows
<1>1. /\ R \subseteq Node /\ cur \in R /\ cur \in Node /\ Fine(cur)
      /\ \A b \in R : /\ b \in Nat /\ b <= cur
                      /\ nodes[b].kind = "block" /\ LabelOK(b, R) /\ Nested(b, R)
      /\ FramesOK(R) /\ ElsesWait(R)
  BY ReachFacts
<1>2. PICK l : l = LabelId
  OBVIOUS
<1>3. Len(nodes') = (IF expect = "or" THEN l ELSE l + 1) /\ (l = New \/ l = New + 1)
  BY <1>2 DEF Labelled, LabelId
<1>4. l \in New .. Len(nodes') /\ l \in 1 .. Len(nodes')
  BY <1>0, <1>3
<1>5. nodes'[l].kind = "label" /\ nodes'[l].expect = expect /\ nodes'[l].parent = LabelParent
  BY <1>2 DEF Labelled
<1>6. CASE Frame.prev = Null
  <2>1. PICK s : s = New
    OBVIOUS
  <2>2. /\ l = s + 1 /\ s < l /\ s \in 1 .. Len(nodes') /\ nodes'[l].parent = s
        /\ nodes'[s].kind = "case" /\ nodes'[s].parent = cur
    BY <1>0, <1>2, <1>4, <1>5, <1>6, <2>1 DEF Labelled, LabelId, LabelParent
  <2>3. nodes'[s].kind \in StatementKinds
    BY <2>2 DEF StatementKinds
  <2>4. AncestorStatement(l)' = s
    BY <1>0, <1>4, <2>2, <2>3, NewBlockIn
  <2>5. nodes'[cur].kind = "block" /\ cur \in Node'
    <3>1. PICK c : c = cur
      OBVIOUS
    <3>2. nodes'[c].kind = "block" /\ c \in Node'
      BY <1>1, <3>1, Unmoved
    <3>3. Node' = 1 .. Len(nodes')
      BY DEF Node
    <3>4. QED
      BY <3>1, <3>2, <3>3
  <2>6. s # Null
    BY <1>0, <2>1 DEF Null
  <2>7. PICK c : c = cur
    OBVIOUS
  <2>8. Enclosing(l)' = c /\ InCase(l)'
    BY <2>2, <2>4, <2>5, <2>6, <2>7 DEF Enclosing, InCase
  <2>9. QED
    BY <1>1, <1>2, <1>4, <1>5, <2>7, <2>8
<1>7. CASE Frame.prev # Null
  <2>1. PICK p : p = Frame.prev
    OBVIOUS
  <2>2. Continuing(p, R)
    BY <1>1, <1>7, <2>1 DEF FramesOK
  <2>3. p \in Node /\ nodes[p].kind = "label" /\ nodes[p].expect \in {"or", "next"} /\ InCase(p) /\ Enclosing(p) \in R
    BY <2>2 DEF Continuing, Continues
  <2>4. nodes'[l].parent = p
    BY <1>5, <1>7, <2>1, <2>3 DEF LabelParent
  <2>5. nodes'[p].kind = "label" /\ Enclosing(p)' = Enclosing(p) /\ (InCase(p)' <=> InCase(p))
    BY <2>3, Unmoved
  <2>6. p \in 1 .. Len(nodes') /\ nodes'[p].kind \notin StatementKinds
    BY <1>0, <2>3, <2>5 DEF Node, StatementKinds
  <2>7. Enclosing(l)' = Enclosing(p)' /\ (InCase(l)' <=> InCase(p)')
    BY <1>4, <2>4, <2>6, Through
  <2>8. QED
    BY <1>2, <1>4, <1>5, <2>3, <2>5, <2>7
<1>8. QED
  BY <1>6, <1>7

LEMMA ReachLabelled ==
  ASSUME BlockInv, StepOK, NEW expect \in {"or", "next", "end", "otherwise"}, Labelled(expect),
         NEW R, ReachInv(R), NEW f \in 1 .. Len(frames), Frame = frames[f]
  PROVE  \E S \in SUBSET Nat : ReachInv(S)'
<1>0. /\ TypeOK /\ AstIsTree /\ LinksInv /\ TreeGrows /\ NewIfs
      /\ Len(nodes) \in Nat /\ New = Len(nodes) + 1 /\ Len(nodes') \in Nat
      /\ \A n \in New .. Len(nodes') : nodes'[n].label = Null
  BY TypeFacts DEF StepOK, TreeGrows
<1>1. /\ R \subseteq Node /\ cur \in R /\ cur \in Node /\ Fine(cur)
      /\ \A b \in R : /\ b \in Nat /\ b <= cur
                      /\ nodes[b].kind = "block" /\ LabelOK(b, R) /\ Nested(b, R)
      /\ FramesOK(R) /\ ElsesWait(R)
  BY ReachFacts
<1>2. PICK l \in New .. Len(nodes') :
        /\ l = LabelId /\ nodes'[l].kind = "label" /\ nodes'[l].expect = expect
        /\ InCase(l)' /\ Enclosing(l)' \in R
  BY <1>0, LabelHangs
<1>3. PICK c, b, S : /\ c = cur /\ b = l + 1
                     /\ S = IF expect = "or" THEN R ELSE R \cup {b}
  OBVIOUS
<1>4. /\ \A n \in Node : nodes'[n].label = IF n = c THEN l ELSE nodes[n].label
      /\ cur' = IF expect = "or" THEN c ELSE b
      /\ expect # "or" => nodes'[b].kind = "block" /\ nodes'[b].parent = l /\ Len(nodes') = b
  BY <1>2, <1>3 DEF Labelled
<1>5. R \subseteq S
  BY <1>3
<1>6. c \in R /\ c \in Node /\ c \in Nat /\ l \in Nat /\ b \in Nat /\ l # Null /\ nodes'[c].label = l
  BY <1>0, <1>1, <1>2, <1>3, <1>4 DEF Null
<1>7. l \in Node'
  <2>1. Node' = 1 .. Len(nodes')
    BY DEF Node
  <2>2. QED
    BY <1>0, <1>2, <2>1
<1>8. expect \in {"or", "next"} => Continuing(l, S)'
  <2>1. expect \in {"or", "next"} => Continues(l)'
    BY <1>2 DEF Continues
  <2>2. QED
    BY <1>2, <1>5, <1>7, <2>1 DEF Continuing
<1>9. LabelOK(c, S)'
  <2>1. CASE expect \in {"or", "next"}
    <3>1. \A n \in R : n <= c
      BY <1>1, <1>3
    <3>2. (Enclosing(l) <= c)'
      BY <1>2, <3>1
    <3>3. QED
      BY <1>6, <1>8, <2>1, <3>2 DEF LabelOK
  <2>2. CASE expect \in {"end", "otherwise"}
    BY <1>2, <1>6, <1>7, <2>2 DEF LabelOK
  <2>3. QED
    BY <2>1, <2>2
<1>10. (nodes[c].kind = "block" /\ LabelOK(c, S) /\ Nested(c, S))'
  <2>1. OlderStay(R, S, c)
    BY <1>1, <1>4, <1>5, <1>6 DEF OlderStay
  <2>2. Nested(c, R)
    BY <1>1, <1>6
  <2>3. Nested(c, S)'
    BY <1>0, <1>1, <1>6, <2>1, <2>2, NestedStays
  <2>4. nodes'[c].kind = "block"
    BY <1>0, <1>1, <1>6, Unmoved
  <2>5. QED
    BY <1>9, <2>3, <2>4
<1>11. ASSUME NEW n \in R, n # c
       PROVE  (nodes[n].kind = "block" /\ LabelOK(n, S) /\ Nested(n, S))'
  <2>1. nodes[n].kind = "block" /\ LabelOK(n, R) /\ Nested(n, R) /\ n \in Nat /\ n <= c
    BY <1>1, <1>3
  <2>2. \A m \in R : m <= n => m \in S /\ (nodes'[m].label = nodes[m].label \/ nodes'[m].label = Null)
    <3>1. SUFFICES ASSUME NEW m \in R, m <= n
                   PROVE  m \in S /\ (nodes'[m].label = nodes[m].label \/ nodes'[m].label = Null)
      OBVIOUS
    <3>2. m # c
      BY <1>1, <1>6, <1>11, <2>1, <3>1
    <3>3. QED
      BY <1>1, <1>4, <1>5, <3>2
  <2>3. QED
    BY <1>0, <1>1, <2>1, <2>2, BlockStays
<1>12. expect # "or" => (nodes[b].kind = "block" /\ LabelOK(b, S) /\ Nested(b, S))'
  <2>1. SUFFICES ASSUME expect # "or"
                 PROVE  (nodes[b].kind = "block" /\ LabelOK(b, S) /\ Nested(b, S))'
    OBVIOUS
  <2>2. b \in 1 .. Len(nodes') /\ b \in New .. Len(nodes') /\ l \in 1 .. Len(nodes')
    BY <1>0, <1>2, <1>3, <1>4, <2>1
  <2>3. nodes'[b].kind = "block" /\ nodes'[b].parent = l /\ nodes'[b].label = Null
    BY <1>0, <1>4, <2>1, <2>2
  <2>4. nodes'[l].kind \notin StatementKinds
    BY <1>2 DEF StatementKinds
  <2>5. Enclosing(b)' = Enclosing(l)' /\ (InCase(b)' <=> InCase(l)')
    BY <1>0, <2>2, <2>3, <2>4, Through
  <2>6. Nested(b, S)'
    BY <1>2, <1>5, <2>5 DEF Nested
  <2>7. LabelOK(b, S)'
    BY <2>3 DEF LabelOK
  <2>8. QED
    BY <2>3, <2>6, <2>7
<1>13. ASSUME NEW n \in S
       PROVE  (nodes[n].kind = "block" /\ LabelOK(n, S) /\ Nested(n, S))'
  <2>1. n = c \/ (n \in R /\ n # c) \/ (expect # "or" /\ n = b)
    BY <1>3
  <2>2. QED
    BY <1>10, <1>11, <1>12, <2>1
<1>14. FramesOK(S)'
  <2>1. \A k \in 1 .. Len(frames') : \E g \in 1 .. Len(frames) : frames'[k].prev = frames[g].prev
    BY DEF StepOK, ReturnOK
  <2>2. QED
    BY <1>0, <1>1, <1>5, <2>1, FramesStay
<1>15. ElsesWait(S)'
  <2>1. b \notin Node /\ S \subseteq R \cup {b}
    BY <1>0, <1>2, <1>3 DEF Node
  <2>2. \A n \in Node : n \notin R => nodes'[n].label = nodes[n].label
    BY <1>4, <1>6
  <2>3. QED
    BY <1>0, <1>1, <2>1, <2>2, ElsesStay
<1>16. S \subseteq 1 .. cur' /\ cur' \in S /\ S \in SUBSET Nat
  <2>1. \A n \in R : n \in Nat /\ 1 <= n /\ n <= c /\ n <= Len(nodes)
    BY <1>0, <1>1, <1>3 DEF Node
  <2>2. CASE expect = "or"
    BY <1>3, <1>4, <1>6, <2>1, <2>2
  <2>3. CASE expect # "or"
    <3>1. b > Len(nodes)
      BY <1>0, <1>2, <1>3
    <3>2. \A n \in S : n \in Nat /\ 1 <= n /\ n <= b
      BY <1>0, <1>3, <1>6, <2>1, <2>3, <3>1
    <3>3. QED
      BY <1>3, <1>4, <1>6, <2>3, <3>2
  <2>4. QED
    BY <2>2, <2>3
<1>17. Fine(cur)'
  <2>1. CASE expect = "or"
    BY <1>2, <1>4, <1>6, <2>1 DEF Fine, Continues
  <2>2. CASE expect # "or"
    <3>1. b \in New .. Len(nodes')
      BY <1>0, <1>2, <1>3, <1>4, <2>2
    <3>2. QED
      BY <1>0, <1>4, <2>2, <3>1 DEF Fine
  <2>3. QED
    BY <2>1, <2>2
<1>18. ReachInv(S)'
  BY <1>13, <1>14, <1>15, <1>16, <1>17 DEF ReachInv
<1>19. QED
  BY <1>16, <1>18

(* kOpPeek remembers a label that another one will follow, or none.         *)
LEMMA ReachPeek ==
  ASSUME BlockInv, Peek, NEW R, ReachInv(R)
  PROVE  ReachInv(R)'
<1>0. /\ TypeOK /\ LinksInv /\ nodes' = nodes /\ cur' = cur
      /\ \A f \in 1 .. Len(frames') :
           \/ frames'[f].prev = nodes[cur].label
           \/ \E g \in 1 .. Len(frames) : frames'[f].prev = frames[g].prev
      /\ Len(nodes) \in Nat
  BY TypeFacts, PeekStep
<1>1. TreeGrows /\ NewIfs /\ Quiet
  BY <1>0, SameTree DEF NewIfs, New, Quiet, KeepsLabels
<1>2. cur \in R /\ Fine(cur) /\ LabelOK(cur, R)
  BY ReachFacts
<1>3. nodes[cur].label # Null => Continuing(nodes[cur].label, R)
  BY <1>2 DEF Fine, LabelOK, Continues
<1>4. \A f \in 1 .. Len(frames') : frames'[f].prev # Null =>
        \/ \E g \in 1 .. Len(frames) : frames'[f].prev = frames[g].prev
        \/ Continuing(frames'[f].prev, R)
  BY <1>0, <1>3
<1>5. QED
  BY <1>1, <1>4, ReachQuiet

(* Steps that change nothing of the tree.                                   *)
LEMMA ReachSame ==
  ASSUME BlockInv, NEW R, ReachInv(R), UNCHANGED <<frames, nodes, cur>>
  PROVE  ReachInv(R)'
<1>1. /\ TypeOK /\ LinksInv /\ Len(nodes) \in Nat /\ New = Len(nodes) + 1
      /\ nodes' = nodes /\ cur' = cur /\ frames' = frames
  BY TypeFacts
<1>2. TreeGrows
  BY <1>1, SameTree
<1>3. NewIfs
  BY <1>1 DEF NewIfs
<1>4. Quiet
  BY <1>1 DEF Quiet, KeepsLabels
<1>5. ASSUME NEW f \in 1 .. Len(frames')
      PROVE  \E g \in 1 .. Len(frames) : frames'[f].prev = frames[g].prev
  BY <1>1
<1>6. QED
  BY <1>2, <1>3, <1>4, <1>5, ReachQuiet

LEMMA FilledInit ==
  ASSUME Init
  PROVE  FilledInv
<1>1. BlockInv
  BY BlockInvInit
<1>2. PICK R : R = {1}
  OBVIOUS
<1>3. nodes = <<Blank>> /\ cur = 1 /\ frames = <<>>
  BY DEF Init, Begin, RootBlock
<1>4. nodes[1] = Blank /\ Len(nodes) = 1 /\ Len(frames) = 0
  BY <1>3
<1>5. nodes[1].kind = "block" /\ nodes[1].label = Null
  BY <1>4 DEF Blank
<1>6. LabelOK(1, R) /\ Nested(1, R) /\ Fine(cur)
  BY <1>3, <1>5 DEF LabelOK, Nested, Fine, RootBlock
<1>7. FramesOK(R)
  BY <1>4 DEF FramesOK
<1>8. ElsesWait(R)
  <2>1. \A s \in Node : s = 1
    BY <1>4 DEF Node
  <2>2. QED
    BY <1>5, <2>1 DEF ElsesWait
<1>9. R \subseteq 1 .. cur /\ cur \in R /\ R \in SUBSET Nat /\ \A b \in R : b = 1
  BY <1>2, <1>3
<1>10. ReachInv(R)
  BY <1>5, <1>6, <1>7, <1>8, <1>9 DEF ReachInv
<1>11. QED
  BY <1>9, <1>10 DEF FilledInv

LEMMA CodeIsKept ==
  ASSUME BlockInv, [Next]_vars
  PROVE  code' = code
BY Zenon DEF Next, vars, Tagging, Translate, TagLoop, TagOther, StartParse, CloseBlock, Finish, Crash, Ended,
     SkipTagged, Leaf, Unary, Binary, ArgList, Assign, StrayEnd, Call, Exit, Swap, Unknown, StartTell, EndTell,
     JmpIfZ, Jmp, Peek, Pop, PeekNoComparison, PeekNoJump, PeekLabel, PushExpr, AddStatement, Proceed, Return

LEMMA FilledNext ==
  ASSUME BlockInv, FilledInv, [Next]_vars
  PROVE  FilledInv'
<1>1. NoEndTell' <=> NoEndTell
  BY CodeIsKept DEF NoEndTell, Index, Size, At
<1>2. SUFFICES ASSUME NoEndTell
               PROVE  \E S \in SUBSET Nat : ReachInv(S)'
  BY <1>1 DEF FilledInv
<1>3. PICK R \in SUBSET Nat : ReachInv(R)
  BY <1>2 DEF FilledInv
<1>4. ASSUME StepOK, Quiet
      PROVE  \E S \in SUBSET Nat : ReachInv(S)'
  <2>1. \A f \in 1 .. Len(frames') : \E g \in 1 .. Len(frames) : frames'[f].prev = frames[g].prev
    BY <1>4 DEF StepOK, ReturnOK
  <2>2. TreeGrows /\ NewIfs
    BY <1>4 DEF StepOK
  <2>3. ReachInv(R)'
    BY <1>3, <1>4, <2>1, <2>2, ReachQuiet
  <2>4. QED
    BY <1>3, <2>3
<1>5. ASSUME StepOK, Opened
      PROVE  \E S \in SUBSET Nat : ReachInv(S)'
  BY <1>3, <1>5, ReachOpened
<1>6. ASSUME UNCHANGED <<code, frames, nodes, cur>>
      PROVE  \E S \in SUBSET Nat : ReachInv(S)'
  <2>1. ReachInv(R)'
    BY <1>3, <1>6, ReachSame
  <2>2. QED
    BY <1>3, <2>1
<1>7. CASE TagLoop
  BY <1>6, <1>7 DEF TagLoop
<1>8. CASE TagOther \/ StartParse \/ Finish \/ Crash \/ Ended \/ UNCHANGED vars
  BY <1>6, <1>8, OtherSteps
<1>9. CASE CloseBlock
  <2>1. /\ StepOK /\ frames' = <<>> /\ cur # RootBlock
        /\ Closed \/ ElseEntered \/ OtherwiseEntered
    BY <1>9, CloseBlockStep, EndsNotRoot
  <2>2. CASE Closed
    BY <1>3, <2>1, <2>2, ReachClosed
  <2>3. CASE ElseEntered
    BY <1>3, <2>1, <2>3, ReachElse
  <2>4. CASE OtherwiseEntered
    BY <1>3, <2>1, <2>4, ReachOtherwise
  <2>5. QED
    BY <2>1, <2>2, <2>3, <2>4
<1>10. CASE SkipTagged \/ Leaf \/ Unary \/ Binary \/ ArgList \/ Assign \/ StrayEnd
              \/ Call \/ Exit \/ Swap \/ Unknown \/ Pop
  BY <1>4, <1>10, SimpleStep
<1>11. CASE StartTell
  BY <1>5, <1>11, StartTellStep
<1>12. CASE EndTell
  <2>1. Ip \in Index /\ At(Ip).op = "endtell"
    BY <1>12, TypeFacts, CallFacts DEF EndTell, Translates, Calls
  <2>2. QED
    BY <1>2, <2>1 DEF NoEndTell
<1>13. CASE JmpIfZ
  BY <1>5, <1>13, JmpIfZStep
<1>14. CASE Jmp
  BY <1>4, <1>5, <1>14, JmpStep
<1>15. CASE Peek
  <2>1. ReachInv(R)'
    BY <1>3, <1>15, ReachPeek
  <2>2. QED
    BY <1>3, <2>1
<1>16. CASE PeekNoComparison \/ PeekNoJump
  BY <1>4, <1>16, SearchFailsStep
<1>17. CASE PeekLabel
  <2>1. PICK f \in 1 .. Len(frames) : Frame = frames[f]
    BY <1>17, PeekLabelStep
  <2>2. PICK expect \in {"or", "next", "end", "otherwise"} : Labelled(expect)
    BY <1>17, PeekLabelStep
  <2>3. StepOK
    BY <1>17, PeekLabelStep
  <2>4. QED
    BY <1>3, <2>1, <2>2, <2>3, ReachLabelled
<1>18. QED
  BY <1>7, <1>8, <1>9, <1>10, <1>11, <1>12, <1>13, <1>14, <1>15, <1>16, <1>17, Zenon DEF Next, Tagging, Translate

(* Blocks end by position and nest: only a kOpEndTell can make exitBlock     *)
(* leave the handler's own block, after which addStatement would write      *)
(* through a null pointer.  Every jump of the handler may lead anywhere.    *)
THEOREM BlocksNest == Spec => []OnlyEndTellLosesBlock
<1>1. Init => BlockInv /\ FilledInv
  BY BlockInvInit, FilledInit
<1>2. BlockInv /\ FilledInv /\ [Next]_vars => (BlockInv /\ FilledInv)'
  BY BlockInvNext, FilledNext
<1>3. BlockInv /\ FilledInv => OnlyEndTellLosesBlock
  <2>1. SUFFICES ASSUME BlockInv, FilledInv, NoEndTell
                 PROVE  cur # Null
    BY DEF OnlyEndTellLosesBlock, NoEndTell
  <2>2. PICK R \in SUBSET Nat : ReachInv(R)
    BY <2>1 DEF FilledInv
  <2>3. cur \in Node
    BY <2>1, <2>2, ReachFacts
  <2>4. QED
    BY <2>3 DEF Node, Null
<1>4. QED
  BY <1>1, <1>2, <1>3, PTL DEF Spec
=============================================================================

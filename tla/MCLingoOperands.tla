--------------------------- MODULE MCLingoOperands ---------------------------
(***************************************************************************)
(* Every shape of statement and expression over a few leaves, and every      *)
(* expression inside every operand of every statement; and every short       *)
(* sequence of instructions, compiled by nobody, above a value or nothing.   *)
(***************************************************************************)
EXTENDS LingoOperandsRoundTrip

MCVersions == {400, 500, 850}
MCNames == <<"x", "y", "p", "date", "foo", "sound", "play", "playFile", "getAt", "setAt",
             "getProp", "setProp", "count", "setContents", "setContentsAfter",
             "setContentsBefore", "hilite", "delete">>
MCArguments == <<"x", "i", "j", "a">>
MCLocals == <<"x", "i", "j", "b">>
MCHandlers == <<"first", "own">>
MCLiterals == <<Named("string", "spaced", <<>>), Named("string", "lines", <<>>),
                Named("string", "plain", <<>>)>>

X == Var("p")
A == Var("a")
B == Var("b")
One == Number(1)
Text == Named("string", "plain", <<>>)
ArgsOf(items) == {Plain("arglist", s) : s \in items}
Methods == {"foo", "getAt", "setAt", "getProp", "count", "delete"}

(* A member reference in a version: the library of the member, or 0.         *)
MemberOf(v, prefix, id) ==
  IF v < 500 THEN {Named("member", prefix, <<id>>)}
  ELSE {Named("member", prefix, <<id, lib>>) : lib \in {Number(0), A}}
MemberPrefixes(v) == {"field", "script", IF v < 500 THEN "cast" ELSE "member"}

(* Chunks of s: any levels, each with operands of its own.                   *)
LevelsOf(s, levels, first, last) ==
  LET at(type, t) == IF type \in levels
                     THEN Numbered("chunk", type, <<first[type], last[type], t>>) ELSE t
  IN  at(1, at(2, at(3, at(4, s))))
Firsts == <<Number(2), Number(4), Number(6), Number(8)>>
Lasts == <<Number(3), Number(5), Number(7), Number(9)>>
NoLasts == <<Number(0), Number(0), Number(0), Number(0)>>
Computed == <<A, Plain("binary", <<B, One>>), X, A>>
ChunksOf(s) ==
  UNION {{LevelsOf(s, levels, Firsts, Lasts), LevelsOf(s, levels, Computed, NoLasts)} :
           levels \in SUBSET (1 .. 4) \ {{}}}
SomeChunksOf(s) == {LevelsOf(s, {1, 4}, Firsts, NoLasts), LevelsOf(s, {2}, Computed, Lasts)}

OldVariables(v, id) ==
  {Named("varref", n, <<>>) : n \in {"p", "a", "b"}} \cup MemberOf(v, "field", id)

V4Properties(v, e) ==
  {N("the", t, id, <<>>) : t \in {"movie", "animation", "animation2"}, id \in {1, 2}}
  \cup {Numbered(k, id, <<e>>) : k \in {"lastchunk", "chunkcount", "menuprop", "soundprop", "spriteprop"},
                                 id \in {1, 4}}
  \cup {Numbered("menuitemprop", 1, <<e, B>>), Numbered("menuitemprop", 2, <<B, e>>)}
  \cup (IF v < 500 THEN {} ELSE {N("theprop", "animation2", 2, <<Named("member", "castLib", <<e>>)>>)})
  \cup UNION {{N("theprop", "member", 3, <<m>>) : m \in MemberOf(v, prefix, e)} : prefix \in MemberPrefixes(v)}

ChunkProperties(v) ==
  {N("theprop", "member", 3, <<c>>) :
     c \in UNION {SomeChunksOf(m) : m \in UNION {MemberOf(v, prefix, B) : prefix \in MemberPrefixes(v)}}}

(* Expressions with e somewhere inside.                                      *)
Around(v, e) ==
  {Plain(k, <<e, B>>) : k \in {"binary", "intersects", "within", "objbracket"}}
  \cup {Plain(k, <<B, e>>) : k \in {"binary", "intersects", "within", "objbracket"}}
  \cup {Plain("unary", <<e>>), Plain("list", <<>>), Plain("list", <<e, X>>), Plain("proplist", <<B, e>>)}
  \cup SomeChunksOf(e) \cup MemberOf(v, "field", e) \cup V4Properties(v, e)
  \cup {Named("the", "date", <<>>), Named("the", "foo", <<>>), Named("objprop", "p", <<e>>),
        Named("objprop", "count", <<e>>), Named("objprop", "count", <<Named("objprop", "p", <<e>>)>>)}
  \cup {Named("objpropindex", "p", <<e, A>>), Named("objpropindex", "p", <<X, e, B>>)}
  \cup {Named(k, "foo", <<args>>) : k \in {"call", "objcall", "newobj"},
                                    args \in ArgsOf({<<e>>, <<A, e, B>>})}
  \cup {Named("call", n, <<Plain("arglist", <<e>>)>>) : n \in {"own", "sound", "play"}}
  \cup {Plain("objcallv4", <<o, Plain("arglist", <<X, e>>)>>) : o \in OldVariables(v, B)}

Simple(v) == {X, A, One} \cup MemberOf(v, "field", B)
Expressions(v) ==
  {B, Text} \cup Around(v, X) \cup Around(v, Plain("list", <<A, One>>)) \cup ChunksOf(B) \cup ChunkProperties(v)
  \cup {Named("varref", n, <<>>) : n \in {"p", "a", "b"}}

Targets(v, e) == {X, A, B, Named("the", "foo", <<>>), Named("objprop", "p", <<e>>),
                  Plain("objbracket", <<X, e>>), Named("objpropindex", "p", <<e, A>>),
                  Named("objpropindex", "p", <<A, B, e>>)}
                 \cup V4Properties(v, e)

(* Statements with e somewhere inside.                                       *)
StatementsOn(v, e) ==
  {Plain("assign", <<t, e>>) : t \in Targets(v, B)}
  \cup {Plain("assign", <<t, X>>) : t \in Targets(v, e)}
  \cup {Numbered("put", 2, <<o, e>>) : o \in OldVariables(v, B)}
  \cup {Numbered("put", 3, <<c, e>>) : c \in UNION {SomeChunksOf(o) : o \in OldVariables(v, B)}}
  \cup {Numbered("put", 1, <<Named("objprop", "p", <<e>>), X>>)}
  \cup {Plain(k, <<c>>) : k \in {"delete", "hilite"},
                          c \in UNION {SomeChunksOf(o) : o \in MemberOf(v, "field", e) \cup {Named("objprop", "p", <<e>>)}}}
  \cup {Named(k, "foo", <<Plain("arglistnoret", <<A, e>>)>>) : k \in {"call", "objcall"}}
  \cup {Named("soundcmd", "playFile", <<Plain("arglistnoret", <<One, e>>)>>),
        Plain("playcmd", <<Plain("arglistnoret", <<e, A>>)>>),
        Named("call", "play", <<Plain("arglistnoret", <<e, A, B>>)>>),
        Named("call", "sound", <<Plain("arglistnoret", <<e, A>>)>>)}
  \cup {Plain("objcallv4", <<o, Plain("arglistnoret", <<X, e>>)>>) : o \in OldVariables(v, B)}

(* Statements that take e as the last or as an earlier operand.              *)
FewStatementsOn(v, e) ==
  {Plain("assign", <<A, e>>), Plain("assign", <<N("the", "movie", 6, <<>>), e>>),
   Plain("assign", <<Plain("objbracket", <<e, A>>), B>>),
   Numbered("put", 2, <<Named("varref", "a", <<>>), e>>),
   Named("call", "foo", <<Plain("arglistnoret", <<A, e, B>>)>>)}
  \cup {Numbered("put", 1, <<LevelsOf(m, {2}, <<X, e, X, X>>, Lasts), A>>) : m \in MemberOf(v, "field", B)}

(* Statements of which one is enough.                                        *)
OneOfAKind(v) ==
  {Plain("assign", <<t, c>>) : t \in ChunkProperties(v), c \in {X}}
  \cup {Plain("delete", <<c>>) : c \in UNION {ChunksOf(o) : o \in OldVariables(v, B)}}
  \cup {Plain("hilite", <<c>>) : c \in UNION {ChunksOf(o) : o \in MemberOf(v, "field", B)}}
  \cup {Numbered("put", k, <<c, A>>) : k \in 1 .. 3, c \in UNION {ChunksOf(o) : o \in OldVariables(v, B)}}
  \cup {N("when", s, id, <<>>) : s \in {"spaced", "lines"}, id \in {1, 5}}
  \cup {Plain("assign", <<N("the", "movie", id, <<>>), Text>>) : id \in {1, 5, 6}}
  \cup {Named("call", "own", <<Plain("arglistnoret", <<>>)>>), Plain("playcmd", <<Plain("arglistnoret", <<>>)>>)}
  \cup {Named("objcall", m, <<Plain("arglistnoret", <<X, Named("symbol", "p", <<>>)>>)>>) : m \in Methods}
  \cup {Named("objcall", m, <<Plain("arglistnoret", <<X, A>>)>>) : m \in {"foo", "count", "getAt"}}
  \cup {Plain("assign", <<A, Named("objcall", "setAt", <<Plain("arglist", <<X, One, B>>)>>)>>),
        Plain("assign", <<A, Named("objcall", "delete", <<Plain("arglist", <<X>>)>>)>>)}

MCTrees ==
  UNION {{[version |-> v, tree |-> t] :
            t \in OneOfAKind(v) \cup UNION {StatementsOn(v, e) : e \in Simple(v)}
                             \cup UNION {FewStatementsOn(v, e) : e \in Expressions(v)}} :
         v \in MCVersions}
-----------------------------------------------------------------------------
Code(op, obj) == [op |-> op, obj |-> obj]
Instructions ==
  {Code("pushint", 1), Code("pushsymb", 0), Code("pushcons", 32), Code("binary", 0), Code("swap", 0),
   Code("unknown", 0), Code("arglist", 2), Code("arglistnoret", 1), Code("pushlist", 0),
   Code("get", 5), Code("get", 0), Code("get", 12), Code("set", 0), Code("set", 5), Code("set", 30), Code("set", 2),
   Code("put", 22), Code("put", 23), Code("putchunk", 17), Code("deletechunk", 4), Code("hilitechunk", 0),
   Code("objcall", NameId("getAt")), Code("objcall", NameId("setProp")), Code("objcallv4", 4),
   Code("extcall", NameId("sound")), Code("extcall", Len(Names)), Code("localcall", 0),
   Code("setobjprop", 0), Code("newobj", 0)}

MCTasks == [version : {400, 500}, code : UNION {[1 .. n -> Instructions] : n \in 1 .. 3},
            below : {<<>>, <<Number(5)>>}]
=============================================================================

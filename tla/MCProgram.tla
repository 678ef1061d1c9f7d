------------------------------ MODULE MCProgram ------------------------------
(***************************************************************************)
(* Directories with up to MaxFiles files: every kind of extension, the same *)
(* stem under several extensions, files that cannot be decompiled.  Another  *)
(* output directory that is empty or has one file or directory with a name   *)
(* that a project or a dump may need.  Command lines of up to three phrases   *)
(* in every order, good and bad.                                           *)
(***************************************************************************)
EXTENDS Program

CONSTANTS MaxFiles, Extensions

AllKinds == {Dcr, Dxr, Cct, Dir, <<>>, <<".", "d">>, Dot("t", "x", "t")}
Movies == {Dcr, Dxr}
NamesOf == {Name(stem, e) : stem \in {<<"a">>, <<"a", "_decompiled">>}, e \in Extensions}

MCWords == {".", "c", "d", "i", "r", "s", "t", "x", "a", "_", "dump", "_decompiled"}
MCFolders ==
  UNION {[names -> Holdings] :
           names \in {n \in SUBSET NamesOf : Cardinality(n) \in 1 .. MaxFiles}}

Needed == {<<"a">>} \X {Dir, <<>>, <<"_", "dump">>}
MCOutputFolders ==
  {<<>>} \cup UNION {[{Name(n[1], n[2])} -> {"movie", "directory"}] : n \in Needed}
MCGivenNames == {Name(<<"a">>, e) : e \in {Dcr, Dir}} \cup {Name(<<"a", "_decompiled">>, Dir)}
-----------------------------------------------------------------------------
Both == All
Phrase(words, cmds, input, flags, output, style, bad) ==
  [words |-> words, cmds |-> cmds, input |-> input, flags |-> flags, output |-> output,
   style |-> style, bad |-> bad]

Long(name) == <<"-", "-", name>>
Values == {<<"x">>, <<>>, <<"-", "v">>, <<"decompile">>}

InputPhrases == {Phrase(<<w>>, Both, w, {}, None, None, FALSE) : w \in {<<"a">>, <<>>, <<"version">>}}
FlagPhrases ==
  {Phrase(<<Long(n)>>, Both, None, {n}, None, None, FALSE) : n \in {"dump-scripts", "verbose", "dump-json"}}
  \cup {Phrase(<<<<"-", "v">>>>, Both, None, {"verbose"}, None, None, FALSE),
        Phrase(<<<<"-", "v", "v">>>>, Both, None, {"verbose"}, None, None, FALSE)}
OutputPhrases ==
  {Phrase(<<Long("output"), v>>, {"decompile"}, None, {}, v, None, FALSE) : v \in Values}
  \cup {Phrase(<<Long("output") \o <<"=">> \o v>>, {"decompile"}, None, {}, v, None, FALSE) :
          v \in Values \cup {<<"=", "x">>}}
  \cup {Phrase(<<<<"-", "o">>, v>>, {"decompile"}, None, {}, v, None, FALSE) : v \in Values}
  \cup {Phrase(<<<<"-", "o">> \o v>>, {"decompile"}, None, {}, v, None, FALSE) : v \in {<<"x">>, <<"v">>, <<"=", "x">>}}
  \cup {Phrase(<<<<"-", "v", "o">>, v>>, {"decompile"}, None, {"verbose"}, v, None, FALSE) : v \in Values}
  \cup {Phrase(<<<<"-", "v", "o", "x">>>>, {"decompile"}, None, {"verbose"}, <<"x">>, None, FALSE)}
StylePhrases ==
  {Phrase(<<Long("style"), s>>, {"version"}, None, {}, None, s, FALSE) : s \in {<<"short">>, <<"long">>}}
  \cup {Phrase(<<Long("style") \o <<"=">> \o s>>, {"version"}, None, {}, None, s, FALSE) : s \in {<<"internal">>}}
BadPhrases ==
  {Phrase(<<w>>, Both, None, {}, None, None, TRUE) :
     w \in {<<"-">>, Long("wrong"), <<"-", "-">>, <<"-", "-", "=", "x">>, Long("verbose") \o <<"=">>,
            Long("dump-json") \o <<"=", "x">>, <<"-", "x">>, <<"-", "v", "x">>, <<"-", "v", "=", "x">>,
            Long("style") \o <<"=", "wrong">>}}
  \cup {Phrase(<<Long("style"), <<"wrong">>>>, Both, None, {}, None, None, TRUE)}
Good == InputPhrases \cup FlagPhrases \cup OutputPhrases \cup StylePhrases
AnyPhrase == Good \cup BadPhrases

(* At the end of a line only: nothing follows that could be its argument.    *)
Unfinished ==
  {Phrase(<<w>>, Both, None, {}, None, None, TRUE) : w \in {Long("output"), Long("style"), <<"-", "o">>, <<"-", "v", "o">>}}

PhraseLists ==
  {<<>>} \cup {<<p>> : p \in AnyPhrase \cup Unfinished}
  \cup {<<p, q>> : p \in AnyPhrase, q \in AnyPhrase \cup Unfinished}
  \cup {<<p, q, r>> : p \in Good, q \in InputPhrases, r \in Good}
  \cup {<<p, q, r>> : p \in InputPhrases, q \in Good, r \in OutputPhrases \cup StylePhrases}

(* Without a command the first word must not be one.                         *)
WordsOf(ps) == FlattenSeq([k \in DOMAIN ps |-> ps[k].words])
Line(word, c, ps) == [args |-> word \o WordsOf(ps), said |-> [cmd |-> c, phrases |-> ps]]
MCLines ==
  {Line(<<<<c>>>>, c, ps) : c \in Both, ps \in PhraseLists}
  \cup {Line(<<>>, "decompile", ps) : ps \in {q \in PhraseLists : q = <<>> \/ GetCommand(WordsOf(q)[1]) = None}}
OneLine == {Line(<<>>, "decompile", <<CHOOSE p \in InputPhrases : TRUE>>)}
=============================================================================

------------------------------- MODULE MCChunks -------------------------------
(***************************************************************************)
(* Scripts of every code of up to three instructions and in every order of   *)
(* their parts; cast members and configurations as Director may store them;  *)
(* sounds with every kind of header, cut at every byte, with every room up   *)
(* to a few bytes behind the header; and chunks of every class as lists of   *)
(* fields.                                                                 *)
(***************************************************************************)
EXTENDS Chunks, SequencesExt, FiniteSetsExt

ScriptMC == INSTANCE ScriptRoundTrip WITH Inputs <- {}
MemberMC == INSTANCE CastMember WITH Inputs <- {}
ConfigMC == INSTANCE ConfigChunk WITH Inputs <- {}

-----------------------------------------------------------------------------
(* Cast members with and without an info block, in both layouts, with        *)
(* headers that are longer than the program's, tables of 0 to 3 entries,     *)
(* names that are padded and texts that hold a zero.                        *)
Fields == <<0, 0, 0, 1, 0, 0, 0, 2, 0, 0, 0, 3, 0, 0, 0, 4>>

(* tail: bytes behind the last item that no item covers.                    *)
InfoBlock(pad, items, tail) ==
  LET Before(k) == MapThenSumSet(LAMBDA j : Len(items[j]), 1 .. k - 1)
      Table == FlattenSeq([k \in 1 .. Len(items) |-> MemberMC!Uint(4, Before(k))])
  IN  MemberMC!Uint(4, 20 + Len(pad)) \o Fields \o pad \o MemberMC!Uint(2, Len(items)) \o Table
      \o MemberMC!Uint(4, Before(Len(items) + 1)) \o FlattenSeq(items) \o tail

TextItems == {<<>>, <<65, 66>>, <<65, 0, 66>>}
NameItems == {<<>>, <<0>>, <<2, 67, 68>>, <<1, 67, 0>>, <<3, 67>>}
ItemLists ==
  {<<>>} \cup {<<t>> : t \in TextItems} \cup {<<t, n>> : t \in TextItems, n \in NameItems}
         \cup {<<t, n, <<7, 0>>, e>> : t \in TextItems, n \in NameItems, e \in {<<>>, <<9>>}}

InfoBlocks ==
  {<<>>} \cup {InfoBlock(<<>>, items, <<>>) : items \in ItemLists}
         \cup {InfoBlock(<<5, 5>>, items, <<8>>) : items \in ItemLists}

ModernMember(type, specific, info) ==
  [version |-> 500,
   data |-> MemberMC!Uint(4, type) \o MemberMC!Uint(4, Len(info)) \o MemberMC!Uint(4, Len(specific)) \o info \o specific]

(* specific: from the type on.                                              *)
OlderMember(specific, info) ==
  [version |-> 400,
   data |-> MemberMC!Uint(2, Len(specific)) \o MemberMC!Uint(4, Len(info)) \o specific \o info]

MCMembers ==
  {ModernMember(MemberMC!ScriptMemberType, s, i) : s \in {<<0>>, <<0, 3>>}, i \in InfoBlocks}
  \cup {ModernMember(1, <<>>, i) : i \in InfoBlocks}
  \cup {OlderMember(s, i) : s \in {<<1>>, <<1, 6>>, <<11, 6, 0, 3>>}, i \in InfoBlocks}
MCTexts == {<<>>, <<71>>, <<72, 73, 74>>}
-----------------------------------------------------------------------------
(* Configurations of every layout with each field at its extremes.          *)
Typical(name) ==
  CASE name = "len" -> 70 [] name = "fileVersion" -> 1219 [] name = "movieTop" -> 10
    [] name = "movieBottom" -> 490 [] name = "movieRight" -> 650 [] name = "maxMember" -> 40
    [] name = "commentStyle" -> 770 [] name = "protection" -> 46 [] name = "frameRate" -> 15
    [] name = "platform" -> -1 [] name = "bitDepth" -> 8 [] name = "field19" -> 100000
    [] OTHER -> 5

Extremes(f) ==
  CASE f[2] = 1 /\ f[3] -> {-128, -1, 0, 127}
    [] f[2] = 1 /\ ~f[3] -> {0, 128, 255}
    [] f[2] = 2 /\ f[3] -> {-32768, -1, 0, 32767}
    [] f[2] = 2 /\ ~f[3] -> {0, 255, 256, 65535}
    [] f[2] = 4 -> {-2147483647 - 1, -1, 0, 2147483647}

DirectorVersions == {1028, 1201, 1223, 1224, 1409, 1410, 1951}
Names(layout) == {layout[i][1] : i \in DOMAIN layout}
TypicalOf(v) ==
  [name \in Names(ConfigMC!Layout(ConfigMC!HumanVersion(v))) |-> IF name = "directorVersion" THEN v ELSE Typical(name)]

BytesOf(c, checksum, rest) ==
  LET layout == ConfigMC!Layout(ConfigMC!HumanVersion(c["directorVersion"]))
  IN  FlattenSeq([i \in DOMAIN layout |-> ConfigMC!NumberBytes(layout[i][2], c[layout[i][1]])]) \o checksum \o rest

Variants(v) ==
  LET layout == ConfigMC!Layout(ConfigMC!HumanVersion(v))
  IN  UNION {{[TypicalOf(v) EXCEPT ![layout[i][1]] = x] : x \in Extremes(layout[i])} :
               i \in {j \in DOMAIN layout : layout[j][1] \notin {"len", "directorVersion"}}}
Stages(v) ==
  {[TypicalOf(v) EXCEPT !["movieTop"] = t, !["movieBottom"] = b] :
     t \in -5 .. 0, b \in -6 .. 0}
Protections(v) == {[TypicalOf(v) EXCEPT !["protection"] = p] : p \in -47 .. 47}
Lengths(v) == {[TypicalOf(v) EXCEPT !["len"] = n] : n \in {-1, 0, 66, 68, 70, 71}}

SomeVersions == {1201, 1224, 1410}
Arithmetic == UNION {Stages(v) \cup Protections(v) : v \in SomeVersions}
Varied == UNION {Variants(v) : v \in DirectorVersions}
Wrong == <<1, 2, 3, 4>>
MCConfigs ==
  {[little |-> e, data |-> BytesOf(c, Wrong, <<7, 8>>)] : e \in BOOLEAN, c \in Varied}
  \cup {[little |-> FALSE, data |-> BytesOf(c, Wrong, <<7, 8>>)] : c \in Arithmetic}
  \cup {[little |-> FALSE, data |-> BytesOf(c, Wrong, rest)] :
          c \in UNION {Lengths(v) : v \in DirectorVersions}, rest \in {<<>>, <<9>>, <<7, 8>>, <<7, 8, 9>>}}
  \cup {[little |-> TRUE, data |-> SubSeq(BytesOf(TypicalOf(1201), Wrong, <<>>), 1, n)] : n \in {67, 68}}
-----------------------------------------------------------------------------
(* Sounds for SoundDecoder, a few bytes long.                                *)
Header(format, count, commands, encode, channels, sampleSize) ==
  [format |-> format, count |-> count, commands |-> commands, encode |-> encode,
   channels |-> channels, sampleSize |-> sampleSize]

SizeOf(h) ==
  28 + (IF h.format = 1 THEN 6 * h.count ELSE 0) + 8 * h.commands
  + (IF h.encode \in {"extended", "compressed"} THEN 42 ELSE 0)

SoundOf(h, size, skip, audio, found, short, space) ==
  [format |-> h.format, count |-> h.count, commands |-> h.commands, encode |-> h.encode,
   channels |-> h.channels, sampleSize |-> h.sampleSize, size |-> size, skip |-> skip,
   audio |-> audio, found |-> found, short |-> short, uncompressedLen |-> space]

Found(channels, encoding) ==
  [rateDiffers |-> FALSE, channels |-> channels, encoding |-> encoding]
Mp3 == 1     (* Bytes of MP3 data; none for a chunk that is cut.            *)

Headers ==
  {Header(format, count, 1, encode, 1, 8) :
     format \in {1, 2}, count \in {0, 2}, encode \in {"standard", "extended", "unknown"}}
  \cup {Header(1, 1, 2, "compressed", 2, 16)}

Cut ==
  UNION {{SoundOf(h, size, 0, 0, Found(1, 8), FALSE, SizeOf(h)) : size \in 0 .. SizeOf(h) + 4}
         : h \in Headers}
Narrow ==
  UNION {{SoundOf(h, SizeOf(h) + 4 + Mp3, 0, 2, Found(1, 8), FALSE, space) : space \in 0 .. SizeOf(h) + 1}
         : h \in Headers}
Empty == {SoundOf(h, 0, 0, 0, Found(1, 8), FALSE, 0) : h \in Headers}

Standard == Header(2, 0, 0, "standard", 0, 0)
ExtendedHeader(channels, sampleSize) == Header(2, 0, 0, "extended", channels, sampleSize)
Bits(sampleSize) == IF sampleSize = 8 THEN 8 ELSE 16

Decoded ==
  LET With(h, found) ==
        {SoundOf(h, SizeOf(h) + 4 + Mp3, skip, audio, found, short, SizeOf(h) + space) :
           skip \in 0 .. 2, audio \in {0, 1, 4, 7, 9}, short \in BOOLEAN, space \in {0, 1, 3}}
  IN  With(Standard, Found(1, 8))
      \cup UNION {With(ExtendedHeader(channels, sampleSize), Found(channels, Bits(sampleSize))) :
                   channels \in 1 .. 2, sampleSize \in {8, 16, 24}}

Mismatched ==
  {SoundOf(h, SizeOf(h) + 4 + Mp3, 1, 4, found, FALSE, SizeOf(h) + 2) :
     h \in {ExtendedHeader(channels, sampleSize) : channels \in 1 .. 3, sampleSize \in {8, 16, 24}},
     found \in {Found(channels, bits) : channels \in 1 .. 2, bits \in {8, 16}}
               \cup {[rateDiffers |-> TRUE, channels |-> 1, encoding |-> 8]}}

MCSounds == Cut \cup Narrow \cup Empty \cup Decoded \cup Mismatched
-----------------------------------------------------------------------------
(* Every code of up to three instructions, and whole scripts in every order *)
(* of their parts.                                                          *)
Ins(op, width, arg) == [op |-> op, width |-> width, arg |-> arg, to |-> 0]
Jump(op, width, to) == [op |-> op, width |-> width, arg |-> 0, to |-> to]
Ret == Ins(1, 0, 0)

Pushes ==
  {Ins(65, 1, a) : a \in {-128, -1, 127}} \cup {Ins(65, 2, a) : a \in {-32768, 300}}
  \cup {Ins(65, 4, -70000)} \cup {Ins(110, 2, a) : a \in {-1, 32767}} \cup {Ins(111, 4, a) : a \in {-2, 2147483647}}
Others == {Ins(3, 0, 0), Ins(68, 1, 200), Ins(68, 2, 65535), Ins(68, 4, 65536), Ins(115, 1, 255)}
SomeOthers == {Ins(3, 0, 0), Ins(65, 2, -7), Ins(68, 1, 255), Ins(111, 4, -2)}
JumpsFrom(i, len) ==
  {Jump(op, w, to) : op \in {83, 85}, w \in {1, 2, 4}, to \in i + 1 .. len}
  \cup {Jump(84, w, to) : w \in {1, 2}, to \in 1 .. i}
Codes ==
  {<<a, Ret>> : a \in Pushes \cup Others \cup JumpsFrom(1, 2)}
  \cup {<<a, b, c, Ret>> : a \in SomeOthers \cup JumpsFrom(1, 4), b \in SomeOthers, c \in SomeOthers \cup JumpsFrom(3, 4)}

Handler(name, code, arguments, locals, globals) ==
  [name |-> name, code |-> code, arguments |-> arguments, locals |-> locals, globals |-> globals]

PartsOf(n) ==
  <<<<"properties", 0>>, <<"globals", 0>>>>
  \o FlattenSeq([k \in 1 .. n |-> <<<<"code", k>>, <<"arguments", k>>, <<"locals", k>>, <<"handlerGlobals", k>>>>])
  \o <<<<"records", 0>>, <<"literals", 0>>, <<"values", 0>>>>
Layouts(n) == {PartsOf(n), Reverse(PartsOf(n)),
               <<<<"records", 0>>>> \o SelectSeq(PartsOf(n), LAMBDA p : p[1] # "records")}

NameStrings == <<<<97>>, ScriptMC!Me, <<98, 99>>, <<>>>>

Program(v, flags, factory, properties, globals, hs, ls, layout, floatLen) ==
  [version |-> v, flags |-> flags, factory |-> factory, properties |-> properties, globals |-> globals,
   handlers |-> hs, literals |-> ls, names |-> NameStrings, layout |-> layout, floatLen |-> floatLen]

CodeInputs ==
  {ScriptMC!Stored(Program(500, 0, -1, <<0>>, <<>>, <<Handler(0, code, <<>>, <<2>>, <<>>)>>, <<>>, PartsOf(1), 8), 1, 0, 0) :
     code \in Codes}

One == Handler(2, <<Ins(65, 1, -5), Jump(85, 1, 3), Ret>>, <<1, 0, 3>>, <<2, -1>>, <<>>)
Two == Handler(-1, <<Jump(83, 2, 2), Ins(110, 2, -300), Ins(68, 1, 1), Ret>>, <<9>>, <<>>, <<0, 7, 2>>)
HandlerLists == {<<>>, <<One>>, <<One, Two>>, <<Two, One>>}

Double(sign, exponent, fill) ==
  <<128 * sign + exponent \div 16, 16 * (exponent % 16) + (fill % 16)>> \o [k \in 1 .. 6 |-> (fill + 37 * k) % 256]
Zero == ScriptMC!Datum("float", 0, ScriptMC!Zero64)
Exponents == {1, 2, 1022, 1023, 1024, 2045, 2046, 2047}
Floats == {ScriptMC!Datum("float", 0, Double(s, e, f)) : s \in {0, 1}, e \in Exponents, f \in {0, 171, 255}}
TextLiterals == {ScriptMC!Datum("string", 0, <<>>), ScriptMC!Datum("string", 0, <<104, 105>>)}
Ints == {ScriptMC!Datum("int", n, <<>>) : n \in {0, -1, -2147483647 - 1, 2147483647}}
LiteralLists ==
  {<<>>} \cup {<<t, i>> : t \in TextLiterals, i \in Ints} \cup {<<i, f, t>> : i \in {ScriptMC!Datum("int", 7, <<>>)}, f \in {Zero}, t \in TextLiterals}
  \cup {<<ScriptMC!Datum("void", 0, <<>>), ScriptMC!Datum("string", 0, <<104, 105>>)>>}

Versions == {404, 500, 850}
Plain(v, hs, ls, layout, fl) == Program(v, 0, -1, <<1, 0, 12>>, <<0>>, hs, ls, layout, fl)
LayoutInputs ==
  UNION {{ScriptMC!Stored(Plain(v, hs, ls, layout, 10), 1, 0, 0) :
            v \in Versions, ls \in LiteralLists, layout \in Layouts(Len(hs))} : hs \in HandlerLists}
NameInputs ==
  {ScriptMC!Stored(Program(404, flags, factory, <<1, 0, 12>>, <<0>>, hs, <<>>, PartsOf(Len(hs)), 10), listed, 0, 0) :
     flags \in {0, 16, 512}, factory \in {-1, 2, 9}, hs \in HandlerLists, listed \in {1, 2}}
FloatInputs ==
  {ScriptMC!Stored(Program(v, 0, -1, <<>>, <<>>, <<>>, <<f, Zero>>, PartsOf(0), fl), 1, 0, 0) :
     v \in Versions, f \in Floats, fl \in {8, 10}}

(* Damage.                                                                  *)
Some(fl) ==
  UNION {{Plain(v, hs, ls, layout, fl) : v \in {404, 500}, layout \in Layouts(Len(hs)),
                                         ls \in {<<ScriptMC!Datum("int", 7, <<>>), Zero, ScriptMC!Datum("string", 0, <<104, 105>>)>>}} :
           hs \in {<<>>, <<Two, One>>}}
CutInputs == {ScriptMC!Stored(p, 1, cut, 0) : p \in Some(10), cut \in 1 .. 120}
(* Eight-byte doubles, the last of them at the end of the chunk or not.      *)
CutDoubles ==
  UNION {{ScriptMC!Stored(Plain(v, <<>>, <<ScriptMC!Datum("string", 0, <<104, 105>>), Zero, f>>, layout, 8), 1, cut, 0) :
            v \in {404, 500}, layout \in Layouts(0), cut \in 1 .. 14} :
         f \in {ScriptMC!Datum("float", 0, Double(1, e, 171)) : e \in {1024, 2046}}}
LengthInputs ==
  {ScriptMC!Stored(p, 1, 0, e) : p \in {q \in Some(10) : Len(q.handlers) = 2}, e \in (-6 .. 12) \ {0}}

MCScripts == CodeInputs \cup LayoutInputs \cup NameInputs \cup FloatInputs \cup CutInputs
             \cup CutDoubles \cup LengthInputs
-----------------------------------------------------------------------------
(* For ChunkDump: the versions at which a layout changes, lists of up to two  *)
(* elements, members with and without info, whole (All is longer than any    *)
(* chunk) and cut early.                                                    *)
All == 1000
Of(class, v, n, holds) ==
  [kind |-> class, version |-> v, count |-> n, holds |-> holds,
   info |-> FALSE, script |-> FALSE, flags1 |-> FALSE]
Classes ==
  {"InitialMap", "KeyTable", "Cast", "CastList", "Config", "Script", "ScriptContext", "ScriptNames"}

MCObjects ==
  {Of(class, v, n, holds) :
     class \in Classes, v \in {404, 500, 700, 850}, n \in 0 .. 2, holds \in {3, All}}
  \cup {Of("MemoryMap", 500, n, holds) : n \in -1 .. 2, holds \in {6, All}}
  \cup {[kind |-> "CastMember", version |-> v, count |-> 0, holds |-> holds,
         info |-> info, script |-> hasScript, flags1 |-> flags1] :
          v \in {404, 500}, holds \in {2, All}, info \in BOOLEAN, hasScript \in BOOLEAN,
          flags1 \in BOOLEAN}
=============================================================================

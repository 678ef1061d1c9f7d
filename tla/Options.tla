-------------------------------- MODULE Options --------------------------------
(***************************************************************************)
(* The command line: Options of src/src/io/options.cpp.                    *)
(*                                                                         *)
(* An argument is the sequence of its characters, except that the long name *)
(* of an option, a command and a word without meaning count as one.         *)
(***************************************************************************)
EXTENDS Integers, Sequences, SequencesExt, FiniteSets

CONSTANTS
  Lines,      (* [args, said]: the arguments after the program's name, and    *)
              (* what they are made of.                                    *)
  None        (* Nothing: no command, no option, no value.                  *)
ASSUME LinesAssumption == \A said \in Lines : said.args \in Seq(Seq(STRING))

VARIABLES
  line,
  phase,      (* "start", "options", "valid" or "refused".                   *)
  i,          (* Which argument is next.                                    *)
  cmd,
  inputFile,
  noArg,      (* _optionsNoArg: long names.                                 *)
  strings,    (* _stringOptions: argument by long name.                     *)
  enums       (* _enumOptions.                                              *)

options == <<line, phase, i, cmd, inputFile, noArg, strings, enums>>
args == line.args
-----------------------------------------------------------------------------
(***************************************************************************)
(* The tables.                                                             *)
(***************************************************************************)
DecompileCommand == "decompile"
VersionCommand == "version"
All == {DecompileCommand, VersionCommand}
Styles == {<<"long">>, <<"short">>, <<"integer">>, <<"internal">>}

Option(debug, cmds, name, letter, takesArg, values) ==
  [debug |-> debug, cmds |-> cmds, name |-> name, letter |-> letter,
   takesArg |-> takesArg, values |-> values]

OptionInfo ==
  {Option(FALSE, {DecompileCommand}, "output", "o", TRUE, {}),
   Option(FALSE, All, "dump-scripts", None, FALSE, {}),
   Option(FALSE, {VersionCommand}, "style", None, TRUE, Styles),
   Option(TRUE, All, "verbose", "v", FALSE, {}),
   Option(TRUE, All, "dump-chunks", None, FALSE, {}),
   Option(TRUE, All, "dump-json", None, FALSE, {})}

GetCommand(arg) == IF arg \in {<<c>> : c \in All} THEN arg[1] ELSE None

InfoFor(test(_)) ==
  IF \E info \in OptionInfo : test(info) THEN CHOOSE info \in OptionInfo : test(info) ELSE None
LongInfo(name) == InfoFor(LAMBDA info : <<info.name>> = name)
ShortInfo(letter) == InfoFor(LAMBDA info : info.letter = letter)

AcceptedByAny(info) == info # None   (* forgets the command *)
Accepted(info) == info # None /\ cmd \in info.cmds
-----------------------------------------------------------------------------
SetTo(f, key, value) == [k \in DOMAIN f \cup {key} |-> IF k = key THEN value ELSE f[k]]

RefuseLine ==
  /\ phase' = "refused"
  /\ UNCHANGED <<line, i, cmd, inputFile, noArg, strings, enums>>

(* Without a known command the first argument is one like the others.       *)
ParseCommand ==
  /\ phase = "start"
  /\ IF args = <<>> THEN RefuseLine
     ELSE LET c == GetCommand(args[1])
          IN  /\ cmd' = IF c = None THEN DecompileCommand ELSE c
              /\ i' = IF c = None THEN 1 ELSE 2
              /\ phase' = "options"
              /\ UNCHANGED <<line, inputFile, noArg, strings, enums>>

ValueIsTaken(info, arg) == FALSE   (* whatever it is *)
ValueIsRefused(info, arg) == info.takesArg /\ info.values # {} /\ arg \notin info.values

(* The argument after an option and its own argument, if that is the next.   *)
NextArgLate(fromNext) == IF fromNext THEN i + 1 ELSE i   (* without the i++ of the loop *)
NextArg(fromNext) == IF fromNext THEN i + 2 ELSE i + 1

(* The last step for every option: info, its argument if one was found in    *)
(* the same word, and the letters before it in the word.                    *)
Take(info, value, before) ==
  LET fromNext == info.takesArg /\ value = None
      arg      == IF fromNext /\ i < Len(args) THEN args[i + 1] ELSE value
  IN  IF \/ fromNext /\ i = Len(args)
         \/ ValueIsRefused(info, arg)
         \/ ~info.takesArg /\ value # None
      THEN RefuseLine
      ELSE /\ i' = NextArg(fromNext)
           /\ noArg' = noArg \cup before \cup (IF info.takesArg THEN {} ELSE {info.name})
           /\ strings' = IF info.takesArg /\ info.values = {} THEN SetTo(strings, info.name, arg) ELSE strings
           /\ enums' = IF info.takesArg /\ info.values # {} THEN SetTo(enums, info.name, arg) ELSE enums
           /\ UNCHANGED <<line, phase, cmd, inputFile>>

IsOption(arg) == arg # <<>> /\ arg[1] = "-"
IsLong(arg) == Len(arg) > 1 /\ arg[2] = "-"

ParseLongOption ==
  /\ phase = "options" /\ i <= Len(args)
  /\ IsOption(args[i]) /\ IsLong(args[i])
  /\ LET option == SubSeq(args[i], 3, Len(args[i]))
         equals == {k \in DOMAIN option : option[k] = "="}
         first  == CHOOSE k \in equals : \A l \in equals : k <= l
         info   == LongInfo(IF equals = {} THEN option ELSE SubSeq(option, 1, first - 1))
         value  == IF equals = {} THEN None ELSE SubSeq(option, first + 1, Len(option))
     IN  IF ~Accepted(info) THEN RefuseLine ELSE Take(info, value, {})

(* Letters up to the first that takes an argument, which is then the rest of *)
(* the word, or the last of the word.                                      *)
TakesRest(letters, k) == k < Len(letters) /\ ShortInfo(letters[k]).takesArg
EndsWord(letters, k) ==
  Accepted(ShortInfo(letters[k])) => k = Len(letters) \/ TakesRest(letters, k)
LastLetter(letters) ==
  CHOOSE k \in DOMAIN letters : EndsWord(letters, k) /\ \A l \in 1 .. k - 1 : ~EndsWord(letters, l)

NoFlagsBefore(letters, k) == {}   (* forgets them *)
FlagsBefore(letters, k) == {ShortInfo(letters[l]).name : l \in 1 .. k - 1}

ParseShortOptions ==
  /\ phase = "options" /\ i <= Len(args)
  /\ IsOption(args[i]) /\ ~IsLong(args[i])
  /\ LET letters == Tail(args[i])
     IN  IF letters = <<>> THEN RefuseLine
         ELSE LET k    == LastLetter(letters)
                  info == ShortInfo(letters[k])
              IN  IF ~Accepted(info) THEN RefuseLine
                  ELSE Take(info, IF TakesRest(letters, k) THEN SubSeq(letters, k + 1, Len(letters)) ELSE None,
                            FlagsBefore(letters, k))

ParseInputFile ==
  /\ phase = "options" /\ i <= Len(args)
  /\ ~IsOption(args[i])
  /\ IF inputFile # None THEN RefuseLine
     ELSE /\ inputFile' = args[i]
          /\ i' = i + 1
          /\ UNCHANGED <<line, phase, cmd, noArg, strings, enums>>

Finish ==
  /\ phase = "options" /\ i > Len(args)
  /\ IF inputFile = None THEN RefuseLine
     ELSE /\ phase' = "valid"
          /\ UNCHANGED <<line, i, cmd, inputFile, noArg, strings, enums>>

OptionsInit ==
  /\ line \in Lines
  /\ phase = "start"
  /\ i = 1
  /\ cmd = None
  /\ inputFile = None
  /\ noArg = {}
  /\ strings = [n \in {} |-> None]
  /\ enums = [n \in {} |-> None]

OptionsNext == ParseCommand \/ ParseLongOption \/ ParseShortOptions \/ ParseInputFile \/ Finish
-----------------------------------------------------------------------------
(***************************************************************************)
(* What the usage text lists for a command, or for all when there is none:   *)
(* its own options, then the debug options of any.                          *)
(***************************************************************************)
GetOptionTextOfOne(cmds, debug) ==   (* compares where one of several is meant *)
  {info \in OptionInfo : info.cmds = cmds /\ info.debug = debug}
GetOptionText(cmds, debug) ==
  {info \in OptionInfo : info.cmds \cap cmds # {} /\ info.debug = debug}
UsageOf(c) ==
  (IF c = None THEN UNION {GetOptionText({d}, FALSE) : d \in All} ELSE GetOptionText({c}, FALSE))
  \cup GetOptionText(All, TRUE)
-----------------------------------------------------------------------------
(***************************************************************************)
(* What a command line says.  It is made of phrases: an input, or an option  *)
(* with its argument, if any, in one of its spellings.  "said" is its        *)
(* command and its phrases, each with the commands that have it and what it  *)
(* sets: [cmds, input, flags, output, style, bad]; bad, if no command line    *)
(* may have it.                                                            *)
(***************************************************************************)
Phrases == line.said.phrases
InputsSaid == SelectSeq(Phrases, LAMBDA p : p.input # None)
OutputsSaid == SelectSeq(Phrases, LAMBDA p : p.output # None)
StylesSaid == SelectSeq(Phrases, LAMBDA p : p.style # None)
IsGood ==
  /\ \A k \in DOMAIN Phrases : ~Phrases[k].bad
  /\ \A k \in DOMAIN Phrases : Phrases[k].cmds \cap {line.said.cmd} # {}
  /\ Len(InputsSaid) = 1

LineEnded == phase \in {"valid", "refused"}

OptionsTypeOK ==
  /\ phase \in {"start", "options", "valid", "refused"}
  /\ i \in 1 .. Len(args) + 1
  /\ cmd \in All \cup {None}
  /\ noArg \subseteq {info.name : info \in OptionInfo}
  /\ DOMAIN strings \subseteq {"output"}
  /\ DOMAIN enums \subseteq {"style"} /\ \A n \in DOMAIN enums : enums[n] \in Styles

(***************************************************************************)
(* A command line is accepted if and only if it is one input and options of  *)
(* its command, in whatever order and spelling.                            *)
(***************************************************************************)
AcceptsWhatIsGood == LineEnded => (phase = "valid" <=> IsGood)

(***************************************************************************)
(* What is accepted is taken as it was said: every flag, the input and, of    *)
(* an option that is given twice, the later value, even one that begins like *)
(* an option.                                                              *)
(***************************************************************************)
MeansWhatIsSaid ==
  phase = "valid" =>
    /\ cmd = line.said.cmd
    /\ inputFile = InputsSaid[1].input
    /\ noArg = UNION {Phrases[k].flags : k \in DOMAIN Phrases}
    /\ strings = [n \in (IF OutputsSaid = <<>> THEN {} ELSE {"output"}) |-> Last(OutputsSaid).output]
    /\ enums = [n \in (IF StylesSaid = <<>> THEN {} ELSE {"style"}) |-> Last(StylesSaid).style]

(***************************************************************************)
(* The usage printed for a command lists exactly the options the parser       *)
(* accepts for it.                                                         *)
(***************************************************************************)
UsageListsWhatIsAccepted ==
  cmd # None => UsageOf(cmd) = {info \in OptionInfo : Accepted(info)}
=============================================================================

-------------------------------- MODULE Program --------------------------------
(***************************************************************************)
(* The whole program: main of src/src/main.cpp parses the command line      *)
(* (Options) and then does what it says (BatchRun).  Which files there are,  *)
(* and what is under the names on the command line, shows when it begins.    *)
(***************************************************************************)
EXTENDS Options, BatchRun

files == <<folder, command, disk, elsewhere, todo, handled>>
all == <<options, files, status>>
-----------------------------------------------------------------------------
(* Nothing is known of the files yet.                                       *)
NotYet == "parsing"
Parsing == status = NotYet
NoCommand == [cmd |-> "none", input |-> "none", dump |-> FALSE, name |-> NoName, output |-> "none"]
ProgramInit ==
  /\ OptionsInit
  /\ folder = <<>> /\ command = NoCommand /\ disk = <<>> /\ elsewhere = <<>>
  /\ todo = {} /\ handled = {} /\ status = NotYet

Parse == Parsing /\ OptionsNext /\ UNCHANGED <<files, status>>

DumpOptions == {"dump-scripts", "dump-chunks", "dump-json"}

(* main takes from the options what it will look at; that the arguments are  *)
(* put away shows in nothing.                                              *)
Taken == "taken"
TakeOptions ==
  /\ Parsing /\ phase = "valid"
  /\ status' = Taken
  /\ noArg' = IF noArg \cap DumpOptions = {} THEN {} ELSE DumpOptions
  /\ strings' = [name \in DOMAIN strings |-> None]
  /\ line' = None /\ inputFile' = None /\ i' = 0 /\ enums' = <<>>
  /\ UNCHANGED <<phase, cmd, files>>

(* The files there are, then what the names on the command line stand for.   *)
Found == "found"
FindFiles ==
  /\ status = Taken
  /\ \E there \in Folders : folder' = there /\ disk' = Stored(there)
  /\ status' = Found
  /\ UNCHANGED <<options, command, elsewhere, todo, handled>>

IsAsked(c) ==
  /\ c.cmd = cmd
  /\ c.dump = (noArg # {})
  /\ "output" \notin DOMAIN strings => c.output = "default"

Begin ==
  /\ status = Found
  /\ \E c \in {d \in Commands(folder) : IsAsked(d)} :
       command' = c /\ todo' \in InputsOf(folder, c)
  /\ elsewhere' \in Elsewheres(command')
  /\ status' = "running"
  /\ cmd' = None /\ noArg' = {} /\ strings' = <<>>
  /\ UNCHANGED <<line, phase, i, inputFile, enums, folder, disk, handled>>

(* The usage is printed.                                                   *)
GiveUp ==
  /\ Parsing /\ phase = "refused"
  /\ status' = "failure"
  /\ UNCHANGED <<options, files>>

HasBegun == status \notin {NotYet, Taken, Found}
Run == HasBegun /\ Next /\ UNCHANGED options

ProgramNext == Parse \/ TakeOptions \/ FindFiles \/ Begin \/ GiveUp \/ Run

(* One thread that runs its next statement.                                 *)
ProgramSpec == ProgramInit /\ [][ProgramNext]_all /\ WF_all(ProgramNext)
-----------------------------------------------------------------------------
(***************************************************************************)
(* Properties, beside those of BatchRun.                                   *)
(***************************************************************************)
(* The type invariants of both parts, each while it is at work.             *)
ProgramTypeOK == (Parsing => OptionsTypeOK) /\ (HasBegun => TypeOK)

(* A command line is accepted if and only if it is one input and options of  *)
(* its command, in whatever order and spelling, and then it is taken as it    *)
(* was said: every flag, the input and, of an option that is given twice, the *)
(* later value, even one that begins like an option (Options::parse).  The    *)
(* usage lists what is accepted, no more and no less (printUsage).           *)
LineIsTakenAsSaid ==
  Parsing => AcceptsWhatIsGood /\ MeansWhatIsSaid /\ UsageListsWhatIsAccepted

(* The program ends, though an option moves the loop over the arguments on   *)
(* (options.cpp:197) and files appear in the directory it is reading.        *)
ProgramEnds == <>(status \in {"success", "failure", "crashed"})
=============================================================================

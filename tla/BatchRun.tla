------------------------------- MODULE BatchRun -------------------------------
(***************************************************************************)
(* One run of the program on a file or on a directory of files: main and    *)
(* processFile of src/src/main.cpp, with the naming of outputs and the      *)
(* comparison of extensions in src/src/common/util.cpp.                     *)
(*                                                                         *)
(* A directory is visited in no particular order, and a file that is        *)
(* created in it meanwhile may or may not be visited.  What a file holds is  *)
(* all that reading it depends on.  What was asked for is the command;       *)
(* Program says which command lines mean it.                               *)
(***************************************************************************)
EXTENDS FileNames, Integers, FiniteSets, SequencesExt

VARIABLES
  folder,     (* The directory as it was; never changes.                    *)
  command,    (* What to do, where the input and the output are, and        *)
              (* whether there is something to dump.                       *)
  disk,       (* The directory: what is under each name.                    *)
  elsewhere,  (* The output directory, when there is another one.           *)
  todo,       (* Names in the directory that are still to be visited.       *)
  handled,    (* Names that were processed to the end.                      *)
  status      (* "running", "success", "failure" or "crashed".              *)

vars == <<folder, command, disk, elsewhere, todo, handled, status>>
With(f, key, value) == [k \in DOMAIN f \cup {key} |-> IF k = key THEN value ELSE f[k]]

(* stricmp goes on while the first string lasts: it finds every prefix      *)
(* equal.  For an empty one it compares two variables it has not set.       *)
ComparesEqual(a, b) == IF a = <<>> THEN BOOLEAN ELSE {IsPrefix(a, b)}
-----------------------------------------------------------------------------
Source(name) == disk[name].holds \in {"movie", "cast"}
AlwaysDir(name) == Dir   (* takes a cast for a movie *)
NewExtension(name) == IF disk[name].holds = "cast" THEN Cst ELSE Dir

UnsuffixedOutput(name, equal) == Name(name.stem, NewExtension(name))
OutputName(name, equal) ==
  Name(IF equal THEN Append(name.stem, "_decompiled") ELSE name.stem, NewExtension(name))

(* The dump goes to a directory that is named after the stem, with a suffix *)
(* if there is no extension to drop.                                       *)
BareDumpName(name) == Name(name.stem, <<>>)
DumpName(name) == Name(name.stem, IF name.ext = <<>> THEN <<"_", "dump">> ELSE <<>>)

(* create_directory throws when there is a file of that name.               *)
Target == IF command.output = "other directory" THEN elsewhere ELSE disk
CannotDump(name) ==
  /\ command.dump
  /\ DumpName(name) \in DOMAIN Target
  /\ Target[DumpName(name)] # Directory
Dumped(name) == IF command.dump THEN With(Target, DumpName(name), Directory) ELSE Target

Put(target) ==
  IF command.output = "other directory"
  THEN elsewhere' = target /\ UNCHANGED disk
  ELSE disk' = target /\ UNCHANGED elsewhere

Reject(name) ==
  /\ disk[name].holds = "rejected"
  /\ status' = "failure"
  /\ UNCHANGED <<disk, elsewhere, handled>>

(* Before or after the directory for the dump is made.                      *)
Throw(name) ==
  /\ \/ disk[name].holds = "throws" /\ Put(Target)
     \/ disk[name].holds = "throws" /\ ~CannotDump(name) /\ Put(Dumped(name))
     \/ Source(name) /\ CannotDump(name) /\ Put(Target)
  /\ status' = "crashed"
  /\ UNCHANGED handled

(* The version is printed without parsing or writing anything, so a file    *)
(* that makes those throw may have one.                                    *)
PrintVersion(name) ==
  /\ command.cmd = "version"
  /\ disk[name].holds \in {"movie", "cast", "throws"} /\ ~CannotDump(name)
  /\ Put(Dumped(name))
  /\ handled' = handled \cup {name}
  /\ UNCHANGED status

(* The project is written last of all.  writeFile does not notice when the  *)
(* file cannot be opened, which is so for the name of a directory.          *)
Decompile(name) ==
  /\ command.cmd = "decompile"
  /\ Source(name) /\ ~CannotDump(name)
  /\ \E equal \in ComparesEqual(name.ext, NewExtension(name)) :
       LET output == IF command.output = "given name" THEN command.name
                     ELSE OutputName(name, equal)
           project == [disk[name] EXCEPT !.from = Append(disk[name].from, name)]
       IN  Put(IF output \in DOMAIN Dumped(name) /\ Dumped(name)[output] = Directory
               THEN Dumped(name) ELSE With(Dumped(name), output, project))
  /\ handled' = handled \cup {name}
  /\ UNCHANGED status

ProcessFile(name) == Reject(name) \/ Throw(name) \/ PrintVersion(name) \/ Decompile(name)
-----------------------------------------------------------------------------
(* The extensions are compared one after the other until one is equal.      *)
EditableToo == Protected \cup {Dir, Cst}   (* takes projects for inputs as well *)
InputExtensions == Protected
MayAccept(name) == \E ext \in InputExtensions : TRUE \in ComparesEqual(name.ext, ext)
MayPass(name) == \A ext \in InputExtensions : FALSE \in ComparesEqual(name.ext, ext)

(* The name given for an output is that of no directory.                    *)
Refused == command.output = "given name" /\ (command.input = "directory" \/ command.dump)
Running(input) == status = "running" /\ command.input = input /\ ~Refused

(* An output that is no directory is refused for more than one file.        *)
Refuse ==
  /\ status = "running" /\ Refused
  /\ status' = "failure"
  /\ UNCHANGED <<folder, command, disk, elsewhere, todo, handled>>

Pass(name) ==
  /\ Running("directory")
  /\ name \in todo
  /\ disk[name] = Directory \/ MayPass(name)
  /\ todo' = todo \ {name}
  /\ UNCHANGED <<folder, command, disk, elsewhere, handled, status>>

Visit(name) ==
  /\ Running("directory")
  /\ name \in todo
  /\ disk[name] # Directory /\ MayAccept(name)
  /\ ProcessFile(name)
  /\ \E created \in SUBSET (DOMAIN disk' \ DOMAIN disk) :
       todo' = (todo \cup created) \ {name}
  /\ UNCHANGED <<folder, command>>

(* A single file is processed whatever its extension.                       *)
ProcessSingle(name) ==
  /\ Running("file")
  /\ name \in todo
  /\ ProcessFile(name)
  /\ todo' = {}
  /\ UNCHANGED <<folder, command>>

Done ==
  /\ status = "running" /\ ~Refused
  /\ todo = {}
  /\ status' = "success"
  /\ UNCHANGED <<folder, command, disk, elsewhere, todo, handled>>

Ended == status # "running" /\ UNCHANGED vars

Init ==
  /\ folder \in Folders
  /\ command \in Commands(folder)
  /\ disk = Stored(folder)
  /\ elsewhere \in Elsewheres(command)
  /\ todo \in InputsOf(folder, command)
  /\ handled = {}
  /\ status = "running"

Next ==
  \/ Refuse \/ Done \/ Ended
  \/ \E name \in todo : Pass(name) \/ Visit(name) \/ ProcessSingle(name)

Spec == Init /\ [][Next]_vars
-----------------------------------------------------------------------------
(***************************************************************************)
(* Properties.                                                             *)
(***************************************************************************)
File == [holds : Holdings, from : Seq(Names)]

(* Besides the types: what is created under a name the program chooses is a *)
(* project with the extension of one, or a directory (processFile).          *)
TypeOK ==
  /\ status \in {"running", "success", "failure", "crashed"}
  /\ todo \subseteq DOMAIN disk /\ handled \subseteq DOMAIN disk
  /\ \A n \in DOMAIN disk : n \in Names /\ disk[n] \in File
  /\ \A n \in DOMAIN elsewhere :
       /\ n \in Names /\ elsewhere[n] \in File
       /\ elsewhere[n] = Directory \/ elsewhere[n].from = <<>> \/ n.ext \in {Dir, Cst}

(* No output replaces a file that this run takes or may still take as its   *)
(* input: not the file it was made from, where the output gets the suffix    *)
(* "_decompiled" for this, and not another protected file of the directory.  *)
(* One file is excepted, the one whose own name is given for the output:      *)
(* "-o a.dcr a.dcr" overwrites what it took (main.cpp:39-40).               *)
InputsSurvive ==
  \A n \in DOMAIN folder :
    /\ n \in handled \/ n.ext \in Protected
    /\ command.output = "given name" => n # command.name
    => disk[n] = Original(folder[n])

(* A directory is read while projects are created in it; whether or not     *)
(* they are visited, none of them is decompiled again.                      *)
NothingDecompiledTwice ==
  /\ \A n \in DOMAIN disk : Len(disk[n].from) <= 1
  /\ \A n \in DOMAIN elsewhere : Len(elsewhere[n].from) <= 1

(* The program only comes to grief over a file that cannot be decompiled or *)
(* over another file that had the name its dump needs before the run, where  *)
(* the dump goes: a single good file never stands in its own way, and nothing *)
(* that a run creates stands in the way of the rest of it (processFile).      *)
NeedsNameOf(n, other) == n.stem = other.stem /\ other.ext \in {<<>>, <<"_", "dump">>}
CrashesForAReason ==
  status = "crashed" =>
    \/ \E n \in DOMAIN folder : folder[n] = "throws"
    \/ /\ command.dump /\ command.output # "other directory"
       /\ \E n, other \in DOMAIN folder :
            n # other /\ NeedsNameOf(n, other) /\ folder[other] # "directory"
    \/ /\ command.dump /\ command.output = "other directory"
       /\ \E n \in DOMAIN folder, other \in DOMAIN elsewhere :
            /\ NeedsNameOf(n, other)
            /\ elsewhere[other] # Directory /\ elsewhere[other].from = <<>>

Sources == {n \in DOMAIN folder : folder[n] \in {"movie", "cast"}}
ProjectExtension(n) == IF folder[n] = "cast" THEN Cst ELSE Dir
ProjectName(n) == Name(n.stem, ProjectExtension(n))
SuffixedName(n) == Name(Append(n.stem, "_decompiled"), ProjectExtension(n))
HasProject(n) == ProjectName(n) \in DOMAIN Target /\ Target[ProjectName(n)].from = <<n>>
Published == {n \in Sources : n.ext \in Protected}

(* README.md:31: for a directory of movie and cast files, the program will  *)
(* create a decompressed version of the input files.                       *)
EveryInputHasItsOutput ==
  status = "success" /\ command.cmd = "decompile" /\ command.input = "directory"
  => \A n \in Published : HasProject(n)

(* The order in which a directory is visited, and whether new files in it   *)
(* are, does not matter as long as no other file that is decompiled can get *)
(* the name of the project of a movie or cast file, by the same stem or by   *)
(* the suffix that it has for an extension that ".dir" or ".cst" begins      *)
(* with, and no directory has that name where the projects go: all of them   *)
(* have their projects at the end (processFile, main).  In another directory  *)
(* those that were there are meant: a dump has no such name.                 *)
WasDirectory(n) ==
  IF command.output = "other directory"
  THEN n \in DOMAIN elsewhere /\ elsewhere[n] = Directory
  ELSE n \in DOMAIN folder /\ folder[n] = "directory"
Accessible == {n \in Sources : MayAccept(n)}
DistinctStemsAreSafe ==
  /\ \A n \in Published, other \in Accessible :
       /\ n # other => ProjectName(n) # ProjectName(other)
       /\ TRUE \in ComparesEqual(other.ext, ProjectExtension(other)) =>
            ProjectName(n) # SuffixedName(other)
  /\ \A n \in Published : ~WasDirectory(ProjectName(n))
  => EveryInputHasItsOutput
=============================================================================

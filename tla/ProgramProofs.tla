---------------------------- MODULE ProgramProofs ----------------------------
(***************************************************************************)
(* Proofs about the command line and the files of a run, for every command   *)
(* line, every directory and every order in which it is visited: first the   *)
(* steps of BatchRun, then those of Options, then the whole program, which   *)
(* touches no file until the batch begins.                                  *)
(***************************************************************************)
EXTENDS Program, NumberLemmas

Outputs == {Dir, Cst}

(* The suffix makes a difference, or is not needed.                         *)
Suffixable(name) == name.ext \notin Outputs \/ name.stem \in Seq(Words)

(* What two functions of names have in common before and after one file was  *)
(* processed: nothing is lost, only a project of another name is replaced,   *)
(* and what is new is a directory or has the extension of a project.        *)
Extends(name, before, after) ==
  /\ DOMAIN before \subseteq DOMAIN after
  /\ \A n \in DOMAIN before : after[n] = before[n] \/ (n.ext \in Outputs /\ n # name)
  /\ \A n \in DOMAIN after \ DOMAIN before : after[n] = Directory \/ n.ext \in Outputs

IsOriginal(file) == \E holding \in Holdings : file = Original(holding)
(* A name that is given for the output is the only one that changes.         *)
KeepsBut(given, before, after) == \A n \in DOMAIN before : n # given => after[n] = before[n]

(* What there was in another directory is a directory or came from nowhere.  *)
ElsewhereIsNamed(there) ==
  \A n \in DOMAIN there : there[n] = Directory \/ there[n].from = <<>> \/ n.ext \in Outputs
OnceAtMost(there) == \A n \in DOMAIN there : Len(there[n].from) <= 1

(* The inductive invariant.  Of a directory, what has not the extension of a  *)
(* project is as it was or is a new directory, and only such names are       *)
(* processed; a single file is processed once, on the files as they were.   *)
Basics ==
  /\ folder \in Folders
  /\ command.input \in {"file", "directory"}
  /\ DOMAIN folder \subseteq DOMAIN disk
  /\ todo \subseteq DOMAIN disk
OfDirectory ==
  command.input = "directory" =>
    /\ \A n \in DOMAIN disk : n.ext \notin Outputs => IsOriginal(disk[n])
    /\ \A n \in DOMAIN folder : n.ext \notin Outputs => disk[n] = Original(folder[n])
    /\ \A n \in handled : n.ext \notin Outputs
OfFile == command.input = "file" /\ todo # {} => disk = Stored(folder) /\ handled = {}
BatchInv ==
  /\ Basics
  /\ OfDirectory
  /\ OfFile
  /\ InputsSurvive
  /\ NothingDecompiledTwice
-----------------------------------------------------------------------------
(* The extensions are sequences of four characters.                         *)
Characters == {".", "c", "d", "i", "r", "s", "t", "x"}
LEMMA ExtensionType ==
  ASSUME NEW ext \in Protected \cup Outputs
  PROVE  ext \in Seq(Characters) /\ Len(ext) = 4
<1>1. ASSUME NEW a \in Characters, NEW b \in Characters, NEW c \in Characters
      PROVE  Dot(a, b, c) \in Seq(Characters) /\ Len(Dot(a, b, c)) = 4
  <2>1. "." \in Characters
    BY DEF Characters
  <2>2. QED
    BY <1>1, <2>1 DEF Dot
<1>2. {"c", "d", "i", "r", "s", "t", "x"} \subseteq Characters
  BY DEF Characters
<1>3. ext \in {Dir, Cst, Dcr, Dxr, Cct, Cxt}
  BY DEF Protected, Outputs
<1>4. \E a, b, c \in Characters : ext = Dot(a, b, c)
  <2>1. CASE ext = Dir
    BY <2>1, <1>2 DEF Dir
  <2>2. CASE ext = Cst
    BY <2>2, <1>2 DEF Cst
  <2>3. CASE ext = Dcr
    BY <2>3, <1>2 DEF Dcr
  <2>4. CASE ext = Dxr
    BY <2>4, <1>2 DEF Dxr
  <2>5. CASE ext = Cct
    BY <2>5, <1>2 DEF Cct
  <2>6. CASE ext = Cxt
    BY <2>6, <1>2 DEF Cxt
  <2>7. QED
    BY <1>3, <2>1, <2>2, <2>3, <2>4, <2>5, <2>6
<1>5. QED
  BY <1>1, <1>4

(* The extensions are six different sequences.                             *)
LEMMA ExtensionsDiffer == Protected \cap Outputs = {} /\ Dir # Cst /\ <<>> \notin Outputs
<1>1. Dir # Dcr /\ Dir # Dxr /\ Dir # Cct /\ Dir # Cxt /\ Dir # Cst
  BY SMT DEF Dir, Dcr, Dxr, Cct, Cxt, Cst, Dot
<1>2. Cst # Dcr /\ Cst # Dxr /\ Cst # Cct /\ Cst # Cxt
  BY SMT DEF Cst, Dcr, Dxr, Cct, Cxt, Dot
<1>3. <<>> # Dir /\ <<>> # Cst
  BY SMT DEF Dir, Cst, Dot
<1>4. QED
  BY <1>1, <1>2, <1>3 DEF Protected, Outputs

(* The comparison takes no project for a protected file: the extension of a  *)
(* project is no beginning of that of a protected file.                     *)
LEMMA ProjectsAreNoInputs ==
  ASSUME NEW name, MayAccept(name)
  PROVE  name.ext \notin Outputs
<1>1. PICK ext \in Protected : TRUE \in ComparesEqual(name.ext, ext)
  BY DEF MayAccept, InputExtensions
<1>2. CASE name.ext = <<>>
  BY <1>2, ExtensionsDiffer
<1>3. CASE name.ext # <<>>
  <2>1. IsPrefix(name.ext, ext)
    BY <1>1, <1>3 DEF ComparesEqual
  <2>2. ASSUME NEW project \in Outputs, NEW other \in Protected
        PROVE  ~IsPrefix(project, other)
    <3>1. Len(project) = 4 /\ Len(other) = 4 /\ project \in Seq(Characters) /\ other \in Seq(Characters)
      BY <2>2, ExtensionType
    <3>2. SubSeq(project, 1, 4) = project /\ SubSeq(other, 1, 4) = other
      BY <3>1
    <3>3. QED
      BY <3>1, <3>2, ExtensionsDiffer DEF IsPrefix
  <2>3. QED
    BY <2>1, <2>2
<1>4. QED
  BY <1>2, <1>3

(* The project of a file never replaces the file itself.                    *)
LEMMA OutputIsNotInput ==
  ASSUME NEW name, Suffixable(name),
         NEW equal \in ComparesEqual(name.ext, NewExtension(name))
  PROVE  OutputName(name, equal) # name /\ OutputName(name, equal).ext \in Outputs
<1>1. NewExtension(name) \in Outputs
  BY DEF NewExtension, Outputs
<1>2. OutputName(name, equal).ext = NewExtension(name)
  BY DEF OutputName, Name
<1>3. CASE name.ext # NewExtension(name)
  BY <1>1, <1>2, <1>3
<1>4. CASE name.ext = NewExtension(name)
  <2>1. IsPrefix(name.ext, name.ext)
    <3>1. name.ext \in Seq(Characters)
      BY <1>1, <1>4, ExtensionType
    <3>2. QED
      BY <3>1 DEF IsPrefix
  <2>2. equal
    BY <1>1, <1>4, <2>1, ExtensionsDiffer DEF ComparesEqual
  <2>3. OutputName(name, equal).stem = Append(name.stem, "_decompiled")
    BY <2>2 DEF OutputName, Name
  <2>4. Len(Append(name.stem, "_decompiled")) # Len(name.stem)
    BY <1>1, <1>4 DEF Suffixable
  <2>5. QED
    BY <1>1, <1>2, <2>3, <2>4
<1>5. QED
  BY <1>3, <1>4
-----------------------------------------------------------------------------
(* Making the directory of the dump changes nothing that was there.         *)
LEMMA DumpExtends ==
  ASSUME NEW name, ~CannotDump(name)
  PROVE  /\ DOMAIN Target \subseteq DOMAIN Dumped(name)
         /\ \A n \in DOMAIN Target : Dumped(name)[n] = Target[n]
         /\ \A n \in DOMAIN Dumped(name) \ DOMAIN Target : Dumped(name)[n] = Directory
<1>1. CASE command.dump
  <2>1. Dumped(name) = With(Target, DumpName(name), Directory)
    BY <1>1 DEF Dumped
  <2>2. DumpName(name) \in DOMAIN Target => Target[DumpName(name)] = Directory
    BY <1>1 DEF CannotDump
  <2>3. QED
    BY <2>1, <2>2 DEF With
<1>2. CASE ~command.dump
  BY <1>2 DEF Dumped
<1>3. QED
  BY <1>1, <1>2

(* An empty directory was made from nothing.                                *)
LEMMA DirectoryIsMadeOfNothing == Directory.from = <<>> /\ Len(Directory.from) <= 1
BY DEF Directory, Original

(* What processing one file does where the output goes.                     *)
LEMMA TargetExtends ==
  ASSUME NEW name, Suffixable(name), ProcessFile(name),
         IsOriginal(disk[name]), OnceAtMost(Target)
  PROVE  \E target :
           /\ Put(target)
           /\ OnceAtMost(target) /\ DOMAIN Target \subseteq DOMAIN target
           /\ command.output # "given name" => Extends(name, Target, target)
           /\ command.output = "given name" => KeepsBut(command.name, Target, target)
           /\ \A n \in DOMAIN Target : Target[n] = Directory => target[n] = Directory
<1>1. ASSUME ~CannotDump(name)
      PROVE  /\ OnceAtMost(Dumped(name)) /\ Extends(name, Target, Dumped(name))
             /\ \A n \in DOMAIN Target : Dumped(name)[n] = Target[n]
  BY <1>1, DumpExtends, DirectoryIsMadeOfNothing DEF OnceAtMost, Extends
<1>2. Extends(name, Target, Target)
  BY DEF Extends
<1>3. CASE Reject(name)
  BY <1>2, <1>3 DEF Reject, Put, Target, KeepsBut
<1>4. CASE Throw(name)
  BY <1>1, <1>2, <1>4 DEF Throw, Extends, KeepsBut
<1>5. CASE PrintVersion(name)
  BY <1>1, <1>5 DEF PrintVersion, Extends, KeepsBut
<1>6. CASE Decompile(name)
  <2> DEFINE dumped == Dumped(name)
             project == [disk[name] EXCEPT !.from = Append(disk[name].from, name)]
             output(equal) == IF command.output = "given name" THEN command.name
                              ELSE OutputName(name, equal)
             target(equal) == IF output(equal) \in DOMAIN dumped /\ dumped[output(equal)] = Directory
                              THEN dumped ELSE With(dumped, output(equal), project)
  <2>1. ~CannotDump(name)
    BY <1>6 DEF Decompile
  <2>2. PICK equal \in ComparesEqual(name.ext, NewExtension(name)) : Put(target(equal))
    BY <1>6 DEF Decompile
  <2>3. OnceAtMost(dumped) /\ Extends(name, Target, dumped)
    BY <1>1, <2>1
  <2>4. Len(project.from) <= 1
    <3>1. project.from = Append(<<>>, name)
      BY DEF IsOriginal, Original
    <3>2. QED
      BY <3>1
  <2>5. OnceAtMost(target(equal))
    BY <2>3, <2>4 DEF OnceAtMost, With
  <2>6. ASSUME command.output # "given name"
        PROVE  Extends(name, Target, target(equal))
    <3>1. output(equal) # name /\ output(equal).ext \in Outputs
      BY <2>6, OutputIsNotInput
    <3> HIDE DEF output, project
    <3>2. QED
      BY <2>3, <3>1 DEF Extends, With
  <2>7. DOMAIN Target \subseteq DOMAIN target(equal)
    BY <2>3 DEF Extends, With
  <2>8. command.output = "given name" => KeepsBut(command.name, Target, target(equal))
    BY <1>1, <2>1, <2>3 DEF KeepsBut, With, Extends
  <2>9. ASSUME NEW n \in DOMAIN Target, Target[n] = Directory
        PROVE  target(equal)[n] = Directory
    <3>1. n \in DOMAIN dumped /\ dumped[n] = Directory
      BY <1>1, <2>1, <2>3, <2>9 DEF Extends
    <3> HIDE DEF output, project, dumped
    <3>2. QED
      BY <3>1 DEF With
  <2>10. QED
    BY <2>2, <2>5, <2>6, <2>7, <2>8, <2>9
<1>7. QED
  BY <1>3, <1>4, <1>5, <1>6 DEF ProcessFile
-----------------------------------------------------------------------------
(* Where the output goes is one of two, the other stays as it is.           *)
LEMMA PutMeans ==
  ASSUME NEW target, Put(target)
  PROVE  \/ command.output = "other directory" /\ Target = elsewhere
            /\ elsewhere' = target /\ disk' = disk
         \/ command.output # "other directory" /\ Target = disk
            /\ disk' = target /\ elsewhere' = elsewhere
BY DEF Put, Target

(* The same said of the directory that is read.                             *)
LEMMA ProcessKeeps ==
  ASSUME BatchInv, NEW name, Suffixable(name), ProcessFile(name),
         IsOriginal(disk[name])
  PROVE  /\ NothingDecompiledTwice'
         /\ DOMAIN disk \subseteq DOMAIN disk'
         /\ command.output # "given name" => Extends(name, disk, disk')
         /\ command.output = "given name" => KeepsBut(command.name, disk, disk')
         /\ \A n \in DOMAIN elsewhere :
              elsewhere[n] = Directory => n \in DOMAIN elsewhere' /\ elsewhere'[n] = Directory
         /\ handled' \subseteq handled \cup {name}
<1>1. OnceAtMost(disk) /\ OnceAtMost(elsewhere)
  BY DEF BatchInv, NothingDecompiledTwice, OnceAtMost
<1>2. PICK target : /\ Put(target)
                    /\ OnceAtMost(target) /\ DOMAIN Target \subseteq DOMAIN target
                    /\ command.output # "given name" => Extends(name, Target, target)
                    /\ command.output = "given name" => KeepsBut(command.name, Target, target)
                    /\ \A n \in DOMAIN Target : Target[n] = Directory => target[n] = Directory
  <2>1. OnceAtMost(Target)
    BY <1>1 DEF Target
  <2>2. QED
    BY <2>1, TargetExtends
<1>3. NothingDecompiledTwice'
  <2>1. CASE elsewhere' = target /\ disk' = disk
    BY <1>1, <1>2, <2>1 DEF NothingDecompiledTwice, OnceAtMost
  <2>2. CASE disk' = target /\ elsewhere' = elsewhere
    BY <1>1, <1>2, <2>2 DEF NothingDecompiledTwice, OnceAtMost
  <2>3. QED
    BY <1>2, <2>1, <2>2, PutMeans
<1>4. command.output # "given name" => Extends(name, disk, disk')
  <2>1. Extends(name, disk, disk)
    BY DEF Extends
  <2>2. QED
    BY <1>2, <2>1, PutMeans
<1>5. handled' \subseteq handled \cup {name}
  BY DEF ProcessFile, Reject, Throw, PrintVersion, Decompile
<1>6. DOMAIN disk \subseteq DOMAIN disk'
  BY <1>2, PutMeans
<1>7. command.output = "given name" => KeepsBut(command.name, disk, disk')
  BY <1>2, PutMeans
<1>8. \A n \in DOMAIN elsewhere :
        elsewhere[n] = Directory => n \in DOMAIN elsewhere' /\ elsewhere'[n] = Directory
  BY <1>2, PutMeans
<1>9. QED
  BY <1>3, <1>4, <1>5, <1>6, <1>7, <1>8

(* What is in another output directory at the beginning came from nowhere.   *)
LEMMA ElsewhereAtFirst ==
  ASSUME NEW c, NEW there \in Elsewheres(c)
  PROVE  \A n \in DOMAIN there :
           n \in Names /\ \E holding \in Holdings : there[n] = Original(holding)
<1>1. CASE there = <<>>
  <2>1. DOMAIN there = {}
    BY <1>1
  <2>2. QED
    BY <2>1
<1>2. ASSUME NEW held \in OutputFolders, there = Stored(held)
      PROVE  \A n \in DOMAIN there :
               n \in Names /\ \E holding \in Holdings : there[n] = Original(holding)
  BY <1>2, FoldersAssumption DEF Stored
<1>3. QED
  BY <1>1, <1>2 DEF Elsewheres

(* The invariant holds at the beginning.                                    *)
LEMMA BatchInvInit == Init => BatchInv
<1> SUFFICES ASSUME Init PROVE BatchInv
  OBVIOUS
<1>1. DOMAIN disk = DOMAIN folder /\ \A n \in DOMAIN folder : disk[n] = Original(folder[n])
  BY DEF Init, Stored
<1>2. \A n \in DOMAIN folder : folder[n] \in Holdings
  BY FoldersAssumption DEF Init
<1>3. Basics
  <2>1. command.input \in {"file", "directory"}
    BY DEF Init, Commands
  <2>2. todo \subseteq DOMAIN folder
    BY DEF Init, InputsOf
  <2>3. QED
    BY <1>1, <2>1, <2>2 DEF Init, Basics
<1>4. OfDirectory
  BY <1>1, <1>2 DEF Init, OfDirectory, IsOriginal
<1>5. OfFile
  BY DEF Init, OfFile
<1>6. InputsSurvive
  BY <1>1 DEF InputsSurvive
<1>7. NothingDecompiledTwice
  <2>1. \A n \in DOMAIN disk : disk[n].from = <<>>
    BY <1>1 DEF Original
  <2>2. \A n \in DOMAIN elsewhere : \E holding \in Holdings : elsewhere[n] = Original(holding)
    BY ElsewhereAtFirst DEF Init
  <2>3. \A n \in DOMAIN elsewhere : elsewhere[n].from = <<>>
    BY <2>2 DEF Original
  <2>4. QED
    BY <2>1, <2>3 DEF NothingDecompiledTwice
<1>8. QED
  BY <1>3, <1>4, <1>5, <1>6, <1>7 DEF BatchInv

(* Every step keeps it.                                                     *)
LEMMA BatchInvNext == BatchInv /\ [Next]_vars => BatchInv'
<1> SUFFICES ASSUME BatchInv, [Next]_vars PROVE BatchInv'
  OBVIOUS
<1> USE DEF BatchInv
<1>1. CASE UNCHANGED <<folder, command, disk, elsewhere, todo, handled>>
  BY <1>1 DEF Basics, OfDirectory, OfFile, InputsSurvive, NothingDecompiledTwice
<1>2. ASSUME NEW name \in todo, Pass(name)
      PROVE  BatchInv'
  BY <1>2 DEF Pass, Basics, OfDirectory, OfFile, InputsSurvive, NothingDecompiledTwice, Running
<1>3. ASSUME NEW name \in todo, Visit(name)
      PROVE  BatchInv'
  <2>1. command.input = "directory" /\ command.output # "given name"
    BY <1>3 DEF Visit, Running, Refused
  <2>2. name.ext \notin Outputs /\ name \in DOMAIN disk /\ IsOriginal(disk[name])
    BY <1>3, <2>1, ProjectsAreNoInputs DEF Visit, Basics, OfDirectory
  <2>3. ProcessFile(name) /\ UNCHANGED <<folder, command>>
    BY <1>3 DEF Visit
  <2>4. Suffixable(name)
    BY <2>2 DEF Suffixable
  <2>5. /\ NothingDecompiledTwice'
        /\ Extends(name, disk, disk')
        /\ handled' \subseteq handled \cup {name}
    BY <2>1, <2>2, <2>3, <2>4, ProcessKeeps
  <2>6. Basics'
    <3>1. todo' \subseteq DOMAIN disk'
      BY <1>3, <2>5 DEF Visit, Basics, Extends
    <3>2. QED
      BY <2>3, <2>5, <3>1 DEF Basics, Extends
  <2>7. OfDirectory'
    <3>1. IsOriginal(Directory)
      BY DEF IsOriginal, Directory, Holdings
    <3>2. \A n \in DOMAIN disk' : n.ext \notin Outputs => IsOriginal(disk'[n])
      BY <2>1, <2>5, <3>1 DEF OfDirectory, Extends
    <3>3. \A n \in DOMAIN folder : n.ext \notin Outputs => disk'[n] = Original(folder[n])
      BY <2>1, <2>5 DEF OfDirectory, Extends, Basics
    <3>4. \A n \in handled' : n.ext \notin Outputs
      BY <2>1, <2>2, <2>5 DEF OfDirectory
    <3>5. QED
      BY <2>3, <3>2, <3>3, <3>4 DEF OfDirectory
  <2>8. OfFile'
    BY <2>1, <2>3 DEF OfFile
  <2>9. InputsSurvive'
    <3> SUFFICES ASSUME NEW n \in DOMAIN folder, n \in handled' \/ n.ext \in Protected
                 PROVE  disk'[n] = Original(folder[n])
      BY <2>3 DEF InputsSurvive
    <3>1. n.ext \notin Outputs
      BY <2>1, <2>2, <2>5, ExtensionsDiffer DEF OfDirectory
    <3>2. disk'[n] = disk[n]
      BY <2>5, <3>1 DEF Basics, Extends
    <3>3. disk[n] = Original(folder[n])
      BY <2>1, <3>1 DEF OfDirectory
    <3>4. QED
      BY <3>2, <3>3
  <2>10. QED
    BY <2>5, <2>6, <2>7, <2>8, <2>9
<1>4. ASSUME NEW name \in todo, ProcessSingle(name)
      PROVE  BatchInv'
  <2>1. command.input = "file" /\ disk = Stored(folder) /\ handled = {}
    BY <1>4 DEF ProcessSingle, Running, OfFile
  <2>2. name \in DOMAIN folder /\ disk[name] = Original(folder[name])
    BY <2>1 DEF Basics, Stored
  <2>3. Suffixable(name) /\ IsOriginal(disk[name])
    BY <2>2, FoldersAssumption DEF Basics, Names, IsOriginal, Suffixable
  <2>4. ProcessFile(name) /\ UNCHANGED <<folder, command>> /\ todo' = {}
    BY <1>4 DEF ProcessSingle
  <2>5. /\ NothingDecompiledTwice'
        /\ DOMAIN disk \subseteq DOMAIN disk'
        /\ command.output # "given name" => Extends(name, disk, disk')
        /\ command.output = "given name" => KeepsBut(command.name, disk, disk')
        /\ handled' \subseteq {name}
    BY <2>1, <2>3, <2>4, ProcessKeeps
  <2>6. Basics'
    BY <2>4, <2>5 DEF Basics
  <2>7. OfDirectory'
    BY <2>1, <2>4 DEF OfDirectory
  <2>8. OfFile'
    BY <2>4 DEF OfFile
  <2>9. InputsSurvive'
    <3> SUFFICES ASSUME NEW n \in DOMAIN folder, n \in handled' \/ n.ext \in Protected,
                        command.output = "given name" => n # command.name
                 PROVE  disk'[n] = Original(folder[n])
      BY <2>4 DEF InputsSurvive
    <3>1. disk[n] = Original(folder[n])
      BY <2>1 DEF Stored
    <3>2. disk'[n] = disk[n]
      <4>1. CASE command.output # "given name"
        <5>1. n = name \/ n.ext \notin Outputs
          BY <2>5, ExtensionsDiffer
        <5>2. QED
          BY <2>5, <4>1, <5>1 DEF Basics, Extends
      <4>2. CASE command.output = "given name"
        BY <2>5, <4>2 DEF Basics, KeepsBut
      <4>3. QED
        BY <4>1, <4>2
    <3>3. QED
      BY <3>1, <3>2
  <2>10. QED
    BY <2>5, <2>6, <2>7, <2>8, <2>9
<1>5. QED
  BY <1>1, <1>2, <1>3, <1>4 DEF Next, vars, Refuse, Done, Ended
-----------------------------------------------------------------------------
(* Why a run crashes.  A file that is processed, and one that is in the way  *)
(* of its dump, is one of the folder or a directory.                        *)
Kept(n) == (n \in DOMAIN folder /\ disk[n] = Original(folder[n])) \/ disk[n] = Directory
ReasonInv ==
  /\ command.input = "directory" => \A n \in DOMAIN disk : n.ext \notin Outputs => Kept(n)
  /\ ElsewhereIsNamed(elsewhere)
  /\ CrashesForAReason

(* What an original file holds.                                            *)
LEMMA HoldsAreKept ==
  /\ \A holding : Original(holding).holds = holding /\ Original(holding).from = <<>>
  /\ Directory.holds = "directory"
BY DEF Original, Directory

(* The dump has another name than its file, and that of no project.         *)
LEMMA DumpNameIsOther ==
  ASSUME NEW name
  PROVE  /\ DumpName(name).stem = name.stem
         /\ DumpName(name).ext \in {<<>>, <<"_", "dump">>}
         /\ DumpName(name).ext # name.ext
         /\ DumpName(name).ext \notin Outputs
<1>1. DumpName(name).stem = name.stem
      /\ DumpName(name).ext = IF name.ext = <<>> THEN <<"_", "dump">> ELSE <<>>
  BY DEF DumpName, Name
<1>2. <<"_", "dump">> # <<>>
  BY SMT
<1>3. <<"_", "dump">> \notin Outputs
  <2>1. <<"_", "dump">> # Dir
    BY SMT DEF Dir, Dot
  <2>2. <<"_", "dump">> # Cst
    BY SMT DEF Cst, Dot
  <2>3. QED
    BY <2>1, <2>2 DEF Outputs
<1>4. CASE name.ext = <<>>
  BY <1>1, <1>2, <1>3, <1>4
<1>5. CASE name.ext # <<>>
  BY <1>1, <1>5, ExtensionsDiffer
<1>6. QED
  BY <1>4, <1>5

(* What is not a directory and was kept is a file of the folder.            *)
LEMMA KeptIsOfFolder ==
  ASSUME NEW n, Kept(n), disk[n] # Directory
  PROVE  n \in DOMAIN folder /\ disk[n] = Original(folder[n]) /\ folder[n] # "directory"
BY DEF Kept, Directory

LEMMA ThrowHasAReason ==
  ASSUME NEW name, Throw(name), Kept(name),
         \A n \in DOMAIN disk : n.ext \notin Outputs => Kept(n),
         ElsewhereIsNamed(elsewhere), UNCHANGED <<folder, command>>
  PROVE  CrashesForAReason'
<1>1. CASE disk[name].holds = "throws"
  <2>1. disk[name] # Directory
    BY <1>1, HoldsAreKept
  <2>2. name \in DOMAIN folder /\ disk[name] = Original(folder[name])
    BY <2>1, KeptIsOfFolder
  <2>3. folder[name] = "throws"
    BY <1>1, <2>2, HoldsAreKept
  <2>4. QED
    BY <2>2, <2>3 DEF CrashesForAReason
<1>2. CASE Source(name) /\ CannotDump(name)
  <2> DEFINE other == DumpName(name)
  <2>1. /\ other.stem = name.stem /\ other.ext \in {<<>>, <<"_", "dump">>}
        /\ other.ext # name.ext /\ other.ext \notin Outputs
    BY DumpNameIsOther
  <2>2. other \in DOMAIN Target /\ Target[other] # Directory
    BY <1>2 DEF CannotDump
  <2>3. command.dump /\ NeedsNameOf(name, other)
    BY <1>2, <2>1 DEF CannotDump, NeedsNameOf
  <2>5. disk[name] # Directory
    BY <1>2, HoldsAreKept DEF Source
  <2>6. name \in DOMAIN folder
    BY <2>5, KeptIsOfFolder
  <2>7. name # other /\ name.stem = other.stem
    BY <2>1
  <2> HIDE DEF other
  <2>8. CASE command.output # "other directory"
    <3>1. Target = disk
      BY <2>8 DEF Target
    <3>2. other \in DOMAIN folder /\ folder[other] # "directory"
      BY <2>1, <2>2, <3>1, KeptIsOfFolder
    <3>3. folder' = folder /\ command'.dump /\ command'.output # "other directory"
      BY <2>3, <2>8
    <3>4. \E n, o \in DOMAIN folder' : n # o /\ NeedsNameOf(n, o) /\ folder'[o] # "directory"
      BY <2>3, <2>6, <2>7, <3>2, <3>3
    <3>5. QED
      BY <3>3, <3>4 DEF CrashesForAReason, NeedsNameOf
  <2>9. CASE command.output = "other directory"
    <3>1. Target = elsewhere
      BY <2>9 DEF Target
    <3>2. elsewhere[other].from = <<>>
      BY <2>1, <2>2, <3>1 DEF ElsewhereIsNamed
    <3>3. elsewhere' = elsewhere
      BY <1>2, <2>9 DEF Throw, Put, Target
    <3>4. QED
      BY <2>2, <2>3, <2>6, <2>9, <3>1, <3>2, <3>3 DEF CrashesForAReason, NeedsNameOf
  <2>10. QED
    BY <2>8, <2>9
<1>3. QED
  BY <1>1, <1>2 DEF Throw

(* Processing a file crashes for a reason, and creates nothing but projects  *)
(* and directories where the output goes.                                  *)
LEMMA ProcessHasAReason ==
  ASSUME BatchInv, ReasonInv, status = "running", NEW name, Suffixable(name), ProcessFile(name),
         IsOriginal(disk[name]), Kept(name),
         \A n \in DOMAIN disk : n.ext \notin Outputs => Kept(n),
         UNCHANGED <<folder, command>>
  PROVE  /\ CrashesForAReason'
         /\ ElsewhereIsNamed(elsewhere')
<1>1. CrashesForAReason'
  <2>1. CASE Throw(name)
    BY <2>1, ThrowHasAReason DEF ReasonInv
  <2>2. CASE ~Throw(name)
    <3>1. status' # "crashed"
      BY <2>2 DEF ProcessFile, Reject, PrintVersion, Decompile
    <3>2. QED
      BY <3>1 DEF CrashesForAReason
  <2>3. QED
    BY <2>1, <2>2
<1>2. OnceAtMost(Target)
  BY DEF BatchInv, NothingDecompiledTwice, OnceAtMost, Target
<1>3. PICK target : /\ Put(target)
                    /\ command.output # "given name" => Extends(name, Target, target)
  BY <1>2, TargetExtends
<1>4. ElsewhereIsNamed(elsewhere')
  <2>1. ElsewhereIsNamed(elsewhere)
    BY DEF ReasonInv
  <2>2. CASE command.output = "other directory" /\ Target = elsewhere /\ elsewhere' = target
    BY <1>3, <2>1, <2>2 DEF Extends, ElsewhereIsNamed
  <2>3. CASE elsewhere' = elsewhere
    BY <2>1, <2>3
  <2>4. QED
    BY <1>3, <2>2, <2>3, PutMeans
<1>5. QED
  BY <1>1, <1>4

LEMMA ReasonInvInit == Init => ReasonInv
<1> SUFFICES ASSUME Init PROVE ReasonInv
  OBVIOUS
<1>1. \A n \in DOMAIN disk : Kept(n)
  BY DEF Init, Stored, Kept
<1>2. ElsewhereIsNamed(elsewhere)
  BY ElsewhereAtFirst, HoldsAreKept DEF Init, ElsewhereIsNamed
<1>3. status = "running"
  BY DEF Init
<1>4. QED
  BY <1>1, <1>2, <1>3 DEF ReasonInv, CrashesForAReason

LEMMA ReasonInvNext == BatchInv /\ ReasonInv /\ [Next]_vars => ReasonInv'
<1> SUFFICES ASSUME BatchInv, ReasonInv, [Next]_vars PROVE ReasonInv'
  OBVIOUS
<1>1. CASE UNCHANGED <<folder, command, disk, elsewhere>> /\ (status' = status \/ status' # "crashed")
  <2>1. ASSUME NEW n PROVE Kept(n)' <=> Kept(n)
    BY <1>1 DEF Kept
  <2>2. CrashesForAReason'
    BY <1>1 DEF ReasonInv, CrashesForAReason
  <2>3. QED
    BY <1>1, <2>1, <2>2 DEF ReasonInv
<1>2. ASSUME NEW name \in todo, Visit(name)
      PROVE  ReasonInv'
  <2>1. command.input = "directory" /\ command.output # "given name" /\ status = "running"
    BY <1>2 DEF Visit, Running, Refused
  <2>2. name.ext \notin Outputs /\ name \in DOMAIN disk /\ IsOriginal(disk[name])
    BY <1>2, <2>1, ProjectsAreNoInputs DEF Visit, BatchInv, Basics, OfDirectory
  <2>3. ProcessFile(name) /\ UNCHANGED <<folder, command>>
    BY <1>2 DEF Visit
  <2>4. Suffixable(name)
    BY <2>2 DEF Suffixable
  <2>5. \A n \in DOMAIN disk : n.ext \notin Outputs => Kept(n)
    BY <2>1 DEF ReasonInv
  <2>6. Kept(name)
    BY <2>2, <2>5
  <2>7. /\ CrashesForAReason'
        /\ ElsewhereIsNamed(elsewhere')
    BY <2>1, <2>2, <2>3, <2>4, <2>5, <2>6, ProcessHasAReason
  <2>8. Extends(name, disk, disk')
    BY <2>1, <2>2, <2>3, <2>4, ProcessKeeps
  <2>9. \A n \in DOMAIN disk' : n.ext \notin Outputs => Kept(n)'
    BY <2>3, <2>5, <2>8 DEF Extends, Kept
  <2>10. QED
    BY <2>7, <2>9 DEF ReasonInv
<1>3. ASSUME NEW name \in todo, ProcessSingle(name)
      PROVE  ReasonInv'
  <2>1. command.input = "file" /\ disk = Stored(folder) /\ status = "running"
    BY <1>3 DEF ProcessSingle, Running, BatchInv, OfFile
  <2>2. name \in DOMAIN folder /\ disk[name] = Original(folder[name])
    BY <2>1 DEF BatchInv, Basics, Stored
  <2>3. Suffixable(name) /\ IsOriginal(disk[name])
    BY <2>2, FoldersAssumption DEF BatchInv, Basics, Names, IsOriginal, Suffixable
  <2>4. ProcessFile(name) /\ UNCHANGED <<folder, command>>
    BY <1>3 DEF ProcessSingle
  <2>5. \A n \in DOMAIN disk : Kept(n)
    BY <2>1 DEF Stored, Kept
  <2>6. Kept(name)
    BY <2>2 DEF Kept
  <2>7. /\ CrashesForAReason'
        /\ ElsewhereIsNamed(elsewhere')
    BY <2>1, <2>3, <2>4, <2>5, <2>6, ProcessHasAReason
  <2>8. command'.input # "directory"
    BY <2>1, <2>4
  <2>9. QED
    BY <2>7, <2>8 DEF ReasonInv
<1>4. QED
  BY <1>1, <1>2, <1>3 DEF Next, vars, Refuse, Done, Ended, Pass
-----------------------------------------------------------------------------
(* Which files have their projects.  What DistinctStemsAreSafe asks of the   *)
(* folder.                                                                 *)
StemsDiffer ==
  /\ \A n \in Published, other \in Accessible :
       /\ n # other => ProjectName(n) # ProjectName(other)
       /\ TRUE \in ComparesEqual(other.ext, ProjectExtension(other)) =>
            ProjectName(n) # SuffixedName(other)
  /\ \A n \in Published : ~WasDirectory(ProjectName(n))

(* No directory is created under the name of a project.                     *)
NoNewObstacle ==
  \A n \in DOMAIN Target : n.ext \in Outputs /\ Target[n] = Directory => WasDirectory(n)
ProjectInv ==
  command.cmd = "decompile" /\ command.input = "directory" =>
    /\ NoNewObstacle
    /\ StemsDiffer /\ status \in {"running", "success"} =>
         \A n \in Published : (status = "running" /\ n \in todo) \/ HasProject(n)

(* A file with a protected extension is visited, and gets no suffix.        *)
LEMMA ProtectedIsTaken ==
  ASSUME NEW name, name.ext \in Protected
  PROVE  ~MayPass(name) /\ \A ext \in Outputs : \A equal \in ComparesEqual(name.ext, ext) : ~equal
<1>1. name.ext \in Seq(Characters) /\ Len(name.ext) = 4
  BY ExtensionType
<1>2. name.ext # <<>>
  <2>1. ASSUME NEW a, NEW b, NEW c PROVE Dot(a, b, c) # <<>>
    BY SMT DEF Dot
  <2>2. QED
    BY <2>1 DEF Protected, Dcr, Dxr, Cct, Cxt
<1>3. IsPrefix(name.ext, name.ext)
  BY <1>1 DEF IsPrefix
<1>4. ~MayPass(name)
  <2>1. ComparesEqual(name.ext, name.ext) = {TRUE}
    BY <1>2, <1>3 DEF ComparesEqual
  <2>2. QED
    BY <2>1 DEF MayPass, InputExtensions
<1>5. ASSUME NEW ext \in Outputs
      PROVE  \A equal \in ComparesEqual(name.ext, ext) : ~equal
  <2>1. ext \in Seq(Characters) /\ Len(ext) = 4
    BY ExtensionType
  <2>2. SubSeq(name.ext, 1, 4) = name.ext /\ SubSeq(ext, 1, 4) = ext
    BY <1>1, <2>1
  <2>3. name.ext # ext
    BY ExtensionsDiffer
  <2>4. ~IsPrefix(name.ext, ext)
    BY <1>1, <2>1, <2>2, <2>3 DEF IsPrefix
  <2>5. QED
    BY <1>2, <2>4 DEF ComparesEqual
<1>6. QED
  BY <1>4, <1>5

(* Where the output goes after a step.                                      *)
LEMMA PutIsTarget ==
  ASSUME NEW target, Put(target), command' = command
  PROVE  Target' = target
BY DEF Put, Target

(* What the project of an original file holds.                              *)
ProjectOf(file, name) == [file EXCEPT !.from = Append(file.from, name)]
LEMMA ProjectOfOriginal ==
  \A holding, name : LET file == ProjectOf(Original(holding), name)
                     IN  file.holds = holding /\ file.from = <<name>>
<1> SUFFICES ASSUME NEW holding, NEW name, NEW file, file = Original(holding)
             PROVE  ProjectOf(file, name).holds = holding /\ ProjectOf(file, name).from = <<name>>
  OBVIOUS
<1>1. file = [holds |-> holding, from |-> <<>>]
  BY DEF Original
<1>2. file.from = <<>>
  BY <1>1
<1>3. Append(<<>>, name) = <<name>>
  <2>1. <<>> \in Seq({name})
    OBVIOUS
  <2>2. QED
    BY <2>1, SMT
<1>4. ProjectOf(file, name) = [file EXCEPT !.from = <<name>>]
  BY <1>2, <1>3 DEF ProjectOf
<1>5. QED
  BY <1>1, <1>4

(* The names a project may get.                                             *)
LEMMA OutputsOfSource ==
  ASSUME NEW name \in Sources, disk[name] = Original(folder[name]),
         NEW equal \in ComparesEqual(name.ext, NewExtension(name))
  PROVE  /\ NewExtension(name) = ProjectExtension(name)
         /\ \/ equal /\ OutputName(name, equal) = SuffixedName(name)
            \/ ~equal /\ OutputName(name, equal) = ProjectName(name)
<1>1. NewExtension(name) = ProjectExtension(name)
  BY DEF NewExtension, ProjectExtension, Original
<1>2. equal \in BOOLEAN
  <2>1. ComparesEqual(name.ext, NewExtension(name)) \subseteq BOOLEAN
    BY DEF ComparesEqual, IsPrefix
  <2>2. QED
    BY <2>1
<1>3. QED
  BY <1>1, <1>2 DEF OutputName, SuffixedName, ProjectName

(* Decompiling one file of a directory: what is written is nobody else's     *)
(* project, and the project of a protected file is written.                 *)
LEMMA DecompileKeepsProjects ==
  ASSUME NEW name, Decompile(name), MayAccept(name), Kept(name), NoNewObstacle,
         command.output # "given name", UNCHANGED <<folder, command>>
  PROVE  /\ NoNewObstacle'
         /\ StemsDiffer => \A n \in Published : n = name \/ HasProject(n) => HasProject(n)'
<1> DEFINE project == ProjectOf(disk[name], name)
<1>1. name \in DOMAIN folder /\ disk[name] = Original(folder[name]) /\ Source(name) /\ ~CannotDump(name)
  <2>1. Source(name) /\ ~CannotDump(name)
    BY DEF Decompile
  <2>2. disk[name] # Directory
    BY <2>1, HoldsAreKept DEF Source
  <2>3. QED
    BY <2>1, <2>2, KeptIsOfFolder
<1>2. name \in Sources /\ name \in Accessible
  <2>1. folder[name] \in {"movie", "cast"}
    BY <1>1, HoldsAreKept DEF Source
  <2>2. QED
    BY <1>1, <2>1 DEF Sources, Accessible
<1>3. PICK equal \in ComparesEqual(name.ext, NewExtension(name)) :
        Put(IF OutputName(name, equal) \in DOMAIN Dumped(name)
                 /\ Dumped(name)[OutputName(name, equal)] = Directory
            THEN Dumped(name) ELSE With(Dumped(name), OutputName(name, equal), project))
  BY DEF Decompile, ProjectOf
<1>4. PICK output : output = OutputName(name, equal)
  OBVIOUS
<1>5. Target' = IF output \in DOMAIN Dumped(name) /\ Dumped(name)[output] = Directory
                THEN Dumped(name) ELSE With(Dumped(name), output, project)
  BY <1>3, <1>4, PutIsTarget
<1>6. /\ NewExtension(name) = ProjectExtension(name)
      /\ (equal /\ output = SuffixedName(name)) \/ (~equal /\ output = ProjectName(name))
  BY <1>1, <1>2, <1>4, OutputsOfSource
<1>7. project # Directory /\ project.from = <<name>>
  <2>1. project.holds = folder[name] /\ project.from = <<name>>
    <3>1. disk[name] = Original(folder[name])
      BY <1>1
    <3>2. project = ProjectOf(Original(folder[name]), name)
      BY <3>1
    <3>3. QED
      BY <3>2, ProjectOfOriginal
  <2>2. folder[name] # "directory"
    BY <1>2 DEF Sources
  <2> HIDE DEF project
  <2>3. QED
    BY <2>1, <2>2, HoldsAreKept
<1> HIDE DEF project
<1>8. /\ DOMAIN Target \subseteq DOMAIN Dumped(name)
      /\ \A n \in DOMAIN Target : Dumped(name)[n] = Target[n]
      /\ \A n \in DOMAIN Dumped(name) \ DOMAIN Target : n.ext \notin Outputs
  <2>1. /\ DOMAIN Target \subseteq DOMAIN Dumped(name)
        /\ \A n \in DOMAIN Target : Dumped(name)[n] = Target[n]
    BY <1>1, DumpExtends
  <2>2. DumpName(name).ext \notin Outputs
    BY DumpNameIsOther
  <2>3. \A n \in DOMAIN Dumped(name) \ DOMAIN Target : n = DumpName(name)
    BY DEF Dumped, With
  <2>4. QED
    BY <2>1, <2>2, <2>3
<1>9a. \A n : WasDirectory(n) => WasDirectory(n)'
  <2>1. \A n \in DOMAIN Target : Target[n] = Directory => n \in DOMAIN Target' /\ Target'[n] = Directory
    BY <1>5, <1>8 DEF With
  <2>2. QED
    BY <2>1 DEF WasDirectory, Target
<1>9. NoNewObstacle'
  <2> SUFFICES ASSUME NEW n \in DOMAIN Target', n.ext \in Outputs, Target'[n] = Directory
               PROVE  WasDirectory(n)'
    BY DEF NoNewObstacle
  <2>1. n \in DOMAIN Dumped(name) /\ Dumped(name)[n] = Directory
    BY <1>5, <1>7 DEF With
  <2>2. n \in DOMAIN Target /\ Target[n] = Directory
    BY <1>8, <2>1
  <2>3. QED
    BY <1>9a, <2>2 DEF NoNewObstacle
<1>10. ASSUME StemsDiffer, NEW n \in Published, n # name, HasProject(n)
       PROVE  HasProject(n)'
  <2>1. output # ProjectName(n)
    <3>1. CASE ~equal
      BY <1>2, <1>6, <1>10, <3>1 DEF StemsDiffer
    <3>2. CASE equal
      <4>1. TRUE \in ComparesEqual(name.ext, ProjectExtension(name))
        BY <1>6, <3>2 DEF ComparesEqual
      <4>2. QED
        BY <1>2, <1>6, <1>10, <3>2, <4>1 DEF StemsDiffer
    <3>3. QED
      BY <3>1, <3>2
  <2>2. ProjectName(n)' = ProjectName(n)
    BY DEF ProjectName, ProjectExtension
  <2>3. ProjectName(n) \in DOMAIN Dumped(name) /\ Dumped(name)[ProjectName(n)].from = <<n>>
    BY <1>8, <1>10 DEF HasProject
  <2>4. ProjectName(n) \in DOMAIN Target' /\ Target'[ProjectName(n)].from = <<n>>
    BY <1>5, <2>1, <2>3 DEF With
  <2>5. QED
    BY <2>2, <2>4 DEF HasProject
<1>11. ASSUME StemsDiffer, name \in Published
       PROVE  HasProject(name)'
  <2>1. name.ext \in Protected
    BY <1>11 DEF Published
  <2>2. NewExtension(name) \in Outputs
    BY DEF NewExtension, Outputs
  <2>3. ~equal
    BY <2>1, <2>2, ProtectedIsTaken
  <2>4. output = ProjectName(name) /\ output.ext \in Outputs
    <3>1. output = ProjectName(name)
      BY <1>6, <2>3
    <3>2. ProjectName(name).ext = ProjectExtension(name)
      BY DEF ProjectName, Name
    <3>3. QED
      BY <1>6, <2>2, <3>1, <3>2
  <2>5. ~(output \in DOMAIN Dumped(name) /\ Dumped(name)[output] = Directory)
    <3> SUFFICES ASSUME output \in DOMAIN Dumped(name), Dumped(name)[output] = Directory
                 PROVE  FALSE
      OBVIOUS
    <3>1. output \in DOMAIN Target /\ Target[output] = Directory
      BY <1>8, <2>4
    <3>2. WasDirectory(output)
      BY <2>4, <3>1 DEF NoNewObstacle
    <3>3. QED
      BY <1>11, <2>4, <3>2 DEF StemsDiffer
  <2>6. output \in DOMAIN Target' /\ Target'[output] = project
    BY <1>5, <2>5 DEF With
  <2>7. ProjectName(name)' = ProjectName(name)
    BY DEF ProjectName, ProjectExtension
  <2>8. QED
    BY <1>7, <2>4, <2>6, <2>7 DEF HasProject
<1>12. QED
  BY <1>9, <1>10, <1>11

LEMMA ProjectInvInit == Init => ProjectInv
<1> SUFFICES ASSUME Init PROVE ProjectInv
  OBVIOUS
<1>1. ASSUME NEW n \in DOMAIN Target, n.ext \in Outputs, Target[n] = Directory
      PROVE  WasDirectory(n)
  <2>1. CASE command.output = "other directory"
    BY <1>1, <2>1 DEF Target, WasDirectory
  <2>2. CASE command.output # "other directory"
    <3>1. n \in DOMAIN folder /\ Directory = Original(folder[n])
      BY <1>1, <2>2 DEF Init, Target, Stored
    <3>2. QED
      BY <2>2, <3>1, HoldsAreKept DEF WasDirectory
  <2>3. QED
    BY <2>1, <2>2
<1>2. command.input = "directory" => todo = DOMAIN folder
  BY DEF Init, InputsOf
<1>3. status = "running" /\ Published \subseteq DOMAIN folder
  BY DEF Init, Published, Sources
<1>4. QED
  BY <1>1, <1>2, <1>3 DEF ProjectInv, NoNewObstacle

(* What is processed is as it was in the folder.                             *)
LEMMA TakenIsOriginal ==
  ASSUME BatchInv, NEW name \in todo, Visit(name) \/ ProcessSingle(name)
  PROVE  Suffixable(name) /\ IsOriginal(disk[name])
<1>1. name \in DOMAIN disk
  BY DEF BatchInv, Basics
<1>2. CASE Visit(name)
  BY <1>1, <1>2, ProjectsAreNoInputs DEF Visit, Running, BatchInv, OfDirectory, Suffixable
<1>3. CASE ProcessSingle(name)
  <2>1. disk = Stored(folder)
    BY <1>3 DEF ProcessSingle, Running, BatchInv, OfFile
  <2>2. name \in DOMAIN folder /\ disk[name] = Original(folder[name])
    BY <1>1, <2>1 DEF Stored
  <2>3. QED
    BY <2>2, FoldersAssumption DEF BatchInv, Basics, Names, IsOriginal, Suffixable
<1>4. QED
  BY <1>2, <1>3

(* A directory of the other output directory is not replaced.                *)
LEMMA DirectoriesStay ==
  ASSUME BatchInv, [Next]_vars
  PROVE  \A n \in DOMAIN elsewhere :
           elsewhere[n] = Directory => n \in DOMAIN elsewhere' /\ elsewhere'[n] = Directory
<1>1. CASE elsewhere' = elsewhere
  BY <1>1
<1>2. ASSUME NEW name \in todo, Visit(name) \/ ProcessSingle(name)
      PROVE  \A n \in DOMAIN elsewhere :
               elsewhere[n] = Directory => n \in DOMAIN elsewhere' /\ elsewhere'[n] = Directory
  <2>1. ProcessFile(name) /\ name \in DOMAIN disk
    BY <1>2 DEF Visit, ProcessSingle, BatchInv, Basics
  <2>2. Suffixable(name) /\ IsOriginal(disk[name])
    BY <1>2, TakenIsOriginal
  <2>3. QED
    BY <2>1, <2>2, ProcessKeeps
<1>3. QED
  BY <1>1, <1>2 DEF Next, vars, Refuse, Done, Ended, Pass

LEMMA ProjectInvNext == BatchInv /\ ReasonInv /\ ProjectInv /\ [Next]_vars => ProjectInv'
<1> SUFFICES ASSUME BatchInv, ReasonInv, ProjectInv, [Next]_vars,
                    command'.cmd = "decompile", command'.input = "directory"
             PROVE  /\ NoNewObstacle'
                    /\ StemsDiffer' /\ status' \in {"running", "success"} =>
                         \A n \in Published' : (status' = "running" /\ n \in todo') \/ HasProject(n)'
  BY DEF ProjectInv
<1>1. UNCHANGED <<folder, command>>
  BY DEF Next, vars, Refuse, Done, Ended, Pass, Visit, ProcessSingle
<1>2. (StemsDiffer' => StemsDiffer) /\ Published' = Published
  <2>1. Published' = Published /\ Accessible' = Accessible
    BY <1>1 DEF Published, Accessible, Sources, MayAccept
  <2>2. \A n : WasDirectory(n) => WasDirectory(n)'
    BY <1>1, DirectoriesStay DEF WasDirectory
  <2>3. QED
    BY <1>1, <2>1, <2>2 DEF StemsDiffer, ProjectName, SuffixedName, ProjectExtension
<1>3. /\ NoNewObstacle
      /\ StemsDiffer /\ status \in {"running", "success"} =>
           \A n \in Published : (status = "running" /\ n \in todo) \/ HasProject(n)
  BY <1>1 DEF ProjectInv
<1>4. ASSUME UNCHANGED <<disk, elsewhere>>
      PROVE  NoNewObstacle' /\ \A n : HasProject(n)' <=> HasProject(n)
  <2>1. Target' = Target
    BY <1>1, <1>4 DEF Target
  <2>2. QED
    BY <1>1, <1>3, <1>4, <2>1 DEF NoNewObstacle, HasProject, ProjectName, ProjectExtension, WasDirectory
<1>5. CASE Refuse
  BY <1>4, <1>5 DEF Refuse
<1>6. CASE UNCHANGED vars
  BY <1>2, <1>3, <1>4, <1>6 DEF vars
<1>7. CASE Done
  BY <1>2, <1>3, <1>4, <1>7 DEF Done
<1>8. ASSUME NEW name \in todo, Pass(name)
      PROVE  /\ NoNewObstacle'
             /\ StemsDiffer => \A n \in Published : n \in todo' \/ HasProject(n)'
  <2>1. UNCHANGED <<disk, elsewhere>> /\ todo' = todo \ {name} /\ status = "running"
    BY <1>8 DEF Pass, Running
  <2>2. name \notin Published
    <3> SUFFICES ASSUME name \in Published PROVE FALSE
      OBVIOUS
    <3>1. name.ext \in Protected /\ name \in DOMAIN folder /\ folder[name] \in {"movie", "cast"}
      BY DEF Published, Sources
    <3>2. disk[name] = Original(folder[name])
      BY <1>1, <3>1, ExtensionsDiffer DEF BatchInv, OfDirectory
    <3>3. disk[name] # Directory
      BY <3>1, <3>2, HoldsAreKept
    <3>4. QED
      BY <1>8, <3>1, <3>3, ProtectedIsTaken DEF Pass
  <2>3. QED
    BY <1>3, <1>4, <2>1, <2>2
<1>9. ASSUME NEW name \in todo, Visit(name)
      PROVE  /\ NoNewObstacle'
             /\ StemsDiffer /\ status' \in {"running", "success"} =>
                  \A n \in Published : n \in todo' \/ HasProject(n)'
  <2>1. /\ command.output # "given name" /\ status = "running" /\ ProcessFile(name)
        /\ MayAccept(name) /\ todo \ {name} \subseteq todo'
    BY <1>9 DEF Visit, Running, Refused
  <2>2. Kept(name)
    BY <1>1, <2>1, ProjectsAreNoInputs DEF BatchInv, Basics, ReasonInv
  <2>3. CASE Decompile(name)
    BY <1>1, <1>3, <2>1, <2>2, <2>3, DecompileKeepsProjects
  <2>4. CASE Reject(name)
    BY <1>4, <2>4 DEF Reject
  <2>5. CASE Throw(name)
    <3>1. PICK target : Put(target) /\ (target = Target \/ (target = Dumped(name) /\ ~CannotDump(name)))
      BY <2>5 DEF Throw
    <3>2. Target' = target
      BY <1>1, <3>1, PutIsTarget
    <3>3. \A n \in DOMAIN Target' : n.ext \in Outputs => n \in DOMAIN Target /\ Target'[n] = Target[n]
      <4>1. CASE target = Target
        BY <3>2, <4>1
      <4>2. CASE target = Dumped(name) /\ ~CannotDump(name)
        <5>1. \A n \in DOMAIN Target : Dumped(name)[n] = Target[n]
          BY <4>2, DumpExtends
        <5>2. \A n \in DOMAIN Dumped(name) \ DOMAIN Target : n = DumpName(name)
          BY DEF Dumped, With
        <5>3. DumpName(name).ext \notin Outputs
          BY DumpNameIsOther
        <5>4. QED
          BY <3>2, <4>2, <5>1, <5>2, <5>3
      <4>3. QED
        BY <3>1, <4>1, <4>2
    <3>4. NoNewObstacle'
      <4>1. \A n : WasDirectory(n) => WasDirectory(n)'
        BY <1>1, DirectoriesStay DEF WasDirectory
      <4>2. QED
        BY <1>1, <1>3, <3>3, <4>1 DEF NoNewObstacle
    <3>5. status' = "crashed"
      BY <2>5 DEF Throw
    <3>6. QED
      BY <3>4, <3>5
  <2>6. CASE PrintVersion(name)
    BY <1>1, <2>6 DEF PrintVersion
  <2>7. QED
    BY <2>1, <2>3, <2>4, <2>5, <2>6 DEF ProcessFile
<1>10. CASE \E name \in todo : ProcessSingle(name)
  BY <1>1, <1>10 DEF ProcessSingle, Running
<1>11. ASSUME NEW name \in todo, Pass(name) \/ Visit(name)
       PROVE  status' # "success" /\ (status' = "running" \/ status' \notin {"running", "success"})
  BY <1>11 DEF Pass, Visit, Running, ProcessFile, Reject, Throw, PrintVersion, Decompile
<1>12. CASE \E name \in todo : Pass(name) \/ Visit(name)
  BY <1>2, <1>8, <1>9, <1>11, <1>12
<1>13. QED
  BY <1>5, <1>6, <1>7, <1>10, <1>12 DEF Next, Ended

LEMMA ProjectInvImplies == ProjectInv => DistinctStemsAreSafe
<1>1. DistinctStemsAreSafe <=> (StemsDiffer => EveryInputHasItsOutput)
  BY DEF DistinctStemsAreSafe, StemsDiffer
<1>2. QED
  BY <1>1 DEF ProjectInv, EveryInputHasItsOutput
-----------------------------------------------------------------------------
(* Types.  What files there are, and what is asked for.                     *)
Typed(there) == \A n \in DOMAIN there : n \in Names /\ there[n] \in File
TypeInv == command \in Commands(folder) /\ TypeOK

(* The names the program makes up are names.                                *)
LEMMA NamesAreTyped ==
  ASSUME NEW name \in Names
  PROVE  /\ DumpName(name) \in Names
         /\ \A equal : OutputName(name, equal) \in Names
<1>1. name.stem \in Seq(Words) /\ Append(name.stem, "_decompiled") \in Seq(Words)
  <2>1. "_decompiled" \in Words
    BY WordsAssumption
  <2>2. name.stem \in Seq(Words)
    BY DEF Names
  <2>3. QED
    BY <2>1, <2>2
<1>2. <<>> \in Seq(Words) /\ <<"_", "dump">> \in Seq(Words)
  <2>1. "_" \in Words /\ "dump" \in Words
    BY WordsAssumption
  <2>2. \A a, b \in Words : <<a, b>> \in Seq(Words)
    OBVIOUS
  <2>3. <<>> \in Seq(Words)
    OBVIOUS
  <2>4. QED
    BY <2>1, <2>2, <2>3
<1>3. Dir \in Seq(Words) /\ Cst \in Seq(Words)
  <2>1. Characters \subseteq Words
    BY WordsAssumption DEF Characters
  <2>2. Dir \in Seq(Characters) /\ Cst \in Seq(Characters)
    BY ExtensionType DEF Outputs
  <2>3. QED
    BY <2>1, <2>2
<1>4. ASSUME NEW stem \in Seq(Words), NEW ext \in Seq(Words)
      PROVE  Name(stem, ext) \in Names
  BY <1>4 DEF Name, Names
<1>5. DumpName(name) \in Names
  BY <1>1, <1>2, <1>4 DEF DumpName
<1>6. ASSUME NEW equal PROVE OutputName(name, equal) \in Names
  <2>1. NewExtension(name) \in Seq(Words)
    BY <1>3 DEF NewExtension
  <2>2. (IF equal THEN Append(name.stem, "_decompiled") ELSE name.stem) \in Seq(Words)
    BY <1>1
  <2>3. QED
    BY <1>4, <2>1, <2>2 DEF OutputName
<1>7. QED
  BY <1>5, <1>6

(* The name that was given for the output is one.                           *)
LEMMA GivenNameIsTyped ==
  ASSUME folder \in Folders, command \in Commands(folder)
  PROVE  command.name \in Names
<1>1. command.name \in GivenNames \cup {NoName}
  BY DEF Commands
<1>2. GivenNames \subseteq Names
  BY GivenNamesAssumption
<1>3. NoName \in Names
  <2>1. <<>> \in Seq(Words)
    OBVIOUS
  <2>2. QED
    BY <2>1 DEF NoName, Name, Names
<1>4. QED
  BY <1>1, <1>2, <1>3

(* A project is a file.                                                    *)
LEMMA ProjectIsTyped ==
  ASSUME NEW file \in File, NEW name \in Names
  PROVE  ProjectOf(file, name) \in File
<1>1. Append(file.from, name) \in Seq(Names)
  BY DEF File
<1>2. QED
  BY <1>1 DEF ProjectOf, File

LEMMA OriginalIsTyped ==
  ASSUME NEW holding \in Holdings
  PROVE  Original(holding) \in File
<1>1. <<>> \in Seq(Names)
  OBVIOUS
<1>2. QED
  BY <1>1 DEF Original, File

LEMMA ProcessKeepsTypes ==
  ASSUME Basics, TypeInv, NEW name \in DOMAIN disk, ProcessFile(name), status = "running"
  PROVE  /\ Typed(disk') /\ Typed(elsewhere')
         /\ status' \in {"running", "success", "failure", "crashed"}
<1>1. Typed(disk) /\ Typed(elsewhere) /\ name \in Names /\ disk[name] \in File
  BY DEF TypeInv, TypeOK, Typed
<1>2. status' \in {"running", "success", "failure", "crashed"}
  BY DEF ProcessFile, Reject, Throw, PrintVersion, Decompile
<1>3. Typed(disk') /\ Typed(elsewhere')
  <2>1. Typed(Target)
    BY <1>1 DEF Target
  <2>2. Typed(Dumped(name))
    <3>1. DumpName(name) \in Names /\ Directory \in File
      BY <1>1, NamesAreTyped, OriginalIsTyped DEF Directory, Holdings
    <3>2. QED
      BY <2>1, <3>1 DEF Dumped, With, Typed
  <2>3. ASSUME NEW target, Put(target), Typed(target) PROVE Typed(disk') /\ Typed(elsewhere')
    BY <1>1, <2>3, PutMeans
  <2>4. CASE Reject(name)
    BY <1>1, <2>4 DEF Reject
  <2>5. CASE Throw(name)
    BY <2>1, <2>2, <2>3, <2>5 DEF Throw
  <2>6. CASE PrintVersion(name)
    BY <2>2, <2>3, <2>6 DEF PrintVersion
  <2>7. CASE Decompile(name)
    <3> DEFINE target(output) ==
                 IF output \in DOMAIN Dumped(name) /\ Dumped(name)[output] = Directory
                 THEN Dumped(name) ELSE With(Dumped(name), output, ProjectOf(disk[name], name))
    <3>1. PICK output : /\ output = command.name \/ \E equal : output = OutputName(name, equal)
                        /\ Put(target(output))
      <4>1. PICK equal : Put(target(IF command.output = "given name" THEN command.name
                                    ELSE OutputName(name, equal)))
        BY <2>7 DEF Decompile, ProjectOf
      <4> HIDE DEF target
      <4>2. QED
        BY <4>1
    <3>2. output \in Names
      BY <1>1, <3>1, NamesAreTyped, GivenNameIsTyped DEF Basics, TypeInv
    <3>3. ProjectOf(disk[name], name) \in File
      BY <1>1, ProjectIsTyped
    <3>4. Typed(With(Dumped(name), output, ProjectOf(disk[name], name)))
      BY <2>2, <3>2, <3>3 DEF With, Typed
    <3>5. QED
      BY <2>2, <2>3, <3>1, <3>4
  <2>8. QED
    BY <2>4, <2>5, <2>6, <2>7 DEF ProcessFile
<1>4. QED
  BY <1>2, <1>3

LEMMA TypeInvInit == Init => TypeInv
<1> SUFFICES ASSUME Init PROVE TypeInv
  OBVIOUS
<1>1. DOMAIN disk = DOMAIN folder /\ \A n \in DOMAIN folder : disk[n] = Original(folder[n])
  BY DEF Init, Stored
<1>2. \A n \in DOMAIN folder : n \in Names /\ folder[n] \in Holdings
  BY FoldersAssumption DEF Init
<1>3. \A n \in DOMAIN disk : n \in Names /\ disk[n] \in File
  BY <1>1, <1>2, OriginalIsTyped
<1>4. todo \subseteq DOMAIN disk
  BY <1>1 DEF Init, InputsOf
<1>5. \A n \in DOMAIN elsewhere : n \in Names /\ elsewhere[n] \in File /\ elsewhere[n].from = <<>>
  <2>1. \A n \in DOMAIN elsewhere :
          n \in Names /\ \E holding \in Holdings : elsewhere[n] = Original(holding)
    BY ElsewhereAtFirst DEF Init
  <2>2. QED
    BY <2>1, OriginalIsTyped, HoldsAreKept
<1>6. status = "running" /\ handled = {} /\ command \in Commands(folder)
  BY DEF Init
<1>7. QED
  BY <1>3, <1>4, <1>5, <1>6 DEF TypeInv, TypeOK

LEMMA TypeInvNext == BatchInv /\ ReasonInv /\ TypeInv /\ [Next]_vars => TypeInv'
<1> SUFFICES ASSUME BatchInv, ReasonInv, TypeInv, [Next]_vars PROVE TypeInv'
  OBVIOUS
<1>1. BatchInv' /\ ReasonInv'
  BY BatchInvNext, ReasonInvNext
<1>2. todo' \subseteq DOMAIN disk'
  BY <1>1 DEF BatchInv, Basics
<1>3. ElsewhereIsNamed(elsewhere')
  BY <1>1 DEF ReasonInv
<1>4. command' \in Commands(folder')
  BY DEF TypeInv, Next, vars, Refuse, Done, Ended, Pass, Visit, ProcessSingle
<1>5. /\ status' \in {"running", "success", "failure", "crashed"}
      /\ handled' \subseteq DOMAIN disk' /\ Typed(disk') /\ Typed(elsewhere')
  <2>1. /\ status \in {"running", "success", "failure", "crashed"} /\ handled \subseteq DOMAIN disk
        /\ Typed(disk) /\ Typed(elsewhere)
    BY DEF TypeInv, TypeOK, Typed
  <2>2. CASE UNCHANGED <<disk, elsewhere, handled>> /\ (status' = status \/ status' \in {"success", "failure"})
    BY <2>1, <2>2
  <2>3. ASSUME NEW name \in todo, Visit(name) \/ ProcessSingle(name)
        PROVE  /\ status' \in {"running", "success", "failure", "crashed"}
               /\ handled' \subseteq DOMAIN disk' /\ Typed(disk') /\ Typed(elsewhere')
    <3>1. ProcessFile(name) /\ status = "running" /\ name \in DOMAIN disk
      BY <2>3 DEF Visit, ProcessSingle, Running, BatchInv, Basics
    <3>2. /\ Typed(disk') /\ Typed(elsewhere')
          /\ status' \in {"running", "success", "failure", "crashed"}
      BY <3>1, ProcessKeepsTypes DEF BatchInv
    <3>3. handled' \subseteq handled \cup {name}
      BY <3>1 DEF ProcessFile, Reject, Throw, PrintVersion, Decompile
    <3>4. DOMAIN disk \subseteq DOMAIN disk'
      <4>1. Suffixable(name) /\ IsOriginal(disk[name])
        BY <2>3, TakenIsOriginal
      <4>2. QED
        BY <3>1, <4>1, ProcessKeeps
    <3>5. QED
      BY <2>1, <3>1, <3>2, <3>3, <3>4
  <2>4. QED
    BY <2>2, <2>3 DEF Next, vars, Refuse, Done, Ended, Pass
<1>6. QED
  BY <1>2, <1>3, <1>4, <1>5 DEF TypeInv, TypeOK, Typed, ElsewhereIsNamed, Outputs
-----------------------------------------------------------------------------
(* Types.  The command line: the next argument is one, or the end.          *)
OptionsInv ==
  /\ line \in Lines
  /\ phase = "start" => i = 1
  /\ OptionsTypeOK
OptionNames == {info.name : info \in OptionInfo}

(* Only two options take an argument, and one of them any.                   *)
LEMMA OptionsWithArgument ==
  ASSUME NEW info \in OptionInfo, info.takesArg
  PROVE  IF info.values = {} THEN info.name = "output" ELSE info.name = "style" /\ info.values = Styles
<1>1. Styles # {}
  BY DEF Styles
<1>2. CASE info = Option(FALSE, {DecompileCommand}, "output", "o", TRUE, {})
  <2>1. info.name = "output" /\ info.values = {}
    BY <1>2, SMT DEF Option
  <2>2. QED
    BY <2>1
<1>3. CASE info = Option(FALSE, {VersionCommand}, "style", None, TRUE, Styles)
  <2>1. info.name = "style" /\ info.values = Styles
    BY <1>3, SMT DEF Option
  <2>2. QED
    BY <1>1, <2>1
<1>4. CASE \E debug, cmds, name, letter : info = Option(debug, cmds, name, letter, FALSE, {})
  <2>1. ~info.takesArg
    BY <1>4, SMT DEF Option
  <2>2. QED
    BY <2>1
<1>5. QED
  BY <1>2, <1>3, <1>4 DEF OptionInfo

(* What has been found for a word or a letter is an option.                 *)
LEMMA AcceptedIsOption ==
  /\ \A name : Accepted(LongInfo(name)) => LongInfo(name) \in OptionInfo
  /\ \A letter : Accepted(ShortInfo(letter)) => ShortInfo(letter) \in OptionInfo
BY DEF Accepted, LongInfo, ShortInfo, InfoFor

(* The last step for an option.                                             *)
LEMMA TakeKeepsTypes ==
  ASSUME OptionsInv, phase = "options", i <= Len(args), NEW info \in OptionInfo,
         NEW value, NEW before \in SUBSET OptionNames, Take(info, value, before)
  PROVE  OptionsInv'
<1>1. Len(args) \in Nat /\ i \in 1 .. Len(args)
  BY LinesAssumption DEF OptionsInv, OptionsTypeOK, args
<1>2. CASE RefuseLine
  BY <1>2 DEF RefuseLine, OptionsInv, OptionsTypeOK, args
<1>3. CASE ~RefuseLine
  <2> DEFINE fromNext == info.takesArg /\ value = None
             arg == IF fromNext /\ i < Len(args) THEN args[i + 1] ELSE value
  <2>1. /\ ~(fromNext /\ i = Len(args)) /\ ~ValueIsRefused(info, arg)
        /\ i' = NextArg(fromNext)
        /\ noArg' = noArg \cup before \cup (IF info.takesArg THEN {} ELSE {info.name})
        /\ strings' = IF info.takesArg /\ info.values = {} THEN SetTo(strings, info.name, arg) ELSE strings
        /\ enums' = IF info.takesArg /\ info.values # {} THEN SetTo(enums, info.name, arg) ELSE enums
        /\ UNCHANGED <<line, phase, cmd, inputFile>>
    BY <1>3 DEF Take
  <2> HIDE DEF fromNext, arg
  <2>2. i' \in 1 .. Len(args) + 1
    BY <1>1, <2>1 DEF NextArg
  <2>3. noArg' \subseteq OptionNames
    BY <2>1 DEF OptionsInv, OptionsTypeOK, OptionNames
  <2>4. DOMAIN strings' \subseteq {"output"}
    BY <2>1, OptionsWithArgument DEF SetTo, OptionsInv, OptionsTypeOK
  <2>5. DOMAIN enums' \subseteq {"style"} /\ \A n \in DOMAIN enums' : enums'[n] \in Styles
    <3>1. CASE info.takesArg /\ info.values # {}
      <4>1. arg \in Styles /\ info.name = "style"
        BY <2>1, <3>1, OptionsWithArgument DEF ValueIsRefused
      <4>2. enums' = SetTo(enums, "style", arg)
        BY <2>1, <3>1, <4>1
      <4>3. QED
        BY <4>1, <4>2 DEF SetTo, OptionsInv, OptionsTypeOK
    <3>2. CASE ~(info.takesArg /\ info.values # {})
      BY <2>1, <3>2 DEF OptionsInv, OptionsTypeOK
    <3>3. QED
      BY <3>1, <3>2
  <2>6. QED
    BY <2>1, <2>2, <2>3, <2>4, <2>5 DEF OptionsInv, OptionsTypeOK, OptionNames, args
<1>4. QED
  BY <1>2, <1>3

(* The letters before the last one that is looked at are all options.       *)
LEMMA FlagsBeforeAreOptions ==
  ASSUME NEW letters \in Seq(STRING), letters # <<>>
  PROVE  FlagsBefore(letters, LastLetter(letters)) \subseteq OptionNames
<1> DEFINE ends == {k \in DOMAIN letters : EndsWord(letters, k)}
<1>1. Len(letters) \in Nat /\ Len(letters) > 0 /\ DOMAIN letters = 1 .. Len(letters)
  OBVIOUS
<1>2. Len(letters) \in ends /\ ends \subseteq Nat
  BY <1>1 DEF EndsWord
<1>3. \E k \in DOMAIN letters : EndsWord(letters, k) /\ \A l \in 1 .. k - 1 : ~EndsWord(letters, l)
  <2>1. Min(ends) \in ends /\ \A y \in ends : Min(ends) <= y
    BY <1>2, LeastExists
  <2>2. PICK k \in ends : \A y \in ends : k <= y
    BY <2>1
  <2>3. ASSUME NEW l \in 1 .. k - 1 PROVE ~EndsWord(letters, l)
    BY <1>1, <2>2
  <2>4. QED
    BY <2>2, <2>3
<1>4. PICK k : k = LastLetter(letters)
  OBVIOUS
<1>5. k \in DOMAIN letters /\ \A l \in 1 .. k - 1 : ~EndsWord(letters, l)
  BY <1>3, <1>4 DEF LastLetter
<1>6. ASSUME NEW l \in 1 .. k - 1 PROVE ShortInfo(letters[l]).name \in OptionNames
  BY <1>5, AcceptedIsOption DEF EndsWord, OptionNames
<1>7. QED
  BY <1>4, <1>6 DEF FlagsBefore

LEMMA OptionsInvInit == OptionsInit => OptionsInv
<1> SUFFICES ASSUME OptionsInit PROVE OptionsInv
  OBVIOUS
<1>1. Len(args) \in Nat
  BY LinesAssumption DEF OptionsInit, args
<1>2. DOMAIN strings = {} /\ DOMAIN enums = {}
  BY DEF OptionsInit
<1>3. QED
  BY <1>1, <1>2 DEF OptionsInit, OptionsInv, OptionsTypeOK

LEMMA OptionsInvNext == OptionsInv /\ OptionsNext => OptionsInv'
<1> SUFFICES ASSUME OptionsInv, OptionsNext PROVE OptionsInv'
  OBVIOUS
<1>1. Len(args) \in Nat /\ args \in Seq(Seq(STRING)) /\ i \in 1 .. Len(args) + 1
  BY LinesAssumption DEF OptionsInv, OptionsTypeOK, args
<1>2. CASE RefuseLine
  BY <1>2 DEF RefuseLine, OptionsInv, OptionsTypeOK, args
<1>3. CASE ParseCommand /\ ~RefuseLine
  <2>1. PICK c : /\ args # <<>> /\ c = GetCommand(args[1])
                 /\ cmd' = IF c = None THEN DecompileCommand ELSE c
                 /\ i' = IF c = None THEN 1 ELSE 2
                 /\ phase' = "options"
                 /\ UNCHANGED <<line, inputFile, noArg, strings, enums>>
    BY <1>3 DEF ParseCommand
  <2>2. i' \in 1 .. Len(args) + 1
    BY <1>1, <2>1
  <2>3. cmd' \in All
    BY <2>1 DEF GetCommand, All
  <2>4. QED
    BY <2>1, <2>2, <2>3 DEF OptionsInv, OptionsTypeOK, args
<1>4. CASE ParseLongOption /\ ~RefuseLine
  <2>1. PICK name, value : Accepted(LongInfo(name)) /\ Take(LongInfo(name), value, {})
    BY <1>4 DEF ParseLongOption
  <2>2. phase = "options" /\ i <= Len(args)
    BY <1>4 DEF ParseLongOption
  <2>3. LongInfo(name) \in OptionInfo
    BY <2>1, AcceptedIsOption
  <2>4. QED
    BY <2>1, <2>2, <2>3, TakeKeepsTypes
<1>5. CASE ParseShortOptions /\ ~RefuseLine
  <2>1. phase = "options" /\ i <= Len(args)
    BY <1>5 DEF ParseShortOptions
  <2>2. PICK letters : letters = Tail(args[i])
    OBVIOUS
  <2>3. letters # <<>>
    BY <1>5, <2>2 DEF ParseShortOptions
  <2>4. letters \in Seq(STRING)
    <3>1. args[i] \in Seq(STRING)
      BY <1>1, <2>1
    <3>2. args[i] # <<>>
      BY <1>5 DEF ParseShortOptions, IsOption
    <3>3. PICK word : word = args[i]
      OBVIOUS
    <3>4. word \in Seq(STRING) /\ Len(word) > 0
      BY <3>1, <3>2, <3>3
    <3>5. QED
      <4>1. Tail(word) \in Seq(STRING)
        BY <3>4
      <4>2. QED
        BY <2>2, <3>3, <4>1
  <2>5. PICK k : k = LastLetter(letters)
    OBVIOUS
  <2>6. PICK value : Accepted(ShortInfo(letters[k])) /\ Take(ShortInfo(letters[k]), value, FlagsBefore(letters, k))
    BY <1>5, <2>2, <2>3, <2>5 DEF ParseShortOptions
  <2>7. FlagsBefore(letters, k) \in SUBSET OptionNames
    BY <2>3, <2>4, <2>5, FlagsBeforeAreOptions
  <2>8. ShortInfo(letters[k]) \in OptionInfo
    BY <2>6, AcceptedIsOption
  <2>9. QED
    BY <2>1, <2>6, <2>7, <2>8, TakeKeepsTypes
<1>6. CASE (ParseInputFile \/ Finish) /\ ~RefuseLine
  BY <1>1, <1>6 DEF ParseInputFile, Finish, OptionsInv, OptionsTypeOK, args
<1>7. QED
  BY <1>2, <1>3, <1>4, <1>5, <1>6 DEF OptionsNext
-----------------------------------------------------------------------------
(* The files are as they were.                                              *)
Untouched ==
  /\ DOMAIN disk = DOMAIN folder
  /\ \A n \in DOMAIN folder : disk[n] = Original(folder[n])
  /\ DOMAIN elsewhere = {}

(* What every state of a batch has in common.                               *)
BatchHolds == BatchInv /\ ReasonInv /\ ProjectInv /\ TypeInv

LEMMA BatchHoldsInit == Init => BatchHolds
BY BatchInvInit, ReasonInvInit, ProjectInvInit, TypeInvInit DEF BatchHolds

LEMMA BatchHoldsNext == BatchHolds /\ [Next]_vars => BatchHolds'
BY BatchInvNext, ReasonInvNext, ProjectInvNext, TypeInvNext DEF BatchHolds

(* The inductive invariant.  A run that gives up over its command line ends  *)
(* with the files untouched; from Found on they are one of the directories. *)
Waits ==
  /\ Untouched
  /\ status \in {NotYet, Taken, Found, "failure"}
  /\ handled = {} /\ todo = {} /\ elsewhere = <<>>
  /\ IF status = Found THEN folder \in Folders /\ disk = Stored(folder) ELSE DOMAIN disk = {}
ProgramInv ==
  /\ Parsing => OptionsInv
  /\ Waits \/ (HasBegun /\ BatchHolds)

(* Nothing is known of any file at the beginning.                           *)
LEMMA ProgramInvInit == ProgramInit => ProgramInv
<1> SUFFICES ASSUME ProgramInit PROVE ProgramInv
  OBVIOUS
<1>1. folder = <<>> /\ disk = <<>> /\ elsewhere = <<>>
  BY DEF ProgramInit
<1>2. DOMAIN folder = {} /\ DOMAIN disk = {} /\ DOMAIN elsewhere = {}
  BY <1>1
<1>3. status = NotYet /\ handled = {} /\ todo = {}
  BY DEF ProgramInit
<1>4. OptionsInv
  BY OptionsInvInit DEF ProgramInit
<1>5. QED
  BY <1>1, <1>2, <1>3, <1>4 DEF ProgramInv, Waits, Untouched, NotYet, Taken, Found, HasBegun

(* Every step keeps it: the steps of the batch do by BatchHoldsNext, those of *)
(* the parser by OptionsInvNext.                                            *)
LEMMA ProgramInvNext == ProgramInv /\ [ProgramNext]_all => ProgramInv'
<1> SUFFICES ASSUME ProgramInv, [ProgramNext]_all PROVE ProgramInv'
  OBVIOUS
<1> USE DEF NotYet, Taken, Found, HasBegun, Parsing
<1>1. CASE UNCHANGED <<files, status>> /\ (UNCHANGED options \/ Parse)
  <2>1. Parsing' => OptionsInv'
    <3>1. CASE UNCHANGED options
      BY <1>1, <3>1 DEF ProgramInv, OptionsInv, OptionsTypeOK, options, args
    <3>2. CASE Parse
      BY <3>2, OptionsInvNext DEF Parse, ProgramInv
    <3>3. QED
      BY <1>1, <3>1, <3>2
  <2>2. Waits' <=> Waits
    BY <1>1 DEF Waits, Untouched, files
  <2>3. HasBegun /\ BatchHolds => BatchHolds'
    <3>1. UNCHANGED vars
      BY <1>1 DEF files, vars
    <3>2. QED
      BY <3>1, BatchHoldsNext
  <2>4. QED
    BY <1>1, <2>1, <2>2, <2>3 DEF ProgramInv
<1>2. CASE TakeOptions \/ GiveUp
  BY <1>2 DEF TakeOptions, GiveUp, ProgramInv, Waits, Untouched, files
<1>3. CASE FindFiles
  BY <1>3 DEF FindFiles, ProgramInv, Waits, Untouched, Stored
<1>4. CASE Begin
  <2>1. status = Found /\ handled = {} /\ elsewhere = <<>> /\ folder \in Folders
        /\ disk = Stored(folder)
    BY <1>4 DEF Begin, ProgramInv, Waits
  <2>2. Init'
    BY <1>4, <2>1 DEF Begin, Init
  <2>3. BatchHolds'
    BY <2>2, BatchHoldsInit, PTL
  <2>4. QED
    BY <1>4, <2>3 DEF Begin, ProgramInv
<1>5. CASE Run
  <2>1. CASE BatchHolds
    <3>1. BatchHolds'
      BY <1>5, <2>1, BatchHoldsNext DEF Run
    <3>2. HasBegun'
      BY <1>5 DEF Run, Next, Refuse, Done, Ended, Pass, Visit, ProcessSingle, ProcessFile,
                  Reject, Throw, PrintVersion, Decompile, vars, Running
    <3>3. QED
      BY <3>1, <3>2 DEF ProgramInv
  <2>2. CASE Waits
    <3>1. status # "running"
      BY <2>2 DEF Waits
    <3>2. UNCHANGED vars
      BY <1>5, <3>1 DEF Run, Next, Refuse, Done, Ended, Pass, Visit, ProcessSingle, Running
    <3>3. UNCHANGED <<files, status>> /\ UNCHANGED options
      BY <1>5, <3>2 DEF Run, vars, files
    <3>4. QED
      BY <1>1, <3>3
  <2>3. QED
    BY <2>1, <2>2 DEF ProgramInv
<1>6. QED
  BY <1>1, <1>2, <1>3, <1>4, <1>5 DEF ProgramNext, Parse, all

(* What is untouched is unharmed, and gives no reason to complain.          *)
LEMMA WaitsImplies ==
  ASSUME Waits
  PROVE  /\ InputsSurvive /\ NothingDecompiledTwice
         /\ CrashesForAReason /\ DistinctStemsAreSafe
         /\ HasBegun => TypeOK
<1>1. NothingDecompiledTwice
  <2>1. \A n \in DOMAIN disk : Len(disk[n].from) <= 1
    <3>1. \A n \in DOMAIN disk : disk[n].from = <<>>
      BY DEF Waits, Untouched, Original
    <3>2. QED
      BY <3>1
  <2>2. QED
    BY <2>1 DEF Waits, Untouched, NothingDecompiledTwice
<1>2. InputsSurvive
  BY DEF Waits, Untouched, InputsSurvive
<1>3. status \notin {"crashed", "success"}
  BY DEF Waits, NotYet, Taken, Found
<1>4. CrashesForAReason /\ EveryInputHasItsOutput
  BY <1>3 DEF CrashesForAReason, EveryInputHasItsOutput
<1>5. DistinctStemsAreSafe
  BY <1>4 DEF DistinctStemsAreSafe
<1>6. HasBegun => TypeOK
  BY DEF Waits, Untouched, HasBegun, NotYet, Taken, Found, TypeOK
<1>7. QED
  BY <1>1, <1>2, <1>4, <1>5, <1>6

LEMMA ProgramInvImplies ==
  ProgramInv =>
    /\ InputsSurvive /\ NothingDecompiledTwice
    /\ CrashesForAReason /\ DistinctStemsAreSafe
    /\ ProgramTypeOK
<1> SUFFICES ASSUME ProgramInv
             PROVE  /\ InputsSurvive /\ NothingDecompiledTwice
                    /\ CrashesForAReason /\ DistinctStemsAreSafe
                    /\ ProgramTypeOK
  OBVIOUS
<1>1. Parsing => OptionsTypeOK
  BY DEF ProgramInv, OptionsInv
<1>2. CASE BatchHolds
  <2>1. DistinctStemsAreSafe
    BY <1>2, ProjectInvImplies DEF BatchHolds
  <2>2. QED
    BY <1>1, <1>2, <2>1 DEF BatchHolds, BatchInv, ReasonInv, TypeInv, ProgramTypeOK
<1>3. CASE Waits
  BY <1>1, <1>3, WaitsImplies DEF ProgramTypeOK
<1>4. QED
  BY <1>2, <1>3 DEF ProgramInv

(* The parser always has an argument to look at or is at the end, knows what  *)
(* it puts away, and the files the program creates are named as they should   *)
(* be (Options::parse, main).                                              *)
THEOREM TypesHold == ProgramSpec => []ProgramTypeOK
BY ProgramInvInit, ProgramInvNext, ProgramInvImplies, PTL DEF ProgramSpec

(* No output of the program replaces a file that it takes or may still take   *)
(* as its input, however many there are, in whatever order they are visited,  *)
(* and whether or not what is created meanwhile is visited; only the file     *)
(* whose own name the command line gives for the output is not spoken of      *)
(* (main, processFile).                                                    *)
THEOREM InputsAreSafe == ProgramSpec => []InputsSurvive
BY ProgramInvInit, ProgramInvNext, ProgramInvImplies, PTL DEF ProgramSpec

(* No project that the program creates is decompiled in turn (main).          *)
THEOREM ProjectsAreLeft == ProgramSpec => []NothingDecompiledTwice
BY ProgramInvInit, ProgramInvNext, ProgramInvImplies, PTL DEF ProgramSpec

(* A run that ends in an exception has met a file that cannot be decompiled,  *)
(* or one that had the name of another file's dump where the dumps go, in an  *)
(* output directory with anything in it (main, processFile).                 *)
THEOREM CrashesHaveReasons == ProgramSpec => []CrashesForAReason
BY ProgramInvInit, ProgramInvNext, ProgramInvImplies, PTL DEF ProgramSpec

(* In whatever order a directory is visited, and whatever is in the output    *)
(* directory, every movie and cast file whose project's name no other can get  *)
(* and no directory has there has its project at the end (main, processFile).  *)
THEOREM StemsAreSafe == ProgramSpec => []DistinctStemsAreSafe
BY ProgramInvInit, ProgramInvNext, ProgramInvImplies, PTL DEF ProgramSpec
=============================================================================

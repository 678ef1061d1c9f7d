------------------------------- MODULE FileNames -------------------------------
(***************************************************************************)
(* The names and the contents of the files the program meets.  A name is a   *)
(* stem and an extension, both sequences: an extension of lower-case         *)
(* characters, a stem of words, because words are all that is put to it      *)
(* (src/src/main.cpp).                                                     *)
(***************************************************************************)
EXTENDS Sequences

CONSTANTS
  Folders,        (* Contents of the directory: holdings by name.           *)
  OutputFolders,  (* Contents of another directory that is named for outputs. *)
  GivenNames,     (* What an output that is no directory may be called.      *)
  Words           (* What names are made of.                                *)

Dot(a, b, c) == <<".", a, b, c>>
Dcr == Dot("d", "c", "r")
Dxr == Dot("d", "x", "r")
Cct == Dot("c", "c", "t")
Cxt == Dot("c", "x", "t")
Dir == Dot("d", "i", "r")
Cst == Dot("c", "s", "t")
Protected == {Dcr, Dxr, Cct, Cxt}

(* A name is a stem and an extension that is empty or begins with a dot.  No  *)
(* stem has a dot: a bound, for a dump is named by the stem alone.           *)
Name(stem, extension) == [stem |-> stem, ext |-> extension]
Names == [stem : Seq(Words), ext : Seq(Words)]

(* "rejected": DirectorFile::read returns false.  "throws": reading, parsing *)
(* or writing ends in an exception.  from: what a project was made from.    *)
Holdings == {"movie", "cast", "rejected", "throws", "directory"}
Original(holding) == [holds |-> holding, from |-> <<>>]
Directory == Original("directory")
Stored(files) == [name \in DOMAIN files |-> Original(files[name])]

ASSUME WordsAssumption ==
  {".", "c", "d", "i", "r", "s", "t", "x", "_", "dump", "_decompiled"} \subseteq Words
ASSUME FoldersAssumption ==
  \A files \in Folders \cup OutputFolders :
    DOMAIN files \subseteq Names /\ \A n \in DOMAIN files : files[n] \in Holdings
ASSUME GivenNamesAssumption == GivenNames \subseteq Names

(* What is asked for: only decompiling takes an output.  A name that is no   *)
(* directory's may be new or that of a file, the input's too; for a directory *)
(* of inputs a new one is that of another directory, which is created.  The   *)
(* input's own directory, when it is named, is no other than the default.     *)
(* That a given path can be read or created is a bound of the model.          *)
NoName == Name(<<>>, <<>>)
Commands(files) ==
  {c \in [cmd : {"decompile", "version"}, input : {"file", "directory"}, dump : BOOLEAN,
          name : GivenNames \cup {NoName},
          output : {"default", "other directory", "given name"}] :
     /\ c.cmd = "version" => c.output = "default"
     /\ c.output = "given name" <=> c.name # NoName
     /\ c.name \in DOMAIN files => files[c.name] # "directory"
     /\ c.output = "given name" /\ c.input = "directory" => c.name \in DOMAIN files}

(* Another directory has anything in it, or nothing when it is new.          *)
Elsewheres(c) ==
  IF c.output = "other directory" THEN {Stored(there) : there \in OutputFolders} ELSE {<<>>}

InputsOf(files, c) ==
  IF c.input = "directory" THEN {DOMAIN files}
  ELSE {{name} : name \in {n \in DOMAIN files : files[n] # "directory"}}
=============================================================================

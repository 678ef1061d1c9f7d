--------------------------------- MODULE Chunks ---------------------------------
(***************************************************************************)
(* What becomes of one chunk between getChunkData and the files that are     *)
(* written (src/src/director/dirfile.cpp): a sound of a compressed movie is  *)
(* decoded; any other chunk is made an object of the class its               *)
(* four-character code stands for, which reads it.  From there a cast member *)
(* or the configuration is changed and written back, a script is given its   *)
(* names, and any of them is dumped.                                       *)
(*                                                                         *)
(* Each of the modules put together here follows the bytes or the fields of  *)
(* one kind of chunk; nothing of one chunk shows in another.  The variables  *)
(* of the modules that do not follow the chunk are Unused.                   *)
(***************************************************************************)
EXTENDS Integers, Sequences

CONSTANTS
  Members, Texts,     (* Cast members in the file, and texts to restore.     *)
  Configs,            (* Configurations.                                    *)
  Scripts,            (* Scripts with their names.                          *)
  Sounds,             (* Compressed sounds.                                 *)
  Objects,            (* Chunks as lists of fields, of every class.          *)
  MaxRewrites,        (* How often a chunk is read and written.              *)
  NoMember, NoInfo, Unreadable, NoConfig, Unknown, Null, Uninitialized,
  Unused              (* In place of a variable of the other modules.        *)

(* Numbers of a sound are unsigned; libmpg123 delivers one channel or two.    *)
ASSUME SoundsAssumption ==
  Sounds \subseteq
    [size : Nat, format : Nat, count : Nat, commands : Nat, channels : Nat, sampleSize : Nat,
     encode : {"standard", "extended", "compressed", "unknown"}, skip : Nat, audio : Nat,
     found : [rateDiffers : BOOLEAN, channels : {1, 2}, encoding : {8, 16}],
     short : BOOLEAN, uncompressedLen : Nat]

VARIABLES
  kind,               (* "member", "config", "script", "sound" or "object":   *)
                      (* which module follows the chunk.                      *)
  phase, data, rewrites,                                (* of several *)
  version, member, room, said,                          (* CastMember *)
  little, config, original,                             (* ConfigChunk *)
  input, pos, at, header, script, handlers, literals, names, declared, (* ScriptRoundTrip *)
  chunk,                                                (* of two *)
  pc, inPos, out, outPos, err, handle,                                  (* SoundDecoder *)
  bytesToSkip, bytesToRead, decoded, result,
  reads, object, written, dump                          (* ChunkDump *)

Member == INSTANCE CastMember WITH Inputs <- Members
Config == INSTANCE ConfigChunk WITH Inputs <- Configs
Script == INSTANCE ScriptRoundTrip WITH Inputs <- Scripts
Sound == INSTANCE SoundDecoder WITH Chunks <- Sounds
Object == INSTANCE ChunkDump WITH Stored <- Objects

ofMember == <<version, member, room, said>>
ofConfig == <<little, config, original>>
ofScript == <<input, pos, at, header, script, handlers, literals, names, declared>>
ofSound == <<pc, inPos, out, outPos, err, handle, bytesToSkip, bytesToRead, decoded, result>>
ofObject == <<reads, object, written, dump>>
vars == <<kind, phase, data, rewrites, chunk, ofMember, ofConfig, ofScript, ofSound, ofObject>>
-----------------------------------------------------------------------------
NoMembers == version = Unused /\ member = Unused /\ room = Unused /\ said = Unused
NoConfigs == little = Unused /\ config = Unused /\ original = Unused
NoScripts ==
  /\ input = Unused /\ pos = Unused /\ at = Unused /\ header = Unused /\ script = Unused
  /\ handlers = Unused /\ literals = Unused /\ names = Unused /\ declared = Unused
NoSounds ==
  /\ pc = Unused /\ inPos = Unused /\ out = Unused /\ outPos = Unused /\ err = Unused
  /\ handle = Unused /\ bytesToSkip = Unused /\ bytesToRead = Unused /\ decoded = Unused /\ result = Unused
NoObjects == reads = Unused /\ object = Unused /\ written = Unused /\ dump = Unused
NoBytes == data = Unused /\ rewrites = Unused

Init ==
  \/ /\ kind = "member" /\ Member!Init
     /\ chunk = Unused /\ NoConfigs /\ NoScripts /\ NoSounds /\ NoObjects
  \/ /\ kind = "config" /\ Config!Init
     /\ chunk = Unused /\ NoMembers /\ NoScripts /\ NoSounds /\ NoObjects
  \/ /\ kind = "script" /\ Script!Init
     /\ chunk = Unused /\ NoBytes /\ NoMembers /\ NoConfigs /\ NoSounds /\ NoObjects
  \/ /\ kind = "sound" /\ Sound!Init
     /\ phase = Unused /\ NoBytes /\ NoMembers /\ NoConfigs /\ NoScripts /\ NoObjects
  \/ /\ kind = "object" /\ Object!Init
     /\ NoBytes /\ NoMembers /\ NoConfigs /\ NoScripts /\ NoSounds

MemberStep ==
  /\ kind = "member" /\ Member!Next
  /\ UNCHANGED <<kind, chunk, ofConfig, ofScript, ofSound, ofObject>>
ConfigStep ==
  /\ kind = "config" /\ Config!Next
  /\ UNCHANGED <<kind, chunk, ofMember, ofScript, ofSound, ofObject>>
ScriptStep ==
  /\ kind = "script" /\ Script!Next
  /\ UNCHANGED <<kind, data, rewrites, chunk, ofMember, ofConfig, ofSound, ofObject>>
SoundStep ==
  /\ kind = "sound" /\ Sound!Next
  /\ UNCHANGED <<kind, phase, data, rewrites, ofMember, ofConfig, ofScript, ofObject>>
ObjectStep ==
  /\ kind = "object" /\ Object!Next
  /\ UNCHANGED <<kind, data, rewrites, ofMember, ofConfig, ofScript, ofSound>>

Next == MemberStep \/ ConfigStep \/ ScriptStep \/ SoundStep \/ ObjectStep

(* The loops of the decoder run until they end: nothing else runs meanwhile. *)
Spec == Init /\ [][Next]_vars /\ WF_vars(SoundStep)
-----------------------------------------------------------------------------
(***************************************************************************)
(* The type invariants of the modules.                                     *)
(***************************************************************************)
TypeOK ==
  CASE kind = "member" -> Member!TypeOK
    [] kind = "config" -> Config!TypeOK
    [] kind = "script" -> Script!TypeOK
    [] kind = "sound" -> Sound!TypeOK
    [] kind = "object" -> Object!TypeOK

(* A cast member that is given another text and rewritten keeps all the rest  *)
(* of it: the reader finds every other item, name, flag and byte where the   *)
(* new offsets and lengths say, and rewriting it again changes nothing       *)
(* (CastMemberChunk::read, size, write).                                    *)
MembersAreKept == kind = "member" => Member!OnlyTheTextChanges /\ Member!RewriteIsIdempotent

(* A configuration that is unprotected keeps all but its protection, carries *)
(* the checksum of what it says, and ends the run only for a stage at which  *)
(* the checksum divides by zero or for a length that is none (ConfigChunk).  *)
ConfigsAreKept ==
  kind = "config" =>
    Config!ChecksumIsOfWhatIsWritten /\ Config!OnlyProtectionChanges /\ Config!EndsForAReason

(* What is written of a member fills the room that was set aside for it, and *)
(* a movie that is processed again keeps its configuration: both are written *)
(* from lengths and fields that were stored a while before.                 *)
MemberWrite == kind = "member" => Member!FillsItsRoom
ConfigWrite == kind = "config" => Config!WritesTheSame
RewritesAreStable == [][MemberWrite /\ ConfigWrite]_vars

(* Wherever its parts lie, of a script the reader makes the whole or none, it *)
(* throws only for what is missing, and a wrong length of one handler's code *)
(* stays in that code (Script::read, Handler::readData).  As the code is, two *)
(* exceptions are part of it: a chunk that ends in the second half of its     *)
(* last double is read with four bytes of something else, and a whole script *)
(* with a ten-byte number from 2^1023 on is refused (readDouble,             *)
(* readAppleFloat80).                                                       *)
ScriptsAreWhole ==
  kind = "script" =>
    Script!WholeScriptOrNone /\ Script!WholeChunksAreRead /\ Script!WrongLengthStaysLocal

(* Jumps, distances in bytes, lead to the instruction they were compiled for, *)
(* and a script declares its own names, in order, and no other.              *)
ScriptsAreLinked == kind = "script" => Script!JumpsReachTheirTarget /\ Script!DeclaresItsNames

(* A sound that is taken begins with its own header and then with the first  *)
(* sample after the encoder's delay, never with an earlier one however       *)
(* libmpg123 cuts it, and it is taken only if nothing failed (decompressSnd). *)
SoundsAreKept ==
  kind = "sound" =>
    /\ Sound!HeaderIsKept /\ Sound!NeverTooEarly
    /\ Sound!SoundIsWhole /\ Sound!TakenOrRefusedForAReason

(* Every sound is taken or refused in the end: both loops of decodeMP3 end.  *)
DecodingEnds == <>(kind = "sound" => Sound!Ended)

(* For the findings: the check of the length after decompression promises   *)
(* that a sound that is taken fills its buffer; decompressSnd returns the    *)
(* size of the buffer, whatever it wrote.                                   *)
TakenSoundsAreComplete == kind = "sound" => Sound!TakenSoundsAreComplete

(* A dump says of every field what was read and nothing of a member that was *)
(* never set, and a map is written with the fields it is read with, in the   *)
(* size it announces (read, write, size and writeJSON).                     *)
FieldsAreKept ==
  kind = "object" =>
    Object!DumpSaysWhatWasRead /\ Object!NothingUnsetIsDumped /\ Object!WritesWhatItReads
=============================================================================

------------------------------- MODULE ChunkDump -------------------------------
(***************************************************************************)
(* The fields of a chunk from the file into its object and from there into  *)
(* its JSON dump, or into the new file: read, write, size and writeJSON of  *)
(* chunk.cpp, subchunk.cpp and castmember.cpp, with the reads of scripts,   *)
(* contexts and names in lingodec/.                                        *)
(*                                                                         *)
(* A field is <<list, k, name>>: of the chunk itself if the list is Top, or  *)
(* else of the k-th element of a list.  The value of a field is how many     *)
(* fields were read before it: no two fields have the same.  What the        *)
(* values say, JsonCalls' syntax and where fields lie is left out.           *)
(***************************************************************************)
EXTENDS Integers, Sequences, SequencesExt, FiniteSets

CONSTANTS
  Stored,          (* Chunks in the file: [kind, version, count, holds, info, *)
                   (* script, flags1]; "count" is the length of every list    *)
                   (* in it, "holds" how many fields lie before its end.      *)
  Null,
  Uninitialized    (* What a member says that was never set.                *)

VARIABLES
  chunk,
  phase,      (* "reading", "thrown", "read", "dumped" or "written".         *)
  reads,      (* How many fields are read.                                  *)
  object,     (* The value of each member that is set.                      *)
  written,    (* Fields and their widths in the new file, in order.         *)
  dump        (* <<list, k, key, value>> for each field of the dump.         *)
vars == <<chunk, phase, reads, object, written, dump>>

Writable == {"InitialMap", "MemoryMap"}   (* The others are in other modules *)
count == chunk.count
ver == chunk.version
-----------------------------------------------------------------------------
(***************************************************************************)
(* Reading: fields <<field, width>> in the order of the statements.         *)
(***************************************************************************)
Top == "top"
Fields(list, k, width, names) == [i \in DOMAIN names |-> <<<<list, k, names[i]>>, width>>]
Head1(width, names) == Fields(Top, 0, width, names)
Each(n, Element(_)) == IF n < 1 THEN <<>> ELSE FlattenSeq([k \in 1 .. n |-> Element(k)])
Values(list, width) == Each(count, LAMBDA k : Fields(list, k, width, <<"value">>))

InitialMapFields ==
  Head1(4, <<"version", "mmapOffset", "directorVersion", "unused1", "unused2", "unused3">>)

MapEntry(k) ==
  Fields("mapArray", k, 4, <<"fourCC", "len", "offset">>)
  \o Fields("mapArray", k, 2, <<"flags", "unknown0">>)
  \o Fields("mapArray", k, 4, <<"next">>)
MemoryMapFields ==
  Head1(2, <<"headerLength", "entryLength">>)
  \o Head1(4, <<"chunkCountMax", "chunkCountUsed", "junkHead", "junkHead2", "freeHead">>)
  \o Each(count, MapEntry)

KeyTableFields ==
  Head1(2, <<"entrySize", "entrySize2">>) \o Head1(4, <<"entryCount", "usedCount">>)
  \o Each(count, LAMBDA k : Fields("entries", k, 4, <<"sectionID", "castID", "fourCC">>))

CastFields == Values("memberIDs", 4)

CastListFields ==
  Head1(4, <<"dataOffset">>) \o Head1(2, <<"unk0", "castCount", "itemsPerCast", "unk1">>)
  \o Each(count, LAMBDA k :
       Fields("entries", k, 0, <<"name", "filePath">>)
       \o Fields("entries", k, 2, <<"preloadSettings", "minMember", "maxMember">>)
       \o Fields("entries", k, 4, <<"id">>))

CastInfoFields ==
  Fields("info", 1, 4, <<"dataOffset", "unk1", "unk2", "flags", "scriptId">>)
  \o Fields("info", 1, 0, <<"scriptSrcText", "name">>)
InfoFields == IF chunk.info THEN CastInfoFields ELSE <<>>
MemberFields == IF chunk.script THEN Fields("member", 1, 2, <<"scriptType">>) ELSE <<>>
CastMemberFields ==
  (IF ver >= 500 THEN Head1(4, <<"type", "infoLen", "specificDataLen">>)
   ELSE Head1(2, <<"specificDataLen">>) \o Head1(4, <<"infoLen">>) \o Head1(1, <<"type">>)
        \o (IF chunk.flags1 THEN Head1(1, <<"flags1">>) ELSE <<>>))
  \o InfoFields \o MemberFields

ConfigFields ==
  Head1(2, <<"len", "fileVersion", "movieTop", "movieLeft", "movieBottom", "movieRight",
             "minMember", "maxMember">>)
  \o Head1(1, <<"field9", "field10">>)
  \o (IF ver < 700 THEN Head1(2, <<"preD7field11">>) ELSE Head1(1, <<"D7stageColorG", "D7stageColorB">>))
  \o Head1(2, <<"commentFont", "commentSize", "commentStyle">>)
  \o (IF ver < 700 THEN Head1(2, <<"preD7stageColor">>) ELSE Head1(1, <<"D7stageColorIsRGB", "D7stageColorR">>))
  \o Head1(2, <<"bitDepth">>) \o Head1(1, <<"field17", "field18">>) \o Head1(4, <<"field19">>)
  \o Head1(2, <<"directorVersion", "field21">>) \o Head1(4, <<"field22", "field23", "field24">>)
  \o Head1(1, <<"field25", "field26">>) \o Head1(2, <<"frameRate", "platform", "protection">>)
  \o Head1(4, <<"field29", "checksum">>)

HandlerFields(k) ==
  LET h(width, names) == Fields("handlers", k, width, names)
  IN  h(2, <<"nameID", "vectorPos">>) \o h(4, <<"compiledLen", "compiledOffset">>)
      \o h(2, <<"argumentCount">>) \o h(4, <<"argumentOffset">>)
      \o h(2, <<"localsCount">>) \o h(4, <<"localsOffset">>)
      \o h(2, <<"globalsCount">>) \o h(4, <<"globalsOffset", "unknown1">>)
      \o h(2, <<"unknown2", "lineCount">>) \o h(4, <<"lineOffset">>)
      \o (IF ver >= 850 THEN h(4, <<"stackHeight">>) ELSE <<>>)
LiteralFields(k) ==
  Fields("literals", k, IF ver >= 500 THEN 4 ELSE 2, <<"type">>) \o Fields("literals", k, 4, <<"offset">>)
ScriptFields ==
  Head1(4, <<"totalLength", "totalLength2">>)
  \o Head1(2, <<"headerLength", "scriptNumber", "unk20", "parentNumber">>)
  \o Head1(4, <<"scriptFlags">>) \o Head1(2, <<"unk42">>) \o Head1(4, <<"castID">>)
  \o Head1(2, <<"factoryNameID", "handlerVectorsCount">>)
  \o Head1(4, <<"handlerVectorsOffset", "handlerVectorsSize">>)
  \o Head1(2, <<"propertiesCount">>) \o Head1(4, <<"propertiesOffset">>)
  \o Head1(2, <<"globalsCount">>) \o Head1(4, <<"globalsOffset">>)
  \o Head1(2, <<"handlersCount">>) \o Head1(4, <<"handlersOffset">>)
  \o Head1(2, <<"literalsCount">>) \o Head1(4, <<"literalsOffset", "literalsDataCount", "literalsDataOffset">>)
  \o Values("propertyNameIDs", 2) \o Values("globalNameIDs", 2)
  \o Each(count, HandlerFields) \o Each(count, LiteralFields)
  \o Each(count, LAMBDA k : Fields("literals", k, 0, <<"value">>))

ScriptContextFields ==
  Head1(4, <<"unknown0", "unknown1", "entryCount", "entryCount2">>)
  \o Head1(2, <<"entriesOffset", "unknown2">>)
  \o Head1(4, <<"unknown3", "unknown4", "unknown5", "lnamSectionID">>)
  \o Head1(2, <<"validCount", "flags", "freePointer">>)
  \o Each(count, LAMBDA k : Fields("sectionMap", k, 4, <<"unknown0", "sectionID">>)
                           \o Fields("sectionMap", k, 2, <<"unknown1", "unknown2">>))

ScriptNamesFields ==
  Head1(4, <<"unknown0", "unknown1", "len1", "len2">>) \o Head1(2, <<"namesOffset", "namesCount">>)
  \o Values("names", 0)

FieldsOf ==
  CASE chunk.kind = "InitialMap" -> InitialMapFields
    [] chunk.kind = "MemoryMap" -> MemoryMapFields
    [] chunk.kind = "KeyTable" -> KeyTableFields
    [] chunk.kind = "Cast" -> CastFields
    [] chunk.kind = "CastList" -> CastListFields
    [] chunk.kind = "CastMember" -> CastMemberFields
    [] chunk.kind = "Config" -> ConfigFields
    [] chunk.kind = "Script" -> ScriptFields
    [] chunk.kind = "ScriptContext" -> ScriptContextFields
    [] chunk.kind = "ScriptNames" -> ScriptNamesFields

(* A list of a negative length cannot be made.                             *)
ReadField ==
  /\ phase = "reading" /\ reads < Len(FieldsOf)
  /\ IF reads = chunk.holds
     THEN phase' = "thrown" /\ UNCHANGED <<reads, object>>
     ELSE /\ object' = [f \in DOMAIN object \cup {FieldsOf[reads + 1][1]} |->
                          IF f \in DOMAIN object THEN object[f] ELSE reads]
          /\ reads' = reads + 1 /\ UNCHANGED phase
  /\ UNCHANGED <<chunk, written, dump>>

EndRead ==
  /\ phase = "reading" /\ reads = Len(FieldsOf)
  /\ phase' = IF count < 0 THEN "thrown" ELSE "read"
  /\ UNCHANGED <<chunk, reads, object, written, dump>>
-----------------------------------------------------------------------------
(***************************************************************************)
(* Writing the two chunks whose bytes no other module models.              *)
(***************************************************************************)
WrittenEntrySwapped(k) ==          (* next before the flags *)
  Fields("mapArray", k, 4, <<"fourCC", "len", "offset", "next">>)
  \o Fields("mapArray", k, 2, <<"flags", "unknown0">>)
WrittenEntry(k) ==
  Fields("mapArray", k, 4, <<"fourCC", "len", "offset">>)
  \o Fields("mapArray", k, 2, <<"flags", "unknown0">>)
  \o Fields("mapArray", k, 4, <<"next">>)

WrittenFields ==
  IF chunk.kind = "InitialMap"
  THEN Head1(4, <<"version", "mmapOffset", "directorVersion", "unused1", "unused2", "unused3">>)
  ELSE Head1(2, <<"headerLength", "entryLength">>)
       \o Head1(4, <<"chunkCountMax", "chunkCountUsed", "junkHead", "junkHead2", "freeHead">>)
       \o Each(count, WrittenEntry)

Write ==
  /\ phase = "dumped" /\ chunk.kind \in Writable
  /\ written' = WrittenFields
  /\ phase' = "written"
  /\ UNCHANGED <<chunk, reads, object, dump>>

(* With the header length, the entry length and the number of entries that   *)
(* generateMemoryMap sets: 24, 20 and as many as are used.                  *)
Size == IF chunk.kind = "InitialMap" THEN 24 ELSE 24 + count * 20
-----------------------------------------------------------------------------
(***************************************************************************)
(* Dumping.                                                                *)
(***************************************************************************)
Value(field) == IF field \in DOMAIN object THEN object[field] ELSE Uninitialized
(* Keys with the fields of their names, as JSON_WRITE_FIELD writes them.     *)
Dumped(list, k, names) ==
  [i \in DOMAIN names |-> <<list, k, names[i], Value(<<list, k, names[i]>>)>>]
Chunk(names) == Dumped(Top, 0, names)
DumpedValuesOfFirst(list) == Each(count, LAMBDA k : Dumped(list, 1, <<"value">>))
DumpedValues(list) == Each(count, LAMBDA k : Dumped(list, k, <<"value">>))

InitialMapJSON ==
  Chunk(<<"version", "mmapOffset", "directorVersion", "unused1", "unused2", "unused3">>)

MemoryMapJSON ==
  Chunk(<<"headerLength", "entryLength", "chunkCountMax", "chunkCountUsed", "junkHead",
          "junkHead2", "freeHead">>)
  \o Each(count, LAMBDA k :
       Dumped("mapArray", k, <<"fourCC", "len", "offset", "flags", "unknown0", "next">>))

KeyTableJSON ==
  Chunk(<<"entrySize", "entrySize2", "entryCount", "usedCount">>)
  \o Each(count, LAMBDA k : Dumped("entries", k, <<"sectionID", "castID", "fourCC">>))

CastJSON == DumpedValues("memberIDs")

CastListJSON ==
  Chunk(<<"dataOffset", "unk0", "itemsPerCast", "itemsPerCast", "unk1">>)
  \o Each(count, LAMBDA k :
       Dumped("entries", k, <<"name", "filePath", "preloadSettings", "minMember", "maxMember", "id">>))

CastInfoJSON ==
  Dumped("info", 1, <<"dataOffset", "unk1", "unk2", "flags", "scriptId", "scriptSrcText", "name">>)
HasFlags1Early == ver < 500         (* forgets that some have none *)
HasFlags1 == ver < 500 /\ chunk.flags1
CastMemberJSON ==
  Chunk(<<"type", "infoLen">>)
  \o (IF HasFlags1 THEN Chunk(<<"flags1">>) ELSE <<>>)
  \o Chunk(<<"specificDataLen">>)
  \o (IF chunk.info THEN CastInfoJSON ELSE <<<<Top, 0, "info", Null>>>>)
  \o (IF chunk.script THEN Dumped("member", 1, <<"scriptType">>) ELSE <<>>)

ConfigJSON ==
  Chunk(<<"len", "fileVersion", "movieTop", "movieLeft", "movieBottom", "movieRight",
          "minMember", "maxMember", "field9", "field10">>)
  \o Chunk(IF ver < 700 THEN <<"preD7field11">> ELSE <<"D7stageColorG", "D7stageColorB">>)
  \o Chunk(<<"commentFont", "commentSize", "commentStyle">>)
  \o Chunk(IF ver < 700 THEN <<"preD7stageColor">> ELSE <<"D7stageColorIsRGB", "D7stageColorR">>)
  \o Chunk(<<"bitDepth", "field17", "field18", "field19", "directorVersion", "field21", "field22",
             "field23", "field24", "field25", "field26", "frameRate", "platform", "protection",
             "field29", "checksum">>)

(* The key globalsOffset of a handler has the value of its script.          *)
HandlerJSON(k) ==
  Dumped("handlers", k, <<"nameID", "vectorPos", "compiledLen", "compiledOffset", "argumentCount",
                          "argumentOffset", "localsCount", "localsOffset", "globalsCount">>)
  \o <<<<"handlers", k, "globalsOffset", Value(<<Top, 0, "globalsOffset">>)>>>>
  \o Dumped("handlers", k, <<"unknown1", "unknown2", "lineCount", "lineOffset">>)
  \o (IF ver >= 850 THEN Dumped("handlers", k, <<"stackHeight">>) ELSE <<>>)
LiteralJSON(k) == Dumped("literals", k, <<"type", "offset", "value">>)
ScriptJSON ==
  Chunk(<<"totalLength", "totalLength2", "headerLength", "scriptNumber", "unk20", "parentNumber",
          "scriptFlags", "unk42", "castID", "factoryNameID", "handlerVectorsCount",
          "handlerVectorsOffset", "handlerVectorsSize", "propertiesCount", "propertiesOffset",
          "globalsCount", "globalsOffset", "handlersCount", "handlersOffset", "literalsCount",
          "literalsOffset", "literalsDataCount", "literalsDataOffset">>)
  \o DumpedValues("propertyNameIDs") \o DumpedValues("globalNameIDs")
  \o Each(count, HandlerJSON) \o Each(count, LiteralJSON)

ScriptContextJSON ==
  Chunk(<<"unknown0", "unknown1", "entryCount", "entryCount2", "entriesOffset", "unknown2",
          "unknown3", "unknown4", "unknown5", "lnamSectionID", "validCount", "flags", "freePointer">>)
  \o Each(count, LAMBDA k :
       Dumped("sectionMap", k, <<"unknown0", "sectionID", "unknown1", "unknown2">>))

(* ScriptNamesChunk declares the members of its base class again: the dump    *)
(* reads these, which nothing sets, and a list of names that stays empty.     *)
ScriptNamesJSON ==
  LET names == <<"unknown0", "unknown1", "len1", "len2", "namesOffset", "namesCount">>
  IN  [i \in DOMAIN names |-> <<Top, 0, names[i], Uninitialized>>]

JSON ==
  CASE chunk.kind = "InitialMap" -> InitialMapJSON
    [] chunk.kind = "MemoryMap" -> MemoryMapJSON
    [] chunk.kind = "KeyTable" -> KeyTableJSON
    [] chunk.kind = "Cast" -> CastJSON
    [] chunk.kind = "CastList" -> CastListJSON
    [] chunk.kind = "CastMember" -> CastMemberJSON
    [] chunk.kind = "Config" -> ConfigJSON
    [] chunk.kind = "Script" -> ScriptJSON
    [] chunk.kind = "ScriptContext" -> ScriptContextJSON
    [] chunk.kind = "ScriptNames" -> ScriptNamesJSON

WriteJSON ==
  /\ phase = "read"
  /\ dump' = JSON
  /\ phase' = "dumped"
  /\ UNCHANGED <<chunk, reads, object, written>>
-----------------------------------------------------------------------------
Init ==
  /\ chunk \in Stored
  /\ phase = "reading" /\ reads = 0 /\ object = <<>> /\ written = <<>> /\ dump = <<>>
Next == ReadField \/ EndRead \/ Write \/ WriteJSON
Spec == Init /\ [][Next]_vars
-----------------------------------------------------------------------------
(***************************************************************************)
(* Properties.                                                             *)
(***************************************************************************)
TypeOK ==
  /\ phase \in {"reading", "thrown", "read", "written", "dumped"}
  /\ reads \in 0 .. Len(FieldsOf) /\ Cardinality(DOMAIN object) = reads
  /\ \A i \in DOMAIN dump : dump[i][4] \in {Null, Uninitialized} \cup (0 .. reads - 1)

Is(i, field) == <<dump[i][1], dump[i][2], dump[i][3]>> = field
Says(i, field) == dump[i][4] = object[field]
(* The fields that the dump gets wrong: all of the names of a movie, where    *)
(* the globals of a handler are, how many casts a cast list has.             *)
KnownWrong(field) ==
  \/ chunk.kind = "ScriptNames"
  \/ field[1] = "handlers" /\ field[3] = "globalsOffset"
  \/ chunk.kind = "CastList" /\ field[3] \in {"castCount", "itemsPerCast"}

(* Every field that is read from a chunk is in its dump, once, under its own  *)
(* name and with its own value, for every version and every length of its     *)
(* lists: some 150 fields are spelled out twice, in read and in writeJSON.    *)
DumpSaysWhatWasRead ==
  phase = "dumped" =>
    \A field \in DOMAIN object :
      ~KnownWrong(field) => /\ Cardinality({i \in DOMAIN dump : Is(i, field)}) = 1
                            /\ \A i \in DOMAIN dump : Is(i, field) => Says(i, field)

(* A dump shows no member that its read leaves unset in that version (the     *)
(* names chunk aside).                                                      *)
NothingUnsetIsDumped ==
  chunk.kind # "ScriptNames" => \A i \in DOMAIN dump : dump[i][4] # Uninitialized

(* What is written of a map can be read again: the same fields at the same    *)
(* places, in as many bytes as size says (InitialMapChunk, MemoryMapChunk).  *)
WritesWhatItReads ==
  written # <<>> =>
    /\ written = FieldsOf
    /\ FoldLeft(LAMBDA sum, field : sum + field[2], 0, written) = Size
=============================================================================

----------------------------- MODULE DirectorFile -----------------------------
(***************************************************************************)
(* A movie file from opening to writing: DirectorFile of                   *)
(* src/src/director/dirfile.cpp.                                           *)
(*                                                                         *)
(* The map of the container is read, chunks are fetched and deserialised   *)
(* lazily in whatever order the casts ask for them, script text is put     *)
(* back into cast members, then a memory map for an uncompressed file is   *)
(* laid out entry by entry and the chunks are written one by one, some of  *)
(* them fetched only then.  An exception ends the program: nothing catches *)
(* it, and the file is created only after the last chunk is in the buffer. *)
(*                                                                         *)
(* The bytes of a resource are a record: which resource they are of, how   *)
(* many they are, how many of them are script text, how many reading and   *)
(* writing them again adds or drops, and whether the program can change     *)
(* them (a member without an info block keeps the text it has).            *)
(***************************************************************************)
EXTENDS Integers, Sequences, FiniteSets

CONSTANTS
  Names,        (* Four-character codes, and which resource some bytes are  *)
                (* of.                                                      *)
  Files,        (* The containers to open.                                  *)
  Texts,        (* Lengths of the script texts restored.                    *)
  FontMapSize   (* Length of the default font map of the version.           *)

kRIFXHeaderSize == 12
kChunkHeaderSize == 8
InitialMapSize == 24
MapHeaderLength == 24
MapEntryLength == 20

Writable == {"CASt", "DRCF"}
Known == Writable \cup {"KEY*", "CAS*", "Lctx", "Lnam", "Lscr"}
Compressions == {"none", "zlib", "snd", "fontmap", "unhandled"}

Bytes(of, size) == [of |-> of, size |-> size, text |-> 0, growth |-> 0,
                    editable |-> FALSE]
Content == [of : Names, size : Nat, text : Nat, growth : Int, editable : BOOLEAN]
Original == {c \in Content : c.text <= c.size + c.growth}

(* stored: the len bytes in the container; unpacked: what decompression     *)
(* makes of them, Broken if it fails.  intact: the chunk header found       *)
(* there agrees with the map.                                              *)
Broken == Bytes("broken", 0)
Resource == [id : Nat, fourCC : Names, len : Nat, uncompressedLen : Nat,
             compressionID : Compressions, stored : Original,
             unpacked : Original, intact : BOOLEAN]

ASSUME NamesAssumption ==
  {"RIFX", "imap", "mmap", "free", "0000", "nothing", "broken", "fontmap"} \subseteq Names
ASSUME SizesAssumption == FontMapSize \in Nat /\ Texts \subseteq Nat

(* map: the entries in the order of the container; ils: ids of the chunks   *)
(* in the initial load segment, which a memory map does not have.  An       *)
(* Afterburner map has no free entries.                                    *)
ASSUME FilesAssumption ==
  \A f \in Files :
    /\ f.afterburned \in BOOLEAN
    /\ f.map \in Seq(Resource)
    /\ f.ils \in Seq(Nat)
    /\ f.afterburned =>
         \A k \in 1 .. Len(f.map) : f.map[k].fourCC \notin {"free", "junk"}
    /\ ~f.afterburned => f.ils = <<>>

(* What the container says about a resource is so: it stores len bytes of  *)
(* it; a chunk of a memory map or of the initial load segment is not        *)
(* compressed; a font map is not empty.                                    *)
ASSUME HonestAssumption ==
  \A f \in Files : \A k \in 1 .. Len(f.map) :
    /\ f.map[k].stored.size = f.map[k].len
    /\ \/ ~f.afterburned
       \/ \E j \in 1 .. Len(f.ils) : f.ils[j] = f.map[k].id
       => f.map[k].compressionID = "none"
    /\ f.map[k].compressionID = "fontmap" => f.map[k].len > 0

VARIABLES
  file,          (* The container; never changes.                           *)
  phase,         (* "mapping", "loading", "open", "placing", "linking",     *)
                 (* "writing", "saved" or "aborted".                        *)
  chunkInfo,     (* Resource by id.                                         *)
  views,         (* _cachedChunkViews: content by id.                       *)
  chunks,        (* deserializedChunks: object by id.                       *)
  mapArray,      (* memoryMap->mapArray.                                    *)
  freeHead,      (* memoryMap->freeHead.                                    *)
  nextOffset,    (* Of generateMemoryMap.                                   *)
  rest,          (* Ids the running loop over chunkInfo has not reached.    *)
  at,            (* Where the loop over the container is; from the layout   *)
                 (* on, the id the free-list loop has reached.              *)
  image          (* What was written: where, under what header, what.       *)

vars == <<file, phase, chunkInfo, views, chunks, mapArray, freeHead,
          nextOffset, rest, at, image>>

Ids == DOMAIN chunkInfo
With(f, key, value) == [k \in DOMAIN f \cup {key} |-> IF k = key THEN value ELSE f[k]]
-----------------------------------------------------------------------------
(***************************************************************************)
(* Opening.                                                                *)
(***************************************************************************)
(* A chunk object: what it was read from, and its script text now (for the *)
(* configuration: its protection).                                         *)
Object(fourCC, content) == [fourCC |-> fourCC, was |-> content, text |-> content.text]

Uninitialised == [id |-> 0, fourCC |-> "0000", len |-> -1, uncompressedLen |-> -1,
                  compressionID |-> "none", intact |-> TRUE,
                  stored |-> Bytes("nothing", 0), unpacked |-> Broken]

(* What operator[] makes of an id the map does not list.                    *)
Blank == [id |-> 0, fourCC |-> "0000", len |-> 0, uncompressedLen |-> 0,
          compressionID |-> "none", intact |-> TRUE,
          stored |-> Bytes("nothing", 0), unpacked |-> Broken]

(* One entry of the memory map, or of the Afterburner map: the last entry  *)
(* for an id wins.                                                         *)
ReadEntry ==
  /\ phase = "mapping"
  /\ at <= Len(file.map)
  /\ chunkInfo' = IF file.map[at].fourCC \in {"free", "junk"} /\ ~file.afterburned
                  THEN chunkInfo
                  ELSE With(chunkInfo, file.map[at].id, file.map[at])
  /\ at' = at + 1
  /\ UNCHANGED <<file, phase, views, chunks, mapArray, freeHead, nextOffset, rest, image>>

Abort ==
  /\ phase' = "aborted"
  /\ UNCHANGED <<file, chunkInfo, views, chunks, mapArray, freeHead,
                 nextOffset, rest, at, image>>

(* The two chunks of a memory map are deserialised as ids 1 and 2.          *)
MemoryMapRead ==
  /\ phase = "mapping"
  /\ at > Len(file.map)
  /\ ~file.afterburned
  /\ chunks' = [id \in {1, 2} |-> IF id = 1 THEN Object("imap", Bytes("imap", InitialMapSize))
                                  ELSE Object("mmap", Bytes("mmap", MapHeaderLength))]
  /\ phase' = "open"
  /\ UNCHANGED <<file, chunkInfo, views, mapArray, freeHead, nextOffset, rest, at, image>>

(* The initial load segment is chunk 2 of an Afterburner map.               *)
AfterburnerMapRead ==
  /\ phase = "mapping"
  /\ at > Len(file.map)
  /\ file.afterburned
  /\ IF 2 \notin Ids THEN Abort
     ELSE /\ phase' = "loading"
          /\ at' = 1
          /\ UNCHANGED <<file, chunkInfo, views, chunks, mapArray, freeHead,
                         nextOffset, rest, image>>

LoadResident ==
  /\ phase = "loading"
  /\ at <= Len(file.ils)
  /\ LET id   == file.ils[at]
         info == IF id \in Ids THEN chunkInfo[id] ELSE Blank
     IN  /\ chunkInfo' = With(chunkInfo, id, info)
         /\ views' = With(views, id, info.stored)
  /\ at' = at + 1
  /\ UNCHANGED <<file, phase, chunks, mapArray, freeHead, nextOffset, rest, image>>

SegmentRead ==
  /\ phase = "loading"
  /\ at > Len(file.ils)
  /\ phase' = "open"
  /\ UNCHANGED <<file, chunkInfo, views, chunks, mapArray, freeHead,
                 nextOffset, rest, at, image>>
-----------------------------------------------------------------------------
(***************************************************************************)
(* Fetching.                                                               *)
(***************************************************************************)
FontMap == Bytes("fontmap", FontMapSize)
CompressionImplemented(info) == info.compressionID \in {"zlib", "snd"}

(* What getChunkData reads for an id that has no cached view.               *)
Decoded(info) ==
  CASE info.len = 0 /\ info.uncompressedLen = 0 -> info.stored
    [] CompressionImplemented(info) ->
         IF info.unpacked # Broken /\ info.unpacked.size = info.uncompressedLen
         THEN info.unpacked ELSE Broken
    [] info.compressionID = "fontmap" -> FontMap
    [] OTHER -> info.stored

FetchedAnew(info) ==
  IF file.afterburned THEN Decoded(info)
  ELSE IF info.intact THEN info.stored ELSE Broken

GetChunkData(id) ==
  IF id \in DOMAIN views THEN views[id] ELSE FetchedAnew(chunkInfo[id])

Asks(id, fourCC) == id \in Ids /\ chunkInfo[id].fourCC = fourCC

(* An exception: the chunk is missing, of another type or unreadable.       *)
Throws(id, fourCC) == ~Asks(id, fourCC) \/ GetChunkData(id) = Broken

GetChunk(id, fourCC) ==
  /\ phase = "open"
  /\ fourCC \in Known
  /\ id \notin DOMAIN chunks
  /\ IF Throws(id, fourCC) THEN Abort
     ELSE /\ views' = With(views, id, GetChunkData(id))
          /\ chunks' = With(chunks, id, Object(fourCC, GetChunkData(id)))
          /\ UNCHANGED <<file, phase, chunkInfo, mapArray, freeHead,
                         nextOffset, rest, at, image>>

(* dumpChunks asks for every chunk by the type the map gives it.            *)
DumpChunk(id) ==
  /\ phase = "open"
  /\ id \in Ids /\ chunkInfo[id].id # 0
  /\ IF GetChunkData(id) = Broken THEN Abort
     ELSE /\ views' = With(views, id, GetChunkData(id))
          /\ UNCHANGED <<file, phase, chunkInfo, chunks, mapArray, freeHead,
                         nextOffset, rest, at, image>>

(* restoreScriptText on a member, unprotect on the configuration.           *)
SetText(id, text) ==
  /\ phase = "open"
  /\ id \in DOMAIN chunks
  /\ chunks[id].fourCC \in Writable
  /\ chunks[id].was.editable
  /\ chunks' = [chunks EXCEPT ![id].text = text]
  /\ UNCHANGED <<file, phase, chunkInfo, views, mapArray, freeHead,
                 nextOffset, rest, at, image>>
-----------------------------------------------------------------------------
(***************************************************************************)
(* Laying out the memory map.                                              *)
(***************************************************************************)

(* The content a writable chunk object writes; its size is Chunk::size.     *)
Rewritten(chunk) ==
  [of       |-> chunk.was.of,
   text     |-> chunk.text,
   size     |-> IF chunk.fourCC = "CASt"
                THEN chunk.was.size + chunk.was.growth + chunk.text - chunk.was.text
                ELSE chunk.was.size,
   growth   |-> 0,
   editable |-> chunk.was.editable]

IsRewritten(id) == id \in DOMAIN chunks /\ chunks[id].fourCC \in Writable

SizeWhenRead(id) ==   (* forgets that the object was edited *)
  IF chunkInfo[id].compressionID = "fontmap" THEN FontMapSize
  ELSE IF CompressionImplemented(chunkInfo[id]) THEN chunkInfo[id].uncompressedLen
  ELSE chunkInfo[id].len

ChunkSize(id) ==
  IF IsRewritten(id) THEN Rewritten(chunks[id]).size
  ELSE IF chunkInfo[id].compressionID = "fontmap" THEN FontMapSize
  ELSE IF CompressionImplemented(chunkInfo[id]) THEN chunkInfo[id].uncompressedLen
  ELSE chunkInfo[id].len

Entry(fourCC, len, offset) == [fourCC |-> fourCC, len |-> len, offset |-> offset, next |-> 0]
MmapOffset == kRIFXHeaderSize + kChunkHeaderSize + InitialMapSize
MmapSize(maxID) == MapHeaderLength + (maxID + 1) * MapEntryLength
AfterBody(offset, len) == offset + len   (* forgets the chunk header *)
After(offset, len) == offset + len + kChunkHeaderSize
Used == {id \in DOMAIN mapArray : mapArray[id].fourCC # "free"}
Resources == {id \in Ids : id > 2}

GenerateMemoryMap ==
  /\ phase = "open"
  /\ \E maxID \in Ids \cup {2} :
       /\ \A id \in Ids \cup {2} : id <= maxID
       /\ mapArray' =
            [id \in 0 .. maxID |->
               CASE id = 0 -> Entry("RIFX", 0, 0)
                 [] id = 1 -> Entry("imap", InitialMapSize, kRIFXHeaderSize)
                 [] id = 2 -> Entry("mmap", MmapSize(maxID), MmapOffset)
                 [] OTHER  -> Entry("free", 0, 0)]
       /\ nextOffset' = After(MmapOffset, MmapSize(maxID))
       /\ at' = maxID
  /\ phase' = "placing"
  /\ freeHead' = -1
  /\ rest' = Resources
  /\ UNCHANGED <<file, chunkInfo, views, chunks, image>>

(* The loops over chunkInfo take the ids in ascending order.                *)
IsNext(id) == id \in rest /\ \A other \in rest : id <= other

Place(id) ==
  /\ phase = "placing"
  /\ IsNext(id)
  /\ mapArray' = [mapArray EXCEPT ![id] =
                    Entry(chunkInfo[id].fourCC, ChunkSize(id), nextOffset)]
  /\ nextOffset' = After(nextOffset, ChunkSize(id))
  /\ rest' = rest \ {id}
  /\ UNCHANGED <<file, phase, chunkInfo, views, chunks, freeHead, at, image>>

CloseRIFX ==
  /\ phase = "placing"
  /\ rest = {}
  /\ mapArray' = [mapArray EXCEPT ![0].len = nextOffset - kChunkHeaderSize]
  /\ phase' = "linking"
  /\ UNCHANGED <<file, chunkInfo, views, chunks, freeHead, nextOffset, rest, at, image>>

HasNoBytes(id) == mapArray[id].len = 0   (* takes an empty chunk for a free entry *)
IsFree(id) == mapArray[id].fourCC = "free"

Link ==
  /\ phase = "linking"
  /\ at >= 0
  /\ IF IsFree(at)
     THEN /\ mapArray' = [mapArray EXCEPT ![at].next = freeHead]
          /\ freeHead' = at
     ELSE UNCHANGED <<mapArray, freeHead>>
  /\ at' = at - 1
  /\ UNCHANGED <<file, phase, chunkInfo, views, chunks, nextOffset, rest, image>>

StartWriting ==
  /\ phase = "linking"
  /\ at < 0
  /\ phase' = "writing"
  /\ rest' = {0, 1, 2} \cup Resources
  /\ UNCHANGED <<file, chunkInfo, views, chunks, mapArray, freeHead, nextOffset, at, image>>
-----------------------------------------------------------------------------
(***************************************************************************)
(* Writing.                                                                *)
(***************************************************************************)
FileSize == mapArray[0].len + kChunkHeaderSize

(* What writeChunk puts behind the header of entry id.  The body of RIFX is *)
(* the codec, four bytes.                                                  *)
Generated(id) == Bytes(mapArray[id].fourCC, IF id = 0 THEN 4 ELSE mapArray[id].len)
StaleBodyOf(id) ==   (* forgets the object and writes the chunk as it was read *)
  IF id <= 2 THEN Generated(id) ELSE GetChunkData(id)

BodyOf(id) ==
  IF id <= 2 THEN Generated(id)
  ELSE IF IsRewritten(id) THEN Rewritten(chunks[id])
  ELSE GetChunkData(id)

Segment(id, body) ==
  [offset |-> mapArray[id].offset, fourCC |-> mapArray[id].fourCC,
   len |-> mapArray[id].len, body |-> body]

SegmentEnd(s) == s.offset + kChunkHeaderSize + s.body.size

WriteChunk(id) ==
  /\ phase = "writing"
  /\ IsNext(id)
  /\ LET body == BodyOf(id)
     IN  IF body = Broken \/ SegmentEnd(Segment(id, body)) > FileSize
         THEN Abort
         ELSE /\ image' = Append(image, Segment(id, body))
              /\ views' = IF id <= 2 \/ IsRewritten(id) THEN views
                          ELSE With(views, id, body)
              /\ rest' = rest \ {id}
              /\ UNCHANGED <<file, phase, chunkInfo, chunks, mapArray,
                             freeHead, nextOffset, at>>

WriteFile ==
  /\ phase = "writing"
  /\ rest = {}
  /\ phase' = "saved"
  /\ UNCHANGED <<file, chunkInfo, views, chunks, mapArray, freeHead,
                 nextOffset, rest, at, image>>

Ended == phase \in {"saved", "aborted"} /\ UNCHANGED vars

Nothing == [none \in {} |-> Broken]

Init ==
  /\ file \in Files
  /\ phase = "mapping"
  /\ chunkInfo = Nothing
  /\ views = Nothing
  /\ chunks = Nothing
  /\ mapArray = Nothing
  /\ freeHead = -1
  /\ nextOffset = 0
  /\ rest = {}
  /\ at = 1
  /\ image = <<>>

Next ==
  \/ ReadEntry \/ MemoryMapRead \/ AfterburnerMapRead \/ LoadResident \/ SegmentRead
  \/ \E id \in Ids, fourCC \in Known : GetChunk(id, fourCC)
  \/ \E id \in Ids : DumpChunk(id)
  \/ \E id \in Ids, text \in Texts : SetText(id, text)
  \/ GenerateMemoryMap
  \/ \E id \in rest : Place(id) \/ WriteChunk(id)
  \/ CloseRIFX \/ Link \/ StartWriting \/ WriteFile
  \/ Ended

Spec == Init /\ [][Next]_vars
-----------------------------------------------------------------------------
(***************************************************************************)
(* Properties.                                                             *)
(***************************************************************************)
Phases == {"mapping", "loading", "open", "placing", "linking", "writing", "saved", "aborted"}
ChunkObject == [fourCC : Known \cup {"imap", "mmap"}, was : Original, text : Nat]
MapEntry == [fourCC : Names, len : Nat, offset : Nat, next : Int]
Written == [offset : Nat, fourCC : Names, len : Nat, body : Content]

(* The state of the program has its types; in particular every offset the  *)
(* layout computes is a natural number.                                    *)
TypeOK ==
  /\ file \in Files
  /\ phase \in Phases
  /\ \A id \in Ids : id \in Nat /\ chunkInfo[id] \in Resource
  /\ \A id \in DOMAIN views : views[id] \in Original
  /\ \A id \in DOMAIN chunks : chunks[id] \in ChunkObject
  /\ \A id \in DOMAIN mapArray : id \in Nat /\ mapArray[id] \in MapEntry
  /\ freeHead \in Int /\ nextOffset \in Nat /\ at \in Int
  /\ rest \subseteq Nat
  /\ image \in Seq(Written)

EntryEnd(id) ==
  IF id = 0 THEN kRIFXHeaderSize
  ELSE mapArray[id].offset + mapArray[id].len + kChunkHeaderSize
Apart(a, b) == EntryEnd(a) <= mapArray[b].offset \/ EntryEnd(b) <= mapArray[a].offset

(* No two entries of the memory map that is laid out claim the same bytes   *)
(* of the file, and none reaches past the end of what is laid out so far    *)
(* (generateMemoryMap, which never looks back at an entry it has placed).  *)
EntriesDisjoint ==
  /\ \A a, b \in Used : a # b => Apart(a, b)
  /\ \A id \in Used : EntryEnd(id) <= nextOffset

FreeEntries == DOMAIN mapArray \ Used

(* Once linked, the free entries form one list from freeHead: it visits     *)
(* every free id and no used one, in ascending order, and ends in -1.      *)
FreeListIsExact ==
  phase \in {"writing", "saved"} =>
    /\ \A id \in FreeEntries : freeHead <= id
    /\ freeHead \in FreeEntries \cup {-1}
    /\ freeHead = -1 => FreeEntries = {}
    /\ \A id \in FreeEntries :
         /\ mapArray[id].next \in {n \in FreeEntries : n > id} \cup {-1}
         /\ \A other \in FreeEntries : other > id => mapArray[id].next \in id + 1 .. other

(* A chunk that is in the buffer has the length its header and the memory  *)
(* map say, whether it was copied, unpacked, replaced by a default or      *)
(* rewritten after an edit: the warning "Size estimate was incorrect" of   *)
(* writeChunk is never given.                                              *)
EstimatesHold ==
  \A k \in 1 .. Len(image) :
    image[k].fourCC # "RIFX" => image[k].len = image[k].body.size
=============================================================================

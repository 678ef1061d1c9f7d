-------------------------- MODULE DirectorFileRepack --------------------------
(***************************************************************************)
(* DirectorFile implements Repack: what a reader finds in the file that is  *)
(* written is the movie that was opened, with the edits.                   *)
(***************************************************************************)
EXTENDS DirectorFile

CONSTANT NoOutput

(***************************************************************************)
(* The reader: readMemoryMap and readChunkData on the written file.         *)
(***************************************************************************)

(* The write of a chunk that starts at offset under this header, with its  *)
(* full length, and of which no later write replaced a byte.               *)
Intact(k, offset, fourCC, len) ==
  /\ image[k].offset = offset /\ image[k].fourCC = fourCC /\ image[k].len = len
  /\ image[k].body.size = len
  /\ \A j \in k + 1 .. Len(image) : \/ SegmentEnd(image[j]) <= offset
                                    \/ image[j].offset >= SegmentEnd(image[k])

ReadChunkData(offset, fourCC, len) ==
  IF \E k \in 1 .. Len(image) : Intact(k, offset, fourCC, len)
  THEN image[CHOOSE k \in 1 .. Len(image) : Intact(k, offset, fourCC, len)].body
  ELSE Broken

Reopened ==
  IF ReadChunkData(kRIFXHeaderSize, "imap", InitialMapSize) = Broken
     \/ ReadChunkData(MmapOffset, "mmap", mapArray[2].len) = Broken
  THEN <<>>
  ELSE [id \in Used \ {0, 1, 2} |->
          [fourCC |-> mapArray[id].fourCC,
           data |-> ReadChunkData(mapArray[id].offset, mapArray[id].fourCC, mapArray[id].len)]]
-----------------------------------------------------------------------------
(***************************************************************************)
(* The movie: the last listed entry of an id and what can be had of it.     *)
(***************************************************************************)
Resident == {file.ils[k] : k \in 1 .. Len(file.ils)}
Unread(id, info) == IF id \in Resident THEN info.stored ELSE FetchedAnew(info)

Listed(id) == {k \in 1 .. Len(file.map) :
                 file.map[k].id = id /\ file.map[k].fourCC \notin {"free", "junk"}}
InMap == {file.map[k].id : k \in 1 .. Len(file.map)}
Entries == {id \in InMap : Listed(id) # {}} \cup Resident
LastListed(id) ==
  IF Listed(id) = {} THEN Blank
  ELSE file.map[CHOOSE k \in Listed(id) : \A j \in Listed(id) : j <= k]

Movie == [id \in {e \in Entries : e > 2} |->
            [fourCC |-> LastListed(id).fourCC,
             data   |-> IF IsRewritten(id) THEN Rewritten(chunks[id])
                        ELSE Unread(id, LastListed(id))]]

Abstract == INSTANCE Repack WITH
  table    <- Movie,
  output   <- IF phase = "saved" THEN Reopened ELSE NoOutput

(* Opening, fetching in any order, editing, laying out and writing, one    *)
(* chunk at a time, amount to one step that stores the movie as edited:     *)
(* reading the written file gives back every resource under its id and     *)
(* type, and nothing is written when a resource is unreadable.             *)
RepackSpec == Abstract!RepackSpec
=============================================================================

-------------------------- MODULE DirectorFileProofs --------------------------
(***************************************************************************)
(* Proofs about DirectorFile, for every set of containers, every text and   *)
(* every size of the font map.                                             *)
(***************************************************************************)
EXTENDS DirectorFileRepack, TLAPS

LaidOut == {"placing", "linking", "writing", "saved"}

(* What the type invariant needs to be inductive: the loop over the         *)
(* container stays inside it, the map has an entry for every chunk once it *)
(* is laid out, and the running loop only meets ids that have one.          *)
Bounds ==
  /\ phase \in {"mapping", "loading"} => at >= 1 /\ mapArray = Nothing
  /\ phase = "open" => mapArray = Nothing
  /\ phase \in LaidOut => Ids \cup {0, 1, 2} \subseteq DOMAIN mapArray
  /\ phase = "placing" => rest \subseteq Resources /\ nextOffset >= kRIFXHeaderSize
  /\ phase = "writing" => rest \subseteq {0, 1, 2} \cup Resources

TypeInv == TypeOK /\ Bounds

(* A resource made of a known name and a length has the type of content.    *)
LEMMA BytesType ==
  ASSUME NEW of \in Names, NEW size \in Nat
  PROVE  Bytes(of, size) \in Original
BY DEF Bytes, Original, Content

(* Whatever is fetched has the type of the bytes of a resource.             *)
LEMMA FetchedType ==
  ASSUME TypeOK, NEW id \in Ids
  PROVE  GetChunkData(id) \in Original
<1>1. chunkInfo[id] \in Resource
  BY DEF TypeOK
<1>2. FontMap \in Original /\ Broken \in Original
  <2>1. "fontmap" \in Names /\ "broken" \in Names
    BY NamesAssumption
  <2>2. QED
    BY <2>1, BytesType, SizesAssumption DEF FontMap, Broken
<1>3. FetchedAnew(chunkInfo[id]) \in Original
  BY <1>1, <1>2 DEF FetchedAnew, Decoded, Resource, CompressionImplemented
<1>4. QED
  BY <1>3 DEF GetChunkData, TypeOK

(* What a chunk object writes is as long as a natural number: the text that *)
(* is taken away was part of it.                                           *)
LEMMA RewrittenType ==
  ASSUME NEW chunk \in ChunkObject
  PROVE  Rewritten(chunk) \in Content
BY DEF Rewritten, ChunkObject, Original, Content, Known, Writable

(* The size that is estimated for a chunk is a natural number.              *)
LEMMA ChunkSizeType ==
  ASSUME TypeOK, NEW id \in Ids
  PROVE  ChunkSize(id) \in Nat
<1>1. chunkInfo[id] \in Resource
  BY DEF TypeOK
<1>2. IsRewritten(id) => Rewritten(chunks[id]) \in Content
  BY RewrittenType DEF IsRewritten, TypeOK
<1>3. QED
  BY <1>1, <1>2, SizesAssumption DEF ChunkSize, Content, Resource, CompressionImplemented

(* No container is open: the caches are empty and of their types.           *)
LEMMA InitTypeInv == Init => TypeInv
BY DEF Init, TypeInv, TypeOK, Bounds, Phases, LaidOut, Nothing, Ids

(* Every step keeps the types: one step of the proof per action.            *)
LEMMA NextTypeInv == TypeInv /\ [Next]_vars => TypeInv'
<1> SUFFICES ASSUME TypeInv, [Next]_vars PROVE TypeInv'
  OBVIOUS
<1> USE DEF TypeInv, TypeOK, Bounds, LaidOut, Phases, Ids
<1>1. CASE ReadEntry
  <2>1. file.map \in Seq(Resource) /\ file.map[at] \in Resource
    BY <1>1, FilesAssumption DEF ReadEntry
  <2>2. \A id \in DOMAIN chunkInfo' : id \in Nat /\ chunkInfo'[id] \in Resource
    <3>1. file.map[at].id \in Nat
      BY <2>1 DEF Resource
    <3>2. QED
      BY <1>1, <2>1, <3>1 DEF ReadEntry, With
  <2>3. QED
    BY <1>1, <2>2 DEF ReadEntry
<1>2. CASE MemoryMapRead
  <2>1. Bytes("imap", InitialMapSize) \in Original /\ Bytes("mmap", MapHeaderLength) \in Original
    BY NamesAssumption, BytesType DEF InitialMapSize, MapHeaderLength
  <2>2. \A id \in DOMAIN chunks' : chunks'[id] \in ChunkObject
    BY <1>2, <2>1 DEF MemoryMapRead, Object, ChunkObject, Original, Content
  <2>3. QED
    BY <1>2, <2>2 DEF MemoryMapRead
<1>3. CASE AfterburnerMapRead
  <2>1. CASE 2 \in Ids
    <3>1. phase' = "loading" /\ at' = 1
      BY <1>3, <2>1 DEF AfterburnerMapRead
    <3>2. UNCHANGED <<file, chunkInfo, views, chunks, mapArray, freeHead, nextOffset, rest, image>>
      BY <1>3, <2>1 DEF AfterburnerMapRead
    <3>3. phase = "mapping"
      BY <1>3 DEF AfterburnerMapRead
    <3>4. TypeOK'
      BY <3>1, <3>2
    <3>5. Bounds'
      BY <3>1, <3>2, <3>3
    <3>6. QED
      BY <3>4, <3>5
  <2>2. CASE 2 \notin Ids
    BY <1>3, <2>2 DEF AfterburnerMapRead, Abort
  <2>3. QED
    BY <2>1, <2>2
<1>4. CASE LoadResident
  <2> DEFINE id == file.ils[at]
             info == IF id \in Ids THEN chunkInfo[id] ELSE Blank
  <2>1. id \in Nat
    BY <1>4, FilesAssumption DEF LoadResident
  <2>2. Bytes("nothing", 0) \in Original /\ Broken \in Original /\ "0000" \in Names
    BY NamesAssumption, BytesType DEF Broken
  <2>3. info \in Resource
    BY <2>1, <2>2 DEF Blank, Resource, Compressions
  <2>4. info.stored \in Original
    BY <2>3 DEF Resource
  <2>5. chunkInfo' = With(chunkInfo, id, info) /\ views' = With(views, id, info.stored)
    BY <1>4 DEF LoadResident
  <2> HIDE DEF id, info
  <2>6. \A k \in DOMAIN chunkInfo' : k \in Nat /\ chunkInfo'[k] \in Resource
    BY <2>1, <2>3, <2>5 DEF With
  <2>7. \A k \in DOMAIN views' : views'[k] \in Original
    BY <2>4, <2>5 DEF With
  <2>8. QED
    BY <1>4, <2>6, <2>7 DEF LoadResident
<1>5. CASE SegmentRead
  BY <1>5 DEF SegmentRead
<1>6. ASSUME NEW id \in Ids, NEW fourCC \in Known, GetChunk(id, fourCC) PROVE TypeInv'
  <2>1. CASE Throws(id, fourCC)
    BY <1>6, <2>1 DEF GetChunk, Abort
  <2>2. CASE ~Throws(id, fourCC)
    <3>1. GetChunkData(id) \in Original
      BY FetchedType
    <3>2. Object(fourCC, GetChunkData(id)) \in ChunkObject
      BY <3>1 DEF Object, ChunkObject, Original, Content
    <3>3. \A k \in DOMAIN views' : views'[k] \in Original
      BY <1>6, <2>2, <3>1 DEF GetChunk, With
    <3>4. \A k \in DOMAIN chunks' : chunks'[k] \in ChunkObject
      BY <1>6, <2>2, <3>2 DEF GetChunk, With
    <3>5. QED
      BY <1>6, <2>2, <3>3, <3>4 DEF GetChunk
  <2>3. QED
    BY <2>1, <2>2
<1>7. ASSUME NEW id \in Ids, DumpChunk(id) PROVE TypeInv'
  <2>1. CASE GetChunkData(id) = Broken
    BY <1>7, <2>1 DEF DumpChunk, Abort
  <2>2. CASE GetChunkData(id) # Broken
    <3>1. \A k \in DOMAIN views' : views'[k] \in Original
      BY <1>7, <2>2, FetchedType DEF DumpChunk, With
    <3>2. QED
      BY <1>7, <2>2, <3>1 DEF DumpChunk
  <2>3. QED
    BY <2>1, <2>2
<1>8. ASSUME NEW id \in Ids, NEW text \in Texts, SetText(id, text) PROVE TypeInv'
  <2>1. \A k \in DOMAIN chunks' : chunks'[k] \in ChunkObject
    BY <1>8, SizesAssumption DEF SetText, ChunkObject
  <2>2. QED
    BY <1>8, <2>1 DEF SetText
<1>9. CASE GenerateMemoryMap
  <2>1. PICK maxID \in Ids \cup {2} :
          /\ \A id \in Ids \cup {2} : id <= maxID
          /\ mapArray' =
               [id \in 0 .. maxID |->
                  CASE id = 0 -> Entry("RIFX", 0, 0)
                    [] id = 1 -> Entry("imap", InitialMapSize, kRIFXHeaderSize)
                    [] id = 2 -> Entry("mmap", MmapSize(maxID), MmapOffset)
                    [] OTHER  -> Entry("free", 0, 0)]
          /\ nextOffset' = After(MmapOffset, MmapSize(maxID))
          /\ at' = maxID
    BY <1>9 DEF GenerateMemoryMap
  <2>2. maxID \in Nat /\ maxID >= 2
    BY <2>1
  <2>3. MmapSize(maxID) \in Nat /\ MmapOffset \in Nat
    BY <2>2 DEF MmapSize, MmapOffset, MapHeaderLength, MapEntryLength, kRIFXHeaderSize,
                kChunkHeaderSize, InitialMapSize
  <2>4. \A id \in DOMAIN mapArray' : id \in Nat /\ mapArray'[id] \in MapEntry
    BY <2>1, <2>2, <2>3, NamesAssumption
       DEF Entry, MapEntry, InitialMapSize, kRIFXHeaderSize
  <2>5. Ids' \cup {0, 1, 2} \subseteq DOMAIN mapArray'
    BY <1>9, <2>1, <2>2 DEF GenerateMemoryMap
  <2>6. nextOffset' \in Nat /\ nextOffset' >= kRIFXHeaderSize
    BY <2>1, <2>3 DEF After, kChunkHeaderSize, MmapOffset, kRIFXHeaderSize, InitialMapSize
  <2>7. QED
    BY <1>9, <2>1, <2>2, <2>4, <2>5, <2>6 DEF GenerateMemoryMap, Resources
<1>10. ASSUME NEW id \in rest, Place(id) PROVE TypeInv'
  <2>1. id \in Ids
    BY <1>10 DEF Place, Resources
  <2>2. ChunkSize(id) \in Nat
    BY <2>1, ChunkSizeType
  <2>3. \A k \in DOMAIN mapArray' : k \in Nat /\ mapArray'[k] \in MapEntry
    BY <1>10, <2>1, <2>2 DEF Place, Entry, MapEntry, Resource
  <2>4. nextOffset' \in Nat /\ nextOffset' >= kRIFXHeaderSize
    BY <1>10, <2>2 DEF Place, After, kChunkHeaderSize, kRIFXHeaderSize
  <2>5. QED
    BY <1>10, <2>3, <2>4 DEF Place, Resources
<1>11. ASSUME NEW id \in rest, WriteChunk(id) PROVE TypeInv'
  <2>1. CASE BodyOf(id) = Broken \/ SegmentEnd(Segment(id, BodyOf(id))) > FileSize
    BY <1>11, <2>1 DEF WriteChunk, Abort
  <2>2. CASE ~(BodyOf(id) = Broken \/ SegmentEnd(Segment(id, BodyOf(id))) > FileSize)
    <3>1. id \in DOMAIN mapArray /\ mapArray[id] \in MapEntry
      BY <1>11 DEF WriteChunk, Resources
    <3>2. BodyOf(id) \in Content
      <4>1. CASE id <= 2
        <5>1. (IF id = 0 THEN 4 ELSE mapArray[id].len) \in Nat
          BY <3>1 DEF MapEntry
        <5>2. QED
          <6>1. mapArray[id].fourCC \in Names
            BY <3>1 DEF MapEntry
          <6>2. Generated(id) \in Original
            BY <5>1, <6>1, BytesType DEF Generated
          <6>3. QED
            BY <4>1, <6>2 DEF BodyOf, Original
      <4>2. CASE id > 2 /\ IsRewritten(id)
        <5>1. chunks[id] \in ChunkObject
          BY <4>2 DEF IsRewritten
        <5>2. BodyOf(id) = Rewritten(chunks[id])
          BY <4>2 DEF BodyOf
        <5>3. QED
          BY <5>1, <5>2, RewrittenType
      <4>3. CASE id > 2 /\ ~IsRewritten(id)
        <5>1. id \in Ids
          BY <1>11, <4>3 DEF WriteChunk, Resources
        <5>2. QED
          BY <4>3, <5>1, FetchedType DEF BodyOf, Original
      <4>4. QED
        BY <4>1, <4>2, <4>3
    <3>3. Segment(id, BodyOf(id)) \in Written
      BY <3>1, <3>2 DEF Segment, Written, MapEntry
    <3>4. image' \in Seq(Written)
      BY <1>11, <2>2, <3>3 DEF WriteChunk
    <3>5. \A k \in DOMAIN views' : views'[k] \in Original
      <4>1. CASE id <= 2 \/ IsRewritten(id)
        BY <1>11, <2>2, <4>1 DEF WriteChunk
      <4>2. CASE ~(id <= 2 \/ IsRewritten(id))
        <5>1. id \in Ids
          BY <1>11, <4>2 DEF WriteChunk, Resources
        <5>2. BodyOf(id) \in Original
          BY <4>2, <5>1, FetchedType DEF BodyOf
        <5>3. QED
          BY <1>11, <2>2, <4>2, <5>2 DEF WriteChunk, With
      <4>3. QED
        BY <4>1, <4>2
    <3>6. QED
      BY <1>11, <2>2, <3>4, <3>5 DEF WriteChunk, Resources
  <2>3. QED
    BY <2>1, <2>2
<1>12. CASE CloseRIFX
  <2>1. \A k \in DOMAIN mapArray' : k \in Nat /\ mapArray'[k] \in MapEntry
    <3>1. 0 \in DOMAIN mapArray /\ mapArray[0] \in MapEntry
      BY <1>12 DEF CloseRIFX
    <3>2. [mapArray[0] EXCEPT !.len = nextOffset - kChunkHeaderSize] \in MapEntry
      <4>1. nextOffset - kChunkHeaderSize \in Nat
        BY <1>12 DEF CloseRIFX, kChunkHeaderSize, kRIFXHeaderSize
      <4>2. QED
        BY <3>1, <4>1 DEF MapEntry
    <3>3. mapArray' = [mapArray EXCEPT ![0] =
                          [mapArray[0] EXCEPT !.len = nextOffset - kChunkHeaderSize]]
      BY <1>12 DEF CloseRIFX
    <3>4. QED
      BY <3>1, <3>2, <3>3
  <2>2. QED
    BY <1>12, <2>1 DEF CloseRIFX
<1>13. CASE Link
  <2>1. \A k \in DOMAIN mapArray' : k \in Nat /\ mapArray'[k] \in MapEntry
    <3>1. CASE at \in DOMAIN mapArray
      <4>1. [mapArray[at] EXCEPT !.next = freeHead] \in MapEntry
        BY <3>1 DEF MapEntry
      <4>2. QED
        BY <1>13, <3>1, <4>1 DEF Link
    <3>2. CASE at \notin DOMAIN mapArray
      BY <1>13, <3>2 DEF Link
    <3>3. QED
      BY <3>1, <3>2
  <2>2. QED
    BY <1>13, <2>1 DEF Link
<1>14. CASE StartWriting
  BY <1>14 DEF StartWriting, Resources
<1>15. CASE WriteFile
  BY <1>15 DEF WriteFile
<1>16. CASE Ended
  BY <1>16 DEF Ended, vars
<1>17. CASE UNCHANGED vars
  BY <1>17 DEF vars, Resources
<1>18. QED
  BY <1>1, <1>2, <1>3, <1>4, <1>5, <1>6, <1>7, <1>8, <1>9, <1>10, <1>11, <1>12, <1>13,
     <1>14, <1>15, <1>16, <1>17 DEF Next

(* Whatever the container holds and in whatever order its chunks are asked  *)
(* for, the offsets and lengths that the layout computes are natural        *)
(* numbers and the caches hold what their types say (dirfile.cpp).          *)
THEOREM TypeCorrect == Spec => []TypeOK
<1>1. TypeInv => TypeOK
  BY DEF TypeInv
<1>2. QED
  BY InitTypeInv, NextTypeInv, <1>1, PTL DEF Spec
-----------------------------------------------------------------------------
(***************************************************************************)
(* The layout.                                                             *)
(***************************************************************************)

(* An entry that is still to be placed is a free one, so placing it moves   *)
(* no other entry.                                                         *)
LayoutInv ==
  /\ TypeInv
  /\ EntriesDisjoint
  /\ phase = "placing" => \A id \in rest : mapArray[id].fourCC = "free"

(* A step that leaves type, place and length of every entry alone (the      *)
(* length of RIFX does not count) keeps the entries apart.                 *)
LEMMA SameExtents ==
  ASSUME EntriesDisjoint,
         nextOffset' = nextOffset,
         DOMAIN mapArray' = DOMAIN mapArray,
         \A k \in DOMAIN mapArray :
           /\ mapArray'[k].fourCC = mapArray[k].fourCC
           /\ mapArray'[k].offset = mapArray[k].offset
           /\ k # 0 => mapArray'[k].len = mapArray[k].len
  PROVE  EntriesDisjoint'
<1>1. Used' = Used
  BY DEF Used
<1>2. \A k \in Used : EntryEnd(k)' = EntryEnd(k) /\ mapArray'[k].offset = mapArray[k].offset
  BY DEF Used, EntryEnd
<1>3. QED
  BY <1>1, <1>2 DEF EntriesDisjoint, Apart

(* Nothing is laid out when the program starts.                             *)
LEMMA InitLayout == Init => LayoutInv
BY InitTypeInv DEF Init, LayoutInv, EntriesDisjoint, Used, Nothing

(* Placing a chunk after everything placed before keeps the entries apart;   *)
(* no other step moves an entry.                                           *)
LEMMA NextLayout == LayoutInv /\ [Next]_vars => LayoutInv'
<1> SUFFICES ASSUME LayoutInv, [Next]_vars PROVE LayoutInv'
  OBVIOUS
<1>1. TypeInv /\ TypeInv'
  BY NextTypeInv DEF LayoutInv
<1>2. \A k \in DOMAIN mapArray : k \in Nat /\ mapArray[k] \in MapEntry
  BY <1>1 DEF TypeInv, TypeOK
<1>3. ASSUME UNCHANGED <<mapArray, nextOffset>>, phase' # "placing" \/ UNCHANGED <<phase, rest>>
      PROVE  LayoutInv'
  <2>1. EntriesDisjoint'
    BY <1>3, SameExtents DEF LayoutInv
  <2>2. QED
    BY <1>1, <1>3, <2>1 DEF LayoutInv
<1>4. CASE GenerateMemoryMap
  <2>1. PICK maxID \in Ids \cup {2} :
          /\ \A id \in Ids \cup {2} : id <= maxID
          /\ mapArray' =
               [id \in 0 .. maxID |->
                  CASE id = 0 -> Entry("RIFX", 0, 0)
                    [] id = 1 -> Entry("imap", InitialMapSize, kRIFXHeaderSize)
                    [] id = 2 -> Entry("mmap", MmapSize(maxID), MmapOffset)
                    [] OTHER  -> Entry("free", 0, 0)]
          /\ nextOffset' = After(MmapOffset, MmapSize(maxID))
          /\ at' = maxID
    BY <1>4 DEF GenerateMemoryMap
  <2>2. maxID \in Nat /\ maxID >= 2 /\ Ids \subseteq Nat
    BY <1>1, <2>1 DEF TypeInv, TypeOK
  <2>3. /\ mapArray'[0] = Entry("RIFX", 0, 0)
        /\ mapArray'[1] = Entry("imap", InitialMapSize, kRIFXHeaderSize)
        /\ mapArray'[2] = Entry("mmap", MmapSize(maxID), MmapOffset)
        /\ \A k \in 3 .. maxID : mapArray'[k] = Entry("free", 0, 0)
        /\ DOMAIN mapArray' = 0 .. maxID
    BY <2>1, <2>2
  <2>4. Used' = {0, 1, 2}
    BY <2>2, <2>3 DEF Used, Entry
  <2>5. MmapSize(maxID) \in Nat
    BY <2>2 DEF MmapSize, MapHeaderLength, MapEntryLength
  <2>6. /\ EntryEnd(0)' = 12 /\ EntryEnd(1)' = 44 /\ EntryEnd(2)' = nextOffset'
        /\ mapArray'[0].offset = 0 /\ mapArray'[1].offset = 12 /\ mapArray'[2].offset = 44
    BY <2>1, <2>3, <2>5 DEF EntryEnd, Entry, After, MmapOffset, InitialMapSize,
                            kRIFXHeaderSize, kChunkHeaderSize
  <2>7. nextOffset' \in Nat /\ nextOffset' >= 44
    BY <2>1, <2>5 DEF After, MmapOffset, InitialMapSize, kRIFXHeaderSize, kChunkHeaderSize
  <2>8. EntriesDisjoint'
    BY <2>4, <2>6, <2>7 DEF EntriesDisjoint, Apart
  <2>9. \A id \in rest' : mapArray'[id].fourCC = "free"
    <3>1. rest' = Resources /\ UNCHANGED chunkInfo
      BY <1>4 DEF GenerateMemoryMap
    <3>2. \A id \in rest' : id \in 3 .. maxID
      BY <2>1, <2>2, <3>1 DEF Resources
    <3>3. QED
      BY <2>3, <3>2 DEF Entry
  <2>10. QED
    BY <1>1, <2>8, <2>9 DEF LayoutInv
<1>5. ASSUME NEW id \in rest, Place(id) PROVE LayoutInv'
  <2> DEFINE size == ChunkSize(id)
  <2>1. id \in Ids /\ id > 2 /\ id \in DOMAIN mapArray /\ id \in Nat
    BY <1>1, <1>5 DEF Place, Resources, TypeInv, TypeOK, Bounds, LaidOut
  <2>2. size \in Nat
    BY <1>1, <2>1, ChunkSizeType DEF TypeInv
  <2>3. /\ mapArray' = [mapArray EXCEPT ![id] = Entry(chunkInfo[id].fourCC, size, nextOffset)]
        /\ nextOffset' = nextOffset + size + 8
        /\ rest' = rest \ {id}
        /\ UNCHANGED phase
    BY <1>5 DEF Place, After, kChunkHeaderSize
  <2> HIDE DEF size
  <2>4. \A k \in DOMAIN mapArray : k # id => mapArray'[k] = mapArray[k]
    BY <2>3
  <2>5. mapArray'[id].offset = nextOffset /\ mapArray'[id].len = size
    BY <2>1, <2>3 DEF Entry
  <2>6. EntryEnd(id)' = nextOffset'
    BY <2>1, <2>3, <2>5 DEF EntryEnd, kChunkHeaderSize
  <2>7. Used' \subseteq Used \cup {id}
    BY <2>3, <2>4 DEF Used
  <2>8. \A k \in Used : k # id => EntryEnd(k)' = EntryEnd(k)
    BY <2>4 DEF Used, EntryEnd
  <2>9. nextOffset \in Nat /\ nextOffset' \in Nat /\ nextOffset <= nextOffset'
    BY <1>1, <2>2, <2>3 DEF TypeInv, TypeOK
  <2>10. \A k \in Used : EntryEnd(k) \in Nat /\ EntryEnd(k) <= nextOffset
    BY <1>2 DEF LayoutInv, EntriesDisjoint, Used, EntryEnd, MapEntry, kRIFXHeaderSize,
                kChunkHeaderSize
  <2>11. \A k \in Used' : EntryEnd(k)' <= nextOffset'
    BY <2>6, <2>7, <2>8, <2>9, <2>10
  <2>12. ASSUME NEW a \in Used', NEW b \in Used', a # b PROVE Apart(a, b)'
    <3>1. CASE a = id
      <4>1. b \in Used /\ b # id
        BY <2>7, <2>12, <3>1
      <4>2. EntryEnd(b)' <= mapArray'[a].offset
        BY <2>5, <2>8, <2>10, <3>1, <4>1
      <4>3. QED
        BY <4>2 DEF Apart
    <3>2. CASE b = id
      <4>1. a \in Used /\ a # id
        BY <2>7, <2>12, <3>2
      <4>2. EntryEnd(a)' <= mapArray'[b].offset
        BY <2>5, <2>8, <2>10, <3>2, <4>1
      <4>3. QED
        BY <4>2 DEF Apart
    <3>3. CASE a # id /\ b # id
      <4>1. a \in Used /\ b \in Used /\ a \in DOMAIN mapArray /\ b \in DOMAIN mapArray
        BY <2>7, <3>3 DEF Used
      <4>2. Apart(a, b)
        BY <2>12, <4>1 DEF LayoutInv, EntriesDisjoint
      <4>3. QED
        BY <2>4, <2>8, <3>3, <4>1, <4>2 DEF Apart
    <3>4. QED
      BY <3>1, <3>2, <3>3
  <2>13. EntriesDisjoint'
    BY <2>11, <2>12 DEF EntriesDisjoint
  <2>14. \A k \in rest' : mapArray'[k].fourCC = "free"
    <3>1. rest \subseteq DOMAIN mapArray /\ phase = "placing"
      BY <1>1, <1>5 DEF Place, Resources, TypeInv, Bounds, LaidOut
    <3>2. QED
      BY <2>3, <2>4, <3>1 DEF LayoutInv
  <2>15. QED
    BY <1>1, <2>13, <2>14 DEF LayoutInv
<1>6. CASE CloseRIFX
  <2>1. EntriesDisjoint'
    BY <1>2, <1>6, SameExtents DEF CloseRIFX, LayoutInv, MapEntry
  <2>2. QED
    BY <1>1, <1>6, <2>1 DEF CloseRIFX, LayoutInv
<1>7. CASE Link
  <2>1. EntriesDisjoint'
    BY <1>2, <1>7, SameExtents DEF Link, LayoutInv, MapEntry
  <2>2. QED
    BY <1>1, <1>7, <2>1 DEF Link, LayoutInv
<1>8. CASE ReadEntry \/ MemoryMapRead \/ AfterburnerMapRead \/ LoadResident \/ SegmentRead
  BY <1>3, <1>8 DEF ReadEntry, MemoryMapRead, AfterburnerMapRead, LoadResident, SegmentRead, Abort
<1>9. ASSUME NEW id \in Ids, NEW fourCC \in Known, GetChunk(id, fourCC) PROVE LayoutInv'
  BY <1>3, <1>9 DEF GetChunk, Abort
<1>10. ASSUME NEW id \in Ids, DumpChunk(id) PROVE LayoutInv'
  BY <1>3, <1>10 DEF DumpChunk, Abort
<1>11. ASSUME NEW id \in Ids, NEW text \in Texts, SetText(id, text) PROVE LayoutInv'
  BY <1>3, <1>11 DEF SetText
<1>12. ASSUME NEW id \in rest, WriteChunk(id) PROVE LayoutInv'
  BY <1>3, <1>12 DEF WriteChunk, Abort
<1>13. CASE StartWriting \/ WriteFile \/ Ended \/ UNCHANGED vars
  BY <1>3, <1>13 DEF StartWriting, WriteFile, Ended, vars
<1>14. QED
  BY <1>4, <1>5, <1>6, <1>7, <1>8, <1>9, <1>10, <1>11, <1>12, <1>13 DEF Next

(* No two entries of the memory map written for any movie share a byte,     *)
(* however its chunks were stored, fetched and edited (generateMemoryMap).  *)
THEOREM LayoutCorrect == Spec => []EntriesDisjoint
<1>1. LayoutInv => EntriesDisjoint
  BY DEF LayoutInv
<1>2. QED
  BY InitLayout, NextLayout, <1>1, PTL DEF Spec
-----------------------------------------------------------------------------
(***************************************************************************)
(* The list of free entries.                                               *)
(***************************************************************************)
FreeAbove(n) == {id \in FreeEntries : id > n}

(* The free entries above n form an ascending list from freeHead.           *)
ListFrom(n) ==
  /\ \A id \in FreeAbove(n) : freeHead <= id
  /\ freeHead \in FreeAbove(n) \cup {-1}
  /\ freeHead = -1 => FreeAbove(n) = {}
  /\ \A id \in FreeAbove(n) :
       /\ mapArray[id].next \in {m \in FreeEntries : m > id} \cup {-1}
       /\ \A other \in FreeEntries : other > id => mapArray[id].next \in id + 1 .. other

(* The loop goes down from the largest id: what it has passed is linked.    *)
FreeInv ==
  /\ TypeInv
  /\ phase = "placing" => freeHead = -1 /\ \A id \in DOMAIN mapArray : id <= at
  /\ phase \in {"placing", "linking"} => 0 .. at \subseteq DOMAIN mapArray
  /\ phase = "linking" => ListFrom(at)
  /\ phase \in {"writing", "saved"} => ListFrom(-1)

(* A free entry is one whose type says so.                                  *)
LEMMA FreeEntriesAre == FreeEntries = {id \in DOMAIN mapArray : mapArray[id].fourCC = "free"}
BY DEF FreeEntries, Used

(* There is no list before there is a map.                                  *)
LEMMA InitFree == Init => FreeInv
BY InitTypeInv DEF Init, FreeInv

(* The loop that links free entries from the highest id down has, at every  *)
(* turn, a list of exactly the free entries above the id it is at.         *)
LEMMA NextFree == FreeInv /\ [Next]_vars => FreeInv'
<1> SUFFICES ASSUME FreeInv, [Next]_vars PROVE FreeInv'
  OBVIOUS
<1>1. TypeInv /\ TypeInv'
  BY NextTypeInv DEF FreeInv
<1>2. /\ \A k \in DOMAIN mapArray : k \in Nat /\ mapArray[k] \in MapEntry
      /\ at \in Int /\ freeHead \in Int
  BY <1>1 DEF TypeInv, TypeOK
<1>3. ASSUME UNCHANGED mapArray PROVE FreeEntries' = FreeEntries
  BY <1>3, FreeEntriesAre DEF FreeEntries, Used
<1>4. ASSUME phase' \in {"mapping", "loading", "open", "aborted"} PROVE FreeInv'
  BY <1>1, <1>4 DEF FreeInv
<1>5. CASE GenerateMemoryMap
  <2>1. PICK maxID \in Ids \cup {2} :
          /\ DOMAIN mapArray' = 0 .. maxID
          /\ at' = maxID
    BY <1>5 DEF GenerateMemoryMap
  <2>2. maxID \in Nat
    BY <1>1, <2>1 DEF TypeInv, TypeOK
  <2>3. phase' = "placing" /\ freeHead' = -1
    BY <1>5 DEF GenerateMemoryMap
  <2>4. QED
    BY <1>1, <2>1, <2>2, <2>3 DEF FreeInv
<1>6. ASSUME NEW id \in rest, Place(id) PROVE FreeInv'
  <2>1. DOMAIN mapArray' = DOMAIN mapArray /\ phase' = "placing" /\ UNCHANGED <<freeHead, at>>
    BY <1>6 DEF Place
  <2>2. QED
    BY <1>1, <1>6, <2>1 DEF FreeInv, Place
<1>7. CASE CloseRIFX
  <2>1. phase = "placing" /\ phase' = "linking" /\ UNCHANGED <<freeHead, at>>
        /\ DOMAIN mapArray' = DOMAIN mapArray
    BY <1>7 DEF CloseRIFX
  <2>2. FreeAbove(at)' = {}
    BY <1>2, <2>1 DEF FreeInv, FreeAbove, FreeEntries
  <2>3. ListFrom(at)'
    BY <2>1, <2>2 DEF FreeInv, ListFrom
  <2>4. QED
    BY <1>1, <2>1, <2>3 DEF FreeInv
<1>8. CASE Link
  <2>1. /\ at >= 0 /\ phase = "linking" /\ phase' = "linking" /\ at' = at - 1
        /\ at \in DOMAIN mapArray /\ ListFrom(at)
    BY <1>2, <1>8 DEF Link, FreeInv
  <2>2. CASE ~IsFree(at)
    <3>1. UNCHANGED <<mapArray, freeHead>>
      BY <1>8, <2>2 DEF Link
    <3>2. FreeEntries' = FreeEntries /\ at \notin FreeEntries
      BY <1>3, <2>2, <3>1, FreeEntriesAre DEF IsFree
    <3>3. FreeAbove(at)' = FreeAbove(at)
      BY <1>2, <2>1, <3>2 DEF FreeAbove, FreeEntries
    <3>4. ListFrom(at)'
      BY <2>1, <3>1, <3>2, <3>3 DEF ListFrom
    <3>5. QED
      BY <1>1, <1>2, <2>1, <3>1, <3>4 DEF FreeInv
  <2>3. CASE IsFree(at)
    <3>1. mapArray' = [mapArray EXCEPT ![at].next = freeHead] /\ freeHead' = at
      BY <1>8, <2>3 DEF Link
    <3>2. /\ DOMAIN mapArray' = DOMAIN mapArray
          /\ mapArray'[at].next = freeHead
          /\ \A k \in DOMAIN mapArray : mapArray'[k].fourCC = mapArray[k].fourCC
          /\ \A k \in DOMAIN mapArray : k # at => mapArray'[k] = mapArray[k]
      BY <1>2, <2>1, <3>1 DEF MapEntry
    <3>3. FreeEntries' = FreeEntries
      BY <3>2 DEF FreeEntries, Used
    <3>4. at \in FreeEntries
      BY <2>1, <2>3, FreeEntriesAre DEF IsFree
    <3>5. \A k \in FreeEntries : k \in Nat /\ k \in DOMAIN mapArray
      BY <1>2 DEF FreeEntries
    <3>6. FreeAbove(at)' = FreeAbove(at) \cup {at}
      <4>1. FreeAbove(at)' = {id \in FreeEntries : id > at - 1}
        BY <2>1, <3>3 DEF FreeAbove
      <4>2. \A id \in FreeEntries : id > at - 1 <=> id > at \/ id = at
        BY <1>2, <3>5
      <4>3. QED
        BY <3>4, <4>1, <4>2 DEF FreeAbove
    <3>7. \A id \in FreeAbove(at) :
            /\ mapArray'[id].next \in {m \in FreeEntries : m > id} \cup {-1}
            /\ \A other \in FreeEntries : other > id => mapArray'[id].next \in id + 1 .. other
      <4>1. \A id \in FreeAbove(at) : id # at /\ id \in DOMAIN mapArray
        BY <1>2, <3>5 DEF FreeAbove
      <4>2. QED
        BY <2>1, <3>2, <4>1 DEF ListFrom
    <3>8. /\ freeHead \in {m \in FreeEntries : m > at} \cup {-1}
          /\ \A other \in FreeEntries : other > at => freeHead \in at + 1 .. other
      <4>1. freeHead \in FreeAbove(at) \cup {-1}
        BY <2>1 DEF ListFrom
      <4>2. ASSUME NEW other \in FreeEntries, other > at PROVE freeHead \in at + 1 .. other
        <5>1. other \in FreeAbove(at) /\ freeHead # -1
          BY <2>1, <4>2 DEF FreeAbove, ListFrom
        <5>2. freeHead > at /\ freeHead <= other
          BY <2>1, <4>1, <5>1 DEF FreeAbove, ListFrom
        <5>3. QED
          BY <1>2, <3>5, <5>2
      <4>3. QED
        BY <4>1, <4>2 DEF FreeAbove
    <3>9. \A id \in FreeAbove(at)' : freeHead' <= id
      BY <1>2, <3>1, <3>5, <3>6 DEF FreeAbove
    <3>10. ListFrom(at)'
      <4>1. freeHead' \in FreeAbove(at)' /\ freeHead' # -1
        BY <2>1, <3>1, <3>6
      <4>2. ASSUME NEW id \in FreeAbove(at)'
            PROVE  /\ mapArray'[id].next \in {m \in FreeEntries : m > id} \cup {-1}
                   /\ \A other \in FreeEntries :
                        other > id => mapArray'[id].next \in id + 1 .. other
        <5>1. CASE id = at
          BY <3>2, <3>8, <5>1
        <5>2. CASE id # at
          BY <3>6, <3>7, <5>2
        <5>3. QED
          BY <5>1, <5>2
      <4>3. QED
        BY <3>3, <3>9, <4>1, <4>2 DEF ListFrom
    <3>11. QED
      BY <1>1, <1>2, <2>1, <3>2, <3>10 DEF FreeInv
  <2>4. QED
    BY <2>2, <2>3
<1>9. CASE StartWriting
  <2>1. phase = "linking" /\ at < 0 /\ phase' = "writing" /\ UNCHANGED <<mapArray, freeHead>>
    BY <1>9 DEF StartWriting
  <2>2. FreeAbove(at) = FreeEntries /\ FreeAbove(-1)' = FreeEntries
    BY <1>2, <1>3, <2>1 DEF FreeAbove, FreeEntries
  <2>3. ListFrom(-1)'
    BY <1>3, <2>1, <2>2 DEF FreeInv, ListFrom
  <2>4. QED
    BY <1>1, <2>1, <2>3 DEF FreeInv
<1>10. ASSUME NEW id \in rest, WriteChunk(id) PROVE FreeInv'
  <2>1. CASE phase' = "aborted"
    BY <1>4, <2>1
  <2>2. CASE phase' # "aborted"
    <3>1. phase = "writing" /\ phase' = "writing" /\ UNCHANGED <<mapArray, freeHead>>
      BY <1>10, <2>2 DEF WriteChunk, Abort
    <3>2. ListFrom(-1)'
      BY <1>3, <3>1 DEF FreeInv, ListFrom, FreeAbove
    <3>3. QED
      BY <1>1, <3>1, <3>2 DEF FreeInv
  <2>3. QED
    BY <2>1, <2>2
<1>11. CASE WriteFile
  <2>1. phase = "writing" /\ phase' = "saved" /\ UNCHANGED <<mapArray, freeHead>>
    BY <1>11 DEF WriteFile
  <2>2. ListFrom(-1)'
    BY <1>3, <2>1 DEF FreeInv, ListFrom, FreeAbove
  <2>3. QED
    BY <1>1, <2>1, <2>2 DEF FreeInv
<1>12. CASE Ended \/ UNCHANGED vars
  <2>1. UNCHANGED <<mapArray, freeHead, at, phase>>
    BY <1>12 DEF Ended, vars
  <2>2. /\ ListFrom(-1) => ListFrom(-1)'
        /\ ListFrom(at) => ListFrom(at)'
    BY <1>3, <2>1 DEF ListFrom, FreeAbove
  <2>3. QED
    BY <1>1, <2>1, <2>2 DEF FreeInv
<1>13. CASE ReadEntry \/ MemoryMapRead \/ AfterburnerMapRead \/ LoadResident \/ SegmentRead
  <2>1. phase' \in {"mapping", "loading", "open", "aborted"}
    BY <1>13 DEF ReadEntry, MemoryMapRead, AfterburnerMapRead, LoadResident, SegmentRead, Abort
  <2>2. QED
    BY <1>4, <2>1
<1>14. ASSUME NEW id \in Ids, NEW fourCC \in Known, GetChunk(id, fourCC) PROVE FreeInv'
  <2>1. phase' \in {"open", "aborted"}
    BY <1>14 DEF GetChunk, Abort
  <2>2. QED
    BY <1>4, <2>1
<1>15. ASSUME NEW id \in Ids, DumpChunk(id) PROVE FreeInv'
  <2>1. phase' \in {"open", "aborted"}
    BY <1>15 DEF DumpChunk, Abort
  <2>2. QED
    BY <1>4, <2>1
<1>16. ASSUME NEW id \in Ids, NEW text \in Texts, SetText(id, text) PROVE FreeInv'
  BY <1>4, <1>16 DEF SetText
<1>17. QED
  BY <1>5, <1>6, <1>7, <1>8, <1>9, <1>10, <1>11, <1>12, <1>13, <1>14, <1>15, <1>16 DEF Next

(* The free list of the memory map that is written runs through every free  *)
(* id once, upwards, and ends (generateMemoryMap, the linking loop).        *)
THEOREM FreeListCorrect == Spec => []FreeListIsExact
<1>1. FreeInv => FreeListIsExact
  <2> SUFFICES ASSUME FreeInv, phase \in {"writing", "saved"} PROVE FreeListIsExact
    BY DEF FreeListIsExact
  <2>1. ListFrom(-1)
    BY DEF FreeInv
  <2>2. \A id \in FreeEntries : id \in Nat
    BY DEF FreeInv, TypeInv, TypeOK, FreeEntries
  <2>3. FreeAbove(-1) = FreeEntries
    BY <2>2 DEF FreeAbove
  <2>4. QED
    BY <2>1, <2>3 DEF FreeListIsExact, ListFrom
<1>2. QED
  BY InitFree, NextFree, <1>1, PTL DEF Spec
-----------------------------------------------------------------------------
(***************************************************************************)
(* The lengths of the chunks written.                                      *)
(***************************************************************************)
InSegment(id) == \E j \in 1 .. Len(file.ils) : file.ils[j] = id

(* HonestAssumption, said of an entry the map was read into.                *)
Honest(info, id) ==
  /\ info.stored.size = info.len
  /\ ~file.afterburned \/ InSegment(id) => info.compressionID = "none"
  /\ info.compressionID = "fontmap" => info.len > 0

(* The size an entry promises is the size of what is fetched for it, and    *)
(* the size the layout gave it is still the one its object has.            *)
SizesInv ==
  /\ TypeInv
  /\ \A id \in Ids : Honest(chunkInfo[id], id)
  /\ phase = "mapping" => DOMAIN views = {}
  /\ \A id \in DOMAIN views : id \in Ids /\ views[id].size = SizeWhenRead(id)
  /\ phase = "placing" => \A id \in Resources \ rest : mapArray[id].len = ChunkSize(id)
  /\ phase \in {"linking", "writing"} => \A id \in Resources : mapArray[id].len = ChunkSize(id)
  /\ phase \in {"placing", "linking", "writing"} => mapArray[0].fourCC = "RIFX"
  /\ EstimatesHold

(* What is fetched for an honest entry is as long as chunkSize takes it to  *)
(* be when the chunk is not rewritten.                                     *)
LEMMA FetchedSize ==
  ASSUME TypeOK, NEW id \in Ids, Honest(chunkInfo[id], id),
         id \in DOMAIN views => views[id].size = SizeWhenRead(id),
         GetChunkData(id) # Broken
  PROVE  GetChunkData(id).size = SizeWhenRead(id)
<1>1. CASE id \in DOMAIN views
  BY <1>1 DEF GetChunkData
<1>2. CASE id \notin DOMAIN views
  <2>1. chunkInfo[id] \in Resource
    BY DEF TypeOK
  <2>2. CASE file.afterburned
    BY <1>2, <2>1, <2>2 DEF GetChunkData, FetchedAnew, Decoded, SizeWhenRead, Honest,
       CompressionImplemented, FontMap, Bytes, Resource
  <2>3. CASE ~file.afterburned
    BY <1>2, <2>1, <2>3 DEF GetChunkData, FetchedAnew, SizeWhenRead, Honest, CompressionImplemented
  <2>4. QED
    BY <2>2, <2>3
<1>3. QED
  BY <1>1, <1>2

(* Nothing has been fetched or written when the program starts.             *)
LEMMA InitSizes == Init => SizesInv
BY InitTypeInv DEF Init, SizesInv, Nothing, EstimatesHold, Ids

(* Every step keeps what is cached as long as the map says, and every entry *)
(* placed as long as the chunk that will be written for it.                *)
LEMMA NextSizes == SizesInv /\ [Next]_vars => SizesInv'
<1> SUFFICES ASSUME SizesInv, [Next]_vars PROVE SizesInv'
  OBVIOUS
<1>1. TypeInv /\ TypeInv' /\ TypeOK
  BY NextTypeInv DEF SizesInv, TypeInv
<1>2. ASSUME UNCHANGED <<file, chunkInfo>>
      PROVE  /\ \A id \in Ids' : Honest(chunkInfo[id], id)'
             /\ \A id : SizeWhenRead(id)' = SizeWhenRead(id)
             /\ Ids' = Ids /\ Resources' = Resources
  BY <1>2 DEF SizesInv, Honest, InSegment, Ids, Resources, SizeWhenRead, CompressionImplemented
<1>3. ASSUME UNCHANGED <<file, chunkInfo, views, image>>
      PROVE  /\ \A id \in Ids' : Honest(chunkInfo[id], id)'
             /\ \A id \in DOMAIN views' : id \in Ids' /\ views'[id].size = SizeWhenRead(id)'
             /\ EstimatesHold'
  BY <1>2, <1>3 DEF SizesInv, EstimatesHold
<1>4. ASSUME UNCHANGED <<chunkInfo, chunks>>
      PROVE  \A id : ChunkSize(id)' = ChunkSize(id)
  BY <1>4 DEF ChunkSize, IsRewritten, CompressionImplemented
<1>5. CASE ReadEntry
  <2>1. CASE UNCHANGED chunkInfo
    BY <1>1, <1>3, <1>5, <2>1 DEF ReadEntry, SizesInv
  <2>2. CASE chunkInfo' = With(chunkInfo, file.map[at].id, file.map[at])
    <3>1. at \in 1 .. Len(file.map) /\ file \in Files
      BY <1>1, <1>5, FilesAssumption DEF ReadEntry, TypeInv, TypeOK, Bounds
    <3>2. Honest(file.map[at], file.map[at].id)
      BY <3>1, HonestAssumption DEF Honest, InSegment
    <3>3. \A id \in Ids' : Honest(chunkInfo'[id], id)
      BY <2>2, <3>2 DEF SizesInv, With, Ids
    <3>4. \A id \in Ids' : Honest(chunkInfo[id], id)'
      BY <1>5, <3>3 DEF ReadEntry, Honest, InSegment
    <3>5. QED
      BY <1>1, <1>5, <3>4 DEF ReadEntry, SizesInv, EstimatesHold
  <2>3. QED
    BY <1>5, <2>1, <2>2 DEF ReadEntry
<1>6. CASE MemoryMapRead \/ SegmentRead
  BY <1>1, <1>3, <1>6 DEF MemoryMapRead, SegmentRead, SizesInv
<1>7. CASE AfterburnerMapRead
  <2>1. phase' \in {"loading", "aborted"} /\ UNCHANGED <<file, chunkInfo, views, image>>
    BY <1>7 DEF AfterburnerMapRead, Abort
  <2>2. QED
    BY <1>1, <1>3, <2>1 DEF SizesInv
<1>8. CASE LoadResident
  <2>0. PICK id : id = file.ils[at]
    OBVIOUS
  <2> DEFINE info == IF id \in Ids THEN chunkInfo[id] ELSE Blank
  <2>1. chunkInfo' = With(chunkInfo, id, info) /\ views' = With(views, id, info.stored)
        /\ phase' = "loading" /\ UNCHANGED <<file, image>>
    BY <1>8, <2>0 DEF LoadResident
  <2>2. at \in 1 .. Len(file.ils)
    BY <1>1, <1>8, FilesAssumption DEF LoadResident, TypeInv, TypeOK, Bounds
  <2>3. Honest(Blank, id)
    BY DEF Honest, Blank, Bytes
  <2>4. Honest(info, id)
    BY <2>3 DEF SizesInv
  <2>5. InSegment(id)
    BY <2>0, <2>2 DEF InSegment
  <2>6. info.compressionID = "none" /\ info.stored.size = info.len
    BY <2>4, <2>5 DEF Honest
  <2> HIDE DEF info
  <2>7. \A k \in Ids' : Honest(chunkInfo'[k], k)
    BY <2>1, <2>4 DEF SizesInv, With, Ids
  <2>8. \A k \in Ids' : Honest(chunkInfo[k], k)'
    BY <2>1, <2>7 DEF Honest, InSegment
  <2>9. \A k \in Ids : k # id => chunkInfo'[k] = chunkInfo[k]
    BY <2>1 DEF With, Ids
  <2>10. Ids' = Ids \cup {id} /\ chunkInfo'[id] = info
    BY <2>1 DEF With, Ids
  <2>11. \A k \in DOMAIN views' : k \in Ids' /\ views'[k].size = SizeWhenRead(k)'
    <3>1. views'[id] = info.stored /\ DOMAIN views' = DOMAIN views \cup {id}
          /\ \A k \in DOMAIN views : k # id => views'[k] = views[k]
      BY <2>1 DEF With
    <3>2. views'[id].size = SizeWhenRead(id)'
      BY <2>6, <2>10, <3>1 DEF SizeWhenRead, CompressionImplemented
    <3>3. \A k \in DOMAIN views : k # id => SizeWhenRead(k)' = SizeWhenRead(k)
      BY <2>9 DEF SizesInv, SizeWhenRead, CompressionImplemented
    <3>4. QED
      BY <2>10, <3>1, <3>2, <3>3 DEF SizesInv
  <2>12. EstimatesHold'
    BY <2>1 DEF SizesInv, EstimatesHold
  <2>13. QED
    BY <1>1, <2>1, <2>8, <2>11, <2>12 DEF SizesInv
<1>9. ASSUME NEW id \in Ids, GetChunkData(id) # Broken,
             views' = With(views, id, GetChunkData(id)), UNCHANGED <<file, chunkInfo>>
      PROVE  \A k \in DOMAIN views' : k \in Ids' /\ views'[k].size = SizeWhenRead(k)'
  <2>1. GetChunkData(id).size = SizeWhenRead(id)
    BY <1>1, <1>9, FetchedSize DEF SizesInv
  <2>2. QED
    BY <1>2, <1>9, <2>1 DEF SizesInv, With
<1>10. CASE phase' = "aborted" /\ UNCHANGED <<file, chunkInfo, views, image>>
  BY <1>1, <1>3, <1>10 DEF SizesInv
<1>11. ASSUME NEW id \in Ids, NEW fourCC \in Known, GetChunk(id, fourCC) PROVE SizesInv'
  <2>1. CASE Throws(id, fourCC)
    BY <1>10, <1>11, <2>1 DEF GetChunk, Abort
  <2>2. CASE ~Throws(id, fourCC)
    <3>1. /\ views' = With(views, id, GetChunkData(id)) /\ GetChunkData(id) # Broken
          /\ phase' = "open" /\ UNCHANGED <<file, chunkInfo, image>>
      BY <1>11, <2>2 DEF GetChunk, Throws
    <3>2. EstimatesHold'
      BY <3>1 DEF SizesInv, EstimatesHold
    <3>3. QED
      BY <1>1, <1>2, <1>9, <3>1, <3>2 DEF SizesInv
  <2>3. QED
    BY <2>1, <2>2
<1>12. ASSUME NEW id \in Ids, DumpChunk(id) PROVE SizesInv'
  <2>1. CASE GetChunkData(id) = Broken
    BY <1>10, <1>12, <2>1 DEF DumpChunk, Abort
  <2>2. CASE GetChunkData(id) # Broken
    <3>1. /\ views' = With(views, id, GetChunkData(id))
          /\ phase' = "open" /\ UNCHANGED <<file, chunkInfo, image>>
      BY <1>12, <2>2 DEF DumpChunk
    <3>2. EstimatesHold'
      BY <3>1 DEF SizesInv, EstimatesHold
    <3>3. QED
      BY <1>1, <1>2, <1>9, <2>2, <3>1, <3>2 DEF SizesInv
  <2>3. QED
    BY <2>1, <2>2
<1>13. ASSUME NEW id \in Ids, NEW text \in Texts, SetText(id, text) PROVE SizesInv'
  BY <1>1, <1>3, <1>13 DEF SetText, SizesInv
<1>14. CASE GenerateMemoryMap
  <2>1. phase' = "placing" /\ rest' = Resources /\ UNCHANGED <<file, chunkInfo, views, image>>
    BY <1>14 DEF GenerateMemoryMap
  <2>2. mapArray'[0].fourCC = "RIFX"
    <3>1. PICK maxID \in Ids \cup {2} :
            mapArray' =
              [id \in 0 .. maxID |->
                 CASE id = 0 -> Entry("RIFX", 0, 0)
                   [] id = 1 -> Entry("imap", InitialMapSize, kRIFXHeaderSize)
                   [] id = 2 -> Entry("mmap", MmapSize(maxID), MmapOffset)
                   [] OTHER  -> Entry("free", 0, 0)]
      BY <1>14 DEF GenerateMemoryMap
    <3>2. maxID \in Nat
      BY <1>1, <3>1 DEF TypeOK
    <3>3. QED
      BY <3>1, <3>2 DEF Entry
  <2>3. QED
    BY <1>1, <1>2, <1>3, <2>1, <2>2 DEF SizesInv
<1>15. ASSUME NEW id \in rest, Place(id) PROVE SizesInv'
  <2>1. /\ phase = "placing" /\ phase' = "placing" /\ rest' = rest \ {id}
        /\ mapArray' = [mapArray EXCEPT ![id] =
                          Entry(chunkInfo[id].fourCC, ChunkSize(id), nextOffset)]
        /\ UNCHANGED <<file, chunkInfo, views, chunks, image>>
    BY <1>15 DEF Place
  <2>2. Resources \subseteq DOMAIN mapArray /\ id \in Resources
    BY <1>1, <2>1 DEF TypeInv, Bounds, LaidOut, Resources
  <2>3. \A k \in Resources \ rest' : mapArray'[k].len = ChunkSize(k)
    <3>1. mapArray'[id].len = ChunkSize(id)
      BY <2>1, <2>2 DEF Entry
    <3>2. \A k \in Resources \ rest : k # id => mapArray'[k] = mapArray[k]
      BY <2>1, <2>2
    <3>3. QED
      BY <2>1, <3>1, <3>2 DEF SizesInv
  <2>4. mapArray'[0].fourCC = "RIFX"
    BY <2>1, <2>2 DEF SizesInv, Resources
  <2>5. QED
    BY <1>1, <1>2, <1>3, <1>4, <2>1, <2>3, <2>4 DEF SizesInv
<1>16. CASE CloseRIFX
  <2>1. /\ phase = "placing" /\ phase' = "linking" /\ rest = {}
        /\ mapArray' = [mapArray EXCEPT ![0].len = nextOffset - kChunkHeaderSize]
        /\ UNCHANGED <<file, chunkInfo, views, chunks, image>>
    BY <1>16 DEF CloseRIFX
  <2>2. Resources \subseteq DOMAIN mapArray /\ 0 \notin Resources
    BY <1>1, <2>1 DEF TypeInv, Bounds, LaidOut, Resources
  <2>3. \A k \in Resources : mapArray'[k].len = ChunkSize(k)
    BY <2>1, <2>2 DEF SizesInv
  <2>4. mapArray'[0].fourCC = "RIFX"
    <3>1. 0 \in DOMAIN mapArray /\ mapArray[0] \in MapEntry /\ mapArray[0].fourCC = "RIFX"
      BY <1>1, <2>1 DEF TypeInv, TypeOK, Bounds, LaidOut, SizesInv
    <3>2. QED
      BY <2>1, <3>1 DEF MapEntry
  <2>5. QED
    BY <1>1, <1>2, <1>3, <1>4, <2>1, <2>3, <2>4 DEF SizesInv
<1>17. CASE Link
  <2>1. phase = "linking" /\ phase' = "linking" /\ UNCHANGED <<file, chunkInfo, views, chunks, image>>
    BY <1>17 DEF Link
  <2>2. \A k \in DOMAIN mapArray : /\ mapArray'[k].len = mapArray[k].len
                                  /\ mapArray'[k].fourCC = mapArray[k].fourCC
    <3>1. CASE IsFree(at)
      <4>1. mapArray' = [mapArray EXCEPT ![at].next = freeHead]
        BY <1>17, <3>1 DEF Link
      <4>2. \A k \in DOMAIN mapArray : mapArray[k] \in MapEntry
        BY <1>1 DEF TypeOK
      <4>3. QED
        BY <4>1, <4>2 DEF MapEntry
    <3>2. CASE ~IsFree(at)
      BY <1>17, <3>2 DEF Link
    <3>3. QED
      BY <3>1, <3>2
  <2>3. Resources \subseteq DOMAIN mapArray
    BY <1>1, <2>1 DEF TypeInv, Bounds, LaidOut, Resources
  <2>4. \A k \in Resources : mapArray'[k].len = ChunkSize(k)
    BY <2>1, <2>2, <2>3 DEF SizesInv
  <2>5. mapArray'[0].fourCC = "RIFX"
    BY <1>1, <2>1, <2>2 DEF TypeInv, Bounds, LaidOut, SizesInv
  <2>6. QED
    BY <1>1, <1>2, <1>3, <1>4, <2>1, <2>4, <2>5 DEF SizesInv
<1>18. CASE StartWriting
  <2>1. phase = "linking" /\ phase' = "writing"
        /\ UNCHANGED <<file, chunkInfo, views, chunks, image, mapArray>>
    BY <1>18 DEF StartWriting
  <2>2. QED
    BY <1>1, <1>2, <1>3, <1>4, <2>1 DEF SizesInv
<1>19. ASSUME NEW id \in rest, WriteChunk(id) PROVE SizesInv'
  <2> DEFINE body == BodyOf(id)
  <2>1. CASE body = Broken \/ SegmentEnd(Segment(id, body)) > FileSize
    BY <1>10, <1>19, <2>1 DEF WriteChunk, Abort
  <2>2. CASE ~(body = Broken \/ SegmentEnd(Segment(id, body)) > FileSize)
    <3>1. /\ image' = Append(image, Segment(id, body))
          /\ views' = IF id <= 2 \/ IsRewritten(id) THEN views ELSE With(views, id, body)
          /\ phase = "writing" /\ phase' = "writing"
          /\ UNCHANGED <<file, chunkInfo, chunks, mapArray>>
      BY <1>19, <2>2 DEF WriteChunk
    <3>2. id \in {0, 1, 2} \cup Resources /\ id \in Nat /\ image \in Seq(Written)
          /\ mapArray[id] \in MapEntry
      BY <1>1, <3>1 DEF TypeInv, TypeOK, Bounds, LaidOut, Resources
    <3>3. id > 2 => id \in Ids /\ mapArray[id].len = ChunkSize(id)
      BY <3>1, <3>2 DEF SizesInv, Resources
    <3>4. id > 2 /\ ~IsRewritten(id) =>
            body = GetChunkData(id) /\ body.size = SizeWhenRead(id)
      BY <1>1, <2>2, <3>2, <3>3, FetchedSize DEF SizesInv, BodyOf
    <3>5. mapArray[id].fourCC # "RIFX" => mapArray[id].len = body.size
      <4>1. CASE id <= 2
        <5>1. id = 0 => mapArray[id].fourCC = "RIFX"
          BY <3>1 DEF SizesInv
        <5>2. QED
          BY <4>1, <5>1 DEF BodyOf, Generated, Bytes
      <4>2. CASE id > 2 /\ IsRewritten(id)
        BY <3>2, <3>3, <4>2 DEF BodyOf, ChunkSize
      <4>3. CASE id > 2 /\ ~IsRewritten(id)
        BY <3>3, <3>4, <4>3 DEF ChunkSize, SizeWhenRead
      <4>4. QED
        BY <3>2, <4>1, <4>2, <4>3
    <3>6. EstimatesHold'
      BY <3>1, <3>2, <3>5 DEF SizesInv, EstimatesHold, Segment
    <3>7. \A k \in DOMAIN views' : k \in Ids' /\ views'[k].size = SizeWhenRead(k)'
      <4>1. CASE id <= 2 \/ IsRewritten(id)
        BY <1>2, <3>1, <4>1 DEF SizesInv
      <4>2. CASE ~(id <= 2 \/ IsRewritten(id))
        BY <1>9, <2>2, <3>1, <3>2, <3>3, <3>4, <4>2
      <4>3. QED
        BY <4>1, <4>2
    <3>8. QED
      BY <1>1, <1>2, <1>4, <3>1, <3>6, <3>7 DEF SizesInv
  <2>3. QED
    BY <2>1, <2>2
<1>20. CASE WriteFile
  BY <1>1, <1>3, <1>20 DEF WriteFile, SizesInv
<1>21. CASE Ended \/ UNCHANGED vars
  <2>1. UNCHANGED vars
    BY <1>21 DEF Ended
  <2>2. QED
    BY <1>1, <1>2, <1>3, <1>4, <2>1 DEF vars, SizesInv
<1>22. QED
  BY <1>5, <1>6, <1>7, <1>8, <1>11, <1>12, <1>13, <1>14, <1>15, <1>16, <1>17, <1>18,
     <1>19, <1>20, <1>21 DEF Next

(* Every chunk is written with the length its header and the memory map     *)
(* announce, whatever was fetched, unpacked, replaced or edited before      *)
(* (chunkSize agrees with writeChunk).                                     *)
THEOREM EstimatesCorrect == Spec => []EstimatesHold
<1>1. SizesInv => EstimatesHold
  BY DEF SizesInv
<1>2. QED
  BY InitSizes, NextSizes, <1>1, PTL DEF Spec
-----------------------------------------------------------------------------
(***************************************************************************)
(* The file that is written is the movie that was opened, with the edits.   *)
(***************************************************************************)
ListedBelow(id, n) == {k \in Listed(id) : k < n}
Loaded(n) == {file.ils[k] : k \in 1 .. n - 1}
Closed == {"mapping", "loading", "aborted"}

(* What the container is read into: entry by entry the last that was listed  *)
(* of every id; then what the initial load segment adds; from then on, the   *)
(* resources of the movie, of which nothing else is ever cached.            *)
MapInv ==
  /\ phase = "mapping" =>
       /\ at \in 1 .. Len(file.map) + 1
       /\ views = Nothing /\ chunks = Nothing
       /\ Ids = {id \in InMap : ListedBelow(id, at) # {}}
       /\ \A id \in Ids : \E k \in ListedBelow(id, at) :
            chunkInfo[id] = file.map[k] /\ \A j \in ListedBelow(id, at) : j <= k
  /\ phase = "loading" =>
       /\ at \in 1 .. Len(file.ils) + 1
       /\ chunks = Nothing
       /\ Ids = {id \in InMap : Listed(id) # {}} \cup Loaded(at)
       /\ \A id \in Ids : chunkInfo[id] = LastListed(id)
       /\ DOMAIN views = Loaded(at)
       /\ \A id \in DOMAIN views : views[id] = LastListed(id).stored
  /\ phase \notin Closed =>
       /\ Ids = Entries
       /\ \A id \in Ids : chunkInfo[id] = LastListed(id)
       /\ Resident \subseteq DOMAIN views /\ DOMAIN views \subseteq Ids
       /\ \A id \in DOMAIN views : views[id] = Unread(id, LastListed(id))

(* The entries of the map: the three fixed ones, the resources, and free     *)
(* ones in the gaps.                                                       *)
FixedEntries ==
  /\ 0 \in Used /\ 1 \in Used /\ 2 \in Used
  /\ mapArray[0].fourCC = "RIFX" /\ mapArray[0].offset = 0
  /\ mapArray[1].fourCC = "imap" /\ mapArray[1].offset = kRIFXHeaderSize
  /\ mapArray[1].len = InitialMapSize
  /\ mapArray[2].fourCC = "mmap" /\ mapArray[2].offset = MmapOffset
EntriesInv ==
  /\ phase \in LaidOut => FixedEntries
  /\ phase \in LaidOut => \A id \in DOMAIN mapArray \ {0, 1, 2} :
       mapArray[id].fourCC =
         IF id \in Ids /\ ~(phase = "placing" /\ id \in rest) THEN chunkInfo[id].fourCC ELSE "free"

(* The chunks written so far, each once, each readable and as long as its    *)
(* entry says.                                                             *)
Done == ({0, 1, 2} \cup Resources) \ rest
IsWritten(k, id) == image[k] = Segment(id, BodyOf(id))
ImageInv ==
  /\ phase \in {"writing", "saved"} =>
       /\ \A id \in Done : \E k \in 1 .. Len(image) : IsWritten(k, id)
       /\ \A id \in Done : BodyOf(id) # Broken /\ (id # 0 => BodyOf(id).size = mapArray[id].len)
       /\ \A k \in 1 .. Len(image) : \E id \in Done : IsWritten(k, id)
       /\ \A j, k \in 1 .. Len(image) : j # k =>
            \E a, b \in Done : a # b /\ IsWritten(j, a) /\ IsWritten(k, b)
  /\ phase \notin {"writing", "saved", "aborted"} => image = <<>>
  /\ phase = "saved" => rest = {}

(* A free entry of a memory map is passed over.                             *)
NoFreeResource == \A id \in Ids : chunkInfo[id].fourCC # "free"

RepackInv ==
  LayoutInv /\ SizesInv /\ MapInv /\ NoFreeResource /\ EntriesInv /\ ImageInv
-----------------------------------------------------------------------------
(* The file is read into the movie.                                        *)

(* A chunk is fetched as the movie has it, whether or not it was before.     *)
LEMMA FetchedIsMovies ==
  ASSUME MapInv, phase \notin Closed, NEW id \in Ids
  PROVE  GetChunkData(id) = Unread(id, LastListed(id))
BY DEF MapInv, GetChunkData, Unread

(* Of an id that is listed, the last place is the one that was chosen.       *)
LEMMA LastListedIs ==
  ASSUME file.map \in Seq(Resource), NEW id, NEW k \in Listed(id), \A j \in Listed(id) : j <= k
  PROVE  LastListed(id) = file.map[k]
<1>1. \A n \in Listed(id) : n \in Nat
  BY DEF Listed
<1>2. \A n \in Listed(id) : (\A j \in Listed(id) : j <= n) => n = k
  BY <1>1
<1>3. k = CHOOSE n \in Listed(id) : \A j \in Listed(id) : j <= n
  BY <1>2
<1>4. QED
  BY <1>3 DEF LastListed

(* At the end of the map, every listed id has its last entry.               *)
LEMMA MapIsRead ==
  ASSUME MapInv, TypeOK, phase = "mapping", at > Len(file.map)
  PROVE  /\ Ids = {id \in InMap : Listed(id) # {}}
         /\ \A id \in Ids : chunkInfo[id] = LastListed(id)
<1>1. file.map \in Seq(Resource)
  BY FilesAssumption DEF TypeOK
<1>2. at = Len(file.map) + 1 /\ Len(file.map) \in Nat
  BY <1>1 DEF MapInv
<1>3. \A id : ListedBelow(id, at) = Listed(id)
  BY <1>2 DEF ListedBelow, Listed
<1>4. Ids = {id \in InMap : Listed(id) # {}}
  BY <1>3 DEF MapInv
<1>5. ASSUME NEW id \in Ids
      PROVE  chunkInfo[id] = LastListed(id)
  <2>1. PICK k \in Listed(id) : chunkInfo[id] = file.map[k] /\ \A j \in Listed(id) : j <= k
    BY <1>3 DEF MapInv
  <2>2. QED
    BY <1>1, <2>1, LastListedIs
<1>6. QED
  BY <1>4, <1>5

(* The last entry that was listed of an id replaces what there was.        *)
LEMMA ReadEntryMap ==
  ASSUME RepackInv, ReadEntry
  PROVE  MapInv'
<1>1. /\ file \in Files /\ file.map \in Seq(Resource) /\ at \in 1 .. Len(file.map)
      /\ Len(file.map) \in Nat /\ MapInv
  BY FilesAssumption DEF RepackInv, LayoutInv, TypeInv, TypeOK, ReadEntry, MapInv
<1>2. UNCHANGED <<file, phase, views, chunks>> /\ phase = "mapping" /\ at' = at + 1
  BY DEF ReadEntry
<1> DEFINE e == file.map[at]
           skipped == e.fourCC \in {"free", "junk"}
<1>3. file.afterburned => ~skipped
  BY <1>1, FilesAssumption
<1>4. \A id : Listed(id)' = Listed(id)
  BY <1>2 DEF Listed
<1>5. InMap' = InMap /\ e.id \in InMap
  BY <1>1, <1>2 DEF InMap
<1>6. \A id : ListedBelow(id, at)' = ListedBelow(id, at) \cup (IF id = e.id /\ ~skipped THEN {at} ELSE {})
  BY <1>1, <1>2, <1>4 DEF ListedBelow, Listed
<1>7. CASE skipped
  <2>1. chunkInfo' = chunkInfo
    BY <1>3, <1>7 DEF ReadEntry
  <2>2. \A id : ListedBelow(id, at)' = ListedBelow(id, at)
    BY <1>6, <1>7
  <2>3. Ids' = {id \in InMap : ListedBelow(id, at) # {}}
    BY <1>1, <1>2, <2>1 DEF MapInv, Ids
  <2>4. \A id \in Ids' : \E k \in ListedBelow(id, at) :
          chunkInfo'[id] = file.map[k] /\ \A j \in ListedBelow(id, at) : j <= k
    BY <1>1, <1>2, <2>1 DEF MapInv, Ids
  <2>5. QED
    BY <1>1, <1>2, <1>5, <2>2, <2>3, <2>4 DEF MapInv, Closed
<1>8. CASE ~skipped
  <2>1. chunkInfo' = With(chunkInfo, e.id, e)
    BY <1>8 DEF ReadEntry
  <2>2. Ids' = Ids \cup {e.id} /\ chunkInfo'[e.id] = e
        /\ \A id \in Ids : id # e.id => chunkInfo'[id] = chunkInfo[id]
    BY <2>1 DEF With, Ids
  <2>3. Ids = {id \in InMap : ListedBelow(id, at) # {}}
    BY <1>1, <1>2 DEF MapInv
  <2>4. Ids' = {id \in InMap : ListedBelow(id, at)' # {}}
    BY <1>5, <1>6, <1>8, <2>2, <2>3
  <2>5. ASSUME NEW id \in Ids'
        PROVE  \E k \in ListedBelow(id, at)' :
                 chunkInfo'[id] = file.map[k] /\ \A j \in ListedBelow(id, at)' : j <= k
    <3>1. CASE id = e.id
      <4>1. ListedBelow(id, at)' = ListedBelow(id, at) \cup {at}
        BY <1>6, <1>8, <3>1
      <4>2. \A j \in ListedBelow(id, at) : j <= at
        BY <1>1 DEF ListedBelow, Listed
      <4>3. \A j \in ListedBelow(id, at)' : j <= at
        BY <1>1, <4>1, <4>2
      <4>4. QED
        BY <2>2, <3>1, <4>1, <4>3
    <3>2. CASE id # e.id
      <4>1. id \in Ids /\ ListedBelow(id, at)' = ListedBelow(id, at) /\ chunkInfo'[id] = chunkInfo[id]
        BY <1>6, <2>2, <3>2
      <4>2. QED
        BY <1>1, <1>2, <4>1 DEF MapInv
    <3>3. QED
      BY <3>1, <3>2
  <2>6. QED
    BY <1>1, <1>2, <1>5, <2>4, <2>5 DEF MapInv, Closed
<1>9. QED
  BY <1>7, <1>8

(* What a segment adds: the content of an entry, or a blank for none.      *)
LEMMA LoadResidentMap ==
  ASSUME RepackInv, LoadResident
  PROVE  MapInv'
<1>1. /\ file \in Files /\ file.ils \in Seq(Nat) /\ at \in 1 .. Len(file.ils)
      /\ Len(file.ils) \in Nat /\ MapInv
  BY FilesAssumption DEF RepackInv, LayoutInv, TypeInv, TypeOK, LoadResident, MapInv
<1>2. UNCHANGED <<file, phase, chunks>> /\ phase = "loading" /\ at' = at + 1
  BY DEF LoadResident
<1> DEFINE i == file.ils[at]
           info == IF i \in Ids THEN chunkInfo[i] ELSE Blank
<1>3. chunkInfo' = With(chunkInfo, i, info) /\ views' = With(views, i, info.stored)
  BY DEF LoadResident
<1>4. info = LastListed(i)
  <2>1. CASE i \in Ids
    BY <1>1, <1>2, <2>1 DEF MapInv
  <2>2. CASE i \notin Ids
    <3>1. i \notin {id \in InMap : Listed(id) # {}}
      BY <1>1, <1>2, <2>2 DEF MapInv
    <3>2. Listed(i) = {}
      BY <3>1 DEF InMap, Listed
    <3>3. QED
      BY <2>2, <3>2 DEF LastListed
  <2>3. QED
    BY <2>1, <2>2
<1> HIDE DEF info
<1>5. Loaded(at)' = Loaded(at) \cup {i}
  BY <1>1, <1>2 DEF Loaded
<1>6. UNCHANGED InMap /\ \A id : Listed(id)' = Listed(id) /\ LastListed(id)' = LastListed(id)
  BY <1>2 DEF InMap, Listed, LastListed
<1>7. Ids' = Ids \cup {i} /\ chunkInfo'[i] = info
      /\ \A id \in Ids : id # i => chunkInfo'[id] = chunkInfo[id]
  BY <1>3 DEF With, Ids
<1>8. DOMAIN views' = DOMAIN views \cup {i} /\ views'[i] = info.stored
      /\ \A id \in DOMAIN views : id # i => views'[id] = views[id]
  BY <1>3 DEF With
<1>9. /\ Ids = {id \in InMap : Listed(id) # {}} \cup Loaded(at) /\ DOMAIN views = Loaded(at)
      /\ \A id \in Ids : chunkInfo[id] = LastListed(id)
      /\ \A id \in DOMAIN views : views[id] = LastListed(id).stored
      /\ chunks = Nothing
  BY <1>1, <1>2 DEF MapInv
<1>10. Ids' = {id \in InMap : Listed(id) # {}} \cup Loaded(at)' /\ DOMAIN views' = Loaded(at)'
  BY <1>5, <1>7, <1>8, <1>9
<1>11. \A id \in Ids' : chunkInfo'[id] = LastListed(id)
  BY <1>4, <1>7, <1>9
<1>12. \A id \in DOMAIN views' : views'[id] = LastListed(id).stored
  BY <1>4, <1>8, <1>9
<1>13. QED
  BY <1>1, <1>2, <1>6, <1>9, <1>10, <1>11, <1>12 DEF MapInv, Closed

(* A cached view that was fetched as the movie has it.                      *)
LEMMA CachedMap ==
  ASSUME MapInv, phase \notin Closed, phase' \notin Closed, UNCHANGED <<file, chunkInfo>>,
         \/ UNCHANGED views
         \/ \E id \in Ids : views' = With(views, id, GetChunkData(id))
  PROVE  MapInv'
<1>1. UNCHANGED <<Entries, Resident, Ids>>
      /\ \A id : LastListed(id)' = LastListed(id) /\ Unread(id, LastListed(id))' = Unread(id, LastListed(id))
  BY DEF Entries, Resident, InMap, Listed, LastListed, Unread, FetchedAnew, Decoded,
     CompressionImplemented, Ids
<1>2. CASE UNCHANGED views
  BY <1>1, <1>2 DEF MapInv, Closed
<1>3. ASSUME NEW id \in Ids, views' = With(views, id, GetChunkData(id))
      PROVE  MapInv'
  <2>1. GetChunkData(id) = Unread(id, LastListed(id))
    BY FetchedIsMovies
  <2>2. DOMAIN views' = DOMAIN views \cup {id}
        /\ \A k \in DOMAIN views' : views'[k] = IF k = id THEN GetChunkData(id) ELSE views[k]
    BY <1>3 DEF With
  <2>3. \A k \in DOMAIN views' : views'[k] = Unread(k, LastListed(k))
    BY <2>1, <2>2 DEF MapInv
  <2>4. QED
    BY <1>1, <1>3, <2>2, <2>3 DEF MapInv, Closed
<1>4. QED
  BY <1>2, <1>3

(* Every step keeps what has been read of the movie.                        *)
LEMMA MapInvNext == RepackInv /\ [Next]_vars => MapInv'
<1> SUFFICES ASSUME RepackInv, [Next]_vars PROVE MapInv'
  OBVIOUS
<1>1. MapInv /\ TypeOK /\ Bounds
  BY DEF RepackInv, LayoutInv, TypeInv
<1>2. ASSUME phase' = "aborted" PROVE MapInv'
  BY <1>2 DEF MapInv, Closed
<1>3. CASE ReadEntry
  BY <1>3, ReadEntryMap
<1>4. CASE MemoryMapRead
  <2>1. /\ Ids = {id \in InMap : Listed(id) # {}} /\ views = Nothing
        /\ \A id \in Ids : chunkInfo[id] = LastListed(id)
    BY <1>1, <1>4, MapIsRead DEF MemoryMapRead, MapInv
  <2>2. Resident = {} /\ Entries = {id \in InMap : Listed(id) # {}}
    BY <1>1, <1>4, FilesAssumption DEF TypeOK, MemoryMapRead, Resident, Entries
  <2>3. UNCHANGED <<file, chunkInfo, views>> /\ phase' = "open"
    BY <1>4 DEF MemoryMapRead
  <2>4. UNCHANGED <<Entries, Resident, Ids>> /\ \A id : LastListed(id)' = LastListed(id)
    BY <2>3 DEF Entries, Resident, InMap, Listed, LastListed, Ids
  <2>5. DOMAIN views' = {}
    BY <2>1, <2>3 DEF Nothing
  <2>6. QED
    BY <2>1, <2>2, <2>3, <2>4, <2>5 DEF MapInv, Closed
<1>5. CASE AfterburnerMapRead
  <2>1. /\ Ids = {id \in InMap : Listed(id) # {}} /\ views = Nothing /\ chunks = Nothing
        /\ \A id \in Ids : chunkInfo[id] = LastListed(id)
    BY <1>1, <1>5, MapIsRead DEF AfterburnerMapRead, MapInv
  <2>2. CASE phase' = "loading"
    <3>1. UNCHANGED <<file, chunkInfo, views, chunks>> /\ at' = 1
      BY <1>5, <2>2 DEF AfterburnerMapRead, Abort
    <3>2. UNCHANGED <<InMap, Ids>> /\ \A id : Listed(id)' = Listed(id) /\ LastListed(id)' = LastListed(id)
      BY <3>1 DEF InMap, Listed, LastListed, Ids
    <3>3. Loaded(at)' = {} /\ DOMAIN views' = {}
      BY <2>1, <3>1 DEF Loaded, Nothing
    <3>4. Len(file.ils) \in Nat
      BY <1>1, FilesAssumption DEF TypeOK
    <3>5. QED
      BY <2>1, <2>2, <3>1, <3>2, <3>3, <3>4 DEF MapInv, Closed
  <2>3. QED
    BY <1>2, <1>5, <2>2 DEF AfterburnerMapRead, Abort
<1>6. CASE LoadResident
  BY <1>6, LoadResidentMap
<1>7. CASE SegmentRead
  <2>1. at = Len(file.ils) + 1 /\ phase = "loading" /\ phase' = "open"
        /\ UNCHANGED <<file, chunkInfo, views>> /\ Len(file.ils) \in Nat
    BY <1>1, <1>7, FilesAssumption DEF SegmentRead, MapInv, TypeOK
  <2>2. Loaded(at) = Resident
    BY <2>1 DEF Loaded, Resident
  <2>3. Ids = Entries /\ DOMAIN views = Resident /\ Resident \subseteq Ids
        /\ \A id \in DOMAIN views : views[id] = Unread(id, LastListed(id))
    BY <1>1, <2>1, <2>2 DEF MapInv, Entries, Unread
  <2>4. UNCHANGED <<Entries, Resident, Ids>>
        /\ \A id : LastListed(id)' = LastListed(id) /\ Unread(id, LastListed(id))' = Unread(id, LastListed(id))
    BY <2>1 DEF Entries, Resident, InMap, Listed, LastListed, Unread, FetchedAnew, Decoded,
       CompressionImplemented, Ids
  <2>5. QED
    BY <1>1, <2>1, <2>3, <2>4 DEF MapInv, Closed
<1>8. ASSUME NEW id \in Ids, NEW fourCC \in Known, GetChunk(id, fourCC) PROVE MapInv'
  <2>1. CASE Throws(id, fourCC)
    BY <1>2, <1>8, <2>1 DEF GetChunk, Abort
  <2>2. CASE ~Throws(id, fourCC)
    BY <1>1, <1>8, <2>2, CachedMap DEF GetChunk, Closed
  <2>3. QED
    BY <2>1, <2>2
<1>9. ASSUME NEW id \in Ids, DumpChunk(id) PROVE MapInv'
  <2>1. CASE GetChunkData(id) = Broken
    BY <1>2, <1>9, <2>1 DEF DumpChunk, Abort
  <2>2. CASE GetChunkData(id) # Broken
    BY <1>1, <1>9, <2>2, CachedMap DEF DumpChunk, Closed
  <2>3. QED
    BY <2>1, <2>2
<1>10. ASSUME NEW id \in Ids, NEW text \in Texts, SetText(id, text) PROVE MapInv'
  BY <1>1, <1>10, CachedMap DEF SetText, Closed
<1>11. CASE GenerateMemoryMap
  BY <1>1, <1>11, CachedMap DEF GenerateMemoryMap, Closed
<1>12. ASSUME NEW id \in rest, Place(id) PROVE MapInv'
  BY <1>1, <1>12, CachedMap DEF Place, Closed
<1>13. ASSUME NEW id \in rest, WriteChunk(id) PROVE MapInv'
  <2>1. phase' = "aborted" \/ (/\ UNCHANGED <<file, phase, chunkInfo>>
                              /\ views' = IF id <= 2 \/ IsRewritten(id) THEN views
                                          ELSE With(views, id, BodyOf(id)))
    BY <1>13 DEF WriteChunk, Abort
  <2>2. phase = "writing" /\ id \in {0, 1, 2} \cup Resources
    BY <1>1, <1>13 DEF WriteChunk, Bounds
  <2>3. ~(id <= 2 \/ IsRewritten(id)) => id \in Ids /\ BodyOf(id) = GetChunkData(id)
    BY <2>2 DEF BodyOf, Resources
  <2>4. QED
    BY <1>1, <1>2, <2>1, <2>2, <2>3, CachedMap DEF Closed
<1>14. CASE CloseRIFX \/ Link \/ StartWriting \/ WriteFile
  BY <1>1, <1>14, CachedMap DEF CloseRIFX, Link, StartWriting, WriteFile, Closed
<1>15. CASE Ended \/ UNCHANGED vars
  <2>1. UNCHANGED vars
    BY <1>15 DEF Ended
  <2>2. CASE phase \in Closed
    <3>1. UNCHANGED <<file, phase, chunkInfo, views, chunks, at>>
      BY <2>1 DEF vars
    <3>2. /\ UNCHANGED <<Ids, InMap, Loaded(at)>>
          /\ \A id : /\ Listed(id)' = Listed(id) /\ LastListed(id)' = LastListed(id)
                     /\ ListedBelow(id, at)' = ListedBelow(id, at)
      BY <3>1 DEF InMap, Listed, LastListed, ListedBelow, Loaded, Ids
    <3>3. QED
      BY <1>1, <2>2, <3>1, <3>2 DEF MapInv, Closed
  <2>3. CASE phase \notin Closed
    BY <1>1, <2>1, <2>3, CachedMap DEF vars
  <2>4. QED
    BY <2>2, <2>3
<1>16. QED
  BY <1>3, <1>4, <1>5, <1>6, <1>7, <1>8, <1>9, <1>10, <1>11, <1>12, <1>13, <1>14, <1>15 DEF Next
-----------------------------------------------------------------------------
(* The entries and the chunks written for them.                             *)

(* A step that leaves the entries and the resources alone.                  *)
LEMMA SameEntries ==
  ASSUME EntriesInv, UNCHANGED <<mapArray, chunkInfo>>,
         phase' \in LaidOut => phase \in LaidOut,
         phase = "placing" \/ phase' = "placing" => UNCHANGED <<phase, rest>>
  PROVE  EntriesInv'
<1>1. UNCHANGED <<Used, Ids>> /\ (FixedEntries <=> FixedEntries')
  BY DEF Used, Ids, FixedEntries
<1>2. QED
  BY <1>1 DEF EntriesInv

(* Placing a chunk puts its type into its entry; nothing else changes one. *)
LEMMA EntriesInvNext == RepackInv /\ [Next]_vars => EntriesInv'
<1> SUFFICES ASSUME RepackInv, [Next]_vars PROVE EntriesInv'
  OBVIOUS
<1>1. EntriesInv /\ TypeOK /\ Bounds
  BY DEF RepackInv, LayoutInv, TypeInv
<1>2. ASSUME phase' \notin LaidOut PROVE EntriesInv'
  BY <1>2 DEF EntriesInv
<1>3. CASE GenerateMemoryMap
  <2>1. PICK maxID \in Ids \cup {2} :
          /\ \A id \in Ids \cup {2} : id <= maxID
          /\ mapArray' =
            [id \in 0 .. maxID |->
               CASE id = 0 -> Entry("RIFX", 0, 0)
                 [] id = 1 -> Entry("imap", InitialMapSize, kRIFXHeaderSize)
                 [] id = 2 -> Entry("mmap", MmapSize(maxID), MmapOffset)
                 [] OTHER  -> Entry("free", 0, 0)]
    BY <1>3 DEF GenerateMemoryMap
  <2>2. maxID \in Nat /\ 2 <= maxID
    BY <1>1, <2>1 DEF TypeOK
  <2>3. /\ mapArray'[0] = Entry("RIFX", 0, 0)
        /\ mapArray'[1] = Entry("imap", InitialMapSize, kRIFXHeaderSize)
        /\ mapArray'[2] = Entry("mmap", MmapSize(maxID), MmapOffset)
        /\ \A id \in DOMAIN mapArray' \ {0, 1, 2} : mapArray'[id] = Entry("free", 0, 0)
        /\ {0, 1, 2} \subseteq DOMAIN mapArray'
        /\ DOMAIN mapArray' = 0 .. maxID
    BY <2>1, <2>2
  <2>4. FixedEntries'
    BY <2>3 DEF FixedEntries, Used, Entry
  <2>5. UNCHANGED chunkInfo /\ phase' = "placing" /\ rest' = Resources
    BY <1>3 DEF GenerateMemoryMap
  <2>6. ASSUME NEW id \in DOMAIN mapArray' \ {0, 1, 2}
        PROVE  mapArray'[id].fourCC = "free" /\ (id \in Ids => id \in rest')
    BY <2>2, <2>3, <2>5 DEF Resources, Entry
  <2>7. QED
    BY <2>4, <2>5, <2>6 DEF EntriesInv, Ids
<1>4. ASSUME NEW id \in rest, Place(id) PROVE EntriesInv'
  <2>1. /\ id \in Resources /\ id \in DOMAIN mapArray /\ phase = "placing" /\ FixedEntries
        /\ id \in Ids /\ id \notin {0, 1, 2}
    BY <1>1, <1>4 DEF Place, Bounds, Resources, LaidOut, EntriesInv
  <2>2. /\ mapArray' = [mapArray EXCEPT ![id] =
                         Entry(chunkInfo[id].fourCC, ChunkSize(id), nextOffset)]
        /\ UNCHANGED <<phase, chunkInfo>> /\ rest' = rest \ {id}
    BY <1>4 DEF Place
  <2>3. mapArray'[id].fourCC = chunkInfo[id].fourCC /\ DOMAIN mapArray' = DOMAIN mapArray
        /\ \A k \in DOMAIN mapArray : k # id => mapArray'[k] = mapArray[k]
    BY <2>1, <2>2 DEF Entry
  <2>4. FixedEntries'
    BY <2>1, <2>3 DEF FixedEntries, Used
  <2>5. ASSUME NEW k \in DOMAIN mapArray \ {0, 1, 2}
        PROVE  mapArray'[k].fourCC = IF k \in Ids /\ k \notin rest' THEN chunkInfo[k].fourCC ELSE "free"
    <3>1. CASE k = id
      BY <2>1, <2>2, <2>3, <3>1
    <3>2. CASE k # id
      BY <1>1, <2>1, <2>2, <2>3, <3>2 DEF EntriesInv, LaidOut
    <3>3. QED
      BY <3>1, <3>2
  <2>6. QED
    BY <2>1, <2>2, <2>3, <2>4, <2>5 DEF EntriesInv, Ids
<1>5. CASE CloseRIFX
  <2>1. /\ phase = "placing" /\ phase' = "linking" /\ rest = {} /\ UNCHANGED chunkInfo
        /\ mapArray' = [mapArray EXCEPT ![0].len = nextOffset - kChunkHeaderSize]
    BY <1>5 DEF CloseRIFX
  <2>2. FixedEntries /\ \A id \in DOMAIN mapArray : mapArray[id] \in MapEntry
    BY <1>1, <2>1 DEF EntriesInv, LaidOut, TypeOK
  <2>3. /\ DOMAIN mapArray' = DOMAIN mapArray
        /\ \A k \in DOMAIN mapArray : k # 0 => mapArray'[k] = mapArray[k]
        /\ mapArray'[0].fourCC = mapArray[0].fourCC /\ mapArray'[0].offset = mapArray[0].offset
    BY <2>1, <2>2 DEF FixedEntries, Used, MapEntry
  <2>4. FixedEntries'
    BY <2>2, <2>3 DEF FixedEntries, Used
  <2>5. QED
    BY <1>1, <2>1, <2>3, <2>4 DEF EntriesInv, LaidOut, Ids
<1>6. CASE Link
  <2>1. /\ phase = "linking" /\ UNCHANGED <<phase, chunkInfo, rest>>
        /\ mapArray' = mapArray \/ mapArray' = [mapArray EXCEPT ![at].next = freeHead]
    BY <1>6 DEF Link
  <2>2. FixedEntries /\ \A id \in DOMAIN mapArray : mapArray[id] \in MapEntry
    BY <1>1, <2>1 DEF EntriesInv, LaidOut, TypeOK
  <2>3. /\ DOMAIN mapArray' = DOMAIN mapArray
        /\ \A k \in DOMAIN mapArray : mapArray'[k].fourCC = mapArray[k].fourCC
             /\ mapArray'[k].offset = mapArray[k].offset /\ mapArray'[k].len = mapArray[k].len
    BY <2>1, <2>2 DEF MapEntry
  <2>4. FixedEntries'
    BY <2>2, <2>3 DEF FixedEntries, Used
  <2>5. QED
    BY <1>1, <2>1, <2>3, <2>4 DEF EntriesInv, LaidOut, Ids
<1>7. CASE ReadEntry \/ MemoryMapRead \/ AfterburnerMapRead \/ LoadResident \/ SegmentRead
  BY <1>2, <1>7 DEF ReadEntry, MemoryMapRead, AfterburnerMapRead, LoadResident, SegmentRead,
     Abort, LaidOut
<1>8. ASSUME NEW id \in Ids, NEW fourCC \in Known, GetChunk(id, fourCC) PROVE EntriesInv'
  BY <1>2, <1>8 DEF GetChunk, Abort, LaidOut
<1>9. ASSUME NEW id \in Ids, DumpChunk(id) PROVE EntriesInv'
  BY <1>2, <1>9 DEF DumpChunk, Abort, LaidOut
<1>10. ASSUME NEW id \in Ids, NEW text \in Texts, SetText(id, text) PROVE EntriesInv'
  BY <1>2, <1>10 DEF SetText, LaidOut
<1>11. ASSUME NEW id \in rest, WriteChunk(id) PROVE EntriesInv'
  BY <1>1, <1>2, <1>11, SameEntries DEF WriteChunk, Abort, LaidOut
<1>12. CASE StartWriting \/ WriteFile
  BY <1>1, <1>12, SameEntries DEF StartWriting, WriteFile, LaidOut
<1>13. CASE Ended \/ UNCHANGED vars
  BY <1>1, <1>13, SameEntries DEF Ended, vars
<1>14. QED
  BY <1>3, <1>4, <1>5, <1>6, <1>7, <1>8, <1>9, <1>10, <1>11, <1>12, <1>13 DEF Next

(* What is written for an entry is as long as the entry says.               *)
LEMMA BodySize ==
  ASSUME RepackInv, phase = "writing", NEW id \in {0, 1, 2} \cup Resources, BodyOf(id) # Broken,
         id # 0
  PROVE  BodyOf(id).size = mapArray[id].len
<1>1. CASE id \in {1, 2}
  BY <1>1 DEF BodyOf, Generated, Bytes
<1>2. CASE id \in Resources
  <2>1. id > 2 /\ id \in Ids /\ id \in Nat /\ TypeOK /\ mapArray[id].len = ChunkSize(id)
        /\ Honest(chunkInfo[id], id) /\ (id \in DOMAIN views => views[id].size = SizeWhenRead(id))
    BY <1>2 DEF Resources, RepackInv, SizesInv, TypeInv, TypeOK
  <2>2. CASE IsRewritten(id)
    BY <2>1, <2>2 DEF BodyOf, ChunkSize
  <2>3. CASE ~IsRewritten(id)
    <3>1. BodyOf(id) = GetChunkData(id)
      BY <2>1, <2>3 DEF BodyOf
    <3>2. BodyOf(id).size = SizeWhenRead(id)
      BY <2>1, <3>1, FetchedSize
    <3>3. QED
      BY <2>1, <2>3, <3>2 DEF ChunkSize, SizeWhenRead
  <2>4. QED
    BY <2>2, <2>3
<1>3. QED
  BY <1>1, <1>2

(* A chunk is written once; the views it is fetched into change no other.  *)
LEMMA WriteChunkImage ==
  ASSUME RepackInv, NEW id \in rest, WriteChunk(id), phase' # "aborted"
  PROVE  ImageInv'
<1> DEFINE body == BodyOf(id)
<1>1. /\ phase = "writing" /\ image' = Append(image, Segment(id, body)) /\ body # Broken
      /\ views' = IF id <= 2 \/ IsRewritten(id) THEN views ELSE With(views, id, body)
      /\ rest' = rest \ {id}
      /\ UNCHANGED <<file, phase, chunkInfo, chunks, mapArray>>
  BY DEF WriteChunk, Abort
<1>2. /\ id \in {0, 1, 2} \cup Resources /\ rest \subseteq {0, 1, 2} \cup Resources
      /\ image \in Seq(Written) /\ ImageInv
  BY <1>1 DEF RepackInv, LayoutInv, TypeInv, TypeOK, Bounds
<1>3. UNCHANGED Resources
  BY <1>1 DEF Resources, Ids
<1>4. Done' = Done \cup {id} /\ id \notin Done
  BY <1>1, <1>2, <1>3 DEF Done
<1>5. ASSUME NEW other
      PROVE  BodyOf(other)' = BodyOf(other) /\ Segment(other, BodyOf(other))' = Segment(other, BodyOf(other))
  <2>1. IsRewritten(other)' = IsRewritten(other) /\ Rewritten(chunks[other])' = Rewritten(chunks[other])
        /\ Generated(other)' = Generated(other)
    BY <1>1 DEF IsRewritten, Rewritten, Generated
  <2>2. ~(other <= 2) /\ ~IsRewritten(other) => GetChunkData(other)' = GetChunkData(other)
    <3>1. CASE UNCHANGED views
      BY <1>1, <3>1 DEF GetChunkData, FetchedAnew, Decoded, CompressionImplemented
    <3>2. CASE ~UNCHANGED views
      <4>1. views' = With(views, id, GetChunkData(id))
        BY <1>1, <3>2 DEF BodyOf
      <4>2. DOMAIN views' = DOMAIN views \cup {id}
            /\ \A k \in DOMAIN views' : views'[k] = IF k = id THEN GetChunkData(id) ELSE views[k]
        BY <4>1 DEF With
      <4>3. CASE other = id
        BY <4>2, <4>3 DEF GetChunkData
      <4>4. CASE other # id
        BY <1>1, <4>2, <4>4 DEF GetChunkData, FetchedAnew, Decoded, CompressionImplemented
      <4>5. QED
        BY <4>3, <4>4
    <3>3. QED
      BY <3>1, <3>2
  <2>3. BodyOf(other)' = BodyOf(other)
    BY <2>1, <2>2 DEF BodyOf
  <2>4. QED
    BY <1>1, <2>3 DEF Segment
<1>6. id # 0 => body.size = mapArray[id].len
  BY <1>1, <1>2, BodySize
<1> HIDE DEF body
<1> PICK n \in Nat : n = Len(image)
  BY <1>2
<1>7. /\ Len(image') = n + 1
      /\ \A k \in 1 .. n : image'[k] = image[k]
      /\ image'[n + 1] = Segment(id, body)
  BY <1>1, <1>2
<1>8. \A k \in 1 .. n : \A other : IsWritten(k, other)' <=> IsWritten(k, other)
  BY <1>5, <1>7 DEF IsWritten
<1>9. IsWritten(n + 1, id)'
  BY <1>5, <1>7 DEF IsWritten, body
<1>10. 1 .. Len(image') = (1 .. n) \cup {n + 1}
  BY <1>7
<1>11. /\ \A a \in Done : \E k \in 1 .. n : IsWritten(k, a)
       /\ \A a \in Done : BodyOf(a) # Broken /\ (a # 0 => BodyOf(a).size = mapArray[a].len)
       /\ \A k \in 1 .. n : \E a \in Done : IsWritten(k, a)
       /\ \A j, k \in 1 .. n : j # k =>
            \E a, b \in Done : a # b /\ IsWritten(j, a) /\ IsWritten(k, b)
  BY <1>1, <1>2 DEF ImageInv
<1>12. ASSUME NEW a \in Done'
       PROVE  \E k \in 1 .. Len(image') : IsWritten(k, a)'
  <2>1. CASE a = id
    BY <1>9, <1>10, <2>1
  <2>2. CASE a \in Done
    <3>1. PICK k \in 1 .. n : IsWritten(k, a)
      BY <1>11, <2>2
    <3>2. IsWritten(k, a)'
      BY <1>8, <3>1
    <3>3. QED
      BY <1>10, <3>2
  <2>3. QED
    BY <1>4, <2>1, <2>2
<1>13. ASSUME NEW a \in Done'
       PROVE  BodyOf(a)' # Broken /\ (a # 0 => BodyOf(a)'.size = mapArray'[a].len)
  <2>1. BodyOf(a)' = BodyOf(a) /\ mapArray' = mapArray /\ Broken' = Broken
    BY <1>1, <1>5
  <2>2. CASE a = id
    BY <1>1, <1>6, <2>1, <2>2 DEF body
  <2>3. CASE a \in Done
    BY <1>11, <2>1, <2>3
  <2>4. QED
    BY <1>4, <2>2, <2>3
<1>14. \A k \in 1 .. Len(image') : \E a \in Done' : IsWritten(k, a)'
  BY <1>4, <1>8, <1>9, <1>10, <1>11
<1>15. ASSUME NEW j \in 1 .. Len(image'), NEW k \in 1 .. Len(image'), j # k
       PROVE  \E a, b \in Done' : a # b /\ IsWritten(j, a)' /\ IsWritten(k, b)'
  <2>1. CASE j \in 1 .. n /\ k \in 1 .. n
    BY <1>4, <1>8, <1>11, <1>15, <2>1
  <2>2. CASE j \in 1 .. n /\ k = n + 1
    BY <1>4, <1>8, <1>9, <1>11, <2>2
  <2>3. CASE j = n + 1 /\ k \in 1 .. n
    BY <1>4, <1>8, <1>9, <1>11, <2>3
  <2>4. QED
    BY <1>10, <1>15, <2>1, <2>2, <2>3
<1>16. QED
  BY <1>1, <1>12, <1>13, <1>14, <1>15 DEF ImageInv

(* Only writeChunk adds to the image.                                      *)
LEMMA ImageInvNext == RepackInv /\ [Next]_vars => ImageInv'
<1> SUFFICES ASSUME RepackInv, [Next]_vars PROVE ImageInv'
  OBVIOUS
<1>1. ImageInv
  BY DEF RepackInv
<1>2. ASSUME phase' = "aborted" PROVE ImageInv'
  BY <1>2 DEF ImageInv
<1>3. ASSUME UNCHANGED image, phase \notin {"writing", "saved", "aborted"},
             phase' \notin {"writing", "saved", "aborted"}
      PROVE  ImageInv'
  BY <1>1, <1>3 DEF ImageInv
<1>4. ASSUME NEW id \in rest, WriteChunk(id) PROVE ImageInv'
  BY <1>2, <1>4, WriteChunkImage
<1>5. CASE StartWriting
  <2>1. Done' = {} /\ image' = <<>> /\ phase' = "writing"
    BY <1>1, <1>5 DEF StartWriting, Done, Resources, Ids, ImageInv
  <2>2. QED
    BY <2>1 DEF ImageInv
<1>6. ASSUME UNCHANGED <<file, chunkInfo, views, chunks, mapArray, rest, image>>
      PROVE  /\ UNCHANGED Done
             /\ \A a : BodyOf(a)' = BodyOf(a)
             /\ \A k, a : IsWritten(k, a)' <=> IsWritten(k, a)
  <2>1. UNCHANGED Done
    BY <1>6 DEF Done, Resources, Ids
  <2>2. \A a : BodyOf(a)' = BodyOf(a)
    BY <1>6 DEF BodyOf, Generated, IsRewritten, Rewritten, GetChunkData, FetchedAnew, Decoded,
       CompressionImplemented
  <2>3. \A k, a : IsWritten(k, a)' <=> IsWritten(k, a)
    BY <1>6, <2>2 DEF IsWritten, Segment
  <2>4. QED
    BY <2>1, <2>2, <2>3
<1>7. CASE WriteFile
  <2>1. phase = "writing" /\ rest = {} /\ phase' = "saved"
        /\ UNCHANGED <<file, chunkInfo, views, chunks, mapArray, rest, image>>
    BY <1>7 DEF WriteFile
  <2>2. QED
    BY <1>1, <1>6, <2>1 DEF ImageInv
<1>8. CASE Ended \/ UNCHANGED vars
  <2>1. UNCHANGED <<phase, file, chunkInfo, views, chunks, mapArray, rest, image>>
    BY <1>8 DEF Ended, vars
  <2>2. QED
    BY <1>1, <1>6, <2>1 DEF ImageInv
<1>9. CASE ReadEntry \/ MemoryMapRead \/ AfterburnerMapRead \/ LoadResident \/ SegmentRead
  BY <1>2, <1>3, <1>9 DEF ReadEntry, MemoryMapRead, AfterburnerMapRead, LoadResident, SegmentRead, Abort
<1>10. ASSUME NEW id \in Ids, NEW fourCC \in Known, GetChunk(id, fourCC) PROVE ImageInv'
  BY <1>2, <1>3, <1>10 DEF GetChunk, Abort
<1>11. ASSUME NEW id \in Ids, DumpChunk(id) PROVE ImageInv'
  BY <1>2, <1>3, <1>11 DEF DumpChunk, Abort
<1>12. ASSUME NEW id \in Ids, NEW text \in Texts, SetText(id, text) PROVE ImageInv'
  BY <1>3, <1>12 DEF SetText
<1>13. CASE GenerateMemoryMap \/ CloseRIFX \/ Link
  BY <1>3, <1>13 DEF GenerateMemoryMap, CloseRIFX, Link
<1>14. ASSUME NEW id \in rest, Place(id) PROVE ImageInv'
  BY <1>3, <1>14 DEF Place
<1>15. QED
  BY <1>4, <1>5, <1>7, <1>8, <1>9, <1>10, <1>11, <1>12, <1>13, <1>14 DEF Next

(* Neither the map nor the segment makes a resource of a free entry.       *)
LEMMA NoFreeResourceNext == RepackInv /\ [Next]_vars => NoFreeResource'
<1> SUFFICES ASSUME RepackInv, [Next]_vars PROVE NoFreeResource'
  OBVIOUS
<1>1. NoFreeResource /\ file \in Files /\ Bounds /\ TypeOK
  BY DEF RepackInv, LayoutInv, TypeInv, TypeOK
<1>2. ASSUME UNCHANGED chunkInfo PROVE NoFreeResource'
  BY <1>1, <1>2 DEF NoFreeResource, Ids
<1>3. ASSUME NEW id, NEW info, chunkInfo' = With(chunkInfo, id, info), info.fourCC # "free"
      PROVE  NoFreeResource'
  BY <1>1, <1>3 DEF NoFreeResource, Ids, With
<1>4. CASE ReadEntry
  <2>1. at \in 1 .. Len(file.map)
    BY <1>4 DEF RepackInv, MapInv, ReadEntry
  <2>2. CASE file.map[at].fourCC \in {"free", "junk"}
    BY <1>1, <1>2, <1>4, <2>1, <2>2, FilesAssumption DEF ReadEntry
  <2>3. CASE file.map[at].fourCC \notin {"free", "junk"}
    BY <1>3, <1>4, <2>3 DEF ReadEntry
  <2>4. QED
    BY <2>2, <2>3
<1>5. CASE LoadResident
  <2> DEFINE i == file.ils[at]
             info == IF i \in Ids THEN chunkInfo[i] ELSE Blank
  <2>1. chunkInfo' = With(chunkInfo, i, info)
    BY <1>5 DEF LoadResident
  <2>2. info.fourCC # "free"
    BY <1>1 DEF NoFreeResource, Blank
  <2>3. QED
    BY <1>3, <2>1, <2>2
<1>6. CASE UNCHANGED chunkInfo
  BY <1>2, <1>6
<1>7. QED
  BY <1>4, <1>5, <1>6 DEF Next, MemoryMapRead, AfterburnerMapRead, SegmentRead, Abort, GetChunk,
     DumpChunk, SetText, GenerateMemoryMap, Place, WriteChunk, CloseRIFX, Link, StartWriting,
     WriteFile, Ended, vars

(* Nothing has been read, laid out or written when the program starts.      *)
LEMMA RepackInvInit == Init => RepackInv
<1> SUFFICES ASSUME Init PROVE RepackInv
  OBVIOUS
<1>1. LayoutInv /\ SizesInv
  BY InitLayout, InitSizes
<1>2. file.map \in Seq(Resource)
  BY FilesAssumption DEF Init
<1>3. \A id : ListedBelow(id, at) = {}
  BY <1>2 DEF Init, ListedBelow, Listed
<1>4. MapInv
  BY <1>2, <1>3 DEF Init, MapInv, Nothing, Ids, Closed
<1>5. NoFreeResource /\ EntriesInv /\ ImageInv
  BY DEF Init, NoFreeResource, EntriesInv, ImageInv, LaidOut, Nothing, Ids
<1>6. QED
  BY <1>1, <1>4, <1>5 DEF RepackInv

(* Every step keeps what is read, laid out and written.                    *)
LEMMA RepackInvNext == RepackInv /\ [Next]_vars => RepackInv'
BY NextLayout, NextSizes, MapInvNext, NoFreeResourceNext, EntriesInvNext, ImageInvNext
   DEF RepackInv
-----------------------------------------------------------------------------
(* The reader of the written file.                                         *)

(* No resource of the movie is of the type of a free entry.                 *)
LEMMA ResourcesAreUsed ==
  ASSUME RepackInv, phase = "writing" \/ phase = "saved"
  PROVE  /\ {0, 1, 2} \cup Resources \subseteq Used
         /\ Used \ {0, 1, 2} = Resources
<1>1. /\ TypeOK /\ MapInv /\ EntriesInv /\ Bounds /\ phase \in LaidOut /\ phase \notin Closed
      /\ phase # "placing"
  BY DEF RepackInv, LayoutInv, TypeInv, LaidOut, Closed
<1>2. \A id \in Ids : chunkInfo[id].fourCC # "free"
  BY DEF RepackInv, NoFreeResource
<1>3. Ids \cup {0, 1, 2} \subseteq DOMAIN mapArray /\ FixedEntries
  BY <1>1 DEF Bounds, EntriesInv
<1>4. \A id \in DOMAIN mapArray \ {0, 1, 2} :
        mapArray[id].fourCC = IF id \in Ids THEN chunkInfo[id].fourCC ELSE "free"
  BY <1>1 DEF EntriesInv
<1>5. \A id \in DOMAIN mapArray : id \in Nat
  BY <1>1 DEF TypeOK
<1>6. Resources \subseteq Used
  BY <1>2, <1>3, <1>4 DEF Used, Resources
<1>7. Used \ {0, 1, 2} \subseteq Resources
  BY <1>4, <1>5 DEF Used, Resources
<1>8. QED
  BY <1>3, <1>6, <1>7 DEF FixedEntries, Resources

(* Where a chunk was written ends where its entry does.                     *)
LEMMA SegmentIsEntry ==
  ASSUME RepackInv, phase = "writing" \/ phase = "saved", NEW id \in Done
  PROVE  /\ SegmentEnd(Segment(id, BodyOf(id))) = EntryEnd(id)
         /\ mapArray[id].offset \in Nat /\ EntryEnd(id) \in Nat /\ EntryEnd(id) > mapArray[id].offset
<1>1. id \in DOMAIN mapArray /\ mapArray[id] \in MapEntry /\ ImageInv /\ FixedEntries
  <2>1. id \in Used
    BY ResourcesAreUsed DEF Done
  <2>2. QED
    BY <2>1 DEF Used, RepackInv, LayoutInv, TypeInv, TypeOK, EntriesInv, LaidOut
<1>2. CASE id = 0
  BY <1>1, <1>2 DEF SegmentEnd, Segment, BodyOf, Generated, Bytes, EntryEnd, kRIFXHeaderSize,
     kChunkHeaderSize, FixedEntries
<1>3. CASE id # 0
  <2>1. BodyOf(id).size = mapArray[id].len
    BY <1>1, <1>3 DEF ImageInv
  <2>2. QED
    BY <1>1, <1>3, <2>1 DEF SegmentEnd, Segment, EntryEnd, kChunkHeaderSize, MapEntry
<1>4. QED
  BY <1>2, <1>3

(* No two chunks that were written share a byte.                            *)
LEMMA SegmentsApart ==
  ASSUME RepackInv, phase = "writing" \/ phase = "saved",
         NEW j \in 1 .. Len(image), NEW k \in 1 .. Len(image), j # k
  PROVE  /\ \/ SegmentEnd(image[j]) <= image[k].offset
            \/ image[j].offset >= SegmentEnd(image[k])
         /\ image[j].offset # image[k].offset
<1>1. PICK a, b \in Done : a # b /\ IsWritten(j, a) /\ IsWritten(k, b)
  BY DEF RepackInv, ImageInv
<1>2. a \in Used /\ b \in Used /\ Apart(a, b)
  BY <1>1, ResourcesAreUsed DEF Done, RepackInv, LayoutInv, EntriesDisjoint
<1>3. /\ SegmentEnd(image[j]) = EntryEnd(a) /\ image[j].offset = mapArray[a].offset
      /\ SegmentEnd(image[k]) = EntryEnd(b) /\ image[k].offset = mapArray[b].offset
  BY <1>1, SegmentIsEntry DEF IsWritten, Segment
<1>4. /\ mapArray[a].offset \in Nat /\ EntryEnd(a) > mapArray[a].offset
      /\ mapArray[b].offset \in Nat /\ EntryEnd(b) > mapArray[b].offset
  BY <1>1, SegmentIsEntry
<1>5. EntryEnd(a) \in Nat /\ EntryEnd(b) \in Nat
  BY <1>1, SegmentIsEntry
<1>6. QED
  BY <1>2, <1>3, <1>4, <1>5 DEF Apart

(* Reading at the place of an entry gives what was written for it.          *)
LEMMA ReadsWhatWasWritten ==
  ASSUME RepackInv, phase = "writing" \/ phase = "saved", NEW id \in Done, id # 0
  PROVE  ReadChunkData(mapArray[id].offset, mapArray[id].fourCC, mapArray[id].len) = BodyOf(id)
<1> DEFINE offset == mapArray[id].offset
           fourCC == mapArray[id].fourCC
           len == mapArray[id].len
           Found(k) == Intact(k, offset, fourCC, len)
<1>1. ImageInv /\ Len(image) \in Nat
  BY DEF RepackInv, LayoutInv, TypeInv, TypeOK
<1>2. PICK k \in 1 .. Len(image) : IsWritten(k, id)
  BY <1>1 DEF ImageInv
<1>3. /\ image[k].offset = offset /\ image[k].fourCC = fourCC /\ image[k].len = len
      /\ image[k].body = BodyOf(id) /\ BodyOf(id).size = len
  BY <1>1, <1>2 DEF IsWritten, Segment, ImageInv
<1>4. \A j \in k + 1 .. Len(image) : \/ SegmentEnd(image[j]) <= offset
                                     \/ image[j].offset >= SegmentEnd(image[k])
  <2>1. ASSUME NEW j \in k + 1 .. Len(image)
        PROVE  j \in 1 .. Len(image) /\ j # k
    BY <1>1
  <2>2. QED
    BY <1>3, <2>1, SegmentsApart
<1>5. Found(k)
  BY <1>3, <1>4 DEF Intact
<1>6. ASSUME NEW j \in 1 .. Len(image), Found(j)
      PROVE  j = k
  BY <1>3, <1>6, SegmentsApart DEF Intact
<1> HIDE DEF Found
<1>7. k = CHOOSE j \in 1 .. Len(image) : Found(j)
  BY <1>5, <1>6
<1>8. QED
  BY <1>3, <1>5, <1>7 DEF ReadChunkData, Found

(* What a reader finds in the file that is about to be written.             *)
LEMMA ReopenedIsMovie ==
  ASSUME RepackInv, phase = "writing" \/ phase = "saved", rest = {}
  PROVE  Reopened = Movie /\ \A id \in DOMAIN Movie : Movie[id].data # Broken
<1>1. /\ ImageInv /\ FixedEntries /\ MapInv /\ EntriesInv /\ phase \notin Closed /\ phase # "placing"
      /\ Done = {0, 1, 2} \cup Resources /\ phase \in LaidOut
  BY DEF RepackInv, EntriesInv, LaidOut, Closed, Done
<1>2. ReadChunkData(kRIFXHeaderSize, "imap", InitialMapSize) = BodyOf(1)
  BY <1>1, ReadsWhatWasWritten DEF FixedEntries
<1>3. ReadChunkData(MmapOffset, "mmap", mapArray[2].len) = BodyOf(2)
  BY <1>1, ReadsWhatWasWritten DEF FixedEntries
<1>4. BodyOf(1) # Broken /\ BodyOf(2) # Broken
  BY <1>1 DEF ImageInv
<1>5. Used \ {0, 1, 2} = Resources /\ Resources = {e \in Entries : e > 2}
  BY <1>1, ResourcesAreUsed DEF MapInv, Resources
<1>6. Reopened = [id \in Resources |->
                    [fourCC |-> mapArray[id].fourCC,
                     data |-> ReadChunkData(mapArray[id].offset, mapArray[id].fourCC, mapArray[id].len)]]
  BY <1>2, <1>3, <1>4, <1>5 DEF Reopened
<1>7. ASSUME NEW id \in Resources
      PROVE  /\ mapArray[id].fourCC = LastListed(id).fourCC
             /\ ReadChunkData(mapArray[id].offset, mapArray[id].fourCC, mapArray[id].len)
                  = IF IsRewritten(id) THEN Rewritten(chunks[id]) ELSE Unread(id, LastListed(id))
             /\ BodyOf(id) = IF IsRewritten(id) THEN Rewritten(chunks[id])
                             ELSE Unread(id, LastListed(id))
             /\ BodyOf(id) # Broken
  <2>1. id \in Ids /\ id > 2 /\ id \in Nat /\ id \in Done /\ id \in DOMAIN mapArray \ {0, 1, 2}
    BY <1>1, <1>5, ResourcesAreUsed DEF Resources, RepackInv, LayoutInv, TypeInv, TypeOK, Used
  <2>2. chunkInfo[id] = LastListed(id) /\ GetChunkData(id) = Unread(id, LastListed(id))
    BY <1>1, <2>1, FetchedIsMovies DEF MapInv
  <2>3. mapArray[id].fourCC = chunkInfo[id].fourCC
    BY <1>1, <2>1 DEF EntriesInv
  <2>4. ReadChunkData(mapArray[id].offset, mapArray[id].fourCC, mapArray[id].len) = BodyOf(id)
    BY <2>1, ReadsWhatWasWritten
  <2>5. BodyOf(id) # Broken
    BY <1>1, <2>1 DEF ImageInv
  <2>6. QED
    BY <2>1, <2>2, <2>3, <2>4, <2>5 DEF BodyOf
<1>8. Movie = [id \in Resources |->
                 [fourCC |-> LastListed(id).fourCC,
                  data |-> IF IsRewritten(id) THEN Rewritten(chunks[id])
                           ELSE Unread(id, LastListed(id))]]
  BY <1>5 DEF Movie
<1>9. QED
  BY <1>6, <1>7, <1>8
-----------------------------------------------------------------------------
(* The steps of the abstract specification.                                 *)

(* The movie depends on the container and on the edits.                      *)
LEMMA SameMovie ==
  ASSUME UNCHANGED file,
         \A id : /\ IsRewritten(id)' <=> IsRewritten(id)
                 /\ IsRewritten(id) => Rewritten(chunks[id])' = Rewritten(chunks[id])
  PROVE  UNCHANGED Movie
<1>1. /\ UNCHANGED Entries
      /\ \A id : LastListed(id)' = LastListed(id) /\ Unread(id, LastListed(id))' = Unread(id, LastListed(id))
  BY DEF Entries, Resident, InMap, Listed, LastListed, Unread, FetchedAnew, Decoded,
     CompressionImplemented
<1>2. QED
  BY <1>1 DEF Movie

(* One chunk object is made or edited: the resource stays what it is of.    *)
LEMMA EditsOne ==
  ASSUME RepackInv, phase = "open", phase' = "open", UNCHANGED file,
         NEW id \in Ids, NEW chunk, chunks' = With(chunks, id, chunk),
         id \in DOMAIN chunks => chunks[id].fourCC = chunk.fourCC,
         chunk.fourCC \in Writable =>
           /\ IsRewritten(id) => Rewritten(chunks[id]) # Broken /\ chunk.was = chunks[id].was
           /\ ~IsRewritten(id) => GetChunkData(id) # Broken /\ chunk.was = GetChunkData(id)
  PROVE  UNCHANGED Movie \/ \E other \in DOMAIN Movie : Abstract!Edit(other)
<1>1. MapInv /\ phase \notin Closed /\ phase # "saved" /\ phase' # "saved"
  BY DEF RepackInv, Closed
<1>2. /\ DOMAIN chunks' = DOMAIN chunks \cup {id} /\ chunks'[id] = chunk
      /\ \A other \in DOMAIN chunks : other # id => chunks'[other] = chunks[other]
  BY DEF With
<1>3. \A other : other # id =>
        /\ IsRewritten(other)' <=> IsRewritten(other)
        /\ IsRewritten(other) => Rewritten(chunks[other])' = Rewritten(chunks[other])
  BY <1>2 DEF IsRewritten, Rewritten
<1>4. /\ UNCHANGED Entries
      /\ \A k : LastListed(k)' = LastListed(k) /\ Unread(k, LastListed(k))' = Unread(k, LastListed(k))
  BY DEF Entries, Resident, InMap, Listed, LastListed, Unread, FetchedAnew, Decoded,
     CompressionImplemented
<1>5. DOMAIN Movie' = DOMAIN Movie /\ \A other \in DOMAIN Movie : other # id => Movie'[other] = Movie[other]
  BY <1>3, <1>4 DEF Movie
<1>6. CASE id \notin DOMAIN Movie \/ chunk.fourCC \notin Writable
  <2>1. id \in DOMAIN Movie => Movie'[id] = Movie[id]
    BY <1>2, <1>4, <1>6 DEF Movie, IsRewritten
  <2>2. QED
    BY <1>4, <1>5, <2>1 DEF Movie
<1>7. CASE id \in DOMAIN Movie /\ chunk.fourCC \in Writable
  <2>1. GetChunkData(id) = Unread(id, LastListed(id))
    BY <1>1, FetchedIsMovies
  <2>2. /\ Movie[id].data = IF IsRewritten(id) THEN Rewritten(chunks[id]) ELSE GetChunkData(id)
        /\ Movie[id].fourCC = LastListed(id).fourCC
    BY <1>7, <2>1 DEF Movie
  <2>3. Movie'[id].data = Rewritten(chunk) /\ Movie'[id].fourCC = LastListed(id).fourCC
    BY <1>2, <1>4, <1>7 DEF Movie, IsRewritten, Rewritten
  <2>4. Movie[id].data # Broken /\ Movie'[id].data.of = Movie[id].data.of
    BY <1>7, <2>2, <2>3 DEF Rewritten
  <2>5. QED
    BY <1>1, <1>5, <1>7, <2>2, <2>3, <2>4 DEF Abstract!Edit
<1>8. QED
  BY <1>6, <1>7

(* A step edits one resource, stores the movie or changes nothing.         *)
LEMMA RepackStep ==
  ASSUME RepackInv, RepackInv', [Next]_vars
  PROVE  [Abstract!RepackNext]_<<Movie, IF phase = "saved" THEN Reopened ELSE NoOutput>>
<1> DEFINE output == IF phase = "saved" THEN Reopened ELSE NoOutput
<1>1. ASSUME UNCHANGED <<file, chunks>>, phase # "saved", phase' # "saved"
      PROVE  UNCHANGED <<Movie, output>>
  BY <1>1, SameMovie DEF IsRewritten, Rewritten
<1>2. ASSUME NEW id \in Ids, NEW fourCC \in Known, GetChunk(id, fourCC)
      PROVE  UNCHANGED <<Movie, output>> \/ Abstract!RepackNext
  <2>1. CASE Throws(id, fourCC)
    BY <1>1, <1>2, <2>1 DEF GetChunk, Abort
  <2>2. CASE ~Throws(id, fourCC)
    <3>1. /\ phase = "open" /\ phase' = "open" /\ UNCHANGED file
          /\ GetChunkData(id) # Broken /\ id \notin DOMAIN chunks
          /\ chunks' = With(chunks, id, Object(fourCC, GetChunkData(id)))
      BY <1>2, <2>2 DEF GetChunk, Throws
    <3>2. UNCHANGED Movie \/ \E other \in DOMAIN Movie : Abstract!Edit(other)
      BY <3>1, EditsOne DEF IsRewritten, Object
    <3>3. UNCHANGED output
      BY <3>1
    <3>4. QED
      BY <3>2, <3>3 DEF Abstract!RepackNext
  <2>3. QED
    BY <2>1, <2>2
<1>3. ASSUME NEW id \in Ids, NEW text \in Texts, SetText(id, text)
      PROVE  UNCHANGED <<Movie, output>> \/ Abstract!RepackNext
  <2> DEFINE chunk == [chunks[id] EXCEPT !.text = text]
  <2>1. /\ phase = "open" /\ phase' = "open" /\ UNCHANGED file
        /\ id \in DOMAIN chunks /\ chunks[id].fourCC \in Writable /\ chunks[id].was.editable
        /\ chunks' = [chunks EXCEPT ![id] = chunk]
    BY <1>3 DEF SetText
  <2>2. chunks[id] \in ChunkObject
    BY <2>1 DEF RepackInv, LayoutInv, TypeInv, TypeOK
  <2>3. chunk.fourCC = chunks[id].fourCC /\ chunk.was = chunks[id].was
    BY <2>2 DEF ChunkObject
  <2>4. chunks' = With(chunks, id, chunk)
    <3> HIDE DEF chunk
    <3>1. DOMAIN chunks \cup {id} = DOMAIN chunks
      BY <2>1
    <3>2. chunks' = [k \in DOMAIN chunks |-> IF k = id THEN chunk ELSE chunks[k]]
      BY <2>1
    <3>3. QED
      BY <3>1, <3>2 DEF With
  <2>5. IsRewritten(id) /\ Rewritten(chunks[id]) # Broken
    BY <2>1 DEF IsRewritten, Rewritten, Broken, Bytes
  <2>6. UNCHANGED Movie \/ \E other \in DOMAIN Movie : Abstract!Edit(other)
    <3> HIDE DEF chunk
    <3>1. QED
      BY <2>1, <2>3, <2>4, <2>5, EditsOne
  <2>7. UNCHANGED output
    BY <2>1
  <2>8. QED
    BY <2>6, <2>7 DEF Abstract!RepackNext
<1>4. CASE WriteFile
  <2>1. phase = "writing" /\ rest = {} /\ phase' = "saved" /\ rest' = {} /\ UNCHANGED <<file, chunks>>
    BY <1>4 DEF WriteFile
  <2>2. \A id \in DOMAIN Movie : Movie[id].data # Broken
    BY <2>1, ReopenedIsMovie
  <2>3. UNCHANGED Movie
    BY <2>1, SameMovie DEF IsRewritten, Rewritten
  <2>4. Reopened' = Movie
    <3>1. UNCHANGED <<chunkInfo, views, mapArray, image>>
      BY <1>4 DEF WriteFile
    <3>2. UNCHANGED Reopened
      BY <3>1 DEF Reopened, ReadChunkData, Intact, SegmentEnd, Used
    <3>3. QED
      BY <2>1, <3>2, ReopenedIsMovie
  <2>5. Abstract!Save
    BY <2>1, <2>2, <2>3, <2>4 DEF Abstract!Save
  <2>6. QED
    BY <2>5 DEF Abstract!RepackNext
<1>5. CASE MemoryMapRead
  <2>1. chunks = Nothing /\ DOMAIN chunks' = {1, 2}
        /\ \A id \in {1, 2} : chunks'[id].fourCC \in {"imap", "mmap"}
    BY <1>5 DEF RepackInv, MapInv, MemoryMapRead, Object
  <2>2. \A id : ~IsRewritten(id) /\ ~IsRewritten(id)'
    BY <2>1 DEF IsRewritten, Nothing, Writable
  <2>3. UNCHANGED Movie /\ phase # "saved" /\ phase' # "saved"
    BY <1>5, <2>2, SameMovie DEF MemoryMapRead
  <2>4. QED
    BY <2>3
<1>6. CASE Ended \/ UNCHANGED vars
  <2>1. UNCHANGED <<file, phase, chunks, image, mapArray>>
    BY <1>6 DEF Ended, vars
  <2>2. UNCHANGED <<Movie, output>>
    BY <2>1, SameMovie DEF IsRewritten, Rewritten, Reopened, ReadChunkData, Intact, SegmentEnd, Used
  <2>3. QED
    BY <2>2
<1>7. CASE ReadEntry \/ AfterburnerMapRead \/ LoadResident \/ SegmentRead
  BY <1>1, <1>7 DEF ReadEntry, AfterburnerMapRead, LoadResident, SegmentRead, Abort
<1>8. ASSUME NEW id \in Ids, DumpChunk(id) PROVE UNCHANGED <<Movie, output>>
  BY <1>1, <1>8 DEF DumpChunk, Abort
<1>9. CASE GenerateMemoryMap \/ CloseRIFX \/ Link \/ StartWriting
  BY <1>1, <1>9 DEF GenerateMemoryMap, CloseRIFX, Link, StartWriting
<1>10. ASSUME NEW id \in rest, Place(id) \/ WriteChunk(id) PROVE UNCHANGED <<Movie, output>>
  BY <1>1, <1>10 DEF Place, WriteChunk, Abort
<1>11. QED
  BY <1>2, <1>3, <1>4, <1>5, <1>6, <1>7, <1>8, <1>9, <1>10 DEF Next

(* Opening, fetching, editing, laying out and writing a movie of any size    *)
(* amount to one step that stores the movie as edited, and a file is only    *)
(* written when every resource could be read.                              *)
THEOREM ImplementsRepack == Spec => RepackSpec
<1>1. Init => Abstract!RepackInit
  BY DEF Init, Abstract!RepackInit
<1>2. QED
  BY <1>1, RepackInvInit, RepackInvNext, RepackStep, PTL DEF Spec, RepackSpec, Abstract!RepackSpec
=============================================================================

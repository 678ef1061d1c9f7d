------------------------------ MODULE CastMember ------------------------------
(***************************************************************************)
(* A cast member read from its bytes and written back: CastMemberChunk,    *)
(* CastInfoChunk and ListChunk of src/src/director/chunk.cpp, on the       *)
(* streams of src/src/common/stream.cpp.                                   *)
(*                                                                         *)
(* The bytes matter here: what is written finds its items again only by    *)
(* the lengths and offsets written with them, some of which Size stores in *)
(* the chunk for Write to use.  A member is read, its script text is       *)
(* replaced any number of times, its size is taken, it is written into a   *)
(* buffer of that size; the bytes written are what a later run reads.      *)
(***************************************************************************)
EXTENDS Integers, Sequences, SequencesExt, FiniteSetsExt

CONSTANTS
  Inputs,       (* Cast members as Director writes them: version and bytes. *)
  Texts,        (* Script texts that may be restored.                       *)
  MaxRewrites,  (* How often the file is decompiled.                        *)
  NoMember,     (* In place of the object of a chunk that is not read.      *)
  NoInfo,       (* In place of the info block of a member without one.      *)
  Unreadable    (* In place of what a member says that cannot be read.      *)

HeaderSize == 20
ScriptMemberType == 11

VARIABLES
  version,    (* Of the movie.                                              *)
  data,       (* The bytes of the chunk in the file.                        *)
  member,     (* The chunk object.                                          *)
  room,       (* Bytes set aside for it in the file that is laid out.       *)
  rewrites,   (* How many times it has been written.                        *)
  phase,      (* "stored", "open", "sized" or "aborted".                    *)
  said        (* History: what the member said when it was first read, with *)
              (* the texts set since.                                       *)

vars == <<version, data, member, room, rewrites, phase, said>>
-----------------------------------------------------------------------------
(***************************************************************************)
(* Streams: positions are counted from 0, numbers are big-endian.           *)
(***************************************************************************)
(* A view is not checked against the end.  No input leads a view past it;   *)
(* the bytes that are not there are left out.                              *)
ReadByteView(bytes, pos, len) ==
  SubSeq(bytes, pos + 1, IF pos + len <= Len(bytes) THEN pos + len ELSE Len(bytes))
Number(bytes) == FoldLeft(LAMBDA value, byte : 256 * value + byte, 0, bytes)
ReadUint(bytes, pos, width) == Number(ReadByteView(bytes, pos, width))
Uint(width, value) == [k \in 1 .. width |-> (value \div 256 ^ (width - k)) % 256]

(* A string read from a buffer ends at its first zero.                      *)
ReadString(bytes) ==
  LET zeros == {k \in DOMAIN bytes : bytes[k] = 0}
  IN  IF zeros = {} THEN bytes ELSE SubSeq(bytes, 1, Min(zeros) - 1)

PascalStringThrows(bytes) == bytes # <<>> /\ bytes[1] >= Len(bytes)
ReadPascalString(bytes) ==
  IF bytes = <<>> THEN <<>> ELSE ReadString(SubSeq(bytes, 2, bytes[1] + 1))
-----------------------------------------------------------------------------
(***************************************************************************)
(* The list of items and the info block that is such a list.  Items are     *)
(* counted from 0.                                                         *)
(***************************************************************************)
ReadItems(bytes) ==
  LET dataOffset == ReadUint(bytes, 0, 4)
      tableLen   == ReadUint(bytes, dataOffset, 2)
      list       == dataOffset + 2 + 4 * tableLen
      itemsLen   == ReadUint(bytes, list, 4)
      Offset(i)  == ReadUint(bytes, dataOffset + 2 + 4 * i, 4)
      End(i)     == IF i = tableLen - 1 THEN itemsLen ELSE Offset(i + 1)
  IN  [i \in 0 .. tableLen - 1 |->
         ReadByteView(bytes, list + 4 + Offset(i), End(i) - Offset(i))]

TableLenAsRead(items) == Cardinality(DOMAIN items)   (* without the workaround *)
(* The table gets an entry for the script text if it has none.              *)
TableLenFor(items) == IF DOMAIN items = {} THEN 1 ELSE Cardinality(DOMAIN items)

(* fields: unk1, unk2, flags and scriptId.                                  *)
ReadInfo(bytes) ==
  LET items == ReadItems(bytes)
      ItemOr(i) == IF i \in DOMAIN items THEN items[i] ELSE <<>>
  IN  [fields   |-> ReadByteView(bytes, 4, HeaderSize - 4),
       tableLen |-> TableLenFor(items),
       items    |-> items,
       text     |-> ReadString(ItemOr(0)),
       name     |-> ReadPascalString(ItemOr(1))]

InfoThrows(bytes) ==
  LET items == ReadItems(bytes) IN 1 \in DOMAIN items /\ PascalStringThrows(items[1])

NameItem(name) == IF name = <<>> THEN <<>> ELSE <<Len(name)>> \o name

Item(info, i) ==
  CASE i = 0 -> info.text
    [] i = 1 -> NameItem(info.name)
    [] OTHER -> info.items[i]

SizeWithPrefix(info, i) ==   (* counts a length byte for an empty name *)
  CASE i = 0 -> Len(info.text)
    [] i = 1 -> 1 + Len(info.name)
    [] OTHER -> Len(info.items[i])

ItemSize(info, i) ==
  CASE i = 0 -> Len(info.text)
    [] i = 1 -> IF info.name = <<>> THEN 0 ELSE 1 + Len(info.name)
    [] OTHER -> Len(info.items[i])
ItemSizeAsRead(info, i) == IF i \in DOMAIN info.items THEN Len(info.items[i]) ELSE 0

StaleOffset(info, i) == MapThenSumSet(LAMBDA j : ItemSizeAsRead(info, j), 0 .. i - 1)
(* updateOffsets: item i starts where the items before it end.              *)
OffsetOf(info, i) == MapThenSumSet(LAMBDA j : ItemSize(info, j), 0 .. i - 1)

ListSize(info) ==
  HeaderSize + (2 + 4 * info.tableLen) + (4 + OffsetOf(info, info.tableLen))

Each(info, Op(_)) == FlattenSeq([k \in 1 .. info.tableLen |-> Op(k - 1)])

WriteInfo(info) ==
     Uint(4, HeaderSize) \o info.fields
  \o Uint(2, info.tableLen) \o Each(info, LAMBDA i : Uint(4, OffsetOf(info, i)))
  \o Uint(4, OffsetOf(info, info.tableLen)) \o Each(info, LAMBDA i : Item(info, i))
-----------------------------------------------------------------------------
(***************************************************************************)
(* The member: before version 500 the type and a flag byte are counted as  *)
(* specific data, which comes before the info block.                       *)
(***************************************************************************)
Modern == version >= 500

(* Where the parts are: the info block, what follows type and flags.        *)
Parts ==
  IF Modern
  THEN [type     |-> ReadUint(data, 0, 4), flags |-> <<>>,
        info     |-> ReadByteView(data, 12, ReadUint(data, 4, 4)),
        specific |-> ReadByteView(data, 12 + ReadUint(data, 4, 4), ReadUint(data, 8, 4))]
  ELSE LET len   == ReadUint(data, 0, 2)
           flags == IF len > 1 THEN ReadByteView(data, 7, 1) ELSE <<>>
       IN  [type     |-> ReadUint(data, 6, 1), flags |-> flags,
            info     |-> ReadByteView(data, 6 + len, ReadUint(data, 2, 4)),
            specific |-> ReadByteView(data, 7 + Len(flags), len - 1 - Len(flags))]

ReadThrows ==
  LET parts == Parts
  IN  \/ parts.info # <<>> /\ InfoThrows(parts.info)
      \/ parts.type = ScriptMemberType /\ Len(parts.specific) < 2

SpecificDataLen(m) == Len(m.specific) + IF Modern THEN 0 ELSE 1 + Len(m.flags)

Opened ==
  LET parts == Parts
  IN  [type |-> parts.type, flags |-> parts.flags, specific |-> parts.specific,
       info |-> IF parts.info = <<>> THEN NoInfo ELSE ReadInfo(parts.info),
       infoLen |-> Len(parts.info), specificDataLen |-> SpecificDataLen(parts)]

InfoLenAsRead(m) == m.infoLen   (* takes the length the chunk was read with *)
InfoLen(m) == IF m.info = NoInfo THEN 0 ELSE ListSize(m.info)

Sized(m) == [m EXCEPT !.infoLen = InfoLen(m), !.specificDataLen = SpecificDataLen(m)]
SizeOf(m) == (IF Modern THEN 12 ELSE 6) + m.infoLen + m.specificDataLen

Image(m) ==
  LET info == IF m.info = NoInfo THEN <<>> ELSE WriteInfo(m.info)
  IN  IF Modern
      THEN Uint(4, m.type) \o Uint(4, m.infoLen) \o Uint(4, m.specificDataLen)
           \o info \o m.specific
      ELSE Uint(2, m.specificDataLen) \o Uint(4, m.infoLen)
           \o Uint(1, m.type) \o m.flags \o m.specific \o info
(* What a member says to Director: everything but the layout of its bytes.  *)
Meaning(m) ==
  [type |-> m.type, flags |-> m.flags, specific |-> m.specific,
   info |-> IF m.info = NoInfo THEN NoInfo
            ELSE [fields |-> m.info.fields, text |-> m.info.text, name |-> m.info.name,
                  others |-> [i \in DOMAIN m.info.items \ {0, 1} |-> m.info.items[i]]]]

Stored == IF ReadThrows THEN Unreadable ELSE Meaning(Opened)
-----------------------------------------------------------------------------
Read ==
  /\ phase = "stored"
  /\ rewrites < MaxRewrites
  /\ IF ReadThrows
     THEN phase' = "aborted" /\ UNCHANGED member
     ELSE phase' = "open" /\ member' = Opened
  /\ UNCHANGED <<version, data, room, rewrites, said>>

(* Without an info block there is only a warning.                           *)
SetScriptText(text) ==
  /\ phase = "open"
  /\ member.info # NoInfo
  /\ member' = [member EXCEPT !.info.text = text]
  /\ said' = [said EXCEPT !.info.text = text]
  /\ UNCHANGED <<version, data, room, rewrites, phase>>

Size ==
  /\ phase = "open"
  /\ member' = Sized(member)
  /\ room' = SizeOf(member')
  /\ phase' = "sized"
  /\ UNCHANGED <<version, data, rewrites, said>>

(* A write past the end of the buffer throws.                               *)
Write ==
  /\ phase = "sized"
  /\ IF Len(Image(member)) > room
     THEN phase' = "aborted" /\ UNCHANGED <<data, member, rewrites>>
     ELSE /\ data' = Image(member)
          /\ member' = NoMember
          /\ rewrites' = rewrites + 1
          /\ phase' = "stored"
  /\ UNCHANGED <<version, room, said>>

Ended ==
  /\ phase = "aborted" \/ (phase = "stored" /\ rewrites = MaxRewrites)
  /\ UNCHANGED vars

Init ==
  /\ \E input \in Inputs : version = input.version /\ data = input.data
  /\ member = NoMember
  /\ room = 0
  /\ rewrites = 0
  /\ phase = "stored"
  /\ said = Stored

Next ==
  \/ Read \/ Size \/ Write \/ Ended
  \/ \E text \in Texts : SetScriptText(text)

Spec == Init /\ [][Next]_vars
-----------------------------------------------------------------------------
(***************************************************************************)
(* Properties.                                                             *)
(***************************************************************************)
Bytes == Seq(0 .. 255)

TypeOK ==
  /\ phase \in {"stored", "open", "sized", "aborted"}
  /\ data \in Bytes /\ room \in Nat /\ rewrites \in 0 .. MaxRewrites
  /\ member # NoMember =>
       /\ member.flags \in Bytes /\ Len(member.flags) <= 1 /\ member.specific \in Bytes
       /\ member.info # NoInfo =>
            /\ member.info.tableLen \in Nat \ {0}
            /\ \A i \in 0 .. member.info.tableLen - 1 : Item(member.info, i) \in Bytes

(* The one thing that changes in a member is its script text, and only when *)
(* it is set: reading the bytes back that size and write produced, with     *)
(* new offsets, a new table or a new text length, finds every other item,  *)
(* name, flag and byte of specific data as it was, and the text as it was  *)
(* set (setScriptText and CastMemberChunk::write).                          *)
OnlyTheTextChanges ==
  /\ phase = "stored" => said = Stored
  /\ phase \in {"open", "sized"} => said = Meaning(member)

(* What is written fills the bytes Size sets aside for it: it is never too *)
(* long, which would throw, and the chunk behind it in the file starts     *)
(* right where it ends.                                                    *)
FillsItsRoom == phase = "sized" => phase' = "stored" /\ Len(data') = room
WriteFillsItsRoom == [][FillsItsRoom]_vars

(* Rewriting is done once: a member that has been written and is not given *)
(* another text is written byte for byte the same the next time.            *)
RewriteIsIdempotent ==
  rewrites > 0 /\ phase = "stored" =>
    ~ReadThrows /\ Image(Sized(Opened)) = data
=============================================================================

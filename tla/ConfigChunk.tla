------------------------------ MODULE ConfigChunk ------------------------------
(***************************************************************************)
(* The configuration of a movie: ConfigChunk of src/src/director/chunk.cpp. *)
(* It is read from its bytes, unprotected, and written back with a checksum *)
(* over its fields, in the arithmetic of 32-bit words.  What the fields are *)
(* depends on the version, which is one of them.                           *)
(***************************************************************************)
EXTENDS ByteStream, Words32

CONSTANTS
  Inputs,       (* [data, little]: the bytes of the chunk, and whether the   *)
                (* file is little-endian.                                   *)
  MaxRewrites,  (* How often the file is processed again.                   *)
  NoConfig,     (* In place of the object that is not read yet.             *)
  Unknown       (* A byte that is not in the chunk.                         *)

VARIABLES
  little,
  data,       (* The bytes of the chunk in the file.                        *)
  config,     (* The chunk object.                                          *)
  rewrites,   (* How often it has been written.                             *)
  phase,      (* "stored", "read", "unprotected", "crashed" or "thrown".     *)
  original    (* History: the bytes it had at first.                        *)

vars == <<little, data, config, rewrites, phase, original>>
-----------------------------------------------------------------------------
HumanVersion(ver) ==
  CASE ver < 0 \/ ver >= 1951 -> 1200   (* a negative one is unsigned *)
    [] ver \in 1922 .. 1950 -> 1150
    [] ver \in 1921 .. 1921 -> 1100
    [] ver \in 1851 .. 1920 -> 1000
    [] ver \in 1700 .. 1850 -> 850
    [] ver \in 1410 .. 1699 -> 800
    [] ver \in 1224 .. 1409 -> 700
    [] ver \in 1218 .. 1223 -> 600
    [] ver \in 1201 .. 1217 -> 500
    [] ver \in 1117 .. 1200 -> 404
    [] ver \in 1115 .. 1116 -> 400
    [] ver \in 1029 .. 1114 -> 310
    [] ver = 1028 -> 300
    [] OTHER -> 200

(* The fields in the order in which they are read and written: name, width,  *)
(* sign and the place at which the reads before it leave the cursor.        *)
Signed8(name, at) == <<name, 1, TRUE, at>>
Unsigned8(name, at) == <<name, 1, FALSE, at>>
Signed16(name, at) == <<name, 2, TRUE, at>>
Signed32(name, at) == <<name, 4, TRUE, at>>
Layout(ver) ==
  <<Signed16("len", 0), Signed16("fileVersion", 2), Signed16("movieTop", 4),
    Signed16("movieLeft", 6), Signed16("movieBottom", 8), Signed16("movieRight", 10),
    Signed16("minMember", 12), Signed16("maxMember", 14), Signed8("field9", 16), Signed8("field10", 17)>>
  \o (IF ver < 700 THEN <<Signed16("preD7field11", 18)>>
                   ELSE <<Unsigned8("D7stageColorG", 18), Unsigned8("D7stageColorB", 19)>>)
  \o <<Signed16("commentFont", 20), Signed16("commentSize", 22), <<"commentStyle", 2, FALSE, 24>>>>
  \o (IF ver < 700 THEN <<Signed16("preD7stageColor", 26)>>
                   ELSE <<Unsigned8("D7stageColorIsRGB", 26), Unsigned8("D7stageColorR", 27)>>)
  \o <<Signed16("bitDepth", 28), Unsigned8("field17", 30), Unsigned8("field18", 31),
       Signed32("field19", 32), Signed16("directorVersion", 36), Signed16("field21", 38),
       Signed32("field22", 40), Signed32("field23", 44), Signed32("field24", 48),
       Signed8("field25", 52), Unsigned8("field26", 53), Signed16("frameRate", 54),
       Signed16("platform", 56), Signed16("protection", 58), Signed32("field29", 60)>>

ChecksumAt == 64
FieldsEnd == 68

Field(bytes, f) ==
  LET here == BytesAt(bytes, f[4], f[2]) IN IF f[3] THEN Signed(here) ELSE Unsigned(here)

Fields(bytes) ==
  LET layout  == Layout(HumanVersion(ReadInt16(bytes, 36)))
      Name(i) == layout[i][1]
  IN  [name \in {Name(i) : i \in DOMAIN layout} |->
         LET i == CHOOSE i \in DOMAIN layout : Name(i) = name
         IN  Field(bytes, layout[i])]

RemnantsOfLen(bytes, len) ==   (* forgets that the fields count *)
  [k \in 1 .. len |-> IF Holds(bytes, FieldsEnd, k) THEN bytes[FieldsEnd + k] ELSE Unknown]
(* The view after the fields is not compared with the end.                  *)
Remnants(bytes, len) ==
  [k \in 1 .. len - FieldsEnd |-> IF Holds(bytes, FieldsEnd, k) THEN bytes[FieldsEnd + k] ELSE Unknown]
-----------------------------------------------------------------------------
(***************************************************************************)
(* The checksum; c is the fields of a configuration.                       *)
(***************************************************************************)
TopDivisorByFive(c) == c["movieTop"] + 5   (* another number *)
TopDivisor(c) == c["movieTop"] + 3
BottomDivisor(c) == c["movieBottom"] + 5
DividesByZero(c) == TopDivisor(c) = 0 \/ BottomDivisor(c) = 0

SignedHalf(n) == IF n >= 32768 THEN n - 65536 ELSE n
Operand11(c, ver) ==
  IF ver < 700 THEN c["preD7field11"]
  ELSE SignedHalf(IF little THEN 256 * c["D7stageColorB"] + c["D7stageColorG"]
                            ELSE 256 * c["D7stageColorG"] + c["D7stageColorB"])
Operand14(c, ver) == IF ver < 800 THEN c["commentStyle"] \div 256 ELSE c["commentStyle"]
Operand15(c, ver) == IF ver < 700 THEN c["preD7stageColor"] ELSE c["D7stageColorR"]

(* Each step applies an operation with a field and the number of the step.   *)
Plus(check, n, step) == Add(check, Word(n + step))
(* A 32-bit field: where the sum with the number passes 2^31, the build      *)
(* wraps.                                                                  *)
PlusWide(check, n, step) == Add(check, Add(Word(n), Word(step)))
Less(check, n, step) == Subtract(check, Word(n + step))
Times(check, n, step) == Multiply(check, Word(n + step))

Ralf == <<114, 97, 108, 102>>
KeyBase == <<255, 69, 0, 0>>         (* 0xFF450000 *)
Key(protection) == Add(Multiply(Word(protection), Word(3590)), KeyBase)   (* 0xE06 *)

Checksum(c) ==
  LET ver == HumanVersion(c["directorVersion"])
      s2  == Times(Word(c["len"] + 1), c["fileVersion"], 2)
      s4  == Times(Divide(s2, TopDivisor(c)), c["movieLeft"], 4)
      s6  == Times(Divide(s4, BottomDivisor(c)), c["movieRight"], 6)
      s8  == Times(Less(s6, c["minMember"], 7), c["maxMember"], 8)
      s10 == Less(Less(s8, c["field9"], 9), c["field10"], 10)
      s12 == Times(Plus(s10, Operand11(c, ver), 11), c["commentFont"], 12)
      s14 == Times(Plus(s12, c["commentSize"], 13), Operand14(c, ver), 14)
      s16 == Plus(Plus(s14, Operand15(c, ver), 15), c["bitDepth"], 16)
      s18 == Times(Plus(s16, c["field17"], 17), c["field18"], 18)
      s20 == Times(PlusWide(s18, c["field19"], 19), c["directorVersion"], 20)
      s22 == PlusWide(Plus(s20, c["field21"], 21), c["field22"], 22)
      s24 == PlusWide(PlusWide(s22, c["field23"], 23), c["field24"], 24)
      s26 == Plus(Times(s24, c["field25"], 25), c["frameRate"], 26)
      s28 == Multiply(Times(s26, c["platform"], 27), Key(c["protection"]))
  IN  Xor(s28, Ralf)
-----------------------------------------------------------------------------
(***************************************************************************)
(* Reading, unprotecting and writing.                                      *)
(***************************************************************************)
StoredChecksum(bytes) == BytesAt(bytes, ChecksumAt, 4)

Stop(how) == phase' = how /\ UNCHANGED <<little, data, config, rewrites, original>>

Read ==
  /\ phase = "stored"
  /\ rewrites < MaxRewrites
  /\ IF ~Holds(data, 0, FieldsEnd) THEN Stop("thrown")
     ELSE IF DividesByZero(Fields(data)) THEN Stop("crashed")
     ELSE LET c == Fields(data)
          IN  /\ config' = [fields |-> c, remnants |-> Remnants(data, c["len"]),
                            warned |-> StoredChecksum(data) # Checksum(c)]
              /\ phase' = "read"
              /\ UNCHANGED <<little, data, rewrites, original>>

UnprotectedEachTime(c) == [c EXCEPT !["fileVersion"] = c["directorVersion"], !["protection"] = @ + 1]
Unprotected(c) ==
  [c EXCEPT !["fileVersion"] = c["directorVersion"],
            !["protection"] = IF @ % 23 = 0 THEN @ + 1 ELSE @]

Unprotect ==
  /\ phase = "read"
  /\ config' = [config EXCEPT !.fields = Unprotected(@)]
  /\ phase' = "unprotected"
  /\ UNCHANGED <<little, data, rewrites, original>>

NumberBytes(width, value) == [k \in 1 .. width |-> (value \div 256 ^ (width - k)) % 256]

ChecksumAsRead(c) == StoredChecksum(data)   (* forgets to compute it again *)
ChecksumToWrite(c) == Checksum(c)

Written(c, remnants) ==
  LET layout == Layout(HumanVersion(c["directorVersion"]))
  IN  FlattenSeq([i \in DOMAIN layout |-> NumberBytes(layout[i][2], c[layout[i][1]])])
      \o ChecksumToWrite(c) \o remnants

(* With fewer bytes than fields, the rest has a negative length, which is    *)
(* past the end of every file.                                             *)
Write ==
  /\ phase = "unprotected"
  /\ IF config.fields["len"] < FieldsEnd THEN Stop("thrown")
     ELSE /\ data' = Written(config.fields, config.remnants)
          /\ config' = NoConfig
          /\ rewrites' = rewrites + 1
          /\ phase' = "stored"
          /\ UNCHANGED <<little, original>>

Init ==
  /\ \E input \in Inputs : little = input.little /\ data = input.data
  /\ config = NoConfig
  /\ rewrites = 0
  /\ phase = "stored"
  /\ original = data

Next == Read \/ Unprotect \/ Write
Spec == Init /\ [][Next]_vars
-----------------------------------------------------------------------------
(***************************************************************************)
(* Type invariant.                                                         *)
(***************************************************************************)
TypeOK ==
  /\ little \in BOOLEAN
  /\ \A k \in DOMAIN data : data[k] = Unknown \/ data[k] \in 0 .. 255
  /\ rewrites \in 0 .. MaxRewrites
  /\ phase \in {"stored", "read", "unprotected", "crashed", "thrown"}
  /\ phase \in {"read", "unprotected"} => config # NoConfig
  /\ config # NoConfig =>
       config.fields["protection"] \in -32768 .. 32767 /\ config.fields["len"] \in -32768 .. 32767

AsLongAsItSays(bytes) == Len(bytes) >= FieldsEnd /\ ReadInt16(bytes, 0) \in FieldsEnd .. Len(bytes)
Rewritten == phase = "stored" /\ rewrites > 0

(***************************************************************************)
(* What is written opens without a complaint: its checksum is that of the   *)
(* fields a reader finds in it, which were changed after it was read and    *)
(* narrowed to their widths when they were written.                        *)
(***************************************************************************)
ChecksumIsOfWhatIsWritten == Rewritten => StoredChecksum(data) = Checksum(Fields(data))

(***************************************************************************)
(* Unprotecting changes the file version, the protection and the checksum   *)
(* and no other byte, whatever the version makes of the others; the written *)
(* protection is not one that Director refuses.                            *)
(***************************************************************************)
ProtectionPlaces == {3, 4, 59, 60} \cup ChecksumAt + 1 .. ChecksumAt + 4
OnlyProtectionChanges ==
  Rewritten /\ AsLongAsItSays(original) =>
    /\ Len(data) = ReadInt16(original, 0)
    /\ \A k \in DOMAIN data \ ProtectionPlaces : data[k] = original[k]
    /\ ReadInt16(data, 58) % 23 # 0
    /\ ReadInt16(data, 2) = ReadInt16(data, 36)

(***************************************************************************)
(* A movie that is processed again is not changed again.                    *)
(***************************************************************************)
WritesTheSame == rewrites > 0 /\ rewrites' # rewrites => data' = data
RewriteIsStable == [][WritesTheSame]_vars

(***************************************************************************)
(* The run ends early only for a stage whose top is -3 or whose bottom is    *)
(* -5 (the checksum divides by it), a chunk without all its fields, or a     *)
(* length that does not cover them.                                        *)
(***************************************************************************)
EndsForAReason ==
  /\ phase = "crashed" => ReadInt16(original, 4) = -3 \/ ReadInt16(original, 8) = -5
  /\ phase = "thrown" => Len(original) < FieldsEnd \/ ReadInt16(original, 0) < FieldsEnd
=============================================================================

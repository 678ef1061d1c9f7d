------------------------------- MODULE JsonCalls -------------------------------
(***************************************************************************)
(* A JSON writer and whoever calls it: the dumps of chunk.cpp open and close *)
(* in pairs, and write a key before every value of an object.              *)
(***************************************************************************)
EXTENDS JsonWriter, JsonReader

CONSTANTS
  Keys,         (* What keys may be: sequences of bytes.                     *)
  Strings,      (* What strings may be.                                     *)
  LoneStrings,  (* What a string may also be when it is all there is.        *)
  LineEndings,  (* kPlatformLineEnding: of one byte or of two.               *)
  MaxCalls,
  MaxDepth
ASSUME CallAssumption ==
  /\ MaxCalls \in Nat /\ MaxDepth \in Nat
  /\ Keys \cup Strings \cup LoneStrings \subseteq Seq(0 .. 255)
  /\ LineEndings \subseteq {<<10>>, <<13, 10>>}

VARIABLES
  json,
  nest,       (* The braces that wait for their end.                        *)
  calls       (* As JsonReader names them.                                  *)
vars == <<json, nest, calls>>
-----------------------------------------------------------------------------
Finished == calls # <<>> /\ nest = <<>>
AfterKey == calls # <<>> /\ calls[Len(calls)][1] = "key"
MayWriteValue ==
  IF nest = <<>> THEN calls = <<>> ELSE Innermost(nest) = Mark(91) \/ AfterKey

Call(call) == Len(calls) < MaxCalls /\ calls' = Append(calls, call)

CallStart(brace) ==
  /\ MayWriteValue /\ Len(nest) < MaxDepth
  /\ Call(Mark(brace))
  /\ nest' = Append(nest, Mark(brace))
CallEnd(brace, end) ==
  /\ nest # <<>> /\ Innermost(nest) = Mark(brace) /\ ~AfterKey
  /\ Call(Mark(end))
  /\ nest' = Outer(nest)

CallStartObject == CallStart(123) /\ json' = StartObject(json)
CallEndObject == CallEnd(123, 125) /\ json' = EndObject(json)
CallStartArray == CallStart(91) /\ json' = StartArray(json)
CallEndArray == CallEnd(91, 93) /\ json' = EndArray(json)

CallWriteKey ==
  /\ nest # <<>> /\ Innermost(nest) = Mark(123) /\ ~AfterKey
  /\ \E key \in Keys : Call(<<"key", key>>) /\ json' = WriteKey(json, key)
  /\ UNCHANGED nest

CallWriteVal ==
  /\ MayWriteValue
  /\ \/ \E str \in Strings \cup (IF calls = <<>> THEN LoneStrings ELSE {}) :
          Call(<<"string", str>>) /\ json' = WriteVal(json, str)
     \/ Call(<<"word", "null">>) /\ json' = WriteWord(json, "null")
  /\ UNCHANGED nest

Init == (\E lineEnding \in LineEndings : json = JsonStart(lineEnding)) /\ nest = <<>> /\ calls = <<>>
Next ==
  CallStartObject \/ CallEndObject \/ CallStartArray \/ CallEndArray \/ CallWriteKey \/ CallWriteVal
Spec == Init /\ [][Next]_vars
-----------------------------------------------------------------------------
(***************************************************************************)
(* Properties.                                                             *)
(***************************************************************************)
Types ==
  /\ \A k \in DOMAIN json.stream : json.stream[k][1] \in {"c", "word"}
  /\ json.context \in {"start", "openBrace", "key", "value"}
  /\ json.indentationLevel \in 0 .. MaxDepth
  /\ \A k \in DOMAIN nest : nest[k] \in {Mark(123), Mark(91)}
  /\ Len(calls) <= MaxCalls

(* A dump that is finished is JSON, and says what its calls wrote, whatever *)
(* bytes the strings are made of and however they are nested (JSONWriter,   *)
(* escapeString): no comma is missing or too many, no string ends early.    *)
(* It is of the variant json.h:16-24 describes unless a string has the byte  *)
(* 127: that one is not printable and is written as it is (util.cpp:72), and *)
(* no other such byte is.                                                  *)
Delete == 127
BytesOf(call) ==
  IF call[1] \in {"key", "string"} THEN {call[2][k] : k \in DOMAIN call[2]} ELSE {}
BytesOfAll(cs) == UNION {BytesOf(cs[k]) : k \in DOMAIN cs}
DumpReadsBack ==
  Finished =>
    /\ Parsed(json.stream) = calls
    /\ UnlistedBytes(json.stream) = {Delete} \cap BytesOfAll(calls)

(* The counters of the code writer are what they say: the length of the     *)
(* text, the width of its last line, and how many braces are open, which    *)
(* the layout of a line of bytecode relies on (CodeWriter).                *)
LastLine ==
  LET ends == {k \in DOMAIN json.stream : json.stream[k] = Char(10)}
  IN  IF ends = {} THEN json.stream
      ELSE SubSeq(json.stream, (CHOOSE k \in ends : \A l \in ends : l <= k) + 1, Len(json.stream))
CountersAreTrue ==
  /\ Types
  /\ json.size = Len(json.stream)
  /\ json.lineWidth = Len(LastLine)
  /\ json.indentationLevel = Len(nest)
=============================================================================

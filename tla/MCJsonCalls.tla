------------------------------ MODULE MCJsonCalls ------------------------------
EXTENDS JsonCalls
MCKeys == {<<97>>, <<34, 92>>}
(* Strings of bytes that are escaped and bytes that are not.                *)
MCStrings == {<<>>, <<97>>, <<92, 110, 10>>, <<233, 65>>}
(* Every byte, alone and before what could be taken for the rest of its       *)
(* escape.                                                                 *)
EveryByte ==
  {<<byte>> : byte \in 0 .. 255}
  \cup {<<byte, next>> : byte \in 0 .. 255, next \in {34, 52, 65, 92, 110, 120}}
MCLineEndings == {<<10>>, <<13, 10>>}
=============================================================================

-------------------------------- MODULE Repack --------------------------------
(***************************************************************************)
(* What a decompiled file promises: whatever container the movie came in,  *)
(* the file written back holds under every resource id the resource the    *)
(* movie had there, with the edits made to it in between, and a file is     *)
(* written only when every resource could be read.                         *)
(***************************************************************************)
CONSTANTS
  Broken,    (* In place of the content of an unreadable resource.          *)
  NoOutput   (* Before a file is written.                                   *)

VARIABLES
  table,     (* The resources of the movie by id: four-character code, data *)
  output     (* The resources a reader finds in the file written.           *)

(* A resource that can be read is replaced only by an edit of itself.        *)
Edit(id) ==
  /\ output = NoOutput
  /\ table[id].data # Broken
  /\ DOMAIN table' = DOMAIN table
  /\ \A other \in DOMAIN table : other # id => table'[other] = table[other]
  /\ table'[id].fourCC = table[id].fourCC
  /\ table'[id].data.of = table[id].data.of
  /\ UNCHANGED output

Save ==
  /\ output = NoOutput
  /\ \A id \in DOMAIN table : table[id].data # Broken
  /\ output' = table
  /\ UNCHANGED table

RepackInit == output = NoOutput
RepackNext == Save \/ \E id \in DOMAIN table : Edit(id)
RepackSpec == RepackInit /\ [][RepackNext]_<<table, output>>
=============================================================================

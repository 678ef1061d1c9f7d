---------------------------- MODULE MCDirectorFile ----------------------------
(***************************************************************************)
(* Small containers for DirectorFileRepack: every way a resource is stored, *)
(* in every place of a directory with gaps.                                *)
(***************************************************************************)
EXTENDS DirectorFileRepack

CONSTANT Slots   (* How many resources a container has besides the fixed ones *)

Stored(of, fourCC, size, text) ==
  [fourCC |-> fourCC, len |-> size, uncompressedLen |-> size, compressionID |-> "none",
   stored |-> [of |-> of, size |-> size, text |-> text, growth |-> 0,
               editable |-> fourCC \in {"CASt", "DRCF"}],
   unpacked |-> Broken, intact |-> TRUE]

Packed(of, fourCC, compression, len, size, text) ==
  [fourCC |-> fourCC, len |-> len, uncompressedLen |-> size, compressionID |-> compression,
   stored |-> Bytes("packed", len), intact |-> TRUE,
   unpacked |-> [of |-> of, size |-> size, text |-> text, growth |-> 0,
                 editable |-> fourCC \in {"CASt", "DRCF"}]]

Member  == Stored("member", "CASt", 30, 4)
(* A member without an offset table: it is written with one of length 1.    *)
Bare    == [Stored("bare", "CASt", 26, 0) EXCEPT !.stored.growth = 4]
(* One whose info has bytes no item covers; one that has no info.           *)
Padded  == [Member EXCEPT !.stored.growth = -3]
NoInfo  == [Stored("noinfo", "CASt", 12, 0) EXCEPT !.stored.editable = FALSE]
Config  == Stored("config", "DRCF", 84, 0)
Media   == Stored("media", "BITD", 7, 0)
Empty   == Stored("empty", "Sord", 0, 0)
Damaged == [Member EXCEPT !.intact = FALSE]
Free    == Stored("nothing", "free", 0, 0)

ZMember == Packed("member", "CASt", "zlib", 11, 30, 4)
ZConfig == Packed("config", "DRCF", "zlib", 50, 84, 0)
Sound   == Packed("sound", "snd ", "snd", 9, 40, 0)
Fonts   == Packed("fonts", "Fmap", "fontmap", 3, 3, 0)
Foreign == Packed("foreign", "XTRA", "unhandled", 5, 12, 0)
Short   == [ZMember EXCEPT !.unpacked.size = 29]
Corrupt == [Packed("media", "BITD", "zlib", 6, 7, 0) EXCEPT !.unpacked = Broken]

At(id, r) == [id |-> id, fourCC |-> r.fourCC, len |-> r.len,
              uncompressedLen |-> r.uncompressedLen, compressionID |-> r.compressionID,
              stored |-> r.stored, unpacked |-> r.unpacked, intact |-> r.intact]

Header == <<At(0, Stored("RIFX", "RIFX", 4, 0)), At(1, Stored("imap", "imap", 24, 0)),
            At(2, Stored("mmap", "mmap", 84, 0))>>
MemoryMaps ==
  {[afterburned |-> FALSE, ils |-> <<>>,
    map |-> Header \o [k \in 1 .. Slots |-> At(k + 2, slots[k])]] :
      slots \in [1 .. Slots -> {Member, Bare, Padded, NoInfo, Config, Media, Damaged, Free}]}

Ils == At(2, Packed("ils", "ILS ", "zlib", 20, 40, 0))

(* Ids 4, 6, ... so that the map has free entries between them; the last   *)
(* resource can be loaded from the initial load segment.                   *)
AfterburnerMaps ==
  {[afterburned |-> TRUE, ils |-> <<>>,
    map |-> <<Ils>> \o [k \in 1 .. Slots |-> At(2 * k + 2, slots[k])]] :
      slots \in [1 .. Slots -> {ZMember, ZConfig, Media, Sound, Fonts, Foreign, Empty, Short, Corrupt}]}

(* Chunks of the initial load segment: in the map, or missing from it.      *)
WithSegment ==
  {[afterburned |-> TRUE, ils |-> ids,
    map |-> <<Ils, At(4, a), At(5, Member), At(4, b)>>] :
      ids \in {<<5>>, <<5, 7>>, <<9, 5>>}, a \in {ZMember, Fonts}, b \in {ZMember, Media}}

(* No initial load segment.                                                *)
Stray == [afterburned |-> TRUE, ils |-> <<>>, map |-> <<At(4, ZMember)>>]

MCFiles == MemoryMaps \cup AfterburnerMaps \cup WithSegment \cup {Stray}
MCNames == {"RIFX", "imap", "mmap", "free", "0000", "nothing", "broken", "fontmap",
            "member", "bare", "noinfo", "config", "media", "empty", "sound", "fonts", "foreign",
            "packed", "ils", "CASt", "DRCF", "BITD", "Sord", "snd ", "Fmap", "XTRA", "ILS "}
MCTexts == {0, 3, 40}
=============================================================================

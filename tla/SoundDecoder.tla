----------------------------- MODULE SoundDecoder -----------------------------
(***************************************************************************)
(* Sounds of a compressed movie: decompressSnd and decodeMP3 of            *)
(* src/src/director/sound.cpp, and getChunkData of dirfile.cpp, which calls *)
(* them with a buffer of the length the chunk map announces.               *)
(*                                                                         *)
(* Bytes are known by where they come from.  libmpg123 is external: it      *)
(* opens the data or does not, finds a format, and then delivers the bytes  *)
(* of the sound in order, at most as many as it is asked for and at least   *)
(* one, until it says it is done or gives an error.                        *)
(***************************************************************************)
EXTENDS Integers, Sequences

CONSTANTS Chunks      (* The sounds of the movie: see TypeOK.                *)

VARIABLES
  chunk,
  pc,
  inPos,      (* Bytes of the chunk read, past its end if a view was.        *)
  out,        (* What is written: runs [of, from, at, len] of bytes of the  *)
              (* chunk ("in") or of the decoded sound ("pcm"), each at its   *)
              (* place in the buffer.                                      *)
  outPos,     (* Bytes of the buffer that are written.                      *)
  err,        (* What libmpg123 said last.                                  *)
  handle,     (* "none", "open" or "released".                              *)
  bytesToSkip,
  bytesToRead,
  decoded,    (* How much of the sound libmpg123 has delivered.             *)
  result      (* What decompressSnd returns.                                *)

vars == <<chunk, pc, inPos, out, outPos, err, handle, bytesToSkip, bytesToRead, decoded, result>>
-----------------------------------------------------------------------------
(***************************************************************************)
(* The header.                                                             *)
(***************************************************************************)
Times(n, fields) ==
  [k \in 1 .. n * Len(fields) |-> fields[((k - 1) % Len(fields)) + 1]]
Extended == chunk.encode \in {"extended", "compressed"}    (* 0xFF, 0xFD. *)
AIFFSampleRate == 10     (* The width of the one field that is a view.      *)

NoExtendedFields == <<4, AIFFSampleRate, 4, 4, 4, 2, 2>>   (* forgets the future uses *)
ExtendedFields == <<4, AIFFSampleRate, 4, 4, 4, 2, 2, 4, 4, 4>>

(* The widths of its fields, in order.                                     *)
Fields ==
  (IF chunk.format = 1 THEN <<2, 2>> \o Times(chunk.count, <<2, 4>>) ELSE <<2, 2>>)
  \o <<2>> \o Times(chunk.commands, <<2, 2, 4>>)
  \o <<4, 4, 2, 2, 4, 4, 1, 1>>
  \o (IF Extended THEN ExtendedFields ELSE <<>>)

NumChannels == IF Extended THEN chunk.channels ELSE 1
SampleSize == IF Extended THEN chunk.sampleSize ELSE 8

SamplesToBytesMono(samples, channels, sampleSize) ==     (* forgets the channels *)
  samples * (IF sampleSize = 16 THEN 2 ELSE 1)
SamplesToBytes(samples, channels, sampleSize) ==
  samples * (IF channels = 2 THEN 2 ELSE 1) * (IF sampleSize = 16 THEN 2 ELSE 1)
-----------------------------------------------------------------------------
Run(of, from, len) == [of |-> of, from |-> from, at |-> outPos, len |-> len]

ReturnOf(value, handle1) == pc' = "returned" /\ result' = value /\ handle' = handle1
Throw == pc' = "thrown" /\ UNCHANGED <<result, handle>>

Start ==
  /\ pc = "start"
  /\ IF chunk.size = 0 THEN ReturnOf(0, handle)
     ELSE pc' = "header" /\ UNCHANGED <<result, handle>>
  /\ UNCHANGED <<chunk, inPos, out, outPos, err, bytesToSkip, bytesToRead, decoded>>

(* A view is not checked against the end of the chunk.                     *)
ReadFails(width) == width # AIFFSampleRate /\ inPos + width > chunk.size
WriteFails(width) == outPos + width > chunk.uncompressedLen

CopyField ==
  /\ pc = "header" /\ Len(out) < Len(Fields)
  /\ LET width == Fields[Len(out) + 1]
     IN  /\ inPos' = inPos + width
         /\ IF ReadFails(width) \/ WriteFails(width)
            THEN Throw /\ UNCHANGED <<out, outPos>>
            ELSE /\ out' = Append(out, Run("in", inPos, width))
                 /\ outPos' = outPos + width
                 /\ UNCHANGED <<pc, result, handle>>
  /\ UNCHANGED <<chunk, err, bytesToSkip, bytesToRead, decoded>>

(* The number of samples to skip is read and not written; the rest of the   *)
(* chunk is the MP3 data.                                                  *)
SkipSamplesWidth == 4
AfterHeader ==
  /\ pc = "header" /\ Len(out) = Len(Fields)
  /\ IF chunk.encode = "unknown" THEN ReturnOf(-1, handle) /\ UNCHANGED inPos
     ELSE /\ inPos' = inPos + SkipSamplesWidth
          /\ IF ReadFails(SkipSamplesWidth) THEN Throw
             ELSE pc' = "open" /\ UNCHANGED <<result, handle>>
  /\ UNCHANGED <<chunk, out, outPos, err, bytesToSkip, bytesToRead, decoded>>
-----------------------------------------------------------------------------
(***************************************************************************)
(* decodeMP3.                                                              *)
(***************************************************************************)
ToDecode == chunk.audio - decoded

(* mpg123_init, mpg123_new and the calls up to mpg123_getformat: each but    *)
(* one is checked and may fail.  What mpg123_param returns is not looked at: *)
(* after a failure decoding goes on as after a success, with the samples in  *)
(* the byte order of the machine and free to change their format, which are  *)
(* both below what a sample is here.                                        *)
Open ==
  /\ pc = "open"
  /\ bytesToRead' = chunk.uncompressedLen - outPos
  /\ \/ ReturnOf(-1, "none") /\ UNCHANGED err
     \/ err' = "error" /\ ReturnOf(-1, "released")
     \/ /\ err' \in IF ToDecode = 0 THEN {"ok", "done"} ELSE {"ok"}
        /\ pc' = "format" /\ handle' = "open" /\ UNCHANGED result
  /\ UNCHANGED <<chunk, inPos, out, outPos, bytesToSkip, decoded>>

ExpectedEncoding == IF SampleSize = 8 THEN 8 ELSE 16
FormatDiffers ==
  \/ chunk.found.rateDiffers
  \/ chunk.found.channels # NumChannels
  \/ chunk.found.encoding # ExpectedEncoding

(* A sound of another format is given up with the handle open.             *)
CheckFormat ==
  /\ pc = "format"
  /\ IF FormatDiffers THEN ReturnOf(-1, handle) /\ UNCHANGED bytesToSkip
     ELSE /\ bytesToSkip' = SamplesToBytes(chunk.skip, NumChannels, SampleSize)
          /\ pc' = "skip" /\ UNCHANGED <<result, handle>>
  /\ UNCHANGED <<chunk, inPos, out, outPos, err, bytesToRead, decoded>>

(* mpg123_read.                                                            *)
Deliver(asked, err1, done) ==
  /\ err = "done" => err1 = "done"
  /\ \/ /\ ToDecode > 0 /\ err1 = "ok"
        /\ done \in 1 .. (IF asked < ToDecode THEN asked ELSE ToDecode)
        /\ chunk.short \/ done = asked
     \/ err1 = "done" /\ done = ToDecode /\ done <= asked
     \/ err1 = "error" /\ done = 0

(* The length of the buffer that takes what is skipped.                    *)
Garbage == SamplesToBytes(chunk.skip, NumChannels, SampleSize)

SkipUntilNone == bytesToSkip # 0        (* forgets that the sound may end *)
SkipGoesOn == bytesToSkip # 0 /\ err # "done"
StillToSkipOnce(done) == 0              (* trusts one read to be enough *)
StillToSkip(done) == bytesToSkip - done

(* bytesToSkip has no sign: once below zero it stays until the sound ends.  *)
Skip ==
  /\ pc = "skip"
  /\ IF SkipGoesOn
     THEN \E done \in 0 .. chunk.audio :
       /\ Deliver(Garbage, err', done)
       /\ decoded' = decoded + done
       /\ IF err' = "error" THEN ReturnOf(-1, "released") /\ UNCHANGED bytesToSkip
          ELSE bytesToSkip' = StillToSkip(done) /\ UNCHANGED <<pc, result, handle>>
     ELSE pc' = "decode" /\ UNCHANGED <<err, bytesToSkip, decoded, result, handle>>
  /\ UNCHANGED <<chunk, inPos, out, outPos, bytesToRead>>

StillToRead(done) == bytesToRead - done

Decode ==
  /\ pc = "decode"
  /\ IF bytesToRead # 0 /\ err # "done"
     THEN \E done \in 0 .. chunk.audio :
       /\ Deliver(bytesToRead, err', done)
       /\ out' = IF done = 0 THEN out ELSE Append(out, Run("pcm", decoded, done))
       /\ outPos' = outPos + done
       /\ decoded' = decoded + done
       /\ IF err' = "error" THEN ReturnOf(-1, "released") /\ UNCHANGED bytesToRead
          ELSE bytesToRead' = StillToRead(done) /\ UNCHANGED <<pc, result, handle>>
     ELSE /\ ReturnOf(chunk.uncompressedLen, "released")
          /\ UNCHANGED <<out, outPos, err, bytesToRead, decoded>>
  /\ UNCHANGED <<chunk, inPos, bytesToSkip>>
-----------------------------------------------------------------------------
(* getChunkData, with what decompressSnd returns.                          *)
ResultIsTakenUnlessMinus == result # -1            (* forgets the lengths *)
ResultIsTaken == result # -1 /\ result = chunk.uncompressedLen

GetChunkData ==
  /\ pc = "returned"
  /\ pc' = IF ResultIsTaken THEN "cached" ELSE "thrown"
  /\ UNCHANGED <<chunk, inPos, out, outPos, err, handle, bytesToSkip, bytesToRead, decoded, result>>

Init ==
  /\ chunk \in Chunks
  /\ pc = "start" /\ inPos = 0 /\ out = <<>> /\ outPos = 0 /\ err = "ok" /\ handle = "none"
  /\ bytesToSkip = 0 /\ bytesToRead = 0 /\ decoded = 0 /\ result = 0

Next == Start \/ CopyField \/ AfterHeader \/ Open \/ CheckFormat \/ Skip \/ Decode \/ GetChunkData

(* The loops run until they end: nothing else does in the meantime.         *)
Spec == Init /\ [][Next]_vars /\ WF_vars(Next)
-----------------------------------------------------------------------------
(***************************************************************************)
(* Properties.                                                             *)
(***************************************************************************)
TypeOK ==
  /\ DOMAIN chunk = {"size", "format", "count", "commands", "encode", "channels", "sampleSize",
                     "skip", "audio", "found", "short", "uncompressedLen"}
  /\ {chunk.size, chunk.skip, chunk.audio, chunk.uncompressedLen} \subseteq Nat
  /\ pc \in {"start", "header", "open", "format", "skip", "decode", "returned", "cached", "thrown"}
  /\ inPos \in Nat /\ decoded \in 0 .. chunk.audio /\ bytesToSkip \in Int /\ bytesToRead \in Nat
  /\ \A k \in DOMAIN out :
       out[k].of \in {"in", "pcm"} /\ out[k].from \in Nat /\ out[k].len \in Nat \ {0}
  /\ err \in {"ok", "done", "error"} /\ handle \in {"none", "open", "released"}
  /\ result \in {-1, 0, chunk.uncompressedLen}
  /\ outPos \in 0 .. chunk.uncompressedLen

HeaderSize ==
  28 + (IF chunk.format = 1 THEN 6 * chunk.count ELSE 0) + 8 * chunk.commands
  + (IF chunk.encode \in {"extended", "compressed"} THEN 42 ELSE 0)

(* The runs fill the buffer up to outPos without a gap.                      *)
End(k) == IF k = 0 THEN 0 ELSE out[k].at + out[k].len
NoGaps == outPos = End(Len(out)) /\ \A k \in DOMAIN out : out[k].at = End(k - 1)

(* A sound that is taken begins with the header it was stored with, byte    *)
(* for byte up to the number of samples to skip, which only compressed      *)
(* sounds have, and no byte comes from behind the chunk (decompressSnd).    *)
(* The header is copied by some thirty separate statements.                *)
HeaderIsKept ==
  (pc = "cached" /\ chunk.size > 0) =>
    /\ HeaderSize <= chunk.size /\ HeaderSize <= outPos /\ NoGaps
    /\ \A k \in DOMAIN out :
         IF out[k].at < HeaderSize
         THEN out[k].of = "in" /\ out[k].from = out[k].at /\ End(k) <= HeaderSize
         ELSE out[k].of = "pcm"

(* The first byte of the sound behind the samples to skip.                   *)
FirstSample == chunk.skip * NumChannels * (SampleSize \div 8)

(* However libmpg123 cuts the sound into pieces, what is written of it       *)
(* follows the header without a gap, from the first sample after the ones   *)
(* to skip: a skip that goes wrong lets nothing through, if the header says *)
(* 8 or 16 bits (any other number is counted as one byte and decoded as     *)
(* two).                                                                   *)
NeverTooEarly ==
  SampleSize \in {8, 16} =>
    \A k \in DOMAIN out :
      out[k].of = "pcm" => out[k].from = FirstSample + (out[k].at - HeaderSize)

(* As much of the sound is written as there is room for, if libmpg123 fills *)
(* every buffer while it has data (short reads make the skip wrong: the     *)
(* next one asks for the whole buffer again).                              *)
SoundIsWhole ==
  LET room == chunk.uncompressedLen - HeaderSize
      rest == IF FirstSample < chunk.audio THEN chunk.audio - FirstSample ELSE 0
  IN  (pc = "cached" /\ chunk.size > 0 /\ ~chunk.short /\ SampleSize \in {8, 16}) =>
        outPos = HeaderSize + (IF room < rest THEN room ELSE rest)

(* A chunk is taken only if the decoder was done with it, released, and     *)
(* nothing failed on the way, and given up only for a reason; the decoder   *)
(* is left open only by a format that differs.                             *)
TakenOrRefusedForAReason ==
  /\ pc = "cached" =>
       \/ chunk.size = 0 /\ chunk.uncompressedLen = 0
       \/ /\ handle = "released" /\ err # "error"
          /\ ~FormatDiffers /\ chunk.encode # "unknown"
          /\ HeaderSize + 4 <= chunk.size /\ HeaderSize <= chunk.uncompressedLen
  /\ pc = "thrown" =>
       \/ chunk.size = 0
       \/ chunk.size < HeaderSize + 4 \/ chunk.uncompressedLen < HeaderSize
       \/ chunk.encode = "unknown" \/ FormatDiffers \/ err = "error" \/ handle = "none"
  /\ (pc \in {"cached", "thrown"} /\ handle = "open") => FormatDiffers

(* Both loops end, for any cut of the sound into pieces: also the skip that *)
(* missed zero, since libmpg123 says when it is done (decodeMP3).          *)
Ended == pc \in {"cached", "thrown"}
DecodingEnds == <>Ended

(* The check of the length after decompression promises that a sound that  *)
(* is taken fills its buffer.  decompressSnd returns the size of the       *)
(* buffer, whatever was written.                                           *)
TakenSoundsAreComplete ==
  pc = "cached" => outPos = chunk.uncompressedLen
=============================================================================

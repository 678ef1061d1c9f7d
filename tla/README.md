# A TLA+ verification of ProjectorRays

ProjectorRays reads the files of Director and Shockwave movies, decompiles the
Lingo bytecode in them to script text, puts that text back into the cast
members and writes the movie as an uncompressed file that Director can open.
This directory holds a formal model of that program: what is checked on small
instances by TLC, and what is proved for all of them by TLAPS.

The program has one thread, no tests and no exception handler. What makes it
hard is not concurrency but order: what a movie says in one place decides how
bytes in another are read; chunks are fetched and cached in whatever order the
casts need them; the size of a chunk is computed long before the chunk is
written; and the tree of a script is rebuilt from jumps by guessing what they
were compiled from.

## The system

`processFile` of `main.cpp` drives one file through these parts:

    readFile -> DirectorFile::read -> (dump chunks, dump JSON)
             -> config->unprotect -> parseScripts -> (dump scripts)
             -> restoreScriptText -> writeToFile

| Part | State | Operations | Correct when |
|---|---|---|---|
| Container, `dirfile.cpp` | the map (`chunkInfo`), content read so far (`_cachedChunkViews`), objects made from it (`deserializedChunks`), the memory map being laid out | read a memory map or an Afterburner map with its initial load segment; fetch a chunk; edit it; lay out; write | the written file holds every resource under its id, as edited, or no file is written; entries never overlap; the free list is exact; every header has the length of its chunk |
| Bytecode translator, `handler.cpp`, `ast.cpp` | tags of the instructions, operand stack, AST, current block, the running `kOpPeek` searches | tag loops; close blocks; translate one instruction | the tree means the bytecode; nothing is left open; no null block or index outside the array; it always ends |
| Cast linking, `context.cpp`, `script.cpp`, `chunk.cpp` | key table, casts, members, script contexts, scripts | read casts, populate, read a context, parse, restore | each script text reaches the member that owns the script, once all scripts are parsed |
| Cast info and lists, `chunk.cpp` | items, offset table | read, edit, size, write | what is written has the size computed and reads back the same |
| Configuration, `chunk.cpp` | fields and checksum | read, checksum, unprotect, write | the checksum written is the one of the fields written |
| Script and name chunks, `script.cpp`, `handler.cpp`, `names.cpp` | cursor, tables, `bytecodePosMap` | read the header, records, code, literals, names | wherever the parts lie, the whole script is read or it is refused |
| Printing, `ast.cpp`, `codewriter.cpp` | the line being written | write a node | the text parses back to the tree |
| Streams, `stream.cpp` | cursor, end | read, write, seek | no access outside the buffer |
| Command line, `options.cpp` | the options taken so far | parse words | what is accepted is what was said |
| Batch driver, `main.cpp`, `fileio.cpp` | files to do | process each file | no input is lost, each yields its own output |
| Sound, `sound.cpp` | samples to skip and to read | copy the header, decode | the sound begins after the delay of the encoder and is whole |
| JSON dump, `json.cpp`, `chunk.cpp`, `subchunk.cpp` | nesting, context of the writer | start, end, write; a list of fields per chunk | the text is well formed and says what was read |

Parts interact by calls only: the translator gets scripts and names from the
container through `ChunkResolver`, and the container asks the chunk objects for
their size and content. Every shared piece of state (the two caches, the
position of the input stream, the chunk objects the casts point into) is
reached in an order that depends on the movie.

## Modules

| Module | Models |
|---|---|
| `LingoDecompiler` | `tagLoops`, `parse`, `translateBytecode` and the block stack of the AST |
| `LingoCompiler` | external: the bytecode shapes Director's compiler emits, as the translator recognises them |
| `LingoRoundTrip` | reads the tree back and states that it compiles to the bytecode it came from |
| `LingoOperands` | the same translator seen from the operand stack: which values every instruction takes and the node it makes |
| `LingoOperandCompiler` | external: the order in which Director's compiler pushes operands, in three forms of bytecode |
| `LingoOperandsRoundTrip` | states that the node is the statement that was compiled |
| `ScriptText` | `writeScriptText` and `hasSpaces` of expressions and of the assignments and calls over them |
| `LingoReader` | external: how Director reads such a text |
| `Repack` | abstract: a table of resources that is edited and then stored in one step |
| `DirectorFile` | the container: opening, fetching, layout, writing |
| `DirectorFileRepack` | the reader of the written file, and the mapping under which `DirectorFile` implements `Repack` |
| `DirectorFileProofs` | theorems about `DirectorFile` |
| `CastLinking` | the way from a script to its member: `readCasts`, `populate`, `ScriptContext::read`, `setContext`, `parseScripts`, `dumpScripts`, `restoreScriptText` |
| `ByteStream`, `Words32` | the reads of `ReadStream` over bytes; external: unsigned 32-bit arithmetic |
| `CastMember` | one member down to its bytes: `CastMemberChunk`, `CastInfoChunk`, `ListChunk` and the streams under them |
| `ConfigChunk` | the configuration down to its bytes, `unprotect` and the checksum |
| `ScriptReader`, `ScriptRoundTrip` | from the bytes of a script and its names to handlers, instructions, literals and names; what must come of a chunk that was stored, cut or damaged |
| `ScriptWriter` | external: how Director stores a script |
| `SoundDecoder` | `decompressSnd`, `decodeMP3` and the check of what they return; libmpg123 is external |
| `ChunkDump` | for each kind of chunk the fields of `read`, of `writeJSON` and of `write` |
| `Chunks` | puts the five modules above together: one chunk from the file to where it ends |
| `CodeWriter`, `JsonWriter` | the writers of indented text and of JSON, with the escaping of strings |
| `JsonReader`, `JsonCalls` | a reader of JSON, for the property; the sequences of calls a dump can make |
| `Options` | the tables and the parser of the command line, and what the usage lists |
| `FileNames`, `BatchRun` | names and contents of files; `main` and `processFile`: what is read, named, written and given up on |
| `Program` | `Options`, then `BatchRun` on what was parsed: the whole of `main` |
| `ProgramProofs` | theorems about `Program` and the steps of `BatchRun` |
| `CastLinkingProofs` | theorems about `CastLinking` |
| `LingoDecompilerProofs` | theorems about `LingoDecompiler`: types and tree, then the nesting of blocks |
| `LingoOperandsProofs` | a theorem about `LingoOperands` |
| `ChunksProofs` | a theorem about sounds, `Chunks` and `SoundDecoder` |
| `JsonCallsProofs` | theorems about `JsonCalls`: the counters, and that a dump reads back |
| `NumberLemmas` | least and greatest elements of sets of numbers, the smallest of some finite sets |
| `MC...` | instances for TLC |

How they fit together: `Program` runs the parser and then the batch;
`BatchRun` does everything below as one step for every file. `DirectorFile`
lays out and writes chunks as lengths; `Chunks` is what happens inside one of
them. `ScriptReader` makes the instructions `LingoDecompiler` and
`LingoOperands` translate, each with its own abstraction of the other's half;
their tree is what `ScriptText` writes; `CastLinking` brings that text, as one
value, to a member; `CastMember` puts it into the bytes of the member. Each
module takes what the one before it promises as an input set of its own:
`growth` in `DirectorFile` is what `RewriteIsIdempotent` of `CastMember`
measures, and a cast member there is editable when it has an info block.

### LingoDecompiler

One behaviour decompiles one handler. `TagLoop` and `TagOther` are turns of the
loop of `tagLoops`. After `StartParse` every step is either `CloseBlock`, one
turn of the closing loop of `parse`, or one call of `translateBytecode`. A
`kOpPeek` translates what follows by calling `translateBytecode` itself and
ignores the size it returns; those calls are the variable `frames`, and
`PeekLabel`, `PeekNoJump` and `PeekNoComparison` are the three ways its search
ends. `Crash` is what C++ leaves undefined - reading before or after the
bytecode array, or through a null `currentBlock` - and an argument list of fewer
than no arguments, which throws.

Opcodes are grouped by what they do to the operand stack and the blocks: the
binary operators are one group, the `get` of four of the five variable kinds is
one opcode with a variable number, and so on. The fifth kind, `setglobal2` and
`getglobal2`, has opcodes of its own, because one recogniser knows it
(handler.cpp:459, `GetterOf`) and another does not (handler.cpp:412,
`IsRepeatWithIn`); a compiled `repeat with ... in` whose variable is of that kind
is therefore left out of the programs. A node keeps the index of the instruction it
came from and its operands, which determine its text.

`LingoRoundTrip` adds where the code comes from: `compiler` is the shape of the
bytecode of a compiled program (with or without a jmp after the last label of a
case, with or without a pop before leaving a loop from inside one), or says that
nobody compiled it.

### LingoOperands

One behaviour translates one statement, an instruction at a time, over a stack
that may already hold the value of an enclosing `case`. Here the control flow is
left out and the operands are everything: the version decides how many there
are and by how much variable numbers are multiplied, a chunk reference takes
eight, and calls of certain names with certain numbers of arguments become
other nodes. An instruction whose operands make no sense becomes a comment.

Two things the program does are visible in the module and are no property of
code a compiler makes: a chunk whose first number is the literal 0 is no chunk;
`getAt`, `getProp` and `count` used as statements stay on the stack, while
`setAt` and `delete` used as values take what is below them (`LosesStatement`,
`LosesValue`).

Two guards are bounds of the model and not the code's; a task that would go
past one of them stops there. A list is not made of a table literal (`MakeList`):
the code changes the type of its `Datum` in place, which the literal table and
every node made of that literal share (handler.cpp:657, 719), while here a value
belongs to its node. And the operand of a `localcall` is a handler's
(`LocalCall`): the code indexes with any (handler.cpp:888).

Where an instruction wants an argument list and finds something that is no
literal, the code keeps a reference to the list of a `Datum` that is already
gone (handler.cpp:897, 914, 1131, ast.cpp:146). `Items` takes the empty list for
it, which the freed memory still holds unless something was allocated there.

### DirectorFile

`chunkInfo`, `views`, `chunks` and `mapArray` are the maps of the class.
`ReadEntry` is one entry of the map, `LoadResident` one chunk of the initial
load segment. While the phase is `"open"` the casts, the contexts and the
options may ask for any chunk in any order (`GetChunk`, `DumpChunk`) and edit a
cast member or the configuration (`SetText`): the model allows more orders than
`processFile` uses, so what holds here does not rest on that order. `Place`,
`Link` and `WriteChunk` are turns of the loops of `generateMemoryMap` and
`write`. An exception is `Abort`: nothing catches it, and the output is created
only by `WriteFile`.

The content of a chunk is a record: which resource it is of, how many bytes it
has, how many of them are script text, and how many bytes reading and writing
it again adds (the offset table given to a member that has none). Sizes are
therefore computed, not assumed.

### CastLinking

The loops over casts, slots, contexts and scripts are the phases; `at` and
`slot` are their positions. Objects are keyed by section because the code makes
each one once and shares it: the member a script points to is a field that the
next `LinkMember` with the same script replaces. A `CAS*` section is one `CastChunk` too, whichever entries of the cast
list lead to it (dirfile.cpp:328, 368-375): an element of `casts` is one time it
was populated, and name and context are those the section has by now, so that
the second `populate` changes both (`Renamed`, `WithContext`). A context that is
replaced like this is never parsed, dumped or restored; `ContextsAreKept` says
that there is none. A text is not a string but the
list of what it was generated from, which tells apart a script parsed with the
wrong names, with names declared twice, or with its factories missing.

### Chunks

What follows one chunk: `kind` says which module, and the variables of the
others are `Unused`. Nothing of one chunk shows in another, so the modules do
not interact; they are put together because they stand at the same place of the
program, between `getChunkData` and the files that are written.

*CastMember.* Bytes are bytes, because the reader finds an item only by lengths
and offsets that were written with it. `Read` is `CastMemberChunk::read` with
the info block, the list and its table; `SetScriptText` replaces the text and,
like the code, does nothing to a member without an info block; `Size` stores the
two lengths in the chunk; `Write` uses them. What was written is what the next
round reads, so a length that is wrong by one turns up as another name or flag.
`said` is a history variable: what the member said when it was read first, with
the texts set since.

*ConfigChunk.* `Layout` is the order, place and width of the fields, which depends on
the version, one of them. `Checksum` is computed over words of four bytes
(`Words32`): the numbers of TLC are 32-bit and signed. `original` is the bytes
the movie came with.

*ScriptReader.* One action per header, record, instruction, table and literal.
A position past the end throws where the code checks, and reads `Unknown` where
it does not. Two things the reader does are exceptions that `ScriptsAreWhole`
states: the last four bytes of a double may be missing (`LosesItsEnd`), and a
chunk with a ten-byte number from 2^1023 on is never read (`HoldsRefusedNumber`).
Offsets from 2^30 on count as one (`MaxOffset`), and sums of
offsets do not wrap.

*SoundDecoder.* Bytes are known by where they come from: runs of the chunk and
of the decoded sound. libmpg123 gives the sound in order, at least one and at
most as many bytes as asked for while it says OK, says DONE at the end and ever
after, or fails. Each run has its place in the buffer. `NeverTooEarly` says that whatever is
written of the sound is the part that belongs there, however it was cut;
`SoundIsWhole` that nothing of it is missing, if libmpg123 fills its buffers.
Both speak of headers that say 8 or 16 bits. `Open` fails where a call that is
checked fails; the result of `mpg123_param` is not looked at (sound.cpp:93). A format that differs leaves the decoder open (sound.cpp:109-123),
which `TakenOrRefusedForAReason` allows and names.

*ChunkDump.* A field is a name with its place and its value is its number in
the order of reading, so that no two fields are equal: a dump that takes one
for another is seen. `KnownWrong` lists the three places where it does.

### CodeWriter, JsonWriter

A text is a sequence of characters and of words (numbers). `JsonCalls` makes every
sequence of calls that a dump can make, since the writer decides what to write
from a context left by the call before; `JsonReader` reads the text back, one
character after the other, as a state machine. It keeps apart what is JSON and
what is of the dialect of json.h:16-24: a byte that the dialect does not list is
read as itself and remembered (`UnlistedBytes`). `CodeWriter` is as much of
`codewriter.cpp` as the JSON writer calls; `write(char)` and `writeLine(str)`, which
scripts and listings of bytecode use, are not in it, and `doIndentation`, the
condition of `WriteIndentation`, is always true here.

### Program, Options, BatchRun

`Options` is `parse` word by word, on words that are records (an option by its
long or short name with what is attached to it, or something else). `BatchRun`
has the files: `disk` maps names to what is under them; a directory under
iteration is the set `todo`, to which a file created meanwhile is or is not
added, as the standard leaves open. `ComparesEqual` is `stricmp` as written: it
stops at the end of its first argument and, when that is empty, compares two
variables it never set. An output is given as the name of a file, old, new or
the input's own (`-o`), or as another directory (`elsewhere`), which is new or
exists with anything in it (`Elsewheres`, main.cpp:139-150, 169-171). That a path
can be read, and created where it is missing, is a bound: no parent directory is
absent and no name empty. Nor has a stem a dot in it: a dump is named by the stem
alone, and that of `a.dir.dcr` would have the name of a project. `Program` runs one and then the other: `TakeOptions`,
`FindFiles` and `Begin` are the start of `main`, and which files there are is
chosen only then. The properties of files are those of `BatchRun`, seen over the
whole program. `version --dump-scripts` makes a directory for casts and
leaves it empty, as the code does.

### ScriptText

A node is a record of kind, name and parts; its text is the sequence of its
words. `HasSpaces`, `ParenLeft`, `ParenRight`, `Operand` and `Object` are the
rules by which the kinds of nodes decide about parentheses, and which parts are
always in the verbose syntax follows from the `FALSE` in the place of `d`.
`LingoReader` reads the text back. Because it refuses to read two precedences
in one chain, a text that it reads back does not rest on their order.

## Runs

| Run | Question | Bounds |
|---|---|---|
| `LingoHandlers` | Is every nest of loops, ifs and cases read as what it was, and what survives on bytecode no compiler made? | blocks up to three levels deep of all four loop kinds, ifs, tell blocks and cases with up to two labels, up to three equivalent values, variables of loops of both groups of opcodes, with and without otherwise, left by exit, exit repeat and next repeat, in both shapes of case; six prefixes that leave `parse` in the middle of something, then any three instructions (`TailLength`) |
| `LingoOperands` | Is every statement read with the operands it had? | every statement over every kind of expression, one level of nesting, versions 400, 500 and 850, with and without a value below; any three instructions compiled by nobody |
| `ScriptText` | Does the text read back as the tree? | every kind of node in every place of every other, operands two and in part three levels deep, in statements, both syntaxes |
| `DirectorFile` | Is the written file the movie? | two resources of every kind beside the fixed ones, gaps in the ids, duplicate ids, resident chunks listed and unlisted, damaged chunks; texts of three lengths |
| `CastLinking` | Does every text reach the member that asked for it? | two casts, three members, four scripts of which two may be factories; contexts with gaps, doubles and missing sections; eleven key tables, some with a list of members that two casts own, with and without a context each; a cast listed twice; a factory only one of two owners lists |
| `Chunks` | Does a chunk keep what it should keep, on its way through the program? | members before and since version 500 with no info block or tables of 0, 1, 2 and 4 items, three texts, five names; configurations of seven versions with each field at its extremes, stages around the divisors, protections around two multiples of 23, wrong lengths, both byte orders; scripts of up to two handlers with codes of up to four instructions of every width, in three orders of their parts, cut at each of 120 bytes, and within the last of three doubles; numbers of eight and of ten bytes with exponents at both ends and around 1, 2046 among them; headers of sounds cut at every byte and sounds of up to nine bytes; eleven kinds of chunks with lists of up to two; members and configurations are written twice (`MaxRewrites`) |
| `Program` | Is a command line taken as it was said, and can a run hurt its inputs or itself? | lines of up to three phrases in every spelling; up to two files out of two stems, one of them the other with the suffix, and seven extensions, five things a file may hold; another output directory that is new, empty or has one of six things in it, at the names of a project and of two dumps; three names given for an output, each new, another file's or the input's |
| `Json` | Is a dump JSON, and does it say what was written? | seven calls (`MaxCalls`), nested three deep (`MaxDepth`), both line endings; strings of one byte and of a byte before `x`, a digit, a quote or a backslash |
| `LingoSometimesCounting` | Is every instruction hidden as loop logic loop logic? No: a finding | one program |
| `ScriptTextJoins` | Do texts tell trees apart? No: a finding | the string operators nested in each other |
| `ProgramOutputs` | Has every input its output? No: a finding | two files |
| `SoundComplete` | Is a sound that is taken as long as was announced? No: a finding | the sounds of `Chunks` |

A property of `Chunks`, `Program` or `JsonCalls` names the parts it is made of in
the modules that follow one chunk, the words of a line or the files: where this
file speaks of `EndsForAReason` or `SoundIsWhole`, that part of
`ConfigsAreKept` or `SoundsAreKept` is meant. `IsGotThrough` joins `NeverCrashes` and
`AllClosedAtEnd`, `StackIsKept` joins `StackIsBalanced` and `KeepsWhatIsBelow`, and
`NodesAreInPlace` joins `TypeOK` and `CommentsStandAlone`.

Why the bounds are enough. Three levels are enough for the translator because
it looks no further than the nearest enclosing loop, statement and block and at
most seven instructions around a jump; the third level makes the enclosing ones
differ. Operands are taken from the top of one stack, so one value below them
shows whether an instruction took too many. Two resources make a container in
which one follows, precedes or replaces the other; `DirectorFileProofs` drops
the bound for all but the refinement. Members and configurations are written
twice because the first writing may still change them (a longer header is cut,
a missing table made, the protection taken off) and the second must not. A
script is read part by part, each found by an offset of its own: the second
handler and the other orders put something else around each part. The sounds
are a few bytes because both loops only compare what is left with what they
got. Two casts are enough for one to take a script, a context or a member away
from the other; a third could only repeat that. Two files of a directory can
stand in each other's way in every manner a name allows. The context of the
JSON writer has four values, which three nested braces and four more reach in
every pair. For a node, the decision about parentheses looks at the node and its
parts, never further; the third level puts a pair into a context that changes
the syntax.

`LingoRoundTrip` compares bytecode, not trees, because several programs compile
to the same bytecode (an `else` at the end of a loop and a `next repeat`; a
`repeat while` that ends in `x = 1 + x` and a `repeat with`). `RecompilesToCode`
asks that the reading chosen is one of them.

`MCScriptText` leaves out of `ReadsBack` what is written ambiguously (`IsUsual`):
the operators without a precedence in each other, which are the finding below;
an `of castLib` or `of menu` behind an operand that ends in something which
takes an `of` itself; a number of a member whose text begins with a parenthesis
that does not enclose all of it; a sign on a negative number, written `--`.
It also leaves out properties of comparisons and elements of negative numbers,
which no script has.

`MCLingoHandlers` excludes one shape: a last label without a trailing jmp whose
block ends in `exit repeat` or `next repeat` (`MayEndCase`). There the condition
at handler.cpp:1061 takes the jmp for the end of a label before an `otherwise`.

`CHECK_DEADLOCK FALSE` stands where a behaviour ends in a state that has nothing
to do any more: the end of a translation, of a line, of a chunk.

**Fairness.** Each liveness property is stated under weak fairness of the whole
next-state relation of its module: `Terminates` (`RoundTripSpec` of
`LingoRoundTrip`), `DecodingEnds` (`Chunks`, of `SoundStep`) and `ProgramEnds`
(`Program`). The program has one thread that
runs its next statement, and libmpg123 returns from each call. Without it these
would fail for lack of steps alone. No other property needs fairness.

**Findings.** `LingoSometimesCounting`: in `x = 5; repeat while x <= 5: if c then
proc else x = 1 + x` the last instructions of the else branch are those of a
counted loop. `tagLoops` hides them as loop logic and the script loses the
increment, although the comment at handler.cpp:336 promises that only internal
loop logic is hidden.

`ScriptTextJoins`: `&`, `&&`, `contains` and `starts` have precedence 0, and
`BinaryOpNode::writeScriptText` considers parentheses only for operators with a
precedence (ast.cpp:307). `(a contains b) & a` and `a contains (b & a)` become
the same text, so one of the two scripts is not the one that was compiled.

`ProgramOutputs`: an output is named after the stem of its input. `a.dcr` and
`a.dxr` in one directory are both written to `a.dir`, and the run succeeds with
one project for two movies, against README.md:31.

`SoundComplete`: `decompressSnd` returns the size of the buffer whatever it
wrote, so the comparison at dirfile.cpp:413 that would say "Expected
uncompressed length" cannot fail for a sound: one that ends early is taken, with
zeros behind it.

Other disagreements, seen while the code was translated. No run is about them
alone; the modules translate the code as it is, and the property that would
otherwise be false says which case it leaves out:

- `readAppleFloat80` (stream.cpp:189) refuses exponents from 0x3ff on as "too big
  for a double", though doubles reach 0x3ff: literals from 8.99e307 on throw.
  `ScriptsAreWhole` says that exactly these whole chunks are refused
  (`HoldsRefusedNumber`), and `Chunks` has such literals.
- `readDouble` (stream.cpp:151) moves its cursor by 4 before it compares it with
  the end and then takes 8 bytes: a chunk that ends within the last four bytes of
  a double is not refused. `ScriptsAreWhole` allows these four bytes to be other
  ones (`LosesItsEnd`), and `Chunks` has chunks cut there.
- `-o a.dcr a.dcr` overwrites the file that was taken (main.cpp:39-40): the suffix
  is only put to names the program chooses. `InputsSurvive` excepts the file whose
  own name is given.
- Two entries of the cast list that lead to one `CAS*` section share its
  `CastChunk`, and the second `populate` replaces its context (chunk.cpp:54-61).
  The first context is never parsed; if a script of the second names a factory
  that was added from the first, its text is written through a null pointer
  (script.cpp:167-173). `TextsAreComplete` says `ContextsAreKept` first.
- `isRepeatWithIn` (handler.cpp:412) does not know `kOpSetGlobal2`, which
  `identifyLoop` (handler.cpp:459) does: such a loop stays a `repeat while`.
- `decodeMP3` reads the result of the call before, not that of `mpg123_param`
  (sound.cpp:93-94): if that one fails, nobody notices.
- `computeChecksum` (chunk.cpp:509, 515) divides by `movieTop + 3` and
  `movieBottom + 5`: a stage with one of these at zero ends the run, though the
  checksum is only compared for a warning (`EndsForAReason` allows it).
- `escapeString` (util.cpp:72) leaves the byte 127 as it is, where json.h:22
  speaks of printable characters. `DumpReadsBack` says that this is the only byte
  outside the dialect that a dump ever has.
- `ScriptNamesChunk` (chunk.h:333) declares members of its base class again, so
  that its dump (chunk.cpp:1085) shows numbers that were never set and no names;
  the dump of a handler (chunk.cpp:995) shows `globalsOffset` of its script; the
  dump of a cast list (chunk.cpp:116) writes `itemsPerCast` twice and
  `castCount` never. `KnownWrong` of `ChunkDump` are these three.

## Proofs

`DirectorFileProofs` proves, for every container, every set of texts and every
length of font map:

| Theorem | Statement | Inductive invariant |
|---|---|---|
| `TypeCorrect` | `Spec => []TypeOK` | `TypeInv`: types, and where `at` and `rest` are in each loop |
| `LayoutCorrect` | `Spec => []EntriesDisjoint` | `LayoutInv`: what is not placed yet is free, and everything placed ends before `nextOffset` |
| `FreeListCorrect` | `Spec => []FreeListIsExact` | `FreeInv`: the list always holds exactly the free ids above `at` |
| `EstimatesCorrect` | `Spec => []EstimatesHold` | `SizesInv`: what is cached for an id is as long as the map says, and an entry placed is as long as the chunk that will be written |
| `ImplementsRepack` | `Spec => RepackSpec` | `RepackInv`: what is listed so far is the last entry of each id, everything cached is as the movie has it, and each chunk placed was written once, with the length of its entry |

None of the four invariants is inductive as it stands: the layout says nothing
of what is still to come, the free list is exact only once the loop is over, and
an estimate is right only because nothing fetched in between changes a length.

`ImplementsRepack` is the refinement that `Repack` stands for, step by step.
Restoring a text and unprotecting the configuration are `Edit`, the end of the
last write is `Save`, and every other step leaves the movie and the output as
they are: mapping and loading only make the cache agree with the movie
(`MapInv`, `FetchedIsMovies`), and a run that throws writes nothing. For `Save`,
`EntriesDisjoint` and `EstimatesHold` say that no chunk overwrote another, so
the reader finds each body whole where the map says it is; `ImageInv` that this
body is the one the movie holds for the id; and `EntriesInv` that the map lists
these ids and no others. It holds for honest containers only
(`HonestAssumption`): otherwise the estimates fail and with them the layout.

The assumptions are those of the module. `NamesAssumption` and
`SizesAssumption` give types. `FilesAssumption` says that ids are natural
numbers, that an Afterburner map has no free entries, and that only such a map
has an initial load segment. `HonestAssumption`
says that a container stores as many bytes of a resource as its map announces,
that resources of a memory map or the initial load segment are not compressed,
and that a font map is not empty; `EstimatesCorrect` and `ImplementsRepack` need it, and without
it the estimate of `chunkSize` does differ from what `writeChunk` writes.

`ProgramProofs` proves, for every command line, every set of
directories, whatever an output directory held before, and every order in which
a directory is visited:

| Theorem | Statement | Inductive invariant |
|---|---|---|
| `TypesHold` | `ProgramSpec => []ProgramTypeOK` | `ProgramInv`: `OptionsInv` while the line is parsed; the files are untouched (`Waits`), or the batch has begun and `BatchHolds` |
| `InputsAreSafe` | `ProgramSpec => []InputsSurvive` | the same |
| `ProjectsAreLeft` | `ProgramSpec => []NothingDecompiledTwice` | the same |
| `CrashesHaveReasons` | `ProgramSpec => []CrashesForAReason` | the same |
| `StemsAreSafe` | `ProgramSpec => []DistinctStemsAreSafe` | the same |

`BatchHolds` has four parts. `BatchInv`: in a directory, what has not the
extension of a project is as it was or is a new directory, and only such names
are processed; a single file is processed once, on the files as they were.
`InputsSurvive` alone is not inductive: it does not say that what was created
meanwhile is a project or a directory. `ReasonInv` says this of the output
directory too, so that whatever is in the way of a dump is a file of the folder
or was in the output directory before. That no directory there is in the way of
a project has to be said of the run's beginning and holds until the end, because
a dump has never the name of a project (`DirectoriesStay`).
`ProjectInv`: as long as the run goes on, a published file is still to be
visited or has its project, and no directory is created under the name of one.
`TypeInv`: types. Of the lemmas, `ProjectsAreNoInputs` says that the comparison
that takes every prefix for equal never takes `.dir` or `.cst` for a protected
extension; `OutputIsNotInput`, that a file with the extension of its own project
gets the suffix, because the comparison is exact there; `ProtectedIsTaken`, that
a protected extension is never passed over and never gets the suffix;
`DecompileKeepsProjects`, that a project is nobody else's. `FlagsBeforeAreOptions`
needs that a word of short options has a least letter that ends it. The proof
corrected `DistinctStemsAreSafe`: it asked only for different stems, but a file
with an extension such as `.d`, which the comparison takes for `.dcr`, gets the
suffix and then the name of the project of `a_decompiled.dcr`. The property asks
now for different names of projects, and the run has such a stem, which it had
not. Assumed are `FoldersAssumption`, that names are pairs of sequences,
`WordsAssumption`, that the program's own words may stand in names, and
`LinesAssumption`, that arguments are sequences.

`CastLinkingProofs` proves, for every movie - any number of casts, contexts,
scripts and members, shared in any way, casts themselves among them:

| Theorem | Statement | Inductive invariant |
|---|---|---|
| `TypesHold` | `Spec => []TypeOK` | `LinkInv` |
| `TextsAreOwn` | `Spec => []NoForeignText` | the same |
| `TextsAreWhole` | `Spec => []TextsAreComplete` | `LinkInv` and `WholeInv` |
| `AbortsHaveReasons` | `Spec => []GivesUpForAReason` | the same |
| `TextsArrive` | `Spec => []TextReachesItsMember` | `LinkInv /\ OwnInv` |
| `DumpsAgree` | `Spec => []DumpAgreesWithRestored` | the same |

`LinkInv` has one part per kind of object. `CastsInv`: a cast has a context
that the keys of one of its owners lead to. `ContextsInv`: a context that was read is that of some
cast. `ScriptsInv`: a script is in some context, its names are the last it was
given, and the member it leads to names it. `ParsingInv`: nothing is parsed
before all casts are read, then one cast after another, and at the first text
all scripts are whose context some cast still has. `Given`: every text was made of parsed scripts, for a member
that names them. The properties about texts are not inductive alone because
they speak only of the end: a text is whole because *every* script is in the
context of *some* cast, so the loops over casts in `parseScripts` miss none,
although contexts are shared and a later cast may give a script its names again.
`WholeInv` carries this through the loops that take texts: before them no text
was taken, and during them all are whole if `ContextsAreKept`.

`OwnInv` says what `Unshared` adds: the converse of `LinkInv`, that what is asked
for is also given. `OwnCasts`: a cast has *the* context of its id, whether or not
a member of it was linked yet. `OwnScripts`: a script was declared once, and its
factories are the numbers that name it, in order and once each. `OwnSlots`: behind
a slot that was passed, the script that the member names names the member - a
later slot could only undo that if two members named one script. `OwnTexts` and
`OwnFiles` say it of the texts put back and the files written by the loop so far.
The lemmas that carry these through a step follow a link backwards:
`NumberIsOne`, `OwnerIsOne`, `SlotIsOne`, `ClaimIsOne` (a member has one claim),
`NamersAgree` and `PathTells`. That all factories are in the text and not only as
many as there should be is `InOrderReaches`: an increasing sequence into a set
with as many elements as it is long reaches them all.

Proving this found one case that `Unshared` used to leave out and the key tables
of the run did not have: two casts with one list of members. There a member is in
two casts at once and keeps the text of the later one; `OneOwner` now excludes it,
and the run has such a key table.
`LinkMemberStep`, one lemma per action, is where a member that several casts
share keeps its claim.

`MoviesAssumption` - numbers are numbers, and the first cast of the file is a
cast - is all that is assumed; `FactoriesAssumption` is needed only by TLC. The
order of factories and the first key of a set need induction over a finite set,
which `MinimalSubset` provides from the well-foundedness of strict inclusion.

`LingoDecompilerProofs` proves, for every bytecode - any
instructions in any order, with jumps that lead anywhere -:

| Theorem | Statement | Inductive invariant |
|---|---|---|
| `TypeCorrect` | `Spec => []TypeOK` | `BlockInv` |
| `TreeHolds` | `Spec => []AstIsTree` | the same |
| `BlocksNest` | `Spec => []OnlyEndTellLosesBlock` | `BlockInv` and `FilledInv` |

`TypeOK` and `AstIsTree` are not inductive: `translateBytecode` looks for the
counter of a loop where the tag of the loop says, and `exitBlock` follows links
between nodes. So `BlockInv` adds three parts. `TagInv`: an instruction that is
tagged as the start of a counting loop has the instructions of the counter where
the translator looks for them. `LinksInv` and `IfInv`: the links of a node lead
to nodes, and those of an if to its own two blocks, the then before the else.
`RootInv`: the block of the handler has no end. The walk up the tree
(`NearestFrom`, `ancestorStatement` and `ancestorLoop`) is a recursive function;
that it is what its definition says, and ends at an older node of the kinds asked
for, follows from a least counterexample (`NearestMeans`, `NearestFinds`,
`LeastExists` of `NumberLemmas`), because parents are older than children; a tree
that grows does not change it (`NearestStays`).

`BlocksNest` needs to know which blocks the translator may still come back to.
`FilledInv` says that, without a `kOpEndTell`, there is a set of blocks
with the current one in it and, for each of its members but the
handler's, the block around it; with the block around the case statement of each
label that a `kOpPeek` remembers; and with no else whose then is in it. An end
of a block then leads to a block of the set: it is the one around the statement
(`ReachClosed`), the untouched else of an if (`ReachElse`) or the otherwise of the
case that a remembered label belongs to (`ReachOtherwise`). The
label a block remembers must not outlive its case: this is why `parse` clears
`currentCaseLabel` at the end of a case (handler.cpp:524, 530), and `Fine` says it
of the block that is filled.

`CodesAssumption` says that bytecodes have opcode, operand and position, and that
no instruction is at the position (uint32_t)-1, which stands for none: the length
of the code has 32 bits.

`LingoOperandsProofs` proves, for every bytecode above any values,

| Theorem | Statement | Inductive invariant |
|---|---|---|
| `NodesStay` | `Spec => []NodesAreInPlace` | `OperandInv` |

`OperandInv` adds that what is on the stack are nodes: records whose children are
a sequence. That is what popping needs (`PoppedIsValue`), and an error comment is
no value, so none is ever popped. `CommentsStandAlone` looks two levels deep, and
two levels are enough: a node is made of operands, and an operand is no comment
and has none among its children, whether it was popped off the stack (a value), was
taken out of a popped argument list (`MethodNodeIsWhole`, where the fields of a
list become those of another node) or was made on the way (`Made`,
`ReadChunkRefIsPart`, `PropertyIsWhole`). `BecomesKeeps` then serves every
instruction. The step that needs the early return of the code is `kOpSet`: an
unknown property is the comment itself and must not be assigned to
(handler.cpp:976-979). The theorem is about `Spec`, which begins with any code
above any values, with the two bounds named above; the compiler that `RoundTripSpec` begins with is recursive.
`LiteralsAssumption` and `TasksAssumption` say that the literals of a script have
no parts and that the values below are values.

`ChunksProofs` proves, for every sound - any header, any number of samples to
skip, cut by libmpg123 in any way, with an error or the end anywhere -,

| Theorem | Statement | Inductive invariant |
|---|---|---|
| `SoundsKept` | `Spec => []SoundsAreKept` | `SoundInv` |

`SoundsAreKept` speaks of a sound that was taken; `SoundInv` of every state on
the way there. `Placed` says that the runs fill the buffer up to `outPos` without
a gap, those of the header with the bytes of the same place in the chunk, the others
with the sound from where the skip ended. For each phase, `Phases` says how much
of the header and of the sound has been read. That the fields of every header sum up
to `HeaderSize`, wherever its groups repeat, is no induction here: `SumsTo` gives
the offset of each field as a function, and lists of fields are put together with
their offsets (`ConcatSums`, `TimesPairs`, `TimesTriples`, `HeaderSums`). What
makes the skip right is that `bytesToSkip` and what was decoded always sum up to
the bytes to skip: a read that takes too much makes `bytesToSkip` negative for
good, so nothing of the sound is written any more (`Skipping`), and one that ends
at zero ends where the sound begins.

`SoundsAssumption` gives the fields of a header their ranges: numbers without a
sign, and a format libmpg123 can find (one or two channels of 8 or 16 bits).

`JsonCallsProofs` proves, for all calls a dump can make - any number, nested in
any way, with any bytes in keys and strings, and either line ending -:

| Theorem | Statement | Inductive invariant |
|---|---|---|
| `CountersHold` | `Spec => []CountersAreTrue` | `JsonInv` |
| `DumpsReadBack` | `Spec => []DumpReadsBack` | the same |

`DumpReadsBack` speaks of the end of a dump. `JsonInv` says it of every text on
the way: the reader, which has read what is written so far, is between two
lexemes, has found the calls made and the braces that are open, and waits for
what the context of the writer stands for (`Want`): for a value at the start and
behind a key, for a key or an end behind an open brace, for a comma or an end
behind a value. Each call is followed through the writer piece by piece; what
each piece leaves of the writer (`IsWriter`: the size, the width of the last
line, the indentation) and what the reader has made of it are proved together,
`StringIsWritten` for a whole string. `ReadsByte` has what `escapeString` relies
on: each of the 256 bytes is written so that the reader, in the middle of a
string, takes exactly that byte and is in the middle of the string again, and that only
127 is met as a byte the dialect does not list (`Deletes`). Line
ends and indentation are read as nothing (`BlanksAreSkipped`), and no character
within a line is a line end, so the width counts from the last one (`WidthGrows`,
`WidthIsOfLastLine`).

The reader is a recursive function of the text. That it exists, and what it is
after one character more (`AfterOne`), is shown with a least counterexample in
place of an induction (`TraceExists`), and so is the string that `escapeString`
builds (`EscapingExists`). `CallAssumption` says that keys and strings are
sequences of bytes and that a line ends in LF or CR LF. A number is one word:
its digits are not looked into.

Only model-checked: the liveness properties, because fairness is beyond the
prover; the round trips of bytecode, operands and text, because compilers, trees
and readers are recursive; `LineIsTakenAsSaid`, because a line is as many phrases
as one likes, one after the other, and so an induction over them; and the
properties of `Chunks` but that of sounds.

## Not modelled

- zlib, the tables that turn numbers into the words of opcodes and properties,
  logging, and the spelling of versions, numbers and four-character codes: no
  state, or not this program's code.
- How a double becomes decimal digits (util.cpp:28): 17 digits are beyond the
  numbers of the checker.
- The text of statements with blocks, of `sound`, `play` and `when`, the
  comments a dump begins with, and the listing of bytecode: wording and layout.
- Offsets above 2^30: `nextOffset` (dirfile.cpp:581) has 32 bits and the streams
  move their cursor without a check of their own. The proofs take offsets as
  unbounded.
- `chunkIDsByFourCC` (dirfile.cpp:351), which keeps ids whose entry was replaced:
  `CastLinking` takes the first cast of a movie as given.
- Members before version 500 with a length of 0 and factories that are their
  own ancestors: no movie has them (`MCChunks`, `FactoriesAssumption`).

Left of the plan: a proof of the lengths in `CastMember`.

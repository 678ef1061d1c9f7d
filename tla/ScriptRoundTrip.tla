---------------------------- MODULE ScriptRoundTrip ----------------------------
(***************************************************************************)
(* What ScriptReader makes of a chunk that ScriptWriter stored, also when   *)
(* the end of the chunk is missing or a length in it is wrong.  An input    *)
(* says what was stored (program) and what happened to it (cut, lenError).  *)
(***************************************************************************)
EXTENDS ScriptReader, ScriptWriter

Stored(program, listed, cut, lenError) ==
  LET bytes == ScriptBytes(program, lenError)
  IN  [version |-> program.version, script |-> SubSeq(bytes, 1, Len(bytes) - cut),
       names |-> NamesBytes(program.names), listed |-> listed,
       program |-> program, cut |-> cut, lenError |-> lenError]

program == input.program
Done == phase = "done"

(* A cut that leaves every byte that is read is no damage: neither a string  *)
(* without its final zero nor a table of nothing reads the last byte.       *)
CodeIsTheProgram(k) ==
  LET code == program.handlers[k].code
  IN  /\ Len(handlers[k].array) = Len(code)
      /\ \A i \in DOMAIN code : handlers[k].array[i] =
           [opcode |-> code[i].op, obj |-> Arg(code, i), pos |-> Start(code, i)]

TablesAreTheProgram(k) ==
  LET h == program.handlers[k]
  IN  /\ handlers[k].arguments = h.arguments
      /\ handlers[k].locals = h.locals
      /\ handlers[k].globals = h.globals
      /\ handlers[k].record.name = h.name

(***************************************************************************)
(* Type invariant.                                                         *)
(***************************************************************************)
TypeOK ==
  /\ phase \in {"names", "header", "records", "code", "literals", "values", "context", "done", "thrown"}
  /\ pos \in Nat
  /\ at \in 1 .. Max({Len(handlers), Len(literals), input.listed}) + 1
  /\ \A k \in DOMAIN handlers :
       /\ DOMAIN handlers[k].posMap \subseteq Nat
       /\ \A p \in DOMAIN handlers[k].posMap : handlers[k].posMap[p] \in DOMAIN handlers[k].array
  /\ \A i \in DOMAIN literals : literals[i].value.kind \in {"none", "int", "string", "float", "void"}

(***************************************************************************)
(* What the reader makes of a double whose last bytes are missing: readDouble *)
(* only finds out about the first four (stream.cpp:151), and takes eight.    *)
(***************************************************************************)
LosesItsEnd(read, stored) ==
  /\ input.cut > 0 /\ program.floatLen = 8
  /\ stored.kind = "float" /\ read.kind = "float"
  /\ \A k \in 1 .. 8 : read.bytes[k] = stored.bytes[k] \/ (k > 4 /\ read.bytes[k] = Unknown)

(***************************************************************************)
(* The reader finds every part of a script wherever it is, and every        *)
(* operand with its sign; of a chunk that ends too early it makes the whole  *)
(* script or none.  The one exception is a chunk that ends within the last   *)
(* four bytes of a double: it is read, and they are what lies behind it.     *)
(* readData, readRecord, LiteralStore::readData, readDouble.                *)
(***************************************************************************)
WholeScriptOrNone ==
  Done /\ input.lenError = 0 =>
    /\ script.properties = program.properties
    /\ script.globals = program.globals
    /\ Len(handlers) = Len(program.handlers)
    /\ \A k \in DOMAIN handlers : CodeIsTheProgram(k) /\ TablesAreTheProgram(k)
    /\ Len(literals) = Len(program.literals)
    /\ \A i \in DOMAIN literals :
         \/ literals[i].value = program.literals[i]
         \/ LosesItsEnd(literals[i].value, program.literals[i])

(***************************************************************************)
(* What is stored whole is read: the reader throws only for what is missing, *)
(* and for a number of ten bytes from 2^1023 on (stream.cpp:189), which is a *)
(* double and would fit; a script with such a literal is never read.        *)
(***************************************************************************)
LargestExponent == 2046
ExponentOf(double) == 16 * (double[1] % 128) + double[2] \div 16
HoldsRefusedNumber ==
  /\ program.floatLen = 10
  /\ \E i \in DOMAIN program.literals :
       /\ program.literals[i].kind = "float"
       /\ ExponentOf(program.literals[i].bytes) = LargestExponent

WholeChunksAreRead ==
  /\ phase = "thrown" => input.cut > 0 \/ input.lenError > 0 \/ HoldsRefusedNumber
  /\ Done => ~HoldsRefusedNumber

(***************************************************************************)
(* bytecodePosMap takes every jump to the instruction it was compiled for,   *)
(* whatever number of bytes the instructions between them have (handler.cpp  *)
(* 77, 347, 367).                                                          *)
(***************************************************************************)
JumpsReachTheirTarget ==
  Done /\ input.lenError = 0 =>
    \A k \in DOMAIN handlers : \A i \in DOMAIN handlers[k].array :
      program.handlers[k].code[i].to # 0 =>
        JumpTarget(handlers[k], i) = program.handlers[k].code[i].to

(***************************************************************************)
(* A wrong length of one handler's code stays in that handler's code: it is  *)
(* read up to and with the instruction that crosses the stored end, which    *)
(* may take bytes of what follows, and nothing else is found elsewhere.      *)
(***************************************************************************)
WrongLengthStaysLocal ==
  Done /\ input.lenError # 0 =>
    /\ \A k \in DOMAIN handlers : TablesAreTheProgram(k) /\ (k # 1 => CodeIsTheProgram(k))
    /\ [i \in DOMAIN literals |-> literals[i].value] = program.literals
    /\ \A i \in (DOMAIN handlers[1].array) \cap DOMAIN program.handlers[1].code :
         handlers[1].array[i].pos = Start(program.handlers[1].code, i)

(***************************************************************************)
(* Every name declared is one the script stores, in order, and none is left  *)
(* out: each as often as the script is listed in its context (setContext     *)
(* appends, script.cpp:111), the "me" of a factory and the name of an event  *)
(* handler never.                                                          *)
(***************************************************************************)
NameOf(id) == IF id \in 0 .. Len(program.names) - 1 THEN program.names[id + 1] ELSE UnknownName(id)
Known(ids) == SelectSeq([i \in DOMAIN ids |-> NameOf(ids[i])], LAMBDA n : n = <<>> \/ n[1] # -1)
Repeated(s) == IF input.listed = 0 THEN <<>> ELSE FlattenSeq([n \in 1 .. input.listed |-> s])
FactoryScript == (program.flags \div 16) % 2 = 1
EventScript == (program.flags \div 512) % 2 = 1
DeclaresItsNames ==
  Done /\ input.listed > 0 =>
    /\ declared.properties =
         Repeated(SelectSeq(Known(program.properties), LAMBDA n : ~FactoryScript \/ n # Me))
    /\ declared.globals = Repeated(Known(program.globals))
    /\ \A k \in DOMAIN handlers :
         LET h == program.handlers[k]
             d == declared.handlers[k]
         IN  /\ d.name = IF EventScript /\ k = 1 THEN <<>> ELSE NameOf(h.name)
             /\ d.locals = Repeated(Known(h.locals))
             /\ d.globals = Repeated(Known(h.globals))
             /\ d.arguments = Repeated([i \in 1 .. Len(h.arguments) - (IF FactoryScript THEN Min({1, Len(h.arguments)}) ELSE 0) |->
                                          NameOf(h.arguments[IF FactoryScript THEN i + 1 ELSE i])])
=============================================================================

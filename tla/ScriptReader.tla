----------------------------- MODULE ScriptReader -----------------------------
(***************************************************************************)
(* From the bytes of a script chunk and of a names chunk to the objects     *)
(* that are decompiled: Script::read, Handler::readRecord and readData,     *)
(* LiteralStore, ScriptNames::read, Script::setContext of src/src/lingodec.  *)
(*                                                                         *)
(* Nothing in a script is where its reader is: every table is found by an   *)
(* offset, the code of a handler by an offset and a length in bytes, and    *)
(* how many bytes an instruction has depends on its first.  Jumps are       *)
(* distances in bytes and become indices here.                             *)
(*                                                                         *)
(* An exception is not caught: it ends the run.  Sums of offsets are below  *)
(* 2^31 and do not wrap.                                                   *)
(***************************************************************************)
EXTENDS ByteStream

CONSTANTS
  Inputs,     (* [version, script, names, listed]: a version of the movie,   *)
              (* the bytes of the two chunks, and how often the script is in *)
              (* its context.                                              *)
  Unknown     (* A byte that is not in the chunk.                           *)

VARIABLES
  input,
  phase,      (* "names", "header", "records", "code", "literals", "values",  *)
              (* "context", "done" or "thrown".                              *)
  pos,        (* The cursor.                                                *)
  at,         (* Which handler or literal is being read.                    *)
  header,     (* The fields of the script that say where the rest is.       *)
  script,     (* propertyNameIDs and globalNameIDs.                         *)
  handlers,   (* Handler objects.                                           *)
  literals,
  names,      (* ScriptNames::names.                                        *)
  declared    (* propertyNames and globalNames, and those of the handlers.   *)

vars == <<input, phase, pos, at, header, script, handlers, literals, names, declared>>

data == input.script
NoHeader == [flags |-> 0, factory |-> 0]
-----------------------------------------------------------------------------
Throw ==
  /\ phase' = "thrown"
  /\ UNCHANGED <<input, pos, at, header, script, handlers, literals, names, declared>>

TableHolds(count, offset) == count = 0 \/ Holds(data, offset, 2 * count)
ReadVarnamesTable(count, offset) == [i \in 1 .. count |-> ReadInt16(data, offset + 2 * (i - 1))]

HeaderLength == 92
Header ==
  [flags          |-> ReadUint32(data, 38),
   factory        |-> ReadInt16(data, 48),
   properties     |-> ReadUint16(data, 60), propertiesOffset |-> ReadUint32(data, 62),
   globals        |-> ReadUint16(data, 66), globalsOffset    |-> ReadUint32(data, 68),
   handlers       |-> ReadUint16(data, 72), handlersOffset   |-> ReadUint32(data, 74),
   literals       |-> ReadUint16(data, 78), literalsOffset   |-> ReadUint32(data, 80),
   literalsData   |-> ReadUint32(data, 88)]

IsFactory == (header.flags \div 16) % 2 = 1
IsEventScript(h) == (h.flags \div 512) % 2 = 1

NewHandler(generic) ==
  [isGenericEvent |-> generic, record |-> <<>>, array |-> <<>>, posMap |-> [p \in {} |-> 0],
   arguments |-> <<>>, locals |-> <<>>, globals |-> <<>>]

ReadHeader ==
  /\ phase = "header"
  /\ IF ~Holds(data, 0, HeaderLength) \/ ~TableHolds(Header.properties, Header.propertiesOffset)
                                      \/ ~TableHolds(Header.globals, Header.globalsOffset)
     THEN Throw
     ELSE /\ header' = Header
          /\ script' = [properties |-> ReadVarnamesTable(Header.properties, Header.propertiesOffset),
                        globals    |-> ReadVarnamesTable(Header.globals, Header.globalsOffset)]
          /\ handlers' = [k \in 1 .. Header.handlers |-> NewHandler(k = 1 /\ IsEventScript(Header))]
          /\ pos' = Header.handlersOffset
          /\ at' = 1
          /\ phase' = "records"
          /\ UNCHANGED <<input, literals, names, declared>>
-----------------------------------------------------------------------------
(***************************************************************************)
(* Handlers: their records one after the other, then their code and tables. *)
(***************************************************************************)
RecordLengthBefore850 == 42   (* does not know stackHeight *)
RecordLength == IF input.version >= 850 THEN 46 ELSE 42

Record ==
  [name      |-> ReadInt16(data, pos),
   compiledLen |-> ReadUint32(data, pos + 4), compiledOffset |-> ReadUint32(data, pos + 8),
   arguments |-> ReadUint16(data, pos + 12), argumentOffset |-> ReadUint32(data, pos + 14),
   locals    |-> ReadUint16(data, pos + 18), localsOffset   |-> ReadUint32(data, pos + 20),
   globals   |-> ReadUint16(data, pos + 24), globalsOffset  |-> ReadUint32(data, pos + 26)]

ReadRecord ==
  /\ phase = "records"
  /\ at <= Len(handlers)
  /\ IF ~Holds(data, pos, RecordLength) THEN Throw
     ELSE /\ handlers' = [handlers EXCEPT ![at].record = Record]
          /\ pos' = pos + RecordLength
          /\ at' = at + 1
          /\ UNCHANGED <<input, phase, header, script, literals, names, declared>>

GoOnToHandler(k) ==   (* expects the next code where the cursor is *)
  /\ at' = IF k <= Len(handlers) THEN k ELSE 1
  /\ phase' = IF k <= Len(handlers) THEN "code" ELSE "literals"
  /\ pos' = IF 1 < k /\ k <= Len(handlers) THEN pos
            ELSE IF k = 1 /\ handlers # <<>> THEN handlers[k].record.compiledOffset ELSE header.literalsOffset
(* The first, or the next, handler; after the last one the literals.        *)
GoToHandler(k) ==
  /\ at' = IF k <= Len(handlers) THEN k ELSE 1
  /\ phase' = IF k <= Len(handlers) THEN "code" ELSE "literals"
  /\ pos' = IF k <= Len(handlers) THEN handlers[k].record.compiledOffset ELSE header.literalsOffset

RecordsDone ==
  /\ phase = "records"
  /\ at > Len(handlers)
  /\ GoToHandler(1)
  /\ UNCHANGED <<input, header, script, handlers, literals, names, declared>>

PushInt8 == 65
PushInt16 == 110
OpCode(op) == IF op >= 64 THEN 64 + (op % 64) ELSE op
OperandWidth(op) ==
  CASE op >= 192 -> 4
    [] op >= 128 /\ op < 192 -> 2
    [] op >= 64 /\ op < 128 -> 1
    [] OTHER -> 0

(* The operand after op; its sign counts only where a number is pushed.      *)
SignedOpCodesButOne(width) == {PushInt8}   (* forgets pushint16 *)
SignedOpCodes(width) == CASE width = 2 -> {PushInt8, PushInt16} [] width = 1 -> {PushInt8}
Operand(op, p) ==
  LET bytes == BytesAt(data, p, OperandWidth(op))
  IN  CASE OperandWidth(op) = 0 -> 0
        [] OperandWidth(op) = 4 -> Signed(bytes)
        [] OTHER -> IF OpCode(op) \in SignedOpCodes(OperandWidth(op)) THEN Signed(bytes) ELSE Unsigned(bytes)

(* The index of the instruction that was appended last.                     *)
Mapped(posMap, rel, array) ==
  [p \in DOMAIN posMap \cup {rel} |-> IF p = rel THEN Len(array) ELSE posMap[p]]

CodeEnd(handler) == handler.record.compiledOffset + handler.record.compiledLen

ReadInstruction ==
  /\ phase = "code"
  /\ pos < CodeEnd(handlers[at])
  /\ IF ~Holds(data, pos, 1) THEN Throw
     ELSE LET op  == ReadUint8(data, pos)
              rel == pos - handlers[at].record.compiledOffset
              new == Append(handlers[at].array,
                            [opcode |-> OpCode(op), obj |-> Operand(op, pos + 1), pos |-> rel])
          IN  IF ~Holds(data, pos + 1, OperandWidth(op)) THEN Throw
              ELSE /\ handlers' = [handlers EXCEPT ![at].array = new,
                                     ![at].posMap = Mapped(@, rel, new)]
                   /\ pos' = pos + 1 + OperandWidth(op)
                   /\ UNCHANGED <<input, phase, at, header, script, literals, names, declared>>

ReadTables ==
  /\ phase = "code"
  /\ pos >= CodeEnd(handlers[at])
  /\ LET r == handlers[at].record
     IN  IF ~TableHolds(r.arguments, r.argumentOffset) \/ ~TableHolds(r.locals, r.localsOffset)
                                                       \/ ~TableHolds(r.globals, r.globalsOffset)
         THEN Throw
         ELSE /\ handlers' = [handlers EXCEPT
                                ![at].arguments = ReadVarnamesTable(r.arguments, r.argumentOffset),
                                ![at].locals = ReadVarnamesTable(r.locals, r.localsOffset),
                                ![at].globals = ReadVarnamesTable(r.globals, r.globalsOffset)]
              /\ GoToHandler(at + 1)
              /\ UNCHANGED <<input, header, script, literals, names, declared>>
-----------------------------------------------------------------------------
(***************************************************************************)
(* Literals: their records one after the other, then their values.          *)
(***************************************************************************)
StringType == 1
IntType == 4
FloatType == 9
Datum(kind, int, bytes) == [kind |-> kind, int |-> int, bytes |-> bytes]
Zero64 == [k \in 1 .. 8 |-> 0]

LiteralRecordLength == IF input.version >= 500 THEN 8 ELSE 6
LiteralType == IF input.version >= 500 THEN ReadUint32(data, pos) ELSE ReadUint16(data, pos)

ReadLiteralRecord ==
  /\ phase = "literals"
  /\ at <= header.literals
  /\ IF ~Holds(data, pos, LiteralRecordLength) THEN Throw
     ELSE /\ literals' = Append(literals, [type   |-> LiteralType,
                                           offset |-> ReadInt32(data, pos + LiteralRecordLength - 4),
                                           value  |-> Datum("none", 0, <<>>)])
          /\ pos' = pos + LiteralRecordLength
          /\ at' = at + 1
          /\ UNCHANGED <<input, phase, header, script, handlers, names, declared>>

LiteralRecordsDone ==
  /\ phase = "literals"
  /\ at > header.literals
  /\ phase' = "values"
  /\ at' = 1
  /\ UNCHANGED <<input, pos, header, script, handlers, literals, names, declared>>

(* Whether reading a value of len bytes at p throws.  A length of 0 becomes  *)
(* 2^32 - 1 when the byte for the final zero is taken off.                  *)
ValueThrows(type, p, len) ==
  CASE type = StringType -> len = 0 \/ ~Holds(data, p, len - 1)
    [] type = FloatType /\ len = 8 -> ~Holds(data, p, DoubleAdvance)
    [] type = FloatType /\ len = 10 -> \/ ~Holds(data, p, 10)
                                       \/ ExponentIsRefused(Exponent80(BytesAt(data, p, 10)))
    [] OTHER -> FALSE

Value(type, p, len) ==
  CASE type = StringType -> Datum("string", 0, ReadString(BytesAt(data, p, len - 1)))
    [] type = FloatType ->
         Datum("float", 0, CASE len = 8 -> ReadDouble(data, p, Unknown)
                             [] len = 10 -> ReadAppleFloat80(BytesAt(data, p, 10))
                             [] OTHER -> Zero64)
    [] OTHER -> Datum("void", 0, <<>>)

ReadLiteral ==
  /\ phase = "values"
  /\ at <= Len(literals)
  /\ LET l == literals[at]
         p == header.literalsData + l.offset
     IN  IF l.type = IntType
         THEN /\ literals' = [literals EXCEPT ![at].value = Datum("int", l.offset, <<>>)]
              /\ at' = at + 1
              /\ UNCHANGED <<input, phase, pos, header, script, handlers, names, declared>>
         ELSE IF ~Holds(data, p, 4) THEN Throw
         ELSE LET len == ReadUint32(data, p)
              IN  IF ValueThrows(l.type, p + 4, len) THEN Throw
                  ELSE /\ literals' = [literals EXCEPT ![at].value = Value(l.type, p + 4, len)]
                       /\ at' = at + 1
                       /\ UNCHANGED <<input, phase, pos, header, script, handlers, names, declared>>

LiteralsDone ==
  /\ phase = "values"
  /\ at > Len(literals)
  /\ phase' = "context"
  /\ at' = 1
  /\ UNCHANGED <<input, pos, header, script, handlers, literals, names, declared>>
-----------------------------------------------------------------------------
(***************************************************************************)
(* Names: a list of strings with their lengths, and what the ids in the     *)
(* tables of the script stand for.                                         *)
(***************************************************************************)
NamesCount == ReadUint16(input.names, 18)
NamesStart == ReadUint16(input.names, 16)

(* Where the name after the one at p begins.                                *)
AfterName(p) == p + 1 + ReadUint8(input.names, p)
NamesBegin(p) == IF Len(names) = 0 THEN NamesStart ELSE p

ReadName ==
  /\ phase = "names"
  /\ IF ~Holds(input.names, 0, 20) THEN Throw
     ELSE /\ Len(names) < NamesCount
          /\ LET p == NamesBegin(pos)
             IN  IF ~Holds(input.names, p, 1) \/ ~Holds(input.names, 0, AfterName(p)) THEN Throw
                 ELSE /\ names' = Append(names, ReadString(BytesAt(input.names, p + 1, AfterName(p) - p - 1)))
                      /\ pos' = AfterName(p)
                      /\ UNCHANGED <<input, phase, at, header, script, handlers, literals, declared>>

NamesDone ==
  /\ phase = "names"
  /\ Holds(input.names, 0, 20) /\ Len(names) = NamesCount
  /\ phase' = "header"
  /\ UNCHANGED <<input, pos, at, header, script, handlers, literals, names, declared>>

ValidName(id) == -1 < id /\ id < Len(names)
(* No bytes spell the name that stands for an id without one.               *)
UnknownName(id) == <<-1, id>>
GetName(id) == IF ValidName(id) THEN names[id + 1] ELSE UnknownName(id)
ValidNames(ids) == LET valid == SelectSeq(ids, ValidName) IN [i \in DOMAIN valid |-> GetName(valid[i])]

Me == <<109, 101>>
NotMe(name) == name # Me

(* The names one setContext adds.                                          *)
PropertyNames ==
  IF IsFactory THEN SelectSeq(ValidNames(script.properties), NotMe) ELSE ValidNames(script.properties)
ArgumentNamesWithMe(h) == [i \in DOMAIN h.arguments |-> GetName(h.arguments[i])]   (* keeps the first *)
ArgumentNames(h) ==
  LET ids == IF IsFactory /\ h.arguments # <<>> THEN Tail(h.arguments) ELSE h.arguments
  IN  [i \in DOMAIN ids |-> GetName(ids[i])]

HandlerNames(h, old) ==
  [name      |-> IF h.isGenericEvent THEN <<>> ELSE GetName(h.record.name),
   arguments |-> old.arguments \o ArgumentNames(h),
   locals    |-> old.locals \o ValidNames(h.locals),
   globals   |-> old.globals \o ValidNames(h.globals)]

NoNames(k) == [name |-> <<>>, arguments |-> <<>>, locals |-> <<>>, globals |-> <<>>]
NothingDeclared(n) ==
  [factory |-> <<>>, properties |-> <<>>, globals |-> <<>>, handlers |-> [k \in 1 .. n |-> NoNames(k)]]

(* Called for every number the script has in its context.                   *)
SetContext ==
  /\ phase = "context"
  /\ at <= input.listed
  /\ LET old == IF at = 1 THEN NothingDeclared(Len(handlers)) ELSE declared
     IN  declared' = [factory    |-> IF header.factory # -1 THEN GetName(header.factory) ELSE <<>>,
                      properties |-> old.properties \o PropertyNames,
                      globals    |-> old.globals \o ValidNames(script.globals),
                      handlers   |-> [k \in DOMAIN handlers |-> HandlerNames(handlers[k], old.handlers[k])]]
  /\ at' = at + 1
  /\ UNCHANGED <<input, phase, pos, header, script, handlers, literals, names>>

ContextDone ==
  /\ phase = "context"
  /\ at > input.listed
  /\ phase' = "done"
  /\ UNCHANGED <<input, pos, at, header, script, handlers, literals, names, declared>>
-----------------------------------------------------------------------------
(* The instruction a jump leads to.  An offset that is not the start of an   *)
(* instruction of this handler is taken for its first.                      *)
EndRepeat == 84
IndexAt(h, p) == IF p \in DOMAIN h.posMap THEN h.posMap[p] ELSE 1
JumpTargetForward(h, i) == IndexAt(h, h.array[i].pos + h.array[i].obj)   (* for endrepeat too *)
JumpTarget(h, i) ==
  IndexAt(h, IF h.array[i].opcode = EndRepeat THEN h.array[i].pos - h.array[i].obj
                                              ELSE h.array[i].pos + h.array[i].obj)

Init ==
  /\ input \in Inputs
  /\ phase = "names"
  /\ pos = 0
  /\ at = 1
  /\ header = NoHeader
  /\ script = [properties |-> <<>>, globals |-> <<>>]
  /\ handlers = <<>>
  /\ literals = <<>>
  /\ names = <<>>
  /\ declared = NothingDeclared(0)

Next ==
  \/ ReadHeader \/ ReadRecord \/ RecordsDone \/ ReadInstruction \/ ReadTables
  \/ ReadLiteralRecord \/ LiteralRecordsDone \/ ReadLiteral \/ LiteralsDone
  \/ ReadName \/ NamesDone \/ SetContext \/ ContextDone

Spec == Init /\ [][Next]_vars
=============================================================================

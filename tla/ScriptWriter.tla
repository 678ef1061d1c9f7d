----------------------------- MODULE ScriptWriter -----------------------------
(***************************************************************************)
(* External: how Director stores a script and its names.  Where it puts     *)
(* the parts is its own affair (layout).                                   *)
(*                                                                         *)
(* A program is [version, flags, factory, properties, globals, handlers,    *)
(* literals, names, layout, floatLen].  A handler is [name, code,           *)
(* arguments, locals, globals]; an instruction is [op, width, arg, to],     *)
(* with the index it jumps to, or 0, in "to".                              *)
(***************************************************************************)
EXTENDS ByteStream

Bytes(width, value) == [k \in 1 .. width |-> (value \div 256 ^ (width - k)) % 256]
Table(ids) == FlattenSeq([i \in DOMAIN ids |-> Bytes(2, ids[i])])
Zeros(n) == [k \in 1 .. n |-> 0]

FirstByte(op, width) ==
  CASE width = 0 -> op [] width = 1 -> op [] width = 2 -> op + 64 [] width = 4 -> op + 128
Length(code) == FoldLeft(LAMBDA sum, ins : sum + 1 + ins.width, 0, code)
Start(code, i) == Length(SubSeq(code, 1, i - 1))
EndRepeatOp == 84
Arg(code, i) ==
  CASE code[i].to = 0 -> code[i].arg
    [] code[i].op = EndRepeatOp -> Start(code, i) - Start(code, code[i].to)
    [] OTHER -> Start(code, code[i].to) - Start(code, i)
CodeBytes(code) ==
  FlattenSeq([i \in DOMAIN code |->
    <<FirstByte(code[i].op, code[i].width)>> \o Bytes(code[i].width, Arg(code, i))])

(* The 80-bit form of the double of which bytes are the eight bytes.         *)
Extended(bytes) ==
  LET exponent == 16 * (bytes[1] % 128) + bytes[2] \div 16
      wide     == CASE exponent = 0 -> 0 [] exponent = 2047 -> 32767 [] OTHER -> exponent - 1023 + 16383
      integer  == IF exponent = 0 THEN 0 ELSE 128
      tail     == [k \in 1 .. 8 |-> IF k = 8 THEN 0 ELSE bytes[k + 1]]
  IN  <<128 * (bytes[1] \div 128) + wide \div 256, wide % 256,
        integer + 8 * (tail[1] % 16) + tail[2] \div 32>>
      \o [k \in 1 .. 7 |-> IF k = 7 THEN 0
                           ELSE 8 * (tail[k + 1] % 32) + tail[k + 2] \div 32]

ValueBytes(literal, floatLen) ==
  CASE literal.kind = "string" -> Bytes(4, Len(literal.bytes) + 1) \o literal.bytes \o <<0>>
    [] literal.kind = "float" -> Bytes(4, floatLen)
                                 \o IF floatLen = 8 THEN literal.bytes ELSE Extended(literal.bytes)
    [] literal.kind = "void" -> Bytes(4, 0)
    [] literal.kind = "int" -> <<>>
TypeOf(literal) ==
  CASE literal.kind = "string" -> 1 [] literal.kind = "int" -> 4
    [] literal.kind = "float" -> 9 [] literal.kind = "void" -> 0
Values(program) ==
  [i \in DOMAIN program.literals |-> ValueBytes(program.literals[i], program.floatLen)]
ValueOffset(program, i) == Len(FlattenSeq(SubSeq(Values(program), 1, i - 1)))

RecordSize(program) == IF program.version >= 850 THEN 46 ELSE 42
LiteralRecords(program) ==
  FlattenSeq([i \in DOMAIN program.literals |->
    LET l == program.literals[i]
    IN  Bytes(IF program.version >= 500 THEN 4 ELSE 2, TypeOf(l))
        \o Bytes(4, IF l.kind = "int" THEN l.int ELSE ValueOffset(program, i))])

(* The parts of a chunk; records are filled in when the offsets are known.   *)
Part(program, key) ==
  LET h == program.handlers[key[2]]
  IN  CASE key[1] = "properties" -> Table(program.properties)
        [] key[1] = "globals" -> Table(program.globals)
        [] key[1] = "records" -> Zeros(Len(program.handlers) * RecordSize(program))
        [] key[1] = "literals" -> LiteralRecords(program)
        [] key[1] = "values" -> FlattenSeq(Values(program))
        [] key[1] = "code" -> CodeBytes(h.code)
        [] key[1] = "arguments" -> Table(h.arguments)
        [] key[1] = "locals" -> Table(h.locals)
        [] key[1] = "handlerGlobals" -> Table(h.globals)

(* Where the parts begin, and where the last one ends.                       *)
Starts(program) ==
  FoldLeft(LAMBDA starts, key : Append(starts, Last(starts) + Len(Part(program, key))),
           <<92>>, program.layout)
OffsetOf(program, starts, key) ==
  Bytes(4, starts[CHOOSE i \in DOMAIN program.layout : program.layout[i] = key])

HandlerRecord(program, starts, k, lenError) ==
  LET h == program.handlers[k]
      At(name) == OffsetOf(program, starts, <<name, k>>)
  IN  Bytes(2, h.name) \o Bytes(2, 0)
      \o Bytes(4, Length(h.code) + (IF k = 1 THEN lenError ELSE 0)) \o At("code")
      \o Bytes(2, Len(h.arguments)) \o At("arguments") \o Bytes(2, Len(h.locals)) \o At("locals")
      \o Bytes(2, Len(h.globals)) \o At("handlerGlobals")
      \o Zeros(12) \o Zeros(RecordSize(program) - 42)

HeaderBytes(program, starts) ==
  LET At(name) == OffsetOf(program, starts, <<name, 0>>)
  IN  Zeros(38) \o Bytes(4, program.flags) \o Zeros(6) \o Bytes(2, program.factory) \o Zeros(10)
      \o Bytes(2, Len(program.properties)) \o At("properties")
      \o Bytes(2, Len(program.globals)) \o At("globals")
      \o Bytes(2, Len(program.handlers)) \o At("records")
      \o Bytes(2, Len(program.literals)) \o At("literals")
      \o Zeros(4) \o At("values")

(* lenError: by how much the length stored for the first handler is wrong.   *)
ScriptBytes(program, lenError) ==
  LET starts == Starts(program)
  IN  HeaderBytes(program, starts) \o
      FlattenSeq([i \in DOMAIN program.layout |->
        IF program.layout[i][1] = "records"
        THEN FlattenSeq([k \in DOMAIN program.handlers |->
                           HandlerRecord(program, starts, k, lenError)])
        ELSE Part(program, program.layout[i])])

NamesBytes(strings) ==
  Zeros(16) \o Bytes(2, 20) \o Bytes(2, Len(strings))
  \o FlattenSeq([i \in DOMAIN strings |-> <<Len(strings[i])>> \o strings[i]])
=============================================================================

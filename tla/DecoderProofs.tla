---------------------------- MODULE DecoderProofs ----------------------------
(***************************************************************************)
(* Module DecoderStream for every set of operand bytes: the decoder's four *)
(* flags and its half-built instruction say no more and no less than the   *)
(* bytes since the last instruction, so that it implements                 *)
(* InstructionStream and leaves nothing behind but its prefix.             *)
(***************************************************************************)
EXTENDS DecoderStream, SequenceTheorems, TLAPS

\* The abstract decoder reads the same tables.
LEMMA SameTables ==
    /\ \A b : /\ IS!NoPrefix(b) = NoPrefix(b) /\ IS!CBPrefix(b) = CBPrefix(b)
              /\ IS!EDPrefix(b) = EDPrefix(b)
    /\ \A d : IS!Instruction(d) = Instruction(d) /\ IS!Operands(d) = Operands(d)
    /\ \A i, p : IS!Substitute(i, p) = Substitute(i, p)
    /\ IS!NoInstruction = NoInstruction /\ IS!nullopt = nullopt /\ IS!Byte = Byte
<1>1. \A b : IS!NoPrefix(b) = NoPrefix(b)
      BY DEF NoPrefix, NoPreX0ZTable, NoPreX3ZTable, RegisterLoad, IndirectLoad,
             IS!NoPrefix, IS!NoPreX0ZTable, IS!NoPreX3ZTable, IS!RegisterLoad, IS!IndirectLoad,
             parse_opcode, Details, Plain, ToAddress, FromAddress, OnCondition, Displaced,
             Followed, Carrying, Pick, r, rp, rp2, cc, rTable, rpTable, rp2Table, ccTable,
             aluTable, get_alt_name, IS!parse_opcode, IS!Details, IS!Plain, IS!ToAddress,
             IS!FromAddress, IS!OnCondition, IS!Displaced, IS!Followed, IS!Carrying, IS!Pick,
             IS!r, IS!rp, IS!rp2, IS!cc, IS!rTable, IS!rpTable, IS!rp2Table, IS!ccTable,
             IS!aluTable, IS!get_alt_name
<1>2. \A b : IS!CBPrefix(b) = CBPrefix(b)
      BY DEF CBPrefix, IS!CBPrefix, parse_opcode, Details, Carrying, Pick, r, rTable, rotTable,
             IS!parse_opcode, IS!Details, IS!Carrying, IS!Pick, IS!r, IS!rTable, IS!rotTable
<1>3. \A b : IS!EDPrefix(b) = EDPrefix(b)
      BY DEF EDPrefix, EDX1ZTable, IS!EDPrefix, IS!EDX1ZTable, parse_opcode, Details, Plain,
             ToAddress, FromAddress, Followed, Carrying, Pick, r, rp, rTable, rpTable, bliTable,
             IS!parse_opcode, IS!Details, IS!Plain, IS!ToAddress, IS!FromAddress, IS!Followed,
             IS!Carrying, IS!Pick, IS!r, IS!rp, IS!rTable, IS!rpTable, IS!bliTable
<1>4. \A d : IS!Instruction(d) = Instruction(d) /\ IS!Operands(d) = Operands(d)
      BY DEF Instruction, Operands, IS!Instruction, IS!Operands
<1>5. \A i, p : IS!Substitute(i, p) = Substitute(i, p)
      BY DEF Substitute, Renamed, IndexNames, IS!Substitute, IS!Renamed, IS!IndexNames
<1>6. IS!NoInstruction = NoInstruction /\ IS!nullopt = nullopt /\ IS!Byte = Byte
      BY DEF NoInstruction, nullopt, Byte, IS!NoInstruction, IS!nullopt, IS!Byte
<1> QED BY <1>1, <1>2, <1>3, <1>4, <1>5, <1>6

-----------------------------------------------------------------------------
(* What the tables say of the bytes that follow an opcode.                 *)

Fields == {"name", "dest", "addr_dest", "source", "addr_source", "condition",
           "needs_displacement", "immediate_bytes", "immediate_value"}

\* A displacement or up to two bytes, and only for an opcode that does not use
\* HL as an address.
Shape(d) ==
    /\ DOMAIN d = Fields
    /\ d.needs_displacement \in BOOLEAN /\ d.immediate_bytes \in 0..2
    /\ d.needs_displacement => d.immediate_bytes = 0
    /\ Operands(d) > 0 => ~Indexes(d)

LEMMA ShapeOfDetails ==
    /\ \A name, dest, source : /\ Shape(Details(name, dest, source))
                               /\ Shape(ToAddress(Details(name, dest, source)))
                               /\ Shape(FromAddress(Details(name, dest, source)))
    /\ \A name : Shape(Plain(name)) /\ Shape(Displaced(Plain(name)))
    /\ \A k \in 0..2 : \A name, dest, source :
          /\ Shape(Followed(Details(name, dest, source), k))
          /\ dest # "HL" => Shape(Followed(ToAddress(Details(name, dest, source)), k))
          /\ source # "HL" => Shape(Followed(FromAddress(Details(name, dest, source)), k))
    /\ \A d, c : Shape(d) => Shape(OnCondition(d, c)) /\ Shape(Carrying(d, c))
<1>1. \A name, dest, source : /\ Shape(Details(name, dest, source))
                              /\ Shape(ToAddress(Details(name, dest, source)))
                              /\ Shape(FromAddress(Details(name, dest, source)))
      BY DEF Shape, Fields, Details, ToAddress, FromAddress, Operands
<1>2. \A name : Shape(Plain(name)) /\ Shape(Displaced(Plain(name)))
      BY DEF Shape, Fields, Details, Plain, Displaced, Operands, Indexes
<1>3. \A k \in 0..2 : \A name, dest, source :
          /\ Shape(Followed(Details(name, dest, source), k))
          /\ dest # "HL" => Shape(Followed(ToAddress(Details(name, dest, source)), k))
          /\ source # "HL" => Shape(Followed(FromAddress(Details(name, dest, source)), k))
      BY DEF Shape, Fields, Details, Followed, ToAddress, FromAddress, Operands, Indexes
<1>4. \A d, c : Shape(d) => Shape(OnCondition(d, c)) /\ Shape(Carrying(d, c))
      BY DEF Shape, Fields, OnCondition, Carrying, Operands, Indexes
<1> QED BY <1>1, <1>2, <1>3, <1>4

OpcodeOK(o) == o.x \in 0..3 /\ o.y \in 0..7 /\ o.z \in 0..7 /\ o.p \in 0..3 /\ o.q \in 0..1

LEMMA OpcodeType == ASSUME NEW b \in Byte PROVE OpcodeOK(parse_opcode(b))
BY DEF OpcodeOK, parse_opcode, Byte

LEMMA NoPreX0Shape == ASSUME NEW o, OpcodeOK(o) PROVE Shape(NoPreX0ZTable(o))
<1>1. CASE o.z = 0
  <2>1. /\ Shape(Plain("NOP")) /\ Shape(Details("EX", "A", get_alt_name["A"]))
        /\ Shape(Displaced(Plain("DJNZ"))) /\ Shape(Displaced(Plain("JR")))
        BY ShapeOfDetails
  <2>2. \A c : Shape(OnCondition(Displaced(Plain("JR")), c))
        BY <2>1, ShapeOfDetails
  <2>3. CASE o.y \in 0..3
        BY <1>1, <2>1, <2>3 DEF NoPreX0ZTable
  <2>4. CASE o.y \in 4..7
        BY <1>1, <2>2, <2>4 DEF NoPreX0ZTable
  <2> QED BY <2>3, <2>4 DEF OpcodeOK
<1>2. CASE o.z = 1
  <2>1. Shape(Followed(Details("LD", rp(o.p), "Immediate"), 2))
        BY ShapeOfDetails
  <2> QED BY <1>2, <2>1, ShapeOfDetails DEF NoPreX0ZTable
<1>3. CASE o.z = 2
  <2> DEFINE r1 == Pick(<<"BC", "DE", "Immediate", "Immediate">>, o.p)
  <2>1. r1 # "HL"
        BY DEF OpcodeOK, Pick
  <2> HIDE DEF r1
  <2>2. \A r2 : /\ Shape(Followed(ToAddress(Details("LD", r1, r2)), 2))
                /\ Shape(Followed(FromAddress(Details("LD", r2, r1)), 2))
        BY <2>1, ShapeOfDetails
  <2>3. Shape(IndirectLoad(o))
        BY <2>2 DEF IndirectLoad, r1
  <2> QED BY <1>3, <2>3 DEF NoPreX0ZTable
<1>4. CASE o.z \in 3..5
      BY <1>4, ShapeOfDetails DEF NoPreX0ZTable
<1>5. CASE o.z = 6
  <2>1. Shape(Followed(Details("LD", r(o.y), "Immediate"), 1))
        BY ShapeOfDetails
  <2> QED BY <1>5, <2>1 DEF NoPreX0ZTable
<1>6. CASE o.z = 7
      BY <1>6, ShapeOfDetails DEF NoPreX0ZTable
<1> QED BY <1>1, <1>2, <1>3, <1>4, <1>5, <1>6 DEF OpcodeOK

LEMMA NoPreX3Shape == ASSUME NEW o, OpcodeOK(o) PROVE Shape(NoPreX3ZTable(o))
<1>1. \A name : /\ Shape(Plain(name))
                /\ Shape(Followed(ToAddress(Details(name, "Immediate", "None")), 2))
                /\ Shape(Followed(Details(name, "Immediate", "None"), 2))
                /\ Shape(Followed(Details(name, "A", "Immediate"), 1))
      BY ShapeOfDetails
<1>2. \A name, c : /\ Shape(OnCondition(Plain(name), c))
                   /\ Shape(OnCondition(Followed(ToAddress(Details(name, "Immediate", "None")), 2), c))
                   /\ Shape(OnCondition(Followed(Details(name, "A", "Immediate"), 1), c))
      BY <1>1, ShapeOfDetails
<1>3. CASE o.z \in {0, 2, 4}
      BY <1>2, <1>3 DEF NoPreX3ZTable
<1>4. CASE o.z = 1
      BY <1>1, <1>4, ShapeOfDetails DEF OpcodeOK, NoPreX3ZTable, Pick
<1>5. CASE o.z = 3
  <2>1. /\ Shape(Followed(ToAddress(Details("OUT", "Immediate", "A")), 1))
        /\ Shape(Followed(FromAddress(Details("IN", "A", "Immediate")), 1))
        /\ Shape(ToAddress(Details("EX", "SP", "HL"))) /\ Shape(Details("EX", "DE", "HL"))
        BY ShapeOfDetails
  <2> QED BY <1>1, <1>5, <2>1 DEF OpcodeOK, NoPreX3ZTable, Pick
<1>6. CASE o.z = 5
      BY <1>1, <1>6, ShapeOfDetails DEF NoPreX3ZTable
<1>7. CASE o.z = 6
      BY <1>2, <1>7 DEF NoPreX3ZTable
<1>8. CASE o.z = 7
      BY <1>8, ShapeOfDetails DEF NoPreX3ZTable
<1> QED BY <1>3, <1>4, <1>5, <1>6, <1>7, <1>8 DEF OpcodeOK

LEMMA NoPrefixShape == ASSUME NEW b \in Byte PROVE Shape(NoPrefix(b))
<1> DEFINE o == parse_opcode(b)
<1>1. OpcodeOK(o)
      BY OpcodeType
<1> HIDE DEF o
<1>2. Shape(NoPreX0ZTable(o)) /\ Shape(NoPreX3ZTable(o))
      BY <1>1, NoPreX0Shape, NoPreX3Shape
<1>3. Shape(RegisterLoad(o))
      BY ShapeOfDetails DEF RegisterLoad
<1>4. o.x \in 0..3
      BY <1>1 DEF OpcodeOK
<1> QED BY <1>2, <1>3, <1>4, ShapeOfDetails DEF NoPrefix, o

LEMMA EDPrefixShape == ASSUME NEW b \in Byte PROVE Shape(EDPrefix(b))
<1> DEFINE o == parse_opcode(b)
<1>1. OpcodeOK(o)
      BY OpcodeType
<1> HIDE DEF o
<1>2. Shape(EDX1ZTable(o))
  <2>1. CASE o.z \in {0, 1, 2, 4, 5}
        BY <2>1, ShapeOfDetails DEF EDX1ZTable
  <2>2. CASE o.z = 3
    <3>1. \A q : /\ Shape(Followed(ToAddress(Details("LD", "Immediate", q)), 2))
                 /\ Shape(Followed(FromAddress(Details("LD", q, "Immediate")), 2))
          BY ShapeOfDetails
    <3> QED BY <2>2, <3>1 DEF EDX1ZTable
  <2>3. CASE o.z = 6
        BY <2>3, ShapeOfDetails DEF EDX1ZTable
  <2>4. CASE o.z = 7
        BY <1>1, <2>4, ShapeOfDetails DEF OpcodeOK, EDX1ZTable, Pick
  <2> QED BY <1>1, <2>1, <2>2, <2>3, <2>4 DEF OpcodeOK
<1> QED BY <1>2, ShapeOfDetails DEF EDPrefix, o

\* No opcode after 0xCB has operands, and no prefix byte taken for an opcode.
LEMMA NoOperands ==
    /\ \A b : Operands(CBPrefix(b)) = 0
    /\ \A b \in IS!IndexPrefix : Operands(NoPrefix(b)) = 0
<1>1. \A b : Operands(CBPrefix(b)) = 0
      BY DEF CBPrefix, Operands, Details, Carrying
<1>2. \A b \in IS!IndexPrefix : NoPrefix(b) = Plain("NOP")
      BY DEF IS!IndexPrefix, NoPrefix, NoPreX3ZTable, parse_opcode
<1> QED BY <1>1, <1>2 DEF Operands, Plain, Details

-----------------------------------------------------------------------------
(* The bytes of an instruction, and what the decoder has made of them.     *)

\* s begins with h prefix bytes, for a decoder with prefix q.
Begun(q, h, s) ==
    \/ h = 0 /\ s[1] \notin IS!IndexPrefix /\ (q = 1 \/ s[1] \notin {203, 237})
    \/ h = 1 /\ q # 1 /\ s[1] \in PrefixByte
             /\ (s[1] \in IS!IndexPrefix => s[2] \notin PrefixByte)
    \/ h = 2 /\ q = 1 /\ s[1] \in IS!IndexPrefix /\ s[2] = 203

DetailsOf(h, s) == CASE h = 1 /\ s[1] = 203 -> CBPrefix(s[h + 1])
                     [] h = 1 /\ s[1] = 237 -> EDPrefix(s[h + 1])
                     [] OTHER               -> NoPrefix(s[h + 1])

\* What is kept of an opcode that waits for operands.
Kept(h, s) == LET i == Instruction(DetailsOf(h, s))
              IN  IF h = 1 /\ s[1] \in IS!IndexPrefix THEN Substitute(i, s[1]) ELSE i

Waiting(h, s) ==
    LET d == DetailsOf(h, s)
    IN  \/ /\ d.needs_displacement /\ needs_displacement /\ immediate_bytes = 0
           /\ ~needs_high_imm
           /\ Len(s) = h + 1 /\ instruction_progress = Kept(h, s)
        \/ /\ d.immediate_bytes \in 1..2 /\ ~needs_displacement
           /\ immediate_bytes = d.immediate_bytes /\ ~needs_high_imm
           /\ Len(s) = h + 1 /\ instruction_progress = Kept(h, s)
        \/ /\ d.immediate_bytes = 2 /\ ~needs_displacement
           /\ immediate_bytes = 1 /\ needs_high_imm
           /\ Len(s) = h + 2 /\ instruction_progress = [Kept(h, s) EXCEPT !.imm_low = s[h + 2]]

StreamInv ==
    /\ TypeOK
    /\ byte \in Byte /\ pending \in Seq(Byte)
    /\ AtOpcode =>
          /\ instruction_progress = NoInstruction /\ ~needs_high_imm
          /\ prefix = 0 => pending = <<>>
          /\ prefix \in PrefixByte => pending = <<prefix>>
          /\ prefix = 1 => \/ pending = <<>>
                           \/ \E p \in IS!IndexPrefix : pending = <<p, 203>>
    /\ ~AtOpcode =>
          /\ prefix \in {0, 1} /\ current_instruction = nullopt
          /\ \E h \in 0..2 : Begun(prefix, h, pending) /\ Waiting(h, pending)

LEMMA HeaderIs ==
    ASSUME NEW s \in Seq(Byte), NEW h \in 0..2, Begun(prefix, h, s), Len(s) > h
    PROVE  /\ IS!Header(s) = h /\ IS!HasOpcode(s) /\ IS!OpcodeDetails(s) = DetailsOf(h, s)
           /\ ~IS!Swallowed(s) /\ ~IS!EndsPrefixes(s)
<1>1. IS!Header(s) = h
      BY DEF Begun, IS!Header, IS!IndexPrefix, PrefixByte
<1>2. ~IS!Swallowed(s) /\ ~IS!EndsPrefixes(s)
      BY DEF Begun, IS!Swallowed, IS!EndsPrefixes, IS!IndexPrefix, PrefixByte
<1>3. IS!OpcodeDetails(s) = DetailsOf(h, s)
      BY <1>1, SameTables DEF IS!OpcodeDetails, DetailsOf
<1> QED BY <1>1, <1>2, <1>3 DEF IS!HasOpcode

LEMMA DetailsShape ==
    ASSUME NEW s \in Seq(Byte), NEW h \in 0..2, Len(s) > h
    PROVE  Shape(DetailsOf(h, s))
<1>1. s[h + 1] \in Byte
      BY ElementOfSeq
<1>2. Shape(CBPrefix(s[h + 1]))
      BY ShapeOfDetails DEF CBPrefix
<1> QED BY <1>1, <1>2, NoPrefixShape, EDPrefixShape DEF DetailsOf

\* A record with the fields of an instruction.
InstructionFields == {"name", "dest", "addr_dest", "source", "addr_source", "condition",
                      "displacement", "imm_low", "imm_high"}
IsInstruction(i) == i = [x \in InstructionFields |-> i[x]]

LEMMA InstructionType ==
    /\ \A d : IsInstruction(Instruction(d))
    /\ \A i, v : IsInstruction(i) => /\ \A f : IsInstruction([i EXCEPT ![f] = v])
                                     /\ i # nullopt
    /\ \A i, p : IsInstruction(i) => IsInstruction(Substitute(i, p))
<1>1. \A d : IsInstruction(Instruction(d))
      BY DEF IsInstruction, InstructionFields, Instruction
<1>2. ASSUME NEW i, IsInstruction(i) PROVE i # nullopt
  <2>1. "dest" \in DOMAIN i
        BY <1>2 DEF IsInstruction, InstructionFields
  <2> QED BY <2>1 DEF nullopt
<1>3. ASSUME NEW i, NEW v, NEW f, IsInstruction(i) PROVE IsInstruction([i EXCEPT ![f] = v])
      BY <1>3 DEF IsInstruction
<1>4. ASSUME NEW i, NEW p, IsInstruction(i) PROVE IsInstruction(Substitute(i, p))
      BY <1>4 DEF IsInstruction, Substitute
<1> QED BY <1>1, <1>2, <1>3, <1>4

\* Renaming registers and taking an operand byte do not disturb each other.
LEMMA Commutes ==
    ASSUME NEW i, IsInstruction(i), NEW f \in {"displacement", "imm_low", "imm_high"},
           NEW v, NEW p
    PROVE  Substitute([i EXCEPT ![f] = v], p) = [Substitute(i, p) EXCEPT ![f] = v]
<1> DEFINE j == [i EXCEPT ![f] = v]
<1>1. /\ j.name = i.name /\ j.dest = i.dest /\ j.addr_dest = i.addr_dest
      /\ j.source = i.source /\ j.addr_source = i.addr_source
      BY DEF IsInstruction, InstructionFields
<1>2. \A x : [j EXCEPT !.source = x] = [[i EXCEPT !.source = x] EXCEPT ![f] = v]
      BY DEF IsInstruction, InstructionFields
<1>3. \A x : [j EXCEPT !.dest = x] = [[i EXCEPT !.dest = x] EXCEPT ![f] = v]
      BY DEF IsInstruction, InstructionFields
<1>4. \A x, y : [j EXCEPT !.dest = x, !.source = y]
                  = [[i EXCEPT !.dest = x, !.source = y] EXCEPT ![f] = v]
      BY DEF IsInstruction, InstructionFields
<1> HIDE DEF j
<1> QED BY ZenonT(40), <1>1, <1>2, <1>3, <1>4 DEF Substitute, j

-----------------------------------------------------------------------------
(* Steps.                                                                  *)

\* A state of the invariant between two instructions, and within one.
LEMMA Between ==
    ASSUME ~needs_displacement', immediate_bytes' = 0, ~needs_high_imm',
           needs_displacement' \in BOOLEAN, needs_high_imm' \in BOOLEAN,
           instruction_progress' = NoInstruction, byte' \in Byte, pending' \in Seq(Byte),
           \/ prefix' \in {0, 1} /\ pending' = <<>>
           \/ prefix' \in PrefixByte /\ pending' = <<prefix'>>
           \/ prefix' = 1 /\ \E p \in IS!IndexPrefix : pending' = <<p, 203>>
    PROVE  StreamInv'
BY DEF StreamInv, TypeOK, PrefixType, AtOpcode, PrefixByte

LEMMA Within ==
    ASSUME needs_displacement' \in BOOLEAN, needs_high_imm' \in BOOLEAN,
           immediate_bytes' \in 0..2, needs_displacement' \/ immediate_bytes' # 0,
           byte' \in Byte, pending' \in Seq(Byte), prefix' \in {0, 1},
           current_instruction' = nullopt,
           NEW h \in 0..2, Begun(prefix', h, pending'), Waiting(h, pending)'
    PROVE  StreamInv'
BY DEF StreamInv, TypeOK, PrefixType, AtOpcode

LEMMA OpcodeStep ==
    ASSUME StreamInv, AtOpcode, NEW b \in Byte, NEW h \in 0..2, NEW s, s = Append(pending, b),
           Begun(prefix, h, s), Len(s) = h + 1, Remember(b),
           NEW d, d = DetailsOf(h, s),
           needs_displacement' = d.needs_displacement, immediate_bytes' = d.immediate_bytes,
           needs_high_imm' = needs_high_imm,
           prefix' = IF h = 1 THEN 0 ELSE prefix,
           IF Operands(d) > 0 THEN instruction_progress' = Kept(h, s) /\ Wait
                              ELSE Return(Instruction(d)) /\ UNCHANGED instruction_progress
    PROVE  IS!Read(s) /\ StreamInv'
<1>1. s \in Seq(Byte) /\ pending \in Seq(Byte) /\ Len(pending) = h
  <2>1. pending \in Seq(Byte)
        BY DEF StreamInv
  <2> QED BY <2>1, AppendProperties
<1>2. /\ IS!Header(s) = h /\ IS!HasOpcode(s) /\ IS!OpcodeDetails(s) = d
      /\ ~IS!Swallowed(s) /\ ~IS!EndsPrefixes(s)
  <2>1. Len(s) > h
        OBVIOUS
  <2>2. IS!OpcodeDetails(s) = DetailsOf(h, s)
        BY <1>1, <2>1, HeaderIs
  <2> QED BY <1>1, <2>1, <2>2, HeaderIs
<1>3. Shape(d)
  <2>1. Len(s) > h
        OBVIOUS
  <2>2. Shape(DetailsOf(h, s))
        BY <1>1, <2>1, DetailsShape
  <2> QED BY <2>2
<1>4. prefix' \in {0, 1} /\ ((prefix' # 1) <=> (prefix # 1))
      /\ Begun(prefix', h, s)
  <2>1. CASE h = 1
        BY <2>1 DEF Begun
  <2>2. CASE h # 1
    <3>1. prefix \in {0, 1}
      <4>1. CASE h = 2
            BY <4>1 DEF Begun
      <4>2. CASE h = 0
        <5>1. prefix \in PrefixByte => pending = <<prefix>>
              BY DEF StreamInv
        <5>2. pending # <<prefix>>
              BY <1>1, <4>2
        <5> QED BY <5>1, <5>2 DEF StreamInv, TypeOK, PrefixType
      <4> QED BY <2>2, <4>1, <4>2
    <3> QED BY <2>2, <3>1
  <2> QED BY <2>1, <2>2
<1>5. IS!Complete(s) <=> Operands(d) = 0
  <2>1. Operands(d) \in Nat
        BY <1>3 DEF Shape, Operands
  <2> QED BY <1>2, <2>1, SameTables DEF IS!Complete
<1>6. byte' = b
      BY DEF Remember
<1>7. CASE Operands(d) > 0
  <2>1. /\ instruction_progress' = Kept(h, s) /\ current_instruction' = nullopt
        /\ pending' = s
        BY <1>7 DEF Wait, Remember
  <2>2. IS!Read(s)
        BY <1>2, <1>4, <1>5, <1>7, <2>1, SameTables DEF IS!Read
  <2>3. d.needs_displacement \/ d.immediate_bytes \in 1..2
        BY <1>3, <1>7 DEF Shape, Operands
  <2>4. ~needs_high_imm
        BY DEF StreamInv
  <2>5. Waiting(h, pending)'
        BY <1>3, <2>1, <2>3, <2>4 DEF Waiting, Shape
  <2>6. /\ needs_displacement' \in BOOLEAN /\ immediate_bytes' \in 0..2
        /\ needs_displacement' \/ immediate_bytes' # 0
        BY <1>3, <2>3 DEF Shape
  <2>7. StreamInv'
    <3>1. /\ Begun(prefix', h, pending') /\ pending' \in Seq(Byte) /\ byte' \in Byte
          /\ prefix' \in {0, 1}
          BY <1>1, <1>4, <1>6, <2>1
    <3>2. needs_high_imm' \in BOOLEAN
          BY DEF StreamInv, TypeOK
    <3> QED BY <2>1, <2>5, <2>6, <3>1, <3>2, Within
  <2> QED BY <2>2, <2>7
<1>8. CASE Operands(d) = 0
  <2>1. current_instruction' = Instruction(d) /\ instruction_progress' = instruction_progress
        BY <1>8 DEF Return
  <2>2. current_instruction' # nullopt
        BY <2>1, InstructionType
  <2>3. pending' = <<>>
        BY <1>4, <2>2 DEF Remember
  <2>4. d.needs_displacement = FALSE /\ d.immediate_bytes = 0
        BY <1>3, <1>8 DEF Shape, Operands
  <2>5. IS!Meaning(s) = Instruction(d)
        BY <1>2, <1>8, <2>4, SameTables DEF IS!Meaning, IS!WithOperands
  <2>6. IS!Read(s)
        BY <1>2, <1>4, <1>5, <1>8, <2>1, <2>3, <2>5 DEF IS!Read
  <2>7. instruction_progress = NoInstruction /\ ~needs_high_imm /\ needs_high_imm \in BOOLEAN
        BY DEF StreamInv, TypeOK
  <2>8. StreamInv'
    <3>1. /\ ~needs_displacement' /\ immediate_bytes' = 0 /\ ~needs_high_imm'
          /\ needs_displacement' \in BOOLEAN /\ needs_high_imm' \in BOOLEAN
          BY <2>4, <2>7
    <3>2. /\ instruction_progress' = NoInstruction /\ byte' \in Byte
          /\ pending' \in Seq(Byte)
          BY <1>6, <2>1, <2>3, <2>7
    <3>3. prefix' \in {0, 1} /\ pending' = <<>>
          BY <1>4, <2>3
    <3> QED BY <3>1, <3>2, <3>3, Between
  <2> QED BY <2>6, <2>8
<1>9. Operands(d) > 0 \/ Operands(d) = 0
      BY <1>3 DEF Shape, Operands
<1> QED BY <1>7, <1>8, <1>9

\* The operand byte b, of an instruction with h prefix bytes.
LEMMA OperandStep ==
    ASSUME StreamInv, ~AtOpcode, NEW b \in Byte, Remember(b),
           Displacement(b) \/ LowByte(b) \/ LastByte(b)
    PROVE  IS!Read(Append(pending, b)) /\ StreamInv'
<1> DEFINE s == Append(pending, b)
<1>1. PICK h \in 0..2 : Begun(prefix, h, pending) /\ Waiting(h, pending)
      BY DEF StreamInv
<1> DEFINE d == DetailsOf(h, pending)
           i == Instruction(d)
           k == Kept(h, pending)
<1>2. /\ pending \in Seq(Byte) /\ s \in Seq(Byte) /\ Len(s) = Len(pending) + 1
      /\ \A x \in 1..Len(pending) : s[x] = pending[x]
      /\ s[Len(pending) + 1] = b
  <2>1. pending \in Seq(Byte)
        BY DEF StreamInv
  <2> QED BY <2>1, AppendProperties
<1> HIDE DEF s
<1>3. Len(pending) \in {h + 1, h + 2}
      BY <1>1 DEF Waiting
<1>4. s[1] = pending[1] /\ s[h + 1] = pending[h + 1] /\ (h > 0 => s[2] = pending[2])
      BY <1>2, <1>3
<1>5. Begun(prefix, h, s) /\ DetailsOf(h, s) = d /\ Kept(h, s) = k
  <2>1. Begun(prefix, h, s)
        BY <1>1, <1>4 DEF Begun
  <2>2. DetailsOf(h, s) = d
        BY <1>4 DEF DetailsOf
  <2>3. Kept(h, s) = k
        BY <1>4, <2>2 DEF Kept
  <2> QED BY <2>1, <2>2, <2>3
<1>6. /\ IS!Header(s) = h /\ IS!HasOpcode(s) /\ IS!OpcodeDetails(s) = d
      /\ ~IS!Swallowed(s) /\ ~IS!EndsPrefixes(s)
  <2>1. Len(s) > h
        BY <1>2, <1>3
  <2> QED BY <1>2, <1>5, <2>1, HeaderIs
<1>7. Shape(d)
  <2>1. Len(pending) > h
        BY <1>3
  <2> QED BY <1>2, <2>1, DetailsShape
<1>8. /\ k = IF h = 1 /\ s[1] \in IS!IndexPrefix THEN Substitute(i, s[1]) ELSE i
      /\ IsInstruction(i) /\ IsInstruction(k)
      BY <1>4, InstructionType DEF Kept
<1>9. prefix \in {0, 1} /\ byte' \in Byte
      BY DEF StreamInv, Remember
<1>10. Waiting(h, pending)
      BY <1>1
<1> HIDE DEF d, k, i
\* With its last operand byte an instruction is returned and forgotten.
<1>11. ASSUME NEW j, IsInstruction(j), Finish(j), prefix' = prefix,
              Len(s) = h + 1 + Operands(d), IS!Meaning(s) = j,
              ~needs_displacement', immediate_bytes' = 0, ~needs_high_imm',
              needs_displacement' \in BOOLEAN, needs_high_imm' \in BOOLEAN
       PROVE  IS!Read(s) /\ StreamInv'
  <2>1. current_instruction' = j /\ j # nullopt /\ instruction_progress' = NoInstruction
        BY <1>11, InstructionType DEF Finish, Return
  <2>2. pending' = <<>>
        BY <1>9, <1>11, <2>1 DEF Remember
  <2>3. IS!Complete(s)
        BY <1>6, <1>11, SameTables DEF IS!Complete
  <2>4. IS!Read(s)
        BY <1>6, <1>11, <2>1, <2>2, <2>3 DEF IS!Read
  <2>5. prefix' \in {0, 1} /\ pending' \in Seq(Byte)
        BY <1>9, <1>11, <2>2
  <2>6. StreamInv'
        BY <1>9, <1>11, <2>1, <2>2, <2>5, Between
  <2> QED BY <2>4, <2>6
<1> DEFINE bytes == SubSeq(s, h + 2, Len(s))
\* What InstructionStream makes of the operand bytes.
<1>12. /\ \A x \in 1..(Len(s) - h - 1) : bytes[x] = s[h + 1 + x]
       /\ Operands(d) > 0 =>
            IS!Meaning(s) = LET j == IS!WithOperands(i, d, bytes)
                            IN  IF h = 1 /\ s[1] \in IS!IndexPrefix THEN Substitute(j, s[1]) ELSE j
  <2>1. \A x \in (h + 2)..Len(s) : s[x] \in Byte
        BY <1>2, ElementOfSeq
  <2>2. \A x \in 1..(Len(s) - (h + 2) + 1) : bytes[x] = s[h + 2 + x - 1]
        BY <1>2, <2>1, SubSeqProperties
  <2>3. \A x \in 1..(Len(s) - h - 1) : bytes[x] = s[h + 1 + x]
        BY <1>2, <2>2
  <2>4. Operands(d) > 0 =>
            IS!Meaning(s) = LET j == IS!WithOperands(i, d, bytes)
                            IN  IF h = 1 /\ s[1] \in IS!IndexPrefix THEN Substitute(j, s[1]) ELSE j
        BY <1>6, SameTables DEF IS!Meaning, i
  <2> QED BY <2>3, <2>4
<1> HIDE DEF bytes
<1>13. ASSUME NEW f \in {"displacement", "imm_low", "imm_high"}, NEW j, IsInstruction(j), NEW v
       PROVE  (IF h = 1 /\ s[1] \in IS!IndexPrefix THEN Substitute([j EXCEPT ![f] = v], s[1])
                                                  ELSE [j EXCEPT ![f] = v])
              = [(IF h = 1 /\ s[1] \in IS!IndexPrefix THEN Substitute(j, s[1]) ELSE j)
                    EXCEPT ![f] = v]
       BY <1>13, Commutes
<1>14. CASE Displacement(b)
  <2>1. /\ d.needs_displacement /\ immediate_bytes = 0 /\ ~needs_high_imm
        /\ Len(pending) = h + 1 /\ instruction_progress = k
        BY <1>10, <1>14 DEF Waiting, Displacement, d, k
  <2>2. d.immediate_bytes = 0 /\ Operands(d) = 1
        BY <1>7, <2>1 DEF Shape, Operands
  <2>3. bytes[1] = b
        BY <1>2, <1>12, <2>1
  <2>4. IS!WithOperands(i, d, bytes) = [i EXCEPT !.displacement = b]
        BY <2>1, <2>2, <2>3 DEF IS!WithOperands
  <2>5. IS!Meaning(s) = [k EXCEPT !.displacement = b]
    <3> DEFINE moved == [i EXCEPT !.displacement = b]
    <3>1. [k EXCEPT !.displacement = b]
            = IF h = 1 /\ s[1] \in IS!IndexPrefix THEN Substitute(moved, s[1]) ELSE moved
          BY <1>8, <1>13
    <3>2. IS!WithOperands(i, d, bytes) = moved
          BY <2>4
    <3> HIDE DEF moved
    <3> QED BY <1>12, <2>2, <3>1, <3>2
  <2>6. Finish([k EXCEPT !.displacement = b]) /\ prefix' = prefix
        BY <1>14, <2>1 DEF Displacement
  <2>7. IsInstruction([k EXCEPT !.displacement = b])
        BY <1>8, InstructionType
  <2>8. /\ ~needs_displacement' /\ immediate_bytes' = 0 /\ ~needs_high_imm'
        /\ needs_displacement' \in BOOLEAN /\ needs_high_imm' \in BOOLEAN
        BY <1>14, <2>1 DEF Displacement, StreamInv, TypeOK
  <2>9. Len(s) = h + 1 + Operands(d)
        BY <1>2, <2>1, <2>2
  <2> QED BY <1>11, <2>5, <2>6, <2>7, <2>8, <2>9 DEF s
<1>15. CASE LowByte(b)
  <2>1. /\ d.immediate_bytes = 2 /\ ~needs_high_imm
        /\ Len(pending) = h + 1 /\ instruction_progress = k
        BY <1>10, <1>15 DEF Waiting, LowByte, d, k
  <2>2. /\ current_instruction' = nullopt /\ prefix' = prefix /\ pending' = s
        /\ ~needs_displacement' /\ immediate_bytes' = 1 /\ needs_high_imm' = TRUE
        /\ needs_displacement' \in BOOLEAN
        BY <1>15 DEF LowByte, Wait, Remember, s, StreamInv, TypeOK
  <2>3. instruction_progress' = [k EXCEPT !.imm_low = b]
        BY <1>15, <2>1 DEF LowByte
  <2>4. Operands(d) = 2 /\ Len(s) = h + 2
        BY <1>2, <1>7, <2>1 DEF Shape, Operands
  <2>5. ~IS!Complete(s)
        BY <1>6, <2>4, SameTables DEF IS!Complete
  <2>6. IS!Read(s)
        BY <1>6, <2>2, <2>5, SameTables DEF IS!Read
  <2>7. s[h + 2] = b
        BY <1>2, <2>1
  <2>8. Waiting(h, pending)'
        BY <1>5, <2>1, <2>2, <2>3, <2>4, <2>7 DEF Waiting
  <2>9. Begun(prefix', h, pending') /\ pending' \in Seq(Byte) /\ prefix' \in {0, 1}
        BY <1>2, <1>5, <1>9, <2>2
  <2>10. StreamInv'
        BY <1>9, <2>2, <2>8, <2>9, Within
  <2> QED BY <2>6, <2>10 DEF s
<1>16. CASE LastByte(b)
  <2>1. /\ ~needs_displacement' /\ immediate_bytes' = 0 /\ ~needs_high_imm'
        /\ needs_displacement' \in BOOLEAN /\ needs_high_imm' \in BOOLEAN
        /\ prefix' = prefix
        BY <1>16 DEF LastByte, StreamInv, TypeOK
  <2>2. CASE ~needs_high_imm
    <3>1. /\ d.immediate_bytes = 1 /\ Len(pending) = h + 1 /\ instruction_progress = k
          BY <1>10, <1>16, <2>2 DEF Waiting, LastByte, d, k
    <3>2. ~d.needs_displacement /\ Operands(d) = 1 /\ Len(s) = h + 1 + Operands(d)
          BY <1>2, <1>7, <3>1 DEF Shape, Operands
    <3>3. bytes[1] = b
          BY <1>2, <1>12, <3>1
    <3>4. IS!WithOperands(i, d, bytes) = [i EXCEPT !.imm_low = b]
          BY <3>1, <3>2, <3>3 DEF IS!WithOperands
    <3>5. IS!Meaning(s) = [k EXCEPT !.imm_low = b]
      <4> DEFINE filled == [i EXCEPT !.imm_low = b]
      <4>1. [k EXCEPT !.imm_low = b]
              = IF h = 1 /\ s[1] \in IS!IndexPrefix THEN Substitute(filled, s[1]) ELSE filled
            BY <1>8, <1>13
      <4>2. IS!WithOperands(i, d, bytes) = filled
            BY <3>4
      <4> HIDE DEF filled
      <4> QED BY <1>12, <3>2, <4>1, <4>2
    <3>6. Finish([k EXCEPT !.imm_low = b])
          BY <1>16, <2>2, <3>1 DEF LastByte
    <3>7. IsInstruction([k EXCEPT !.imm_low = b])
          BY <1>8, InstructionType
    <3> QED BY <1>11, <2>1, <3>2, <3>5, <3>6, <3>7 DEF s
  <2>3. CASE needs_high_imm
    <3> DEFINE low  == pending[h + 2]
               half == [i EXCEPT !.imm_low = low]
               kept == [k EXCEPT !.imm_low = low]
    <3>1. /\ d.immediate_bytes = 2 /\ Len(pending) = h + 2
          /\ instruction_progress = kept
          BY <1>10, <1>16, <2>3 DEF Waiting, LastByte, d, k
    <3>2. ~d.needs_displacement /\ Operands(d) = 2 /\ Len(s) = h + 1 + Operands(d)
          BY <1>2, <1>7, <3>1 DEF Shape, Operands
    <3>3. bytes[1] = low /\ bytes[2] = b
          BY <1>2, <1>12, <3>1
    <3>4. IS!WithOperands(i, d, bytes) = [half EXCEPT !.imm_high = b]
          BY <3>1, <3>2, <3>3 DEF IS!WithOperands
    <3>5. IsInstruction(half) /\ IsInstruction(kept) /\ IsInstruction([kept EXCEPT !.imm_high = b])
          BY <1>8, InstructionType
    <3>6. kept = IF h = 1 /\ s[1] \in IS!IndexPrefix THEN Substitute(half, s[1]) ELSE half
          BY <1>8, <1>13
    <3> HIDE DEF half, kept
    <3>7. IS!Meaning(s) = [kept EXCEPT !.imm_high = b]
          BY SMTT(30), <1>12, <1>13, <3>2, <3>4, <3>5, <3>6
    <3>8. Finish([kept EXCEPT !.imm_high = b])
          BY <1>16, <2>3, <3>1 DEF LastByte
    <3> QED BY <1>11, <2>1, <3>2, <3>5, <3>7, <3>8 DEF s
  <2> QED BY <2>2, <2>3
<1> QED BY <1>14, <1>15, <1>16

\* The first byte of an instruction whose prefix it is.
LEMMA PrefixStep ==
    ASSUME StreamInv, NEW b \in Byte, Prefix(b), Remember(b)
    PROVE  IS!Read(Append(pending, b)) /\ StreamInv'
<1>1. pending = <<>> /\ prefix = 0 /\ b \in PrefixByte /\ prefix' = b
      BY DEF Prefix, StreamInv
<1>2. Append(pending, b) = <<b>> /\ <<b>> \in Seq(Byte)
      BY <1>1
<1>3. current_instruction' = nullopt /\ pending' = <<b>> /\ byte' = b
      BY <1>2 DEF Prefix, Wait, Remember
<1>4. IS!Header(<<b>>) = 1 /\ ~IS!Swallowed(<<b>>) /\ ~IS!EndsPrefixes(<<b>>)
      BY <1>1 DEF IS!Header, IS!Swallowed, IS!EndsPrefixes, IS!IndexPrefix, PrefixByte
<1>5. ~IS!Complete(<<b>>)
      BY <1>4 DEF IS!Complete, IS!HasOpcode
<1>6. (prefix # 1) /\ (prefix' # 1)
      BY <1>1 DEF PrefixByte
<1>7. IS!Read(<<b>>)
      BY <1>3, <1>4, <1>5, <1>6, SameTables DEF IS!Read
<1>8. /\ ~needs_displacement' /\ immediate_bytes' = 0 /\ ~needs_high_imm'
      /\ needs_displacement' \in BOOLEAN /\ needs_high_imm' \in BOOLEAN
      /\ instruction_progress' = NoInstruction
      BY DEF Prefix, AtOpcode, owed, StreamInv, TypeOK
<1>9. StreamInv'
      BY <1>1, <1>2, <1>3, <1>8, Between
<1> QED BY <1>2, <1>7, <1>9

\* An opcode without a prefix, or after 0xDD 0xCB or 0xFD 0xCB.
LEMMA PlainStep ==
    ASSUME StreamInv, NEW b \in Byte, Opcode(b), Remember(b)
    PROVE  IS!Read(Append(pending, b)) /\ StreamInv'
<1> DEFINE s == Append(pending, b)
           d == NoPrefix(b)
<1>1. pending \in Seq(Byte) /\ AtOpcode /\ prefix' = prefix /\ prefix \in {0, 1}
      BY DEF StreamInv, Opcode
<1>2. Shape(d)
      BY NoPrefixShape
<1>3. /\ needs_displacement' = d.needs_displacement /\ immediate_bytes' = d.immediate_bytes
      /\ needs_high_imm' = needs_high_imm
      /\ IF Operands(d) > 0 THEN instruction_progress' = Instruction(d) /\ Wait
                            ELSE Return(Instruction(d)) /\ UNCHANGED instruction_progress
  <2>1. Operands(d) > 0 <=> (d.needs_displacement \/ d.immediate_bytes > 0)
        BY <1>2 DEF Shape, Operands
  <2>2. Begin(d, Instruction(d), d.needs_displacement)
        BY DEF Opcode
  <2> HIDE DEF d
  <2> QED BY <2>1, <2>2 DEF Begin
<1>4. CASE pending = <<>> /\ b \notin IS!IndexPrefix
  <2>1. s = <<b>> /\ Len(s) = 1 /\ s[1] = b
        BY <1>4
  <2>2. Begun(prefix, 0, s) /\ DetailsOf(0, s) = d /\ Kept(0, s) = Instruction(d)
        BY <1>4, <2>1 DEF Begun, DetailsOf, Kept, Opcode, PrefixByte
  <2> HIDE DEF d, s
  <2>3. s = Append(pending, b)
        BY DEF s
  <2>4. IS!Read(s) /\ StreamInv'
    <3> DEFINE h == 0
    <3>1. /\ h \in 0..2 /\ Begun(prefix, h, s) /\ Len(s) = h + 1 /\ d = DetailsOf(h, s)
          /\ prefix' = IF h = 1 THEN 0 ELSE prefix
          BY <1>1, <2>1, <2>2
    <3>2. IF Operands(d) > 0 THEN instruction_progress' = Kept(h, s) /\ Wait
                            ELSE Return(Instruction(d)) /\ UNCHANGED instruction_progress
          BY <1>3, <2>2
    <3> HIDE DEF h
    <3> QED BY <1>1, <1>3, <2>3, <3>1, <3>2, OpcodeStep
  <2> QED BY <2>3, <2>4
<1>5. CASE prefix = 1 /\ \E p \in IS!IndexPrefix : pending = <<p, 203>>
  <2>1. PICK p \in IS!IndexPrefix : pending = <<p, 203>>
        BY <1>5
  <2>2. Len(s) = 3 /\ s[1] = p /\ s[2] = 203 /\ s[3] = b
    <3>1. Len(pending) = 2 /\ pending[1] = p /\ pending[2] = 203
          BY <2>1
    <3>2. /\ Len(s) = Len(pending) + 1 /\ s[Len(pending) + 1] = b
          /\ \A x \in 1..Len(pending) : s[x] = pending[x]
          BY <1>1, AppendProperties
    <3> HIDE DEF s
    <3> QED BY <3>1, <3>2
  <2>3. Begun(prefix, 2, s) /\ DetailsOf(2, s) = d /\ Kept(2, s) = Instruction(d)
        BY <1>5, <2>2 DEF Begun, DetailsOf, Kept
  <2> HIDE DEF d, s
  <2>4. s = Append(pending, b)
        BY DEF s
  <2>5. IS!Read(s) /\ StreamInv'
    <3> DEFINE h == 2
    <3>1. /\ h \in 0..2 /\ Begun(prefix, h, s) /\ Len(s) = h + 1 /\ d = DetailsOf(h, s)
          /\ prefix' = IF h = 1 THEN 0 ELSE prefix
          BY <1>1, <2>2, <2>3
    <3>2. IF Operands(d) > 0 THEN instruction_progress' = Kept(h, s) /\ Wait
                            ELSE Return(Instruction(d)) /\ UNCHANGED instruction_progress
          BY <1>3, <2>3
    <3> HIDE DEF h
    <3> QED BY <1>1, <1>3, <2>4, <3>1, <3>2, OpcodeStep
  <2> QED BY <2>4, <2>5
<1>6. CASE prefix = 1 /\ pending = <<>> /\ b \in IS!IndexPrefix
  <2>1. s = <<b>> /\ Len(s) = 1 /\ s[1] = b
        BY <1>6
  <2>2. Operands(d) = 0
        BY <1>6, NoOperands
  <2>3. /\ IS!Header(s) = 0 /\ ~IS!Swallowed(s) /\ ~IS!EndsPrefixes(s)
        /\ IS!OpcodeDetails(s) = d
        BY <1>6, <2>1, SameTables DEF IS!Header, IS!Swallowed, IS!EndsPrefixes, IS!OpcodeDetails
  <2>4. d.needs_displacement = FALSE /\ d.immediate_bytes = 0
        BY <1>2, <2>2 DEF Shape, Operands
  <2> HIDE DEF d, s
  <2>5. IS!Complete(s)
        BY <2>1, <2>2, <2>3, SameTables DEF IS!Complete, IS!HasOpcode
  <2>6. IS!Meaning(s) = Instruction(d)
        BY <2>2, <2>3, <2>4, SameTables DEF IS!Meaning, IS!WithOperands
  <2>7. current_instruction' = Instruction(d) /\ instruction_progress' = instruction_progress
        BY <1>3, <2>2 DEF Return
  <2>8. byte' = b /\ pending' = <<>>
        BY <1>1, <1>6, <2>7, InstructionType DEF Remember
  <2>9. IS!Read(s)
        BY <1>1, <2>3, <2>5, <2>6, <2>7, <2>8 DEF IS!Read
  <2>10. /\ ~needs_displacement' /\ immediate_bytes' = 0 /\ ~needs_high_imm'
         /\ needs_displacement' \in BOOLEAN /\ needs_high_imm' \in BOOLEAN
         /\ instruction_progress' = NoInstruction
         BY <1>1, <1>3, <2>4, <2>7 DEF StreamInv, TypeOK
  <2>11. prefix' \in {0, 1} /\ pending' \in Seq(Byte)
         BY <1>1, <2>8
  <2>12. StreamInv'
         BY <2>8, <2>10, <2>11, Between
  <2> QED BY <2>9, <2>12 DEF s
<1>7. \/ pending = <<>>
      \/ prefix = 1 /\ \E p \in IS!IndexPrefix : pending = <<p, 203>>
      BY <1>1 DEF StreamInv
<1>8. b \in IS!IndexPrefix => prefix = 1
      BY DEF Opcode, IS!IndexPrefix, PrefixByte
<1> QED BY <1>4, <1>5, <1>6, <1>7, <1>8

\* The opcode after the prefix byte q.
LEMMA PrefixedStep ==
    ASSUME StreamInv, AtOpcode, NEW b \in Byte, Remember(b), prefix \in PrefixByte,
           prefix \in IS!IndexPrefix => b \notin PrefixByte, prefix' = 0,
           NEW d, d = DetailsOf(1, <<prefix, b>>),
           needs_displacement' = d.needs_displacement, immediate_bytes' = d.immediate_bytes,
           needs_high_imm' = needs_high_imm,
           IF Operands(d) > 0
              THEN instruction_progress' = Kept(1, <<prefix, b>>) /\ Wait
              ELSE Return(Instruction(d)) /\ UNCHANGED instruction_progress
    PROVE  IS!Read(Append(pending, b)) /\ StreamInv'
<1> DEFINE s == <<prefix, b>>
           h == 1
<1>1. pending = <<prefix>> /\ prefix # 1
      BY DEF StreamInv, PrefixByte
<1>2. s = Append(pending, b)
      BY <1>1
<1>3. /\ h \in 0..2 /\ Begun(prefix, h, s) /\ Len(s) = h + 1 /\ d = DetailsOf(h, s)
      /\ prefix' = IF h = 1 THEN 0 ELSE prefix
      BY <1>1 DEF Begun
<1>4. IF Operands(d) > 0 THEN instruction_progress' = Kept(h, s) /\ Wait
                        ELSE Return(Instruction(d)) /\ UNCHANGED instruction_progress
      OBVIOUS
<1> HIDE DEF s, h
<1>5. IS!Read(s) /\ StreamInv'
      BY <1>2, <1>3, <1>4, OpcodeStep
<1> QED BY <1>2, <1>5

LEMMA CBStep ==
    ASSUME StreamInv, NEW b \in Byte, decode_CB(b), Remember(b)
    PROVE  IS!Read(Append(pending, b)) /\ StreamInv'
<1> DEFINE d == CBPrefix(b)
<1>1. d = DetailsOf(1, <<prefix, b>>) /\ prefix \in PrefixByte /\ prefix \notin IS!IndexPrefix
      BY DEF decode_CB, DetailsOf, PrefixByte, IS!IndexPrefix
<1>2. Operands(d) = 0 /\ Shape(d)
      BY NoOperands, ShapeOfDetails DEF CBPrefix
<1>3. d.needs_displacement = FALSE /\ d.immediate_bytes = 0
      BY <1>2 DEF Shape, Operands
<1>4. /\ AtOpcode /\ prefix' = 0 /\ Return(Instruction(d)) /\ UNCHANGED instruction_progress
      /\ needs_displacement' = d.needs_displacement /\ immediate_bytes' = d.immediate_bytes
      /\ needs_high_imm' = needs_high_imm
      BY <1>3 DEF decode_CB, AtOpcode, owed, StreamInv, TypeOK
<1> HIDE DEF d
<1> QED BY <1>1, <1>2, <1>4, PrefixedStep

LEMMA EDStep ==
    ASSUME StreamInv, NEW b \in Byte, decode_ED(b), Remember(b)
    PROVE  IS!Read(Append(pending, b)) /\ StreamInv'
<1> DEFINE d == EDPrefix(b)
<1>1. /\ d = DetailsOf(1, <<prefix, b>>) /\ prefix \in PrefixByte
      /\ prefix \notin IS!IndexPrefix
      BY DEF decode_ED, DetailsOf, PrefixByte, IS!IndexPrefix
<1>2. Kept(1, <<prefix, b>>) = Instruction(d)
      BY <1>1 DEF Kept
<1>3. Operands(d) > 0 <=> (d.needs_displacement \/ d.immediate_bytes > 0)
      BY EDPrefixShape DEF Shape, Operands
<1>4. AtOpcode /\ prefix' = 0 /\ Begin(d, Instruction(d), d.needs_displacement)
      BY DEF decode_ED
<1> HIDE DEF d
<1>5. /\ needs_displacement' = d.needs_displacement /\ immediate_bytes' = d.immediate_bytes
      /\ needs_high_imm' = needs_high_imm
      /\ IF Operands(d) > 0
            THEN instruction_progress' = Kept(1, <<prefix, b>>) /\ Wait
            ELSE Return(Instruction(d)) /\ UNCHANGED instruction_progress
      BY <1>2, <1>3, <1>4 DEF Begin
<1> QED BY <1>1, <1>4, <1>5, PrefixedStep

\* After 0xDD or 0xFD: another prefix byte, 0xCB, or an opcode.
LEMMA DDFDStep ==
    ASSUME StreamInv, NEW b \in Byte, decode_DDFD(b), Remember(b)
    PROVE  IS!Read(Append(pending, b)) /\ StreamInv'
<1>1. /\ AtOpcode /\ prefix \in IS!IndexPrefix /\ prefix \in PrefixByte /\ prefix # 1
      /\ pending = <<prefix>>
      BY DEF decode_DDFD, IS!IndexPrefix, PrefixByte, StreamInv
<1>2. Append(pending, b) = <<prefix, b>> /\ <<prefix, b>> \in Seq(Byte) /\ <<prefix>> \in Seq(Byte)
  <2>1. prefix \in Byte
        BY <1>1 DEF IS!IndexPrefix, Byte
  <2>2. <<prefix, b>> \in Seq(Byte) /\ <<prefix>> \in Seq(Byte)
        BY <2>1
  <2>3. Append(<<prefix>>, b) = <<prefix, b>>
    <3>1. /\ Append(<<prefix>>, b) \in Seq(Byte) /\ Len(Append(<<prefix>>, b)) = 2
          /\ Append(<<prefix>>, b)[1] = prefix /\ Append(<<prefix>>, b)[2] = b
          BY <2>2, AppendProperties
    <3> DEFINE s == Append(<<prefix>>, b)
               u == <<prefix, b>>
    <3>2. Len(u) = 2 /\ u[1] = prefix /\ u[2] = b
          OBVIOUS
    <3>3. s \in Seq(Byte) /\ Len(s) = 2 /\ s[1] = prefix /\ s[2] = b /\ u \in Seq(Byte)
          BY <2>2, <3>1
    <3> HIDE DEF s, u
    <3>4. Len(s) = Len(u) /\ \A n \in 1..Len(s) : s[n] = u[n]
          BY <3>2, <3>3
    <3>5. s = u
          BY <3>3, <3>4, SeqEqual
    <3> QED BY <3>5 DEF s, u
  <2> QED BY <1>1, <2>2, <2>3
<1>3. CASE Swallow(b)
  <2>1. IS!Swallowed(<<prefix, b>>)
        BY <1>1, <1>3 DEF Swallow, PrefixByte, IS!IndexPrefix, IS!Swallowed
  <2>2. /\ current_instruction' = [NoInstruction EXCEPT !.name = "NONI"]
        /\ prefix' = prefix /\ instruction_progress' = instruction_progress
        /\ needs_displacement' = needs_displacement /\ immediate_bytes' = immediate_bytes
        /\ needs_high_imm' = needs_high_imm
        BY <1>3 DEF Swallow, Return, owed
  <2>3. current_instruction' # nullopt
    <3>1. IsInstruction(NoInstruction)
          BY DEF IsInstruction, InstructionFields, NoInstruction
    <3> QED BY <2>2, <3>1, InstructionType
  <2>4. byte' = b /\ pending' = <<prefix>>
        BY <1>1, <2>2, <2>3 DEF Remember, IS!IndexPrefix
  <2>5. IS!Read(<<prefix, b>>)
    <3>1. <<prefix, b>>[1] = prefix
          OBVIOUS
    <3> QED BY <2>1, <2>2, <2>4, <3>1, SameTables DEF IS!Read
  <2>6. /\ ~needs_displacement' /\ immediate_bytes' = 0 /\ ~needs_high_imm'
        /\ needs_displacement' \in BOOLEAN /\ needs_high_imm' \in BOOLEAN
        /\ instruction_progress' = NoInstruction
        BY <1>1, <2>2 DEF AtOpcode, StreamInv, TypeOK
  <2>7. StreamInv'
        BY <1>1, <1>2, <2>2, <2>4, <2>6, Between
  <2> QED BY <1>2, <2>5, <2>7
<1>4. CASE b = 203 /\ prefix' = AltPrefix(prefix) /\ Wait /\ UNCHANGED <<owed, instruction_progress>>
  <2>1. IS!EndsPrefixes(<<prefix, b>>) /\ ~IS!Swallowed(<<prefix, b>>) /\ ~IS!Complete(<<prefix, b>>)
        BY <1>1, <1>4 DEF IS!EndsPrefixes, IS!Swallowed, IS!Complete, IS!HasOpcode, IS!IndexPrefix
  <2>2. /\ current_instruction' = nullopt /\ pending' = <<prefix, 203>> /\ byte' = b
        /\ prefix' = 1
        BY <1>2, <1>4 DEF Wait, Remember, AltPrefix
  <2>3. IS!Read(<<prefix, b>>)
        BY <1>1, <1>4, <2>1, <2>2, SameTables DEF IS!Read
  <2>4. /\ ~needs_displacement' /\ immediate_bytes' = 0 /\ ~needs_high_imm'
        /\ needs_displacement' \in BOOLEAN /\ needs_high_imm' \in BOOLEAN
        /\ instruction_progress' = NoInstruction
        BY <1>1, <1>4 DEF AtOpcode, owed, StreamInv, TypeOK
  <2>5. pending' \in Seq(Byte) /\ byte' \in Byte
        BY <1>2, <1>4, <2>2
  <2>6. StreamInv'
        BY <1>1, <2>2, <2>4, <2>5, Between
  <2> QED BY <1>2, <2>3, <2>6
<1>5. CASE /\ b \notin PrefixByte
           /\ prefix' = 0
           /\ LET d == NoPrefix(b)
                  i == Instruction(d)
                  waits == Operands(d) > 0
              IN  Begin(d, IF waits THEN Substitute(i, prefix) ELSE i,
                        d.needs_displacement \/ (waits /\ Indexes(i)))
  <2> DEFINE d == NoPrefix(b)
             i == Instruction(d)
             k == IF Operands(d) > 0 THEN Substitute(i, prefix) ELSE i
             displaced == d.needs_displacement \/ (Operands(d) > 0 /\ Indexes(i))
  <2>1. Shape(d)
        BY NoPrefixShape
  <2>2. d = DetailsOf(1, <<prefix, b>>)
        BY <1>1 DEF DetailsOf, IS!IndexPrefix
  <2>3. Operands(d) > 0 => k = Kept(1, <<prefix, b>>)
        BY <1>1, <2>2 DEF Kept
  <2>4. Indexes(i) = Indexes(d)
        BY DEF Indexes, Instruction
  <2>5. Begin(d, k, displaced)
        BY <1>5
  <2>6. Operands(d) = 0 => k = Instruction(d)
        OBVIOUS
  <2> HIDE DEF d, k, i
  <2>7. displaced = d.needs_displacement
        BY <2>1, <2>4 DEF Shape
  <2>8. Operands(d) > 0 <=> (d.needs_displacement \/ d.immediate_bytes > 0)
        BY <2>1 DEF Shape, Operands
  <2>9. Operands(d) > 0 \/ Operands(d) = 0
        BY <2>1 DEF Shape, Operands
  <2> HIDE DEF displaced
  <2>10. /\ needs_displacement' = d.needs_displacement /\ immediate_bytes' = d.immediate_bytes
         /\ needs_high_imm' = needs_high_imm
         /\ IF Operands(d) > 0
               THEN instruction_progress' = Kept(1, <<prefix, b>>) /\ Wait
               ELSE Return(Instruction(d)) /\ UNCHANGED instruction_progress
         BY <2>3, <2>5, <2>6, <2>7, <2>8, <2>9 DEF Begin
  <2> QED BY <1>1, <1>5, <2>2, <2>10, PrefixedStep
<1> QED BY <1>3, <1>4, <1>5 DEF decode_DDFD

LEMMA DecodeStep ==
    ASSUME StreamInv, NEW b \in Byte, decode(b), Remember(b)
    PROVE  IS!Read(Append(pending, b)) /\ StreamInv'
<1>1. CASE AtOpcode
  <2>1. Prefix(b) \/ Opcode(b) \/ decode_CB(b) \/ decode_ED(b) \/ decode_DDFD(b)
        BY <1>1 DEF AtOpcode, decode, Displacement, LowByte, LastByte
  <2> QED BY <2>1, PrefixStep, PlainStep, CBStep, EDStep, DDFDStep
<1>2. CASE ~AtOpcode
  <2>1. Displacement(b) \/ LowByte(b) \/ LastByte(b)
        BY <1>2 DEF decode, Prefix, Opcode, decode_CB, decode_ED, decode_DDFD
  <2> QED BY <1>2, <2>1, OperandStep
<1> QED BY <1>1, <1>2

-----------------------------------------------------------------------------
(* Behaviours.                                                             *)

LEMMA Initially == StreamInit => StreamInv /\ IS!Init
<1> SUFFICES ASSUME StreamInit PROVE StreamInv /\ IS!Init
    OBVIOUS
<1>1. /\ prefix = 0 /\ needs_displacement = FALSE /\ immediate_bytes = 0
      /\ needs_high_imm = FALSE /\ instruction_progress = NoInstruction
      /\ current_instruction = nullopt /\ byte = 0 /\ pending = <<>>
      BY DEF StreamInit, Init
<1>2. 0 \in Byte
      BY DEF Byte
<1>3. StreamInv
  <2>1. TypeOK /\ AtOpcode
    <3>1. immediate_bytes \in 0..2 /\ PrefixType
          BY <1>1 DEF PrefixType
    <3>2. needs_displacement \in BOOLEAN /\ needs_high_imm \in BOOLEAN /\ AtOpcode
          BY <1>1 DEF AtOpcode
    <3> QED BY <3>1, <3>2 DEF TypeOK
  <2>2. pending \in Seq(Byte)
        BY <1>1, EmptySeq
  <2>3. prefix \notin PrefixByte /\ prefix # 1
        BY <1>1 DEF PrefixByte
  <2> QED BY <1>1, <1>2, <2>1, <2>2, <2>3 DEF StreamInv
<1>4. IS!Init
      BY <1>1, <1>2, SameTables DEF IS!Init
<1> QED BY <1>3, <1>4

LEMMA Steps ==
    ASSUME StreamInv, [StreamNext]_<<vars, byte, pending>>
    PROVE  StreamInv' /\ [IS!Next]_<<byte, pending, prefix # 1, current_instruction>>
<1>1. CASE StreamNext
  <2>1. PICK b \in Fetched : decode(b) /\ Remember(b)
        BY <1>1 DEF StreamNext
  <2>2. b \in Byte
        BY <2>1, OperandAssumption DEF Fetched
  <2>3. IS!Read(Append(pending, b)) /\ StreamInv'
        BY <2>1, <2>2, DecodeStep
  <2>4. byte' = b
        BY <2>1 DEF Remember
  <2> QED BY <2>2, <2>3, <2>4, SameTables DEF IS!Next
<1>2. CASE UNCHANGED <<vars, byte, pending>>
  <2>1. /\ prefix' = prefix /\ needs_displacement' = needs_displacement
        /\ immediate_bytes' = immediate_bytes /\ needs_high_imm' = needs_high_imm
        /\ instruction_progress' = instruction_progress
        /\ current_instruction' = current_instruction /\ byte' = byte /\ pending' = pending
        BY <1>2 DEF vars, owed
  <2>2. StreamInv'
        BY <2>1 DEF StreamInv, TypeOK, PrefixType, AtOpcode, Waiting
  <2> QED BY <2>1, <2>2
<1> QED BY <1>1, <1>2

\* The bytes since the last instruction determine what the decoder holds:
\* decode() never reaches a mixture of two instructions.
THEOREM StreamInvariant == StreamSpec => []StreamInv
<1>1. StreamInit => StreamInv
      BY Initially
<1>2. StreamInv /\ [StreamNext]_<<vars, byte, pending>> => StreamInv'
      BY Steps
<1> QED BY <1>1, <1>2, PTL DEF StreamSpec

\* The prefix is never the value that decode_DDFD means to store for 0xDDCB,
\* and decode() never owes more than two bytes of an immediate operand.
THEOREM TypeSafe == StreamSpec => []TypeOK
<1>1. StreamInv => TypeOK
      BY DEF StreamInv
<1> QED BY <1>1, StreamInvariant, PTL

\* When decode() returns an instruction it owes no byte and keeps nothing of it.
THEOREM CleanBoundarySafe == StreamSpec => []CleanBoundary
<1>1. StreamInv => CleanBoundary
      BY DEF StreamInv, CleanBoundary
<1> QED BY <1>1, StreamInvariant, PTL

\* No prefix is pending while operand bytes are collected.
THEOREM PrefixUsedUpSafe == StreamSpec => []PrefixUsedUp
<1>1. StreamInv => PrefixUsedUp
      BY DEF StreamInv, PrefixUsedUp
<1> QED BY <1>1, StreamInvariant, PTL

\* fetch_opcode never reads more than five bytes for one instruction.
THEOREM LengthBoundSafe == StreamSpec => []LengthBound
<1>1. StreamInv => LengthBound
  <2> SUFFICES ASSUME StreamInv PROVE Len(pending) < 5
      BY DEF LengthBound, MaxBytes
  <2>1. CASE AtOpcode
    <3>1. pending = <<>> \/ pending = <<prefix>> \/ \E p : pending = <<p, 203>>
          BY <2>1 DEF StreamInv, TypeOK, PrefixType
    <3>2. Len(<<>>) = 0 /\ Len(<<prefix>>) = 1 /\ \A p : Len(<<p, 203>>) = 2
          OBVIOUS
    <3> QED BY <3>1, <3>2
  <2>2. CASE ~AtOpcode
    <3>1. PICK h \in 0..2 : Waiting(h, pending)
          BY <2>2 DEF StreamInv
    <3>2. Len(pending) \in {h + 1, h + 2}
          BY <3>1 DEF Waiting
    <3> QED BY <3>2
  <2> QED BY <2>1, <2>2
<1> QED BY <1>1, StreamInvariant, PTL

\* Whatever bytes it is fed, the decoder is the function of whole byte
\* sequences that InstructionStream describes: its prefix, its three counters
\* and its half-built instruction never carry anything else.
THEOREM ImplementsSafe == StreamSpec => ImplementsInstructionStream
<1>1. StreamInit => IS!Init
      BY Initially
<1>2. StreamInv /\ [StreamNext]_<<vars, byte, pending>>
        => [IS!Next]_<<byte, pending, prefix # 1, current_instruction>>
      BY Steps
<1> QED BY <1>1, <1>2, StreamInvariant, PTL
        DEF StreamSpec, ImplementsInstructionStream, IS!Spec
=============================================================================

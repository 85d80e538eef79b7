---------------------------- MODULE ExecutionProofs ----------------------------
(***************************************************************************)
(* What single instructions do in module Machine, for every operand, every *)
(* flag and every register the decoder gives them: sums, shifts, the bus   *)
(* cycles and control state of every kind of instruction, and the stack of *)
(* calls, returns and interrupts.                                          *)
(***************************************************************************)
EXTENDS MachineProofs

-----------------------------------------------------------------------------
(* What the decoder lets an instruction address: only loads, EX, JP, CALL  *)
(* and the ports go through an address, a jump and a port always do, F     *)
(* alone is no destination, what goes somewhere and comes back leaves its  *)
(* result in no register, and what is shifted is a byte other than F, or   *)
(* the pair of the table's entry 6, and there is no second operand.        *)

Linked == {"CALL", "RST", "RET", "RETI", "RETN"}

LeftShift  == {"RL", "RLA", "RLC", "RLCA", "SLA", "SLL"}
RightShift == {"RR", "RRA", "RRC", "RRCA", "SRA", "SRL"}
Shift      == LeftShift \cup RightShift
Shifted    == (ByteRegister \ {"F"}) \cup {"HL", "IX", "IY"}

AddressShape(d) ==
    /\ d.addr_dest => ~d.addr_source /\ d.name \in {"LD", "EX", "JP", "OUT", "CALL"}
    /\ d.addr_source => d.name \in {"LD", "IN"}
    /\ d.name \in {"JP", "OUT"} => d.addr_dest
    /\ d.name = "IN" => d.addr_source
    /\ d.name = "CALL" => d.addr_dest \/ d.condition = "None"
    /\ d.dest # "F"
    /\ d.name \in Linked => d.dest \in {"Immediate", "None"}
    /\ d.name \in Shift => d.dest \in Shifted /\ d.source = "None"

Shaped(d) == DOMAIN d = Fields /\ AddressShape(d)

LEMMA ShapedDetails ==
    /\ \A name, dest, source :
          dest # "F" /\ name \notin {"JP", "OUT", "IN"}
                     /\ (name \in Linked => dest \in {"Immediate", "None"})
                     /\ (name \in Shift => dest \in Shifted /\ source = "None") =>
             Shaped(Stream!Details(name, dest, source))
    /\ \A name : name \notin {"JP", "OUT", "IN"} \cup Shift => Shaped(Stream!Plain(name))
    /\ \A name \in {"LD", "EX", "JP", "OUT", "CALL"} : \A dest, source :
          dest # "F" /\ (name = "CALL" => dest = "Immediate") =>
             Shaped(Stream!ToAddress(Stream!Details(name, dest, source)))
    /\ \A name \in {"LD", "IN"} : \A dest, source :
          dest # "F" => Shaped(Stream!FromAddress(Stream!Details(name, dest, source)))
    /\ \A d, k : Shaped(d) => /\ Shaped(Stream!Displaced(d)) /\ Shaped(Stream!Followed(d, k))
                              /\ Shaped(Stream!Carrying(d, k))
    /\ \A d, c : Shaped(d) /\ (d.name = "CALL" => d.addr_dest) => Shaped(Stream!OnCondition(d, c))
<1>1. \A name, dest, source :
         dest # "F" /\ name \notin {"JP", "OUT", "IN"}
                    /\ (name \in Linked => dest \in {"Immediate", "None"})
                    /\ (name \in Shift => dest \in Shifted /\ source = "None") =>
            Shaped(Stream!Details(name, dest, source))
      BY DEF Shaped, AddressShape, Linked, Fields, Stream!Details
<1>2. \A name : name \notin {"JP", "OUT", "IN"} \cup Shift => Shaped(Stream!Plain(name))
      BY <1>1 DEF Stream!Plain
<1>3. ASSUME NEW name \in {"LD", "EX", "JP", "OUT", "CALL"}, NEW dest, NEW source, dest # "F",
             name = "CALL" => dest = "Immediate"
      PROVE  Shaped(Stream!ToAddress(Stream!Details(name, dest, source)))
      BY <1>3 DEF Shaped, AddressShape, Linked, Shift, LeftShift, RightShift,
                  Fields, Stream!Details, Stream!ToAddress
<1>4. ASSUME NEW name \in {"LD", "IN"}, NEW dest, NEW source, dest # "F"
      PROVE  Shaped(Stream!FromAddress(Stream!Details(name, dest, source)))
      BY <1>4 DEF Shaped, AddressShape, Linked, Shift, LeftShift, RightShift,
                  Fields, Stream!Details, Stream!FromAddress
<1>5. ASSUME NEW d, NEW k, Shaped(d)
      PROVE  /\ Shaped(Stream!Displaced(d)) /\ Shaped(Stream!Followed(d, k))
             /\ Shaped(Stream!Carrying(d, k))
             /\ (d.name = "CALL" => d.addr_dest) => Shaped(Stream!OnCondition(d, k))
      BY <1>5 DEF Shaped, AddressShape, Fields, Stream!Displaced, Stream!Followed,
                  Stream!Carrying, Stream!OnCondition
<1> QED BY <1>1, <1>2, <1>3, <1>4, <1>5

\* No table names F by itself, and what the first names can be shifted.
LEMMA NotF ==
    ASSUME NEW o, OpcodeOK(o)
    PROVE  /\ Stream!r(o.y) # "F" /\ Stream!r(o.z) # "F"
           /\ Stream!rp(o.p) # "F" /\ Stream!rp2(o.p) # "F"
           /\ Stream!r(o.z) \in Shifted /\ "A" \in Shifted
BY DEF Shifted, ByteRegister, OpcodeOK, Stream!r, Stream!rTable, Stream!rp, Stream!rpTable, Stream!rp2, Stream!rp2Table

LEMMA NoPreX0Shaped ==
    ASSUME NEW o, OpcodeOK(o) PROVE Shaped(Stream!NoPreX0ZTable(o))
<1>1. CASE o.z = 0
  <2>1. /\ Shaped(Stream!Plain("NOP"))
        /\ Shaped(Stream!Details("EX", "A", Stream!get_alt_name["A"]))
        /\ Shaped(Stream!Plain("DJNZ")) /\ Shaped(Stream!Plain("JR"))
        BY ShapedDetails DEF Linked, Shift, LeftShift, RightShift
  <2>2. /\ Shaped(Stream!Displaced(Stream!Plain("DJNZ")))
        /\ Shaped(Stream!Displaced(Stream!Plain("JR")))
        BY <2>1, ShapedDetails
  <2>3. Stream!Displaced(Stream!Plain("JR")).name = "JR"
        BY DEF Stream!Displaced, Stream!Plain, Stream!Details
  <2>4. \A c : Shaped(Stream!OnCondition(Stream!Displaced(Stream!Plain("JR")), c))
        BY <2>2, <2>3, ShapedDetails
  <2>5. CASE o.y \in 0..3
        BY <1>1, <2>1, <2>2, <2>5 DEF Stream!NoPreX0ZTable
  <2>6. CASE o.y \in 4..7
        BY <1>1, <2>4, <2>6 DEF Stream!NoPreX0ZTable
  <2> QED BY <2>5, <2>6 DEF OpcodeOK
<1>2. CASE o.z = 1
  <2>1. /\ Shaped(Stream!Details("LD", Stream!rp(o.p), "Immediate"))
        /\ Shaped(Stream!Details("ADD", "HL", Stream!rp(o.p)))
        BY NotF, ShapedDetails DEF Linked, Shift, LeftShift, RightShift
  <2>2. Shaped(Stream!Followed(Stream!Details("LD", Stream!rp(o.p), "Immediate"), 2))
        BY <2>1, ShapedDetails
  <2> QED BY <1>2, <2>1, <2>2 DEF Stream!NoPreX0ZTable
<1>3. CASE o.z = 2
  <2> DEFINE r1 == Stream!Pick(<<"BC", "DE", "Immediate", "Immediate">>, o.p)
             r2 == IF o.p = 2 THEN "HL" ELSE "A"
  <2>1. r1 # "F" /\ r2 # "F"
        BY DEF OpcodeOK, Stream!Pick
  <2> HIDE DEF r1, r2
  <2>2. /\ Shaped(Stream!ToAddress(Stream!Details("LD", r1, r2)))
        /\ Shaped(Stream!FromAddress(Stream!Details("LD", r2, r1)))
        BY <2>1, ShapedDetails
  <2>3. /\ Shaped(Stream!Followed(Stream!ToAddress(Stream!Details("LD", r1, r2)), 2))
        /\ Shaped(Stream!Followed(Stream!FromAddress(Stream!Details("LD", r2, r1)), 2))
        BY <2>2, ShapedDetails
  <2>4. Shaped(Stream!IndirectLoad(o))
        BY <2>3 DEF Stream!IndirectLoad, r1, r2
  <2> QED BY <1>3, <2>4 DEF Stream!NoPreX0ZTable
<1>4. CASE o.z \in 3..6
  <2>1. /\ \A d : d # "F" => /\ Shaped(Stream!Details("INC", d, "None"))
                             /\ Shaped(Stream!Details("DEC", d, "None"))
                             /\ Shaped(Stream!Details("LD", d, "Immediate"))
        BY ShapedDetails DEF Linked, Shift, LeftShift, RightShift
  <2>2. \A d : d # "F" => Shaped(Stream!Followed(Stream!Details("LD", d, "Immediate"), 1))
        BY <2>1, ShapedDetails
  <2>3. Shaped(Stream!Details(IF o.q = 0 THEN "INC" ELSE "DEC", Stream!rp(o.p), "None"))
        BY <2>1, NotF
  <2> QED BY <1>4, <2>1, <2>2, <2>3, NotF DEF Stream!NoPreX0ZTable
<1>5. CASE o.z = 7
  <2> DEFINE name == Stream!Pick(<<"RLCA", "RRCA", "RLA", "RRA", "DAA", "CPL", "SCF", "CCF">>, o.y)
  <2>1. name \notin {"JP", "OUT", "IN"} /\ name \notin Linked
        BY DEF OpcodeOK, Linked, Stream!Pick
  <2> HIDE DEF name
  <2>2. Shaped(Stream!Details(name, "A", "None"))
        BY <2>1, NotF, ShapedDetails
  <2> QED BY <1>5, <2>2 DEF Stream!NoPreX0ZTable, name
<1> QED BY <1>1, <1>2, <1>3, <1>4, <1>5 DEF OpcodeOK

\* The mnemonics of the tables, next to those that need a destination of
\* their own.
Special == {"JP", "OUT", "IN"} \cup Linked

LEMMA NotSpecial ==
    ASSUME NEW o, OpcodeOK(o)
    PROVE  /\ Stream!Pick(Stream!aluTable, o.y) \notin Special \cup Shift
           /\ Stream!Pick(Stream!rotTable, o.y) \notin Special
           /\ o.x # 0 => Stream!Pick(<<"BIT", "RES", "SET">>, o.x - 1) \notin Special \cup Shift
           /\ \A j \in 1..4, k \in 1..4 : Stream!bliTable[j][k] \notin Special \cup Shift
<1>1. Stream!Pick(Stream!aluTable, o.y) \notin Special \cup Shift
      BY DEF Special, Linked, Shift, LeftShift, RightShift, OpcodeOK, Stream!Pick, Stream!aluTable
<1>2. Stream!Pick(Stream!rotTable, o.y) \notin Special
      BY DEF Special, Linked, OpcodeOK, Stream!Pick, Stream!rotTable
<1>3. o.x # 0 => Stream!Pick(<<"BIT", "RES", "SET">>, o.x - 1) \notin Special \cup Shift
  <2>1. o.x # 0 => Stream!Pick(<<"BIT", "RES", "SET">>, o.x - 1) \in {"BIT", "RES", "SET"}
        BY DEF OpcodeOK, Stream!Pick
  <2> QED BY <2>1 DEF Special, Linked, Shift, LeftShift, RightShift
<1>4. \A j \in 1..4, k \in 1..4 : Stream!bliTable[j][k] \notin Special \cup Shift
      BY DEF Special, Linked, Shift, LeftShift, RightShift, Stream!bliTable
<1> QED BY <1>1, <1>2, <1>3, <1>4

LEMMA NoPreX3Shaped ==
    ASSUME NEW o, OpcodeOK(o) PROVE Shaped(Stream!NoPreX3ZTable(o))
<1>1. /\ \A name \in {"RET", "EXX", "NOP", "DI", "EI"} : Shaped(Stream!Plain(name))
      /\ \A name \in {"POP", "PUSH", "LD", "EX"} :
            \A d, s : d # "F" => Shaped(Stream!Details(name, d, s))
      /\ \A name \in {"CALL", "RST"} : \A s : Shaped(Stream!Details(name, "Immediate", s))
      BY ShapedDetails DEF Linked, Shift, LeftShift, RightShift
<1>2. /\ \A name \in {"JP", "OUT", "EX"} : \A d, s :
            d # "F" => Shaped(Stream!ToAddress(Stream!Details(name, d, s)))
      /\ \A s : Shaped(Stream!ToAddress(Stream!Details("CALL", "Immediate", s)))
      /\ \A d, s : d # "F" => Shaped(Stream!FromAddress(Stream!Details("IN", d, s)))
      BY ShapedDetails
<1>3. /\ \A name \in {"JP", "OUT"} : \A d, s, k :
            d # "F" => Shaped(Stream!Followed(Stream!ToAddress(Stream!Details(name, d, s)), k))
      /\ \A s, k :
            Shaped(Stream!Followed(Stream!ToAddress(Stream!Details("CALL", "Immediate", s)), k))
      /\ \A d, s, k :
            d # "F" => Shaped(Stream!Followed(Stream!FromAddress(Stream!Details("IN", d, s)), k))
      /\ \A s, k : Shaped(Stream!Followed(Stream!Details("CALL", "Immediate", s), k))
      BY <1>1, <1>2, ShapedDetails
<1>4. CASE o.z \in {0, 2, 4}
  <2>1. Stream!Plain("RET").name = "RET"
        BY DEF Stream!Plain, Stream!Details
  <2>2. \A c : Shaped(Stream!OnCondition(Stream!Plain("RET"), c))
        BY <1>1, <2>1, ShapedDetails
  <2>3. \A name :
           Stream!Followed(Stream!ToAddress(Stream!Details(name, "Immediate", "None")), 2).addr_dest
        BY DEF Stream!Followed, Stream!ToAddress, Stream!Details
  <2>4. \A name \in {"JP", "CALL"} :
           Shaped(Stream!Followed(Stream!ToAddress(Stream!Details(name, "Immediate", "None")), 2))
        BY <1>3
  <2>5. \A name \in {"JP", "CALL"} : \A c :
           Shaped(Stream!OnCondition(Stream!Followed(
              Stream!ToAddress(Stream!Details(name, "Immediate", "None")), 2), c))
        BY <2>3, <2>4, ShapedDetails
  <2> QED BY <1>4, <2>2, <2>5 DEF Stream!NoPreX3ZTable
<1>5. CASE o.z = 1
      BY <1>1, <1>2, <1>5, NotF DEF OpcodeOK, Stream!NoPreX3ZTable, Stream!Pick
<1>6. CASE o.z = 3
      BY <1>1, <1>2, <1>3, <1>6 DEF OpcodeOK, Stream!NoPreX3ZTable, Stream!Pick
<1>7. CASE o.z = 5
  <2>1. /\ Shaped(Stream!Details("PUSH", "None", Stream!rp2(o.p)))
        /\ Shaped(Stream!Followed(Stream!Details("CALL", "Immediate", "None"), 2))
        /\ Shaped(Stream!Plain("NOP"))
        BY <1>1, <1>3
  <2> QED BY <1>7, <2>1 DEF Stream!NoPreX3ZTable
<1>8. CASE o.z = 6
  <2> DEFINE name == Stream!Pick(Stream!aluTable, o.y)
             d    == Stream!Details(name, "A", "Immediate")
  <2>1. name \notin Special \cup Shift
        BY NotSpecial
  <2> HIDE DEF name
  <2>2. Shaped(d)
        BY <2>1, ShapedDetails DEF Special
  <2>3. Shaped(Stream!Followed(d, 1)) /\ Stream!Followed(d, 1).name = name
        BY <2>2, ShapedDetails DEF Stream!Followed, Stream!Details
  <2>4. Shaped(Stream!OnCondition(Stream!Followed(d, 1), Stream!cc(o.y)))
        BY <2>1, <2>3, ShapedDetails DEF Special, Linked
  <2> QED BY <1>8, <2>4 DEF Stream!NoPreX3ZTable, name
<1>9. CASE o.z = 7
  <2>1. Shaped(Stream!Details("RST", "Immediate", "None"))
        BY <1>1
  <2>2. \A v : Shaped(Stream!Carrying(Stream!Details("RST", "Immediate", "None"), v))
        BY <2>1, ShapedDetails
  <2> QED BY <1>9, <2>2 DEF Stream!NoPreX3ZTable
<1> QED BY <1>4, <1>5, <1>6, <1>7, <1>8, <1>9 DEF OpcodeOK

LEMMA PlainShaped == ASSUME NEW c \in UInt8 PROVE Shaped(Stream!NoPrefix(c))
<1> DEFINE o == Stream!parse_opcode(c)
<1>1. OpcodeOK(o)
      BY OpcodeType
<1> HIDE DEF o
<1>2. Shaped(Stream!NoPreX0ZTable(o)) /\ Shaped(Stream!NoPreX3ZTable(o))
      BY <1>1, NoPreX0Shaped, NoPreX3Shaped
<1>3. Shaped(Stream!RegisterLoad(o))
  <2>1. /\ Shaped(Stream!Details("LD", Stream!r(o.y), Stream!r(o.z)))
        /\ Shaped(Stream!Plain("HALT")) /\ Shaped(Stream!Plain("NOP"))
        BY <1>1, NotF, ShapedDetails DEF Linked, Shift, LeftShift, RightShift
  <2> QED BY <2>1 DEF Stream!RegisterLoad
<1>4. Shaped(Stream!Details(Stream!Pick(Stream!aluTable, o.y), "A", Stream!r(o.z)))
      BY <1>1, NotSpecial, ShapedDetails DEF Special
<1>5. o.x \in 0..3
      BY <1>1 DEF OpcodeOK
<1> QED BY <1>2, <1>3, <1>4, <1>5 DEF Stream!NoPrefix, o

LEMMA CBShaped == ASSUME NEW c \in UInt8 PROVE Shaped(Stream!CBPrefix(c))
<1> DEFINE o == Stream!parse_opcode(c)
           bit == Stream!Pick(<<"BIT", "RES", "SET">>, o.x - 1)
<1>1. OpcodeOK(o)
      BY OpcodeType
<1> HIDE DEF o
<1>2. Shaped(Stream!Details(Stream!Pick(Stream!rotTable, o.y), Stream!r(o.z), "None"))
      BY <1>1, NotF, NotSpecial, ShapedDetails DEF Special
<1>3. o.x # 0 => bit \notin Special \cup Shift
      BY <1>1, NotSpecial
<1> HIDE DEF bit
<1>4. o.x # 0 => Shaped(Stream!Details(bit, "Immediate", Stream!r(o.z)))
      BY <1>3, ShapedDetails DEF Special
<1>5. o.x # 0 => Shaped(Stream!Carrying(Stream!Details(bit, "Immediate", Stream!r(o.z)), o.y))
      BY <1>4, ShapedDetails
<1> QED BY <1>2, <1>5 DEF Stream!CBPrefix, o, bit

LEMMA EDShaped == ASSUME NEW c \in UInt8 PROVE Shaped(Stream!EDPrefix(c))
<1> DEFINE o == Stream!parse_opcode(c)
<1>1. OpcodeOK(o)
      BY OpcodeType
<1> HIDE DEF o
<1>2. Shaped(Stream!EDX1ZTable(o))
  <2>1. /\ \A name \in {"LD", "IM", "SBC", "ADC"} : \A d, s :
              d # "F" => Shaped(Stream!Details(name, d, s))
        /\ \A name \in {"OUT", "LD"} : \A d, s :
              d # "F" => Shaped(Stream!ToAddress(Stream!Details(name, d, s)))
        /\ \A name \in {"IN", "LD"} : \A d, s :
              d # "F" => Shaped(Stream!FromAddress(Stream!Details(name, d, s)))
        /\ \A name \in {"NEG", "RETI", "RETN", "RRD", "RLD", "NOP"} : Shaped(Stream!Plain(name))
        BY ShapedDetails DEF Linked, Shift, LeftShift, RightShift
  <2>2. CASE o.z \in 0..1
    <3>1. (IF o.y = 6 THEN "None" ELSE Stream!r(o.y)) # "F"
          BY <1>1, NotF
    <3>2. /\ Shaped(Stream!FromAddress(
                    Stream!Details("IN", IF o.y = 6 THEN "None" ELSE Stream!r(o.y), "BC")))
          /\ \A s : Shaped(Stream!ToAddress(Stream!Details("OUT", "BC", s)))
          BY <2>1, <3>1
    <3> QED BY <2>2, <3>2 DEF Stream!EDX1ZTable
  <2>3. CASE o.z = 2
    <3>1. \A s : Shaped(Stream!Details(IF o.q = 0 THEN "SBC" ELSE "ADC", "HL", s))
          BY <2>1
    <3> QED BY <2>3, <3>1 DEF Stream!EDX1ZTable
  <2>4. CASE o.z = 3
    <3>1. /\ \A s : Shaped(Stream!Followed(
                               Stream!ToAddress(Stream!Details("LD", "Immediate", s)), 2))
          /\ \A d : d # "F" =>
                Shaped(Stream!Followed(Stream!FromAddress(Stream!Details("LD", d, "Immediate")), 2))
          BY <2>1, ShapedDetails
    <3> QED BY <1>1, <2>4, <3>1, NotF DEF Stream!EDX1ZTable
  <2>5. CASE o.z \in 4..5
        BY <2>1, <2>5 DEF Stream!EDX1ZTable
  <2>6. CASE o.z = 6
    <3>1. Shaped(Stream!Details("IM", "Immediate", "None"))
          BY <2>1
    <3>2. Shaped(Stream!Carrying(Stream!Details("IM", "Immediate", "None"), o.y))
          BY <3>1, ShapedDetails
    <3> QED BY <2>6, <3>2 DEF Stream!EDX1ZTable
  <2>7. CASE o.z = 7
        BY <1>1, <2>1, <2>7 DEF OpcodeOK, Stream!EDX1ZTable, Stream!Pick
  <2> QED BY <1>1, <2>2, <2>3, <2>4, <2>5, <2>6, <2>7 DEF OpcodeOK
<1>3. (o.x = 2 /\ o.z <= 3 /\ o.y >= 4) => Shaped(Stream!Plain(Stream!bliTable[o.y - 3][o.z + 1]))
  <2>1. (o.z <= 3 /\ o.y >= 4) => o.y - 3 \in 1..4 /\ o.z + 1 \in 1..4
        BY <1>1 DEF OpcodeOK
  <2> QED BY <1>1, <2>1, NotSpecial, ShapedDetails DEF Special
<1>4. Shaped(Stream!Plain("NONI"))
      BY ShapedDetails DEF Shift, LeftShift, RightShift
<1> QED BY <1>2, <1>3, <1>4 DEF Stream!EDPrefix, o

LEMMA MeaningShaped ==
    ASSUME NEW s \in Seq(UInt8), Stream!Complete(s)
    PROVE  AddressShape(Stream!Meaning(s))
<1> DEFINE h == Stream!Header(s)
           d == Stream!OpcodeDetails(s)
           bytes == SubSeq(s, h + 2, Len(s))
           j == Stream!Instruction(d)
           i == Stream!WithOperands(j, d, bytes)
<1>1. Len(s) > h /\ h \in 0..2
      BY DEF Stream!Complete, Stream!HasOpcode, Stream!Header
<1>2. DetailsOK(d)
      BY <1>1, OpcodeDetailsType
<1>3. Shaped(d)
  <2>1. s[h + 1] \in UInt8
        BY <1>1, ElementOfSeq
  <2> QED BY <2>1, PlainShaped, CBShaped, EDShaped DEF Stream!OpcodeDetails
<1> HIDE DEF h, d, bytes
<1>4. InstructionOK(j) /\ AddressShape(j)
      BY <1>2, <1>3, InstructionType DEF Stream!Instruction, Shaped, AddressShape
<1> HIDE DEF j
<1>5. DOMAIN i = DOMAIN j /\ AddressShape(i)
  <2>1. \/ i = [j EXCEPT !.displacement = bytes[1]]
        \/ i = [j EXCEPT !.imm_low = bytes[1]]
        \/ i = [j EXCEPT !.imm_low = bytes[1], !.imm_high = bytes[2]]
        \/ i = j
        BY DEF Stream!WithOperands
  <2>2. DOMAIN i = DOMAIN j
        BY <2>1
  <2>3. \A f \in {"name", "dest", "source", "addr_dest", "addr_source", "condition"} :
           f \in DOMAIN j => i[f] = j[f]
        BY <2>1
  <2>4. {"name", "dest", "source", "addr_dest", "addr_source", "condition"} \subseteq DOMAIN j
        BY <1>4 DEF InstructionOK
  <2>5. /\ i.name = j.name /\ i.dest = j.dest /\ i.source = j.source
        /\ i.condition = j.condition
        /\ i.addr_dest = j.addr_dest /\ i.addr_source = j.addr_source
        BY <2>3, <2>4
  <2> QED BY <1>4, <2>2, <2>5 DEF AddressShape
<1> HIDE DEF i
<1>6. \A p : AddressShape(Stream!Substitute(i, p))
  <2>1. /\ \A name, p : /\ name # "F" => Stream!Renamed(name, p) # "F"
                        /\ name \in Shifted => Stream!Renamed(name, p) \in Shifted
        /\ \A p : /\ Stream!Renamed("Immediate", p) = "Immediate"
                  /\ Stream!Renamed("None", p) = "None"
        BY DEF Stream!Renamed, Stream!IndexNames, Shifted, ByteRegister
  <2> TAKE p
  <2>2. \A dest, source :
           dest # "F" /\ (i.name \in Linked => dest \in {"Immediate", "None"})
                      /\ (i.name \in Shift => dest \in Shifted /\ source = "None") =>
           /\ AddressShape([i EXCEPT !.source = source]) /\ AddressShape([i EXCEPT !.dest = dest])
           /\ AddressShape([i EXCEPT !.dest = dest, !.source = source])
        BY <1>4, <1>5 DEF InstructionOK, AddressShape
  <2>3. /\ i.dest # "F" /\ (i.name \in Linked => i.dest \in {"Immediate", "None"})
        /\ i.name \in Shift => i.dest \in Shifted /\ i.source = "None"
        BY <1>5 DEF AddressShape
  <2>4. /\ Stream!Renamed(i.dest, p) # "F"
        /\ i.name \in Linked => Stream!Renamed(i.dest, p) \in {"Immediate", "None"}
        /\ i.name \in Shift => /\ Stream!Renamed(i.dest, p) \in Shifted
                               /\ Stream!Renamed(i.source, p) = "None"
        BY <2>1, <2>3
  <2> QED BY <2>2, <2>3, <2>4 DEF Stream!Substitute
<1>7. \E p : Stream!Meaning(s) = i \/ Stream!Meaning(s) = Stream!Substitute(i, p)
      BY DEF Stream!Meaning, i, j, h, d, bytes
<1> QED BY <1>5, <1>6, <1>7

\* Every instruction the decoder completes, and the one of HALT.
LEMMA ReadShaped ==
    ASSUME pending \in Seq(UInt8), NEW byte \in UInt8, Stream!Read(Append(pending, byte)),
           decoded' # Stream!nullopt
    PROVE  AddressShape(decoded')
<1> DEFINE s == Append(pending, byte)
<1>1. s \in Seq(UInt8)
      BY AppendProperties
<1> HIDE DEF s
<1>2. \/ decoded' = [Stream!NoInstruction EXCEPT !.name = "NONI"]
      \/ Stream!Complete(s) /\ decoded' = Stream!Meaning(s)
      BY DEF s, Stream!Read
<1>3. AddressShape([Stream!NoInstruction EXCEPT !.name = "NONI"])
      BY DEF AddressShape, Linked, Shift, LeftShift, RightShift, Stream!NoInstruction
<1> QED BY <1>1, <1>2, <1>3, MeaningShaped

-----------------------------------------------------------------------------
(* Sums: what the decoder lets them have for operands.                     *)

Sums == {"ADD", "ADC", "SUB", "SBC"}

\* A and whatever the tables name (a register, a byte or the pair HL), or HL
\* and a register pair.
SumOfBytes(d) == d.dest = "A" /\ d.immediate_bytes <= 1
SumOfPairs(d) == d.dest = "HL" /\ is_16bit(d.source) /\ Stream!Operands(d) = 0
SumShape(d)   == d.name \in Sums => SumOfBytes(d) \/ SumOfPairs(d)

Other(d) == DOMAIN d = Fields /\ d.name \notin Sums

LEMMA OtherDetails ==
    /\ \A name, dest, source : name \notin Sums => Other(Stream!Details(name, dest, source))
    /\ \A name : name \notin Sums => Other(Stream!Plain(name))
    /\ \A d : Other(d) => /\ Other(Stream!ToAddress(d)) /\ Other(Stream!FromAddress(d))
                          /\ Other(Stream!Displaced(d))
    /\ \A d, k : Other(d) => /\ Other(Stream!OnCondition(d, k)) /\ Other(Stream!Followed(d, k))
                             /\ Other(Stream!Carrying(d, k))
<1>1. \A name, dest, source : name \notin Sums => Other(Stream!Details(name, dest, source))
      BY DEF Other, Fields, Stream!Details
<1>2. \A name : name \notin Sums => Other(Stream!Plain(name))
      BY <1>1 DEF Stream!Plain
<1>3. ASSUME NEW d, NEW k, Other(d)
      PROVE  /\ Other(Stream!ToAddress(d)) /\ Other(Stream!FromAddress(d))
             /\ Other(Stream!Displaced(d))
             /\ Other(Stream!OnCondition(d, k)) /\ Other(Stream!Followed(d, k))
             /\ Other(Stream!Carrying(d, k))
      BY <1>3 DEF Other, Fields, Stream!ToAddress, Stream!FromAddress, Stream!OnCondition,
                  Stream!Displaced, Stream!Followed, Stream!Carrying
<1> QED BY <1>1, <1>2, <1>3

LEMMA OtherShape == \A d : Other(d) => SumShape(d)
BY DEF Other, SumShape

LEMMA PairType ==
    ASSUME NEW o, OpcodeOK(o) PROVE is_16bit(Stream!rp(o.p))
BY DEF OpcodeOK, Stream!rp, Stream!rpTable, is_16bit, Pair

LEMMA ToA == \A name, source : SumShape(Stream!Details(name, "A", source))
BY DEF SumShape, SumOfBytes, Stream!Details

LEMMA ToHL == \A name, source : is_16bit(source) => SumShape(Stream!Details(name, "HL", source))
BY DEF SumShape, SumOfPairs, Stream!Details, Stream!Operands

LEMMA NoPreX0Shape ==
    ASSUME NEW o, OpcodeOK(o) PROVE SumShape(Stream!NoPreX0ZTable(o))
<1>1. CASE o.z = 0
  <2>1. /\ Other(Stream!Plain("NOP"))
        /\ Other(Stream!Details("EX", "A", Stream!get_alt_name["A"]))
        /\ Other(Stream!Plain("DJNZ")) /\ Other(Stream!Plain("JR"))
        BY OtherDetails DEF Sums
  <2>2. Other(Stream!Displaced(Stream!Plain("DJNZ"))) /\ Other(Stream!Displaced(Stream!Plain("JR")))
        BY <2>1, OtherDetails
  <2>3. \A c : Other(Stream!OnCondition(Stream!Displaced(Stream!Plain("JR")), c))
        BY <2>2, OtherDetails
  <2>4. CASE o.y \in 0..3
        BY <1>1, <2>1, <2>2, <2>4, OtherShape DEF Stream!NoPreX0ZTable
  <2>5. CASE o.y \in 4..7
        BY <1>1, <2>3, <2>5, OtherShape DEF Stream!NoPreX0ZTable
  <2> QED BY <2>4, <2>5 DEF OpcodeOK
<1>2. CASE o.z = 1
  <2>1. Other(Stream!Details("LD", Stream!rp(o.p), "Immediate"))
        BY OtherDetails DEF Sums
  <2>2. Other(Stream!Followed(Stream!Details("LD", Stream!rp(o.p), "Immediate"), 2))
        BY <2>1, OtherDetails
  <2>3. SumShape(Stream!Details("ADD", "HL", Stream!rp(o.p)))
        BY PairType, ToHL
  <2> QED BY <1>2, <2>2, <2>3, OtherShape DEF Stream!NoPreX0ZTable
<1>3. CASE o.z = 2
  <2>1. \A d, s : Other(Stream!Details("LD", d, s))
        BY OtherDetails DEF Sums
  <2>2. \A d, s : /\ Other(Stream!ToAddress(Stream!Details("LD", d, s)))
                  /\ Other(Stream!FromAddress(Stream!Details("LD", d, s)))
        BY <2>1, OtherDetails
  <2>3. \A d, s : /\ Other(Stream!Followed(Stream!ToAddress(Stream!Details("LD", d, s)), 2))
                  /\ Other(Stream!Followed(Stream!FromAddress(Stream!Details("LD", d, s)), 2))
        BY <2>2, OtherDetails
  <2>4. Other(Stream!IndirectLoad(o))
        BY <2>3 DEF Stream!IndirectLoad
  <2> QED BY <1>3, <2>4, OtherShape DEF Stream!NoPreX0ZTable
<1>4. CASE o.z \in 3..6
  <2>1. \A name \in {"INC", "DEC", "LD"} : name \notin Sums
        BY DEF Sums
  <2>2. /\ \A d : Other(Stream!Details("INC", d, "None")) /\ Other(Stream!Details("DEC", d, "None"))
        /\ \A d : Other(Stream!Details("LD", d, "Immediate"))
        BY <2>1, OtherDetails
  <2>3. \A d : Other(Stream!Followed(Stream!Details("LD", d, "Immediate"), 1))
        BY <2>2, OtherDetails
  <2>4. Other(Stream!Details(IF o.q = 0 THEN "INC" ELSE "DEC", Stream!rp(o.p), "None"))
        BY <2>2
  <2> QED BY <1>4, <2>2, <2>3, <2>4, OtherShape DEF Stream!NoPreX0ZTable
<1>5. CASE o.z = 7
      BY <1>5, ToA DEF Stream!NoPreX0ZTable
<1> QED BY <1>1, <1>2, <1>3, <1>4, <1>5 DEF OpcodeOK

LEMMA NoPreX3Shape ==
    ASSUME NEW o, OpcodeOK(o) PROVE SumShape(Stream!NoPreX3ZTable(o))
<1>1. /\ \A name \in {"RET", "EXX", "NOP", "DI", "EI"} : Other(Stream!Plain(name))
      /\ \A name \in {"POP", "PUSH", "JP", "LD", "OUT", "IN", "EX", "CALL", "RST"} :
            \A d, s : Other(Stream!Details(name, d, s))
      BY OtherDetails DEF Sums
<1>2. \A name \in {"JP", "OUT", "EX", "CALL", "IN"} : \A d, s :
         /\ Other(Stream!ToAddress(Stream!Details(name, d, s)))
         /\ Other(Stream!FromAddress(Stream!Details(name, d, s)))
      BY <1>1, OtherDetails
<1>3. /\ \A name \in {"JP", "OUT", "CALL", "IN"} : \A d, s, k :
            /\ Other(Stream!Followed(Stream!ToAddress(Stream!Details(name, d, s)), k))
            /\ Other(Stream!Followed(Stream!FromAddress(Stream!Details(name, d, s)), k))
      /\ \A d, s, k : Other(Stream!Followed(Stream!Details("CALL", d, s), k))
      BY <1>1, <1>2, OtherDetails
<1>4. CASE o.z \in {0, 2, 4}
  <2>1. /\ \A c : Other(Stream!OnCondition(Stream!Plain("RET"), c))
        /\ \A name \in {"JP", "CALL"} : \A c :
              Other(Stream!OnCondition(Stream!Followed(
                 Stream!ToAddress(Stream!Details(name, "Immediate", "None")), 2), c))
        BY <1>1, <1>3, OtherDetails
  <2> QED BY <1>4, <2>1, OtherShape DEF Stream!NoPreX3ZTable
<1>5. CASE o.z = 1
      BY <1>1, <1>2, <1>5, OtherShape DEF OpcodeOK, Stream!NoPreX3ZTable, Stream!Pick
<1>6. CASE o.z = 3
      BY <1>1, <1>2, <1>3, <1>6, OtherShape DEF OpcodeOK, Stream!NoPreX3ZTable, Stream!Pick
<1>7. CASE o.z = 5
      BY <1>1, <1>3, <1>7, OtherShape DEF Stream!NoPreX3ZTable
<1>8. CASE o.z = 6
  <2>1. \A name, c : SumShape(Stream!OnCondition(Stream!Followed(
              Stream!Details(name, "A", "Immediate"), 1), c))
        BY DEF SumShape, SumOfBytes, Stream!Details, Stream!Followed, Stream!OnCondition
  <2> QED BY <1>8, <2>1 DEF Stream!NoPreX3ZTable
<1>9. CASE o.z = 7
  <2>1. \A v : Other(Stream!Carrying(Stream!Details("RST", "Immediate", "None"), v))
        BY <1>1, OtherDetails
  <2> QED BY <1>9, <2>1, OtherShape DEF Stream!NoPreX3ZTable
<1> QED BY <1>4, <1>5, <1>6, <1>7, <1>8, <1>9 DEF OpcodeOK

LEMMA PlainShape == ASSUME NEW c \in UInt8 PROVE SumShape(Stream!NoPrefix(c))
<1> DEFINE o == Stream!parse_opcode(c)
<1>1. OpcodeOK(o)
      BY OpcodeType
<1> HIDE DEF o
<1>2. SumShape(Stream!NoPreX0ZTable(o)) /\ SumShape(Stream!NoPreX3ZTable(o))
      BY <1>1, NoPreX0Shape, NoPreX3Shape
<1>3. Other(Stream!RegisterLoad(o))
  <2>1. /\ \A d, s : Other(Stream!Details("LD", d, s))
        /\ Other(Stream!Plain("HALT")) /\ Other(Stream!Plain("NOP"))
        BY OtherDetails DEF Sums
  <2> QED BY <2>1 DEF Stream!RegisterLoad
<1>4. o.x \in 0..3
      BY <1>1 DEF OpcodeOK
<1> QED BY <1>2, <1>3, <1>4, ToA, OtherShape DEF Stream!NoPrefix, o

LEMMA CBShape == ASSUME NEW c \in UInt8 PROVE SumShape(Stream!CBPrefix(c))
<1> DEFINE o == Stream!parse_opcode(c)
<1>1. OpcodeOK(o)
      BY OpcodeType
<1> HIDE DEF o
<1>2. Stream!Pick(Stream!rotTable, o.y) \notin Sums
      BY <1>1 DEF OpcodeOK, Stream!Pick, Stream!rotTable, Sums
<1>3. Other(Stream!Details(Stream!Pick(Stream!rotTable, o.y), Stream!r(o.z), "None"))
      BY <1>2, OtherDetails
<1> DEFINE bit == Stream!Pick(<<"BIT", "RES", "SET">>, o.x - 1)
<1>4. o.x # 0 => bit \notin Sums
      BY <1>1 DEF OpcodeOK, Stream!Pick, Sums
<1> HIDE DEF bit
<1>5. o.x # 0 => Other(Stream!Details(bit, "Immediate", Stream!r(o.z)))
      BY <1>4, OtherDetails
<1>6. o.x # 0 => Other(Stream!Carrying(Stream!Details(bit, "Immediate", Stream!r(o.z)), o.y))
      BY <1>5, OtherDetails
<1> QED BY <1>3, <1>6, OtherShape DEF Stream!CBPrefix, o, bit

LEMMA EDShape == ASSUME NEW c \in UInt8 PROVE SumShape(Stream!EDPrefix(c))
<1> DEFINE o == Stream!parse_opcode(c)
<1>1. OpcodeOK(o)
      BY OpcodeType
<1> HIDE DEF o
<1>2. SumShape(Stream!EDX1ZTable(o))
  <2>1. \A name \in {"IN", "OUT", "LD", "IM"} : \A d, s : Other(Stream!Details(name, d, s))
        BY OtherDetails DEF Sums
  <2>2. \A name \in {"IN", "OUT", "LD"} : \A d, s :
           /\ Other(Stream!ToAddress(Stream!Details(name, d, s)))
           /\ Other(Stream!FromAddress(Stream!Details(name, d, s)))
        BY <2>1, OtherDetails
  <2>3. \A name \in {"NEG", "RETI", "RETN", "RRD", "RLD", "NOP"} : Other(Stream!Plain(name))
        BY OtherDetails DEF Sums
  <2>4. CASE o.z \in 0..1
        BY <2>2, <2>4, OtherShape DEF Stream!EDX1ZTable
  <2>5. CASE o.z = 2
        BY <1>1, <2>5, PairType, ToHL DEF Stream!EDX1ZTable
  <2>6. CASE o.z = 3
    <3>1. \A d, s : /\ Other(Stream!Followed(Stream!ToAddress(Stream!Details("LD", d, s)), 2))
                    /\ Other(Stream!Followed(Stream!FromAddress(Stream!Details("LD", d, s)), 2))
          BY <2>2, OtherDetails
    <3> QED BY <2>6, <3>1, OtherShape DEF Stream!EDX1ZTable
  <2>7. CASE o.z \in 4..5
        BY <2>3, <2>7, OtherShape DEF Stream!EDX1ZTable
  <2>8. CASE o.z = 6
    <3>1. Other(Stream!Carrying(Stream!Details("IM", "Immediate", "None"), o.y))
          BY <2>1, OtherDetails
    <3> QED BY <2>8, <3>1, OtherShape DEF Stream!EDX1ZTable
  <2>9. CASE o.z = 7
        BY <1>1, <2>1, <2>3, <2>9, OtherShape DEF OpcodeOK, Stream!EDX1ZTable, Stream!Pick
  <2> QED BY <1>1, <2>4, <2>5, <2>6, <2>7, <2>8, <2>9 DEF OpcodeOK
<1>3. \A j \in 1..4, k \in 1..4 : Stream!bliTable[j][k] \notin Sums
      BY DEF Stream!bliTable, Sums
<1>4. (o.x = 2 /\ o.z <= 3 /\ o.y >= 4) => Other(Stream!Plain(Stream!bliTable[o.y - 3][o.z + 1]))
  <2>1. (o.z <= 3 /\ o.y >= 4) => o.y - 3 \in 1..4 /\ o.z + 1 \in 1..4
        BY <1>1 DEF OpcodeOK
  <2> QED BY <1>3, <2>1, OtherDetails
<1>5. Other(Stream!Plain("NONI"))
      BY OtherDetails DEF Sums
<1> QED BY <1>2, <1>4, <1>5, OtherShape DEF Stream!EDPrefix, o

\* The same of an instruction with its operand bytes and names.
SumOK(i) == i.name \in Sums => \/ i.dest = "A" /\ i.imm_high = 0
                               \/ i.dest = "HL" /\ is_16bit(i.source)

LEMMA MeaningShape ==
    ASSUME NEW s \in Seq(UInt8), Stream!Complete(s)
    PROVE  SumOK(Stream!Meaning(s))
<1> DEFINE h == Stream!Header(s)
           d == Stream!OpcodeDetails(s)
           bytes == SubSeq(s, h + 2, Len(s))
           i == Stream!WithOperands(Stream!Instruction(d), d, bytes)
<1>1. Len(s) > h /\ h \in 0..2
      BY DEF Stream!Complete, Stream!HasOpcode, Stream!Header
<1>2. DetailsOK(d)
      BY <1>1, OpcodeDetailsType
<1>3. SumShape(d)
  <2>1. s[h + 1] \in UInt8
        BY <1>1, ElementOfSeq
  <2> QED BY <2>1, PlainShape, CBShape, EDShape DEF Stream!OpcodeDetails
<1> HIDE DEF h, d, bytes
<1> DEFINE j == Stream!Instruction(d)
<1>4. /\ InstructionOK(j) /\ j.name = d.name /\ j.dest = d.dest /\ j.source = d.source
      /\ j.imm_high = 0
      BY <1>2, InstructionType DEF Stream!Instruction
<1> HIDE DEF j
<1>5. /\ DOMAIN i = DOMAIN j /\ i.name = d.name /\ i.dest = d.dest /\ i.source = d.source
      /\ i.imm_high = 0 \/ d.immediate_bytes = 2
  <2>1. \/ i = [j EXCEPT !.displacement = bytes[1]]
        \/ i = [j EXCEPT !.imm_low = bytes[1]]
        \/ i = [j EXCEPT !.imm_low = bytes[1], !.imm_high = bytes[2]] /\ d.immediate_bytes = 2
        \/ i = j
        BY DEF Stream!WithOperands, j
  <2> QED BY <1>4, <2>1 DEF InstructionOK
<1> HIDE DEF i
<1>6. SumOK(i)
      BY <1>2, <1>3, <1>5 DEF SumOK, SumShape, SumOfBytes, SumOfPairs, Stream!Operands, DetailsOK
<1>7. ASSUME Stream!Operands(d) > 0 PROVE SumOK(Stream!Substitute(i, s[1]))
  <2>1. d.name \in Sums => i.dest = "A" /\ d.immediate_bytes <= 1
        BY <1>2, <1>3, <1>5, <1>7 DEF SumShape, SumOfBytes, SumOfPairs
  <2> DEFINE k == Stream!Substitute(i, s[1])
  <2>2. k.name = i.name /\ k.imm_high = i.imm_high
        BY <1>4, <1>5 DEF Stream!Substitute, InstructionOK
  <2>3. i.dest = "A" => k.dest = "A"
        BY <1>4, <1>5 DEF Stream!Substitute, Stream!Renamed, InstructionOK
  <2> HIDE DEF k
  <2>4. SumOK(k)
        BY <1>5, <2>1, <2>2, <2>3 DEF SumOK
  <2> QED BY <2>4 DEF k
<1>8. \/ Stream!Meaning(s) = i
      \/ Stream!Meaning(s) = Stream!Substitute(i, s[1]) /\ Stream!Operands(d) > 0
      BY DEF Stream!Meaning, i, h, d, bytes
<1> QED BY <1>6, <1>7, <1>8

LEMMA ReadShape ==
    ASSUME pending \in Seq(UInt8), NEW byte \in UInt8, Stream!Read(Append(pending, byte)),
           decoded' # Stream!nullopt
    PROVE  SumOK(decoded')
<1> DEFINE s == Append(pending, byte)
<1>1. s \in Seq(UInt8)
      BY AppendProperties
<1> HIDE DEF s
<1>2. \/ decoded' = [Stream!NoInstruction EXCEPT !.name = "NONI"]
      \/ Stream!Complete(s) /\ decoded' = Stream!Meaning(s)
      BY DEF s, Stream!Read
<1>3. SumOK([Stream!NoInstruction EXCEPT !.name = "NONI"])
      BY DEF SumOK, Sums, Stream!NoInstruction
<1> QED BY <1>1, <1>2, <1>3, MeaningShape

-----------------------------------------------------------------------------
(* Addition and subtraction.                                               *)

\* A result cut to a register of w values, and what is left of it.
LEMMA Rests ==
    ASSUME NEW w \in {256, 65536}, NEW r \in Int, NEW out \in {0, 1}, out = 1 <=> ~(0 <= r /\ r < w)
    PROVE  /\ 0 <= r /\ r < 2 * w => (r % w) + w * out = r
           /\ -w <= r /\ r < w => (r % w) - w * out = r
<1>1. CASE w = 256
      BY <1>1
<1>2. CASE w = 65536
      BY <1>2
<1> QED BY <1>1, <1>2

\* Carry after an instruction that names it and neither sets nor resets it.
LEMMA CarryComputed ==
    ASSUME NEW i, NEW x, NEW y, NEW o, "Carry" \in o.named,
           "CarrySet" \notin o.named, "CarryReset" \notin o.named
    PROVE  FlagByte(FlagsAfter(i, x, y, o)) % 2
             = IF o.result \in (IF Wide(i) THEN UInt16 ELSE UInt8) THEN 0 ELSE 1
<1>1. "Carry" \in Flag /\ SetName["Carry"] = "CarrySet" /\ ResetName["Carry"] = "CarryReset"
      BY DEF Flag, SetName, ResetName
<1>2. Computed("Carry", i, x, y, o.result)
        <=> o.result \notin (IF Wide(i) THEN UInt16 ELSE UInt8)
      BY DEF Computed
<1>3. "Carry" \in FlagsAfter(i, x, y, o) <=> Computed("Carry", i, x, y, o.result)
      BY <1>1 DEF FlagsAfter
<1> QED BY <1>2, <1>3, CarryBit

LEMMA ResultStored ==
    ASSUME NEW b, NEW n, Good(b, n), NEW dest \in Register, dest \notin {"F", "AF"},
           NEW byte \in UInt8, NEW v \in Int
    PROVE  /\ reg(Set(Set(n, "F", byte), dest, v), dest)
                = v % (IF is_16bit(dest) THEN 65536 ELSE 256)
           /\ Set(Set(n, "F", byte), dest, v).reg["F"] = byte
<1> DEFINE f == n.reg
           g == set_value(f, "F", byte)
           h == set_value(g, dest, v)
<1>1. /\ Set(Set(n, "F", byte), dest, v).reg = h
      /\ f \in RegisterFile
      BY DEF Good, MachineType, Set
<1>2. "F" \in Register /\ "F" \in ByteRegister
      BY DEF Register, ByteRegister, Pair
<1>3. "F" \notin Parts(dest) /\ Parts("F") = {"F"}
      BY Apart, <1>2 DEF Parts, Halves, Pair
<1>4. byte \in Int /\ byte % 256 = byte
      BY Bytes
<1>5. g \in RegisterFile
      BY <1>1, <1>4, SetType
<1> HIDE DEF f
<1>6. get_value(g, "F") = byte
  <2>1. ~is_16bit("F")
        BY DEF is_16bit, Pair
  <2>2. get_value(g, "F") = byte % 256
    <3>1. f \in RegisterFile /\ byte \in Int
          BY <1>1, <1>4
    <3>2. get_value(set_value(f, "F", byte), "F")
            = byte % (IF is_16bit("F") THEN 65536 ELSE 256)
          BY <1>2, <3>1, ReadBack
    <3> QED BY <2>1, <3>2
  <2> QED BY <1>4, <2>2
<1> HIDE DEF g
<1>7. get_value(h, "F") = byte
      BY <1>2, <1>3, <1>5, <1>6, OthersKept
<1>8. get_value(h, dest) = v % (IF is_16bit(dest) THEN 65536 ELSE 256)
      BY <1>2, <1>5, ReadBack
<1> HIDE DEF h
<1>9. get_value(h, "F") = h["F"]
      BY <1>2, Apart DEF get_value
<1> QED BY <1>1, <1>7, <1>8, <1>9 DEF reg

\* The operands of a sum: HL takes a pair, and operands of one width fit
\* where their sum goes.
LEMMA SumOperands ==
    ASSUME NEW b, NEW n, Good(b, n), NEW i, Carries(i), SumOK(i), i.name \in Sums
    PROVE  /\ i.dest \in {"A", "HL"}
           /\ Value(i, i.dest, n) = reg(n, i.dest)
           /\ reg(n, i.dest) \in 0..(Width(i) - 1)
           /\ Value(i, i.source, n) \in UInt16
           /\ SameWidth(i) => Value(i, i.source, n) \in 0..(Width(i) - 1)
           /\ is_16bit(i.dest) => is_16bit(i.source)
<1>1. i.dest \in {"A", "HL"}
      BY DEF SumOK
<1>2. Value(i, i.dest, n) = reg(n, i.dest)
      BY <1>1 DEF Value
<1>3. /\ is_16bit("HL") /\ ~is_16bit("A") /\ "A" \in ByteRegister
      BY DEF is_16bit, Pair, ByteRegister
<1>4. reg(n, i.dest) \in UInt16 /\ Value(i, i.source, n) \in UInt16
      BY RegType, ValueType
<1>5. CASE i.dest = "HL"
  <2>1. is_16bit(i.source)
        BY <1>5 DEF SumOK
  <2> QED BY <1>1, <1>2, <1>3, <1>4, <1>5, <2>1, Words DEF Width
<1>6. CASE i.dest = "A"
  <2>1. reg(n, "A") \in UInt8
    <3>1. reg(n, "A") = n.reg["A"]
          BY <1>3, Apart DEF reg, get_value
    <3> QED BY <1>3, <3>1, RegType
  <2>2. ASSUME SameWidth(i) PROVE Value(i, i.source, n) \in UInt8
    <3>1. ~is_16bit(i.source) /\ i.imm_high = 0
          BY <1>3, <1>6, <2>2 DEF SumOK, SameWidth
    <3>2. imm(i) \in UInt8
          BY <3>1, Bytes DEF imm, Carries
    <3>3. reg(n, i.source) \in UInt8
      <4>1. i.source \notin Pair /\ i.source # "SP"
            BY <3>1 DEF is_16bit
      <4>2. CASE i.source \in ByteRegister
        <5>1. reg(n, i.source) = n.reg[i.source]
              BY <4>1, <4>2 DEF reg, get_value
        <5> QED BY <4>2, <5>1, RegType
      <4>3. CASE i.source \notin ByteRegister
            BY <4>1, <4>3, Bytes DEF reg, get_value
      <4> QED BY <4>2, <4>3
    <3> QED BY <3>2, <3>3 DEF Value
  <2> QED BY <1>1, <1>2, <1>3, <1>4, <1>6, <2>1, <2>2, Bytes DEF Width
<1> QED BY <1>1, <1>5, <1>6

\* The switch, for the instructions that stay inside the machine.
LEMMA Switch ==
    ASSUME NEW i, NEW n, NEW x, NEW y, NEW junk
    PROVE  LET result == Case(i, n, x, y, junk) IN
           /\ i.name \in {"ADD", "ADC"} => result = Add(i, n, x, y)
           /\ i.name \in {"SUB", "SBC"} => result = Subtract(i, n, x, y)
           /\ i.name = "NEG" => result = Negate(n, x)
           /\ i.name = "INC" => result = Increment(n, x)
           /\ i.name = "DEC" => result = Decrement(n, x)
           /\ i.name = "CP" => result = Compare(n, y)
           /\ i.name = "AND" => result = And(n, x, y)
           /\ i.name = "OR" => result = Or(n, x, y)
           /\ i.name = "XOR" => result = Xor(n, x, y)
           /\ i.name = "CPL" => result = Complement(n, x)
           /\ i.name = "DAA" => result = DecimalAdjust(n, x)
           /\ i.name = "CCF" => result = ComplementCarry(n)
           /\ i.name = "SCF" => result = SetCarry(n)
           /\ i.name \in LeftShift => result = ShiftLeft(i, n, x)
           /\ i.name \in RightShift => result = ShiftRight(i, n, x)
           /\ i.name = "BIT" => result = TestBit(n, x, y)
           /\ i.name \in {"RES", "SET"} => result = WriteBit(i, n, x, y)
           /\ i.name = "LD" => result = Load(i, n, y)
           /\ i.name = "EX" => result = Exchange(i, n, x, y)
           /\ i.name = "EXX" => result = ExchangeAll(n)
<1> DEFINE result == Case(i, n, x, y, junk)
<1>1. ASSUME i.name \in {"ADD", "ADC"} PROVE result = Add(i, n, x, y)
  <2>1. CASE i.name = "ADD"
        BY <2>1 DEF Case
  <2>2. CASE i.name = "ADC"
        BY <2>2 DEF Case
  <2> QED BY <1>1, <2>1, <2>2
<1>2. ASSUME i.name \in {"SUB", "SBC"} PROVE result = Subtract(i, n, x, y)
  <2>1. CASE i.name = "SUB"
        BY <2>1 DEF Case
  <2>2. CASE i.name = "SBC"
        BY <2>2 DEF Case
  <2> QED BY <1>2, <2>1, <2>2
<1>3. ASSUME i.name = "NEG" PROVE result = Negate(n, x)
      BY <1>3 DEF Case
<1>4. ASSUME i.name = "INC" PROVE result = Increment(n, x)
      BY <1>4 DEF Case
<1>5. ASSUME i.name = "DEC" PROVE result = Decrement(n, x)
      BY <1>5 DEF Case
<1>6. ASSUME i.name = "CP" PROVE result = Compare(n, y)
      BY <1>6 DEF Case
<1>7. ASSUME i.name = "AND" PROVE result = And(n, x, y)
      BY <1>7 DEF Case
<1>8. ASSUME i.name = "OR" PROVE result = Or(n, x, y)
      BY <1>8 DEF Case
<1>9. ASSUME i.name = "XOR" PROVE result = Xor(n, x, y)
      BY <1>9 DEF Case
<1>10. ASSUME i.name = "CPL" PROVE result = Complement(n, x)
      BY <1>10 DEF Case
<1>11. ASSUME i.name = "DAA" PROVE result = DecimalAdjust(n, x)
      BY <1>11 DEF Case
<1>12. ASSUME i.name = "CCF" PROVE result = ComplementCarry(n)
      BY <1>12 DEF Case
<1>13. ASSUME i.name = "SCF" PROVE result = SetCarry(n)
      BY <1>13 DEF Case
<1>14. ASSUME i.name \in LeftShift PROVE result = ShiftLeft(i, n, x)
      BY <1>14 DEF Case, LeftShift
<1>15. ASSUME i.name \in RightShift PROVE result = ShiftRight(i, n, x)
      BY <1>15 DEF Case, RightShift
<1>16. ASSUME i.name = "BIT" PROVE result = TestBit(n, x, y)
      BY <1>16 DEF Case
<1>17. ASSUME i.name \in {"RES", "SET"} PROVE result = WriteBit(i, n, x, y)
      BY <1>17 DEF Case
<1>18. ASSUME i.name = "LD" PROVE result = Load(i, n, y)
      BY <1>18 DEF Case
<1>19. ASSUME i.name = "EX" PROVE result = Exchange(i, n, x, y)
      BY <1>19 DEF Case
<1>20. ASSUME i.name = "EXX" PROVE result = ExchangeAll(n)
      BY <1>20 DEF Case
<1> QED BY <1>1, <1>2, <1>3, <1>4, <1>5, <1>6, <1>7, <1>8, <1>9, <1>10,
           <1>11, <1>12, <1>13, <1>14, <1>15, <1>16, <1>17, <1>18, <1>19, <1>20

LEMMA SumStep ==
    ASSUME NEW n, Good(boot, n), n.reg["F"] = m.reg["F"], NEW i, Carries(i), SumOK(i),
           AddressShape(i), i.name \in Sums, m' \in execute_instruction(i, n)
    PROVE  LET x   == reg(n, i.dest)
               y   == Value(i, i.source, n)
               c   == IF i.name \in {"ADC", "SBC"} THEN CarryOf(m) ELSE 0
               up  == i.name \in {"ADD", "ADC"}
               r   == IF up THEN x + y + c ELSE x - y - c
               out == Width(i) * CarryOf(m')
           IN  /\ reg(m', i.dest) = r % Width(i)
               /\ CarryOf(m') = 0 <=> 0 <= r /\ r < Width(i)
               /\ SameWidth(i) => r = reg(m', i.dest) + (IF up THEN out ELSE -out)
<1> DEFINE x  == reg(n, i.dest)
           y  == Value(i, i.source, n)
           c  == IF i.name \in {"ADC", "SBC"} THEN CarryOf(m) ELSE 0
           up == i.name \in {"ADD", "ADC"}
           r  == IF up THEN x + y + c ELSE x - y - c
           w  == Width(i)
<1>1. /\ i.dest \in {"A", "HL"} /\ Value(i, i.dest, n) = x
      /\ x \in 0..(w - 1) /\ y \in UInt16 /\ (SameWidth(i) => y \in 0..(w - 1))
      /\ is_16bit(i.dest) => is_16bit(i.source)
      BY SumOperands
<1>2. w \in {256, 65536} /\ w = IF is_16bit(i.dest) THEN 65536 ELSE 256
      BY DEF Width
<1>3. Bit(i.name \in {"ADC", "SBC"} /\ "Carry" \in flags(n)) = c /\ c \in 0..1
  <2>1. m.reg["F"] \in UInt8
        BY RegType DEF ByteRegister
  <2>2. "Carry" \in flags(n) <=> CarryOf(m) = 1
        BY <2>1, CarryParsed DEF flags, CarryOf
  <2>3. CarryOf(m) \in 0..1
        BY <2>1, Bytes DEF CarryOf
  <2> QED BY <2>2, <2>3 DEF Bit
<1>4. ~i.addr_dest /\ ~i.addr_source
      BY DEF AddressShape, Sums
<1>5. OperandReads(i, n) = n /\ Operand(i, i.dest, i.addr_dest, n) = x
      /\ Operand(i, i.source, i.addr_source, n) = y
      BY <1>1, <1>4 DEF OperandReads, Operand
<1> HIDE DEF x, y, c, w
<1>6. PICK o \in Outcomes(i, n, x, y) :
        m' = Store(i, Set(o.m, "F", FlagByte(FlagsAfter(i, x, y, o))),
                   Value(i, i.dest, n), o.result)
      BY <1>5 DEF execute_instruction
<1>7. PICK junk \in Undefined : o = Case(i, n, x, y, junk)
      BY <1>5 DEF Outcomes
<1>8. /\ o.m = n /\ o.result = r /\ "Carry" \in o.named
      /\ "CarrySet" \notin o.named /\ "CarryReset" \notin o.named
  <2>1. CASE up
    <3>1. o = Add(i, n, x, y)
          BY <1>7, <2>1, Switch
    <3>2. Bit(i.name = "ADC" /\ "Carry" \in flags(n)) = c
          BY <1>3, <2>1
    <3> QED BY <2>1, <3>1, <3>2 DEF Add, Outcome, Arithmetic
  <2>2. CASE ~up
    <3>1. i.name \in {"SUB", "SBC"}
          BY <2>2 DEF Sums
    <3>2. o = Subtract(i, n, x, y)
          BY <1>7, <3>1, Switch
    <3>3. Bit(i.name = "SBC" /\ "Carry" \in flags(n)) = c
          BY <1>3, <3>1
    <3> QED BY <2>2, <3>2, <3>3 DEF Subtract, Outcome, Arithmetic
  <2> QED BY <2>1, <2>2
<1>9. r \in Int
      BY <1>1, <1>2, <1>3, Words
<1>10. SameWidth(i) => (up => 0 <= r /\ r < 2 * w) /\ (~up => -w <= r /\ r < w)
      BY <1>1, <1>2, <1>3
<1> DEFINE byte == FlagByte(FlagsAfter(i, x, y, o))
<1> HIDE DEF r, up
<1>11. byte \in UInt8 /\ byte % 2 = IF 0 <= r /\ r < w THEN 0 ELSE 1
  <2>1. byte % 2 = IF r \in (IF Wide(i) THEN UInt16 ELSE UInt8) THEN 0 ELSE 1
        BY <1>8, CarryComputed
  <2>2. /\ r \in UInt16 <=> 0 <= r /\ r < 65536
        /\ r \in UInt8 <=> 0 <= r /\ r < 256
        BY <1>9, Words, Bytes
  <2>3. byte % 2 = IF 0 <= r /\ r < w THEN 0 ELSE 1
    <3>1. CASE is_16bit(i.dest)
      <4>1. w = 65536 /\ Wide(i)
            BY <1>1, <1>2, <3>1 DEF Wide
      <4> QED BY <2>1, <2>2, <4>1
    <3>2. CASE ~is_16bit(i.dest)
      <4>1. w = 256 /\ ~Wide(i)
            BY <1>2, <3>2 DEF Wide
      <4> QED BY <2>1, <2>2, <4>1
    <3> QED BY <3>1, <3>2
  <2> QED BY <2>3, FlagByteType
<1> HIDE DEF byte
<1>12. m' = Set(Set(n, "F", byte), i.dest, r)
  <2>1. ~is_io(i)
        BY DEF is_io, Sums
  <2> QED BY <1>4, <1>6, <1>8, <2>1 DEF Store, byte
<1>13. reg(m', i.dest) = r % w /\ m'.reg["F"] = byte
  <2>1. i.dest \in Register /\ i.dest \notin {"F", "AF"} /\ byte \in UInt8 /\ r \in Int
        BY <1>1, <1>9, <1>11 DEF Register, ByteRegister, Pair
  <2>2. /\ reg(Set(Set(n, "F", byte), i.dest, r), i.dest)
             = r % (IF is_16bit(i.dest) THEN 65536 ELSE 256)
        /\ Set(Set(n, "F", byte), i.dest, r).reg["F"] = byte
        BY <2>1, ResultStored
  <2> QED BY <1>2, <1>12, <2>2
<1>14. CarryOf(m') \in {0, 1} /\ (CarryOf(m') = 0 <=> 0 <= r /\ r < w)
       BY <1>11, <1>13 DEF CarryOf
<1>15. SameWidth(i) => r = (r % w) + (IF up THEN w * CarryOf(m') ELSE -(w * CarryOf(m')))
  <2>1. ASSUME SameWidth(i)
        PROVE  /\ up => (r % w) + w * CarryOf(m') = r
               /\ ~up => (r % w) - w * CarryOf(m') = r
        BY <1>2, <1>9, <1>10, <1>14, <2>1, Rests
  <2>2. r % w \in Int /\ w * CarryOf(m') \in Int
        BY <1>2, <1>9, <1>14
  <2> QED BY <2>1, <2>2
<1> QED BY <1>13, <1>14, <1>15 DEF r, up, x, y, c, w

\* For every operand, every Carry and every destination and source the tables
\* give a sum: the destination is the low bits of the sum or the difference,
\* Carry says whether there are others, and between operands of one width
\* none is lost (the ADD, ADC, SUB and SBC cases of execute_instruction and
\* its flags at the end; A with the pair HL is the case of two widths).
THEOREM SumAndCarrySafe == Spec => SumAndCarry
<1>1. ASSUME IInv, [Next]_vars
      PROVE  [\A i \in {decoded'} :
         Executed /\ i.name \in {"ADD", "ADC", "SUB", "SBC"} =>
            LET x   == reg(Advanced, i.dest)
                y   == Value(i, i.source, Advanced)
                c   == IF i.name \in {"ADC", "SBC"} THEN CarryOf(m) ELSE 0
                up  == i.name \in {"ADD", "ADC"}
                r   == IF up THEN x + y + c ELSE x - y - c
                out == Width(i) * CarryOf(m')
            IN  /\ reg(m', i.dest) = r % Width(i)
                /\ CarryOf(m') = 0 <=> 0 <= r /\ r < Width(i)
                /\ SameWidth(i) => r = reg(m', i.dest) + (IF up THEN out ELSE -out)]_vars
  <2> SUFFICES ASSUME Executed, decoded'.name \in Sums
               PROVE  LET x   == reg(Advanced, decoded'.dest)
                          y   == Value(decoded', decoded'.source, Advanced)
                          c   == IF decoded'.name \in {"ADC", "SBC"} THEN CarryOf(m) ELSE 0
                          up  == decoded'.name \in {"ADD", "ADC"}
                          r   == IF up THEN x + y + c ELSE x - y - c
                          out == Width(decoded') * CarryOf(m')
                      IN  /\ reg(m', decoded'.dest) = r % Width(decoded')
                          /\ CarryOf(m') = 0 <=> 0 <= r /\ r < Width(decoded')
                          /\ SameWidth(decoded') =>
                                r = reg(m', decoded'.dest) + (IF up THEN out ELSE -out)
      BY DEF Sums
  <2>1. ExecutorLoop
        BY <1>1 DEF Executed, Next, Cpu, CheckNmi, CheckInt, ExecutorExit, DeviceStep, Exited, vars
  <2>2. Fetch
    <3>1. decoded' # Stream!NoInstruction
          BY DEF Sums, Stream!NoInstruction
    <3> QED BY <2>1, <3>1 DEF ExecutorLoop, HaltLoop
  <2>3. decoded' # Stream!nullopt /\ Execute(decoded')
        BY <2>2 DEF Fetch, Executed
  <2>4. Fetched \in UInt8 /\ Good(boot, Advanced)
        BY <1>1, AdvancedGood
  <2>5. Stream!Read(Append(pending, Fetched))
        BY <2>2 DEF Fetch
  <2>6. Carries(decoded') /\ SumOK(decoded') /\ AddressShape(decoded')
        BY <1>1, <2>3, <2>4, <2>5, ReadGood, ReadShape, ReadShaped DEF IInv, InstructionOK
  <2>7. m' \in execute_instruction(decoded', Advanced)
        BY <2>3 DEF Execute
  <2>8. Advanced.reg["F"] = m.reg["F"]
        BY <1>1 DEF Advanced, Goto, IInv, TypeOK, MachineType, RegisterFile, ByteRegister,
                    WordRegister
  <2> QED BY <2>4, <2>6, <2>7, <2>8, SumStep
<1> QED BY <1>1, Invariant, PTL DEF Spec, SumAndCarry

-----------------------------------------------------------------------------
(* Shifts and rotates.                                                     *)

\* The bits below bit 7 move to the right, whatever enters at the top, of a
\* word and of what a register of w values keeps of it.
LEMMA ShiftedBits ==
    ASSUME NEW i, NEW x \in UInt16, NEW w \in {256, 65536}
    PROVE  /\ ShiftedRight(i, x) \in Int
           /\ (ShiftedRight(i, x) % w) % 128 = (x \div 2) % 128
<1> DEFINE v == ShiftedRight(i, x)
<1>1. x \in Int /\ 0 <= x /\ x < 65536 /\ x \div 2 \in UInt16
      BY Words
<1>2. v \in Int /\ v % 128 = (x \div 2) % 128
  <2>1. CASE i.name = "SRA" /\ x > 127
    <3>1. v = 2147483520 + (x % 256) \div 2
          BY <1>1, <2>1 DEF ShiftedRight
    <3> QED BY <1>1, <3>1
  <2>2. CASE i.name \in {"RRC", "RRCA"} /\ x % 2 = 1
    <3>1. v = Word(BitsOf(x \div 2) \cup {7})
          BY <2>2 DEF ShiftedRight
    <3>2. CASE 7 \in BitsOf(x \div 2)
      <4>1. BitsOf(x \div 2) \cup {7} = BitsOf(x \div 2)
            BY <3>2
      <4> QED BY <1>1, <3>1, <4>1, WordOfBits
    <3>3. CASE 7 \notin BitsOf(x \div 2)
      <4>1. v = (x \div 2) + 128
            BY <1>1, <3>1, <3>3, BitAdded, WordOfBits, Words
      <4> QED BY <1>1, <4>1
    <3> QED BY <3>2, <3>3
  <2>3. CASE ~(i.name = "SRA" /\ x > 127) /\ ~(i.name \in {"RRC", "RRCA"} /\ x % 2 = 1)
    <3>1. v = x \div 2
          BY <2>3 DEF ShiftedRight
    <3> QED BY <1>1, <3>1
  <2> QED BY <2>1, <2>2, <2>3
<1> HIDE DEF v
<1>3. (v % w) % 128 = v % 128
  <2>1. CASE w = 256
        BY <1>2, <2>1
  <2>2. CASE w = 65536
        BY <1>2, <2>2
  <2> QED BY <2>1, <2>2
<1> QED BY <1>2, <1>3 DEF v

\* Carry after an instruction that sets or resets it.
LEMMA CarryChosen ==
    ASSUME NEW i, NEW x, NEW y, NEW o, "Carry" \notin o.named, NEW c \in {0, 1},
           "CarrySet" \in o.named <=> c = 1, "CarryReset" \in o.named <=> c = 0
    PROVE  FlagByte(FlagsAfter(i, x, y, o)) % 2 = c
<1>1. "Carry" \in Flag /\ SetName["Carry"] = "CarrySet" /\ ResetName["Carry"] = "CarryReset"
      BY DEF Flag, SetName, ResetName
<1>2. "Carry" \in FlagsAfter(i, x, y, o) <=> c = 1
      BY <1>1 DEF FlagsAfter
<1> QED BY <1>2, CarryBit

LEMMA ShiftOutcome ==
    ASSUME NEW i, NEW n, NEW x \in UInt16, NEW y, NEW junk, NEW o, o = Case(i, n, x, y, junk),
           i.name \in Shift, ~Wide(i), NEW w \in {256, 65536},
           NEW byte, byte = FlagByte(FlagsAfter(i, x, y, o))
    PROVE  /\ o.m = n /\ o.result \in Int
           /\ i.name \in LeftShift => /\ ((o.result % w) - 2 * x) % w \in {0, 1}
                                      /\ byte % 2 = 1 <=> x > 127
           /\ i.name \in RightShift => 2 * ((o.result % w) % 128) + (byte % 2) = x % 256
<1>1. x \in Int /\ 0 <= x /\ x < 65536
      BY Words
<1>2. CASE i.name \in LeftShift
  <2> DEFINE e == EntersRight(i, n, x)
  <2>1. o = ShiftLeft(i, n, x)
        BY <1>2, Switch
  <2>2. e \in {0, 1}
        BY DEF EntersRight, Bit
  <2> HIDE DEF e
  <2>3. o.m = n /\ o.result = 2 * x + e /\ o.named = RotateFlags(i) \cup {"Carry"}
        BY <2>1 DEF ShiftLeft, Outcome, e
  <2>4. /\ "Carry" \in o.named /\ "CarrySet" \notin o.named /\ "CarryReset" \notin o.named
        BY <2>3 DEF RotateFlags, Logical
  <2>5. byte % 2 = IF o.result \in UInt8 THEN 0 ELSE 1
        BY <2>4, CarryComputed
  <2>6. o.result \in Int /\ (o.result \in UInt8 <=> x <= 127)
        BY <1>1, <2>2, <2>3, Bytes
  <2>7. ((o.result % w) - 2 * x) % w \in {0, 1}
    <3>1. o.result - 2 * x = e
          BY <1>1, <2>2, <2>3
    <3>2. CASE w = 256
          BY <1>1, <2>2, <2>6, <3>1, <3>2
    <3>3. CASE w = 65536
          BY <1>1, <2>2, <2>6, <3>1, <3>3
    <3> QED BY <3>2, <3>3
  <2>8. byte % 2 = 1 <=> x > 127
        BY <1>1, <2>5, <2>6
  <2>9. i.name \notin RightShift
        BY <1>2 DEF LeftShift, RightShift
  <2> QED BY <2>3, <2>6, <2>7, <2>8, <2>9
<1>3. CASE i.name \in RightShift
  <2>1. o = ShiftRight(i, n, x)
        BY <1>3, Switch
  <2>2. /\ o.m = n /\ o.result = ShiftedRight(i, x)
        /\ o.named = RotateFlags(i) \cup Choice(x % 2 = 1, "CarrySet", "CarryReset")
        BY <2>1 DEF ShiftRight, Outcome
  <2>3. /\ "Carry" \notin o.named /\ x % 2 \in {0, 1}
        /\ "CarrySet" \in o.named <=> x % 2 = 1
        /\ "CarryReset" \in o.named <=> x % 2 = 0
        BY <1>1, <2>2 DEF RotateFlags, Logical, Choice
  <2>4. byte % 2 = x % 2
        BY <2>3, CarryChosen
  <2>5. o.result \in Int /\ (o.result % w) % 128 = (x \div 2) % 128
        BY <2>2, ShiftedBits
  <2>6. 2 * ((x \div 2) % 128) + (x % 2) = x % 256
        BY <1>1
  <2>7. i.name \notin LeftShift
        BY <1>3 DEF LeftShift, RightShift
  <2> QED BY <2>2, <2>4, <2>5, <2>6, <2>7
<1> QED BY <1>2, <1>3 DEF Shift

LEMMA ShiftStep ==
    ASSUME NEW n, Good(boot, n), NEW i, Carries(i), AddressShape(i), i.name \in Shift,
           m' \in execute_instruction(i, n)
    PROVE  LET x == reg(n, i.dest)
               r == reg(m', i.dest)
           IN  /\ i.name \in LeftShift => /\ (r - 2 * x) % Width(i) \in {0, 1}
                                          /\ CarryOf(m') = 1 <=> x > 127
               /\ i.name \in RightShift => 2 * (r % 128) + CarryOf(m') = x % 256
<1> DEFINE x == reg(n, i.dest)
           y == Value(i, i.source, n)
           w == Width(i)
<1>1. /\ ~i.addr_dest /\ ~i.addr_source
      /\ i.dest \in Shifted /\ i.source = "None"
      BY DEF AddressShape, Shift, LeftShift, RightShift
<1>2. /\ i.dest # "Immediate" /\ i.dest \in Register /\ i.dest \notin {"F", "AF"}
      /\ ~Wide(i)
      BY <1>1 DEF Shifted, ByteRegister, Register, Pair, Wide, is_16bit
<1>3. Value(i, i.dest, n) = x /\ x \in UInt16
      BY <1>2, RegType DEF Value
<1>4. w \in {256, 65536} /\ w = IF is_16bit(i.dest) THEN 65536 ELSE 256
      BY DEF Width
<1>5. /\ OperandReads(i, n) = n /\ Operand(i, i.dest, i.addr_dest, n) = x
      /\ Operand(i, i.source, i.addr_source, n) = y
      BY <1>1, <1>3 DEF OperandReads, Operand
<1> HIDE DEF x, y, w
<1>6. PICK o \in Outcomes(i, n, x, y) :
        m' = Store(i, Set(o.m, "F", FlagByte(FlagsAfter(i, x, y, o))),
                   Value(i, i.dest, n), o.result)
      BY <1>5 DEF execute_instruction
<1>7. PICK junk \in Undefined : o = Case(i, n, x, y, junk)
      BY <1>5 DEF Outcomes
<1> DEFINE byte == FlagByte(FlagsAfter(i, x, y, o))
<1>8. byte \in UInt8
      BY FlagByteType
<1>9. /\ o.m = n /\ o.result \in Int
      /\ i.name \in LeftShift => /\ ((o.result % w) - 2 * x) % w \in {0, 1}
                                 /\ byte % 2 = 1 <=> x > 127
      /\ i.name \in RightShift => 2 * ((o.result % w) % 128) + (byte % 2) = x % 256
      BY <1>2, <1>3, <1>4, <1>7, ShiftOutcome
<1>10. m' = Set(Set(n, "F", byte), i.dest, o.result)
  <2>1. ~is_io(i)
        BY DEF is_io, Shift, LeftShift, RightShift
  <2> QED BY <1>1, <1>6, <1>9, <2>1 DEF Store
<1> HIDE DEF byte
<1>11. reg(m', i.dest) = o.result % w /\ m'.reg["F"] = byte
  <2>1. /\ reg(Set(Set(n, "F", byte), i.dest, o.result), i.dest)
             = o.result % (IF is_16bit(i.dest) THEN 65536 ELSE 256)
        /\ Set(Set(n, "F", byte), i.dest, o.result).reg["F"] = byte
        BY <1>2, <1>8, <1>9, ResultStored
  <2> QED BY <1>4, <1>10, <2>1
<1>12. CarryOf(m') = byte % 2
      BY <1>11 DEF CarryOf
<1> QED BY <1>9, <1>11, <1>12 DEF x, w

\* For every operand, every Carry and every destination the tables give a
\* shift: no bit of a byte is lost.  Of the pair HL (CB x6) bit 15 is lost to
\* the left, where Carry says whether bit 7 or one above it is set, and to the
\* right the theorem is about the low eight bits (the RL... and RR... cases of
\* execute_instruction).
THEOREM ShiftAndCarrySafe == Spec => ShiftAndCarry
<1>1. ASSUME IInv, [Next]_vars
      PROVE  [\A i \in {decoded'} :
         LET x == reg(Advanced, i.dest)
             r == reg(m', i.dest)
         IN  Executed =>
               /\ i.name \in {"RL", "RLA", "RLC", "RLCA", "SLA", "SLL"} =>
                     /\ (r - 2 * x) % Width(i) \in {0, 1}
                     /\ CarryOf(m') = 1 <=> x > 127
               /\ i.name \in {"RR", "RRA", "RRC", "RRCA", "SRA", "SRL"} =>
                     2 * (r % 128) + CarryOf(m') = x % 256]_vars
  <2> SUFFICES ASSUME Executed, decoded'.name \in Shift
               PROVE  LET x == reg(Advanced, decoded'.dest)
                          r == reg(m', decoded'.dest)
                      IN  /\ decoded'.name \in LeftShift =>
                                /\ (r - 2 * x) % Width(decoded') \in {0, 1}
                                /\ CarryOf(m') = 1 <=> x > 127
                          /\ decoded'.name \in RightShift =>
                                2 * (r % 128) + CarryOf(m') = x % 256
      BY DEF Shift, LeftShift, RightShift
  <2>1. ExecutorLoop
        BY <1>1 DEF Executed, Next, Cpu, CheckNmi, CheckInt, ExecutorExit, DeviceStep, Exited, vars
  <2>2. Fetch
    <3>1. decoded' # Stream!NoInstruction
          BY DEF Shift, LeftShift, RightShift, Stream!NoInstruction
    <3> QED BY <2>1, <3>1 DEF ExecutorLoop, HaltLoop
  <2>3. decoded' # Stream!nullopt /\ Execute(decoded')
        BY <2>2 DEF Fetch, Executed
  <2>4. Fetched \in UInt8 /\ Good(boot, Advanced)
        BY <1>1, AdvancedGood
  <2>5. Stream!Read(Append(pending, Fetched))
        BY <2>2 DEF Fetch
  <2>6. Carries(decoded') /\ AddressShape(decoded')
        BY <1>1, <2>3, <2>4, <2>5, ReadGood, ReadShaped DEF IInv, InstructionOK
  <2>7. m' \in execute_instruction(decoded', Advanced)
        BY <2>3 DEF Execute
  <2> QED BY <2>4, <2>6, <2>7, ShiftStep
<1> QED BY <1>1, Invariant, PTL DEF Spec, ShiftAndCarry

-----------------------------------------------------------------------------
(* Machine cycles and control state: what the operations of a machine do   *)
(* to them.                                                                *)

\* A machine as far as that depends on it.
Whole(n) == /\ DOMAIN n = {"reg", "mem", "iff1", "iff2", "mode", "halt", "term", "bus"}
            /\ DOMAIN n.reg = ByteRegister \cup WordRegister

\* From n to o the masks, the mode and HALT stay; o has run the cycles bus.
Steady(n, o)      == /\ Whole(o)
                     /\ o.iff1 = n.iff1 /\ o.iff2 = n.iff2
                     /\ o.mode = n.mode /\ o.halt = n.halt
Runs(n, bus, o)   == Steady(n, o) /\ o.bus = bus

\* And so does the PC.
Passes(n, bus, o) == Runs(n, bus, o) /\ o.reg["PC"] = n.reg["PC"]

LEMMA WholeMachine == ASSUME NEW n, MachineType(n) PROVE Whole(n)
BY FileType DEF Whole, MachineType

LEMMA Passing ==
    ASSUME NEW n, NEW o, NEW p, NEW b, NEW c
    PROVE  /\ Whole(n) => Passes(n, n.bus, n)
           /\ Runs(n, b, o) /\ Runs(o, c, p) => Runs(n, c, p)
           /\ Passes(n, b, o) /\ Passes(o, c, p) => Passes(n, c, p)
BY DEF Passes, Runs, Steady

LEMMA SetShape ==
    ASSUME NEW f, DOMAIN f = ByteRegister \cup WordRegister, NEW name, NEW v
    PROVE  /\ DOMAIN set_value(f, name, v) = ByteRegister \cup WordRegister
           /\ set_value(f, name, v)["PC"] = f["PC"]
<1>1. "PC" \in DOMAIN f /\ "PC" \notin Pair \cup ByteRegister
      BY Apart DEF WordRegister
<1>2. CASE name \in Pair
  <2>1. set_value(f, name, v) = [f EXCEPT ![Halves[name][1]] = (v \div 256) % 256,
                                          ![Halves[name][2]] = v % 256]
        BY <1>2, Apart DEF set_value
  <2>2. Halves[name][1] # "PC" /\ Halves[name][2] # "PC"
        BY <1>1, <1>2, HalvesType
  <2> QED BY <1>1, <2>1, <2>2
<1>3. CASE name \in ByteRegister
  <2>1. set_value(f, name, v) = [f EXCEPT ![name] = v % 256]
        BY <1>3, Apart DEF set_value
  <2> QED BY <1>1, <1>3, <2>1
<1>4. CASE name = "SP"
  <2>1. name \notin Pair /\ name \notin ByteRegister /\ name # "PC"
        BY <1>4, Apart
  <2>2. set_value(f, name, v) = [f EXCEPT ![name] = v % 65536]
        BY <1>4, <2>1 DEF set_value
  <2> QED BY <1>1, <2>1, <2>2
<1>5. CASE name \notin Pair /\ name \notin ByteRegister /\ name # "SP"
      BY <1>5 DEF set_value
<1> QED BY <1>2, <1>3, <1>4, <1>5

LEMMA FilePasses ==
    ASSUME NEW n, Whole(n), NEW f, DOMAIN f = ByteRegister \cup WordRegister
    PROVE  /\ Runs(n, n.bus, [n EXCEPT !.reg = f])
           /\ f["PC"] = n.reg["PC"] => Passes(n, n.bus, [n EXCEPT !.reg = f])
BY DEF Whole, Passes, Runs, Steady

LEMMA SetPasses ==
    ASSUME NEW n, Whole(n), NEW name, NEW v PROVE Passes(n, n.bus, Set(n, name, v))
<1>1. /\ DOMAIN set_value(n.reg, name, v) = ByteRegister \cup WordRegister
      /\ set_value(n.reg, name, v)["PC"] = n.reg["PC"]
      BY SetShape DEF Whole
<1> QED BY <1>1, FilePasses DEF Set

LEMMA GotoRuns == ASSUME NEW n, Whole(n), NEW a PROVE Runs(n, n.bus, Goto(n, a))
<1>1. DOMAIN [n.reg EXCEPT !["PC"] = a % 65536] = ByteRegister \cup WordRegister
      BY DEF Whole
<1> QED BY <1>1, FilePasses DEF Goto

LEMMA CyclePasses ==
    ASSUME NEW n, Whole(n), NEW c PROVE Passes(n, Append(n.bus, c), Cycle(n, c))
BY DEF Whole, Passes, Runs, Steady, Cycle

LEMMA WritePasses ==
    ASSUME NEW n, Whole(n), NEW a, NEW v
    PROVE  Passes(n, Append(n.bus, "MemWrite"), write_memory(n, a, v))
<1> DEFINE k == [n EXCEPT !.mem = Stored(@, a, v)]
<1>1. Passes(n, n.bus, k)
      BY DEF Whole, Passes, Runs, Steady
<1>2. Whole(k) /\ k.bus = n.bus
      BY <1>1 DEF Passes, Runs, Steady
<1> HIDE DEF k
<1>3. Passes(k, Append(n.bus, "MemWrite"), Cycle(k, "MemWrite"))
      BY <1>2, CyclePasses
<1> QED BY <1>1, <1>3, Passing DEF write_memory, k

LEMMA PushPasses ==
    ASSUME NEW n, Whole(n), NEW w
    PROVE  Passes(n, Append(Append(n.bus, "MemWrite"), "MemWrite"), Push(n, w))
<1> DEFINE sp == n.reg["SP"]
           n1 == write_memory(n, (sp - 1) % 65536, w \div 256)
           n2 == write_memory(n1, (sp - 2) % 65536, w % 256)
<1> HIDE DEF sp
<1>1. Passes(n, Append(n.bus, "MemWrite"), n1)
      BY WritePasses
<1>2. Whole(n1) /\ n1.bus = Append(n.bus, "MemWrite")
      BY <1>1 DEF Passes, Runs, Steady
<1> HIDE DEF n1
<1>3. \A a, v : Passes(n1, Append(n1.bus, "MemWrite"), write_memory(n1, a, v))
      BY <1>2, WritePasses
<1>4. /\ Passes(n1, Append(Append(n.bus, "MemWrite"), "MemWrite"), n2)
      /\ Whole(n2) /\ n2.bus = Append(Append(n.bus, "MemWrite"), "MemWrite")
      BY <1>2, <1>3 DEF Passes, Runs, Steady
<1> HIDE DEF n2
<1>5. Passes(n2, n2.bus, Set(n2, "SP", sp - 2))
      BY <1>4, SetPasses
<1>6. Push(n, w) = Set(n2, "SP", sp - 2)
      BY DEF Push, n1, n2, sp
<1>7. Passes(n, n2.bus, n2)
      BY <1>1, <1>4, Passing
<1> QED BY <1>4, <1>5, <1>6, <1>7, Passing

LEMMA DropPasses ==
    ASSUME NEW n, Whole(n)
    PROVE  Passes(n, Append(Append(n.bus, "MemRead"), "MemRead"), Drop(n))
<1> DEFINE n1 == Cycle(n, "MemRead")
           n2 == Cycle(n1, "MemRead")
<1>1. Passes(n, Append(n.bus, "MemRead"), n1)
      BY CyclePasses
<1>2. Whole(n1) /\ n1.bus = Append(n.bus, "MemRead")
      BY <1>1 DEF Passes, Runs, Steady
<1> HIDE DEF n1
<1>3. Passes(n1, Append(Append(n.bus, "MemRead"), "MemRead"), n2)
      BY <1>2, CyclePasses
<1>4. Whole(n2) /\ n2.bus = Append(Append(n.bus, "MemRead"), "MemRead")
      BY <1>3 DEF Passes, Runs, Steady
<1> HIDE DEF n2
<1>5. Passes(n2, n2.bus, Set(n2, "SP", n.reg["SP"] + 2))
      BY <1>4, SetPasses
<1>6. Drop(n) = Set(n2, "SP", n.reg["SP"] + 2)
      BY DEF Drop, n1, n2
<1>7. Passes(n, n2.bus, n2)
      BY <1>1, <1>3, <1>4, Passing
<1> QED BY <1>4, <1>5, <1>6, <1>7, Passing

LEMMA PortPasses ==
    ASSUME NEW n, Whole(n), NEW low, NEW v
    PROVE  /\ Passes(n, Append(n.bus, "IORead"), AfterRead(n, low))
           /\ Passes(n, Append(n.bus, "IOWrite"), write_io(n, low, v))
<1>1. \A t : Passes(n, n.bus, [n EXCEPT !.term = t])
      BY DEF Whole, Passes, Runs, Steady
<1>2. ASSUME NEW k, Passes(n, n.bus, k), NEW c PROVE Passes(n, Append(n.bus, c), Cycle(k, c))
  <2>1. Whole(k) /\ k.bus = n.bus
        BY <1>2 DEF Passes, Runs, Steady
  <2>2. Passes(k, Append(n.bus, c), Cycle(k, c))
        BY <2>1, CyclePasses
  <2> QED BY <1>2, <2>2, Passing
<1> DEFINE k == [n EXCEPT !.term.needs_len = low # Port /\ @]
           l == CASE low # Port -> n
                  [] low = Port /\ v = 255 -> [n EXCEPT !.term.should_read = TRUE]
                  [] OTHER -> [n EXCEPT !.term.printed = Append(@, v)]
<1>3. Passes(n, n.bus, k)
      BY <1>1
<1>4. Passes(n, n.bus, l)
      BY <1>1, Passing
<1> HIDE DEF k, l
<1>5. AfterRead(n, low) = Cycle(k, "IORead") /\ write_io(n, low, v) = Cycle(l, "IOWrite")
      BY DEF AfterRead, write_io, k, l
<1> QED BY <1>2, <1>3, <1>4, <1>5

-----------------------------------------------------------------------------
(* The cases of the switch.                                                *)

LEMMA QuietMachine == \A n : Quiet(n).m = n
BY DEF Quiet, Outcome

LEMMA ReturnRuns ==
    ASSUME NEW n, Whole(n)
    PROVE  Runs(n, Append(Append(n.bus, "MemRead"), "MemRead"), Return(n))
<1>1. Passes(n, Append(Append(n.bus, "MemRead"), "MemRead"), Drop(n))
      BY DropPasses
<1>2. Whole(Drop(n)) /\ Drop(n).bus = Append(Append(n.bus, "MemRead"), "MemRead")
      BY <1>1 DEF Passes, Runs, Steady
<1>3. Runs(Drop(n), Append(Append(n.bus, "MemRead"), "MemRead"), Return(n))
      BY <1>2, GotoRuns DEF Return
<1> QED BY <1>1, <1>3, Passing DEF Passes

\* Registers, ROM and RAM to the end of a block instruction: the PC may go
\* back to the instruction.
LEMMA AgainRuns ==
    ASSUME NEW n, NEW k, NEW bus, Runs(n, bus, k), NEW i, NEW more,
           NEW f, DOMAIN f = ByteRegister \cup WordRegister
    PROVE  Runs(n, bus, Again(i, [k EXCEPT !.reg = f], more))
<1> DEFINE done == [k EXCEPT !.reg = f]
<1>1. Whole(k) /\ k.bus = bus
      BY DEF Runs, Steady
<1>2. Runs(k, bus, done)
      BY <1>1, FilePasses
<1>3. Whole(done) /\ done.bus = bus
      BY <1>2 DEF Runs, Steady
<1> HIDE DEF done
<1>4. Runs(done, bus, Again(i, done, more))
      BY <1>3, GotoRuns, Passing DEF Again, Passes
<1>5. Runs(n, bus, Again(i, done, more))
      BY <1>2, <1>4, Passing
<1> QED BY <1>5 DEF done

LEMMA MovedShape ==
    ASSUME NEW f, DOMAIN f = ByteRegister \cup WordRegister, NEW i, NEW name
    PROVE  /\ DOMAIN Moved(i, f, name) = ByteRegister \cup WordRegister
           /\ DOMAIN Counted(f, name) = ByteRegister \cup WordRegister
BY SetShape DEF Moved, Counted

LEMMA SearchRuns ==
    ASSUME NEW n, Whole(n), NEW i PROVE Runs(n, Append(n.bus, "MemRead"), Search(i, n).m)
<1> DEFINE read == Cycle(n, "MemRead")
           f    == Counted(Moved(i, read.reg, "HL"), "BC")
<1>1. Runs(n, Append(n.bus, "MemRead"), read)
      BY CyclePasses DEF Passes
<1>2. DOMAIN f = ByteRegister \cup WordRegister
  <2>1. DOMAIN read.reg = ByteRegister \cup WordRegister
        BY <1>1 DEF Runs, Steady, Whole
  <2> HIDE DEF read
  <2> QED BY <2>1, MovedShape
<1>3. \E more : Search(i, n).m = Again(i, [read EXCEPT !.reg = f], more)
      BY DEF Search, Outcome
<1> HIDE DEF f, read
<1> QED BY <1>1, <1>2, <1>3, AgainRuns

LEMMA CopyRuns ==
    ASSUME NEW n, Whole(n), NEW i
    PROVE  Runs(n, Append(Append(n.bus, "MemRead"), "MemWrite"), Copy(i, n).m)
<1> DEFINE bus    == Append(Append(n.bus, "MemRead"), "MemWrite")
           read   == Cycle(n, "MemRead")
           copied == write_memory(read, reg(n, "DE"), Peek(n.mem, reg(n, "HL")))
           f      == CopyRegisters(i, copied.reg)
<1>1. Passes(n, Append(n.bus, "MemRead"), read)
      BY CyclePasses
<1>2. Whole(read) /\ read.bus = Append(n.bus, "MemRead")
      BY <1>1 DEF Passes, Runs, Steady
<1> HIDE DEF read
<1>3. \A a, v : Passes(read, bus, write_memory(read, a, v))
      BY <1>2, WritePasses
<1>4. Runs(n, bus, copied)
      BY <1>1, <1>3, Passing DEF Passes
<1>5. DOMAIN f = ByteRegister \cup WordRegister
  <2>1. DOMAIN copied.reg = ByteRegister \cup WordRegister
        BY <1>4 DEF Runs, Steady, Whole
  <2> HIDE DEF copied
  <2> QED BY <2>1, MovedShape DEF CopyRegisters
<1>6. \E more : Copy(i, n).m = Again(i, [copied EXCEPT !.reg = f], more)
      BY DEF Copy, Outcome, read
<1> HIDE DEF f, copied, bus
<1>7. Runs(n, bus, Copy(i, n).m)
      BY <1>4, <1>5, <1>6, AgainRuns
<1> QED BY <1>7 DEF bus

LEMMA TransferredRuns ==
    ASSUME NEW n, NEW k, NEW bus, Runs(n, bus, k), NEW i
    PROVE  Runs(n, bus, Transferred(i, k).m)
<1> DEFINE f == Moved(i, Counted(k.reg, "B"), "HL")
<1>1. DOMAIN f = ByteRegister \cup WordRegister
      BY MovedShape DEF Runs, Steady, Whole
<1>2. \E more : Transferred(i, k).m = Again(i, [k EXCEPT !.reg = f], more)
      BY DEF Transferred, Outcome
<1> HIDE DEF f
<1> QED BY <1>1, <1>2, AgainRuns

LEMMA BlockPortRuns ==
    ASSUME NEW n, Whole(n), NEW i, NEW junk
    PROVE  /\ Runs(n, Append(Append(n.bus, "IORead"), "MemWrite"), Input(i, n, junk).m)
           /\ Runs(n, Append(Append(n.bus, "MemRead"), "IOWrite"), Output(i, n).m)
<1>1. Runs(n, Append(Append(n.bus, "IORead"), "MemWrite"), Input(i, n, junk).m)
  <2> DEFINE val  == read_io(n, n.reg["C"], n.reg["B"], junk)
             read == AfterRead(n, n.reg["C"])
             kept == write_memory(read, reg(n, "HL"), val)
  <2>1. Passes(n, Append(n.bus, "IORead"), read)
        BY PortPasses
  <2>2. Whole(read) /\ read.bus = Append(n.bus, "IORead")
        BY <2>1 DEF Passes, Runs, Steady
  <2>3. Input(i, n, junk) = Transferred(i, kept)
        BY DEF Input
  <2> HIDE DEF read, val
  <2>4. \A a, v : Passes(read, Append(read.bus, "MemWrite"), write_memory(read, a, v))
        BY <2>2, WritePasses
  <2>5. Runs(n, Append(Append(n.bus, "IORead"), "MemWrite"), kept)
        BY <2>1, <2>2, <2>4, Passing DEF Passes
  <2> QED BY <2>3, <2>5, TransferredRuns
<1>2. Runs(n, Append(Append(n.bus, "MemRead"), "IOWrite"), Output(i, n).m)
  <2> DEFINE val  == Peek(n.mem, reg(n, "HL"))
             read == Cycle(n, "MemRead")
             sent == write_io(read, n.reg["C"], val)
  <2>1. Passes(n, Append(n.bus, "MemRead"), read)
        BY CyclePasses
  <2>2. Whole(read) /\ read.bus = Append(n.bus, "MemRead")
        BY <2>1 DEF Passes, Runs, Steady
  <2>3. Output(i, n) = Transferred(i, sent)
        BY DEF Output
  <2> HIDE DEF read, val
  <2>4. \A low, v : Passes(read, Append(read.bus, "IOWrite"), write_io(read, low, v))
        BY <2>2, PortPasses
  <2>5. Runs(n, Append(Append(n.bus, "MemRead"), "IOWrite"), sent)
        BY <2>1, <2>2, <2>4, Passing DEF Passes
  <2> QED BY <2>3, <2>5, TransferredRuns
<1> QED BY <1>1, <1>2

LEMMA ExchangeAllPasses == ASSUME NEW n, Whole(n) PROVE Passes(n, n.bus, ExchangeAll(n).m)
<1> DEFINE swap(f, p, q) == set_value(set_value(f, p, get_value(f, q)), q, get_value(f, p))
           File(f) == DOMAIN f = ByteRegister \cup WordRegister /\ f["PC"] = n.reg["PC"]
           all == swap(swap(swap(n.reg, "BC", "BCalt"), "DE", "DEalt"), "HL", "HLalt")
<1>1. ASSUME NEW f, File(f), NEW p, NEW q PROVE File(swap(f, p, q))
  <2>1. \A name, v : File(set_value(f, name, v))
        BY <1>1, SetShape
  <2>2. \A name, v : File(set_value(set_value(f, p, get_value(f, q)), name, v))
        BY <2>1, SetShape
  <2> QED BY <2>2
<1>2. File(n.reg)
      BY DEF Whole
<1>3. ExchangeAll(n).m = [n EXCEPT !.reg = all]
      BY DEF ExchangeAll, Quiet, Outcome
<1> HIDE DEF swap
<1>4. File(all)
  <2> HIDE DEF File
  <2> QED BY <1>1, <1>2
<1> HIDE DEF all
<1> QED BY <1>3, <1>4, FilePasses

\* Instructions that stay inside the register file.
Moves == {"RLD", "RRD", "JP", "JR", "DJNZ", "CALL", "RST", "RET", "RETI", "RETN", "PUSH", "POP",
          "CPI", "CPIR", "CPD", "CPDR", "LDI", "LDIR", "LDD", "LDDR",
          "INI", "INIR", "IND", "INDR", "OUTI", "OTIR", "OUTD", "OTDR",
          "IN", "OUT", "EI", "DI", "IM", "HALT"}

LEMMA InsidePasses ==
    ASSUME NEW n, Whole(n), NEW i, NEW x, NEW y, NEW junk,
           i.name \notin Moves, i.name \in {"RES", "SET"} => ~i.addr_source
    PROVE  Passes(n, n.bus, Case(i, n, x, y, junk).m)
<1> DEFINE Inside(o) == Passes(n, n.bus, o.m)
<1>1. Passes(n, n.bus, n)
      BY Passing
<1>2. \A result, named : Inside(Outcome(n, result, named))
      BY <1>1 DEF Outcome
<1>3. Inside(Quiet(n))
      BY <1>2 DEF Quiet
<1>4. /\ Inside(Add(i, n, x, y)) /\ Inside(Subtract(i, n, x, y)) /\ Inside(Negate(n, x))
      /\ Inside(Increment(n, x)) /\ Inside(Decrement(n, x)) /\ Inside(Compare(n, y))
      /\ Inside(Complement(n, x)) /\ Inside(DecimalAdjust(n, x))
      /\ Inside(ComplementCarry(n)) /\ Inside(SetCarry(n))
      BY <1>2 DEF Add, Subtract, Negate, Increment, Decrement, Compare, Complement,
                  DecimalAdjust, ComplementCarry, SetCarry
<1>5. /\ Inside(And(n, x, y)) /\ Inside(Or(n, x, y)) /\ Inside(Xor(n, x, y))
      /\ Inside(ShiftLeft(i, n, x)) /\ Inside(ShiftRight(i, n, x)) /\ Inside(TestBit(n, x, y))
      /\ Inside(Load(i, n, y))
      BY <1>2 DEF And, Or, Xor, ShiftLeft, ShiftRight, TestBit, Load
<1>6. Inside(Exchange(i, n, x, y)) /\ Inside(ExchangeAll(n))
      BY SetPasses, ExchangeAllPasses DEF Exchange, Outcome
<1>7. i.name \in {"RES", "SET"} => Inside(WriteBit(i, n, x, y))
      BY SetPasses DEF WriteBit, Quiet, Outcome
<1> DEFINE Results ==
       {Add(i, n, x, y), Subtract(i, n, x, y), Negate(n, x), Increment(n, x), Decrement(n, x),
        Compare(n, y), Complement(n, x), DecimalAdjust(n, x), ComplementCarry(n), SetCarry(n),
        And(n, x, y), Or(n, x, y), Xor(n, x, y), ShiftLeft(i, n, x), ShiftRight(i, n, x),
        TestBit(n, x, y), Load(i, n, y), Exchange(i, n, x, y), ExchangeAll(n), Quiet(n)}
<1>8. \/ Case(i, n, x, y, junk) \in Results
      \/ i.name \in {"RES", "SET"} /\ Case(i, n, x, y, junk) = WriteBit(i, n, x, y)
  <2> DEFINE Inner == {"ADD", "ADC", "SUB", "SBC", "NEG", "INC", "DEC", "CP", "AND", "OR", "XOR",
                       "CPL", "DAA", "CCF", "SCF", "BIT", "RES", "SET", "LD", "EX", "EXX"}
                      \cup LeftShift \cup RightShift
  <2>1. CASE i.name \notin Inner
    <3>1. Case(i, n, x, y, junk) = Quiet(n)
          BY <2>1 DEF Case, Moves, LeftShift, RightShift
    <3> QED BY <3>1
  <2>2. CASE i.name \in Inner
        BY <2>2, Switch
  <2> QED BY <2>1, <2>2
<1>9. \A c \in Results : Inside(c)
      BY <1>3, <1>4, <1>5, <1>6
<1> HIDE DEF Results
<1> QED BY <1>7, <1>8, <1>9

-----------------------------------------------------------------------------
(* Kinds.                                                                  *)

\* From n to t an instruction of kind k was executed.
OfKind(n, t, k) ==
    /\ t.bus = Kinds!Cycles[k]
    /\ t.iff1 = Kinds!Iff1After(k, n.iff1, n.iff2)
    /\ t.iff2 = Kinds!Iff2After(k, n.iff2)
    /\ t.mode = Kinds!ModeAfter(k, n.mode)
    /\ t.halt = (n.halt \/ k = "HALT")
    /\ k \in Kinds!Jump \/ t.reg["PC"] = n.reg["PC"]

HasKind(n, t) == \E k \in Kinds!Instruction : OfKind(n, t, k)

LEMMA AppendTo ==
    ASSUME NEW S, NEW s \in Seq(S), NEW c \in S, NEW t \in Seq(S), Len(t) = Len(s) + 1,
           t[Len(s) + 1] = c, \A k \in 1..Len(s) : t[k] = s[k]
    PROVE  Append(s, c) = t
<1> DEFINE u == Append(s, c)
<1>1. /\ u \in Seq(S) /\ Len(u) = Len(s) + 1 /\ u[Len(s) + 1] = c
      /\ \A k \in 1..Len(s) : u[k] = s[k]
      BY AppendProperties
<1> HIDE DEF u
<1>2. \A k \in 1..Len(u) : u[k] = t[k]
      BY <1>1
<1>3. u = t
      BY <1>1, <1>2, SeqEqual
<1> QED BY <1>3 DEF u

LEMMA Appended ==
    ASSUME NEW S, NEW a \in S, NEW b \in S, NEW c \in S, NEW d \in S
    PROVE  /\ Append(<<>>, a) = <<a>>
           /\ Append(<<a>>, b) = <<a, b>>
           /\ Append(<<a, b>>, c) = <<a, b, c>>
           /\ Append(<<a, b, c>>, d) = <<a, b, c, d>>
<1>1. Append(<<>>, a) = <<a>> OBVIOUS
<1>2. Append(<<a>>, b) = <<a, b>>
  <2> DEFINE s == <<a>>
             t == <<a, b>>
  <2>1. /\ s \in Seq(S) /\ t \in Seq(S) /\ Len(t) = Len(s) + 1 /\ t[Len(s) + 1] = b
        /\ \A k \in 1..Len(s) : t[k] = s[k]
        OBVIOUS
  <2> HIDE DEF s, t
  <2>2. Append(s, b) = t
        BY <2>1, AppendTo
  <2> QED BY <2>2 DEF s, t
<1>3. Append(<<a, b>>, c) = <<a, b, c>>
  <2> DEFINE s == <<a, b>>
             t == <<a, b, c>>
  <2>1. /\ s \in Seq(S) /\ t \in Seq(S) /\ Len(t) = Len(s) + 1 /\ t[Len(s) + 1] = c
        /\ \A k \in 1..Len(s) : t[k] = s[k]
        OBVIOUS
  <2> HIDE DEF s, t
  <2>2. Append(s, c) = t
        BY <2>1, AppendTo
  <2> QED BY <2>2 DEF s, t
<1>4. Append(<<a, b, c>>, d) = <<a, b, c, d>>
  <2> DEFINE s == <<a, b, c>>
             t == <<a, b, c, d>>
  <2>1. /\ s \in Seq(S) /\ t \in Seq(S) /\ Len(t) = Len(s) + 1 /\ t[Len(s) + 1] = d
        /\ \A k \in 1..Len(s) : t[k] = s[k]
        OBVIOUS
  <2> HIDE DEF s, t
  <2>2. Append(s, d) = t
        BY <2>1, AppendTo
  <2> QED BY <2>2 DEF s, t
<1> QED BY <1>1, <1>2, <1>3, <1>4

LEMMA CyclesOf ==
    /\ Kinds!Cycles["LOAD"] = Append(<<>>, "MemRead")
    /\ Kinds!Cycles["STORE"] = Append(Append(<<>>, "MemRead"), "MemWrite")
    /\ Kinds!Cycles["JP"] = Append(Append(<<>>, "MemRead"), "MemWrite")
    /\ Kinds!Cycles["PUSH"] = Append(Append(<<>>, "MemWrite"), "MemWrite")
    /\ Kinds!Cycles["CALL"] = Append(Append(<<>>, "MemWrite"), "MemWrite")
    /\ Kinds!Cycles["CALLcc"] = Append(Append(Append(Append(<<>>, "MemRead"), "MemWrite"),
                                              "MemWrite"), "MemWrite")
    /\ \A k \in {"POP", "RET", "RETN"} :
          Kinds!Cycles[k] = Append(Append(<<>>, "MemRead"), "MemRead")
    /\ Kinds!Cycles["IN"] = Append(Append(<<>>, "MemRead"), "IORead")
    /\ Kinds!Cycles["OUT"] = Append(Append(<<>>, "MemRead"), "IOWrite")
    /\ Kinds!Cycles["INI"] = Append(Append(<<>>, "IORead"), "MemWrite")
    /\ \A k \in {"NOP", "JR", "EI", "DI", "HALT", "IM0", "IM1", "IM2"} : Kinds!Cycles[k] = <<>>
<1>1. ASSUME NEW a \in Kinds!BusCycle, NEW b \in Kinds!BusCycle,
             NEW c \in Kinds!BusCycle, NEW d \in Kinds!BusCycle
      PROVE  /\ Append(<<>>, a) = <<a>>
             /\ Append(<<a>>, b) = <<a, b>>
             /\ Append(<<a, b>>, c) = <<a, b, c>>
             /\ Append(<<a, b, c>>, d) = <<a, b, c, d>>
      BY Appended
<1>2. /\ Kinds!Cycles["LOAD"] = <<"MemRead">>
      /\ \A k \in {"STORE", "JP"} : Kinds!Cycles[k] = <<"MemRead", "MemWrite">>
      /\ \A k \in {"PUSH", "CALL"} : Kinds!Cycles[k] = <<"MemWrite", "MemWrite">>
      /\ Kinds!Cycles["CALLcc"] = <<"MemRead", "MemWrite", "MemWrite", "MemWrite">>
      BY DEF Kinds!Cycles, Kinds!Instruction
<1>3. /\ \A k \in {"POP", "RET", "RETN"} : Kinds!Cycles[k] = <<"MemRead", "MemRead">>
      /\ Kinds!Cycles["IN"] = <<"MemRead", "IORead">>
      /\ Kinds!Cycles["OUT"] = <<"MemRead", "IOWrite">>
      /\ Kinds!Cycles["INI"] = <<"IORead", "MemWrite">>
      BY DEF Kinds!Cycles, Kinds!Instruction
<1>4. \A k \in {"NOP", "JR", "EI", "DI", "HALT", "IM0", "IM1", "IM2"} : Kinds!Cycles[k] = <<>>
      BY DEF Kinds!Cycles, Kinds!Instruction
<1>5. {"MemRead", "MemWrite", "IORead", "IOWrite"} = Kinds!BusCycle
      BY DEF Kinds!BusCycle
<1>6. /\ Append(<<>>, "MemRead") = <<"MemRead">> /\ Append(<<>>, "MemWrite") = <<"MemWrite">>
      /\ Append(<<>>, "IORead") = <<"IORead">>
      /\ Append(<<"MemRead">>, "MemWrite") = <<"MemRead", "MemWrite">>
      /\ Append(<<"MemRead">>, "MemRead") = <<"MemRead", "MemRead">>
      /\ Append(<<"MemRead">>, "IORead") = <<"MemRead", "IORead">>
      /\ Append(<<"MemRead">>, "IOWrite") = <<"MemRead", "IOWrite">>
      /\ Append(<<"MemWrite">>, "MemWrite") = <<"MemWrite", "MemWrite">>
      /\ Append(<<"IORead">>, "MemWrite") = <<"IORead", "MemWrite">>
      /\ Append(<<"MemRead", "MemWrite">>, "MemWrite") = <<"MemRead", "MemWrite", "MemWrite">>
      /\ Append(<<"MemRead", "MemWrite", "MemWrite">>, "MemWrite")
           = <<"MemRead", "MemWrite", "MemWrite", "MemWrite">>
      BY ZenonT(30), <1>1, <1>5
<1> QED BY ZenonT(30), <1>2, <1>3, <1>4, <1>6

\* The kinds that leave masks, mode and HALT alone.
Control == {"EI", "DI", "HALT", "IM0", "IM1", "IM2", "RETN"}

LEMMA SteadyKind ==
    ASSUME NEW n, n.halt \in BOOLEAN, NEW t, NEW k \in Kinds!Instruction \ Control,
           Runs(n, Kinds!Cycles[k], t), k \in Kinds!Jump \/ t.reg["PC"] = n.reg["PC"]
    PROVE  HasKind(n, t)
BY DEF HasKind, OfKind, Runs, Steady, Control, Kinds!Iff1After, Kinds!Iff2After, Kinds!ModeAfter

\* The first steps of execute_instruction, and its last.
LEMMA PrologueRuns ==
    ASSUME NEW n, Whole(n), NEW i, i.addr_dest => ~i.addr_source
    PROVE  Passes(n, IF i.addr_dest \/ i.addr_source THEN Append(n.bus, "MemRead") ELSE n.bus,
                  OperandReads(i, n))
BY CyclePasses, Passing DEF OperandReads

LEMMA EpilogueRuns ==
    ASSUME NEW n, Whole(n), NEW i, NEW F, NEW a, NEW result
    PROVE  Passes(n, IF ~is_io(i) /\ i.addr_dest THEN Append(n.bus, "MemWrite") ELSE n.bus,
                  Store(i, Set(n, "F", F), a, result))
<1> DEFINE k == Set(n, "F", F)
<1>1. Passes(n, n.bus, k)
      BY SetPasses
<1>2. Whole(k) /\ k.bus = n.bus
      BY <1>1 DEF Passes, Runs, Steady
<1> HIDE DEF k
<1>3. \A v : Passes(k, Append(n.bus, "MemWrite"), write_memory(k, a, v))
      BY <1>2, WritePasses
<1>4. Passes(k, n.bus, k) /\ Passes(k, n.bus, Set(k, i.dest, result))
      BY <1>2, SetPasses, Passing
<1>5. Passes(k, IF ~is_io(i) /\ i.addr_dest THEN Append(n.bus, "MemWrite") ELSE n.bus,
             Store(i, k, a, result))
      BY <1>3, <1>4 DEF Store
<1> QED BY <1>1, <1>5, Passing DEF k

LEMMA CaseKinds ==
    ASSUME NEW n, Whole(n), NEW i, NEW x, NEW y, NEW junk
    PROVE  LET o == Case(i, n, x, y, junk).m
           IN  /\ i.name \in {"RLD", "RRD", "CPI", "CPIR", "CPD", "CPDR"} =>
                     Runs(n, Append(n.bus, "MemRead"), o)
               /\ i.name \in {"LDI", "LDIR", "LDD", "LDDR"} =>
                     Runs(n, Append(Append(n.bus, "MemRead"), "MemWrite"), o)
               /\ i.name \in {"INI", "INIR", "IND", "INDR"} =>
                     Runs(n, Append(Append(n.bus, "IORead"), "MemWrite"), o)
               /\ i.name \in {"OUTI", "OTIR", "OUTD", "OTDR"} =>
                     Runs(n, Append(Append(n.bus, "MemRead"), "IOWrite"), o)
<1>1. CASE i.name \in {"RLD", "RRD"}
  <2>1. Case(i, n, x, y, junk) = RotateDigit(i, n)
        BY <1>1 DEF Case
  <2>2. RotateDigit(i, n).m = Cycle(n, "MemRead")
        BY DEF RotateDigit, Outcome
  <2> QED BY <1>1, <2>1, <2>2, CyclePasses DEF Passes
<1>2. CASE i.name \in {"CPI", "CPIR", "CPD", "CPDR"}
  <2>1. Case(i, n, x, y, junk) = Search(i, n)
        BY <1>2 DEF Case
  <2> QED BY <1>2, <2>1, SearchRuns
<1>3. CASE i.name \in {"LDI", "LDIR", "LDD", "LDDR"}
  <2>1. Case(i, n, x, y, junk) = Copy(i, n)
        BY <1>3 DEF Case
  <2> QED BY <1>3, <2>1, CopyRuns
<1>4. CASE i.name \in {"INI", "INIR", "IND", "INDR"}
  <2>1. Case(i, n, x, y, junk) = Input(i, n, junk)
        BY <1>4 DEF Case
  <2> QED BY <1>4, <2>1, BlockPortRuns
<1>5. CASE i.name \in {"OUTI", "OTIR", "OUTD", "OTDR"}
  <2>1. Case(i, n, x, y, junk) = Output(i, n)
        BY <1>5 DEF Case
  <2> QED BY <1>5, <2>1, BlockPortRuns
<1> QED BY <1>1, <1>2, <1>3, <1>4, <1>5

LEMMA JumpKinds ==
    ASSUME NEW n, Whole(n), NEW i, NEW x, NEW y, NEW junk,
           NEW o, o = Case(i, n, x, y, junk).m
    PROVE  /\ i.name \in {"JP", "JR", "DJNZ"} => Runs(n, n.bus, o)
           /\ i.name = "CALL" => \/ Runs(n, n.bus, o) /\ ~Take(i, n)
                                 \/ Runs(n, Append(Append(n.bus, "MemWrite"), "MemWrite"), o)
           /\ i.name = "RST" => Runs(n, Append(Append(n.bus, "MemWrite"), "MemWrite"), o)
           /\ i.name = "RET" => \/ Passes(n, n.bus, o)
                                \/ Runs(n, Append(Append(n.bus, "MemRead"), "MemRead"), o)
           /\ i.name = "RETI" => Runs(n, Append(Append(n.bus, "MemRead"), "MemRead"), o)
           /\ i.name = "PUSH" => Passes(n, Append(Append(n.bus, "MemWrite"), "MemWrite"), o)
           /\ i.name = "POP" => Passes(n, Append(Append(n.bus, "MemRead"), "MemRead"), o)
<1>0. Passes(n, n.bus, n) /\ \A a : Runs(n, n.bus, Goto(n, a))
      BY GotoRuns, Passing
<1>1. \A w, a : /\ Passes(n, Append(Append(n.bus, "MemWrite"), "MemWrite"), Push(n, w))
                /\ Runs(n, Append(Append(n.bus, "MemWrite"), "MemWrite"), Goto(Push(n, w), a))
  <2> TAKE w, a
  <2>1. Passes(n, Append(Append(n.bus, "MemWrite"), "MemWrite"), Push(n, w))
        BY PushPasses
  <2>2. Whole(Push(n, w)) /\ Push(n, w).bus = Append(Append(n.bus, "MemWrite"), "MemWrite")
        BY <2>1 DEF Passes, Runs, Steady
  <2>3. Runs(Push(n, w), Append(Append(n.bus, "MemWrite"), "MemWrite"), Goto(Push(n, w), a))
        BY <2>2, GotoRuns
  <2> QED BY <2>1, <2>3, Passing DEF Passes
<1>2. CASE i.name = "JP"
  <2>1. o = JumpTo(i, n).m
        BY <1>2 DEF Case
  <2> QED BY <1>0, <1>2, <2>1, QuietMachine DEF JumpTo, Passes
<1>3. CASE i.name = "JR"
  <2>1. o = Relative(i, n)
        BY <1>3, QuietMachine DEF Case
  <2> QED BY <1>0, <1>3, <2>1 DEF Relative
<1>4. CASE i.name = "DJNZ"
  <2>1. o = DecrementJump(i, n).m
        BY <1>4 DEF Case
  <2> DEFINE c == Set(n, "B", (n.reg["B"] - 1) % 256)
  <2>2. Passes(n, n.bus, c)
        BY SetPasses
  <2>3. o = c \/ o = Relative(i, c)
        BY <2>1, QuietMachine DEF DecrementJump
  <2> HIDE DEF c
  <2>4. Whole(c) /\ c.bus = n.bus
        BY <2>2 DEF Passes, Runs, Steady
  <2>5. Runs(c, n.bus, Relative(i, c))
        BY <2>4, GotoRuns DEF Relative
  <2>6. Runs(n, n.bus, o)
        BY <2>2, <2>3, <2>5, Passing DEF Passes
  <2> QED BY <1>4, <2>6
<1>5. CASE i.name = "CALL"
  <2>1. o = Call(i, n).m
        BY <1>5 DEF Case
  <2>2. \/ o = n /\ ~Take(i, n)
        \/ o = Goto(Push(n, n.reg["PC"]), Value(i, i.dest, n))
        BY <2>1, QuietMachine DEF Call
  <2> QED BY <1>0, <1>1, <1>5, <2>2 DEF Passes
<1>6. CASE i.name = "RST"
  <2>1. o = Restart(i, n).m
        BY <1>6 DEF Case
  <2> QED BY <1>1, <1>6, <2>1, QuietMachine DEF Restart
<1>7. CASE i.name = "RET"
  <2>1. o = ReturnIf(i, n).m
        BY <1>7 DEF Case
  <2> QED BY <1>0, <1>7, <2>1, QuietMachine, ReturnRuns DEF ReturnIf
<1>8. CASE i.name = "RETI"
  <2>1. o = Return(n)
        BY <1>8, QuietMachine DEF Case
  <2> QED BY <1>8, <2>1, ReturnRuns
<1>9. CASE i.name = "PUSH"
  <2>1. o = Push(n, y % 65536)
        BY <1>9, QuietMachine DEF Case
  <2> QED BY <1>1, <1>9, <2>1
<1>10. CASE i.name = "POP"
  <2>1. o = Drop(n)
        BY <1>10 DEF Case, Pop, Outcome
  <2> QED BY <1>10, <2>1, DropPasses
<1> QED BY <1>2, <1>3, <1>4, <1>5, <1>6, <1>7, <1>8, <1>9, <1>10

\* The cycles around the case of an instruction.
OperandCycles(i)     == IF i.addr_dest \/ i.addr_source THEN Append(<<>>, "MemRead") ELSE <<>>
ResultCycles(i, bus) == IF ~is_io(i) /\ i.addr_dest THEN Append(bus, "MemWrite") ELSE bus

\* A whole instruction: the reads of its operands, its case, the write of its
\* result.
LEMMA InstructionRuns ==
    ASSUME NEW n, Whole(n), n.bus = <<>>, NEW i, AddressShape(i),
           NEW t \in execute_instruction(i, n)
    PROVE  \E p, x, y, junk, o :
              /\ Passes(n, OperandCycles(i), p)
              /\ o = Case(i, p, x, y, junk).m
              /\ Whole(o) => Passes(o, ResultCycles(i, o.bus), t)
<1> DEFINE x == Operand(i, i.dest, i.addr_dest, n)
           y == Operand(i, i.source, i.addr_source, n)
<1>1. PICK out \in Outcomes(i, n, x, y) :
        t = Store(i, Set(out.m, "F", FlagByte(FlagsAfter(i, x, y, out))),
                  Value(i, i.dest, n), out.result)
      BY DEF execute_instruction
<1>2. PICK junk \in Undefined : out = Case(i, OperandReads(i, n), x, y, junk)
      BY DEF Outcomes
<1>3. Passes(n, OperandCycles(i), OperandReads(i, n))
      BY PrologueRuns DEF AddressShape, OperandCycles
<1>4. Whole(out.m) =>
        Passes(out.m, ResultCycles(i, out.m.bus), t)
      BY <1>1, EpilogueRuns DEF ResultCycles
<1> HIDE DEF x, y
<1> QED BY <1>2, <1>3, <1>4

LEMMA KindOf ==
    ASSUME NEW n, Whole(n), n.bus = <<>>, n.halt \in BOOLEAN, NEW i, AddressShape(i),
           NEW t \in execute_instruction(i, n)
    PROVE  HasKind(n, t)
<1>1. PICK p, x, y, junk, o :
        /\ Passes(n, OperandCycles(i), p)
        /\ o = Case(i, p, x, y, junk).m
        /\ Whole(o) => Passes(o, ResultCycles(i, o.bus), t)
      BY InstructionRuns
<1>2. /\ Whole(p) /\ Runs(n, p.bus, p) /\ p.reg["PC"] = n.reg["PC"]
      /\ p.bus = IF i.addr_dest \/ i.addr_source THEN Append(<<>>, "MemRead") ELSE <<>>
      BY <1>1 DEF Passes, Runs, Steady, OperandCycles
\* Most cases leave the masks, the mode and HALT alone.
<1>3. ASSUME NEW b, Runs(p, b, o), NEW k \in Kinds!Instruction \ Control,
             Kinds!Cycles[k] = IF ~is_io(i) /\ i.addr_dest THEN Append(b, "MemWrite") ELSE b,
             k \in Kinds!Jump \/ o.reg["PC"] = p.reg["PC"]
      PROVE  HasKind(n, t)
  <2>1. Whole(o) /\ o.bus = b
        BY <1>3 DEF Runs, Steady
  <2>2. Passes(o, Kinds!Cycles[k], t)
        BY <1>1, <1>3, <2>1 DEF ResultCycles
  <2>3. Runs(n, b, o)
        BY <1>2, <1>3, Passing
  <2>4. Runs(n, Kinds!Cycles[k], t)
        BY <2>2, <2>3, Passing DEF Passes
  <2>5. k \in Kinds!Jump \/ t.reg["PC"] = n.reg["PC"]
        BY <1>2, <1>3, <2>2 DEF Passes
  <2> QED BY <1>3, <2>4, <2>5, SteadyKind
<1>4. Kinds!Instruction \ Control = {"NOP", "LOAD", "STORE", "PUSH", "POP", "JR", "JP", "CALL",
                                     "CALLcc", "RET", "IN", "OUT", "INI"}
      /\ {"LOAD", "STORE", "JR", "JP", "CALL", "CALLcc", "RET", "OUT", "INI"} \subseteq Kinds!Jump
      BY DEF Kinds!Instruction, Control, Kinds!Jump
<1>5. CASE i.name \notin Moves
  <2>1. /\ i.name \in {"RES", "SET"} => ~i.addr_source
        /\ ~is_io(i)
        BY <1>5 DEF AddressShape, Moves, is_io
  <2>2. Passes(p, p.bus, o)
        BY <1>1, <1>2, <1>5, <2>1, InsidePasses
  <2>3. Runs(p, p.bus, o) /\ o.reg["PC"] = p.reg["PC"]
        BY <2>2 DEF Passes
  <2>4. CASE i.addr_dest
        BY <1>2, <1>3, <1>4, <2>1, <2>3, <2>4, CyclesOf
  <2>5. CASE i.addr_source /\ ~i.addr_dest
        BY <1>2, <1>3, <1>4, <2>1, <2>3, <2>5, CyclesOf
  <2>6. CASE ~i.addr_source /\ ~i.addr_dest
        BY <1>2, <1>3, <1>4, <2>1, <2>3, <2>6, CyclesOf
  <2> QED BY <2>4, <2>5, <2>6
<1>6. CASE i.name \in {"RLD", "RRD", "CPI", "CPIR", "CPD", "CPDR", "LDI", "LDIR", "LDD", "LDDR",
                       "INI", "INIR", "IND", "INDR", "OUTI", "OTIR", "OUTD", "OTDR"}
  <2>1. ~i.addr_dest /\ ~i.addr_source /\ p.bus = <<>>
        BY <1>2, <1>6 DEF AddressShape
  <2>2. /\ i.name \in {"RLD", "RRD", "CPI", "CPIR", "CPD", "CPDR"} =>
              Runs(p, Append(<<>>, "MemRead"), o)
        /\ i.name \in {"LDI", "LDIR", "LDD", "LDDR"} =>
              Runs(p, Append(Append(<<>>, "MemRead"), "MemWrite"), o)
        /\ i.name \in {"INI", "INIR", "IND", "INDR"} =>
              Runs(p, Append(Append(<<>>, "IORead"), "MemWrite"), o)
        /\ i.name \in {"OUTI", "OTIR", "OUTD", "OTDR"} =>
              Runs(p, Append(Append(<<>>, "MemRead"), "IOWrite"), o)
        BY <1>1, <1>2, <2>1, CaseKinds
  <2>3. CASE Runs(p, Append(<<>>, "MemRead"), o)
        BY <1>3, <1>4, <2>1, <2>3, CyclesOf
  <2>4. CASE Runs(p, Append(Append(<<>>, "MemRead"), "MemWrite"), o)
        BY <1>3, <1>4, <2>1, <2>4, CyclesOf
  <2>5. CASE Runs(p, Append(Append(<<>>, "IORead"), "MemWrite"), o)
        BY <1>3, <1>4, <2>1, <2>5, CyclesOf
  <2>6. CASE Runs(p, Append(Append(<<>>, "MemRead"), "IOWrite"), o)
        BY <1>3, <1>4, <2>1, <2>6, CyclesOf
  <2> QED BY <1>6, <2>2, <2>3, <2>4, <2>5, <2>6
<1>7. CASE i.name \in {"JP", "JR", "DJNZ", "CALL", "RST", "RET", "RETI", "PUSH", "POP"}
  <2>1. ~is_io(i)
        BY <1>7 DEF is_io
  <2>2. /\ i.name \in {"JP", "JR", "DJNZ"} => Runs(p, p.bus, o)
        /\ i.name = "CALL" => \/ Runs(p, p.bus, o) /\ ~Take(i, p)
                              \/ Runs(p, Append(Append(p.bus, "MemWrite"), "MemWrite"), o)
        /\ i.name = "RST" => Runs(p, Append(Append(p.bus, "MemWrite"), "MemWrite"), o)
        /\ i.name = "RET" => \/ Passes(p, p.bus, o)
                             \/ Runs(p, Append(Append(p.bus, "MemRead"), "MemRead"), o)
        /\ i.name = "RETI" => Runs(p, Append(Append(p.bus, "MemRead"), "MemRead"), o)
        /\ i.name = "PUSH" => Passes(p, Append(Append(p.bus, "MemWrite"), "MemWrite"), o)
        /\ i.name = "POP" => Passes(p, Append(Append(p.bus, "MemRead"), "MemRead"), o)
        BY <1>1, <1>2, JumpKinds
  <2>3. CASE i.name = "JP"
    <3>1. i.addr_dest /\ p.bus = Append(<<>>, "MemRead")
          BY <1>2, <2>3 DEF AddressShape
    <3> QED BY <1>3, <1>4, <2>1, <2>2, <2>3, <3>1, CyclesOf
  <2>4. CASE i.name = "CALL"
    <3>1. CASE i.addr_dest
      <4>1. p.bus = Append(<<>>, "MemRead")
            BY <1>2, <3>1
      <4>2. CASE Runs(p, p.bus, o)
            BY <1>3, <1>4, <2>1, <3>1, <4>1, <4>2, CyclesOf
      <4>3. CASE Runs(p, Append(Append(p.bus, "MemWrite"), "MemWrite"), o)
            BY <1>3, <1>4, <2>1, <3>1, <4>1, <4>3, CyclesOf
      <4> QED BY <2>2, <2>4, <4>2, <4>3
    <3>2. CASE ~i.addr_dest
      <4>1. ~i.addr_source /\ i.condition = "None" /\ p.bus = <<>>
            BY <1>2, <2>4, <3>2 DEF AddressShape
      <4>2. Take(i, p)
            BY ZenonT(60), <4>1 DEF Take
      <4>3. Runs(p, Append(Append(p.bus, "MemWrite"), "MemWrite"), o)
            BY <2>2, <2>4, <4>2
      <4> QED BY <1>3, <1>4, <3>2, <4>1, <4>3, CyclesOf
    <3> QED BY <3>1, <3>2
  <2>5. CASE i.name \notin {"JP", "CALL"}
    <3>1. ~i.addr_dest /\ ~i.addr_source /\ p.bus = <<>>
          BY <1>2, <1>7, <2>5 DEF AddressShape
    <3>2. CASE i.name \in {"JR", "DJNZ"}
      <4>1. Runs(p, p.bus, o)
            BY <2>2, <3>2
      <4> QED BY <1>3, <1>4, <3>1, <4>1, CyclesOf
    <3>3. CASE i.name = "RST"
      <4>1. Runs(p, Append(Append(p.bus, "MemWrite"), "MemWrite"), o)
            BY <2>2, <3>3
      <4> QED BY <1>3, <1>4, <3>1, <4>1, CyclesOf
    <3>4. CASE i.name \in {"RET", "RETI"}
      <4>1. CASE Passes(p, p.bus, o)
            BY <1>3, <1>4, <3>1, <4>1, CyclesOf DEF Passes
      <4>2. CASE Runs(p, Append(Append(p.bus, "MemRead"), "MemRead"), o)
            BY <1>3, <1>4, <3>1, <4>2, CyclesOf
      <4> QED BY <2>2, <3>4, <4>1, <4>2
    <3>5. CASE i.name = "PUSH"
      <4>1. /\ Runs(p, Append(Append(p.bus, "MemWrite"), "MemWrite"), o)
            /\ o.reg["PC"] = p.reg["PC"]
            BY <2>2, <3>5 DEF Passes
      <4> QED BY <1>3, <1>4, <3>1, <4>1, CyclesOf
    <3>6. CASE i.name = "POP"
      <4>1. /\ Runs(p, Append(Append(p.bus, "MemRead"), "MemRead"), o)
            /\ o.reg["PC"] = p.reg["PC"]
            BY <2>2, <3>6 DEF Passes
      <4> QED BY <1>3, <1>4, <3>1, <4>1, CyclesOf
    <3> QED BY <1>7, <2>5, <3>2, <3>3, <3>4, <3>5, <3>6
  <2> QED BY <1>7, <2>3, <2>4, <2>5
<1>8. CASE i.name = "IN"
  <2>1. i.addr_source /\ ~i.addr_dest /\ p.bus = Append(<<>>, "MemRead")
        BY <1>2, <1>8 DEF AddressShape
  <2>2. \E low : o = AfterRead(p, low)
        BY <1>1, <1>8 DEF Case, In, Outcome
  <2>3. Passes(p, Append(Append(<<>>, "MemRead"), "IORead"), o)
        BY <1>2, <2>1, <2>2, PortPasses
  <2> QED BY <1>3, <1>4, <2>1, <2>3, CyclesOf DEF Passes
<1>9. CASE i.name = "OUT"
  <2>1. is_io(i) /\ p.bus = Append(<<>>, "MemRead")
        BY <1>2, <1>9 DEF AddressShape, is_io
  <2>2. \E low, v : o = write_io(p, low, v)
        BY <1>1, <1>9, QuietMachine DEF Case, Out
  <2>3. Passes(p, Append(Append(<<>>, "MemRead"), "IOWrite"), o)
        BY <1>2, <2>1, <2>2, PortPasses
  <2> QED BY <1>3, <1>4, <2>1, <2>3, CyclesOf DEF Passes
<1>10. CASE i.name \in {"EI", "DI", "IM", "HALT", "RETN"}
  <2>1. ~is_io(i) /\ ~i.addr_dest /\ ~i.addr_source /\ p.bus = <<>>
        BY <1>2, <1>10 DEF AddressShape, is_io
  <2>2. Whole(o) => Passes(o, o.bus, t)
        BY <1>1, <2>1 DEF ResultCycles
  <2>3. p.iff1 = n.iff1 /\ p.iff2 = n.iff2 /\ p.mode = n.mode /\ p.halt = n.halt
        BY <1>2 DEF Runs, Steady
  <2>4. ASSUME NEW k \in Control, Whole(o), o.bus = Kinds!Cycles[k],
               o.iff1 = Kinds!Iff1After(k, n.iff1, n.iff2), o.iff2 = Kinds!Iff2After(k, n.iff2),
               o.mode = Kinds!ModeAfter(k, n.mode), o.halt = (n.halt \/ k = "HALT"),
               k = "RETN" \/ o.reg["PC"] = p.reg["PC"]
        PROVE  HasKind(n, t)
    <3>1. k \in Kinds!Instruction /\ (k = "RETN" => k \in Kinds!Jump)
          BY DEF Control, Kinds!Instruction, Kinds!Jump
    <3>2. OfKind(n, t, k)
          BY <1>2, <2>2, <2>4, <3>1 DEF OfKind, Passes, Runs, Steady
    <3> QED BY <3>1, <3>2 DEF HasKind
  <2>5. CASE i.name \in {"EI", "DI"}
    <3>1. o = [p EXCEPT !.iff1 = (i.name = "EI"), !.iff2 = (i.name = "EI")]
          BY <1>1, <2>5, QuietMachine DEF Case, Enable
    <3>2. /\ Whole(o) /\ o.bus = <<>> /\ o.mode = n.mode /\ o.halt = n.halt
          /\ o.iff1 = (i.name = "EI") /\ o.iff2 = (i.name = "EI") /\ o.reg = p.reg
          BY <1>2, <2>1, <2>3, <3>1 DEF Whole
    <3>3. i.name \in Control /\ i.name # "HALT" /\ Kinds!Cycles[i.name] = <<>>
          BY <2>5, CyclesOf DEF Control
    <3>4. /\ Kinds!Iff1After(i.name, n.iff1, n.iff2) = (i.name = "EI")
          /\ Kinds!Iff2After(i.name, n.iff2) = (i.name = "EI")
          /\ Kinds!ModeAfter(i.name, n.mode) = n.mode
          BY <2>5 DEF Kinds!Iff1After, Kinds!Iff2After, Kinds!ModeAfter
    <3>5. o.halt = (n.halt \/ i.name = "HALT")
          BY <3>2, <3>3
    <3> QED BY <2>4, <3>2, <3>3, <3>4, <3>5
  <2>6. CASE i.name = "IM"
    <3> DEFINE mode == CASE imm(i) = 0 -> 0 [] imm(i) = 2 -> 1 [] imm(i) = 3 -> 2
                         [] OTHER -> p.mode
    <3>1. o = [p EXCEPT !.mode = mode]
          BY <1>1, <2>6, QuietMachine DEF Case, InterruptMode
    <3>2. mode \in {0, 1, 2} \/ mode = p.mode
          OBVIOUS
    <3> HIDE DEF mode
    <3>3. /\ Whole(o) /\ o.bus = <<>> /\ o.mode = mode /\ o.halt = n.halt
          /\ o.iff1 = n.iff1 /\ o.iff2 = n.iff2 /\ o.reg = p.reg
          BY <1>2, <2>1, <2>3, <3>1 DEF Whole
    <3>4. CASE mode = p.mode
      <4>1. Runs(p, <<>>, o)
            BY <2>3, <3>3, <3>4 DEF Runs, Steady
      <4> QED BY <1>3, <1>4, <2>1, <3>3, <4>1, CyclesOf
    <3>5. \A k \in {"IM0", "IM1", "IM2"} :
             /\ k \in Control /\ Kinds!Cycles[k] = <<>>
             /\ Kinds!Iff1After(k, n.iff1, n.iff2) = n.iff1
             /\ Kinds!Iff2After(k, n.iff2) = n.iff2
             /\ n.halt = (n.halt \/ k = "HALT")
          BY CyclesOf DEF Control, Kinds!Iff1After, Kinds!Iff2After
    <3>6. /\ Kinds!ModeAfter("IM0", n.mode) = 0 /\ Kinds!ModeAfter("IM1", n.mode) = 1
          /\ Kinds!ModeAfter("IM2", n.mode) = 2
          BY DEF Kinds!ModeAfter
    <3>7. CASE mode = 0
          BY <2>4, <3>3, <3>5, <3>6, <3>7
    <3>8. CASE mode = 1
          BY <2>4, <3>3, <3>5, <3>6, <3>8
    <3>9. CASE mode = 2
          BY <2>4, <3>3, <3>5, <3>6, <3>9
    <3> QED BY <3>2, <3>4, <3>7, <3>8, <3>9
  <2>7. CASE i.name = "HALT"
    <3>1. o = [p EXCEPT !.halt = TRUE]
          BY <1>1, <2>7, QuietMachine DEF Case
    <3>2. /\ Whole(o) /\ o.bus = <<>> /\ o.mode = n.mode /\ o.halt = TRUE
          /\ o.iff1 = n.iff1 /\ o.iff2 = n.iff2 /\ o.reg = p.reg
          BY <1>2, <2>1, <2>3, <3>1 DEF Whole
    <3>3. /\ "HALT" \in Control /\ Kinds!Cycles["HALT"] = <<>>
          /\ Kinds!Iff1After("HALT", n.iff1, n.iff2) = n.iff1
          /\ Kinds!Iff2After("HALT", n.iff2) = n.iff2
          /\ Kinds!ModeAfter("HALT", n.mode) = n.mode
          BY CyclesOf DEF Control, Kinds!Iff1After, Kinds!Iff2After, Kinds!ModeAfter
    <3>4. o.halt = (n.halt \/ "HALT" = "HALT")
          BY <3>2
    <3> QED BY <2>4, <3>2, <3>3, <3>4
  <2>8. CASE i.name = "RETN"
    <3>1. o = [Return(p) EXCEPT !.iff1 = p.iff2]
          BY <1>1, <2>8, QuietMachine DEF Case, ReturnFromNmi
    <3>2. Runs(p, Append(Append(<<>>, "MemRead"), "MemRead"), Return(p))
          BY <1>2, <2>1, ReturnRuns
    <3>3. /\ Whole(o) /\ o.bus = Append(Append(<<>>, "MemRead"), "MemRead")
          /\ o.iff1 = n.iff2 /\ o.iff2 = n.iff2 /\ o.mode = n.mode /\ o.halt = n.halt
          BY <2>3, <3>1, <3>2 DEF Runs, Steady, Whole
    <3>4. /\ "RETN" \in Control /\ Kinds!Cycles["RETN"] = Append(Append(<<>>, "MemRead"), "MemRead")
          /\ Kinds!Iff1After("RETN", n.iff1, n.iff2) = n.iff2
          /\ Kinds!Iff2After("RETN", n.iff2) = n.iff2
          /\ Kinds!ModeAfter("RETN", n.mode) = n.mode
          BY CyclesOf DEF Control, Kinds!Iff1After, Kinds!Iff2After, Kinds!ModeAfter
    <3>5. o.halt = (n.halt \/ "RETN" = "HALT")
          BY <3>3
    <3> QED BY <2>4, <3>3, <3>4, <3>5
  <2> QED BY <1>10, <2>5, <2>6, <2>7, <2>8
<1> QED BY <1>5, <1>6, <1>7, <1>8, <1>9, <1>10 DEF Moves

\* Whatever is fetched and whatever the registers hold, an instruction has the
\* machine cycles, the effect on masks, mode and HALT, and the freedom to jump
\* of one of the kinds module Soft80 knows (execute_instruction): what is
\* proved of the clocked CPU holds for the instructions of this one.
THEOREM KindMatchesSafe == Spec => KindMatches
<1>1. ASSUME IInv, [Next]_vars
      PROVE  [Executed =>
         \E k \in Kinds!Instruction :
            /\ m'.bus = Kinds!Cycles[k]
            /\ m'.iff1 = Kinds!Iff1After(k, m.iff1, m.iff2)
            /\ m'.iff2 = Kinds!Iff2After(k, m.iff2)
            /\ m'.mode = Kinds!ModeAfter(k, m.mode)
            /\ m'.halt = (m.halt \/ k = "HALT")
            /\ k \in Kinds!Jump \/ m'.reg["PC"] = Advanced.reg["PC"]]_vars
  <2> SUFFICES ASSUME Executed
               PROVE  \E k \in Kinds!Instruction :
                         /\ m'.bus = Kinds!Cycles[k]
                         /\ m'.iff1 = Kinds!Iff1After(k, m.iff1, m.iff2)
                         /\ m'.iff2 = Kinds!Iff2After(k, m.iff2)
                         /\ m'.mode = Kinds!ModeAfter(k, m.mode)
                         /\ m'.halt = (m.halt \/ k = "HALT")
                         /\ k \in Kinds!Jump \/ m'.reg["PC"] = Advanced.reg["PC"]
      OBVIOUS
  <2>1. ExecutorLoop
        BY <1>1 DEF Executed, Next, Cpu, CheckNmi, CheckInt, ExecutorExit, DeviceStep, Exited, vars
  <2>2. Good(boot, m) /\ Good(boot, Advanced) /\ Fetched \in UInt8
        BY <1>1, AdvancedGood
  <2>3. Whole(m) /\ Whole(Advanced)
        BY <2>2, WholeMachine DEF Good
  <2>4. PICK i : AddressShape(i) /\ Execute(i)
    <3>1. CASE HaltLoop
      <4>1. AddressShape(Stream!NoInstruction)
            BY DEF AddressShape, Linked, Shift, LeftShift, RightShift, Stream!NoInstruction
      <4> QED BY <3>1, <4>1 DEF HaltLoop
    <3>2. CASE Fetch
      <4>1. decoded' # Stream!nullopt /\ Execute(decoded')
            BY <3>2 DEF Fetch, Executed
      <4>2. Stream!Read(Append(pending, Fetched))
            BY <3>2 DEF Fetch
      <4>3. AddressShape(decoded')
            BY <1>1, <2>2, <4>1, <4>2, ReadShaped DEF IInv
      <4> QED BY <4>1, <4>3
    <3> QED BY <2>1, <3>1, <3>2 DEF ExecutorLoop
  <2>5. m' \in execute_instruction(i, Advanced)
        BY <2>4 DEF Execute
  <2>6. /\ Advanced.bus = <<>> /\ Advanced.iff1 = m.iff1 /\ Advanced.iff2 = m.iff2
        /\ Advanced.mode = m.mode /\ Advanced.halt = m.halt
        BY <2>3 DEF Advanced, Goto, Whole
  <2>7. m.halt \in BOOLEAN
        BY <2>2 DEF Good, MachineType
  <2>8. HasKind(Advanced, m')
        BY <2>3, <2>4, <2>5, <2>6, <2>7, KindOf
  <2> QED BY <2>6, <2>8 DEF HasKind, OfKind
<1> QED BY <1>1, Invariant, PTL DEF Spec, KindMatches
-----------------------------------------------------------------------------
(* The stack: what is pushed comes back.                                   *)

\* Where an address goes that is pushed, and that a program has RAM there.
StackCells(n) == {(n.reg["SP"] - 1) % 65536, (n.reg["SP"] - 2) % 65536}
StackInRam(n) == \A a \in StackCells(n) : a >= RomSize

LEMMA SetPointer ==
    ASSUME NEW f \in RegisterFile, NEW v \in Int
    PROVE  set_value(f, "SP", v) = [f EXCEPT !["SP"] = v % 65536]
<1>1. "SP" \notin Pair /\ "SP" \notin ByteRegister
      BY Apart
<1> QED BY <1>1 DEF set_value

\* Flags, and a result that goes to no register.
LEMMA SetsNoPointer ==
    ASSUME NEW b, NEW n, Good(b, n), NEW name \in {"F", "Immediate", "None"}, NEW v
    PROVE  /\ Set(n, name, v).mem = n.mem
           /\ Set(n, name, v).reg["SP"] = n.reg["SP"]
           /\ Set(n, name, v).reg["PC"] = n.reg["PC"]
<1> DEFINE f == set_value(n.reg, name, v)
<1>1. n.reg \in RegisterFile /\ Set(n, name, v).mem = n.mem /\ Set(n, name, v).reg = f
      BY DEF Good, MachineType, Set
<1>2. name \notin Pair /\ name # "SP"
      BY DEF Pair
<1>3. "SP" # name /\ "PC" # name
      OBVIOUS
<1>4. f = n.reg \/ f = [n.reg EXCEPT ![name] = v % 256]
      BY <1>2 DEF set_value
<1>5. "SP" \in DOMAIN n.reg /\ "PC" \in DOMAIN n.reg
      BY <1>1, FileType DEF WordRegister
<1> HIDE DEF f
<1> QED BY <1>1, <1>3, <1>4, <1>5

\* A write, as reads see it: a ROM keeps what it has.
LEMMA PeekWritten ==
    ASSUME NEW b, NEW n, Good(b, n), NEW a, NEW v
    PROVE  /\ \A c : c # a => Peek(write_memory(n, a, v).mem, c) = Peek(n.mem, c)
           /\ ~(a < RomSize) => Peek(write_memory(n, a, v).mem, a) = v
<1>1. write_memory(n, a, v).mem = Stored(n.mem, a, v)
      BY DEF Good, MachineType, write_memory, Cycle
<1> QED BY <1>1 DEF Stored, Peek

\* The cells of the stack in both directions, around the end of memory too.
LEMMA Cells ==
    ASSUME NEW sp \in UInt16
    PROVE  LET low  == (sp - 2) % 65536
               high == (sp - 1) % 65536
           IN  /\ low \in UInt16 /\ high \in UInt16 /\ low # high
               /\ (low + 1) % 65536 = high /\ (low + 2) % 65536 = sp
<1>1. sp \in Int /\ 0 <= sp /\ sp < 65536
      BY Words
<1>2. /\ (sp - 2) % 65536 = IF sp < 2 THEN sp + 65534 ELSE sp - 2
      /\ (sp - 1) % 65536 = IF sp < 1 THEN sp + 65535 ELSE sp - 1
      BY <1>1
<1> QED BY <1>1, <1>2, Words

LEMMA PushShape ==
    ASSUME NEW b, NEW n, Good(b, n), StackInRam(n), NEW w \in UInt16
    PROVE  /\ Push(n, w).reg = [n.reg EXCEPT !["SP"] = (n.reg["SP"] - 2) % 65536]
           /\ Peek(Push(n, w).mem, (n.reg["SP"] - 2) % 65536) = w % 256
           /\ Peek(Push(n, w).mem, (n.reg["SP"] - 1) % 65536) = w \div 256
           /\ \A a : a \notin StackCells(n) => Peek(Push(n, w).mem, a) = Peek(n.mem, a)
<1> DEFINE sp   == n.reg["SP"]
           low  == (sp - 2) % 65536
           high == (sp - 1) % 65536
           n1   == write_memory(n, high, w \div 256)
           n2   == write_memory(n1, low, w % 256)
<1>1. sp \in UInt16 /\ w \div 256 \in UInt8 /\ w % 256 \in UInt8
      BY RegType, Words, Bytes
<1>2. low \in UInt16 /\ high \in UInt16 /\ low # high /\ sp - 2 \in Int
      BY <1>1, Cells, Words
<1>3. StackCells(n) = {low, high} /\ ~(low < RomSize) /\ ~(high < RomSize)
  <2>1. StackCells(n) = {low, high} /\ low >= RomSize /\ high >= RomSize
        BY DEF StackCells, StackInRam
  <2>2. RomSize \in Int
        BY RomType
  <2>3. low \in Int /\ high \in Int
        BY <1>2, Words
  <2> QED BY <2>1, <2>2, <2>3
<1>4. Push(n, w) = Set(n2, "SP", sp - 2)
      BY DEF Push
<1> HIDE DEF low, high, sp
<1>5. Good(b, n1) /\ n1.reg = n.reg
      BY <1>1, <1>2, WriteGood, WriteKeeps
<1>6. /\ \A a : a # high => Peek(n1.mem, a) = Peek(n.mem, a)
      /\ Peek(n1.mem, high) = w \div 256
      BY <1>3, PeekWritten
<1> HIDE DEF n1
<1>7. Good(b, n2) /\ n2.reg = n.reg
      BY <1>1, <1>2, <1>5, WriteGood, WriteKeeps
<1>8. /\ \A a : a # low => Peek(n2.mem, a) = Peek(n1.mem, a)
      /\ Peek(n2.mem, low) = w % 256
      BY <1>3, <1>5, PeekWritten
<1> HIDE DEF n2
<1>9. Set(n2, "SP", sp - 2).mem = n2.mem
      /\ Set(n2, "SP", sp - 2).reg = set_value(n.reg, "SP", sp - 2)
      BY <1>7 DEF Good, MachineType, Set
<1>10. set_value(n.reg, "SP", sp - 2) = [n.reg EXCEPT !["SP"] = low]
      BY <1>2, SetPointer DEF Good, MachineType, low
<1>11. /\ Push(n, w).reg = [n.reg EXCEPT !["SP"] = low]
       /\ Peek(Push(n, w).mem, low) = w % 256
       /\ Peek(Push(n, w).mem, high) = w \div 256
       /\ \A a : a \notin {low, high} => Peek(Push(n, w).mem, a) = Peek(n.mem, a)
      BY <1>2, <1>4, <1>6, <1>8, <1>9, <1>10
<1> QED BY <1>3, <1>11 DEF low, high, sp

LEMMA DropShape ==
    ASSUME NEW b, NEW n, Good(b, n)
    PROVE  Drop(n).reg = [n.reg EXCEPT !["SP"] = (n.reg["SP"] + 2) % 65536]
<1> DEFINE k == Cycle(Cycle(n, "MemRead"), "MemRead")
<1>1. Good(b, k) /\ k.reg = n.reg
      BY CycleGood, CycleKeeps DEF Kinds!BusCycle
<1>2. n.reg["SP"] + 2 \in Int
      BY RegType, Words
<1>3. Drop(n) = Set(k, "SP", n.reg["SP"] + 2)
      BY DEF Drop
<1> HIDE DEF k
<1>4. Set(k, "SP", n.reg["SP"] + 2).reg = set_value(n.reg, "SP", n.reg["SP"] + 2)
      BY <1>1 DEF Good, MachineType, Set
<1>5. n.reg \in RegisterFile
      BY DEF Good, MachineType
<1> QED BY <1>2, <1>3, <1>4, <1>5, SetPointer

\* Whatever the stack pointer is, also where the stack wraps around the end of
\* memory: what Push put there Top reads, and Drop gives back the register
\* file as it was; no other cell has changed (the PUSH and POP, CALL and RET
\* cases of execute_instruction and the acknowledges).
THEOREM PushedBack ==
    ASSUME NEW b, NEW n, Good(b, n), StackInRam(n), NEW w \in UInt16
    PROVE  /\ Top(Push(n, w)) = w
           /\ Drop(Push(n, w)).reg = n.reg
           /\ \A a : a \notin StackCells(n) => Peek(Push(n, w).mem, a) = Peek(n.mem, a)
<1> DEFINE sp   == n.reg["SP"]
           low  == (sp - 2) % 65536
           high == (sp - 1) % 65536
           p    == Push(n, w)
<1>1. /\ p.reg = [n.reg EXCEPT !["SP"] = low]
      /\ Peek(p.mem, low) = w % 256 /\ Peek(p.mem, high) = w \div 256
      /\ \A a : a \notin StackCells(n) => Peek(p.mem, a) = Peek(n.mem, a)
      BY PushShape
<1>2. Good(b, p)
      BY PushGood
<1>3. /\ sp \in UInt16 /\ low \in UInt16
      /\ (low + 1) % 65536 = high /\ (low + 2) % 65536 = sp
      BY RegType, Cells
<1>4. /\ "SP" \in DOMAIN n.reg /\ n.reg = [x \in DOMAIN n.reg |-> n.reg[x]]
      BY FileType DEF Good, MachineType, WordRegister
<1>5. Drop(p).reg = [p.reg EXCEPT !["SP"] = (p.reg["SP"] + 2) % 65536]
      BY <1>2, DropShape
<1> HIDE DEF low, high, p
<1>6. p.reg["SP"] = low
      BY <1>1, <1>4
<1>7. Top(p) = (w % 256) + 256 * (w \div 256)
      BY <1>1, <1>3, <1>6 DEF Top
<1>8. (w % 256) + 256 * (w \div 256) = w
      BY Words
<1>9. Drop(p).reg = [n.reg EXCEPT !["SP"] = sp]
      BY <1>1, <1>3, <1>4, <1>5, <1>6
<1>10. Drop(p).reg = n.reg
      BY <1>4, <1>9
<1> QED BY <1>1, <1>7, <1>8, <1>10 DEF p
-----------------------------------------------------------------------------
(* Calls, returns and acknowledges.                                        *)

LEMMA GotoKeeps ==
    ASSUME NEW b, NEW n, Good(b, n), NEW a \in Int
    PROVE  /\ Good(b, Goto(n, a)) /\ Goto(n, a).reg["PC"] = a % 65536
           /\ Goto(n, a).reg["SP"] = n.reg["SP"] /\ Top(Goto(n, a)) = Top(n)
<1>1. /\ Goto(n, a).reg = [n.reg EXCEPT !["PC"] = a % 65536]
      /\ Goto(n, a).mem = n.mem
      BY DEF Good, MachineType, Goto
<1>2. "PC" \in DOMAIN n.reg /\ "SP" \in DOMAIN n.reg
      BY FileType DEF Good, MachineType, WordRegister
<1>3. Goto(n, a).reg["PC"] = a % 65536 /\ Goto(n, a).reg["SP"] = n.reg["SP"]
      BY <1>1, <1>2
<1> QED BY <1>1, <1>3, GotoGood DEF Top

\* The operand reads of an instruction change what the bus has seen.
LEMMA ReadsKeep ==
    ASSUME NEW b, NEW n, Good(b, n), NEW i
    PROVE  /\ Good(b, OperandReads(i, n))
           /\ OperandReads(i, n).reg = n.reg /\ OperandReads(i, n).mem = n.mem
<1>1. \A k : Good(b, k) =>
         /\ Good(b, Cycle(k, "MemRead"))
         /\ Cycle(k, "MemRead").reg = k.reg /\ Cycle(k, "MemRead").mem = k.mem
      BY CycleGood, CycleKeeps DEF Kinds!BusCycle
<1> QED BY <1>1 DEF OperandReads

\* The end of an instruction that has no register for its result: a conditional
\* CALL writes it to the address it calls.
LEMMA LinkedEpilogue ==
    ASSUME NEW b, NEW n, Good(b, n), NEW i, i.dest \in {"Immediate", "None"}, NEW F \in UInt8,
           NEW address, NEW result, NEW t, t = Store(i, Set(n, "F", F), address, result)
    PROVE  /\ t.reg["SP"] = n.reg["SP"] /\ t.reg["PC"] = n.reg["PC"]
           /\ (i.addr_dest => address \notin {n.reg["SP"], (n.reg["SP"] + 1) % 65536})
                 => Top(t) = Top(n)
<1> DEFINE k == Set(n, "F", F)
<1>1. Good(b, k)
      BY SetGood, Bytes
<1>2. k.mem = n.mem /\ k.reg["SP"] = n.reg["SP"] /\ k.reg["PC"] = n.reg["PC"]
      BY SetsNoPointer
<1> HIDE DEF k
<1>3. CASE t = k
      BY <1>2, <1>3 DEF Top
<1>4. CASE t = Set(k, i.dest, result)
  <2>1. t.mem = k.mem /\ t.reg["SP"] = k.reg["SP"] /\ t.reg["PC"] = k.reg["PC"]
        BY <1>1, <1>4, SetsNoPointer
  <2> QED BY <1>2, <2>1 DEF Top
<1>5. CASE i.addr_dest /\ t = write_memory(k, address, result % 256)
  <2>1. t.reg = k.reg
        BY <1>1, <1>5, WriteKeeps
  <2>2. \A c : c # address => Peek(t.mem, c) = Peek(k.mem, c)
        BY <1>1, <1>5, PeekWritten
  <2>3. address \notin {n.reg["SP"], (n.reg["SP"] + 1) % 65536} => Top(t) = Top(k)
        BY <1>2, <2>1, <2>2 DEF Top
  <2> QED BY <1>2, <1>5, <2>1, <2>3 DEF Top
<1> QED BY <1>3, <1>4, <1>5 DEF Store, k

\* A taken CALL and RST.
LEMMA CallStep ==
    ASSUME NEW b, NEW n, Good(b, n), StackInRam(n), NEW i, AddressShape(i),
           Carries(i), i.name \in {"CALL", "RST"},
           i.addr_dest => Value(i, i.dest, n) \notin StackCells(n),
           NEW t \in execute_instruction(i, n), t.reg["SP"] # n.reg["SP"]
    PROVE  Top(t) = n.reg["PC"] /\ t.reg["SP"] = (n.reg["SP"] - 2) % 65536
<1> DEFINE x == Operand(i, i.dest, i.addr_dest, n)
           y == Operand(i, i.source, i.addr_source, n)
           p == OperandReads(i, n)
<1>1. PICK o \in Outcomes(i, n, x, y) :
        t = Store(i, Set(o.m, "F", FlagByte(FlagsAfter(i, x, y, o))), Value(i, i.dest, n), o.result)
      BY DEF execute_instruction
<1>2. PICK junk \in Undefined : o = Case(i, p, x, y, junk)
      BY DEF Outcomes
<1> DEFINE byte == FlagByte(FlagsAfter(i, x, y, o))
<1>3. byte \in UInt8
      BY FlagByteType
<1> HIDE DEF x, y, byte
<1>4. Good(b, p) /\ p.reg = n.reg /\ StackInRam(p) /\ StackCells(p) = StackCells(n)
      BY ReadsKeep DEF StackInRam, StackCells
<1> HIDE DEF p
<1>5. i.dest \in {"Immediate", "None"}
      BY DEF AddressShape, Linked
<1>6. o.m = p \/ \E a \in Int : o.m = Goto(Push(p, p.reg["PC"]), a)
  <2>1. Value(i, i.dest, p) \in Int /\ imm(i) \in Int
        BY <1>4, ValueType, ImmType, Words
  <2>2. CASE i.name = "CALL"
    <3>1. o.m = p \/ o.m = Goto(Push(p, p.reg["PC"]), Value(i, i.dest, p))
          BY <1>2, <2>2, QuietMachine DEF Case, Call
    <3> QED BY <2>1, <3>1
  <2>3. CASE i.name = "RST"
    <3>1. o.m = Goto(Push(p, p.reg["PC"]), imm(i))
          BY <1>2, <2>3, QuietMachine DEF Case, Restart
    <3> QED BY <2>1, <3>1
  <2> QED BY <2>2, <2>3
<1>7. o.m # p
  <2>1. SUFFICES ASSUME o.m = p PROVE FALSE
        OBVIOUS
  <2>2. t.reg["SP"] = p.reg["SP"]
        BY <1>1, <1>3, <1>4, <1>5, <2>1, LinkedEpilogue DEF byte
  <2> QED BY <1>4, <2>2
<1>8. PICK a \in Int : o.m = Goto(Push(p, p.reg["PC"]), a)
      BY <1>6, <1>7
<1> DEFINE q == Push(p, p.reg["PC"])
<1>9. /\ Good(b, q) /\ Top(q) = n.reg["PC"]
      /\ q.reg["SP"] = (n.reg["SP"] - 2) % 65536
  <2>1. p.reg["PC"] \in UInt16 /\ "SP" \in DOMAIN p.reg
        BY <1>4, RegType, FileType DEF Good, MachineType, WordRegister
  <2>2. Good(b, q) /\ Top(q) = p.reg["PC"]
        BY <1>4, <2>1, PushGood, PushedBack
  <2>3. q.reg = [p.reg EXCEPT !["SP"] = (p.reg["SP"] - 2) % 65536]
        BY <1>4, <2>1, PushShape
  <2> QED BY <1>4, <2>1, <2>2, <2>3
<1> HIDE DEF q
<1>10. Good(b, o.m) /\ o.m.reg["SP"] = q.reg["SP"] /\ Top(o.m) = Top(q)
  <2>1. o.m = Goto(q, a)
        BY <1>8 DEF q
  <2>2. Good(b, q)
        BY <1>9
  <2>3. /\ Good(b, Goto(q, a)) /\ Goto(q, a).reg["SP"] = q.reg["SP"]
        /\ Top(Goto(q, a)) = Top(q)
        BY <2>2, GotoKeeps
  <2> QED BY <2>1, <2>3
<1>11. {q.reg["SP"], (q.reg["SP"] + 1) % 65536} = StackCells(n)
  <2>1. n.reg["SP"] \in UInt16
        BY RegType
  <2> QED BY <1>9, <2>1, Cells DEF StackCells
<1>12. /\ t.reg["SP"] = o.m.reg["SP"]
       /\ (i.addr_dest => Value(i, i.dest, n) \notin {o.m.reg["SP"], (o.m.reg["SP"] + 1) % 65536})
             => Top(t) = Top(o.m)
       BY <1>1, <1>3, <1>5, <1>10, LinkedEpilogue DEF byte
<1> QED BY <1>9, <1>10, <1>11, <1>12

\* A taken RET, RETI and RETN.
LEMMA ReturnStep ==
    ASSUME NEW b, NEW n, Good(b, n), NEW i, AddressShape(i), Returns(i),
           NEW t \in execute_instruction(i, n), t.reg["SP"] # n.reg["SP"]
    PROVE  t.reg["PC"] = Top(n) /\ t.reg["SP"] = (n.reg["SP"] + 2) % 65536
<1> DEFINE x == Operand(i, i.dest, i.addr_dest, n)
           y == Operand(i, i.source, i.addr_source, n)
<1>1. PICK o \in Outcomes(i, n, x, y) :
        t = Store(i, Set(o.m, "F", FlagByte(FlagsAfter(i, x, y, o))), Value(i, i.dest, n), o.result)
      BY DEF execute_instruction
<1>2. ~i.addr_dest /\ ~i.addr_source /\ i.dest \in {"Immediate", "None"}
      BY DEF AddressShape, Linked, Returns
<1>3. PICK junk \in Undefined : o = Case(i, n, x, y, junk)
      BY <1>2 DEF Outcomes, OperandReads
<1> DEFINE byte == FlagByte(FlagsAfter(i, x, y, o))
<1>4. byte \in UInt8
      BY FlagByteType
<1> HIDE DEF x, y, byte
<1> DEFINE k == Return(n)
<1>5. Good(b, k) /\ k.reg["PC"] = Top(n) /\ k.reg["SP"] = (n.reg["SP"] + 2) % 65536
  <2> DEFINE d == Drop(n)
             a == Top(n)
  <2>1. Good(b, d) /\ a \in UInt16
        BY DropGood, TopType
  <2>2. d.reg["SP"] = (n.reg["SP"] + 2) % 65536
    <3>1. "SP" \in DOMAIN n.reg
          BY FileType DEF Good, MachineType, WordRegister
    <3>2. d.reg = [n.reg EXCEPT !["SP"] = (n.reg["SP"] + 2) % 65536]
          BY DropShape
    <3> QED BY <3>1, <3>2
  <2>3. k = Goto(d, a)
        BY DEF Return
  <2> HIDE DEF d, a, k
  <2>4. a \in Int /\ a % 65536 = a
        BY <2>1, Words
  <2>5. /\ Good(b, Goto(d, a)) /\ Goto(d, a).reg["PC"] = a % 65536
        /\ Goto(d, a).reg["SP"] = d.reg["SP"]
        BY <2>1, <2>4, GotoKeeps
  <2> QED BY <2>2, <2>3, <2>4, <2>5 DEF a
<1> HIDE DEF k
<1>6. o.m = n \/ o.m = k \/ o.m = [k EXCEPT !.iff1 = n.iff2]
  <2>1. CASE i.name = "RET"
        BY <1>3, <2>1, QuietMachine DEF Case, ReturnIf, k
  <2>2. CASE i.name = "RETI"
        BY <1>3, <2>2, QuietMachine DEF Case, k
  <2>3. CASE i.name = "RETN"
        BY <1>3, <2>3, QuietMachine DEF Case, ReturnFromNmi, k
  <2> QED BY <2>1, <2>2, <2>3 DEF Returns
<1>7. Good(b, o.m) /\ (o.m = n \/ o.m.reg = k.reg)
  <2>1. n.iff2 \in BOOLEAN
        BY DEF Good, MachineType
  <2>2. /\ Good(b, [k EXCEPT !.iff1 = n.iff2])
        /\ [k EXCEPT !.iff1 = n.iff2].reg = k.reg
        BY <1>5, <2>1 DEF Good, MachineType, Kept
  <2>3. CASE o.m = [k EXCEPT !.iff1 = n.iff2]
        BY <2>2, <2>3
  <2>4. CASE o.m = n \/ o.m = k
        BY <1>5, <2>4
  <2> QED BY <1>6, <2>3, <2>4
<1>8. t.reg["SP"] = o.m.reg["SP"] /\ t.reg["PC"] = o.m.reg["PC"]
      BY <1>1, <1>2, <1>4, <1>7, LinkedEpilogue DEF byte
<1> QED BY <1>5, <1>7, <1>8
LEMMA AdvancedKeeps ==
    ASSUME IInv
    PROVE  /\ Advanced.reg["SP"] = m.reg["SP"] /\ Top(Advanced) = Top(m)
           /\ StackCells(Advanced) = StackCells(m)
           /\ StackInRam(Advanced) <=> StackInRam(m)
<1> DEFINE fresh == [m EXCEPT !.bus = <<>>]
<1>1. Good(boot, m)
      BY AdvancedGood
<1>2. Good(boot, fresh) /\ fresh.reg = m.reg /\ fresh.mem = m.mem
      BY <1>1 DEF Good, MachineType, Kept
<1>3. m.reg["PC"] + 1 \in Int
      BY <1>1, RegType, Words
<1>4. Advanced = fresh \/ Advanced = Goto(fresh, m.reg["PC"] + 1)
      BY DEF Advanced
<1> HIDE DEF fresh
<1>5. /\ Goto(fresh, m.reg["PC"] + 1).reg["SP"] = fresh.reg["SP"]
      /\ Top(Goto(fresh, m.reg["PC"] + 1)) = Top(fresh)
      BY <1>2, <1>3, GotoKeeps
<1>6. Top(fresh) = Top(m)
      BY <1>2 DEF Top
<1>7. Advanced.reg["SP"] = m.reg["SP"] /\ Top(Advanced) = Top(m)
      BY <1>2, <1>4, <1>5, <1>6
<1> QED BY <1>7 DEF StackCells, StackInRam

\* The acknowledges that push.
LEMMA InterruptedSaves ==
    ASSUME IInv, StackInRam(m), NEW pc \in Int
    PROVE  /\ Good(boot, Interrupted(pc)) /\ Top(Interrupted(pc)) = m.reg["PC"]
           /\ Interrupted(pc).reg["SP"] = (m.reg["SP"] - 2) % 65536
<1> DEFINE n == [m EXCEPT !.halt = FALSE, !.bus = <<>>]
           q == Push(n, m.reg["PC"])
<1>1. Good(boot, m) /\ m.reg["PC"] \in UInt16 /\ "SP" \in DOMAIN m.reg
      BY AdvancedGood, RegType, FileType DEF Good, MachineType, WordRegister
<1>2. Good(boot, n) /\ n.reg = m.reg
      BY <1>1 DEF Good, MachineType, Kept
<1>3. Interrupted(pc) = Goto(q, pc)
      BY DEF Interrupted
<1> HIDE DEF n
<1>4. StackInRam(n)
      BY <1>2 DEF StackInRam, StackCells
<1>5. /\ Good(boot, q) /\ Top(q) = m.reg["PC"]
      /\ q.reg = [n.reg EXCEPT !["SP"] = (n.reg["SP"] - 2) % 65536]
      BY <1>1, <1>2, <1>4, PushGood, PushedBack, PushShape
<1>6. q.reg["SP"] = (m.reg["SP"] - 2) % 65536
      BY <1>1, <1>2, <1>5
<1> HIDE DEF q
<1>7. /\ Good(boot, Goto(q, pc)) /\ Top(Goto(q, pc)) = Top(q)
      /\ Goto(q, pc).reg["SP"] = q.reg["SP"]
  <2>1. Good(boot, q)
        BY <1>5
  <2> QED BY <2>1, GotoKeeps
<1> QED BY <1>3, <1>5, <1>6, <1>7

\* What an instruction does to the stack is what its execution from Advanced
\* does to it.
LEMMA ExecutedBy ==
    ASSUME IInv, ExecutorLoop
    PROVE  \/ /\ Executed /\ Carries(decoded') /\ AddressShape(decoded')
              /\ m' \in execute_instruction(decoded', Advanced)
              /\ calls' = CallsAfter(decoded', Advanced, m')
           \/ ~Executed /\ calls' = calls
<1>1. CASE HaltLoop
  <2>1. Carries(Stream!NoInstruction) /\ AddressShape(Stream!NoInstruction)
        BY NoInstructionType DEF InstructionOK, AddressShape, Linked, Shift, LeftShift, RightShift,
           Stream!NoInstruction
  <2> QED BY <1>1, <2>1 DEF ExecutorLoop, HaltLoop, Execute, Executed
<1>2. CASE Fetch /\ decoded' # Stream!nullopt
  <2>1. Execute(decoded') /\ Stream!Read(Append(pending, Fetched)) /\ Fetched \in UInt8
        BY <1>2, AdvancedGood DEF Fetch
  <2>2. Carries(decoded') /\ AddressShape(decoded')
        BY <1>2, <2>1, ReadGood, ReadShaped DEF IInv, InstructionOK
  <2> QED BY <2>1, <2>2 DEF ExecutorLoop, Execute, Executed
<1>3. CASE Fetch /\ decoded' = Stream!nullopt
      BY <1>3 DEF ExecutorLoop, Fetch, Executed
<1> QED BY <1>1, <1>2, <1>3 DEF ExecutorLoop

\* Where a conditional CALL writes its result; no other call writes one.
WritesBack(a) == Executed /\ decoded'.addr_dest /\ Value(decoded', decoded'.dest, Advanced) = a

\* A call, an RST and an acknowledge that pushes leave the address to return to
\* on top of the stack, two cells down.
ReturnSaved ==
    [][Len(calls') > Len(calls) /\ StackInRam(m) /\ (\A a \in StackCells(m) : ~WritesBack(a)) =>
         /\ calls' = <<Top(m')>> \o calls
         /\ m'.reg["SP"] = (m.reg["SP"] - 2) % 65536]_vars

\* A return that is taken goes where the top of the stack says, and drops it.
ReturnTaken ==
    [][Executed /\ Returns(decoded') /\ m'.reg["SP"] # m.reg["SP"] =>
         /\ m'.reg["PC"] = Top(m)
         /\ m'.reg["SP"] = (m.reg["SP"] + 2) % 65536]_vars

LEMMA CallsLength ==
    ASSUME calls \in Seq(UInt16), NEW i, NEW from, NEW to,
           Len(CallsAfter(i, from, to)) > Len(calls)
    PROVE  /\ i.name \in {"CALL", "RST"} /\ to.reg["SP"] # from.reg["SP"]
           /\ CallsAfter(i, from, to) = <<from.reg["PC"]>> \o calls
<1>1. Len(calls) \in Nat /\ (calls # <<>> => Len(Tail(calls)) = Len(calls) - 1)
      BY HeadTailProperties
<1> QED BY <1>1 DEF CallsAfter
\* For every program, every stack pointer and wherever an interrupt falls: the
\* return address is on the stack in full, as long as the stack is in RAM and
\* no conditional CALL writes its result over it (CALL and RST, and the NMI and
\* INT responses of the executor).
THEOREM ReturnSavedSafe == Spec => ReturnSaved
<1>1. ASSUME IInv, [Next]_vars
      PROVE  [Len(calls') > Len(calls) /\ StackInRam(m)
                /\ (\A a \in StackCells(m) : ~WritesBack(a)) =>
                   /\ calls' = <<Top(m')>> \o calls
                   /\ m'.reg["SP"] = (m.reg["SP"] - 2) % 65536]_vars
  <2> SUFFICES ASSUME Next, Len(calls') > Len(calls), StackInRam(m),
                      \A a \in StackCells(m) : ~WritesBack(a)
               PROVE  /\ calls' = <<Top(m')>> \o calls
                      /\ m'.reg["SP"] = (m.reg["SP"] - 2) % 65536
      BY <1>1
  <2>1. calls' # calls
    <3>1. Len(calls) \in Nat
          BY <1>1 DEF IInv, TypeOK
    <3> QED BY <3>1
  <2>2. CASE ExecutorLoop
    <3>1. /\ Executed /\ Carries(decoded') /\ AddressShape(decoded')
          /\ m' \in execute_instruction(decoded', Advanced)
          /\ calls' = CallsAfter(decoded', Advanced, m')
          BY <1>1, <2>1, <2>2, ExecutedBy
    <3>2. /\ decoded'.name \in {"CALL", "RST"} /\ m'.reg["SP"] # Advanced.reg["SP"]
          /\ calls' = <<Advanced.reg["PC"]>> \o calls
      <4>1. calls \in Seq(UInt16)
            BY <1>1 DEF IInv, TypeOK
      <4> QED BY <3>1, <4>1, CallsLength
    <3>3. /\ Good(boot, Advanced) /\ StackInRam(Advanced)
          /\ Advanced.reg["SP"] = m.reg["SP"] /\ StackCells(Advanced) = StackCells(m)
          BY <1>1, AdvancedGood, AdvancedKeeps
    <3>4. decoded'.addr_dest => Value(decoded', decoded'.dest, Advanced) \notin StackCells(Advanced)
          BY <3>1, <3>3 DEF WritesBack
    <3>5. Top(m') = Advanced.reg["PC"] /\ m'.reg["SP"] = (Advanced.reg["SP"] - 2) % 65536
          BY <3>1, <3>2, <3>3, <3>4, CallStep
    <3> QED BY <3>2, <3>3, <3>5
  <2>3. CASE CheckNmi
    <3>1. m' = [Interrupted(102) EXCEPT !.iff1 = FALSE, !.iff2 = m.iff1]
          /\ calls' = <<m.reg["PC"]>> \o calls
          BY <2>1, <2>3 DEF CheckNmi, nmi_acknowledge
    <3>2. /\ Good(boot, Interrupted(102)) /\ Top(Interrupted(102)) = m.reg["PC"]
          /\ Interrupted(102).reg["SP"] = (m.reg["SP"] - 2) % 65536
          BY <1>1, InterruptedSaves
    <3>3. m'.reg = Interrupted(102).reg /\ m'.mem = Interrupted(102).mem
          BY <3>1, <3>2 DEF Good, MachineType
    <3>4. Top(m') = Top(Interrupted(102))
          BY <3>3 DEF Top
    <3> QED BY <3>1, <3>2, <3>3, <3>4
  <2>4. CASE CheckInt
    <3>1. PICK pc : /\ pc = (IF m.mode = 1 THEN 56 ELSE Entry(Interrupted(0)))
                    /\ m' = Masked(Interrupted(pc)) /\ calls' = <<m.reg["PC"]>> \o calls
          BY <2>1, <2>4 DEF CheckInt, int_acknowledge
    <3>2. pc \in Int
      <4>1. MachineType(Interrupted(0))
            BY <1>1, InterruptedGood DEF Good
      <4>2. \A a : Peek(Interrupted(0).mem, a) \in Int
            BY <4>1, PeekType, Bytes
      <4>3. Entry(Interrupted(0)) \in Int
            BY <4>2 DEF Entry
      <4> QED BY <3>1, <4>3
    <3>3. /\ Good(boot, Interrupted(pc)) /\ Top(Interrupted(pc)) = m.reg["PC"]
          /\ Interrupted(pc).reg["SP"] = (m.reg["SP"] - 2) % 65536
          BY <1>1, <3>2, InterruptedSaves
    <3>4. m'.reg = Interrupted(pc).reg /\ m'.mem = Interrupted(pc).mem
          BY <3>1, <3>3 DEF Good, MachineType, Masked
    <3>5. Top(m') = Top(Interrupted(pc))
          BY <3>4 DEF Top
    <3> QED BY <3>1, <3>3, <3>4, <3>5
  <2>5. CASE ExecutorExit \/ DeviceStep \/ Exited
        BY <2>1, <2>5 DEF ExecutorExit, DeviceStep, Exited, vars
  <2> QED BY <2>2, <2>3, <2>4, <2>5 DEF Next, Cpu
<1> QED BY <1>1, Invariant, PTL DEF Spec, ReturnSaved

\* For every program: a return that is taken goes where the top of the stack
\* says (the RET, RETI and RETN cases of execute_instruction).
THEOREM ReturnTakenSafe == Spec => ReturnTaken
<1>1. ASSUME IInv, [Next]_vars
      PROVE  [Executed /\ Returns(decoded') /\ m'.reg["SP"] # m.reg["SP"] =>
                /\ m'.reg["PC"] = Top(m)
                /\ m'.reg["SP"] = (m.reg["SP"] + 2) % 65536]_vars
  <2> SUFFICES ASSUME Executed, Returns(decoded'), m'.reg["SP"] # m.reg["SP"]
               PROVE  /\ m'.reg["PC"] = Top(m)
                      /\ m'.reg["SP"] = (m.reg["SP"] + 2) % 65536
      OBVIOUS
  <2>1. ExecutorLoop
        BY <1>1 DEF Executed, Next, Cpu, CheckNmi, CheckInt, ExecutorExit, DeviceStep, Exited, vars
  <2>2. AddressShape(decoded') /\ m' \in execute_instruction(decoded', Advanced)
        BY <1>1, <2>1, ExecutedBy
  <2>3. /\ Good(boot, Advanced) /\ Advanced.reg["SP"] = m.reg["SP"]
        /\ Top(Advanced) = Top(m)
        BY <1>1, AdvancedGood, AdvancedKeeps
  <2>4. m'.reg["PC"] = Top(Advanced) /\ m'.reg["SP"] = (Advanced.reg["SP"] + 2) % 65536
        BY <2>2, <2>3, ReturnStep
  <2> QED BY <2>3, <2>4
<1> QED BY <1>1, Invariant, PTL DEF Spec, ReturnTaken
==============================================================================

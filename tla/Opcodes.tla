------------------------------- MODULE Opcodes -------------------------------
(***************************************************************************)
(* The opcode tables of class Decoder (include/decoder.h and               *)
(* source/decoder.cpp): what each opcode byte says about the instruction   *)
(* it starts, before prefixes and operand bytes are taken into account.    *)
(* Everything here is a pure function of a byte.                           *)
(***************************************************************************)
EXTENDS Naturals, Sequences

Byte == 0..255

\* The fields the decoder cuts an opcode into: xx yyy zzz, and yyy = pp q.
parse_opcode(b) ==
    [x |-> b \div 64, y |-> (b \div 8) % 8, z |-> b % 8,
     p |-> (b \div 16) % 4, q |-> (b \div 8) % 2]

rTable   == <<"B", "C", "D", "E", "H", "L", "HL", "A">>
rpTable  == <<"BC", "DE", "HL", "SP">>
rp2Table == <<"BC", "DE", "HL", "AF">>
ccTable  == <<"NZ", "Z", "NC", "C", "PO", "PE", "P", "M">>
aluTable == <<"ADD", "ADC", "SUB", "SBC", "AND", "XOR", "OR", "CP">>
rotTable == <<"RLC", "RRC", "RL", "RR", "SLA", "SRA", "SLL", "SRL">>
bliTable == << <<"LDI", "CPI", "INI", "OUTI">>,
               <<"LDD", "CPD", "IND", "OUTD">>,
               <<"LDIR", "CPIR", "INIR", "OTIR">>,
               <<"LDDR", "CPDR", "INDR", "OTDR">> >>

\* The C++ tables are indexed from 0.
r(i)   == rTable[i + 1]
rp(i)  == rpTable[i + 1]
rp2(i) == rp2Table[i + 1]
cc(i)  == ccTable[i + 1]

\* The alternate register of the only instruction that names one, EX AF, AF'.
get_alt_name == [A |-> "Aalt"]

-----------------------------------------------------------------------------
(* InstructionDetails: an operation on registers, refined by what follows. *)

Details(name, dest, source) ==
    [name |-> name, dest |-> dest, addr_dest |-> FALSE,
     source |-> source, addr_source |-> FALSE, condition |-> "None",
     needs_displacement |-> FALSE, immediate_bytes |-> 0, immediate_value |-> 0]

Plain(name)       == Details(name, "None", "None")
ToAddress(d)      == [d EXCEPT !.addr_dest = TRUE]
FromAddress(d)    == [d EXCEPT !.addr_source = TRUE]
OnCondition(d, c) == [d EXCEPT !.condition = c]
Displaced(d)      == [d EXCEPT !.needs_displacement = TRUE]
Followed(d, n)    == [d EXCEPT !.immediate_bytes = n]
Carrying(d, v)    == [d EXCEPT !.immediate_value = v]

\* A column of a table: entry i for index i, counted from 0.
Pick(column, i) == column[i + 1]

-----------------------------------------------------------------------------
(* Opcodes without prefix.                                                 *)

\* z = 2: an address in a register pair or in the operand.  All of them are
\* followed by two bytes, also the ones that name the pair themselves.
IndirectLoad(o) ==
    LET r1 == Pick(<<"BC", "DE", "Immediate", "Immediate">>, o.p)
        r2 == IF o.p = 2 THEN "HL" ELSE "A"
    IN  Followed(IF o.q = 0 THEN ToAddress(Details("LD", r1, r2))
                            ELSE FromAddress(Details("LD", r2, r1)), 2)

NoPreX0ZTable(o) ==
    CASE o.z = 0 -> (CASE o.y = 0 -> Plain("NOP")
                       [] o.y = 1 -> Details("EX", "A", get_alt_name["A"])
                       [] o.y = 2 -> Displaced(Plain("DJNZ"))
                       [] o.y = 3 -> Displaced(Plain("JR"))
                       [] o.y > 3 -> OnCondition(Displaced(Plain("JR")), cc(o.y - 4)))
      [] o.z = 1 -> IF o.q = 0 THEN Followed(Details("LD", rp(o.p), "Immediate"), 2)
                               ELSE Details("ADD", "HL", rp(o.p))
      [] o.z = 2 -> IndirectLoad(o)
      [] o.z = 3 -> Details(IF o.q = 0 THEN "INC" ELSE "DEC", rp(o.p), "None")
      [] o.z = 4 -> Details("INC", r(o.y), "None")
      [] o.z = 5 -> Details("DEC", r(o.y), "None")
      [] o.z = 6 -> Followed(Details("LD", r(o.y), "Immediate"), 1)
      [] o.z = 7 -> Details(Pick(<<"RLCA", "RRCA", "RLA", "RRA",
                                   "DAA", "CPL", "SCF", "CCF">>, o.y), "A", "None")

\* Entries a switch of the tables leaves out are the default NOP.
NoPreX3ZTable(o) ==
    CASE o.z = 0 -> OnCondition(Plain("RET"), cc(o.y))
      [] o.z = 1 ->
           IF o.q = 0 THEN Details("POP", rp2(o.p), "None")
           ELSE Pick(<<Plain("RET"), Plain("EXX"),
                       ToAddress(Details("JP", "HL", "None")),
                       Details("LD", "SP", "HL")>>, o.p)
      [] o.z = 2 -> OnCondition(Followed(ToAddress(Details("JP", "Immediate", "None")), 2), cc(o.y))
      [] o.z = 3 ->
           Pick(<<Followed(ToAddress(Details("JP", "Immediate", "None")), 2),
                  Plain("NOP"),
                  Followed(ToAddress(Details("OUT", "Immediate", "A")), 1),
                  Followed(FromAddress(Details("IN", "A", "Immediate")), 1),
                  ToAddress(Details("EX", "SP", "HL")),
                  Details("EX", "DE", "HL"), Plain("DI"), Plain("EI")>>, o.y)
      [] o.z = 4 -> OnCondition(Followed(ToAddress(Details("CALL", "Immediate", "None")), 2), cc(o.y))
      [] o.z = 5 -> IF o.q = 0 THEN Details("PUSH", "None", rp2(o.p))
                    ELSE IF o.p = 0 THEN Followed(Details("CALL", "Immediate", "None"), 2)
                    ELSE Plain("NOP")
      [] o.z = 6 -> OnCondition(Followed(Details(Pick(aluTable, o.y), "A", "Immediate"), 1), cc(o.y))
      [] o.z = 7 -> Carrying(Details("RST", "Immediate", "None"), o.y * 8)

\* Index 6 of rTable is taken for the register pair HL; only the column of
\* HALT is not a register load.
RegisterLoad(o) ==
    IF o.z # 6 THEN Details("LD", r(o.y), r(o.z))
    ELSE Plain(IF o.y = 6 THEN "HALT" ELSE "NOP")

NoPrefix(b) ==
    LET o == parse_opcode(b)
    IN  CASE o.x = 0 -> NoPreX0ZTable(o)
          [] o.x = 1 -> RegisterLoad(o)
          [] o.x = 2 -> Details(Pick(aluTable, o.y), "A", r(o.z))
          [] o.x = 3 -> NoPreX3ZTable(o)

-----------------------------------------------------------------------------
(* Opcodes after 0xCB and after 0xED.                                      *)

CBPrefix(b) ==
    LET o == parse_opcode(b)
    IN  IF o.x = 0 THEN Details(Pick(rotTable, o.y), r(o.z), "None")
        ELSE Carrying(Details(Pick(<<"BIT", "RES", "SET">>, o.x - 1), "Immediate", r(o.z)), o.y)

EDX1ZTable(o) ==
    CASE o.z = 0 -> FromAddress(Details("IN", IF o.y = 6 THEN "None" ELSE r(o.y), "BC"))
      [] o.z = 1 -> ToAddress(Details("OUT", "BC", IF o.y = 6 THEN "None" ELSE r(o.y)))
      [] o.z = 2 -> Details(IF o.q = 0 THEN "SBC" ELSE "ADC", "HL", rp(o.p))
      [] o.z = 3 -> Followed(IF o.q = 0 THEN ToAddress(Details("LD", "Immediate", rp(o.p)))
                                        ELSE FromAddress(Details("LD", rp(o.p), "Immediate")), 2)
      [] o.z = 4 -> Plain("NEG")
      [] o.z = 5 -> Plain(IF o.y = 1 THEN "RETI" ELSE "RETN")
      [] o.z = 6 -> Carrying(Details("IM", "Immediate", "None"), o.y)
      [] o.z = 7 -> Pick(<<Details("LD", "I", "A"), Details("LD", "R", "A"),
                           Details("LD", "A", "I"), Details("LD", "A", "R"),
                           Plain("RRD"), Plain("RLD"), Plain("NOP"), Plain("NOP")>>, o.y)

EDPrefix(b) ==
    LET o == parse_opcode(b)
    IN  CASE o.x = 1 -> EDX1ZTable(o)
          [] o.x = 2 /\ o.z <= 3 /\ o.y >= 4 -> Plain(bliTable[o.y - 3][o.z + 1])
          [] OTHER -> Plain("NONI")

-----------------------------------------------------------------------------
(* Instruction: the decoder's product.                                     *)

NoInstruction ==
    [name |-> "NOP", dest |-> "None", addr_dest |-> FALSE, source |-> "None",
     addr_source |-> FALSE, condition |-> "None", displacement |-> 0,
     imm_low |-> 0, imm_high |-> 0]

\* What the decoder copies from the details of an opcode.
Instruction(d) ==
    [name |-> d.name, dest |-> d.dest, addr_dest |-> d.addr_dest, source |-> d.source,
     addr_source |-> d.addr_source, condition |-> d.condition, displacement |-> 0,
     imm_low |-> d.immediate_value, imm_high |-> 0]

Operands(d) == d.immediate_bytes + IF d.needs_displacement THEN 1 ELSE 0

\* The registers that stand for HL, H and L after 0xDD and after 0xFD: the
\* low half of IX serves both.
IndexNames(p) == IF p = 253 THEN [HL |-> "IY", H |-> "IYH", L |-> "IXL"]
                            ELSE [HL |-> "IX", H |-> "IXH", L |-> "IXL"]

Renamed(name, p) == IF name \in {"HL", "H", "L"} THEN IndexNames(p)[name] ELSE name

\* HL used as an address wants a displacement; no opcode that is followed by
\* operand bytes uses it so.
Indexes(i) == \/ i.source = "HL" /\ i.addr_source
              \/ i.dest = "HL" /\ i.addr_dest

Substitute(i, p) ==
    IF i.source = "HL" /\ i.addr_source THEN [i EXCEPT !.source = Renamed("HL", p)]
    ELSE IF i.dest = "HL" /\ i.addr_dest THEN [i EXCEPT !.dest = Renamed("HL", p)]
    ELSE [i EXCEPT !.dest = Renamed(i.dest, p),
                   !.source = IF i.source = "HL" /\ (i.name = "EX" \/ i.dest = "DE")
                                 THEN i.source ELSE Renamed(i.source, p)]
=============================================================================

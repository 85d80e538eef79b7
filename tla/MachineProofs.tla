---------------------------- MODULE MachineProofs ----------------------------
(***************************************************************************)
(* Module Machine for every image, device, ROM size and content of the     *)
(* registers: types, and the ROM no instruction and no interrupt changes.  *)
(***************************************************************************)
EXTENDS Machine, RegisterProofs, SequenceTheorems

\* The ROM of machine n is the image of b.
Kept(b, n) ==
    \A a \in DOMAIN n.mem : a < RomSize /\ a # b.size =>
        a \in DOMAIN b.file /\ n.mem[a] = b.file[a]

Good(b, n) == MachineType(n) /\ Kept(b, n)

\* The operand bytes of an instruction are bytes.
Carries(i) == i.displacement \in UInt8 /\ i.imm_low \in UInt8 /\ i.imm_high \in UInt8

-----------------------------------------------------------------------------
(* What the operations on a machine preserve.                              *)

LEMMA RomType == RomSize \in Int /\ RomSize <= 65536
<1>1. UINT16_MAX = 65535
      BY DEF UINT16_MAX
<1> QED BY <1>1, RomAssumption

LEMMA PeekType ==
    ASSUME NEW n, MachineType(n), NEW a
    PROVE  Peek(n.mem, a) \in UInt8
<1>1. 0 \in UInt8
      BY Bytes
<1> QED BY <1>1 DEF MachineType, Peek

LEMMA CycleGood ==
    ASSUME NEW b, NEW n, Good(b, n), NEW c \in Kinds!BusCycle
    PROVE  Good(b, Cycle(n, c))
BY DEF Good, MachineType, Kept, Cycle

LEMMA CycleKeeps ==
    ASSUME NEW b, NEW n, Good(b, n), NEW c
    PROVE  Cycle(n, c).reg = n.reg /\ Cycle(n, c).mem = n.mem /\ Cycle(n, c).term = n.term
BY DEF Good, MachineType, Cycle

LEMMA FileGood ==
    ASSUME NEW b, NEW n, Good(b, n), NEW f \in RegisterFile
    PROVE  Good(b, [n EXCEPT !.reg = f])
BY DEF Good, MachineType, Kept

LEMMA SetGood ==
    ASSUME NEW b, NEW n, Good(b, n), NEW name, NEW value \in Int
    PROVE  Good(b, Set(n, name, value))
<1>1. set_value(n.reg, name, value) \in RegisterFile
      BY SetType DEF Good, MachineType
<1> QED BY <1>1, FileGood DEF Set

LEMMA GotoGood ==
    ASSUME NEW b, NEW n, Good(b, n), NEW a \in Int
    PROVE  Good(b, Goto(n, a))
<1>1. [n.reg EXCEPT !["PC"] = a % 65536] \in RegisterFile
      BY PcType, LowWord DEF Good, MachineType
<1> QED BY SMTT(30), <1>1, FileGood DEF Goto

LEMMA RegType ==
    ASSUME NEW b, NEW n, Good(b, n)
    PROVE  /\ \A name : reg(n, name) \in UInt16
           /\ n.reg["PC"] \in UInt16 /\ n.reg["SP"] \in UInt16
           /\ \A name \in ByteRegister : n.reg[name] \in UInt8
BY GetType, FileType DEF Good, MachineType, reg

LEMMA WriteGood ==
    ASSUME NEW b, NEW n, Good(b, n), NEW a \in UInt16, NEW v \in UInt8
    PROVE  Good(b, write_memory(n, a, v))
<1> DEFINE mem == Stored(n.mem, a, v)
<1>1. /\ DOMAIN mem \subseteq UInt16
      /\ \A x \in DOMAIN mem : mem[x] \in UInt8
      BY DEF Good, MachineType, Stored
<1>2. \A x \in DOMAIN mem : x < RomSize => x \in DOMAIN n.mem /\ mem[x] = n.mem[x]
      BY DEF Stored
<1> HIDE DEF mem
<1>3. Good(b, [n EXCEPT !.mem = mem])
      BY <1>1, <1>2 DEF Good, MachineType, Kept
<1> QED BY <1>3, CycleGood DEF write_memory, Kinds!BusCycle, mem

LEMMA WriteKeeps ==
    ASSUME NEW b, NEW n, Good(b, n), NEW a, NEW v
    PROVE  write_memory(n, a, v).reg = n.reg /\ write_memory(n, a, v).term = n.term
BY DEF Good, MachineType, write_memory, Cycle

LEMMA PushGood ==
    ASSUME NEW b, NEW n, Good(b, n), NEW w \in UInt16
    PROVE  Good(b, Push(n, w))
<1> DEFINE sp == n.reg["SP"]
           n1 == write_memory(n, (sp - 1) % 65536, w \div 256)
           n2 == write_memory(n1, (sp - 2) % 65536, w % 256)
<1>1. sp \in Int /\ w \in Int /\ w \div 256 \in UInt8 /\ w % 256 \in UInt8
      BY RegType, Words, Bytes
<1>2. (sp - 1) % 65536 \in UInt16 /\ (sp - 2) % 65536 \in UInt16 /\ sp - 2 \in Int
      BY <1>1, LowWord
<1> HIDE DEF sp
<1>3. Good(b, n1)
      BY <1>1, <1>2, WriteGood
<1> HIDE DEF n1
<1>4. Good(b, n2)
      BY <1>1, <1>2, <1>3, WriteGood
<1> HIDE DEF n2
<1>5. Push(n, w) = Set(n2, "SP", sp - 2)
      BY DEF Push, n1, n2, sp
<1> QED BY <1>2, <1>4, <1>5, SetGood

LEMMA TopType ==
    ASSUME NEW b, NEW n, Good(b, n) PROVE Top(n) \in UInt16
<1> DEFINE sp == n.reg["SP"]
<1>1. Peek(n.mem, sp) \in UInt8 /\ Peek(n.mem, (sp + 1) % 65536) \in UInt8
      BY PeekType DEF Good
<1> QED BY <1>1, Bytes, Words DEF Top

LEMMA DropGood ==
    ASSUME NEW b, NEW n, Good(b, n) PROVE Good(b, Drop(n))
<1>1. Good(b, Cycle(Cycle(n, "MemRead"), "MemRead"))
      BY CycleGood DEF Kinds!BusCycle
<1>2. n.reg["SP"] + 2 \in Int
      BY RegType, Words
<1> QED BY <1>1, <1>2, SetGood DEF Drop

LEMMA ReadType ==
    ASSUME NEW b, NEW n, Good(b, n), NEW low, NEW high \in Int, NEW junk \in UInt8
    PROVE  read_io(n, low, high, junk) \in UInt8
<1> DEFINE line == n.term.in_buffer
           rest == Len(line) - high
<1>1. line \in Seq(UInt8) /\ Len(line) \in Nat
      BY DEF Good, MachineType
<1>2. 0 \in UInt8 /\ Len(line) % 256 \in UInt8
  <2> HIDE DEF line
  <2> QED BY <1>1, LowByte, Bytes
<1>3. ASSUME rest \in 0..(Len(line) - 1) PROVE line[rest + 1] \in UInt8
      BY <1>1, <1>3
<1>4. CASE low # Port
      BY <1>2, <1>4 DEF read_io
<1>5. CASE low = Port /\ n.term.needs_len
      BY <1>2, <1>5 DEF read_io
<1>6. CASE low = Port /\ ~n.term.needs_len
      BY <1>2, <1>3, <1>6 DEF read_io
<1> QED BY <1>4, <1>5, <1>6

LEMMA AfterReadGood ==
    ASSUME NEW b, NEW n, Good(b, n), NEW low
    PROVE  Good(b, AfterRead(n, low))
<1>1. (low # Port /\ n.term.needs_len) \in BOOLEAN
      OBVIOUS
<1>2. Good(b, [n EXCEPT !.term.needs_len = low # Port /\ @])
      BY <1>1 DEF Good, MachineType, Kept
<1> QED BY <1>2, CycleGood DEF AfterRead, Kinds!BusCycle

LEMMA write_ioGood ==
    ASSUME NEW b, NEW n, Good(b, n), NEW low, NEW v \in UInt8
    PROVE  Good(b, write_io(n, low, v))
<1>1. Good(b, [n EXCEPT !.term.should_read = TRUE])
      BY DEF Good, MachineType, Kept
<1>2. Good(b, [n EXCEPT !.term.printed = Append(@, v)])
  <2>1. Append(n.term.printed, v) \in Seq(UInt8)
        BY DEF Good, MachineType
  <2> QED BY <2>1 DEF Good, MachineType, Kept
<1> DEFINE k == CASE low # Port -> n
                  [] low = Port /\ v = 255 -> [n EXCEPT !.term.should_read = TRUE]
                  [] OTHER -> [n EXCEPT !.term.printed = Append(@, v)]
<1>3. Good(b, k)
      BY <1>1, <1>2
<1>4. write_io(n, low, v) = Cycle(k, "IOWrite")
      BY DEF write_io
<1> HIDE DEF k
<1> QED BY <1>3, <1>4, CycleGood DEF Kinds!BusCycle

-----------------------------------------------------------------------------
(* Operands.                                                               *)

LEMMA ImmType ==
    ASSUME NEW i, Carries(i)
    PROVE  imm(i) \in UInt16 /\ Signed(i.displacement) \in Int
BY Bytes, Words DEF Carries, imm, Signed

LEMMA ValueType ==
    ASSUME NEW b, NEW n, Good(b, n), NEW i, Carries(i), NEW name
    PROVE  Value(i, name, n) \in UInt16
BY ImmType, RegType DEF Value

LEMMA OperandType ==
    ASSUME NEW b, NEW n, Good(b, n), NEW i, Carries(i), NEW name, NEW indirect
    PROVE  Operand(i, name, indirect, n) \in UInt16
BY ValueType, PeekType, ByteIsWord DEF Operand, Good

LEMMA OperandReadsGood ==
    ASSUME NEW b, NEW n, Good(b, n), NEW i
    PROVE  Good(b, OperandReads(i, n))
BY CycleGood DEF OperandReads, Kinds!BusCycle

LEMMA BitType == \A c : Bit(c) \in Int /\ 0 <= Bit(c) /\ Bit(c) <= 1
BY DEF Bit

-----------------------------------------------------------------------------
(* The cases of the switch.                                                *)

Sound(b, o) == Good(b, o.m) /\ o.result \in Int

LEMMA OutcomeSound ==
    ASSUME NEW b, NEW n, Good(b, n), NEW result \in Int, NEW named
    PROVE  Sound(b, Outcome(n, result, named))
BY DEF Outcome, Sound

LEMMA QuietSound ==
    ASSUME NEW b, NEW n, Good(b, n) PROVE Sound(b, Quiet(n))
BY OutcomeSound DEF Quiet

LEMMA ArithmeticSound ==
    ASSUME NEW b, NEW n, Good(b, n), NEW i, NEW x \in UInt16, NEW y \in UInt16
    PROVE  /\ Sound(b, Add(i, n, x, y)) /\ Sound(b, Subtract(i, n, x, y))
           /\ Sound(b, Negate(n, x)) /\ Sound(b, Increment(n, x)) /\ Sound(b, Decrement(n, x))
           /\ Sound(b, Compare(n, y)) /\ Sound(b, Complement(n, x))
           /\ Sound(b, DecimalAdjust(n, x))
           /\ Sound(b, ComplementCarry(n)) /\ Sound(b, SetCarry(n))
<1>1. x \in Int /\ y \in Int /\ 0 \in Int /\ -x \in Int
      BY Words
<1>2. \A c : x + y + Bit(c) \in Int /\ x - y - Bit(c) \in Int
      BY <1>1, BitType
<1>3. \A c, d : x + 6 * Bit(c) + 96 * Bit(d) \in Int
      BY <1>1, BitType
<1>4. x + 1 \in Int /\ x - 1 \in Int /\ -x - 1 \in Int
      BY <1>1
<1> QED BY <1>1, <1>2, <1>3, <1>4, OutcomeSound
        DEF Add, Subtract, Negate, Increment, Decrement, Compare, Complement,
            DecimalAdjust, ComplementCarry, SetCarry

LEMMA LogicalSound ==
    ASSUME NEW b, NEW n, Good(b, n), NEW x \in UInt16, NEW y \in UInt16
    PROVE  Sound(b, And(n, x, y)) /\ Sound(b, Or(n, x, y)) /\ Sound(b, Xor(n, x, y))
<1>1. \A bits : Word(bits) \in Int
      BY WordType, Words
<1> QED BY <1>1, OutcomeSound DEF And, Or, Xor

LEMMA ShiftSound ==
    ASSUME NEW b, NEW n, Good(b, n), NEW i, NEW x \in UInt16
    PROVE  Sound(b, ShiftLeft(i, n, x)) /\ Sound(b, ShiftRight(i, n, x))
<1>1. x \in Int /\ x \div 2 \in Int /\ 2147483520 + (x % 256) \div 2 \in Int
      BY Words
<1>2. \A bits : Word(bits) \in Int
      BY WordType, Words
<1>3. EntersRight(i, n, x) \in Int
      BY BitType DEF EntersRight
<1>4. 2 * x + EntersRight(i, n, x) \in Int
      BY <1>1, <1>3
<1>5. ShiftedRight(i, x) \in Int
      BY <1>1, <1>2 DEF ShiftedRight
<1> QED BY <1>4, <1>5, OutcomeSound DEF ShiftLeft, ShiftRight

LEMMA RotateDigitSound ==
    ASSUME NEW b, NEW n, Good(b, n), NEW i
    PROVE  Sound(b, RotateDigit(i, n))
<1> DEFINE x == 256 * (n.reg["A"] % 16) + Peek(n.mem, reg(n, "HL"))
<1>1. n.reg["A"] \in UInt8 /\ Peek(n.mem, reg(n, "HL")) \in UInt8
      BY PeekType, RegType DEF Good, ByteRegister
<1>2. x \in Int
      BY <1>1, Bytes
<1> HIDE DEF x
<1>3. (IF i.name = "RLD" THEN 16 * x ELSE x \div 16) \in Int
      BY <1>2
<1>4. Good(b, Cycle(n, "MemRead"))
      BY CycleGood DEF Kinds!BusCycle
<1>5. PICK named :
        RotateDigit(i, n) = Outcome(Cycle(n, "MemRead"),
                                    IF i.name = "RLD" THEN 16 * x ELSE x \div 16, named)
      BY DEF RotateDigit, x
<1> QED BY <1>3, <1>4, <1>5, OutcomeSound

LEMMA BitSound ==
    ASSUME NEW b, NEW n, Good(b, n), NEW i, Carries(i), NEW x \in UInt16, NEW y \in UInt16
    PROVE  Sound(b, TestBit(n, x, y)) /\ Sound(b, WriteBit(i, n, x, y))
<1>1. Sound(b, TestBit(n, x, y))
      BY OutcomeSound DEF TestBit
<1> DEFINE bits  == IF i.name = "RES" THEN BitsOf(y) \ {x} ELSE BitsOf(y) \cup {x}
           value == Word(bits) % 256
<1>2. Word(bits) \in UInt16
      BY WordType
<1> HIDE DEF bits
<1>3. value \in UInt8 /\ value \in Int
      BY <1>2, LowByte, Words, Bytes
<1> HIDE DEF value
<1>4. Good(b, write_memory(n, Value(i, i.source, n), value))
      BY <1>3, ValueType, WriteGood
<1>5. Good(b, Set(n, i.source, value))
      BY <1>3, SetGood
<1>6. WriteBit(i, n, x, y) = Quiet(IF i.addr_source THEN write_memory(n, Value(i, i.source, n), value)
                                                    ELSE Set(n, i.source, value))
      BY DEF WriteBit, value, bits
<1> QED BY <1>1, <1>4, <1>5, <1>6, QuietSound

LEMMA ReturnGood ==
    ASSUME NEW b, NEW n, Good(b, n) PROVE Good(b, Return(n))
<1>1. Good(b, Drop(n)) /\ Top(n) \in Int
      BY DropGood, TopType, Words
<1> QED BY <1>1, GotoGood DEF Return

LEMMA RelativeGood ==
    ASSUME NEW b, NEW n, Good(b, n), NEW i, Carries(i) PROVE Good(b, Relative(i, n))
<1>1. n.reg["PC"] + Signed(i.displacement) \in Int
      BY RegType, ImmType, Words
<1> QED BY <1>1, GotoGood DEF Relative

LEMMA JumpSound ==
    ASSUME NEW b, NEW n, Good(b, n), NEW i, Carries(i)
    PROVE  /\ Sound(b, JumpTo(i, n)) /\ Sound(b, Call(i, n)) /\ Sound(b, Restart(i, n))
           /\ Sound(b, ReturnIf(i, n)) /\ Sound(b, ReturnFromNmi(n))
           /\ Sound(b, Quiet(Return(n))) /\ Sound(b, Quiet(Relative(i, n)))
           /\ Sound(b, DecrementJump(i, n)) /\ Sound(b, Pop(n))
<1>1. Value(i, i.dest, n) \in Int /\ imm(i) \in Int /\ Top(n) \in Int
      BY ValueType, ImmType, TopType, Words
<1>2. Good(b, Push(n, n.reg["PC"]))
      BY RegType, PushGood
<1>3. Good(b, Goto(n, Value(i, i.dest, n)))
      BY <1>1, GotoGood
<1>4. Good(b, Goto(Push(n, n.reg["PC"]), Value(i, i.dest, n)))
      BY <1>1, <1>2, GotoGood
<1>5. Good(b, Goto(Push(n, n.reg["PC"]), imm(i)))
      BY <1>1, <1>2, GotoGood
<1>6. Good(b, Return(n)) /\ Good(b, Relative(i, n))
      BY ReturnGood, RelativeGood
<1>7. Sound(b, ReturnFromNmi(n))
  <2>1. Good(b, [Return(n) EXCEPT !.iff1 = n.iff2])
        BY <1>6 DEF Good, MachineType, Kept
  <2> QED BY <2>1, QuietSound DEF ReturnFromNmi
<1>8. Sound(b, DecrementJump(i, n))
  <2> DEFINE count   == (n.reg["B"] - 1) % 256
             counted == Set(n, "B", count)
  <2>1. count \in Int
        BY RegType, Bytes DEF ByteRegister
  <2>2. Good(b, counted)
        BY <2>1, SetGood
  <2> HIDE DEF counted
  <2>3. Good(b, Relative(i, counted))
        BY <2>2, RelativeGood
  <2>4. DecrementJump(i, n) = Quiet(IF count # 0 THEN Relative(i, counted) ELSE counted)
        BY DEF DecrementJump, counted
  <2> QED BY <2>2, <2>3, <2>4, QuietSound
<1>9. Sound(b, Pop(n))
      BY <1>1, DropGood, OutcomeSound DEF Pop
<1> QED BY <1>3, <1>4, <1>5, <1>6, <1>7, <1>8, <1>9, QuietSound
        DEF JumpTo, Call, Restart, ReturnIf

LEMMA LoadSound ==
    ASSUME NEW b, NEW n, Good(b, n), NEW i, NEW x \in UInt16, NEW y \in UInt16
    PROVE  /\ Sound(b, Load(i, n, y)) /\ Sound(b, Exchange(i, n, x, y))
           /\ Sound(b, ExchangeAll(n))
<1>1. x \in Int /\ y \in Int
      BY Words
<1>2. Sound(b, Exchange(i, n, x, y))
      BY <1>1, SetGood, OutcomeSound DEF Exchange
<1>3. Sound(b, ExchangeAll(n))
  <2> DEFINE swap(f, p, q) == set_value(set_value(f, p, get_value(f, q)), q, get_value(f, p))
  <2>1. ASSUME NEW f \in RegisterFile, NEW p, NEW q PROVE swap(f, p, q) \in RegisterFile
        BY <2>1, GetType, SetType, Words
  <2>2. n.reg \in RegisterFile
        BY DEF Good, MachineType
  <2> HIDE DEF swap
  <2>3. swap(swap(swap(n.reg, "BC", "BCalt"), "DE", "DEalt"), "HL", "HLalt") \in RegisterFile
        BY <2>1, <2>2
  <2>4. ExchangeAll(n) = Quiet([n EXCEPT !.reg =
            swap(swap(swap(n.reg, "BC", "BCalt"), "DE", "DEalt"), "HL", "HLalt")])
        BY DEF ExchangeAll, swap
  <2> QED BY <2>3, <2>4, FileGood, QuietSound
<1>4. Sound(b, Load(i, n, y))
      BY <1>1, OutcomeSound DEF Load
<1> QED BY <1>2, <1>3, <1>4

-----------------------------------------------------------------------------
(* Block instructions, ports and control.                                  *)

LEMMA CountedType ==
    ASSUME NEW f \in RegisterFile, NEW i, NEW name
    PROVE  Moved(i, f, name) \in RegisterFile /\ Counted(f, name) \in RegisterFile
<1>1. get_value(f, name) \in Int
      BY GetType, Words
<1>2. /\ get_value(f, name) + (IF Up(i) THEN 1 ELSE -1) \in Int
      /\ get_value(f, name) - 1 \in Int
      BY <1>1
<1> QED BY <1>2, SetType DEF Moved, Counted

LEMMA AgainGood ==
    ASSUME NEW b, NEW n, Good(b, n), NEW i, NEW more PROVE Good(b, Again(i, n, more))
<1>1. n.reg["PC"] - 2 \in Int
      BY RegType, Words
<1> QED BY <1>1, GotoGood DEF Again

LEMMA FileOf ==
    ASSUME NEW b, NEW n, Good(b, n) PROVE n.reg \in RegisterFile
BY DEF Good, MachineType

LEMMA SearchSound ==
    ASSUME NEW b, NEW n, Good(b, n), NEW i PROVE Sound(b, Search(i, n))
<1> DEFINE read == Cycle(n, "MemRead")
           done == [read EXCEPT !.reg = Counted(Moved(i, @, "HL"), "BC")]
<1>1. Good(b, read)
      BY CycleGood DEF Kinds!BusCycle
<1>2. Good(b, done)
      BY <1>1, FileOf, CountedType, FileGood
<1> HIDE DEF done
<1>3. \E more, named : Search(i, n) = Outcome(Again(i, done, more), 0, named)
      BY DEF Search, done
<1> QED BY <1>2, <1>3, AgainGood, OutcomeSound

LEMMA CopySound ==
    ASSUME NEW b, NEW n, Good(b, n), NEW i PROVE Sound(b, Copy(i, n))
<1> DEFINE read   == Cycle(n, "MemRead")
           value  == Peek(n.mem, reg(n, "HL"))
           copied == write_memory(read, reg(n, "DE"), value)
           done   == [copied EXCEPT !.reg = CopyRegisters(i, @)]
<1>1. Good(b, read) /\ value \in UInt8 /\ reg(n, "DE") \in UInt16
      BY CycleGood, PeekType, RegType DEF Kinds!BusCycle, Good
<1>2. Good(b, copied)
      BY <1>1, WriteGood
<1>3. Good(b, done)
      BY <1>2, FileOf, CountedType, FileGood DEF CopyRegisters
<1> HIDE DEF done
<1>4. \E more, named : Copy(i, n) = Outcome(Again(i, done, more), 0, named)
      BY DEF Copy, done
<1> QED BY <1>3, <1>4, AgainGood, OutcomeSound

LEMMA TransferredSound ==
    ASSUME NEW b, NEW n, Good(b, n), NEW i PROVE Sound(b, Transferred(i, n))
<1> DEFINE done == [n EXCEPT !.reg = Moved(i, Counted(@, "B"), "HL")]
<1>1. Good(b, done)
      BY FileOf, CountedType, FileGood
<1> HIDE DEF done
<1>2. \E more, named : Transferred(i, n) = Outcome(Again(i, done, more), 0, named)
      BY DEF Transferred, done
<1> QED BY <1>1, <1>2, AgainGood, OutcomeSound

LEMMA PortSound ==
    ASSUME NEW b, NEW n, Good(b, n), NEW i, Carries(i), NEW y \in UInt16, NEW junk \in UInt8
    PROVE  /\ Sound(b, Input(i, n, junk)) /\ Sound(b, Output(i, n))
           /\ Sound(b, In(i, n, junk)) /\ Sound(b, Out(i, n, y))
<1>1. /\ n.reg["A"] \in UInt8 /\ n.reg["B"] \in UInt8 /\ n.reg["C"] \in UInt8
      /\ reg(n, "HL") \in UInt16
      BY RegType DEF ByteRegister
<1>2. n.reg["A"] \in Int /\ n.reg["B"] \in Int
      BY <1>1, Bytes
<1>3. Sound(b, Input(i, n, junk))
  <2> DEFINE val  == read_io(n, n.reg["C"], n.reg["B"], junk)
             kept == write_memory(AfterRead(n, n.reg["C"]), reg(n, "HL"), val)
  <2>1. val \in UInt8 /\ Good(b, AfterRead(n, n.reg["C"]))
        BY <1>2, ReadType, AfterReadGood
  <2>2. Good(b, kept)
        BY <1>1, <2>1, WriteGood
  <2> QED BY <2>2, TransferredSound DEF Input
<1>4. Sound(b, Output(i, n))
  <2> DEFINE val  == Peek(n.mem, reg(n, "HL"))
             read == Cycle(n, "MemRead")
  <2>1. val \in UInt8 /\ Good(b, read)
        BY PeekType, CycleGood DEF Good, Kinds!BusCycle
  <2>2. Good(b, write_io(read, n.reg["C"], val))
        BY <2>1, write_ioGood
  <2> QED BY <2>2, TransferredSound DEF Output
<1>5. Sound(b, In(i, n, junk))
  <2> DEFINE direct == i.source = "Immediate"
             low    == IF direct THEN i.imm_low ELSE n.reg["C"]
             high   == IF direct THEN n.reg["A"] ELSE n.reg["B"]
  <2>1. high \in Int
        BY <1>2
  <2>2. read_io(n, low, high, junk) \in Int
        BY <2>1, ReadType, Bytes
  <2>3. Good(b, AfterRead(n, low))
        BY AfterReadGood
  <2> QED BY <2>2, <2>3, OutcomeSound DEF In
<1>6. Sound(b, Out(i, n, y))
  <2>1. y % 256 \in UInt8
        BY LowByte, Words
  <2> QED BY <2>1, write_ioGood, QuietSound DEF Out
<1> QED BY <1>3, <1>4, <1>5, <1>6

LEMMA ControlSound ==
    ASSUME NEW b, NEW n, Good(b, n), NEW i, NEW on \in BOOLEAN
    PROVE  /\ Sound(b, Enable(n, on)) /\ Sound(b, InterruptMode(i, n))
           /\ Sound(b, Quiet([n EXCEPT !.halt = TRUE]))
<1>1. Good(b, [n EXCEPT !.iff1 = on, !.iff2 = on])
      BY DEF Good, MachineType, Kept
<1>2. \A mode \in 0..2 : Good(b, [n EXCEPT !.mode = mode])
      BY DEF Good, MachineType, Kept
<1>3. Good(b, [n EXCEPT !.halt = TRUE])
      BY DEF Good, MachineType, Kept
<1> DEFINE mode == CASE imm(i) = 0 -> 0 [] imm(i) = 2 -> 1 [] imm(i) = 3 -> 2
                     [] OTHER -> n.mode
<1>4. mode \in 0..2
      BY DEF Good, MachineType
<1>5. InterruptMode(i, n) = Quiet([n EXCEPT !.mode = mode])
      BY DEF InterruptMode
<1> HIDE DEF mode
<1> QED BY <1>1, <1>2, <1>3, <1>4, <1>5, QuietSound DEF Enable

-----------------------------------------------------------------------------
(* A whole instruction.                                                    *)

LEMMA CaseSound ==
    ASSUME NEW b, NEW n, Good(b, n), NEW i, Carries(i),
           NEW x \in UInt16, NEW y \in UInt16, NEW junk \in UInt8
    PROVE  Sound(b, Case(i, n, x, y, junk))
<1>1. Sound(b, Quiet(n)) /\ Sound(b, Quiet(Push(n, y % 65536)))
      BY QuietSound, PushGood, LowWord, Words
<1>2. /\ Sound(b, Add(i, n, x, y)) /\ Sound(b, Subtract(i, n, x, y))
      /\ Sound(b, Negate(n, x)) /\ Sound(b, Increment(n, x)) /\ Sound(b, Decrement(n, x))
      /\ Sound(b, Compare(n, y)) /\ Sound(b, Complement(n, x))
      /\ Sound(b, DecimalAdjust(n, x))
      /\ Sound(b, ComplementCarry(n)) /\ Sound(b, SetCarry(n))
      BY ArithmeticSound
<1>3. /\ Sound(b, And(n, x, y)) /\ Sound(b, Or(n, x, y)) /\ Sound(b, Xor(n, x, y))
      /\ Sound(b, ShiftLeft(i, n, x)) /\ Sound(b, ShiftRight(i, n, x))
      /\ Sound(b, RotateDigit(i, n)) /\ Sound(b, TestBit(n, x, y))
      /\ Sound(b, WriteBit(i, n, x, y))
      BY LogicalSound, ShiftSound, RotateDigitSound, BitSound
<1>4. /\ Sound(b, JumpTo(i, n)) /\ Sound(b, Call(i, n)) /\ Sound(b, Restart(i, n))
      /\ Sound(b, ReturnIf(i, n)) /\ Sound(b, ReturnFromNmi(n))
      /\ Sound(b, Quiet(Return(n))) /\ Sound(b, Quiet(Relative(i, n)))
      /\ Sound(b, DecrementJump(i, n)) /\ Sound(b, Pop(n))
      BY JumpSound
<1>5. /\ Sound(b, Load(i, n, y)) /\ Sound(b, Exchange(i, n, x, y)) /\ Sound(b, ExchangeAll(n))
      /\ Sound(b, Search(i, n)) /\ Sound(b, Copy(i, n))
      /\ Sound(b, Input(i, n, junk)) /\ Sound(b, Output(i, n))
      /\ Sound(b, In(i, n, junk)) /\ Sound(b, Out(i, n, y))
      BY LoadSound, SearchSound, CopySound, PortSound
<1>6. /\ Sound(b, Enable(n, i.name = "EI")) /\ Sound(b, InterruptMode(i, n))
      /\ Sound(b, Quiet([n EXCEPT !.halt = TRUE]))
      BY ControlSound
<1> QED BY SMTT(40), <1>1, <1>2, <1>3, <1>4, <1>5, <1>6 DEF Case

LEMMA StoreGood ==
    ASSUME NEW b, NEW n, Good(b, n), NEW i, NEW address \in UInt16, NEW result \in Int
    PROVE  Good(b, Store(i, n, address, result))
<1>1. Good(b, write_memory(n, address, result % 256))
      BY LowByte, WriteGood
<1>2. Good(b, Set(n, i.dest, result))
      BY SetGood
<1> QED BY <1>1, <1>2 DEF Store

LEMMA OutcomesSound ==
    ASSUME NEW b, NEW n, Good(b, n), NEW i, Carries(i), NEW x \in UInt16, NEW y \in UInt16,
           NEW o \in Outcomes(i, n, x, y)
    PROVE  Sound(b, o)
<1>1. PICK junk \in Undefined : o = Case(i, OperandReads(i, n), x, y, junk)
      BY DEF Outcomes
<1>2. junk \in UInt8
      BY UndefinedAssumption
<1> QED BY <1>1, <1>2, OperandReadsGood, CaseSound

LEMMA InstructionGood ==
    ASSUME NEW b, NEW n, Good(b, n), NEW i, Carries(i), NEW k \in execute_instruction(i, n)
    PROVE  Good(b, k)
<1> DEFINE x == Operand(i, i.dest, i.addr_dest, n)
           y == Operand(i, i.source, i.addr_source, n)
<1>1. x \in UInt16 /\ y \in UInt16 /\ Value(i, i.dest, n) \in UInt16
      BY OperandType, ValueType
<1>2. PICK o \in Outcomes(i, n, x, y) :
        k = Store(i, Set(o.m, "F", FlagByte(FlagsAfter(i, x, y, o))), Value(i, i.dest, n), o.result)
      BY DEF execute_instruction
<1>3. Good(b, o.m) /\ o.result \in Int
      BY <1>1, OutcomesSound DEF Sound
<1>4. FlagByte(FlagsAfter(i, x, y, o)) \in Int
      BY FlagByteType, Bytes
<1>5. Good(b, Set(o.m, "F", FlagByte(FlagsAfter(i, x, y, o))))
      BY <1>3, <1>4, SetGood
<1> QED BY <1>1, <1>2, <1>3, <1>5, StoreGood

-----------------------------------------------------------------------------
(* What the decoder returns.                                               *)

Fields == {"name", "dest", "addr_dest", "source", "addr_source", "condition",
           "needs_displacement", "immediate_bytes", "immediate_value"}

\* What an opcode says of the bytes that follow it.
DetailsOK(d) == /\ DOMAIN d = Fields
                /\ d.needs_displacement \in BOOLEAN
                /\ d.immediate_bytes \in 0..2
                /\ d.immediate_value \in UInt8

LEMMA DetailsType ==
    /\ \A name, dest, source : DetailsOK(Stream!Details(name, dest, source))
    /\ \A name : DetailsOK(Stream!Plain(name))
    /\ \A d : DetailsOK(d) =>
          /\ DetailsOK(Stream!ToAddress(d)) /\ DetailsOK(Stream!FromAddress(d))
          /\ \A c : DetailsOK(Stream!OnCondition(d, c))
          /\ DetailsOK(Stream!Displaced(d))
          /\ \A k \in 0..2 : DetailsOK(Stream!Followed(d, k))
          /\ \A v \in UInt8 : DetailsOK(Stream!Carrying(d, v))
<1>1. \A name, dest, source : DetailsOK(Stream!Details(name, dest, source))
      BY Bytes DEF DetailsOK, Fields, Stream!Details
<1>2. \A name : DetailsOK(Stream!Plain(name))
      BY <1>1 DEF Stream!Plain
<1>3. ASSUME NEW d, DetailsOK(d)
      PROVE  /\ DetailsOK(Stream!ToAddress(d)) /\ DetailsOK(Stream!FromAddress(d))
             /\ \A c : DetailsOK(Stream!OnCondition(d, c))
             /\ DetailsOK(Stream!Displaced(d))
             /\ \A k \in 0..2 : DetailsOK(Stream!Followed(d, k))
             /\ \A v \in UInt8 : DetailsOK(Stream!Carrying(d, v))
      BY <1>3 DEF DetailsOK, Fields, Stream!ToAddress, Stream!FromAddress, Stream!OnCondition,
                  Stream!Displaced, Stream!Followed, Stream!Carrying
<1> QED BY <1>1, <1>2, <1>3

OpcodeOK(o) == o.x \in 0..3 /\ o.y \in 0..7 /\ o.z \in 0..7 /\ o.p \in 0..3 /\ o.q \in 0..1

LEMMA OpcodeType == ASSUME NEW c \in UInt8 PROVE OpcodeOK(Stream!parse_opcode(c))
BY Bytes DEF OpcodeOK, Stream!parse_opcode

LEMMA NoPreX0Type ==
    ASSUME NEW o, OpcodeOK(o) PROVE DetailsOK(Stream!NoPreX0ZTable(o))
<1>1. DetailsOK(Stream!IndirectLoad(o))
      BY DetailsType DEF Stream!IndirectLoad
<1>2. CASE o.z = 0
  <2>1. /\ DetailsOK(Stream!Plain("NOP"))
        /\ DetailsOK(Stream!Details("EX", "A", Stream!get_alt_name["A"]))
        /\ \A name : DetailsOK(Stream!Displaced(Stream!Plain(name)))
        /\ \A c : DetailsOK(Stream!OnCondition(Stream!Displaced(Stream!Plain("JR")), c))
        BY DetailsType
  <2>2. CASE o.y \in 0..3
        BY <1>2, <2>1, <2>2 DEF Stream!NoPreX0ZTable
  <2>3. CASE o.y \in 4..7
        BY <1>2, <2>1, <2>3 DEF Stream!NoPreX0ZTable
  <2> QED BY <2>2, <2>3 DEF OpcodeOK
<1>3. CASE o.z = 1
      BY <1>3, DetailsType DEF OpcodeOK, Stream!NoPreX0ZTable
<1>4. CASE o.z = 2
      BY <1>1, <1>4 DEF OpcodeOK, Stream!NoPreX0ZTable
<1>5. CASE o.z \in 3..7
      BY <1>5, DetailsType DEF OpcodeOK, Stream!NoPreX0ZTable
<1> QED BY <1>2, <1>3, <1>4, <1>5 DEF OpcodeOK

LEMMA NoPreX3Type ==
    ASSUME NEW o, OpcodeOK(o) PROVE DetailsOK(Stream!NoPreX3ZTable(o))
<1>1. o.y * 8 \in UInt8
      BY Bytes DEF OpcodeOK
<1>2. CASE o.z \in {0, 2, 4, 6}
  <2>1. \A c : DetailsOK(Stream!OnCondition(Stream!Plain("RET"), c))
        BY DetailsType
  <2>2. \A name : /\ DetailsOK(Stream!ToAddress(Stream!Details(name, "Immediate", "None")))
                  /\ DetailsOK(Stream!Details(name, "A", "Immediate"))
        BY DetailsType
  <2>3. \A name : /\ DetailsOK(Stream!Followed(
                         Stream!ToAddress(Stream!Details(name, "Immediate", "None")), 2))
                  /\ DetailsOK(Stream!Followed(Stream!Details(name, "A", "Immediate"), 1))
        BY <2>2, DetailsType
  <2>4. \A name, c : /\ DetailsOK(Stream!OnCondition(Stream!Followed(
                            Stream!ToAddress(Stream!Details(name, "Immediate", "None")), 2), c))
                     /\ DetailsOK(Stream!OnCondition(
                            Stream!Followed(Stream!Details(name, "A", "Immediate"), 1), c))
        BY <2>3, DetailsType
  <2> QED BY <1>2, <2>1, <2>4 DEF Stream!NoPreX3ZTable
<1>3. CASE o.z = 1
      BY <1>3, DetailsType DEF OpcodeOK, Stream!NoPreX3ZTable, Stream!Pick
<1>4. CASE o.z = 3
      BY <1>4, DetailsType DEF OpcodeOK, Stream!NoPreX3ZTable, Stream!Pick
<1>5. CASE o.z = 5
      BY <1>5, DetailsType DEF OpcodeOK, Stream!NoPreX3ZTable
<1>6. CASE o.z = 7
      BY <1>1, <1>6, DetailsType DEF OpcodeOK, Stream!NoPreX3ZTable
<1> QED BY <1>2, <1>3, <1>4, <1>5, <1>6 DEF OpcodeOK

LEMMA NoPrefixType == ASSUME NEW c \in UInt8 PROVE DetailsOK(Stream!NoPrefix(c))
<1> DEFINE o == Stream!parse_opcode(c)
<1>1. OpcodeOK(o)
      BY OpcodeType
<1> HIDE DEF o
<1>2. /\ DetailsOK(Stream!NoPreX0ZTable(o)) /\ DetailsOK(Stream!NoPreX3ZTable(o))
      /\ DetailsOK(Stream!RegisterLoad(o))
      /\ \A name, source : DetailsOK(Stream!Details(name, "A", source))
      BY <1>1, NoPreX0Type, NoPreX3Type, DetailsType DEF Stream!RegisterLoad
<1>3. o.x \in 0..3
      BY <1>1 DEF OpcodeOK
<1> QED BY <1>2, <1>3 DEF Stream!NoPrefix, o

LEMMA CBPrefixType == ASSUME NEW c \in UInt8 PROVE DetailsOK(Stream!CBPrefix(c))
<1> DEFINE o == Stream!parse_opcode(c)
<1>1. OpcodeOK(o)
      BY OpcodeType
<1>2. o.y \in UInt8
      BY <1>1, Bytes DEF OpcodeOK
<1> HIDE DEF o
<1> QED BY <1>2, DetailsType DEF Stream!CBPrefix, o

LEMMA EDPrefixType == ASSUME NEW c \in UInt8 PROVE DetailsOK(Stream!EDPrefix(c))
<1> DEFINE o == Stream!parse_opcode(c)
<1>1. OpcodeOK(o)
      BY OpcodeType
<1>2. o.y \in UInt8
      BY <1>1, Bytes DEF OpcodeOK
<1> HIDE DEF o
<1>3. DetailsOK(Stream!EDX1ZTable(o))
  <2>1. CASE o.z \in 0..3
    <3>1. \A name, d, s : /\ DetailsOK(Stream!Details(name, d, s))
                          /\ DetailsOK(Stream!FromAddress(Stream!Details(name, d, s)))
                          /\ DetailsOK(Stream!ToAddress(Stream!Details(name, d, s)))
          BY DetailsType
    <3>2. \A name, d, s :
             /\ DetailsOK(Stream!Followed(Stream!FromAddress(Stream!Details(name, d, s)), 2))
             /\ DetailsOK(Stream!Followed(Stream!ToAddress(Stream!Details(name, d, s)), 2))
          BY <3>1, DetailsType
    <3>3. CASE o.z \in 0..1
          BY <3>1, <3>3 DEF Stream!EDX1ZTable
    <3>4. CASE o.z = 2
          BY <3>1, <3>4 DEF Stream!EDX1ZTable
    <3>5. CASE o.z = 3
          BY <3>2, <3>5 DEF Stream!EDX1ZTable
    <3> QED BY <2>1, <3>3, <3>4, <3>5
  <2>2. CASE o.z \in 4..6
    <3>1. \A name : DetailsOK(Stream!Plain(name))
          BY DetailsType
    <3>2. DetailsOK(Stream!Details("IM", "Immediate", "None"))
          BY DetailsType
    <3>3. DetailsOK(Stream!Carrying(Stream!Details("IM", "Immediate", "None"), o.y))
          BY <1>2, <3>2, DetailsType
    <3>4. CASE o.z = 6
          BY <3>3, <3>4 DEF Stream!EDX1ZTable
    <3> QED BY <2>2, <3>1, <3>4 DEF Stream!EDX1ZTable
  <2>3. CASE o.z = 7
        BY <2>3, <1>1, DetailsType DEF Stream!EDX1ZTable, Stream!Pick, OpcodeOK
  <2> QED BY <1>1, <2>1, <2>2, <2>3 DEF OpcodeOK
<1> QED BY <1>3, DetailsType DEF Stream!EDPrefix, o

LEMMA OpcodeDetailsType ==
    ASSUME NEW s \in Seq(UInt8), Len(s) > Stream!Header(s)
    PROVE  DetailsOK(Stream!OpcodeDetails(s))
<1>1. Stream!Header(s) \in 0..2
      BY DEF Stream!Header
<1>2. s[Stream!Header(s) + 1] \in UInt8
      BY <1>1, ElementOfSeq
<1> QED BY <1>2, NoPrefixType, CBPrefixType, EDPrefixType DEF Stream!OpcodeDetails

\* An instruction with its operand bytes.
InstructionOK(i) ==
    /\ DOMAIN i = {"name", "dest", "addr_dest", "source", "addr_source", "condition",
                   "displacement", "imm_low", "imm_high"}
    /\ Carries(i)

LEMMA InstructionType ==
    ASSUME NEW d, DetailsOK(d) PROVE InstructionOK(Stream!Instruction(d))
<1>1. 0 \in UInt8
      BY Bytes
<1> QED BY <1>1 DEF InstructionOK, Carries, Stream!Instruction, DetailsOK

LEMMA NoInstructionType ==
    /\ InstructionOK(Stream!NoInstruction)
    /\ InstructionOK([Stream!NoInstruction EXCEPT !.name = "NONI"])
<1>1. 0 \in UInt8
      BY Bytes
<1> QED BY <1>1 DEF InstructionOK, Carries, Stream!NoInstruction

LEMMA WithOperandsType ==
    ASSUME NEW d, DetailsOK(d), NEW i, InstructionOK(i),
           NEW bytes \in Seq(UInt8), Len(bytes) = Stream!Operands(d)
    PROVE  InstructionOK(Stream!WithOperands(i, d, bytes))
<1>1. \A k \in 1..Len(bytes) : bytes[k] \in UInt8
      BY ElementOfSeq
<1>2. d.needs_displacement => InstructionOK([i EXCEPT !.displacement = bytes[1]])
  <2>1. d.needs_displacement => bytes[1] \in UInt8
        BY <1>1 DEF Stream!Operands, DetailsOK
  <2> QED BY <2>1 DEF InstructionOK, Carries
<1>3. d.immediate_bytes = 1 => InstructionOK([i EXCEPT !.imm_low = bytes[1]])
  <2>1. d.immediate_bytes = 1 => bytes[1] \in UInt8
        BY <1>1 DEF Stream!Operands
  <2> QED BY <2>1 DEF InstructionOK, Carries
<1>4. d.immediate_bytes = 2 =>
        InstructionOK([i EXCEPT !.imm_low = bytes[1], !.imm_high = bytes[2]])
  <2>1. d.immediate_bytes = 2 => bytes[1] \in UInt8 /\ bytes[2] \in UInt8
        BY <1>1 DEF Stream!Operands
  <2> QED BY <2>1 DEF InstructionOK, Carries
<1> QED BY <1>2, <1>3, <1>4 DEF Stream!WithOperands

LEMMA SubstituteType ==
    ASSUME NEW i, InstructionOK(i), NEW p
    PROVE  InstructionOK(Stream!Substitute(i, p))
BY DEF Stream!Substitute, InstructionOK, Carries

LEMMA MeaningType ==
    ASSUME NEW s \in Seq(UInt8), Stream!Complete(s)
    PROVE  InstructionOK(Stream!Meaning(s))
<1> DEFINE h == Stream!Header(s)
           d == Stream!OpcodeDetails(s)
           bytes == SubSeq(s, h + 2, Len(s))
           i == Stream!WithOperands(Stream!Instruction(d), d, bytes)
<1>1. h \in 0..2
      BY DEF Stream!Header
<1>2. Len(s) > h /\ Len(s) = h + 1 + Stream!Operands(d)
      BY DEF Stream!Complete, Stream!HasOpcode
<1>3. DetailsOK(d)
      BY <1>2, OpcodeDetailsType
<1>4. Stream!Operands(d) \in Nat
      BY <1>3 DEF DetailsOK, Stream!Operands
<1> HIDE DEF h, d
<1>5. bytes \in Seq(UInt8) /\ Len(bytes) = Stream!Operands(d)
  <2>1. \A k \in (h + 2)..Len(s) : s[k] \in UInt8
        BY <1>1, ElementOfSeq
  <2>2. /\ bytes \in Seq(UInt8)
        /\ Len(bytes) = IF h + 2 <= Len(s) THEN Len(s) - (h + 2) + 1 ELSE 0
        BY <1>1, <2>1, SubSeqProperties
  <2> QED BY <1>1, <1>2, <1>4, <2>2
<1> HIDE DEF bytes
<1>6. InstructionOK(i)
      BY <1>3, <1>5, InstructionType, WithOperandsType
<1> HIDE DEF i
<1>7. Stream!Meaning(s) = i \/ Stream!Meaning(s) = Stream!Substitute(i, s[1])
      BY DEF Stream!Meaning, i, h, d, bytes
<1> QED BY <1>6, <1>7, SubstituteType

\* What the decoder does with one more byte.
LEMMA ReadGood ==
    ASSUME pending \in Seq(UInt8), NEW byte \in UInt8, Stream!Read(Append(pending, byte))
    PROVE  /\ pending' \in Seq(UInt8)
           /\ decoded' # Stream!nullopt => InstructionOK(decoded')
<1> DEFINE s == Append(pending, byte)
<1>1. s \in Seq(UInt8)
      BY AppendProperties
<1> HIDE DEF s
<1>2. CASE Stream!Swallowed(s)
  <2>1. Len(s) = 2
        BY <1>2 DEF Stream!Swallowed
  <2>2. s[1] \in UInt8
        BY <1>1, <2>1, ElementOfSeq
  <2>3. <<s[1]>> \in Seq(UInt8)
        BY <2>2
  <2>4. ~Stream!Complete(s)
        BY <1>2 DEF Stream!Complete, Stream!HasOpcode
  <2>5. decoded' = [Stream!NoInstruction EXCEPT !.name = "NONI"] /\ pending' = <<s[1]>>
        BY <1>2, <2>4 DEF s, Stream!Read
  <2> QED BY <2>3, <2>5, NoInstructionType
<1>3. CASE Stream!Complete(s)
  <2>1. ~Stream!Swallowed(s)
        BY <1>3 DEF Stream!Complete, Stream!HasOpcode
  <2>2. decoded' = Stream!Meaning(s) /\ pending' = <<>>
        BY <1>3, <2>1 DEF s, Stream!Read
  <2>3. InstructionOK(Stream!Meaning(s))
        BY <1>1, <1>3, MeaningType
  <2> QED BY <2>2, <2>3
<1>4. CASE ~Stream!Swallowed(s) /\ ~Stream!Complete(s)
      BY <1>1, <1>4 DEF s, Stream!Read
<1> QED BY <1>2, <1>3, <1>4

-----------------------------------------------------------------------------
(* The inductive invariant: types, the ROM, and the bytes an instruction   *)
(* is being put together from, without which its operands would be open.   *)

IInv == /\ boot \in Boot
        /\ TypeOK
        /\ Kept(boot, m)
        /\ pending \in Seq(UInt8)

LEMMA InitIInv == Init => IInv
<1> SUFFICES ASSUME Init PROVE IInv
    OBVIOUS
<1>1. boot \in Boot /\ BootType(boot)
      BY BootAssumption DEF Init
<1>2. PICK extra \in Undefined :
        m = [reg |-> boot.registers, mem |-> load_bin_file(boot, extra),
             iff1 |-> FALSE, iff2 |-> FALSE, mode |-> 0, halt |-> FALSE, bus |-> <<>>,
             term |-> [should_read |-> FALSE, needs_len |-> FALSE,
                       in_buffer |-> <<>>, printed |-> <<>>]]
      BY DEF Init
<1>3. extra \in UInt8
      BY UndefinedAssumption
<1> DEFINE mem == load_bin_file(boot, extra)
<1>4. DOMAIN mem \subseteq UInt16
  <2>1. RomSize \in Int /\ RomSize <= 65536
        BY RomType
  <2>2. \A a \in 0..(RomSize - 1) : a \in UInt16
        BY <2>1, Words
  <2>3. boot.size \in 0..(RomSize - 1) /\ DOMAIN boot.file \subseteq 0..(boot.size - 1)
        BY <1>1 DEF BootType
  <2>4. DOMAIN mem = DOMAIN boot.file \cup {boot.size}
        BY DEF load_bin_file
  <2>5. \A a \in DOMAIN mem : a \in 0..(RomSize - 1)
        BY <2>1, <2>3, <2>4
  <2> QED BY <2>2, <2>5
<1>5. \A a \in DOMAIN mem : mem[a] \in UInt8
      BY <1>1, <1>3 DEF BootType, load_bin_file
<1>6. \A a \in DOMAIN mem : a # boot.size => a \in DOMAIN boot.file /\ mem[a] = boot.file[a]
      BY DEF load_bin_file
<1> HIDE DEF mem
<1>7. MachineType(m)
      BY <1>1, <1>2, <1>4, <1>5 DEF MachineType, BootType, mem
<1>8. Kept(boot, m)
      BY <1>2, <1>6 DEF Kept, mem
<1>9. TypeOK
  <2>1. 0 \in UInt8
        BY Bytes
  <2>2. /\ at \in {"Loop", "CheckNmi", "CheckInt", "Exit"}
        /\ nmi_latch \in BOOLEAN /\ int_latch \in BOOLEAN /\ data_bus \in UInt8
        /\ int_vector \in UInt8 \cup {NoByte} /\ int_response \in BOOLEAN
        BY <2>1 DEF Init
  <2>3. round \in 0..2 /\ lines \in Seq(Seq(UInt8)) /\ requests \in Nat
        BY <1>1 DEF Init, BootType
  <2>4. calls \in Seq(UInt16) /\ executed \in Nat
        BY DEF Init
  <2> QED BY <1>7, <2>2, <2>3, <2>4 DEF TypeOK
<1>10. pending \in Seq(UInt8)
      BY DEF Init
<1> QED BY <1>1, <1>8, <1>9, <1>10 DEF IInv

\* What an instruction leaves in its registers and in calls.
LEMMA AdvancedGood ==
    ASSUME IInv
    PROVE  Fetched \in UInt8 /\ Good(boot, m) /\ Good(boot, Advanced)
<1>1. Good(boot, m) /\ MachineType(m)
      BY DEF IInv, TypeOK, Good
<1>2. Peek(m.mem, m.reg["PC"]) \in UInt8
      BY <1>1, PeekType
<1>3. Fetched \in UInt8
      BY <1>2 DEF IInv, TypeOK, Fetched
<1>4. Good(boot, [m EXCEPT !.bus = <<>>])
      BY <1>1 DEF Good, MachineType, Kept
<1>5. m.reg["PC"] + 1 \in Int
      BY <1>1, RegType, Words
<1> QED BY <1>1, <1>3, <1>4, <1>5, GotoGood DEF Advanced

LEMMA CallsType ==
    ASSUME calls \in Seq(UInt16), NEW i, NEW from, Good(boot, from), NEW to
    PROVE  CallsAfter(i, from, to) \in Seq(UInt16)
<1>1. <<from.reg["PC"]>> \o calls \in Seq(UInt16)
  <2>1. from.reg["PC"] \in UInt16
        BY RegType
  <2> QED BY <2>1
<1>2. calls # <<>> => Tail(calls) \in Seq(UInt16)
      BY HeadTailProperties
<1> QED BY <1>1, <1>2 DEF CallsAfter

LEMMA ExecuteGood ==
    ASSUME IInv, NEW i, Carries(i), Execute(i)
    PROVE  /\ Good(boot, m') /\ calls' \in Seq(UInt16) /\ executed' \in Nat
           /\ int_response' = FALSE /\ at' = "CheckNmi"
<1>1. PICK n \in execute_instruction(i, Advanced) :
        m' = n /\ calls' = CallsAfter(i, Advanced, n)
      BY DEF Execute
<1>2. Good(boot, Advanced)
      BY AdvancedGood
<1>3. Good(boot, n)
      BY <1>2, InstructionGood
<1>4. calls' \in Seq(UInt16)
      BY <1>1, <1>2, CallsType DEF IInv, TypeOK
<1>5. executed' \in Nat
      BY DEF Execute, IInv, TypeOK
<1> QED BY <1>1, <1>3, <1>4, <1>5 DEF Execute

LEMMA ExecutorLoopIInv == ASSUME IInv, ExecutorLoop PROVE IInv'
<1>1. /\ boot' = boot /\ UNCHANGED latches /\ UNCHANGED device
      BY DEF ExecutorLoop
<1>2. CASE HaltLoop
  <2>1. Carries(Stream!NoInstruction)
        BY NoInstructionType DEF InstructionOK
  <2>2. /\ Good(boot, m') /\ calls' \in Seq(UInt16) /\ executed' \in Nat
        /\ int_response' = FALSE /\ at' = "CheckNmi"
        BY <1>2, <2>1, ExecuteGood DEF HaltLoop
  <2>3. pending' = pending /\ int_vector' = int_vector
        BY <1>2 DEF HaltLoop
  <2> QED BY <1>1, <2>2, <2>3 DEF IInv, TypeOK, Good, Kept, latches, device
<1>3. CASE Fetch
  <2>1. Stream!Read(Append(pending, Fetched)) /\ int_vector' = NoByte
        BY <1>3 DEF Fetch
  <2>2. Fetched \in UInt8 /\ Good(boot, Advanced)
        BY AdvancedGood
  <2>3. pending' \in Seq(UInt8) /\ (decoded' # Stream!nullopt => InstructionOK(decoded'))
        BY <2>1, <2>2, ReadGood DEF IInv
  <2>4. CASE decoded' # Stream!nullopt
    <3>1. Execute(decoded')
          BY <1>3, <2>4 DEF Fetch
    <3>2. /\ Good(boot, m') /\ calls' \in Seq(UInt16) /\ executed' \in Nat
          /\ int_response' = FALSE /\ at' = "CheckNmi"
          BY <2>3, <2>4, <3>1, ExecuteGood DEF InstructionOK
    <3> QED BY <1>1, <2>1, <2>3, <3>2 DEF IInv, TypeOK, Good, Kept, latches, device
  <2>5. CASE decoded' = Stream!nullopt
    <3>1. m' = Advanced /\ UNCHANGED <<calls, executed, int_response, at>>
          BY <1>3, <2>5 DEF Fetch
    <3> QED BY <1>1, <2>1, <2>2, <2>3, <3>1 DEF IInv, TypeOK, Good, Kept, latches, device
  <2> QED BY <2>4, <2>5
<1> QED BY <1>2, <1>3 DEF ExecutorLoop

LEMMA InterruptedGood ==
    ASSUME IInv, NEW pc \in Int
    PROVE  /\ Good(boot, Interrupted(pc))
           /\ <<m.reg["PC"]>> \o calls \in Seq(UInt16)
<1>1. Good(boot, m)
      BY DEF IInv, TypeOK, Good
<1>2. Good(boot, [m EXCEPT !.halt = FALSE, !.bus = <<>>])
      BY <1>1 DEF Good, MachineType, Kept
<1>3. m.reg["PC"] \in UInt16
      BY <1>1, RegType
<1>4. <<m.reg["PC"]>> \o calls \in Seq(UInt16)
      BY <1>3 DEF IInv, TypeOK
<1> QED BY <1>2, <1>3, <1>4, PushGood, GotoGood DEF Interrupted

LEMMA CheckNmiIInv == ASSUME IInv, CheckNmi PROVE IInv'
<1>1. /\ boot' = boot /\ at' = "CheckInt" /\ executed' = executed
      /\ UNCHANGED decoder /\ UNCHANGED response /\ UNCHANGED device
      /\ int_latch' = int_latch /\ data_bus' = data_bus
      BY DEF CheckNmi
<1>2. nmi_latch' \in BOOLEAN /\ Good(boot, m') /\ calls' \in Seq(UInt16)
  <2>1. CASE nmi_latch
    <3>1. /\ nmi_latch' = FALSE /\ calls' = <<m.reg["PC"]>> \o calls
          /\ m' = [Interrupted(102) EXCEPT !.iff1 = FALSE, !.iff2 = m.iff1]
          BY <2>1 DEF CheckNmi, nmi_acknowledge
    <3>2. Good(boot, Interrupted(102)) /\ calls' \in Seq(UInt16)
          BY <3>1, InterruptedGood
    <3>3. m.iff1 \in BOOLEAN
          BY DEF IInv, TypeOK, MachineType
    <3>4. Good(boot, m')
      <4> DEFINE n == Interrupted(102)
      <4>1. Good(boot, n) /\ m' = [n EXCEPT !.iff1 = FALSE, !.iff2 = m.iff1]
            BY <3>1, <3>2
      <4> HIDE DEF n
      <4> QED BY <4>1, <3>3 DEF Good, MachineType, Kept
    <3> QED BY <3>1, <3>2, <3>4
  <2>2. CASE ~nmi_latch
        BY <2>2 DEF CheckNmi, IInv, TypeOK, Good
  <2> QED BY <2>1, <2>2
<1> QED BY <1>1, <1>2 DEF IInv, TypeOK, Good, decoder, response, device

LEMMA MaskedGood == ASSUME NEW b, NEW n, Good(b, n) PROVE Good(b, Masked(n))
BY DEF Good, MachineType, Kept, Masked

LEMMA CheckIntIInv == ASSUME IInv, CheckInt PROVE IInv'
<1>1. /\ boot' = boot /\ at' = "Loop" /\ executed' = executed
      /\ UNCHANGED decoder /\ UNCHANGED device
      /\ nmi_latch' = nmi_latch /\ data_bus' = data_bus
      BY DEF CheckInt
<1> DEFINE After == /\ int_latch' \in BOOLEAN /\ Good(boot, m') /\ calls' \in Seq(UInt16)
                    /\ int_vector' \in UInt8 \cup {NoByte} /\ int_response' \in BOOLEAN
<1>2. Good(boot, m)
      BY DEF IInv, TypeOK, Good
<1>3. ASSUME ~(int_latch /\ m.iff1) PROVE After
      BY <1>2, <1>3 DEF CheckInt, IInv, TypeOK, response
<1>4. ASSUME (int_latch /\ m.iff1) /\ m.mode = 0 PROVE After
  <2>1. /\ int_latch' = FALSE /\ int_vector' = data_bus /\ int_response' = TRUE
        /\ m' = Masked(m) /\ calls' = calls
        BY <1>4 DEF CheckInt, int_acknowledge
  <2> QED BY <1>2, <2>1, MaskedGood DEF IInv, TypeOK
<1>5. ASSUME (int_latch /\ m.iff1) /\ m.mode # 0 PROVE After
  <2>1. /\ int_latch' = FALSE /\ UNCHANGED response
        /\ m' = Masked(Interrupted(IF m.mode = 1 THEN 56 ELSE Entry(Interrupted(0))))
        /\ calls' = <<m.reg["PC"]>> \o calls
        BY <1>5 DEF CheckInt, int_acknowledge
  <2>2. Good(boot, Interrupted(0))
        BY InterruptedGood
  <2>3. Entry(Interrupted(0)) \in Int
    <3>1. MachineType(Interrupted(0))
          BY <2>2 DEF Good
    <3>2. \A a : Peek(Interrupted(0).mem, a) \in Int
          BY <3>1, PeekType, Bytes
    <3> QED BY <3>2 DEF Entry
  <2>4. (IF m.mode = 1 THEN 56 ELSE Entry(Interrupted(0))) \in Int
        BY <2>3
  <2>5. Good(boot, m') /\ calls' \in Seq(UInt16)
        BY <2>1, <2>4, InterruptedGood, MaskedGood
  <2> QED BY <2>1, <2>5 DEF IInv, TypeOK, response
<1>6. After
      BY <1>3, <1>4, <1>5
<1> QED BY <1>1, <1>6 DEF IInv, TypeOK, Good, decoder, device

LEMMA DeviceStepIInv == ASSUME IInv, DeviceStep PROVE IInv'
<1>1. /\ boot' = boot /\ at' = at /\ calls' = calls /\ executed' = executed
      /\ UNCHANGED decoder /\ UNCHANGED response
      BY DEF DeviceStep
<1> DEFINE After == /\ nmi_latch' \in BOOLEAN /\ int_latch' \in BOOLEAN /\ data_bus' \in UInt8
                    /\ Good(boot, m') /\ round' \in 0..2
                    /\ lines' \in Seq(Seq(UInt8)) /\ requests' \in Nat
<1>2. Good(boot, m)
      BY DEF IInv, TypeOK, Good
<1>3. ASSUME signal PROVE nmi_latch' \in BOOLEAN /\ int_latch' \in BOOLEAN
      BY <1>3 DEF signal, IInv, TypeOK
<1>4. 247 \in UInt8 /\ 0 \in UInt8 /\ 2 \in UInt8
      BY Bytes
<1>5. ASSUME Answer PROVE After
  <2>1. /\ lines # <<>> /\ signal /\ lines' = Tail(lines) /\ requests' = requests
        /\ m' = [m EXCEPT !.term.in_buffer = Head(lines), !.term.needs_len = TRUE]
        BY <1>5 DEF Answer, CanAnswer
  <2>2. Head(lines) \in Seq(UInt8) /\ lines' \in Seq(Seq(UInt8))
        BY <2>1, HeadTailProperties DEF IInv, TypeOK
  <2>3. Good(boot, m')
        BY <1>2, <2>1, <2>2 DEF Good, MachineType, Kept
  <2>4. data_bus' \in UInt8 /\ round' \in 0..2
        BY <1>4, <1>5 DEF Answer, IInv, TypeOK
  <2> QED BY <1>3, <2>1, <2>2, <2>3, <2>4 DEF IInv, TypeOK
<1>6. ASSUME SignalAgain PROVE After
      BY <1>2, <1>3, <1>4, <1>6 DEF SignalAgain, IInv, TypeOK
<1>7. ASSUME Finish PROVE After
  <2>1. Good(boot, [m EXCEPT !.term.should_read = FALSE])
        BY <1>2 DEF Good, MachineType, Kept
  <2> QED BY <1>7, <2>1 DEF Finish, latches, IInv, TypeOK
<1>8. ASSUME Timer PROVE After
      BY <1>2, <1>3, <1>8 DEF Timer, IInv, TypeOK
<1>9. After
      BY <1>5, <1>6, <1>7, <1>8 DEF DeviceStep
<1> QED BY <1>1, <1>9 DEF IInv, TypeOK, Good, decoder, response

LEMMA StepIInv == ASSUME IInv, [Next]_vars PROVE IInv'
<1>1. CASE ExecutorLoop
      BY <1>1, ExecutorLoopIInv
<1>2. CASE CheckNmi
      BY <1>2, CheckNmiIInv
<1>3. CASE CheckInt
      BY <1>3, CheckIntIInv
<1>4. CASE ExecutorExit
      BY <1>4 DEF ExecutorExit, IInv, TypeOK, decoder, latches, response, device
<1>5. CASE DeviceStep
      BY <1>5, DeviceStepIInv
<1>6. CASE UNCHANGED vars
      BY <1>6 DEF vars, IInv, TypeOK, decoder, latches, response, device
<1> QED BY <1>1, <1>2, <1>3, <1>4, <1>5, <1>6 DEF Next, Cpu, Exited

THEOREM Invariant == Spec => []IInv
BY InitIInv, StepIInv, PTL DEF Spec

\* Whatever the image, the device and the registers a run begins with: a
\* register never outgrows its width, only bytes reach memory, the data bus and
\* the device, and the place in the executor is one of its four
\* (registers.cpp, execute_instruction and the acknowledges of soft80.cpp).
THEOREM TypeSafe == Spec => []TypeOK
<1>1. IInv => TypeOK
      BY DEF IInv
<1> QED BY <1>1, Invariant, PTL

\* No instruction, no interrupt and no write back to the address of a jump
\* changes a byte of the image below the end of the ROM (ROM::write_byte of
\* rom.h).
THEOREM ProgramKeptSafe == Spec => []ProgramKept
<1>1. IInv => ProgramKept
      BY DEF IInv, Kept, ProgramKept
<1> QED BY <1>1, Invariant, PTL
=============================================================================

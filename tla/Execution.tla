------------------------------- MODULE Execution -------------------------------
(***************************************************************************)
(* Soft80::execute_instruction (source/soft80.cpp) as a function: the      *)
(* state of the machine after an instruction, from the state before it.    *)
(*                                                                         *)
(* A state m is a record of what an instruction can change: the register   *)
(* file reg, the memory mem, the interrupt masks and mode, halt, the       *)
(* terminal term, and bus, the machine cycles the instruction has run.     *)
(* A result is kept as the integer it stands for: the code's uint32_t is   *)
(* that integer modulo 2^32, and no result is further than that from 0.    *)
(***************************************************************************)
EXTENDS Registers, Sequences, FiniteSets

CONSTANTS
    RomSize,    \* addresses below are ROM, the others RAM
    Port,       \* the port the terminal device is mapped to
    Undefined   \* what a byte outside any object may be

ASSUME RomAssumption  == RomSize \in 0..(UINT16_MAX + 1)
ASSUME PortAssumption == Port \in UInt8
ASSUME UndefinedAssumption == Undefined \subseteq UInt8

-----------------------------------------------------------------------------
(* Memory: RAM is cleared, so only what was loaded or written is kept.     *)

Peek(mem, a) == IF a \in DOMAIN mem THEN mem[a] ELSE 0

\* Fault: a ROM can be written.
Stored_Anywhere(mem, a, b) == [x \in DOMAIN mem \cup {a} |-> IF x = a THEN b ELSE mem[x]]

Stored(mem, a, b) ==
    IF a < RomSize THEN mem
    ELSE [x \in DOMAIN mem \cup {a} |-> IF x = a THEN b ELSE mem[x]]

Cycle(m, c) == [m EXCEPT !.bus = Append(@, c)]

write_memory(m, a, b) == Cycle([m EXCEPT !.mem = Stored(@, a, b)], "MemWrite")

reg(m, name)        == get_value(m.reg, name)
Set(m, name, value) == [m EXCEPT !.reg = set_value(@, name, value)]
Goto(m, a)          == [m EXCEPT !.reg["PC"] = a % 65536]

Push(m, w) ==
    LET sp == m.reg["SP"]
    IN  Set(write_memory(write_memory(m, (sp - 1) % 65536, w \div 256),
                         (sp - 2) % 65536, w % 256), "SP", sp - 2)

Top(m) == LET sp == m.reg["SP"]
          IN  Peek(m.mem, sp) + 256 * Peek(m.mem, (sp + 1) % 65536)

Drop(m) == Set(Cycle(Cycle(m, "MemRead"), "MemRead"), "SP", m.reg["SP"] + 2)

-----------------------------------------------------------------------------
(* The terminal device of terminaldevice.h, at its port; no other port is  *)
(* mapped.  junk is what lies behind the end of in_buffer.                 *)

read_io(m, low, high, junk) ==
    LET line == m.term.in_buffer
        rest == Len(line) - high
    IN  CASE low # Port               -> 0
          [] low = Port /\ m.term.needs_len -> Len(line) % 256
          [] OTHER -> IF rest \in 0..(Len(line) - 1) THEN line[rest + 1]
                      ELSE IF rest = Len(line) THEN 0 ELSE junk

AfterRead(m, low) ==
    Cycle([m EXCEPT !.term.needs_len = low # Port /\ @], "IORead")

write_io(m, low, b) ==
    Cycle(CASE low # Port -> m
            [] low = Port /\ b = 255 -> [m EXCEPT !.term.should_read = TRUE]
            [] OTHER -> [m EXCEPT !.term.printed = Append(@, b)], "IOWrite")

-----------------------------------------------------------------------------
(* Operands.                                                               *)

imm(i)    == i.imm_low + 256 * i.imm_high
Signed(b) == IF b > 127 THEN b - 256 ELSE b

Value(i, name, m) == IF name = "Immediate" THEN imm(i) ELSE reg(m, name)

\* operand1 and operand2: through memory, displaced, or as they are.
Operand(i, name, indirect, m) ==
    IF indirect THEN Peek(m.mem, (Value(i, name, m) + Signed(i.displacement)) % 65536)
                ELSE Value(i, name, m)

\* Fault: only a source is read.
OperandReads_SourceOnly(i, m) == IF i.addr_source THEN Cycle(m, "MemRead") ELSE m

OperandReads(i, m) ==
    LET m1 == IF i.addr_dest THEN Cycle(m, "MemRead") ELSE m
    IN  IF i.addr_source THEN Cycle(m1, "MemRead") ELSE m1

flags(m) == parse_flags(m.reg["F"])
Bit(b)   == IF b THEN 1 ELSE 0

\* What a case of the switch leaves for the end of the function: the state,
\* result, and the flags out_flags names.
Outcome(m, result, named) == [m |-> m, result |-> result, named |-> named]
Quiet(m)                  == Outcome(m, 0, {})

Arithmetic == {"Sign", "Zero", "F5", "HalfCarry", "F3", "Overflow"}
Logical    == {"Sign", "Zero", "F5", "F3", "Parity"}

\* Name n, or the other, as condition b holds.
Choice(b, n, other) == {IF b THEN n ELSE other}

-----------------------------------------------------------------------------
(* 8-bit and 16-bit arithmetic.                                            *)

Add(i, m, x, y) ==
    Outcome(m, x + y + Bit(i.name = "ADC" /\ "Carry" \in flags(m)),
            Arithmetic \cup {"SubtractReset", "Carry"})

Subtract(i, m, x, y) ==
    Outcome(m, x - y - Bit(i.name = "SBC" /\ "Carry" \in flags(m)),
            Arithmetic \cup {"SubtractSet", "Carry"})

Negate(m, x) == Outcome(m, -x, Arithmetic \cup {"SubtractSet", "Carry"})

Increment(m, x) == Outcome(m, x + 1, Arithmetic \cup {"SubtractReset"})
Decrement(m, x) == Outcome(m, x - 1, Arithmetic \cup {"SubtractSet"})

\* The other operand becomes the result.
Compare(m, y) == Outcome(m, y, Arithmetic \cup {"SubtractSet", "Carry"})

And(m, x, y) ==
    Outcome(m, Word(BitsOf(x) \cap BitsOf(y)),
            Logical \cup {"HalfCarrySet", "SubtractReset", "CarryReset"})
Or(m, x, y) ==
    Outcome(m, Word(BitsOf(x) \cup BitsOf(y)),
            Logical \cup {"HalfCarryReset", "SubtractReset", "CarryReset"})
Xor(m, x, y) ==
    Outcome(m, Word((BitsOf(x) \cup BitsOf(y)) \ (BitsOf(x) \cap BitsOf(y))),
            Logical \cup {"HalfCarryReset", "SubtractReset", "CarryReset"})

Complement(m, x) == Outcome(m, -x - 1, {"HalfCarrySet", "SubtractSet"})

DecimalAdjust(m, x) ==
    Outcome(m, x + 6 * Bit(x % 16 > 9 \/ "HalfCarry" \in flags(m))
                 + 96 * Bit((x \div 16) % 16 > 9 \/ "Carry" \in flags(m)),
            Logical \cup {"HalfCarry", "Carry"})

\* The result of both is 0, and both have A for their destination.
ComplementCarry(m) ==
    Outcome(m, 0, {"SubtractReset"}
                  \cup (IF "Carry" \in flags(m) THEN {"CarryReset", "HalfCarrySet"}
                                                ELSE {"CarrySet", "HalfCarryReset"}))
SetCarry(m) == Outcome(m, 0, {"SubtractReset", "CarrySet", "HalfCarryReset"})

-----------------------------------------------------------------------------
(* Rotates, shifts and bits.                                               *)

\* The bit that enters on the right; an 8-bit operand has no bit RLC takes.
EntersRight(i, m, x) ==
    CASE i.name = "RL"              -> Bit("Carry" \in flags(m))
      [] i.name \in {"RLC", "RLCA"} -> Bit(x > 255)
      [] i.name = "SLL"             -> 1
      [] OTHER                      -> 0

RotateFlags(i) ==
    {"F5", "HalfCarryReset", "F3", "SubtractReset"}
    \cup IF i.name \in {"RLA", "RLCA", "RRA", "RRCA"} THEN {} ELSE Logical

ShiftLeft(i, m, x) ==
    Outcome(m, 2 * x + EntersRight(i, m, x), RotateFlags(i) \cup {"Carry"})

\* SRA extends the sign of the low byte to 32 bits and shifts it in; the
\* others shift in zeros, and RRC ors the lowest bit into bit 7.
ShiftedRight(i, x) ==
    CASE i.name = "SRA" /\ x > 127               -> 2147483520 + (x % 256) \div 2
      [] i.name \in {"RRC", "RRCA"} /\ x % 2 = 1 -> Word(BitsOf(x \div 2) \cup {7})
      [] OTHER                                   -> x \div 2

\* Fault: the carry takes the highest bit.
ShiftRight_HighCarry(i, m, x) ==
    Outcome(m, ShiftedRight(i, x),
            RotateFlags(i) \cup Choice(x > 127, "CarrySet", "CarryReset"))

ShiftRight(i, m, x) ==
    Outcome(m, ShiftedRight(i, x),
            RotateFlags(i) \cup Choice(x % 2 = 1, "CarrySet", "CarryReset"))

\* RLD and RRD compute flags from the twelve bits and store none of them.
RotateDigit(i, m) ==
    LET x == 256 * (m.reg["A"] % 16) + Peek(m.mem, reg(m, "HL"))
    IN  Outcome(Cycle(m, "MemRead"), IF i.name = "RLD" THEN 16 * x ELSE x \div 16,
                Logical \cup {"HalfCarryReset", "SubtractReset"})

TestBit(m, x, y) ==
    LET set == x \in BitsOf(y)
    IN  Outcome(m, 0, {"F5", "HalfCarrySet", "F3", "SubtractReset"}
                      \cup Choice(set, "ZeroReset", "ZeroSet")
                      \cup Choice(set, "OverflowReset", "OverflowSet")
                      \cup IF set /\ x = 7 THEN {"SignSet"} ELSE {})

\* RES and SET write to the source themselves; what they write is a byte.
WriteBit(i, m, x, y) ==
    LET bits  == IF i.name = "RES" THEN BitsOf(y) \ {x} ELSE BitsOf(y) \cup {x}
        value == Word(bits) % 256
    IN  Quiet(IF i.addr_source THEN write_memory(m, Value(i, i.source, m), value)
                               ELSE Set(m, i.source, value))
-----------------------------------------------------------------------------
(* Jumps, calls and the stack.                                             *)

Take(i, m) ==
    LET on(n) == n \in flags(m)
    IN  CASE i.condition = "NZ" -> ~on("Zero")     [] i.condition = "Z"  -> on("Zero")
          [] i.condition = "NC" -> ~on("Carry")    [] i.condition = "C"  -> on("Carry")
          [] i.condition = "PO" -> ~on("Overflow") [] i.condition = "PE" -> on("Overflow")
          [] i.condition = "P"  -> ~on("Sign")     [] i.condition = "M"  -> on("Sign")
          [] OTHER              -> TRUE

JumpTo(i, m) == Quiet(IF Take(i, m) THEN Goto(m, Value(i, i.dest, m)) ELSE m)

Call(i, m) ==
    Quiet(IF Take(i, m) THEN Goto(Push(m, m.reg["PC"]), Value(i, i.dest, m)) ELSE m)

Restart(i, m) == Quiet(Goto(Push(m, m.reg["PC"]), imm(i)))

Return(m)         == Goto(Drop(m), Top(m))
ReturnIf(i, m)    == Quiet(IF Take(i, m) THEN Return(m) ELSE m)
ReturnFromNmi(m)  == Quiet([Return(m) EXCEPT !.iff1 = m.iff2])

\* JR looks at no condition.
Relative(i, m) == Goto(m, m.reg["PC"] + Signed(i.displacement))

DecrementJump(i, m) ==
    LET b == (m.reg["B"] - 1) % 256
        counted == Set(m, "B", b)
    IN  Quiet(IF b # 0 THEN Relative(i, counted) ELSE counted)

Pop(m) == Outcome(Drop(m), Top(m), {})

-----------------------------------------------------------------------------
(* Loads and exchanges.                                                    *)

Load(i, m, y) ==
    Outcome(m, y, IF i.dest = "A" /\ i.source \in {"I", "R"}
                  THEN Logical \cup {"HalfCarryReset", "SubtractReset"}
                       \cup Choice(m.iff2, "OverflowSet", "OverflowReset")
                  ELSE {})

Exchange(i, m, x, y) == Outcome(Set(m, i.source, x), y, {})

ExchangeAll(m) ==
    LET swap(f, p, q) == set_value(set_value(f, p, get_value(f, q)), q, get_value(f, p))
    IN  Quiet([m EXCEPT !.reg = swap(swap(swap(@, "BC", "BCalt"), "DE", "DEalt"), "HL", "HLalt")])

-----------------------------------------------------------------------------
(* Block instructions: one transfer, and back to the instruction if there  *)
(* is more.                                                                *)

Up(i) == i.name \in {"CPI", "CPIR", "LDI", "LDIR", "INI", "INIR", "OUTI", "OTIR"}
Repeats(i) == i.name \in {"CPIR", "CPDR", "LDIR", "LDDR", "INIR", "INDR", "OTIR", "OTDR"}

\* On the register file f.
Moved(i, f, name) == set_value(f, name, get_value(f, name) + IF Up(i) THEN 1 ELSE -1)
Counted(f, name)  == set_value(f, name, get_value(f, name) - 1)

Again(i, m, more) == IF Repeats(i) /\ more THEN Goto(m, m.reg["PC"] - 2) ELSE m

Search(i, m) ==
    LET a    == m.reg["A"]
        val  == Peek(m.mem, reg(m, "HL"))
        res  == (a - val) % 256
        done == [Cycle(m, "MemRead") EXCEPT !.reg = Counted(Moved(i, @, "HL"), "BC")]
        left == reg(m, "BC") # 1
    IN  Outcome(Again(i, done, res # 0 /\ left), 0,
                {"SubtractSet"}
                \cup Choice(res > 127, "SignSet", "SignReset")
                \cup Choice(res = 0, "ZeroSet", "ZeroReset")
                \cup Choice(4 \in BitsOf(a) \cap BitsOf(val), "HalfCarrySet", "HalfCarryReset")
                \cup Choice(left, "OverflowSet", "OverflowReset"))

\* Fault: the target stays where it is.
CopyRegisters_KeepsTarget(i, f) == Counted(Moved(i, f, "HL"), "BC")
CopyRegisters(i, f) == Counted(Moved(i, Moved(i, f, "DE"), "HL"), "BC")

Copy(i, m) ==
    LET copied == write_memory(Cycle(m, "MemRead"), reg(m, "DE"), Peek(m.mem, reg(m, "HL")))
        done   == [copied EXCEPT !.reg = CopyRegisters(i, @)]
        left   == reg(m, "BC") # 1
    IN  Outcome(Again(i, done, left), 0,
                {"HalfCarryReset", "SubtractReset"}
                \cup Choice(left /\ ~Repeats(i), "OverflowSet", "OverflowReset"))

\* One more byte went through the port; B counts and HL moves on.
Transferred(i, m) ==
    LET done == [m EXCEPT !.reg = Moved(i, Counted(@, "B"), "HL")]
        left == m.reg["B"] # 1
    IN  Outcome(Again(i, done, left), 0,
                {"Sign", "F5", "F3", "SubtractSet"}
                \cup Choice(Repeats(i) \/ ~left, "ZeroSet", "ZeroReset"))

\* The port is read before B changes: its high half counts down with B.
\* Fault: it is read after B changes.
Input_CountsFirst(i, m, junk) ==
    LET val == read_io(m, m.reg["C"], (m.reg["B"] - 1) % 256, junk)
    IN  Transferred(i, write_memory(AfterRead(m, m.reg["C"]), reg(m, "HL"), val))

Input(i, m, junk) ==
    LET val == read_io(m, m.reg["C"], m.reg["B"], junk)
    IN  Transferred(i, write_memory(AfterRead(m, m.reg["C"]), reg(m, "HL"), val))

Output(i, m) ==
    Transferred(i, write_io(Cycle(m, "MemRead"), m.reg["C"], Peek(m.mem, reg(m, "HL"))))

-----------------------------------------------------------------------------
(* Ports and control.                                                      *)

In(i, m, junk) ==
    LET direct == i.source = "Immediate"
        low    == IF direct THEN i.imm_low ELSE m.reg["C"]
        high   == IF direct THEN m.reg["A"] ELSE m.reg["B"]
    IN  Outcome(AfterRead(m, low), read_io(m, low, high, junk),
                Logical \cup {"HalfCarryReset", "SubtractReset"})

Out(i, m, y) ==
    Quiet(write_io(m, IF i.dest = "Immediate" THEN i.imm_low ELSE m.reg["C"], y % 256))

Enable(m, on) == Quiet([m EXCEPT !.iff1 = on, !.iff2 = on])

InterruptMode(i, m) ==
    Quiet([m EXCEPT !.mode = CASE imm(i) = 0 -> 0 [] imm(i) = 2 -> 1 [] imm(i) = 3 -> 2
                               [] OTHER -> @])

-----------------------------------------------------------------------------
(* The switch.                                                             *)

Case(i, m, x, y, junk) ==
    CASE i.name \in {"ADD", "ADC"}                 -> Add(i, m, x, y)
      [] i.name \in {"SUB", "SBC"}                 -> Subtract(i, m, x, y)
      [] i.name = "NEG"                            -> Negate(m, x)
      [] i.name = "INC"                            -> Increment(m, x)
      [] i.name = "DEC"                            -> Decrement(m, x)
      [] i.name = "CP"                             -> Compare(m, y)
      [] i.name = "AND"                            -> And(m, x, y)
      [] i.name = "OR"                             -> Or(m, x, y)
      [] i.name = "XOR"                            -> Xor(m, x, y)
      [] i.name = "CPL"                            -> Complement(m, x)
      [] i.name = "DAA"                            -> DecimalAdjust(m, x)
      [] i.name = "CCF"                            -> ComplementCarry(m)
      [] i.name = "SCF"                            -> SetCarry(m)
      [] i.name \in {"RL", "RLA", "RLC", "RLCA", "SLA", "SLL"} -> ShiftLeft(i, m, x)
      [] i.name \in {"RR", "RRA", "RRC", "RRCA", "SRA", "SRL"} -> ShiftRight(i, m, x)
      [] i.name \in {"RLD", "RRD"}                 -> RotateDigit(i, m)
      [] i.name = "BIT"                            -> TestBit(m, x, y)
      [] i.name \in {"RES", "SET"}                 -> WriteBit(i, m, x, y)
      [] i.name = "JP"                             -> JumpTo(i, m)
      [] i.name = "JR"                             -> Quiet(Relative(i, m))
      [] i.name = "DJNZ"                           -> DecrementJump(i, m)
      [] i.name = "CALL"                           -> Call(i, m)
      [] i.name = "RST"                            -> Restart(i, m)
      [] i.name = "RET"                            -> ReturnIf(i, m)
      [] i.name = "RETI"                           -> Quiet(Return(m))
      [] i.name = "RETN"                           -> ReturnFromNmi(m)
      [] i.name = "PUSH"                           -> Quiet(Push(m, y % 65536))
      [] i.name = "POP"                            -> Pop(m)
      [] i.name = "LD"                             -> Load(i, m, y)
      [] i.name = "EX"                             -> Exchange(i, m, x, y)
      [] i.name = "EXX"                            -> ExchangeAll(m)
      [] i.name \in {"CPI", "CPIR", "CPD", "CPDR"} -> Search(i, m)
      [] i.name \in {"LDI", "LDIR", "LDD", "LDDR"} -> Copy(i, m)
      [] i.name \in {"INI", "INIR", "IND", "INDR"} -> Input(i, m, junk)
      [] i.name \in {"OUTI", "OTIR", "OUTD", "OTDR"} -> Output(i, m)
      [] i.name = "IN"                             -> In(i, m, junk)
      [] i.name = "OUT"                            -> Out(i, m, y)
      [] i.name \in {"EI", "DI"}                   -> Enable(m, i.name = "EI")
      [] i.name = "IM"                             -> InterruptMode(i, m)
      [] i.name = "HALT"                           -> Quiet([m EXCEPT !.halt = TRUE])
      [] OTHER                                     -> Quiet(m)

-----------------------------------------------------------------------------
(* The end of execute_instruction: flags, and the result.                  *)

SetName   == [Sign |-> "SignSet", Zero |-> "ZeroSet", F5 |-> "None", HalfCarry |-> "HalfCarrySet",
              F3 |-> "None", Overflow |-> "OverflowSet", Subtract |-> "SubtractSet",
              Carry |-> "CarrySet"]
ResetName == [Sign |-> "SignReset", Zero |-> "ZeroReset", F5 |-> "None",
              HalfCarry |-> "HalfCarryReset", F3 |-> "None", Overflow |-> "OverflowReset",
              Subtract |-> "SubtractReset", Carry |-> "CarryReset"]

\* Fault: one pair is enough to make a result one of 16 bits.
Wide_OneIsEnough(i) == is_16bit(i.dest) \/ is_16bit(i.source)

\* The flags look at 16 bits of the result, or at 8.
Wide(i) == is_16bit(i.dest) /\ is_16bit(i.source)

\* Overflow is tested like Carry; Zero looks at all of the result.
Computed(n, i, x, y, r) ==
    LET outside == r \notin (IF Wide(i) THEN UInt16 ELSE UInt8)
    IN  CASE n = "Sign"                -> (IF Wide(i) THEN 15 ELSE 7) \in BitsOf(r)
          [] n = "Zero"                -> r = 0
          [] n = "F5"                  -> 5 \in BitsOf(r)
          [] n = "F3"                  -> 3 \in BitsOf(r)
          [] n = "HalfCarry"           -> 3 \in BitsOf(x) \cap BitsOf(y)
          [] n \in {"Overflow", "Carry"} -> outside
          [] OTHER                     -> FALSE

EvenParity(r) == Cardinality(BitsOf(r) \cap 0..7) % 2 = 0

\* The flags that are set afterwards: one that is not named is not.
FlagsAfter(i, x, y, o) ==
    {n \in Flag :
        /\ \/ n \in o.named /\ Computed(n, i, x, y, o.result)
           \/ n = "Overflow" /\ "Parity" \in o.named /\ EvenParity(o.result)
           \/ SetName[n] \in o.named
        /\ ResetName[n] \notin o.named}

\* is_io: the instruction has no result to store.
is_io(i) == i.name \in {"INI", "INIR", "IND", "INDR", "OUTI", "OTIR", "OUTD", "OTDR", "OUT"}

\* An address is where its register pointed before the instruction, without
\* the displacement; what is written is one byte.
Store(i, m, address, result) ==
    IF is_io(i) THEN m
    ELSE IF i.addr_dest THEN write_memory(m, address, result % 256)
    ELSE Set(m, i.dest, result)

\* What the case of i may do: one outcome for each value of an undefined byte.
Outcomes(i, m, x, y) ==
    {Case(i, n, x, y, junk) : n \in {OperandReads(i, m)}, junk \in Undefined}

\* The states i may leave m in.
execute_instruction(i, m) ==
    LET x == Operand(i, i.dest, i.addr_dest, m)
        y == Operand(i, i.source, i.addr_source, m)
    IN  {Store(i, Set(o.m, "F", FlagByte(FlagsAfter(i, x, y, o))), Value(i, i.dest, m), o.result) :
            o \in Outcomes(i, m, x, y)}
==============================================================================

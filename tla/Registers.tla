------------------------------- MODULE Registers -------------------------------
(***************************************************************************)
(* struct RegisterFile (include/registers.h, source/registers.cpp): the    *)
(* registers by name.  A pair is a union over its two halves, little       *)
(* endian, so that only the halves are stored here.                        *)
(***************************************************************************)
EXTENDS Integers

UINT16_MAX == 65535
UInt8  == 0..255
UInt16 == 0..UINT16_MAX

\* A 16-bit word as the set of its one bits; of a negative number, and of a
\* longer one, the low 16 bits.
BitsOf(w) == {i \in 0..15 : (w \div 2^i) % 2 = 1}

Word(bits) ==
    LET bit(i, weight) == IF i \in bits THEN weight ELSE 0
    IN  bit(0, 1) + bit(1, 2) + bit(2, 4) + bit(3, 8)
        + bit(4, 16) + bit(5, 32) + bit(6, 64) + bit(7, 128)
        + bit(8, 256) + bit(9, 512) + bit(10, 1024) + bit(11, 2048)
        + bit(12, 4096) + bit(13, 8192) + bit(14, 16384) + bit(15, 32768)

-----------------------------------------------------------------------------
(* The file.                                                               *)

ByteRegister == {"A", "B", "C", "D", "E", "F", "H", "L",
                 "Aalt", "Balt", "Calt", "Dalt", "Ealt", "Falt", "Halt", "Lalt",
                 "IXH", "IXL", "IYH", "IYL", "I", "R"}
WordRegister == {"SP", "PC"}

\* The pairs, as their high and low halves.
Halves == [AF |-> <<"A", "F">>, BC |-> <<"B", "C">>, DE |-> <<"D", "E">>, HL |-> <<"H", "L">>,
           AFalt |-> <<"Aalt", "Falt">>, BCalt |-> <<"Balt", "Calt">>,
           DEalt |-> <<"Dalt", "Ealt">>, HLalt |-> <<"Halt", "Lalt">>,
           IX |-> <<"IXH", "IXL">>, IY |-> <<"IYH", "IYL">>]
Pair == {"AF", "BC", "DE", "HL", "AFalt", "BCalt", "DEalt", "HLalt", "IX", "IY"}

\* RegisterFile::Names; PC has no name an instruction could use.
Names == ByteRegister \cup Pair \cup {"SP", "Immediate", "None"}

RegisterFile ==
    {f \in [ByteRegister \cup WordRegister -> UInt16] :
        \A n \in ByteRegister : f[n] \in UInt8}

is_16bit(name) == name \in Pair \cup {"SP"}

\* A name that stands for no register has no value, which its users take
\* for 0.
get_value(f, name) ==
    CASE name \in Pair                       -> 256 * f[Halves[name][1]] + f[Halves[name][2]]
      [] name \in ByteRegister \cup {"SP"}   -> f[name]
      [] OTHER                               -> 0

\* Fault: an 8-bit register takes more than a byte.
set_value_Unmasked(f, name, value) ==
    CASE name \in Pair         -> [f EXCEPT ![Halves[name][1]] = (value \div 256) % 256,
                                            ![Halves[name][2]] = value % 256]
      [] name \in ByteRegister \cup {"SP"} -> [f EXCEPT ![name] = value % 65536]
      [] OTHER                 -> f

set_value(f, name, value) ==
    CASE name \in Pair         -> [f EXCEPT ![Halves[name][1]] = (value \div 256) % 256,
                                            ![Halves[name][2]] = value % 256]
      [] name \in ByteRegister -> [f EXCEPT ![name] = value % 256]
      [] name = "SP"           -> [f EXCEPT ![name] = value % 65536]
      [] OTHER                 -> f

-----------------------------------------------------------------------------
(* Flags.                                                                  *)

\* FlagBits, as powers of two; Parity has the bit of Overflow.
FlagBits == [Sign |-> 128, Zero |-> 64, F5 |-> 32, HalfCarry |-> 16, F3 |-> 8,
             Overflow |-> 4, Subtract |-> 2, Carry |-> 1]
Flag == {"Sign", "Zero", "F5", "HalfCarry", "F3", "Overflow", "Subtract", "Carry"}

\* The flags that are set in F.
parse_flags(F) == {n \in Flag : (F \div FlagBits[n]) % 2 = 1}

\* F with exactly these flags set.
FlagByte(flags) ==
    LET bit(n) == IF n \in flags THEN FlagBits[n] ELSE 0
    IN  bit("Sign") + bit("Zero") + bit("F5") + bit("HalfCarry")
        + bit("F3") + bit("Overflow") + bit("Subtract") + bit("Carry")
==============================================================================

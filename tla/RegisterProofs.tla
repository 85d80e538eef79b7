---------------------------- MODULE RegisterProofs ----------------------------
(***************************************************************************)
(* Module Registers for every value: the widths of the registers, and F    *)
(* as a set of flags.                                                      *)
(***************************************************************************)
EXTENDS Registers, TLAPS

LEMMA Bytes == \A x : x \in UInt8 <=> x \in Int /\ 0 <= x /\ x < 256
BY DEF UInt8

LEMMA Words == \A x : x \in UInt16 <=> x \in Int /\ 0 <= x /\ x < 65536
<1>1. UINT16_MAX \in Int
      BY DEF UINT16_MAX
<1>2. \A x : x \in UInt16 <=> x \in Int /\ 0 <= x /\ x <= UINT16_MAX
      BY <1>1 DEF UInt16
<1>3. \A x \in Int : x <= UINT16_MAX <=> x < 65536
      BY DEF UINT16_MAX
<1> QED BY <1>2, <1>3

LEMMA ByteIsWord == UInt8 \subseteq UInt16
BY Bytes, Words

LEMMA LowByte == \A x \in Int : x % 256 \in UInt8
BY Bytes

LEMMA LowWord == \A x \in Int : x % 65536 \in UInt16
BY Words

LEMMA WordType == ASSUME NEW bits PROVE Word(bits) \in UInt16
<1> DEFINE bit(i, weight) == IF i \in bits THEN weight ELSE 0
<1> DEFINE low == bit(0, 1) + bit(1, 2) + bit(2, 4) + bit(3, 8)
           mid == bit(4, 16) + bit(5, 32) + bit(6, 64) + bit(7, 128)
           top == bit(8, 256) + bit(9, 512) + bit(10, 1024) + bit(11, 2048)
           end == bit(12, 4096) + bit(13, 8192) + bit(14, 16384) + bit(15, 32768)
<1>1. low \in Int /\ 0 <= low /\ low <= 15
      OBVIOUS
<1>2. mid \in Int /\ 0 <= mid /\ mid <= 240
      OBVIOUS
<1>3. top \in Int /\ 0 <= top /\ top <= 3840
      OBVIOUS
<1>4. end \in Int /\ 0 <= end /\ end <= 61440
      OBVIOUS
<1>5. Word(bits) = low + mid + top + end
      BY <1>1, <1>2, <1>3, <1>4 DEF Word
<1> QED BY <1>1, <1>2, <1>3, <1>4, <1>5, Words

LEMMA Apart ==
    /\ Pair \cap ByteRegister = {}
    /\ "SP" \notin Pair \cup ByteRegister
    /\ "PC" \notin Pair \cup ByteRegister
BY DEF Pair, ByteRegister

LEMMA HalvesType ==
    ASSUME NEW p \in Pair
    PROVE  /\ Halves[p][1] \in ByteRegister /\ Halves[p][2] \in ByteRegister
           /\ Halves[p][1] # Halves[p][2]
BY DEF Pair, Halves, ByteRegister

LEMMA FileType ==
    ASSUME NEW f \in RegisterFile
    PROVE  /\ f \in [ByteRegister \cup WordRegister -> UInt16]
           /\ \A n \in ByteRegister : f[n] \in UInt8
           /\ f["SP"] \in UInt16 /\ f["PC"] \in UInt16
BY DEF RegisterFile, WordRegister

LEMMA GetType ==
    ASSUME NEW f \in RegisterFile, NEW name
    PROVE  get_value(f, name) \in UInt16
<1>1. CASE name \in Pair
  <2>1. f[Halves[name][1]] \in UInt8 /\ f[Halves[name][2]] \in UInt8
        BY <1>1, HalvesType, FileType
  <2>2. get_value(f, name) = 256 * f[Halves[name][1]] + f[Halves[name][2]]
        BY <1>1, Apart DEF get_value
  <2> QED BY <2>1, <2>2, Bytes, Words
<1>2. CASE name \notin Pair
      BY <1>2, FileType, ByteIsWord, Words DEF get_value
<1> QED BY <1>1, <1>2

LEMMA SetType ==
    ASSUME NEW f \in RegisterFile, NEW name, NEW value \in Int
    PROVE  set_value(f, name, value) \in RegisterFile
<1>1. \A n \in ByteRegister, b \in UInt8 : [f EXCEPT ![n] = b] \in RegisterFile
      BY FileType, ByteIsWord DEF RegisterFile
<1>2. CASE name \in Pair
  <2> DEFINE g == [f EXCEPT ![Halves[name][1]] = (value \div 256) % 256]
  <2>1. g \in RegisterFile
        BY <1>1, <1>2, HalvesType, LowByte
  <2>2. \A n \in ByteRegister, b \in UInt8 : [g EXCEPT ![n] = b] \in RegisterFile
        BY <2>1, FileType, ByteIsWord DEF RegisterFile
  <2>3. set_value(f, name, value) = [g EXCEPT ![Halves[name][2]] = value % 256]
        BY <1>2, Apart DEF set_value
  <2>4. Halves[name][2] \in ByteRegister /\ value % 256 \in UInt8
        BY <1>2, HalvesType, LowByte
  <2> HIDE DEF g
  <2> QED BY ZenonT(40), <2>2, <2>3, <2>4
<1>3. CASE name \notin Pair /\ name \in ByteRegister
  <2>1. set_value(f, name, value) = [f EXCEPT ![name] = value % 256]
        BY <1>3, Apart DEF set_value
  <2> QED BY ZenonT(40), <1>1, <1>3, <2>1, LowByte
<1>4. CASE name = "SP"
  <2>1. name \notin Pair /\ name \notin ByteRegister /\ name \in WordRegister
        BY <1>4 DEF Pair, ByteRegister, WordRegister
  <2>2. set_value(f, name, value) = [f EXCEPT ![name] = value % 65536]
        BY <1>4, <2>1 DEF set_value
  <2> QED BY <2>1, <2>2, LowWord, FileType DEF RegisterFile
<1>5. CASE name \notin Pair /\ name \notin ByteRegister /\ name # "SP"
      BY <1>5 DEF set_value
<1> QED BY <1>2, <1>3, <1>4, <1>5

LEMMA PcType ==
    ASSUME NEW f \in RegisterFile, NEW a \in UInt16
    PROVE  [f EXCEPT !["PC"] = a] \in RegisterFile
<1>1. "PC" \in WordRegister /\ "PC" \notin ByteRegister
      BY DEF WordRegister, ByteRegister
<1> QED BY <1>1, FileType DEF RegisterFile

LEMMA FlagByteType == ASSUME NEW S PROVE FlagByte(S) \in UInt8
BY Bytes DEF FlagByte, FlagBits

\* The names that stand for storage, and the bytes or words it is made of.
Register    == ByteRegister \cup Pair \cup {"SP"}
Parts(name) == IF name \in Pair THEN {Halves[name][1], Halves[name][2]} ELSE {name}

\* get_value returns what set_value was given, cut to the register's width,
\* whichever way the register is named (registers.cpp).
THEOREM ReadBack ==
    ASSUME NEW f \in RegisterFile, NEW name \in Register, NEW value \in Int
    PROVE  get_value(set_value(f, name, value), name)
             = value % (IF is_16bit(name) THEN 65536 ELSE 256)
<1> DEFINE low  == value % 256
           high == (value \div 256) % 256
           g    == set_value(f, name, value)
<1>1. f \in [ByteRegister \cup WordRegister -> UInt16]
      BY FileType
<1>2. CASE name \in Pair
  <2>1. g = [f EXCEPT ![Halves[name][1]] = high, ![Halves[name][2]] = low]
        BY <1>2, Apart DEF set_value
  <2>2. g[Halves[name][1]] = high /\ g[Halves[name][2]] = low
        BY <1>1, <1>2, <2>1, HalvesType
  <2>3. get_value(g, name) = 256 * high + low
        BY <1>2, <2>2, Apart DEF get_value
  <2>4. 256 * high + low = value % 65536
        OBVIOUS
  <2> QED BY <1>2, <2>3, <2>4 DEF is_16bit
<1>3. CASE name \in ByteRegister
  <2>1. g = [f EXCEPT ![name] = low]
        BY <1>3, Apart DEF set_value
  <2>2. get_value(g, name) = g[name]
        BY <1>3, Apart DEF get_value
  <2>3. ~is_16bit(name)
        BY <1>3, Apart DEF is_16bit
  <2> QED BY <1>1, <1>3, <2>1, <2>2, <2>3
<1>4. CASE name = "SP"
  <2>1. name \notin Pair /\ name \notin ByteRegister /\ name \in WordRegister
        BY <1>4, Apart DEF WordRegister
  <2>2. g = [f EXCEPT ![name] = value % 65536]
        BY <1>4, <2>1 DEF set_value
  <2>3. get_value(g, name) = g[name]
        BY <1>4, <2>1 DEF get_value
  <2> QED BY <1>1, <1>4, <2>1, <2>2, <2>3 DEF is_16bit
<1> QED BY <1>2, <1>3, <1>4 DEF Register

\* Writing a register changes no other, unless one is half of the other.
THEOREM OthersKept ==
    ASSUME NEW f \in RegisterFile, NEW name, NEW value \in Int,
           NEW other \in Register, Parts(name) \cap Parts(other) = {}
    PROVE  get_value(set_value(f, name, value), other) = get_value(f, other)
<1> DEFINE g == set_value(f, name, value)
<1>1. f \in [ByteRegister \cup WordRegister -> UInt16]
      BY FileType
<1>2. \A n \in Parts(other) : g[n] = f[n]
  <2> SUFFICES ASSUME NEW n \in Parts(other), n \notin Parts(name) PROVE g[n] = f[n]
      OBVIOUS
  <2>0. n \in DOMAIN f
        BY <1>1, HalvesType DEF Parts, Register, WordRegister
  <2>1. CASE name \in Pair
    <3>1. g = [f EXCEPT ![Halves[name][1]] = (value \div 256) % 256,
                        ![Halves[name][2]] = value % 256]
          BY <2>1, Apart DEF set_value
    <3>2. n # Halves[name][1] /\ n # Halves[name][2]
          BY <2>1 DEF Parts
    <3> QED BY <2>0, <3>1, <3>2
  <2>2. CASE name \in ByteRegister
    <3>1. g = [f EXCEPT ![name] = value % 256]
          BY <2>2, Apart DEF set_value
    <3> QED BY <2>0, <2>2, <3>1, Apart DEF Parts
  <2>3. CASE name = "SP"
    <3>1. g = [f EXCEPT ![name] = value % 65536]
          BY <2>3, Apart DEF set_value
    <3> QED BY <2>0, <2>3, <3>1, Apart DEF Parts
  <2>4. CASE name \notin Register
        BY <2>4 DEF Register, set_value
  <2> QED BY <2>1, <2>2, <2>3, <2>4 DEF Register
<1>3. CASE other \in Pair
      BY <1>2, <1>3, Apart DEF get_value, Parts
<1>4. CASE other \notin Pair
      BY <1>2, <1>4 DEF get_value, Parts, Register
<1> QED BY <1>3, <1>4

LEMMA EightBits ==
    ASSUME NEW b7 \in {0, 1}, NEW b6 \in {0, 1}, NEW b5 \in {0, 1}, NEW b4 \in {0, 1},
           NEW b3 \in {0, 1}, NEW b2 \in {0, 1}, NEW b1 \in {0, 1}, NEW b0 \in {0, 1},
           NEW F, F = 128 * b7 + 64 * b6 + 32 * b5 + 16 * b4 + 8 * b3 + 4 * b2 + 2 * b1 + b0
    PROVE  /\ (F \div 128) % 2 = b7 /\ (F \div 64) % 2 = b6
           /\ (F \div 32) % 2 = b5 /\ (F \div 16) % 2 = b4
           /\ (F \div 8) % 2 = b3 /\ (F \div 4) % 2 = b2
           /\ (F \div 2) % 2 = b1 /\ (F \div 1) % 2 = b0
OBVIOUS

\* F holds exactly the flags that were put into it.
THEOREM FlagsRead ==
    ASSUME NEW S \in SUBSET Flag PROVE parse_flags(FlagByte(S)) = S
<1> DEFINE one(n) == IF n \in S THEN 1 ELSE 0
           F      == FlagByte(S)
<1>1. F = 128 * one("Sign") + 64 * one("Zero") + 32 * one("F5") + 16 * one("HalfCarry")
          + 8 * one("F3") + 4 * one("Overflow") + 2 * one("Subtract") + one("Carry")
      BY DEF FlagByte, FlagBits
<1>2. \A n : one(n) \in {0, 1}
      OBVIOUS
<1> HIDE DEF one, F
<1>3. \A n \in Flag : (F \div FlagBits[n]) % 2 = one(n)
  <2> DEFINE b7 == one("Sign")     b6 == one("Zero")     b5 == one("F5")
             b4 == one("HalfCarry") b3 == one("F3")       b2 == one("Overflow")
             b1 == one("Subtract") b0 == one("Carry")
  <2>0. /\ b7 \in {0, 1} /\ b6 \in {0, 1} /\ b5 \in {0, 1} /\ b4 \in {0, 1}
        /\ b3 \in {0, 1} /\ b2 \in {0, 1} /\ b1 \in {0, 1} /\ b0 \in {0, 1}
        /\ F = 128 * b7 + 64 * b6 + 32 * b5 + 16 * b4 + 8 * b3 + 4 * b2 + 2 * b1 + b0
        BY <1>1, <1>2
  <2> HIDE DEF b7, b6, b5, b4, b3, b2, b1, b0
  <2>1. /\ (F \div 128) % 2 = b7 /\ (F \div 64) % 2 = b6
        /\ (F \div 32) % 2 = b5 /\ (F \div 16) % 2 = b4
        /\ (F \div 8) % 2 = b3 /\ (F \div 4) % 2 = b2
        /\ (F \div 2) % 2 = b1 /\ (F \div 1) % 2 = b0
        BY <2>0, EightBits
  <2> QED BY <2>1 DEF Flag, FlagBits, b7, b6, b5, b4, b3, b2, b1, b0
<1> QED BY <1>3 DEF parse_flags, one, F

\* Carry is the lowest bit of F.
LEMMA CarryBit ==
    ASSUME NEW S PROVE FlagByte(S) % 2 = IF "Carry" \in S THEN 1 ELSE 0
BY DEF FlagByte, FlagBits

LEMMA CarryParsed ==
    ASSUME NEW F \in UInt8 PROVE "Carry" \in parse_flags(F) <=> F % 2 = 1
BY Bytes DEF parse_flags, Flag, FlagBits

-----------------------------------------------------------------------------
(* Words as sets of bits.                                                 *)

\* A word is the sum of the weights of its bits.
THEOREM WordOfBits == ASSUME NEW w \in UInt16 PROVE Word(BitsOf(w)) = w
<1> DEFINE one(k) == IF k \in BitsOf(w) THEN 1 ELSE 0
           low == one(0) + 2 * one(1) + 4 * one(2) + 8 * one(3)
           mid == one(4) + 2 * one(5) + 4 * one(6) + 8 * one(7)
           top == one(8) + 2 * one(9) + 4 * one(10) + 8 * one(11)
           end == one(12) + 2 * one(13) + 4 * one(14) + 8 * one(15)
<1>1. w \in Int /\ 0 <= w /\ w < 65536
      BY Words
<1>2. low \in Int /\ mid \in Int /\ top \in Int /\ end \in Int
      OBVIOUS
<1>3. \A k \in 0..15 : one(k) = (w \div 2^k) % 2
      BY <1>1 DEF BitsOf
<1>4. Word(BitsOf(w)) = low + 16 * mid + 256 * top + 4096 * end
  <2> DEFINE bit(i, weight) == IF i \in BitsOf(w) THEN weight ELSE 0
             low1 == bit(0, 1) + bit(1, 2) + bit(2, 4) + bit(3, 8)
             mid1 == bit(4, 16) + bit(5, 32) + bit(6, 64) + bit(7, 128)
             top1 == bit(8, 256) + bit(9, 512) + bit(10, 1024) + bit(11, 2048)
             end1 == bit(12, 4096) + bit(13, 8192) + bit(14, 16384) + bit(15, 32768)
  <2>1. low1 = low /\ low1 \in Int
        OBVIOUS
  <2>2. mid1 = 16 * mid /\ mid1 \in Int
        OBVIOUS
  <2>3. top1 = 256 * top /\ top1 \in Int
        OBVIOUS
  <2>4. end1 = 4096 * end /\ end1 \in Int
        OBVIOUS
  <2>5. Word(BitsOf(w)) = low1 + mid1 + top1 + end1
        BY SMTT(30), <2>1, <2>2, <2>3, <2>4 DEF Word
  <2> QED BY <2>1, <2>2, <2>3, <2>4, <2>5
<1> HIDE DEF one
<1>5. w = 16 * (w \div 16) + low
  <2> DEFINE a == w
             b == w \div 2
             c == w \div 4
             d == w \div 8
             e == w \div 16
  <2>1. /\ a \in Int /\ b \in Int /\ c \in Int /\ d \in Int /\ e \in Int
        /\ one(0) \in Int /\ one(1) \in Int /\ one(2) \in Int /\ one(3) \in Int
        BY <1>1, <1>3
  <2>2. /\ a = 2 * b + one(0) /\ b = 2 * c + one(1)
        /\ c = 2 * d + one(2) /\ d = 2 * e + one(3)
        BY SMTT(30), <1>1, <1>3
  <2> HIDE DEF a, b, c, d, e
  <2>3. a = 16 * e + one(0) + 2 * one(1) + 4 * one(2) + 8 * one(3)
        BY <2>1, <2>2
  <2> QED BY <2>1, <2>3 DEF a, e
<1>6. w \div 16 = 16 * (w \div 256) + mid
  <2> DEFINE a == w \div 16
             b == w \div 32
             c == w \div 64
             d == w \div 128
             e == w \div 256
  <2>1. /\ a \in Int /\ b \in Int /\ c \in Int /\ d \in Int /\ e \in Int
        /\ one(4) \in Int /\ one(5) \in Int /\ one(6) \in Int /\ one(7) \in Int
        BY <1>1, <1>3
  <2>2. /\ a = 2 * b + one(4) /\ b = 2 * c + one(5)
        /\ c = 2 * d + one(6) /\ d = 2 * e + one(7)
        BY SMTT(30), <1>1, <1>3
  <2> HIDE DEF a, b, c, d, e
  <2>3. a = 16 * e + one(4) + 2 * one(5) + 4 * one(6) + 8 * one(7)
        BY <2>1, <2>2
  <2> QED BY <2>1, <2>3 DEF a, e
<1>7. w \div 256 = 16 * (w \div 4096) + top
  <2> DEFINE a == w \div 256
             b == w \div 512
             c == w \div 1024
             d == w \div 2048
             e == w \div 4096
  <2>1. /\ a \in Int /\ b \in Int /\ c \in Int /\ d \in Int /\ e \in Int
        /\ one(8) \in Int /\ one(9) \in Int /\ one(10) \in Int /\ one(11) \in Int
        BY <1>1, <1>3
  <2>2. /\ a = 2 * b + one(8) /\ b = 2 * c + one(9)
        /\ c = 2 * d + one(10) /\ d = 2 * e + one(11)
        BY SMTT(30), <1>1, <1>3
  <2> HIDE DEF a, b, c, d, e
  <2>3. a = 16 * e + one(8) + 2 * one(9) + 4 * one(10) + 8 * one(11)
        BY <2>1, <2>2
  <2> QED BY <2>1, <2>3 DEF a, e
<1>8. w \div 4096 = 16 * (w \div 65536) + end
  <2> DEFINE a == w \div 4096
             b == w \div 8192
             c == w \div 16384
             d == w \div 32768
             e == w \div 65536
  <2>1. /\ a \in Int /\ b \in Int /\ c \in Int /\ d \in Int /\ e \in Int
        /\ one(12) \in Int /\ one(13) \in Int /\ one(14) \in Int /\ one(15) \in Int
        BY <1>1, <1>3
  <2>2. /\ a = 2 * b + one(12) /\ b = 2 * c + one(13)
        /\ c = 2 * d + one(14) /\ d = 2 * e + one(15)
        BY SMTT(30), <1>1, <1>3
  <2> HIDE DEF a, b, c, d, e
  <2>3. a = 16 * e + one(12) + 2 * one(13) + 4 * one(14) + 8 * one(15)
        BY <2>1, <2>2
  <2> QED BY <2>1, <2>3 DEF a, e
<1>9. w \div 65536 = 0
      BY <1>1
<1> HIDE DEF low, mid, top, end
<1> QED BY <1>1, <1>2, <1>4, <1>5, <1>6, <1>7, <1>8, <1>9

\* A bit that is not set adds its weight.
LEMMA BitAdded ==
    ASSUME NEW bits, 7 \notin bits PROVE Word(bits \cup {7}) = Word(bits) + 128
BY DEF Word
================================================================================

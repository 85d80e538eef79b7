-------------------------- MODULE InstructionStream --------------------------
(***************************************************************************)
(* The decoder as a partition of the byte stream: the bytes since the last *)
(* instruction are kept as they came, and an instruction is a function of  *)
(* the whole sequence once it is complete.  Nothing is remembered of one   *)
(* instruction while the next is read, except that 0xDD 0xCB or 0xFD 0xCB  *)
(* ends the meaning of prefixes for good.                                  *)
(***************************************************************************)
EXTENDS Opcodes

VARIABLES
    byte,           \* the byte read last
    pending,        \* bytes of the instruction being read
    prefixes,       \* prefix bytes still mean something
    decoded         \* the instruction the last byte completed

nullopt == [name |-> "nullopt"]

IndexPrefix == {221, 253}

\* Bytes before the opcode of s.
Header(s) ==
    IF s[1] \in IndexPrefix /\ Len(s) > 2 /\ s[2] = 203 THEN 2
    ELSE IF prefixes /\ s[1] \in IndexPrefix \cup {203, 237} THEN 1 ELSE 0

EndsPrefixes(s) == prefixes /\ Len(s) = 2 /\ s[1] \in IndexPrefix /\ s[2] = 203
Swallowed(s)    == prefixes /\ Len(s) = 2 /\ s[1] \in IndexPrefix
                            /\ s[2] \in IndexPrefix \cup {237}

OpcodeDetails(s) ==
    LET opcode == s[Header(s) + 1]
    IN  CASE Header(s) = 1 /\ s[1] = 203 -> CBPrefix(opcode)
          [] Header(s) = 1 /\ s[1] = 237 -> EDPrefix(opcode)
          [] OTHER                       -> NoPrefix(opcode)

HasOpcode(s) == Len(s) > Header(s) /\ ~EndsPrefixes(s) /\ ~Swallowed(s)
Complete(s)  == HasOpcode(s) /\ Len(s) = Header(s) + 1 + Operands(OpcodeDetails(s))

\* The displacement comes first, then the low and the high byte.
WithOperands(i, d, bytes) ==
    CASE d.needs_displacement    -> [i EXCEPT !.displacement = bytes[1]]
      [] d.immediate_bytes = 1   -> [i EXCEPT !.imm_low = bytes[1]]
      [] d.immediate_bytes = 2   -> [i EXCEPT !.imm_low = bytes[1], !.imm_high = bytes[2]]
      [] OTHER                   -> i

Meaning(s) ==
    LET h == Header(s)
        d == OpcodeDetails(s)
        i == WithOperands(Instruction(d), d, SubSeq(s, h + 2, Len(s)))
    IN  IF h = 1 /\ s[1] \in IndexPrefix /\ Operands(d) > 0
           THEN Substitute(i, s[1]) ELSE i

Init == byte \in Byte /\ pending = <<>> /\ prefixes = TRUE /\ decoded = nullopt

Read(s) ==
    \/ /\ Swallowed(s)
       /\ decoded' = [NoInstruction EXCEPT !.name = "NONI"]
       /\ pending' = <<s[1]>>
       /\ UNCHANGED prefixes
    \/ /\ Complete(s)
       /\ decoded' = Meaning(s)
       /\ pending' = <<>>
       /\ UNCHANGED prefixes
    \/ /\ ~Swallowed(s) /\ ~Complete(s)
       /\ decoded' = nullopt
       /\ pending' = s
       /\ prefixes' = (prefixes /\ ~EndsPrefixes(s))

Next == \E b \in Byte : byte' = b /\ Read(Append(pending, b))

Spec == Init /\ [][Next]_<<byte, pending, prefixes, decoded>>
=============================================================================

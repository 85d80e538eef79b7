------------------------------- MODULE Decoder -------------------------------
(***************************************************************************)
(* class Decoder (source/decoder.cpp): fed one byte at a time, it keeps a  *)
(* prefix and the instruction it is collecting operand bytes for between   *)
(* two calls of decode().  It is never reset: what one instruction leaves  *)
(* behind, the next one meets.                                             *)
(*                                                                         *)
(* decode_alt_prefix and the branch of decode for alt_op belong to the     *)
(* prefixes 0xDDCB and 0xFDCB, which decode_DDFD never stores; they have   *)
(* no action here, and PrefixType says why.                                *)
(***************************************************************************)
EXTENDS Opcodes

CONSTANT Operand        \* bytes that follow an opcode as its operands

ASSUME OperandAssumption == Operand \subseteq Byte

VARIABLES
    prefix,                 \* 0, the last prefix byte, or 1 (see decode_DDFD)
    needs_displacement, immediate_bytes, needs_high_imm,
    instruction_progress,
    current_instruction     \* what the last call of decode returned

owed == <<needs_displacement, immediate_bytes, needs_high_imm>>
vars == <<prefix, owed, instruction_progress, current_instruction>>

nullopt == [name |-> "nullopt"]

PrefixByte == {203, 221, 237, 253}      \* 0xCB, 0xDD, 0xED, 0xFD

-----------------------------------------------------------------------------
(* What every call ends with.                                              *)

Return(i) == current_instruction' = i

\* An instruction that owned operand bytes is returned and forgotten.
\* Fault: it is kept.
Finish_Keeps(i) == Return(i) /\ UNCHANGED instruction_progress
Finish(i) == Return(i) /\ instruction_progress' = NoInstruction

Wait == current_instruction' = nullopt

\* The details d of an opcode: operand bytes are awaited or i is complete.
Begin(d, i, displaced) ==
    /\ needs_displacement' = displaced
    /\ immediate_bytes' = d.immediate_bytes
    /\ UNCHANGED needs_high_imm
    /\ IF displaced \/ d.immediate_bytes > 0
          THEN instruction_progress' = i /\ Wait
          ELSE Return(i) /\ UNCHANGED instruction_progress

-----------------------------------------------------------------------------
(* Operand bytes.                                                          *)

Displacement(b) ==
    /\ needs_displacement
    /\ needs_displacement' = FALSE
    /\ LET i == [instruction_progress EXCEPT !.displacement = b]
       IN  IF immediate_bytes = 0 THEN Finish(i) ELSE instruction_progress' = i /\ Wait
    /\ UNCHANGED <<prefix, immediate_bytes, needs_high_imm>>

LowByte(b) ==
    /\ ~needs_displacement /\ immediate_bytes = 2
    /\ immediate_bytes' = 1 /\ needs_high_imm' = TRUE
    /\ instruction_progress' = [instruction_progress EXCEPT !.imm_low = b]
    /\ Wait
    /\ UNCHANGED <<prefix, needs_displacement>>

\* Fault: the next byte operand is taken for a high byte too.
LastByte_StaysHigh(b) ==
    /\ ~needs_displacement /\ immediate_bytes = 1
    /\ immediate_bytes' = 0
    /\ Finish(IF needs_high_imm THEN [instruction_progress EXCEPT !.imm_high = b]
                                ELSE [instruction_progress EXCEPT !.imm_low = b])
    /\ UNCHANGED <<prefix, needs_displacement, needs_high_imm>>

LastByte(b) ==
    /\ ~needs_displacement /\ immediate_bytes = 1
    /\ immediate_bytes' = 0 /\ needs_high_imm' = FALSE
    /\ Finish(IF needs_high_imm THEN [instruction_progress EXCEPT !.imm_high = b]
                                ELSE [instruction_progress EXCEPT !.imm_low = b])
    /\ UNCHANGED <<prefix, needs_displacement>>

-----------------------------------------------------------------------------
(* Opcode and prefix bytes.                                                *)

AtOpcode == ~needs_displacement /\ immediate_bytes = 0

Prefix(b) ==
    /\ AtOpcode /\ prefix = 0 /\ b \in PrefixByte
    /\ prefix' = b
    /\ Wait
    /\ UNCHANGED <<owed, instruction_progress>>

\* After 0xDD 0xCB or 0xFD 0xCB prefix bytes are opcodes without a meaning.
Opcode(b) ==
    /\ AtOpcode
    /\ prefix = 1 \/ (prefix = 0 /\ b \notin PrefixByte)
    /\ LET d == NoPrefix(b) IN Begin(d, Instruction(d), d.needs_displacement)
    /\ UNCHANGED prefix

decode_CB(b) ==
    /\ AtOpcode /\ prefix = 203
    /\ prefix' = 0
    /\ Return(Instruction(CBPrefix(b)))
    /\ UNCHANGED <<owed, instruction_progress>>

\* Fault: the prefix stays.
decode_ED_KeepsPrefix(b) ==
    /\ AtOpcode /\ prefix = 237
    /\ LET d == EDPrefix(b) IN Begin(d, Instruction(d), d.needs_displacement)
    /\ UNCHANGED prefix

decode_ED(b) ==
    /\ AtOpcode /\ prefix = 237
    /\ prefix' = 0
    /\ LET d == EDPrefix(b) IN Begin(d, Instruction(d), d.needs_displacement)

\* Fault: another prefix byte is skipped without an instruction.
Swallow_Waits(b) ==
    /\ b \in PrefixByte \ {203}
    /\ Wait
    /\ UNCHANGED <<prefix, owed, instruction_progress>>

\* Another prefix byte is swallowed and this one stays.
Swallow(b) ==
    /\ b \in PrefixByte \ {203}
    /\ Return([NoInstruction EXCEPT !.name = "NONI"])
    /\ UNCHANGED <<prefix, owed, instruction_progress>>

\* The truth value of 0xCB || (prefix << 8), not the bitwise or.
\* Fault: both bytes are stored, and no branch of this module knows them.
AltPrefix_Both(p) == 203 + 256 * p
AltPrefix(p)      == 1

\* An opcode after 0xDD or 0xFD is decoded as if it had no prefix and, only
\* if it waits for operands, has its registers replaced.
decode_DDFD(b) ==
    /\ AtOpcode /\ prefix \in {221, 253}
    /\ \/ Swallow(b)
       \/ /\ b = 203
          /\ prefix' = AltPrefix(prefix)
          /\ Wait
          /\ UNCHANGED <<owed, instruction_progress>>
       \/ /\ b \notin PrefixByte
          /\ prefix' = 0
          /\ LET d == NoPrefix(b)
                 i == Instruction(d)
                 waits == Operands(d) > 0
             IN  Begin(d, IF waits THEN Substitute(i, prefix) ELSE i,
                       d.needs_displacement \/ (waits /\ Indexes(i)))

decode(b) ==
    \/ Displacement(b) \/ LowByte(b) \/ LastByte(b)
    \/ Prefix(b) \/ Opcode(b) \/ decode_CB(b) \/ decode_ED(b) \/ decode_DDFD(b)

-----------------------------------------------------------------------------
Init ==
    /\ prefix = 0
    /\ needs_displacement = FALSE /\ immediate_bytes = 0 /\ needs_high_imm = FALSE
    /\ instruction_progress = NoInstruction
    /\ current_instruction = nullopt

\* What fetch_opcode reads: any byte, and as operands those of Operand.
Fetched == IF AtOpcode THEN Byte ELSE Operand

Next == \E b \in Fetched : decode(b)

Spec == Init /\ [][Next]_vars

-----------------------------------------------------------------------------
(* Properties                                                              *)

\* 0xDDCB and 0xFDCB are not among the prefixes the decoder can be in.
PrefixType == prefix \in {0, 1} \cup PrefixByte

TypeOK ==
    /\ PrefixType
    /\ needs_displacement \in BOOLEAN /\ needs_high_imm \in BOOLEAN
    /\ immediate_bytes \in 0..2

\* An instruction leaves nothing behind but the prefix: when decode returns
\* one, no operand byte is owed and nothing of it is kept for the next.
CleanBoundary ==
    current_instruction # nullopt =>
        /\ AtOpcode /\ ~needs_high_imm
        /\ instruction_progress = NoInstruction

\* No prefix is pending while operand bytes are collected, so that the byte
\* after an operand is always the first of an instruction.
PrefixUsedUp == ~AtOpcode => prefix \in {0, 1}

-----------------------------------------------------------------------------
(* What two comments say, and the code does not do.                        *)

\* "This stops decode from returning early with garbage data" (at
\* decode_alt_prefix): the byte after 0xDD 0xCB or 0xFD 0xCB is the
\* displacement, and decode does not return an instruction for it.
AltPrefixWaits ==
    [][prefix = 1 /\ AtOpcode /\ current_instruction = nullopt
         => current_instruction' = nullopt]_vars

\* "Address in HL" (entry 6 of rTable): an arithmetic instruction whose source
\* is that entry reads memory, it does not use the pair HL itself.
AddressInHL ==
    current_instruction # nullopt
    /\ current_instruction.name \in {aluTable[n] : n \in 1..8}
    /\ current_instruction.dest = "A" /\ current_instruction.source = "HL"
    => current_instruction.addr_source
=============================================================================

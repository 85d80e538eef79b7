---------------------------- MODULE DecoderStream ----------------------------
(***************************************************************************)
(* Decoder with history variables: the bytes it has read since it last     *)
(* returned an instruction.  With them the decoder implements              *)
(* InstructionStream: its four flags and its half-built instruction carry  *)
(* exactly the information of those bytes.                                 *)
(***************************************************************************)
EXTENDS Decoder

VARIABLES byte, pending

\* The longest instruction the decoder returns, in bytes.
MaxBytes == 5

\* A prefix that outlives an instruction belongs to the next one.
Remember(b) ==
    /\ byte' = b
    /\ pending' = IF current_instruction' = nullopt THEN Append(pending, b)
                  ELSE IF prefix' \in {221, 253} THEN <<prefix'>> ELSE <<>>

StreamInit == Init /\ byte = 0 /\ pending = <<>>
StreamNext == \E b \in Fetched : decode(b) /\ Remember(b)
StreamSpec == StreamInit /\ [][StreamNext]_<<vars, byte, pending>>

IS == INSTANCE InstructionStream WITH
        prefixes <- prefix # 1,
        decoded  <- current_instruction

\* Every instruction the decoder returns is a function of the bytes since the
\* previous one, and the bytes are cut where InstructionStream cuts them.
ImplementsInstructionStream == IS!Spec

\* No instruction is longer than the bound that module Soft80 is given: the
\* longest are two prefix bytes, an opcode and an address.
LengthBound == Len(pending) < MaxBytes
=============================================================================

------------------------------ MODULE MCMachine ------------------------------
(***************************************************************************)
(* Machines for TLC: the programs of tests/ with their devices, programs   *)
(* for what those leave out, and every opcode once.                        *)
(***************************************************************************)
EXTENDS Machine, TLC

\* Bytes placed at an address.
Bytes(a, s) == [x \in a..(a + Len(s) - 1) |-> s[x - a + 1]]

Zero == [n \in ByteRegister \cup WordRegister |-> 0]

Program(file, size, text, end) ==
    [file |-> file, size |-> size, registers |-> Zero, device |-> "None",
     lines |-> <<>>, requests |-> 0, patient |-> TRUE, prompt |-> TRUE, limit |-> 0,
     text |-> text, result |-> <<>>, end |-> end]

Hello     == <<72, 101, 108, 108, 111, 44, 32, 119, 111, 114, 108, 100, 33, 10>>
Interrupt == <<73, 110, 116, 101, 114, 114, 117, 112, 116, 33, 10>>

\* The subroutines and the handlers of tests/*.s.
STRLEN   == <<62, 0, 1, 0, 0, 237, 177, 145, 214, 1, 201>>
PRINT    == <<14, 80, 237, 179, 201>>
REQ_READ == <<14, 80, 6, 255, 237, 65, 201>>
READ     == <<14, 80, 237, 64, 33, 0, 32, 237, 178, 237, 77>>
READ_NMI == <<14, 80, 237, 64, 33, 0, 32, 237, 178, 237, 69>>

\* Print the text at t, or the line that was read.
PrintText(t, strlen, print) ==
    <<33, t, 0, 205, strlen, 0, 33, t, 0, 71, 205, print, 0>>
PrintLine(strlen, print) ==
    <<33, 0, 32, 205, strlen, 0, 33, 0, 32, 71, 205, print, 0>>

HelloFile == Bytes(0, PrintText(30, 14, 25) \o <<118>> \o STRLEN \o PRINT \o Hello \o <<0>>)

Tail1(strlen) == STRLEN \o PRINT \o REQ_READ \o Hello \o <<0>>

NmiFile ==
    Bytes(0, <<49, 255, 255>> \o PrintText(136, 113, 124) \o <<205, 129, 0, 118>>
             \o PrintLine(113, 124) \o <<118>>)
    @@ Bytes(102, READ_NMI \o Tail1(113))

Int0File ==
    Bytes(0, <<49, 255, 255, 237, 70, 251>> \o PrintText(82, 59, 70) \o <<205, 75, 0, 118>>
             \o PrintLine(59, 70) \o <<118>>)
    @@ Bytes(48, READ \o Tail1(59))

Int1File ==
    Bytes(0, <<49, 255, 255, 251, 237, 86>> \o PrintText(90, 67, 78) \o <<205, 83, 0, 118>>
             \o PrintLine(67, 78) \o <<118>>)
    @@ Bytes(56, READ \o Tail1(67))

Int2File ==
    Bytes(0, <<49, 255, 255, 62, 31, 237, 71, 237, 94, 251>> \o PrintText(97, 70, 81)
             \o <<205, 86, 0, 118>> \o PrintLine(70, 81) \o <<251, 195, 93, 0>>
             \o READ \o PrintText(112, 70, 81) \o <<237, 77>>
             \o STRLEN \o PRINT \o REQ_READ \o <<118, 195, 93, 0>>
             \o Hello \o <<0>> \o Interrupt \o <<0>>)
    @@ Bytes(7936, <<44, 0, 55, 0>>)

\* A terminal whose user waits for HALT, and one whose user does not.
Terminal(d, file, size, text, end) ==
    {[Program(file, size, text, end) EXCEPT
        !.device = d, !.lines = <<<<72, 105>>>>, !.patient = p, !.prompt = FALSE] : p \in BOOLEAN}

\* Two lines in a row, with the routines of nmi_tty.s.
Twice ==
    {[Program(Bytes(0, <<49, 255, 255, 205, 129, 0, 118>> \o PrintLine(113, 124)
                       \o <<205, 129, 0, 118>> \o PrintLine(113, 124) \o <<118>>)
              @@ Bytes(102, READ_NMI \o Tail1(113)), 151, <<72, 105, 89, 111, 117>>, 38)
        EXCEPT !.device = "NMI", !.lines = <<<<72, 105>>, <<89, 111, 117>>>>,
               !.patient = p, !.prompt = p] : p \in BOOLEAN}

\* An overlapping copy, a loop, a search and two ways to print, under timers:
\* LD SP IM EI  LD A,7  LD (2000H),A  LD HL,2000H  LD DE,2001H  LD BC,4  LDIR
\* LD B,3  LD A,0  ADD A,B  DJNZ  OUT (80),A  DEC HL  LD B,3  LD C,80  OTIR
\* LD A,0  LD BC,0  LD HL,2000H  CPIR  LD A,L  OUT (80),A  HALT  JP
Work ==
    <<49, 255, 255, 237, 86, 251, 62, 7, 50, 0, 32, 33, 0, 32, 17, 1, 32, 1, 4, 0, 237, 176,
      6, 3, 62, 0, 128, 16, 253, 211, 80, 43, 6, 3, 14, 80, 237, 179,
      62, 0, 205, 60, 0, 211, 80, 118, 195, 45, 0>>
WorkFile ==
    Bytes(0, Work) @@ Bytes(56, <<251, 237, 77>>)
    @@ Bytes(60, <<33, 0, 32, 1, 0, 0, 237, 177, 125, 201>>)
    @@ Bytes(102, <<237, 69>>)

Timed(d, n) ==
    [Program(WorkFile, 104, <<6, 7, 7, 0, 6>>, 46) EXCEPT
        !.device = d, !.requests = n,
        !.result = [a \in 8192..8197 |-> IF a = 8197 THEN 0 ELSE 7]]

\* TIMER5 of timer.s with smaller counts, and an OTIR of 256 bytes.
Delay == Program(Bytes(0, <<205, 4, 0, 118, 30, 2, 6, 2, 22, 3, 21, 194, 10, 0,
                            5, 194, 8, 0, 29, 194, 6, 0, 201>>), 23, <<>>, 4)
Flood == Program(Bytes(0, <<33, 0, 32, 6, 0, 14, 80, 237, 179, 118>>), 10,
                 [k \in 1..256 |-> 0], 10)

\* One instruction, of every opcode, on registers at the edges of their range.
\* h is the upper half of HL, the pair that opcodes add to A and shift.
Edge(a, f, v, h) ==
    [n \in ByteRegister \cup WordRegister |->
        CASE n = "PC" -> 0 [] n = "SP" -> 16384 [] n = "A" -> a [] n = "F" -> f
          [] n = "H" -> h [] OTHER -> v]
Edges == {Edge(128, 255, 1, 0), Edge(255, 0, 255, 255), Edge(15, 255, 128, 128)}

Once(op, registers) ==
    [Program(Bytes(0, op \o <<128, 32>>), Len(op) + 2, <<>>, 0) EXCEPT
        !.registers = registers, !.limit = 1]

EveryOpcode ==
    {<<o>> : o \in 0..255} \cup {<<p, o>> : p \in {203, 221, 237, 253}, o \in 0..255}

MCPrograms ==
    {Program(HelloFile, 45, Hello, 14), Delay, Flood, Timed("IntTimer", 2), Timed("NmiTimer", 2)}
    \cup Terminal("NMI", NmiFile, 151, Hello \o <<72, 105>>, 34)
    \cup Terminal("INT0", Int0File, 97, Hello \o <<72, 105>>, 37)
    \cup Terminal("INT1", Int1File, 105, Hello \o <<72, 105>>, 37)
    \cup Terminal("INT2", Int2File, 7940, Hello \o <<72, 105>> \o Interrupt, 94)
    \cup Twice

MCBoot == MCPrograms \cup {Once(op, registers) : op \in EveryOpcode, registers \in Edges}
==============================================================================

------------------------------ MODULE MCRiscv ------------------------------
(***************************************************************************)
(* The two halves of a tick of the emulator for TLC: the decoder, and the  *)
(* execute functions.  They share no variable; either one starts, from     *)
(* every word or every machine of the instance, while the other rests.     *)
(*                                                                         *)
(* Decoder: every 16-bit parcel that is not the start of a longer          *)
(* instruction, and for each opcode (and one that is none) every word with *)
(* at most two ones, or at most two zeroes, above its opcode: each bit of  *)
(* each format alone, and with each other bit.  Execution: registers of    *)
(* eight bits (words of four, bytes of one), three registers, and every    *)
(* opcode, funct3 and funct7 with immediates of both signs.                *)
(***************************************************************************)
EXTENDS RiscvCpu

CONSTANTS Parcels, Followers, FullWords
VARIABLES fetched, instruction, stage, decoded
decodeVars == <<fetched, instruction, stage, decoded>>

Decode == INSTANCE RiscvDecode

MCParcels == {p \in SUBSET (0..15) : ~ ({0, 1} \subseteq p)}
MCFollowers == {{}, 16..31}
AtMostTwo == {{a, b} : a \in 7..31, b \in 7..31} \cup {{}}
\* The opcodes of the manual's table the emulator has, and one it has not (67).
Opcodes == {3, 15, 19, 23, 27, 35, 51, 55, 59, 67, 99, 103, 111, 115}
MCFullWords ==
  UNION {{o \cup t, o \cup ((7..31) \ t)} :
           o \in {{b \in 0..6 : bit(n, b) = 1} : n \in Opcodes}, t \in AtMostTwo}

I(opcode, f3, f7, rd, rs1, rs2, imm, size) ==
  [opcode |-> opcode, funct3 |-> f3, funct7 |-> f7, rd |-> rd, rs1 |-> rs1, rs2 |-> rs2,
   imm |-> imm, size |-> size]

Arithmetic ==
  {I(o, f3, f7, rd, 1, 2, 0, 4) : o \in {"OP", "OP32"}, f3 \in 0..7, f7 \in {0, 1, 32}, rd \in {0, 2}}
Immediates ==
  {I(o, f3, 0, 1, 1, 0, imm, 4) : o \in {"OPIMM", "OPIMM32"}, f3 \in (0..7) \ {1, 5}, imm \in {-8, -1, 0, 3}}
Shifts ==
  {I("OPIMM", f3, 0, 2, 1, 0, imm, 2) : f3 \in {1, 5}, imm \in {0, 1, 7, 8, 15, 32}}
    \cup {I("OPIMM32", f3, 0, 2, 1, 0, imm, 4) : f3 \in {1, 5}, imm \in {0, 1, 3, 4, 8, 11}}
Jumps ==
  {I("JAL", 0, 0, rd, 0, 0, imm, size) : rd \in {0, 1}, imm \in {-2, 0, 6}, size \in {2, 4}}
    \cup {I("JALR", f3, 0, rd, 1, 0, imm, size) :
            f3 \in {0, 1}, rd \in {0, 1}, imm \in {-1, 0, 4}, size \in {2, 4}}
    \cup {I("BRANCH", f3, 0, 0, 1, 2, imm, size) : f3 \in 0..7, imm \in {-4, 8}, size \in {2, 4}}
MemoryAccesses ==
  {I("LOAD", f3, 0, 2, 1, 0, imm, 2) : f3 \in 0..7, imm \in {-1, 0, 5}}
    \cup {I("STORE", f3, 0, 0, 1, 2, imm, 4) : f3 \in 0..4, imm \in {-1, 0, 5}}
Others ==
  {I(o, 0, 0, rd, 0, 0, imm, 4) : o \in {"LUI", "AUIPC"}, rd \in {0, 2}, imm \in {-16, 16}}
    \cup {I("SYSTEM", f3, 0, 0, 0, 0, imm, 4) : f3 \in {0, 1}, imm \in {0, 1}}
    \cup {I("MISCMEM", 0, 0, 0, 0, 0, 0, 4)}

MCInstructions == Arithmetic \cup Immediates \cup Shifts \cup Jumps \cup MemoryAccesses \cup Others

-----------------------------------------------------------------------------
\* At rest: a decoder that refused a word, a machine with no tick left.
DecoderRests == fetched = {} /\ instruction = {} /\ stage = "failed" /\ decoded = Decode!None
CpuRests ==
  /\ program_counter = 0 /\ registers = [r \in Registers \ {0} |-> 0]
  /\ memory = [a \in Mapped |-> 0] /\ inst = NoInst /\ status = "run" /\ ticks = MaxTicks

MCInit == (Init /\ DecoderRests) \/ (Decode!Init /\ CpuRests)
MCNext == (Next /\ UNCHANGED decodeVars) \/ (Decode!Next /\ UNCHANGED cpuVars)
MCSpec == MCInit /\ [][MCNext]_<<cpuVars, decodeVars>>

\* A compressed instruction is executed as the one the manual says it abbreviates
\* (OperationAsInManual of RiscvDecode: the rewriting of tick, from, pack, unpack).
OperationAsInManual == Decode!OperationAsInManual

\* The immediate is the one the bits of the encoding spell (ImmediateAsInManual of
\* RiscvDecode: the parse_imm functions).
ImmediateAsInManual == Decode!ImmediateAsInManual
=============================================================================

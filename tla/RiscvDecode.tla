---------------------------- MODULE RiscvDecode ----------------------------
(***************************************************************************)
(* How one tick of the RISC-V emulator (emulator.rs) decodes what it       *)
(* fetched: a 16-bit (C extension) instruction is first rewritten as the   *)
(* 32-bit instruction it abbreviates, which is packed into a word; then    *)
(* the word, fetched or rewritten, is unpacked by the format of its        *)
(* opcode.                                                                 *)
(*                                                                         *)
(* A machine word is the set of the positions of its one bits, so that     *)
(* shifts, masks and ors of the code are operations on sets and no         *)
(* arithmetic of 32 bits is needed.                                        *)
(***************************************************************************)
EXTENDS Integers, Sequences, FiniteSetsExt

CONSTANTS
  Parcels,    \* the 16-bit parcels a fetch finds: subsets of 0..15 without bits 0 and 1
  Followers,  \* what may follow a compressed parcel: subsets of 16..31
  FullWords   \* the 32-bit instructions a fetch finds: subsets of 0..31 with bits 0 and 1

VARIABLES
  fetched,      \* the word read_u32_le returned
  instruction,  \* the local variable of tick: fetched, then rewritten
  stage,        \* "fetched", "expanded", "decoded"; "failed": tick returned None
  decoded       \* what the execute function of its format receives

vars == <<fetched, instruction, stage, decoded>>

None == [type |-> "none"]

-----------------------------------------------------------------------------
(* Words *)

\* The bits of a number below 2^12, and the number of a short word.
Bits(n) == {b \in 0..11 : (n \div 2^b) % 2 = 1}
Num(w) == MapThenSumSet(LAMBDA b : 2^b, w)

\* The field lo..=hi of a word, and a field moved to position lo.
Field(w, lo, hi) == {b - lo : b \in w \cap (lo..hi)}
At(f, lo) == {b + lo : b \in f} \cap (0..31)
Reg(w, lo) == Num(Field(w, lo, lo + 4))

\* sign_extend, and the same idiom in the parse_imm functions: n bits to 32.
sign_extend(f, n) == IF n - 1 \in f THEN f \cup (n..31) ELSE f

-----------------------------------------------------------------------------
(* The 32-bit formats *)

RiscvOpcode ==
  [OPIMM |-> 19, OPIMM32 |-> 27, LUI |-> 55, AUIPC |-> 23, OP |-> 51, OP32 |-> 59,
   JAL |-> 111, JALR |-> 103, BRANCH |-> 99, LOAD |-> 3, STORE |-> 35, MISCMEM |-> 15,
   SYSTEM |-> 115]

\* The opcode of a word, if it has one.
from_primitive(w) == {o \in DOMAIN RiscvOpcode : Bits(RiscvOpcode[o]) = w \cap (0..6)}

get_type(opcode) ==
  CASE opcode \in {"OPIMM", "OPIMM32", "JALR", "LOAD", "MISCMEM", "SYSTEM"} -> "I"
    [] opcode \in {"OP", "OP32"} -> "R"
    [] opcode \in {"LUI", "AUIPC"} -> "U"
    [] opcode = "STORE" -> "S"
    [] opcode = "BRANCH" -> "B"
    [] opcode = "JAL" -> "J"

\* The fields the formats share.
Head7(opcode) == Bits(RiscvOpcode[opcode])
Pack(opcode, funct3, rs1) == Head7(opcode) \cup At(Bits(funct3), 12) \cup At(Bits(rs1), 15)

RType(opcode, rd, funct3, rs1, rs2, funct7) ==
  Pack(opcode, funct3, rs1) \cup At(Bits(rd), 7) \cup At(Bits(rs2), 20) \cup At(Bits(funct7), 25)

IType(opcode, rd, funct3, rs1, imm) ==
  Pack(opcode, funct3, rs1) \cup At(Bits(rd), 7) \cup At(Field(imm, 0, 11), 20)
parse_imm_I(w) == sign_extend(Field(w, 20, 31), 12)

SType(opcode, funct3, rs1, rs2, imm) ==
  Pack(opcode, funct3, rs1) \cup At(Bits(rs2), 20)
    \cup At(Field(imm, 0, 4), 7) \cup At(Field(imm, 5, 11), 25)
parse_imm_S(w) == sign_extend(Field(w, 7, 11) \cup At(Field(w, 25, 31), 5), 12)

BType(opcode, funct3, rs1, rs2, imm) ==
  Pack(opcode, funct3, rs1) \cup At(Bits(rs2), 20)
    \cup At(Field(imm, 11, 11), 7) \cup At(Field(imm, 1, 4), 8)
    \cup At(Field(imm, 5, 10), 25) \cup At(Field(imm, 12, 12), 31)
parse_imm_B(w) ==
  sign_extend(At(Field(w, 8, 11), 1) \cup At(Field(w, 25, 30), 5)
                \cup At(Field(w, 7, 7), 11) \cup At(Field(w, 31, 31), 12), 13)

UType(opcode, rd, imm) == Head7(opcode) \cup At(Bits(rd), 7) \cup At(Field(imm, 12, 31), 12)
parse_imm_U(w) == At(Field(w, 12, 31), 12)

JType(opcode, rd, imm) ==
  Head7(opcode) \cup At(Bits(rd), 7)
    \cup At(Field(imm, 12, 19), 12) \cup At(Field(imm, 11, 11), 20)
    \cup At(Field(imm, 1, 10), 21) \cup At(Field(imm, 20, 20), 31)
parse_imm_J(w) ==
  sign_extend(At(Field(w, 21, 30), 1) \cup At(Field(w, 20, 20), 11)
                \cup At(Field(w, 12, 19), 12) \cup At(Field(w, 31, 31), 20), 21)

-----------------------------------------------------------------------------
(* The 16-bit formats *)

C(inst) == Num(Field(inst, 0, 1))          \* RiscvCompressedOpcode
funct3(inst) == Num(Field(inst, 13, 15))

get_compressed_instruction_type(inst) ==
  LET f == funct3(inst) + 1
  IN CASE C(inst) = 0 -> <<"CIW", "CL", "CL", "CL", "None", "CS", "CS", "CS">>[f]
       [] C(inst) = 1 /\ f = 5 -> IF Field(inst, 10, 11) = {0, 1} THEN "CA" ELSE "CB"
       [] C(inst) = 1 /\ f # 5 -> <<"CI", "CI", "CI", "CI", "-", "CJ", "CB", "CB">>[f]
       [] C(inst) = 2 -> <<"CI", "CI", "CI", "CI", "CR", "CSS", "CSS", "CSS">>[f]
       [] OTHER -> "None"

\* The three-bit register fields name x8..x15 (parse_rd, parse_rs1, parse_rs2).
parse_reg(inst, lo) == Num(Field(inst, lo, lo + 2)) + 8

\* A six-bit immediate whose bit 5 is repeated up to bit 7, read as a u8.
SignedSix(part1, bit5) ==
  sign_extend(part1 \cup At(bit5, 5) \cup At(bit5, 6) \cup At(bit5, 7), 8)

parse_imm_CI(inst) ==
  LET part1 == Field(inst, 2, 6)
      part2 == Field(inst, 12, 12)
  IN CASE C(inst) = 2 /\ funct3(inst) = 0 -> At(part2, 5) \cup part1
       [] C(inst) = 2 /\ funct3(inst) = 2 ->
            At(part1 \cap (0..1), 6) \cup At(part2, 5) \cup (part1 \cap (2..4))
       [] C(inst) = 2 /\ funct3(inst) = 3 ->
            At(part1 \cap (0..2), 6) \cup At(part2, 5) \cup (part1 \cap (3..4))
       [] C(inst) = 1 /\ funct3(inst) \in 0..2 -> SignedSix(part1, part2)
       [] C(inst) = 1 /\ funct3(inst) = 3 /\ Reg(inst, 7) # 2 -> At(SignedSix(part1, part2), 12)
       [] C(inst) = 1 /\ funct3(inst) = 3 /\ Reg(inst, 7) = 2 ->
            sign_extend(At(part2, 9) \cup At(Field(part1, 1, 2), 7) \cup At(Field(part1, 3, 3), 6)
                          \cup At(Field(part1, 0, 0), 5) \cup (part1 \cap {4}), 10)

parse_imm_CSS(inst) ==
  LET imm == Field(inst, 7, 12)
      low == IF funct3(inst) = 6 THEN 0..1 ELSE 0..2
  IN (imm \ low) \cup At(imm \cap low, 6)

\* Mutant of parse_imm_CIW: the last two bits of the field are not exchanged.
parse_imm_CIW_straight(inst) ==
  LET imm == Field(inst, 5, 12)
  IN At(Field(imm, 2, 5), 6) \cup At(Field(imm, 6, 7), 4) \cup At(Field(imm, 0, 1), 2)
parse_imm_CIW(inst) ==
  LET imm == Field(inst, 5, 12)
  IN At(Field(imm, 2, 5), 6) \cup At(Field(imm, 6, 7), 4)
       \cup At(Field(imm, 0, 0), 3) \cup At(Field(imm, 1, 1), 2)

\* CL and CS: words (funct3 2 and 6) and double words (3 and 7).
parse_imm_CL_CS(inst) ==
  LET part1 == Field(inst, 5, 6)
      part2 == Field(inst, 10, 12)
  IN At(part2, 3) \cup
       (IF funct3(inst) \in {2, 6}
        THEN At(Field(part1, 0, 0), 6) \cup At(Field(part1, 1, 1), 2)
        ELSE At(Field(part1, 1, 1), 7) \cup At(Field(part1, 0, 0), 6))

\* parse_funct2 of the CB format.
parse_funct2(inst) == Num(Field(inst, 10, 11))

parse_imm_CB(inst) ==
  LET part1 == Field(inst, 2, 6)
      part2 == Field(inst, 10, 12)
  IN CASE funct3(inst) \in {6, 7} ->
            sign_extend(At(Field(part2, 2, 2), 8) \cup At(Field(part1, 3, 4), 6)
                          \cup At(Field(part1, 0, 0), 5) \cup At(part2 \cap (0..1), 3)
                          \cup (part1 \cap (1..2)), 9)
       [] funct3(inst) = 4 /\ parse_funct2(inst) # 2 -> At(Field(part2, 2, 2), 5) \cup part1
       [] funct3(inst) = 4 /\ parse_funct2(inst) = 2 -> SignedSix(part1, Field(part2, 2, 2))

parse_imm_CJ(inst) ==
  LET at(from, to) == At(Field(inst, from, from), to)
      bit11 == Field(inst, 12, 12)
  IN sign_extend(UNION {At(bit11, b) : b \in 11..15}
       \cup at(8, 10) \cup At(Field(inst, 9, 10), 8) \cup at(6, 7) \cup at(7, 6)
       \cup at(2, 5) \cup at(11, 4) \cup At(Field(inst, 3, 5), 1), 16)

-----------------------------------------------------------------------------
(* The arms of tick that rewrite a compressed instruction; an arm the code  *)
(* does not have leaves the instruction as it was fetched.                  *)

expandCR(inst, word) ==
  LET r == Reg(inst, 7)
      rs2 == Reg(inst, 2)
      links == 12 \in inst         \* funct4 1001, else 1000
  IN CASE ~links /\ rs2 = 0 -> IType("JALR", 0, 0, r, {})
       [] ~links /\ rs2 # 0 -> RType("OP", r, 0, rs2, 0, 0)
       [] links /\ rs2 = 0 /\ r # 0 -> IType("JALR", 1, 0, r, {})
       [] links /\ rs2 = 0 /\ r = 0 -> IType("SYSTEM", 0, 0, 0, {0})
       [] links /\ rs2 # 0 -> RType("OP", r, 0, r, rs2, 0)

expandCI(inst, word) ==
  LET r == Reg(inst, 7)
      imm == parse_imm_CI(inst)
  IN CASE C(inst) = 2 /\ funct3(inst) = 0 -> IType("OPIMM", r, 1, r, imm)
       [] C(inst) = 2 /\ funct3(inst) = 2 -> IType("LOAD", r, 2, 2, imm)
       [] C(inst) = 2 /\ funct3(inst) = 3 -> IType("LOAD", r, 3, 2, imm)
       [] C(inst) = 1 /\ funct3(inst) = 2 -> IType("OPIMM", r, 0, 0, imm)
       [] C(inst) = 1 /\ funct3(inst) = 3 ->
            IF r # 2 THEN UType("LUI", r, imm) ELSE IType("OPIMM", 2, 0, 2, imm)
       [] C(inst) = 1 /\ funct3(inst) = 0 -> IType("OPIMM", r, 0, r, imm)
       [] C(inst) = 1 /\ funct3(inst) = 1 -> IType("OPIMM32", r, 0, r, imm)
       [] OTHER -> word

expandCSS(inst, word) ==
  IF funct3(inst) \in {6, 7}
  THEN SType("STORE", funct3(inst) - 4, 2, Reg(inst, 2), parse_imm_CSS(inst))
  ELSE word

expandCIW(inst, word) == IType("OPIMM", parse_reg(inst, 2), 0, 2, parse_imm_CIW(inst))

expandCL(inst, word) ==
  IF funct3(inst) \in {2, 3}
  THEN IType("LOAD", parse_reg(inst, 2), funct3(inst), parse_reg(inst, 7), parse_imm_CL_CS(inst))
  ELSE word

\* Mutant of expandCS: base and source registers exchanged.
expandCS_swapped(inst, word) ==
  IF funct3(inst) \in {6, 7}
  THEN SType("STORE", funct3(inst) - 4, parse_reg(inst, 2), parse_reg(inst, 7), parse_imm_CL_CS(inst))
  ELSE word
expandCS(inst, word) ==
  IF funct3(inst) \in {6, 7}
  THEN SType("STORE", funct3(inst) - 4, parse_reg(inst, 7), parse_reg(inst, 2), parse_imm_CL_CS(inst))
  ELSE word

expandCA(inst, word) ==
  LET r == parse_reg(inst, 7)
      arith(opcode, f3, f7) == RType(opcode, r, f3, r, parse_reg(inst, 2), f7)
      funct2 == Num(Field(inst, 5, 6))
  IN IF 12 \notin inst             \* funct6 100011, else 100111
     THEN <<arith("OP", 0, 32), arith("OP", 4, 0), arith("OP", 6, 0), arith("OP", 7, 0)>>[funct2 + 1]
     ELSE <<arith("OP32", 0, 32), arith("OP32", 0, 0), word, word>>[funct2 + 1]

expandCB(inst, word) ==
  LET r == parse_reg(inst, 7)
      imm == parse_imm_CB(inst)
  IN CASE funct3(inst) = 6 -> BType("BRANCH", 0, r, 0, imm)
       [] funct3(inst) = 7 -> BType("BRANCH", 1, r, 0, imm)
       [] funct3(inst) = 4 /\ parse_funct2(inst) = 0 -> IType("OPIMM", r, 5, r, imm)
       [] funct3(inst) = 4 /\ parse_funct2(inst) = 1 -> IType("OPIMM", r, 5, r, imm \cup {10})
       [] funct3(inst) = 4 /\ parse_funct2(inst) = 2 -> IType("OPIMM", r, 7, r, imm)

expandCJ(inst, word) == JType("JAL", 0, parse_imm_CJ(inst))

is_compressed(word) == word \cap {0, 1} # {0, 1}

\* The match of tick on the type of the compressed instruction.
expand(word) ==
  LET inst == word \cap (0..15)
      t == get_compressed_instruction_type(inst)
  IN CASE t = "CR" -> expandCR(inst, word) [] t = "CI" -> expandCI(inst, word)
       [] t = "CSS" -> expandCSS(inst, word) [] t = "CIW" -> expandCIW(inst, word)
       [] t = "CL" -> expandCL(inst, word) [] t = "CS" -> expandCS(inst, word)
       [] t = "CA" -> expandCA(inst, word) [] t = "CB" -> expandCB(inst, word)
       [] t = "CJ" -> expandCJ(inst, word)

\* What unpack gives the execute function of the format.
unpack(opcode, w) ==
  LET t == get_type(opcode)
      imm == CASE t = "I" -> parse_imm_I(w) [] t = "S" -> parse_imm_S(w)
               [] t = "B" -> parse_imm_B(w) [] t = "U" -> parse_imm_U(w)
               [] t = "J" -> parse_imm_J(w) [] t = "R" -> {}
  IN [type |-> t, opcode |-> opcode, imm |-> imm,
      rd |-> IF t \in {"R", "I", "U", "J"} THEN Reg(w, 7) ELSE 0,
      funct3 |-> IF t \in {"U", "J"} THEN 0 ELSE Num(Field(w, 12, 14)),
      rs1 |-> IF t \in {"U", "J"} THEN 0 ELSE Reg(w, 15),
      rs2 |-> IF t \in {"R", "S", "B"} THEN Reg(w, 20) ELSE 0,
      funct7 |-> IF t = "R" THEN Num(Field(w, 25, 31)) ELSE 0]

-----------------------------------------------------------------------------
Init ==
  /\ fetched \in {p \cup f : p \in Parcels, f \in Followers} \cup FullWords
  /\ instruction = fetched
  /\ stage = "fetched"
  /\ decoded = None

\* The first half of tick: a compressed instruction is rewritten, or has no type.
Expand ==
  /\ stage = "fetched"
  /\ IF is_compressed(fetched)
     THEN IF get_compressed_instruction_type(fetched \cap (0..15)) = "None"
          THEN stage' = "failed" /\ UNCHANGED instruction
          ELSE stage' = "expanded" /\ instruction' = expand(fetched)
     ELSE stage' = "expanded" /\ UNCHANGED instruction
  /\ UNCHANGED <<fetched, decoded>>

\* The second half: the opcode chooses the format the word is unpacked by.
Dispatch ==
  /\ stage = "expanded"
  /\ IF from_primitive(instruction) = {}
     THEN stage' = "failed" /\ UNCHANGED decoded
     ELSE /\ stage' = "decoded"
          /\ \E opcode \in from_primitive(instruction) : decoded' = unpack(opcode, instruction)
  /\ UNCHANGED <<fetched, instruction>>

Next == Expand \/ Dispatch

Spec == Init /\ [][Next]_vars

-----------------------------------------------------------------------------
(* The RISC-V manual (Volume I, chapters 2, 5, 16 and 24), as a reference  *)

\* Chapter 16: bit 12 down to bit 2 of a compressed instruction, each with the
\* bit of the immediate it holds (-1: it holds none).
ManualLayout(q, f, r) ==
  LET x == -1
  IN CASE q = 0 /\ f = 0 -> <<5, 4, 9, 8, 7, 6, 2, 3, x, x, x>>
       [] q = 0 /\ f \in {2, 6} -> <<5, 4, 3, x, x, x, 2, 6, x, x, x>>
       [] q = 0 /\ f \in {3, 7} -> <<5, 4, 3, x, x, x, 7, 6, x, x, x>>
       [] q = 1 /\ f \in {0, 1, 2} -> <<5, x, x, x, x, x, 4, 3, 2, 1, 0>>
       [] q = 1 /\ f = 3 /\ r = 2 -> <<9, x, x, x, x, x, 4, 6, 8, 7, 5>>
       [] q = 1 /\ f = 3 /\ r # 2 -> <<17, x, x, x, x, x, 16, 15, 14, 13, 12>>
       [] q = 1 /\ f = 4 -> <<5, x, x, x, x, x, 4, 3, 2, 1, 0>>
       [] q = 1 /\ f = 5 -> <<11, 4, 9, 8, 10, 6, 7, 3, 2, 1, 5>>
       [] q = 1 /\ f \in {6, 7} -> <<8, 4, 3, x, x, x, 7, 6, 2, 1, 5>>
       [] q = 2 /\ f = 0 -> <<5, x, x, x, x, x, 4, 3, 2, 1, 0>>
       [] q = 2 /\ f = 2 -> <<5, x, x, x, x, x, 4, 3, 2, 7, 6>>
       [] q = 2 /\ f = 3 -> <<5, x, x, x, x, x, 4, 3, 8, 7, 6>>
       [] q = 2 /\ f = 6 -> <<5, 4, 3, 2, 7, 6, x, x, x, x, x>>
       [] q = 2 /\ f = 7 -> <<5, 4, 3, 8, 7, 6, x, x, x, x, x>>

\* Chapter 24: bit 31 down to bit 7 of a full instruction, likewise.
ManualFullLayout ==
  LET x == <<-1, -1, -1, -1, -1>>
      y == <<-1, -1, -1>>
  IN [I |-> <<11, 10, 9, 8, 7, 6, 5, 4, 3, 2, 1, 0>> \o x \o y \o x,
      S |-> <<11, 10, 9, 8, 7, 6, 5>> \o x \o x \o y \o <<4, 3, 2, 1, 0>>,
      B |-> <<12, 10, 9, 8, 7, 6, 5>> \o x \o x \o y \o <<4, 3, 2, 1, 11>>,
      U |-> [k \in 1..20 |-> 32 - k] \o x,
      J |-> <<20, 10, 9, 8, 7, 6, 5, 4, 3, 2, 1, 11, 19, 18, 17, 16, 15, 14, 13, 12>> \o x]

\* The immediate a layout reads from a word whose top immediate bit is `top'.
ReadLayout(w, layout, top, signed) ==
  LET imm == {layout[top + 1 - b] : b \in w \cap ((top + 1 - Len(layout))..top)} \ {-1}
  IN IF signed /\ top \in w THEN imm \cup (layout[1]..31) ELSE imm

\* Chapter 16: the base instruction, registers written r (bits 11..7), s (6..2),
\* d (x8 + bits 4..2) and b (x8 + bits 9..7): opcode, funct3, rd, rs1, rs2, funct7.
ManualExpansion(w) ==
  LET q == C(w)
      f == funct3(w)
      r == Reg(w, 7)
      s == Reg(w, 2)
      d == 8 + Num(Field(w, 2, 4))
      b == 8 + Num(Field(w, 7, 9))
      g == Num(Field(w, 10, 11))
      h == Num(Field(w, 5, 6))
  IN CASE q = 0 /\ f = 0 -> <<"OPIMM", 0, d, 2, 0, 0>>
       [] q = 0 /\ f \in {2, 3} -> <<"LOAD", f, d, b, 0, 0>>
       [] q = 0 /\ f \in {6, 7} -> <<"STORE", f - 4, 0, b, d, 0>>
       [] q = 1 /\ f = 0 -> <<"OPIMM", 0, r, r, 0, 0>>
       [] q = 1 /\ f = 1 -> <<"OPIMM32", 0, r, r, 0, 0>>
       [] q = 1 /\ f = 2 -> <<"OPIMM", 0, r, 0, 0, 0>>
       [] q = 1 /\ f = 3 -> IF r = 2 THEN <<"OPIMM", 0, 2, 2, 0, 0>> ELSE <<"LUI", 0, r, 0, 0, 0>>
       [] q = 1 /\ f = 4 /\ g \in {0, 1} -> <<"OPIMM", 5, b, b, 0, 0>>
       [] q = 1 /\ f = 4 /\ g = 2 -> <<"OPIMM", 7, b, b, 0, 0>>
       [] q = 1 /\ f = 4 /\ g = 3 /\ 12 \notin w -> <<"OP", <<0, 4, 6, 7>>[h + 1], b, b, d, IF h = 0 THEN 32 ELSE 0>>
       [] q = 1 /\ f = 4 /\ g = 3 /\ 12 \in w /\ h < 2 -> <<"OP32", 0, b, b, d, IF h = 0 THEN 32 ELSE 0>>
       [] q = 1 /\ f = 5 -> <<"JAL", 0, 0, 0, 0, 0>>
       [] q = 1 /\ f \in {6, 7} -> <<"BRANCH", f - 6, 0, b, 0, 0>>
       [] q = 2 /\ f = 0 -> <<"OPIMM", 1, r, r, 0, 0>>
       [] q = 2 /\ f \in {2, 3} -> <<"LOAD", f, r, 2, 0, 0>>
       [] q = 2 /\ f = 4 /\ s = 0 ->
            IF 12 \in w /\ r = 0 THEN <<"SYSTEM", 0, 0, 0, 0, 0>>
            ELSE <<"JALR", 0, IF 12 \in w THEN 1 ELSE 0, r, 0, 0>>
       [] q = 2 /\ f = 4 /\ s # 0 -> <<"OP", 0, r, IF 12 \in w THEN r ELSE 0, s, 0>>
       [] q = 2 /\ f \in {6, 7} -> <<"STORE", f - 4, 0, 2, s, 0>>
       [] OTHER -> <<"illegal">>

\* The parcels the manual reserves, or defines to be illegal (the all-zero one):
\* it says nothing of what they do.
Reserved(w) ==
  LET q == C(w)
      f == funct3(w)
      r == Reg(w, 7)
      Zero(lo, hi) == Field(w, lo, hi) = {}
  IN \/ q = 0 /\ (f = 4 \/ (f = 0 /\ Zero(5, 12)))             \* C.ADDI4SPN 0
     \/ q = 1 /\ f = 1 /\ r = 0                                  \* C.ADDIW x0
     \/ q = 1 /\ f = 3 /\ Zero(2, 6) /\ Zero(12, 12)             \* C.LUI 0, C.ADDI16SP 0
     \/ q = 1 /\ f = 4 /\ {6, 10, 11, 12} \subseteq w
     \/ q = 2 /\ f \in {2, 3} /\ r = 0                           \* C.LWSP x0, C.LDSP x0
     \/ q = 2 /\ f = 4 /\ 12 \notin w /\ r = 0 /\ Zero(2, 6)      \* C.JR x0

\* C.FLD, C.FSD, C.FLDSP and C.FSDSP: of an extension this machine does not have.
FloatingPoint(w) == C(w) \in {0, 2} /\ funct3(w) \in {1, 5}

\* The same operation, with the operands of an addition exchanged if need be (the
\* emulator's C.MV adds x0 second, the manual's first).
SameOperation(a, b) ==
  \/ a = b
  \/ a[1] = "OP" /\ a[2] = 0 /\ a[6] = 0 /\ b = <<a[1], a[2], a[3], a[5], a[4], a[6]>>

HasImmediate(w) ==
  ~ (C(w) = 2 /\ funct3(w) = 4) /\ ~ (C(w) = 1 /\ funct3(w) = 4 /\ Field(w, 10, 11) = {0, 1})
SignedImmediate(w) ==
  C(w) = 1 /\ (funct3(w) = 4 => Field(w, 10, 11) = {1})

\* The parcel of a decoded compressed instruction.
Parcel == fetched \cap (0..15)
DecodedCompressed == stage = "decoded" /\ is_compressed(fetched)

\* Words have 32 bits, and a tick gets past the decoder exactly when it has an
\* instruction.
TypeOK ==
  /\ fetched \subseteq 0..31 /\ instruction \subseteq 0..31
  /\ stage \in {"fetched", "expanded", "decoded", "failed"}
  /\ (stage = "decoded") <=> (decoded # None)

\* What the manual defines, the emulator does not refuse: a tick returns None in
\* the decoder only for a reserved or floating-point parcel, or a word without one
\* of the opcodes.
LegalIsAccepted ==
  stage = "failed" =>
    /\ is_compressed(fetched) => Reserved(Parcel) \/ FloatingPoint(Parcel)
    /\ ~is_compressed(fetched) =>
         fetched \cap (0..6) \notin {Bits(RiscvOpcode[o]) : o \in DOMAIN RiscvOpcode}

\* Every compressed instruction acts as the instruction, and on the registers,
\* the manual says it abbreviates: rewriting it (tick), packing it (from, pack)
\* and unpacking it again lose nothing, and the format it was packed with is the
\* one its opcode is unpacked by.  A floating-point parcel is never executed,
\* whatever follows it, and one the manual defines for this machine is never
\* refused.  Of the reserved parcels nothing is said: most of them are executed
\* ("This implementation ignores wether a C extension instruction is reserved or
\* not"), the all-zero parcel too.
OperationAsInManual ==
  /\ (DecodedCompressed /\ ~Reserved(Parcel)) =>
       SameOperation(ManualExpansion(Parcel),
         <<decoded.opcode, decoded.funct3, decoded.rd, decoded.rs1, decoded.rs2, decoded.funct7>>)
  /\ TypeOK /\ LegalIsAccepted

\* The immediate of an uncompressed instruction is the one its format spells.
FullImmediateAsInManual ==
  (stage = "decoded" /\ ~is_compressed(fetched) /\ decoded.type # "R") =>
    decoded.imm = ReadLayout(fetched, ManualFullLayout[decoded.type], 31, TRUE)

\* The immediate a compressed instruction is executed with is the one the
\* scattered bits of its encoding spell, sign-extended or not as the manual
\* says, after it went through the immediate fields of the full instruction;
\* and that of a full instruction the one of its format.
ImmediateAsInManual ==
  /\ (DecodedCompressed /\ C(Parcel) = 2 /\ funct3(Parcel) = 4) =>
       decoded.imm = IF Parcel = {1, 12, 15} THEN {0} ELSE {}         \* C.EBREAK
  /\ (DecodedCompressed /\ HasImmediate(Parcel) /\ ~Reserved(Parcel)) =>
       decoded.imm =
         ReadLayout(Parcel, ManualLayout(C(Parcel), funct3(Parcel), Reg(Parcel, 7)), 12, SignedImmediate(Parcel))
           \cup (IF C(Parcel) = 1 /\ funct3(Parcel) = 4 /\ Field(Parcel, 10, 11) = {0} THEN {10} ELSE {})
  /\ FullImmediateAsInManual
=============================================================================

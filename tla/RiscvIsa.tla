------------------------------ MODULE RiscvIsa ------------------------------
(***************************************************************************)
(* What the RISC-V manual (Volume I, chapters 2, 5, 7 and 24) promises of  *)
(* one hart that runs the base integer and the multiplication              *)
(* instructions: the abstract specification that RiscvCpu implements.      *)
(* Values are integers; a result is reduced modulo the width of a register *)
(* once, and an instruction on words is the same instruction at half the   *)
(* width, its result sign-extended.                                        *)
(***************************************************************************)
EXTENDS Integers, FiniteSetsExt

CONSTANTS
  XLen,      \* bits of a register: 64 in the program, a multiple of 8
  Registers, \* the numbers of the registers, 0 among them
  SraBit     \* the bit of the immediate that makes a right shift arithmetic: 2^10

VARIABLES
  pc, x, mem,  \* program counter, registers (x[0] = 0), bytes of the mapped addresses
  inst         \* the instruction at pc, decoded; NoInst between instructions

isaVars == <<pc, x, mem, inst>>

NoInst == [opcode |-> "none"]
Byte == XLen \div 8

S(n, w) == IF n >= 2^(w - 1) THEN n - 2^w ELSE n
Bitwise(n, m, w, P(_, _)) ==
  MapThenSumSet(LAMBDA k : 2^k, {k \in 0..(w - 1) : P((n \div 2^k) % 2, (m \div 2^k) % 2)})

\* The names of chapter 24's tables, by funct3; "-" where they have none.
Name(i) ==
  LET f == i.funct3 + 1
      w == IF i.opcode \in {"OP", "OPIMM"} THEN XLen ELSE XLen \div 2
      base == <<"add", "sll", "slt", "sltu", "xor", "srl", "or", "and">>
      arith == <<"sub", "-", "-", "-", "-", "sra", "-", "-">>
      mul == <<"mul", "mulh", "mulhsu", "mulhu", "div", "divu", "rem", "remu">>
      words == IF i.opcode = "OP32" /\ i.funct7 = 1 THEN {0, 4, 5, 6, 7} ELSE {0, 1, 5}
  IN CASE i.opcode \in {"OP32", "OPIMM32"} /\ i.funct3 \notin words -> "-"
       [] i.opcode = "OP" \/ (i.opcode = "OP32" /\ i.funct3 \in words) ->
            (CASE i.funct7 = 0 -> base[f] [] i.funct7 = 32 -> arith[f] [] i.funct7 = 1 -> mul[f]
               [] OTHER -> "-")
       [] i.opcode \in {"OPIMM", "OPIMM32"} /\ i.funct3 \in {1, 5} ->     \* shifts
            (CASE i.imm \in 0..(w - 1) -> base[f]
               [] i.funct3 = 5 /\ i.imm \in SraBit..(SraBit + w - 1) -> "sra"
               [] OTHER -> "-")
       [] i.opcode = "OPIMM" \/ (i.opcode = "OPIMM32" /\ i.funct3 = 0) -> base[f]
       [] i.opcode = "BRANCH" -> <<"beq", "bne", "-", "-", "blt", "bge", "bltu", "bgeu">>[f]
       [] OTHER -> "-"

\* Encodings the manual reserves, or leaves to extensions this machine does not
\* have: it says nothing of what they do.
Unspecified(i) ==
  \/ i.opcode \in {"OP", "OP32", "OPIMM", "OPIMM32", "BRANCH"} /\ Name(i) = "-"
  \/ i.opcode = "LOAD" /\ i.funct3 = 7
  \/ i.opcode = "STORE" /\ i.funct3 > 3
  \/ i.opcode = "JALR" /\ i.funct3 # 0
  \/ i.opcode = "SYSTEM" /\ ~ (i.funct3 = 0 /\ i.rd = 0 /\ i.rs1 = 0 /\ i.imm \in {0, 1})

\* The quotient rounded towards zero and its remainder, by what defines them.
Divides(n, m, q) == LET r == n - q * m IN
  /\ (IF r < 0 THEN -r ELSE r) < (IF m < 0 THEN -m ELSE m)
  /\ r = 0 \/ (r < 0) = (n < 0)
Quotient(n, m, w) == CHOOSE q \in (-(2^w))..(2^w) : Divides(n, m, q)

\* The result of an instruction on two w-bit operands, before it is reduced.
Result(name, a, b, w) ==
  LET sa == S(a, w)
      sb == S(b, w)
      sh == b % w
  IN CASE name = "add" -> a + b
       [] name = "sub" -> a - b
       [] name = "sll" -> a * 2^sh
       [] name = "srl" -> a \div 2^sh
       [] name = "sra" -> sa \div 2^sh
       [] name = "slt" -> IF sa < sb THEN 1 ELSE 0
       [] name = "sltu" -> IF a < b THEN 1 ELSE 0
       [] name = "xor" -> Bitwise(a, b, w, LAMBDA p, q : p # q)
       [] name = "or" -> Bitwise(a, b, w, LAMBDA p, q : p + q > 0)
       [] name = "and" -> Bitwise(a, b, w, LAMBDA p, q : p + q = 2)
       [] name = "mul" -> a * b
       [] name = "mulh" -> (sa * sb) \div 2^w
       [] name = "mulhsu" -> (sa * b) \div 2^w
       [] name = "mulhu" -> (a * b) \div 2^w
       [] name = "div" -> IF b = 0 THEN -1 ELSE Quotient(sa, sb, w)
       [] name = "divu" -> IF b = 0 THEN -1 ELSE a \div b
       [] name = "rem" -> IF b = 0 THEN a ELSE sa - sb * Quotient(sa, sb, w)
       [] name = "remu" -> IF b = 0 THEN a ELSE a % b

Taken(name, a, b) ==
  CASE name = "beq" -> a = b [] name = "bne" -> a # b
    [] name = "blt" -> S(a, XLen) < S(b, XLen) [] name = "bge" -> S(a, XLen) >= S(b, XLen)
    [] name = "bltu" -> a < b [] name = "bgeu" -> a >= b [] OTHER -> FALSE

-----------------------------------------------------------------------------
Init ==
  /\ x \in [Registers -> 0..(2^XLen - 1)] /\ x[0] = 0
  /\ pc \in 0..(2^XLen - 1) /\ pc % 2 = 0
  /\ mem \in [DOMAIN mem -> 0..(2^Byte - 1)]
  /\ inst = NoInst

Fetch == inst = NoInst /\ inst' # NoInst /\ UNCHANGED <<pc, x, mem>>

Set(r, v) == x' = [x EXCEPT ![r] = IF r = 0 THEN 0 ELSE v % 2^XLen]
GoTo(a) == pc' = a % 2^XLen

\* Integer computation: on words when the opcode says so.
Compute ==
  /\ inst.opcode \in {"OP", "OP32", "OPIMM", "OPIMM32"}
  /\ LET w == IF inst.opcode \in {"OP", "OPIMM"} THEN XLen ELSE XLen \div 2
         b == IF inst.opcode \in {"OP", "OP32"} THEN x[inst.rs2] ELSE inst.imm
     IN Set(inst.rd, S(Result(Name(inst), x[inst.rs1] % 2^w, b % 2^w, w) % 2^w, w))
  /\ GoTo(pc + inst.size) /\ UNCHANGED mem

\* Where a jump or a taken branch goes; JALR clears the lowest bit.
Target ==
  LET sum == (inst.imm + IF inst.opcode = "JALR" THEN x[inst.rs1] ELSE pc) % 2^XLen
  IN IF inst.opcode = "JALR" THEN sum - (sum % 2) ELSE sum

Branch ==
  /\ inst.opcode = "BRANCH"
  /\ GoTo(IF Taken(Name(inst), x[inst.rs1], x[inst.rs2]) THEN Target ELSE pc + inst.size)
  /\ UNCHANGED <<x, mem>>

Upper ==
  /\ inst.opcode \in {"LUI", "AUIPC"}
  /\ Set(inst.rd, inst.imm + IF inst.opcode = "AUIPC" THEN pc ELSE 0)
  /\ GoTo(pc + inst.size) /\ UNCHANGED mem

Jump ==
  /\ inst.opcode \in {"JAL", "JALR"}
  /\ GoTo(Target) /\ Set(inst.rd, pc + inst.size) /\ UNCHANGED mem

Bytes(i) == 2^(i.funct3 % 4)
Address == (x[inst.rs1] + inst.imm) % 2^XLen
Touched == Address..(Address + Bytes(inst) - 1)

Load ==
  /\ inst.opcode = "LOAD" /\ Touched \subseteq DOMAIN mem
  /\ LET v == MapThenSumSet(LAMBDA k : mem[Address + k] * 2^(Byte * k), 0..(Bytes(inst) - 1))
     IN Set(inst.rd, IF inst.funct3 < 4 THEN S(v, Byte * Bytes(inst)) ELSE v)
  /\ GoTo(pc + inst.size) /\ UNCHANGED mem

Store ==
  /\ inst.opcode = "STORE" /\ Touched \subseteq DOMAIN mem
  /\ mem' = [a \in DOMAIN mem |-> IF a \in Touched
               THEN (x[inst.rs2] \div 2^(Byte * (a - Address))) % 2^Byte ELSE mem[a]]
  /\ GoTo(pc + inst.size) /\ UNCHANGED x

\* Within one hart a fence orders nothing.
Fence == inst.opcode = "MISCMEM" /\ GoTo(pc + inst.size) /\ UNCHANGED <<x, mem>>

\* ECALL and EBREAK are requests to the environment.  It may write memory; it goes
\* on after the instruction, with a register changed or none, has the instruction
\* executed again, or starts another program.
Environment ==
  /\ inst.opcode = "SYSTEM"
  /\ mem' \in [DOMAIN mem -> 0..(2^Byte - 1)]
  /\ \/ \E r \in Registers, v \in 0..(2^XLen - 1) : Set(r, v) /\ GoTo(pc + inst.size)
     \/ UNCHANGED <<pc, x>>
     \/ \E a \in 0..(2^XLen - 1) : GoTo(a) /\ x' = [r \in Registers |-> 0]

Execute ==
  /\ inst # NoInst
  /\ \/ Unspecified(inst)
     \/ /\ ~Unspecified(inst)
        /\ Compute \/ Branch \/ Upper \/ Jump \/ Load \/ Store \/ Fence \/ Environment
  /\ inst' = NoInst

Next == Fetch \/ Execute

Spec == Init /\ [][Next]_isaVars
=============================================================================

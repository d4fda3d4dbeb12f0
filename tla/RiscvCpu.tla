------------------------------ MODULE RiscvCpu ------------------------------
(***************************************************************************)
(* The execute functions of the RISC-V emulator (emulator.rs), one tick at *)
(* a time: what each arm of execute_*type_inst computes, with the casts,   *)
(* wrapping operations and sign extensions of the code, what it does to    *)
(* the program counter before and after the increment of tick, and where   *)
(* the debug build that make_iso.sh installs panics.                       *)
(*                                                                         *)
(* The width of a register is a parameter.  u64 is XLen bits, u32 half of  *)
(* them, u128 twice as many, a byte an eighth.  RiscvDecode shows what     *)
(* instructions and immediates the execute functions receive.              *)
(***************************************************************************)
EXTENDS Integers, FiniteSetsExt

CONSTANTS
  XLen,          \* bits of a register (64)
  Registers,     \* register numbers, 0..31 in the program
  Mapped,        \* the addresses of the one region of memory
  InitialPc, InitialValue,   \* where and with what a program may be
  Instructions,  \* the decoded instructions a fetch may find
  SraBit,        \* of RiscvIsa: the immediate's bit that tells SRAI from SRLI (2^10)
  MaxTicks       \* bound: instructions executed in a behaviour

ASSUME CpuAssumption ==
  /\ XLen \in Nat \ {0} /\ XLen % 8 = 0
  /\ Registers \subseteq Nat /\ 0 \in Registers
  /\ Mapped \subseteq 0..(2^XLen - 1)
  /\ InitialValue \subseteq 0..(2^XLen - 1)
  /\ InitialPc \subseteq {a \in 0..(2^XLen - 1) : a % 2 = 0}
  /\ MaxTicks \in Nat /\ SraBit \in Nat

VARIABLES
  program_counter, registers, memory,
  inst,    \* what tick decoded
  status,  \* "run"; "exception": tick returned None; "panic": the kernel stopped
  ticks

cpuVars == <<program_counter, registers, memory, inst, status, ticks>>

NoInst == [opcode |-> "none"]
Half == XLen \div 2
Byte == XLen \div 8

-----------------------------------------------------------------------------
(* Machine integers of w bits *)

wrap(n, w) == n % 2^w                                     \* as uw, of any integer
signed(n, w) == IF n >= 2^(w - 1) THEN n - 2^w ELSE n     \* as iw
\* val | !all_ones, from w to v bits
sign_extend(n, w, v) == IF n >= 2^(w - 1) THEN n + (2^v - 2^w) ELSE n
low(n) == wrap(n, Half)                                   \* as u32
wrapping_add(n, m, w) == wrap(n + m, w)
wrapping_sub(n, m, w) == wrap(n - m, w)
\* The product of two w-bit numbers, a part at a time to stay within TLC's integers.
wrapping_mul(n, m, w) ==
  LET h == 2^(w \div 2) IN wrap(n * (m % h) + wrap(n * (m \div h), w \div 2) * h, w)
shl(n, k, w) == wrap(n * 2^k, w)
shr(n, k) == n \div 2^k
sar(n, k, w) == wrap(signed(n, w) \div 2^k, w)

\* i64::wrapping_div rounds towards zero, and the least number by -1 is itself;
\* wrapping_rem has the sign of the dividend.
magnitude(n) == IF n < 0 THEN -n ELSE n
quotient(n, m) ==
  LET q == magnitude(n) \div magnitude(m) IN IF (n < 0) = (m < 0) THEN q ELSE -q
wrapping_div(n, m, w) == wrap(quotient(signed(n, w), signed(m, w)), w)
wrapping_rem(n, m, w) ==
  LET sn == signed(n, w) sm == signed(m, w) IN wrap(sn - sm * quotient(sn, sm), w)

bit(n, k) == (n \div 2^k) % 2
bits(P(_)) == MapThenSumSet(LAMBDA k : 2^k, {k \in 0..(XLen - 1) : P(k)})
bit_and(n, m) == bits(LAMBDA k : bit(n, k) = 1 /\ bit(m, k) = 1)
bit_or(n, m) == bits(LAMBDA k : bit(n, k) = 1 \/ bit(m, k) = 1)
bit_xor(n, m) == bits(LAMBDA k : bit(n, k) # bit(m, k))

-----------------------------------------------------------------------------
(* Registers and memory *)

read_reg(n) == IF n = 0 THEN 0 ELSE registers[n]
write_reg(n, v) == registers' = IF n = 0 THEN registers ELSE [registers EXCEPT ![n] = v]

\* read_u8_ne ... read_u64_ne: n bytes, the least significant first; an access
\* that leaves the region panics.
accessible(addr, n) == addr..(addr + n - 1) \subseteq Mapped
read_ne(addr, n) == MapThenSumSet(LAMBDA k : memory[addr + k] * 2^(Byte * k), 0..(n - 1))
write_ne(addr, v, n) ==
  memory' = [a \in DOMAIN memory |->
               IF a \in addr..(addr + n - 1) THEN shr(v, Byte * (a - addr)) % 2^Byte ELSE memory[a]]

-----------------------------------------------------------------------------
(* execute_rtype_inst: the value for rd, none where the match has no arm.   *)

\* DIV, DIVU, REM and REMU (funct7 1, funct3 4..7): wrapping_div and wrapping_rem
\* wrap around on overflow only, and panic when the divisor is zero.
divides(i) == i.opcode \in {"OP", "OP32"} /\ i.funct7 = 1 /\ i.funct3 >= 4
DividesByZero(i) ==
  divides(i) /\ (IF i.opcode = "OP" THEN read_reg(i.rs2) ELSE low(read_reg(i.rs2))) = 0

rtype_op(i, a, b) ==
  CASE i.funct3 = 0 /\ i.funct7 = 0 -> {wrapping_add(a, b, XLen)}
    [] i.funct3 = 0 /\ i.funct7 = 32 -> {wrapping_sub(a, b, XLen)}
    [] i.funct3 = 2 /\ i.funct7 = 0 -> {IF signed(a, XLen) < signed(b, XLen) THEN 1 ELSE 0}
    [] i.funct3 = 3 /\ i.funct7 = 0 -> {IF a < b THEN 1 ELSE 0}
    [] i.funct3 = 4 /\ i.funct7 = 0 -> {bit_xor(a, b)}
    [] i.funct3 = 6 /\ i.funct7 = 0 -> {bit_or(a, b)}
    [] i.funct3 = 7 /\ i.funct7 = 0 -> {bit_and(a, b)}
    [] i.funct3 = 1 /\ i.funct7 = 0 -> {shl(a, b % XLen, XLen)}
    [] i.funct3 = 5 /\ i.funct7 = 0 -> {shr(a, b % XLen)}
    [] i.funct3 = 5 /\ i.funct7 = 32 -> {sar(a, b % XLen, XLen)}
    [] OTHER -> {}

rtype_mul(i, a, b) ==
  LET wide(n) == sign_extend(n, XLen, 2 * XLen)
      high(n) == n \div 2^XLen
  IN CASE i.funct3 = 0 -> wrapping_mul(a, b, XLen)
       [] i.funct3 = 1 -> high(wrapping_mul(wide(a), wide(b), 2 * XLen))
       [] i.funct3 = 3 -> high(wrapping_mul(a, b, 2 * XLen))
       [] i.funct3 = 2 -> high(wrapping_mul(wide(a), b, 2 * XLen))
       [] i.funct3 = 4 -> wrapping_div(a, b, XLen)
       [] i.funct3 = 5 -> a \div b
       [] i.funct3 = 6 -> wrapping_rem(a, b, XLen)
       [] i.funct3 = 7 -> a % b

rtype_op32(i, a, b) ==
  CASE i.funct3 = 0 /\ i.funct7 = 0 -> {wrapping_add(low(a), low(b), Half)}
    [] i.funct3 = 0 /\ i.funct7 = 32 -> {wrapping_sub(low(a), low(b), Half)}
    [] i.funct3 = 1 /\ i.funct7 = 0 -> {shl(low(a), low(b) % Half, Half)}
    [] i.funct3 = 5 /\ i.funct7 = 0 -> {shr(low(a), low(b) % Half)}
    [] i.funct3 = 5 /\ i.funct7 = 32 -> {sar(low(a), low(b) % Half, Half)}
    [] i.funct3 = 0 /\ i.funct7 = 1 -> {wrapping_mul(low(a), low(b), Half)}
    [] i.funct3 = 4 /\ i.funct7 = 1 -> {wrapping_div(low(a), low(b), Half)}
    [] i.funct3 = 5 /\ i.funct7 = 1 -> {low(a) \div low(b)}
    [] i.funct3 = 6 /\ i.funct7 = 1 -> {wrapping_rem(low(a), low(b), Half)}
    [] i.funct3 = 7 /\ i.funct7 = 1 -> {low(a) % low(b)}
    [] OTHER -> {}

rtype(i, a, b) ==
  CASE i.opcode = "OP" /\ i.funct7 = 1 -> {rtype_mul(i, a, b)}
    [] i.opcode = "OP" /\ i.funct7 # 1 -> rtype_op(i, a, b)
    [] i.opcode = "OP32" -> {sign_extend(n, Half, XLen) : n \in rtype_op32(i, a, b)}

-----------------------------------------------------------------------------
(* execute_itype_inst: the arithmetic arms, with the immediate as a u64 and *)
(* a u32.  Any bit above the shift amount makes a right shift arithmetic.   *)

itype_opimm(i, a) ==
  LET imm == wrap(i.imm, XLen)
      shamt == imm % XLen
  IN CASE i.funct3 = 0 -> wrapping_add(a, imm, XLen)
       [] i.funct3 = 2 -> IF signed(a, XLen) < signed(imm, XLen) THEN 1 ELSE 0
       [] i.funct3 = 3 -> IF a < imm THEN 1 ELSE 0
       [] i.funct3 = 4 -> bit_xor(a, imm)
       [] i.funct3 = 6 -> bit_or(a, imm)
       [] i.funct3 = 7 -> bit_and(a, imm)
       [] i.funct3 = 1 -> shl(a, shamt, XLen)
       [] i.funct3 = 5 -> IF imm >= XLen THEN sar(a, shamt, XLen) ELSE shr(a, shamt)

itype_opimm32(i, a) ==
  LET imm == wrap(i.imm, Half)
      shamt == imm % Half
  IN CASE i.funct3 = 0 -> {wrapping_add(low(a), imm, Half)}
       [] i.funct3 = 1 -> {shl(low(a), shamt, Half)}
       [] i.funct3 = 5 -> {IF imm >= Half THEN sar(low(a), shamt, Half) ELSE shr(low(a), shamt)}
       [] OTHER -> {}

itype(i, a) ==
  IF i.opcode = "OPIMM" THEN {itype_opimm(i, a)}
  ELSE {sign_extend(n, Half, XLen) : n \in itype_opimm32(i, a)}

\* Mutant of load: LBU, LHU and LWU extend the sign too.
load_signed(i, addr) ==
  LET n == 2^(i.funct3 % 4) IN sign_extend(read_ne(addr, n), Byte * n, XLen)
\* The loads: LB, LH, LW, LD (funct3 0..3) and LBU, LHU, LWU (4..6).
load(i, addr) ==
  LET n == 2^(i.funct3 % 4)
      v == read_ne(addr, n)
  IN IF i.funct3 < 3 THEN sign_extend(v, Byte * n, XLen) ELSE v

\* execute_btype_inst.
branches(i, a, b) ==
  CASE i.funct3 = 0 -> a = b
    [] i.funct3 = 1 -> a # b
    [] i.funct3 = 4 -> signed(a, XLen) < signed(b, XLen)
    [] i.funct3 = 5 -> signed(a, XLen) >= signed(b, XLen)
    [] i.funct3 = 6 -> a < b
    [] i.funct3 = 7 -> a >= b
    [] OTHER -> FALSE

-----------------------------------------------------------------------------
(* tick *)

Init ==
  /\ program_counter \in InitialPc
  /\ registers \in [Registers \ {0} -> InitialValue]
  /\ memory \in {[a \in Mapped |-> IF a % 3 = k THEN 1 ELSE 0] : k \in {0, 1}}
  /\ inst = NoInst /\ status = "run" /\ ticks = 0

Fetch ==
  /\ status = "run" /\ inst = NoInst /\ ticks < MaxTicks
  /\ inst' \in Instructions
  /\ ticks' = ticks + 1
  /\ UNCHANGED <<program_counter, registers, memory, status>>

\* The end of tick: the increment, which panics when it overflows (debug build).
increment(from) ==
  IF from + inst.size < 2^XLen
  THEN program_counter' = from + inst.size /\ UNCHANGED status
  ELSE status' = "panic" /\ program_counter' = from

\* A jump or a taken branch stores the target minus the size, for the increment
\* to undo.
jump(target) == increment(wrapping_sub(target, inst.size, XLen))

panic == status' = "panic" /\ UNCHANGED <<program_counter, registers, memory>>

addr_of(i) == wrapping_add(read_reg(i.rs1), wrap(i.imm, XLen), XLen)

RType ==
  /\ inst.opcode \in {"OP", "OP32"}
  /\ IF DividesByZero(inst) THEN panic
     ELSE LET v == rtype(inst, read_reg(inst.rs1), read_reg(inst.rs2))
          IN /\ IF v = {} THEN UNCHANGED registers ELSE write_reg(inst.rd, CHOOSE n \in v : TRUE)
             /\ increment(program_counter) /\ UNCHANGED memory

OpImm ==
  /\ inst.opcode \in {"OPIMM", "OPIMM32"}
  /\ LET v == itype(inst, read_reg(inst.rs1))
     IN IF v = {} THEN UNCHANGED registers ELSE write_reg(inst.rd, CHOOSE n \in v : TRUE)
  /\ increment(program_counter) /\ UNCHANGED memory

\* Jumps to itself are taken for endless loops: tick increments and returns None.
\* The link is the address after the instruction, compressed or not, and rd is
\* written after rs1 was read.
link_and_jump(target) ==
  IF program_counter + inst.size >= 2^XLen THEN panic
  ELSE IF target = program_counter
  THEN /\ status' = "exception" /\ program_counter' = program_counter + inst.size
       /\ UNCHANGED <<registers, memory>>
  ELSE /\ write_reg(inst.rd, program_counter + inst.size)
       /\ jump(target) /\ UNCHANGED memory

Jalr ==
  /\ inst.opcode = "JALR"
  /\ IF inst.funct3 = 0
     THEN link_and_jump(LET sum == addr_of(inst) IN sum - (sum % 2))
     ELSE increment(program_counter) /\ UNCHANGED <<registers, memory>>

Jal ==
  /\ inst.opcode = "JAL"
  /\ link_and_jump(wrapping_add(wrap(inst.imm, XLen), program_counter, XLen))

Load ==
  /\ inst.opcode = "LOAD"
  /\ LET addr == addr_of(inst)
     IN IF inst.funct3 = 7 THEN increment(program_counter) /\ UNCHANGED <<registers, memory>>
        ELSE IF ~accessible(addr, 2^(inst.funct3 % 4)) THEN panic
        ELSE /\ write_reg(inst.rd, load(inst, addr))
             /\ increment(program_counter) /\ UNCHANGED memory

\* execute_stype_inst.
Store ==
  /\ inst.opcode = "STORE"
  /\ LET addr == addr_of(inst)
     IN IF inst.funct3 > 3 THEN increment(program_counter) /\ UNCHANGED <<registers, memory>>
        ELSE IF ~accessible(addr, 2^inst.funct3) THEN panic
        ELSE /\ write_ne(addr, read_reg(inst.rs2), 2^inst.funct3)
             /\ increment(program_counter) /\ UNCHANGED registers

\* FENCE and EBREAK have no arm.
Nop ==
  /\ inst.opcode = "MISCMEM" \/ (inst.opcode = "SYSTEM" /\ inst.imm # 0)
  /\ increment(program_counter) /\ UNCHANGED <<registers, memory>>

\* ECALL, whatever funct3 is: the system call writes a result register, and what it
\* reads into memory, and lets tick go on, or asks for the instruction to be
\* repeated: as it was, or, after exec, at the start of another program with its
\* registers reset.
Ecall ==
  /\ inst.opcode = "SYSTEM" /\ inst.imm = 0
  /\ \/ /\ \E r \in Registers \ {0}, v \in InitialValue : write_reg(r, v)
        /\ increment(program_counter)
        /\ memory' \in {memory} \cup {[memory EXCEPT ![a] = 1] : a \in Mapped}
     \/ UNCHANGED <<program_counter, registers, memory, status>>
     \/ \E start \in InitialPc :
          /\ program_counter' = start
          /\ registers' = [r \in Registers \ {0} |-> 0]      \* reset_registers
          /\ UNCHANGED <<memory, status>>

Branch ==
  /\ inst.opcode = "BRANCH"
  /\ IF branches(inst, read_reg(inst.rs1), read_reg(inst.rs2))
     THEN jump(wrapping_add(program_counter, wrap(inst.imm, XLen), XLen))
     ELSE increment(program_counter)
  /\ UNCHANGED <<registers, memory>>

UType ==
  /\ inst.opcode \in {"LUI", "AUIPC"}
  /\ write_reg(inst.rd, LET imm == wrap(inst.imm, XLen)
                        IN IF inst.opcode = "LUI" THEN imm
                           ELSE wrapping_add(imm, program_counter, XLen))
  /\ increment(program_counter) /\ UNCHANGED memory

Tick ==
  /\ status = "run" /\ inst # NoInst
  /\ RType \/ OpImm \/ Jalr \/ Jal \/ Load \/ Store \/ Nop \/ Ecall \/ Branch \/ UType
  /\ inst' = IF status' = "panic" THEN inst ELSE NoInst
  /\ UNCHANGED ticks

Next == Fetch \/ Tick

Spec == Init /\ [][Next]_cpuVars

-----------------------------------------------------------------------------
Isa == INSTANCE RiscvIsa WITH
  pc <- program_counter, mem <- memory, x <- [r \in Registers |-> read_reg(r)]

\* Where the emulator stops instead of doing what the manual says.  The kernel
\* panics at an access to memory that is not mapped, at the end of the address
\* space (also for a target below the instruction's size), and at a division by
\* zero, of which the manual gives the result; a jump to itself ends the program.
Stops ==
  /\ inst # NoInst /\ status = "run"
  /\ \/ /\ status' = "panic"
        /\ \/ inst.opcode \in {"LOAD", "STORE"} /\ ~ (Isa!Touched \subseteq Mapped)
           \/ program_counter + inst.size >= 2^XLen
           \/ inst.opcode \in {"JAL", "JALR", "BRANCH"} /\ Isa!Target < inst.size
           \/ DividesByZero(inst)
     \/ status' = "exception" /\ inst.opcode \in {"JAL", "JALR"} /\ Isa!Target = program_counter

\* The emulator implements the manual, or stops where Stops says: every tick leaves
\* the program counter, all registers (x0 reads as zero) and memory as the
\* instruction's integer semantics says, for every encoding the manual defines.
ImplementsIsa ==
  Isa!Init /\ [][(Isa!Next /\ UNCHANGED status) \/ Stops]_<<program_counter, registers, memory, inst, status>>
=============================================================================

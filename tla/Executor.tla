------------------------------ MODULE Executor ------------------------------
(***************************************************************************)
(* One instruction from its word to its result: decode_stage,              *)
(* execute_stage and branch_stage of stages.c, the ALU of executor.c, and  *)
(* the opcode predicates of utils.c.  The 64 bits of a register are the    *)
(* bits of the model, so that widths, signs and carries are those of the   *)
(* code.  A shift takes its count modulo the width, as the processor the   *)
(* simulator is built for does where C leaves it undefined.                *)
(***************************************************************************)
EXTENDS Decoding

CONSTANTS Inputs,     \* an instruction word, the registers it finds and its pc
          Leftovers   \* what an unassigned local of the caller may hold

ASSUME InputsAssumption ==
    /\ \A input \in Inputs : /\ input.instruction \in Word
                             /\ input.file \in [0 .. 31 -> Long]
                             /\ input.pc \in Long
    /\ Leftovers \subseteq Long

VARIABLES stage,        \* the stage the instruction is about to enter
          instruction, file, pc,
          reg1, reg2, imm, extend_pc,
          res, branch

vars == <<stage, instruction, file, pc, reg1, reg2, imm, extend_pc, res, branch>>

Zero == [k \in 0 .. 63 |-> 0]
Four == [k \in 0 .. 63 |-> IF k = 2 THEN 1 ELSE 0]

-----------------------------------------------------------------------------
(* Unsigned arithmetic of either width. *)

\* The number in the low bits of a field.
Number(b) == b[0] + 2 * b[1] + 4 * b[2] + 8 * b[3] + 16 * b[4] + 32 * b[5] + 64 * b[6]

\* The carry into bit k: a lower bit, or carry_in below them all, makes one and
\* every bit between passes it on.
Carry(a, b, carry_in, k) ==
    LET passed(j) == \A i \in j + 1 .. k - 1 : a[i] + b[i] >= 1
    IN  IF \/ \E j \in 0 .. k - 1 : a[j] + b[j] = 2 /\ passed(j)
           \/ carry_in = 1 /\ passed(-1)
        THEN 1 ELSE 0

Plus(a, b, carry_in) ==
    [k \in DOMAIN a |-> (a[k] + b[k] + Carry(a, b, carry_in, k)) % 2]

Minus(a, b) == Plus(a, [k \in DOMAIN b |-> 1 - b[k]], 1)

Below(a, b) ==
    \E k \in DOMAIN a : a[k] < b[k] /\ \A j \in DOMAIN a : j > k => a[j] = b[j]

SignBit(a) == IF 63 \in DOMAIN a THEN 63 ELSE 31

SignedBelow(a, b) ==
    \/ a[SignBit(a)] > b[SignBit(b)]
    \/ a[SignBit(a)] = b[SignBit(b)] /\ Below(a, b)

\* The bool or comparison result as a register value.
Truth(p) == [k \in 0 .. 63 |-> IF k = 0 /\ p THEN 1 ELSE 0]

Count(a, n) == Number(n) % (SignBit(a) + 1)

ShiftRightSigned(a, n) ==
    [k \in DOMAIN a |-> a[IF k + n \in DOMAIN a THEN k + n ELSE SignBit(a)]]

\* (uint32_t) of a register, and back to uint64_t from unsigned and from signed.
Low(a) == [k \in 0 .. 31 |-> a[k]]

Widen(w) == [k \in 0 .. 63 |-> IF k < 32 THEN w[k] ELSE 0]

WidenSigned(w) == [k \in 0 .. 63 |-> IF k < 32 THEN w[k] ELSE w[31]]

xor(a, b) == [k \in DOMAIN a |-> (a[k] + b[k]) % 2]
and(a, b) == [k \in DOMAIN a |-> a[k] * b[k]]

-----------------------------------------------------------------------------
(* utils.c. *)

Opcode(w) == Number(get_opcode(w))
Funct3(w) == Number(get_funct3(w))
Funct7(w) == Number(get_funct7(w))

LOAD == \h03
SAVE == \h23
JALR == \h67
JAL  == \h6F

is_r(opcode)  == opcode \in {\h33, \h3B}
is_i(opcode)  == opcode \in {LOAD, \h13, \h1B, JALR, \h73}
is_s(opcode)  == opcode = SAVE
is_sb(opcode) == opcode = \h63
is_u(opcode)  == opcode \in {\h37, \h17}
is_uj(opcode) == opcode = JAL

is_branch(opcode) == is_sb(opcode) \/ opcode \in {JALR, JAL}
has_rs1(opcode)   == is_r(opcode) \/ is_i(opcode) \/ is_s(opcode) \/ is_sb(opcode)
has_rs2(opcode)   == is_r(opcode) \/ is_s(opcode) \/ is_sb(opcode)
has_imm(opcode)   == is_i(opcode) \/ is_s(opcode) \/ is_sb(opcode) \/ is_u(opcode) \/ is_uj(opcode)

get_imm(w) ==
    CASE is_i(Opcode(w))  -> get_imm_i(w)
      [] is_s(Opcode(w))  -> get_imm_s(w)
      [] is_sb(Opcode(w)) -> get_imm_sb(w)
      [] is_u(Opcode(w))  -> get_imm_u(w)
      [] is_uj(Opcode(w)) -> get_imm_uj(w)
      [] OTHER            -> Zero

\* With bit_num set, the bits above it are cleared.
unsign_expand(v, bit_num) ==
    [k \in DOMAIN v |-> IF v[bit_num] = 1 /\ k > bit_num THEN 0 ELSE v[k]]

-----------------------------------------------------------------------------
(* executor.c. *)

exec_r(w, a, b) ==
    LET f3 == Funct3(w)  f7 == Funct7(w)
    IN  IF Opcode(w) = \h33 /\ f7 = 0
        THEN CASE f3 = 0 -> Plus(a, b, 0)
               [] f3 = 1 -> ShiftLeft(a, Count(a, b))
               [] f3 = 2 -> Truth(SignedBelow(a, b))
               [] f3 = 3 -> Truth(Below(a, b))
               [] f3 = 4 -> xor(a, b)
               [] f3 = 5 -> ShiftRight(a, Count(a, b))
               [] f3 = 6 -> Or(a, b)
               [] f3 = 7 -> and(a, b)
        ELSE IF Opcode(w) = \h33 /\ f7 = \h20
        THEN CASE f3 = 0 -> Minus(a, b)
               [] f3 = 5 -> ShiftRightSigned(a, Count(a, b))
               [] OTHER  -> Zero
        ELSE IF f7 = 0
        THEN CASE f3 = 0 -> Widen(Plus(Low(a), Low(b), 0))
               [] f3 = 1 -> Widen(ShiftLeft(Low(a), Count(Low(a), b)))
               [] f3 = 5 -> Widen(ShiftRight(Low(a), Count(Low(a), b)))
               [] OTHER  -> Zero
        ELSE Zero  \* subw and sraw discard their result and fall through

exec_i(w, a, i) ==
    LET f3 == Funct3(w)  f7 == Funct7(w)  opcode == Opcode(w)
    IN  CASE opcode = LOAD                -> Plus(a, i, 0)
          [] opcode = \h13 /\ f3 = 0      -> Plus(a, i, 0)
          \* slli discards its result and falls through to slti
          [] opcode = \h13 /\ f3 \in 1 .. 2 -> Truth(SignedBelow(a, i))
          [] opcode = \h13 /\ f3 = 3      -> Truth(Below(a, unsign_expand(i, 11)))
          [] opcode = \h13 /\ f3 = 4      -> xor(a, i)
          [] opcode = \h13 /\ f3 = 5 /\ f7 = 0    -> ShiftRight(a, Count(a, i))
          [] opcode = \h13 /\ f3 = 5 /\ f7 = \h20 -> ShiftRightSigned(a, Count(a, i))
          [] opcode = \h13 /\ f3 = 6      -> Or(a, i)
          [] opcode = \h13 /\ f3 = 7      -> and(a, i)
          [] opcode = \h1B /\ f3 = 1 /\ f7 = 0 ->
                Widen(ShiftLeft(Low(a), Count(Low(a), i)))
          [] opcode = \h1B /\ f3 = 5 /\ f7 = 0 ->
                Widen(ShiftRight(Low(a), Count(Low(a), i)))
          [] opcode = \h1B /\ f3 = 5 /\ f7 = \h20 ->
                WidenSigned(ShiftRightSigned(Low(a), Count(Low(a), i)))
          [] OTHER -> Zero

exec_s(w, a, i) == Plus(a, i, 0)

\* Mutant: blt compares unsigned.
exec_sb_Unsigned(w, a, b) ==
    CASE Funct3(w) = 0 -> a = b
      [] Funct3(w) = 1 -> a # b
      [] Funct3(w) \in {4, 6} -> Below(a, b)
      [] Funct3(w) = 5 -> a = b
      [] Funct3(w) = 7 -> Below(b, a)
      [] OTHER -> FALSE

exec_sb(w, a, b) ==
    CASE Funct3(w) = 0 -> a = b
      [] Funct3(w) = 1 -> a # b
      [] Funct3(w) = 4 -> SignedBelow(a, b)
      [] Funct3(w) = 5 -> a = b
      [] Funct3(w) = 6 -> Below(a, b)
      [] Funct3(w) = 7 -> Below(b, a)
      [] OTHER -> FALSE

exec_u(w, i, p) == IF Opcode(w) = \h17 THEN Plus(p, i, 0) ELSE i

exec_uj(p) == Plus(p, Four, 0)

-----------------------------------------------------------------------------
(* stages.c.  A local that a stage leaves unassigned keeps a leftover. *)

Init ==
    /\ stage = "decode"
    /\ \E input \in Inputs :
         instruction = input.instruction /\ file = input.file /\ pc = input.pc
    /\ reg1 = Zero /\ reg2 = Zero /\ imm = Zero
    /\ extend_pc \in Leftovers /\ res \in Leftovers
    /\ branch = FALSE

register_read_one(r) == IF Number(r) = 0 THEN Zero ELSE file[Number(r)]

\* A register the opcode does not name is read as register 0.
decode_stage ==
    LET opcode == Opcode(instruction)
        read(has, r) == IF has THEN register_read_one(r) ELSE Zero
    IN  /\ stage = "decode" /\ stage' = "execute"
        /\ reg1' = read(has_rs1(opcode), get_rs1(instruction))
        /\ reg2' = read(has_rs2(opcode), get_rs2(instruction))
        /\ imm' = IF has_imm(opcode) THEN get_imm(instruction) ELSE Zero
        /\ extend_pc' = IF is_branch(opcode) THEN Plus(pc, imm', 0) ELSE extend_pc
        /\ UNCHANGED <<instruction, file, pc, res, branch>>

execute_stage(w, opcode) ==
    CASE is_r(opcode)   -> exec_r(w, reg1, reg2)
      [] opcode = JALR  -> Plus(pc, Four, 0)
      [] is_i(opcode) /\ opcode # JALR -> exec_i(w, reg1, imm)
      [] is_s(opcode)   -> exec_s(w, reg1, imm)
      [] is_u(opcode)   -> exec_u(w, imm, pc)
      [] is_uj(opcode)  -> exec_uj(pc)
      [] OTHER          -> res

branch_stage(w, opcode) ==
    IF is_sb(opcode) THEN exec_sb(w, reg1, reg2) ELSE opcode \in {JALR, JAL}

\* What stage_execute calls between its stall tests and the branch target buffer.
stage_execute ==
    /\ stage = "execute" /\ stage' = "done"
    /\ res' = execute_stage(instruction, Opcode(instruction))
    /\ branch' = branch_stage(instruction, Opcode(instruction))
    /\ UNCHANGED <<instruction, file, pc, reg1, reg2, imm, extend_pc>>

Next == decode_stage \/ stage_execute

Spec == Init /\ [][Next]_vars

-----------------------------------------------------------------------------
(* Reference: RV64I as the manual gives it, where OP and OP-IMM share one  *)
(* table of functions, and the word instructions apply it to the low half. *)

Alu(f3, alternate, a, b) ==
    CASE f3 = 0 -> IF alternate THEN Minus(a, b) ELSE Plus(a, b, 0)
      [] f3 = 1 -> ShiftLeft(a, Count(a, b))
      [] f3 = 2 -> Truth(SignedBelow(a, b))
      [] f3 = 3 -> Truth(Below(a, b))
      [] f3 = 4 -> xor(a, b)
      [] f3 = 5 -> IF alternate THEN ShiftRightSigned(a, Count(a, b))
                                ELSE ShiftRight(a, Count(a, b))
      [] f3 = 6 -> Or(a, b)
      [] f3 = 7 -> and(a, b)

\* Words of RV64I, but for FENCE and SYSTEM, which compute nothing.
RV64I(w) ==
    LET f3 == Funct3(w)  f7 == Funct7(w)
    IN  CASE Opcode(w) = \h33 -> f7 = 0 \/ (f7 = \h20 /\ f3 \in {0, 5})
          [] Opcode(w) = \h3B -> \/ f7 = 0 /\ f3 \in {0, 1, 5}
                                 \/ f7 = \h20 /\ f3 \in {0, 5}
          [] Opcode(w) = \h13 -> /\ f3 = 1 => f7 \in {0, 1}
                                 /\ f3 = 5 => f7 \in {0, 1, \h20, \h21}
          [] Opcode(w) = \h1B -> \/ f3 = 0
                                 \/ f3 = 1 /\ f7 = 0
                                 \/ f3 = 5 /\ f7 \in {0, \h20}
          [] Opcode(w) = LOAD -> f3 # 7
          [] Opcode(w) = SAVE -> f3 <= 3
          [] Opcode(w) = JALR -> f3 = 0
          [] Opcode(w) = \h63 -> f3 \notin {2, 3}
          [] OTHER -> Opcode(w) \in {\h37, \h17, JAL}

\* The value, or for a load and a store the address.
Result(w, a, b, p) ==
    LET opcode == Opcode(w)  alternate == w[30] = 1  f3 == Funct3(w)
    IN  CASE opcode = \h33 -> Alu(f3, alternate, a, b)
          [] opcode = \h3B -> WidenSigned(Alu(f3, alternate, Low(a), Low(b)))
          [] opcode = \h13 -> Alu(f3, alternate /\ f3 = 5, a, ImmediateI(w))
          [] opcode = \h1B ->
                WidenSigned(Alu(f3, alternate /\ f3 = 5, Low(a), Low(ImmediateI(w))))
          [] opcode = LOAD -> Plus(a, ImmediateI(w), 0)
          [] opcode = SAVE -> Plus(a, ImmediateS(w), 0)
          [] opcode = \h37 -> ImmediateU(w)
          [] opcode = \h17 -> Plus(p, ImmediateU(w), 0)
          [] OTHER         -> Plus(p, Four, 0)

\* An odd funct3 negates the condition of the even one before it.
Condition(f3, a, b) ==
    LET even == CASE f3 \in {0, 1} -> a = b
                  [] f3 \in {4, 5} -> SignedBelow(a, b)
                  [] f3 \in {6, 7} -> Below(a, b)
    IN  even # (f3 % 2 = 1)

Target(w, a, p) ==
    CASE Opcode(w) = \h63 -> Plus(p, ImmediateB(w), 0)
      [] Opcode(w) = JAL  -> Plus(p, ImmediateJ(w), 0)
      [] Opcode(w) = JALR -> [Plus(a, ImmediateI(w), 0) EXCEPT ![0] = 0]

\* The registers the word names.
First  == register_read_one(get_rs1(instruction))
Second == register_read_one(get_rs2(instruction))

Right ==
    LET opcode == Opcode(instruction)  a == First  b == Second
    IN  IF is_sb(opcode)
        THEN /\ branch = Condition(Funct3(instruction), a, b)
             /\ branch => extend_pc = Target(instruction, a, pc)
        ELSE /\ res = Result(instruction, a, b, pc)
             /\ branch = (opcode \in {JAL, JALR})
             /\ branch => extend_pc = Target(instruction, a, pc)

-----------------------------------------------------------------------------
(* Properties. *)

\* Where the executor departs from RV64I: slli gives what slti would, addiw,
\* subw and sraw give zero, jalr takes its target from the pc, the word results
\* are widened without their sign, sltiu drops the sign of its immediate, a
\* shift by 32 or more has a funct7 that is not recognised, bge tests equality
\* and bgeu greater-than.
Departs(w, a, b, p) ==
    LET opcode == Opcode(w)  f3 == Funct3(w)  f7 == Funct7(w)  i == ImmediateI(w)
        result == Result(w, a, b, p)
    IN  \/ opcode = \h13 /\ f3 = 1 /\ result # Truth(SignedBelow(a, i))
        \/ opcode = \h1B /\ f3 = 0 /\ result # Zero
        \/ opcode = \h3B /\ f7 = \h20 /\ result # Zero
        \/ opcode = JALR /\ Target(w, a, p) # Plus(p, i, 0)
        \/ opcode = \h3B /\ f7 = 0 /\ result[31] = 1
        \/ opcode = \h1B /\ f3 \in {1, 5} /\ f7 = 0 /\ result[31] = 1
        \/ opcode = \h13 /\ f3 = 3 /\ Below(a, i)
             /\ ~ Below(a, [k \in 0 .. 63 |-> IF k < 12 THEN i[k] ELSE 0])
        \/ opcode = \h13 /\ f3 = 5 /\ w[25] = 1 /\ result # Zero
        \/ opcode = \h63 /\ f3 = 5 /\ SignedBelow(b, a)
        \/ opcode = \h63 /\ f3 = 7 /\ a = b

TypeOK ==
    /\ stage \in {"decode", "execute", "done"}
    /\ {reg1, reg2, imm, extend_pc, res} \subseteq Long
    /\ branch \in BOOLEAN

\* For every word of RV64I, on every operands and at every pc, the result, the
\* outcome of the branch and its target are those of the manual if and only if
\* the word and its operands are none of the departures named above
\* (decode_stage, execute_stage, branch_stage, executor.c).
DeviatesExactly ==
    stage = "done" /\ RV64I(instruction) =>
        (Right <=> ~ Departs(instruction, First, Second, pc))

\* The immediates of the word being executed are right (utils.c).
ImmediatesAreRight == stage = "execute" => ImmediateRight(instruction)

=============================================================================

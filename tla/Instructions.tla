---------------------------- MODULE Instructions ----------------------------
(***************************************************************************)
(* What the pipeline can tell of an instruction word: the class of its     *)
(* opcode, the registers its fields name and its sign-extended immediate.  *)
(* The class predicates are those of utils.c; what the ALU computes for a  *)
(* word is the constant operator Exec, and whether a conditional branch is *)
(* taken is Taken, so that everything proved about the pipeline holds for  *)
(* every ALU.                                                              *)
(***************************************************************************)
EXTENDS Integers

CONSTANTS Registers,        \* the register numbers, 0 among them
          Values,           \* the values a register can hold
          Exec(_, _, _, _), \* result of a word on reg1, reg2 at a pc
          Taken(_, _, _)    \* outcome of a conditional branch on reg1, reg2

\* One name per group of opcodes that utils.c treats alike.  "OTHER" is a word
\* whose opcode is in no group, such as FENCE; "NOP" is the word 0, which the
\* pipeline also uses for its bubbles.
Ops == {"R", "I", "LOAD", "SAVE", "SB", "U", "JAL", "JALR", "EBREAK", "OTHER", "NOP"}

Instr == [op : Ops, rd : Registers, rs1 : Registers, rs2 : Registers, imm : Int]

NOP == [op |-> "NOP", rd |-> 0, rs1 |-> 0, rs2 |-> 0, imm |-> 0]

has_rs1(i) == i.op \in {"R", "I", "LOAD", "JALR", "EBREAK", "SAVE", "SB"}

has_rs2(i) == i.op \in {"R", "SAVE", "SB"}

has_rd(i) == i.op \in {"R", "I", "LOAD", "JALR", "EBREAK", "U", "JAL"}

is_branch(i) == i.op \in {"SB", "JALR", "JAL"}

\* The words for which execute_stage assigns res.
computes(i) == i.op \notin {"SB", "OTHER", "NOP"}

writes(i, r) == has_rd(i) /\ i.rd = r

reads(i, r) == (has_rs1(i) /\ i.rs1 = r) \/ (has_rs2(i) /\ i.rs2 = r)

\* branch_stage: jumps are always taken, other words never.
branch_stage(i, reg1, reg2) ==
    \/ i.op \in {"JAL", "JALR"}
    \/ i.op = "SB" /\ Taken(i, reg1, reg2)

\* register_read_one: register 0 reads as 0 whatever register_file[0] holds.
register_read_one(file, r) == IF r = 0 THEN 0 ELSE file[r]

ASSUME InstructionsAssumption ==
    /\ Registers \subseteq Nat /\ 0 \in Registers
    /\ 0 \in Values

=============================================================================

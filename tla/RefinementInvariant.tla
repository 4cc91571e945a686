------------------------ MODULE RefinementInvariant -------------------------
(***************************************************************************)
(* Why the pipeline keeps in step with the sequential machine until it     *)
(* derails: what each pipeline register holds, in each phase, of the       *)
(* instruction in it, in terms of the registers AbsRegs and the order of   *)
(* the program; and which bubbles the stall signals have already made.     *)
(***************************************************************************)
EXTENDS PipelineHistory, PipelineInvariant

\* Every live instruction is an instruction of the program in memory.
Real(r) ==
    /\ r.instruction.op \notin {"EBREAK", "NOP"}
    /\ r.instruction = memory[r.new_pc]

RealM(m) == Live(m) /\ ~m.control_stalled => Real(m)

InstructionsReal ==
    /\ Live(cur_d_reg) => Real(cur_d_reg)
    /\ Live(cur_x_reg) => Real(cur_x_reg)
    /\ RealM(cur_m_reg)
    /\ phase \in {"D", "F", "L"} => RealM(new_m_reg)
    /\ phase \in {"F", "L"} => (Live(new_x_reg) => Real(new_x_reg))
    /\ phase = "L" => (Live(new_d_reg) => Real(new_d_reg))

\* A stage that was told to flush has left a bubble, one that was not has
\* handed its instruction on.  A bubble of F's own making says so.
BubblesMade ==
    /\ phase \in {"X", "D", "F"} /\ MemoryFlushes =>
         new_w_reg.instruction = NOP /\ ~new_w_reg.stalled
    /\ phase \in {"D", "F"} =>
         new_m_reg.instruction = IF ExecuteFlushes THEN NOP ELSE cur_x_reg.instruction
    /\ phase = "F" /\ (DecodeNothing \/ DecodeFlushes) =>
         new_x_reg.instruction = NOP /\ ~new_x_reg.data_stalled
    /\ phase # "L" /\ ~Live(cur_d_reg) => cur_d_reg.stalled \/ ~Live(cur_x_reg)
    /\ phase = "L" /\ ~Live(new_d_reg) => new_d_reg.stalled

\* The value in W is in the register file once W has run, and M has handed
\* its own on.
ResultsHandedOn ==
    /\ phase \in {"M", "X", "D"} =>
         \A r \in Registers : writes(cur_w_reg.instruction, r) => regs[r] = cur_w_reg.val
    /\ phase \in {"X", "D"} /\ ~MemoryFlushes /\ ~new_w_reg.stalled =>
         /\ new_w_reg.instruction = cur_m_reg.instruction
         /\ has_rd(cur_m_reg.instruction) /\ cur_m_reg.instruction.op # "LOAD"
              => new_w_reg.val = cur_m_reg.res

\* The operands the sequential machine gives to instruction i.
Operand1(i) == IF has_rs1(i) THEN AbsRegs[i.rs1] ELSE 0
Operand2(i) == IF has_rs2(i) THEN AbsRegs[i.rs2] ELSE 0

OperandsRight(x) ==
    /\ x.reg1 = Operand1(x.instruction)
    /\ x.reg2 = Operand2(x.instruction)

Independent(x, m) ==
    \A r \in Registers : ~(reads(x.instruction, r) /\ writes(m.instruction, r))

\* An instruction on its way to X has the operands of the sequential machine,
\* and none of them is the result of the instruction before it.
OperandsAreRight ==
    /\ phase \in {"prompt", "W", "M"} /\ Live(cur_x_reg) /\ ~ExecuteFlushes =>
         OperandsRight(cur_x_reg) /\ Independent(cur_x_reg, cur_m_reg)
    /\ phase = "X" /\ Live(cur_x_reg) /\ ~ExecuteFlushes /\ ~new_w_reg.stalled =>
         OperandsRight(cur_x_reg)
    /\ phase \in {"F", "L"} /\ Live(new_x_reg)
         /\ ~new_m_reg.control_stalled /\ ~new_w_reg.stalled =>
         OperandsRight(new_x_reg) /\ Independent(new_x_reg, new_m_reg)

\* The address the sequential machine goes to from instruction i at a.
Following(i, a) ==
    (a + IF branch_stage(i, Operand1(i), Operand2(i)) THEN i.imm ELSE 1) % PCTop

\* An instruction that X let go on has its result, and `next`, where the
\* pipeline goes on behind it, is where the program does.
Executed(m, next) ==
    Live(m) /\ ~m.control_stalled =>
      LET i == m.instruction
      IN  /\ computes(i) => m.res = Exec(i, Operand1(i), Operand2(i), m.new_pc)
          /\ next = Following(i, m.new_pc)

Or(q, next) == IF q.live THEN q.at ELSE next

ExecutedRight ==
    /\ phase \in {"prompt", "W", "M"} /\ ~cur_w_reg.stalled =>
         Executed(cur_m_reg, Or(CurX, Or(CurD, pc)))
    /\ phase = "D" /\ ~new_w_reg.stalled => Executed(new_m_reg, Or(CurD, pc))
    /\ phase = "F" /\ ~new_w_reg.stalled => Executed(new_m_reg, Or(NewX, pc))
    /\ phase = "L" /\ ~new_w_reg.stalled => Executed(new_m_reg, Or(NewX, Or(NewD, pc)))

InStep ==
    /\ InstructionsReal
    /\ BubblesMade
    /\ ResultsHandedOn
    /\ OperandsAreRight
    /\ ExecutedRight

StaysInStep == ~derailed => InStep

\* The sequential machine on the program in memory, derailed or not.
Machine == INSTANCE SequentialMachine WITH
    code <- memory, pc <- OldestPC, regs <- AbsRegs

=============================================================================

-------------------------- MODULE RefinementProofs --------------------------
(***************************************************************************)
(* The pipeline implements the sequential machine until it derails, for    *)
(* every program, ALU, memory size, line size and number of BTB entries.   *)
(* One lemma per stage: it keeps InStep, and it is a step of the           *)
(* sequential machine or changes nothing that machine has.                 *)
(***************************************************************************)
EXTENDS RefinementInvariant, PipelineProofs

-----------------------------------------------------------------------------
(* The refinement mapping.                                                 *)

\* The oldest instruction of a queue is the first that is live.
LEMMA OldestIs ==
    ASSUME NEW q, DOMAIN q \subseteq Nat, NEW k \in DOMAIN q, q[k].live,
           \A j \in DOMAIN q : j < k => ~q[j].live
    PROVE  Oldest(q) = q[k].at
<1> DEFINE live == {j \in DOMAIN q : q[j].live}
           First == CHOOSE i \in live : \A j \in live : i <= j
<1>1. k \in live /\ \A j \in live : k <= j
  OBVIOUS
<1>2. First \in live /\ \A j \in live : First <= j
  BY <1>1
<1>3. First = k
  BY <1>1, <1>2
<1>4. QED BY <1>3 DEF Oldest

\* The queues of the phases have five, six or seven places.
LEMMA Oldest5 ==
    ASSUME NEW q, DOMAIN q = {1, 2, 3, 4, 5}, q[5].live = TRUE
    PROVE  Oldest(q)
             = Or(q[1], Or(q[2], Or(q[3], Or(q[4], q[5].at))))
<1>1. \A k \in {1, 2, 3, 4, 5} :
        q[k].live /\ (\A j \in {1, 2, 3, 4, 5} : j < k => ~q[j].live)
          => Oldest(q) = q[k].at
  BY OldestIs
<1>2. q[1].live => Oldest(q) = q[1].at
  BY <1>1
<1>3. ~q[1].live /\ q[2].live => Oldest(q) = q[2].at
  BY <1>1
<1>4. ~q[1].live /\ ~q[2].live /\ q[3].live => Oldest(q) = q[3].at
  BY <1>1
<1>5. ~q[1].live /\ ~q[2].live /\ ~q[3].live /\ q[4].live => Oldest(q) = q[4].at
  BY <1>1
<1>6. ~q[1].live /\ ~q[2].live /\ ~q[3].live /\ ~q[4].live
      /\ q[5].live => Oldest(q) = q[5].at
  BY <1>1
<1>7. QED BY <1>2, <1>3, <1>4, <1>5, <1>6 DEF Or

LEMMA Oldest6 ==
    ASSUME NEW q, DOMAIN q = {1, 2, 3, 4, 5, 6}, q[6].live = TRUE
    PROVE  Oldest(q)
             = Or(q[1], Or(q[2], Or(q[3], Or(q[4], Or(q[5], q[6].at)))))
<1>1. \A k \in {1, 2, 3, 4, 5, 6} :
        q[k].live /\ (\A j \in {1, 2, 3, 4, 5, 6} : j < k => ~q[j].live)
          => Oldest(q) = q[k].at
  BY OldestIs
<1>2. q[1].live => Oldest(q) = q[1].at
  BY <1>1
<1>3. ~q[1].live /\ q[2].live => Oldest(q) = q[2].at
  BY <1>1
<1>4. ~q[1].live /\ ~q[2].live /\ q[3].live => Oldest(q) = q[3].at
  BY <1>1
<1>5. ~q[1].live /\ ~q[2].live /\ ~q[3].live /\ q[4].live => Oldest(q) = q[4].at
  BY <1>1
<1>6. ~q[1].live /\ ~q[2].live /\ ~q[3].live /\ ~q[4].live
      /\ q[5].live => Oldest(q) = q[5].at
  BY <1>1
<1>7. ~q[1].live /\ ~q[2].live /\ ~q[3].live /\ ~q[4].live
      /\ ~q[5].live /\ q[6].live => Oldest(q) = q[6].at
  BY <1>1
<1>8. QED BY <1>2, <1>3, <1>4, <1>5, <1>6, <1>7 DEF Or

LEMMA Oldest7 ==
    ASSUME NEW q, DOMAIN q = {1, 2, 3, 4, 5, 6, 7}, q[7].live = TRUE
    PROVE  Oldest(q)
             = Or(q[1], Or(q[2], Or(q[3], Or(q[4], Or(q[5], Or(q[6], q[7].at))))))
<1>1. \A k \in {1, 2, 3, 4, 5, 6, 7} :
        q[k].live /\ (\A j \in {1, 2, 3, 4, 5, 6, 7} : j < k => ~q[j].live)
          => Oldest(q) = q[k].at
  BY OldestIs
<1>2. q[1].live => Oldest(q) = q[1].at
  BY <1>1
<1>3. ~q[1].live /\ q[2].live => Oldest(q) = q[2].at
  BY <1>1
<1>4. ~q[1].live /\ ~q[2].live /\ q[3].live => Oldest(q) = q[3].at
  BY <1>1
<1>5. ~q[1].live /\ ~q[2].live /\ ~q[3].live /\ q[4].live => Oldest(q) = q[4].at
  BY <1>1
<1>6. ~q[1].live /\ ~q[2].live /\ ~q[3].live /\ ~q[4].live
      /\ q[5].live => Oldest(q) = q[5].at
  BY <1>1
<1>7. ~q[1].live /\ ~q[2].live /\ ~q[3].live /\ ~q[4].live
      /\ ~q[5].live /\ q[6].live => Oldest(q) = q[6].at
  BY <1>1
<1>8. ~q[1].live /\ ~q[2].live /\ ~q[3].live /\ ~q[4].live
      /\ ~q[5].live /\ ~q[6].live /\ q[7].live => Oldest(q) = q[7].at
  BY <1>1
<1>9. QED BY <1>2, <1>3, <1>4, <1>5, <1>6, <1>7, <1>8 DEF Or

Prompt == {"prompt", "W", "M"}

\* Where the oldest instruction in flight is, phase by phase.
OldestByPhase ==
    /\ phase \in Prompt => OldestPC = Or(CurW, Or(CurM, Or(CurX, Or(CurD, pc))))
    /\ phase = "X" =>
         OldestPC = Or(NewW, Or(CurW, Or(CurMRedirect, Or(CurX, Or(CurD, pc)))))
    /\ phase = "D" =>
         OldestPC = Or(NewW, Or(CurW, Or(CurMRedirect, Or(NewM, Or(CurXRedirect, Or(CurD, pc))))))
    /\ phase = "F" =>
         OldestPC = Or(NewW, Or(CurW, Or(CurMRedirect, Or(NewM, Or(NewX, Or(CurXRedirect, pc))))))
    /\ phase = "L" => OldestPC = Or(NewW, Or(NewM, Or(NewX, Or(NewD, pc))))

LEMMA MappingLemma == OldestByPhase
<1>1. ToFetch.live = TRUE /\ ToFetch.at = pc
  BY DEF ToFetch
<1>2. CASE phase \in Prompt
  <2>1. InFlight = <<CurW, CurM, CurX, CurD, ToFetch>>
    BY <1>2 DEF InFlight, Prompt
  <2>2. /\ DOMAIN InFlight = {1, 2, 3, 4, 5}
        /\ InFlight[1] = CurW /\ InFlight[2] = CurM
        /\ InFlight[3] = CurX /\ InFlight[4] = CurD
        /\ InFlight[5] = ToFetch
    BY <2>1
  <2>3. QED BY <1>1, <1>2, <2>2, Oldest5 DEF OldestByPhase, OldestPC, Prompt
<1>3. CASE phase = "X"
  <2>1. InFlight = <<NewW, CurW, CurMRedirect, CurX, CurD, ToFetch>>
    BY <1>3 DEF InFlight
  <2>2. /\ DOMAIN InFlight = {1, 2, 3, 4, 5, 6}
        /\ InFlight[1] = NewW /\ InFlight[2] = CurW
        /\ InFlight[3] = CurMRedirect /\ InFlight[4] = CurX
        /\ InFlight[5] = CurD /\ InFlight[6] = ToFetch
    BY <2>1
  <2>3. QED BY <1>1, <1>3, <2>2, Oldest6 DEF OldestByPhase, OldestPC, Prompt
<1>4. CASE phase = "D"
  <2>1. InFlight = <<NewW, CurW, CurMRedirect, NewM, CurXRedirect, CurD, ToFetch>>
    BY <1>4 DEF InFlight
  <2>2. /\ DOMAIN InFlight = {1, 2, 3, 4, 5, 6, 7}
        /\ InFlight[1] = NewW /\ InFlight[2] = CurW
        /\ InFlight[3] = CurMRedirect /\ InFlight[4] = NewM
        /\ InFlight[5] = CurXRedirect /\ InFlight[6] = CurD
        /\ InFlight[7] = ToFetch
    BY <2>1
  <2>3. QED BY <1>1, <1>4, <2>2, Oldest7 DEF OldestByPhase, OldestPC, Prompt
<1>5. CASE phase = "F"
  <2>1. InFlight = <<NewW, CurW, CurMRedirect, NewM, NewX, CurXRedirect, ToFetch>>
    BY <1>5 DEF InFlight
  <2>2. /\ DOMAIN InFlight = {1, 2, 3, 4, 5, 6, 7}
        /\ InFlight[1] = NewW /\ InFlight[2] = CurW
        /\ InFlight[3] = CurMRedirect /\ InFlight[4] = NewM
        /\ InFlight[5] = NewX /\ InFlight[6] = CurXRedirect
        /\ InFlight[7] = ToFetch
    BY <2>1
  <2>3. QED BY <1>1, <1>5, <2>2, Oldest7 DEF OldestByPhase, OldestPC, Prompt
<1>6. CASE phase = "L"
  <2>1. InFlight = <<NewW, NewM, NewX, NewD, ToFetch>>
    BY <1>6 DEF InFlight
  <2>2. /\ DOMAIN InFlight = {1, 2, 3, 4, 5}
        /\ InFlight[1] = NewW /\ InFlight[2] = NewM
        /\ InFlight[3] = NewX /\ InFlight[4] = NewD
        /\ InFlight[5] = ToFetch
    BY <2>1
  <2>3. QED BY <1>1, <1>6, <2>2, Oldest5 DEF OldestByPhase, OldestPC, Prompt
<1>7. QED BY <1>2, <1>3, <1>4, <1>5, <1>6 DEF OldestByPhase

LEMMA MappingNext == OldestByPhase /\ OldestByPhase'
<1>1. OldestByPhase
  BY MappingLemma
<1>2. QED BY <1>1, PTL

-----------------------------------------------------------------------------
(* The registers of the sequential machine.                                *)

\* What register r will hold once w has been written back.
Latest(w, r) == IF ~w.stalled /\ writes(w.instruction, r) THEN w.val ELSE regs[r]

RegsByPhase ==
    /\ AbsRegs \in [Registers -> Values]
    /\ \A r \in Registers : AbsRegs[r] = IF r = 0 THEN 0 ELSE Latest(Committed, r)

LEMMA RegsLemma == Base => RegsByPhase
<1> SUFFICES ASSUME Base
             PROVE  RegsByPhase
  OBVIOUS
<1> USE Constants, InstructionsAssumption
<1> DEFINE w == Committed
<1>1. regs \in [Registers -> Values]
  BY DEF Base, TypeOK
<1>2. w.instruction.rd \in Registers /\ (has_rd(w.instruction) => w.val \in Values)
  <2>1. GarbageW.instruction = NOP
    BY DEF GarbageW
  <2>2. CASE phase \in {"prompt", "W"}
    BY <2>2 DEF Committed, Base, TypeOK, stage_reg_w, Instr, RegistersGood, GoodW
  <2>3. CASE phase = "M"
    BY <2>1, <2>3 DEF Committed, NOP, has_rd
  <2>4. CASE phase \in {"X", "D", "F", "L"}
    BY <2>4 DEF Committed, Base, TypeOK, stage_reg_w, Instr, RegistersGood, GoodW
  <2>5. QED BY <2>2, <2>3, <2>4 DEF Base, TypeOK
<1> HIDE DEF w
<1> DEFINE file == IF ~w.stalled /\ has_rd(w.instruction)
                   THEN [regs EXCEPT ![w.instruction.rd] = w.val]
                   ELSE regs
<1>3. /\ file \in [Registers -> Values]
      /\ \A r \in Registers : file[r] = Latest(w, r)
  BY <1>1, <1>2 DEF Latest, writes
<1>4. AbsRegs = [file EXCEPT ![0] = 0]
  BY DEF AbsRegs, w
<1> HIDE DEF file
<1>5. QED BY <1>3, <1>4 DEF RegsByPhase, w

LEMMA RegsNext == (Base => RegsByPhase) /\ (Base' => RegsByPhase')
<1>1. Base => RegsByPhase
  BY RegsLemma
<1>2. QED BY <1>1, PTL

-----------------------------------------------------------------------------
(* The steps in which the sequential machine does nothing.                 *)

LEMMA RunCommandInStep ==
    ASSUME Base, InStep, RunCommand
    PROVE  InStep' /\ UNCHANGED <<OldestPC, AbsRegs>>
<1> USE DEF RunCommand, cur_regs
<1>1. AbsRegs' = AbsRegs
  BY DEF AbsRegs, Committed
<1>2. OldestPC' = OldestPC
  BY MappingNext DEF OldestByPhase, Prompt, CurW, CurM, CurX, CurD, Or, Live
<1>3. InstructionsReal'
  BY DEF InStep, InstructionsReal, RealM, Real, Live
<1>4. BubblesMade'
  BY DEF InStep, BubblesMade, Live
<1>5. ResultsHandedOn'
  BY DEF InStep, ResultsHandedOn
<1>6. OperandsAreRight'
  BY <1>1 DEF InStep, OperandsAreRight, OperandsRight, Operand1, Operand2, Independent, Live,
              ExecuteFlushes
<1>7. ExecutedRight'
  BY <1>1 DEF InStep, ExecutedRight, Executed, Following, Operand1, Operand2, Or, CurX, CurD,
              Live
<1>8. QED BY <1>1, <1>2, <1>3, <1>4, <1>5, <1>6, <1>7 DEF InStep

LEMMA WritebackInStep ==
    ASSUME Base, InStep, StageWriteback
    PROVE  InStep' /\ UNCHANGED <<OldestPC, AbsRegs>>
<1> USE DEF StageWriteback, cur_regs, new_regs
<1>1. AbsRegs' = AbsRegs
  <2>1. Base'
    BY WritebackStep
  <2>2. Committed = cur_w_reg /\ Committed' = GarbageW
    BY DEF Committed
  <2>3. \A r \in Registers : Latest(Committed, r) = Latest(Committed, r)'
    BY <2>2 DEF Latest, writes, GarbageW, NOP, has_rd, Base, TypeOK
  <2>4. QED BY <2>1, <2>3, RegsNext DEF RegsByPhase
<1>2. OldestPC' = OldestPC
  BY MappingNext DEF OldestByPhase, Prompt, CurW, CurM, CurX, CurD, Or, Live
<1>3. InstructionsReal'
  BY DEF InStep, InstructionsReal, RealM, Real, Live
<1>4. BubblesMade'
  BY DEF InStep, BubblesMade, Live
<1>5. ResultsHandedOn'
  <2>1. \A r \in Registers : writes(cur_w_reg.instruction, r) => regs'[r] = cur_w_reg.val
    <3>1. cur_w_reg.stalled => ~has_rd(cur_w_reg.instruction)
      BY DEF Base, RegistersGood, GoodW, has_rd, NOP
    <3>2. QED BY <3>1 DEF writes, Base, TypeOK
  <2>2. QED BY <2>1 DEF ResultsHandedOn
<1>6. OperandsAreRight'
  BY <1>1 DEF InStep, OperandsAreRight, OperandsRight, Operand1, Operand2, Independent, Live,
              ExecuteFlushes
<1>7. ExecutedRight'
  BY <1>1 DEF InStep, ExecutedRight, Executed, Following, Operand1, Operand2, Or, CurX, CurD,
              Live
<1>8. QED BY <1>1, <1>2, <1>3, <1>4, <1>5, <1>6, <1>7 DEF InStep

LEMMA LatchInStep ==
    ASSUME Base, InStep, Latch
    PROVE  InStep' /\ UNCHANGED <<OldestPC, AbsRegs>>
<1> USE DEF Latch, new_regs
<1>0. phase' \in {"prompt", "W"}
  OBVIOUS
<1>1. AbsRegs' = AbsRegs
  BY <1>0 DEF AbsRegs, Committed
<1>2. OldestPC' = OldestPC
  BY <1>0, MappingNext DEF OldestByPhase, Prompt, CurW, CurM, CurX, CurD, NewW, NewM, NewX,
                           NewD, Or, Live
<1>3. InstructionsReal'
  BY <1>0 DEF InStep, InstructionsReal, RealM, Real, Live
<1>4. BubblesMade'
  BY <1>0 DEF InStep, BubblesMade, Live
<1>5. ResultsHandedOn'
  BY <1>0 DEF ResultsHandedOn
<1>6. OperandsAreRight'
  BY <1>0, <1>1 DEF InStep, OperandsAreRight, OperandsRight, Operand1, Operand2, Independent,
                    Live, ExecuteFlushes
<1>7. ExecutedRight'
  BY <1>0, <1>1 DEF InStep, ExecutedRight, Executed, Following, Operand1, Operand2, Or,
                    CurX, CurD, NewX, NewD, Live
<1>8. QED BY <1>1, <1>2, <1>3, <1>4, <1>5, <1>6, <1>7 DEF InStep

-----------------------------------------------------------------------------
(* The steps in which the sequential machine executes an instruction.      *)

\* The values instruction i at a may have for a result.
Outcomes(i, a) ==
    IF i.op = "LOAD" THEN Values ELSE {Exec(i, Operand1(i), Operand2(i), a)}

\* Instruction i at a is executed.
Executes(i, a) ==
    /\ OldestPC = a /\ OldestPC' = Following(i, a)
    /\ IF has_rd(i)
       THEN \E v \in Outcomes(i, a) :
              AbsRegs' = [AbsRegs EXCEPT ![i.rd] = IF i.rd = 0 THEN 0 ELSE v]
       ELSE AbsRegs' = AbsRegs

LEMMA MachineStep ==
    ASSUME Base, memory' = memory, NEW i, NEW a \in PC,
           i = memory[a], i.op # "EBREAK", Executes(i, a)
    PROVE  Machine!Step
<1>1. AbsRegs[0] = 0
  BY RegsNext, Constants, InstructionsAssumption DEF RegsByPhase
<1> DEFINE v1 == IF Machine!has_rs1(i) THEN Machine!register_read_one(AbsRegs, i.rs1) ELSE 0
           v2 == IF Machine!has_rs2(i) THEN Machine!register_read_one(AbsRegs, i.rs2) ELSE 0
<1>2. v1 = Operand1(i) /\ v2 = Operand2(i)
  BY <1>1 DEF Machine!has_rs1, Machine!has_rs2, Machine!register_read_one, Operand1, Operand2,
              has_rs1, has_rs2
<1>3. Machine!branch_stage(i, v1, v2) = branch_stage(i, v1, v2)
  BY DEF Machine!branch_stage, branch_stage
<1>4. OldestPC = a /\ OldestPC' = (a + IF branch_stage(i, v1, v2) THEN i.imm ELSE 1) % PCTop
  BY <1>2 DEF Executes, Following
<1>5. Machine!Results(i, v1, v2) = Outcomes(i, a)
  BY <1>2, <1>4 DEF Machine!Results, Outcomes
<1>6. IF Machine!has_rd(i)
      THEN \E v \in Machine!Results(i, v1, v2) :
             AbsRegs' = [AbsRegs EXCEPT ![i.rd] = IF i.rd = 0 THEN 0 ELSE v]
      ELSE AbsRegs' = AbsRegs
  BY <1>5 DEF Executes, Machine!has_rd, has_rd
<1> HIDE DEF v1, v2
<1>7. Machine!execute_single_instruction
  BY <1>3, <1>4, <1>6 DEF Machine!execute_single_instruction, v1, v2
<1>8. OldestPC # Diverged
  BY <1>4, HistoryAssumption
<1>9. QED BY <1>4, <1>7, <1>8 DEF Machine!Step

LEMMA MemoryInStep ==
    ASSUME Base, InStep, StageMemory
    PROVE  InStep' /\ (Machine!Step \/ UNCHANGED <<OldestPC, AbsRegs>>)
<1> DEFINE m == cur_m_reg
           w == new_w_reg
<1>1. EnterM
  BY DEF StageMemory, MemoryBubble, MemoryMiss, MemoryPass
<1>2. Base'
  BY MemoryStep

\* What M leaves behind, path by path.
<1>3. \/ /\ ~Live(m) \/ MemoryFlushes
         /\ w'.instruction = NOP /\ ~w'.stalled
      \/ /\ Live(m) /\ ~MemoryFlushes
         /\ w'.instruction = NOP /\ w'.stalled /\ w'.new_pc = m.new_pc
      \/ /\ Live(m) /\ ~MemoryFlushes
         /\ w'.instruction = m.instruction /\ ~w'.stalled
         /\ w'.val \in IF m.instruction.op = "LOAD" THEN Values ELSE {m.res}
  <2>1. CASE MemoryBubble
    BY <2>1 DEF MemoryBubble, Live, Base, TypeOK, stage_reg_w
  <2>2. CASE MemoryMiss
    BY <2>2 DEF MemoryMiss, Live, NOP, Base, TypeOK, stage_reg_w
  <2>3. CASE MemoryPass
    BY <2>3 DEF MemoryPass, Live
  <2>4. QED BY <2>1, <2>2, <2>3 DEF StageMemory

\* Register by register, what the sequential machine sees of it.
<1>4. /\ AbsRegs \in [Registers -> Values] /\ AbsRegs' \in [Registers -> Values]
      /\ \A r \in Registers :
           /\ AbsRegs[r] = IF r = 0 THEN 0 ELSE regs[r]
           /\ AbsRegs'[r] = IF r = 0 THEN 0
                            ELSE IF ~w'.stalled /\ writes(w'.instruction, r) THEN w'.val
                            ELSE regs[r]
  <2>1. Committed = GarbageW /\ Committed' = w'
    BY <1>1 DEF EnterM, Committed
  <2>2. \A r \in Registers :
          /\ Latest(Committed, r) = regs[r]
          /\ Latest(Committed, r)' = IF ~w'.stalled /\ writes(w'.instruction, r) THEN w'.val
                                     ELSE regs[r]
    BY <1>1, <2>1 DEF Latest, writes, GarbageW, NOP, has_rd, EnterM
  <2>3. QED BY <1>2, <2>2, RegsNext DEF RegsByPhase
<1>5. InstructionsReal'
  BY <1>1 DEF EnterM, cur_regs, InStep, InstructionsReal, RealM, Real, Live
<1>6. BubblesMade'
  BY <1>1, <1>3 DEF EnterM, cur_regs, InStep, BubblesMade, MemoryFlushes, Live
<1>7. ResultsHandedOn'
  BY <1>1, <1>3 DEF EnterM, cur_regs, InStep, ResultsHandedOn, MemoryFlushes, Live, has_rd, NOP
<1>8. OperandsAreRight'
  <2> SUFFICES ASSUME Live(cur_x_reg), ~ExecuteFlushes, ~w'.stalled
               PROVE  OperandsRight(cur_x_reg)'
    BY <1>1 DEF EnterM, cur_regs, OperandsAreRight, ExecuteFlushes, Live
  <2>1. OperandsRight(cur_x_reg) /\ Independent(cur_x_reg, m)
    BY <1>1 DEF EnterM, InStep, OperandsAreRight
  <2>2. \A r \in Registers : reads(cur_x_reg.instruction, r) => AbsRegs'[r] = AbsRegs[r]
    BY <1>3, <1>4, <2>1 DEF Independent, writes, has_rd, NOP
  <2>3. cur_x_reg.instruction.rs1 \in Registers /\ cur_x_reg.instruction.rs2 \in Registers
    BY DEF Base, TypeOK, stage_reg_x, Instr
  <2>4. QED
    BY <1>1, <2>1, <2>2, <2>3 DEF EnterM, cur_regs, OperandsRight, Operand1, Operand2, reads
<1>9. ExecutedRight'
  BY <1>1 DEF EnterM, ExecutedRight
<1>10. Machine!Step \/ UNCHANGED <<OldestPC, AbsRegs>>
  <2>1. /\ OldestPC = Or(CurW, Or(CurM, Or(CurX, Or(CurD, pc))))
        /\ OldestPC' = Or(NewW, Or(CurW, Or(CurMRedirect, Or(CurX, Or(CurD, pc)))))'
    BY <1>1, MappingNext DEF OldestByPhase, Prompt, EnterM
  <2>2. OldestPC' = IF w'.stalled THEN w'.new_pc
                    ELSE IF cur_w_reg.stalled THEN cur_w_reg.new_pc
                    ELSE IF m.control_stalled THEN m.new_pc
                    ELSE Or(CurX, Or(CurD, pc))
    BY <1>1, <2>1 DEF EnterM, cur_regs, Or, NewW, CurW, CurMRedirect, CurX, CurD, Live
  <2>3. OldestPC = IF cur_w_reg.stalled THEN cur_w_reg.new_pc
                   ELSE IF Live(m) THEN m.new_pc
                   ELSE Or(CurX, Or(CurD, pc))
    BY <2>1 DEF Or, CurW, CurM
  <2>4. m.control_stalled => Live(m)
    BY DEF Base, RegistersGood, GoodM, Live
  <2>5. CASE w'.instruction = NOP
    <3>1. AbsRegs' = AbsRegs
      BY <1>4, <2>5 DEF writes, has_rd, NOP
    <3>2. OldestPC' = OldestPC
      BY <1>3, <2>2, <2>3, <2>4, <2>5 DEF MemoryFlushes, Live
    <3>3. QED BY <3>1, <3>2
  <2>6. CASE w'.instruction # NOP
    <3> DEFINE i == m.instruction
    <3>1. /\ Live(m) /\ ~cur_w_reg.stalled /\ ~m.control_stalled
          /\ w'.instruction = i /\ ~w'.stalled
          /\ w'.val \in IF i.op = "LOAD" THEN Values ELSE {m.res}
      BY <1>3, <2>6 DEF MemoryFlushes
    <3>2. /\ i = memory[m.new_pc] /\ i.op \notin {"EBREAK", "NOP"}
          /\ m.new_pc \in PC /\ i \in Instr
      BY <3>1 DEF InStep, InstructionsReal, RealM, Real, Live, Base, TypeOK, stage_reg_m,
                  RegistersGood, GoodM, Fetched
    <3>3. Executed(m, Or(CurX, Or(CurD, pc)))
      BY <1>1, <3>1 DEF EnterM, InStep, ExecutedRight
    <3>4. OldestPC = m.new_pc /\ OldestPC' = Following(i, m.new_pc)
      BY <2>2, <2>3, <3>1, <3>3 DEF Executed
    <3>5. has_rd(i) => w'.val \in Outcomes(i, m.new_pc)
      BY <3>1, <3>3 DEF Executed, Outcomes, has_rd, computes
    <3>6. has_rd(i) => AbsRegs' = [AbsRegs EXCEPT ![i.rd] = IF i.rd = 0 THEN 0 ELSE w'.val]
      BY <1>4, <3>1, <3>2 DEF writes, Instr
    <3>7. ~has_rd(i) => AbsRegs' = AbsRegs
      BY <1>4, <3>1 DEF writes
    <3>8. Executes(i, m.new_pc)
      BY <3>4, <3>5, <3>6, <3>7 DEF Executes
    <3>9. QED BY <1>1, <3>2, <3>8, MachineStep DEF EnterM
  <2>7. QED BY <2>5, <2>6
<1>11. QED BY <1>5, <1>6, <1>7, <1>8, <1>9, <1>10 DEF InStep

\* What X leaves behind: a bubble, the instruction, or a redirect to where the
\* program goes on.
LEMMA ExecuteLeaves ==
    ASSUME Base, StageExecute
    PROVE  \/ /\ ~Live(cur_x_reg) \/ ExecuteFlushes
              /\ new_m_reg'.instruction = NOP /\ ~new_m_reg'.control_stalled
           \/ /\ Live(cur_x_reg) /\ ~ExecuteFlushes
              /\ new_m_reg'.instruction = cur_x_reg.instruction
              /\ new_m_reg'.res = execute_stage(cur_x_reg)
              /\ \/ /\ ~new_m_reg'.control_stalled
                    /\ new_m_reg'.new_pc = cur_x_reg.new_pc
                 \/ /\ new_m_reg'.control_stalled
                    /\ new_m_reg'.new_pc = Successor(cur_x_reg)
<1> DEFINE x == cur_x_reg
           m == new_m_reg'
<1> USE DEF Live
<1>1. CASE ExecuteBubble
  BY <1>1 DEF ExecuteBubble, Base, TypeOK, stage_reg_m
<1>2. CASE PredictRight \/ NormalExecution
  BY <1>2 DEF PredictRight, NormalExecution, Resolve
<1>3. CASE DidNotPredict
  <2>1. /\ x.instruction # NOP /\ ~ExecuteFlushes /\ BranchTaken
        /\ m = [instruction |-> x.instruction, control_stalled |-> TRUE,
                res |-> execute_stage(x), new_pc |-> x.extend_pc]
    BY <1>3 DEF DidNotPredict, Resolve
  <2>2. x.extend_pc = (x.new_pc + x.instruction.imm) % PCTop
    BY <2>1, ResolvedWord
  <2>3. QED BY <2>1, <2>2 DEF Successor, BranchTaken
<1>4. CASE PredictWrong
  <2>1. /\ x.instruction # NOP /\ ~ExecuteFlushes /\ ~BranchTaken
        /\ m = [instruction |-> x.instruction, control_stalled |-> TRUE,
                res |-> execute_stage(x), new_pc |-> (x.new_pc + 1) % PCTop]
    BY <1>4 DEF PredictWrong, Resolve
  <2>2. QED BY <2>1 DEF Successor, BranchTaken
<1>5. QED BY <1>1, <1>2, <1>3, <1>4 DEF StageExecute

LEMMA ExecuteInStep ==
    ASSUME IInv, InStep, StageExecute, ~LosesLink
    PROVE  InStep' /\ (Machine!Step \/ UNCHANGED <<OldestPC, AbsRegs>>)
<1> DEFINE x == cur_x_reg
           m == new_m_reg
<1>0. Base
  BY DEF IInv
<1>1. EnterX
  BY DEF StageExecute, ExecuteBubble, PredictRight, DidNotPredict, PredictWrong,
         NormalExecution, Resolve
<1>2. \/ /\ ~Live(x) \/ ExecuteFlushes
         /\ m'.instruction = NOP /\ ~m'.control_stalled
      \/ /\ Live(x) /\ ~ExecuteFlushes
         /\ m'.instruction = x.instruction /\ m'.res = execute_stage(x)
         /\ \/ ~m'.control_stalled /\ m'.new_pc = x.new_pc
            \/ m'.control_stalled /\ m'.new_pc = Successor(x)
  BY <1>0, ExecuteLeaves
<1>3. AbsRegs' = AbsRegs
  BY <1>1 DEF EnterX, AbsRegs, Committed

\* The instruction resolved, as the sequential machine sees it.
<1>4. Live(x) /\ ~ExecuteFlushes =>
        /\ Real(x) /\ x.new_pc \in PC /\ x.instruction \in Instr
        /\ ~new_w_reg.stalled => /\ OperandsRight(x)
                                 /\ Successor(x) = Following(x.instruction, x.new_pc)
  <2>1. SUFFICES ASSUME Live(x), ~ExecuteFlushes
                 PROVE  /\ Real(x) /\ x.new_pc \in PC /\ x.instruction \in Instr
                        /\ ~new_w_reg.stalled =>
                             /\ OperandsRight(x)
                             /\ Successor(x) = Following(x.instruction, x.new_pc)
    OBVIOUS
  <2>2. Real(x) /\ x.new_pc \in PC /\ x.instruction \in Instr
    BY <1>0, <2>1, ResolvedWord DEF InStep, InstructionsReal, Live
  <2>3. ~new_w_reg.stalled => OperandsRight(x)
    BY <1>1, <2>1 DEF EnterX, InStep, OperandsAreRight
  <2>4. QED BY <2>2, <2>3 DEF OperandsRight, Successor, Following
<1>5. InstructionsReal'
  BY <1>1, <1>2, <1>4 DEF EnterX, cur_regs, InStep, InstructionsReal, RealM, Real, Live
<1>6. BubblesMade'
  BY <1>1, <1>2 DEF EnterX, cur_regs, InStep, BubblesMade, MemoryFlushes, ExecuteFlushes, Live
<1>7. ResultsHandedOn'
  BY <1>1 DEF EnterX, cur_regs, InStep, ResultsHandedOn, MemoryFlushes
<1>8. OperandsAreRight'
  BY <1>1 DEF EnterX, OperandsAreRight
<1>9. ExecutedRight'
  <2> SUFFICES ASSUME ~new_w_reg.stalled, m'.instruction # NOP, ~m'.control_stalled
               PROVE  Executed(new_m_reg, Or(CurD, pc))'
    BY <1>1 DEF EnterX, ExecutedRight, Executed, Live
  <2>1. /\ Live(x) /\ ~ExecuteFlushes
        /\ m'.instruction = x.instruction /\ m'.res = execute_stage(x)
        /\ m'.new_pc = x.new_pc
    BY <1>2 DEF Live
  <2>2. Younger = Following(x.instruction, x.new_pc)
    BY <1>2, <1>4, <2>1, RightPath DEF Live
  <2>3. Or(CurD, pc)' = Younger
    <3>1. Live(cur_d_reg) => ~cur_d_reg.stalled
      BY <1>0 DEF Base, RegistersGood, GoodD, Live
    <3>2. ~Live(cur_d_reg) => cur_d_reg.stalled
      BY <1>1, <2>1 DEF EnterX, InStep, BubblesMade
    <3>3. QED BY <1>1, <3>1, <3>2 DEF EnterX, cur_regs, Or, CurD, Live, Younger
  <2>4. computes(x.instruction) =>
          execute_stage(x) = Exec(x.instruction, Operand1(x.instruction),
                                  Operand2(x.instruction), x.new_pc)
    BY <1>4, <2>1 DEF OperandsRight, execute_stage
  <2>5. QED
    BY <1>3, <2>1, <2>2, <2>3, <2>4 DEF Executed, Operand1, Operand2, Following
<1>10. Machine!Step \/ UNCHANGED <<OldestPC, AbsRegs>>
  <2>1. /\ OldestPC = Or(NewW, Or(CurW, Or(CurMRedirect, Or(CurX, Or(CurD, pc)))))
        /\ OldestPC' = Or(NewW, Or(CurW, Or(CurMRedirect,
                         Or(NewM, Or(CurXRedirect, Or(CurD, pc))))))'
    BY <1>1, MappingNext DEF OldestByPhase, EnterX
  <2>2. /\ Or(NewW, Or(CurW, Or(CurMRedirect, Or(CurX, Or(CurD, pc)))))
           = IF new_w_reg.stalled THEN new_w_reg.new_pc
             ELSE IF cur_w_reg.stalled THEN cur_w_reg.new_pc
             ELSE IF cur_m_reg.control_stalled THEN cur_m_reg.new_pc
             ELSE IF Live(x) \/ x.data_stalled THEN x.new_pc
             ELSE Or(CurD, pc)
        /\ OldestPC' = IF new_w_reg.stalled THEN new_w_reg.new_pc
             ELSE IF cur_w_reg.stalled THEN cur_w_reg.new_pc
             ELSE IF cur_m_reg.control_stalled THEN cur_m_reg.new_pc
             ELSE IF m'.instruction # NOP THEN m'.new_pc
             ELSE IF x.data_stalled THEN x.new_pc
             ELSE Or(CurD, pc)
    BY <1>1, <2>1 DEF EnterX, cur_regs, Or, NewW, CurW, CurMRedirect, CurX, CurXRedirect, NewM,
                      CurD, Live
  <2>3. CASE ~Live(x) \/ ExecuteFlushes \/ ~m'.control_stalled \/ new_w_reg.stalled
    <3>1. OldestPC' = OldestPC
      BY <1>2, <2>1, <2>2, <2>3 DEF ExecuteFlushes, Live
    <3>2. QED BY <1>3, <3>1
  <2>4. CASE Live(x) /\ ~ExecuteFlushes /\ m'.control_stalled /\ ~new_w_reg.stalled
    <3> DEFINE i == x.instruction
    <3>1. OldestPC = x.new_pc /\ OldestPC' = Following(i, x.new_pc)
      BY <1>2, <1>4, <2>1, <2>2, <2>4 DEF ExecuteFlushes, Live
    <3>2. i = memory[x.new_pc] /\ i.op # "EBREAK" /\ x.new_pc \in PC
      BY <1>4, <2>4 DEF Real
    <3>3. has_rd(i) => i.rd = 0
      BY <1>1, <1>2, <2>4 DEF EnterX, LosesLink, Live
    <3>4. has_rd(i) => \E v \in Outcomes(i, x.new_pc) :
                         AbsRegs' = [AbsRegs EXCEPT ![i.rd] = IF i.rd = 0 THEN 0 ELSE v]
      <4>1. AbsRegs \in [Registers -> Values] /\ AbsRegs[0] = 0
        BY <1>0, RegsNext, InstructionsAssumption DEF RegsByPhase
      <4>2. \E v : v \in Outcomes(i, x.new_pc)
        BY Constants DEF Outcomes
      <4>3. has_rd(i) => \A v : [AbsRegs EXCEPT ![i.rd] = IF i.rd = 0 THEN 0 ELSE v] = AbsRegs
        BY <3>3, <4>1
      <4>4. QED BY <1>3, <4>2, <4>3
    <3>5. Executes(i, x.new_pc)
      BY <1>3, <3>1, <3>4 DEF Executes
    <3>6. QED BY <1>0, <1>1, <3>2, <3>5, MachineStep DEF EnterX
  <2>5. QED BY <2>3, <2>4
<1>11. QED BY <1>5, <1>6, <1>7, <1>8, <1>9, <1>10 DEF InStep

\* What D leaves behind: a bubble, a stall, or the instruction.
LEMMA DecodeLeaves ==
    ASSUME Base, StageDecode, ~StallsFlushed
    PROVE  LET d == cur_d_reg
               x == new_x_reg'
           IN  \/ /\ DecodeNothing \/ DecodeFlushes
                  /\ x.instruction = NOP /\ ~x.data_stalled
               \/ /\ ~DecodeNothing /\ ~DecodeFlushes
                  /\ x.instruction = NOP /\ x.data_stalled /\ x.new_pc = d.new_pc
               \/ /\ ~DecodeNothing /\ ~DecodeFlushes /\ ~DataHazard
                  /\ x.instruction = d.instruction /\ ~x.data_stalled
                  /\ x.new_pc = d.new_pc
                  /\ x.reg1 = IF has_rs1(d.instruction) THEN Forward(d.instruction.rs1) ELSE 0
                  /\ x.reg2 = IF has_rs2(d.instruction) THEN Forward(d.instruction.rs2) ELSE 0
<1>1. CASE DecodeBubble
  BY <1>1 DEF DecodeBubble, Base, TypeOK, stage_reg_x
<1>2. CASE DecodeFlush
  BY <1>2 DEF DecodeFlush, StallsFlushed, EnterD, Base, TypeOK, stage_reg_x
<1>3. CASE DecodeStall
  BY <1>3 DEF DecodeStall, Base, TypeOK, stage_reg_x
<1>4. CASE DecodeIssue
  BY <1>4 DEF DecodeIssue
<1>5. QED BY <1>1, <1>2, <1>3, <1>4 DEF StageDecode

\* What D hands to X as the value of a register is what the sequential machine
\* has there.
LEMMA ForwardRight ==
    ASSUME Base, InStep, phase = "D", ~DecodeNothing, ~DecodeFlushes, ~DataHazard,
           ~new_w_reg.stalled,
           NEW r \in Registers, reads(cur_d_reg.instruction, r),
           ~TakesOlderValue(r), ~ForwardsZero(r)
    PROVE  Forward(r) = AbsRegs[r]
<1> DEFINE m == cur_m_reg
           w == cur_w_reg
<1>1. AbsRegs[r] = IF r = 0 THEN 0
                   ELSE IF writes(new_w_reg.instruction, r) THEN new_w_reg.val
                   ELSE regs[r]
  BY RegsNext DEF RegsByPhase, Committed, Latest
<1>2. /\ new_w_reg.instruction = m.instruction
      /\ writes(m.instruction, r) => new_w_reg.val = m.res
  <2>1. writes(m.instruction, r) => m.instruction.op # "LOAD"
    BY DEF DataHazard
  <2>2. QED BY <2>1 DEF InStep, ResultsHandedOn, MemoryFlushes, DecodeFlushes, writes
<1>3. writes(w.instruction, r) => regs[r] = w.val
  BY DEF InStep, ResultsHandedOn
<1>4. CASE r = 0
  BY <1>1, <1>4 DEF Forward, ForwardsZero, register_read_one
<1>5. CASE r # 0
  BY <1>1, <1>2, <1>3, <1>5 DEF Forward, TakesOlderValue, register_read_one
<1>6. QED BY <1>4, <1>5

LEMMA DecodeInStep ==
    ASSUME Base, InStep, StageDecode, ~TakesWrongOperand, ~StallsFlushed
    PROVE  InStep' /\ UNCHANGED <<OldestPC, AbsRegs>>
<1> DEFINE d == cur_d_reg
           x == new_x_reg
           m == new_m_reg
           i == cur_d_reg.instruction
<1>1. EnterD
  BY DEF StageDecode, DecodeBubble, DecodeFlush, DecodeStall, DecodeIssue
<1>2. \/ /\ DecodeNothing \/ DecodeFlushes
         /\ x'.instruction = NOP /\ ~x'.data_stalled
      \/ /\ ~DecodeNothing /\ ~DecodeFlushes
         /\ x'.instruction = NOP /\ x'.data_stalled /\ x'.new_pc = d.new_pc
      \/ /\ ~DecodeNothing /\ ~DecodeFlushes /\ ~DataHazard
         /\ x'.instruction = i /\ ~x'.data_stalled
         /\ x'.new_pc = d.new_pc
         /\ x'.reg1 = IF has_rs1(i) THEN Forward(i.rs1) ELSE 0
         /\ x'.reg2 = IF has_rs2(i) THEN Forward(i.rs2) ELSE 0
  BY DecodeLeaves
<1>3. AbsRegs' = AbsRegs
  BY <1>1 DEF EnterD, AbsRegs, Committed
<1>4. OldestPC' = OldestPC
  <2>1. /\ OldestPC = Or(NewW, Or(CurW, Or(CurMRedirect,
                        Or(NewM, Or(CurXRedirect, Or(CurD, pc))))))
        /\ OldestPC' = Or(NewW, Or(CurW, Or(CurMRedirect,
                         Or(NewM, Or(NewX, Or(CurXRedirect, pc))))))'
    BY <1>1, MappingNext DEF OldestByPhase, EnterD
  <2> DEFINE rest == Or(CurXRedirect, Or(CurD, pc))
             rest1 == Or(NewX, Or(CurXRedirect, pc))'
  <2>2. cur_w_reg.stalled \/ cur_m_reg.control_stalled \/ rest1 = rest
    <3>1. rest = IF cur_x_reg.data_stalled THEN cur_x_reg.new_pc
                 ELSE IF i # NOP THEN d.new_pc ELSE pc
      BY DEF Or, CurXRedirect, CurD, Live
    <3>2. rest1 = IF x'.instruction # NOP \/ x'.data_stalled THEN x'.new_pc
                  ELSE IF cur_x_reg.data_stalled THEN cur_x_reg.new_pc ELSE pc
      BY <1>1 DEF EnterD, cur_regs, Or, NewX, CurXRedirect, Live
    <3>3. d.stalled => i = NOP
      BY DEF Base, RegistersGood, GoodD
    <3> HIDE DEF rest, rest1
    <3>4. QED BY <1>2, <3>1, <3>2, <3>3 DEF DecodeNothing, DecodeFlushes
  <2>3. OldestPC = IF new_w_reg.stalled THEN new_w_reg.new_pc
                   ELSE IF cur_w_reg.stalled THEN cur_w_reg.new_pc
                   ELSE IF cur_m_reg.control_stalled THEN cur_m_reg.new_pc
                   ELSE IF m.instruction # NOP THEN m.new_pc ELSE rest
    BY <2>1 DEF Or, NewW, CurW, CurMRedirect, NewM, Live
  <2>4. OldestPC' = IF new_w_reg.stalled THEN new_w_reg.new_pc
                    ELSE IF cur_w_reg.stalled THEN cur_w_reg.new_pc
                    ELSE IF cur_m_reg.control_stalled THEN cur_m_reg.new_pc
                    ELSE IF m.instruction # NOP THEN m.new_pc ELSE rest1
    BY <1>1, <2>1 DEF EnterD, cur_regs, Or, NewW, CurW, CurMRedirect, NewM, Live
  <2> HIDE DEF rest, rest1
  <2>5. QED BY <2>2, <2>3, <2>4
<1>5. InstructionsReal'
  BY <1>1, <1>2 DEF EnterD, cur_regs, InStep, InstructionsReal, RealM, Real, Live, DecodeNothing
<1>6. BubblesMade'
  BY <1>1, <1>2 DEF EnterD, cur_regs, InStep, BubblesMade, MemoryFlushes, ExecuteFlushes,
                    DecodeNothing, DecodeFlushes, Live
<1>7. ResultsHandedOn'
  BY <1>1 DEF EnterD, ResultsHandedOn

\* The instruction in D and the one that X has just let go on.
<1>8. ~DecodeNothing /\ ~DecodeFlushes =>
        /\ Live(d) /\ i \in Instr
        /\ m.instruction = cur_x_reg.instruction
  BY <1>1 DEF EnterD, InStep, BubblesMade, ExecuteFlushes, DecodeNothing, DecodeFlushes, Live,
              Base, TypeOK, stage_reg_d
<1>9. OperandsAreRight'
  <2> SUFFICES ASSUME x'.instruction # NOP, ~new_w_reg.stalled
               PROVE  OperandsRight(x)' /\ Independent(x, m)'
    BY <1>1 DEF EnterD, OperandsAreRight, Live
  <2>1. /\ ~DecodeNothing /\ ~DecodeFlushes /\ ~DataHazard
        /\ x'.instruction = i
        /\ x'.reg1 = IF has_rs1(i) THEN Forward(i.rs1) ELSE 0
        /\ x'.reg2 = IF has_rs2(i) THEN Forward(i.rs2) ELSE 0
    BY <1>2
  <2>2. i.rs1 \in Registers /\ i.rs2 \in Registers
    BY <1>8, <2>1 DEF Instr
  <2>3. \A r \in Registers : reads(i, r) => Forward(r) = AbsRegs[r]
    <3> SUFFICES ASSUME NEW r \in Registers, reads(i, r)
                 PROVE  Forward(r) = AbsRegs[r]
      OBVIOUS
    <3>1. ~TakesOlderValue(r) /\ ~ForwardsZero(r)
      BY <1>1 DEF EnterD, TakesWrongOperand
    <3>2. QED BY <1>1, <2>1, <3>1, ForwardRight DEF EnterD
  <2>4. OperandsRight(x)'
    BY <1>3, <2>1, <2>2, <2>3 DEF OperandsRight, Operand1, Operand2, reads
  <2>5. Independent(x, m)'
    BY <1>1, <1>8, <2>1 DEF EnterD, Independent, DataHazard
  <2>6. QED BY <2>4, <2>5
<1>10. ExecutedRight'
  <2> SUFFICES ASSUME ~new_w_reg.stalled, Live(m), ~m.control_stalled
               PROVE  Executed(m, Or(NewX, pc))'
    BY <1>1 DEF EnterD, ExecutedRight, Executed, Live
  <2>1. Executed(m, Or(CurD, pc))
    BY <1>1 DEF EnterD, InStep, ExecutedRight
  <2>2. ~ExecuteFlushes
    BY <1>1 DEF EnterD, InStep, BubblesMade, Live
  <2>3. Or(NewX, pc)' = Or(CurD, pc)
    <3>1. d.stalled => i = NOP
      BY DEF Base, RegistersGood, GoodD
    <3>2. QED
      BY <1>1, <1>2, <2>2, <3>1 DEF EnterD, Or, NewX, CurD, Live, ExecuteFlushes, DecodeNothing,
                                    DecodeFlushes
  <2>4. QED
    BY <1>1, <1>3, <2>1, <2>3 DEF EnterD, Executed, Following, Operand1, Operand2, Live
<1>11. QED BY <1>3, <1>4, <1>5, <1>6, <1>7, <1>9, <1>10 DEF InStep

\* What F leaves behind: an instruction of the program, or a bubble that says
\* it is one.  A miss keeps the pc, and what it was told to refetch is lost:
\* a replay never is.
LEMMA FetchLeaves ==
    ASSUME Base, StageFetch, ~LosesRedirect, ~FetchesNoInstruction,
           FetchHit => code[FetchPC] = memory[FetchPC]
    PROVE  LET d == new_d_reg'
           IN  \/ /\ d.instruction # NOP /\ ~d.stalled
                  /\ d.new_pc = FetchPC
                  /\ d.instruction.op \notin {"EBREAK", "NOP"}
                  /\ d.instruction = memory[FetchPC]
               \/ /\ d.instruction = NOP /\ d.stalled
                  /\ pc' = pc /\ FetchPC = pc
<1>1. CASE FetchHit
  <2>1. new_d_reg' = [instruction |-> code[FetchPC], stalled |-> FALSE, new_pc |-> FetchPC]
    BY <1>1 DEF FetchHit
  <2>2. new_d_reg'.instruction.op \notin {"EBREAK", "NOP"}
    BY <1>1, <2>1 DEF FetchesNoInstruction, FetchHit, EnterF
  <2>3. QED BY <1>1, <2>1, <2>2 DEF NOP
<1>2. CASE FetchMiss
  <2>1. new_d_reg'.instruction = NOP /\ new_d_reg'.stalled /\ pc' = pc
    BY <1>2 DEF FetchMiss, Base, TypeOK, stage_reg_d
  <2>2. /\ cur_w_reg.stalled => Resident(cur_w_reg.new_pc)
        /\ cur_x_reg.data_stalled => Resident(cur_x_reg.new_pc)
    BY DEF Base, RegistersGood, GoodW, GoodX
  <2>3. ~Resident(FetchPC)
    BY <1>2 DEF FetchMiss, Resident
  <2>4. cur_m_reg.control_stalled /\ ~cur_w_reg.stalled => pc = cur_m_reg.new_pc
    BY <1>2, <2>1 DEF LosesRedirect, FetchMiss, EnterF
  <2>5. FetchPC = pc
    BY <2>2, <2>3, <2>4 DEF FetchPC
  <2>6. QED BY <2>1, <2>5
<1>3. QED BY <1>1, <1>2 DEF StageFetch

LEMMA FetchInStep ==
    ASSUME Base, InStep, StageFetch, ~LosesRedirect, ~FetchesNoInstruction,
           FetchHit => code[FetchPC] = memory[FetchPC]
    PROVE  InStep' /\ UNCHANGED <<OldestPC, AbsRegs>>
<1> DEFINE d == new_d_reg
           m == new_m_reg
           x == new_x_reg
<1>1. EnterF
  BY DEF StageFetch, FetchHit, FetchMiss
<1>2. \/ /\ d'.instruction # NOP /\ ~d'.stalled /\ d'.new_pc = FetchPC
         /\ d'.instruction.op \notin {"EBREAK", "NOP"}
         /\ d'.instruction = memory[FetchPC]
      \/ /\ d'.instruction = NOP /\ d'.stalled
         /\ pc' = pc /\ FetchPC = pc
  BY FetchLeaves
<1>3. AbsRegs' = AbsRegs
  BY <1>1 DEF EnterF, AbsRegs, Committed

\* What D will hold, or F will fetch.
<1>4. Or(NewD, pc)' = FetchPC
  BY <1>2 DEF Or, NewD, Live
<1>5. OldestPC' = OldestPC
  <2>1. /\ OldestPC = Or(NewW, Or(CurW, Or(CurMRedirect,
                        Or(NewM, Or(NewX, Or(CurXRedirect, pc))))))
        /\ OldestPC' = Or(NewW, Or(NewM, Or(NewX, Or(NewD, pc))))'
    BY <1>1, MappingNext DEF OldestByPhase, EnterF
  <2>2. OldestPC = IF new_w_reg.stalled THEN new_w_reg.new_pc
                   ELSE IF cur_w_reg.stalled THEN cur_w_reg.new_pc
                   ELSE IF cur_m_reg.control_stalled THEN cur_m_reg.new_pc
                   ELSE IF m.instruction # NOP THEN m.new_pc
                   ELSE IF x.instruction # NOP \/ x.data_stalled THEN x.new_pc
                   ELSE IF cur_x_reg.data_stalled THEN cur_x_reg.new_pc
                   ELSE pc
    BY <2>1 DEF Or, NewW, CurW, CurMRedirect, NewM, NewX, CurXRedirect, Live
  <2>3. OldestPC' = IF new_w_reg.stalled THEN new_w_reg.new_pc
                    ELSE IF m.instruction # NOP THEN m.new_pc
                    ELSE IF x.instruction # NOP \/ x.data_stalled THEN x.new_pc
                    ELSE FetchPC
    BY <1>1, <1>4, <2>1 DEF EnterF, Or, NewW, NewM, NewX, Live
  <2>4. cur_w_reg.stalled \/ cur_m_reg.control_stalled =>
          /\ m.instruction = NOP
          /\ x.instruction = NOP /\ ~x.data_stalled
    BY <1>1 DEF EnterF, InStep, BubblesMade, ExecuteFlushes, DecodeFlushes
  <2>5. QED BY <2>2, <2>3, <2>4 DEF FetchPC
<1>6. InstructionsReal'
  BY <1>1, <1>2 DEF EnterF, cur_regs, InStep, InstructionsReal, RealM, Real, Live
<1>7. BubblesMade'
  BY <1>1, <1>2 DEF EnterF, BubblesMade, Live
<1>8. ResultsHandedOn'
  BY <1>1 DEF EnterF, ResultsHandedOn
<1>9. OperandsAreRight'
  BY <1>1, <1>3 DEF EnterF, InStep, OperandsAreRight, OperandsRight, Operand1, Operand2,
                    Independent, Live
<1>10. ExecutedRight'
  <2> SUFFICES ASSUME ~new_w_reg.stalled, Live(m), ~m.control_stalled
               PROVE  Executed(m, Or(NewX, Or(NewD, pc)))'
    BY <1>1 DEF EnterF, ExecutedRight, Executed, Live
  <2>1. Executed(m, Or(NewX, pc))
    BY <1>1 DEF EnterF, InStep, ExecutedRight
  <2>2. FetchPC = pc
    <3>1. ~ExecuteFlushes
      BY <1>1 DEF EnterF, InStep, BubblesMade, Live
    <3>2. QED BY <3>1 DEF ExecuteFlushes, FetchPC
  <2>3. Or(NewX, Or(NewD, pc))' = Or(NewX, pc)
    BY <1>1, <1>4, <2>2 DEF EnterF, Or, NewX, Live
  <2>4. QED
    BY <1>1, <1>3, <2>1, <2>3 DEF EnterF, Executed, Following, Operand1, Operand2, Live
<1>11. QED BY <1>3, <1>5, <1>6, <1>7, <1>8, <1>9, <1>10 DEF InStep

-----------------------------------------------------------------------------
(* The refinement.                                                         *)

LEMMA UnchangedInStep ==
    ASSUME UNCHANGED vars
    PROVE  (InStep => InStep') /\ UNCHANGED <<OldestPC, AbsRegs>>
<1> USE DEF vars, cur_regs, new_regs
<1>1. AbsRegs' = AbsRegs
  BY DEF AbsRegs, Committed
<1>2. InFlight' = InFlight
  BY DEF InFlight, NewW, CurW, CurMRedirect, CurX, CurD, ToFetch, NewM, CurXRedirect, NewX,
         NewD, CurM, Live
<1>3. OldestPC' = OldestPC
  BY <1>2 DEF OldestPC
<1>4. InStep => InstructionsReal'
  BY DEF InStep, InstructionsReal, RealM, Real, Live
<1>5. InStep => BubblesMade'
  BY DEF InStep, BubblesMade, MemoryFlushes, ExecuteFlushes, DecodeNothing, DecodeFlushes, Live
<1>6. InStep => ResultsHandedOn'
  BY DEF InStep, ResultsHandedOn, MemoryFlushes
<1>7. InStep => OperandsAreRight'
  BY <1>1 DEF InStep, OperandsAreRight, OperandsRight, Operand1, Operand2, Independent, Live,
              ExecuteFlushes
<1>8. InStep => ExecutedRight'
  BY <1>1 DEF InStep, ExecutedRight, Executed, Following, Operand1, Operand2, Or, CurX, CurD,
              NewX, NewD, Live
<1>9. QED BY <1>1, <1>3, <1>4, <1>5, <1>6, <1>7, <1>8 DEF InStep

\* A step that does not derail the pipeline keeps it in step: it executes the
\* next instruction of the program, or nothing the sequential machine can see.
LEMMA NextInStep ==
    ASSUME IInv, InStep, Next, ~Derails,
           FetchHit => code[FetchPC] = memory[FetchPC]
    PROVE  InStep' /\ (Machine!Step \/ UNCHANGED <<OldestPC, AbsRegs>>)
<1>1. Base
  BY DEF IInv
<1>2. /\ ~LosesLink /\ ~LosesRedirect /\ ~TakesWrongOperand
      /\ ~StallsFlushed /\ ~FetchesNoInstruction
  BY DEF Derails
<1>3. CASE RunCommand
  BY <1>1, <1>3, RunCommandInStep
<1>4. CASE StageWriteback
  BY <1>1, <1>4, WritebackInStep
<1>5. CASE StageMemory
  BY <1>1, <1>5, MemoryInStep
<1>6. CASE StageExecute
  BY <1>2, <1>6, ExecuteInStep
<1>7. CASE StageDecode
  BY <1>1, <1>2, <1>7, DecodeInStep
<1>8. CASE StageFetch
  BY <1>1, <1>2, <1>8, FetchInStep
<1>9. CASE Latch
  BY <1>1, <1>9, LatchInStep
<1>10. QED BY <1>3, <1>4, <1>5, <1>6, <1>7, <1>8, <1>9 DEF Next

\* A run changes neither the program nor the words of it that F is handed.
LEMMA ProgramStays == [Next]_vars => UNCHANGED <<code, memory>>
BY DEF Next, vars, RunCommand, StageWriteback, StageMemory, MemoryBubble, MemoryMiss,
       MemoryPass, EnterM, StageExecute, ExecuteBubble, PredictRight, DidNotPredict,
       PredictWrong, NormalExecution, Resolve, EnterX, StageDecode, DecodeBubble, DecodeFlush,
       DecodeStall, DecodeIssue, EnterD, StageFetch, FetchHit, FetchMiss, EnterF, Latch

LEMMA InitInStep == Init => InStep /\ OldestPC = 0
<1> SUFFICES ASSUME Init
             PROVE  InStep /\ OldestPC = 0
  OBVIOUS
<1> USE DEF Init, EmptyD, EmptyX, EmptyM, EmptyW, GarbageD, Live
<1>1. InstructionsReal
  BY DEF InstructionsReal, RealM
<1>2. BubblesMade
  BY DEF BubblesMade
<1>3. ResultsHandedOn
  BY DEF ResultsHandedOn
<1>4. OperandsAreRight
  BY DEF OperandsAreRight
<1>5. ExecutedRight
  BY DEF ExecutedRight, Executed
<1>6. OldestPC = 0
  BY MappingLemma DEF OldestByPhase, Prompt, CurW, CurM, CurX, CurD, Or
<1>7. QED BY <1>1, <1>2, <1>3, <1>4, <1>5, <1>6 DEF InStep

HInv == IInv /\ code = memory /\ StaysInStep

LEMMA HInvInit == HInit => HInv
BY InitInvariant, InitInStep DEF HInit, Init, HInv, StaysInStep

LEMMA HInvStep == HInv /\ [HNext]_hvars => HInv'
<1> SUFFICES ASSUME HInv, [HNext]_hvars
             PROVE  HInv'
  OBVIOUS
<1>1. [Next]_vars
  BY DEF HNext, hvars
<1>2. IInv' /\ (code = memory)'
  BY <1>1, InductiveStep, ProgramStays DEF HInv
<1>3. ASSUME ~derailed'
      PROVE  InStep'
  <2>1. CASE HNext
    <3>1. ~derailed /\ ~Derails
      BY <1>3, <2>1 DEF HNext
    <3>2. QED BY <2>1, <3>1, NextInStep DEF HNext, HInv, StaysInStep
  <2>2. CASE UNCHANGED hvars
    BY <1>3, <2>2, UnchangedInStep DEF hvars, HInv, StaysInStep
  <2>3. QED BY <2>1, <2>2
<1>4. QED BY <1>2, <1>3 DEF HInv, StaysInStep

\* What the pipeline registers hold is in step with the sequential machine in
\* every state before the pipeline derails.
THEOREM InStepUntilDerailed == HSpec => []StaysInStep
<1>1. HInv => StaysInStep
  BY DEF HInv
<1>2. QED BY <1>1, HInvInit, HInvStep, PTL DEF HSpec

LEMMA RefinesInit == HInit => Sequential!Init
<1> SUFFICES ASSUME HInit
             PROVE  Sequential!Init
  OBVIOUS
<1>1. Init /\ ~derailed
  BY DEF HInit
<1>2. Base
  BY <1>1, InitInvariant DEF IInv
<1>3. AbsPC = 0
  BY <1>1, InitInStep DEF AbsPC
<1>4. AbsRegs \in [Registers -> Values] /\ AbsRegs[0] = 0
  BY <1>2, RegsNext, InstructionsAssumption DEF RegsByPhase
<1>5. code \in Programs
  BY <1>1 DEF Init
<1>6. QED BY <1>3, <1>4, <1>5 DEF Sequential!Init

LEMMA RefinesStep == HInv /\ [HNext]_hvars => [Sequential!Next]_(Sequential!vars)
<1> SUFFICES ASSUME HInv, [HNext]_hvars
             PROVE  [Sequential!Next]_(Sequential!vars)
  OBVIOUS
<1>1. code' = code /\ memory' = memory /\ code = memory
  BY ProgramStays DEF HNext, hvars, HInv
<1>2. CASE UNCHANGED hvars
  <2>1. UNCHANGED <<OldestPC, AbsRegs, derailed>>
    BY <1>2, UnchangedInStep DEF hvars
  <2>2. QED BY <1>1, <2>1 DEF Sequential!vars, AbsPC
<1>3. CASE HNext /\ derailed'
  BY <1>1, <1>3 DEF Sequential!Next, Sequential!Diverge, AbsPC
<1>4. CASE HNext /\ ~derailed'
  <2>1. ~derailed /\ ~Derails /\ Next
    BY <1>4 DEF HNext
  <2>2. AbsPC = OldestPC /\ AbsPC' = OldestPC'
    BY <1>4, <2>1 DEF AbsPC
  <2>3. Machine!Step \/ UNCHANGED <<OldestPC, AbsRegs>>
    BY <1>1, <2>1, NextInStep DEF HInv, StaysInStep
  <2>4. CASE Machine!Step
    <3>1. Sequential!Step
      BY <1>1, <2>2, <2>4 DEF Machine!Step, Machine!execute_single_instruction, Machine!Results,
         Machine!has_rs1, Machine!has_rs2, Machine!has_rd, Machine!branch_stage,
         Machine!register_read_one, Sequential!Step, Sequential!execute_single_instruction,
         Sequential!Results, Sequential!has_rs1, Sequential!has_rs2, Sequential!has_rd,
         Sequential!branch_stage, Sequential!register_read_one
    <3>2. QED BY <3>1 DEF Sequential!Next
  <2>5. CASE UNCHANGED <<OldestPC, AbsRegs>>
    BY <1>1, <2>2, <2>5 DEF Sequential!vars
  <2>6. QED BY <2>3, <2>4, <2>5
<1>5. QED BY <1>2, <1>3, <1>4

\* Until it derails, the pipeline does what the one-instruction machine does,
\* through every stall, squash, replay, prediction and forwarding, and only the
\* five kinds of step that Derails names can derail it (pipeline.c; stages.c,
\* execute_single_instruction).
THEOREM PipelineRefines == HSpec => RefinesSequential
<1>1. HInit => Sequential!Init
  BY RefinesInit
<1>2. HInv /\ [HNext]_hvars => [Sequential!Next]_(Sequential!vars)
  BY RefinesStep
<1>3. QED BY <1>1, <1>2, HInvInit, HInvStep, PTL DEF HSpec, RefinesSequential, Sequential!Spec

=============================================================================

--------------------------- MODULE SessionProofs ----------------------------
(***************************************************************************)
(* A session keeps its invariant through every command and every cycle,    *)
(* and is what a user expects of it up to the first of the named           *)
(* departures; an initialize gives it a new start.                         *)
(***************************************************************************)
EXTENDS Session, RefinementProofs

-----------------------------------------------------------------------------
(* Between two runs.                                                       *)

\* A mapping as MappingLemma gives it at the prompt.
LEMMA AtPrompt ==
    ASSUME phase = "prompt", phase' = phase
    PROVE  /\ OldestPC = Or(CurW, Or(CurM, Or(CurX, Or(CurD, pc))))
           /\ OldestPC' = Or(CurW, Or(CurM, Or(CurX, Or(CurD, pc))))'
           /\ Committed = cur_w_reg /\ Committed' = cur_w_reg'
BY MappingNext DEF OldestByPhase, Prompt, Committed

LEMMA InFlightAre ==
    ASSUME phase = "prompt", NEW q \in {CurW, CurM, CurX, CurD}, q.live
    PROVE  q \in InFlightNow
<1>1. InFlight = <<CurW, CurM, CurX, CurD, ToFetch>>
  BY DEF InFlight
<1>2. /\ InFlight[1] = CurW /\ InFlight[2] = CurM
      /\ InFlight[3] = CurX /\ InFlight[4] = CurD
  BY <1>1
<1>3. PICK k \in 1 .. 4 : q = InFlight[k]
  BY <1>2
<1>4. QED BY <1>3 DEF InFlightNow

\* Whole lines that fit the memory are words of it.
LEMMA WholeLines ==
    ASSUME NEW lines \in 1 .. PCTop \div LineLength
    PROVE  lines * LineLength \in 1 .. PCTop
<1> DEFINE n == PCTop \div LineLength
<1>1. LineLength \in Nat /\ LineLength > 0 /\ PCTop \in Nat
  BY SessionAssumption, Constants
<1>2. n \in Nat /\ n * LineLength <= PCTop
  BY <1>1
<1>3. lines \in Nat /\ 1 <= lines /\ lines <= n
  BY <1>2
<1> HIDE DEF n
<1>4. lines * LineLength <= n * LineLength
  BY <1>1, <1>2, <1>3
<1>5. 1 <= lines * LineLength
  BY <1>1, <1>3
<1>6. lines * LineLength \in Nat
  BY <1>1, <1>3
<1>7. QED BY <1>1, <1>2, <1>4, <1>5, <1>6

-----------------------------------------------------------------------------
(* The commands.                                                           *)

\* load keeps every word the pipeline or a prediction is about: their blocks
\* are resident.
LEMMA LoadKeeps ==
    ASSUME Base, memory \in Images, LoadCommand
    PROVE  /\ Base' /\ (memory \in Images)'
           /\ Chain => Chain'
           /\ UNCHANGED <<OldestPC, AbsRegs>>
           /\ Expected!Load
<1> USE DEF LoadCommand, Command, cur_regs, new_regs
<1>1. PICK image \in Programs, lines \in 1 .. PCTop \div LineLength :
        /\ command' = <<"load", image, lines * LineLength>>
        /\ memory' = Loaded(image, lines)
  OBVIOUS
<1>2. phase = "prompt" /\ phase' = phase
  OBVIOUS
<1>3. image \in Images /\ image \in [PC -> Instr]
  BY ProgramsAreImages DEF Images
<1>4. memory' \in Images
  <2>1. \A a \in PC : memory'[a] \in {image[a], memory[a]}
    BY <1>1 DEF Loaded
  <2>2. memory' = [a \in PC |-> memory'[a]]
    BY <1>1 DEF Loaded
  <2>3. \A a \in PC : memory'[a] \in Instr /\ \E p \in Programs : memory'[a] = p[a]
    BY <1>3, <2>1 DEF Images, WordsAt
  <2>4. QED BY <2>2, <2>3 DEF Images, WordsAt
<1>5. \A a \in PC : code'[a] = IF Resident(a) THEN code[a] ELSE memory'[a]
  BY DEF Resident
<1>6. code' \in Images
  <2>1. code' = [a \in PC |-> code'[a]]
    BY DEF Resident
  <2>2. \A a \in PC : code'[a] \in Instr /\ \E p \in Programs : code'[a] = p[a]
    BY <1>4, <1>5 DEF Images, WordsAt, Base, TypeOK
  <2>3. QED BY <2>1, <2>2 DEF Images, WordsAt
<1>7. TypeOK'
  BY <1>6 DEF Base, TypeOK
<1>8. PredictionsAreExact' /\ BranchesResident'
  <2> SUFFICES ASSUME NEW i \in BTB!Slots, btb.entries[i].valid
               PROVE  LET e == btb.entries[i]
                      IN  /\ is_branch(code'[e.pc])
                          /\ e.predict_pc = (e.pc + code'[e.pc].imm) % PCTop
                          /\ e.predict_pc < e.pc
                          /\ Resident(e.pc)'
    BY DEF PredictionsAreExact, BranchesResident
  <2>1. btb.entries[i].pc \in PC
    BY DEF Base, TypeOK, BTB!Buffer, BTB!Entry
  <2>2. Resident(btb.entries[i].pc)
    BY DEF Base, BranchesResident
  <2>3. code'[btb.entries[i].pc] = code[btb.entries[i].pc]
    BY <1>5, <2>1, <2>2
  <2>4. QED BY <2>2, <2>3 DEF Base, PredictionsAreExact, Resident
<1>9. RegistersGood'
  <2>1. /\ GoodD(cur_d_reg)' /\ GoodX(cur_x_reg)' /\ GoodM(cur_m_reg)' /\ GoodW(cur_w_reg)'
    BY <1>5 DEF Base, RegistersGood, GoodD, GoodX, GoodM, GoodW, Fetched, Resident
  <2>2. QED BY <1>2, <2>1 DEF RegistersGood
<1>10. Chain => Chain'
  BY <1>2 DEF Chain, ChainX, ChainD, ExecuteFlushes, DecodeFlushes, Younger, NextPC
<1>11. UNCHANGED <<OldestPC, AbsRegs>>
  BY <1>2, AtPrompt DEF AbsRegs, Or, CurW, CurM, CurX, CurD, Live
<1>12. Expected!Load
  <2>1. lines * LineLength \in 1 .. PCTop
    BY WholeLines
  <2>2. memory' = [a \in PC |-> IF a < lines * LineLength THEN image[a] ELSE memory[a]]
    BY <1>1 DEF Loaded
  <2>3. UNCHANGED <<AbsPC, AbsRegs>> \/ AbsPC' = Diverged
    BY <1>11 DEF AbsPC
  <2> DEFINE words == lines * LineLength
  <2>4. /\ command' = <<"load", image, words>>
        /\ memory' = [a \in PC |-> IF a < words THEN image[a] ELSE memory[a]]
    BY <1>1, <2>2
  <2>5. words \in 1 .. PCTop
    BY <2>1
  <2> HIDE DEF words
  <2>6. QED BY <2>3, <2>4, <2>5 DEF Expected!Load, Expected!OrDiverges, Expected!PC, PC
<1>13. QED BY <1>4, <1>7, <1>8, <1>9, <1>10, <1>11, <1>12 DEF Base

LEMMA LoadInStep ==
    ASSUME Base, InStep, LoadCommand, ~LoadedBehind
    PROVE  InStep'
<1> USE DEF LoadCommand, Command, cur_regs, new_regs
<1>1. phase = "prompt" /\ phase' = phase
  OBVIOUS
<1>2. AbsRegs' = AbsRegs
  BY <1>1 DEF AbsRegs, Committed
<1>3. InstructionsReal'
  <2>1. \A q \in {CurM, CurX, CurD} : q.live => memory'[q.at] = memory[q.at]
    BY <1>1, InFlightAre DEF LoadedBehind
  <2>2. /\ Live(cur_m_reg) => memory'[cur_m_reg.new_pc] = memory[cur_m_reg.new_pc]
        /\ Live(cur_x_reg) => memory'[cur_x_reg.new_pc] = memory[cur_x_reg.new_pc]
        /\ Live(cur_d_reg) => memory'[cur_d_reg.new_pc] = memory[cur_d_reg.new_pc]
    BY <2>1 DEF CurM, CurX, CurD
  <2>3. QED BY <1>1, <2>2 DEF InStep, InstructionsReal, RealM, Real, Live
<1>4. BubblesMade'
  BY <1>1 DEF InStep, BubblesMade, Live
<1>5. ResultsHandedOn'
  BY <1>1 DEF ResultsHandedOn
<1>6. OperandsAreRight'
  BY <1>1, <1>2 DEF InStep, OperandsAreRight, OperandsRight, Operand1, Operand2, Independent,
                    Live, ExecuteFlushes
<1>7. ExecutedRight'
  BY <1>1, <1>2 DEF InStep, ExecutedRight, Executed, Following, Operand1, Operand2, Or, CurX,
                    CurD, Live
<1>8. QED BY <1>3, <1>4, <1>5, <1>6, <1>7 DEF InStep

LEMMA SetpcKeeps ==
    ASSUME Base, memory \in Images, SetpcCommand
    PROVE  /\ Base' /\ (memory \in Images)'
           /\ Expected!Setpc
           /\ ~derailed' => Chain' /\ InStep'
<1> USE DEF SetpcCommand, Command, cur_regs, new_regs
<1>1. PICK p \in PC : command' = <<"setpc", p>> /\ pc' = p
  OBVIOUS
<1>2. phase = "prompt" /\ phase' = phase
  OBVIOUS
<1>3. TypeOK' /\ (memory \in Images)'
  BY <1>1 DEF Base, TypeOK
<1>4. PredictionsAreExact' /\ BranchesResident'
  BY DEF Base, PredictionsAreExact, BranchesResident, Resident
<1>5. RegistersGood'
  BY <1>2 DEF Base, RegistersGood, GoodD, GoodX, GoodM, GoodW, Fetched, Resident
<1>6. AbsRegs' = AbsRegs
  BY <1>2 DEF AbsRegs, Committed

\* An empty pipeline has nothing that could be out of step.
<1>7. ASSUME ~derailed'
      PROVE  /\ ~derailed /\ ~Live(cur_m_reg) /\ ~Live(cur_x_reg) /\ ~Live(cur_d_reg)
             /\ ~cur_w_reg.stalled /\ ~cur_x_reg.data_stalled
  <2>1. \A q \in {CurW, CurM, CurX, CurD} : ~q.live
    BY <1>2, <1>7, InFlightAre
  <2>2. QED BY <1>7, <2>1 DEF CurW, CurM, CurX, CurD
<1>8. ASSUME ~derailed'
      PROVE  OldestPC' = p
  BY <1>1, <1>2, <1>7, <1>8, AtPrompt DEF Or, CurW, CurM, CurX, CurD, Live
<1>9. ASSUME ~derailed'
      PROVE  Chain'
  BY <1>2, <1>7, <1>9 DEF Chain, ChainX, ChainD, Live
<1>10. ASSUME ~derailed'
       PROVE  InStep'
  <2>1. InstructionsReal'
    BY <1>2, <1>7, <1>10 DEF InstructionsReal, RealM, Live
  <2>2. BubblesMade'
    BY <1>2, <1>7, <1>10 DEF BubblesMade, Live
  <2>3. ResultsHandedOn'
    BY <1>2 DEF ResultsHandedOn
  <2>4. OperandsAreRight'
    BY <1>2, <1>7, <1>10 DEF OperandsAreRight, Live
  <2>5. ExecutedRight'
    BY <1>2, <1>7, <1>10 DEF ExecutedRight, Executed, Live
  <2>6. QED BY <2>1, <2>2, <2>3, <2>4, <2>5 DEF InStep
<1>11. Expected!Setpc
  <2>1. CASE derailed'
    BY <1>1, <2>1 DEF Expected!Setpc, Expected!OrDiverges, Expected!PC, PC, AbsPC
  <2>2. CASE ~derailed'
    <3>1. AbsPC' = p
      BY <1>8, <2>2 DEF AbsPC
    <3>2. AbsPC # Diverged
      <4>1. ~derailed /\ OldestPC = pc
        BY <1>2, <1>7, <2>2, AtPrompt DEF Or, CurW, CurM, CurX, CurD, Live
      <4>2. pc \in PC
        BY DEF Base, TypeOK
      <4>3. QED BY <4>1, <4>2, HistoryAssumption DEF AbsPC
    <3>3. QED BY <1>1, <1>6, <3>1, <3>2 DEF Expected!Setpc, Expected!OrDiverges, Expected!PC, PC
  <2>3. QED BY <2>1, <2>2
<1>12. QED BY <1>3, <1>4, <1>5, <1>9, <1>10, <1>11 DEF Base

\* A setpc beyond memory touches nothing but the address the next run begins at.
LEMMA SetpcOutsideKeeps ==
    ASSUME Base, memory \in Images, SetpcOutsideCommand
    PROVE  Base' /\ (memory \in Images)' /\ Expected!SetpcOutside /\ derailed'
<1> USE DEF SetpcOutsideCommand, Command, cur_regs, new_regs
<1>1. phase = "prompt" /\ phase' = phase
  OBVIOUS
<1>2. TypeOK' /\ (memory \in Images)'
  BY DEF Base, TypeOK
<1>3. PredictionsAreExact' /\ BranchesResident'
  BY DEF Base, PredictionsAreExact, BranchesResident, Resident
<1>4. RegistersGood'
  BY <1>1 DEF Base, RegistersGood, GoodD, GoodX, GoodM, GoodW, Fetched, Resident
<1>5. AbsRegs' = AbsRegs
  BY <1>1 DEF AbsRegs, Committed
<1>6. AbsPC' = Diverged
  BY DEF AbsPC
<1>7. Expected!SetpcOutside
  BY <1>5, <1>6 DEF Expected!SetpcOutside, Expected!OrDiverges
<1>8. QED BY <1>2, <1>3, <1>4, <1>7 DEF Base

LEMMA WriteregKeeps ==
    ASSUME Base, memory \in Images, WriteregCommand
    PROVE  /\ Base' /\ (memory \in Images)'
           /\ Expected!Writereg
           /\ Chain => Chain'
           /\ InStep /\ ~derailed' => InStep'
<1> USE DEF WriteregCommand, Command, cur_regs, new_regs
<1>1. PICK r \in Registers, v \in Values :
        /\ command' = <<"writereg", r, v>>
        /\ regs' = [regs EXCEPT ![r] = v]
        /\ derailed' = (derailed \/ WritesLate(r))
  OBVIOUS
<1>2. phase = "prompt" /\ phase' = phase
  OBVIOUS
<1>3. TypeOK' /\ (memory \in Images)'
  BY <1>1 DEF Base, TypeOK
<1>4. PredictionsAreExact' /\ BranchesResident'
  BY DEF Base, PredictionsAreExact, BranchesResident, Resident
<1>5. RegistersGood'
  BY <1>2 DEF Base, RegistersGood, GoodD, GoodX, GoodM, GoodW, Fetched, Resident
<1>6. Base'
  BY <1>3, <1>4, <1>5 DEF Base
<1>7. Chain => Chain'
  BY <1>2 DEF Chain, ChainX, ChainD, ExecuteFlushes, DecodeFlushes, Younger, NextPC
<1>8. OldestPC' = OldestPC
  BY <1>2, AtPrompt DEF Or, CurW, CurM, CurX, CurD, Live
<1>9. ASSUME ~derailed'
      PROVE  \A x \in Registers :
               AbsRegs'[x] = IF x # r THEN AbsRegs[x] ELSE IF r = 0 THEN 0 ELSE v
  <2>1. ~writes(cur_w_reg.instruction, r)
    BY <1>1, <1>9 DEF WritesLate
  <2>2. Committed = cur_w_reg /\ Committed' = cur_w_reg
    BY <1>2, AtPrompt
  <2>3. \A x \in Registers : regs'[x] = IF x = r THEN v ELSE regs[x]
    BY <1>1 DEF Base, TypeOK
  <2>4. QED BY <1>6, <2>1, <2>2, <2>3, RegsNext DEF RegsByPhase, Latest
<1>10. Expected!Writereg
  <2>1. CASE derailed'
    BY <1>1, <2>1 DEF Expected!Writereg, Expected!OrDiverges, AbsPC
  <2>2. CASE ~derailed'
    <3> DEFINE u == IF r = 0 THEN 0 ELSE v
    <3>1. AbsPC' = AbsPC
      BY <1>1, <1>8, <2>2 DEF AbsPC
    <3>2. AbsRegs \in [Registers -> Values] /\ AbsRegs' \in [Registers -> Values]
      BY <1>6, RegsNext DEF RegsByPhase
    <3>3. AbsRegs' = [AbsRegs EXCEPT ![r] = u]
      BY <1>9, <2>2, <3>2
    <3>4. QED BY <1>1, <3>1, <3>3 DEF Expected!Writereg, Expected!OrDiverges
  <2>3. QED BY <2>1, <2>2
<1>11. ASSUME InStep, ~derailed'
       PROVE  InStep'
  <2>1. ~reads(cur_m_reg.instruction, r) /\ ~reads(cur_x_reg.instruction, r)
    BY <1>1, <1>11 DEF WritesLate
  <2>2. \A i \in {cur_m_reg.instruction, cur_x_reg.instruction} :
          Operand1(i)' = Operand1(i) /\ Operand2(i)' = Operand2(i)
    <3> SUFFICES ASSUME NEW i \in {cur_m_reg.instruction, cur_x_reg.instruction}
                 PROVE  Operand1(i)' = Operand1(i) /\ Operand2(i)' = Operand2(i)
      OBVIOUS
    <3>1. i.rs1 \in Registers /\ i.rs2 \in Registers
      BY DEF Base, TypeOK, stage_reg_m, stage_reg_x, Instr
    <3>2. ~reads(i, r)
      BY <2>1
    <3>3. has_rs1(i) => AbsRegs'[i.rs1] = AbsRegs[i.rs1]
      BY <1>9, <1>11, <3>1, <3>2 DEF reads
    <3>4. has_rs2(i) => AbsRegs'[i.rs2] = AbsRegs[i.rs2]
      BY <1>9, <1>11, <3>1, <3>2 DEF reads
    <3>5. QED BY <3>3, <3>4 DEF Operand1, Operand2
  <2>3. InstructionsReal'
    BY <1>2, <1>11 DEF InStep, InstructionsReal, RealM, Real, Live
  <2>4. BubblesMade'
    BY <1>2, <1>11 DEF InStep, BubblesMade, Live
  <2>5. ResultsHandedOn'
    BY <1>2 DEF ResultsHandedOn
  <2>6. OperandsAreRight'
    BY <1>2, <1>11, <2>2 DEF InStep, OperandsAreRight, OperandsRight, Independent, Live,
                             ExecuteFlushes
  <2>7. ExecutedRight'
    <3> SUFFICES ASSUME ~cur_w_reg.stalled
                 PROVE  Executed(cur_m_reg, Or(CurX, Or(CurD, pc)))'
      BY <1>2 DEF ExecutedRight
    <3>1. Executed(cur_m_reg, Or(CurX, Or(CurD, pc)))
      BY <1>2, <1>11 DEF InStep, ExecutedRight
    <3>2. QED BY <2>2, <3>1 DEF Executed, Following, Or, CurX, CurD, Live
  <2>8. QED BY <2>3, <2>4, <2>5, <2>6, <2>7 DEF InStep
<1>12. QED BY <1>6, <1>3, <1>7, <1>10, <1>11

\* initialize: whatever went before, the session is in step again.
LEMMA InitializeKeeps ==
    ASSUME Base, memory \in Images, InitializeCommand
    PROVE  /\ Base' /\ (memory \in Images)'
           /\ Expected!Initialize
           /\ Chain' /\ InStep'
<1> USE DEF InitializeCommand, Command, new_regs
<1> USE Constants
<1>1. phase = "prompt" /\ phase' = phase
  OBVIOUS
<1>2. TypeOK' /\ (memory \in Images)'
  <2>1. cur_d_reg' \in stage_reg_d /\ cur_x_reg' \in stage_reg_x
    BY DEF EmptyD, EmptyX, GarbageD, MaybePC, MaybeValue, stage_reg_d, stage_reg_x
  <2>2. cur_m_reg' \in stage_reg_m /\ cur_w_reg' \in stage_reg_w
    BY DEF EmptyM, EmptyW, MaybePC, MaybeValue, stage_reg_m, stage_reg_w
  <2>3. icache' \in [Blocks -> {"absent", "pending", "resident"}]
    BY DEF Base, TypeOK
  <2>4. pc' \in PC
    OBVIOUS
  <2>5. QED BY <2>1, <2>2, <2>3, <2>4 DEF Base, TypeOK
<1>3. \A b \in Blocks : icache[b] = "resident" => icache'[b] = "resident"
  OBVIOUS
<1>4. \A a \in PC : Resident(a) => Resident(a)'
  BY <1>3 DEF Resident, Blocks
<1>5. PredictionsAreExact' /\ BranchesResident'
  <2>1. PredictionsAreExact'
    BY DEF Base, PredictionsAreExact
  <2>2. \A i \in BTB!Slots : btb.entries[i].pc \in PC
    BY DEF Base, TypeOK, BTB!Buffer, BTB!Entry
  <2>3. BranchesResident'
    BY <1>4, <2>2 DEF Base, BranchesResident
  <2>4. QED BY <2>1, <2>3
<1>6. RegistersGood'
  BY <1>1 DEF RegistersGood, GoodD, GoodX, GoodM, GoodW, EmptyD, EmptyX, EmptyM, EmptyW,
              GarbageD, NOP, has_rd
<1>7. Base'
  BY <1>2, <1>5, <1>6 DEF Base
<1>8. Chain'
  BY <1>1 DEF Chain, ChainX, ChainD, EmptyD, EmptyX, GarbageD
<1>9. InStep'
  <2> USE DEF EmptyD, EmptyX, EmptyM, EmptyW, GarbageD, Live
  <2>1. InstructionsReal'
    BY <1>1 DEF InstructionsReal, RealM
  <2>2. BubblesMade'
    BY <1>1 DEF BubblesMade
  <2>3. ResultsHandedOn'
    BY <1>1 DEF ResultsHandedOn
  <2>4. OperandsAreRight'
    BY <1>1 DEF OperandsAreRight
  <2>5. ExecutedRight'
    BY <1>1 DEF ExecutedRight, Executed
  <2>6. QED BY <2>1, <2>2, <2>3, <2>4, <2>5 DEF InStep
<1>10. AbsPC' = 0
  BY <1>1, AtPrompt DEF AbsPC, Or, CurW, CurM, CurX, CurD, Live, EmptyD, EmptyX, EmptyM,
                        EmptyW, GarbageD

\* The write that was under way is lost.
<1>11. \E r \in Registers, v \in Values :
         AbsRegs' = [AbsRegs EXCEPT ![r] = IF r = 0 THEN 0 ELSE v]
  <2> DEFINE r == cur_w_reg.instruction.rd
             v == regs[r]
  <2>1. r \in Registers /\ v \in Values
    BY DEF Base, TypeOK, stage_reg_w, Instr
  <2>2. Committed = cur_w_reg /\ Committed' = EmptyW
    BY <1>1, AtPrompt
  <2>3. AbsRegs \in [Registers -> Values] /\ AbsRegs' \in [Registers -> Values]
    BY <1>7, RegsNext DEF RegsByPhase
  <2>4. \A x \in Registers : AbsRegs'[x] = IF x = 0 THEN 0 ELSE regs[x]
    BY <1>7, <2>2, RegsNext DEF RegsByPhase, Latest, EmptyW, NOP, writes, has_rd
  <2>5. \A x \in Registers : AbsRegs[x] = IF x = 0 THEN 0 ELSE Latest(cur_w_reg, x)
    BY <2>2, RegsNext DEF RegsByPhase
  <2>6. \A x \in Registers \ {r} : Latest(cur_w_reg, x) = regs[x]
    BY DEF Latest, writes
  <2> HIDE DEF r, v
  <2>7. v = regs[r]
    BY DEF v
  <2>8. \A x \in Registers :
          AbsRegs'[x] = IF x = r THEN (IF r = 0 THEN 0 ELSE v) ELSE AbsRegs[x]
    BY <2>1, <2>4, <2>5, <2>6, <2>7
  <2>9. AbsRegs' = [AbsRegs EXCEPT ![r] = IF r = 0 THEN 0 ELSE v]
    <3> DEFINE u == IF r = 0 THEN 0 ELSE v
    <3>1. \A x \in Registers : AbsRegs'[x] = IF x = r THEN u ELSE AbsRegs[x]
      BY <2>8
    <3> HIDE DEF u
    <3>2. AbsRegs' = [AbsRegs EXCEPT ![r] = u]
      BY <2>1, <2>3, <3>1
    <3>3. QED BY <3>2 DEF u
  <2>10. QED BY <2>1, <2>9
<1>12. Expected!Initialize
  BY <1>10, <1>11 DEF Expected!Initialize
<1>13. QED BY <1>2, <1>7, <1>8, <1>9, <1>12

-----------------------------------------------------------------------------
(* The cycles of a run.                                                    *)

\* A cycle that derails nothing fetches what the memory says.
LEMMA RunKeeps ==
    ASSUME SInv, Run
    PROVE  /\ SInv'
           /\ [Expected!Next]_(Expected!vars) /\ command' = <<>>
<1>1. Next /\ command' = <<>> /\ derailed' = (derailed \/ Derails \/ FetchesStale)
  BY DEF Run
<1>2. Base' /\ (Chain => Chain') /\ UNCHANGED <<code, memory>>
  BY <1>1, BaseStep, ProgramStays DEF SInv
<1>3. ASSUME ~derailed'
      PROVE  InStep' /\ (Machine!Step \/ UNCHANGED <<OldestPC, AbsRegs>>)
  <2>1. ~derailed /\ ~Derails /\ ~FetchesStale
    BY <1>1, <1>3
  <2>2. FetchHit => code[FetchPC] = memory[FetchPC]
    BY <2>1 DEF FetchesStale, FetchHit, EnterF
  <2>3. IInv /\ InStep
    BY <2>1 DEF SInv, IInv
  <2>4. QED BY <1>1, <2>1, <2>2, <2>3, NextInStep
<1>4. SInv'
  BY <1>1, <1>2, <1>3 DEF SInv
<1>5. [Expected!Next]_(Expected!vars)
  <2>1. CASE derailed'
    BY <1>2, <2>1 DEF Expected!Next, Expected!Diverge, AbsPC
  <2>2. CASE ~derailed'
    <3>1. AbsPC = OldestPC /\ AbsPC' = OldestPC'
      BY <1>1, <2>2 DEF AbsPC
    <3>2. ASSUME Machine!Step
          PROVE  Expected!Step
      BY <3>1, <3>2 DEF Machine!Step, Machine!execute_single_instruction, Machine!Results,
         Machine!has_rs1, Machine!has_rs2, Machine!has_rd, Machine!branch_stage,
         Machine!register_read_one, Expected!Step, Expected!execute_single_instruction,
         Expected!Results, Expected!has_rs1, Expected!has_rs2, Expected!has_rd,
         Expected!branch_stage, Expected!register_read_one
    <3>3. ASSUME UNCHANGED <<OldestPC, AbsRegs>>
          PROVE  UNCHANGED Expected!vars
      BY <1>2, <3>1, <3>3 DEF Expected!vars
    <3>4. QED BY <1>3, <2>2, <3>2, <3>3 DEF Expected!Next
  <2>3. QED BY <2>1, <2>2
<1>6. QED BY <1>1, <1>4, <1>5

-----------------------------------------------------------------------------
(* The session.                                                            *)

LEMMA SessionStarts == SessionInit => SInv /\ Expected!Init /\ command = <<>>
<1> SUFFICES ASSUME SessionInit
             PROVE  SInv /\ Expected!Init /\ command = <<>>
  OBVIOUS
<1>1. HInit /\ Init /\ command = <<>>
  BY DEF SessionInit, HInit
<1>2. IInv /\ InStep
  BY <1>1, InitInvariant, InitInStep
<1>3. memory \in Programs /\ code = memory
  BY <1>1 DEF Init
<1>4. SInv
  BY <1>2, <1>3, ProgramsAreImages DEF SInv, IInv
<1>5. Sequential!Init
  BY <1>1, RefinesInit
<1>6. Expected!Init
  BY <1>3, <1>5 DEF Sequential!Init, Expected!Init
<1>7. QED BY <1>1, <1>4, <1>6

LEMMA SessionStutters ==
    ASSUME SInv, UNCHANGED svars
    PROVE  SInv' /\ UNCHANGED Expected!svars
<1>1. UNCHANGED vars /\ UNCHANGED <<derailed, command>>
  BY DEF svars, hvars
<1>2. Base' /\ (Chain => Chain')
  BY <1>1, BaseStep DEF SInv
<1>3. (InStep => InStep') /\ UNCHANGED <<OldestPC, AbsRegs>>
  BY <1>1, UnchangedInStep
<1>4. memory' = memory
  BY <1>1 DEF vars
<1>5. SInv'
  BY <1>1, <1>2, <1>3, <1>4 DEF SInv
<1>6. UNCHANGED <<memory, AbsPC, AbsRegs, command>>
  BY <1>1, <1>3, <1>4 DEF AbsPC
<1>7. QED BY <1>5, <1>6 DEF Expected!svars, Expected!vars

\* Every command and every cycle keeps the invariant, and is what a user
\* expects of it or a departure from it.
LEMMA SessionStep ==
    SInv /\ [SessionNext]_svars => SInv' /\ [Expected!SessionNext]_(Expected!svars)
<1> SUFFICES ASSUME SInv, [SessionNext]_svars
             PROVE  SInv' /\ [Expected!SessionNext]_(Expected!svars)
  OBVIOUS
<1>1. Base /\ memory \in Images /\ (~derailed => Chain /\ InStep)
  BY DEF SInv
<1>2. CASE Run
  <2>1. SInv' /\ [Expected!Next]_(Expected!vars) /\ command' = <<>>
    BY <1>2, RunKeeps
  <2>2. QED BY <2>1 DEF Expected!SessionNext
<1>3. CASE LoadCommand
  <2>1. derailed' = (derailed \/ LoadedBehind)
    BY <1>3 DEF LoadCommand
  <2>2. /\ Base' /\ (memory \in Images)'
        /\ (Chain => Chain') /\ Expected!Load
    BY <1>1, <1>3, LoadKeeps
  <2>3. ~derailed' => Chain' /\ InStep'
    BY <1>1, <1>3, <2>1, <2>2, LoadInStep
  <2>4. QED BY <2>2, <2>3 DEF SInv, Expected!SessionNext
<1>4. CASE SetpcCommand
  <2>1. /\ Base' /\ (memory \in Images)' /\ Expected!Setpc
        /\ ~derailed' => Chain' /\ InStep'
    BY <1>1, <1>4, SetpcKeeps
  <2>2. QED BY <2>1 DEF SInv, Expected!SessionNext
<1>5. CASE WriteregCommand
  <2>1. ~derailed' => ~derailed
    BY <1>5 DEF WriteregCommand
  <2>2. /\ Base' /\ (memory \in Images)' /\ Expected!Writereg
        /\ Chain => Chain'
        /\ InStep /\ ~derailed' => InStep'
    BY <1>1, <1>5, WriteregKeeps
  <2>3. QED BY <1>1, <2>1, <2>2 DEF SInv, Expected!SessionNext
<1>6. CASE InitializeCommand
  <2>1. Base' /\ (memory \in Images)' /\ Expected!Initialize /\ Chain' /\ InStep'
    BY <1>1, <1>6, InitializeKeeps
  <2>2. QED BY <2>1 DEF SInv, Expected!SessionNext
<1>7. CASE SetpcOutsideCommand
  BY <1>1, <1>7, SetpcOutsideKeeps DEF SInv, Expected!SessionNext
<1>8. CASE UNCHANGED svars
  BY <1>8, SessionStutters
<1>9. QED BY <1>2, <1>3, <1>4, <1>5, <1>6, <1>7, <1>8 DEF SessionNext

\* What the pipeline registers, the caches and the BTB hold stays sound through
\* every command, and in step with the program until a named departure.
THEOREM SessionInvariant == SessionSpec => []SInv
BY SessionStarts, SessionStep, PTL DEF SessionSpec

\* A load, a setpc or an initialize leaves no prediction of the BTB wrong: the
\* words predicted on are resident, and load does not change those
\* (framework, load; initialize_state).
THEOREM SessionPredictions == SessionSpec => []PredictionsAreExact
<1>1. SInv => PredictionsAreExact
  BY DEF SInv, Base
<1>2. QED BY <1>1, SessionInvariant, PTL

\* A session is what its user expects, command by command and instruction by
\* instruction, from initialize on to the first of the named departures.
THEOREM SessionRefines == SessionSpec => RefinesSession
<1>1. SessionInit => SInv /\ Expected!Init /\ command = <<>>
  BY SessionStarts
<1>2. SInv /\ [SessionNext]_svars => SInv' /\ [Expected!SessionNext]_(Expected!svars)
  BY SessionStep
<1>3. QED BY <1>1, <1>2, PTL DEF SessionSpec, RefinesSession, Expected!SessionSpec

=============================================================================

--------------------------- MODULE PipelineProofs ---------------------------
(***************************************************************************)
(* Proofs about the pipeline for every program, memory size, ALU and       *)
(* number of BTB entries: the invariant IInv of PipelineInvariant.tla is   *)
(* inductive, and with it the type invariant, the exactness of the BTB,    *)
(* the safety of replays and the correctness of the speculated path.       *)
(***************************************************************************)
EXTENDS PipelineInvariant, LeastElement

\* A BTB with an index to replace exists: ENTRY_NUM is positive (the macro
\* of pipeline.c is 32).
LEMMA Constants ==
    /\ ENTRY_NUM \in Nat \ {0}
    /\ 0 \in PC
    /\ PCTop \in Nat \ {0}
    /\ NOP \in Instr
    /\ 0 \in Values
<1>1. PCTop \in Nat \ {0} /\ 0 \in PC
  BY PipelineAssumption DEF PC
<1>2. ENTRY_NUM \in Nat \ {0}
  BY PipelineAssumption
<1>3. NOP \in Instr
  BY InstructionsAssumption DEF NOP, Instr, Ops
<1>4. QED BY <1>1, <1>2, <1>3, InstructionsAssumption

\* The addresses wrap: every sum is an address.
LEMMA AddressWraps == \A n \in Int : n % PCTop \in PC
BY Constants DEF PC

-----------------------------------------------------------------------------
(* The BTB.                                                                *)

\* A search that succeeds returns the prediction of an entry that is valid
\* and names the address.
LEMMA SearchLemma ==
    ASSUME NEW b \in BTB!Buffer, NEW a, BTB!found_BTB(b, a)
    PROVE  \E i \in BTB!Slots : /\ b.entries[i].valid
                                /\ b.entries[i].pc = a
                                /\ BTB!predicted_pc(b, a) = b.entries[i].predict_pc
<1> DEFINE hits == BTB!Hits(b, a)
<1>1. hits \in SUBSET Nat /\ hits # {}
  BY Constants DEF BTB!found_BTB, BTB!Hits, BTB!Named, BTB!Slots
<1>2. PICK i \in hits : \A j \in hits : i <= j
  BY <1>1, LeastElementExists
<1> HIDE DEF hits
<1>3. BTB!First(hits) \in hits
  BY <1>2 DEF BTB!First
<1>4. QED
  BY <1>3 DEF hits, BTB!predicted_pc, BTB!Hits, BTB!Named

LEMMA PredictedType ==
    ASSUME NEW b \in BTB!Buffer, NEW a, BTB!found_BTB(b, a)
    PROVE  BTB!predicted_pc(b, a) \in PC
BY SearchLemma DEF BTB!Buffer, BTB!Entry

LEMMA UpdateLemma ==
    ASSUME NEW b \in BTB!Buffer, NEW a \in PC, NEW t \in PC
    PROVE  LET u == BTB!update_BTB(b, a, t)
           IN  /\ u \in BTB!Buffer
               /\ \A i \in BTB!Slots :
                    u.entries[i] = IF i = b.idx
                                   THEN [pc |-> a, predict_pc |-> t, valid |-> TRUE]
                                   ELSE b.entries[i]
<1>1. (b.idx + 1) % ENTRY_NUM \in BTB!Slots
  BY Constants DEF BTB!Buffer, BTB!Slots
<1>2. QED
  BY <1>1 DEF BTB!update_BTB, BTB!Buffer, BTB!Entry

LEMMA DeleteLemma ==
    ASSUME NEW b \in BTB!Buffer, NEW a
    PROVE  LET u == BTB!delete_BTB(b, a)
           IN  /\ u \in BTB!Buffer
               /\ \A i \in BTB!Slots : u.entries[i].valid => u.entries[i] = b.entries[i]
<1>1. CASE BTB!Named(b, a) = {}
  BY <1>1 DEF BTB!delete_BTB
<1>2. CASE BTB!Named(b, a) # {}
  <2> DEFINE k == BTB!First(BTB!Named(b, a))
        u == BTB!delete_BTB(b, a)
  <2>1. u = [b EXCEPT !.entries[k].valid = FALSE]
    BY <1>2 DEF BTB!delete_BTB
  <2> HIDE DEF k, u
  <2>2. /\ u = [entries |-> u.entries, idx |-> b.idx]
        /\ u.entries = [b.entries EXCEPT ![k].valid = FALSE]
    BY <2>1 DEF BTB!Buffer
  <2>3. \A i \in BTB!Slots :
          /\ i # k => u.entries[i] = b.entries[i]
          /\ i = k => u.entries[i] = [b.entries[i] EXCEPT !.valid = FALSE]
    BY <2>2 DEF BTB!Buffer
  <2>4. \A i \in BTB!Slots : u.entries[i] \in BTB!Entry
    BY <2>3 DEF BTB!Buffer, BTB!Entry
  <2>5. u.entries \in [BTB!Slots -> BTB!Entry] /\ b.idx \in BTB!Slots
    <3>1. b.entries \in [BTB!Slots -> BTB!Entry] /\ b.idx \in BTB!Slots
      BY DEF BTB!Buffer
    <3>2. u.entries = [i \in BTB!Slots |-> u.entries[i]]
      BY <3>1, <2>2
    <3>3. QED BY <3>1, <3>2, <2>4
  <2>6. u \in BTB!Buffer
    <3> DEFINE g == u.entries
    <3>1. u = [entries |-> g, idx |-> b.idx]
      BY <2>2
    <3>2. g \in [BTB!Slots -> BTB!Entry] /\ b.idx \in BTB!Slots
      BY <2>5
    <3> HIDE DEF g
    <3>3. [entries |-> g, idx |-> b.idx] \in BTB!Buffer
      BY <3>2 DEF BTB!Buffer
    <3>4. QED BY <3>1, <3>3
  <2>7. ASSUME NEW i \in BTB!Slots, u.entries[i].valid
        PROVE  u.entries[i] = b.entries[i]
    BY <2>3, <2>7 DEF BTB!Buffer, BTB!Entry
  <2>8. QED BY <2>6, <2>7 DEF u
<1>3. QED BY <1>1, <1>2

LEMMA NextPCType ==
    ASSUME btb \in BTB!Buffer, NEW a \in PC
    PROVE  NextPC(a) \in PC
BY PredictedType, AddressWraps DEF NextPC, PC

-----------------------------------------------------------------------------
(* The invariant: initially, and after every action.                       *)

\* A program is a memory image.
LEMMA ProgramsAreImages == Programs \subseteq Images
BY PipelineAssumption DEF Images, WordsAt

LEMMA InitInvariant == Init => IInv
<1> SUFFICES ASSUME Init
             PROVE  IInv
  OBVIOUS
<1> USE Constants DEF EmptyD, EmptyX, EmptyM, EmptyW
<1>1. BTB!EmptyBuffer \in BTB!Buffer
  BY DEF BTB!EmptyBuffer, BTB!Buffer, BTB!Entry, BTB!Slots
<1>2. TypeOK
  BY <1>1, ProgramsAreImages
     DEF Init, TypeOK, GarbageD, GarbageX, GarbageM, GarbageW, MaybePC, MaybeValue,
         stage_reg_d, stage_reg_x, stage_reg_m, stage_reg_w
<1>3. PredictionsAreExact
  BY DEF Init, PredictionsAreExact, BTB!EmptyBuffer
<1>4. RegistersGood
  BY DEF Init, RegistersGood, GoodD, GoodX, GoodM, GoodW, GarbageD, has_rd, NOP
<1>5. Chain
  BY DEF Init, Chain, ChainX, ChainD, GarbageD
<1>6. BranchesResident
  BY DEF Init, BranchesResident, BTB!EmptyBuffer
<1>7. QED BY <1>2, <1>3, <1>4, <1>5, <1>6 DEF IInv, Base

LEMMA CodeType == TypeOK => code \in [PC -> Instr]
BY DEF TypeOK, Images

LEMMA RunCommandStep ==
    ASSUME Base, RunCommand
    PROVE  Base' /\ (Chain => Chain')
<1> USE DEF Base, RunCommand
<1>1. TypeOK'
  BY Constants DEF TypeOK, new_regs, cur_regs, GarbageD, GarbageX, GarbageM, GarbageW,
     MaybePC, MaybeValue, stage_reg_d, stage_reg_x, stage_reg_m, stage_reg_w
<1>2. PredictionsAreExact' /\ BranchesResident'
  BY DEF PredictionsAreExact, BranchesResident, Resident
<1>3. RegistersGood'
  BY DEF RegistersGood, GoodD, GoodX, GoodM, GoodW, Fetched, Resident, cur_regs
<1>4. Chain => Chain'
  BY DEF Chain, ChainX, ChainD, ExecuteFlushes, DecodeFlushes, Younger, NextPC, cur_regs
<1>5. QED BY <1>1, <1>2, <1>3, <1>4

LEMMA WritebackStep ==
    ASSUME Base, StageWriteback
    PROVE  Base' /\ (Chain => Chain')
<1> USE DEF Base, StageWriteback
<1>1. TypeOK'
  <2>1. regs' \in [Registers -> Values]
    BY DEF TypeOK, RegistersGood, GoodW
  <2>2. QED BY <2>1 DEF TypeOK, cur_regs, new_regs
<1>2. PredictionsAreExact' /\ BranchesResident'
  BY DEF PredictionsAreExact, BranchesResident, Resident
<1>3. RegistersGood'
  BY DEF RegistersGood, GoodD, GoodX, GoodM, GoodW, Fetched, Resident, cur_regs
<1>4. Chain => Chain'
  BY DEF Chain, ChainX, ChainD, ExecuteFlushes, DecodeFlushes, Younger, NextPC, cur_regs
<1>5. QED BY <1>1, <1>2, <1>3, <1>4

LEMMA MemoryStep ==
    ASSUME Base, StageMemory
    PROVE  Base' /\ (Chain => Chain')
<1> USE DEF Base
<1>1. EnterM
  BY DEF StageMemory, MemoryBubble, MemoryMiss, MemoryPass
<1>2. new_w_reg' \in stage_reg_w /\ GoodW(new_w_reg')
  <2> USE Constants DEF TypeOK, stage_reg_w, stage_reg_m
  <2>1. CASE MemoryBubble
    BY <2>1 DEF MemoryBubble, GoodW, has_rd, NOP
  <2>2. CASE MemoryMiss
    <3>1. cur_m_reg.instruction # NOP /\ ~cur_m_reg.control_stalled
      BY <2>2 DEF MemoryMiss, MemoryFlushes, NOP
    <3>2. cur_m_reg.new_pc \in PC /\ Resident(cur_m_reg.new_pc)
      BY <3>1 DEF RegistersGood, GoodM, Fetched
    <3>3. new_w_reg' \in stage_reg_w
      BY <2>2 DEF MemoryMiss
    <3>4. /\ new_w_reg'.instruction = NOP
          /\ new_w_reg'.new_pc = cur_m_reg.new_pc
      BY <2>2 DEF MemoryMiss
    <3>5. QED BY <3>2, <3>3, <3>4 DEF GoodW, has_rd, NOP
  <2>3. CASE MemoryPass
    <3>1. PICK v \in IF cur_m_reg.instruction.op = "LOAD" THEN Values ELSE {cur_m_reg.res} :
             new_w_reg' = [instruction |-> cur_m_reg.instruction, stalled |-> FALSE,
                           val |-> v, new_pc |-> cur_m_reg.new_pc]
      BY <2>3 DEF MemoryPass
    <3>2. /\ v \in MaybeValue
          /\ has_rd(cur_m_reg.instruction) => v \in Values
      BY DEF MaybeValue, RegistersGood, GoodM
    <3>3. cur_m_reg.instruction \in Instr /\ cur_m_reg.new_pc \in MaybePC
      OBVIOUS
    <3>4. new_w_reg' \in stage_reg_w
      BY <3>1, <3>2, <3>3
    <3>5. /\ new_w_reg'.instruction = cur_m_reg.instruction
          /\ new_w_reg'.val = v
          /\ new_w_reg'.stalled = FALSE
      BY <3>1
    <3>6. GoodW(new_w_reg')
      BY <3>2, <3>5 DEF GoodW
    <3>7. QED BY <3>4, <3>6
  <2>4. QED BY <2>1, <2>2, <2>3 DEF StageMemory
<1>3. TypeOK'
  BY <1>1, <1>2 DEF TypeOK, EnterM, cur_regs
<1>4. PredictionsAreExact' /\ BranchesResident'
  BY <1>1 DEF EnterM, PredictionsAreExact, BranchesResident, Resident
<1>5. RegistersGood'
  BY <1>1, <1>2 DEF EnterM, RegistersGood, GoodD, GoodX, GoodM, GoodW, Fetched, Resident, cur_regs
<1>6. Chain => Chain'
  BY <1>1 DEF EnterM, Chain, ChainX, ChainD, ExecuteFlushes, DecodeFlushes, Younger,
              NextPC, cur_regs
<1>7. QED BY <1>3, <1>4, <1>5, <1>6

\* The word X resolves is the one at its address, on values of registers, and
\* its target has been computed.
LEMMA ResolvedWord ==
    ASSUME Base, cur_x_reg.instruction # NOP
    PROVE  /\ cur_x_reg.instruction \in Instr
           /\ cur_x_reg.instruction = code[cur_x_reg.new_pc]
           /\ cur_x_reg.new_pc \in PC
           /\ Resident(cur_x_reg.new_pc)
           /\ computes(cur_x_reg.instruction) => execute_stage(cur_x_reg) \in Values
           /\ BranchTaken \in BOOLEAN
           /\ BranchTaken => is_branch(cur_x_reg.instruction)
           /\ is_branch(cur_x_reg.instruction) =>
                 cur_x_reg.extend_pc
                    = (cur_x_reg.new_pc + cur_x_reg.instruction.imm) % PCTop
<1>1. GoodX(cur_x_reg)
  BY DEF Base, RegistersGood
<1>2. /\ Fetched(cur_x_reg)
      /\ cur_x_reg.reg1 \in Values /\ cur_x_reg.reg2 \in Values
  BY <1>1 DEF GoodX
<1>3. cur_x_reg.instruction \in Instr
  BY DEF Base, TypeOK, stage_reg_x
<1>4. PICK image \in Programs : code[cur_x_reg.new_pc] = image[cur_x_reg.new_pc]
  BY <1>2 DEF Base, TypeOK, Images, WordsAt, Fetched
<1>5. /\ Exec(cur_x_reg.instruction, cur_x_reg.reg1, cur_x_reg.reg2, cur_x_reg.new_pc) \in Values
      /\ Taken(cur_x_reg.instruction, cur_x_reg.reg1, cur_x_reg.reg2) \in BOOLEAN
  BY <1>2, <1>4, ExecAssumption DEF Fetched
<1>6. computes(cur_x_reg.instruction) => execute_stage(cur_x_reg) \in Values
  BY <1>5 DEF execute_stage
<1>7. /\ BranchTaken \in BOOLEAN
      /\ BranchTaken => is_branch(cur_x_reg.instruction)
  BY <1>5 DEF BranchTaken, branch_stage, is_branch
<1>8. QED BY <1>1, <1>2, <1>3, <1>6, <1>7 DEF Fetched, GoodX

LEMMA ExecuteStep ==
    ASSUME Base, StageExecute
    PROVE  Base' /\ (Chain => Chain')
<1> DEFINE x == cur_x_reg
<1>1. EnterX
  BY DEF StageExecute, ExecuteBubble, PredictRight, DidNotPredict, PredictWrong,
         NormalExecution, Resolve
<1>2. TypeOK /\ PredictionsAreExact /\ BranchesResident /\ RegistersGood
  BY DEF Base
<1>3. ASSUME NEW redirects \in BOOLEAN, NEW target \in PC, Resolve(redirects, target),
             redirects \/ target = x.new_pc
      PROVE  /\ new_m_reg' \in stage_reg_m
             /\ new_m_reg'.control_stalled = redirects
             /\ GoodM(new_m_reg')
  <2>1. x.instruction # NOP
    BY <1>3 DEF Resolve
  <2>2. /\ x.instruction \in Instr
        /\ x.instruction = code[x.new_pc]
        /\ x.new_pc \in PC
        /\ Resident(x.new_pc)
        /\ computes(x.instruction) => execute_stage(x) \in Values
    BY <2>1, ResolvedWord
  <2>3. /\ execute_stage(x) \in MaybeValue
        /\ has_rd(x.instruction) => execute_stage(x) \in Values
    BY <2>2 DEF MaybeValue, execute_stage, computes, has_rd
  <2>4. new_m_reg' = [instruction |-> x.instruction, control_stalled |-> redirects,
                      res |-> execute_stage(x), new_pc |-> target]
    BY <1>3 DEF Resolve
  <2> DEFINE e == execute_stage(x)
  <2> HIDE DEF e
  <2>5. new_m_reg' \in stage_reg_m
    BY <2>2, <2>3, <2>4 DEF stage_reg_m, MaybePC, e
  <2>6. /\ new_m_reg'.instruction = x.instruction
        /\ new_m_reg'.control_stalled = redirects
        /\ new_m_reg'.res = e
        /\ new_m_reg'.new_pc = target
    BY <2>4 DEF e
  <2>7. GoodM(new_m_reg')
    BY <1>3, <2>1, <2>2, <2>3, <2>6 DEF GoodM, Fetched, e
  <2>8. QED BY <2>5, <2>6, <2>7
<1>4. /\ new_m_reg' \in stage_reg_m
      /\ GoodM(new_m_reg')
      /\ btb' \in BTB!Buffer
      /\ ~new_m_reg'.control_stalled => btb' = btb
      /\ PredictionsAreExact' /\ BranchesResident'
  <2>0. code' = code /\ icache' = icache
    BY <1>1 DEF EnterX
  <2>1. CASE ExecuteBubble
    <3>1. /\ new_m_reg' \in stage_reg_m
          /\ new_m_reg'.instruction = NOP /\ ~new_m_reg'.control_stalled
          /\ btb' = btb
      BY <1>2, <2>1, Constants DEF ExecuteBubble, TypeOK, stage_reg_m
    <3>2. GoodM(new_m_reg')
      BY <3>1 DEF GoodM, has_rd, NOP
    <3>3. QED BY <1>2, <2>0, <3>1, <3>2 DEF TypeOK, PredictionsAreExact, BranchesResident, Resident
  <2>2. CASE PredictRight
    <3>1. x.new_pc \in PC
      BY <2>2, ResolvedWord DEF PredictRight, Resolve
    <3>2. btb' = btb
      BY <2>2 DEF PredictRight
    <3>3. new_m_reg' \in stage_reg_m /\ GoodM(new_m_reg')
      BY <1>3, <2>2, <3>1 DEF PredictRight
    <3>4. QED BY <1>2, <2>0, <3>2, <3>3 DEF TypeOK, PredictionsAreExact, BranchesResident, Resident
  <2>3. CASE DidNotPredict
    <3>1. /\ x.instruction = code[x.new_pc]
          /\ x.new_pc \in PC
          /\ is_branch(x.instruction)
          /\ x.extend_pc = (x.new_pc + x.instruction.imm) % PCTop
      BY <2>3, ResolvedWord DEF DidNotPredict, Resolve
    <3>2. x.extend_pc \in PC
      <4>1. x.instruction.imm \in Int
        BY <1>2 DEF TypeOK, stage_reg_x, Instr
      <4>2. QED BY <3>1, <4>1, AddressWraps DEF PC
    <3>3. /\ new_m_reg' \in stage_reg_m
          /\ GoodM(new_m_reg')
          /\ new_m_reg'.control_stalled
      BY <1>3, <2>3, <3>2 DEF DidNotPredict
    <3>4. CASE x.extend_pc < x.new_pc
      <4>1. btb' = BTB!update_BTB(btb, x.new_pc, x.extend_pc)
        BY <2>3, <3>4 DEF DidNotPredict
      <4>2. btb \in BTB!Buffer
        BY <1>2 DEF TypeOK
      <4>3. /\ btb' \in BTB!Buffer
            /\ \A i \in BTB!Slots :
                 btb'.entries[i] = IF i = btb.idx
                                   THEN [pc |-> x.new_pc, predict_pc |-> x.extend_pc,
                                         valid |-> TRUE]
                                   ELSE btb.entries[i]
        BY <3>1, <3>2, <4>1, <4>2, UpdateLemma
      <4>4. PredictionsAreExact'
        BY <1>2, <2>0, <3>1, <3>4, <4>3 DEF PredictionsAreExact
      <4>5. Resident(x.new_pc)
        BY <2>3, ResolvedWord DEF DidNotPredict, Resolve
      <4>6. BranchesResident'
        BY <1>2, <2>0, <4>3, <4>5 DEF BranchesResident, Resident
      <4>7. QED BY <3>3, <4>3, <4>4, <4>6
    <3>5. CASE ~(x.extend_pc < x.new_pc)
      <4>1. btb' = btb
        BY <2>3, <3>5 DEF DidNotPredict
      <4>2. QED BY <1>2, <2>0, <3>3, <4>1 DEF TypeOK, PredictionsAreExact, BranchesResident, Resident
    <3>6. QED BY <3>4, <3>5
  <2>4. CASE PredictWrong
    <3>1. x.new_pc \in PC
      BY <2>4, ResolvedWord DEF PredictWrong, Resolve
    <3>2. (x.new_pc + 1) % PCTop \in PC
      BY <3>1, AddressWraps DEF PC
    <3>3. /\ new_m_reg' \in stage_reg_m
          /\ GoodM(new_m_reg')
          /\ new_m_reg'.control_stalled
      BY <1>3, <2>4, <3>2 DEF PredictWrong
    <3>4. /\ btb' \in BTB!Buffer
          /\ \A i \in BTB!Slots :
               btb'.entries[i].valid => btb'.entries[i] = btb.entries[i]
      BY <1>2, <2>4, DeleteLemma DEF PredictWrong, TypeOK
    <3>5. PredictionsAreExact' /\ BranchesResident'
      BY <1>2, <2>0, <3>4 DEF PredictionsAreExact, BranchesResident, Resident
    <3>6. QED BY <3>3, <3>4, <3>5
  <2>5. CASE NormalExecution
    <3>1. x.new_pc \in PC
      BY <2>5, ResolvedWord DEF NormalExecution, Resolve
    <3>2. btb' = btb
      BY <2>5 DEF NormalExecution
    <3>3. new_m_reg' \in stage_reg_m /\ GoodM(new_m_reg')
      BY <1>3, <2>5, <3>1 DEF NormalExecution
    <3>4. QED BY <1>2, <2>0, <3>2, <3>3 DEF TypeOK, PredictionsAreExact, BranchesResident, Resident
  <2>6. QED BY <2>1, <2>2, <2>3, <2>4, <2>5 DEF StageExecute
<1>5. TypeOK'
  BY <1>1, <1>2, <1>4 DEF TypeOK, EnterX, cur_regs
<1>6. RegistersGood'
  BY <1>1, <1>2, <1>4 DEF EnterX, RegistersGood, GoodD, GoodX, GoodM, GoodW, Fetched,
                          Resident, cur_regs
<1>7. Chain => Chain'
  BY <1>1, <1>2, <1>4 DEF EnterX, Chain, ChainD, DecodeFlushes, NextPC, cur_regs
<1>8. QED BY <1>4, <1>5, <1>6, <1>7 DEF Base

\* An operand that D reads or forwards is a value.
LEMMA ForwardType ==
    ASSUME Base, NEW r \in Registers
    PROVE  Forward(r) \in Values
<1>1. regs[r] \in Values
  BY DEF Base, TypeOK
<1>2. /\ writes(cur_w_reg.instruction, r) => cur_w_reg.val \in Values
      /\ writes(cur_m_reg.instruction, r) => cur_m_reg.res \in Values
  BY DEF Base, RegistersGood, GoodM, GoodW, writes
<1>3. register_read_one(regs, r) \in Values
  BY <1>1, Constants DEF register_read_one
<1>4. QED BY <1>2, <1>3 DEF Forward

LEMMA DecodeStep ==
    ASSUME Base, StageDecode
    PROVE  Base' /\ (Chain => Chain')
<1> DEFINE d == cur_d_reg
<1>1. EnterD
  BY DEF StageDecode, DecodeBubble, DecodeFlush, DecodeStall, DecodeIssue
<1>2. TypeOK /\ PredictionsAreExact /\ BranchesResident /\ RegistersGood
  BY DEF Base
<1>3. ~DecodeNothing => Fetched(d)
  BY <1>2 DEF DecodeNothing, RegistersGood, GoodD
<1>4. /\ new_x_reg' \in stage_reg_x
      /\ GoodX(new_x_reg')
      /\ new_x_reg'.instruction # NOP =>
           ~DecodeNothing /\ ~DecodeFlushes /\ new_x_reg'.new_pc = d.new_pc
  <2>1. d.instruction \in Instr /\ d.new_pc \in MaybePC
    BY <1>2 DEF TypeOK, stage_reg_d
  <2>2. new_x_reg \in stage_reg_x
    BY <1>2 DEF TypeOK
  <2>3. CASE DecodeBubble
    <3>1. new_x_reg' \in stage_reg_x
      BY <2>1, <2>2, <2>3, Constants DEF DecodeBubble, stage_reg_x
    <3>2. new_x_reg'.instruction = NOP /\ ~new_x_reg'.data_stalled
      BY <2>2, <2>3 DEF DecodeBubble, stage_reg_x
    <3>3. QED BY <3>1, <3>2 DEF GoodX
  <2>4. CASE DecodeFlush \/ DecodeStall
    <3>1. new_x_reg' \in stage_reg_x
      BY <2>1, <2>2, <2>4, Constants DEF DecodeFlush, DecodeStall, stage_reg_x
    <3>2. new_x_reg'.instruction = NOP /\ new_x_reg'.new_pc = d.new_pc
      BY <2>2, <2>4 DEF DecodeFlush, DecodeStall, stage_reg_x
    <3>3. Fetched(d)
      BY <1>3, <2>4 DEF DecodeFlush, DecodeStall
    <3>4. QED BY <3>1, <3>2, <3>3 DEF GoodX, Fetched
  <2>5. CASE DecodeIssue
    <3> DEFINE i == d.instruction
               v1 == IF has_rs1(i) THEN Forward(i.rs1) ELSE 0
               v2 == IF has_rs2(i) THEN Forward(i.rs2) ELSE 0
               target == IF is_branch(i) THEN (d.new_pc + i.imm) % PCTop ELSE Undef
    <3>1. new_x_reg' = [instruction |-> i, data_stalled |-> FALSE,
                        new_pc |-> d.new_pc, reg1 |-> v1, reg2 |-> v2,
                        extend_pc |-> target]
      BY <2>5 DEF DecodeIssue
    <3>2. /\ i.rs1 \in Registers
          /\ i.rs2 \in Registers
          /\ i.imm \in Int
      BY <2>1 DEF Instr
    <3>3. v1 \in Values /\ v2 \in Values
      BY <3>2, ForwardType, Constants
    <3>4. Fetched(d) /\ d.new_pc \in PC
      BY <1>3, <2>5 DEF DecodeIssue, Fetched
    <3>5. target \in MaybePC
      <4>1. (d.new_pc + i.imm) % PCTop \in PC
        BY <3>2, <3>4, AddressWraps DEF PC
      <4>2. QED BY <4>1 DEF MaybePC
    <3>6. is_branch(i) => target = (d.new_pc + i.imm) % PCTop
      OBVIOUS
    <3>7. ~DecodeNothing /\ ~DecodeFlushes
      BY <2>5 DEF DecodeIssue
    <3> HIDE DEF v1, v2, target
    <3>8. new_x_reg' \in stage_reg_x
      BY <2>1, <3>1, <3>3, <3>5 DEF stage_reg_x, MaybeValue
    <3>9. /\ new_x_reg'.instruction = i /\ new_x_reg'.new_pc = d.new_pc
          /\ new_x_reg'.reg1 = v1 /\ new_x_reg'.reg2 = v2
          /\ new_x_reg'.extend_pc = target
          /\ new_x_reg'.data_stalled = FALSE
      BY <3>1
    <3>10. GoodX(new_x_reg')
      BY <3>3, <3>4, <3>6, <3>9 DEF GoodX, Fetched
    <3>11. QED BY <3>7, <3>8, <3>9, <3>10
  <2>6. QED BY <2>3, <2>4, <2>5 DEF StageDecode
<1>5. TypeOK'
  BY <1>1, <1>2, <1>4 DEF TypeOK, EnterD, cur_regs
<1>6. PredictionsAreExact' /\ BranchesResident'
  BY <1>1, <1>2 DEF EnterD, PredictionsAreExact, BranchesResident, Resident
<1>7. RegistersGood'
  BY <1>1, <1>2, <1>4 DEF EnterD, RegistersGood, GoodD, GoodX, GoodM, GoodW, Fetched,
                          Resident, cur_regs
<1>8. Chain => Chain'
  <2>1. ASSUME Chain, ~new_m_reg'.control_stalled, new_x_reg'.instruction # NOP
        PROVE  FetchPC' = pc' /\ pc' = NextPC(new_x_reg.new_pc)'
    <3>1. ~DecodeNothing /\ ~DecodeFlushes /\ new_x_reg'.new_pc = d.new_pc
      BY <1>4, <2>1
    <3>2. pc = NextPC(d.new_pc)
      BY <1>1, <1>2, <2>1, <3>1 DEF Chain, ChainD, DecodeNothing, EnterD
    <3>3. FetchPC = pc
      BY <3>1 DEF FetchPC, DecodeNothing, DecodeFlushes
    <3>4. QED BY <1>1, <3>1, <3>2, <3>3 DEF EnterD, FetchPC, NextPC, cur_regs
  <2>2. phase' = "F"
    BY <1>1 DEF EnterD
  <2>3. QED BY <2>1, <2>2 DEF Chain
<1>9. QED BY <1>5, <1>6, <1>7, <1>8 DEF Base

\* What F is told to fetch is an address.
LEMMA FetchPCType == Base => FetchPC \in PC
BY DEF Base, TypeOK, RegistersGood, GoodW, GoodM, GoodX, FetchPC

LEMMA FetchStep ==
    ASSUME Base, StageFetch
    PROVE  Base' /\ (Chain => Chain')
<1> DEFINE a == FetchPC
<1>1. EnterF
  BY DEF StageFetch, FetchHit, FetchMiss
<1>2. TypeOK /\ PredictionsAreExact /\ BranchesResident /\ RegistersGood
  BY DEF Base
<1>3. a \in PC /\ Block(a) \in Blocks
  BY FetchPCType DEF Blocks
<1>4. /\ icache' \in [Blocks -> {"absent", "pending", "resident"}]
      /\ \A b \in PC : Resident(b) => Resident(b)'
  <2>1. icache \in [Blocks -> {"absent", "pending", "resident"}]
    BY <1>2 DEF TypeOK
  <2>2. \A b \in PC : Block(b) \in Blocks
    BY DEF Blocks
  <2>3. CASE FetchHit
    BY <1>3, <2>1, <2>2, <2>3 DEF FetchHit, Resident
  <2>4. CASE FetchMiss
    BY <1>3, <2>1, <2>2, <2>4 DEF FetchMiss, Resident
  <2>5. QED BY <2>3, <2>4 DEF StageFetch
<1>5. /\ pc' \in PC
      /\ new_d_reg' \in stage_reg_d
      /\ GoodD(new_d_reg)'
      /\ new_d_reg'.instruction # NOP => pc' = NextPC(new_d_reg'.new_pc)
      /\ new_d_reg'.stalled => pc' = pc
      /\ ~new_d_reg'.stalled => new_d_reg'.new_pc = a
  <2>1. CASE FetchHit
    <3>1. pc' = NextPC(a)
      BY <2>1 DEF FetchHit
    <3>2. pc' \in PC
      BY <1>2, <1>3, <3>1, NextPCType DEF TypeOK
    <3>3. new_d_reg' = [instruction |-> code[a], stalled |-> FALSE, new_pc |-> a]
      BY <2>1 DEF FetchHit
    <3>4. code[a] \in Instr
      BY <1>2, <1>3, CodeType
    <3>5. new_d_reg' \in stage_reg_d
      BY <1>3, <3>3, <3>4 DEF stage_reg_d, MaybePC
    <3>6. icache'[Block(a)] = "resident"
      BY <1>2, <1>3, <2>1 DEF FetchHit, TypeOK
    <3>7. GoodD(new_d_reg)'
      <4>1. /\ new_d_reg'.new_pc = a
            /\ new_d_reg'.instruction = code[a]
            /\ new_d_reg'.stalled = FALSE
        BY <3>3
      <4>2. icache'[Block(new_d_reg'.new_pc)] = "resident"
        BY <3>6, <4>1
      <4>3. code' = code
        BY <1>1 DEF EnterF
      <4>4. QED BY <1>3, <4>1, <4>2, <4>3 DEF GoodD, Fetched, Resident
    <3>8. QED BY <3>1, <3>2, <3>3, <3>5, <3>7
  <2>2. CASE FetchMiss
    <3>1. pc' = pc
      BY <2>2 DEF FetchMiss
    <3>2. /\ new_d_reg' \in stage_reg_d
          /\ new_d_reg'.instruction = NOP
          /\ new_d_reg'.stalled
      BY <1>2, <2>2, Constants DEF FetchMiss, TypeOK, stage_reg_d
    <3>3. QED BY <1>2, <3>1, <3>2 DEF TypeOK, GoodD
  <2>3. QED BY <2>1, <2>2 DEF StageFetch
<1>6. TypeOK'
  BY <1>1, <1>2, <1>4, <1>5 DEF TypeOK, EnterF, cur_regs
<1>7. PredictionsAreExact' /\ BranchesResident'
  <2>1. \A i \in BTB!Slots : btb.entries[i].pc \in PC
    BY <1>2 DEF TypeOK, BTB!Buffer, BTB!Entry
  <2>2. QED BY <1>1, <1>2, <1>4, <2>1 DEF EnterF, PredictionsAreExact, BranchesResident
<1>8. RegistersGood'
  BY <1>1, <1>2, <1>4, <1>5 DEF EnterF, RegistersGood, GoodD, GoodX, GoodM, GoodW, Fetched,
                                cur_regs
<1>9. Chain => Chain'
  <2>1. phase = "F" /\ phase' = "L"
    BY <1>1 DEF EnterF
  <2>2. /\ btb' = btb /\ new_x_reg' = new_x_reg /\ new_m_reg' = new_m_reg
    BY <1>1 DEF EnterF
  <2>3. Chain /\ new_x_reg.instruction # NOP /\ ~new_m_reg.control_stalled =>
           a = pc /\ pc = NextPC(new_x_reg.new_pc)
    BY <2>1 DEF Chain
  <2>4. QED BY <1>5, <2>1, <2>2, <2>3 DEF Chain, NextPC
<1>10. QED BY <1>6, <1>7, <1>8, <1>9 DEF Base

LEMMA LatchStep ==
    ASSUME Base, Latch
    PROVE  Base' /\ (Chain => Chain')
<1> USE DEF Base, Latch
<1>1. phase' \in {"W", "prompt"}
  OBVIOUS
<1>2. TypeOK'
  BY <1>1 DEF TypeOK, new_regs
<1>3. PredictionsAreExact' /\ BranchesResident'
  BY DEF PredictionsAreExact, BranchesResident, Resident
<1>4. RegistersGood'
  BY <1>1 DEF RegistersGood, GoodD, GoodX, GoodM, GoodW, Fetched, Resident, new_regs
<1>5. Chain => Chain'
  BY <1>1 DEF Chain, ChainX, ChainD, ExecuteFlushes, DecodeFlushes, Younger, NextPC, new_regs
<1>6. QED BY <1>2, <1>3, <1>4, <1>5

\* A step that changes nothing.
LEMMA StutterStep ==
    ASSUME Base, UNCHANGED vars
    PROVE  Base' /\ (Chain => Chain')
BY DEF Base, vars, cur_regs, new_regs, TypeOK, PredictionsAreExact, BranchesResident,
       RegistersGood, GoodD, GoodX, GoodM, GoodW, Fetched, Resident, Chain, ChainX, ChainD,
       ExecuteFlushes, DecodeFlushes, Younger, FetchPC, NextPC

LEMMA BaseStep ==
    ASSUME Base, [Next]_vars
    PROVE  Base' /\ (Chain => Chain')
BY RunCommandStep, WritebackStep, MemoryStep, ExecuteStep, DecodeStep, FetchStep,
   LatchStep, StutterStep DEF Next

LEMMA InductiveStep == IInv /\ [Next]_vars => IInv'
BY BaseStep DEF IInv

\* The invariant holds in every reachable state, for every set of programs,
\* every ALU, memory size, cache line size and number of BTB entries.
THEOREM Invariant == Spec => []IInv
<1>1. Init => IInv
  BY InitInvariant
<1>2. IInv /\ [Next]_vars => IInv'
  BY InductiveStep
<1>3. QED BY <1>1, <1>2, PTL DEF Spec

\* The registers, the BTB and the pipeline registers keep their types: no value
\* that was never assigned reaches the register file.
THEOREM TypeCorrect == Spec => []TypeOK
<1>1. IInv => TypeOK
  BY DEF IInv, Base
<1>2. QED BY <1>1, Invariant, PTL

\* Every prediction of the BTB is a branch's own, backward, target: what X takes
\* on trust when it says "predict right" (pipeline.c, stage_execute).
THEOREM PredictionsExact == Spec => []PredictionsAreExact
<1>1. IInv => PredictionsAreExact
  BY DEF IInv, Base
<1>2. QED BY <1>1, Invariant, PTL

\* A refetch after a data stall or a data cache miss finds its word in the
\* instruction cache, so that no replay is lost (pipeline.c, stage_fetch).
THEOREM ReplaysHit == Spec => []ReplayHits
<1>1. IInv => ReplayHits
  <2> SUFFICES ASSUME IInv, phase = "F",
                      cur_w_reg.stalled \/ (cur_x_reg.data_stalled
                                            /\ ~cur_m_reg.control_stalled)
               PROVE  icache[Block(FetchPC)] = "resident"
    BY DEF ReplayHits
  <2>1. /\ cur_w_reg.stalled => Resident(cur_w_reg.new_pc)
        /\ cur_x_reg.data_stalled => Resident(cur_x_reg.new_pc)
    BY DEF IInv, Base, RegistersGood, GoodW, GoodX
  <2>2. QED BY <2>1 DEF FetchPC, Resident
<1>2. QED BY <1>1, Invariant, PTL

\* What is behind the instruction that X lets go on.
LEMMA RightPath ==
    ASSUME IInv, StageExecute, new_m_reg'.instruction # NOP, ~new_m_reg'.control_stalled
    PROVE  Younger = Successor(cur_x_reg)
<1> DEFINE x == cur_x_reg
<1> USE DEF IInv, Base
<1>1. PredictRight \/ NormalExecution
  <2>1. ~ExecuteBubble
    BY DEF ExecuteBubble, TypeOK, stage_reg_m
  <2>2. ~DidNotPredict /\ ~PredictWrong
    BY DEF DidNotPredict, PredictWrong, Resolve
  <2>3. QED BY <2>1, <2>2 DEF StageExecute
<1>2. x.instruction # NOP /\ ~ExecuteFlushes
  BY <1>1 DEF PredictRight, NormalExecution, Resolve
<1>3. Younger = NextPC(x.new_pc)
  BY <1>1, <1>2 DEF Chain, ChainX, PredictRight, NormalExecution, Resolve, EnterX
<1>4. x.instruction = code[x.new_pc]
  BY <1>2, ResolvedWord
<1>5. CASE PredictRight
  <2>1. BranchTaken /\ BTB!found_BTB(btb, x.new_pc)
    BY <1>5 DEF PredictRight, Predicted
  <2>2. btb \in BTB!Buffer
    BY DEF TypeOK
  <2>3. PICK i \in BTB!Slots :
           /\ btb.entries[i].valid
           /\ btb.entries[i].pc = x.new_pc
           /\ BTB!predicted_pc(btb, x.new_pc) = btb.entries[i].predict_pc
    BY <2>1, <2>2, SearchLemma
  <2>4. btb.entries[i].predict_pc = (x.new_pc + code[x.new_pc].imm) % PCTop
    BY <2>3 DEF PredictionsAreExact
  <2>5. QED BY <1>3, <1>4, <2>1, <2>3, <2>4 DEF NextPC, Successor, BranchTaken
<1>6. CASE NormalExecution
  BY <1>3, <1>6 DEF NormalExecution, Predicted, BranchTaken, NextPC, Successor
<1>7. QED BY <1>1, <1>5, <1>6

\* An instruction that X lets go on is followed in the pipeline by the one that
\* comes next in program order, whatever the BTB predicted and however it has
\* changed since the prediction (pipeline.c, stage_execute and stage_fetch).
THEOREM PathRight == Spec => PathIsRight
<1> DEFINE GoesOn == phase = "X" /\ new_m_reg'.instruction # NOP
                                 /\ ~new_m_reg'.control_stalled
<1>1. IInv /\ Next /\ GoesOn => Younger = Successor(cur_x_reg)
  <2> SUFFICES ASSUME IInv, Next, GoesOn
               PROVE  Younger = Successor(cur_x_reg)
    OBVIOUS
  <2>1. StageExecute
    BY DEF Next, RunCommand, StageWriteback, StageMemory, MemoryBubble, MemoryMiss,
           MemoryPass, EnterM, StageDecode, DecodeBubble, DecodeFlush, DecodeStall,
           DecodeIssue, EnterD, StageFetch, FetchHit, FetchMiss, EnterF, Latch
  <2>2. QED BY <2>1, RightPath
<1>2. IInv /\ [Next]_vars => [GoesOn => Younger = Successor(cur_x_reg)]_vars
  BY <1>1
<1>3. QED BY <1>2, Invariant, PTL DEF Spec, PathIsRight

=============================================================================

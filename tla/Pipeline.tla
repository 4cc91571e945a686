------------------------------ MODULE Pipeline ------------------------------
(***************************************************************************)
(* The five-stage pipeline of pipeline.c and stages.c, driven by the loop  *)
(* simulator_execute_instructions of riscv_sim_pipeline_framework.c.       *)
(*                                                                         *)
(* Within a cycle the loop calls W, M, X, D and F in that order and then   *)
(* copies the new_?_reg locals to the current pipeline registers (L); each *)
(* call is an action, and `phase` says which comes next.  At "prompt" no   *)
(* run is in progress.  W changes the register file before D reads it, and *)
(* X changes the BTB before F reads it, in the same cycle.                 *)
(*                                                                         *)
(* Addresses are instruction words modulo PCTop.  Data memory is abstract: *)
(* a LOAD that hits returns any value and may miss any number of times.    *)
(* The instruction cache keeps one state per memory block: code is below   *)
(* the 8 KiB at which lines start to be shared (see MemorySystem).         *)
(* Fields that no stage reads (d.pc, m.reg2, w.memory) are left out: the   *)
(* last two only reach the data cache.                                     *)
(***************************************************************************)
EXTENDS Instructions

CONSTANTS PCTop,            \* addresses are 0 .. PCTop - 1
          BlockSize,        \* words in an instruction cache line
          ENTRY_NUM,        \* entries of the BTB
          Programs,         \* the memory images considered
          Undef,            \* a local that was never assigned
          ZeroReadLatency,  \* started without -r: a read completes at once
          StepsLimited      \* a run may end because its steps are used up

PC == 0 .. PCTop - 1

BTB == INSTANCE BranchTargetBuffer

Block(a) == a \div BlockSize

Blocks == {Block(a) : a \in PC}

ASSUME PipelineAssumption ==
    /\ PCTop \in Nat \ {0}
    /\ BlockSize \in Nat \ {0}
    /\ ENTRY_NUM \in Nat \ {0}
    /\ Programs \subseteq [PC -> Instr]
    /\ Undef \notin Values /\ Undef \notin PC
    /\ ZeroReadLatency \in BOOLEAN
    /\ StepsLimited \in BOOLEAN

\* What the stages need of the ALU: the result of a word of a program on
\* register values is a register value.
ASSUME ExecAssumption ==
    \A image \in Programs, a \in PC, x, y \in Values :
        /\ Exec(image[a], x, y, a) \in Values
        /\ Taken(image[a], x, y) \in BOOLEAN

VARIABLES
    code,       \* the words F is handed: cached where their block is
                \* resident, the memory's elsewhere
    memory,     \* what load wrote to the memory
    pc,         \* program_counter
    regs,       \* register_file
    btb,        \* BTB
    icache,     \* per block: "absent", "pending" or "resident"
    cur_d_reg, cur_x_reg, cur_m_reg, cur_w_reg,  \* the pipeline registers
    new_d_reg, new_x_reg, new_m_reg, new_w_reg,  \* locals of the run loop
    phase       \* the call the run loop makes next

cur_regs == <<cur_d_reg, cur_x_reg, cur_m_reg, cur_w_reg>>
new_regs == <<new_d_reg, new_x_reg, new_m_reg, new_w_reg>>
vars == <<code, memory, pc, regs, btb, icache, cur_regs, new_regs, phase>>

MaybePC    == PC \cup {Undef}
MaybeValue == Values \cup {Undef}

\* The words that programs have at each address, and what any number of loads,
\* each up to the end of its file or to a bad line, can leave in the memory.
WordsAt == [a \in PC |-> {p[a] : p \in Programs}]

Images == {image \in [PC -> Instr] : \A a \in PC : image[a] \in WordsAt[a]}

stage_reg_d == [instruction : Instr, stalled : BOOLEAN, new_pc : MaybePC]

stage_reg_x == [instruction : Instr, data_stalled : BOOLEAN, new_pc : MaybePC,
                reg1 : MaybeValue, reg2 : MaybeValue, extend_pc : MaybePC]

stage_reg_m == [instruction : Instr, control_stalled : BOOLEAN,
                res : MaybeValue, new_pc : MaybePC]

stage_reg_w == [instruction : Instr, stalled : BOOLEAN,
                val : MaybeValue, new_pc : MaybePC]

TypeOK ==
    /\ code \in Images
    /\ pc \in PC
    /\ regs \in [Registers -> Values]
    /\ btb \in BTB!Buffer
    /\ icache \in [Blocks -> {"absent", "pending", "resident"}]
    /\ cur_d_reg \in stage_reg_d /\ new_d_reg \in stage_reg_d
    /\ cur_x_reg \in stage_reg_x /\ new_x_reg \in stage_reg_x
    /\ cur_m_reg \in stage_reg_m /\ new_m_reg \in stage_reg_m
    /\ cur_w_reg \in stage_reg_w /\ new_w_reg \in stage_reg_w
    /\ phase \in {"prompt", "W", "M", "X", "D", "F", "L"}

-----------------------------------------------------------------------------
(* The locals of a run before their first assignment.  Only data_stalled   *)
(* can be read unassigned (see DecodeFlush): it is given both outcomes.    *)

GarbageD == [instruction |-> NOP, stalled |-> FALSE, new_pc |-> Undef]

GarbageX(stalled) ==
    [instruction |-> NOP, data_stalled |-> stalled, new_pc |-> Undef,
     reg1 |-> Undef, reg2 |-> Undef, extend_pc |-> Undef]

GarbageM == [instruction |-> NOP, control_stalled |-> FALSE,
             res |-> Undef, new_pc |-> Undef]

GarbageW == [instruction |-> NOP, stalled |-> FALSE,
             val |-> Undef, new_pc |-> Undef]

\* The pipeline registers after initialize_state: all 0.
EmptyD == [GarbageD EXCEPT !.new_pc = 0]
EmptyX == [instruction |-> NOP, data_stalled |-> FALSE, new_pc |-> 0,
           reg1 |-> 0, reg2 |-> 0, extend_pc |-> 0]
EmptyM == [instruction |-> NOP, control_stalled |-> FALSE, res |-> 0, new_pc |-> 0]
EmptyW == [instruction |-> NOP, stalled |-> FALSE, val |-> 0, new_pc |-> 0]

\* Static storage after main() called initialize_state.  writereg can set the
\* register file before any run.
Init ==
    /\ code \in Programs /\ memory = code
    /\ pc = 0
    /\ regs \in [Registers -> Values]
    /\ btb = BTB!EmptyBuffer
    /\ icache = [b \in Blocks |-> "absent"]
    /\ cur_d_reg = EmptyD /\ cur_x_reg = EmptyX
    /\ cur_m_reg = EmptyM /\ cur_w_reg = EmptyW
    /\ new_d_reg = GarbageD /\ new_x_reg = GarbageX(FALSE)
    /\ new_m_reg = GarbageM /\ new_w_reg = GarbageW
    /\ phase = "prompt"

\* The test the loop makes before each cycle, on the address to fetch next.
AtEbreak == memory[pc].op = "EBREAK"

\* The command `run`, with the locals of a fresh call of
\* simulator_execute_instructions.
RunCommand ==
    /\ phase = "prompt"
    /\ ~AtEbreak
    /\ new_d_reg' = GarbageD
    /\ \E stalled \in BOOLEAN : new_x_reg' = GarbageX(stalled)
    /\ new_m_reg' = GarbageM
    /\ new_w_reg' = GarbageW
    /\ phase' = "W"
    /\ UNCHANGED <<code, memory, pc, regs, btb, icache, cur_regs>>

-----------------------------------------------------------------------------
(* W: stage_writeback and write_back_stage.                                *)

StageWriteback ==
    /\ phase = "W"
    /\ phase' = "M"
    /\ regs' = IF ~cur_w_reg.stalled /\ has_rd(cur_w_reg.instruction)
               THEN [regs EXCEPT ![cur_w_reg.instruction.rd] = cur_w_reg.val]
               ELSE regs
    /\ UNCHANGED <<code, memory, pc, btb, icache, cur_regs, new_regs>>

-----------------------------------------------------------------------------
(* M: stage_memory.  Each action below fills new_w_reg on one path.        *)

EnterM == /\ phase = "M"
          /\ phase' = "X"
          /\ UNCHANGED <<code, memory, pc, regs, btb, icache, cur_regs,
                         new_d_reg, new_x_reg, new_m_reg>>

MemoryFlushes == cur_m_reg.control_stalled \/ cur_w_reg.stalled

MemoryBubble ==
    /\ EnterM
    /\ cur_m_reg.instruction = NOP \/ MemoryFlushes
    /\ new_w_reg' = [new_w_reg EXCEPT !.instruction = NOP, !.stalled = FALSE,
                                      !.new_pc = cur_m_reg.new_pc]

MemoryMiss ==
    /\ EnterM
    /\ ~MemoryFlushes
    /\ cur_m_reg.instruction.op = "LOAD"
    /\ new_w_reg' = [new_w_reg EXCEPT !.instruction = NOP, !.stalled = TRUE,
                                      !.new_pc = cur_m_reg.new_pc]

\* memory_stage passes res on, or what the data cache holds for a LOAD.
MemoryPass ==
    /\ EnterM
    /\ ~MemoryFlushes
    /\ cur_m_reg.instruction # NOP
    /\ \E v \in IF cur_m_reg.instruction.op = "LOAD" THEN Values
                                                    ELSE {cur_m_reg.res} :
         new_w_reg' = [instruction |-> cur_m_reg.instruction, stalled |-> FALSE,
                       val |-> v, new_pc |-> cur_m_reg.new_pc]

StageMemory == MemoryBubble \/ MemoryMiss \/ MemoryPass

-----------------------------------------------------------------------------
(* X: stage_execute.                                                       *)

EnterX == /\ phase = "X"
          /\ phase' = "D"
          /\ UNCHANGED <<code, memory, pc, regs, icache, cur_regs,
                         new_d_reg, new_x_reg, new_w_reg>>

ExecuteFlushes ==
    \/ cur_x_reg.data_stalled
    \/ cur_m_reg.control_stalled
    \/ cur_w_reg.stalled

\* Mutant: control_stalled is not cleared.
ExecuteBubble_KeepsStall ==
    /\ EnterX
    /\ cur_x_reg.instruction = NOP \/ ExecuteFlushes
    /\ new_m_reg' = [new_m_reg EXCEPT !.instruction = NOP]
    /\ UNCHANGED btb

ExecuteBubble ==
    /\ EnterX
    /\ cur_x_reg.instruction = NOP \/ ExecuteFlushes
    /\ new_m_reg' = [new_m_reg EXCEPT !.instruction = NOP,
                                      !.control_stalled = FALSE]
    /\ UNCHANGED btb

\* execute_stage leaves res unassigned for a conditional branch and for a word
\* whose opcode is in no group.
execute_stage(x) ==
    IF computes(x.instruction) THEN Exec(x.instruction, x.reg1, x.reg2, x.new_pc)
    ELSE Undef

BranchTaken == branch_stage(cur_x_reg.instruction, cur_x_reg.reg1, cur_x_reg.reg2)

Predicted == BTB!found_BTB(btb, cur_x_reg.new_pc)

\* X resolves the instruction: goes on (stalled = FALSE) or redirects to target.
Resolve(redirects, target) ==
    /\ EnterX
    /\ cur_x_reg.instruction # NOP
    /\ ~ExecuteFlushes
    /\ new_m_reg' = [instruction |-> cur_x_reg.instruction,
                     control_stalled |-> redirects,
                     res |-> execute_stage(cur_x_reg), new_pc |-> target]

PredictRight ==
    /\ BranchTaken /\ Predicted
    /\ Resolve(FALSE, cur_x_reg.new_pc)
    /\ UNCHANGED btb

\* Mutant: the arguments of update_BTB are swapped.
DidNotPredict_Swapped ==
    /\ BranchTaken /\ ~Predicted
    /\ Resolve(TRUE, cur_x_reg.extend_pc)
    /\ btb' = IF cur_x_reg.extend_pc < cur_x_reg.new_pc
              THEN BTB!update_BTB(btb, cur_x_reg.extend_pc, cur_x_reg.new_pc)
              ELSE btb

\* Only a backward target enters the BTB.
DidNotPredict ==
    /\ BranchTaken /\ ~Predicted
    /\ Resolve(TRUE, cur_x_reg.extend_pc)
    /\ btb' = IF cur_x_reg.extend_pc < cur_x_reg.new_pc
              THEN BTB!update_BTB(btb, cur_x_reg.new_pc, cur_x_reg.extend_pc)
              ELSE btb

\* Mutant: control_stalled is not raised for a wrong prediction.
PredictWrong_NoRedirect ==
    /\ ~BranchTaken /\ Predicted
    /\ Resolve(FALSE, (cur_x_reg.new_pc + 1) % PCTop)
    /\ btb' = BTB!delete_BTB(btb, cur_x_reg.new_pc)

PredictWrong ==
    /\ ~BranchTaken /\ Predicted
    /\ Resolve(TRUE, (cur_x_reg.new_pc + 1) % PCTop)
    /\ btb' = BTB!delete_BTB(btb, cur_x_reg.new_pc)

NormalExecution ==
    /\ ~BranchTaken /\ ~Predicted
    /\ Resolve(FALSE, cur_x_reg.new_pc)
    /\ UNCHANGED btb

StageExecute ==
    ExecuteBubble \/ PredictRight \/ DidNotPredict \/ PredictWrong \/ NormalExecution

-----------------------------------------------------------------------------
(* D: stage_decode.                                                        *)

EnterD == /\ phase = "D"
          /\ phase' = "F"
          /\ UNCHANGED <<code, memory, pc, regs, btb, icache, cur_regs,
                         new_d_reg, new_m_reg, new_w_reg>>

DecodeNothing ==
    cur_d_reg.instruction = NOP \/ cur_d_reg.stalled \/ cur_x_reg.data_stalled

\* Mutant: the test of the data cache miss is missing.
DecodeFlushes_NoMiss == cur_m_reg.control_stalled

DecodeFlushes == cur_m_reg.control_stalled \/ cur_w_reg.stalled

DecodeBubble ==
    /\ EnterD
    /\ DecodeNothing
    /\ new_x_reg' = [new_x_reg EXCEPT !.instruction = NOP, !.data_stalled = FALSE,
                                      !.new_pc = cur_d_reg.new_pc]

\* These two paths assign instruction twice and data_stalled not at all: the
\* local keeps what it holds.
DecodeFlush ==
    /\ EnterD
    /\ ~DecodeNothing /\ DecodeFlushes
    /\ new_x_reg' = [new_x_reg EXCEPT !.instruction = NOP,
                                      !.new_pc = cur_d_reg.new_pc]

\* Mutant: a LOAD two before is not waited for.
DataHazard_NoLoad ==
    \E r \in Registers : reads(cur_d_reg.instruction, r) /\ writes(cur_x_reg.instruction, r)

\* The instruction in D must wait for the one before it, or for a LOAD two
\* before it.
DataHazard ==
    \E r \in Registers :
        /\ reads(cur_d_reg.instruction, r)
        /\ \/ writes(cur_x_reg.instruction, r)
           \/ /\ cur_m_reg.instruction.op = "LOAD"
              /\ writes(cur_m_reg.instruction, r)

DecodeStall ==
    /\ EnterD
    /\ ~DecodeNothing /\ ~DecodeFlushes /\ DataHazard
    /\ new_x_reg' = [new_x_reg EXCEPT !.instruction = NOP, !.data_stalled = TRUE,
                                      !.new_pc = cur_d_reg.new_pc]

\* Mutant: nothing is forwarded from the second previous instruction.
Forward_NoM(r) ==
    IF writes(cur_w_reg.instruction, r) THEN cur_w_reg.val
    ELSE register_read_one(regs, r)

\* An operand: the third previous instruction's value is looked at last and
\* overrides the second's, which overrides the register file's.
Forward(r) ==
    IF writes(cur_w_reg.instruction, r) THEN cur_w_reg.val
    ELSE IF writes(cur_m_reg.instruction, r) THEN cur_m_reg.res
    ELSE register_read_one(regs, r)

DecodeIssue ==
    /\ EnterD
    /\ ~DecodeNothing /\ ~DecodeFlushes /\ ~DataHazard
    /\ LET i == cur_d_reg.instruction
       IN  new_x_reg' =
             [instruction |-> i, data_stalled |-> FALSE,
              new_pc |-> cur_d_reg.new_pc,
              reg1 |-> IF has_rs1(i) THEN Forward(i.rs1) ELSE 0,
              reg2 |-> IF has_rs2(i) THEN Forward(i.rs2) ELSE 0,
              extend_pc |-> IF is_branch(i) THEN (cur_d_reg.new_pc + i.imm) % PCTop
                                            ELSE Undef]

StageDecode == DecodeBubble \/ DecodeFlush \/ DecodeStall \/ DecodeIssue

-----------------------------------------------------------------------------
(* F: stage_fetch and instruction_fetch_stage.                             *)

\* The last test that holds decides.
FetchPC ==
    IF cur_w_reg.stalled THEN cur_w_reg.new_pc
    ELSE IF cur_m_reg.control_stalled THEN cur_m_reg.new_pc
    ELSE IF cur_x_reg.data_stalled THEN cur_x_reg.new_pc
    ELSE pc

EnterF == /\ phase = "F"
          /\ phase' = "L"
          /\ UNCHANGED <<code, memory, regs, btb, cur_regs, new_x_reg, new_m_reg, new_w_reg>>

NextPC(a) == IF BTB!found_BTB(btb, a) THEN BTB!predicted_pc(btb, a)
                                      ELSE (a + 1) % PCTop

\* Mutant: the block is used, but its line is not made valid.
FetchHit_NotCopied ==
    /\ EnterF
    /\ icache[Block(FetchPC)] \in {"pending", "resident"}
    /\ UNCHANGED icache
    /\ pc' = NextPC(FetchPC)
    /\ new_d_reg' = [instruction |-> code[FetchPC], stalled |-> FALSE,
                     new_pc |-> FetchPC]

\* update_i_cache first polls the read of this block: a pending one may have
\* completed now.
FetchHit ==
    /\ EnterF
    /\ icache[Block(FetchPC)] \in {"pending", "resident"}
    /\ icache' = [icache EXCEPT ![Block(FetchPC)] = "resident"]
    /\ pc' = NextPC(FetchPC)
    /\ new_d_reg' = [instruction |-> code[FetchPC], stalled |-> FALSE,
                     new_pc |-> FetchPC]

\* A read is requested: its block is copied now, or is pending, or (table
\* full) nothing was recorded.  program_counter keeps its value.
FetchMiss ==
    /\ EnterF
    /\ icache[Block(FetchPC)] # "resident"
    /\ \E filled \in IF ZeroReadLatency THEN {"resident"}
                     ELSE {icache[Block(FetchPC)], "pending"} :
         icache' = [icache EXCEPT ![Block(FetchPC)] = filled]
    /\ new_d_reg' = [new_d_reg EXCEPT !.instruction = NOP, !.stalled = TRUE]
    /\ UNCHANGED pc

StageFetch == FetchHit \/ FetchMiss

-----------------------------------------------------------------------------
(* L: the end of the loop body and the loop's tests.                       *)

Latch ==
    /\ phase = "L"
    /\ cur_d_reg' = new_d_reg
    /\ cur_x_reg' = new_x_reg
    /\ cur_m_reg' = new_m_reg
    /\ cur_w_reg' = new_w_reg
    /\ phase' \in (IF AtEbreak THEN {} ELSE {"W"})
                  \cup (IF AtEbreak \/ StepsLimited THEN {"prompt"} ELSE {})
    /\ UNCHANGED <<code, memory, pc, regs, btb, icache, new_regs>>

Next == \/ RunCommand
        \/ StageWriteback
        \/ StageMemory
        \/ StageExecute
        \/ StageDecode
        \/ StageFetch
        \/ Latch

Spec == Init /\ [][Next]_vars

\* The loop goes on calling the stages while the run has steps, and a LOAD that
\* keeps being replayed hits at some point.  Without read latency this is so for
\* data below 16 KiB: the first miss has copied the block (stages.c,
\* memory_stage), and no other access reaches M before the replay.
FairSpec == Spec /\ WF_vars(Next) /\ SF_vars(MemoryPass)

-----------------------------------------------------------------------------
(* Properties.                                                             *)

\* Every valid entry of the BTB names a branch and holds its own, backward,
\* target.  X relies on it: when a taken branch was predicted it says
\* "predict right" without comparing the prediction with the target.
PredictionsAreExact ==
    \A i \in BTB!Slots :
        LET e == btb.entries[i]
        IN  e.valid => /\ is_branch(code[e.pc])
                       /\ e.predict_pc = (e.pc + code[e.pc].imm) % PCTop
                       /\ e.predict_pc < e.pc

\* A refetch after a data stall or a data cache miss always hits: the words it
\* wants were fetched before.  Were it to miss, the request, which lives for
\* one cycle only, would be lost and the instruction skipped.
ReplayHits ==
    phase = "F" /\ (cur_w_reg.stalled \/ (cur_x_reg.data_stalled
                                          /\ ~cur_m_reg.control_stalled))
        => icache[Block(FetchPC)] = "resident"

\* Where the instruction behind the one in X was, or will be, fetched.
Younger == IF cur_d_reg.stalled THEN pc ELSE cur_d_reg.new_pc

Successor(x) ==
    IF branch_stage(x.instruction, x.reg1, x.reg2)
    THEN (x.new_pc + x.instruction.imm) % PCTop
    ELSE (x.new_pc + 1) % PCTop

\* When X lets an instruction go on without a redirect, the instruction behind
\* it is the one that must be executed next: the BTB X looks at says what the
\* BTB said to F two cycles or more before, though it may have changed since.
PathIsRight ==
    [][phase = "X" /\ new_m_reg'.instruction # NOP /\ ~new_m_reg'.control_stalled
          => Younger = Successor(cur_x_reg)]_vars

\* Instructions keep committing for as long as the loop runs.
Commits ==
    \/ phase = "X" /\ new_w_reg.instruction # NOP
    \/ /\ phase = "D" /\ ~new_w_reg.stalled
       /\ new_m_reg.control_stalled /\ new_m_reg.instruction # NOP

Progress == []<>(Commits \/ phase = "prompt")

\* A redirect is honoured: "if stalled, re-fetch the instruction"
\* (pipeline.c).  The fetch of that cycle delivers the target, or the next
\* fetch is for the target.
RedirectHonoured ==
    [][phase = "F" /\ cur_m_reg.control_stalled /\ ~cur_w_reg.stalled
          => \/ ~new_d_reg'.stalled /\ new_d_reg'.new_pc = cur_m_reg.new_pc
             \/ pc' = cur_m_reg.new_pc]_vars

\* "predict wrong, delete the information" (pipeline.c): after X found a
\* prediction wrong, the BTB predicts nothing for that address.
MispredictionDeleted ==
    [][PredictWrong => ~BTB!found_BTB(btb, cur_x_reg.new_pc)']_vars

=============================================================================

------------------------- MODULE PipelineInvariant --------------------------
(***************************************************************************)
(* The inductive invariant behind the safety properties of Pipeline.tla:   *)
(* what a pipeline register holds of the instruction in it, and how the    *)
(* addresses of neighbouring instructions are linked by the BTB.           *)
(***************************************************************************)
EXTENDS Pipeline

\* The instruction in r is the word at its address, which F has fetched.
Resident(a) == icache[Block(a)] = "resident"

Fetched(r) ==
    /\ r.new_pc \in PC
    /\ Resident(r.new_pc)
    /\ r.instruction = code[r.new_pc]

GoodD(d) ==
    /\ d.instruction # NOP => Fetched(d)
    /\ d.stalled => d.instruction = NOP

GoodX(x) ==
    /\ x.instruction # NOP =>
         /\ Fetched(x)
         /\ x.reg1 \in Values /\ x.reg2 \in Values
         /\ is_branch(x.instruction) =>
              x.extend_pc = (x.new_pc + x.instruction.imm) % PCTop
    /\ x.data_stalled => x.instruction = NOP /\ x.new_pc \in PC /\ Resident(x.new_pc)

GoodM(m) ==
    /\ has_rd(m.instruction) => m.res \in Values
    /\ m.instruction # NOP /\ ~m.control_stalled => Fetched(m)
    /\ m.control_stalled => m.instruction # NOP /\ m.new_pc \in PC

GoodW(w) ==
    /\ has_rd(w.instruction) => w.val \in Values
    /\ w.stalled => w.instruction = NOP /\ w.new_pc \in PC /\ Resident(w.new_pc)

\* A local of the run loop is good from the call that fills it on.
RegistersGood ==
    /\ GoodD(cur_d_reg) /\ GoodX(cur_x_reg) /\ GoodM(cur_m_reg) /\ GoodW(cur_w_reg)
    /\ phase \in {"X", "D", "F", "L"} => GoodW(new_w_reg)
    /\ phase \in {"D", "F", "L"} => GoodM(new_m_reg)
    /\ phase \in {"F", "L"} => GoodX(new_x_reg)
    /\ phase = "L" => GoodD(new_d_reg)

\* What follows an instruction is what the BTB says now, unless a redirect is
\* about to squash it.
ChainX ==
    cur_x_reg.instruction # NOP /\ ~ExecuteFlushes
        => Younger = NextPC(cur_x_reg.new_pc)

ChainD ==
    cur_d_reg.instruction # NOP /\ ~cur_x_reg.data_stalled /\ ~DecodeFlushes
        => pc = NextPC(cur_d_reg.new_pc)

Chain ==
    /\ phase \in {"prompt", "W", "M", "X"} => ChainX /\ ChainD
    /\ phase = "D" /\ ~new_m_reg.control_stalled => ChainD
    /\ phase = "F" /\ ~new_m_reg.control_stalled =>
         (new_x_reg.instruction # NOP => FetchPC = pc /\ pc = NextPC(new_x_reg.new_pc))
    /\ phase = "L" =>
         /\ new_d_reg.instruction # NOP => pc = NextPC(new_d_reg.new_pc)
         /\ new_x_reg.instruction # NOP /\ ~new_m_reg.control_stalled =>
              (IF new_d_reg.stalled THEN pc ELSE new_d_reg.new_pc)
                = NextPC(new_x_reg.new_pc)

\* The word a prediction is for stays what it is: its block is resident.
BranchesResident ==
    \A i \in BTB!Slots : btb.entries[i].valid => Resident(btb.entries[i].pc)

\* What holds whatever the pc is changed to between two runs, and what does not.
Base == TypeOK /\ PredictionsAreExact /\ BranchesResident /\ RegistersGood

IInv == Base /\ Chain

=============================================================================

------------------------- MODULE SequentialMachine --------------------------
(***************************************************************************)
(* What the pipeline has to implement: the machine of the same sources     *)
(* built with SIM_NO_PIPELINE, one instruction per step through            *)
(* execute_single_instruction, when the caches answer every access.  A     *)
(* LOAD returns any value.  At EBREAK it executes nothing more.  The       *)
(* registers are what register_read_one shows of them: register 0 is 0.    *)
(*                                                                         *)
(* An implementation may stop following it for good: its pc is then        *)
(* Diverged.  PipelineHistory says exactly when the pipeline does.         *)
(***************************************************************************)
EXTENDS Instructions

CONSTANTS PCTop, Programs, Diverged

VARIABLES code, pc, regs

vars == <<code, pc, regs>>

PC == 0 .. PCTop - 1

Init ==
    /\ code \in Programs
    /\ pc = 0
    /\ regs \in {file \in [Registers -> Values] : file[0] = 0}

\* The values write_back_stage can be handed for instruction i.
Results(i, reg1, reg2) ==
    IF i.op = "LOAD" THEN Values ELSE {Exec(i, reg1, reg2, pc)}

execute_single_instruction ==
    LET i    == code[pc]
        reg1 == IF has_rs1(i) THEN register_read_one(regs, i.rs1) ELSE 0
        reg2 == IF has_rs2(i) THEN register_read_one(regs, i.rs2) ELSE 0
    IN  /\ pc' = (pc + IF branch_stage(i, reg1, reg2) THEN i.imm ELSE 1) % PCTop
        /\ IF has_rd(i)
           THEN \E v \in Results(i, reg1, reg2) :
                  regs' = [regs EXCEPT ![i.rd] = IF i.rd = 0 THEN 0 ELSE v]
           ELSE UNCHANGED regs
        /\ UNCHANGED code

Step == /\ pc # Diverged
        /\ code[pc].op # "EBREAK"
        /\ execute_single_instruction

Diverge == /\ pc' = Diverged
           /\ UNCHANGED code

Next == Step \/ Diverge

Spec == Init /\ [][Next]_vars

=============================================================================

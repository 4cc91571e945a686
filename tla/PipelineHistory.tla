-------------------------- MODULE PipelineHistory ---------------------------
(***************************************************************************)
(* The pipeline with a history variable, `derailed`: has a step been taken *)
(* after which it no longer computes what the sequential machine computes? *)
(* The disjuncts of Derails are all the ways that can happen; that there   *)
(* is no other is RefinesSequential, the refinement below.                 *)
(***************************************************************************)
EXTENDS Pipeline

CONSTANT Diverged  \* the pc of a sequential machine that is not followed

ASSUME HistoryAssumption == Diverged \notin PC

VARIABLE derailed

hvars == <<vars, derailed>>

\* F drops a redirect: the target's block is not cached, program_counter
\* keeps the address after the squashed instructions, and the redirect is
\* gone from the M register at the end of the cycle.
LosesRedirect ==
    /\ phase = "F"
    /\ cur_m_reg.control_stalled /\ ~cur_w_reg.stalled
    /\ new_d_reg'.stalled
    /\ pc # cur_m_reg.new_pc

\* X redirects for a JAL or JALR that the next M will turn into a bubble:
\* the link register is never written.
LosesLink ==
    /\ phase = "X"
    /\ new_m_reg'.control_stalled /\ ~new_w_reg.stalled
    /\ has_rd(new_m_reg'.instruction) /\ new_m_reg'.instruction.rd # 0

\* D hands X the older of two values on their way to register r.
TakesOlderValue(r) ==
    /\ writes(cur_m_reg.instruction, r) /\ writes(cur_w_reg.instruction, r)
    /\ cur_m_reg.res # cur_w_reg.val

\* D hands X what was written to register 0, which must read as 0.
ForwardsZero(r) ==
    /\ r = 0
    /\ \/ writes(cur_m_reg.instruction, 0) /\ cur_m_reg.res # 0
       \/ writes(cur_w_reg.instruction, 0) /\ cur_w_reg.val # 0

TakesWrongOperand ==
    /\ phase = "D"
    /\ new_x_reg'.instruction # NOP
    /\ \E r \in Registers : /\ reads(cur_d_reg.instruction, r)
                            /\ TakesOlderValue(r) \/ ForwardsZero(r)

\* D raises data_stalled for an instruction it flushes.
StallsFlushed ==
    /\ phase = "D"
    /\ DecodeFlushes /\ ~DecodeNothing
    /\ new_x_reg'.data_stalled

\* F fetches EBREAK, which only a redirect can reach, or a word 0, which the
\* pipeline cannot tell from a bubble.
FetchesNoInstruction ==
    /\ phase = "F"
    /\ ~new_d_reg'.stalled
    /\ new_d_reg'.instruction.op \in {"EBREAK", "NOP"}

Derails == LosesRedirect \/ LosesLink \/ TakesWrongOperand
           \/ StallsFlushed \/ FetchesNoInstruction

HInit == Init /\ derailed = FALSE

HNext == Next /\ derailed' = (derailed \/ Derails)

HSpec == HInit /\ [][HNext]_hvars

-----------------------------------------------------------------------------
(* The refinement mapping.  In each phase, the instructions in flight from *)
(* the oldest to the youngest, a pipeline register that redirects counting *)
(* as the address it redirects to.  The sequential machine's pc is the     *)
(* address of the oldest one not yet committed; an instruction commits     *)
(* when it leaves M, one that redirects when it leaves X.                  *)

Live(r) == r.instruction # NOP

CurW == [live |-> cur_w_reg.stalled, at |-> cur_w_reg.new_pc]
NewW == [live |-> new_w_reg.stalled, at |-> new_w_reg.new_pc]
CurM == [live |-> Live(cur_m_reg), at |-> cur_m_reg.new_pc]
CurMRedirect == [live |-> cur_m_reg.control_stalled, at |-> cur_m_reg.new_pc]
NewM == [live |-> Live(new_m_reg), at |-> new_m_reg.new_pc]
CurX == [live |-> Live(cur_x_reg) \/ cur_x_reg.data_stalled, at |-> cur_x_reg.new_pc]
CurXRedirect == [live |-> cur_x_reg.data_stalled, at |-> cur_x_reg.new_pc]
NewX == [live |-> Live(new_x_reg) \/ new_x_reg.data_stalled, at |-> new_x_reg.new_pc]
CurD == [live |-> Live(cur_d_reg), at |-> cur_d_reg.new_pc]
NewD == [live |-> Live(new_d_reg), at |-> new_d_reg.new_pc]
ToFetch == [live |-> TRUE, at |-> pc]

InFlight ==
    CASE phase = "X" -> <<NewW, CurW, CurMRedirect, CurX, CurD, ToFetch>>
      [] phase = "D" -> <<NewW, CurW, CurMRedirect, NewM, CurXRedirect, CurD, ToFetch>>
      [] phase = "F" -> <<NewW, CurW, CurMRedirect, NewM, NewX, CurXRedirect, ToFetch>>
      [] phase = "L" -> <<NewW, NewM, NewX, NewD, ToFetch>>
      [] OTHER       -> <<CurW, CurM, CurX, CurD, ToFetch>>

Oldest(q) ==
    LET live == {k \in DOMAIN q : q[k].live}
    IN  q[CHOOSE k \in live : \A j \in live : k <= j].at

OldestPC == Oldest(InFlight)

AbsPC == IF derailed THEN Diverged ELSE OldestPC

\* Committed results that W has not written yet.
Committed ==
    CASE phase \in {"prompt", "W"} -> cur_w_reg
      [] phase = "M"               -> GarbageW
      [] OTHER                     -> new_w_reg

AbsRegs ==
    LET file == IF ~Committed.stalled /\ has_rd(Committed.instruction)
                THEN [regs EXCEPT ![Committed.instruction.rd] = Committed.val]
                ELSE regs
    IN  [file EXCEPT ![0] = 0]

Sequential == INSTANCE SequentialMachine WITH pc <- AbsPC, regs <- AbsRegs

\* Until it derails, the pipeline does what the sequential machine does:
\* same instructions in program order, same register values; every stall,
\* squash, replay and forwarding is invisible.
RefinesSequential == Sequential!Spec

\* "we'll use the EBREAK instruction" to end the simulation: a run that ends at
\* an EBREAK ends when the program gets there, every instruction before it
\* executed (framework; instructions/jump/jump.s jumps over its EBREAK).
StopsOnlyAtEbreak ==
    phase = "prompt" /\ AtEbreak /\ ~derailed => OldestPC = pc

=============================================================================

------------------------------ MODULE Session ------------------------------
(***************************************************************************)
(* The commands of execute_line that change the machine between two runs,  *)
(* on the pipeline with its history variable.  The commands that only      *)
(* print change nothing, nor do those an error ends; the error of a setpc  *)
(* beyond memory ends nothing.  Data written by load is not modelled here: *)
(* a LOAD returns any value.                                               *)
(***************************************************************************)
EXTENDS RefinementInvariant

CONSTANTS LineLength,   \* words on a line of a hex file
          Outside,      \* an address beyond memory
          MaxCommands   \* bound: commands in a session, runs not counted

VARIABLES commands,  \* how many commands were given
          command,   \* the one just given, <<>> once the pipeline runs
          outside    \* program_counter lies beyond memory; `pc` then is of no account

svars == <<hvars, commands, command, outside>>

ASSUME SessionAssumption == LineLength \in Nat \ {0} /\ MaxCommands \in Nat

Command(line) ==
    /\ phase = "prompt"
    /\ commands < MaxCommands
    /\ commands' = commands + 1
    /\ command' = line
    /\ UNCHANGED <<new_regs, phase>>

InFlightNow == {InFlight[k] : k \in {j \in 1 .. 4 : InFlight[j].live}}

-----------------------------------------------------------------------------
(* load: line after line up to the end of the file or its first bad byte,  *)
(* straight to memory: the instruction cache keeps the words it has.       *)

Loaded(image, lines) ==
    [a \in PC |-> IF a < lines * LineLength THEN image[a] ELSE memory[a]]

\* The run on from here differs from what the memory now says.
LoadedBehind == \E i \in InFlightNow : memory'[i.at] # memory[i.at]

\* Mutant: load also invalidates the instruction cache, but not the BTB.
LoadCommand_Invalidates ==
    /\ \E image \in Programs, lines \in 1 .. PCTop \div LineLength :
         /\ Command(<<"load", image, lines * LineLength>>)
         /\ memory' = Loaded(image, lines)
    /\ code' = memory'
    /\ icache' = [b \in Blocks |-> "absent"]
    /\ derailed' = (derailed \/ LoadedBehind)
    /\ UNCHANGED <<pc, regs, btb, cur_regs, outside>>

LoadCommand ==
    /\ \E image \in Programs, lines \in 1 .. PCTop \div LineLength :
         /\ Command(<<"load", image, lines * LineLength>>)
         /\ memory' = Loaded(image, lines)
    /\ code' = [a \in PC |-> IF icache[Block(a)] = "resident" THEN code[a] ELSE memory'[a]]
    /\ derailed' = (derailed \/ LoadedBehind)
    /\ UNCHANGED <<pc, regs, btb, icache, cur_regs, outside>>

\* setpc: what is in the pipeline is finished first, or takes the pc back.
SetpcCommand ==
    /\ \E p \in PC : Command(<<"setpc", p>>) /\ pc' = p
    /\ outside' = FALSE
    /\ derailed' = (derailed \/ InFlightNow # {})
    /\ UNCHANGED <<code, memory, regs, btb, icache, cur_regs>>

\* An address beyond memory is reported as an error (memory_size itself is not)
\* and takes effect all the same.  No run is followed from there (what F then
\* does to the instruction cache is in MemorySystem.tla), but the commands that
\* bring the machine back are.
SetpcOutsideCommand ==
    /\ Command(<<"setpc", Outside>>)
    /\ outside' = TRUE
    /\ derailed' = TRUE
    /\ UNCHANGED <<code, memory, pc, regs, btb, icache, cur_regs>>

\* writereg: late for those that have read r, and lost if W is to write r.
WritesLate(r) ==
    \/ writes(cur_w_reg.instruction, r)
    \/ \E reg \in {cur_m_reg, cur_x_reg} : reads(reg.instruction, r)

WriteregCommand ==
    /\ \E r \in Registers, v \in Values :
         /\ Command(<<"writereg", r, v>>)
         /\ regs' = [regs EXCEPT ![r] = v]
         /\ derailed' = (derailed \/ WritesLate(r))
    /\ UNCHANGED <<code, memory, pc, btb, icache, cur_regs, outside>>

\* Mutant: cur_m_reg keeps what it holds.
InitializeCommand_KeepsM ==
    /\ Command(<<"initialize">>)
    /\ pc' = 0 /\ outside' = FALSE
    /\ icache' = [b \in Blocks |-> IF icache[b] = "pending" THEN "absent" ELSE icache[b]]
    /\ cur_d_reg' = EmptyD /\ cur_x_reg' = EmptyX /\ cur_w_reg' = EmptyW
    /\ derailed' = FALSE
    /\ UNCHANGED <<code, memory, regs, btb, cur_m_reg>>

\* initialize_state: the pending accesses are dropped and the pipeline
\* registers cleared; the caches, the BTB, the registers and the memory stay.
InitializeCommand ==
    /\ Command(<<"initialize">>)
    /\ pc' = 0 /\ outside' = FALSE
    /\ icache' = [b \in Blocks |-> IF icache[b] = "pending" THEN "absent" ELSE icache[b]]
    /\ cur_d_reg' = EmptyD /\ cur_x_reg' = EmptyX
    /\ cur_m_reg' = EmptyM /\ cur_w_reg' = EmptyW
    /\ derailed' = FALSE
    /\ UNCHANGED <<code, memory, regs, btb>>

\* F is handed a word that load has replaced in the memory.
FetchesStale ==
    /\ phase = "F"
    /\ ~ new_d_reg'.stalled
    /\ new_d_reg'.instruction # memory[FetchPC]

Run ==
    /\ ~outside
    /\ Next
    /\ derailed' = (derailed \/ Derails \/ FetchesStale)
    /\ command' = <<>>
    /\ UNCHANGED <<commands, outside>>

SessionInit == HInit /\ commands = 0 /\ command = <<>> /\ outside = FALSE

SessionNext ==
    \/ Run
    \/ LoadCommand \/ SetpcCommand \/ SetpcOutsideCommand
    \/ WriteregCommand \/ InitializeCommand

SessionSpec == SessionInit /\ [][SessionNext]_svars

-----------------------------------------------------------------------------
(* Properties. *)

\* What commands leave as it is, and what they keep for as long as the pipeline
\* follows the program: the inductive invariant of a session.
SInv ==
    /\ Base
    /\ memory \in Images
    /\ ~derailed => Chain /\ InStep

Expected == INSTANCE SequentialSession WITH code <- memory, pc <- AbsPC, regs <- AbsRegs

\* A session is what its user expects, from initialize on to the first of the
\* named departures: warm caches, branch predictions of an earlier program, a
\* program loaded over another and commands between any two cycles included
\* (execute_line, initialize_state).
RefinesSession == Expected!SessionSpec

=============================================================================

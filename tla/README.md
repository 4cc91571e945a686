# A verification of the RISC-V pipeline simulator

The program is a simulator of a 64-bit RISC-V core with a five-stage pipeline, a
branch target buffer, an instruction and a data cache, and a memory with
latency. It is driven by a small command language (`load`, `setpc`, `run`, ...).
This directory holds TLA+ models of it, TLC instances, and proofs checked by TLAPS.

The question behind the project: *does the pipeline compute what the program
says?* The same sources, built with `SIM_NO_PIPELINE`, contain the answer sheet:
`execute_single_instruction`, one instruction per step. The models state that the
pipeline implements that machine, and say exactly in which steps it stops doing so.

## 1. Inventory

| Component | State | Operations | Hard part |
|---|---|---|---|
| Stages and run loop (`pipeline.c`, `stages.c`, loop in `riscv_sim_pipeline_framework.c`) | `program_counter`; `cur_{d,x,m,w}_reg`; the loop's locals `new_*_reg` | `stage_writeback`, `stage_memory`, `stage_execute`, `stage_decode`, `stage_fetch`, the copies at the end of a cycle, `run` | stalls, squashes, replays, forwarding and predictions of up to five instructions meet in one cycle; a stall signal lives one cycle only; a run may end after any cycle |
| BTB (`pipeline.c`) | 32 entries, next index | `found_BTB` (F and X), `update_BTB`, `delete_BTB` (X) | changes between the prediction and its resolution |
| Instruction classes, decoding (`utils.c`) | none | predicates, fields, sign extension | which registers a word reads and writes; the scattered immediates |
| ALU (`executor.c`) | none | `exec_*` | widths, fall-through of switches |
| Register file (framework) | 32 registers | `register_read`, `register_write` | W writes before D reads; register 0 |
| Pending accesses (framework) | 4 slots, `cycle_counter` | `memory_read`, `memory_write`, `memory_status`, `memory_retire_completed` | an answer can be collected in one cycle only; a full table drops requests |
| Instruction cache (`cache.c`) | 512 lines of 16 bytes | `found_i_cache`, `update_i_cache`, `copy_i_cache` | answers that arrive late, for another address, or without a value |
| Data cache (`cache.c`) | 2048 lines of 8 bytes | `found_d_cache`, `write_d_cache`, `update_d_cache`, `copy_d_cache` | coherence with memory, polls of another address |
| Commands (framework) | memory, `program_counter`, registers | `load`, `setpc`, `writereg`, `initialize`, `run`, ... | state left in pipeline, caches and BTB between commands |
| Hex files, options, line reading (framework) | none | | input and output only |

How they interact: within a cycle the loop calls W, M, X, D, F in this order. They
share the *current* pipeline registers, which they only read, and each fills one
*new* register. Through global state they affect each other within the cycle: W's
register write is seen by D, X's BTB changes by F, M's request to the
memory by F's polls. F alone decides the next `program_counter`, and asks the
current x, m and w registers whether an older instruction must be refetched.

Correctness, component by component: the pipeline executes the program's
instructions once each, in order, on the right operands; the BTB never changes
what is computed; a replay is never lost; the pipeline never stops committing;
caches deliver what memory holds; a request is answered; a table or an index at
its limit does no harm. The list of hazards, each at its line, is in
`PROJECT.json`.

## 2. Modules

| Module | Models | Built on |
|---|---|---|
| `Decoding` | fields and immediates of a word, bit by bit (`utils.c`) | |
| `Executor` | one word from `decode_stage` to its result and branch decision: `executor.c` on 64-bit registers, against RV64I | `Decoding` |
| `Instructions` | what the pipeline can tell of a word: class, registers, immediate; the ALU (`Exec`, `Taken`) is a constant | |
| `BranchTargetBuffer` | the BTB as a value with its three operations | |
| `Pipeline` | the five stages, the pipeline registers, the run loop | both above |
| `PipelineInvariant` | the inductive invariant `IInv` of the pipeline's own state | `Pipeline` |
| `SequentialMachine` | the machine of the `SIM_NO_PIPELINE` build: the abstract specification | `Instructions` |
| `PipelineHistory` | the pipeline with a history variable, and its refinement mapping to `SequentialMachine` | `Pipeline` |
| `RefinementInvariant` | `InStep`: what the pipeline registers hold in terms of the sequential machine | `PipelineHistory`, `PipelineInvariant` |
| `SequentialSession` | what a user expects of the commands: the abstract specification of a session | `SequentialMachine` |
| `Session` | `load`, `setpc`, `writereg`, `initialize` and `run` on the pipeline, its refinement to `SequentialSession` and the invariant `SInv` of a session | `RefinementInvariant` |
| `MemorySystem` | the table of pending accesses, both caches, the accesses of M and F in a cycle | |
| `DataCache` | the bytes of memory and of the data cache, loads and stores of every width, the replay of a load that missed; every step is a step of `MemorySystem` | `MemorySystem` |
| `PipelineProofs`, `RefinementProofs`, `SessionProofs`, `MemorySystemProofs`, `DataCacheProofs`, `DecodingProofs`, `ExecutorProofs`, `LeastElement` | the theorems | |
| `MCPipeline`, `MCHistory`, `MCSession`, `MCDataCache`, `MCExecutor` | instances for TLC | |

**Pipeline.** `phase` says which call the loop makes next; each stage is an action
with one disjunct per path through the C function (`MemoryBubble`, `MemoryMiss`,
`MemoryPass`; `PredictRight`, `DidNotPredict`, `PredictWrong`,
`NormalExecution`; ...). `Latch` is the copy at the end of the loop body with the
loop's tests. The `new_*` locals are state: fields that a path leaves
unassigned keep what they held, and a new run starts with locals never
assigned. Only one of them can be read: `data_stalled`, after the two flush
paths of `stage_decode`; it starts with either value.

Abstractions: addresses are words modulo `PCTop`; the code does not wrap, and
programs in the instances stay inside. `code` is the word F is handed (the cached one
where its block is resident), `memory` what `load` wrote, which the EBREAK test of
the loop reads; within a program the two agree. Data memory returns any value, and a load
may miss any number of times: `DataCache` has the bytes. The overrun of the data poll
described there is not in `Pipeline`. The instruction cache keeps one state per block,
because `MemorySystem` shows that a line of a program within its reach keeps its block
for as long as F does not spoil it (`ResidentStays`, `InstructionHitIsTrue`): F does so when
it fetches above the reach, which the programs here, modulo `PCTop`, never do, or when a
store to a block the program is fetching from answers the poll for it, which
`Pipeline` leaves out. A word whose opcode is in none of the code's groups ("OTHER", such
as FENCE) passes through with `res` unassigned. Fields no stage reads are left out. `idx` of the BTB counts modulo
`ENTRY_NUM`: in the code it is a `uint8_t` used modulo 32, which is the same
counter.

**SequentialMachine.** `execute_single_instruction` when every access is answered.
(In the `SIM_NO_PIPELINE` build itself `current_stage` stays 0, so that
`memory_read` refuses every access: the build is the specification only for its
control flow and operand rules.) `register_file[0]` is not compared: it reads as 0.

**PipelineHistory.** The mapping lists the instructions in flight in each phase,
oldest first, with the address each would be refetched from. The abstract pc is
the address of the oldest not yet committed; an instruction commits when it
leaves M, a redirecting one when it leaves X. `derailed` becomes true when a step
is taken after which the pipeline no longer follows the sequential machine.
These are the steps the model names:

1. `LosesRedirect`: a redirect's target misses in the instruction cache, and the
   redirect is forgotten (`pipeline.c:80-85`).
2. `LosesLink`: a JAL or JALR that redirects never writes its link
   (`pipeline.c:361-366`).
3. `TakesWrongOperand`: the older of two forwarded values wins
   (`pipeline.c:228-248`), or a value for x0 is forwarded.
4. `StallsFlushed`: D raises `data_stalled` for a word it squashes, since the flag
   was not assigned (`pipeline.c:136-150`).
5. `FetchesNoInstruction`: a word 0, which the pipeline takes for a bubble, or
   EBREAK, reached through a redirect.

That no others are *needed* is what `RefinesSequential` says: every other
interaction of stalls, replays, squashes, predictions and forwarding is
invisible. Each of the five can really make the pipeline depart, but not every
time: the conditions are stated on the step alone, so that 3 and 5 also count a wrong
operand, or a word 0 or EBREAK, of an instruction that an older branch is about to
squash. `RefinesSequential` claims nothing after such a harmless one either. `Diverge` in the
abstract machine is what a derailed pipeline maps to.

What is compared are the registers and the order of the instructions. The effects of stores
are not: memory is no part of `SequentialMachine`, a LOAD returns any value in both
machines, and that the bytes agree is the subject of `DataCache`.

**Session.** A session is a sequence of commands given at the prompt, where the
last run may have left instructions in every stage. `load` writes to memory
line after line and may stop at a bad byte (`lines`), behind the instruction cache
and the instructions in flight; `setpc` and `writereg` change one value under the
pipeline; `initialize` clears the pipeline registers and the pending accesses and
leaves caches, BTB and registers. `SequentialSession` says what the user expects:
each command takes effect at once. `Session` implements it but for these
departures; the first four are disjuncts whose removal makes `RefinesSession` fail:

1. `LoadedBehind`: `load` changes a word that is in flight.
2. `FetchesStale`: F is handed a word of an earlier program from the instruction
   cache (`load` does not invalidate it, and neither does `initialize`).
3. `setpc` with instructions in flight: they are finished first, or a replay or
   redirect among them takes the pc back.
4. `WritesLate`: `writereg` of a register that an instruction in flight has read, or
   that W is about to write.
5. `SetpcOutsideCommand`: `setpc` of an address beyond memory prints an error, "must be within
   memory", but does not break, and sets the pc all the same (`:774-783`). The user of
   `SequentialSession` expects the pc to stay. The model follows no `run` from there:
   what such fetches do to the instruction cache is in `MemorySystem`, but `Session`'s
   cache has no state for it, so a session that runs from there and then initialises is
   not covered. The other commands, and `initialize` or a second `setpc` that bring the pc
   back before a `run`, are.

`initialize` ends a derailment in the model as in the code: whatever state the
machine is in, it starts again at 0. The one thing it may lose is the register
write of the instruction it finds in W, which `SequentialSession` states.
`PredictionsAreExact` holds in a session *because* the instruction cache is as
stale as the BTB: the mutant that invalidates the cache on `load` breaks it.

**MemorySystem.** One action per path of `memory_stage` and of
`instruction_fetch_stage`. Addresses are bytes. `due` is `end_cycle - cycle_counter`,
kept at -1 once past, since only equality with 0 is ever tested. A line remembers which
block it was filled from. What the program does is free, so that every sequence of
accesses is covered. Two polls per cycle, in the code's order. F may be taken anywhere in
`FetchWords`: the program, and `StrayWords`, which stand for where else it can get, where data
is, above the reach of the instruction cache, or beyond memory (up to 2^64 - 16, where sums
wrap). Beyond memory `memory_read` answers at once and assigns nothing, and
`instruction_fetch_stage` copies its unassigned block over a line that then hits for a
low address. `spoilt` is a history variable that records such fills, and those of
a line from a store's answer: `InstructionHitIsTrue` says that a line is wrong *exactly* then.

`Overrun`: the answer to a polled read is 16 bytes, and `update_d_cache` receives it in a
local of 8. What lies behind the local is undefined in C; in the build of the Makefile
with gcc it is the saved register that holds `pc` in `stage_fetch`, so that F
fetches at whatever address the upper 8 bytes of the block make. The model lets F fetch
anywhere in `FetchWords` then. `memory_stage` has the same 8-byte local for the same 16
bytes (`stages.c:118`, whether the read is answered or cleared to zero); in the
Makefile's build what lies behind it is padding that nobody reads, so no action
models it. That another compiler may lay out either stack frame otherwise is not
modelled.

**DataCache.** `Spec` of `MemorySystem` with bytes. A byte is 0x00 or 0xFF: no operation
here mixes the bits of a byte. `stored` remembers which lines a store has hit.
`replay` is the load that will be fetched again: M sees three bubbles and then the
load, unless a redirect of the overrun takes it away. The line a refused read fills
has byte 0 cleared and the rest of an unassigned local (`Leftovers`). `CleanLinesAreTrue` claims
lines last filled by a proper read of their own block and not stored to since. Of the
others (filled with an unassigned local, from above the reach, or merged with a store by
`write_d_cache`) it claims nothing. `LoadsAreRight` says which aligned loads from
a clean line are right, and `Misread` that the others are wrong: `found_d_cache` hands over one
32-bit word, so `ld` loses its upper half, and a byte or halfword that is not the first
of its word is read from where the word begins.

**Decoding, Executor.** A word is a function from bit numbers to 0 and 1, so all widths
are exact. `Result`, `Condition` and `Target` are RV64I as its manual gives it, one table
for all formats. `DeviatesExactly` compares: the code is wrong if and only if the
instruction with its operands and pc is listed in `Departs`, for all words of RV64I. The list is
the finding: `slli` gives what `slti` would; `addiw`, `subw` and `sraw` give zero; `jalr`
takes its target from the pc; `addw`, `sllw`, `srlw`,
`slliw` and `srliw` widen a negative word without its sign; `sltiu` drops the sign of its
immediate; shifts by 32 to 63 have a `funct7` (bit 25) that is not recognised and
give 0; `bge` tests equality, `bgeu` greater-than. Each entry says on which operands the
outcome differs: `subw` of equal operands gives the right zero and is not in the list.
A C shift by the width or more is undefined; the model takes the count modulo the width,
as x86-64 does. `Plus` gives each bit its carry at once (`Carry`: some lower pair of bits
makes one and all between pass it on), so that no operator of the module is recursive.

## 3. Checks

| Run | Shows | Result |
|---|---|---|
| `refines` | `RefinesSequential` on 125 loops, reads with latency | holds |
| `split` | `TypeOK`, `IInv`, `StaysInStep`, `PredictionsAreExact`, `ReplayHits`, `PathIsRight`, `RefinesSequential` on 6 loops whose run may end after any cycle | holds |
| `live` | `Progress` | holds |
| `redirect` | `RedirectHonoured` ("if stalled, re-fetch the instruction", `pipeline.c:59`) | violated |
| `ebreak` | `StopsOnlyAtEbreak` on `instructions/jump/jump.s` | violated |
| `delete` | `MispredictionDeleted` ("predict wrong, delete the information", `pipeline.c:328`) | violated |
| `data` | `InstructionHitIsTrue`, `ResidentStays`, `CleanLinesAreTrue`, `LoadsAreRight` | holds |
| `memory_live` | `FetchCompletes`, `LoadCompletes`, `PollsComeNearer`, `InstructionHitIsTrue` | holds |
| `memory_pended` | `MissIsPended` ("otherwise it will be pended", `stages.c:14`) | violated |
| `replay` | `EveryLoadCompletes` (`instructions/load_store/load_store.s` loads from 0x300000) | violated |
| `alu` | `DeviatesExactly`, `ImmediatesAreRight` on every format and function code | holds |
| `session` | `RefinesSession`, `SInv`, `PredictionsAreExact` | holds |

Each property of a passing run has a mutant in `PROJECT.json`: a plausible bug in
the modelled code that makes TLC find it violated.

**Bounds.** Eight words of memory in lines of two: a loop spans two lines, so
fetches behind a branch and redirects both hit and miss. Registers x0, x1, x2 and
values 0, 1: enough for a producer, another producer of the same register and a
consumer, and for x0. Two BTB entries: with three branches in a program
entries are replaced and duplicated. The 125 programs of `MCLoops` put every class
of instruction at every distance from a consumer, with loads and branches
between; every loop is entered with all register contents, and taken until
predictions are made, fail and are made again. `memory_pended` has the four slots of the
code; `memory_live` and `data` have two, so that a store or load and a fetch fill the
table. `memory_live` has two code blocks and a data address in one of them, so that a store's
entry can answer the poll of a fetch and loads and fetches ask for the same block; it has
a read latency of 2, so that repeated requests overtake each other. `data` has
one code block and one line, a stray address (64) at which memory ends, six data lines
and two data addresses: 4, in the code block, and 48, above the reach of the data
cache, whose block fills the line of block 0. One code block is enough for the properties of
`data`, which never compare two. `replay` has an address above the reach, answered at once. The
read that is refused since its block is not aligned to 16 bytes, with its unassigned
fill, is in no instance, but in the model and its theorems.
`session` has two programs of six words with a backward branch at the same address
and different targets, lines of two words, any two commands at any prompts, and runs that
end after any cycle: two commands are what it takes to load another program and
start it (`load`, `initialize`, in either order). It has no read latency: the blocks
pending at a prompt, and their loss by `initialize`, are in `data`. `alu` takes every
opcode, `funct3` and `funct7` of RV64I, the code's CSR opcode and one it does not know; register
operands 0, 1, -1, 37, 64, 4095 and both ends of the signed and unsigned ranges of 32 and 64
bits, in all pairs; immediates 0, -1, the two ends, and shift counts below
and above 32; and a register 0 that has been written to. It stops after one instruction, which is all there is to compare.

**Deadlock.** The pipeline configurations switch it off: at the prompt with EBREAK
next there is nothing left to do. The memory system never stops, and is checked.

**Fairness.** `FairSpec` has weak fairness of `Next`: the loop runs on while it has
steps. It adds strong fairness of `MemoryPass`: a load that keeps being
replayed hits in the end. The code justifies this without read latency and
for data below 16 KiB, where the first miss copies the block and no other access
comes before the replay; the run sets no read latency. With read latency F polls the block
of the last access that passed M and not the load's, and `Progress` is not claimed;
`LoadCompletes` says under which condition the load is answered (`SurelyPolled`).
`RunSpec` and `DRunSpec` have weak fairness of a cycle's steps only, with no assumption about which
access the program makes. `FetchCompletes` starts from a state in which the request
can be recorded and no abandoned entry of the block is in the table: an answer
not collected in its cycle is never collected (`memory_status` compares for
equality), and hides the block behind it.

## 4. Proofs

Assumptions: `InstructionsAssumption`, `PipelineAssumption`, `ExecAssumption` (an
ALU result of register values is a register value), `HistoryAssumption` (the pc of a
diverged machine is no address), `SessionAssumption` (a line of a file has at least one
word), `MemoryAssumption`, `DataAssumption`, `InputsAssumption` (words have 32 bits,
registers and addresses 64). All are evaluated by TLC on the instances. Nothing else
is assumed; in particular the theorems hold for every set of programs, every ALU,
every size, every word.

`PipelineProofs`: `Spec => []IInv`, and from it `TypeCorrect`, `PredictionsExact`,
`ReplaysHit` and `PathRight`. `IInv` is `Base /\ Chain`. `Base` is what holds whatever
the pc is changed to between two runs, so that a session keeps it too:

- `RegistersGood`: what each pipeline register promises of the instruction in it.
  A real instruction is the word at its address, its block is in the
  instruction cache, its operands are values, its target is computed. A raised
  stall carries a fetched address (for `data_stalled` even when the flag is a
  left-over). `ReplayHits` and the types need this: a type alone would allow an
  unassigned value to reach the register file.
- `BranchesResident`: the block of a branch in the BTB is in the instruction cache.
  `load` changes `code` only where a block is not resident, so this is what keeps
  `PredictionsAreExact` when another program is loaded.

`Chain` says that the instruction behind the one in X (or the next to be fetched) is
where the BTB *now* says it is, unless a redirect is about to squash it. This is what
makes "predict right" sound: F asked the BTB earlier, but whenever X changed
the BTB in between, it also raised a redirect, and the link is broken anyway.
With `PredictionsAreExact` it gives `PathIsRight`.

The proof has one lemma per stage and part; those of X rest on `ResolvedWord`, and on
lemmas about the BTB's operations (`SearchLemma`, `UpdateLemma`, `DeleteLemma`).

`RefinementProofs`: `InStepUntilDerailed` and, from it, `PipelineRefines`
(`HSpec => RefinesSequential`). `IInv` knows nothing of the program's meaning; `InStep`
adds it, in five parts, all stated with the registers `AbsRegs` and the pc of the
sequential machine: the instructions in flight are those of the program in memory
(`InstructionsReal`); each stall or flush signal has made the bubbles it must
(`BubblesMade`); what W and M hand on is in the register file or in a forwarding
register when D looks for it (`ResultsHandedOn`); an instruction on its way to X has the
operands the sequential machine gives it, and does not depend on the one just before
it (`OperandsAreRight`); one that X let go on has its result, and the pipeline goes on
behind it where the program does (`ExecutedRight`). Each part is needed by another: a
result is right since the operands were, these since D took them from results, and
the oldest instruction is where the abstract pc says since the path was right.
`InStep` is proved for steps that do not derail, stage by stage. `MappingLemma` says who
is the oldest in each phase, `RegsLemma` which registers the mapping reads. Then the
mapping is simple: a step of the sequential machine is taken when M passes an
instruction on, or when X redirects and the branch has no link to write; every
other step changes neither the abstract pc nor the abstract registers, and a step that
derails is `Diverge`. The five conditions of `Derails` are used in this proof, one by
one, where `InStep` would fail without them; that no sixth is needed is the theorem.

`SessionProofs`: `SInv` is inductive (`SessionInvariant`), and a session refines what its
user expects (`SessionRefines`), the setpc out of range included as a departure. `SInv` is `Base`, that memory holds words of programs,
and, while the session follows its program, `Chain` and `InStep`. One lemma for each
command: `load` leaves the words of resident blocks as F sees them, and in memory it may only change
words not in flight (else the session departs, `LoadedBehind`); `setpc` keeps `Base`, and
with nothing in flight there is no link to break; `writereg` keeps the operands of
what is in flight, or departs (`WritesLate`); `initialize` empties the registers, so that
`Chain` and `InStep` hold again whatever state it finds. A run's step is that of `RefinementProofs` as
long as the word F is handed is the one in memory (`FetchesStale` otherwise).
`SessionPredictions` is `PredictionsAreExact` through any number of commands.

`MemorySystemProofs`: `CacheInv` is `TypeOK`, that a valid line within the reach holds its own block
if and only if it is not spoilt (`TrueLines`), and that no entry is completed when
the polls begin. The last one shows that a poll answered by a READ delivers the very
block. From it `HitsAreTrue` and `NeverEvicted`, for every set of program, stray and data
addresses, apart or not, and every memory that holds what the cache can reach. They
are the ground of `Pipeline`'s view of the instruction cache, and say how far it carries.

`PolledGetNearer` is the safety half of `FetchCompletes` and `LoadCompletes`, for every number of slots
and every latency. F repeats its request in every cycle, and a repetition that lands in a lower slot,
freed meanwhile, hides the older one, which is about to be answered (`memory_status` looks
at the first match). So the time to the answer may rise. What descends is the pair of slot and time:
`AddKeeps`, `PolledKeeps` and `RetireKeeps` say that requests, polls and the end of a cycle either leave the
first request of a block in its place, or put a fresh one below it; `DueIsAnswered`, that the poll in the cycle it is
due fills the line; `FetchRecorded`, that a fetch that can be recorded is. As there are finitely many
pairs, weak fairness of a cycle's steps then gives the liveness properties; this last step
is TLC's.

`DataCacheProofs`: `DataCacheIsMemorySystem` (`DSpec => Spec`, step by step), so that the
theorems above hold of it; and `CleanLines`, from the invariant that a line
remembered as filled from a block and not stored to since holds the bytes memory has
at that block. It needs `TypeOK` of `MemorySystem` and that memory is changed only
where a store that hits marks its line. `LoadsRight` follows from it: two extensions
are equal just when the bytes they extend are, so a load is right if and only if
the bytes of the word and those asked for agree.

`DecodingProofs`: `ImmediatesRight`, for all 2^32 words: what `get_bits` selects, what the
shifted fields or-ed together hold bit by bit, and where the sign goes.

`ExecutorProofs`: `ImmediatesStayRight` carries this to the reachable states of
`Executor`; and `ExecutorDeviates`, that `DeviatesExactly` holds for all words
and all contents of the registers, where TLC tries 12 values. The invariant is
`Typed`, and `Decoded`: what D hands on are the named registers, the immediate of the
format and the pc plus that. The value is then compared opcode by opcode
(`RegisterRight`, `RegisterWordRight`, `ImmediateRightI`, `ImmediateWordRight`, `OthersRight`), the outcome of a
branch function by function (`BranchRight`). The equivalence needs both directions:
that a named case is *always* wrong uses that a word widened without its sign
differs just when its bit 31 is set (`WidenedRight`), that what is below the cut immediate of
`sltiu` is below the whole (`CutImmediate`), and that both orders are total and strict
(`BelowTotal`, `SignedBelowTotal`, by the highest bit that differs). Additions occur on both
sides of the comparison and need no proof there; that `Plus` is an adder is `CarryRipples`: its
carries are those that a ripple adder passes from bit to bit.

Only model-checked: the liveness properties `Progress`, `FetchCompletes` and
`LoadCompletes` (liveness and ENABLED are outside the prover's reach), and the
violations, which are single behaviours. Every safety property, invariant and refinement that a
passing run checks is a theorem.

## 5. Plan

What is left: a composition of `Pipeline` with `DataCache`, on which the refinement
could be restated for programs whose loads see their own stores; and, in its place or
before it, the part of `Progress` that is safety: a measure on the instructions in flight
that each cycle without a replay lowers.

## 6. Not modelled

Printing, the text of hex files, options, and the statistics counters, which no part of
the simulated machine reads. Accesses at the last bytes below
2^64, where `address + size` wraps around and the outcome is the host's (other accesses
beyond the memory are in `MemorySystem`). The composition
of `Pipeline` with the bytes of `DataCache`: a load in `Pipeline` returns any value and
misses at will, which covers whatever the data cache does to it, but a program whose
loads see its own stores is not followed through both.

---------------------------- MODULE MemorySystem ----------------------------
(***************************************************************************)
(* Memory timing: the table of pending accesses of                         *)
(* riscv_sim_pipeline_framework.c (memory_read, memory_write,              *)
(* memory_status, memory_retire_completed), the two caches of cache.c and  *)
(* the accesses M and F make in a cycle (stages.c, stage_fetch).           *)
(*                                                                         *)
(* An instruction line is 16 bytes, a data line 8; both reads ask for 16   *)
(* bytes.  Contents are abstract: a line remembers the block it was filled *)
(* from, or that it was filled from a local nobody assigned (DataCache     *)
(* adds the bytes).  What the program does is not fixed: in each cycle M   *)
(* loads, stores or does nothing, and F fetches the word it missed again   *)
(* unless a redirect moves it, in the program or out of it: behind its     *)
(* end, where data is, or where there is no memory.                        *)
(***************************************************************************)
EXTENDS Integers, FiniteSets

CONSTANTS MEMORY_MAX_PENDING,   \* slots of the table
          I_CACHE_LINES,        \* lines of the instruction cache
          D_CACHE_LINES,        \* lines of the data cache
          MemorySize,           \* bytes of memory
          CodeWords, DataAddresses, \* where the program and its data are
          StrayWords,           \* other addresses F may be taken to
          ReadLatency, WriteLatency,  \* options -r and -w
          Nothing,              \* an invalid line
          Garbage               \* the value of an unassigned local

FetchWords == CodeWords \cup StrayWords

Words == FetchWords \cup DataAddresses

InstructionBlock(a) == a - (a % 16)
DataBlock(a) == a - (a % 8)

\* sb, sh, sw and sd.
Sizes == {1, 2, 4, 8}

\* All the instruction cache reaches is memory: 8 KiB of 8 MiB in the code.
ASSUME MemoryAssumption ==
    /\ MEMORY_MAX_PENDING \in Nat \ {0}
    /\ I_CACHE_LINES \in Nat \ {0} /\ D_CACHE_LINES \in Nat \ {0}
    /\ CodeWords \subseteq Nat /\ StrayWords \subseteq Nat /\ DataAddresses \subseteq Nat
    /\ CodeWords # {}
    /\ MemorySize \in Nat /\ 16 * I_CACHE_LINES <= MemorySize
    /\ ReadLatency \in Nat /\ WriteLatency \in Nat
    /\ Nothing \notin Nat /\ Garbage \notin Nat /\ Nothing # Garbage

Slots == 0 .. MEMORY_MAX_PENDING - 1

VARIABLES
    memory_pending, \* the table; `due` is end_cycle - cycle_counter, -1 once past
    icache, dcache, \* what each line was filled from
    spoilt,         \* history: instruction lines last filled with other bytes
                    \* than those of the block that hits in them
    pc,             \* the word F fetches
    cur_memory,     \* cur_w_reg.memory, the data address F polls
    new_memory,     \* new_w_reg.memory
    phase           \* "M", "F" or "L": the end of the cycle

vars == <<memory_pending, icache, dcache, spoilt, pc, cur_memory, new_memory, phase>>

ILine(a) == (a \div 16) % I_CACHE_LINES
DLine(a) == (a \div 8) % D_CACHE_LINES

\* copy_i_cache and copy_d_cache never set sig: it stays 0, so a line only
\* ever hits for the lowest I_CACHE_LINES (D_CACHE_LINES) blocks of memory.
InReach(a) == a \div 16 < I_CACHE_LINES

found_i_cache(a) == icache[ILine(a)] # Nothing /\ InReach(a)
found_d_cache(a) == dcache[DLine(a)] # Nothing /\ a \div 8 < D_CACHE_LINES

Latencies == 0 .. (IF ReadLatency > WriteLatency THEN ReadLatency ELSE WriteLatency)

Entry == [address : Nat, op : {"NONE", "READ", "WRITE", "COMPLETED"},
          due : Latencies \cup {-1}]

FreeEntry == [address |-> 0, op |-> "NONE", due |-> -1]

TypeOK ==
    /\ memory_pending \in [Slots -> Entry]
    /\ icache \in [0 .. I_CACHE_LINES - 1 -> Nat \cup {Nothing, Garbage}]
    /\ dcache \in [0 .. D_CACHE_LINES - 1 -> Nat \cup {Nothing, Garbage}]
    /\ spoilt \subseteq 0 .. I_CACHE_LINES - 1
    /\ pc \in FetchWords
    /\ cur_memory \in Nat /\ new_memory \in Nat
    /\ phase \in {"M", "F", "L"}

Init ==
    /\ memory_pending = [s \in Slots |-> FreeEntry]
    /\ icache = [l \in 0 .. I_CACHE_LINES - 1 |-> Nothing]
    /\ dcache = [l \in 0 .. D_CACHE_LINES - 1 |-> Nothing]
    /\ spoilt = {}
    /\ pc \in CodeWords
    /\ cur_memory = 0
    /\ new_memory \in Words
    /\ phase = "M"

-----------------------------------------------------------------------------
(* The table.                                                              *)

First(S) == CHOOSE s \in S : \A t \in S : s <= t

Usable(table) == {s \in Slots : table[s].op \in {"NONE", "COMPLETED"}}

\* Mutant: an access that finds no slot takes the lowest from another.
memory_add_pending_TakesSlot(table, address, op, latency) ==
    LET s == IF Usable(table) = {} THEN 0 ELSE First(Usable(table))
    IN  [table EXCEPT ![s] = [address |-> address, op |-> op, due |-> latency]]

\* memory_add_pending: an access that finds no slot is not recorded, and its
\* caller is not told.
memory_add_pending(table, address, op, latency) ==
    IF Usable(table) = {} THEN table
    ELSE [table EXCEPT ![First(Usable(table))] =
            [address |-> address, op |-> op, due |-> latency]]

Matches(table, address) ==
    {s \in Slots : table[s].address = address /\ table[s].op # "NONE"}

\* memory_status looks at the first match only, and answers true only in the
\* very cycle the access ends.
memory_status(table, address) ==
    /\ Matches(table, address) # {}
    /\ table[First(Matches(table, address))].due = 0

\* The value is assigned for a READ only.
Delivered(table, address) ==
    IF table[First(Matches(table, address))].op = "READ" THEN address ELSE Garbage

Complete(table, address) ==
    IF memory_status(table, address)
    THEN [table EXCEPT ![First(Matches(table, address))].op = "COMPLETED"]
    ELSE table

\* A 16-byte read must be aligned to 16 bytes and lie in memory; another is
\* answered at once, with the value unassigned.  (Addresses are numbers: the last
\* 16 bytes below 2^64, where the sum wraps, are left out.)
Improper(address) == address % 16 # 0 \/ address + 16 > MemorySize

\* What memory_read returns, the value it hands over, and the table it leaves.
Answered(address) == Improper(address) \/ ReadLatency = 0

ValueRead(address) == IF Improper(address) THEN Garbage ELSE address

memory_read(table, address) ==
    IF Answered(address) THEN table
    ELSE memory_add_pending(table, address, "READ", ReadLatency)

\* A write that is not aligned to its size or not in memory has no effect.
\* Another is done at once; with latency it stays pending.
NotWritten(address, size) == address % size # 0 \/ address + size > MemorySize

memory_write(table, address, size) ==
    IF WriteLatency = 0 \/ NotWritten(address, size) THEN table
    ELSE memory_add_pending(table, address, "WRITE", WriteLatency)

-----------------------------------------------------------------------------
(* M: memory_stage, for a LOAD or SAVE at address a or for any other word. *)

EnterM == /\ phase = "M"
          /\ phase' = "F"
          /\ UNCHANGED <<icache, spoilt, pc, cur_memory>>

NoAccess == EnterM /\ UNCHANGED <<memory_pending, dcache, new_memory>>

\* The load passes M: the line is cached.
LoadHit(a) ==
    /\ EnterM
    /\ found_d_cache(a)
    /\ new_memory' = a
    /\ UNCHANGED <<memory_pending, dcache>>

\* The load will be replayed.  If the read is answered at once, the block is
\* copied to the cache; otherwise it is pended, if there is a slot.  Answered
\* or cleared, the 16 bytes of the read go into memory_stage's 8-byte local.
\* What lies behind it (undefined in C) is read by nobody in the build of the
\* Makefile: gcc -O3 leaves 8 bytes of padding there, and without optimisation
\* it is `status`, assigned after the call.
LoadMiss(a) ==
    /\ EnterM
    /\ ~found_d_cache(a)
    /\ memory_pending' = memory_read(memory_pending, DataBlock(a))
    /\ dcache' = IF Answered(DataBlock(a))
                 THEN [dcache EXCEPT ![DLine(a)] = ValueRead(DataBlock(a))]
                 ELSE dcache
    /\ UNCHANGED new_memory

\* A store always passes M, and nobody waits for it.
Store(a, size) ==
    /\ EnterM
    /\ memory_pending' = memory_write(memory_pending, a, size)
    /\ new_memory' = a
    /\ UNCHANGED dcache

-----------------------------------------------------------------------------
(* F: the two polls, then the fetch.                                       *)

\* update_i_cache(pc) and then update_d_cache(cur_w_reg.memory): the second
\* poll sees the entry the first has just completed.
Polled == Complete(Complete(memory_pending, InstructionBlock(pc)), DataBlock(cur_memory))

\* Mutant: the data address is polled first.
PollI_Second ==
    LET table == Complete(memory_pending, DataBlock(cur_memory))
    IN  IF memory_status(table, InstructionBlock(pc))
        THEN [icache EXCEPT ![ILine(pc)] = Delivered(table, InstructionBlock(pc))]
        ELSE icache

PollI ==
    IF memory_status(memory_pending, InstructionBlock(pc))
    THEN [icache EXCEPT ![ILine(pc)] = Delivered(memory_pending, InstructionBlock(pc))]
    ELSE icache

\* Mutant: the block is copied, but its line is not made valid.
PollD_NotValid == dcache

PollD ==
    LET table == Complete(memory_pending, InstructionBlock(pc))
    IN  IF memory_status(table, DataBlock(cur_memory))
        THEN [dcache EXCEPT ![DLine(cur_memory)] = Delivered(table, DataBlock(cur_memory))]
        ELSE dcache

\* The 16 bytes of a read go into update_d_cache's 8-byte local: what lies
\* behind it on the stack is overwritten, in the gcc build the register saved
\* for stage_fetch that holds pc.  F then fetches at the address these bytes
\* make: any that F may ever be taken to.
Overrun ==
    LET table == Complete(memory_pending, InstructionBlock(pc))
    IN  /\ memory_status(table, DataBlock(cur_memory))
        /\ table[First(Matches(table, DataBlock(cur_memory)))].op = "READ"

FetchAddresses == IF Overrun THEN FetchWords ELSE {pc}

Found(f) == PollI[ILine(f)] # Nothing /\ InReach(f)

\* A fill for address a brings the bytes that will hit if a is in reach and its
\* block was read; sig does not tell them from those of another block.
Marked(lines, a, right) ==
    IF right THEN lines \ {ILine(a)} ELSE lines \cup {ILine(a)}

SpoiltByPoll ==
    LET matches == Matches(memory_pending, InstructionBlock(pc))
    IN  IF memory_status(memory_pending, InstructionBlock(pc))
        THEN Marked(spoilt, pc, InReach(pc) /\ memory_pending[First(matches)].op = "READ")
        ELSE spoilt

EnterF == /\ phase = "F"
          /\ phase' = "L"
          /\ dcache' = PollD
          /\ UNCHANGED <<cur_memory, new_memory>>

\* The next word is wherever the program goes.
FetchHit(f) ==
    /\ EnterF
    /\ Found(f)
    /\ icache' = PollI
    /\ spoilt' = SpoiltByPoll
    /\ memory_pending' = Polled
    /\ pc' \in FetchWords

\* The same word is asked for again in the next cycle, and its read requested
\* again, unless a redirect takes F elsewhere.
FetchMiss(f) ==
    /\ EnterF
    /\ ~Found(f)
    /\ icache' = IF Answered(InstructionBlock(f))
                 THEN [PollI EXCEPT ![ILine(f)] = ValueRead(InstructionBlock(f))]
                 ELSE PollI
    /\ spoilt' = IF Answered(InstructionBlock(f))
                 THEN Marked(SpoiltByPoll, f, InReach(f))
                 ELSE SpoiltByPoll
    /\ memory_pending' = memory_read(Polled, InstructionBlock(f))
    /\ pc' \in FetchWords

-----------------------------------------------------------------------------
(* The end of the cycle: the registers are latched, cycle_counter counts   *)
(* and memory_retire_completed frees what was completed.                   *)

\* Mutant: every entry is freed, not only the completed ones.
Retire_All(e) == FreeEntry

Retire(e) ==
    IF e.op \in {"NONE", "COMPLETED"} THEN FreeEntry
    ELSE [e EXCEPT !.due = IF @ > 0 THEN @ - 1 ELSE -1]

Latch ==
    /\ phase = "L"
    /\ phase' = "M"
    /\ cur_memory' = new_memory
    /\ memory_pending' = [s \in Slots |-> Retire(memory_pending[s])]
    /\ UNCHANGED <<icache, dcache, spoilt, pc, new_memory>>

\* Between two runs: the locals of the next one are garbage, and `initialize`
\* may have cleared the table and the pipeline registers, but not the caches.
NewRun ==
    /\ phase = "M"
    /\ new_memory' \in Words
    /\ UNCHANGED <<memory_pending, icache, dcache, spoilt, pc, cur_memory, phase>>

\* Mutant: the instruction cache is cleared as well.
Initialize_ClearsCache ==
    /\ phase = "M"
    /\ memory_pending' = [s \in Slots |-> FreeEntry]
    /\ cur_memory' = 0
    /\ icache' = [l \in 0 .. I_CACHE_LINES - 1 |-> Nothing]
    /\ UNCHANGED <<dcache, spoilt, pc, new_memory, phase>>

Initialize ==
    /\ phase = "M"
    /\ memory_pending' = [s \in Slots |-> FreeEntry]
    /\ cur_memory' = 0
    /\ UNCHANGED <<icache, dcache, spoilt, pc, new_memory, phase>>

StageMemory ==
    \/ NoAccess
    \/ \E a \in DataAddresses : LoadHit(a) \/ LoadMiss(a) \/ \E n \in Sizes : Store(a, n)

StageFetch == \E f \in FetchAddresses : FetchHit(f) \/ FetchMiss(f)

Next == StageMemory \/ StageFetch \/ Latch \/ NewRun \/ Initialize

Spec == Init /\ [][Next]_vars

\* One run with steps to spare: the loop goes on.
Cycle == StageMemory \/ StageFetch \/ Latch

RunSpec == Init /\ [][Cycle]_vars /\ WF_vars(Cycle)

-----------------------------------------------------------------------------
(* Properties.                                                             *)

\* The program fits the reach of the instruction cache (8 KiB in the code).
ProgramIsLow == \A a \in CodeWords : InReach(a)

\* A hit in the instruction cache delivers the word that was asked for if and
\* only if the last fill of its line was for an address in the cache's reach and
\* was answered by a read.  F spoils a line when it is taken above the reach, by
\* the program or by the overrun of a data poll (a block above, or nothing at all
\* beyond the memory, hits for the low block), and when a store to the block
\* answers its poll.  Nothing else does: no data read, no poll that finds an entry
\* already completed, no abandoned entry (instruction_fetch_stage, copy_i_cache).
InstructionHitIsTrue ==
    \A a \in CodeWords :
        found_i_cache(a) =>
            (icache[ILine(a)] = InstructionBlock(a) <=> ILine(a) \notin spoilt)

HoldsBlock(a) == found_i_cache(a) /\ icache[ILine(a)] = InstructionBlock(a)

\* A word that was fetched stays fetched, with the same bytes, until F spoils its
\* line.  Pipeline.tla models the instruction cache on this ground.
ResidentStays ==
    [][\A a \in CodeWords :
          HoldsBlock(a) => HoldsBlock(a)' \/ ILine(a) \in spoilt' \ spoilt]_vars

Pends(e, b) == e.op = "READ" /\ e.address = b /\ e.due > 0

\* "otherwise it will be pended" (stages.c): a fetch that misses and is not
\* answered at once has a read of its block under way.
MissIsPended ==
    [][\A f \in FetchAddresses : FetchMiss(f) /\ ~Answered(InstructionBlock(f))
          => \E s \in Slots : Pends(memory_pending'[s], InstructionBlock(f))]_vars

\* A fetch is sure to be answered if its read can be recorded and no entry of
\* an earlier, abandoned fetch of the block hides it.
Recordable(b) ==
    /\ Usable(memory_pending) # {}
    /\ \A s \in Matches(memory_pending, b) : memory_pending[s].due >= 0

\* Then F, asking for the same block again in every cycle, gets it, whatever
\* M does meanwhile, unless a redirect takes F elsewhere first.
FetchCompletes ==
    ProgramIsLow =>
        \A a \in CodeWords :
            phase = "F" /\ pc = a /\ ~Overrun /\ Recordable(InstructionBlock(a))
                ~> found_i_cache(a) \/ pc # a

\* The access the next poll of block b answers is still to come: it is the
\* first of b's in the table, not answered yet and not past.
UnderWay(b) ==
    LET S == Matches(memory_pending, b)
        e == memory_pending[First(S)]
    IN  S # {} /\ e.op # "COMPLETED" /\ e.due >= IF phase = "L" THEN 1 ELSE 0

\* It gives way to one in a lower slot, or is a cycle nearer to its end when the
\* cycle ends.
ComesNearer(b) ==
    LET s == First(Matches(memory_pending, b))
        t == First(Matches(memory_pending', b))
    IN  \/ t < s
        \/ t = s /\ memory_pending'[s].due =
                      memory_pending[s].due - IF phase = "L" THEN 1 ELSE 0

\* A block that F polls in every cycle is not overtaken for ever: whatever other
\* requests, answers and stores come and go in the table, its request descends in
\* slot and time until the poll that fills the line; and the request of a fetch
\* that can be recorded is (memory_add_pending, memory_status, memory_read).
PollsComeNearer ==
    [][~Initialize =>
        /\ ProgramIsLow => \A a \in CodeWords :
             LET b == InstructionBlock(a)
             IN  /\ UnderWay(b) /\ (phase = "F" => pc = a)
                      => found_i_cache(a)' \/ (UnderWay(b)' /\ ComesNearer(b))
                 /\ phase = "F" /\ pc = a /\ ~Overrun /\ Recordable(b)
                      => found_i_cache(a)' \/ UnderWay(b)'
        /\ \A a \in DataAddresses :
             LET b == DataBlock(a)
             IN  a \div 8 < D_CACHE_LINES /\ UnderWay(b)
                   /\ (phase = "F" => DataBlock(cur_memory) = b)
                   => found_d_cache(a)' \/ (UnderWay(b)' /\ ComesNearer(b))]_vars

=============================================================================

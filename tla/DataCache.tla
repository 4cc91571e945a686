----------------------------- MODULE DataCache ------------------------------
(***************************************************************************)
(* What the data cache holds.  Every step is a step of MemorySystem; added *)
(* are the bytes of memory and of the lines (write_d_cache, copy_d_cache,  *)
(* the switch of memory_stage) and the replay of a load that missed.       *)
(*                                                                         *)
(* A byte is 0 or 1, for 0x00 and 0xFF: copying, the OR of write_d_cache   *)
(* and sign extension treat the bits of a byte alike.                      *)
(***************************************************************************)
EXTENDS MemorySystem

CONSTANTS StoredValues,  \* values of reg2 for a SAVE
          Leftovers      \* what an unassigned 8-byte local can hold

VARIABLES memory,   \* the doublewords at Blocks
          lines,    \* the doubleword in each line of the data cache
          stored,   \* history: lines a store has hit since they were filled
          replay    \* the load to come back to M, and after how many bubbles

dvars == <<vars, memory, lines, stored, replay>>

Doubleword == [0 .. 7 -> {0, 1}]

DataLines == 0 .. D_CACHE_LINES - 1

Blocks == {DataBlock(a) : a \in Words \cup {0}}

ASSUME DataAssumption ==
    /\ StoredValues \subseteq Doubleword
    /\ Leftovers \subseteq Doubleword /\ Leftovers # {}

\* A replayed load reaches M again in the fourth cycle after it missed: F
\* refetches it in the next one, and D, X and M are bubbles before it.
ReplayBubbles == 3

DTypeOK ==
    /\ memory \in [Blocks -> Doubleword]
    /\ lines \in [DataLines -> Doubleword]
    /\ stored \subseteq DataLines
    /\ replay \in {Nothing} \cup [address : DataAddresses, bubbles : 0 .. ReplayBubbles]

Zero == [k \in 0 .. 7 |-> 0]

DInit ==
    /\ Init
    /\ memory = [b \in Blocks |-> Zero]
    /\ lines = [l \in DataLines |-> Zero]
    /\ stored = {}
    /\ replay = Nothing

-----------------------------------------------------------------------------
(* Bytes: a doubleword lists them from the lowest address.                 *)

\* The low n bytes of dw, extended to 64 bits.
Extend(dw, n, signed) ==
    [k \in 0 .. 7 |-> IF k < n THEN dw[k] ELSE IF signed THEN dw[n - 1] ELSE 0]

\* Mutant: the offset in the block is not looked at.
WordOf_Lowest(line, a) == [k \in 0 .. 7 |-> IF k < 4 THEN line[k] ELSE 0]

\* What found_d_cache hands over: the 32-bit word the address lies in.
WordOf(line, a) ==
    [k \in 0 .. 7 |-> IF k < 4 THEN line[4 * ((a % 8) \div 4) + k] ELSE 0]

\* memory_stage takes the low bytes of that word.
Loaded(line, a, n, signed) == Extend(WordOf(line, a), n, signed)

\* The halves change places, and the stored bytes are ORed in at the low end.
write_d_cache(line, value, n) ==
    [k \in 0 .. 7 |-> IF line[(k + 4) % 8] = 1 \/ (k < n /\ value[k] = 1) THEN 1 ELSE 0]

\* memory_load of n bytes at offset o of a doubleword.
Overwritten(dw, o, value, n) ==
    [k \in 0 .. 7 |-> IF k \in o .. o + n - 1 THEN value[k - o] ELSE dw[k]]

-----------------------------------------------------------------------------
(* M.                                                                      *)

Unchanged == UNCHANGED <<memory, lines, stored>>

Bubble ==
    /\ replay # Nothing /\ replay.bubbles > 0
    /\ NoAccess
    /\ replay' = [replay EXCEPT !.bubbles = @ - 1]
    /\ Unchanged

OtherInstruction ==
    /\ replay = Nothing
    /\ NoAccess
    /\ UNCHANGED replay /\ Unchanged

InM(a) == replay \in {Nothing, [address |-> a, bubbles |-> 0]}

LoadPasses(a) ==
    /\ InM(a)
    /\ LoadHit(a)
    /\ replay' = Nothing
    /\ Unchanged

\* A refused read has set byte 0 of the local and nothing else.
BlockRead(a) ==
    IF Improper(DataBlock(a)) THEN {[g EXCEPT ![0] = 0] : g \in Leftovers}
    ELSE {memory[DataBlock(a)]}

LoadReplays(a) ==
    /\ InM(a)
    /\ LoadMiss(a)
    /\ replay' = [address |-> a, bubbles |-> ReplayBubbles]
    /\ IF Answered(DataBlock(a))
       THEN /\ \E dw \in BlockRead(a) : lines' = [lines EXCEPT ![DLine(a)] = dw]
            /\ stored' = stored \ {DLine(a)}
       ELSE UNCHANGED <<lines, stored>>
    /\ UNCHANGED memory

\* Mutant: a store leaves the line alone.
WriteThrough_Only(a, value, n) == UNCHANGED <<lines, stored>>

\* The line, if it hits, is changed whether or not the write is aligned.
WriteLine(a, value, n) ==
    IF found_d_cache(a)
    THEN /\ lines' = [lines EXCEPT ![DLine(a)] = write_d_cache(@, value, n)]
         /\ stored' = stored \cup {DLine(a)}
    ELSE UNCHANGED <<lines, stored>>

StorePasses(a, n) ==
    /\ replay = Nothing
    /\ Store(a, n)
    /\ \E value \in StoredValues :
         /\ WriteLine(a, value, n)
         /\ memory' = IF NotWritten(a, n) THEN memory
                      ELSE [memory EXCEPT ![DataBlock(a)] =
                              Overwritten(@, a % 8, value, n)]
    /\ UNCHANGED replay

-----------------------------------------------------------------------------
(* F, and the rest of the cycle.                                           *)

DataAnswered ==
    memory_status(Complete(memory_pending, InstructionBlock(pc)), DataBlock(cur_memory))

\* A READ hands over what memory holds by now; the answer to anything else
\* leaves update_d_cache's local unassigned.
BlockPolled == IF Overrun THEN {memory[DataBlock(cur_memory)]} ELSE Leftovers

\* The refetch of a load that is thrown elsewhere is lost.
Fetch ==
    /\ StageFetch
    /\ IF DataAnswered
       THEN /\ \E dw \in BlockPolled : lines' = [lines EXCEPT ![DLine(cur_memory)] = dw]
            /\ stored' = stored \ {DLine(cur_memory)}
       ELSE UNCHANGED <<lines, stored>>
    /\ replay' \in IF Overrun /\ replay # Nothing /\ replay.bubbles = ReplayBubbles - 1
                   THEN {replay, Nothing} ELSE {replay}
    /\ UNCHANGED memory

EndOfCycle == Latch /\ UNCHANGED replay /\ Unchanged

\* The pipeline registers, with the load in them, outlive the run.
StartRun == NewRun /\ UNCHANGED replay /\ Unchanged

ClearPipeline == Initialize /\ replay' = Nothing /\ Unchanged

Accesses ==
    \E a \in DataAddresses :
        LoadPasses(a) \/ LoadReplays(a) \/ \E n \in Sizes : StorePasses(a, n)

DCycle == Bubble \/ OtherInstruction \/ Accesses \/ Fetch \/ EndOfCycle

DNext == DCycle \/ StartRun \/ ClearPipeline

DSpec == DInit /\ [][DNext]_dvars

\* One run with steps to spare.
DRunSpec == DInit /\ [][DCycle]_dvars /\ WF_dvars(DCycle)

-----------------------------------------------------------------------------
(* Properties.                                                             *)

Low(a) == a \div 8 < D_CACHE_LINES

\* The line was filled by a proper read of a's own block, and no store has hit
\* it since.
Clean(a) == dcache[DLine(a)] = DataBlock(a) /\ DLine(a) \notin stored

\* A line of the data cache disagrees with memory only for one of three
\* reasons: it was filled from a local nobody assigned, by a block above the
\* reach of the cache, or changed by write_d_cache.  In particular it agrees
\* however long ago the read was requested and whatever was stored meanwhile.
CleanLinesAreTrue ==
    \A a \in DataAddresses :
        found_d_cache(a) /\ Clean(a) => lines[DLine(a)] = memory[DataBlock(a)]

\* What a load must return (RISC-V, aligned accesses).
Reference(a, n, signed) ==
    Extend([k \in 0 .. 7 |-> memory[DataBlock(a)][((a % 8) + k) % 8]], n, signed)

\* ld loses the upper half of its doubleword, and a byte or halfword that is
\* not the first of its word is read from where the word begins.
Misread(a, n) ==
    LET dw == memory[DataBlock(a)]  o == a % 8
    IN  IF n = 8 THEN \E k \in 4 .. 7 : dw[k] # 0
        ELSE \E k \in 0 .. n - 1 : dw[4 * (o \div 4) + k] # dw[o + k]

\* From a clean line every aligned load returns what memory holds, if and only
\* if it is not one of those (found_d_cache, the switch of memory_stage).
LoadsAreRight ==
    \A d \in DataAddresses, o \in 0 .. 7, n \in Sizes, signed \in BOOLEAN :
        LET a == DataBlock(d) + o
        IN  o % n = 0 /\ found_d_cache(a) /\ Clean(a) =>
              (Loaded(lines[DLine(a)], a, n, signed) = Reference(a, n, signed)
                 <=> ~Misread(a, n))

Waits(a) == replay # Nothing /\ replay.address = a

\* The load's block is read, and F polls it: the last access that passed M was
\* to the same block.
SurelyPolled(a) ==
    /\ DataBlock(cur_memory) = DataBlock(a) /\ DataBlock(new_memory) = DataBlock(a)
    /\ \E s \in Slots : Pends(memory_pending[s], DataBlock(a))
    /\ \A s \in Matches(memory_pending, DataBlock(a)) : memory_pending[s].due >= 0

\* Then the load that missed does not miss for ever: its block arrives, and it
\* passes M.
LoadCompletes ==
    \A a \in DataAddresses :
        phase = "F" /\ Waits(a) /\ Low(a) /\ SurelyPolled(a)
            ~> found_d_cache(a) /\ replay = Nothing

\* "lb x4, 0(x3)" (instructions/load_store/load_store.s): a load that has to
\* wait gets its data in the end.
EveryLoadCompletes == replay # Nothing ~> replay = Nothing

=============================================================================

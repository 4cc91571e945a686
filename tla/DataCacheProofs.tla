-------------------------- MODULE DataCacheProofs ---------------------------
(***************************************************************************)
(* Proofs about the data cache for every size, latency, placement of data, *)
(* stored value and content of unassigned locals: it is a memory system,   *)
(* and a clean line holds what memory holds.                               *)
(***************************************************************************)
EXTENDS DataCache, MemorySystemProofs

\* Each low block whose line was filled from it, and not stored to since, is in
\* the line as memory holds it.
LinesTrue ==
    \A b \in Blocks :
        /\ b \div 8 < D_CACHE_LINES
        /\ dcache[b \div 8] = b
        /\ b \div 8 \notin stored
        => lines[b \div 8] = memory[b]

\* What F polls lies in the memory modelled.
PolledKnown == cur_memory \in Words \cup {0} /\ new_memory \in Words \cup {0}

DataInv == CacheInv /\ DTypeOK /\ PolledKnown /\ LinesTrue

-----------------------------------------------------------------------------
(* The data cache is a memory system.                                      *)

LEMMA DataStep == DNext => Next
<1>1. Bubble \/ OtherInstruction => NoAccess
  BY DEF Bubble, OtherInstruction
<1>2. ASSUME NEW a \in DataAddresses
      PROVE  LoadPasses(a) \/ LoadReplays(a) => LoadHit(a) \/ LoadMiss(a)
  BY DEF LoadPasses, LoadReplays
<1>3. ASSUME NEW a \in DataAddresses, NEW n \in Sizes
      PROVE  StorePasses(a, n) => Store(a, n)
  BY DEF StorePasses
<1>4. Fetch => StageFetch
  BY DEF Fetch
<1>5. EndOfCycle => Latch
  BY DEF EndOfCycle
<1>6. (StartRun => NewRun) /\ (ClearPipeline => Initialize)
  BY DEF StartRun, ClearPipeline
<1>7. QED BY <1>1, <1>2, <1>3, <1>4, <1>5, <1>6
         DEF DNext, DCycle, Accesses, Next, StageMemory

\* The data cache with its contents does what MemorySystem describes, so all
\* that is proved of the table and the instruction cache holds of it.
THEOREM DataCacheIsMemorySystem == DSpec => Spec
<1>1. DInit => Init
  BY DEF DInit
<1>2. [DNext]_dvars => [Next]_vars
  BY DataStep DEF dvars
<1>3. QED BY <1>1, <1>2, PTL DEF DSpec, Spec

-----------------------------------------------------------------------------
(* Blocks and lines.                                                       *)

LEMMA DataBlocks ==
    ASSUME NEW a \in Words \cup {0}
    PROVE  /\ a \in Nat
           /\ DataBlock(a) \in Blocks /\ DataBlock(a) \in Nat
           /\ DataBlock(a) \div 8 = a \div 8
           /\ a \div 8 \in Nat
           /\ DLine(a) \in DataLines
           /\ a \div 8 < D_CACHE_LINES => DLine(a) = a \div 8
<1>1. a \in Nat
  BY MemoryAssumption DEF Words, FetchWords
<1>2. /\ DataBlock(a) = 8 * (a \div 8)
      /\ a \div 8 \in Nat
  BY <1>1, Remainders DEF DataBlock
<1>3. \A q \in Nat : 8 * q \in Nat /\ (8 * q) \div 8 = q
  OBVIOUS
<1>4. DataBlock(a) \in Nat /\ DataBlock(a) \div 8 = a \div 8
  BY <1>2, <1>3
<1>5. DLine(a) \in DataLines
  BY <1>1, BlockTypes DEF DataLines
<1>6. a \div 8 < D_CACHE_LINES => DLine(a) = a \div 8
  BY <1>2, SmallRemainder, MemoryAssumption DEF DLine
<1>7. QED BY <1>1, <1>2, <1>4, <1>5, <1>6 DEF Blocks

\* A block is a natural number and the block of some address.
LEMMA BlocksAre ==
    ASSUME NEW b \in Blocks
    PROVE  b \in Nat /\ b \div 8 \in Nat
<1>1. PICK a \in Words \cup {0} : b = DataBlock(a)
  BY DEF Blocks
<1>2. QED BY <1>1, DataBlocks

\* Filling a line from its block, or from garbage, leaves the lines true.
LEMMA FillLemma ==
    ASSUME DataInv, NEW a \in Words \cup {0}, NEW v, NEW dw \in Doubleword,
           v \in {DataBlock(a), Garbage},
           v = DataBlock(a) => dw = memory[DataBlock(a)],
           dcache' = [dcache EXCEPT ![DLine(a)] = v],
           lines' = [lines EXCEPT ![DLine(a)] = dw],
           stored' = stored \ {DLine(a)},
           memory' = memory
    PROVE  /\ LinesTrue'
           /\ lines' \in [DataLines -> Doubleword] /\ stored' \subseteq DataLines
<1>1. /\ dcache \in [DataLines -> Nat \cup {Nothing, Garbage}]
      /\ lines \in [DataLines -> Doubleword] /\ stored \subseteq DataLines
  BY DEF DataInv, DTypeOK, CacheInv, TypeOK, DataLines
<1>2. DLine(a) \in DataLines /\ DataBlock(a) \in Blocks
  BY DataBlocks
<1>3. ASSUME NEW b \in Blocks, b \div 8 < D_CACHE_LINES,
             dcache'[b \div 8] = b, b \div 8 \notin stored'
      PROVE  lines'[b \div 8] = memory'[b]
  <2>1. b \in Nat /\ b \div 8 \in DataLines
    BY <1>3, BlocksAre, MemoryAssumption DEF DataLines
  <2>2. CASE b \div 8 = DLine(a)
    <3>1. dcache'[b \div 8] = v
      BY <1>1, <1>2, <2>2
    <3>2. v = DataBlock(a) /\ b = DataBlock(a)
      BY <1>3, <2>1, <3>1, MemoryAssumption
    <3>3. lines'[b \div 8] = dw
      BY <1>1, <1>2, <2>2
    <3>4. QED BY <3>2, <3>3
  <2>3. CASE b \div 8 # DLine(a)
    <3>1. dcache[b \div 8] = b /\ b \div 8 \notin stored
      BY <1>1, <1>2, <1>3, <2>1, <2>3
    <3>2. lines[b \div 8] = memory[b]
      BY <1>3, <3>1 DEF DataInv, LinesTrue
    <3>3. QED BY <1>1, <1>2, <2>1, <2>3, <3>2
  <2>4. QED BY <2>2, <2>3
<1>4. LinesTrue'
  BY <1>3 DEF LinesTrue, Blocks, Words, DataBlock
<1>5. QED BY <1>1, <1>2, <1>4

-----------------------------------------------------------------------------
(* The invariant.                                                          *)

ContentsGood ==
    /\ memory \in [Blocks -> Doubleword]
    /\ lines \in [DataLines -> Doubleword]
    /\ stored \subseteq DataLines
    /\ LinesTrue

LEMMA ContentsTypes ==
    DataInv => /\ ContentsGood /\ PolledKnown
               /\ dcache \in [DataLines -> Nat \cup {Nothing, Garbage}]
               /\ replay \in {Nothing} \cup [address : DataAddresses,
                                             bubbles : 0 .. ReplayBubbles]
BY DEF DataInv, DTypeOK, ContentsGood, CacheInv, TypeOK, DataLines

\* Steps that touch neither a line nor memory.
LEMMA ContentsKept ==
    ASSUME DataInv, Unchanged, dcache' = dcache
    PROVE  ContentsGood'
BY ContentsTypes DEF Unchanged, ContentsGood, LinesTrue, Blocks, Words, DataBlock,
                     DataLines, Doubleword

LEMMA Bytes ==
    ASSUME NEW dw \in Doubleword, NEW value \in Doubleword, NEW n \in Sizes
    PROVE  /\ write_d_cache(dw, value, n) \in Doubleword
           /\ \A o \in 0 .. 7 : Overwritten(dw, o, value, n) \in Doubleword
           /\ [dw EXCEPT ![0] = 0] \in Doubleword
<1>1. write_d_cache(dw, value, n) \in Doubleword
  BY DEF write_d_cache, Doubleword
<1>2. ASSUME NEW o \in 0 .. 7
      PROVE  Overwritten(dw, o, value, n) \in Doubleword
  <2>1. \A k \in 0 .. 7 : k \in o .. o + n - 1 => k - o \in 0 .. 7
    BY <1>2 DEF Sizes
  <2>2. QED BY <2>1 DEF Overwritten, Doubleword
<1>3. QED BY <1>1, <1>2 DEF Doubleword

\* A store changes memory under a line only if it hits the line, which then no
\* longer counts as clean.
LEMMA StoreContents ==
    ASSUME DataInv, NEW a \in DataAddresses, NEW n \in Sizes, StorePasses(a, n)
    PROVE  ContentsGood'
<1>1. PICK value \in StoredValues :
         /\ WriteLine(a, value, n)
         /\ memory' = IF NotWritten(a, n) THEN memory
                      ELSE [memory EXCEPT ![DataBlock(a)] =
                              Overwritten(@, a % 8, value, n)]
  BY DEF StorePasses
<1>2. dcache' = dcache
  BY DEF StorePasses, Store
<1>3. /\ a \in Words \cup {0} /\ a \in Nat /\ a % 8 \in 0 .. 7
      /\ value \in Doubleword
      /\ DataBlock(a) \in Blocks /\ DLine(a) \in DataLines
      /\ DataBlock(a) \div 8 = a \div 8
      /\ a \div 8 < D_CACHE_LINES => DLine(a) = a \div 8
  BY DataBlocks, Remainders, MemoryAssumption, DataAssumption DEF Words
<1>4. memory' \in [Blocks -> Doubleword]
      /\ \A b \in Blocks : b # DataBlock(a) => memory'[b] = memory[b]
  <2>1. memory[DataBlock(a)] \in Doubleword /\ memory \in [Blocks -> Doubleword]
    BY <1>3, ContentsTypes DEF ContentsGood
  <2>2. Overwritten(memory[DataBlock(a)], a % 8, value, n) \in Doubleword
    BY <1>3, <2>1, Bytes
  <2>3. QED BY <1>1, <1>3, <2>1, <2>2
<1>5. /\ lines' \in [DataLines -> Doubleword] /\ stored' \subseteq DataLines
      /\ stored \subseteq stored'
      /\ \A l \in DataLines : l # DLine(a) => lines'[l] = lines[l]
  <2>1. /\ lines \in [DataLines -> Doubleword] /\ stored \subseteq DataLines
        /\ write_d_cache(lines[DLine(a)], value, n) \in Doubleword
    BY <1>3, Bytes, ContentsTypes DEF ContentsGood
  <2>2. QED BY <1>1, <1>3, <2>1 DEF WriteLine
<1>6. ASSUME NEW b \in Blocks, b \div 8 < D_CACHE_LINES,
             dcache'[b \div 8] = b, b \div 8 \notin stored'
      PROVE  lines'[b \div 8] = memory'[b]
  <2>1. b \in Nat /\ b \div 8 \in DataLines
    BY <1>6, BlocksAre, MemoryAssumption DEF DataLines
  <2>2. lines[b \div 8] = memory[b]
    BY <1>2, <1>5, <1>6, ContentsTypes DEF ContentsGood, LinesTrue
  <2>3. CASE b = DataBlock(a)
    <3>1. DLine(a) = b \div 8 /\ a \div 8 < D_CACHE_LINES
      BY <1>3, <1>6, <2>3
    <3>2. found_d_cache(a)
      BY <1>2, <1>6, <2>1, <3>1, MemoryAssumption DEF found_d_cache
    <3>3. DLine(a) \in stored'
      BY <1>1, <3>2 DEF WriteLine
    <3>4. QED BY <1>6, <3>1, <3>3
  <2>4. CASE b # DataBlock(a)
    <3>1. memory'[b] = memory[b]
      BY <1>4, <2>4
    <3>2. CASE b \div 8 = DLine(a)
      <4>1. CASE found_d_cache(a)
        BY <1>1, <1>6, <3>2, <4>1 DEF WriteLine
      <4>2. CASE ~found_d_cache(a)
        BY <1>1, <2>2, <3>1, <4>2 DEF WriteLine
      <4>3. QED BY <4>1, <4>2
    <3>3. CASE b \div 8 # DLine(a)
      BY <1>5, <2>1, <2>2, <3>1, <3>3
    <3>4. QED BY <3>2, <3>3
  <2>5. QED BY <2>3, <2>4
<1>7. LinesTrue'
  BY <1>6 DEF LinesTrue, Blocks, Words, DataBlock
<1>8. QED BY <1>4, <1>5, <1>7 DEF ContentsGood, Blocks, Words, DataBlock, DataLines, Doubleword

\* A load that misses fills its line, if at all, from its own block, or from
\* the local its refused read left unassigned.
LEMMA LoadContents ==
    ASSUME DataInv, NEW a \in DataAddresses, LoadReplays(a)
    PROVE  ContentsGood'
<1> DEFINE v == ValueRead(DataBlock(a))
<1>1. /\ memory' = memory
      /\ LoadMiss(a)
  BY DEF LoadReplays
<1>2. a \in Words \cup {0} /\ DataBlock(a) \in Blocks
  BY DataBlocks DEF Words
<1>3. CASE ~Answered(DataBlock(a))
  BY <1>1, <1>3, ContentsKept DEF LoadReplays, LoadMiss, Unchanged
<1>4. CASE Answered(DataBlock(a))
  <2>1. /\ dcache' = [dcache EXCEPT ![DLine(a)] = v]
        /\ stored' = stored \ {DLine(a)}
    BY <1>1, <1>4 DEF LoadReplays, LoadMiss
  <2>2. PICK dw \in BlockRead(a) : lines' = [lines EXCEPT ![DLine(a)] = dw]
    BY <1>4 DEF LoadReplays
  <2>3. v \in {DataBlock(a), Garbage}
    BY DEF ValueRead
  <2>4. dw \in Doubleword /\ (v = DataBlock(a) => dw = memory[DataBlock(a)])
    <3>1. CASE Improper(DataBlock(a))
      <4>1. v = Garbage /\ v # DataBlock(a)
        BY <1>2, <3>1, BlocksAre, MemoryAssumption DEF ValueRead
      <4>2. PICK g \in Leftovers : dw = [g EXCEPT ![0] = 0]
        BY <3>1 DEF BlockRead
      <4>3. g \in Doubleword /\ 8 \in Sizes
        BY DataAssumption DEF Sizes
      <4>4. QED BY <4>1, <4>2, <4>3, Bytes
    <3>2. CASE ~Improper(DataBlock(a))
      BY <1>2, <3>2, ContentsTypes DEF BlockRead, ContentsGood
    <3>3. QED BY <3>1, <3>2
  <2> HIDE DEF v
  <2>5. /\ LinesTrue'
        /\ lines' \in [DataLines -> Doubleword] /\ stored' \subseteq DataLines
    BY <1>1, <1>2, <2>1, <2>2, <2>3, <2>4, FillLemma
  <2>6. memory' \in [Blocks -> Doubleword]
    BY <1>1, ContentsTypes DEF ContentsGood
  <2>7. QED BY <2>5, <2>6 DEF ContentsGood, Blocks, Words, DataBlock, DataLines, Doubleword
<1>5. QED BY <1>3, <1>4

\* A poll fills the line of the address polled: from memory if the access that
\* ended is a read, else from a local nobody assigned.
LEMMA FetchContents ==
    ASSUME DataInv, Fetch
    PROVE  ContentsGood'
<1> DEFINE a == cur_memory
           table == Complete(memory_pending, InstructionBlock(pc))
           v == Delivered(table, DataBlock(a))
<1>1. /\ memory' = memory /\ dcache' = PollD
  BY DEF Fetch, StageFetch, FetchHit, FetchMiss, EnterF
<1>2. a \in Words \cup {0} /\ DataBlock(a) \in Blocks
  BY ContentsTypes, DataBlocks DEF PolledKnown
<1>3. CASE ~DataAnswered
  <2>1. dcache' = dcache
    BY <1>1, <1>3 DEF PollD, DataAnswered
  <2>2. QED BY <1>1, <1>3, <2>1, ContentsKept DEF Fetch, Unchanged
<1>4. CASE DataAnswered
  <2>1. dcache' = [dcache EXCEPT ![DLine(a)] = v]
    BY <1>1, <1>4 DEF PollD, DataAnswered
  <2>2. PICK dw \in BlockPolled : lines' = [lines EXCEPT ![DLine(a)] = dw]
    BY <1>4 DEF Fetch
  <2>3. stored' = stored \ {DLine(a)}
    BY <1>4 DEF Fetch
  <2>4. v \in {DataBlock(a), Garbage}
    BY DEF Delivered
  <2>5. dw \in Doubleword /\ (v = DataBlock(a) => dw = memory[DataBlock(a)])
    <3>1. CASE Overrun
      BY <1>2, <2>2, <3>1, ContentsTypes DEF BlockPolled, ContentsGood
    <3>2. CASE ~Overrun
      <4>1. v = Garbage
        BY <1>4, <3>2 DEF Overrun, DataAnswered, Delivered
      <4>2. v # DataBlock(a)
        BY <1>2, <4>1, BlocksAre, MemoryAssumption
      <4>3. QED BY <2>2, <3>2, <4>2, DataAssumption DEF BlockPolled
    <3>3. QED BY <3>1, <3>2
  <2> HIDE DEF v, a
  <2>6. /\ LinesTrue'
        /\ lines' \in [DataLines -> Doubleword] /\ stored' \subseteq DataLines
    BY <1>1, <1>2, <2>1, <2>2, <2>3, <2>4, <2>5, FillLemma
  <2>7. memory' \in [Blocks -> Doubleword]
    BY <1>1, ContentsTypes DEF ContentsGood
  <2>8. QED BY <2>6, <2>7 DEF ContentsGood, Blocks, Words, DataBlock, DataLines, Doubleword
<1>5. QED BY <1>3, <1>4

\* A load that is replayed is a load of the program's data, on its way to M.
LEMMA ReplayAndPolls ==
    DataInv /\ DNext =>
        /\ replay' \in {Nothing} \cup [address : DataAddresses, bubbles : 0 .. ReplayBubbles]
        /\ PolledKnown'
<1> SUFFICES ASSUME DataInv, DNext
             PROVE  /\ replay' \in {Nothing} \cup [address : DataAddresses,
                                                   bubbles : 0 .. ReplayBubbles]
                    /\ PolledKnown'
  OBVIOUS
<1> DEFINE Good == /\ replay' \in {Nothing} \cup [address : DataAddresses,
                                                   bubbles : 0 .. ReplayBubbles]
                   /\ cur_memory' \in Words \cup {0} /\ new_memory' \in Words \cup {0}
<1>1. /\ replay \in {Nothing} \cup [address : DataAddresses, bubbles : 0 .. ReplayBubbles]
      /\ cur_memory \in Words \cup {0} /\ new_memory \in Words \cup {0}
      /\ DataAddresses \subseteq Words
  BY ContentsTypes DEF PolledKnown, Words
<1>2. ASSUME Bubble
      PROVE  Good
  <2>1. replay \in [address : DataAddresses, bubbles : 0 .. ReplayBubbles]
        /\ replay.bubbles > 0
    BY <1>1, <1>2 DEF Bubble
  <2>2. [replay EXCEPT !.bubbles = @ - 1] \in [address : DataAddresses,
                                               bubbles : 0 .. ReplayBubbles]
    BY <2>1 DEF ReplayBubbles
  <2>3. replay' = [replay EXCEPT !.bubbles = @ - 1]
    BY <1>2 DEF Bubble
  <2>4. QED BY <1>1, <1>2, <2>2, <2>3 DEF Bubble, NoAccess, EnterM
<1>3. ASSUME OtherInstruction
      PROVE  Good
  BY <1>1, <1>3 DEF OtherInstruction, NoAccess, EnterM
<1>4. ASSUME NEW a \in DataAddresses, LoadPasses(a)
      PROVE  Good
  BY <1>1, <1>4 DEF LoadPasses, LoadHit, EnterM
<1>5. ASSUME NEW a \in DataAddresses, LoadReplays(a)
      PROVE  Good
  BY <1>1, <1>5 DEF LoadReplays, LoadMiss, EnterM, ReplayBubbles
<1>6. ASSUME NEW a \in DataAddresses, NEW n \in Sizes, StorePasses(a, n)
      PROVE  Good
  BY <1>1, <1>6 DEF StorePasses, Store, EnterM
<1>7. ASSUME Fetch
      PROVE  Good
  <2>1. cur_memory' = cur_memory /\ new_memory' = new_memory
    BY <1>7 DEF Fetch, StageFetch, FetchHit, FetchMiss, EnterF
  <2>2. QED BY <1>1, <1>7, <2>1 DEF Fetch
<1>8. ASSUME EndOfCycle \/ StartRun \/ ClearPipeline
      PROVE  Good
  BY <1>1, <1>8 DEF EndOfCycle, StartRun, ClearPipeline, Latch, NewRun, Initialize
<1>9. Good
  BY <1>2, <1>3, <1>4, <1>5, <1>6, <1>7, <1>8 DEF DNext, DCycle, Accesses
<1>10. QED BY <1>9 DEF PolledKnown, Words

LEMMA ContentsStep == DataInv /\ DNext => ContentsGood'
<1> SUFFICES ASSUME DataInv, DNext
             PROVE  ContentsGood'
  OBVIOUS
<1>1. CASE Bubble \/ OtherInstruction
  BY <1>1, ContentsKept DEF Bubble, OtherInstruction, NoAccess
<1>2. ASSUME NEW a \in DataAddresses, LoadPasses(a)
      PROVE  ContentsGood'
  BY <1>2, ContentsKept DEF LoadPasses, LoadHit
<1>3. CASE EndOfCycle \/ StartRun \/ ClearPipeline
  BY <1>3, ContentsKept DEF EndOfCycle, StartRun, ClearPipeline, Latch, NewRun, Initialize
<1>4. QED BY <1>1, <1>2, <1>3, LoadContents, StoreContents, FetchContents
         DEF DNext, DCycle, Accesses

LEMMA InitData == DInit => DataInv
<1> SUFFICES ASSUME DInit
             PROVE  DataInv
  OBVIOUS
<1>1. CacheInv
  BY InitCache DEF DInit
<1>2. DTypeOK
  BY DEF DInit, DTypeOK, Zero, Doubleword
<1>3. PolledKnown
  BY DEF DInit, Init, PolledKnown
<1>4. LinesTrue
  <2>1. ASSUME NEW b \in Blocks, b \div 8 < D_CACHE_LINES
        PROVE  dcache[b \div 8] # b
    BY <2>1, BlocksAre, MemoryAssumption DEF DInit, Init
  <2>2. QED BY <2>1 DEF LinesTrue
<1>5. QED BY <1>1, <1>2, <1>3, <1>4 DEF DataInv

LEMMA DataInvariant == DSpec => []DataInv
<1>1. DataInv /\ [DNext]_dvars => DataInv'
  <2> SUFFICES ASSUME DataInv, [DNext]_dvars
               PROVE  DataInv'
    OBVIOUS
  <2>1. CacheInv'
    BY CacheStep, DataStep DEF DataInv, dvars
  <2>2. CASE DNext
    <3>1. ContentsGood'
      BY <2>2, ContentsStep
    <3>2. PolledKnown' /\ replay' \in {Nothing} \cup [address : DataAddresses,
                                                      bubbles : 0 .. ReplayBubbles]
      BY <2>2, ReplayAndPolls
    <3>3. QED BY <2>1, <3>1, <3>2 DEF DataInv, DTypeOK, ContentsGood
  <2>3. CASE UNCHANGED dvars
    BY <2>1, <2>3 DEF DataInv, DTypeOK, PolledKnown, LinesTrue, dvars, vars, Blocks, Words,
                      DataBlock, DataLines, Doubleword
  <2>4. QED BY <2>2, <2>3
<1>2. QED BY <1>1, InitData, PTL DEF DSpec

\* Memory, lines and the load under way keep their types, and nothing outside
\* the modelled memory is ever polled.
THEOREM DataTypeCorrect == DSpec => []DTypeOK
<1>1. DataInv => DTypeOK
  BY DEF DataInv
<1>2. QED BY <1>1, DataInvariant, PTL

LEMMA CleanFromInvariant == DataInv => CleanLinesAreTrue
<1> SUFFICES ASSUME DataInv, NEW a \in DataAddresses, found_d_cache(a), Clean(a)
             PROVE  lines[DLine(a)] = memory[DataBlock(a)]
  BY DEF CleanLinesAreTrue
<1>1. /\ DataBlock(a) \in Blocks /\ DataBlock(a) \div 8 = a \div 8
      /\ a \div 8 < D_CACHE_LINES => DLine(a) = a \div 8
  BY DataBlocks DEF Words
<1>2. a \div 8 < D_CACHE_LINES
  BY DEF found_d_cache
<1>3. QED BY <1>1, <1>2 DEF DataInv, LinesTrue, Clean

\* A line of the data cache filled by a proper read and not stored to holds
\* what memory holds, however late the read was answered (cache.c, memory_status).
THEOREM CleanLines == DSpec => []CleanLinesAreTrue
<1>1. QED BY CleanFromInvariant, DataInvariant, PTL

\* What memory_stage takes from a line equal to memory is what an aligned load
\* asked for, but for the bytes Misread names.
LEMMA LoadedIsReference ==
    ASSUME NEW a \in Nat, NEW n \in Sizes, (a % 8) % n = 0, NEW signed \in BOOLEAN,
           NEW line \in Doubleword, memory[DataBlock(a)] = line
    PROVE  Loaded(line, a, n, signed) = Reference(a, n, signed) <=> ~Misread(a, n)
<1> DEFINE o == a % 8
           base == 4 * (o \div 4)
           got == WordOf(line, a)
           want == [k \in 0 .. 7 |-> line[(o + k) % 8]]
<1>1. o \in 0 .. 7 /\ base \in {0, 4} /\ n \in {1, 2, 4, 8}
  BY DEF Sizes
<1>2. \A k \in 0 .. 7 : got[k] = IF k < 4 THEN line[base + k] ELSE 0
  BY DEF WordOf
<1>3. /\ Loaded(line, a, n, signed) = Extend(got, n, signed)
      /\ Reference(a, n, signed) = Extend(want, n, signed)
  BY DEF Loaded, Reference
<1>4. \A k \in 0 .. 7 : line[k] \in {0, 1}
  BY DEF Doubleword
<1>5. Misread(a, n) <=> IF n = 8 THEN \E k \in 4 .. 7 : line[k] # 0
                        ELSE \E k \in 0 .. n - 1 : line[base + k] # line[o + k]
  BY DEF Misread
<1>6. Extend(got, n, signed) = Extend(want, n, signed)
        <=> \A k \in 0 .. n - 1 : got[k] = want[k]
  <2> HIDE DEF got, want
  <2>1. ASSUME \A k \in 0 .. n - 1 : got[k] = want[k]
        PROVE  Extend(got, n, signed) = Extend(want, n, signed)
    BY <1>1, <2>1 DEF Extend
  <2>2. ASSUME Extend(got, n, signed) = Extend(want, n, signed), NEW k \in 0 .. n - 1
        PROVE  got[k] = want[k]
    <3>1. \A f : Extend(f, n, signed)[k] = f[k]
      BY <1>1 DEF Extend
    <3>2. QED BY <2>2, <3>1
  <2>3. QED BY <2>1, <2>2
<1>7. CASE n = 8
  <2>1. o = 0 /\ base = 0
    BY <1>1, <1>7
  <2>2. \A k \in 0 .. 7 : want[k] = line[k]
    BY <2>1
  <2> HIDE DEF got, want, o, base
  <2>3. (\A k \in 0 .. 7 : got[k] = want[k]) <=> \A k \in 4 .. 7 : line[k] = 0
    BY <1>2, <2>1, <2>2
  <2>4. QED BY <1>3, <1>5, <1>6, <1>7, <2>3
<1>8. CASE n # 8
  <2>1. \A k \in 0 .. n - 1 : k < 4 /\ o + k \in 0 .. 7 /\ (o + k) % 8 = o + k
    BY <1>1, <1>8
  <2>2. \A k \in 0 .. n - 1 : want[k] = line[o + k] /\ got[k] = line[base + k]
    BY <1>1, <1>2, <2>1
  <2> HIDE DEF got, want, o, base
  <2>3. QED BY <1>3, <1>5, <1>6, <1>8, <2>2
<1>9. QED BY <1>7, <1>8

\* Aligned loads of every width return what memory holds, but for the bytes that
\* Misread names, unless their line is garbage, an alias or was stored to.
THEOREM LoadsRight == DSpec => []LoadsAreRight
<1>1. DataInv => LoadsAreRight
  <2> SUFFICES ASSUME DataInv, NEW d \in DataAddresses, NEW o \in 0 .. 7, NEW n \in Sizes,
                      NEW signed \in BOOLEAN, o % n = 0,
                      found_d_cache(DataBlock(d) + o), Clean(DataBlock(d) + o)
               PROVE  Loaded(lines[DLine(DataBlock(d) + o)], DataBlock(d) + o, n, signed)
                        = Reference(DataBlock(d) + o, n, signed)
                      <=> ~Misread(DataBlock(d) + o, n)
    BY DEF LoadsAreRight
  <2> DEFINE a == DataBlock(d) + o
  <2>1. d \in Nat /\ a \in Nat /\ a % 8 = o /\ DataBlock(a) = DataBlock(d)
        /\ a \div 8 = d \div 8
    BY MemoryAssumption DEF DataBlock
  <2>2. found_d_cache(d) /\ Clean(d) /\ DLine(a) = DLine(d)
    BY <2>1 DEF found_d_cache, Clean, DLine
  <2>3. lines[DLine(a)] = memory[DataBlock(a)]
    BY <2>1, <2>2, CleanFromInvariant DEF CleanLinesAreTrue
  <2>4. lines[DLine(d)] \in Doubleword
    BY <2>1, ContentsTypes, DataBlocks DEF ContentsGood, Words
  <2> HIDE DEF a
  <2>5. QED BY <2>1, <2>2, <2>3, <2>4, LoadedIsReference DEF a
<1>2. QED BY <1>1, DataInvariant, PTL

=============================================================================

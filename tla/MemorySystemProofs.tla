------------------------ MODULE MemorySystemProofs --------------------------
(***************************************************************************)
(* Proofs about the memory system for every number of slots and of cache   *)
(* lines, every latency and every placement of code, data and stray        *)
(* fetches: the types, what the instruction cache holds, and how the       *)
(* requests in the table get nearer to their answers.                      *)
(***************************************************************************)
EXTENDS MemorySystem, LeastElement

ILines == 0 .. I_CACHE_LINES - 1
DLines == 0 .. D_CACHE_LINES - 1

\* A valid line holds the one block that hits in it exactly if it is not spoilt;
\* and what F polls in a cycle has not been answered before in that cycle.
TrueLines(cache, bad) ==
    \A l \in ILines : cache[l] # Nothing => (cache[l] = 16 * l <=> l \notin bad)

LinesGood == TrueLines(icache, spoilt)

PendingGood == \A s \in Slots : memory_pending[s].op = "COMPLETED" => phase = "L"

CacheInv == TypeOK /\ LinesGood /\ PendingGood

-----------------------------------------------------------------------------
(* Arithmetic of blocks and lines.                                         *)

LEMMA Remainders ==
    \A a \in Nat : /\ a % 16 \in 0 .. 15
                   /\ a = 16 * (a \div 16) + (a % 16)
                   /\ a \div 16 \in Nat
                   /\ a % 8 \in 0 .. 7
                   /\ a = 8 * (a \div 8) + (a % 8)
                   /\ a \div 8 \in Nat
<1> TAKE a \in Nat
<1>1. a % 16 \in 0 .. 15 /\ a % 8 \in 0 .. 7
  OBVIOUS
<1>2. a = 16 * (a \div 16) + (a % 16)
  OBVIOUS
<1>3. a = 8 * (a \div 8) + (a % 8)
  OBVIOUS
<1>4. a \div 16 \in Nat /\ a \div 8 \in Nat
  OBVIOUS
<1>5. QED BY <1>1, <1>2, <1>3, <1>4

LEMMA SmallRemainder == \A n \in Nat, k \in Nat \ {0} : n < k => n % k = n
OBVIOUS

LEMMA RemainderRange == \A n \in Nat, k \in Nat \ {0} : n % k \in 0 .. k - 1
OBVIOUS

LEMMA BlockTypes ==
    \A a \in Nat : /\ InstructionBlock(a) \in Nat
                   /\ InstructionBlock(a) = 16 * (a \div 16)
                   /\ DataBlock(a) \in Nat
                   /\ ILine(a) \in 0 .. I_CACHE_LINES - 1
                   /\ DLine(a) \in 0 .. D_CACHE_LINES - 1
<1> TAKE a \in Nat
<1>1. InstructionBlock(a) \in Nat /\ InstructionBlock(a) = 16 * (a \div 16)
  BY Remainders DEF InstructionBlock
<1>2. DataBlock(a) \in Nat
  BY Remainders DEF DataBlock
<1>3. ILine(a) \in 0 .. I_CACHE_LINES - 1
  BY Remainders, RemainderRange, MemoryAssumption DEF ILine
<1>4. DLine(a) \in 0 .. D_CACHE_LINES - 1
  BY Remainders, RemainderRange, MemoryAssumption DEF DLine
<1>5. QED BY <1>1, <1>2, <1>3, <1>4

\* The block of an address is that of its line exactly if the address is in
\* reach, and then its read is a proper one.
LEMMA ReachedBlock ==
    ASSUME NEW a \in Nat
    PROVE  /\ InReach(a) <=> InstructionBlock(a) = 16 * ILine(a)
           /\ InReach(a) => ~Improper(InstructionBlock(a))
<1> DEFINE q == a \div 16
<1>1. q \in Nat /\ InstructionBlock(a) = 16 * q /\ ILine(a) \in 0 .. I_CACHE_LINES - 1
  BY BlockTypes, Remainders
<1>2. I_CACHE_LINES \in Nat \ {0} /\ MemorySize \in Nat /\ 16 * I_CACHE_LINES <= MemorySize
  BY MemoryAssumption
<1>3. InReach(a) <=> q < I_CACHE_LINES
  BY DEF InReach
<1>4. ILine(a) = q % I_CACHE_LINES
  BY DEF ILine
<1> HIDE DEF q
<1>5. CASE q < I_CACHE_LINES
  <2>1. ILine(a) = q
    BY <1>1, <1>2, <1>4, <1>5, SmallRemainder
  <2>2. (16 * q) % 16 = 0
    BY <1>1
  <2>3. 16 * q + 16 <= MemorySize
    BY <1>1, <1>2, <1>5
  <2>4. ~Improper(InstructionBlock(a))
    BY <1>1, <1>2, <2>2, <2>3 DEF Improper
  <2>5. QED BY <1>1, <1>3, <1>5, <2>1, <2>4
<1>6. CASE ~(q < I_CACHE_LINES)
  BY <1>1, <1>2, <1>3, <1>6
<1>7. QED BY <1>5, <1>6

\* A line that is filled, and marked by what it was filled with, keeps the lines
\* as they should be.
LEMMA LineFilled ==
    ASSUME NEW cache \in [ILines -> Nat \cup {Nothing, Garbage}],
           NEW bad \in SUBSET ILines, TrueLines(cache, bad),
           NEW a \in Nat, NEW v \in Nat \cup {Garbage}, NEW right \in BOOLEAN,
           right <=> v = 16 * ILine(a)
    PROVE  LET new == [cache EXCEPT ![ILine(a)] = v]
           IN  /\ new \in [ILines -> Nat \cup {Nothing, Garbage}]
               /\ Marked(bad, a, right) \in SUBSET ILines
               /\ TrueLines(new, Marked(bad, a, right))
               /\ new[ILine(a)] # Nothing
               /\ \A l \in ILines : cache[l] # Nothing => new[l] # Nothing
<1> DEFINE new == [cache EXCEPT ![ILine(a)] = v]
<1>1. ILine(a) \in ILines
  BY BlockTypes DEF ILines
<1>2. \A l \in ILines : new[l] = IF l = ILine(a) THEN v ELSE cache[l]
  OBVIOUS
<1>3. v # Nothing
  BY MemoryAssumption
<1>4. new \in [ILines -> Nat \cup {Nothing, Garbage}]
  BY <1>1
<1>5. Marked(bad, a, right) \in SUBSET ILines
  BY <1>1 DEF Marked
<1>6. \A l \in ILines : l \in Marked(bad, a, right) <=>
                          IF l = ILine(a) THEN ~right ELSE l \in bad
  BY DEF Marked
<1> HIDE DEF new
<1>7. TrueLines(new, Marked(bad, a, right))
  BY <1>2, <1>6 DEF TrueLines
<1>8. QED BY <1>1, <1>2, <1>3, <1>4, <1>5, <1>7 DEF new

-----------------------------------------------------------------------------
(* The table of pending accesses.                                          *)

\* The operations on the table keep it a table; what they change.
LEMMA FirstIn ==
    ASSUME NEW S \in SUBSET Slots, S # {}
    PROVE  First(S) \in S
<1>1. S \in SUBSET Nat
  BY MemoryAssumption DEF Slots
<1>2. \E s \in S : \A t \in S : s <= t
  BY <1>1, LeastElementExists
<1>3. QED BY <1>2 DEF First

Table == [Slots -> Entry]

LEMMA AddPending ==
    ASSUME NEW table \in Table, NEW a \in Nat, NEW op \in {"READ", "WRITE"},
           NEW n \in Latencies
    PROVE  LET new == memory_add_pending(table, a, op, n)
           IN  /\ new \in Table
               /\ \A s \in Slots : new[s] = table[s]
                                   \/ new[s] = [address |-> a, op |-> op, due |-> n]
<1>1. CASE Usable(table) = {}
  BY <1>1 DEF memory_add_pending
<1>2. CASE Usable(table) # {}
  <2>1. First(Usable(table)) \in Slots
    BY <1>2, FirstIn DEF Usable
  <2>2. [address |-> a, op |-> op, due |-> n] \in Entry
    BY DEF Entry
  <2>3. QED BY <1>2, <2>1, <2>2 DEF memory_add_pending, Table
<1>3. QED BY <1>1, <1>2

\* A read or a write adds at most one entry of its own kind.
LEMMA ReadLemma ==
    ASSUME NEW table \in Table, NEW a \in Nat
    PROVE  /\ memory_read(table, a) \in Table
           /\ \A s \in Slots : \/ memory_read(table, a)[s] = table[s]
                               \/ memory_read(table, a)[s].op = "READ"
<1>1. ReadLatency \in Latencies
  BY MemoryAssumption DEF Latencies
<1>2. CASE Answered(a)
  BY <1>2 DEF memory_read
<1>3. CASE ~Answered(a)
  <2> DEFINE new == memory_add_pending(table, a, "READ", ReadLatency)
  <2>1. /\ new \in Table
        /\ \A s \in Slots : \/ new[s] = table[s]
                            \/ new[s] = [address |-> a, op |-> "READ", due |-> ReadLatency]
    BY <1>1, AddPending
  <2>2. memory_read(table, a) = new
    BY <1>3 DEF memory_read
  <2> HIDE DEF new
  <2>3. QED BY <2>1, <2>2
<1>4. QED BY <1>2, <1>3

LEMMA WriteLemma ==
    ASSUME NEW table \in Table, NEW a \in Nat, NEW n \in Sizes
    PROVE  /\ memory_write(table, a, n) \in Table
           /\ \A s \in Slots : \/ memory_write(table, a, n)[s] = table[s]
                               \/ memory_write(table, a, n)[s].op = "WRITE"
<1>1. WriteLatency \in Latencies
  BY MemoryAssumption DEF Latencies
<1>2. CASE WriteLatency = 0 \/ NotWritten(a, n)
  BY <1>2 DEF memory_write
<1>3. CASE ~(WriteLatency = 0 \/ NotWritten(a, n))
  <2> DEFINE new == memory_add_pending(table, a, "WRITE", WriteLatency)
  <2>1. /\ new \in Table
        /\ \A s \in Slots : \/ new[s] = table[s]
                            \/ new[s] = [address |-> a, op |-> "WRITE", due |-> WriteLatency]
    BY <1>1, AddPending
  <2>2. memory_write(table, a, n) = new
    BY <1>3 DEF memory_write
  <2> HIDE DEF new
  <2>3. QED BY <2>1, <2>2
<1>4. QED BY <1>2, <1>3

LEMMA FirstMatch ==
    ASSUME NEW table \in Table, NEW a, memory_status(table, a)
    PROVE  /\ First(Matches(table, a)) \in Slots
           /\ table[First(Matches(table, a))].address = a
           /\ table[First(Matches(table, a))].op # "NONE"
<1>1. Matches(table, a) \in SUBSET Slots /\ Matches(table, a) # {}
  BY DEF Matches, memory_status
<1>2. First(Matches(table, a)) \in Matches(table, a)
  BY <1>1, FirstIn
<1>3. QED BY <1>2 DEF Matches

LEMMA CompleteLemma ==
    ASSUME NEW table \in Table, NEW a
    PROVE  LET new == Complete(table, a)
           IN  /\ new \in Table
               /\ \A s \in Slots : /\ new[s].address = table[s].address
                                   /\ new[s].op \in {table[s].op, "COMPLETED"}
<1>1. CASE ~memory_status(table, a)
  BY <1>1 DEF Complete
<1>2. CASE memory_status(table, a)
  <2> DEFINE k == First(Matches(table, a))
  <2>1. k \in Slots
    BY <1>2, FirstMatch
  <2>2. Complete(table, a) = [table EXCEPT ![k].op = "COMPLETED"]
    BY <1>2 DEF Complete
  <2> HIDE DEF k
  <2>3. \A s \in Slots :
          Complete(table, a)[s] = IF s = k THEN [table[k] EXCEPT !.op = "COMPLETED"]
                                           ELSE table[s]
    BY <2>1, <2>2 DEF Table
  <2>4. \A s \in Slots : table[s] \in Entry
    BY DEF Table
  <2>5. [table[k] EXCEPT !.op = "COMPLETED"] \in Entry
    BY <2>1, <2>4 DEF Entry
  <2>6. Complete(table, a) \in Table
    <3>1. Complete(table, a) = [s \in Slots |-> Complete(table, a)[s]]
      BY <2>2 DEF Table
    <3>2. \A s \in Slots : Complete(table, a)[s] \in Entry
      BY <2>3, <2>4, <2>5
    <3>3. QED BY <3>1, <3>2 DEF Table
  <2>7. \A s \in Slots : /\ Complete(table, a)[s].address = table[s].address
                         /\ Complete(table, a)[s].op \in {table[s].op, "COMPLETED"}
    BY <2>3, <2>4 DEF Entry
  <2>8. QED BY <2>6, <2>7
<1>3. QED BY <1>1, <1>2

\* The end of a cycle leaves no access completed.
LEMMA RetireLemma ==
    ASSUME NEW e \in Entry
    PROVE  /\ Retire(e) \in Entry
           /\ Retire(e).op # "COMPLETED"
<1>1. CASE e.op \in {"NONE", "COMPLETED"}
  BY <1>1 DEF Retire, FreeEntry, Entry
<1>2. CASE e.op \notin {"NONE", "COMPLETED"}
  <2> DEFINE d == IF e.due > 0 THEN e.due - 1 ELSE -1
  <2>1. Retire(e) = [e EXCEPT !.due = d]
    BY <1>2 DEF Retire
  <2>2. d \in Latencies \cup {-1}
    BY MemoryAssumption DEF Entry, Latencies
  <2> HIDE DEF d
  <2>3. QED BY <1>2, <2>1, <2>2 DEF Entry
<1>3. QED BY <1>1, <1>2

LEMMA CacheTypes ==
    CacheInv => /\ icache \in [ILines -> Nat \cup {Nothing, Garbage}]
                /\ dcache \in [DLines -> Nat \cup {Nothing, Garbage}]
                /\ memory_pending \in Table
                /\ spoilt \in SUBSET ILines /\ TrueLines(icache, spoilt)
                /\ pc \in FetchWords /\ pc \in Nat
                /\ cur_memory \in Nat /\ new_memory \in Nat
                /\ CodeWords \subseteq FetchWords /\ FetchWords \subseteq Nat
                /\ DataAddresses \subseteq Nat /\ Words \subseteq Nat
                /\ ReadLatency \in Latencies /\ WriteLatency \in Latencies
BY MemoryAssumption
   DEF CacheInv, TypeOK, LinesGood, ILines, DLines, Table, Words, FetchWords, Latencies

-----------------------------------------------------------------------------
(* The polls of F.                                                         *)

\* The first poll leaves the lines as they should be, and invalidates none.
LEMMA PollILemma ==
    ASSUME CacheInv
    PROVE  /\ PollI \in [ILines -> Nat \cup {Nothing, Garbage}]
           /\ SpoiltByPoll \in SUBSET ILines
           /\ TrueLines(PollI, SpoiltByPoll)
           /\ memory_status(memory_pending, InstructionBlock(pc)) => PollI[ILine(pc)] # Nothing
           /\ \A l \in ILines : icache[l] # Nothing => PollI[l] # Nothing
<1> DEFINE b == InstructionBlock(pc)
           read == memory_pending[First(Matches(memory_pending, b))].op = "READ"
           right == InReach(pc) /\ read
           v == Delivered(memory_pending, b)
<1>1. /\ pc \in Nat /\ b \in Nat /\ ILine(pc) \in Nat /\ spoilt \in SUBSET ILines
      /\ icache \in [ILines -> Nat \cup {Nothing, Garbage}] /\ TrueLines(icache, spoilt)
  BY CacheTypes, BlockTypes
<1>2. v = IF read THEN b ELSE Garbage
  BY DEF Delivered
<1>3. InReach(pc) <=> b = 16 * ILine(pc)
  BY <1>1, ReachedBlock
<1>4. CASE memory_status(memory_pending, b)
  <2>1. PollI = [icache EXCEPT ![ILine(pc)] = v] /\ SpoiltByPoll = Marked(spoilt, pc, right)
    BY <1>4 DEF PollI, SpoiltByPoll
  <2> HIDE DEF v, b, read
  <2>2. v \in Nat \cup {Garbage} /\ right \in BOOLEAN
    BY <1>1, <1>2
  <2>3. 16 * ILine(pc) # Garbage
    BY <1>1, MemoryAssumption
  <2>4. right <=> v = 16 * ILine(pc)
    BY <1>2, <1>3, <2>3
  <2> DEFINE new == [icache EXCEPT ![ILine(pc)] = v]
  <2>5. /\ new \in [ILines -> Nat \cup {Nothing, Garbage}]
        /\ Marked(spoilt, pc, right) \in SUBSET ILines
        /\ TrueLines(new, Marked(spoilt, pc, right))
        /\ new[ILine(pc)] # Nothing
        /\ \A l \in ILines : icache[l] # Nothing => new[l] # Nothing
    <3>1. right \in BOOLEAN /\ (right <=> v = 16 * ILine(pc))
      BY <2>2, <2>4
    <3> HIDE DEF right
    <3>2. QED BY <1>1, <2>2, <3>1, LineFilled, ZenonT(60)
  <2> HIDE DEF new
  <2>6. PollI = new
    BY <2>1 DEF new
  <2>7. QED BY <2>1, <2>5, <2>6
<1>5. CASE ~memory_status(memory_pending, b)
  BY <1>1, <1>5 DEF PollI, SpoiltByPoll
<1>6. QED BY <1>4, <1>5

LEMMA PollDType ==
    CacheInv => PollD \in [DLines -> Nat \cup {Nothing, Garbage}]
<1> SUFFICES ASSUME CacheInv
             PROVE  PollD \in [DLines -> Nat \cup {Nothing, Garbage}]
  OBVIOUS
<1>1. cur_memory \in Nat /\ dcache \in [DLines -> Nat \cup {Nothing, Garbage}]
  BY DEF CacheInv, TypeOK, DLines
<1>2. DataBlock(cur_memory) \in Nat /\ DLine(cur_memory) \in DLines
  BY <1>1, BlockTypes DEF DLines
<1>3. \A table : Delivered(table, DataBlock(cur_memory)) \in Nat \cup {Garbage}
  BY <1>2 DEF Delivered
<1>4. QED BY <1>1, <1>2, <1>3 DEF PollD

LEMMA PolledLemma == CacheInv => Polled \in Table
<1> SUFFICES ASSUME CacheInv
             PROVE  Polled \in Table
  OBVIOUS
<1>1. Complete(memory_pending, InstructionBlock(pc)) \in Table
  BY CacheTypes, CompleteLemma
<1>2. QED BY <1>1, CompleteLemma DEF Polled

-----------------------------------------------------------------------------
(* The invariant.                                                          *)

\* What it takes for a step to keep the invariant.
LEMMA Preserved ==
    ASSUME icache' \in [ILines -> Nat \cup {Nothing, Garbage}],
           dcache' \in [DLines -> Nat \cup {Nothing, Garbage}],
           memory_pending' \in Table,
           spoilt' \in SUBSET ILines, TrueLines(icache', spoilt'),
           pc' \in FetchWords, cur_memory' \in Nat, new_memory' \in Nat,
           phase' \in {"M", "F", "L"},
           \A s \in Slots : memory_pending'[s].op = "COMPLETED" => phase' = "L"
    PROVE  CacheInv'
BY DEF CacheInv, TypeOK, LinesGood, TrueLines, PendingGood, ILines, DLines, Table

LEMMA FreeTable ==
    [s \in Slots |-> FreeEntry] \in Table
BY MemoryAssumption DEF Table, FreeEntry, Entry

LEMMA InitCache == Init => CacheInv
<1> SUFFICES ASSUME Init
             PROVE  CacheInv
  OBVIOUS
<1>1. TypeOK
  BY FreeTable, MemoryAssumption DEF Init, TypeOK, Table, Words, FetchWords
<1>2. LinesGood /\ PendingGood
  BY DEF Init, LinesGood, TrueLines, ILines, PendingGood, FreeEntry
<1>3. QED BY <1>1, <1>2 DEF CacheInv

LEMMA StageMemoryStep == CacheInv /\ StageMemory => CacheInv'
<1> SUFFICES ASSUME CacheInv, StageMemory
             PROVE  CacheInv'
  OBVIOUS
<1> DEFINE Good ==
             /\ dcache' \in [DLines -> Nat \cup {Nothing, Garbage}]
             /\ memory_pending' \in Table
             /\ new_memory' \in Nat
             /\ \A s \in Slots : memory_pending'[s].op # "COMPLETED"
<1>1. EnterM
  BY DEF StageMemory, NoAccess, LoadHit, LoadMiss, Store
<1>2. /\ phase = "M" /\ phase' = "F" /\ spoilt' = spoilt
      /\ icache' = icache /\ pc' = pc /\ cur_memory' = cur_memory
  BY <1>1 DEF EnterM
<1>3. \A s \in Slots : memory_pending[s].op # "COMPLETED"
  BY <1>2 DEF CacheInv, PendingGood
<1>4. Good
  <2>1. CASE NoAccess
    BY <1>3, <2>1, CacheTypes DEF NoAccess
  <2>2. ASSUME NEW a \in DataAddresses, LoadHit(a)
        PROVE  Good
    BY <1>3, <2>2, CacheTypes DEF LoadHit
  <2>3. ASSUME NEW a \in DataAddresses, LoadMiss(a)
        PROVE  Good
    <3>1. a \in Nat /\ DataBlock(a) \in Nat /\ DLine(a) \in DLines
      BY BlockTypes, CacheTypes DEF DLines
    <3>2. /\ memory_pending' = memory_read(memory_pending, DataBlock(a))
          /\ new_memory' = new_memory
      BY <2>3 DEF LoadMiss
    <3>3. /\ memory_pending' \in Table
          /\ \A s \in Slots : \/ memory_pending'[s] = memory_pending[s]
                              \/ memory_pending'[s].op = "READ"
      BY <3>1, <3>2, ReadLemma, CacheTypes
    <3>4. ValueRead(DataBlock(a)) \in Nat \cup {Garbage}
      BY <3>1 DEF ValueRead
    <3>5. dcache' \in [DLines -> Nat \cup {Nothing, Garbage}]
      BY <2>3, <3>1, <3>4, CacheTypes DEF LoadMiss
    <3>6. QED BY <1>3, <3>2, <3>3, <3>5, CacheTypes
  <2>4. ASSUME NEW a \in DataAddresses, NEW n \in Sizes, Store(a, n)
        PROVE  Good
    <3>1. a \in Nat /\ new_memory' = a /\ dcache' = dcache
      BY <2>4, CacheTypes DEF Store
    <3>2. /\ memory_pending' \in Table
          /\ \A s \in Slots : \/ memory_pending'[s] = memory_pending[s]
                              \/ memory_pending'[s].op = "WRITE"
      BY <2>4, <3>1, WriteLemma, CacheTypes DEF Store
    <3>3. QED BY <1>3, <3>1, <3>2, CacheTypes
  <2>5. QED BY <2>1, <2>2, <2>3, <2>4 DEF StageMemory
<1>5. QED BY <1>2, <1>4, CacheTypes, Preserved

\* The fetch fills a line with the block it asked for or, where that is not in
\* memory, with nothing at all; it marks the line accordingly, and invalidates none.
LEMMA FetchLemma ==
    ASSUME CacheInv, NEW f \in Nat, FetchHit(f) \/ FetchMiss(f)
    PROVE  /\ icache' \in [ILines -> Nat \cup {Nothing, Garbage}]
           /\ spoilt' \in SUBSET ILines
           /\ TrueLines(icache', spoilt')
           /\ \A l \in ILines : PollI[l] # Nothing => icache'[l] # Nothing
           /\ FetchMiss(f) /\ Answered(InstructionBlock(f)) => icache'[ILine(f)] # Nothing
<1> DEFINE b == InstructionBlock(f)
<1>1. /\ PollI \in [ILines -> Nat \cup {Nothing, Garbage}]
      /\ SpoiltByPoll \in SUBSET ILines
      /\ TrueLines(PollI, SpoiltByPoll)
  BY PollILemma
<1>2. b \in Nat /\ ILine(f) \in Nat
  BY BlockTypes
<1>3. ~FetchMiss(f) \/ ~FetchHit(f)
  BY DEF FetchMiss, FetchHit
<1>4. CASE FetchMiss(f) /\ Answered(b)
  <2>1. /\ icache' = [PollI EXCEPT ![ILine(f)] = ValueRead(b)]
        /\ spoilt' = Marked(SpoiltByPoll, f, InReach(f))
    BY <1>4 DEF FetchMiss
  <2>2. ValueRead(b) \in Nat \cup {Garbage} /\ InReach(f) \in BOOLEAN
    BY <1>2 DEF ValueRead, InReach
  <2>3. InReach(f) <=> ValueRead(b) = 16 * ILine(f)
    <3>1. 16 * ILine(f) # Garbage
      BY <1>2, MemoryAssumption
    <3>2. QED BY <3>1, ReachedBlock DEF ValueRead
  <2>4. QED BY <1>1, <2>1, <2>2, <2>3, LineFilled
<1>5. CASE FetchHit(f)
  BY <1>1, <1>3, <1>5 DEF FetchHit
<1>6. CASE FetchMiss(f) /\ ~Answered(b)
  BY <1>1, <1>6 DEF FetchMiss
<1>7. QED BY <1>4, <1>5, <1>6

LEMMA StageFetchStep == CacheInv /\ StageFetch => CacheInv'
<1> SUFFICES ASSUME CacheInv, StageFetch
             PROVE  CacheInv'
  OBVIOUS
<1>1. PICK f \in FetchAddresses : FetchHit(f) \/ FetchMiss(f)
  BY DEF StageFetch
<1>2. f \in Nat
  BY CacheTypes DEF FetchAddresses
<1>3. EnterF /\ phase = "F" /\ phase' = "L"
  BY <1>1 DEF FetchHit, FetchMiss, EnterF
<1>4. /\ dcache' \in [DLines -> Nat \cup {Nothing, Garbage}]
      /\ cur_memory' = cur_memory /\ new_memory' = new_memory
  BY <1>3, PollDType DEF EnterF
<1>5. pc' \in FetchWords
  BY <1>1 DEF FetchHit, FetchMiss
<1>6. memory_pending' \in Table
  <2>1. Polled \in Table /\ InstructionBlock(f) \in Nat
    BY <1>2, PolledLemma, BlockTypes
  <2>2. QED BY <1>1, <2>1, ReadLemma DEF FetchHit, FetchMiss
<1>7. QED BY <1>1, <1>2, <1>3, <1>4, <1>5, <1>6, CacheTypes, FetchLemma, Preserved

LEMMA LatchStep == CacheInv /\ Latch => CacheInv'
<1> SUFFICES ASSUME CacheInv, Latch
             PROVE  CacheInv'
  OBVIOUS
<1>1. \A s \in Slots : Retire(memory_pending[s]) \in Entry
                       /\ Retire(memory_pending[s]).op # "COMPLETED"
  BY RetireLemma DEF CacheInv, TypeOK
<1>2. memory_pending' = [s \in Slots |-> Retire(memory_pending[s])]
  BY DEF Latch
<1>3. /\ memory_pending' \in Table
      /\ \A s \in Slots : memory_pending'[s].op # "COMPLETED"
  BY <1>1, <1>2 DEF Table
<1>4. QED BY <1>3, CacheTypes, Preserved DEF Latch

LEMMA BetweenRunsStep == CacheInv /\ (NewRun \/ Initialize) => CacheInv'
<1> SUFFICES ASSUME CacheInv, NewRun \/ Initialize
             PROVE  CacheInv'
  OBVIOUS
<1>1. phase = "M" /\ phase' = "M"
  BY DEF NewRun, Initialize
<1>2. \A s \in Slots : memory_pending[s].op # "COMPLETED"
  BY <1>1 DEF CacheInv, PendingGood
<1>3. CASE NewRun
  BY <1>1, <1>2, <1>3, CacheTypes, Preserved DEF NewRun
<1>4. CASE Initialize
  <2>1. \A s \in Slots : memory_pending'[s].op = "NONE"
    BY <1>4 DEF Initialize, FreeEntry
  <2>2. QED BY <1>1, <1>4, <2>1, FreeTable, CacheTypes, Preserved DEF Initialize
<1>5. QED BY <1>3, <1>4

LEMMA CacheStep == CacheInv /\ [Next]_vars => CacheInv'
<1>1. CacheInv /\ UNCHANGED vars => CacheInv'
  BY DEF CacheInv, vars, TypeOK, LinesGood, TrueLines, PendingGood
<1>2. QED BY <1>1, StageMemoryStep, StageFetchStep, LatchStep, BetweenRunsStep DEF Next

LEMMA CacheInvariant == Spec => []CacheInv
<1>1. QED BY InitCache, CacheStep, PTL DEF Spec

\* The table, the caches and the polled addresses keep their types, for every
\* table size, cache size and latency (riscv_sim_pipeline_framework.c, cache.c).
THEOREM MemoryTypeCorrect == Spec => []TypeOK
<1>1. CacheInv => TypeOK
  BY DEF CacheInv
<1>2. QED BY <1>1, CacheInvariant, PTL

\* A hit in the instruction cache delivers the word asked for if and only if F has
\* not spoilt the line, wherever code, data and stray fetches are (update_i_cache,
\* instruction_fetch_stage, copy_i_cache).
THEOREM HitsAreTrue == Spec => []InstructionHitIsTrue
<1>1. CacheInv => InstructionHitIsTrue
  <2> SUFFICES ASSUME CacheInv, NEW a \in CodeWords, found_i_cache(a)
               PROVE  icache[ILine(a)] = InstructionBlock(a) <=> ILine(a) \notin spoilt
    BY DEF InstructionHitIsTrue
  <2>1. a \in Nat
    BY CacheTypes
  <2>2. icache[ILine(a)] # Nothing /\ ILine(a) \in ILines
    BY <2>1, BlockTypes DEF found_i_cache, ILines
  <2>3. InstructionBlock(a) = 16 * ILine(a)
    BY <2>1, ReachedBlock DEF found_i_cache
  <2>4. QED BY <2>2, <2>3, CacheTypes DEF TrueLines
<1>2. QED BY <1>1, CacheInvariant, PTL

\* No step makes a line of the instruction cache invalid again.
LEMMA LinesStayValid ==
    ASSUME CacheInv, Next, NEW l \in ILines, icache[l] # Nothing
    PROVE  icache'[l] # Nothing
<1>1. CASE StageFetch
  <2>1. PICK f \in FetchAddresses : FetchHit(f) \/ FetchMiss(f)
    BY <1>1 DEF StageFetch
  <2>2. f \in Nat
    BY CacheTypes DEF FetchAddresses
  <2>3. QED BY <2>1, <2>2, PollILemma, FetchLemma
<1>2. CASE ~StageFetch
  BY <1>2 DEF Next, StageMemory, NoAccess, LoadHit, LoadMiss, Store, EnterM, Latch,
              NewRun, Initialize
<1>3. QED BY <1>1, <1>2

\* A word that was fetched stays in the instruction cache, with its bytes, across
\* runs, polls, stores and the command initialize until F spoils its line: what
\* lets Pipeline.tla model the cache as a growing set of blocks (copy_i_cache).
THEOREM NeverEvicted == Spec => ResidentStays
<1> DEFINE Keeps == \A a \in CodeWords :
                      HoldsBlock(a) => HoldsBlock(a)' \/ ILine(a) \in spoilt' \ spoilt
<1>1. CacheInv /\ CacheInv' /\ Next => Keeps
  <2> SUFFICES ASSUME CacheInv, CacheInv', Next, NEW a \in CodeWords, HoldsBlock(a)
               PROVE  HoldsBlock(a)' \/ ILine(a) \in spoilt' \ spoilt
    OBVIOUS
  <2>1. a \in Nat /\ ILine(a) \in ILines
    BY CacheTypes, BlockTypes DEF ILines
  <2>2. /\ icache[ILine(a)] # Nothing /\ InReach(a)
        /\ icache[ILine(a)] = InstructionBlock(a)
    BY DEF HoldsBlock, found_i_cache
  <2>3. InstructionBlock(a) = 16 * ILine(a)
    BY <2>1, <2>2, ReachedBlock
  <2>4. ILine(a) \notin spoilt
    BY <2>1, <2>2, <2>3, CacheTypes DEF TrueLines
  <2>5. icache'[ILine(a)] # Nothing
    BY <2>1, <2>2, LinesStayValid
  <2>6. TrueLines(icache', spoilt')
    BY DEF CacheInv, LinesGood, TrueLines
  <2>7. icache'[ILine(a)] = InstructionBlock(a) \/ ILine(a) \in spoilt'
    BY <2>1, <2>3, <2>5, <2>6 DEF TrueLines
  <2>8. QED BY <2>2, <2>4, <2>5, <2>7 DEF HoldsBlock, found_i_cache, InReach, ILine, InstructionBlock
<1>2. CacheInv /\ [Next]_vars => CacheInv'
  BY CacheStep
<1>3. CacheInv /\ [Next]_vars => [Keeps]_vars
  BY <1>1, <1>2
<1>4. QED BY <1>3, CacheInvariant, PTL DEF Spec, ResidentStays

-----------------------------------------------------------------------------
(* Who is answered next: the first entry of a block, and what the          *)
(* operations on the table do to it.                                       *)

Ahead(table, b) == First(Matches(table, b))

\* The first entry of the block is still to be answered.
Open(table, b) ==
    /\ Matches(table, b) # {}
    /\ table[Ahead(table, b)].op # "COMPLETED"

\* The request stays where it is, or a fresh one in a lower slot takes its place.
Kept(old, new, b) ==
    /\ Open(new, b)
    /\ \/ Ahead(new, b) = Ahead(old, b) /\ new[Ahead(new, b)] = old[Ahead(old, b)]
       \/ Ahead(new, b) < Ahead(old, b) /\ new[Ahead(new, b)].due > 0

LEMMA FirstIsLeast ==
    ASSUME NEW S \in SUBSET Slots, S # {}
    PROVE  First(S) \in S /\ \A t \in S : First(S) <= t
<1>1. S \in SUBSET Nat
  BY MemoryAssumption DEF Slots
<1>2. \E s \in S : \A t \in S : s <= t
  BY <1>1, LeastElementExists
<1>3. QED BY <1>2 DEF First

LEMMA AheadIs ==
    ASSUME NEW table \in Table, NEW b, Matches(table, b) # {}
    PROVE  LET s == Ahead(table, b)
           IN  /\ s \in Slots /\ s \in Nat /\ table[s].address = b /\ table[s].op # "NONE"
               /\ table[s] \in Entry
               /\ \A t \in Slots : table[t].address = b /\ table[t].op # "NONE" => s <= t
<1>1. Matches(table, b) \in SUBSET Slots
  BY DEF Matches
<1>2. Ahead(table, b) \in Matches(table, b) /\ \A t \in Matches(table, b) : Ahead(table, b) <= t
  BY <1>1, FirstIsLeast DEF Ahead
<1>3. QED BY <1>2, MemoryAssumption DEF Matches, Slots, Table

LEMMA AddKeeps ==
    ASSUME NEW table \in Table, NEW b, Open(table, b),
           NEW a \in Nat, NEW op \in {"READ", "WRITE"}, NEW n \in Latencies, n > 0
    PROVE  Kept(table, memory_add_pending(table, a, op, n), b)
<1> DEFINE new == memory_add_pending(table, a, op, n)
           s == Ahead(table, b)
           t == Ahead(new, b)
           u == First(Usable(table))
           e == [address |-> a, op |-> op, due |-> n]
<1>1. /\ s \in Slots /\ s \in Nat /\ table[s].address = b
      /\ table[s].op \notin {"NONE", "COMPLETED"}
      /\ \A x \in Slots : table[x].address = b /\ table[x].op # "NONE" => s <= x
  BY AheadIs DEF Open
<1>2. CASE Usable(table) = {}
  <2>1. new = table
    BY <1>2 DEF memory_add_pending
  <2>2. QED BY <2>1 DEF Kept
<1>3. CASE Usable(table) # {}
  <2>1. u \in Slots /\ table[u].op \in {"NONE", "COMPLETED"}
    BY <1>3, FirstIn DEF Usable
  <2>2. new = [table EXCEPT ![u] = e] /\ new \in Table
    BY <1>3, AddPending DEF memory_add_pending
  <2>3. \A x \in Slots : new[x] = IF x = u THEN e ELSE table[x]
    BY <2>2 DEF Table
  <2> HIDE DEF new, u, s
  <2>4. s # u /\ new[s] = table[s]
    BY <1>1, <2>1, <2>3
  <2>5. Matches(new, b) # {}
    BY <1>1, <2>4 DEF Matches
  <2>6. /\ t \in Slots /\ t \in Nat /\ new[t].address = b /\ new[t].op # "NONE"
        /\ \A x \in Slots : new[x].address = b /\ new[x].op # "NONE" => t <= x
    BY <2>2, <2>5, AheadIs
  <2> HIDE DEF t
  <2>7. t <= s
    BY <1>1, <2>4, <2>6
  <2>8. CASE t = u
    <3>1. t < s /\ new[t] = e
      BY <1>1, <2>1, <2>3, <2>4, <2>6, <2>7, <2>8
    <3>2. QED BY <2>5, <3>1 DEF Kept, Open, new, s, t
  <2>9. CASE t # u
    <3>1. new[t] = table[t]
      BY <2>3, <2>6, <2>9
    <3>2. s <= t
      BY <1>1, <2>6, <3>1
    <3>3. t = s
      BY <1>1, <2>6, <2>7, <3>2
    <3>4. QED BY <1>1, <2>4, <2>5, <3>3 DEF Kept, Open, new, s, t
  <2>10. QED BY <2>8, <2>9
<1>4. QED BY <1>2, <1>3

LEMMA ReadKeeps ==
    ASSUME NEW table \in Table, NEW b, Open(table, b), NEW a \in Nat
    PROVE  Kept(table, memory_read(table, a), b)
<1>1. CASE Answered(a)
  BY <1>1 DEF memory_read, Kept
<1>2. CASE ~Answered(a)
  <2>1. ReadLatency > 0 /\ ReadLatency \in Latencies
    BY <1>2, MemoryAssumption DEF Answered, Latencies
  <2>2. QED BY <1>2, <2>1, AddKeeps DEF memory_read
<1>3. QED BY <1>1, <1>2

LEMMA WriteKeeps ==
    ASSUME NEW table \in Table, NEW b, Open(table, b), NEW a \in Nat, NEW n
    PROVE  Kept(table, memory_write(table, a, n), b)
<1>1. CASE WriteLatency = 0 \/ NotWritten(a, n)
  BY <1>1 DEF memory_write, Kept
<1>2. CASE ~(WriteLatency = 0 \/ NotWritten(a, n))
  <2>1. WriteLatency > 0 /\ WriteLatency \in Latencies
    BY <1>2, MemoryAssumption DEF Latencies
  <2>2. QED BY <1>2, <2>1, AddKeeps DEF memory_write
<1>3. QED BY <1>1, <1>2

\* A poll answers entries that are due, and moves none.
LEMMA CompleteKeeps ==
    ASSUME NEW table \in Table, NEW a
    PROVE  LET new == Complete(table, a)
           IN  /\ new \in Table
               /\ \A b : Matches(new, b) = Matches(table, b)
               /\ \A s \in Slots : new[s].due = table[s].due
               /\ \A s \in Slots : table[s].due # 0 => new[s] = table[s]
               /\ \A s \in Slots : new[s].op \in {table[s].op, "COMPLETED"}
<1> DEFINE new == Complete(table, a)
<1>1. /\ new \in Table
      /\ \A s \in Slots : /\ new[s].address = table[s].address
                          /\ new[s].op \in {table[s].op, "COMPLETED"}
  BY CompleteLemma
<1>2. CASE ~memory_status(table, a)
  BY <1>2 DEF Complete
<1>3. CASE memory_status(table, a)
  <2> DEFINE k == First(Matches(table, a))
  <2>1. k \in Slots /\ table[k].op # "NONE"
    BY <1>3, FirstMatch
  <2>2. table[k].due = 0
    BY <1>3 DEF memory_status
  <2>3. new = [table EXCEPT ![k].op = "COMPLETED"]
    BY <1>3 DEF Complete
  <2> HIDE DEF new, k
  <2>4. \A s \in Slots :
          new[s] = IF s = k THEN [table[k] EXCEPT !.op = "COMPLETED"] ELSE table[s]
    BY <2>1, <2>3 DEF Table
  <2>5. table[k] \in Entry
    BY <2>1 DEF Table
  <2>6. \A s \in Slots : new[s].due = table[s].due
    BY <2>4, <2>5 DEF Entry
  <2>7. \A s \in Slots : table[s].due # 0 => new[s] = table[s]
    BY <2>2, <2>4
  <2>8. \A s \in Slots : new[s].op # "NONE" <=> table[s].op # "NONE"
    BY <2>1, <2>4, <2>5 DEF Entry
  <2>9. \A b : Matches(new, b) = Matches(table, b)
    BY <1>1, <2>8 DEF Matches
  <2>10. QED BY <1>1, <2>6, <2>7, <2>9 DEF new
<1>4. QED BY <1>2, <1>3

\* An entry that is not due yet is the same after both polls.
LEMMA PolledKeeps ==
    ASSUME NEW b, memory_pending \in Table, Open(memory_pending, b),
           memory_pending[Ahead(memory_pending, b)].due # 0
    PROVE  /\ Polled \in Table /\ Open(Polled, b)
           /\ Ahead(Polled, b) = Ahead(memory_pending, b)
           /\ Polled[Ahead(Polled, b)] = memory_pending[Ahead(memory_pending, b)]
<1> DEFINE t == Complete(memory_pending, InstructionBlock(pc))
           s == Ahead(memory_pending, b)
<1>1. s \in Slots
  BY AheadIs DEF Open
<1>2. t \in Table /\ Matches(t, b) = Matches(memory_pending, b) /\ t[s] = memory_pending[s]
  BY <1>1, CompleteKeeps
<1> HIDE DEF t, s
<1>3. Polled = Complete(t, DataBlock(cur_memory))
  BY DEF Polled, t
<1>4. /\ Polled \in Table /\ Matches(Polled, b) = Matches(memory_pending, b)
      /\ Polled[s] = memory_pending[s]
  BY <1>1, <1>2, <1>3, CompleteKeeps DEF s
<1>5. QED BY <1>4 DEF Open, Ahead, s

\* The end of the cycle.
LEMMA RetireKeeps ==
    ASSUME NEW table \in Table, NEW b, Open(table, b), table[Ahead(table, b)].due > 0
    PROVE  LET new == [s \in Slots |-> Retire(table[s])]
           IN  /\ Open(new, b)
               /\ Ahead(new, b) = Ahead(table, b)
               /\ new[Ahead(table, b)].due = table[Ahead(table, b)].due - 1
<1> DEFINE new == [s \in Slots |-> Retire(table[s])]
           s == Ahead(table, b)
<1>1. /\ s \in Slots /\ s \in Nat /\ table[s].address = b /\ table[s] \in Entry
      /\ table[s].op \notin {"NONE", "COMPLETED"}
      /\ \A x \in Slots : table[x].address = b /\ table[x].op # "NONE" => s <= x
  BY AheadIs DEF Open
<1>2. \A x \in Slots : table[x] \in Entry
  BY DEF Table
<1>3. \A x \in Slots : new[x] = Retire(table[x]) /\ new[x] \in Entry
  BY <1>2, RetireLemma
<1>4. new \in Table
  BY <1>3 DEF Table
<1>5. new[s] = [table[s] EXCEPT !.due = table[s].due - 1]
  BY <1>1, <1>3 DEF Retire
<1> HIDE DEF new, s
<1>6. /\ new[s].address = b /\ new[s].op \notin {"NONE", "COMPLETED"}
      /\ new[s].due = table[s].due - 1
  BY <1>1, <1>5 DEF Entry
<1>7. ASSUME NEW x \in Slots, new[x].op # "NONE"
      PROVE  table[x].op # "NONE" /\ new[x].address = table[x].address
  <2>1. new[x] = Retire(table[x]) /\ table[x] \in Entry
    BY <1>2, <1>3
  <2>2. table[x].op \notin {"NONE", "COMPLETED"}
    BY <1>7, <2>1 DEF Retire, FreeEntry
  <2>3. QED BY <2>1, <2>2 DEF Retire, Entry
<1>8. Matches(new, b) # {}
  BY <1>1, <1>6 DEF Matches
<1> DEFINE t == Ahead(new, b)
<1>9. /\ t \in Slots /\ t \in Nat /\ new[t].address = b /\ new[t].op # "NONE"
      /\ \A x \in Slots : new[x].address = b /\ new[x].op # "NONE" => t <= x
  BY <1>4, <1>8, AheadIs
<1> HIDE DEF t
<1>10. t <= s /\ s <= t
  BY <1>1, <1>6, <1>7, <1>9
<1>11. t = s
  BY <1>1, <1>9, <1>10
<1>12. QED BY <1>6, <1>8, <1>11 DEF Open, new, s, t

\* UnderWay and ComesNearer in these terms.
LEMMA InTheseTerms ==
    ASSUME NEW b, CacheInv
    PROVE  /\ UnderWay(b) <=> /\ Open(memory_pending, b)
                              /\ memory_pending[Ahead(memory_pending, b)].due
                                   >= IF phase = "L" THEN 1 ELSE 0
           /\ UnderWay(b)' <=> /\ Open(memory_pending', b)
                               /\ memory_pending'[Ahead(memory_pending', b)].due
                                    >= IF phase' = "L" THEN 1 ELSE 0
           /\ ComesNearer(b) <=>
                \/ Ahead(memory_pending', b) < Ahead(memory_pending, b)
                \/ /\ Ahead(memory_pending', b) = Ahead(memory_pending, b)
                   /\ memory_pending'[Ahead(memory_pending, b)].due =
                        memory_pending[Ahead(memory_pending, b)].due
                          - IF phase = "L" THEN 1 ELSE 0
BY DEF UnderWay, ComesNearer, Open, Ahead

\* A table that only kept the request of b brought it no further away.
LEMMA KeptIsNearer ==
    ASSUME NEW b, CacheInv, CacheInv', Open(memory_pending, b),
           Kept(memory_pending, memory_pending', b), phase \in {"M", "F"},
           memory_pending[Ahead(memory_pending, b)].due
             >= IF phase' = "L" THEN 1 ELSE 0
    PROVE  UnderWay(b)' /\ ComesNearer(b)
<1> DEFINE s == Ahead(memory_pending, b)
           t == Ahead(memory_pending', b)
<1>1. /\ s \in Slots /\ s \in Nat /\ memory_pending[s] \in Entry
  BY AheadIs, CacheTypes DEF Open
<1>2. Open(memory_pending', b)
  BY DEF Kept
<1>3. t \in Slots /\ t \in Nat /\ memory_pending'[t] \in Entry
  BY <1>2, AheadIs, CacheTypes DEF CacheInv, TypeOK, Table, Open
<1>4. memory_pending[s].due \in Int /\ memory_pending'[t].due \in Int
  BY <1>1, <1>3, MemoryAssumption DEF Entry, Latencies
<1>5. \/ t = s /\ memory_pending'[t] = memory_pending[s]
      \/ t < s /\ memory_pending'[t].due > 0
  BY DEF Kept
<1> HIDE DEF s, t
<1>6. memory_pending'[t].due >= IF phase' = "L" THEN 1 ELSE 0
  BY <1>4, <1>5 DEF s
<1>7. \/ t < s
      \/ t = s /\ memory_pending'[s].due = memory_pending[s].due - IF phase = "L" THEN 1 ELSE 0
  BY <1>4, <1>5
<1>8. QED BY <1>2, <1>6, <1>7, InTheseTerms DEF s, t

\* M requests at most one access.
LEMMA MemoryKeeps ==
    ASSUME NEW b, CacheInv, CacheInv', StageMemory, UnderWay(b)
    PROVE  UnderWay(b)' /\ ComesNearer(b)
<1>1. phase = "M" /\ phase' = "F"
  BY DEF StageMemory, NoAccess, LoadHit, LoadMiss, Store, EnterM
<1>2. /\ Open(memory_pending, b)
      /\ memory_pending[Ahead(memory_pending, b)].due >= 0
  BY <1>1, InTheseTerms
<1>3. Kept(memory_pending, memory_pending', b)
  <2>1. CASE memory_pending' = memory_pending
    BY <1>2, <2>1 DEF Kept
  <2>2. ASSUME NEW a \in DataAddresses, LoadMiss(a)
        PROVE  Kept(memory_pending, memory_pending', b)
    <3>1. DataBlock(a) \in Nat
      BY BlockTypes, CacheTypes
    <3>2. QED BY <1>2, <2>2, <3>1, ReadKeeps, CacheTypes DEF LoadMiss
  <2>3. ASSUME NEW a \in DataAddresses, NEW n \in Sizes, Store(a, n)
        PROVE  Kept(memory_pending, memory_pending', b)
    BY <1>2, <2>3, WriteKeeps, CacheTypes DEF Store
  <2>4. QED BY <2>1, <2>2, <2>3 DEF StageMemory, NoAccess, LoadHit
<1>4. QED BY <1>1, <1>2, <1>3, KeptIsNearer

\* The polls and the fetch leave a request that is not due in its place.
LEMMA FetchKeeps ==
    ASSUME NEW b, CacheInv, CacheInv', StageFetch, UnderWay(b),
           memory_pending[Ahead(memory_pending, b)].due # 0
    PROVE  UnderWay(b)' /\ ComesNearer(b)
<1>1. PICK f \in FetchAddresses : FetchHit(f) \/ FetchMiss(f)
  BY DEF StageFetch
<1>2. phase = "F" /\ phase' = "L" /\ InstructionBlock(f) \in Nat
  <2>1. f \in Nat
    BY CacheTypes DEF FetchAddresses
  <2>2. QED BY <1>1, <2>1, BlockTypes DEF FetchHit, FetchMiss, EnterF
<1>3. /\ Open(memory_pending, b)
      /\ memory_pending[Ahead(memory_pending, b)].due >= 0
  BY <1>2, InTheseTerms
<1>4. memory_pending[Ahead(memory_pending, b)].due >= 1
  <2>1. memory_pending[Ahead(memory_pending, b)] \in Entry
    BY <1>3, AheadIs, CacheTypes DEF Open
  <2>2. memory_pending[Ahead(memory_pending, b)].due \in Int
    BY <2>1, MemoryAssumption DEF Entry, Latencies
  <2>3. QED BY <1>3, <2>2
<1>5. /\ Polled \in Table /\ Open(Polled, b)
      /\ Ahead(Polled, b) = Ahead(memory_pending, b)
      /\ Polled[Ahead(Polled, b)] = memory_pending[Ahead(memory_pending, b)]
  BY <1>3, PolledKeeps, CacheTypes
<1>6. Kept(Polled, memory_pending', b)
  <2>1. CASE FetchHit(f)
    BY <1>5, <2>1 DEF FetchHit, Kept
  <2>2. CASE FetchMiss(f)
    BY <1>2, <1>5, <2>2, ReadKeeps DEF FetchMiss
  <2>3. QED BY <1>1, <2>1, <2>2
<1>7. Kept(memory_pending, memory_pending', b)
  BY <1>5, <1>6 DEF Kept
<1>8. QED BY <1>2, <1>3, <1>4, <1>7, KeptIsNearer

LEMMA LatchKeeps ==
    ASSUME NEW b, CacheInv, Latch, UnderWay(b)
    PROVE  UnderWay(b)' /\ ComesNearer(b)
<1> DEFINE s == Ahead(memory_pending, b)
<1>1. /\ phase = "L" /\ phase' = "M"
      /\ memory_pending' = [x \in Slots |-> Retire(memory_pending[x])]
  BY DEF Latch
<1>2. Open(memory_pending, b) /\ memory_pending[s].due >= 1
  BY <1>1, InTheseTerms
<1>3. memory_pending[s].due \in Int
  <2>1. memory_pending[s] \in Entry
    BY <1>2, AheadIs, CacheTypes DEF Open
  <2>2. QED BY <2>1, MemoryAssumption DEF Entry, Latencies
<1>4. memory_pending[s].due > 0
  BY <1>2, <1>3
<1>5. /\ Open(memory_pending', b) /\ Ahead(memory_pending', b) = s
      /\ memory_pending'[s].due = memory_pending[s].due - 1
  BY <1>1, <1>2, <1>4, RetireKeeps, CacheTypes
<1> HIDE DEF s
<1>6. memory_pending'[s].due >= 0
  BY <1>2, <1>3, <1>5
<1>7. QED BY <1>1, <1>5, <1>6, InTheseTerms DEF s

\* A poll of the block in the cycle its request is due fills the line.
LEMMA DueIsAnswered ==
    ASSUME NEW b, CacheInv, StageFetch, UnderWay(b),
           memory_pending[Ahead(memory_pending, b)].due = 0
    PROVE  /\ \A a \in CodeWords : pc = a /\ b = InstructionBlock(a) => icache'[ILine(a)] # Nothing
           /\ \A a \in DataAddresses : DataBlock(cur_memory) = b /\ b = DataBlock(a)
                => dcache'[DLine(a)] # Nothing
<1>1. PICK f \in FetchAddresses : FetchHit(f) \/ FetchMiss(f)
  BY DEF StageFetch
<1>2. phase = "F" /\ dcache' = PollD
  BY <1>1 DEF FetchHit, FetchMiss, EnterF
<1>3. Open(memory_pending, b)
  BY InTheseTerms
<1>4. memory_status(memory_pending, b)
  BY <1>3 DEF memory_status, Open, Ahead
<1>5. ASSUME NEW a \in CodeWords, pc = a, b = InstructionBlock(a)
      PROVE  icache'[ILine(a)] # Nothing
  <2>1. a \in Nat /\ ILine(a) \in ILines /\ f \in Nat
    BY BlockTypes, CacheTypes DEF ILines, FetchAddresses
  <2>2. PollI[ILine(a)] # Nothing
    BY <1>4, <1>5, PollILemma
  <2>3. QED BY <1>1, <2>1, <2>2, FetchLemma
<1>6. ASSUME NEW a \in DataAddresses, DataBlock(cur_memory) = b, b = DataBlock(a)
      PROVE  dcache'[DLine(a)] # Nothing
  <2> DEFINE t == Complete(memory_pending, InstructionBlock(pc))
  <2>1. a \in Nat /\ cur_memory \in Nat /\ b \in Nat
    BY <1>6, BlockTypes, CacheTypes
  <2>2. DLine(cur_memory) = DLine(a) /\ DLine(a) \in DLines
    <3>1. \A x \in Nat : DataBlock(x) = 8 * (x \div 8) /\ x \div 8 \in Nat
      BY Remainders DEF DataBlock
    <3>2. cur_memory \div 8 = a \div 8
      BY <1>6, <2>1, <3>1
    <3>3. QED BY <2>1, <3>2, BlockTypes DEF DLine, DLines
  <2>3. memory_status(t, b)
    <3>1. /\ Matches(t, b) = Matches(memory_pending, b)
          /\ \A s \in Slots : t[s].due = memory_pending[s].due
      BY CompleteKeeps, CacheTypes
    <3>2. First(Matches(memory_pending, b)) \in Slots
      BY <1>4, FirstMatch, CacheTypes
    <3>3. QED BY <1>4, <3>1, <3>2 DEF memory_status
  <2>4. PollD = [dcache EXCEPT ![DLine(a)] = Delivered(t, b)]
    BY <1>6, <2>2, <2>3 DEF PollD
  <2>5. Delivered(t, b) # Nothing
    BY <2>1, MemoryAssumption DEF Delivered
  <2>6. QED BY <1>2, <2>2, <2>4, <2>5, CacheTypes
<1>7. QED BY <1>5, <1>6

\* What F asks for and can be recorded is requested, if it is not there at once.
LEMMA FetchRecorded ==
    ASSUME NEW a \in CodeWords, CacheInv, CacheInv', StageFetch, pc = a, ~Overrun,
           Recordable(InstructionBlock(a))
    PROVE  icache'[ILine(a)] # Nothing \/ UnderWay(InstructionBlock(a))'
<1> DEFINE b == InstructionBlock(a)
<1>1. /\ phase = "F" /\ phase' = "L" /\ a \in Nat
      /\ b \in Nat /\ b # Nothing /\ ILine(a) \in ILines
  <2>1. a \in Nat
    BY CacheTypes
  <2>2. phase = "F" /\ phase' = "L"
    BY DEF StageFetch, FetchHit, FetchMiss, EnterF
  <2>3. QED BY <2>1, <2>2, BlockTypes, MemoryAssumption DEF ILines
<1>2. CASE Matches(memory_pending, b) # {}
  <2> DEFINE s == Ahead(memory_pending, b)
  <2>1. /\ s \in Slots /\ s \in Matches(memory_pending, b)
        /\ memory_pending[s] \in Entry
    BY <1>2, AheadIs, CacheTypes DEF Matches
  <2>2. memory_pending[s].due >= 0
    BY <2>1 DEF Recordable
  <2>3. memory_pending[s].op # "COMPLETED"
    BY <1>1, <2>1 DEF CacheInv, PendingGood
  <2>4. UnderWay(b)
    BY <1>1, <1>2, <2>2, <2>3, InTheseTerms DEF Open
  <2> HIDE DEF b, s
  <2>5. CASE memory_pending[s].due = 0
    BY <2>4, <2>5, DueIsAnswered DEF b, s
  <2>6. CASE memory_pending[s].due # 0
    BY <2>4, <2>6, FetchKeeps DEF b, s
  <2>7. QED BY <2>5, <2>6
<1>3. CASE Matches(memory_pending, b) = {}
  <2> HIDE DEF b
  <2>1. FetchHit(a) \/ FetchMiss(a)
    BY DEF StageFetch, FetchAddresses
  <2>2. CASE FetchHit(a)
    BY <2>2 DEF FetchHit, Found
  <2>3. CASE FetchMiss(a) /\ Answered(b)
    BY <1>1, <2>3, FetchLemma DEF b
  <2>4. CASE FetchMiss(a) /\ ~Answered(b)
    <3> DEFINE u == First(Usable(Polled))
               t1 == Complete(memory_pending, InstructionBlock(pc))
               e == [address |-> b, op |-> "READ", due |-> ReadLatency]
    <3>1. /\ t1 \in Table /\ Matches(t1, b) = {}
          /\ \A s \in Slots : t1[s].op \in {memory_pending[s].op, "COMPLETED"}
      BY <1>3, CompleteKeeps, CacheTypes
    <3> HIDE DEF t1
    <3>2. Polled = Complete(t1, DataBlock(cur_memory))
      BY DEF Polled, t1
    <3>3. /\ Polled \in Table /\ Matches(Polled, b) = {}
          /\ \A s \in Slots : Polled[s].op \in {t1[s].op, "COMPLETED"}
      BY <3>1, <3>2, CompleteKeeps
    <3>4. Usable(Polled) # {}
      <4>1. PICK s \in Slots : memory_pending[s].op \in {"NONE", "COMPLETED"}
        BY DEF Recordable, Usable
      <4>2. Polled[s].op \in {"NONE", "COMPLETED"}
        BY <3>1, <3>3, <4>1
      <4>3. QED BY <4>2 DEF Usable
    <3>5. u \in Slots
      BY <3>4, FirstIn DEF Usable
    <3>6. memory_pending' = [Polled EXCEPT ![u] = e]
      BY <2>4, <3>4 DEF FetchMiss, memory_read, memory_add_pending, b
    <3> HIDE DEF u, e
    <3>7. \A s \in Slots : memory_pending'[s] = IF s = u THEN e ELSE Polled[s]
      BY <3>3, <3>6 DEF Table
    <3>8. e.address = b /\ e.op = "READ" /\ e.due = ReadLatency
      BY DEF e
    <3>9. Matches(memory_pending', b) = {u}
      BY <3>3, <3>5, <3>7, <3>8 DEF Matches
    <3>10. Ahead(memory_pending', b) = u
      <4>1. {u} \in SUBSET Slots
        BY <3>5
      <4>2. QED BY <3>9, <4>1, FirstIn DEF Ahead
    <3>11. ReadLatency >= 1
      BY <2>4, MemoryAssumption DEF Answered
    <3>12. Open(memory_pending', b)
      BY <3>5, <3>7, <3>8, <3>9, <3>10 DEF Open
    <3>13. memory_pending'[Ahead(memory_pending', b)].due >= 1
      BY <3>5, <3>7, <3>8, <3>10, <3>11
    <3>14. QED BY <1>1, <3>12, <3>13, InTheseTerms DEF b
  <2>5. QED BY <2>1, <2>2, <2>3, <2>4
<1>4. QED BY <1>2, <1>3

\* Whatever the program does between two polls, a request that F polls in every
\* cycle descends in slot and time until its line is filled, for every number of
\* slots and every latency (memory_add_pending, memory_status,
\* memory_retire_completed).
THEOREM PolledGetNearer == Spec => PollsComeNearer
<1> DEFINE Fetches(a) ==
             LET b == InstructionBlock(a)
             IN  /\ UnderWay(b) /\ (phase = "F" => pc = a)
                      => found_i_cache(a)' \/ (UnderWay(b)' /\ ComesNearer(b))
                 /\ phase = "F" /\ pc = a /\ ~Overrun /\ Recordable(b)
                      => found_i_cache(a)' \/ UnderWay(b)'
           Loads(a) ==
             LET b == DataBlock(a)
             IN  a \div 8 < D_CACHE_LINES /\ UnderWay(b)
                   /\ (phase = "F" => DataBlock(cur_memory) = b)
                   => found_d_cache(a)' \/ (UnderWay(b)' /\ ComesNearer(b))
           Nearer == ~Initialize =>
                       /\ ProgramIsLow => \A a \in CodeWords : Fetches(a)
                       /\ \A a \in DataAddresses : Loads(a)
<1>1. CacheInv /\ CacheInv' /\ Next => Nearer
  <2> SUFFICES ASSUME CacheInv, CacheInv', Next, ~Initialize
               PROVE  /\ ProgramIsLow => \A a \in CodeWords : Fetches(a)
                      /\ \A a \in DataAddresses : Loads(a)
    OBVIOUS
  <2>1. CASE StageFetch
    <3>1. ASSUME NEW b, UnderWay(b)
          PROVE  \/ memory_pending[Ahead(memory_pending, b)].due = 0
                 \/ UnderWay(b)' /\ ComesNearer(b)
      BY <2>1, <3>1, FetchKeeps
    <3>2. phase = "F"
      BY <2>1 DEF StageFetch, FetchHit, FetchMiss, EnterF
    <3>3. ASSUME ProgramIsLow, NEW a \in CodeWords
          PROVE  Fetches(a)
      <4> DEFINE b == InstructionBlock(a)
      <4>1. icache'[ILine(a)] # Nothing => found_i_cache(a)'
        BY <3>3 DEF found_i_cache, ProgramIsLow, ILine
      <4>2. UnderWay(b) /\ pc = a => icache'[ILine(a)] # Nothing \/ (UnderWay(b)' /\ ComesNearer(b))
        BY <2>1, <3>1, DueIsAnswered
      <4>3. pc = a /\ ~Overrun /\ Recordable(b) => icache'[ILine(a)] # Nothing \/ UnderWay(b)'
        BY <2>1, FetchRecorded
      <4>4. QED BY <3>2, <4>1, <4>2, <4>3
    <3>4. ASSUME NEW a \in DataAddresses
          PROVE  Loads(a)
      <4> DEFINE b == DataBlock(a)
      <4>1. a \div 8 < D_CACHE_LINES /\ dcache'[DLine(a)] # Nothing => found_d_cache(a)'
        BY DEF found_d_cache, DLine
      <4>2. UnderWay(b) /\ DataBlock(cur_memory) = b
              => dcache'[DLine(a)] # Nothing \/ (UnderWay(b)' /\ ComesNearer(b))
        BY <2>1, <3>1, DueIsAnswered
      <4>3. QED BY <3>2, <4>1, <4>2
    <3>5. QED BY <3>3, <3>4
  <2>2. CASE StageMemory \/ Latch \/ NewRun
    <3>1. phase # "F"
      BY <2>2 DEF StageMemory, NoAccess, LoadHit, LoadMiss, Store, EnterM, Latch, NewRun
    <3>2. ASSUME NEW b, UnderWay(b)
          PROVE  UnderWay(b)' /\ ComesNearer(b)
      <4>1. CASE StageMemory
        BY <3>2, <4>1, MemoryKeeps
      <4>2. CASE Latch
        BY <3>2, <4>2, LatchKeeps
      <4>3. CASE NewRun
        <5>1. /\ phase = "M" /\ phase' = phase /\ memory_pending' = memory_pending
              /\ Open(memory_pending, b)
              /\ memory_pending[Ahead(memory_pending, b)].due >= 0
          BY <3>2, <4>3, InTheseTerms DEF NewRun
        <5>2. Kept(memory_pending, memory_pending', b)
          BY <5>1 DEF Kept
        <5>3. QED BY <5>1, <5>2, KeptIsNearer
      <4>4. QED BY <2>2, <4>1, <4>2, <4>3
    <3>3. QED BY <3>1, <3>2
  <2>3. QED BY <2>1, <2>2 DEF Next
<1>2. CacheInv /\ [Next]_vars => CacheInv'
  BY CacheStep
<1>3. CacheInv /\ [Next]_vars => [Nearer]_vars
  BY <1>1, <1>2
<1>4. QED BY <1>3, CacheInvariant, PTL DEF Spec, PollsComeNearer

=============================================================================

--------------------------- MODULE ExecutorProofs ---------------------------
(***************************************************************************)
(* What is proved of the executor for all words, operands and addresses.   *)
(***************************************************************************)
EXTENDS Executor, DecodingProofs, LeastElement

-----------------------------------------------------------------------------
(* The fields of a word. *)

Bit == {0, 1}

\* A field as a number is the sum of its bits.
LEMMA FieldBits ==
    ASSUME NEW w \in Word, NEW low \in 0 .. 31, NEW high \in 0 .. 31,
           low <= high, high - low <= 6
    PROVE  \A k \in 0 .. 6 :
             get_bits(w, low, high)[k] = IF k <= high - low THEN w[k + low] ELSE 0
<1>1. \A k \in 0 .. 31 :
        get_bits(w, low, high)[k] = IF k <= high - low THEN w[k + low] ELSE 0
  BY GetBits, Zenon
<1>2. QED BY <1>1

LEMMA WordBits == \A w \in Word, k \in 0 .. 31 : w[k] \in Bit
BY DEF Word, WORDLENGTH, Bit

LEMMA LongBits == \A a \in Long, k \in 0 .. 63 : a[k] \in Bit
BY DEF Long, DOUBLEWORD, Bit

\* funct7 decides what bits 25 and 30 are.
LEMMA Funct7Bits ==
    ASSUME NEW w \in Word
    PROVE  /\ Funct7(w) = 0    => w[25] = 0 /\ w[30] = 0
           /\ Funct7(w) = 1    => w[25] = 1 /\ w[30] = 0
           /\ Funct7(w) = \h20 => w[25] = 0 /\ w[30] = 1
           /\ Funct7(w) = \h21 => w[25] = 1 /\ w[30] = 1
<1> DEFINE g == get_funct7(w)
<1>1. \A k \in 0 .. 6 : g[k] = w[k + 25]
  <2>1. \A k \in 0 .. 6 : get_bits(w, 25, 31)[k] = IF k <= 31 - 25 THEN w[k + 25] ELSE 0
    <3>1. 25 \in 0 .. 31 /\ 31 \in 0 .. 31 /\ 25 <= 31 /\ 31 - 25 <= 6
      OBVIOUS
    <3>2. QED BY <3>1, FieldBits, Zenon
  <2>2. QED BY <2>1 DEF get_funct7
<1>2. /\ g[0] = w[25] /\ g[1] = w[26] /\ g[2] = w[27] /\ g[3] = w[28]
      /\ g[4] = w[29] /\ g[5] = w[30] /\ g[6] = w[31]
  BY <1>1
<1>3. \A k \in 25 .. 31 : w[k] = 0 \/ w[k] = 1
  BY WordBits DEF Bit
<1>4. Funct7(w) = g[0] + 2 * g[1] + 4 * g[2] + 8 * g[3] + 16 * g[4] + 32 * g[5] + 64 * g[6]
  BY DEF Funct7, Number
<1> HIDE DEF g
<1> DEFINE b(k) == w[k]
<1>5. Funct7(w) = w[25] + 2 * w[26] + 4 * w[27] + 8 * w[28] + 16 * w[29]
                  + 32 * w[30] + 64 * w[31]
  BY <1>2, <1>4
<1>6. /\ w[25] \in 0 .. 1 /\ w[26] \in 0 .. 1 /\ w[27] \in 0 .. 1 /\ w[28] \in 0 .. 1
      /\ w[29] \in 0 .. 1 /\ w[30] \in 0 .. 1 /\ w[31] \in 0 .. 1
  BY <1>3
<1>7. QED BY <1>5, <1>6

LEMMA Funct3Type ==
    ASSUME NEW w \in Word
    PROVE  Funct3(w) \in 0 .. 7
<1> DEFINE g == get_funct3(w)
<1>1. \A k \in 0 .. 6 : g[k] = IF k <= 2 THEN w[k + 12] ELSE 0
  <2>1. \A k \in 0 .. 6 : get_bits(w, 12, 14)[k] = IF k <= 14 - 12 THEN w[k + 12] ELSE 0
    <3>1. 12 \in 0 .. 31 /\ 14 \in 0 .. 31 /\ 12 <= 14 /\ 14 - 12 <= 6
      OBVIOUS
    <3>2. QED BY <3>1, FieldBits, Zenon
  <2>2. QED BY <2>1 DEF get_funct3
<1>2. /\ g[0] = w[12] /\ g[1] = w[13] /\ g[2] = w[14]
      /\ g[3] = 0 /\ g[4] = 0 /\ g[5] = 0 /\ g[6] = 0
  BY <1>1
<1>3. w[12] \in 0 .. 1 /\ w[13] \in 0 .. 1 /\ w[14] \in 0 .. 1
  BY WordBits DEF Bit
<1> HIDE DEF g
<1>4. Funct3(w) = g[0] + 2 * g[1] + 4 * g[2] + 8 * g[3] + 16 * g[4] + 32 * g[5] + 64 * g[6]
  BY DEF Funct3, Number, g
<1>5. QED BY <1>2, <1>3, <1>4

\* A word names one of the 32 registers.
LEMMA RegisterType ==
    ASSUME NEW w \in Word
    PROVE  Number(get_rs1(w)) \in 0 .. 31 /\ Number(get_rs2(w)) \in 0 .. 31
<1>1. ASSUME NEW low \in {15, 20}
      PROVE  Number(get_bits(w, low, low + 4)) \in 0 .. 31
  <2> DEFINE g == get_bits(w, low, low + 4)
  <2>1. \A k \in 0 .. 6 : g[k] = IF k <= 4 THEN w[k + low] ELSE 0
    <3>1. /\ low \in 0 .. 31 /\ low + 4 \in 0 .. 31
          /\ low <= low + 4 /\ (low + 4) - low <= 6 /\ (low + 4) - low = 4
      OBVIOUS
    <3>2. \A k \in 0 .. 6 : g[k] = IF k <= (low + 4) - low THEN w[k + low] ELSE 0
      BY <3>1, FieldBits, Zenon DEF g
    <3>3. QED BY <3>1, <3>2
  <2> HIDE DEF g
  <2>2. /\ g[0] = w[low] /\ g[1] = w[low + 1] /\ g[2] = w[low + 2] /\ g[3] = w[low + 3]
        /\ g[4] = w[low + 4] /\ g[5] = 0 /\ g[6] = 0
    BY <2>1
  <2>3. /\ w[low] \in 0 .. 1 /\ w[low + 1] \in 0 .. 1 /\ w[low + 2] \in 0 .. 1
        /\ w[low + 3] \in 0 .. 1 /\ w[low + 4] \in 0 .. 1
    BY WordBits DEF Bit
  <2>4. Number(g) \in 0 .. 31
    BY <2>2, <2>3 DEF Number
  <2>5. QED BY <2>4 DEF g
<1>2. 15 + 4 = 19 /\ 20 + 4 = 24
  OBVIOUS
<1>3. Number(get_bits(w, 15, 19)) \in 0 .. 31 /\ Number(get_bits(w, 20, 24)) \in 0 .. 31
  BY <1>1, <1>2
<1>4. QED BY <1>3 DEF get_rs1, get_rs2

-----------------------------------------------------------------------------
(* Comparisons. *)

\* Two register values that differ have a highest bit in which they do.
LEMMA HighestDifference ==
    ASSUME NEW a \in Long, NEW b \in Long, a # b
    PROVE  \E k \in 0 .. 63 : a[k] # b[k] /\ \A j \in 0 .. 63 : j > k => a[j] = b[j]
<1> DEFINE S == {n \in 0 .. 63 : a[63 - n] # b[63 - n]}
<1>1. PICK d \in 0 .. 63 : a[d] # b[d]
  BY DEF Long, DOUBLEWORD
<1>2. 63 - d \in S
  <2>1. 63 - d \in 0 .. 63 /\ 63 - (63 - d) = d
    OBVIOUS
  <2>2. QED BY <1>1, <2>1
<1>3. S \in SUBSET Nat /\ S # {}
  <2>1. \A n \in S : n \in 0 .. 63
    OBVIOUS
  <2> HIDE DEF S
  <2>2. \A n \in S : n \in Nat
    BY <2>1
  <2>3. QED BY <1>2, <2>2
<1>4. PICK n \in S : \A m \in S : n <= m
  BY <1>3, LeastElementExists
<1>5. n \in 0 .. 63 /\ 63 - n \in 0 .. 63 /\ a[63 - n] # b[63 - n]
  BY <1>4
<1>6. ASSUME NEW j \in 0 .. 63, j > 63 - n
      PROVE  a[j] = b[j]
  <2>1. 63 - j \in 0 .. 63 /\ 63 - (63 - j) = j /\ ~ (n <= 63 - j)
    BY <1>5, <1>6
  <2>2. 63 - j \notin S
    BY <1>4, <2>1
  <2>3. QED BY <2>1, <2>2
<1>7. QED BY <1>5, <1>6

\* The unsigned order of register values is total and strict.
LEMMA BelowTotal ==
    ASSUME NEW a \in Long, NEW b \in Long
    PROVE  /\ a # b => Below(a, b) \/ Below(b, a)
           /\ Below(a, b) => a # b /\ ~ Below(b, a)
<1>1. DOMAIN a = 0 .. 63 /\ DOMAIN b = 0 .. 63
  BY DEF Long, DOUBLEWORD
<1>2. \A k \in 0 .. 63 : (a[k] = 0 \/ a[k] = 1) /\ (b[k] = 0 \/ b[k] = 1)
  BY LongBits DEF Bit
<1>3. ASSUME a # b
      PROVE  Below(a, b) \/ Below(b, a)
  <2>1. PICK k \in 0 .. 63 : a[k] # b[k] /\ \A j \in 0 .. 63 : j > k => a[j] = b[j]
    BY <1>3, HighestDifference
  <2>2. a[k] < b[k] \/ b[k] < a[k]
    BY <1>2, <2>1
  <2>3. QED BY <1>1, <2>1, <2>2 DEF Below
<1>4. ASSUME Below(a, b)
      PROVE  a # b /\ ~ Below(b, a)
  <2>1. PICK k \in 0 .. 63 : a[k] < b[k] /\ \A j \in 0 .. 63 : j > k => a[j] = b[j]
    BY <1>1, <1>4 DEF Below
  <2>2. a[k] = 0 /\ b[k] = 1
    BY <1>2, <2>1
  <2>3. ASSUME Below(b, a)
        PROVE  FALSE
    <3>1. PICK m \in 0 .. 63 : b[m] < a[m] /\ \A j \in 0 .. 63 : j > m => b[j] = a[j]
      BY <1>1, <2>3 DEF Below
    <3>2. b[m] = 0 /\ a[m] = 1
      BY <1>2, <3>1
    <3>3. ~ (k > m) /\ ~ (m > k)
      BY <2>1, <2>2, <3>1, <3>2
    <3>4. k = m
      BY <3>3
    <3>5. QED BY <2>2, <3>2, <3>4
  <2>4. QED BY <2>2, <2>3
<1>5. QED BY <1>3, <1>4

\* So is the signed one.
LEMMA SignedBelowTotal ==
    ASSUME NEW a \in Long, NEW b \in Long
    PROVE  /\ a # b => SignedBelow(a, b) \/ SignedBelow(b, a)
           /\ SignedBelow(a, b) => a # b /\ ~ SignedBelow(b, a)
<1>1. SignBit(a) = 63 /\ SignBit(b) = 63
  BY DEF SignBit, Long, DOUBLEWORD
<1>2. (a[63] = 0 \/ a[63] = 1) /\ (b[63] = 0 \/ b[63] = 1)
  BY LongBits DEF Bit
<1>3. CASE a[63] = b[63]
  BY <1>1, <1>2, <1>3, BelowTotal DEF SignedBelow
<1>4. CASE a[63] # b[63]
  BY <1>1, <1>2, <1>4 DEF SignedBelow
<1>5. QED BY <1>3, <1>4

\* sltiu compares with the low 12 bits of its immediate: what is below those is
\* below the immediate.
LowTwelve(i) == [k \in 0 .. 63 |-> IF k < 12 THEN i[k] ELSE 0]

LEMMA CutImmediate ==
    ASSUME NEW w \in Word
    PROVE  LET i == ImmediateI(w)
           IN  /\ i \in Long
               /\ unsign_expand(i, 11) = LowTwelve(i)
               /\ \A a \in Long : Below(a, LowTwelve(i)) => Below(a, i)
<1> DEFINE i == ImmediateI(w)
           low == LowTwelve(i)
<1>1. \A k \in 0 .. 31 : w[k] = 0 \/ w[k] = 1
  BY WordBits DEF Bit
<1>2. /\ i = [k \in 0 .. 63 |-> i[k]]
      /\ \A k \in 0 .. 63 : i[k] = IF k <= 10 THEN w[k + 20] ELSE w[31]
  BY DEF ImmediateI
<1> HIDE DEF i
<1>3. \A k \in 0 .. 63 : i[k] = 0 \/ i[k] = 1
  BY <1>1, <1>2
<1>4. i \in Long
  BY <1>2, <1>3 DEF Long, DOUBLEWORD
<1>5. \A k \in 0 .. 63 : k > 11 => i[k] = i[11]
  BY <1>2
<1>6. unsign_expand(i, 11) = low
  <2>1. DOMAIN i = 0 .. 63
    BY <1>2
  <2>2. \A k \in 0 .. 63 : (IF i[11] = 1 /\ k > 11 THEN 0 ELSE i[k]) = IF k < 12 THEN i[k] ELSE 0
    BY <1>3, <1>5
  <2>3. QED BY <2>1, <2>2 DEF unsign_expand, LowTwelve
<1>7. ASSUME NEW a \in Long, Below(a, low)
      PROVE  Below(a, i)
  <2>1. DOMAIN a = 0 .. 63 /\ \A k \in 0 .. 63 : a[k] = 0 \/ a[k] = 1
    BY LongBits DEF Long, DOUBLEWORD, Bit
  <2>2. \A k \in 0 .. 63 : low[k] = IF k < 12 THEN i[k] ELSE 0
    BY DEF LowTwelve
  <2>3. PICK k \in 0 .. 63 : a[k] < low[k] /\ \A j \in 0 .. 63 : j > k => a[j] = low[j]
    BY <1>7, <2>1 DEF Below
  <2> HIDE DEF low
  <2>4. k < 12 /\ a[k] < i[k]
    BY <1>3, <2>1, <2>2, <2>3
  <2>5. CASE i[11] = 0
    <3>1. \A j \in 0 .. 63 : low[j] = i[j]
      BY <1>5, <2>2, <2>5
    <3>2. \A j \in 0 .. 63 : j > k => a[j] = i[j]
      BY <2>3, <3>1
    <3>3. QED BY <2>1, <2>4, <3>2 DEF Below
  <2>6. CASE i[11] # 0
    <3>1. i[63] = 1
      BY <1>3, <1>5, <2>6
    <3>2. a[63] = 0
      BY <2>2, <2>3, <2>4
    <3>3. a[63] < i[63] /\ \A j \in 0 .. 63 : ~ (j > 63)
      BY <3>1, <3>2
    <3>4. QED BY <2>1, <3>3 DEF Below
  <2>7. QED BY <2>5, <2>6
<1>8. QED BY <1>4, <1>6, <1>7 DEF i

-----------------------------------------------------------------------------
(* The operations keep the width. *)

BitsOf(n) == [0 .. n - 1 -> {0, 1}]

LEMMA Widths == Word = BitsOf(32) /\ Long = BitsOf(64)
BY DEF Word, Long, BitsOf, WORDLENGTH, DOUBLEWORD

LEMMA CarryBit == \A a, b, c, k : Carry(a, b, c, k) \in {0, 1}
BY DEF Carry

\* The carry is the one a ripple adder passes from bit to bit.
LEMMA CarryRipples ==
    ASSUME NEW n \in {32, 64}, NEW a \in BitsOf(n), NEW b \in BitsOf(n), NEW c \in {0, 1}
    PROVE  /\ Carry(a, b, c, 0) = c
           /\ \A k \in 0 .. n - 1 :
                Carry(a, b, c, k + 1) =
                  IF a[k] + b[k] + Carry(a, b, c, k) >= 2 THEN 1 ELSE 0
<1> DEFINE passed(j, k) == \A i \in j + 1 .. k - 1 : a[i] + b[i] >= 1
           carries(k) == \/ \E j \in 0 .. k - 1 : a[j] + b[j] = 2 /\ passed(j, k)
                         \/ c = 1 /\ passed(-1, k)
<1>1. \A k : Carry(a, b, c, k) = IF carries(k) THEN 1 ELSE 0
  BY DEF Carry
<1>2. \A k \in 0 .. n - 1 : a[k] + b[k] \in {0, 1, 2}
  BY DEF BitsOf
<1>3. carries(0) <=> c = 1
  OBVIOUS
<1>4. ASSUME NEW k \in 0 .. n - 1
      PROVE  carries(k + 1) <=> a[k] + b[k] = 2 \/ (a[k] + b[k] = 1 /\ carries(k))
  <2>1. \A j \in -1 .. k - 1 : passed(j, k + 1) <=> passed(j, k) /\ a[k] + b[k] >= 1
    OBVIOUS
  <2>2. passed(k, k + 1)
    OBVIOUS
  <2> HIDE DEF passed
  <2>3. carries(k + 1) <=> \/ \E j \in 0 .. k - 1 : a[j] + b[j] = 2 /\ passed(j, k + 1)
                           \/ a[k] + b[k] = 2
                           \/ c = 1 /\ passed(-1, k + 1)
    <3>1. \A j : j \in 0 .. (k + 1) - 1 <=> j \in 0 .. k - 1 \/ j = k
      OBVIOUS
    <3>2. QED BY <2>2, <3>1
  <2>4. carries(k + 1) <=> \/ carries(k) /\ a[k] + b[k] >= 1
                           \/ a[k] + b[k] = 2
    <3>1. \A j \in 0 .. k - 1 : j \in -1 .. k - 1
      OBVIOUS
    <3>2. -1 \in -1 .. k - 1
      OBVIOUS
    <3>3. QED BY <2>1, <2>3, <3>1, <3>2, Zenon
  <2>5. a[k] + b[k] \in {0, 1, 2}
    BY <1>2
  <2> HIDE DEF carries
  <2>6. QED BY <2>4, <2>5
<1> HIDE DEF carries
<1>5. \A k \in 0 .. n - 1 : Carry(a, b, c, k + 1) = 1 <=> a[k] + b[k] + Carry(a, b, c, k) >= 2
  BY <1>1, <1>2, <1>4
<1>6. QED BY <1>1, <1>3, <1>5

LEMMA PlusType ==
    ASSUME NEW n \in {32, 64}, NEW a \in BitsOf(n), NEW b \in BitsOf(n), NEW c
    PROVE  Plus(a, b, c) \in BitsOf(n)
<1>1. DOMAIN a = 0 .. n - 1
  BY DEF BitsOf
<1>2. ASSUME NEW k \in 0 .. n - 1
      PROVE  (a[k] + b[k] + Carry(a, b, c, k)) % 2 \in {0, 1}
  <2>1. a[k] \in {0, 1} /\ b[k] \in {0, 1} /\ Carry(a, b, c, k) \in {0, 1}
    BY CarryBit DEF BitsOf
  <2>2. QED BY <2>1
<1>3. QED BY <1>1, <1>2 DEF Plus, BitsOf

LEMMA MinusType ==
    ASSUME NEW n \in {32, 64}, NEW a \in BitsOf(n), NEW b \in BitsOf(n)
    PROVE  Minus(a, b) \in BitsOf(n)
<1>1. [k \in DOMAIN b |-> 1 - b[k]] \in BitsOf(n)
  BY DEF BitsOf
<1>2. QED BY <1>1, PlusType DEF Minus

LEMMA ShiftTypes ==
    ASSUME NEW n \in {32, 64}, NEW a \in BitsOf(n), NEW m \in Nat
    PROVE  /\ ShiftLeft(a, m) \in BitsOf(n)
           /\ ShiftRight(a, m) \in BitsOf(n)
           /\ ShiftRightSigned(a, m) \in BitsOf(n)
<1>1. DOMAIN a = 0 .. n - 1
  BY DEF BitsOf
<1>2. ShiftLeft(a, m) \in BitsOf(n)
  BY <1>1 DEF ShiftLeft, BitsOf
<1>3. ShiftRight(a, m) \in BitsOf(n)
  BY <1>1 DEF ShiftRight, BitsOf
<1>4. SignBit(a) \in 0 .. n - 1
  BY <1>1 DEF SignBit
<1>5. ShiftRightSigned(a, m) \in BitsOf(n)
  BY <1>1, <1>4 DEF ShiftRightSigned, BitsOf
<1>6. QED BY <1>2, <1>3, <1>5

LEMMA BitwiseTypes ==
    ASSUME NEW n \in {32, 64}, NEW a \in BitsOf(n), NEW b \in BitsOf(n)
    PROVE  xor(a, b) \in BitsOf(n) /\ and(a, b) \in BitsOf(n) /\ Or(a, b) \in BitsOf(n)
<1>1. DOMAIN a = 0 .. n - 1 /\ \A k \in 0 .. n - 1 : a[k] \in {0, 1} /\ b[k] \in {0, 1}
  BY DEF BitsOf
<1>2. \A k \in 0 .. n - 1 : (a[k] + b[k]) % 2 \in {0, 1} /\ a[k] * b[k] \in {0, 1}
  BY <1>1
<1>3. QED BY <1>1, <1>2 DEF xor, and, Or, BitsOf

\* A count of places is a number below the width.
LEMMA CountType ==
    ASSUME NEW n \in {32, 64}, NEW a, NEW m \in {32, 64}, NEW b \in BitsOf(m)
    PROVE  Count(a, b) \in Nat
<1>1. \A k \in 0 .. 6 : b[k] \in 0 .. 1
  BY DEF BitsOf
<1>2. Number(b) \in Nat
  BY <1>1 DEF Number
<1>3. SignBit(a) \in {31, 63}
  BY DEF SignBit
<1>4. QED BY <1>2, <1>3 DEF Count

LEMMA WidenTypes ==
    /\ \A a \in Long : Low(a) \in Word
    /\ \A w \in Word : Widen(w) \in Long /\ WidenSigned(w) \in Long
    /\ \A p : Truth(p) \in Long
    /\ Zero \in Long /\ Four \in Long
BY DEF Low, Widen, WidenSigned, Truth, Zero, Four, Word, Long, WORDLENGTH, DOUBLEWORD

LEMMA ImmediateTypes ==
    ASSUME NEW w \in Word
    PROVE  {ImmediateI(w), ImmediateS(w), ImmediateB(w), ImmediateU(w), ImmediateJ(w)}
             \subseteq Long
<1>1. \A k \in 0 .. 31 : w[k] \in {0, 1}
  BY WordBits DEF Bit
<1>2. ImmediateI(w) \in Long
  BY <1>1 DEF ImmediateI, Long, DOUBLEWORD
<1>3. ImmediateS(w) \in Long
  BY <1>1 DEF ImmediateS, Long, DOUBLEWORD
<1>4. ImmediateB(w) \in Long
  BY <1>1 DEF ImmediateB, Long, DOUBLEWORD
<1>5. ImmediateU(w) \in Long
  BY <1>1 DEF ImmediateU, Long, DOUBLEWORD
<1>6. ImmediateJ(w) \in Long
  BY <1>1 DEF ImmediateJ, Long, DOUBLEWORD
<1>7. QED BY <1>2, <1>3, <1>4, <1>5, <1>6

LEMMA GetImmType ==
    ASSUME NEW w \in Word
    PROVE  get_imm(w) \in Long
<1>1. ImmediateRight(w)
  BY ImmediatesRight
<1>2. {get_imm_i(w), get_imm_s(w), get_imm_sb(w), get_imm_u(w), get_imm_uj(w), Zero} \subseteq Long
  BY <1>1, ImmediateTypes, WidenTypes DEF ImmediateRight
<1>3. QED BY <1>2 DEF get_imm

\* The arithmetic of a register and an operand, at both widths.
LEMMA LongOperations ==
    ASSUME NEW a \in Long, NEW b \in Long
    PROVE  /\ Plus(a, b, 0) \in Long /\ Minus(a, b) \in Long
           /\ xor(a, b) \in Long /\ and(a, b) \in Long /\ Or(a, b) \in Long
           /\ ShiftLeft(a, Count(a, b)) \in Long
           /\ ShiftRight(a, Count(a, b)) \in Long
           /\ ShiftRightSigned(a, Count(a, b)) \in Long
<1>1. a \in BitsOf(64) /\ b \in BitsOf(64)
  BY Widths
<1>2. Count(a, b) \in Nat
  BY <1>1, CountType
<1>3. QED BY <1>1, <1>2, Widths, PlusType, MinusType, BitwiseTypes, ShiftTypes

LEMMA WordOperations ==
    ASSUME NEW a \in Long, NEW b \in Long
    PROVE  /\ Plus(Low(a), Low(b), 0) \in Word
           /\ ShiftLeft(Low(a), Count(Low(a), b)) \in Word
           /\ ShiftRight(Low(a), Count(Low(a), b)) \in Word
           /\ ShiftRightSigned(Low(a), Count(Low(a), b)) \in Word
<1>1. Low(a) \in BitsOf(32) /\ Low(b) \in BitsOf(32) /\ b \in BitsOf(64)
  BY Widths, WidenTypes
<1>2. Count(Low(a), b) \in Nat
  BY <1>1, CountType
<1>3. QED BY <1>1, <1>2, Widths, PlusType, ShiftTypes

LEMMA ExecRType ==
    ASSUME NEW w \in Word, NEW a \in Long, NEW b \in Long
    PROVE  exec_r(w, a, b) \in Long
<1>1. Funct3(w) \in 0 .. 7
  BY Funct3Type
<1>2. /\ Widen(Plus(Low(a), Low(b), 0)) \in Long
      /\ Widen(ShiftLeft(Low(a), Count(Low(a), b))) \in Long
      /\ Widen(ShiftRight(Low(a), Count(Low(a), b))) \in Long
      /\ Truth(SignedBelow(a, b)) \in Long /\ Truth(Below(a, b)) \in Long
      /\ Zero \in Long
  BY WordOperations, WidenTypes
<1>3. QED BY <1>1, <1>2, LongOperations DEF exec_r

LEMMA ExecIType ==
    ASSUME NEW w \in Word, NEW a \in Long, NEW i \in Long
    PROVE  exec_i(w, a, i) \in Long
<1>1. /\ Widen(ShiftLeft(Low(a), Count(Low(a), i))) \in Long
      /\ Widen(ShiftRight(Low(a), Count(Low(a), i))) \in Long
      /\ WidenSigned(ShiftRightSigned(Low(a), Count(Low(a), i))) \in Long
      /\ Truth(SignedBelow(a, i)) \in Long
      /\ Truth(Below(a, unsign_expand(i, 11))) \in Long
      /\ Zero \in Long
  BY WordOperations, WidenTypes
<1>2. QED BY <1>1, LongOperations DEF exec_i

\* The outcome of a branch, function by function.
LEMMA ExecSb ==
    ASSUME NEW w, NEW a, NEW b
    PROVE  /\ exec_sb(w, a, b) \in BOOLEAN
           /\ Funct3(w) = 0 => (exec_sb(w, a, b) <=> a = b)
           /\ Funct3(w) = 1 => (exec_sb(w, a, b) <=> a # b)
           /\ Funct3(w) = 4 => (exec_sb(w, a, b) <=> SignedBelow(a, b))
           /\ Funct3(w) = 5 => (exec_sb(w, a, b) <=> a = b)
           /\ Funct3(w) = 6 => (exec_sb(w, a, b) <=> Below(a, b))
           /\ Funct3(w) = 7 => (exec_sb(w, a, b) <=> Below(b, a))
<1>0. SignedBelow(a, b) \in BOOLEAN /\ Below(a, b) \in BOOLEAN /\ Below(b, a) \in BOOLEAN
  BY DEF SignedBelow, Below
<1>1. ASSUME Funct3(w) = 0
      PROVE  exec_sb(w, a, b) \in BOOLEAN /\ (exec_sb(w, a, b) <=> a = b)
  <2>1. exec_sb(w, a, b) = (a = b)
    BY <1>1 DEF exec_sb
  <2>2. QED BY <1>0, <2>1
<1>2. ASSUME Funct3(w) = 1
      PROVE  exec_sb(w, a, b) \in BOOLEAN /\ (exec_sb(w, a, b) <=> a # b)
  <2>1. exec_sb(w, a, b) = (a # b)
    BY <1>2 DEF exec_sb
  <2>2. QED BY <1>0, <2>1
<1>3. ASSUME Funct3(w) = 4
      PROVE  exec_sb(w, a, b) \in BOOLEAN /\ (exec_sb(w, a, b) <=> SignedBelow(a, b))
  <2>1. exec_sb(w, a, b) = (SignedBelow(a, b))
    BY <1>3 DEF exec_sb
  <2>2. QED BY <1>0, <2>1
<1>4. ASSUME Funct3(w) = 5
      PROVE  exec_sb(w, a, b) \in BOOLEAN /\ (exec_sb(w, a, b) <=> a = b)
  <2>1. exec_sb(w, a, b) = (a = b)
    BY <1>4 DEF exec_sb
  <2>2. QED BY <1>0, <2>1
<1>5. ASSUME Funct3(w) = 6
      PROVE  exec_sb(w, a, b) \in BOOLEAN /\ (exec_sb(w, a, b) <=> Below(a, b))
  <2>1. exec_sb(w, a, b) = (Below(a, b))
    BY <1>5 DEF exec_sb
  <2>2. QED BY <1>0, <2>1
<1>6. ASSUME Funct3(w) = 7
      PROVE  exec_sb(w, a, b) \in BOOLEAN /\ (exec_sb(w, a, b) <=> Below(b, a))
  <2>1. exec_sb(w, a, b) = (Below(b, a))
    BY <1>6 DEF exec_sb
  <2>2. QED BY <1>0, <2>1
<1>7. ASSUME Funct3(w) \notin {0, 1, 4, 5, 6, 7}
      PROVE  exec_sb(w, a, b) \in BOOLEAN
  <2>1. exec_sb(w, a, b) = FALSE
    BY <1>7 DEF exec_sb
  <2>2. QED BY <2>1
<1>8. QED BY <1>1, <1>2, <1>3, <1>4, <1>5, <1>6, <1>7

-----------------------------------------------------------------------------
(* The types of the state. *)

Typed == TypeOK /\ instruction \in Word /\ file \in [0 .. 31 -> Long] /\ pc \in Long

LEMMA TypedInit == Init => Typed
<1> SUFFICES ASSUME Init
             PROVE  Typed
  OBVIOUS
<1>1. instruction \in Word /\ file \in [0 .. 31 -> Long] /\ pc \in Long
  BY InputsAssumption DEF Init
<1>2. extend_pc \in Long /\ res \in Long
  BY InputsAssumption DEF Init
<1>3. QED BY <1>1, <1>2, WidenTypes DEF Init, Typed, TypeOK

LEMMA TypedStep == Typed /\ [Next]_vars => Typed'
<1> SUFFICES ASSUME Typed, [Next]_vars
             PROVE  Typed'
  OBVIOUS
<1> DEFINE w == instruction
<1>1. CASE decode_stage
  <2>1. /\ register_read_one(get_rs1(w)) \in Long /\ register_read_one(get_rs2(w)) \in Long
        /\ Zero \in Long
    BY RegisterType, WidenTypes DEF Typed, register_read_one
  <2>2. reg1' \in Long /\ reg2' \in Long
    BY <1>1, <2>1 DEF decode_stage, Typed
  <2>3. imm' \in Long
    BY <1>1, GetImmType, WidenTypes DEF decode_stage, Typed
  <2>4. extend_pc' \in Long
    BY <1>1, <2>3, LongOperations DEF decode_stage, Typed, TypeOK
  <2>5. QED BY <1>1, <2>2, <2>3, <2>4 DEF decode_stage, Typed, TypeOK
<1>2. CASE stage_execute
  <2>1. /\ exec_r(w, reg1, reg2) \in Long /\ exec_i(w, reg1, imm) \in Long
        /\ Plus(pc, Four, 0) \in Long /\ Plus(pc, imm, 0) \in Long
        /\ Plus(reg1, imm, 0) \in Long
    BY ExecRType, ExecIType, LongOperations, WidenTypes DEF Typed, TypeOK
  <2>2. execute_stage(w, Opcode(w)) \in Long
    BY <2>1 DEF execute_stage, exec_s, exec_u, exec_uj, Typed, TypeOK
  <2>3. branch_stage(w, Opcode(w)) \in BOOLEAN
    <3>1. exec_sb(w, reg1, reg2) \in BOOLEAN
      BY ExecSb
    <3>2. (Opcode(w) \in {JALR, JAL}) \in BOOLEAN
      OBVIOUS
    <3>3. QED BY <3>1, <3>2, Zenon DEF branch_stage
  <2>4. QED BY <1>2, <2>2, <2>3 DEF stage_execute, Typed, TypeOK
<1>3. CASE UNCHANGED vars
  BY <1>3 DEF vars, Typed, TypeOK
<1>4. QED BY <1>1, <1>2, <1>3 DEF Next

-----------------------------------------------------------------------------
(* The instructions, one group of opcodes after the other: what the code   *)
(* computes and what RV64I says.                                           *)

LEMMA WordsOfRV64I ==
    ASSUME NEW w, RV64I(w)
    PROVE  /\ Opcode(w) = \h33 => \/ Funct7(w) = 0
                                  \/ Funct7(w) = \h20 /\ Funct3(w) \in {0, 5}
           /\ Opcode(w) = \h3B => \/ Funct7(w) = 0 /\ Funct3(w) \in {0, 1, 5}
                                  \/ Funct7(w) = \h20 /\ Funct3(w) \in {0, 5}
           /\ Opcode(w) = \h13 /\ Funct3(w) = 5 => Funct7(w) \in {0, 1, \h20, \h21}
           /\ Opcode(w) = \h1B => \/ Funct3(w) = 0
                                  \/ Funct3(w) = 1 /\ Funct7(w) = 0
                                  \/ Funct3(w) = 5 /\ Funct7(w) \in {0, \h20}
           /\ Opcode(w) = \h63 => Funct3(w) \notin {2, 3}
           /\ Opcode(w) \in {\h33, \h3B, \h13, \h1B, LOAD, SAVE, JALR, \h63, \h37, \h17, JAL}
<1> USE DEF LOAD, SAVE, JALR, JAL
<1>1. ASSUME Opcode(w) = \h33
      PROVE  Funct7(w) = 0 \/ (Funct7(w) = \h20 /\ Funct3(w) \in {0, 5})
  BY <1>1 DEF RV64I
<1>2. ASSUME Opcode(w) = \h3B
      PROVE  \/ Funct7(w) = 0 /\ Funct3(w) \in {0, 1, 5}
             \/ Funct7(w) = \h20 /\ Funct3(w) \in {0, 5}
  BY <1>2 DEF RV64I
<1>3. ASSUME Opcode(w) = \h13, Funct3(w) = 5
      PROVE  Funct7(w) \in {0, 1, \h20, \h21}
  BY <1>3 DEF RV64I
<1>4. ASSUME Opcode(w) = \h1B
      PROVE  \/ Funct3(w) = 0
             \/ Funct3(w) = 1 /\ Funct7(w) = 0
             \/ Funct3(w) = 5 /\ Funct7(w) \in {0, \h20}
  BY <1>4 DEF RV64I
<1>5. ASSUME Opcode(w) = \h63
      PROVE  Funct3(w) \notin {2, 3}
  BY <1>5 DEF RV64I
<1>6. Opcode(w) \in {\h33, \h3B, \h13, \h1B, LOAD, SAVE, JALR, \h63, \h37, \h17, JAL}
  BY DEF RV64I
<1>7. QED BY <1>1, <1>2, <1>3, <1>4, <1>5, <1>6

\* A word result widened without its sign is right if it has none.
LEMMA WidenedRight ==
    ASSUME NEW x \in Word
    PROVE  /\ Widen(x) = WidenSigned(x) <=> x[31] # 1
           /\ WidenSigned(x)[31] = x[31]
<1>1. x[31] = 0 \/ x[31] = 1
  BY WordBits DEF Bit
<1>2. Widen(x)[63] = 0 /\ WidenSigned(x)[63] = x[31] /\ WidenSigned(x)[31] = x[31]
  BY DEF Widen, WidenSigned
<1>3. ASSUME x[31] = 0
      PROVE  Widen(x) = WidenSigned(x)
  BY <1>3 DEF Widen, WidenSigned
<1>4. QED BY <1>1, <1>2, <1>3

\* The count of a word shift is in the low half of the second register.
LEMMA LowCount == \A a, b : Count(Low(a), Low(b)) = Count(Low(a), b)
<1> TAKE a, b
<1>1. Number(Low(b)) = Number(b)
  BY DEF Number, Low
<1>2. QED BY <1>1 DEF Count

LEMMA RegisterRight ==
    ASSUME NEW w \in Word, NEW a \in Long, NEW b \in Long, NEW p,
           Opcode(w) = \h33, RV64I(w)
    PROVE  exec_r(w, a, b) = Result(w, a, b, p) /\ ~ Departs(w, a, b, p)
<1> DEFINE alternate == w[30] = 1
<1>1. Funct3(w) \in 0 .. 7
  BY Funct3Type
<1>2. Result(w, a, b, p) = Alu(Funct3(w), alternate, a, b)
  BY DEF Result, LOAD, SAVE, JAL, JALR
<1>3. ~ Departs(w, a, b, p)
  BY DEF Departs, LOAD, SAVE, JAL, JALR
<1>4. CASE Funct7(w) = 0
  <2>1. ~ alternate
    BY <1>4, Funct7Bits
  <2> HIDE DEF alternate
  <2>2. exec_r(w, a, b) = Alu(Funct3(w), alternate, a, b)
    BY <1>1, <1>4, <2>1 DEF exec_r, Alu
  <2>3. QED BY <1>2, <1>3, <2>2 DEF alternate
<1>5. CASE Funct7(w) = \h20 /\ Funct3(w) \in {0, 5}
  <2>1. alternate
    BY <1>5, Funct7Bits
  <2> HIDE DEF alternate
  <2>2. exec_r(w, a, b) = Alu(Funct3(w), alternate, a, b)
    BY <1>5, <2>1 DEF exec_r, Alu
  <2>3. QED BY <1>2, <1>3, <2>2 DEF alternate
<1>6. QED BY <1>4, <1>5, WordsOfRV64I

LEMMA RegisterWordRight ==
    ASSUME NEW w \in Word, NEW a \in Long, NEW b \in Long, NEW p,
           Opcode(w) = \h3B, RV64I(w)
    PROVE  exec_r(w, a, b) = Result(w, a, b, p) <=> ~ Departs(w, a, b, p)
<1> DEFINE alternate == w[30] = 1
           x == Alu(Funct3(w), alternate, Low(a), Low(b))
<1>1. \/ Funct7(w) = 0 /\ Funct3(w) \in {0, 1, 5}
      \/ Funct7(w) = \h20 /\ Funct3(w) \in {0, 5}
  BY WordsOfRV64I
<1>2. alternate <=> Funct7(w) = \h20
  BY <1>1, Funct7Bits
<1>3. Result(w, a, b, p) = WidenSigned(x)
  BY DEF Result, LOAD, SAVE, JAL, JALR
<1>4. Departs(w, a, b, p) <=>
        \/ Funct7(w) = \h20 /\ Result(w, a, b, p) # Zero
        \/ Funct7(w) = 0 /\ Result(w, a, b, p)[31] = 1
  BY DEF Departs, LOAD, SAVE, JAL, JALR
<1> HIDE DEF alternate
<1>5. CASE Funct7(w) = 0
  <2>1. exec_r(w, a, b) = Widen(x)
    BY <1>1, <1>2, <1>5, LowCount DEF exec_r, Alu
  <2>2. x \in Word
    BY <1>1, <1>2, <1>5, LowCount, WordOperations DEF Alu
  <2> HIDE DEF x
  <2>3. QED BY <1>3, <1>4, <1>5, <2>1, <2>2, WidenedRight
<1>6. CASE Funct7(w) = \h20
  <2>1. exec_r(w, a, b) = Zero
    BY <1>6 DEF exec_r
  <2> HIDE DEF x
  <2>2. QED BY <1>4, <1>6, <2>1
<1>7. QED BY <1>1, <1>5, <1>6

LEMMA TruthTells == \A p, q \in BOOLEAN : Truth(p) = Truth(q) <=> (p <=> q)
<1> TAKE p, q \in BOOLEAN
<1>1. \A t \in BOOLEAN : Truth(t)[0] = IF t THEN 1 ELSE 0
  BY DEF Truth
<1>2. QED BY <1>1

LEMMA ImmediateRightI ==
    ASSUME NEW w \in Word, NEW a \in Long, NEW b, NEW p,
           Opcode(w) = \h13, RV64I(w)
    PROVE  exec_i(w, a, ImmediateI(w)) = Result(w, a, b, p) <=> ~ Departs(w, a, b, p)
<1> DEFINE i == ImmediateI(w)
           alternate == w[30] = 1 /\ Funct3(w) = 5
           r == Alu(Funct3(w), alternate, a, i)
<1> USE DEF LOAD, SAVE, JAL, JALR
<1>1. Funct3(w) \in 0 .. 7
  BY Funct3Type
<1>2. Result(w, a, b, p) = r
  BY DEF Result
<1>3. Departs(w, a, b, p) <=>
        \/ Funct3(w) = 1 /\ r # Truth(SignedBelow(a, i))
        \/ Funct3(w) = 3 /\ Below(a, i) /\ ~ Below(a, LowTwelve(i))
        \/ Funct3(w) = 5 /\ w[25] = 1 /\ r # Zero
  BY <1>2 DEF Departs, LowTwelve
<1> HIDE DEF i
<1>4. CASE Funct3(w) \in {0, 2, 4, 6, 7}
  <2>1. ~ alternate
    BY <1>4
  <2> HIDE DEF alternate
  <2>2. exec_i(w, a, i) = r
    BY <1>4, <2>1 DEF exec_i, Alu
  <2> HIDE DEF r
  <2>3. QED BY <1>2, <1>3, <1>4, <2>2 DEF i
<1>5. CASE Funct3(w) = 3
  <2>1. ~ alternate
    BY <1>5
  <2> HIDE DEF alternate
  <2>2. exec_i(w, a, i) = Truth(Below(a, LowTwelve(i)))
    <3>1. unsign_expand(i, 11) = LowTwelve(i)
      BY CutImmediate DEF i
    <3>2. QED BY <1>5, <3>1 DEF exec_i
  <2>3. r = Truth(Below(a, i))
    BY <1>5, <2>1 DEF Alu
  <2>4. Below(a, LowTwelve(i)) => Below(a, i)
    BY CutImmediate DEF i
  <2>5. Below(a, LowTwelve(i)) \in BOOLEAN /\ Below(a, i) \in BOOLEAN
    BY DEF Below
  <2>6. exec_i(w, a, i) = r <=> (Below(a, LowTwelve(i)) <=> Below(a, i))
    BY <2>2, <2>3, <2>5, TruthTells
  <2>7. Departs(w, a, b, p) <=> Below(a, i) /\ ~ Below(a, LowTwelve(i))
    BY <1>3, <1>5
  <2> HIDE DEF r
  <2>8. QED BY <1>2, <2>4, <2>6, <2>7 DEF i
<1>6. CASE Funct3(w) = 5
  <2>1. Funct7(w) \in {0, 1, \h20, \h21}
    BY <1>6, WordsOfRV64I
  <2>2. alternate <=> w[30] = 1
    BY <1>6
  <2> HIDE DEF alternate
  <2>3. CASE Funct7(w) \in {0, \h20}
    <3>1. w[25] = 0 /\ (alternate <=> Funct7(w) = \h20)
      BY <2>2, <2>3, Funct7Bits
    <3>2. exec_i(w, a, i) = r
      BY <1>6, <2>3, <3>1 DEF exec_i, Alu
    <3> HIDE DEF r
    <3>3. QED BY <1>2, <1>3, <1>6, <3>1, <3>2 DEF i
  <2>4. CASE Funct7(w) \in {1, \h21}
    <3>1. w[25] = 1
      BY <2>4, Funct7Bits
    <3>2. exec_i(w, a, i) = Zero
      BY <1>6, <2>4 DEF exec_i
    <3> HIDE DEF r
    <3>3. QED BY <1>2, <1>3, <1>6, <3>1, <3>2 DEF i
  <2>5. QED BY <2>1, <2>3, <2>4
<1>7. CASE Funct3(w) = 1
  <2>1. exec_i(w, a, i) = Truth(SignedBelow(a, i))
    BY <1>7 DEF exec_i
  <2> HIDE DEF r
  <2>2. QED BY <1>2, <1>3, <1>7, <2>1 DEF i
<1>8. QED BY <1>1, <1>4, <1>5, <1>6, <1>7

LEMMA ImmediateWordRight ==
    ASSUME NEW w \in Word, NEW a \in Long, NEW b, NEW p,
           Opcode(w) = \h1B, RV64I(w)
    PROVE  exec_i(w, a, ImmediateI(w)) = Result(w, a, b, p) <=> ~ Departs(w, a, b, p)
<1> DEFINE i == ImmediateI(w)
           alternate == w[30] = 1 /\ Funct3(w) = 5
           x == Alu(Funct3(w), alternate, Low(a), Low(i))
<1> USE DEF LOAD, SAVE, JAL, JALR
<1>1. \/ Funct3(w) = 0
      \/ Funct3(w) = 1 /\ Funct7(w) = 0
      \/ Funct3(w) = 5 /\ Funct7(w) \in {0, \h20}
  BY WordsOfRV64I
<1>2. Result(w, a, b, p) = WidenSigned(x)
  BY DEF Result
<1>3. Departs(w, a, b, p) <=>
        \/ Funct3(w) = 0 /\ Result(w, a, b, p) # Zero
        \/ Funct3(w) \in {1, 5} /\ Funct7(w) = 0 /\ Result(w, a, b, p)[31] = 1
  BY DEF Departs
<1>4. i \in Long
  BY ImmediateTypes
<1>5. Funct3(w) # 0 => (alternate <=> Funct7(w) = \h20)
  BY <1>1, Funct7Bits
<1> HIDE DEF i, alternate
<1>6. CASE Funct3(w) # 0 /\ Funct7(w) = 0
  <2>1. exec_i(w, a, i) = Widen(x)
    BY <1>1, <1>5, <1>6, LowCount DEF exec_i, Alu
  <2>2. x \in Word
    BY <1>1, <1>4, <1>5, <1>6, LowCount, WordOperations DEF Alu
  <2> HIDE DEF x
  <2>3. Departs(w, a, b, p) <=> Result(w, a, b, p)[31] = 1
    BY <1>1, <1>3, <1>6
  <2>4. QED BY <1>2, <2>1, <2>2, <2>3, WidenedRight DEF i
<1>7. CASE Funct3(w) # 0 /\ Funct7(w) = \h20
  <2>1. exec_i(w, a, i) = WidenSigned(x)
    BY <1>1, <1>5, <1>7, LowCount DEF exec_i, Alu
  <2> HIDE DEF x
  <2>2. QED BY <1>2, <1>3, <1>7, <2>1 DEF i
<1>8. CASE Funct3(w) = 0
  <2>1. exec_i(w, a, i) = Zero
    BY <1>8 DEF exec_i
  <2> HIDE DEF x
  <2>2. QED BY <1>3, <1>8, <2>1 DEF i
<1>9. QED BY <1>1, <1>6, <1>7, <1>8

\* The addresses of loads and stores, and the results that do not read a register.
LEMMA OthersRight ==
    ASSUME NEW w \in Word, NEW a \in Long, NEW b, NEW p
    PROVE  /\ Opcode(w) = LOAD => /\ exec_i(w, a, ImmediateI(w)) = Result(w, a, b, p)
                                  /\ ~ Departs(w, a, b, p)
           /\ Opcode(w) = SAVE => /\ exec_s(w, a, ImmediateS(w)) = Result(w, a, b, p)
                                  /\ ~ Departs(w, a, b, p)
           /\ Opcode(w) \in {\h37, \h17} =>
                /\ exec_u(w, ImmediateU(w), p) = Result(w, a, b, p)
                /\ ~ Departs(w, a, b, p)
           /\ Opcode(w) = JAL => exec_uj(p) = Result(w, a, b, p) /\ ~ Departs(w, a, b, p)
<1> USE DEF LOAD, SAVE, JAL, JALR
<1>1. ASSUME Opcode(w) = LOAD
      PROVE  exec_i(w, a, ImmediateI(w)) = Result(w, a, b, p)
  BY <1>1 DEF exec_i, Result
<1>2. ASSUME Opcode(w) = SAVE
      PROVE  exec_s(w, a, ImmediateS(w)) = Result(w, a, b, p)
  BY <1>2 DEF exec_s, Result
<1>3. ASSUME Opcode(w) \in {\h37, \h17}
      PROVE  exec_u(w, ImmediateU(w), p) = Result(w, a, b, p)
  BY <1>3 DEF exec_u, Result
<1>4. ASSUME Opcode(w) = JAL
      PROVE  exec_uj(p) = Result(w, a, b, p)
  BY <1>4 DEF exec_uj, Result
<1>5. ASSUME Opcode(w) \in {LOAD, SAVE, \h37, \h17, JAL}
      PROVE  ~ Departs(w, a, b, p)
  BY <1>5 DEF Departs
<1>6. QED BY <1>1, <1>2, <1>3, <1>4, <1>5

\* A conditional branch goes the right way but where bge and bgeu are wrong.
LEMMA BranchRight ==
    ASSUME NEW w \in Word, NEW a \in Long, NEW b \in Long, NEW p,
           Opcode(w) = \h63, RV64I(w)
    PROVE  exec_sb(w, a, b) = Condition(Funct3(w), a, b) <=> ~ Departs(w, a, b, p)
<1> DEFINE c == Condition(Funct3(w), a, b)
<1>1. Funct3(w) \in {0, 1, 4, 5, 6, 7}
  BY Funct3Type, WordsOfRV64I
<1>2. Departs(w, a, b, p) <=>
        \/ Funct3(w) = 5 /\ SignedBelow(b, a)
        \/ Funct3(w) = 7 /\ a = b
  BY DEF Departs, LOAD, SAVE, JAL, JALR
<1>3. exec_sb(w, a, b) \in BOOLEAN
  BY ExecSb
<1>4. c \in BOOLEAN /\ (c <=> \/ Funct3(w) = 0 /\ a = b
                              \/ Funct3(w) = 1 /\ a # b
                              \/ Funct3(w) = 4 /\ SignedBelow(a, b)
                              \/ Funct3(w) = 5 /\ ~ SignedBelow(a, b)
                              \/ Funct3(w) = 6 /\ Below(a, b)
                              \/ Funct3(w) = 7 /\ ~ Below(a, b))
  <2>0. SignedBelow(a, b) \in BOOLEAN /\ Below(a, b) \in BOOLEAN
    BY DEF SignedBelow, Below
  <2> DEFINE even == CASE Funct3(w) \in {0, 1} -> a = b
                       [] Funct3(w) \in {4, 5} -> SignedBelow(a, b)
                       [] Funct3(w) \in {6, 7} -> Below(a, b)
             odd == Funct3(w) % 2 = 1
  <2>1. c = (even # odd)
    BY Zenon DEF Condition
  <2>2. odd \in BOOLEAN /\ (odd <=> Funct3(w) \in {1, 5, 7})
    BY <1>1
  <2>3. ASSUME Funct3(w) \in {0, 1}
        PROVE  even \in BOOLEAN /\ (even <=> a = b)
    <3>1. even = (a = b)
      BY <2>3
    <3>2. QED BY <3>1, Zenon
  <2>4. ASSUME Funct3(w) \in {4, 5}
        PROVE  even \in BOOLEAN /\ (even <=> SignedBelow(a, b))
    <3>1. even = SignedBelow(a, b)
      BY <2>4
    <3>2. QED BY <2>0, <3>1, Zenon
  <2>5. ASSUME Funct3(w) \in {6, 7}
        PROVE  even \in BOOLEAN /\ (even <=> Below(a, b))
    <3>1. even = Below(a, b)
      BY <2>5
    <3>2. QED BY <2>0, <3>1, Zenon
  <2> HIDE DEF c, even, odd
  <2>6. even \in BOOLEAN
    BY <1>1, <2>3, <2>4, <2>5
  <2>7. c \in BOOLEAN /\ (c <=> (even <=> ~ odd))
    BY <2>1, <2>2, <2>6, Zenon
  <2>8. QED BY <1>1, <2>2, <2>3, <2>4, <2>5, <2>7
<1> HIDE DEF c
<1>5. CASE Funct3(w) \in {0, 1, 4, 6}
  <2>1. exec_sb(w, a, b) <=> c
    BY <1>4, <1>5, ExecSb
  <2>2. QED BY <1>2, <1>3, <1>4, <1>5, <2>1 DEF c
<1>6. CASE Funct3(w) = 5
  <2>1. exec_sb(w, a, b) <=> a = b
    BY <1>6, ExecSb
  <2>2. c <=> a = b \/ SignedBelow(b, a)
    BY <1>4, <1>6, SignedBelowTotal
  <2>3. SignedBelow(b, a) => a # b
    BY SignedBelowTotal
  <2>4. QED BY <1>2, <1>3, <1>4, <1>6, <2>1, <2>2, <2>3 DEF c
<1>7. CASE Funct3(w) = 7
  <2>1. exec_sb(w, a, b) <=> Below(b, a)
    BY <1>7, ExecSb
  <2>2. c <=> a = b \/ Below(b, a)
    BY <1>4, <1>7, BelowTotal
  <2>3. Below(b, a) => a # b
    BY BelowTotal
  <2>4. QED BY <1>2, <1>3, <1>4, <1>7, <2>1, <2>2, <2>3 DEF c
<1>8. QED BY <1>1, <1>5, <1>6, <1>7

-----------------------------------------------------------------------------
(* From the word to the result. *)

\* The immediate of each format is the one the format names.
LEMMA ImmediateOf ==
    ASSUME NEW w \in Word
    PROVE  /\ Opcode(w) \in {LOAD, \h13, \h1B, JALR} => get_imm(w) = ImmediateI(w)
           /\ Opcode(w) = SAVE => get_imm(w) = ImmediateS(w)
           /\ Opcode(w) = \h63 => get_imm(w) = ImmediateB(w)
           /\ Opcode(w) \in {\h37, \h17} => get_imm(w) = ImmediateU(w)
           /\ Opcode(w) = JAL => get_imm(w) = ImmediateJ(w)
<1> USE DEF LOAD, SAVE, JAL, JALR
<1>1. ImmediateRight(w)
  BY ImmediatesRight
<1>2. ASSUME Opcode(w) \in {LOAD, \h13, \h1B, JALR}
      PROVE  get_imm(w) = ImmediateI(w)
  BY <1>1, <1>2 DEF get_imm, ImmediateRight, is_i, is_s, is_sb, is_u, is_uj
<1>3. ASSUME Opcode(w) = SAVE
      PROVE  get_imm(w) = ImmediateS(w)
  BY <1>1, <1>3 DEF get_imm, ImmediateRight, is_i, is_s, is_sb, is_u, is_uj
<1>4. ASSUME Opcode(w) = \h63
      PROVE  get_imm(w) = ImmediateB(w)
  BY <1>1, <1>4 DEF get_imm, ImmediateRight, is_i, is_s, is_sb, is_u, is_uj
<1>5. ASSUME Opcode(w) \in {\h37, \h17}
      PROVE  get_imm(w) = ImmediateU(w)
  BY <1>1, <1>5 DEF get_imm, ImmediateRight, is_i, is_s, is_sb, is_u, is_uj
<1>6. ASSUME Opcode(w) = JAL
      PROVE  get_imm(w) = ImmediateJ(w)
  BY <1>1, <1>6 DEF get_imm, ImmediateRight, is_i, is_s, is_sb, is_u, is_uj
<1>7. QED BY <1>2, <1>3, <1>4, <1>5, <1>6

\* What the decode stage hands to the execute stage: the registers the word
\* names, its immediate and, for a branch, the pc plus that.
Decoded ==
    LET opcode == Opcode(instruction)
    IN  stage = "execute" =>
          /\ has_rs1(opcode) => reg1 = First
          /\ has_rs2(opcode) => reg2 = Second
          /\ has_imm(opcode) => imm = get_imm(instruction)
          /\ is_branch(opcode) => extend_pc = Plus(pc, imm, 0)

LEMMA DecodedStep == Decoded /\ [Next]_vars => Decoded'
<1> SUFFICES ASSUME Decoded, [Next]_vars
             PROVE  Decoded'
  OBVIOUS
<1>1. CASE decode_stage
  BY <1>1 DEF decode_stage, Decoded, First, Second, register_read_one
<1>2. CASE stage_execute
  BY <1>2 DEF stage_execute, Decoded
<1>3. CASE UNCHANGED vars
  BY <1>3 DEF vars, Decoded, First, Second, register_read_one
<1>4. QED BY <1>1, <1>2, <1>3 DEF Next

\* The operands of the instructions that compute a value.
LEMMA Operands ==
    ASSUME Typed
    PROVE  First \in Long /\ Second \in Long
BY RegisterType, WidenTypes DEF Typed, First, Second, register_read_one

\* The value computed is the right one, unless the word and its operands are
\* among those on which the executor departs from RV64I.
LEMMA ValueRight ==
    ASSUME Typed, Decoded, stage = "execute", RV64I(instruction),
           Opcode(instruction) \notin {\h63, JALR}
    PROVE  execute_stage(instruction, Opcode(instruction)) = Result(instruction, First, Second, pc)
             <=> ~ Departs(instruction, First, Second, pc)
<1> DEFINE w == instruction
           opcode == Opcode(instruction)
           value == execute_stage(instruction, Opcode(instruction))
<1> USE DEF LOAD, SAVE, JAL, JALR
<1>1. w \in Word /\ First \in Long /\ Second \in Long
  BY Operands DEF Typed
<1>2. opcode \in {\h33, \h3B, \h13, \h1B, LOAD, SAVE, \h37, \h17, JAL}
  BY WordsOfRV64I
<1>3. ASSUME opcode \in {\h33, \h3B}
      PROVE  value = exec_r(w, First, Second)
  <2>1. reg1 = First /\ reg2 = Second
    BY <1>3 DEF Decoded, has_rs1, has_rs2, is_r
  <2>2. QED BY <1>3, <2>1 DEF execute_stage, is_r, is_i, is_s, is_u, is_uj
<1>4. ASSUME opcode \in {LOAD, \h13, \h1B}
      PROVE  value = exec_i(w, First, ImmediateI(w))
  <2>1. reg1 = First /\ imm = ImmediateI(w)
    BY <1>1, <1>4, ImmediateOf DEF Decoded, has_rs1, has_imm, is_i
  <2>2. QED BY <1>4, <2>1 DEF execute_stage, is_r, is_i, is_s, is_u, is_uj
<1>5. ASSUME opcode = SAVE
      PROVE  value = exec_s(w, First, ImmediateS(w))
  <2>1. reg1 = First /\ imm = ImmediateS(w)
    BY <1>1, <1>5, ImmediateOf DEF Decoded, has_rs1, has_imm, is_s
  <2>2. QED BY <1>5, <2>1 DEF execute_stage, is_r, is_i, is_s, is_u, is_uj
<1>6. ASSUME opcode \in {\h37, \h17}
      PROVE  value = exec_u(w, ImmediateU(w), pc)
  <2>1. imm = ImmediateU(w)
    BY <1>1, <1>6, ImmediateOf DEF Decoded, has_imm, is_u
  <2>2. QED BY <1>6, <2>1 DEF execute_stage, is_r, is_i, is_s, is_u, is_uj
<1>7. ASSUME opcode = JAL
      PROVE  value = exec_uj(pc)
  BY <1>7 DEF execute_stage, is_r, is_i, is_s, is_u, is_uj
<1> HIDE DEF value
<1>8. CASE opcode = \h33
  BY <1>1, <1>3, <1>8, RegisterRight DEF value
<1>9. CASE opcode = \h3B
  BY <1>1, <1>3, <1>9, RegisterWordRight DEF value
<1>10. CASE opcode = \h13
  BY <1>1, <1>4, <1>10, ImmediateRightI DEF value
<1>11. CASE opcode = \h1B
  BY <1>1, <1>4, <1>11, ImmediateWordRight DEF value
<1>12. CASE opcode \in {LOAD, SAVE, \h37, \h17, JAL}
  BY <1>1, <1>4, <1>5, <1>6, <1>7, <1>12, OthersRight DEF value
<1>13. QED BY <1>2, <1>8, <1>9, <1>10, <1>11, <1>12

\* A branch that is taken goes where the word says.
LEMMA TargetRight ==
    ASSUME Typed, Decoded, stage = "execute", Opcode(instruction) \in {\h63, JAL}
    PROVE  extend_pc = Target(instruction, First, pc)
<1> DEFINE w == instruction
<1> USE DEF LOAD, SAVE, JAL, JALR
<1>1. extend_pc = Plus(pc, imm, 0) /\ imm = get_imm(w)
  BY DEF Decoded, is_branch, has_imm, is_sb, is_uj
<1>2. Opcode(w) = \h63 => imm = ImmediateB(w)
  BY <1>1, ImmediateOf DEF Typed
<1>3. Opcode(w) = JAL => imm = ImmediateJ(w)
  BY <1>1, ImmediateOf DEF Typed
<1>4. QED BY <1>1, <1>2, <1>3 DEF Target

LEMMA ExecuteDeviates ==
    ASSUME Typed, Decoded, stage_execute
    PROVE  DeviatesExactly'
<1> DEFINE w == instruction
           opcode == Opcode(instruction)
<1> USE DEF LOAD, SAVE, JAL, JALR
<1>1. SUFFICES ASSUME RV64I(w)
               PROVE  Right' <=> ~ Departs(w, First, Second, pc)
  BY DEF stage_execute, DeviatesExactly, First, Second, register_read_one
<1>2. stage = "execute" /\ First \in Long /\ Second \in Long /\ w \in Word
  BY Operands DEF stage_execute, Typed
<1>3. /\ res' = execute_stage(w, opcode) /\ branch' = branch_stage(w, opcode)
      /\ UNCHANGED <<instruction, file, pc, extend_pc>>
  BY DEF stage_execute
<1>4. CASE opcode = \h63
  <2>1. Right' <=> /\ branch' = Condition(Funct3(w), First, Second)
                   /\ branch' => extend_pc = Target(w, First, pc)
    BY <1>3, <1>4 DEF Right, First, Second, register_read_one, is_sb
  <2>2. branch' = exec_sb(w, reg1, reg2)
    BY <1>3, <1>4 DEF branch_stage, is_sb
  <2>3. reg1 = First /\ reg2 = Second
    BY <1>2, <1>4 DEF Decoded, has_rs1, has_rs2, is_sb
  <2>4. extend_pc = Target(w, First, pc)
    BY <1>2, <1>4, TargetRight
  <2>5. branch' = Condition(Funct3(w), First, Second) <=> ~ Departs(w, First, Second, pc)
    BY <1>1, <1>2, <1>4, <2>2, <2>3, BranchRight
  <2>6. QED BY <2>1, <2>4, <2>5
<1>5. CASE opcode \notin {\h63, JALR}
  <2>1. Right' <=> /\ res' = Result(w, First, Second, pc)
                   /\ branch' = (opcode \in {JAL, JALR})
                   /\ branch' => extend_pc = Target(w, First, pc)
    BY <1>3, <1>5 DEF Right, First, Second, register_read_one, is_sb
  <2>2. branch' = (opcode \in {JALR, JAL})
    BY <1>3, <1>5 DEF branch_stage, is_sb
  <2>4. opcode = JAL => extend_pc = Target(w, First, pc)
    BY <1>2, TargetRight
  <2>5. res' = Result(w, First, Second, pc) <=> ~ Departs(w, First, Second, pc)
    BY <1>1, <1>2, <1>3, <1>5, ValueRight
  <2>6. QED BY <1>5, <2>1, <2>2, <2>4, <2>5
<1>6. CASE opcode = JALR
  <2>1. Right' <=> /\ res' = Result(w, First, Second, pc)
                   /\ branch' = (opcode \in {JAL, JALR})
                   /\ branch' => extend_pc = Target(w, First, pc)
    BY <1>3, <1>6 DEF Right, First, Second, register_read_one, is_sb
  <2>2. res' = Plus(pc, Four, 0)
    BY <1>3, <1>6 DEF execute_stage, is_r, is_i, is_s, is_u, is_uj
  <2>3. Result(w, First, Second, pc) = Plus(pc, Four, 0)
    BY <1>6 DEF Result
  <2>4. branch' = (opcode \in {JALR, JAL}) /\ opcode \in {JALR, JAL}
    BY <1>3, <1>6 DEF branch_stage, is_sb
  <2>5. extend_pc = Plus(pc, ImmediateI(w), 0)
    <3>1. extend_pc = Plus(pc, imm, 0) /\ imm = get_imm(w)
      BY <1>2, <1>6 DEF Decoded, is_branch, has_imm, is_i
    <3>2. QED BY <1>2, <1>6, <3>1, ImmediateOf
  <2>6. Departs(w, First, Second, pc) <=> Target(w, First, pc) # Plus(pc, ImmediateI(w), 0)
    BY <1>6 DEF Departs
  <2>7. QED BY <2>1, <2>2, <2>3, <2>4, <2>5, <2>6
<1>7. QED BY <1>4, <1>5, <1>6

\* For every word of RV64I, whatever its registers hold and whatever its pc: the
\* value, the outcome and the target are those of RV64I except in the cases
\* named by Departs, and in every one of those they are not (decode_stage,
\* execute_stage, branch_stage, executor.c).
THEOREM ExecutorDeviates == Spec => []DeviatesExactly
<1> DEFINE Inv == Typed /\ Decoded /\ DeviatesExactly
<1>1. Init => Inv
  <2>1. Init => stage = "decode"
    BY DEF Init
  <2>2. QED BY <2>1, TypedInit DEF Decoded, DeviatesExactly
<1>2. Inv /\ [Next]_vars => Inv'
  <2> SUFFICES ASSUME Inv, [Next]_vars
               PROVE  Inv'
    OBVIOUS
  <2>1. Typed' /\ Decoded'
    BY TypedStep, DecodedStep
  <2>2. DeviatesExactly'
    <3>1. CASE decode_stage
      BY <3>1 DEF decode_stage, DeviatesExactly
    <3>2. CASE stage_execute
      BY <3>2, ExecuteDeviates
    <3>3. CASE UNCHANGED vars
      BY <3>3 DEF vars, DeviatesExactly, Right, First, Second, register_read_one
    <3>4. QED BY <3>1, <3>2, <3>3 DEF Next
  <2>3. QED BY <2>1, <2>2
<1>3. QED BY <1>1, <1>2, PTL DEF Spec

\* The immediate of whatever word is executed is the one its format names,
\* sign and all (get_imm_i to get_imm_uj, sign_expand).
THEOREM ImmediatesStayRight == Spec => []ImmediatesAreRight
<1>1. Typed => ImmediatesAreRight
  BY ImmediatesRight DEF Typed, ImmediatesAreRight
<1>2. QED BY <1>1, TypedInit, TypedStep, PTL DEF Spec

=============================================================================

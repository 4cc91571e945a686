----------------------------- MODULE MCExecutor -----------------------------
EXTENDS Executor

Bits(width, ones) == [k \in 0 .. width - 1 |-> IF k \in ones THEN 1 ELSE 0]

\* The word with opcode, rd = 3, funct3, rs1 = 1 and, in bits 20 to 31, the
\* ones of upper; bits 7 to 11 are free for the formats without rd.
WordOf(opcode, f3, upper, rd) ==
    [k \in 0 .. 31 |-> CASE k < 7          -> (opcode \div 2 ^ k) % 2
                         [] k \in 7 .. 11  -> IF k - 7 \in rd THEN 1 ELSE 0
                         [] k \in 12 .. 14 -> (f3 \div 2 ^ (k - 12)) % 2
                         [] k \in 15 .. 19 -> IF k = 15 THEN 1 ELSE 0
                         [] OTHER          -> IF k - 20 \in upper THEN 1 ELSE 0]

\* rs2 = 2, under funct7 0, 1 and 0x20.
Register == {{1}, {1, 5}, {1, 10}}

\* 0, -1, 2047, -2048, and the shifts by 5, 33 and, arithmetic, by 5 and 33.
Immediates == {{}, 0 .. 11, 0 .. 10, {11}, {0, 2}, {0, 5}, {0, 2, 10}, {0, 5, 10}}

RegisterWords ==
    {WordOf(o, f, u, {0, 1}) : o \in {\h33, \h3B}, f \in 0 .. 7, u \in Register}
      \cup {WordOf(\h63, f, u, {3, 4}) : f \in 0 .. 7, u \in {{1}, {1, 11}}}

ImmediateWords ==
    {WordOf(o, f, u, {0, 1}) : o \in {\h13, \h1B}, f \in 0 .. 7, u \in Immediates}
      \cup {WordOf(o, f, u, {0, 1}) : o \in {LOAD, JALR, \h73, \h37, \h17, JAL, \h0F},
                                      f \in {0, 1, 3}, u \in {{}, {11}, 0 .. 11, {0, 3}}}
      \cup {WordOf(SAVE, f, u, {0, 3}) : f \in {0, 3}, u \in {{1}, {1, 11}}}
      \cup {[WordOf(o, 0, {0, 2}, {0, 1}) EXCEPT ![15] = 0] : o \in {\h13, LOAD}}

\* 0, 1, -1, 37, 64, 4095, and the ends of the signed and unsigned words of 32 and 64.
Operands == {Bits(64, ones) : ones \in {{}, {0}, 0 .. 63, {0, 2, 5}, {6}, 0 .. 11, 0 .. 30, {31},
                                        0 .. 31, 31 .. 63, 0 .. 62, {63}}}

\* Register 0 has been written to, which register_write allows.
File(a, b) == [r \in 0 .. 31 |-> CASE r = 0 -> Four [] r = 1 -> a [] r = 2 -> b [] OTHER -> Zero]

\* The second operand matters to the words that name it.
MCInputs ==
    [instruction : RegisterWords, file : {File(a, b) : a \in Operands, b \in Operands},
     pc : {Bits(64, {2, 3, 12})}]
      \cup [instruction : ImmediateWords, file : {File(a, Zero) : a \in Operands},
            pc : {Bits(64, {2, 3, 12}), Bits(64, 12 .. 63)}]

MCLeftovers == {Bits(64, {1, 40})}

=============================================================================

------------------------------ MODULE Decoding ------------------------------
(***************************************************************************)
(* How utils.c takes an instruction word apart.  A word or a register      *)
(* value is the function from its bit numbers to 0 and 1.                  *)
(***************************************************************************)
EXTENDS Integers

WORDLENGTH == 32
DOUBLEWORD == 64

Word == [0 .. WORDLENGTH - 1 -> {0, 1}]
Long == [0 .. DOUBLEWORD - 1 -> {0, 1}]

\* The shifts of an unsigned value by less than its width, and OR.
ShiftLeft(w, n) == [k \in DOMAIN w |-> IF k >= n THEN w[k - n] ELSE 0]

ShiftRight(w, n) == [k \in DOMAIN w |-> IF k + n \in DOMAIN w THEN w[k + n] ELSE 0]

Or(v, w) == [k \in DOMAIN v |-> IF v[k] = 1 \/ w[k] = 1 THEN 1 ELSE 0]

get_bits(instruction, low, high) ==
    ShiftRight(ShiftLeft(instruction, WORDLENGTH - 1 - high),
               WORDLENGTH - (high - low + 1))

get_opcode(w) == get_bits(w, 0, 6)
get_rd(w)     == get_bits(w, 7, 11)
get_funct3(w) == get_bits(w, 12, 14)
get_rs1(w)    == get_bits(w, 15, 19)
get_rs2(w)    == get_bits(w, 20, 24)
get_funct7(w) == get_bits(w, 25, 31)

\* Mutant: the mask starts one bit too high.
sign_expand_Late(imm, bit_num) ==
    [k \in 0 .. DOUBLEWORD - 1 |->
        IF imm[bit_num] = 1 /\ k > bit_num + 1 THEN 1
        ELSE IF k < WORDLENGTH THEN imm[k] ELSE 0]

\* With bit_num set, the bits above it are set; else imm is widened with zeroes.
sign_expand(imm, bit_num) ==
    [k \in 0 .. DOUBLEWORD - 1 |->
        IF imm[bit_num] = 1 /\ k > bit_num THEN 1
        ELSE IF k < WORDLENGTH THEN imm[k] ELSE 0]

get_imm_i(w) == sign_expand(get_bits(w, 20, 31), 11)

get_imm_s(w) ==
    sign_expand(Or(ShiftLeft(get_bits(w, 25, 31), 5), get_bits(w, 7, 11)), 11)

get_imm_sb(w) ==
    sign_expand(Or(Or(ShiftLeft(get_bits(w, 31, 31), 12),
                      ShiftLeft(get_bits(w, 25, 30), 5)),
                   Or(ShiftLeft(get_bits(w, 8, 11), 1),
                      ShiftLeft(get_bits(w, 7, 7), 11))), 12)

get_imm_u(w) == sign_expand(ShiftLeft(get_bits(w, 12, 31), 12), 31)

get_imm_uj(w) ==
    sign_expand(Or(Or(ShiftLeft(get_bits(w, 31, 31), 20),
                      ShiftLeft(get_bits(w, 21, 30), 1)),
                   Or(ShiftLeft(get_bits(w, 20, 20), 11),
                      ShiftLeft(get_bits(w, 12, 19), 12))), 20)

-----------------------------------------------------------------------------
(* Reference: where each bit of an immediate stands in a word (RISC-V      *)
(* instruction set manual, the immediates of the I, S, B, U and J formats).*)

ImmediateI(w) == [k \in 0 .. 63 |-> IF k <= 10 THEN w[k + 20] ELSE w[31]]

ImmediateS(w) ==
    [k \in 0 .. 63 |-> IF k <= 4 THEN w[k + 7] ELSE IF k <= 10 THEN w[k + 20] ELSE w[31]]

ImmediateB(w) ==
    [k \in 0 .. 63 |-> IF k = 0 THEN 0
                       ELSE IF k <= 4 THEN w[k + 7]
                       ELSE IF k <= 10 THEN w[k + 20]
                       ELSE IF k = 11 THEN w[7]
                       ELSE w[31]]

ImmediateU(w) ==
    [k \in 0 .. 63 |-> IF k <= 11 THEN 0 ELSE IF k <= 30 THEN w[k] ELSE w[31]]

ImmediateJ(w) ==
    [k \in 0 .. 63 |-> IF k = 0 THEN 0
                       ELSE IF k <= 10 THEN w[k + 20]
                       ELSE IF k = 11 THEN w[20]
                       ELSE IF k <= 19 THEN w[k]
                       ELSE w[31]]

\* Each immediate is put together from the bits the manual names, in their
\* order, and its sign reaches bit 63 (get_imm_i to get_imm_uj, sign_expand).
ImmediateRight(w) ==
    /\ get_imm_i(w) = ImmediateI(w)
    /\ get_imm_s(w) = ImmediateS(w)
    /\ get_imm_sb(w) = ImmediateB(w)
    /\ get_imm_u(w) = ImmediateU(w)
    /\ get_imm_uj(w) = ImmediateJ(w)

=============================================================================

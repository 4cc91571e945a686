----------------------------- MODULE MCPipeline -----------------------------
(***************************************************************************)
(* Instances of the pipeline for TLC: eight words of memory in lines of    *)
(* two, two BTB entries, registers x0 to x2, values 0 and 1.               *)
(***************************************************************************)
EXTENDS PipelineInvariant, Sequences

Word(op, rd, rs1, rs2, imm) ==
    [op |-> op, rd |-> rd, rs1 |-> rs1, rs2 |-> rs2, imm |-> imm]

Add(rd, rs1, rs2) == Word("R", rd, rs1, rs2, 0)
Addi(rd, rs1, imm) == Word("I", rd, rs1, 0, imm)
Ld(rd, rs1) == Word("LOAD", rd, rs1, 0, 0)
Sd(rs1, rs2) == Word("SAVE", 0, rs1, rs2, 0)
Beq(rs1, rs2, imm) == Word("SB", 0, rs1, rs2, imm)
Lui(rd, imm) == Word("U", rd, 0, 0, imm)
Jal(rd, imm) == Word("JAL", rd, 0, 0, imm)
\* A word of no group, whose fields name registers all the same.
Fence == Word("OTHER", 1, 2, 1, 0)
Ebreak == Word("EBREAK", 0, 0, 0, 1)

\* A memory image: the words given, then zeroes.
Image(words) ==
    [a \in PC |-> IF a < Len(words) THEN words[a + 1] ELSE NOP]

MCExec(i, reg1, reg2, a) ==
    CASE i.op = "R"  -> (reg1 + reg2) % 2
      [] i.op \in {"I", "LOAD", "SAVE"} -> (reg1 + i.imm) % 2
      [] i.op = "U"  -> i.imm % 2
      [] i.op \in {"JAL", "JALR"} -> (a + 1) % 2
      [] OTHER       -> 0

MCTaken(i, reg1, reg2) == reg1 = reg2

\* Loops of three words and a conditional branch back to the first, which is
\* where the interactions of stalls, squashes, replays and predictions lie:
\* producers and consumers at every distance, loads feeding loads and
\* branches, a forward branch and a jump inside the loop, results for x0.
\* EBREAK stands three words behind the branch: closer, the fetches behind the
\* unresolved branch reach it and end the run (see StopsOnlyAtEbreak).
MCLoops ==
    {Image(<<a, b, c, Beq(1, 2, -3),
            Lui(1, 0), Fence, Lui(2, 1), Ebreak>>) :
        a \in {Addi(1, 1, 1), Ld(1, 2), Addi(0, 1, 1), Beq(1, 0, 2), Lui(2, 1)},
        b \in {Addi(1, 1, 1), Ld(2, 0), Add(2, 1, 2), Jal(2, 1), Beq(0, 2, -1)},
        c \in {Add(2, 1, 1), Ld(1, 1), Add(1, 0, 2), Beq(2, 0, -2), Sd(1, 2)}}

\* A few loops for the runs that also end a run after any cycle.
MCSplitLoops ==
    {Image(<<a, b, Beq(1, 2, -2), Lui(1, 0), Beq(0, 1, -4), Lui(2, 1), Lui(1, 1), Ebreak>>) :
        a \in {Ld(1, 2), Beq(2, 0, 2), Addi(1, 1, 1)},
        b \in {Add(2, 1, 2), Jal(0, 1)}}

\* instructions/jump/jump.s: jal x1, _test; ebreak; _test: lui x3, 10.
MCJumpTest == {Image(<<Jal(1, 2), Ebreak, Lui(2, 1)>>)}

\* A forward jump to a block that is not in the instruction cache.
MCForwardJump == {Image(<<Jal(0, 4), Addi(1, 1, 1), Addi(1, 1, 1), Addi(1, 1, 1),
                          Lui(2, 1), Lui(1, 1), Lui(2, 0), Ebreak>>)}

=============================================================================

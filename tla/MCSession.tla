----------------------------- MODULE MCSession ------------------------------
(***************************************************************************)
(* Sessions over two programs whose backward branches stand at the same    *)
(* address and have different targets, and whose other words differ too.   *)
(***************************************************************************)
EXTENDS Session, MCPipeline

MCPair ==
    {Image(<<Lui(2, 1), Ld(1, 2), Beq(1, 2, -1), Lui(1, 0), Lui(2, 0), Ebreak>>),
     Image(<<Addi(1, 1, 1), Add(2, 1, 2), Beq(1, 2, -2), Lui(1, 0), Lui(1, 1), Ebreak>>)}

=============================================================================

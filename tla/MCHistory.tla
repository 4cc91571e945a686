----------------------------- MODULE MCHistory ------------------------------
(***************************************************************************)
(* The programs of MCPipeline for the pipeline with its history variable.  *)
(***************************************************************************)
EXTENDS RefinementInvariant, MCPipeline

=============================================================================

------------------------------- MODULE MCLedger -------------------------------
(***************************************************************************)
(* The block tree of MCChain for the refinement of ChainLedger.            *)
(***************************************************************************)
EXTENDS MCChain, ChainLedger

=============================================================================

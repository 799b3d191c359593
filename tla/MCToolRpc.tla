----------------------------- MODULE MCToolRpc -----------------------------
(* Small instances of ToolRpc.                                              *)
EXTENDS ToolRpc, TLC

Symmetry == Permutations(Req)
=============================================================================

----------------------------- MODULE MCSessions -----------------------------
(* Small instances of Sessions.                                             *)
EXTENDS Sessions, TLC

Symmetry == Permutations(Conn) \cup Permutations(Prompt)
=============================================================================

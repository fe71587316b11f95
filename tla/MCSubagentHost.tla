--------------------------- MODULE MCSubagentHost ---------------------------
(* Small instances of SubagentHost: one child, two or three processes.     *)
EXTENDS SubagentHost, TLC

CONSTANTS p1, p2, p3, pa, ca, cb, r1, child

Symmetry == Permutations(Procs)
=============================================================================

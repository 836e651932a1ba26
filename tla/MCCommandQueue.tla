--------------------------- MODULE MCCommandQueue ---------------------------
(* Small instances of CommandQueue for TLC. *)
EXTENDS CommandQueue, TLC

CONSTANTS x1, x2, x3, a1, a2, d1

CommandSymmetry == Permutations(Commands) \cup Permutations(Calls)
=============================================================================

----------------------------- MODULE MCDtaScan -----------------------------
(* Symmetry for the runs of DtaScan that check safety only: the threads    *)
(* differ in nothing but their name.                                       *)
EXTENDS DtaScan, TLC

ThreadSymmetry == Permutations(Threads)
=============================================================================

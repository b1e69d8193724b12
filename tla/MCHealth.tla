------------------------------ MODULE MCHealth ------------------------------
(***************************************************************************)
(* Small instances of Health: a container under probe and another one, two *)
(* processes in each.  Processes and threads are interchangeable.          *)
(***************************************************************************)
EXTENDS Health, TLC

Symmetry == Permutations(Processes) \cup Permutations(Threads)
=============================================================================

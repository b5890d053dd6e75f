------------------------------ MODULE MCAutoBlock ------------------------------
(* Model checking of AutoBlock: its calls of one kind are interchangeable. *)
EXTENDS AutoBlock, TLC

Symmetry ==
  Permutations(Denials) \cup Permutations(Arrivals) \cup Permutations(Unblocks)
===============================================================================

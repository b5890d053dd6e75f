-------------------------- MODULE MCRequestLifecycle --------------------------
(* Model checking of RequestLifecycle: symmetry for its safety runs. *)
EXTENDS RequestLifecycle, TLC

Symmetry == Permutations(Calls)
===============================================================================

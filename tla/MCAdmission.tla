------------------------------ MODULE MCAdmission ------------------------------
(* Model checking of Admission: calls of one kind, and countries, are        *)
(* interchangeable.                                                          *)
EXTENDS Admission, TLC

Symmetry ==
  Permutations(Creates) \cup Permutations(Deletes) \cup Permutations(Countries)
===============================================================================

----------------------------- MODULE MCAgentAccess -----------------------------
(* Model checking of AgentAccess: runs of sync are interchangeable. *)
EXTENDS AgentAccess, TLC

Symmetry == Permutations(Syncs) \cup Permutations(Grants)
===============================================================================

----------------------------- MODULE MCProjects -----------------------------
(* Projects for TLC: requests and keys are interchangeable.                *)
EXTENDS Projects, TLC

Symmetry ==
    Permutations(Workers) \cup Permutations(Keys)
=============================================================================

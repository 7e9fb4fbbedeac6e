----------------------------- MODULE MCIncident -----------------------------
(* Instances of Incident for TLC.                                          *)
EXTENDS Incident, TLC

Symmetry == Permutations(Workers) \cup Permutations(Users)
=============================================================================

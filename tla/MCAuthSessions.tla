--------------------------- MODULE MCAuthSessions ---------------------------
(* AuthSessions for TLC: requests and jti values are interchangeable.      *)
EXTENDS AuthSessions, TLC

Symmetry == Permutations(Workers) \cup Permutations(Tokens)
=============================================================================

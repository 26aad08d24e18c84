--------------------------- MODULE MCAuthSessions ---------------------------
(* Small instances of AuthSessions.                                         *)
EXTENDS AuthSessions, TLC

Symmetry == Permutations(Tokens) \cup Permutations(Requests) \cup Permutations(Passwords)
=============================================================================

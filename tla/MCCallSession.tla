---------------------------- MODULE MCCallSession ----------------------------
(* Model checking of CallSession.                                           *)
EXTENDS CallSession, TLC

\* Users, ids of calls and workers are interchangeable.
Symmetry == Permutations(Users) \cup Permutations(CallIds) \cup Permutations(Workers)
=============================================================================

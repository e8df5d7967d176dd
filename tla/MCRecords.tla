----------------------------- MODULE MCRecords -----------------------------
(***************************************************************************)
(* Records with two sessions, a user with a name and one without.          *)
(***************************************************************************)
EXTENDS Records, TLC

CONSTANTS s1, s2

MCSessions == {s1, s2}

SymmetricSessions == Permutations(MCSessions)
=============================================================================

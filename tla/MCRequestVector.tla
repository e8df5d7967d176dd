-------------------------- MODULE MCRequestVector ---------------------------
(***************************************************************************)
(* The vector of RequestVector with few requests: calls that never overlap *)
(* and grow the vector from nothing, and calls that overlap on a vector    *)
(* with some capacity.                                                     *)
(***************************************************************************)
EXTENDS RequestVector

Start(c, o, r) == [capacity |-> c, overlap |-> o, requests |-> r]

InTurnOrRacing == {Start(0, FALSE, 5), Start(2, TRUE, 4)}

Racing == {Start(4, TRUE, 3)}
=============================================================================

----------------------------- MODULE MCLoadTest -----------------------------
(***************************************************************************)
(* LoadTest with two clients.                                              *)
(***************************************************************************)
EXTENDS LoadTest

MCClients == 1 .. 2

MCRounds == <<2, 1>>
=============================================================================

-------------------------- MODULE MCLocationServer --------------------------
(***************************************************************************)
(* The process of LocationServer on small sets of users, names and         *)
(* requests.                                                               *)
(***************************************************************************)
EXTENDS LocationServer
=============================================================================

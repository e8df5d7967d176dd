----------------------------- MODULE MCConnPool -----------------------------
(***************************************************************************)
(* ConnPool with a pool of two connections and three handler threads, so   *)
(* that the pool is at its limit, is empty and holds closed connections.   *)
(***************************************************************************)
EXTENDS ConnPool, TLC

HandlerSymmetry == Permutations(Handlers)
=============================================================================

-------------------------- MODULE MCDataContextMgr --------------------------
(* Small instances of DataContextMgr for TLC. *)
EXTENDS DataContextMgr, TLC

Interchangeable ==
  Permutations(Threads) \cup Permutations(Contexts) \cup Permutations(Trans)
=============================================================================

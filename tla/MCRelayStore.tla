---------------------------- MODULE MCRelayStore ----------------------------
(* RelayStore on small instances: two connections race on the store, its   *)
(* writer and the flusher.  Connections are interchangeable.               *)
EXTENDS RelayStore, TLC

HandleSymmetry == Permutations(Handles)
=============================================================================

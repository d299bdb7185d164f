---------------------------- MODULE MCFileStore ----------------------------
(***************************************************************************)
(* Symmetry for checking FileStore with TLC.                               *)
(***************************************************************************)
EXTENDS FileStore, TLC

Symmetric == Permutations(Clients)
=============================================================================

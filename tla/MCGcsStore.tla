----------------------------- MODULE MCGcsStore -----------------------------
(***************************************************************************)
(* Symmetry for checking GcsStore with TLC.                                *)
(***************************************************************************)
EXTENDS GcsStore, TLC

Symmetric == Permutations(Clients)
=============================================================================

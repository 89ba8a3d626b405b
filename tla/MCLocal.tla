------------------------------ MODULE MCLocal ------------------------------
(***************************************************************************)
(* Small instances of the local transport.  Process ids are only compared  *)
(* for equality and chosen by \E, so that permuting them changes nothing.  *)
(***************************************************************************)
EXTENDS PyConnectLocal, TLC

Symmetry == Permutations(Pids)
=============================================================================

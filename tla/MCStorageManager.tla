-------------------------- MODULE MCStorageManager --------------------------
(***************************************************************************)
(* The instances of StorageManager that TLC checks.                        *)
(***************************************************************************)
EXTENDS StorageManager, TLC

\* Clients are told apart only by what they do.
ClientSymmetry == Permutations(Clients)
=============================================================================

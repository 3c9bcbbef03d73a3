------------------------- MODULE MCCredentialStore -------------------------
(***************************************************************************)
(* The instance of CredentialStore that TLC checks.  The names of calls    *)
(* are strings, so the configuration gives every constant its value.  The  *)
(* flash tasks are interchangeable, but a property of fairness is among    *)
(* those checked, so no symmetry is used.                                  *)
(***************************************************************************)
EXTENDS CredentialStore
============================================================================

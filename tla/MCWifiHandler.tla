--------------------------- MODULE MCWifiHandler ---------------------------
(***************************************************************************)
(* The instances of WifiHandler that TLC checks.  The event names and the  *)
(* names of the calls that may fail are strings, so the configurations     *)
(* give every constant its value.                                          *)
(***************************************************************************)
EXTENDS WifiHandler
============================================================================

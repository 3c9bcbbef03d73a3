---------------------------- MODULE MCDashboard ----------------------------
(***************************************************************************)
(* The instance of Dashboard for TLC: two slots in either queue and two    *)
(* blocks in all, so that queues and heap run full; one request of any     *)
(* kind, whose payload and its copy are under way together, or one call of *)
(* wifi_flash_store_creds; each other public call once.  A block meets another only in the limits of the heap and    *)
(* the queues.                                                             *)
(***************************************************************************)
EXTENDS Dashboard
=============================================================================

-------------------------------- MODULE Heap --------------------------------
(***************************************************************************)
(* The heap blocks that change hands between tasks: packed mode requests   *)
(* (comp_decomp_data.h) and copies of credentials (wifi_service.c).  A     *)
(* block has a number of its own, so that a block used after it was        *)
(* released is never mistaken for another.                                 *)
(***************************************************************************)
EXTENDS Naturals

CONSTANT MaxBlocks   \* bound on the blocks allocated

ASSUME HeapAssumption == MaxBlocks \in Nat

NoBlock == 0
Blocks  == 1 .. MaxBlocks

VARIABLES
  heap,     \* the blocks in use
  used,     \* how many there have been
  lost,     \* history: blocks that nobody will release
  misused   \* history: a released object was used, and which

heapVars == <<heap, used, lost, misused>>

\* malloc; it may fail when the bound is reached.
Full  == used = MaxBlocks
Fresh == used + 1
Allocate ==
  /\ ~Full
  /\ used' = Fresh
  /\ heap' = heap \cup {Fresh}
  /\ UNCHANGED <<lost, misused>>

\* free of a block, or of NULL.
Release(b) ==
  /\ heap' = heap \ {b}
  /\ misused' = IF b \in heap \cup {NoBlock} THEN misused ELSE misused \cup {"block"}
  /\ UNCHANGED <<used, lost>>

\* The last reference to the blocks bs is gone.
Lose(bs) ==
  /\ lost' = lost \cup (bs \ {NoBlock})
  /\ UNCHANGED <<heap, used, misused>>

Misuse(object) ==
  /\ misused' = misused \cup {object}
  /\ UNCHANGED <<heap, used, lost>>

HeapInit == heap = {} /\ used = 0 /\ lost = {} /\ misused = {}
=============================================================================

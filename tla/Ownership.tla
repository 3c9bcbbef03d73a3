------------------------------ MODULE Ownership ------------------------------
(***************************************************************************)
(* What cJSON promises about its structs, without lists: each of them      *)
(* belongs to one document.  A program holds the roots of its documents,   *)
(* gives a root away to a parent, takes a member back, and deletes what it *)
(* holds, all below it included.                                           *)
(***************************************************************************)
EXTENDS Naturals, Sequences

CONSTANT Items

VARIABLES
  live,   \* items that are allocated
  kids,   \* the members of each
  held    \* roots the program holds

ownVars == <<live, kids, held>>

Closed(k, S) == \A p \in S : k[p] \subseteq S

\* The item i and all below it.
Tree(k, i) == {j \in Items : \A S \in SUBSET Items : i \in S /\ Closed(k, S) => j \in S}

\* q goes through the tree of i, every parent before its kids.
Enumerates(k, i, q) ==
  /\ q[1] = i
  /\ \A n \in 2 .. Len(q) : \E m \in 1 .. n - 1 : q[n] \in k[q[m]]
  /\ \A n \in 1 .. Len(q) : \A j \in k[q[n]] : \E m \in 1 .. Len(q) : q[m] = j

Cleared(k, S)     == [j \in Items |-> IF j \in S THEN {} ELSE k[j]]
Given(k, p, i)    == [k EXCEPT ![p] = @ \cup {i}]
Taken(k, p, i)    == [k EXCEPT ![p] = @ \ {i}]

\* The tree of i, in which nothing else is, is gone.
Gone(k, i) == /\ live' = live \ Tree(k, i)
              /\ kids' = Cleared(k, Tree(k, i))

Create ==
  \E i \in Items \ live :
    live' = live \cup {i} /\ held' = held \cup {i} /\ UNCHANGED kids

\* A document never becomes a part of itself.
Give ==
  \E p \in live, i \in held :
    /\ p \notin Tree(kids, i)
    /\ kids' = Given(kids, p, i) /\ held' = held \ {i} /\ UNCHANGED live

Take ==
  \E p \in live : \E i \in kids[p] :
    kids' = Taken(kids, p, i) /\ held' = held \cup {i} /\ UNCHANGED live

\* One member for another; the old one is gone.
Exchange ==
  \E p \in live, new \in held : \E i \in kids[p] :
    /\ p \notin Tree(kids, new)
    /\ Gone(Given(Taken(kids, p, i), p, new), i)
    /\ held' = held \ {new}

Destroy ==
  \E i \in held : Gone(kids, i) /\ held' = held \ {i}

DestroyMember ==
  \E p \in live : \E i \in kids[p] :
    Gone(Taken(kids, p, i), i) /\ UNCHANGED held

Init == live = {} /\ kids = [p \in Items |-> {}] /\ held = {}

Next == Create \/ Give \/ Take \/ Exchange \/ Destroy \/ DestroyMember

Spec == Init /\ [][Next]_ownVars

-----------------------------------------------------------------------------
\* Every item is in exactly one document: none is lost to the program, none is
\* reached from two places, and none that is freed is reached at all.
Owned ==
  /\ \A r \in held : Tree(kids, r) \subseteq live
  /\ \A i \in live : \E r \in held : i \in Tree(kids, r)
  /\ \A r, s \in held : r # s => Tree(kids, r) \cap Tree(kids, s) = {}
  /\ \A p, q \in Items : p # q => kids[p] \cap kids[q] = {}
  /\ \A p \in Items : kids[p] \cap held = {}
=============================================================================

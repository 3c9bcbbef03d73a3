------------------------------ MODULE ItemLists ------------------------------
(***************************************************************************)
(* What the list calls of cJSON promise, without pointers: every item has  *)
(* a list of items, and no item is in two places.  A call changes one list *)
(* at one place.                                                           *)
(***************************************************************************)
EXTENDS Naturals, Sequences

CONSTANT Items

VARIABLE lists

Behind(s, i)       == Append(s, i)
Without(s, k)      == [l \in 1 .. Len(s) - 1 |-> IF l < k THEN s[l] ELSE s[l + 1]]
With(s, k, i)      == [l \in 1 .. Len(s) + 1 |->
                         IF l < k THEN s[l] ELSE IF l = k THEN i ELSE s[l - 1]]
Exchanged(s, k, i) == [s EXCEPT ![k] = i]

Listed == UNION {{lists[p][n] : n \in DOMAIN lists[p]} : p \in Items}
Free   == Items \ Listed

\* The list of p is s then, and no other list has changed.
Becomes(p, s) == lists'[p] = s /\ lists' = [lists EXCEPT ![p] = s]

\* A new last member.
Add ==
  \E i \in Free : \E p \in Items \ {i} :
    Becomes(p, Behind(lists[p], i))

Remove ==
  \E p \in Items : \E k \in DOMAIN lists[p] :
    Becomes(p, Without(lists[p], k))

\* A new member at k; those from k on move up.
Insert ==
  \E i \in Free, p \in Items : \E k \in DOMAIN lists[p] :
    Becomes(p, With(lists[p], k, i))

Replace ==
  \E i \in Free, p \in Items : \E k \in DOMAIN lists[p] :
    Becomes(p, Exchanged(lists[p], k, i))

Init ==
  /\ lists \in [Items -> Seq(Items)]
  /\ \A p, q \in Items : \A m \in DOMAIN lists[p], n \in DOMAIN lists[q] :
       lists[p][m] = lists[q][n] => p = q /\ m = n

Next == Add \/ Remove \/ Insert \/ Replace

Spec == Init /\ [][Next]_lists
=============================================================================

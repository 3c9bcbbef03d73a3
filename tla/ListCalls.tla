------------------------------ MODULE ListCalls ------------------------------
(***************************************************************************)
(* A program that calls the list functions of cJSON.c on a heap, one after *)
(* the other.  It keeps to what they ask of it: an item it adds is in no   *)
(* list yet, and one it takes out is a member of the parent it names.      *)
(***************************************************************************)
EXTENDS CJsonLists

CONSTANTS
  Size,   \* the structs of the heap
  Data    \* what they hold besides the links

VARIABLE heap

Addresses == 1 .. Size

\* The members of every struct, in their order.
Contents(h) == [p \in Addresses |-> CHOOSE s \in Seq(Addresses) : IsList(h, p, s)]

IsMember(i, p) == Holds(Contents(heap)[p], i)
InNoList(i)    == \A p \in Addresses : ~IsMember(i, p)

\* cJSON_AddItemToArray and, after the key, cJSON_AddItemToObject.
AddItem ==
  \E p, i \in Addresses :
    /\ InNoList(i)
    /\ heap' = Appended(heap, p, i).h

DetachItem ==
  \E p, i \in Addresses :
    /\ IsMember(i, p)
    /\ heap' = DetachItemViaPointer(heap, p, i)

InsertItem ==
  \E p, i, new \in Addresses :
    /\ IsMember(i, p) /\ InNoList(new)
    /\ heap' = Insert(heap, p, i, new)

\* The replaced struct can be deleted then.
ReplaceItem ==
  \E p, i, new \in Addresses :
    /\ IsMember(i, p) /\ InNoList(new)
    /\ heap' = Relinked(heap, p, i, new)

\* What has been parsed or built is whole.
Init ==
  /\ heap \in Heaps(Addresses, Data)
  /\ \E lists \in [Addresses -> Seq(Addresses)] : Whole(heap, lists)

Next == AddItem \/ DetachItem \/ InsertItem \/ ReplaceItem

Spec == Init /\ [][Next]_heap

-----------------------------------------------------------------------------
Seqs == INSTANCE ItemLists WITH Items <- Addresses, lists <- Contents(heap)

\* Every list is whole.
ListsWhole == Whole(heap, Contents(heap))

\* The calls do to the members of p what they would do to a sequence.
AreSequences == Seqs!Spec
=============================================================================

------------------------------ MODULE Documents ------------------------------
(***************************************************************************)
(* A program that makes, joins, takes apart and deletes documents on the   *)
(* heap of ListCalls, one call of cJSON.c after the other, and holds the   *)
(* roots.  It keeps to what the calls ask of it: what it adds it holds, a  *)
(* document never becomes a part of itself, a member it names is one of    *)
(* the parent it names, and it makes no references.  A call that refuses   *)
(* or finds no memory changes nothing.                                     *)
(***************************************************************************)
EXTENDS ListCalls

VARIABLE held   \* the roots the program holds

docVars == <<heap, held>>

Values == Data \cup {"Invalid", "free", <<>>, NoKey, FALSE, 0, {}}

\* The members of each, in any order.
Kids(h) == [p \in Addresses |-> {i \in Addresses : Holds(Contents(h)[p], i)}]

Own == INSTANCE Ownership WITH
         Items <- Addresses, live <- Live(heap), kids <- Kids(heap), held <- held

Tree(h, i) == Own!Tree(Kids(h), i)

Made(h, i, t, v) == [h EXCEPT !.at[i] = [Blank EXCEPT !.type = t, !.val = v]]

\* cJSON_Delete of an item that is in no list.
Deleted(h, i) == Freed(h, Tree(h, i))

\* The calls by name give the item a key first.
Named(h, i, k) == [h EXCEPT !.at[i].key = k]
MaybeNamed(i)  == {heap} \cup {Named(heap, i, k) : k \in Data}

Create ==
  \E i \in Addresses \ Live(heap), t \in Data \ {"free"}, v \in Data :
    /\ heap' = Made(heap, i, t, v)
    /\ held' = held \cup {i}

\* To an array or an object.
Add ==
  \E p \in Live(heap), i \in held : \E h \in MaybeNamed(i) :
    /\ p \notin Tree(heap, i)
    /\ heap' = Appended(h, p, i).h
    /\ held' = held \ {i}

InsertInArray ==
  \E p, i \in Live(heap), new \in held :
    /\ IsMember(i, p) /\ p \notin Tree(heap, new)
    /\ heap' = Insert(heap, p, i, new)
    /\ held' = held \ {new}

\* By pointer, index or name.
Replace ==
  \E p, i \in Live(heap), new \in held : \E h \in MaybeNamed(new) :
    /\ IsMember(i, p) /\ p \notin Tree(heap, new)
    /\ heap' = Deleted(Relinked(h, p, i, new), i)
    /\ held' = held \ {new}

\* No such member, but the item has its name already; or no memory for the name,
\* and the old one is gone.
ReplaceNothing ==
  \E new \in held :
    /\ heap' \in MaybeNamed(new) \cup {Named(heap, new, NoKey)}
    /\ UNCHANGED held

Detach ==
  \E p, i \in Live(heap) :
    /\ IsMember(i, p)
    /\ heap' = DetachItemViaPointer(heap, p, i)
    /\ held' = held \cup {i}

Delete ==
  \E i \in held :
    /\ heap' = Deleted(heap, i)
    /\ held' = held \ {i}

DeleteMember ==
  \E p, i \in Live(heap) :
    /\ IsMember(i, p)
    /\ heap' = Deleted(DetachItemViaPointer(heap, p, i), i)
    /\ UNCHANGED held

\* Nothing is allocated.
DocInit ==
  /\ heap = [at |-> [i \in Addresses |-> Free], lost |-> FALSE, leaked |-> {}, fails |-> 0]
  /\ held = {}

DocNext == \/ Create \/ Add \/ InsertInArray \/ Replace \/ ReplaceNothing
           \/ Detach \/ Delete \/ DeleteMember

DocSpec == DocInit /\ [][DocNext]_docVars

-----------------------------------------------------------------------------
\* Every struct is in exactly one document of the program.
DocumentsOwned == Own!Owned

\* The calls on the heap implement the calls on documents.
ManageDocuments == Own!Spec
=============================================================================

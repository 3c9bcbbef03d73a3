------------------------------ MODULE CJsonLists ------------------------------
(***************************************************************************)
(* The lists of cJSON.c: the members of an array or object p start at      *)
(* p's child and are chained by next and prev.  By convention the prev of  *)
(* the first member is the last one; appending relies on it.               *)
(*                                                                         *)
(* A heap h has the structs h.at.                                          *)
(***************************************************************************)
EXTENDS Integers, Sequences

Null == 0

\* Structs at the addresses D, with data from X; and heaps of them.
Structs(D, X) ==
  [type : X, val : X, key : X, ref : X,
   child : D \cup {Null}, next : D \cup {Null}, prev : D \cup {Null}]
Heaps(D, X) == [at : [D -> Structs(D, X)], lost : X, leaked : X, fails : X]

NoKey == <<"NULL">>          \* string = NULL

Blank == [type |-> "Invalid", val |-> <<>>, key |-> NoKey,
          child |-> Null, next |-> Null, prev |-> Null, ref |-> FALSE]
Free  == [Blank EXCEPT !.type = "free"]

Live(h)     == {i \in DOMAIN h.at : h.at[i].type # "free"}
Freed(h, S) == [h EXCEPT !.at = [i \in DOMAIN h.at |-> IF i \in S THEN Free ELSE h.at[i]]]

\* The heap after a call, and its answer.
Result(h, r) == [h |-> h, r |-> r]

WithChild(h, i, c) == [h EXCEPT !.at[i].child = c]
WithNext(h, i, n)  == [h EXCEPT !.at[i].next = n]
WithPrev(h, i, p)  == [h EXCEPT !.at[i].prev = p]

\* suffix_object.
Suffix(h, last, i) == WithPrev(WithNext(h, last, i), i, last)

\* add_item_to_array: behind what the first member's prev says is the last;
\* when that is NULL the item goes nowhere, and the call still succeeds.
Appended(h, a, i) ==
  LET first == h.at[a].child
      last  == h.at[first].prev
  IN  IF Null \in {a, i} \/ a = i THEN Result(h, FALSE)
      ELSE IF first = Null THEN Result(WithNext(WithPrev(WithChild(h, a, i), i, i), i, Null), TRUE)
      ELSE IF last = Null THEN Result(h, TRUE)
      ELSE Result(WithPrev(Suffix(h, last, i), first, i), TRUE)

\* Mutant: still chained to what was behind it.
LooseBefore(h, i) == WithPrev(h, i, Null)

\* Chained to nothing.
Loose(h, i) == WithNext(WithPrev(h, i, Null), i, Null)

\* Mutant: the list's last member is not brought up to date.
DetachForgetsLast(h, p, i) ==
  LET before == h.at[i].prev
      after  == h.at[i].next
      first  == h.at[p].child
      un1    == IF i = first THEN h ELSE WithNext(h, before, after)
      un2    == IF after = Null THEN un1 ELSE WithPrev(un1, after, before)
      un3    == IF i = first THEN WithChild(un2, p, after) ELSE un2
  IN  IF Null \in {p, i} THEN h ELSE Loose(un3, i)

\* Mutant: the parent keeps its first member.
DetachKeepsChild(h, p, i) ==
  LET before == h.at[i].prev
      after  == h.at[i].next
      first  == h.at[p].child
      un1    == IF i = first THEN h ELSE WithNext(h, before, after)
      un2    == IF after = Null THEN un1 ELSE WithPrev(un1, after, before)
      un3    == IF i # first /\ after = Null THEN WithPrev(un2, first, before) ELSE un2
  IN  IF Null \in {p, i} THEN h ELSE Loose(un3, i)

\* cJSON_DetachItemViaPointer, of the member i of p.
DetachItemViaPointer(h, p, i) ==
  LET before == h.at[i].prev
      after  == h.at[i].next
      first  == h.at[p].child
      un1    == IF i = first THEN h ELSE WithNext(h, before, after)
      un2    == IF after = Null THEN un1 ELSE WithPrev(un1, after, before)
      un3    == IF i = first THEN WithChild(un2, p, after)
                ELSE IF after = Null THEN WithPrev(un2, first, before) ELSE un2
  IN  IF Null \in {p, i} THEN h ELSE Loose(un3, i)

\* Before the member i of a, keeping the first member's prev.
Insert(h, a, i, new) ==
  LET before == h.at[i].prev
      put    == WithPrev(WithPrev(WithNext(h, new, i), new, before), i, new)
  IN  IF i = h.at[a].child THEN WithChild(put, a, new) ELSE WithNext(put, before, new)

\* new in the place of the member i of p.
Relinked(h, p, i, new) ==
  LET first == h.at[p].child
      after == h.at[i].next
      prev  == IF i = first /\ h.at[i].prev = i THEN new ELSE h.at[i].prev
      put   == WithPrev(WithNext(h, new, after), new, prev)
      link  == IF after = Null THEN put ELSE WithPrev(put, after, new)
      back  == IF prev = Null THEN link ELSE WithNext(link, prev, new)
      place == IF i = first THEN WithChild(link, p, new)
               ELSE IF after = Null THEN WithPrev(back, first, new) ELSE back
  IN  Loose(place, i)

-----------------------------------------------------------------------------
(* What lists are.                                                          *)

Holds(s, i) == \E n \in DOMAIN s : s[n] = i

\* The members of p are those of the sequence s, in its order.
IsList(h, p, s) ==
  /\ \A n \in DOMAIN s : s[n] \in DOMAIN h.at
  /\ \A m, n \in DOMAIN s : m # n => s[m] # s[n]
  /\ h.at[p].child = IF s = <<>> THEN Null ELSE s[1]
  /\ \A n \in DOMAIN s : /\ h.at[s[n]].next = IF n = Len(s) THEN Null ELSE s[n + 1]
                         /\ h.at[s[n]].prev = s[IF n = 1 THEN Len(s) ELSE n - 1]

\* Every list is a sequence of members of its own; what is in none of them is
\* chained to nothing.
Whole(h, lists) ==
  /\ \A p \in DOMAIN lists : IsList(h, p, lists[p])
  /\ \A p, q \in DOMAIN lists : p # q => \A n \in DOMAIN lists[p] : ~Holds(lists[q], lists[p][n])
  /\ \A i \in DOMAIN h.at : (\A p \in DOMAIN lists : ~Holds(lists[p], i)) => h.at[i].next = Null
=============================================================================

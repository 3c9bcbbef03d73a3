-------------------------------- MODULE CJson --------------------------------
(***************************************************************************)
(* The documents of cJSON.c: structs on a heap, with the lists of          *)
(* CJsonLists.                                                             *)
(*                                                                         *)
(* A heap h has the structs h.at, and remembers whether an append reached  *)
(* a member that was not the last (h.lost), and the items that were to be  *)
(* added, were not, and were forgotten (h.leaked).  The allocation that    *)
(* fails next is the h.fails'th from now on, of the structs and the names  *)
(* copied for members; besides it those fail that find no free struct.     *)
(* Operators that allocate or answer yield a Result: the heap afterwards,  *)
(* and the answer.  Strings are sequences of characters; the failure of    *)
(* one that belongs to a new struct is the struct's.                       *)
(***************************************************************************)
EXTENDS CJsonLists, FiniteSets

\* true and false are like these; raw texts are left out.
Scalars    == {"Number", "String", "NULL"}
Containers == {"Array", "Object"}

Heap(size)   == [at |-> [i \in 1..size |-> Free], lost |-> FALSE, leaked |-> {}, fails |-> 0]
IsA(h, i, t) == i # Null /\ h.at[i].type = t

Alphabet == <<"-", "/", "0", "1", "2", "3", "4", "5", "6", "7", ":", "A", "B", "a", "b", "c",
              "m", "p", "s", "|", "~">>
Chars   == {Alphabet[n] : n \in DOMAIN Alphabet}
Code    == [c \in Chars |-> CHOOSE n \in DOMAIN Alphabet : Alphabet[n] = c]
Lower   == [c \in Chars |-> CASE c = "A" -> "a" [] c = "B" -> "b" [] OTHER -> c]
AnyCase == [c \in Chars |-> Code[Lower[c]]]

\* How s and t compare: strcmp, or character by character in lower case.
Diff(s, t, cs) ==
  LET code     == IF cs THEN Code ELSE AnyCase
      at(q, i) == IF i > Len(q) THEN 0 ELSE code[q[i]]
      differ   == {i \in 1 .. Len(s) + 1 : at(s, i) # at(t, i)}
  IN  IF s = NoKey \/ t = NoKey THEN 1
      ELSE IF differ = {} THEN 0
      ELSE LET i == CHOOSE j \in differ : \A k \in differ : j <= k IN at(s, i) - at(t, i)

-----------------------------------------------------------------------------
(* Structs and lists.                                                       *)

\* No memory: for this allocation; for one so far.
Refused(h) == h.fails = 1
Failed     == -1
Fails(h)   == [h EXCEPT !.fails = Failed]
Grants(h)  == [h EXCEPT !.fails = IF @ > 1 THEN @ - 1 ELSE @]

NewItem(h) ==
  IF Refused(h) \/ Live(h) = DOMAIN h.at THEN Result(Fails(h), Null)
  ELSE LET i == CHOOSE j \in DOMAIN h.at \ Live(h) :
                  \A k \in DOMAIN h.at \ Live(h) : j <= k
       IN  Result([Grants(h) EXCEPT !.at[i] = Blank], i)

Create(h, t, v) ==
  LET n == NewItem(h)
  IN  IF n.r = Null THEN n ELSE Result([n.h EXCEPT !.at[n.r].type = t, !.at[n.r].val = v], n.r)

RECURSIVE DeleteAll(_, _)
\* Mutant: deletes what a reference shows.
DeleteAll(h, i) ==
  IF i = Null THEN h
  ELSE DeleteAll([DeleteAll(h, h.at[i].child) EXCEPT !.at[i] = Free], h.at[i].next)

RECURSIVE Delete(_, _)
\* The item, what it owns, and everything chained behind it.
Delete(h, i) ==
  IF i = Null THEN h
  ELSE LET below == IF h.at[i].ref THEN h ELSE Delete(h, h.at[i].child)
       IN  Delete([below EXCEPT !.at[i] = Free], h.at[i].next)

RECURSIVE Chain(_, _)
Chain(h, i) == IF i = Null THEN <<>> ELSE <<i>> \o Chain(h, h.at[i].next)

Members(h, p) == Chain(h, h.at[p].child)
Tail_(h, p)   == LET c == Members(h, p) IN c[Len(c)]

GetArrayItem(h, a, n) ==
  LET c == Members(h, a) IN IF n \in 0 .. Len(c) - 1 THEN c[n + 1] ELSE Null

\* The first member called k; a member without a name ends an exact search.
GetObjectItem(h, o, k, cs) ==
  LET c    == Members(h, o)
      stop == {n \in DOMAIN c : LET key == h.at[c[n]].key
                                IN  Diff(k, key, cs) = 0 \/ (cs /\ key = NoKey)}
      n    == CHOOSE i \in stop : \A j \in stop : i <= j
  IN  IF stop = {} \/ h.at[c[n]].key = NoKey THEN Null ELSE c[n]

\* The heap remembers an append to a list whose first member's prev is not its
\* last member: it cuts members off, or goes nowhere.
AddItemToArray(h, a, i) ==
  LET r     == Appended(h, a, i)
      first == h.at[a].child
  IN  IF ~r.r \/ first = Null THEN r
      ELSE Result([r.h EXCEPT !.lost = @ \/ h.at[first].prev # Tail_(h, a)], TRUE)

AddItemToObject(h, o, k, i) ==
  IF Null \in {o, i} \/ o = i THEN Result(h, FALSE)
  ELSE IF Refused(h) THEN Result(Fails(h), FALSE)
  ELSE AddItemToArray([Grants(h) EXCEPT !.at[i].key = k], o, i)

\* By a caller who does not look at the answer: what is refused is leaked.
AddUnseen(h, o, k, i) ==
  LET a == AddItemToObject(h, o, k, i)
  IN  IF a.r \/ i = Null THEN a.h ELSE [a.h EXCEPT !.leaked = @ \cup {i}]

AddNewToObject(h, o, k, t) ==
  LET n == Create(h, t, <<>>)
      a == AddItemToObject(n.h, o, k, n.r)
  IN  IF a.r THEN Result(a.h, n.r) ELSE Result(Delete(a.h, n.r), Null)

CreateReference(h, i) ==
  LET n == NewItem(h)
  IN  IF i = Null \/ n.r = Null THEN Result(n.h, Null)
      ELSE Result([n.h EXCEPT !.at[n.r] = [h.at[i] EXCEPT !.key = NoKey, !.ref = TRUE,
                                             !.next = Null, !.prev = Null]], n.r)

\* A reference to the list from child on, cJSON_CreateArrayReference.
CreateListReference(h, t, child) ==
  LET n == Create(h, t, <<>>)
  IN  IF n.r = Null THEN n
      ELSE Result([n.h EXCEPT !.at[n.r].child = child, !.at[n.r].ref = TRUE], n.r)

RECURSIVE Numbers(_, _, _, _)
\* count numbers into the array a, behind the last so far; a failure deletes it.
Numbers(h, a, last, count) ==
  LET n    == Create(h, "Number", <<"1">>)
      link == IF last = Null THEN WithChild(n.h, a, n.r)
              ELSE Suffix(n.h, last, n.r)
  IN  IF count = 0
      THEN Result(IF last = Null THEN h ELSE WithPrev(h, h.at[a].child, last), a)
      ELSE IF n.r = Null THEN Result(Delete(n.h, a), Null)
      ELSE Numbers(link, a, n.r, count - 1)

CreateIntArray(h, count) ==
  LET a == Create(h, "Array", <<>>)
  IN  IF a.r = Null THEN a ELSE Numbers(a.h, a.r, Null, count)

InsertItemInArray(h, a, n, new) ==
  LET i == GetArrayItem(h, a, n)
  IN  IF i = Null THEN AddItemToArray(h, a, new)
      ELSE IF i # h.at[a].child /\ h.at[i].prev = Null THEN Result(h, FALSE)
      ELSE Result(Insert(h, a, i, new), TRUE)

ReplaceItemViaPointer(h, p, i, new) ==
  IF Null \in {p, i, new} THEN Result(h, FALSE)
  ELSE IF i = new THEN Result(h, TRUE)
  ELSE Result(Delete(Relinked(h, p, i, new), i), TRUE)

\* The replacement takes the key first, whether or not there is such a member;
\* it has none when there is no memory for it.
ReplaceItemInObject(h, o, k, new, cs) ==
  LET named == [Grants(h) EXCEPT !.at[new].key = k]
  IN  IF Refused(h) THEN Result([Fails(h) EXCEPT !.at[new].key = NoKey], FALSE)
      ELSE ReplaceItemViaPointer(named, o, GetObjectItem(named, o, k, cs), new)

-----------------------------------------------------------------------------
(* Whole documents.                                                         *)

RECURSIVE Duplicate(_, _, _), CopyMembers(_, _, _, _)
Duplicate(h, i, deep) ==
  IF i = Null THEN Result(h, Null)
  ELSE LET n    == NewItem(h)
           copy == [n.h EXCEPT !.at[n.r] = [h.at[i] EXCEPT !.child = Null, !.next = Null,
                                              !.prev = Null, !.ref = FALSE]]
       IN  IF n.r = Null THEN n
           ELSE IF deep THEN CopyMembers(copy, n.r, h.at[i].child, Null)
           ELSE Result(copy, n.r)

\* Mutant: after a failure the deleted copy is returned.
CopyMembersAnyway(h, to, i, last) ==
  LET d == Duplicate(h, i, TRUE)
  IN  IF i = Null
      THEN Result(IF last = Null THEN h ELSE WithPrev(h, h.at[to].child, last), to)
      ELSE IF d.r = Null THEN Result(Delete(d.h, to), to)
      ELSE CopyMembers(IF last = Null THEN WithChild(d.h, to, d.r)
                       ELSE Suffix(d.h, last, d.r),
                       to, h.at[i].next, d.r)

\* The members from i on, behind the last copied so far; a failure deletes all.
CopyMembers(h, to, i, last) ==
  LET d == Duplicate(h, i, TRUE)
  IN  IF i = Null
      THEN Result(IF last = Null THEN h ELSE WithPrev(h, h.at[to].child, last), to)
      ELSE IF d.r = Null THEN Result(Delete(d.h, to), Null)
      ELSE CopyMembers(IF last = Null THEN WithChild(d.h, to, d.r)
                       ELSE Suffix(d.h, last, d.r),
                       to, h.at[i].next, d.r)

RECURSIVE Compare(_, _, _, _)
\* Mutant: the members of b are not looked for in a.
CompareSubset(h, a, b, cs) ==
  LET as == Members(h, a)
      bs == Members(h, b)
      In(x, o) == LET y == GetObjectItem(h, o, h.at[x].key, cs)
                  IN  y # Null /\ Compare(h, x, y, cs)
  IN  /\ Null \notin {a, b}
      /\ h.at[a].type = h.at[b].type /\ h.at[a].type # "Invalid"
      /\ \/ a = b
         \/ h.at[a].type \in Scalars /\ h.at[a].val = h.at[b].val
         \/ /\ h.at[a].type = "Array"
            /\ Len(as) = Len(bs) /\ \A n \in DOMAIN as : Compare(h, as[n], bs[n], cs)
         \/ /\ h.at[a].type = "Object"
            /\ \A n \in DOMAIN as : In(as[n], b)

\* Members are looked for by name, those of a in b and those of b in a.
Compare(h, a, b, cs) ==
  LET as == Members(h, a)
      bs == Members(h, b)
      In(x, o) == LET y == GetObjectItem(h, o, h.at[x].key, cs)
                  IN  y # Null /\ Compare(h, x, y, cs)
  IN  /\ Null \notin {a, b}
      /\ h.at[a].type = h.at[b].type /\ h.at[a].type # "Invalid"
      /\ \/ a = b
         \/ h.at[a].type \in Scalars /\ h.at[a].val = h.at[b].val
         \/ /\ h.at[a].type = "Array"
            /\ Len(as) = Len(bs) /\ \A n \in DOMAIN as : Compare(h, as[n], bs[n], cs)
         \/ /\ h.at[a].type = "Object"
            /\ \A n \in DOMAIN as : In(as[n], b)
            /\ \A n \in DOMAIN bs : In(bs[n], a)

-----------------------------------------------------------------------------
(* Texts, and the parser: a text is [type, val, kids], kids a sequence of   *)
(* <<key, text>> in the order written.                                      *)

RECURSIVE ParseInto(_, _, _), ParseMembers(_, _, _, _, _)
\* parse_value into the struct i; r = FALSE when memory runs out, and then
\* the members made so far are gone.
ParseInto(h, i, text) ==
  IF text.type \in Scalars
  THEN Result([h EXCEPT !.at[i].type = text.type, !.at[i].val = text.val], TRUE)
  ELSE LET ms == ParseMembers(h, text.kids, 1, Null, Null)
       IN  IF ms.r = FALSE THEN Result(ms.h, FALSE)
           ELSE Result([ms.h EXCEPT !.at[i].type = text.type, !.at[i].child = ms.first], TRUE)

ParseMembers(h, kids, n, first, last) ==
  LET new    == NewItem(h)
      named  == [new.h EXCEPT !.at[new.r].key = kids[n][1]]
      linked == IF last = Null THEN named
                ELSE Suffix(named, last, new.r)
      value  == ParseInto(linked, new.r, kids[n][2])
      head   == IF first = Null THEN new.r ELSE first
  IN  IF n > Len(kids)
      THEN [h |-> IF first = Null THEN h ELSE WithPrev(h, first, last),
            r |-> TRUE, first |-> first]
      ELSE IF new.r = Null THEN [h |-> Delete(new.h, first), r |-> FALSE, first |-> Null]
      ELSE IF ~value.r THEN [h |-> Delete(value.h, head), r |-> FALSE, first |-> Null]
      ELSE ParseMembers(value.h, kids, n + 1, head, new.r)

Parse(h, text) ==
  LET n == NewItem(h)
      v == ParseInto(n.h, n.r, text)
  IN  IF n.r = Null THEN n
      ELSE IF v.r THEN Result(v.h, n.r) ELSE Result(Delete(v.h, n.r), Null)
=============================================================================

--------------------------- MODULE CJsonListsProofs ---------------------------
(***************************************************************************)
(* The calls that change lists do to the links what their names say of a   *)
(* sequence: for heaps and lists of any size, appending, detaching,        *)
(* inserting and replacing leave every list whole, and all lists but one   *)
(* as they were.  So a program that makes these calls in any order has     *)
(* sequences in its lists, and one that also makes and deletes structs     *)
(* owns each of them exactly once.                                         *)
(***************************************************************************)
EXTENDS Documents, SequenceTheorems, WellFoundedInduction, TLAPS

-----------------------------------------------------------------------------
(* The links of a heap: c, n and p take a struct to its child, next, prev.  *)

Pointers(D) == [D -> D \cup {Null}]

Linking(h, D, X, c, n, p) ==
  /\ h \in Heaps(D, X)
  /\ c \in Pointers(D) /\ n \in Pointers(D) /\ p \in Pointers(D)
  /\ \A j \in D : h.at[j].child = c[j] /\ h.at[j].next = n[j] /\ h.at[j].prev = p[j]

\* Every heap has its links.
LEMMA HasLinks ==
  ASSUME NEW D, NEW X, NEW h \in Heaps(D, X)
  PROVE \E c, n, p : Linking(h, D, X, c, n, p)
<1> DEFINE c == [j \in D |-> h.at[j].child]
           n == [j \in D |-> h.at[j].next]
           p == [j \in D |-> h.at[j].prev]
<1>1. c \in Pointers(D) /\ n \in Pointers(D) /\ p \in Pointers(D)
  BY DEF Heaps, Structs, Pointers
<1>2. Linking(h, D, X, c, n, p)
  BY <1>1 DEF Linking
<1> QED BY <1>2

\* A write changes one child,
LEMMA WriteChild ==
  ASSUME NEW D, NEW X, NEW h, NEW c, NEW n, NEW p, Linking(h, D, X, c, n, p),
         NEW i \in D, NEW v \in D \cup {Null}
  PROVE Linking(WithChild(h, i, v), D, X, [c EXCEPT ![i] = v], n, p)
<1>1. WithChild(h, i, v) \in Heaps(D, X)
  <2>1. h.at \in [D -> Structs(D, X)]
    BY DEF Linking, Heaps
  <2>2. [h.at[i] EXCEPT !.child = v] \in Structs(D, X)
    BY <2>1 DEF Structs
  <2>3. [h.at EXCEPT ![i] = [h.at[i] EXCEPT !.child = v]] \in [D -> Structs(D, X)]
    BY <2>1, <2>2
  <2> QED BY <2>3 DEF WithChild, Linking, Heaps
<1>2. [c EXCEPT ![i] = v] \in Pointers(D)
  BY DEF Linking, Pointers
<1>3. \A j \in D : /\ WithChild(h, i, v).at[j].child = (IF j = i THEN v ELSE h.at[j].child)
                   /\ WithChild(h, i, v).at[j].next = h.at[j].next
                   /\ WithChild(h, i, v).at[j].prev = h.at[j].prev
  BY DEF WithChild, Heaps, Structs, Linking
<1> QED BY <1>1, <1>2, <1>3 DEF Linking, Pointers

\* or one next,
LEMMA WriteNext ==
  ASSUME NEW D, NEW X, NEW h, NEW c, NEW n, NEW p, Linking(h, D, X, c, n, p),
         NEW i \in D, NEW v \in D \cup {Null}
  PROVE Linking(WithNext(h, i, v), D, X, c, [n EXCEPT ![i] = v], p)
<1>1. WithNext(h, i, v) \in Heaps(D, X)
  <2>1. h.at \in [D -> Structs(D, X)]
    BY DEF Linking, Heaps
  <2>2. [h.at[i] EXCEPT !.next = v] \in Structs(D, X)
    BY <2>1 DEF Structs
  <2>3. [h.at EXCEPT ![i] = [h.at[i] EXCEPT !.next = v]] \in [D -> Structs(D, X)]
    BY <2>1, <2>2
  <2> QED BY <2>3 DEF WithNext, Linking, Heaps
<1>2. [n EXCEPT ![i] = v] \in Pointers(D)
  BY DEF Linking, Pointers
<1>3. \A j \in D : /\ WithNext(h, i, v).at[j].child = h.at[j].child
                   /\ WithNext(h, i, v).at[j].next = (IF j = i THEN v ELSE h.at[j].next)
                   /\ WithNext(h, i, v).at[j].prev = h.at[j].prev
  BY DEF WithNext, Heaps, Structs, Linking
<1> QED BY <1>1, <1>2, <1>3 DEF Linking, Pointers

\* or one prev.
LEMMA WritePrev ==
  ASSUME NEW D, NEW X, NEW h, NEW c, NEW n, NEW p, Linking(h, D, X, c, n, p),
         NEW i \in D, NEW v \in D \cup {Null}
  PROVE Linking(WithPrev(h, i, v), D, X, c, n, [p EXCEPT ![i] = v])
<1>1. WithPrev(h, i, v) \in Heaps(D, X)
  <2>1. h.at \in [D -> Structs(D, X)]
    BY DEF Linking, Heaps
  <2>2. [h.at[i] EXCEPT !.prev = v] \in Structs(D, X)
    BY <2>1 DEF Structs
  <2>3. [h.at EXCEPT ![i] = [h.at[i] EXCEPT !.prev = v]] \in [D -> Structs(D, X)]
    BY <2>1, <2>2
  <2> QED BY <2>3 DEF WithPrev, Linking, Heaps
<1>2. [p EXCEPT ![i] = v] \in Pointers(D)
  BY DEF Linking, Pointers
<1>3. \A j \in D : /\ WithPrev(h, i, v).at[j].child = h.at[j].child
                   /\ WithPrev(h, i, v).at[j].next = h.at[j].next
                   /\ WithPrev(h, i, v).at[j].prev = (IF j = i THEN v ELSE h.at[j].prev)
  BY DEF WithPrev, Heaps, Structs, Linking
<1> QED BY <1>1, <1>2, <1>3 DEF Linking, Pointers

-----------------------------------------------------------------------------
(* Lists in terms of the links.                                             *)

\* The m structs of s are the list of q.
ListIn(c, n, p, D, q, s, m) ==
  /\ \A k \in 1 .. m : s[k] \in D
  /\ \A k, l \in 1 .. m : k # l => s[k] # s[l]
  /\ c[q] = IF m = 0 THEN Null ELSE s[1]
  /\ \A k \in 1 .. m : n[s[k]] = IF k = m THEN Null ELSE s[k + 1]
  /\ \A k \in 1 .. m : p[s[k]] = IF k = 1 THEN s[m] ELSE s[k - 1]

\* The same as IsList.
LEMMA IsListIn ==
  ASSUME NEW D, NEW X, NEW h, NEW c, NEW n, NEW p, Linking(h, D, X, c, n, p),
         NEW q \in D, NEW s, NEW m \in Nat, DOMAIN s = 1 .. m, Len(s) = m, s = <<>> <=> m = 0
  PROVE IsList(h, q, s) <=> ListIn(c, n, p, D, q, s, m)
<1>1. DOMAIN h.at = D
  BY DEF Linking, Heaps
<1>2. \A j \in D : h.at[j].child = c[j] /\ h.at[j].next = n[j] /\ h.at[j].prev = p[j]
  BY DEF Linking
<1>3. \A k \in 1 .. m : s[IF k = 1 THEN m ELSE k - 1] = IF k = 1 THEN s[m] ELSE s[k - 1]
  OBVIOUS
<1>4. IsList(h, q, s) <=>
        /\ \A k \in 1 .. m : s[k] \in D
        /\ \A k, l \in 1 .. m : k # l => s[k] # s[l]
        /\ h.at[q].child = IF m = 0 THEN Null ELSE s[1]
        /\ \A k \in 1 .. m : h.at[s[k]].next = IF k = m THEN Null ELSE s[k + 1]
        /\ \A k \in 1 .. m : h.at[s[k]].prev = IF k = 1 THEN s[m] ELSE s[k - 1]
  <2> DEFINE F == \A k \in 1 .. m : s[k] \in D
             N == \A k \in 1 .. m : h.at[s[k]].next = IF k = m THEN Null ELSE s[k + 1]
             P == \A k \in 1 .. m : h.at[s[k]].prev = IF k = 1 THEN s[m] ELSE s[k - 1]
             B == \A k \in 1 .. m : /\ h.at[s[k]].next = IF k = m THEN Null ELSE s[k + 1]
                                    /\ h.at[s[k]].prev = s[IF k = 1 THEN m ELSE k - 1]
             C == h.at[q].child = IF s = <<>> THEN Null ELSE s[1]
             J == \A k, l \in 1 .. m : k # l => s[k] # s[l]
  <2>1. IsList(h, q, s) <=> F /\ J /\ C /\ B
    BY <1>1, Zenon DEF IsList
  <2>2. B <=> N /\ P
    BY <1>3
  <2>3. C <=> h.at[q].child = IF m = 0 THEN Null ELSE s[1]
    OBVIOUS
  <2> QED BY <2>1, <2>2, <2>3
<1>5. ASSUME \A k \in 1 .. m : s[k] \in D
      PROVE /\ (\A k \in 1 .. m : h.at[s[k]].next = IF k = m THEN Null ELSE s[k + 1])
                 <=> \A k \in 1 .. m : n[s[k]] = IF k = m THEN Null ELSE s[k + 1]
            /\ (\A k \in 1 .. m : h.at[s[k]].prev = IF k = 1 THEN s[m] ELSE s[k - 1])
                 <=> \A k \in 1 .. m : p[s[k]] = IF k = 1 THEN s[m] ELSE s[k - 1]
  <2>1. \A k \in 1 .. m : h.at[s[k]].next = n[s[k]] /\ h.at[s[k]].prev = p[s[k]]
    BY <1>5, <1>2
  <2> QED BY <2>1
<1>6. h.at[q].child = c[q]
  BY <1>2
<1> QED BY <1>4, <1>5, <1>6 DEF ListIn

\* What a sequence is to ListIn.
LEMMA SeqParts ==
  ASSUME NEW D, NEW s \in Seq(D)
  PROVE /\ Len(s) \in Nat /\ DOMAIN s = 1 .. Len(s) /\ (s = <<>> <=> Len(s) = 0)
        /\ \A k \in 1 .. Len(s) : s[k] \in D
BY LenProperties, EmptySeq, ElementOfSeq

\* A list is untouched when its child and its members' links are.
LEMMA Untouched ==
  ASSUME NEW D, NEW q, NEW s, NEW m \in Nat, NEW c, NEW n, NEW p, NEW c1, NEW n1, NEW p1,
         ListIn(c, n, p, D, q, s, m), c1[q] = c[q],
         \A k \in 1 .. m : n1[s[k]] = n[s[k]] /\ p1[s[k]] = p[s[k]]
  PROVE ListIn(c1, n1, p1, D, q, s, m)
BY DEF ListIn

Lists(D, P) == [P -> Seq(D)]

\* The structs T are those of the lists of q and of t, and maybe others that no
\* list holds.
Apart(D, P, lists, q, t, T) ==
  /\ T \subseteq D
  /\ \A r \in P \ {q} : \A k \in DOMAIN lists[r] : lists[r][k] \notin T
  /\ \A k \in DOMAIN lists[q] : lists[q][k] \in T
  /\ \A k \in DOMAIN t : t[k] \in T

\* From c, n, p to c1, n1, p1 only q's child and links of T change, and t
\* becomes the list of q.
Changed(D, q, t, T, c, n, p, c1, n1, p1) ==
  /\ \A j \in D \ {q} : c1[j] = c[j]
  /\ \A j \in D \ T : n1[j] = n[j] /\ p1[j] = p[j]
  /\ ListIn(c1, n1, p1, D, q, t, Len(t))
  /\ \A j \in T : ~Holds(t, j) => n1[j] = Null

\* Such a change leaves the lists whole.
LEMMA OneList ==
  ASSUME NEW D, NEW X, NEW P \in SUBSET D, NEW lists \in Lists(D, P), NEW q \in P,
         NEW h, NEW c, NEW n, NEW p, Linking(h, D, X, c, n, p),
         NEW g, NEW c1, NEW n1, NEW p1, Linking(g, D, X, c1, n1, p1),
         Whole(h, lists), NEW t \in Seq(D), NEW T,
         Apart(D, P, lists, q, t, T), Changed(D, q, t, T, c, n, p, c1, n1, p1)
  PROVE Whole(g, [lists EXCEPT ![q] = t])
<1> USE DEF Apart, Changed
<1> DEFINE new == [lists EXCEPT ![q] = t]
<1>1. /\ DOMAIN lists = P /\ DOMAIN new = P /\ new[q] = t
      /\ \A r \in P \ {q} : new[r] = lists[r]
      /\ \A r \in P : lists[r] \in Seq(D)
  BY DEF Lists
<1>2. DOMAIN h.at = D /\ DOMAIN g.at = D
  BY DEF Linking, Heaps
<1>3. \A r \in P : IsList(g, r, new[r])
  <2> SUFFICES ASSUME NEW r \in P PROVE IsList(g, r, new[r])
    OBVIOUS
  <2>1. CASE r = q
    BY <2>1, <1>1, SeqParts, IsListIn
  <2>2. CASE r # q
    <3> DEFINE s == lists[r]
    <3>1. s \in Seq(D) /\ new[r] = s
      BY <2>2, <1>1
    <3> HIDE DEF s
    <3>2. /\ Len(s) \in Nat /\ DOMAIN s = 1 .. Len(s) /\ (s = <<>> <=> Len(s) = 0)
          /\ \A k \in 1 .. Len(s) : s[k] \in D
      BY <3>1, SeqParts
    <3>3. IsList(h, r, s)
      BY <1>1 DEF Whole, s
    <3>4. ListIn(c, n, p, D, r, s, Len(s))
      BY <3>2, <3>3, IsListIn
    <3>5. \A k \in 1 .. Len(s) : s[k] \in D \ T
      BY <2>2, <3>2 DEF s
    <3>6. ListIn(c1, n1, p1, D, r, s, Len(s))
      BY <2>2, <3>2, <3>4, <3>5, Untouched
    <3> QED BY <3>1, <3>2, <3>6, IsListIn
  <2> QED BY <2>1, <2>2
<1>4. \A r, u \in P : r # u => \A k \in DOMAIN new[r] : ~Holds(new[u], new[r][k])
  <2>1. \A r, u \in P : r # u => \A k \in DOMAIN lists[r] : ~Holds(lists[u], lists[r][k])
    BY <1>1 DEF Whole
  <2> QED BY <2>1, <1>1 DEF Holds
<1>5. \A j \in D : (\A r \in P : ~Holds(new[r], j)) => g.at[j].next = Null
  <2> SUFFICES ASSUME NEW j \in D, \A r \in P : ~Holds(new[r], j)
               PROVE n1[j] = Null
    BY DEF Linking
  <2>1. CASE j \in T
    BY <2>1, <1>1
  <2>2. CASE j \notin T
    <3>1. \A r \in P : ~Holds(lists[r], j)
      BY <2>2, <1>1 DEF Holds
    <3>2. h.at[j].next = Null
      BY <3>1, <1>1, <1>2 DEF Whole
    <3> QED BY <2>2, <3>2 DEF Linking
  <2> QED BY <2>1, <2>2
<1> QED BY <1>1, <1>2, <1>3, <1>4, <1>5 DEF Whole

\* The list of q in the links, which no other list shares.
LEMMA ListOf ==
  ASSUME NEW D, NEW X, NEW P \in SUBSET D, NEW lists \in Lists(D, P),
         NEW h, NEW c, NEW n, NEW p, Linking(h, D, X, c, n, p), Whole(h, lists),
         NEW q \in P, NEW s, s = lists[q]
  PROVE /\ ListIn(c, n, p, D, q, s, Len(s))
        /\ \A r \in P \ {q} : \A l \in DOMAIN lists[r] : ~Holds(s, lists[r][l])
<1>1. s \in Seq(D) /\ q \in D /\ DOMAIN lists = P
  BY DEF Lists
<1>2. IsList(h, q, s)
  BY <1>1 DEF Whole
<1>3. \A r \in P \ {q} : \A l \in DOMAIN lists[r] : ~Holds(s, lists[r][l])
  BY <1>1 DEF Whole
<1>4. ListIn(c, n, p, D, q, s, Len(s))
  BY <1>1, <1>2, SeqParts, IsListIn
<1> QED BY <1>3, <1>4

-----------------------------------------------------------------------------
(* Appending.                                                               *)

\* In the links: i behind the last of m > 0 structs,
LEMMA LinkBehind ==
  ASSUME NEW D, NEW q \in D, NEW s, NEW m \in Nat \ {0},
         NEW c \in Pointers(D), NEW n \in Pointers(D), NEW p \in Pointers(D),
         ListIn(c, n, p, D, q, s, m), NEW i \in D, n[i] = Null, \A k \in 1 .. m : s[k] # i,
         NEW t, \A k \in 1 .. m + 1 : t[k] = IF k = m + 1 THEN i ELSE s[k]
  PROVE ListIn(c, [n EXCEPT ![s[m]] = i], [p EXCEPT ![i] = s[m], ![s[1]] = i], D, q, t, m + 1)
<1> DEFINE n1 == [n EXCEPT ![s[m]] = i]
           p1 == [p EXCEPT ![i] = s[m], ![s[1]] = i]
<1>1. /\ \A k \in 1 .. m : s[k] \in D
      /\ \A k, l \in 1 .. m : k # l => s[k] # s[l]
      /\ c[q] = s[1]
      /\ \A k \in 1 .. m : n[s[k]] = IF k = m THEN Null ELSE s[k + 1]
      /\ \A k \in 1 .. m : p[s[k]] = IF k = 1 THEN s[m] ELSE s[k - 1]
  BY DEF ListIn
<1>2. \A j \in D : /\ n1[j] = IF j = s[m] THEN i ELSE n[j]
                   /\ p1[j] = IF j = s[1] THEN i ELSE IF j = i THEN s[m] ELSE p[j]
  BY DEF Pointers
<1> HIDE DEF n1, p1
<1>3. \A k \in 1 .. m + 1 : t[k] \in D
  BY <1>1
<1>4. \A k, l \in 1 .. m + 1 : k # l => t[k] # t[l]
  BY <1>1
<1>5. c[q] = t[1]
  BY <1>1
<1>6. \A k \in 1 .. m + 1 : n1[t[k]] = IF k = m + 1 THEN Null ELSE t[k + 1]
  BY <1>1, <1>2
<1>7. \A k \in 1 .. m + 1 : p1[t[k]] = IF k = 1 THEN t[m + 1] ELSE t[k - 1]
  BY <1>1, <1>2
<1>8. ListIn(c, n1, p1, D, q, t, m + 1)
  BY <1>3, <1>4, <1>5, <1>6, <1>7 DEF ListIn
<1> QED BY <1>8 DEF n1, p1

\* and i as the only one.
LEMMA LinkFirst ==
  ASSUME NEW D, NEW q \in D, NEW i \in D,
         NEW c \in Pointers(D), NEW n \in Pointers(D), NEW p \in Pointers(D),
         NEW t, t[1] = i
  PROVE ListIn([c EXCEPT ![q] = i], [n EXCEPT ![i] = Null], [p EXCEPT ![i] = i], D, q, t, 1)
BY DEF ListIn, Pointers

\* Appending i, which is in no list, puts it behind the list of q.
THEOREM AppendsLast ==
  ASSUME NEW D, NEW X, Null \notin D, NEW P \in SUBSET D, NEW lists \in Lists(D, P),
         NEW h \in Heaps(D, X), Whole(h, lists),
         NEW q \in P, NEW i \in D, i # q, \A r \in P : ~Holds(lists[r], i)
  PROVE /\ Appended(h, q, i).r = TRUE
        /\ Appended(h, q, i).h \in Heaps(D, X)
        /\ Whole(Appended(h, q, i).h, [lists EXCEPT ![q] = Seqs!Behind(@, i)])
<1> DEFINE s == lists[q]
           m == Len(s)
           t == Seqs!Behind(s, i)
           T == {s[k] : k \in 1 .. m} \cup {i}
           new == Appended(h, q, i)
<1>1. s \in Seq(D)
  BY DEF Lists
<1>2. m \in Nat /\ DOMAIN s = 1 .. m /\ (s = <<>> <=> m = 0) /\ \A k \in 1 .. m : s[k] \in D
  BY <1>1, SeqParts
<1>3. /\ t \in Seq(D) /\ Len(t) = m + 1 /\ DOMAIN t = 1 .. m + 1
      /\ \A k \in 1 .. m + 1 : t[k] = IF k = m + 1 THEN i ELSE s[k]
  BY <1>1, <1>2, AppendProperties DEF Seqs!Behind
<1>4. PICK c, n, p : Linking(h, D, X, c, n, p)
  BY HasLinks
<1>5. IsList(h, q, s) /\ \A k \in 1 .. m : s[k] # i
  BY <1>2 DEF Lists, Whole, Holds
<1>6. ListIn(c, n, p, D, q, s, m)
  BY <1>2, <1>4, <1>5, IsListIn
<1>7. n[i] = Null
  BY <1>4 DEF Whole, Linking, Heaps, Lists
<1>8. /\ T \subseteq D /\ (\A k \in DOMAIN t : t[k] \in T) /\ (\A k \in DOMAIN s : s[k] \in T)
      /\ \A j \in T : Holds(t, j)
  <2>1. T \subseteq D /\ (\A k \in DOMAIN t : t[k] \in T) /\ (\A k \in DOMAIN s : s[k] \in T)
    BY <1>2, <1>3
  <2>2. Holds(t, i)
    BY <1>2, <1>3 DEF Holds
  <2>3. \A k \in 1 .. m : Holds(t, s[k])
    BY <1>2, <1>3, <1>5 DEF Holds
  <2> QED BY <2>1, <2>2, <2>3
<1>9. \A r \in P \ {q} : \A k \in DOMAIN lists[r] : lists[r][k] \notin T
  BY <1>2 DEF Whole, Lists, Holds
<1>10. c \in Pointers(D) /\ n \in Pointers(D) /\ p \in Pointers(D)
  BY <1>4 DEF Linking
<1>11. h.at[q].child = c[q] /\ \A j \in D : h.at[j].prev = p[j]
  BY <1>4 DEF Linking
<1>12. Apart(D, P, lists, q, t, T)
  BY <1>8, <1>9 DEF Apart
<1> HIDE DEF s, m, t, T, new
<1>21. CASE m = 0
  <2> DEFINE h1 == WithChild(h, q, i)
             h2 == WithPrev(h1, i, i)
             h3 == WithNext(h2, i, Null)
             c1 == [c EXCEPT ![q] = i]
             p1 == [p EXCEPT ![i] = i]
             n1 == [n EXCEPT ![i] = Null]
  <2>1. c[q] = Null
    BY <1>6, <1>21 DEF ListIn
  <2>2. new = Result(h3, TRUE)
    BY <2>1, <1>11 DEF Appended, new
  <2>3. Linking(h3, D, X, c1, n1, p1)
    <3>1. Linking(h1, D, X, c1, n, p)
      BY <1>4, WriteChild
    <3>2. Linking(h2, D, X, c1, n, p1)
      BY <3>1, WritePrev
    <3> QED BY <3>2, WriteNext
  <2>4. ListIn(c1, n1, p1, D, q, t, 1)
    <3>1. t[1] = i
      BY <1>3, <1>21
    <3> QED BY <3>1, <1>10, LinkFirst
  <2>5. Changed(D, q, t, T, c, n, p, c1, n1, p1)
    <3>1. /\ \A j \in D \ {q} : c1[j] = c[j]
          /\ \A j \in D \ T : n1[j] = n[j] /\ p1[j] = p[j]
      BY <1>10 DEF Pointers, T
    <3> QED BY <3>1, <2>4, <1>3, <1>8, <1>21 DEF Changed
  <2>6. new.r = TRUE /\ new.h = h3
    BY <2>2 DEF Result
  <2> HIDE DEF h3, c1, n1, p1
  <2>7. Whole(h3, [lists EXCEPT ![q] = t])
    BY <2>3, <2>5, <1>3, <1>4, <1>12, OneList
  <2>8. new.r = TRUE /\ new.h \in Heaps(D, X) /\ Whole(new.h, [lists EXCEPT ![q] = t])
    BY <2>3, <2>6, <2>7 DEF Linking
  <2> QED BY <2>8 DEF new, t, s
<1>22. CASE m # 0
  <2> DEFINE first == s[1]
             last  == s[m]
             h1 == WithNext(h, last, i)
             h2 == WithPrev(h1, i, last)
             h3 == WithPrev(h2, first, i)
             n1 == [n EXCEPT ![last] = i]
             p1 == [p EXCEPT ![i] = last, ![first] = i]
  <2>1. c[q] = first /\ p[first] = last /\ first \in D /\ last \in D /\ first # Null /\ last # Null
    BY <1>2, <1>6, <1>22 DEF ListIn
  <2>2. new = Result(h3, TRUE)
    BY <2>1, <1>11 DEF Appended, Suffix, new
  <2>3. Linking(h3, D, X, c, n1, p1)
    <3>1. Linking(h1, D, X, c, n1, p)
      BY <2>1, <1>4, WriteNext
    <3>2. Linking(h2, D, X, c, n1, [p EXCEPT ![i] = last])
      BY <2>1, <3>1, WritePrev
    <3> QED BY <2>1, <3>2, WritePrev
  <2>4. ListIn(c, n1, p1, D, q, t, m + 1)
    BY <1>2, <1>3, <1>5, <1>6, <1>7, <1>10, <1>22, LinkBehind
  <2>5. Changed(D, q, t, T, c, n, p, c, n1, p1)
    <3>1. last \in T /\ first \in T /\ i \in T
      BY <1>2, <1>22 DEF T
    <3>2. \A j \in D \ T : n1[j] = n[j] /\ p1[j] = p[j]
      BY <3>1, <1>10 DEF Pointers
    <3> QED BY <3>2, <2>4, <1>3, <1>8 DEF Changed
  <2>6. new.r = TRUE /\ new.h = h3
    BY <2>2 DEF Result
  <2> HIDE DEF h3, n1, p1
  <2>7. Whole(h3, [lists EXCEPT ![q] = t])
    BY <2>3, <2>5, <1>3, <1>4, <1>12, OneList
  <2>8. new.r = TRUE /\ new.h \in Heaps(D, X) /\ Whole(new.h, [lists EXCEPT ![q] = t])
    BY <2>3, <2>6, <2>7 DEF Linking
  <2> QED BY <2>8 DEF new, t, s
<1> QED BY <1>21, <1>22

-----------------------------------------------------------------------------
(* Detaching.                                                               *)


\* What the call writes.
Detaches(D, q, i, c, n, p, c1, n1, p1) ==
  /\ \A j \in D : c1[j] = IF i = c[q] /\ j = q THEN n[i] ELSE c[j]
  /\ \A j \in D : n1[j] = IF j = i THEN Null
                          ELSE IF i # c[q] /\ j = p[i] THEN n[i] ELSE n[j]
  /\ \A j \in D : p1[j] = IF j = i THEN Null
                          ELSE IF i # c[q] /\ n[i] = Null /\ j = c[q] THEN p[i]
                          ELSE IF n[i] # Null /\ j = n[i] THEN p[i] ELSE p[j]

LEMMA DetachWrites ==
  ASSUME NEW D, NEW X, Null \notin D, NEW h, NEW c, NEW n, NEW p, Linking(h, D, X, c, n, p),
         NEW q \in D, NEW i \in D, c[q] \in D, p[i] \in D
  PROVE \E c1, n1, p1 :
          /\ Linking(DetachItemViaPointer(h, q, i), D, X, c1, n1, p1)
          /\ Detaches(D, q, i, c, n, p, c1, n1, p1)
<1> DEFINE n1 == IF i = c[q] THEN n ELSE [n EXCEPT ![p[i]] = n[i]]
           p1 == IF n[i] = Null THEN p ELSE [p EXCEPT ![n[i]] = p[i]]
           p2 == IF i # c[q] /\ n[i] = Null THEN [p1 EXCEPT ![c[q]] = p[i]] ELSE p1
           c1 == IF i = c[q] THEN [c EXCEPT ![q] = n[i]] ELSE c
           h1 == IF i = c[q] THEN h ELSE WithNext(h, p[i], n[i])
           h2 == IF n[i] = Null THEN h1 ELSE WithPrev(h1, n[i], p[i])
           h3 == IF i = c[q] THEN WithChild(h2, q, n[i])
                 ELSE IF n[i] = Null THEN WithPrev(h2, c[q], p[i]) ELSE h2
           h4 == WithPrev(h3, i, Null)
           h5 == WithNext(h4, i, Null)
<1>1. h.at[q].child = c[q] /\ h.at[i].next = n[i] /\ h.at[i].prev = p[i]
  BY DEF Linking
<1>2. DetachItemViaPointer(h, q, i) = h5
  BY <1>1 DEF DetachItemViaPointer, Loose
<1>3. n[i] \in D \cup {Null}
  BY DEF Linking, Pointers
<1>4. Linking(h1, D, X, c, n1, p)
  <2>1. Linking(WithNext(h, p[i], n[i]), D, X, c, [n EXCEPT ![p[i]] = n[i]], p)
    BY <1>3, WriteNext
  <2> QED BY <2>1
<1> HIDE DEF h1, n1
<1>5. Linking(h2, D, X, c, n1, p1)
  <2>1. CASE n[i] = Null
    BY <2>1, <1>4
  <2>2. CASE n[i] # Null
    BY <2>2, <1>3, <1>4, WritePrev
  <2> QED BY <2>1, <2>2
<1> HIDE DEF h2, p1
<1>6. Linking(h3, D, X, c1, n1, p2)
  <2>1. CASE i = c[q]
    BY <2>1, <1>3, <1>5, WriteChild
  <2>2. CASE i # c[q] /\ n[i] = Null
    BY <2>2, <1>5, WritePrev
  <2>3. CASE i # c[q] /\ n[i] # Null
    BY <2>3, <1>5
  <2> QED BY <2>1, <2>2, <2>3
<1> HIDE DEF h3, c1, p2
<1>7. Linking(h4, D, X, c1, n1, [p2 EXCEPT ![i] = Null])
  BY <1>6, WritePrev
<1>8. Linking(h5, D, X, c1, [n1 EXCEPT ![i] = Null], [p2 EXCEPT ![i] = Null])
  BY <1>7, WriteNext
<1> DEFINE n2 == [n1 EXCEPT ![i] = Null]
           p3 == [p2 EXCEPT ![i] = Null]
<1>9. c \in Pointers(D) /\ n \in Pointers(D) /\ p \in Pointers(D)
  BY DEF Linking
<1>10. \A j \in D : c1[j] = IF i = c[q] /\ j = q THEN n[i] ELSE c[j]
  BY <1>9 DEF Pointers, c1
<1>11. \A j \in D : n2[j] = IF j = i THEN Null
                            ELSE IF i # c[q] /\ j = p[i] THEN n[i] ELSE n[j]
  BY <1>9 DEF Pointers, n1
<1>12. \A j \in D : p3[j] = IF j = i THEN Null
                            ELSE IF i # c[q] /\ n[i] = Null /\ j = c[q] THEN p[i]
                            ELSE IF n[i] # Null /\ j = n[i] THEN p[i] ELSE p[j]
  BY <1>9 DEF Pointers, p1, p2
<1> HIDE DEF n2, p3
<1>13. Linking(DetachItemViaPointer(h, q, i), D, X, c1, n2, p3)
  BY <1>2, <1>8 DEF n2, p3
<1> QED BY <1>10, <1>11, <1>12, <1>13 DEF Detaches

\* In the links: without the member at k.
UnlinkedAt(D, q, s, m, k, c, n, p, c1, n1, p1) ==
  /\ c1[q] = IF k = 1 THEN n[s[1]] ELSE c[q]
  /\ \A j \in D : n1[j] = IF j = s[k] THEN Null
                          ELSE IF k > 1 /\ j = s[k - 1] THEN n[s[k]] ELSE n[j]
  /\ \A j \in D : p1[j] = IF j = s[k] THEN Null
                          ELSE IF k < m /\ j = s[k + 1] THEN p[s[k]]
                          ELSE IF k = m /\ j = s[1] THEN p[s[k]] ELSE p[j]

\* What is left is a list.
LEMMA LinkWithout ==
  ASSUME NEW D, Null \notin D, NEW q \in D, NEW s, NEW m \in Nat, NEW k \in 1 .. m,
         NEW c, NEW n, NEW p, NEW c1, NEW n1, NEW p1, ListIn(c, n, p, D, q, s, m),
         UnlinkedAt(D, q, s, m, k, c, n, p, c1, n1, p1),
         NEW t, \A l \in 1 .. m - 1 : t[l] = IF l < k THEN s[l] ELSE s[l + 1]
  PROVE ListIn(c1, n1, p1, D, q, t, m - 1)
<1> USE DEF UnlinkedAt
<1>1. /\ \A l \in 1 .. m : s[l] \in D
      /\ \A l, j \in 1 .. m : l # j => s[l] # s[j]
      /\ c[q] = s[1]
      /\ \A l \in 1 .. m : n[s[l]] = IF l = m THEN Null ELSE s[l + 1]
      /\ \A l \in 1 .. m : p[s[l]] = IF l = 1 THEN s[m] ELSE s[l - 1]
  BY DEF ListIn
<1>2. \A l \in 1 .. m - 1 : t[l] \in D
  BY <1>1
<1>3. \A l, j \in 1 .. m - 1 : l # j => t[l] # t[j]
  BY <1>1
<1>4. c1[q] = IF m - 1 = 0 THEN Null ELSE t[1]
  BY <1>1
<1>5. \A l \in 1 .. m - 1 : n1[t[l]] = IF l = m - 1 THEN Null ELSE t[l + 1]
  BY <1>1
<1>6. \A l \in 1 .. m - 1 : p1[t[l]] = IF l = 1 THEN t[m - 1] ELSE t[l - 1]
  BY <1>1
<1> QED BY <1>2, <1>3, <1>4, <1>5, <1>6 DEF ListIn

\* Detaching the k-th member of q takes it out of the list of q, and leaves it
\* chained to nothing and in no list.
THEOREM DetachesMember ==
  ASSUME NEW D, NEW X, Null \notin D, NEW P \in SUBSET D, NEW lists \in Lists(D, P),
         NEW h \in Heaps(D, X), Whole(h, lists),
         NEW q \in P, NEW k \in DOMAIN lists[q], NEW i, i = lists[q][k]
  PROVE LET new == DetachItemViaPointer(h, q, i)
            now == [lists EXCEPT ![q] = Seqs!Without(@, k)]
        IN  /\ new \in Heaps(D, X) /\ now \in Lists(D, P) /\ Whole(new, now)
            /\ new.at[i].next = Null /\ new.at[i].prev = Null
            /\ \A r \in P : ~Holds(now[r], i)
<1> DEFINE s == lists[q]
           m == Len(s)
           t == Seqs!Without(s, k)
           T == {s[l] : l \in 1 .. m}
           new == DetachItemViaPointer(h, q, i)
           now == [lists EXCEPT ![q] = t]
<1>1. s \in Seq(D)
  BY DEF Lists
<1>2. m \in Nat /\ DOMAIN s = 1 .. m /\ (s = <<>> <=> m = 0) /\ \A l \in 1 .. m : s[l] \in D
  BY <1>1, SeqParts
<1>3. m \in Nat /\ k \in 1 .. m /\ i \in D /\ i = s[k] /\ m - 1 \in Nat
  BY <1>2
<1>4. \A l \in 1 .. m - 1 : t[l] = IF l < k THEN s[l] ELSE s[l + 1]
  BY DEF Seqs!Without
<1>5. t \in Seq(D) /\ Len(t) = m - 1 /\ DOMAIN t = 1 .. m - 1
  <2>1. t \in [1 .. m - 1 -> D]
    BY <1>2, <1>3 DEF Seqs!Without
  <2> QED BY <2>1, <1>3, SeqDef, LenProperties
<1>6. PICK c, n, p : Linking(h, D, X, c, n, p)
  BY HasLinks
<1>7. /\ ListIn(c, n, p, D, q, s, m)
      /\ \A r \in P \ {q} : \A l \in DOMAIN lists[r] : ~Holds(s, lists[r][l])
  BY <1>6, ListOf
<1>8. q \in D /\ \A l, j \in 1 .. m : l # j => s[l] # s[j]
  BY <1>7 DEF ListIn
<1> HIDE DEF s, m, t
<1>9. /\ T \subseteq D /\ (\A l \in DOMAIN t : t[l] \in T) /\ (\A l \in DOMAIN s : s[l] \in T)
      /\ \A r \in P \ {q} : \A l \in DOMAIN lists[r] : lists[r][l] \notin T
  <2>1. T \subseteq D /\ (\A l \in DOMAIN t : t[l] \in T) /\ (\A l \in DOMAIN s : s[l] \in T)
    <3>1. \A l \in 1 .. m - 1 : \E j \in 1 .. m : t[l] = s[j]
      BY <1>3, <1>4
    <3> QED BY <3>1, <1>2, <1>5
  <2>2. \A r \in P \ {q} : \A l \in DOMAIN lists[r] : lists[r][l] \notin T
    BY <1>2, <1>7, <1>8 DEF Holds
  <2> QED BY <2>1, <2>2
<1>10. Apart(D, P, lists, q, t, T)
  BY <1>9 DEF Apart, s
<1>11. ~Holds(t, i) /\ \A j \in T : ~Holds(t, j) => j = i
  <2>2. \A l \in 1 .. m - 1 : t[l] # i
    BY <1>7, <1>8, <1>3, <1>4
  <2>3. \A l \in 1 .. m : l # k => Holds(t, s[l])
    <3> SUFFICES ASSUME NEW l \in 1 .. m, l # k PROVE Holds(t, s[l])
      OBVIOUS
    <3>1. CASE l < k
      <4>1. l \in 1 .. m - 1 /\ t[l] = s[l]
        BY <3>1, <1>3, <1>4
      <4> QED BY <4>1, <1>5 DEF Holds
    <3>2. CASE l > k
      <4>1. l - 1 \in 1 .. m - 1 /\ t[l - 1] = s[l]
        BY <3>2, <1>3, <1>4
      <4> QED BY <4>1, <1>5 DEF Holds
    <3> QED BY <3>1, <3>2, <1>3
  <2> QED BY <2>2, <2>3, <1>3, <1>5 DEF Holds
<1>12. \A r \in P : ~Holds(now[r], i)
  <2>1. \A r \in P \ {q} : ~Holds(lists[r], i)
    BY <1>2, <1>3, <1>7, <1>8 DEF Holds
  <2>2. now[q] = t /\ \A r \in P \ {q} : now[r] = lists[r]
    BY DEF Lists
  <2> QED BY <2>1, <2>2, <1>11
<1>13. now \in Lists(D, P)
  BY <1>5 DEF Lists
<1>14. c \in Pointers(D) /\ n \in Pointers(D) /\ p \in Pointers(D)
  BY <1>6 DEF Linking
<1> HIDE DEF T, new, now
<1>15. /\ \A l, j \in 1 .. m : l # j => s[l] # s[j]
       /\ c[q] = s[1] /\ s[1] \in D
       /\ i = c[q] <=> k = 1
       /\ n[i] = IF k = m THEN Null ELSE s[k + 1]
       /\ n[i] = Null <=> k = m
       /\ p[i] = IF k = 1 THEN s[m] ELSE s[k - 1]
       /\ p[i] \in D
  BY <1>2, <1>3, <1>7, <1>8 DEF ListIn
<1>16. PICK c1, n2, p3 :
         Linking(new, D, X, c1, n2, p3) /\ Detaches(D, q, i, c, n, p, c1, n2, p3)
  <2>1. q \in D /\ i \in D /\ c[q] \in D /\ p[i] \in D
    BY <1>3, <1>15, <1>7, <1>8
  <2> QED BY <2>1, <1>6, DetachWrites DEF new
<1>17. c1[q] = (IF k = 1 THEN n[s[1]] ELSE c[q]) /\ \A j \in D \ {q} : c1[j] = c[j]
  BY <1>3, <1>15, <1>16, <1>7, <1>8 DEF Detaches
<1>18. \A j \in D : n2[j] = IF j = s[k] THEN Null
                            ELSE IF k > 1 /\ j = s[k - 1] THEN n[s[k]] ELSE n[j]
  BY <1>3, <1>15, <1>16 DEF Detaches
<1>19. \A j \in D : p3[j] = IF j = s[k] THEN Null
                            ELSE IF k < m /\ j = s[k + 1] THEN p[s[k]]
                            ELSE IF k = m /\ j = s[1] THEN p[s[k]] ELSE p[j]
  BY <1>2, <1>3, <1>15, <1>16 DEF Detaches
<1>20. ListIn(c1, n2, p3, D, q, t, m - 1)
  <2>1. UnlinkedAt(D, q, s, m, k, c, n, p, c1, n2, p3)
    BY <1>17, <1>18, <1>19 DEF UnlinkedAt
  <2> QED BY <2>1, <1>2, <1>3, <1>4, <1>8, <1>7, LinkWithout
<1>21. Changed(D, q, t, T, c, n, p, c1, n2, p3)
  <2>1. \A j \in D \ T : n2[j] = n[j] /\ p3[j] = p[j]
    <3>1. s[k] \in T /\ s[1] \in T /\ (k > 1 => s[k - 1] \in T) /\ (k < m => s[k + 1] \in T)
      BY <1>2, <1>3 DEF T
    <3> QED BY <3>1, <1>18, <1>19
  <2>2. \A j \in T : ~Holds(t, j) => n2[j] = Null
    BY <1>3, <1>9, <1>11, <1>18
  <2> QED BY <2>1, <2>2, <1>5, <1>17, <1>20 DEF Changed
<1>22. Whole(new, now)
  BY <1>5, <1>6, <1>10, <1>16, <1>21, OneList DEF now
<1>23. new \in Heaps(D, X) /\ new.at[i].next = Null /\ new.at[i].prev = Null
  BY <1>3, <1>16, <1>18, <1>19 DEF Linking
<1> QED BY <1>12, <1>13, <1>22, <1>23 DEF now, new, t, s

-----------------------------------------------------------------------------
(* Putting a struct into a list.                                            *)

\* A struct w that no list holds, beside the structs of s.
LEMMA Beside ==
  ASSUME NEW D, NEW P \in SUBSET D, NEW lists \in Lists(D, P), NEW q \in P,
         NEW s \in Seq(D), s = lists[q],
         \A r \in P \ {q} : \A l \in DOMAIN lists[r] : ~Holds(s, lists[r][l]),
         NEW w \in D, \A r \in P : ~Holds(lists[r], w),
         NEW t, \A l \in DOMAIN t : t[l] = w \/ Holds(s, t[l])
  PROVE Apart(D, P, lists, q, t, {s[l] : l \in 1 .. Len(s)} \cup {w})
<1>1. DOMAIN s = 1 .. Len(s) /\ \A l \in 1 .. Len(s) : s[l] \in D
  BY SeqParts
<1> QED BY <1>1 DEF Apart, Holds

-----------------------------------------------------------------------------
(* Inserting.                                                               *)


\* What the call writes.
Inserts(D, q, i, w, c, n, p, c1, n1, p1) ==
  /\ \A j \in D : c1[j] = IF i = c[q] /\ j = q THEN w ELSE c[j]
  /\ \A j \in D : n1[j] = IF i # c[q] /\ j = p[i] THEN w ELSE IF j = w THEN i ELSE n[j]
  /\ \A j \in D : p1[j] = IF j = i THEN w ELSE IF j = w THEN p[i] ELSE p[j]

LEMMA InsertWrites ==
  ASSUME NEW D, NEW X, NEW h, NEW c, NEW n, NEW p, Linking(h, D, X, c, n, p),
         NEW q \in D, NEW i \in D, NEW w \in D, p[i] \in D
  PROVE \E c1, n1, p1 :
          /\ Linking(Insert(h, q, i, w), D, X, c1, n1, p1)
          /\ Inserts(D, q, i, w, c, n, p, c1, n1, p1)
<1> DEFINE n1 == [n EXCEPT ![w] = i]
           p1 == [p EXCEPT ![w] = p[i]]
           p2 == [p1 EXCEPT ![i] = w]
           h1 == WithNext(h, w, i)
           h2 == WithPrev(h1, w, p[i])
           h3 == WithPrev(h2, i, w)
           c1 == [c EXCEPT ![q] = w]
           n2 == [n1 EXCEPT ![p[i]] = w]
<1>1. h.at[q].child = c[q] /\ h.at[i].prev = p[i]
  BY DEF Linking
<1>2. Insert(h, q, i, w) = IF i = c[q] THEN WithChild(h3, q, w) ELSE WithNext(h3, p[i], w)
  BY <1>1 DEF Insert
<1>3. Linking(h1, D, X, c, n1, p)
  BY WriteNext
<1>4. Linking(h2, D, X, c, n1, p1)
  BY <1>3, WritePrev
<1>5. Linking(h3, D, X, c, n1, p2)
  BY <1>4, WritePrev
<1>6. c \in Pointers(D) /\ n \in Pointers(D) /\ p \in Pointers(D)
  BY DEF Linking
<1>7. \A j \in D : /\ c1[j] = IF j = q THEN w ELSE c[j]
                   /\ n1[j] = IF j = w THEN i ELSE n[j]
                   /\ n2[j] = IF j = p[i] THEN w ELSE IF j = w THEN i ELSE n[j]
                   /\ p2[j] = IF j = i THEN w ELSE IF j = w THEN p[i] ELSE p[j]
  BY <1>6 DEF Pointers
<1> HIDE DEF h3, c1, n1, n2, p2
<1>8. CASE i = c[q]
  <2>1. Linking(WithChild(h3, q, w), D, X, c1, n1, p2)
    BY <1>5, WriteChild DEF c1
  <2>2. Inserts(D, q, i, w, c, n, p, c1, n1, p2)
    BY <1>7, <1>8 DEF Inserts
  <2> QED BY <2>1, <2>2, <1>2, <1>8
<1>9. CASE i # c[q]
  <2>1. Linking(WithNext(h3, p[i], w), D, X, c, n2, p2)
    BY <1>5, WriteNext DEF n2
  <2>2. Inserts(D, q, i, w, c, n, p, c, n2, p2)
    BY <1>7, <1>9 DEF Inserts
  <2> QED BY <2>1, <2>2, <1>2, <1>9
<1> QED BY <1>8, <1>9

\* In the links: w before the member at k.
LEMMA LinkBefore ==
  ASSUME NEW D, Null \notin D, NEW q \in D, NEW s, NEW m \in Nat, NEW k \in 1 .. m,
         NEW w \in D, \A l \in 1 .. m : s[l] # w,
         NEW c, NEW n, NEW p, NEW c1, NEW n1, NEW p1, ListIn(c, n, p, D, q, s, m),
         NEW i, i = s[k], Inserts(D, q, i, w, c, n, p, c1, n1, p1),
         NEW t, \A l \in 1 .. m + 1 : t[l] = IF l < k THEN s[l] ELSE IF l = k THEN w ELSE s[l - 1]
  PROVE ListIn(c1, n1, p1, D, q, t, m + 1)
<1>1. /\ \A l \in 1 .. m : s[l] \in D
      /\ \A l, j \in 1 .. m : l # j => s[l] # s[j]
      /\ c[q] = s[1]
      /\ \A l \in 1 .. m : n[s[l]] = IF l = m THEN Null ELSE s[l + 1]
      /\ \A l \in 1 .. m : p[s[l]] = IF l = 1 THEN s[m] ELSE s[l - 1]
  BY DEF ListIn
<1>2. s[k] = c[q] <=> k = 1
  BY <1>1
<1>3. /\ c1[q] = IF k = 1 THEN w ELSE s[1]
      /\ \A j \in D : n1[j] = IF k # 1 /\ j = s[k - 1] THEN w ELSE IF j = w THEN s[k] ELSE n[j]
      /\ \A j \in D : p1[j] = IF j = s[k] THEN w
                              ELSE IF j = w THEN (IF k = 1 THEN s[m] ELSE s[k - 1]) ELSE p[j]
  BY <1>1, <1>2 DEF Inserts
<1>4. \A l \in 1 .. m + 1 : t[l] \in D
  BY <1>1
<1>5. \A l, j \in 1 .. m + 1 : l # j => t[l] # t[j]
  BY <1>1
<1>6. c1[q] = t[1]
  BY <1>1, <1>3
<1>7. \A l \in 1 .. m + 1 : n1[t[l]] = IF l = m + 1 THEN Null ELSE t[l + 1]
  BY <1>1, <1>3
<1>8. \A l \in 1 .. m + 1 : p1[t[l]] = IF l = 1 THEN t[m + 1] ELSE t[l - 1]
  BY <1>1, <1>3
<1> QED BY <1>4, <1>5, <1>6, <1>7, <1>8 DEF ListIn

-----------------------------------------------------------------------------
(* Replacing.                                                               *)

\* What the call writes.
Relinks(D, q, i, w, c, n, p, c1, n1, p1) ==
  /\ \A j \in D : c1[j] = IF i = c[q] /\ j = q THEN w ELSE c[j]
  /\ \A j \in D : n1[j] = IF j = i THEN Null
                          ELSE IF i # c[q] /\ j = p[i] THEN w ELSE IF j = w THEN n[i] ELSE n[j]
  /\ \A j \in D : p1[j] = IF j = i THEN Null
                          ELSE IF i # c[q] /\ n[i] = Null /\ j = c[q] THEN w
                          ELSE IF n[i] # Null /\ j = n[i] THEN w
                          ELSE IF j = w THEN (IF i = c[q] /\ p[i] = i THEN w ELSE p[i]) ELSE p[j]

LEMMA RelinkWrites ==
  ASSUME NEW D, NEW X, Null \notin D, NEW h, NEW c, NEW n, NEW p, Linking(h, D, X, c, n, p),
         NEW q \in D, NEW i \in D, NEW w \in D, i # w, c[q] \in D, p[i] \in D
  PROVE \E c1, n1, p1 :
          /\ Linking(Relinked(h, q, i, w), D, X, c1, n1, p1)
          /\ Relinks(D, q, i, w, c, n, p, c1, n1, p1)
<1> DEFINE u  == IF i = c[q] /\ p[i] = i THEN w ELSE p[i]
           h1 == WithPrev(WithNext(h, w, n[i]), w, u)
           h2 == IF n[i] = Null THEN h1 ELSE WithPrev(h1, n[i], w)
           h3 == IF i = c[q] THEN WithChild(h2, q, w) ELSE WithNext(h2, u, w)
           h4 == IF i # c[q] /\ n[i] = Null THEN WithPrev(h3, c[q], w) ELSE h3
           h5 == WithNext(WithPrev(h4, i, Null), i, Null)
           n1 == [n EXCEPT ![w] = n[i]]
           p1 == [p EXCEPT ![w] = u]
           p2 == IF n[i] = Null THEN p1 ELSE [p1 EXCEPT ![n[i]] = w]
           c3 == IF i = c[q] THEN [c EXCEPT ![q] = w] ELSE c
           n3 == IF i = c[q] THEN n1 ELSE [n1 EXCEPT ![u] = w]
           p4 == IF i # c[q] /\ n[i] = Null THEN [p2 EXCEPT ![c[q]] = w] ELSE p2
           n5 == [n3 EXCEPT ![i] = Null]
           p5 == [p4 EXCEPT ![i] = Null]
<1>1. h.at[q].child = c[q] /\ h.at[i].next = n[i] /\ h.at[i].prev = p[i]
  BY DEF Linking
<1>2. u \in D /\ u # Null
  OBVIOUS
<1>3. Relinked(h, q, i, w) = h5
  BY <1>1, <1>2 DEF Relinked, Loose
<1>4. n[i] \in D \cup {Null}
  BY DEF Linking, Pointers
<1>5. Linking(h1, D, X, c, n1, p1)
  <2>1. Linking(WithNext(h, w, n[i]), D, X, c, n1, p)
    BY <1>4, WriteNext
  <2> HIDE DEF u
  <2> QED BY <2>1, <1>2, WritePrev
<1>6. c \in Pointers(D) /\ n \in Pointers(D) /\ p \in Pointers(D)
  BY DEF Linking
<1>7. /\ \A j \in D : c3[j] = IF i = c[q] /\ j = q THEN w ELSE c[j]
      /\ \A j \in D : n5[j] = IF j = i THEN Null
                              ELSE IF i # c[q] /\ j = p[i] THEN w
                              ELSE IF j = w THEN n[i] ELSE n[j]
  BY <1>6 DEF Pointers
<1>8. \A j \in D : p5[j] = IF j = i THEN Null
                           ELSE IF i # c[q] /\ n[i] = Null /\ j = c[q] THEN w
                           ELSE IF n[i] # Null /\ j = n[i] THEN w ELSE IF j = w THEN u ELSE p[j]
  <2> HIDE DEF u
  <2> QED BY <1>2, <1>4, <1>6 DEF Pointers
<1>9. Relinks(D, q, i, w, c, n, p, c3, n5, p5)
  BY <1>7, <1>8 DEF Relinks
<1> HIDE DEF u, h1, n1, p1
<1>10. Linking(h2, D, X, c, n1, p2)
  <2>1. CASE n[i] = Null
    BY <2>1, <1>5
  <2>2. CASE n[i] # Null
    BY <2>2, <1>4, <1>5, WritePrev
  <2> QED BY <2>1, <2>2
<1> HIDE DEF h2, p2
<1>11. Linking(h3, D, X, c3, n3, p2)
  <2>1. CASE i = c[q]
    BY <2>1, <1>10, WriteChild
  <2>2. CASE i # c[q]
    BY <2>2, <1>2, <1>10, WriteNext
  <2> QED BY <2>1, <2>2
<1> HIDE DEF h3, c3, n3
<1>12. Linking(h4, D, X, c3, n3, p4)
  <2>1. CASE i # c[q] /\ n[i] = Null
    BY <2>1, <1>11, WritePrev
  <2>2. CASE ~(i # c[q] /\ n[i] = Null)
    BY <2>2, <1>11
  <2> QED BY <2>1, <2>2
<1> HIDE DEF h4, p4
<1>13. Linking(h5, D, X, c3, n5, p5)
  <2>1. Linking(WithPrev(h4, i, Null), D, X, c3, n3, p5)
    BY <1>12, WritePrev
  <2> QED BY <2>1, WriteNext
<1> HIDE DEF n5, p5
<1> QED BY <1>3, <1>9, <1>13

\* In the links: w in the place of the member at k.
InPlace(s, m, k, w, t) == \A l \in 1 .. m : t[l] = IF l = k THEN w ELSE s[l]

\* What comes of it is a list.
LEMMA LinkInPlace ==
  ASSUME NEW D, Null \notin D, NEW q \in D, NEW s, NEW m \in Nat, NEW k \in 1 .. m,
         NEW w \in D, \A l \in 1 .. m : s[l] # w,
         NEW c, NEW n, NEW p, NEW c1, NEW n1, NEW p1, ListIn(c, n, p, D, q, s, m),
         NEW i, i = s[k], Relinks(D, q, i, w, c, n, p, c1, n1, p1),
         NEW t, InPlace(s, m, k, w, t)
  PROVE ListIn(c1, n1, p1, D, q, t, m)
<1> USE DEF InPlace
<1>1. /\ \A l \in 1 .. m : s[l] \in D
      /\ \A l, j \in 1 .. m : l # j => s[l] # s[j]
      /\ c[q] = s[1]
      /\ \A l \in 1 .. m : n[s[l]] = IF l = m THEN Null ELSE s[l + 1]
      /\ \A l \in 1 .. m : p[s[l]] = IF l = 1 THEN s[m] ELSE s[l - 1]
  BY DEF ListIn
<1>2. /\ s[k] = c[q] <=> k = 1
      /\ n[s[k]] = IF k = m THEN Null ELSE s[k + 1]
      /\ n[s[k]] = Null <=> k = m
      /\ p[s[k]] = IF k = 1 THEN s[m] ELSE s[k - 1]
      /\ k = 1 => (p[s[k]] = s[k] <=> m = 1)
  BY <1>1
<1>3. /\ c1[q] = IF k = 1 THEN w ELSE s[1]
      /\ \A j \in D : n1[j] = IF j = s[k] THEN Null
                              ELSE IF k # 1 /\ j = s[k - 1] THEN w
                              ELSE IF j = w THEN (IF k = m THEN Null ELSE s[k + 1]) ELSE n[j]
      /\ \A j \in D : p1[j] = IF j = s[k] THEN Null
                              ELSE IF k # 1 /\ k = m /\ j = s[1] THEN w
                              ELSE IF k # m /\ j = s[k + 1] THEN w
                              ELSE IF j = w THEN (IF k = 1 THEN IF m = 1 THEN w ELSE s[m]
                                                  ELSE s[k - 1])
                              ELSE p[j]
  BY <1>1, <1>2 DEF Relinks
<1>4. \A l \in 1 .. m : t[l] \in D
  BY <1>1
<1>5. \A l, j \in 1 .. m : l # j => t[l] # t[j]
  BY <1>1
<1>6. c1[q] = t[1]
  BY <1>1, <1>3
<1>7. \A l \in 1 .. m : n1[t[l]] = IF l = m THEN Null ELSE t[l + 1]
  BY <1>1, <1>3
<1>8. \A l \in 1 .. m : p1[t[l]] = IF l = 1 THEN t[m] ELSE t[l - 1]
  BY <1>1, <1>3
<1> QED BY <1>4, <1>5, <1>6, <1>7, <1>8 DEF ListIn

\* Inserting w, which is in no list, before the k-th member of q puts it there.
THEOREM InsertsBefore ==
  ASSUME NEW D, NEW X, Null \notin D, NEW P \in SUBSET D, NEW lists \in Lists(D, P),
         NEW h \in Heaps(D, X), Whole(h, lists),
         NEW q \in P, NEW k \in DOMAIN lists[q], NEW i, i = lists[q][k],
         NEW w \in D, \A r \in P : ~Holds(lists[r], w)
  PROVE LET new == Insert(h, q, i, w)
            now == [lists EXCEPT ![q] = Seqs!With(@, k, w)]
        IN  new \in Heaps(D, X) /\ now \in Lists(D, P) /\ Whole(new, now)
<1> DEFINE s == lists[q]
           m == Len(s)
           t == Seqs!With(s, k, w)
           T == {s[l] : l \in 1 .. m} \cup {w}
           new == Insert(h, q, i, w)
           now == [lists EXCEPT ![q] = t]
<1>1. s \in Seq(D)
  BY DEF Lists
<1>2. m \in Nat /\ DOMAIN s = 1 .. m /\ \A l \in 1 .. m : s[l] \in D
  BY <1>1, SeqParts
<1>3. m \in Nat /\ k \in 1 .. m /\ i \in D /\ i = s[k] /\ m + 1 \in Nat /\ q \in D
  BY <1>2
<1>4. \A l \in 1 .. m + 1 : t[l] = IF l < k THEN s[l] ELSE IF l = k THEN w ELSE s[l - 1]
  BY DEF Seqs!With
<1>5. t \in Seq(D) /\ Len(t) = m + 1 /\ DOMAIN t = 1 .. m + 1
  <2>1. t \in [1 .. m + 1 -> D]
    BY <1>2, <1>3 DEF Seqs!With
  <2> QED BY <2>1, <1>3, SeqDef, LenProperties
<1>6. PICK c, n, p : Linking(h, D, X, c, n, p)
  BY HasLinks
<1>7. /\ ListIn(c, n, p, D, q, s, m)
      /\ \A r \in P \ {q} : \A l \in DOMAIN lists[r] : ~Holds(s, lists[r][l])
  BY <1>6, ListOf
<1>8. now \in Lists(D, P)
  BY <1>5 DEF Lists
<1>9. \A l \in 1 .. m : s[l] # w
  BY <1>2 DEF Holds
<1> HIDE DEF m, t, new, now
<1>10. \A l \in DOMAIN t : t[l] = w \/ Holds(s, t[l])
  <2> HIDE DEF s
  <2>1. \A l \in 1 .. m + 1 : t[l] = w \/ \E j \in 1 .. m : t[l] = s[j]
    BY <1>2, <1>3, <1>4
  <2> QED BY <2>1, <1>2, <1>5 DEF Holds
<1>11. Apart(D, P, lists, q, t, T)
  BY <1>1, <1>7, <1>10, Beside DEF m
<1> HIDE DEF s
<1>12. /\ \A l, j \in 1 .. m : l # j => s[l] # s[j]
       /\ c[q] = s[1] /\ p[i] = IF k = 1 THEN s[m] ELSE s[k - 1]
       /\ i = c[q] <=> k = 1
       /\ s[1] \in D /\ p[i] \in D
  BY <1>2, <1>3, <1>7 DEF ListIn
<1>13. PICK c1, n1, p1 :
         Linking(new, D, X, c1, n1, p1) /\ Inserts(D, q, i, w, c, n, p, c1, n1, p1)
  BY <1>3, <1>6, <1>12, InsertWrites DEF new
<1>14. ListIn(c1, n1, p1, D, q, t, m + 1)
  BY <1>2, <1>3, <1>4, <1>7, <1>9, <1>13, LinkBefore
<1>15. \A j \in T : Holds(t, j)
  <2>1. Holds(t, w)
    BY <1>2, <1>3, <1>4, <1>5 DEF Holds
  <2>2. ASSUME NEW l \in 1 .. m PROVE Holds(t, s[l])
    <3>1. CASE l < k
      <4>1. l \in 1 .. m + 1 /\ t[l] = s[l]
        BY <3>1, <1>3, <1>4
      <4> QED BY <4>1, <1>5 DEF Holds
    <3>2. CASE l >= k
      <4>1. l + 1 \in 1 .. m + 1 /\ t[l + 1] = s[l]
        BY <3>2, <1>3, <1>4
      <4> QED BY <4>1, <1>5 DEF Holds
    <3> QED BY <3>1, <3>2, <1>3
  <2> QED BY <2>1, <2>2
<1>16. Changed(D, q, t, T, c, n, p, c1, n1, p1)
  <2>1. i \in T /\ w \in T /\ (i # c[q] => p[i] \in T)
    <3>1. \A l \in 1 .. m : s[l] \in T
      OBVIOUS
    <3>2. k # 1 => k - 1 \in 1 .. m
      BY <1>3
    <3> QED BY <3>1, <3>2, <1>3, <1>12
  <2> HIDE DEF T
  <2>2. \A j \in D \ {q} : c1[j] = c[j]
    BY <1>13 DEF Inserts
  <2>3. \A j \in D \ T : n1[j] = n[j] /\ p1[j] = p[j]
    BY <2>1, <1>13 DEF Inserts
  <2> QED BY <2>2, <2>3, <1>5, <1>14, <1>15 DEF Changed
<1> HIDE DEF T
<1>17. Whole(new, now)
  BY <1>5, <1>6, <1>11, <1>13, <1>16, OneList DEF now
<1>18. new \in Heaps(D, X)
  BY <1>13 DEF Linking
<1> QED BY <1>8, <1>17, <1>18 DEF new, now, t, s

\* Replacing the k-th member of q by w, which is in no list, puts w in its
\* place and leaves the member chained to nothing and in no list: it can be
\* deleted without the rest of the list.
THEOREM ReplacesInPlace ==
  ASSUME NEW D, NEW X, Null \notin D, NEW P \in SUBSET D, NEW lists \in Lists(D, P),
         NEW h \in Heaps(D, X), Whole(h, lists),
         NEW q \in P, NEW k \in DOMAIN lists[q], NEW i, i = lists[q][k],
         NEW w \in D, \A r \in P : ~Holds(lists[r], w)
  PROVE LET new == Relinked(h, q, i, w)
            now == [lists EXCEPT ![q] = Seqs!Exchanged(@, k, w)]
        IN  /\ new \in Heaps(D, X) /\ now \in Lists(D, P) /\ Whole(new, now)
            /\ new.at[i].next = Null /\ new.at[i].prev = Null
            /\ \A r \in P : ~Holds(now[r], i)
<1> DEFINE s == lists[q]
           m == Len(s)
           t == Seqs!Exchanged(s, k, w)
           T == {s[l] : l \in 1 .. m} \cup {w}
           new == Relinked(h, q, i, w)
           now == [lists EXCEPT ![q] = t]
<1>1. s \in Seq(D)
  BY DEF Lists
<1>2. m \in Nat /\ DOMAIN s = 1 .. m /\ \A l \in 1 .. m : s[l] \in D
  BY <1>1, SeqParts
<1>3. k \in 1 .. m /\ i \in D /\ i = s[k] /\ m \in Nat /\ q \in D
  BY <1>2
<1>4. \A l \in 1 .. m : t[l] = IF l = k THEN w ELSE s[l]
  BY <1>2 DEF Seqs!Exchanged
<1>5. t \in Seq(D) /\ Len(t) = m /\ DOMAIN t = 1 .. m
  BY <1>1, <1>2, <1>3, ExceptSeq DEF Seqs!Exchanged
<1>6. PICK c, n, p : Linking(h, D, X, c, n, p)
  BY HasLinks
<1>7. /\ ListIn(c, n, p, D, q, s, m)
      /\ \A r \in P \ {q} : \A l \in DOMAIN lists[r] : ~Holds(s, lists[r][l])
  BY <1>6, ListOf
<1>8. now \in Lists(D, P) /\ now[q] = t /\ \A r \in P \ {q} : now[r] = lists[r]
  BY <1>5 DEF Lists
<1>9. \A l \in 1 .. m : s[l] # w
  BY <1>2 DEF Holds
<1> HIDE DEF m, t, new, now
<1>10. \A l \in DOMAIN t : t[l] = w \/ Holds(s, t[l])
  <2> HIDE DEF s
  <2> QED BY <1>2, <1>4, <1>5 DEF Holds
<1>11. Apart(D, P, lists, q, t, T)
  BY <1>1, <1>7, <1>10, Beside DEF m
<1>12. \A r \in P \ {q} : ~Holds(lists[r], i)
  BY <1>2, <1>3, <1>7 DEF Holds
<1> HIDE DEF s
<1>13. /\ \A l, j \in 1 .. m : l # j => s[l] # s[j]
       /\ c[q] = s[1] /\ p[i] = IF k = 1 THEN s[m] ELSE s[k - 1]
       /\ n[i] = IF k = m THEN Null ELSE s[k + 1]
       /\ i = c[q] <=> k = 1
       /\ s[1] \in D /\ p[i] \in D /\ i # w
  BY <1>2, <1>3, <1>7, <1>9 DEF ListIn
<1>14. PICK c1, n1, p1 :
         Linking(new, D, X, c1, n1, p1) /\ Relinks(D, q, i, w, c, n, p, c1, n1, p1)
  BY <1>3, <1>6, <1>13, RelinkWrites DEF new
<1>15. ListIn(c1, n1, p1, D, q, t, m)
  <2>1. ListIn(c, n, p, D, q, s, m)
    BY <1>7
  <2>2. Relinks(D, q, i, w, c, n, p, c1, n1, p1)
    BY <1>14
  <2>3. InPlace(s, m, k, w, t)
    BY <1>4 DEF InPlace
  <2> QED BY <2>1, <2>2, <2>3, <1>3, <1>9, LinkInPlace
<1>16. ~Holds(t, i) /\ \A j \in T : ~Holds(t, j) => j = i
  <2>1. Holds(t, w)
    BY <1>2, <1>3, <1>4, <1>5 DEF Holds
  <2>2. \A l \in 1 .. m : l # k => Holds(t, s[l])
    BY <1>3, <1>4, <1>5 DEF Holds
  <2>3. ~Holds(t, i)
    BY <1>3, <1>4, <1>5, <1>13 DEF Holds
  <2> QED BY <2>1, <2>2, <2>3, <1>3
<1>17. Changed(D, q, t, T, c, n, p, c1, n1, p1)
  <2>1. /\ i \in T /\ w \in T /\ c[q] \in T
        /\ i # c[q] => p[i] \in T
        /\ n[i] # Null => n[i] \in T
    <3>1. \A l \in 1 .. m : s[l] \in T
      OBVIOUS
    <3>2. (k # 1 => k - 1 \in 1 .. m) /\ (k # m => k + 1 \in 1 .. m) /\ 1 \in 1 .. m
      BY <1>3
    <3> QED BY <3>1, <3>2, <1>3, <1>13
  <2> HIDE DEF T
  <2>2. \A j \in D \ {q} : c1[j] = c[j]
    BY <1>14 DEF Relinks
  <2>3. \A j \in D \ T : n1[j] = n[j] /\ p1[j] = p[j]
    BY <2>1, <1>14 DEF Relinks
  <2>4. \A j \in T : ~Holds(t, j) => n1[j] = Null
    BY <1>3, <1>14, <1>16 DEF Relinks
  <2> QED BY <2>2, <2>3, <2>4, <1>5, <1>15 DEF Changed
<1> HIDE DEF T
<1>18. Whole(new, now)
  BY <1>5, <1>6, <1>11, <1>14, <1>17, OneList DEF now
<1>19. new \in Heaps(D, X) /\ new.at[i].next = Null /\ new.at[i].prev = Null
  BY <1>3, <1>14 DEF Linking, Relinks
<1>20. \A r \in P : ~Holds(now[r], i)
  BY <1>8, <1>12, <1>16
<1> QED BY <1>8, <1>18, <1>19, <1>20 DEF new, now, t, s

\* So a member can be moved, within its list or to the end of another.
COROLLARY MovesToTheEnd ==
  ASSUME NEW D, NEW X, Null \notin D, NEW P \in SUBSET D, NEW lists \in Lists(D, P),
         NEW h \in Heaps(D, X), Whole(h, lists),
         NEW q \in P, NEW k \in DOMAIN lists[q], NEW i, i = lists[q][k],
         NEW to \in P, i # to
  PROVE LET moved == Appended(DetachItemViaPointer(h, q, i), to, i)
        IN  /\ moved.r = TRUE
            /\ Whole(moved.h, [[lists EXCEPT ![q] = Seqs!Without(@, k)] EXCEPT ![to] = Seqs!Behind(@, i)])
<1> DEFINE new == DetachItemViaPointer(h, q, i)
           now == [lists EXCEPT ![q] = Seqs!Without(@, k)]
<1>1. i \in D
  <2>1. lists[q] \in Seq(D)
    BY DEF Lists
  <2> QED BY <2>1, SeqParts
<1>2. /\ new \in Heaps(D, X) /\ now \in Lists(D, P) /\ Whole(new, now)
      /\ \A r \in P : ~Holds(now[r], i)
  BY DetachesMember
<1> HIDE DEF new, now
<1>3. /\ Appended(new, to, i).r = TRUE
      /\ Whole(Appended(new, to, i).h, [now EXCEPT ![to] = Seqs!Behind(@, i)])
  <2>1. \A g \in Heaps(D, X), l \in Lists(D, P), w \in D :
          Whole(g, l) /\ w # to /\ (\A r \in P : ~Holds(l[r], w))
          => /\ Appended(g, to, w).r = TRUE
             /\ Whole(Appended(g, to, w).h, [l EXCEPT ![to] = Seqs!Behind(@, w)])
    BY AppendsLast
  <2> QED BY <2>1, <1>1, <1>2
<1> QED BY <1>3 DEF new, now

-----------------------------------------------------------------------------
(* The heap determines its lists.                                           *)

\* The order of the numbers as the set of pairs the library reasons about.
LEMMA NatLess == IsWellFoundedOn({p \in Nat \X Nat : p[1] < p[2]}, Nat)
BY NatLessThanWellFounded DEF OpToRel

\* Places where something fails have a first one.
LEMMA First ==
  ASSUME NEW S \in SUBSET Nat, S # {}
  PROVE \E m \in S : \A k \in S : m <= k
<1> DEFINE R == {p \in Nat \X Nat : p[1] < p[2]}
<1>1. PICK m \in S : \A k \in S : <<k, m>> \notin R
  <2> HIDE DEF R
  <2>1. IsWellFoundedOn(R, Nat)
    BY NatLess DEF R
  <2> QED BY <2>1, WFMin
<1>2. \A k \in S : m <= k
  <2> TAKE k \in S
  <2>1. ~(k < m)
    BY <1>1
  <2> QED BY <2>1
<1> QED BY <1>2

Agree(s, t) == \A k \in 1 .. Len(s) : k \in 1 .. Len(t) /\ s[k] = t[k]

\* A list of q holds, where another one has a member, the same member: from the
\* child on, the one after a member is its next.
LEMMA SameMembers ==
  ASSUME NEW D, Null \notin D, NEW h, NEW q, NEW s \in Seq(D), NEW t \in Seq(D),
         IsList(h, q, s), IsList(h, q, t)
  PROVE Agree(s, t)
<1> DEFINE m == Len(s)
           r == Len(t)
           T == {k \in 1 .. m : ~(k \in 1 .. r /\ s[k] = t[k])}
<1>1. /\ m \in Nat /\ DOMAIN s = 1 .. m /\ (s = <<>> <=> m = 0)
      /\ \A k \in 1 .. m : s[k] \in D
  BY SeqParts
<1>2. r \in Nat /\ DOMAIN t = 1 .. r /\ (t = <<>> <=> r = 0)
  BY SeqParts
<1>3. /\ h.at[q].child = IF m = 0 THEN Null ELSE s[1]
      /\ \A k \in 1 .. m : h.at[s[k]].next = IF k = m THEN Null ELSE s[k + 1]
  BY <1>1 DEF IsList
<1>4. /\ h.at[q].child = IF r = 0 THEN Null ELSE t[1]
      /\ \A k \in 1 .. r : h.at[t[k]].next = IF k = r THEN Null ELSE t[k + 1]
  BY <1>2 DEF IsList
<1> SUFFICES ASSUME T # {} PROVE FALSE
  BY DEF Agree
<1>5. T \in SUBSET Nat
  BY <1>1
<1>6. PICK k \in T : \A j \in T : k <= j
  <2> HIDE DEF T
  <2> QED BY <1>5, First
<1>7. k \in 1 .. m /\ ~(k \in 1 .. r /\ s[k] = t[k])
  OBVIOUS
<1>8. CASE k = 1
  <2>1. s[1] # Null /\ m # 0
    BY <1>1, <1>7, <1>8
  <2>2. r # 0 /\ t[1] = s[1]
    BY <2>1, <1>3, <1>4
  <2> QED BY <2>2, <1>2, <1>7, <1>8
<1>9. CASE k # 1
  <2> DEFINE j == k - 1
  <2>1. j \in 1 .. m /\ j # m /\ j + 1 = k
    BY <1>1, <1>7, <1>9
  <2>2. j \notin T
    BY <1>1, <1>6, <1>7
  <2>3. j \in 1 .. r /\ s[j] = t[j]
    BY <2>1, <2>2
  <2>4. h.at[s[j]].next = s[k] /\ s[k] # Null
    BY <1>1, <1>3, <1>7, <2>1
  <2> HIDE DEF j
  <2>5. h.at[t[j]].next = IF j = r THEN Null ELSE t[k]
    BY <1>4, <2>1, <2>3
  <2>6. j # r
    BY <2>3, <2>4, <2>5
  <2>7. s[k] = t[k]
    BY <2>3, <2>4, <2>5, <2>6
  <2>8. j \in 1 .. r /\ j + 1 = k
    BY <2>1, <2>3
  <2>9. k \in 1 .. r
    <3>1. r \in Nat
      BY <1>2
    <3> HIDE DEF r, T
    <3>2. j + 1 \in 1 .. r
      BY <2>6, <2>8, <3>1
    <3> QED BY <2>8, <3>2
  <2> QED BY <1>7, <2>7, <2>9
<1> QED BY <1>8, <1>9

\* So a parent has one list only.
LEMMA OneReading ==
  ASSUME NEW D, Null \notin D, NEW h, NEW q, NEW s \in Seq(D), NEW t \in Seq(D),
         IsList(h, q, s), IsList(h, q, t)
  PROVE s = t
<1>1. Agree(s, t) /\ Agree(t, s)
  BY SameMembers
<1>2. Len(s) \in Nat /\ Len(t) \in Nat
  BY SeqParts
<1>3. Len(s) <= Len(t) /\ Len(t) <= Len(s)
  <2>1. Len(s) # 0 => Len(s) \in 1 .. Len(t)
    BY <1>1, <1>2 DEF Agree
  <2>2. Len(t) # 0 => Len(t) \in 1 .. Len(s)
    BY <1>1, <1>2 DEF Agree
  <2> QED BY <1>2, <2>1, <2>2
<1>4. Len(s) = Len(t)
  BY <1>2, <1>3
<1>5. \A k \in 1 .. Len(s) : s[k] = t[k]
  BY <1>1 DEF Agree
<1> QED BY <1>4, <1>5, SeqEqual

\* The lists of a whole heap are its contents.
LEMMA Reading ==
  ASSUME NEW h, NEW lists \in Lists(Addresses, Addresses), Whole(h, lists)
  PROVE Contents(h) = lists
<1>1. ASSUME NEW p \in Addresses
      PROVE (CHOOSE s \in Seq(Addresses) : IsList(h, p, s)) = lists[p]
  <2> DEFINE c == CHOOSE s \in Seq(Addresses) : IsList(h, p, s)
  <2>1. lists[p] \in Seq(Addresses) /\ IsList(h, p, lists[p])
    BY DEF Lists, Whole
  <2>2. c \in Seq(Addresses) /\ IsList(h, p, c)
    BY <2>1
  <2>3. Null \notin Addresses
    BY DEF Null, Addresses
  <2> HIDE DEF c
  <2>4. c = lists[p]
    BY <2>1, <2>2, <2>3, OneReading
  <2> QED BY <2>4 DEF c
<1>2. Contents(h) = [p \in Addresses |-> lists[p]]
  BY <1>1 DEF Contents
<1> QED BY <1>2 DEF Lists

-----------------------------------------------------------------------------
(* Every sequence of calls.                                                 *)

Inv == /\ heap \in Heaps(Addresses, Data)
       /\ Contents(heap) \in Lists(Addresses, Addresses)
       /\ ListsWhole

\* A call that yields a whole heap with the lists now.
Yields(now) ==
  /\ heap' \in Heaps(Addresses, Data)
  /\ now \in Lists(Addresses, Addresses)
  /\ Whole(heap', now)

\* After it the contents are these lists.
LEMMA Yielded ==
  ASSUME NEW now, Yields(now)
  PROVE Inv' /\ Contents(heap)' = now
<1>1. Contents(heap') = now
  BY Reading DEF Yields
<1> QED BY <1>1 DEF Yields, Inv, ListsWhole

\* No struct is at NULL.
LEMMA NoNull == Null \notin Addresses
BY DEF Null, Addresses

\* A member's place.
LEMMA Place ==
  ASSUME Inv, NEW p \in Addresses, NEW i, IsMember(i, p)
  PROVE \E k \in DOMAIN Contents(heap)[p] : i = Contents(heap)[p][k]
BY DEF IsMember, Holds

\* What is in no list is free.
LEMMA NowhereIsFree ==
  ASSUME NEW i \in Addresses, InNoList(i)
  PROVE /\ \A p \in Addresses : ~Holds(Contents(heap)[p], i)
        /\ i \in Seqs!Free
BY DEF InNoList, IsMember, Holds, Seqs!Free, Seqs!Listed

\* One list changes.
LEMMA OneBecomes ==
  ASSUME Inv, NEW p \in Addresses, NEW s,
         Contents(heap)' = [Contents(heap) EXCEPT ![p] = s]
  PROVE Seqs!Becomes(p, s)
BY DEF Inv, Lists, Seqs!Becomes

\* The initial lists are those of the abstract specification.
LEMMA InitMaps == Init => Inv /\ Seqs!Init
<1> SUFFICES ASSUME Init PROVE Inv /\ Seqs!Init
  OBVIOUS
<1>1. PICK l \in Lists(Addresses, Addresses) : Whole(heap, l)
  BY DEF Init, Lists
<1>2. Contents(heap) = l
  BY <1>1, Reading
<1>3. Inv
  BY <1>1, <1>2 DEF Inv, ListsWhole, Init
<1>4. \A p, q \in Addresses : \A m \in DOMAIN l[p], n \in DOMAIN l[q] :
        l[p][m] = l[q][n] => p = q /\ m = n
  <2> TAKE p, q \in Addresses
  <2> TAKE m \in DOMAIN l[p], n \in DOMAIN l[q]
  <2> HAVE l[p][m] = l[q][n]
  <2>1. DOMAIN l = Addresses
    BY DEF Lists
  <2>2. p = q
    BY <1>1, <2>1 DEF Whole, Holds
  <2>3. IsList(heap, p, l[p])
    BY <1>1, <2>1 DEF Whole
  <2> QED BY <2>2, <2>3 DEF IsList
<1>5. Seqs!Init
  BY <1>2, <1>4 DEF Seqs!Init, Lists
<1> QED BY <1>3, <1>5

\* Adding puts the item behind the others, or is refused.
LEMMA AddMaps == Inv /\ AddItem => Inv' /\ [Seqs!Add]_(Contents(heap))
<1> SUFFICES ASSUME Inv, AddItem PROVE Inv' /\ [Seqs!Add]_(Contents(heap))
  OBVIOUS
<1> DEFINE l == Contents(heap)
           D == Addresses
<1>1. PICK p \in D, i \in D : InNoList(i) /\ heap' = Appended(heap, p, i).h
  BY DEF AddItem
<1>2. CASE p = i
  <2>1. heap' = heap
    BY <1>1, <1>2 DEF Appended, Result
  <2>2. Inv' /\ l' = l
    BY <2>1 DEF Inv, ListsWhole
  <2> QED BY <2>2
<1>3. CASE p # i
  <2> DEFINE now == [l EXCEPT ![p] = Seqs!Behind(@, i)]
  <2>1. heap' \in Heaps(D, Data) /\ Whole(heap', now)
    BY <1>1, <1>3, NoNull, NowhereIsFree, AppendsLast DEF Inv, ListsWhole
  <2>2. now \in Lists(D, D)
    BY AppendProperties DEF Inv, Lists, Seqs!Behind
  <2>3. Inv' /\ l' = now
    BY <2>1, <2>2, Yielded DEF Yields
  <2>4. Seqs!Add
    BY <1>1, <1>3, <2>3, NowhereIsFree, OneBecomes DEF Seqs!Add
  <2> QED BY <2>3, <2>4
<1> QED BY <1>2, <1>3

\* Detaching takes the member out.
LEMMA DetachMaps == Inv /\ DetachItem => Inv' /\ Seqs!Remove
<1> SUFFICES ASSUME Inv, DetachItem PROVE Inv' /\ Seqs!Remove
  OBVIOUS
<1> DEFINE l == Contents(heap)
           D == Addresses
<1>1. PICK p \in D, i \in D : IsMember(i, p) /\ heap' = DetachItemViaPointer(heap, p, i)
  BY DEF DetachItem
<1>2. PICK k \in DOMAIN l[p] : i = l[p][k]
  BY <1>1, Place
<1> DEFINE now == [l EXCEPT ![p] = Seqs!Without(@, k)]
<1>3. heap' \in Heaps(D, Data) /\ now \in Lists(D, D) /\ Whole(heap', now)
  BY <1>1, <1>2, NoNull, DetachesMember DEF Inv, ListsWhole
<1>4. Inv' /\ l' = now
  BY <1>3, Yielded DEF Yields
<1> QED BY <1>2, <1>4, OneBecomes DEF Seqs!Remove

\* Inserting puts the item before the member.
LEMMA InsertMaps == Inv /\ InsertItem => Inv' /\ Seqs!Insert
<1> SUFFICES ASSUME Inv, InsertItem PROVE Inv' /\ Seqs!Insert
  OBVIOUS
<1> DEFINE l == Contents(heap)
           D == Addresses
<1>1. PICK p \in D, i \in D, w \in D : /\ IsMember(i, p) /\ InNoList(w)
                                      /\ heap' = Insert(heap, p, i, w)
  BY DEF InsertItem
<1>2. PICK k \in DOMAIN l[p] : i = l[p][k]
  BY <1>1, Place
<1> DEFINE now == [l EXCEPT ![p] = Seqs!With(@, k, w)]
<1>3. heap' \in Heaps(D, Data) /\ now \in Lists(D, D) /\ Whole(heap', now)
  BY <1>1, <1>2, NoNull, NowhereIsFree, InsertsBefore DEF Inv, ListsWhole
<1>4. Inv' /\ l' = now
  BY <1>3, Yielded DEF Yields
<1> QED BY <1>1, <1>2, <1>4, NowhereIsFree, OneBecomes DEF Seqs!Insert

\* Replacing puts the item in the place of the member.
LEMMA ReplaceMaps == Inv /\ ReplaceItem => Inv' /\ Seqs!Replace
<1> SUFFICES ASSUME Inv, ReplaceItem PROVE Inv' /\ Seqs!Replace
  OBVIOUS
<1> DEFINE l == Contents(heap)
           D == Addresses
<1>1. PICK p \in D, i \in D, w \in D : /\ IsMember(i, p) /\ InNoList(w)
                                      /\ heap' = Relinked(heap, p, i, w)
  BY DEF ReplaceItem
<1>2. PICK k \in DOMAIN l[p] : i = l[p][k]
  BY <1>1, Place
<1> DEFINE now == [l EXCEPT ![p] = Seqs!Exchanged(@, k, w)]
<1>3. heap' \in Heaps(D, Data) /\ now \in Lists(D, D) /\ Whole(heap', now)
  BY <1>1, <1>2, NoNull, NowhereIsFree, ReplacesInPlace DEF Inv, ListsWhole
<1>4. Inv' /\ l' = now
  BY <1>3, Yielded DEF Yields
<1> QED BY <1>1, <1>2, <1>4, NowhereIsFree, OneBecomes DEF Seqs!Replace

\* Every step maps to a step of the abstract specification, or to none.
LEMMA StepMaps == Inv /\ [Next]_heap => Inv' /\ [Seqs!Next]_(Contents(heap))
<1> SUFFICES ASSUME Inv, [Next]_heap PROVE Inv' /\ [Seqs!Next]_(Contents(heap))
  OBVIOUS
<1>1. CASE AddItem
  BY <1>1, AddMaps DEF Seqs!Next
<1>2. CASE DetachItem
  BY <1>2, DetachMaps DEF Seqs!Next
<1>3. CASE InsertItem
  BY <1>3, InsertMaps DEF Seqs!Next
<1>4. CASE ReplaceItem
  BY <1>4, ReplaceMaps DEF Seqs!Next
<1>5. CASE UNCHANGED heap
  BY <1>5 DEF Inv, ListsWhole
<1> QED BY <1>1, <1>2, <1>3, <1>4, <1>5 DEF Next

\* Whatever is called, in whatever order, every list stays whole: its links
\* agree in both directions, its first member knows the last, no struct is in
\* two places, and none outside is chained to one (cJSON.c:1932-2404).
THEOREM StayWhole == Spec => []ListsWhole
<1>1. Init => Inv
  BY InitMaps
<1>2. Inv /\ [Next]_heap => Inv'
  BY StepMaps
<1>3. Inv => ListsWhole
  BY DEF Inv
<1> QED BY <1>1, <1>2, <1>3, PTL DEF Spec

\* And the calls are what they are called: the chained structs implement
\* sequences, in which one call changes one list at one place.
THEOREM ListsAreSequences == Spec => AreSequences
<1>1. Init => Inv /\ Seqs!Init
  BY InitMaps
<1>2. Inv /\ [Next]_heap => Inv' /\ [Seqs!Next]_(Contents(heap))
  BY StepMaps
<1> QED BY <1>1, <1>2, PTL DEF Spec, AreSequences, Seqs!Spec

-----------------------------------------------------------------------------
(* Trees.                                                                   *)

MemberSets == [Addresses -> SUBSET Addresses]

\* A tree has its root, and with an item its members,
LEMMA TreeClosed ==
  ASSUME NEW k \in MemberSets, NEW i \in Addresses
  PROVE /\ Own!Tree(k, i) \in SUBSET Addresses /\ i \in Own!Tree(k, i)
        /\ \A p \in Own!Tree(k, i) : k[p] \subseteq Own!Tree(k, i)
BY DEF Own!Tree, Own!Closed, MemberSets

\* and nothing more:
LEMMA TreeLeast ==
  ASSUME NEW k, NEW i, NEW S \in SUBSET Addresses, i \in S, \A p \in S : k[p] \subseteq S
  PROVE Own!Tree(k, i) \subseteq S
BY DEF Own!Tree, Own!Closed

\* all but the root are members of something in the tree.
LEMMA TreeParent ==
  ASSUME NEW k \in MemberSets, NEW i \in Addresses, NEW j \in Own!Tree(k, i), j # i
  PROVE \E p \in Own!Tree(k, i) : j \in k[p]
<1> DEFINE T == Own!Tree(k, i)
<1>1. T \in SUBSET Addresses /\ i \in T /\ \A p \in T : k[p] \subseteq T
  BY TreeClosed
<1>2. SUFFICES ASSUME \A p \in T : j \notin k[p] PROVE FALSE
  OBVIOUS
<1> DEFINE S == T \ {j}
<1>3. S \in SUBSET Addresses /\ i \in S /\ \A p \in S : k[p] \subseteq S
  BY <1>1, <1>2
<1>4. j \notin S
  OBVIOUS
<1> HIDE DEF S
<1>5. T \subseteq S
  BY <1>3, TreeLeast
<1> QED BY <1>4, <1>5

\* With fewer members a tree has fewer items.
LEMMA TreeShrinks ==
  ASSUME NEW k \in MemberSets, NEW l \in MemberSets, NEW i \in Addresses,
         \A p \in Addresses : l[p] \subseteq k[p]
  PROVE Own!Tree(l, i) \subseteq Own!Tree(k, i)
<1>1. /\ Own!Tree(k, i) \in SUBSET Addresses /\ i \in Own!Tree(k, i)
      /\ \A p \in Own!Tree(k, i) : k[p] \subseteq Own!Tree(k, i)
  BY TreeClosed
<1>2. \A p \in Own!Tree(k, i) : l[p] \subseteq Own!Tree(k, i)
  BY <1>1
<1> QED BY <1>1, <1>2, TreeLeast

\* Walking through a tree from the top, every parent before its members, one
\* meets all of it and nothing else.
LEMMA WalksTree ==
  ASSUME NEW k \in MemberSets, NEW i \in Addresses, NEW q \in Seq(Addresses), q # <<>>,
         Own!Enumerates(k, i, q)
  PROVE Own!Tree(k, i) = {q[n] : n \in 1 .. Len(q)}
<1> DEFINE S == {q[n] : n \in 1 .. Len(q)}
           T == Own!Tree(k, i)
           Missed == {n \in 1 .. Len(q) : q[n] \notin T}
<1>1. Len(q) \in Nat /\ 1 \in 1 .. Len(q) /\ \A n \in 1 .. Len(q) : q[n] \in Addresses
  BY SeqParts
<1>2. /\ q[1] = i
      /\ \A n \in 2 .. Len(q) : \E m \in 1 .. n - 1 : q[n] \in k[q[m]]
      /\ \A n \in 1 .. Len(q) : \A j \in k[q[n]] : \E m \in 1 .. Len(q) : q[m] = j
  BY DEF Own!Enumerates
<1>3. T \subseteq S
  <2>1. S \in SUBSET Addresses /\ i \in S
    BY <1>1, <1>2
  <2>2. ASSUME NEW p \in S, NEW j \in k[p] PROVE j \in S
    <3>1. PICK n \in 1 .. Len(q) : q[n] = p
      OBVIOUS
    <3>2. PICK m \in 1 .. Len(q) : q[m] = j
      BY <1>2, <2>2, <3>1
    <3> QED BY <3>2
  <2> HIDE DEF S
  <2> QED BY <2>1, <2>2, TreeLeast
<1>4. i \in T /\ \A p \in T : k[p] \subseteq T
  BY TreeClosed
<1>5. ASSUME Missed # {} PROVE FALSE
  <2>1. PICK n \in Missed : \A m \in Missed : n <= m
    <3>1. Missed \in SUBSET Nat
      BY <1>1
    <3> HIDE DEF Missed
    <3> QED BY <1>5, <3>1, First
  <2>2. n \in 1 .. Len(q) /\ q[n] \notin T
    OBVIOUS
  <2> HIDE DEF T
  <2>3. n \in 2 .. Len(q)
    BY <1>1, <1>2, <1>4, <2>2
  <2>4. PICK m \in 1 .. n - 1 : q[n] \in k[q[m]]
    BY <1>2, <2>3
  <2>5. m \in 1 .. Len(q) /\ ~(n <= m)
    BY <1>1, <2>3
  <2>6. q[m] \in T
    BY <2>1, <2>5
  <2> QED BY <1>4, <2>2, <2>4, <2>6
<1> QED BY <1>3, <1>5

-----------------------------------------------------------------------------
(* Forests: the inductive invariant of Ownership.                           *)

\* Some item of every set of items has no parent in the set.
Grounded(k) == \A S \in SUBSET Addresses : S # {} => \E i \in S : \A p \in S : i \notin k[p]

\* The live items are a forest, and H has its roots.
Forest(L, k, H) ==
  /\ L \in SUBSET Addresses /\ k \in MemberSets /\ H \in SUBSET L
  /\ \A p, q \in Addresses : p # q => k[p] \cap k[q] = {}
  /\ Grounded(k)
  /\ \A i \in L : i \in H <=> \A p \in Addresses : i \notin k[p]
  /\ \A p \in Addresses : k[p] \subseteq L /\ (p \notin L => k[p] = {})

\* The tree of a root has only live items,
LEMMA ForestLive ==
  ASSUME NEW L, NEW k, NEW H, Forest(L, k, H), NEW r \in H
  PROVE Own!Tree(k, r) \subseteq L
<1>1. L \in SUBSET Addresses /\ r \in L /\ \A p \in L : k[p] \subseteq L
  BY DEF Forest
<1> QED BY <1>1, TreeLeast

\* every live item is in such a tree: climbing from an item that is not, one
\* would not come to an end,
LEMMA ForestCovered ==
  ASSUME NEW L, NEW k, NEW H, Forest(L, k, H), NEW i \in L
  PROVE \E r \in H : i \in Own!Tree(k, r)
<1> DEFINE S == {j \in L : \A r \in H : j \notin Own!Tree(k, r)}
<1>1. /\ k \in MemberSets /\ L \in SUBSET Addresses /\ H \in SUBSET Addresses
      /\ \A j \in L : j \in H <=> \A p \in Addresses : j \notin k[p]
      /\ \A p \in Addresses : k[p] # {} => p \in L
      /\ \A p \in L : k[p] \subseteq L
  BY DEF Forest
<1>2. SUFFICES ASSUME S # {} PROVE FALSE
  OBVIOUS
<1>3. PICK j \in S : \A p \in S : j \notin k[p]
  <2>1. S \in SUBSET Addresses
    BY <1>1
  <2> HIDE DEF S
  <2> QED BY <1>2, <2>1 DEF Forest, Grounded
<1>4. j \notin H
  <2>1. j \in Addresses /\ \A r \in H : j \notin Own!Tree(k, r)
    BY <1>1
  <2> QED BY <1>1, <2>1, TreeClosed
<1>5. PICK p \in Addresses : j \in k[p]
  BY <1>1, <1>4
<1>6. p \in L /\ p \notin S
  BY <1>1, <1>3, <1>5
<1>7. PICK r \in H : p \in Own!Tree(k, r)
  BY <1>6
<1>8. j \in Own!Tree(k, r)
  <2>1. r \in Addresses
    BY <1>1
  <2> QED BY <1>1, <1>5, <1>7, <2>1, TreeClosed
<1> QED BY <1>8

\* and in no other.
LEMMA ForestApart ==
  ASSUME NEW L, NEW k, NEW H, Forest(L, k, H), NEW r \in H, NEW s \in H, r # s
  PROVE Own!Tree(k, r) \cap Own!Tree(k, s) = {}
<1> DEFINE R == Own!Tree(k, r)
           T == Own!Tree(k, s)
<1>1. /\ k \in MemberSets /\ r \in Addresses /\ s \in Addresses
      /\ \A p \in Addresses : r \notin k[p] /\ s \notin k[p]
      /\ \A p, q \in Addresses : p # q => k[p] \cap k[q] = {}
  BY DEF Forest
<1>2. R \in SUBSET Addresses /\ r \in R /\ \A p \in R : k[p] \subseteq R
  BY <1>1, TreeClosed
<1>3. T \in SUBSET Addresses /\ \A j \in T : j # s => \E p \in T : j \in k[p]
  BY <1>1, TreeClosed, TreeParent
<1> HIDE DEF R, T
<1>4. r \in R \ T
  BY <1>1, <1>2, <1>3
<1>5. \A p \in R \ T : k[p] \subseteq R \ T
  <2> SUFFICES ASSUME NEW p \in R \ T, NEW j \in k[p], j \in T PROVE FALSE
    BY <1>2
  <2>1. p \in Addresses /\ j # s
    BY <1>1, <1>2
  <2>2. PICK q \in T : j \in k[q]
    BY <1>3, <2>1
  <2>3. q # p /\ q \in Addresses
    BY <1>3, <2>2
  <2> QED BY <1>1, <2>1, <2>2, <2>3
<1>6. R \ T \in SUBSET Addresses
  BY <1>2
<1>7. R \subseteq R \ T
  BY <1>4, <1>5, <1>6, TreeLeast DEF R
<1> QED BY <1>7 DEF R, T

\* So it is owned.
LEMMA ForestOwned ==
  ASSUME NEW L, NEW k, NEW H, Forest(L, k, H)
  PROVE /\ \A r \in H : Own!Tree(k, r) \subseteq L
        /\ \A i \in L : \E r \in H : i \in Own!Tree(k, r)
        /\ \A r, s \in H : r # s => Own!Tree(k, r) \cap Own!Tree(k, s) = {}
        /\ \A p, q \in Addresses : p # q => k[p] \cap k[q] = {}
        /\ \A p \in Addresses : k[p] \cap H = {}
<1>1. \A r \in H : Own!Tree(k, r) \subseteq L
  BY ForestLive
<1>2. \A i \in L : \E r \in H : i \in Own!Tree(k, r)
  BY ForestCovered
<1>3. \A r, s \in H : r # s => Own!Tree(k, r) \cap Own!Tree(k, s) = {}
  BY ForestApart
<1>4. /\ \A p, q \in Addresses : p # q => k[p] \cap k[q] = {}
      /\ \A p \in Addresses : k[p] \cap H = {}
  BY DEF Forest
<1> QED BY <1>1, <1>2, <1>3, <1>4

\* A new item is a root.
LEMMA ForestCreates ==
  ASSUME NEW L, NEW k, NEW H, Forest(L, k, H), NEW i \in Addresses \ L
  PROVE Forest(L \cup {i}, k, H \cup {i})
BY DEF Forest

\* Giving a root to an item outside its tree makes no circle: the parent of an
\* item outside the tree is outside, or the item is its member already.
LEMMA GivenGrounded ==
  ASSUME NEW k \in MemberSets, Grounded(k), NEW p \in Addresses, NEW i \in Addresses,
         p \notin Own!Tree(k, i)
  PROVE Grounded(Own!Given(k, p, i))
<1> DEFINE T == Own!Tree(k, i)
           l == Own!Given(k, p, i)
<1>1. T \in SUBSET Addresses /\ i \in T /\ \A q \in T : k[q] \subseteq T
  BY TreeClosed
<1>2. \A q \in Addresses : l[q] = IF q = p THEN k[p] \cup {i} ELSE k[q]
  BY DEF Own!Given, MemberSets
<1> HIDE DEF l
<1>3. SUFFICES ASSUME NEW S \in SUBSET Addresses, S # {}, \A j \in S : \E q \in S : j \in l[q]
               PROVE FALSE
  BY DEF Grounded, l
<1>4. PICK j \in S : \A q \in S : j \notin k[q]
  BY <1>3 DEF Grounded
<1>5. j = i /\ p \in S
  BY <1>2, <1>3, <1>4
<1>6. S \ T # {} /\ S \ T \in SUBSET Addresses
  BY <1>5
<1>7. PICK m \in S \ T : \A q \in S \ T : m \notin k[q]
  <2> HIDE DEF T
  <2> QED BY <1>6 DEF Grounded
<1> HIDE DEF T
<1>8. PICK q \in S : m \in l[q]
  BY <1>3
<1>9. m \in k[q]
  BY <1>1, <1>2, <1>7, <1>8
<1>10. q \in T
  BY <1>7, <1>9
<1> QED BY <1>1, <1>7, <1>9, <1>10

\* The root becomes a member.
LEMMA ForestGives ==
  ASSUME NEW L, NEW k, NEW H, Forest(L, k, H), NEW p \in L, NEW i \in H,
         p \notin Own!Tree(k, i)
  PROVE Forest(L, Own!Given(k, p, i), H \ {i})
<1> DEFINE l == Own!Given(k, p, i)
<1>1. p \in Addresses /\ i \in Addresses /\ i \in L /\ k \in MemberSets /\ Grounded(k)
  BY DEF Forest
<1>2. l \in MemberSets /\ \A q \in Addresses : l[q] = IF q = p THEN k[p] \cup {i} ELSE k[q]
  BY <1>1 DEF Own!Given, MemberSets
<1>3. Grounded(l)
  BY <1>1, GivenGrounded
<1> HIDE DEF l
<1>4. \A q \in Addresses : i \notin k[q]
  BY <1>1 DEF Forest
<1>5. \A q, r \in Addresses : q # r => l[q] \cap l[r] = {}
  BY <1>2, <1>4 DEF Forest
<1>6. \A j \in L : j \in H \ {i} <=> \A q \in Addresses : j \notin l[q]
  BY <1>1, <1>2 DEF Forest
<1>7. \A q \in Addresses : l[q] \subseteq L /\ (q \notin L => l[q] = {})
  BY <1>1, <1>2 DEF Forest
<1>8. Forest(L, l, H \ {i})
  BY <1>2, <1>3, <1>5, <1>6, <1>7 DEF Forest
<1> QED BY <1>8 DEF l

\* With fewer members there is still no circle.
LEMMA FewerGrounded ==
  ASSUME NEW k, NEW l, Grounded(k), \A q \in Addresses : l[q] \subseteq k[q]
  PROVE Grounded(l)
BY DEF Grounded

\* The member becomes a root.
LEMMA ForestTakes ==
  ASSUME NEW L, NEW k, NEW H, Forest(L, k, H), NEW p \in L, NEW i \in k[p]
  PROVE Forest(L, Own!Taken(k, p, i), H \cup {i})
<1> DEFINE l == Own!Taken(k, p, i)
<1>1. p \in Addresses /\ i \in Addresses /\ i \in L /\ k \in MemberSets /\ Grounded(k)
  BY DEF Forest
<1>2. l \in MemberSets /\ \A q \in Addresses : l[q] = IF q = p THEN k[p] \ {i} ELSE k[q]
  BY <1>1 DEF Own!Taken, MemberSets
<1> HIDE DEF l
<1>3. Grounded(l)
  BY <1>1, <1>2, FewerGrounded
<1>4. \A q \in Addresses : q # p => i \notin k[q]
  BY <1>1 DEF Forest
<1>5. \A q, r \in Addresses : q # r => l[q] \cap l[r] = {}
  BY <1>2 DEF Forest
<1>6. \A j \in L : j \in H \cup {i} <=> \A q \in Addresses : j \notin l[q]
  BY <1>1, <1>2, <1>4 DEF Forest
<1>7. \A q \in Addresses : l[q] \subseteq L /\ (q \notin L => l[q] = {})
  BY <1>1, <1>2 DEF Forest
<1>8. Forest(L, l, H \cup {i})
  BY <1>1, <1>2, <1>3, <1>5, <1>6, <1>7 DEF Forest
<1> QED BY <1>8 DEF l

\* A root is deleted with its tree, and nothing else has lost a member.
LEMMA ForestDeletes ==
  ASSUME NEW L, NEW k, NEW H, Forest(L, k, H), NEW i \in H
  PROVE Forest(L \ Own!Tree(k, i), Own!Cleared(k, Own!Tree(k, i)), H \ {i})
<1> DEFINE T == Own!Tree(k, i)
           l == Own!Cleared(k, T)
<1>1. i \in Addresses /\ i \in L /\ k \in MemberSets /\ Grounded(k)
  BY DEF Forest
<1>2. /\ T \in SUBSET Addresses /\ i \in T /\ \A q \in T : k[q] \subseteq T
      /\ \A j \in T : j # i => \E p \in T : j \in k[p]
  BY <1>1, TreeClosed, TreeParent
<1> HIDE DEF T
<1>3. l \in MemberSets /\ \A q \in Addresses : l[q] = IF q \in T THEN {} ELSE k[q]
  BY <1>1 DEF Own!Cleared, MemberSets
<1> HIDE DEF l
<1>4. Grounded(l)
  BY <1>1, <1>3, FewerGrounded
<1>5. \A q, r \in Addresses : q # r => l[q] \cap l[r] = {}
  BY <1>3 DEF Forest
<1>6. \A q \in Addresses : i \notin k[q]
  BY <1>1 DEF Forest
<1>7. \A q \in Addresses \ T : k[q] \cap T = {}
  <2> SUFFICES ASSUME NEW q \in Addresses \ T, NEW j \in k[q], j \in T PROVE FALSE
    OBVIOUS
  <2>1. PICK p \in T : j \in k[p]
    BY <1>2, <1>6
  <2>2. p # q /\ p \in Addresses
    BY <1>2, <2>1
  <2> QED BY <2>1, <2>2 DEF Forest
<1>8. H \ {i} \in SUBSET (L \ T)
  <2> SUFFICES ASSUME NEW j \in H \ {i}, j \in T PROVE FALSE
    BY DEF Forest
  <2>1. PICK p \in T : j \in k[p]
    BY <1>2
  <2> QED BY <1>2, <2>1 DEF Forest
<1>9. \A j \in L \ T : j \in H \ {i} <=> \A q \in Addresses : j \notin l[q]
  <2> TAKE j \in L \ T
  <2>1. (\A q \in Addresses : j \notin l[q]) <=> \A q \in Addresses : j \notin k[q]
    BY <1>2, <1>3
  <2>2. j \in H <=> \A q \in Addresses : j \notin k[q]
    BY DEF Forest
  <2> QED BY <1>2, <2>1, <2>2
<1>10. \A q \in Addresses : l[q] \subseteq L \ T /\ (q \notin L \ T => l[q] = {})
  BY <1>3, <1>7 DEF Forest
<1>11. L \ T \in SUBSET Addresses
  BY DEF Forest
<1>12. Forest(L \ T, l, H \ {i})
  BY <1>3, <1>4, <1>5, <1>8, <1>9, <1>10, <1>11 DEF Forest
<1> QED BY <1>12 DEF l, T

-----------------------------------------------------------------------------
(* Lists as member sets.                                                    *)

\* The members of a list, and of every list.
InList(s)    == {i \in Addresses : Holds(s, i)}
MembersIn(l) == [p \in Addresses |-> InList(l[p])]

\* These are member sets.
LEMMA MembersType ==
  ASSUME NEW l
  PROVE MembersIn(l) \in MemberSets
BY DEF MembersIn, InList, MemberSets

\* What the calls do to a sequence, as a set.
LEMMA HoldsBehind ==
  ASSUME NEW s \in Seq(Addresses), NEW i
  PROVE \A j : Holds(Seqs!Behind(s, i), j) <=> Holds(s, j) \/ j = i
<1> TAKE j
<1> DEFINE m == Len(s)
           t == Append(s, i)
<1>1. /\ m \in Nat /\ DOMAIN s = 1 .. m /\ DOMAIN t = 1 .. m + 1
      /\ t[m + 1] = i /\ \A n \in 1 .. m : t[n] = s[n]
  BY AppendProperties, SeqParts
<1> HIDE DEF m, t
<1>2. Holds(t, j) <=> \E n \in 1 .. m + 1 : t[n] = j
  BY <1>1 DEF Holds
<1>3. Holds(s, j) <=> \E n \in 1 .. m : s[n] = j
  BY <1>1 DEF Holds
<1>4. 1 .. m + 1 = (1 .. m) \cup {m + 1}
  BY <1>1
<1> QED BY <1>1, <1>2, <1>3, <1>4 DEF t, Seqs!Behind

\* Taking out,
LEMMA HoldsWithout ==
  ASSUME NEW s \in Seq(Addresses), NEW k \in DOMAIN s,
         \A m, n \in DOMAIN s : m # n => s[m] # s[n]
  PROVE \A j : Holds(Seqs!Without(s, k), j) <=> Holds(s, j) /\ j # s[k]
<1> TAKE j
<1> DEFINE m == Len(s)
           t == Seqs!Without(s, k)
<1>1. m \in Nat /\ DOMAIN s = 1 .. m /\ k \in 1 .. m
  BY SeqParts
<1>2. DOMAIN t = 1 .. m - 1 /\ \A n \in 1 .. m - 1 : t[n] = IF n < k THEN s[n] ELSE s[n + 1]
  BY DEF Seqs!Without
<1> HIDE DEF m, t
<1>3. ASSUME NEW n \in 1 .. m, s[n] = j, j # s[k] PROVE \E l \in 1 .. m - 1 : t[l] = j
  <2>1. CASE n < k
    <3>1. n \in 1 .. m - 1 /\ t[n] = s[n]
      BY <2>1, <1>1, <1>2
    <3> QED BY <3>1, <1>3
  <2>2. CASE n > k
    <3>1. n - 1 \in 1 .. m - 1 /\ t[n - 1] = s[n]
      BY <2>2, <1>1, <1>2
    <3> QED BY <3>1, <1>3
  <2> QED BY <2>1, <2>2, <1>1, <1>3
<1>4. ASSUME NEW l \in 1 .. m - 1, t[l] = j PROVE j # s[k] /\ \E n \in 1 .. m : s[n] = j
  <2>1. CASE l < k
    <3>1. l \in 1 .. m /\ l # k /\ s[l] = j
      BY <2>1, <1>1, <1>2, <1>4
    <3> QED BY <3>1, <1>1
  <2>2. CASE ~(l < k)
    <3>1. l + 1 \in 1 .. m /\ l + 1 # k /\ s[l + 1] = j
      BY <2>2, <1>1, <1>2, <1>4
    <3> QED BY <3>1, <1>1
  <2> QED BY <2>1, <2>2
<1> QED BY <1>1, <1>2, <1>3, <1>4 DEF Holds, t

\* putting in,
LEMMA HoldsWith ==
  ASSUME NEW s \in Seq(Addresses), NEW k \in DOMAIN s, NEW i
  PROVE \A j : Holds(Seqs!With(s, k, i), j) <=> Holds(s, j) \/ j = i
<1> TAKE j
<1> DEFINE m == Len(s)
           t == Seqs!With(s, k, i)
<1>1. m \in Nat /\ DOMAIN s = 1 .. m /\ k \in 1 .. m
  BY SeqParts
<1>2. /\ DOMAIN t = 1 .. m + 1
      /\ \A n \in 1 .. m + 1 : t[n] = IF n < k THEN s[n] ELSE IF n = k THEN i ELSE s[n - 1]
  BY DEF Seqs!With
<1> HIDE DEF m, t
<1>3. ASSUME NEW n \in 1 .. m, s[n] = j PROVE \E l \in 1 .. m + 1 : t[l] = j
  <2>1. CASE n < k
    <3>1. n \in 1 .. m + 1 /\ t[n] = s[n]
      BY <2>1, <1>1, <1>2
    <3> QED BY <3>1, <1>3
  <2>2. CASE ~(n < k)
    <3>1. n + 1 \in 1 .. m + 1 /\ t[n + 1] = s[n]
      BY <2>2, <1>1, <1>2
    <3> QED BY <3>1, <1>3
  <2> QED BY <2>1, <2>2
<1>4. k \in 1 .. m + 1 /\ t[k] = i
  BY <1>1, <1>2
<1>5. ASSUME NEW l \in 1 .. m + 1, t[l] = j, j # i PROVE \E n \in 1 .. m : s[n] = j
  <2>1. CASE l < k
    <3>1. l \in 1 .. m /\ s[l] = j
      BY <2>1, <1>1, <1>2, <1>5
    <3> QED BY <3>1
  <2>2. CASE l > k
    <3>1. l - 1 \in 1 .. m /\ s[l - 1] = j
      BY <2>2, <1>1, <1>2, <1>5
    <3> QED BY <3>1
  <2> QED BY <2>1, <2>2, <1>1, <1>4, <1>5
<1> QED BY <1>1, <1>2, <1>3, <1>4, <1>5 DEF Holds, t

\* and putting one in the place of another.
LEMMA HoldsExchanged ==
  ASSUME NEW s \in Seq(Addresses), NEW k \in DOMAIN s, NEW i, ~Holds(s, i),
         \A m, n \in DOMAIN s : m # n => s[m] # s[n]
  PROVE \A j : Holds(Seqs!Exchanged(s, k, i), j) <=> (Holds(s, j) /\ j # s[k]) \/ j = i
<1> TAKE j
<1> DEFINE t == Seqs!Exchanged(s, k, i)
<1>1. DOMAIN t = DOMAIN s /\ \A n \in DOMAIN s : t[n] = IF n = k THEN i ELSE s[n]
  <2>1. s \in [1 .. Len(s) -> Addresses]
    BY SeqDef
  <2> QED BY <2>1 DEF Seqs!Exchanged
<1> HIDE DEF t
<1> QED BY <1>1 DEF Holds, t

-----------------------------------------------------------------------------
(* The heap: what the calls leave alone, and what they do to the members.   *)

\* g is a heap, with the structs live that h has live; so is g with another
\* link.
Alike(g, h, X) ==
  /\ g \in Heaps(Addresses, X)
  /\ \A j \in Addresses : g.at[j].type = h.at[j].type

\* A child,
LEMMA ChildAlike ==
  ASSUME NEW X, NEW h, NEW g, Alike(g, h, X), NEW i, NEW v \in Addresses \cup {Null}
  PROVE Alike(WithChild(g, i, v), h, X)
BY DEF Alike, WithChild, Heaps, Structs

\* A next,
LEMMA NextAlike ==
  ASSUME NEW X, NEW h, NEW g, Alike(g, h, X), NEW i, NEW v \in Addresses \cup {Null}
  PROVE Alike(WithNext(g, i, v), h, X)
BY DEF Alike, WithNext, Heaps, Structs

\* a prev,
LEMMA PrevAlike ==
  ASSUME NEW X, NEW h, NEW g, Alike(g, h, X), NEW i, NEW v \in Addresses \cup {Null}
  PROVE Alike(WithPrev(g, i, v), h, X)
BY DEF Alike, WithPrev, Heaps, Structs

\* or both.
LEMMA LooseAlike ==
  ASSUME NEW X, NEW h, NEW g, Alike(g, h, X), NEW i
  PROVE Alike(Loose(g, i), h, X)
<1>1. Alike(WithPrev(g, i, Null), h, X)
  BY PrevAlike
<1> QED BY <1>1, NextAlike DEF Loose

\* So the calls that change lists leave the same structs live: appending,
LEMMA AppendedAlike ==
  ASSUME NEW X, NEW h \in Heaps(Addresses, X), NEW a \in Addresses, NEW i \in Addresses
  PROVE Alike(Appended(h, a, i).h, h, X)
<1> DEFINE first == h.at[a].child
           last  == h.at[first].prev
           one   == WithNext(WithPrev(WithChild(h, a, i), i, i), i, Null)
           more  == WithPrev(Suffix(h, last, i), first, i)
<1>1. Alike(h, h, X)
  BY DEF Alike
<1>2. Alike(one, h, X)
  <2>1. Alike(WithPrev(WithChild(h, a, i), i, i), h, X)
    BY <1>1, ChildAlike, PrevAlike
  <2> QED BY <2>1, NextAlike
<1>3. last # Null /\ first # Null => Alike(more, h, X)
  <2> SUFFICES ASSUME last # Null, first # Null PROVE Alike(more, h, X)
    OBVIOUS
  <2>1. last \in Addresses
    BY DEF Heaps, Structs
  <2> HIDE DEF last
  <2>2. Alike(WithNext(h, last, i), h, X)
    BY <1>1, NextAlike
  <2>3. Alike(Suffix(h, last, i), h, X)
    BY <2>1, <2>2, PrevAlike DEF Suffix
  <2> QED BY <2>3, PrevAlike
<1>4. \/ Appended(h, a, i).h \in {h, one}
      \/ last # Null /\ first # Null /\ Appended(h, a, i).h = more
  BY DEF Appended, Result
<1> HIDE DEF one, more
<1> QED BY <1>1, <1>2, <1>3, <1>4

\* detaching,
LEMMA DetachedAlike ==
  ASSUME NEW X, NEW h \in Heaps(Addresses, X), NEW p \in Addresses, NEW i \in Addresses
  PROVE Alike(DetachItemViaPointer(h, p, i), h, X)
<1> DEFINE before == h.at[i].prev
           after  == h.at[i].next
           first  == h.at[p].child
           un1    == IF i = first THEN h ELSE WithNext(h, before, after)
           un2    == IF after = Null THEN un1 ELSE WithPrev(un1, after, before)
           un3    == IF i = first THEN WithChild(un2, p, after)
                     ELSE IF after = Null THEN WithPrev(un2, first, before) ELSE un2
<1>1. Alike(h, h, X)
  BY DEF Alike
<1>2. before \in Addresses \cup {Null} /\ after \in Addresses \cup {Null}
  BY DEF Heaps, Structs
<1>3. DetachItemViaPointer(h, p, i) = Loose(un3, i)
  BY DEF DetachItemViaPointer, Null, Addresses
<1> HIDE DEF before, after, first
<1>4. Alike(un1, h, X)
  BY <1>1, <1>2, NextAlike
<1> HIDE DEF un1
<1>5. Alike(un2, h, X)
  BY <1>2, <1>4, PrevAlike
<1> HIDE DEF un2
<1>6. Alike(un3, h, X)
  BY <1>2, <1>5, ChildAlike, PrevAlike
<1> HIDE DEF un3
<1> QED BY <1>3, <1>6, LooseAlike

\* inserting,
LEMMA InsertAlike ==
  ASSUME NEW X, NEW h \in Heaps(Addresses, X), NEW a, NEW i \in Addresses,
         NEW new \in Addresses
  PROVE Alike(Insert(h, a, i, new), h, X)
<1> DEFINE before == h.at[i].prev
           put    == WithPrev(WithPrev(WithNext(h, new, i), new, before), i, new)
<1>1. Alike(h, h, X)
  BY DEF Alike
<1>2. before \in Addresses \cup {Null}
  BY DEF Heaps, Structs
<1>3. Insert(h, a, i, new)
        = IF i = h.at[a].child THEN WithChild(put, a, new) ELSE WithNext(put, before, new)
  BY DEF Insert
<1> HIDE DEF before
<1>4. Alike(WithPrev(WithNext(h, new, i), new, before), h, X)
  BY <1>1, <1>2, NextAlike, PrevAlike
<1>5. Alike(put, h, X)
  BY <1>4, PrevAlike
<1> HIDE DEF put
<1> QED BY <1>3, <1>5, ChildAlike, NextAlike

\* and replacing.
LEMMA RelinkedAlike ==
  ASSUME NEW X, NEW h \in Heaps(Addresses, X), NEW p, NEW i \in Addresses,
         NEW new \in Addresses
  PROVE Alike(Relinked(h, p, i, new), h, X)
<1> DEFINE first == h.at[p].child
           after == h.at[i].next
           prev  == IF i = first /\ h.at[i].prev = i THEN new ELSE h.at[i].prev
           put   == WithPrev(WithNext(h, new, after), new, prev)
           link  == IF after = Null THEN put ELSE WithPrev(put, after, new)
           back  == IF prev = Null THEN link ELSE WithNext(link, prev, new)
           place == IF i = first THEN WithChild(link, p, new)
                    ELSE IF after = Null THEN WithPrev(back, first, new) ELSE back
<1>1. Alike(h, h, X)
  BY DEF Alike
<1>2. prev \in Addresses \cup {Null} /\ after \in Addresses \cup {Null}
  BY DEF Heaps, Structs
<1>3. Relinked(h, p, i, new) = Loose(place, i)
  BY DEF Relinked
<1> HIDE DEF prev, after, first
<1>4. Alike(put, h, X)
  BY <1>1, <1>2, NextAlike, PrevAlike
<1> HIDE DEF put
<1>5. Alike(link, h, X)
  BY <1>4, PrevAlike
<1> HIDE DEF link
<1>6. Alike(back, h, X)
  BY <1>5, NextAlike
<1> HIDE DEF back
<1>7. Alike(place, h, X)
  BY <1>5, <1>6, ChildAlike, PrevAlike
<1> HIDE DEF place
<1> QED BY <1>3, <1>7, LooseAlike

\* Alike heaps have the same structs live.
LEMMA AlikeLive ==
  ASSUME NEW X, NEW h \in Heaps(Addresses, X), NEW g, Alike(g, h, X)
  PROVE Live(g) = Live(h)
BY DEF Alike, Live, Heaps

-----------------------------------------------------------------------------
(* The calls on sound heaps.                                                *)

Sound(h) ==
  /\ h \in Heaps(Addresses, Values)
  /\ Contents(h) \in Lists(Addresses, Addresses)
  /\ Whole(h, Contents(h))

\* A heap that is whole with some lists has these.
LEMMA SoundBy ==
  ASSUME NEW g \in Heaps(Addresses, Values), NEW l \in Lists(Addresses, Addresses), Whole(g, l)
  PROVE Sound(g) /\ Kids(g) = MembersIn(l)
<1>1. Contents(g) = l
  BY Reading
<1> QED BY <1>1 DEF Sound, Kids, MembersIn, InList

\* The members are member sets.
LEMMA KidsType ==
  ASSUME NEW h
  PROVE Kids(h) \in MemberSets
BY DEF Kids, MemberSets

\* The list of p, and its members.
LEMMA SoundList ==
  ASSUME NEW h, Sound(h), NEW p \in Addresses
  PROVE /\ Contents(h)[p] \in Seq(Addresses)
        /\ \A m, n \in DOMAIN Contents(h)[p] : m # n => Contents(h)[p][m] # Contents(h)[p][n]
        /\ \A i \in Addresses : i \in Kids(h)[p] <=> Holds(Contents(h)[p], i)
<1>1. Contents(h) \in Lists(Addresses, Addresses)
  BY DEF Sound
<1>2. Contents(h)[p] \in Seq(Addresses) /\ p \in DOMAIN Contents(h)
  BY <1>1 DEF Lists
<1>3. IsList(h, p, Contents(h)[p])
  BY <1>2 DEF Sound, Whole
<1> HIDE DEF Contents
<1>4. \A i \in Addresses : i \in Kids(h)[p] <=> Holds(Contents(h)[p], i)
  BY DEF Kids
<1>5. \A m, n \in DOMAIN Contents(h)[p] : m # n => Contents(h)[p][m] # Contents(h)[p][n]
  BY <1>3 DEF IsList
<1> QED BY <1>2, <1>4, <1>5

\* A call that changes the list of p.
LEMMA ChangeSound ==
  ASSUME NEW h, Sound(h), NEW p \in Addresses, NEW t, NEW g \in Heaps(Addresses, Values),
         NEW now \in Lists(Addresses, Addresses), Whole(g, now),
         now = [Contents(h) EXCEPT ![p] = t]
  PROVE Sound(g) /\ Kids(g) = [Kids(h) EXCEPT ![p] = InList(t)]
<1> DEFINE l == Contents(h)
<1>1. l \in Lists(Addresses, Addresses)
  BY DEF Sound
<1>2. Sound(g) /\ Kids(g) = MembersIn(now)
  BY SoundBy
<1>3. MembersIn(l) = Kids(h)
  BY DEF Kids, MembersIn, InList
<1>4. now = [l EXCEPT ![p] = t]
  OBVIOUS
<1> HIDE DEF l
<1>5. MembersIn(now) = [MembersIn(l) EXCEPT ![p] = InList(t)]
  BY <1>1, <1>4 DEF MembersIn, Lists
<1> QED BY <1>2, <1>3, <1>5

\* Appending gives.
LEMMA AppendedSound ==
  ASSUME NEW h, Sound(h), NEW p \in Addresses, NEW i \in Addresses, p # i,
         \A q \in Addresses : i \notin Kids(h)[q]
  PROVE LET g == Appended(h, p, i).h
        IN  Sound(g) /\ Live(g) = Live(h) /\ Kids(g) = Own!Given(Kids(h), p, i)
<1> DEFINE g == Appended(h, p, i).h
           l == Contents(h)
           s == l[p]
           t == Seqs!Behind(s, i)
           now == [l EXCEPT ![p] = t]
<1>1. h \in Heaps(Addresses, Values) /\ l \in Lists(Addresses, Addresses) /\ Whole(h, l)
  BY DEF Sound
<1>2. s \in Seq(Addresses) /\ \A j \in Addresses : j \in Kids(h)[p] <=> Holds(s, j)
  BY SoundList
<1>3. \A q \in Addresses : ~Holds(l[q], i)
  BY SoundList
<1> HIDE DEF l
<1>4. g \in Heaps(Addresses, Values) /\ Whole(g, now)
  BY <1>1, <1>3, NoNull, AppendsLast
<1>5. now \in Lists(Addresses, Addresses)
  BY <1>1, <1>2, AppendProperties DEF Lists, Seqs!Behind
<1>7. Live(g) = Live(h)
  BY <1>1, AppendedAlike, AlikeLive
<1>8. InList(t) = Kids(h)[p] \cup {i}
  <2>1. \A j : Holds(t, j) <=> Holds(s, j) \/ j = i
    BY <1>2, HoldsBehind
  <2>2. Kids(h)[p] \subseteq Addresses
    BY KidsType DEF MemberSets
  <2> HIDE DEF t, s
  <2> QED BY <1>2, <2>1, <2>2 DEF InList
<1> HIDE DEF t, g
<1>9. Sound(g) /\ Kids(g) = [Kids(h) EXCEPT ![p] = InList(t)]
  BY <1>4, <1>5, ChangeSound DEF l
<1>11. Kids(g) = Own!Given(Kids(h), p, i)
  BY <1>8, <1>9 DEF Own!Given
<1> QED BY <1>7, <1>9, <1>11 DEF g

\* Detaching takes, and chains what is taken to nothing.
LEMMA DetachedSound ==
  ASSUME NEW h, Sound(h), NEW p \in Addresses, NEW i \in Kids(h)[p]
  PROVE LET g == DetachItemViaPointer(h, p, i)
        IN  Sound(g) /\ Live(g) = Live(h) /\ Kids(g) = Own!Taken(Kids(h), p, i)
<1> DEFINE g == DetachItemViaPointer(h, p, i)
           l == Contents(h)
           s == l[p]
<1>1. h \in Heaps(Addresses, Values) /\ l \in Lists(Addresses, Addresses) /\ Whole(h, l)
  BY DEF Sound
<1>2. /\ s \in Seq(Addresses) /\ \A j \in Addresses : j \in Kids(h)[p] <=> Holds(s, j)
      /\ \A m, n \in DOMAIN s : m # n => s[m] # s[n]
  BY SoundList
<1>3. i \in Addresses /\ Kids(h)[p] \subseteq Addresses
  BY KidsType DEF MemberSets
<1>4. PICK k \in DOMAIN s : s[k] = i
  BY <1>2, <1>3 DEF Holds
<1> DEFINE t == Seqs!Without(s, k)
           now == [l EXCEPT ![p] = t]
<1> HIDE DEF l
<1>5. g \in Heaps(Addresses, Values) /\ now \in Lists(Addresses, Addresses) /\ Whole(g, now)
  BY <1>1, <1>4, NoNull, DetachesMember
<1>7. Live(g) = Live(h)
  BY <1>1, <1>3, DetachedAlike, AlikeLive
<1>8. InList(t) = Kids(h)[p] \ {i}
  <2>1. \A j : Holds(t, j) <=> Holds(s, j) /\ j # s[k]
    BY <1>2, HoldsWithout
  <2> HIDE DEF t, s
  <2> QED BY <1>2, <1>3, <1>4, <2>1 DEF InList
<1> HIDE DEF t
<1>9. Sound(g) /\ Kids(g) = [Kids(h) EXCEPT ![p] = InList(t)]
  BY <1>5, ChangeSound DEF l
<1>11. Kids(g) = Own!Taken(Kids(h), p, i)
  BY <1>8, <1>9 DEF Own!Taken
<1> QED BY <1>7, <1>9, <1>11

\* Inserting gives, too.
LEMMA InsertedSound ==
  ASSUME NEW h, Sound(h), NEW p \in Addresses, NEW i \in Kids(h)[p], NEW new \in Addresses,
         \A q \in Addresses : new \notin Kids(h)[q]
  PROVE LET g == Insert(h, p, i, new)
        IN  Sound(g) /\ Live(g) = Live(h) /\ Kids(g) = Own!Given(Kids(h), p, new)
<1> DEFINE g == Insert(h, p, i, new)
           l == Contents(h)
           s == l[p]
<1>1. h \in Heaps(Addresses, Values) /\ l \in Lists(Addresses, Addresses) /\ Whole(h, l)
  BY DEF Sound
<1>2. s \in Seq(Addresses) /\ \A j \in Addresses : j \in Kids(h)[p] <=> Holds(s, j)
  BY SoundList
<1>3. i \in Addresses /\ Kids(h)[p] \subseteq Addresses
  BY KidsType DEF MemberSets
<1>4. PICK k \in DOMAIN s : s[k] = i
  BY <1>2, <1>3 DEF Holds
<1>0. \A q \in Addresses : ~Holds(l[q], new)
  BY SoundList
<1> DEFINE t == Seqs!With(s, k, new)
           now == [l EXCEPT ![p] = t]
<1> HIDE DEF l
<1>5. g \in Heaps(Addresses, Values) /\ now \in Lists(Addresses, Addresses) /\ Whole(g, now)
  BY <1>1, <1>4, <1>0, NoNull, InsertsBefore
<1>7. Live(g) = Live(h)
  BY <1>1, <1>3, InsertAlike, AlikeLive
<1>8. InList(t) = Kids(h)[p] \cup {new}
  <2>1. \A j : Holds(t, j) <=> Holds(s, j) \/ j = new
    BY <1>2, HoldsWith
  <2> HIDE DEF t, s
  <2> QED BY <1>2, <1>3, <2>1 DEF InList
<1> HIDE DEF t
<1>9. Sound(g) /\ Kids(g) = [Kids(h) EXCEPT ![p] = InList(t)]
  BY <1>5, ChangeSound DEF l
<1>11. Kids(g) = Own!Given(Kids(h), p, new)
  BY <1>8, <1>9 DEF Own!Given
<1> QED BY <1>7, <1>9, <1>11

\* Replacing takes one and gives another.
LEMMA RelinkedSound ==
  ASSUME NEW h, Sound(h), NEW p \in Addresses, NEW i \in Kids(h)[p], NEW new \in Addresses,
         \A q \in Addresses : new \notin Kids(h)[q]
  PROVE LET g == Relinked(h, p, i, new)
        IN  /\ Sound(g) /\ Live(g) = Live(h)
            /\ Kids(g) = Own!Given(Own!Taken(Kids(h), p, i), p, new)
<1> DEFINE g == Relinked(h, p, i, new)
           l == Contents(h)
           s == l[p]
<1>1. h \in Heaps(Addresses, Values) /\ l \in Lists(Addresses, Addresses) /\ Whole(h, l)
  BY DEF Sound
<1>2. /\ s \in Seq(Addresses) /\ \A j \in Addresses : j \in Kids(h)[p] <=> Holds(s, j)
      /\ \A m, n \in DOMAIN s : m # n => s[m] # s[n]
  BY SoundList
<1>3. i \in Addresses /\ Kids(h)[p] \subseteq Addresses
  BY KidsType DEF MemberSets
<1>4. PICK k \in DOMAIN s : s[k] = i
  BY <1>2, <1>3 DEF Holds
<1>0. \A q \in Addresses : ~Holds(l[q], new)
  BY SoundList
<1> DEFINE t == Seqs!Exchanged(s, k, new)
           now == [l EXCEPT ![p] = t]
<1> HIDE DEF l
<1>5. g \in Heaps(Addresses, Values) /\ now \in Lists(Addresses, Addresses) /\ Whole(g, now)
  BY <1>1, <1>4, <1>0, NoNull, ReplacesInPlace
<1>7. Live(g) = Live(h)
  BY <1>1, <1>3, RelinkedAlike, AlikeLive
<1>8. InList(t) = (Kids(h)[p] \ {i}) \cup {new}
  <2>1. \A j : Holds(t, j) <=> (Holds(s, j) /\ j # s[k]) \/ j = new
    BY <1>2, <1>0, HoldsExchanged
  <2> HIDE DEF t, s
  <2> QED BY <1>2, <1>3, <1>4, <2>1 DEF InList
<1> HIDE DEF t
<1>9. Sound(g) /\ Kids(g) = [Kids(h) EXCEPT ![p] = InList(t)]
  BY <1>5, ChangeSound DEF l
<1>11. Kids(g) = Own!Given(Own!Taken(Kids(h), p, i), p, new)
  <2>1. Kids(h) \in MemberSets
    BY KidsType
  <2> QED BY <1>8, <1>9, <2>1 DEF Own!Given, Own!Taken, MemberSets
<1> QED BY <1>7, <1>9, <1>11

\* Without the lists of S.
Pruned(l, S) == [p \in Addresses |-> IF p \in S THEN <<>> ELSE l[p]]

\* When all the structs of some lists are chained to nothing, and their parents
\* have no child any more, the other lists are as whole as before.
LEMMA OthersWhole ==
  ASSUME NEW X, NEW h \in Heaps(Addresses, X), NEW g \in Heaps(Addresses, X),
         NEW l \in Lists(Addresses, Addresses), Whole(h, l), NEW S \in SUBSET Addresses,
         \A j \in S : g.at[j].child = Null /\ g.at[j].next = Null,
         \A j \in Addresses \ S : /\ g.at[j].child = h.at[j].child
                                  /\ g.at[j].next = h.at[j].next
                                  /\ g.at[j].prev = h.at[j].prev,
         \A p \in Addresses : \A n \in DOMAIN l[p] : l[p][n] \in S <=> p \in S
  PROVE Pruned(l, S) \in Lists(Addresses, Addresses) /\ Whole(g, Pruned(l, S))
<1> DEFINE m == Pruned(l, S)
<1>1. /\ DOMAIN l = Addresses /\ DOMAIN m = Addresses
      /\ \A p \in Addresses : l[p] \in Seq(Addresses)
      /\ DOMAIN g.at = Addresses /\ DOMAIN h.at = Addresses
  BY DEF Lists, Pruned, Heaps
<1>2. \A p \in Addresses : m[p] = IF p \in S THEN <<>> ELSE l[p]
  BY DEF Pruned
<1>3. m \in Lists(Addresses, Addresses)
  <2>1. <<>> \in Seq(Addresses)
    BY EmptySeq
  <2> QED BY <1>1, <2>1 DEF Lists, Pruned
<1> HIDE DEF m
<1>4. ASSUME NEW p \in Addresses PROVE IsList(g, p, m[p])
  <2>1. CASE p \in S
    <3>1. m[p] = <<>> /\ g.at[p].child = Null
      BY <1>2, <2>1
    <3>2. DOMAIN m[p] = {}
      BY <3>1
    <3> QED BY <3>1, <3>2 DEF IsList
  <2>2. CASE p \notin S
    <3> DEFINE s == l[p]
    <3>1. m[p] = s /\ g.at[p].child = h.at[p].child /\ IsList(h, p, s)
      BY <1>1, <1>2, <2>2 DEF Whole
    <3>2. \A n \in DOMAIN s : s[n] \in Addresses \ S
      BY <1>1, <2>2 DEF IsList, Whole
    <3> HIDE DEF s
    <3>3. \A n \in DOMAIN s : /\ g.at[s[n]].next = h.at[s[n]].next
                              /\ g.at[s[n]].prev = h.at[s[n]].prev
      BY <3>2
    <3>4. IsList(g, p, s)
      BY <1>1, <3>1, <3>3 DEF IsList
    <3> QED BY <3>1, <3>4
  <2> QED BY <2>1, <2>2
<1>5. \A p, q \in Addresses : p # q => \A n \in DOMAIN m[p] : ~Holds(m[q], m[p][n])
  <2>1. \A p, q \in Addresses : p # q => \A n \in DOMAIN l[p] : ~Holds(l[q], l[p][n])
    BY <1>1 DEF Whole
  <2>2. DOMAIN <<>> = {}
    OBVIOUS
  <2> QED BY <1>2, <2>1, <2>2 DEF Holds
<1>6. ASSUME NEW j \in Addresses, \A p \in Addresses : ~Holds(m[p], j)
      PROVE g.at[j].next = Null
  <2>1. CASE j \notin S
    <3>1. \A p \in Addresses : ~Holds(l[p], j)
      <4> SUFFICES ASSUME NEW p \in Addresses, NEW n \in DOMAIN l[p], l[p][n] = j PROVE FALSE
        BY DEF Holds
      <4>1. p \notin S
        BY <2>1
      <4> QED BY <1>2, <1>6, <4>1 DEF Holds
    <3>2. h.at[j].next = Null
      BY <1>1, <3>1 DEF Whole
    <3> QED BY <2>1, <3>2
  <2> QED BY <2>1
<1>7. Whole(g, m)
  BY <1>1, <1>4, <1>5, <1>6 DEF Whole
<1> QED BY <1>3, <1>7 DEF m

\* In terms of members.
LEMMA PrunedMembers ==
  ASSUME NEW l, NEW S
  PROVE MembersIn(Pruned(l, S)) = Own!Cleared(MembersIn(l), S)
<1>1. InList(<<>>) = {}
  BY DEF InList, Holds
<1>2. \A p \in Addresses : MembersIn(Pruned(l, S))[p] = IF p \in S THEN {} ELSE MembersIn(l)[p]
  BY <1>1 DEF MembersIn, Pruned
<1>3. MembersIn(Pruned(l, S)) = [p \in Addresses |-> MembersIn(Pruned(l, S))[p]]
  BY DEF MembersIn
<1> QED BY <1>2, <1>3 DEF Own!Cleared

\* A set of parents and their members, by lists and by sets.
LEMMA SoundApart ==
  ASSUME NEW h, Sound(h), NEW S \in SUBSET Addresses,
         \A p, j \in Addresses : j \in Kids(h)[p] => (j \in S <=> p \in S)
  PROVE \A p \in Addresses : \A n \in DOMAIN Contents(h)[p] : Contents(h)[p][n] \in S <=> p \in S
<1> SUFFICES ASSUME NEW p \in Addresses, NEW n \in DOMAIN Contents(h)[p]
             PROVE Contents(h)[p][n] \in S <=> p \in S
  OBVIOUS
<1>1. /\ Contents(h)[p] \in Seq(Addresses)
      /\ \A i \in Addresses : i \in Kids(h)[p] <=> Holds(Contents(h)[p], i)
  BY SoundList
<1> DEFINE s == Contents(h)[p]
<1> HIDE DEF s
<1>2. s[n] \in Addresses
  BY <1>1, SeqParts DEF s
<1>3. s[n] \in Kids(h)[p]
  BY <1>1, <1>2 DEF Holds, s
<1> QED BY <1>2, <1>3 DEF s

\* Freeing such a set.
LEMMA FreedSound ==
  ASSUME NEW h, Sound(h), NEW S \in SUBSET Addresses,
         \A p, j \in Addresses : j \in Kids(h)[p] => (j \in S <=> p \in S)
  PROVE LET g == Freed(h, S)
        IN  Sound(g) /\ Live(g) = Live(h) \ S /\ Kids(g) = Own!Cleared(Kids(h), S)
<1> DEFINE g == Freed(h, S)
           l == Contents(h)
<1>1. h \in Heaps(Addresses, Values) /\ l \in Lists(Addresses, Addresses) /\ Whole(h, l)
  BY DEF Sound
<1>2. /\ Free \in Structs(Addresses, Values)
      /\ Free.child = Null /\ Free.next = Null /\ Free.type = "free"
  BY DEF Free, Blank, Structs, Values
<1>3. /\ g \in Heaps(Addresses, Values)
      /\ \A j \in Addresses : g.at[j] = IF j \in S THEN Free ELSE h.at[j]
  BY <1>1, <1>2 DEF Freed, Heaps
<1>4. Live(g) = Live(h) \ S
  BY <1>1, <1>2, <1>3 DEF Live, Heaps
<1> HIDE DEF g
<1>5. \A p \in Addresses : \A n \in DOMAIN l[p] : l[p][n] \in S <=> p \in S
  BY SoundApart
<1> HIDE DEF l
<1>6. Pruned(l, S) \in Lists(Addresses, Addresses) /\ Whole(g, Pruned(l, S))
  BY <1>1, <1>2, <1>3, <1>5, OthersWhole
<1>7. Sound(g) /\ Kids(g) = MembersIn(Pruned(l, S))
  BY <1>3, <1>6, SoundBy
<1>8. MembersIn(l) = Kids(h)
  BY DEF Kids, MembersIn, InList, l
<1> QED BY <1>4, <1>7, <1>8, PrunedMembers DEF g

\* Changing a struct that is neither member nor parent, and other data.
LEMMA SameSound ==
  ASSUME NEW h, Sound(h), NEW S \in SUBSET Addresses,
         \A j \in S : Kids(h)[j] = {} /\ \A p \in Addresses : j \notin Kids(h)[p],
         NEW g \in Heaps(Addresses, Values),
         \A j \in S : g.at[j].child = Null /\ g.at[j].next = Null,
         \A j \in Addresses \ S : /\ g.at[j].child = h.at[j].child
                                  /\ g.at[j].next = h.at[j].next
                                  /\ g.at[j].prev = h.at[j].prev
  PROVE Sound(g) /\ Kids(g) = Kids(h)
<1> DEFINE l == Contents(h)
<1>1. h \in Heaps(Addresses, Values) /\ l \in Lists(Addresses, Addresses) /\ Whole(h, l)
  BY DEF Sound
<1>2. Kids(h) \in MemberSets
  BY KidsType
<1>3. \A p, j \in Addresses : j \in Kids(h)[p] => (j \in S <=> p \in S)
  BY <1>2 DEF MemberSets
<1>4. \A p \in Addresses : \A n \in DOMAIN l[p] : l[p][n] \in S <=> p \in S
  BY <1>3, SoundApart
<1> HIDE DEF l
<1>5. Pruned(l, S) \in Lists(Addresses, Addresses) /\ Whole(g, Pruned(l, S))
  BY <1>1, <1>4, OthersWhole
<1>6. Sound(g) /\ Kids(g) = MembersIn(Pruned(l, S))
  BY <1>5, SoundBy
<1>7. MembersIn(l) = Kids(h)
  BY DEF Kids, MembersIn, InList, l
<1>8. Own!Cleared(Kids(h), S) = Kids(h)
  BY <1>2 DEF Own!Cleared, MemberSets
<1> QED BY <1>6, <1>7, <1>8, PrunedMembers

\* A key changes no link.
LEMMA NamedSound ==
  ASSUME NEW h, Sound(h), NEW i \in Addresses, NEW k \in Data \cup {NoKey}
  PROVE LET g == Named(h, i, k)
        IN  Sound(g) /\ Live(g) = Live(h) /\ Kids(g) = Kids(h)
<1> DEFINE g == Named(h, i, k)
<1>1. h \in Heaps(Addresses, Values)
  BY DEF Sound
<1>2. k \in Values
  BY DEF Values
<1>3. /\ g \in Heaps(Addresses, Values)
      /\ \A j \in Addresses : /\ g.at[j].type = h.at[j].type
                              /\ g.at[j].child = h.at[j].child
                              /\ g.at[j].next = h.at[j].next
                              /\ g.at[j].prev = h.at[j].prev
  BY <1>1, <1>2 DEF Named, Heaps, Structs
<1>4. Live(g) = Live(h)
  BY <1>1, <1>3 DEF Live, Heaps
<1> HIDE DEF g
<1>5. Sound(g) /\ Kids(g) = Kids(h)
  <2> DEFINE S == {}
  <2>1. S \in SUBSET Addresses /\ \A j : j \notin S
    OBVIOUS
  <2> HIDE DEF S
  <2> QED BY <1>3, <2>1, SameSound
<1> QED BY <1>4, <1>5 DEF g
\* A new struct is in no list and has none.
LEMMA CreatedSound ==
  ASSUME NEW h, Sound(h), NEW i \in Addresses \ Live(h),
         NEW t \in Data \ {"free"}, NEW v \in Data,
         Kids(h)[i] = {}, \A p \in Addresses : i \notin Kids(h)[p]
  PROVE LET g == Made(h, i, t, v)
        IN  Sound(g) /\ Live(g) = Live(h) \cup {i} /\ Kids(g) = Kids(h)
<1> DEFINE g == Made(h, i, t, v)
           new == [Blank EXCEPT !.type = t, !.val = v]
           S == {i}
<1>1. h \in Heaps(Addresses, Values)
  BY DEF Sound
<1>2. new \in Structs(Addresses, Values) /\ new.child = Null /\ new.next = Null /\ new.type = t
  BY DEF Blank, Structs, Values
<1> HIDE DEF new
<1>3. /\ g \in Heaps(Addresses, Values)
      /\ \A j \in Addresses : g.at[j] = IF j = i THEN new ELSE h.at[j]
  BY <1>1, <1>2 DEF Made, Heaps, new
<1>4. Live(g) = Live(h) \cup {i}
  BY <1>1, <1>2, <1>3 DEF Live, Heaps
<1> HIDE DEF g
<1>5. S \in SUBSET Addresses
  OBVIOUS
<1>6. \A j \in S : Kids(h)[j] = {} /\ \A p \in Addresses : j \notin Kids(h)[p]
  OBVIOUS
<1>7. \A j \in S : g.at[j].child = Null /\ g.at[j].next = Null
  BY <1>2, <1>3
<1>8. \A j \in Addresses \ S : /\ g.at[j].child = h.at[j].child
                               /\ g.at[j].next = h.at[j].next
                               /\ g.at[j].prev = h.at[j].prev
  BY <1>3
<1> HIDE DEF S
<1>9. Sound(g) /\ Kids(g) = Kids(h)
  BY <1>3, <1>5, <1>6, <1>7, <1>8, SameSound
<1> QED BY <1>4, <1>9 DEF g


-----------------------------------------------------------------------------
(* Every sequence of calls on documents.                                    *)

\* The inductive invariant.
DocInv == Sound(heap) /\ Forest(Live(heap), Kids(heap), held)

\* What the documents are after a call.
LEMMA NowIs ==
  ASSUME NEW L, NEW k, NEW H, Sound(heap'), Live(heap') = L, Kids(heap') = k, held' = H,
         Forest(L, k, H)
  PROVE DocInv' /\ Live(heap)' = L /\ Kids(heap)' = k /\ held' = H
BY DEF DocInv

\* What the program may name.
LEMMA DocParts ==
  ASSUME DocInv
  PROVE /\ Sound(heap) /\ Forest(Live(heap), Kids(heap), held)
        /\ Kids(heap) \in MemberSets
        /\ Live(heap) \in SUBSET Addresses /\ held \in SUBSET Live(heap)
        /\ \A i \in held : \A q \in Addresses : i \notin Kids(heap)[q]
        /\ \A i, p \in Addresses : IsMember(i, p) <=> i \in Kids(heap)[p]
<1>1. Sound(heap) /\ Forest(Live(heap), Kids(heap), held)
  BY DEF DocInv
<1>2. \A i \in held : \A q \in Addresses : i \notin Kids(heap)[q]
  BY <1>1 DEF Forest
<1>3. \A i, p \in Addresses : IsMember(i, p) <=> i \in Kids(heap)[p]
  BY <1>1, SoundList DEF IsMember
<1> QED BY <1>1, <1>2, <1>3 DEF Forest

\* With or without a key.
LEMMA MaybeSound ==
  ASSUME DocInv, NEW i \in Addresses, NEW h \in MaybeNamed(i)
  PROVE Sound(h) /\ Live(h) = Live(heap) /\ Kids(h) = Kids(heap)
BY NamedSound DEF MaybeNamed, DocInv

\* A deleted root takes its tree with it.
LEMMA DeletedSound ==
  ASSUME NEW h, NEW H, Sound(h), Forest(Live(h), Kids(h), H), NEW i \in H
  PROVE LET T == Own!Tree(Kids(h), i)
            g == Deleted(h, i)
        IN  /\ Sound(g) /\ Live(g) = Live(h) \ T /\ Kids(g) = Own!Cleared(Kids(h), T)
            /\ Forest(Live(g), Kids(g), H \ {i})
<1> DEFINE k == Kids(h)
           T == Own!Tree(k, i)
<1>1. /\ k \in MemberSets /\ i \in Addresses /\ \A p \in Addresses : i \notin k[p]
      /\ \A p, q \in Addresses : p # q => k[p] \cap k[q] = {}
  BY DEF Forest
<1>2. /\ T \in SUBSET Addresses /\ i \in T /\ \A p \in T : k[p] \subseteq T
      /\ \A j \in T : j # i => \E p \in T : j \in k[p]
  BY <1>1, TreeClosed, TreeParent
<1>3. Forest(Live(h) \ T, Own!Cleared(k, T), H \ {i})
  BY ForestDeletes
<1> HIDE DEF T, k
<1>4. \A p, j \in Addresses : j \in k[p] => (j \in T <=> p \in T)
  BY <1>1, <1>2
<1>5. Sound(Freed(h, T)) /\ Live(Freed(h, T)) = Live(h) \ T /\ Kids(Freed(h, T)) = Own!Cleared(k, T)
  BY <1>2, <1>4, FreedSound DEF k
<1>6. Deleted(h, i) = Freed(h, T)
  BY DEF Deleted, Tree, T, k
<1> QED BY <1>3, <1>5, <1>6 DEF T, k

\* An empty heap is a forest without trees.
LEMMA DocInitMaps == DocInit => DocInv /\ Own!Init
<1> SUFFICES ASSUME DocInit PROVE DocInv /\ Own!Init
  OBVIOUS
<1> DEFINE l == [p \in Addresses |-> <<>>]
<1>1. /\ Free \in Structs(Addresses, Values)
      /\ Free.child = Null /\ Free.next = Null /\ Free.type = "free"
  BY DEF Free, Blank, Structs, Values
<1>2. heap \in Heaps(Addresses, Values) /\ \A j \in Addresses : heap.at[j] = Free
  BY <1>1 DEF DocInit, Heaps, Values
<1>3. l \in Lists(Addresses, Addresses)
  BY EmptySeq DEF Lists
<1>4. Whole(heap, l)
  <2>1. DOMAIN heap.at = Addresses
    BY <1>2 DEF Heaps
  <2>2. \A p \in Addresses : l[p] = <<>> /\ DOMAIN l[p] = {}
    OBVIOUS
  <2>3. DOMAIN l = Addresses
    OBVIOUS
  <2> HIDE DEF l
  <2>4. \A p \in Addresses : IsList(heap, p, l[p])
    BY <1>1, <1>2, <2>2 DEF IsList
  <2> QED BY <1>1, <1>2, <2>1, <2>2, <2>3, <2>4 DEF Whole
<1>5. \A p \in Addresses : MembersIn(l)[p] = {}
  BY DEF MembersIn, InList, Holds
<1>6. Sound(heap) /\ Kids(heap) = MembersIn(l)
  <2> HIDE DEF l
  <2> QED BY <1>2, <1>3, <1>4, SoundBy
<1>7. Live(heap) = {} /\ held = {}
  BY <1>1, <1>2 DEF Live, Heaps, DocInit
<1>8. Kids(heap) = [p \in Addresses |-> {}]
  BY <1>5, <1>6 DEF MembersIn
<1>9. Forest(Live(heap), Kids(heap), held)
  BY <1>7, <1>8 DEF Forest, MemberSets, Grounded
<1> QED BY <1>6, <1>7, <1>8, <1>9 DEF DocInv, Own!Init

\* A new struct is a document of its own.
LEMMA CreateMaps == DocInv /\ Create => DocInv' /\ Own!Create
<1> SUFFICES ASSUME DocInv, Create PROVE DocInv' /\ Own!Create
  OBVIOUS
<1>1. PICK i \in Addresses \ Live(heap), t \in Data \ {"free"}, v \in Data :
        /\ heap' = Made(heap, i, t, v)
        /\ held' = held \cup {i}
  BY DEF Create
<1>2. Sound(heap) /\ Forest(Live(heap), Kids(heap), held)
  BY DEF DocInv
<1>3. Kids(heap)[i] = {} /\ \A p \in Addresses : i \notin Kids(heap)[p]
  BY <1>2 DEF Forest
<1>4. Sound(heap') /\ Live(heap') = Live(heap) \cup {i} /\ Kids(heap') = Kids(heap)
  BY <1>1, <1>2, <1>3, CreatedSound
<1>5. Forest(Live(heap) \cup {i}, Kids(heap), held \cup {i})
  BY <1>2, ForestCreates
<1>6. /\ DocInv' /\ Live(heap)' = Live(heap) \cup {i} /\ Kids(heap)' = Kids(heap)
      /\ held' = held \cup {i}
  BY <1>1, <1>4, <1>5, NowIs
<1> QED BY <1>6 DEF Own!Create

\* Adding gives the item to its parent,
LEMMA AddOwnMaps == DocInv /\ Add => DocInv' /\ Own!Give
<1> SUFFICES ASSUME DocInv, Add PROVE DocInv' /\ Own!Give
  OBVIOUS
<1> DEFINE k == Kids(heap)
<1>0. PICK p \in Live(heap), i \in held : \E h \in MaybeNamed(i) :
        p \notin Tree(heap, i) /\ heap' = Appended(h, p, i).h /\ held' = held \ {i}
  BY DEF Add
<1>1. PICK h \in MaybeNamed(i) :
        p \notin Tree(heap, i) /\ heap' = Appended(h, p, i).h /\ held' = held \ {i}
  BY <1>0
<1>2. /\ p \in Addresses /\ i \in Addresses /\ Forest(Live(heap), k, held)
      /\ k \in MemberSets /\ \A q \in Addresses : i \notin k[q]
  BY DocParts
<1>3. Sound(h) /\ Live(h) = Live(heap) /\ Kids(h) = k
  BY <1>2, MaybeSound
<1>4. p \notin Own!Tree(k, i)
  BY <1>1 DEF Tree
<1>5. p # i
  BY <1>2, <1>4, TreeClosed
<1>6. Sound(heap') /\ Live(heap') = Live(heap) /\ Kids(heap') = Own!Given(k, p, i)
  BY <1>1, <1>2, <1>3, <1>5, AppendedSound
<1>7. Forest(Live(heap), Own!Given(k, p, i), held \ {i})
  BY <1>2, <1>4, ForestGives
<1>8. /\ DocInv' /\ Live(heap)' = Live(heap) /\ Kids(heap)' = Own!Given(k, p, i)
      /\ held' = held \ {i}
  BY <1>1, <1>6, <1>7, NowIs
<1> QED BY <1>4, <1>8 DEF Own!Give

\* and so does inserting.
LEMMA InsertOwnMaps == DocInv /\ InsertInArray => DocInv' /\ Own!Give
<1> SUFFICES ASSUME DocInv, InsertInArray PROVE DocInv' /\ Own!Give
  OBVIOUS
<1> DEFINE k == Kids(heap)
<1>1. PICK p \in Live(heap), i \in Live(heap), new \in held :
        /\ IsMember(i, p) /\ p \notin Tree(heap, new)
        /\ heap' = Insert(heap, p, i, new) /\ held' = held \ {new}
  BY DEF InsertInArray
<1>2. /\ Sound(heap) /\ p \in Addresses /\ i \in k[p] /\ new \in Addresses
      /\ Forest(Live(heap), k, held) /\ \A q \in Addresses : new \notin k[q]
  BY <1>1, DocParts
<1>3. p \notin Own!Tree(k, new)
  BY <1>1 DEF Tree
<1>4. Sound(heap') /\ Live(heap') = Live(heap) /\ Kids(heap') = Own!Given(k, p, new)
  BY <1>1, <1>2, InsertedSound
<1>5. Forest(Live(heap), Own!Given(k, p, new), held \ {new})
  BY <1>2, <1>3, ForestGives
<1>6. /\ DocInv' /\ Live(heap)' = Live(heap) /\ Kids(heap)' = Own!Given(k, p, new)
      /\ held' = held \ {new}
  BY <1>1, <1>4, <1>5, NowIs
<1> QED BY <1>3, <1>6 DEF Own!Give

\* Detaching gives it back.
LEMMA DetachOwnMaps == DocInv /\ Detach => DocInv' /\ Own!Take
<1> SUFFICES ASSUME DocInv, Detach PROVE DocInv' /\ Own!Take
  OBVIOUS
<1> DEFINE k == Kids(heap)
<1>1. PICK p \in Live(heap), i \in Live(heap) :
        /\ IsMember(i, p)
        /\ heap' = DetachItemViaPointer(heap, p, i) /\ held' = held \cup {i}
  BY DEF Detach
<1>2. Sound(heap) /\ p \in Addresses /\ i \in k[p] /\ Forest(Live(heap), k, held)
  BY <1>1, DocParts
<1>3. Sound(heap') /\ Live(heap') = Live(heap) /\ Kids(heap') = Own!Taken(k, p, i)
  BY <1>1, <1>2, DetachedSound
<1>4. Forest(Live(heap), Own!Taken(k, p, i), held \cup {i})
  BY <1>2, ForestTakes
<1>5. /\ DocInv' /\ Live(heap)' = Live(heap) /\ Kids(heap)' = Own!Taken(k, p, i)
      /\ held' = held \cup {i}
  BY <1>1, <1>3, <1>4, NowIs
<1> QED BY <1>2, <1>5 DEF Own!Take

\* Deleting a document frees its tree,
LEMMA DeleteMaps == DocInv /\ Delete => DocInv' /\ Own!Destroy
<1> SUFFICES ASSUME DocInv, Delete PROVE DocInv' /\ Own!Destroy
  OBVIOUS
<1> DEFINE k == Kids(heap)
<1>1. PICK i \in held : heap' = Deleted(heap, i) /\ held' = held \ {i}
  BY DEF Delete
<1>2. Sound(heap) /\ Forest(Live(heap), k, held)
  BY DocParts
<1> DEFINE T == Own!Tree(k, i)
<1>3. /\ Sound(heap') /\ Live(heap') = Live(heap) \ T /\ Kids(heap') = Own!Cleared(k, T)
      /\ Forest(Live(heap'), Kids(heap'), held \ {i})
  BY <1>1, <1>2, DeletedSound
<1>4. /\ DocInv' /\ Live(heap)' = Live(heap) \ T /\ Kids(heap)' = Own!Cleared(k, T)
      /\ held' = held \ {i}
  BY <1>1, <1>3, NowIs
<1> QED BY <1>4 DEF Own!Destroy, Own!Gone

\* and deleting a member the tree of the member.
LEMMA DeleteMemberMaps == DocInv /\ DeleteMember => DocInv' /\ Own!DestroyMember
<1> SUFFICES ASSUME DocInv, DeleteMember PROVE DocInv' /\ Own!DestroyMember
  OBVIOUS
<1> DEFINE k == Kids(heap)
<1>1. PICK p \in Live(heap), i \in Live(heap) :
        /\ IsMember(i, p)
        /\ heap' = Deleted(DetachItemViaPointer(heap, p, i), i) /\ held' = held
  BY DEF DeleteMember
<1>2. Sound(heap) /\ p \in Addresses /\ i \in k[p] /\ Forest(Live(heap), k, held) /\ i \notin held
  BY <1>1, DocParts
<1> DEFINE g == DetachItemViaPointer(heap, p, i)
           l == Own!Taken(k, p, i)
           T == Own!Tree(l, i)
<1>3. Sound(g) /\ Live(g) = Live(heap) /\ Kids(g) = l
  BY <1>2, DetachedSound
<1>4. Forest(Live(heap), l, held \cup {i})
  BY <1>2, ForestTakes
<1>5. heap' = Deleted(g, i)
  BY <1>1
<1> HIDE DEF g
<1>6. /\ Sound(heap') /\ Live(heap') = Live(heap) \ T /\ Kids(heap') = Own!Cleared(l, T)
      /\ Forest(Live(heap'), Kids(heap'), (held \cup {i}) \ {i})
  BY <1>3, <1>4, <1>5, DeletedSound
<1>7. (held \cup {i}) \ {i} = held
  BY <1>2
<1>8. DocInv' /\ Live(heap)' = Live(heap) \ T /\ Kids(heap)' = Own!Cleared(l, T)
  BY <1>1, <1>6, <1>7, NowIs
<1> QED BY <1>1, <1>2, <1>8 DEF Own!DestroyMember, Own!Gone

\* Replacing takes the member, gives the other item, and deletes the member.
LEMMA ReplaceOwnMaps == DocInv /\ Replace => DocInv' /\ Own!Exchange
<1> SUFFICES ASSUME DocInv, Replace PROVE DocInv' /\ Own!Exchange
  OBVIOUS
<1> DEFINE k == Kids(heap)
<1>0. PICK p \in Live(heap), i \in Live(heap), new \in held : \E h \in MaybeNamed(new) :
        /\ IsMember(i, p) /\ p \notin Tree(heap, new)
        /\ heap' = Deleted(Relinked(h, p, i, new), i) /\ held' = held \ {new}
  BY DEF Replace
<1>1. PICK h \in MaybeNamed(new) :
        /\ IsMember(i, p) /\ p \notin Tree(heap, new)
        /\ heap' = Deleted(Relinked(h, p, i, new), i) /\ held' = held \ {new}
  BY <1>0
<1>2. /\ p \in Addresses /\ i \in k[p] /\ i \in Addresses /\ i \notin held /\ i # new
      /\ new \in Addresses /\ Forest(Live(heap), k, held) /\ k \in MemberSets
      /\ \A q \in Addresses : new \notin k[q]
  BY <1>1, DocParts
<1>3. Sound(h) /\ Live(h) = Live(heap) /\ Kids(h) = k
  BY <1>2, MaybeSound
<1> DEFINE g == Relinked(h, p, i, new)
           m == Own!Taken(k, p, i)
           l == Own!Given(m, p, new)
           T == Own!Tree(l, i)
<1>4. Sound(g) /\ Live(g) = Live(heap) /\ Kids(g) = l
  BY <1>2, <1>3, RelinkedSound
<1>5. p \notin Own!Tree(k, new)
  BY <1>1 DEF Tree
<1>6. p \notin Own!Tree(m, new)
  <2>1. m \in MemberSets /\ \A q \in Addresses : m[q] \subseteq k[q]
    BY <1>2 DEF Own!Taken, MemberSets
  <2> HIDE DEF m
  <2>2. Own!Tree(m, new) \subseteq Own!Tree(k, new)
    BY <1>2, <2>1, TreeShrinks
  <2> QED BY <1>5, <2>2
<1>7. Forest(Live(heap), m, held \cup {i})
  BY <1>2, ForestTakes
<1> HIDE DEF m
<1>8. Forest(Live(heap), l, (held \cup {i}) \ {new})
  BY <1>6, <1>7, ForestGives
<1>9. heap' = Deleted(g, i) /\ i \in (held \cup {i}) \ {new}
  BY <1>1, <1>2
<1> HIDE DEF g, l
<1>10. /\ Sound(heap') /\ Live(heap') = Live(heap) \ T /\ Kids(heap') = Own!Cleared(l, T)
       /\ Forest(Live(heap'), Kids(heap'), ((held \cup {i}) \ {new}) \ {i})
  BY <1>4, <1>8, <1>9, DeletedSound
<1>11. ((held \cup {i}) \ {new}) \ {i} = held \ {new}
  BY <1>2
<1>12. /\ DocInv' /\ Live(heap)' = Live(heap) \ T /\ Kids(heap)' = Own!Cleared(l, T)
       /\ held' = held \ {new}
  BY <1>1, <1>10, <1>11, NowIs
<1> QED BY <1>2, <1>5, <1>12 DEF Own!Exchange, Own!Gone, l, m

\* A key alone changes nothing that is owned.
LEMMA NothingMaps ==
  ASSUME DocInv, ReplaceNothing
  PROVE DocInv' /\ Live(heap)' = Live(heap) /\ Kids(heap)' = Kids(heap) /\ held' = held
<1>1. PICK i \in held : /\ heap' \in MaybeNamed(i) \cup {Named(heap, i, NoKey)}
                        /\ held' = held
  BY DEF ReplaceNothing
<1>2. i \in Addresses /\ Forest(Live(heap), Kids(heap), held) /\ Sound(heap)
  BY DocParts
<1>3. Sound(heap') /\ Live(heap') = Live(heap) /\ Kids(heap') = Kids(heap)
  <2>1. CASE heap' \in MaybeNamed(i)
    BY <1>2, <2>1, MaybeSound
  <2>2. CASE heap' = Named(heap, i, NoKey)
    BY <1>2, <2>2, NamedSound
  <2> QED BY <1>1, <2>1, <2>2
<1> QED BY <1>1, <1>2, <1>3, NowIs

\* Every step maps to a step on documents, or to none.
LEMMA DocStepMaps ==
  DocInv /\ [DocNext]_docVars
    => DocInv' /\ [Own!Next]_(<<Live(heap), Kids(heap), held>>)
<1> SUFFICES ASSUME DocInv, [DocNext]_docVars
             PROVE DocInv' /\ [Own!Next]_(<<Live(heap), Kids(heap), held>>)
  OBVIOUS
<1>1. CASE Create
  BY <1>1, CreateMaps DEF Own!Next
<1>2. CASE Add
  BY <1>2, AddOwnMaps DEF Own!Next
<1>3. CASE InsertInArray
  BY <1>3, InsertOwnMaps DEF Own!Next
<1>4. CASE Replace
  BY <1>4, ReplaceOwnMaps DEF Own!Next
<1>5. CASE ReplaceNothing
  BY <1>5, NothingMaps
<1>6. CASE Detach
  BY <1>6, DetachOwnMaps DEF Own!Next
<1>7. CASE Delete
  BY <1>7, DeleteMaps DEF Own!Next
<1>8. CASE DeleteMember
  BY <1>8, DeleteMemberMaps DEF Own!Next
<1>9. CASE UNCHANGED docVars
  BY <1>9 DEF DocInv, docVars
<1> QED BY <1>1, <1>2, <1>3, <1>4, <1>5, <1>6, <1>7, <1>8, <1>9 DEF DocNext

\* Whatever is created, added, inserted, replaced, detached and deleted, in
\* whatever order and on a heap of any size, every struct is in exactly one
\* document of the program: no call leaks a struct, frees one twice, leaves one
\* in two places or a circle among them, and nothing freed is reached
\* (cJSON.c:242-284, 1932-2405).
THEOREM DocumentsStayOwned == DocSpec => []DocumentsOwned
<1>1. DocInit => DocInv
  BY DocInitMaps
<1>2. DocInv /\ [DocNext]_docVars => DocInv'
  BY DocStepMaps
<1>3. DocInv => DocumentsOwned
  BY ForestOwned DEF DocInv, DocumentsOwned, Own!Owned
<1> QED BY <1>1, <1>2, <1>3, PTL DEF DocSpec

\* The calls on the heap are calls on documents: each gives, takes, exchanges
\* or destroys one, and touches nothing else.
THEOREM DocumentsAreManaged == DocSpec => ManageDocuments
<1>1. DocInit => DocInv /\ Own!Init
  BY DocInitMaps
<1>2. DocInv /\ [DocNext]_docVars
        => DocInv' /\ [Own!Next]_(<<Live(heap), Kids(heap), held>>)
  BY DocStepMaps
<1> QED BY <1>1, <1>2, PTL DEF DocSpec, ManageDocuments, Own!Spec, Own!ownVars
=============================================================================

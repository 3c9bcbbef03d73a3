----------------------------- MODULE CodecProofs -----------------------------
(***************************************************************************)
(* What is packed is taken out again: for any number of pairs, of any      *)
(* strings, a value comes out of the text as it went in, cut to its        *)
(* buffer.                                                                 *)
(*                                                                         *)
(* Compress is defined by recursion.  The induction theorems of the        *)
(* library take an operator, which no prover here can instantiate; NatSet  *)
(* states induction for a set of numbers instead.                          *)
(***************************************************************************)
EXTENDS ModeRequest, WellFoundedInduction, SequenceTheorems, TLAPS

-----------------------------------------------------------------------------
(* Induction.                                                               *)

\* The order of the numbers as the set of pairs the library reasons about.
LEMMA NatLess == IsWellFoundedOn({p \in Nat \X Nat : p[1] < p[2]}, Nat)
BY NatLessThanWellFounded DEF OpToRel

\* A set of numbers that is not empty has a least one.
LEMMA Least ==
  ASSUME NEW S \in SUBSET Nat, NEW n \in S
  PROVE \E m \in S : \A k \in S : m <= k
<1> DEFINE R == {p \in Nat \X Nat : p[1] < p[2]}
<1>1. PICK m \in S : \A k \in S : <<k, m>> \notin R
  <2>1. S # {} /\ S \subseteq Nat
    OBVIOUS
  <2> HIDE DEF R
  <2>2. IsWellFoundedOn(R, Nat)
    BY NatLess DEF R
  <2> QED BY <2>1, <2>2, WFMin
<1>2. \A k \in S : m <= k
  <2> TAKE k \in S
  <2>1. ~(k < m)
    BY <1>1
  <2> QED BY <2>1
<1> QED BY <1>2

\* A set that holds 0, and with every number the next, holds all.
LEMMA NatSet ==
  ASSUME NEW S, 0 \in S, \A n \in Nat : n \in S => n + 1 \in S
  PROVE \A n \in Nat : n \in S
<1> DEFINE T == {n \in Nat : n \notin S}
<1> SUFFICES ASSUME NEW n \in T PROVE FALSE
  OBVIOUS
<1>1. PICK m \in T : \A k \in T : m <= k
  BY Least
<1>2. m \in Nat /\ m # 0
  OBVIOUS
<1>3. m - 1 \in Nat /\ m - 1 \notin T
  BY <1>1, <1>2
<1>4. (m - 1) + 1 \in S
  BY <1>3
<1> QED BY <1>2, <1>4

-----------------------------------------------------------------------------
(* Sequences.                                                               *)

\* a is the beginning of b.
Begins(a, b) == Len(a) <= Len(b) /\ \A i \in 1 .. Len(a) : b[i] = a[i]

Behind(a, b) ==
  /\ Begins(a, a \o b)
  /\ Len(a \o b) = Len(a) + Len(b)
  /\ \A i \in 1 .. Len(b) : (a \o b)[Len(a) + i] = b[i]

\* What the library says of a concatenation, under one name.
Glued(a, b, C) ==
  /\ a \o b \in Seq(C)
  /\ Len(a \o b) = Len(a) + Len(b)
  /\ \A i \in 1 .. Len(a) + Len(b) :
       (a \o b)[i] = IF i <= Len(a) THEN a[i] ELSE b[i - Len(a)]

\* A concatenation is a sequence, its length is the sum of the two, and its
\* members are theirs.
LEMMA Glue ==
  ASSUME NEW C, NEW a \in Seq(C), NEW b \in Seq(C)
  PROVE Glued(a, b, C)
<1>1. a \o b \in Seq(C)
  BY ConcatProperties
<1>2. Len(a \o b) = Len(a) + Len(b)
  BY ConcatProperties
<1>3. \A i \in 1 .. Len(a) + Len(b) :
        (a \o b)[i] = IF i <= Len(a) THEN a[i] ELSE b[i - Len(a)]
  BY ConcatProperties
<1> QED BY <1>1, <1>2, <1>3 DEF Glued

\* Two sequences joined hold one behind the other.
LEMMA TwoParts ==
  ASSUME NEW C, NEW a \in Seq(C), NEW b \in Seq(C)
  PROVE Behind(a, b)
<1> DEFINE x == a \o b
           e == Len(a)
           f == Len(b)
<1>1. /\ Len(x) = e + f
      /\ \A i \in 1 .. e + f : x[i] = IF i <= e THEN a[i] ELSE b[i - e]
  BY Glue DEF Glued
<1>2. e \in Nat /\ f \in Nat
  BY LenProperties
<1> SUFFICES /\ e <= Len(x)
             /\ \A i \in 1 .. e : x[i] = a[i]
             /\ Len(x) = e + f
             /\ \A i \in 1 .. f : x[e + i] = b[i]
  BY DEF Behind, Begins
<1> HIDE DEF x, e, f
<1>3. \A i \in 1 .. f : x[e + i] = b[i]
  <2> TAKE i \in 1 .. f
  <2>1. /\ e + i \in 1 .. e + f
        /\ ~(e + i <= e)
        /\ (e + i) - e = i
    BY <1>2
  <2> QED BY <1>1, <2>1
<1>4. \A i \in 1 .. e : x[i] = a[i]
  BY <1>1, <1>2
<1> QED BY <1>1, <1>2, <1>3, <1>4

Three(a, b, c) == a \o b \o c

Joined(a, b, c, C) ==
  /\ Three(a, b, c) \in Seq(C)
  /\ Len(Three(a, b, c)) = Len(a) + Len(b) + Len(c)
  /\ \A i \in 1 .. Len(a) : Three(a, b, c)[i] = a[i]
  /\ \A i \in 1 .. Len(b) : Three(a, b, c)[Len(a) + i] = b[i]
  /\ \A i \in 1 .. Len(c) : Three(a, b, c)[Len(a) + Len(b) + i] = c[i]

\* Three sequences joined hold one after the other.
LEMMA ThreeParts ==
  ASSUME NEW C, NEW a \in Seq(C), NEW b \in Seq(C), NEW c \in Seq(C)
  PROVE Joined(a, b, c, C)
<1>1. /\ a \o b \in Seq(C)
      /\ Len(a \o b) = Len(a) + Len(b)
      /\ \A i \in 1 .. Len(a) + Len(b) : (a \o b)[i] = IF i <= Len(a) THEN a[i] ELSE b[i - Len(a)]
  BY Glue DEF Glued
<1> DEFINE ab == a \o b
<1>2. /\ ab \o c \in Seq(C)
      /\ Len(ab \o c) = Len(ab) + Len(c)
      /\ \A i \in 1 .. Len(ab) + Len(c) :
           (ab \o c)[i] = IF i <= Len(ab) THEN ab[i] ELSE c[i - Len(ab)]
  <2>1. ab \in Seq(C)
    BY <1>1
  <2> HIDE DEF ab
  <2>2. Glued(ab, c, C)
    BY <2>1, Glue
  <2> QED BY <2>2 DEF Glued
<1>3. Len(a) \in Nat /\ Len(b) \in Nat /\ Len(c) \in Nat
  BY LenProperties
<1>4. Three(a, b, c) = ab \o c
  BY DEF Three
<1> QED
  BY <1>1, <1>2, <1>3, <1>4 DEF Joined

-----------------------------------------------------------------------------
(* The text, pair by pair.                                                  *)

Alphabet(C) == "|" \in C /\ ":" \in C
PairsOf(C)  == Seq(Seq(C) \X Seq(C))
Sep(n)      == IF n = 1 THEN 0 ELSE 1

\* text and what the n-th pair adds.
With(text, pairs, n) == text \o Pair(pairs, n)

\* t[n] is the text of the first n pairs, for the first m.
Texts(t, pairs, C, m) ==
  /\ t \in [0 .. m -> Seq(C)]
  /\ t[0] = <<>>
  /\ \A n \in 1 .. m : t[n] = With(t[n - 1], pairs, n)

IsText(t, pairs, C) == Texts(t, pairs, C, Len(pairs))

\* A pair is a separator unless it is the first, its key, a colon, its value.
LEMMA PairShape ==
  ASSUME NEW C, Alphabet(C), NEW pairs \in PairsOf(C), NEW n \in 1 .. Len(pairs)
  PROVE LET k == pairs[n][1]
            v == pairs[n][2]
            pair == Pair(pairs, n)
        IN  /\ pair \in Seq(C)
            /\ k \in Seq(C) /\ v \in Seq(C)
            /\ Len(pair) = Sep(n) + Len(k) + 1 + Len(v)
            /\ n # 1 => pair[1] = "|"
            /\ \A i \in 1 .. Len(k) : pair[Sep(n) + i] = k[i]
            /\ pair[Sep(n) + Len(k) + 1] = ":"
            /\ \A i \in 1 .. Len(v) : pair[Sep(n) + Len(k) + 1 + i] = v[i]
<1> DEFINE k == pairs[n][1]
           v == pairs[n][2]
           s == IF n = 1 THEN <<>> ELSE <<"|">>
           c == <<":">>
<1>1. pairs[n] \in Seq(C) \X Seq(C)
  BY ElementOfSeq DEF PairsOf
<1>2. k \in Seq(C) /\ v \in Seq(C)
  BY <1>1
<1>3. s \in Seq(C) /\ Len(s) = Sep(n) /\ (n # 1 => s[1] = "|")
  <2>1. CASE n = 1
    BY <2>1, EmptySeq DEF Sep
  <2>2. CASE n # 1
    BY <2>2 DEF Sep, Alphabet
  <2> QED BY <2>1, <2>2
<1>4. c \in Seq(C) /\ Len(c) = 1 /\ c[1] = ":"
  BY DEF Alphabet
<1>5. Len(k) \in Nat /\ Len(v) \in Nat
  BY <1>2, LenProperties
<1>6. Pair(pairs, n) = s \o k \o c \o v
  BY DEF Pair
<1> DEFINE skc == Three(s, k, c)
           pair == skc \o v
<1>7. skc \o v = Pair(pairs, n)
  BY <1>6 DEF Three
<1> HIDE DEF s, k, v, c
<1>8. /\ skc \in Seq(C)
      /\ Len(skc) = Len(s) + Len(k) + Len(c)
      /\ \A i \in 1 .. Len(s) : skc[i] = s[i]
      /\ \A i \in 1 .. Len(k) : skc[Len(s) + i] = k[i]
      /\ \A i \in 1 .. Len(c) : skc[Len(s) + Len(k) + i] = c[i]
  <2>1. s \in Seq(C) /\ k \in Seq(C) /\ c \in Seq(C)
    BY <1>2, <1>3, <1>4
  <2>2. Joined(s, k, c, C)
    BY <2>1, ThreeParts
  <2> QED BY <2>2 DEF Joined
<1> HIDE DEF skc
<1>9. /\ pair \in Seq(C)
      /\ Len(pair) = Len(skc) + Len(v)
      /\ \A i \in 1 .. Len(skc) + Len(v) :
           pair[i] = IF i <= Len(skc) THEN skc[i] ELSE v[i - Len(skc)]
  <2>1. Glued(skc, v, C)
    BY <1>2, <1>8, Glue
  <2> QED BY <2>1 DEF Glued
<1> HIDE DEF pair
<1>10. Len(skc) = Sep(n) + Len(k) + 1 /\ Sep(n) \in 0 .. 1 /\ (n # 1 => Sep(n) = 1)
  BY <1>3, <1>4, <1>5, <1>8 DEF Sep
<1>11. Len(pair) = Sep(n) + Len(k) + 1 + Len(v)
  BY <1>5, <1>9, <1>10
<1>12. n # 1 => pair[1] = "|"
  BY <1>3, <1>5, <1>8, <1>9, <1>10
<1>13. \A i \in 1 .. Len(k) : pair[Sep(n) + i] = k[i]
  <2> TAKE i \in 1 .. Len(k)
  <2>1. skc[Sep(n) + i] = k[i]
    BY <1>3, <1>8
  <2> QED BY <1>5, <1>9, <1>10, <2>1
<1>14. pair[Sep(n) + Len(k) + 1] = ":"
  <2>1. skc[Sep(n) + Len(k) + 1] = ":"
    BY <1>3, <1>4, <1>8
  <2> QED BY <1>5, <1>9, <1>10, <2>1
<1>15. \A i \in 1 .. Len(v) : pair[Sep(n) + Len(k) + 1 + i] = v[i]
  <2> TAKE i \in 1 .. Len(v)
  <2> DEFINE j == Sep(n) + Len(k) + 1 + i
  <2>1. /\ j \in 1 .. Len(skc) + Len(v)
        /\ ~(j <= Len(skc))
        /\ j - Len(skc) = i
    BY <1>5, <1>10
  <2> QED BY <1>9, <2>1
<1>16. Pair(pairs, n) = pair
  BY <1>7 DEF pair
<1> QED
  BY <1>2, <1>9, <1>11, <1>12, <1>13, <1>14, <1>15, <1>16 DEF k, v

\* Texts of m pairs grow by the next.
LEMMA MoreText ==
  ASSUME NEW C, Alphabet(C), NEW pairs \in PairsOf(C), NEW m \in Nat, m + 1 <= Len(pairs),
         NEW t, Texts(t, pairs, C, m)
  PROVE \E u : Texts(u, pairs, C, m + 1)
<1> DEFINE last == With(t[m], pairs, m + 1)
           u == [n \in 0 .. m + 1 |-> IF n = m + 1 THEN last ELSE t[n]]
<1>1. Len(pairs) \in Nat
  BY LenProperties DEF PairsOf
<1>2. t[m] \in Seq(C)
  BY DEF Texts
<1>3. Pair(pairs, m + 1) \in Seq(C)
  BY <1>1, PairShape
<1>4. last \in Seq(C)
  BY <1>2, <1>3, ConcatProperties DEF With
<1>5. u[m + 1] = With(t[m], pairs, m + 1)
  OBVIOUS
<1>6. \A n \in 0 .. m : u[n] = t[n]
  <2> HIDE DEF last
  <2> QED OBVIOUS
<1>7. u \in [0 .. m + 1 -> Seq(C)]
  <2> HIDE DEF last
  <2> QED BY <1>4 DEF Texts
<1> HIDE DEF u
<1>8. u[0] = <<>>
  BY <1>6 DEF Texts
<1>9. \A n \in 1 .. m + 1 : u[n] = With(u[n - 1], pairs, n)
  <2> TAKE n \in 1 .. m + 1
  <2>1. CASE n = m + 1
    <3>1. n - 1 = m /\ m \in 0 .. m
      BY <2>1
    <3>2. u[n - 1] = t[m]
      BY <3>1, <1>6
    <3> QED BY <2>1, <3>1, <3>2, <1>5
  <2>2. CASE n # m + 1
    <3>1. n \in 1 .. m /\ n \in 0 .. m /\ n - 1 \in 0 .. m
      BY <2>2
    <3>2. u[n] = t[n] /\ u[n - 1] = t[n - 1]
      BY <3>1, <1>6
    <3>3. t[n] = With(t[n - 1], pairs, n)
      BY <3>1 DEF Texts
    <3> QED BY <3>2, <3>3
  <2> QED BY <2>1, <2>2
<1> QED BY <1>7, <1>8, <1>9 DEF Texts

\* There is such a text: the recursion of Compress has a solution, and Compress
\* is its last value.
LEMMA CompressText ==
  ASSUME NEW C, Alphabet(C), NEW pairs \in PairsOf(C)
  PROVE \E t : IsText(t, pairs, C) /\ Compress(pairs) = t[Len(pairs)]
<1> DEFINE N == Len(pairs)
           Def(t) == [n \in 0 .. N |-> IF n = 0 THEN <<>> ELSE With(t[n - 1], pairs, n)]
           u == CHOOSE u : u = Def(u)
           S == {m \in Nat : m <= N => \E t : Texts(t, pairs, C, m)}
           R == {m \in Nat : m <= N => u[m] \in Seq(C)}
<1>1. N \in Nat
  BY LenProperties DEF PairsOf
<1>2. Compress(pairs) = u[N]
  BY DEF Compress, With
<1> HIDE DEF N
<1>3. 0 \in S
  <2>1. Texts([n \in 0 .. 0 |-> <<>>], pairs, C, 0)
    BY EmptySeq DEF Texts
  <2> QED BY <2>1
<1>4. ASSUME NEW m \in Nat, m \in S
      PROVE m + 1 \in S
  <2> SUFFICES ASSUME m + 1 <= N
               PROVE \E t : Texts(t, pairs, C, m + 1)
    OBVIOUS
  <2>1. PICK t : Texts(t, pairs, C, m)
    BY <1>1, <1>4
  <2> QED BY <2>1, MoreText DEF N
<1>5. \A m \in Nat : m \in S
  <2> HIDE DEF S
  <2> QED BY <1>3, <1>4, NatSet, Zenon
<1>6. PICK t : Texts(t, pairs, C, N)
  BY <1>1, <1>5
<1>7. t = Def(t)
  BY <1>1, <1>6 DEF Texts
<1>8. u = Def(u)
  BY <1>7
<1> HIDE DEF u
<1>9. u[0] = <<>>
  BY <1>1, <1>8
<1>10. ASSUME NEW n \in 1 .. N
       PROVE u[n] = With(u[n - 1], pairs, n)
  BY <1>1, <1>8
<1>11. 0 \in R
  BY <1>9, EmptySeq
<1>12. ASSUME NEW m \in Nat, m \in R
       PROVE m + 1 \in R
  <2> SUFFICES ASSUME m + 1 <= N PROVE u[m + 1] \in Seq(C)
    OBVIOUS
  <2>1. u[m] \in Seq(C)
    BY <1>1, <1>12
  <2>2. Pair(pairs, m + 1) \in Seq(C)
    BY <1>1, PairShape DEF N
  <2>3. u[m + 1] = With(u[(m + 1) - 1], pairs, m + 1)
    BY <1>1, <1>10
  <2>4. (m + 1) - 1 = m
    OBVIOUS
  <2> QED BY <2>1, <2>2, <2>3, <2>4, ConcatProperties DEF With
<1>13. \A n \in Nat : n \in R
  <2> HIDE DEF R
  <2> QED BY <1>11, <1>12, NatSet, Zenon
<1>14. u \in [0 .. N -> Seq(C)]
  BY <1>1, <1>8, <1>13
<1>15. IsText(u, pairs, C)
  BY <1>9, <1>10, <1>14 DEF IsText, Texts, N
<1> QED BY <1>2, <1>15 DEF N

\* The n-th pair stands in x from e + 1.
Placed(x, pairs, n, e) ==
  LET k == pairs[n][1]
      v == pairs[n][2]
  IN  /\ n # 1 => x[e + 1] = "|"
      /\ \A i \in 1 .. Len(k) : x[e + Sep(n) + i] = k[i]
      /\ x[e + Sep(n) + Len(k) + 1] = ":"
      /\ \A i \in 1 .. Len(v) : x[e + Sep(n) + Len(k) + 1 + i] = v[i]

\* What n pairs take.
Extent(pairs, n, e) == e + Sep(n) + Len(pairs[n][1]) + 1 + Len(pairs[n][2])

\* Every length in sight is a number.
LEMMA Lengths ==
  ASSUME NEW C, Alphabet(C), NEW pairs \in PairsOf(C), NEW t, IsText(t, pairs, C)
  PROVE /\ Len(pairs) \in Nat
        /\ \A n \in 0 .. Len(pairs) : t[n] \in Seq(C) /\ Len(t[n]) \in Nat
        /\ Len(t[0]) = 0
        /\ \A n \in 1 .. Len(pairs) : /\ Sep(n) \in 0 .. 1
                                      /\ Sep(n) = 0 <=> n = 1
                                      /\ Len(pairs[n][1]) \in Nat
                                      /\ Len(pairs[n][2]) \in Nat
                                      /\ DOMAIN pairs[n][1] = 1 .. Len(pairs[n][1])
                                      /\ DOMAIN pairs[n][2] = 1 .. Len(pairs[n][2])
<1>1. Len(pairs) \in Nat
  BY LenProperties DEF PairsOf
<1>2. \A n \in 0 .. Len(pairs) : t[n] \in Seq(C)
  BY DEF IsText, Texts
<1>3. \A n \in 0 .. Len(pairs) : Len(t[n]) \in Nat
  BY <1>2, LenProperties
<1>4. Len(t[0]) = 0
  BY EmptySeq DEF IsText, Texts
<1>5. ASSUME NEW n \in 1 .. Len(pairs)
      PROVE pairs[n][1] \in Seq(C) /\ pairs[n][2] \in Seq(C)
  BY PairShape
<1>6. ASSUME NEW n \in 1 .. Len(pairs)
      PROVE /\ Sep(n) \in 0 .. 1
            /\ Sep(n) = 0 <=> n = 1
  BY DEF Sep
<1> QED BY <1>1, <1>2, <1>3, <1>4, <1>5, <1>6, LenProperties

\* The next pair stands behind the text so far.
LEMMA Grows ==
  ASSUME NEW C, Alphabet(C), NEW pairs \in PairsOf(C), NEW t, IsText(t, pairs, C),
         NEW n \in 1 .. Len(pairs)
  PROVE /\ Begins(t[n - 1], t[n])
        /\ Len(t[n]) = Extent(pairs, n, Len(t[n - 1]))
        /\ Placed(t[n], pairs, n, Len(t[n - 1]))
<1> DEFINE k  == pairs[n][1]
           v  == pairs[n][2]
           a  == t[n - 1]
           b  == Pair(pairs, n)
           e  == Len(a)
           lk == Len(k)
           lv == Len(v)
           lb == Len(b)
           x  == a \o b
<1>1. n - 1 \in 0 .. Len(pairs) /\ n \in 0 .. Len(pairs) /\ Len(pairs) \in Nat
  BY Lengths
<1>2. a \in Seq(C)
  BY <1>1, Lengths
<1>3. t[n] = x
  BY DEF IsText, Texts, With
<1>4. b \in Seq(C)
  BY PairShape
<1>5. lb = Sep(n) + lk + 1 + lv
  BY PairShape
<1>6. /\ n # 1 => b[1] = "|"
      /\ \A i \in 1 .. lk : b[Sep(n) + i] = k[i]
      /\ b[Sep(n) + lk + 1] = ":"
      /\ \A i \in 1 .. lv : b[Sep(n) + lk + 1 + i] = v[i]
  BY PairShape
<1>7. /\ Sep(n) \in 0 .. 1 /\ (Sep(n) = 0 <=> n = 1)
      /\ lk \in Nat /\ lv \in Nat
  BY Lengths
<1>8. e \in Nat
  BY <1>1, Lengths
<1>9. Behind(a, b)
  <2> HIDE DEF a, b
  <2> QED BY <1>2, <1>4, TwoParts
<1>10. Begins(a, x)
  BY <1>9 DEF Behind
<1>11. Len(x) = e + lb
  BY <1>9 DEF Behind
<1>12. \A i \in 1 .. lb : x[e + i] = b[i]
  BY <1>9 DEF Behind
<1> HIDE DEF k, v, a, b, e, lk, lv, lb, x
<1>13. Len(x) = Extent(pairs, n, e)
  <2>1. Len(x) = e + Sep(n) + lk + 1 + lv
    BY <1>5, <1>7, <1>8, <1>11
  <2> QED BY <2>1 DEF Extent, k, v, lk, lv
<1>14. n # 1 => x[e + 1] = "|"
  <2>1. 1 \in 1 .. lb
    BY <1>5, <1>7
  <2> QED BY <1>6, <1>12, <2>1
<1>15. \A i \in 1 .. lk : x[e + Sep(n) + i] = k[i]
  <2> TAKE i \in 1 .. lk
  <2> DEFINE j == Sep(n) + i
  <2>1. j \in 1 .. lb
    BY <1>5, <1>7
  <2>2. b[j] = k[i]
    BY <1>6
  <2>3. e + Sep(n) + i = e + j
    BY <1>7, <1>8
  <2> HIDE DEF j
  <2>4. x[e + j] = b[j]
    BY <1>12, <2>1
  <2> QED BY <2>2, <2>3, <2>4
<1>16. x[e + Sep(n) + lk + 1] = ":"
  <2> DEFINE j == Sep(n) + lk + 1
  <2>1. j \in 1 .. lb
    BY <1>5, <1>7
  <2>2. b[j] = ":"
    BY <1>6
  <2>3. e + Sep(n) + lk + 1 = e + j
    BY <1>7, <1>8
  <2> HIDE DEF j
  <2>4. x[e + j] = b[j]
    BY <1>12, <2>1
  <2> QED BY <2>2, <2>3, <2>4
<1>17. \A i \in 1 .. lv : x[e + Sep(n) + lk + 1 + i] = v[i]
  <2> TAKE i \in 1 .. lv
  <2> DEFINE j == Sep(n) + lk + 1 + i
  <2>1. j \in 1 .. lb
    BY <1>5, <1>7
  <2>2. b[j] = v[i]
    BY <1>6
  <2>3. e + Sep(n) + lk + 1 + i = e + j
    BY <1>7, <1>8
  <2> HIDE DEF j
  <2>4. x[e + j] = b[j]
    BY <1>12, <2>1
  <2> QED BY <2>2, <2>3, <2>4
<1>18. Placed(x, pairs, n, e)
  BY <1>14, <1>15, <1>16, <1>17 DEF Placed, k, v, lk, lv
<1> QED
  BY <1>3, <1>10, <1>13, <1>18 DEF a, e

\* Every text so far is the beginning of a later one.
LEMMA Prefix ==
  ASSUME NEW C, Alphabet(C), NEW pairs \in PairsOf(C), NEW t, IsText(t, pairs, C),
         NEW n \in 0 .. Len(pairs), NEW m \in 0 .. n
  PROVE Begins(t[m], t[n])
<1> DEFINE N == Len(pairs)
           S == {i \in Nat : i <= N => \A j \in 0 .. i : Begins(t[j], t[i])}
<1>1. N \in Nat /\ \A i \in 0 .. N : Len(t[i]) \in Nat
  BY Lengths
<1>2. \A i \in 0 .. N : Begins(t[i], t[i])
  BY <1>1 DEF Begins
<1>3. 0 \in S
  BY <1>1, <1>2
<1>4. ASSUME NEW i \in Nat, i \in S
      PROVE i + 1 \in S
  <2> SUFFICES ASSUME i + 1 <= N, NEW j \in 0 .. i + 1
               PROVE Begins(t[j], t[i + 1])
    OBVIOUS
  <2>1. CASE j = i + 1
    BY <1>1, <1>2, <2>1
  <2>2. CASE j # i + 1
    <3>1. j \in 0 .. i /\ i <= N
      BY <1>1, <2>2
    <3>2. Begins(t[j], t[i])
      BY <1>4, <3>1
    <3>3. Begins(t[(i + 1) - 1], t[i + 1])
      BY <1>1, Grows
    <3>4. (i + 1) - 1 = i
      OBVIOUS
    <3>5. Len(t[j]) \in Nat /\ Len(t[i]) \in Nat /\ Len(t[i + 1]) \in Nat
      BY <1>1, <3>1
    <3> QED BY <3>2, <3>3, <3>4, <3>5 DEF Begins
  <2> QED BY <2>1, <2>2
<1>5. n \in S
  <2> HIDE DEF S
  <2>1. \A i \in Nat : i \in S
    BY <1>3, <1>4, NatSet, Zenon
  <2> QED BY <1>1, <2>1
<1> QED BY <1>1, <1>5

\* In the whole text, too, every pair stands behind the ones before, and the
\* next separator behind it.
LEMMA InWhole ==
  ASSUME NEW C, Alphabet(C), NEW pairs \in PairsOf(C), NEW t, IsText(t, pairs, C),
         NEW n \in 1 .. Len(pairs)
  PROVE LET whole == t[Len(pairs)]
        IN  /\ Placed(whole, pairs, n, Len(t[n - 1]))
            /\ Len(t[n]) = Extent(pairs, n, Len(t[n - 1]))
            /\ Len(t[n]) <= Len(whole)
            /\ n < Len(pairs) => whole[Len(t[n]) + 1] = "|"
<1> DEFINE N == Len(pairs)
           whole == t[N]
           e  == Len(t[n - 1])
           lk == Len(pairs[n][1])
           lv == Len(pairs[n][2])
           l  == Len(t[n])
<1>1. N \in Nat /\ n \in 0 .. N /\ n - 1 \in 0 .. N
  BY Lengths
<1>2. Begins(t[n], whole)
  BY <1>1, Prefix
<1>3. \A i \in 1 .. l : whole[i] = t[n][i]
  BY <1>2 DEF Begins
<1>4. l <= Len(whole)
  BY <1>2 DEF Begins
<1>5. l = Extent(pairs, n, e)
  BY Grows
<1>6. Placed(t[n], pairs, n, e)
  BY Grows
<1>7. /\ e \in Nat /\ lk \in Nat /\ lv \in Nat
      /\ Sep(n) \in 0 .. 1 /\ (Sep(n) = 0 <=> n = 1)
  BY <1>1, Lengths
<1>8. l = e + Sep(n) + lk + 1 + lv
  BY <1>5 DEF Extent
<1> HIDE DEF e, lk, lv, l, whole
<1>9. n # 1 => whole[e + 1] = "|"
  <2>1. n # 1 => e + 1 \in 1 .. l
    BY <1>7, <1>8
  <2> QED BY <1>3, <1>6, <2>1 DEF Placed
<1>10. \A i \in 1 .. lk : whole[e + Sep(n) + i] = pairs[n][1][i]
  <2> TAKE i \in 1 .. lk
  <2>1. e + Sep(n) + i \in 1 .. l
    BY <1>7, <1>8
  <2> QED BY <1>3, <1>6, <2>1 DEF Placed, lk
<1>11. whole[e + Sep(n) + lk + 1] = ":"
  <2>1. e + Sep(n) + lk + 1 \in 1 .. l
    BY <1>7, <1>8
  <2> QED BY <1>3, <1>6, <2>1 DEF Placed, lk
<1>12. \A i \in 1 .. lv : whole[e + Sep(n) + lk + 1 + i] = pairs[n][2][i]
  <2> TAKE i \in 1 .. lv
  <2>1. e + Sep(n) + lk + 1 + i \in 1 .. l
    BY <1>7, <1>8
  <2> QED BY <1>3, <1>6, <2>1 DEF Placed, lk, lv
<1>13. Placed(whole, pairs, n, e)
  BY <1>9, <1>10, <1>11, <1>12 DEF Placed, lk, lv
<1>14. ASSUME n < N
       PROVE whole[l + 1] = "|"
  <2>1. n + 1 \in 1 .. N /\ n + 1 \in 0 .. N /\ n + 1 # 1 /\ (n + 1) - 1 = n
    BY <1>1, <1>14
  <2>2. /\ Placed(t[n + 1], pairs, n + 1, l)
        /\ Len(t[n + 1]) = Extent(pairs, n + 1, l)
    BY <2>1, Grows DEF l
  <2>3. t[n + 1][l + 1] = "|"
    BY <2>1, <2>2 DEF Placed
  <2>4. Begins(t[n + 1], whole)
    BY <1>1, <2>1, Prefix DEF whole
  <2> DEFINE s == Sep(n + 1)
             mk == Len(pairs[n + 1][1])
             mv == Len(pairs[n + 1][2])
  <2>5. l \in Nat /\ s = 1 /\ mk \in Nat /\ mv \in Nat
    BY <1>1, <2>1, Lengths DEF l, Sep
  <2>6. Len(t[n + 1]) = l + s + mk + 1 + mv
    BY <2>2 DEF Extent
  <2> HIDE DEF s, mk, mv
  <2>7. l + 1 \in 1 .. Len(t[n + 1])
    BY <2>5, <2>6
  <2> QED BY <2>3, <2>4, <2>7 DEF Begins
<1> QED BY <1>4, <1>5, <1>13, <1>14 DEF whole, e, l

-----------------------------------------------------------------------------
(* Separators.                                                              *)

\* A pair whose key holds no separator, and whose value no "|".
Clean(pairs, n) ==
  /\ \A i \in DOMAIN pairs[n][1] : pairs[n][1][i] \notin {"|", ":"}
  /\ \A i \in DOMAIN pairs[n][2] : pairs[n][2][i] # "|"

\* In the whole text a clean pair holds no "|" but the one before it.
LEMMA NoBar ==
  ASSUME NEW C, Alphabet(C), NEW pairs \in PairsOf(C), NEW t, IsText(t, pairs, C),
         NEW n \in 1 .. Len(pairs), Clean(pairs, n),
         NEW i \in (Len(t[n - 1]) + Sep(n) + 1) .. Len(t[n])
  PROVE t[Len(pairs)][i] # "|"
<1> DEFINE whole == t[Len(pairs)]
           e  == Len(t[n - 1])
           lk == Len(pairs[n][1])
           lv == Len(pairs[n][2])
           s  == Sep(n)
<1>1. /\ e \in Nat /\ lk \in Nat /\ lv \in Nat /\ s \in Nat
      /\ DOMAIN pairs[n][1] = 1 .. lk
      /\ DOMAIN pairs[n][2] = 1 .. lv
  BY Lengths
<1>2. Placed(whole, pairs, n, e)
  BY InWhole
<1>3. Len(t[n]) = e + s + lk + 1 + lv
  BY InWhole DEF Extent
<1>4. \A j \in 1 .. lk : whole[e + s + j] # "|"
  BY <1>1, <1>2 DEF Placed, Clean
<1>5. whole[e + s + lk + 1] # "|"
  BY <1>2 DEF Placed
<1>6. \A j \in 1 .. lv : whole[e + s + lk + 1 + j] # "|"
  BY <1>1, <1>2 DEF Placed, Clean
<1>7. i \in (e + s + 1) .. (e + s + lk + 1 + lv)
  BY <1>3
<1> HIDE DEF whole, e, lk, lv, s
<1>8. i \in Int
  BY <1>1, <1>7
<1>9. CASE i <= e + s + lk
  <2> DEFINE j == i - (e + s)
  <2>1. j \in 1 .. lk /\ e + s + j = i
    BY <1>1, <1>7, <1>8, <1>9
  <2>2. whole[e + s + j] # "|"
    BY <1>4, <2>1
  <2> QED BY <2>1, <2>2 DEF whole
<1>10. CASE i = e + s + lk + 1
  BY <1>5, <1>10 DEF whole
<1>11. CASE i > e + s + lk + 1
  <2> DEFINE j == i - (e + s + lk + 1)
  <2>1. j \in 1 .. lv /\ e + s + lk + 1 + j = i
    BY <1>1, <1>7, <1>8, <1>11
  <2>2. whole[e + s + lk + 1 + j] # "|"
    BY <1>6, <2>1
  <2> QED BY <2>1, <2>2 DEF whole
<1>12. i <= e + s + lk \/ i = e + s + lk + 1 \/ i > e + s + lk + 1
  BY <1>1, <1>8
<1> QED BY <1>9, <1>10, <1>11, <1>12

\* As long as the pairs are clean, every "|" is the one behind a pair.
LEMMA Bars ==
  ASSUME NEW C, Alphabet(C), NEW pairs \in PairsOf(C), NEW t, IsText(t, pairs, C),
         NEW n \in 1 .. Len(pairs), \A k \in 1 .. n : Clean(pairs, k),
         NEW i \in 1 .. Len(t[n]), t[Len(pairs)][i] = "|"
  PROVE \E m \in 1 .. n - 1 : i = Len(t[m]) + 1
<1> DEFINE N == Len(pairs)
           After(m, j) == \E k \in 1 .. m - 1 : j = Len(t[k]) + 1
           S == {m \in Nat : m <= n =>
                   \A j \in 1 .. Len(t[m]) : t[N][j] = "|" => After(m, j)}
<1>1. /\ N \in Nat /\ n \in 1 .. N /\ n \in Nat
      /\ \A m \in 0 .. N : Len(t[m]) \in Nat
      /\ Len(t[0]) = 0
  BY Lengths
<1>2. 0 \in S
  BY <1>1
<1>3. ASSUME NEW m \in Nat, m \in S
      PROVE m + 1 \in S
  <2> SUFFICES ASSUME m + 1 <= n, NEW j \in 1 .. Len(t[m + 1]), t[N][j] = "|"
               PROVE After(m + 1, j)
    OBVIOUS
  <2>1. m \in 0 .. N /\ m + 1 \in 1 .. N /\ m + 1 \in 1 .. n /\ (m + 1) - 1 = m
    BY <1>1
  <2>2. Len(t[m]) \in Nat /\ j \in Nat
    BY <1>1, <2>1
  <2>3. CASE j <= Len(t[m])
    <3>1. j \in 1 .. Len(t[m])
      BY <2>2, <2>3
    <3>2. PICK k \in 1 .. m - 1 : j = Len(t[k]) + 1
      BY <1>3, <2>1, <3>1
    <3>3. k \in 1 .. (m + 1) - 1
      BY <3>2
    <3> QED BY <3>2, <3>3
  <2>4. CASE j > Len(t[m])
    <3>1. Clean(pairs, m + 1)
      BY <2>1
    <3>2. j \notin (Len(t[m]) + Sep(m + 1) + 1) .. Len(t[m + 1])
      BY <2>1, <3>1, NoBar
    <3>3. /\ Sep(m + 1) \in 0 .. 1 /\ (Sep(m + 1) = 0 <=> m + 1 = 1)
          /\ Len(t[m + 1]) \in Nat
      BY <1>1, <2>1, Lengths
    <3>4. j = Len(t[m]) + 1 /\ m \in 1 .. (m + 1) - 1
      BY <2>2, <2>4, <3>2, <3>3
    <3> QED BY <3>4
  <2> QED BY <2>2, <2>3, <2>4
<1>4. n \in S
  <2> HIDE DEF S
  <2>1. \A m \in Nat : m \in S
    BY <1>2, <1>3, NatSet, Zenon
  <2> QED BY <1>1, <2>1
<1> QED BY <1>1, <1>4

-----------------------------------------------------------------------------
(* Pieces.                                                                  *)

First(t, n) == Len(t[n - 1]) + Sep(n) + 1
Piece(t, n) == <<First(t, n), Len(t[n])>>

\* The first colon of a piece is its KeyEnd.
LEMMA KeyEndIs ==
  ASSUME NEW text, NEW a \in Int, NEW b \in Int, NEW c \in a .. b, c # 0, text[c] = ":",
         \A i \in a .. b : text[i] = ":" => c <= i
  PROVE KeyEnd(text, <<a, b>>) = c
<1> DEFINE colons == {i \in a .. b : text[i] = ":"}
           least  == CHOOSE i \in colons : \A k \in colons : i <= k
<1>1. c \in colons /\ \A k \in colons : c <= k
  OBVIOUS
<1>2. colons # {} /\ colons \subseteq Int
  BY <1>1
<1>3. KeyEnd(text, <<a, b>>) = least
  BY <1>2 DEF KeyEnd
<1> HIDE DEF colons
<1>4. least \in colons /\ \A k \in colons : least <= k
  BY <1>1
<1> HIDE DEF least
<1>5. least \in Int /\ c \in Int /\ least <= c /\ c <= least
  BY <1>1, <1>2, <1>4
<1> QED BY <1>3, <1>5

\* A clean pair is a piece of the text, with its key and its value.
LEMMA IsPiece ==
  ASSUME NEW C, Alphabet(C), NEW pairs \in PairsOf(C), NEW t, IsText(t, pairs, C),
         NEW n \in 1 .. Len(pairs), Clean(pairs, n)
  PROVE LET whole == t[Len(pairs)]
            p == Piece(t, n)
        IN  /\ p \in Pieces(whole)
            /\ KeyEnd(whole, p) # 0
            /\ KeyOf(whole, p) = pairs[n][1]
            /\ ValueOf(whole, p) = pairs[n][2]
<1> DEFINE N  == Len(pairs)
           whole == t[N]
           k  == pairs[n][1]
           v  == pairs[n][2]
           e  == Len(t[n - 1])
           s  == Sep(n)
           lk == Len(k)
           lv == Len(v)
           a  == First(t, n)
           b  == Len(t[n])
           c  == a + lk
<1>1. N \in Nat /\ n \in 0 .. N /\ n - 1 \in 0 .. N
  BY Lengths
<1>2. /\ e \in Nat /\ lk \in Nat /\ lv \in Nat
      /\ s \in 0 .. 1 /\ (s = 0 <=> n = 1)
      /\ Len(whole) \in Nat /\ b \in Nat
      /\ n = 1 => e = 0
      /\ DOMAIN k = 1 .. lk
  BY <1>1, Lengths
<1>3. whole \in Seq(C)
  BY <1>1, Lengths
<1>4. k \in Seq(C) /\ v \in Seq(C)
  BY PairShape
<1>5. Placed(whole, pairs, n, e)
  BY InWhole
<1>6. /\ b = e + s + lk + 1 + lv
      /\ b <= Len(whole)
      /\ n < N => whole[b + 1] = "|"
      /\ n = N => b = Len(whole)
  BY InWhole DEF Extent
<1>7. a = e + s + 1
  BY DEF First
<1>8. \A i \in a .. b : whole[i] # "|"
  BY <1>7, NoBar
<1>9. /\ n # 1 => whole[e + 1] = "|"
      /\ \A i \in 1 .. lk : whole[e + s + i] = k[i]
      /\ whole[e + s + lk + 1] = ":"
      /\ \A i \in 1 .. lv : whole[e + s + lk + 1 + i] = v[i]
  BY <1>5 DEF Placed
<1>10. \A i \in 1 .. lk : k[i] # ":"
  BY <1>2 DEF Clean
<1>11. DOMAIN whole = 1 .. Len(whole)
  BY <1>3, LenProperties
<1> HIDE DEF whole, k, v, e, s, lk, lv, a, b, N
<1>12. a \in Nat /\ a \in 1 .. Len(whole) /\ b \in 1 .. Len(whole) /\ a <= b
  BY <1>2, <1>6, <1>7
<1>13. a = 1 \/ whole[a - 1] = "|"
  <2>1. CASE n = 1
    BY <1>2, <1>7, <2>1
  <2>2. CASE n # 1
    <3>1. a - 1 = e + 1
      BY <1>2, <1>7, <2>2
    <3> QED BY <1>9, <2>2, <3>1
  <2> QED BY <2>1, <2>2
<1>14. b = Len(whole) \/ whole[b + 1] = "|"
  BY <1>1, <1>6
<1>15. <<a, b>> \in Pieces(whole)
  BY <1>8, <1>11, <1>12, <1>13, <1>14 DEF Pieces
<1>16. c \in a .. b /\ c \in Nat /\ c # 0 /\ c = e + s + lk + 1
  BY <1>2, <1>6, <1>7, <1>12
<1>17. \A i \in a .. b : whole[i] = ":" => c <= i
  <2> SUFFICES ASSUME NEW i \in a .. b, i < c
               PROVE whole[i] # ":"
    BY <1>12, <1>16
  <2> DEFINE j == i - (e + s)
  <2>1. j \in 1 .. lk /\ e + s + j = i
    BY <1>2, <1>7, <1>12, <1>16
  <2> QED BY <1>9, <1>10, <2>1
<1>18. KeyEnd(whole, <<a, b>>) = c
  <2>1. whole[c] = ":"
    BY <1>9, <1>16
  <2> QED BY <1>12, <1>16, <1>17, <2>1, KeyEndIs
<1>19. KeyOf(whole, <<a, b>>) = k
  <2> DEFINE x == SubSeq(whole, a, c - 1)
  <2>1. \A i \in a .. c - 1 : whole[i] \in C
    BY <1>3, <1>6, <1>12, <1>16, ElementOfSeq
  <2>2. /\ x \in Seq(C)
        /\ Len(x) = IF a <= c - 1 THEN (c - 1) - a + 1 ELSE 0
        /\ \A i \in 1 .. (c - 1) - a + 1 : x[i] = whole[a + i - 1]
    BY <1>12, <1>16, <2>1, SubSeqProperties
  <2>3. Len(x) = lk
    BY <1>2, <1>12, <1>16, <2>2
  <2>4. \A i \in 1 .. lk : x[i] = k[i]
    <3> TAKE i \in 1 .. lk
    <3>1. i \in 1 .. (c - 1) - a + 1 /\ a + i - 1 = e + s + i
      BY <1>2, <1>7, <1>12
    <3> QED BY <1>9, <2>2, <3>1
  <2>5. x = k
    <3> HIDE DEF x
    <3> QED BY <1>4, <2>2, <2>3, <2>4, SeqEqual DEF lk
  <2> QED BY <1>18, <2>5 DEF KeyOf
<1>20. ValueOf(whole, <<a, b>>) = v
  <2> DEFINE x == SubSeq(whole, c + 1, b)
  <2>1. \A i \in c + 1 .. b : whole[i] \in C
    BY <1>3, <1>6, <1>12, <1>16, ElementOfSeq
  <2>2. /\ x \in Seq(C)
        /\ Len(x) = IF c + 1 <= b THEN b - (c + 1) + 1 ELSE 0
        /\ \A i \in 1 .. b - (c + 1) + 1 : x[i] = whole[(c + 1) + i - 1]
    BY <1>12, <1>16, <2>1, SubSeqProperties
  <2>3. Len(x) = lv
    BY <1>2, <1>6, <1>12, <1>16, <2>2
  <2>4. \A i \in 1 .. lv : x[i] = v[i]
    <3> TAKE i \in 1 .. lv
    <3>1. i \in 1 .. b - (c + 1) + 1 /\ (c + 1) + i - 1 = e + s + lk + 1 + i
      BY <1>2, <1>6, <1>16
    <3> QED BY <1>9, <2>2, <3>1
  <2>5. x = v
    <3> HIDE DEF x
    <3> QED BY <1>4, <2>2, <2>3, <2>4, SeqEqual DEF lv
  <2> QED BY <1>18, <2>5 DEF ValueOf
<1> QED
  BY <1>15, <1>16, <1>18, <1>19, <1>20 DEF whole, k, v, a, b, Piece, N

\* No other piece starts where a pair does.
LEMMA SamePiece ==
  ASSUME NEW C, Alphabet(C), NEW pairs \in PairsOf(C), NEW t, IsText(t, pairs, C),
         NEW n \in 1 .. Len(pairs), Clean(pairs, n),
         NEW p \in Pieces(t[Len(pairs)]), p[1] = First(t, n)
  PROVE p = Piece(t, n)
<1> DEFINE N == Len(pairs)
           whole == t[N]
           a == First(t, n)
           b == Len(t[n])
<1>1. N \in Nat /\ Len(whole) \in Nat /\ b \in Nat /\ whole \in Seq(C)
  BY Lengths
<1>2. DOMAIN whole = 1 .. Len(whole)
  BY <1>1, LenProperties
<1>3. Piece(t, n) \in Pieces(whole)
  BY IsPiece
<1>4. a \in 1 .. Len(whole) /\ a <= b /\ \A i \in a .. b : whole[i] # "|"
  BY <1>2, <1>3 DEF Pieces, Piece
<1>5. /\ b <= Len(whole)
      /\ n < N => whole[b + 1] = "|"
      /\ n = N => b = Len(whole)
  BY InWhole
<1>6. /\ p = <<p[1], p[2]>>
      /\ p[2] \in 1 .. Len(whole) /\ a <= p[2]
      /\ \A i \in a .. p[2] : whole[i] # "|"
      /\ p[2] = Len(whole) \/ whole[p[2] + 1] = "|"
  BY <1>2 DEF Pieces
<1> HIDE DEF N, whole, a, b
<1>7. ~(p[2] < b)
  <2> SUFFICES ASSUME p[2] < b PROVE FALSE
    OBVIOUS
  <2>1. p[2] + 1 \in a .. b /\ p[2] # Len(whole)
    BY <1>1, <1>4, <1>5, <1>6
  <2> QED BY <1>4, <1>6, <2>1
<1>8. ~(b < p[2])
  <2> SUFFICES ASSUME b < p[2] PROVE FALSE
    OBVIOUS
  <2>1. b + 1 \in a .. p[2] /\ b # Len(whole)
    BY <1>1, <1>4, <1>6
  <2>2. n < N
    BY <1>1, <1>5, <2>1 DEF N
  <2> QED BY <1>5, <1>6, <2>1, <2>2
<1>9. p[2] = b
  BY <1>1, <1>6, <1>7, <1>8
<1> QED BY <1>6, <1>9 DEF Piece, a, b

\* As long as the pairs are clean, every piece starts where a pair does.
LEMMA Starts ==
  ASSUME NEW C, Alphabet(C), NEW pairs \in PairsOf(C), NEW t, IsText(t, pairs, C),
         NEW n \in 1 .. Len(pairs), \A k \in 1 .. n : Clean(pairs, k),
         NEW p \in Pieces(t[Len(pairs)]), p[1] <= Len(t[n])
  PROVE \E k \in 1 .. n : p[1] = First(t, k)
<1> DEFINE N == Len(pairs)
           whole == t[N]
<1>1. /\ N \in Nat /\ Len(whole) \in Nat /\ whole \in Seq(C)
      /\ \A k \in 0 .. N : Len(t[k]) \in Nat
      /\ Len(t[0]) = 0
  BY Lengths
<1>2. DOMAIN whole = 1 .. Len(whole)
  BY <1>1, LenProperties
<1>3. p[1] \in 1 .. Len(whole) /\ (p[1] = 1 \/ whole[p[1] - 1] = "|")
  BY <1>2 DEF Pieces
<1>4. CASE p[1] = 1
  <2>1. First(t, 1) = 1
    BY <1>1 DEF First, Sep
  <2> QED BY <1>1, <1>4, <2>1
<1>5. CASE p[1] # 1
  <2> DEFINE j == p[1] - 1
  <2>1. j \in 1 .. Len(t[n]) /\ t[Len(pairs)][j] = "|" /\ p[1] = j + 1
    BY <1>1, <1>3, <1>5
  <2> HIDE DEF j
  <2>2. PICK m \in 1 .. n - 1 : j = Len(t[m]) + 1
    BY <2>1, Bars
  <2>3. m + 1 \in 1 .. n /\ (m + 1) - 1 = m /\ Sep(m + 1) = 1 /\ Len(t[m]) \in Nat
    BY <1>1, <2>2 DEF Sep
  <2>4. p[1] = Len(t[m]) + 2
    BY <2>1, <2>2, <2>3
  <2>5. First(t, m + 1) = Len(t[m]) + 2
    BY <2>3 DEF First
  <2> QED BY <2>3, <2>4, <2>5
<1> QED BY <1>4, <1>5

-----------------------------------------------------------------------------
(* The round trip.                                                          *)

\* Whatever pairs are packed, the value of one whose key no earlier pair has
\* comes out as it went in, cut to its buffer, if neither it nor an earlier
\* pair holds a separator: any number of pairs, of any length
\* (cmpds_compress, cmpds_decompress_get).
THEOREM RoundTrip ==
  ASSUME NEW C, Alphabet(C), NEW pairs \in PairsOf(C), NEW n \in 1 .. Len(pairs),
         \A k \in 1 .. n : Clean(pairs, k),
         \A k \in 1 .. n - 1 : pairs[k][1] # pairs[n][1],
         NEW out, NEW size
  PROVE DecompressGet(Compress(pairs), pairs[n][1], out, size) = Cut(pairs[n][2], size)
<1>1. PICK t : IsText(t, pairs, C) /\ Compress(pairs) = t[Len(pairs)]
  BY CompressText
<1> DEFINE whole == t[Len(pairs)]
           key   == pairs[n][1]
           P     == Piece(t, n)
           named == {p \in Pieces(whole) : KeyEnd(whole, p) # 0 /\ KeyOf(whole, p) = key}
           first == CHOOSE p \in named : \A q \in named : p[1] <= q[1]
<1>2. n \in Nat /\ Len(pairs) \in Nat /\ n \in 1 .. n
  BY <1>1, Lengths
<1>3. P \in named /\ ValueOf(whole, P) = pairs[n][2]
  BY <1>1, <1>2, IsPiece
<1>4. ASSUME NEW p \in Pieces(whole)
      PROVE p[1] \in Int /\ p[1] <= p[2] /\ p[2] \in Int
  <2>1. whole \in Seq(C)
    BY <1>1, <1>2, Lengths
  <2>2. DOMAIN whole = 1 .. Len(whole) /\ Len(whole) \in Nat
    BY <2>1, LenProperties
  <2> HIDE DEF whole
  <2> QED BY <2>2 DEF Pieces
<1>5. ASSUME NEW p \in named
      PROVE ~(p[1] < P[1])
  <2> SUFFICES ASSUME p[1] < P[1] PROVE FALSE
    OBVIOUS
  <2>1. p \in Pieces(whole) /\ P \in Pieces(whole)
    BY <1>3
  <2>2. p[1] <= Len(t[n])
    <3>1. P[1] <= P[2] /\ P[1] \in Int /\ P[2] \in Int /\ p[1] \in Int
      BY <1>4, <2>1
    <3>2. P[2] = Len(t[n])
      BY DEF Piece
    <3> HIDE DEF P
    <3> QED BY <3>1, <3>2
  <2>3. PICK k \in 1 .. n : p[1] = First(t, k)
    BY <1>1, <2>1, <2>2, Starts
  <2>4. k # n
    <3>1. P[1] = First(t, n)
      BY DEF Piece
    <3>2. p[1] # P[1]
      BY <1>4, <2>1
    <3> QED BY <2>3, <3>1, <3>2
  <2>5. k \in 1 .. n - 1 /\ k \in 1 .. Len(pairs)
    BY <1>2, <2>4
  <2>6. p = Piece(t, k)
    BY <1>1, <2>1, <2>3, <2>5, SamePiece
  <2>7. KeyOf(whole, p) = pairs[k][1]
    BY <1>1, <2>5, <2>6, IsPiece
  <2> QED BY <2>5, <2>7
<1>6. first \in named /\ \A q \in named : first[1] <= q[1]
  <2>1. \A q \in named : P[1] <= q[1]
    BY <1>3, <1>4, <1>5
  <2> HIDE DEF named, P
  <2> QED BY <1>3, <2>1
<1>7. first[1] = P[1]
  <2>1. first[1] <= P[1] /\ ~(first[1] < P[1])
    BY <1>3, <1>5, <1>6
  <2>2. first[1] \in Int /\ P[1] \in Int
    BY <1>3, <1>4, <1>6
  <2> HIDE DEF first, P
  <2> QED BY <2>1, <2>2
<1>8. first = P
  <2>1. first \in Pieces(whole) /\ first[1] = First(t, n)
    BY <1>6, <1>7 DEF Piece
  <2> HIDE DEF first
  <2> QED BY <1>1, <1>2, <2>1, SamePiece
<1>9. DecompressGet(whole, key, out, size) = IF named = {} THEN out ELSE Cut(ValueOf(whole, first), size)
  BY DEF DecompressGet
<1>10. named # {}
  BY <1>3
<1> HIDE DEF named, first, P
<1> QED BY <1>1, <1>3, <1>8, <1>9, <1>10

-----------------------------------------------------------------------------
(* The mode request.                                                        *)

\* The three fields are pairs of strings with keys of their own.
LEMMA FieldsPairs ==
  ASSUME NEW sent \in [1 .. 3 -> Seq(Char)]
  PROVE /\ Fields(sent) \in PairsOf(Char)
        /\ Len(Fields(sent)) = 3
        /\ \A n \in 1 .. 3 : Fields(sent)[n] = <<FieldKeys[n], sent[n]>>
<1> DEFINE P == Seq(Char) \X Seq(Char)
           f(n) == <<FieldKeys[n], sent[n]>>
<1>1. \A n \in 1 .. 3 : FieldKeys[n] \in Seq(Char)
  <2>1. <<"m">> \in Seq(Char) /\ <<"s">> \in Seq(Char) /\ <<"p">> \in Seq(Char)
    BY CharAssumption
  <2>2. /\ FieldKeys[1] = <<"m">>
        /\ FieldKeys[2] = <<"s">>
        /\ FieldKeys[3] = <<"p">>
    BY DEF FieldKeys
  <2> TAKE n \in 1 .. 3
  <2>3. n = 1 \/ n = 2 \/ n = 3
    OBVIOUS
  <2> QED BY <2>1, <2>2, <2>3
<1>2. \A n \in 1 .. 3 : f(n) \in P
  BY <1>1
<1>3. \A n \in 1 .. 3 : Fields(sent)[n] = f(n)
  BY DEF Fields
<1> HIDE DEF P, f
<1>4. Fields(sent) = <<f(1), f(2), f(3)>>
  BY <1>3 DEF Fields
<1>5. <<f(1), f(2), f(3)>> \in Seq(P) /\ Len(<<f(1), f(2), f(3)>>) = 3
  BY <1>2
<1> QED BY <1>3, <1>4, <1>5 DEF PairsOf, P, f

\* The state of a request that has been sent.
Received(sent) ==
  [sent |-> sent,
   got  |-> [n \in 1 .. 3 |->
               DecompressGet(Compress(Fields(sent)), FieldKeys[n], <<>>, OutSizes[n])]]

\* What a request sends arrives.
LEMMA Arrives ==
  ASSUME NEW sent \in [1 .. 3 -> Seq(Char)], NEW n \in 1 .. 3,
         \A k \in 1 .. n : \A c \in DOMAIN sent[k] : sent[k][c] # "|"
  PROVE Received(sent).got[n] = Cut(sent[n], OutSizes[n])
<1> DEFINE pairs == Fields(sent)
<1>1. /\ pairs \in PairsOf(Char) /\ Len(pairs) = 3
      /\ \A k \in 1 .. 3 : pairs[k] = <<FieldKeys[k], sent[k]>>
  BY FieldsPairs
<1> HIDE DEF pairs
<1>2. Alphabet(Char)
  BY CharAssumption DEF Alphabet
<1>3. \A k \in 1 .. 3 : \A i \in DOMAIN FieldKeys[k] : FieldKeys[k][i] \notin {"|", ":"}
  BY DEF FieldKeys
<1>4. \A k \in 1 .. n : Clean(pairs, k)
  BY <1>1, <1>3 DEF Clean
<1>5. \A k \in 1 .. n - 1 : FieldKeys[k] # FieldKeys[n]
  BY DEF FieldKeys
<1>6. \A k \in 1 .. n - 1 : pairs[k][1] # pairs[n][1]
  BY <1>1, <1>5
<1>7. n \in 1 .. Len(pairs)
  BY <1>1
<1>8. \A out, size : DecompressGet(Compress(pairs), pairs[n][1], out, size) = Cut(pairs[n][2], size)
  BY <1>1, <1>2, <1>4, <1>6, <1>7, RoundTrip
<1> QED BY <1>1, <1>8 DEF Received, pairs

\* Nothing has been sent yet, or three strings have.
Sent == packed = NotPacked \/ \E sent \in [1 .. 3 -> Seq(Char)] : packed = Received(sent)

\* Every field of every mode request reaches the service whole, or cut to its
\* buffer, unless it or an earlier one holds a separator: for any strings and
\* any sizes of the buffers (json_post_wifi_mode,
\* wifi_srv_mode_change_handler).
THEOREM RequestArrives == RequestSpec => []FieldsArrive
<1>1. RequestInit => Sent
  BY DEF RequestInit, Sent
<1>2. Sent /\ [RequestNext]_packed => Sent'
  BY DEF Sent, RequestNext, Send, Received, NotPacked
<1>3. Sent => FieldsArrive
  <2> SUFFICES ASSUME Sent, NEW n \in DOMAIN packed.sent,
                      \A k \in 1 .. n : \A c \in DOMAIN packed.sent[k] : packed.sent[k][c] # "|"
               PROVE packed.got[n] = Cut(packed.sent[n], OutSizes[n])
    BY DEF FieldsArrive
  <2>1. CASE packed = NotPacked
    BY <2>1 DEF NotPacked
  <2>2. ASSUME NEW sent \in [1 .. 3 -> Seq(Char)], packed = Received(sent)
        PROVE packed.got[n] = Cut(packed.sent[n], OutSizes[n])
    <3>1. packed.sent = sent
      BY <2>2 DEF Received
    <3>2. n \in 1 .. 3
      BY <3>1
    <3> QED BY <2>2, <3>1, <3>2, Arrives
  <2> QED BY <2>1, <2>2 DEF Sent
<1> QED BY <1>1, <1>2, <1>3, PTL DEF RequestSpec
=============================================================================

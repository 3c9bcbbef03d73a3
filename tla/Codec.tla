-------------------------------- MODULE Codec --------------------------------
(***************************************************************************)
(* The payload in which the HTTP handler packs its fields and from which   *)
(* the Wi-Fi service takes them: "key:value|key:value"                     *)
(* (comp_decomp_data.h).  Keys and values are sequences of characters.     *)
(***************************************************************************)
EXTENDS Integers, Sequences

\* Mutant: the pairs one behind the other, without a separator.
PairUnseparated(pairs, n) == pairs[n][1] \o <<":">> \o pairs[n][2]

\* What the n-th pair adds to the text.
Pair(pairs, n) ==
  (IF n = 1 THEN <<>> ELSE <<"|">>) \o pairs[n][1] \o <<":">> \o pairs[n][2]

Compress(pairs) ==
  LET text[n \in 0 .. Len(pairs)] ==
        IF n = 0 THEN <<>> ELSE text[n - 1] \o Pair(pairs, n)
  IN  text[Len(pairs)]

\* strtok_r: the longest pieces without a "|", empty ones left out, in order:
\* each is <<first, last>>.
Pieces(text) ==
  {p \in (DOMAIN text) \X (DOMAIN text) :
     /\ p[1] <= p[2]
     /\ \A n \in p[1] .. p[2] : text[n] # "|"
     /\ p[1] = 1 \/ text[p[1] - 1] = "|"
     /\ p[2] = Len(text) \/ text[p[2] + 1] = "|"}

\* The first colon of a piece ends its key.
KeyEnd(text, p) ==
  LET colons == {n \in p[1] .. p[2] : text[n] = ":"}
  IN  IF colons = {} THEN 0 ELSE CHOOSE n \in colons : \A k \in colons : n <= k

KeyOf(text, p)   == SubSeq(text, p[1], KeyEnd(text, p) - 1)
ValueOf(text, p) == SubSeq(text, KeyEnd(text, p) + 1, p[2])

\* snprintf into a buffer of size.
Cut(value, size) == SubSeq(value, 1, IF Len(value) < size THEN Len(value) ELSE size - 1)

\* The value of the first piece called key, cut to its buffer; what is in out
\* stays when there is none.
DecompressGet(text, key, out, size) ==
  LET named == {p \in Pieces(text) : KeyEnd(text, p) # 0 /\ KeyOf(text, p) = key}
      first == CHOOSE p \in named : \A q \in named : p[1] <= q[1]
  IN  IF named = {} THEN out ELSE Cut(ValueOf(text, first), size)
=============================================================================

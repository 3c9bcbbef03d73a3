------------------------------ MODULE CJsonUtils ------------------------------
(***************************************************************************)
(* JSON pointers, patches and merge patches over the documents of CJson    *)
(* (cJSON_Utils.c).  A pointer is the sequence of its characters.  A patch *)
(* is [op, path, from, value]; its value is a struct of the heap, the      *)
(* patch itself and its strings lie outside.  cs: exact, or in any case.   *)
(***************************************************************************)
EXTENDS CJson

Digits == <<"0", "1", "2", "3", "4", "5", "6", "7">>
\* Lists here are shorter than the digits: an index is one of them.
Index(n) == <<Digits[n + 1]>>

MinOf(S) == CHOOSE x \in S : \A y \in S : x <= y
MaxOf(S) == CHOOSE x \in S : \A y \in S : x >= y

-----------------------------------------------------------------------------
(* Pointers.                                                                *)

RECURSIVE Encode(_)
Encode(s) ==
  IF s = <<>> THEN <<>>
  ELSE (CASE Head(s) = "/" -> <<"~", "1">> [] Head(s) = "~" -> <<"~", "0">>
          [] OTHER -> <<Head(s)>>) \o Encode(Tail(s))

\* decode_pointer_inplace: w is written at position at, read from position n
\* on.  Only escapes are written, ~1 a place too far.
RECURSIVE DecodeFrom(_, _, _)
DecodeFrom(s, n, at) ==
  IF n > Len(s) THEN SubSeq(s, 1, at - 1)
  ELSE IF s[n] # "~" THEN DecodeFrom(s, n + 1, at + 1)
  ELSE IF n < Len(s) /\ s[n + 1] = "0" THEN DecodeFrom([s EXCEPT ![at] = "~"], n + 2, at + 1)
  ELSE IF n < Len(s) /\ s[n + 1] = "1" THEN DecodeFrom([s EXCEPT ![at + 1] = "/"], n + 2, at + 1)
  ELSE s
Decode(s) == DecodeFrom(s, 1, 1)

\* The characters of s up to the next "/", and the pointer from there on.
TokenEnd(s) == MinOf({n \in DOMAIN s : s[n] = "/"} \cup {Len(s) + 1})
Token(s)    == SubSeq(s, 1, TokenEnd(s) - 1)
Behind(s)   == SubSeq(s, TokenEnd(s), Len(s))

RECURSIVE Matches(_, _, _)
\* compare_pointers: the name against an escaped token.
Matches(name, token, cs) ==
  IF name = <<>> \/ token = <<>> THEN name = token
  ELSE IF Head(token) = "~"
  THEN /\ Len(token) > 1
       /\ <<token[2], Head(name)>> \in {<<"0", "~">>, <<"1", "/">>}
       /\ Matches(Tail(name), SubSeq(token, 3, Len(token)), cs)
  ELSE /\ Diff(<<Head(name)>>, <<Head(token)>>, cs) = 0
       /\ Matches(Tail(name), Tail(token), cs)

\* decode_array_index_from_pointer: -1 where it fails.  What stands behind a
\* first digit counts as one, if only it is not below "0".
Value(c) == Code[c] - Code["0"]
DecodeIndex(token) ==
  LET number[n \in 0 .. Len(token)] ==
        IF n = 0 THEN 0 ELSE 10 * number[n - 1] + Value(token[n])
  IN  IF token = <<>> THEN 0
      ELSE IF \/ token[1] = "0" /\ Len(token) > 1
              \/ Value(token[1]) >= Len(Digits)
              \/ \E n \in DOMAIN token : Value(token[n]) < 0
      THEN -1 ELSE number[Len(token)]

RECURSIVE GetPointer(_, _, _, _)
GetPointer(h, i, path, cs) ==
  LET token == Token(Tail(path))
      c     == Members(h, i)
      hit   == {n \in DOMAIN c : h.at[c[n]].key # NoKey /\ Matches(h.at[c[n]].key, token, cs)}
      next  == CASE h.at[i].type = "Array"  -> GetArrayItem(h, i, DecodeIndex(token))
                 [] h.at[i].type = "Object" -> IF hit = {} THEN Null ELSE c[MinOf(hit)]
                 [] OTHER -> Null
  IN  IF i = Null \/ path = <<>> \/ path[1] # "/" THEN i
      ELSE GetPointer(h, next, Behind(Tail(path)), cs)

NoPointer == <<"NULL">>
\* Mutant: a member is named by its key as it stands.
RECURSIVE FindPointerRaw(_, _, _)
FindPointerRaw(h, i, target) ==
  LET c   == Members(h, i)
      hit == {n \in DOMAIN c : FindPointerRaw(h, c[n], target) # NoPointer}
      n   == MinOf(hit)
  IN  IF i = target THEN <<>>
      ELSE IF hit = {} \/ h.at[i].type \notin Containers THEN NoPointer
      ELSE <<"/">> \o (IF h.at[i].type = "Array" THEN Index(n - 1) ELSE h.at[c[n]].key)
                   \o FindPointerRaw(h, c[n], target)

RECURSIVE FindPointer(_, _, _)
\* cJSONUtils_FindPointerFromObjectTo
FindPointer(h, i, target) ==
  LET c   == Members(h, i)
      hit == {n \in DOMAIN c : FindPointer(h, c[n], target) # NoPointer}
      n   == MinOf(hit)
  IN  IF i = target THEN <<>>
      ELSE IF hit = {} \/ h.at[i].type \notin Containers THEN NoPointer
      ELSE <<"/">> \o (IF h.at[i].type = "Array" THEN Index(n - 1)
                       ELSE Encode(h.at[c[n]].key))
                   \o FindPointer(h, c[n], target)

-----------------------------------------------------------------------------
(* Sorting.  Lists are known by their first member.                         *)

RECURSIVE Merge(_, _, _, _, _, _), SortList(_, _, _)
\* The smaller head next, behind last; on equal keys that of the second list.
Merge(h, head, last, a, b, cs) ==
  LET least == IF Diff(h.at[a].key, h.at[b].key, cs) < 0 THEN a ELSE b
      rest  == IF a = Null THEN b ELSE a
      link(x) == IF last = Null THEN h ELSE Suffix(h, last, x)
  IN  IF Null \in {a, b}
      THEN IF rest = Null THEN Result(h, head)
           ELSE Result(link(rest), IF last = Null THEN rest ELSE head)
      ELSE Merge(link(least), IF last = Null THEN least ELSE head, least,
                 IF least = a THEN h.at[a].next ELSE a,
                 IF least = b THEN h.at[b].next ELSE b, cs)

Join(a, right, cs)       == Merge(right.h, Null, Null, a, right.r, cs)
SortRest(left, half, cs) == Join(left.r, SortList(left.h, half, cs), cs)

SortList(h, head, cs) ==
  LET c     == Chain(h, head)
      half  == c[Len(c) - (Len(c) \div 2) + 1]
      split == [h EXCEPT !.at[h.at[half].prev].next = Null, !.at[half].prev = Null]
  IN  IF \A n \in 1 .. Len(c) - 1 : Diff(h.at[c[n]].key, h.at[c[n + 1]].key, cs) < 0
      THEN Result(h, head)
      ELSE SortRest(SortList(split, head, cs), half, cs)

\* The first member's prev stays what it was in its half of the list.
SortObject(h, o, cs) == IF o = Null THEN h
                       ELSE LET s == SortList(h, h.at[o].child, cs) IN WithChild(s.h, o, s.r)

\* The order in which compare_json, create_patches and generate_merge_patch
\* look at two objects: both sorted.
SortBoth(h, a, b, cs) == SortObject(SortObject(h, a, cs), b, cs)

RECURSIVE CompareJson(_, _, _, _), ComparePairs(_, _, _, _, _)
CompareMembers(h, a, b, keys, cs) == ComparePairs(h, h.at[a].child, h.at[b].child, keys, cs)

CompareJson(h, a, b, cs) ==
  IF Null \in {a, b} THEN Result(h, FALSE)
  ELSE IF h.at[a].type # h.at[b].type THEN Result(h, FALSE)
  ELSE IF h.at[a].type = "Array" THEN CompareMembers(h, a, b, FALSE, cs)
  ELSE IF h.at[a].type = "Object" THEN CompareMembers(SortBoth(h, a, b, cs), a, b, TRUE, cs)
  ELSE Result(h, h.at[a].val = h.at[b].val)

ComparePairs(h, a, b, keys, cs) ==
  LET pair == CompareJson(h, a, b, cs)
  IN  IF Null \in {a, b} THEN Result(h, a = b)
      ELSE IF keys /\ Diff(h.at[a].key, h.at[b].key, cs) # 0 THEN Result(h, FALSE)
      ELSE IF ~pair.r THEN pair
      ELSE ComparePairs(pair.h, pair.h.at[a].next, pair.h.at[b].next, keys, cs)

-----------------------------------------------------------------------------
(* Applying one patch.                                                      *)

\* What stands before the last "/" of a path, and what behind it.
LastSlash(path) == MaxOf({n \in DOMAIN path : path[n] = "/"})
HasSlash(path)  == \E n \in DOMAIN path : path[n] = "/"
ParentOf(path)  == SubSeq(path, 1, LastSlash(path) - 1)
ChildOf(path)   == Decode(SubSeq(path, LastSlash(path) + 1, Len(path)))

\* The member is looked up in any case, whatever cs says.
ChildItem(h, p, child) ==
  IF IsA(h, p, "Array") THEN GetArrayItem(h, p, DecodeIndex(child))
  ELSE IF IsA(h, p, "Object") THEN GetObjectItem(h, p, child, FALSE)
  ELSE Null
Detached(h, p, i) == Result(DetachItemViaPointer(h, p, i), i)
DetachChild(h, p, child) == Detached(h, p, ChildItem(h, p, child))
DetachPath(h, root, path, cs) ==
  IF HasSlash(path) THEN DetachChild(h, GetPointer(h, root, ParentOf(path), cs), ChildOf(path))
  ELSE Result(h, Null)

DeleteDetached(d)         == Delete(d.h, d.r)
DeleteMember(h, o, k, cs) == DeleteDetached(Detached(h, o, GetObjectItem(h, o, k, cs)))

Overwrite(h, root, with) ==
  LET gone == Delete(h, h.at[root].child)
  IN  [gone EXCEPT !.at[root] = [gone.at[with] EXCEPT !.key = NoKey], !.at[with] = Free]

\* Mutant: an item past the end is appended before the index is refused.
InsertIndexedAnyway(h, a, n, i) ==
  LET c == Members(h, a)
  IN  IF n = -1 THEN Result(Delete(h, i), 11)
      ELSE IF n >= Len(c) THEN Result(AddItemToArray(h, a, i).h, IF n = Len(c) THEN 0 ELSE 10)
      ELSE Result(Insert(h, a, c[n + 1], i), 0)

InsertIndexed(h, a, n, i) ==
  LET c == Members(h, a)
  IN  IF n = -1 THEN Result(Delete(h, i), 11)
      ELSE IF n > Len(c) THEN Result(Delete(h, i), 10)
      ELSE IF n = Len(c) THEN Result(AddItemToArray(h, a, i).h, 0)
      ELSE Result(Insert(h, a, c[n + 1], i), 0)

\* Put the detached item i under p; it is deleted on failure, but for the one
\* that nobody sees.
PutUnder(h, p, child, i, cs) ==
  IF IsA(h, p, "Array") /\ child = <<"-">> THEN Result(AddItemToArray(h, p, i).h, 0)
  ELSE IF IsA(h, p, "Array") THEN InsertIndexed(h, p, DecodeIndex(child), i)
  ELSE IF IsA(h, p, "Object")
  THEN Result(AddUnseen(DeleteMember(h, p, child, cs), p, child, i), 0)
  ELSE Result(Delete(h, i), 9)

PutAt(h, root, path, i, cs) ==
  IF HasSlash(path)
  THEN PutUnder(h, GetPointer(h, root, ParentOf(path), cs), ChildOf(path), i, cs)
  ELSE Result(Delete(h, i), 9)

\* What a patch puts in: r with the status of failing to get it.
PutResult(r, root, patch, failed, cs) ==
  IF r.r = Null THEN Result(r.h, failed) ELSE PutAt(r.h, root, patch.path, r.r, cs)
OverwriteResult(r, root, failed) ==
  IF r.r = Null THEN Result(r.h, failed) ELSE Result(Overwrite(r.h, root, r.r), 0)
Tested(r)  == Result(r.h, IF r.r THEN 0 ELSE 1)
Removed(d) == Result(DeleteDetached(d), IF d.r = Null THEN 13 ELSE 0)
Replaced(r, root, patch, failed, cs) ==
  IF r.r = 0 THEN PutResult(Duplicate(r.h, patch.value, TRUE), root, patch, failed, cs) ELSE r
Copied(h, i, root, patch, cs) ==
  PutResult(Duplicate(h, i, TRUE), root, patch, IF i = Null THEN 5 ELSE 6, cs)

ApplyPatch(h, root, patch, cs) ==
  LET failed  == IF patch.value = Null THEN 7 ELSE 8
      removed == Removed(DetachPath(h, root, patch.path, cs))
  IN  IF patch.path = NoPointer THEN Result(h, 2)
      ELSE IF patch.op = "invalid" THEN Result(h, 3)
      ELSE IF patch.op = "test"
      THEN Tested(CompareJson(h, GetPointer(h, root, patch.path, cs), patch.value, cs))
      ELSE IF patch.path = <<>> /\ patch.op = "remove"
      THEN Result([Delete(h, h.at[root].child) EXCEPT !.at[root] = Blank], 0)
      ELSE IF patch.path = <<>> /\ patch.op \in {"add", "replace"}
      THEN OverwriteResult(Duplicate(h, patch.value, TRUE), root, failed)
      ELSE IF patch.op \in {"move", "copy"} /\ patch.from = NoPointer THEN Result(h, 4)
      ELSE CASE patch.op = "remove"  -> removed
             [] patch.op = "replace" -> Replaced(removed, root, patch, failed, cs)
             [] patch.op = "add"     ->
                  PutResult(Duplicate(h, patch.value, TRUE), root, patch, failed, cs)
             [] patch.op = "move"    ->
                  PutResult(DetachPath(h, root, patch.from, cs), root, patch, 5, cs)
             [] patch.op = "copy"    ->
                  Copied(h, GetPointer(h, root, patch.from, cs), root, patch, cs)

-----------------------------------------------------------------------------
(* Generating patches.  P is [h, patches].                                  *)

\* The value is added to the patch under a name, unseen.
Composed(P, op, path, copy) ==
  LET named == copy.r # Null /\ ~Refused(copy.h)
      value == IF named THEN copy.r ELSE Null
  IN  [h |-> IF named THEN Grants(copy.h)
             ELSE IF copy.r = Null THEN copy.h ELSE [Fails(copy.h) EXCEPT !.leaked = @ \cup {copy.r}],
       patches |-> Append(P.patches, [op |-> op, path |-> path, from |-> <<>>, value |-> value])]
Compose(P, op, path, value) == Composed(P, op, path, Duplicate(P.h, value, TRUE))

RECURSIVE CreatePatches(_, _, _, _, _), PatchElements(_, _, _, _, _, _),
          PatchMembers(_, _, _, _, _)
PatchObject(P, path, from, to, cs) ==
  PatchMembers(P, path, P.h.at[from].child, P.h.at[to].child, cs)
NextElements(P, path, f, t, n, cs) ==
  PatchElements(P, path, P.h.at[f].next, P.h.at[t].next, n + 1, cs)
NextMembers(P, path, f, t, cs) == PatchMembers(P, path, P.h.at[f].next, P.h.at[t].next, cs)

CreatePatches(P, path, from, to, cs) ==
  LET a == P.h.at[from]
      b == P.h.at[to]
  IN  IF a.type # b.type THEN Compose(P, "replace", path, to)
      ELSE IF a.type = "Array" THEN PatchElements(P, path, a.child, b.child, 0, cs)
      ELSE IF a.type = "Object"
      THEN PatchObject([P EXCEPT !.h = SortBoth(P.h, from, to, cs)], path, from, to, cs)
      ELSE IF a.val # b.val THEN Compose(P, "replace", path, to)
      ELSE P

\* Mutant: the index goes on while leftover elements are removed.
PatchElementsOn(P, path, f, t, n, cs) ==
  LET at == path \o <<"/">> \o Index(n)
  IN  IF f # Null /\ t # Null
      THEN NextElements(CreatePatches(P, at, f, t, cs), path, f, t, n, cs)
      ELSE IF f # Null
      THEN PatchElements(Compose(P, "remove", at, Null), path, P.h.at[f].next, t, n + 1, cs)
      ELSE IF t # Null
      THEN PatchElements(Compose(P, "add", path \o <<"/", "-">>, t), path, f, P.h.at[t].next, n, cs)
      ELSE P

\* Element by element; what is left of from goes from the same index.
PatchElements(P, path, f, t, n, cs) ==
  LET at == path \o <<"/">> \o Index(n)
  IN  IF f # Null /\ t # Null
      THEN NextElements(CreatePatches(P, at, f, t, cs), path, f, t, n, cs)
      ELSE IF f # Null
      THEN PatchElements(Compose(P, "remove", at, Null), path, P.h.at[f].next, t, n, cs)
      ELSE IF t # Null
      THEN PatchElements(Compose(P, "add", path \o <<"/", "-">>, t), path, f, P.h.at[t].next, n, cs)
      ELSE P

PatchMembers(P, path, f, t, cs) ==
  LET diff  == IF f = Null THEN 1 ELSE IF t = Null THEN -1
               ELSE Diff(P.h.at[f].key, P.h.at[t].key, cs)
      at(i) == path \o <<"/">> \o Encode(P.h.at[i].key)
  IN  IF f = Null /\ t = Null THEN P
      ELSE IF diff = 0
      THEN NextMembers(CreatePatches(P, at(f), f, t, cs), path, f, t, cs)
      ELSE IF diff < 0
      THEN PatchMembers(Compose(P, "remove", at(f), Null), path, P.h.at[f].next, t, cs)
      ELSE PatchMembers(Compose(P, "add", at(t), t), path, f, P.h.at[t].next, cs)

GeneratePatches(h, from, to, cs) == CreatePatches([h |-> h, patches |-> <<>>], <<>>, from, to, cs)

-----------------------------------------------------------------------------
(* Merge patches.                                                           *)

\* The result, which may be NULL, as a member of o, which may be NULL too.
Added(r, o, key) == AddUnseen(r.h, o, key, r.r)

RECURSIVE MergePatch(_, _, _, _), MergeMembers(_, _, _, _)
MergeInto(made, patch, cs) == MergeMembers(made.h, made.r, made.h.at[patch].child, cs)
MergePatch(h, target, patch, cs) ==
  IF ~IsA(h, patch, "Object") THEN Duplicate(Delete(h, target), patch, TRUE)
  ELSE IF IsA(h, target, "Object") THEN MergeInto(Result(h, target), patch, cs)
  ELSE MergeInto(Create(Delete(h, target), "Object", <<>>), patch, cs)

\* Into target, the members of the patch from i on; new replaces the old one.
MergeOld(d, i, cs) == MergePatch(d.h, d.r, i, cs)
MergeNew(new, target, i, cs) ==
  IF new.r = Null THEN Result(Delete(new.h, target), Null)
  ELSE MergeMembers(Added(new, target, new.h.at[i].key), target, new.h.at[i].next, cs)
MergeMembers(h, target, i, cs) ==
  LET key == h.at[i].key
      old == IF target = Null THEN Null ELSE GetObjectItem(h, target, key, cs)
  IN  IF i = Null THEN Result(h, target)
      ELSE IF h.at[i].type = "NULL"
      THEN MergeMembers(IF target = Null THEN h ELSE DeleteMember(h, target, key, cs),
                        target, h.at[i].next, cs)
      ELSE MergeNew(MergeOld(Detached(h, target, old), i, cs), target, i, cs)

RECURSIVE GenerateMerge(_, _, _, _), MergeDifferences(_, _, _, _, _)
OrNone(h, patch) ==
  IF h.at[patch].child = Null THEN Result(Delete(h, patch), Null) ELSE Result(h, patch)
MergeObjects(made, from, to, cs) ==
  IF made.r = Null THEN made
  ELSE OrNone(MergeDifferences(made.h, made.r, made.h.at[from].child, made.h.at[to].child, cs),
              made.r)
GenerateMerge(h, from, to, cs) ==
  IF ~IsA(h, to, "Object") \/ ~IsA(h, from, "Object") THEN Duplicate(h, to, TRUE)
  ELSE MergeObjects(Create(SortBoth(h, from, to, cs), "Object", <<>>), from, to, cs)

\* A common member is merged in any case, and left out where nothing differs.
MergeCommon(same, patch, f, t) ==
  IF same.r THEN same.h
  ELSE Added(GenerateMerge(same.h, f, t, FALSE), patch, same.h.at[t].key)
NextDifferences(h, patch, f, t, cs) == MergeDifferences(h, patch, h.at[f].next, h.at[t].next, cs)

\* Mutant: a member that only from has is left out.
MergeDifferencesKeep(h, patch, f, t, cs) ==
  LET diff == IF f = Null THEN 1 ELSE IF t = Null THEN -1
              ELSE Diff(h.at[f].key, h.at[t].key, TRUE)
  IN  IF f = Null /\ t = Null THEN h
      ELSE IF diff < 0 THEN MergeDifferences(h, patch, h.at[f].next, t, cs)
      ELSE IF diff > 0
      THEN MergeDifferences(Added(Duplicate(h, t, TRUE), patch, h.at[t].key),
                            patch, f, h.at[t].next, cs)
      ELSE NextDifferences(MergeCommon(CompareJson(h, f, t, cs), patch, f, t), patch, f, t, cs)

\* The members from f and t on, matched in strcmp's order; a member that only
\* from has becomes NULL.
MergeDifferences(h, patch, f, t, cs) ==
  LET diff == IF f = Null THEN 1 ELSE IF t = Null THEN -1
              ELSE Diff(h.at[f].key, h.at[t].key, TRUE)
  IN  IF f = Null /\ t = Null THEN h
      ELSE IF diff < 0
      THEN MergeDifferences(Added(Create(h, "NULL", <<>>), patch, h.at[f].key),
                            patch, h.at[f].next, t, cs)
      ELSE IF diff > 0
      THEN MergeDifferences(Added(Duplicate(h, t, TRUE), patch, h.at[t].key),
                            patch, f, h.at[t].next, cs)
      ELSE NextDifferences(MergeCommon(CompareJson(h, f, t, cs), patch, f, t), patch, f, t, cs)
=============================================================================

------------------------------- MODULE JsonDocs -------------------------------
(***************************************************************************)
(* A program that uses cJSON and cJSON_Utils on two parsed documents: it   *)
(* builds, moves, replaces, deletes, duplicates, sorts, compares; makes a  *)
(* patch (or merge patch) that leads from one document to the other and    *)
(* applies it; and packs the fields of a mode request for the Wi-Fi        *)
(* service, as post_wifi_mode_handler does.                                *)
(*                                                                         *)
(* The caller is a legal one: it uses live structs, puts only documents it *)
(* holds into others, never one into itself, gives the members of objects  *)
(* names, and leaves alone what a reference shows.                         *)
(***************************************************************************)
EXTENDS CJsonUtils, ModeRequest

CONSTANTS
  Pairs,        \* of texts to parse
  Requests,     \* mode requests, <<mode, ssid, pass>>
  Sizes,        \* the number of structs the heap may hold
  Keys,         \* keys of added members
  Paths,        \* pointers of the patches written by hand
  Fail,         \* the allocations of a call that may fail, one in each; 0: none
  MaxCalls      \* bound on the calls before the documents are left

VARIABLES
  h,        \* the heap
  held,     \* roots the caller holds
  calls,    \* calls so far
  sorted,   \* a list has been put in another order
  job       \* the patch or merge under way

vars == <<h, held, calls, sorted, job, packed>>

NoJob == [kind |-> "none"]

Lists    == {p \in Live(h) : h.at[p].type \in Containers /\ ~h.at[p].ref}
MembersOf(p) == {Members(h, p)[n] : n \in DOMAIN Members(h, p)}

RECURSIVE Tree(_, _), Trees(_, _)
\* The structs that cJSON_Delete(i) frees, in order; and those of several.
Tree(x, i) == <<i>> \o IF x.at[i].ref THEN <<>> ELSE Trees(x, Members(x, i))
Trees(x, is) == IF is = <<>> THEN <<>> ELSE Tree(x, Head(is)) \o Trees(x, Tail(is))

StructsOf(root) == LET t == Tree(h, root) IN {t[n] : n \in DOMAIN t}
In(i, root)     == i \in StructsOf(root)

RECURSIVE Document(_, _, _)
\* What the caller has in i, without the order of members: the reference.
Document(x, i, cs) ==
  LET c    == Members(x, i)
      k(n) == IF x.at[i].type = "Array" THEN <<"#">> \o Index(n - 1)
              ELSE LET key == x.at[c[n]].key IN [j \in DOMAIN key |-> IF cs THEN key[j] ELSE Lower[key[j]]]
  IN  [type |-> x.at[i].type, val |-> x.at[i].val,
       kids |-> {<<k(n), Document(x, c[n], cs)>> : n \in DOMAIN c}]

\* The links of a list agree.
Chained(x, p) == LET c == Members(x, p) IN \A n \in 2 .. Len(c) : x.at[c[n]].prev = c[n - 1]

-----------------------------------------------------------------------------
(* Building and editing.                                                    *)

\* What the caller can reach.
Leaked  == UNION {StructsOf(r) : r \in h.leaked}
Mine    == Live(h) \ Leaked
Parents == Lists \ Leaked
Of(t)   == {p \in Parents : h.at[p].type = t}

References == {r \in Live(h) : h.at[r].ref}
Shown(i)   == \E r \in References : ~In(r, i) /\ h.at[r].child # Null /\ In(h.at[r].child, i)
Frozen(p)  == \E r \in References : h.at[r].child \in MembersOf(p)
Legal      == job = NoJob /\ ~h.lost /\ packed = NotPacked /\ calls < MaxCalls

Called == Legal /\ calls' = calls + 1
Only   == Called /\ References = {}
Stays  == UNCHANGED <<sorted, job, packed>>

\* The heap a call finds, and leaves.
Before   == {[h EXCEPT !.fails = n] : n \in Fail}
After(x) == [x EXCEPT !.fails = 0]

\* The caller then holds the result; or gives i away, if the call succeeds.
Keeps(r)    == h' = After(r.h) /\ held' = held \cup ({r.r} \ {Null})
Gives(r, i) == h' = After(r.h) /\ held' = IF r.r THEN held \ {i} ELSE held

CreateItem ==
  /\ Only
  /\ \E x \in Before, t \in {"Number", "Object"} :
       Keeps(Create(x, t, <<>>))
  /\ Stays

CreateArrayOf ==
  /\ Only
  /\ \E x \in Before, count \in {0, 2} : Keeps(CreateIntArray(x, count))
  /\ Stays

AddToArray ==
  /\ Only
  /\ \E a \in Of("Array"), i \in held :
       /\ a = i \/ ~In(a, i)
       /\ Gives(AddItemToArray(h, a, i), i)
  /\ Stays

AddToObject ==
  /\ Only
  /\ \E x \in Before, o \in Of("Object"), i \in held, k \in Keys :
       /\ o = i \/ ~In(o, i)
       /\ Gives(AddItemToObject(x, o, k, i), i)
  /\ Stays

AddNew ==
  /\ Only
  /\ \E x \in Before, o \in Of("Object"), k \in Keys :
       h' = After(AddNewToObject(x, o, k, "NULL").h)
  /\ UNCHANGED held /\ Stays

\* The caller cannot get at a reference that is refused.
AddReference ==
  /\ Only
  /\ \E x \in Before, p \in Parents, i \in Mine :
       /\ ~In(p, i)
       /\ LET r == CreateReference(x, i)
          IN  h' = After(IF h.at[p].type = "Array" THEN AddItemToArray(r.h, p, r.r).h
                         ELSE AddUnseen(r.h, p, <<"c">>, r.r))
  /\ UNCHANGED held /\ Stays

CreateReferenceTo ==
  /\ Only
  /\ \E x \in Before, p \in Parents : \E i \in MembersOf(p) :
       Keeps(CreateListReference(x, h.at[p].type, i))
  /\ Stays

\* By index, name or pointer.
DetachItem ==
  /\ Called
  /\ \E p \in Parents : \E i \in MembersOf(p) :
       /\ ~Frozen(p)
       /\ Keeps(Detached(h, p, i))
  /\ Stays

DeleteItem ==
  /\ Called
  /\ \/ \E i \in held : ~Shown(i) /\ h' = Delete(h, i) /\ held' = held \ {i}
     \/ \E o \in Of("Object"), k \in Keys, cs \in BOOLEAN :
          /\ ~Frozen(o)
          /\ LET i == GetObjectItem(h, o, k, cs) IN i # Null => ~Shown(i)
          /\ h' = DeleteMember(h, o, k, cs) /\ UNCHANGED held
  /\ Stays

InsertItem ==
  /\ Only
  /\ \E a \in Of("Array"), n \in 0 .. 2, i \in held :
       /\ ~In(a, i)
       /\ Gives(InsertItemInArray(h, a, n, i), i)
  /\ Stays

ReplaceItem ==
  /\ Only
  /\ \E p \in Parents, new \in held :
       /\ ~In(p, new)
       /\ \/ \E i \in MembersOf(p) :
               /\ h.at[p].type = "Object" => h.at[new].key # NoKey
               /\ Gives(ReplaceItemViaPointer(h, p, i, new), new)
          \/ \E x \in Before, k \in Keys, cs \in BOOLEAN :
               /\ h.at[p].type = "Object"
               /\ Gives(ReplaceItemInObject(x, p, k, new, cs), new)
  /\ Stays

DuplicateItem ==
  /\ Called
  /\ \E x \in Before, i \in Mine, deep \in BOOLEAN :
       Keeps(Duplicate(x, i, deep))
  /\ Stays

Sorts(x) == sorted' = (sorted \/ \E p \in Live(h) \cap Live(x) : h.at[p].child # x.at[p].child
                                   \/ Members(h, p) # Members(x, p))

SortItem ==
  /\ Only
  /\ \E o \in Of("Object"), cs \in BOOLEAN : h' = SortObject(h, o, cs) /\ Sorts(h')
  /\ UNCHANGED <<held, job, packed>>

-----------------------------------------------------------------------------
(* Patches.                                                                 *)

\* No two members of one object have the same name but for case.
Distinct(i) ==
  \A p \in StructsOf(i) :
    LET c == Members(h, p)
    IN  h.at[p].type = "Object" =>
          \A a, b \in DOMAIN c : a < b => Diff(h.at[c[a]].key, h.at[c[b]].key, FALSE) # 0
KeysOf(i)  == {h.at[j].key : j \in StructsOf(i)} \ {NoKey}
Writes(i, chars) == \E k \in KeysOf(i), n \in 1 .. 3 : n \in DOMAIN k /\ k[n] \in chars

\* A name with "/", or with "~" before anything else.
Escaped(i) == \/ Writes(i, {"/"})
              \/ \E k \in KeysOf(i), n \in 2 .. 3 : n \in DOMAIN k /\ k[n - 1] = "~" /\ k[n] # "~"
Capital(i) == Writes(i, {"A", "B"})
HasNull(i) == \E j \in StructsOf(i) : h.at[j].type = "NULL"

\* The patch is made from a copy of from, or from it itself, which sorts it.
Source(x, from, copied) == IF copied THEN Duplicate(x, from, TRUE) ELSE Result(x, from)
Drop(x, i, from)     == IF i = from THEN x ELSE Delete(x, i)

Plain(from, to, odd(_)) == \A i \in {from, to} : Distinct(i) /\ ~odd(i)

\* An allocation has failed.
Short(x) == x.fails = Failed

Started(P, kind, from, to, cs, plain, source) ==
  /\ h' = After(Drop(P.h, source, from))
  /\ job' = [kind |-> kind, target |-> from, goal |-> to, cs |-> cs, at |-> 1,
             patches |-> P.patches, status |-> 0, plain |-> plain /\ ~Short(P.h),
             same |-> /\ h.at[to].type = "Object"
                      /\ Document(h, from, cs) = Document(h, to, cs)]
  /\ Sorts(P.h)
MergeJob(p) == [h |-> p.h, patches |-> <<[value |-> p.r]>>]

Generate ==
  /\ Only
  /\ \E x \in Before, from, to \in held, cs, copied \in BOOLEAN :
       /\ from # to
       /\ LET s == Source(x, from, copied)
          IN  /\ s.r # Null
              /\ \/ Started(GeneratePatches(s.h, s.r, to, cs), "patches", from, to, cs,
                            Plain(from, to, Escaped), s.r)
                 \/ Started(MergeJob(GenerateMerge(s.h, s.r, to, cs)), "merge", from, to, cs,
                            Plain(from, to, Capital) /\ ~HasNull(to), s.r)
  /\ UNCHANGED <<held, packed>>

Applying == job.kind = "patches" /\ ~h.lost /\ job.at <= Len(job.patches) /\ job.status = 0

\* One round of cJSONUtils_ApplyPatches.
Applied(r) ==
  /\ h' = After(r.h)
  /\ job' = [job EXCEPT !.at = @ + 1, !.status = r.r, !.plain = @ /\ ~Short(r.h)]
ApplyNext ==
  /\ Applying
  /\ \E x \in Before : Applied(ApplyPatch(x, job.target, job.patches[job.at], job.cs))
  /\ UNCHANGED <<held, calls, sorted, packed>>

Merging == job.kind = "merge" /\ ~h.lost /\ job.at = 1

Merged(r) ==
  /\ h' = After(r.h)
  /\ held' = (held \ {job.target}) \cup ({r.r} \ {Null})
  /\ job' = [job EXCEPT !.at = 2, !.target = r.r, !.plain = @ /\ ~Short(r.h)]
ApplyMerge ==
  /\ Merging
  /\ \E x \in Before : Merged(MergePatch(x, job.target, job.patches[1].value, job.cs))
  /\ UNCHANGED <<calls, sorted, packed>>

Ended == \/ job.kind = "patches" /\ (job.at > Len(job.patches) \/ job.status # 0)
         \/ job.kind = "merge" /\ job.at = 2

RECURSIVE DeleteEach(_, _)
DeleteEach(x, ps) == IF ps = <<>> THEN x ELSE DeleteEach(Delete(x, Head(ps).value), Tail(ps))

DeletePatches ==
  /\ Ended /\ ~h.lost
  /\ h' = DeleteEach(h, job.patches)
  /\ job' = NoJob
  /\ UNCHANGED <<held, calls, sorted, packed>>

Ops == {"test", "add", "remove", "replace", "move", "copy", "invalid"}

Tried(r, root, op) == h' = After(r.h) /\ job' = [kind |-> "done", root |-> root, op |-> op, status |-> r.r]

\* A patch written by hand, its value a document the caller holds; bounded to
\* parsed documents.
ApplyOne ==
  /\ Legal /\ calls = 0 /\ calls' = MaxCalls
  /\ \E root \in held, op \in Ops, path, from \in Paths, cs \in BOOLEAN :
       \E value \in (held \ {root}) \cup {Null} :
         /\ op \notin {"move", "copy"} => from = <<>>
         /\ op \in {"move", "copy", "remove", "invalid"} => value = Null
         /\ LET patch == [op |-> op, path |-> path, from |-> from, value |-> value]
            IN  \E x \in Before : Tried(ApplyPatch(x, root, patch, cs), root, op)
         /\ sorted' = (sorted \/ (op = "test" /\ h' # h))
  /\ UNCHANGED <<held, packed>>

\* The caller goes on.
Return == job.kind = "done" /\ job' = NoJob /\ UNCHANGED <<h, held, calls, sorted, packed>>

-----------------------------------------------------------------------------
(* The mode request.                                                        *)

\* The strings of mode, ssid and pass; "" where ssid or pass is missing.  Any
\* mode but "" stands for "AP" or "STA", the only ones the handler lets pass.
PackRequest ==
  /\ Legal /\ References = {}
  /\ \E root \in held :
       LET item(n) == GetObjectItem(h, root, FieldKeys[n], FALSE)
           sent    == [n \in 1 .. 3 |-> IF IsA(h, item(n), "String") THEN h.at[item(n)].val ELSE <<>>]
       IN  /\ IsA(h, root, "Object")
           /\ Send(sent)
           /\ h' = Delete(h, root) /\ held' = held \ {root}
  /\ UNCHANGED <<calls, sorted, job>>

-----------------------------------------------------------------------------
Text(r) == [type |-> "Object", val |-> <<>>,
            kids |-> [n \in 1 .. 3 |-> <<FieldKeys[n], [type |-> "String", val |-> r[n], kids |-> <<>>]>>]]

\* Two documents parsed, or one request; a document for which there is no
\* memory is not held.
Init ==
  /\ \E size \in Sizes :
       \/ \E t \in Pairs : LET p == Parse(Heap(size), t[1])
                                q == Parse(p.h, t[2])
                            IN  h = After(q.h) /\ held = {p.r, q.r} \ {Null}
       \/ \E r \in Requests : LET p == Parse(Heap(size), Text(r)) IN h = After(p.h) /\ held = {p.r} \ {Null}
  /\ calls = 0 /\ sorted = FALSE /\ job = NoJob /\ RequestInit

Next == \/ CreateItem \/ CreateArrayOf \/ AddToArray \/ AddToObject
        \/ AddNew \/ CreateReferenceTo \/ AddReference
        \/ DetachItem \/ DeleteItem \/ InsertItem \/ ReplaceItem
        \/ DuplicateItem \/ SortItem
        \/ Generate \/ ApplyNext \/ ApplyMerge \/ DeletePatches
        \/ ApplyOne \/ Return \/ PackRequest

Spec == Init /\ [][Next]_vars

-----------------------------------------------------------------------------
Seq_ == INSTANCE SequencesExt

\* Documents the caller holds, those in patches under way, and what is leaked.
RootSeq ==
  LET has(p) == p.value # Null
      ps     == SelectSeq(job.patches, has)
  IN  Seq_!SetToSeq(held) \o Seq_!SetToSeq(h.leaked)
        \o (IF "patches" \in DOMAIN job THEN [n \in DOMAIN ps |-> ps[n].value] ELSE <<>>)

\* The heap and what is held are what the code's types allow.
TypeOK ==
  /\ \A i \in DOMAIN h.at :
       /\ h.at[i].type \in Scalars \cup Containers \cup {"Invalid", "free"}
       /\ {h.at[i].child, h.at[i].next, h.at[i].prev} \subseteq DOMAIN h.at \cup {Null}
  /\ held \subseteq Live(h) /\ h.leaked \subseteq Live(h) /\ h.fails = 0
  /\ calls \in 0 .. MaxCalls /\ sorted \in BOOLEAN

\* The links of every list agree in both directions, whatever was called, and
\* an append finds the end of every list: only a list that sort_list has put
\* in another order has lost it (cJSON_Utils.c:484-593), so that only there
\* can an append, or what it cuts off, be lost.
Linked ==
  /\ ~h.lost => \A p \in Live(h) : Chained(h, p)
  /\ ~sorted => ~h.lost /\ Whole(h, [p \in Lists |-> Members(h, p)])

Addresses   == UNION {1 .. n : n \in Sizes}
MemberLists == [p \in Addresses |-> IF p \in Lists THEN Members(h, p) ELSE <<>>]

Seqs == INSTANCE ItemLists WITH Items <- Addresses, lists <- MemberLists

\* A call that neither creates nor deletes a struct changes at most one list,
\* at one place and as ItemLists says, whatever was called before; only sorting
\* and what is lost after it are left out.
EditsOnePlace ==
  [][ Live(h') = Live(h) /\ ~sorted' /\ ~h'.lost /\ job' = job
        => UNCHANGED MemberLists \/ Seqs!Next ]_vars

\* Every struct is in exactly one document of the caller, or one patch: no
\* call leaks one, frees one twice or leaves one in two lists, whichever
\* allocation fails on the way.  What is leaked is named: an item that was to
\* be added, where the answer is not looked at and there was no memory for its
\* name or its parent: a reference (cJSON.c:2094), the value of a patch
\* (cJSON_Utils.c:1015, 1131), a member of a merge (1374, 1438, 1445, 1455).
\* Each of them is a whole document of its own, in no other.
Owned ==
  LET all == Trees(h, RootSeq)
  IN  ~h.lost => /\ Len(all) = Cardinality(Live(h))
                 /\ {all[n] : n \in DOMAIN all} = Live(h)

Kids == [p \in Addresses |-> IF p \in Lists THEN MembersOf(p) ELSE {}]
Own  == INSTANCE Ownership WITH Items <- Addresses, live <- Live(h), kids <- Kids

\* cJSON_Delete, which follows the links down and along, frees exactly the tree
\* of the document, as Ownership has it, and writes to nothing else, whatever
\* has been linked and relinked before (cJSON.c:252-284).
DeletesTree ==
  ~h.lost => \A i \in held :
    /\ Own!Enumerates(Kids, i, Tree(h, i))
    /\ Delete(h, i) = Freed(h, StructsOf(i))

\* cJSON_Compare says of any two documents whether they hold the same, in
\* whatever order their members stand, and a document equals its duplicate;
\* names that differ by case in one object apart (cJSON.c:3009-3132).
CompareAgrees ==
  job = NoJob /\ ~h.lost =>
    LET docs     == {i \in held : Distinct(i)}
        says(cs) == [i \in docs |-> Document(h, i, cs)]
    IN  \A cs \in BOOLEAN : LET said == says(cs) IN \A a, b \in docs :
          Compare(h, a, b, cs) = (said[a] = said[b] /\ h.at[a].type # "Invalid")

\* The pointer found for any struct of a document leads back to it, also past
\* names with "/" and "~" (cJSON_Utils.c:198-356).
PointerFinds ==
  job = NoJob /\ ~h.lost /\ References = {} => \A root \in held : Distinct(root) =>
    \A i \in StructsOf(root) : \A cs \in BOOLEAN : GetPointer(h, root, FindPointer(h, root, i), cs) = i

\* Patches generated from one document to another lead from the one to the
\* other, member by member and element by element, and none of them fails;
\* only for documents whose names differ by more than case and have no "/",
\* nor "~" but at the end (decode_pointer_inplace, cJSON_Utils.c:359-388, gives
\* others back wrong), where memory did not run out and nothing was lost in a
\* document that generating has sorted (cJSON_Utils.c:1141-1309, 807-1094).
PatchesReach ==
  job.kind = "patches" /\ Ended /\ job.plain /\ ~h.lost =>
    job.status = 0 /\ Document(h, job.target, job.cs) = Document(h, job.goal, job.cs)

\* So does a merge patch, from a document to one without null, for names in
\* small letters; but for objects that hold the same there is no patch, and
\* merging none deletes the document (cJSON_Utils.c:1321-1481).
MergeReaches ==
  job.kind = "merge" /\ Ended /\ job.plain /\ ~h.lost =>
    IF job.same THEN job.target = Null
    ELSE job.target # Null /\ Document(h, job.target, job.cs) = Document(h, job.goal, job.cs)

\* A patch that fails has added nothing: the document is as it was, or lacks
\* the one member that a replace or a move had already taken out
\* (cJSON_Utils.c:807-1036).
FailedPatchKeeps ==
  [][ job'.kind = "done" /\ job'.status # 0 =>
        LET root == job'.root
            same == Document(h', root, TRUE) = Document(h, root, TRUE)
            removed == \E p \in Live(h) : \E i \in MembersOf(p) :
                         Document(h', root, TRUE) =
                           Document(DetachItemViaPointer(h, p, i), root, TRUE)
        IN  same \/ (job'.op \in {"replace", "move"} /\ removed) ]_vars
=============================================================================

------------------------------- MODULE Paging -------------------------------
(***************************************************************************)
(* The list tools: each filters what Home Assistant has, sorts it, and     *)
(* lets page.Paginate cut the page after the client's cursor.  Records     *)
(* come and go between two calls.  A call is one step: it works on its own *)
(* copy of the list and keeps nothing.                                     *)
(*                                                                         *)
(* A record has a key, which the cursor encodes, and a place, which the    *)
(* tool sorts by.  For most tools the two are the same.                    *)
(***************************************************************************)
EXTENDS Page, Sequences, FiniteSets, FiniteSetsExt, SequencesExt

CONSTANTS
    Records,    \* the records that may be in the list
    Key,        \* keyOf: the key of each record
    Place,      \* what the tool sorts by
    Size,       \* byteSize: the bytes of each record
    Requested,  \* the limits a client asks for
    MaxBytes,   \* the byte cap of one answer
    MaxChanges  \* bound: changes of the list

ASSUME RecordAssumption ==
    /\ IsFiniteSet(Records)
    /\ Key \in [Records -> Nat \ {0}] /\ Place \in [Records -> Int]
    /\ Size \in [Records -> Nat] /\ Requested \subseteq Int
    /\ MaxBytes \in Nat /\ MaxChanges \in Nat

VARIABLES
    list,       \* the records there are now
    stayed,     \* those that have been there since the client began
    cursor,     \* the client's cursor
    times,      \* how often the client was given each record
    done,       \* the client has had a page without a cursor
    longest,    \* the longest page so far
    changes

vars == <<list, stayed, cursor, times, done, longest, changes>>

TypeOK ==
    /\ list \subseteq Records /\ stayed \subseteq list
    /\ cursor \in {Key[r] : r \in Records} \cup {NoCursor}
    /\ times \in [Records -> Nat] /\ done \in BOOLEAN
    /\ longest \in 0 .. MaxLimit /\ changes \in 0 .. MaxChanges

Init ==
    /\ list \in SUBSET Records /\ stayed = list
    /\ cursor = NoCursor /\ times = [r \in Records |-> 0] /\ done = FALSE
    /\ longest = 0 /\ changes = 0

(* Records come and go in Home Assistant.                                  *)
Change ==
    /\ changes < MaxChanges /\ ~done
    /\ list' \in SUBSET Records
    /\ stayed' = stayed \cap list'
    /\ changes' = changes + 1
    /\ UNCHANGED <<cursor, times, done, longest>>

-----------------------------------------------------------------------------
(* Paginate.                                                               *)

(* Sorting by place leaves records at the same place in any order.         *)
Sorted == {s \in SetToSeqs(list) : \A i, j \in DOMAIN s : i < j => Place[s[i]] <= Place[s[j]]}

(* Mutant: resuming at the cursor's record, not after it.                  *)
IsAfter_Inclusive(record, key) == Key[record] >= key

IsAfter(record, key) == Key[record] > key

(* sort.Search: the binary search for the first record after the cursor,   *)
(* which looks at a few records only and trusts the order for the rest.    *)
Search(s, key) ==
    LET n == Len(s)
        find[w \in (0 .. n) \X (0 .. n)] ==
            LET i == w[1]
                j == w[2]
                middle == (i + j) \div 2
            IN IF i >= j THEN i
               ELSE IF IsAfter(s[middle + 1], key) THEN find[<<i, middle>>]
               ELSE find[<<middle + 1, j>>]
    IN find[<<0, n>>]

Start(s) == IF cursor = NoCursor THEN 0 ELSE Search(s, cursor)

Bytes(s, start, end) == MapThenSumSet(LAMBDA i : Size[s[i]], start + 1 .. end)

(* Mutant: a record that is too large for a page is never returned.        *)
Takes_StrictBytes(s, start, end, limit) ==
    end - start < limit /\ Bytes(s, start, end + 1) <= MaxBytes

(* Whether the loop takes one more record than those up to end.            *)
Takes(s, start, end, limit) ==
    end - start < limit /\ (Bytes(s, start, end + 1) <= MaxBytes \/ end = start)

Cut(s, start, limit) ==
    LET end[i \in start .. Len(s)] ==
            IF i < Len(s) /\ Takes(s, start, i, limit) THEN end[i + 1] ELSE i
    IN end[start]

(* Mutant: a full page is taken for the last one.                          *)
IsTruncated_ByBytes(s, start, end, limit) == end < Len(s) /\ end - start < limit

IsTruncated(s, start, end, limit) == end < Len(s)

(* Mutant: the cursor of the first record of the next page.                *)
CursorAfter_Next(s, end) == Key[s[end + 1]]

(* The key of the last record that fits.  With none the index would be -1: *)
(* a panic, and the client keeps the cursor it has.                        *)
CursorAfter(s, end) == IF end = 0 THEN cursor ELSE Key[s[end]]

Call ==
    /\ ~done
    /\ \E requested \in Requested, s \in Sorted :
          LET limit == ResolveLimit(requested)
              start == Start(s)
              end   == Cut(s, start, limit)
              page  == {s[i] : i \in start + 1 .. end}
          IN /\ times' = [r \in Records |-> IF r \in page THEN times[r] + 1 ELSE times[r]]
             /\ longest' = Max({longest, end - start})
             /\ done' = ~IsTruncated(s, start, end, limit)
             /\ cursor' = IF done' THEN cursor ELSE CursorAfter(s, end)
    /\ UNCHANGED <<list, stayed, changes>>

Next == Call \/ Change

Spec == Init /\ [][Next]_vars

FairSpec == Spec /\ WF_vars(Call)

-----------------------------------------------------------------------------
(* Properties.                                                             *)

(* "A cursor from a changed underlying list does not produce duplicate or  *)
(* skipped records without saying so" (phase 02, P2-04): at the end of the *)
(* walk the client has every record that was there all along.              *)
NothingSkipped == done => \A r \in stayed : times[r] > 0

(* ... and no record twice.                                                *)
NothingTwice == \A r \in Records : times[r] <= 1

(* The tools that sort by key, and whose keys tell the records apart,      *)
(* implement the promise of CursorScan.                                    *)
SortsByKey ==
    \A q, r \in Records : /\ Place[q] <= Place[r] <=> Key[q] <= Key[r]
                          /\ Key[q] = Key[r] => q = r

Keys == {Key[r] : r \in Records}
KeysOf(S) == {Key[r] : r \in S}
TimesByKey == [k \in Keys |-> times[CHOOSE r \in Records : Key[r] = k]]

Promise == INSTANCE CursorScan
    WITH list <- KeysOf(list), stayed <- KeysOf(stayed), times <- TimesByKey

ImplementsCursorScan == Promise!Spec

(* A client that keeps handing its cursor back comes to the end, whatever  *)
(* page sizes it asks for and however large a record is.                   *)
WalkEnds == <>done
=============================================================================

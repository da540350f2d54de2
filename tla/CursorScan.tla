----------------------------- MODULE CursorScan -----------------------------
(***************************************************************************)
(* What reading a list page by page promises, for every tool that answers  *)
(* with next_cursor: the client starts without a cursor, hands each cursor *)
(* back, and stops at the page that has none, while records come and go.   *)
(* The cursor is the key of a record, not a position in the list           *)
(* (internal/page/page.go).  How a page is cut, by count, bytes or budget, *)
(* is left to the tools: Paging and StaleScan implement this module.       *)
(***************************************************************************)
EXTENDS Integers

CONSTANT Keys   \* the keys that records may have, in the order of the list

(* What the promises ask of the keys: they come after no cursor.           *)
KeysFollowZero == Keys \subseteq Nat \ {0}

VARIABLES
    list,       \* the keys that are in the list now
    stayed,     \* those that have been in it since the client began
    cursor,     \* where the next page resumes: after this key, or 0
    times,      \* how often the client was given each record
    done        \* the client has had a page without a cursor

vars == <<list, stayed, cursor, times, done>>

TypeOK ==
    /\ list \subseteq Keys /\ stayed \subseteq list
    /\ cursor \in Keys \cup {0} /\ times \in [Keys -> Nat] /\ done \in BOOLEAN

Init ==
    /\ list \in SUBSET Keys /\ stayed = list
    /\ cursor = 0 /\ times = [k \in Keys |-> 0] /\ done = FALSE

(* Records come and go.                                                    *)
Change ==
    /\ list' \in SUBSET Keys
    /\ stayed' = stayed \cap list'
    /\ UNCHANGED <<cursor, times, done>>

Give(page) == times' = [k \in Keys |-> IF k \in page THEN times[k] + 1 ELSE times[k]]

(* A page and the cursor of its last record: nothing at or before the old  *)
(* cursor or after the new one, and all between them that has stayed.      *)
More ==
    /\ ~done
    /\ \E end \in Keys, page \in SUBSET Keys :
          /\ cursor < end
          /\ \A k \in page : cursor < k /\ k <= end
          /\ \A k \in stayed : cursor < k /\ k <= end => k \in page
          /\ Give(page)
          /\ cursor' = end
    /\ UNCHANGED <<list, stayed, done>>

(* The last page: all that has stayed and was not given yet.               *)
Last ==
    /\ ~done
    /\ \E page \in SUBSET Keys :
          /\ \A k \in page : cursor < k
          /\ \A k \in stayed : cursor < k => k \in page
          /\ Give(page)
    /\ done' = TRUE
    /\ UNCHANGED <<list, stayed, cursor>>

Next == Change \/ More \/ Last

Spec == Init /\ [][Next]_vars

-----------------------------------------------------------------------------
(* Nothing is skipped: at the end of the walk the client has every record  *)
(* that was in the list all along.                                         *)
Complete == done => \A k \in stayed : times[k] > 0

(* Nothing comes twice.                                                    *)
NothingTwice == \A k \in Keys : times[k] <= 1

(* Why both hold: the cursor divides the keys.  What has stayed at or      *)
(* before it was given, and what lies after it was not.                    *)
Divided ==
    ~done => /\ \A k \in stayed : k <= cursor => times[k] > 0
             /\ \A k \in Keys : k > cursor => times[k] = 0

Faithful == TypeOK /\ Divided /\ Complete /\ NothingTwice
=============================================================================

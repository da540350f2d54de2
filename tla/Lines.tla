------------------------------- MODULE Lines --------------------------------
(***************************************************************************)
(* The slices of the analyses: what is lined up in an order                *)
(* (slices.SortFunc, sort.Slice) and what is picked from a list in the     *)
(* order it has, each told by what it yields and not by how.               *)
(***************************************************************************)
EXTENDS Integers, SequencesExt

(* The members of a finite set in a strict total order: each has as many   *)
(* before it as are below it.                                              *)
Sorted(S, Lt(_, _)) ==
    [i \in 1..Cardinality(S) |-> CHOOSE x \in S : Cardinality({y \in S : Lt(y, x)}) = i - 1]
Ascending(ids) == Sorted(ids, <)

(* The members of a sequence at some of its places, in their order.        *)
AtPlaces(seq, places) ==
    LET order == Ascending(places) IN [n \in DOMAIN order |-> seq[order[n]]]

(* Those of which something holds.                                         *)
Kept(seq, Holds(_)) == AtPlaces(seq, {i \in DOMAIN seq : Holds(seq[i])})

(* All of them, by an order of their places.                               *)
Lined(seq, Before(_, _)) ==
    LET order == Sorted(DOMAIN seq, Before) IN [n \in DOMAIN order |-> seq[order[n]]]
=============================================================================

------------------------------ MODULE MCPaging ------------------------------
(* Paging with four records, the sizes and orders of the tools.            *)
EXTENDS Paging

(* Three records that fit a page by their bytes, and one larger than that. *)
Sizes == [r \in Records |-> CASE r = 2 -> 2 [] r = 3 -> 5 [] OTHER -> 1]

SmallSizes == [r \in Records |-> 1]

ById == [r \in Records |-> r]

(* Trace runs, the newest first: the id of a run is not its place.         *)
NewestFirst == [r \in Records |-> -r]
=============================================================================

-------------------------------- MODULE Page --------------------------------
(***************************************************************************)
(* internal/page/page.go: where one answer ends and the next begins.       *)
(* A cursor is the key it encodes; 0 stands for the empty key and for no   *)
(* cursor, which the code also does not tell apart.                        *)
(***************************************************************************)
EXTENDS Integers

CONSTANTS DefaultLimit, MaxLimit

ASSUME PageLimitAssumption ==
    DefaultLimit \in 1 .. MaxLimit /\ MaxLimit \in Nat \ {0}

NoCursor == 0

(* Mutant: a limit that is too large is honoured.                          *)
ResolveLimit_NoClamp(requested) == IF requested <= 0 THEN DefaultLimit ELSE requested

(* Mutant: only a limit that is too large is corrected.                    *)
ResolveLimit_ZeroStays(requested) == IF requested > MaxLimit THEN MaxLimit ELSE requested

ResolveLimit(requested) ==
    IF requested <= 0 THEN DefaultLimit
    ELSE IF requested > MaxLimit THEN MaxLimit ELSE requested
=============================================================================

----------------------------- MODULE MCManager -----------------------------
(***************************************************************************)
(* Instances of Manager for TLC: calls are interchangeable, and so are the *)
(* goroutines that call Close.                                             *)
(***************************************************************************)
EXTENDS Manager, TLC

Symmetry == Permutations(Caller) \cup Permutations(Closer)
=============================================================================

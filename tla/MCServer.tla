------------------------------ MODULE MCServer ------------------------------
(* Server with a budget of one request and one unit of bytes.              *)
EXTENDS Server

MCLimits == [d \in Dimensions |-> 1]
=============================================================================

---------------------------- MODULE MCStaleScan ----------------------------
(* StaleScan with a budget of four requests and five points, of which one  *)
(* history is expected to cost two.                                        *)
EXTENDS StaleScan

MCLimits == [d \in Dimensions |->
    CASE d = "ha_requests" -> 4 [] d = "history_points" -> 5 [] d = "entities" -> 3 [] d = "bytes" -> 6]

MCEstimate == [d \in Dimensions |->
    CASE d = "ha_requests" -> 0 [] d = "history_points" -> 2 [] d = "entities" -> 1 [] d = "bytes" -> 3]
=============================================================================

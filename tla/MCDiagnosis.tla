----------------------------- MODULE MCDiagnosis ----------------------------
(* Diagnosis of an installation of one coordinator with a child device and *)
(* four entities, over a window of five instants.                          *)
EXTENDS Diagnosis

MCEntry(state) == [id |-> "zha", domain |-> "zha", state |-> state]

EntityTable == {
    [id |-> 1, device |-> 2, entry |-> "zha", area |-> "hall", kind |-> None, disabled |-> FALSE],
    [id |-> 2, device |-> 2, entry |-> "zha", area |-> None, kind |-> None, disabled |-> FALSE],
    [id |-> 3, device |-> 3, entry |-> "zha", area |-> None, kind |-> None, disabled |-> FALSE],
    [id |-> 4, device |-> 2, entry |-> "zha", area |-> None, kind |-> "link_quality", disabled |-> FALSE],
    [id |-> 5, device |-> 3, entry |-> "zha", area |-> None, kind |-> "signal_strength", disabled |-> TRUE]}

DeviceTable == {
    [id |-> 1, entry |-> "zha", via |-> None, area |-> None],
    [id |-> 2, entry |-> "zha", via |-> 1, area |-> "hall"],
    [id |-> 3, entry |-> "zha", via |-> 1, area |-> "hall"]}

RowTable ==
    {[entity |-> None, entry |-> None]}
    \cup {[entity |-> [platform |-> "zha", disabled |-> d], entry |-> None] : d \in BOOLEAN}
    \cup {[entity |-> [platform |-> "zha", disabled |-> FALSE], entry |-> MCEntry(s)] :
            s \in {"loaded", "setup_retry", "made_up"}}

EntryTable == {MCEntry("loaded"), MCEntry("setup_error")}

P(t, s) == [at |-> t, state |-> s]

(* Two points of any states anywhere around the window, or three of which  *)
(* two may end an outage.                                                  *)
MCTimes == {-1, 0, 3, To, To + 1}
HistoryTable ==
    LET any == {P(t, s) : t \in MCTimes, s \in {"on", "off", "unavailable", "unknown"}}
        few == {P(t, s) : t \in {1, 2, 4}, s \in {"on", "unavailable"}}
    IN  {<<>>} \cup {<<p>> : p \in any} \cup {<<p, q>> : p \in any, q \in any}
            \cup {<<P(0, "on"), p, q>> : p \in few, q \in few}
            \cup {<<P(1, "unavailable"), p, q>> : p \in few, q \in few}

(* Down first, early and late, late, throughout; down within an instant,   *)
(* then silent; nothing recorded, or nothing before the last instant.      *)
OtherHistoryTable == {
    <<P(0, "20"), P(1, "unavailable"), P(1, "20")>>,
    <<>>,
    <<P(0, "unavailable"), P(4, "20")>>,
    <<P(0, "20"), P(1, "unavailable"), P(2, "20"), P(4, "unavailable")>>,
    <<P(0, "20"), P(3, "unavailable")>>,
    <<P(-1, "unavailable")>>,
    <<P(To, "unavailable")>>}

RepairTable == {
    <<[domain |-> "zha", ignored |-> FALSE], [domain |-> "automation", ignored |-> FALSE]>>,
    <<[domain |-> "zha", ignored |-> TRUE]>>}

T(start, finish, how) == [start |-> start, finish |-> finish, end |-> how]
TraceTable == {<<>>, <<T(3, 2, "error")>>, <<T(-1, 0, "aborted"), T(2, 3, "finished")>>,
                 <<T(0, 0, "failed_conditions"), T(1, 2, "running")>>}

LogbookTable == {<<>>, <<[when |-> 2, context |-> "c"], [when |-> 2, context |-> "c"], [when |-> 3, context |-> "d"]>>,
                  <<[when |-> -1, context |-> "c"], [when |-> 4, context |-> None]>>}

Config(entities, areas, unextracted, truncated) ==
    [entities |-> entities, devices |-> {}, areas |-> areas, unextracted |-> unextracted,
     truncated |-> truncated, withheld |-> 0]
ConfigTable == {Config({}, {}, 1, FALSE), Config({2}, {}, 0, FALSE), Config({2}, {"hall"}, 0, TRUE)}

DownTable == {{3}, {2, 3}}
LimitTable == [ha_requests |-> 9, history_points |-> 8, entities |-> 3, bytes |-> 1]
EstimateTable == [ha_requests |-> 0, history_points |-> 1, entities |-> 1, bytes |-> 1]

(* A constant's definition is evaluated at each of its uses; these are     *)
(* evaluated once.                                                         *)
MCEntities == EntityTable
MCDevices == DeviceTable
MCRows == RowTable
MCEntries == EntryTable
MCHistories == HistoryTable
MCOtherHistories == OtherHistoryTable
MCDownNow == DownTable
MCRepairLists == RepairTable
MCTraceLists == TraceTable
MCLogbookRows == LogbookTable
MCConfigs == ConfigTable
MCLimits == LimitTable
MCEstimate == EstimateTable
=============================================================================

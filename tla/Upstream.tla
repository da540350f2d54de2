------------------------------ MODULE Upstream -------------------------------
(***************************************************************************)
(* The two ways to Home Assistant, one read at a time: the Core reader     *)
(* (internal/ha/corereader.go) behind the command allow-list               *)
(* (gateway.go), and the Supervisor client (supervisor.go) behind its own. *)
(* A reader is named as its method is.                                     *)
(***************************************************************************)
EXTENDS TraceRun

CoreReaders == [
    CoreConfig |-> "get_config", StateCounts |-> "get_states", UnavailableEntityIDs |-> "get_states",
    States |-> "get_states", Automations |-> "get_states", Repairs |-> "repairs/list_issues",
    Entities |-> "config/entity_registry/list", Devices |-> "config/device_registry/list",
    Areas |-> "config/area_registry/list", Floors |-> "config/floor_registry/list",
    Labels |-> "config/label_registry/list", ConfigEntries |-> "config_entries/get",
    AutomationDetail |-> "automation/config", AutomationLogic |-> "automation/config",
    AutomationTraces |-> "trace/list", AutomationTraceRun |-> "trace/get",
    LogbookEvents |-> "logbook/get_events", History |-> "history/history_during_period"]

SupervisorReaders == [
    CoreInfo |-> "/info", SupervisorInfo |-> "/supervisor/info", OSHealth |-> "/os/info",
    HostDisk |-> "/host/info", ResolutionSummary |-> "/resolution/info", SelfStats |-> "/addons/self/stats"]

FromSupervisor(reader) == reader \in DOMAIN SupervisorReaders
RouteOf(reader) == IF FromSupervisor(reader) THEN SupervisorReaders[reader] ELSE CoreReaders[reader]

AllowedCommands == {
    "get_config", "get_states", "config/entity_registry/list", "config/device_registry/list",
    "config/area_registry/list", "config/floor_registry/list", "config/label_registry/list",
    "config_entries/get", "repairs/list_issues", "automation/config", "trace/list", "trace/get",
    "logbook/get_events", "history/history_during_period"}
DeniedCommands == {"supervisor/api"}
AllowedSupervisorRoutes == {
    "/info", "/supervisor/info", "/os/info", "/host/info", "/resolution/info", "/addons/self/stats"}

CheckCommand(name) == name \notin DeniedCommands /\ name \in AllowedCommands
CheckSupervisorRoute(route) == route \in AllowedSupervisorRoutes    \* every request is a GET

Err(kind) == [ok |-> FALSE, value |-> <<>>, error |-> kind]
Got(mapped) == [ok |-> mapped.ok, value |-> mapped.value, error |-> IF mapped.ok THEN "none" ELSE "unexpected"]

-----------------------------------------------------------------------------
(* A Supervisor route: its status, then its envelope.                      *)

SupervisorStatuses == {"deadline", "unreachable", "401", "403", "404", "500", "cut_off", "too_large", "not_json"}

SupervisorError(status) ==
    CASE status = "deadline"         -> "deadline"
      [] status = "cut_off"          -> "unavailable"
      [] status \in {"401", "403"}   -> "auth_failed"
      [] status = "404"              -> "not_found"
      [] status = "too_large"        -> "too_large"
      [] status = "not_json"         -> "unexpected"
      [] OTHER                       -> "unsupported"

Envelope(data) == Object([result |-> Text("ok"), data |-> data])

(* A null is an envelope without a result.                                 *)
Unwrap(body) ==
    IF ~IsObject(body) \/ (Has(body, "result") /\ Field(body, "result").k \notin {"text", "null"})
    THEN Err("unexpected")
    ELSE IF OptString(body, "result") # "ok" THEN Err("unsupported")
    ELSE IF Field(body, "data").k # "object" THEN Err("unexpected")
    ELSE Got(Mapped(body.map["data"]))

-----------------------------------------------------------------------------
(* What a reader makes of the answer.                                      *)

MapCore(reader, id, doc) ==
    CASE reader = "CoreConfig"           -> MapCoreConfig(doc)
      [] reader = "StateCounts"          -> MapStateCounts(doc)
      [] reader = "UnavailableEntityIDs" -> MapUnavailableEntityIDs(doc)
      [] reader = "States"               -> MapEntityStateValues(doc)
      [] reader = "Automations"          -> MapAutomationStates(doc)
      [] reader = "Repairs"              -> MapRepairs(doc)
      [] reader = "Entities"             -> MapEntityRegistryList(doc)
      [] reader = "Devices"              -> MapDeviceRegistryList(doc)
      [] reader = "Areas"                -> MapAreaRegistryList(doc)
      [] reader = "Floors"               -> MapFloorRegistryList(doc)
      [] reader = "Labels"               -> MapLabelRegistryList(doc)
      [] reader = "ConfigEntries"        -> MapConfigEntriesGet(doc)
      [] reader = "AutomationDetail"     -> MapAutomation(doc)
      [] reader = "AutomationLogic"      -> MapAutomationLogicResult(doc)
      [] reader = "AutomationTraces"     -> MapAutomationTraces(doc)
      [] reader = "AutomationTraceRun"   -> MapAutomationTraceRun(doc)
      [] reader = "LogbookEvents"        -> MapLogbookEvents(doc)
      [] reader = "History"              -> MapHistoryDuringPeriod(id, doc)

MapSupervisor(reader, data) ==
    CASE reader = "CoreInfo"          -> MapCoreInfo(data)
      [] reader = "SupervisorInfo"    -> MapSupervisorInfo(data)
      [] reader = "OSHealth"          -> MapOSInfo(data)
      [] reader = "HostDisk"          -> MapHostDisk(data)
      [] reader = "ResolutionSummary" -> MapResolutionInfo(data)
      [] reader = "SelfStats"         -> MapAddonStats(data)

ReadAs(reader, id, doc) ==
    IF ~FromSupervisor(reader) THEN Got(MapCore(reader, id, doc))
    ELSE IF Unwrap(doc).ok THEN Got(MapSupervisor(reader, Unwrap(doc).value)) ELSE Unwrap(doc)

(* What the reader fails with when there is no answer to read.             *)
CoreErrors == {"unsupported", "unknown_command", "not_found", "unavailable"}
ErrorsOf(reader) ==
    IF FromSupervisor(reader) THEN {SupervisorError(s) : s \in SupervisorStatuses} ELSE CoreErrors

-----------------------------------------------------------------------------
(* Another release of Home Assistant: one field gone, null or of another   *)
(* type, one element that is no object, or another answer altogether.      *)

Junk == Number("7")
FieldsChanged(v) ==
    {Object([k \in DOMAIN v.map \ {key} |-> v.map[k]]) : key \in DOMAIN v.map}
    \cup {Object([v.map EXCEPT ![key] = other]) : key \in DOMAIN v.map, other \in {Null, Junk}}

ElementsChanged(list) ==
    UNION {{[how |-> "element", list |-> ReplaceAt(list, i, v)] : v \in {Null, Junk}}
           \cup {[how |-> "field", list |-> ReplaceAt(list, i, v)] : v \in FieldsChanged(list[i])} : i \in DOMAIN list}

Upgraded(doc) ==
    {[how |-> "document", doc |-> v] : v \in {Null, Junk} \cup FieldsChanged(doc)}
    \cup UNION {{[how |-> "field", doc |-> Object([doc.map EXCEPT ![key] = v])] : v \in FieldsChanged(doc.map[key])} :
                key \in DOMAIN doc.map}
    \cup {[how |-> c.how, doc |-> Array(c.list)] : c \in ElementsChanged(doc.list)}
    \cup UNION {{[how |-> c.how, doc |-> Object([doc.map EXCEPT ![key] = Array(c.list)])] :
                    c \in ElementsChanged(doc.map[key].list)} : key \in DOMAIN doc.map}
=============================================================================

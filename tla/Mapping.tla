------------------------------ MODULE Mapping -------------------------------
(***************************************************************************)
(* What each mapper of internal/ha/mapping.go makes of Home Assistant's    *)
(* answer.  The permissive ones read field by field and mark what lacks a  *)
(* required field as partial; the strict ones fail the whole answer.       *)
(***************************************************************************)
EXTENDS Document

(* Why an element is partial: a required field that must not be empty, or  *)
(* one that must only be a string.                                         *)
Reasons(raw, named, given) ==
    {key \in named : OptString(raw, key) = ""} \cup {key \in given : ~HasString(raw, key)}

MapAll(doc, MapOne(_)) ==
    IF DecodesToMaps(doc) THEN Mapped([i \in 1..Len(doc.list) |-> MapOne(Maps(doc)[i])])
    ELSE Failed

-----------------------------------------------------------------------------
(* The registries.                                                         *)

MapEntity(raw) == [
    id |-> OptString(raw, "entity_id"),
    domain |-> DomainOf[OptString(raw, "entity_id")],
    device |-> OptString(raw, "device_id"),
    area |-> OptString(raw, "area_id"),
    entry |-> OptString(raw, "config_entry_id"),
    class |-> FirstNonEmpty(OptString(raw, "device_class"), OptString(raw, "original_device_class")),
    disabled |-> OptString(raw, "disabled_by") # "",
    partial |-> Reasons(raw, {"entity_id"}, {"platform"}) # {}]

FirstConfigEntry(raw) ==
    LET listed == Field(raw, "config_entries").list
    IN  IF OptString(raw, "config_entry_id") # "" THEN OptString(raw, "config_entry_id")
        ELSE IF listed # <<>> /\ listed[1].k = "text" THEN listed[1].atom ELSE ""

MapDevice(raw) == [
    id |-> OptString(raw, "id"),
    entry |-> FirstConfigEntry(raw),
    name |-> FirstNonEmpty(OptString(raw, "name_by_user"), OptString(raw, "name")),
    area |-> OptString(raw, "area_id"),
    via |-> OptString(raw, "via_device_id"),
    disabled |-> OptString(raw, "disabled_by") # "",
    partial |-> Reasons(raw, {"id"}, {}) # {}]

MapArea(raw) == [
    id |-> OptString(raw, "area_id"),
    name |-> OptString(raw, "name"),
    floor |-> OptString(raw, "floor_id"),
    labels |-> OptStrings(raw, "labels"),
    partial |-> Reasons(raw, {"area_id"}, {"name"}) # {}]

MapFloor(raw) == [
    id |-> OptString(raw, "floor_id"),
    name |-> OptString(raw, "name"),
    partial |-> Reasons(raw, {"floor_id"}, {"name"}) # {}]

MapLabel(raw) == [
    id |-> OptString(raw, "label_id"),
    name |-> OptString(raw, "name"),
    partial |-> Reasons(raw, {"label_id"}, {"name"}) # {}]

MapIntegration(raw) == [
    id |-> OptString(raw, "entry_id"),
    domain |-> OptString(raw, "domain"),
    disabled |-> OptString(raw, "disabled_by") # "",
    partial |-> Reasons(raw, {"entry_id"}, {"domain"}) # {}]

(* Mutant: an entity that lacks a field is dropped.                        *)
MapEntityRegistryList_DropsPartial(doc) ==
    LET all == MapAll(doc, MapEntity)
    IN  IF all.ok THEN Mapped(SelectSeq(all.value, LAMBDA e : ~e.partial)) ELSE all

MapEntityRegistryList(doc) == MapAll(doc, MapEntity)
MapDeviceRegistryList(doc) == MapAll(doc, MapDevice)
MapAreaRegistryList(doc) == MapAll(doc, MapArea)
MapFloorRegistryList(doc) == MapAll(doc, MapFloor)
MapLabelRegistryList(doc) == MapAll(doc, MapLabel)
MapConfigEntriesGet(doc) == MapAll(doc, MapIntegration)

(* An issue also needs the instant it was created at.                      *)
MapRepair(raw) == [
    id |-> OptString(raw, "issue_id"),
    domain |-> OptString(raw, "domain"),
    ignored |-> OptBool(raw, "ignored"),
    partial |-> \/ Reasons(raw, {"issue_id"}, {"domain", "severity"}) # {}
                \/ ~HasTime(raw, "created")]

MapRepairs(doc) ==
    IF ~IsObject(doc) THEN Failed
    ELSE IF Has(doc, "issues") THEN MapAll(doc.map["issues"], MapRepair) ELSE Mapped(<<>>)

MapCoreConfig(doc) ==
    IF ~IsObject(doc) THEN Failed
    ELSE Mapped([version |-> OptString(doc, "version"), partial |-> Reasons(doc, {"version"}, {}) # {}])

-----------------------------------------------------------------------------
(* get_states, four ways: counts, the entities that report no usable       *)
(* value, every entity's state, and the automations.                       *)

MapStateCounts(doc) ==
    LET In(states) == Len(SelectSeq(MapsAmong(doc), LAMBDA e : OptString(e, "state") \in states))
    IN  IF ~DecodesToList(doc) THEN Failed
        ELSE Mapped([total |-> Len(MapsAmong(doc)), unavailable |-> In({"unavailable"}),
                     unknown |-> In({"unknown"})])

Named(doc) == SelectSeq(MapsAmong(doc), LAMBDA e : OptString(e, "entity_id") # "")

(* Mutant: only what is unavailable, not what is unknown.                  *)
MapUnavailableEntityIDs_Only(doc) ==
    IF ~DecodesToList(doc) THEN Failed
    ELSE Mapped({OptString(e, "entity_id") : e \in {x \in ToSet(Named(doc)) : OptString(x, "state") = "unavailable"}})

MapUnavailableEntityIDs(doc) ==
    IF ~DecodesToList(doc) THEN Failed
    ELSE Mapped({OptString(e, "entity_id") :
                    e \in {x \in ToSet(Named(doc)) : OptString(x, "state") \in {"unavailable", "unknown"}}})

(* The last element of an entity holds.                                    *)
MapEntityStateValues(doc) ==
    LET rows == Named(doc)
        ids == {OptString(e, "entity_id") : e \in ToSet(rows)}
        Latest(id) == SelectLastInSeq(rows, LAMBDA e : OptString(e, "entity_id") = id)
    IN  IF ~DecodesToList(doc) THEN Failed
        ELSE Mapped([id \in ids |-> OptString(rows[Latest(id)], "state")])

MapAutomationState(e) ==
    LET attributes == Field(e, "attributes")
    IN  [id |-> OptString(e, "entity_id"),
         enabled |-> OptString(e, "state") = "on",
         last |-> IF attributes.k = "object" THEN OptTime(attributes, "last_triggered") ELSE -1,
         partial |-> attributes.k # "object"]

MapAutomationStates(doc) ==
    LET rows == SelectSeq(Named(doc), LAMBDA e : DomainOf[OptString(e, "entity_id")] = "automation")
    IN  IF ~DecodesToList(doc) THEN Failed
        ELSE Mapped([i \in DOMAIN rows |-> MapAutomationState(rows[i])])

-----------------------------------------------------------------------------
(* Strictly typed answers: a field of another type fails the answer, a     *)
(* missing one is zero unless it is required.                              *)

HasKind(raw, key, kind) == Field(raw, key).k \in {kind, "null", "absent"}
HasInstant(raw, key) ==
    Field(raw, key).k \in {"null", "absent"} \/ (HasString(raw, key) /\ Is(OptString(raw, key), "stamp"))

(* Mutant: an answer without its required keys is read as zeroes.          *)
RequireKeys_None(doc, keys) == doc.k = "object"

RequireKeys(doc, keys) == doc.k = "object" /\ keys \subseteq DOMAIN doc.map

Strict(doc, keys, kinds) ==
    IF RequireKeys(doc, keys) /\ \A key \in DOMAIN kinds : HasKind(doc, key, kinds[key])
    THEN Mapped([key \in DOMAIN kinds |-> Field(doc, key)]) ELSE Failed

AppKinds == [slug |-> "text", state |-> "text", update_available |-> "flag"]

MapSupervisorInfo(doc) ==
    LET wire == Strict(doc, {"version", "addons"},
                       [version |-> "text", healthy |-> "flag", supported |-> "flag", addons |-> "list"])
        apps == wire.value["addons"].list
        typed == \A i \in DOMAIN apps : /\ IsObject(apps[i])
                                        /\ \A key \in DOMAIN AppKinds : HasKind(apps[i], key, AppKinds[key])
    IN  IF ~wire.ok THEN Failed
        ELSE IF typed
        THEN Mapped([healthy |-> OptBool(doc, "healthy"), supported |-> OptBool(doc, "supported"),
                     apps |-> [i \in DOMAIN apps |-> [id |-> OptString(apps[i], "slug"), partial |-> FALSE]]])
        ELSE Failed

MapCoreInfo(doc) ==
    Strict(doc, {"homeassistant"}, [homeassistant |-> "text", hassos |-> "text", state |-> "text", supported |-> "flag"])
MapOSInfo(doc) == Strict(doc, {"version"}, [version |-> "text", update_available |-> "flag"])
MapHostDisk(doc) == Strict(doc, {"disk_total"}, [disk_free |-> "number", disk_total |-> "number"])
MapAddonStats(doc) == Strict(doc, {"memory_percent"}, [cpu_percent |-> "number", memory_percent |-> "number"])
MapResolutionInfo(doc) ==
    LET wire == Strict(doc, {"issues"}, [issues |-> "list", unhealthy |-> "list", unsupported |-> "list"])
        Texts(v) == \A i \in DOMAIN v.list : v.list[i].k \in {"text", "null"}
    IN  IF ~wire.ok THEN Failed
        ELSE IF /\ \A i \in DOMAIN wire.value["issues"].list : IsObject(wire.value["issues"].list[i])
                /\ Texts(wire.value["unhealthy"]) /\ Texts(wire.value["unsupported"])
        THEN wire ELSE Failed

TraceKinds == [run_id |-> "text", state |-> "text", script_execution |-> "text", last_step |-> "text",
               trigger |-> "text", timestamp |-> "object"]

MapAutomationTraces(doc) ==
    LET Typed(e) == /\ IsObject(e)
                    /\ \A key \in DOMAIN TraceKinds : HasKind(e, key, TraceKinds[key])
                    /\ \A key \in {"start", "finish"} : HasInstant(Field(e, "timestamp"), key)
        Trace(e) == [id |-> OptString(e, "run_id"), start |-> OptTime(Field(e, "timestamp"), "start"),
                     partial |-> FALSE]
    IN  IF DecodesToList(doc) /\ \A i \in DOMAIN doc.list : Typed(doc.list[i])
        THEN Mapped([i \in DOMAIN doc.list |-> Trace(doc.list[i])]) ELSE Failed

-----------------------------------------------------------------------------
(* The recorder and the logbook.                                           *)

(* mapHistoryPoint: the short spelling of a collapsed element first.       *)
MapHistoryPoint(e) == [
    state |-> IF HasString(e, "s") THEN OptString(e, "s") ELSE OptString(e, "state"),
    at |-> IF HasTime(e, "lu") THEN OptTime(e, "lu") ELSE OptTime(e, "last_updated"),
    attributes |-> Field(e, "attributes")]

(* What has neither a state nor an instant is skipped.                     *)
Recorded(elements) ==
    SelectSeq(elements, LAMBDA e : /\ HasString(e, "s") \/ HasString(e, "state")
                                   /\ HasTime(e, "lu") \/ HasTime(e, "last_updated"))

MapHistoryDuringPeriod(id, doc) ==
    LET recorded == IF Has(doc, id) THEN Recorded(Maps(doc.map[id])) ELSE <<>>
    IN  IF IsObject(doc) /\ \A key \in DOMAIN doc.map : DecodesToMaps(doc.map[key])
        THEN Mapped([i \in DOMAIN recorded |-> MapHistoryPoint(recorded[i])]) ELSE Failed

MapLogbookEvent(e) == [
    entity |-> OptString(e, "entity_id"), message |-> OptString(e, "message"),
    name |-> OptString(e, "name"), when |-> OptTime(e, "when"), partial |-> ~HasTime(e, "when")]

MapLogbookEvents(doc) == MapAll(doc, MapLogbookEvent)
=============================================================================

----------------------------- MODULE ToolAnswers -----------------------------
(***************************************************************************)
(* What each plain tool makes of what its readers gave it (the handlers of *)
(* internal/mcp, after their reads): filters, joins, counts, and the       *)
(* response boundary.  The order of a list and where it is cut into pages  *)
(* are module Paging's.                                                    *)
(***************************************************************************)
EXTENDS Upstream, Redaction

CONSTANTS
    MaxLogicNodeBytes, MaxTraceStepBytes    \* what the answer's byte cap leaves, its envelope taken off

ASSUME AnswerCapsAssumption == {MaxLogicNodeBytes, MaxTraceStepBytes} \subseteq Nat

Filter == [domain |-> "", integration |-> "", device |-> "", area |-> "", state |-> "",
           availability |-> "", flag |-> ""]
Unset(wanted) == wanted = ""
Equals(wanted, found) == Unset(wanted) \/ wanted = found
FlagIs(wanted, holds) == Unset(wanted) \/ (wanted = "true") = holds

(* The field of the row with an id, of its first; "" when there is none.   *)
FirstOf(rows, id) == SelectInSeq(rows, LAMBDA r : r.id = id)
NameOf(rows, id) == IF FirstOf(rows, id) = 0 THEN "" ELSE rows[FirstOf(rows, id)].name
Knows(rows, id) == FirstOf(rows, id) # 0

(* A map filled from the rows holds what the last of them says.            *)
LastDomain(entries, id) ==
    LET at == SelectLastInSeq(entries, LAMBDA r : r.id = id) IN IF at = 0 THEN "" ELSE entries[at].domain
LastName(rows, id) ==
    LET at == SelectLastInSeq(rows, LAMBDA r : r.id = id) IN IF at = 0 THEN "" ELSE rows[at].name

StateOf(states, id) == IF id \in DOMAIN states THEN states[id] ELSE ""

Picked(rows, Keep(_), As(_)) ==
    LET kept == SelectSeq(rows, Keep) IN [i \in DOMAIN kept |-> As(kept[i])]

-----------------------------------------------------------------------------
(* Entities.                                                               *)

MatchesEntityFilter(e, state, unavailable, entries, f) ==
    /\ Equals(f.domain, e.domain)
    /\ Equals(f.integration, LastDomain(entries, e.entry))
    /\ Equals(f.device, e.device) /\ Equals(f.area, e.area)
    /\ Equals(f.state, state)
    /\ Unset(f.availability) \/ (e.id \in unavailable) = (f.availability = "unavailable")
    /\ FlagIs(f.flag, e.disabled)

MaskEntityState(profile, e, state) ==
    Payload(profile, Object([entity_id |-> Text(e.id), device_class |-> Text(e.class), state |-> Text(state)]),
            Nobody, 0).map["state"]

EntitySummary(profile, e, states, unavailable) ==
    [id |-> e.id, partial |-> e.partial, class |-> e.class, available |-> e.id \notin unavailable,
     state |-> MaskEntityState(profile, e, StateOf(states, e.id))]

EntitySummaries(profile, entities, states, unavailable) ==
    [i \in DOMAIN entities |-> EntitySummary(profile, entities[i], states, unavailable)]

ListEntities(profile, f, entities, states, unavailable, entries) ==
    EntitySummaries(profile,
        SelectSeq(entities, LAMBDA e : MatchesEntityFilter(e, StateOf(states, e.id), unavailable, entries, f)),
        states, unavailable)

GetEntity(profile, id, entities, states, unavailable, devices, areas, entries) ==
    LET e == entities[FirstOf(entities, id)]
        entry == FirstOf(entries, e.entry)
    IN  [entity |-> EntitySummary(profile, e, states, unavailable),
         device |-> NameOf(devices, e.device), area |-> NameOf(areas, e.area),
         integration |-> IF entry = 0 THEN "" ELSE entries[entry].domain]

-----------------------------------------------------------------------------
(* Integrations, devices, areas.                                           *)

IntegrationSummary(entry, entities, devices, unavailable) ==
    LET own == SelectSeq(entities, LAMBDA e : e.entry = entry.id)
    IN  [id |-> entry.id, domain |-> entry.domain, disabled |-> entry.disabled, partial |-> entry.partial,
         entities |-> Len(own),
         devices |-> Len(SelectSeq(devices, LAMBDA d : d.entry = entry.id)),
         unavailable |-> Len(SelectSeq(own, LAMBDA e : e.id \in unavailable))]

ListIntegrations(f, entries, entities, devices, unavailable) ==
    Picked(entries, LAMBDA e : Equals(f.domain, e.domain) /\ FlagIs(f.flag, e.disabled),
                    LAMBDA e : IntegrationSummary(e, entities, devices, unavailable))

ListDevices(f, devices) ==
    SelectSeq(devices, LAMBDA d : /\ Equals(f.area, d.area) /\ Equals(f.integration, d.entry)
                                  /\ FlagIs(f.flag, d.disabled))

GetDevice(id, devices, entities, unavailable) ==
    LET d == devices[FirstOf(devices, id)]
    IN  [device |-> d,
         related |-> Picked(entities, LAMBDA e : e.device = id,
                            LAMBDA e : [id |-> e.id, available |-> e.id \notin unavailable]),
         via |-> {v.id : v \in {v \in ToSet(devices) : d.via # "" /\ v.id = d.via}},
         children |-> {c.id : c \in {c \in ToSet(devices) : c.via = id}}]

(* Without a floor or a label registry only the names are missing.         *)
ListAreas(areas, floors, labels) ==
    [i \in DOMAIN areas |->
        [id |-> areas[i].id, partial |-> areas[i].partial, floor |-> LastName(floors, areas[i].floor),
         labels |-> Picked(areas[i].labels, LAMBDA l : Knows(labels, l), LAMBDA l : LastName(labels, l))]]

SystemOverview(config, counts, entities, devices, areas, entries) ==
    [version |-> config.version, partial |-> config.partial,
     entities |-> Len(entities), devices |-> Len(devices), areas |-> Len(areas), integrations |-> Len(entries),
     unavailable |-> counts.unavailable, unknown |-> counts.unknown]

SystemHealth(info, sup, os, disk, resolution, stats) ==
    [version |-> FirstNonEmpty(os["version"].atom, info["hassos"].atom), healthy |-> sup.healthy,
     supported |-> info["supported"] = Flag(TRUE) /\ sup.supported,
     update |-> os["update_available"] = Flag(TRUE),
     disk |-> disk["disk_total"].atom, free |-> disk["disk_free"].atom,
     issues |-> Len(resolution["issues"].list),
     cpu |-> stats["cpu_percent"].atom, memory |-> stats["memory_percent"].atom]

-----------------------------------------------------------------------------
(* Automations.  Under deny the id of a private entity is withheld and     *)
(* counted; a template's text is shown only where everything is allowed.   *)

HiddenID(profile, id) == profile = "deny" /\ ClassifyEntity(id) = Private

GetAutomation(profile, a) ==
    LET hidden == {r \in a.depends.refs : r.kind = "entity" /\ HiddenID(profile, r.id)}
    IN  [id |-> a.id, steps |-> a.steps, partial |-> a.partial,
         depends |-> a.depends.refs \ hidden, withheld |-> Cardinality(hidden),
         truncated |-> a.depends.truncated, unextracted |-> a.depends.unextracted]

MaskedValue(profile, v) ==
    IF v.kind = "entity" /\ HiddenID(profile, v.atom) THEN [v EXCEPT !.atom = "withheld"] ELSE v
ScrubbedAtom(v) == [v EXCEPT !.atom = IF v.atom \in Secrets THEN "[redacted]" ELSE v.atom]

(* Mutant: a template is shown wherever nothing is denied.                 *)
ShowsTemplates_UnlessDenied(profile) == profile # "deny"

ShowsTemplates(profile) == profile = "allow"

MaskedNode(profile, node) ==
    LET Apply(v) == IF v.kind = "template" THEN ScrubbedAtom(v) ELSE MaskedValue(profile, v)
        shown == SelectSeq(node.values, LAMBDA v : v.kind # "template" \/ ShowsTemplates(profile))
        values == [i \in DOMAIN shown |-> Apply(shown[i])]
        hidden == Len(node.values) - Len(shown) + Cardinality({i \in DOMAIN shown : values[i].atom = "withheld"})
    IN  [node EXCEPT !.values = values, !.withheld = @ + hidden]

Section(node) == IF node.path[1] \in {"trigger", "condition", "action"} THEN node.path[1] ELSE "variables"

(* What a top-level node weighs: itself and what is nested in it.          *)
Beneath(nodes, i) == {j \in DOMAIN nodes : j >= i /\ \A k \in (i+1)..j : ~nodes[k].top}

(* Mutant: every section has the whole of the bytes.                       *)
CapLogicBytes_EachSection(nodes) ==
    UNION {LET tops == SelectSeq([i \in DOMAIN nodes |-> i], LAMBDA i : nodes[i].top /\ Section(nodes[i]) = s)
               Fit(acc, i) == IF acc.full \/ Cardinality(Beneath(nodes, i)) > acc.left THEN [acc EXCEPT !.full = TRUE]
                              ELSE [acc EXCEPT !.left = @ - Cardinality(Beneath(nodes, i)), !.kept = @ \cup {i}]
           IN  FoldLeft(Fit, [left |-> MaxLogicNodeBytes, full |-> FALSE, kept |-> {}], tops).kept :
              s \in {"trigger", "condition", "action", "variables"}}

(* The top-level nodes that are kept: once one of a section does not fit,  *)
(* the rest of that section is dropped, and the next section goes on with  *)
(* what is left.                                                           *)
CapLogicBytes(nodes) ==
    LET tops == SelectSeq([i \in DOMAIN nodes |-> i], LAMBDA i : nodes[i].top)
        Fit(acc, i) ==
            IF Section(nodes[i]) \in acc.full THEN acc
            ELSE IF Cardinality(Beneath(nodes, i)) > acc.left
            THEN [acc EXCEPT !.full = @ \cup {Section(nodes[i])}]
            ELSE [acc EXCEPT !.left = @ - Cardinality(Beneath(nodes, i)), !.kept = @ \cup {i}]
    IN  FoldLeft(Fit, [left |-> MaxLogicNodeBytes, full |-> {}, kept |-> {}], tops).kept

GetAutomationLogic(profile, logic) ==
    LET nodes == logic.nodes
        masked == [i \in DOMAIN nodes |-> MaskedNode(profile, nodes[i])]
        kept == CapLogicBytes(nodes)
        tops == {i \in DOMAIN nodes : nodes[i].top}
        order == SelectSeq([i \in DOMAIN nodes |-> i], LAMBDA i : \E t \in kept : i \in Beneath(nodes, t))
        Count(kind) == MapThenSumSet(LAMBDA i : Len(SelectSeq(nodes[i].values, LAMBDA v :
                            IF kind = "template" THEN v.kind = "template" /\ ~ShowsTemplates(profile)
                            ELSE v.kind = "entity" /\ HiddenID(profile, v.atom))), DOMAIN nodes)
    IN  [nodes |-> [i \in DOMAIN order |-> masked[order[i]]],
         idsWithheld |-> Count("entity"), templatesWithheld |-> Count("template"),
         truncated |-> logic.truncated \/ kept # tops, partial |-> logic.partial]

(* A step's own values are scrubbed as well as masked.                     *)
MaskedSteps(profile, steps) ==
    LET Values(s) == [i \in DOMAIN s.values |-> ScrubbedAtom(MaskedValue(profile, s.values[i]))]
        Sub(s) == [i \in DOMAIN s.sub |-> [s.sub[i] EXCEPT !.values = Values(s.sub[i])]]
    IN  [i \in DOMAIN steps |-> [steps[i] EXCEPT !.values = Values(steps[i]), !.sub = Sub(steps[i])]]

(* capTraceBytes keeps the opening of the run.                             *)
StepsThatFit(steps) ==
    LET Weight(i) == MapThenSumSet(LAMBDA j : 1 + Len(steps[j].sub), 1..i)
        fit == {i \in DOMAIN steps : Weight(i) <= MaxTraceStepBytes}
    IN  Cardinality(fit)

GetAutomationTrace(profile, run) ==
    [run |-> ScrubText(Text(run.run)).atom, last |-> ScrubText(Text(run.last)).atom,
     steps |-> SubSeq(MaskedSteps(profile, run.steps), 1, StepsThatFit(run.steps)),
     dropped |-> run.dropped, partial |-> run.partial,
     truncated |-> run.truncated \/ StepsThatFit(run.steps) < Len(run.steps)]

(* Mutant: whoever the event is about, the automation's own class decides. *)
MaskFallbackEvents_ByAutomation(profile, id, events) ==
    [i \in DOMAIN events |->
        [entity |-> events[i].entity, when |-> events[i].when,
         name |-> MaskedText(profile, ClassifyEntity(id), events[i].entity, events[i].name),
         message |-> MaskedText(profile, ClassifyEntity(id), events[i].entity, events[i].message)]]

MaskFallbackEvents(profile, id, events) ==
    LET Masked(e, s) == MaskedText(profile, ClassifyEntity(e.entity), e.entity, s)
    IN  [i \in DOMAIN events |-> [entity |-> events[i].entity, when |-> events[i].when,
                                  name |-> Masked(events[i], events[i].name),
                                  message |-> Masked(events[i], events[i].message)]]

-----------------------------------------------------------------------------
(* One entity's history, masked as one payload.                            *)
MaskHistoryPoints(profile, id, points) ==
    LET Element(p) == IF p.attributes.k = "object" /\ DOMAIN p.attributes.map # {}
                      THEN Object([entity_id |-> Text(id), state |-> Text(p.state), attributes |-> p.attributes])
                      ELSE Object([entity_id |-> Text(id), state |-> Text(p.state)])
        masked == Payload(profile, Array([i \in DOMAIN points |-> Element(points[i])]), Nobody, 0).list
    IN  [i \in DOMAIN points |->
            [at |-> points[i].at, state |-> masked[i].map["state"], attributes |-> AsObject(Field(masked[i], "attributes"))]]
=============================================================================

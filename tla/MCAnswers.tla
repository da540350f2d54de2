------------------------------ MODULE MCAnswers ------------------------------
(* Answers over an installation of four entities, two devices, an area and *)
(* one automation, which has one of several configurations.                *)
EXTENDS Answers

-----------------------------------------------------------------------------
(* Texts.                                                                  *)
EntityIDs == {"light.hall", "person.anna", "person.ben", "sensor.door", "automation.eve", "scene.one", "scene.two",
              "light.else", "light.if", "light.then", "light.loop", "light.branch", "light.series", "light.spare",
              "light.turn_on"}
Slugs == {"dev0", "dev1", "hall", "cfg1", "run1", "run2", "entry1", "on", "off", "arrived", "state", "numeric_state",
          "and", "single", "turn_on", "light", "Evening", "zha", "deep"}
Templates == {"{{ x }}", "{{ token }}"}
Stamps == {"t0", "t1", "t2", "t3", "t4", "t5"}
TracePaths == {"trigger/0", "condition/0", "condition/0/entity_id/0", "condition/0/entity_id/1", "action/0",
               "action/0/parallel/0/sequence/0", "action/0/parallel/1/sequence/0", "action/0/if/condition/0",
               "action/0/then/0", "action/0/repeat/sequence/0"}
Keys == <<"above", "action", "actions", "alias", "area_id", "choose", "condition", "conditions", "config", "count",
          "data", "default", "delay", "device_id", "domain", "else", "enabled", "entity_id", "error", "for", "id", "if", "input",
          "message", "mode", "parallel", "params", "path", "repeat", "result", "sequence", "service", "state",
          "target", "then", "this", "to", "trigger", "triggers", "use_blueprint", "value_template", "variables",
          "while">>
OtherTexts == {"", "withheld", "[redacted]", "[denied]", "7", "5", "no id", "person.anna, light.hall", "hello anna", "#sesame", "#other", "at_home", "away", "open",
               "closed", "48.2", "unavailable", "unknown", "abc def", "automation.", "Hall", "Anna", "anna came home",
               "ran", "00:05", "true", "false", "ok", "warning", "2026.9", "presence", "someone", "Ground", "warm",
               "person", "sensor", "automation", "f1", "l1", "r1", "r2", "entry2", "user", "core", "10", "20", "a duration"}
PayloadKeys == {"attributes", "device_class", "latitude", "api_key", "s", "lu", "last_updated", "last_triggered"}
AllTexts == PayloadKeys \cup EntityIDs \cup Slugs \cup Templates \cup Stamps \cup TracePaths \cup OtherTexts \cup ToSet(Keys)

ShapeTable == [t \in AllTexts |->
    (IF t \in EntityIDs THEN {"entity"} ELSE {})
    \cup (IF t \in Slugs \cup {"someone"} THEN {"slug", "token"} ELSE {})
    \cup (IF t \in ToSet(Keys) THEN {"slug", "token"} ELSE {})
    \cup (IF t \in Templates THEN {"template"} ELSE {})
    \cup (IF t \in Stamps THEN {"stamp"} ELSE {})
    \cup (IF t \in TracePaths THEN {"path"} ELSE {})
    \cup (IF t \in {"7", "10"} THEN {"number", "slug", "token"} ELSE {})
    \cup (IF t = "00:05" THEN {"duration", "time"} ELSE {})
    \cup (IF t = "automation.eve" THEN {"automation"} ELSE {})] @@ <<>>

PartTable == [t \in AllTexts |-> IF t = "person.anna, light.hall" THEN <<"person.anna", "light.hall">> ELSE <<t>>] @@ <<>>

DomainTable == [t \in AllTexts |->
    CASE t \in {"person.anna", "person.ben"} -> "person"
      [] t = "sensor.door" -> "sensor"
      [] t \in {"automation.eve", "automation."} -> "automation"
      [] t \in {"scene.one", "scene.two"} -> "scene"
      [] t \in EntityIDs \ {"person.anna", "person.ben", "sensor.door", "automation.eve", "scene.one", "scene.two"} -> "light"
      [] OTHER -> ""] @@ <<>>

InstantTable == [t \in Stamps \cup {"7", "5", "10", "20", "48.2"} |->
    CASE t = "t0" -> 0 [] t = "t1" -> 1 [] t = "t2" -> 2 [] t = "t3" -> 3 [] t = "t4" -> 4
      [] t \in {"t5", "5"} -> 5 [] OTHER -> 7] @@ <<>>

IndexTable == <<"0", "1", "2", "3">>
ParentTable == [t \in AllTexts |->
    IF t \in {"condition/0/entity_id/0", "condition/0/entity_id/1"} THEN "condition/0" ELSE ""] @@ <<>>

-----------------------------------------------------------------------------
(* The installation.                                                       *)
O(f) == Object(f)
S(t) == Text(t)

EntityRows == Array(<<
    O([entity_id |-> S("light.hall"), platform |-> S("zha"), device_id |-> S("dev1"), config_entry_id |-> S("entry1")]),
    O([entity_id |-> S("person.anna"), platform |-> S("person")]),
    O([entity_id |-> S("person.ben"), platform |-> S("person"), disabled_by |-> S("user")]),
    O([entity_id |-> S("sensor.door"), platform |-> S("zha"), original_device_class |-> S("presence"),
       device_id |-> S("dev1"), config_entry_id |-> S("entry1")])>>)

StateRow(id, state) == O([entity_id |-> S(id), state |-> S(state)])
StateRows == Array(<<
    StateRow("light.hall", "on"), StateRow("person.anna", "at_home"), StateRow("person.ben", "unknown"),
    StateRow("sensor.door", "open"),
    O([entity_id |-> S("automation.eve"), state |-> S("on"), attributes |-> O([last_triggered |-> S("t3")])])>>)

DeviceRows == Array(<<
    O([id |-> S("dev1"), name |-> S("Hall"), config_entries |-> Array(<<S("entry1")>>), via_device_id |-> S("dev0"),
       area_id |-> S("hall")]),
    O([id |-> S("dev0"), name_by_user |-> S("core"), config_entry_id |-> S("entry1")])>>)

HistoryRows == O(
    [id \in {"sensor.door", "person.anna"} |-> Array(
        IF id = "person.anna"
        THEN <<O([state |-> S("at_home"), last_updated |-> S("t0"), attributes |-> O([latitude |-> Number("48.2")])]),
               O([s |-> S("away"), lu |-> Number("5")]),
               O([s |-> S("at_home"), lu |-> Number("7")])>>
        ELSE <<O([state |-> S("open"), last_updated |-> S("t0"),
                  attributes |-> O([device_class |-> S("presence"), api_key |-> S("#other"),
                                    path |-> O([path |-> O([path |-> O([path |-> S("#sesame")])])])])]),
               O([s |-> S("closed"), lu |-> Number("5")]),
               O([s |-> S("open"), lu |-> Number("7")])>>)])

LogbookRows == Array(<<
    O([entity_id |-> S("person.anna"), name |-> S("Anna"), message |-> S("anna came home"), when |-> S("t1")]),
    O([entity_id |-> S("person.ben"), name |-> S("Anna"), message |-> S("anna came home"), when |-> S("t2")]),
    O([entity_id |-> S("automation.eve"), name |-> S("#sesame"), message |-> S("ran"), when |-> S("t3")])>>)

House(config, trace) ==
    ("get_config" :> O([version |-> S("2026.9")]))
    @@ ("get_states" :> StateRows)
    @@ ("config/entity_registry/list" :> EntityRows)
    @@ ("config/device_registry/list" :> DeviceRows)
    @@ ("config/area_registry/list" :> Array(<<O([area_id |-> S("hall"), name |-> S("Hall"), floor_id |-> S("f1"),
                                                 labels |-> Array(<<S("l1")>>)])>>))
    @@ ("config/floor_registry/list" :> Array(<<O([floor_id |-> S("f1"), name |-> S("Ground")])>>))
    @@ ("config/label_registry/list" :> Array(<<O([label_id |-> S("l1"), name |-> S("warm")])>>))
    @@ ("config_entries/get" :> Array(<<O([entry_id |-> S("entry1"), domain |-> S("zha")]),
                                        O([entry_id |-> S("entry2"), domain |-> S("person"), disabled_by |-> S("user")])>>))
    @@ ("repairs/list_issues" :> O([issues |-> Array(<<
            O([issue_id |-> S("r1"), domain |-> S("zha"), severity |-> S("warning"), created |-> S("t1")]),
            O([issue_id |-> S("r2"), domain |-> S("zha"), severity |-> S("warning"), created |-> S("t2"),
               ignored |-> Flag(TRUE)])>>)]))
    @@ ("automation/config" :> O([config |-> config]))
    @@ ("trace/list" :> Array(<<
            O([run_id |-> S("run1"), state |-> S("off"), timestamp |-> O([start |-> S("t1"), finish |-> S("t2")])]),
            O([run_id |-> S("run2"), timestamp |-> O([start |-> S("t3")])])>>))
    @@ ("trace/get" :> O([run_id |-> S("run1"), last_step |-> S("action/0"), trace |-> Array(trace),
                          timestamp |-> O([start |-> S("t1")])]))
    @@ ("logbook/get_events" :> LogbookRows)
    @@ ("history/history_during_period" :> HistoryRows)
    @@ ("/info" :> O([homeassistant |-> S("2026.9"), hassos |-> S("10"), supported |-> Flag(TRUE)]))
    @@ ("/supervisor/info" :> O([version |-> S("10"), healthy |-> Flag(TRUE), supported |-> Flag(TRUE),
            addons |-> Array(<<O([slug |-> S("core"), state |-> S("on")]), O([slug |-> S("zha")])>>)]))
    @@ ("/os/info" :> O([version |-> S("20")]))
    @@ ("/host/info" :> O([disk_free |-> Number("10"), disk_total |-> Number("20")]))
    @@ ("/resolution/info" :> O([issues |-> Array(<<>>), unhealthy |-> Array(<<>>), unsupported |-> Array(<<>>)]))
    @@ ("/addons/self/stats" :> O([cpu_percent |-> Number("10"), memory_percent |-> Number("20")]))

-----------------------------------------------------------------------------
(* The automation: its configuration, and a run of it.                     *)
TurnOn(id) == O([action |-> S("light.turn_on"), target |-> O([entity_id |-> S(id)])])
Deep(v) == O([data |-> O([data |-> O([data |-> O([data |-> v])])])])

Plain == O([id |-> S("cfg1"), alias |-> S("Evening"),
    triggers |-> Array(<<O([trigger |-> S("state"), entity_id |-> S("person.anna, light.hall"), to |-> S("arrived")]), O([trigger |-> S("numeric_state"), above |-> Number("7")]),
                        O([id |-> S("7")])>>),
    conditions |-> Array(<<O([condition |-> S("and"), conditions |-> Array(<<
                                O([condition |-> S("state"), entity_id |-> S("person.ben")])>>)]), S("{{ token }}")>>),
    actions |-> Array(<<O([action |-> S("light.turn_on"), target |-> O([entity_id |-> S("light.hall")]),
                           data |-> O([message |-> S("someone"), for |-> S("00:05")])]),
                       O([delay |-> S("00:05")])>>)])

Branching == O([id |-> S("cfg1"), alias |-> S("Evening"),
    triggers |-> O([trigger |-> S("state"), entity_id |-> S("light.hall")]),
    actions |-> Array(<<
        O([choose |-> Array(<<O([conditions |-> S("{{ x }}"), sequence |-> Array(<<TurnOn("scene.one")>>)])>>),
           default |-> TurnOn("light.else")])>>)])

Nested == O([id |-> S("cfg1"), alias |-> S("Evening"),
    trigger |-> O([trigger |-> S("state"), entity_id |-> S("light.hall")]),
    actions |-> Array(<<
        O([parallel |-> Array(<<TurnOn("light.branch"), O([sequence |-> Array(<<TurnOn("light.series")>>)])>>),
           if |-> Array(<<O([condition |-> S("state"), entity_id |-> S("light.if")])>>),
           then |-> TurnOn("light.then"),
           repeat |-> O([count |-> Number("7"), sequence |-> TurnOn("light.loop")])])>>)])

Crowded == O([id |-> S("cfg1"), alias |-> S("Evening"), mode |-> S("single"),
    trigger |-> O([trigger |-> S("state"), for |-> O([minutes |-> Number("5")]),
                   entity_id |-> Array(<<S("light.hall"), S("light.if"), S("light.then"), S("light.hall")>>)]),
    action |-> Array(<<O([service |-> S("light.turn_on"), entity_id |-> S("light.else"), area_id |-> S("hall")]),
                       O([service |-> S("light.turn_on"), entity_id |-> S("light.spare"), device_id |-> S("dev1")])>>)])

Sparse == O([id |-> S("cfg1"), alias |-> S("Evening"),
    condition |-> O([condition |-> S("state"), entity_id |-> S("light.hall")]),
    action |-> Array(<<O([service |-> S("light.turn_on"), entity_id |-> S("light.else")])>>)])

Blueprint == O([alias |-> S("Evening"), variables |-> O([entity_id |-> S("scene.two"), message |-> S("hello anna")]),
    use_blueprint |-> O([path |-> S("no id"), input |-> O([entity_id |-> S("person.anna"), data |-> Deep(S("light.spare"))])])])

Odd1 == O([id |-> S("cfg1"), alias |-> Number("7"), trigger |-> Number("7"), condition |-> Array(<<S("someone")>>),
    action |-> Array(<<O([data |-> Deep(O([entity_id |-> S("light.spare")]))]), Null>>)])

Ran(t) == O([timestamp |-> S(t)])
Entry(path, steps) == O([path |-> S(path), steps |-> Array(steps)])

PlainRun == <<
    Entry("trigger/0", <<Ran("t0")>>),
    Entry("condition/0", <<O([timestamp |-> S("t1"), result |-> O([result |-> Flag(TRUE)])]), Ran("t3")>>),
    Entry("condition/0/entity_id/0", <<
        O([timestamp |-> S("t2"), result |-> O([state |-> S("at_home"), this |-> O([state |-> S("at_home")]),
           entity_id |-> S("person.ben"), data |-> Array(<<O([entity_id |-> S("person.anna"), state |-> S("at_home"),
                                                             attributes |-> O([state |-> S("on")])])>>)])]),
        Ran("t4")>>),
    Entry("no id", <<Ran("t4")>>),
    Entry("action/0", <<O([timestamp |-> S("t5"), result |-> O([params |-> O([domain |-> S("light"), service |-> S("turn_on"),
                                                               entity_id |-> S("light.hall")]),
                                                  error |-> S("abc def")])])>>)>>

OrphanRun == <<Entry("condition/0", <<Number("7")>>), Entry("condition/0/entity_id/1", <<Ran("t2")>>)>>

NestedRun == <<
    Entry("trigger/0", <<Ran("t0")>>),
    Entry("action/0", <<Ran("t0")>>), Entry("action/0/if/condition/0", <<Ran("t1")>>),
    Entry("action/0/then/0", <<Ran("t2")>>), Entry("action/0/repeat/sequence/0", <<Ran("t2"), Ran("t3")>>),
    Entry("action/0/parallel/0/sequence/0", <<Ran("t4")>>), Entry("action/0/parallel/1/sequence/0", <<Ran("t4")>>)>>

MCHomes(c) ==
    IF c.tool \notin AutomationTools THEN {House(Plain, PlainRun)}
    ELSE {House(Plain, PlainRun), House(Branching, <<>>), House(Nested, NestedRun), House(Crowded, <<>>),
          House(Sparse, OrphanRun), House(Blueprint, <<>>), House(Odd1, <<>>)}

-----------------------------------------------------------------------------
(* The calls.                                                              *)
Call(tool, id, profile) ==
    [tool |-> tool, profile |-> profile, id |-> id, run |-> "run1", filter |-> Filter, from |-> 0, to |-> 5]
Filtered(tool, f) == [Call(tool, "", "allow") EXCEPT !.filter = f]

ListTools == {"list_integrations", "list_devices", "list_areas", "list_apps", "list_repairs", "list_automations"}

MCCalls ==
    {Call(tool, "", "mask") : tool \in ListTools \cup {"get_system_overview", "get_system_health"}}
    \cup {Call("list_entities", "", profile) : profile \in Profiles}
    \cup {Filtered("list_entities", f) : f \in {
            [Filter EXCEPT !.integration = "zha", !.availability = "unavailable"],
            [Filter EXCEPT !.state = "on", !.availability = "sometimes"],
            [Filter EXCEPT !.domain = "light", !.device = "dev1", !.state = "on", !.availability = "available"],
            [Filter EXCEPT !.flag = "true"]}}
    \cup {Filtered(tool, [Filter EXCEPT !.flag = "false"]) : tool \in {"list_integrations", "list_devices", "list_automations"}}
    \cup {Call("get_entity", id, "mask") : id \in {"", "light.hall", "person.anna", "sensor.door"}}
    \cup {Call("get_entity", "light.hall", "allow")}
    \cup {Call("get_device", id, "mask") : id \in {"dev1", "cfg1"}}
    \cup {Call("get_integration", id, "mask") : id \in {"entry1", "f1"}}
    \cup {Call(tool, "automation.eve", profile) : tool \in AutomationTools, profile \in Profiles}
    \cup {[Call("get_automation_trace", "automation.eve", "mask") EXCEPT !.run = "no id"], Call("get_automation", "automation.", "mask")}
    \cup {Call("get_entity_history", id, profile) : id \in {"person.anna", "sensor.door"}, profile \in Profiles}
    \cup {[Call(tool, "person.anna", "mask") EXCEPT !.to = to] : tool \in {"get_entity_history", "get_entity_statistics"}, to \in {0, 5, 6, 9}}

MCFlips == {<<1, "unavailable">>, <<4, "unknown">>}
MCLimits == [ha_requests |-> 6, history_points |-> 3, entities |-> 3, bytes |-> 2]
EstimateTable == [w \in {0, 5, 6, 9} |-> [ha_requests |-> 0, history_points |-> IF w = 6 THEN 4 ELSE 1, entities |-> 1, bytes |-> 1]] @@ <<>>

-----------------------------------------------------------------------------
(* A constant's definition is evaluated at each of its uses; these are     *)
(* evaluated once.                                                         *)
MCShapes == ShapeTable
MCParts == PartTable
MCDomainOf == DomainTable
MCInstant == InstantTable
MCParentPath == ParentTable
MCIndexText == IndexTable
MCEstimate == EstimateTable
MCKeyOrder == Keys
=============================================================================

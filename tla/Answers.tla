------------------------------- MODULE Answers --------------------------------
(***************************************************************************)
(* The plain tools, one read at a time (internal/mcp): what is refused     *)
(* before anything is read, which reads a tool makes and in which order,   *)
(* which of them it can do without, and the answer.  One behaviour is one  *)
(* call of one tool, against one installation that may change, and whose   *)
(* release may have changed the shape of one answer.                       *)
(***************************************************************************)
EXTENDS ToolAnswers, QueryBudget

CONSTANTS
    Calls,              \* [tool, profile, id, run, filter, from, to]
    Homes(_),           \* the installations a call may be made to: what each route answers
    Flips,              \* <<n, state>>: the n-th row of get_states may change to state
    Limits, Estimate,   \* the call's budget; what a history read of a window may cost
    AnswerBytes,        \* what an answer weighs
    MaxHistoryWindow,
    To, StaleFactor,    \* of the statistics: their window ends now, at To
    PrivateTexts,       \* texts that occur nowhere but where a private entity's value does,
    ClassTexts,         \* the same where only its device class makes it private,
    SecretTexts         \* and texts that occur nowhere but where a secret does

VARIABLES
    call, home,
    todo,       \* the reads that are left, and
    at,         \* whether the next one is about to be asked or has been
    read,       \* what the reads so far gave, by reader
    heard,      \* history: the document each of them was made from
    trouble,    \* what made the tool leave its way, "none" so far
    sent,       \* history: the frames and requests sent, with the item each names
    used,       \* of the budget
    changed,    \* history: how often the installation changed
    spoiled,    \* history: how an answer differed from what the release gives
    end, answer

vars == <<call, home, todo, at, read, heard, trouble, sent, used, changed, spoiled, end, answer>>

H == INSTANCE History

-----------------------------------------------------------------------------
(* Before anything is read.                                                *)

AutomationTools == {"get_automation", "get_automation_traces", "get_automation_logic", "get_automation_trace"}
SupervisorTools == {"get_system_health", "list_apps"}

Window(c) == c.to - c.from

BadInput(c) ==
    \/ c.tool = "list_entities" /\ c.filter.availability \notin {"", "available", "unavailable"}
    \/ c.tool \in {"get_entity", "get_device", "get_integration"} /\ c.id = ""
    \/ c.tool \in AutomationTools /\ ~Is(c.id, "automation")
    \/ c.tool = "get_automation_trace" /\ ~Is(c.run, "slug")
    \/ c.tool \in {"get_entity_history", "get_entity_statistics"} /\ (~Is(c.id, "entity") \/ Window(c) <= 0)

Refusal(c) ==
    IF BadInput(c) THEN "invalid"
    ELSE IF c.tool \notin {"get_entity_history", "get_entity_statistics"} THEN "none"
    ELSE IF Window(c) > MaxHistoryWindow \/ ScopeDenied(c.profile, {c.id}) THEN "policy"
    ELSE IF ~Affords(used, Limits, Estimate[Window(c)]) THEN "budget" ELSE "none"

Plan == [
    get_system_overview |-> <<"CoreConfig", "StateCounts", "Entities", "Devices", "Areas", "ConfigEntries">>,
    get_system_health |-> <<"CoreInfo", "SupervisorInfo", "OSHealth", "HostDisk", "ResolutionSummary", "SelfStats">>,
    list_integrations |-> <<"ConfigEntries", "Entities", "Devices", "UnavailableEntityIDs">>,
    get_integration |-> <<"ConfigEntries", "Entities", "Devices", "UnavailableEntityIDs">>,
    list_devices |-> <<"Devices">>,
    get_device |-> <<"Devices", "Entities", "UnavailableEntityIDs">>,
    list_areas |-> <<"Areas", "Floors", "Labels">>,
    list_apps |-> <<"SupervisorInfo">>,
    list_repairs |-> <<"Repairs">>,
    list_automations |-> <<"Automations">>,
    list_entities |-> <<"Entities", "States", "UnavailableEntityIDs", "ConfigEntries">>,
    get_entity |-> <<"Entities", "States", "UnavailableEntityIDs", "Devices", "Areas", "ConfigEntries">>,
    get_automation |-> <<"AutomationDetail">>,
    get_automation_traces |-> <<"AutomationDetail", "AutomationTraces">>,
    get_automation_logic |-> <<"AutomationLogic">>,
    get_automation_trace |-> <<"AutomationDetail", "AutomationTraceRun">>,
    get_entity_history |-> <<"History">>,
    get_entity_statistics |-> <<"History">>]

End(how) == end' = how /\ at' = "done"
Going == UNCHANGED <<end, answer>>

Init ==
    /\ call \in Calls /\ home \in Homes(call)
    /\ todo = <<>> /\ at = "enter" /\ read = <<>> /\ heard = <<>> /\ trouble = "none"
    /\ sent = <<>> /\ used = Unspent /\ changed = 0 /\ spoiled = "no"
    /\ end = "running" /\ answer = <<>>

Enter ==
    /\ at = "enter"
    /\ UNCHANGED <<call, home, read, heard, trouble, sent, used, changed, spoiled, answer>>
    /\ IF Refusal(call) = "none"
       THEN todo' = Plan[call.tool] /\ at' = "ask" /\ UNCHANGED end
       ELSE End(Refusal(call)) /\ UNCHANGED todo

-----------------------------------------------------------------------------
(* One read.                                                               *)

(* Mutant: a run is asked for under whatever id the automation has.        *)
Early_AnyID(reader, value) ==
    IF reader = "Devices" /\ call.tool = "get_device" /\ ~Knows(value, call.id) THEN "gone"
    ELSE IF reader = "Entities" /\ call.tool = "get_entity" /\ ~Knows(value, call.id) THEN "gone"
    ELSE "none"

(* What a read that succeeded may still say: there is nothing to go on to. *)
Early(reader, value) ==
    IF reader = "Devices" /\ call.tool = "get_device" /\ ~Knows(value, call.id) THEN "gone"
    ELSE IF reader = "Entities" /\ call.tool = "get_entity" /\ ~Knows(value, call.id) THEN "gone"
    ELSE IF reader = "AutomationDetail" /\ "AutomationDetail" # Last(todo) /\ value.id = "" THEN "no_config_id"
    ELSE "none"

Optional(reader) == call.tool = "list_areas" /\ reader \in {"Floors", "Labels"}

(* Mutant: what was refused is asked for again.                            *)
Detour_AsksAgain(kind) ==
    IF call.tool \in AutomationTools /\ kind = "unknown_command" THEN <<"CoreConfig">>
    ELSE IF kind = "unsupported" THEN <<Head(todo)>> ELSE <<>>

(* classifyAutomationError reads the version to name it; a refused list of *)
(* runs is replaced by what every principal can read.                      *)
Detour(kind) ==
    IF call.tool \in AutomationTools /\ kind = "unknown_command" THEN <<"CoreConfig">>
    ELSE IF call.tool = "get_automation_traces" /\ kind \in {"unsupported", "no_config_id"}
    THEN <<"Automations", "LogbookEvents">> ELSE <<>>

(* The reader gave this; whatever fails on a detour is left out.           *)
Take(outcome) ==
    LET reader == Head(todo)
        kind == CASE trouble # "none" -> "none"
                  [] trouble = "none" /\ outcome.ok -> Early(reader, outcome.value)
                  [] trouble = "none" /\ ~outcome.ok -> IF Optional(reader) THEN "none" ELSE outcome.error
    IN  /\ read' = (reader :> outcome) @@ read
        /\ trouble' = IF kind = "none" THEN trouble ELSE kind
        /\ todo' = IF kind = "none" THEN Tail(todo) ELSE Detour(kind)
        /\ at' = "ask"

Item(reader) == IF reader \in {"AutomationTraces", "AutomationTraceRun"} THEN read["AutomationDetail"].value.id ELSE call.id

Allowed(reader) ==
    IF FromSupervisor(reader) THEN CheckSupervisorRoute(RouteOf(reader)) ELSE CheckCommand(RouteOf(reader))

(* The allow-list, the charge, and then the frame.                         *)
Ask ==
    /\ at = "ask" /\ todo # <<>>
    /\ UNCHANGED <<call, home, heard, changed, spoiled>> /\ Going
    /\ IF Allowed(Head(todo)) /\ Fits(used, Limits, "ha_requests", 1)
       THEN /\ used' = Charged(used, "ha_requests", 1)
            /\ sent' = Append(sent, [reader |-> Head(todo), item |-> Item(Head(todo))])
            /\ at' = "reply"
            /\ UNCHANGED <<todo, read, trouble>>
       ELSE Take(Err("budget")) /\ UNCHANGED <<sent, used>>

DocumentOf(reader) ==
    IF FromSupervisor(reader) THEN Envelope(home[RouteOf(reader)]) ELSE home[RouteOf(reader)]

(* An answer, as this release gives it or as another would, or none.       *)
GivenAs(doc) == {[how |-> spoiled, doc |-> doc]} \cup IF spoiled = "no" THEN Upgraded(doc) ELSE {}

Hear(doc) ==
    LET reader == Head(todo)
    IN  Take(ReadAs(reader, call.id, doc)) /\ heard' = (reader :> doc) @@ heard

Reply ==
    /\ at = "reply"
    /\ UNCHANGED <<call, home, sent, used, changed>> /\ Going
    /\ \/ \E given \in GivenAs(DocumentOf(Head(todo))) : Hear(given.doc) /\ spoiled' = given.how
       \/ /\ \E kind \in ErrorsOf(Head(todo)) : Take(Err(kind))
          /\ UNCHANGED <<heard, spoiled>>

(* Between two reads the installation changes; at most once, and only      *)
(* where the rest of the call would notice.                                *)
Flip ==
    /\ at = "ask" /\ changed = 0
    /\ \E i \in DOMAIN todo : RouteOf(todo[i]) = "get_states"
    /\ \E f \in Flips :
        home' = [home EXCEPT !["get_states"].list[f[1]].map["state"] = Text(f[2])]
    /\ changed' = 1
    /\ UNCHANGED <<call, todo, at, read, heard, trouble, sent, used, spoiled, end, answer>>

-----------------------------------------------------------------------------
(* The answer.                                                             *)

Value(reader) == read[reader].value
Succeeded(reader) == reader \in DOMAIN read /\ read[reader].ok
Rows(reader) == IF Succeeded(reader) THEN Value(reader) ELSE <<>>

Summaries == ListIntegrations(call.filter, Value("ConfigEntries"), Value("Entities"), Value("Devices"),
                              Value("UnavailableEntityIDs"))

Answered ==
    CASE call.tool = "get_system_overview" ->
            SystemOverview(Value("CoreConfig"), Value("StateCounts"), Value("Entities"), Value("Devices"),
                           Value("Areas"), Value("ConfigEntries"))
      [] call.tool = "get_system_health" ->
            SystemHealth(Value("CoreInfo"), Value("SupervisorInfo"), Value("OSHealth"), Value("HostDisk"),
                         Value("ResolutionSummary"), Value("SelfStats"))
      [] call.tool = "list_integrations" -> Summaries
      [] call.tool = "get_integration" -> Summaries[FirstOf(Summaries, call.id)]
      [] call.tool = "list_devices" -> ListDevices(call.filter, Value("Devices"))
      [] call.tool = "get_device" ->
            GetDevice(call.id, Value("Devices"), Value("Entities"), Value("UnavailableEntityIDs"))
      [] call.tool = "list_areas" -> ListAreas(Value("Areas"), Rows("Floors"), Rows("Labels"))
      [] call.tool = "list_apps" -> Value("SupervisorInfo").apps
      [] call.tool = "list_repairs" -> Value("Repairs")
      [] call.tool = "list_automations" ->
            SelectSeq(Value("Automations"), LAMBDA a : FlagIs(call.filter.flag, a.enabled))
      [] call.tool = "list_entities" ->
            ListEntities(call.profile, call.filter, Value("Entities"), Value("States"),
                         Value("UnavailableEntityIDs"), Value("ConfigEntries"))
      [] call.tool = "get_entity" ->
            GetEntity(call.profile, call.id, Value("Entities"), Value("States"), Value("UnavailableEntityIDs"),
                      Value("Devices"), Value("Areas"), Value("ConfigEntries"))
      [] call.tool = "get_automation" -> GetAutomation(call.profile, Value("AutomationDetail"))
      [] call.tool = "get_automation_traces" -> Value("AutomationTraces")
      [] call.tool = "get_automation_logic" -> GetAutomationLogic(call.profile, Value("AutomationLogic"))
      [] call.tool = "get_automation_trace" -> GetAutomationTrace(call.profile, Value("AutomationTraceRun"))
      [] call.tool = "get_entity_history" -> MaskHistoryPoints(call.profile, call.id, Value("History"))
      [] call.tool = "get_entity_statistics" ->
            [availability |-> H!Availability(Value("History")), cadence |-> H!Cadence(Value("History"))]

(* attachAutomationFallback, and the version a refused command is named    *)
(* with.                                                                   *)
Unsupported ==
    LET own == FirstOf(Rows("Automations"), call.id)
    IN  [version |-> IF Succeeded("CoreConfig") THEN Value("CoreConfig").version ELSE "",
         last |-> IF own = 0 THEN -1 ELSE Value("Automations")[own].last,
         events |-> MaskFallbackEvents(call.profile, call.id, Rows("LogbookEvents"))]

(* Mutant: whatever keeps a command from answering is called unsupported.  *)
Classify_Broad(kind) ==
    IF call.tool \in SupervisorTools \cup AutomationTools THEN "unsupported"
    ELSE IF kind \in {"gone", "not_found"} THEN "not_found" ELSE "failed"

(* How a call ends that left its way: markUnsupported, listApps and        *)
(* classifyAutomationError turn what they name into an answer.             *)
Classify(kind) ==
    CASE call.tool \in SupervisorTools -> "unsupported"
      [] call.tool \in AutomationTools /\ kind \in {"unsupported", "unknown_command", "no_config_id"} -> "unsupported"
      [] call.tool \in {"get_automation_logic", "get_automation_trace"} /\ kind = "not_found" -> "not_found"
      [] call.tool \notin SupervisorTools /\ kind = "gone" -> "not_found"
      [] OTHER -> "failed"

Finish(how, what) == End(how) /\ answer' = what

(* Mutant: the answer is paid for by its bytes alone.                      *)
Pays_BytesOnly(points, weight, what) ==
    IF Fits(used, Limits, "bytes", weight)
    THEN used' = Charged(used, "bytes", weight) /\ Finish("answered", what)
    ELSE Finish("budget", <<>>) /\ UNCHANGED used

(* The points are charged, then the bytes of the answer.                   *)
Pays(points, weight, what) ==
    LET paid == Charged(used, "history_points", points)
    IN  IF ~Fits(used, Limits, "history_points", points) THEN Finish("budget", <<>>) /\ UNCHANGED used
        ELSE IF ~Fits(used, Limits, "bytes", weight) THEN Finish("budget", <<>>) /\ used' = paid
        ELSE Finish("answered", what) /\ used' = Charged(paid, "bytes", weight)

Answer ==
    /\ at = "ask" /\ todo = <<>>
    /\ UNCHANGED <<call, home, todo, read, heard, trouble, sent, changed, spoiled>>
    /\ IF trouble # "none"
       THEN /\ Finish(Classify(trouble), IF Classify(trouble) = "unsupported" THEN Unsupported ELSE <<>>)
            /\ UNCHANGED used
       ELSE IF call.tool \in {"get_entity_history", "get_entity_statistics"}
       THEN \E weight \in AnswerBytes : Pays(Len(Value("History")), weight, Answered)
       ELSE /\ IF call.tool = "get_integration" /\ ~Knows(Summaries, call.id)
               THEN Finish("not_found", <<>>) ELSE Finish("answered", Answered)
            /\ UNCHANGED used

Ended == at = "done" /\ UNCHANGED vars

Next == Enter \/ Ask \/ Reply \/ Flip \/ Answer \/ Ended

Spec == Init /\ [][Next]_vars

-----------------------------------------------------------------------------
Readers == DOMAIN CoreReaders \cup DOMAIN SupervisorReaders

TypeOK ==
    /\ at \in {"enter", "ask", "reply", "done"}
    /\ end \in {"running", "invalid", "policy", "budget", "failed", "not_found", "unsupported", "answered"}
    /\ (at = "done") = (end # "running")
    /\ answer # <<>> => end \in {"unsupported", "answered"}
    /\ DOMAIN read \subseteq Readers /\ DOMAIN heard \subseteq DOMAIN read
    /\ ToSet(todo) \subseteq Readers
    /\ \A n \in DOMAIN sent : sent[n].reader \in DOMAIN read \cup {todo[i] : i \in DOMAIN todo}
    /\ used["ha_requests"] = Len(sent) /\ Within(used, Limits)
    /\ spoiled \in {"no", "field", "element", "document"}

Done(tools) == end = "answered" /\ call.tool \in tools

(* The texts an answer shows.                                              *)
Atoms(values) == {v.atom : v \in ToSet(values)}
Shown1(step) == Atoms(step.values) \cup UNION {Atoms(sub.values) : sub \in ToSet(step.sub)}
Told(event) == Texts(event.name) \cup Texts(event.message)
ShownTexts ==
    CASE Done({"list_entities"}) -> UNION {Texts(e.state) : e \in ToSet(answer)}
      [] Done({"get_entity"}) -> Texts(answer.entity.state)
      [] Done({"get_entity_history"}) -> UNION {Texts(p.state) \cup Texts(p.attributes) : p \in ToSet(answer)}
      [] Done({"get_automation_trace"}) -> UNION {Shown1(s) : s \in ToSet(answer.steps)}
      [] Done({"get_automation_logic"}) -> UNION {Atoms(n.values) : n \in ToSet(answer.nodes)}
      [] end = "unsupported" -> UNION {Told(e) : e \in ToSet(answer.events)}
      [] OTHER -> {}

(* Unless the profile allows it, no tool shows the value of a private      *)
(* entity: not its state, not what its attributes or the logbook say of    *)
(* it, whichever shape an answer has - but a row that does not say whom it *)
(* is about is about nobody.  What only a device class makes private stays *)
(* in as long as Home Assistant reports the class.                         *)
PrivateStaysIn ==
    call.profile # "allow" =>
        /\ IF end = "unsupported"
           THEN \A e \in ToSet(answer.events) : e.entity # "" => Told(e) \cap PrivateTexts = {}
           ELSE ShownTexts \cap PrivateTexts = {}
        /\ spoiled = "no" => ShownTexts \cap ClassTexts = {}

(* A template is shown to nobody from whom anything private is kept, and a *)
(* private id not to a profile that denies it: neither where an automation *)
(* depends on it nor where its logic or a run names it.                    *)
DeniedIDsStayIn ==
    /\ (call.profile # "allow" /\ Done({"get_automation_logic", "get_automation_trace"})) =>
            \A s \in ShownTexts : ~Is(s, "template")
    /\ call.profile = "deny" =>
        /\ \A s \in ShownTexts : ~(Is(s, "entity") /\ ClassifyEntity(s) = Private)
        /\ Done({"get_automation"}) => \A r \in answer.depends : ClassifyEntity(r.id) # Private

(* What is secret passes under no profile, however deep it lies.           *)
SecretsStayIn == ShownTexts \cap SecretTexts = {}

SameToken(a, b) == a.k = "token" /\ a = b

(* A token stands for one value of one entity: two of an answer are equal  *)
(* exactly when both are, so that changes stay countable and one entity's  *)
(* are not taken for another's.                                            *)
TokensTellApart ==
    /\ Done({"list_entities"}) =>
        \A i, j \in DOMAIN answer :
            SameToken(answer[i].state, answer[j].state) => answer[i].id = answer[j].id
    /\ Done({"get_entity_history"}) =>
        \A i, j \in DOMAIN answer : answer[i].state.k = "token" =>
            (answer[i].state = answer[j].state) = (Value("History")[i].state = Value("History")[j].state)
    /\ end = "unsupported" =>
        \A i, j \in DOMAIN answer.events :
            SameToken(answer.events[i].message, answer.events[j].message) =>
                answer.events[i].entity = answer.events[j].entity

-----------------------------------------------------------------------------
(* The ids a configuration refers to, at any depth.                        *)
RECURSIVE Referred(_)
Referred(v) ==
    LET Listed1(w) == IF w.k = "text" THEN ToSet(Parts[w.atom]) ELSE {e.atom : e \in {x \in ToSet(w.list) : x.k = "text"}}
        Under(key) ==
            CASE key = "entity_id" -> {t \in Listed1(v.map[key]) : Is(t, "entity")}
              [] key \in {"device_id", "area_id"} -> {t \in Listed1(v.map[key]) : Is(t, "slug")}
              [] OTHER -> Referred(v.map[key])
    IN  CASE v.k = "object" -> UNION {Under(key) : key \in DOMAIN v.map}
          [] v.k = "list"   -> UNION {Referred(v.list[i]) : i \in DOMAIN v.list}
          [] OTHER          -> {}

ConfigOf(reader) == AsObject(Field(heard[reader], "config"))

(* Every id an automation refers to is in its dependencies, or they say    *)
(* that they were cut, not all read, or how many were withheld.            *)
DependenciesAccounted ==
    Done({"get_automation"}) =>
        LET referred == Referred(ConfigOf("AutomationDetail"))
        IN  /\ {r.id : r \in answer.depends} \subseteq referred
            /\ \/ answer.truncated \/ answer.unextracted > 0
               \/ Cardinality({r.id : r \in answer.depends}) + answer.withheld = Cardinality(referred)

EntityTexts(v) == {t \in UNION {ToSet(Parts[text]) : text \in Texts(v)} : Is(t, "entity")}
LogicKeys == {"trigger", "triggers", "condition", "conditions", "action", "actions", "variables"}

(* Every entity that the triggers, conditions or actions of an automation  *)
(* name is shown in its logic, or the logic says that something is         *)
(* withheld, cut or not understood: no branch is left out without a word.  *)
NoBranchIsLost ==
    Done({"get_automation_logic"}) =>
        LET config == ConfigOf("AutomationLogic")
            named == UNION {EntityTexts(config.map[key]) : key \in LogicKeys \cap DOMAIN config.map}
        IN  \/ answer.truncated \/ answer.partial \/ answer.idsWithheld > 0
            \/ \E n \in ToSet(answer.nodes) : n.withheld > 0
            \/ named \subseteq ShownTexts

(* The text a user wrote is not shown, whatever it looks like.             *)
NoFreeText ==
    Done({"get_automation_logic"}) =>
        \A n \in ToSet(answer.nodes) : \A v \in ToSet(n.values) : ToSet(v.key) \cap FreeTextKeys = {}

Joined(path) == FoldLeft(LAMBDA text, part : IF text = "" THEN part ELSE text \o "/" \o part, "", path)

(* The path of every step of a run is the path of a node of the logic that *)
(* ran, so that the two tools' answers can be laid side by side.           *)
AreAmong(steps, named) == \A s \in ToSet(steps) : s.path \in named \/ ParentPath[s.path] \in named
NamesNodes(steps, logic) == logic.truncated \/ AreAmong(steps, {Joined(n.path) : n \in ToSet(logic.nodes)})

StepsNameNodes ==
    (Done({"get_automation_trace"}) /\ spoiled = "no") =>
        NamesNodes(answer.steps, MapAutomationLogic(ConfigOf("AutomationDetail")))

(* Every step of a run that can be read is shown once, under the path it   *)
(* ran at, as a step or as a check of a condition.                         *)
StepsShownOnce ==
    (Done({"get_automation_trace"}) /\ ~answer.truncated) =>
        LET entries == ToSet(Field(heard["AutomationTraceRun"], "trace").list)
            valid == {e \in entries : Is(OptString(e, "path"), "path")}
            ran(e) == {<<OptString(e, "path"), OptTime(s, "timestamp")>> :
                            s \in {s \in ToSet(Field(e, "steps").list) : IsObject(s) /\ HasInstant(s, "timestamp")}}
            subs == UNION {ToSet(s.sub) : s \in ToSet(answer.steps)}
            shown == {<<s.path, s.at>> : s \in ToSet(answer.steps) \cup subs}
        IN  /\ shown = UNION {ran(e) : e \in valid}
            /\ Cardinality(shown) = MapThenSumSet(LAMBDA i : 1 + Len(answer.steps[i].sub), DOMAIN answer.steps)

(* A condition's check of an entity hangs off the turn it was made in.     *)
ChecksUnderTheirTurn ==
    (Done({"get_automation_trace"}) /\ spoiled = "no") =>
        \A i \in DOMAIN answer.steps : \A sub \in ToSet(answer.steps[i].sub) :
            LET own == {j \in DOMAIN answer.steps : answer.steps[j].path = answer.steps[i].path}
            IN  /\ ParentPath[sub.path] = answer.steps[i].path
                /\ answer.steps[i].at <= sub.at
                /\ \A j \in own : j > i => sub.at < answer.steps[j].at

-----------------------------------------------------------------------------
ListSource == [list_integrations |-> "ConfigEntries", list_devices |-> "Devices", list_areas |-> "Areas",
               list_apps |-> "SupervisorInfo", list_repairs |-> "Repairs", list_entities |-> "Entities",
               get_automation_traces |-> "AutomationTraces", get_entity_history |-> "History"]

(* The elements of the document a list was made from.                      *)
ElementsHeard ==
    LET doc == heard[ListSource[call.tool]]
    IN  CASE call.tool = "list_apps" -> Field(Field(doc, "data"), "addons").list
          [] call.tool = "list_repairs" -> Field(doc, "issues").list
          [] call.tool = "get_entity_history" -> Field(doc, call.id).list
          [] OTHER -> doc.list

(* A list that was not asked to leave anything out holds one item for each *)
(* element of the answer it was made from, also of one that lacks a field; *)
(* only a recorded point without its state or its instant is none, and it  *)
(* costs no other.                                                         *)
ListsAreWhole ==
    (Done(DOMAIN ListSource) /\ call.filter = Filter) =>
        \/ Len(answer) = Len(ElementsHeard)
        \/ call.tool = "get_entity_history" /\ spoiled \in {"field", "element"} /\ Len(answer) = Len(ElementsHeard) - 1

Identifying == [CoreInfo |-> {"homeassistant"}, SupervisorInfo |-> {"version", "addons"}, OSHealth |-> {"version"},
                HostDisk |-> {"disk_total"}, ResolutionSummary |-> {"issues"}, SelfStats |-> {"memory_percent"}]

Reported(reader) == Field(heard[reader], "data")
Flagged(reader, key) == Field(Reported(reader), key) = Flag(TRUE)
Figure(reader, key) == Field(Reported(reader), key).atom

(* get_system_health is given only when every one of its six routes        *)
(* succeeded and named the keys that identify its answer: one that did not *)
(* makes the whole unsupported, and nothing else does.  What it then shows *)
(* is what the routes said: nothing is healthy, supported or up to date by *)
(* default, no figure comes from elsewhere.  A key that does not identify  *)
(* an answer may be missing or null, and is then shown as zero or false.   *)
HealthIsWhole ==
    call.tool = "get_system_health" =>
        /\ Done({"get_system_health"}) =>
            /\ \A reader \in ToSet(Plan["get_system_health"]) :
                /\ Field(heard[reader], "result") = Text("ok")
                /\ Identifying[reader] \subseteq DOMAIN Reported(reader).map
            /\ answer.healthy = Flagged("SupervisorInfo", "healthy")
            /\ answer.supported = (Flagged("CoreInfo", "supported") /\ Flagged("SupervisorInfo", "supported"))
            /\ answer.update = Flagged("OSHealth", "update_available")
            /\ answer.disk = Figure("HostDisk", "disk_total") /\ answer.free = Figure("HostDisk", "disk_free")
            /\ answer.cpu = Figure("SelfStats", "cpu_percent") /\ answer.memory = Figure("SelfStats", "memory_percent")
            /\ answer.issues = Len(Field(Reported("ResolutionSummary"), "issues").list)
        /\ end \in {"running", "answered", "unsupported"}
        /\ end = "unsupported" => \E reader \in DOMAIN read : ~read[reader].ok

Unusable == {"unavailable", "unknown"}

RowsHeard(reader, id) == SelectSeq(heard[reader].list, LAMBDA row : OptString(row, "entity_id") = id)

(* The two reads of get_states are taken for one: the state shown and the  *)
(* availability beside it disagree for no entity but one that was reported *)
(* differently in the two, whatever else changed in between.               *)
AvailabilityAgrees ==
    (Done({"list_entities", "get_entity"}) /\ call.profile = "allow") =>
        \A e \in IF call.tool = "get_entity" THEN {answer.entity} ELSE ToSet(answer) :
            (e.state.k = "text" /\ RowsHeard("States", e.id) = RowsHeard("UnavailableEntityIDs", e.id)) =>
                e.available = (e.state.atom \notin Unusable)

(* Runs are asked for under the id that this automation's own              *)
(* configuration gave, and never under none.                               *)
RunsOfItsOwn ==
    \A n \in DOMAIN sent : sent[n].reader \in {"AutomationTraces", "AutomationTraceRun"} =>
        /\ n > 1 /\ sent[n].item # ""
        /\ sent[n].item = OptString(ConfigOf("AutomationDetail"), "id")

Says(kind) == \E reader \in DOMAIN read : read[reader].error = kind

(* Unsupported is a fact about the installation: Home Assistant refused    *)
(* the command or does not know it, or the automation has no id.  A lost   *)
(* connection, a spent budget or an answer that cannot be read is never    *)
(* called that, and never passes for an answer.                            *)
UnsupportedIsAFact ==
    call.tool \in AutomationTools =>
        /\ end = "unsupported" => \/ Says("unsupported") \/ Says("unknown_command")
                                  \/ trouble = "no_config_id"
        /\ end = "answered" => \A reader \in DOMAIN read : read[reader].ok
        /\ (end = "unsupported" /\ answer.events # <<>>) => trouble \in {"unsupported", "no_config_id"}

(* What the byte cap leaves of an automation's logic or of a run fits it,  *)
(* begins where the whole does, and says that it is not the whole.         *)
CutFitsAndIsTold ==
    /\ Done({"get_automation_logic"}) =>
        LET whole == Value("AutomationLogic").nodes
        IN  /\ Len(answer.nodes) <= MaxLogicNodeBytes
            /\ Len(answer.nodes) < Len(whole) => answer.truncated
            /\ (answer.nodes # <<>> /\ whole[1].top /\ Cardinality(Beneath(whole, 1)) <= MaxLogicNodeBytes)
                    => answer.nodes[1].path = whole[1].path
    /\ Done({"get_automation_trace"}) =>
        LET whole == Value("AutomationTraceRun").steps
        IN  /\ MapThenSumSet(LAMBDA i : 1 + Len(answer.steps[i].sub), DOMAIN answer.steps) <= MaxTraceStepBytes
            /\ Len(answer.steps) < Len(whole) => answer.truncated
            /\ \A i \in DOMAIN answer.steps : answer.steps[i].path = whole[i].path

(* Every point an answer shows or counts was paid for, and the answer too; *)
(* one that cannot be paid for is not given.                               *)
PointsPaid ==
    call.tool \in {"get_entity_history", "get_entity_statistics"} =>
        /\ end = "answered" => used["history_points"] = Len(Value("History")) /\ used["bytes"] > 0
        /\ end \in {"invalid", "policy"} => sent = <<>> /\ used = Unspent

(* No reader is asked twice: every step but the installation's own leaves  *)
(* less to do, so that every call ends.                                    *)
EveryReadIsNew ==
    [][\/ at = "enter" \/ at' = "done" \/ changed' > changed
       \/ Len(sent') > Len(sent) /\ read' = read
       \/ Cardinality(DOMAIN read') > Cardinality(DOMAIN read)]_vars

(* Nothing leaves that the profile withholds: no private value, no denied  *)
(* id, no secret, no text a user wrote, and no token that would tie two    *)
(* entities together (internal/redact, the privacy of each tool).          *)
NothingLeaks ==
    PrivateStaysIn /\ DeniedIDsStayIn /\ SecretsStayIn /\ TokensTellApart /\ NoFreeText

(* An automation's logic and dependencies are whole, or say what they lack *)
(* (MapAutomation, MapAutomationLogic, capLogicBytes).                     *)
LogicIsWhole == DependenciesAccounted /\ NoBranchIsLost /\ CutFitsAndIsTold

(* A run's steps are where they ran: each once, at a node of the logic, a  *)
(* check under the turn it was made in (MapAutomationTraceRun).            *)
StepsInPlace == StepsNameNodes /\ StepsShownOnce /\ ChecksUnderTheirTurn

(* The inventory is what Home Assistant told: lists lose no element to     *)
(* another release's fields, health is whole or not given, and             *)
(* availability agrees with the state beside it (mapping.go).              *)
InventoryIsWhole == ListsAreWhole /\ HealthIsWhole /\ AvailabilityAgrees

(* How a call ends is a fact: unsupported what the installation does not   *)
(* give, answered what was paid for, and runs asked for under the          *)
(* automation's own id (classifyAutomationError, AutomationTraces).        *)
OutcomesAreFacts == UnsupportedIsAFact /\ PointsPaid /\ RunsOfItsOwn
=============================================================================

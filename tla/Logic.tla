------------------------------- MODULE Logic --------------------------------
(***************************************************************************)
(* What leaves an automation's configuration (internal/ha/mapping.go, the  *)
(* dependency walk; internal/ha/automation_logic.go): the ids it names,    *)
(* and its triggers, conditions and actions as typed nodes.  Both walks    *)
(* are written as the sequence of what they meet, in the order they meet   *)
(* it; a cap keeps a prefix of that sequence.                              *)
(***************************************************************************)
EXTENDS Mapping

CONSTANTS
    KeyOrder,               \* every key that occurs, in the order keys sort
    IndexText,              \* the text of 0, of 1, ...
    MaxDependencies, MaxWalkDepth,
    MaxNodes, MaxLogicDepth, MaxValues, MaxValueDepth,
    FreeTextKeys            \* alias, description, message, title, name

ASSUME LogicCapsAssumption ==
    {MaxDependencies, MaxWalkDepth, MaxNodes, MaxLogicDepth, MaxValues, MaxValueDepth} \subseteq Nat

SortedKeys(raw) == SelectSeq(KeyOrder, LAMBDA key : Has(raw, key))
FirstFew(seq, n) == SubSeq(seq, 1, IF n < Len(seq) THEN n ELSE Len(seq))

-----------------------------------------------------------------------------
(* The ids a configuration depends on.                                     *)

Grammar(kind) == IF kind = "entity" THEN "entity" ELSE "slug"
Unread == [kind |-> "unread", id |-> ""]
Mention(text, kind) == IF Is(text, Grammar(kind)) THEN [kind |-> kind, id |-> text] ELSE Unread

(* collect: one text may hold several ids, a list holds one in each item.  *)
Collect(v, kind) ==
    CASE v.k = "text" -> [i \in DOMAIN Parts[v.atom] |-> Mention(Parts[v.atom][i], kind)]
      [] v.k = "list" ->
            [i \in DOMAIN v.list |-> IF v.list[i].k = "text" THEN Mention(v.list[i].atom, kind) ELSE Unread]
      [] OTHER -> <<Unread>>

RECURSIVE Mentions(_, _)
MentionsUnder(v, key, depth) ==
    CASE key = "entity_id" -> Collect(v.map[key], "entity")
      [] key = "device_id" -> Collect(v.map[key], "device")
      [] key = "area_id" -> Collect(v.map[key], "area")
      [] key = "value_template" -> IF HasString(v, key) THEN <<Unread>> ELSE <<>>
      [] OTHER -> Mentions(v.map[key], depth + 1)

MentionsAt(v, keys, depth) == FlattenSeq([i \in DOMAIN keys |-> MentionsUnder(v, keys[i], depth)])

Mentions(v, depth) ==
    IF depth > MaxWalkDepth THEN <<Unread>>
    ELSE IF v.k = "object" THEN MentionsAt(v, SortedKeys(v), depth)
    ELSE IF v.k = "list" THEN FlattenSeq([i \in DOMAIN v.list |-> Mentions(v.list[i], depth + 1)]) ELSE <<>>

(* Mutant: a cap cuts without a word.                                      *)
OverCap_Silent(n, cap) == FALSE

OverCap(n, cap) == n > cap

(* Where an id is met for the first time.                                  *)
FirstMet(ids) == {i \in DOMAIN ids : \A j \in 1..(i-1) : ids[j] # ids[i]}

DependenciesAmong(ids, first, unextracted) == [
    refs |-> {ids[i] : i \in {i \in first : Cardinality({j \in first : j < i}) < MaxDependencies}},
    truncated |-> OverCap(Cardinality(first), MaxDependencies),
    unextracted |-> unextracted]

DependenciesMet(met) ==
    LET ids == SelectSeq(met, LAMBDA m : m # Unread)
    IN  DependenciesAmong(ids, FirstMet(ids), Len(met) - Len(ids))

ExtractDependencies(body) == DependenciesMet(Mentions(body, 0))

SequenceLen(raw, singular, plural) ==
    LET Counted(key) == Field(raw, key).k \notin {"absent", "null"}
        Size(key) == IF Field(raw, key).k = "list" THEN Len(Field(raw, key).list) ELSE 1
    IN  IF Counted(singular) THEN Size(singular) ELSE IF Counted(plural) THEN Size(plural) ELSE 0

(* MapAutomation, of the "config" of automation/config.                    *)
MapAutomation(doc) ==
    LET body == AsObject(Field(doc, "config"))
    IN  IF ~IsObject(doc) \/ Field(doc, "config").k \notin {"object", "null", "absent"} THEN Failed
        ELSE Mapped([id |-> OptString(body, "id"),
                     steps |-> SequenceLen(body, "trigger", "triggers")
                               + SequenceLen(body, "condition", "conditions")
                               + SequenceLen(body, "action", "actions"),
                     depends |-> ExtractDependencies(body),
                     partial |-> Reasons(body, {}, {"id", "alias"}) # {}])
-----------------------------------------------------------------------------
(* Typed values: what passes a grammar is shown, the rest is counted.      *)

StrictKinds == [entity_id |-> "entity", device_id |-> "device", area_id |-> "area",
                action |-> "service", service |-> "service"]
StrictGrammar(last) == IF last \in {"device_id", "area_id"} THEN "slug" ELSE "entity"
DurationKeys == {"for", "delay", "timeout", "offset"}
DurationUnits == {"days", "hours", "minutes", "seconds", "milliseconds"}

Withheld == [key |-> <<>>, kind |-> "withheld", atom |-> ""]
Typed(key, kind, atom) == [key |-> key, kind |-> kind, atom |-> atom]

DurationObject(m) ==
    /\ DOMAIN m.map # {}
    /\ \A key \in DOMAIN m.map : key \in DurationUnits /\ m.map[key].k = "number"

StrictValue(key, last, part) ==
    IF Is(part, StrictGrammar(last)) THEN Typed(key, StrictKinds[last], part) ELSE Withheld

(* Any other text has the first of these kinds whose grammar it matches.   *)
FreeKinds(last) ==
    IF last \in DurationKeys THEN <<"number", "duration", "time", "entity", "token">>
                             ELSE <<"number", "time", "entity", "token">>
FreeValue(key, kinds, s) == IF kinds = <<>> THEN Withheld ELSE Typed(key, Head(kinds), s)

Str(key, last, s) ==
    IF Is(s, "template") THEN <<Typed(key, "template", s)>>
    ELSE IF last \in DOMAIN StrictKinds THEN [i \in DOMAIN Parts[s] |-> StrictValue(key, last, Parts[s][i])]
    ELSE <<FreeValue(key, SelectSeq(FreeKinds(last), LAMBDA kind : Is(s, kind)), s)>>

(* Mutant: the text a user wrote passes when it looks like a token.        *)
ShowsKey_AnyToken(key) == Is(key, "token")

ShowsKey(key) == Is(key, "token") /\ key \notin FreeTextKeys

RECURSIVE ValueOf(_, _, _, _)
ValuesUnder(m, key, prefix, depth) ==
    IF ShowsKey(key) THEN ValueOf(Append(prefix, key), key, m.map[key], depth)
    ELSE IF m.map[key].k = "null" THEN <<>> ELSE <<Withheld>>

ValuesAt(m, keys, prefix, depth) == FlattenSeq([i \in DOMAIN keys |-> ValuesUnder(m, keys[i], prefix, depth)])

ValuesOf(m, prefix, depth, skip) ==
    ValuesAt(m, SelectSeq(SortedKeys(m), LAMBDA key : key \notin skip), prefix, depth)

ValueOf(key, last, v, depth) ==
    CASE v.k = "null" -> <<>>
      [] v.k = "text" -> Str(key, last, v.atom)
      [] v.k \in {"flag", "number"} ->
            <<IF last \in DOMAIN StrictKinds THEN Withheld ELSE Typed(key, v.k, v.atom)>>
      [] v.k = "list" ->
            FlattenSeq([i \in DOMAIN v.list |->
                IF v.list[i].k \in {"object", "list"} THEN <<Withheld>> ELSE ValueOf(key, last, v.list[i], depth)])
      [] v.k = "object" ->
            IF last \in DurationKeys /\ DurationObject(v) THEN <<Typed(key, "duration", "a duration")>>
            ELSE IF depth >= MaxValueDepth THEN <<Withheld>> ELSE ValuesOf(v, key, depth + 1, {})

-----------------------------------------------------------------------------
(* The walk: what it meets, each with the path of the node it hangs off.   *)

Met(what, path, of, depth, role, raw) ==
    <<[what |-> what, path |-> path, of |-> of, depth |-> depth, role |-> role, raw |-> raw]>>
Odd(of) == Met("odd", <<>>, of, 0, "none", Null)

Items(v) == IF v.k = "list" THEN v.list ELSE IF v.k \in {"object", "text"} THEN <<v>> ELSE <<>>

ActionKinds == <<"action", "service", "choose", "if", "repeat", "parallel", "sequence", "wait_for_trigger",
                 "wait_template", "delay", "event", "scene", "stop", "variables", "condition", "device_id">>
ActionKind(m) ==
    LET at == SelectInSeq(ActionKinds, LAMBDA key : Has(m, key))
    IN  IF at = 0 THEN ""
        ELSE CASE ActionKinds[at] = "action"    -> "service"
               [] ActionKinds[at] = "device_id" -> "device"
               [] OTHER                         -> ActionKinds[at]

(* Mutant: a branch is named by its place alone.                           *)
BranchPath_Plain(path, item) == path

(* The single step a parallel branch holds is its sequence's first.        *)
BranchPath(path, item) ==
    IF item.k = "object" /\ ~Has(item, "sequence") THEN path \o <<"sequence", IndexText[1]>> ELSE path

RECURSIVE Node(_, _, _, _, _)
NodesAt(items, path, depth, role, of) ==
    FlattenSeq([i \in DOMAIN items |-> Node(items[i], Append(path, IndexText[i]), depth, role, of)])

ListOf(v, path, depth, role, of) ==
    IF v.k \in {"number", "flag"} THEN Odd(of) ELSE NodesAt(Items(v), path, depth, role, of)

Branches(items, path, depth, of) ==
    FlattenSeq([i \in DOMAIN items |->
        Node(items[i], BranchPath(Append(path, IndexText[i]), items[i]), depth, "action", of)])

Parallel(v, path, depth, of) ==
    Branches(IF v.k = "list" THEN v.list ELSE IF v.k \in {"null", "absent"} THEN <<>> ELSE <<v>>, path, depth, of)

Repeat(v, path, depth, of) ==
    CASE v.k \in {"null", "absent"} -> <<>>
      [] v.k = "object" -> ListOf(Field(v, "while"), Append(path, "while"), depth, "condition", of)
                           \o ListOf(Field(v, "until"), Append(path, "until"), depth, "condition", of)
                           \o ListOf(Field(v, "sequence"), Append(path, "sequence"), depth, "action", of)
      [] OTHER -> Odd(of)

(* Mutant: what a choice falls back to is forgotten.                       *)
ActionBranches_NoDefault ==
    <<"choose", "if", "then", "else", "repeat", "parallel", "sequence", "wait_for_trigger", "conditions">>

ActionBranches ==
    <<"choose", "default", "if", "then", "else", "repeat", "parallel", "sequence", "wait_for_trigger", "conditions">>

Branch(m, key, path, depth) ==
    LET v == Field(m, key)
        Under(as) == ListOf(v, Append(path, key), depth, as, path)
    IN  CASE key = "choose" -> Under("option")
          [] key = "if" -> ListOf(v, path \o <<"if", "condition">>, depth, "condition", path)
          [] key = "repeat" -> Repeat(v, Append(path, "repeat"), depth, path)
          [] key = "parallel" -> Parallel(v, Append(path, "parallel"), depth, path)
          [] key = "wait_for_trigger" -> Under("trigger")
          [] key = "conditions" -> IF ActionKind(m) = "condition" THEN Under("condition") ELSE <<>>
          [] OTHER -> Under("action")

Children(m, path, depth, role) ==
    LET Under(key, as) == ListOf(Field(m, key), Append(path, key), depth, as, path)
    IN  CASE role = "condition" -> Under("conditions", "condition")
          [] role = "option" -> Under("conditions", "condition") \o Under("sequence", "action")
          [] role = "action" -> FlattenSeq([i \in DOMAIN ActionBranches |-> Branch(m, ActionBranches[i], path, depth)])
          [] OTHER -> <<>>

Node(item, path, depth, role, of) ==
    IF depth > MaxLogicDepth THEN Met("deep", path, of, depth, role, item)
    ELSE IF item.k = "text" /\ role = "condition" /\ Is(item.atom, "template")
    THEN Met("node", path, of, depth, "template", item)
    ELSE IF item.k # "object" THEN Met("bad", path, of, depth, role, item)
    ELSE Met("node", path, of, depth, role, item) \o Children(item, path, depth + 1, role)
-----------------------------------------------------------------------------
(* From what the walk met to the nodes that are shown.                     *)

SectionOf(body, name, keys, role) ==
    LET at == SelectInSeq(keys, LAMBDA key : Has(body, key))
    IN  IF at = 0 THEN <<>> ELSE ListOf(Field(body, keys[at]), <<name>>, 0, role, <<>>)

VariablesAt(raw, key, path, role) ==
    LET v == Field(raw, key)
    IN  CASE v.k \in {"null", "absent"} -> <<>>
          [] v.k = "object" -> Met("node", path, <<>>, 0, role, IF role = "blueprint_input" THEN raw ELSE v)
          [] OTHER -> Odd(<<>>)

Variables(body) ==
    VariablesAt(body, "variables", <<"variables">>, "variables")
    \o VariablesAt(body, "trigger_variables", <<"trigger_variables">>, "trigger_variables")
    \o VariablesAt(Field(body, "use_blueprint"), "input", <<"use_blueprint", "input">>, "blueprint_input")

Walk(body) ==
    SectionOf(body, "trigger", <<"triggers", "trigger">>, "trigger")
    \o SectionOf(body, "condition", <<"conditions", "condition">>, "condition")
    \o SectionOf(body, "action", <<"actions", "action">>, "action")
    \o Variables(body)

KindKey(role, m) ==
    CASE role = "trigger" -> IF Has(m, "trigger") THEN "trigger" ELSE IF Has(m, "platform") THEN "platform" ELSE ""
      [] role = "condition" -> IF Has(m, "condition") THEN "condition" ELSE ""
      [] OTHER -> ""
Shown(v) == v.k = "text" /\ Is(v.atom, "token")

SkippedKeys(role) ==
    CASE role = "trigger" -> {"trigger", "platform"}
      [] role = "condition" -> {"condition", "conditions"}
      [] role = "option" -> {"conditions", "sequence"}
      [] role = "action" -> {"service", "choose", "default", "if", "then", "else", "repeat", "parallel",
                             "sequence", "wait_for_trigger", "conditions"}
      [] OTHER -> {}

(* A repetition's own values come first, then the legacy "service" as the  *)
(* action it is.  The path of a blueprint is never shown, only its input.  *)
Entries(met) ==
    LET m == met.raw
        repeat == IF met.role = "action" THEN Field(m, "repeat") ELSE Absent
    IN  IF met.role = "template" THEN <<Typed(<<"value_template">>, "template", m.atom)>>
        ELSE IF met.role = "blueprint_input"
        THEN (IF Field(m, "path").k \in {"null", "absent"} THEN <<>> ELSE <<Withheld>>)
             \o ValuesOf(Field(m, "input"), <<>>, 0, {})
        ELSE ValuesOf(repeat, <<>>, 0, {"while", "until", "sequence"})
             \o (IF met.role = "action" /\ Has(m, "service")
                 THEN ValueOf(<<"action">>, "action", m.map["service"], 0) ELSE <<>>)
             \o ValuesOf(m, <<>>, 0, SkippedKeys(met.role))

NodeFrom(met, key, entries, shown) == [
    path |-> met.path, top |-> met.depth = 0,
    kind |-> IF key # "" THEN (IF Shown(met.raw.map[key]) THEN met.raw.map[key].atom ELSE "")
             ELSE IF met.role = "action" THEN ActionKind(met.raw)
             ELSE IF met.role \in {"trigger", "condition"} THEN "" ELSE met.role,
    values |-> FirstFew(shown, MaxValues),
    withheld |-> Len(entries) - Len(shown) + (IF key # "" /\ ~Shown(met.raw.map[key]) THEN 1 ELSE 0),
    truncated |-> OverCap(Len(shown), MaxValues)]

NodeWith(met, entries) ==
    NodeFrom(met, KindKey(met.role, met.raw), entries, SelectSeq(entries, LAMBDA e : e # Withheld))

NodesBefore(met, i) == Cardinality({j \in 1..(i-1) : met[j].what = "node"})
Fitting(met) == {i \in DOMAIN met : met[i].what = "node" /\ NodesBefore(met, i) < MaxNodes}

NodesFrom(met, order) == [n \in DOMAIN order |-> NodeWith(met[order[n]], Entries(met[order[n]]))]
NodesOf(met, fits) == NodesFrom(met, SelectSeq([i \in DOMAIN met |-> i], LAMBDA i : i \in fits))

(* What hangs off a node that no longer fits was never met.                *)
Reached(met, fits) == {i \in DOMAIN met : met[i].of = <<>> \/ \E j \in fits : met[j].path = met[i].of}

LogicOf(body, met, fits, reached, nodes) == [
    nodes |-> nodes,
    truncated |-> \/ \E i \in DOMAIN met : met[i].what = "node" /\ i \notin fits
                  \/ \E i \in reached : \/ met[i].what = "deep"
                                        \/ met[i].what = "bad" /\ OverCap(NodesBefore(met, i) + 1, MaxNodes)
                  \/ \E i \in DOMAIN nodes : nodes[i].truncated,
    partial |-> \/ body.k # "object" \/ Has(body, "use_blueprint")
                \/ \E i \in reached : \/ met[i].what = "odd"
                                      \/ met[i].what = "bad" /\ NodesBefore(met, i) < MaxNodes
                \/ \E i \in fits : /\ met[i].role \in {"trigger", "condition"}
                                  /\ KindKey(met[i].role, met[i].raw) = ""]

LogicMet(body, met, fits) == LogicOf(body, met, fits, Reached(met, fits), NodesOf(met, fits))
LogicWalked(body, met) == LogicMet(body, met, Fitting(met))

MapAutomationLogic(body) == LogicWalked(body, Walk(body))

MapAutomationLogicResult(doc) ==
    IF ~IsObject(doc) \/ Field(doc, "config").k \notin {"object", "null", "absent"} THEN Failed
    ELSE Mapped(MapAutomationLogic(Field(doc, "config")))
=============================================================================

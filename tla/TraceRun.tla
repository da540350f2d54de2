------------------------------ MODULE TraceRun ------------------------------
(***************************************************************************)
(* One run of an automation as typed steps (internal/ha/trace_steps.go).   *)
(* The trace is an object whose order is the order the steps first ran in; *)
(* it is written here as a list of {path, steps}.                          *)
(***************************************************************************)
EXTENDS Logic

CONSTANTS
    MaxTraceSteps,
    ParentPath      \* of a condition's per-entity path, the condition's own; "" of any other

ASSUME TraceCapAssumption == MaxTraceSteps \in Nat

DroppedTraceKeys == {"changed_variables", "context", "from_state", "to_state", "this", "attributes"}
IsStateObject(v) == v.k = "object" /\ {"entity_id", "state", "attributes"} \subseteq DOMAIN v.map

RECURSIVE ScrubTrace(_)
ScrubTrace(v) ==
    CASE v.k = "object" ->
            LET kept == {key \in DOMAIN v.map \ DroppedTraceKeys : ~IsStateObject(v.map[key])}
            IN  Object([key \in kept |-> ScrubTrace(v.map[key])])
      [] v.k = "list" ->
            LET kept == SelectSeq(v.list, LAMBDA e : ~IsStateObject(e))
            IN  Array([i \in DOMAIN kept |-> ScrubTrace(kept[i])])
      [] OTHER -> v

(* The domain and the service of a call are shown as the one action they   *)
(* name, as the logic shows a legacy "service".                            *)
JoinServiceParams(p) ==
    IF HasString(p, "domain") /\ HasString(p, "service")
    THEN Object(("action" :> Text(OptString(p, "domain") \o "." \o OptString(p, "service")))
                @@ [key \in DOMAIN p.map \ {"domain", "service"} |-> p.map[key]])
    ELSE p
ParamsJoined(r) ==
    IF Has(r, "params") THEN Object([r.map EXCEPT !["params"] = JoinServiceParams(@)]) ELSE r

(* result: typed values of what is left; templates and errors only count.  *)
EntriesLeft(scrubbed) ==
    IF scrubbed.k = "object"
    THEN SelectSeq(ValuesOf(ParamsJoined(scrubbed), <<>>, 0, {"error"}), LAMBDA v : v # Withheld) ELSE <<>>
ResultEntries(e) == EntriesLeft(ScrubTrace(Field(e, "result")))

TypedStep(e) == IsObject(e) /\ HasInstant(e, "timestamp")
Step(path, e, entries) == [
    path |-> path, at |-> OptTime(e, "timestamp"), sub |-> <<>>,
    values |-> SelectSeq(FirstFew(entries, MaxValues), LAMBDA v : v.kind # "template"),
    truncated |-> OverCap(Len(entries), MaxValues)]

ValidPaths(entries) == {OptString(e, "path") : e \in {x \in ToSet(entries) : Is(OptString(x, "path"), "path")}}

Parent(path, paths) == IF ParentPath[path] \in paths THEN ParentPath[path] ELSE ""

(* Everything listed under a valid path, with the path it hangs off and    *)
(* its place among the steps of its own path.                              *)
ListedUnder(path, steps, paths) ==
    IF path \notin paths THEN <<>>
    ELSE [i \in DOMAIN steps |->
            [typed |-> TypedStep(steps[i]), parent |-> Parent(path, paths),
             turn |-> Cardinality({j \in 1..i : TypedStep(steps[j])}), path |-> path, raw |-> steps[i]]]

Listed(entries, paths) ==
    FlattenSeq([n \in DOMAIN entries |->
        ListedUnder(OptString(entries[n], "path"), Field(entries[n], "steps").list, paths)])

TypedBefore(listed, i) == Cardinality({j \in 1..(i-1) : listed[j].typed})

(* elements: the steps that decode, up to the cap.                         *)
TracedStep(e) == [parent |-> e.parent, turn |-> e.turn, step |-> Step(e.path, e.raw, ResultEntries(e.raw))]
ElementsOf(typed) == [i \in DOMAIN typed |-> TracedStep(typed[i])]
Elements(listed) == ElementsOf(FirstFew(SelectSeq(listed, LAMBDA e : e.typed), MaxTraceSteps))

(* Mutant: an entity's step hangs off the first turn of its condition.     *)
TurnOf_First(turns, turn) == 1

(* An entity's step hangs off the turn of its condition it ran in, the     *)
(* last one when the condition has fewer.                                  *)
TurnOf(turns, turn) == IF turn < Len(turns) THEN turn ELSE Len(turns)

(* Mutant: a step whose condition has none of its own is dropped.          *)
Place_DropsOrphans(steps, element) == steps

(* One entity's step: under its condition, or after the rest when the      *)
(* condition has no step.                                                  *)
Place(steps, element) ==
    LET turns == SelectSeq([i \in DOMAIN steps |-> i], LAMBDA i : steps[i].path = element.parent)
    IN  IF turns = <<>> THEN Append(steps, element.step)
        ELSE [steps EXCEPT ![turns[TurnOf(turns, element.turn)]].sub = Append(@, element.step)]

StepsOf(own) == [i \in DOMAIN own |-> own[i].step]
MapSteps(kept) ==
    FoldLeft(Place, StepsOf(SelectSeq(kept, LAMBDA e : e.parent = "")), SelectSeq(kept, LAMBDA e : e.parent # ""))

(* A field of the run that fails its grammar is withheld.                  *)
RunField(raw, key, shape) == IF Is(OptString(raw, key), shape) THEN OptString(raw, key) ELSE ""

RunKinds == [run_id |-> "text", state |-> "text", script_execution |-> "text", last_step |-> "text",
             timestamp |-> "object"]

PastCap(listed) == {i \in DOMAIN listed : OverCap(TypedBefore(listed, i) + 1, MaxTraceSteps)}

RunOf(doc, entries, listed, pastCap, kept) == [
    run |-> RunField(doc, "run_id", "slug"),
    last |-> RunField(doc, "last_step", "path"),
    steps |-> MapSteps(kept),
    dropped |-> Len(SelectSeq(entries, LAMBDA e : ~Is(OptString(e, "path"), "path"))),
    truncated |-> pastCap # {} \/ \E e \in ToSet(kept) : e.step.truncated,
    partial |-> \/ \E i \in DOMAIN listed \ pastCap : ~listed[i].typed
                \/ \E e \in ToSet(entries) : /\ Is(OptString(e, "path"), "path")
                                            /\ Field(e, "steps").k \notin {"list", "null"}]

RunListed(doc, entries, listed) == RunOf(doc, entries, listed, PastCap(listed), Elements(listed))

MapAutomationTraceRun(doc) ==
    LET entries == Field(doc, "trace").list
    IN  IF \/ ~IsObject(doc) \/ Field(doc, "trace").k # "list"
           \/ \E key \in DOMAIN RunKinds : ~HasKind(doc, key, RunKinds[key])
           \/ \E key \in {"start", "finish"} : ~HasInstant(Field(doc, "timestamp"), key)
        THEN Failed
        ELSE Mapped(RunListed(doc, entries, Listed(entries, ValidPaths(entries))))
=============================================================================

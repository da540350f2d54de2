----------------------------- MODULE Diagnosis ------------------------------
(***************************************************************************)
(* The three composite tools, one read at a time                           *)
(* (internal/mcp/entity_health_tools.go, integration_health_tools.go,      *)
(* automation_health_tools.go): what each read leaves in the input of the  *)
(* analysis, which failures end the call, and what the caller is told.     *)
(* One behaviour is one call of one tool.                                  *)
(***************************************************************************)
EXTENDS IntegrationHealth, AutomationHealth, QueryBudget

CONSTANTS
    Subject,        \* the entity whose health is asked for
    Entities,       \* the rows of the entity registry
    Devices,        \* the rows of the device registry
    Private,        \* the entities a deny profile keeps private
    Rows,           \* what the registry may hold of the subject: [entity, entry]
    Entries,        \* config entries an integration may be
    Histories,      \* what the recorder may answer for the subject
    OtherHistories, \* and for any other entity
    Numeric,        \* the states that parse as numbers
    DownNow,        \* which entities may be unavailable now
    RepairLists, TraceLists, LogbookRows,
    Configs,        \* [entities, devices, unextracted, truncated, withheld]
    Limits, Estimate,   \* the call's budget; what a history read may cost
    AnswerBytes,    \* what an answer weighs
    MaxClusterEntities, MaxMeshMetricEntities, MaxRestartProbes,
    FallbackSince,  \* logbookFallbackWindow, as the instant it starts at
    MaxFailures     \* bound: reads that fail in one call, or have no source

Point == [at : Int, state : STRING]

ASSUME BudgetAssumption == Limits \in [Dimensions -> Nat] /\ AnswerBytes \subseteq Nat
ASSUME CapAssumption ==
    MaxClusterEntities \in Nat /\ MaxMeshMetricEntities \in Nat /\ MaxRestartProbes \in Nat
ASSUME HistoryAssumption == Histories \subseteq Seq(Point) /\ OtherHistories \subseteq Seq(Point)
ASSUME RegistryAssumption ==
    /\ IsFiniteSet(Entities)
    /\ \A e \in Entities : e.id \in Int /\ (e.device = None \/ e.device \in Int)
    /\ \A e, f \in Entities : e.id = f.id => e = f
ASSUME ConfigAssumption ==
    \A c \in Configs : IsFiniteSet(c.entities) /\ c.entities \subseteq Int
ASSUME AnswerAssumption ==
    /\ RepairLists \subseteq Seq([domain : STRING, ignored : BOOLEAN])
    /\ TraceLists \subseteq Seq([start : Int, finish : Int, end : STRING])
    /\ \A rows \in LogbookRows : rows \in Seq(ToSet(rows)) /\ \A row \in ToSet(rows) : row.when \in Int
    /\ FallbackSince \in Int

VARIABLES
    tool, profile,  \* of this call
    at,             \* the read that comes next
    todo,           \* what is left of a loop of reads
    in,             \* the input of the analysis so far
    used,           \* of the budget
    asked,          \* history: the entities whose history was requested
    failures,       \* history: what kept this call's reads from answering
    end, answer     \* how the call ended

vars == <<tool, profile, at, todo, in, used, asked, failures, end, answer>>

Names(rows) == {e.id : e \in rows}
Lacks(input, what, reason) == [input EXCEPT !.missing = Append(@, <<what, reason>>)]
LacksIf(input, holds, what, reason) == IF holds THEN Lacks(input, what, reason) ELSE input
Row(id) == CHOOSE e \in Entities : e.id = id

ReadError == {"canceled", "unsupported", "budget", "policy", "deadline", "other"}

(* Mutant: a deadline is a cancellation.                                   *)
Aborts_Deadline(err) == err \in {"canceled", "deadline"}

(* missingFor: a caller that left gets no analysis; any other failure of a *)
(* source is a reason in it.                                               *)
Aborts(err) == err = "canceled"

(* Mutant: the error itself is the reason.                                 *)
Reason_Verbatim(err) == err

Reason(err) ==
    CASE err = "budget"      -> "budget_exceeded"
      [] err = "policy"      -> "policy_denied"
      [] err = "deadline"    -> "deadline"
      [] err = "unsupported" -> "unsupported"
      [] OTHER               -> "upstream_unavailable"

MayFail == Len(failures) < MaxFailures
Fail(err) == failures' = Append(failures, err)
NoFailure == UNCHANGED failures
End(how) == end' = how /\ UNCHANGED answer
Going == UNCHANGED <<end, answer>>
Keep == UNCHANGED <<tool, profile>>
Quiet == UNCHANGED <<used, asked>>

(* Mutant: a source that fails is asked again.                             *)
Misses_AskedAgain(what, err, next) ==
    /\ in' = IF Aborts(err) THEN in ELSE Lacks(in, what, Reason(err))
    /\ at' = IF Aborts(err) THEN "done" ELSE at
    /\ todo' = <<>>
    /\ IF Aborts(err) THEN End("cancelled") ELSE Going

(* A source that fails: noteMissing, or the end of the call.               *)
Misses(what, err, next) ==
    /\ in' = IF Aborts(err) THEN in ELSE Lacks(in, what, Reason(err))
    /\ at' = IF Aborts(err) THEN "done" ELSE next
    /\ todo' = <<>>
    /\ IF Aborts(err) THEN End("cancelled") ELSE Going

Reads(input, next) == in' = input /\ at' = next /\ todo' = <<>> /\ Going /\ NoFailure

(* One read of a source that is optional: it is not configured, it         *)
(* answers, or it fails.                                                   *)
ReadSource(what, inputs, next) ==
    /\ Keep /\ Quiet
    /\ \/ \E i \in inputs : Reads(i, next)
       \/ \E err \in ReadError : MayFail /\ Fail(err) /\ Misses(what, err, next)

NotConfigured(what, next) ==
    /\ Keep /\ Quiet
    /\ MayFail /\ Fail("not_configured") /\ Misses(what, "not_configured", next)

-----------------------------------------------------------------------------
(* A history read: preflight, the charge of an entity, the request, the    *)
(* charge of its points.                                                   *)
Got(isAsked, spent, err, points) == [asked |-> isAsked, used |-> spent, err |-> err, points |-> points]

(* Mutant: points that cannot be paid for are used all the same.           *)
Answers_Unpaid(paid, histories) ==
    {Got(TRUE, IF Fits(paid, Limits, "history_points", Len(h))
               THEN Charged(paid, "history_points", Len(h)) ELSE paid, "ok", h) : h \in histories}

Answers(paid, histories) ==
    {IF Fits(paid, Limits, "history_points", Len(h))
     THEN Got(TRUE, Charged(paid, "history_points", Len(h)), "ok", h)
     ELSE Got(TRUE, paid, "budget", <<>>) : h \in histories}

(* readEntityPoints, with n entities to pay for.                           *)
ReadEntityPoints(n, histories) ==
    LET paid == Charged(used, "entities", n)
    IN  IF ~Affords(used, Limits, Estimate) \/ ~Fits(used, Limits, "entities", n)
        THEN {Got(FALSE, used, "budget", <<>>)}
        ELSE Answers(paid, histories)
                \cup {Got(TRUE, paid, err, <<>>) : err \in IF MayFail THEN ReadError ELSE {}}

Take(got, id) ==
    /\ used' = got.used
    /\ asked' = IF got.asked THEN Append(asked, id) ELSE asked
    /\ IF got.err = "ok" THEN NoFailure ELSE Fail(got.err)

(* Mutant: a deny profile reads everything.                                *)
Permitted_All(id) == TRUE

(* Profile.CheckHistoryScope of one named entity.                          *)
Permitted(id) == profile # "deny" \/ id \notin Private

-----------------------------------------------------------------------------
EmptyInput ==
    [ historyRead |-> FALSE, points |-> <<>>, registryRead |-> FALSE, entity |-> None, entry |-> None,
      repairsRead |-> FALSE, repairs |-> <<>>, missing |-> <<>>,
      entities |-> 0, devices |-> {}, rows |-> {}, down |-> {}, unavailableRead |-> FALSE, unavailable |-> 0,
      outagesRead |-> FALSE, outages |-> <<>>, probes |-> <<>>, mesh |-> <<>>, meshResolved |-> FALSE,
      supervisorRead |-> FALSE, unhealthy |-> 0,
      tracesRead |-> FALSE, tracesUnread |-> "unsupported", traces |-> <<>>,
      fallbackRead |-> FALSE, fallbackUnread |-> "unsupported", events |-> <<>>, since |-> From,
      configRead |-> FALSE, configUnread |-> "unsupported", depends |-> {}, unextracted |-> 0,
      truncated |-> FALSE, withheld |-> 0, deps |-> <<>>,
      readErr |-> "none", tries |-> 0 ]

Init ==
    /\ tool \in {"entity", "integration", "automation"}
    /\ profile \in {"mask", "deny"}
    /\ at = "begin"
    /\ todo = <<>> /\ asked = <<>> /\ failures = <<>>
    /\ in = EmptyInput
    /\ used = Unspent
    /\ end = "running" /\ answer = <<>>

(* The arguments and the scope are judged before anything is read.         *)
Begin ==
    /\ at = "begin"
    /\ Keep /\ Quiet /\ NoFailure /\ UNCHANGED <<in, todo>>
    /\ \/ at' = "done" /\ End("refused")        \* a bad id, period or window
       \/ /\ tool = "entity" => Permitted(Subject)
          /\ Going
          /\ at' = CASE tool = "entity" -> "history" [] tool = "integration" -> "resolve"
                     [] tool = "automation" -> "summary"

(* readHistory                                                             *)
ReadHistory ==
    /\ at = "history"
    /\ Keep
    /\ \E got \in ReadEntityPoints(0, Histories) :
        /\ Take(got, Subject)
        /\ IF got.err = "ok"
           THEN /\ in' = [in EXCEPT !.historyRead = TRUE, !.points = got.points]
                /\ at' = "registry" /\ UNCHANGED todo /\ Going
           ELSE Misses("history", got.err, "registry")

(* Neither in the registry nor in the recorder.                            *)
NotFound(input) ==
    input.registryRead /\ input.entity = None /\ input.historyRead /\ input.points = <<>>

(* readRegistry, and the entity nobody knows.                              *)
ReadRegistry ==
    /\ at = "registry"
    /\ Keep /\ Quiet
    /\ \/ \E row \in Rows :
            LET found == [in EXCEPT !.registryRead = TRUE, !.entity = row.entity, !.entry = row.entry]
            IN  /\ in' = found /\ NoFailure /\ UNCHANGED todo
                /\ IF NotFound(found) THEN at' = "done" /\ End("not_found") ELSE at' = "repairs" /\ Going
       \/ \E err \in ReadError : MayFail /\ Fail(err) /\ Misses("registry", err, "repairs")

(* readRepairs, readIntegrationRepairs, readAutomationRepairs              *)
ReadRepairs ==
    LET next == IF tool = "integration" THEN "supervisor" ELSE "analyse"
    IN  /\ at = "repairs"
        /\ \/ ReadSource("repairs", {[in EXCEPT !.repairsRead = TRUE, !.repairs = r] : r \in RepairLists}, next)
           \/ NotConfigured("repairs", next)

-----------------------------------------------------------------------------
(* resolveIntegration: the reads everything else rests on.                 *)
ResolveIntegration ==
    /\ at = "resolve"
    /\ Keep /\ Quiet /\ UNCHANGED todo
    /\ \/ \E err \in ReadError :
            /\ MayFail /\ Fail(err) /\ at' = "done"
            /\ End(IF Aborts(err) THEN "cancelled" ELSE "failed") /\ UNCHANGED in
       \/ NoFailure /\ at' = "done" /\ End("not_found") /\ UNCHANGED in
       \/ \E entry \in Entries :
            LET rows == {e \in Entities : e.entry = entry.id}
                devices == {d \in Devices : d.entry = entry.id}
            IN  /\ in' = [in EXCEPT !.entry = entry, !.rows = rows, !.devices = devices,
                                    !.entities = Cardinality(rows)]
                /\ at' = "available" /\ NoFailure /\ Going

(* readUnavailable                                                         *)
ReadUnavailable ==
    /\ at = "available"
    /\ \/ ReadSource("availability_now",
            {[in EXCEPT !.unavailableRead = TRUE, !.down = d \cap Names(in.rows),
                        !.unavailable = Cardinality(d \cap Names(in.rows))] : d \in DownNow}, "outages")
       \/ NotConfigured("availability_now", "outages")

(* Mutant: those that are down are read last.                              *)
DownFirst_Last(ids, down) ==
    Sorted(ids, LAMBDA i, j : IF (i \in down) # (j \in down) THEN j \in down ELSE i < j)

DownFirst(ids, down) ==
    Sorted(ids, LAMBDA i, j : IF (i \in down) # (j \in down) THEN i \in down ELSE i < j)

Cut(seq, n) == SubSeq(seq, 1, Min({Len(seq), n}))

(* What is left of a loop; the next stage when nothing is.                 *)
Loop(seq, stage, next) == todo' = seq /\ at' = IF seq = <<>> THEN next ELSE stage

(* readOutages, before its loop: who may be read, who is read.             *)
ChooseOutages ==
    LET candidates == {id \in Names(in.rows) : Permitted(id)}
        chosen == DownFirst(candidates, in.down)
        denied == LacksIf(in, candidates # Names(in.rows), "outages", "policy_denied")
    IN  /\ at = "outages"
        /\ Keep /\ Quiet /\ NoFailure /\ Going
        /\ in' = LacksIf(denied, Len(chosen) > MaxClusterEntities, "outages", "budget_exceeded")
        /\ Loop(Cut(chosen, MaxClusterEntities), "outage", "mesh")

(* One step of the loop.  The first failure is the last read.              *)
ReadOutage ==
    /\ at = "outage"
    /\ Keep
    /\ \E got \in ReadEntityPoints(1, OtherHistories) :
        /\ Take(got, Head(todo))
        /\ IF got.err = "ok"
           THEN /\ in' = [in EXCEPT !.outagesRead = TRUE,
                            !.outages = Append(@, [entity |-> Row(Head(todo)), points |-> got.points])]
                /\ Loop(Tail(todo), "outage", "mesh") /\ Going
           ELSE Misses("outages", got.err, "mesh")

(* affectedDevices: of what is down now and of what has had an outage.     *)
AffectedDevices ==
    ({e.device : e \in {e \in in.rows : e.id \in in.down}}
        \cup {o.entity.device : o \in {o \in ToSet(in.outages) : Availability(o.points).outages # <<>>}})
    \ {None}

MeshScope(affected) == {e \in in.rows : IsMeshEntity(e) /\ e.device \in affected}

(* What of the scope may not be read, and what its devices lack.           *)
LacksMesh(scoped, permitted) ==
    LET lacks == SetToSeq(MeshMissing(permitted))
    IN  [LacksIf(in, permitted # scoped, "mesh", "policy_denied")
            EXCEPT !.missing = @ \o [n \in DOMAIN lacks |-> <<lacks[n][1], lacks[n][2]>>]]

ReadMetrics(resolved, metrics) ==
    /\ in' = [LacksIf(resolved, Len(metrics) > MaxMeshMetricEntities, "mesh", "budget_exceeded")
                    EXCEPT !.meshResolved = metrics # <<>>]
    /\ Loop(Cut([i \in DOMAIN metrics |-> metrics[i].id], MaxMeshMetricEntities), "metric", "restarts")

(* readMesh, before its loop.                                              *)
ChooseMesh ==
    /\ at = "mesh"
    /\ Keep /\ Quiet /\ NoFailure /\ Going
    /\ \E scoped \in {MeshScope(AffectedDevices)} : \E permitted \in {{e \in scoped : Permitted(e.id)}} :
            ReadMetrics(LacksMesh(scoped, permitted), MeshMetrics(permitted))

ReadMetric ==
    /\ at = "metric"
    /\ Keep
    /\ \E got \in ReadEntityPoints(1, OtherHistories) :
        /\ Take(got, Head(todo))
        /\ IF got.err = "ok"
           THEN /\ in' = IF Readings(got.points, Numeric) # <<>>
                         THEN [in EXCEPT !.mesh = Append(@, MeshEvidence(Row(Head(todo)), got.points, Numeric))]
                         ELSE Lacks(in, "mesh", "out_of_retention")
                /\ Loop(Tail(todo), "metric", "restarts") /\ Going
           ELSE Misses("mesh", got.err, "restarts")

(* readRestarts, before its loop: nothing to ask when nothing clustered.   *)
ProbeOnsets(onsets) ==
    \/ /\ in' = LacksIf(in, Len(onsets) > MaxRestartProbes, "restarts", "budget_exceeded")
       /\ Loop(Cut(onsets, MaxRestartProbes), "restart", "repairs")
       /\ NoFailure /\ Going
    \/ onsets # <<>> /\ MayFail /\ Fail("not_configured") /\ Misses("restarts", "not_configured", "repairs")

ChooseRestarts ==
    /\ at = "restarts"
    /\ Keep /\ Quiet
    /\ \E onsets \in {OutageOnsets(Clusters(in))} : ProbeOnsets(onsets)

ReadRestart ==
    /\ at = "restart"
    /\ Keep /\ Quiet
    /\ \/ \E events \in {0, 2} :
            /\ in' = [in EXCEPT !.probes = Append(@, [onset |-> Head(todo), events |-> events])]
            /\ Loop(Tail(todo), "restart", "repairs") /\ NoFailure /\ Going
       \/ \E err \in ReadError : MayFail /\ Fail(err) /\ Misses("restarts", err, "repairs")

(* readSupervisor                                                          *)
ReadSupervisor ==
    /\ at = "supervisor"
    /\ \/ ReadSource("supervisor", {[in EXCEPT !.supervisorRead = TRUE, !.unhealthy = n] : n \in 0..1}, "analyse")
       \/ NotConfigured("supervisor", "analyse")

-----------------------------------------------------------------------------
(* readAutomationSummary: an automation that the list does not hold is not *)
(* found; without a list the call goes on.                                 *)
ReadSummary ==
    /\ at = "summary"
    /\ \/ ReadSource("inventory", {in}, "config")
       \/ Keep /\ Quiet /\ Reads(in, "config")       \* no list is configured
       \/ /\ Keep /\ Quiet /\ NoFailure /\ UNCHANGED <<in, todo>>
          /\ at' = "done" /\ End("not_found")

(* A source whose failure is a field of the input, not an entry of its     *)
(* missing list: the analysis says what its absence means.                 *)
ReadField(field, inputs, next) ==
    /\ Keep /\ Quiet /\ UNCHANGED todo
    /\ \/ \E i \in inputs : in' = i /\ at' = next /\ Going /\ NoFailure
       \/ \E err \in ReadError \cup {"not_configured"} :
            /\ MayFail /\ Fail(err)
            /\ in' = [in EXCEPT ![field] = Reason(err)]
            /\ at' = IF Aborts(err) THEN "done" ELSE next
            /\ IF Aborts(err) THEN End("cancelled") ELSE Going

(* readAutomationConfig                                                    *)
ReadConfig ==
    /\ at = "config"
    /\ ReadField("configUnread",
          {[in EXCEPT !.configRead = TRUE, !.depends = c, !.unextracted = c.unextracted,
                      !.truncated = c.truncated, !.withheld = c.withheld] : c \in Configs}, "traces")

(* readAutomationTraces                                                    *)
ReadTraces ==
    /\ at = "traces"
    /\ ReadField("tracesUnread", {[in EXCEPT !.tracesRead = TRUE, !.traces = t] : t \in TraceLists},
                 "fallback")

(* readAutomationFallback: only when there are no traces.                  *)
ReadFallback ==
    /\ at = "fallback"
    /\ IF in.tracesRead
       THEN Keep /\ Quiet /\ Reads(in, "resolve_deps")
       ELSE ReadField("fallbackUnread",
                {[in EXCEPT !.fallbackRead = TRUE, !.events = rows, !.since = FallbackSince] :
                    rows \in LogbookRows}, "resolve_deps")

(* entitiesOfDevicesAndAreas                                               *)
EntitiesOf(devices, areas) ==
    {e.id : e \in {e \in Entities : \/ e.device # None /\ e.device \in devices
                                   \/ Trait("area", e, Devices) \in areas \ {None}}}

InOrder(ids) == Ascending(ids)

(* resolveDependencyEntities: the registry is read only when a device or   *)
(* an area is named; without it the named entities are left.               *)
ResolveDependencies ==
    LET named == in.depends.entities
        indirect == in.depends.devices # {} \/ in.depends.areas # {}
    IN  /\ at = "resolve_deps"
        /\ Keep /\ Quiet
        /\ \/ /\ ~in.configRead /\ Reads(in, "repairs")
           \/ /\ in.configRead /\ UNCHANGED in /\ NoFailure /\ Going
              /\ Loop(InOrder(named \cup IF indirect THEN EntitiesOf(in.depends.devices, in.depends.areas)
                                                     ELSE {}), "dependency", "repairs")
           \/ \E err \in ReadError :
                /\ in.configRead /\ indirect /\ MayFail /\ Fail(err)
                /\ in' = IF Aborts(err) THEN in ELSE Lacks(in, "indirect_dependencies", Reason(err))
                /\ IF Aborts(err) THEN at' = "done" /\ UNCHANGED todo /\ End("cancelled")
                   ELSE Loop(InOrder(named), "dependency", "repairs") /\ Going

Dependency(read, reason, points) ==
    [entity |-> Head(todo), read |-> read, reason |-> reason, points |-> points]

(* A dependency that is not read: denied, past the cap, or after a failure.*)
Unread ==
    IF ~Permitted(Head(todo)) THEN "policy_denied"
    ELSE IF in.tries >= MaxClusterEntities THEN "budget_exceeded"
    ELSE IF in.readErr # "none" THEN Reason(in.readErr)
    ELSE "none"

(* readDependencies                                                        *)
ReadDependency ==
    /\ at = "dependency"
    /\ Keep
    /\ \/ /\ Unread # "none"
          /\ in' = [in EXCEPT !.deps = Append(@, Dependency(FALSE, Unread, <<>>))]
          /\ Loop(Tail(todo), "dependency", "repairs")
          /\ Quiet /\ NoFailure /\ Going
       \/ /\ Unread = "none"
          /\ \E got \in ReadEntityPoints(1, OtherHistories) :
                /\ Take(got, Head(todo))
                /\ IF Aborts(got.err)
                   THEN at' = "done" /\ UNCHANGED <<in, todo>> /\ End("cancelled")
                   ELSE /\ in' = [in EXCEPT !.tries = @ + 1,
                                   !.readErr = IF got.err = "ok" THEN @ ELSE got.err,
                                   !.deps = Append(@, IF got.err = "ok"
                                       THEN Dependency(TRUE, "none", got.points)
                                       ELSE Dependency(FALSE, Reason(got.err), <<>>))]
                        /\ Loop(Tail(todo), "dependency", "repairs") /\ Going

-----------------------------------------------------------------------------
(* The analysis, and the bytes of what it says.                            *)
Analyse ==
    /\ at = "analyse"
    /\ at' = "done"
    /\ Keep /\ NoFailure /\ UNCHANGED <<in, todo, asked>>
    /\ \E weight \in AnswerBytes :
        IF Fits(used, Limits, "bytes", weight)
        THEN /\ used' = Charged(used, "bytes", weight)
             /\ end' = "answered"
             /\ answer' = CASE tool = "entity"      -> AnalyzeEntityHealth(in)
                            [] tool = "integration" -> AnalyzeIntegrationHealth(in)
                            [] tool = "automation"  -> AnalyzeAutomationHealth(in)
        ELSE UNCHANGED used /\ End("budget")

(* A call that has ended does nothing more.                                *)
Ended == at = "done" /\ UNCHANGED vars

Next ==
    \/ Begin \/ ReadHistory \/ ReadRegistry \/ ReadRepairs
    \/ ResolveIntegration \/ ReadUnavailable \/ ChooseOutages \/ ReadOutage
    \/ ChooseMesh \/ ReadMetric \/ ChooseRestarts \/ ReadRestart \/ ReadSupervisor
    \/ ReadSummary \/ ReadConfig \/ ReadTraces \/ ReadFallback
    \/ ResolveDependencies \/ ReadDependency
    \/ Analyse
    \/ Ended

Spec == Init /\ [][Next]_vars

-----------------------------------------------------------------------------
(* The order of the reads of the three tools.                              *)
Stages == <<"begin", "history", "registry", "resolve", "available", "outages", "outage", "mesh",
            "metric", "restarts", "restart", "summary", "config", "traces", "fallback",
            "resolve_deps", "dependency", "repairs", "supervisor", "analyse", "done">>
Stage == CHOOSE n \in DOMAIN Stages : Stages[n] = at

TypeOK ==
    /\ at \in ToSet(Stages)
    /\ end \in {"running", "refused", "not_found", "failed", "cancelled", "budget", "answered"}
    /\ (at = "done") = (end # "running")
    /\ (end = "answered") = (answer # <<>>)
    /\ Within(used, Limits)
    /\ DOMAIN in = DOMAIN EmptyInput
    /\ \A i \in DOMAIN in.missing : in.missing[i][2] \in
            {"upstream_unavailable", "unsupported", "budget_exceeded", "policy_denied", "deadline",
             "entity_disabled", "not_exposed", "out_of_retention"}

(* Whether the recorder holds a state at an instant, and which, told from  *)
(* the points one by one: the last of those at or before it.               *)
Recorded(points, t) == \E i \in DOMAIN points : points[i].at <= t

HeldAt(points, t) ==
    LET before == {i \in DOMAIN points : points[i].at <= t}
        last == {i \in before : \A j \in before : \/ points[j].at < points[i].at
                                                  \/ points[j].at = points[i].at /\ j <= i}
    IN  IF before = {} THEN "none" ELSE points[CHOOSE i \in last : TRUE].state

Seconds == From..(To - 1)

(* What the availability report measures is what the recorder held, second *)
(* by second: the time covered, the time down, the time unknown, and one   *)
(* outage for every uninterrupted stretch, the longest as long as it is.   *)
Reports(points, a, down) ==
    LET starts == {t \in down : t - 1 \notin down}
        stretch(t) == Cardinality({u \in down : u >= t /\ t..u \subseteq down})
    IN  /\ a.covered = Cardinality({t \in Seconds : Recorded(points, t)})
        /\ a.unavailable = Cardinality(down)
        /\ a.unknown = Cardinality({t \in down : HeldAt(points, t) = "unknown"})
        /\ a.longest = Max({0} \cup {stretch(t) : t \in starts})
        /\ {<<o.from, o.to>> : o \in {o \in ToSet(a.outages) : o.from < o.to}}
                = {<<t, t + stretch(t)>> : t \in starts}

OutagesMeasured(points) ==
    Reports(points, Availability(points), {t \in Seconds : HeldAt(points, t) \in Down})

(* The percentiles are intervals the entity showed: enough of them are not *)
(* longer, and too few are shorter.  A stale entity has really been silent *)
(* for its whole stale span, which lies in the window.                     *)
Shows(points, c, ascending) ==
    LET upTo(v) == Cardinality({i \in DOMAIN ascending : ascending[i] <= v})
        below(v) == Cardinality({i \in DOMAIN ascending : ascending[i] < v})
    IN  /\ ascending # <<>> => \A percent \in {50, 95} :
            \E v \in {NearestRank(ascending, percent)} :
                100 * upTo(v) >= percent * c.intervals /\ 100 * below(v) < percent * c.intervals
        /\ c.stale =>
            /\ StaleSpan(c).from \in From..(To - 1)
            /\ \A i \in DOMAIN points : points[i].at \notin c.lastUpdate + 1 .. To
            /\ \A i \in DOMAIN ascending :
                    100 * below(ascending[i]) < 95 * c.intervals
                        => StaleSpan(c).from - c.lastUpdate >= StaleFactor * ascending[i]

CadenceShown(points) == Shows(points, Cadence(points), IntervalsBetween(Instants(points)))

(* The order in which the recorder lists points of different instants      *)
(* changes nothing of what is made of them.                                *)
OrderDoesNotMatter(points) ==
    IsInjective([i \in DOMAIN points |-> points[i].at]) =>
        /\ Availability(Reverse(points)) = Availability(points)
        /\ Cadence(Reverse(points)) = Cadence(points)

(* The windows that reach one another, by steps no wider than the          *)
(* tolerance.                                                              *)
Component(w, windows) ==
    LET near(u, v) == u.from <= v.to + Tolerance /\ v.from <= u.to + Tolerance
        Spread(reached, i) == reached \cup {v \in windows : \E u \in reached : near(u, v)}
    IN  FoldLeft(Spread, {w}, [i \in 1..Cardinality(windows) |-> i])

(* The one pass over the sorted windows finds exactly the groups of        *)
(* failures of two entities or more that overlap, step by step, within the *)
(* tolerance.                                                              *)
AreComponents(clusters, windows) ==
    {<<c.from, c.to, c.members>> : c \in clusters}
        = {<<Min({w.from : w \in g}), Max({w.to : w \in g}), {w.entity : w \in g}>> :
                g \in {g \in {Component(w, windows) : w \in windows} : Cardinality({w.entity : w \in g}) > 1}}

ClustersAreComponents == AreComponents(ToSet(Clusters(in)), Windows(ToSet(in.outages)))

(* What the analyses measure is what their definitions say: outages,       *)
(* cadences and clusters, whatever the order of the points.                *)
MeasuredAsDefined ==
    /\ (tool = "entity" /\ at = "registry" /\ in.historyRead) =>
            OutagesMeasured(in.points) /\ CadenceShown(in.points) /\ OrderDoesNotMatter(in.points)
    /\ (at = "mesh" /\ in.outagesRead) => ClustersAreComponents

Said(statement) == {h \in ToSet(answer.hypotheses) : h.statement = statement}

(* An entity that was up and heard from the whole time is blamed on        *)
(* nothing, however its integration does.                                  *)
HealthyIsNotBlamed ==
    (end = "answered" /\ tool = "entity") =>
        LET down == {p \in ToSet(in.points) : From < p.at /\ p.at <= To /\ p.state \in Down}
        IN  \/ ~in.historyRead
            \/ down # {} \/ HeldAt(in.points, From) \in Down \/ Cadence(in.points).stale
            \/ answer.hypotheses = <<>>

(* Each cluster is laid either on a restart the logbook really shows at    *)
(* its onset or on a shared upstream, once, and never on both; a majority  *)
(* is only spoken of when it was counted.                                  *)
BlamedOnce(timed) ==
    \A n \in DOMAIN timed :
        LET about == {h \in Said("restart") \cup Said("upstream") : <<"cluster", n>> \in ToSet(h.cites)}
            seen == \E i \in DOMAIN in.probes :
                        in.probes[i].onset = timed[n].from /\ in.probes[i].events > 0
        IN  Cardinality(about) = 1 /\ \A h \in about : (h.statement = "restart") = seen

ClusterBlamedOnce ==
    (end = "answered" /\ tool = "integration") =>
        BlamedOnce(Clusters(in)) /\ (Said("majority") # {} => 2 * Cardinality(in.down) >= in.entities)

(* A dependency is blamed for a run only if, within the tolerance of the   *)
(* run, it was not reporting or had gone silent for longer than its        *)
(* cadence allows; with traces, only for a run that failed.  One recorded  *)
(* at the period's end alone has not been measured: the caller is told.    *)
BadAt(points, c, t) ==
    \/ HeldAt(points, t) \in Down
    \/ /\ t > From
       /\ \/ HeldAt(points, t - 1) \in Down                                         \* until t
          \/ \E i \in DOMAIN points : points[i].at = t /\ points[i].state \in Down   \* within t
    \/ c.stale /\ t >= c.lastUpdate + c.threshold
BadDuring(r, points, c) ==
    \E t \in From..To : BadAt(points, c, t) /\ t \in (r.from - Tolerance)..(r.to + Tolerance)

BlamedFairly(runs, deps) ==
    /\ \A h \in Said("failed_during") \cup Said("ran_during") :
            \E d \in deps, i \in DOMAIN runs :
                BadDuring(runs[i], d.points, d.cadence) /\ (in.tracesRead => runs[i].failed)
    /\ Said("failed_during") # {} => in.tracesRead
    /\ Said("fault") # {} =>
            \E i \in DOMAIN runs : runs[i].errored
                /\ \A d \in deps : ~BadDuring(runs[i], d.points, d.cadence)

RunsBlamedFairly ==
    (end = "answered" /\ tool = "automation") =>
        BlamedFairly(Runs(in), {[points |-> d.points, cadence |-> Cadence(d.points)] :
                                    d \in {d \in ToSet(in.deps) : d.read /\ Recorded(d.points, To - 1)}})

EvidenceOf(h) == {ev \in ToSet(answer.evidence) : ev.id \in ToSet(h.cites)}
AsSure(ev, sample, num, den) == ev.sample >= sample /\ AtLeast(ev.coverage, num, den)

(* Confidence is earned by every leg: high by none that is degraded, thin  *)
(* or shows less than nine tenths of the period; medium by none that is    *)
(* thin or shows less than half of it; and each leg was observed.          *)
ConfidenceEarned ==
    end = "answered" =>
        \A h \in ToSet(answer.hypotheses) :
            /\ ToSet(h.cites) = {ev.id : ev \in EvidenceOf(h)} /\ h.cites # <<>>
            /\ h.confidence = 2 => \A ev \in EvidenceOf(h) :
                    AsSure(ev, HighSample, 9, 10) /\ ~ev.degraded
            /\ h.confidence = 1 => \A ev \in EvidenceOf(h) :
                    AsSure(ev, IF ev.degraded THEN HighSample ELSE MediumSample, 1, 2)

(* Every hypothesis is earned: it blames what the evidence shows to have   *)
(* failed, once, and is no surer than its weakest leg.                     *)
BlameIsEarned ==
    HealthyIsNotBlamed /\ ClusterBlamedOnce /\ RunsBlamedFairly /\ ConfidenceEarned

Told(what) == \E i \in DOMAIN answer.missing : answer.missing[i][1] = what

(* A caller who gets an answer is told of every source that did not give   *)
(* what it has: what is not in the evidence's reach is in the list of what *)
(* is missing, and the answer is called partial.                           *)
EverySourceTold ==
    end = "answered" =>
        /\ answer.partial = (answer.missing # <<>>)
        /\ in.repairsRead \/ Told("repairs")
        /\ tool = "entity" => (in.historyRead \/ Told("history")) /\ (in.registryRead \/ Told("registry"))
        /\ tool = "integration" =>
            /\ in.unavailableRead \/ Told("availability_now")
            /\ in.supervisorRead \/ Told("supervisor")
            /\ {o.entity.id : o \in ToSet(in.outages)} = Names(in.rows) \/ Told("outages")
            /\ {p.onset : p \in ToSet(in.probes)} = {c.from : c \in ToSet(Clusters(in))} \/ Told("restarts")
        /\ tool = "automation" =>
            /\ in.tracesRead \/ Told("traces")
            /\ in.tracesRead \/ in.fallbackRead \/ Told("logbook")
            /\ in.configRead \/ Told("dependencies")
            /\ (\A d \in ToSet(in.deps) : d.read) \/ Told("dependency_history")
            /\ in.configRead => Names(Entities) \cap in.depends.entities \subseteq {d.entity : d \in ToSet(in.deps)}

(* Only a caller who left ends a call for a source that failed, at once;   *)
(* any other failure does only of what the call cannot do without.         *)
OnlyTheCallerAborts ==
    /\ \A i \in DOMAIN failures : failures[i] = "canceled" => i = Len(failures) /\ end = "cancelled"
    /\ end = "cancelled" => failures # <<>> /\ Last(failures) = "canceled"
    /\ end = "failed" => tool = "integration" /\ in = EmptyInput

(* Every point the analysis sees was paid for, and the payments stay       *)
(* within the budget.                                                      *)
Total(counts) == FoldLeft(LAMBDA sum, n : sum + n, 0, counts)
PointsOf(legs) == Total([i \in DOMAIN legs |-> Len(legs[i].points)])
SamplesOf(legs) == Total([i \in DOMAIN legs |-> legs[i].sample])

OnlyPaidPointsUsed ==
    /\ Within(used, Limits)
    /\ Len(in.points) + PointsOf(in.outages) + PointsOf(in.deps) + SamplesOf(in.mesh)
            <= used["history_points"]

(* A deny profile's private entities are asked of by no tool, and the      *)
(* caller is told that they were left out.                                 *)
PrivateNeverAsked ==
    profile = "deny" =>
        /\ ToSet(asked) \cap Private = {}
        /\ (end = "answered" /\ tool = "integration" /\ Names(in.rows) \cap Private # {}) =>
                <<"outages", "policy_denied">> \in ToSet(answer.missing)

(* What the cap leaves of an integration is what is down now: no entity    *)
(* that is up takes the place of one that is down.                         *)
DownReadFirst ==
    \A i \in DOMAIN in.outages :
        in.outages[i].entity.id \in in.down
            \/ \A id \in in.down : Permitted(id) => id \in ToSet(asked)

(* A composite reads only what it may and can pay for, what is down first, *)
(* and goes on without a source that fails, unless its caller has gone     *)
(* (readEntityPoints, permittedEntities, downFirst, missingFor).           *)
ReadsAreDisciplined ==
    OnlyTheCallerAborts /\ OnlyPaidPointsUsed /\ PrivateNeverAsked /\ DownReadFirst

(* No read is made twice and no loop stands still: every step of a call    *)
(* leaves less of it to do, so that every call ends.                       *)
EveryStepAdvances ==
    [][\/ Stage' > Stage
       \/ Stage' = Stage /\ Len(todo') < Len(todo)]_vars
=============================================================================

-------------------------- MODULE AutomationHealth --------------------------
(***************************************************************************)
(* The analysis of one automation                                          *)
(* (internal/analysis/automation_health.go).  Its input is a record:       *)
(*   tracesRead, tracesUnread, traces   a sequence of [start, finish, end] *)
(*   fallbackRead, fallbackUnread, events, since                           *)
(*                             the logbook's rows [when, context] and the  *)
(*                             instant it was read from                    *)
(*   configRead, configUnread, unextracted, truncated, withheld            *)
(*   deps                      a sequence of [entity, read, reason, points]*)
(*   repairsRead, repairs, missing                                         *)
(***************************************************************************)
EXTENDS Correlation

Failures   == {"failed_conditions", "error", "aborted"}
Errors     == {"error", "aborted"}

InPeriod(t) == From <= t /\ t <= To

(* addTraceEvidence: the runs its traces tell of; one that finished before *)
(* it started ended where it started.                                      *)
RunOf(trace) ==
    [ from    |-> trace.start,
      to      |-> Max({trace.start, trace.finish}),
      failed  |-> trace.end \in Failures,
      errored |-> trace.end \in Errors ]
TracedRuns(traces) ==
    LET in == Kept(traces, LAMBDA t : InPeriod(t.start)) IN [i \in DOMAIN in |-> RunOf(in[i])]

(* traceCoverage: from the oldest run, unless a trace is older than the    *)
(* period or there was no run.                                             *)
PeriodFraction(since) == IF since <= From THEN Full ELSE <<To - since, To - From>>
TraceCoverage(traces, runs) ==
    IF runs = <<>> \/ \E i \in DOMAIN traces : traces[i].start < From THEN Full
    ELSE PeriodFraction(Min({runs[i].from : i \in DOMAIN runs}))

(* addFallbackEvidence: rows of one context are one run.                   *)
LoggedRuns(events) ==
    LET in == Kept(events, LAMBDA ev : InPeriod(ev.when))
        first == Ascending({i \in DOMAIN in : in[i].context = None
                                   \/ \A j \in 1..(i - 1) : in[j].context # in[i].context})
    IN  [k \in DOMAIN first |-> [from |-> in[first[k]].when, to |-> in[first[k]].when,
                                 failed |-> FALSE, errored |-> FALSE]]

Runs(in) ==
    IF in.tracesRead THEN TracedRuns(in.traces)
    ELSE IF in.fallbackRead THEN LoggedRuns(in.events)
    ELSE <<>>

(* addRunEvidence                                                          *)
RunEvidence(in, runs) ==
    LET n == Len(runs)
    IN  When(in.tracesRead, Observed(One("runs"), n, TraceCoverage(in.traces, runs), FALSE, [runs |-> n]))
            \o When(~in.tracesRead /\ in.fallbackRead,
                    Observed(One("runs"), n, PeriodFraction(in.since), TRUE, [runs |-> n]))

(* Mutant: the logbook makes up for the traces.                            *)
RunMissing_FallbackEnough(in) ==
    When(~in.tracesRead /\ ~in.fallbackRead, <<"logbook", in.fallbackUnread>>)

RunMissing(in) ==
    When(~in.tracesRead, <<"traces", in.tracesUnread>>)
        \o When(~in.tracesRead /\ ~in.fallbackRead, <<"logbook", in.fallbackUnread>>)

(* noteConfigGaps                                                          *)
ConfigMissing(in) ==
    When(~in.configRead, <<"dependencies", in.configUnread>>)
        \o When(in.configRead /\ in.unextracted > 0, <<"references", "unsupported">>)
        \o When(in.configRead /\ in.truncated, <<"dependencies_past_cap", "budget_exceeded">>)
        \o When(in.configRead /\ in.withheld > 0, <<"dependencies_withheld", "policy_denied">>)

(* Mutant: the silence counts from the last update.                        *)
StaleSpan_FromUpdate(c) == [from |-> c.lastUpdate, to |-> To]

(* A silence is stale once it has outlasted the threshold.                 *)
StaleSpan(c) == [from |-> c.lastUpdate + c.threshold, to |-> To]

(* The windows in which a dependency did not report, by its availability   *)
(* report a and its cadence report c.                                      *)
BadSpans(a, c) ==
    IF ~a.computable THEN {}
    ELSE {[from |-> o.from, to |-> o.to] : o \in ToSet(a.outages)}
            \cup (IF c.stale THEN {StaleSpan(c)} ELSE {})

StillDown(a, c) == c.stale \/ (a.outages # <<>> /\ Last(a.outages).open)

(* measureDependency                                                       *)
Measures(d, a, c) ==
    [ read |-> d.read, reason |-> d.reason, sample |-> Len(d.points), coverage |-> CoverageOf(a),
      computable |-> a.computable, spans |-> BadSpans(a, c), still |-> StillDown(a, c) ]
MeasureDependency(d) == Measures(d, Availability(d.points), Cadence(d.points))

(* The dependencies in the order of their names, each measured once.       *)
SortedDeps(in) ==
    IF in.configRead
    THEN Sorted(ToSet(in.deps), LAMBDA d, e : d.entity < e.entity)
    ELSE <<>>
MeasuredDeps(in) ==
    LET deps == SortedDeps(in) IN [i \in DOMAIN deps |-> MeasureDependency(deps[i])]

Touches(r, spans) ==
    \E s \in spans : r.from <= s.to + Tolerance /\ r.to >= s.from - Tolerance

(* overlaps                                                                *)
Overlapping(runs, spans) == {i \in DOMAIN runs : Touches(runs[i], spans)}

(* Those whose windows are evidence.                                       *)
BadDeps(deps) == Kept(deps, LAMBDA d : d.read /\ d.spans # {})

DependencyEvidence(n, d, runs) ==
    LET overlapping == Overlapping(runs, d.spans)
    IN  Observed(<<"dependency", n>>, d.sample, d.coverage, FALSE,
            [ overlapping |-> Cardinality(overlapping),
              failed      |-> Cardinality({i \in overlapping : runs[i].failed}),
              still       |-> d.still ])

OverlapMatters(in, ev) == IF in.tracesRead THEN ev.m.failed > 0 ELSE ev.m.overlapping > 0

(* addDependencyEvidence                                                   *)
WindowEvidence(bad, runs) == [n \in DOMAIN bad |-> DependencyEvidence(n, bad[n], runs)]
CheckedEvidence(in, deps, bad) ==
    LET checked == Cardinality({i \in DOMAIN deps : deps[i].read})
    IN  When(in.configRead, Observed(One("dependencies"), checked, Full, FALSE,
                [windows |-> Len(bad), unread |-> Len(deps) - checked]))

(* noteUnreadDependencies: once per reason, and once for the empty ones.   *)
DependencyMissing(deps) ==
    LET reasons == SetToSeq({d.reason : d \in {d \in ToSet(deps) : ~d.read}})
    IN  [n \in DOMAIN reasons |-> <<"dependency_history", reasons[n]>>]
            \o When(\E d \in ToSet(deps) : d.read /\ ~d.computable,
                    <<"dependency_history", "out_of_retention">>)

(* errorsOutsideWindows                                                    *)
ErrorsOutsideWindows(runs, bad) ==
    LET windows == UNION {d.spans : d \in ToSet(bad)}
    IN  \E i \in DOMAIN runs : runs[i].errored /\ ~Touches(runs[i], windows)

(* addHypotheses                                                           *)
Blame(in, ev) ==
    When(OverlapMatters(in, ev),
         Claim(IF in.tracesRead THEN "failed_during" ELSE "ran_during", <<One("runs"), ev.id>>))
Still(ev) == When(ev.m.still, Claim("dependency_down", <<ev.id>>))
AutomationClaims(in, found, faulty) ==
    FlattenSeq([n \in DOMAIN found |-> Blame(in, found[n])])
        \o FlattenSeq([n \in DOMAIN found |-> Still(found[n])])
        \o When(faulty, Claim("fault", <<One("runs")>>))
        \o When(faulty /\ RepairsOpen(in, "automation"), Claim("repair", <<One("repairs"), One("runs")>>))

(* nextActions                                                             *)
AutomationNextActions(in, runs, bad) ==
    {step \in {"traces", "history", "repairs"} :
        CASE step = "traces"  -> in.tracesRead /\ \E r \in ToSet(runs) : r.failed
          [] step = "history" -> bad # <<>>
          [] step = "repairs" -> RepairsOpen(in, "automation")}

(* AnalyzeAutomationHealth                                                 *)
Concludes(in, runs, deps, bad, found) ==
    Health(RunEvidence(in, runs) \o found \o CheckedEvidence(in, deps, bad) \o RepairEvidence(in, "automation"),
           AutomationClaims(in, found, ErrorsOutsideWindows(runs, bad)),
           in.missing \o RunMissing(in) \o ConfigMissing(in) \o DependencyMissing(deps),
           AutomationNextActions(in, runs, bad), {})
AutomationAnalysis(in, runs, deps) ==
    Concludes(in, runs, deps, BadDeps(deps), WindowEvidence(BadDeps(deps), runs))

AnalyzeAutomationHealth(in) == AutomationAnalysis(in, Runs(in), MeasuredDeps(in))
=============================================================================

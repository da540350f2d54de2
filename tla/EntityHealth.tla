---------------------------- MODULE EntityHealth ----------------------------
(***************************************************************************)
(* The analysis of one entity (internal/analysis/entity_health.go): what   *)
(* it makes of an input, a record of what the reads brought:               *)
(*   historyRead, points     the recorder's history                        *)
(*   registryRead, entity, entry    the entity's row ([] of None when it   *)
(*                           has none) and its config entry                *)
(*   repairsRead, repairs    a sequence of [domain, ignored]               *)
(*   missing                 a sequence of <<what, reason>>                *)
(***************************************************************************)
EXTENDS History, Ledger

CONSTANTS
    None,               \* no registry row, no config entry, no domain
    RepeatedOutages     \* repeatedOutageThreshold

ASSUME RepeatedOutagesAssumption == RepeatedOutages \in Nat \ {0}

KnownSetupStates == {"loaded", "setup_error", "setup_retry", "not_loaded",
                     "failed_unload", "migration_error", "setup_in_progress"}

(* setupStateEvidence: a state that is not in the list is never echoed.    *)
SetupStateEvidence(entry) ==
    Observed(One("integration_state"), 1, Full, FALSE,
        [ loaded |-> entry.state = "loaded",
          shown  |-> IF entry.state \in KnownSetupStates THEN entry.state ELSE "unrecognized" ])

(* The analysis measures the history once: a is its availability report, c *)
(* its cadence report.                                                     *)
Measurable(in, a) == in.historyRead /\ a.computable
ShowsProblem(in, a, c) == in.historyRead /\ (a.outages # <<>> \/ c.stale)

IntegrationDomain(in) ==
    IF in.entry # None THEN in.entry.domain
    ELSE IF in.entity # None THEN in.entity.platform
    ELSE None

OpenRepairs(repairs, domain) ==
    Cardinality({i \in DOMAIN repairs : repairs[i].domain = domain /\ ~repairs[i].ignored})

AvailabilityEvidence(in, a) ==
    Observed(One("availability"), Len(in.points), CoverageOf(a), FALSE,
             [outages |-> Len(a.outages), unavailable |-> a.unavailable])

CadenceEvidence(a, c) ==
    Observed(One("cadence"), c.intervals, CoverageOf(a), FALSE,
             [stale |-> c.stale, median |-> c.median, silent |-> c.silent])

(* addHistoryEvidence                                                      *)
HistoryEvidence(in, a, c) ==
    When(Measurable(in, a), AvailabilityEvidence(in, a))
        \o When(Measurable(in, a) /\ c.intervals > 0, CadenceEvidence(a, c))

(* addOutageHypotheses, addStaleHypothesis                                 *)
HistoryClaims(in, a, c) ==
    IF ~Measurable(in, a) THEN <<>>
    ELSE When(Len(a.outages) >= RepeatedOutages, Claim("repeatedly_down", <<One("availability")>>))
            \o When(a.outages # <<>> /\ Last(a.outages).open, Claim("still_down", <<One("availability")>>))
            \o When(c.stale, Claim("silent", <<One("cadence")>>))

(* noteEmptyHistory                                                        *)
HistoryMissing(in, a) ==
    When(in.historyRead /\ ~a.computable,
         <<"history", IF in.entity # None /\ in.entity.disabled THEN "entity_disabled"
                      ELSE "out_of_retention">>)

(* noteRegistryGaps                                                        *)
RegistryMissing(in) ==
    When(in.registryRead /\ (in.entity = None \/ in.entry = None), <<"context", "not_exposed">>)

(* Mutant: a setup that is not loaded is blamed whatever the entity shows. *)
SetupClaim_Always(in, a, c) ==
    When(in.entry # None /\ in.entry.state # "loaded",
         Claim("setup", <<One("integration_state"), One("availability")>>))

(* addIntegrationEvidence                                                  *)
SetupEvidence(in) == IF in.entry = None THEN <<>> ELSE <<SetupStateEvidence(in.entry)>>
SetupClaim(in, a, c) ==
    IF in.entry = None THEN <<>>
    ELSE When(in.entry.state # "loaded" /\ ShowsProblem(in, a, c),
              Claim("setup", <<One("integration_state"), One("availability")>>))

(* addRepairEvidence                                                       *)
RepairsOpen(in, domain) == in.repairsRead /\ domain # None /\ OpenRepairs(in.repairs, domain) > 0
RepairEvidence(in, domain) ==
    LET open == OpenRepairs(in.repairs, domain)
    IN  When(RepairsOpen(in, domain), Observed(One("repairs"), open, Full, FALSE, [open |-> open]))
RepairClaim(in, a, c) ==
    When(RepairsOpen(in, IntegrationDomain(in)) /\ ShowsProblem(in, a, c),
         Claim("repair", <<One("repairs"), One("availability")>>))

(* nextActions                                                             *)
NextActions(in, a) ==
    {step \in {"history", "setup", "repairs"} :
        CASE step = "history" -> Measurable(in, a) /\ a.outages # <<>>
          [] step = "setup"   -> IF in.entry = None THEN FALSE ELSE in.entry.state # "loaded"
          [] step = "repairs" -> RepairsOpen(in, IntegrationDomain(in))}

(* AnalyzeEntityHealth                                                     *)
EntityAnalysis(in, a, c) ==
    Health(HistoryEvidence(in, a, c) \o SetupEvidence(in) \o RepairEvidence(in, IntegrationDomain(in)),
           HistoryClaims(in, a, c) \o SetupClaim(in, a, c) \o RepairClaim(in, a, c),
           in.missing \o HistoryMissing(in, a) \o RegistryMissing(in),
           NextActions(in, a), {})

AnalyzeEntityHealth(in) == EntityAnalysis(in, Availability(in.points), Cadence(in.points))
=============================================================================

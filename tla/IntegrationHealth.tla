------------------------- MODULE IntegrationHealth --------------------------
(***************************************************************************)
(* The analysis of one integration                                         *)
(* (internal/analysis/integration_health.go).  Its input is a record:      *)
(*   entry, entities, devices      the config entry, the number of its     *)
(*                                 entities and the set of its devices     *)
(*   unavailableRead, unavailable  how many are unavailable now            *)
(*   outagesRead, outages          a sequence of [entity, points]          *)
(*   probes                        a sequence of [onset, events]           *)
(*   mesh, meshResolved            the mesh evidence                       *)
(*   repairsRead, repairs, supervisorRead, unhealthy, missing              *)
(***************************************************************************)
EXTENDS Correlation

(* The analysis clusters the outages once: timed are the clusters.         *)
Clusters(in) == IF in.outagesRead THEN ClusterOutages(ToSet(in.outages), in.devices) ELSE <<>>

(* addClusterEvidence                                                      *)
ThroughoutEvidence(in, down) ==
    When(in.outagesRead /\ down # {},
         Observed(One("throughout"), Cardinality(down), Full, FALSE, [entities |-> Cardinality(down)]))
ClusterEvidences(in, timed) ==
    [n \in DOMAIN timed |-> timed[n].evidence]
        \o ThroughoutEvidence(in, UnavailableThroughout(ToSet(in.outages)))

(* addInventoryEvidence                                                    *)
InventoryEvidence(in) ==
    Observed(One("inventory"), in.entities, Full, FALSE,
             [known |-> in.unavailableRead, unavailable |-> in.unavailable])

(* probeFor: the logbook was read around that onset.                       *)
Probes(in, onset) == Kept(in.probes, LAMBDA p : p.onset = onset)

(* addRestartEvidence: a probe that saw nothing is a leg of one            *)
(* observation all the same.                                               *)
RestartLeg(in, cluster, n) ==
    LET probes == Probes(in, cluster.from)
    IN  IF probes = <<>> THEN <<>>
        ELSE <<Observed(<<"restart", n>>, Max({Head(probes).events, 1}), Full, FALSE,
                        [events |-> Head(probes).events])>>

RestartEvidence(in, timed) ==
    FlattenSeq([n \in DOMAIN timed |-> RestartLeg(in, timed[n], n)])

(* Mutant: a probe is enough, whatever it saw.                             *)
RestartCoincides_Probed(in, cluster) == Probes(in, cluster.from) # <<>>

RestartCoincides(in, cluster) ==
    IF Probes(in, cluster.from) = <<>> THEN FALSE ELSE Head(Probes(in, cluster.from)).events > 0

(* addSupervisorEvidence                                                   *)
SupervisorEvidence(in) ==
    When(in.supervisorRead, Observed(One("supervisor"), 1, Full, FALSE, [unhealthy |-> in.unhealthy]))

(* addUnreachableEvidence                                                  *)
UnreachableMissing(in, timed) ==
    When(timed # <<>>, <<"host_logs", "privileged">>)
        \o When(in.meshResolved, <<"mesh_table", "not_exposed">>)

Loaded(in) == in.entry.state = "loaded"

MajorityUnavailable(in) ==
    in.unavailableRead /\ in.entities >= 2 /\ 2 * in.unavailable >= in.entities

(* showsProblem                                                            *)
Problem(in, timed) == ~Loaded(in) \/ timed # <<>> \/ MajorityUnavailable(in)

(* problemIDs                                                              *)
ProblemIds(in, timed) ==
    [n \in DOMAIN timed |-> <<"cluster", n>>]
        \o When(~Loaded(in), One("integration_state"))
        \o When(MajorityUnavailable(in), One("inventory"))

(* citeCluster: the leg is cited when there is one.                        *)
ClusterClaims(in, timed) ==
    [n \in DOMAIN timed |->
        Claim(IF RestartCoincides(in, timed[n]) THEN "restart" ELSE "upstream",
              <<<<"cluster", n>>, <<"restart", n>>>>)]

(* addHypotheses                                                           *)
IntegrationClaims(in, timed) ==
    When(~Loaded(in), Claim("setup", <<One("integration_state"), One("inventory")>>))
        \o When(MajorityUnavailable(in), Claim("majority", <<One("inventory")>>))
        \o ClusterClaims(in, timed)
        \o <<Claim("persistent", <<One("throughout")>>)>>
        \o When(Problem(in, timed) /\ RepairsOpen(in, in.entry.domain), Claim("repair", <<One("repairs")>> \o ProblemIds(in, timed)))
        \o When(Problem(in, timed) /\ in.supervisorRead /\ in.unhealthy > 0,
                Claim("host", <<One("supervisor")>> \o ProblemIds(in, timed)))

(* nextActions                                                             *)
IntegrationNextActions(in, timed) ==
    {step \in {"setup", "history", "kernel_log", "repairs", "host"} :
        CASE step = "setup"   -> ~Loaded(in)
          [] step \in {"history", "kernel_log"} -> timed # <<>>
          [] step = "repairs" -> RepairsOpen(in, in.entry.domain)
          [] step = "host"    -> in.supervisorRead /\ in.unhealthy > 0}

(* AnalyzeIntegrationHealth                                                *)
IntegrationAnalysis(in, timed) ==
    Health(ClusterEvidences(in, timed) \o <<InventoryEvidence(in), SetupStateEvidence(in.entry)>>
               \o RepairEvidence(in, in.entry.domain) \o RestartEvidence(in, timed) \o in.mesh
               \o SupervisorEvidence(in),
           IntegrationClaims(in, timed),
           in.missing \o UnreachableMissing(in, timed),
           IntegrationNextActions(in, timed),
           {[members |-> c.members, shared |-> c.shared, withheld |-> c.withheld] : c \in ToSet(timed)})

AnalyzeIntegrationHealth(in) == IntegrationAnalysis(in, Clusters(in))
=============================================================================

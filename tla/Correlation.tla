---------------------------- MODULE Correlation -----------------------------
(***************************************************************************)
(* Failures of several entities at once (internal/analysis/correlation.go) *)
(* and the mesh metrics of their devices (mesh.go).  An entity is a record *)
(* [id, device, entry, area, kind, disabled]: its id is its place among    *)
(* the names, its kind what meshKindOf says of it.  A device is            *)
(* [id, entry, via, area].  None stands for a field that is not there.     *)
(***************************************************************************)
EXTENDS EntityHealth

CONSTANT Tolerance      \* outageClusterTolerance

ASSUME ToleranceAssumption == Tolerance \in Nat

(* An input is [entity, points].  An outage nobody saw begin or end has no *)
(* window: its entity was unavailable throughout.                          *)
Throughout(outage) == outage.truncated /\ outage.open

Windows(inputs) ==
    UNION {{[entity |-> in.entity.id, from |-> o.from, to |-> o.to] :
               o \in {o \in ToSet(Availability(in.points).outages) : ~Throughout(o)}} :
           in \in inputs}

UnavailableThroughout(inputs) ==
    {in.entity.id : in \in {in \in inputs :
        \E o \in ToSet(Availability(in.points).outages) : Throughout(o)}}

CompareWindows(a, b) ==
    \/ a.from < b.from
    \/ a.from = b.from /\ a.to < b.to
    \/ a.from = b.from /\ a.to = b.to /\ a.entity < b.entity

(* Mutant: a window is compared with the last one, not with the reach of   *)
(* the group.                                                              *)
Joins_LastOnly(group, w) == w.from <= Last(group).to + Tolerance

Joins(group, w) == w.from <= Max({v.to : v \in ToSet(group)}) + Tolerance

(* sweepClusters: one pass over the windows in order.                      *)
SweepClusters(windows) ==
    LET Place(groups, w) ==
            IF groups # <<>> /\ Joins(Last(groups), w)
            THEN [groups EXCEPT ![Len(groups)] = Append(@, w)]
            ELSE Append(groups, <<w>>)
    IN  FoldLeft(Place, <<>>, Sorted(windows, CompareWindows))

Clustered(group) == Cardinality({w.entity : w \in ToSet(group)}) >= 2

DeviceOf(id, devices) == CHOOSE d \in devices : d.id = id
Known(id, devices) == \E d \in devices : d.id = id

(* topology.trait: an entity's own area comes before its device's.         *)
Trait(kind, e, devices) ==
    LET ofDevice(field) == IF Known(e.device, devices) THEN DeviceOf(e.device, devices)[field] ELSE None
    IN  CASE kind = "device"       -> e.device
          [] kind = "via_device"   -> ofDevice("via")
          [] kind = "config_entry" -> e.entry
          [] kind = "area"         -> IF e.area # None THEN e.area ELSE ofDevice("area")

(* commonValue                                                             *)
Shares(kind, members, devices) ==
    \E v \in {Trait(kind, e, devices) : e \in members} :
        v # None /\ \A e \in members : Trait(kind, e, devices) = v

(* topology.vacuousParent: every device of each member's config entry,     *)
(* other than the parent, hangs from that parent.                          *)
VacuousParent(members, devices) ==
    \A e \in members :
        LET parent == Trait("via_device", e, devices)
            entry  == IF Known(e.device, devices) THEN DeviceOf(e.device, devices).entry ELSE None
            ofEntry == {d \in devices : d.entry = entry}
        IN  Cardinality({d \in ofEntry : d.via = parent})
                >= Cardinality({d \in ofEntry : d.id # parent})

TraitOrder == {"device", "via_device", "config_entry", "area"}

(* annotate: a shared parent that tells nothing apart is withheld.         *)
SharedTraits(members, devices) ==
    {k \in TraitOrder : /\ Shares(k, members, devices)
                        /\ ~(k = "via_device" /\ VacuousParent(members, devices))}
WithheldTraits(members, devices) ==
    {k \in {"via_device"} : Shares(k, members, devices) /\ VacuousParent(members, devices)}

LeastCoverage(coverages) ==
    CHOOSE c \in coverages : \A d \in coverages : c[1] * d[2] <= d[1] * c[2]

(* clusterEvidence                                                         *)
ClusterEvidence(n, group, members) ==
    Observed(<<"cluster", n>>, Len(group),
        LeastCoverage({Full} \cup {CoverageOf(Availability(m.points)) : m \in members}), FALSE,
        [ entities |-> Cardinality(members),
          span     |-> Max({w.to : w \in ToSet(group)}) - Head(group).from ])

(* buildCluster                                                            *)
BuildCluster(n, group, inputs, devices) ==
    LET members == {in \in inputs : in.entity.id \in {w.entity : w \in ToSet(group)}}
        rows    == {m.entity : m \in members}
    IN  [ from     |-> Head(group).from,
          to       |-> Max({w.to : w \in ToSet(group)}),
          members  |-> {e.id : e \in rows},
          shared   |-> SharedTraits(rows, devices),
          withheld |-> WithheldTraits(rows, devices),
          evidence |-> ClusterEvidence(n, group, members) ]

(* ClusterOutages                                                          *)
BuildClusters(groups, inputs, devices) ==
    [n \in DOMAIN groups |-> BuildCluster(n, groups[n], inputs, devices)]

ClusterOutages(inputs, devices) ==
    LET groups == SweepClusters(Windows(inputs))
    IN  BuildClusters(AtPlaces(groups, {n \in DOMAIN groups : Clustered(groups[n])}), inputs, devices)

(* OutageOnsets, of the clusters of its inputs.                            *)
OutageOnsets(clusters) == [n \in DOMAIN clusters |-> clusters[n].from]

-----------------------------------------------------------------------------
(* meshKindOf and IsMeshEntity: by device class, then by the hint its name *)
(* ends with; both are in the row's kind.                                  *)
MeshKind == {"link_quality", "signal_strength"}
IsMeshEntity(e) == e.kind \in MeshKind /\ e.device # None

Candidates(rows, device, kind) == {e \in rows : IsMeshEntity(e) /\ e.device = device /\ e.kind = kind}

(* deviceMesh.resolveKind: the first enabled candidate, if any is.         *)
ResolveKind(rows, device, kind) ==
    {e \in Candidates(rows, device, kind) :
        /\ ~e.disabled
        /\ \A f \in Candidates(rows, device, kind) : f.disabled \/ e.id <= f.id}

MeshDevices(rows) == {e.device : e \in {e \in rows : IsMeshEntity(e)}}

(* deviceMesh.resolve: what each device lacks.                             *)
MeshMissing(rows) ==
    {<<kd[1], "entity_disabled", kd[2]>> : kd \in
        {kd \in MeshKind \X MeshDevices(rows) :
            /\ Candidates(rows, kd[2], kd[1]) # {}
            /\ ResolveKind(rows, kd[2], kd[1]) = {}}}
    \cup
    {<<"signal_strength", "not_exposed", device>> : device \in
        {d \in MeshDevices(rows) : Candidates(rows, d, "signal_strength") = {}}}

(* ResolveMeshMetrics: by device, then by kind.                            *)
MeshMetrics(rows) ==
    LET found == UNION {ResolveKind(rows, d, k) : d \in MeshDevices(rows), k \in MeshKind}
        Precedes(e, f) == \/ e.device < f.device
                          \/ e.device = f.device /\ e.kind = "link_quality" /\ f.kind # e.kind
    IN  Sorted(found, Precedes)

(* MeshEvidence: the numeric points, and the coverage since the first.     *)
Readings(points, numeric) == AtPlaces(points, {i \in DOMAIN points : points[i].state \in numeric})
MeshEvidence(e, points, numeric) ==
    LET readings == Readings(points, numeric)
        covered  == Min({To - From, Max({0, To - Head(readings).at})})
    IN  Observed(<<"mesh", e.id>>, Len(readings), <<covered, To - From>>, FALSE, [samples |-> Len(readings)])
=============================================================================

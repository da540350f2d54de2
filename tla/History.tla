------------------------------ MODULE History -------------------------------
(***************************************************************************)
(* What one entity's recorded points say of a window                       *)
(* (internal/analysis/availability.go, staleness.go).  The window is       *)
(* From..To; a point is an instant, of any order and on any side of the    *)
(* window, and the state recorded at it.                                   *)
(***************************************************************************)
EXTENDS Lines

CONSTANTS
    To,             \* the window's last instant; it starts at From
    StaleFactor     \* staleIntervalFactor

From == 0
Down == {"unavailable", "unknown"}  \* the states that report no usable value

ASSUME WindowAssumption == To \in Nat \ {0}
ASSUME StaleFactorAssumption == StaleFactor \in Nat \ {0}

(* Points in the order of their instants; those of one instant stay in the *)
(* order they came in.                                                     *)
ByTime(points) ==
    LET Before(i, j) == \/ points[i].at < points[j].at
                        \/ points[i].at = points[j].at /\ i < j
    IN  Lined(points, Before)

(* Mutant: the points in the order they came.                              *)
UpToEnd_AsTheyCame(points) == Kept(points, LAMBDA p : p.at <= To)

UpToEnd(points) == Kept(ByTime(points), LAMBDA p : p.at <= To)

(* Mutant: a state carried in from before the window keeps its own start.  *)
Hold_NotClamped(segs, p) ==
    IF segs # <<>> /\ Last(segs).state = p.state THEN segs
    ELSE Append(segs, [start |-> p.at, state |-> p.state])

Hold(segs, p) ==
    IF segs # <<>> /\ Last(segs).state = p.state THEN segs
    ELSE Append(segs, [start |-> Max({p.at, From}), state |-> p.state])

(* The states held in the window, each from its start to the next one's.   *)
SegmentsIn(points) ==
    FoldLeft(LAMBDA segs, p : Hold(IF p.at <= From THEN <<>> ELSE segs, p), <<>>, UpToEnd(points))

SegmentEnd(segs, i) == IF i < Len(segs) THEN segs[i + 1].start ELSE To
Span(s) == s.to - s.from

(* A state that is not available is a new outage, or goes on with the one  *)
(* it is contiguous with.                                                  *)
ExtendOutage(outages, seg, end, first) ==
    IF outages # <<>> /\ Last(outages).to = seg.start
    THEN [outages EXCEPT ![Len(outages)] = [@ EXCEPT !.to = end, !.open = (end = To)]]
    ELSE Append(outages, [from |-> seg.start, to |-> end,
                          truncated |-> first, open |-> end = To])

Extend(segs, outages, i) ==
    IF segs[i].state \in Down
    THEN ExtendOutage(outages, segs[i], SegmentEnd(segs, i), i = 1)
    ELSE outages

OutagesOf(segs) == FoldLeftDomain(LAMBDA outages, i : Extend(segs, outages, i), <<>>, segs)

(* The report on what the window held and what of it was an outage.        *)
Report(segs, outages) ==
    LET covered == IF segs = <<>> THEN 0 ELSE To - Head(segs).start
    IN  [ covered     |-> covered,
          computable  |-> covered > 0,
          changes     |-> IF segs = <<>> THEN 0 ELSE Len(segs) - 1,
          outages     |-> outages,
          unavailable |-> MapThenSumSet(LAMBDA i : Span(outages[i]), DOMAIN outages),
          longest     |-> Max({0} \cup {Span(outages[i]) : i \in DOMAIN outages}),
          unknown     |-> MapThenSumSet(LAMBDA i : SegmentEnd(segs, i) - segs[i].start,
                                        {i \in DOMAIN segs : segs[i].state = "unknown"}) ]

(* ComputeAvailability.  Nothing recorded leaves the ratio uncomputable.   *)
ReportOn(segs) == Report(segs, OutagesOf(segs))
Availability(points) == ReportOn(SegmentsIn(points))

(* coverageOf: a ratio is the pair of its terms.                           *)
CoverageOf(availability) ==
    IF availability.computable THEN <<availability.covered, To - From>> ELSE <<0, 1>>

-----------------------------------------------------------------------------
(* splitAtWindow: the distinct instants in the window, after the last one  *)
(* at or before its start, if there is any.                                *)
FromCarried(stamps) ==
    {t \in stamps : t > From \/ \A u \in stamps : u <= t \/ u > From}
Instants(points) == Ascending(FromCarried({p.at : p \in ToSet(UpToEnd(points))}))

(* intervalsBetween, in ascending order.                                   *)
IntervalsBetween(stamps) ==
    LET gaps == [i \in 1..(Len(stamps) - 1) |-> stamps[i + 1] - stamps[i]]
        Shorter(i, j) == gaps[i] < gaps[j] \/ (gaps[i] = gaps[j] /\ i < j)
    IN  Lined(gaps, Shorter)

(* Mutant: the rank rounded down.                                          *)
NearestRank_Floor(ascending, percent) ==
    LET n == Len(ascending)
    IN  ascending[Min({Max({(percent * n) \div 100, 1}), n})]

NearestRank(ascending, percent) ==
    LET n == Len(ascending)
    IN  ascending[Min({Max({(percent * n + 99) \div 100, 1}), n})]

(* ComputeCadence.  With no interval nothing can be called stale; the last *)
(* update may be older than the window.                                    *)
Pace(stamps, intervals, changes) ==
    LET computable == intervals # <<>>
        threshold  == IF computable THEN StaleFactor * NearestRank(intervals, 95) ELSE 0
        silent     == IF stamps = <<>> THEN 0 ELSE To - Last(stamps)
    IN  [ observed   |-> stamps # <<>>,
          updates    |-> Cardinality({i \in DOMAIN stamps : stamps[i] > From}),
          intervals  |-> Len(intervals),
          median     |-> IF computable THEN NearestRank(intervals, 50) ELSE 0,
          silent     |-> silent,
          threshold  |-> threshold,
          changes    |-> changes,
          stale      |-> computable /\ silent > threshold,
          lastUpdate |-> IF stamps = <<>> THEN From ELSE Last(stamps) ]

PaceOf(stamps, changes) == Pace(stamps, IntervalsBetween(stamps), changes)
Cadence(points) == PaceOf(Instants(points), Availability(points).changes)
=============================================================================

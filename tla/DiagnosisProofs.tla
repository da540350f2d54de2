-------------------------- MODULE DiagnosisProofs ---------------------------
(***************************************************************************)
(* Theorems about Diagnosis for any installation, any histories, any       *)
(* budget and any number of failures: who may end a call and what it may   *)
(* spend, the order of its reads, what they keep to, that the caller is    *)
(* told of every source that did not give all it has, that what it         *)
(* measures is what its definitions name, and that it blames a device, an  *)
(* integration or a cause no further than its evidence bears.              *)
(***************************************************************************)
EXTENDS AnalysisProofs

-----------------------------------------------------------------------------
(* The clusters as a sequence, and their onsets.                           *)

LEMMA ClustersAreSeq ==
    ASSUME NEW i, NEW V, i.outages \in Seq(V),
           \A v \in V : v.entity.id \in Int /\ v.points \in Seq(Point)
    PROVE  /\ \E W : Clusters(i) \in Seq(W)
           /\ OutageOnsets(Clusters(i)) \in Seq({c.from : c \in ToSet(Clusters(i))})
           /\ ToSet(OutageOnsets(Clusters(i))) = {c.from : c \in ToSet(Clusters(i))}
  <1> DEFINE inputs == ToSet(i.outages)
             groups == SweepClusters(Windows(inputs))
             places == {n \in DOMAIN groups : Clustered(groups[n])}
             picked == AtPlaces(groups, places)
  <1>1. PICK W : groups \in Seq(W)
    <2>1. IsFiniteSet(inputs) /\ inputs \subseteq V
      BY MembersAreFinite
    <2> HIDE DEF inputs
    <2>2. Measured(inputs)
      BY <2>1 DEF Measured
    <2>3. Sorts(groups, Windows(inputs))
      BY <2>1, <2>2, WindowsAre, SweepSorts
    <2> HIDE DEF groups
    <2> QED BY <2>3 DEF Sorts
  <1>3. picked \in Seq({groups[n] : n \in places})
    <2>1. Len(groups) \in Nat /\ places \in SUBSET (1 .. Len(groups))
      <3> HIDE DEF groups
      <3> QED BY <1>1
    <2> HIDE DEF groups, places
    <2> QED BY <2>1, PlacesAreKept
  <1>4. ClusterOutages(inputs, i.devices) = [n \in DOMAIN picked |-> BuildCluster(n, picked[n], inputs, i.devices)]
    BY DEF ClusterOutages, BuildClusters
  <1> HIDE DEF picked
  <1>5. \E X : Clusters(i) \in Seq(X)
    <2>1. CASE i.outagesRead
      <3> DEFINE X == {BuildCluster(n, picked[n], inputs, i.devices) : n \in DOMAIN picked}
                 c == ClusterOutages(inputs, i.devices)
      <3>1. c \in [1 .. Len(picked) -> X] /\ Len(picked) \in Nat
        BY <1>3, <1>4
      <3> HIDE DEF X, c
      <3>2. c \in Seq(X)
        BY <3>1
      <3>3. Clusters(i) = c
        BY <2>1 DEF Clusters, c
      <3> QED BY <3>2, <3>3
    <2>2. CASE ~i.outagesRead
      <3>1. Clusters(i) = <<>> /\ <<>> \in Seq({})
        BY <2>2 DEF Clusters
      <3> QED BY <3>1
    <2> QED BY <2>1, <2>2
  <1>6. PICK X : Clusters(i) \in Seq(X)
    BY <1>5
  <1> DEFINE c == Clusters(i)
             onsets == OutageOnsets(c)
  <1> HIDE DEF c
  <1>7. onsets = [n \in 1 .. Len(c) |-> c[n].from] /\ Len(c) \in Nat /\ DOMAIN c = 1 .. Len(c)
    BY <1>6 DEF OutageOnsets, c
  <1>8. onsets \in [1 .. Len(c) -> {d.from : d \in ToSet(c)}]
    BY <1>7 DEF ToSet
  <1>9. ToSet(onsets) = {d.from : d \in ToSet(c)}
    <2> HIDE DEF onsets
    <2>1. DOMAIN onsets = 1 .. Len(c) /\ \A n \in 1 .. Len(c) : onsets[n] = c[n].from
      BY <1>7
    <2> QED BY <1>7, <2>1 DEF ToSet
  <1>10. onsets \in Seq({d.from : d \in ToSet(c)})
    <2> HIDE DEF onsets
    <2> DEFINE D == {d.from : d \in ToSet(c)}
    <2> HIDE DEF D
    <2>1. onsets \in [1 .. Len(c) -> D]
      BY <1>8 DEF D
    <2>2. onsets \in Seq(D)
      BY <1>7, <2>1
    <2> QED BY <2>2 DEF D
  <1> QED BY <1>5, <1>9, <1>10 DEF c

-----------------------------------------------------------------------------
(* What ends a call, and with what.                                        *)

Endings == {"running", "refused", "not_found", "failed", "cancelled", "budget", "answered"}
Shortfall == ReadError \cup {"not_configured"}

-----------------------------------------------------------------------------
(* What a call may spend.                                                  *)

Solvent == used \in [Dimensions -> Nat] /\ Within(used, Limits)

LEMMA ChargeFits ==
    ASSUME NEW u \in [Dimensions -> Nat], Within(u, Limits),
           NEW d \in Dimensions, NEW n \in Nat, Fits(u, Limits, d, n)
    PROVE  Charged(u, d, n) \in [Dimensions -> Nat] /\ Within(Charged(u, d, n), Limits)
  BY DEF Charged, Within, Fits

(* What a read leaves of the budget, and how it can end.                   *)
LEMMA ReadPays ==
    ASSUME Solvent, NEW n \in {0, 1}, NEW histories \in {Histories, OtherHistories},
           NEW got \in ReadEntityPoints(n, histories)
    PROVE  /\ got.used \in [Dimensions -> Nat] /\ Within(got.used, Limits)
           /\ got.err \in {"ok"} \cup ReadError
  <1> DEFINE paid == Charged(used, "entities", n)
  <1>1. CASE got = Got(FALSE, used, "budget", <<>>)
    BY <1>1 DEF Got, ReadError, Solvent
  <1>2. CASE Fits(used, Limits, "entities", n) /\ got # Got(FALSE, used, "budget", <<>>)
    <2>1. paid \in [Dimensions -> Nat] /\ Within(paid, Limits)
      BY <1>2, ChargeFits DEF Solvent, Dimensions
    <2> HIDE DEF paid
    <2>2. \/ got \in Answers(paid, histories)
          \/ \E err \in ReadError : got = Got(TRUE, paid, err, <<>>)
      BY <1>2 DEF ReadEntityPoints, paid
    <2>3. ASSUME NEW h \in histories, Fits(paid, Limits, "history_points", Len(h)),
                 got = Got(TRUE, Charged(paid, "history_points", Len(h)), "ok", h)
          PROVE  /\ got.used \in [Dimensions -> Nat] /\ Within(got.used, Limits)
                 /\ got.err = "ok"
      <3>1. Len(h) \in Nat
        BY HistoryAssumption
      <3>2. /\ Charged(paid, "history_points", Len(h)) \in [Dimensions -> Nat]
            /\ Within(Charged(paid, "history_points", Len(h)), Limits)
        BY <2>1, <2>3, <3>1, ChargeFits DEF Dimensions
      <3> QED BY <2>3, <3>2 DEF Got
    <2>4. CASE got \in Answers(paid, histories)
      <3>1. PICK h \in histories :
                got = IF Fits(paid, Limits, "history_points", Len(h))
                      THEN Got(TRUE, Charged(paid, "history_points", Len(h)), "ok", h)
                      ELSE Got(TRUE, paid, "budget", <<>>)
        BY <2>4 DEF Answers
      <3>2. CASE Fits(paid, Limits, "history_points", Len(h))
        BY <3>1, <3>2, <2>3
      <3>3. CASE ~Fits(paid, Limits, "history_points", Len(h))
        BY <3>1, <3>3, <2>1 DEF Got, ReadError
      <3> QED BY <3>2, <3>3
    <2>5. CASE \E err \in ReadError : got = Got(TRUE, paid, err, <<>>)
      BY <2>5, <2>1 DEF Got
    <2> QED BY <2>2, <2>4, <2>5
  <1> QED BY <1>1, <1>2 DEF ReadEntityPoints

-----------------------------------------------------------------------------
(* Who may end a call.  By itself OnlyTheCallerAborts is not inductive: a  *)
(* cancelled call must be over, so that no other failure can follow, and   *)
(* the resolution of an integration, which alone may fail a call, must     *)
(* come before anything was learnt.                                        *)

Orderly ==
    /\ failures \in Seq(Shortfall)
    /\ tool \in {"entity", "integration", "automation"}
    /\ end \in Endings
    /\ (at = "done") <=> (end # "running")
    /\ at \in {"begin", "resolve"} => in = EmptyInput
    /\ at = "resolve" => tool = "integration"
    /\ OnlyTheCallerAborts

(* A step that goes on or ends the call, after no failure, after one that  *)
(* the call goes on without, or after the caller has left.                 *)
Proceeds ==
    /\ tool' = tool
    /\ at' \notin {"begin", "resolve"}
    /\ end' \in Endings
    /\ (at' = "done") <=> (end' # "running")
    /\ \/ failures' = failures /\ end' \notin {"cancelled", "failed"}
       \/ \E err \in Shortfall :
            /\ failures' = Append(failures, err)
            /\ end' = IF err = "canceled" THEN "cancelled" ELSE "running"

LEMMA FailureKept ==
    ASSUME Orderly, end = "running", NEW err \in Shortfall, failures' = Append(failures, err)
    PROVE  /\ failures' \in Seq(Shortfall) /\ failures' # <<>> /\ Last(failures') = err
           /\ \A i \in DOMAIN failures' : failures'[i] = "canceled" =>
                    i = Len(failures') /\ err = "canceled"
  <1>1. \A i \in DOMAIN failures : failures[i] # "canceled"
    BY DEF Orderly, OnlyTheCallerAborts
  <1> QED BY <1>1 DEF Orderly, Last

LEMMA ProceedsOrderly ==
    ASSUME Orderly, end = "running", Proceeds
    PROVE  Orderly'
  <1>1. CASE failures' = failures /\ end' \notin {"cancelled", "failed"}
    BY <1>1 DEF Orderly, OnlyTheCallerAborts, Proceeds
  <1>2. ASSUME NEW err \in Shortfall, failures' = Append(failures, err),
               end' = IF err = "canceled" THEN "cancelled" ELSE "running"
        PROVE  Orderly'
    BY <1>2, FailureKept DEF Orderly, OnlyTheCallerAborts, Proceeds
  <1> QED BY <1>1, <1>2 DEF Proceeds

(* The forms the reads have in common.                                     *)
LEMMA MissesProceeds ==
    ASSUME Orderly, end = "running", NEW what, NEW err \in Shortfall, NEW next,
           next \notin {"begin", "resolve", "done"}, Keep, Fail(err), Misses(what, err, next)
    PROVE  Proceeds
  BY DEF Keep, Misses, Aborts, Fail, End, Going, Proceeds, Endings, Orderly

LEMMA ReadsProceeds ==
    ASSUME Orderly, end = "running", NEW next, next \notin {"begin", "resolve", "done"},
           Keep, at' = next, Going, NoFailure
    PROVE  Proceeds
  BY DEF Keep, Going, NoFailure, Proceeds, Orderly

LEMMA LoopProceeds ==
    ASSUME Orderly, end = "running", NEW seq, NEW stage, NEW next,
           {stage, next} \cap {"begin", "resolve", "done"} = {}, Keep, Loop(seq, stage, next), Going,
           \/ NoFailure
           \/ \E err \in Shortfall : err # "canceled" /\ Fail(err)
    PROVE  Proceeds
  BY DEF Keep, Loop, Going, NoFailure, Fail, Proceeds, Orderly

LEMMA ReadSourceProceeds ==
    ASSUME Orderly, end = "running", NEW what, NEW inputs, NEW next,
           next \notin {"begin", "resolve", "done"},
           ReadSource(what, inputs, next) \/ NotConfigured(what, next)
    PROVE  Proceeds /\ used' = used
  <1>1. used' = used /\ Keep
    BY DEF ReadSource, NotConfigured, Quiet
  <1>2. CASE \E i \in inputs : Reads(i, next)
    BY <1>1, <1>2, ReadsProceeds DEF Reads
  <1>3. CASE \E err \in Shortfall : Fail(err) /\ Misses(what, err, next)
    BY <1>1, <1>3, MissesProceeds
  <1> QED BY <1>1, <1>2, <1>3 DEF ReadSource, NotConfigured, Shortfall

LEMMA ReadFieldProceeds ==
    ASSUME Orderly, end = "running", NEW field, NEW inputs, NEW next,
           next \notin {"begin", "resolve", "done"}, ReadField(field, inputs, next)
    PROVE  Proceeds /\ used' = used
  <1>1. used' = used /\ Keep
    BY DEF ReadField, Quiet
  <1>2. CASE \E i \in inputs : in' = i /\ at' = next /\ Going /\ NoFailure
    BY <1>1, <1>2, ReadsProceeds
  <1>3. ASSUME NEW err \in Shortfall, Fail(err), at' = IF Aborts(err) THEN "done" ELSE next,
               IF Aborts(err) THEN End("cancelled") ELSE Going
        PROVE  Proceeds
    BY <1>1, <1>3 DEF Keep, Aborts, Fail, End, Going, Proceeds, Endings, Orderly
  <1> QED BY <1>1, <1>2, <1>3 DEF ReadField, Shortfall

(* A history read that is answered leads on to `next` or to a loop.        *)
LEMMA TakeFails ==
    ASSUME Solvent, NEW n \in {0, 1}, NEW histories \in {Histories, OtherHistories},
           NEW got \in ReadEntityPoints(n, histories), NEW id, Take(got, id)
    PROVE  /\ Solvent'
           /\ got.err = "ok" => NoFailure
           /\ got.err # "ok" => got.err \in Shortfall /\ Fail(got.err)
  BY ReadPays DEF Take, Solvent, Shortfall, Within

-----------------------------------------------------------------------------
(* The steps, in the order of Next.                                        *)

Order == Orderly /\ Solvent

LEMMA InitOrder == Init => Order
  <1>1. Unspent \in [Dimensions -> Nat] /\ \A d \in Dimensions : Unspent[d] = 0
    BY DEF Unspent
  <1> QED BY <1>1, BudgetAssumption
          DEF Init, Order, Orderly, Solvent, Within, OnlyTheCallerAborts, Endings

LEMMA SpentNothing == Solvent /\ used' = used => Solvent'
  BY DEF Solvent, Within

(* What a step that spends nothing has left to show.                       *)
LEMMA QuietOrder ==
    ASSUME Order, end = "running", Quiet \/ used' = used, Proceeds
    PROVE  Order'
  BY SpentNothing, ProceedsOrderly DEF Order, Quiet

LEMMA BeginOrder == Order /\ Begin => Order'
  <1> SUFFICES ASSUME Order, Begin PROVE Order'
    OBVIOUS
  <1>1. Solvent'
    BY SpentNothing DEF Order, Begin, Quiet
  <1>2. end = "running" /\ in' = in /\ in = EmptyInput /\ failures' = failures /\ tool' = tool
    BY DEF Order, Orderly, Begin, NoFailure, Keep
  <1>3. \/ at' = "done" /\ end' = "refused"
        \/ at' = "history" /\ end' = end
        \/ at' = "summary" /\ end' = end
        \/ at' = "resolve" /\ tool = "integration" /\ end' = end
    BY DEF Order, Orderly, Begin, End, Going
  <1>4. Orderly'
    BY <1>2, <1>3 DEF Order, Orderly, OnlyTheCallerAborts, Endings
  <1> QED BY <1>1, <1>4 DEF Order

(* The reads of a history, alone or in a loop.                             *)
LEMMA ReadHistoryOrder == Order /\ ReadHistory => Order'
  <1> SUFFICES ASSUME Order, ReadHistory PROVE Order'
    OBVIOUS
  <1>1. PICK got \in ReadEntityPoints(0, Histories) :
            /\ Take(got, Subject)
            /\ IF got.err = "ok"
               THEN at' = "registry" /\ Going
               ELSE Misses("history", got.err, "registry")
    BY DEF ReadHistory
  <1>2. end = "running"
    BY DEF ReadHistory, Order, Orderly
  <1>3. /\ Solvent' /\ (got.err = "ok" => NoFailure)
        /\ (got.err # "ok" => got.err \in Shortfall /\ Fail(got.err))
    BY <1>1, TakeFails DEF Order
  <1>4. Proceeds
    <2>1. CASE got.err = "ok"
      BY <1>1, <1>2, <1>3, <2>1, ReadsProceeds DEF Order, ReadHistory
    <2>2. CASE got.err # "ok"
      BY <1>1, <1>2, <1>3, <2>2, MissesProceeds DEF Order, ReadHistory
    <2> QED BY <2>1, <2>2
  <1> QED BY <1>2, <1>3, <1>4, ProceedsOrderly DEF Order

(* One step of a loop of reads: on with the loop, or the last read of it.  *)
LEMMA LoopedReadOrder ==
    ASSUME Order, end = "running", NEW id, NEW what, NEW rest, NEW stage, NEW next,
           {stage, next} \cap {"begin", "resolve", "done"} = {},
           NEW got \in ReadEntityPoints(1, OtherHistories), Keep, Take(got, id),
           IF got.err = "ok" THEN Loop(rest, stage, next) /\ Going ELSE Misses(what, got.err, next)
    PROVE  Order'
  <1>1. /\ Solvent' /\ (got.err = "ok" => NoFailure)
        /\ (got.err # "ok" => got.err \in Shortfall /\ Fail(got.err))
    BY TakeFails DEF Order
  <1>2. Proceeds
    <2>1. CASE got.err = "ok"
      BY <1>1, <2>1, LoopProceeds DEF Order
    <2>2. CASE got.err # "ok"
      BY <1>1, <2>2, MissesProceeds DEF Order
    <2> QED BY <2>1, <2>2
  <1> QED BY <1>1, <1>2, ProceedsOrderly DEF Order

LEMMA ReadOutageOrder == Order /\ ReadOutage => Order'
  BY LoopedReadOrder DEF ReadOutage, Order, Orderly

LEMMA ReadMetricOrder == Order /\ ReadMetric => Order'
  <1> SUFFICES ASSUME Order, ReadMetric PROVE Order'
    OBVIOUS
  <1>1. PICK got \in ReadEntityPoints(1, OtherHistories) :
            /\ Take(got, Head(todo))
            /\ IF got.err = "ok"
               THEN Loop(Tail(todo), "metric", "restarts") /\ Going
               ELSE Misses("mesh", got.err, "restarts")
    BY DEF ReadMetric
  <1>2. end = "running" /\ Keep
    BY DEF ReadMetric, Order, Orderly
  <1> QED BY <1>1, <1>2, LoopedReadOrder

(* The sources that cost nothing.                                          *)
LEMMA ReadSourceOrder ==
    ASSUME Order, end = "running", NEW what, NEW inputs, NEW next,
           next \notin {"begin", "resolve", "done"},
           ReadSource(what, inputs, next) \/ NotConfigured(what, next)
    PROVE  Order'
  BY ReadSourceProceeds, QuietOrder DEF Order

LEMMA ReadFieldOrder ==
    ASSUME Order, end = "running", NEW field, NEW inputs, NEW next,
           next \notin {"begin", "resolve", "done"}, ReadField(field, inputs, next)
    PROVE  Order'
  BY ReadFieldProceeds, QuietOrder DEF Order

LEMMA SourcesOrder ==
    ASSUME Order, ReadRepairs \/ ReadUnavailable \/ ReadSupervisor \/ ReadConfig \/ ReadTraces
    PROVE  Order'
  <1>1. end = "running"
    BY DEF Order, Orderly, ReadRepairs, ReadUnavailable, ReadSupervisor, ReadConfig, ReadTraces
  <1>2. CASE ReadRepairs
    <2>1. (IF tool = "integration" THEN "supervisor" ELSE "analyse")
                \notin {"begin", "resolve", "done"}
      OBVIOUS
    <2> QED BY <1>1, <1>2, <2>1, ReadSourceOrder DEF ReadRepairs
  <1>3. CASE ReadUnavailable
    BY <1>1, <1>3, ReadSourceOrder DEF ReadUnavailable
  <1>4. CASE ReadSupervisor
    BY <1>1, <1>4, ReadSourceOrder DEF ReadSupervisor
  <1>5. CASE ReadConfig
    BY <1>1, <1>5, ReadFieldOrder DEF ReadConfig
  <1>6. CASE ReadTraces
    BY <1>1, <1>6, ReadFieldOrder DEF ReadTraces
  <1> QED BY <1>2, <1>3, <1>4, <1>5, <1>6

LEMMA ReadRegistryOrder == Order /\ ReadRegistry => Order'
  <1> SUFFICES ASSUME Order, ReadRegistry PROVE Order'
    OBVIOUS
  <1>1. end = "running" /\ Keep /\ Quiet
    BY DEF ReadRegistry, Order, Orderly
  <1>2. Proceeds
    <2>1. CASE \E err \in Shortfall : Fail(err) /\ Misses("registry", err, "repairs")
      BY <1>1, <2>1, MissesProceeds DEF Order
    <2>2. CASE /\ NoFailure
               /\ \/ at' = "done" /\ End("not_found")
                  \/ at' = "repairs" /\ Going
      BY <1>1, <2>2 DEF Order, Orderly, Proceeds, Keep, NoFailure, End, Going, Endings
    <2> QED BY <2>1, <2>2 DEF ReadRegistry, Shortfall
  <1> QED BY <1>1, <1>2, QuietOrder

(* The one read without which there is nothing to analyse.                 *)
LEMMA ResolveIntegrationOrder == Order /\ ResolveIntegration => Order'
  <1> SUFFICES ASSUME Order, ResolveIntegration PROVE Order'
    OBVIOUS
  <1>1. /\ end = "running" /\ Keep /\ Quiet /\ in = EmptyInput /\ tool = "integration"
    BY DEF ResolveIntegration, Order, Orderly
  <1>2. CASE \/ NoFailure /\ at' = "done" /\ End("not_found")
             \/ at' = "available" /\ NoFailure /\ Going
    <2>1. Proceeds
      BY <1>1, <1>2 DEF Order, Orderly, Proceeds, Keep, NoFailure, End, Going, Endings
    <2> QED BY <1>1, <2>1, QuietOrder
  <1>3. ASSUME NEW err \in ReadError, Fail(err), at' = "done", in' = in,
               End(IF Aborts(err) THEN "cancelled" ELSE "failed")
        PROVE  Order'
    <2>1. CASE err = "canceled"
      <3>1. Proceeds
        BY <1>1, <1>3, <2>1 DEF Order, Orderly, Proceeds, Keep, Fail, End, Aborts, Endings, Shortfall
      <3> QED BY <1>1, <3>1, QuietOrder
    <2>2. CASE err # "canceled"
      <3>1. end' = "failed" /\ failures' = Append(failures, err) /\ err \in Shortfall
        BY <1>3, <2>2 DEF End, Aborts, Fail, Shortfall
      <3>2. Orderly'
        BY <1>1, <1>3, <2>2, <3>1, FailureKept
           DEF Order, Orderly, OnlyTheCallerAborts, Endings, Keep
      <3> QED BY <1>1, <3>2, SpentNothing DEF Order, Quiet
    <2> QED BY <2>1, <2>2
  <1> QED BY <1>2, <1>3 DEF ResolveIntegration

(* What is chosen to be read: no read, no failure but a missing source.    *)
LEMMA ChoicesOrder ==
    ASSUME Order, ChooseOutages \/ ChooseMesh \/ ChooseRestarts
    PROVE  Order'
  <1>1. end = "running" /\ Keep /\ Quiet
    BY DEF Order, Orderly, ChooseOutages, ChooseMesh, ChooseRestarts
  <1>2. CASE ChooseOutages
    <2>1. Proceeds
      BY <1>1, <1>2, LoopProceeds DEF Order, ChooseOutages
    <2> QED BY <1>1, <2>1, QuietOrder
  <1>3. CASE ChooseMesh
    <2>1. PICK resolved, metrics : ReadMetrics(resolved, metrics)
      BY <1>3 DEF ChooseMesh
    <2>2. NoFailure /\ Going
      BY <1>3 DEF ChooseMesh
    <2>3. Proceeds
      BY <1>1, <2>1, <2>2, LoopProceeds DEF Order, ReadMetrics
    <2> QED BY <1>1, <2>3, QuietOrder
  <1>4. CASE ChooseRestarts
    <2>1. PICK onsets : ProbeOnsets(onsets)
      BY <1>4 DEF ChooseRestarts
    <2>2. CASE Loop(Cut(onsets, MaxRestartProbes), "restart", "repairs") /\ NoFailure /\ Going
      BY <1>1, <2>2, LoopProceeds, QuietOrder DEF Order
    <2>3. CASE Fail("not_configured") /\ Misses("restarts", "not_configured", "repairs")
      BY <1>1, <2>3, MissesProceeds, QuietOrder DEF Order, Shortfall
    <2> QED BY <2>1, <2>2, <2>3 DEF ProbeOnsets
  <1> QED BY <1>2, <1>3, <1>4

LEMMA ReadRestartOrder == Order /\ ReadRestart => Order'
  <1> SUFFICES ASSUME Order, ReadRestart PROVE Order'
    OBVIOUS
  <1>1. end = "running" /\ Keep /\ Quiet
    BY DEF Order, Orderly, ReadRestart
  <1>2. CASE Loop(Tail(todo), "restart", "repairs") /\ NoFailure /\ Going
    BY <1>1, <1>2, LoopProceeds, QuietOrder DEF Order
  <1>3. CASE \E err \in Shortfall : Fail(err) /\ Misses("restarts", err, "repairs")
    BY <1>1, <1>3, MissesProceeds, QuietOrder DEF Order
  <1> QED BY <1>2, <1>3 DEF ReadRestart, Shortfall

LEMMA ReadSummaryOrder == Order /\ ReadSummary => Order'
  <1> SUFFICES ASSUME Order, ReadSummary PROVE Order'
    OBVIOUS
  <1>1. end = "running"
    BY DEF Order, Orderly, ReadSummary
  <1>2. CASE ReadSource("inventory", {in}, "config")
    BY <1>1, <1>2, ReadSourceOrder
  <1>3. CASE Keep /\ Quiet /\ Reads(in, "config")
    BY <1>1, <1>3, ReadsProceeds, QuietOrder DEF Order, Reads
  <1>4. CASE Keep /\ Quiet /\ NoFailure /\ at' = "done" /\ End("not_found")
    <2>1. Proceeds
      BY <1>1, <1>4 DEF Order, Orderly, Proceeds, Keep, NoFailure, End, Endings
    <2> QED BY <1>1, <1>4, <2>1, QuietOrder
  <1> QED BY <1>2, <1>3, <1>4 DEF ReadSummary

LEMMA ReadFallbackOrder == Order /\ ReadFallback => Order'
  <1> SUFFICES ASSUME Order, ReadFallback PROVE Order'
    OBVIOUS
  <1>1. end = "running"
    BY DEF Order, Orderly, ReadFallback
  <1>2. CASE Keep /\ Quiet /\ Reads(in, "resolve_deps")
    BY <1>1, <1>2, ReadsProceeds, QuietOrder DEF Order, Reads
  <1>3. CASE \E inputs : ReadField("fallbackUnread", inputs, "resolve_deps")
    BY <1>1, <1>3, ReadFieldOrder
  <1> QED BY <1>2, <1>3 DEF ReadFallback

(* The dependencies of an automation: without the registry the named ones  *)
(* are left, and only the caller's leaving ends the call.                  *)
LEMMA ResolveDependenciesOrder == Order /\ ResolveDependencies => Order'
  <1> SUFFICES ASSUME Order, ResolveDependencies PROVE Order'
    OBVIOUS
  <1>1. end = "running" /\ Keep /\ Quiet
    BY DEF Order, Orderly, ResolveDependencies
  <1>2. CASE Reads(in, "repairs")
    BY <1>1, <1>2, ReadsProceeds, QuietOrder DEF Order, Reads
  <1>3. ASSUME NEW seq, Loop(seq, "dependency", "repairs"), Going,
               NoFailure \/ \E err \in Shortfall : err # "canceled" /\ Fail(err)
        PROVE  Order'
    BY <1>1, <1>3, LoopProceeds, QuietOrder DEF Order
  <1>4. CASE at' = "done" /\ End("cancelled") /\ Fail("canceled")
    <2>1. Proceeds
      BY <1>1, <1>4 DEF Order, Orderly, Proceeds, Keep, Fail, End, Endings, Shortfall, ReadError
    <2> QED BY <1>1, <2>1, QuietOrder
  <1>5. ASSUME NEW err \in ReadError, Fail(err),
               IF Aborts(err) THEN at' = "done" /\ End("cancelled")
               ELSE Loop(InOrder(in.depends.entities), "dependency", "repairs") /\ Going
        PROVE  Order'
    BY <1>3, <1>4, <1>5 DEF Aborts, Shortfall
  <1> QED BY <1>2, <1>3, <1>5 DEF ResolveDependencies

LEMMA ReadDependencyOrder == Order /\ ReadDependency => Order'
  <1> SUFFICES ASSUME Order, ReadDependency PROVE Order'
    OBVIOUS
  <1> DEFINE Onward == Loop(Tail(todo), "dependency", "repairs") /\ Going
  <1>1. end = "running" /\ Keep
    BY DEF Order, Orderly, ReadDependency
  <1>2. CASE Onward /\ Quiet /\ NoFailure
    BY <1>1, <1>2, LoopProceeds, QuietOrder DEF Order
  <1>3. ASSUME NEW got \in ReadEntityPoints(1, OtherHistories), Take(got, Head(todo)),
               IF Aborts(got.err) THEN at' = "done" /\ End("cancelled") ELSE Onward
        PROVE  Order'
    <2>1. /\ Solvent' /\ (got.err = "ok" => NoFailure)
          /\ (got.err # "ok" => got.err \in Shortfall /\ Fail(got.err))
      BY <1>3, TakeFails DEF Order
    <2>2. CASE got.err = "canceled"
      <3>1. Proceeds
        BY <1>1, <1>3, <2>1, <2>2 DEF Order, Orderly, Proceeds, Keep, Fail, End, Aborts, Endings
      <3> QED BY <1>1, <2>1, <3>1, ProceedsOrderly DEF Order
    <2>3. CASE got.err # "canceled"
      <3>1. Proceeds
        BY <1>1, <1>3, <2>1, <2>3, LoopProceeds DEF Order, Aborts
      <3> QED BY <1>1, <2>1, <3>1, ProceedsOrderly DEF Order
    <2> QED BY <2>2, <2>3
  <1>4. CASE \E got \in ReadEntityPoints(1, OtherHistories) :
                /\ Take(got, Head(todo))
                /\ IF Aborts(got.err) THEN at' = "done" /\ End("cancelled") ELSE Onward
    BY <1>3, <1>4
  <1>5. \/ Onward /\ Quiet /\ NoFailure
        \/ \E got \in ReadEntityPoints(1, OtherHistories) :
              /\ Take(got, Head(todo))
              /\ IF Aborts(got.err) THEN at' = "done" /\ End("cancelled") ELSE Onward
    BY DEF ReadDependency
  <1> QED BY <1>2, <1>4, <1>5

LEMMA AnalyseOrder == Order /\ Analyse => Order'
  <1> SUFFICES ASSUME Order, Analyse PROVE Order'
    OBVIOUS
  <1>1. PICK weight \in AnswerBytes :
            \/ /\ Fits(used, Limits, "bytes", weight)
               /\ used' = Charged(used, "bytes", weight) /\ end' = "answered"
            \/ used' = used /\ end' = "budget"
    BY DEF Analyse, End
  <1>2. Solvent'
    <2>1. weight \in Nat
      BY BudgetAssumption
    <2>2. CASE Fits(used, Limits, "bytes", weight) /\ used' = Charged(used, "bytes", weight)
      <3>1. used' \in [Dimensions -> Nat] /\ Within(used', Limits)
        BY <2>1, <2>2, ChargeFits DEF Order, Solvent, Dimensions
      <3> QED BY <3>1 DEF Solvent, Within
    <2> QED BY <1>1, <2>2, SpentNothing DEF Order
  <1>3. end = "running" /\ Proceeds
    BY <1>1 DEF Order, Orderly, Analyse, Proceeds, Keep, NoFailure, Endings
  <1> QED BY <1>2, <1>3, ProceedsOrderly DEF Order

LEMMA NextOrder == Order /\ [Next]_vars => Order'
  <1>1. CASE UNCHANGED vars
    BY <1>1 DEF vars, Order, Orderly, Solvent, Within, OnlyTheCallerAborts
  <1> QED BY <1>1, BeginOrder, ReadHistoryOrder, ReadRegistryOrder, SourcesOrder,
             ResolveIntegrationOrder, ChoicesOrder, ReadOutageOrder, ReadMetricOrder,
             ReadRestartOrder, ReadSummaryOrder, ReadFallbackOrder, ResolveDependenciesOrder,
             ReadDependencyOrder, AnalyseOrder
          DEF Next, Ended

-----------------------------------------------------------------------------
(* Whatever fails, and however often, a composite tool ends for it only    *)
(* when its caller has left, or when the integration it is asked about     *)
(* cannot be resolved (missingFor, resolveIntegration).                    *)
THEOREM OnlyTheCallerEndsACall == Spec => []OnlyTheCallerAborts
  <1>1. Order => OnlyTheCallerAborts
    BY DEF Order, Orderly
  <1> QED BY <1>1, InitOrder, NextOrder, PTL DEF Spec

(* No call of a composite tool spends more than its class allows, on any   *)
(* dimension, however long the histories are (readEntityPoints, Charge).   *)
THEOREM SpendsWithinBudget == Spec => []Within(used, Limits)
  <1>1. Order => Within(used, Limits)
    BY DEF Order, Solvent
  <1> QED BY <1>1, InitOrder, NextOrder, PTL DEF Spec

-----------------------------------------------------------------------------
(* What the answers say is missing: the notes of the reads come first.     *)

(* What an analysis hands on of what is missing: an answer is a record     *)
(* that begins its list with what the reads noted.                         *)
HandsOn(a, i, more) ==
    a # <<>> /\ a.missing = i.missing \o more /\ a.partial = (i.missing \o more # <<>>)

LEMMA HealthSays ==
    ASSUME NEW i, NEW more, NEW evidence, NEW claims, NEW next, NEW clusters
    PROVE  HandsOn(Health(evidence, claims, i.missing \o more, next, clusters), i, more)
  <1> DEFINE a == Health(evidence, claims, i.missing \o more, next, clusters)
  <1>1. "partial" \in DOMAIN a /\ a.missing = i.missing \o more /\ a.partial = (i.missing \o more # <<>>)
    BY DEF Health
  <1>2. "partial" \notin DOMAIN <<>>
    OBVIOUS
  <1> HIDE DEF a
  <1>3. a # <<>>
    BY <1>1, <1>2
  <1> QED BY <1>1, <1>3 DEF HandsOn, a

Sources == {"history", "registry", "context", "repairs", "availability_now", "outages", "mesh",
            "link_quality", "signal_strength", "restarts", "supervisor", "inventory",
            "indirect_dependencies"}
Note == Sources \X Reasons

LEMMA EntityAnswers ==
    ASSUME NEW i, i.missing \in Seq(Note)
    PROVE  \E more \in Seq(Note) : HandsOn(AnalyzeEntityHealth(i), i, more)
  <1> DEFINE a == Availability(i.points)
             c == Cadence(i.points)
             h == HistoryMissing(i, a)
             r == RegistryMissing(i)
             e == HistoryEvidence(i, a, c) \o SetupEvidence(i) \o RepairEvidence(i, IntegrationDomain(i))
             cl == HistoryClaims(i, a, c) \o SetupClaim(i, a, c) \o RepairClaim(i, a, c)
  <1>1. h \in Seq(Note)
    <2>1. <<"history", "entity_disabled">> \in Note /\ <<"history", "out_of_retention">> \in Note
      BY DEF Note, Sources, Reasons
    <2> HIDE DEF a
    <2> QED BY <2>1, WhenIsSeq DEF HistoryMissing
  <1>2. r \in Seq(Note)
    <2>1. <<"context", "not_exposed">> \in Note
      BY DEF Note, Sources, Reasons
    <2> QED BY <2>1, WhenIsSeq DEF RegistryMissing
  <1>3. AnalyzeEntityHealth(i) = Health(e, cl, i.missing \o h \o r, NextActions(i, a), {})
    BY DEF AnalyzeEntityHealth, EntityAnalysis
  <1> HIDE DEF h, r, e, cl, a, c
  <1>4. i.missing \o h \o r = i.missing \o (h \o r) /\ h \o r \in Seq(Note)
    <2> HIDE DEF Note
    <2>1. h \o r \in Seq(Note)
      BY <1>1, <1>2, Joined
    <2>2. (i.missing \o h) \o r = i.missing \o (h \o r)
      <3> DEFINE m == i.missing
      <3>1. m \in Seq(Note)
        OBVIOUS
      <3> HIDE DEF m
      <3>2. (m \o h) \o r = m \o (h \o r)
        BY ONLY <1>1, <1>2, <3>1, SMT
      <3> QED BY <3>2 DEF m
    <2> QED BY <2>1, <2>2
  <1> QED BY <1>3, <1>4, HealthSays

LEMMA IntegrationAnswers ==
    ASSUME NEW i
    PROVE  \E more : (\E W : more \in Seq(W)) /\ HandsOn(AnalyzeIntegrationHealth(i), i, more)
  <1> DEFINE timed == Clusters(i)
             more == UnreachableMissing(i, timed)
             W == {<<"host_logs", "privileged">>, <<"mesh_table", "not_exposed">>}
  <1>1. \E e, c, n, k : AnalyzeIntegrationHealth(i) = Health(e, c, i.missing \o more, n, k)
    BY DEF AnalyzeIntegrationHealth, IntegrationAnalysis
  <1>2. more \in Seq(W)
    <2> HIDE DEF timed
    <2>1. <<"host_logs", "privileged">> \in W /\ <<"mesh_table", "not_exposed">> \in W
      OBVIOUS
    <2> HIDE DEF W
    <2> QED BY <2>1, WhenIsSeq, Joined DEF UnreachableMissing
  <1> HIDE DEF more, W
  <1> QED BY <1>1, <1>2, HealthSays

-----------------------------------------------------------------------------
(* An automation's dependencies, and what its answer adds to the notes.    *)

LEMMA DistinctIsSeq ==
    ASSUME NEW S, IsFiniteSet(S)
    PROVE  SetToSeq(S) \in Seq(S) /\ ToSet(SetToSeq(S)) = S
  <1> DEFINE n == Cardinality(S)
             f == SetToSeq(S)
  <1>1. n \in Nat /\ \E g \in [1 .. n -> S] : IsInjective(g)
    <2>1. PICK m \in Nat : ExistsBijection(1 .. m, S)
      BY FS_NatBijection
    <2>2. PICK g \in Bijection(1 .. m, S) : TRUE
      BY <2>1 DEF ExistsBijection
    <2>3. 1 \in Int /\ m \in Int
      BY <2>1
    <2>4. IsFiniteSet(1 .. m) /\ Cardinality(1 .. m) = m
      <3>1. Cardinality(1 .. m) = IF 1 > m THEN 0 ELSE m - 1 + 1
        BY <2>3, FS_Interval
      <3> QED BY <2>3, <3>1, FS_Interval
    <2>5. n = m
      BY <2>1, <2>4, FS_Bijection
    <2> QED BY <2>2, <2>5 DEF Bijection, Injection
  <1>2. f \in [1 .. n -> S] /\ IsInjective(f)
    BY <1>1 DEF SetToSeq
  <1> HIDE DEF f, n
  <1>3. f \in Seq(S) /\ Len(f) = n
    BY <1>1, <1>2
  <1>4. IsFiniteSet(1 .. n) /\ Cardinality(1 .. n) = Cardinality(S)
    <2>1. 1 \in Int /\ n \in Int
      BY <1>1
    <2>2. Cardinality(1 .. n) = IF 1 > n THEN 0 ELSE n - 1 + 1
      BY <2>1, FS_Interval
    <2> QED BY <1>1, <2>1, <2>2, FS_Interval DEF n
  <1>5. f \in Surjection(1 .. n, S)
    <2>1. f \in Injection(1 .. n, S)
      BY <1>2 DEF Injection
    <2> QED BY <1>4, <2>1, FS_Injection
  <1> QED BY <1>3, <1>5 DEF f, Surjection, ToSet

(* The dependencies as they are measured: each of them, read or not.       *)
LEMMA MeasuredDepsAre ==
    ASSUME NEW i, i.configRead, NEW D, i.deps \in Seq(D), \A d \in D : d.entity \in Int, Distinct(i.deps)
    PROVE  /\ \E M : MeasuredDeps(i) \in Seq(M)
           /\ \A d \in ToSet(i.deps) : \E m \in ToSet(MeasuredDeps(i)) : m.read = d.read /\ m.reason = d.reason
  <1> DEFINE deps == i.deps
             s == SortedDeps(i)
             m == MeasuredDeps(i)
             S == ToSet(i.deps)
  <1>1. s = Sorted(ToSet(deps), LAMBDA d, e : d.entity < e.entity)
    BY DEF SortedDeps
  <1>2. s \in Seq(S) /\ \A x \in S : \E k \in 1 .. Len(s) : s[k] = x
    <2>1. deps \in Seq(D) /\ Distinct(deps)
      OBVIOUS
    <2> HIDE DEF deps
    <2>2. IsLine(Sorted(ToSet(deps), LAMBDA d, e : d.entity < e.entity), ToSet(deps),
                  {p \in ToSet(deps) \X ToSet(deps) : p[1].entity < p[2].entity})
      BY <2>1, DepsAreLine
    <2>3. IsLine(s, ToSet(deps), {p \in ToSet(deps) \X ToSet(deps) : p[1].entity < p[2].entity})
      BY <1>1, <2>2
    <2> QED BY <2>3 DEF IsLine, deps
  <1>3. m = [k \in DOMAIN s |-> MeasureDependency(s[k])]
    BY DEF MeasuredDeps
  <1> HIDE DEF s, m, S, deps
  <1>4. DOMAIN s = 1 .. Len(s) /\ Len(s) \in Nat
    BY <1>2
  <1>5. m \in [1 .. Len(s) -> {MeasureDependency(s[k]) : k \in DOMAIN s}]
    BY <1>3, <1>4
  <1>6. m \in Seq({MeasureDependency(s[k]) : k \in DOMAIN s})
    BY <1>4, <1>5
  <1>7. ASSUME NEW d \in S PROVE \E x \in ToSet(m) : x.read = d.read /\ x.reason = d.reason
    <2>1. PICK k \in 1 .. Len(s) : s[k] = d
      BY <1>2
    <2>2. m[k] = MeasureDependency(d) /\ k \in DOMAIN m
      BY <1>3, <1>4, <2>1
    <2>3. MeasureDependency(d).read = d.read /\ MeasureDependency(d).reason = d.reason
      BY DEF MeasureDependency, Measures
    <2> QED BY <2>2, <2>3 DEF ToSet
  <1> QED BY <1>6, <1>7 DEF m, S

LEMMA DependencyMissingIs ==
    ASSUME NEW M, NEW deps \in Seq(M)
    PROVE  /\ \E W : DependencyMissing(deps) \in Seq(W)
           /\ (\E d \in ToSet(deps) : ~d.read)
                => \E note \in ToSet(DependencyMissing(deps)) : note[1] = "dependency_history"
  <1> DEFINE T == {d \in ToSet(deps) : ~d.read}
             f == [d \in T |-> d.reason]
             R == {d.reason : d \in T}
             rs == SetToSeq(R)
             first == [n \in DOMAIN rs |-> <<"dependency_history", rs[n]>>]
             holds == \E d \in ToSet(deps) : d.read /\ ~d.computable
             second == When(holds, <<"dependency_history", "out_of_retention">>)
             W == {<<"dependency_history", r>> : r \in R \cup {"out_of_retention"}}
  <1>1. DependencyMissing(deps) = first \o second
    BY DEF DependencyMissing
  <1>2. IsFiniteSet(T)
    <2>1. IsFiniteSet(ToSet(deps))
      BY MembersAreFinite
    <2> QED BY <2>1, FS_Subset
  <1>3. IsFiniteSet(R)
    <2>1. R = {f[d] : d \in T}
      OBVIOUS
    <2> HIDE DEF T, f, R
    <2> QED BY <1>2, <2>1, ImageIsFinite
  <1>4. rs \in Seq(R) /\ ToSet(rs) = R
    <2> HIDE DEF R
    <2> QED BY <1>3, DistinctIsSeq
  <1>5. second \in Seq(W)
    <2>1. <<"dependency_history", "out_of_retention">> \in W
      OBVIOUS
    <2> HIDE DEF W, holds
    <2> QED BY <2>1, WhenIsSeq
  <1>6. first \in Seq(W)
    <2> HIDE DEF rs, R
    <2>1. DOMAIN rs = 1 .. Len(rs) /\ Len(rs) \in Nat /\ \A n \in DOMAIN rs : rs[n] \in R
      BY <1>4
    <2>2. first \in [1 .. Len(rs) -> W]
      BY <2>1
    <2> HIDE DEF first, W
    <2> QED BY <2>1, <2>2
  <1>7. ASSUME NEW d \in T PROVE \E note \in ToSet(first) : note[1] = "dependency_history"
    <2>1. d.reason \in R
      OBVIOUS
    <2> HIDE DEF rs, R
    <2>2. PICK n \in DOMAIN rs : TRUE
      BY <1>4, <2>1 DEF ToSet
    <2>3. first[n] = <<"dependency_history", rs[n]>> /\ n \in DOMAIN first
      BY <2>2
    <2>4. first[n] \in ToSet(first) /\ first[n][1] = "dependency_history"
      <3>1. first[n] \in ToSet(first)
        <4> HIDE DEF first
        <4> QED BY <2>3 DEF ToSet
      <3> QED BY <2>3, <3>1
    <2> HIDE DEF first
    <2> QED BY <2>4
  <1> HIDE DEF first, second, W, holds
  <1>8. ToSet(first \o second) = ToSet(first) \cup ToSet(second) /\ first \o second \in Seq(W)
    BY <1>5, <1>6, Joined
  <1> QED BY <1>1, <1>7, <1>8

LEMMA AutomationAnswers ==
    ASSUME NEW i, i.missing \in Seq(Note), i.configRead \in BOOLEAN, i.tracesRead \in BOOLEAN, i.fallbackRead \in BOOLEAN,
           NEW D, i.deps \in Seq(D), \A d \in D : d.entity \in Int, Distinct(i.deps)
    PROVE  \E more :
              /\ \E W : more \in Seq(W) /\ i.missing \in Seq(W)
              /\ HandsOn(AnalyzeAutomationHealth(i), i, more)
              /\ ~i.tracesRead => \E note \in ToSet(more) : note[1] = "traces"
              /\ ~i.tracesRead /\ ~i.fallbackRead => \E note \in ToSet(more) : note[1] = "logbook"
              /\ ~i.configRead => \E note \in ToSet(more) : note[1] = "dependencies"
              /\ i.configRead /\ (\E d \in ToSet(i.deps) : ~d.read)
                    => \E note \in ToSet(more) : note[1] = "dependency_history"
  <1> DEFINE ofRun == RunMissing(i)
             ofConfig == ConfigMissing(i)
             ofDeps == DependencyMissing(MeasuredDeps(i))
  <1>1. \E e, c, n, k : AnalyzeAutomationHealth(i) = Health(e, c, ((i.missing \o ofRun) \o ofConfig) \o ofDeps, n, k)
    BY DEF AnalyzeAutomationHealth, AutomationAnalysis, Concludes
  <1>2. \E M : MeasuredDeps(i) \in Seq(M)
    <2>1. CASE i.configRead
      BY <2>1, MeasuredDepsAre
    <2>2. CASE ~i.configRead
      <3>1. MeasuredDeps(i) = <<>> /\ <<>> \in Seq({})
        BY <2>2 DEF MeasuredDeps, SortedDeps
      <3> QED BY <3>1
    <2> QED BY <2>1, <2>2
  <1>3. PICK M : MeasuredDeps(i) \in Seq(M)
    BY <1>2
  <1>4. /\ \E V : ofDeps \in Seq(V)
        /\ (\E d \in ToSet(MeasuredDeps(i)) : ~d.read)
                => \E note \in ToSet(ofDeps) : note[1] = "dependency_history"
    BY <1>3, DependencyMissingIs
  <1>5. PICK V : ofDeps \in Seq(V)
    BY <1>4
  <1>6. i.configRead /\ (\E d \in ToSet(i.deps) : ~d.read)
            => \E note \in ToSet(ofDeps) : note[1] = "dependency_history"
    <2> SUFFICES ASSUME i.configRead, NEW d \in ToSet(i.deps), ~d.read
                 PROVE  \E note \in ToSet(ofDeps) : note[1] = "dependency_history"
      OBVIOUS
    <2>1. PICK x \in ToSet(MeasuredDeps(i)) : x.read = d.read
      BY MeasuredDepsAre
    <2> QED BY <1>4, <2>1
  <1> DEFINE a == <<"traces", i.tracesUnread>>
             b == <<"logbook", i.fallbackUnread>>
             c == <<"dependencies", i.configUnread>>
             W == Note \cup V \cup {a, b, c, <<"references", "unsupported">>,
                    <<"dependencies_past_cap", "budget_exceeded">>, <<"dependencies_withheld", "policy_denied">>}
  <1>7. i.missing \in Seq(W) /\ ofDeps \in Seq(W)
    <2>1. Note \subseteq W /\ V \subseteq W
      OBVIOUS
    <2> HIDE DEF W, ofDeps, Note
    <2>2. i.missing \in Seq(W)
      BY <2>1
    <2>3. ofDeps \in Seq(W)
      BY <1>5, <2>1
    <2> QED BY <2>2, <2>3
  <1>8. /\ ofRun \in Seq(W)
        /\ ~i.tracesRead => a \in ToSet(ofRun)
        /\ ~i.tracesRead /\ ~i.fallbackRead => b \in ToSet(ofRun)
    <2>1. a \in W /\ b \in W
      OBVIOUS
    <2>2. ofRun = When(~i.tracesRead, a) \o When(~i.tracesRead /\ ~i.fallbackRead, b)
      BY DEF RunMissing
    <2> HIDE DEF W, a, b, ofRun
    <2>3. /\ When(~i.tracesRead, a) \in Seq(W)
          /\ ~i.tracesRead => ToSet(When(~i.tracesRead, a)) = {a}
      BY <2>1, WhenIsSeq
    <2>4. /\ When(~i.tracesRead /\ ~i.fallbackRead, b) \in Seq(W)
          /\ ~i.tracesRead /\ ~i.fallbackRead => ToSet(When(~i.tracesRead /\ ~i.fallbackRead, b)) = {b}
      BY <2>1, WhenIsSeq
    <2>5. ofRun \in Seq(W) /\ ToSet(ofRun) = ToSet(When(~i.tracesRead, a))
                                    \cup ToSet(When(~i.tracesRead /\ ~i.fallbackRead, b))
      BY <2>2, <2>3, <2>4, Joined
    <2> QED BY <2>3, <2>4, <2>5
  <1>9. ofConfig \in Seq(W) /\ (~i.configRead => c \in ToSet(ofConfig))
    <2> DEFINE x == <<"references", "unsupported">>
               y == <<"dependencies_past_cap", "budget_exceeded">>
               z == <<"dependencies_withheld", "policy_denied">>
    <2>1. c \in W /\ x \in W /\ y \in W /\ z \in W
      OBVIOUS
    <2> DEFINE s == When(~i.configRead, c)
               t == When(i.configRead /\ i.unextracted > 0, x)
               u == When(i.configRead /\ i.truncated, y)
               v == When(i.configRead /\ i.withheld > 0, z)
    <2>2. ofConfig = ((s \o t) \o u) \o v
      BY DEF ConfigMissing
    <2> HIDE DEF W, c, x, y, z, ofConfig
    <2>3. s \in Seq(W) /\ (~i.configRead => ToSet(s) = {c})
      BY <2>1, WhenIsSeq
    <2>4. t \in Seq(W) /\ u \in Seq(W) /\ v \in Seq(W)
      BY <2>1, WhenIsSeq
    <2> HIDE DEF s, t, u, v
    <2> DEFINE st == s \o t
    <2>5. st \in Seq(W) /\ ToSet(st) = ToSet(s) \cup ToSet(t)
      BY <2>3, <2>4, Joined
    <2> DEFINE stu == st \o u
    <2>8. ofConfig = stu \o v
      BY <2>2
    <2> HIDE DEF st
    <2>6. stu \in Seq(W) /\ ToSet(stu) = ToSet(st) \cup ToSet(u)
      BY <2>4, <2>5, Joined
    <2> HIDE DEF stu
    <2>7. ofConfig \in Seq(W) /\ ToSet(ofConfig) = ToSet(stu) \cup ToSet(v)
      BY <2>4, <2>6, <2>8, Joined
    <2> QED BY <2>3, <2>5, <2>6, <2>7
  <1> DEFINE m == i.missing
             more == (ofRun \o ofConfig) \o ofDeps
  <1>10. m \in Seq(W)
    BY <1>7
  <1> HIDE DEF ofRun, ofConfig, ofDeps, W, m
  <1>11. ofRun \o ofConfig \in Seq(W) /\ ToSet(ofRun \o ofConfig) = ToSet(ofRun) \cup ToSet(ofConfig)
    BY <1>8, <1>9, Joined
  <1>12. more \in Seq(W) /\ ToSet(more) = ToSet(ofRun \o ofConfig) \cup ToSet(ofDeps)
    <2> DEFINE both == ofRun \o ofConfig
    <2>1. both \in Seq(W)
      BY <1>11
    <2> HIDE DEF both
    <2>2. both \o ofDeps \in Seq(W) /\ ToSet(both \o ofDeps) = ToSet(both) \cup ToSet(ofDeps)
      BY <1>7, <2>1, Joined
    <2> QED BY <2>2 DEF both
  <1>13. ((m \o ofRun) \o ofConfig) \o ofDeps = m \o more
    <2>1. (m \o ofRun) \o ofConfig = m \o (ofRun \o ofConfig)
      <3>1. ofRun \in Seq(W) /\ ofConfig \in Seq(W)
        BY <1>8, <1>9
      <3> QED BY ONLY <1>10, <3>1, SMT
    <2> DEFINE both == ofRun \o ofConfig
    <2>2. both \in Seq(W)
      BY <1>11
    <2> HIDE DEF both
    <2>3. (m \o both) \o ofDeps = m \o (both \o ofDeps)
      <3>1. ofDeps \in Seq(W)
        BY <1>7
      <3> QED BY ONLY <1>10, <2>2, <3>1, SMT
    <2> QED BY <2>1, <2>3 DEF both
  <1>14. HandsOn(AnalyzeAutomationHealth(i), i, more)
    <2>1. ((i.missing \o ofRun) \o ofConfig) \o ofDeps = i.missing \o more
      BY <1>13 DEF m
    <2> HIDE DEF more
    <2> QED BY <1>1, <2>1, HealthSays
  <1>15. a[1] = "traces" /\ b[1] = "logbook" /\ c[1] = "dependencies"
    OBVIOUS
  <1> HIDE DEF more, a, b, c
  <1>16. ToSet(more) = ToSet(ofRun) \cup ToSet(ofConfig) \cup ToSet(ofDeps)
    BY <1>11, <1>12
  <1>17. ~i.tracesRead => \E note \in ToSet(more) : note[1] = "traces"
    BY <1>8, <1>15, <1>16
  <1>18. ~i.tracesRead /\ ~i.fallbackRead => \E note \in ToSet(more) : note[1] = "logbook"
    BY <1>8, <1>15, <1>16
  <1>19. ~i.configRead => \E note \in ToSet(more) : note[1] = "dependencies"
    BY <1>9, <1>15, <1>16
  <1>20. i.configRead /\ (\E d \in ToSet(i.deps) : ~d.read)
                    => \E note \in ToSet(more) : note[1] = "dependency_history"
    BY <1>6, <1>16
  <1>21. \E X : more \in Seq(X) /\ i.missing \in Seq(X)
    BY <1>7, <1>12
  <1> QED BY <1>14, <1>17, <1>18, <1>19, <1>20, <1>21

-----------------------------------------------------------------------------
(* The shape of the input: its types, what is read once, what is cut.      *)

Fields == DOMAIN EmptyInput

LEMMA FieldsAre ==
    Fields = {"historyRead", "points", "registryRead", "entity", "entry", "repairsRead", "repairs", "missing",
      "entities", "devices", "rows", "down", "unavailableRead", "unavailable",
      "outagesRead", "outages", "probes", "mesh", "meshResolved", "supervisorRead", "unhealthy",
      "tracesRead", "tracesUnread", "traces", "fallbackRead", "fallbackUnread", "events", "since",
      "configRead", "configUnread", "depends", "unextracted", "truncated", "withheld", "deps", "readErr", "tries"}
  BY DEF Fields, EmptyInput

Changes(fs) ==
    /\ DOMAIN in' = DOMAIN in
    /\ \A f \in Fields \ fs : in'[f] = in[f]

Legs == [entity : Entities, points : Seq(Point)]
Metrics == {MeshEvidence(e, points, Numeric) : e \in Entities, points \in Seq(Point)}
Onsets == {c.from : c \in ToSet(Clusters(in))}
Askable == {id \in Int \cup {Subject} : Permitted(id)}
Readable == {id \in Names(in.rows) : Permitted(id)}

Typed ==
    /\ DOMAIN in = Fields
    /\ in.missing \in Seq(Note)
    /\ in.points \in Seq(Point) /\ in.outages \in Seq(Legs)
    /\ in.deps \in Seq(Deps) /\ in.mesh \in Seq(Metrics)
    /\ in.probes \in Seq([onset : Onsets, events : {0, 2}])
    /\ in.rows \in SUBSET Entities /\ in.down \in SUBSET Names(in.rows)
    /\ in.configRead \in BOOLEAN /\ in.tracesRead \in BOOLEAN /\ in.fallbackRead \in BOOLEAN
    /\ in.configRead => in.depends \in Configs
    /\ asked \in Seq(Askable)

Pending ==
    /\ at = "history" => Permitted(Subject)
    /\ at \in {"outage", "metric"} => todo \in Seq(Readable) \ {<<>>}
    /\ at = "restart" => todo \in Seq(Onsets) \ {<<>>}
    /\ at = "dependency" => todo \in Seq(Int) \ {<<>>}

BeforeOutages == {"begin", "resolve", "available", "outages"}
BeforeRestarts == BeforeOutages \cup {"outage", "mesh", "metric", "restarts"}
BeforeDependencies == {"begin", "summary", "config", "traces", "fallback", "resolve_deps"}

Unstarted ==
    /\ at \in BeforeOutages => in.outages = <<>>
    /\ at \in BeforeRestarts => in.probes = <<>>
    /\ at \in BeforeDependencies => in.deps = <<>>

Shaped == Typed /\ Pending /\ Unstarted

(* What does not depend on the step.                                       *)
LEMMA ScopeKept ==
    ASSUME Keep
    PROVE  (\A id : Permitted(id)' <=> Permitted(id)) /\ Askable' = Askable
  <1>1. \A id : Permitted(id)' <=> Permitted(id)
    BY DEF Keep, Permitted
  <1> QED BY <1>1 DEF Askable

LEMMA ReadableKept ==
    ASSUME Keep, in'.rows = in.rows
    PROVE  Readable' = Readable
  BY ScopeKept DEF Readable

LEMMA OnsetsKept ==
    ASSUME in'.outagesRead = in.outagesRead, in'.outages = in.outages, in'.devices = in.devices
    PROVE  Onsets' = Onsets
  BY DEF Onsets, Clusters

LEMMA NamesAre ==
    /\ \A e \in Entities : Row(e.id) = e
    /\ Names(Entities) \subseteq Int
  <1>1. \A e \in Entities : Row(e.id) = e
    BY RegistryAssumption DEF Row
  <1> QED BY <1>1, RegistryAssumption DEF Names

(* The rest of the input and of the loops, when none of this is touched.   *)
Settled == {"points", "outages", "deps", "mesh", "probes", "rows", "down", "configRead",
            "tracesRead", "fallbackRead", "depends", "outagesRead", "devices"}
Onward ==
    /\ at' \notin {"history", "outage", "metric", "restart", "dependency"}
    /\ \A S \in {BeforeOutages, BeforeRestarts, BeforeDependencies} : at' \in S => at \in S

LEMMA TypedKept ==
    ASSUME Typed, Keep, NEW fs, Changes(fs), fs \cap Settled = {},
           in'.missing \in Seq(Note), asked' \in Seq(Askable')
    PROVE  /\ Typed' /\ Onsets' = Onsets /\ Readable' = Readable
           /\ in'.outages = in.outages /\ in'.probes = in.probes /\ in'.deps = in.deps
  <1>1. /\ DOMAIN in' = Fields /\ in'.points = in.points /\ in'.outages = in.outages /\ in'.deps = in.deps
        /\ in'.mesh = in.mesh /\ in'.probes = in.probes /\ in'.rows = in.rows /\ in'.down = in.down
        /\ in'.configRead = in.configRead /\ in'.tracesRead = in.tracesRead
        /\ in'.fallbackRead = in.fallbackRead /\ in'.depends = in.depends
        /\ in'.outagesRead = in.outagesRead /\ in'.devices = in.devices
    BY FieldsAre DEF Changes, Settled, Typed
  <1>2. Onsets' = Onsets /\ Readable' = Readable
    BY <1>1, OnsetsKept, ReadableKept
  <1>3. in'.probes \in Seq([onset : Onsets', events : {0, 2}])
    BY <1>1, <1>2 DEF Typed
  <1> QED BY <1>1, <1>2, <1>3 DEF Typed

LEMMA ShapedKept ==
    ASSUME Shaped, Keep, NEW fs, Changes(fs), fs \cap Settled = {},
           in'.missing \in Seq(Note), asked' \in Seq(Askable'), Onward
    PROVE  Shaped'
  <1>1. /\ Typed' /\ in'.outages = in.outages /\ in'.probes = in.probes /\ in'.deps = in.deps
    BY TypedKept DEF Shaped
  <1>2. Unstarted'
    BY <1>1 DEF Shaped, Unstarted, Onward
  <1>3. Pending'
    BY DEF Pending, Onward
  <1> QED BY <1>1, <1>2, <1>3 DEF Shaped

LEMMA AskedKept ==
    ASSUME Typed, Keep, asked' = asked
    PROVE  asked' \in Seq(Askable')
  BY ScopeKept DEF Typed

(* A source that fails.                                                    *)
Missed(what, next) ==
    /\ todo' = <<>>
    /\ \/ at' = "done" /\ end' = "cancelled" /\ in' = in
       \/ /\ at' = next /\ end' = end /\ Changes({"missing"})
          /\ \E r \in Reasons : in'.missing = Append(in.missing, <<what, r>>)

LEMMA MissesIs ==
    ASSUME DOMAIN in = Fields, NEW what, NEW err, NEW next, Misses(what, err, next)
    PROVE  Missed(what, next)
  <1>1. Reason(err) \in Reasons
    BY DEF Reason, Reasons
  <1> QED BY <1>1, FieldsAre DEF Misses, Missed, Changes, Lacks, End, Going

LEMMA MissedShaped ==
    ASSUME Shaped, Keep, NEW what \in Sources, NEW next, Missed(what, next), asked' \in Seq(Askable'),
           next \notin {"history", "outage", "metric", "restart", "dependency"},
           \A S \in {BeforeOutages, BeforeRestarts, BeforeDependencies} : next \in S => at \in S
    PROVE  Shaped'
  <1>1. Changes({"missing"})
    BY DEF Missed, Changes
  <1>2. in'.missing \in Seq(Note)
    <2>1. in.missing \in Seq(Note)
      BY DEF Shaped, Typed
    <2>2. CASE in' = in
      BY <2>1, <2>2
    <2>3. ASSUME NEW r \in Reasons, in'.missing = Append(in.missing, <<what, r>>)
          PROVE  in'.missing \in Seq(Note)
      <3>1. <<what, r>> \in Note
        BY DEF Note
      <3> HIDE DEF Note
      <3> QED BY <2>1, <2>3, <3>1
    <2> QED BY <2>2, <2>3 DEF Missed
  <1>3. Onward
    BY DEF Missed, Onward, BeforeOutages, BeforeRestarts, BeforeDependencies
  <1>4. {"missing"} \cap Settled = {}
    BY DEF Settled
  <1> QED BY <1>1, <1>2, <1>3, <1>4, ShapedKept

-----------------------------------------------------------------------------
(* The first reads keep the shape.                                         *)

LEMMA InitShaped == Init => Shaped
  <1> SUFFICES ASSUME Init PROVE Shaped
    OBVIOUS
  <1>1. in = EmptyInput /\ at = "begin" /\ asked = <<>>
    BY DEF Init
  <1>2. /\ in.missing = <<>> /\ in.points = <<>> /\ in.outages = <<>> /\ in.deps = <<>> /\ in.mesh = <<>>
        /\ in.probes = <<>> /\ in.rows = {} /\ in.down = {} /\ in.configRead = FALSE
        /\ in.tracesRead = FALSE /\ in.fallbackRead = FALSE
    BY <1>1 DEF EmptyInput
  <1>3. \A V : <<>> \in Seq(V)
    OBVIOUS
  <1>4. DOMAIN in = Fields
    BY <1>1 DEF Fields
  <1>5. Typed
    BY <1>1, <1>2, <1>3, <1>4 DEF Typed
  <1>6. Unstarted
    BY <1>2 DEF Unstarted
  <1>7. Pending
    BY <1>1 DEF Pending
  <1> QED BY <1>5, <1>6, <1>7 DEF Shaped

LEMMA BeginShaped == Order /\ Shaped /\ Begin => Shaped'
  <1> SUFFICES ASSUME Order, Shaped, Begin PROVE Shaped'
    OBVIOUS
  <1>1. Keep /\ asked' = asked /\ in' = in /\ Changes({})
    BY DEF Begin, Quiet, Changes
  <1>2. \/ at' = "history" /\ tool = "entity" /\ Permitted(Subject)
        \/ at' \in {"done", "resolve", "summary"}
    BY DEF Begin, Order, Orderly
  <1>3. /\ Typed' /\ in'.outages = in.outages /\ in'.probes = in.probes /\ in'.deps = in.deps
    <2>1. in'.missing \in Seq(Note) /\ {} \cap Settled = {}
      BY <1>1 DEF Shaped, Typed
    <2> QED BY <1>1, <2>1, TypedKept, AskedKept DEF Shaped
  <1>4. Unstarted'
    <2>1. in.outages = <<>> /\ in.probes = <<>> /\ in.deps = <<>>
      BY DEF Begin, Shaped, Unstarted, BeforeOutages, BeforeRestarts, BeforeDependencies
    <2> QED BY <1>3, <2>1 DEF Unstarted
  <1>5. Pending'
    BY <1>1, <1>2, ScopeKept DEF Pending
  <1> QED BY <1>3, <1>4, <1>5 DEF Shaped

(* The entities whose history was asked for, after one more.               *)
LEMMA TakeAsks ==
    ASSUME Typed, Keep, NEW got, NEW id \in Int \cup {Subject}, Permitted(id), Take(got, id)
    PROVE  asked' \in Seq(Askable') /\ ToSet(asked) \subseteq ToSet(asked')
           /\ (got.asked => ToSet(asked') = ToSet(asked) \cup {id})
  <1>1. id \in Askable /\ Askable' = Askable /\ asked \in Seq(Askable)
    BY ScopeKept DEF Askable, Typed
  <1> HIDE DEF Askable
  <1>2. CASE got.asked
    <2>1. asked' = Append(asked, id)
      BY <1>2 DEF Take
    <2> QED BY <1>1, <2>1 DEF ToSet
  <1>3. CASE ~got.asked
    BY <1>1, <1>3 DEF Take
  <1> QED BY <1>2, <1>3

(* What a history read brings, and what was paid for it.                   *)
LEMMA ReadBrings ==
    ASSUME Solvent, NEW n \in {0, 1}, NEW histories \in {Histories, OtherHistories},
           NEW got \in ReadEntityPoints(n, histories)
    PROVE  /\ got.err = "ok" =>
                /\ got.asked = TRUE /\ got.points \in Seq(Point)
                /\ got.used["history_points"] = used["history_points"] + Len(got.points)
           /\ got.err # "ok" => got.used["history_points"] = used["history_points"]
  <1> DEFINE paid == Charged(used, "entities", n)
  <1>1. /\ used \in [Dimensions -> Nat] /\ paid \in [Dimensions -> Int]
        /\ paid["history_points"] = used["history_points"]
    BY DEF Solvent, Charged, Dimensions
  <1> HIDE DEF paid
  <1>2. \/ got = Got(FALSE, used, "budget", <<>>)
        \/ got \in Answers(paid, histories)
        \/ \E err \in ReadError : got = Got(TRUE, paid, err, <<>>)
    BY DEF ReadEntityPoints, paid
  <1>3. CASE got = Got(FALSE, used, "budget", <<>>)
    BY <1>3 DEF Got
  <1>4. CASE \E err \in ReadError : got = Got(TRUE, paid, err, <<>>)
    BY <1>1, <1>4 DEF Got, ReadError
  <1>5. CASE got \in Answers(paid, histories)
    <2>1. PICK h \in histories :
            \/ got = Got(TRUE, Charged(paid, "history_points", Len(h)), "ok", h)
            \/ got = Got(TRUE, paid, "budget", <<>>)
      BY <1>5 DEF Answers
    <2>2. h \in Seq(Point)
      BY HistoryAssumption
    <2>3. CASE got = Got(TRUE, Charged(paid, "history_points", Len(h)), "ok", h)
      <3>1. Charged(paid, "history_points", Len(h))["history_points"] = used["history_points"] + Len(h)
        BY <1>1 DEF Charged, Dimensions
      <3> QED BY <2>2, <2>3, <3>1 DEF Got
    <2>4. CASE got = Got(TRUE, paid, "budget", <<>>)
      BY <1>1, <2>4 DEF Got
    <2> QED BY <2>1, <2>3, <2>4
  <1> QED BY <1>2, <1>3, <1>4, <1>5

LEMMA ReadHistoryShaped == Order /\ Shaped /\ ReadHistory => Shaped'
  <1> SUFFICES ASSUME Order, Shaped, ReadHistory PROVE Shaped'
    OBVIOUS
  <1>1. PICK got \in ReadEntityPoints(0, Histories) :
            /\ Take(got, Subject)
            /\ IF got.err = "ok"
               THEN /\ in' = [in EXCEPT !.historyRead = TRUE, !.points = got.points]
                    /\ at' = "registry"
               ELSE Misses("history", got.err, "registry")
    BY DEF ReadHistory
  <1>2. Keep /\ Permitted(Subject) /\ Typed /\ at = "history" /\ Solvent
    BY DEF ReadHistory, Shaped, Pending, Order
  <1>3. asked' \in Seq(Askable')
    BY <1>1, <1>2, TakeAsks
  <1>4. CASE got.err = "ok"
    <2>1. got.points \in Seq(Point)
      BY <1>2, <1>4, ReadBrings
    <2>2. Changes({"historyRead", "points"}) /\ in'.points = got.points
      <3>1. in' = [in EXCEPT !.historyRead = TRUE, !.points = got.points]
        BY <1>1, <1>4
      <3>2. DOMAIN in = Fields
        BY <1>2 DEF Typed
      <3>3. /\ DOMAIN in' = DOMAIN in
            /\ \A f \in Fields \ {"historyRead", "points"} : in'[f] = in[f]
        BY <3>1, <3>2
      <3>4. in'.points = got.points
        BY <3>1, <3>2, FieldsAre
      <3> QED BY <3>3, <3>4 DEF Changes
    <2>3. at' = "registry"
      BY <1>1, <1>4
    <2>4. /\ DOMAIN in' = Fields /\ in'.missing = in.missing /\ in'.outages = in.outages /\ in'.deps = in.deps
          /\ in'.mesh = in.mesh /\ in'.probes = in.probes /\ in'.rows = in.rows /\ in'.down = in.down
          /\ in'.configRead = in.configRead /\ in'.tracesRead = in.tracesRead
          /\ in'.fallbackRead = in.fallbackRead /\ in'.depends = in.depends
          /\ in'.outagesRead = in.outagesRead /\ in'.devices = in.devices
      BY <1>2, <2>2, FieldsAre DEF Changes, Typed
    <2>5. Typed'
      <3>1. in'.probes \in Seq([onset : Onsets', events : {0, 2}])
        BY <1>2, <2>4, OnsetsKept DEF Typed
      <3> QED BY <1>2, <1>3, <2>1, <2>2, <2>4, <3>1 DEF Typed
    <2>6. Unstarted' /\ Pending'
      BY <2>3 DEF Unstarted, Pending, BeforeOutages, BeforeRestarts, BeforeDependencies
    <2> QED BY <2>5, <2>6 DEF Shaped
  <1>5. CASE got.err # "ok"
    <2>1. Missed("history", "registry")
      BY <1>1, <1>2, <1>5, MissesIs DEF Typed
    <2>2. "history" \in Sources
      BY DEF Sources
    <2> QED BY <1>2, <1>3, <2>1, <2>2, MissedShaped DEF BeforeOutages, BeforeRestarts, BeforeDependencies
  <1> QED BY <1>4, <1>5

-----------------------------------------------------------------------------
(* So do the sources that are read once.                                   *)

Free == {"analyse", "repairs", "supervisor", "outages", "traces", "fallback", "config", "resolve_deps",
         "mesh", "restarts", "registry", "done"}
Follows(next) ==
    /\ next \in Free
    /\ \A S \in {BeforeOutages, BeforeRestarts, BeforeDependencies} : next \in S => at \in S

LEMMA FailsShaped ==
    ASSUME Shaped, Keep, asked' = asked, NEW what \in Sources, NEW err, NEW next,
           Misses(what, err, next), Follows(next)
    PROVE  Shaped'
  <1>1. Missed(what, next) /\ asked' \in Seq(Askable')
    BY MissesIs, AskedKept DEF Shaped, Typed
  <1> QED BY <1>1, MissedShaped DEF Follows, Free

(* A step that asks for no history and brings only what this is not about. *)
LEMMA BringsShaped ==
    ASSUME Shaped, Keep, asked' = asked, NEW fs, Changes(fs), fs \cap (Settled \cup {"missing"}) = {},
           Follows(at')
    PROVE  Shaped'
  <1>1. in'.missing \in Seq(Note)
    <2>1. in'.missing = in.missing
      BY FieldsAre DEF Changes
    <2> QED BY <2>1 DEF Shaped, Typed
  <1>2. Onward
    BY DEF Onward, Follows, Free
  <1> QED BY <1>1, <1>2, ShapedKept, AskedKept DEF Shaped

LEMMA RepairsShaped == Shaped /\ ReadRepairs => Shaped'
  <1> SUFFICES ASSUME Shaped, ReadRepairs PROVE Shaped'
    OBVIOUS
  <1> DEFINE next == IF tool = "integration" THEN "supervisor" ELSE "analyse"
  <1>1. Keep /\ asked' = asked /\ DOMAIN in = Fields
    BY DEF ReadRepairs, ReadSource, NotConfigured, Quiet, Shaped, Typed
  <1>2. Follows(next) /\ "repairs" \in Sources
    BY DEF Follows, Free, Sources, BeforeOutages, BeforeRestarts, BeforeDependencies
  <1>3. ASSUME NEW r, in' = [in EXCEPT !.repairsRead = TRUE, !.repairs = r], at' = next
        PROVE  Shaped'
    <2>1. Changes({"repairsRead", "repairs"})
      BY <1>1, <1>3, FieldsAre DEF Changes
    <2>2. {"repairsRead", "repairs"} \cap (Settled \cup {"missing"}) = {}
      BY DEF Settled
    <2> HIDE DEF next
    <2> QED BY <1>1, <1>2, <1>3, <2>1, <2>2, BringsShaped
  <1>4. ASSUME NEW err, Misses("repairs", err, next) PROVE Shaped'
    <2> HIDE DEF next
    <2> QED BY <1>1, <1>2, <1>4, FailsShaped
  <1>5. \/ \E r : in' = [in EXCEPT !.repairsRead = TRUE, !.repairs = r] /\ at' = next
        \/ \E err : Misses("repairs", err, next)
    BY DEF ReadRepairs, ReadSource, NotConfigured, Reads
  <1> HIDE DEF next
  <1> QED BY <1>3, <1>4, <1>5

LEMMA UnavailableShaped == Shaped /\ ReadUnavailable => Shaped'
  <1> SUFFICES ASSUME Shaped, ReadUnavailable PROVE Shaped'
    OBVIOUS
  <1>1. Keep /\ asked' = asked /\ DOMAIN in = Fields /\ at = "available"
    BY DEF ReadUnavailable, ReadSource, NotConfigured, Quiet, Shaped, Typed
  <1>2. Follows("outages") /\ "availability_now" \in Sources
    BY <1>1 DEF Follows, Free, Sources, BeforeOutages, BeforeRestarts, BeforeDependencies
  <1>3. ASSUME NEW d, at' = "outages",
               in' = [in EXCEPT !.unavailableRead = TRUE, !.down = d \cap Names(in.rows),
                                !.unavailable = Cardinality(d \cap Names(in.rows))]
        PROVE  Shaped'
    <2>1. Changes({"unavailableRead", "down", "unavailable"}) /\ in'.down = d \cap Names(in.rows)
      BY <1>1, <1>3, FieldsAre DEF Changes
    <2>2. /\ DOMAIN in' = Fields /\ in'.missing = in.missing /\ in'.outages = in.outages /\ in'.deps = in.deps
          /\ in'.mesh = in.mesh /\ in'.probes = in.probes /\ in'.rows = in.rows /\ in'.points = in.points
          /\ in'.configRead = in.configRead /\ in'.tracesRead = in.tracesRead
          /\ in'.fallbackRead = in.fallbackRead /\ in'.depends = in.depends
          /\ in'.outagesRead = in.outagesRead /\ in'.devices = in.devices
      BY <1>1, <2>1, FieldsAre DEF Changes
    <2>3. Onsets' = Onsets /\ asked' \in Seq(Askable')
      BY <1>1, <2>2, OnsetsKept, AskedKept DEF Shaped
    <2>4. Typed'
      <3>1. in'.probes \in Seq([onset : Onsets', events : {0, 2}])
        BY <2>2, <2>3 DEF Shaped, Typed
      <3>2. in'.down \in SUBSET Names(in'.rows)
        BY <2>1, <2>2
      <3> QED BY <2>2, <2>3, <3>1, <3>2 DEF Shaped, Typed
    <2>5. Unstarted' /\ Pending'
      BY <1>1, <1>3, <2>2 DEF Shaped, Unstarted, Pending, BeforeOutages, BeforeRestarts, BeforeDependencies
    <2> QED BY <2>4, <2>5 DEF Shaped
  <1>4. ASSUME NEW err, Misses("availability_now", err, "outages") PROVE Shaped'
    BY <1>1, <1>2, <1>4, FailsShaped
  <1>5. \/ \E d : /\ at' = "outages"
                  /\ in' = [in EXCEPT !.unavailableRead = TRUE, !.down = d \cap Names(in.rows),
                                !.unavailable = Cardinality(d \cap Names(in.rows))]
        \/ \E err : Misses("availability_now", err, "outages")
    BY DEF ReadUnavailable, ReadSource, NotConfigured, Reads
  <1> QED BY <1>3, <1>4, <1>5

LEMMA SupervisorShaped == Shaped /\ ReadSupervisor => Shaped'
  <1> SUFFICES ASSUME Shaped, ReadSupervisor PROVE Shaped'
    OBVIOUS
  <1>1. Keep /\ asked' = asked /\ DOMAIN in = Fields
    BY DEF ReadSupervisor, ReadSource, NotConfigured, Quiet, Shaped, Typed
  <1>2. Follows("analyse") /\ "supervisor" \in Sources
    BY DEF Follows, Free, Sources, BeforeOutages, BeforeRestarts, BeforeDependencies
  <1>3. ASSUME NEW n, in' = [in EXCEPT !.supervisorRead = TRUE, !.unhealthy = n], at' = "analyse"
        PROVE  Shaped'
    <2>1. Changes({"supervisorRead", "unhealthy"})
      BY <1>1, <1>3, FieldsAre DEF Changes
    <2>2. {"supervisorRead", "unhealthy"} \cap (Settled \cup {"missing"}) = {}
      BY DEF Settled
    <2> QED BY <1>1, <1>2, <1>3, <2>1, <2>2, BringsShaped
  <1>4. ASSUME NEW err, Misses("supervisor", err, "analyse") PROVE Shaped'
    BY <1>1, <1>2, <1>4, FailsShaped
  <1>5. \/ \E n : in' = [in EXCEPT !.supervisorRead = TRUE, !.unhealthy = n] /\ at' = "analyse"
        \/ \E err : Misses("supervisor", err, "analyse")
    BY DEF ReadSupervisor, ReadSource, NotConfigured, Reads
  <1> QED BY <1>3, <1>4, <1>5

LEMMA RegistryShaped == Shaped /\ ReadRegistry => Shaped'
  <1> SUFFICES ASSUME Shaped, ReadRegistry PROVE Shaped'
    OBVIOUS
  <1>1. Keep /\ asked' = asked /\ DOMAIN in = Fields
    BY DEF ReadRegistry, Quiet, Shaped, Typed
  <1>2. Follows("repairs") /\ Follows("done") /\ "registry" \in Sources
    BY DEF Follows, Free, Sources, BeforeOutages, BeforeRestarts, BeforeDependencies
  <1>3. ASSUME NEW e, NEW f, in' = [in EXCEPT !.registryRead = TRUE, !.entity = e, !.entry = f],
               at' \in {"repairs", "done"}
        PROVE  Shaped'
    <2>1. Changes({"registryRead", "entity", "entry"})
      BY <1>1, <1>3, FieldsAre DEF Changes
    <2>2. {"registryRead", "entity", "entry"} \cap (Settled \cup {"missing"}) = {}
      BY DEF Settled
    <2>3. Follows(at')
      BY <1>2, <1>3
    <2> QED BY <1>1, <2>1, <2>2, <2>3, BringsShaped
  <1>4. ASSUME NEW err, Misses("registry", err, "repairs") PROVE Shaped'
    BY <1>1, <1>2, <1>4, FailsShaped
  <1>5. \/ \E e, f : in' = [in EXCEPT !.registryRead = TRUE, !.entity = e, !.entry = f] /\ at' \in {"repairs", "done"}
        \/ \E err : Misses("registry", err, "repairs")
    BY DEF ReadRegistry
  <1> QED BY <1>3, <1>4, <1>5

-----------------------------------------------------------------------------
(* So do the choices that open a loop, and the loops.                      *)

LEMMA CutIs ==
    ASSUME NEW V, NEW s \in Seq(V), NEW n \in Nat
    PROVE  /\ Cut(s, n) \in Seq(V) /\ Len(Cut(s, n)) = IF Len(s) <= n THEN Len(s) ELSE n
           /\ \A i \in 1 .. Len(Cut(s, n)) : Cut(s, n)[i] = s[i]
           /\ Len(s) <= n => Cut(s, n) = s
  <1>1. Min({Len(s), n}) = IF Len(s) <= n THEN Len(s) ELSE n
    BY DEF Min
  <1>2. Cut(s, n) = SubSeq(s, 1, IF Len(s) <= n THEN Len(s) ELSE n)
    BY <1>1 DEF Cut
  <1> QED BY <1>2

LEMMA TailIs ==
    ASSUME NEW V, NEW s \in Seq(V) \ {<<>>}
    PROVE  /\ Head(s) \in V /\ Tail(s) \in Seq(V) /\ Len(Tail(s)) = Len(s) - 1
           /\ \A i \in 1 .. Len(Tail(s)) : Tail(s)[i] = s[i + 1]
           /\ Head(s) = s[1] /\ ToSet(s) = {Head(s)} \cup ToSet(Tail(s))
  <1>1. /\ Head(s) \in V /\ Tail(s) \in Seq(V) /\ Len(Tail(s)) = Len(s) - 1 /\ Head(s) = s[1]
        /\ \A i \in 1 .. Len(Tail(s)) : Tail(s)[i] = s[i + 1]
    OBVIOUS
  <1> DEFINE t == Tail(s)
             h == Head(s)
  <1> HIDE DEF t, h
  <1>2. \A i \in 1 .. Len(s) : i = 1 \/ (i - 1 \in 1 .. Len(t) /\ i = (i - 1) + 1)
    BY <1>1 DEF t
  <1>3. /\ DOMAIN s = 1 .. Len(s) /\ DOMAIN t = 1 .. Len(t) /\ 1 \in 1 .. Len(s)
        /\ \A i \in 1 .. Len(t) : i + 1 \in 1 .. Len(s)
    BY <1>1 DEF t
  <1>6. h = s[1] /\ \A i \in 1 .. Len(t) : t[i] = s[i + 1]
    BY <1>1 DEF t, h
  <1>4. ToSet(s) \subseteq {h} \cup ToSet(t)
    <2> SUFFICES ASSUME NEW i \in 1 .. Len(s), i # 1 PROVE s[i] \in ToSet(t)
      BY <1>3, <1>6 DEF ToSet
    <2>1. i - 1 \in 1 .. Len(t) /\ (i - 1) + 1 = i
      BY <1>2
    <2>2. t[i - 1] = s[i]
      BY <1>6, <2>1
    <2> QED BY <1>3, <2>1, <2>2 DEF ToSet
  <1>5. {h} \cup ToSet(t) \subseteq ToSet(s)
    BY <1>1, <1>3 DEF ToSet, t, h
  <1> QED BY <1>1, <1>4, <1>5 DEF t, h

LEMMA AppendIs ==
    ASSUME NEW V, NEW s \in Seq(V), NEW x \in V
    PROVE  Append(s, x) \in Seq(V) /\ ToSet(Append(s, x)) = ToSet(s) \cup {x}
  <1> DEFINE t == Append(s, x)
             n == Len(s)
  <1>1. /\ t \in Seq(V) /\ DOMAIN t = 1 .. (n + 1) /\ DOMAIN s = 1 .. n /\ n \in Nat
        /\ t[n + 1] = x /\ \A i \in 1 .. n : t[i] = s[i]
    OBVIOUS
  <1> HIDE DEF t, n
  <1>2. \A i \in 1 .. (n + 1) : i \in 1 .. n \/ i = n + 1
    BY <1>1
  <1>3. n + 1 \in 1 .. (n + 1) /\ \A i \in 1 .. n : i \in 1 .. (n + 1)
    BY <1>1
  <1>4. ToSet(t) = ToSet(s) \cup {x}
    BY <1>1, <1>2, <1>3 DEF ToSet
  <1> QED BY <1>1, <1>4 DEF t

(* An input with one more reason, if there is one.                         *)
Adds(j, i, holds, note) ==
    /\ DOMAIN j = Fields /\ j.missing \in Seq(Note)
    /\ \A f \in Fields \ {"missing"} : j[f] = i[f]
    /\ ToSet(i.missing) \subseteq ToSet(j.missing)
    /\ holds => note \in ToSet(j.missing)

LEMMA LacksIfIs ==
    ASSUME NEW i, DOMAIN i = Fields, i.missing \in Seq(Note), NEW holds,
           NEW what \in Sources, NEW reason \in Reasons
    PROVE  Adds(LacksIf(i, holds, what, reason), i, holds, <<what, reason>>)
  <1>1. <<what, reason>> \in Note
    BY DEF Note
  <1>2. CASE holds
    <2> DEFINE j == [i EXCEPT !.missing = Append(@, <<what, reason>>)]
    <2>1. LacksIf(i, holds, what, reason) = j
      BY <1>2 DEF LacksIf, Lacks
    <2>2. DOMAIN j = Fields /\ j.missing = Append(i.missing, <<what, reason>>)
          /\ \A f \in Fields \ {"missing"} : j[f] = i[f]
      BY FieldsAre
    <2> DEFINE m == i.missing
    <2> HIDE DEF j, Note
    <2>3. j.missing \in Seq(Note) /\ ToSet(j.missing) = ToSet(i.missing) \cup {<<what, reason>>}
      <3>1. m \in Seq(Note)
        OBVIOUS
      <3> HIDE DEF m
      <3>2. Append(m, <<what, reason>>) \in Seq(Note)
            /\ ToSet(Append(m, <<what, reason>>)) = ToSet(m) \cup {<<what, reason>>}
        BY <1>1, <3>1, AppendIs
      <3> QED BY <2>2, <3>2 DEF m
    <2> QED BY <2>1, <2>2, <2>3 DEF Adds
  <1>3. CASE ~holds
    BY <1>3 DEF LacksIf, Adds
  <1> QED BY <1>2, <1>3

LEMMA ResolveIntegrationShaped == Order /\ Shaped /\ ResolveIntegration => Shaped'
  <1> SUFFICES ASSUME Order, Shaped, ResolveIntegration PROVE Shaped'
    OBVIOUS
  <1>1. Keep /\ asked' = asked /\ DOMAIN in = Fields /\ at = "resolve" /\ in = EmptyInput
    BY DEF ResolveIntegration, Quiet, Shaped, Typed, Order, Orderly
  <1>2. CASE at' = "done" /\ in' = in
    <2>1. Changes({}) /\ Follows(at')
      BY <1>2 DEF Changes, Follows, Free, BeforeOutages, BeforeRestarts, BeforeDependencies
    <2> QED BY <1>1, <2>1, BringsShaped
  <1>3. ASSUME NEW entry \in Entries, at' = "available",
               in' = [in EXCEPT !.entry = entry, !.rows = {e \in Entities : e.entry = entry.id},
                                !.devices = {d \in Devices : d.entry = entry.id},
                                !.entities = Cardinality({e \in Entities : e.entry = entry.id})]
        PROVE  Shaped'
    <2>1. Changes({"entry", "rows", "devices", "entities"}) /\ in'.rows = {e \in Entities : e.entry = entry.id}
      BY <1>1, <1>3, FieldsAre DEF Changes
    <2>2. /\ DOMAIN in' = Fields /\ in'.missing = in.missing /\ in'.outages = in.outages /\ in'.deps = in.deps
          /\ in'.mesh = in.mesh /\ in'.probes = in.probes /\ in'.points = in.points /\ in'.down = in.down
          /\ in'.configRead = in.configRead /\ in'.tracesRead = in.tracesRead
          /\ in'.fallbackRead = in.fallbackRead /\ in'.depends = in.depends
      BY <1>1, <2>1, FieldsAre DEF Changes
    <2>3. in.down = {} /\ in.probes = <<>> /\ in.deps = <<>> /\ in.outages = <<>>
      BY <1>1 DEF EmptyInput
    <2>4. Typed'
      <3>1. in'.probes \in Seq([onset : Onsets', events : {0, 2}])
        BY <2>2, <2>3
      <3>2. in'.down \in SUBSET Names(in'.rows) /\ in'.rows \in SUBSET Entities
        BY <2>1, <2>2, <2>3
      <3>3. asked' \in Seq(Askable')
        BY <1>1, AskedKept DEF Shaped
      <3> QED BY <2>2, <3>1, <3>2, <3>3 DEF Shaped, Typed
    <2>5. Unstarted' /\ Pending'
      BY <1>3, <2>2, <2>3 DEF Unstarted, Pending
    <2> QED BY <2>4, <2>5 DEF Shaped
  <1> QED BY <1>2, <1>3 DEF ResolveIntegration

(* A loop of reads that begins: what it is of is what is left.             *)
LEMMA LoopShaped ==
    ASSUME Shaped, Keep, asked' = asked, Changes({"missing", "meshResolved"}), in'.missing \in Seq(Note),
           NEW V, NEW seq \in Seq(V), NEW stage, NEW next, Loop(seq, stage, next), Follows(next),
           \/ stage \in {"outage", "metric"} /\ V = Readable /\ at \in BeforeRestarts /\ at # "dependency"
           \/ stage = "restart" /\ V = Onsets
           \/ stage = "dependency" /\ V = Int
    PROVE  Shaped'
  <1>1. {"missing", "meshResolved"} \cap Settled = {}
    BY DEF Settled
  <1>2. /\ Typed' /\ Onsets' = Onsets /\ Readable' = Readable
        /\ in'.outages = in.outages /\ in'.probes = in.probes /\ in'.deps = in.deps
    BY <1>1, TypedKept, AskedKept DEF Shaped
  <1>3. Unstarted'
    BY <1>2 DEF Shaped, Unstarted, Loop, Follows, BeforeOutages, BeforeRestarts, BeforeDependencies
  <1>4. Pending'
    BY <1>2 DEF Pending, Loop, Follows, Free
  <1> QED BY <1>2, <1>3, <1>4 DEF Shaped

(* What readOutages chooses from.                                          *)
LEMMA ReadableIs ==
    ASSUME Typed
    PROVE  IsFiniteSet(Readable) /\ Readable \subseteq Int /\ Readable \subseteq Askable
  <1>1. IsFiniteSet(in.rows) /\ in.rows \subseteq Entities
    BY RegistryAssumption, FS_Subset DEF Typed
  <1> DEFINE f == [e \in in.rows |-> e.id]
  <1>2. Names(in.rows) = {f[e] : e \in in.rows}
    BY DEF Names
  <1> HIDE DEF f
  <1>3. IsFiniteSet(Names(in.rows))
    BY <1>1, <1>2, ImageIsFinite
  <1>4. Names(in.rows) \subseteq Int
    BY <1>1, RegistryAssumption DEF Names
  <1> QED BY <1>3, <1>4, FS_Subset DEF Readable, Askable

LEMMA ChosenIs ==
    ASSUME Typed
    PROVE  LET chosen == DownFirst(Readable, in.down) IN
           /\ chosen \in Seq(Readable)
           /\ \A id \in Readable : \E i \in 1 .. Len(chosen) : chosen[i] = id
           /\ \A i, j \in 1 .. Len(chosen) : i < j /\ chosen[j] \in in.down => chosen[i] \in in.down
  <1> DEFINE R == {p \in Readable \X Readable :
                      IF (p[1] \in in.down) # (p[2] \in in.down) THEN p[1] \in in.down ELSE p[1] < p[2]}
             chosen == DownFirst(Readable, in.down)
  <1>1. IsLine(chosen, Readable, R)
    BY ReadableIs, DownFirstIsLine
  <1> HIDE DEF chosen
  <1>2. \A i, j \in 1 .. Len(chosen) : i < j /\ chosen[j] \in in.down => chosen[i] \in in.down
    <2> HIDE DEF R
    <2>1. \A x, y : <<x, y>> \in R /\ y \in in.down => x \in in.down
      BY DEF R
    <2> QED BY <1>1, <2>1 DEF IsLine
  <1> QED BY <1>1, <1>2 DEF IsLine, chosen

LEMMA ChooseOutagesIs ==
    ASSUME Shaped, ChooseOutages
    PROVE  /\ Adds(in', in, Readable # Names(in.rows), <<"outages", "policy_denied">>)
           /\ Len(DownFirst(Readable, in.down)) > MaxClusterEntities
                => <<"outages", "budget_exceeded">> \in ToSet(in'.missing)
           /\ Loop(Cut(DownFirst(Readable, in.down), MaxClusterEntities), "outage", "mesh")
  <1> DEFINE chosen == DownFirst(Readable, in.down)
             denied == LacksIf(in, Readable # Names(in.rows), "outages", "policy_denied")
             short == Len(chosen) > MaxClusterEntities
  <1>1. /\ in' = LacksIf(denied, short, "outages", "budget_exceeded")
        /\ Loop(Cut(chosen, MaxClusterEntities), "outage", "mesh")
    BY DEF ChooseOutages, Readable
  <1>2. "outages" \in Sources /\ "policy_denied" \in Reasons /\ "budget_exceeded" \in Reasons
    BY DEF Sources, Reasons
  <1>3. Adds(denied, in, Readable # Names(in.rows), <<"outages", "policy_denied">>)
    BY <1>2, LacksIfIs DEF Shaped, Typed
  <1>6. DOMAIN denied = Fields /\ denied.missing \in Seq(Note)
    BY <1>3 DEF Adds
  <1> HIDE DEF denied
  <1>4. Adds(in', denied, short, <<"outages", "budget_exceeded">>)
    <2>1. Adds(LacksIf(denied, short, "outages", "budget_exceeded"), denied, short, <<"outages", "budget_exceeded">>)
      BY <1>2, <1>6, LacksIfIs
    <2> QED BY <1>1, <2>1
  <1> HIDE DEF short
  <1>5. /\ Adds(in', in, Readable # Names(in.rows), <<"outages", "policy_denied">>)
        /\ short => <<"outages", "budget_exceeded">> \in ToSet(in'.missing)
    BY <1>3, <1>4 DEF Adds
  <1> QED BY <1>1, <1>5 DEF short

LEMMA AddsChanges ==
    ASSUME DOMAIN in = Fields, NEW holds, NEW note, Adds(in', in, holds, note)
    PROVE  Changes({"missing"}) /\ Changes({"missing", "meshResolved"})
  BY DEF Adds, Changes

LEMMA ChooseOutagesShaped == Shaped /\ ChooseOutages => Shaped'
  <1> SUFFICES ASSUME Shaped, ChooseOutages PROVE Shaped'
    OBVIOUS
  <1> DEFINE seq == Cut(DownFirst(Readable, in.down), MaxClusterEntities)
  <1>1. /\ Adds(in', in, Readable # Names(in.rows), <<"outages", "policy_denied">>)
        /\ Loop(seq, "outage", "mesh")
    BY ChooseOutagesIs
  <1>2. seq \in Seq(Readable)
    BY ChosenIs, CutIs, CapAssumption DEF Shaped
  <1>3. Keep /\ asked' = asked /\ at = "outages"
    BY DEF ChooseOutages, Quiet
  <1>4. Changes({"missing", "meshResolved"}) /\ in'.missing \in Seq(Note)
    BY <1>1, AddsChanges DEF Adds, Shaped, Typed
  <1>5. Follows("mesh") /\ at \in BeforeRestarts
    BY <1>3 DEF Follows, Free, BeforeOutages, BeforeRestarts, BeforeDependencies
  <1> HIDE DEF seq
  <1> QED BY <1>1, <1>2, <1>3, <1>4, <1>5, LoopShaped

(* The entity a loop reads next.                                           *)
LEMMA HeadIs ==
    ASSUME Shaped, at \in {"outage", "metric"}
    PROVE  /\ Head(todo) \in Readable /\ Permitted(Head(todo)) /\ Head(todo) \in Int
           /\ Tail(todo) \in Seq(Readable) /\ Len(Tail(todo)) = Len(todo) - 1
           /\ Row(Head(todo)) \in Entities /\ Row(Head(todo)).id = Head(todo)
           /\ ToSet(todo) = {Head(todo)} \cup ToSet(Tail(todo))
  <1>1. todo \in Seq(Readable) \ {<<>>}
    BY DEF Shaped, Pending
  <1>2. /\ Head(todo) \in Readable /\ Tail(todo) \in Seq(Readable) /\ Len(Tail(todo)) = Len(todo) - 1
        /\ ToSet(todo) = {Head(todo)} \cup ToSet(Tail(todo))
    BY <1>1, TailIs
  <1>3. PICK e \in Entities : e.id = Head(todo)
    BY <1>2 DEF Readable, Names, Shaped, Typed
  <1> QED BY <1>2, <1>3, NamesAre, ReadableIs DEF Readable, Shaped

LEMMA ReadOutageShaped == Order /\ Shaped /\ ReadOutage => Shaped'
  <1> SUFFICES ASSUME Order, Shaped, ReadOutage PROVE Shaped'
    OBVIOUS
  <1>1. PICK got \in ReadEntityPoints(1, OtherHistories) :
            /\ Take(got, Head(todo))
            /\ IF got.err = "ok"
               THEN /\ in' = [in EXCEPT !.outagesRead = TRUE,
                                !.outages = Append(@, [entity |-> Row(Head(todo)), points |-> got.points])]
                    /\ Loop(Tail(todo), "outage", "mesh")
               ELSE Misses("outages", got.err, "mesh")
    BY DEF ReadOutage
  <1>2. Keep /\ at = "outage" /\ Typed /\ Solvent
    BY DEF ReadOutage, Shaped, Order
  <1>3. asked' \in Seq(Askable')
    BY <1>1, <1>2, HeadIs, TakeAsks
  <1>4. CASE got.err = "ok"
    <2> DEFINE leg == [entity |-> Row(Head(todo)), points |-> got.points]
    <2>1. leg \in Legs
      <3>1. got.points \in Seq(Point)
        BY <1>2, <1>4, ReadBrings
      <3> QED BY <1>2, <3>1, HeadIs DEF Legs
    <2> HIDE DEF leg
    <2>2. in' = [in EXCEPT !.outagesRead = TRUE, !.outages = Append(@, leg)] /\ Loop(Tail(todo), "outage", "mesh")
      BY <1>1, <1>4 DEF leg
    <2>3. Changes({"outagesRead", "outages"}) /\ in'.outages = Append(in.outages, leg)
      BY <1>2, <2>2, FieldsAre DEF Changes, Typed
    <2>4. /\ DOMAIN in' = Fields /\ in'.missing = in.missing /\ in'.points = in.points /\ in'.deps = in.deps
          /\ in'.mesh = in.mesh /\ in'.probes = in.probes /\ in'.rows = in.rows /\ in'.down = in.down
          /\ in'.configRead = in.configRead /\ in'.tracesRead = in.tracesRead
          /\ in'.fallbackRead = in.fallbackRead /\ in'.depends = in.depends
      BY <1>2, <2>3, FieldsAre DEF Changes, Typed
    <2>5. in.probes = <<>>
      BY <1>2 DEF Shaped, Unstarted, BeforeRestarts
    <2>6. Typed'
      <3>1. in'.probes \in Seq([onset : Onsets', events : {0, 2}])
        BY <2>4, <2>5
      <3>2. in'.outages \in Seq(Legs)
        BY <2>1, <2>3 DEF Shaped, Typed
      <3> QED BY <1>2, <1>3, <2>4, <3>1, <3>2 DEF Typed
    <2>7. Unstarted'
      BY <2>2, <2>4, <2>5 DEF Unstarted, Loop, BeforeOutages, BeforeRestarts, BeforeDependencies
    <2>8. Pending'
      BY <1>2, <2>2, <2>4, HeadIs, ReadableKept DEF Pending, Loop
    <2> QED BY <2>6, <2>7, <2>8 DEF Shaped
  <1>5. CASE got.err # "ok"
    <2>1. Missed("outages", "mesh")
      BY <1>1, <1>2, <1>5, MissesIs DEF Typed
    <2>2. "outages" \in Sources
      BY DEF Sources
    <2> QED BY <1>2, <1>3, <2>1, <2>2, MissedShaped DEF BeforeOutages, BeforeRestarts, BeforeDependencies
  <1> QED BY <1>4, <1>5

(* Whatever the recorder says of a metric, its readings are some of it.    *)
LEMMA MetricsAre ==
    ASSUME NEW points \in Seq(Point)
    PROVE  /\ Len(Readings(points, Numeric)) \in Nat /\ Len(Readings(points, Numeric)) <= Len(points)
           /\ \A e : MeshEvidence(e, points, Numeric).sample = Len(Readings(points, Numeric))
  <1> DEFINE n == Len(points)
             places == {i \in DOMAIN points : points[i].state \in Numeric}
  <1>1. n \in Nat /\ places \in SUBSET (1 .. n)
    OBVIOUS
  <1>2. Readings(points, Numeric) = AtPlaces(points, places)
    BY DEF Readings
  <1> HIDE DEF n, places
  <1>3. Len(AtPlaces(points, places)) = Cardinality(places) /\ Cardinality(places) \in 0 .. n
    BY <1>1, PlacesAreKept
  <1>4. Len(Readings(points, Numeric)) \in Nat /\ Len(Readings(points, Numeric)) <= Len(points)
    BY <1>1, <1>2, <1>3 DEF n
  <1>5. \A e : MeshEvidence(e, points, Numeric).sample = Len(Readings(points, Numeric))
    BY DEF MeshEvidence, Observed
  <1> QED BY <1>4, <1>5

LEMMA ReadMetricShaped == Order /\ Shaped /\ ReadMetric => Shaped'
  <1> SUFFICES ASSUME Order, Shaped, ReadMetric PROVE Shaped'
    OBVIOUS
  <1>1. PICK got \in ReadEntityPoints(1, OtherHistories) :
            /\ Take(got, Head(todo))
            /\ IF got.err = "ok"
               THEN /\ \/ in' = [in EXCEPT !.mesh = Append(@, MeshEvidence(Row(Head(todo)), got.points, Numeric))]
                       \/ in' = Lacks(in, "mesh", "out_of_retention")
                    /\ Loop(Tail(todo), "metric", "restarts")
               ELSE Misses("mesh", got.err, "restarts")
    BY DEF ReadMetric
  <1>2. Keep /\ at = "metric" /\ Typed /\ Solvent
    BY DEF ReadMetric, Shaped, Order
  <1>3. asked' \in Seq(Askable')
    BY <1>1, <1>2, HeadIs, TakeAsks
  <1>4. CASE got.err = "ok"
    <2> DEFINE ev == MeshEvidence(Row(Head(todo)), got.points, Numeric)
    <2>1. ev \in Metrics
      <3>1. got.points \in Seq(Point)
        BY <1>2, <1>4, ReadBrings
      <3> QED BY <1>2, <3>1, HeadIs DEF Metrics
    <2> HIDE DEF ev
    <2>2. /\ in' = [in EXCEPT !.mesh = Append(@, ev)] \/ in' = Lacks(in, "mesh", "out_of_retention")
          /\ Loop(Tail(todo), "metric", "restarts")
      BY <1>1, <1>4 DEF ev
    <2>3. /\ Changes({"mesh", "missing"}) /\ in'.mesh \in Seq(Metrics) /\ in'.missing \in Seq(Note)
      <3>1. CASE in' = [in EXCEPT !.mesh = Append(@, ev)]
        <4>1. Changes({"mesh", "missing"}) /\ in'.mesh = Append(in.mesh, ev) /\ in'.missing = in.missing
          BY <1>2, <3>1, FieldsAre DEF Changes, Typed
        <4> QED BY <1>2, <2>1, <4>1 DEF Typed
      <3>2. CASE in' = Lacks(in, "mesh", "out_of_retention")
        <4>1. /\ Changes({"mesh", "missing"}) /\ in'.mesh = in.mesh
              /\ in'.missing = Append(in.missing, <<"mesh", "out_of_retention">>)
          BY <1>2, <3>2, FieldsAre DEF Changes, Typed, Lacks
        <4>2. <<"mesh", "out_of_retention">> \in Note
          BY DEF Note, Sources, Reasons
        <4> HIDE DEF Note
        <4> QED BY <1>2, <4>1, <4>2 DEF Typed
      <3> QED BY <2>2, <3>1, <3>2
    <2>4. /\ DOMAIN in' = Fields /\ in'.points = in.points /\ in'.deps = in.deps /\ in'.outages = in.outages
          /\ in'.probes = in.probes /\ in'.rows = in.rows /\ in'.down = in.down
          /\ in'.configRead = in.configRead /\ in'.tracesRead = in.tracesRead
          /\ in'.fallbackRead = in.fallbackRead /\ in'.depends = in.depends
          /\ in'.outagesRead = in.outagesRead /\ in'.devices = in.devices
      BY <1>2, <2>3, FieldsAre DEF Changes, Typed
    <2>5. in.probes = <<>>
      BY <1>2 DEF Shaped, Unstarted, BeforeRestarts
    <2>6. Typed'
      <3>1. in'.probes \in Seq([onset : Onsets', events : {0, 2}])
        BY <2>4, <2>5
      <3> QED BY <1>2, <1>3, <2>3, <2>4, <3>1 DEF Typed
    <2>7. Unstarted'
      BY <2>2, <2>4, <2>5 DEF Unstarted, Loop, BeforeOutages, BeforeRestarts, BeforeDependencies
    <2>8. Pending'
      BY <1>2, <2>2, <2>4, HeadIs, ReadableKept DEF Pending, Loop
    <2> QED BY <2>6, <2>7, <2>8 DEF Shaped
  <1>5. CASE got.err # "ok"
    <2>1. Missed("mesh", "restarts")
      BY <1>1, <1>2, <1>5, MissesIs DEF Typed
    <2>2. "mesh" \in Sources
      BY DEF Sources
    <2> QED BY <1>2, <1>3, <2>1, <2>2, MissedShaped DEF BeforeOutages, BeforeRestarts, BeforeDependencies
  <1> QED BY <1>4, <1>5

(* The metrics of a device are one per kind, so that they have an order.   *)
LEMMA MeshMetricsAre ==
    ASSUME NEW rows \in SUBSET Entities
    PROVE  MeshMetrics(rows) \in Seq(rows)
  <1> DEFINE found == UNION {ResolveKind(rows, d, k) : d \in MeshDevices(rows), k \in MeshKind}
             lt(e, f) == \/ e.device < f.device
                         \/ e.device = f.device /\ e.kind = "link_quality" /\ f.kind # e.kind
             R == {p \in found \X found : lt(p[1], p[2])}
             s == MeshMetrics(rows)
  <1>1. \A e \in found : /\ e \in rows /\ e.device \in Int /\ e.kind \in MeshKind
                         /\ e \in ResolveKind(rows, e.device, e.kind) /\ e.id \in Int
    <2> SUFFICES ASSUME NEW e \in found PROVE /\ e \in rows /\ e.device \in Int /\ e.kind \in MeshKind
                         /\ e \in ResolveKind(rows, e.device, e.kind) /\ e.id \in Int
      OBVIOUS
    <2>1. PICK d, k : e \in ResolveKind(rows, d, k)
      OBVIOUS
    <2>2. e \in rows /\ IsMeshEntity(e) /\ e.device = d /\ e.kind = k
      BY <2>1 DEF ResolveKind, Candidates
    <2> QED BY <2>1, <2>2, RegistryAssumption DEF IsMeshEntity
  <1>2. IsFiniteSet(found)
    <2>1. IsFiniteSet(rows)
      BY RegistryAssumption, FS_Subset
    <2>2. found \subseteq rows
      BY <1>1
    <2> HIDE DEF found
    <2> QED BY <2>1, <2>2, FS_Subset
  <1>3. \A e, f \in found : e = f \/ lt(e, f) \/ lt(f, e)
    <2> SUFFICES ASSUME NEW e \in found, NEW f \in found, e.device = f.device, e.kind = f.kind
                 PROVE  e = f
      <3> HIDE DEF found
      <3> QED BY <1>1 DEF MeshKind
    <2>1. /\ e \in ResolveKind(rows, e.device, e.kind) /\ f \in ResolveKind(rows, e.device, e.kind)
          /\ e.id \in Int /\ f.id \in Int /\ e \in rows /\ f \in rows
      BY <1>1
    <2> HIDE DEF found
    <2>2. e.id <= f.id /\ f.id <= e.id
      BY <2>1 DEF ResolveKind
    <2>3. e.id = f.id
      BY <2>1, <2>2
    <2> QED BY <2>1, <2>3, RegistryAssumption
  <1>4. s = [i \in 1 .. Cardinality(found) |-> CHOOSE x \in found : Cardinality({y \in found : lt(y, x)}) = i - 1]
    BY DEF MeshMetrics, Sorted
  <1> HIDE DEF found
  <1>5. \A x, y \in found : <<y, x>> \in R <=> lt(y, x)
    OBVIOUS
  <1>6. \A x \in found : {y \in found : lt(y, x)} = Below(x, found, R)
    <2> HIDE DEF R, lt
    <2> QED BY <1>5 DEF Below
  <1>7. IsTotal(R, found)
    <2> SUFFICES /\ \A x \in found : ~lt(x, x)
                 /\ \A x, y, z \in found : lt(x, y) /\ lt(y, z) => lt(x, z)
                 /\ \A x, y \in found : x = y \/ lt(x, y) \/ lt(y, x)
      <3> HIDE DEF R, lt
      <3> QED BY <1>5 DEF IsTotal
    <2>1. \A x \in found : ~lt(x, x)
      BY <1>1
    <2>2. \A x, y, z \in found : lt(x, y) /\ lt(y, z) => lt(x, z)
      BY <1>1 DEF MeshKind
    <2> QED BY <1>3, <2>1, <2>2
  <1> HIDE DEF s, lt, R
  <1>8. s \in [1 .. Cardinality(found) -> {s[i] : i \in 1 .. Cardinality(found)}]
    BY <1>4
  <1>9. ASSUME NEW i \in 1 .. Cardinality(found), NEW x \in found, Cardinality(Below(x, found, R)) = i - 1
        PROVE  s[i] \in found /\ Cardinality(Below(s[i], found, R)) = i - 1
    <2>1. Cardinality({y \in found : lt(y, x)}) = i - 1
      BY <1>6, <1>9
    <2>2. s[i] = CHOOSE z \in found : Cardinality({y \in found : lt(y, z)}) = i - 1
      BY <1>4
    <2>3. s[i] \in found /\ Cardinality({y \in found : lt(y, s[i])}) = i - 1
      BY <2>1, <2>2
    <2> QED BY <1>6, <2>3
  <1>10. IsLine(s, found, R)
    BY <1>2, <1>7, <1>8, <1>9, Ranking
  <1>11. s \in Seq(rows)
    <2>1. s \in Seq(found) /\ found \subseteq rows
      BY <1>1, <1>10 DEF IsLine
    <2> QED BY <2>1
  <1> QED BY <1>11 DEF s

LEMMA MeshMissingIs ==
    ASSUME NEW rows \in SUBSET Entities
    PROVE  IsFiniteSet(MeshMissing(rows)) /\ \A m \in MeshMissing(rows) : <<m[1], m[2]>> \in Note
  <1> DEFINE K == {kd \in MeshKind \X MeshDevices(rows) :
                        Candidates(rows, kd[2], kd[1]) # {} /\ ResolveKind(rows, kd[2], kd[1]) = {}}
             D == {d \in MeshDevices(rows) : Candidates(rows, d, "signal_strength") = {}}
             f == [kd \in K |-> <<kd[1], "entity_disabled", kd[2]>>]
             g == [d \in D |-> <<"signal_strength", "not_exposed", d>>]
             A == {<<kd[1], "entity_disabled", kd[2]>> : kd \in K}
             B == {<<"signal_strength", "not_exposed", d>> : d \in D}
  <1>1. MeshMissing(rows) = A \cup B
    BY DEF MeshMissing
  <1>2. IsFiniteSet(MeshDevices(rows))
    <2> DEFINE T == {e \in rows : IsMeshEntity(e)}
               h == [e \in T |-> e.device]
    <2>1. IsFiniteSet(T)
      <3>1. IsFiniteSet(rows)
        BY RegistryAssumption, FS_Subset
      <3> QED BY <3>1, FS_Subset
    <2>2. MeshDevices(rows) = {h[e] : e \in T}
      BY DEF MeshDevices
    <2> HIDE DEF T, h
    <2> QED BY <2>1, <2>2, ImageIsFinite
  <1>3. IsFiniteSet(MeshKind)
    <2>1. IsFiniteSet({"link_quality"}) /\ IsFiniteSet({"signal_strength"})
      BY FS_Singleton
    <2>2. MeshKind = {"link_quality"} \cup {"signal_strength"}
      BY DEF MeshKind
    <2> QED BY <2>1, <2>2, FS_Union
  <1>4. IsFiniteSet(K) /\ IsFiniteSet(D)
    <2>1. IsFiniteSet(MeshKind \X MeshDevices(rows))
      BY <1>2, <1>3, FS_Product
    <2>2. K \subseteq MeshKind \X MeshDevices(rows) /\ D \subseteq MeshDevices(rows)
      OBVIOUS
    <2> HIDE DEF K, D
    <2> QED BY <1>2, <2>1, <2>2, FS_Subset
  <1>5. \A m \in A \cup B : <<m[1], m[2]>> \in Note
    BY DEF Note, Sources, Reasons, MeshKind
  <1>6. IsFiniteSet(A) /\ IsFiniteSet(B)
    <2>1. A = {f[kd] : kd \in K} /\ B = {g[d] : d \in D}
      <3> HIDE DEF K, D
      <3> QED OBVIOUS
    <2> HIDE DEF A, B, K, D, f, g
    <2>2. IsFiniteSet(A)
      BY <1>4, <2>1, ImageIsFinite
    <2>3. IsFiniteSet(B)
      BY <1>4, <2>1, ImageIsFinite
    <2> QED BY <2>2, <2>3
  <1> HIDE DEF A, B
  <1>7. IsFiniteSet(A \cup B)
    BY <1>6, FS_Union
  <1> QED BY <1>1, <1>5, <1>7

LEMMA LacksMeshIs ==
    ASSUME Typed, NEW scoped, NEW permitted \in SUBSET Entities
    PROVE  Adds(LacksMesh(scoped, permitted), in, FALSE, <<"mesh", "policy_denied">>)
  <1> DEFINE lacks == SetToSeq(MeshMissing(permitted))
             more == [n \in DOMAIN lacks |-> <<lacks[n][1], lacks[n][2]>>]
             i == LacksIf(in, permitted # scoped, "mesh", "policy_denied")
             j == [i EXCEPT !.missing = @ \o more]
  <1>1. LacksMesh(scoped, permitted) = j
    BY DEF LacksMesh
  <1>2. more \in Seq(Note)
    <2>1. lacks \in Seq(MeshMissing(permitted))
      BY MeshMissingIs, DistinctIsSeq
    <2> HIDE DEF lacks
    <2>2. DOMAIN lacks = 1 .. Len(lacks) /\ Len(lacks) \in Nat
          /\ \A n \in 1 .. Len(lacks) : <<lacks[n][1], lacks[n][2]>> \in Note
      BY <2>1, MeshMissingIs
    <2> HIDE DEF Note
    <2>3. more \in [1 .. Len(lacks) -> Note]
      BY <2>2
    <2> HIDE DEF more
    <2> QED BY <2>2, <2>3
  <1>3. Adds(i, in, permitted # scoped, <<"mesh", "policy_denied">>)
    <2>1. "mesh" \in Sources /\ "policy_denied" \in Reasons
      BY DEF Sources, Reasons
    <2> QED BY <2>1, LacksIfIs DEF Typed
  <1> HIDE DEF i, more
  <1>4. DOMAIN j = Fields /\ j.missing = i.missing \o more /\ \A f \in Fields \ {"missing"} : j[f] = i[f]
    BY <1>3, FieldsAre DEF Adds
  <1> HIDE DEF j
  <1>5. j.missing \in Seq(Note) /\ ToSet(j.missing) = ToSet(i.missing) \cup ToSet(more)
    <2> DEFINE m == i.missing
    <2>1. m \in Seq(Note)
      BY <1>3 DEF Adds
    <2> HIDE DEF m, Note
    <2>2. m \o more \in Seq(Note) /\ ToSet(m \o more) = ToSet(m) \cup ToSet(more)
      BY <1>2, <2>1, Joined
    <2> QED BY <1>4, <2>2 DEF m
  <1>6. Adds(j, in, FALSE, <<"mesh", "policy_denied">>)
    BY <1>3, <1>4, <1>5 DEF Adds
  <1> QED BY <1>1, <1>6

LEMMA ChooseMeshIs ==
    ASSUME Typed, ChooseMesh
    PROVE  /\ Changes({"missing", "meshResolved"}) /\ in'.missing \in Seq(Note)
           /\ ToSet(in.missing) \subseteq ToSet(in'.missing)
           /\ \E seq \in Seq(Readable) : Loop(seq, "metric", "restarts")
  <1> DEFINE scoped == MeshScope(AffectedDevices)
             permitted == {e \in scoped : Permitted(e.id)}
             metrics == MeshMetrics(permitted)
             resolved == LacksMesh(scoped, permitted)
             short == Len(metrics) > MaxMeshMetricEntities
             i == LacksIf(resolved, short, "mesh", "budget_exceeded")
             ids == [n \in DOMAIN metrics |-> metrics[n].id]
  <1>1. in' = [i EXCEPT !.meshResolved = metrics # <<>>] /\ Loop(Cut(ids, MaxMeshMetricEntities), "metric", "restarts")
    BY DEF ChooseMesh, ReadMetrics
  <1>2. permitted \in SUBSET Entities /\ \A e \in permitted : e.id \in Readable
    BY DEF MeshScope, Typed, Readable, Names
  <1>3. Adds(resolved, in, FALSE, <<"mesh", "policy_denied">>)
    <2> HIDE DEF permitted, scoped
    <2> QED BY <1>2, LacksMeshIs
  <1>4. ids \in Seq(Readable)
    <2>1. metrics \in Seq(permitted)
      <3> HIDE DEF permitted
      <3> QED BY <1>2, MeshMetricsAre
    <2> HIDE DEF metrics, permitted
    <2>2. DOMAIN metrics = 1 .. Len(metrics) /\ Len(metrics) \in Nat
          /\ \A n \in 1 .. Len(metrics) : metrics[n] \in permitted
      BY <2>1
    <2>3. ids \in [1 .. Len(metrics) -> Readable]
      BY <1>2, <2>2
    <2> HIDE DEF ids
    <2> QED BY <2>2, <2>3
  <1> HIDE DEF resolved, metrics, ids, scoped, permitted
  <1>5. Adds(i, resolved, short, <<"mesh", "budget_exceeded">>)
    <2>1. "mesh" \in Sources /\ "budget_exceeded" \in Reasons
      BY DEF Sources, Reasons
    <2>2. DOMAIN resolved = Fields /\ resolved.missing \in Seq(Note)
      BY <1>3 DEF Adds
    <2> QED BY <2>1, <2>2, LacksIfIs
  <1> HIDE DEF i, short
  <1>6. DOMAIN in' = Fields /\ in'.missing = i.missing /\ \A f \in Fields \ {"meshResolved"} : in'[f] = i[f]
    BY <1>1, <1>5, FieldsAre DEF Adds
  <1>7. Changes({"missing", "meshResolved"}) /\ in'.missing \in Seq(Note)
        /\ ToSet(in.missing) \subseteq ToSet(in'.missing)
    BY <1>3, <1>5, <1>6 DEF Adds, Changes, Typed
  <1>8. Cut(ids, MaxMeshMetricEntities) \in Seq(Readable)
    BY <1>4, CutIs, CapAssumption
  <1> QED BY <1>1, <1>7, <1>8

LEMMA ChooseMeshShaped == Shaped /\ ChooseMesh => Shaped'
  <1> SUFFICES ASSUME Shaped, ChooseMesh PROVE Shaped'
    OBVIOUS
  <1>1. Keep /\ asked' = asked /\ at = "mesh" /\ Typed
    BY DEF ChooseMesh, Quiet, Shaped
  <1>2. PICK seq \in Seq(Readable) : Loop(seq, "metric", "restarts")
    BY <1>1, ChooseMeshIs
  <1>3. Changes({"missing", "meshResolved"}) /\ in'.missing \in Seq(Note)
    BY <1>1, ChooseMeshIs
  <1>4. Follows("restarts") /\ at \in BeforeRestarts
    BY <1>1 DEF Follows, Free, BeforeOutages, BeforeRestarts, BeforeDependencies
  <1> QED BY <1>1, <1>2, <1>3, <1>4, LoopShaped

(* The onsets of the clusters, as the restarts are asked after them.       *)
LEMMA OnsetsAre ==
    ASSUME Typed
    PROVE  /\ OutageOnsets(Clusters(in)) \in Seq(Onsets)
           /\ ToSet(OutageOnsets(Clusters(in))) = Onsets
  <1> DEFINE i == in
  <1>1. i.outages \in Seq(Legs) /\ \A leg \in Legs : leg.entity.id \in Int /\ leg.points \in Seq(Point)
    BY RegistryAssumption DEF Typed, Legs
  <1> HIDE DEF i
  <1>2. /\ OutageOnsets(Clusters(i)) \in Seq({c.from : c \in ToSet(Clusters(i))})
        /\ ToSet(OutageOnsets(Clusters(i))) = {c.from : c \in ToSet(Clusters(i))}
    BY <1>1, ClustersAreSeq
  <1> QED BY <1>2 DEF i, Onsets

LEMMA ChooseRestartsShaped == Shaped /\ ChooseRestarts => Shaped'
  <1> SUFFICES ASSUME Shaped, ChooseRestarts PROVE Shaped'
    OBVIOUS
  <1> DEFINE onsets == OutageOnsets(Clusters(in))
             short == Len(onsets) > MaxRestartProbes
  <1>1. Keep /\ asked' = asked /\ at = "restarts" /\ Typed /\ "restarts" \in Sources
    BY DEF ChooseRestarts, Quiet, Shaped, Sources
  <1>2. Follows("repairs")
    BY <1>1 DEF Follows, Free, BeforeOutages, BeforeRestarts, BeforeDependencies
  <1>3. \/ /\ in' = LacksIf(in, short, "restarts", "budget_exceeded")
           /\ Loop(Cut(onsets, MaxRestartProbes), "restart", "repairs")
        \/ Misses("restarts", "not_configured", "repairs")
    BY DEF ChooseRestarts, ProbeOnsets
  <1>4. onsets \in Seq(Onsets)
    BY <1>1, OnsetsAre
  <1> HIDE DEF onsets
  <1>5. ASSUME in' = LacksIf(in, short, "restarts", "budget_exceeded"),
               Loop(Cut(onsets, MaxRestartProbes), "restart", "repairs")
        PROVE  Shaped'
    <2>1. Adds(in', in, short, <<"restarts", "budget_exceeded">>)
      <3>1. "budget_exceeded" \in Reasons
        BY DEF Reasons
      <3>2. Adds(LacksIf(in, short, "restarts", "budget_exceeded"), in, short, <<"restarts", "budget_exceeded">>)
        BY <1>1, <3>1, LacksIfIs DEF Typed
      <3> QED BY <1>5, <3>2
    <2>2. Changes({"missing", "meshResolved"}) /\ in'.missing \in Seq(Note)
      BY <1>1, <2>1, AddsChanges DEF Adds, Typed
    <2>3. Cut(onsets, MaxRestartProbes) \in Seq(Onsets)
      BY <1>4, CutIs, CapAssumption
    <2> QED BY <1>1, <1>2, <1>5, <2>2, <2>3, LoopShaped
  <1>6. CASE Misses("restarts", "not_configured", "repairs")
    BY <1>1, <1>2, <1>6, FailsShaped
  <1> QED BY <1>3, <1>5, <1>6

-----------------------------------------------------------------------------
(* So do the reads of what an automation is and does, and every step.      *)

LEMMA ReadRestartShaped == Shaped /\ ReadRestart => Shaped'
  <1> SUFFICES ASSUME Shaped, ReadRestart PROVE Shaped'
    OBVIOUS
  <1>1. Keep /\ asked' = asked /\ at = "restart" /\ Typed /\ "restarts" \in Sources
    BY DEF ReadRestart, Quiet, Shaped, Sources
  <1>2. Follows("repairs")
    BY <1>1 DEF Follows, Free, BeforeOutages, BeforeRestarts, BeforeDependencies
  <1>3. /\ Head(todo) \in Onsets /\ Tail(todo) \in Seq(Onsets)
    <2>1. todo \in Seq(Onsets) \ {<<>>}
      BY <1>1 DEF Shaped, Pending
    <2> QED BY <2>1, TailIs
  <1>4. ASSUME NEW events \in {0, 2},
               in' = [in EXCEPT !.probes = Append(@, [onset |-> Head(todo), events |-> events])],
               Loop(Tail(todo), "restart", "repairs")
        PROVE  Shaped'
    <2> DEFINE probe == [onset |-> Head(todo), events |-> events]
    <2>1. probe \in [onset : Onsets, events : {0, 2}]
      BY <1>3
    <2> HIDE DEF probe
    <2>2. Changes({"probes"}) /\ in'.probes = Append(in.probes, probe)
      BY <1>1, <1>4, FieldsAre DEF Changes, Typed, probe
    <2>3. /\ DOMAIN in' = Fields /\ in'.missing = in.missing /\ in'.points = in.points /\ in'.deps = in.deps
          /\ in'.mesh = in.mesh /\ in'.outages = in.outages /\ in'.rows = in.rows /\ in'.down = in.down
          /\ in'.configRead = in.configRead /\ in'.tracesRead = in.tracesRead
          /\ in'.fallbackRead = in.fallbackRead /\ in'.depends = in.depends
          /\ in'.outagesRead = in.outagesRead /\ in'.devices = in.devices
      BY <1>1, <2>2, FieldsAre DEF Changes, Typed
    <2>4. Onsets' = Onsets /\ asked' \in Seq(Askable')
      BY <1>1, <2>3, OnsetsKept, AskedKept
    <2>5. Typed'
      <3> DEFINE P == [onset : Onsets, events : {0, 2}]
      <3>1. in.probes \in Seq(P) /\ probe \in P
        BY <1>1, <2>1 DEF Typed
      <3> HIDE DEF P
      <3>2. in'.probes \in Seq(P)
        BY <2>2, <3>1
      <3>3. in'.probes \in Seq([onset : Onsets', events : {0, 2}])
        BY <2>4, <3>2 DEF P
      <3> QED BY <1>1, <2>3, <2>4, <3>3 DEF Typed
    <2>6. Unstarted'
      BY <1>4 DEF Unstarted, Loop, BeforeOutages, BeforeRestarts, BeforeDependencies
    <2>7. Pending'
      BY <1>3, <1>4, <2>4 DEF Pending, Loop
    <2> QED BY <2>5, <2>6, <2>7 DEF Shaped
  <1>5. ASSUME NEW err, Misses("restarts", err, "repairs") PROVE Shaped'
    BY <1>1, <1>2, <1>5, FailsShaped
  <1> QED BY <1>4, <1>5 DEF ReadRestart

LEMMA ReadSummaryShaped == Shaped /\ ReadSummary => Shaped'
  <1> SUFFICES ASSUME Shaped, ReadSummary PROVE Shaped'
    OBVIOUS
  <1>1. Keep /\ asked' = asked /\ at = "summary" /\ Typed /\ "inventory" \in Sources
    BY DEF ReadSummary, ReadSource, Quiet, Shaped, Sources
  <1>2. Follows("config") /\ Follows("done")
    BY <1>1 DEF Follows, Free, BeforeOutages, BeforeRestarts, BeforeDependencies
  <1>3. CASE in' = in /\ at' \in {"config", "done"}
    <2>1. Changes({}) /\ Follows(at')
      BY <1>2, <1>3 DEF Changes
    <2> QED BY <1>1, <2>1, BringsShaped
  <1>4. ASSUME NEW err, Misses("inventory", err, "config") PROVE Shaped'
    BY <1>1, <1>2, <1>4, FailsShaped
  <1> QED BY <1>3, <1>4 DEF ReadSummary, ReadSource, Reads

(* The sources of an automation: what they bring, or a field that says why *)
(* they were not read.                                                     *)
OfAutomation == {"configRead", "tracesRead", "fallbackRead", "depends", "unextracted", "truncated",
                 "withheld", "traces", "events", "since"}

LEMMA FieldsShaped ==
    ASSUME Shaped, Keep, asked' = asked, NEW fs, Changes(fs),
           fs \subseteq OfAutomation,
           in'.configRead \in BOOLEAN, in'.tracesRead \in BOOLEAN, in'.fallbackRead \in BOOLEAN,
           in'.configRead => in'.depends \in Configs, Follows(at')
    PROVE  Shaped'
  <1>1. /\ DOMAIN in' = Fields /\ in'.points = in.points /\ in'.outages = in.outages /\ in'.deps = in.deps
        /\ in'.mesh = in.mesh /\ in'.probes = in.probes /\ in'.rows = in.rows /\ in'.down = in.down
        /\ in'.outagesRead = in.outagesRead /\ in'.devices = in.devices /\ in'.missing = in.missing
    <2>1. Changes(OfAutomation)
      BY DEF Changes
    <2>2. DOMAIN in = Fields
      BY DEF Shaped, Typed
    <2> QED BY <2>1, <2>2, FieldsAre DEF Changes, OfAutomation
  <1>2. Typed'
    <2>1. Onsets' = Onsets /\ asked' \in Seq(Askable')
      BY <1>1, OnsetsKept, AskedKept DEF Shaped
    <2>2. in'.probes \in Seq([onset : Onsets', events : {0, 2}])
      BY <1>1, <2>1 DEF Shaped, Typed
    <2> QED BY <1>1, <2>1, <2>2 DEF Shaped, Typed
  <1>3. Unstarted' /\ Pending'
    BY <1>1 DEF Shaped, Unstarted, Pending, Follows, Free
  <1> QED BY <1>2, <1>3 DEF Shaped

LEMMA FieldFailsShaped ==
    ASSUME Shaped, Keep, asked' = asked, NEW field \in {"configUnread", "tracesUnread", "fallbackUnread"},
           NEW err, in' = [in EXCEPT ![field] = Reason(err)], Follows(at')
    PROVE  Shaped'
  <1>1. Changes({field}) /\ {field} \cap (Settled \cup {"missing"}) = {}
    BY FieldsAre DEF Changes, Shaped, Typed, Settled
  <1> QED BY <1>1, BringsShaped

LEMMA ReadConfigShaped == Shaped /\ ReadConfig => Shaped'
  <1> SUFFICES ASSUME Shaped, ReadConfig PROVE Shaped'
    OBVIOUS
  <1>1. Keep /\ asked' = asked /\ at = "config" /\ Typed
    BY DEF ReadConfig, ReadField, Quiet, Shaped
  <1>2. at' \in {"done", "traces"}
    BY DEF ReadConfig, ReadField
  <1>3. Follows(at')
    BY <1>1, <1>2 DEF Follows, Free, BeforeOutages, BeforeRestarts, BeforeDependencies
  <1>4. ASSUME NEW c \in Configs,
               in' = [in EXCEPT !.configRead = TRUE, !.depends = c, !.unextracted = c.unextracted,
                                !.truncated = c.truncated, !.withheld = c.withheld]
        PROVE  Shaped'
    <2> DEFINE fs == {"configRead", "depends", "unextracted", "truncated", "withheld"}
    <2>1. Changes(fs) /\ in'.configRead = TRUE /\ in'.depends = c
      BY <1>1, <1>4, FieldsAre DEF Changes, Typed
    <2>2. in'.tracesRead = in.tracesRead /\ in'.fallbackRead = in.fallbackRead
      BY <1>1, <2>1, FieldsAre DEF Changes, Typed
    <2>3. fs \subseteq OfAutomation
      BY DEF OfAutomation
    <2>4. in'.tracesRead \in BOOLEAN /\ in'.fallbackRead \in BOOLEAN
      BY <1>1, <2>2 DEF Typed
    <2> HIDE DEF fs
    <2> QED BY <1>1, <1>3, <2>1, <2>3, <2>4, FieldsShaped
  <1>5. ASSUME NEW err, in' = [in EXCEPT !["configUnread"] = Reason(err)] PROVE Shaped'
    BY <1>1, <1>3, <1>5, FieldFailsShaped
  <1> QED BY <1>4, <1>5 DEF ReadConfig, ReadField

LEMMA ReadTracesShaped == Shaped /\ ReadTraces => Shaped'
  <1> SUFFICES ASSUME Shaped, ReadTraces PROVE Shaped'
    OBVIOUS
  <1>1. Keep /\ asked' = asked /\ at = "traces" /\ Typed
    BY DEF ReadTraces, ReadField, Quiet, Shaped
  <1>2. at' \in {"done", "fallback"}
    BY DEF ReadTraces, ReadField
  <1>3. Follows(at')
    BY <1>1, <1>2 DEF Follows, Free, BeforeOutages, BeforeRestarts, BeforeDependencies
  <1>4. ASSUME NEW t, in' = [in EXCEPT !.tracesRead = TRUE, !.traces = t] PROVE Shaped'
    <2> DEFINE fs == {"tracesRead", "traces"}
    <2>1. Changes(fs) /\ in'.tracesRead = TRUE
      BY <1>1, <1>4, FieldsAre DEF Changes, Typed
    <2>2. in'.configRead = in.configRead /\ in'.fallbackRead = in.fallbackRead /\ in'.depends = in.depends
      BY <1>1, <2>1, FieldsAre DEF Changes, Typed
    <2>3. fs \subseteq OfAutomation
      BY DEF OfAutomation
    <2>4. in'.configRead \in BOOLEAN /\ in'.fallbackRead \in BOOLEAN /\ (in'.configRead => in'.depends \in Configs)
      BY <1>1, <2>2 DEF Typed
    <2> HIDE DEF fs
    <2> QED BY <1>1, <1>3, <2>1, <2>3, <2>4, FieldsShaped
  <1>5. ASSUME NEW err, in' = [in EXCEPT !["tracesUnread"] = Reason(err)] PROVE Shaped'
    BY <1>1, <1>3, <1>5, FieldFailsShaped
  <1> QED BY <1>4, <1>5 DEF ReadTraces, ReadField

LEMMA ReadFallbackShaped == Shaped /\ ReadFallback => Shaped'
  <1> SUFFICES ASSUME Shaped, ReadFallback PROVE Shaped'
    OBVIOUS
  <1>1. Keep /\ asked' = asked /\ at = "fallback" /\ Typed
    BY DEF ReadFallback, ReadField, Quiet, Shaped
  <1>2. at' \in {"done", "resolve_deps"}
    BY DEF ReadFallback, ReadField, Reads
  <1>3. Follows(at')
    BY <1>1, <1>2 DEF Follows, Free, BeforeOutages, BeforeRestarts, BeforeDependencies
  <1>4. ASSUME NEW rows, in' = [in EXCEPT !.fallbackRead = TRUE, !.events = rows, !.since = FallbackSince]
        PROVE  Shaped'
    <2> DEFINE fs == {"fallbackRead", "events", "since"}
    <2>1. Changes(fs) /\ in'.fallbackRead = TRUE
      BY <1>1, <1>4, FieldsAre DEF Changes, Typed
    <2>2. in'.configRead = in.configRead /\ in'.tracesRead = in.tracesRead /\ in'.depends = in.depends
      BY <1>1, <2>1, FieldsAre DEF Changes, Typed
    <2>3. fs \subseteq OfAutomation
      BY DEF OfAutomation
    <2>4. in'.configRead \in BOOLEAN /\ in'.tracesRead \in BOOLEAN /\ (in'.configRead => in'.depends \in Configs)
      BY <1>1, <2>2 DEF Typed
    <2> HIDE DEF fs
    <2> QED BY <1>1, <1>3, <2>1, <2>3, <2>4, FieldsShaped
  <1>5. ASSUME NEW err, in' = [in EXCEPT !["fallbackUnread"] = Reason(err)] PROVE Shaped'
    BY <1>1, <1>3, <1>5, FieldFailsShaped
  <1>6. CASE in' = in
    <2>1. Changes({})
      BY <1>6 DEF Changes
    <2> QED BY <1>1, <1>3, <2>1, BringsShaped
  <1> QED BY <1>4, <1>5, <1>6 DEF ReadFallback, ReadField, Reads

LEMMA EntitiesOfAre ==
    ASSUME NEW devices, NEW areas
    PROVE  IsFiniteSet(EntitiesOf(devices, areas)) /\ EntitiesOf(devices, areas) \subseteq Int
  <1> DEFINE T == {e \in Entities : \/ e.device # None /\ e.device \in devices
                                    \/ Trait("area", e, Devices) \in areas \ {None}}
             f == [e \in T |-> e.id]
  <1>1. IsFiniteSet(T)
    <2>1. T \subseteq Entities
      OBVIOUS
    <2> HIDE DEF T
    <2> QED BY <2>1, RegistryAssumption, FS_Subset
  <1>2. EntitiesOf(devices, areas) = {f[e] : e \in T}
    BY DEF EntitiesOf
  <1>3. \A e \in T : f[e] \in Int
    BY RegistryAssumption
  <1> HIDE DEF T, f
  <1> QED BY <1>1, <1>2, <1>3, ImageIsFinite

(* What is resolved is the named entities, and more if the registry was    *)
(* read, in ascending order.                                               *)
Resolved(ids) ==
    /\ IsFiniteSet(ids) /\ ids \subseteq Int /\ in.depends.entities \subseteq ids
    /\ Loop(InOrder(ids), "dependency", "repairs")

LEMMA ResolveDependenciesIs ==
    ASSUME Typed, ResolveDependencies
    PROVE  \/ in' = in /\ at' = "repairs" /\ ~in.configRead /\ todo' = <<>> /\ end' = end
           \/ in' = in /\ at' = "done" /\ end' = "cancelled"
           \/ /\ in.configRead /\ end' = end
              /\ \E ids : Resolved(ids)
              /\ Changes({"missing"}) /\ in'.missing \in Seq(Note)
              /\ ToSet(in.missing) \subseteq ToSet(in'.missing)
  <1> DEFINE named == in.depends.entities
             more == EntitiesOf(in.depends.devices, in.depends.areas)
             indirect == in.depends.devices # {} \/ in.depends.areas # {}
  <1>1. in.configRead => IsFiniteSet(named) /\ named \subseteq Int
    BY ConfigAssumption DEF Typed
  <1>2. IsFiniteSet(more) /\ more \subseteq Int
    BY EntitiesOfAre
  <1> HIDE DEF more, named, indirect
  <1>3. in.configRead => IsFiniteSet(named \cup more) /\ named \cup more \subseteq Int
    BY <1>1, <1>2, FS_Union
  <1>4. CASE ~in.configRead /\ Reads(in, "repairs")
    BY <1>4 DEF Reads, Going
  <1>5. CASE /\ in.configRead /\ in' = in /\ end' = end
             /\ Loop(InOrder(named \cup IF indirect THEN more ELSE {}), "dependency", "repairs")
    <2>1. \E ids : Resolved(ids)
      <3>1. CASE indirect
        <4>1. Loop(InOrder(named \cup more), "dependency", "repairs")
          BY <1>5, <3>1
        <4>2. Resolved(named \cup more)
          BY <1>3, <1>5, <4>1 DEF Resolved, named
        <4> QED BY <4>2
      <3>2. CASE ~indirect
        <4>1. Loop(InOrder(named), "dependency", "repairs")
          <5>1. named \cup {} = named
            OBVIOUS
          <5>2. Loop(InOrder(named \cup {}), "dependency", "repairs")
            BY <1>5, <3>2
          <5> QED BY <5>1, <5>2
        <4>2. Resolved(named)
          BY <1>1, <1>5, <4>1 DEF Resolved, named
        <4> QED BY <4>2
      <3> QED BY <3>1, <3>2
    <2>2. Changes({"missing"}) /\ in'.missing \in Seq(Note)
      BY <1>5 DEF Changes, Typed
    <2> QED BY <1>5, <2>1, <2>2
  <1>6. ASSUME NEW err \in ReadError, in.configRead,
               in' = IF Aborts(err) THEN in ELSE Lacks(in, "indirect_dependencies", Reason(err)),
               IF Aborts(err) THEN at' = "done" /\ UNCHANGED todo /\ End("cancelled")
               ELSE Loop(InOrder(named), "dependency", "repairs") /\ Going
        PROVE  \/ in' = in /\ at' = "done" /\ end' = "cancelled"
               \/ /\ in.configRead /\ end' = end
                  /\ \E ids : Resolved(ids)
                  /\ Changes({"missing"}) /\ in'.missing \in Seq(Note)
                  /\ ToSet(in.missing) \subseteq ToSet(in'.missing)
    <2>1. CASE Aborts(err)
      BY <1>6, <2>1 DEF End
    <2>2. CASE ~Aborts(err)
      <3>1. Resolved(named)
        BY <1>1, <1>6, <2>2 DEF Resolved, named
      <3>2. in' = LacksIf(in, TRUE, "indirect_dependencies", Reason(err)) /\ end' = end
        BY <1>6, <2>2 DEF LacksIf, Going
      <3>3. "indirect_dependencies" \in Sources /\ Reason(err) \in Reasons
        BY DEF Sources, Reason, Reasons
      <3>4. Adds(in', in, TRUE, <<"indirect_dependencies", Reason(err)>>)
        BY <3>2, <3>3, LacksIfIs DEF Typed
      <3>5. Changes({"missing"})
        BY <3>4, AddsChanges DEF Typed
      <3> QED BY <1>6, <3>1, <3>2, <3>4, <3>5 DEF Adds
    <2> QED BY <2>1, <2>2
  <1>7. \/ ~in.configRead /\ Reads(in, "repairs")
        \/ /\ in.configRead /\ in' = in /\ end' = end
           /\ Loop(InOrder(named \cup IF indirect THEN more ELSE {}), "dependency", "repairs")
        \/ \E err \in ReadError :
            /\ in.configRead
            /\ in' = IF Aborts(err) THEN in ELSE Lacks(in, "indirect_dependencies", Reason(err))
            /\ IF Aborts(err) THEN at' = "done" /\ UNCHANGED todo /\ End("cancelled")
               ELSE Loop(InOrder(named), "dependency", "repairs") /\ Going
    BY DEF ResolveDependencies, Going, named, more, indirect
  <1> QED BY <1>4, <1>5, <1>6, <1>7

LEMMA ResolveDependenciesShaped == Shaped /\ ResolveDependencies => Shaped'
  <1> SUFFICES ASSUME Shaped, ResolveDependencies PROVE Shaped'
    OBVIOUS
  <1>1. Keep /\ asked' = asked /\ at = "resolve_deps" /\ Typed
    BY DEF ResolveDependencies, Quiet, Shaped
  <1>2. Follows("repairs") /\ Follows("done")
    BY <1>1 DEF Follows, Free, BeforeOutages, BeforeRestarts, BeforeDependencies
  <1>3. CASE in' = in /\ at' \in {"repairs", "done"}
    <2>1. Changes({}) /\ Follows(at')
      BY <1>2, <1>3 DEF Changes
    <2> QED BY <1>1, <2>1, BringsShaped
  <1>4. ASSUME NEW ids, Resolved(ids), Changes({"missing"}), in'.missing \in Seq(Note)
        PROVE  Shaped'
    <2>1. InOrder(ids) \in Seq(ids) /\ ids \subseteq Int
      BY <1>4, AscendingIsLine DEF Resolved, InOrder, IsLine
    <2>2. InOrder(ids) \in Seq(Int)
      BY <2>1, SeqWidens
    <2>3. Loop(InOrder(ids), "dependency", "repairs") /\ Changes({"missing", "meshResolved"})
      BY <1>4 DEF Resolved, Changes
    <2> QED BY <1>1, <1>2, <1>4, <2>2, <2>3, LoopShaped
  <1> QED BY <1>1, <1>3, <1>4, ResolveDependenciesIs

(* One step of the loop over the dependencies.                             *)
LEMMA ReadDependencyIs ==
    ASSUME Order, Shaped, ReadDependency
    PROVE  /\ asked' \in Seq(Askable') /\ Keep /\ at = "dependency"
           /\ \/ /\ in' = in /\ at' = "done" /\ end' = "cancelled"
                 /\ used'["history_points"] = used["history_points"]
              \/ /\ \E dep \in Deps :
                       /\ Changes({"deps", "tries", "readErr"}) /\ in'.deps = Append(in.deps, dep)
                       /\ dep.entity = Head(todo)
                       /\ used'["history_points"] = used["history_points"] + Len(dep.points)
                 /\ Loop(Tail(todo), "dependency", "repairs") /\ end' = end
  <1> DEFINE Goes(dep) ==
                /\ Changes({"deps", "tries", "readErr"}) /\ in'.deps = Append(in.deps, dep)
                /\ dep.entity = Head(todo)
                /\ used'["history_points"] = used["history_points"] + Len(dep.points)
  <1>1. Keep /\ at = "dependency" /\ Typed /\ Solvent /\ DOMAIN in = Fields
    BY DEF ReadDependency, Shaped, Order, Typed
  <1>2. Head(todo) \in Int
    <2>1. todo \in Seq(Int) \ {<<>>}
      BY <1>1 DEF Shaped, Pending
    <2> QED BY <2>1
  <1>3. used["history_points"] \in Nat
    BY <1>1 DEF Solvent, Dimensions
  <1>4. CASE /\ Unread # "none"
             /\ in' = [in EXCEPT !.deps = Append(@, Dependency(FALSE, Unread, <<>>))]
             /\ Loop(Tail(todo), "dependency", "repairs")
             /\ Quiet /\ Going
    <2> DEFINE dep == Dependency(FALSE, Unread, <<>>)
    <2>1. Unread \in Reasons
      BY <1>4 DEF Unread, Reasons, Reason
    <2>2. dep \in Deps /\ dep.entity = Head(todo) /\ dep.points = <<>>
      <3>1. <<>> \in Seq(Point)
        OBVIOUS
      <3> QED BY <1>2, <2>1, <3>1 DEF Dependency, Deps
    <2> HIDE DEF dep
    <2>3. in' = [in EXCEPT !.deps = Append(@, dep)]
      BY <1>4 DEF dep
    <2>4. Changes({"deps", "tries", "readErr"}) /\ in'.deps = Append(in.deps, dep)
      BY <1>1, <2>3, FieldsAre DEF Changes
    <2>5. used'["history_points"] = used["history_points"] + Len(dep.points)
      BY <1>3, <1>4, <2>2 DEF Quiet
    <2>6. asked' \in Seq(Askable') /\ end' = end
      BY <1>1, <1>4, AskedKept DEF Quiet, Going
    <2> QED BY <1>1, <1>4, <2>2, <2>4, <2>5, <2>6
  <1>5. ASSUME Unread = "none", NEW got \in ReadEntityPoints(1, OtherHistories),
               Take(got, Head(todo)),
               IF Aborts(got.err)
               THEN at' = "done" /\ UNCHANGED <<in, todo>> /\ End("cancelled")
               ELSE /\ in' = [in EXCEPT !.tries = @ + 1,
                               !.readErr = IF got.err = "ok" THEN @ ELSE got.err,
                               !.deps = Append(@, IF got.err = "ok"
                                   THEN Dependency(TRUE, "none", got.points)
                                   ELSE Dependency(FALSE, Reason(got.err), <<>>))]
                    /\ Loop(Tail(todo), "dependency", "repairs") /\ Going
        PROVE  /\ asked' \in Seq(Askable')
               /\ \/ /\ in' = in /\ at' = "done" /\ end' = "cancelled"
                     /\ used'["history_points"] = used["history_points"]
                  \/ /\ \E dep \in Deps : Goes(dep)
                     /\ Loop(Tail(todo), "dependency", "repairs") /\ end' = end
    <2>1. Permitted(Head(todo))
      BY <1>5 DEF Unread
    <2>2. asked' \in Seq(Askable')
      BY <1>1, <1>2, <1>5, <2>1, TakeAsks
    <2>3. /\ got.err = "ok" => got.points \in Seq(Point) /\ used'["history_points"] = used["history_points"] + Len(got.points)
          /\ got.err # "ok" => used'["history_points"] = used["history_points"]
      <3>1. used' = got.used
        BY <1>5 DEF Take
      <3> QED BY <1>1, <1>5, <3>1, ReadBrings
    <2>4. CASE Aborts(got.err)
      <3>1. got.err # "ok"
        BY <2>4 DEF Aborts
      <3> QED BY <1>5, <2>2, <2>3, <2>4, <3>1 DEF End
    <2>5. CASE ~Aborts(got.err)
      <3> DEFINE dep == IF got.err = "ok" THEN Dependency(TRUE, "none", got.points)
                        ELSE Dependency(FALSE, Reason(got.err), <<>>)
      <3>1. Reason(got.err) \in Reasons /\ <<>> \in Seq(Point)
        BY DEF Reason, Reasons
      <3>2. dep \in Deps /\ dep.entity = Head(todo)
        BY <1>2, <2>3, <3>1 DEF Dependency, Deps
      <3>3. used'["history_points"] = used["history_points"] + Len(dep.points)
        <4>1. CASE got.err = "ok"
          BY <2>3, <4>1 DEF Dependency
        <4>2. CASE got.err # "ok"
          BY <1>3, <2>3, <4>2 DEF Dependency
        <4> QED BY <4>1, <4>2
      <3> HIDE DEF dep
      <3>4. in' = [in EXCEPT !.tries = @ + 1, !.readErr = IF got.err = "ok" THEN @ ELSE got.err,
                             !.deps = Append(@, dep)]
        BY <1>5, <2>5 DEF dep
      <3>5. Changes({"deps", "tries", "readErr"}) /\ in'.deps = Append(in.deps, dep)
        BY <1>1, <3>4, FieldsAre DEF Changes
      <3> QED BY <1>5, <2>2, <2>5, <3>2, <3>3, <3>5 DEF Going
    <2> QED BY <2>4, <2>5
  <1> HIDE DEF Goes
  <1>6. /\ asked' \in Seq(Askable')
        /\ \/ /\ in' = in /\ at' = "done" /\ end' = "cancelled"
              /\ used'["history_points"] = used["history_points"]
           \/ /\ \E dep \in Deps : Goes(dep)
              /\ Loop(Tail(todo), "dependency", "repairs") /\ end' = end
    BY <1>4, <1>5 DEF ReadDependency, Goes
  <1> QED BY <1>1, <1>6 DEF Goes

LEMMA ReadDependencyShaped == Order /\ Shaped /\ ReadDependency => Shaped'
  <1> SUFFICES ASSUME Order, Shaped, ReadDependency PROVE Shaped'
    OBVIOUS
  <1>1. Keep /\ at = "dependency" /\ Typed /\ asked' \in Seq(Askable')
    BY ReadDependencyIs DEF Shaped
  <1>2. todo \in Seq(Int) \ {<<>>}
    BY <1>1 DEF Shaped, Pending
  <1>3. CASE in' = in /\ at' = "done"
    <2>1. Changes({}) /\ in'.missing \in Seq(Note) /\ {} \cap Settled = {} /\ Onward
      BY <1>1, <1>3 DEF Changes, Typed, Onward, BeforeOutages, BeforeRestarts, BeforeDependencies
    <2> QED BY <1>1, <2>1, ShapedKept
  <1>4. ASSUME NEW dep \in Deps, Changes({"deps", "tries", "readErr"}), in'.deps = Append(in.deps, dep),
               Loop(Tail(todo), "dependency", "repairs")
        PROVE  Shaped'
    <2>1. /\ DOMAIN in' = Fields /\ in'.missing = in.missing /\ in'.points = in.points
          /\ in'.mesh = in.mesh /\ in'.outages = in.outages /\ in'.rows = in.rows /\ in'.down = in.down
          /\ in'.configRead = in.configRead /\ in'.tracesRead = in.tracesRead
          /\ in'.fallbackRead = in.fallbackRead /\ in'.depends = in.depends
          /\ in'.outagesRead = in.outagesRead /\ in'.devices = in.devices /\ in'.probes = in.probes
      BY <1>1, <1>4, FieldsAre DEF Changes, Typed
    <2>2. Onsets' = Onsets
      BY <2>1, OnsetsKept
    <2>3. in'.deps \in Seq(Deps)
      <3> HIDE DEF Deps
      <3> QED BY <1>1, <1>4 DEF Typed
    <2>4. Typed'
      <3>1. in'.probes \in Seq([onset : Onsets', events : {0, 2}])
        BY <1>1, <2>1, <2>2 DEF Typed
      <3> QED BY <1>1, <2>1, <2>3, <3>1 DEF Typed
    <2>5. Unstarted'
      BY <1>4 DEF Unstarted, Loop, BeforeOutages, BeforeRestarts, BeforeDependencies
    <2>6. Pending'
      <3>1. Tail(todo) \in Seq(Int)
        BY <1>2
      <3> QED BY <1>4, <3>1 DEF Pending, Loop
    <2> QED BY <2>4, <2>5, <2>6 DEF Shaped
  <1> QED BY <1>3, <1>4, ReadDependencyIs

LEMMA AnalyseShaped == Shaped /\ Analyse => Shaped'
  <1> SUFFICES ASSUME Shaped, Analyse PROVE Shaped'
    OBVIOUS
  <1>1. Keep /\ asked' = asked /\ Changes({}) /\ at' = "done"
    BY DEF Analyse, Changes
  <1>2. Follows(at')
    BY <1>1 DEF Follows, Free, BeforeOutages, BeforeRestarts, BeforeDependencies
  <1> QED BY <1>1, <1>2, BringsShaped

LEMMA NextShaped == Order /\ Shaped /\ [Next]_vars => Shaped'
  <1>1. CASE UNCHANGED vars
    <2>1. UNCHANGED <<tool, profile, at, todo, in, asked>>
      BY <1>1 DEF vars
    <2>2. Onsets' = Onsets /\ Askable' = Askable /\ Readable' = Readable
      BY <2>1 DEF Onsets, Clusters, Askable, Readable, Permitted
    <2>3. (Permitted(Subject)) <=> (Permitted(Subject)')
      BY <2>1 DEF Permitted
    <2> QED BY <2>1, <2>2, <2>3 DEF Shaped, Typed, Pending, Unstarted
  <1>2. CASE Ended
    BY <1>1, <1>2 DEF Ended
  <1> QED BY <1>1, <1>2, BeginShaped, ReadHistoryShaped, RegistryShaped, RepairsShaped,
             ResolveIntegrationShaped, UnavailableShaped, ChooseOutagesShaped, ReadOutageShaped,
             ChooseMeshShaped, ReadMetricShaped, ChooseRestartsShaped, ReadRestartShaped,
             SupervisorShaped, ReadSummaryShaped, ReadConfigShaped, ReadTracesShaped,
             ReadFallbackShaped, ResolveDependenciesShaped, ReadDependencyShaped, AnalyseShaped
          DEF Next

-----------------------------------------------------------------------------
(* The order of the reads.                                                 *)

(* Where each read stands in the order of the reads.                       *)
StageTable ==
    /\ at = "begin" => Stage = 1
    /\ at = "history" => Stage = 2
    /\ at = "registry" => Stage = 3
    /\ at = "resolve" => Stage = 4
    /\ at = "available" => Stage = 5
    /\ at = "outages" => Stage = 6
    /\ at = "outage" => Stage = 7
    /\ at = "mesh" => Stage = 8
    /\ at = "metric" => Stage = 9
    /\ at = "restarts" => Stage = 10
    /\ at = "restart" => Stage = 11
    /\ at = "summary" => Stage = 12
    /\ at = "config" => Stage = 13
    /\ at = "traces" => Stage = 14
    /\ at = "fallback" => Stage = 15
    /\ at = "resolve_deps" => Stage = 16
    /\ at = "dependency" => Stage = 17
    /\ at = "repairs" => Stage = 18
    /\ at = "supervisor" => Stage = 19
    /\ at = "analyse" => Stage = 20
    /\ at = "done" => Stage = 21

LEMMA StagesDiffer ==
    /\ DOMAIN Stages = 1 .. 21
    /\ \A m, n \in 1 .. 21 : Stages[m] = Stages[n] => m = n
  BY DEF Stages

LEMMA StagesAre == StageTable
  <1>1. \A n \in 1 .. 21 : at = Stages[n] => Stage = n
    BY StagesDiffer DEF Stage
  <1>2. /\ Stages[1] = "begin" /\ Stages[2] = "history" /\ Stages[3] = "registry" /\ Stages[4] = "resolve"
        /\ Stages[5] = "available" /\ Stages[6] = "outages" /\ Stages[7] = "outage" /\ Stages[8] = "mesh"
        /\ Stages[9] = "metric" /\ Stages[10] = "restarts" /\ Stages[11] = "restart" /\ Stages[12] = "summary"
        /\ Stages[13] = "config" /\ Stages[14] = "traces" /\ Stages[15] = "fallback"
        /\ Stages[16] = "resolve_deps" /\ Stages[17] = "dependency" /\ Stages[18] = "repairs"
        /\ Stages[19] = "supervisor" /\ Stages[20] = "analyse" /\ Stages[21] = "done"
    BY DEF Stages
  <1>3. \A n \in 1 .. 21 : n \in DOMAIN Stages
    BY StagesDiffer
  <1> HIDE DEF Stages
  <1> QED BY <1>1, <1>2 DEF StageTable

LEMMA StagesAreNext == StageTable'
  BY StagesAre, PTL

Places == {"begin", "history", "registry", "resolve", "available", "outages", "outage", "mesh",
           "metric", "restarts", "restart", "summary", "config", "traces", "fallback",
           "resolve_deps", "dependency", "repairs", "supervisor", "analyse", "done"}

LEMMA PlacesAre == Places \subseteq ToSet(Stages)
  <1>1. /\ Stages[1] = "begin" /\ Stages[2] = "history" /\ Stages[3] = "registry" /\ Stages[4] = "resolve"
        /\ Stages[5] = "available" /\ Stages[6] = "outages" /\ Stages[7] = "outage" /\ Stages[8] = "mesh"
        /\ Stages[9] = "metric" /\ Stages[10] = "restarts" /\ Stages[11] = "restart" /\ Stages[12] = "summary"
        /\ Stages[13] = "config" /\ Stages[14] = "traces" /\ Stages[15] = "fallback"
        /\ Stages[16] = "resolve_deps" /\ Stages[17] = "dependency" /\ Stages[18] = "repairs"
        /\ Stages[19] = "supervisor" /\ Stages[20] = "analyse" /\ Stages[21] = "done"
    BY DEF Stages
  <1>2. \A n \in 1 .. 21 : Stages[n] \in ToSet(Stages)
    BY StagesDiffer DEF ToSet
  <1> HIDE DEF Stages
  <1> QED BY <1>1, <1>2 DEF Places

(* The order of the reads of each tool.                                    *)
Moves ==
    /\ tool' = tool
    /\ at = "begin" =>
        \/ at' = "done"
        \/ tool = "entity" /\ at' = "history"
        \/ tool = "integration" /\ at' = "resolve"
        \/ tool = "automation" /\ at' = "summary"
    /\ at = "history" => at' \in {"done", "registry"}
    /\ at = "registry" => at' \in {"done", "repairs"}
    /\ at = "repairs" => at' \in {"done", IF tool = "integration" THEN "supervisor" ELSE "analyse"}
    /\ at = "resolve" => at' \in {"done", "available"}
    /\ at = "available" => at' \in {"done", "outages"}
    /\ at = "outages" => at' \in {"outage", "mesh"}
    /\ at = "outage" => at' \in {"done", "outage", "mesh"}
    /\ at = "mesh" => at' \in {"metric", "restarts"}
    /\ at = "metric" => at' \in {"done", "metric", "restarts"}
    /\ at = "restarts" => at' \in {"done", "restart", "repairs"}
    /\ at = "restart" => at' \in {"done", "restart", "repairs"}
    /\ at = "supervisor" => at' \in {"done", "analyse"}
    /\ at = "summary" => at' \in {"done", "config"}
    /\ at = "config" => at' \in {"done", "traces"}
    /\ at = "traces" => at' \in {"done", "fallback"}
    /\ at = "fallback" => at' \in {"done", "resolve_deps"}
    /\ at = "resolve_deps" => at' \in {"done", "dependency", "repairs"}
    /\ at = "dependency" => at' \in {"done", "dependency", "repairs"}
    /\ at = "analyse" => at' = "done"
    /\ at # "done"

Advances == \/ Stage' > Stage
            \/ Stage' = Stage /\ Len(todo') < Len(todo)

LEMMA MissesAdvances ==
    ASSUME NEW what, NEW err, NEW next, Misses(what, err, next)
    PROVE  at' \in {"done", next}
  BY DEF Misses

(* A loop that goes on has one read less to make.                          *)
LEMMA LoopAdvances ==
    ASSUME NEW V, todo \in Seq(V) \ {<<>>}, NEW next, Loop(Tail(todo), at, next)
    PROVE  at' = next \/ (at' = at /\ Len(todo') < Len(todo))
  BY TailIs DEF Loop

(* A step to one of the reads that come later.                             *)
LEMMA Later ==
    ASSUME at \in {"begin", "history", "registry", "resolve", "available", "outages", "outage", "mesh",
                  "metric", "restarts", "restart", "summary", "config", "traces", "fallback",
                  "resolve_deps", "dependency", "repairs", "supervisor", "analyse"},
           at' = "done"
    PROVE  Stage' > Stage
  <1>1. Stage' = 21
    BY StagesAreNext DEF StageTable
  <1>2. Stage \in 1 .. 20
    BY StagesAre DEF StageTable
  <1> QED BY <1>1, <1>2

LEMMA ReadsAdvance ==
    ASSUME Order, Shaped,
           \/ Begin \/ ReadHistory \/ ReadRegistry \/ ReadRepairs
           \/ ResolveIntegration \/ ReadUnavailable \/ ChooseOutages
           \/ ChooseMesh \/ ChooseRestarts \/ ReadSupervisor
           \/ ReadSummary \/ ReadConfig \/ ReadTraces \/ ReadFallback
           \/ ResolveDependencies \/ Analyse
    PROVE  Stage' > Stage /\ at' \in Places /\ Moves
  <1>0. tool' = tool
    BY DEF Keep, Begin, ReadHistory, ReadRegistry, ReadRepairs, ReadSource, NotConfigured, ReadField,
           ResolveIntegration, ReadUnavailable, ChooseOutages, ChooseMesh, ChooseRestarts,
           ReadSupervisor, ReadSummary, ReadConfig, ReadTraces, ReadFallback, ResolveDependencies,
           Analyse
  <1>1. CASE Begin
    <2>1. at = "begin" /\ at' \in {"done", "history", "resolve", "summary"}
      BY <1>1 DEF Begin, Order, Orderly
    <2>3. \/ at' = "done"
          \/ tool = "entity" /\ at' = "history"
          \/ tool = "integration" /\ at' = "resolve"
          \/ tool = "automation" /\ at' = "summary"
      BY <1>1 DEF Begin, Order, Orderly
    <2>2. Stage' > Stage /\ at' \in Places
      BY <2>1, Later, StagesAre, StagesAreNext DEF StageTable, Places
    <2> QED BY <1>0, <2>1, <2>2, <2>3 DEF Moves
  <1>2. CASE ReadHistory
    <2>1. at = "history" /\ at' \in {"done", "registry"}
      BY <1>2 DEF ReadHistory, Misses
    <2>2. Stage' > Stage /\ at' \in Places
      BY <2>1, Later, StagesAre, StagesAreNext DEF StageTable, Places
    <2> QED BY <1>0, <2>1, <2>2 DEF Moves
  <1>3. CASE ReadRegistry
    <2>1. at = "registry" /\ at' \in {"done", "repairs"}
      BY <1>3 DEF ReadRegistry, Misses
    <2>2. Stage' > Stage /\ at' \in Places
      BY <2>1, Later, StagesAre, StagesAreNext DEF StageTable, Places
    <2> QED BY <1>0, <2>1, <2>2 DEF Moves
  <1>4. CASE ReadRepairs
    <2>1. at = "repairs" /\ at' \in {"done", "supervisor", "analyse"}
          /\ at' \in {"done", IF tool = "integration" THEN "supervisor" ELSE "analyse"}
      BY <1>4 DEF ReadRepairs, ReadSource, NotConfigured, Reads, Misses
    <2>2. Stage' > Stage /\ at' \in Places
      BY <2>1, Later, StagesAre, StagesAreNext DEF StageTable, Places
    <2> QED BY <1>0, <2>1, <2>2 DEF Moves
  <1>5. CASE ResolveIntegration
    <2>1. at = "resolve" /\ at' \in {"done", "available"}
      BY <1>5 DEF ResolveIntegration
    <2>2. Stage' > Stage /\ at' \in Places
      BY <2>1, Later, StagesAre, StagesAreNext DEF StageTable, Places
    <2> QED BY <1>0, <2>1, <2>2 DEF Moves
  <1>6. CASE ReadUnavailable
    <2>1. at = "available" /\ at' \in {"done", "outages"}
      BY <1>6 DEF ReadUnavailable, ReadSource, NotConfigured, Reads, Misses
    <2>2. Stage' > Stage /\ at' \in Places
      BY <2>1, Later, StagesAre, StagesAreNext DEF StageTable, Places
    <2> QED BY <1>0, <2>1, <2>2 DEF Moves
  <1>7. CASE ChooseOutages
    <2>1. at = "outages" /\ at' \in {"outage", "mesh"}
      BY <1>7 DEF ChooseOutages, Loop
    <2>2. Stage' > Stage /\ at' \in Places
      BY <2>1, Later, StagesAre, StagesAreNext DEF StageTable, Places
    <2> QED BY <1>0, <2>1, <2>2 DEF Moves
  <1>8. CASE ChooseMesh
    <2>1. at = "mesh" /\ at' \in {"metric", "restarts"}
      BY <1>8 DEF ChooseMesh, ReadMetrics, Loop
    <2>2. Stage' > Stage /\ at' \in Places
      BY <2>1, Later, StagesAre, StagesAreNext DEF StageTable, Places
    <2> QED BY <1>0, <2>1, <2>2 DEF Moves
  <1>9. CASE ChooseRestarts
    <2>1. at = "restarts" /\ at' \in {"done", "restart", "repairs"}
      BY <1>9 DEF ChooseRestarts, ProbeOnsets, Loop, Misses
    <2>2. Stage' > Stage /\ at' \in Places
      BY <2>1, Later, StagesAre, StagesAreNext DEF StageTable, Places
    <2> QED BY <1>0, <2>1, <2>2 DEF Moves
  <1>10. CASE ReadSupervisor
    <2>1. at = "supervisor" /\ at' \in {"done", "analyse"}
      BY <1>10 DEF ReadSupervisor, ReadSource, NotConfigured, Reads, Misses
    <2>2. Stage' > Stage /\ at' \in Places
      BY <2>1, Later, StagesAre, StagesAreNext DEF StageTable, Places
    <2> QED BY <1>0, <2>1, <2>2 DEF Moves
  <1>11. CASE ReadSummary
    <2>1. at = "summary" /\ at' \in {"done", "config"}
      BY <1>11 DEF ReadSummary, ReadSource, Reads, Misses
    <2>2. Stage' > Stage /\ at' \in Places
      BY <2>1, Later, StagesAre, StagesAreNext DEF StageTable, Places
    <2> QED BY <1>0, <2>1, <2>2 DEF Moves
  <1>12. CASE ReadConfig
    <2>1. at = "config" /\ at' \in {"done", "traces"}
      BY <1>12 DEF ReadConfig, ReadField
    <2>2. Stage' > Stage /\ at' \in Places
      BY <2>1, Later, StagesAre, StagesAreNext DEF StageTable, Places
    <2> QED BY <1>0, <2>1, <2>2 DEF Moves
  <1>13. CASE ReadTraces
    <2>1. at = "traces" /\ at' \in {"done", "fallback"}
      BY <1>13 DEF ReadTraces, ReadField
    <2>2. Stage' > Stage /\ at' \in Places
      BY <2>1, Later, StagesAre, StagesAreNext DEF StageTable, Places
    <2> QED BY <1>0, <2>1, <2>2 DEF Moves
  <1>14. CASE ReadFallback
    <2>1. at = "fallback" /\ at' \in {"done", "resolve_deps"}
      BY <1>14 DEF ReadFallback, ReadField, Reads
    <2>2. Stage' > Stage /\ at' \in Places
      BY <2>1, Later, StagesAre, StagesAreNext DEF StageTable, Places
    <2> QED BY <1>0, <2>1, <2>2 DEF Moves
  <1>15. CASE ResolveDependencies
    <2>1. at = "resolve_deps" /\ at' \in {"done", "dependency", "repairs"}
      BY <1>15 DEF ResolveDependencies, Reads, Loop
    <2>2. Stage' > Stage /\ at' \in Places
      BY <2>1, Later, StagesAre, StagesAreNext DEF StageTable, Places
    <2> QED BY <1>0, <2>1, <2>2 DEF Moves
  <1>16. CASE Analyse
    <2>1. at = "analyse" /\ at' \in {"done"}
      BY <1>16 DEF Analyse
    <2>2. Stage' > Stage /\ at' \in Places
      BY <2>1, Later, StagesAre, StagesAreNext DEF StageTable, Places
    <2> QED BY <1>0, <2>1, <2>2 DEF Moves
  <1> QED BY <1>1, <1>2, <1>3, <1>4, <1>5, <1>6, <1>7, <1>8, <1>9, <1>10, <1>11, <1>12, <1>13, <1>14, <1>15, <1>16

LEMMA LoopsAdvance ==
    ASSUME Order, Shaped, ReadOutage \/ ReadMetric \/ ReadRestart \/ ReadDependency
    PROVE  Advances /\ at' \in Places /\ Moves
  <1>0. tool' = tool
    BY DEF Keep, ReadOutage, ReadMetric, ReadRestart, ReadDependency
  <1>1. CASE ReadOutage
    <2>1. at = "outage" /\ todo \in Seq(Readable) \ {<<>>}
      BY <1>1 DEF ReadOutage, Shaped, Pending
    <2>2. \/ at' \in {"done", "mesh"}
          \/ Loop(Tail(todo), "outage", "mesh")
      BY <1>1, MissesAdvances DEF ReadOutage
    <2>3. at' \in {"done", "mesh"} \/ (at' = at /\ Len(todo') < Len(todo))
      BY <2>1, <2>2, LoopAdvances
    <2>4. ASSUME at' = at, Len(todo') < Len(todo) PROVE Advances
      BY <2>1, <2>4, StagesAre, StagesAreNext DEF StageTable, Advances, Places
    <2>5. ASSUME at' \in {"done", "mesh"} PROVE Advances
      BY <2>1, <2>5, Later, StagesAre, StagesAreNext DEF StageTable, Advances, Places
    <2> QED BY <1>0, <2>1, <2>3, <2>4, <2>5 DEF Moves, Places
  <1>2. CASE ReadMetric
    <2>1. at = "metric" /\ todo \in Seq(Readable) \ {<<>>}
      BY <1>2 DEF ReadMetric, Shaped, Pending
    <2>2. \/ at' \in {"done", "restarts"}
          \/ Loop(Tail(todo), "metric", "restarts")
      BY <1>2, MissesAdvances DEF ReadMetric
    <2>3. at' \in {"done", "restarts"} \/ (at' = at /\ Len(todo') < Len(todo))
      BY <2>1, <2>2, LoopAdvances
    <2>4. ASSUME at' = at, Len(todo') < Len(todo) PROVE Advances
      BY <2>1, <2>4, StagesAre, StagesAreNext DEF StageTable, Advances, Places
    <2>5. ASSUME at' \in {"done", "restarts"} PROVE Advances
      BY <2>1, <2>5, Later, StagesAre, StagesAreNext DEF StageTable, Advances, Places
    <2> QED BY <1>0, <2>1, <2>3, <2>4, <2>5 DEF Moves, Places
  <1>3. CASE ReadRestart
    <2>1. at = "restart" /\ todo \in Seq(Onsets) \ {<<>>}
      BY <1>3 DEF ReadRestart, Shaped, Pending
    <2>2. \/ at' \in {"done", "repairs"}
          \/ Loop(Tail(todo), "restart", "repairs")
      BY <1>3, MissesAdvances DEF ReadRestart
    <2>3. at' \in {"done", "repairs"} \/ (at' = at /\ Len(todo') < Len(todo))
      BY <2>1, <2>2, LoopAdvances
    <2>4. ASSUME at' = at, Len(todo') < Len(todo) PROVE Advances
      BY <2>1, <2>4, StagesAre, StagesAreNext DEF StageTable, Advances, Places
    <2>5. ASSUME at' \in {"done", "repairs"} PROVE Advances
      BY <2>1, <2>5, Later, StagesAre, StagesAreNext DEF StageTable, Advances, Places
    <2> QED BY <1>0, <2>1, <2>3, <2>4, <2>5 DEF Moves, Places
  <1>4. CASE ReadDependency
    <2>1. at = "dependency" /\ todo \in Seq(Int) \ {<<>>}
      BY <1>4 DEF ReadDependency, Shaped, Pending
    <2>2. \/ at' \in {"done", "repairs"}
          \/ Loop(Tail(todo), "dependency", "repairs")
      BY <1>4, MissesAdvances DEF ReadDependency
    <2>3. at' \in {"done", "repairs"} \/ (at' = at /\ Len(todo') < Len(todo))
      BY <2>1, <2>2, LoopAdvances
    <2>4. ASSUME at' = at, Len(todo') < Len(todo) PROVE Advances
      BY <2>1, <2>4, StagesAre, StagesAreNext DEF StageTable, Advances, Places
    <2>5. ASSUME at' \in {"done", "repairs"} PROVE Advances
      BY <2>1, <2>5, Later, StagesAre, StagesAreNext DEF StageTable, Advances, Places
    <2> QED BY <1>0, <2>1, <2>3, <2>4, <2>5 DEF Moves, Places
  <1> QED BY <1>1, <1>2, <1>3, <1>4

(* A call of a composite tool makes its reads in their order and repeats   *)
(* none: each step goes on to a later read, or takes one entity more from  *)
(* the list of the read it is at, or ends the call (entityHealth,          *)
(* integrationHealth, automationHealth).                                   *)
THEOREM NoReadTwice == Spec => EveryStepAdvances
  <1>1. ASSUME Order, Shaped, Next PROVE [Advances]_vars
    <2>1. CASE Ended
      BY <2>1 DEF Ended
    <2>2. CASE ~Ended
      BY <1>1, <2>2, ReadsAdvance, LoopsAdvance DEF Next, Advances
    <2> QED BY <2>1, <2>2
  <1>2. Order /\ Shaped /\ [Next]_vars => [Advances]_vars
    BY <1>1
  <1>3. Spec => [][Advances]_vars
    BY <1>2, InitOrder, NextOrder, InitShaped, NextShaped, PTL DEF Spec
  <1> QED BY <1>3 DEF EveryStepAdvances, Advances

-----------------------------------------------------------------------------
(* What the caller is told, and when.                                      *)

(* No step but the last says anything to the caller.                       *)
LEMMA OnlyTheAnalysisAnswers ==
    ASSUME Order, Next, ~Analyse, ~Ended
    PROVE  end = "running" /\ answer' = answer /\ end' # "answered"
  <1> USE DEF Order, Orderly, End, Going
  <1>1. CASE Begin
    BY <1>1 DEF Begin
  <1>2. CASE ReadHistory
    BY <1>2 DEF ReadHistory, Misses
  <1>3. CASE ReadRegistry
    BY <1>3 DEF ReadRegistry, Misses
  <1>4. CASE ReadRepairs
    BY <1>4 DEF ReadRepairs, ReadSource, NotConfigured, Reads, Misses
  <1>5. CASE ResolveIntegration
    BY <1>5 DEF ResolveIntegration
  <1>6. CASE ReadUnavailable
    BY <1>6 DEF ReadUnavailable, ReadSource, NotConfigured, Reads, Misses
  <1>7. CASE ChooseOutages
    BY <1>7 DEF ChooseOutages
  <1>8. CASE ReadOutage
    BY <1>8 DEF ReadOutage, Misses
  <1>9. CASE ChooseMesh
    BY <1>9 DEF ChooseMesh
  <1>10. CASE ReadMetric
    BY <1>10 DEF ReadMetric, Misses
  <1>11. CASE ChooseRestarts
    BY <1>11 DEF ChooseRestarts, ProbeOnsets, Misses
  <1>12. CASE ReadRestart
    BY <1>12 DEF ReadRestart, Misses
  <1>13. CASE ReadSupervisor
    BY <1>13 DEF ReadSupervisor, ReadSource, NotConfigured, Reads, Misses
  <1>14. CASE ReadSummary
    BY <1>14 DEF ReadSummary, ReadSource, Reads, Misses
  <1>15. CASE ReadConfig
    BY <1>15 DEF ReadConfig, ReadField
  <1>16. CASE ReadTraces
    BY <1>16 DEF ReadTraces, ReadField
  <1>17. CASE ReadFallback
    BY <1>17 DEF ReadFallback, ReadField, Reads
  <1>18. CASE ResolveDependencies
    BY <1>18 DEF ResolveDependencies, Reads
  <1>19. CASE ReadDependency
    BY <1>19 DEF ReadDependency
  <1> QED BY <1>1, <1>2, <1>3, <1>4, <1>5, <1>6, <1>7, <1>8, <1>9, <1>10, <1>11, <1>12, <1>13, <1>14,
             <1>15, <1>16, <1>17, <1>18, <1>19 DEF Next

(* What every answer says of what is missing.                              *)
Says(a, missing) == a # <<>> /\ a.missing = missing /\ a.partial = (missing # <<>>)

LEMMA HealthIs ==
    ASSUME NEW evidence, NEW claims, NEW missing, NEW next, NEW clusters
    PROVE  Says(Health(evidence, claims, missing, next, clusters), missing)
  <1> DEFINE a == Health(evidence, claims, missing, next, clusters)
  <1>1. "partial" \in DOMAIN a /\ a.missing = missing /\ a.partial = (missing # <<>>)
    BY DEF Health
  <1>2. "partial" \notin DOMAIN <<>>
    OBVIOUS
  <1> HIDE DEF a
  <1>3. a # <<>>
    BY <1>1, <1>2
  <1> QED BY <1>1, <1>3 DEF Says, a

LEMMA EveryToolSays ==
    ASSUME NEW i
    PROVE  /\ \E missing : Says(AnalyzeEntityHealth(i), missing)
           /\ \E missing : Says(AnalyzeIntegrationHealth(i), missing)
           /\ \E missing : Says(AnalyzeAutomationHealth(i), missing)
  <1>1. \E e, c, m, n, k : AnalyzeEntityHealth(i) = Health(e, c, m, n, k)
    BY DEF AnalyzeEntityHealth, EntityAnalysis
  <1>2. \E e, c, m, n, k : AnalyzeIntegrationHealth(i) = Health(e, c, m, n, k)
    BY DEF AnalyzeIntegrationHealth, IntegrationAnalysis
  <1>3. \E e, c, m, n, k : AnalyzeAutomationHealth(i) = Health(e, c, m, n, k)
    BY DEF AnalyzeAutomationHealth, AutomationAnalysis, Concludes
  <1> QED BY <1>1, <1>2, <1>3, HealthIs

LEMMA AnalyseSays ==
    ASSUME Order, Analyse
    PROVE  /\ end = "running"
           /\ \/ end' = "answered" /\ \E missing : Says(answer', missing)
              \/ end' = "budget" /\ answer' = answer
  <1>1. end = "running" /\ tool \in {"entity", "integration", "automation"}
    BY DEF Order, Orderly, Analyse
  <1>2. \/ end' = "budget" /\ answer' = answer
        \/ end' = "answered" /\ \/ answer' = AnalyzeEntityHealth(in)
                                \/ answer' = AnalyzeIntegrationHealth(in)
                                \/ answer' = AnalyzeAutomationHealth(in)
    BY <1>1 DEF Analyse, End
  <1> QED BY <1>1, <1>2, EveryToolSays

(* Where the call stands and what it has said.                             *)
Staged ==
    /\ at \in Places
    /\ (end = "answered") <=> (answer # <<>>)

LEMMA NextStaged == Order /\ Shaped /\ Staged /\ [Next]_vars => Staged'
  <1> SUFFICES ASSUME Order, Shaped, Staged, [Next]_vars PROVE Staged'
    OBVIOUS
  <1>1. CASE UNCHANGED vars \/ Ended
    BY <1>1 DEF vars, Staged, Ended
  <1>2. CASE Analyse
    <2>1. at' \in Places
      BY <1>2 DEF Analyse, Places
    <2>2. (end' = "answered") <=> (answer' # <<>>)
      BY <1>2, AnalyseSays DEF Staged, Says
    <2> QED BY <2>1, <2>2 DEF Staged
  <1>3. CASE Next /\ ~Analyse /\ ~Ended
    <2>1. at' \in Places
      BY <1>3, ReadsAdvance, LoopsAdvance DEF Next
    <2>2. answer' = answer /\ end' # "answered" /\ end = "running"
      BY <1>3, OnlyTheAnalysisAnswers
    <2> QED BY <2>1, <2>2 DEF Staged
  <1> QED BY <1>1, <1>2, <1>3

(* A call of a composite tool ends in one of the named ways, with an       *)
(* answer in one of them only, within its budget, and what it notes as     *)
(* missing has a reason its schema knows (model.MissingEvidence).          *)
THEOREM TypeCorrect == Spec => []TypeOK
  <1>1. Init => Staged
    BY DEF Init, Staged, Places
  <1>2. Order /\ Shaped /\ Staged => TypeOK
    <2> SUFFICES ASSUME Order, Shaped, Staged PROVE TypeOK
      OBVIOUS
    <2>1. at \in ToSet(Stages)
      BY PlacesAre DEF Staged
    <2>2. end \in Endings /\ ((at = "done") = (end # "running")) /\ Within(used, Limits)
      BY DEF Order, Orderly, Solvent
    <2>3. (end = "answered") = (answer # <<>>)
      BY DEF Staged
    <2>4. DOMAIN in = DOMAIN EmptyInput
      BY DEF Shaped, Typed, Fields
    <2>5. \A i \in DOMAIN in.missing : in.missing[i][2] \in Reasons
      <3> DEFINE m == in.missing
      <3>1. m \in Seq(Note)
        BY DEF Shaped, Typed
      <3>2. \A note \in Note : note[2] \in Reasons
        BY DEF Note
      <3> HIDE DEF m, Note
      <3>3. \A i \in DOMAIN m : m[i] \in Note
        BY <3>1
      <3> QED BY <3>2, <3>3 DEF m
    <2> QED BY <2>1, <2>2, <2>3, <2>4, <2>5 DEF TypeOK, Endings, Reasons
  <1> QED BY <1>1, <1>2, InitOrder, NextOrder, InitShaped, NextShaped, NextStaged, PTL DEF Spec

-----------------------------------------------------------------------------
(* What each step learns, and what it notes when it does not.              *)

(* What a step learns: what it may change of the input, of which the list  *)
(* of what is missing only grows.                                          *)
Learns(fs) == Changes(fs) /\ ToSet(in.missing) \subseteq ToSet(in'.missing)
Noted(what) == \E r \in Reasons : <<what, r>> \in ToSet(in.missing)
AsksNothing == asked' = asked /\ used'["history_points"] = used["history_points"]

(* A source is read, or noted as missing, or the call is over.             *)
Reached(next, told) == (at' = "done" /\ end' # "answered") \/ (at' = next /\ told)

LEMMA NoteLearns ==
    ASSUME Typed, NEW what \in Sources, NEW r \in Reasons, in'.missing = Append(in.missing, <<what, r>>)
    PROVE  ToSet(in.missing) \subseteq ToSet(in'.missing) /\ Noted(what)'
  <1> DEFINE m == in.missing
             note == <<what, r>>
  <1>1. note \in Note
    BY DEF Note
  <1>2. m \in Seq(Note)
    BY DEF Typed
  <1> HIDE DEF m, note, Note
  <1>3. ToSet(Append(m, note)) = ToSet(m) \cup {note}
    BY <1>1, <1>2, AppendIs
  <1>4. ToSet(in'.missing) = ToSet(in.missing) \cup {<<what, r>>}
    BY <1>3 DEF m, note
  <1> QED BY <1>4 DEF Noted

LEMMA MissesLearns ==
    ASSUME Typed, NEW what \in Sources, NEW err, NEW next, Misses(what, err, next)
    PROVE  Learns({"missing"}) /\ todo' = <<>> /\ Reached(next, Noted(what)')
  <1>1. Missed(what, next)
    BY MissesIs DEF Typed
  <1>2. CASE at' = "done" /\ end' = "cancelled" /\ in' = in
    BY <1>1, <1>2 DEF Missed, Learns, Changes, Reached
  <1>3. ASSUME NEW r \in Reasons, at' = next, Changes({"missing"}), in'.missing = Append(in.missing, <<what, r>>)
        PROVE  Learns({"missing"}) /\ Reached(next, Noted(what)')
    BY <1>3, NoteLearns DEF Learns, Reached
  <1> QED BY <1>1, <1>2, <1>3 DEF Missed

(* An input that says of a source that it was read.                        *)
Brings(i, fs, flag) ==
    /\ DOMAIN i = Fields /\ \A f \in Fields \ fs : i[f] = in[f]
    /\ i.missing = in.missing /\ i[flag] = TRUE

LEMMA SourceLearns ==
    ASSUME Typed, NEW what \in Sources, NEW inputs, NEW next, NEW fs, NEW flag,
           ReadSource(what, inputs, next) \/ NotConfigured(what, next), next # "done",
           \A i \in inputs : Brings(i, fs, flag)
    PROVE  Learns(fs \cup {"missing"}) /\ Reached(next, in'[flag] = TRUE \/ Noted(what)') /\ AsksNothing
  <1>1. ASSUME NEW err, Misses(what, err, next)
        PROVE  Learns(fs \cup {"missing"}) /\ Reached(next, Noted(what)')
    BY <1>1, MissesLearns DEF Learns, Changes
  <1>2. ASSUME NEW i \in inputs, in' = i, at' = next
        PROVE  Learns(fs \cup {"missing"}) /\ in'[flag] = TRUE
    BY <1>2 DEF Brings, Learns, Changes, Typed
  <1>3. AsksNothing
    BY DEF ReadSource, NotConfigured, Quiet, AsksNothing
  <1>4. \/ \E i \in inputs : in' = i /\ at' = next
        \/ \E err : Misses(what, err, next)
    BY DEF ReadSource, NotConfigured, Reads
  <1> QED BY <1>1, <1>2, <1>3, <1>4 DEF Reached

LEMMA RepairsLearns ==
    ASSUME Typed, ReadRepairs
    PROVE  /\ Learns({"repairsRead", "repairs", "missing"}) /\ AsksNothing
           /\ Reached(IF tool = "integration" THEN "supervisor" ELSE "analyse",
                      in'.repairsRead = TRUE \/ Noted("repairs")')
  <1> DEFINE inputs == {[in EXCEPT !.repairsRead = TRUE, !.repairs = r] : r \in RepairLists}
             next == IF tool = "integration" THEN "supervisor" ELSE "analyse"
             fs == {"repairsRead", "repairs"}
  <1>1. ReadSource("repairs", inputs, next) \/ NotConfigured("repairs", next)
    BY DEF ReadRepairs
  <1>2. \A i \in inputs : Brings(i, fs, "repairsRead")
    BY FieldsAre DEF Typed, Brings
  <1>3. "repairs" \in Sources /\ next # "done" /\ fs \cup {"missing"} = {"repairsRead", "repairs", "missing"}
    BY DEF Sources
  <1> HIDE DEF inputs, fs
  <1> QED BY <1>1, <1>2, <1>3, SourceLearns

LEMMA UnavailableLearns ==
    ASSUME Typed, ReadUnavailable
    PROVE  /\ Learns({"unavailableRead", "down", "unavailable", "missing"}) /\ AsksNothing
           /\ Reached("outages", in'.unavailableRead = TRUE \/ Noted("availability_now")')
  <1> DEFINE inputs == {[in EXCEPT !.unavailableRead = TRUE, !.down = d \cap Names(in.rows),
                                   !.unavailable = Cardinality(d \cap Names(in.rows))] : d \in DownNow}
             fs == {"unavailableRead", "down", "unavailable"}
  <1>1. ReadSource("availability_now", inputs, "outages") \/ NotConfigured("availability_now", "outages")
    BY DEF ReadUnavailable
  <1>2. \A i \in inputs : Brings(i, fs, "unavailableRead")
    BY FieldsAre DEF Typed, Brings
  <1>3. "availability_now" \in Sources /\ fs \cup {"missing"} = {"unavailableRead", "down", "unavailable", "missing"}
    BY DEF Sources
  <1> HIDE DEF inputs, fs
  <1> QED BY <1>1, <1>2, <1>3, SourceLearns

LEMMA SupervisorLearns ==
    ASSUME Typed, ReadSupervisor
    PROVE  /\ Learns({"supervisorRead", "unhealthy", "missing"}) /\ AsksNothing
           /\ Reached("analyse", in'.supervisorRead = TRUE \/ Noted("supervisor")')
  <1> DEFINE inputs == {[in EXCEPT !.supervisorRead = TRUE, !.unhealthy = n] : n \in 0..1}
             fs == {"supervisorRead", "unhealthy"}
  <1>1. ReadSource("supervisor", inputs, "analyse") \/ NotConfigured("supervisor", "analyse")
    BY DEF ReadSupervisor
  <1>2. \A i \in inputs : Brings(i, fs, "supervisorRead")
    BY FieldsAre DEF Typed, Brings
  <1>3. "supervisor" \in Sources /\ fs \cup {"missing"} = {"supervisorRead", "unhealthy", "missing"}
    BY DEF Sources
  <1> HIDE DEF inputs, fs
  <1> QED BY <1>1, <1>2, <1>3, SourceLearns

LEMMA RegistryLearns ==
    ASSUME Typed, ReadRegistry
    PROVE  /\ Learns({"registryRead", "entity", "entry", "missing"}) /\ AsksNothing
           /\ Reached("repairs", in'.registryRead = TRUE \/ Noted("registry")')
  <1>1. AsksNothing /\ "registry" \in Sources
    BY DEF ReadRegistry, Quiet, AsksNothing, Sources
  <1>2. ASSUME NEW err, Misses("registry", err, "repairs")
        PROVE  Learns({"registryRead", "entity", "entry", "missing"}) /\ Reached("repairs", Noted("registry")')
    BY <1>1, <1>2, MissesLearns DEF Learns, Changes
  <1>3. ASSUME NEW e, NEW f, in' = [in EXCEPT !.registryRead = TRUE, !.entity = e, !.entry = f],
               (at' = "done" /\ end' = "not_found") \/ at' = "repairs"
        PROVE  Learns({"registryRead", "entity", "entry", "missing"}) /\ Reached("repairs", in'.registryRead = TRUE)
    BY <1>3, FieldsAre DEF Learns, Changes, Reached, Typed
  <1>4. \/ \E e, f : /\ in' = [in EXCEPT !.registryRead = TRUE, !.entity = e, !.entry = f]
                     /\ (at' = "done" /\ end' = "not_found") \/ at' = "repairs"
        \/ \E err : Misses("registry", err, "repairs")
    BY DEF ReadRegistry, End
  <1> QED BY <1>1, <1>2, <1>3, <1>4 DEF Reached

LEMMA ReadHistoryLearns ==
    ASSUME Order, Shaped, ReadHistory
    PROVE  /\ Learns({"historyRead", "points", "missing"})
           /\ Reached("registry", in'.historyRead = TRUE \/ Noted("history")')
           /\ \/ in'.points = in.points /\ used'["history_points"] = used["history_points"]
              \/ /\ in'.points \in Seq(Point)
                 /\ used'["history_points"] = used["history_points"] + Len(in'.points)
  <1>1. PICK got \in ReadEntityPoints(0, Histories) :
            /\ Take(got, Subject)
            /\ IF got.err = "ok"
               THEN /\ in' = [in EXCEPT !.historyRead = TRUE, !.points = got.points]
                    /\ at' = "registry"
               ELSE Misses("history", got.err, "registry")
    BY DEF ReadHistory
  <1>2. Typed /\ Solvent /\ used' = got.used /\ "history" \in Sources
    BY <1>1 DEF Shaped, Order, Take, Sources
  <1>3. /\ got.err = "ok" => /\ got.points \in Seq(Point)
                             /\ used'["history_points"] = used["history_points"] + Len(got.points)
        /\ got.err # "ok" => used'["history_points"] = used["history_points"]
    BY <1>1, <1>2, ReadBrings
  <1>4. CASE got.err = "ok"
    <2>1. in' = [in EXCEPT !.historyRead = TRUE, !.points = got.points]
      BY <1>1, <1>4
    <2>2. DOMAIN in = Fields
      BY <1>2 DEF Typed
    <2>3. /\ DOMAIN in' = DOMAIN in
          /\ \A f \in Fields \ {"historyRead", "points", "missing"} : in'[f] = in[f]
      BY <2>1, <2>2
    <2>4. in'.points = got.points /\ in'.historyRead = TRUE /\ in'.missing = in.missing
      BY <2>1, <2>2, FieldsAre
    <2>5. Changes({"historyRead", "points", "missing"})
      BY <2>3 DEF Changes
    <2> QED BY <1>1, <1>3, <1>4, <2>4, <2>5 DEF Learns, Reached
  <1>5. CASE got.err # "ok"
    <2>1. Learns({"missing"}) /\ Reached("registry", Noted("history")')
      BY <1>1, <1>2, <1>5, MissesLearns
    <2>2. in'.points = in.points /\ Learns({"historyRead", "points", "missing"})
      BY <2>1, FieldsAre DEF Learns, Changes
    <2> QED BY <1>3, <1>5, <2>1, <2>2 DEF Reached
  <1> QED BY <1>4, <1>5

LEMMA ReadOutageLearns ==
    ASSUME Order, Shaped, ReadOutage
    PROVE  /\ Learns({"outagesRead", "outages", "missing"}) /\ ToSet(asked) \subseteq ToSet(asked')
           /\ \/ /\ \E leg \in Legs :
                       /\ leg.entity.id = Head(todo) /\ in'.outages = Append(in.outages, leg)
                       /\ used'["history_points"] = used["history_points"] + Len(leg.points)
                 /\ Loop(Tail(todo), "outage", "mesh") /\ Head(todo) \in ToSet(asked')
              \/ /\ in'.outages = in.outages /\ used'["history_points"] = used["history_points"]
                 /\ Reached("mesh", Noted("outages")')
  <1>1. PICK got \in ReadEntityPoints(1, OtherHistories) :
            /\ Take(got, Head(todo))
            /\ IF got.err = "ok"
               THEN /\ in' = [in EXCEPT !.outagesRead = TRUE,
                                !.outages = Append(@, [entity |-> Row(Head(todo)), points |-> got.points])]
                    /\ Loop(Tail(todo), "outage", "mesh")
               ELSE Misses("outages", got.err, "mesh")
    BY DEF ReadOutage
  <1>2. Keep /\ at = "outage" /\ Typed /\ Solvent /\ used' = got.used /\ "outages" \in Sources
    BY <1>1 DEF ReadOutage, Shaped, Order, Take, Sources
  <1>3. ToSet(asked) \subseteq ToSet(asked') /\ (got.asked => ToSet(asked') = ToSet(asked) \cup {Head(todo)})
    BY <1>1, <1>2, HeadIs, TakeAsks
  <1>4. /\ got.err = "ok" => /\ got.points \in Seq(Point) /\ got.asked = TRUE
                             /\ used'["history_points"] = used["history_points"] + Len(got.points)
        /\ got.err # "ok" => used'["history_points"] = used["history_points"]
    BY <1>1, <1>2, ReadBrings
  <1>5. CASE got.err = "ok"
    <2> DEFINE leg == [entity |-> Row(Head(todo)), points |-> got.points]
    <2>1. leg \in Legs /\ leg.entity.id = Head(todo) /\ leg.points = got.points
      BY <1>2, <1>4, <1>5, HeadIs DEF Legs
    <2> HIDE DEF leg
    <2>2. in' = [in EXCEPT !.outagesRead = TRUE, !.outages = Append(@, leg)] /\ Loop(Tail(todo), "outage", "mesh")
      BY <1>1, <1>5 DEF leg
    <2>3. /\ Changes({"outagesRead", "outages", "missing"}) /\ in'.outages = Append(in.outages, leg)
          /\ in'.missing = in.missing
      BY <1>2, <2>2, FieldsAre DEF Changes, Typed
    <2> QED BY <1>3, <1>4, <1>5, <2>1, <2>2, <2>3 DEF Learns
  <1>6. CASE got.err # "ok"
    <2>1. Learns({"missing"}) /\ Reached("mesh", Noted("outages")')
      BY <1>1, <1>2, <1>6, MissesLearns
    <2>2. in'.outages = in.outages /\ Learns({"outagesRead", "outages", "missing"})
      BY <2>1, FieldsAre DEF Learns, Changes
    <2> QED BY <1>3, <1>4, <1>6, <2>1, <2>2
  <1> QED BY <1>5, <1>6

LEMMA ReadMetricLearns ==
    ASSUME Order, Shaped, ReadMetric
    PROVE  /\ Learns({"mesh", "missing"}) /\ ToSet(asked) \subseteq ToSet(asked')
           /\ at' \in {"metric", "restarts"} \/ (at' = "done" /\ end' # "answered")
           /\ \/ /\ in'.mesh = in.mesh
                 /\ \E n \in Nat : used'["history_points"] = used["history_points"] + n
              \/ \E ev \in Metrics, n \in Nat :
                    /\ in'.mesh = Append(in.mesh, ev) /\ ev.sample <= n
                    /\ used'["history_points"] = used["history_points"] + n
  <1>1. PICK got \in ReadEntityPoints(1, OtherHistories) :
            /\ Take(got, Head(todo))
            /\ IF got.err = "ok"
               THEN /\ \/ in' = [in EXCEPT !.mesh = Append(@, MeshEvidence(Row(Head(todo)), got.points, Numeric))]
                       \/ in' = Lacks(in, "mesh", "out_of_retention")
                    /\ Loop(Tail(todo), "metric", "restarts")
               ELSE Misses("mesh", got.err, "restarts")
    BY DEF ReadMetric
  <1>2. Keep /\ at = "metric" /\ Typed /\ Solvent /\ used' = got.used /\ "mesh" \in Sources
    BY <1>1 DEF ReadMetric, Shaped, Order, Take, Sources
  <1>3. ToSet(asked) \subseteq ToSet(asked')
    BY <1>1, <1>2, HeadIs, TakeAsks
  <1>4. /\ got.err = "ok" => /\ got.points \in Seq(Point)
                             /\ used'["history_points"] = used["history_points"] + Len(got.points)
        /\ got.err # "ok" => used'["history_points"] = used["history_points"]
    BY <1>1, <1>2, ReadBrings
  <1>5. CASE got.err = "ok"
    <2> DEFINE ev == MeshEvidence(Row(Head(todo)), got.points, Numeric)
               n == Len(got.points)
    <2>1. ev \in Metrics /\ ev.sample <= n /\ n \in Nat
      BY <1>2, <1>4, <1>5, HeadIs, MetricsAre DEF Metrics
    <2> HIDE DEF ev
    <2>2. at' \in {"metric", "restarts"} /\ used'["history_points"] = used["history_points"] + n
      BY <1>1, <1>4, <1>5 DEF Loop
    <2> HIDE DEF n
    <2>3. CASE in' = [in EXCEPT !.mesh = Append(@, ev)]
      <3>1. Changes({"mesh", "missing"}) /\ in'.mesh = Append(in.mesh, ev) /\ in'.missing = in.missing
        BY <1>2, <2>3, FieldsAre DEF Changes, Typed
      <3> QED BY <1>3, <2>1, <2>2, <3>1 DEF Learns
    <2>4. CASE in' = Lacks(in, "mesh", "out_of_retention")
      <3>1. /\ Changes({"mesh", "missing"}) /\ in'.mesh = in.mesh
            /\ in'.missing = Append(in.missing, <<"mesh", "out_of_retention">>)
        BY <1>2, <2>4, FieldsAre DEF Changes, Typed, Lacks
      <3>2. "out_of_retention" \in Reasons
        BY DEF Reasons
      <3>3. ToSet(in.missing) \subseteq ToSet(in'.missing)
        BY <1>2, <3>1, <3>2, NoteLearns
      <3> QED BY <1>3, <2>1, <2>2, <3>1, <3>3 DEF Learns
    <2> QED BY <1>1, <1>5, <2>3, <2>4 DEF ev
  <1>6. CASE got.err # "ok"
    <2>1. Learns({"missing"}) /\ Reached("restarts", Noted("mesh")')
      BY <1>1, <1>2, <1>6, MissesLearns
    <2>2. in'.mesh = in.mesh /\ Learns({"mesh", "missing"})
      BY <2>1, FieldsAre DEF Learns, Changes
    <2>3. used'["history_points"] = used["history_points"] + 0
      BY <1>2, <1>4, <1>6 DEF Solvent, Dimensions
    <2> QED BY <1>3, <2>1, <2>2, <2>3 DEF Reached
  <1> QED BY <1>5, <1>6

Weighed == {"points", "outages", "deps", "mesh"}

LEMMA ResolveIntegrationLearns ==
    ASSUME Typed, ResolveIntegration
    PROVE  /\ Learns({"entry", "rows", "devices", "entities"}) /\ AsksNothing
           /\ Reached("available", TRUE)
  <1>1. AsksNothing
    BY DEF ResolveIntegration, AsksNothing, Quiet
  <1>2. ASSUME NEW entry \in Entries,
               in' = [in EXCEPT !.entry = entry, !.rows = {e \in Entities : e.entry = entry.id},
                                !.devices = {d \in Devices : d.entry = entry.id},
                                !.entities = Cardinality({e \in Entities : e.entry = entry.id})]
        PROVE  Learns({"entry", "rows", "devices", "entities"})
    BY <1>2, FieldsAre DEF Learns, Changes, Typed
  <1>3. ASSUME in' = in PROVE Learns({"entry", "rows", "devices", "entities"})
    BY <1>3 DEF Learns, Changes
  <1>4. Learns({"entry", "rows", "devices", "entities"})
    BY <1>2, <1>3 DEF ResolveIntegration
  <1>5. Reached("available", TRUE)
    BY DEF ResolveIntegration, Reached, End
  <1> QED BY <1>1, <1>4, <1>5

LEMMA ChooseOutagesLearns ==
    ASSUME Shaped, ChooseOutages
    PROVE  Learns({"missing"}) /\ AsksNothing
  <1>1. AsksNothing
    BY DEF ChooseOutages, AsksNothing, Quiet
  <1>2. Adds(in', in, Readable # Names(in.rows), <<"outages", "policy_denied">>)
    BY ChooseOutagesIs
  <1> QED BY <1>1, <1>2, AddsChanges DEF Learns, Adds, Shaped, Typed

LEMMA ChooseMeshLearns ==
    ASSUME Shaped, ChooseMesh
    PROVE  Learns({"missing", "meshResolved"}) /\ AsksNothing /\ at' \in {"metric", "restarts"}
  <1>1. AsksNothing
    BY DEF ChooseMesh, AsksNothing, Quiet
  <1> QED BY <1>1, ChooseMeshIs DEF Learns, Shaped, Loop

(* The onsets that are probed, and what is noted when some are not.        *)
LEMMA ChooseRestartsLearns ==
    ASSUME Shaped, ChooseRestarts
    PROVE  /\ Learns({"missing"}) /\ AsksNothing
           /\ \/ /\ Loop(Cut(OutageOnsets(Clusters(in)), MaxRestartProbes), "restart", "repairs")
                 /\ Len(OutageOnsets(Clusters(in))) > MaxRestartProbes => Noted("restarts")'
              \/ Reached("repairs", Noted("restarts")')
  <1> DEFINE onsets == OutageOnsets(Clusters(in))
             short == Len(onsets) > MaxRestartProbes
  <1>1. AsksNothing /\ Typed /\ "restarts" \in Sources /\ "budget_exceeded" \in Reasons
    BY DEF ChooseRestarts, AsksNothing, Quiet, Shaped, Sources, Reasons
  <1>2. \/ /\ in' = LacksIf(in, short, "restarts", "budget_exceeded")
           /\ Loop(Cut(onsets, MaxRestartProbes), "restart", "repairs")
        \/ Misses("restarts", "not_configured", "repairs")
    BY DEF ChooseRestarts, ProbeOnsets
  <1> HIDE DEF onsets
  <1>3. ASSUME in' = LacksIf(in, short, "restarts", "budget_exceeded")
        PROVE  Learns({"missing"}) /\ (short => Noted("restarts")')
    <2>1. Adds(in', in, short, <<"restarts", "budget_exceeded">>)
      BY <1>1, <1>3, LacksIfIs DEF Typed
    <2>2. Changes({"missing"})
      BY <1>1, <2>1, AddsChanges DEF Typed
    <2>3. short => Noted("restarts")'
      BY <1>1, <2>1 DEF Adds, Noted
    <2> QED BY <2>1, <2>2, <2>3 DEF Learns, Adds
  <1>4. CASE Misses("restarts", "not_configured", "repairs")
    BY <1>1, <1>4, MissesLearns DEF onsets
  <1> QED BY <1>1, <1>2, <1>3, <1>4 DEF onsets

LEMMA ReadRestartLearns ==
    ASSUME Shaped, ReadRestart
    PROVE  /\ Learns({"probes", "missing"}) /\ AsksNothing
           /\ \/ /\ Loop(Tail(todo), "restart", "repairs")
                 /\ \E probe : probe.onset = Head(todo) /\ in'.probes = Append(in.probes, probe)
                        /\ probe \in [onset : Onsets, events : {0, 2}]
              \/ Reached("repairs", Noted("restarts")')
  <1>1. AsksNothing /\ Typed /\ at = "restart" /\ "restarts" \in Sources
    BY DEF ReadRestart, AsksNothing, Quiet, Shaped, Sources
  <1>2. Head(todo) \in Onsets
    <2>1. todo \in Seq(Onsets) \ {<<>>}
      BY <1>1 DEF Shaped, Pending
    <2> QED BY <2>1, TailIs
  <1>3. ASSUME NEW events \in {0, 2},
               in' = [in EXCEPT !.probes = Append(@, [onset |-> Head(todo), events |-> events])]
        PROVE  /\ Learns({"probes", "missing"})
               /\ \E probe : probe.onset = Head(todo) /\ in'.probes = Append(in.probes, probe)
                        /\ probe \in [onset : Onsets, events : {0, 2}]
    <2> DEFINE probe == [onset |-> Head(todo), events |-> events]
    <2>1. probe \in [onset : Onsets, events : {0, 2}] /\ probe.onset = Head(todo)
      BY <1>2
    <2> HIDE DEF probe
    <2>2. Changes({"probes", "missing"}) /\ in'.probes = Append(in.probes, probe) /\ in'.missing = in.missing
      BY <1>1, <1>3, FieldsAre DEF Changes, Typed, probe
    <2> QED BY <2>1, <2>2 DEF Learns
  <1>4. ASSUME NEW err, Misses("restarts", err, "repairs")
        PROVE  Learns({"probes", "missing"}) /\ Reached("repairs", Noted("restarts")')
    BY <1>1, <1>4, MissesLearns DEF Learns, Changes
  <1> QED BY <1>1, <1>3, <1>4 DEF ReadRestart

LEMMA ReadSummaryLearns ==
    ASSUME Typed, ReadSummary
    PROVE  Learns({"missing"}) /\ AsksNothing /\ Reached("config", TRUE)
  <1>1. AsksNothing /\ "inventory" \in Sources
    BY DEF ReadSummary, ReadSource, AsksNothing, Quiet, Sources
  <1>2. CASE in' = in /\ ((at' = "done" /\ end' = "not_found") \/ at' = "config")
    BY <1>1, <1>2 DEF Learns, Changes, Reached
  <1>3. ASSUME NEW err, Misses("inventory", err, "config")
        PROVE  Learns({"missing"}) /\ Reached("config", TRUE)
    BY <1>1, <1>3, MissesLearns DEF Reached
  <1> QED BY <1>1, <1>2, <1>3 DEF ReadSummary, ReadSource, Reads, End

LEMMA FieldLearns ==
    ASSUME Typed, ReadConfig \/ ReadTraces \/ ReadFallback
    PROVE  /\ Learns(OfAutomation \cup {"configUnread", "tracesUnread", "fallbackUnread"}) /\ AsksNothing
           /\ at' \in {"traces", "fallback", "resolve_deps"} \/ (at' = "done" /\ end' # "answered")
  <1> DEFINE fs == OfAutomation \cup {"configUnread", "tracesUnread", "fallbackUnread"}
  <1>1. AsksNothing
    BY DEF ReadConfig, ReadTraces, ReadFallback, ReadField, AsksNothing, Quiet
  <1>2. at' \in {"traces", "fallback", "resolve_deps"} \/ (at' = "done" /\ end' # "answered")
    BY DEF ReadConfig, ReadTraces, ReadFallback, ReadField, Reads, End
  <1>3. \/ in' = in
        \/ \E field \in {"configUnread", "tracesUnread", "fallbackUnread"} :
               \E err : in' = [in EXCEPT ![field] = Reason(err)]
        \/ \E c : in' = [in EXCEPT !.configRead = TRUE, !.depends = c, !.unextracted = c.unextracted,
                                   !.truncated = c.truncated, !.withheld = c.withheld]
        \/ \E t : in' = [in EXCEPT !.tracesRead = TRUE, !.traces = t]
        \/ \E rows : in' = [in EXCEPT !.fallbackRead = TRUE, !.events = rows, !.since = FallbackSince]
    BY DEF ReadConfig, ReadTraces, ReadFallback, ReadField, Reads
  <1>4. Changes(fs) /\ in'.missing = in.missing
    <2>1. CASE in' = in
      BY <2>1 DEF Changes
    <2>2. ASSUME NEW field \in {"configUnread", "tracesUnread", "fallbackUnread"}, NEW err,
                 in' = [in EXCEPT ![field] = Reason(err)]
          PROVE  Changes(fs) /\ in'.missing = in.missing
      BY <2>2, FieldsAre DEF Changes, Typed
    <2>3. ASSUME NEW c, in' = [in EXCEPT !.configRead = TRUE, !.depends = c, !.unextracted = c.unextracted,
                                   !.truncated = c.truncated, !.withheld = c.withheld]
          PROVE  Changes(fs) /\ in'.missing = in.missing
      BY <2>3, FieldsAre DEF Changes, Typed, OfAutomation
    <2>4. ASSUME NEW t, in' = [in EXCEPT !.tracesRead = TRUE, !.traces = t]
          PROVE  Changes(fs) /\ in'.missing = in.missing
      BY <2>4, FieldsAre DEF Changes, Typed, OfAutomation
    <2>5. ASSUME NEW rows, in' = [in EXCEPT !.fallbackRead = TRUE, !.events = rows, !.since = FallbackSince]
          PROVE  Changes(fs) /\ in'.missing = in.missing
      BY <2>5, FieldsAre DEF Changes, Typed, OfAutomation
    <2> QED BY <1>3, <2>1, <2>2, <2>3, <2>4, <2>5
  <1> QED BY <1>1, <1>2, <1>4 DEF Learns

LEMMA ResolveDependenciesLearns ==
    ASSUME Typed, ResolveDependencies
    PROVE  Learns({"missing"}) /\ AsksNothing
  <1>1. AsksNothing
    BY DEF ResolveDependencies, AsksNothing, Quiet
  <1> QED BY <1>1, ResolveDependenciesIs DEF Learns, Changes

LEMMA AnalyseLearns ==
    ASSUME Order, Analyse
    PROVE  Learns({}) /\ AsksNothing
  <1>1. in' = in /\ asked' = asked
    BY DEF Analyse
  <1>2. used'["history_points"] = used["history_points"]
    <2>1. used \in [Dimensions -> Nat]
      BY DEF Order, Solvent
    <2>2. used' = used \/ \E weight : used' = Charged(used, "bytes", weight)
      BY DEF Analyse
    <2> QED BY <2>1, <2>2 DEF Charged, Dimensions
  <1> QED BY <1>1, <1>2 DEF Learns, Changes, AsksNothing

(* The steps that read no history change nothing that was paid for.        *)
LEMMA QuietLearns ==
    ASSUME Order, Shaped, Next, ~ReadHistory, ~ReadOutage, ~ReadMetric, ~ReadDependency
    PROVE  AsksNothing /\ Learns(Fields \ Weighed)
  <1>0. \A fs : fs \subseteq Fields \ Weighed /\ Learns(fs) => Learns(Fields \ Weighed)
    BY DEF Learns, Changes
  <1> USE FieldsAre DEF Weighed
  <1>1. CASE Begin \/ Ended
    BY <1>1 DEF Begin, Ended, vars, AsksNothing, Quiet, Learns, Changes
  <1>2. CASE ReadRegistry \/ ReadRepairs \/ ReadUnavailable \/ ReadSupervisor
    BY <1>0, <1>2, RegistryLearns, RepairsLearns, UnavailableLearns, SupervisorLearns DEF Shaped
  <1>3. CASE ResolveIntegration \/ ChooseOutages \/ ChooseMesh \/ ChooseRestarts
    BY <1>0, <1>3, ResolveIntegrationLearns, ChooseOutagesLearns, ChooseMeshLearns, ChooseRestartsLearns DEF Shaped
  <1>4. CASE ReadRestart \/ ReadSummary
    BY <1>0, <1>4, ReadRestartLearns, ReadSummaryLearns DEF Shaped
  <1>5. CASE ReadConfig \/ ReadTraces \/ ReadFallback
    BY <1>0, <1>5, FieldLearns DEF Shaped, OfAutomation
  <1>6. CASE ResolveDependencies \/ Analyse
    BY <1>0, <1>6, ResolveDependenciesLearns, AnalyseLearns DEF Shaped
  <1> QED BY <1>1, <1>2, <1>3, <1>4, <1>5, <1>6 DEF Next

-----------------------------------------------------------------------------
(* What the budget paid for is what was learnt.                            *)

LEMMA OneMore ==
    ASSUME NEW n \in Nat, NEW s, s \in [1 .. n -> Nat], NEW t, t \in [1 .. (n + 1) -> Nat],
           \A i \in 1 .. n : t[i] = s[i]
    PROVE  Total(s) \in Nat /\ Total(t) = Total(s) + t[n + 1]
  <1> DEFINE c == t[n + 1]
  <1>1. s \in Seq(Nat) /\ t \in Seq(Nat) /\ Len(s) = n /\ Len(t) = n + 1 /\ c \in Nat
    OBVIOUS
  <1> HIDE DEF c
  <1>2. /\ Append(s, c) \in Seq(Nat) /\ Len(Append(s, c)) = n + 1
        /\ Append(s, c)[n + 1] = c /\ \A i \in 1 .. n : Append(s, c)[i] = s[i]
    BY <1>1
  <1>3. \A i \in 1 .. (n + 1) : i \in 1 .. n \/ i = n + 1
    OBVIOUS
  <1>4. \A i \in 1 .. Len(t) : t[i] = Append(s, c)[i]
    BY <1>1, <1>2, <1>3 DEF c
  <1>5. t = Append(s, c)
    <2> DEFINE a == Append(s, c)
    <2>1. a \in Seq(Nat) /\ Len(a) = Len(t) /\ \A i \in 1 .. Len(t) : t[i] = a[i]
      BY <1>1, <1>2, <1>4
    <2> HIDE DEF a
    <2>2. t = a
      BY <1>1, <2>1, SeqEqual
    <2> QED BY <2>2 DEF a
  <1> QED BY <1>1, <1>5, TotalGrows DEF c

(* What is measured of one read more is what that read brought.            *)
LEMMA PointsGrow ==
    ASSUME NEW L, \A leg \in L : leg.points \in Seq(Point), NEW legs \in Seq(L), NEW leg \in L
    PROVE  /\ PointsOf(legs) \in Nat
           /\ PointsOf(Append(legs, leg)) = PointsOf(legs) + Len(leg.points)
  <1> DEFINE n == Len(legs)
             s == [i \in DOMAIN legs |-> Len(legs[i].points)]
             u == Append(legs, leg)
             t == [i \in DOMAIN u |-> Len(u[i].points)]
  <1>1. n \in Nat /\ DOMAIN legs = 1 .. n /\ \A i \in 1 .. n : legs[i] \in L
    OBVIOUS
  <1>2. \A l \in L : Len(l.points) \in Nat
    OBVIOUS
  <1>3. s \in [1 .. n -> Nat]
    BY <1>1, <1>2
  <1>4. DOMAIN u = 1 .. (n + 1) /\ u[n + 1] = leg /\ \A i \in 1 .. n : u[i] = legs[i]
    BY <1>1
  <1>5. \A i \in 1 .. (n + 1) : u[i] \in L
    <2>1. u \in Seq(L) /\ Len(u) = n + 1
      OBVIOUS
    <2> HIDE DEF u, n
    <2> QED BY <1>1, <2>1
  <1> HIDE DEF u, n
  <1>6. t \in [1 .. (n + 1) -> Nat]
    BY <1>2, <1>4, <1>5
  <1>7. n + 1 \in 1 .. (n + 1) /\ \A i \in 1 .. n : i \in 1 .. (n + 1)
    BY <1>1
  <1>8. t[n + 1] = Len(leg.points) /\ \A i \in 1 .. n : t[i] = s[i]
    BY <1>1, <1>4, <1>7
  <1> HIDE DEF s, t
  <1>9. Total(s) \in Nat /\ Total(t) = Total(s) + t[n + 1]
    BY <1>1, <1>3, <1>6, <1>8, OneMore
  <1> QED BY <1>8, <1>9 DEF PointsOf, s, t, u

LEMMA SamplesGrow ==
    ASSUME NEW legs \in Seq(Metrics), NEW leg \in Metrics
    PROVE  /\ SamplesOf(legs) \in Nat
           /\ SamplesOf(Append(legs, leg)) = SamplesOf(legs) + leg.sample
  <1> DEFINE n == Len(legs)
             s == [i \in DOMAIN legs |-> legs[i].sample]
             u == Append(legs, leg)
             t == [i \in DOMAIN u |-> u[i].sample]
  <1>2. \A l \in Metrics : l.sample \in Nat
    BY MetricsAre DEF Metrics
  <1> HIDE DEF Metrics
  <1>1. n \in Nat /\ DOMAIN legs = 1 .. n /\ \A i \in 1 .. n : legs[i] \in Metrics
    OBVIOUS
  <1>3. s \in [1 .. n -> Nat]
    BY <1>1, <1>2
  <1>4. DOMAIN u = 1 .. (n + 1) /\ u[n + 1] = leg /\ \A i \in 1 .. n : u[i] = legs[i]
    BY <1>1
  <1>5. \A i \in 1 .. (n + 1) : u[i] \in Metrics
    <2>1. u \in Seq(Metrics) /\ Len(u) = n + 1
      OBVIOUS
    <2> HIDE DEF u, n
    <2> QED BY <1>1, <2>1
  <1> HIDE DEF u, n
  <1>6. t \in [1 .. (n + 1) -> Nat]
    BY <1>2, <1>4, <1>5
  <1>7. n + 1 \in 1 .. (n + 1) /\ \A i \in 1 .. n : i \in 1 .. (n + 1)
    BY <1>1
  <1>8. t[n + 1] = leg.sample /\ \A i \in 1 .. n : t[i] = s[i]
    BY <1>1, <1>4, <1>7
  <1> HIDE DEF s, t
  <1>9. Total(s) \in Nat /\ Total(t) = Total(s) + t[n + 1]
    BY <1>1, <1>3, <1>6, <1>8, OneMore
  <1> QED BY <1>8, <1>9 DEF SamplesOf, s, t, u

LEMMA MeasuresAre ==
    /\ \A L : (\A leg \in L : leg.points \in Seq(Point)) => \A legs \in Seq(L) : PointsOf(legs) \in Nat
    /\ \A legs \in Seq(Metrics) : SamplesOf(legs) \in Nat
  <1>1. \A s \in Seq(Nat) : Total(s) \in Nat
    <2>1. 0 \in Nat
      OBVIOUS
    <2> QED BY <2>1, TotalGrows
  <1>2. ASSUME NEW L, \A leg \in L : leg.points \in Seq(Point), NEW legs \in Seq(L)
        PROVE  PointsOf(legs) \in Nat
    <2> DEFINE s == [i \in DOMAIN legs |-> Len(legs[i].points)]
    <2>1. /\ Len(legs) \in Nat /\ DOMAIN legs = 1 .. Len(legs)
          /\ \A i \in 1 .. Len(legs) : Len(legs[i].points) \in Nat
      OBVIOUS
    <2>2. s \in [1 .. Len(legs) -> Nat]
      BY <2>1
    <2> HIDE DEF s
    <2>3. s \in Seq(Nat)
      BY <2>1, <2>2
    <2> QED BY <1>1, <2>3 DEF PointsOf, s
  <1>3. ASSUME NEW legs \in Seq(Metrics) PROVE SamplesOf(legs) \in Nat
    <2> DEFINE s == [i \in DOMAIN legs |-> legs[i].sample]
    <2>1. \A l \in Metrics : l.sample \in Nat
      BY MetricsAre DEF Metrics
    <2> HIDE DEF Metrics
    <2>2. /\ Len(legs) \in Nat /\ DOMAIN legs = 1 .. Len(legs)
          /\ \A i \in 1 .. Len(legs) : legs[i].sample \in Nat
      BY <2>1
    <2>3. s \in [1 .. Len(legs) -> Nat]
      BY <2>2
    <2> HIDE DEF s
    <2>4. s \in Seq(Nat)
      BY <2>2, <2>3
    <2> QED BY <1>1, <2>4 DEF SamplesOf, s
  <1> QED BY <1>2, <1>3

(* The points the analysis would see, and what was paid for them.          *)
Shown == Len(in.points) + PointsOf(in.outages) + PointsOf(in.deps) + SamplesOf(in.mesh)
Paid == Shown <= used["history_points"]

Weights ==
    /\ used["history_points"] \in Nat /\ Len(in.points) \in Nat
    /\ PointsOf(in.outages) \in Nat /\ PointsOf(in.deps) \in Nat /\ SamplesOf(in.mesh) \in Nat

LEMMA WeightsAre ==
    ASSUME Order, Shaped
    PROVE  /\ Weights
           /\ \A leg \in Legs : PointsOf(Append(in.outages, leg)) = PointsOf(in.outages) + Len(leg.points)
           /\ \A dep \in Deps : PointsOf(Append(in.deps, dep)) = PointsOf(in.deps) + Len(dep.points)
           /\ \A ev \in Metrics : SamplesOf(Append(in.mesh, ev)) = SamplesOf(in.mesh) + ev.sample
  <1>1. \A s \in Seq(Point) : Len(s) \in Nat
    OBVIOUS
  <1>2. used["history_points"] \in Nat /\ Len(in.points) \in Nat
    BY <1>1 DEF Order, Solvent, Dimensions, Shaped, Typed
  <1> DEFINE o == in.outages
             d == in.deps
             m == in.mesh
  <1>3. o \in Seq(Legs) /\ d \in Seq(Deps) /\ m \in Seq(Metrics)
    BY DEF Shaped, Typed
  <1>4. (\A leg \in Legs : leg.points \in Seq(Point)) /\ (\A dep \in Deps : dep.points \in Seq(Point))
    BY DEF Legs, Deps
  <1> HIDE DEF o, d, m
  <1>5. PointsOf(o) \in Nat /\ PointsOf(d) \in Nat /\ SamplesOf(m) \in Nat
    BY <1>3, <1>4, MeasuresAre
  <1>6. \A leg \in Legs : PointsOf(Append(o, leg)) = PointsOf(o) + Len(leg.points)
    BY <1>3, <1>4, PointsGrow
  <1>7. \A dep \in Deps : PointsOf(Append(d, dep)) = PointsOf(d) + Len(dep.points)
    BY <1>3, <1>4, PointsGrow
  <1>8. \A ev \in Metrics : SamplesOf(Append(m, ev)) = SamplesOf(m) + ev.sample
    BY <1>3, SamplesGrow
  <1> QED BY <1>2, <1>5, <1>6, <1>7, <1>8 DEF Weights, o, d, m

LEMMA NextPaid == Order /\ Shaped /\ Paid /\ [Next]_vars => Paid'
  <1> SUFFICES ASSUME Order, Shaped, Paid, [Next]_vars PROVE Paid'
    OBVIOUS
  <1>1. CASE UNCHANGED vars
    BY <1>1 DEF vars, Paid, Shown
  <1>2. CASE Next /\ ~ReadHistory /\ ~ReadOutage /\ ~ReadMetric /\ ~ReadDependency
    <2>1. AsksNothing /\ Learns(Fields \ Weighed)
      BY <1>2, QuietLearns
    <2>2. /\ in'.points = in.points /\ in'.outages = in.outages /\ in'.deps = in.deps /\ in'.mesh = in.mesh
          /\ used'["history_points"] = used["history_points"]
      BY <2>1, FieldsAre DEF Learns, Changes, Weighed, AsksNothing
    <2> QED BY <2>2 DEF Paid, Shown
  <1> DEFINE p == Len(in.points)
             o == PointsOf(in.outages)
             d == PointsOf(in.deps)
             m == SamplesOf(in.mesh)
             u == used["history_points"]
  <1>7. p \in Nat /\ o \in Nat /\ d \in Nat /\ m \in Nat /\ u \in Nat /\ p + o + d + m <= u
    BY WeightsAre DEF Weights, Paid, Shown
  <1>8. ASSUME NEW n \in Nat, NEW k \in Nat, n <= k
        PROVE  /\ n + o + d + m <= u + k /\ p + (o + n) + d + m <= u + k
               /\ p + o + (d + n) + m <= u + k /\ p + o + d + (m + n) <= u + k
    <2> HIDE DEF p, o, d, m, u
    <2> QED BY ONLY <1>7, <1>8
  <1>9. ASSUME Shown' = Shown, NEW k \in Nat, used'["history_points"] = u + k
        PROVE  Paid'
    <2>1. p + o + d + m <= u + k
      <3> HIDE DEF p, o, d, m, u
      <3> QED BY ONLY <1>7, <1>9
    <2> QED BY ONLY <1>9, <2>1 DEF Paid, Shown
  <1>3. CASE ReadHistory
    <2>1. in.outages = in'.outages /\ in.deps = in'.deps /\ in.mesh = in'.mesh
      BY <1>3, ReadHistoryLearns, FieldsAre DEF Learns, Changes
    <2>2. CASE in'.points = in.points /\ used'["history_points"] = used["history_points"]
      BY <2>1, <2>2 DEF Paid, Shown
    <2>3. CASE /\ in'.points \in Seq(Point)
               /\ used'["history_points"] = used["history_points"] + Len(in'.points)
      <3>1. Len(in'.points) \in Nat
        BY <2>3
      <3>2. Shown' = Len(in'.points) + o + d + m
        BY <2>1 DEF Shown
      <3>3. Len(in'.points) + o + d + m <= u + Len(in'.points)
        <4> HIDE DEF p, o, d, m, u
        <4> QED BY <1>8, <3>1
      <3> QED BY <2>3, <3>2, <3>3 DEF Paid
    <2> QED BY <1>3, <2>2, <2>3, ReadHistoryLearns
  <1>4. CASE ReadOutage
    <2>1. in.points = in'.points /\ in.deps = in'.deps /\ in.mesh = in'.mesh
      BY <1>4, ReadOutageLearns, FieldsAre DEF Learns, Changes
    <2>2. CASE in'.outages = in.outages /\ used'["history_points"] = used["history_points"]
      BY <2>1, <2>2 DEF Paid, Shown
    <2>3. ASSUME NEW leg \in Legs, in'.outages = Append(in.outages, leg),
                 used'["history_points"] = used["history_points"] + Len(leg.points)
          PROVE  Paid'
      <3>1. Len(leg.points) \in Nat
        BY DEF Legs
      <3>2. PointsOf(in'.outages) = PointsOf(in.outages) + Len(leg.points)
        BY <2>3, WeightsAre
      <3>3. Shown' = p + (o + Len(leg.points)) + d + m
        BY <2>1, <3>2 DEF Shown
      <3>4. p + (o + Len(leg.points)) + d + m <= u + Len(leg.points)
        <4> HIDE DEF p, o, d, m, u
        <4> QED BY <1>8, <3>1
      <3> QED BY <2>3, <3>3, <3>4 DEF Paid
    <2> QED BY <1>4, <2>2, <2>3, ReadOutageLearns
  <1>5. CASE ReadMetric
    <2>1. in.points = in'.points /\ in.deps = in'.deps /\ in.outages = in'.outages
      BY <1>5, ReadMetricLearns, FieldsAre DEF Learns, Changes
    <2>2. ASSUME in'.mesh = in.mesh, NEW n \in Nat, used'["history_points"] = used["history_points"] + n
          PROVE  Paid'
      BY <1>9, <2>1, <2>2 DEF Shown
    <2>3. ASSUME NEW ev \in Metrics, NEW n \in Nat, in'.mesh = Append(in.mesh, ev), ev.sample <= n,
                 used'["history_points"] = used["history_points"] + n
          PROVE  Paid'
      <3>1. ev.sample \in Nat
        BY MetricsAre DEF Metrics
      <3>2. SamplesOf(in'.mesh) = SamplesOf(in.mesh) + ev.sample
        BY <2>3, WeightsAre
      <3>3. Shown' = p + o + d + (m + ev.sample)
        BY <2>1, <3>2 DEF Shown
      <3>4. p + o + d + (m + ev.sample) <= u + n
        <4> HIDE DEF p, o, d, m, u
        <4> QED BY <1>8, <2>3, <3>1
      <3> QED BY <2>3, <3>3, <3>4 DEF Paid
    <2> QED BY <1>5, <2>2, <2>3, ReadMetricLearns
  <1>6. CASE ReadDependency
    <2>1. CASE in' = in /\ used'["history_points"] = used["history_points"]
      BY <2>1 DEF Paid, Shown
    <2>2. ASSUME NEW dep \in Deps, Changes({"deps", "tries", "readErr"}), in'.deps = Append(in.deps, dep),
                 used'["history_points"] = used["history_points"] + Len(dep.points)
          PROVE  Paid'
      <3>1. in.points = in'.points /\ in.mesh = in'.mesh /\ in.outages = in'.outages
        BY <2>2, FieldsAre DEF Changes
      <3>2. Len(dep.points) \in Nat
        BY DEF Deps
      <3>3. PointsOf(in'.deps) = PointsOf(in.deps) + Len(dep.points)
        BY <2>2, WeightsAre
      <3>4. Shown' = p + o + (d + Len(dep.points)) + m
        BY <3>1, <3>3 DEF Shown
      <3>5. p + o + (d + Len(dep.points)) + m <= u + Len(dep.points)
        <4> HIDE DEF p, o, d, m, u
        <4> QED BY <1>8, <3>2
      <3> QED BY <2>2, <3>4, <3>5 DEF Paid
    <2> QED BY <1>6, <2>1, <2>2, ReadDependencyIs
  <1> QED BY <1>1, <1>2, <1>3, <1>4, <1>5, <1>6

LEMMA InitPaid == Init => Paid
  <1> SUFFICES ASSUME Init PROVE Paid
    OBVIOUS
  <1>1. in.points = <<>> /\ in.outages = <<>> /\ in.deps = <<>> /\ in.mesh = <<>>
    BY DEF Init, EmptyInput
  <1>2. used["history_points"] \in Nat
    BY DEF Init, Unspent, Dimensions
  <1>3. Total(<<>>) = 0
    <2> DEFINE s == <<>>
    <2>1. s \in Seq(Nat) /\ Len(s) = 0 /\ 1 .. 0 = {}
      OBVIOUS
    <2> HIDE DEF s
    <2>2. PICK g : Sums(g, s)
      BY <2>1, TotalIsFold
    <2> QED BY <2>1, <2>2 DEF Sums, s
  <1>4. [i \in DOMAIN <<>> |-> Len(<<>>[i].points)] = <<>> /\ [i \in DOMAIN <<>> |-> <<>>[i].sample] = <<>>
    OBVIOUS
  <1> QED BY <1>1, <1>2, <1>3, <1>4 DEF Paid, Shown, PointsOf, SamplesOf

LEMMA NextMoves ==
    ASSUME Order, Shaped, Next, ~Ended
    PROVE  Moves
  BY ReadsAdvance, LoopsAdvance DEF Next

(* Which tool makes which read.                                            *)
OfIntegration == {"resolve", "available", "outages", "outage", "mesh", "metric", "restarts", "restart",
                  "supervisor"}
Routed ==
    /\ at \in {"history", "registry"} => tool = "entity"
    /\ at \in OfIntegration => tool = "integration"
    /\ at \in {"summary", "config", "traces", "fallback", "resolve_deps", "dependency"} => tool = "automation"

LEMMA NextRouted == Order /\ Shaped /\ Staged /\ Routed /\ [Next]_vars => Routed'
  <1>1. CASE UNCHANGED vars \/ Ended
    BY <1>1 DEF vars, Ended, Routed
  <1>2. ASSUME Order, Shaped, Staged, Routed, Next, ~Ended PROVE Routed'
    BY <1>2, NextMoves DEF Moves, Routed, Staged, Places, OfIntegration
  <1> QED BY <1>1, <1>2

(* Which read is made at which stage.                                      *)
LEMMA Guards ==
    ASSUME Next
    PROVE  /\ at = "outages" => ChooseOutages
           /\ at = "outage" => ReadOutage
           /\ at = "restarts" => ChooseRestarts
           /\ at = "restart" => ReadRestart
           /\ at = "analyse" => Analyse
           /\ at = "resolve_deps" => ResolveDependencies
           /\ at = "dependency" => ReadDependency
           /\ at = "history" => ReadHistory
           /\ at = "registry" => ReadRegistry
           /\ at = "repairs" => ReadRepairs
           /\ at = "available" => ReadUnavailable
           /\ at = "supervisor" => ReadSupervisor
           /\ at = "resolve" => ResolveIntegration
  <1>1. (Begin => at = "begin") /\ (Ended => at = "done") /\ (Analyse => at = "analyse")
    BY DEF Begin, Ended, Analyse
  <1>2. (ReadHistory => at = "history") /\ (ReadRegistry => at = "registry") /\ (ReadRepairs => at = "repairs")
    BY DEF ReadHistory, ReadRegistry, ReadRepairs
  <1>3. /\ ResolveIntegration => at = "resolve"
        /\ ReadUnavailable => at = "available"
        /\ ChooseOutages => at = "outages"
        /\ ReadOutage => at = "outage"
    BY DEF ResolveIntegration, ReadUnavailable, ChooseOutages, ReadOutage
  <1>4. /\ ChooseMesh => at = "mesh"
        /\ ReadMetric => at = "metric"
        /\ ChooseRestarts => at = "restarts"
        /\ ReadRestart => at = "restart"
        /\ ReadSupervisor => at = "supervisor"
    BY DEF ChooseMesh, ReadMetric, ChooseRestarts, ReadRestart, ReadSupervisor
  <1>5. /\ ReadSummary => at = "summary"
        /\ ReadConfig => at = "config"
        /\ ReadTraces => at = "traces"
        /\ ReadFallback => at = "fallback"
        /\ ResolveDependencies => at = "resolve_deps"
        /\ ReadDependency => at = "dependency"
    BY DEF ReadSummary, ReadConfig, ReadTraces, ReadFallback, ResolveDependencies, ReadDependency
  <1> QED BY <1>1, <1>2, <1>3, <1>4, <1>5 DEF Next

(* What each read leaves as it was.                                        *)
Keeps ==
    /\ ToSet(in.missing) \subseteq ToSet(in'.missing)
    /\ at # "history" => in'.historyRead = in.historyRead
    /\ at # "registry" => in'.registryRead = in.registryRead
    /\ at # "repairs" => in'.repairsRead = in.repairsRead
    /\ at # "resolve" => in'.rows = in.rows /\ in'.devices = in.devices
    /\ at # "available" => in'.unavailableRead = in.unavailableRead /\ in'.down = in.down
    /\ at # "outage" => in'.outages = in.outages /\ in'.outagesRead = in.outagesRead
    /\ at # "restart" => in'.probes = in.probes
    /\ at # "supervisor" => in'.supervisorRead = in.supervisorRead
    /\ at \notin {"config", "traces", "fallback"} => in'.configRead = in.configRead /\ in'.depends = in.depends
    /\ at # "dependency" => in'.deps = in.deps

LEMMA StepKeeps ==
    ASSUME Order, Shaped, Next
    PROVE  Keeps
  <1> USE FieldsAre DEF Keeps, Learns, Changes
  <1>1. CASE Begin \/ Ended \/ Analyse
    BY <1>1, AnalyseLearns DEF Begin, Ended, vars
  <1>2. CASE ReadHistory
    BY <1>2, ReadHistoryLearns DEF ReadHistory
  <1>3. CASE ReadRegistry
    BY <1>3, RegistryLearns DEF ReadRegistry, Shaped
  <1>4. CASE ReadRepairs
    BY <1>4, RepairsLearns DEF ReadRepairs, Shaped
  <1>5. CASE ResolveIntegration
    BY <1>5, ResolveIntegrationLearns DEF ResolveIntegration, Shaped
  <1>6. CASE ReadUnavailable
    BY <1>6, UnavailableLearns DEF ReadUnavailable, Shaped
  <1>7. CASE ChooseOutages
    BY <1>7, ChooseOutagesLearns
  <1>8. CASE ReadOutage
    BY <1>8, ReadOutageLearns DEF ReadOutage
  <1>9. CASE ChooseMesh
    BY <1>9, ChooseMeshLearns
  <1>10. CASE ReadMetric
    BY <1>10, ReadMetricLearns
  <1>11. CASE ChooseRestarts
    BY <1>11, ChooseRestartsLearns
  <1>12. CASE ReadRestart
    BY <1>12, ReadRestartLearns DEF ReadRestart
  <1>13. CASE ReadSupervisor
    BY <1>13, SupervisorLearns DEF ReadSupervisor, Shaped
  <1>14. CASE ReadSummary
    BY <1>14, ReadSummaryLearns DEF Shaped
  <1>15. CASE ReadConfig \/ ReadTraces \/ ReadFallback
    <2>1. at \in {"config", "traces", "fallback"}
      BY <1>15 DEF ReadConfig, ReadTraces, ReadFallback
    <2> QED BY <1>15, <2>1, FieldLearns DEF Shaped, OfAutomation
  <1>16. CASE ResolveDependencies
    BY <1>16, ResolveDependenciesLearns DEF Shaped
  <1>17. CASE ReadDependency
    <2>1. at = "dependency" /\ (in' = in \/ Changes({"deps", "tries", "readErr"}))
      BY <1>17, ReadDependencyIs
    <2> QED BY <2>1
  <1> QED BY <1>1, <1>2, <1>3, <1>4, <1>5, <1>6, <1>7, <1>8, <1>9, <1>10, <1>11, <1>12, <1>13,
             <1>14, <1>15, <1>16, <1>17 DEF Next

-----------------------------------------------------------------------------
(* What the profile denies is told.                                        *)

(* The entities asked of only become more.                                 *)
LEMMA TakeKeeps ==
    ASSUME Typed, NEW got, NEW id, Take(got, id)
    PROVE  ToSet(asked) \subseteq ToSet(asked')
  <1> DEFINE V == Askable \cup {id}
  <1>1. asked \in Seq(V) /\ id \in V
    BY SeqWidens DEF Typed
  <1> HIDE DEF V
  <1>2. ToSet(Append(asked, id)) = ToSet(asked) \cup {id}
    BY <1>1, AppendIs
  <1> QED BY <1>2 DEF Take

LEMMA AskedGrows ==
    ASSUME Order, Shaped, Next
    PROVE  ToSet(asked) \subseteq ToSet(asked')
  <1>1. CASE ReadHistory
    BY <1>1, TakeKeeps DEF ReadHistory, Shaped
  <1>2. CASE ReadOutage
    BY <1>2, ReadOutageLearns
  <1>3. CASE ReadMetric
    BY <1>3, ReadMetricLearns
  <1>4. CASE ReadDependency
    BY <1>4, TakeKeeps DEF ReadDependency, Shaped, Quiet
  <1>5. CASE ~ReadHistory /\ ~ReadOutage /\ ~ReadMetric /\ ~ReadDependency
    BY <1>5, QuietLearns DEF AsksNothing
  <1> QED BY <1>1, <1>2, <1>3, <1>4, <1>5

(* What a deny profile leaves out is noted before the first outage is read *)
(* and is still in the list that the caller is given.                      *)
AfterOutages == {"outage", "mesh", "metric", "restarts", "restart", "repairs", "supervisor", "analyse"}
Denied == Readable # Names(in.rows) => <<"outages", "policy_denied">> \in ToSet(in.missing)
Denials ==
    tool = "integration" =>
        /\ at \in AfterOutages => Denied
        /\ end = "answered" => Denied /\ ToSet(in.missing) \subseteq ToSet(answer.missing)

(* The answer about an integration keeps what the reads noted.             *)
LEMMA IntegrationKeepsNotes ==
    ASSUME Typed
    PROVE  ToSet(in.missing) \subseteq ToSet(AnalyzeIntegrationHealth(in).missing)
  <1> DEFINE i == in
             m == in.missing
  <1>1. PICK more : (\E W : more \in Seq(W)) /\ HandsOn(AnalyzeIntegrationHealth(i), i, more)
    BY IntegrationAnswers
  <1>2. PICK W : more \in Seq(W)
    BY <1>1
  <1>3. AnalyzeIntegrationHealth(in).missing = m \o more
    BY <1>1 DEF HandsOn
  <1> DEFINE V == Note \cup W
  <1>4. m \in Seq(Note)
    BY DEF Typed
  <1> HIDE DEF m, Note
  <1>5. m \in Seq(V) /\ more \in Seq(V)
    BY <1>2, <1>4, SeqWidens
  <1> HIDE DEF V
  <1>6. ToSet(m \o more) = ToSet(m) \cup ToSet(more)
    BY <1>5, Joined
  <1> QED BY <1>3, <1>6 DEF m

LEMMA DeniedKept ==
    ASSUME Keep, in'.rows = in.rows, ToSet(in.missing) \subseteq ToSet(in'.missing), Denied
    PROVE  Denied'
  BY ReadableKept DEF Denied, Names

(* The tool and the profile are those the call began with.                 *)
LEMMA NextKeeps == Next => Keep
  <1> USE DEF Keep
  <1>1. Begin \/ ReadHistory \/ ReadRegistry \/ ReadRepairs \/ ResolveIntegration \/ ReadUnavailable => Keep
    BY DEF Begin, ReadHistory, ReadRegistry, ReadRepairs, ResolveIntegration, ReadUnavailable,
           ReadSource, NotConfigured
  <1>2. ChooseOutages \/ ReadOutage \/ ChooseMesh \/ ReadMetric \/ ChooseRestarts \/ ReadRestart => Keep
    BY DEF ChooseOutages, ReadOutage, ChooseMesh, ReadMetric, ChooseRestarts, ReadRestart
  <1>3. ReadSupervisor \/ ReadSummary \/ ReadConfig \/ ReadTraces \/ ReadFallback => Keep
    BY DEF ReadSupervisor, ReadSummary, ReadConfig, ReadTraces, ReadFallback,
           ReadSource, NotConfigured, ReadField
  <1>4. ResolveDependencies \/ ReadDependency \/ Analyse \/ Ended => Keep
    BY DEF ResolveDependencies, ReadDependency, Analyse, Ended, vars
  <1> QED BY <1>1, <1>2, <1>3, <1>4 DEF Next

LEMMA NextDenials == Order /\ Shaped /\ Staged /\ Routed /\ Denials /\ [Next]_vars => Denials'
  <1> SUFFICES ASSUME Order, Shaped, Staged, Routed, Denials, [Next]_vars PROVE Denials'
    OBVIOUS
  <1>1. CASE UNCHANGED vars \/ Ended
    <2>1. tool' = tool /\ at' = at /\ end' = end /\ in' = in /\ answer' = answer /\ Keep
      BY <1>1 DEF vars, Ended, Keep
    <2>2. Denied => Denied'
      BY <2>1, DeniedKept
    <2> QED BY <2>1, <2>2 DEF Denials
  <1>2. CASE Next /\ ~Ended
    <2>1. Moves /\ Keeps /\ Keep /\ tool' = tool
      BY <1>2, NextMoves, StepKeeps, NextKeeps DEF Keep
    <2>2. CASE tool # "integration"
      BY <2>1, <2>2 DEF Denials
    <2>3. CASE tool = "integration" /\ at = "analyse"
      <3>1. Analyse /\ Denied /\ in' = in
        BY <1>2, <2>3, Guards DEF Denials, AfterOutages, Analyse
      <3>2. Denied' /\ at' = "done"
        BY <2>1, <3>1, DeniedKept DEF Analyse
      <3>3. end' = "answered" => answer' = AnalyzeIntegrationHealth(in)
        BY <2>3, <3>1 DEF Analyse, End
      <3> QED BY <2>1, <2>3, <3>1, <3>2, <3>3, IntegrationKeepsNotes DEF Denials, AfterOutages, Shaped
    <2>4. CASE tool = "integration" /\ at # "analyse"
      <3>1. end' # "answered"
        <4>1. ~Analyse
          BY <2>4 DEF Analyse
        <4> QED BY <1>2, <4>1, OnlyTheAnalysisAnswers
      <3>2. CASE at = "outages"
        <4>1. Adds(in', in, Readable # Names(in.rows), <<"outages", "policy_denied">>)
          BY <1>2, <3>2, Guards, ChooseOutagesIs
        <4>2. in'.rows = in.rows /\ Readable' = Readable
          BY <2>1, <3>2, ReadableKept DEF Keeps
        <4>3. Denied'
          BY <4>1, <4>2 DEF Denied, Adds, Names
        <4> QED BY <3>1, <4>3 DEF Denials
      <3>3. CASE at \in AfterOutages
        <4>1. in'.rows = in.rows /\ ToSet(in.missing) \subseteq ToSet(in'.missing) /\ Denied
          BY <2>1, <2>4, <3>3 DEF Keeps, Denials, AfterOutages
        <4> QED BY <2>1, <3>1, <4>1, DeniedKept DEF Denials
      <3>4. CASE at \notin AfterOutages \cup {"outages"}
        <4>1. at' \notin AfterOutages
          BY <2>1, <2>4, <3>4 DEF Moves, Routed, Staged, Places, AfterOutages
        <4> QED BY <3>1, <4>1 DEF Denials
      <3> QED BY <3>2, <3>3, <3>4
    <2> QED BY <2>2, <2>3, <2>4
  <1> QED BY <1>1, <1>2

-----------------------------------------------------------------------------
(* What is down is asked of first.                                         *)

(* The loop over the outages: what is down comes first, and either all     *)
(* that is left is down or all that is down is asked of or left.           *)
DownLeads(seq, down) ==
    \A i, j \in DOMAIN seq : i < j /\ seq[j] \in down => seq[i] \in down
DownLeft ==
    at = "outage" =>
        /\ DownLeads(todo, in.down)
        /\ \/ ToSet(todo) \subseteq in.down
           \/ \A id \in in.down : Permitted(id) => id \in ToSet(asked) \cup ToSet(todo)
InTurn == DownLeft /\ DownReadFirst

LEMMA CutLeads ==
    ASSUME NEW V, NEW s \in Seq(V), NEW n \in Nat, NEW down,
           \A i, j \in 1 .. Len(s) : i < j /\ s[j] \in down => s[i] \in down
    PROVE  /\ DownLeads(Cut(s, n), down)
           /\ \/ ToSet(Cut(s, n)) \subseteq down
              \/ \A id \in down : (\E i \in 1 .. Len(s) : s[i] = id) => id \in ToSet(Cut(s, n))
  <1> DEFINE c == Cut(s, n)
  <1>1. /\ c \in Seq(V) /\ Len(c) \in Nat /\ Len(c) <= Len(s) /\ DOMAIN c = 1 .. Len(c)
        /\ \A i \in 1 .. Len(c) : c[i] = s[i]
    BY CutIs
  <1> HIDE DEF c
  <1>2. \A i \in 1 .. Len(c) : i \in 1 .. Len(s)
    BY <1>1
  <1>3. DownLeads(c, down)
    BY <1>1, <1>2 DEF DownLeads
  <1>4. ASSUME NEW k \in 1 .. Len(c), c[k] \notin down, NEW i \in 1 .. Len(s), s[i] \in down
        PROVE  s[i] \in ToSet(c)
    <2>1. s[k] \notin down /\ k \in 1 .. Len(s)
      BY <1>1, <1>2, <1>4
    <2>2. ~(k < i) /\ k # i
      BY <1>4, <2>1
    <2>3. i \in 1 .. Len(c)
      BY <1>1, <2>2
    <2> QED BY <1>1, <2>3 DEF ToSet
  <1>5. ToSet(c) \subseteq down \/ \E k \in 1 .. Len(c) : c[k] \notin down
    BY <1>1 DEF ToSet
  <1>6. \/ ToSet(c) \subseteq down
        \/ \A id \in down : (\E i \in 1 .. Len(s) : s[i] = id) => id \in ToSet(c)
    BY <1>4, <1>5
  <1> QED BY <1>3, <1>6 DEF c

LEMMA ChooseOutagesTurn ==
    ASSUME Shaped, ChooseOutages, in'.down = in.down
    PROVE  DownLeft'
  <1> DEFINE chosen == DownFirst(Readable, in.down)
             cut == Cut(chosen, MaxClusterEntities)
  <1>1. Typed /\ Keep /\ asked' = asked
    BY DEF ChooseOutages, Quiet, Shaped
  <1>2. /\ chosen \in Seq(Readable)
        /\ \A id \in Readable : \E i \in 1 .. Len(chosen) : chosen[i] = id
        /\ \A i, j \in 1 .. Len(chosen) : i < j /\ chosen[j] \in in.down => chosen[i] \in in.down
    BY <1>1, ChosenIs
  <1>3. at' = "outage" => todo' = cut
    BY ChooseOutagesIs DEF Loop
  <1> HIDE DEF chosen
  <1>4. /\ DownLeads(cut, in.down)
        /\ \/ ToSet(cut) \subseteq in.down
           \/ \A id \in in.down : (\E i \in 1 .. Len(chosen) : chosen[i] = id) => id \in ToSet(cut)
    BY <1>2, CutLeads, CapAssumption
  <1>5. \A id \in in.down : Permitted(id) => id \in Readable
    BY <1>1 DEF Typed, Readable
  <1>6. \A id : Permitted(id)' <=> Permitted(id)
    BY <1>1, ScopeKept
  <1> HIDE DEF cut
  <1>7. \/ ToSet(cut) \subseteq in.down
        \/ \A id \in in.down : Permitted(id) => id \in ToSet(asked) \cup ToSet(cut)
    BY <1>2, <1>4, <1>5
  <1> QED BY <1>1, <1>3, <1>4, <1>6, <1>7 DEF DownLeft

LEMMA ReadOutageTurn ==
    ASSUME Order, Shaped, InTurn, ReadOutage, in'.down = in.down, Keep
    PROVE  InTurn'
  <1>1. at = "outage" /\ DownLeft /\ DownReadFirst /\ ToSet(asked) \subseteq ToSet(asked')
    BY ReadOutageLearns DEF ReadOutage, InTurn
  <1>2. \A id : Permitted(id)' <=> Permitted(id)
    BY ScopeKept
  <1>3. CASE in'.outages = in.outages /\ Reached("mesh", Noted("outages")')
    BY <1>1, <1>2, <1>3 DEF InTurn, DownLeft, DownReadFirst, Reached
  <1>4. ASSUME NEW leg \in Legs, leg.entity.id = Head(todo), in'.outages = Append(in.outages, leg),
               Loop(Tail(todo), "outage", "mesh"), Head(todo) \in ToSet(asked')
        PROVE  InTurn'
    <2> DEFINE t == Tail(todo)
    <2>1. todo \in Seq(Readable) \ {<<>>}
      BY <1>1 DEF Shaped, Pending
    <2>2. /\ t \in Seq(Readable) /\ Len(t) = Len(todo) - 1 /\ Head(todo) = todo[1]
          /\ \A i \in 1 .. Len(t) : t[i] = todo[i + 1]
          /\ ToSet(todo) = {Head(todo)} \cup ToSet(t)
      BY <2>1, TailIs
    <2>3. /\ DOMAIN todo = 1 .. Len(todo) /\ DOMAIN t = 1 .. Len(t) /\ Len(t) \in Nat
          /\ 1 \in DOMAIN todo /\ \A i \in 1 .. Len(t) : i + 1 \in 1 .. Len(todo)
      BY <2>1, <2>2
    <2> HIDE DEF t
    <2>4. DownLeads(t, in.down)
      <3>1. DownLeads(todo, in.down)
        BY <1>1 DEF DownLeft
      <3>2. ASSUME NEW i \in 1 .. Len(t), NEW j \in 1 .. Len(t), i < j, t[j] \in in.down
            PROVE  t[i] \in in.down
        <4>1. i + 1 < j + 1 /\ i + 1 \in DOMAIN todo /\ j + 1 \in DOMAIN todo
          BY <2>3, <3>2
        <4>2. t[i] = todo[i + 1] /\ t[j] = todo[j + 1]
          BY <2>2, <3>2
        <4>3. todo[i + 1] \in in.down
          BY <3>1, <3>2, <4>1, <4>2 DEF DownLeads
        <4> QED BY <4>2, <4>3
      <3> QED BY <2>3, <3>2 DEF DownLeads
    <2>5. Head(todo) \in in.down \/ ToSet(t) \cap in.down = {}
      <3>1. \A i \in 1 .. Len(t) : todo[i + 1] \in in.down => todo[1] \in in.down
        BY <1>1, <2>3 DEF DownLeft, DownLeads
      <3> QED BY <2>2, <2>3, <3>1 DEF ToSet
    <2>6. \/ ToSet(todo) \subseteq in.down
          \/ \A id \in in.down : Permitted(id) => id \in ToSet(asked) \cup ToSet(todo)
      BY <1>1 DEF DownLeft
    <2>7. \/ ToSet(t) \subseteq in.down
          \/ \A id \in in.down : Permitted(id) => id \in ToSet(asked') \cup ToSet(t)
      BY <1>1, <1>4, <2>2, <2>6
    <2>8. DownLeft'
      BY <1>2, <1>4, <2>4, <2>7 DEF DownLeft, Loop, t
    <2>9. Head(todo) \in in.down \/ \A id \in in.down : Permitted(id) => id \in ToSet(asked')
      BY <1>1, <2>2, <2>5, <2>6
    <2>10. DownReadFirst'
      <3> DEFINE o == in.outages
                 u == Append(o, leg)
      <3>1. o \in Seq(Legs)
        BY DEF Shaped, Typed
      <3> HIDE DEF o
      <3>2. DOMAIN o = 1 .. Len(o) /\ DOMAIN u = 1 .. (Len(o) + 1) /\ u[Len(o) + 1] = leg
            /\ Len(o) \in Nat /\ \A i \in 1 .. Len(o) : u[i] = o[i]
        BY <3>1
      <3> HIDE DEF u
      <3>3. \A i \in 1 .. (Len(o) + 1) : i \in 1 .. Len(o) \/ i = Len(o) + 1
        BY <3>2
      <3>4. \A i \in DOMAIN o : \/ o[i].entity.id \in in.down
                                \/ \A id \in in.down : Permitted(id) => id \in ToSet(asked')
        BY <1>1 DEF DownReadFirst, o
      <3>5. \A i \in DOMAIN u : \/ u[i].entity.id \in in.down
                                \/ \A id \in in.down : Permitted(id) => id \in ToSet(asked')
        BY <1>4, <2>9, <3>2, <3>3, <3>4
      <3>6. in'.outages = u
        BY <1>4 DEF u, o
      <3> QED BY <1>2, <3>5, <3>6 DEF DownReadFirst
    <2> QED BY <2>8, <2>10 DEF InTurn
  <1> QED BY <1>3, <1>4, ReadOutageLearns

LEMMA NextInTurn == Order /\ Shaped /\ Staged /\ Routed /\ InTurn /\ [Next]_vars => InTurn'
  <1> SUFFICES ASSUME Order, Shaped, Staged, Routed, InTurn, [Next]_vars PROVE InTurn'
    OBVIOUS
  <1>1. CASE UNCHANGED vars \/ Ended
    <2>1. at' = at /\ in' = in /\ todo' = todo /\ asked' = asked /\ Keep
      BY <1>1 DEF vars, Ended, Keep
    <2> QED BY <2>1, ScopeKept DEF InTurn, DownLeft, DownReadFirst
  <1>2. CASE Next /\ ~Ended
    <2>1. Moves /\ Keeps /\ Keep /\ ToSet(asked) \subseteq ToSet(asked')
      BY <1>2, NextMoves, StepKeeps, NextKeeps, AskedGrows
    <2>2. \A id : Permitted(id)' <=> Permitted(id)
      BY <2>1, ScopeKept
    <2>3. CASE at = "outage"
      BY <1>2, <2>1, <2>3, Guards, ReadOutageTurn DEF Keeps
    <2>4. CASE at # "outage"
      <3>1. at' = "outage" => at = "outages"
        BY <2>1, <2>4 DEF Moves, Staged, Places
      <3>2. in'.outages = in.outages
        BY <2>1, <2>4 DEF Keeps
      <3>3. DownLeft'
        <4>1. CASE at = "outages"
          BY <1>2, <2>1, <4>1, Guards, ChooseOutagesTurn DEF Keeps
        <4>2. CASE at # "outages"
          BY <3>1, <4>2 DEF DownLeft
        <4> QED BY <4>1, <4>2
      <3>4. DownReadFirst'
        <4>1. CASE at = "available"
          <5>1. in'.outages = <<>>
            BY <3>2, <4>1 DEF Shaped, Unstarted, BeforeOutages
          <5> QED BY <5>1 DEF DownReadFirst
        <4>2. CASE at # "available"
          <5>1. in'.down = in.down
            BY <2>1, <4>2 DEF Keeps
          <5> QED BY <2>1, <2>2, <3>2, <5>1 DEF DownReadFirst, InTurn
        <4> QED BY <4>1, <4>2
      <3> QED BY <3>3, <3>4 DEF InTurn
    <2> QED BY <2>3, <2>4
  <1> QED BY <1>1, <1>2

(* A composite tool reads only what its profile allows and its budget pays *)
(* for, what is down first, and ends for a failure only when its caller    *)
(* has left; and the caller is told what the profile left out.             *)
THEOREM ReadsKeepDiscipline == Spec => []ReadsAreDisciplined
  <1>1. Init => Staged /\ Routed /\ Denials /\ InTurn
    <2> SUFFICES ASSUME Init PROVE Staged /\ Routed /\ Denials /\ InTurn
      OBVIOUS
    <2>1. at = "begin" /\ end = "running" /\ answer = <<>> /\ in.outages = <<>>
      BY DEF Init, EmptyInput
    <2> QED BY <2>1 DEF Staged, Places, Routed, OfIntegration, Denials, AfterOutages,
                      InTurn, DownLeft, DownReadFirst
  <1>2. Order /\ Shaped /\ Paid /\ Denials /\ InTurn => ReadsAreDisciplined
    <2> SUFFICES ASSUME Order, Shaped, Paid, Denials, InTurn PROVE ReadsAreDisciplined
      OBVIOUS
    <2>1. OnlyTheCallerAborts /\ Within(used, Limits)
      BY DEF Order, Orderly, Solvent
    <2>2. OnlyPaidPointsUsed
      BY <2>1 DEF OnlyPaidPointsUsed, Paid, Shown
    <2>3. PrivateNeverAsked
      <3> SUFFICES ASSUME profile = "deny" PROVE
              /\ ToSet(asked) \cap Private = {}
              /\ (end = "answered" /\ tool = "integration" /\ Names(in.rows) \cap Private # {}) =>
                      <<"outages", "policy_denied">> \in ToSet(answer.missing)
        BY DEF PrivateNeverAsked
      <3>1. asked \in Seq(Askable) /\ \A id \in Askable : id \notin Private
        BY DEF Shaped, Typed, Askable, Permitted
      <3>2. ToSet(asked) \cap Private = {}
        BY <3>1 DEF ToSet
      <3>3. Names(in.rows) \cap Private # {} => Readable # Names(in.rows)
        BY DEF Readable, Permitted
      <3> QED BY <3>2, <3>3 DEF Denials, Denied
    <2>4. DownReadFirst
      BY DEF InTurn
    <2> QED BY <2>1, <2>2, <2>3, <2>4 DEF ReadsAreDisciplined
  <1> QED BY <1>1, <1>2, InitOrder, NextOrder, InitShaped, NextShaped, NextStaged, InitPaid, NextPaid,
             NextRouted, NextDenials, NextInTurn, PTL DEF Spec

-----------------------------------------------------------------------------
(* Every source is read or noted.                                          *)

(* The sources that are read once: past the read, its flag or a note.      *)
SourcesHeard ==
    /\ at \in {"supervisor", "analyse"} => in.repairsRead \/ Noted("repairs")
    /\ tool = "entity" =>
        /\ at \in {"registry", "repairs", "analyse"} => in.historyRead \/ Noted("history")
        /\ at \in {"repairs", "analyse"} => in.registryRead \/ Noted("registry")
    /\ tool = "integration" =>
        /\ at \in AfterOutages \cup {"outages"} => in.unavailableRead \/ Noted("availability_now")
        /\ at = "analyse" => in.supervisorRead \/ Noted("supervisor")

LEMMA NotedStays ==
    ASSUME ToSet(in.missing) \subseteq ToSet(in'.missing)
    PROVE  \A what : Noted(what) => Noted(what)'
  BY DEF Noted

LEMMA NextHears == Order /\ Shaped /\ Staged /\ Routed /\ SourcesHeard /\ [Next]_vars => SourcesHeard'
  <1> SUFFICES ASSUME Order, Shaped, Staged, Routed, SourcesHeard, [Next]_vars PROVE SourcesHeard'
    OBVIOUS
  <1>1. CASE UNCHANGED vars \/ Ended
    <2>1. tool' = tool /\ at' = at /\ in' = in
      BY <1>1 DEF vars, Ended
    <2> QED BY <2>1 DEF SourcesHeard, Noted
  <1>2. CASE Next /\ ~Ended
    <2>1. Moves /\ Keeps /\ tool' = tool
      BY <1>2, NextMoves, StepKeeps DEF Moves
    <2>2. \A what : Noted(what) => Noted(what)'
      BY <2>1, NotedStays DEF Keeps
    <2>3. at' \in {"supervisor", "analyse"} => in'.repairsRead \/ Noted("repairs")'
      <3>1. CASE at = "repairs"
        BY <1>2, <3>1, Guards, RepairsLearns DEF Reached, Shaped
      <3>2. CASE at # "repairs" /\ at' \in {"supervisor", "analyse"}
        <4>1. at \in {"supervisor", "analyse"}
          BY <2>1, <3>2 DEF Moves, Staged, Places
        <4>2. in'.repairsRead = in.repairsRead
          BY <2>1, <3>2 DEF Keeps
        <4> QED BY <2>2, <4>1, <4>2 DEF SourcesHeard
      <3> QED BY <3>1, <3>2
    <2>4. tool = "entity" /\ at' \in {"registry", "repairs", "analyse"} => in'.historyRead \/ Noted("history")'
      <3>1. CASE at = "history"
        BY <1>2, <2>1, <3>1, Guards, ReadHistoryLearns DEF Reached, Moves
      <3>2. CASE at # "history" /\ tool = "entity" /\ at' \in {"registry", "repairs", "analyse"}
        <4>1. at \in {"registry", "repairs", "analyse"}
          BY <2>1, <3>2 DEF Moves, Staged, Places, Routed, OfIntegration
        <4>2. in'.historyRead = in.historyRead
          BY <2>1, <3>2 DEF Keeps
        <4> QED BY <2>2, <3>2, <4>1, <4>2 DEF SourcesHeard
      <3> QED BY <3>1, <3>2
    <2>5. tool = "entity" /\ at' \in {"repairs", "analyse"} => in'.registryRead \/ Noted("registry")'
      <3>1. CASE at = "registry"
        BY <1>2, <2>1, <3>1, Guards, RegistryLearns DEF Reached, Moves, Shaped
      <3>2. CASE at # "registry" /\ tool = "entity" /\ at' \in {"repairs", "analyse"}
        <4>1. at \in {"repairs", "analyse"}
          BY <2>1, <3>2 DEF Moves, Staged, Places, Routed, OfIntegration
        <4>2. in'.registryRead = in.registryRead
          BY <2>1, <3>2 DEF Keeps
        <4> QED BY <2>2, <3>2, <4>1, <4>2 DEF SourcesHeard
      <3> QED BY <3>1, <3>2
    <2>6. tool = "integration" /\ at' \in AfterOutages \cup {"outages"}
            => in'.unavailableRead \/ Noted("availability_now")'
      <3>1. CASE at = "available"
        BY <1>2, <2>1, <3>1, Guards, UnavailableLearns DEF Reached, Moves, Shaped, AfterOutages
      <3>2. CASE at # "available" /\ tool = "integration" /\ at' \in AfterOutages \cup {"outages"}
        <4>1. at \in AfterOutages \cup {"outages"}
          BY <2>1, <3>2 DEF Moves, Staged, Places, Routed, OfIntegration, AfterOutages
        <4>2. in'.unavailableRead = in.unavailableRead
          BY <2>1, <3>2 DEF Keeps
        <4> QED BY <2>2, <3>2, <4>1, <4>2 DEF SourcesHeard
      <3> QED BY <3>1, <3>2
    <2>7. tool = "integration" /\ at' = "analyse" => in'.supervisorRead \/ Noted("supervisor")'
      <3>1. CASE at = "supervisor"
        BY <1>2, <2>1, <3>1, Guards, SupervisorLearns DEF Reached, Moves, Shaped
      <3>2. CASE at # "supervisor" /\ tool = "integration" /\ at' = "analyse"
        BY <2>1, <3>2 DEF Moves, Staged, Places, Routed, OfIntegration
      <3> QED BY <3>1, <3>2
    <2> QED BY <2>1, <2>3, <2>4, <2>5, <2>6, <2>7 DEF SourcesHeard
  <1> QED BY <1>1, <1>2

(* The loops over the outages and over the restarts: what is read, what is *)
(* left and what is noted are all of it.                                   *)
ReadIds == {o.entity.id : o \in ToSet(in.outages)}
Probed == {p.onset : p \in ToSet(in.probes)}
OutagesHeard ==
    tool = "integration" =>
        /\ at = "outage" => ReadIds \cup ToSet(todo) = Names(in.rows) \/ Noted("outages")
        /\ at \in AfterOutages \ {"outage"} => ReadIds = Names(in.rows) \/ Noted("outages")
RestartsHeard ==
    tool = "integration" =>
        /\ at = "restart" => Probed \cup ToSet(todo) = Onsets \/ Noted("restarts")
        /\ at \in {"repairs", "supervisor", "analyse"} => Probed = Onsets \/ Noted("restarts")

LEMMA ChooseOutagesHeard ==
    ASSUME Shaped, ChooseOutages, in'.outages = in.outages, in'.rows = in.rows
    PROVE  /\ at' = "outage" => ReadIds' \cup ToSet(todo') = Names(in'.rows) \/ Noted("outages")'
           /\ at' = "mesh" => ReadIds' = Names(in'.rows) \/ Noted("outages")'
  <1> DEFINE chosen == DownFirst(Readable, in.down)
             cut == Cut(chosen, MaxClusterEntities)
  <1>1. at = "outages" /\ Typed /\ in.outages = <<>>
    BY DEF ChooseOutages, Shaped, Unstarted, BeforeOutages
  <1>2. ReadIds' = {}
    BY <1>1 DEF ReadIds, ToSet
  <1>3. CASE ~Noted("outages")'
    <2>1. "policy_denied" \in Reasons /\ "budget_exceeded" \in Reasons
      BY DEF Reasons
    <2>2. Readable = Names(in.rows) /\ ~(Len(chosen) > MaxClusterEntities)
      BY <1>3, <2>1, ChooseOutagesIs DEF Adds, Noted
    <2>3. chosen \in Seq(Readable) /\ \A id \in Readable : \E i \in 1 .. Len(chosen) : chosen[i] = id
      BY <1>1, ChosenIs
    <2>4. Loop(cut, "outage", "mesh")
      BY ChooseOutagesIs
    <2> HIDE DEF chosen
    <2>5. cut = chosen
      BY <2>2, <2>3, CutIs, CapAssumption
    <2>6. ToSet(chosen) = Readable
      BY <2>3 DEF ToSet
    <2>7. chosen = <<>> => Readable = {}
      BY <2>6 DEF ToSet
    <2> QED BY <1>2, <2>2, <2>4, <2>5, <2>6, <2>7 DEF Loop
  <1> QED BY <1>3

LEMMA ReadOutageHeard ==
    ASSUME Order, Shaped, OutagesHeard, ReadOutage, tool = "integration", in'.rows = in.rows
    PROVE  /\ at' = "outage" => ReadIds' \cup ToSet(todo') = Names(in'.rows) \/ Noted("outages")'
           /\ at' = "mesh" => ReadIds' = Names(in'.rows) \/ Noted("outages")'
  <1>1. at = "outage" /\ Typed /\ \A what : Noted(what) => Noted(what)'
    BY NotedStays, ReadOutageLearns DEF ReadOutage, Shaped, Learns
  <1>2. CASE Reached("mesh", Noted("outages")')
    BY <1>2 DEF Reached
  <1>3. ASSUME NEW leg \in Legs, leg.entity.id = Head(todo), in'.outages = Append(in.outages, leg),
               Loop(Tail(todo), "outage", "mesh")
        PROVE  /\ at' = "outage" => ReadIds' \cup ToSet(todo') = Names(in'.rows) \/ Noted("outages")'
               /\ at' = "mesh" => ReadIds' = Names(in'.rows) \/ Noted("outages")'
    <2> DEFINE o == in.outages
    <2>1. o \in Seq(Legs)
      BY <1>1 DEF Typed
    <2> HIDE DEF o
    <2>2. ToSet(Append(o, leg)) = ToSet(o) \cup {leg}
      BY <2>1, AppendIs
    <2>3. ReadIds' = ReadIds \cup {Head(todo)}
      BY <1>3, <2>2 DEF ReadIds, o
    <2>4. ToSet(todo) = {Head(todo)} \cup ToSet(Tail(todo))
      BY <1>1, HeadIs
    <2>5. Tail(todo) = <<>> => ToSet(Tail(todo)) = {}
      BY DEF ToSet
    <2>6. ReadIds \cup ToSet(todo) = Names(in.rows) \/ Noted("outages")
      BY <1>1 DEF OutagesHeard
    <2> QED BY <1>1, <1>3, <2>3, <2>4, <2>5, <2>6 DEF Loop
  <1> QED BY <1>2, <1>3, ReadOutageLearns

LEMMA NextHearsOutages == Order /\ Shaped /\ Staged /\ Routed /\ OutagesHeard /\ [Next]_vars => OutagesHeard'
  <1> SUFFICES ASSUME Order, Shaped, Staged, Routed, OutagesHeard, [Next]_vars PROVE OutagesHeard'
    OBVIOUS
  <1>1. CASE UNCHANGED vars \/ Ended
    <2>1. tool' = tool /\ at' = at /\ in' = in /\ todo' = todo
      BY <1>1 DEF vars, Ended
    <2> QED BY <2>1 DEF OutagesHeard, Noted, ReadIds
  <1>2. CASE Next /\ ~Ended
    <2>1. Moves /\ Keeps /\ tool' = tool
      BY <1>2, NextMoves, StepKeeps DEF Moves
    <2>2. \A what : Noted(what) => Noted(what)'
      BY <2>1, NotedStays DEF Keeps
    <2> SUFFICES ASSUME tool = "integration"
                 PROVE  /\ at' = "outage" => ReadIds' \cup ToSet(todo') = Names(in'.rows) \/ Noted("outages")'
                        /\ at' \in AfterOutages \ {"outage"} => ReadIds' = Names(in'.rows) \/ Noted("outages")'
      BY <2>1 DEF OutagesHeard
    <2>3. CASE at = "outages"
      BY <1>2, <2>1, <2>3, Guards, ChooseOutagesHeard DEF Keeps, Moves, AfterOutages
    <2>4. CASE at = "outage"
      BY <1>2, <2>1, <2>4, Guards, ReadOutageHeard DEF Keeps, Moves, AfterOutages
    <2>5. CASE at \notin {"outages", "outage"}
      <3>1. at' # "outage" /\ (at' \in AfterOutages => at \in AfterOutages \ {"outage"})
        BY <2>1, <2>5 DEF Moves, Staged, Places, Routed, OfIntegration, AfterOutages
      <3>2. CASE at' \in AfterOutages
        <4>1. in'.outages = in.outages /\ in'.rows = in.rows
          BY <2>1, <2>5, <3>1, <3>2 DEF Keeps, AfterOutages
        <4>2. ReadIds' = ReadIds
          BY <4>1 DEF ReadIds
        <4> QED BY <2>2, <3>1, <3>2, <4>1, <4>2 DEF OutagesHeard
      <3> QED BY <3>1, <3>2
    <2> QED BY <2>3, <2>4, <2>5
  <1> QED BY <1>1, <1>2

LEMMA ChooseRestartsHeard ==
    ASSUME Shaped, ChooseRestarts, Onsets' = Onsets, in'.probes = in.probes
    PROVE  /\ at' = "restart" => Probed' \cup ToSet(todo') = Onsets' \/ Noted("restarts")'
           /\ at' = "repairs" => Probed' = Onsets' \/ Noted("restarts")'
  <1> DEFINE onsets == OutageOnsets(Clusters(in))
             cut == Cut(onsets, MaxRestartProbes)
  <1>1. at = "restarts" /\ Typed /\ in.probes = <<>>
    BY DEF ChooseRestarts, Shaped, Unstarted, BeforeRestarts
  <1>2. Probed' = {}
    BY <1>1 DEF Probed, ToSet
  <1>3. CASE Loop(cut, "restart", "repairs") /\ ~(Len(onsets) > MaxRestartProbes)
    <2>1. onsets \in Seq(Onsets) /\ ToSet(onsets) = Onsets
      BY <1>1, OnsetsAre
    <2> HIDE DEF onsets
    <2>2. cut = onsets
      BY <1>3, <2>1, CutIs, CapAssumption
    <2>3. onsets = <<>> => Onsets = {}
      BY <2>1 DEF ToSet
    <2> QED BY <1>2, <1>3, <2>1, <2>2, <2>3 DEF Loop
  <1>4. CASE Noted("restarts")'
    BY <1>4
  <1>5. CASE Reached("repairs", Noted("restarts")')
    BY <1>5 DEF Reached
  <1> QED BY <1>3, <1>4, <1>5, ChooseRestartsLearns

LEMMA ReadRestartHeard ==
    ASSUME Shaped, RestartsHeard, ReadRestart, tool = "integration", Onsets' = Onsets
    PROVE  /\ at' = "restart" => Probed' \cup ToSet(todo') = Onsets' \/ Noted("restarts")'
           /\ at' = "repairs" => Probed' = Onsets' \/ Noted("restarts")'
  <1>1. at = "restart" /\ Typed /\ \A what : Noted(what) => Noted(what)'
    BY NotedStays, ReadRestartLearns DEF ReadRestart, Shaped, Learns
  <1>2. CASE Reached("repairs", Noted("restarts")')
    BY <1>2 DEF Reached
  <1>3. ASSUME NEW probe, probe.onset = Head(todo), in'.probes = Append(in.probes, probe),
               probe \in [onset : Onsets, events : {0, 2}], Loop(Tail(todo), "restart", "repairs")
        PROVE  /\ at' = "restart" => Probed' \cup ToSet(todo') = Onsets' \/ Noted("restarts")'
               /\ at' = "repairs" => Probed' = Onsets' \/ Noted("restarts")'
    <2> DEFINE P == [onset : Onsets, events : {0, 2}]
               p == in.probes
    <2>1. p \in Seq(P) /\ probe \in P
      BY <1>1, <1>3 DEF Typed
    <2> HIDE DEF P, p
    <2>2. ToSet(Append(p, probe)) = ToSet(p) \cup {probe}
      BY <2>1, AppendIs
    <2>3. Probed' = Probed \cup {Head(todo)}
      BY <1>3, <2>2 DEF Probed, p
    <2>4. ToSet(todo) = {Head(todo)} \cup ToSet(Tail(todo))
      <3>1. todo \in Seq(Onsets) \ {<<>>}
        BY <1>1 DEF Shaped, Pending
      <3> QED BY <3>1, TailIs
    <2>5. Tail(todo) = <<>> => ToSet(Tail(todo)) = {}
      BY DEF ToSet
    <2>6. Probed \cup ToSet(todo) = Onsets \/ Noted("restarts")
      BY <1>1 DEF RestartsHeard
    <2> QED BY <1>1, <1>3, <2>3, <2>4, <2>5, <2>6 DEF Loop
  <1> QED BY <1>2, <1>3, ReadRestartLearns

LEMMA NextHearsRestarts == Order /\ Shaped /\ Staged /\ Routed /\ RestartsHeard /\ [Next]_vars => RestartsHeard'
  <1> SUFFICES ASSUME Order, Shaped, Staged, Routed, RestartsHeard, [Next]_vars PROVE RestartsHeard'
    OBVIOUS
  <1>1. CASE UNCHANGED vars \/ Ended
    <2>1. tool' = tool /\ at' = at /\ in' = in /\ todo' = todo
      BY <1>1 DEF vars, Ended
    <2>2. Onsets' = Onsets
      BY <2>1, OnsetsKept
    <2> QED BY <2>1, <2>2 DEF RestartsHeard, Noted, Probed
  <1>2. CASE Next /\ ~Ended
    <2>1. Moves /\ Keeps /\ tool' = tool
      BY <1>2, NextMoves, StepKeeps DEF Moves
    <2>2. \A what : Noted(what) => Noted(what)'
      BY <2>1, NotedStays DEF Keeps
    <2>3. at \notin {"resolve", "outage"} => Onsets' = Onsets
      BY <2>1, OnsetsKept DEF Keeps
    <2> SUFFICES ASSUME tool = "integration"
                 PROVE  /\ at' = "restart" => Probed' \cup ToSet(todo') = Onsets' \/ Noted("restarts")'
                        /\ at' \in {"repairs", "supervisor", "analyse"} => Probed' = Onsets' \/ Noted("restarts")'
      BY <2>1 DEF RestartsHeard
    <2>4. CASE at = "restarts"
      BY <1>2, <2>1, <2>3, <2>4, Guards, ChooseRestartsHeard DEF Keeps, Moves
    <2>5. CASE at = "restart"
      BY <1>2, <2>1, <2>3, <2>5, Guards, ReadRestartHeard DEF Keeps, Moves
    <2>6. CASE at \notin {"restarts", "restart"}
      <3>1. /\ at' # "restart"
            /\ at' \in {"repairs", "supervisor", "analyse"} => at \in {"repairs", "supervisor", "analyse"}
        BY <2>1, <2>6 DEF Moves, Staged, Places, Routed, OfIntegration
      <3>2. CASE at' \in {"repairs", "supervisor", "analyse"}
        <4>1. in'.probes = in.probes /\ Onsets' = Onsets
          BY <2>1, <2>3, <2>6, <3>1, <3>2 DEF Keeps
        <4>2. Probed' = Probed
          BY <4>1 DEF Probed
        <4> QED BY <2>2, <3>1, <3>2, <4>1, <4>2 DEF RestartsHeard
      <3> QED BY <3>1, <3>2
    <2> QED BY <2>4, <2>5, <2>6
  <1> QED BY <1>1, <1>2

(* The loop over what an automation depends on: each entity once, and all  *)
(* that its configuration names are measured or left.                      *)
Depended == {d.entity : d \in ToSet(in.deps)}
DepsHeard ==
    tool = "automation" =>
        /\ Distinct(in.deps)
        /\ at = "dependency" =>
            /\ in.configRead /\ in.depends.entities \subseteq Depended \cup ToSet(todo)
            /\ Depended \cap ToSet(todo) = {}
            /\ \A i, j \in DOMAIN todo : todo[i] = todo[j] => i = j
        /\ at \in {"repairs", "analyse"} =>
            IF in.configRead THEN in.depends.entities \subseteq Depended ELSE in.deps = <<>>

LEMMA ResolveDependenciesHeard ==
    ASSUME Shaped, ResolveDependencies, tool = "automation", tool' = tool, in'.deps = in.deps,
           in'.configRead = in.configRead, in'.depends = in.depends
    PROVE  DepsHeard'
  <1>1. Typed /\ in.deps = <<>>
    BY DEF ResolveDependencies, Shaped, Unstarted, BeforeDependencies
  <1>2. Distinct(in.deps)' /\ Depended' = {} /\ in'.deps = <<>>
    BY <1>1 DEF Distinct, Depended, ToSet
  <1>3. CASE (at' = "repairs" /\ ~in.configRead) \/ at' = "done"
    BY <1>2, <1>3 DEF DepsHeard
  <1>4. ASSUME NEW ids, Resolved(ids), in.configRead
        PROVE  DepsHeard'
    <2> DEFINE s == InOrder(ids)
    <2>1. IsLine(s, ids, {p \in ids \X ids : p[1] < p[2]}) /\ ids \subseteq Int
      BY <1>4, AscendingIsLine DEF Resolved, InOrder
    <2>2. in.depends.entities \subseteq ids /\ Loop(s, "dependency", "repairs")
      BY <1>4 DEF Resolved
    <2> HIDE DEF s
    <2>3. s \in Seq(ids) /\ DOMAIN s = 1 .. Len(s) /\ \A x \in ids : \E i \in 1 .. Len(s) : s[i] = x
      BY <2>1 DEF IsLine
    <2>4. \A i, j \in 1 .. Len(s) : i < j => s[i] < s[j]
      BY <2>1 DEF IsLine
    <2>5. \A i \in 1 .. Len(s) : s[i] \in Int
      <3>1. ids \subseteq Int
        BY <2>1
      <3>2. \A i \in 1 .. Len(s) : s[i] \in ids
        BY <2>3
      <3> QED BY <3>1, <3>2
    <2>6. \A i, j \in DOMAIN s : s[i] = s[j] => i = j
      <3> SUFFICES ASSUME NEW i \in 1 .. Len(s), NEW j \in 1 .. Len(s), s[i] = s[j] PROVE i = j
        BY <2>3
      <3>1. ~(i < j) /\ ~(j < i)
        BY <2>4, <2>5
      <3> QED BY <3>1
    <2>7. ids \subseteq ToSet(s) /\ (s = <<>> => ids = {})
      BY <2>3 DEF ToSet
    <2> QED BY <1>2, <1>4, <2>2, <2>6, <2>7 DEF DepsHeard, Loop
  <1>5. \/ (at' = "repairs" /\ ~in.configRead) \/ at' = "done"
        \/ in.configRead /\ \E ids : Resolved(ids)
    BY <1>1, ResolveDependenciesIs
  <1> QED BY <1>3, <1>4, <1>5

LEMMA DistinctGrows ==
    ASSUME NEW D, NEW deps, deps \in Seq(D), NEW dep \in D, Distinct(deps),
           \A d \in ToSet(deps) : d.entity # dep.entity
    PROVE  Distinct(Append(deps, dep))
  <1> DEFINE n == Len(deps)
             u == Append(deps, dep)
  <1>1. n \in Nat /\ DOMAIN deps = 1 .. n /\ DOMAIN u = 1 .. (n + 1) /\ u[n + 1] = dep
        /\ \A i \in 1 .. n : u[i] = deps[i]
    OBVIOUS
  <1> HIDE DEF n, u
  <1>2. \A i \in 1 .. (n + 1) : i \in 1 .. n \/ i = n + 1
    BY <1>1
  <1>3. \A i \in 1 .. n : deps[i].entity # dep.entity
    BY <1>1 DEF ToSet
  <1>4. \A j, k \in 1 .. n : u[j].entity = u[k].entity => j = k
    BY <1>1 DEF Distinct
  <1>5. \A j \in 1 .. n : u[j].entity # u[n + 1].entity
    BY <1>1, <1>3
  <1>6. Distinct(u)
    BY <1>1, <1>2, <1>4, <1>5 DEF Distinct
  <1> QED BY <1>6 DEF u

LEMMA ReadDependencyHeard ==
    ASSUME Order, Shaped, DepsHeard, ReadDependency, tool = "automation", tool' = tool,
           in'.configRead = in.configRead, in'.depends = in.depends
    PROVE  DepsHeard'
  <1>1. at = "dependency" /\ Typed
    BY DEF ReadDependency, Shaped
  <1>2. CASE in' = in /\ at' = "done"
    BY <1>2 DEF DepsHeard, Distinct
  <1>3. ASSUME NEW dep \in Deps, in'.deps = Append(in.deps, dep), dep.entity = Head(todo),
               Loop(Tail(todo), "dependency", "repairs")
        PROVE  DepsHeard'
    <2> DEFINE d == in.deps
               t == Tail(todo)
    <2>1. d \in Seq(Deps)
      BY <1>1 DEF Typed
    <2>2. todo \in Seq(Int) \ {<<>>}
      BY <1>1 DEF Shaped, Pending
    <2>3. /\ t \in Seq(Int) /\ Len(t) = Len(todo) - 1 /\ Head(todo) = todo[1]
          /\ \A i \in 1 .. Len(t) : t[i] = todo[i + 1]
          /\ ToSet(todo) = {Head(todo)} \cup ToSet(t)
      BY <2>2, TailIs
    <2>4. /\ DOMAIN todo = 1 .. Len(todo) /\ DOMAIN t = 1 .. Len(t) /\ Len(t) \in Nat
          /\ 1 \in 1 .. Len(todo) /\ \A i \in 1 .. Len(t) : i + 1 \in 1 .. Len(todo) /\ i + 1 # 1
      BY <2>2, <2>3
    <2> HIDE DEF d, t, Deps
    <2>5. ToSet(Append(d, dep)) = ToSet(d) \cup {dep}
      BY <2>1, AppendIs
    <2>6. Depended' = Depended \cup {Head(todo)}
      BY <1>3, <2>5 DEF Depended, d
    <2>7. /\ Distinct(in.deps) /\ in.configRead
          /\ in.depends.entities \subseteq Depended \cup ToSet(todo)
          /\ Depended \cap ToSet(todo) = {}
          /\ \A i, j \in DOMAIN todo : todo[i] = todo[j] => i = j
      BY <1>1 DEF DepsHeard
    <2>8. \A x \in ToSet(d) : x.entity # dep.entity
      BY <1>3, <2>3, <2>7 DEF Depended, d
    <2>9. Distinct(Append(d, dep))
      BY <2>1, <2>7, <2>8, DistinctGrows DEF d
    <2>10. \A i, j \in 1 .. Len(t) : t[i] = t[j] => i = j
      <3> SUFFICES ASSUME NEW i \in 1 .. Len(t), NEW j \in 1 .. Len(t), t[i] = t[j] PROVE i = j
        OBVIOUS
      <3>1. i + 1 \in DOMAIN todo /\ j + 1 \in DOMAIN todo
        BY <2>4
      <3>2. todo[i + 1] = todo[j + 1]
        BY <2>3
      <3>3. i + 1 = j + 1
        BY <2>7, <3>1, <3>2
      <3> QED BY <3>3
    <2>11. Head(todo) \notin ToSet(t)
      <3>1. \A i \in 1 .. Len(t) : t[i] # todo[1]
        BY <2>3, <2>4, <2>7
      <3> QED BY <2>3, <2>4, <3>1 DEF ToSet
    <2>12. Distinct(in.deps)'
      BY <1>3, <2>9 DEF d
    <2>13. at' = "dependency" =>
              /\ in.depends.entities \subseteq Depended' \cup ToSet(todo')
              /\ Depended' \cap ToSet(todo') = {}
              /\ \A i, j \in DOMAIN todo' : todo'[i] = todo'[j] => i = j
      <3>1. todo' = t
        BY <1>3 DEF Loop, t
      <3>2. in.depends.entities \subseteq Depended' \cup ToSet(t) /\ Depended' \cap ToSet(t) = {}
        BY <2>3, <2>6, <2>7, <2>11
      <3> QED BY <2>4, <2>10, <3>1, <3>2
    <2>14. at' = "repairs" => in.depends.entities \subseteq Depended'
      <3>1. at' = "repairs" => ToSet(t) = {}
        BY <1>3 DEF Loop, t, ToSet
      <3> QED BY <2>3, <2>6, <2>7, <3>1
    <2>15. at' \in {"dependency", "repairs"}
      BY <1>3 DEF Loop
    <2> QED BY <2>7, <2>12, <2>13, <2>14, <2>15 DEF DepsHeard
  <1> QED BY <1>2, <1>3, ReadDependencyIs

LEMMA NextHearsDeps == Order /\ Shaped /\ Staged /\ Routed /\ DepsHeard /\ [Next]_vars => DepsHeard'
  <1> SUFFICES ASSUME Order, Shaped, Staged, Routed, DepsHeard, [Next]_vars PROVE DepsHeard'
    OBVIOUS
  <1>1. CASE UNCHANGED vars \/ Ended
    <2>1. tool' = tool /\ at' = at /\ in' = in /\ todo' = todo
      BY <1>1 DEF vars, Ended
    <2> QED BY <2>1 DEF DepsHeard, Depended, Distinct
  <1>2. CASE Next /\ ~Ended
    <2>1. Moves /\ Keeps /\ tool' = tool
      BY <1>2, NextMoves, StepKeeps DEF Moves
    <2>2. CASE tool # "automation"
      BY <2>1, <2>2 DEF DepsHeard
    <2>3. CASE tool = "automation" /\ at = "resolve_deps"
      BY <1>2, <2>1, <2>3, Guards, ResolveDependenciesHeard DEF Keeps
    <2>4. CASE tool = "automation" /\ at = "dependency"
      BY <1>2, <2>1, <2>4, Guards, ReadDependencyHeard DEF Keeps
    <2>5. CASE tool = "automation" /\ at \notin {"resolve_deps", "dependency"}
      <3>1. at' # "dependency" /\ (at' \in {"repairs", "analyse"} => at = "repairs")
        BY <2>1, <2>5 DEF Moves, Staged, Places, Routed, OfIntegration
      <3>2. in'.deps = in.deps
        BY <2>1, <2>5 DEF Keeps
      <3>3. Distinct(in.deps)' /\ Depended' = Depended
        BY <2>5, <3>2 DEF DepsHeard, Distinct, Depended
      <3>4. at' \in {"repairs", "analyse"} => in'.configRead = in.configRead /\ in'.depends = in.depends
        BY <2>1, <3>1 DEF Keeps
      <3> QED BY <2>1, <2>5, <3>1, <3>2, <3>3, <3>4 DEF DepsHeard
    <2> QED BY <2>2, <2>3, <2>4, <2>5
  <1> QED BY <1>1, <1>2

-----------------------------------------------------------------------------
(* What is noted is told.                                                  *)

Heard == SourcesHeard /\ OutagesHeard /\ RestartsHeard /\ DepsHeard

(* What the reads noted is told, with what the analysis adds.              *)
Hands(a, more) ==
    /\ a.partial = (a.missing # <<>>)
    /\ ToSet(a.missing) = ToSet(in.missing) \cup ToSet(more)

LEMMA HandsOnIs ==
    ASSUME NEW a, NEW more, NEW W, more \in Seq(W), Typed, HandsOn(a, in, more)
    PROVE  Hands(a, more)
  <1> DEFINE m == in.missing
             V == Note \cup W
  <1>1. a.missing = m \o more /\ a.partial = (m \o more # <<>>)
    BY DEF HandsOn
  <1>2. m \in Seq(Note)
    BY DEF Typed
  <1> HIDE DEF m, Note
  <1>3. m \in Seq(V) /\ more \in Seq(V)
    BY <1>2, SeqWidens
  <1> HIDE DEF V
  <1>4. ToSet(m \o more) = ToSet(m) \cup ToSet(more)
    BY <1>3, Joined
  <1> QED BY <1>1, <1>4 DEF Hands, m

LEMMA ToldIs ==
    ASSUME NEW note \in ToSet(answer'.missing)
    PROVE  Told(note[1])'
  BY DEF Told, ToSet

LEMMA NotedTold ==
    ASSUME ToSet(in.missing) \subseteq ToSet(answer'.missing), NEW what, Noted(what)
    PROVE  Told(what)'
  <1>1. PICK r \in Reasons : <<what, r>> \in ToSet(in.missing)
    BY DEF Noted
  <1>2. <<what, r>> \in ToSet(answer'.missing) /\ <<what, r>>[1] = what
    BY <1>1
  <1> QED BY <1>2, ToldIs

LEMMA AnalyseTells ==
    ASSUME Order, Shaped, Heard, Analyse
    PROVE  EverySourceTold'
  <1>1. at = "analyse" /\ in' = in /\ tool' = tool /\ Typed /\ tool \in {"entity", "integration", "automation"}
    BY DEF Analyse, Keep, Shaped, Order, Orderly
  <1>2. CASE end' # "answered"
    BY <1>2 DEF EverySourceTold
  <1>3. ASSUME end' = "answered", NEW more, Hands(answer', more)
        PROVE  /\ answer'.partial = (answer'.missing # <<>>)
               /\ \A what : Noted(what) => Told(what)'
               /\ in.repairsRead \/ Told("repairs")'
               /\ \A note \in ToSet(more) : Told(note[1])'
    <2>1. ToSet(in.missing) \subseteq ToSet(answer'.missing) /\ answer'.partial = (answer'.missing # <<>>)
      BY <1>3 DEF Hands
    <2>2. \A what : Noted(what) => Told(what)'
      BY <2>1, NotedTold
    <2>3. \A note \in ToSet(more) : Told(note[1])'
      BY <1>3, ToldIs DEF Hands
    <2> QED BY <1>1, <2>1, <2>2, <2>3 DEF Heard, SourcesHeard
  <1>4. CASE tool = "entity" /\ end' = "answered"
    <2>1. answer' = AnalyzeEntityHealth(in)
      BY <1>4 DEF Analyse, End, Order, Orderly
    <2>2. PICK more \in Seq(Note) : HandsOn(answer', in, more)
      <3> DEFINE i == in
      <3>1. i.missing \in Seq(Note)
        BY <1>1 DEF Typed
      <3>2. \E more \in Seq(Note) : HandsOn(AnalyzeEntityHealth(i), i, more)
        BY <3>1, EntityAnswers
      <3> QED BY <2>1, <3>2
    <2>3. Hands(answer', more)
      BY <1>1, <2>2, HandsOnIs
    <2>4. (in.historyRead \/ Told("history")') /\ (in.registryRead \/ Told("registry")')
      BY <1>1, <1>3, <1>4, <2>3 DEF Heard, SourcesHeard
    <2> QED BY <1>1, <1>3, <1>4, <2>3, <2>4 DEF EverySourceTold, Told
  <1>5. CASE tool = "integration" /\ end' = "answered"
    <2>1. answer' = AnalyzeIntegrationHealth(in)
      BY <1>5 DEF Analyse, End, Order, Orderly
    <2>2. PICK more : (\E W : more \in Seq(W)) /\ HandsOn(answer', in, more)
      BY <2>1, IntegrationAnswers
    <2>3. Hands(answer', more)
      BY <1>1, <2>2, HandsOnIs
    <2>4. \A what : Noted(what) => Told(what)'
      BY <1>3, <1>5, <2>3
    <2>5. /\ in.unavailableRead \/ Told("availability_now")'
          /\ in.supervisorRead \/ Told("supervisor")'
      BY <1>1, <1>5, <2>4 DEF Heard, SourcesHeard, AfterOutages
    <2>6. /\ ReadIds = Names(in.rows) \/ Told("outages")'
          /\ Probed = Onsets \/ Told("restarts")'
      BY <1>1, <1>5, <2>4 DEF Heard, OutagesHeard, RestartsHeard, AfterOutages
    <2>7. ReadIds' = ReadIds /\ Probed' = Probed /\ Names(in'.rows) = Names(in.rows)
      BY <1>1 DEF ReadIds, Probed
    <2>8. Onsets' = Onsets
      BY <1>1, OnsetsKept
    <2> QED BY <1>1, <1>3, <1>5, <2>3, <2>5, <2>6, <2>7, <2>8 DEF EverySourceTold, Told, ReadIds, Probed, Onsets
  <1>6. CASE tool = "automation" /\ end' = "answered"
    <2>1. answer' = AnalyzeAutomationHealth(in)
      BY <1>6 DEF Analyse, End, Order, Orderly
    <2>2. Distinct(in.deps) /\ IF in.configRead THEN in.depends.entities \subseteq Depended ELSE in.deps = <<>>
      BY <1>1, <1>6 DEF Heard, DepsHeard
    <2>3. PICK more :
              /\ \E W : more \in Seq(W) /\ in.missing \in Seq(W)
              /\ HandsOn(AnalyzeAutomationHealth(in), in, more)
              /\ ~in.tracesRead => \E note \in ToSet(more) : note[1] = "traces"
              /\ ~in.tracesRead /\ ~in.fallbackRead => \E note \in ToSet(more) : note[1] = "logbook"
              /\ ~in.configRead => \E note \in ToSet(more) : note[1] = "dependencies"
              /\ in.configRead /\ (\E d \in ToSet(in.deps) : ~d.read)
                    => \E note \in ToSet(more) : note[1] = "dependency_history"
      <3>1. /\ in.missing \in Seq(Note) /\ in.configRead \in BOOLEAN /\ in.tracesRead \in BOOLEAN
            /\ in.fallbackRead \in BOOLEAN /\ in.deps \in Seq(Deps) /\ \A d \in Deps : d.entity \in Int
        BY <1>1 DEF Typed, Deps
      <3> HIDE DEF Deps, Note
      <3> QED BY <2>2, <3>1, AutomationAnswers
    <2>4. Hands(answer', more)
      BY <1>1, <2>1, <2>3, HandsOnIs
    <2>5. \A note \in ToSet(more) : Told(note[1])'
      BY <1>3, <1>6, <2>4
    <2>6. /\ in.tracesRead \/ Told("traces")'
          /\ in.tracesRead \/ in.fallbackRead \/ Told("logbook")'
          /\ in.configRead \/ Told("dependencies")'
      BY <2>3, <2>5
    <2>7. (\A d \in ToSet(in.deps) : d.read) \/ Told("dependency_history")'
      <3>1. CASE in.configRead
        BY <2>3, <2>5, <3>1
      <3>2. CASE ~in.configRead
        BY <2>2, <3>2 DEF ToSet
      <3> QED BY <3>1, <3>2
    <2>8. in.configRead => Names(Entities) \cap in.depends.entities \subseteq {d.entity : d \in ToSet(in.deps)}
      BY <2>2 DEF Depended
    <2> QED BY <1>1, <1>3, <1>6, <2>4, <2>6, <2>7, <2>8 DEF EverySourceTold, Told
  <1> QED BY <1>1, <1>2, <1>4, <1>5, <1>6

LEMMA NextTells == Order /\ Shaped /\ Heard /\ EverySourceTold /\ [Next]_vars => EverySourceTold'
  <1> SUFFICES ASSUME Order, Shaped, Heard, EverySourceTold, [Next]_vars PROVE EverySourceTold'
    OBVIOUS
  <1>1. CASE UNCHANGED vars \/ Ended
    <2>1. tool' = tool /\ end' = end /\ in' = in /\ answer' = answer
      BY <1>1 DEF vars, Ended
    <2>2. Clusters(in)' = Clusters(in)
      BY <2>1 DEF Clusters
    <2> QED BY <2>1, <2>2 DEF EverySourceTold, Told
  <1>2. CASE Analyse
    BY <1>2, AnalyseTells
  <1>3. CASE Next /\ ~Analyse /\ ~Ended
    BY <1>3, OnlyTheAnalysisAnswers DEF EverySourceTold
  <1> QED BY <1>1, <1>2, <1>3

(* A caller of a composite tool who gets an answer is told of every source *)
(* that did not give all it has, whichever reads failed, were refused or   *)
(* were cut short, and whatever the profile left out (noteMissing,         *)
(* HistoryMissing, RunMissing, ConfigMissing, DependencyMissing).          *)
THEOREM NoSourceIsSilent == Spec => []EverySourceTold
  <1>1. Init => Staged /\ Routed /\ Heard /\ EverySourceTold
    <2> SUFFICES ASSUME Init PROVE Staged /\ Routed /\ Heard /\ EverySourceTold
      OBVIOUS
    <2>1. at = "begin" /\ end = "running" /\ answer = <<>> /\ in.deps = <<>>
      BY DEF Init, EmptyInput
    <2>2. Distinct(in.deps)
      BY <2>1 DEF Distinct
    <2> QED BY <2>1, <2>2 DEF Staged, Places, Routed, OfIntegration, EverySourceTold,
                      Heard, SourcesHeard, OutagesHeard, RestartsHeard, DepsHeard, AfterOutages
  <1>2. Order /\ Shaped /\ Staged /\ Routed /\ Heard /\ [Next]_vars => Heard'
    BY NextHears, NextHearsOutages, NextHearsRestarts, NextHearsDeps DEF Heard
  <1> QED BY <1>1, <1>2, InitOrder, NextOrder, InitShaped, NextShaped, NextStaged, NextRouted,
             NextTells, PTL DEF Spec
-----------------------------------------------------------------------------
(* The measures of a call.                                                 *)

(* Whatever the histories a call has read, and in whatever order the       *)
(* recorder gave them: the outages, the seconds down and unknown and the   *)
(* availability are those of the window instant by instant, the cadence is *)
(* that of the instants recorded, and the clusters are the connected       *)
(* components of the windows (Availability, Cadence, ClusterOutages).      *)
THEOREM MeasuresAreDefined == Spec => []MeasuredAsDefined
  <1>1. Shaped => MeasuredAsDefined
    <2> SUFFICES ASSUME Typed PROVE MeasuredAsDefined
      BY DEF Shaped
    <2>1. in.points \in Seq(Point) /\ in.outages \in Seq(Legs)
      BY DEF Typed
    <2>2. OutagesMeasured(in.points) /\ CadenceShown(in.points) /\ OrderDoesNotMatter(in.points)
      BY <2>1, OutagesAreMeasured, CadenceIsShown, OrderIsNothing
    <2>3. in.outagesRead => ClustersAreComponents
      <3> SUFFICES ASSUME in.outagesRead PROVE ClustersAreComponents
        OBVIOUS
      <3> DEFINE inputs == ToSet(in.outages)
      <3>1. IsFiniteSet(inputs) /\ inputs \subseteq Legs
        BY <2>1, MembersAreFinite
      <3>2. Measured(inputs)
        BY <3>1, RegistryAssumption DEF Measured, Legs
      <3>3. Clusters(in) = ClusterOutages(inputs, in.devices)
        BY DEF Clusters
      <3> HIDE DEF inputs
      <3>4. AreComponents(ToSet(ClusterOutages(inputs, in.devices)), Windows(inputs))
        BY <3>1, <3>2, ClustersAre
      <3> QED BY <3>3, <3>4 DEF ClustersAreComponents, inputs
    <2> QED BY <2>2, <2>3 DEF MeasuredAsDefined
  <1> QED BY InitOrder, NextOrder, InitShaped, NextShaped, <1>1, PTL DEF Spec

-----------------------------------------------------------------------------
(* What the reads bring, and what the answer makes of it.                  *)

(* What the reads bring is of what they may bring.                         *)
Brought == {"entities", "down", "unavailableRead", "unavailable", "tracesRead", "traces",
            "fallbackRead", "events", "since", "repairsRead", "repairs"}
Fed ==
    /\ in.entities \in Int
    /\ in.unavailableRead => in.unavailable = Cardinality(in.down)
    /\ in.tracesRead => in.traces \in TraceLists
    /\ in.fallbackRead => in.events \in LogbookRows
    /\ in.since \in Int
    /\ in.repairsRead => in.repairs \in RepairLists

LEMMA InitFed == Init => Fed
  BY InstantsAre DEF Init, EmptyInput, Fed

LEMMA FedKept ==
    ASSUME Typed, Fed, NEW fs, Changes(fs), fs \cap Brought = {}
    PROVE  Fed'
  <1>1. \A f \in Brought : in'[f] = in[f]
    BY FieldsAre DEF Changes, Brought
  <1> QED BY <1>1 DEF Fed, Brought

LEMMA SourceBrings ==
    ASSUME Typed, NEW what, NEW inputs, NEW next,
           ReadSource(what, inputs, next) \/ NotConfigured(what, next)
    PROVE  Changes({"missing"}) \/ in' \in inputs
  <1>1. ASSUME NEW err, Misses(what, err, next)
        PROVE  Changes({"missing"})
    BY <1>1, MissesIs DEF Typed, Missed, Changes
  <1>2. in' \in inputs \/ \E err : Misses(what, err, next)
    BY DEF ReadSource, NotConfigured, Reads
  <1> QED BY <1>1, <1>2

LEMMA RepairsFed == Typed /\ Fed /\ ReadRepairs => Fed'
  <1> SUFFICES ASSUME Typed, Fed, ReadRepairs PROVE Fed'
    OBVIOUS
  <1> DEFINE inputs == {[in EXCEPT !.repairsRead = TRUE, !.repairs = r] : r \in RepairLists}
  <1>1. Changes({"missing"}) \/ in' \in inputs
    <2> HIDE DEF inputs
    <2>1. ReadSource("repairs", inputs, IF tool = "integration" THEN "supervisor" ELSE "analyse")
            \/ NotConfigured("repairs", IF tool = "integration" THEN "supervisor" ELSE "analyse")
      BY DEF ReadRepairs, inputs
    <2> QED BY <2>1, SourceBrings
  <1>2. CASE Changes({"missing"})
    BY <1>2, FedKept DEF Brought
  <1>3. ASSUME NEW r \in RepairLists, in' = [in EXCEPT !.repairsRead = TRUE, !.repairs = r]
        PROVE  Fed'
    <2>1. Changes({"repairsRead", "repairs"}) /\ in'.repairs = r
      BY <1>3, FieldsAre DEF Changes, Typed
    <2>2. \A f \in Brought \ {"repairsRead", "repairs"} : in'[f] = in[f]
      BY <2>1, FieldsAre DEF Changes, Brought
    <2> QED BY <2>1, <2>2 DEF Fed, Brought
  <1> QED BY <1>1, <1>2, <1>3

LEMMA UnavailableFed == Typed /\ Fed /\ ReadUnavailable => Fed'
  <1> SUFFICES ASSUME Typed, Fed, ReadUnavailable PROVE Fed'
    OBVIOUS
  <1> DEFINE inputs == {[in EXCEPT !.unavailableRead = TRUE, !.down = d \cap Names(in.rows),
                                   !.unavailable = Cardinality(d \cap Names(in.rows))] : d \in DownNow}
  <1>1. Changes({"missing"}) \/ in' \in inputs
    <2> HIDE DEF inputs
    <2>1. ReadSource("availability_now", inputs, "outages") \/ NotConfigured("availability_now", "outages")
      BY DEF ReadUnavailable, inputs
    <2> QED BY <2>1, SourceBrings
  <1>2. CASE Changes({"missing"})
    BY <1>2, FedKept DEF Brought
  <1>3. ASSUME NEW d, in' = [in EXCEPT !.unavailableRead = TRUE, !.down = d \cap Names(in.rows),
                                       !.unavailable = Cardinality(d \cap Names(in.rows))]
        PROVE  Fed'
    <2> DEFINE lost == d \cap Names(in.rows)
    <2> HIDE DEF lost
    <2>0. in' = [in EXCEPT !.unavailableRead = TRUE, !.down = lost, !.unavailable = Cardinality(lost)]
      BY <1>3 DEF lost
    <2>1. Changes({"unavailableRead", "down", "unavailable"}) /\ in'.unavailable = Cardinality(in'.down)
      BY <2>0, FieldsAre DEF Changes, Typed
    <2>2. \A f \in Brought \ {"unavailableRead", "down", "unavailable"} : in'[f] = in[f]
      BY <2>1, FieldsAre DEF Changes, Brought
    <2> QED BY <2>1, <2>2 DEF Fed, Brought
  <1> QED BY <1>1, <1>2, <1>3

LEMMA ResolveIntegrationFed == Order /\ Typed /\ Fed /\ ResolveIntegration => Fed'
  <1> SUFFICES ASSUME Order, Typed, Fed, ResolveIntegration PROVE Fed'
    OBVIOUS
  <1>1. CASE in' = in
    BY <1>1 DEF Fed
  <1>2. ASSUME NEW entry \in Entries,
               in' = [in EXCEPT !.entry = entry, !.rows = {e \in Entities : e.entry = entry.id},
                                !.devices = {d \in Devices : d.entry = entry.id},
                                !.entities = Cardinality({e \in Entities : e.entry = entry.id})]
        PROVE  Fed'
    <2> DEFINE rows == {e \in Entities : e.entry = entry.id}
               devices == {d \in Devices : d.entry = entry.id}
    <2>1. Cardinality(rows) \in Int
      <3>1. IsFiniteSet(rows)
        BY RegistryAssumption, FS_Subset
      <3> HIDE DEF rows
      <3> QED BY <3>1, FS_CardinalityType
    <2> HIDE DEF rows, devices
    <2>2. in' = [in EXCEPT !.entry = entry, !.rows = rows, !.devices = devices, !.entities = Cardinality(rows)]
      BY <1>2 DEF rows, devices
    <2>3. Changes({"entry", "rows", "devices", "entities"}) /\ in'.entities = Cardinality(rows)
      BY <2>2, FieldsAre DEF Changes, Typed
    <2>4. \A f \in Brought \ {"entities"} : in'[f] = in[f]
      BY <2>3, FieldsAre DEF Changes, Brought
    <2> QED BY <2>1, <2>3, <2>4 DEF Fed, Brought
  <1> QED BY <1>1, <1>2 DEF ResolveIntegration

LEMMA FieldsFed == Typed /\ Fed /\ (ReadConfig \/ ReadTraces \/ ReadFallback) => Fed'
  <1> SUFFICES ASSUME Typed, Fed, ReadConfig \/ ReadTraces \/ ReadFallback PROVE Fed'
    OBVIOUS
  <1>1. ASSUME NEW field \in {"configUnread", "tracesUnread", "fallbackUnread"}, NEW err,
               in' = [in EXCEPT ![field] = Reason(err)]
        PROVE  Fed'
    <2>1. Changes({"configUnread", "tracesUnread", "fallbackUnread"})
      BY <1>1, FieldsAre DEF Changes, Typed
    <2> QED BY <2>1, FedKept DEF Brought
  <1>2. ASSUME NEW field \in {"configUnread", "tracesUnread", "fallbackUnread"}, NEW inputs, NEW next,
               ReadField(field, inputs, next), in' \notin inputs
        PROVE  Fed'
    BY <1>1, <1>2 DEF ReadField
  <1>4. CASE in' = in
    BY <1>4 DEF Fed
  <1>6. ASSUME NEW c, in' = [in EXCEPT !.configRead = TRUE, !.depends = c, !.unextracted = c.unextracted,
                                 !.truncated = c.truncated, !.withheld = c.withheld]
        PROVE  Fed'
    <2>1. Changes({"configRead", "depends", "unextracted", "truncated", "withheld"})
      BY <1>6, FieldsAre DEF Changes, Typed
    <2> QED BY <2>1, FedKept DEF Brought
  <1>7. ASSUME NEW t \in TraceLists, in' = [in EXCEPT !.tracesRead = TRUE, !.traces = t]
        PROVE  Fed'
    <2>1. Changes({"tracesRead", "traces"}) /\ in'.traces = t
      BY <1>7, FieldsAre DEF Changes, Typed
    <2>2. \A f \in Brought \ {"tracesRead", "traces"} : in'[f] = in[f]
      BY <2>1, FieldsAre DEF Changes, Brought
    <2> QED BY <2>1, <2>2 DEF Fed, Brought
  <1>8. ASSUME NEW rows \in LogbookRows,
               in' = [in EXCEPT !.fallbackRead = TRUE, !.events = rows, !.since = FallbackSince]
        PROVE  Fed'
    <2>1. Changes({"fallbackRead", "events", "since"}) /\ in'.events = rows /\ in'.since = FallbackSince
      BY <1>8, FieldsAre DEF Changes, Typed
    <2>2. \A f \in Brought \ {"fallbackRead", "events", "since"} : in'[f] = in[f]
      BY <2>1, FieldsAre DEF Changes, Brought
    <2> QED BY <2>1, <2>2, AnswerAssumption DEF Fed, Brought
  <1>9. CASE ReadConfig
    BY <1>2, <1>6, <1>9 DEF ReadConfig
  <1>10. CASE ReadTraces
    BY <1>2, <1>7, <1>10 DEF ReadTraces
  <1>11. CASE ReadFallback
    BY <1>2, <1>4, <1>8, <1>11 DEF ReadFallback, Reads
  <1> QED BY <1>9, <1>10, <1>11

(* Every step keeps to what the reads may bring.                           *)
LEMMA NextFed == Order /\ Shaped /\ Fed /\ [Next]_vars => Fed'
  <1> SUFFICES ASSUME Order, Shaped, Fed, [Next]_vars PROVE Fed'
    OBVIOUS
  <1>0. Typed
    BY DEF Shaped
  <1>k. \A fs : Learns(fs) /\ fs \cap Brought = {} => Fed'
    BY <1>0, FedKept DEF Learns
  <1> USE DEF Brought
  <1>1. CASE Begin \/ Ended \/ UNCHANGED vars
    BY <1>1 DEF Begin, Ended, vars, Fed
  <1>2. CASE Analyse \/ ReadHistory \/ ReadRegistry
    BY <1>0, <1>k, <1>2, AnalyseLearns, ReadHistoryLearns, RegistryLearns
  <1>3. CASE ReadRepairs \/ ResolveIntegration \/ ReadUnavailable \/ ReadConfig \/ ReadTraces \/ ReadFallback
    BY <1>0, <1>3, RepairsFed, ResolveIntegrationFed, UnavailableFed, FieldsFed
  <1>4. CASE ChooseOutages \/ ReadOutage \/ ChooseMesh \/ ReadMetric
    BY <1>k, <1>4, ChooseOutagesLearns, ReadOutageLearns, ChooseMeshLearns, ReadMetricLearns
  <1>5. CASE ChooseRestarts \/ ReadRestart \/ ReadSupervisor \/ ReadSummary \/ ResolveDependencies
    BY <1>0, <1>k, <1>5, ChooseRestartsLearns, ReadRestartLearns, SupervisorLearns, ReadSummaryLearns,
       ResolveDependenciesLearns
  <1>6. CASE ReadDependency
    <2>1. in' = in \/ Changes({"deps", "tries", "readErr"})
      BY <1>6, ReadDependencyIs
    <2>2. CASE in' = in
      BY <2>2 DEF Fed
    <2> QED BY <1>0, <2>1, <2>2, FedKept
  <1> QED BY <1>1, <1>2, <1>3, <1>4, <1>5, <1>6 DEF Next

(* What is answered is what the analysis makes of the input.               *)
Analysed ==
    end = "answered" =>
        answer = CASE tool = "entity"      -> AnalyzeEntityHealth(in)
                   [] tool = "integration" -> AnalyzeIntegrationHealth(in)
                   [] tool = "automation"  -> AnalyzeAutomationHealth(in)

LEMMA NextAnalysed == Order /\ Analysed /\ [Next]_vars => Analysed'
  <1> SUFFICES ASSUME Order, Analysed, [Next]_vars PROVE Analysed'
    OBVIOUS
  <1>1. CASE UNCHANGED vars \/ Ended
    BY <1>1 DEF vars, Ended, Analysed
  <1>2. CASE Next /\ ~Analyse /\ ~Ended
    BY <1>2, OnlyTheAnalysisAnswers DEF Analysed
  <1>3. CASE Analyse
    BY <1>3 DEF Analyse, Analysed, Keep, End
  <1> QED BY <1>1, <1>2, <1>3

(* What the call has read is an input of each analysis.                    *)
LEMMA FedToEntity ==
    ASSUME Typed, Fed
    PROVE  in.points \in Seq(Point) /\ (in.repairsRead => in.repairs \in RepairLists)
  BY DEF Typed, Fed

LEMMA FedToIntegration ==
    ASSUME Typed, Fed
    PROVE  OfAnIntegration(in)
  <1>1. in.outages \in Seq(Legs) /\ \A v \in Legs : v.entity.id \in Int /\ v.points \in Seq(Point)
    BY RegistryAssumption DEF Typed, Legs
  <1>2. \E V : in.outages \in Seq(V) /\ \A v \in V : v.entity.id \in Int /\ v.points \in Seq(Point)
    <2> HIDE DEF Legs
    <2> QED BY <1>1
  <1>3. \E P : in.probes \in Seq(P) /\ \A p \in P : p.events \in {0, 2}
    <2> DEFINE P == [onset : Onsets, events : {0, 2}]
    <2>1. in.probes \in Seq(P) /\ \A p \in P : p.events \in {0, 2}
      BY DEF Typed
    <2> HIDE DEF P
    <2> QED BY <2>1
  <1>4. \E M : in.mesh \in Seq(M) /\ \A m \in M : m.id[1] = "mesh"
    <2>1. in.mesh \in Seq(Metrics)
      BY DEF Typed
    <2>2. ASSUME NEW m \in Metrics PROVE m.id[1] = "mesh"
      <3>1. PICK e \in Entities, points \in Seq(Point) : m = MeshEvidence(e, points, Numeric)
        BY DEF Metrics
      <3>2. m.id = <<"mesh", e.id>>
        BY <3>1 DEF MeshEvidence, Observed
      <3> QED BY <3>2
    <2> HIDE DEF Metrics
    <2> QED BY <2>1, <2>2
  <1> QED BY <1>2, <1>3, <1>4 DEF OfAnIntegration, Fed

LEMMA FedToAutomation ==
    ASSUME Typed, Fed, Distinct(in.deps)
    PROVE  OfAnAutomation(in)
  BY DEF OfAnAutomation, Typed, Fed

LEMMA LegsAreEarned ==
    ASSUME AllEarned(answer)
    PROVE  ConfidenceEarned
  <1>1. \A h : EvidenceOf(h) = LegsIn(h, ToSet(answer.evidence))
    BY DEF EvidenceOf, LegsIn
  <1> QED BY <1>1 DEF ConfidenceEarned, AllEarned, Earned

(* Every answer earns its confidence.                                      *)
LEMMA AnsweredIsEarned ==
    ASSUME Order, Typed, Fed, DepsHeard, Analysed
    PROVE  ConfidenceEarned
  <1> SUFFICES ASSUME end = "answered" PROVE ConfidenceEarned
    BY DEF ConfidenceEarned
  <1>1. tool \in {"entity", "integration", "automation"}
    BY DEF Order, Orderly
  <1>2. AllEarned(answer)
    <2>1. CASE tool = "entity"
      BY <2>1, FedToEntity, EntityEarns DEF Analysed
    <2>2. CASE tool = "integration"
      BY <2>2, FedToIntegration, IntegrationEarns DEF Analysed
    <2>3. CASE tool = "automation"
      BY <2>3, FedToAutomation, AutomationEarns DEF Analysed, DepsHeard
    <2> QED BY <1>1, <2>1, <2>2, <2>3
  <1> QED BY <1>2, LegsAreEarned

LEMMA InitHeard == Init => Staged /\ Routed /\ Heard
  <1> SUFFICES ASSUME Init PROVE Staged /\ Routed /\ Heard
    OBVIOUS
  <1>1. at = "begin" /\ end = "running" /\ answer = <<>> /\ in.deps = <<>>
    BY DEF Init, EmptyInput
  <1>2. Distinct(in.deps)
    BY <1>1 DEF Distinct
  <1> QED BY <1>1, <1>2 DEF Staged, Places, Routed, OfIntegration,
                    Heard, SourcesHeard, OutagesHeard, RestartsHeard, DepsHeard, AfterOutages

(* An entity that was up and heard from is blamed on nothing.              *)
LEMMA AnsweredHealthily ==
    ASSUME Typed, Analysed
    PROVE  HealthyIsNotBlamed
  <1> DEFINE down == {p \in ToSet(in.points) : From < p.at /\ p.at <= To /\ p.state \in Down}
  <1> SUFFICES ASSUME end = "answered", tool = "entity", down = {}, HeldAt(in.points, From) \notin Down,
                      ~Cadence(in.points).stale
               PROVE  answer.hypotheses = <<>>
    BY DEF HealthyIsNotBlamed
  <1> DEFINE a == Availability(in.points)
             c == Cadence(in.points)
             claims == HistoryClaims(in, a, c) \o SetupClaim(in, a, c) \o RepairClaim(in, a, c)
  <1>1. in.points \in Seq(Point)
    BY DEF Typed
  <1>2. \A j \in DOMAIN in.points : From < in.points[j].at /\ in.points[j].at <= To => in.points[j].state \notin Down
    <2>1. \A j \in DOMAIN in.points : in.points[j] \in ToSet(in.points)
      BY DEF ToSet
    <2> QED BY <2>1
  <1>3. a.outages = <<>>
    BY <1>1, <1>2, UpHasNoOutage
  <1>4. answer = AnalyzeEntityHealth(in)
    BY DEF Analysed
  <1>5. \E evidence : answer.hypotheses = Hypotheses(evidence, claims)
    BY <1>4 DEF AnalyzeEntityHealth, EntityAnalysis, Health
  <1>6. ~c.stale
    OBVIOUS
  <1> HIDE DEF a, c
  <1>7. claims = <<>>
    BY <1>3, <1>6, NothingIsClaimed
  <1> HIDE DEF claims
  <1> QED BY <1>5, <1>7, NothingIsMade

(* Each onset is asked after once.                                         *)
AskedOnce ==
    /\ OneProbeEach(in.probes)
    /\ at = "restart" =>
        /\ Probed \cap ToSet(todo) = {}
        /\ \A j, k \in 1 .. Len(todo) : todo[j] = todo[k] => j = k

(* No two clusters are asked after at one onset twice.                     *)
LEMMA OnsetsDiffer ==
    ASSUME Typed, Fed
    PROVE  \A j, k \in 1 .. Len(OutageOnsets(Clusters(in))) :
                OutageOnsets(Clusters(in))[j] = OutageOnsets(Clusters(in))[k] => j = k
  <1> DEFINE timed == Clusters(in)
             onsets == OutageOnsets(timed)
  <1>1. Clustering(timed)
    BY FedToIntegration, IntegrationEarns
  <1> HIDE DEF timed
  <1>2. onsets = [n \in 1 .. Len(timed) |-> timed[n].from] /\ Len(timed) \in Nat
    BY <1>1 DEF OutageOnsets, Clustering
  <1>3. Len(onsets) = Len(timed) /\ \A n \in 1 .. Len(timed) : onsets[n] = timed[n].from
    BY <1>2
  <1> HIDE DEF onsets
  <1>4. \A j, k \in 1 .. Len(timed) : timed[j].from = timed[k].from => j = k
    <2> TAKE j, k \in 1 .. Len(timed)
    <2>1. timed[j].from \in Int /\ timed[k].from \in Int
          /\ (j < k => timed[j].from < timed[k].from) /\ (k < j => timed[k].from < timed[j].from)
      BY <1>1 DEF Clustering
    <2> QED BY <1>2, <2>1
  <1> QED BY <1>3, <1>4 DEF onsets, timed

LEMMA ChooseRestartsOnce ==
    ASSUME Shaped, Fed, ChooseRestarts, in'.probes = in.probes
    PROVE  AskedOnce'
  <1> DEFINE onsets == OutageOnsets(Clusters(in))
             cut == Cut(onsets, MaxRestartProbes)
  <1>1. at = "restarts" /\ Typed /\ in.probes = <<>>
    BY DEF ChooseRestarts, Shaped, Unstarted, BeforeRestarts
  <1>2. Probed' = {} /\ OneProbeEach(in'.probes)
    BY <1>1 DEF Probed, OneProbeEach, ToSet
  <1>3. CASE Loop(cut, "restart", "repairs")
    <2>1. onsets \in Seq(Onsets) /\ \A j, k \in 1 .. Len(onsets) : onsets[j] = onsets[k] => j = k
      BY <1>1, OnsetsAre, OnsetsDiffer
    <2> HIDE DEF onsets
    <2>2. \A j \in 1 .. Len(cut) : cut[j] = onsets[j] /\ j \in 1 .. Len(onsets)
      <3>1. Len(cut) = IF Len(onsets) <= MaxRestartProbes THEN Len(onsets) ELSE MaxRestartProbes
        BY <2>1, CutIs, CapAssumption
      <3>2. \A j \in 1 .. Len(cut) : cut[j] = onsets[j]
        BY <2>1, CutIs, CapAssumption
      <3>3. Len(onsets) \in Nat /\ MaxRestartProbes \in Nat
        BY <2>1, CapAssumption
      <3> HIDE DEF cut
      <3> QED BY <3>1, <3>2, <3>3
    <2> HIDE DEF cut
    <2>3. \A j, k \in 1 .. Len(todo') : todo'[j] = todo'[k] => j = k
      BY <1>3, <2>1, <2>2 DEF Loop
    <2> QED BY <1>2, <2>3 DEF AskedOnce
  <1>4. CASE Reached("repairs", Noted("restarts")')
    BY <1>2, <1>4 DEF Reached, AskedOnce
  <1> QED BY <1>3, <1>4, ChooseRestartsLearns

LEMMA ReadRestartOnce ==
    ASSUME Shaped, AskedOnce, ReadRestart
    PROVE  AskedOnce'
  <1>1. at = "restart" /\ Typed
    BY DEF ReadRestart, Shaped
  <1>2. ASSUME NEW err, Misses("restarts", err, "repairs")
        PROVE  AskedOnce'
    <2>1. Missed("restarts", "repairs")
      BY <1>1, <1>2, MissesIs DEF Typed
    <2>2. in'.probes = in.probes /\ at' # "restart"
      BY <2>1, FieldsAre DEF Missed, Changes
    <2> QED BY <2>2 DEF AskedOnce
  <1>3. ASSUME NEW events \in {0, 2},
               in' = [in EXCEPT !.probes = Append(@, [onset |-> Head(todo), events |-> events])],
               Loop(Tail(todo), "restart", "repairs")
        PROVE  AskedOnce'
    <2> DEFINE P == [onset : Onsets, events : {0, 2}]
               p == in.probes
               probe == [onset |-> Head(todo), events |-> events]
               rest == Tail(todo)
    <2>1. todo \in Seq(Onsets) \ {<<>>} /\ p \in Seq(P)
      BY <1>1 DEF Shaped, Pending, Typed
    <2>2. /\ Head(todo) \in Onsets /\ rest \in Seq(Onsets) /\ Len(rest) = Len(todo) - 1
          /\ \A k \in 1 .. Len(rest) : rest[k] = todo[k + 1]
          /\ Head(todo) = todo[1] /\ ToSet(todo) = {Head(todo)} \cup ToSet(rest)
      BY <2>1, TailIs
    <2>3. probe \in P /\ probe.onset = Head(todo)
      BY <2>2
    <2>4. in'.probes = Append(p, probe)
      BY <1>1, <1>3, FieldsAre DEF Typed
    <2> HIDE DEF P, p, probe, rest
    <2>5. ToSet(Append(p, probe)) = ToSet(p) \cup {probe}
      BY <2>1, <2>3, AppendIs
    <2>6. Head(todo) \notin Probed /\ \A k \in 1 .. Len(rest) : rest[k] # Head(todo) /\ rest[k] \notin Probed
      <3>1. Len(todo) \in Nat /\ 1 \in 1 .. Len(todo) /\ DOMAIN todo = 1 .. Len(todo) /\ Len(rest) \in Nat
        BY <2>1, <2>2
      <3>2. \A k \in 1 .. Len(rest) : k + 1 \in 1 .. Len(todo) /\ k + 1 # 1
        BY <2>2, <3>1
      <3>3. \A k \in 1 .. Len(todo) : todo[k] \notin Probed
        BY <1>1, <3>1 DEF AskedOnce, ToSet
      <3> QED BY <1>1, <2>2, <3>1, <3>2, <3>3 DEF AskedOnce
    <2>7. OneProbeEach(in'.probes)
      <3>1. \A q \in ToSet(p) : q.onset # Head(todo)
        BY <2>6 DEF Probed, p
      <3>2. OneProbeEach(p)
        BY DEF AskedOnce, p
      <3> QED BY <2>3, <2>4, <2>5, <3>1, <3>2 DEF OneProbeEach
    <2>8. Probed' = Probed \cup {Head(todo)}
      BY <2>3, <2>4, <2>5 DEF Probed, p
    <2>9. DOMAIN rest = 1 .. Len(rest) /\ Len(rest) \in Nat /\ Len(todo) \in Nat
      BY <2>1, <2>2
    <2>10. Probed' \cap ToSet(rest) = {}
      BY <2>6, <2>8, <2>9 DEF ToSet
    <2>11. \A j, k \in 1 .. Len(rest) : rest[j] = rest[k] => j = k
      <3> TAKE j, k \in 1 .. Len(rest)
      <3> HAVE rest[j] = rest[k]
      <3>1. j + 1 \in 1 .. Len(todo) /\ k + 1 \in 1 .. Len(todo) /\ todo[j + 1] = todo[k + 1]
        BY <2>2, <2>9
      <3>2. j + 1 = k + 1
        BY <1>1, <3>1 DEF AskedOnce
      <3> QED BY <2>9, <3>2
    <2>12. todo' = rest
      BY <1>3 DEF Loop, rest
    <2> QED BY <2>7, <2>10, <2>11, <2>12 DEF AskedOnce
  <1> QED BY <1>2, <1>3 DEF ReadRestart

(* Every step asks after an onset once.                                    *)
LEMMA NextAskedOnce == Order /\ Shaped /\ Staged /\ Routed /\ Fed /\ AskedOnce /\ [Next]_vars => AskedOnce'
  <1> SUFFICES ASSUME Order, Shaped, Staged, Routed, Fed, AskedOnce, [Next]_vars PROVE AskedOnce'
    OBVIOUS
  <1>1. CASE UNCHANGED vars \/ Ended
    <2>1. at' = at /\ in' = in /\ todo' = todo
      BY <1>1 DEF vars, Ended
    <2> QED BY <2>1 DEF AskedOnce, Probed
  <1>2. CASE Next /\ ~Ended
    <2>1. Moves /\ Keeps
      BY <1>2, NextMoves, StepKeeps
    <2>2. CASE at = "restarts"
      BY <1>2, <2>1, <2>2, Guards, ChooseRestartsOnce DEF Keeps, Moves
    <2>3. CASE at = "restart"
      BY <1>2, <2>1, <2>3, Guards, ReadRestartOnce DEF Moves
    <2>4. CASE at \notin {"restarts", "restart"}
      <3>1. at' # "restart"
        BY <2>1, <2>4 DEF Moves, Staged, Places, Routed, OfIntegration
      <3>2. in'.probes = in.probes
        BY <2>1, <2>4 DEF Keeps
      <3> QED BY <3>1, <3>2 DEF AskedOnce
    <2> QED BY <2>2, <2>3, <2>4
  <1> QED BY <1>1, <1>2

LEMMA InitAskedOnce == Init => AskedOnce
  BY DEF Init, EmptyInput, AskedOnce, OneProbeEach, ToSet

(* Each cluster is laid once, and on what its probe showed.                *)
LEMMA AnsweredClusters ==
    ASSUME Order, Typed, Fed, AskedOnce, Analysed
    PROVE  ClusterBlamedOnce
  <1> SUFFICES ASSUME end = "answered", tool = "integration"
               PROVE  BlamedOnce(Clusters(in)) /\ (Said("majority") # {} => 2 * Cardinality(in.down) >= in.entities)
    BY DEF ClusterBlamedOnce
  <1>1. OfAnIntegration(in) /\ answer = AnalyzeIntegrationHealth(in) /\ OneProbeEach(in.probes)
    BY FedToIntegration DEF Analysed, AskedOnce
  <1> DEFINE timed == Clusters(in)
  <1>2. \A statement : SaidBy(answer, statement) = Said(statement)
    BY DEF SaidBy, Said
  <1>3. BlamedOnce(timed)
    <2>1. ASSUME NEW n \in DOMAIN timed
          PROVE  LET about == {h \in Said("restart") \cup Said("upstream") : <<"cluster", n>> \in ToSet(h.cites)}
                     seen == \E i \in DOMAIN in.probes :
                                 in.probes[i].onset = timed[n].from /\ in.probes[i].events > 0
                 IN  Cardinality(about) = 1 /\ \A h \in about : (h.statement = "restart") = seen
      <3> DEFINE about == {h \in Said("restart") \cup Said("upstream") : <<"cluster", n>> \in ToSet(h.cites)}
                 seen == \E i \in DOMAIN in.probes :
                                 in.probes[i].onset = timed[n].from /\ in.probes[i].events > 0
      <3>1. /\ Cardinality(About(answer, n)) = 1
            /\ \A h \in About(answer, n) : (h.statement = "restart") <=> SawRestart(in.probes, timed[n].from)
        BY <1>1, ClustersAreBlamed
      <3>2. About(answer, n) = about
        BY <1>2 DEF About
      <3>3. SawRestart(in.probes, timed[n].from) <=> seen
        BY DEF SawRestart
      <3>4. seen \in BOOLEAN
        OBVIOUS
      <3> HIDE DEF about, seen, timed
      <3>5. Cardinality(about) = 1 /\ \A h \in about : (h.statement = "restart") = seen
        BY <3>1, <3>2, <3>3, <3>4
      <3> QED BY <3>5 DEF about, seen
    <2> HIDE DEF timed
    <2> QED BY <2>1 DEF BlamedOnce
  <1>4. Said("majority") # {} => 2 * Cardinality(in.down) >= in.entities
    <2> SUFFICES ASSUME Said("majority") # {} PROVE 2 * Cardinality(in.down) >= in.entities
      OBVIOUS
    <2>1. MajorityUnavailable(in)
      BY <1>1, <1>2, MajorityIsCounted
    <2> QED BY <2>1 DEF MajorityUnavailable, Fed
  <1> QED BY <1>3, <1>4

(* An answer about an automation whose configuration was not read rests on *)
(* no dependency.                                                          *)
DepsSettled == (end = "answered" /\ tool = "automation") => (in.configRead \/ in.deps = <<>>)

LEMMA NextDepsSettled == Order /\ DepsHeard /\ DepsSettled /\ [Next]_vars => DepsSettled'
  <1> SUFFICES ASSUME Order, DepsHeard, DepsSettled, [Next]_vars PROVE DepsSettled'
    OBVIOUS
  <1>1. CASE UNCHANGED vars \/ Ended
    BY <1>1 DEF vars, Ended, DepsSettled
  <1>2. CASE Next /\ ~Analyse /\ ~Ended
    BY <1>2, OnlyTheAnalysisAnswers DEF DepsSettled
  <1>3. CASE Analyse
    BY <1>3 DEF Analyse, DepsHeard, DepsSettled, Keep, End
  <1> QED BY <1>1, <1>2, <1>3

(* A run is blamed only on what was bad within its tolerance.              *)
LEMMA AnsweredRuns ==
    ASSUME Typed, Fed, DepsHeard, DepsSettled, Analysed
    PROVE  RunsBlamedFairly
  <1> SUFFICES ASSUME end = "answered", tool = "automation"
               PROVE  RunsBlamedFairly
    BY DEF RunsBlamedFairly
  <1>1. OfAnAutomation(in) /\ answer = AnalyzeAutomationHealth(in) /\ (in.configRead \/ in.deps = <<>>)
    BY FedToAutomation DEF Analysed, DepsHeard, DepsSettled
  <1> DEFINE found == ShownWindows(in)
             S == {d \in ToSet(in.deps) : d.read /\ Recorded(d.points, To - 1)}
             D == {[points |-> d.points, cadence |-> Cadence(d.points)] : d \in S}
             runs == Runs(in)
  <1>2. Listed(found) /\ \A n \in 1 .. Len(found) : found[n].id = <<"dependency", n>>
    <2> DEFINE bad == BadDeps(MeasuredDeps(in))
               s == WindowEvidence(bad, Runs(in))
    <2>1. Listed(bad)
      BY <1>1, BadDepsAre DEF BadOf
    <2> HIDE DEF bad
    <2>2. Listed(s) /\ Len(s) = Len(bad) /\ \A n \in 1 .. Len(bad) : s[n].id = <<"dependency", n>>
      BY <2>1, FoundIs
    <2>3. found = s
      BY DEF ShownWindows, bad
    <2> HIDE DEF s, found
    <2> QED BY <2>2, <2>3
  <1> HIDE DEF found
  <1>3. ASSUME NEW statement, NEW h \in Said(statement)
        PROVE  \E claim \in ToSet(AutomationClaims(in, found, Faulty(in))) : statement = claim.statement
    <2>1. h \in ToSet(AnalyzeAutomationHealth(in).hypotheses) /\ h.statement = statement
      BY <1>1, <1>3 DEF Said
    <2>2. \E claim \in ToSet(AutomationClaims(in, ShownWindows(in), Faulty(in))) : h.statement = claim.statement
      BY <1>1, <2>1, AutomationIsMade
    <2> QED BY <2>1, <2>2 DEF found
  <1>4. \A d \in ToSet(in.deps) : d \in S <=> Spanned(d)
    BY DEF Spanned
  <1> DEFINE At(d) == [points |-> d.points, cadence |-> Cadence(d.points)]
  <1>5. ASSUME NEW h \in Said("failed_during") \cup Said("ran_during")
        PROVE  \E d \in D, k \in DOMAIN runs :
                    BadDuring(runs[k], d.points, d.cadence) /\ (in.tracesRead => runs[k].failed)
    <2>1. PICK claim \in ToSet(AutomationClaims(in, found, Faulty(in))) : claim.statement \in {"failed_during", "ran_during"}
      BY <1>3, <1>5
    <2>2. PICK n \in 1 .. Len(found) : OverlapMatters(in, found[n])
      BY <1>2, <2>1, ClaimsOfRuns
    <2>3. PICK d \in ToSet(in.deps) : Spanned(d) /\ \E k \in DOMAIN Runs(in) : Blames(in, d, k)
      BY <1>1, <2>2, RunIsBlamedOnBad DEF found
    <2>4. PICK k \in DOMAIN Runs(in) : Blames(in, d, k)
      BY <2>3
    <2> DEFINE e == At(d)
    <2>5. e \in D /\ e.points = d.points /\ e.cadence = Cadence(d.points)
      BY <1>4, <2>3
    <2> HIDE DEF e, D
    <2>6. BadDuring(Runs(in)[k], e.points, e.cadence) /\ (in.tracesRead => Runs(in)[k].failed)
      BY <2>4, <2>5 DEF Blames
    <2> QED BY <2>5, <2>6
  <1>6. Said("failed_during") # {} => in.tracesRead
    <2> SUFFICES ASSUME NEW h \in Said("failed_during") PROVE in.tracesRead
      OBVIOUS
    <2>1. PICK claim \in ToSet(AutomationClaims(in, found, Faulty(in))) : claim.statement = "failed_during"
      BY <1>3
    <2> QED BY <1>2, <2>1, ClaimsOfRuns
  <1>7. ASSUME Said("fault") # {}
        PROVE  \E k \in DOMAIN runs : runs[k].errored /\ \A d \in D : ~BadDuring(runs[k], d.points, d.cadence)
    <2>1. PICK h \in Said("fault") : TRUE
      BY <1>7
    <2>2. PICK claim \in ToSet(AutomationClaims(in, found, Faulty(in))) : claim.statement = "fault"
      BY <1>3, <2>1
    <2>3. Faulty(in)
      <3> DEFINE f == Faulty(in)
      <3> HIDE DEF f
      <3>1. claim \in ToSet(AutomationClaims(in, found, f))
        BY <2>2 DEF f
      <3>2. f
        BY <1>2, <2>2, <3>1, ClaimsOfRuns
      <3> QED BY <3>2 DEF f
    <2>4. PICK k \in DOMAIN Runs(in) : Runs(in)[k].errored
                /\ \A d \in ToSet(in.deps) : Spanned(d) => ~BadDuring(Runs(in)[k], d.points, Cadence(d.points))
      BY <1>1, <2>3, FaultIsNoOnesElse
    <2>5. \A e \in D : \E d \in ToSet(in.deps) : Spanned(d) /\ e.points = d.points /\ e.cadence = Cadence(d.points)
      BY <1>4
    <2> HIDE DEF D
    <2>6. \A e \in D : ~BadDuring(Runs(in)[k], e.points, e.cadence)
      BY <2>4, <2>5
    <2> QED BY <2>4, <2>6
  <1>8. BlamedFairly(runs, D)
    <2> HIDE DEF D, runs
    <2> QED BY <1>5, <1>6, <1>7 DEF BlamedFairly
  <1> QED BY <1>8 DEF RunsBlamedFairly

(* Every hypothesis is earned: an entity that was up and heard from is     *)
(* blamed on nothing, a cluster is laid once and on what its probe showed, *)
(* a run is blamed only on a dependency that was bad within its tolerance, *)
(* and none is surer than its weakest leg (entity_health.go,               *)
(* integration_health.go, automation_health.go, confidence.go).            *)
THEOREM BlameIsSound == Spec => []BlameIsEarned
  <1>1. Init => Fed /\ Analysed /\ DepsSettled
    BY InitFed DEF Init, Analysed, DepsSettled
  <1>2. Heard => DepsHeard
    BY DEF Heard
  <1>3. Order /\ Shaped /\ Staged /\ Routed /\ Heard /\ [Next]_vars => Heard'
    BY NextHears, NextHearsOutages, NextHearsRestarts, NextHearsDeps DEF Heard
  <1>4. Order /\ Heard /\ DepsSettled /\ [Next]_vars => DepsSettled'
    BY <1>2, NextDepsSettled
  <1>5. Order /\ Shaped /\ Heard /\ Fed /\ AskedOnce /\ Analysed /\ DepsSettled => BlameIsEarned
    BY <1>2, AnsweredHealthily, AnsweredClusters, AnsweredRuns, AnsweredIsEarned DEF Shaped, BlameIsEarned
  <1> QED BY <1>1, <1>3, <1>4, <1>5, InitOrder, NextOrder, InitShaped, NextShaped, NextStaged, InitHeard, NextRouted,
             InitAskedOnce, NextAskedOnce, NextFed, NextAnalysed, PTL DEF Spec
=============================================================================

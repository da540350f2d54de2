------------------------------- MODULE Ledger -------------------------------
(***************************************************************************)
(* Evidence, the hypotheses that cite it and how sure they may be          *)
(* (internal/analysis/confidence.go, entity_health.go: ledger;             *)
(* internal/model/evidence.go).  Coverage is a pair of integers, its       *)
(* numerator first.                                                        *)
(***************************************************************************)
EXTENDS Lines

CONSTANTS
    MediumSample,   \* mediumSampleSize
    HighSample      \* highSampleSize

ASSUME SampleAssumption ==
    MediumSample \in Nat /\ HighSample \in Nat /\ MediumSample < HighSample

Full == <<1, 1>>    \* the coverage of what is not a history

(* The id of evidence: its kind, and which of its kind it is.              *)
One(kind) == <<kind, 0>>

Observed(id, sample, coverage, degraded, m) ==
    [id |-> id, sample |-> sample, coverage |-> coverage, degraded |-> degraded, m |-> m]

AtLeast(coverage, num, den) == coverage[1] * den >= num * coverage[2]

EvidenceRank(ev) ==
    LET rank == IF ev.sample >= HighSample /\ AtLeast(ev.coverage, 9, 10) THEN 2
                ELSE IF ev.sample >= MediumSample /\ AtLeast(ev.coverage, 1, 2) THEN 1
                ELSE 0
    IN  IF ev.degraded THEN Max({rank - 1, 0}) ELSE rank

(* Mutant: the strongest leg decides.                                      *)
ConfidenceFor_Strongest(cited) == Max({0} \cup {EvidenceRank(ev) : ev \in cited})

(* As strong as the weakest leg: 2 is high, 0 is low.                      *)
ConfidenceFor(cited) ==
    IF cited = {} THEN 0 ELSE Min({2} \cup {EvidenceRank(ev) : ev \in cited})

(* The ids of the evidence that was observed, and evidenceByID.            *)
Ids(evidence) == {evidence[i].id : i \in DOMAIN evidence}
ById(evidence, id) == evidence[Min({i \in DOMAIN evidence : evidence[i].id = id})]

When(holds, x) == IF holds THEN <<x>> ELSE <<>>

Claim(statement, ids) == [statement |-> statement, ids |-> ids]

(* cite, with model.NewHypothesis: what was not observed is dropped from   *)
(* the citations, and a hypothesis with none left is not made.             *)
Cite(evidence, claim) ==
    LET cites == Kept(claim.ids, LAMBDA id : id \in Ids(evidence))
    IN  When(cites # <<>>,
             [ statement  |-> claim.statement,
               cites      |-> cites,
               confidence |-> ConfidenceFor({ById(evidence, id) : id \in ToSet(cites)}) ])

(* rankHypotheses: confidence, then the number of citations, both          *)
(* descending; the alphabetical tie-break is left to the order of          *)
(* production.                                                             *)
Ranked(hypotheses) ==
    LET Precedes(i, j) ==
            LET a == hypotheses[i] b == hypotheses[j]
            IN  IF a.confidence # b.confidence THEN a.confidence > b.confidence
                ELSE IF Len(a.cites) # Len(b.cites) THEN Len(a.cites) > Len(b.cites)
                ELSE i < j
    IN  Lined(hypotheses, Precedes)

Hypotheses(evidence, claims) ==
    Ranked(FlattenSeq([i \in DOMAIN claims |-> Cite(evidence, claims[i])]))

(* What the caller gets: partial is what the missing sources make of it.   *)
Health(evidence, claims, missing, next, clusters) ==
    [ evidence |-> evidence, hypotheses |-> Hypotheses(evidence, claims), missing |-> missing,
      partial  |-> missing # <<>>, next |-> next, clusters |-> clusters ]
=============================================================================

---------------------------- MODULE DecisionRules ----------------------------
(***************************************************************************)
(* From the evidence of the models to a recommendation for one holding at  *)
(* one horizon: the evidence is gathered model by model and combined       *)
(* (engine/evidence.py, research/statistics.py), turned into a trim score  *)
(* with a label (engine/trim.py), accounted for line by line               *)
(* (engine/attribution.py) and written up (engine/intelligence.py).        *)
(*                                                                         *)
(* Arithmetic is exact.  A study's standard error is 1/root, so that its   *)
(* precision is root^2; shares are in percent; a score is a pair of        *)
(* integers, its distance from 50 and the unit that distance is in.        *)
(***************************************************************************)
EXTENDS Integers, Sequences, FiniteSets, FiniteSetsExt, Functions, SequencesExt

CONSTANTS
    Missing,        \* None
    ModelOrder,     \* ALL_MODELS, in order
    Shadow,         \* SHADOW_MODELS
    Overlapping,    \* OVERLAPPING_PAIRS, as sets of two models
    Evidences,      \* what a model may say
    Positions       \* what the portfolio analysis may say

ASSUME ModelsAssumption == ModelOrder \in Seq(Range(ModelOrder))
\* A real effect, and an error that can be inverted.
Usable(e) == ~e.neutral /\ e.effect # 0

ASSUME EvidencesAssumption ==
    /\ Missing \notin Evidences
    /\ \A e \in Evidences : e.effect \in Int /\ e.size \in Nat /\ (Usable(e) => e.root \in Nat \ {0})
ASSUME PositionsAssumption ==
    /\ Missing \notin Int /\ Missing \notin Positions
    /\ \A position \in Positions : position.weight \in Int /\ position.risk \in Int \cup {Missing}

VARIABLES
    heard,      \* the models asked so far
    evidence,   \* what those that could be evaluated said
    verdict     \* what follows from it

rulesVars == << heard, evidence, verdict >>

AllModels == Range(ModelOrder)

\* Points on Phi, as the points of score above 50 from a square of z on, times 100.
ScoreSteps == << << 6, 10 >>, << 25, 19 >>, << 100, 34 >>, << 225, 43 >>, << 400, 48 >>, << 1600, 50 >> >>
PriorEvents == 30

Bands ==
    << [upper |-> 25, label |-> "Maintain", floor |-> 40], [upper |-> 40, label |-> "Hold / Monitor", floor |-> 0],
       [upper |-> 60, label |-> "Mixed Evidence", floor |-> 0],
       [upper |-> 75, label |-> "Trim Consideration", floor |-> 0], [upper |-> 90, label |-> "Trim", floor |-> 40],
       [upper |-> 100, label |-> "Strong Trim Candidate", floor |-> 60] >>
WeightLimit == 15
MaxAdjustment == 10
ThesisLimit == 5
ReasonsGiven == 3

Square(n) == n * n
SignOfInt(n) == IF n > 0 THEN 1 ELSE IF n < 0 THEN -1 ELSE 0
Larger(a, b) == IF a > b THEN a ELSE b
Smaller(a, b) == IF a < b THEN a ELSE b

----------------------------------------------------------------------------
(***************************************************************************)
(* Combining.  said maps models to their evidence: neutral, effect, root,  *)
(* size (effective sample size), reasons and context.                      *)
(***************************************************************************)

EveryModel(said) == DOMAIN said

Official(said) == DOMAIN said \ Shadow

Participating(said) == {m \in Official(said) : Usable(said[m])}

\* Ten times the prior correlation of two models.
Correlation(a, b) == IF a = b THEN 10 ELSE IF {a, b} \in Overlapping THEN 5 ELSE 2

Precision(said, m) == Square(said[m].root)
Total(said, models) == MapThenSumSet(LAMBDA m : Precision(said, m), models)

\* The combined effect, times the total precision.
Pull(said, models) == MapThenSumSet(LAMBDA m : Precision(said, m) * said[m].effect, models)

\* Ten times the variance of the combined effect, times the total precision squared.
Variance(said, models) ==
    MapThenSumSet(LAMBDA p : said[p[1]].root * said[p[2]].root * Correlation(p[1], p[2]), models \X models)

\* score_from_z: the score's distance from 50.
Edge(said, models) ==
    LET reached == {step \in Range(ScoreSteps) :
                      1000 * Square(Pull(said, models)) >= step[1] * Variance(said, models)}
    IN  SignOfInt(Pull(said, models)) * (IF reached = {} THEN 0 ELSE Max({step[2] : step \in reached}))

\* The precision that agrees in sign with the combination; zero counts as positive.
Agreeing(said, models) ==
    Total(said, {m \in models : (said[m].effect >= 0) = (Pull(said, models) >= 0)})

Size(said, models) == Max({said[m].size : m \in models})

\* combine_model_evidence: confidence is << part, whole >>.
Combine(said, omitted) ==
    LET models == Participating(said)
    IN  [participating |-> models, neutral |-> Official(said) \ models,
         shadow |-> DOMAIN said \cap Shadow, omitted |-> omitted,
         edge       |-> IF models = {} THEN 0 ELSE Edge(said, models),
         confidence |-> IF models = {} THEN << 0, 1 >>
                        ELSE << Size(said, models) * Agreeing(said, models),
                                (Size(said, models) + PriorEvents) * Total(said, models) >>,
         size       |-> IF models = {} THEN 0 ELSE Size(said, models),
         dissent    |-> IF models = {} THEN << 0, 1 >>
                        ELSE << Total(said, models) - Agreeing(said, models), Total(said, models) >>,
         pull       |-> Pull(said, models),
         shares     |-> [m \in models |-> Precision(said, m) * said[m].effect]]

----------------------------------------------------------------------------
(***************************************************************************)
(* The trim score.  A position is [weight, risk], risk or the whole        *)
(* position may be missing; terms are in twelfths of a point.              *)
(***************************************************************************)

WeightTerm(position) == IF position = Missing THEN 0 ELSE Larger(0, 8 * (position.weight - WeightLimit))

RiskTerm(position) ==
    IF position = Missing THEN 0
    ELSE IF position.risk = Missing THEN 0
    ELSE 3 * (position.risk - position.weight)

Adjustment(position) ==
    Larger(-12 * MaxAdjustment, Smaller(12 * MaxAdjustment, WeightTerm(position) + RiskTerm(position)))

\* The band of a score of 50 + above / unit; the last one covers its bound.
BandIndex(above, unit) ==
    LET higher == {i \in DOMAIN Bands : above < (Bands[i].upper - 50) * unit}
    IN  IF higher = {} THEN Len(Bands) ELSE Min(higher)

NeutralIndex == BandIndex(0, 1)

Ungated(index, confidence) == Bands[index].floor * confidence[2] <= 100 * confidence[1]

\* Gates the label that praises, not those that ask for a trim.
LabelGatingPraise(above, unit, confidence) ==
    LET toward[i \in DOMAIN Bands] ==
            IF Ungated(i, confidence) \/ i >= NeutralIndex THEN i ELSE toward[i + 1]
    IN  toward[BandIndex(above, unit)]

\* apply_label: step by step toward neutral until the floor is met.
Label(above, unit, confidence) ==
    LET toward[i \in DOMAIN Bands] ==
            IF Ungated(i, confidence) \/ i = NeutralIndex THEN i
            ELSE toward[IF i < NeutralIndex THEN i + 1 ELSE i - 1]
    IN  toward[BandIndex(above, unit)]

DataQuality(combined) ==
    LET n == Cardinality(combined.participating)
    IN  IF n = 0 THEN "no_evidence"
        ELSE IF combined.size < 15 \/ n <= 2 THEN "sparse"
        ELSE IF 2 * combined.dissent[1] >= combined.dissent[2] THEN "conflicted"
        ELSE IF n >= 4 /\ combined.size >= 30 /\ 4 * combined.dissent[1] <= combined.dissent[2] THEN "strong"
        ELSE "moderate"

\* assess_trim: E is 50 + evidence / unit, the score 50 + above / unit.
AssessTrim(combined, position) ==
    LET unit     == 12 * combined.confidence[2]
        deviance == -12 * combined.confidence[1] * combined.edge
        overlay  == combined.confidence[2] * Adjustment(position)
        above    == Larger(-50 * unit, Smaller(50 * unit, deviance + overlay))
    IN  [unit |-> unit, evidence |-> deviance, overlay |-> overlay, above |-> above,
         label |-> IF combined.participating = {} THEN "Insufficient Evidence"
                   ELSE Bands[Label(above, unit, combined.confidence)].label,
         quality |-> DataQuality(combined),
         drivers |-> {m \in combined.participating : combined.shares[m] < 0}]

----------------------------------------------------------------------------
(***************************************************************************)
(* Attribution: lines, as fractions << n, d >> of a unit of the score.     *)
(***************************************************************************)

ModelLine(combined, trim, m) ==
    IF combined.pull = 0 THEN << 0, 1 >> ELSE << trim.evidence * combined.shares[m], combined.pull >>

ConcentrationUncapped(combined, position) ==
    LET raw == WeightTerm(position) + RiskTerm(position)
        own == WeightTerm(position) + Larger(RiskTerm(position), 0)
    IN  << combined.confidence[2] * own * (IF raw = 0 THEN 1 ELSE raw), IF raw = 0 THEN 1 ELSE raw >>

\* The overlay in two, both scaled alike if it was capped.
Concentration(combined, position) ==
    LET raw == WeightTerm(position) + RiskTerm(position)
        own == WeightTerm(position) + Larger(RiskTerm(position), 0)
    IN  IF raw = 0 THEN << combined.confidence[2] * own, 1 >>
        ELSE << combined.confidence[2] * own * Adjustment(position), raw >>

Diversification(combined, position) ==
    LET raw == WeightTerm(position) + RiskTerm(position)
        own == Smaller(RiskTerm(position), 0)
    IN  IF raw = 0 THEN << combined.confidence[2] * own, 1 >>
        ELSE << combined.confidence[2] * own * Adjustment(position), raw >>

ClipResidual(trim) == << trim.above - (trim.evidence + trim.overlay), 1 >>

Attribute(combined, trim, position) ==
    [models |-> [m \in combined.participating |-> ModelLine(combined, trim, m)],
     concentration |-> Concentration(combined, position),
     diversification |-> Diversification(combined, position),
     clip |-> ClipResidual(trim)]

----------------------------------------------------------------------------
(***************************************************************************)
(* The write-up.  A reason is [label, excess, root].                       *)
(***************************************************************************)

Points(said) ==
    UNION {{[model |-> m, label |-> r.label, excess |-> r.excess,
             strength |-> Larger(r.root * r.excess, -r.root * r.excess)] :
               r \in said[m].reasons} : m \in {o \in Official(said) : ~said[o].neutral}}

\* Of the points of one model under one label, for or against, the strongest.
Unique(said) ==
    {p \in Points(said) :
       \A q \in Points(said) : q.model = p.model /\ q.label = p.label => q.strength <= p.strength}

\* The n strongest; among equals the code goes by their names, here all are kept.
Foremost(points, n) == {p \in points : Cardinality({q \in points : q.strength > p.strength}) < n}

Thesis(said, sign) == Foremost({p \in Unique(said) : SignOfInt(p.excess) = sign}, ThesisLimit)

\* The models whose context the next earnings date is taken from: the first that a
\* set of the shadow models evaluated yields, in the order of their hashes.
CatalystSources(said) == DOMAIN said \cap Shadow

Catalyst(said, source) == IF source = Missing THEN Missing ELSE said[source].catalyst

Recommendation(said, trim, catalyst) ==
    LET Given(sign) == Foremost(Thesis(said, sign), ReasonsGiven)
        against     == IF trim.above >= 0 THEN -1 ELSE 1
    IN  [label |-> trim.label, why |-> Given(against), conflicting |-> Given(-against), risks |-> Given(-1),
         catalyst |-> catalyst]

Review(said, omitted, position, catalyst) ==
    LET combined == Combine(said, omitted)
        trim     == AssessTrim(combined, position)
    IN  [position |-> position, combined |-> combined, trim |-> trim,
         lines |-> Attribute(combined, trim, position),
         bull |-> Thesis(said, 1), bear |-> Thesis(said, -1),
         recommendation |-> Recommendation(said, trim, catalyst)]

----------------------------------------------------------------------------
\* DecisionEvidenceEngine.gather: the next model says e, or is omitted.
GatherModel(e) ==
    /\ heard < Len(ModelOrder)
    /\ heard' = heard + 1
    /\ evidence' = IF e = Missing THEN evidence
                   ELSE [m \in DOMAIN evidence \cup {ModelOrder[heard + 1]} |->
                           IF m \in DOMAIN evidence THEN evidence[m] ELSE e]
    /\ UNCHANGED verdict

\* PortfolioIntelligenceEngine._holding for a given day, once all have been heard.
ReviewHolding(position, source) ==
    /\ heard = Len(ModelOrder) /\ verdict = Missing
    /\ IF CatalystSources(evidence) = {} THEN source = Missing ELSE source \in CatalystSources(evidence)
    /\ verdict' = Review(evidence, AllModels \ DOMAIN evidence, position, Catalyst(evidence, source))
    /\ UNCHANGED << heard, evidence >>

RulesInit == heard = 0 /\ evidence = [m \in {} |-> Missing] /\ verdict = Missing

RulesNext ==
    \/ \E e \in Evidences \cup {Missing} : GatherModel(e)
    \/ \E position \in Positions \cup {Missing}, source \in Shadow \cup {Missing} : ReviewHolding(position, source)

----------------------------------------------------------------------------
Reviewed == verdict # Missing

\* The lines of the attribution sum exactly to the trim score: the models' to the
\* distance of E from 50, the portfolio's to the adjustment that was applied, capped
\* or not, and those with the residual of the clip to the score; the models it says
\* raise the score are the drivers the assessment names (engine/attribution.py:1-28).
AttributionIsExact ==
    Reviewed =>
        LET trim     == verdict.trim
            lines    == verdict.lines
            combined == verdict.combined
            Den(n)   == IF n = 0 THEN 1 ELSE n
            raw      == WeightTerm(verdict.position) + RiskTerm(verdict.position)
        IN  /\ MapThenSumSet(LAMBDA m : lines.models[m][1], DOMAIN lines.models) = trim.evidence * Den(combined.pull)
            /\ lines.concentration[1] + lines.diversification[1] = trim.overlay * Den(raw)
            /\ trim.evidence + trim.overlay + lines.clip[1] = trim.above
            /\ trim.evidence # 0 =>
                 {m \in DOMAIN lines.models : lines.models[m][1] * lines.models[m][2] > 0} = trim.drivers

\* The label is that of the band nearest to the score's, on the way to neutral, whose
\* confidence floor is met; so it never crosses neutral, and the strongest label is
\* never given on evidence that is rated conflicted or rests on few events
\* (engine/trim.py:63-66, 251-266).
LabelIsEarned ==
    (Reviewed /\ verdict.combined.participating # {}) =>
        LET trim  == verdict.trim
            band  == BandIndex(trim.above, trim.unit)
            Met(i) == Bands[i].floor * verdict.combined.confidence[2] <= 100 * verdict.combined.confidence[1]
            Between(i) == i \in NeutralIndex .. band \cup band .. NeutralIndex
            Away(i, j) == Square(i - NeutralIndex) > Square(j - NeutralIndex)
        IN  /\ \E i \in DOMAIN Bands :
                  /\ Bands[i].label = trim.label /\ Between(i)
                  /\ Met(i) \/ i = NeutralIndex
                  /\ \A j \in DOMAIN Bands : Between(j) /\ Away(j, i) => ~Met(j)
            /\ trim.label = "Strong Trim Candidate" =>
                 trim.quality # "conflicted" /\ 2 * verdict.combined.size >= 3 * PriorEvents

\* But for the list of the shadow models and the next earnings date, a holding's review
\* is what it would be without their evidence: score, label, attribution, theses,
\* recommendation and partition of the other models (engine/evidence.py:66-70).  The
\* date does come from a shadow model (engine/intelligence.py:587), though it is part
\* of what engine/intelligence.py:13-16 says shadows are never used for.
ShadowsStayOut ==
    Reviewed =>
        [verdict EXCEPT !.combined.shadow = {}, !.recommendation.catalyst = Missing]
            = Review(Restrict(evidence, DOMAIN evidence \ Shadow), AllModels \ DOMAIN evidence,
                     verdict.position, Missing)
=============================================================================

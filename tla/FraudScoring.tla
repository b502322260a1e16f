----------------------------- MODULE FraudScoring -----------------------------
(***************************************************************************)
(* The score of a transfer: the seven rules of backend/app/fraud/rules.py  *)
(* and their combination with the isolation forest in fraud/scorer.py.     *)
(*                                                                         *)
(* Evidence is what the rules read from the database, one number per rule. *)
(* A rule yields weight * score points.  Points are counted in sixtieths,  *)
(* in which every rule is a whole number: the arithmetic is exact where    *)
(* the code's is floating point.                                           *)
(***************************************************************************)
EXTENDS Integers

CONSTANTS
    Missing,       \* no parcel, owner, name or norm to compare with, or an error
    Overlaps,      \* largest overlap with an active parcel, per cent
    Retransfers,   \* completed transfers of the parcel in 90 days
    Claims,        \* parcels transferred to the owner in 30 days
    Sizes,         \* |area - mean| in standard deviations of the other parcels
    NameRatios,    \* best match with the watchlist, per cent
    Prices,        \* price per hectare, in multiples of the district's median
    Anomalies      \* what the forest says of the features, -score_samples in hundredths

KycStatus == {"VERIFIED", "PENDING", "EXPIRED", "REJECTED", "UNKNOWN"}

\* What each rule may read.
Readings ==
    [overlap |-> Overlaps, retransfers |-> Retransfers, claims |-> Claims, size |-> Sizes,
     name |-> NameRatios, price |-> Prices, kyc |-> KycStatus \cup {Missing}, anomaly |-> Anomalies]

ASSUME ScoringAssumption ==
    /\ Missing \notin Int /\ Missing \notin KycStatus
    /\ \A f \in DOMAIN Readings \ {"kyc"} : Readings[f] \subseteq Nat \cup {Missing}

\* What score_subject may find: the rules' readings, and what the forest says of
\* the nine features.
Evidence ==
    [overlap : Overlaps, retransfers : Retransfers, claims : Claims, size : Sizes,
     name : NameRatios, price : Prices, kyc : KycStatus \cup {Missing}, anomaly : Anomalies]

-----------------------------------------------------------------------------
AtMost(x, cap) == IF x < cap THEN x ELSE cap

\* Nothing up to a threshold, then so many points a step, up to the weight.
Ramp(x, threshold, step, weight) ==
    IF x = Missing THEN 0
    ELSE IF x <= threshold THEN 0 ELSE AtMost(step * (x - threshold), weight)

\* Above 5 % the score is the whole overlap over 50 %, not its excess.
RuleGeometryOverlap(e) ==
    IF e.overlap = Missing THEN 0
    ELSE IF e.overlap <= 5 THEN 0 ELSE AtMost(36 * e.overlap, 1800)

RuleRapidRetransfer(e) == Ramp(e.retransfers, 2, 300, 1200)
RuleNinReuse(e)        == Ramp(e.claims, 3, 150, 900)
RuleSizeAnomaly(e)     == Ramp(e.size, 3, 120, 600)
RuleWatchlistName(e)   == Ramp(e.name, 85, 80, 1200)

\* |price - median| / median; the transfer itself is one of the norm.
Deviation(price) ==
    IF price = Missing THEN Missing ELSE IF price < 1 THEN 1 - price ELSE price - 1

RuleConsiderationAnomaly(e) == Ramp(Deviation(e.price), 2, 180, 900)

\* Mutant: the two ends of score_map swapped.
RuleNiraKyc_Swapped(e) ==
    CASE e.kyc \in {Missing, "VERIFIED"} -> 0
      [] e.kyc = "PENDING"  -> 1500
      [] e.kyc = "EXPIRED"  -> 1200
      [] e.kyc = "REJECTED" -> 900
      [] OTHER              -> 750

RuleNiraKyc(e) ==
    CASE e.kyc \in {Missing, "VERIFIED"} -> 0
      [] e.kyc = "PENDING"  -> 900
      [] e.kyc = "EXPIRED"  -> 1200
      [] e.kyc = "REJECTED" -> 1500
      [] OTHER              -> 750

RulesScore(e) ==
    RuleGeometryOverlap(e) + RuleRapidRetransfer(e) + RuleNinReuse(e) + RuleSizeAnomaly(e)
    + RuleWatchlistName(e) + RuleConsiderationAnomaly(e) + RuleNiraKyc(e)

\* ml_score in thirtieths: (-raw - 0.4) / 0.3 between 0 and 1, and none without a
\* model or when it fails.
MlScore(e) ==
    IF e.anomaly = Missing THEN 0
    ELSE IF e.anomaly <= 40 THEN 0 ELSE AtMost(e.anomaly - 40, 30)

\* Mutant: the forest may give all 100 points.
MlComponent_FullScale(e) == 200 * MlScore(e)

\* 60 points at most.
MlComponent(e) == 120 * MlScore(e)

\* round(): to the nearest point, a half to the even one.
Round(x) ==
    LET q == x \div 60  r == x % 60
    IN  IF r > 30 \/ (r = 30 /\ q % 2 = 1) THEN q + 1 ELSE q

RiskScore(e) == Round(AtMost(MlComponent(e) + RulesScore(e), 6000))

Recommend(risk) == IF risk >= 75 THEN "BLOCK" ELSE IF risk >= 40 THEN "FLAG" ELSE "NONE"

ScoreSubject(e) == Recommend(RiskScore(e))

-----------------------------------------------------------------------------
Severity == [NONE |-> 0, FLAG |-> 1, BLOCK |-> 2]
KycLevel == [VERIFIED |-> 0, UNKNOWN |-> 1, PENDING |-> 2, EXPIRED |-> 3, REJECTED |-> 4]

\* Reading w of f is worse than v; what is not known is no evidence.
Worse(f, w, v) ==
    /\ w # Missing /\ w # v
    /\ v = Missing \/ IF f = "kyc" THEN KycLevel[w] > KycLevel[v] ELSE w > v

\* How many rules fired.
Fired(e) ==
    LET One(points) == IF points > 0 THEN 1 ELSE 0
    IN  One(RuleGeometryOverlap(e)) + One(RuleRapidRetransfer(e)) + One(RuleNinReuse(e))
        + One(RuleSizeAnomaly(e)) + One(RuleWatchlistName(e)) + One(RuleConsiderationAnomaly(e))
        + One(RuleNiraKyc(e))
=============================================================================

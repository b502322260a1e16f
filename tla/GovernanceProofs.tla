-------------------------- MODULE GovernanceProofs --------------------------
(***************************************************************************)
(* The score of a transfer for any readings, and the scheduler's jobs for  *)
(* any replicas, transfers, districts, period and number of troubles.      *)
(***************************************************************************)
EXTENDS Governance, WellFoundedInduction, FiniteSetTheorems, TLAPS

\* A reading is a number, or missing.
Reading == Nat \cup {Missing}

LEMMA EvidenceTypes ==
    ASSUME NEW e \in Evidence
    PROVE  /\ e.overlap \in Reading /\ e.retransfers \in Reading /\ e.claims \in Reading
           /\ e.size \in Reading /\ e.name \in Reading /\ e.price \in Reading
           /\ e.anomaly \in Reading /\ e.kyc \in KycStatus \cup {Missing}
<1>1. \A f \in {"overlap", "retransfers", "claims", "size", "name", "price", "anomaly"} :
          Readings[f] \subseteq Reading
  BY ScoringAssumption DEF Readings, Reading
<1>2. /\ Readings["overlap"] = Overlaps /\ Readings["retransfers"] = Retransfers
      /\ Readings["claims"] = Claims /\ Readings["size"] = Sizes /\ Readings["name"] = NameRatios
      /\ Readings["price"] = Prices /\ Readings["anomaly"] = Anomalies
  BY DEF Readings
<1> QED
  BY <1>1, <1>2 DEF Evidence

\* The weights of rules.py: no rule gives more than its weight.
LEMMA RuleBounds ==
    ASSUME NEW e \in Evidence
    PROVE  /\ RuleGeometryOverlap(e) \in Nat /\ RuleGeometryOverlap(e) <= 1800
           /\ RuleRapidRetransfer(e) \in Nat /\ RuleRapidRetransfer(e) <= 1200
           /\ RuleNinReuse(e) \in Nat /\ RuleNinReuse(e) <= 900
           /\ RuleSizeAnomaly(e) \in Nat /\ RuleSizeAnomaly(e) <= 600
           /\ RuleWatchlistName(e) \in Nat /\ RuleWatchlistName(e) <= 1200
           /\ RuleConsiderationAnomaly(e) \in Nat /\ RuleConsiderationAnomaly(e) <= 900
           /\ RuleNiraKyc(e) \in Nat /\ RuleNiraKyc(e) <= 1500
           /\ MlScore(e) \in Nat /\ MlScore(e) <= 30
<1>1. RuleGeometryOverlap(e) \in Nat /\ RuleGeometryOverlap(e) <= 1800
  BY EvidenceTypes DEF RuleGeometryOverlap, AtMost, Reading
<1>2. RuleRapidRetransfer(e) \in Nat /\ RuleRapidRetransfer(e) <= 1200
  <2>1. e.retransfers \in Reading
    BY EvidenceTypes
  <2>2. Ramp(e.retransfers, 2, 300, 1200) \in Nat /\ Ramp(e.retransfers, 2, 300, 1200) <= 1200
    BY <2>1 DEF Ramp, AtMost, Reading
  <2> QED
    BY <2>2 DEF RuleRapidRetransfer
<1>3. RuleNinReuse(e) \in Nat /\ RuleNinReuse(e) <= 900
  <2>1. e.claims \in Reading
    BY EvidenceTypes
  <2>2. Ramp(e.claims, 3, 150, 900) \in Nat /\ Ramp(e.claims, 3, 150, 900) <= 900
    BY <2>1 DEF Ramp, AtMost, Reading
  <2> QED
    BY <2>2 DEF RuleNinReuse
<1>4. RuleSizeAnomaly(e) \in Nat /\ RuleSizeAnomaly(e) <= 600
  <2>1. e.size \in Reading
    BY EvidenceTypes
  <2>2. Ramp(e.size, 3, 120, 600) \in Nat /\ Ramp(e.size, 3, 120, 600) <= 600
    BY <2>1 DEF Ramp, AtMost, Reading
  <2> QED
    BY <2>2 DEF RuleSizeAnomaly
<1>5. RuleWatchlistName(e) \in Nat /\ RuleWatchlistName(e) <= 1200
  <2>1. e.name \in Reading
    BY EvidenceTypes
  <2>2. Ramp(e.name, 85, 80, 1200) \in Nat /\ Ramp(e.name, 85, 80, 1200) <= 1200
    BY <2>1 DEF Ramp, AtMost, Reading
  <2> QED
    BY <2>2 DEF RuleWatchlistName
<1>6. RuleConsiderationAnomaly(e) \in Nat /\ RuleConsiderationAnomaly(e) <= 900
  <2>1. Deviation(e.price) \in Reading
    BY EvidenceTypes DEF Deviation, Reading
  <2>2. Ramp(Deviation(e.price), 2, 180, 900) \in Nat /\ Ramp(Deviation(e.price), 2, 180, 900) <= 900
    BY <2>1 DEF Ramp, AtMost, Reading
  <2> QED
    BY <2>2 DEF RuleConsiderationAnomaly
<1>7. RuleNiraKyc(e) \in Nat /\ RuleNiraKyc(e) <= 1500
  BY EvidenceTypes DEF RuleNiraKyc, KycStatus
<1>8. MlScore(e) \in Nat /\ MlScore(e) <= 30
  BY EvidenceTypes DEF MlScore, AtMost, Reading
<1> QED
  BY <1>1, <1>2, <1>3, <1>4, <1>5, <1>6, <1>7, <1>8

\* Rounding moves a score by half a point at most, and keeps the order.
LEMMA RoundBounds ==
    ASSUME NEW x \in Nat
    PROVE  Round(x) \in Nat /\ 60 * Round(x) <= x + 30 /\ x <= 60 * Round(x) + 30
<1> DEFINE q == x \div 60
           r == x % 60
<1>1. q \in Nat /\ r \in 0..59 /\ x = 60 * q + r
  OBVIOUS
<1>2. Round(x) = IF r > 30 \/ (r = 30 /\ q % 2 = 1) THEN q + 1 ELSE q
  BY DEF Round
<1> QED
  BY <1>1, <1>2

LEMMA RoundMonotone ==
    ASSUME NEW x \in Nat, NEW y \in Nat, x <= y
    PROVE  Round(x) <= Round(y)
<1>1. CASE x = y
  BY <1>1, RoundBounds
<1>2. CASE x \div 60 < y \div 60
  <2>1. Round(x) <= (x \div 60) + 1 /\ y \div 60 <= Round(y)
    BY DEF Round
  <2> QED
    BY <1>2, <2>1, RoundBounds
<1>3. CASE x \div 60 = y \div 60
  <2>1. x % 60 <= y % 60
    BY <1>3
  <2> QED
    BY <1>3, <2>1 DEF Round
<1>4. x \div 60 <= y \div 60
  OBVIOUS
<1> QED
  BY <1>2, <1>3, <1>4

\* One reading gets worse, the others stay: rules and model give at least as much.
LEMMA ScoreMonotone ==
    ASSUME NEW e \in Evidence, NEW f \in DOMAIN Readings, NEW w \in Readings[f], Worse(f, w, e[f])
    PROVE  /\ [e EXCEPT ![f] = w] \in Evidence
           /\ RulesScore(e) <= RulesScore([e EXCEPT ![f] = w])
           /\ MlScore(e) <= MlScore([e EXCEPT ![f] = w])
<1> DEFINE d == [e EXCEPT ![f] = w]
<1>1. f \in {"overlap", "retransfers", "claims", "size", "name", "price", "kyc", "anomaly"}
  BY DEF Readings
<1>2. d \in Evidence
  BY <1>1 DEF Readings, Evidence
<1>3. \A g \in {"overlap", "retransfers", "claims", "size", "name", "price", "kyc", "anomaly"} :
         d[g] = IF g = f THEN w ELSE e[g]
  BY <1>1 DEF Evidence
<1> HIDE DEF d
<1>4. RuleGeometryOverlap(e) <= RuleGeometryOverlap(d)
  <2>1. CASE f = "overlap"
    <3>1. Worse("overlap", d.overlap, e.overlap)
      BY <1>3, <2>1
    <3> QED
      BY <1>2, <3>1, EvidenceTypes, ScoringAssumption DEF Worse, RuleGeometryOverlap, AtMost, Reading
  <2>2. CASE f # "overlap"
    <3>1. d.overlap = e.overlap
      BY <1>3, <2>2
    <3>2. RuleGeometryOverlap(d) = RuleGeometryOverlap(e)
      BY <3>1 DEF RuleGeometryOverlap
    <3> QED
      BY <3>2, RuleBounds
  <2> QED
    BY <2>1, <2>2
<1>5. RuleRapidRetransfer(e) <= RuleRapidRetransfer(d)
  <2>1. CASE f = "retransfers"
    <3>1. Worse("retransfers", d.retransfers, e.retransfers)
      BY <1>3, <2>1
    <3> QED
      BY <1>2, <3>1, EvidenceTypes, ScoringAssumption DEF Worse, RuleRapidRetransfer, Ramp, AtMost, Reading
  <2>2. CASE f # "retransfers"
    <3>1. d.retransfers = e.retransfers
      BY <1>3, <2>2
    <3>2. RuleRapidRetransfer(d) = RuleRapidRetransfer(e)
      BY <3>1 DEF RuleRapidRetransfer
    <3> QED
      BY <3>2, RuleBounds
  <2> QED
    BY <2>1, <2>2
<1>6. RuleNinReuse(e) <= RuleNinReuse(d)
  <2>1. CASE f = "claims"
    <3>1. Worse("claims", d.claims, e.claims)
      BY <1>3, <2>1
    <3> QED
      BY <1>2, <3>1, EvidenceTypes, ScoringAssumption DEF Worse, RuleNinReuse, Ramp, AtMost, Reading
  <2>2. CASE f # "claims"
    <3>1. d.claims = e.claims
      BY <1>3, <2>2
    <3>2. RuleNinReuse(d) = RuleNinReuse(e)
      BY <3>1 DEF RuleNinReuse
    <3> QED
      BY <3>2, RuleBounds
  <2> QED
    BY <2>1, <2>2
<1>7. RuleSizeAnomaly(e) <= RuleSizeAnomaly(d)
  <2>1. CASE f = "size"
    <3>1. Worse("size", d.size, e.size)
      BY <1>3, <2>1
    <3> QED
      BY <1>2, <3>1, EvidenceTypes, ScoringAssumption DEF Worse, RuleSizeAnomaly, Ramp, AtMost, Reading
  <2>2. CASE f # "size"
    <3>1. d.size = e.size
      BY <1>3, <2>2
    <3>2. RuleSizeAnomaly(d) = RuleSizeAnomaly(e)
      BY <3>1 DEF RuleSizeAnomaly
    <3> QED
      BY <3>2, RuleBounds
  <2> QED
    BY <2>1, <2>2
<1>8. RuleWatchlistName(e) <= RuleWatchlistName(d)
  <2>1. CASE f = "name"
    <3>1. Worse("name", d.name, e.name)
      BY <1>3, <2>1
    <3> QED
      BY <1>2, <3>1, EvidenceTypes, ScoringAssumption DEF Worse, RuleWatchlistName, Ramp, AtMost, Reading
  <2>2. CASE f # "name"
    <3>1. d.name = e.name
      BY <1>3, <2>2
    <3>2. RuleWatchlistName(d) = RuleWatchlistName(e)
      BY <3>1 DEF RuleWatchlistName
    <3> QED
      BY <3>2, RuleBounds
  <2> QED
    BY <2>1, <2>2
<1>9. RuleConsiderationAnomaly(e) <= RuleConsiderationAnomaly(d)
  <2>1. CASE f = "price"
    <3>1. Worse("price", d.price, e.price)
      BY <1>3, <2>1
    <3> QED
      BY <1>2, <3>1, EvidenceTypes, ScoringAssumption DEF Worse, RuleConsiderationAnomaly, Deviation, Ramp, AtMost, Reading
  <2>2. CASE f # "price"
    <3>1. d.price = e.price
      BY <1>3, <2>2
    <3>2. RuleConsiderationAnomaly(d) = RuleConsiderationAnomaly(e)
      BY <3>1 DEF RuleConsiderationAnomaly
    <3> QED
      BY <3>2, RuleBounds
  <2> QED
    BY <2>1, <2>2
<1>10. RuleNiraKyc(e) <= RuleNiraKyc(d)
  <2>1. CASE f = "kyc"
    <3>1. Worse("kyc", d.kyc, e.kyc)
      BY <1>3, <2>1
    <3> QED
      BY <1>2, <3>1, EvidenceTypes, ScoringAssumption DEF Worse, RuleNiraKyc, KycStatus, KycLevel
  <2>2. CASE f # "kyc"
    <3>1. d.kyc = e.kyc
      BY <1>3, <2>2
    <3>2. RuleNiraKyc(d) = RuleNiraKyc(e)
      BY <3>1 DEF RuleNiraKyc
    <3> QED
      BY <3>2, RuleBounds
  <2> QED
    BY <2>1, <2>2
<1>11. MlScore(e) <= MlScore(d)
  <2>1. CASE f = "anomaly"
    <3>1. Worse("anomaly", d.anomaly, e.anomaly)
      BY <1>3, <2>1
    <3> QED
      BY <1>2, <3>1, EvidenceTypes, ScoringAssumption DEF Worse, MlScore, AtMost, Reading
  <2>2. CASE f # "anomaly"
    <3>1. d.anomaly = e.anomaly
      BY <1>3, <2>2
    <3>2. MlScore(d) = MlScore(e)
      BY <3>1 DEF MlScore
    <3> QED
      BY <3>2, RuleBounds
  <2> QED
    BY <2>1, <2>2
<1>12. RulesScore(e) <= RulesScore(d)
  BY <1>2, <1>4, <1>5, <1>6, <1>7, <1>8, <1>9, <1>10, RuleBounds DEF RulesScore
<1> QED
  BY <1>2, <1>11, <1>12 DEF d

\* The score of a transfer: at most 100 points, and no lower for a larger sum.
LEMMA OutcomeMonotone ==
    ASSUME NEW x \in Nat, NEW y \in Nat, x <= y
    PROVE  Severity[Recommend(Round(AtMost(x, 6000)))] <= Severity[Recommend(Round(AtMost(y, 6000)))]
<1>1. AtMost(x, 6000) \in Nat /\ AtMost(y, 6000) \in Nat /\ AtMost(x, 6000) <= AtMost(y, 6000)
  BY DEF AtMost
<1>2. /\ Round(AtMost(x, 6000)) <= Round(AtMost(y, 6000))
      /\ Round(AtMost(x, 6000)) \in Nat /\ Round(AtMost(y, 6000)) \in Nat
  BY <1>1, RoundMonotone, RoundBounds
<1> QED
  BY <1>2 DEF Recommend, Severity

\* For any reading of any transfer: a worse one never lowers the recommendation.
LEMMA WorseNeverHelps ==
    ASSUME NEW e \in Evidence, NEW f \in DOMAIN Readings, NEW w \in Readings[f], Worse(f, w, e[f])
    PROVE  Severity[ScoreSubject(e)] <= Severity[ScoreSubject([e EXCEPT ![f] = w])]
<1> DEFINE d == [e EXCEPT ![f] = w]
<1>1. d \in Evidence /\ RulesScore(e) <= RulesScore(d) /\ MlScore(e) <= MlScore(d)
  BY ScoreMonotone
<1> HIDE DEF d
<1>2. RulesScore(e) \in Nat /\ RulesScore(d) \in Nat /\ MlScore(e) \in Nat /\ MlScore(d) \in Nat
  BY <1>1, RuleBounds DEF RulesScore
<1> DEFINE x == MlComponent(e) + RulesScore(e)
           y == MlComponent(d) + RulesScore(d)
<1>3. x \in Nat /\ y \in Nat /\ x <= y
  BY <1>1, <1>2 DEF MlComponent
<1> HIDE DEF x, y
<1>4. Severity[Recommend(Round(AtMost(x, 6000)))] <= Severity[Recommend(Round(AtMost(y, 6000)))]
  BY <1>3, OutcomeMonotone
<1> QED
  BY <1>4 DEF x, y, d, ScoreSubject, RiskScore

\* Without the forest, one rule is worth 1800 at most and two are worth 3300; the
\* forest is worth 3600.
LEMMA Corroborated ==
    ASSUME NEW e \in Evidence
    PROVE  /\ ScoreSubject(e) # "NONE" => MlComponent(e) > 0 \/ Fired(e) >= 2
           /\ ScoreSubject(e) = "BLOCK" => Fired(e) >= 1 /\ (MlComponent(e) > 0 \/ Fired(e) >= 3)
<1> DEFINE x == AtMost(MlComponent(e) + RulesScore(e), 6000)
<1>1. MlComponent(e) \in Nat /\ MlComponent(e) <= 3600 /\ RulesScore(e) \in Nat
  BY RuleBounds DEF MlComponent, RulesScore
<1>2. x \in Nat /\ x <= MlComponent(e) + RulesScore(e)
  BY <1>1 DEF AtMost
<1>3. Round(x) \in Nat /\ 60 * Round(x) <= x + 30
  BY <1>2, RoundBounds
<1>4. ScoreSubject(e) = Recommend(Round(x))
  BY DEF ScoreSubject, RiskScore
<1> HIDE DEF x
<1>5. ScoreSubject(e) # "NONE" => x >= 2370
  BY <1>2, <1>3, <1>4 DEF Recommend
<1>6. ScoreSubject(e) = "BLOCK" => x >= 4470
  BY <1>2, <1>3, <1>4 DEF Recommend
<1>7. /\ Fired(e) < 1 => RulesScore(e) = 0
      /\ Fired(e) < 2 => RulesScore(e) <= 1800
      /\ Fired(e) < 3 => RulesScore(e) <= 3300
      /\ Fired(e) \in Nat
  BY RuleBounds DEF Fired, RulesScore
<1> QED
  BY <1>1, <1>2, <1>5, <1>6, <1>7

-----------------------------------------------------------------------------
NoCron == "cron" \notin troubles
NoOutage == "outage" \notin troubles

\* While nothing has gone wrong, whoever runs a job holds the lock, and is alone.
LeaderAlone ==
    /\ ~ redisUp => ~ NoOutage
    /\ Running(Cron) => ~ NoCron
    /\ ~ slow /\ NoOutage /\ NoCron =>
          /\ ~ overlapped
          /\ \A r \in Replica : Running(r) => lock > 0

\* While no two jobs have overlapped, only one is running; the rows it still has
\* to escalate had no event yet, and no row has had two.
JobAlone ==
    ~ overlapped =>
      /\ \A i, j \in Runner : Running(i) /\ Running(j) => i = j
      /\ \A t \in Transfer : escalations[t] <= 1
      /\ \A t \in Transfer : escalations[t] > 0 => reviews[t].escalated
      /\ \A j \in Runner : runners[j].at \in {"escalate", "emit"} =>
            \A t \in runners[j].rows : escalations[t] = 0

\* A job that works on rows has rows.
HasRows == \A j \in Runner : runners[j].at \in {"escalate", "emit"} => runners[j].rows # {}

RunnerState == [at : {"asleep", "select", "escalate", "emit", "parity"}, rows : SUBSET Transfer]
ReviewState == [state : {"none", "PENDING_REVIEW", "DECIDED"}, overdue : BOOLEAN, escalated : BOOLEAN]

\* The row a job turns to next, among those it has.
RowOf(rows) == CHOOSE t \in rows : TRUE

\* The row whose event a job is about to write is stamped.
EmitsStamped ==
    \A j \in Runner : runners[j].at = "emit" => reviews[RowOf(runners[j].rows)].escalated

LEMMA RowOfJob ==
    ASSUME GovernanceTypeOK, HasRows, NEW j \in Runner, runners[j].at \in {"escalate", "emit"}
    PROVE  /\ CurrentRow(j) = RowOf(runners[j].rows)
           /\ RowOf(runners[j].rows) \in runners[j].rows /\ RowOf(runners[j].rows) \in Transfer
<1>1. runners[j].rows # {} /\ runners[j].rows \subseteq Transfer
  BY DEF HasRows, GovernanceTypeOK
<1>2. PICK t : t \in runners[j].rows
  BY <1>1
<1> QED
  BY <1>1, <1>2 DEF CurrentRow, RowOf

\* Where a runner goes: the others stay where they are.
LEMMA GoesToTypes ==
    ASSUME GovernanceTypeOK, NEW j \in Runner, NEW next \in RunnerState, GoesTo(j, next)
    PROVE  /\ runners' = [runners EXCEPT ![j] = next]
           /\ runners' \in [Runner -> RunnerState] /\ sleep' \in [Replica -> 0..Period]
<1>1. Period \in 0..Period
  BY GovernanceAssumption
<1> QED
  BY <1>1 DEF GoesTo, GovernanceTypeOK, RunnerState, Runner

LEMMA AfterEscalationType ==
    ASSUME NEW j \in Runner
    PROVE  AfterEscalation(j) \in RunnerState /\ AfterEscalation(j).at \notin {"select", "escalate", "emit"}
BY DEF AfterEscalation, Asleep, RunnerState

GovernanceInv ==
    GovernanceTypeOK /\ HasRows /\ LeaderAlone /\ JobAlone /\ EmitsStamped

LEMMA GovernanceInitInv == GovernanceInit => GovernanceInv
<1> SUFFICES ASSUME GovernanceInit PROVE GovernanceInv
  OBVIOUS
<1> USE GovernanceAssumption DEF GovernanceInit
<1>1. runners \in [Runner -> [at : {"asleep", "select", "escalate", "emit", "parity"},
                               rows : SUBSET Transfer]]
  BY DEF Asleep
<1>2. reviews \in [Transfer -> [state : {"none", "PENDING_REVIEW", "DECIDED"},
                                 overdue : BOOLEAN, escalated : BOOLEAN]]
  BY DEF NoReview
<1>3. lock \in 0..(Period - 1) /\ sleep \in [Replica -> 0..Period]
  OBVIOUS
<1>4. GovernanceTypeOK
  <2>1. scores \in [Transfer -> {"absent", "none", "clear", "alert"}]
    OBVIOUS
  <2>2. escalations \in [Transfer -> 0..2]
    OBVIOUS
  <2>3. /\ redisUp \in BOOLEAN /\ client \in [Replica -> BOOLEAN]
        /\ overlapped \in BOOLEAN /\ slow \in BOOLEAN /\ troubles \subseteq Kinds
    OBVIOUS
  <2> QED
    BY <1>1, <1>2, <1>3, <2>1, <2>2, <2>3 DEF GovernanceTypeOK
<1>5. \A j \in Runner : runners[j].at = "asleep"
  BY DEF Asleep
<1>6. HasRows /\ LeaderAlone /\ JobAlone /\ EmitsStamped
  BY <1>5 DEF HasRows, LeaderAlone, JobAlone, EmitsStamped, Running, Runner, NoCron, NoOutage
<1> QED
  BY <1>4, <1>6 DEF GovernanceInv

\* The types, action by action.
LEMMA GovernanceTypeStep ==
    ASSUME GovernanceTypeOK, HasRows, [GovernanceNext]_govVars
    PROVE  GovernanceTypeOK'
<1> USE GovernanceAssumption DEF GovernanceTypeOK
<1>a. ASSUME NEW kind \in Kinds, Trouble(kind) PROVE troubles' \subseteq Kinds
  BY <1>a DEF Trouble
<1>b. "outage" \in Kinds /\ "failure" \in Kinds /\ "death" \in Kinds /\ "cron" \in Kinds
  BY DEF Kinds
<1>c. \A r \in Replica : r \in Runner
  BY DEF Runner
<1>d. Asleep \in RunnerState
  BY DEF Asleep, RunnerState
<1>1. ASSUME NEW t \in Transfer, File(t) PROVE GovernanceTypeOK'
  BY <1>1 DEF File, queue, scheduler, history
<1>2. ASSUME NEW t \in Transfer, ReadEvidence(t) PROVE GovernanceTypeOK'
  BY <1>2 DEF ReadEvidence, queue, scheduler, history
<1>3. CASE PersistScore
  <2>1. evidence[1] \in Transfer
    BY <1>3 DEF PersistScore
  <2>2. scores' \in [Transfer -> {"absent", "none", "clear", "alert"}]
    BY <1>3, <2>1 DEF PersistScore
  <2>3. reviews' \in [Transfer -> ReviewState]
    BY <1>3, <2>1 DEF PersistScore, ReviewState
  <2> QED
    BY <1>3, <2>2, <2>3 DEF PersistScore, ReviewState, scheduler, history
<1>4. ASSUME NEW t \in Transfer, Decide(t) \/ BecomesOverdue(t) PROVE GovernanceTypeOK'
  <2>1. reviews' \in [Transfer -> ReviewState]
    <3>1. CASE Decide(t)
      <4> DEFINE row == [reviews[t] EXCEPT !.state = "DECIDED", !.overdue = FALSE]
      <4>1. reviews \in [Transfer -> ReviewState] /\ reviews[t] \in ReviewState
        BY DEF ReviewState
      <4>2. row \in ReviewState
        BY <4>1 DEF ReviewState
      <4>3. reviews' = [reviews EXCEPT ![t] = row]
        BY <3>1 DEF Decide
      <4> HIDE DEF row
      <4> QED
        BY <4>1, <4>2, <4>3
    <3>2. CASE BecomesOverdue(t)
      BY <3>2 DEF BecomesOverdue, ReviewState
    <3> QED
      BY <1>4, <3>1, <3>2
  <2> QED
    BY <1>4, <2>1 DEF Decide, BecomesOverdue, ReviewState, scoring, scheduler, history
<1>5. ASSUME NEW j \in Runner, StartJob(j)
      PROVE  runners' \in [Runner -> RunnerState] /\ overlapped' \in BOOLEAN
  BY <1>5 DEF StartJob, RunnerState
<1>6. ASSUME NEW r \in Replica, Lead(r) \/ LeadAlone(r) PROVE GovernanceTypeOK'
  <2>1. runners' \in [Runner -> RunnerState] /\ overlapped' \in BOOLEAN
    BY <1>5, <1>6, <1>c DEF Lead, LeadAlone
  <2>2. Lease \in 0..(Period - 1)
    BY DEF Lease
  <2> QED
    BY <1>6, <2>1, <2>2 DEF Lead, LeadAlone, RunnerState, scoring, queue
<1>7. ASSUME NEW r \in Replica, SkipTick(r) PROVE GovernanceTypeOK'
  <2>1. sleep' \in [Replica -> 0..Period]
    BY <1>7 DEF SkipTick
  <2>2. client' \in [Replica -> BOOLEAN]
    BY <1>7 DEF SkipTick
  <2> QED
    BY <1>7, <2>1, <2>2 DEF SkipTick, scoring, queue, history
<1>8. CASE StartCron
  <2>1. runners' \in [Runner -> RunnerState] /\ overlapped' \in BOOLEAN
    BY <1>5, <1>8 DEF StartCron, Runner
  <2>2. troubles' \subseteq Kinds
    BY <1>8, <1>a, <1>b DEF StartCron
  <2> QED
    BY <1>8, <2>1, <2>2 DEF StartCron, RunnerState, scoring, queue
<1>9. ASSUME NEW j \in Runner, SelectOverdue(j) PROVE GovernanceTypeOK'
  <2> DEFINE next == IF OverdueRows = {} THEN AfterEscalation(j)
                     ELSE [at |-> "escalate", rows |-> OverdueRows]
  <2>1. next \in RunnerState
    BY AfterEscalationType DEF OverdueRows, RunnerState
  <2>2. GoesTo(j, next)
    BY <1>9 DEF SelectOverdue
  <2>3. runners' \in [Runner -> RunnerState] /\ sleep' \in [Replica -> 0..Period]
    <3> HIDE DEF next
    <3> QED
      BY <2>1, <2>2, GoesToTypes
  <2> QED
    BY <1>9, <2>3 DEF SelectOverdue, RunnerState, scoring, queue, history
<1>10. ASSUME NEW j \in Runner, StampRow(j) PROVE GovernanceTypeOK'
  <2>1. CurrentRow(j) \in Transfer
    BY <1>10, RowOfJob DEF StampRow
  <2>2. reviews' \in [Transfer -> ReviewState]
    BY <1>10, <2>1 DEF StampRow, ReviewState
  <2>3. runners' \in [Runner -> RunnerState]
    BY <1>10 DEF StampRow, RunnerState
  <2> QED
    BY <1>10, <2>2, <2>3 DEF StampRow, ReviewState, RunnerState, scoring, history
<1>11. ASSUME NEW j \in Runner, NextRow(j)
       PROVE  runners' \in [Runner -> RunnerState] /\ sleep' \in [Replica -> 0..Period]
  <2> DEFINE left == runners[j].rows \ {CurrentRow(j)}
             next == IF left = {} THEN AfterEscalation(j) ELSE [at |-> "escalate", rows |-> left]
  <2>1. left \subseteq Transfer
    OBVIOUS
  <2>2. next \in RunnerState
    BY <2>1, AfterEscalationType DEF RunnerState
  <2>3. GoesTo(j, next)
    BY <1>11 DEF NextRow
  <2> HIDE DEF next
  <2> QED
    BY <2>2, <2>3, GoesToTypes
<1>12. ASSUME NEW j \in Runner, EmitEscalated(j) PROVE GovernanceTypeOK'
  <2>1. escalations' \in [Transfer -> 0..2]
    <3>1. CurrentRow(j) \in Transfer
      BY <1>12, RowOfJob DEF EmitEscalated
    <3>2. escalations[CurrentRow(j)] \in 0..2
      BY <3>1
    <3> QED
      BY <1>12, <3>1, <3>2 DEF EmitEscalated
  <2>2. runners' \in [Runner -> RunnerState] /\ sleep' \in [Replica -> 0..Period]
    BY <1>11, <1>12 DEF EmitEscalated
  <2> QED
    BY <1>12, <2>1, <2>2 DEF EmitEscalated, RunnerState, scoring, history
<1>13. ASSUME NEW r \in Replica, ParityAudit(r) PROVE GovernanceTypeOK'
  <2>1. runners' \in [Runner -> RunnerState] /\ sleep' \in [Replica -> 0..Period]
    BY <1>13, <1>c, <1>d, GoesToTypes DEF ParityAudit
  <2> QED
    BY <1>13, <2>1 DEF ParityAudit, RunnerState, scoring, queue, history
<1>14. ASSUME NEW j \in Runner, JobFails(j) PROVE GovernanceTypeOK'
  <2>1. runners' \in [Runner -> RunnerState] /\ sleep' \in [Replica -> 0..Period]
    <3>1. CASE GoesTo(j, AfterEscalation(j))
      BY <3>1, AfterEscalationType, GoesToTypes
    <3>2. CASE NextRow(j)
      BY <1>11, <3>2
    <3> QED
      BY <1>14, <3>1, <3>2 DEF JobFails
  <2>2. troubles' \subseteq Kinds
    BY <1>14, <1>a, <1>b DEF JobFails
  <2> QED
    BY <1>14, <2>1, <2>2 DEF JobFails, RunnerState, scoring, queue
<1>15. ASSUME NEW r \in Replica, Dies(r) PROVE GovernanceTypeOK'
  <2>1. runners' \in [Runner -> RunnerState]
    BY <1>15, <1>d DEF Dies, RunnerState
  <2>2. troubles' \subseteq Kinds
    BY <1>15, <1>a, <1>b DEF Dies
  <2> QED
    BY <1>15, <2>1, <2>2 DEF Dies, RunnerState, scoring, queue
<1>16. CASE OutageBegins
  <2>1. troubles' \subseteq Kinds
    BY <1>16, <1>a, <1>b DEF OutageBegins
  <2>2. lock' \in 0..(Period - 1)
    BY <1>16 DEF OutageBegins
  <2> QED
    BY <1>16, <2>1, <2>2 DEF OutageBegins, scoring, queue
<1>17. CASE OutageEnds
  BY <1>17 DEF OutageEnds, scoring, queue, history
<1>18. CASE Tick
  <2>1. lock' \in 0..(Period - 1) /\ sleep' \in [Replica -> 0..Period]
    BY <1>18 DEF Tick, Less
  <2>2. slow' \in BOOLEAN
    BY <1>18 DEF Tick
  <2> QED
    BY <1>18, <2>1, <2>2 DEF Tick, scoring, queue
<1>19. CASE UNCHANGED govVars
  BY <1>19 DEF govVars, scoring, queue, scheduler, history
<1> QED
  BY <1>1, <1>2, <1>3, <1>4, <1>6, <1>7, <1>8, <1>9, <1>10, <1>12, <1>13, <1>14, <1>15, <1>16,
     <1>17, <1>18, <1>19
  DEF GovernanceNext, ReplicaMoves, JobMoves, Runner

\* What JobAlone says survives a step in which no job moves.
LEMMA NoJobMoves ==
    ASSUME GovernanceInv, UNCHANGED <<runners, escalations, overlapped>>,
           \A t \in Transfer : reviews[t].escalated => reviews'[t].escalated
    PROVE  HasRows' /\ JobAlone' /\ EmitsStamped'
<1>1. HasRows'
  BY DEF GovernanceInv, HasRows
<1>2. JobAlone'
  BY DEF GovernanceInv, JobAlone, Running
<1>3. EmitsStamped'
  <2> SUFFICES ASSUME NEW j \in Runner, runners[j].at = "emit"
               PROVE  reviews'[RowOf(runners[j].rows)].escalated
    BY DEF EmitsStamped
  <2>1. RowOf(runners[j].rows) \in Transfer /\ reviews[RowOf(runners[j].rows)].escalated
    BY RowOfJob DEF GovernanceInv, EmitsStamped
  <2> QED
    BY <2>1
<1> QED
  BY <1>1, <1>2, <1>3

\* And a step in which one job that runs goes on or ends, or nobody's events change.
LEMMA OneJobMoves ==
    ASSUME GovernanceInv, NEW j \in Runner, NEW next \in RunnerState,
           runners' = [runners EXCEPT ![j] = next], UNCHANGED overlapped,
           \A t \in Transfer : reviews[t].escalated => reviews'[t].escalated,
           next.at \in {"select", "escalate", "emit"} => Running(j),
           UNCHANGED escalations \/ Running(j),
           next.at \in {"escalate", "emit"} => next.rows # {},
           next.at = "emit" => reviews'[RowOf(next.rows)].escalated,
           ~ overlapped =>
             /\ \A t \in Transfer : escalations'[t] <= 1
             /\ \A t \in Transfer : escalations'[t] > 0 => reviews'[t].escalated
             /\ next.at \in {"escalate", "emit"} => \A t \in next.rows : escalations'[t] = 0
    PROVE  HasRows' /\ JobAlone' /\ EmitsStamped'
<1>1. \A i \in Runner : runners'[i] = IF i = j THEN next ELSE runners[i]
  BY DEF GovernanceInv, GovernanceTypeOK
<1>2. HasRows'
  BY <1>1 DEF GovernanceInv, HasRows
<1>3. EmitsStamped'
  <2> SUFFICES ASSUME NEW i \in Runner, runners'[i].at = "emit"
               PROVE  reviews'[RowOf(runners'[i].rows)].escalated
    BY DEF EmitsStamped
  <2>1. CASE i = j
    BY <1>1, <2>1
  <2>2. CASE i # j
    <3>1. runners'[i] = runners[i] /\ runners[i].at = "emit"
      BY <1>1, <2>2
    <3>2. RowOf(runners[i].rows) \in Transfer /\ reviews[RowOf(runners[i].rows)].escalated
      BY <3>1, RowOfJob DEF GovernanceInv, EmitsStamped
    <3> QED
      BY <3>1, <3>2
  <2> QED
    BY <2>1, <2>2
<1>4. ASSUME ~ overlapped
      PROVE  /\ \A i, k \in Runner : Running(i)' /\ Running(k)' => i = k
             /\ \A i \in Runner : runners'[i].at \in {"escalate", "emit"} =>
                   \A t \in runners'[i].rows : escalations'[t] = 0
  <2>1. \A i \in Runner : Running(i)' => Running(i)
    BY <1>1 DEF Running
  <2>2. \A i, k \in Runner : Running(i) /\ Running(k) => i = k
    BY <1>4 DEF GovernanceInv, JobAlone
  <2>3. ASSUME NEW i \in Runner, runners'[i].at \in {"escalate", "emit"}
        PROVE  \A t \in runners'[i].rows : escalations'[t] = 0
    <3>1. CASE i = j
      BY <1>1, <1>4, <2>3, <3>1
    <3>2. CASE i # j
      <4>1. runners'[i] = runners[i] /\ Running(i)
        BY <1>1, <2>3, <3>2 DEF Running
      <4>2. UNCHANGED escalations
        BY <2>2, <3>2, <4>1
      <4>3. \A t \in runners[i].rows : escalations[t] = 0
        BY <1>4, <2>3, <4>1 DEF GovernanceInv, JobAlone
      <4> QED
        BY <4>1, <4>2, <4>3
    <3> QED
      BY <3>1, <3>2
  <2> QED
    BY <2>1, <2>2, <2>3
<1>5. JobAlone'
  BY <1>4 DEF JobAlone
<1> QED
  BY <1>2, <1>3, <1>5

\* A job starts, and is found to overlap another or to be alone.
LEMMA JobStarts ==
    ASSUME GovernanceInv, NEW j \in Runner, StartJob(j), UNCHANGED <<reviews, escalations>>
    PROVE  HasRows' /\ JobAlone' /\ EmitsStamped'
<1>1. \A i \in Runner : runners'[i] = IF i = j THEN [runners[j] EXCEPT !.at = "select"] ELSE runners[i]
  BY DEF StartJob, GovernanceInv, GovernanceTypeOK
<1>2. runners'[j].at = "select" /\ \A i \in Runner \ {j} : runners'[i] = runners[i]
  BY <1>1 DEF GovernanceInv, GovernanceTypeOK
<1>3. HasRows' /\ EmitsStamped'
  BY <1>2 DEF GovernanceInv, HasRows, EmitsStamped
<1>4. JobAlone'
  <2> SUFFICES ASSUME ~ overlapped'
               PROVE  /\ \A i, k \in Runner : Running(i)' /\ Running(k)' => i = k
                      /\ \A t \in Transfer : escalations[t] <= 1
                      /\ \A t \in Transfer : escalations[t] > 0 => reviews[t].escalated
                      /\ \A i \in Runner : runners'[i].at \in {"escalate", "emit"} =>
                            \A t \in runners'[i].rows : escalations[t] = 0
    BY DEF JobAlone
  <2>1. ~ overlapped /\ \A i \in Runner \ {j} : ~ Running(i)
    BY DEF StartJob
  <2>2. \A i \in Runner \ {j} : ~ Running(i)'
    BY <1>2, <2>1 DEF Running
  <2> QED
    BY <1>2, <2>1, <2>2 DEF GovernanceInv, JobAlone
<1> QED
  BY <1>3, <1>4

\* What LeaderAlone says survives a step that starts no job and leaves the lock.
LEMMA NobodyStarts ==
    ASSUME GovernanceInv, \A i \in Runner : Running(i)' => Running(i),
           UNCHANGED <<lock, redisUp, overlapped, slow>>, troubles \subseteq troubles'
    PROVE  LeaderAlone'
BY DEF GovernanceInv, LeaderAlone, NoCron, NoOutage, Runner

LEMMA JobsMove ==
    ASSUME GovernanceInv, NEW j \in Runner, NEW next \in RunnerState,
           runners' = [runners EXCEPT ![j] = next],
           next.at \in {"select", "escalate", "emit"} => Running(j),
           UNCHANGED <<lock, redisUp, overlapped, slow>>, troubles \subseteq troubles'
    PROVE  LeaderAlone'
<1>1. \A i \in Runner : runners'[i] = IF i = j THEN next ELSE runners[i]
  BY DEF GovernanceInv, GovernanceTypeOK
<1>2. \A i \in Runner : Running(i)' => Running(i)
  BY <1>1 DEF Running
<1> QED
  BY <1>2, NobodyStarts

LEMMA GovernanceInvStep == GovernanceInv /\ [GovernanceNext]_govVars => GovernanceInv'
<1> SUFFICES ASSUME GovernanceInv, [GovernanceNext]_govVars PROVE GovernanceInv'
  OBVIOUS
<1> DEFINE Rest == HasRows /\ LeaderAlone /\ JobAlone /\ EmitsStamped
<1>0. GovernanceTypeOK /\ HasRows
  BY DEF GovernanceInv
<1>a. GovernanceTypeOK'
  BY <1>0, GovernanceTypeStep
<1> SUFFICES Rest'
  BY <1>a DEF GovernanceInv
<1>b. \A r \in Replica : r \in Runner
  BY DEF Runner
<1>c. \A kind \in Kinds : Trouble(kind) => troubles \subseteq troubles' /\ kind \in troubles'
  BY DEF Trouble
<1>d. "outage" \in Kinds /\ "failure" \in Kinds /\ "death" \in Kinds /\ "cron" \in Kinds
  BY DEF Kinds
<1>e. reviews \in [Transfer -> ReviewState]
  BY <1>0 DEF GovernanceTypeOK, ReviewState
<1>1. ASSUME UNCHANGED <<runners, escalations, lock, redisUp, overlapped, slow, troubles>>,
             \A t \in Transfer : reviews[t].escalated => reviews'[t].escalated
      PROVE  Rest'
  <2>1. \A i \in Runner : Running(i)' => Running(i)
    BY <1>1 DEF Running
  <2> QED
    BY <1>1, <2>1, NoJobMoves, NobodyStarts
<1>2. ASSUME NEW t \in Transfer, File(t) \/ ReadEvidence(t) PROVE Rest'
  BY <1>1, <1>2 DEF File, ReadEvidence, queue, scheduler, history
<1>3. CASE PersistScore
  <2>1. \A t \in Transfer : reviews[t].escalated => reviews'[t].escalated
    BY <1>3, <1>e DEF PersistScore, ReviewState
  <2> QED
    BY <1>1, <1>3, <2>1 DEF PersistScore, scheduler, history
<1>4. ASSUME NEW t \in Transfer, Decide(t) \/ BecomesOverdue(t) PROVE Rest'
  <2>1. \A u \in Transfer : reviews[u].escalated => reviews'[u].escalated
    <3>1. CASE Decide(t)
      BY <3>1, <1>e DEF Decide, ReviewState
    <3>2. CASE BecomesOverdue(t)
      BY <3>2, <1>e DEF BecomesOverdue, ReviewState
    <3> QED
      BY <1>4, <3>1, <3>2
  <2> QED
    BY <1>1, <1>4, <2>1 DEF Decide, BecomesOverdue, scheduler, history
<1>5. ASSUME NEW r \in Replica, SkipTick(r) PROVE Rest'
  BY <1>1, <1>5 DEF SkipTick, scoring, queue, history
<1>6. ASSUME NEW r \in Replica, Lead(r) PROVE Rest'
  <2>1. HasRows' /\ JobAlone' /\ EmitsStamped'
    BY <1>6, <1>b, JobStarts DEF Lead, queue
  <2>2. LeaderAlone'
    <3>1. lock = 0 /\ lock' > 0 /\ UNCHANGED <<slow, troubles, redisUp>> /\ redisUp
      BY <1>6, GovernanceAssumption DEF Lead, LockIsFree, Lease
    <3>2. \A i \in Runner \ {r} : Running(i)' => Running(i)
      BY <1>0, <1>6 DEF Lead, StartJob, Running, GovernanceTypeOK
    <3>3. r # Cron
      BY GovernanceAssumption
    <3>4. Running(Cron)' => ~ NoCron
      BY <3>2, <3>3 DEF GovernanceInv, LeaderAlone, Runner
    <3>5. ASSUME ~ slow, NoOutage, NoCron PROVE ~ overlapped'
      <4>1. \A i \in Replica : ~ Running(i)
        BY <3>1, <3>5 DEF GovernanceInv, LeaderAlone
      <4>2. ~ Running(Cron) /\ ~ overlapped
        BY <3>5 DEF GovernanceInv, LeaderAlone
      <4> QED
        BY <1>6, <4>1, <4>2 DEF Lead, StartJob, Runner
    <3> QED
      BY <3>1, <3>4, <3>5 DEF LeaderAlone, NoCron, NoOutage
  <2> QED
    BY <2>1, <2>2
<1>7. ASSUME NEW r \in Replica, LeadAlone(r) PROVE Rest'
  <2>1. HasRows' /\ JobAlone' /\ EmitsStamped'
    BY <1>7, <1>b, JobStarts DEF LeadAlone, queue
  <2>2. LeaderAlone'
    <3>1. ~ NoOutage /\ UNCHANGED <<redisUp, troubles>>
      BY <1>7 DEF LeadAlone, GovernanceInv, LeaderAlone
    <3>2. r # Cron
      BY GovernanceAssumption
    <3>3. Running(Cron)' => Running(Cron)
      BY <1>0, <1>7, <3>2 DEF LeadAlone, StartJob, Running, GovernanceTypeOK, Runner
    <3> QED
      BY <3>1, <3>3 DEF GovernanceInv, LeaderAlone, NoCron, NoOutage
  <2> QED
    BY <2>1, <2>2
<1>8. CASE StartCron
  <2>1. HasRows' /\ JobAlone' /\ EmitsStamped'
    BY <1>8, JobStarts DEF StartCron, queue, Runner
  <2>2. LeaderAlone'
    <3>1. troubles \subseteq troubles' /\ "cron" \in troubles' /\ redisUp' = redisUp
      BY <1>8, <1>c, <1>d DEF StartCron
    <3> QED
      BY <3>1 DEF GovernanceInv, LeaderAlone, NoCron, NoOutage
  <2> QED
    BY <2>1, <2>2
<1>9. ASSUME NEW j \in Runner, SelectOverdue(j) PROVE Rest'
  <2> DEFINE next == IF OverdueRows = {} THEN AfterEscalation(j)
                     ELSE [at |-> "escalate", rows |-> OverdueRows]
  <2>1. next \in RunnerState
    BY AfterEscalationType DEF OverdueRows, RunnerState
  <2>2. /\ next.at \in {"select", "escalate", "emit"} =>
              next.at = "escalate" /\ next.rows = OverdueRows /\ OverdueRows # {}
    BY AfterEscalationType
  <2>3. GoesTo(j, next) /\ Running(j)
    BY <1>9 DEF SelectOverdue, Running
  <2>4. UNCHANGED <<reviews, escalations, lock, redisUp, overlapped, slow, troubles>>
    BY <1>9 DEF SelectOverdue, queue, history
  <2>5. ASSUME ~ overlapped
        PROVE  /\ \A t \in Transfer : escalations[t] <= 1
               /\ \A t \in Transfer : escalations[t] > 0 => reviews[t].escalated
               /\ \A t \in OverdueRows : escalations[t] = 0
    <3>1. /\ \A t \in Transfer : escalations[t] <= 1
          /\ \A t \in Transfer : escalations[t] > 0 => reviews[t].escalated
      BY <2>5 DEF GovernanceInv, JobAlone
    <3>2. \A t \in Transfer : escalations[t] \in 0..2
      BY <1>0 DEF GovernanceTypeOK
    <3> QED
      BY <3>1, <3>2 DEF OverdueRows
  <2> HIDE DEF next
  <2>6. runners' = [runners EXCEPT ![j] = next]
    BY <1>0, <2>1, <2>3, GoesToTypes
  <2>7. HasRows' /\ JobAlone' /\ EmitsStamped'
    BY <2>1, <2>2, <2>3, <2>4, <2>5, <2>6, OneJobMoves
  <2>8. LeaderAlone'
    BY <2>1, <2>3, <2>4, <2>6, JobsMove
  <2> QED
    BY <2>7, <2>8
<1>10. ASSUME NEW j \in Runner, StampRow(j) PROVE Rest'
  <2> DEFINE rows == runners[j].rows
             next == [runners[j] EXCEPT !.at = "emit"]
  <2>1. runners[j] \in RunnerState /\ runners[j].at = "escalate"
    BY <1>0, <1>10 DEF StampRow, GovernanceTypeOK, RunnerState
  <2>2. CurrentRow(j) = RowOf(rows) /\ RowOf(rows) \in rows /\ RowOf(rows) \in Transfer
    BY <1>0, <2>1, RowOfJob
  <2>3. next \in RunnerState /\ next.at = "emit" /\ next.rows = rows /\ rows # {}
    BY <2>1, <2>2 DEF RunnerState
  <2>4. /\ reviews' = [reviews EXCEPT ![RowOf(rows)] = [reviews[RowOf(rows)] EXCEPT !.escalated = TRUE]]
        /\ runners' = [runners EXCEPT ![j] = next] /\ Running(j)
        /\ UNCHANGED <<escalations, lock, redisUp, overlapped, slow, troubles>>
    BY <1>10, <2>2 DEF StampRow, Running, history
  <2>5. /\ \A t \in Transfer : reviews[t].escalated => reviews'[t].escalated
        /\ reviews'[RowOf(rows)].escalated
    <3>1. \A t \in Transfer : reviews'[t] = IF t = RowOf(rows) THEN [reviews[t] EXCEPT !.escalated = TRUE]
                                            ELSE reviews[t]
      BY <1>e, <2>2, <2>4
    <3>2. reviews'[RowOf(rows)].escalated = TRUE
      BY <1>e, <2>2, <3>1 DEF ReviewState
    <3> QED
      BY <3>1, <3>2
  <2>6. ASSUME ~ overlapped
        PROVE  /\ \A t \in Transfer : escalations[t] <= 1
               /\ \A t \in Transfer : escalations[t] > 0 => reviews'[t].escalated
               /\ \A t \in rows : escalations[t] = 0
    BY <2>1, <2>5, <2>6 DEF GovernanceInv, JobAlone
  <2> HIDE DEF next, rows
  <2>7. HasRows' /\ JobAlone' /\ EmitsStamped'
    BY <2>3, <2>4, <2>5, <2>6, OneJobMoves
  <2>8. LeaderAlone'
    BY <2>3, <2>4, JobsMove
  <2> QED
    BY <2>7, <2>8
<1>11. ASSUME NEW j \in Runner, runners[j].at = "emit", NextRow(j), UNCHANGED reviews,
              UNCHANGED <<lock, redisUp, overlapped, slow>>, troubles \subseteq troubles',
              \/ UNCHANGED escalations
              \/ escalations' = [escalations EXCEPT ![CurrentRow(j)] = IF @ < 2 THEN @ + 1 ELSE @]
       PROVE  Rest'
  <2> DEFINE row == RowOf(runners[j].rows)
             left == runners[j].rows \ {row}
             next == IF left = {} THEN AfterEscalation(j) ELSE [at |-> "escalate", rows |-> left]
  <2>1. CurrentRow(j) = row /\ row \in Transfer /\ row \in runners[j].rows
    BY <1>0, <1>11, RowOfJob
  <2>2. left \subseteq Transfer /\ next \in RunnerState
    BY <1>0, AfterEscalationType DEF GovernanceTypeOK, RunnerState
  <2>3. /\ next.at \in {"select", "escalate", "emit"} =>
              next.at = "escalate" /\ next.rows = left /\ left # {}
    BY AfterEscalationType
  <2>4. GoesTo(j, next) /\ Running(j)
    BY <1>11, <2>1 DEF NextRow, Running
  <2>5. runners' = [runners EXCEPT ![j] = next]
    <3> HIDE DEF next
    <3> QED
      BY <1>0, <2>2, <2>4, GoesToTypes
  <2>6. ASSUME ~ overlapped
        PROVE  /\ \A t \in Transfer : escalations'[t] <= 1
               /\ \A t \in Transfer : escalations'[t] > 0 => reviews[t].escalated
               /\ \A t \in left : escalations'[t] = 0
    <3>1. /\ \A t \in Transfer : escalations[t] <= 1
          /\ \A t \in Transfer : escalations[t] > 0 => reviews[t].escalated
          /\ \A t \in runners[j].rows : escalations[t] = 0
      BY <1>11, <2>6 DEF GovernanceInv, JobAlone
    <3>2. reviews[row].escalated
      BY <1>11 DEF GovernanceInv, EmitsStamped
    <3>3. \A t \in Transfer \ {row} : escalations'[t] = escalations[t]
      BY <1>0, <1>11, <2>1 DEF GovernanceTypeOK
    <3>4. escalations'[row] <= 1
      <4>1. escalations[row] = 0
        BY <2>1, <3>1
      <4> QED
        BY <1>0, <1>11, <2>1, <4>1 DEF GovernanceTypeOK
    <3> HIDE DEF row
    <3> QED
      BY <2>2, <3>1, <3>2, <3>3, <3>4
  <2> HIDE DEF next, left
  <2>7. HasRows' /\ JobAlone' /\ EmitsStamped'
    BY <1>11, <2>2, <2>3, <2>4, <2>5, <2>6, OneJobMoves
  <2>8. LeaderAlone'
    BY <1>11, <2>2, <2>4, <2>5, JobsMove
  <2> QED
    BY <2>7, <2>8
<1>12. ASSUME NEW j \in Runner, EmitEscalated(j) PROVE Rest'
  BY <1>11, <1>12 DEF EmitEscalated, history
<1>13. ASSUME NEW j \in Runner, NEW next \in RunnerState, next.at \notin {"select", "escalate", "emit"},
              runners' = [runners EXCEPT ![j] = next],
              UNCHANGED <<reviews, escalations, lock, redisUp, overlapped, slow>>,
              troubles \subseteq troubles'
       PROVE  Rest'
  <2>1. ASSUME ~ overlapped
        PROVE  /\ \A t \in Transfer : escalations[t] <= 1
               /\ \A t \in Transfer : escalations[t] > 0 => reviews[t].escalated
    BY <2>1 DEF GovernanceInv, JobAlone
  <2>2. HasRows' /\ JobAlone' /\ EmitsStamped'
    BY <1>13, <2>1, OneJobMoves
  <2>3. LeaderAlone'
    BY <1>13, JobsMove
  <2> QED
    BY <2>2, <2>3
<1>14. Asleep \in RunnerState /\ Asleep.at \notin {"select", "escalate", "emit"}
  BY DEF Asleep, RunnerState
<1>15. ASSUME NEW r \in Replica, ParityAudit(r) PROVE Rest'
  <2>1. runners' = [runners EXCEPT ![r] = Asleep]
    BY <1>0, <1>15, <1>b, <1>14, GoesToTypes DEF ParityAudit
  <2> QED
    BY <1>13, <1>14, <1>15, <1>b, <2>1 DEF ParityAudit, queue, history
<1>16. ASSUME NEW j \in Runner, JobFails(j) PROVE Rest'
  <2>1. troubles \subseteq troubles' /\ UNCHANGED <<reviews, escalations, lock, redisUp, overlapped, slow>>
    BY <1>16, <1>c, <1>d DEF JobFails, queue
  <2>2. CASE GoesTo(j, AfterEscalation(j))
    <3>1. runners' = [runners EXCEPT ![j] = AfterEscalation(j)]
      BY <1>0, <2>2, AfterEscalationType, GoesToTypes
    <3> QED
      BY <1>13, <2>1, <3>1, AfterEscalationType
  <2>3. CASE runners[j].at = "emit" /\ NextRow(j)
    BY <1>11, <2>1, <2>3
  <2> QED
    BY <1>16, <2>2, <2>3 DEF JobFails
<1>17. ASSUME NEW r \in Replica, Dies(r) PROVE Rest'
  <2>1. troubles \subseteq troubles'
    BY <1>17, <1>c, <1>d DEF Dies
  <2> QED
    BY <1>13, <1>14, <1>17, <1>b, <2>1 DEF Dies, queue
<1>18. CASE OutageBegins
  <2>1. troubles \subseteq troubles' /\ "outage" \in troubles'
    BY <1>18, <1>c, <1>d DEF OutageBegins
  <2>2. HasRows' /\ JobAlone' /\ EmitsStamped'
    BY <1>18, NoJobMoves DEF OutageBegins, queue
  <2>3. LeaderAlone'
    BY <1>18, <2>1 DEF OutageBegins, GovernanceInv, LeaderAlone, NoCron, NoOutage, Running
  <2> QED
    BY <2>2, <2>3
<1>19. CASE OutageEnds
  <2>1. HasRows' /\ JobAlone' /\ EmitsStamped'
    BY <1>19, NoJobMoves DEF OutageEnds, queue, history
  <2>2. LeaderAlone'
    BY <1>19 DEF OutageEnds, GovernanceInv, LeaderAlone, NoCron, NoOutage, Running, history
  <2> QED
    BY <2>1, <2>2
<1>20. CASE Tick
  <2>1. HasRows' /\ JobAlone' /\ EmitsStamped'
    BY <1>20, NoJobMoves DEF Tick, queue
  <2>2. LeaderAlone'
    <3>1. lock \in Nat /\ lock' = IF lock = 0 THEN 0 ELSE lock - 1
      BY <1>0, <1>20 DEF GovernanceTypeOK, Tick, Less
    <3>2. ~ slow' => ~ slow /\ (lock = 1 => \A r \in Replica : ~ Running(r))
      BY <1>20 DEF Tick
    <3> QED
      BY <1>20, <3>1, <3>2 DEF Tick, GovernanceInv, LeaderAlone, NoCron, NoOutage, Running
  <2> QED
    BY <2>1, <2>2
<1>21. CASE UNCHANGED govVars
  BY <1>1, <1>21 DEF govVars, scoring, queue, scheduler, history
<1> QED
  BY <1>2, <1>3, <1>4, <1>5, <1>6, <1>7, <1>8, <1>9, <1>10, <1>12, <1>15, <1>16, <1>17,
     <1>18, <1>19, <1>20, <1>21
  DEF GovernanceNext, ReplicaMoves, JobMoves, Runner

LEMMA GovernanceInvariant == GovernanceSpec => []GovernanceInv
BY GovernanceInitInv, GovernanceInvStep, PTL DEF GovernanceSpec

-----------------------------------------------------------------------------
Announced(t) ==
    /\ escalations[t] > 0 => reviews[t].escalated
    /\ reviews[t].escalated /\ escalations[t] = 0 =>
          \/ "failure" \in troubles \/ "death" \in troubles
          \/ \E j \in Runner : runners[j].at = "emit" /\ RowOf(runners[j].rows) = t

\* What is said of a mark outlasts every step that leaves it, and the jobs about to
\* write its event, alone.
LEMMA AnnouncedStays ==
    ASSUME NEW t \in Transfer, Announced(t),
           UNCHANGED escalations, reviews'[t].escalated = reviews[t].escalated,
           troubles \subseteq troubles',
           \A j \in Runner : runners[j].at = "emit" => runners'[j] = runners[j]
    PROVE  Announced(t)'
BY DEF Announced

LEMMA AnnouncedStep ==
    ASSUME GovernanceInv, [GovernanceNext]_govVars, NEW t \in Transfer, Announced(t)
    PROVE  Announced(t)'
<1>1. GovernanceTypeOK /\ HasRows /\ EmitsStamped
  BY DEF GovernanceInv
<1>2. /\ reviews \in [Transfer -> ReviewState]
      /\ runners \in [Runner -> RunnerState]
      /\ escalations \in [Transfer -> 0..2]
  BY <1>1 DEF GovernanceTypeOK, ReviewState, RunnerState
<1>3. \A r \in Replica : r \in Runner
  BY DEF Runner
<1>4. Cron \in Runner
  BY DEF Runner
<1>5. \A kind : Trouble(kind) => troubles \subseteq troubles' /\ kind \in troubles'
  BY DEF Trouble
<1>6. ASSUME UNCHANGED <<runners, escalations, troubles>>, reviews'[t].escalated = reviews[t].escalated
      PROVE  Announced(t)'
  BY <1>6 DEF Announced
<1>7. ASSUME UNCHANGED <<escalations, reviews>>, "failure" \in troubles' \/ "death" \in troubles'
      PROVE  Announced(t)'
  BY <1>7 DEF Announced
<1>8. ASSUME NEW j \in Runner, runners[j].at # "emit", UNCHANGED <<escalations, reviews>>,
             troubles \subseteq troubles', \A i \in Runner \ {j} : runners'[i] = runners[i]
      PROVE  Announced(t)'
  BY <1>8, AnnouncedStays
<1>9. ASSUME NEW u \in Transfer, File(u) \/ ReadEvidence(u) \/ Decide(u) \/ BecomesOverdue(u)
      PROVE  Announced(t)'
  <2>1. reviews'[t].escalated = reviews[t].escalated
    BY <1>2, <1>9 DEF File, ReadEvidence, Decide, BecomesOverdue, ReviewState, queue
  <2> QED
    BY <1>6, <1>9, <2>1 DEF File, ReadEvidence, Decide, BecomesOverdue, scheduler, queue, history
<1>10. CASE PersistScore
  <2>1. reviews'[t].escalated = reviews[t].escalated
    BY <1>2, <1>10 DEF PersistScore, ReviewState
  <2> QED
    BY <1>6, <1>10, <2>1 DEF PersistScore, scheduler, history
<1>11. ASSUME NEW j \in Runner, StartJob(j), runners[j].at = "asleep", UNCHANGED queue,
              troubles \subseteq troubles'
       PROVE  Announced(t)'
  BY <1>2, <1>8, <1>11 DEF StartJob, queue
<1>12. ASSUME NEW r \in Replica, Lead(r) \/ LeadAlone(r)
       PROVE  Announced(t)'
  BY <1>3, <1>11, <1>12 DEF Lead, LeadAlone, Awake
<1>13. CASE StartCron
  BY <1>4, <1>5, <1>11, <1>13 DEF StartCron
<1>14. ASSUME NEW j \in Runner, NEW next, GoesTo(j, next)
       PROVE  \A i \in Runner \ {j} : runners'[i] = runners[i]
  BY <1>2, <1>14 DEF GoesTo
<1>15. ASSUME NEW j \in Runner, SelectOverdue(j)
       PROVE  Announced(t)'
  <2>1. \A i \in Runner \ {j} : runners'[i] = runners[i]
    BY <1>14, <1>15 DEF SelectOverdue
  <2> QED
    BY <1>8, <1>15, <2>1 DEF SelectOverdue, queue, history
<1>16. ASSUME NEW r \in Replica, ParityAudit(r)
       PROVE  Announced(t)'
  <2>1. \A i \in Runner \ {r} : runners'[i] = runners[i]
    BY <1>3, <1>14, <1>16 DEF ParityAudit
  <2> QED
    BY <1>3, <1>8, <1>16, <2>1 DEF ParityAudit, queue, history
<1>17. ASSUME NEW j \in Runner, StampRow(j)
       PROVE  Announced(t)'
  <2>1. /\ runners[j].at = "escalate" /\ UNCHANGED <<escalations, troubles>>
        /\ reviews' = [reviews EXCEPT ![CurrentRow(j)].escalated = TRUE]
        /\ runners' = [runners EXCEPT ![j].at = "emit"]
    BY <1>17 DEF StampRow, history
  <2>2. runners'[j].at = "emit" /\ runners'[j].rows = runners[j].rows
    BY <1>2, <2>1 DEF RunnerState
  <2>3. CurrentRow(j) = RowOf(runners[j].rows)
    BY <1>1, <2>1, RowOfJob
  <2>4. CASE CurrentRow(j) = t
    <3>1. reviews'[t].escalated
      BY <1>2, <2>1, <2>4 DEF ReviewState
    <3> QED
      BY <2>2, <2>3, <2>4, <3>1 DEF Announced
  <2>5. CASE CurrentRow(j) # t
    <3>1. reviews'[t] = reviews[t]
      BY <1>2, <2>1, <2>5
    <3>2. \A i \in Runner : runners[i].at = "emit" => runners'[i] = runners[i]
      BY <1>2, <2>1
    <3> QED
      BY <2>1, <3>1, <3>2, AnnouncedStays
  <2> QED
    BY <2>4, <2>5
<1>18. ASSUME NEW j \in Runner, EmitEscalated(j)
       PROVE  Announced(t)'
  <2>1. /\ runners[j].at = "emit" /\ UNCHANGED <<reviews, troubles>>
        /\ escalations' = [escalations EXCEPT ![CurrentRow(j)] = IF @ < 2 THEN @ + 1 ELSE @]
        /\ \A i \in Runner \ {j} : runners'[i] = runners[i]
    BY <1>14, <1>18 DEF EmitEscalated, NextRow, history
  <2>2. CurrentRow(j) = RowOf(runners[j].rows)
    BY <1>1, <2>1, RowOfJob
  <2>3. CASE CurrentRow(j) = t
    <3>1. escalations'[t] > 0
      BY <1>2, <2>1, <2>3
    <3>2. reviews'[t].escalated
      BY <1>1, <2>1, <2>2, <2>3 DEF EmitsStamped
    <3> QED
      BY <3>1, <3>2 DEF Announced
  <2>4. CASE CurrentRow(j) # t
    <3>1. escalations'[t] = escalations[t]
      BY <1>2, <2>1, <2>4
    <3>2. \A i \in Runner : RowOf(runners[i].rows) = t => i # j
      BY <2>2, <2>4
    <3> QED
      BY <2>1, <3>1, <3>2 DEF Announced
  <2> QED
    BY <2>3, <2>4
<1>19. ASSUME NEW j \in Runner, JobFails(j)
       PROVE  Announced(t)'
  BY <1>5, <1>7, <1>19 DEF JobFails, queue
<1>20. ASSUME NEW r \in Replica, Dies(r)
       PROVE  Announced(t)'
  BY <1>5, <1>7, <1>20 DEF Dies, queue
<1>21. CASE OutageBegins
  <2>1. UNCHANGED <<escalations, reviews, runners>> /\ troubles \subseteq troubles'
    BY <1>5, <1>21 DEF OutageBegins, queue
  <2> QED
    BY <2>1, AnnouncedStays
<1>22. ASSUME UNCHANGED <<runners, queue, troubles>>
       PROVE  Announced(t)'
  BY <1>6, <1>22 DEF queue
<1>23. ASSUME NEW r \in Replica, SkipTick(r)
       PROVE  Announced(t)'
  BY <1>22, <1>23 DEF SkipTick, history
<1>24. CASE OutageEnds \/ Tick \/ UNCHANGED govVars
  BY <1>22, <1>24 DEF OutageEnds, Tick, govVars, scheduler, history
<1> QED
  BY <1>3, <1>4, <1>9, <1>10, <1>12, <1>13, <1>15, <1>16, <1>17, <1>18, <1>19, <1>20, <1>21,
     <1>23, <1>24 DEF GovernanceNext, ReplicaMoves, JobMoves

\* With any number of replicas and reviews, a mark without its event is one whose job
\* failed or died, or is just about to write it; and no event is without its mark.
THEOREM MarksHaveEvents == GovernanceSpec => []MarksAreAnnounced
<1> DEFINE Inv == GovernanceInv /\ \A t \in Transfer : Announced(t)
<1>1. GovernanceInit => Inv
  BY GovernanceInitInv DEF GovernanceInit, Announced, NoReview
<1>2. Inv /\ [GovernanceNext]_govVars => Inv'
  BY GovernanceInvStep, AnnouncedStep
<1>3. Inv => MarksAreAnnounced
  BY DEF Announced, MarksAreAnnounced, RowOf, CurrentRow
<1> HIDE DEF Inv
<1> QED
  BY <1>1, <1>2, <1>3, PTL DEF GovernanceSpec

\* Reviews, runners, lock and clock always have their types; in particular the
\* lease ends before the tick does.
THEOREM GovernanceTypes == GovernanceSpec => []GovernanceTypeOK
<1>1. GovernanceInv => GovernanceTypeOK
  BY DEF GovernanceInv
<1> QED
  BY <1>1, GovernanceInvariant, PTL

\* With any number of replicas one runs the jobs, unless cron ran one, Redis was
\* away, or a job outlived its lease.
THEOREM AtMostOneLeads == GovernanceSpec => []OneLeader
<1>1. GovernanceInv => OneLeader
  BY DEF GovernanceInv, LeaderAlone, OneLeader, NoCron, NoOutage
<1> QED
  BY <1>1, GovernanceInvariant, PTL

\* Whatever fails or dies, no review is escalated twice unless two jobs overlapped.
THEOREM EscalationsAreSingle == GovernanceSpec => []EscalatedOnce
<1>1. GovernanceInv => EscalatedOnce
  BY DEF GovernanceInv, GovernanceTypeOK, JobAlone, EscalatedOnce
<1> QED
  BY <1>1, GovernanceInvariant, PTL

\* Monotone at every reading, not only at the ones a run enumerates.
THEOREM ScoresAreMonotone == GovernanceSpec => []WorseEvidenceNeverHelps
<1>1. GovernanceTypeOK => WorseEvidenceNeverHelps
  BY WorseNeverHelps DEF GovernanceTypeOK, WorseEvidenceNeverHelps
<1> QED
  BY <1>1, GovernanceTypes, PTL

\* No finding decides alone, at any reading.
THEOREM AlertsAreCorroborated == GovernanceSpec => []AlertIsCorroborated
<1>1. GovernanceTypeOK => AlertIsCorroborated
  BY Corroborated DEF GovernanceTypeOK, AlertIsCorroborated
<1> QED
  BY <1>1, GovernanceTypes, PTL

-----------------------------------------------------------------------------
(***************************************************************************)
(* The parity report.  Its sums, and the product that makes its rates      *)
(* whole numbers, are folds of the community modules: recursive functions  *)
(* over the subsets of a finite set.  They exist (FoldExists), and what    *)
(* they return follows by induction along the elements they take.          *)
(***************************************************************************)

\* The element a fold takes next, and one step of a sum or of a product.
Pick(s) == CHOOSE x \in s : TRUE
FoldStep(kind, a, acc) == IF kind = "sum" THEN a + acc ELSE a * acc
FoldBase(kind) == IF kind = "sum" THEN 0 ELSE 1

\* What the recursive function of a fold of v is at s, given its values below s.
FoldAt(kind, v, f, s) ==
    IF s = {} THEN FoldBase(kind) ELSE FoldStep(kind, v[Pick(s)], f[s \ {Pick(s)}])

IsFold(kind, v, S, f) == f = [s \in SUBSET S |-> FoldAt(kind, v, f, s)]

LEMMA PickIn ==
    ASSUME NEW s, s # {}
    PROVE  Pick(s) \in s
BY DEF Pick

\* What holds of {} and of a set whenever it holds of the rest after Pick holds of
\* every subset of a finite set.
LEMMA SubsetInduction ==
    ASSUME NEW S, IsFiniteSet(S), NEW T,
           {} \in T, \A s \in SUBSET S : s # {} /\ s \ {Pick(s)} \in T => s \in T
    PROVE  SUBSET S \subseteq T
<1> DEFINE R == StrictSubsetOrdering(S)
           B == (SUBSET S) \ T
<1>1. IsWellFoundedOn(R, SUBSET S)
  BY FS_StrictSubsetOrderingWellFounded, FS_FiniteSubsetsOfFinite
<1>2. SUFFICES ASSUME B # {}
               PROVE  FALSE
  OBVIOUS
<1> HIDE DEF R
<1>3. PICK b \in B : \A a \in B : ~ (<<a, b>> \in R)
  BY <1>1, <1>2, WFMin
<1>4. b # {}
  BY <1>3
<1>5. Pick(b) \in b
  BY <1>4, PickIn
<1>6. <<b \ {Pick(b)}, b>> \in R
  BY <1>3, <1>5 DEF R, StrictSubsetOrdering
<1> QED
  BY <1>3, <1>4, <1>6

\* TLA+ defines a recursive function by CHOOSE: one with these equations exists.
\* By induction on the size of the sets it is right about.
LEMMA FoldExists ==
    ASSUME NEW S, IsFiniteSet(S), NEW kind, NEW v
    PROVE  \E f : IsFold(kind, v, S, f)
<1> DEFINE Below(n) == {s \in SUBSET S : Cardinality(s) <= n}
           Good(n) == \E f : \A s \in Below(n) : f[s] = FoldAt(kind, v, f, s)
           B == {n \in Nat : ~ Good(n)}
<1>1. ASSUME NEW s \in SUBSET S
      PROVE  /\ Cardinality(s) \in Nat /\ Cardinality(s) <= Cardinality(S)
             /\ Cardinality(s) = 0 => s = {}
             /\ s # {} => Cardinality(s \ {Pick(s)}) = Cardinality(s) - 1
  <2>1. IsFiniteSet(s) /\ Cardinality(s) <= Cardinality(S)
    BY FS_Subset
  <2>2. Cardinality(s) \in Nat
    BY <2>1, FS_CardinalityType
  <2>3. Cardinality(s) = 0 => s = {}
    BY <2>1, FS_EmptySet
  <2>4. s # {} => Cardinality(s \ {Pick(s)}) = Cardinality(s) - 1
    BY <2>1, FS_RemoveElement, PickIn
  <2> QED
    BY <2>1, <2>2, <2>3, <2>4
<1>2. Good(0)
  <2> DEFINE f == [s \in SUBSET S |-> FoldBase(kind)]
  <2>1. ASSUME NEW s \in Below(0)
        PROVE  f[s] = FoldAt(kind, v, f, s)
    <3>1. s \in SUBSET S /\ Cardinality(s) <= 0
      OBVIOUS
    <3>2. Cardinality(s) \in Nat /\ (Cardinality(s) = 0 => s = {})
      BY <1>1, <3>1
    <3>3. s = {}
      BY <3>1, <3>2
    <3> QED
      BY <3>1, <3>3 DEF FoldAt
  <2> QED
    BY <2>1
<1>3. ASSUME NEW n \in Nat, Good(n)
      PROVE  Good(n + 1)
  <2>1. PICK f : \A s \in Below(n) : f[s] = FoldAt(kind, v, f, s)
    BY <1>3
  <2> DEFINE g == [s \in SUBSET S |-> FoldAt(kind, v, f, s)]
  <2>2. ASSUME NEW s \in Below(n + 1)
        PROVE  g[s] = FoldAt(kind, v, g, s)
    <3>1. s \in SUBSET S /\ g[s] = FoldAt(kind, v, f, s)
      OBVIOUS
    <3>2. CASE s = {}
      BY <3>1, <3>2 DEF FoldAt
    <3>3. CASE s # {}
      <4> DEFINE t == s \ {Pick(s)}
      <4>1. t \in SUBSET S /\ Cardinality(t) <= n
        BY <1>1, <3>1, <3>3
      <4>2. g[t] = f[t]
        BY <2>1, <4>1
      <4> HIDE DEF g
      <4> QED
        BY <3>1, <3>3, <4>2 DEF FoldAt
    <3> QED
      BY <3>2, <3>3
  <2> HIDE DEF g
  <2> QED
    BY <2>2
<1> HIDE DEF Good
<1>4. B = {}
  <2>1. SUFFICES ASSUME B # {}
                 PROVE  FALSE
    OBVIOUS
  <2> DEFINE R == OpToRel(<, Nat)
  <2>2. IsWellFoundedOn(R, Nat)
    BY NatLessThanWellFounded
  <2> HIDE DEF R
  <2>3. PICK b \in B : \A a \in B : ~ (<<a, b>> \in R)
    BY <2>1, <2>2, WFMin
  <2>4. b \in Nat \ {0} /\ b - 1 \in Nat /\ b - 1 < b /\ (b - 1) + 1 = b
    BY <1>2, <2>3
  <2>5. <<b - 1, b>> \in R
    BY <2>4 DEF R, OpToRel
  <2>6. Good(b - 1)
    BY <2>3, <2>4, <2>5
  <2> QED
    BY <1>3, <2>3, <2>4, <2>6
<1>5. Good(Cardinality(S))
  BY <1>4, FS_CardinalityType
<1>6. PICK f : \A s \in SUBSET S : f[s] = FoldAt(kind, v, f, s)
  BY <1>1, <1>5 DEF Good
<1> DEFINE h == [s \in SUBSET S |-> f[s]]
<1>7. ASSUME NEW s \in SUBSET S
      PROVE  FoldAt(kind, v, h, s) = FoldAt(kind, v, f, s)
  BY DEF FoldAt
<1>8. h = [s \in SUBSET S |-> FoldAt(kind, v, h, s)]
  BY <1>6, <1>7
<1> QED
  BY <1>8 DEF IsFold

\* The two folds of the report are such functions.
LEMMA RatesAreFold ==
    ASSUME NEW rep, IsFiniteSet(Rows(rep))
    PROVE  \E f : /\ IsFold("sum", [d \in Rows(rep) |-> Rate(rep[d])], Rows(rep), f)
                  /\ MapThenSumSet(LAMBDA d : Rate(rep[d]), Rows(rep)) = f[Rows(rep)]
<1> DEFINE v == [d \in Rows(rep) |-> Rate(rep[d])]
           Equation(f) == f = [s \in SUBSET Rows(rep) |->
               IF s = {} THEN 0
               ELSE LET x == CHOOSE y \in s : TRUE IN Rate(rep[x]) + f[s \ {x}]]
           g == CHOOSE f : Equation(f)
<1>1. ASSUME NEW f
      PROVE  IsFold("sum", v, Rows(rep), f) <=> Equation(f)
  <2>1. ASSUME NEW s \in SUBSET Rows(rep)
        PROVE  FoldAt("sum", v, f, s) = IF s = {} THEN 0
               ELSE LET x == CHOOSE y \in s : TRUE IN Rate(rep[x]) + f[s \ {x}]
    BY PickIn DEF FoldAt, FoldBase, FoldStep, Pick
  <2> QED
    BY <2>1 DEF IsFold
<1>2. MapThenSumSet(LAMBDA d : Rate(rep[d]), Rows(rep)) = g[Rows(rep)]
  BY DEF MapThenSumSet, MapThenFoldSet
<1> HIDE DEF v, Equation
<1>3. \E f : IsFold("sum", v, Rows(rep), f)
  BY FoldExists
<1>4. Equation(g)
  BY <1>1, <1>3
<1> QED
  BY <1>1, <1>2, <1>4 DEF v

LEMMA PartsIsFold ==
    ASSUME NEW n, IsFiniteSet(1..n)
    PROVE  \E f : /\ IsFold("product", [x \in 1..n |-> x], 1..n, f)
                  /\ ProductSet(1..n) = f[1..n]
<1> DEFINE v == [x \in 1..n |-> x]
           Equation(f) == f = [s \in SUBSET (1..n) |->
               IF s = {} THEN 1
               ELSE LET x == CHOOSE y \in s : TRUE IN x * f[s \ {x}]]
           g == CHOOSE f : Equation(f)
<1>1. ASSUME NEW f
      PROVE  IsFold("product", v, 1..n, f) <=> Equation(f)
  <2>1. ASSUME NEW s \in SUBSET (1..n)
        PROVE  FoldAt("product", v, f, s) = IF s = {} THEN 1
               ELSE LET x == CHOOSE y \in s : TRUE IN x * f[s \ {x}]
    <3>1. FoldBase("product") = 1 /\ \A a, b : FoldStep("product", a, b) = a * b
      BY DEF FoldBase, FoldStep
    <3>2. s # {} => v[Pick(s)] = Pick(s)
      BY PickIn
    <3> HIDE DEF v
    <3> QED
      BY <3>1, <3>2 DEF FoldAt, Pick
  <2> QED
    BY <2>1 DEF IsFold
<1>2. ProductSet(1..n) = g[1..n]
  BY DEF ProductSet, FoldSet, MapThenFoldSet
<1> HIDE DEF v, Equation
<1>3. \E f : IsFold("product", v, 1..n, f)
  BY FoldExists
<1>4. Equation(g)
  BY <1>1, <1>3
<1> QED
  BY <1>1, <1>2, <1>4 DEF v

\* A sum of equal numbers.
LEMMA SumOfEquals ==
    ASSUME NEW S, IsFiniteSet(S), NEW c \in Nat, NEW v, \A x \in S : v[x] = c,
           NEW f, IsFold("sum", v, S, f)
    PROVE  f[S] = Cardinality(S) * c
<1> DEFINE T == {s \in SUBSET S : f[s] = Cardinality(s) * c}
<1>1. {} \in T
  BY FS_EmptySet DEF IsFold, FoldAt, FoldBase
<1>2. ASSUME NEW s \in SUBSET S, s # {}, s \ {Pick(s)} \in T
      PROVE  s \in T
  <2> DEFINE r == s \ {Pick(s)}
  <2>1. f[s] = c + f[r] /\ f[r] = Cardinality(r) * c
    BY <1>2, PickIn DEF IsFold, FoldAt, FoldStep
  <2>2. IsFiniteSet(s)
    BY FS_Subset
  <2>3. Cardinality(s) \in Nat /\ Cardinality(r) = Cardinality(s) - 1
    BY <1>2, <2>2, PickIn, FS_CardinalityType, FS_RemoveElement
  <2> HIDE DEF r
  <2>4. (Cardinality(s) - 1) * c = Cardinality(s) * c - c
    BY <2>3
  <2> QED
    BY <2>1, <2>3, <2>4
<1> HIDE DEF T
<1>3. SUBSET S \subseteq T
  BY <1>1, <1>2, SubsetInduction
<1> QED
  BY <1>3 DEF T

\* Every factor divides the product.
LEMMA FactorsDivide ==
    ASSUME NEW S \in SUBSET Nat, IsFiniteSet(S), NEW f, IsFold("product", [x \in S |-> x], S, f)
    PROVE  f[S] \in Nat /\ \A x \in S : \E q \in Nat : f[S] = x * q
<1> DEFINE T == {s \in SUBSET S : f[s] \in Nat /\ \A x \in s : \E q \in Nat : f[s] = x * q}
<1>1. {} \in T
  BY DEF IsFold, FoldAt, FoldBase
<1>2. ASSUME NEW s \in SUBSET S, s # {}, s \ {Pick(s)} \in T
      PROVE  s \in T
  <2> DEFINE y == Pick(s)
             r == s \ {y}
  <2>1. y \in S /\ y \in Nat /\ f[s] = y * f[r]
    BY <1>2, PickIn DEF IsFold, FoldAt, FoldStep
  <2>2. f[r] \in Nat /\ \A x \in r : \E q \in Nat : f[r] = x * q
    BY <1>2
  <2>3. f[s] \in Nat
    BY <2>1, <2>2
  <2>4. ASSUME NEW x \in r
        PROVE  \E q \in Nat : f[s] = x * q
    <3>1. PICK q \in Nat : f[r] = x * q
      BY <2>2
    <3>2. x \in Nat
      OBVIOUS
    <3> HIDE DEF y, r
    <3>3. y * (x * q) = x * (y * q) /\ y * q \in Nat
      BY <2>1, <3>2
    <3> QED
      BY <2>1, <3>1, <3>3
  <2> QED
    BY <2>1, <2>2, <2>3, <2>4
<1> HIDE DEF T
<1>3. SUBSET S \subseteq T
  BY <1>1, <1>2, SubsetInduction
<1> QED
  BY <1>3 DEF T

LEMMA ExactQuotient ==
    ASSUME NEW t \in Nat \ {0}, NEW q \in Nat
    PROVE  (t * q) \div t = q
OBVIOUS

\* The parts divide by the size of any group.
LEMMA PartsDivide == Parts \in Nat /\ \A x \in 1..Cardinality(Transfer) : \E q \in Nat : Parts = x * q
<1> DEFINE N == Cardinality(Transfer)
<1>1. N \in Nat
  BY TablesAreFinite, FS_CardinalityType
<1>2. IsFiniteSet(1..N)
  BY <1>1, FS_Interval
<1>3. PICK f : IsFold("product", [x \in 1..N |-> x], 1..N, f) /\ ProductSet(1..N) = f[1..N]
  BY <1>2, PartsIsFold
<1>4. 1..N \in SUBSET Nat
  BY <1>1
<1> HIDE DEF N
<1>5. ProductSet(1..N) \in Nat /\ \A x \in 1..N : \E q \in Nat : ProductSet(1..N) = x * q
  BY <1>2, <1>3, <1>4, FactorsDivide
<1> QED
  BY <1>5 DEF Parts, N

\* The rate of a row is the flagged share of its transfers, in whole parts.
LEMMA RateIsShare ==
    ASSUME NEW ts \in SUBSET Transfer
    PROVE  /\ Tally(ts).total \in Nat /\ Tally(ts).flagged \in Nat
           /\ Tally(ts).flagged <= Tally(ts).total
           /\ Rate(Tally(ts)) \in Nat
           /\ Rate(Tally(ts)) * Tally(ts).total = Parts * Tally(ts).flagged
<1> DEFINE N == Cardinality(Transfer)
           row == Tally(ts)
           alerts == {t \in ts : scores[t] = "alert"}
<1>1. N \in Nat
  BY TablesAreFinite, FS_CardinalityType
<1>2. row.total = Cardinality(ts) /\ row.flagged = Cardinality(alerts)
  BY DEF Tally
<1>3. alerts \in SUBSET ts
  OBVIOUS
<1> HIDE DEF alerts
<1>4. IsFiniteSet(ts) /\ Cardinality(ts) <= N
  BY TablesAreFinite, FS_Subset
<1>5. IsFiniteSet(alerts) /\ Cardinality(alerts) <= Cardinality(ts)
  BY <1>3, <1>4, FS_Subset
<1>6. Cardinality(ts) \in Nat /\ Cardinality(alerts) \in Nat
  BY <1>4, <1>5, FS_CardinalityType
<1> HIDE DEF row, N
<1>7. row.total \in 0..N /\ row.total \in Nat /\ row.flagged \in Nat /\ row.flagged <= row.total
  BY <1>1, <1>2, <1>4, <1>5, <1>6
<1>8. Rate(row) \in Nat /\ Rate(row) * row.total = Parts * row.flagged
  <2>1. CASE row.total = 0
    <3>1. row.flagged = 0
      BY <1>7, <2>1
    <3> QED
      BY <2>1, <3>1, PartsDivide DEF Rate
  <2>2. CASE row.total # 0
    <3>1. row.total \in 1..N /\ row.total \in Nat \ {0}
      BY <1>1, <1>7, <2>2
    <3>2. PICK q \in Nat : Parts = row.total * q
      BY <3>1, PartsDivide DEF N
    <3>3. Rate(row) = row.flagged * q
      BY <2>2, <3>1, <3>2, ExactQuotient DEF Rate
    <3>4. (row.flagged * q) * row.total = (row.total * q) * row.flagged /\ row.flagged * q \in Nat
      BY <1>7, <3>1
    <3> QED
      BY <3>2, <3>3, <3>4
  <2> QED
    BY <2>1, <2>2
<1> QED
  BY <1>7, <1>8 DEF row

\* Sizes that are in proportion group by group are so over all groups.
LEMMA SharesAddUp ==
    ASSUME NEW G, IsFiniteSet(G), NEW class, NEW S, IsFiniteSet(S), NEW A \in SUBSET S,
           \A t \in S : class[t] \in G, NEW c \in Nat, NEW p \in Nat,
           \A g \in G : c * Cardinality({t \in S : class[t] = g})
                           = p * Cardinality({t \in A : class[t] = g})
    PROVE  c * Cardinality(S) = p * Cardinality(A)
<1> DEFINE Among(B, s) == {t \in B : class[t] \in s}
           T == {s \in SUBSET G : c * Cardinality(Among(S, s)) = p * Cardinality(Among(A, s))}
<1>1. {} \in T
  <2>1. Among(S, {}) = {} /\ Among(A, {}) = {}
    OBVIOUS
  <2>2. Cardinality({}) = 0
    BY FS_EmptySet
  <2> HIDE DEF Among
  <2> QED
    BY <2>1, <2>2
<1>2. ASSUME NEW s \in SUBSET G, s # {}, s \ {Pick(s)} \in T
      PROVE  s \in T
  <2> DEFINE x == Pick(s)
             r == s \ {x}
             Of(B) == {t \in B : class[t] = x}
  <2>1. x \in s /\ x \in G
    BY <1>2, PickIn
  <2>2. c * Cardinality(Among(S, r)) = p * Cardinality(Among(A, r))
    BY <1>2
  <2>3. c * Cardinality(Of(S)) = p * Cardinality(Of(A))
    BY <2>1
  <2> HIDE DEF x
  <2>4. ASSUME NEW B \in SUBSET S
        PROVE  /\ Cardinality(Among(B, r)) \in Nat /\ Cardinality(Of(B)) \in Nat
               /\ Cardinality(Among(B, s)) = Cardinality(Among(B, r)) + Cardinality(Of(B))
    <3>1. Among(B, s) = Among(B, r) \cup Of(B) /\ Among(B, r) \cap Of(B) = {}
      BY <2>1
    <3>2. Among(B, r) \in SUBSET S /\ Of(B) \in SUBSET S
      OBVIOUS
    <3> HIDE DEF Among, Of
    <3>3. IsFiniteSet(Among(B, r)) /\ IsFiniteSet(Of(B))
      BY <3>2, FS_Subset
    <3>4. Cardinality(Among(B, r)) \in Nat /\ Cardinality(Of(B)) \in Nat
      BY <3>3, FS_CardinalityType
    <3>5. Cardinality(Among(B, r) \cup Of(B))
            = Cardinality(Among(B, r)) + Cardinality(Of(B)) - Cardinality(Among(B, r) \cap Of(B))
      BY <3>3, FS_Union
    <3>6. Cardinality({}) = 0
      BY FS_EmptySet
    <3>7. Cardinality(Among(B, r) \cap Of(B)) = 0
      BY <3>1, <3>6
    <3>8. Cardinality(Among(B, s)) = Cardinality(Among(B, r) \cup Of(B))
      BY <3>1
    <3> QED
      BY <3>4, <3>5, <3>7, <3>8
  <2>5. S \in SUBSET S
    OBVIOUS
  <2> HIDE DEF Among, Of, r
  <2>6. /\ Cardinality(Among(S, r)) \in Nat /\ Cardinality(Of(S)) \in Nat
        /\ Cardinality(Among(S, s)) = Cardinality(Among(S, r)) + Cardinality(Of(S))
    BY <2>4, <2>5
  <2>7. /\ Cardinality(Among(A, r)) \in Nat /\ Cardinality(Of(A)) \in Nat
        /\ Cardinality(Among(A, s)) = Cardinality(Among(A, r)) + Cardinality(Of(A))
    BY <2>4
  <2>8. c * (Cardinality(Among(S, r)) + Cardinality(Of(S)))
          = c * Cardinality(Among(S, r)) + c * Cardinality(Of(S))
    BY <2>6
  <2>9. p * (Cardinality(Among(A, r)) + Cardinality(Of(A)))
          = p * Cardinality(Among(A, r)) + p * Cardinality(Of(A))
    BY <2>7
  <2>10. c * Cardinality(Among(S, s)) = p * Cardinality(Among(A, s))
    BY <2>2, <2>3, <2>6, <2>7, <2>8, <2>9
  <2> QED
    BY <2>10
<1>3. Among(S, G) = S /\ Among(A, G) = A
  OBVIOUS
<1> HIDE DEF Among
<1>4. T \in SUBSET SUBSET G
  OBVIOUS
<1>5. G \in T => c * Cardinality(S) = p * Cardinality(A)
  BY <1>3
<1> HIDE DEF T
<1>6. SUBSET G \subseteq T
  BY <1>1, <1>2, SubsetInduction
<1> QED
  BY <1>5, <1>6

\* Groups that are all alike have the rate of all transfers together.
LEMMA AlikeIsOneRate ==
    ASSUME NEW G, IsFiniteSet(G), NEW class, \A t \in Filed : class[t] \in G,
           NEW slice, slice = [g \in G |-> Tally({t \in Filed : class[t] = g})],
           ~ Differ(slice), NEW d \in Rows(slice)
    PROVE  Rate(slice[d]) = Rate(Tally(Filed))
<1> DEFINE Of(g) == {t \in Filed : class[t] = g}
           alerts == {t \in Filed : scores[t] = "alert"}
           c == Rate(slice[d])
           all == Tally(Filed)
<1>1. /\ Filed \in SUBSET Transfer /\ IsFiniteSet(Filed)
      /\ \A g \in G : Of(g) \in SUBSET Transfer
      /\ alerts \in SUBSET Filed
  BY TablesAreFinite, FS_Subset DEF Filed
<1>2. d \in G /\ slice[d].total > 0 /\ \A g \in G : slice[g] = Tally(Of(g))
  BY DEF Rows
<1>3. ASSUME NEW g \in G
      PROVE  /\ slice[g].total = Cardinality({t \in Filed : class[t] = g})
             /\ slice[g].flagged = Cardinality({t \in alerts : class[t] = g})
  <2>1. {t \in Of(g) : scores[t] = "alert"} = {t \in alerts : class[t] = g}
    OBVIOUS
  <2> HIDE DEF alerts
  <2> QED
    BY <1>2, <2>1 DEF Tally
<1>4. ASSUME NEW g \in G
      PROVE  /\ slice[g].total \in Nat /\ slice[g].flagged \in Nat
             /\ slice[g].flagged <= slice[g].total
             /\ Rate(slice[g]) \in Nat
             /\ Rate(slice[g]) * slice[g].total = Parts * slice[g].flagged
  <2> HIDE DEF Of
  <2> QED
    BY <1>1, <1>2, RateIsShare
<1>5. c \in Nat
  BY <1>2, <1>4
<1>6. /\ all.total = Cardinality(Filed) /\ all.flagged = Cardinality(alerts)
      /\ all.total \in Nat /\ Rate(all) \in Nat
      /\ Rate(all) * all.total = Parts * all.flagged
  BY <1>1, RateIsShare DEF Tally
<1> HIDE DEF alerts, Of, c, all
<1>7. ASSUME NEW g \in G
      PROVE  c * slice[g].total = Parts * slice[g].flagged
  <2>1. CASE slice[g].total = 0
    <3>1. slice[g].flagged = 0
      BY <1>4, <2>1
    <3> QED
      BY <1>5, <2>1, <3>1, PartsDivide
  <2>2. CASE slice[g].total # 0
    <3>1. g \in Rows(slice)
      BY <1>4, <2>2 DEF Rows
    <3>2. Rate(slice[g]) = c
      BY <3>1 DEF Differ, c
    <3> QED
      BY <1>4, <3>2
  <2> QED
    BY <2>1, <2>2
<1>8. \A g \in G : c * Cardinality({t \in Filed : class[t] = g})
                     = Parts * Cardinality({t \in alerts : class[t] = g})
  BY <1>3, <1>7
<1>9. c * Cardinality(Filed) = Parts * Cardinality(alerts)
  BY <1>1, <1>5, <1>8, PartsDivide, SharesAddUp
<1>10. all.total # 0
  <2>1. Cardinality(Of(d)) <= Cardinality(Filed)
    BY <1>1, FS_Subset DEF Of
  <2>2. Cardinality(Of(d)) = slice[d].total
    BY <1>2, <1>3 DEF Of
  <2> QED
    BY <1>2, <1>4, <1>6, <2>1, <2>2
<1>11. c * all.total = Rate(all) * all.total
  BY <1>6, <1>9
<1>12. \A x, y \in Nat, n \in Nat \ {0} : x * n = y * n => x = y
  OBVIOUS
<1>13. c = Rate(all)
  BY <1>5, <1>6, <1>10, <1>11, <1>12
<1> QED
  BY <1>13 DEF c, all

\* Held against districts that all have the rate c, a row of that rate does not exceed.
LEMMA AlikeIsNoBreach ==
    ASSUME NEW districts, IsFiniteSet(Rows(districts)), NEW c \in Nat,
           \A d \in Rows(districts) : Rate(districts[d]) = c,
           NEW row, Rate(row) = c
    PROVE  ~ Exceeds(row, districts)
<1> DEFINE G == Cardinality(Groups(districts))
           rates == [d \in Rows(districts) |-> Rate(districts[d])]
<1>1. G = Cardinality(Rows(districts)) /\ G \in Nat
  BY FS_CardinalityType DEF Groups
<1>2. PICK f : /\ IsFold("sum", rates, Rows(districts), f)
               /\ MapThenSumSet(LAMBDA d : Rate(districts[d]), Rows(districts)) = f[Rows(districts)]
  BY RatesAreFold
<1>3. \A d \in Rows(districts) : rates[d] = c
  OBVIOUS
<1> HIDE DEF rates, G
<1>4. f[Rows(districts)] = Cardinality(Rows(districts)) * c
  BY <1>2, <1>3, SumOfEquals
<1>5. MapThenSumSet(LAMBDA d : Rate(districts[d]), Groups(districts)) = G * c
  BY <1>1, <1>2, <1>4 DEF Groups
<1>6. Exceeds(row, districts) <=> 2 * G * c > 3 * (G * c)
  BY <1>5 DEF Exceeds, G
<1>7. 2 * G * c = 2 * (G * c) /\ G * c \in Nat
  BY <1>1
<1> QED
  BY <1>6, <1>7

\* In any state, and wherever the transfers lie.
LEMMA AlarmHolds == AlarmIsWarranted
<1> SUFFICES ASSUME NEW place \in Placement,
                    ~ Differ(DistrictRows(place)), ~ Differ(TenureRows(place))
             PROVE  ~ Breach(place)
  BY DEF AlarmIsWarranted
<1> DEFINE districts == DistrictRows(place)
           tenures == TenureRows(place)
           c == Rate(Tally(Filed))
           ByDistrict == [t \in Transfer |-> place[t].district]
           ByTenure == [t \in Transfer |-> place[t].tenure]
<1>1. Filed \in SUBSET Transfer
  BY DEF Filed
<1>2. /\ \A t \in Filed : ByDistrict[t] \in District
      /\ districts = [d \in District |-> Tally({t \in Filed : ByDistrict[t] = d})]
  <2>1. \A t \in Filed : ByDistrict[t] = place[t].district /\ place[t].district \in District
    BY <1>1 DEF Placement
  <2>2. ASSUME NEW d \in District
        PROVE  {t \in Filed : ByDistrict[t] = d} = {t \in Filed : place[t].district = d}
    BY <2>1
  <2> HIDE DEF ByDistrict
  <2> QED
    BY <2>1, <2>2 DEF DistrictRows
<1>3. /\ \A t \in Filed : ByTenure[t] \in Tenure
      /\ tenures = [u \in Tenure |-> Tally({t \in Filed : ByTenure[t] = u})]
  <2>1. \A t \in Filed : ByTenure[t] = place[t].tenure /\ place[t].tenure \in Tenure
    BY <1>1 DEF Placement
  <2>2. ASSUME NEW u \in Tenure
        PROVE  {t \in Filed : ByTenure[t] = u} = {t \in Filed : place[t].tenure = u}
    BY <2>1
  <2> HIDE DEF ByTenure
  <2> QED
    BY <2>1, <2>2 DEF TenureRows
<1>4. c \in Nat
  BY <1>1, RateIsShare
<1>5. IsFiniteSet(Rows(districts))
  <2>1. Rows(districts) \in SUBSET District
    BY <1>2 DEF Rows
  <2> QED
    BY <2>1, TablesAreFinite, FS_Subset
<1> HIDE DEF districts, tenures, ByDistrict, ByTenure, c
<1>6. \A d \in Rows(districts) : Rate(districts[d]) = c
  <2>1. ~ Differ(districts)
    BY DEF districts
  <2> QED
    BY <1>2, <2>1, TablesAreFinite, AlikeIsOneRate DEF c
<1>7. \A u \in Rows(tenures) : Rate(tenures[u]) = c
  <2>1. ~ Differ(tenures)
    BY DEF tenures
  <2> QED
    BY <1>3, <2>1, TablesAreFinite, AlikeIsOneRate DEF c
<1>8. Rate(Tally(Filed)) = c
  BY DEF c
<1>9. /\ \A d \in Rows(districts) : ~ Exceeds(districts[d], districts)
      /\ \A u \in Rows(tenures) : ~ Exceeds(tenures[u], districts)
      /\ ~ Exceeds(Tally(Filed), districts)
  BY <1>4, <1>5, <1>6, <1>7, <1>8, AlikeIsNoBreach
<1> QED
  BY <1>9 DEF Breach, districts, tenures

\* For any number of transfers, districts and tenures, wherever the transfers lie and
\* whatever was scored: districts that are all alike and tenures that are all alike never
\* raise the committee's alarm, rounded rates, empty districts and the row of all
\* transfers included.
THEOREM AlarmsAreWarranted == GovernanceSpec => []AlarmIsWarranted
BY AlarmHolds, PTL
=============================================================================

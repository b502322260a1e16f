------------------------------ MODULE Governance ------------------------------
(***************************************************************************)
(* What watches over the fraud reviews: the scheduler of                   *)
(* backend/app/jobs/scheduler.py in every replica of the API, the          *)
(* escalation job and the parity audit it runs, and the cron script that   *)
(* runs the same escalation job without the scheduler's lock.              *)
(*                                                                         *)
(* The jobs run in threads: between two statements of a job the other      *)
(* replicas, the officers and the clock go on.                             *)
(***************************************************************************)
EXTENDS FraudScoring, FiniteSetsExt

CONSTANTS
    Replica,     \* API processes, each with a scheduler
    Cron,        \* the cron script
    Transfer, District, Tenure,
    Period,      \* TICK_SECONDS, in ticks of the clock
    MaxTroubles  \* bound: how many of the Trouble kinds happen, each once

ASSUME GovernanceAssumption ==
    /\ Cron \notin Replica
    /\ Period \in Nat \ {0, 1}
    /\ MaxTroubles \in Nat

\* The tables the parity report adds up.
ASSUME TablesAreFinite == IsFiniteSet(Transfer) /\ IsFiniteSet(District) /\ IsFiniteSet(Tenure)

VARIABLES
    evidence,     \* <<t, e>>: score_subject of t read e; <<>> otherwise
    scores,       \* scores[t]: "absent", "none", or whether its row is an alert
    reviews,      \* reviews[t]: the row in fraud_review_queue
    escalations,  \* escalations[t]: FRAUD_REVIEW_ESCALATED events, two at most
    runners,      \* runners[j]: where the job run by j is
    sleep,        \* sleep[r]: ticks until the scheduler of r wakes up
    lock,         \* ticks until scheduler:leader expires in Redis
    redisUp,
    client,       \* client[r]: r once connected to Redis
    overlapped,   \* history: two escalation jobs ran at the same time
    slow,         \* history: a job outlived the lease it was started under
    troubles      \* history: the kinds of trouble there were

scoring   == <<evidence, scores>>
queue     == <<reviews, escalations>>
scheduler == <<runners, sleep, lock, redisUp, client>>
history   == <<overlapped, slow, troubles>>
govVars   == <<scoring, queue, scheduler, history>>

Kinds == {"outage", "failure", "death", "cron"}
Runner == Replica \cup {Cron}
Asleep == [at |-> "asleep", rows |-> {}]
Running(j) == runners[j].at \in {"select", "escalate", "emit"}
NoReview == [state |-> "none", overdue |-> FALSE, escalated |-> FALSE]

GovernanceTypeOK ==
    /\ evidence = <<>> \/ evidence \in Transfer \X Evidence
    /\ scores \in [Transfer -> {"absent", "none", "clear", "alert"}]
    /\ reviews \in [Transfer -> [state : {"none", "PENDING_REVIEW", "DECIDED"},
                                 overdue : BOOLEAN, escalated : BOOLEAN]]
    /\ escalations \in [Transfer -> 0..2]
    /\ runners \in [Runner -> [at : {"asleep", "select", "escalate", "emit", "parity"},
                               rows : SUBSET Transfer]]
    /\ sleep \in [Replica -> 0..Period]
    /\ lock \in 0..(Period - 1) /\ redisUp \in BOOLEAN
    /\ client \in [Replica -> BOOLEAN]
    /\ overlapped \in BOOLEAN /\ slow \in BOOLEAN
    /\ troubles \subseteq Kinds

GovernanceInit ==
    /\ evidence = <<>>
    /\ scores = [t \in Transfer |-> "absent"]
    /\ reviews = [t \in Transfer |-> NoReview]
    /\ escalations = [t \in Transfer |-> 0]
    /\ runners = [j \in Runner |-> Asleep]
    /\ sleep = [r \in Replica |-> 0]
    /\ lock = 0 /\ redisUp = TRUE
    /\ client = [r \in Replica |-> FALSE]
    /\ overlapped = FALSE /\ slow = FALSE
    /\ troubles = {}

Trouble(kind) ==
    /\ kind \notin troubles /\ Cardinality(troubles) < MaxTroubles
    /\ troubles' = troubles \cup {kind}

-----------------------------------------------------------------------------
\* create_transfer
File(t) ==
    /\ evidence = <<>> /\ scores[t] = "absent"
    /\ scores' = [scores EXCEPT ![t] = "none"]
    /\ UNCHANGED <<evidence, queue, scheduler, history>>

\* Bound: scores are computed before anything else happens.
Early ==
    /\ \A r \in Replica : runners[r] = Asleep /\ ~ client[r]
    /\ \A t \in Transfer : ~ reviews[t].overdue /\ reviews[t].state # "DECIDED"
    /\ lock = 0 /\ troubles = {}

\* score_subject reads its evidence.
ReadEvidence(t) ==
    /\ evidence = <<>> /\ scores[t] = "none" /\ Early
    /\ \E e \in Evidence : evidence' = <<t, e>>
    /\ UNCHANGED <<scores, queue, scheduler, history>>

\* persist_score, and _act_on_score with a review of every alert.
PersistScore ==
    /\ evidence # <<>>
    /\ LET t == evidence[1]  action == ScoreSubject(evidence[2]) IN
       /\ scores' = [scores EXCEPT ![t] = IF action = "NONE" THEN "clear" ELSE "alert"]
       /\ reviews' = IF action = "NONE" THEN reviews
                     ELSE [reviews EXCEPT ![t].state = "PENDING_REVIEW"]
    /\ evidence' = <<>>
    /\ UNCHANGED <<escalations, scheduler, history>>

\* affirm_review or dismiss_review.
Decide(t) ==
    /\ evidence = <<>> /\ reviews[t].state = "PENDING_REVIEW"
    /\ reviews' = [reviews EXCEPT ![t].state = "DECIDED", ![t].overdue = FALSE]
    /\ UNCHANGED <<scoring, escalations, scheduler, history>>

\* 24 hours without a decision.
BecomesOverdue(t) ==
    /\ evidence = <<>> /\ reviews[t].state = "PENDING_REVIEW" /\ ~ reviews[t].overdue
    /\ reviews' = [reviews EXCEPT ![t].overdue = TRUE]
    /\ UNCHANGED <<scoring, escalations, scheduler, history>>

-----------------------------------------------------------------------------
\* A job starts; it overlaps another one that has not ended.
StartJob(j) ==
    /\ runners' = [runners EXCEPT ![j].at = "select"]
    /\ overlapped' = (overlapped \/ \E i \in Runner \ {j} : Running(i))

Awake(r) == evidence = <<>> /\ runners[r].at = "asleep" /\ sleep[r] = 0

\* Mutant: SET without NX.
LockIsFree_NotAsked == TRUE

LockIsFree == lock = 0

\* Mutant: the lock is held for a whole tick.
Lease_WholeTick == Period

\* "Slightly less than a tick so it frees before the next."
Lease == Period - 1

\* _is_leader with Redis: cache_setnx takes the lock for Lease.
Lead(r) ==
    /\ Awake(r) /\ redisUp /\ LockIsFree
    /\ lock' = Lease /\ client' = [client EXCEPT ![r] = TRUE]
    /\ StartJob(r)
    /\ UNCHANGED <<scoring, queue, sleep, redisUp, slow, troubles>>

\* A process that never reached Redis asks its own dictionary, in which the last
\* entry has expired: it leads, whoever else does.
LeadAlone(r) ==
    /\ Awake(r) /\ ~ redisUp /\ ~ client[r]
    /\ StartJob(r)
    /\ UNCHANGED <<scoring, queue, sleep, lock, redisUp, client, slow, troubles>>

\* Another replica leads, or the connected client raises: wait for the next tick.
SkipTick(r) ==
    /\ Awake(r)
    /\ \/ redisUp /\ ~ LockIsFree /\ client' = [client EXCEPT ![r] = TRUE]
       \/ ~ redisUp /\ client[r] /\ UNCHANGED client
    /\ sleep' = [sleep EXCEPT ![r] = Period]
    /\ UNCHANGED <<scoring, queue, runners, lock, redisUp, history>>

StartCron ==
    /\ evidence = <<>> /\ runners[Cron].at = "asleep"
    /\ Trouble("cron") /\ StartJob(Cron)
    /\ UNCHANGED <<scoring, queue, sleep, lock, redisUp, client, slow>>

\* Where j goes when escalate_pending has returned or raised.
AfterEscalation(j) == IF j = Cron THEN Asleep ELSE [at |-> "parity", rows |-> {}]

\* The tick of j is over as soon as it goes to sleep.
GoesTo(j, next) ==
    /\ runners' = [runners EXCEPT ![j] = next]
    /\ sleep' = IF next = Asleep /\ j # Cron THEN [sleep EXCEPT ![j] = Period] ELSE sleep

\* Mutant: rows that are escalated already are selected again.
OverdueRows_Again == {t \in Transfer : reviews[t].state = "PENDING_REVIEW" /\ reviews[t].overdue}

\* Mutant: created_at > cutoff.
OverdueRows_Young ==
    {t \in Transfer : reviews[t].state = "PENDING_REVIEW" /\ ~ reviews[t].overdue /\ ~ reviews[t].escalated}

OverdueRows ==
    {t \in Transfer : reviews[t].state = "PENDING_REVIEW" /\ reviews[t].overdue /\ ~ reviews[t].escalated}

SelectOverdue(j) ==
    /\ runners[j].at = "select"
    /\ GoesTo(j, IF OverdueRows = {} THEN AfterEscalation(j)
                 ELSE [at |-> "escalate", rows |-> OverdueRows])
    /\ UNCHANGED <<scoring, queue, lock, redisUp, client, history>>

CurrentRow(j) == CHOOSE t \in runners[j].rows : TRUE

\* The UPDATE of the next row, which does not look at the row again.
StampRow(j) ==
    /\ runners[j].at = "escalate"
    /\ reviews' = [reviews EXCEPT ![CurrentRow(j)].escalated = TRUE]
    /\ runners' = [runners EXCEPT ![j].at = "emit"]
    /\ UNCHANGED <<scoring, escalations, sleep, lock, redisUp, client, history>>

NextRow(j) ==
    LET left == runners[j].rows \ {CurrentRow(j)} IN
    GoesTo(j, IF left = {} THEN AfterEscalation(j) ELSE [at |-> "escalate", rows |-> left])

\* audit_emit(FRAUD_REVIEW_ESCALATED)
EmitEscalated(j) ==
    /\ runners[j].at = "emit"
    /\ escalations' = [escalations EXCEPT ![CurrentRow(j)] = IF @ < 2 THEN @ + 1 ELSE @]
    /\ NextRow(j)
    /\ UNCHANGED <<scoring, reviews, lock, redisUp, client, history>>

-----------------------------------------------------------------------------
\* Where a transfer was filed and how its parcel is held: it matters to the report
\* alone, so the report is read for every way the transfers may be spread.
Placement == [Transfer -> [district : District, tenure : Tenure]]

Filed == {t \in Transfer : scores[t] # "absent"}

\* A row of the report; an unscored transfer counts as not flagged.
Tally(ts) == [total |-> Cardinality(ts), flagged |-> Cardinality({t \in ts : scores[t] = "alert"})]

DistrictRows(place) == [d \in District |-> Tally({t \in Filed : place[t].district = d})]
TenureRows(place)   == [u \in Tenure |-> Tally({t \in Filed : place[t].tenure = u})]

\* GROUP BY has a row for a group that has transfers.
Rows(slice) == {g \in DOMAIN slice : slice[g].total > 0}

\* Rates in parts of a denominator that all group sizes divide.
Parts == ProductSet(1..Cardinality(Transfer))
Rate(row) == IF row.total = 0 THEN 0 ELSE row.flagged * (Parts \div row.total)

\* Mutant: the mean is taken over all districts.
Groups_All(districts) == DOMAIN districts

\* The groups the mean of rates is taken over, each counted once.
Groups(districts) == Rows(districts)

\* ratio_to_mean > 1.5
Exceeds(row, districts) ==
    2 * Cardinality(Groups(districts)) * Rate(row) >
        3 * MapThenSumSet(LAMBDA d : Rate(districts[d]), Groups(districts))

\* Every row of the three slices is held against the mean of the districts' rates;
\* the slice of genders is one row, of all transfers.
Breach(place) ==
    LET districts == DistrictRows(place)  tenures == TenureRows(place)
    IN  \/ \E d \in Rows(districts) : Exceeds(districts[d], districts)
        \/ \E u \in Rows(tenures) : Exceeds(tenures[u], districts)
        \/ Exceeds(Tally(Filed), districts)

\* The tick ends with run_parity_audit if a month has passed since _last_parity of
\* this process.  It only reports: Breach is what it reports.
ParityAudit(r) ==
    /\ runners[r].at = "parity"
    /\ GoesTo(r, Asleep)
    /\ UNCHANGED <<scoring, queue, lock, redisUp, client, history>>

-----------------------------------------------------------------------------
\* A statement of the job raises, and the parity audit follows; or audit_emit
\* fails, which it keeps to itself, and the job goes on without the event.
JobFails(j) ==
    /\ Trouble("failure")
    /\ \/ runners[j].at \in {"select", "escalate"} /\ GoesTo(j, AfterEscalation(j))
       \/ runners[j].at = "emit" /\ NextRow(j)
    /\ UNCHANGED <<scoring, queue, lock, redisUp, client, overlapped, slow>>

\* A replica dies and is started again; its lock stays in Redis.
Dies(r) ==
    /\ evidence = <<>> /\ Trouble("death")
    /\ runners' = [runners EXCEPT ![r] = Asleep]
    /\ sleep' = [sleep EXCEPT ![r] = 0]
    /\ client' = [client EXCEPT ![r] = FALSE]
    /\ UNCHANGED <<scoring, queue, lock, redisUp, overlapped, slow>>

\* Redis goes down, with or without its data.
OutageBegins ==
    /\ evidence = <<>> /\ Trouble("outage")
    /\ redisUp' = FALSE /\ lock' \in {0, lock}
    /\ UNCHANGED <<scoring, queue, runners, sleep, client, overlapped, slow>>

OutageEnds ==
    /\ ~ redisUp /\ redisUp' = TRUE
    /\ UNCHANGED <<scoring, queue, runners, sleep, lock, client, history>>

Less(n) == IF n = 0 THEN 0 ELSE n - 1

Tick ==
    /\ lock > 0 \/ \E r \in Replica : sleep[r] > 0
    /\ lock' = Less(lock)
    /\ sleep' = [r \in Replica |-> Less(sleep[r])]
    /\ slow' = (slow \/ (lock = 1 /\ \E r \in Replica : Running(r)))
    /\ UNCHANGED <<scoring, queue, runners, redisUp, client, overlapped, troubles>>

-----------------------------------------------------------------------------
JobMoves(j) == SelectOverdue(j) \/ StampRow(j) \/ EmitEscalated(j)
ReplicaMoves(r) ==
    Lead(r) \/ LeadAlone(r) \/ SkipTick(r) \/ JobMoves(r) \/ ParityAudit(r)

GovernanceNext ==
    \/ \E t \in Transfer : File(t) \/ ReadEvidence(t) \/ Decide(t) \/ BecomesOverdue(t)
    \/ PersistScore
    \/ \E r \in Replica : ReplicaMoves(r) \/ Dies(r)
    \/ StartCron \/ JobMoves(Cron)
    \/ \E j \in Runner : JobFails(j)
    \/ OutageBegins \/ OutageEnds \/ Tick

GovernanceSpec == GovernanceInit /\ [][GovernanceNext]_govVars

\* Scheduler loops and threads go on, time passes, Redis comes back.
GovernanceFairness ==
    /\ \A r \in Replica : WF_govVars(ReplicaMoves(r))
    /\ WF_govVars(PersistScore) /\ WF_govVars(Tick) /\ WF_govVars(OutageEnds)

FairGovernanceSpec == GovernanceSpec /\ GovernanceFairness

-----------------------------------------------------------------------------
\* A worse reading never lowers the recommendation, and what a rule could not
\* read never raises it (rules.py:9, "fail safe: any internal error returns
\* score 0"): thresholds, caps and rounding included.
WorseEvidenceNeverHelps ==
    evidence # <<>> =>
        LET e == evidence[2] IN
        \A f \in DOMAIN Readings : \A w \in Readings[f] :
            Worse(f, w, e[f]) => Severity[ScoreSubject(e)] <= Severity[ScoreSubject([e EXCEPT ![f] = w])]

\* No rule by itself reaches an alert (AI Ethics Charter section 2): a watchlist match,
\* an overlap or a rejected owner need a second finding.  The forest by itself may
\* reach a FLAG, and never a BLOCK: a BLOCK names at least one rule.
AlertIsCorroborated ==
    evidence # <<>> =>
        LET e == evidence[2]  model == MlComponent(e) > 0 IN
        /\ ScoreSubject(e) # "NONE" => model \/ Fired(e) >= 2
        /\ ScoreSubject(e) = "BLOCK" => Fired(e) >= 1 /\ (model \/ Fired(e) >= 3)

\* What the lock of scheduler.py:3-4, "at most one runs the jobs per tick", comes to: two
\* escalation jobs run at once only if cron ran one, Redis was down, or a job outlived
\* the lease.  One after the other, two replicas may run them within one tick: the lease
\* ends before the tick, and their ticks need not be in phase.
OneLeader == overlapped => slow \/ "outage" \in troubles \/ "cron" \in troubles

\* Officers hear of an overdue review once, unless two jobs have ever run at once.
EscalatedOnce == \A t \in Transfer : escalations[t] > 1 => overlapped

\* The mark on a review and the event about it come together: a mark stays without its
\* event, which nothing makes up for, only if a job failed or died between the two.
MarksAreAnnounced ==
    \A t \in Transfer :
        /\ escalations[t] > 0 => reviews[t].escalated
        /\ reviews[t].escalated /\ escalations[t] = 0 =>
              \/ "failure" \in troubles \/ "death" \in troubles
              \/ \E j \in Runner : runners[j].at = "emit" /\ CurrentRow(j) = t

\* Two groups of a slice were treated differently.
Differ(slice) == \E g, h \in Rows(slice) : Rate(slice[g]) # Rate(slice[h])

\* The committee is alerted only when two districts were treated differently, or two
\* tenures: a mean of the districts' rates that counted one twice, or one that has no
\* transfers, would raise the alarm over groups that are all alike.
AlarmIsWarranted ==
    \A place \in Placement :
        Breach(place) => Differ(DistrictRows(place)) \/ Differ(TenureRows(place))

\* An overdue review is escalated or decided, whoever leads and whatever dies.
OverdueIsEscalated ==
    \A t \in Transfer :
        reviews[t].state = "PENDING_REVIEW" /\ reviews[t].overdue
            ~> reviews[t].escalated \/ reviews[t].state = "DECIDED"
=============================================================================

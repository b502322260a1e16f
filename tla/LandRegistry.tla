---------------------------- MODULE LandRegistry ----------------------------
(***************************************************************************)
(* Parcels and what changes them: the handlers of backend/app/routers/     *)
(* parcels.py, transfers.py, titles.py, disputes.py and fraud.py, and the  *)
(* escalation job of backend/app/jobs/escalation.py.                       *)
(*                                                                         *)
(* One API process.  Its handlers do not await between their statements,   *)
(* so each is one step; but the statements are autocommitted one by one,   *)
(* and an exception or a crash leaves the first few of them in effect.     *)
(* The escalation job runs in a thread of its own and interleaves with the *)
(* handlers.  How a transfer comes to be scored, and its own status, are   *)
(* the subject of FraudPipeline; here it is scored at some moment, once,   *)
(* and rejecting it changes nothing.                                       *)
(***************************************************************************)
EXTENDS Integers, Sequences

CONSTANTS
    Parcel, Owner, Transfer, Dispute, Appeal,   \* ids that may come to exist
    NoParcel, NoTransfer, NoOwner,
    Verified,        \* the owners whose kyc_status is VERIFIED
    User,            \* ids of the users who act
    MaxTitles,       \* bound: titles issued
    MaxFailures      \* bound: handlers interrupted between two statements

ASSUME RegistryAssumption == NoParcel \notin Parcel /\ MaxFailures \in Nat

VARIABLES
    status,          \* parcels.status, "none" before the parcel is registered
    owner,           \* parcels.current_owner_id
    origin,          \* history: the owner a parcel was registered with
    transfers,
    scores,          \* the recommended action of a transfer's score
    titles,          \* in order of issue; title_no is the place in this order
    disputes,
    reviews,         \* fraud_review_queue: the state of a transfer's review
    appeals,
    affirmed,        \* transfers with a FRAUD_HUMAN_AFFIRMED event
    refused,         \* history: parcels whose last freeze had its dispute refused
    overdue,         \* rows escalate_pending has read and not yet handled
    escalated,       \* reviews with escalated_at set
    escalations,     \* number of FRAUD_REVIEW_ESCALATED events of each review
    failures

parcelVars == <<status, owner, origin>>
reviewVars == <<reviews, affirmed, refused, overdue, escalated, escalations>>
vars == <<parcelVars, transfers, scores, titles, disputes, appeals, reviewVars, failures>>

Action  == {"NONE", "FLAG", "BLOCK"}
Decided == {"HUMAN_AFFIRMED", "HUMAN_DISMISSED"}
Ruled   == {"UPHELD", "DENIED"}

\* OWNERSHIP stands for OVERLAP too and BOUNDARY for ENCROACHMENT; RESOLVED
\* stands for DISMISSED too and OPEN for every other state: FILED, UNDER_REVIEW,
\* MEDIATION, ESCALATED_COURT.  Of resolved_at only a change matters: `ruled` flips
\* with every ruling.
DisputeType  == {"FRAUD", "OWNERSHIP", "BOUNDARY"}

\* Rows by id; a transfer of NoParcel, or a dispute or an appeal in the state
\* "none", is no row yet.
TransferRow == [parcel : Parcel \cup {NoParcel}, to : Owner \cup {NoOwner}]
DisputeRow  == [state : {"none", "OPEN", "RESOLVED"},
                parcel : Parcel \cup {NoParcel}, type : DisputeType, ruled : BOOLEAN]
AppealRow   == [state : {"none", "OPEN"} \cup Ruled, transfer : Transfer \cup {NoTransfer}]
TitleRow    == [parcel : Parcel, owner : Owner, revoked : BOOLEAN]

\* The last conjunct is the CHECK on fraud_review_queue.recommended_action.
LandTypeOK ==
    /\ status  \in [Parcel -> {"none", "ACTIVE", "DISPUTED", "FROZEN", "TRANSFERRED"}]
    /\ owner   \in [Parcel -> Owner \cup {NoOwner}]
    /\ origin  \in [Parcel -> Owner \cup {NoOwner}]
    /\ transfers \in [Transfer -> TransferRow]
    /\ scores  \in [Transfer -> Action \cup {"none"}]
    /\ titles  \in Seq(TitleRow)
    /\ disputes \in [Dispute -> DisputeRow]
    /\ reviews \in [Transfer -> {"none", "PENDING_REVIEW"} \cup Decided]
    /\ appeals \in [Appeal -> AppealRow]
    /\ affirmed \subseteq Transfer /\ refused \subseteq Parcel \cup {NoParcel}
    /\ overdue \subseteq Transfer /\ escalated \subseteq Transfer
    /\ escalations \in [Transfer -> Nat]
    /\ failures \in 0..MaxFailures
    /\ \A t \in Transfer : reviews[t] # "none" => scores[t] \in {"FLAG", "BLOCK"}

NoDispute == [state |-> "none", parcel |-> NoParcel, type |-> "BOUNDARY", ruled |-> FALSE]

LandInit ==
    /\ status = [p \in Parcel |-> "none"]
    /\ owner  = [p \in Parcel |-> NoOwner] /\ origin = owner
    /\ transfers = [t \in Transfer |-> [parcel |-> NoParcel, to |-> NoOwner]]
    /\ scores = [t \in Transfer |-> "none"]
    /\ titles = <<>>
    /\ disputes = [d \in Dispute |-> NoDispute]
    /\ reviews = [t \in Transfer |-> "none"]
    /\ appeals = [a \in Appeal |-> [state |-> "none", transfer |-> NoTransfer]]
    /\ affirmed = {} /\ refused = {} /\ overdue = {} /\ escalated = {}
    /\ escalations = [t \in Transfer |-> 0]
    /\ failures = 0

\* A handler of n statements runs to its end, or is interrupted after `done`.
Stops(done, n) ==
    /\ done \in 1..n
    /\ \/ done = n /\ UNCHANGED failures
       \/ done < n /\ failures < MaxFailures /\ failures' = failures + 1

SetStatus(p, s) == status' = [status EXCEPT ![p] = s]

-----------------------------------------------------------------------------
\* create_parcel.
RegisterParcel(p, o) ==
    /\ status[p] = "none"
    /\ SetStatus(p, "ACTIVE")
    /\ owner'  = [owner EXCEPT ![p] = o]
    /\ origin' = [origin EXCEPT ![p] = o]
    /\ UNCHANGED <<transfers, scores, titles, disputes, appeals, reviewVars, failures>>

\* A parcel that is not under restraint.
Free(p) == status[p] \in {"ACTIVE", "TRANSFERRED"}

Exists(t) == transfers[t].parcel # NoParcel

\* create_transfer looks at the parcel's status; approve_transfer will not.
CreateTransfer(t, p, o) ==
    /\ ~ Exists(t) /\ Free(p)
    /\ transfers' = [transfers EXCEPT ![t] = [parcel |-> p, to |-> o]]
    /\ UNCHANGED <<parcelVars, scores, titles, disputes, appeals, reviewVars, failures>>

\* Mutant: every score is queued for review.
Score_AlwaysQueues(t, a) ==
    /\ Exists(t) /\ scores[t] = "none"
    /\ scores' = [scores EXCEPT ![t] = a]
    /\ reviews' = [reviews EXCEPT ![t] = "PENDING_REVIEW"]
    /\ UNCHANGED <<parcelVars, transfers, titles, disputes, appeals,
                   affirmed, refused, overdue, escalated, escalations, failures>>

\* The score is persisted; then an alert is queued for review.  Of the parcel
\* nothing changes.
Score(t, a) ==
    /\ Exists(t) /\ scores[t] = "none"
    /\ \E done \in 1..2 :
          /\ Stops(done, 2)
          /\ scores' = [scores EXCEPT ![t] = a]
          /\ reviews' = IF done = 2 /\ a # "NONE"
                        THEN [reviews EXCEPT ![t] = "PENDING_REVIEW"] ELSE reviews
    /\ UNCHANGED <<parcelVars, transfers, titles, disputes, appeals,
                   affirmed, refused, overdue, escalated, escalations>>

\* Mutant: a transfer without a score passes.
MayComplete_Unscored(t) == scores[t] # "BLOCK"

\* The fraud gate; a transfer that has no score gets one in a Score step first.
MayComplete(t) == scores[t] \in {"NONE", "FLAG"}

\* approve_transfer looks neither at the transfer's status nor at the parcel's.
ApproveTransfer(t) ==
    LET p == transfers[t].parcel
    IN  /\ Exists(t) /\ MayComplete(t)
        /\ SetStatus(p, "TRANSFERRED")
        /\ owner' = [owner EXCEPT ![p] = transfers[t].to]
        /\ UNCHANGED <<origin, transfers, scores, titles, disputes, appeals, reviewVars, failures>>

\* issue_title: the title takes the next number, the parcel its owner.
IssueTitle(p, o) ==
    /\ Free(p) /\ o \in Verified /\ Len(titles) < MaxTitles
    /\ \E done \in 1..2 :
          /\ Stops(done, 2)
          /\ titles' = Append(titles, [parcel |-> p, owner |-> o, revoked |-> FALSE])
          /\ status' = IF done = 2 THEN [status EXCEPT ![p] = "ACTIVE"] ELSE status
          /\ owner'  = IF done = 2 THEN [owner EXCEPT ![p] = o] ELSE owner
    /\ UNCHANGED <<origin, transfers, scores, disputes, appeals, reviewVars>>

\* revoke_title leaves the parcel and its owner alone.
RevokeTitle(i) ==
    /\ titles' = [titles EXCEPT ![i].revoked = TRUE]
    /\ UNCHANGED <<parcelVars, transfers, scores, disputes, appeals, reviewVars, failures>>

-----------------------------------------------------------------------------
\* A dispute's claimant must be an owner: claimant_id REFERENCES owners(id) and
\* foreign keys are enforced, so the INSERT raises for any other user.
MayClaim(u) == u \in Owner

Filed(p, type) == [state |-> "OPEN", parcel |-> p, type |-> type, ruled |-> FALSE]

\* file_dispute restrains the parcel in most cases, whatever its status.
FileDispute(d, p, type, u) ==
    /\ disputes[d].state = "none" /\ status[p] # "none" /\ MayClaim(u)
    /\ \E done \in 1..2 :
          /\ Stops(done, 2)
          /\ disputes' = [disputes EXCEPT ![d] = Filed(p, type)]
          /\ status' = IF done = 2 /\ type \in {"FRAUD", "OWNERSHIP"}
                       THEN [status EXCEPT ![p] = "DISPUTED"] ELSE status
    /\ UNCHANGED <<owner, origin, transfers, scores, titles, appeals, reviewVars>>

\* review_dispute reopens a closed dispute too.
ReviewDispute(d) ==
    /\ disputes[d].state # "none"
    /\ disputes' = [disputes EXCEPT ![d].state = "OPEN"]
    /\ UNCHANGED <<parcelVars, transfers, scores, titles, appeals, reviewVars, failures>>

Restrained(p) == status[p] \in {"FROZEN", "DISPUTED"}

\* The parcel a ruling sets free, if it was under restraint.
Released(p) == [status EXCEPT ![p] = IF Restrained(p) THEN "ACTIVE" ELSE @]

AfterRuling(row, outcome) == [row EXCEPT !.state = outcome, !.ruled = ~ @]

\* Mutant: a dispute that goes to court sets the parcel free as well.
ResolveDispute_AnyOutcome(d, outcome) ==
    /\ disputes[d].state # "none"
    /\ disputes' = [disputes EXCEPT ![d] = AfterRuling(@, outcome)]
    /\ status' = Released(disputes[d].parcel)
    /\ UNCHANGED <<owner, origin, transfers, scores, titles, appeals, reviewVars, failures>>

\* resolve_dispute closes a dispute, a closed one again too, or sends it to court and
\* leaves it open.
ResolveDispute(d, outcome) ==
    /\ disputes[d].state # "none"
    /\ \E done \in 1..2 :
          /\ Stops(done, 2)
          /\ disputes' = [disputes EXCEPT ![d] = AfterRuling(@, outcome)]
          /\ status' = IF done = 2 /\ outcome = "RESOLVED"
                       THEN Released(disputes[d].parcel) ELSE status
    /\ UNCHANGED <<owner, origin, transfers, scores, titles, appeals, reviewVars>>

-----------------------------------------------------------------------------
OpenFraud(p) ==
    \E d \in Dispute : /\ disputes[d].parcel = p /\ disputes[d].type = "FRAUD"
                       /\ disputes[d].state # "RESOLVED"

\* affirm_review by user u: the review, then for a BLOCK the parcel, then a FRAUD
\* dispute d in u's name unless one is open, then the event.
AffirmReview(t, u, d) ==
    LET p       == transfers[t].parcel
        blocks  == scores[t] = "BLOCK"
        files   == blocks /\ ~ OpenFraud(p)
        refuses == files /\ ~ MayClaim(u)
    IN  /\ reviews[t] = "PENDING_REVIEW" /\ disputes[d].state = "none"
        /\ \E done \in 1..4 :
              /\ Stops(done, IF refuses THEN 2 ELSE 4)
              /\ reviews' = [reviews EXCEPT ![t] = "HUMAN_AFFIRMED"]
              /\ status'  = IF done >= 2 /\ blocks THEN [status EXCEPT ![p] = "FROZEN"]
                                                  ELSE status
              /\ disputes' = IF done >= 3 /\ files
                             THEN [disputes EXCEPT ![d] = Filed(p, "FRAUD")] ELSE disputes
              /\ affirmed' = IF done = 4 THEN affirmed \cup {t} ELSE affirmed
              /\ refused' = IF done >= 2 /\ refuses THEN refused \cup {p}
                            ELSE IF done >= 2 /\ blocks THEN refused \ {p} ELSE refused
        /\ UNCHANGED <<owner, origin, transfers, scores, titles, appeals,
                       overdue, escalated, escalations>>

DismissReview(t) ==
    /\ reviews[t] = "PENDING_REVIEW"
    /\ reviews' = [reviews EXCEPT ![t] = "HUMAN_DISMISSED"]
    /\ UNCHANGED <<parcelVars, transfers, scores, titles, disputes, appeals,
                   affirmed, refused, overdue, escalated, escalations, failures>>

\* file_appeal takes the id of any transfer.
FileAppeal(a, t) ==
    /\ appeals[a].state = "none"
    /\ appeals' = [appeals EXCEPT ![a] = [state |-> "OPEN", transfer |-> t]]
    /\ UNCHANGED <<parcelVars, transfers, scores, titles, disputes, reviewVars, failures>>

\* resolve_appeal: the ruling, then the release of the transfer's parcel.
ResolveAppeal(a, outcome) ==
    LET t == appeals[a].transfer
    IN  /\ appeals[a].state = "OPEN"
        /\ \E done \in 1..2 :
              /\ Stops(done, 2)
              /\ appeals' = [appeals EXCEPT ![a].state = outcome]
              /\ status' = IF done = 2 /\ outcome = "UPHELD" /\ Exists(t)
                           THEN Released(transfers[t].parcel) ELSE status
        /\ UNCHANGED <<owner, origin, transfers, scores, titles, disputes, reviewVars>>

-----------------------------------------------------------------------------
Overdue == {t \in Transfer : reviews[t] = "PENDING_REVIEW" /\ t \notin escalated}

\* escalate_pending reads the reviews that have waited for 24 hours.
ReadOverdue ==
    /\ overdue = {}
    /\ \E ts \in SUBSET Overdue \ {{}} : overdue' = ts
    /\ UNCHANGED <<parcelVars, transfers, scores, titles, disputes, appeals,
                   reviews, affirmed, refused, escalated, escalations, failures>>

\* Mutant: the job freezes the parcel, as it once did.
EscalateRow_Freezes(t) ==
    /\ t \in overdue
    /\ overdue'   = overdue \ {t}
    /\ escalated' = escalated \cup {t}
    /\ escalations' = [escalations EXCEPT ![t] = @ + 1]
    /\ status' = IF scores[t] = "BLOCK"
                 THEN [status EXCEPT ![transfers[t].parcel] = "FROZEN"] ELSE status
    /\ UNCHANGED <<owner, origin, transfers, scores, titles, disputes, appeals,
                   reviews, affirmed, refused, failures>>

\* Mutant: the mark is the review's state and not a column of its own.
EscalateRow_SetsState(t) ==
    /\ t \in overdue
    /\ overdue'   = overdue \ {t}
    /\ escalated' = escalated \cup {t}
    /\ escalations' = [escalations EXCEPT ![t] = @ + 1]
    /\ reviews' = [reviews EXCEPT ![t] = "PENDING_REVIEW"]
    /\ UNCHANGED <<parcelVars, transfers, scores, titles, disputes, appeals, affirmed, refused, failures>>

\* One row: escalated_at is stamped, whatever became of the review meanwhile;
\* then the event.
EscalateRow(t) ==
    /\ t \in overdue
    /\ overdue'   = overdue \ {t}
    /\ escalated' = escalated \cup {t}
    /\ \E done \in 1..2 :
          /\ Stops(done, 2)
          /\ escalations' = IF done = 2 THEN [escalations EXCEPT ![t] = @ + 1] ELSE escalations
    /\ UNCHANGED <<parcelVars, transfers, scores, titles, disputes, appeals, reviews, affirmed, refused>>

\* The job's thread dies, with its process or by an exception.
EscalationDies ==
    /\ overdue # {} /\ failures < MaxFailures
    /\ overdue' = {} /\ failures' = failures + 1
    /\ UNCHANGED <<parcelVars, transfers, scores, titles, disputes, appeals,
                   reviews, affirmed, refused, escalated, escalations>>

-----------------------------------------------------------------------------
LandNext ==
    \/ \E p \in Parcel, o \in Owner \cup {NoOwner} : RegisterParcel(p, o)
    \/ \E t \in Transfer, p \in Parcel, o \in Owner : CreateTransfer(t, p, o)
    \/ \E t \in Transfer, a \in Action : Score(t, a)
    \/ \E t \in Transfer : ApproveTransfer(t)
    \/ \E p \in Parcel, o \in Owner : IssueTitle(p, o)
    \/ \E i \in DOMAIN titles : RevokeTitle(i)
    \/ \E d \in Dispute, p \in Parcel, type \in DisputeType, u \in User :
          FileDispute(d, p, type, u)
    \/ \E d \in Dispute : ReviewDispute(d)
    \/ \E d \in Dispute, outcome \in {"RESOLVED", "OPEN"} : ResolveDispute(d, outcome)
    \/ \E t \in Transfer, u \in User, d \in Dispute : AffirmReview(t, u, d)
    \/ \E t \in Transfer : DismissReview(t)
    \/ \E a \in Appeal, t \in Transfer : FileAppeal(a, t)
    \/ \E a \in Appeal, outcome \in Ruled : ResolveAppeal(a, outcome)
    \/ ReadOverdue \/ EscalationDies
    \/ \E t \in Transfer : EscalateRow(t)

LandSpec == LandInit /\ [][LandNext]_vars

-----------------------------------------------------------------------------
\* docs/AI_ETHICS_CHARTER.md section 1: a parcel is frozen only because a human
\* affirmed a BLOCK review of one of its transfers, whatever the scorer and the
\* escalation job did, and whatever else happened to the parcel.
FrozenByHuman ==
    \A p \in Parcel : status[p] = "FROZEN" =>
        \E t \in Transfer : /\ transfers[t].parcel = p
                            /\ scores[t] = "BLOCK" /\ reviews[t] = "HUMAN_AFFIRMED"

\* Ownership comes from the registration, from a title issued to a verified
\* owner, or from a transfer that was scored and not blocked; no interrupted
\* handler opens a fourth way.
OwnerIsVetted ==
    \A p \in Parcel :
        \/ owner[p] = origin[p]
        \/ \E i \in DOMAIN titles : /\ titles[i].parcel = p /\ titles[i].owner = owner[p]
                                    /\ titles[i].owner \in Verified
        \/ \E t \in Transfer : /\ transfers[t].parcel = p /\ transfers[t].to = owner[p]
                               /\ scores[t] \in {"NONE", "FLAG"}

\* escalation.py:31, "each entry is escalated at most once", through failures of
\* the job and decisions that race it.
EscalatedOnce == \A t \in Transfer : escalations[t] <= 1

\* What an officer decided about a review, or a registrar about an appeal, stays
\* so: the job's row may be stale by the time it is written.
DecisionsAreFinal ==
    [][/\ \A t \in Transfer : reviews[t] \in Decided => reviews'[t] = reviews[t]
       /\ \A a \in Appeal : appeals[a].state \in Ruled => appeals'[a] = appeals[a]]_vars

\* A parcel leaves a restraint by a ruling made in that very step, on a dispute about
\* it or on an appeal for one of its transfers, or else by the approval of one of its
\* transfers, which no longer looks at the status; no ruling on another parcel, no
\* title, filing or review sets it free, and none interrupted half way.
LiftedByRuling ==
    [][\A p \in Parcel :
          Restrained(p) /\ ~ Restrained(p)' =>
              \/ status'[p] = "ACTIVE" /\ \E d \in Dispute :
                    /\ disputes[d].parcel = p /\ disputes'[d].state = "RESOLVED"
                    /\ disputes'[d].ruled # disputes[d].ruled
              \/ status'[p] = "ACTIVE" /\ \E a \in Appeal :
                    /\ appeals[a].state = "OPEN" /\ appeals'[a].state = "UPHELD"
                    /\ transfers[appeals[a].transfer].parcel = p
              \/ status'[p] = "TRANSFERRED" /\ \E t \in Transfer :
                    /\ transfers[t].parcel = p /\ transfers[t].to = owner'[p]
                    /\ scores[t] \in {"NONE", "FLAG"}]_vars

\* docs/audit/CODEBASE_MAP.md:339, "Any path that flips parcels.status='FROZEN'
\* without a FRAUD_HUMAN_AFFIRMED audit event is a charter violation".
FreezeIsRecorded ==
    \A p \in Parcel : status[p] = "FROZEN" =>
        \E t \in affirmed : transfers[t].parcel = p

\* Why it may be missing: unless a handler was interrupted, a frozen parcel has its
\* event, and while it is frozen an open FRAUD dispute, or else the affirmation that
\* froze it last had that dispute refused, the officer being no owner.
FreezeIsWhole ==
    failures = 0 => \A p \in Parcel : status[p] = "FROZEN" =>
        \/ p \in refused
        \/ OpenFraud(p) /\ \E t \in affirmed : transfers[t].parcel = p

\* transfers.py:55, "parcel status is FROZEN - cannot transfer": a parcel under
\* restraint does not change hands.
RestrainedStaysPut ==
    [][\A p \in Parcel : Restrained(p) => owner'[p] = owner[p]]_vars
=============================================================================

------------------------- MODULE LandRegistryProofs -------------------------
(***************************************************************************)
(* Theorems about LandRegistry, for any parcels, owners, transfers and     *)
(* numbers of disputes, appeals, titles and interrupted handlers.          *)
(*                                                                         *)
(* LandInv is inductive.  FrozenByHuman rests on the parcel and the score  *)
(* of a transfer being fixed once given, and on a review being queued only *)
(* for a transfer that has a score (the last part of LandTypeOK).  The last *)
(* theorem says when a freeze has its event and its dispute: WholeInv is   *)
(* inductive, FreezeIsWhole being the part of it that matters.             *)
(***************************************************************************)
EXTENDS LandRegistry, SequenceTheorems, TLAPS

\* A row that is being escalated has no mark yet, and only a marked one has an
\* event: why each row is escalated once.
MarkedBeforeEvent ==
    \A t \in Transfer :
        /\ t \notin escalated => escalations[t] = 0
        /\ t \in overdue => t \notin escalated
        /\ escalations[t] <= 1

LandInv == LandTypeOK /\ FrozenByHuman /\ OwnerIsVetted /\ MarkedBeforeEvent

LEMMA InitInv == LandInit => LandInv
<1> SUFFICES ASSUME LandInit PROVE LandInv
  OBVIOUS
<1>1. LandTypeOK
  <2>1. titles \in Seq(TitleRow)
    BY EmptySeq DEF LandInit
  <2>2. failures \in 0..MaxFailures
    BY RegistryAssumption DEF LandInit
  <2> QED
    BY <2>1, <2>2 DEF LandInit, LandTypeOK, TransferRow, DisputeRow, NoDispute, AppealRow,
                      DisputeType
<1>2. FrozenByHuman /\ OwnerIsVetted /\ MarkedBeforeEvent
  BY DEF LandInit, FrozenByHuman, OwnerIsVetted, MarkedBeforeEvent
<1> QED
  BY <1>1, <1>2 DEF LandInv

\* How an interrupted handler leaves the count of failures.
LEMMA StopsType ==
    ASSUME failures \in 0..MaxFailures, NEW done, NEW n \in Nat, Stops(done, n)
    PROVE  failures' \in 0..MaxFailures
  BY RegistryAssumption DEF Stops

LEMMA ReleasedType ==
    ASSUME LandTypeOK, NEW p
    PROVE  Released(p) \in [Parcel -> {"none", "ACTIVE", "DISPUTED", "FROZEN", "TRANSFERRED"}]
  BY DEF Released, LandTypeOK

LEMMA TypeInductive == LandTypeOK /\ [LandNext]_vars => LandTypeOK'
<1> SUFFICES ASSUME LandTypeOK, [LandNext]_vars PROVE LandTypeOK'
  OBVIOUS
<1> USE DEF reviewVars, parcelVars, SetStatus
<1>1. ASSUME NEW p \in Parcel, NEW o \in Owner \cup {NoOwner}, RegisterParcel(p, o)
      PROVE  LandTypeOK'
  BY <1>1 DEF LandTypeOK, RegisterParcel
<1>2. ASSUME NEW t \in Transfer, NEW p \in Parcel, NEW o \in Owner, CreateTransfer(t, p, o)
      PROVE  LandTypeOK'
  BY <1>2 DEF LandTypeOK, CreateTransfer, TransferRow
<1>3. ASSUME NEW t \in Transfer, NEW a \in Action, Score(t, a)
      PROVE  LandTypeOK'
  <2>1. PICK done \in 1..2 :
              /\ Stops(done, 2)
              /\ scores' = [scores EXCEPT ![t] = a]
              /\ reviews' = IF done = 2 /\ a # "NONE"
                            THEN [reviews EXCEPT ![t] = "PENDING_REVIEW"] ELSE reviews
    BY <1>3 DEF Score
  <2>2. failures' \in 0..MaxFailures
    BY <2>1, StopsType DEF LandTypeOK
  <2>3. reviews[t] = "none"
    BY <1>3 DEF Score, LandTypeOK
  <2>4. scores' \in [Transfer -> Action \cup {"none"}]
        /\ reviews' \in [Transfer -> {"none", "PENDING_REVIEW"} \cup Decided]
    BY <2>1 DEF LandTypeOK
  <2>5. \A x \in Transfer : reviews'[x] # "none" => scores'[x] \in {"FLAG", "BLOCK"}
    BY <2>1, <2>3 DEF LandTypeOK, Action
  <2> QED
    BY <1>3, <2>2, <2>4, <2>5 DEF LandTypeOK, Score
<1>4. ASSUME NEW t \in Transfer, ApproveTransfer(t)
      PROVE  LandTypeOK'
  <2>1. transfers[t].to \in Owner \cup {NoOwner}
    BY DEF LandTypeOK, TransferRow
  <2> QED
    BY <1>4, <2>1 DEF LandTypeOK, ApproveTransfer
<1>5. ASSUME NEW p \in Parcel, NEW o \in Owner, IssueTitle(p, o)
      PROVE  LandTypeOK'
  <2>1. PICK done \in 1..2 :
          /\ Stops(done, 2)
          /\ titles' = Append(titles, [parcel |-> p, owner |-> o, revoked |-> FALSE])
          /\ status' = IF done = 2 THEN [status EXCEPT ![p] = "ACTIVE"] ELSE status
          /\ owner'  = IF done = 2 THEN [owner EXCEPT ![p] = o] ELSE owner
    BY <1>5 DEF IssueTitle
  <2>2. failures' \in 0..MaxFailures
    BY <2>1, StopsType DEF LandTypeOK
  <2>3. titles' \in Seq(TitleRow)
    BY <2>1, AppendProperties DEF LandTypeOK, TitleRow
  <2> QED
    BY <1>5, <2>1, <2>2, <2>3 DEF LandTypeOK, IssueTitle
<1>6. ASSUME NEW i \in DOMAIN titles, RevokeTitle(i)
      PROVE  LandTypeOK'
  <2>1. titles[i] \in TitleRow
    BY ElementOfSeq DEF LandTypeOK
  <2>2. [titles[i] EXCEPT !.revoked = TRUE] \in TitleRow
    BY <2>1 DEF TitleRow
  <2>3. titles' \in Seq(TitleRow)
    BY <1>6, <2>2, ExceptSeq DEF RevokeTitle, LandTypeOK
  <2> QED
    BY <1>6, <2>3 DEF LandTypeOK, RevokeTitle
<1>7. ASSUME NEW d \in Dispute, NEW p \in Parcel, NEW type \in DisputeType, NEW u \in User,
             FileDispute(d, p, type, u)
      PROVE  LandTypeOK'
  BY <1>7, StopsType DEF LandTypeOK, FileDispute, Filed, DisputeRow
<1>8. ASSUME NEW d \in Dispute, ReviewDispute(d)
      PROVE  LandTypeOK'
  BY <1>8 DEF LandTypeOK, ReviewDispute, DisputeRow
<1>9. ASSUME NEW d \in Dispute, NEW outcome \in {"RESOLVED", "OPEN"}, ResolveDispute(d, outcome)
      PROVE  LandTypeOK'
  <2>1. PICK done \in 1..2 :
          /\ Stops(done, 2)
          /\ disputes' = [disputes EXCEPT ![d] = AfterRuling(@, outcome)]
          /\ status' = IF done = 2 /\ outcome = "RESOLVED"
                       THEN Released(disputes[d].parcel) ELSE status
    BY <1>9 DEF ResolveDispute
  <2>2. failures' \in 0..MaxFailures
    BY <2>1, StopsType DEF LandTypeOK
  <2>3. status' \in [Parcel -> {"none", "ACTIVE", "DISPUTED", "FROZEN", "TRANSFERRED"}]
    BY <2>1, ReleasedType DEF LandTypeOK
  <2>4. disputes' \in [Dispute -> DisputeRow]
    <3>1. AfterRuling(disputes[d], outcome) \in DisputeRow
      BY DEF AfterRuling, LandTypeOK, DisputeRow
    <3> QED
      BY <2>1, <3>1 DEF LandTypeOK
  <2> QED
    BY <1>9, <2>2, <2>3, <2>4 DEF LandTypeOK, ResolveDispute
<1>10. ASSUME NEW t \in Transfer, NEW u \in User, NEW d \in Dispute, AffirmReview(t, u, d)
       PROVE  LandTypeOK'
  <2> DEFINE p       == transfers[t].parcel
             blocks  == scores[t] = "BLOCK"
             files   == blocks /\ ~ OpenFraud(p)
             refuses == files /\ ~ MayClaim(u)
  <2>1. PICK done \in 1..4 :
              /\ Stops(done, IF refuses THEN 2 ELSE 4)
              /\ reviews' = [reviews EXCEPT ![t] = "HUMAN_AFFIRMED"]
              /\ status'  = IF done >= 2 /\ blocks THEN [status EXCEPT ![p] = "FROZEN"]
                                                  ELSE status
              /\ disputes' = IF done >= 3 /\ files
                             THEN [disputes EXCEPT ![d] = Filed(p, "FRAUD")] ELSE disputes
              /\ affirmed' = IF done = 4 THEN affirmed \cup {t} ELSE affirmed
              /\ refused' = IF done >= 2 /\ refuses THEN refused \cup {p}
                            ELSE IF done >= 2 /\ blocks THEN refused \ {p} ELSE refused
    BY <1>10 DEF AffirmReview
  <2>2. failures' \in 0..MaxFailures
    <3>1. (IF refuses THEN 2 ELSE 4) \in Nat
      OBVIOUS
    <3> QED
      BY <2>1, <3>1, StopsType DEF LandTypeOK
  <2>3. p \in Parcel \cup {NoParcel}
    BY DEF LandTypeOK, TransferRow
  <2> HIDE DEF p, blocks, files, refuses
  <2>4. disputes' \in [Dispute -> DisputeRow]
    BY <2>1, <2>3 DEF LandTypeOK, DisputeRow, DisputeType, Filed
  <2>5. reviews' \in [Transfer -> {"none", "PENDING_REVIEW"} \cup Decided]
    BY <2>1 DEF LandTypeOK, Decided
  <2>6. status' \in [Parcel -> {"none", "ACTIVE", "DISPUTED", "FROZEN", "TRANSFERRED"}]
    BY <2>1 DEF LandTypeOK
  <2>7. affirmed' \subseteq Transfer /\ refused' \subseteq Parcel \cup {NoParcel}
    BY <2>1, <2>3 DEF LandTypeOK
  <2>8. \A x \in Transfer : reviews'[x] # "none" => scores[x] \in {"FLAG", "BLOCK"}
    BY <2>1, <1>10 DEF LandTypeOK, AffirmReview
  <2> QED
    BY <1>10, <2>2, <2>4, <2>5, <2>6, <2>7, <2>8 DEF LandTypeOK, AffirmReview
<1>11. ASSUME NEW t \in Transfer, DismissReview(t)
       PROVE  LandTypeOK'
  BY <1>11 DEF LandTypeOK, DismissReview, Decided
<1>12. ASSUME NEW a \in Appeal, NEW t \in Transfer, FileAppeal(a, t)
       PROVE  LandTypeOK'
  BY <1>12 DEF LandTypeOK, FileAppeal, AppealRow
<1>13. ASSUME NEW a \in Appeal, NEW outcome \in Ruled, ResolveAppeal(a, outcome)
       PROVE  LandTypeOK'
  <2> DEFINE t == appeals[a].transfer
  <2>1. PICK done \in 1..2 :
          /\ Stops(done, 2)
          /\ appeals' = [appeals EXCEPT ![a].state = outcome]
          /\ status' = IF done = 2 /\ outcome = "UPHELD" /\ Exists(t)
                       THEN Released(transfers[t].parcel) ELSE status
    BY <1>13 DEF ResolveAppeal
  <2>2. failures' \in 0..MaxFailures
    BY <2>1, StopsType DEF LandTypeOK
  <2>3. status' \in [Parcel -> {"none", "ACTIVE", "DISPUTED", "FROZEN", "TRANSFERRED"}]
    BY <2>1, ReleasedType DEF LandTypeOK
  <2>4. appeals' \in [Appeal -> AppealRow]
    BY <2>1 DEF LandTypeOK, AppealRow
  <2> QED
    BY <1>13, <2>2, <2>3, <2>4 DEF LandTypeOK, ResolveAppeal
<1>14. CASE ReadOverdue
  BY <1>14 DEF LandTypeOK, ReadOverdue, Overdue
<1>15. CASE EscalationDies
  BY <1>15, RegistryAssumption DEF LandTypeOK, EscalationDies
<1>16. ASSUME NEW t \in Transfer, EscalateRow(t)
       PROVE  LandTypeOK'
  BY <1>16, StopsType DEF LandTypeOK, EscalateRow
<1>17. CASE UNCHANGED vars
  BY <1>17 DEF LandTypeOK, vars
<1> QED
  BY <1>1, <1>2, <1>3, <1>4, <1>5, <1>6, <1>7, <1>8, <1>9, <1>10, <1>11, <1>12, <1>13,
     <1>14, <1>15, <1>16, <1>17 DEF LandNext

-----------------------------------------------------------------------------
\* A transfer's parcel and buyer, its score and the affirmation of its review
\* are there to stay: no handler and no job takes back what a freeze rests on.
LEMMA EvidenceStays ==
    ASSUME LandTypeOK, [LandNext]_vars, NEW t \in Transfer
    PROVE  /\ Exists(t) => transfers'[t] = transfers[t]
           /\ scores[t] # "none" => scores'[t] = scores[t]
           /\ reviews[t] \in Decided => reviews'[t] = reviews[t]
<1> DEFINE Stays == /\ Exists(t) => transfers'[t] = transfers[t]
                    /\ scores[t] # "none" => scores'[t] = scores[t]
                    /\ reviews[t] \in Decided => reviews'[t] = reviews[t]
<1> USE DEF reviewVars, parcelVars
<1>1. ASSUME NEW x \in Transfer, NEW p \in Parcel, NEW o \in Owner, CreateTransfer(x, p, o)
      PROVE  Stays
  BY <1>1 DEF CreateTransfer, LandTypeOK
<1>2. ASSUME NEW x \in Transfer, NEW a \in Action, Score(x, a)
      PROVE  Stays
  BY <1>2 DEF Score, LandTypeOK, Decided
<1>3. ASSUME NEW x \in Transfer, NEW u \in User, NEW d \in Dispute, AffirmReview(x, u, d)
      PROVE  Stays
  BY <1>3 DEF AffirmReview, LandTypeOK, Decided
<1>4. ASSUME NEW x \in Transfer, DismissReview(x)
      PROVE  Stays
  BY <1>4 DEF DismissReview, LandTypeOK, Decided
<1>5. CASE UNCHANGED <<transfers, scores, reviews>>
  BY <1>5
<1>6. \/ UNCHANGED <<transfers, scores, reviews>>
      \/ \E x \in Transfer, p \in Parcel, o \in Owner : CreateTransfer(x, p, o)
      \/ \E x \in Transfer, a \in Action : Score(x, a)
      \/ \E x \in Transfer, u \in User, d \in Dispute : AffirmReview(x, u, d)
      \/ \E x \in Transfer : DismissReview(x)
  BY DEF LandNext, vars, RegisterParcel, ApproveTransfer, IssueTitle, RevokeTitle, FileDispute,
         ReviewDispute, ResolveDispute, FileAppeal, ResolveAppeal, ReadOverdue, EscalationDies,
         EscalateRow
<1> QED
  BY <1>1, <1>2, <1>3, <1>4, <1>5, <1>6

\* Only the affirmation of a BLOCK makes a parcel FROZEN.
LEMMA FreezeIsAffirmation ==
    ASSUME LandTypeOK, [LandNext]_vars, NEW p \in Parcel, status'[p] = "FROZEN"
    PROVE  \/ status[p] = "FROZEN"
           \/ \E t \in Transfer, u \in User, d \in Dispute :
                 AffirmReview(t, u, d) /\ scores[t] = "BLOCK" /\ transfers[t].parcel = p
<1> DEFINE Goal == \/ status[p] = "FROZEN"
                   \/ \E t \in Transfer, u \in User, d \in Dispute :
                         AffirmReview(t, u, d) /\ scores[t] = "BLOCK" /\ transfers[t].parcel = p
<1> USE DEF reviewVars, parcelVars, SetStatus
<1>1. ASSUME NEW x \in Transfer, NEW u \in User, NEW d \in Dispute, AffirmReview(x, u, d)
      PROVE  Goal
  <2>1. status[p] = "FROZEN" \/ (scores[x] = "BLOCK" /\ transfers[x].parcel = p)
    BY <1>1 DEF AffirmReview, LandTypeOK
  <2> QED
    BY <1>1, <2>1
<1>2. ASSUME NEW q \in Parcel, NEW o \in Owner \cup {NoOwner}, RegisterParcel(q, o)
      PROVE  Goal
  BY <1>2 DEF RegisterParcel, LandTypeOK
<1>3. ASSUME NEW x \in Transfer, ApproveTransfer(x)
      PROVE  Goal
  BY <1>3 DEF ApproveTransfer, LandTypeOK
<1>4. ASSUME NEW q \in Parcel, NEW o \in Owner, IssueTitle(q, o)
      PROVE  Goal
  BY <1>4 DEF IssueTitle, LandTypeOK
<1>5. ASSUME NEW d \in Dispute, NEW q \in Parcel, NEW type \in DisputeType, NEW u \in User,
             FileDispute(d, q, type, u)
      PROVE  Goal
  BY <1>5 DEF FileDispute, LandTypeOK
<1>6. ASSUME NEW d \in Dispute, NEW outcome \in {"RESOLVED", "OPEN"}, ResolveDispute(d, outcome)
      PROVE  Goal
  BY <1>6 DEF ResolveDispute, Released, LandTypeOK
<1>7. ASSUME NEW a \in Appeal, NEW outcome \in Ruled, ResolveAppeal(a, outcome)
      PROVE  Goal
  BY <1>7 DEF ResolveAppeal, Released, LandTypeOK
<1>8. CASE UNCHANGED status
  BY <1>8
<1>9. \/ UNCHANGED status
      \/ \E x \in Transfer, u \in User, d \in Dispute : AffirmReview(x, u, d)
      \/ \E q \in Parcel, o \in Owner \cup {NoOwner} : RegisterParcel(q, o)
      \/ \E x \in Transfer : ApproveTransfer(x)
      \/ \E q \in Parcel, o \in Owner : IssueTitle(q, o)
      \/ \E d \in Dispute, q \in Parcel, type \in DisputeType, u \in User :
            FileDispute(d, q, type, u)
      \/ \E d \in Dispute, outcome \in {"RESOLVED", "OPEN"} : ResolveDispute(d, outcome)
      \/ \E a \in Appeal, outcome \in Ruled : ResolveAppeal(a, outcome)
  BY DEF LandNext, vars, CreateTransfer, Score, RevokeTitle, ReviewDispute, DismissReview,
         FileAppeal, ReadOverdue, EscalationDies, EscalateRow
<1> QED
  BY <1>1, <1>2, <1>3, <1>4, <1>5, <1>6, <1>7, <1>8, <1>9

LEMMA FrozenInductive == LandTypeOK /\ FrozenByHuman /\ [LandNext]_vars => FrozenByHuman'
<1> SUFFICES ASSUME LandTypeOK, FrozenByHuman, [LandNext]_vars,
                    NEW p \in Parcel, status'[p] = "FROZEN"
             PROVE  \E t \in Transfer : /\ transfers'[t].parcel = p /\ scores'[t] = "BLOCK"
                                        /\ reviews'[t] = "HUMAN_AFFIRMED"
  BY DEF FrozenByHuman
<1>1. CASE status[p] = "FROZEN"
  <2>1. PICK t \in Transfer : /\ transfers[t].parcel = p /\ scores[t] = "BLOCK"
                              /\ reviews[t] = "HUMAN_AFFIRMED"
    BY <1>1 DEF FrozenByHuman
  <2>2. Exists(t) /\ scores[t] # "none" /\ reviews[t] \in Decided
    BY <2>1, RegistryAssumption DEF Exists, Decided
  <2> QED
    BY <2>1, <2>2, EvidenceStays
<1>2. ASSUME NEW t \in Transfer, NEW u \in User, NEW d \in Dispute, AffirmReview(t, u, d),
             scores[t] = "BLOCK", transfers[t].parcel = p
      PROVE  transfers'[t].parcel = p /\ scores'[t] = "BLOCK" /\ reviews'[t] = "HUMAN_AFFIRMED"
  BY <1>2 DEF AffirmReview, LandTypeOK
<1> QED
  BY <1>1, <1>2, FreezeIsAffirmation

-----------------------------------------------------------------------------
\* A title stays in the register, revoked or not.
LEMMA TitlesStay ==
    ASSUME LandTypeOK, [LandNext]_vars, NEW i \in DOMAIN titles
    PROVE  /\ i \in DOMAIN titles'
           /\ titles'[i].parcel = titles[i].parcel /\ titles'[i].owner = titles[i].owner
<1> DEFINE Stays == /\ i \in DOMAIN titles'
                    /\ titles'[i].parcel = titles[i].parcel
                    /\ titles'[i].owner = titles[i].owner
<1>1. ASSUME NEW p \in Parcel, NEW o \in Owner, IssueTitle(p, o)
      PROVE  Stays
  <2>1. PICK row : titles' = Append(titles, row)
    BY <1>1 DEF IssueTitle
  <2>2. row = titles'[Len(titles) + 1]
    BY <2>1 DEF LandTypeOK
  <2>3. titles'[i] = titles[i] /\ i \in DOMAIN titles'
    BY <2>1 DEF LandTypeOK
  <2> QED
    BY <2>3
<1>2. ASSUME NEW j \in DOMAIN titles, RevokeTitle(j)
      PROVE  Stays
  <2>1. titles[j] \in TitleRow
    BY ElementOfSeq DEF LandTypeOK
  <2>2. titles' = [titles EXCEPT ![j] = [titles[j] EXCEPT !.revoked = TRUE]]
    BY <1>2 DEF RevokeTitle
  <2>3. DOMAIN titles' = DOMAIN titles
    BY <2>2
  <2>4. CASE i = j
    <3>1. titles'[i] = [titles[i] EXCEPT !.revoked = TRUE]
      BY <2>2, <2>4 DEF LandTypeOK
    <3> QED
      BY <3>1, <2>1, <2>3, <2>4 DEF TitleRow
  <2>5. CASE i # j
    BY <2>2, <2>3, <2>5 DEF LandTypeOK
  <2> QED
    BY <2>4, <2>5
<1>3. CASE UNCHANGED titles
  BY <1>3
<1>4. \/ UNCHANGED titles
      \/ \E p \in Parcel, o \in Owner : IssueTitle(p, o)
      \/ \E j \in DOMAIN titles : RevokeTitle(j)
  BY DEF LandNext, vars, RegisterParcel, CreateTransfer, Score, ApproveTransfer, FileDispute,
         ReviewDispute, ResolveDispute, AffirmReview, DismissReview, FileAppeal, ResolveAppeal,
         ReadOverdue, EscalationDies, EscalateRow
<1> QED
  BY <1>1, <1>2, <1>3, <1>4

\* What entitles o to own p.
Vetted(p, o) ==
    \/ \E i \in DOMAIN titles : /\ titles[i].parcel = p /\ titles[i].owner = o
                                /\ titles[i].owner \in Verified
    \/ \E t \in Transfer : /\ transfers[t].parcel = p /\ transfers[t].to = o
                           /\ scores[t] \in {"NONE", "FLAG"}

LEMMA VettedStays ==
    ASSUME LandTypeOK, [LandNext]_vars, NEW p \in Parcel, NEW o, Vetted(p, o)
    PROVE  Vetted(p, o)'
<1>1. ASSUME NEW i \in DOMAIN titles, titles[i].parcel = p, titles[i].owner = o,
             titles[i].owner \in Verified
      PROVE  Vetted(p, o)'
  BY <1>1, TitlesStay DEF Vetted
<1>2. ASSUME NEW t \in Transfer, transfers[t].parcel = p, transfers[t].to = o,
             scores[t] \in {"NONE", "FLAG"}
      PROVE  Vetted(p, o)'
  <2>1. Exists(t) /\ scores[t] # "none"
    BY <1>2, RegistryAssumption DEF Exists
  <2>2. transfers'[t] = transfers[t] /\ scores'[t] = scores[t]
    BY <2>1, EvidenceStays
  <2> QED
    BY <1>2, <2>2 DEF Vetted
<1> QED
  BY <1>1, <1>2 DEF Vetted

\* An owner changes by registration, by a title or by an approved transfer.
LEMMA NewOwnerIsVetted ==
    ASSUME LandTypeOK, [LandNext]_vars, NEW p \in Parcel,
           ~ (owner'[p] = owner[p] /\ origin'[p] = origin[p])
    PROVE  owner'[p] = origin'[p] \/ Vetted(p, owner[p])'
<1> USE DEF reviewVars, parcelVars, SetStatus
<1>1. ASSUME NEW q \in Parcel, NEW o \in Owner \cup {NoOwner}, RegisterParcel(q, o)
      PROVE  owner'[p] = origin'[p]
  BY <1>1 DEF RegisterParcel, LandTypeOK
<1>2. ASSUME NEW t \in Transfer, ApproveTransfer(t)
      PROVE  Vetted(p, owner[p])'
  <2>1. p = transfers[t].parcel /\ owner'[p] = transfers[t].to
    BY <1>2 DEF ApproveTransfer, LandTypeOK
  <2>2. transfers' = transfers /\ scores' = scores /\ scores[t] \in {"NONE", "FLAG"}
    BY <1>2 DEF ApproveTransfer, MayComplete
  <2> QED
    BY <2>1, <2>2 DEF Vetted
<1>3. ASSUME NEW q \in Parcel, NEW o \in Owner, IssueTitle(q, o)
      PROVE  Vetted(p, owner[p])'
  <2>1. p = q /\ owner'[p] = o /\ o \in Verified
    BY <1>3 DEF IssueTitle, LandTypeOK
  <2>2. titles' = Append(titles, [parcel |-> q, owner |-> o, revoked |-> FALSE])
    BY <1>3 DEF IssueTitle
  <2>3. /\ Len(titles) + 1 \in DOMAIN titles'
        /\ titles'[Len(titles) + 1] = [parcel |-> q, owner |-> o, revoked |-> FALSE]
    BY <2>2 DEF LandTypeOK
  <2>4. \E i \in DOMAIN titles' : /\ titles'[i].parcel = p /\ titles'[i].owner = owner'[p]
                                 /\ titles'[i].owner \in Verified
    BY <2>1, <2>3
  <2> QED
    BY <2>4 DEF Vetted
<1>4. \/ \E q \in Parcel, o \in Owner \cup {NoOwner} : RegisterParcel(q, o)
      \/ \E t \in Transfer : ApproveTransfer(t)
      \/ \E q \in Parcel, o \in Owner : IssueTitle(q, o)
  BY DEF LandNext, vars, CreateTransfer, Score, RevokeTitle, FileDispute, ReviewDispute,
         ResolveDispute, AffirmReview, DismissReview, FileAppeal, ResolveAppeal, ReadOverdue,
         EscalationDies, EscalateRow
<1> QED
  BY <1>1, <1>2, <1>3, <1>4

LEMMA VettedInductive == LandTypeOK /\ OwnerIsVetted /\ [LandNext]_vars => OwnerIsVetted'
<1> SUFFICES ASSUME LandTypeOK, OwnerIsVetted, [LandNext]_vars, NEW p \in Parcel
             PROVE  owner'[p] = origin'[p] \/ Vetted(p, owner[p])'
  BY DEF OwnerIsVetted, Vetted
<1>1. CASE owner'[p] = owner[p] /\ origin'[p] = origin[p]
  <2>1. owner[p] = origin[p] \/ Vetted(p, owner[p])
    BY DEF OwnerIsVetted, Vetted
  <2>2. CASE owner[p] = origin[p]
    BY <1>1, <2>2
  <2>3. CASE Vetted(p, owner[p])
    <3>1. PICK o : o = owner[p]
      OBVIOUS
    <3>2. Vetted(p, o)
      BY <2>3, <3>1
    <3>3. Vetted(p, o)'
      BY <3>2, VettedStays
    <3> QED
      BY <3>1, <3>3, <1>1 DEF Vetted
  <2> QED
    BY <2>1, <2>2, <2>3
<1> QED
  BY <1>1, NewOwnerIsVetted

-----------------------------------------------------------------------------
LEMMA MarkInductive ==
    LandTypeOK /\ MarkedBeforeEvent /\ [LandNext]_vars => MarkedBeforeEvent'
<1> SUFFICES ASSUME LandTypeOK, MarkedBeforeEvent, [LandNext]_vars PROVE MarkedBeforeEvent'
  OBVIOUS
<1> USE DEF reviewVars, parcelVars
<1>1. CASE ReadOverdue
  BY <1>1 DEF ReadOverdue, Overdue, MarkedBeforeEvent, LandTypeOK
<1>2. CASE EscalationDies
  BY <1>2 DEF EscalationDies, MarkedBeforeEvent, LandTypeOK
<1>3. ASSUME NEW t \in Transfer, EscalateRow(t)
      PROVE  MarkedBeforeEvent'
  <2>1. escalations[t] = 0 /\ t \notin escalated
    BY <1>3 DEF EscalateRow, MarkedBeforeEvent
  <2>2. \/ escalations' = [escalations EXCEPT ![t] = @ + 1]
        \/ escalations' = escalations
    BY <1>3 DEF EscalateRow
  <2> QED
    BY <1>3, <2>1, <2>2 DEF EscalateRow, MarkedBeforeEvent, LandTypeOK
<1>4. CASE UNCHANGED <<overdue, escalated, escalations>>
  BY <1>4 DEF MarkedBeforeEvent
<1>5. \/ UNCHANGED <<overdue, escalated, escalations>>
      \/ ReadOverdue \/ EscalationDies \/ \E t \in Transfer : EscalateRow(t)
  BY DEF LandNext, vars, RegisterParcel, CreateTransfer, Score, ApproveTransfer, IssueTitle,
         RevokeTitle, FileDispute, ReviewDispute, ResolveDispute, AffirmReview, DismissReview,
         FileAppeal, ResolveAppeal
<1> QED
  BY <1>1, <1>2, <1>3, <1>4, <1>5

LEMMA LandInvariant == LandSpec => []LandInv
<1>1. LandInv /\ [LandNext]_vars => LandInv'
  BY TypeInductive, FrozenInductive, VettedInductive, MarkInductive DEF LandInv
<1> QED
  BY InitInv, <1>1, PTL DEF LandSpec

\* The registry's state has its type whatever is filed, approved, decided and
\* interrupted; a review belongs to an alert.
THEOREM LandTypes == LandSpec => []LandTypeOK
<1>1. LandInv => LandTypeOK
  BY DEF LandInv
<1> QED
  BY <1>1, LandInvariant, PTL

\* No auto-freeze: section 1 of the charter for any number of parcels, transfers
\* and officers.
THEOREM OnlyHumansFreeze == LandSpec => []FrozenByHuman
<1>1. LandInv => FrozenByHuman
  BY DEF LandInv
<1> QED
  BY <1>1, LandInvariant, PTL

\* Ownership is registered, titled or transferred through the fraud gate.
THEOREM OwnersAreVetted == LandSpec => []OwnerIsVetted
<1>1. LandInv => OwnerIsVetted
  BY DEF LandInv
<1> QED
  BY <1>1, LandInvariant, PTL

\* At most one FRAUD_REVIEW_ESCALATED event for each review.
THEOREM EscalationIsOnce == LandSpec => []EscalatedOnce
<1>1. LandInv => EscalatedOnce
  BY DEF LandInv, MarkedBeforeEvent, EscalatedOnce
<1> QED
  BY <1>1, LandInvariant, PTL

\* Reviews and appeals keep their decisions.
THEOREM DecisionsStay == LandSpec => DecisionsAreFinal
<1>1. ASSUME LandTypeOK, [LandNext]_vars, NEW a \in Appeal, appeals[a].state \in Ruled
      PROVE  appeals'[a] = appeals[a]
  <2>1. ASSUME NEW b \in Appeal, NEW t \in Transfer, FileAppeal(b, t)
        PROVE  appeals'[a] = appeals[a]
    BY <1>1, <2>1 DEF FileAppeal, LandTypeOK, Ruled
  <2>2. ASSUME NEW b \in Appeal, NEW outcome \in Ruled, ResolveAppeal(b, outcome)
        PROVE  appeals'[a] = appeals[a]
    <3>1. appeals[b].state = "OPEN" /\ appeals' = [appeals EXCEPT ![b].state = outcome]
      BY <2>2 DEF ResolveAppeal
    <3> QED
      BY <1>1, <3>1 DEF LandTypeOK, Ruled
  <2>3. CASE UNCHANGED appeals
    BY <2>3
  <2>4. \/ UNCHANGED appeals
        \/ \E b \in Appeal, t \in Transfer : FileAppeal(b, t)
        \/ \E b \in Appeal, outcome \in Ruled : ResolveAppeal(b, outcome)
    BY <1>1 DEF LandNext, vars, RegisterParcel, CreateTransfer, Score, ApproveTransfer, IssueTitle,
           RevokeTitle, FileDispute, ReviewDispute, ResolveDispute, AffirmReview, DismissReview,
           ReadOverdue, EscalationDies, EscalateRow
  <2> QED
    BY <2>1, <2>2, <2>3, <2>4
<1>2. LandTypeOK /\ [LandNext]_vars =>
        [/\ \A t \in Transfer : reviews[t] \in Decided => reviews'[t] = reviews[t]
         /\ \A a \in Appeal : appeals[a].state \in Ruled => appeals'[a] = appeals[a]]_vars
  BY <1>1, EvidenceStays
<1> QED
  BY <1>2, LandTypes, PTL DEF LandSpec, DecisionsAreFinal

\* A release leaves every other parcel as it is.
LEMMA ReleasedOnly ==
  ASSUME LandTypeOK, NEW p \in Parcel, NEW q, p # q
  PROVE  Released(q)[p] = status[p]
BY DEF LandTypeOK, Released

\* No title, filing or review ends a restraint: a ruling made in that step does, on a
\* dispute about the parcel or on an appeal for a transfer of it, or an approval.
THEOREM RestraintLiftedByRuling == LandSpec => LiftedByRuling
<1> DEFINE Ruling(p) == \E d \in Dispute :
                           /\ disputes[d].parcel = p /\ disputes'[d].state = "RESOLVED"
                           /\ disputes'[d].ruled # disputes[d].ruled
           Upheld(p) == \E a \in Appeal :
                           /\ appeals[a].state = "OPEN" /\ appeals'[a].state = "UPHELD"
                           /\ transfers[appeals[a].transfer].parcel = p
           Approved(p) == \E t \in Transfer :
                             /\ transfers[t].parcel = p /\ transfers[t].to = owner'[p]
                             /\ scores[t] \in {"NONE", "FLAG"}
           Lifted(p) == \/ status'[p] = "ACTIVE" /\ Ruling(p)
                        \/ status'[p] = "ACTIVE" /\ Upheld(p)
                        \/ status'[p] = "TRANSFERRED" /\ Approved(p)
<1> USE DEF reviewVars, parcelVars, SetStatus
<1>1. ASSUME LandTypeOK, [LandNext]_vars, NEW p \in Parcel,
             status[p] \in {"FROZEN", "DISPUTED"}, status'[p] \notin {"FROZEN", "DISPUTED"}
      PROVE  Lifted(p)
  <2>1. ASSUME NEW d \in Dispute, NEW outcome \in {"RESOLVED", "OPEN"}, ResolveDispute(d, outcome)
        PROVE  status'[p] = "ACTIVE" /\ Ruling(p)
    <3>1. outcome = "RESOLVED" /\ status' = Released(disputes[d].parcel)
      BY <1>1, <2>1 DEF ResolveDispute
    <3>2. p = disputes[d].parcel
      BY <1>1, <3>1, ReleasedOnly
    <3>3. disputes' = [disputes EXCEPT ![d] = AfterRuling(@, outcome)]
      BY <2>1 DEF ResolveDispute
    <3>4. disputes'[d] = AfterRuling(disputes[d], "RESOLVED")
      BY <1>1, <3>1, <3>3 DEF LandTypeOK
    <3>5. /\ AfterRuling(disputes[d], "RESOLVED").state = "RESOLVED"
          /\ AfterRuling(disputes[d], "RESOLVED").ruled = ~ disputes[d].ruled
      BY <1>1 DEF AfterRuling, LandTypeOK, DisputeRow
    <3>6. disputes'[d].ruled # disputes[d].ruled
      <4>1. disputes'[d].ruled = ~ disputes[d].ruled
        BY <3>4, <3>5
      <4> QED
        BY <4>1
    <3>7. status'[p] = "ACTIVE"
      BY <1>1, <3>1, <3>2 DEF Released, Restrained, LandTypeOK
    <3>8. disputes'[d].state = "RESOLVED"
      BY <3>4, <3>5
    <3> QED
      BY <3>2, <3>6, <3>7, <3>8
  <2>2. ASSUME NEW a \in Appeal, NEW outcome \in Ruled, ResolveAppeal(a, outcome)
        PROVE  status'[p] = "ACTIVE" /\ Upheld(p)
    <3>1. outcome = "UPHELD" /\ status' = Released(transfers[appeals[a].transfer].parcel)
      BY <1>1, <2>2 DEF ResolveAppeal
    <3>2. p = transfers[appeals[a].transfer].parcel
      BY <1>1, <3>1, ReleasedOnly
    <3>3. appeals[a].state = "OPEN" /\ appeals' = [appeals EXCEPT ![a].state = outcome]
      BY <2>2 DEF ResolveAppeal
    <3>4. appeals'[a].state = "UPHELD"
      BY <1>1, <3>1, <3>3 DEF LandTypeOK, AppealRow
    <3>5. status'[p] = "ACTIVE"
      BY <1>1, <3>1, <3>2 DEF Released, Restrained, LandTypeOK
    <3> QED
      BY <3>2, <3>3, <3>4, <3>5
  <2>9. ASSUME NEW t \in Transfer, ApproveTransfer(t)
        PROVE  status'[p] = "TRANSFERRED" /\ Approved(p)
    <3>1. p = transfers[t].parcel
      BY <1>1, <2>9 DEF ApproveTransfer, LandTypeOK
    <3>2. status'[p] = "TRANSFERRED" /\ owner'[p] = transfers[t].to
      BY <1>1, <2>9, <3>1 DEF ApproveTransfer, LandTypeOK
    <3> QED
      BY <2>9, <3>1, <3>2 DEF ApproveTransfer, MayComplete
  <2>3. ~ \E q \in Parcel, o \in Owner \cup {NoOwner} : RegisterParcel(q, o)
    BY <1>1 DEF RegisterParcel, LandTypeOK
  <2>4. ~ \E q \in Parcel, o \in Owner : IssueTitle(q, o)
    BY <1>1 DEF IssueTitle, Free, LandTypeOK
  <2>6. ~ \E d \in Dispute, q \in Parcel, type \in DisputeType, u \in User :
              FileDispute(d, q, type, u)
    BY <1>1 DEF FileDispute, LandTypeOK
  <2>7. ~ \E t \in Transfer, u \in User, d \in Dispute : AffirmReview(t, u, d)
    BY <1>1 DEF AffirmReview, LandTypeOK
  <2>8. \/ \E d \in Dispute, outcome \in {"RESOLVED", "OPEN"} : ResolveDispute(d, outcome)
        \/ \E a \in Appeal, outcome \in Ruled : ResolveAppeal(a, outcome)
        \/ \E t \in Transfer : ApproveTransfer(t)
    BY <1>1, <2>3, <2>4, <2>6, <2>7
       DEF LandNext, vars, CreateTransfer, Score, RevokeTitle, ReviewDispute, DismissReview,
           FileAppeal, ReadOverdue, EscalationDies, EscalateRow
  <2> QED
    BY <2>1, <2>2, <2>8, <2>9
<1>2. LandTypeOK /\ [LandNext]_vars =>
        [\A p \in Parcel : Restrained(p) /\ ~ Restrained(p)' => Lifted(p)]_vars
  <2> SUFFICES ASSUME LandTypeOK, [LandNext]_vars, NEW p \in Parcel,
                      Restrained(p), ~ Restrained(p)'
               PROVE  Lifted(p)
    OBVIOUS
  <2> QED
    BY <1>1 DEF Restrained
<1> QED
  BY <1>2, LandTypes, PTL DEF LandSpec, LiftedByRuling

-----------------------------------------------------------------------------
(***************************************************************************)
(* A freeze that nothing interrupts.  It goes without its dispute and its  *)
(* event only because the dispute is refused, the officer being no owner.  *)
(***************************************************************************)

NoRowNoParcel == \A d \in Dispute : disputes[d].state = "none" => disputes[d].parcel = NoParcel

WholeInv == LandInv /\ NoRowNoParcel /\ FreezeIsWhole

\* A handler that is not interrupted does all its statements.
LEMMA StopsAtTheEnd ==
    ASSUME failures \in Nat, failures' = failures, NEW n \in Nat, NEW done, Stops(done, n)
    PROVE  done = n
BY DEF Stops

LEMMA NoRowInductive == LandTypeOK /\ NoRowNoParcel /\ [LandNext]_vars => NoRowNoParcel'
<1> SUFFICES ASSUME LandTypeOK, NoRowNoParcel, [LandNext]_vars PROVE NoRowNoParcel'
  OBVIOUS
<1>1. ASSUME NEW d \in Dispute, NEW q, NEW type,
             disputes' = [disputes EXCEPT ![d] = Filed(q, type)]
      PROVE  NoRowNoParcel'
  BY <1>1 DEF NoRowNoParcel, LandTypeOK, Filed
<1>2. ASSUME NEW d \in Dispute, NEW s, disputes' = [disputes EXCEPT ![d].state = s], s # "none"
      PROVE  NoRowNoParcel'
  BY <1>2 DEF NoRowNoParcel, LandTypeOK, DisputeRow
<1>3. ASSUME NEW d \in Dispute, NEW p \in Parcel, NEW type \in DisputeType, NEW u \in User,
             FileDispute(d, p, type, u)
      PROVE  NoRowNoParcel'
  BY <1>1, <1>3 DEF FileDispute
<1>4. ASSUME NEW d \in Dispute, ReviewDispute(d)
      PROVE  NoRowNoParcel'
  BY <1>2, <1>4 DEF ReviewDispute
<1>5. ASSUME NEW d \in Dispute, NEW outcome \in {"RESOLVED", "OPEN"}, ResolveDispute(d, outcome)
      PROVE  NoRowNoParcel'
  <2>1. disputes' = [disputes EXCEPT ![d] = AfterRuling(@, outcome)]
    BY <1>5 DEF ResolveDispute
  <2>2. AfterRuling(disputes[d], outcome).state = outcome
    BY DEF AfterRuling, LandTypeOK, DisputeRow
  <2> QED
    BY <2>1, <2>2 DEF NoRowNoParcel, LandTypeOK
<1>6. ASSUME NEW t \in Transfer, NEW u \in User, NEW d \in Dispute, AffirmReview(t, u, d)
      PROVE  NoRowNoParcel'
  <2>1. \/ disputes' = disputes
        \/ disputes' = [disputes EXCEPT ![d] = Filed(transfers[t].parcel, "FRAUD")]
    BY <1>6 DEF AffirmReview
  <2>2. CASE disputes' = disputes
    BY <2>2 DEF NoRowNoParcel
  <2> QED
    BY <1>1, <2>1, <2>2
<1>7. CASE disputes' = disputes
  BY <1>7 DEF NoRowNoParcel
<1>8. \/ disputes' = disputes
      \/ \E d \in Dispute, p \in Parcel, type \in DisputeType, u \in User :
            FileDispute(d, p, type, u)
      \/ \E d \in Dispute : ReviewDispute(d)
      \/ \E d \in Dispute, outcome \in {"RESOLVED", "OPEN"} : ResolveDispute(d, outcome)
      \/ \E t \in Transfer, u \in User, d \in Dispute : AffirmReview(t, u, d)
  BY DEF LandNext, vars, RegisterParcel, CreateTransfer, Score, ApproveTransfer, IssueTitle,
         RevokeTitle, DismissReview, FileAppeal, ResolveAppeal, ReadOverdue, EscalationDies,
         EscalateRow
<1> QED
  BY <1>3, <1>4, <1>5, <1>6, <1>7, <1>8

\* While the parcel stays frozen its open dispute is neither closed nor replaced.
LEMMA FraudStaysOpen ==
    ASSUME LandTypeOK, NoRowNoParcel, [LandNext]_vars, failures' = failures,
           NEW p \in Parcel, OpenFraud(p), status'[p] = "FROZEN"
    PROVE  OpenFraud(p)'
<1>1. PICK d0 \in Dispute : /\ disputes[d0].parcel = p /\ disputes[d0].type = "FRAUD"
                            /\ disputes[d0].state # "RESOLVED"
  BY DEF OpenFraud
<1>2. disputes[d0].state # "none"
  BY <1>1, RegistryAssumption DEF NoRowNoParcel
<1>3. ASSUME disputes'[d0] = disputes[d0]
      PROVE  OpenFraud(p)'
  BY <1>1, <1>3 DEF OpenFraud
<1>4. ASSUME NEW d \in Dispute, NEW q \in Parcel, NEW type \in DisputeType, NEW u \in User,
             FileDispute(d, q, type, u)
      PROVE  OpenFraud(p)'
  BY <1>2, <1>3, <1>4 DEF FileDispute, LandTypeOK
<1>5. ASSUME NEW t \in Transfer, NEW u \in User, NEW d \in Dispute, AffirmReview(t, u, d)
      PROVE  OpenFraud(p)'
  BY <1>2, <1>3, <1>5 DEF AffirmReview, LandTypeOK
<1>7. ASSUME NEW d \in Dispute, ReviewDispute(d)
      PROVE  OpenFraud(p)'
  <2>1. disputes' = [disputes EXCEPT ![d].state = "OPEN"]
    BY <1>7 DEF ReviewDispute
  <2>2. /\ disputes'[d0].parcel = p /\ disputes'[d0].type = "FRAUD"
        /\ disputes'[d0].state # "RESOLVED"
    BY <1>1, <2>1 DEF LandTypeOK, DisputeRow
  <2> QED
    BY <2>2 DEF OpenFraud
<1>8. ASSUME NEW d \in Dispute, NEW outcome \in {"RESOLVED", "OPEN"}, ResolveDispute(d, outcome)
      PROVE  OpenFraud(p)'
  <2>1. PICK done \in 1..2 :
            /\ Stops(done, 2)
            /\ disputes' = [disputes EXCEPT ![d] = AfterRuling(@, outcome)]
            /\ status' = IF done = 2 /\ outcome = "RESOLVED"
                         THEN Released(disputes[d].parcel) ELSE status
    BY <1>8 DEF ResolveDispute
  <2>2. done = 2
    <3>1. failures \in Nat
      BY RegistryAssumption DEF LandTypeOK
    <3> QED
      BY <2>1, <3>1, StopsAtTheEnd
  <2>3. d = d0 => outcome # "RESOLVED"
    BY <1>1, <2>1, <2>2 DEF Released, Restrained, LandTypeOK
  <2>4. CASE d = d0
    <3>1. disputes'[d0] = AfterRuling(disputes[d0], outcome)
      BY <2>1, <2>4 DEF LandTypeOK
    <3>2. /\ AfterRuling(disputes[d0], outcome).parcel = p
          /\ AfterRuling(disputes[d0], outcome).type = "FRAUD"
          /\ AfterRuling(disputes[d0], outcome).state = outcome
      BY <1>1 DEF AfterRuling, LandTypeOK, DisputeRow
    <3> QED
      BY <2>3, <2>4, <3>1, <3>2 DEF OpenFraud
  <2>5. CASE d # d0
    BY <1>3, <2>1, <2>5 DEF LandTypeOK
  <2> QED
    BY <2>4, <2>5
<1>9. \/ disputes' = disputes
      \/ \E d \in Dispute, q \in Parcel, type \in DisputeType, u \in User :
            FileDispute(d, q, type, u)
      \/ \E d \in Dispute : ReviewDispute(d)
      \/ \E d \in Dispute, outcome \in {"RESOLVED", "OPEN"} : ResolveDispute(d, outcome)
      \/ \E t \in Transfer, u \in User, d \in Dispute : AffirmReview(t, u, d)
  BY DEF LandNext, vars, RegisterParcel, CreateTransfer, Score, ApproveTransfer, IssueTitle,
         RevokeTitle, DismissReview, FileAppeal, ResolveAppeal, ReadOverdue, EscalationDies,
         EscalateRow
<1> QED
  BY <1>3, <1>4, <1>5, <1>7, <1>8, <1>9

\* The affirmation of a BLOCK that is not interrupted leaves the parcel with the
\* dispute and the event, or has the dispute refused.
LEMMA WholeAffirmation ==
    ASSUME LandTypeOK, failures' = failures, NEW t \in Transfer, NEW u \in User, NEW d \in Dispute,
           AffirmReview(t, u, d), scores[t] = "BLOCK"
    PROVE  \/ transfers[t].parcel \in refused'
           \/ t \in affirmed' /\ OpenFraud(transfers[t].parcel)'
<1> DEFINE p == transfers[t].parcel
           files == scores[t] = "BLOCK" /\ ~ OpenFraud(p)
           refuses == files /\ ~ MayClaim(u)
<1>1. PICK done \in 1..4 :
          /\ Stops(done, IF refuses THEN 2 ELSE 4)
          /\ disputes' = IF done >= 3 /\ files
                         THEN [disputes EXCEPT ![d] = Filed(p, "FRAUD")] ELSE disputes
          /\ affirmed' = IF done = 4 THEN affirmed \cup {t} ELSE affirmed
          /\ refused' = IF done >= 2 /\ refuses THEN refused \cup {p}
                        ELSE IF done >= 2 /\ scores[t] = "BLOCK" THEN refused \ {p} ELSE refused
  BY DEF AffirmReview
<1>2. failures \in Nat
  BY RegistryAssumption DEF LandTypeOK
<1>3. CASE refuses
  <2>1. done = 2
    BY <1>1, <1>2, <1>3, StopsAtTheEnd
  <2> QED
    BY <1>1, <1>3, <2>1
<1>4. ASSUME ~ refuses
      PROVE  t \in affirmed' /\ OpenFraud(transfers[t].parcel)'
  <2>1. done = 4
    BY <1>1, <1>2, <1>4, StopsAtTheEnd
  <2>2. transfers' = transfers
    BY DEF AffirmReview
  <2>3. CASE files
    <3>1. disputes'[d] = Filed(p, "FRAUD")
      BY <1>1, <2>1, <2>3 DEF LandTypeOK
    <3>2. OpenFraud(transfers[t].parcel)'
      BY <2>2, <3>1 DEF OpenFraud, Filed
    <3> QED
      BY <1>1, <2>1, <3>2
  <2>4. CASE ~ files
    <3>1. disputes' = disputes
      BY <1>1, <2>4
    <3> QED
      BY <1>1, <2>1, <2>2, <2>4, <3>1 DEF OpenFraud
  <2> QED
    BY <2>3, <2>4
<1> QED
  BY <1>3, <1>4

LEMMA FailuresGrow ==
    ASSUME LandTypeOK, [LandNext]_vars
    PROVE  failures' = 0 => failures = 0
<1>1. failures \in Nat
  BY RegistryAssumption DEF LandTypeOK
<1>2. failures' = failures \/ failures' = failures + 1
  BY DEF LandNext, vars, RegisterParcel, CreateTransfer, Score, ApproveTransfer, IssueTitle,
         RevokeTitle, FileDispute, ReviewDispute, ResolveDispute, AffirmReview, DismissReview,
         FileAppeal, ResolveAppeal, ReadOverdue, EscalationDies, EscalateRow, Stops
<1> QED
  BY <1>1, <1>2

LEMMA AffirmedStays == [LandNext]_vars => affirmed \subseteq affirmed'
BY DEF LandNext, vars, reviewVars, RegisterParcel, CreateTransfer, Score, ApproveTransfer, IssueTitle,
       RevokeTitle, FileDispute, ReviewDispute, ResolveDispute, AffirmReview, DismissReview,
       FileAppeal, ResolveAppeal, ReadOverdue, EscalationDies, EscalateRow

\* A refusal is forgotten only when the parcel is frozen anew.
LEMMA RefusedStays ==
    ASSUME [LandNext]_vars, NEW p \in refused
    PROVE  \/ p \in refused'
           \/ \E t \in Transfer, u \in User, d \in Dispute :
                 AffirmReview(t, u, d) /\ scores[t] = "BLOCK" /\ transfers[t].parcel = p
<1>1. ASSUME NEW t \in Transfer, NEW u \in User, NEW d \in Dispute, AffirmReview(t, u, d)
      PROVE  p \in refused' \/ (scores[t] = "BLOCK" /\ transfers[t].parcel = p)
  BY <1>1 DEF AffirmReview
<1>2. \/ refused' = refused
      \/ \E t \in Transfer, u \in User, d \in Dispute : AffirmReview(t, u, d)
  BY DEF LandNext, vars, reviewVars, RegisterParcel, CreateTransfer, Score, ApproveTransfer, IssueTitle,
         RevokeTitle, FileDispute, ReviewDispute, ResolveDispute, DismissReview, FileAppeal,
         ResolveAppeal, ReadOverdue, EscalationDies, EscalateRow
<1> QED
  BY <1>1, <1>2

LEMMA WholeInductive == WholeInv /\ [LandNext]_vars => WholeInv'
<1> SUFFICES ASSUME WholeInv, [LandNext]_vars PROVE WholeInv'
  OBVIOUS
<1>1. LandTypeOK /\ NoRowNoParcel /\ LandInv' /\ NoRowNoParcel'
  <2>1. LandTypeOK /\ FrozenByHuman /\ OwnerIsVetted /\ MarkedBeforeEvent /\ NoRowNoParcel
    BY DEF WholeInv, LandInv
  <2> QED
    BY <2>1, TypeInductive, FrozenInductive, VettedInductive, MarkInductive, NoRowInductive DEF LandInv
<1>2. ASSUME failures' = 0, NEW p \in Parcel, status'[p] = "FROZEN"
      PROVE  p \in refused' \/ (OpenFraud(p)' /\ \E t \in affirmed' : transfers'[t].parcel = p)
  <2> DEFINE Whole == p \in refused' \/ (OpenFraud(p)' /\ \E t \in affirmed' : transfers'[t].parcel = p)
  <2>1. failures = 0 /\ failures' = failures
    BY <1>1, <1>2, FailuresGrow
  <2>2. ASSUME NEW t \in Transfer, NEW u \in User, NEW d \in Dispute, AffirmReview(t, u, d),
               scores[t] = "BLOCK", transfers[t].parcel = p
        PROVE  Whole
    <3>1. p \in refused' \/ (t \in affirmed' /\ OpenFraud(transfers[t].parcel)')
      BY <1>1, <2>1, <2>2, WholeAffirmation
    <3>2. transfers' = transfers
      BY <2>2 DEF AffirmReview
    <3>3. OpenFraud(transfers[t].parcel)' => OpenFraud(p)'
      BY <2>2, <3>2 DEF OpenFraud
    <3> QED
      BY <2>2, <3>1, <3>2, <3>3
  <2>3. ASSUME status[p] = "FROZEN", p \notin refused
        PROVE  Whole
    <3>1. OpenFraud(p) /\ \E t \in affirmed : transfers[t].parcel = p
      BY <2>1, <2>3 DEF WholeInv, FreezeIsWhole
    <3>2. PICK t \in affirmed : transfers[t].parcel = p
      BY <3>1
    <3>3. t \in Transfer /\ Exists(t)
      BY <1>1, <3>2, RegistryAssumption DEF LandTypeOK, Exists
    <3>4. transfers'[t].parcel = p /\ t \in affirmed'
      BY <1>1, <3>2, <3>3, EvidenceStays, AffirmedStays
    <3>5. OpenFraud(p)'
      BY <1>1, <1>2, <2>1, <3>1, FraudStaysOpen
    <3> QED
      BY <3>4, <3>5
  <2>4. ASSUME p \in refused
        PROVE  Whole
    BY <2>2, <2>4, RefusedStays
  <2> QED
    BY <1>1, <1>2, <2>2, <2>3, <2>4, FreezeIsAffirmation
<1>3. FreezeIsWhole'
  BY <1>2 DEF FreezeIsWhole
<1> QED
  BY <1>1, <1>3 DEF WholeInv

\* Unless a handler is interrupted, a frozen parcel has its event and, as long as it is
\* frozen, its open dispute, or the officer who froze it last was no owner.
THEOREM FreezesAreWhole == LandSpec => []FreezeIsWhole
<1>1. LandInit => WholeInv
  <2> SUFFICES ASSUME LandInit PROVE WholeInv
    OBVIOUS
  <2>1. \A p \in Parcel : status[p] # "FROZEN"
    BY DEF LandInit
  <2> QED
    BY <2>1, InitInv DEF LandInit, NoDispute, WholeInv, NoRowNoParcel, FreezeIsWhole
<1>2. WholeInv => FreezeIsWhole
  BY DEF WholeInv
<1> QED
  BY <1>1, <1>2, WholeInductive, PTL DEF LandSpec
=============================================================================

------------------------ MODULE FraudPipelineProofs ------------------------
(***************************************************************************)
(* Proofs about FraudPipeline, for any transfers and any number of         *)
(* attempts, exceptions, crashes, outages and rescore requests.            *)
(***************************************************************************)
EXTENDS FraudPipeline, SequenceTheorems, TLAPS

\* A review exists only of a score that is an alert, and the review in the
\* making is the first of its transfer.
ReviewsFollowScores ==
    /\ \A t \in Transfer : reviews[t] # <<>> => scores[t] \in {"FLAG", "BLOCK"}
    /\ loop.at = "act" => reviews[loop.t] = <<>> /\ scores[loop.t] \in {"FLAG", "BLOCK"}

\* A section that is about to end has a score.
SectionHasScore == loop.at = "finish" => scores[loop.t] # "none"

\* While the consumer holds a lock, or scores, it has an entry.
ConsumerHasEntry ==
    /\ phase = "locked" => inflight # <<>>
    /\ loop.by = "consumer" => phase = "locked"

\* The inductive invariant.
PipelineInv ==
    /\ PipelineTypeOK
    /\ GateFailsClosed
    /\ OneReviewPerScore
    /\ DoneMeansScored
    /\ ReviewsFollowScores
    /\ SectionHasScore
    /\ ConsumerHasEntry

LEMMA InitInv == PipelineInit => PipelineInv
<1> SUFFICES ASSUME PipelineInit PROVE PipelineInv
    OBVIOUS
<1>1. <<>> \in Seq(Review) /\ <<>> \in Seq(Transfer) /\ Len(<<>>) = 0
    BY EmptySeq
<1>4. /\ reviews \in [Transfer -> Seq(Review)]
      /\ \A t \in Transfer : reviews[t] = <<>>
    BY <1>1 DEF PipelineInit
<1>5. /\ jobs \in [Transfer -> [state : {"none", "PENDING", "DONE", "FAILED"},
                                attempts : 0..MaxAttempts]]
      /\ \A t \in Transfer : jobs[t].state = "none"
    BY PipelineAssumption DEF PipelineInit, NoJob
<1>2. PipelineTypeOK
    BY <1>1, <1>4, <1>5 DEF PipelineInit, PipelineTypeOK
<1>3. OneReviewPerScore
  <2>1. ASSUME NEW t \in Transfer PROVE Len(reviews[t]) <= 1
    <3>1. Len(reviews[t]) = 0
        BY <1>4
    <3> QED
        BY <3>1
  <2> QED
    BY <2>1 DEF OneReviewPerScore
<1> QED
    BY <1>2, <1>3 DEF PipelineInit, PipelineInv, GateFailsClosed, DoneMeansScored,
       ReviewsFollowScores, SectionHasScore, ConsumerHasEntry, NoJob, Idle

\* The types, action by action.
LEMMA TypeStep ==
    ASSUME PipelineTypeOK, ReviewsFollowScores, ConsumerHasEntry, [PipelineNext]_vars
    PROVE  PipelineTypeOK'
<1>31. <<>> \in Seq(Transfer)
    BY EmptySeq
<1> USE PipelineAssumption DEF PipelineTypeOK, data, queue, local, past, Idle, Busy
<1>32. inflight # <<>> => Head(inflight) \in Transfer /\ Tail(inflight) \in Seq(Transfer)
    BY HeadTailProperties
<1>33. loop.by = "consumer" => inflight # <<>>
    BY DEF ConsumerHasEntry
<1>1. ASSUME NEW t \in Transfer, CreateTransfer(t) PROVE PipelineTypeOK'
    BY <1>1 DEF CreateTransfer, Free
<1>2. CASE InsertJob
    BY <1>2 DEF InsertJob
<1>3. ASSUME NEW t \in Transfer, Rescore(t) PROVE PipelineTypeOK'
    BY <1>3 DEF Rescore
<1>4. ASSUME NEW t \in Transfer, Publish(t) PROVE PipelineTypeOK'
    BY <1>4 DEF Publish
<1>5. CASE Poll
    BY <1>5 DEF Poll
<1>6. CASE SkipSweep
    BY <1>6 DEF SkipSweep
<1>7. CASE StartSweep
    BY <1>7 DEF StartSweep, DueRows
<1>8. CASE NextRow
    BY <1>8 DEF NextRow, Free
<1>9. CASE EntriesDone
    BY <1>9 DEF EntriesDone
<1>10. CASE TakeLock
  <2>1. inflight' \in Seq(Transfer)
    BY <1>10, <1>32 DEF TakeLock
  <2>2. locks' \subseteq Transfer
    BY <1>10, <1>32 DEF TakeLock
  <2>3. phase' \in {"poll", "sweep", "entries", "locked"}
    BY <1>10 DEF TakeLock
  <2> QED
    BY <1>10, <2>1, <2>2, <2>3 DEF TakeLock
<1>11. CASE ScoreOnce
  <2>1. Head(inflight) \in Transfer
    BY <1>11, <1>32 DEF ScoreOnce, ConsumerHasEntry
  <2> QED
    BY <1>11, <2>1 DEF ScoreOnce
<1>12. ASSUME NEW t \in Transfer, Approve(t) PROVE PipelineTypeOK'
    BY <1>12 DEF Approve
<1>13. ASSUME NEW t \in Transfer, Reject(t) PROVE PipelineTypeOK'
    BY <1>13 DEF Reject
<1>14. CASE ScoreSubject
  <2>1. loop \in Busy
    BY <1>14 DEF ScoreSubject
  <2>2. Now("finish") \in Busy /\ Now("act") \in Busy
    BY <2>1 DEF Now
  <2>3. scores' \in [Transfer -> Action \cup {"none"}]
    BY <1>14 DEF ScoreSubject
  <2>4. loop' \in Busy
    BY <1>14, <2>2 DEF ScoreSubject
  <2> QED
    BY <1>14, <2>3, <2>4 DEF ScoreSubject
<1>15. CASE ActOnScore
  <2>1. loop \in Busy
    BY <1>15 DEF ActOnScore
  <2>2. Now("finish") \in Busy
    BY <2>1 DEF Now
  <2>3. [action |-> scores[loop.t], pending |-> TRUE] \in Review
    BY <1>15 DEF ActOnScore, ReviewsFollowScores, Review
  <2>4. Append(reviews[loop.t], [action |-> scores[loop.t], pending |-> TRUE]) \in Seq(Review)
    BY <2>1, <2>3, AppendProperties
  <2>5. reviews' \in [Transfer -> Seq(Review)]
    BY <1>15, <2>1, <2>4 DEF ActOnScore
  <2> QED
    BY <1>15, <2>2, <2>5 DEF ActOnScore
<1>16. ASSUME NEW t \in Transfer, NEW i \in DOMAIN reviews[t], DecideReview(t, i)
       PROVE  PipelineTypeOK'
  <2> DEFINE r == [action |-> reviews[t][i].action, pending |-> FALSE]
  <2>1. i \in 1..Len(reviews[t]) /\ reviews[t][i] \in Review
    BY <1>16, LenProperties, ElementOfSeq
  <2>2. r \in Review
    BY <2>1 DEF Review
  <2>3. [reviews[t] EXCEPT ![i] = r] \in Seq(Review)
    BY <2>1, <2>2, ExceptSeq
  <2>4. reviews' = [reviews EXCEPT ![t] = [reviews[t] EXCEPT ![i] = r]]
    BY <1>16 DEF DecideReview
  <2>5. reviews' \in [Transfer -> Seq(Review)]
    BY <2>3, <2>4
  <2> QED
    BY <1>16, <2>5 DEF DecideReview
<1>17. CASE Finish
  <2>1. CASE loop.by = "sweep"
    <3>1. PICK row \in todo :
             /\ jobs' = [jobs EXCEPT ![loop.t] = [state |-> "DONE", attempts |-> row.attempts]]
             /\ todo' = todo \ {row}
        BY <1>17, <2>1 DEF Finish
    <3>2. [state |-> "DONE", attempts |-> row.attempts]
             \in [state : {"none", "PENDING", "DONE", "FAILED"}, attempts : 0..MaxAttempts]
        OBVIOUS
    <3>3. /\ jobs' \in [Transfer -> [state : {"none", "PENDING", "DONE", "FAILED"},
                                     attempts : 0..MaxAttempts]]
          /\ \A t \in Transfer : jobs'[t].state = "PENDING" => jobs'[t].attempts < MaxAttempts
        BY <3>1, <3>2
    <3> QED
        BY <1>17, <2>1, <3>1, <3>3 DEF Finish
  <2>2. CASE loop.by = "approve"
    BY <1>17, <2>2 DEF Finish
  <2>3. CASE loop.by = "consumer"
    BY <1>17, <2>3, <1>32, <1>33 DEF Finish
  <2> QED
    BY <1>17, <2>1, <2>2, <2>3 DEF Finish
<1>34. CutShort => cut' \subseteq {"outbox", "act"} \X Transfer
    BY DEF CutShort
<1>18. CASE Raise
  <2>1. CASE loop.by = "sweep"
    <3>1. ASSUME NEW row \in todo
          PROVE  /\ JobAfterRaise(row) \in [state : {"none", "PENDING", "DONE", "FAILED"},
                                            attempts : 0..MaxAttempts]
                 /\ JobAfterRaise(row).state = "PENDING"
                       => JobAfterRaise(row).attempts < MaxAttempts
        BY DEF JobAfterRaise
    <3>2. jobs' = jobs \/ \E row \in todo : jobs' = [jobs EXCEPT ![row.t] = JobAfterRaise(row)]
        BY <1>18, <2>1 DEF Raise
    <3>3. /\ jobs' \in [Transfer -> [state : {"none", "PENDING", "DONE", "FAILED"},
                                     attempts : 0..MaxAttempts]]
          /\ \A t \in Transfer : jobs'[t].state = "PENDING" => jobs'[t].attempts < MaxAttempts
      <4>1. CASE jobs' = jobs
        BY <4>1
      <4>2. ASSUME NEW row \in todo, jobs' = [jobs EXCEPT ![row.t] = JobAfterRaise(row)]
            PROVE  <3>3!1 /\ <3>3!2
        BY <3>1, <4>2
      <4> QED
        BY <3>2, <4>1, <4>2
    <3>4. todo' \subseteq todo
        BY <1>18, <2>1 DEF Raise
    <3> QED
        BY <1>18, <1>34, <2>1, <3>3, <3>4 DEF Raise
  <2>2. CASE loop.by \in {"create", "approve"}
    BY <1>18, <1>34, <2>2 DEF Raise
  <2>3. CASE loop.by = "consumer"
    BY <1>18, <1>34, <2>3, <1>32, <1>33 DEF Raise
  <2> QED
    BY <1>18, <2>1, <2>2, <2>3 DEF Raise
<1>19. CASE Crash
    BY <1>19, <1>31, <1>34 DEF Crash
<1>20. CASE OutageBegins \/ OutageEnds
  <2>1. CASE OutageBegins
    BY <2>1, <1>31 DEF OutageBegins
  <2>2. CASE OutageEnds
    BY <2>2 DEF OutageEnds
  <2> QED
    BY <1>20, <2>1, <2>2
<1>21. ASSUME NEW t \in Transfer, LockExpires(t) PROVE PipelineTypeOK'
    BY <1>21 DEF LockExpires
<1>22. CASE UNCHANGED vars
    BY <1>22 DEF vars
<1> QED
    BY <1>1, <1>2, <1>3, <1>4, <1>5, <1>6, <1>7, <1>8, <1>9, <1>10, <1>11, <1>12, <1>13,
       <1>14, <1>15, <1>16, <1>17, <1>18, <1>19, <1>20, <1>21, <1>22
    DEF PipelineNext, Section, Consumer, Handler

\* The rest of the invariant.  A review is added only between an alert being
\* persisted and the end of the section that persisted it; a crash or an
\* exception in between loses the review, and never adds another.
LEMMA InvStep == PipelineInv /\ [PipelineNext]_vars => PipelineInv'
<1> SUFFICES ASSUME PipelineInv, [PipelineNext]_vars PROVE PipelineInv'
    OBVIOUS
<1>30. PipelineTypeOK'
    BY TypeStep DEF PipelineInv
<1>31. PipelineTypeOK
    BY DEF PipelineInv
<1> DEFINE Rest == /\ GateFailsClosed /\ OneReviewPerScore /\ DoneMeansScored
                   /\ ReviewsFollowScores /\ SectionHasScore /\ ConsumerHasEntry
<1> SUFFICES Rest'
    BY <1>30 DEF PipelineInv
<1> USE DEF PipelineInv, GateFailsClosed, OneReviewPerScore, DoneMeansScored, ReviewsFollowScores,
        SectionHasScore, ConsumerHasEntry, data, queue, local, Idle
<1>1. ASSUME NEW t \in Transfer, CreateTransfer(t) PROVE Rest'
    BY <1>1, <1>31 DEF CreateTransfer, Free, PipelineTypeOK
<1>2. CASE InsertJob
    BY <1>2, <1>31 DEF InsertJob, PipelineTypeOK
<1>3. ASSUME NEW t \in Transfer, Rescore(t) \/ Publish(t) PROVE Rest'
    BY <1>3 DEF Rescore, Publish
<1>4. ASSUME NEW t \in Transfer, Approve(t) PROVE Rest'
    BY <1>4 DEF Approve, Free
<1>5. ASSUME NEW t \in Transfer, Reject(t) PROVE Rest'
    BY <1>5, <1>31 DEF Reject, PipelineTypeOK
<1>6. CASE Poll \/ SkipSweep \/ StartSweep \/ EntriesDone
    BY <1>6 DEF Poll, SkipSweep, StartSweep, EntriesDone, Free
<1>7. CASE NextRow \/ ScoreOnce
    BY <1>7 DEF NextRow, ScoreOnce, Free
<1>8. CASE TakeLock
    BY <1>8 DEF TakeLock, Free
<1>9. CASE ScoreSubject
  <2>1. loop \in Busy /\ loop.t \in Transfer
    BY <1>9, <1>31 DEF ScoreSubject, PipelineTypeOK, Busy
  <2>2. CASE scores[loop.t] # "none"
    BY <1>9, <2>1, <2>2 DEF ScoreSubject, Now
  <2>3. CASE scores[loop.t] = "none"
    <3>1. reviews[loop.t] = <<>>
        BY <2>1, <2>3
    <3>2. PICK a \in Action :
             /\ scores' = [scores EXCEPT ![loop.t] = a]
             /\ loop' = Now(IF a = "NONE" THEN "finish" ELSE "act")
        BY <1>9, <2>3 DEF ScoreSubject
    <3>3. /\ loop'.t = loop.t /\ loop'.by = loop.by
          /\ loop'.at = IF a = "NONE" THEN "finish" ELSE "act"
        BY <3>2 DEF Now
    <3>4. scores'[loop.t] = a /\ \A t \in Transfer \ {loop.t} : scores'[t] = scores[t]
        BY <2>1, <3>2, <1>31 DEF PipelineTypeOK
    <3>5. transfers' = transfers /\ jobs' = jobs /\ reviews' = reviews
          /\ phase' = phase /\ inflight' = inflight
        BY <1>9 DEF ScoreSubject
    <3> QED
        BY <2>1, <2>3, <3>1, <3>3, <3>4, <3>5 DEF Action
  <2> QED
    BY <2>2, <2>3
<1>10. CASE ActOnScore
  <2>1. loop \in Busy /\ loop.t \in Transfer
    BY <1>10, <1>31 DEF ActOnScore, PipelineTypeOK, Busy
  <2>2. reviews[loop.t] = <<>> /\ scores[loop.t] \in {"FLAG", "BLOCK"}
    BY <1>10 DEF ActOnScore
  <2>3. reviews' = [reviews EXCEPT ![loop.t] =
                       <<[action |-> scores[loop.t], pending |-> TRUE]>>]
    BY <1>10, <2>2 DEF ActOnScore
  <2>4. /\ Len(reviews'[loop.t]) = 1
        /\ \A t \in Transfer \ {loop.t} : reviews'[t] = reviews[t]
    BY <2>1, <2>3, <1>31 DEF PipelineTypeOK
  <2>5. loop'.at = "finish" /\ loop'.t = loop.t /\ loop'.by = loop.by
    BY <1>10 DEF ActOnScore, Now
  <2> QED
    BY <1>10, <2>1, <2>2, <2>4, <2>5 DEF ActOnScore
<1>11. ASSUME NEW t \in Transfer, NEW i \in DOMAIN reviews[t], DecideReview(t, i)
       PROVE  Rest'
  <2> DEFINE r == [action |-> reviews[t][i].action, pending |-> FALSE]
  <2>1. reviews[t] \in Seq(Review)
    BY <1>11, <1>31 DEF PipelineTypeOK
  <2>2. i \in 1..Len(reviews[t]) /\ reviews[t][i] \in Review
    BY <1>11, <2>1, LenProperties, ElementOfSeq
  <2>3. r \in Review
    BY <2>2 DEF Review
  <2>4. Len([reviews[t] EXCEPT ![i] = r]) = Len(reviews[t])
    BY <2>1, <2>2, <2>3, ExceptSeq
  <2>5. reviews' = [reviews EXCEPT ![t] = [reviews[t] EXCEPT ![i] = r]]
    BY <1>11 DEF DecideReview
  <2>6. /\ Len(reviews'[t]) = Len(reviews[t]) /\ reviews[t] # <<>>
        /\ \A u \in Transfer \ {t} : reviews'[u] = reviews[u]
    BY <2>2, <2>4, <2>5, <1>31 DEF PipelineTypeOK
  <2> QED
    BY <1>11, <2>6 DEF DecideReview, Free
<1>12. CASE Finish
  <2>1. loop \in Busy /\ loop.t \in Transfer /\ scores[loop.t] # "none"
    BY <1>12, <1>31 DEF Finish, PipelineTypeOK, Busy
  <2>2. \A t \in Transfer : jobs'[t].state = "DONE" => scores[t] # "none"
    BY <1>12, <2>1, <1>31 DEF Finish, PipelineTypeOK
  <2>3. \A t \in Transfer : transfers'[t] = "COMPLETED" => scores[t] \in {"NONE", "FLAG"}
    BY <1>12, <2>1, <1>31 DEF Finish, MayComplete, PipelineTypeOK
  <2>4. loop.by # "consumer" => phase' = phase /\ inflight' = inflight
    BY <1>12 DEF Finish
  <2>5. loop.by = "consumer" => phase' = "entries"
    BY <1>12 DEF Finish
  <2>6. loop' = Idle /\ scores' = scores /\ reviews' = reviews
    BY <1>12 DEF Finish
  <2> QED
    BY <2>2, <2>3, <2>4, <2>5, <2>6
<1>13. CASE Raise
  <2>1. \A t \in Transfer : jobs'[t].state = "DONE" => jobs[t].state = "DONE"
    <3>1. \A row \in todo : JobAfterRaise(row).state \in {"FAILED", "PENDING"}
        BY DEF JobAfterRaise
    <3>2. jobs' = jobs \/ \E row \in todo : jobs' = [jobs EXCEPT ![row.t] = JobAfterRaise(row)]
        BY <1>13 DEF Raise
    <3> QED
        BY <3>1, <3>2, <1>31 DEF PipelineTypeOK
  <2>2. phase' = "entries" \/ (phase' = phase /\ inflight' = inflight)
    <3>1. CASE loop.by \in {"sweep", "create", "approve"}
        BY <1>13, <3>1 DEF Raise
    <3>2. ASSUME loop.by = "consumer" PROVE phase' = "entries"
        BY <1>13, <3>2 DEF Raise
    <3>3. loop.by \in {"sweep", "create", "approve", "consumer"}
        BY <1>13 DEF Raise
    <3> QED
        BY <3>1, <3>2, <3>3
  <2>3. loop' = Idle /\ scores' = scores /\ reviews' = reviews /\ transfers' = transfers
    BY <1>13 DEF Raise
  <2> QED
    BY <2>1, <2>2, <2>3
<1>14. CASE Crash
    BY <1>14 DEF Crash
<1>15. CASE OutageBegins \/ OutageEnds
    BY <1>15 DEF OutageBegins, OutageEnds
<1>16. ASSUME NEW t \in Transfer, LockExpires(t) PROVE Rest'
    BY <1>16 DEF LockExpires
<1>17. CASE UNCHANGED vars
    BY <1>17 DEF vars
<1> QED
    BY <1>1, <1>2, <1>3, <1>4, <1>5, <1>6, <1>7, <1>8, <1>9, <1>10, <1>11, <1>12, <1>13,
       <1>14, <1>15, <1>16, <1>17
    DEF PipelineNext, Section, Consumer, Handler

-----------------------------------------------------------------------------
LEMMA Invariance == PipelineSpec => []PipelineInv
BY InitInv, InvStep, PTL DEF PipelineSpec

\* The pipeline's state always has its type; in particular a row that still
\* waits in the outbox has attempts left.
THEOREM PipelineTypes == PipelineSpec => []PipelineTypeOK
BY Invariance, PTL DEF PipelineInv

\* The approval gate fails closed: no transfer completes without a score, or
\* with the score BLOCK.
THEOREM GateIsClosed == PipelineSpec => []GateFailsClosed
BY Invariance, PTL DEF PipelineInv

\* However often the score of a transfer is asked for, officers get at most one
\* review of it.
THEOREM AtMostOneReview == PipelineSpec => []OneReviewPerScore
BY Invariance, PTL DEF PipelineInv

\* The outbox closes a row only when its transfer is scored.
THEOREM OutboxIsDurable == PipelineSpec => []DoneMeansScored
BY Invariance, PTL DEF PipelineInv

-----------------------------------------------------------------------------
\* How often something went wrong is counted, and never forgotten.
TroublesCounted ==
    used \in [raises : Nat, crashes : Nat, outages : Nat, rescores : Nat]

LEMMA CountStep ==
    ASSUME TroublesCounted, [PipelineNext]_vars
    PROVE  /\ TroublesCounted'
           /\ used'.raises >= used.raises /\ used'.crashes >= used.crashes
           /\ Raise => used'.raises > 0
           /\ Crash => used'.crashes > 0
<1> USE DEF TroublesCounted
<1>1. Raise => used' = [used EXCEPT !["raises"] = @ + 1]
    BY DEF Raise, May
<1>2. Crash => used' = [used EXCEPT !["crashes"] = @ + 1]
    BY DEF Crash, May
<1>3. OutageBegins => used' = [used EXCEPT !["outages"] = @ + 1]
    BY DEF OutageBegins, May
<1>4. (\E t \in Transfer : Rescore(t)) => used' = [used EXCEPT !["rescores"] = @ + 1]
    BY DEF Rescore, May
<1>5. (Raise => used'.raises > 0) /\ (Crash => used'.crashes > 0)
    BY <1>1, <1>2
<1>6. ASSUME NEW what \in {"raises", "crashes", "outages", "rescores"},
             used' = [used EXCEPT ![what] = @ + 1]
      PROVE  TroublesCounted' /\ used'.raises >= used.raises /\ used'.crashes >= used.crashes
    BY <1>6
<1>7. Section \/ Consumer \/ StartSweep \/ OutageEnds \/ (\E t \in Transfer : LockExpires(t))
        => UNCHANGED used
    BY DEF Section, InsertJob, NextRow, ScoreSubject, ActOnScore, Finish,
       Consumer, Poll, SkipSweep, EntriesDone, TakeLock, ScoreOnce, StartSweep, OutageEnds, LockExpires, past
<1>8. Handler => UNCHANGED used \/ \E t \in Transfer : Rescore(t)
    BY DEF Handler, CreateTransfer, Publish, Approve, Reject, DecideReview, past
<1>9. CASE UNCHANGED used
    BY <1>5, <1>9
<1> QED
    BY <1>1, <1>2, <1>3, <1>4, <1>5, <1>6, <1>7, <1>8, <1>9 DEF PipelineNext, vars, past

\* A section that ends before its row or its review is remembered.
LEMMA CutStep ==
    ASSUME [PipelineNext]_vars
    PROVE  /\ cut \subseteq cut'
           /\ (Raise \/ Crash) /\ loop.at \in {"outbox", "act"} => <<loop.at, loop.t>> \in cut'
<1>1. Raise \/ Crash => CutShort
    BY DEF Raise, Crash
<1>2. ~ (Raise \/ Crash) => UNCHANGED cut
    BY DEF PipelineNext, Section, Consumer, Handler, past, vars,
       InsertJob, CreateTransfer, Rescore, Publish, Poll, SkipSweep, StartSweep, NextRow,
       EntriesDone, TakeLock, ScoreOnce, Approve, Reject, ScoreSubject, ActOnScore,
       DecideReview, Finish, OutageBegins, OutageEnds, LockExpires
<1> QED
    BY <1>1, <1>2 DEF CutShort

\* A score appears, and the next statement of its section queues the review; in
\* between only an exception or a crash ends the section.
LEMMA QueuedStep ==
    ASSUME PipelineInv, FlaggedIsQueued, [PipelineNext]_vars
    PROVE  FlaggedIsQueued'
<1>1. \A t \in Transfer : <<"act", t>> \in cut => <<"act", t>> \in cut'
    BY CutStep
<1>2. PipelineTypeOK
    BY DEF PipelineInv
<1>3. CASE Raise \/ Crash
  <2>1. UNCHANGED <<scores, reviews>>
    BY <1>3 DEF Raise, Crash, data
  <2>2. ASSUME NEW t \in Transfer, loop.at = "act", loop.t = t
        PROVE  <<"act", t>> \in cut'
    BY <1>3, <2>2, CutStep
  <2> QED
    BY <1>1, <2>1, <2>2 DEF FlaggedIsQueued
<1>4. CASE UNCHANGED <<scores, reviews>> /\ loop.at # "act"
    BY <1>1, <1>4 DEF FlaggedIsQueued
<1>5. CASE UNCHANGED <<scores, reviews, loop>>
    BY <1>1, <1>5 DEF FlaggedIsQueued
<1>6. CASE ScoreSubject
  <2>1. loop \in Busy /\ loop.t \in Transfer /\ loop.at = "score"
    BY <1>2, <1>6 DEF ScoreSubject, PipelineTypeOK, Busy, Idle
  <2>2. reviews' = reviews
    BY <1>6 DEF ScoreSubject
  <2>3. CASE scores' = scores
    BY <1>1, <1>6, <2>1, <2>2, <2>3 DEF FlaggedIsQueued
  <2>4. ASSUME NEW a \in Action, scores' = [scores EXCEPT ![loop.t] = a],
               loop' = Now(IF a = "NONE" THEN "finish" ELSE "act")
        PROVE  FlaggedIsQueued'
    <3>1. loop'.t = loop.t /\ loop'.at = IF a = "NONE" THEN "finish" ELSE "act"
        BY <2>4 DEF Now
    <3>2. scores'[loop.t] = a /\ \A t \in Transfer \ {loop.t} : scores'[t] = scores[t]
        BY <1>2, <2>1, <2>4 DEF PipelineTypeOK
    <3> QED
        BY <1>1, <1>6, <2>1, <2>2, <3>1, <3>2 DEF FlaggedIsQueued
  <2> QED
    BY <1>6, <2>3, <2>4 DEF ScoreSubject
<1>7. CASE ActOnScore
  <2>1. loop \in Busy /\ loop.t \in Transfer
    BY <1>2, <1>7 DEF ActOnScore, PipelineTypeOK, Busy, Idle
  <2>2. reviews[loop.t] = <<>>
    BY <1>7 DEF ActOnScore, PipelineInv, ReviewsFollowScores
  <2>3. reviews' = [reviews EXCEPT ![loop.t] =
                       <<[action |-> scores[loop.t], pending |-> TRUE]>>]
    BY <1>7, <2>2 DEF ActOnScore
  <2>4. /\ reviews'[loop.t] # <<>>
        /\ \A t \in Transfer \ {loop.t} : reviews'[t] = reviews[t]
    BY <1>2, <2>1, <2>3 DEF PipelineTypeOK
  <2> QED
    BY <1>1, <1>7, <2>1, <2>4 DEF ActOnScore, FlaggedIsQueued
<1>8. ASSUME NEW t \in Transfer, NEW i \in DOMAIN reviews[t], DecideReview(t, i)
      PROVE  FlaggedIsQueued'
  <2>1. \A u \in Transfer : reviews[u] # <<>> => reviews'[u] # <<>>
    <3>1. reviews[t] \in Seq(Review)
        BY <1>2 DEF PipelineTypeOK
    <3>2. i \in 1..Len(reviews[t])
        BY <1>8, <3>1, LenProperties
    <3>3. reviews' = [reviews EXCEPT ![t] =
                        [reviews[t] EXCEPT ![i] = [action |-> reviews[t][i].action, pending |-> FALSE]]]
        BY <1>8 DEF DecideReview
    <3>4. \A u \in Transfer \ {t} : reviews'[u] = reviews[u]
        BY <1>2, <3>3 DEF PipelineTypeOK
    <3>5. reviews'[t] # <<>>
      <4>1. DOMAIN reviews'[t] = DOMAIN reviews[t]
        BY <1>2, <3>3 DEF PipelineTypeOK
      <4>2. DOMAIN reviews[t] # {}
        BY <1>8
      <4>3. DOMAIN <<>> = {}
        BY EmptySeq, LenProperties
      <4> QED
        BY <4>1, <4>2, <4>3
    <3> QED
        BY <3>4, <3>5
  <2> QED
    BY <1>1, <1>8, <2>1 DEF DecideReview, data, local, FlaggedIsQueued
<1>9. \/ Raise \/ Crash \/ ScoreSubject \/ ActOnScore
      \/ \E t \in Transfer : \E i \in DOMAIN reviews[t] : DecideReview(t, i)
      \/ UNCHANGED <<scores, reviews, loop>>
      \/ UNCHANGED <<scores, reviews>> /\ loop.at # "act"
  <2> USE DEF data, queue, local, Free, Idle
  <2>1. Section => \/ ScoreSubject \/ ActOnScore
                   \/ UNCHANGED <<scores, reviews>> /\ loop.at # "act"
    BY DEF Section, InsertJob, NextRow, Finish
  <2>2. Consumer \/ StartSweep \/ OutageBegins \/ OutageEnds
          => UNCHANGED <<scores, reviews>> /\ (UNCHANGED loop \/ loop.at # "act")
    BY DEF Consumer, Poll, SkipSweep, EntriesDone, TakeLock, ScoreOnce, StartSweep,
       OutageBegins, OutageEnds
  <2>3. ASSUME NEW t \in Transfer,
               \/ CreateTransfer(t) \/ Publish(t) \/ Rescore(t) \/ Approve(t) \/ Reject(t)
               \/ LockExpires(t)
        PROVE  UNCHANGED <<scores, reviews>> /\ (UNCHANGED loop \/ loop.at # "act")
    BY <2>3 DEF CreateTransfer, Publish, Rescore, Approve, Reject, LockExpires
  <2>4. CASE UNCHANGED vars
    BY <2>4 DEF vars
  <2> QED
    BY <2>1, <2>2, <2>3, <2>4 DEF PipelineNext, Handler
<1> QED
    BY <1>1, <1>3, <1>4, <1>5, <1>6, <1>7, <1>8, <1>9

\* An alert is in the officers' queue, or its section is about to queue it, or that very
\* section was cut short between the score and the review.
THEOREM AlertsAreQueued == PipelineSpec => []FlaggedIsQueued
<1>1. PipelineInit => FlaggedIsQueued
    BY DEF PipelineInit, FlaggedIsQueued
<1>2. PipelineInv /\ FlaggedIsQueued /\ [PipelineNext]_vars => FlaggedIsQueued'
    BY QueuedStep
<1> QED
    BY <1>1, <1>2, Invariance, PTL DEF PipelineSpec

-----------------------------------------------------------------------------
\* An attempt is counted on a row only when one raised, and a row is given up only
\* when it has been tried as often as allowed.
AttemptsCounted ==
    /\ \A t \in Transfer :
          /\ jobs[t].attempts <= used.raises
          /\ jobs[t].state = "FAILED" => jobs[t].attempts = MaxAttempts
    /\ \A row \in todo : row.attempts <= used.raises

\* Each of the rows a sweep has read was tried no more often than things raised, and
\* neither are the rows it leaves behind.
LEMMA AttemptStep ==
    ASSUME PipelineInv, TroublesCounted, AttemptsCounted, [PipelineNext]_vars
    PROVE  AttemptsCounted'
<1> DEFINE Row == [state : {"none", "PENDING", "DONE", "FAILED"}, attempts : 0..MaxAttempts]
<1>1. /\ jobs \in [Transfer -> Row]
      /\ todo \subseteq [t : Transfer, attempts : 0..MaxAttempts-1]
    BY DEF PipelineInv, PipelineTypeOK
<1>2. used.raises \in Nat /\ used'.raises \in Nat /\ used'.raises >= used.raises
    BY CountStep DEF TroublesCounted
<1>3. CASE UNCHANGED jobs /\ todo' \subseteq todo
    BY <1>1, <1>2, <1>3, PipelineAssumption DEF AttemptsCounted
<1>4. CASE InsertJob
    BY <1>1, <1>2, <1>4, PipelineAssumption DEF InsertJob, AttemptsCounted
<1>5. CASE StartSweep
  <2>1. UNCHANGED <<jobs, used>>
    BY <1>5 DEF StartSweep, data, past
  <2>2. \A row \in todo' : row.t \in Transfer /\ row.attempts = jobs[row.t].attempts
    BY <1>5 DEF StartSweep, DueRows
  <2> QED
    BY <2>1, <2>2 DEF AttemptsCounted
<1>6. CASE Finish
  <2>1. CASE UNCHANGED <<jobs, todo>>
    BY <1>3, <2>1
  <2>2. ASSUME NEW row \in todo, todo' = todo \ {row},
               jobs' = [jobs EXCEPT ![loop.t] = [state |-> "DONE", attempts |-> row.attempts]]
        PROVE  AttemptsCounted'
    BY <1>1, <1>2, <2>2, PipelineAssumption DEF AttemptsCounted
  <2> QED
    BY <1>6, <2>1, <2>2 DEF Finish
<1>7. CASE Raise
  <2>1. used'.raises = used.raises + 1
    BY <1>7 DEF Raise, May, TroublesCounted
  <2>2. CASE UNCHANGED jobs /\ todo' \subseteq todo
    BY <1>3, <2>2
  <2>3. ASSUME NEW row \in todo, todo' = todo \ {row},
               jobs' = [jobs EXCEPT ![row.t] = JobAfterRaise(row)]
        PROVE  AttemptsCounted'
    <3>1. /\ JobAfterRaise(row).attempts = row.attempts + 1
          /\ JobAfterRaise(row).state = "FAILED" => row.attempts + 1 >= MaxAttempts
        BY DEF JobAfterRaise
    <3>2. row.attempts \in 0..MaxAttempts-1 /\ row.attempts <= used.raises
        BY <1>1 DEF AttemptsCounted
    <3>3. \A t \in Transfer : jobs'[t] = IF t = row.t THEN JobAfterRaise(row) ELSE jobs[t]
        BY <1>1, <2>3
    <3> QED
        BY <1>1, <1>2, <2>1, <2>3, <3>1, <3>2, <3>3, PipelineAssumption DEF AttemptsCounted
  <2> QED
    BY <1>7, <2>2, <2>3 DEF Raise
<1>8. \/ UNCHANGED jobs /\ todo' \subseteq todo
      \/ InsertJob \/ StartSweep \/ Finish \/ Raise
    BY DEF PipelineNext, Section, Consumer, Handler, data, local, vars,
       CreateTransfer, Rescore, Publish, Poll, SkipSweep, NextRow, EntriesDone, TakeLock,
       ScoreOnce, Approve, Reject, ScoreSubject, ActOnScore, DecideReview, Crash,
       OutageBegins, OutageEnds, LockExpires
<1> QED
    BY <1>3, <1>4, <1>5, <1>6, <1>7, <1>8

\* The row outlives everything: only a score closes it, and only attempts that raise
\* make it fail.  Creation may be cut short before the row.
LEMMA RememberStep ==
    ASSUME PipelineInv, TroublesCounted, AttemptsCounted, AttemptsCounted',
           NobodyIsForgotten, [PipelineNext]_vars
    PROVE  NobodyIsForgotten'
<1> DEFINE Cut(t) == <<"outbox", t>> \in cut
           Waits(t) ==
             \/ jobs[t].state = "PENDING"
             \/ jobs[t].state = "FAILED" /\ used.raises >= MaxAttempts
             \/ jobs[t].state = "none" /\ ((loop.at = "outbox" /\ loop.t = t) \/ Cut(t))
<1> SUFFICES ASSUME NEW t \in Transfer, transfers'[t] # "none", scores'[t] = "none"
             PROVE  Waits(t)'
    BY DEF NobodyIsForgotten
<1>1. PipelineTypeOK /\ PipelineTypeOK'
    BY TypeStep DEF PipelineInv
<1>2. /\ used.raises \in Nat /\ used'.raises \in Nat /\ used'.raises >= used.raises
      /\ Cut(t) => Cut(t)'
      /\ (Raise \/ Crash) /\ loop.at = "outbox" /\ loop.t = t => Cut(t)'
    BY CountStep, CutStep DEF TroublesCounted
<1>3. /\ jobs[t].state \in {"none", "PENDING", "DONE", "FAILED"}
      /\ jobs'[t].state \in {"none", "PENDING", "DONE", "FAILED"}
    BY <1>1 DEF PipelineTypeOK
<1>4. scores[t] = "none"
    BY <1>1 DEF PipelineNext, Section, Consumer, Handler, data, vars, PipelineTypeOK, Action,
       InsertJob, CreateTransfer, Rescore, Publish, Poll, SkipSweep, StartSweep, NextRow,
       EntriesDone, TakeLock, ScoreOnce, Approve, Reject, ScoreSubject, ActOnScore,
       DecideReview, Finish, Raise, Crash, OutageBegins, OutageEnds, LockExpires
<1>5. jobs'[t].state = "FAILED" => used'.raises >= MaxAttempts
    BY PipelineAssumption DEF AttemptsCounted
<1>6. jobs'[t].state # "DONE"
    BY <1>1, TypeStep, InvStep DEF PipelineInv, DoneMeansScored
<1>7. CASE jobs'[t].state \in {"PENDING", "FAILED"}
    BY <1>5, <1>7
<1>8. CASE jobs'[t].state = "none"
  <2>1. \/ UNCHANGED transfers \/ Finish
        \/ \E u \in Transfer : CreateTransfer(u) \/ Reject(u)
    BY DEF PipelineNext, Section, Consumer, Handler, data, vars,
       InsertJob, Rescore, Publish, Poll, SkipSweep, StartSweep, NextRow,
       EntriesDone, TakeLock, ScoreOnce, Approve, ScoreSubject, ActOnScore,
       DecideReview, Raise, Crash, OutageBegins, OutageEnds, LockExpires
  <2>2. CASE transfers[t] = "none"
    <3>1. ~ Finish
      <4>1. ASSUME Finish PROVE scores[loop.t] # "none" /\ loop.t \in Transfer
        BY <1>1, <4>1 DEF Finish, PipelineInv, SectionHasScore, PipelineTypeOK, Busy, Idle
      <4>2. ASSUME Finish PROVE loop.t = t
        BY <1>1, <2>2, <4>1, <4>2 DEF Finish, PipelineTypeOK
      <4> QED
        BY <1>4, <4>1, <4>2
    <3>2. ASSUME NEW u \in Transfer, Reject(u) PROVE FALSE
      BY <1>1, <2>2, <3>2 DEF Reject, PipelineTypeOK
    <3>3. ASSUME NEW u \in Transfer, CreateTransfer(u) PROVE Waits(t)'
      <4>1. u = t
        BY <1>1, <2>2, <3>3 DEF CreateTransfer, PipelineTypeOK
      <4> QED
        BY <1>8, <3>3, <4>1 DEF CreateTransfer
    <3> QED
      BY <2>1, <2>2, <3>1, <3>2, <3>3
  <2>3. CASE transfers[t] # "none" /\ ~ Cut(t)'
    <3>1. jobs[t].state = "none"
      <4>1. CASE Raise
        <5>1. \/ UNCHANGED jobs
              \/ \E row \in todo : jobs' = [jobs EXCEPT ![row.t] = JobAfterRaise(row)]
          BY <4>1 DEF Raise
        <5>2. ASSUME NEW row \in todo, jobs' = [jobs EXCEPT ![row.t] = JobAfterRaise(row)]
              PROVE  jobs'[t] = jobs[t] \/ jobs'[t].state # "none"
          BY <1>1, <5>2 DEF PipelineTypeOK, JobAfterRaise
        <5> QED
          BY <1>8, <5>1, <5>2
      <4>2. UNCHANGED jobs \/ InsertJob \/ Finish \/ Raise
        BY DEF PipelineNext, Section, Consumer, Handler, data, vars,
           CreateTransfer, Rescore, Publish, Poll, SkipSweep, StartSweep, NextRow,
           EntriesDone, TakeLock, ScoreOnce, Approve, Reject, ScoreSubject, ActOnScore,
           DecideReview, Crash, OutageBegins, OutageEnds, LockExpires
      <4>3. CASE UNCHANGED jobs
        BY <1>8, <4>3
      <4>4. CASE InsertJob
        BY <1>1, <1>8, <4>4 DEF InsertJob, PipelineTypeOK
      <4>5. CASE Finish
        <5>1. \/ UNCHANGED jobs
              \/ \E row \in todo : jobs' =
                    [jobs EXCEPT ![loop.t] = [state |-> "DONE", attempts |-> row.attempts]]
          BY <4>5 DEF Finish
        <5>2. ASSUME NEW row \in todo, jobs' =
                       [jobs EXCEPT ![loop.t] = [state |-> "DONE", attempts |-> row.attempts]]
              PROVE  jobs'[t] = jobs[t] \/ jobs'[t].state = "DONE"
          BY <1>1, <5>2 DEF PipelineTypeOK
        <5> QED
          BY <1>8, <5>1, <5>2
      <4> QED
        BY <4>1, <4>2, <4>3, <4>4, <4>5
    <3>2. loop.at = "outbox" /\ loop.t = t
      BY <1>2, <1>4, <2>3, <3>1 DEF NobodyIsForgotten
    <3>3. ~ InsertJob
      BY <1>1, <1>8, <3>2 DEF InsertJob, PipelineTypeOK
    <3>4. loop' = loop
      BY <1>2, <2>3, <3>2, <3>3 DEF PipelineNext, Section, Consumer, Handler, data, local, vars,
         Free, Idle, CreateTransfer, Rescore, Publish, Poll, SkipSweep, StartSweep, NextRow,
         EntriesDone, TakeLock, ScoreOnce, Approve, Reject, ScoreSubject, ActOnScore,
         DecideReview, Finish, OutageBegins, OutageEnds, LockExpires
    <3> QED
      BY <1>8, <3>2, <3>4
  <2> QED
    BY <1>8, <2>2, <2>3
<1> QED
    BY <1>3, <1>6, <1>7, <1>8

\* The safety half of EventuallyScored, which needs neither fairness nor Redis: a
\* transfer without a score is in the outbox, or its creation was cut short, or every
\* attempt raised.
THEOREM OutboxForgetsNobody == PipelineSpec => []NobodyIsForgotten
<1>1. PipelineInit => TroublesCounted /\ AttemptsCounted /\ NobodyIsForgotten
  <2> SUFFICES ASSUME PipelineInit
               PROVE  TroublesCounted /\ AttemptsCounted /\ NobodyIsForgotten
    OBVIOUS
  <2> USE PipelineAssumption DEF PipelineInit
  <2>1. TroublesCounted
    BY DEF TroublesCounted
  <2>2. AttemptsCounted
    BY DEF AttemptsCounted, NoJob
  <2>3. NobodyIsForgotten
    BY DEF NobodyIsForgotten
  <2> QED
    BY <2>1, <2>2, <2>3
<1>2. PipelineInv /\ TroublesCounted /\ AttemptsCounted /\ NobodyIsForgotten /\ [PipelineNext]_vars
        => TroublesCounted' /\ AttemptsCounted' /\ NobodyIsForgotten'
    BY CountStep, AttemptStep, RememberStep
<1> QED
    BY <1>1, <1>2, Invariance, PTL DEF PipelineSpec
=============================================================================

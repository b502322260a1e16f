--------------------------- MODULE FraudPipeline ---------------------------
(***************************************************************************)
(* How a transfer gets its fraud score, and what waits for it:             *)
(* backend/app/fraud/worker.py, the create, approve and reject handlers of *)
(* backend/app/routers/transfers.py, and rescore of routers/fraud.py.      *)
(*                                                                         *)
(* One API process with one event loop.  Database calls do not await, so   *)
(* scoring runs in one go on that loop, but it is several autocommitted    *)
(* statements: a crash or an exception may fall between any two of them.   *)
(* The consumer task gives way to the handlers where it awaits Redis.  One *)
(* scorer version is in use; the score, which depends on rules, model and  *)
(* data, is any of the three actions.                                      *)
(***************************************************************************)
EXTENDS Integers, Sequences

CONSTANTS
    Transfer,
    NoTransfer,                   \* the loop is not working on a transfer
    MaxAttempts,                  \* _OUTBOX_MAX_ATTEMPTS, 5 in the code
    MaxRaises, MaxCrashes,        \* bounds: exceptions, process deaths,
    MaxOutages, MaxRescores       \* Redis outages, rescore requests

ASSUME PipelineAssumption == MaxAttempts \in Nat \ {0} /\ NoTransfer \notin Transfer

VARIABLES
    transfers,   \* status of each transfer; "none" before it exists
    jobs,        \* fraud_scoring_jobs: the outbox row of each transfer
    scores,      \* fraud_scores: the recommended action, or "none"
    reviews,     \* fraud_review_queue: the rows of each transfer
    stream,      \* stream:fraud:scoring entries not yet delivered
    locks,       \* fraud:scoring:lock keys held in Redis
    redisUp,
    client,      \* _REDIS is set; nothing ever resets it
    unsent,      \* handlers that await stream_publish
    phase,       \* where the consumer task is
    inflight,    \* entries xreadgroup returned, to be handled
    loop,        \* the synchronous section the event loop is in
    todo,        \* outbox rows the running sweep has read
    used,        \* how many raises, crashes, outages and rescores so far
    cut          \* history: the statements that a raise or a crash kept from being
                 \* made, of the outbox row and of the review, with their transfer

data  == <<transfers, jobs, scores, reviews>>
queue == <<stream, locks, redisUp, client, unsent>>
local == <<phase, inflight, loop, todo>>
past  == <<used, cut>>
vars  == <<data, queue, local, past>>

Action == {"NONE", "FLAG", "BLOCK"}
Idle   == [at |-> "idle", by |-> "nobody", t |-> NoTransfer]
Busy   == [at : {"outbox", "score", "act", "finish"},
           by : {"create", "consumer", "sweep", "approve"}, t : Transfer]
Review == [action : {"FLAG", "BLOCK"}, pending : BOOLEAN]
NoJob  == [state |-> "none", attempts |-> 0]

PipelineTypeOK ==
    /\ transfers \in [Transfer -> {"none", "PENDING", "COMPLETED", "REJECTED"}]
    /\ jobs      \in [Transfer -> [state : {"none", "PENDING", "DONE", "FAILED"},
                                   attempts : 0..MaxAttempts]]
    /\ \A t \in Transfer : jobs[t].state = "PENDING" => jobs[t].attempts < MaxAttempts
    /\ scores    \in [Transfer -> Action \cup {"none"}]
    /\ reviews   \in [Transfer -> Seq(Review)]
    /\ stream \in Seq(Transfer) /\ locks \subseteq Transfer /\ redisUp \in BOOLEAN
    /\ client \in BOOLEAN /\ unsent \subseteq Transfer
    /\ phase \in {"poll", "sweep", "entries", "locked"} /\ inflight \in Seq(Transfer)
    /\ loop \in Busy \cup {Idle}
    /\ todo \subseteq [t : Transfer, attempts : 0..MaxAttempts-1]
    /\ cut \subseteq {"outbox", "act"} \X Transfer

PipelineInit ==
    /\ transfers = [t \in Transfer |-> "none"]
    /\ jobs      = [t \in Transfer |-> NoJob]
    /\ scores    = [t \in Transfer |-> "none"]
    /\ reviews   = [t \in Transfer |-> <<>>]
    /\ stream = <<>> /\ locks = {} /\ redisUp \in BOOLEAN
    /\ client = FALSE /\ unsent = {}
    /\ phase = "poll" /\ inflight = <<>> /\ loop = Idle /\ todo = {}
    /\ used = [raises |-> 0, crashes |-> 0, outages |-> 0, rescores |-> 0]
    /\ cut = {}

\* The event loop is free to run another task.
Free == loop = Idle /\ todo = {}

\* The section goes on to its next statement.
Now(at) == [at |-> at, by |-> loop.by, t |-> loop.t]

\* One more of a bounded kind of event.
May(what, bound) == used[what] < bound /\ used' = [used EXCEPT ![what] = @ + 1]

-----------------------------------------------------------------------------
\* create_transfer inserts the transfer; on an autocommitting connection that
\* commits it before its outbox row.
CreateTransfer(t) ==
    /\ Free /\ transfers[t] = "none"
    /\ transfers' = [transfers EXCEPT ![t] = "PENDING"]
    /\ loop' = [at |-> "outbox", by |-> "create", t |-> t]
    /\ UNCHANGED <<jobs, scores, reviews, queue, phase, inflight, todo, past>>

\* The outbox row, then the handler awaits enqueue_score.
InsertJob ==
    /\ loop.at = "outbox"
    /\ jobs'   = [jobs EXCEPT ![loop.t] = [state |-> "PENDING", attempts |-> 0]]
    /\ unsent' = unsent \cup {loop.t}
    /\ loop'   = Idle
    /\ UNCHANGED <<transfers, scores, reviews, stream, locks, redisUp, client,
                   phase, inflight, todo, past>>

\* rescore enqueues a transfer again.
Rescore(t) ==
    /\ Free /\ transfers[t] # "none" /\ May("rescores", MaxRescores)
    /\ unsent' = unsent \cup {t}
    /\ UNCHANGED <<data, stream, locks, redisUp, client, local, cut>>

\* stream_publish: the entry is added, or the attempt is lost to an outage.
Publish(t) ==
    /\ t \in unsent
    /\ unsent' = unsent \ {t}
    /\ stream' = IF redisUp THEN Append(stream, t) ELSE stream
    /\ client' = (client \/ redisUp)
    /\ UNCHANGED <<data, locks, redisUp, local, past>>

-----------------------------------------------------------------------------
\* The consumer's turn: with Redis up it reads the new entries (ten at most in
\* the code); without a client it goes on to the outbox.  A client that has lost
\* its server raises from xreadgroup, and the loop starts over.
Poll ==
    /\ Free /\ phase = "poll"
    /\ redisUp \/ ~ client
    /\ phase'    = "sweep"
    /\ client'   = redisUp
    /\ inflight' = IF redisUp THEN stream ELSE <<>>
    /\ stream'   = IF redisUp THEN <<>> ELSE stream
    /\ UNCHANGED <<data, locks, redisUp, unsent, loop, todo, past>>

\* _maybe_sweep_outbox within _SWEEP_INTERVAL_SECONDS of the last sweep, or a
\* sweep that finds nothing due.
SkipSweep ==
    /\ Free /\ phase = "sweep"
    /\ phase' = "entries"
    /\ UNCHANGED <<data, queue, inflight, loop, todo, past>>

\* What sweep_scoring_outbox may find due: every pending row that was never
\* tried, and those of the others whose backoff has passed.
DueRows ==
    LET Rows(S)  == {[t |-> t, attempts |-> jobs[t].attempts] : t \in S}
        pending  == {t \in Transfer : jobs[t].state = "PENDING"}
        fresh    == {t \in pending : jobs[t].attempts = 0}
    IN  {Rows(fresh \cup retried) : retried \in SUBSET (pending \ fresh)} \ {{}}

\* Mutant: the outbox is swept only when there is no Redis client.
StartSweep_FallbackOnly ==
    /\ Free /\ phase = "sweep" /\ ~ client
    /\ \E rows \in DueRows : todo' = rows
    /\ phase' = "entries"
    /\ UNCHANGED <<data, queue, inflight, loop, past>>

StartSweep ==
    /\ Free /\ phase = "sweep"
    /\ \E rows \in DueRows : todo' = rows
    /\ phase' = "entries"
    /\ UNCHANGED <<data, queue, inflight, loop, past>>

\* The sweep calls score_now for the next of its rows.
NextRow ==
    /\ loop = Idle
    /\ \E row \in todo :
          loop' = [at |-> "score", by |-> "sweep", t |-> row.t]
    /\ UNCHANGED <<data, queue, phase, inflight, todo, past>>

\* All entries are handled: the loop polls again.
EntriesDone ==
    /\ Free /\ phase = "entries" /\ inflight = <<>>
    /\ phase' = "poll"
    /\ UNCHANGED <<data, queue, inflight, loop, todo, past>>

\* _score_once awaits the lock of its entry.  When the lock is held, or Redis
\* raises, the entry is dropped: it is acknowledged, or left in the pending list
\* nobody reads.
TakeLock ==
    /\ Free /\ phase = "entries" /\ inflight # <<>>
    /\ LET t == Head(inflight)
       IN  \/ /\ redisUp /\ t \notin locks
              /\ locks' = locks \cup {t}
              /\ phase' = "locked"
              /\ UNCHANGED inflight
           \/ /\ ~ redisUp \/ t \in locks
              /\ inflight' = Tail(inflight)
              /\ UNCHANGED <<locks, phase>>
    /\ UNCHANGED <<data, stream, redisUp, client, unsent, loop, todo, past>>

\* _score_once goes on with the lock when the loop is free.  It is never
\* released; it expires after 300 s.
ScoreOnce ==
    /\ Free /\ phase = "locked"
    /\ loop' = [at |-> "score", by |-> "consumer", t |-> Head(inflight)]
    /\ UNCHANGED <<data, queue, phase, inflight, todo, past>>

\* approve_transfer asks for the current score; it does not look at the status.
Approve(t) ==
    /\ Free /\ transfers[t] # "none"
    /\ loop' = [at |-> "score", by |-> "approve", t |-> t]
    /\ UNCHANGED <<data, queue, phase, inflight, todo, past>>

Reject(t) ==
    /\ Free /\ transfers[t] # "none"
    /\ transfers' = [transfers EXCEPT ![t] = "REJECTED"]
    /\ UNCHANGED <<jobs, scores, reviews, queue, local, past>>

-----------------------------------------------------------------------------
\* Mutant: an existing score is computed again.
ScoreSubject_Always ==
    /\ loop.at = "score"
    /\ \E a \in Action :
          /\ scores' = [scores EXCEPT ![loop.t] = a]
          /\ loop' = Now(IF a = "NONE" THEN "finish" ELSE "act")
    /\ UNCHANGED <<transfers, jobs, reviews, queue, phase, inflight, todo, past>>

\* score_now and _score_once: a current score is kept, otherwise the subject is
\* scored and the score persisted.
ScoreSubject ==
    /\ loop.at = "score"
    /\ \/ /\ scores[loop.t] # "none"
          /\ loop' = Now("finish")
          /\ UNCHANGED scores
       \/ /\ scores[loop.t] = "none"
          /\ \E a \in Action :
                /\ scores' = [scores EXCEPT ![loop.t] = a]
                /\ loop' = Now(IF a = "NONE" THEN "finish" ELSE "act")
    /\ UNCHANGED <<transfers, jobs, reviews, queue, phase, inflight, todo, past>>

\* Mutant: a FLAG is left to the score alone.
ActOnScore_BlockOnly ==
    LET t == loop.t
    IN  /\ loop.at = "act"
        /\ reviews' = IF scores[t] = "FLAG" \/ \E i \in DOMAIN reviews[t] : reviews[t][i].pending
                      THEN reviews
                      ELSE [reviews EXCEPT ![t] =
                              Append(@, [action |-> scores[t], pending |-> TRUE])]
        /\ loop' = Now("finish")
        /\ UNCHANGED <<transfers, jobs, scores, queue, phase, inflight, todo, past>>

\* _act_on_score: one row in the review queue, unless one is pending.
ActOnScore ==
    LET t == loop.t
    IN  /\ loop.at = "act"
        /\ reviews' = IF \E i \in DOMAIN reviews[t] : reviews[t][i].pending
                      THEN reviews
                      ELSE [reviews EXCEPT ![t] =
                              Append(@, [action |-> scores[t], pending |-> TRUE])]
        /\ loop' = Now("finish")
        /\ UNCHANGED <<transfers, jobs, scores, queue, phase, inflight, todo, past>>

\* A Land Officer affirms or dismisses a review.
DecideReview(t, i) ==
    /\ Free /\ reviews[t][i].pending
    /\ reviews' = [reviews EXCEPT ![t][i] = [action |-> @.action, pending |-> FALSE]]
    /\ UNCHANGED <<transfers, jobs, scores, queue, local, past>>

\* Mutant: the gate looks for a review in the queue and not at the score.
MayComplete_FailOpen(t) == \A i \in DOMAIN reviews[t] : reviews[t][i].action # "BLOCK"

\* The fraud gate of approve_transfer.
MayComplete(t) == scores[t] \in {"NONE", "FLAG"}

\* The section ends: _finish_job of the sweep, the gate of the approval, the
\* next entry of the consumer.
Finish ==
    LET t == loop.t
    IN  /\ loop.at = "finish"
        /\ \/ /\ loop.by = "sweep"
              /\ \E row \in todo :
                    /\ row.t = t
                    /\ jobs' = [jobs EXCEPT ![t] = [state |-> "DONE", attempts |-> row.attempts]]
                    /\ todo' = todo \ {row}
              /\ UNCHANGED <<transfers, phase, inflight>>
           \/ /\ loop.by = "approve"
              /\ transfers' = IF MayComplete(t) THEN [transfers EXCEPT ![t] = "COMPLETED"]
                                                ELSE transfers
              /\ UNCHANGED <<jobs, todo, phase, inflight>>
           \/ /\ loop.by = "consumer"
              /\ phase'    = "entries"
              /\ inflight' = Tail(inflight)
              /\ UNCHANGED <<transfers, jobs, todo>>
        /\ loop' = Idle
        /\ UNCHANGED <<scores, reviews, queue, past>>

\* Mutant: one attempt too many.
JobAfterRaise_OffByOne(row) ==
    [state    |-> IF row.attempts + 1 > MaxAttempts THEN "FAILED" ELSE "PENDING",
     attempts |-> row.attempts + 1]

\* The sweep counts the failed attempt and gives up after MaxAttempts.
JobAfterRaise(row) ==
    [state    |-> IF row.attempts + 1 >= MaxAttempts THEN "FAILED" ELSE "PENDING",
     attempts |-> row.attempts + 1]

\* The section ends before its next statement; that is remembered where it was the
\* outbox row or the review that was to come.
CutShort ==
    cut' = IF loop.at \in {"outbox", "act"} THEN cut \cup {<<loop.at, loop.t>>} ELSE cut

\* A statement of the section raises before it takes effect.  The sweep records
\* the attempt, or is abandoned when that raises too; the consumer drops its
\* entry; a handler answers 500.
Raise ==
    /\ loop # Idle /\ May("raises", MaxRaises) /\ CutShort
    /\ \/ /\ loop.by = "sweep"
          /\ \/ \E row \in todo :
                   /\ row.t = loop.t
                   /\ jobs' = [jobs EXCEPT ![row.t] = JobAfterRaise(row)]
                   /\ todo' = todo \ {row}
             \/ todo' = {} /\ UNCHANGED jobs
          /\ UNCHANGED <<phase, inflight>>
       \/ /\ loop.by = "consumer"
          /\ phase'    = "entries"
          /\ inflight' = Tail(inflight)
          /\ UNCHANGED <<jobs, todo>>
       \/ /\ loop.by \in {"create", "approve"}
          /\ UNCHANGED <<jobs, todo, phase, inflight>>
    /\ loop' = Idle
    /\ UNCHANGED <<transfers, scores, reviews, queue>>

\* The process dies and is started again.  The entries it had read stay in the
\* pending list of a consumer name that nobody uses again.
Crash ==
    /\ May("crashes", MaxCrashes) /\ CutShort
    /\ client'   = FALSE
    /\ unsent'   = {}
    /\ phase'    = "poll"
    /\ inflight' = <<>>
    /\ loop'     = Idle
    /\ todo'     = {}
    /\ UNCHANGED <<data, stream, locks, redisUp>>

\* Redis goes down, with or without its data, and comes back.
OutageBegins ==
    /\ redisUp /\ May("outages", MaxOutages)
    /\ redisUp' = FALSE
    /\ \/ stream' = <<>> /\ locks' = {}
       \/ UNCHANGED <<stream, locks>>
    /\ UNCHANGED <<data, client, unsent, local, cut>>

OutageEnds ==
    /\ ~ redisUp
    /\ redisUp' = TRUE
    /\ UNCHANGED <<data, stream, locks, client, unsent, local, past>>

LockExpires(t) ==
    /\ locks' = locks \ {t} /\ locks' # locks
    /\ UNCHANGED <<data, stream, redisUp, client, unsent, local, past>>

-----------------------------------------------------------------------------
Section  == InsertJob \/ NextRow \/ ScoreSubject \/ ActOnScore \/ Finish
Consumer == Poll \/ SkipSweep \/ EntriesDone \/ TakeLock \/ ScoreOnce
Handler  ==
    \/ \E t \in Transfer : CreateTransfer(t) \/ Publish(t) \/ Rescore(t)
                           \/ Approve(t) \/ Reject(t)
    \/ \E t \in Transfer : \E i \in DOMAIN reviews[t] : DecideReview(t, i)

PipelineNext ==
    \/ Section \/ Consumer \/ StartSweep \/ Handler \/ Raise \/ Crash
    \/ \E t \in Transfer : LockExpires(t)
    \/ OutageBegins \/ OutageEnds

PipelineSpec == PipelineInit /\ [][PipelineNext]_vars

\* A synchronous section runs on.  asyncio resumes ready tasks in turn, so the
\* consumer, which the handlers interrupt, is served again and again; among its
\* sweeps some fall after the interval and after the backoff of each row, whose
\* turn comes by age.
WorkerFairness ==
    /\ WF_vars(Section)
    /\ SF_vars(Consumer)
    /\ \A t \in Transfer : SF_vars(StartSweep /\ \E row \in todo' : row.t = t)

\* Redis may go down for good.
WorkerSpec == PipelineSpec /\ WorkerFairness

\* Redis comes back from every outage.
RecoveringSpec == WorkerSpec /\ WF_vars(OutageEnds)

-----------------------------------------------------------------------------
\* The fail-closed gate of approve_transfer (transfers.py:134): a completed
\* transfer carries a score, and not BLOCK, wherever the sweep, the consumer and
\* other approvals were interrupted.
GateFailsClosed ==
    \A t \in Transfer : transfers[t] = "COMPLETED" => scores[t] \in {"NONE", "FLAG"}

\* The stream, the outbox, rescore and the approval may all ask for the same
\* score, again after a crash or a decision; officers see one review of it.
OneReviewPerScore ==
    \A t \in Transfer : Len(reviews[t]) <= 1

\* An outbox row is DONE only when its transfer has a score: the outbox forgets
\* nothing, whatever raises.
DoneMeansScored ==
    \A t \in Transfer : jobs[t].state = "DONE" => scores[t] # "none"

\* docs/AI_ETHICS_CHARTER.md:18, "FLAG and BLOCK write a row to fraud_review_queue":
\* who finds a current score queues nothing, so an alert without a review or a
\* section about to queue it stays without one.  That takes an exception or a death
\* in this very transfer's section, after its score and before its review: no other
\* failure does it, and no order of stream, sweep, rescore and approvals.
FlaggedIsQueued ==
    \A t \in Transfer :
        scores[t] \in {"FLAG", "BLOCK"} /\ reviews[t] = <<>> =>
            (loop.at = "act" /\ loop.t = t) \/ <<"act", t>> \in cut

\* The outbox loses nobody, whatever becomes of the stream and of Redis: a transfer
\* without a score waits in it, unless its own creation was cut short of the row, or
\* as many attempts as a row has raised.
NobodyIsForgotten ==
    \A t \in Transfer : transfers[t] # "none" /\ scores[t] = "none" =>
        \/ jobs[t].state = "PENDING"
        \/ jobs[t].state = "FAILED" /\ used.raises >= MaxAttempts
        \/ /\ jobs[t].state = "none"
           /\ (loop.at = "outbox" /\ loop.t = t) \/ <<"outbox", t>> \in cut

\* migrations/003_scoring_outbox.sql:7, "every subject is eventually scored
\* regardless of Redis health": a transfer with an outbox row gets a score,
\* unless every attempt raised.
EventuallyScored ==
    \A t \in Transfer :
        jobs[t].state = "PENDING" ~> scores[t] # "none" \/ jobs[t].state = "FAILED"
=============================================================================

# LandGuard Uganda: a verification project in TLA+

Specifications, model-checking runs and proofs kept beside the code of LandGuard:
the hash-chained audit ledger, its anchoring on a chain, the custody contracts and
their co-signing daemon, the verification of identity numbers, the fraud gate and its
scores, the land register and the jobs that watch over it. Paths below are relative
to the repository root; `app/` is `backend/app/`.

To run anything, enter this directory: `tlc -config MCAnchoring.cfg MCAnchoring`
checks a run, `tlapm AnchoringProofs.tla` checks the proofs of a module. PROJECT.json
lists the runs, which definition stands for which lines, the hazards, the
disagreements between code and documents, and the theorems.

## 1. The system

One FastAPI process serves the registry: async handlers and three background tasks
(anchor loop, fraud consumer, scheduler) share one event loop, and every database
call is synchronous, so a piece of code between two awaits runs undisturbed by other
tasks. Three things break that comfort. Connections autocommit
(`app/database.py:32`), so a handler with four statements has three places where an
exception or a crash leaves it half done. The scheduler's jobs run in threads
(`asyncio.to_thread`), beside the loop. And the same database is shared with the cron
scripts and with a second replica (`infra/cranecloud/manifest.yaml:33`).

| component | state | operations | talks to |
|---|---|---|---|
| audit ledger, `app/audit/ledger.py` | `audit_events`: per district a chain of rows, each with the hash of the one before; a lock per process | `append`, `unanchored`, `mark_anchored`, `read`, `count` | everything that calls `audit_emit` |
| chain verifier, `app/audit/verifier.py` | its cursor and the last hash | `verify_chain`, page by page | reads the ledger while others append |
| anchor service, `app/blockchain/anchor_service.py` | `anchors`: batches with range, root, status | `flush_district` from the loop, the manual routes and the demo panel; `build_proof_for_event` | ledger, breaker, chain client |
| chain clients, `app/blockchain/*_client.py` | transactions in flight | `commit_batch`, `verify_proof` | contracts |
| custody contracts, `contracts/src` | anchors by batch id, role, pause flag; proposals, confirmations | `commitBatch`, `proposeAndConfirm`, pause, role changes | each other, the deploy script |
| co-sign daemon, `scripts/co_sign_daemon.py` | last block seen, position in its range | confirm each proposal with each of its accounts | contracts |
| circuit breaker, `app/resilience.py` | state, failures, time of last failure, timeout | `call`, `force_open`, `force_close` | anchor service, NIRA |
| NIRA cache and KYC, `app/nira`, `app/routers/owners.py` | hot and warm cache, `kyc_status` | `verify_nin_cached`, `create_owner`, `kyc_verify` | breaker, Redis |
| fraud pipeline, `app/fraud/worker.py` | outbox, scores, review queue, Redis stream and locks | enqueue, consume, sweep, score, rescore | transfer handlers |
| fraud score, `app/fraud/{rules,scorer}.py` | none | seven rules, the forest, their combination | pipeline |
| land register, `app/routers/{parcels,titles,transfers,disputes,fraud}.py` | parcels, titles, transfers, disputes, reviews, appeals | the handlers | all of the above |
| scheduler and jobs, `app/jobs/` | `escalated_at`, the leader lock, the last parity report | `escalate_pending` and the parity audit every tick, by the leader; the cron script | review queue, ledger, Redis |
| idempotency, `app/middleware` | stored answers by key | look up, run, store | Redis |
| Merkle trees, `app/audit/merkle.py`, `frontend/src/lib/merkle.ts` | none | roots, proofs, verification | anchor service, contract, public verifier |

Authentication, rate limits, USSD, the frontend, seeds, migrations, monitoring and
deployment carry no protocol of their own; PROJECT.json gives the reason for each.

What is hard about it, and what makes each part correct:

- **Ledger.** Two writers must not continue the same row. Correct: sequence numbers
  without holes, every row continues the one before, what was read under the lock is
  still true at the insert.
- **Verifier.** It reads in pages while rows arrive, and of a row it looks at the
  payload, its hash and the row hash only. Correct: a break is reported only if one of
  these was tampered with, and no row is skipped. Success proves less than that nothing
  was edited (section 6).
- **Anchoring.** Events are chosen before an await and marked as a range after it;
  flushes overlap; the chain may refuse, time out, revert, or mine late; the process
  may die at each statement. Correct: the anchored events are an initial segment, a
  proof rebuilt later has the committed root, nothing is marked without an outcome,
  an anchored event stays in its batch, and all events get anchored in the end.
- **Custody.** Rival proposals and a role rotation in two transactions. Correct:
  what the multisig anchored has k distinct signers, anchors never change, and after the
  rotation whoever anchors without it is a registrar the admin admitted. The deployer
  stays admin, so the rotation itself closes no door for good.
- **Co-signing.** Two programs that meet only on the chain: the client waits a fixed
  time, the daemon follows ranges of blocks and swallows failures, transactions are
  mined late or revert. Correct: CONFIRMED is said only of a batch id that is anchored,
  with another root only where another registrar or a rival majority put it there, and a
  daemon left alone brings every proposal it saw onto the chain.
- **Breaker and KYC.** Calls admitted in one state end in another; answers of two
  calls cross; caches outlive what they cached. Correct: count, state and backoff
  agree; nobody is verified unmatched; an outage takes nobody's status for good.
- **Fraud pipeline.** Stream, sweep, approval and rescore may score the same
  transfer; Redis comes and goes; statements raise. Correct: nothing completes
  unscored or blocked, one review per score, an alert lacks its review only if an
  exception or a death hit its own section between the two, everything is scored in the
  end.
- **Score.** Seven thresholds, caps and a rounded sum. Correct: worse evidence never
  lowers the recommendation, no rule makes an alert alone, and the forest alone, which
  may give 60 points, makes a FLAG and never a BLOCK.
- **Register.** Disputes, reviews, appeals, titles and transfers all write a parcel's
  status. Correct: only a human freezes, a restraint ends by a ruling about that parcel or by
  an approval of its transfer (which looks at no status), no owner without a vetted
  ground, decisions are final.
- **Jobs.** Every replica has a scheduler; the lock between them lives in Redis, or in
  each process when Redis is not there; the cron script takes no lock. Correct: two
  jobs meet only for a reason one can name, a review is escalated once and in the end,
  an alarm means that two districts, or two tenures, have different rates.

## 2. The modules

| module | models | its abstraction |
|---|---|---|
| `AuditLedger` | `append` as SELECT and INSERT, lock, failures, crashes | a payload hash is its payload, a row hash the sequence of payloads it digests |
| `ChainVerifier` | extends it: `verify_chain` by pages; edits behind the application of a payload (with its hash or without), of `prev_hash`, of a column no hash covers, and stretches of rows hashed anew | one walk at a time; page size is a constant; rows are edited, not removed or renumbered |
| `AnchoredLog` | the promise: a growing log, of which a growing initial segment is anchored | abstract specification |
| `Anchoring` | `flush_district` up to its await, the chain's answers, the three statements after it | one district; an event is its sequence number; a root is the set of its leaves |
| `Merkle` | both trees of `audit/merkle.py` and `frontend/src/lib/merkle.ts`: roots, proofs, verification, odd levels | levels are rounds of a recursive function; a hash is the tagged tuple of what it digests; the keccak of a sorted pair digests a set |
| `PublicVerification` | extends `Anchoring` and `Merkle`: `verify_title`, the bundle of a certificate, `verifyProof` of the contract | only reads; a title is the event that issued it |
| `MultiSigRegistrar` | both contracts, the deploy script's rotation, and an admin who pauses, grants and revokes | a proposal id is the triple it hashes; a reverted transaction is a disabled action |
| `CoSigning` | extends it: `commit_batch` of the multisig client with its two waits, the daemon's loop, cursor and accounts, transactions sent and mined later | a block number is the number of ProposalCreated events up to it |
| `CircuitBreaker` | `call` split at its await, the `state` property, forced changes, restarts | time in units; only an open breaker looks at the clock |
| `KycVerification` | extends it: `verify_nin_cached` at its three awaits, both caches, `create_owner` and `kyc_verify`, a register that changes its mind | an answer is "matched" or "not matched"; a hot entry may expire at any time |
| `FraudPipeline` | create, approve, reject, rescore, publish, consumer, sweep, score, review, finish | the score is any of NONE, FLAG, BLOCK |
| `FraudScoring` | the seven rules, the forest's share, the sum, its rounding and the thresholds | a reading is one number per rule; points in sixtieths, the forest in thirtieths, so that the arithmetic is exact |
| `LandRegistry` | every handler that changes a parcel, statement by statement, and the escalation thread | transfers are scored at some moment; see `FraudPipeline` for how |
| `Governance` | extends `FraudScoring`: a scheduler per replica with lock and lease, the cron script, `escalate_pending` statement by statement, the parity report | 24 hours are an event; a review is decided in one step (see `LandRegistry`); how the transfers lie over districts and tenures is left open (`Placement`) |

Names follow the code: `flush_district` is `BeginFlush`, `BreakerOpen`, `SendTx`,
`RecordReceipt`/`CommitRaises`, `MarkAnchored`, `EmitCommitted`; `score_now` is
`ScoreSubject` and `ActOnScore`; `verify_nin_cached` is `LookUp`, `HotHit`, `CallNira`,
`Refused`, `ReplyArrives`, `Stored`, `NiraFails`; `_is_leader` is `Lead`, `LeadAlone`
and `SkipTick`; and so on, with the lines of each in PROJECT.json ("map"). In
`LandRegistry` the variable `done` of an action is how many of the handler's statements
took effect before it was cut short: all of them, or fewer at the price of one of
`MaxFailures`. `MaxTroubles` of `Anchoring`, `CoSigning` and `Governance` bounds the
disturbances of a behaviour together; `MaxInterventions` of the custody modules bounds
what the admin does beyond the script, to the accounts in `Grantee`.

Composition. Four modules run on top of another one's variables and actions:
`ChainVerifier` over `AuditLedger`, `PublicVerification` over `Anchoring`, `CoSigning`
over `MultiSigRegistrar`, `KycVerification` over `CircuitBreaker`. For the last two it
is proved that the composition takes only steps of the lower specification
(`CosigningImplementsContracts`, `KycImplementsBreaker`), so the theorems about the
contracts and the breaker hold inside it. `Governance` uses `FraudScoring` for the
score behind each review. `Anchoring` takes sequence numbers as 1, 2, 3, ..., which
`AuditLedgerProofs` proves for one process, and implements `AnchoredLog`;
`LandRegistry` uses of a transfer only what `FraudPipeline` establishes, the gate
`MayComplete`.

Definitions named `X_Y`, with a comment that begins "Mutant:", are wrong versions of
`X`, one for each property: with `X` replaced by it, TLC must find the property
violated. They show that the properties can fail.

## 3. The runs

| run | instance | what it shows |
|---|---|---|
| `verifier_one_process` | 2 districts, 2 writers of one process, 3 rows, pages of 2, 2 edits (of a row's columns, or a stretch hashed anew); 3 229 028 states | chain contiguous, and up to the first rewritten hash it vouches for what append wrote; the walk that races appends reports tampering only, and on success has missed none that those hashes show |
| `verifier_two_processes` | 1 district, API and cron | *violated*: an untouched chain is reported broken |
| `anchoring` | 3 events, batches of up to 3, 4 batches, 1 trouble (refusal, raised call, failed statement, manual flush or crash), the contract may revert; 302 584 states | proofs have the committed roots, `AnchoredLog` is implemented, the public verdict agrees with the chain, inclusion proofs are exact, every event leaves in a batch the chain decided on |
| `anchoring_confirmed` | 2 events, the contract may reject | *violated*: events of a FAILED batch are marked |
| `custody_3_of_5` | 5 signers, threshold 3: the backend, two accounts of the daemon, two of their own mind; 1 batch id, 2 rival roots and the zero root, 1 intervention of the admin (a pause, a role granted to the deployer or a rival, a role revoked), 1 trouble; 631 720 states | threshold, atomic execution; going round the multisig takes the admin; what CONFIRMED means; an undisturbed daemon executes what it sees |
| `kyc` | 2 concurrent requests, 1 owner, 1 number, threshold 2, timeouts 1 to 2, 2 interventions, 1 change of the register or cache failure; 494 858 states | count and state agree, the breaker closes; nobody verified unmatched or downgraded by an outage; rejections heal |
| `fraud_pipeline` | 1 transfer, 2 attempts, 2 raises, 1 crash, 1 outage, 1 rescore; 409 989 states | gate, one review, alerts queued, everything scored |
| `fraud_redis_down` | Redis goes down and stays down | *violated*: the outbox is not swept again |
| `land_registry` | 1 parcel, 2 owners, 1 transfer, 2 disputes, 2 appeals, 1 title, 2 users, 1 interrupted handler; 2 722 274 states | human freeze, what ends a restraint, vetted owners, finality |
| `land_freeze_recorded` | 2 transfers, 1 dispute, no interruption; the officer is no owner | *violated*: frozen, without dispute and event |
| `land_frozen_transfer` | the same | *violated*: a frozen parcel changes hands |
| `governance` | readings at and beyond each rule's threshold and cap, every KYC status; 2 replicas and the cron script, 2 transfers, each in either of 2 districts and of 2 tenures (16 placements), a period of 2, 1 trouble; 348 162 states | scores monotone and corroborated; one leader, one escalation, an alarm means a difference of districts or tenures, overdue reviews are escalated |

Why the bounds are enough.

- *Verifier.* Two writers make the race; a page of two rows meets a full, a short and an
  empty page with three rows. Two edits are a rewritten tail and a second tampering on
  either side of it. Districts, writers and payloads are interchangeable, hence the symmetry; the
  run checks no liveness.
- *Anchoring.* `FlushLimit`, the code's `4 * anchor_flush_batch_size`, is kept above
  `BatchSize` so that a flush takes fewer events than there are (batches of two and one)
  or waits for the interval. Batches of one, two and three leaves are the trees of
  height 0, 1 and 2, the last with an odd level. Four batches are a flush, one that
  overlaps it, a retry and one after all. One trouble at a time keeps the liveness run
  small; that safety survives any number of them in any order is proved
  (`AnchoringProofs` has `MaxTroubles` arbitrary).
- *Custody.* The backend and the daemon's two accounts are exactly the threshold, so
  liveness needs every confirmation the daemon makes; the two others are a rival
  majority when one of the daemon's joins them. One intervention is enough for each way
  round the multisig; the proofs have any number. Blocks without an event make no
  difference to a range, hence block numbers that count events.
- *KYC.* Numbers share nothing but the breaker, so what one owner's number sees of
  another is a breaker that changes for reasons of its own: calls without an owner,
  forced changes and failures make those. Two requests cross at each of the three
  awaits. Threshold 2 tells "first failure" from "trip", timeouts 1 and 2 tell the first
  backoff from the cap.
- *Pipeline.* Transfers share only the consumer, the order of the stream and the list of
  a sweep, all of which the model keeps; two transfers give over ten million states.
- *Register.* Two disputes and two appeals about one parcel, since the question is which
  of them ends its restraint; they are interchangeable, so the run uses symmetry, and it
  checks no liveness. The second transfer is what `land_frozen_transfer` is about. More
  parcels, transfers and users at once are left to the proofs.
- *Governance.* The rules are independent up to their sum, so each needs the readings
  around its threshold and its cap; the sums of those cross 40 and 75 from both sides,
  and halves of a point occur (the rounding). Scores are computed first (`Early`): the
  jobs read only whether a score is an alert, and interleaving them with every
  combination of readings would multiply the states without a new case. Two replicas and
  cron make every overlap of two jobs; a period of 2 separates the lease from the tick.
  Two transfers over two tenures and two districts already make an alarm over equal
  districts, and one over equal tenures. Rules, lock and alarm are proved for all
  constants.

`CHECK_DEADLOCK FALSE` stands where a bound ends the behaviour: all rows appended, all
batches used, all proposals decided.

Disagreements the runs show (all are in PROJECT.json, "findings", with their lines):
the verifier's "any divergence proves tampering" needs a single process;
events of a reverted batch leave the queue; a Redis outage after
start-up stops the sweep that should survive it; a freeze by an officer who is not an
owner loses its event to a foreign key; a frozen parcel is transferred by an approval
filed before.

## 4. Fairness

- *Anchoring* (`FairSpec`). The loop polls for ever and catches every exception, so
  `BeginFlush` by the loop, the answer to an await and the statements after it are
  weakly fair; the chain decides what it accepted; time passes. Manual flushes, business
  events, failures and crashes are not fair. The contract may revert, and then the code
  marks the events all the same, so `EventuallyOnChain` promises a mined or a reverted
  batch and no more: that it cannot promise a mined one is what `anchoring_confirmed`
  shows.
- *Custody* (`CosignSpec`). Blocks are mined, and a running daemon goes on following.
  Nothing makes it start, and nobody but the daemon must confirm. The property counts
  disturbances (a failed call, a stop, a pause, a change of roles by the admin) and
  demands execution unless one more happens, so it stays strong while each of them is
  possible.
- *KYC* (`FairKycSpec`). Requests keep coming, each await returns (clients have
  timeouts), entries expire, the clock ticks. Liveness is conditional on NIRA staying
  up, and for `RejectionHeals` on the owner being asked about again and again: nothing
  in the code repeats a verification by itself.
- *Pipeline.* A synchronous section runs on (weak). The consumer is interrupted by
  handlers but asyncio resumes ready tasks in turn (strong). Sweeps are strongly fair
  for each transfer: `_should_sweep` and a row's backoff compare clocks, and rows are
  taken oldest first. `RecoveringSpec` adds that Redis comes back, `WorkerSpec` does
  not.
- *Governance* (`FairGovernanceSpec`). Each replica's scheduler loop and the thread of
  its job go on, time passes, Redis comes back. Officers, the cron script and crashes
  are not fair: a review may be escalated because nobody decides it.

## 5. The proofs

All hold for every value of the constants, bounds included, from named assumptions.
A hypothesis beside the assumptions is part of the theorem and named with it.

| module | assumptions | inductive invariant | theorems |
|---|---|---|---|
| `AuditLedgerProofs` | `WritersHaveAProcess`; `OneLock` (all writers in one process), a hypothesis of all but the two type theorems | `LedgerInv`: type, at most one writer of a process inside `append`, its read is current, chain contiguous and linked | `LedgerTypes`, `OneLockContiguous`, `OneLockLinked`, `OneLockReadIsCurrent` |
| the same, over `ChainVerifier` | and `BatchIsPositive`, `EditsAreBounded` | `VerifierInv`: type; `NumbersInv`, what no edit touches (lock, numbering); `SealInv`, up to the first rewritten hash the row hashes are those append wrote; `LedgerInv` while nothing was edited; `Sound`, the walk's cursor and last hash are those of the row it read last | `VerifierTypes`, `OneLockKeepsWrites`, `DivergenceIsTampering`, `VerifiedIsIntact` |
| `AnchoringProofs` | `AnchoringAssumption` | `AnchoringInv`: type, prefix, a batch is a range of events with that range as root, marks lie in the range of their batch, marked batches were sent and have a receipt, CONFIRMED is mined | `AnchoringTypes`, `AnchoredPrefix`, `ProofsMatchRoots`, `MarksFollowReceipts`, `ConfirmedOnChain`, `AnchoringFinal`, `AnchoringRefinesLog`; `VerdictsMatchChain` and `InclusionIsExact` over `PublicVerification` |
| the same | | `FailedInv`: `AnchoringInv`, a flight has not marked yet, a batch marked and FAILED was reverted | `FailedMarksWereReverted` |
| `MerkleProofs` | none but that hashes do not collide, which is how `Merkle` writes them | none: induction over the rounds of the loops | `KeccakProofIsExact`, `Sha256ProofIsExact` |
| `CoSigningProofs` | `MultiSigAssumption` (finite signers, threshold at most their number and 255) | `CustodyInv`: type, the counter is the number of confirmers, executed is anchored, what the multisig anchored was executed, whoever holds the role after the rotation besides the multisig was admitted | `ContractTypes`, `ThresholdCustody`, `CounterIsExact`, `ExecutionIsAtomic`, `AnchorsFinal`, `BypassIsTheAdmins` |
| the same, over `CoSigning` | and `CoSigningAssumption` | `CosignInv`: type, `CustodyInv`, the daemon is at an event that exists, what is reported CONFIRMED has an anchor under its id, the daemon's accounts confirm what somebody else proposed first | `CosignTypes`, `CosigningImplementsContracts`, `ReportsAreTrue` |
| the same | for the second, that backend and daemon hold a threshold of accounts | `FollowInv`: undisturbed, each account before the daemon's present one has confirmed or needs not | `NothingIsPassedOver`, `EnoughSignaturesAnchor` |
| `CircuitBreakerProofs` | `BreakerAssumption`, `KycAssumption` | `BreakerInv`: type, count against state, backoff; `KycInv`: type, VERIFIED rests on an answer NIRA gave, caches and requests carry only such answers | `BreakerTypes`, `CountIsState`, `BackoffIsReset`; `KycImplementsBreaker`, `KycTypes`, `VerifiedIsMatched`, `DowngradeIsDenied` |
| `FraudPipelineProofs` | `PipelineAssumption` | `PipelineInv`: type, gate, one review, DONE means scored, a review belongs to a score, a section past scoring has one, the consumer's lock has its entry; `AttemptsCounted`: no row counts more attempts than raised | `PipelineTypes`, `GateIsClosed`, `AtMostOneReview`, `OutboxIsDurable`, `AlertsAreQueued`, `OutboxForgetsNobody` |
| `LandRegistryProofs` | `RegistryAssumption` | `LandInv`: type, human freeze, vetted owners, the mark of an escalation precedes its event | `LandTypes`, `OnlyHumansFreeze`, `OwnersAreVetted`, `EscalationIsOnce`, `DecisionsStay`, `RestraintLiftedByRuling` |
| the same | | `WholeInv`: `LandInv`, and with no handler interrupted a frozen parcel has its event and an open FRAUD dispute or was frozen by an affirmation whose dispute was refused | `FreezesAreWhole` |
| `GovernanceProofs` | `GovernanceAssumption`, `ScoringAssumption` | `GovernanceInv`: type, a job has rows to work on, whoever leads undisturbed holds the lock and is alone, a job alone has escalated nothing twice, an event is emitted for a stamped row; then `TablesAreFinite` | `GovernanceTypes`, `AtMostOneLeads`, `EscalationsAreSingle`, `MarksHaveEvents`, `ScoresAreMonotone`, `AlertsAreCorroborated`, `AlarmsAreWarranted` |

Why the strengthenings are needed. *Ledger*: contiguity is preserved only if the number
read under the lock is still the last at the insert, which needs that no other writer of
the process is between its two statements. *Verifier*: rows arrive during the walk, so
what it knows is about a prefix that appends and edits leave alone (`Walking`), and the
seal of a row against edits is that its hash digests what was written, not that its
columns do (`SealInv`); that a page holds the rows after the cursor and no gap is a
lemma on ranks. *Anchoring*: that a flush marks a range leaves no hole only because the
range it chose began at the first unanchored event, and what another flush has anchored
since is an initial segment: hence `BatchIsRange` beside the prefix. Refinement is then
a case per action: the mark is `Anchor` or a stutter, an event is `Extend`, all else
stutters. *Public verdict*: TRUE is given for a proof rebuilt from the range of a batch,
so it joins `BatchIsRange` and `ConfirmedIsOnChain` with the lemmas on trees: the proof
of a leaf leads to the root, and the proof of nothing else does. *Custody*: the
threshold property speaks of anchors, the step that creates one speaks of a counter;
`Counted` joins them, and the counter cannot wrap because it stops at the threshold.
*Co-signing*: the step condition reads a proposal from the daemon's position, so that
position must lie among the events; the rest is inherited from `CustodyInv` by the
refinement. That a daemon passes over nothing needs more than the step that moves it on:
what each of its accounts did at this event, and that a transaction it waits for is
mined or refused. *KYC*: a status is written from an answer that travelled through a
request, a cache or a row, so all three must remember who gave it (`RequestsCarry`,
`CachesRemember`); the step property is then `DenialStep` under that invariant.
*Pipeline*: the gate reads the score in an earlier step than it completes the transfer;
`AlertsAreQueued` needs to know which section is between score and queue. *Register*:
the evidence of a freeze or an ownership (score, affirmation, title row) is never taken
back, which is a lemma of its own (`EvidenceStays`, `TitlesStay`). *Governance*: that
two jobs did not overlap says nothing by itself; one must know that the lease of the one
that runs has not ended (`LeaderAlone`), and that a row between its stamp and its event
is one no other job selects (`EmitsStamped`). The rules are monotone one by one, the sum
and the cap keep that, and `RoundMonotone` shows that rounding half to even does;
corroboration is the bounds of the rules against 39.5 and 74.5 points. An alarm is about
the mean of the districts' rates, a fold over a finite set: if all districts have one
rate, that is the rate of all transfers (`SharesAddUp`), and so is the one rate the
tenures have (`AlikeIsOneRate`): no group is above the mean.

Induction. The library's induction theorems take an operator, which no backend can
instantiate; a set can be. `MerkleProofs` derives `NatSetInduction` (a set that holds 0
and is closed under successor holds all numbers) from the fact that every non-empty set of numbers
has a least one (`WFMin`), `GovernanceProofs` an induction over subsets of a finite set in
the same way; a recursive function is first shown to exist, by building it round after
round, and then obeys its equation. That is how the loops of both trees and the folds of
the parity report are reasoned about. `Merkle` is written with recursive functions for
that reason, and its height is the first round that leaves one node.

What the disagreements amount to. A run shows each of three claims violated; theorems
state a condition under which it holds: with one process the verifier reports edited chains only
(`DivergenceIsTampering`, against `verifier_two_processes`); a marked event of a
FAILED batch is one the chain reverted, and nothing else marks one
(`FailedMarksWereReverted`, against `anchoring_confirmed`); with no handler interrupted, a
freeze lacks its event or its dispute only if the officer who affirmed last was no owner
(`FreezesAreWhole`, against `land_freeze_recorded`). And three are the safety
half of a liveness property, what must be so for fairness to be enough:
`NothingIsPassedOver` of `CreatedIsExecuted`, `OutboxForgetsNobody` of `EventuallyScored`
(where the outbox row is what remains when Redis does not), `MarksHaveEvents` of
`OverdueIsEscalated`.

Some properties are proved and no longer run, or were never in a run, to leave the runs
to what only they can show: `AnchoredIsPrefix`, `AnchoringIsFinal`, `MarkedAfterReceipt`,
`ConfirmedIsOnChain` (all under the refinement `ImplementsAnchoredLog` or beside it),
`LockedReadIsCurrent`, `BackoffEndsWithTrip`, `CountIsDistinctSigners`, `AnchorsAreFinal`,
`DoneMeansScored`, `ChainLinked`, the register's own `EscalatedOnce`, `FreezeIsWhole`,
`MarkedFailedWasReverted`, `PassedIsSigned`, `EnoughIsAnchored`, `MarksAreAnnounced` and
`NobodyIsForgotten`. TLC finds each to hold on the instance of its module's passing run,
`ChainLinked` with no edits.

Only model-checked: the six liveness properties `EventuallyOnChain`, `ClosesAfterOutage`,
`RejectionHeals`, `CreatedIsExecuted`, `EventuallyScored` and `OverdueIsEscalated`, since
fairness and ENABLED are out of the prover's reach. Every invariant and action property of
a passing run has a theorem. A violation run is a counterexample of TLC and proves nothing
beyond itself.

## 6. What the models leave out

PostgreSQL: the statements use SQLite's `?` markers and SQLite is the default. Several
API replicas in the pipeline and the register: a second replica may score a transfer
twice, and two may derive the same title number from COUNT + 1
(`app/routers/titles.py:108`). Loss of disk. The contents of payloads, and real hash
functions. What the forest learns: its answer is an input. Biometric matching, which
has no caller. Roles: each handler may be called by any user of the model, which
allows more than the code. Idempotency: the middleware stores an answer only if the
response of `call_next` has the media type application/json, and Starlette's streamed
response has none, so nothing is ever replayed; there is no protocol left to model
until that changes.

Disagreements that no run shows by a violation. For the first four a property states
exactly how far the claim holds, and a passing run and a proof show that it holds so far.

*What a claim comes to.* `audit/verifier.py:3-4` says the walk is to "prove that no rows
have been tampered with since they were written". Success proves that of the payloads
and payload hashes before the first rewritten row hash: `prev_hash`, the event type, the
actor and the other columns no hash covers are never compared, and a tail whose hashes
were all computed anew is a chain as good as any (`VerifiedMeansIntact`). Rows that were
deleted, renumbered or cut off the end are not modelled; nothing in `verify_chain`
compares the length with a record kept elsewhere. `commit_batch` reports CONFIRMED for its
own root as soon as any anchor has its batch id (`multisig_client.py:177`, with the comment
at 159-160): a rival proposal that gathered the threshold, or a batch another registrar
sent, is reported as this one (`ReportedIsAnchored` says when). `deploy_contract.py:139`
and `docs/CUSTODY.md:20` have it that only the multisig can anchor after the rotation; the
deployer keeps DEFAULT_ADMIN_ROLE (`LandRegistryAnchor.sol:38`) and may grant
REGISTRAR_ROLE to anyone, itself included (`BypassNeedsTheAdmin`). The parity audit holds
each tenure's rate against the mean of the districts' rates, so districts that are all
alike still raise FRAUD_PARITY_BREACH when their tenures are not (`AlarmIsWarranted`).
`jobs/scheduler.py:3-4` says that "with N API replicas at most one runs the jobs per tick":
a lease of 270 s in a tick of 300 s keeps jobs from overlapping, not from following each
other, and two replicas whose ticks are out of phase by more than the lease both run
within one tick (`OneLeader` is about overlap, and so is `EscalatedOnce`, which excuses
a review escalated twice by any overlap so far).

*Anchoring and custody.* SUBMITTED batches are never looked at again, and
`multisig_client.py:97` says the anchor service polls `verify_proof` to confirm, which
it does not. The daemon confirms every `ProposalCreated`, whoever made it,
and a restart begins at the current block, so what was proposed while it was down stays
short of its confirmations. `verify_title` does not look at a title's revocation.

*Breaker and KYC.* A half-open breaker admits any number of probes
(`app/resilience.py:43` speaks of one) and a late success closes an open one; the
parameters of `docs/ARCHITECTURE.md` 6.1 (30 s, two successes to close) are older.
`docs/ARCHITECTURE.md:418` promises a 503 and a retry hint when NIRA is down, and
`owners.py:114` stores KYC_REJECTED, for an owner already VERIFIED too if the numbers
differ or NIRA denied it once. `kyc_verify` does not compare the number of the request
with the owner's: an owner is verified on anybody's number. Two calls in flight may
leave the hot cache and the warm row with different answers.

*Fraud.* An alert may be stored without its review when an exception or a crash falls
between the two (`app/fraud/worker.py:228` against `docs/AI_ETHICS_CHARTER.md:18`;
`FlaggedIsQueued` excuses only an alert whose own section was hit there).
`docs/AI_ETHICS_CHARTER.md:67` says a watchlist match is necessary for a BLOCK; other
findings add up to one without it. `docs/ARCHITECTURE.md:354` says `nira_kyc` fires when
NIRA finds no match; PENDING and EXPIRED score too. The consideration rule counts the
transfer it judges in its own norm, and an underpriced one deviates by at most 1 where
the rule asks for more than 2, so it never fires for it; the feature
`hours_since_last_transfer` sees the transfer itself and is about 0. `create_transfer`
writes transfer and outbox row in two autocommitted statements; entries read by a dead
consumer are not reclaimed (the outbox covers them); the header of migration 002
describes an older scheme.

*Register and jobs.* The resolver of an appeal is not compared with the officer who
affirmed (charter lines 30 and 53 speak of independent review); rejecting a COMPLETED
transfer leaves the ownership moved; an upheld appeal frees the parcel and not the
blocked transfer. A ruling on any dispute about a parcel, a second ruling on the same
one included, ends its restraint although another dispute about it is open.
`escalate_pending` stamps a row before it emits the event, so an event lost in between
is never written, and its UPDATE does not look whether the review has been decided
since. The parity mean weighs a district of one transfer like one of a thousand;
`_last_parity` is set before the audit runs, so a failed audit waits a whole interval,
and it is kept per process, so each new leader audits at once.

## 7. Plan

Done, in this order: `AuditLedger`, `ChainVerifier`, `AnchoredLog` and `Anchoring`,
`MultiSigRegistrar`, `CircuitBreaker`, `FraudPipeline`, `LandRegistry`; `Merkle` and
`PublicVerification`, checked in the run of `Anchoring`; then the compositions:
`CoSigning` over `MultiSigRegistrar`, `KycVerification` over `CircuitBreaker`,
`FraudScoring` and `Governance`. Every safety property of a passing run has a proof, and
so have the safety halves of three of the liveness properties.

Next:

1. `Anchoring` over `CircuitBreaker` in place of its nondeterministic refusal, with a
   proof that the composition takes only steps of the breaker.
2. The safety halves of the three other liveness properties: an event that is in no
   batch's range is one the next flush selects; what keeps a breaker open; what keeps a
   rejection.
3. Two replicas of `FraudPipeline` and of the register (title numbers).

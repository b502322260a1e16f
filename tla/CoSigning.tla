----------------------------- MODULE CoSigning -----------------------------
(***************************************************************************)
(* How a batch gets its threshold: the backend's client                    *)
(* (backend/app/blockchain/multisig_client.py) makes the first             *)
(* confirmation and waits a while for the rest, and the co-signing daemon  *)
(* (backend/scripts/co_sign_daemon.py) follows the ProposalCreated events  *)
(* and adds the confirmations of its accounts, over the contracts of       *)
(* MultiSigRegistrar.                                                      *)
(*                                                                         *)
(* A transaction is sent first and mined, or reverted, later.  A block     *)
(* number stands for how many ProposalCreated events lie at or below it:   *)
(* blocks without one make no difference to a range of blocks.             *)
(***************************************************************************)
EXTENDS MultiSigRegistrar, Sequences, Functions

CONSTANTS
    Project,       \* the account of the backend
    CoSigners,     \* the daemon's accounts, in the order it signs with them
    Flushed,       \* the batches the backend flushes, each with its root
    MaxTroubles    \* bound: failed RPC calls and stops of the daemon

ASSUME CoSigningAssumption ==
    /\ CoSigners \in Seq(Signer \ {Project}) /\ CoSigners # <<>>
    /\ Project \in Signer
    /\ Flushed \subseteq Proposal
    /\ \A p, q \in Flushed : p.batch = q.batch => p = q
    /\ MaxTroubles \in Nat

VARIABLES
    created,   \* the proposals in the order of their ProposalCreated events
    mempool,   \* transactions sent and not mined: <<signer, proposal>>
    daemon,    \* the daemon's position in its loop
    calls,     \* commit_batch of each flushed batch: where it waits, what it reports
    troubles

chainVars  == <<contractVars, created, mempool>>
cosignVars == <<contractVars, created, mempool, daemon, calls, troubles>>

\* mode, last_block, current, the event and the account it is busy with
Daemon == [mode : {"down", "polling", "signing", "waiting"}, last : Nat, current : Nat,
           event : Nat, account : 1..Len(CoSigners)]

Outside(mode, last) == [mode |-> mode, last |-> last, current |-> 0, event |-> 0, account |-> 1]

CosignTypeOK ==
    /\ ContractTypeOK
    /\ created \in Seq(Proposal)
    /\ mempool \subseteq Signer \X Proposal
    /\ daemon \in Daemon /\ daemon.last <= Len(created)
    /\ calls \in [Flushed -> {"none", "sent", "polling", "confirmed", "submitted", "raised"}]
    /\ troubles \in 0..MaxTroubles

CosignInit ==
    /\ ContractInit
    /\ created = <<>> /\ mempool = {}
    /\ daemon = Outside("down", 0)
    /\ calls = [p \in Flushed |-> "none"]
    /\ troubles = 0

\* deploy_contract.py writes the addresses both programs read after the rotation.
Deployed == rotation = "done"

Trouble == troubles < MaxTroubles /\ troubles' = troubles + 1

-----------------------------------------------------------------------------
\* The first confirmation creates the proposal and emits the event.
Emitted(p) == IF confirmed[p] = {} THEN Append(created, p) ELSE created

Succeeds(s, p) ==
    /\ MayConfirm(s, p)
    /\ Reached(Incremented(confirmations[p])) => MayCommit(Multisig, p)

\* A transaction is mined; one that reverts changes nothing but is mined all the same.
Mine(tx) ==
    /\ tx \in mempool
    /\ mempool' = mempool \ {tx}
    /\ \/ /\ ProposeAndConfirm(tx[1], tx[2])
          /\ created' = Emitted(tx[2])
       \/ /\ ~ Succeeds(tx[1], tx[2])
          /\ UNCHANGED <<contractVars, created>>
    /\ UNCHANGED <<daemon, calls, troubles>>

\* The signers who run neither program confirm what they please.
SignElsewhere(s, p) ==
    /\ s \in Signer \ ({Project} \cup Range(CoSigners))
    /\ ProposeAndConfirm(s, p)
    /\ created' = Emitted(p)
    /\ UNCHANGED <<mempool, daemon, calls, troubles>>

\* What the deployer and the other registrars do to the anchor contract.
Administer ==
    /\ \/ \E a \in Signer \cup {Deployer}, p \in Proposal : CommitDirectly(a, p)
       \/ Admin
    /\ UNCHANGED <<created, mempool, daemon, calls, troubles>>

-----------------------------------------------------------------------------
\* commit_batch builds and sends the project's confirmation.
Commit(p) ==
    /\ Deployed /\ calls[p] = "none"
    /\ mempool' = mempool \cup {<<Project, p>>}
    /\ calls' = [calls EXCEPT ![p] = "sent"]
    /\ UNCHANGED <<contractVars, created, daemon, troubles>>

CallMoves(p, from, to) ==
    /\ calls[p] = from
    /\ calls' = [calls EXCEPT ![p] = to]
    /\ UNCHANGED <<contractVars, created, mempool, daemon>>

\* The receipt arrives, whatever its status; or it does not within 60 seconds; or
\* waiting for it raises.
ReceiptArrives(p) == CallMoves(p, "sent", "polling") /\ <<Project, p>> \notin mempool /\ UNCHANGED troubles
ReceiptLate(p)    == CallMoves(p, "sent", "submitted") /\ UNCHANGED troubles
WaitRaises(p)     == CallMoves(p, "sent", "raised") /\ Trouble

\* Mutant: the mined first confirmation is taken for the anchoring.
SeesAnchor_OnReceipt(p) == CallMoves(p, "polling", "confirmed") /\ UNCHANGED troubles

\* _wait_for_execution finds an anchor of the batch id, or ten seconds pass.
SeesAnchor(p) == /\ anchors[p.batch] # NoAnchor
                 /\ CallMoves(p, "polling", "confirmed") /\ UNCHANGED troubles
GivesUp(p)    == CallMoves(p, "polling", "submitted") /\ UNCHANGED troubles

Client ==
    \E p \in Flushed :  \/ Commit(p) \/ ReceiptArrives(p) \/ ReceiptLate(p) \/ WaitRaises(p)
                        \/ SeesAnchor(p) \/ GivesUp(p)

-----------------------------------------------------------------------------
\* main reads the current block first: what was proposed before is not its business.
StartDaemon ==
    /\ daemon.mode = "down" /\ Deployed
    /\ daemon' = Outside("polling", Len(created))
    /\ UNCHANGED <<contractVars, created, mempool, calls, troubles>>

StopDaemon ==
    /\ daemon.mode # "down" /\ Trouble
    /\ daemon' = Outside("down", 0)
    /\ UNCHANGED <<contractVars, created, mempool, calls>>

\* A range of blocks with events in it; a poll that fails is made again.
Poll ==
    /\ daemon.mode = "polling" /\ daemon.last < Len(created)
    /\ daemon' = [daemon EXCEPT !.mode = "signing", !.current = Len(created),
                                !.event = daemon.last + 1, !.account = 1]
    /\ UNCHANGED <<contractVars, created, mempool, calls, troubles>>

\* Mutant: the range is closed with the block number of then, not of the poll.
NextEvent_LateBlock ==
    IF daemon.event < daemon.current
    THEN [daemon EXCEPT !.mode = "signing", !.event = daemon.event + 1, !.account = 1]
    ELSE Outside("polling", Len(created))

\* Mutant: last_block one past the range, from_block without the increment.
NextEvent_OnePast ==
    IF daemon.event < daemon.current
    THEN [daemon EXCEPT !.mode = "signing", !.event = daemon.event + 1, !.account = 1]
    ELSE Outside("polling", daemon.current + 1)

\* The next event of the range, or the end of the range: last_block = current.
NextEvent ==
    IF daemon.event < daemon.current
    THEN [daemon EXCEPT !.mode = "signing", !.event = daemon.event + 1, !.account = 1]
    ELSE Outside("polling", daemon.current)

NextAccount ==
    IF daemon.account < Len(CoSigners)
    THEN [daemon EXCEPT !.mode = "signing", !.account = daemon.account + 1]
    ELSE NextEvent

Seen == created[daemon.event]
Confirmation == <<CoSigners[daemon.account], Seen>>

\* _confirm finds the proposal executed and leaves it.
SkipExecuted ==
    /\ daemon.mode = "signing" /\ Seen \in executed
    /\ daemon' = NextEvent
    /\ UNCHANGED <<contractVars, created, mempool, calls, troubles>>

\* _confirm sends the account's confirmation; if the look at the proposal fails it
\* sends it even for an executed one.
SendConfirmation ==
    /\ daemon.mode = "signing"
    /\ \/ Seen \notin executed /\ UNCHANGED troubles
       \/ Seen \in executed /\ Trouble
    /\ mempool' = mempool \cup {Confirmation}
    /\ daemon' = [daemon EXCEPT !.mode = "waiting"]
    /\ UNCHANGED <<contractVars, created, calls>>

\* Sending fails: the exception is logged, the next account follows.
SendFails ==
    /\ daemon.mode = "signing" /\ Trouble
    /\ daemon' = NextAccount
    /\ UNCHANGED <<contractVars, created, mempool, calls>>

\* The receipt arrives, whatever its status, or waiting for it raises.
ConfirmationMined ==
    /\ daemon.mode = "waiting" /\ Confirmation \notin mempool
    /\ daemon' = NextAccount
    /\ UNCHANGED <<contractVars, created, mempool, calls, troubles>>

ConfirmationLate ==
    /\ daemon.mode = "waiting" /\ Trouble
    /\ daemon' = NextAccount
    /\ UNCHANGED <<contractVars, created, mempool, calls>>

Follow == Poll \/ SkipExecuted \/ SendConfirmation \/ ConfirmationMined

CosignNext ==
    \/ \E tx \in mempool : Mine(tx)
    \/ \E s \in Signer, p \in Proposal : SignElsewhere(s, p)
    \/ Administer \/ Client
    \/ StartDaemon \/ StopDaemon \/ Follow \/ SendFails \/ ConfirmationLate

\* Blocks are mined, and a daemon that runs keeps polling.
CosignSpec ==
    /\ CosignInit /\ [][CosignNext]_cosignVars
    /\ \A s \in Signer, p \in Proposal : WF_cosignVars(Mine(<<s, p>>))
    /\ WF_cosignVars(Follow)

-----------------------------------------------------------------------------
\* What commit_batch reports as CONFIRMED: its batch id is anchored, by the multisig
\* only with the threshold behind what is anchored; and that is the reported root
\* unless an account with the role put another there itself, or a rival for the batch
\* won, which a signer who runs neither program started and the backend never signed.
\* multisig_client.py:159-160 has it that "if the batchId is present there, the
\* multisig has fired": it compares no root, so either exception is reported too.
ReportedIsAnchored ==
    \A p \in Flushed : calls[p] = "confirmed" =>
        LET a == anchors[p.batch]
            q == ProposalOf(p.batch)
        IN  /\ a # NoAnchor
            /\ a.registrar = Multisig =>
                  q \in executed /\ Cardinality(confirmed[q]) >= Threshold
            /\ a.registrar = Multisig /\ q # p =>
                  /\ Project \notin confirmed[q]
                  /\ \E s \in confirmed[q] : s \notin {Project} \cup Range(CoSigners)

\* The daemon is busy with an event.
Signing == daemon.mode \in {"signing", "waiting"}

\* A proposal the daemon has still before it.
Ahead(p) ==
    \E i \in DOMAIN created :
        /\ created[i] = p
        /\ \/ daemon.mode = "polling" /\ i > daemon.last
           \/ Signing /\ i > daemon.event

Disturbances == troubles + interventions

\* The daemon brings every batch proposed while it runs onto the chain, unless one of
\* its calls fails, it stops, or the admin pauses the contract or changes a role: no
\* event is lost between two ranges, and neither a rival proposal nor a transaction
\* that reverts holds it up.
CreatedIsExecuted ==
    \A p \in Flushed, k \in 0..MaxTroubles + MaxInterventions :
        (Ahead(p) /\ ~ paused /\ Multisig \in registrars /\ p.root # ZeroRoot /\ Disturbances = k)
            ~> (anchors[p.batch] # NoAnchor \/ Disturbances > k)

\* What that rests on: the daemon moves on from an event only once all its accounts
\* have confirmed the proposal, or no confirmation is needed or could help, since the
\* batch is anchored or its root is the one the contract refuses.  Receipts that say
\* nothing, reverted transactions, rivals and ranges of blocks leave no gap.
PassedIsSigned ==
    [][Signing /\ daemon'.event # daemon.event /\ Disturbances' = 0 =>
          \/ anchors[Seen.batch] # NoAnchor \/ Seen.root = ZeroRoot
          \/ Range(CoSigners) \subseteq confirmed[Seen]]_cosignVars

\* And with the backend's confirmation that is enough.
EnoughIsAnchored ==
    \A p \in Proposal :
        Range(CoSigners) \cup {Project} \subseteq confirmed[p] => anchors[p.batch] # NoAnchor
=============================================================================

-------------------------- MODULE CoSigningProofs --------------------------
(***************************************************************************)
(* The custody of anchors for any set of signers and any threshold that    *)
(* the constructor of MultiSigRegistrar accepts; then of the client and    *)
(* the daemon, which drive the contracts through their transactions only:  *)
(* what is shown of the contracts holds of the composition, what the client *)
(* reports as CONFIRMED is there, and the daemon leaves nothing behind that *)
(* its signatures could still decide.                                      *)
(***************************************************************************)
EXTENDS CoSigning, FiniteSetTheorems, TLAPS

\* The counter of a proposal, and that execution happens exactly at the threshold.
\* Without the second half the counter could not be shown to stop before it wraps.
Counted ==
    \A p \in Proposal :
        /\ confirmations[p] = Cardinality(confirmed[p])
        /\ confirmations[p] <= Threshold
        /\ p \in executed <=> confirmations[p] = Threshold

\* What the multisig anchored it executed.
MultisigExecuted ==
    \A b \in BatchId :
        anchors[b] # NoAnchor /\ anchors[b].registrar = Multisig => ProposalOf(b) \in executed

\* Whoever holds the role was given it by the constructor, the script or the admin;
\* without a step of the admin the script's work stands and the contract runs.
Roles ==
    /\ registrars \subseteq {Deployer, Multisig} \cup admitted
    /\ rotation = "done" => registrars \subseteq {Multisig} \cup admitted
    /\ rotation # "none" /\ interventions = 0 => Multisig \in registrars
    /\ paused => interventions > 0

CustodyInv ==
    /\ ContractTypeOK
    /\ Counted
    /\ ExecutedIsAnchored
    /\ MultisigExecuted
    /\ Roles

-----------------------------------------------------------------------------
LEMMA NoAnchorIsNone == NoAnchor \notin Anchor
BY MultiSigAssumption DEF Anchor, Account

\* The anchor commitBatch writes.
LEMMA CommitEffect ==
    ASSUME ContractTypeOK, NEW sender \in Account, NEW p \in Proposal, CommitBatch(sender, p)
    PROVE  /\ anchors' \in [BatchId -> Anchor \cup {NoAnchor}]
           /\ anchors[p.batch] = NoAnchor /\ p.batch \in BatchId
           /\ anchors'[p.batch] = [root |-> p.root, district |-> p.district, registrar |-> sender]
           /\ anchors'[p.batch] # NoAnchor
           /\ \A b \in BatchId : b # p.batch => anchors'[b] = anchors[b]
           /\ UNCHANGED <<roleVars, paused, interventions>>
<1>1. p.batch \in BatchId /\ p.root \in Root /\ p.district \in District
  BY DEF Proposal
<1>2. [root |-> p.root, district |-> p.district, registrar |-> sender] \in Anchor
  BY <1>1 DEF Anchor
<1> QED
  BY <1>1, <1>2, NoAnchorIsNone DEF CommitBatch, MayCommit, ContractTypeOK

\* Each confirmation is of a new signer, and the uint8 does not wrap.
LEMMA ConfirmEffect ==
    ASSUME CustodyInv, NEW s \in Signer, NEW p \in Proposal, ProposeAndConfirm(s, p)
    PROVE  /\ confirmations' = [confirmations EXCEPT ![p] = confirmations[p] + 1]
           /\ confirmations[p] + 1 = Cardinality(confirmed'[p])
           /\ confirmations[p] + 1 \in 1..Threshold
           /\ confirmed' = [confirmed EXCEPT ![p] = @ \cup {s}]
<1>1. p \notin executed /\ s \notin confirmed[p] /\ confirmed[p] \in SUBSET Signer
  BY DEF ProposeAndConfirm, MayConfirm, CustodyInv, ContractTypeOK
<1>2. confirmed' = [confirmed EXCEPT ![p] = @ \cup {s}] /\ confirmed'[p] = confirmed[p] \cup {s}
  BY DEF ProposeAndConfirm, CustodyInv, ContractTypeOK
<1>3. Cardinality(confirmed'[p]) = Cardinality(confirmed[p]) + 1
  <2>1. IsFiniteSet(confirmed[p])
    BY <1>1, FS_Subset, MultiSigAssumption
  <2> QED
    BY <1>1, <1>2, <2>1, FS_AddElement
<1>4. /\ confirmations[p] \in 0..255 /\ confirmations[p] # Threshold /\ confirmations[p] <= Threshold
      /\ confirmations[p] = Cardinality(confirmed[p])
  BY <1>1 DEF CustodyInv, ContractTypeOK, Counted
<1>5. Threshold \in Nat /\ Threshold <= 255
  <2>1. Cardinality(Signer) \in Nat
    BY FS_CardinalityType, MultiSigAssumption
  <2> QED
    BY <2>1, MultiSigAssumption
<1>6. confirmations[p] + 1 \in 1..Threshold /\ (confirmations[p] + 1) % 256 = confirmations[p] + 1
  BY <1>4, <1>5
<1>7. confirmations' = [confirmations EXCEPT ![p] = confirmations[p] + 1]
  BY <1>6 DEF ProposeAndConfirm, Incremented
<1> QED
  BY <1>2, <1>3, <1>4, <1>6, <1>7

\* A confirmation keeps the invariant: short of the threshold nothing but the
\* counter moves, at the threshold the batch is committed with it.
LEMMA ConfirmKeepsInv ==
    ASSUME CustodyInv, NEW s \in Signer, NEW p \in Proposal, ProposeAndConfirm(s, p)
    PROVE  CustodyInv'
<1> USE DEF CustodyInv
<1> DEFINE n == confirmations[p] + 1
<1>1. /\ confirmations' = [confirmations EXCEPT ![p] = n]
      /\ n = Cardinality(confirmed'[p]) /\ n \in 1..Threshold
      /\ confirmed' = [confirmed EXCEPT ![p] = @ \cup {s}]
  BY ConfirmEffect
<1>2. confirmations'[p] = n
  BY <1>1 DEF ContractTypeOK
<1>3. Threshold \in Nat /\ Threshold <= 255
  <2>1. Cardinality(Signer) \in Nat
    BY FS_CardinalityType, MultiSigAssumption
  <2> QED
    BY <2>1, MultiSigAssumption
<1>4. /\ confirmed' \in [Proposal -> SUBSET Signer]
      /\ confirmations' \in [Proposal -> 0..255]
  BY <1>1, <1>3 DEF ContractTypeOK
<1>5. CASE n = Threshold
  <2>1. executed' = executed \cup {p} /\ CommitBatch(Multisig, p)
    BY <1>2, <1>3, <1>5 DEF ProposeAndConfirm, Reached
  <2>2. /\ anchors' \in [BatchId -> Anchor \cup {NoAnchor}]
        /\ anchors[p.batch] = NoAnchor
        /\ anchors'[p.batch] = [root |-> p.root, district |-> p.district, registrar |-> Multisig]
        /\ \A b \in BatchId : b # p.batch => anchors'[b] = anchors[b]
        /\ UNCHANGED <<roleVars, paused, interventions>>
    BY <2>1, CommitEffect DEF Account
  <2>3. ContractTypeOK'
    BY <1>4, <2>1, <2>2 DEF ContractTypeOK, roleVars
  <2>4. Counted'
    BY <1>1, <1>5, <2>1 DEF Counted, ContractTypeOK
  <2>5. ExecutedIsAnchored'
    <3>1. ASSUME NEW q \in executed, q # p
          PROVE  q.batch \in BatchId /\ q.batch # p.batch
      <4>1. q \in Proposal
        BY DEF ContractTypeOK
      <4>2. anchors[q.batch] = [root |-> q.root, district |-> q.district, registrar |-> Multisig]
        BY DEF ExecutedIsAnchored
      <4>3. anchors[q.batch] \in Anchor /\ q.batch \in BatchId
        BY <4>1, <4>2 DEF Anchor, Account, Proposal
      <4> QED
        BY <2>2, <4>3, NoAnchorIsNone
    <3> QED
      BY <2>1, <2>2, <3>1 DEF ExecutedIsAnchored
  <2>6. MultisigExecuted'
    <3>1. [district |-> p.district, batch |-> p.batch, root |-> p.root] = p
      BY DEF Proposal
    <3> QED
      BY <2>1, <2>2, <3>1 DEF MultisigExecuted, ProposalOf
  <2> QED
    BY <2>2, <2>3, <2>4, <2>5, <2>6 DEF Roles, roleVars
<1>6. CASE n # Threshold
  <2>1. UNCHANGED <<executed, registrars, rotation, admitted, paused, anchors, interventions>>
    BY <1>1, <1>2, <1>3, <1>6 DEF ProposeAndConfirm, Reached, anchorVars, roleVars
  <2>2. ContractTypeOK'
    BY <1>4, <2>1 DEF ContractTypeOK
  <2>3. Counted'
    <3>1. p \notin executed
      BY DEF ProposeAndConfirm, MayConfirm
    <3> QED
      BY <1>1, <1>3, <1>6, <2>1, <3>1 DEF Counted, ContractTypeOK
  <2> QED
    BY <2>1, <2>2, <2>3 DEF ExecutedIsAnchored, MultisigExecuted, ProposalOf, Roles
<1> QED
  BY <1>5, <1>6

\* A direct commit takes a batch that no proposal executed.
LEMMA DirectKeepsInv ==
    ASSUME CustodyInv, NEW a \in Signer \cup {Deployer}, NEW p \in Proposal, CommitDirectly(a, p)
    PROVE  CustodyInv'
<1> USE DEF CustodyInv
<1>1. CommitBatch(a, p) /\ UNCHANGED <<confirmed, confirmations, executed>>
  BY DEF CommitDirectly, proposalVars
<1>2. /\ anchors' \in [BatchId -> Anchor \cup {NoAnchor}]
      /\ anchors[p.batch] = NoAnchor
      /\ anchors'[p.batch] = [root |-> p.root, district |-> p.district, registrar |-> a]
      /\ \A b \in BatchId : b # p.batch => anchors'[b] = anchors[b]
      /\ UNCHANGED <<roleVars, paused, interventions>>
  BY <1>1, CommitEffect DEF Account
<1>3. a # Multisig
  BY MultiSigAssumption
<1>4. ASSUME NEW q \in executed
      PROVE  q.batch \in BatchId /\ q.batch # p.batch
  <2>1. q \in Proposal
    BY DEF ContractTypeOK
  <2>2. anchors[q.batch] = [root |-> q.root, district |-> q.district, registrar |-> Multisig]
    BY DEF ExecutedIsAnchored
  <2>3. anchors[q.batch] \in Anchor /\ q.batch \in BatchId
    BY <2>1, <2>2 DEF Anchor, Account, Proposal
  <2> QED
    BY <1>2, <2>3, NoAnchorIsNone
<1>5. ContractTypeOK'
  BY <1>1, <1>2 DEF ContractTypeOK, roleVars
<1>6. ExecutedIsAnchored'
  BY <1>1, <1>2, <1>4 DEF ExecutedIsAnchored
<1>7. MultisigExecuted'
  BY <1>1, <1>2, <1>3 DEF MultisigExecuted, ProposalOf
<1>8. Counted'
  BY <1>1 DEF Counted
<1> QED
  BY <1>2, <1>5, <1>6, <1>7, <1>8 DEF Roles, roleVars

\* Nothing is anchored, proposed or confirmed at first.
LEMMA CustodyInit == ContractInit => CustodyInv
<1> SUFFICES ASSUME ContractInit PROVE CustodyInv
  OBVIOUS
<1>1. Threshold \in Nat \ {0}
  <2>1. Cardinality(Signer) \in Nat
    BY FS_CardinalityType, MultiSigAssumption
  <2> QED
    BY <2>1, MultiSigAssumption
<1>2. ContractTypeOK
  <2>1. anchors \in [BatchId -> Anchor \cup {NoAnchor}]
    BY DEF ContractInit
  <2>2. confirmed \in [Proposal -> SUBSET Signer]
    BY DEF ContractInit
  <2>3. confirmations \in [Proposal -> 0..255]
    BY DEF ContractInit
  <2>4. registrars \subseteq Account /\ admitted \subseteq Account /\ executed \subseteq Proposal
    BY DEF ContractInit, Account
  <2>5. paused \in BOOLEAN /\ interventions \in Nat /\ rotation \in {"none", "granted", "done"}
    BY DEF ContractInit
  <2> QED
    BY <2>1, <2>2, <2>3, <2>4, <2>5 DEF ContractTypeOK
<1>3. Counted
  <2>1. Cardinality({}) = 0
    BY FS_EmptySet
  <2> QED
    BY <1>1, <2>1 DEF ContractInit, Counted
<1> QED
  BY <1>2, <1>3 DEF ContractInit, CustodyInv, ExecutedIsAnchored, MultisigExecuted, Roles

\* The admin's steps, the script's two among them, reach the roles and the pause only.
LEMMA AdminKeeps ==
    ASSUME ContractTypeOK, Roles, Admin \/ UNCHANGED contractVars
    PROVE  /\ UNCHANGED <<anchors, confirmed, confirmations, executed>>
           /\ ContractTypeOK' /\ Roles'
           /\ interventions' >= interventions
           /\ rotation = "done" => rotation' = "done"
<1> USE DEF ContractTypeOK, Roles
<1>1. CASE GrantRole
  BY <1>1 DEF GrantRole, proposalVars, Account
<1>2. CASE RevokeRole
  BY <1>2, MultiSigAssumption DEF RevokeRole, proposalVars
<1>3. CASE Pause
  <2>1. /\ UNCHANGED <<registrars, rotation, admitted, anchors, confirmed, confirmations, executed>>
        /\ paused' = TRUE /\ interventions' = interventions + 1 /\ interventions \in Nat
    BY <1>3 DEF Pause, Intervention, proposalVars, roleVars
  <2>2. interventions' \in Nat /\ interventions' > 0 /\ interventions' >= interventions
    BY <2>1
  <2> QED
    BY <2>1, <2>2
<1>4. CASE Unpause
  <2>1. /\ UNCHANGED <<registrars, rotation, admitted, anchors, confirmed, confirmations, executed>>
        /\ paused' = FALSE /\ interventions' = interventions /\ interventions \in Nat
    BY <1>4 DEF Unpause, proposalVars, roleVars
  <2>2. ~ paused' /\ paused' \in BOOLEAN
    BY <2>1, Zenon
  <2>3. interventions' >= interventions
    BY <2>1
  <2>4. Roles'
    BY <2>1, <2>2
  <2> QED
    BY <2>1, <2>2, <2>3, <2>4
<1>5. CASE \E a \in Grantee : AdminGrants(a)
  BY <1>5, MultiSigAssumption DEF AdminGrants, Intervention, proposalVars, Account
<1>6. CASE \E a \in Account : AdminRevokes(a)
  BY <1>6 DEF AdminRevokes, Intervention, proposalVars
<1>7. CASE UNCHANGED contractVars
  BY <1>7 DEF contractVars, anchorVars, roleVars, proposalVars
<1> QED
  BY <1>1, <1>2, <1>3, <1>4, <1>5, <1>6, <1>7 DEF Admin

LEMMA CustodyInductive == CustodyInv /\ [ContractNext]_contractVars => CustodyInv'
<1> SUFFICES ASSUME CustodyInv, [ContractNext]_contractVars PROVE CustodyInv'
  OBVIOUS
<1>1. ASSUME NEW p \in Proposal, NEW s \in Signer, ProposeAndConfirm(s, p)
      PROVE  CustodyInv'
  BY <1>1, ConfirmKeepsInv
<1>2. ASSUME NEW p \in Proposal, NEW a \in Signer \cup {Deployer}, CommitDirectly(a, p)
      PROVE  CustodyInv'
  BY <1>2, DirectKeepsInv
<1>3. CASE Admin \/ UNCHANGED contractVars
  <2>1. UNCHANGED <<anchors, confirmed, confirmations, executed>> /\ ContractTypeOK' /\ Roles'
    BY <1>3, AdminKeeps DEF CustodyInv
  <2> QED
    BY <2>1 DEF CustodyInv, Counted, ExecutedIsAnchored, MultisigExecuted, ProposalOf
<1> QED
  BY <1>1, <1>2, <1>3 DEF ContractNext

LEMMA CustodyInvariant == ContractSpec => []CustodyInv
BY CustodyInit, CustodyInductive, PTL DEF ContractSpec

\* Every mapping and the uint8 counter keep their types.
THEOREM ContractTypes == ContractSpec => []ContractTypeOK
<1>1. CustodyInv => ContractTypeOK
  BY DEF CustodyInv
<1> QED
  BY <1>1, CustodyInvariant, PTL

\* Whatever the number of signers and the threshold, a batch the multisig
\* anchored was confirmed by at least threshold different signers.
THEOREM ThresholdCustody == ContractSpec => []ThresholdSigned
<1>1. CustodyInv => ThresholdSigned
  <2> SUFFICES ASSUME CustodyInv, NEW b \in BatchId,
                      anchors[b] # NoAnchor, anchors[b].registrar = Multisig
               PROVE  /\ ProposalOf(b) \in executed
                      /\ Cardinality(confirmed[ProposalOf(b)]) >= Threshold
    BY DEF ThresholdSigned
  <2>1. ProposalOf(b) \in executed /\ ProposalOf(b) \in Proposal
    BY DEF CustodyInv, MultisigExecuted, ContractTypeOK
  <2>2. Cardinality(confirmed[ProposalOf(b)]) = Threshold
    BY <2>1 DEF CustodyInv, Counted
  <2>3. Threshold \in Nat
    <3>1. Cardinality(Signer) \in Nat
      BY FS_CardinalityType, MultiSigAssumption
    <3> QED
      BY <3>1, MultiSigAssumption
  <2> QED
    BY <2>1, <2>2, <2>3
<1> QED
  BY <1>1, CustodyInvariant, PTL

\* The unchecked uint8 addition is safe for every threshold a uint8 can hold.
THEOREM CounterIsExact == ContractSpec => []CountIsDistinctSigners
<1>1. CustodyInv => CountIsDistinctSigners
  BY DEF CustodyInv, Counted, CountIsDistinctSigners
<1> QED
  BY <1>1, CustodyInvariant, PTL

\* `executed` and the anchor move together, and rivals for a batch exclude each
\* other.
THEOREM ExecutionIsAtomic == ContractSpec => []ExecutedIsAnchored
<1>1. CustodyInv => ExecutedIsAnchored
  BY DEF CustodyInv
<1> QED
  BY <1>1, CustodyInvariant, PTL

\* What a step does to one batch's anchor.
LEMMA AnchorStep ==
    ASSUME CustodyInv, [ContractNext]_contractVars, NEW b \in BatchId
    PROVE  \/ anchors'[b] = anchors[b]
           \/ /\ anchors[b] = NoAnchor
              /\ \E a \in registrars \ {Multisig} : anchors'[b].registrar = a
           \/ /\ anchors[b] = NoAnchor
              /\ anchors'[b].registrar = Multisig /\ ProposalOf(b)' \in executed'
<1>1. ASSUME NEW p \in Proposal, NEW s \in Signer, ProposeAndConfirm(s, p),
             anchors'[b] # anchors[b]
      PROVE  /\ anchors[b] = NoAnchor
             /\ anchors'[b].registrar = Multisig /\ ProposalOf(b)' \in executed'
  <2>1. executed' = executed \cup {p} /\ CommitBatch(Multisig, p)
    BY <1>1 DEF ProposeAndConfirm, anchorVars
  <2>2. /\ anchors[p.batch] = NoAnchor
        /\ anchors'[p.batch] = [root |-> p.root, district |-> p.district, registrar |-> Multisig]
        /\ b = p.batch
    BY <1>1, <2>1, CommitEffect DEF Account, CustodyInv
  <2>3. [district |-> p.district, batch |-> p.batch, root |-> p.root] = p
    BY DEF Proposal
  <2> QED
    BY <2>1, <2>2, <2>3 DEF ProposalOf
<1>2. ASSUME NEW p \in Proposal, NEW a \in Signer \cup {Deployer}, CommitDirectly(a, p),
             anchors'[b] # anchors[b]
      PROVE  /\ anchors[b] = NoAnchor
             /\ \E c \in registrars \ {Multisig} : anchors'[b].registrar = c
  <2>1. CommitBatch(a, p) /\ a \in registrars /\ a # Multisig
    BY <1>2, MultiSigAssumption DEF CommitDirectly, CommitBatch, MayCommit
  <2>2. /\ anchors[p.batch] = NoAnchor
        /\ anchors'[p.batch] = [root |-> p.root, district |-> p.district, registrar |-> a]
        /\ b = p.batch
    BY <1>2, <2>1, CommitEffect DEF Account, CustodyInv
  <2> QED
    BY <2>1, <2>2
<1>3. CASE Admin \/ UNCHANGED contractVars
  BY <1>3, AdminKeeps DEF CustodyInv
<1> QED
  BY <1>1, <1>2, <1>3 DEF ContractNext

\* No step overwrites an anchor.
THEOREM AnchorsFinal == ContractSpec => AnchorsAreFinal
<1>1. CustodyInv /\ [ContractNext]_contractVars =>
        [\A b \in BatchId : anchors[b] # NoAnchor => anchors'[b] = anchors[b]]_contractVars
  BY AnchorStep
<1> QED
  BY <1>1, CustodyInvariant, PTL DEF ContractSpec, AnchorsAreFinal

\* After the rotation only the threshold of the signers anchors, or whom the admin let in.
THEOREM BypassIsTheAdmins == ContractSpec => BypassNeedsTheAdmin
<1>1. ASSUME CustodyInv, [ContractNext]_contractVars, NEW b \in BatchId,
             rotation = "done", anchors[b] = NoAnchor, anchors'[b] # NoAnchor
      PROVE  \/ anchors'[b].registrar = Multisig /\ ProposalOf(b)' \in executed'
             \/ anchors'[b].registrar \in admitted \ {Multisig}
  <2>1. registrars \ {Multisig} \subseteq admitted
    BY <1>1 DEF CustodyInv, Roles
  <2> QED
    BY <1>1, <2>1, AnchorStep
<1>2. CustodyInv /\ [ContractNext]_contractVars =>
        [\A b \in BatchId :
          /\ rotation = "done"
          /\ anchors[b] = NoAnchor /\ anchors'[b] # NoAnchor
          => \/ anchors'[b].registrar = Multisig /\ ProposalOf(b)' \in executed'
             \/ anchors'[b].registrar \in admitted \ {Multisig}]_contractVars
  BY <1>1
<1> QED
  BY <1>2, CustodyInvariant, PTL DEF ContractSpec, BypassNeedsTheAdmin

-----------------------------------------------------------------------------
(***************************************************************************)
(* The client and the daemon.                                              *)
(***************************************************************************)

\* While it signs, the daemon is at an event that exists.
AtAnEvent ==
    daemon.mode \in {"signing", "waiting"} =>
        daemon.event \in 1..daemon.current /\ daemon.current <= Len(created)

ConfirmedIsThere == \A p \in Flushed : calls[p] = "confirmed" => anchors[p.batch] # NoAnchor

\* The backend confirms only what it flushed, and the daemon only what another has:
\* the first confirmation of a proposal is never one of the daemon's accounts'.
Prompted ==
    /\ \A tx \in mempool : /\ tx[1] = Project => tx[2] \in Flushed
                           /\ tx[1] \in Range(CoSigners) => confirmed[tx[2]] # {}
    /\ \A i \in DOMAIN created : confirmed[created[i]] # {}
    /\ \A p \in Proposal : /\ Project \in confirmed[p] => p \in Flushed
                           /\ confirmed[p] # {} => confirmed[p] \ Range(CoSigners) # {}

CosignInv ==
    /\ CosignTypeOK
    /\ CustodyInv
    /\ AtAnEvent
    /\ ConfirmedIsThere
    /\ Prompted

-----------------------------------------------------------------------------
\* A step of the composition is a step of the contracts or leaves them alone.
LEMMA CosignStep ==
    ASSUME CosignTypeOK, [CosignNext]_cosignVars
    PROVE  [ContractNext]_contractVars
<1>1. ASSUME NEW tx \in mempool, Mine(tx)
      PROVE  [ContractNext]_contractVars
  <2>1. tx[1] \in Signer /\ tx[2] \in Proposal
    BY DEF CosignTypeOK
  <2> QED
    BY <1>1, <2>1 DEF Mine, ContractNext
<1>2. ASSUME NEW s \in Signer, NEW p \in Proposal, SignElsewhere(s, p)
      PROVE  [ContractNext]_contractVars
  BY <1>2 DEF SignElsewhere, ContractNext
<1>3. CASE Administer
  BY <1>3 DEF Administer, ContractNext
<1>4. CASE Client
  BY <1>4 DEF Client, Commit, ReceiptArrives, ReceiptLate, WaitRaises, SeesAnchor, GivesUp, CallMoves
<1>5. CASE StartDaemon \/ StopDaemon \/ Follow \/ SendFails \/ ConfirmationLate
  BY <1>5 DEF StartDaemon, StopDaemon, Follow, Poll, SkipExecuted, SendConfirmation,
     ConfirmationMined, SendFails, ConfirmationLate
<1>6. CASE UNCHANGED cosignVars
  BY <1>6 DEF cosignVars
<1> QED
  BY <1>1, <1>2, <1>3, <1>4, <1>5, <1>6 DEF CosignNext

LEMMA EmittedType ==
    ASSUME created \in Seq(Proposal), NEW p \in Proposal
    PROVE  Emitted(p) \in Seq(Proposal) /\ Len(Emitted(p)) >= Len(created)
BY DEF Emitted

\* The daemon's moves inside a range.
LEMMA NextAccountKeeps ==
    ASSUME CosignTypeOK, AtAnEvent, daemon.mode \in {"signing", "waiting"},
           daemon' = NextAccount \/ daemon' = NextEvent, created' = created
    PROVE  daemon' \in Daemon /\ daemon'.last <= Len(created') /\ AtAnEvent'
<1>1. /\ daemon \in Daemon /\ Len(created) \in Nat
      /\ daemon.event \in 1..daemon.current /\ daemon.current <= Len(created)
      /\ Len(CoSigners) \in Nat /\ 1 \in 1..Len(CoSigners)
  BY CoSigningAssumption DEF CosignTypeOK, AtAnEvent
<1>2. CASE daemon' = NextEvent
  <2>1. CASE daemon.event < daemon.current
    <3>1. daemon' = [daemon EXCEPT !.mode = "signing", !.event = daemon.event + 1, !.account = 1]
      BY <1>2, <2>1 DEF NextEvent
    <3>2. daemon.event + 1 \in 1..daemon.current /\ daemon.event + 1 \in Nat
      BY <1>1, <2>1 DEF Daemon
    <3> QED
      BY <1>1, <3>1, <3>2 DEF Daemon, AtAnEvent, CosignTypeOK
  <2>2. CASE ~ (daemon.event < daemon.current)
    <3>1. daemon' = Outside("polling", daemon.current)
      BY <1>2, <2>2 DEF NextEvent
    <3> QED
      BY <1>1, <3>1 DEF Outside, Daemon, AtAnEvent
  <2> QED
    BY <2>1, <2>2
<1>3. CASE daemon.account < Len(CoSigners) /\ daemon' = NextAccount
  <2>1. daemon' = [daemon EXCEPT !.mode = "signing", !.account = daemon.account + 1]
    BY <1>3 DEF NextAccount
  <2>2. daemon.account + 1 \in 1..Len(CoSigners)
    BY <1>1, <1>3 DEF Daemon
  <2> QED
    BY <1>1, <2>1, <2>2 DEF Daemon, AtAnEvent, CosignTypeOK
<1> QED
  BY <1>2, <1>3 DEF NextAccount

LEMMA CosignInvInit == CosignInit => CosignInv
<1> SUFFICES ASSUME CosignInit PROVE CosignInv
  OBVIOUS
<1>1. CustodyInv
  BY CustodyInit DEF CosignInit
<1>2. daemon \in Daemon /\ daemon.last = 0 /\ daemon.mode = "down"
  <2>1. 1 \in 1..Len(CoSigners)
    BY CoSigningAssumption
  <2> QED
    BY <2>1 DEF CosignInit, Outside, Daemon
<1>3. CosignTypeOK
  BY <1>1, <1>2, CoSigningAssumption DEF CosignInit, CosignTypeOK, CustodyInv
<1> QED
  BY <1>1, <1>2, <1>3 DEF CosignInv, CosignInit, ContractInit, AtAnEvent, ConfirmedIsThere, Prompted

\* No step takes an anchor away from a batch a report counts on.
LEMMA AnchorsStay ==
    ASSUME CustodyInv, [ContractNext]_contractVars, NEW b \in BatchId, anchors[b] # NoAnchor
    PROVE  anchors'[b] # NoAnchor
BY AnchorStep

LEMMA CoSignersAreOthers ==
    \A k \in 1..Len(CoSigners) :
        CoSigners[k] \in Signer /\ CoSigners[k] # Project /\ CoSigners[k] \in Range(CoSigners)
BY CoSigningAssumption DEF Range

LEMMA ProjectSignsAlone == Project \notin Range(CoSigners)
BY CoSigningAssumption DEF Range

\* One more confirmation, of the backend for what it flushed, of the daemon for what
\* somebody confirmed, or of anybody else.
LEMMA ConfirmPrompted ==
    ASSUME CosignTypeOK, Prompted, NEW s \in Signer, NEW p \in Proposal,
           s = Project => p \in Flushed, s \in Range(CoSigners) => confirmed[p] # {},
           confirmed' = [confirmed EXCEPT ![p] = @ \cup {s}],
           mempool' \subseteq mempool, created' = created \/ created' = Append(created, p)
    PROVE  Prompted'
<1>1. /\ confirmed \in [Proposal -> SUBSET Signer] /\ mempool \subseteq Signer \X Proposal
      /\ created \in Seq(Proposal)
  BY DEF CosignTypeOK, ContractTypeOK
<1>2. \A q \in Proposal : confirmed'[q] = IF q = p THEN confirmed[p] \cup {s} ELSE confirmed[q]
  BY <1>1
<1>3. \A q \in Proposal : confirmed[q] # {} => confirmed'[q] # {}
  BY <1>2
<1>4. \A tx \in mempool' : /\ tx[1] = Project => tx[2] \in Flushed
                           /\ tx[1] \in Range(CoSigners) => confirmed'[tx[2]] # {}
  BY <1>1, <1>3 DEF Prompted
<1>5. \A i \in DOMAIN created' : confirmed'[created'[i]] # {}
  <2> SUFFICES ASSUME NEW i \in DOMAIN created' PROVE confirmed'[created'[i]] # {}
    OBVIOUS
  <2>1. CASE i \in DOMAIN created /\ created'[i] = created[i]
    BY <1>1, <1>3, <2>1 DEF Prompted
  <2>2. CASE created'[i] = p
    BY <1>2, <2>2
  <2> QED
    BY <1>1, <2>1, <2>2
<1>6. ASSUME NEW q \in Proposal
      PROVE  /\ Project \in confirmed'[q] => q \in Flushed
             /\ confirmed'[q] # {} => confirmed'[q] \ Range(CoSigners) # {}
  <2>1. CASE q = p /\ s \in Range(CoSigners)
    BY <1>2, <2>1, ProjectSignsAlone DEF Prompted
  <2>2. CASE q = p /\ s \notin Range(CoSigners)
    BY <1>2, <2>2 DEF Prompted
  <2>3. CASE q # p
    BY <1>2, <2>3 DEF Prompted
  <2> QED
    BY <2>1, <2>2, <2>3
<1> QED
  BY <1>4, <1>5, <1>6 DEF Prompted

LEMMA PromptedKept ==
    ASSUME CosignInv, [CosignNext]_cosignVars
    PROVE  Prompted'
<1>1. CosignTypeOK /\ Prompted /\ CustodyInv /\ AtAnEvent
  BY DEF CosignInv
<1>2. ASSUME NEW tx \in mempool, Mine(tx)
      PROVE  Prompted'
  <2>1. tx[1] \in Signer /\ tx[2] \in Proposal
    BY <1>1 DEF CosignTypeOK
  <2>2. /\ tx[1] = Project => tx[2] \in Flushed
        /\ tx[1] \in Range(CoSigners) => confirmed[tx[2]] # {}
    BY <1>1, <1>2 DEF Prompted
  <2>3. CASE ProposeAndConfirm(tx[1], tx[2]) /\ created' = Emitted(tx[2])
    <3>1. confirmed' = [confirmed EXCEPT ![tx[2]] = @ \cup {tx[1]}] /\ mempool' \subseteq mempool
      BY <1>2, <2>3 DEF ProposeAndConfirm, Mine
    <3>2. created' = created \/ created' = Append(created, tx[2])
      BY <2>3 DEF Emitted
    <3> QED
      BY <1>1, <2>1, <2>2, <3>1, <3>2, ConfirmPrompted
  <2>4. CASE UNCHANGED <<contractVars, created>>
    BY <1>1, <1>2, <2>4 DEF Mine, contractVars, proposalVars, Prompted
  <2> QED
    BY <1>2, <2>3, <2>4 DEF Mine
<1>3. ASSUME NEW s \in Signer, NEW p \in Proposal, SignElsewhere(s, p)
      PROVE  Prompted'
  <2>1. /\ s # Project /\ s \notin Range(CoSigners) /\ mempool' \subseteq mempool
        /\ confirmed' = [confirmed EXCEPT ![p] = @ \cup {s}]
        /\ created' = created \/ created' = Append(created, p)
    BY <1>3 DEF SignElsewhere, ProposeAndConfirm, Emitted
  <2> QED
    BY <1>1, <2>1, ConfirmPrompted
<1>4. CASE Administer
  <2>1. UNCHANGED <<confirmed, created, mempool>>
    <3>1. CASE Admin
      BY <1>1, <1>4, <3>1, AdminKeeps DEF Administer, CustodyInv
    <3>2. CASE ~ Admin
      BY <1>4, <3>2 DEF Administer, CommitDirectly, proposalVars
    <3> QED
      BY <3>1, <3>2
  <2> QED
    BY <1>1, <2>1 DEF Prompted
<1>5. ASSUME NEW p \in Flushed, Commit(p)
      PROVE  Prompted'
  <2>1. mempool' = mempool \cup {<<Project, p>>} /\ UNCHANGED <<confirmed, created>>
    BY <1>5 DEF Commit, contractVars, proposalVars
  <2> QED
    BY <1>1, <2>1, ProjectSignsAlone DEF Prompted
<1>6. CASE SendConfirmation
  <2>1. mempool' = mempool \cup {Confirmation} /\ UNCHANGED <<confirmed, created>>
    BY <1>6 DEF SendConfirmation, contractVars, proposalVars
  <2>2. Confirmation[1] # Project /\ Confirmation[2] = created[daemon.event]
    BY <1>1, CoSignersAreOthers DEF Confirmation, Seen, CosignTypeOK, Daemon
  <2>3. daemon.event \in DOMAIN created
    <3>1. created \in Seq(Proposal) /\ daemon \in Daemon
      BY <1>1 DEF CosignTypeOK
    <3>2. daemon.event \in 1..daemon.current /\ daemon.current <= Len(created)
      BY <1>1, <1>6 DEF AtAnEvent, SendConfirmation
    <3> QED
      BY <3>1, <3>2 DEF Daemon
  <2>4. confirmed[Confirmation[2]] # {}
    BY <1>1, <2>2, <2>3 DEF Prompted
  <2> HIDE DEF Confirmation
  <2> QED
    BY <1>1, <2>1, <2>2, <2>4 DEF Prompted
<1>7. ASSUME UNCHANGED <<contractVars, created, mempool>>
      PROVE  Prompted'
  BY <1>1, <1>7 DEF contractVars, proposalVars, Prompted
<1>8. ASSUME NEW p \in Flushed,
             ReceiptArrives(p) \/ ReceiptLate(p) \/ WaitRaises(p) \/ SeesAnchor(p) \/ GivesUp(p)
      PROVE  Prompted'
  BY <1>7, <1>8 DEF ReceiptArrives, ReceiptLate, WaitRaises, SeesAnchor, GivesUp, CallMoves
<1>9. CASE StartDaemon \/ StopDaemon \/ Poll \/ SkipExecuted \/ ConfirmationMined \/ SendFails
           \/ ConfirmationLate \/ UNCHANGED cosignVars
  BY <1>7, <1>9 DEF StartDaemon, StopDaemon, Poll, SkipExecuted, ConfirmationMined, SendFails,
     ConfirmationLate, cosignVars
<1> QED
  BY <1>2, <1>3, <1>4, <1>5, <1>6, <1>8, <1>9 DEF CosignNext, Client, Follow

LEMMA CosignInvInductive == CosignInv /\ [CosignNext]_cosignVars => CosignInv'
<1> SUFFICES ASSUME CosignInv, [CosignNext]_cosignVars PROVE CosignInv'
  OBVIOUS
<1>1. [ContractNext]_contractVars
  BY CosignStep DEF CosignInv
<1>2. CustodyInv' /\ ContractTypeOK' /\ Prompted'
  BY <1>1, CustodyInductive, PromptedKept DEF CosignInv, CustodyInv
<1>3. ASSUME NEW p \in Flushed, anchors[p.batch] # NoAnchor
      PROVE  anchors'[p.batch] # NoAnchor
  <2>1. p.batch \in BatchId
    BY CoSigningAssumption DEF Proposal
  <2> QED
    BY <1>1, <1>3, <2>1, AnchorsStay DEF CosignInv
<1> USE CoSigningAssumption DEF CosignInv, CosignTypeOK
<1>4. ASSUME created' \in Seq(Proposal), Len(created') >= Len(created),
             mempool' \subseteq Signer \X Proposal, UNCHANGED <<daemon, calls, troubles>>
      PROVE  CosignInv'
  BY <1>2, <1>3, <1>4 DEF AtAnEvent, ConfirmedIsThere, Daemon
<1>5. ASSUME NEW tx \in mempool, Mine(tx)
      PROVE  CosignInv'
  <2>1. tx[2] \in Proposal
    OBVIOUS
  <2>2. created' \in Seq(Proposal) /\ Len(created') >= Len(created)
    <3>1. CASE created' = Emitted(tx[2])
      BY <2>1, <3>1, EmittedType
    <3>2. CASE created' = created
      <4>1. Len(created) \in Nat
        OBVIOUS
      <4> QED
        BY <3>2, <4>1
    <3> QED
      BY <1>5, <3>1, <3>2 DEF Mine
  <2>3. mempool' \subseteq Signer \X Proposal /\ UNCHANGED <<daemon, calls, troubles>>
    BY <1>5 DEF Mine
  <2> QED
    BY <1>4, <2>2, <2>3
<1>6. ASSUME NEW s \in Signer, NEW p \in Proposal, SignElsewhere(s, p)
      PROVE  CosignInv'
  BY <1>4, <1>6, EmittedType DEF SignElsewhere
<1>7. CASE Administer \/ UNCHANGED cosignVars
  BY <1>4, <1>7 DEF Administer, cosignVars
<1>8. ASSUME NEW p \in Flushed,
             Commit(p) \/ ReceiptArrives(p) \/ ReceiptLate(p) \/ WaitRaises(p) \/ SeesAnchor(p) \/ GivesUp(p)
      PROVE  CosignInv'
  <2>1. UNCHANGED <<created, daemon>> /\ troubles' \in 0..MaxTroubles
    BY <1>8 DEF Commit, ReceiptArrives, ReceiptLate, WaitRaises, SeesAnchor, GivesUp, CallMoves, Trouble
  <2>2. mempool' \subseteq Signer \X Proposal
    BY <1>8 DEF Commit, ReceiptArrives, ReceiptLate, WaitRaises, SeesAnchor, GivesUp, CallMoves
  <2>3. calls' \in [Flushed -> {"none", "sent", "polling", "confirmed", "submitted", "raised"}]
    BY <1>8 DEF Commit, ReceiptArrives, ReceiptLate, WaitRaises, SeesAnchor, GivesUp, CallMoves
  <2>4. ConfirmedIsThere'
    <3>1. CASE SeesAnchor(p)
      BY <1>3, <3>1 DEF SeesAnchor, CallMoves, ConfirmedIsThere
    <3>2. CASE ~ SeesAnchor(p)
      BY <1>3, <1>8, <3>2 DEF Commit, ReceiptArrives, ReceiptLate, WaitRaises, GivesUp, CallMoves,
         ConfirmedIsThere
    <3> QED
      BY <3>1, <3>2
  <2> QED
    BY <1>2, <2>1, <2>2, <2>3, <2>4 DEF AtAnEvent
<1>9. CASE StartDaemon \/ StopDaemon \/ Poll
  <2>1. UNCHANGED <<created, mempool, calls>> /\ troubles' \in 0..MaxTroubles
    BY <1>9 DEF StartDaemon, StopDaemon, Poll, Trouble
  <2>2. daemon' \in Daemon /\ daemon'.last <= Len(created) /\ AtAnEvent'
    <3>1. 1 \in 1..Len(CoSigners) /\ Len(created) \in Nat
      OBVIOUS
    <3>2. CASE StartDaemon
      BY <2>1, <3>1, <3>2 DEF StartDaemon, Outside, Daemon, AtAnEvent
    <3>3. CASE StopDaemon
      BY <2>1, <3>1, <3>3 DEF StopDaemon, Outside, Daemon, AtAnEvent
    <3>4. CASE Poll
      <4>1. daemon' = [daemon EXCEPT !.mode = "signing", !.current = Len(created),
                                     !.event = daemon.last + 1, !.account = 1]
        BY <3>4 DEF Poll
      <4>2. daemon.last + 1 \in 1..Len(created) /\ daemon.last + 1 \in Nat
        BY <3>1, <3>4 DEF Poll, Daemon
      <4>3. /\ daemon' \in Daemon /\ daemon'.last = daemon.last
            /\ daemon'.event = daemon.last + 1 /\ daemon'.current = Len(created)
        BY <3>1, <4>1, <4>2 DEF Daemon
      <4>4. AtAnEvent'
        BY <2>1, <3>1, <4>2, <4>3 DEF AtAnEvent
      <4>5. daemon.last <= Len(created)
        OBVIOUS
      <4> QED
        BY <4>3, <4>4, <4>5
    <3> QED
      BY <1>9, <3>2, <3>3, <3>4
  <2> QED
    BY <1>2, <1>3, <2>1, <2>2 DEF ConfirmedIsThere
<1>10. CASE SkipExecuted \/ SendFails \/ ConfirmationMined \/ ConfirmationLate
  <2>1. UNCHANGED <<created, mempool, calls>> /\ troubles' \in 0..MaxTroubles
    BY <1>10 DEF SkipExecuted, SendFails, ConfirmationMined, ConfirmationLate, Trouble
  <2>2. daemon' \in Daemon /\ daemon'.last <= Len(created') /\ AtAnEvent'
    BY <1>10, <2>1, NextAccountKeeps DEF SkipExecuted, SendFails, ConfirmationMined, ConfirmationLate
  <2> QED
    BY <1>2, <1>3, <2>1, <2>2 DEF ConfirmedIsThere
<1>11. CASE SendConfirmation
  <2>1. UNCHANGED <<created, calls>> /\ troubles' \in 0..MaxTroubles
    BY <1>11 DEF SendConfirmation, Trouble
  <2>2. Confirmation \in Signer \X Proposal
    <3>1. daemon.event \in 1..Len(created)
      BY <1>11 DEF SendConfirmation, AtAnEvent, Daemon
    <3>2. created[daemon.event] \in Proposal /\ CoSigners[daemon.account] \in Signer
      BY <3>1 DEF Daemon
    <3> QED
      BY <3>2 DEF Confirmation, Seen
  <2>3. daemon' \in Daemon /\ daemon'.last <= Len(created) /\ AtAnEvent'
    <3>1. daemon' = [daemon EXCEPT !.mode = "waiting"] /\ daemon.mode = "signing"
      BY <1>11 DEF SendConfirmation
    <3>2. /\ daemon' \in Daemon /\ daemon'.last = daemon.last
          /\ daemon'.event = daemon.event /\ daemon'.current = daemon.current
      BY <3>1 DEF Daemon
    <3>3. daemon.last <= Len(created)
      OBVIOUS
    <3>4. AtAnEvent'
      BY <2>1, <3>1, <3>2 DEF AtAnEvent
    <3> QED
      BY <3>2, <3>3, <3>4
  <2> QED
    BY <1>2, <1>3, <1>11, <2>1, <2>2, <2>3 DEF ConfirmedIsThere, SendConfirmation
<1> QED
  BY <1>5, <1>6, <1>7, <1>8, <1>9, <1>10, <1>11 DEF CosignNext, Client, Follow

LEMMA CosignInvariant == CosignSpec => []CosignInv
BY CosignInvInit, CosignInvInductive, PTL DEF CosignSpec

-----------------------------------------------------------------------------
\* The daemon stays within the events there are, with any accounts and failures.
THEOREM CosignTypes == CosignSpec => []CosignTypeOK
<1>1. CosignInv => CosignTypeOK
  BY DEF CosignInv
<1> QED
  BY <1>1, CosignInvariant, PTL

\* Client and daemon implement ContractSpec: whatever they send, lose or repeat,
\* the contracts take only steps of their own, and every theorem about them holds.
THEOREM CosigningImplementsContracts == CosignSpec => ContractSpec
<1>1. CosignInit => ContractInit
  BY DEF CosignInit
<1>2. CosignInv /\ [CosignNext]_cosignVars => [ContractNext]_contractVars
  BY CosignStep DEF CosignInv
<1> QED
  BY <1>1, <1>2, CosignInvariant, PTL DEF CosignSpec, ContractSpec

\* CONFIRMED is never said of nothing: an anchor stands for the batch id, the multisig's
\* own with the threshold behind its root, and if the root is a rival's, the backend
\* did not sign it and a signer who runs neither program did.
THEOREM ReportsAreTrue == CosignSpec => []ReportedIsAnchored
<1>1. CosignInv => ReportedIsAnchored
  <2> SUFFICES ASSUME CosignInv, NEW p \in Flushed, calls[p] = "confirmed"
               PROVE  LET a == anchors[p.batch]
                          q == ProposalOf(p.batch)
                      IN  /\ a # NoAnchor
                          /\ a.registrar = Multisig =>
                                q \in executed /\ Cardinality(confirmed[q]) >= Threshold
                          /\ a.registrar = Multisig /\ q # p =>
                                /\ Project \notin confirmed[q]
                                /\ \E s \in confirmed[q] : s \notin {Project} \cup Range(CoSigners)
    BY DEF ReportedIsAnchored
  <2> DEFINE q == ProposalOf(p.batch)
  <2>1. anchors[p.batch] # NoAnchor /\ p.batch \in BatchId
    BY CoSigningAssumption DEF CosignInv, ConfirmedIsThere, Proposal
  <2>2. q.batch = p.batch
    BY DEF ProposalOf
  <2>3. ASSUME anchors[p.batch].registrar = Multisig
        PROVE  q \in executed /\ q \in Proposal
    BY <2>1, <2>3 DEF CosignInv, CustodyInv, MultisigExecuted, ContractTypeOK
  <2> HIDE DEF q
  <2>4. ASSUME anchors[p.batch].registrar = Multisig
        PROVE  /\ Cardinality(confirmed[q]) >= Threshold
               /\ confirmed[q] # {}
    <3>1. Cardinality(confirmed[q]) = Threshold /\ Threshold \in Nat \ {0}
      <4>1. Cardinality(Signer) \in Nat
        BY FS_CardinalityType, MultiSigAssumption
      <4> QED
        BY <2>3, <2>4, <4>1, MultiSigAssumption DEF CosignInv, CustodyInv, Counted
    <3> QED
      BY <3>1, FS_EmptySet
  <2>5. ASSUME anchors[p.batch].registrar = Multisig, q # p
        PROVE  /\ Project \notin confirmed[q]
               /\ \E s \in confirmed[q] : s \notin {Project} \cup Range(CoSigners)
    <3>1. q \notin Flushed
      BY <2>2, <2>5, CoSigningAssumption
    <3>2. Project \notin confirmed[q] /\ confirmed[q] \ Range(CoSigners) # {}
      BY <2>3, <2>4, <2>5, <3>1 DEF CosignInv, Prompted
    <3> QED
      BY <3>2
  <2> QED
    BY <2>1, <2>3, <2>4, <2>5 DEF q
<1> QED
  BY <1>1, CosignInvariant, PTL

-----------------------------------------------------------------------------
(***************************************************************************)
(* That no proposal is passed over.                                        *)
(***************************************************************************)

\* The accounts whose confirmation of the event is behind the daemon.
Done(k) == \/ k < daemon.account
           \/ k = daemon.account /\ daemon.mode = "waiting" /\ Confirmation \notin mempool

\* A proposal whose confirmation could not execute, or need not.
Closed(p) == anchors[p.batch] # NoAnchor \/ p.root = ZeroRoot

SignedSoFar ==
    Signing /\ Disturbances = 0 =>
        Closed(Seen) \/ \A k \in 1..Len(CoSigners) : Done(k) => CoSigners[k] \in confirmed[Seen]

\* The daemon runs only after the rotation: until the admin intervenes, a refused
\* commit has no other reason than the proposal.
Rotated  == daemon.mode # "down" => rotation = "done"

FollowInv ==
    /\ CosignInv
    /\ Rotated
    /\ SignedSoFar

\* What the contracts never take back.
LEMMA ContractsOnlyAdd ==
    ASSUME CustodyInv, [ContractNext]_contractVars
    PROVE  /\ \A p \in Proposal : confirmed[p] \subseteq confirmed'[p] /\ (Closed(p) => Closed(p)')
           /\ rotation = "done" => rotation' = "done"
           /\ interventions \in Nat /\ interventions' \in Nat /\ interventions' >= interventions
<1>1. interventions \in Nat /\ confirmed \in [Proposal -> SUBSET Signer]
  BY DEF CustodyInv, ContractTypeOK
<1>2. ASSUME NEW p \in Proposal, Closed(p)
      PROVE  Closed(p)'
  <2>1. p.batch \in BatchId
    BY DEF Proposal
  <2> QED
    BY <1>2, <2>1, AnchorsStay DEF Closed
<1>3. ASSUME NEW p \in Proposal, NEW s \in Signer, ProposeAndConfirm(s, p)
      PROVE  confirmed' = [confirmed EXCEPT ![p] = @ \cup {s}] /\ UNCHANGED <<rotation, interventions>>
  BY <1>3 DEF ProposeAndConfirm, CommitBatch, anchorVars, roleVars
<1>4. ASSUME NEW p \in Proposal, NEW a, CommitDirectly(a, p)
      PROVE  UNCHANGED <<confirmed, rotation, interventions>>
  BY <1>4 DEF CommitDirectly, CommitBatch, proposalVars, roleVars
<1>5. ASSUME Admin \/ UNCHANGED contractVars
      PROVE  /\ UNCHANGED confirmed /\ interventions' \in Nat /\ interventions' >= interventions
             /\ rotation = "done" => rotation' = "done"
  <2>1. ContractTypeOK' /\ UNCHANGED confirmed /\ interventions' >= interventions
        /\ (rotation = "done" => rotation' = "done")
    BY <1>5, AdminKeeps DEF CustodyInv
  <2> QED
    BY <2>1 DEF ContractTypeOK
<1> QED
  BY <1>1, <1>2, <1>3, <1>4, <1>5 DEF ContractNext

\* The event the daemon is at stays the same while others append.
LEMMA SeenStays ==
    ASSUME CosignInv, Signing, daemon' = daemon,
           \/ created' = created \/ \E p \in Proposal : created' = Append(created, p)
    PROVE  Seen \in Proposal /\ Seen' = Seen /\ Confirmation' = Confirmation
<1>1. daemon.event \in 1..Len(created) /\ created \in Seq(Proposal)
  <2>1. daemon.event \in 1..daemon.current /\ daemon.current <= Len(created)
    BY DEF CosignInv, AtAnEvent, Signing
  <2>2. daemon.current \in Nat /\ Len(created) \in Nat /\ created \in Seq(Proposal)
    BY DEF CosignInv, CosignTypeOK, Daemon
  <2> QED
    BY <2>1, <2>2
<1>2. created'[daemon.event] = created[daemon.event]
  BY <1>1
<1> QED
  BY <1>1, <1>2 DEF Seen, Confirmation

\* Failed calls, stops and interventions of the admin are only ever counted up.
LEMMA DisturbancesOnlyGrow ==
    ASSUME FollowInv, [CosignNext]_cosignVars
    PROVE  /\ Disturbances' = 0 => Disturbances = 0 /\ troubles' = troubles /\ interventions = 0
           /\ Trouble => Disturbances' # 0
<1>1. CosignInv /\ CosignInv' /\ CustodyInv /\ [ContractNext]_contractVars
  BY CosignInvInductive, CosignStep DEF FollowInv, CosignInv
<1>2. troubles \in Nat /\ troubles' \in Nat
  BY <1>1, CoSigningAssumption DEF CosignInv, CosignTypeOK
<1>3. interventions \in Nat /\ interventions' \in Nat /\ interventions' >= interventions
  BY <1>1, ContractsOnlyAdd
<1>4. troubles' = troubles \/ troubles' = troubles + 1
  BY DEF CosignNext, Mine, SignElsewhere, Administer, Client, Commit, ReceiptArrives, ReceiptLate,
     WaitRaises, SeesAnchor, GivesUp, StartDaemon, StopDaemon, Follow, Poll, SkipExecuted,
     SendConfirmation, SendFails, ConfirmationMined, ConfirmationLate, cosignVars, Trouble
<1>5. \A a, b \in Nat : a + b = 0 <=> a = 0 /\ b = 0
  OBVIOUS
<1>6. /\ Disturbances = 0 <=> troubles = 0 /\ interventions = 0
      /\ Disturbances' = 0 <=> troubles' = 0 /\ interventions' = 0
  BY <1>2, <1>3, <1>5 DEF Disturbances
<1>7. ASSUME Trouble
      PROVE  troubles' # 0
  BY <1>2, <1>7 DEF Trouble
<1>8. ASSUME troubles' = 0, interventions' = 0
      PROVE  troubles = 0 /\ interventions = 0
  BY <1>2, <1>3, <1>4, <1>8
<1> QED
  BY <1>6, <1>7, <1>8

\* Steps that leave the daemon where it is: only the mining of the confirmation it
\* waits for can add an account to those behind it.
LEMMA OthersKeepSigned ==
    ASSUME FollowInv, [CosignNext]_cosignVars, daemon' = daemon,
           \/ created' = created \/ \E p \in Proposal : created' = Append(created, p),
           Signing /\ Disturbances' = 0 /\ Confirmation \in mempool /\ Confirmation \notin mempool' =>
               Closed(Seen) \/ CoSigners[daemon.account] \in confirmed'[Seen]
    PROVE  SignedSoFar'
<1>1. [ContractNext]_contractVars /\ CustodyInv
  BY CosignStep DEF FollowInv, CosignInv
<1>2. /\ \A p \in Proposal : confirmed[p] \subseteq confirmed'[p] /\ (Closed(p) => Closed(p)')
      /\ interventions \in Nat /\ interventions' >= interventions /\ interventions' \in Nat
  BY <1>1, ContractsOnlyAdd
<1>3. SUFFICES ASSUME Signing', Disturbances' = 0
               PROVE  Closed(Seen)' \/ \A k \in 1..Len(CoSigners) : Done(k)' => CoSigners[k] \in confirmed'[Seen']
  BY DEF SignedSoFar
<1>4. Signing /\ Seen \in Proposal /\ Seen' = Seen /\ Confirmation' = Confirmation
  BY <1>3, SeenStays DEF FollowInv, Signing
<1>5. Disturbances = 0
  BY <1>3, DisturbancesOnlyGrow
<1>6. CASE Closed(Seen)
  <2>1. anchors'[Seen.batch] # NoAnchor \/ Seen.root = ZeroRoot
    BY <1>2, <1>4, <1>6 DEF Closed
  <2> QED
    BY <1>4, <2>1 DEF Closed
<1>7. CASE ~ Closed(Seen)
  <2>1. \A k \in 1..Len(CoSigners) : Done(k) => CoSigners[k] \in confirmed[Seen]
    BY <1>4, <1>5, <1>7 DEF FollowInv, SignedSoFar
  <2>2. ASSUME NEW k \in 1..Len(CoSigners), Done(k)'
        PROVE  CoSigners[k] \in confirmed'[Seen]
    <3>1. CASE Done(k)
      BY <1>2, <1>4, <2>1, <3>1
    <3>2. CASE ~ Done(k)
      <4>1. k = daemon.account /\ Confirmation \in mempool /\ Confirmation \notin mempool'
        BY <1>4, <2>2, <3>2 DEF Done
      <4> QED
        BY <1>3, <1>4, <1>7, <4>1
    <3> QED
      BY <3>1, <3>2
  <2> QED
    BY <1>4, <2>2
<1> QED
  BY <1>6, <1>7

\* A confirmation that is mined counts, unless it reverts; then, with the contract
\* running and the role rotated, the proposal is closed or the account had confirmed.
LEMMA MinedCounts ==
    ASSUME FollowInv, Signing, NEW tx \in mempool, Mine(tx), tx = Confirmation, Disturbances' = 0
    PROVE  Closed(Seen) \/ CoSigners[daemon.account] \in confirmed'[Seen]
<1> DEFINE s == tx[1]
           p == tx[2]
<1>1. s \in Signer /\ p \in Proposal /\ s = CoSigners[daemon.account] /\ p = Seen
  BY DEF FollowInv, CosignInv, CosignTypeOK, Confirmation
<1>2. CASE ProposeAndConfirm(s, p)
  BY <1>1, <1>2 DEF ProposeAndConfirm, FollowInv, CosignInv, CustodyInv, ContractTypeOK
<1>3. CASE ~ Succeeds(s, p) /\ UNCHANGED contractVars
  <2>1. interventions = 0
    <3>1. troubles' = troubles /\ interventions' = interventions
      BY <1>3 DEF Mine, contractVars, anchorVars
    <3>2. troubles \in Nat /\ interventions \in Nat
      BY CoSigningAssumption DEF FollowInv, CosignInv, CosignTypeOK, ContractTypeOK
    <3> QED
      BY <3>1, <3>2 DEF Disturbances
  <2>2. Multisig \in registrars /\ ~ paused
    BY <2>1 DEF FollowInv, Rotated, Signing, CosignInv, CustodyInv, Roles
  <2>3. CASE p \in executed
    <3>1. anchors[p.batch] \in Anchor
      <4>1. p.root \in Root /\ p.district \in District
        BY <1>1 DEF Proposal
      <4>2. [root |-> p.root, district |-> p.district, registrar |-> Multisig] \in Anchor
        BY <4>1 DEF Anchor, Account
      <4> HIDE DEF p
      <4>3. anchors[p.batch] = [root |-> p.root, district |-> p.district, registrar |-> Multisig]
        BY <2>3 DEF FollowInv, CosignInv, CustodyInv, ExecutedIsAnchored
      <4> QED
        BY <4>2, <4>3
    <3> QED
      BY <1>1, <3>1, NoAnchorIsNone DEF Closed
  <2>4. CASE s \in confirmed[p]
    BY <1>1, <1>3, <2>4 DEF contractVars, proposalVars
  <2>5. CASE ~ MayCommit(Multisig, p)
    BY <1>1, <2>2, <2>5 DEF MayCommit, Closed
  <2> QED
    BY <1>3, <2>3, <2>4, <2>5 DEF Succeeds, MayConfirm
<1> QED
  BY <1>2, <1>3 DEF Mine

\* The steps of the daemon itself.  It leaves an account behind when its confirmation
\* has left the mempool, and an event when all accounts are behind or it is executed.
LEMMA DaemonSteps ==
    ASSUME FollowInv,
           Poll \/ SkipExecuted \/ SendConfirmation \/ ConfirmationMined
    PROVE  /\ Signing' /\ Signing /\ daemon'.event = daemon.event =>
                /\ Seen' = Seen
                /\ \A k \in 1..Len(CoSigners) : Done(k)' => Done(k)
           /\ Signing' /\ ~ (Signing /\ daemon'.event = daemon.event) =>
                \A k \in 1..Len(CoSigners) : ~ Done(k)'
           /\ Signing /\ daemon'.event # daemon.event =>
                Seen \in executed \/ \A k \in 1..Len(CoSigners) : Done(k)
<1>1. daemon \in Daemon /\ UNCHANGED created
  BY DEF FollowInv, CosignInv, CosignTypeOK, Poll, SkipExecuted, SendConfirmation, ConfirmationMined
<1>2. Signing => daemon.event \in 1..daemon.current /\ daemon.current \in Nat
  BY <1>1 DEF FollowInv, CosignInv, AtAnEvent, Signing, Daemon
<1>3. daemon.account \in 1..Len(CoSigners) /\ Len(CoSigners) \in Nat
  BY <1>1, CoSigningAssumption DEF Daemon
<1>4. CASE Poll
  <2>1. ~ Signing /\ daemon' = [daemon EXCEPT !.mode = "signing", !.current = Len(created),
                                             !.event = daemon.last + 1, !.account = 1]
    BY <1>4 DEF Poll, Signing
  <2>2. daemon'.mode = "signing" /\ daemon'.account = 1
    BY <1>1, <2>1 DEF Daemon
  <2> QED
    BY <2>1, <2>2 DEF Done
<1>5. ASSUME Signing, daemon' = NextEvent
      PROVE  /\ daemon'.event # daemon.event
             /\ Signing' => daemon'.mode = "signing" /\ daemon'.account = 1
  <2>1. CASE daemon.event < daemon.current
    BY <1>1, <1>2, <1>5, <2>1 DEF NextEvent, Daemon
  <2>2. CASE ~ (daemon.event < daemon.current)
    BY <1>1, <1>2, <1>5, <2>2 DEF NextEvent, Outside, Signing
  <2> QED
    BY <2>1, <2>2
<1>6. CASE SkipExecuted
  <2>1. Signing /\ Seen \in executed /\ daemon' = NextEvent
    BY <1>6 DEF SkipExecuted, Signing
  <2> QED
    BY <1>5, <2>1 DEF Done
<1>7. CASE SendConfirmation
  <2>1. Signing /\ daemon' = [daemon EXCEPT !.mode = "waiting"] /\ mempool' = mempool \cup {Confirmation}
    BY <1>7 DEF SendConfirmation, Signing
  <2>2. daemon'.event = daemon.event /\ daemon'.account = daemon.account
    BY <1>1, <2>1 DEF Daemon
  <2>3. Seen' = Seen /\ Confirmation' = Confirmation
    BY <1>1, <2>2 DEF Seen, Confirmation
  <2>4. Confirmation' \in mempool'
    BY <2>1, <2>3
  <2> QED
    BY <2>1, <2>2, <2>3, <2>4 DEF Done
<1>8. CASE ConfirmationMined
  <2>1. /\ Signing /\ daemon.mode = "waiting" /\ daemon' = NextAccount
        /\ Confirmation \notin mempool /\ mempool' = mempool
    BY <1>8 DEF ConfirmationMined, Signing
  <2>2. \A k \in 1..Len(CoSigners) : k <= daemon.account => Done(k)
    BY <1>3, <2>1 DEF Done
  <2>3. CASE daemon.account < Len(CoSigners)
    <3>1. daemon' = [daemon EXCEPT !.mode = "signing", !.account = daemon.account + 1]
      BY <2>1, <2>3 DEF NextAccount
    <3>2. /\ daemon'.event = daemon.event /\ daemon'.account = daemon.account + 1
          /\ daemon'.mode = "signing"
      BY <1>1, <3>1 DEF Daemon
    <3>3. Seen' = Seen
      BY <1>1, <3>2 DEF Seen
    <3>4. \A k \in 1..Len(CoSigners) : Done(k)' => k <= daemon.account
      BY <1>3, <3>2 DEF Done
    <3> QED
      BY <2>1, <2>2, <3>2, <3>3, <3>4
  <2>4. CASE ~ (daemon.account < Len(CoSigners))
    <3>1. daemon' = NextEvent
      BY <2>1, <2>4 DEF NextAccount
    <3>2. \A k \in 1..Len(CoSigners) : Done(k)
      BY <1>3, <2>2, <2>4
    <3> QED
      BY <1>5, <2>1, <3>1, <3>2 DEF Done
  <2> QED
    BY <2>3, <2>4
<1> QED
  BY <1>4, <1>6, <1>7, <1>8

LEMMA FollowInit == CosignInit => FollowInv
<1> SUFFICES ASSUME CosignInit PROVE FollowInv
  OBVIOUS
<1>1. CosignInv
  BY CosignInvInit
<1>2. daemon.mode = "down"
  BY DEF CosignInit, Outside
<1> QED
  BY <1>1, <1>2 DEF FollowInv, Rotated, SignedSoFar, Signing

LEMMA FollowInductive == FollowInv /\ [CosignNext]_cosignVars => FollowInv'
<1> SUFFICES ASSUME FollowInv, [CosignNext]_cosignVars PROVE FollowInv'
  OBVIOUS
<1>1. CosignInv /\ CosignInv' /\ [ContractNext]_contractVars /\ CustodyInv
  BY CosignInvInductive, CosignStep DEF FollowInv, CosignInv
<1>2. rotation = "done" => rotation' = "done"
  BY <1>1, ContractsOnlyAdd
<1>3. Rotated'
  <2>1. CASE StartDaemon
    BY <1>2, <2>1 DEF StartDaemon, Deployed, Rotated
  <2>2. CASE ~ StartDaemon
    <3>1. daemon.mode = "down" => daemon'.mode = "down"
      BY <2>2 DEF CosignNext, Mine, SignElsewhere, Administer, Client, Commit, ReceiptArrives, ReceiptLate,
         WaitRaises, SeesAnchor, GivesUp, CallMoves, StopDaemon, Follow, Poll, SkipExecuted,
         SendConfirmation, SendFails, ConfirmationMined, ConfirmationLate, cosignVars
    <3> QED
      BY <1>2, <3>1 DEF FollowInv, Rotated
  <2> QED
    BY <2>1, <2>2
<1>5. ASSUME NEW tx \in mempool, Mine(tx)
      PROVE  SignedSoFar'
  <2>1. tx[2] \in Proposal
    BY <1>1 DEF CosignInv, CosignTypeOK
  <2>2. /\ daemon' = daemon /\ troubles' = troubles /\ mempool' = mempool \ {tx}
        /\ created' = created \/ created' = Append(created, tx[2])
    BY <1>5 DEF Mine, Emitted
  <2>3. Signing /\ Disturbances' = 0 /\ Confirmation \in mempool /\ Confirmation \notin mempool' =>
            Closed(Seen) \/ CoSigners[daemon.account] \in confirmed'[Seen]
    BY <1>5, <2>2, MinedCounts
  <2> QED
    BY <2>1, <2>2, <2>3, OthersKeepSigned
<1>6. ASSUME NEW s \in Signer, NEW p \in Proposal, SignElsewhere(s, p)
      PROVE  SignedSoFar'
  <2>1. daemon' = daemon /\ mempool' = mempool /\ created' = Emitted(p)
    BY <1>6 DEF SignElsewhere
  <2>2. created' = created \/ created' = Append(created, p)
    BY <2>1 DEF Emitted
  <2>3. created' = created \/ \E q \in Proposal : created' = Append(created, q)
    BY <2>2
  <2> QED
    BY <2>1, <2>3, OthersKeepSigned
<1>7. ASSUME Administer \/ UNCHANGED cosignVars
      PROVE  SignedSoFar'
  <2>1. daemon' = daemon /\ mempool' = mempool /\ created' = created
    BY <1>7 DEF Administer, cosignVars
  <2> QED
    BY <2>1, OthersKeepSigned
<1>8. ASSUME Client
      PROVE  SignedSoFar'
  <2>1. /\ daemon' = daemon /\ created' = created /\ mempool \subseteq mempool'
    BY <1>8 DEF Client, Commit, ReceiptArrives, ReceiptLate, WaitRaises, SeesAnchor, GivesUp, CallMoves
  <2>2. ~ (Confirmation \in mempool /\ Confirmation \notin mempool')
    BY <2>1
  <2> QED
    BY <2>1, <2>2, OthersKeepSigned
<1>9. ASSUME StartDaemon \/ StopDaemon
      PROVE  SignedSoFar'
  <2>1. daemon'.mode \in {"polling", "down"}
    BY <1>9 DEF StartDaemon, StopDaemon, Outside
  <2>2. ~ Signing'
    BY <2>1 DEF Signing
  <2> QED
    BY <2>2 DEF SignedSoFar
<1>10. ASSUME SendFails \/ ConfirmationLate
       PROVE  SignedSoFar'
  <2>1. Trouble
    BY <1>10 DEF SendFails, ConfirmationLate
  <2>2. ~ (Disturbances = 0)'
    BY <2>1, DisturbancesOnlyGrow
  <2> QED
    BY <2>2 DEF SignedSoFar
<1>11. ASSUME Follow
       PROVE  SignedSoFar'
  <2>1. SUFFICES ASSUME Signing', Disturbances' = 0
                 PROVE  Closed(Seen)' \/ \A k \in 1..Len(CoSigners) : Done(k)' => CoSigners[k] \in confirmed'[Seen']
    BY DEF SignedSoFar
  <2>2. Disturbances = 0
    BY <2>1, DisturbancesOnlyGrow
  <2>3. UNCHANGED <<anchors, confirmed>>
    BY <1>11 DEF Follow, Poll, SkipExecuted, SendConfirmation, ConfirmationMined, contractVars,
       anchorVars, proposalVars
  <2>4. CASE Signing /\ daemon'.event = daemon.event
    <3>1. Seen' = Seen /\ \A k \in 1..Len(CoSigners) : Done(k)' => Done(k)
      BY <1>11, <2>1, <2>4, DaemonSteps DEF Follow
    <3>2. Closed(Seen) \/ \A k \in 1..Len(CoSigners) : Done(k) => CoSigners[k] \in confirmed[Seen]
      BY <2>2, <2>4 DEF FollowInv, SignedSoFar
    <3>3. Closed(Seen) => Closed(Seen)'
      BY <2>3, <3>1 DEF Closed
    <3> QED
      BY <2>3, <3>1, <3>2, <3>3
  <2>5. CASE ~ (Signing /\ daemon'.event = daemon.event)
    BY <1>11, <2>1, <2>5, DaemonSteps DEF Follow
  <2> QED
    BY <2>4, <2>5
<1> QED
  BY <1>1, <1>2, <1>3, <1>5, <1>6, <1>7, <1>8, <1>9, <1>10, <1>11 DEF CosignNext, FollowInv

LEMMA FollowInvariant == CosignSpec => []FollowInv
BY FollowInit, FollowInductive, PTL DEF CosignSpec

\* With any number of accounts, batches and rivals, the daemon passes over no proposal.
THEOREM NothingIsPassedOver == CosignSpec => PassedIsSigned
<1>1. ASSUME FollowInv, [CosignNext]_cosignVars, Signing, daemon'.event # daemon.event, Disturbances' = 0
      PROVE  \/ anchors[Seen.batch] # NoAnchor \/ Seen.root = ZeroRoot
             \/ Range(CoSigners) \subseteq confirmed[Seen]
  <2>1. Disturbances = 0 /\ ~ Trouble
    BY <1>1, DisturbancesOnlyGrow
  <2>2. Poll \/ SkipExecuted \/ SendConfirmation \/ ConfirmationMined
    <3>1. daemon' # daemon /\ daemon.mode # "down"
      BY <1>1 DEF Signing
    <3> HIDE DEF Trouble
    <3> QED
      BY <1>1, <2>1, <3>1 DEF CosignNext, Mine, SignElsewhere, Administer, Client, Commit, ReceiptArrives,
         ReceiptLate, WaitRaises, SeesAnchor, GivesUp, CallMoves, StartDaemon, StopDaemon, SendFails,
         ConfirmationLate, Follow, cosignVars
  <2>3. Seen \in executed \/ \A k \in 1..Len(CoSigners) : Done(k)
    BY <1>1, <2>2, DaemonSteps
  <2>4. CASE Seen \in executed
    <3>1. Seen \in Proposal
      <4>1. executed \subseteq Proposal
        BY <1>1 DEF FollowInv, CosignInv, CustodyInv, ContractTypeOK
      <4> QED
        BY <2>4, <4>1
    <3>2. anchors[Seen.batch] \in Anchor
      <4>1. Seen.root \in Root /\ Seen.district \in District
        BY <3>1 DEF Proposal
      <4>2. [root |-> Seen.root, district |-> Seen.district, registrar |-> Multisig] \in Anchor
        BY <4>1 DEF Anchor, Account
      <4>3. anchors[Seen.batch] = [root |-> Seen.root, district |-> Seen.district, registrar |-> Multisig]
        BY <1>1, <2>4 DEF FollowInv, CosignInv, CustodyInv, ExecutedIsAnchored
      <4> QED
        BY <4>2, <4>3
    <3> QED
      BY <3>2, NoAnchorIsNone
  <2>5. CASE \A k \in 1..Len(CoSigners) : Done(k)
    <3>1. Closed(Seen) \/ \A k \in 1..Len(CoSigners) : CoSigners[k] \in confirmed[Seen]
      BY <1>1, <2>1, <2>5 DEF FollowInv, SignedSoFar
    <3>2. Range(CoSigners) = {CoSigners[k] : k \in 1..Len(CoSigners)}
      BY CoSigningAssumption DEF Range
    <3> QED
      BY <3>1, <3>2 DEF Closed
  <2> QED
    BY <2>3, <2>4, <2>5
<1>2. FollowInv /\ [CosignNext]_cosignVars =>
        [Signing /\ daemon'.event # daemon.event /\ Disturbances' = 0 =>
          \/ anchors[Seen.batch] # NoAnchor \/ Seen.root = ZeroRoot
          \/ Range(CoSigners) \subseteq confirmed[Seen]]_cosignVars
  BY <1>1
<1> QED
  BY <1>2, FollowInvariant, PTL DEF CosignSpec, PassedIsSigned

\* With the backend's own confirmation that suffices, when the programs together hold
\* as many accounts as the threshold asks for.
THEOREM EnoughSignaturesAnchor ==
    ASSUME Cardinality(Range(CoSigners) \cup {Project}) >= Threshold
    PROVE  CosignSpec => []EnoughIsAnchored
<1> DEFINE S == Range(CoSigners) \cup {Project}
<1>1. ASSUME CosignInv, NEW p \in Proposal, S \subseteq confirmed[p]
      PROVE  anchors[p.batch] # NoAnchor
  <2>1. /\ confirmed[p] \subseteq Signer /\ confirmations[p] \in Nat
        /\ CustodyInv /\ Threshold \in Nat
    <3>1. Cardinality(Signer) \in Nat
      BY FS_CardinalityType, MultiSigAssumption
    <3> QED
      BY <1>1, <3>1, MultiSigAssumption DEF CosignInv, CustodyInv, ContractTypeOK
  <2>2. IsFiniteSet(confirmed[p])
    BY <2>1, FS_Subset, MultiSigAssumption
  <2>3. Cardinality(S) <= Cardinality(confirmed[p]) /\ Cardinality(S) \in Nat
    BY <1>1, <2>2, FS_Subset, FS_CardinalityType
  <2>4. confirmations[p] = Threshold
    BY <2>1, <2>3 DEF CustodyInv, Counted
  <2>5. p \in executed
    BY <2>1, <2>4 DEF CustodyInv, Counted
  <2>6. anchors[p.batch] = [root |-> p.root, district |-> p.district, registrar |-> Multisig]
    BY <2>1, <2>5 DEF CustodyInv, ExecutedIsAnchored
  <2>7. p.root \in Root /\ p.district \in District
    BY DEF Proposal
  <2> QED
    BY <2>6, <2>7, NoAnchorIsNone DEF Anchor, Account
<1>2. CosignInv => EnoughIsAnchored
  BY <1>1 DEF EnoughIsAnchored
<1> QED
  BY <1>2, CosignInvariant, PTL
=============================================================================

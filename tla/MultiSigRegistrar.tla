------------------------- MODULE MultiSigRegistrar -------------------------
(***************************************************************************)
(* The two contracts that keep the anchors, contracts/src:                 *)
(* LandRegistryAnchor and the k-of-n MultiSigRegistrar in front of it, the *)
(* rotation of REGISTRAR_ROLE by backend/scripts/deploy_contract.py, and   *)
(* what the deployer, who keeps DEFAULT_ADMIN_ROLE, may do at any time.    *)
(*                                                                         *)
(* A transaction is atomic: one that reverts leaves no trace, so an action *)
(* is enabled exactly when its transaction does not revert.  A proposal id *)
(* is the keccak of (districtId, batchId, merkleRoot), assumed free of     *)
(* collisions, and is therefore that triple.                               *)
(***************************************************************************)
EXTENDS Integers, FiniteSets

CONSTANTS
    Signer,      \* the signers given to the constructor, pairwise distinct
    Deployer,    \* the account that deploys both contracts
    Multisig,    \* the address of the MultiSigRegistrar
    Threshold,   \* confirmations that execute a proposal
    District, BatchId, Root,
    ZeroRoot,    \* bytes32(0)
    NoAnchor,    \* an anchors entry whose timestamp is 0
    Grantee,     \* the accounts the admin may admit as registrars
    MaxInterventions  \* bound: times the admin pauses or changes a role

ASSUME MultiSigAssumption ==
    /\ IsFiniteSet(Signer) /\ Cardinality(Signer) >= 3
    /\ Threshold \in 1..Cardinality(Signer)
    /\ Threshold <= 255                  \* uint8
    /\ Multisig \notin Signer \cup {Deployer}
    /\ NoAnchor \notin [root : Root, district : District, registrar : Signer \cup {Deployer, Multisig}]
    /\ Grantee \subseteq Signer \cup {Deployer, Multisig}
    /\ MaxInterventions \in Nat

VARIABLES
    registrars,     \* accounts that hold REGISTRAR_ROLE
    paused,         \* Pausable
    anchors,        \* mapping(bytes32 => Anchor)
    confirmed,      \* mapping(proposal => signers that confirmed it)
    confirmations,  \* Proposal.confirmations, a uint8
    executed,       \* proposals with Proposal.executed
    rotation,       \* how far the deployment script is with the role
    interventions,  \* the admin's steps so far, the script's excepted
    admitted        \* history: the accounts the admin ever made registrars by them

roleVars     == <<registrars, rotation, admitted>>
anchorVars   == <<roleVars, paused, anchors, interventions>>
proposalVars == <<confirmed, confirmations, executed>>
contractVars == <<anchorVars, proposalVars>>

Account  == Signer \cup {Deployer, Multisig}
Proposal == [district : District, batch : BatchId, root : Root]
Anchor   == [root : Root, district : District, registrar : Account]

ContractTypeOK ==
    /\ registrars \subseteq Account /\ admitted \subseteq Account
    /\ rotation \in {"none", "granted", "done"}
    /\ paused \in BOOLEAN
    /\ anchors \in [BatchId -> Anchor \cup {NoAnchor}]
    /\ confirmed \in [Proposal -> SUBSET Signer]
    /\ confirmations \in [Proposal -> 0..255]
    /\ executed \subseteq Proposal
    /\ interventions \in Nat

\* Both contracts are deployed; the constructor gave the role to the deployer.
ContractInit ==
    /\ registrars = {Deployer}
    /\ paused = FALSE
    /\ anchors = [b \in BatchId |-> NoAnchor]
    /\ confirmed = [p \in Proposal |-> {}]
    /\ confirmations = [p \in Proposal |-> 0]
    /\ executed = {}
    /\ rotation = "none" /\ interventions = 0 /\ admitted = {}

-----------------------------------------------------------------------------
\* Mutant: no DuplicateBatch check.
MayCommit_Duplicate(sender, p) == sender \in registrars /\ ~ paused /\ p.root # ZeroRoot

\* Mutant: no onlyRole check.
MayCommit_AnySender(sender, p) == ~ paused /\ p.root # ZeroRoot /\ anchors[p.batch] = NoAnchor

\* onlyRole, whenNotPaused, ZeroRoot, DuplicateBatch
MayCommit(sender, p) ==
    /\ sender \in registrars /\ ~ paused
    /\ p.root # ZeroRoot
    /\ anchors[p.batch] = NoAnchor

\* LandRegistryAnchor.commitBatch
CommitBatch(sender, p) ==
    /\ MayCommit(sender, p)
    /\ anchors' = [anchors EXCEPT ![p.batch] =
                      [root |-> p.root, district |-> p.district, registrar |-> sender]]
    /\ UNCHANGED <<roleVars, paused, interventions>>

\* Called by an account, as AnvilClient does without a multisig.
CommitDirectly(a, p) == CommitBatch(a, p) /\ UNCHANGED proposalVars

\* NotASigner is excluded by s \in Signer.
MayConfirm(s, p) == p \notin executed /\ s \notin confirmed[p]

\* Mutant: one confirmation too few executes.
Reached_OffByOne(n) == n + 1 >= Threshold

Reached(n) == n >= Threshold

\* Mutant: the count wraps at the threshold, its width too small.
Incremented_Narrow(n) == (n + 1) % 3

\* unchecked { p.confirmations += 1; } on a uint8
Incremented(n) == (n + 1) % 256

\* proposeAndConfirm: the confirmation that reaches the threshold commits the
\* batch, or reverts as a whole with the commit.
ProposeAndConfirm(s, p) ==
    /\ MayConfirm(s, p)
    /\ confirmed' = [confirmed EXCEPT ![p] = @ \cup {s}]
    /\ confirmations' = [confirmations EXCEPT ![p] = Incremented(@)]
    /\ \/ /\ Reached(confirmations'[p])
          /\ executed' = executed \cup {p}
          /\ CommitBatch(Multisig, p)
       \/ /\ ~ Reached(confirmations'[p])
          /\ UNCHANGED <<executed, anchorVars>>

\* The two transactions of the role rotation, in the script's order.
GrantRole ==
    /\ rotation = "none" /\ rotation' = "granted"
    /\ registrars' = registrars \cup {Multisig}
    /\ UNCHANGED <<admitted, paused, anchors, interventions, proposalVars>>

RevokeRole ==
    /\ rotation = "granted" /\ rotation' = "done"
    /\ registrars' = registrars \ {Deployer}
    /\ UNCHANGED <<admitted, paused, anchors, interventions, proposalVars>>

\* The constructor gave the deployer DEFAULT_ADMIN_ROLE too, and nothing takes it
\* away: it pauses the contract and changes its registrars, itself included.
Intervention == interventions < MaxInterventions /\ interventions' = interventions + 1

AdminGrants(a) ==
    /\ Intervention /\ a \notin registrars
    /\ registrars' = registrars \cup {a}
    /\ admitted' = admitted \cup {a}
    /\ UNCHANGED <<rotation, paused, anchors, proposalVars>>

AdminRevokes(a) ==
    /\ Intervention /\ a \in registrars
    /\ registrars' = registrars \ {a}
    /\ UNCHANGED <<rotation, admitted, paused, anchors, proposalVars>>

Pause ==
    /\ Intervention /\ ~ paused
    /\ paused' = TRUE
    /\ UNCHANGED <<roleVars, anchors, proposalVars>>

Unpause ==
    /\ paused
    /\ paused' = FALSE
    /\ UNCHANGED <<roleVars, anchors, interventions, proposalVars>>

Admin ==
    \/ GrantRole \/ RevokeRole \/ Pause \/ Unpause
    \/ \E a \in Grantee : AdminGrants(a)
    \/ \E a \in Account : AdminRevokes(a)

ContractNext ==
    \/ \E p \in Proposal : \/ \E s \in Signer : ProposeAndConfirm(s, p)
                           \/ \E a \in Signer \cup {Deployer} : CommitDirectly(a, p)
    \/ Admin

ContractSpec == ContractInit /\ [][ContractNext]_contractVars

-----------------------------------------------------------------------------
ProposalOf(b) == [district |-> anchors[b].district, batch |-> b, root |-> anchors[b].root]

\* docs/CUSTODY.md:18, "3 of 5 must sign every anchor batch": behind a batch the
\* multisig anchored stand that many different signers of exactly its district,
\* batch id and root.
ThresholdSigned ==
    \A b \in BatchId : anchors[b] # NoAnchor /\ anchors[b].registrar = Multisig =>
        /\ ProposalOf(b) \in executed
        /\ Cardinality(confirmed[ProposalOf(b)]) >= Threshold

\* The unchecked uint8 counter is the number of distinct confirmers: it neither
\* counts a signer twice nor wraps, since execution stops it at the threshold.
CountIsDistinctSigners ==
    \A p \in Proposal : /\ confirmations[p] = Cardinality(confirmed[p])
                        /\ confirmations[p] <= Threshold

\* An executed proposal is what the anchor contract holds for its batch: of two
\* rival proposals for one batch at most one executes, and `executed` is never
\* set without the commit or the commit made without it.
ExecutedIsAnchored ==
    \A p \in executed :
        anchors[p.batch] = [root |-> p.root, district |-> p.district, registrar |-> Multisig]

\* No anchor is ever overwritten or removed, whoever holds the role.
AnchorsAreFinal ==
    [][\A b \in BatchId : anchors[b] # NoAnchor => anchors'[b] = anchors[b]]_contractVars

\* deploy_contract.py:139 says once the role is rotated that "only the 3-of-5
\* multisig can anchor now".  What holds is less: a new anchor has the threshold
\* behind it, or was made by an account the admin admitted as a registrar itself,
\* before or after; neither a signer nor the deployer's old role goes round it.
BypassNeedsTheAdmin ==
    [][\A b \in BatchId :
          /\ rotation = "done"
          /\ anchors[b] = NoAnchor /\ anchors'[b] # NoAnchor
          => \/ anchors'[b].registrar = Multisig /\ ProposalOf(b)' \in executed'
             \/ anchors'[b].registrar \in admitted \ {Multisig}]_contractVars
=============================================================================

------------------------ MODULE CircuitBreakerProofs ------------------------
(***************************************************************************)
(* The bookkeeping of the breaker for any threshold, timeouts and number   *)
(* of concurrent calls; and of its busiest user, the verification of an    *)
(* owner's number, for any owners, numbers and requests.                   *)
(***************************************************************************)
EXTENDS KycVerification, TLAPS

BreakerInv == BreakerTypeOK /\ CountDecidesState /\ BackoffEndsWithTrip

-----------------------------------------------------------------------------
LEMMA BreakerInvInit == BreakerInit => BreakerInv
BY BreakerAssumption DEF BreakerInit, BreakerInv, BreakerTypeOK, CountDecidesState,
   BackoffEndsWithTrip

\* The doubled timeout stays within its bounds.
LEMMA DoubledInRange ==
    ASSUME BreakerTypeOK
    PROVE  Doubled \in ResetTimeout..MaxTimeout
BY BreakerAssumption DEF BreakerTypeOK, Doubled

LEMMA BreakerInvInductive == BreakerInv /\ [BreakerNext]_breakerVars => BreakerInv'
<1> SUFFICES ASSUME BreakerInv, [BreakerNext]_breakerVars PROVE BreakerInv'
  OBVIOUS
<1> USE BreakerAssumption DEF BreakerInv, BreakerTypeOK, CountDecidesState, BackoffEndsWithTrip
<1>1. ASSUME NEW c \in Caller, BeginCall(c)
      PROVE  BreakerInv'
  BY <1>1 DEF BeginCall, CurrentState, Elapsed, Admits
<1>2. ASSUME NEW c \in Caller, CallSucceeds(c)
      PROVE  BreakerInv'
  BY <1>2 DEF CallSucceeds, Close
<1>3. ASSUME NEW c \in Caller, CallFails(c)
      PROVE  BreakerInv'
  <2>1. OneMore \in 0..Threshold + 1 /\ (failures >= Threshold => OneMore >= Threshold)
    BY DEF OneMore
  <2>2. Doubled \in ResetTimeout..MaxTimeout
    BY DoubledInRange
  <2> QED
    BY <1>3, <2>1, <2>2 DEF CallFails
<1>4. ASSUME NEW c \in Caller, CallCancelled(c)
      PROVE  BreakerInv'
  BY <1>4 DEF CallCancelled, Intervene
<1>5. CASE ForceOpen \/ ForceClose
  <2>1. interventions' \in 0..MaxInterventions
    BY <1>5 DEF ForceOpen, ForceClose, Intervene
  <2>2. CASE ForceOpen
    BY <2>1, <2>2 DEF ForceOpen
  <2>3. CASE ForceClose
    BY <2>1, <2>3 DEF ForceClose, Close
  <2> QED
    BY <1>5, <2>2, <2>3
<1>6. CASE ReadState
  BY <1>6 DEF ReadState, Elapsed
<1>7. CASE Tick
  <2>1. age' \in 0..MaxTimeout
    BY <1>7 DEF Tick
  <2> QED
    BY <1>7, <2>1 DEF Tick
<1>8. CASE OutageBegins \/ OutageEnds
  <2>1. interventions' \in 0..MaxInterventions
    <3>1. CASE OutageBegins
      BY <3>1 DEF OutageBegins, Intervene
    <3>2. CASE OutageEnds
      BY <3>2 DEF OutageEnds
    <3> QED
      BY <1>8, <3>1, <3>2
  <2>2. healthy' \in BOOLEAN
    BY <1>8 DEF OutageBegins, OutageEnds
  <2> QED
    BY <1>8, <2>1, <2>2 DEF OutageBegins, OutageEnds
<1>9. CASE Restart
  <2>1. interventions' \in 0..MaxInterventions
    BY <1>9 DEF Restart, Intervene
  <2> QED
    BY <1>9, <2>1 DEF Restart
<1>10. CASE UNCHANGED breakerVars
  BY <1>10 DEF breakerVars
<1> QED
  BY <1>1, <1>2, <1>3, <1>4, <1>5, <1>6, <1>7, <1>8, <1>9, <1>10 DEF BreakerNext

LEMMA BreakerInvariant == BreakerSpec => []BreakerInv
BY BreakerInvInit, BreakerInvInductive, PTL DEF BreakerSpec

\* The backoff stays between reset_timeout and max_timeout.
THEOREM BreakerTypes == BreakerSpec => []BreakerTypeOK
<1>1. BreakerInv => BreakerTypeOK
  BY DEF BreakerInv
<1> QED
  BY <1>1, BreakerInvariant, PTL

\* However calls, forced changes and the clock interleave, the breaker is closed
\* exactly while its count is below the threshold.
THEOREM CountIsState == BreakerSpec => []CountDecidesState
<1>1. BreakerInv => CountDecidesState
  BY DEF BreakerInv
<1> QED
  BY <1>1, BreakerInvariant, PTL

\* A closed breaker trips with reset_timeout again.
THEOREM BackoffIsReset == BreakerSpec => []BackoffEndsWithTrip
<1>1. BreakerInv => BackoffEndsWithTrip
  BY DEF BreakerInv
<1> QED
  BY <1>1, BreakerInvariant, PTL

-----------------------------------------------------------------------------
\* An owner that is VERIFIED is so on a number that NIRA matched.
VerifiedOwners ==
    \A o \in Owner : owners[o].status = "VERIFIED" =>
        owners[o].on \in Nin /\ TRUE \in told[owners[o].on]

\* Both caches hold answers that NIRA gave, and the warm row outlives the hot one.
CachesRemember ==
    \A n \in Nin :
        /\ hot[n] # None => hot[n] \in told[n]
        /\ warm[n] # None => warm[n] \in told[n]
        /\ told[n] # {} => warm[n] # None

\* A request under way has a number, and the answer it is about to store was given.
RequestsCarry ==
    \A c \in Caller :
        /\ requests[c].at # "none" => requests[c].nin \in Nin
        /\ requests[c].at \in {"reply", "store"} => requests[c].answer \in BOOLEAN
        /\ requests[c].at = "store" => requests[c].answer \in told[requests[c].nin]

KycInv == KycData /\ VerifiedOwners /\ CachesRemember /\ RequestsCarry

LEMMA KycInvInit == KycInit => KycInv
<1> SUFFICES ASSUME KycInit PROVE KycInv
  OBVIOUS
<1> USE KycAssumption DEF KycInit
<1>1. KycData
  BY DEF KycData, Answer, NoRequest
<1>2. VerifiedOwners
  BY DEF VerifiedOwners
<1>3. CachesRemember
  BY DEF CachesRemember
<1>4. RequestsCarry
  BY DEF RequestsCarry, NoRequest
<1> QED
  BY <1>1, <1>2, <1>3, <1>4 DEF KycInv

\* A verification sees the breaker only through the breaker's own operations.
LEMMA KycUsesBreaker == [KycNext]_kycVars => [BreakerNext]_breakerVars
<1> SUFFICES ASSUME KycNext PROVE BreakerNext \/ UNCHANGED breakerVars
  BY DEF kycVars
<1>1. ASSUME Arrives PROVE UNCHANGED breakerVars
  BY <1>1 DEF Arrives, VerifyNin, Ask, LookUp
<1>2. ASSUME NEW c \in Caller, RequestMoves(c) \/ CacheFails(c) \/ RequestCancelled(c)
      PROVE  BreakerNext \/ UNCHANGED breakerVars
  <2>1. CASE HotHit(c) \/ Refused(c) \/ NiraDecides(c) \/ Stored(c) \/ CacheFails(c)
    BY <2>1 DEF HotHit, Refused, NiraDecides, Stored, CacheFails
  <2>2. CASE CallNira(c)
    BY <2>2 DEF CallNira, BreakerNext
  <2>3. CASE ReplyArrives(c)
    BY <2>3 DEF ReplyArrives, BreakerNext
  <2>4. CASE NiraFails(c)
    BY <2>4 DEF NiraFails, BreakerNext
  <2>5. CASE RequestCancelled(c)
    BY <2>5 DEF RequestCancelled, BreakerNext
  <2> QED
    BY <1>2, <2>1, <2>2, <2>3, <2>4, <2>5 DEF RequestMoves
<1>3. ASSUME \/ \E o \in Owner : CreateOwner(o)
             \/ \E n \in Nin : Expires(n) \/ RegisterChanges(n)
      PROVE  UNCHANGED breakerVars
  BY <1>3 DEF CreateOwner, Expires, RegisterChanges
<1>4. ASSUME BreakerAlone \/ ProcessRestarts PROVE BreakerNext
  BY <1>4 DEF BreakerAlone, ProcessRestarts, BreakerNext
<1> QED
  BY <1>1, <1>2, <1>3, <1>4 DEF KycNext

\* What a request concludes with is an answer that was given: TRUE only if NIRA
\* matched the number, FALSE for an owner VERIFIED on it only if NIRA denied it.
Grounded(n, matched) ==
    /\ matched \in BOOLEAN
    /\ matched = TRUE => TRUE \in told[n]
    /\ matched = FALSE /\ TRUE \in told[n] => FALSE \in told[n]

LEMMA WarmIsGrounded ==
    ASSUME KycInv, NEW n \in Nin
    PROVE  Grounded(n, FromWarm(n))
<1>1. warm[n] \in Answer /\ told[n] \in SUBSET BOOLEAN
  BY DEF KycInv, KycData
<1>2. (warm[n] # None => warm[n] \in told[n]) /\ (told[n] # {} => warm[n] # None)
  BY DEF KycInv, CachesRemember
<1> QED
  BY <1>1, <1>2, KycAssumption DEF Grounded, FromWarm, Answer

LEMMA ConcludeKeeps ==
    ASSUME KycInv, NEW c \in Caller, requests[c].at # "none", NEW matched,
           Grounded(requests[c].nin, matched), Conclude(c, matched),
           UNCHANGED told
    PROVE  /\ owners' \in [Owner -> [status : {"NONE", "PENDING", "VERIFIED", "REJECTED"},
                                      on : Nin \cup {None}]]
           /\ VerifiedOwners'
           /\ requests' = [requests EXCEPT ![c] = NoRequest]
           /\ \A o \in Owner :
                 owners[o].status = "VERIFIED" /\ owners'[o] = [status |-> "REJECTED", on |-> owners[o].on]
                   => FALSE \in told[owners[o].on]
<1> DEFINE r == requests[c]
           row == [status |-> IF matched THEN "VERIFIED" ELSE "REJECTED", on |-> r.nin]
<1>1. r.nin \in Nin /\ r.owner \in Owner \cup {None} /\ matched \in BOOLEAN
  BY DEF KycInv, KycData, RequestsCarry, Grounded
<1>2. row \in [status : {"NONE", "PENDING", "VERIFIED", "REJECTED"}, on : Nin \cup {None}]
  BY <1>1
<1>3. owners \in [Owner -> [status : {"NONE", "PENDING", "VERIFIED", "REJECTED"}, on : Nin \cup {None}]]
  BY DEF KycInv, KycData
<1>4. requests' = [requests EXCEPT ![c] = NoRequest]
  BY DEF Conclude
<1>5. CASE r.owner = None
  <2>1. owners' = owners
    BY <1>5 DEF Conclude
  <2>2. VerifiedOwners'
    BY <2>1 DEF VerifiedOwners, KycInv
  <2>3. \A o \in Owner : ~ (owners[o].status = "VERIFIED"
                            /\ owners[o] = [status |-> "REJECTED", on |-> owners[o].on])
    <3> SUFFICES ASSUME NEW o \in Owner, owners[o].status = "VERIFIED",
                        owners[o] = [status |-> "REJECTED", on |-> owners[o].on]
                 PROVE  FALSE
      OBVIOUS
    <3>1. owners[o].status = "REJECTED"
      OBVIOUS
    <3> QED
      BY <3>1
  <2> QED
    BY <1>3, <1>4, <2>1, <2>2, <2>3
<1>6. CASE r.owner \in Owner
  <2>1. owners' = [owners EXCEPT ![r.owner] = row]
    BY <1>6, KycAssumption DEF Conclude
  <2>2. \A o \in Owner : owners'[o] = IF o = r.owner THEN row ELSE owners[o]
    BY <1>3, <2>1
  <2>3. owners' \in [Owner -> [status : {"NONE", "PENDING", "VERIFIED", "REJECTED"},
                               on : Nin \cup {None}]]
    BY <1>2, <1>3, <2>1
  <2>4. VerifiedOwners'
    <3> SUFFICES ASSUME NEW o \in Owner, owners'[o].status = "VERIFIED"
                 PROVE  owners'[o].on \in Nin /\ TRUE \in told[owners'[o].on]
      BY DEF VerifiedOwners
    <3>1. CASE o = r.owner
      <4>1. owners'[o] = row
        BY <2>2, <3>1
      <4>2. matched = TRUE
        BY <1>1, <4>1
      <4>3. TRUE \in told[r.nin]
        BY <4>2 DEF Grounded
      <4>4. owners'[o].on = r.nin
        BY <4>1
      <4> QED
        BY <1>1, <4>3, <4>4
    <3>2. CASE o # r.owner
      BY <2>2, <3>2 DEF VerifiedOwners, KycInv
    <3> QED
      BY <3>1, <3>2
  <2>5. ASSUME NEW o \in Owner, owners[o].status = "VERIFIED",
               owners'[o] = [status |-> "REJECTED", on |-> owners[o].on]
        PROVE  FALSE \in told[owners[o].on]
    <3>0. owners'[o].status = "REJECTED" /\ owners'[o].on = owners[o].on
      BY <2>5
    <3>1. o = r.owner
      BY <2>2, <2>5, <3>0
    <3>2. owners'[o] = row
      BY <2>2, <3>1
    <3>3. matched = FALSE /\ r.nin = owners[o].on
      BY <1>1, <3>0, <3>2
    <3>4. TRUE \in told[owners[o].on]
      BY <2>5 DEF VerifiedOwners, KycInv
    <3> QED
      BY <3>3, <3>4 DEF Grounded
  <2> QED
    BY <1>4, <2>3, <2>4, <2>5
<1> QED
  BY <1>1, <1>5, <1>6

\* One request moves on: its record changes, and the others stay.
LEMMA RequestMovesOn ==
    ASSUME KycInv, NEW c \in Caller, NEW r,
           r \in [at : {"none", "lookup", "nira", "reply", "store"},
                  owner : Owner \cup {None}, nin : Nin \cup {None}, answer : Answer],
           r.at # "none" => r.nin \in Nin,
           r.at \in {"reply", "store"} => r.answer \in BOOLEAN,
           r.at = "store" => r.answer \in told'[r.nin],
           \A n \in Nin : told[n] \subseteq told'[n],
           requests' = [requests EXCEPT ![c] = r]
    PROVE  /\ requests' \in [Caller -> [at : {"none", "lookup", "nira", "reply", "store"},
                 owner : Owner \cup {None}, nin : Nin \cup {None}, answer : Answer]]
           /\ RequestsCarry'
<1>1. requests \in [Caller -> [at : {"none", "lookup", "nira", "reply", "store"},
                 owner : Owner \cup {None}, nin : Nin \cup {None}, answer : Answer]]
  BY DEF KycInv, KycData
<1>2. \A d \in Caller : requests'[d] = IF d = c THEN r ELSE requests[d]
  BY <1>1
<1>3. RequestsCarry'
  <2> SUFFICES ASSUME NEW d \in Caller
               PROVE  /\ requests'[d].at # "none" => requests'[d].nin \in Nin
                      /\ requests'[d].at \in {"reply", "store"} => requests'[d].answer \in BOOLEAN
                      /\ requests'[d].at = "store" => requests'[d].answer \in told'[requests'[d].nin]
    BY DEF RequestsCarry
  <2>1. CASE d = c
    BY <1>2, <2>1
  <2>2. CASE d # c
    <3>1. requests'[d] = requests[d]
      BY <1>2, <2>2
    <3>2. /\ requests[d].at # "none" => requests[d].nin \in Nin
          /\ requests[d].at \in {"reply", "store"} => requests[d].answer \in BOOLEAN
          /\ requests[d].at = "store" => requests[d].answer \in told[requests[d].nin]
      BY DEF KycInv, RequestsCarry
    <3> QED
      BY <3>1, <3>2
  <2> QED
    BY <2>1, <2>2
<1> QED
  BY <1>1, <1>3

\* A request that is over carries nothing.
LEMMA RequestOver ==
    ASSUME KycInv, NEW c \in Caller, requests' = [requests EXCEPT ![c] = NoRequest], UNCHANGED told
    PROVE  /\ requests' \in [Caller -> [at : {"none", "lookup", "nira", "reply", "store"},
                 owner : Owner \cup {None}, nin : Nin \cup {None}, answer : Answer]]
           /\ RequestsCarry'
<1>1. NoRequest \in [at : {"none", "lookup", "nira", "reply", "store"},
                     owner : Owner \cup {None}, nin : Nin \cup {None}, answer : Answer]
  BY DEF NoRequest, Answer
<1>2. NoRequest.at = "none"
  BY DEF NoRequest
<1>3. \A n \in Nin : told[n] \subseteq told'[n]
  OBVIOUS
<1> QED
  BY <1>1, <1>2, <1>3, RequestMovesOn

\* The step formula of DowngradeNeedsDenial.
DenialStep ==
    \A o \in Owner :
      owners[o].status = "VERIFIED" /\ owners'[o] = [status |-> "REJECTED", on |-> owners[o].on]
        => FALSE \in told[owners[o].on]

\* Where no owner's row changes, nobody is downgraded.
LEMMA SameOwners == UNCHANGED owners => DenialStep
<1> SUFFICES ASSUME UNCHANGED owners, NEW o \in Owner, owners[o].status = "VERIFIED",
                    owners[o] = [status |-> "REJECTED", on |-> owners[o].on]
             PROVE  FALSE
  BY DEF DenialStep
<1>1. owners[o].status = "REJECTED"
  OBVIOUS
<1> QED
  BY <1>1

\* A request that ends with a grounded answer.
LEMMA ConcludeStep ==
    ASSUME KycInv, NEW c \in Caller, requests[c].at # "none", NEW matched,
           Grounded(requests[c].nin, matched), Conclude(c, matched),
           UNCHANGED <<told, warm, register, changes>>,
           UNCHANGED hot \/ (\E n \in Nin : \E a \in told[n] : hot' = [hot EXCEPT ![n] = a])
    PROVE  KycInv' /\ DenialStep
<1>1. /\ owners' \in [Owner -> [status : {"NONE", "PENDING", "VERIFIED", "REJECTED"},
                                on : Nin \cup {None}]]
      /\ VerifiedOwners'
      /\ requests' = [requests EXCEPT ![c] = NoRequest]
      /\ DenialStep
  BY ConcludeKeeps DEF DenialStep
<1>2. /\ requests' \in [Caller -> [at : {"none", "lookup", "nira", "reply", "store"},
                 owner : Owner \cup {None}, nin : Nin \cup {None}, answer : Answer]]
      /\ RequestsCarry'
  BY <1>1, RequestOver
<1>3. hot' \in [Nin -> Answer] /\ \A n \in Nin : hot'[n] # None => hot'[n] \in told[n]
  <2>1. hot \in [Nin -> Answer] /\ told \in [Nin -> SUBSET BOOLEAN]
        /\ \A n \in Nin : hot[n] # None => hot[n] \in told[n]
    BY DEF KycInv, KycData, CachesRemember
  <2>2. CASE UNCHANGED hot
    BY <2>1, <2>2
  <2>3. ASSUME NEW n \in Nin, NEW a \in told[n], hot' = [hot EXCEPT ![n] = a]
        PROVE  hot' \in [Nin -> Answer] /\ \A m \in Nin : hot'[m] # None => hot'[m] \in told[m]
    BY <2>1, <2>3 DEF Answer
  <2> QED
    BY <2>2, <2>3
<1>4. KycData'
  BY <1>1, <1>2, <1>3 DEF KycInv, KycData
<1>5. CachesRemember'
  BY <1>3 DEF KycInv, CachesRemember
<1> QED
  BY <1>1, <1>2, <1>4, <1>5 DEF KycInv

\* A request that moves on without an answer for its owner.
LEMMA OnwardStep ==
    ASSUME KycInv, NEW c \in Caller, NEW r,
           r \in [at : {"none", "lookup", "nira", "reply", "store"},
                  owner : Owner \cup {None}, nin : Nin \cup {None}, answer : Answer],
           r.at # "none" => r.nin \in Nin,
           r.at \in {"reply", "store"} => r.answer \in BOOLEAN,
           r.at # "store",
           requests' = [requests EXCEPT ![c] = r],
           UNCHANGED <<owners, register, hot, warm, told>>, changes' \in 0..MaxChanges
    PROVE  KycInv' /\ DenialStep
<1>1. /\ requests' \in [Caller -> [at : {"none", "lookup", "nira", "reply", "store"},
                 owner : Owner \cup {None}, nin : Nin \cup {None}, answer : Answer]]
      /\ RequestsCarry'
  <2>1. \A n \in Nin : told[n] \subseteq told'[n]
    OBVIOUS
  <2> QED
    BY <2>1, RequestMovesOn
<1>2. KycData'
  BY <1>1 DEF KycInv, KycData
<1>3. VerifiedOwners' /\ CachesRemember'
  BY DEF KycInv, VerifiedOwners, CachesRemember
<1> QED
  BY <1>1, <1>2, <1>3, SameOwners DEF KycInv

LEMMA OwnRequest ==
    ASSUME KycInv, NEW c \in Caller
    PROVE  /\ requests[c].at \in {"none", "lookup", "nira", "reply", "store"}
           /\ requests[c].owner \in Owner \cup {None}
           /\ requests[c].nin \in Nin \cup {None}
           /\ requests[c].answer \in Answer
           /\ requests[c].at # "none" => requests[c].nin \in Nin
           /\ requests[c].at \in {"reply", "store"} => requests[c].answer \in BOOLEAN
           /\ requests[c].at = "store" => requests[c].answer \in told[requests[c].nin]
BY DEF KycInv, KycData, RequestsCarry

LEMMA KycStep == ASSUME KycInv, [KycNext]_kycVars PROVE KycInv' /\ DenialStep
<1> DEFINE Request == [at : {"none", "lookup", "nira", "reply", "store"},
                       owner : Owner \cup {None}, nin : Nin \cup {None}, answer : Answer]
<1>0. /\ register \in [Nin -> BOOLEAN] /\ told \in [Nin -> SUBSET BOOLEAN]
      /\ hot \in [Nin -> Answer] /\ warm \in [Nin -> Answer] /\ changes \in 0..MaxChanges
      /\ requests \in [Caller -> Request]
  BY DEF KycInv, KycData
<1>a. changes \in 0..MaxChanges
  BY <1>0
<1>1. ASSUME Arrives PROVE KycInv' /\ DenialStep
  <2>1. PICK c \in Caller, o \in Owner \cup {None}, n \in Nin : LookUp(c, o, n)
    BY <1>1 DEF Arrives, VerifyNin, Ask
  <2> DEFINE r == [at |-> "lookup", owner |-> o, nin |-> n, answer |-> None]
  <2>2. r \in Request
    BY DEF Answer
  <2> QED
    BY <2>1, <2>2, <1>a, OnwardStep DEF LookUp
<1>2. ASSUME NEW c \in Caller, HotHit(c) PROVE KycInv' /\ DenialStep
  <2>1. requests[c].nin \in Nin
    BY <1>2, OwnRequest DEF HotHit
  <2>2. hot[requests[c].nin] \in BOOLEAN /\ hot[requests[c].nin] \in told[requests[c].nin]
    BY <1>0, <1>2, <2>1 DEF HotHit, KycInv, CachesRemember, Answer
  <2>3. Grounded(requests[c].nin, hot[requests[c].nin])
    BY <2>2 DEF Grounded
  <2> QED
    BY <1>2, <2>3, ConcludeStep DEF HotHit
<1>3. ASSUME NEW c \in Caller, CallNira(c) PROVE KycInv' /\ DenialStep
  <2> DEFINE r == [requests[c] EXCEPT !.at = "nira"]
  <2>1. requests' = [requests EXCEPT ![c] = r]
    BY <1>3 DEF CallNira
  <2>2. requests[c].nin \in Nin /\ requests[c] \in Request
    BY <1>0, <1>3, OwnRequest DEF CallNira, HotMiss
  <2>3. r \in Request /\ r.at = "nira" /\ r.nin \in Nin
    BY <2>2
  <2> HIDE DEF r
  <2> QED
    BY <1>3, <2>1, <2>3, <1>a, OnwardStep DEF CallNira
<1>4. ASSUME NEW c \in Caller, Refused(c) PROVE KycInv' /\ DenialStep
  <2>1. requests[c].at # "none" /\ requests[c].nin \in Nin
    BY <1>4, OwnRequest DEF Refused, HotMiss
  <2>2. Grounded(requests[c].nin, FromWarm(requests[c].nin))
    BY <2>1, WarmIsGrounded
  <2> QED
    BY <1>4, <2>1, <2>2, ConcludeStep DEF Refused
<1>5. ASSUME NEW c \in Caller, NiraDecides(c) PROVE KycInv' /\ DenialStep
  <2> DEFINE r == [requests[c] EXCEPT !.at = "reply", !.answer = register[requests[c].nin]]
  <2>1. requests' = [requests EXCEPT ![c] = r]
    BY <1>5 DEF NiraDecides
  <2>2. requests[c].nin \in Nin /\ requests[c] \in Request
    BY <1>0, <1>5, OwnRequest DEF NiraDecides
  <2>3. r \in Request /\ r.at = "reply" /\ r.nin \in Nin /\ r.answer \in BOOLEAN
    BY <1>0, <2>2 DEF Answer
  <2> HIDE DEF r
  <2> QED
    BY <1>5, <2>1, <2>3, <1>a, OnwardStep DEF NiraDecides
<1>6. ASSUME NEW c \in Caller, ReplyArrives(c) PROVE KycInv' /\ DenialStep
  <2> DEFINE n == requests[c].nin
             a == requests[c].answer
             r == [requests[c] EXCEPT !.at = "store"]
  <2>1. n \in Nin /\ a \in BOOLEAN /\ requests[c] \in Request
    BY <1>0, <1>6, OwnRequest DEF ReplyArrives
  <2>2. /\ warm' = [warm EXCEPT ![n] = a] /\ told' = [told EXCEPT ![n] = @ \cup {a}]
        /\ requests' = [requests EXCEPT ![c] = r] /\ UNCHANGED <<owners, register, hot, changes>>
    BY <1>6 DEF ReplyArrives, WriteWarm
  <2>3. r \in Request /\ r.at = "store" /\ r.nin = n /\ r.answer = a
    BY <2>1
  <2>4. /\ told' \in [Nin -> SUBSET BOOLEAN] /\ warm' \in [Nin -> Answer]
        /\ a \in told'[n] /\ \A m \in Nin : told[m] \subseteq told'[m]
    BY <1>0, <2>1, <2>2 DEF Answer
  <2>5. requests' \in [Caller -> Request] /\ RequestsCarry'
    <3> HIDE DEF r
    <3> QED
      BY <2>1, <2>2, <2>3, <2>4, RequestMovesOn
  <2>6. KycData'
    BY <2>2, <2>4, <2>5 DEF KycInv, KycData
  <2>7. CachesRemember'
    <3> SUFFICES ASSUME NEW m \in Nin
                 PROVE  /\ hot[m] # None => hot[m] \in told'[m]
                        /\ warm'[m] # None => warm'[m] \in told'[m]
                        /\ told'[m] # {} => warm'[m] # None
      BY <2>2 DEF CachesRemember
    <3>1. /\ hot[m] # None => hot[m] \in told[m]
          /\ warm[m] # None => warm[m] \in told[m]
          /\ told[m] # {} => warm[m] # None
      BY DEF KycInv, CachesRemember
    <3>2. CASE m = n
      BY <1>0, <2>1, <2>2, <2>4, <3>1, <3>2, KycAssumption
    <3>3. CASE m # n
      BY <1>0, <2>2, <3>1, <3>3
    <3> QED
      BY <3>2, <3>3
  <2>8. VerifiedOwners'
    BY <2>2, <2>4 DEF KycInv, VerifiedOwners
  <2> QED
    BY <2>2, <2>5, <2>6, <2>7, <2>8, SameOwners DEF KycInv
<1>7. ASSUME NEW c \in Caller, Stored(c) PROVE KycInv' /\ DenialStep
  <2>1. /\ requests[c].nin \in Nin /\ requests[c].answer \in BOOLEAN
        /\ requests[c].answer \in told[requests[c].nin]
    BY <1>7, OwnRequest DEF Stored
  <2>2. Grounded(requests[c].nin, requests[c].answer)
    BY <2>1 DEF Grounded
  <2> QED
    BY <1>7, <2>1, <2>2, ConcludeStep DEF Stored
<1>8. ASSUME NEW c \in Caller, NiraFails(c) PROVE KycInv' /\ DenialStep
  <2>1. requests[c].at # "none" /\ requests[c].nin \in Nin
    BY <1>8, OwnRequest DEF NiraFails
  <2>2. CASE Conclude(c, FromWarm(requests[c].nin))
    <3>1. Grounded(requests[c].nin, FromWarm(requests[c].nin))
      BY <2>1, WarmIsGrounded
    <3> QED
      BY <1>8, <2>1, <2>2, <3>1, ConcludeStep DEF NiraFails
  <2>3. CASE requests' = [requests EXCEPT ![c] = NoRequest] /\ UNCHANGED owners
    <3>1. NoRequest \in Request /\ NoRequest.at = "none"
      BY DEF NoRequest, Answer
    <3> QED
      BY <1>8, <2>3, <3>1, <1>a, OnwardStep DEF NiraFails
  <2> QED
    BY <1>8, <2>2, <2>3 DEF NiraFails
<1>9. ASSUME NEW c \in Caller, CacheFails(c) \/ RequestCancelled(c) PROVE KycInv' /\ DenialStep
  <2>1. NoRequest \in Request /\ NoRequest.at = "none"
    BY DEF NoRequest, Answer
  <2>2. /\ requests' = [requests EXCEPT ![c] = NoRequest]
        /\ UNCHANGED <<owners, register, hot, warm, told>>
    BY <1>9 DEF CacheFails, RequestCancelled
  <2>3. changes' \in 0..MaxChanges
    BY <1>9, <1>a, KycAssumption DEF CacheFails, RequestCancelled, Change
  <2> QED
    BY <2>1, <2>2, <2>3, OnwardStep
<1>10. ASSUME NEW o \in Owner, CreateOwner(o) PROVE KycInv' /\ DenialStep
  <2>1. owners \in [Owner -> [status : {"NONE", "PENDING", "VERIFIED", "REJECTED"}, on : Nin \cup {None}]]
    BY DEF KycInv, KycData
  <2>2. \A p \in Owner : owners'[p] = IF p = o THEN [owners[o] EXCEPT !.status = "PENDING"] ELSE owners[p]
    BY <1>10, <2>1 DEF CreateOwner
  <2>3. owners' \in [Owner -> [status : {"NONE", "PENDING", "VERIFIED", "REJECTED"}, on : Nin \cup {None}]]
    BY <1>10, <2>1 DEF CreateOwner
  <2>4. KycData'
    BY <1>10, <2>3 DEF CreateOwner, KycInv, KycData
  <2>5. VerifiedOwners'
    BY <1>10, <2>1, <2>2 DEF CreateOwner, KycInv, VerifiedOwners
  <2>6. CachesRemember' /\ RequestsCarry'
    BY <1>10 DEF CreateOwner, KycInv, CachesRemember, RequestsCarry
  <2>7. DenialStep
    <3> SUFFICES ASSUME NEW p \in Owner, owners[p].status = "VERIFIED",
                        owners'[p] = [status |-> "REJECTED", on |-> owners[p].on]
                 PROVE  FALSE
      BY DEF DenialStep
    <3>1. owners'[p].status = "REJECTED"
      OBVIOUS
    <3>2. owners'[p] = owners[p]
      BY <2>1, <2>2, <3>1
    <3> QED
      BY <3>1, <3>2
  <2> QED
    BY <2>4, <2>5, <2>6, <2>7 DEF KycInv
<1>11. ASSUME NEW n \in Nin, Expires(n) PROVE KycInv' /\ DenialStep
  <2>1. hot' = [hot EXCEPT ![n] = None] /\ UNCHANGED <<owners, register, warm, requests, told, changes>>
    BY <1>11 DEF Expires
  <2>2. hot' \in [Nin -> Answer] /\ \A m \in Nin : hot'[m] # None => hot'[m] = hot[m]
    BY <1>0, <2>1 DEF Answer
  <2>3. KycData' /\ CachesRemember'
    BY <2>1, <2>2 DEF KycInv, KycData, CachesRemember
  <2>4. VerifiedOwners' /\ RequestsCarry'
    BY <2>1 DEF KycInv, VerifiedOwners, RequestsCarry
  <2> QED
    BY <2>1, <2>3, <2>4, SameOwners DEF KycInv
<1>12. ASSUME NEW n \in Nin, RegisterChanges(n) PROVE KycInv' /\ DenialStep
  <2>1. register' = [register EXCEPT ![n] = ~ @] /\ UNCHANGED <<owners, hot, warm, requests, told>>
    BY <1>12 DEF RegisterChanges
  <2>2. register' \in [Nin -> BOOLEAN]
    BY <1>0, <2>1
  <2>3. changes' \in 0..MaxChanges
    BY <1>12, <1>a, KycAssumption DEF RegisterChanges, Change
  <2>4. KycData'
    BY <2>1, <2>2, <2>3 DEF KycInv, KycData
  <2>5. VerifiedOwners' /\ CachesRemember' /\ RequestsCarry'
    BY <2>1 DEF KycInv, VerifiedOwners, CachesRemember, RequestsCarry
  <2> QED
    BY <2>1, <2>4, <2>5, SameOwners DEF KycInv
<1>13. ASSUME ProcessRestarts PROVE KycInv' /\ DenialStep
  <2>1. requests' = [c \in Caller |-> NoRequest] /\ UNCHANGED <<owners, register, hot, warm, told, changes>>
    BY <1>13 DEF ProcessRestarts
  <2>2. requests' \in [Caller -> Request] /\ RequestsCarry'
    BY <2>1 DEF NoRequest, Answer, RequestsCarry
  <2>3. KycData'
    BY <2>1, <2>2 DEF KycInv, KycData
  <2>4. VerifiedOwners' /\ CachesRemember'
    BY <2>1 DEF KycInv, VerifiedOwners, CachesRemember
  <2> QED
    BY <2>1, <2>2, <2>3, <2>4, SameOwners DEF KycInv
<1>14. ASSUME UNCHANGED kycOnly PROVE KycInv' /\ DenialStep
  <2>1. KycData'
    BY <1>14 DEF kycOnly, KycInv, KycData
  <2>2. VerifiedOwners' /\ CachesRemember' /\ RequestsCarry'
    BY <1>14 DEF kycOnly, KycInv, VerifiedOwners, CachesRemember, RequestsCarry
  <2> QED
    BY <1>14, <2>1, <2>2, SameOwners DEF kycOnly, KycInv
<1> QED
  BY <1>1, <1>2, <1>3, <1>4, <1>5, <1>6, <1>7, <1>8, <1>9, <1>10, <1>11, <1>12, <1>13, <1>14
     DEF KycNext, RequestMoves, BreakerAlone, kycVars

LEMMA KycInvariant == KycSpec => []KycInv
<1>1. KycInv /\ [KycNext]_kycVars => KycInv'
  BY KycStep
<1> QED
  BY <1>1, KycInvInit, PTL DEF KycSpec

\* A verification uses the breaker as the breaker is specified: what the theorems
\* above say of it holds under any load of requests.
THEOREM KycImplementsBreaker == KycSpec => BreakerSpec
<1>1. KycInit => BreakerInit
  BY DEF KycInit
<1> QED
  BY <1>1, KycUsesBreaker, PTL DEF KycSpec, BreakerSpec

\* Owners, caches and requests always have their types.
THEOREM KycTypes == KycSpec => []KycTypeOK
<1>1. KycInv /\ BreakerInv => KycTypeOK
  BY DEF KycInv, BreakerInv, KycTypeOK
<1> QED
  BY <1>1, KycInvariant, KycImplementsBreaker, BreakerInvariant, PTL

\* Nobody is VERIFIED on a number that NIRA never matched.
THEOREM VerifiedIsMatched == KycSpec => []VerifiedWasMatched
<1>1. KycInv => VerifiedWasMatched
  BY DEF KycInv, VerifiedOwners, VerifiedWasMatched
<1> QED
  BY <1>1, KycInvariant, PTL

\* No outage, stale entry, race or restart rejects an owner that was VERIFIED on
\* the same number, unless NIRA denied that number once.
THEOREM DowngradeIsDenied == KycSpec => DowngradeNeedsDenial
<1>1. KycInv /\ [KycNext]_kycVars
        => [\A o \in Owner :
              owners[o].status = "VERIFIED" /\ owners'[o] = [status |-> "REJECTED", on |-> owners[o].on]
                => FALSE \in told[owners[o].on]]_kycVars
  BY KycStep DEF DenialStep
<1> QED
  BY <1>1, KycInvariant, PTL DEF KycSpec, DowngradeNeedsDenial
=============================================================================

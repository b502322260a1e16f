--------------------------- MODULE KycVerification ---------------------------
(***************************************************************************)
(* Verification of an owner's national identity number (backend/app/       *)
(* routers/owners.py) through the hot and warm caches of nira/cache.py and *)
(* the NIRA circuit breaker.  A request gives way at three awaits: the     *)
(* lookup in the hot cache, the call of NIRA, and the store in the hot     *)
(* cache.  Between them other requests run, entries expire, NIRA's register*)
(* changes, Redis fails and the process restarts; what follows the last    *)
(* await (the UPDATE of the owner) is one step with it.                    *)
(***************************************************************************)
EXTENDS CircuitBreaker

CONSTANTS
    Owner,      \* owners that may be registered
    Nin,        \* numbers a request may carry
    None,       \* no cached answer
    MaxChanges  \* bound: changes of NIRA's register, cache failures

ASSUME KycAssumption == None \notin BOOLEAN \cup Nin \cup Owner /\ MaxChanges \in Nat

VARIABLES
    owners,    \* owners[o]: kyc_status, and the number it was decided on
    register,  \* register[n]: whether NIRA matches n
    hot,       \* hot[n]: the answer under nira:nin:<hash> in the cache
    warm,      \* warm[n]: the answer in the row of nira_verifications
    requests,  \* requests[c]: the request of coroutine c
    told,      \* told[n]: history, the answers NIRA gave about n
    changes

kycOnly == <<owners, register, hot, warm, requests, told, changes>>
kycVars == <<breakerVars, kycOnly>>

Answer == BOOLEAN \cup {None}
NoRequest == [at |-> "none", owner |-> None, nin |-> None, answer |-> None]

\* The tables, the caches and the requests have their types.
KycData ==
    /\ owners \in [Owner -> [status : {"NONE", "PENDING", "VERIFIED", "REJECTED"}, on : Nin \cup {None}]]
    /\ register \in [Nin -> BOOLEAN]
    /\ hot \in [Nin -> Answer] /\ warm \in [Nin -> Answer]
    /\ requests \in [Caller -> [at : {"none", "lookup", "nira", "reply", "store"},
                                owner : Owner \cup {None}, nin : Nin \cup {None}, answer : Answer]]
    /\ told \in [Nin -> SUBSET BOOLEAN]
    /\ changes \in 0..MaxChanges

KycTypeOK == BreakerTypeOK /\ KycData

KycInit ==
    /\ BreakerInit
    /\ owners = [o \in Owner |-> [status |-> "NONE", on |-> None]]
    /\ register \in [Nin -> BOOLEAN]
    /\ hot = [n \in Nin |-> None] /\ warm = [n \in Nin |-> None]
    /\ requests = [c \in Caller |-> NoRequest]
    /\ told = [n \in Nin |-> {}]
    /\ changes = 0

-----------------------------------------------------------------------------
\* create_owner: the row starts PENDING.
CreateOwner(o) ==
    /\ owners[o].status = "NONE"
    /\ owners' = [owners EXCEPT ![o].status = "PENDING"]
    /\ UNCHANGED <<breakerVars, register, hot, warm, requests, told, changes>>

\* A request looks the number up; o is None if it is about nobody's row.
LookUp(c, o, n) ==
    /\ requests[c].at = "none" /\ calls[c] = "idle"
    /\ requests' = [requests EXCEPT ![c] = [at |-> "lookup", owner |-> o, nin |-> n, answer |-> None]]
    /\ UNCHANGED <<breakerVars, owners, register, hot, warm, told, changes>>

\* kyc_verify of an owner that exists; the number is the payload's, nobody
\* compares it with the owner's.
Ask(c, o, n) == owners[o].status # "NONE" /\ LookUp(c, o, n)

\* POST /nira/verify
VerifyNin(c, n) == LookUp(c, None, n)

Arrives == \E c \in Caller, n \in Nin : VerifyNin(c, n) \/ \E o \in Owner : Ask(c, o, n)

\* Mutant: only a PENDING owner's row is updated.
Conclude_PendingOnly(c, matched) ==
    LET r == requests[c] IN
    /\ owners' = IF r.owner = None \/ owners[r.owner].status # "PENDING" THEN owners
                 ELSE [owners EXCEPT ![r.owner] =
                         [status |-> IF matched THEN "VERIFIED" ELSE "REJECTED", on |-> r.nin]]
    /\ requests' = [requests EXCEPT ![c] = NoRequest]

\* The handler's end: the request is over, its owner (if it has one) VERIFIED
\* if the answer matched, and REJECTED otherwise.
Conclude(c, matched) ==
    LET r == requests[c] IN
    /\ owners' = IF r.owner = None THEN owners
                 ELSE [owners EXCEPT ![r.owner] =
                         [status |-> IF matched THEN "VERIFIED" ELSE "REJECTED", on |-> r.nin]]
    /\ requests' = [requests EXCEPT ![c] = NoRequest]

HotHit(c) ==
    LET n == requests[c].nin IN
    /\ requests[c].at = "lookup" /\ hot[n] # None
    /\ Conclude(c, hot[n])
    /\ UNCHANGED <<breakerVars, register, hot, warm, told, changes>>

HotMiss(c) == requests[c].at = "lookup" /\ hot[requests[c].nin] = None

CallNira(c) ==
    /\ HotMiss(c) /\ BeginCall(c)
    /\ requests' = [requests EXCEPT ![c].at = "nira"]
    /\ UNCHANGED <<owners, register, hot, warm, told, changes>>

\* Mutant: without NIRA the answer is "unavailable", whatever the warm row says.
FromWarm_Ignored(n) == FALSE

\* Mutant: a number nobody asked NIRA about passes.
FromWarm_FailsOpen(n) == warm[n] # FALSE

\* What a request gets without NIRA: the warm row however old, or "not matched".
FromWarm(n) == warm[n] = TRUE

\* CircuitOpenError
Refused(c) ==
    /\ HotMiss(c) /\ ~ Admits
    /\ Conclude(c, FromWarm(requests[c].nin))
    /\ UNCHANGED <<breakerVars, register, hot, warm, told, changes>>

\* NIRA looks the number up; its reply is on the way.
NiraDecides(c) ==
    /\ requests[c].at = "nira"
    /\ requests' = [requests EXCEPT ![c].at = "reply", ![c].answer = register[requests[c].nin]]
    /\ UNCHANGED <<breakerVars, owners, register, hot, warm, told, changes>>

\* _write_warm
WriteWarm(n, answer) == warm' = [warm EXCEPT ![n] = answer]

\* The reply arrives: the breaker records it, the warm row is written, and the
\* store in the hot cache is awaited.
ReplyArrives(c) ==
    LET r == requests[c] IN
    /\ r.at = "reply" /\ CallSucceeds(c)
    /\ WriteWarm(r.nin, r.answer)
    /\ told' = [told EXCEPT ![r.nin] = @ \cup {r.answer}]
    /\ requests' = [requests EXCEPT ![c].at = "store"]
    /\ UNCHANGED <<owners, register, hot, changes>>

Stored(c) ==
    LET r == requests[c] IN
    /\ r.at = "store"
    /\ hot' = [hot EXCEPT ![r.nin] = r.answer]
    /\ Conclude(c, r.answer)
    /\ UNCHANGED <<breakerVars, register, warm, told, changes>>

\* The call raises: the warm row answers, and without one the error goes out.
NiraFails(c) ==
    LET r == requests[c] IN
    /\ r.at \in {"nira", "reply"} /\ CallFails(c)
    /\ \/ warm[r.nin] # None /\ Conclude(c, FromWarm(r.nin))
       \/ /\ warm[r.nin] = None
          /\ requests' = [requests EXCEPT ![c] = NoRequest] /\ UNCHANGED owners
    /\ UNCHANGED <<register, hot, warm, told, changes>>

Change == changes < MaxChanges /\ changes' = changes + 1

\* A connected Redis client that fails raises out of cache_get and cache_set.
CacheFails(c) ==
    /\ requests[c].at \in {"lookup", "store"} /\ Change
    /\ requests' = [requests EXCEPT ![c] = NoRequest]
    /\ UNCHANGED <<breakerVars, owners, register, hot, warm, told>>

RequestCancelled(c) ==
    /\ requests[c].at \in {"nira", "reply"} /\ CallCancelled(c)
    /\ requests' = [requests EXCEPT ![c] = NoRequest]
    /\ UNCHANGED <<owners, register, hot, warm, told, changes>>

\* Breaker and requests live in the process; Redis and the database do not.
ProcessRestarts ==
    /\ Restart
    /\ requests' = [c \in Caller |-> NoRequest]
    /\ UNCHANGED <<owners, register, hot, warm, told, changes>>

Expires(n) ==
    /\ hot[n] # None
    /\ hot' = [hot EXCEPT ![n] = None]
    /\ UNCHANGED <<breakerVars, owners, register, warm, requests, told, changes>>

RegisterChanges(n) ==
    /\ Change
    /\ register' = [register EXCEPT ![n] = ~ @]
    /\ UNCHANGED <<breakerVars, owners, hot, warm, requests, told>>

BreakerAlone ==
    /\ ReadState \/ ForceOpen \/ ForceClose \/ Tick \/ OutageBegins \/ OutageEnds
    /\ UNCHANGED kycOnly

RequestMoves(c) ==
    HotHit(c) \/ CallNira(c) \/ Refused(c) \/ NiraDecides(c) \/ ReplyArrives(c) \/ Stored(c) \/ NiraFails(c)

KycNext ==
    \/ Arrives
    \/ \E c \in Caller : RequestMoves(c) \/ CacheFails(c) \/ RequestCancelled(c)
    \/ \E o \in Owner : CreateOwner(o)
    \/ \E n \in Nin : Expires(n) \/ RegisterChanges(n)
    \/ BreakerAlone \/ ProcessRestarts

KycSpec == KycInit /\ [][KycNext]_kycVars

\* Requests keep coming, awaits return, entries expire, time passes.
KycFairness ==
    /\ WF_kycVars(Arrives)
    /\ \A c \in Caller : WF_kycVars(RequestMoves(c))
    /\ \A n \in Nin : WF_kycVars(Expires(n))
    /\ WF_kycVars(Tick /\ UNCHANGED kycOnly)

FairKycSpec == KycSpec /\ KycFairness

-----------------------------------------------------------------------------
\* Nobody is VERIFIED on a number that NIRA never matched: not by a stale row, a
\* hot entry of another request, or the answer of a call that raced an outage.
VerifiedWasMatched == \A o \in Owner : owners[o].status = "VERIFIED" => TRUE \in told[owners[o].on]

\* An outage alone never takes a verified owner's status away: who is VERIFIED on
\* a number is REJECTED on the same number only if NIRA itself did not match it
\* once, whatever expired, failed, raced or restarted since.
DowngradeNeedsDenial ==
    [][\A o \in Owner :
         owners[o].status = "VERIFIED" /\ owners'[o] = [status |-> "REJECTED", on |-> owners[o].on]
           => FALSE \in told[owners[o].on]]_kycVars

Asked(o) == \E c \in Caller : requests[c].owner = o

\* A rejection that came from an outage, a stale row or a late answer heals: if
\* NIRA stays up and matches, an owner asked about again and again ends VERIFIED.
RejectionHeals ==
    \A o \in Owner :
        <>[](healthy /\ \A n \in Nin : register[n]) /\ []<>Asked(o) => <>[](owners[o].status = "VERIFIED")
=============================================================================

----------------------------- MODULE Connector -----------------------------
(***************************************************************************)
(* BaseConnector (pipelines/connectors/base.py): one instance with its     *)
(* token bucket and circuit breaker, and the callers of _get.              *)
(*                                                                         *)
(* _get takes the breaker's lock, then the bucket's lock, then talks to    *)
(* the provider, then takes the breaker's lock again to record the         *)
(* outcome: four steps that other callers and the passing of time          *)
(* interleave with.                                                        *)
(*                                                                         *)
(* Time is discrete and only differences matter to the code, so the model  *)
(* keeps ages instead of readings of time.monotonic(): sinceOpened for     *)
(* now - _opened_at and sinceTake for now - _last.  One tick refills one   *)
(* unit of the bucket and one request costs Cost units.                    *)
(***************************************************************************)
EXTENDS Integers, FiniteSets

CONSTANTS
    Callers,    \* threads that share the instance
    Threshold,  \* failure_threshold of the breaker
    Cooldown,   \* cooldown_s in ticks
    Capacity,   \* capacity of the bucket in units
    Cost,       \* units per request
    MaxWindow   \* longest observation window, in ticks

ASSUME ConnectorAssumption ==
    /\ Threshold \in Nat \ {0} /\ Cooldown \in Nat
    /\ Capacity \in Nat /\ Cost \in Nat \ {0} /\ Cost <= Capacity
    /\ MaxWindow \in Nat

ASSUME CallersAssumption == IsFiniteSet(Callers) /\ Callers # {}

VARIABLES
    failures,     \* CircuitBreaker._failures
    isOpen,       \* _opened_at is not None
    sinceOpened,  \* age of _opened_at, up to Cooldown
    tokens,       \* TokenBucket._tokens, in units
    sinceTake,    \* age of TokenBucket._last, up to Capacity
    pc,           \* where each caller is in _get
    provider,     \* how the provider answers at the moment
    windowTime,   \* age of the observation window
    windowSent,   \* requests sent in it
    outage,       \* every answer that came in it was a failure
    stragglers    \* requests sent since the breaker last started cooling down

breakerVars == <<failures, isOpen, sinceOpened>>
bucketVars  == <<tokens, sinceTake>>
windowVars  == <<windowTime, windowSent, outage>>
vars == <<breakerVars, bucketVars, pc, provider, windowVars, stragglers>>

(* 2xx; a transport error, 429 or 5xx; any other 4xx. *)
Answers == {"ok", "failing", "refusing"}

Lesser(a, b) == IF a <= b THEN a ELSE b

Init ==
    /\ failures = 0 /\ isOpen = FALSE /\ sinceOpened = 0
    /\ tokens = Capacity /\ sinceTake = 0
    /\ pc = [c \in Callers |-> "idle"]
    /\ provider \in Answers
    /\ windowTime = 0 /\ windowSent = 0 /\ outage = TRUE
    /\ stragglers = 0

-----------------------------------------------------------------------------
(* The breaker.                                                            *)

CoolingDown == isOpen /\ sinceOpened < Cooldown

RecordSuccess ==
    /\ failures' = 0
    /\ isOpen' = FALSE /\ sinceOpened' = 0
    /\ stragglers' = 0 /\ outage' = FALSE

(* Mutant: a failure of a half-open breaker does not restart the cooldown. *)
RecordFailureOnce ==
    LET opens == failures + 1 = Threshold IN
    /\ failures' = Lesser(failures + 1, Threshold)
    /\ isOpen' = (isOpen \/ opens)
    /\ sinceOpened' = IF opens THEN 0 ELSE sinceOpened
    /\ UNCHANGED <<stragglers, outage>>

(* The counter is capped: beyond the threshold every value acts alike.     *)
RecordFailure ==
    LET opens == failures + 1 >= Threshold IN
    /\ failures' = Lesser(failures + 1, Threshold)
    /\ isOpen' = (isOpen \/ opens)
    /\ sinceOpened' = IF opens THEN 0 ELSE sinceOpened
    /\ UNCHANGED <<stragglers, outage>>

(* Any other 4xx raises, and tells the breaker nothing. *)
RecordNothing == outage' = FALSE /\ UNCHANGED <<breakerVars, stragglers>>

-----------------------------------------------------------------------------
(* The bucket.                                                             *)

(* Mutant: an idle bucket overflows. *)
RefilledUncapped == tokens + sinceTake

Refilled == Lesser(Capacity, tokens + sinceTake)

-----------------------------------------------------------------------------
(* The steps of _get.                                                      *)

(* Mutant: any caller may pass an open breaker. *)
AdmitAlways(c) ==
    /\ pc[c] = "idle"
    /\ pc' = [pc EXCEPT ![c] = "admitted"]
    /\ UNCHANGED <<breakerVars, bucketVars, provider, windowVars, stragglers>>

(* Mutant: the breaker never goes half-open. *)
AdmitClosedOnly(c) ==
    /\ pc[c] = "idle"
    /\ ~isOpen
    /\ pc' = [pc EXCEPT ![c] = "admitted"]
    /\ UNCHANGED <<breakerVars, bucketVars, provider, windowVars, stragglers>>

Admit(c) ==
    /\ pc[c] = "idle"
    /\ ~CoolingDown
    /\ pc' = [pc EXCEPT ![c] = "admitted"]
    /\ UNCHANGED <<breakerVars, bucketVars, provider, windowVars, stragglers>>

(* CircuitOpen: nothing is touched. *)
RejectOpen(c) ==
    /\ pc[c] = "idle"
    /\ CoolingDown
    /\ UNCHANGED vars

Send(c) ==
    /\ pc[c] = "admitted"
    /\ Refilled >= Cost
    /\ tokens' = Refilled - Cost /\ sinceTake' = 0
    /\ pc' = [pc EXCEPT ![c] = "sent"]
    /\ windowSent' = windowSent + 1
    /\ stragglers' = IF CoolingDown THEN stragglers + 1 ELSE 0
    /\ UNCHANGED <<breakerVars, provider, windowTime, outage>>

(* Mutant: the refill is kept but _last is not moved. *)
RejectRateKeepLast(c) ==
    /\ pc[c] = "admitted"
    /\ Refilled < Cost
    /\ tokens' = Refilled /\ UNCHANGED sinceTake
    /\ pc' = [pc EXCEPT ![c] = "idle"]
    /\ UNCHANGED <<breakerVars, provider, windowVars, stragglers>>

(* RateLimited by the local bucket: refilled, nothing taken or recorded.   *)
RejectRate(c) ==
    /\ pc[c] = "admitted"
    /\ Refilled < Cost
    /\ tokens' = Refilled /\ sinceTake' = 0
    /\ pc' = [pc EXCEPT ![c] = "idle"]
    /\ UNCHANGED <<breakerVars, provider, windowVars, stragglers>>

Answered(c) ==
    /\ pc[c] = "sent"
    /\ pc' = [pc EXCEPT ![c] = "idle"]
    /\ UNCHANGED <<bucketVars, provider, windowTime, windowSent>>

AnswerOk(c) == provider = "ok" /\ Answered(c) /\ RecordSuccess

(* httpx.HTTPError, 429 or 5xx. *)
AnswerFailure(c) == provider = "failing" /\ Answered(c) /\ RecordFailure

AnswerClientError(c) == provider = "refusing" /\ Answered(c) /\ RecordNothing

-----------------------------------------------------------------------------
(* The environment.                                                        *)

(* A window that has reached MaxWindow closes and the next one begins.     *)
Tick ==
    /\ sinceOpened' = IF isOpen THEN Lesser(Cooldown, sinceOpened + 1) ELSE 0
    /\ stragglers' = IF sinceOpened' < Cooldown THEN stragglers ELSE 0
    /\ sinceTake' = Lesser(Capacity, sinceTake + 1)
    /\ windowTime' = IF windowTime < MaxWindow THEN windowTime + 1 ELSE 0
    /\ windowSent' = IF windowTime < MaxWindow THEN windowSent ELSE 0
    /\ outage' = IF windowTime < MaxWindow THEN outage ELSE TRUE
    /\ UNCHANGED <<failures, isOpen, tokens, pc, provider>>

(* The observer may start a window at any moment. *)
StartWindow ==
    /\ windowTime' = 0 /\ windowSent' = 0 /\ outage' = TRUE
    /\ UNCHANGED <<breakerVars, bucketVars, pc, provider, stragglers>>

ProviderChanges ==
    /\ provider' \in Answers \ {provider}
    /\ UNCHANGED <<breakerVars, bucketVars, pc, windowVars, stragglers>>

-----------------------------------------------------------------------------
GetStep(c) ==
    \/ Admit(c)
    \/ Send(c)
    \/ RejectRate(c)
    \/ AnswerOk(c)
    \/ AnswerFailure(c)

CallerStep(c) == GetStep(c) \/ RejectOpen(c) \/ AnswerClientError(c)

Next == Tick \/ StartWindow \/ ProviderChanges \/ \E c \in Callers : CallerStep(c)

Spec == Init /\ [][Next]_vars

(***************************************************************************)
(* Time passes, and a caller that keeps calling gets through _get: httpx's *)
(* timeout bounds the wait for an answer.                                  *)
(***************************************************************************)
FairSpec == Spec /\ WF_vars(Tick) /\ \A c \in Callers : WF_vars(GetStep(c))

-----------------------------------------------------------------------------
(***************************************************************************)
(* Type correctness of the instance; in particular the bucket never goes   *)
(* below zero or above its capacity.                                       *)
(***************************************************************************)
TypeOK ==
    /\ failures \in 0..Threshold
    /\ isOpen \in BOOLEAN
    /\ sinceOpened \in 0..Cooldown
    /\ tokens \in 0..Capacity
    /\ sinceTake \in 0..Capacity
    /\ pc \in [Callers -> {"idle", "admitted", "sent"}]
    /\ provider \in Answers
    /\ windowTime \in 0..MaxWindow
    /\ windowSent \in Nat
    /\ outage \in BOOLEAN
    /\ stragglers \in Nat

(***************************************************************************)
(* The rate limit: whichever moment one starts counting at, the requests   *)
(* sent in the next t ticks cost at most a full bucket plus t units,       *)
(* however many callers share it and however often it turned them away.    *)
(***************************************************************************)
RateIsBounded == windowSent * Cost <= Capacity + windowTime

(***************************************************************************)
(* What an outage costs the provider: less than k cooldowns into a stretch *)
(* in which only failures come back, the instance has sent at most the     *)
(* failures that open the breaker and k requests per caller.  Nothing in   *)
(* the code bounds the callers that probe a half-open breaker at once, and *)
(* a failure that comes late restarts the cooldown; but a caller whose     *)
(* probe fails sends no other before the next cooldown is over.            *)
(***************************************************************************)
OutageIsCheap ==
    outage =>
        \A k \in 1..(MaxWindow + 1) :
            windowTime < k * Cooldown
                => windowSent <= Threshold - 1 + k * Cardinality(Callers)

(***************************************************************************)
(* An open breaker spares the provider: from the moment it starts to cool  *)
(* down until the cooldown has passed, only callers that were already past *)
(* the check still send, and the one whose failure opened it is not one of *)
(* them.                                                                   *)
(***************************************************************************)
StragglersAreFew == stragglers < Cardinality(Callers)

(***************************************************************************)
(* A provider that recovers for good closes the breaker for good.          *)
(***************************************************************************)
Recovers == <>[](provider = "ok") => <>[]~isOpen
=============================================================================

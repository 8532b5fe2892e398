---------------------------- MODULE EquityBatch ----------------------------
(***************************************************************************)
(* ingest_yahoo_spot_for_active (pipelines/tasks/yahoo.py): the task Beat  *)
(* starts every minute.  One run walks over the active instruments in      *)
(* symbol order with one connector instance, which it creates itself:      *)
(* breaker and bucket start afresh, so the module is about one run, and    *)
(* every run starts in one of its initial states.                          *)
(*                                                                         *)
(* The connector's steps are those of Connector, taken by a single caller; *)
(* what the run adds is what it does with each outcome, and the soft time  *)
(* limit, which Celery raises as an exception in the middle of the run:    *)
(* inside fetch_quote the loop swallows it and goes on to the next symbol. *)
(***************************************************************************)
EXTENDS Connector

CONSTANTS
    Task,       \* the run, the only caller that calls
    Size        \* number of active instruments; instrument i is the i-th symbol

ASSUME BatchAssumption == Task \in Callers /\ Size \in Nat

VARIABLES
    answers,    \* what the provider would answer for each instrument in this run
    next,       \* the instrument the loop is at
    quoted,     \* its quote is fetched and not yet written
    updated,    \* instruments whose spot row this run has written
    interrupted, \* the instrument whose fetch_quote the soft time limit cut short, or 0
    status      \* "running", "done", or "failed": raised, or killed by the hard limit

batchVars == <<answers, next, quoted, updated, interrupted, status>>
allVars == <<vars, batchVars>>

Instruments == 1..Size

(* A usable quote; a 200 without one (an error block, no result or price   *)
(* zero); a 4xx; a transport error, 429 or 5xx.                            *)
AnswerKinds == {"quote", "empty", "refused", "failed"}

BatchInit ==
    /\ Init /\ provider = "ok"
    /\ answers \in [Instruments -> AnswerKinds]
    /\ next = 1 /\ quoted = FALSE /\ updated = {} /\ interrupted = 0
    /\ status = "running"

-----------------------------------------------------------------------------
AtRequest == status = "running" /\ next <= Size /\ ~quoted

Advance ==
    /\ next' = next + 1 /\ quoted' = FALSE
    /\ UNCHANGED <<answers, updated, interrupted, status>>

BeginFetch ==
    /\ AtRequest
    /\ Admit(Task)
    /\ UNCHANGED batchVars

(* CircuitOpen is an Exception like any other: continue. *)
SkipOpen ==
    /\ AtRequest
    /\ RejectOpen(Task)
    /\ Advance

SendRequest ==
    /\ AtRequest
    /\ Send(Task)
    /\ UNCHANGED batchVars

SkipRateLimited ==
    /\ AtRequest
    /\ RejectRate(Task)
    /\ Advance

GetQuote ==
    /\ AtRequest /\ answers[next] = "quote"
    /\ Answered(Task) /\ RecordSuccess
    /\ quoted' = TRUE
    /\ UNCHANGED <<answers, next, updated, interrupted, status>>

(* Mutant: an error block in a 200 answer counts against the breaker. *)
GetNothingAsFailure ==
    /\ AtRequest /\ answers[next] = "empty"
    /\ Answered(Task) /\ RecordFailure
    /\ Advance

(* The breaker has recorded a success before the payload is looked at. *)
GetNothing ==
    /\ AtRequest /\ answers[next] = "empty"
    /\ Answered(Task) /\ RecordSuccess
    /\ Advance

GetRefusal ==
    /\ AtRequest /\ answers[next] = "refused"
    /\ Answered(Task) /\ RecordNothing
    /\ Advance

GetFailure ==
    /\ AtRequest /\ answers[next] = "failed"
    /\ Answered(Task) /\ RecordFailure
    /\ Advance

(* Mutant: the loop variable keeps the last quote. *)
WriteSpotKeepQuote ==
    /\ status = "running" /\ quoted
    /\ updated' = updated \cup {next}
    /\ next' = next + 1
    /\ UNCHANGED <<answers, quoted, interrupted, status, vars>>

WriteSpot ==
    /\ status = "running" /\ quoted
    /\ updated' = updated \cup {next}
    /\ next' = next + 1 /\ quoted' = FALSE
    /\ UNCHANGED <<answers, interrupted, status, vars>>

HangUp == pc' = [pc EXCEPT ![Task] = "idle"]

(* SoftTimeLimitExceeded in the middle of fetch_quote is an Exception, but *)
(* no httpx.HTTPError: no failure is recorded, a token taken is not given  *)
(* back, and a quote that is not yet returned is lost.                     *)
SoftLimitSwallowed ==
    /\ status = "running" /\ next <= Size /\ interrupted = 0
    /\ interrupted' = next /\ next' = next + 1 /\ quoted' = FALSE
    /\ HangUp
    /\ UNCHANGED <<answers, updated, status, breakerVars, bucketVars, provider, windowVars, stragglers>>

(* Outside the try - a database error of update_spot, the soft time limit  *)
(* anywhere but in fetch_quote - an exception ends the run; the rows       *)
(* already written stay.                                                   *)
RunFails ==
    /\ status = "running" /\ pc[Task] = "idle"
    /\ status' = "failed" /\ quoted' = FALSE
    /\ UNCHANGED <<answers, next, updated, interrupted, vars>>

(* A run that swallowed the soft limit may still meet the hard one. *)
HardLimitKills ==
    /\ status = "running" /\ interrupted # 0
    /\ status' = "failed" /\ quoted' = FALSE
    /\ HangUp
    /\ UNCHANGED <<answers, next, updated, interrupted,
                   breakerVars, bucketVars, provider, windowVars, stragglers>>

Finish ==
    /\ status = "running" /\ next > Size
    /\ status' = "done"
    /\ UNCHANGED <<answers, next, quoted, updated, interrupted, vars>>

Over == status # "running" /\ UNCHANGED allVars

TimePasses == status = "running" /\ Tick /\ UNCHANGED batchVars

LoopStep ==
    \/ BeginFetch \/ SkipOpen \/ SendRequest \/ SkipRateLimited
    \/ GetQuote \/ GetNothing \/ GetRefusal \/ GetFailure
    \/ WriteSpot \/ Finish
    \/ SoftLimitSwallowed \/ RunFails \/ HardLimitKills

BatchNext == LoopStep \/ TimePasses \/ Over

BatchSpec == BatchInit /\ [][BatchNext]_allVars

-----------------------------------------------------------------------------
(***************************************************************************)
(* Type correctness of the loop's state.                                   *)
(***************************************************************************)
BatchTypeOK ==
    /\ TypeOK
    /\ answers \in [Instruments -> AnswerKinds]
    /\ next \in 1..(Size + 1)
    /\ quoted \in BOOLEAN
    /\ updated \in SUBSET Instruments
    /\ interrupted \in 0..Size
    /\ status \in {"running", "done", "failed"}

(***************************************************************************)
(* Before instrument i came a stretch without a single 2xx answer that     *)
(* holds a threshold of failures.  The symbol the soft limit cut short     *)
(* tells the breaker nothing.                                              *)
(***************************************************************************)
Unanswered(n) == answers[n] \in {"refused", "failed"} \/ n = interrupted

Failed(stretch) == {n \in stretch : answers[n] = "failed" /\ n # interrupted}

TrippedBefore(i) ==
    \E first, last \in 1..(i - 1) :
        /\ \A n \in first..last : Unanswered(n)
        /\ Cardinality(Failed(first..last)) >= Threshold

(***************************************************************************)
(* A finished run has refreshed every instrument the provider had a quote  *)
(* for, except the one the soft time limit cut short, unless that many     *)
(* failures in a row came before it: a handful of bad symbols, refused     *)
(* symbols, empty answers and a swallowed time limit cost nobody else the  *)
(* minute's price.  The promise ends where a full bucket does: the tail of *)
(* a longer batch depends on how slowly the requests before it went.       *)
(***************************************************************************)
SkipsAreExplained ==
    status = "done" =>
        \A i \in Instruments :
            answers[i] = "quote" /\ i * Cost <= Capacity
                => i \in updated \/ i = interrupted \/ TrippedBefore(i)
=============================================================================

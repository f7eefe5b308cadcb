------------------------------ MODULE LLMCalls ------------------------------
(* The LLM client and its ledger (app/llm/client.py): a call is reserved under *)
(* one advisory lock against the day's budgets, waits for a permit of its      *)
(* process, asks the provider with retries, fallback models and one repair     *)
(* round, and finishes its row.  A row of llm_calls is kept as what the        *)
(* budgets read of its day: how many there are and the tokens they report.     *)
(* One answer of the provider costs one token.                                 *)
EXTENDS Integers, FiniteSets

CONSTANTS
    Threads,
    Processes,
    Home,           \* the process of each thread
    Keys,           \* requests, by their cache key
    Params,         \* optional request parameters (json mode, temperature)
    Rejects,        \* those the endpoint refuses
    StreamParams,   \* those a streamed request carries
    RequestBudget,  \* requests a day, 0 when unlimited
    TokenBudget,    \* tokens a day, 0 when unlimited
    Permits,        \* max_concurrency
    Attempts,       \* tries of one round: RETRY_BACKOFF and the first one
    Fallbacks,      \* models after the first
    Fives,          \* consecutive 5xx after which the next model is tried: 3
    Days,           \* bound: midnights are passed up to this day
    MaxCalls,       \* bound: calls begun
    MaxFaults       \* bound: processes that die and ledger writes that fail

ASSUME CallsAssumption ==
    /\ IsFiniteSet(Threads)
    /\ IsFiniteSet(Params)
    /\ Keys # {}
    /\ Home \in [Threads -> Processes]
    /\ {Rejects, StreamParams} \subseteq SUBSET Params
    /\ {RequestBudget, TokenBudget, Fallbacks, MaxCalls, MaxFaults} \subseteq Nat
    /\ {Permits, Attempts, Fives, Days} \subseteq Nat \ {0}

VARIABLES
    day,            \* of the clock, in UTC
    ledger,         \* llm_calls of each day
    cache,          \* llm_cache: is a reply stored, and does it validate
    latch,          \* _quota_until of each process: the last day it is shut for
    off,            \* _disabled_json_mode and _disabled_temperature: what each process
                    \* has learnt to leave out for which model
    call,           \* what each thread is doing
    begun, faults   \* counters of the bounds

vars == <<day, ledger, cache, latch, off, call, begun, faults>>

NoCall == [at |-> "idle", kind |-> "complete", key |-> CHOOSE k \in Keys : TRUE, row |-> 0,
           model |-> 0, round |-> 1, attempt |-> 1, left |-> Fallbacks, fives |-> 0, used |-> 0,
           carries |-> {}, resent |-> FALSE, posts |-> 0]

\* requests: rows that are not 'budget'; late: those whose reservation waited for
\* the lock over midnight; orphans: rows nobody will finish.
NoRows == [requests |-> 0, late |-> 0, pending |-> 0, orphans |-> 0, tokens |-> 0]

HasRow(t) == call[t].at \in {"waiting", "ready", "sent"}
Open(d) == {t \in Threads : HasRow(t) /\ call[t].row = d}

\* Variant: a call that waits for a permit is counted as if it held one.
HoldsPermitWaiting(t) == HasRow(t) /\ call[t].round = 1

\* The repair round is asked outside the semaphore.
HoldsPermit(t) == call[t].at \in {"ready", "sent"} /\ call[t].round = 1

CallType ==
    [at : {"idle", "locking", "waiting", "ready", "sent"}, kind : {"complete", "stream"},
     key : Keys, row : 0..Days, model : 0..Fallbacks, round : 1..2, attempt : 1..Attempts,
     left : 0..Fallbacks, fives : 0..Attempts, used : 0..1, carries : SUBSET Params,
     resent : BOOLEAN, posts : Nat]

RowsType == [requests : Nat, late : Nat, pending : Nat, orphans : Nat, tokens : Nat]

\* Every component has its type, and a call's row is of a day that has begun.
TypeOK ==
    /\ day \in 1..Days
    /\ ledger \in [1..Days -> RowsType]
    /\ cache \in [Keys -> {"none", "valid", "invalid"}]
    /\ latch \in [Processes -> 0..Days]
    /\ off \in [Processes -> SUBSET ((0..Fallbacks) \X Params)]
    /\ call \in [Threads -> CallType]
    /\ \A t \in Threads : call[t].at # "idle" => call[t].row \in 1..day
    /\ begun \in 0..MaxCalls
    /\ faults \in 0..MaxFaults

Init ==
    /\ day = 1
    /\ ledger = [d \in 1..Days |-> NoRows]
    /\ cache = [k \in Keys |-> "none"]
    /\ latch = [p \in Processes |-> 0]
    /\ off = [p \in Processes |-> {}]
    /\ call = [t \in Threads |-> NoCall]
    /\ begun = 0 /\ faults = 0

Becomes(t, c) == call' = [call EXCEPT ![t] = c]

-----------------------------------------------------------------------------
(***************************************************************************)
(* The reservation.                                                        *)
(***************************************************************************)
\* complete looks in the cache first; neither kind goes to a provider whose quota
\* is spent for the day.  The transaction begins here, before it has the lock:
\* created_at DEFAULT now() is this instant.
Begin(t, kind, k) ==
    /\ call[t].at = "idle"
    /\ begun < MaxCalls
    /\ kind = "complete" => cache[k] = "none"
    /\ latch[Home[t]] < day
    /\ Becomes(t, [NoCall EXCEPT !.at = "locking", !.kind = kind, !.key = k, !.row = day])
    /\ begun' = begun + 1
    /\ UNCHANGED <<day, ledger, cache, latch, off, faults>>

\* Variant: only rows of finished calls count.
RequestsSpentFinished ==
    RequestBudget > 0 /\ ledger[day].requests - ledger[day].pending >= RequestBudget

RequestsSpent == RequestBudget > 0 /\ ledger[day].requests >= RequestBudget

\* Variant: one more than the budget is let through.
TokensSpentAfter == TokenBudget > 0 /\ ledger[day].tokens > TokenBudget

TokensSpent == TokenBudget > 0 /\ ledger[day].tokens >= TokenBudget

Reserved(rows, late) ==
    [rows EXCEPT !.requests = @ + 1, !.pending = @ + 1, !.late = IF late THEN @ + 1 ELSE @]

\* With the lock held: the budgets of the day it is now, then the row.
Reserve(t) ==
    /\ call[t].at = "locking"
    /\ ~RequestsSpent /\ ~TokensSpent
    /\ ledger' = [ledger EXCEPT ![call[t].row] = Reserved(ledger[call[t].row], call[t].row < day)]
    /\ Becomes(t, [call[t] EXCEPT !.at = "waiting"])
    /\ UNCHANGED <<day, cache, latch, off, begun, faults>>

\* A budget is spent, and the caller falls back (a 'budget' row is not counted), or
\* the ledger cannot be written, and the call is not made.
Refuse(t) ==
    /\ call[t].at = "locking"
    /\ \/ (RequestsSpent \/ TokensSpent) /\ faults' = faults
       \/ faults < MaxFaults /\ faults' = faults + 1
    /\ Becomes(t, NoCall)
    /\ UNCHANGED <<day, ledger, cache, latch, off, begun>>

Enter(t) ==
    /\ call[t].at = "waiting"
    /\ Cardinality({u \in Threads : Home[u] = Home[t] /\ HoldsPermit(u)}) < Permits
    /\ Becomes(t, [call[t] EXCEPT !.at = "ready"])
    /\ UNCHANGED <<day, ledger, cache, latch, off, begun, faults>>

-----------------------------------------------------------------------------
(***************************************************************************)
(* One round: attempts, models, and parameters the endpoint refuses.       *)
(***************************************************************************)
\* The payload carries what the process has not learnt to leave out.
Post(t) ==
    /\ call[t].at = "ready"
    /\ Becomes(t, [call[t] EXCEPT !.at = "sent", !.resent = FALSE, !.posts = @ + 1,
                     !.carries = {x \in IF call[t].kind = "stream" THEN StreamParams ELSE Params :
                                    <<call[t].model, x>> \notin off[Home[t]]}])
    /\ UNCHANGED <<day, ledger, cache, latch, off, begun, faults>>

\* A stream reports its prompt's tokens even when it fails.
Cost(c) == IF c.kind = "stream" THEN 1 ELSE c.used

Finished(rows, cost) == [rows EXCEPT !.pending = @ - 1, !.tokens = @ + cost]

\* _finish: the row gets its tokens, unless the write fails, which is only logged.
Finish(t, cost) ==
    /\ Becomes(t, NoCall)
    /\ \/ /\ ledger' = [ledger EXCEPT ![call[t].row] = Finished(ledger[call[t].row], cost)]
          /\ faults' = faults
       \/ /\ faults < MaxFaults
          /\ faults' = faults + 1
          /\ ledger' = [ledger EXCEPT ![call[t].row].orphans = @ + 1]

\* Variant: an error that is not retried leaves the row as it is.
FailUnfinished(t) ==
    /\ Becomes(t, NoCall)
    /\ UNCHANGED <<ledger, faults>>

Fail(t) == Finish(t, Cost(call[t]))

\* The next attempt of the round, when there is one.
Again(t, c) ==
    IF c.attempt < Attempts
    THEN /\ Becomes(t, [c EXCEPT !.at = "ready", !.attempt = @ + 1])
         /\ UNCHANGED <<ledger, faults>>
    ELSE Fail(t)

NextModel(c) == [c EXCEPT !.model = Fallbacks - c.left + 1, !.left = @ - 1, !.fives = 0]

\* The endpoint refuses a parameter: the process leaves it out for this model from now
\* on, and this attempt is sent once more.  Another thread may have learnt it since this one was
\* sent; then the refusal is an error like any other.
Negotiate(t) ==
    LET c == call[t]  p == Home[t]
    IN /\ c.at = "sent" /\ c.kind = "complete"
       /\ \E x \in c.carries \cap Rejects :
            IF <<c.model, x>> \in off[p] THEN Fail(t) /\ off' = off
            ELSE /\ off' = [off EXCEPT ![p] = @ \cup {<<c.model, x>>}]
                 /\ IF c.resent THEN Again(t, [c EXCEPT !.fives = 0])
                    ELSE /\ Becomes(t, [c EXCEPT !.carries = @ \ {x}, !.resent = TRUE,
                                                 !.posts = @ + 1])
                         /\ UNCHANGED <<ledger, faults>>
       /\ UNCHANGED <<day, cache, latch, begun>>

ServerError(t) ==
    LET c == [call[t] EXCEPT !.fives = @ + 1]
    IN IF c.left > 0 /\ c.fives >= Fives THEN Again(t, NextModel(c)) ELSE Again(t, c)

\* Variant: the next model is taken without looking whether there is one.
GoneUnguarded(t) == Again(t, NextModel(call[t]))

\* The model is retired (404, 410).
Gone(t) == IF call[t].left > 0 THEN Again(t, NextModel(call[t])) ELSE Fail(t)

\* 401: the token is dropped once, on the first attempt.
Unauthorized(t) ==
    IF call[t].attempt = 1 THEN Again(t, [call[t] EXCEPT !.fives = 0]) ELSE Fail(t)

\* 408, 409, a 429 that is not the day's quota, or no answer.
Busy(t) == Again(t, [call[t] EXCEPT !.fives = 0])

Errs(t) ==
    /\ call[t].at = "sent" /\ call[t].kind = "complete"
    /\ ServerError(t) \/ Gone(t) \/ Unauthorized(t) \/ Busy(t) \/ Fail(t)
    /\ UNCHANGED <<day, cache, latch, off, begun>>

\* A stream is tried once; its reader may also go away.
StreamEnds(t) ==
    /\ call[t].at = "sent" /\ call[t].kind = "stream"
    /\ Fail(t)
    /\ UNCHANGED <<day, cache, latch, off, begun>>

\* The quota of the day is spent: final until the midnight after this answer.
Quota(t) ==
    /\ call[t].at = "sent"
    /\ latch' = [latch EXCEPT ![Home[t]] = day]
    /\ Fail(t)
    /\ UNCHANGED <<day, cache, off, begun>>

Answered(t) == call[t].at = "sent" /\ call[t].kind = "complete" /\ call[t].carries \cap Rejects = {}

\* The reply validates: it is stored for the next such request.
Reply(t) ==
    /\ Answered(t)
    /\ cache' = [cache EXCEPT ![call[t].key] = "valid"]
    /\ Finish(t, call[t].used + 1)
    /\ UNCHANGED <<day, latch, off, begun>>

\* Variant: the reply is stored before it is validated.
BadReplyStored(t) ==
    /\ Answered(t)
    /\ cache' = [cache EXCEPT ![call[t].key] = "invalid"]
    /\ Finish(t, call[t].used + 1)
    /\ UNCHANGED <<day, latch, off, begun>>

\* Variant: a repair that does not validate is repaired again.
BadReplyForever(t) ==
    /\ Answered(t)
    /\ Becomes(t, [call[t] EXCEPT !.at = "ready", !.round = 2, !.attempt = 1, !.fives = 0,
                     !.left = Fallbacks, !.used = 1])
    /\ UNCHANGED <<day, ledger, cache, latch, off, begun, faults>>

\* It does not: one repair round, with the model that answered and every fallback.
BadReply(t) ==
    /\ Answered(t)
    /\ IF call[t].round = 1
       THEN /\ Becomes(t, [call[t] EXCEPT !.at = "ready", !.round = 2, !.attempt = 1, !.fives = 0,
                             !.left = Fallbacks, !.used = 1])
            /\ UNCHANGED <<ledger, faults>>
       ELSE Finish(t, call[t].used + 1)
    /\ UNCHANGED <<day, cache, latch, off, begun>>

-----------------------------------------------------------------------------
\* A process dies: what its threads had reserved stays pending.
Crash(p) ==
    /\ faults < MaxFaults
    /\ faults' = faults + 1
    /\ ledger' = [d \in 1..Days |->
                    [ledger[d] EXCEPT !.orphans = @ + Cardinality({t \in Open(d) : Home[t] = p})]]
    /\ call' = [t \in Threads |-> IF Home[t] = p THEN NoCall ELSE call[t]]
    /\ latch' = [latch EXCEPT ![p] = 0]
    /\ off' = [off EXCEPT ![p] = {}]
    /\ UNCHANGED <<day, cache, begun>>

Midnight ==
    /\ day < Days
    /\ day' = day + 1
    /\ UNCHANGED <<ledger, cache, latch, off, call, begun, faults>>

\* The provider answers or times out; the advisory lock and the scheduler are fair.
Proceed(t) ==
    \/ Reserve(t) \/ Refuse(t) \/ Post(t)
    \/ Negotiate(t) \/ Errs(t) \/ StreamEnds(t) \/ Quota(t) \/ Reply(t) \/ BadReply(t)

Next ==
    \/ \E t \in Threads : \E kind \in {"complete", "stream"}, k \in Keys : Begin(t, kind, k)
    \/ \E t \in Threads : Proceed(t) \/ Enter(t)
    \/ \E p \in Processes : Crash(p)
    \/ Midnight

Spec == Init /\ [][Next]_vars

FairSpec == Spec /\ \A t \in Threads : WF_vars(Proceed(t)) /\ SF_vars(Enter(t))

-----------------------------------------------------------------------------
\* A day's requests stay within its budget, but for those whose reservation began
\* before midnight and was granted after it.
RequestBudgetHolds ==
    RequestBudget > 0 =>
        \A d \in 1..Days : ledger[d].requests - ledger[d].late <= RequestBudget

\* A call answers at most twice: the token budget is overshot by no more than what
\* the calls at work when it was reached, and the late ones, bring.
TokenOvershootBounded ==
    TokenBudget > 0 =>
        \A d \in 1..Days :
            ledger[d].tokens < TokenBudget + 2 * (Cardinality(Threads) + ledger[d].late)

\* "Every exit must finish the reserved row": a pending row has a call at work behind
\* it, or its process died or could not write.
PendingAccounted ==
    \A d \in 1..Days : ledger[d].pending = Cardinality(Open(d)) + ledger[d].orphans

\* One row stands for a bounded number of requests: two rounds of attempts, and one
\* more for each parameter and model the process learnt about meanwhile.
PostsBounded ==
    \A t \in Threads : call[t].posts <= 2 * Attempts + (Fallbacks + 1) * Cardinality(Params)

\* A reply that did not validate is never served from the cache.
CacheIsValid == \A k \in Keys : cache[k] # "invalid"

\* Every call ends, whatever the provider answers.
CallsEnd == \A t \in Threads : call[t].at # "idle" ~> call[t].at = "idle"
=============================================================================

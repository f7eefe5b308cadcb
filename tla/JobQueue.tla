------------------------------ MODULE JobQueue ------------------------------
(* The Postgres job queue of app/jobs: the rows of the `jobs` table, the       *)
(* statements of queue.py that change them, and the processes that issue them: *)
(* worker threads (worker.py), each process's heartbeat thread, the reaper, and *)
(* the API's cancel and retry.                                                  *)
(*                                                                              *)
(* One action is one committed transaction, or one statement where a           *)
(* transaction reads the table and acts on the answer afterwards (fail, defer). *)
(* Time is abstracted: a queued job may be due at any moment (a backoff or a    *)
(* debounce always elapses), and a heartbeat may grow stale (GoStale).          *)
EXTENDS Integers, FiniteSets

CONSTANTS
    Workers,        \* worker threads, one id each (`_worker_id` is never reused)
    Procs,          \* worker processes
    ProcOf,         \* the process each thread runs in
    Jobs,           \* ids the table hands out, a range of naturals
    Keys,           \* dedupe keys the producers use
    NoKey,          \* dedupe_key IS NULL
    NoWorker,       \* locked_by IS NULL
    NoJob,          \* a thread that has claimed nothing
    MaxAttempts,    \* jobs.max_attempts
    MaxCrashes,     \* bound: worker processes that die
    MaxLapses,      \* bound: times a live process misses its heartbeat for job_stale_seconds
    MaxDefers,      \* bound: handlers that find their advisory lock taken
    MaxCancels,     \* bound: calls of POST /jobs/{id}/cancel
    MaxRetries      \* bound: calls of POST /jobs/{id}/retry

ASSUME QueueAssumption ==
    /\ ProcOf \in [Workers -> Procs]
    /\ Jobs \subseteq Nat
    /\ NoKey \notin Keys
    /\ NoWorker \notin Workers
    /\ NoJob \notin Jobs
    /\ MaxAttempts \in Nat \ {0}
    /\ {MaxCrashes, MaxLapses, MaxDefers, MaxCancels, MaxRetries} \subseteq Nat

VARIABLES
    row,        \* the jobs table: one record per id
    thread,     \* what each worker thread is doing, with the job it claimed and
                \* the status that fail() or defer() has decided on and not yet written
    budget,     \* how much of each bounded event is left
    reaps,      \* history: how often each job was reaped
    effects,    \* history: how often a handler run of each job committed
    owed,       \* history: keys with a change no committed handler run has seen
    aware       \* history: jobs whose last run began after their key's last change

vars == <<row, thread, budget, reaps, effects, owed, aware>>
history == <<reaps, effects, owed, aware>>

(***************************************************************************)
(* The table.  "absent" stands for an id not handed out yet.               *)
(***************************************************************************)
Status == {"absent", "queued", "running", "succeeded", "failed", "dead", "cancelled"}
Terminal == {"succeeded", "failed", "dead", "cancelled"}

Row == [status : Status, key : Keys \cup {NoKey}, attempts : Nat,
        lockedBy : Workers \cup {NoWorker},
        fresh : BOOLEAN,          \* heartbeat_at is within job_stale_seconds
        cancel : BOOLEAN]         \* payload has _cancel

EmptyRow == [status |-> "absent", key |-> NoKey, attempts |-> 0,
             lockedBy |-> NoWorker, fresh |-> FALSE, cancel |-> FALSE]

Queued(j) == row[j].status = "queued"
Running(j) == row[j].status = "running"

\* Another queued row carries j's dedupe key: what fail, defer and reap_stale
\* look for, and what uq_jobs_dedupe_queued refuses a second of.
TwinQueued(j) ==
    /\ row[j].key # NoKey
    /\ \E i \in Jobs \ {j} : Queued(i) /\ row[i].key = row[j].key

Busy == {"handling", "failing", "deferring"}
Thread == [at : Busy \cup {"idle", "down"},
           job : Jobs \cup {NoJob}, verdict : Status]

Idle == [at |-> "idle", job |-> NoJob, verdict |-> "absent"]
Down == [at |-> "down", job |-> NoJob, verdict |-> "absent"]

At(w, where) == thread[w].at = where
Job(w) == thread[w].job
Rest(w) == thread' = [thread EXCEPT ![w] = Idle]

\* Variant: the guard without "AND locked_by = :worker".
HoldsByStatus(w) == Running(Job(w))

\* The WHERE clause of every statement a worker issues for the job it claimed.
Holds(w) == Running(Job(w)) /\ row[Job(w)].lockedBy = w

Alive(p) == \E w \in Workers : ProcOf[w] = p /\ ~At(w, "down")

Spend(what) == budget[what] > 0 /\ budget' = [budget EXCEPT ![what] = @ - 1]

TypeOK ==
    /\ row \in [Jobs -> Row]
    /\ thread \in [Workers -> Thread]
    /\ \A w \in Workers : thread[w].at \in Busy => Job(w) \in Jobs
    /\ budget \in [{"crash", "lapse", "defer", "cancel", "retry"} -> Nat]
    /\ reaps \in [Jobs -> Nat]
    /\ effects \in [Jobs -> Nat]
    /\ owed \subseteq Keys
    /\ aware \subseteq Jobs

Init ==
    /\ row = [j \in Jobs |-> EmptyRow]
    /\ thread = [w \in Workers |-> Idle]
    /\ budget = [crash |-> MaxCrashes, lapse |-> MaxLapses, defer |-> MaxDefers,
                 cancel |-> MaxCancels, retry |-> MaxRetries]
    /\ reaps = [j \in Jobs |-> 0]
    /\ effects = [j \in Jobs |-> 0]
    /\ owed = {}
    /\ aware = {}

-----------------------------------------------------------------------------
(***************************************************************************)
(* Producers.                                                              *)
(***************************************************************************)
OfKey(k) == {j \in Jobs : row[j].key = k /\ row[j].status # "absent"}

\* Variant: a job that is running counts as a duplicate too.
EnqueueBehindRunning(k) ==
    /\ IF k # NoKey /\ \E i \in OfKey(k) : Queued(i) \/ Running(i)
       THEN row' = row
       ELSE \E j \in Jobs :
              /\ row[j].status = "absent"
              /\ row' = [row EXCEPT ![j] = [EmptyRow EXCEPT !.status = "queued", !.key = k]]
    /\ owed' = owed \cup ({k} \ {NoKey})
    /\ aware' = IF k = NoKey THEN aware ELSE aware \ OfKey(k)
    /\ UNCHANGED <<thread, budget, reaps, effects>>

\* ENQUEUE_SQL: insert, unless a queued row has the key, which then stands for
\* this call too.  Either way the change the caller made is owed a run.
Enqueue(k) ==
    /\ IF k # NoKey /\ \E i \in Jobs : Queued(i) /\ row[i].key = k
       THEN row' = row
       ELSE \E j \in Jobs :
              /\ row[j].status = "absent"
              /\ \A i \in Jobs : i < j => row[i].status # "absent"
              /\ row' = [row EXCEPT ![j] = [EmptyRow EXCEPT !.status = "queued", !.key = k]]
    /\ owed' = owed \cup ({k} \ {NoKey})
    /\ aware' = IF k = NoKey THEN aware ELSE aware \ OfKey(k)
    /\ UNCHANGED <<thread, budget, reaps, effects>>

\* Variant: the first UPDATE without "AND status='queued'".
CancelAnyStatus(j) ==
    /\ Spend("cancel")
    /\ row[j].status # "absent"
    /\ row' = [row EXCEPT ![j] = [@ EXCEPT !.status = "cancelled"]]
    /\ UNCHANGED <<thread, reaps, effects, owed, aware>>

\* POST /jobs/{id}/cancel: a queued job is cancelled outright, a running one is
\* flagged.  The user gave the work up, so its key is owed nothing any more.
Cancel(j) ==
    /\ Spend("cancel")
    /\ row' = [row EXCEPT ![j] = CASE Queued(j)  -> [@ EXCEPT !.status = "cancelled"]
                                   [] Running(j) -> [@ EXCEPT !.cancel = TRUE]
                                   [] OTHER      -> @]
    /\ owed' = IF Queued(j) \/ Running(j) THEN owed \ {row[j].key} ELSE owed
    /\ UNCHANGED <<thread, reaps, effects, aware>>

\* Variants: without the unique index; and giving the attempts back by subtraction.
RetryUnchecked(j) ==
    /\ row[j].status \in {"failed", "dead"}
    /\ Spend("retry")
    /\ row' = [row EXCEPT ![j] = [@ EXCEPT !.status = "queued", !.attempts = 0]]
    /\ UNCHANGED <<thread, history>>

RetrySubtracts(j) ==
    /\ row[j].status \in {"failed", "dead"}
    /\ ~TwinQueued(j)
    /\ Spend("retry")
    /\ row' = [row EXCEPT ![j] = [@ EXCEPT !.status = "queued", !.attempts = @ - MaxAttempts]]
    /\ UNCHANGED <<thread, history>>

\* POST /jobs/{id}/retry: attempts start over.  A queued twin makes the unique
\* index refuse the UPDATE, and the request fails without a change.
Retry(j) ==
    /\ row[j].status \in {"failed", "dead"}
    /\ ~TwinQueued(j)
    /\ Spend("retry")
    /\ row' = [row EXCEPT ![j] = [@ EXCEPT !.status = "queued", !.attempts = 0,
                                           !.lockedBy = NoWorker]]
    /\ UNCHANGED <<thread, history>>

-----------------------------------------------------------------------------
(***************************************************************************)
(* A worker thread: _run_one and _execute_claimed.                         *)
(***************************************************************************)
\* The row as its claimant sees it: running, leased, alive, one attempt more.
Locked(r, w) == [r EXCEPT !.status = "running", !.lockedBy = w, !.fresh = TRUE,
                          !.attempts = r.attempts + 1]

\* Variant: the subquery without "FOR UPDATE SKIP LOCKED" can claim a row twice.
DequeueUnlocked(w, j) ==
    /\ At(w, "idle")
    /\ Queued(j) \/ Running(j)
    /\ row' = [row EXCEPT ![j] = Locked(row[j], w)]
    /\ thread' = [thread EXCEPT ![w] = [Idle EXCEPT !.at = "handling", !.job = j]]
    /\ aware' = aware \cup {j}
    /\ UNCHANGED <<budget, reaps, effects, owed>>

\* Phase 1.  DEQUEUE_SQL and its commit.
Dequeue(w, j) ==
    /\ At(w, "idle")
    /\ Queued(j)
    /\ row' = [row EXCEPT ![j] = Locked(row[j], w)]
    /\ thread' = [thread EXCEPT ![w] = [Idle EXCEPT !.at = "handling", !.job = j]]
    /\ aware' = aware \cup {j}
    /\ UNCHANGED <<budget, reaps, effects, owed>>

\* locked_by and locked_at become NULL.  heartbeat_at is read only while a job
\* is running, so it counts as unset for every other.
Unlocked(r, s) == [r EXCEPT !.status = s, !.lockedBy = NoWorker, !.fresh = FALSE]

\* The UPDATE of complete, fail, mark_cancelled and defer: it touches the row
\* only while the thread still holds the lease.
Release(w, s) ==
    row' = IF Holds(w)
           THEN [row EXCEPT ![Job(w)] = Unlocked(@, s)]
           ELSE row

\* Phase 2 succeeded.  complete()'s answer is ignored: the handler's writes are
\* committed whether or not the thread still held the lease.
Succeed(w) ==
    /\ At(w, "handling")
    /\ Release(w, "succeeded")
    /\ effects' = [effects EXCEPT ![Job(w)] = @ + 1]
    /\ owed' = IF Holds(w) /\ Job(w) \in aware THEN owed \ {row[Job(w)].key} ELSE owed
    /\ Rest(w)
    /\ UNCHANGED <<budget, reaps, aware>>

\* ctx.check_cancelled() read the flag: rollback, then mark_cancelled().
ObserveCancel(w) ==
    /\ At(w, "handling")
    /\ row[Job(w)].cancel
    /\ Release(w, "cancelled")
    /\ Rest(w)
    /\ UNCHANGED <<budget, history>>

\* A requeue gives way to a twin that is queued already.
Requeued(j) == IF TwinQueued(j) THEN "cancelled" ELSE "queued"

Decide(w, where, s) ==
    thread' = [thread EXCEPT ![w] = [@ EXCEPT !.at = where, !.verdict = s]]

\* Variant: one attempt too many.
FailStatusLate(j, retryable) ==
    IF ~retryable THEN "failed"
    ELSE IF row[j].attempts <= MaxAttempts THEN Requeued(j) ELSE "dead"

\* The status fail() chooses from what it reads.
FailStatus(j, retryable) ==
    IF ~retryable THEN "failed"
    ELSE IF row[j].attempts < MaxAttempts THEN Requeued(j) ELSE "dead"

\* Phase 3, the reads of fail(): the handler raised and was rolled back.
FailRead(w, retryable) ==
    /\ At(w, "handling")
    /\ Decide(w, "failing", FailStatus(Job(w), retryable))
    /\ UNCHANGED <<row, budget, history>>

\* Requeueing while a twin is queued violates uq_jobs_dedupe_queued.
Collides(w) == thread[w].verdict = "queued" /\ Holds(w) /\ TwinQueued(Job(w))

\* Variant: phase 3 without its commit.
FailWriteUncommitted(w) ==
    /\ At(w, "failing")
    /\ row' = row
    /\ Rest(w)
    /\ UNCHANGED <<budget, history>>

\* Phase 3, the UPDATE of fail().  On a collision the exception reaches
\* _thread_loop, which rolls back and goes on to its next job.
FailWrite(w) ==
    /\ At(w, "failing")
    /\ IF Collides(w) THEN row' = row ELSE Release(w, thread[w].verdict)
    /\ Rest(w)
    /\ UNCHANGED <<budget, history>>

\* JobDeferred: the handler found its advisory lock taken; the reads of defer().
DeferRead(w) ==
    /\ At(w, "handling")
    /\ Spend("defer")
    /\ Decide(w, "deferring", Requeued(Job(w)))
    /\ UNCHANGED <<row, history>>

\* GREATEST(attempts - 1, 0): waiting for a lock costs no attempt.
GiveBack(n) == IF n > 0 THEN n - 1 ELSE 0

Deferred(r, s) ==
    [Unlocked(r, s) EXCEPT !.attempts = IF s = "queued" THEN GiveBack(r.attempts) ELSE r.attempts]

\* The UPDATE of defer().
DeferWrite(w) ==
    /\ At(w, "deferring")
    /\ ~Collides(w)
    /\ row' = IF Holds(w) THEN [row EXCEPT ![Job(w)] = Deferred(row[Job(w)], thread[w].verdict)]
                           ELSE row
    /\ Rest(w)
    /\ UNCHANGED <<budget, history>>

\* defer() collided: worker.py turns it into a retryable failure.
DeferCollides(w) ==
    /\ At(w, "deferring")
    /\ Collides(w)
    /\ Decide(w, "failing", FailStatus(Job(w), TRUE))
    /\ UNCHANGED <<row, budget, history>>

-----------------------------------------------------------------------------
(***************************************************************************)
(* Leases: heartbeat, staleness, reaper, crash.                            *)
(***************************************************************************)
\* _heartbeat_loop: one transaction for all thread ids of the process.
Heartbeat(p) ==
    /\ Alive(p)
    /\ row' = [j \in Jobs |-> IF Running(j) /\ row[j].lockedBy # NoWorker
                                 /\ ProcOf[row[j].lockedBy] = p
                              THEN [row[j] EXCEPT !.fresh = TRUE] ELSE row[j]]
    /\ row' # row
    /\ UNCHANGED <<thread, budget, history>>

\* job_stale_seconds pass without a heartbeat: because the process is gone, or
\* because a live one is suspended or its heartbeat thread blocked (a lapse).
GoStale(j) ==
    /\ Running(j) /\ row[j].fresh
    /\ IF row[j].lockedBy \in Workers /\ Alive(ProcOf[row[j].lockedBy])
       THEN Spend("lapse") ELSE budget' = budget
    /\ row' = [row EXCEPT ![j] = [@ EXCEPT !.fresh = FALSE]]
    /\ UNCHANGED <<thread, history>>

\* Variant: only rows whose worker is still known are considered.
StaleOfTheLiving ==
    {j \in Jobs : Running(j) /\ ~row[j].fresh /\ Alive(ProcOf[row[j].lockedBy])}

Stale == {j \in Jobs : Running(j) /\ ~row[j].fresh}

\* reap_stale() is one UPDATE over every stale row; its EXISTS sees the table as
\* it was before the statement, so two stale rows of one key do not see each
\* other.  Requeueing both violates the unique index: the statement changes
\* nothing, and _reaper_loop (or tick) rolls back.
ReapCollides ==
    \E i, j \in Stale : i # j /\ row[i].key # NoKey /\ row[i].key = row[j].key
                        /\ Requeued(i) = "queued"

ReapStale ==
    /\ Stale # {}
    /\ \E p \in Procs : Alive(p)
    /\ ~ReapCollides
    /\ row' = [j \in Jobs |-> IF j \in Stale
                              THEN Unlocked(row[j], Requeued(j))
                              ELSE row[j]]
    /\ reaps' = [j \in Jobs |-> IF j \in Stale THEN reaps[j] + 1 ELSE reaps[j]]
    /\ UNCHANGED <<thread, budget, effects, owed, aware>>

\* The process dies; whatever its threads had not committed is rolled back.  A
\* restart is another process, with thread ids of its own.
Crash(p) ==
    /\ Alive(p)
    /\ Spend("crash")
    /\ thread' = [w \in Workers |-> IF ProcOf[w] = p THEN Down ELSE thread[w]]
    /\ UNCHANGED <<row, history>>

-----------------------------------------------------------------------------
ThreadStep(w) ==
    \/ \E j \in Jobs : Dequeue(w, j)
    \/ Succeed(w)
    \/ ObserveCancel(w)
    \/ \E retryable \in BOOLEAN : FailRead(w, retryable)
    \/ FailWrite(w)
    \/ DeferRead(w)
    \/ DeferWrite(w)
    \/ DeferCollides(w)

Next ==
    \/ \E k \in Keys \cup {NoKey} : Enqueue(k)
    \/ \E j \in Jobs : Cancel(j) \/ Retry(j) \/ GoStale(j)
    \/ \E w \in Workers : ThreadStep(w)
    \/ \E p \in Procs : Heartbeat(p) \/ Crash(p)
    \/ ReapStale

Spec == Init /\ [][Next]_vars

\* What the processes do for certain: a handler returns, a thread that polls
\* takes the oldest due job (ORDER BY run_after, id: no due job is passed over
\* for ever), a dead process's heartbeat ages, and the reaper comes round.
Fairness ==
    /\ \A w \in Workers : WF_vars(Succeed(w) \/ FailWrite(w) \/ DeferWrite(w) \/ DeferCollides(w))
    /\ \A j \in Jobs : SF_vars(\E w \in Workers : Dequeue(w, j))
    /\ \A j \in Jobs : WF_vars(GoStale(j) /\ budget' = budget)
    /\ WF_vars(ReapStale)

FairSpec == Spec /\ Fairness

-----------------------------------------------------------------------------
(***************************************************************************)
(* Properties.                                                             *)
(***************************************************************************)
\* Producers of one key debounce: it is never queued twice, whichever of
\* enqueue, fail, defer, reap_stale and retry puts a row back.
OneQueuedPerKey ==
    \A i, j \in Jobs : Queued(i) /\ Queued(j) /\ row[i].key = row[j].key
                        /\ row[i].key # NoKey => i = j

\* At-least-once is also at-most-once for a job that was never reaped: a handler's
\* writes commit twice only when a live thread lost its lease in between.
OnceUnlessReaped == \A j \in Jobs : effects[j] <= 1 + reaps[j]

\* max_attempts bounds the runs of a job; only the reaper, which does not look
\* at attempts, can take it further, by one per reap.
AttemptsBounded == \A j \in Jobs : row[j].attempts <= MaxAttempts + reaps[j]

\* A change no handler has seen has a queued job of its key, or a run that began
\* after it and either goes on or gave up in a way an operator can see; or else a
\* row of the key carries the flag of a cancel request.
ChangeCovered ==
    \A k \in owed : \E j \in OfKey(k) :
        \/ Queued(j)
        \/ j \in aware /\ row[j].status \in {"running", "failed", "dead"}
        \/ row[j].cancel

\* ARCHITECTURE.md: "a change arriving mid-run is never swallowed by the job
\* already handling it", with no exception.
ChangeNeverSwallowed ==
    \A k \in owed : \E j \in OfKey(k) :
        Queued(j) \/ (j \in aware /\ row[j].status \in {"running", "failed", "dead"})

\* A running job whose live thread works on something else is heartbeaten for
\* ever.  Without a dedupe key nothing in fail or defer can strand a job so.
KeylessNeverStranded ==
    \A j \in Jobs : Running(j) /\ row[j].key = NoKey =>
        LET w == row[j].lockedBy IN At(w, "down") \/ (thread[w].at \in Busy /\ Job(w) = j)

\* A lease ends by the thread that holds it or by the reaper, and then only
\* stale: a thread that lost its lease never changes the row again.
LeaseEndsProperly ==
    [][\A j \in Jobs : Running(j) /\ ~(Running(j)' /\ row'[j].lockedBy = row[j].lockedBy) =>
          \/ reaps'[j] = reaps[j] + 1 /\ ~row[j].fresh
          \/ LET w == row[j].lockedBy IN Job(w) = j /\ thread'[w] = Idle]_vars

\* Success and cancellation are final, and a job that gave up comes back only
\* by a user's retry.
SettledStays ==
    [][\A j \in Jobs : row[j].status \in Terminal /\ row'[j].status # row[j].status =>
          row[j].status \in {"failed", "dead"} /\ budget'["retry"] < budget["retry"]]_vars

\* The table read as a board: attempts, heartbeats and cancel flags left out.
Stands == [absent |-> "blank", queued |-> "waiting", running |-> "held", succeeded |-> "done",
           failed |-> "givenUp", dead |-> "givenUp", cancelled |-> "cancelled"]

CardOf(r) == [is |-> Stands[r.status], key |-> r.key, by |-> r.lockedBy]

cards == [j \in Jobs |-> CardOf(row[j])]

Board == INSTANCE JobBoard WITH board <- cards

\* The queue is a board: whatever thread, reaper or request changes the table, a key
\* has one waiting card, a card one holder, and a settled card stays down unless it was
\* given up.
ImplementsBoard == Board!BoardSpec

\* Every job that is queued is settled in the end.
EveryJobSettles ==
    \A j \in Jobs : Queued(j) ~> row[j].status \in Terminal

\* reap_stale: "Return jobs whose worker died to the queue so another worker can
\* pick them up."
DeadWorkersJobsReturn ==
    \A j \in Jobs : (Running(j) /\ At(row[j].lockedBy, "down")) ~> ~Running(j)

\* "Phase 3: ... fail() and commit": a job whose handler raised does not stay
\* running.
FailedRunsEnd ==
    \A j \in Jobs : Running(j) ~> ~Running(j)
=============================================================================

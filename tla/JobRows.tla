------------------------------ MODULE JobRows ------------------------------
(***************************************************************************)
(* The rows of the jobs one worker process runs, as row locks see them     *)
(* (app/jobs/registry.py, worker.py, queue.py): a handler tells progress   *)
(* in a session of its own and leaves the same value on the job of its own *)
(* session, whose next flush writes the row and holds it until the handler *)
(* ends; the heartbeat of the process, the reaper and a cancel write the   *)
(* same rows, and wait for them. JobQueue has the queue itself.            *)
(***************************************************************************)
EXTENDS Integers, Sequences, FiniteSets, FiniteSetsExt, SequencesExt

CONSTANTS
    ThreadJobs,     \* the running jobs, in the order of their threads
    ScanOrder,      \* the order the reaper meets them in
    MaxTold         \* bound: how often each handler tells progress

RunningJobs == ToSet(ThreadJobs)

ASSUME JobRowsAssumption ==
    /\ ThreadJobs \in Seq(RunningJobs) /\ ScanOrder \in Seq(RunningJobs)
    /\ MaxTold \in [RunningJobs -> Nat] /\ ToSet(ScanOrder) = RunningJobs
    /\ {"nobody", "heartbeat", "reaper"} \cap RunningJobs = {}

VARIABLES
    row,            \* committed: [status, fresh, cancel, shown]
    holder,         \* the transaction that has written the row and not ended
    handler,        \* [doing, told, dirty]: dirty is the job of the handler's session
    beat,           \* the heartbeat: how many threads it has been through
    reap,           \* the reaper: how many rows; 0 for neither
    cancelling,     \* a request to cancel each job: "none", "waiting" or "returned"
    stalledBy       \* who had the row the heartbeat waited job_stale_seconds for, once

rowsVars == <<row, holder, handler, beat, reap, cancelling, stalledBy>>

NoHolder == "nobody"
Beating == "heartbeat"
Reaping == "reaper"

JobRowsInit ==
    /\ row = [j \in RunningJobs |->
                [status |-> "running", fresh |-> TRUE, cancel |-> FALSE, shown |-> 0]]
    /\ holder = [j \in RunningJobs |-> NoHolder]
    /\ handler = [j \in RunningJobs |-> [doing |-> "working", told |-> 0, dirty |-> FALSE]]
    /\ beat = 0 /\ reap = 0 /\ stalledBy = NoHolder
    /\ cancelling = [j \in RunningJobs |-> "none"]

RowFree(j) == holder[j] = NoHolder
Mine(j) == holder[j] \in {NoHolder, j}
Now(j, doing) == handler' = [handler EXCEPT ![j].doing = doing]

-----------------------------------------------------------------------------
(***************************************************************************)
(* A handler.                                                              *)
(***************************************************************************)
\* JobContext.progress, in a session of its own.
TellProgress(j) ==
    /\ handler[j].doing = "working" /\ handler[j].told < MaxTold[j]
    /\ handler' = [handler EXCEPT ![j].doing = "telling", ![j].told = @ + 1]
    /\ UNCHANGED <<row, holder, beat, reap, cancelling, stalledBy>>

\* It has the row at once and commits; the job of the handler's session is changed too.
Tell(j) ==
    /\ handler[j].doing = "telling" /\ RowFree(j)
    /\ row' = [row EXCEPT ![j].shown = handler[j].told]
    /\ handler' = [handler EXCEPT ![j].doing = "working", ![j].dirty = TRUE]
    /\ UNCHANGED <<holder, beat, reap, cancelling, stalledBy>>

\* Variant: no lock_timeout.
WaitsForEver(j) == FALSE
LockTimeout(j) == ~RowFree(j)

\* Variant: the value is left out of the handler's own session.
GiveUpAndForget(j) ==
    /\ handler[j].doing = "telling" /\ LockTimeout(j)
    /\ Now(j, "working")
    /\ UNCHANGED <<row, holder, beat, reap, cancelling, stalledBy>>

\* Or lock_timeout passes, and the handler's own session is to write it.
GiveUpTelling(j) ==
    /\ handler[j].doing = "telling" /\ LockTimeout(j)
    /\ handler' = [handler EXCEPT ![j].doing = "flushing", ![j].dirty = TRUE]
    /\ UNCHANGED <<row, holder, beat, reap, cancelling, stalledBy>>

\* A flush of the handler's session, which writes the job when it is dirty.
Flush(j) ==
    /\ handler[j].doing = "working" /\ handler[j].dirty
    /\ Now(j, "flushing")
    /\ UNCHANGED <<row, holder, beat, reap, cancelling, stalledBy>>

RowFlushed(j) ==
    /\ handler[j].doing = "flushing" /\ Mine(j)
    /\ holder' = [holder EXCEPT ![j] = j]
    /\ handler' = [handler EXCEPT ![j].doing = "working", ![j].dirty = FALSE]
    /\ UNCHANGED <<row, beat, reap, cancelling, stalledBy>>

\* check_cancelled reads what is committed; a handler that was asked to stop rolls back,
\* and mark_cancelled writes the row in a transaction after that.
CheckCancelled(j) ==
    /\ handler[j].doing = "working" /\ row[j].cancel
    /\ Now(j, "stopping")
    /\ holder' = [holder EXCEPT ![j] = IF @ = j THEN NoHolder ELSE @]
    /\ UNCHANGED <<row, beat, reap, cancelling, stalledBy>>

\* It ends: complete, and commit; of a job that was reaped nothing is written.
Return(j) ==
    /\ handler[j].doing = "working"
    /\ Now(j, "completing")
    /\ UNCHANGED <<row, holder, beat, reap, cancelling, stalledBy>>

End(j, status) ==
    /\ row' = [row EXCEPT ![j].status = IF @ = "running" THEN status ELSE @,
                          ![j].shown = IF status = "succeeded" THEN handler[j].told ELSE @]
    /\ holder' = [holder EXCEPT ![j] = NoHolder]
    /\ Now(j, "done")
    /\ UNCHANGED <<beat, reap, cancelling, stalledBy>>

CompleteRow(j) == handler[j].doing = "completing" /\ Mine(j) /\ End(j, "succeeded")
MarkCancelled(j) == handler[j].doing = "stopping" /\ Mine(j) /\ End(j, "cancelled")

-----------------------------------------------------------------------------
(***************************************************************************)
(* The heartbeat: one transaction for all the threads, in their order. It  *)
(* writes the running rows and commits when it has been through.           *)
(***************************************************************************)
BeatRow ==
    /\ beat < Len(ThreadJobs)
    /\ LET j == ThreadJobs[beat + 1] IN
        IF row[j].status = "running"
        THEN RowFree(j) /\ holder' = [holder EXCEPT ![j] = Beating]
        ELSE UNCHANGED holder
    /\ beat' = beat + 1
    /\ UNCHANGED <<row, handler, reap, cancelling, stalledBy>>

Freed(who) == [j \in RunningJobs |-> IF holder[j] = who THEN NoHolder ELSE holder[j]]

BeatCommit ==
    /\ beat = Len(ThreadJobs)
    /\ row' = [j \in RunningJobs |-> [row[j] EXCEPT !.fresh = (@ \/ holder[j] = Beating)]]
    /\ holder' = Freed(Beating)
    /\ beat' = 0
    /\ UNCHANGED <<handler, reap, cancelling, stalledBy>>

\* The heartbeat has waited for a row for job_stale_seconds: the rows of the process
\* that it has not come to are stale.
Stall ==
    /\ stalledBy = NoHolder
    /\ beat < Len(ThreadJobs) /\ ~RowFree(ThreadJobs[beat + 1])
    /\ row' = [j \in RunningJobs |-> [row[j] EXCEPT !.fresh = FALSE]]
    /\ stalledBy' = holder[ThreadJobs[beat + 1]]
    /\ UNCHANGED <<holder, handler, beat, reap, cancelling>>

\* reap_stale, one statement, in the order of the table; a row it waited for is looked
\* at again when it has it.
ReapRow ==
    /\ reap < Len(ScanOrder)
    /\ LET j == ScanOrder[reap + 1] IN
        IF row[j].status = "running" /\ ~row[j].fresh
        THEN RowFree(j) /\ holder' = [holder EXCEPT ![j] = Reaping]
        ELSE UNCHANGED holder
    /\ reap' = reap + 1
    /\ UNCHANGED <<row, handler, beat, cancelling, stalledBy>>

ReapCommit ==
    /\ reap = Len(ScanOrder)
    /\ row' = [j \in RunningJobs |->
                   [row[j] EXCEPT !.status = IF holder[j] = Reaping THEN "queued" ELSE @]]
    /\ holder' = Freed(Reaping)
    /\ reap' = 0
    /\ UNCHANGED <<handler, beat, cancelling, stalledBy>>

\* Each waits for a row the other has: the database ends one of the two, which is
\* rolled back and comes round again.
BeatWaits == beat < Len(ThreadJobs) /\ row[ThreadJobs[beat + 1]].status = "running"
             /\ holder[ThreadJobs[beat + 1]] = Reaping
ReapWaits == reap < Len(ScanOrder) /\ row[ScanOrder[reap + 1]].status = "running"
             /\ ~row[ScanOrder[reap + 1]].fresh /\ holder[ScanOrder[reap + 1]] = Beating
EndDeadlock(who) ==
    /\ BeatWaits /\ ReapWaits
    /\ holder' = Freed(who)
    /\ beat' = IF who = Beating THEN 0 ELSE beat
    /\ reap' = IF who = Reaping THEN 0 ELSE reap
    /\ UNCHANGED <<row, handler, cancelling, stalledBy>>

\* cancel of a running job.
AskToCancel(j) ==
    /\ cancelling[j] = "none"
    /\ cancelling' = [cancelling EXCEPT ![j] = "waiting"]
    /\ UNCHANGED <<row, holder, handler, beat, reap, stalledBy>>

CancelReturns(j) ==
    /\ cancelling[j] = "waiting" /\ RowFree(j)
    /\ row' = [row EXCEPT ![j].cancel = (@ \/ row[j].status = "running")]
    /\ cancelling' = [cancelling EXCEPT ![j] = "returned"]
    /\ UNCHANGED <<holder, handler, beat, reap, stalledBy>>

HandlerStep(j) == \/ Tell(j) \/ GiveUpTelling(j) \/ RowFlushed(j) \/ CheckCancelled(j)
                  \/ Return(j) \/ CompleteRow(j) \/ MarkCancelled(j)
BeatSteps == BeatRow \/ BeatCommit \/ EndDeadlock(Beating)
Reaps == ReapRow \/ ReapCommit \/ EndDeadlock(Reaping)

JobRowsNext ==
    \/ BeatSteps \/ Reaps \/ Stall
    \/ \E j \in RunningJobs :
        HandlerStep(j) \/ TellProgress(j) \/ Flush(j) \/ AskToCancel(j) \/ CancelReturns(j)

\* A handler ends (its calls time out), a sweep goes on when it can, and a row goes to
\* those who wait for it in turn.
RowsFairness ==
    /\ \A j \in RunningJobs : SF_rowsVars(HandlerStep(j)) /\ SF_rowsVars(CancelReturns(j))
    /\ WF_rowsVars(BeatSteps) /\ WF_rowsVars(Reaps)

JobRowsSpec == JobRowsInit /\ [][JobRowsNext]_rowsVars /\ RowsFairness

-----------------------------------------------------------------------------

\* What a reader sees of a running job is the last it told, but for what the handler's
\* own transaction has not committed: then it is older, for as long as the handler runs.
ShownIsTold ==
    \A j \in RunningJobs :
        /\ row[j].shown <= handler[j].told
        /\ row[j].shown < handler[j].told /\ handler[j].doing = "working" /\ ~handler[j].dirty =>
                holder[j] = j

\* No handler and no cancel is in a circle of waits: a handler that holds its row waits
\* for nothing, and neither sweep waits for a handler that waits for it.
Waits(j) == handler[j].doing \in {"flushing", "completing", "stopping"} /\ ~Mine(j)
HandlersWaitForSweeps == \A j \in RunningJobs :
    Waits(j) => holder[j] \in {Beating, Reaping}

\* A job is taken from a handler that is still at work only for the row of another: its
\* own it holds, which keeps the reaper from it for as long as the heartbeat is kept.
ReapedForAnother ==
    \A j \in RunningJobs :
        row[j].status = "queued" /\ handler[j].doing \notin {"stopping", "done"} =>
            stalledBy \notin {NoHolder, j}

RowsTell == ShownIsTold /\ HandlersWaitForSweeps /\ ReapedForAnother

\* Telling progress never stops a handler, and a cancel is answered in the end, though
\* it may be when the handler is done.
RowsMoveOn == <>[](\A j \in RunningJobs : handler[j].doing # "telling" /\ cancelling[j] # "waiting")
=============================================================================

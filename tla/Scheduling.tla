----------------------------- MODULE Scheduling -----------------------------
(* The scheduler of app/jobs/scheduler.py and the schedules it fires: one     *)
(* transaction per tick, in whichever process holds the advisory lock, that   *)
(* enqueues due schedules and the weekly diff and, every few minutes, reaps   *)
(* stale jobs; and the requests that change a schedule meanwhile.             *)
(*                                                                            *)
(* Time counts hours of a scaled-down calendar.  A tick reads in one step and *)
(* commits in another: the embedding and diff work between them can take long.*)
(* Watched sources are in module Sources, query watches in Watching.          *)
EXTENDS Integers, FiniteSets

CONSTANTS
    HoursPerDay, DaysPerWeek,   \* 24 and 7, scaled down
    EveryDay,       \* cron_day_of_week IS NULL
    NoSlot,         \* next_run_at IS NULL
    Schedulers,      \* processes that run scheduler_loop
    MaintenanceGap, \* MAINTENANCE_INTERVAL_SECONDS
    MaxTime,        \* bound: the last hour
    TickHours,      \* bound: the hours a tick may last
    ScheduleEvents  \* bound: requests that create, change or delete the schedule

ASSUME SchedulingAssumption ==
    /\ {HoursPerDay, DaysPerWeek, MaintenanceGap} \subseteq Nat \ {0}
    /\ {MaxTime, TickHours, ScheduleEvents} \subseteq Nat
    /\ Schedulers # {}
    /\ NoSlot \in Int \ Nat
    /\ EveryDay \in Int \ Nat

VARIABLES
    hour,           \* now
    schedule,       \* a row of scheduled_jobs
    ticker,         \* the tick in progress, with what it read
    maintainedAt,   \* _last_maintenance_at of each process
    stuck,          \* two stale rows of one key: reap_stale violates the unique index
    enqueued,       \* how often a job row was made for each key
    waiting,        \* keys whose job is still queued
    scheduleLeft,   \* how many requests are left
    crossed         \* history: the last write of next_run_at was a tick's that had
                    \* read the schedule before a request changed it

schedulingVars == <<hour, schedule, ticker, maintainedAt, stuck, enqueued, waiting,
                    scheduleLeft, crossed>>

Times == 0..MaxTime
Week == HoursPerDay * DaysPerWeek
Days == 0..(DaysPerWeek - 1)
NotStored == -1

Slot(t) == [kind |-> "sched", at |-> t]
WeeklyDiff(t) == [kind |-> "diff", at |-> t \div Week]
JobKeys == {Slot(t) : t \in Times} \cup {WeeklyDiff(t) : t \in Times}

NoSchedule == [row |-> "none", enabled |-> FALSE, day |-> EveryDay, at |-> 0, next |-> NoSlot]
NotTicking == [at |-> "idle", process |-> CHOOSE p \in Schedulers : TRUE, now |-> 0,
               seen |-> NoSchedule]

SchedulingInit ==
    /\ hour = 0
    /\ schedule = NoSchedule
    /\ ticker = NotTicking
    /\ maintainedAt = [p \in Schedulers |-> NotStored]
    /\ stuck = FALSE
    /\ enqueued = [k \in JobKeys |-> 0]
    /\ waiting = {}
    /\ scheduleLeft = ScheduleEvents
    /\ crossed = FALSE

-----------------------------------------------------------------------------
(***************************************************************************)
(* compute_next_run_at.                                                    *)
(***************************************************************************)
DayOf(t) == (t \div HoursPerDay) % DaysPerWeek
Step(s) == IF s.day = EveryDay THEN HoursPerDay ELSE Week

\* The base's date at the schedule's hour, lined up on its weekday.
Candidate(s, base) ==
    LET sameDay == (base \div HoursPerDay) * HoursPerDay + s.at IN
    IF s.day = EveryDay THEN sameDay
    ELSE sameDay + ((s.day - DayOf(sameDay)) % DaysPerWeek) * HoursPerDay

\* Variant: stops as soon as it has reached now.
NextRunReaching(s, now) ==
    IF ~s.enabled THEN NoSlot
    ELSE LET c == Candidate(s, IF s.next = NoSlot THEN now ELSE s.next) IN
         IF c >= now THEN c ELSE c + ((now - c + Step(s) - 1) \div Step(s)) * Step(s)

\* From the old slot in whole periods, strictly past now.
NextRun(s, now) ==
    IF ~s.enabled THEN NoSlot
    ELSE LET c == Candidate(s, IF s.next = NoSlot THEN now ELSE s.next) IN
         IF c > now THEN c ELSE c + ((now - c) \div Step(s) + 1) * Step(s)

OnCron(s, t) == /\ t % HoursPerDay = s.at
                /\ s.day \in {EveryDay, DayOf(t)}

(***************************************************************************)
(* Requests.                                                               *)
(***************************************************************************)
Request == scheduleLeft > 0 /\ scheduleLeft' = scheduleLeft - 1

CreateSchedule(day, at) ==
    /\ Request
    /\ schedule.row = "none"
    /\ LET new == [row |-> "kept", enabled |-> TRUE, day |-> day, at |-> at, next |-> NoSlot] IN
       schedule' = [new EXCEPT !.next = NextRun(new, hour)]
    /\ crossed' = FALSE
    /\ UNCHANGED <<hour, ticker, maintainedAt, stuck, enqueued, waiting>>

Rescheduled(s) == [s EXCEPT !.next = NextRun(s, hour)]

\* A request cannot set the weekday back to none: None means "unchanged".
UpdateSchedule(enabled, day, at) ==
    /\ Request
    /\ schedule.row = "kept"
    /\ schedule' = Rescheduled([schedule EXCEPT !.enabled = enabled, !.at = at,
                                                !.day = IF day = EveryDay THEN @ ELSE day])
    /\ crossed' = FALSE
    /\ UNCHANGED <<hour, ticker, maintainedAt, stuck, enqueued, waiting>>

DeleteSchedule ==
    /\ Request
    /\ schedule.row = "kept"
    /\ schedule' = [NoSchedule EXCEPT !.row = "gone"]
    /\ UNCHANGED <<hour, ticker, maintainedAt, stuck, enqueued, waiting, crossed>>

-----------------------------------------------------------------------------
(***************************************************************************)
(* The world around a tick.                                                *)
(***************************************************************************)
PassHour ==
    /\ hour < MaxTime
    /\ ticker.at = "ticking" => hour - ticker.now < TickHours
    /\ hour' = hour + 1
    /\ UNCHANGED <<schedule, ticker, maintainedAt, stuck, enqueued, waiting, scheduleLeft, crossed>>

\* The workers (module JobQueue) take what is queued.
RunJobs ==
    /\ waiting # {}
    /\ waiting' = {}
    /\ UNCHANGED <<hour, schedule, ticker, maintainedAt, stuck, enqueued, scheduleLeft, crossed>>

\* Two rows of one key go stale; only a hand can undo it (module JobQueue).
GetStuck ==
    /\ ~stuck
    /\ stuck' = TRUE
    /\ UNCHANGED <<hour, schedule, ticker, maintainedAt, enqueued, waiting, scheduleLeft, crossed>>

-----------------------------------------------------------------------------
(***************************************************************************)
(* tick.                                                                   *)
(***************************************************************************)
Due(s, now) == s.enabled /\ s.next # NoSlot /\ s.next <= now

TickStart(p) ==
    /\ ticker.at = "idle"
    /\ ticker' = [at |-> "ticking", process |-> p, now |-> hour, seen |-> schedule]
    /\ UNCHANGED <<hour, schedule, maintainedAt, stuck, enqueued, waiting, scheduleLeft, crossed>>

\* A queued job of the key stands for a second; a weekly diff of any status does.
Fired == IF Due(ticker.seen, ticker.now) THEN {Slot(ticker.seen.next)} ELSE {}

Diffs == {WeeklyDiff(ticker.now)} \cap {k \in JobKeys : enqueued[k] = 0}

Fresh == (Fired \cup Diffs) \ waiting

MaintenanceDue ==
    LET last == maintainedAt[ticker.process] IN
    last = NotStored \/ ticker.now - last >= MaintenanceGap

\* reap_stale fails, or the fired schedule is gone: the whole tick rolls back.
TickBreaks ==
    \/ MaintenanceDue /\ stuck
    \/ Fired # {} /\ schedule.row # "kept"

\* Variant: the process remembers only a maintenance that went well.
MarkMaintenanceAfter ==
    maintainedAt' = IF MaintenanceDue /\ ~TickBreaks
                    THEN [maintainedAt EXCEPT ![ticker.process] = ticker.now] ELSE maintainedAt

\* _last_maintenance_at is set first, in memory, and no rollback takes it back.
MarkMaintenance ==
    maintainedAt' = IF MaintenanceDue
                    THEN [maintainedAt EXCEPT ![ticker.process] = ticker.now] ELSE maintainedAt

TickCommit ==
    /\ ticker.at = "ticking"
    /\ ~TickBreaks
    /\ MarkMaintenance
    /\ enqueued' = [k \in JobKeys |-> enqueued[k] + IF k \in Fresh THEN 1 ELSE 0]
    /\ waiting' = waiting \cup Fresh
    /\ schedule' = IF Fired = {} THEN schedule
                   ELSE [schedule EXCEPT !.next = NextRun(ticker.seen, ticker.now)]
    /\ crossed' = IF Fired = {} THEN crossed ELSE schedule # ticker.seen
    /\ ticker' = NotTicking
    /\ UNCHANGED <<hour, stuck, scheduleLeft>>

TickRollback ==
    /\ ticker.at = "ticking"
    /\ TickBreaks
    /\ \/ MarkMaintenance
       \/ Fired # {} /\ schedule.row # "kept" /\ UNCHANGED maintainedAt
    /\ ticker' = NotTicking
    /\ UNCHANGED <<hour, schedule, stuck, enqueued, waiting, scheduleLeft, crossed>>

SchedulingNext ==
    \/ \E day \in Days \cup {EveryDay}, at \in 0..(HoursPerDay - 1) :
         \/ CreateSchedule(day, at)
         \/ \E enabled \in BOOLEAN : UpdateSchedule(enabled, day, at)
    \/ DeleteSchedule
    \/ PassHour
    \/ RunJobs
    \/ GetStuck
    \/ \E p \in Schedulers : TickStart(p)
    \/ TickCommit
    \/ TickRollback

\* Every process keeps ticking; the database ends each transaction.
SchedulingFairness ==
    /\ WF_schedulingVars(\E p \in Schedulers : TickStart(p))
    /\ WF_schedulingVars(TickCommit \/ TickRollback)

SchedulingSpec == SchedulingInit /\ [][SchedulingNext]_schedulingVars /\ SchedulingFairness

-----------------------------------------------------------------------------
(***************************************************************************)
(* Properties.                                                             *)
(***************************************************************************)
ScheduleRow == [row : {"none", "kept", "gone"}, enabled : BOOLEAN, day : Days \cup {EveryDay},
                at : 0..(HoursPerDay - 1), next : Nat \cup {NoSlot}]

SchedulingTypeOK ==
    /\ hour \in Times
    /\ schedule \in ScheduleRow
    /\ ticker \in [at : {"idle", "ticking"}, process : Schedulers, now : Times, seen : ScheduleRow]
    /\ maintainedAt \in [Schedulers -> Times \cup {NotStored}]
    /\ stuck \in BOOLEAN
    /\ enqueued \in [JobKeys -> Nat]
    /\ waiting \subseteq JobKeys
    /\ scheduleLeft \in Nat
    /\ crossed \in BOOLEAN

\* A schedule fires each slot once and a week gets one diff, though the queued job
\* that stands for a duplicate may have run before the next tick.
EachSlotOnce == \A k \in JobKeys : enqueued[k] <= 1

\* An enabled schedule waits for an hour of its own calendar, still to come when it
\* was computed; a tick that read it before it was changed leaves one old slot.
NextFollowsTheSchedule ==
    schedule.row = "kept" /\ schedule.enabled =>
        schedule.next # NoSlot /\ (OnCron(schedule, schedule.next) \/ crossed)

\* A due schedule fires or is changed, even while maintenance cannot succeed.
DueIsFired == Due(schedule, hour) ~> ~Due(schedule, hour)

\* What the scheduler owes a schedule.
ScheduleTells == EachSlotOnce /\ NextFollowsTheSchedule
=============================================================================

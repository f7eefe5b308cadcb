-------------------------- MODULE BackgroundProofs ---------------------------
(* Proofs about what runs behind the requests: schedules and their slots    *)
(* (Scheduling), the rows of jobs at work (JobRows), query watches          *)
(* (Watching), and what stands before and behind a model call: the          *)
(* provider's tokens (Connections), the administrator's settings            *)
(* (LLMSettings), the parameters a model refuses (Negotiation), what of its *)
(* reply is the answer (Thinking) and the recorded answers of tests         *)
(* (Cassette).                                                              *)
EXTENDS Background, SequenceTheorems, FiniteSetTheorems, WellFoundedInduction, TLAPS

-----------------------------------------------------------------------------
(* Schedules.                                                               *)

\* Division leaves a remainder smaller than the divisor.
LEMMA Division ==
    ASSUME NEW a \in Int, NEW b \in Nat \ {0}
    PROVE  /\ a \div b \in Int /\ a % b \in 0..(b - 1)
           /\ a = (a \div b) * b + (a % b)
OBVIOUS

\* There is one quotient and one remainder.
LEMMA DivisionUnique ==
    ASSUME NEW b \in Nat \ {0}, NEW q \in Int, NEW r \in 0..(b - 1)
    PROVE  (q * b + r) \div b = q /\ (q * b + r) % b = r
<1> DEFINE a == q * b + r
           d == a \div b
           m == a % b
<1>1. a \in Int OBVIOUS
<1>2. d \in Int /\ m \in 0..(b - 1) /\ a = d * b + m BY <1>1, Division
<1>3. q * b + r = d * b + m BY <1>2
<1> HIDE DEF a, d, m
<1>4. (q - d) * b = m - r BY <1>2, <1>3
<1>5. ~(q - d >= 1)
  <2>1. SUFFICES ASSUME q - d >= 1 PROVE FALSE OBVIOUS
  <2>2. (q - d) * b >= b BY <1>2, <2>1
  <2> QED BY <1>2, <1>4, <2>2
<1>6. ~(q - d <= -1)
  <2>1. SUFFICES ASSUME q - d <= -1 PROVE FALSE OBVIOUS
  <2>2. (q - d) * b <= -b BY <1>2, <2>1
  <2> QED BY <1>2, <1>4, <2>2
<1>7. q = d BY <1>2, <1>5, <1>6
<1>8. r = m BY <1>2, <1>3, <1>7
<1> QED BY <1>7, <1>8 DEF a, d, m

\* An hour h of the day d (counted from the first) of a schedule's calendar.
OnDay(s, d) == s.day = EveryDay \/ s.day = d % DaysPerWeek

\* An hour has a day, and a day a place in its week.
LEMMA Calendar ==
    /\ HoursPerDay \in Nat \ {0} /\ DaysPerWeek \in Nat \ {0} /\ MaxTime \in Nat
    /\ MaintenanceGap \in Nat /\ NoSlot \in Int /\ NoSlot \notin Nat
    /\ EveryDay \notin Nat /\ EveryDay \in Int
    /\ Week \in Nat \ {0} /\ Week = HoursPerDay * DaysPerWeek
BY SchedulingAssumption DEF Week

\* The candidate is the schedule's hour of one of its days.
LEMMA CandidateOnCalendar ==
    ASSUME NEW s \in ScheduleRow, NEW base \in Nat
    PROVE  \E d \in Nat : Candidate(s, base) = d * HoursPerDay + s.at /\ OnDay(s, d)
<1> DEFINE H == HoursPerDay
           D == DaysPerWeek
           q == base \div H
           sameDay == q * H + s.at
<1>1. H \in Nat \ {0} /\ D \in Nat \ {0} /\ EveryDay \notin Nat BY Calendar
<1>2. s.at \in 0..(H - 1) /\ s.day \in Days \cup {EveryDay} BY DEF ScheduleRow
<1>3. q \in Int /\ base = q * H + (base % H) /\ base % H \in 0..(H - 1) BY <1>1, Division
<1>4. q >= 0
  <2>1. SUFFICES ASSUME q <= -1 PROVE FALSE BY <1>3
  <2>2. q * H <= -H BY <1>1, <1>3, <2>1
  <2> QED BY <1>1, <1>3, <2>2
<1>5. sameDay \div H = q BY <1>1, <1>2, <1>3, DivisionUnique
<1>6. CASE s.day = EveryDay BY <1>3, <1>4, <1>6 DEF Candidate, OnDay
<1>7. CASE s.day # EveryDay
  <2> DEFINE w == (s.day - DayOf(sameDay)) % D
  <2>1. DayOf(sameDay) = q % D BY <1>5 DEF DayOf
  <2>2. s.day \in 0..(D - 1) BY <1>2, <1>7 DEF Days
  <2>3. q % D \in 0..(D - 1) /\ q \div D \in Int /\ q = (q \div D) * D + (q % D)
    BY <1>1, <1>3, Division
  <2> DEFINE z == s.day - (q % D)
  <2>4. z \in Int BY <1>1, <2>2, <2>3
  <2>5. z \div D \in Int /\ z % D \in 0..(D - 1) /\ z = (z \div D) * D + (z % D)
    BY <1>1, <2>4, Division
  <2>6. w = z % D BY <2>1
  <2>7. q + w = (q \div D - z \div D) * D + s.day
    <3> DEFINE qd == q \div D
               zd == z \div D
    <3>1. q = qd * D + (q % D) /\ s.day - (q % D) = zd * D + w /\ qd \in Int /\ zd \in Int /\ q % D \in Int /\ w \in Int
      BY <1>1, <2>3, <2>5, <2>6
    <3> HIDE DEF qd, zd, w, z
    <3>2. q + w = qd * D - zd * D + s.day BY <1>1, <2>2, <3>1
    <3>3. qd * D - zd * D = (qd - zd) * D BY <1>1, <3>1
    <3> QED BY <3>2, <3>3 DEF qd, zd
  <2>8. (q + w) % D = s.day
    <3>1. q \div D - z \div D \in Int BY <2>3, <2>5
    <3> QED BY <1>1, <2>2, <2>7, <3>1, DivisionUnique
  <2>9. q + w \in Nat BY <1>1, <1>3, <1>4, <2>5, <2>6
  <2>10. Candidate(s, base) = sameDay + w * H BY <1>7 DEF Candidate
  <2>11. sameDay + w * H = (q + w) * H + s.at
    <3> HIDE DEF w, z
    <3>1. q \in Int /\ w \in Int /\ H \in Int /\ s.at \in Int BY <1>1, <1>2, <1>3, <2>5, <2>6
    <3> HIDE DEF q, H
    <3> QED BY <3>1
  <2> QED BY <2>8, <2>9, <2>10, <2>11 DEF OnDay
<1> QED BY <1>6, <1>7

\* A whole period later is on the calendar too.
LEMMA LaterOnCalendar ==
    ASSUME NEW s \in ScheduleRow, NEW d \in Nat, OnDay(s, d), NEW k \in Nat
    PROVE  \E e \in Nat : /\ (d * HoursPerDay + s.at) + k * Step(s) = e * HoursPerDay + s.at
                          /\ OnDay(s, e)
<1> DEFINE H == HoursPerDay
           D == DaysPerWeek
<1>1. H \in Nat \ {0} /\ D \in Nat \ {0} /\ Week = H * D BY Calendar
<1>2. s.at \in Int BY <1>1 DEF ScheduleRow
<1> HIDE DEF H, D
<1>3. CASE s.day = EveryDay
  <2>1. (d * H + s.at) + k * H = (d + k) * H + s.at /\ d + k \in Nat BY <1>1, <1>2
  <2> QED BY <1>3, <2>1 DEF OnDay, Step, H
<1>4. CASE s.day # EveryDay
  <2>1. k * D \in Nat /\ d + k * D \in Nat BY <1>1
  <2>2. (d * H + s.at) + k * (H * D) = (d + k * D) * H + s.at BY <1>1, <1>2
  <2>3. d % D \in 0..(D - 1) /\ d \div D \in Int /\ d = (d \div D) * D + (d % D)
    BY <1>1, Division
  <2>4. d + k * D = (d \div D + k) * D + (d % D)
    <3> DEFINE a == d \div D
               r == d % D
    <3>1. d = a * D + r /\ a \in Int /\ r \in Int /\ D \in Int BY <1>1, <2>3
    <3> HIDE DEF a, r
    <3>2. a * D + r + k * D = (a + k) * D + r BY <3>1
    <3> QED BY <3>1, <3>2 DEF a, r
  <2>5. (d + k * D) % D = d % D
    <3>1. d \div D + k \in Int BY <2>3
    <3> QED BY <1>1, <2>3, <2>4, <3>1, DivisionUnique
  <2> QED BY <1>1, <1>4, <2>1, <2>2, <2>5 DEF OnDay, Step, H, D
<1> QED BY <1>3, <1>4

\* Some hour of some day to come is one that a schedule waits for.
LEMMA OnCronOfDay ==
    ASSUME NEW s \in ScheduleRow, NEW d \in Nat, OnDay(s, d)
    PROVE  OnCron(s, d * HoursPerDay + s.at)
<1>1. s.at \in 0..(HoursPerDay - 1) /\ HoursPerDay \in Nat \ {0} BY Calendar DEF ScheduleRow
<1>2. (d * HoursPerDay + s.at) \div HoursPerDay = d /\ (d * HoursPerDay + s.at) % HoursPerDay = s.at
  BY <1>1, DivisionUnique
<1> QED BY <1>2 DEF OnCron, DayOf, OnDay

\* The next run of an enabled schedule is on its calendar, and past now.
LEMMA NextRunOnCron ==
    ASSUME NEW s \in ScheduleRow, NEW now \in Nat
    PROVE  /\ ~s.enabled => NextRun(s, now) = NoSlot
           /\ s.enabled => /\ NextRun(s, now) \in Nat /\ NextRun(s, now) > now
                           /\ OnCron(s, NextRun(s, now))
<1>1. ~s.enabled => NextRun(s, now) = NoSlot BY DEF NextRun
<1>2. SUFFICES ASSUME s.enabled
               PROVE  /\ NextRun(s, now) \in Nat /\ NextRun(s, now) > now
                      /\ OnCron(s, NextRun(s, now))
  BY <1>1
<1> DEFINE base == IF s.next = NoSlot THEN now ELSE s.next
           c == Candidate(s, base)
           k == (now - c) \div Step(s) + 1
<1>3. base \in Nat BY DEF ScheduleRow
<1>4. PICK d \in Nat : c = d * HoursPerDay + s.at /\ OnDay(s, d) BY <1>3, CandidateOnCalendar
<1>5. s.at \in Nat /\ HoursPerDay \in Nat /\ Step(s) \in Nat \ {0}
  BY Calendar DEF ScheduleRow, Step
<1>6. c \in Nat BY <1>4, <1>5
<1>7. NextRun(s, now) = IF c > now THEN c ELSE c + k * Step(s) BY <1>2 DEF NextRun
<1> HIDE DEF c
<1>8. CASE c > now BY <1>4, <1>6, <1>7, <1>8, OnCronOfDay
<1>9. CASE ~(c > now)
  <2> DEFINE n == now - c
             q == n \div Step(s)
  <2>1. n \in Nat BY <1>6, <1>9
  <2>2. q \in Int /\ n % Step(s) \in 0..(Step(s) - 1) /\ n = q * Step(s) + (n % Step(s))
    <3> HIDE DEF n
    <3>1. n \in Int /\ Step(s) \in Nat \ {0} BY <1>5, <2>1
    <3>2. n \div Step(s) \in Int /\ n % Step(s) \in 0..(Step(s) - 1) /\ n = (n \div Step(s)) * Step(s) + (n % Step(s))
      BY <3>1, Division
    <3> QED BY <3>2
  <2>3. q >= 0
    <3>1. SUFFICES ASSUME q <= -1 PROVE FALSE BY <2>2
    <3> HIDE DEF q, n
    <3>2. q * Step(s) <= -Step(s) BY <1>5, <2>2, <3>1
    <3> QED BY <1>5, <2>1, <2>2, <3>2
  <2>4. k = q + 1 /\ k \in Nat BY <2>2, <2>3
  <2>5. k * Step(s) = q * Step(s) + Step(s)
    <3> HIDE DEF q, k
    <3> QED BY <1>5, <2>2, <2>4
  <2>6. q * Step(s) \in Int
    <3> HIDE DEF q
    <3> QED BY <1>5, <2>2
  <2>7. c + k * Step(s) > now /\ c + k * Step(s) \in Nat
    <3> HIDE DEF q, k
    <3>1. k * Step(s) > n BY <1>5, <2>1, <2>2, <2>5, <2>6
    <3>2. k * Step(s) \in Int BY <1>5, <2>5, <2>6
    <3> QED BY <1>6, <1>9, <2>1, <3>1, <3>2
  <2> HIDE DEF k, q
  <2>8. PICK e \in Nat : c + k * Step(s) = e * HoursPerDay + s.at /\ OnDay(s, e)
    BY <1>4, <2>4, LaterOnCalendar
  <2>9. OnCron(s, c + k * Step(s)) BY <2>8, OnCronOfDay
  <2> QED BY <1>7, <1>9, <2>7, <2>9
<1> QED BY <1>8, <1>9

\* What is fired is past: a tick fires only a slot that has come, and the schedule waits
\* for a later one.
FiredIsPast ==
    \A t \in Times : enqueued[Slot(t)] > 0 =>
        /\ t <= hour
        /\ schedule.next # NoSlot => t < schedule.next
        /\ ticker.seen.next # NoSlot => t < ticker.seen.next

SchedInv ==
    /\ SchedulingTypeOK
    /\ ticker.now <= hour
    /\ FiredIsPast
    /\ ScheduleTells

\* Times are naturals.
LEMMA HoursAreNat == Times \subseteq Nat
BY Calendar DEF Times

\* The row that is not there is of a row's type, and due at no time.
LEMMA NoScheduleIsARow == NoSchedule \in ScheduleRow /\ NoSchedule.next = NoSlot
BY Calendar DEF NoSchedule, ScheduleRow

\* A slot's job key is never a weekly diff's, and two slots have two keys.
LEMMA SomeKeys ==
    /\ \A t \in Times : Slot(t) \in JobKeys /\ WeeklyDiff(t) \in JobKeys
    /\ \A t, u : Slot(t) # WeeklyDiff(u)
    /\ \A t, u : Slot(t) = Slot(u) => t = u
BY DEF JobKeys, Slot, WeeklyDiff

\* The invariant holds before the first schedule.
LEMMA SchedInvInit ==
    SchedulingInit => SchedInv
<1> SUFFICES ASSUME SchedulingInit PROVE SchedInv OBVIOUS
<1>1. 0 \in Times /\ (CHOOSE p \in Schedulers : TRUE) \in Schedulers
  BY Calendar, SchedulingAssumption DEF Times
<1>2. NotTicking \in [at : {"idle", "ticking"}, process : Schedulers, now : Times, seen : ScheduleRow]
      /\ NotTicking.now = 0 /\ NotTicking.seen = NoSchedule
  BY <1>1, NoScheduleIsARow DEF NotTicking
<1>3. SchedulingTypeOK
  BY <1>1, <1>2, SchedulingAssumption, NoScheduleIsARow DEF SchedulingInit, SchedulingTypeOK
<1>4. FiredIsPast BY SomeKeys DEF SchedulingInit, FiredIsPast
<1>5. ScheduleTells
  BY DEF SchedulingInit, ScheduleTells, EachSlotOnce, NextFollowsTheSchedule, NoSchedule
<1> QED BY <1>2, <1>3, <1>4, <1>5 DEF SchedulingInit, SchedInv

\* What the steps need of the types.
LEMMA SchedTypes ==
    ASSUME SchedInv
    PROVE  /\ hour \in Nat /\ hour \in Times /\ schedule \in ScheduleRow /\ ticker.seen \in ScheduleRow
           /\ ticker.now \in Nat /\ ticker.now \in Times /\ ticker.now <= hour
           /\ schedule.next \in Nat \cup {NoSlot} /\ ticker.seen.next \in Nat \cup {NoSlot}
           /\ enqueued \in [JobKeys -> Nat]
           /\ \A t \in Times : enqueued[Slot(t)] \in Nat
BY HoursAreNat, SomeKeys DEF SchedInv, SchedulingTypeOK, ScheduleRow

\* A request leaves an enabled schedule waiting for an hour of its calendar after this one.
LEMMA RequestKeeps ==
    ASSUME SchedInv, NEW s \in ScheduleRow, Request,
           \/ schedule' = [s EXCEPT !.next = NextRun(s, hour)] /\ crossed' = FALSE
           \/ schedule' = [NoSchedule EXCEPT !.row = "gone"] /\ crossed' = crossed,
           UNCHANGED <<hour, ticker, maintainedAt, stuck, enqueued, waiting>>
    PROVE  SchedInv'
<1>1. schedule' \in ScheduleRow
  <2>1. CASE schedule' = [s EXCEPT !.next = NextRun(s, hour)]
    BY <2>1, NextRunOnCron, SchedTypes DEF ScheduleRow
  <2>2. CASE schedule' = [NoSchedule EXCEPT !.row = "gone"]
    BY <2>2, NoScheduleIsARow DEF ScheduleRow, NoSchedule
  <2> QED BY <2>1, <2>2
<1>2. scheduleLeft' \in Nat BY DEF Request, SchedInv, SchedulingTypeOK
<1>3. SchedulingTypeOK' BY <1>1, <1>2 DEF SchedInv, SchedulingTypeOK
<1>4. schedule'.next # NoSlot => schedule'.next > hour
  <2>1. CASE schedule' = [s EXCEPT !.next = NextRun(s, hour)]
    BY <2>1, NextRunOnCron, SchedTypes DEF ScheduleRow
  <2>2. CASE schedule' = [NoSchedule EXCEPT !.row = "gone"]
    BY <2>2, NoScheduleIsARow DEF NoSchedule
  <2> QED BY <2>1, <2>2
<1>5. schedule'.next \in Nat \cup {NoSlot} BY <1>1 DEF ScheduleRow
<1>6. FiredIsPast'
  <2>1. SUFFICES ASSUME NEW t \in Times, enqueued[Slot(t)] > 0
                 PROVE  /\ t <= hour
                        /\ schedule'.next # NoSlot => t < schedule'.next
                        /\ ticker.seen.next # NoSlot => t < ticker.seen.next
    BY DEF FiredIsPast
  <2>2. t <= hour /\ (ticker.seen.next # NoSlot => t < ticker.seen.next) /\ t \in Nat
    BY <2>1, HoursAreNat DEF SchedInv, FiredIsPast
  <2> QED BY <1>4, <1>5, <2>2, SchedTypes
<1>7. NextFollowsTheSchedule'
  <2>1. SUFFICES ASSUME schedule'.row = "kept", schedule'.enabled
                 PROVE  schedule'.next # NoSlot /\ OnCron(schedule', schedule'.next)
    BY DEF NextFollowsTheSchedule, OnCron
  <2>2. CASE schedule' = [s EXCEPT !.next = NextRun(s, hour)]
    BY <2>1, <2>2, NextRunOnCron, SchedTypes, Calendar DEF ScheduleRow, OnCron
  <2>3. CASE schedule' = [NoSchedule EXCEPT !.row = "gone"] BY <2>1, <2>3 DEF NoSchedule
  <2> QED BY <2>2, <2>3
<1>8. EachSlotOnce' BY DEF SchedInv, ScheduleTells, EachSlotOnce
<1> QED BY <1>3, <1>6, <1>7, <1>8 DEF SchedInv, ScheduleTells

\* A user's edit of a schedule leaves the slots it has fired.
LEMMA RequestsKeep ==
    ASSUME SchedInv, NEW day \in Days \cup {EveryDay}, NEW at \in 0..(HoursPerDay - 1),
           \/ CreateSchedule(day, at)
           \/ \E enabled \in BOOLEAN : UpdateSchedule(enabled, day, at)
           \/ DeleteSchedule
    PROVE  SchedInv'
<1>1. CASE CreateSchedule(day, at)
  <2> DEFINE new == [row |-> "kept", enabled |-> TRUE, day |-> day, at |-> at, next |-> NoSlot]
  <2>1. new \in ScheduleRow BY DEF ScheduleRow
  <2>2. schedule' = [new EXCEPT !.next = NextRun(new, hour)] BY <1>1 DEF CreateSchedule
  <2> HIDE DEF new
  <2> QED BY <1>1, <2>1, <2>2, RequestKeeps DEF CreateSchedule
<1>2. ASSUME NEW enabled \in BOOLEAN, UpdateSchedule(enabled, day, at) PROVE SchedInv'
  <2> DEFINE new == [schedule EXCEPT !.enabled = enabled, !.at = at,
                                     !.day = IF day = EveryDay THEN schedule.day ELSE day]
  <2>1. new \in ScheduleRow BY SchedTypes DEF ScheduleRow
  <2>2. schedule' = [new EXCEPT !.next = NextRun(new, hour)]
    BY <1>2 DEF UpdateSchedule, Rescheduled
  <2> HIDE DEF new
  <2> QED BY <1>2, <2>1, <2>2, RequestKeeps DEF UpdateSchedule
<1>3. CASE DeleteSchedule BY <1>3, RequestKeeps, NoScheduleIsARow DEF DeleteSchedule
<1> QED BY <1>1, <1>2, <1>3

\* The world around a tick, and its beginning.
LEMMA WorldKeeps ==
    ASSUME SchedInv, PassHour \/ RunJobs \/ GetStuck \/ \E p \in Schedulers : TickStart(p)
    PROVE  SchedInv'
<1>1. UNCHANGED <<schedule, maintainedAt, enqueued, scheduleLeft, crossed>>
  BY DEF PassHour, RunJobs, GetStuck, TickStart
<1>2. hour' \in Times /\ hour' >= hour /\ hour' \in Nat
  BY SchedTypes, Calendar DEF PassHour, RunJobs, GetStuck, TickStart, Times
<1>3. /\ ticker' \in [at : {"idle", "ticking"}, process : Schedulers, now : Times, seen : ScheduleRow]
      /\ ticker'.now <= hour'
      /\ ticker'.seen = ticker.seen \/ ticker'.seen = schedule
  <2>1. CASE ticker' = ticker BY <1>2, <2>1, SchedTypes DEF SchedInv, SchedulingTypeOK
  <2>2. ASSUME NEW p \in Schedulers, TickStart(p)
        PROVE  /\ ticker' \in [at : {"idle", "ticking"}, process : Schedulers, now : Times, seen : ScheduleRow]
               /\ ticker'.now <= hour' /\ ticker'.seen = schedule
    BY <2>2, SchedTypes DEF TickStart
  <2> QED BY <2>1, <2>2 DEF PassHour, RunJobs, GetStuck
<1>4. stuck' \in BOOLEAN /\ waiting' \subseteq JobKeys
  BY DEF PassHour, RunJobs, GetStuck, TickStart, SchedInv, SchedulingTypeOK
<1>5. SchedulingTypeOK' BY <1>1, <1>2, <1>3, <1>4 DEF SchedInv, SchedulingTypeOK
<1>6. FiredIsPast'
  <2>1. SUFFICES ASSUME NEW t \in Times, enqueued[Slot(t)] > 0
                 PROVE  /\ t <= hour'
                        /\ schedule.next # NoSlot => t < schedule.next
                        /\ ticker'.seen.next # NoSlot => t < ticker'.seen.next
    BY <1>1 DEF FiredIsPast
  <2>2. t <= hour /\ t \in Nat /\ (schedule.next # NoSlot => t < schedule.next)
        /\ (ticker.seen.next # NoSlot => t < ticker.seen.next)
    BY <2>1, HoursAreNat DEF SchedInv, FiredIsPast
  <2>3. t <= hour' BY <1>2, <2>2, SchedTypes
  <2> QED BY <1>3, <2>2, <2>3
<1>7. ScheduleTells'
  BY <1>1 DEF SchedInv, ScheduleTells, EachSlotOnce, NextFollowsTheSchedule, OnCron
<1> QED BY <1>3, <1>5, <1>6, <1>7 DEF SchedInv

\* The maintenance times keep their type.
LEMMA MaintainedTyped ==
    ASSUME SchedInv, MarkMaintenance \/ UNCHANGED maintainedAt
    PROVE  maintainedAt' \in [Schedulers -> Times \cup {NotStored}]
BY DEF MarkMaintenance, SchedInv, SchedulingTypeOK

\* A tick that is over is of a tick's type.
LEMMA NotTickingTyped ==
    /\ NotTicking \in [at : {"idle", "ticking"}, process : Schedulers, now : Times, seen : ScheduleRow]
    /\ NotTicking.now = 0 /\ NotTicking.seen.next = NoSlot
BY Calendar, SchedulingAssumption, NoScheduleIsARow DEF Times, NotTicking

\* A tick that fails leaves what it had found.
LEMMA RollbackKeeps ==
    ASSUME SchedInv, TickRollback
    PROVE  SchedInv'
<1>1. UNCHANGED <<hour, schedule, stuck, enqueued, waiting, scheduleLeft, crossed>> /\ ticker' = NotTicking
  BY DEF TickRollback
<1>2. maintainedAt' \in [Schedulers -> Times \cup {NotStored}]
  BY MaintainedTyped DEF TickRollback
<1>3. SchedulingTypeOK' BY <1>1, <1>2, NotTickingTyped DEF SchedInv, SchedulingTypeOK
<1>4. ticker'.now <= hour' BY <1>1, NotTickingTyped, SchedTypes
<1>5. FiredIsPast' BY <1>1, NotTickingTyped DEF SchedInv, FiredIsPast
<1>6. ScheduleTells'
  BY <1>1 DEF SchedInv, ScheduleTells, EachSlotOnce, NextFollowsTheSchedule, OnCron
<1> QED BY <1>3, <1>4, <1>5, <1>6 DEF SchedInv

\* A tick that commits fires each slot it found once, and waits for the next.
LEMMA CommitKeeps ==
    ASSUME SchedInv, TickCommit
    PROVE  SchedInv'
<1> DEFINE seen == ticker.seen
           now == ticker.now
<1>1. /\ UNCHANGED <<hour, stuck, scheduleLeft>> /\ ticker' = NotTicking
      /\ enqueued' = [k \in JobKeys |-> enqueued[k] + IF k \in Fresh THEN 1 ELSE 0]
      /\ waiting' = waiting \cup Fresh
      /\ Fired = {} => schedule' = schedule /\ crossed' = crossed
      /\ Fired # {} => /\ schedule' = [schedule EXCEPT !.next = NextRun(seen, now)]
                       /\ crossed' = (schedule # seen) /\ schedule.row = "kept"
  BY DEF TickCommit, TickBreaks
<1>2. /\ hour \in Nat /\ hour \in Times /\ now \in Nat /\ now \in Times /\ now <= hour
      /\ schedule \in ScheduleRow /\ seen \in ScheduleRow
      /\ seen.next \in Nat \cup {NoSlot} /\ schedule.next \in Nat \cup {NoSlot}
      /\ enqueued \in [JobKeys -> Nat]
  BY SchedTypes
<1>3. Fired # {} => /\ seen.enabled /\ seen.next \in Nat /\ seen.next <= now /\ seen.next \in Times
                    /\ Fired = {Slot(seen.next)}
  <2>1. SUFFICES ASSUME Fired # {}
                 PROVE  /\ seen.enabled /\ seen.next \in Nat /\ seen.next <= now /\ seen.next \in Times
                        /\ Fired = {Slot(seen.next)}
    OBVIOUS
  <2>2. Due(seen, now) /\ Fired = {Slot(seen.next)} BY <2>1 DEF Fired
  <2>3. seen.next \in Nat /\ seen.next <= now /\ seen.enabled BY <1>2, <2>2 DEF Due
  <2> QED BY <1>2, <2>2, <2>3, Calendar DEF Times
<1>4. Fired # {} => /\ NextRun(seen, now) \in Nat /\ NextRun(seen, now) > now
                    /\ OnCron(seen, NextRun(seen, now))
  BY <1>2, <1>3, NextRunOnCron
<1>5. Fresh \subseteq JobKeys /\ Fresh \subseteq Fired \cup Diffs
  BY <1>3, SomeKeys DEF Fresh, Diffs
<1>6. /\ \A k \in Diffs : enqueued[k] = 0 /\ k = WeeklyDiff(now)
      /\ \A k \in Fired : enqueued[k] = 0
  <2>1. \A k \in Diffs : enqueued[k] = 0 /\ k = WeeklyDiff(now) BY DEF Diffs
  <2>2. ASSUME Fired # {}, enqueued[Slot(seen.next)] # 0 PROVE FALSE
    BY <1>2, <1>3, <2>2, SomeKeys, Calendar DEF SchedInv, FiredIsPast
  <2> QED BY <1>3, <2>1, <2>2
<1>7. \A k \in JobKeys : /\ k \in Fresh => enqueued'[k] = 1
                         /\ k \notin Fresh => enqueued'[k] = enqueued[k]
  <2>1. SUFFICES ASSUME NEW k \in JobKeys
                 PROVE  /\ k \in Fresh => enqueued'[k] = 1
                        /\ k \notin Fresh => enqueued'[k] = enqueued[k]
    OBVIOUS
  <2>2. enqueued'[k] = enqueued[k] + (IF k \in Fresh THEN 1 ELSE 0) /\ enqueued[k] \in Nat
    BY <1>1, <1>2
  <2>3. k \in Fresh => enqueued[k] = 0 BY <1>5, <1>6
  <2> QED BY <2>2, <2>3
<1>8. schedule' \in ScheduleRow /\ crossed' \in BOOLEAN
  <2>1. CASE Fired = {} BY <1>1, <1>2, <2>1 DEF SchedInv, SchedulingTypeOK
  <2>2. CASE Fired # {} BY <1>1, <1>2, <1>4, <2>2 DEF ScheduleRow
  <2> QED BY <2>1, <2>2
<1>9. SchedulingTypeOK'
  <2>1. maintainedAt' \in [Schedulers -> Times \cup {NotStored}]
    BY MaintainedTyped DEF TickCommit
  <2>2. enqueued' \in [JobKeys -> Nat] BY <1>1, <1>2, <1>7
  <2>3. waiting' \subseteq JobKeys BY <1>1, <1>5 DEF SchedInv, SchedulingTypeOK
  <2> QED BY <1>1, <1>8, <2>1, <2>2, <2>3, NotTickingTyped DEF SchedInv, SchedulingTypeOK
<1>10. FiredIsPast'
  <2>1. SUFFICES ASSUME NEW t \in Times, enqueued'[Slot(t)] > 0
                 PROVE  /\ t <= hour
                        /\ schedule'.next # NoSlot => t < schedule'.next
    BY <1>1, NotTickingTyped DEF FiredIsPast
  <2>2. t \in Nat /\ Slot(t) \in JobKeys BY HoursAreNat, SomeKeys
  <2>3. CASE Slot(t) \notin Fresh
    <3>1. enqueued[Slot(t)] > 0 BY <1>7, <2>1, <2>2, <2>3
    <3>2. t <= hour /\ (schedule.next # NoSlot => t < schedule.next) /\ (seen.next # NoSlot => t < seen.next)
      BY <3>1 DEF SchedInv, FiredIsPast
    <3>3. CASE Fired = {} BY <1>1, <3>2, <3>3
    <3>4. CASE Fired # {} BY <1>1, <1>2, <1>3, <1>4, <2>2, <3>2, <3>4, Calendar DEF ScheduleRow
    <3> QED BY <3>3, <3>4
  <2>4. CASE Slot(t) \in Fresh
    BY <1>1, <1>2, <1>3, <1>4, <1>5, <1>6, <2>2, <2>4, SomeKeys DEF ScheduleRow
  <2> QED BY <2>3, <2>4
<1>11. EachSlotOnce'
  <2>1. SUFFICES ASSUME NEW k \in JobKeys PROVE enqueued'[k] <= 1 BY DEF EachSlotOnce
  <2>2. enqueued[k] <= 1 BY DEF SchedInv, ScheduleTells, EachSlotOnce
  <2> QED BY <1>7, <2>2
<1>12. NextFollowsTheSchedule'
  <2>1. CASE Fired = {}
    BY <1>1, <2>1 DEF SchedInv, ScheduleTells, NextFollowsTheSchedule, OnCron
  <2>2. CASE Fired # {}
    BY <1>1, <1>2, <1>4, <2>2, Calendar DEF ScheduleRow, OnCron, NextFollowsTheSchedule
  <2> QED BY <2>1, <2>2
<1>13. ticker'.now <= hour' BY <1>1, <1>2, NotTickingTyped
<1> QED BY <1>9, <1>10, <1>11, <1>12, <1>13 DEF SchedInv, ScheduleTells

\* The invariant is inductive: one step per action.
LEMMA SchedStepKeeps == SchedInv /\ [SchedulingNext]_schedulingVars => SchedInv'
<1> SUFFICES ASSUME SchedInv, [SchedulingNext]_schedulingVars PROVE SchedInv' OBVIOUS
<1>1. CASE UNCHANGED schedulingVars
  BY <1>1 DEF schedulingVars, SchedInv, SchedulingTypeOK, FiredIsPast, ScheduleTells,
     EachSlotOnce, NextFollowsTheSchedule, OnCron
<1>2. ASSUME NEW day \in Days \cup {EveryDay}, NEW at \in 0..(HoursPerDay - 1),
             CreateSchedule(day, at) \/ \E enabled \in BOOLEAN : UpdateSchedule(enabled, day, at)
      PROVE  SchedInv'
  BY <1>2, RequestsKeep
<1>3. CASE DeleteSchedule BY <1>3, RequestKeeps, NoScheduleIsARow DEF DeleteSchedule
<1>4. CASE PassHour \/ RunJobs \/ GetStuck \/ \E p \in Schedulers : TickStart(p)
  BY <1>4, WorldKeeps
<1>5. CASE TickCommit BY <1>5, CommitKeeps
<1>6. CASE TickRollback BY <1>6, RollbackKeeps
<1> QED BY <1>1, <1>2, <1>3, <1>4, <1>5, <1>6 DEF SchedulingNext

\* For any number of schedulers, hours, days and edits: a schedule fires each of its slots
\* once at most, and what it waits for is on its own calendar.
THEOREM SchedulesHold == SchedulingSpec => [](SchedulingTypeOK /\ ScheduleTells)
<1>1. SchedulingInit => SchedInv BY SchedInvInit
<1>2. SchedInv /\ [SchedulingNext]_schedulingVars => SchedInv' BY SchedStepKeeps
<1>3. SchedInv => SchedulingTypeOK /\ ScheduleTells BY DEF SchedInv
<1> QED BY <1>1, <1>2, <1>3, PTL DEF SchedulingSpec

-----------------------------------------------------------------------------
(* Rows of jobs at work.                                                    *)

RowOfJob == [status : {"running", "queued", "succeeded", "cancelled"}, fresh : BOOLEAN,
             cancel : BOOLEAN, shown : Nat]
HandlerOfJob == [doing : {"working", "telling", "flushing", "completing", "stopping", "done"},
                 told : Nat, dirty : BOOLEAN]

RowsTyped ==
    /\ row \in [RunningJobs -> RowOfJob]
    /\ holder = [j \in RunningJobs |-> holder[j]]
    /\ handler \in [RunningJobs -> HandlerOfJob]
    /\ beat \in Nat /\ reap \in Nat

AtWork(j) == handler[j].doing \notin {"stopping", "done"}

\* A row is held for its own handler or by a sweep. The reaper has rows only once the
\* heartbeat has stalled, and the handler it stalled for keeps its row while at work.
RowInv(j) ==
    /\ holder[j] \in {NoHolder, j, Beating, Reaping}
    /\ row[j].shown <= handler[j].told
    /\ row[j].shown < handler[j].told /\ handler[j].doing = "working" /\ ~handler[j].dirty =>
            holder[j] = j
    /\ ~row[j].fresh \/ holder[j] = Reaping => stalledBy # NoHolder
    /\ stalledBy = j /\ AtWork(j) => holder[j] = j
    /\ row[j].status = "queued" /\ AtWork(j) => stalledBy \notin {NoHolder, j}

RowsInv == RowsTyped /\ \A j \in RunningJobs : RowInv(j)

\* A handler is neither the heartbeat nor the reaper.
LEMMA NoJobIsASweep ==
    /\ \A j \in RunningJobs : j # NoHolder /\ j # Beating /\ j # Reaping
    /\ NoHolder # Beating /\ NoHolder # Reaping /\ Beating # Reaping
BY JobRowsAssumption DEF NoHolder, Beating, Reaping

\* The invariant holds when the jobs begin.
LEMMA RowsInvInit == JobRowsInit => RowsInv
BY NoJobIsASweep DEF JobRowsInit, RowsInv, RowsTyped, RowInv, AtWork, RowOfJob, HandlerOfJob

\* A step about one job: the rest of the rows stay.
LEMMA OneRowMoves ==
    ASSUME RowsInv, NEW j \in RunningJobs, RowsTyped', RowInv(j)', stalledBy' = stalledBy,
           \A k \in RunningJobs \ {j} : UNCHANGED <<row[k], holder[k], handler[k]>>
    PROVE  RowsInv'
BY DEF RowsInv, RowInv, AtWork

\* A handler tells its progress and flushes it while it holds its row.
LEMMA HandlerKeeps ==
    ASSUME RowsInv, NEW j \in RunningJobs,
           \/ Tell(j) \/ GiveUpTelling(j) \/ RowFlushed(j) \/ CheckCancelled(j)
           \/ Return(j) \/ TellProgress(j) \/ Flush(j)
    PROVE  RowsInv'
<1>1. /\ row[j] \in RowOfJob
      /\ handler[j] \in HandlerOfJob
      /\ RowInv(j)
  BY DEF RowsInv, RowsTyped, RowOfJob, HandlerOfJob
<1> DEFINE h == handler[j]
<1>0. /\ h = [doing |-> h.doing, told |-> h.told, dirty |-> h.dirty]
      /\ row[j] = [status |-> row[j].status, fresh |-> row[j].fresh, cancel |-> row[j].cancel,
                   shown |-> row[j].shown]
      /\ h.told \in Nat /\ h.dirty \in BOOLEAN /\ row[j].shown \in Nat
  BY <1>1 DEF RowOfJob, HandlerOfJob
<1>2. CASE Tell(j)
  <2>1. /\ row'[j] = [status |-> row[j].status, fresh |-> row[j].fresh, cancel |-> row[j].cancel,
                    shown |-> h.told]
        /\ handler'[j] = [doing |-> "working", told |-> h.told, dirty |-> TRUE]
        /\ holder' = holder /\ beat' = beat /\ reap' = reap /\ stalledBy' = stalledBy
        /\ row' = [k \in RunningJobs |-> IF k = j THEN row'[j] ELSE row[k]]
        /\ handler' = [k \in RunningJobs |-> IF k = j THEN handler'[j] ELSE handler[k]]
    BY <1>0, <1>2 DEF Tell, RowsInv, RowsTyped
  <2>2. RowsTyped'
    <3>1. handler'[j] \in HandlerOfJob /\ row'[j] \in RowOfJob
      BY <1>0, <1>1, <2>1 DEF HandlerOfJob, RowOfJob
    <3> QED BY <2>1, <3>1 DEF RowsInv, RowsTyped
  <2>3. RowInv(j)' BY <1>1, <1>2, <2>1 DEF RowInv, AtWork, Tell, RowOfJob, HandlerOfJob
  <2> QED BY <2>1, <2>2, <2>3, OneRowMoves
<1>3. CASE GiveUpTelling(j)
  <2>1. /\ handler'[j] = [doing |-> "flushing", told |-> h.told, dirty |-> TRUE]
        /\ row' = row /\ holder' = holder /\ beat' = beat /\ reap' = reap /\ stalledBy' = stalledBy
        /\ handler' = [k \in RunningJobs |-> IF k = j THEN handler'[j] ELSE handler[k]]
    BY <1>0, <1>3 DEF GiveUpTelling, RowsInv, RowsTyped
  <2>2. RowsTyped'
    <3>1. handler'[j] \in HandlerOfJob /\ row'[j] \in RowOfJob
      BY <1>0, <1>1, <2>1 DEF HandlerOfJob, RowOfJob
    <3> QED BY <2>1, <3>1 DEF RowsInv, RowsTyped
  <2>3. RowInv(j)' BY <1>1, <1>3, <2>1 DEF RowInv, AtWork, GiveUpTelling
  <2> QED BY <2>1, <2>2, <2>3, OneRowMoves
<1>4. CASE RowFlushed(j)
  <2>1. /\ handler'[j] = [doing |-> "working", told |-> h.told, dirty |-> FALSE]
        /\ row' = row /\ beat' = beat /\ reap' = reap /\ stalledBy' = stalledBy
        /\ holder' = [k \in RunningJobs |-> IF k = j THEN j ELSE holder[k]]
        /\ handler' = [k \in RunningJobs |-> IF k = j THEN handler'[j] ELSE handler[k]]
    BY <1>0, <1>4 DEF RowFlushed, RowsInv, RowsTyped
  <2>2. RowsTyped'
    <3>1. handler'[j] \in HandlerOfJob /\ row'[j] \in RowOfJob
      BY <1>0, <1>1, <2>1 DEF HandlerOfJob, RowOfJob
    <3> QED BY <2>1, <3>1 DEF RowsInv, RowsTyped
  <2>3. RowInv(j)' BY <1>1, <1>4, <2>1, NoJobIsASweep DEF RowInv, AtWork, RowFlushed
  <2> QED BY <2>1, <2>2, <2>3, OneRowMoves
<1>5. CASE CheckCancelled(j)
  <2>1. /\ handler'[j] = [doing |-> "stopping", told |-> h.told, dirty |-> h.dirty]
        /\ row' = row /\ beat' = beat /\ reap' = reap /\ stalledBy' = stalledBy
        /\ holder' = [k \in RunningJobs |-> IF k = j THEN IF holder[j] = j THEN NoHolder ELSE holder[j]
                                            ELSE holder[k]]
        /\ handler' = [k \in RunningJobs |-> IF k = j THEN handler'[j] ELSE handler[k]]
    BY <1>0, <1>5 DEF CheckCancelled, RowsInv, RowsTyped, Now
  <2>2. RowsTyped' BY <1>0, <1>1, <2>1 DEF RowsInv, RowsTyped, RowOfJob, HandlerOfJob
  <2>3. RowInv(j)' BY <1>1, <1>5, <2>1, NoJobIsASweep DEF RowInv, AtWork, CheckCancelled
  <2> QED BY <2>1, <2>2, <2>3, OneRowMoves
<1>6. CASE Return(j) \/ TellProgress(j) \/ Flush(j)
  <2>1. /\ \/ handler'[j] = [doing |-> "completing", told |-> h.told, dirty |-> h.dirty]
           \/ handler'[j] = [doing |-> "telling", told |-> h.told + 1, dirty |-> h.dirty]
           \/ handler'[j] = [doing |-> "flushing", told |-> h.told, dirty |-> h.dirty]
        /\ row' = row /\ holder' = holder /\ beat' = beat /\ reap' = reap /\ stalledBy' = stalledBy
        /\ handler' = [k \in RunningJobs |-> IF k = j THEN handler'[j] ELSE handler[k]]
        /\ handler[j].doing = "working"
    BY <1>0, <1>6 DEF Return, TellProgress, Flush, RowsInv, RowsTyped, Now
  <2>2. RowsTyped' BY <1>0, <1>1, <2>1 DEF RowsInv, RowsTyped, RowOfJob, HandlerOfJob
  <2>3. RowInv(j)' BY <1>1, <2>1 DEF RowInv, AtWork, RowOfJob, HandlerOfJob
  <2> QED BY <2>1, <2>2, <2>3, OneRowMoves
<1> QED BY <1>2, <1>3, <1>4, <1>5, <1>6

\* A handler ends with its row as complete or stop leaves it.
LEMMA EndOfJobKeeps ==
    ASSUME RowsInv, NEW j \in RunningJobs, NEW status \in {"succeeded", "cancelled"}, End(j, status)
    PROVE  RowsInv'
<1>1. /\ row[j] \in RowOfJob
      /\ handler[j] \in HandlerOfJob
      /\ RowInv(j)
  BY DEF RowsInv, RowsTyped, RowOfJob, HandlerOfJob
<1> DEFINE s == IF row[j].status = "running" THEN status ELSE row[j].status
           n == IF status = "succeeded" THEN handler[j].told ELSE row[j].shown
<1>2. /\ row' = [k \in RunningJobs |-> IF k = j THEN [row[j] EXCEPT !.status = s, !.shown = n]
                                       ELSE row[k]]
      /\ holder' = [k \in RunningJobs |-> IF k = j THEN NoHolder ELSE holder[k]]
      /\ handler' = [k \in RunningJobs |-> IF k = j THEN [handler[j] EXCEPT !.doing = "done"]
                                           ELSE handler[k]]
      /\ beat' = beat /\ reap' = reap /\ stalledBy' = stalledBy
  BY DEF End, Now, RowsInv, RowsTyped
<1>3. s \in {"running", "queued", "succeeded", "cancelled"} /\ n \in Nat /\ n <= handler[j].told
  BY <1>1 DEF RowInv, RowOfJob, HandlerOfJob
<1> HIDE DEF s, n
<1>4. RowsTyped' BY <1>1, <1>2, <1>3 DEF RowsInv, RowsTyped, RowOfJob, HandlerOfJob
<1>5. RowInv(j)' BY <1>1, <1>2, <1>3, NoJobIsASweep DEF RowInv, AtWork, RowOfJob, HandlerOfJob
<1> QED BY <1>2, <1>4, <1>5, OneRowMoves

\* A cancel request waits for whoever holds the row.
LEMMA CancelKeeps ==
    ASSUME RowsInv, NEW j \in RunningJobs, AskToCancel(j) \/ CancelReturns(j)
    PROVE  RowsInv'
<1>1. CASE AskToCancel(j) BY <1>1 DEF AskToCancel, RowsInv, RowsTyped, RowInv, AtWork
<1>2. CASE CancelReturns(j)
  <2>1. row[j] \in RowOfJob /\ RowInv(j) BY DEF RowsInv, RowsTyped, RowOfJob, HandlerOfJob
  <2> DEFINE b == row[j].cancel \/ row[j].status = "running"
  <2>2. b \in BOOLEAN OBVIOUS
  <2>3. /\ row' = [k \in RunningJobs |-> IF k = j THEN [row[j] EXCEPT !.cancel = b] ELSE row[k]]
        /\ holder' = holder /\ handler' = handler /\ beat' = beat /\ reap' = reap /\ stalledBy' = stalledBy
    BY <1>2 DEF CancelReturns, RowsInv, RowsTyped
  <2> HIDE DEF b
  <2>4. RowsTyped' BY <2>1, <2>2, <2>3 DEF RowsInv, RowsTyped, RowOfJob, HandlerOfJob
  <2>5. RowInv(j)' BY <2>1, <2>3 DEF RowInv, AtWork, RowOfJob, HandlerOfJob
  <2> QED BY <2>3, <2>4, <2>5, OneRowMoves
<1> QED BY <1>1, <1>2

\* A sweep that takes a row, or goes past it.
LEMMA SweepTakes ==
    ASSUME RowsInv, BeatRow \/ ReapRow
    PROVE  RowsInv'
<1>1. PICK j : /\ \/ holder' = holder
                  \/ /\ j \in RunningJobs /\ holder[j] = NoHolder
                     /\ \/ holder' = [holder EXCEPT ![j] = Beating]
                        \/ ~row[j].fresh /\ holder' = [holder EXCEPT ![j] = Reaping]
               /\ UNCHANGED <<row, handler, stalledBy>>
  <2>1. CASE BeatRow BY <2>1, JobRowsAssumption DEF BeatRow, RowsInv, RowsTyped, RowFree
  <2>2. CASE ReapRow BY <2>2, JobRowsAssumption DEF ReapRow, RowsInv, RowsTyped, RowFree
  <2> QED BY <2>1, <2>2
<1>2. beat' \in Nat /\ reap' \in Nat BY DEF BeatRow, ReapRow, RowsInv, RowsTyped
<1>3. CASE holder' = holder BY <1>1, <1>2, <1>3 DEF RowsInv, RowsTyped, RowInv, AtWork
<1>4. CASE holder' # holder
  BY <1>1, <1>2, <1>4, NoJobIsASweep, OneRowMoves DEF RowsInv, RowsTyped, RowOfJob, HandlerOfJob,
     RowInv, AtWork
<1> QED BY <1>3, <1>4

\* A sweep that commits lets go of every row it held.
LEMMA SweepCommits ==
    ASSUME RowsInv, BeatCommit \/ ReapCommit \/ EndDeadlock(Beating) \/ EndDeadlock(Reaping)
    PROVE  RowsInv'
<1>1. /\ beat' \in Nat /\ reap' \in Nat /\ handler' = handler /\ stalledBy' = stalledBy
  BY DEF BeatCommit, ReapCommit, EndDeadlock, RowsInv, RowsTyped
<1>2. PICK who \in {Beating, Reaping} : holder' = Freed(who)
  BY DEF BeatCommit, ReapCommit, EndDeadlock
<1>3. /\ holder' = [k \in RunningJobs |-> holder'[k]]
      /\ \A k \in RunningJobs : holder'[k] = IF holder[k] = who THEN NoHolder ELSE holder[k]
  BY <1>2 DEF Freed
<1>4. /\ row' = [k \in RunningJobs |-> row'[k]]
      /\ \A k \in RunningJobs :
            \/ row'[k] = row[k]
            \/ row'[k] = [row[k] EXCEPT !.fresh = (row[k].fresh \/ holder[k] = Beating)]
            \/ holder[k] = Reaping /\ row'[k] = [row[k] EXCEPT !.status = "queued"]
  <2>1. row = [k \in RunningJobs |-> row[k]] BY DEF RowsInv, RowsTyped, RowOfJob, HandlerOfJob
  <2>2. CASE BeatCommit BY <2>2 DEF BeatCommit
  <2>3. CASE ReapCommit BY <2>3 DEF ReapCommit, RowsInv, RowsTyped, RowOfJob, HandlerOfJob
  <2>4. CASE EndDeadlock(Beating) \/ EndDeadlock(Reaping) BY <2>1, <2>4 DEF EndDeadlock
  <2> QED BY <2>2, <2>3, <2>4
<1>5. \A k \in RunningJobs : row'[k] \in RowOfJob
  <2>1. SUFFICES ASSUME NEW k \in RunningJobs
                 PROVE  row'[k] \in RowOfJob
    OBVIOUS
  <2>2. row[k] \in RowOfJob BY DEF RowsInv, RowsTyped, RowOfJob, HandlerOfJob
  <2>3. (row[k].fresh \/ holder[k] = Beating) \in BOOLEAN OBVIOUS
  <2> QED BY <1>4, <2>2, <2>3 DEF RowOfJob, HandlerOfJob
<1>6. RowsTyped' BY <1>1, <1>3, <1>4, <1>5 DEF RowsInv, RowsTyped, RowOfJob, HandlerOfJob
<1>7. \A k \in RunningJobs : RowInv(k)'
  <2>1. SUFFICES ASSUME NEW k \in RunningJobs PROVE RowInv(k)' OBVIOUS
  <2>2. RowInv(k) /\ row[k] \in RowOfJob BY DEF RowsInv, RowsTyped, RowOfJob, HandlerOfJob
  <2>3. holder'[k] = (IF holder[k] = who THEN NoHolder ELSE holder[k]) /\ k # who
    BY <1>3, NoJobIsASweep
  <2>4. row'[k].shown = row[k].shown /\ (~row'[k].fresh => ~row[k].fresh)
    BY <1>4, <2>2 DEF RowOfJob, HandlerOfJob
  <2>5. row'[k].status = "queued" => row[k].status = "queued" \/ holder[k] = Reaping
    BY <1>4, <2>2 DEF RowOfJob, HandlerOfJob
  <2> QED BY <1>1, <2>2, <2>3, <2>4, <2>5, NoJobIsASweep DEF RowInv, AtWork
<1> QED BY <1>6, <1>7 DEF RowsInv

\* The heartbeat that meets a held row waits for its holder.
LEMMA StallKeeps ==
    ASSUME RowsInv, Stall
    PROVE  RowsInv'
<1>1. ThreadJobs[beat + 1] \in RunningJobs BY JobRowsAssumption DEF Stall, RowsInv, RowsTyped
<1>2. PICK j \in RunningJobs : stalledBy' = holder[j] /\ holder[j] # NoHolder
  BY <1>1 DEF Stall, RowFree
<1>3. /\ row' = [k \in RunningJobs |-> [row[k] EXCEPT !.fresh = FALSE]]
      /\ stalledBy = NoHolder /\ UNCHANGED <<holder, handler, beat, reap>>
  BY DEF Stall
<1>4. RowsTyped' BY <1>3 DEF RowsInv, RowsTyped, RowOfJob, HandlerOfJob
<1>5. \A k \in RunningJobs : RowInv(k)'
  <2>1. SUFFICES ASSUME NEW k \in RunningJobs PROVE RowInv(k)' OBVIOUS
  <2>2. RowInv(k) /\ RowInv(j) /\ row[k] \in RowOfJob
    BY DEF RowsInv, RowsTyped, RowOfJob, HandlerOfJob
  <2>3. row'[k].shown = row[k].shown /\ row'[k].status = row[k].status
    BY <1>3, <2>2 DEF RowOfJob, HandlerOfJob
  <2>4. stalledBy' = k => k = j BY <1>2, <2>2, NoJobIsASweep DEF RowInv
  <2> QED BY <1>2, <1>3, <2>2, <2>3, <2>4, NoJobIsASweep DEF RowInv, AtWork
<1> QED BY <1>4, <1>5 DEF RowsInv

\* The invariant is inductive: one step per action.
LEMMA RowsStepKeeps == RowsInv /\ [JobRowsNext]_rowsVars => RowsInv'
<1> SUFFICES ASSUME RowsInv, [JobRowsNext]_rowsVars PROVE RowsInv' OBVIOUS
<1>1. CASE UNCHANGED rowsVars BY <1>1 DEF rowsVars, RowsInv, RowsTyped, RowInv, AtWork
<1>2. CASE BeatSteps \/ Reaps BY <1>2, SweepTakes, SweepCommits DEF BeatSteps, Reaps
<1>3. CASE Stall BY <1>3, StallKeeps
<1>4. ASSUME NEW j \in RunningJobs,
             HandlerStep(j) \/ TellProgress(j) \/ Flush(j) \/ AskToCancel(j) \/ CancelReturns(j)
      PROVE  RowsInv'
  <2>1. CASE CompleteRow(j) \/ MarkCancelled(j)
    BY <2>1, EndOfJobKeeps DEF CompleteRow, MarkCancelled
  <2> QED BY <1>4, <2>1, HandlerKeeps, CancelKeeps DEF HandlerStep
<1> QED BY <1>1, <1>2, <1>3, <1>4 DEF JobRowsNext

\* The invariant is stronger than what the rows promise.
LEMMA RowsInvTells == RowsInv => RowsTell
<1> SUFFICES ASSUME RowsInv PROVE RowsTell OBVIOUS
<1>1. ShownIsTold /\ ReapedForAnother
  BY DEF RowsInv, RowInv, ShownIsTold, ReapedForAnother, AtWork
<1>2. HandlersWaitForSweeps BY DEF RowsInv, RowInv, HandlersWaitForSweeps, Waits, Mine
<1> QED BY <1>1, <1>2 DEF RowsTell

\* For any number of running jobs: the stored progress is the last told unless the job's own
\* transaction holds its row, and no job waits for itself.
THEOREM RowsHold == JobRowsSpec => []RowsTell
<1>1. JobRowsInit => RowsInv BY RowsInvInit
<1>2. RowsInv /\ [JobRowsNext]_rowsVars => RowsInv' BY RowsStepKeeps
<1>3. RowsInv => RowsTell BY RowsInvTells
<1> QED BY <1>1, <1>2, <1>3, PTL DEF JobRowsSpec

-----------------------------------------------------------------------------
(* Query watches.                                                           *)

WatchStep ==
    /\ checked <= today
    /\ check # NotYet => checked <= check /\ check <= today
    /\ \A d \in diffs : d.end <= checked
    /\ \A c \in WatchedClaims : ended[c] <= checked

\* A claim that was stored has its date, and the event that says so.
WatchLog ==
    /\ \A c \in WatchedClaims : standing[c] # "none" =>
          dated[c] \in DayNumbers /\ Event(c, "asserted", dated[c], c) \in log
    /\ \A c \in WatchedClaims : standing[c] = "none" => dated[c] = NotYet
    /\ \A e \in log : e.event = "asserted" => standing[e.claim] # "none" /\ e.at = dated[e.claim]

WatchInv == WatchingTypeOK /\ WatchStep /\ WatchLog /\ PassedIsTold /\ ToldOnce

\* Day numbers are integers up to the last day.
LEMMA DayNumbersAre == \A a \in DayNumbers : a \in Int /\ a >= 0 /\ a <= LastDay
BY WatchingAssumption DEF DayNumbers

\* The invariant holds before the first claim.
LEMMA WatchInvInit == WatchingInit => WatchInv
<1> SUFFICES ASSUME WatchingInit PROVE WatchInv OBVIOUS
<1>1. 0 \in DayNumbers BY WatchingAssumption DEF DayNumbers
<1>2. WatchingTypeOK BY <1>1 DEF WatchingInit, WatchingTypeOK
<1>3. WatchStep /\ WatchLog BY <1>1 DEF WatchingInit, WatchStep, WatchLog, NotYet
<1>4. \A c \in WatchedClaims : Telling(c) = {} BY DEF WatchingInit, Telling
<1>5. Cardinality({}) = 0 BY FS_EmptySet
<1>6. ToldOnce BY <1>4, <1>5 DEF ToldOnce
<1>7. PassedIsTold BY WatchingAssumption DEF PassedIsTold, WatchingInit
<1> QED BY <1>2, <1>3, <1>6, <1>7 DEF WatchInv

\* What each step needs of the types.
LEMMA WatchTypes ==
    ASSUME WatchInv
    PROVE  /\ LastDay \in Nat /\ today \in DayNumbers /\ checked \in DayNumbers
           /\ check \in DayNumbers \cup {NotYet}
           /\ \A c \in WatchedClaims : /\ standing[c] \in {"none", "active", "superseded"}
                                       /\ dated[c] \in DayNumbers \cup {NotYet}
                                       /\ arrived[c] \in DayNumbers \cup {NotYet}
                                       /\ ended[c] \in DayNumbers \cup {NotYet}
                                       /\ standing[c] # "none" => dated[c] \in DayNumbers
           /\ \A d \in diffs : d.start \in DayNumbers /\ d.end \in DayNumbers
BY WatchingAssumption DEF WatchInv, WatchingTypeOK, WatchLog, DiffRow

\* A claim that was not stored yet was not told.
LEMMA NoneTold ==
    ASSUME WatchInv, NEW c \in WatchedClaims, standing[c] = "none"
    PROVE  Telling(c) = {}
<1>1. \A d \in Telling(c) : d \in diffs /\ d.start <= dated[c] /\ dated[c] = NotYet
  BY DEF WatchInv, ToldOnce, WatchLog, Telling
<1>2. \A d \in diffs : d.start \in Int /\ d.start >= 0 BY WatchTypes, DayNumbersAre
<1> QED BY <1>1, <1>2 DEF NotYet

\* While diffs and the last check stay, a claim that is stored, or ends, keeps the promise.
LEMMA PromiseKept ==
    ASSUME WatchInv, UNCHANGED <<diffs, checked>>,
           \A c \in WatchedClaims :
                \/ UNCHANGED <<standing[c], dated[c], arrived[c], ended[c]>>
                \/ standing[c] = "none" /\ (dated'[c] < checked => dated'[c] < arrived'[c])
                \/ standing[c] = "active" /\ UNCHANGED <<dated[c], arrived[c]>>
    PROVE  PassedIsTold' /\ ToldOnce'
<1>1. \A c : Telling(c)' = Telling(c) BY DEF Telling
<1>2. PassedIsTold'
  <2>1. SUFFICES ASSUME NEW c \in Similar, standing'[c] # "none", dated'[c] < checked'
                 PROVE  \/ Telling(c)' # {}
                        \/ dated'[c] < arrived'[c]
                        \/ standing'[c] # "active" /\ ended'[c] <= dated'[c]
                        \/ \E d \in diffs' :
                              /\ d.start <= dated'[c] /\ dated'[c] < d.end
                              /\ Cardinality({ClusterOf[x] : x \in d.new_claims}) = TopClusters
    BY DEF PassedIsTold
  <2>2. c \in WatchedClaims BY WatchingAssumption
  <2>3. CASE standing[c] = "none" /\ (dated'[c] < checked => dated'[c] < arrived'[c])
    BY <2>1, <2>3
  <2>4. CASE UNCHANGED <<standing[c], dated[c], arrived[c], ended[c]>>
    BY <1>1, <2>1, <2>4 DEF WatchInv, PassedIsTold
  <2>5. CASE standing[c] = "active" /\ UNCHANGED <<dated[c], arrived[c]>>
    BY <1>1, <2>1, <2>5 DEF WatchInv, PassedIsTold
  <2> QED BY <2>2, <2>3, <2>4, <2>5
<1>3. ToldOnce'
  <2>1. SUFFICES ASSUME NEW c \in WatchedClaims
                 PROVE  /\ Cardinality(Telling(c)') <= 1
                        /\ \A d \in Telling(c)' : d.start <= dated'[c] /\ dated'[c] < d.end
    BY DEF ToldOnce
  <2>2. CASE standing[c] = "none" BY <1>1, <2>2, NoneTold, FS_EmptySet
  <2>3. CASE standing[c] # "none" BY <1>1, <2>3 DEF WatchInv, ToldOnce
  <2> QED BY <2>2, <2>3
<1> QED BY <1>2, <1>3

\* A claim that is stored has an event of its date.
LEMMA AssertKeeps ==
    ASSUME WatchInv, NEW c \in WatchedClaims, NEW at \in DayNumbers, AssertClaim(c, at)
    PROVE  WatchInv'
<1>1. WatchingTypeOK' BY DEF WatchInv, WatchingTypeOK, AssertClaim, Event
<1>2. WatchStep' BY DEF WatchInv, WatchStep, AssertClaim
<1>3. /\ standing[c] = "none" /\ standing'[c] = "active" /\ dated'[c] = at /\ arrived'[c] = checked
      /\ \A k \in WatchedClaims \ {c} : UNCHANGED <<standing[k], dated[k], arrived[k], ended[k]>>
      /\ log' = log \cup {Event(c, "asserted", at, c)}
      /\ UNCHANGED <<diffs, checked, ended>>
  BY DEF WatchInv, WatchingTypeOK, AssertClaim
<1>4. WatchLog' BY <1>3 DEF Event, WatchInv, WatchingTypeOK, WatchLog
<1>5. PassedIsTold' /\ ToldOnce' BY <1>3, PromiseKept
<1> QED BY <1>1, <1>2, <1>4, <1>5 DEF WatchInv

\* Events that say nothing new of what was asserted.
LEMMA OtherEvents ==
    ASSUME WatchInv, NEW more, log' = log \cup more, \A e \in more : e.event # "asserted",
           dated' = dated, \A c \in WatchedClaims : standing'[c] = "none" <=> standing[c] = "none",
           \A e \in log : e.claim \in WatchedClaims
    PROVE  WatchLog'
BY DEF WatchInv, WatchLog

\* A claim that is superseded ends at its successor's date.
LEMMA EndBySuccessorKeeps ==
    ASSUME WatchInv, NEW old \in WatchedClaims, NEW new \in WatchedClaims, EndBySuccessor(old, new)
    PROVE  WatchInv'
<1>1. dated[new] \in DayNumbers BY WatchTypes DEF EndBySuccessor
<1>2. WatchingTypeOK' BY <1>1 DEF WatchInv, WatchingTypeOK, EndBySuccessor, Event
<1>3. WatchStep'
  BY WatchTypes, DayNumbersAre DEF EndBySuccessor, WatchInv, WatchingTypeOK, WatchStep
<1>4. /\ standing[old] = "active" /\ standing'[old] = "superseded"
      /\ \A k \in WatchedClaims \ {old} : UNCHANGED <<standing[k], ended[k]>>
      /\ log' = log \cup {Event(old, "superseded", dated[new], new)}
      /\ UNCHANGED <<diffs, checked, dated, arrived>>
  BY DEF WatchInv, WatchingTypeOK, EndBySuccessor
<1>5. WatchLog'
  <2> DEFINE more == {Event(old, "superseded", dated[new], new)}
  <2>1. /\ \A e \in more : e.event # "asserted"
        /\ \A e \in log : e.claim \in WatchedClaims
    BY DEF Event, WatchInv, WatchingTypeOK
  <2>2. /\ dated' = dated /\ log' = log \cup more
        /\ \A c \in WatchedClaims : standing'[c] = "none" <=> standing[c] = "none"
    BY <1>4
  <2> HIDE DEF more
  <2> QED BY <2>1, <2>2, OtherEvents
<1>6. PassedIsTold' /\ ToldOnce' BY <1>4, PromiseKept
<1> QED BY <1>2, <1>3, <1>5, <1>6 DEF WatchInv

\* A dispute adds an event and ends nothing.
LEMMA DisputeKeeps ==
    ASSUME WatchInv, NEW a \in WatchedClaims, NEW b \in WatchedClaims, Dispute(a, b)
    PROVE  WatchInv'
<1>1. PICK when \in DayNumbers :
          log' = log \cup {Event(a, "conflict_opened", when, b), Event(b, "conflict_opened", when, a)}
  BY WatchTypes DEF Dispute
<1>2. WatchingTypeOK' BY <1>1 DEF WatchInv, WatchingTypeOK, Dispute, Event
<1>3. WatchStep' BY DEF WatchInv, WatchStep, Dispute
<1>4. WatchLog'
  <2> DEFINE more == {Event(a, "conflict_opened", when, b), Event(b, "conflict_opened", when, a)}
  <2>1. /\ \A e \in more : e.event # "asserted"
        /\ \A e \in log : e.claim \in WatchedClaims
    BY DEF Event, WatchInv, WatchingTypeOK
  <2>2. /\ dated' = dated /\ log' = log \cup more
        /\ \A c \in WatchedClaims : standing'[c] = "none" <=> standing[c] = "none"
    BY <1>1 DEF Dispute
  <2> HIDE DEF more
  <2> QED BY <2>1, <2>2, OtherEvents
<1>5. PassedIsTold' /\ ToldOnce' BY PromiseKept DEF Dispute
<1> QED BY <1>2, <1>3, <1>4, <1>5 DEF WatchInv

\* A day that passes tells nothing by itself.
LEMMA ClockKeeps ==
    ASSUME WatchInv, PassDay \/ TickBegins \/ TickFails
    PROVE  WatchInv'
<1>1. UNCHANGED <<standing, dated, log, opposing, checked, diffs, arrived, ended>>
  BY DEF PassDay, TickBegins, TickFails
<1>2. /\ today \in Int /\ checked \in Int /\ 0 <= today /\ LastDay \in Nat /\ today <= LastDay
      /\ check \in DayNumbers \cup {NotYet}
  BY WatchTypes, DayNumbersAre
<1>3. today' \in DayNumbers /\ check' \in DayNumbers \cup {NotYet}
  BY <1>2 DEF PassDay, TickBegins, TickFails, DayNumbers
<1>4. WatchingTypeOK' BY <1>1, <1>3 DEF WatchInv, WatchingTypeOK
<1>5. WatchStep'
  <2>1. CASE PassDay BY <1>1, <1>2, <2>1, DayNumbersAre DEF WatchInv, WatchStep, PassDay
  <2>2. CASE TickBegins BY <1>1, <1>2, <2>2 DEF WatchInv, WatchStep, TickBegins
  <2>3. CASE TickFails BY <1>1, <1>2, <2>3 DEF WatchInv, WatchStep, TickFails
  <2> QED BY <2>1, <2>2, <2>3
<1>6. WatchLog' BY <1>1 DEF WatchInv, WatchLog
<1>7. PassedIsTold' /\ ToldOnce' BY <1>1, PromiseKept
<1> QED BY <1>4, <1>5, <1>6, <1>7 DEF WatchInv

\* Every cluster is told, or as many as a diff has room for.
LEMMA ToldOrCrowdedOut ==
    ASSUME WatchInv, NEW events, events \subseteq log, NEW top \in Rankings(events),
           NEW c \in Asserted(events), NEW start, NEW end
    PROVE  \/ c \in Payload(start, end, events, top).new_claims
           \/ Cardinality({ClusterOf[x] : x \in Payload(start, end, events, top).new_claims}) = TopClusters
<1> DEFINE clusters == {ClusterOf[x] : x \in Asserted(events)}
<1>1. Asserted(events) \in SUBSET WatchedClaims BY DEF Asserted, WatchInv, WatchingTypeOK
<1>2. IsFiniteSet(Asserted(events)) BY <1>1, WatchingAssumption, FS_Subset
<1>3. IsFiniteSet(clusters)
  <2>1. clusters \in SUBSET {ClusterOf[x] : x \in WatchedClaims} BY <1>1
  <2> DEFINE g == [x \in WatchedClaims |-> ClusterOf[x]]
             T == {ClusterOf[x] : x \in WatchedClaims}
  <2>2. g \in Surjection(WatchedClaims, T) BY DEF Surjection
  <2>3. IsFiniteSet(T)
    <3> HIDE DEF g, T
    <3> QED BY <2>2, WatchingAssumption, FS_Surjection
  <2> QED BY <2>1, <2>3, FS_Subset
<1>4. /\ top \in SUBSET clusters
      /\ Cardinality(top) = IF Cardinality(clusters) < TopClusters THEN Cardinality(clusters) ELSE TopClusters
  BY DEF Rankings
<1>5. Payload(start, end, events, top).new_claims = {x \in Asserted(events) : ClusterOf[x] \in top}
  BY DEF Payload
<1>6. {ClusterOf[x] : x \in Payload(start, end, events, top).new_claims} = top BY <1>4, <1>5
<1>7. CASE Cardinality(top) = TopClusters BY <1>6, <1>7
<1>8. CASE Cardinality(top) = Cardinality(clusters) BY <1>3, <1>4, <1>5, <1>8, FS_Subset
<1> QED BY <1>4, <1>7, <1>8

\* What a check tells is of the type of a belief diff.
LEMMA PayloadTyped ==
    ASSUME WatchInv, NEW start \in DayNumbers, NEW end \in DayNumbers, NEW events, events \subseteq log,
           NEW top
    PROVE  Payload(start, end, events, top) \in DiffRow
<1>1. \A e \in events : e.claim \in WatchedClaims /\ e.other \in WatchedClaims
  BY DEF WatchInv, WatchingTypeOK
<1>2. {c \in Asserted(events) : ClusterOf[c] \in top} \in SUBSET WatchedClaims
  BY <1>1 DEF Asserted
<1>3. {<<e.claim, e.other>> : e \in {x \in events : x.event = "superseded"}} \in SUBSET (WatchedClaims \X WatchedClaims)
  BY <1>1
<1>4. {{e.claim, e.other} : e \in {x \in events : x.event = "conflict_opened"}} \in SUBSET (SUBSET WatchedClaims)
  BY <1>1
<1>5. {n \in StaleNotes(start) : n \in Scoped \/ OvertakenBy(n) \cap Scoped # {}} \in SUBSET Notes
  BY DEF StaleNotes
<1> QED BY <1>2, <1>3, <1>4, <1>5 DEF Payload, DiffRow

\* A check tells what happened since the last one, once.
LEMMA CheckKeeps ==
    ASSUME WatchInv, CheckWatch
    PROVE  WatchInv'
<1> DEFINE events == {e \in Window(checked, check) : e.claim \in Scoped}
<1>1. /\ checked \in DayNumbers /\ check \in DayNumbers /\ checked <= check /\ check <= today
      /\ checked \in Int /\ check \in Int
  BY WatchTypes, DayNumbersAre DEF CheckWatch, WatchInv, WatchStep
<1>2. /\ UNCHANGED <<today, standing, dated, log, opposing, arrived, ended>>
      /\ checked' = check /\ check' = NotYet
  BY DEF CheckWatch, MarkChecked
<1>3. events \subseteq log BY DEF Window
<1>4. \/ Matching = {} /\ diffs' = diffs
      \/ \E top \in Rankings(events) : diffs' = diffs \cup {Payload(checked, check, events, top)}
  BY DEF CheckWatch
<1> HIDE DEF events
<1>5. WatchLog' BY <1>2 DEF WatchInv, WatchLog
<1>6. \A c \in WatchedClaims : ended'[c] <= checked'
  <2>1. SUFFICES ASSUME NEW c \in WatchedClaims PROVE ended[c] <= check BY <1>2
  <2>2. ended[c] \in Int /\ ended[c] <= checked
    BY WatchTypes, DayNumbersAre DEF WatchInv, WatchStep, NotYet
  <2> QED BY <1>1, <2>2
<1>7. \A d \in diffs : d.end \in Int /\ d.end <= checked
  BY WatchTypes, DayNumbersAre DEF WatchInv, WatchStep
<1>8. /\ PassedIsTold /\ ToldOnce /\ diffs \subseteq DiffRow BY DEF WatchInv, WatchingTypeOK
<1>9. \A c \in WatchedClaims : dated[c] \in Int BY WatchTypes, DayNumbersAre DEF NotYet
\* A claim whose date the check passes matches, and its event is in the window.
<1>10. \A c \in Similar : standing[c] = "active" /\ checked <= dated[c] /\ dated[c] < check =>
            c \in Matching /\ c \in Asserted(events)
  <2>1. SUFFICES ASSUME NEW c \in Similar, standing[c] = "active", checked <= dated[c], dated[c] < check
                 PROVE  c \in Matching /\ c \in Asserted(events)
    OBVIOUS
  <2>2. Event(c, "asserted", dated[c], c) \in log
    BY <2>1, WatchingAssumption DEF WatchInv, WatchLog
  <2>3. Event(c, "asserted", dated[c], c) \in events
    BY <2>1, <2>2 DEF events, Window, Event, Scoped
  <2> QED BY <2>1, <2>3 DEF Matching, Asserted, Event
<1>11. \A c \in Similar : standing[c] # "none" /\ standing[c] # "active" /\ checked <= dated[c] => ended[c] <= dated[c]
  <2>1. SUFFICES ASSUME NEW c \in Similar, checked <= dated[c] PROVE ended[c] <= dated[c]
    OBVIOUS
  <2>2. c \in WatchedClaims /\ ended[c] \in Int /\ ended[c] <= checked
    BY WatchTypes, DayNumbersAre, WatchingAssumption DEF WatchInv, WatchStep, NotYet
  <2> QED BY <1>1, <1>9, <2>1, <2>2
<1>12. CASE Matching = {} /\ diffs' = diffs
  <2>1. WatchingTypeOK' BY <1>1, <1>2, <1>12 DEF WatchInv, WatchingTypeOK
  <2>2. WatchStep' BY <1>1, <1>2, <1>6, <1>7, <1>12 DEF WatchStep
  <2>3. \A c : Telling(c)' = Telling(c) BY <1>12 DEF Telling
  <2>4. ToldOnce' BY <1>2, <1>8, <2>3 DEF ToldOnce
  <2>5. PassedIsTold'
    <3>1. SUFFICES ASSUME NEW c \in Similar, standing[c] # "none", dated[c] < check
                   PROVE  \/ Telling(c) # {}
                          \/ dated[c] < arrived[c]
                          \/ standing[c] # "active" /\ ended[c] <= dated[c]
                          \/ \E d \in diffs :
                                /\ d.start <= dated[c] /\ dated[c] < d.end
                                /\ Cardinality({ClusterOf[x] : x \in d.new_claims}) = TopClusters
      BY <1>2, <1>12, <2>3 DEF PassedIsTold
    <3>2. c \in WatchedClaims BY WatchingAssumption
    <3>3. CASE dated[c] < checked BY <1>8, <3>1, <3>3 DEF PassedIsTold
    <3>4. CASE checked <= dated[c] BY <1>10, <1>11, <1>12, <3>1, <3>4
    <3>5. dated[c] < checked \/ checked <= dated[c] BY <1>1, <1>9, <3>2
    <3> QED BY <3>3, <3>4, <3>5
  <2> QED BY <1>5, <2>1, <2>2, <2>4, <2>5 DEF WatchInv
<1>13. ASSUME NEW top \in Rankings(events), diffs' = diffs \cup {Payload(checked, check, events, top)}
       PROVE  WatchInv'
  <2> DEFINE p == Payload(checked, check, events, top)
  <2>1. p \in DiffRow /\ p.start = checked /\ p.end = check
    BY <1>1, <1>3, PayloadTyped DEF Payload
  <2>2. p.new_claims \subseteq Asserted(events) BY DEF Payload
  <2>3. \A c \in p.new_claims : checked <= dated[c] /\ dated[c] < check
    <3>1. SUFFICES ASSUME NEW c \in Asserted(events) PROVE checked <= dated[c] /\ dated[c] < check
      BY <2>2
    <3>2. PICK e \in events : e.event = "asserted" /\ e.claim = c BY DEF Asserted
    <3>3. e \in log /\ checked <= e.at /\ e.at < check BY DEF events, Window
    <3>4. e.at = dated[c] BY <3>2, <3>3 DEF WatchInv, WatchLog
    <3> QED BY <3>3, <3>4
  <2>4. \A c \in Similar : standing[c] = "active" /\ checked <= dated[c] /\ dated[c] < check =>
            \/ c \in p.new_claims
            \/ Cardinality({ClusterOf[x] : x \in p.new_claims}) = TopClusters
    BY <1>3, <1>10, ToldOrCrowdedOut
  <2>5. diffs' = diffs \cup {p} BY <1>13
  <2> HIDE DEF p
  <2>6. WatchingTypeOK' BY <1>1, <1>2, <2>1, <2>5 DEF WatchInv, WatchingTypeOK
  <2>7. WatchStep' BY <1>1, <1>2, <1>6, <1>7, <2>1, <2>5 DEF WatchStep
  <2>8. \A c : Telling(c)' = IF c \in p.new_claims THEN Telling(c) \cup {p} ELSE Telling(c)
    BY <2>5 DEF Telling
  <2>9. ToldOnce'
    <3>1. SUFFICES ASSUME NEW c \in WatchedClaims
                   PROVE  /\ Cardinality(Telling(c)') <= 1
                          /\ \A d \in Telling(c)' : d.start <= dated[c] /\ dated[c] < d.end
      BY <1>2 DEF ToldOnce
    <3>2. /\ Cardinality(Telling(c)) <= 1
          /\ \A d \in Telling(c) : d \in diffs /\ d.start <= dated[c] /\ dated[c] < d.end
      BY <1>8 DEF ToldOnce, Telling
    <3>3. CASE c \notin p.new_claims BY <2>8, <3>2, <3>3
    <3>4. CASE c \in p.new_claims
      <4>1. Telling(c) = {} BY <1>1, <1>7, <1>9, <2>3, <3>2, <3>4
      <4>2. Telling(c)' = {p} BY <2>8, <3>4, <4>1
      <4>3. Cardinality({p}) = 1 BY FS_Singleton
      <4> QED BY <2>1, <2>3, <3>4, <4>2, <4>3
    <3> QED BY <3>3, <3>4
  <2>10. PassedIsTold'
    <3>1. SUFFICES ASSUME NEW c \in Similar, standing[c] # "none", dated[c] < check
                   PROVE  \/ Telling(c)' # {}
                          \/ dated[c] < arrived[c]
                          \/ standing[c] # "active" /\ ended[c] <= dated[c]
                          \/ \E d \in diffs' :
                                /\ d.start <= dated[c] /\ dated[c] < d.end
                                /\ Cardinality({ClusterOf[x] : x \in d.new_claims}) = TopClusters
      BY <1>2 DEF PassedIsTold
    <3>2. c \in WatchedClaims BY WatchingAssumption
    <3>3. CASE dated[c] < checked BY <1>8, <2>5, <2>8, <3>1, <3>3 DEF PassedIsTold
    <3>4. CASE checked <= dated[c] /\ standing[c] = "active"
      <4>1. CASE c \in p.new_claims BY <2>8, <4>1
      <4>2. CASE Cardinality({ClusterOf[x] : x \in p.new_claims}) = TopClusters
        BY <2>1, <2>5, <3>1, <3>4, <4>2
      <4> QED BY <2>4, <3>1, <3>4, <4>1, <4>2
    <3>5. CASE checked <= dated[c] /\ standing[c] # "active" BY <1>11, <3>1, <3>5
    <3>6. dated[c] < checked \/ checked <= dated[c] BY <1>1, <1>9, <3>2
    <3> QED BY <3>3, <3>4, <3>5, <3>6
  <2> QED BY <1>5, <2>6, <2>7, <2>9, <2>10 DEF WatchInv
<1> QED BY <1>4, <1>12, <1>13

\* The invariant is inductive: one step per action.
LEMMA WatchStepKeeps == WatchInv /\ [WatchingNext]_watchingVars => WatchInv'
<1> SUFFICES ASSUME WatchInv, [WatchingNext]_watchingVars PROVE WatchInv' OBVIOUS
<1>1. CASE UNCHANGED watchingVars
  BY <1>1, PromiseKept DEF watchingVars, WatchInv, WatchingTypeOK, WatchStep, WatchLog
<1>2. ASSUME NEW c \in WatchedClaims, NEW at \in DayNumbers, AssertClaim(c, at) PROVE WatchInv'
  BY <1>2, AssertKeeps
<1>3. ASSUME NEW a \in WatchedClaims, NEW b \in WatchedClaims, EndBySuccessor(a, b) \/ Dispute(a, b)
      PROVE  WatchInv'
  BY <1>3, EndBySuccessorKeeps, DisputeKeeps
<1>4. CASE PassDay \/ TickBegins \/ TickFails BY <1>4, ClockKeeps
<1>5. CASE CheckWatch BY <1>5, CheckKeeps
<1> QED BY <1>1, <1>2, <1>3, <1>4, <1>5 DEF WatchingNext

\* For any number of claims, clusters and days: a query watch is told once of each claim
\* whose date a check has passed, but for those that came late, had ended or were crowded out.
THEOREM WatchesTell == WatchingSpec => [](WatchingTypeOK /\ WatchTells)
<1>1. WatchingInit => WatchInv BY WatchInvInit
<1>2. WatchInv /\ [WatchingNext]_watchingVars => WatchInv' BY WatchStepKeeps
<1>3. WatchInv => WatchingTypeOK /\ WatchTells BY DEF WatchInv, WatchTells
<1> QED BY <1>1, <1>2, <1>3, PTL DEF WatchingSpec

-----------------------------------------------------------------------------
(* Settings.                                                                *)

\* A row that is there, and a change: provider and address go together.
Together(value) == value["provider"] = value["base_url"]
RowOfFields(value) == value = [f \in Fields |-> value[f]] /\ Together(value)

\* The row and what each request has read of it are whole, and nothing was committed
\* since a request read, unless two edits overlapped.
SettingsInv ==
    /\ saved = NoRowYet \/ RowOfFields(saved)
    /\ editor = [e \in Editors |-> editor[e]]
    /\ \A e \in Editors : /\ editor[e].read = NoRowYet \/ RowOfFields(editor[e].read)
                          /\ RowOfFields(editor[e].change)
                          /\ editor[e] # Waiting => racedEdits \/ editor[e].read = saved
    /\ RowOfFields(askedFor)
    /\ EditsAddUp
    /\ keys \subseteq {StoredUnder}

\* A row of fields is not the absence of a row, and stands for itself.
LEMMA ARowHasFields ==
    ASSUME NEW value, RowOfFields(value) PROVE value # NoRowYet /\ Overrides(value) = value
BY DEF RowOfFields, NoRowYet, Fields, Overrides

\* No override names neither provider nor address.
LEMMA NoOverrideTogether == RowOfFields(NoOverride)
BY DEF RowOfFields, Together, NoOverride, Fields

\* The merge changes provider and address, or neither.
LEMMA MergeTogether ==
    ASSUME NEW value, NEW change, RowOfFields(value), RowOfFields(change)
    PROVE  RowOfFields(Merges(value, change))
BY DEF RowOfFields, Together, Merges, Fields

\* The invariant holds where the settings begin.
LEMMA SettingsInvInit == SettingsInit => SettingsInv
BY NoOverrideTogether DEF SettingsInit, SettingsInv, Waiting, EditsAddUp, Overrides

\* PUT reads the row and keeps its change for the commit.
LEMMA PutKeeps ==
    ASSUME SettingsInv, NEW e \in Editors, NEW change \in Changes, PutSettings(e, change)
    PROVE  SettingsInv'
<1>1. RowOfFields(change) BY DEF Changes, RowOfFields, Together, Spelled, OwnModels, Fields
<1>2. /\ editor' = [editor EXCEPT ![e] = [read |-> saved, change |-> change]]
      /\ UNCHANGED <<envPreset, saved, keys, askedFor, racedEdits>>
  BY DEF PutSettings
<1> QED BY <1>1, <1>2 DEF SettingsInv, EditsAddUp, StoredUnder, Overrides

\* What one request commits, the others have not read.
LEMMA CommittedRaces ==
    ASSUME SettingsInv, NEW e \in Editors, Committed(e), NEW o \in Editors \ {e}
    PROVE  editor[o] = Waiting \/ racedEdits'
BY DEF Committed

\* A commit adds its change to the row it read, which is still the row unless edits overlapped.
LEMMA CommitPutKeeps ==
    ASSUME SettingsInv, NEW e \in Editors, CommitPut(e) PROVE SettingsInv'
<1> DEFINE base == editor[e].read
           change == editor[e].change
           value == Merges(Overrides(base), change)
<1>1. /\ editor[e] # Waiting
      /\ editor' = [editor EXCEPT ![e] = Waiting]
      /\ UNCHANGED <<envPreset, keys>>
  BY DEF CommitPut
<1>2. RowOfFields(Waiting.change) /\ Waiting.read = NoRowYet BY NoOverrideTogether DEF Waiting
<1>3. RowOfFields(Overrides(base)) /\ RowOfFields(change)
  BY NoOverrideTogether, ARowHasFields DEF Overrides, SettingsInv
<1>4. keys' \subseteq {StoredUnder'} BY <1>1 DEF SettingsInv, StoredUnder
<1>5. CASE UNCHANGED <<saved, askedFor, racedEdits, edits>>
  BY <1>1, <1>2, <1>4, <1>5 DEF SettingsInv, EditsAddUp, Overrides
<1>6. CASE ~UNCHANGED <<saved, askedFor, racedEdits, edits>>
  <2>1. /\ saved' = value
        /\ askedFor' = [f \in Fields |-> IF change[f] # Unset THEN change[f] ELSE askedFor[f]]
        /\ Committed(e)
    BY <1>6 DEF CommitPut
  <2> HIDE DEF value
  <2>2. RowOfFields(value) BY <1>3, MergeTogether DEF value
  <2>3. RowOfFields(askedFor') BY <1>3, <2>1 DEF SettingsInv, RowOfFields, Together, Fields
  <2>4. EditsAddUp'
    <3>1. CASE racedEdits BY <2>1, <3>1 DEF Committed, EditsAddUp
    <3>2. CASE ~racedEdits
      BY <1>1, <2>1, <2>2, <3>2, ARowHasFields DEF SettingsInv, EditsAddUp, value, Merges,
         Overrides
    <3> QED BY <3>1, <3>2
  <2>5. \A o \in Editors : /\ editor'[o].read = NoRowYet \/ RowOfFields(editor'[o].read)
                           /\ RowOfFields(editor'[o].change)
                           /\ editor'[o] # Waiting => racedEdits' \/ editor'[o].read = saved'
    BY <1>1, <1>2, <2>1, CommittedRaces DEF SettingsInv
  <2>6. editor' = [o \in Editors |-> editor'[o]] BY <1>1 DEF SettingsInv
  <2> QED BY <1>4, <2>1, <2>2, <2>3, <2>4, <2>5, <2>6 DEF SettingsInv
<1> QED BY <1>5, <1>6

\* Clearing the overrides leaves a row that overrides nothing.
LEMMA ClearKeeps ==
    ASSUME SettingsInv, NEW e \in Editors, ClearSettings(e) PROVE SettingsInv'
BY CommittedRaces, NoOverrideTogether DEF ClearSettings, SettingsInv, EditsAddUp, Overrides,
   StoredUnder

\* A key is stored under the name it is looked up by.
LEMMA KeysKeep ==
    ASSUME SettingsInv, PostCredentials \/ DeleteCredentials PROVE SettingsInv'
BY DEF SettingsInv, PostCredentials, DeleteCredentials, SaveKeyUnder, StoredUnder, EditsAddUp, Overrides

\* The invariant is inductive: one step per request.
LEMMA SettingsInvKept == SettingsInv /\ [SettingsNext]_settingsVars => SettingsInv'
<1> SUFFICES ASSUME SettingsInv, [SettingsNext]_settingsVars PROVE SettingsInv' OBVIOUS
<1>1. CASE UNCHANGED settingsVars
  BY <1>1 DEF settingsVars, SettingsInv, EditsAddUp, Overrides, StoredUnder
<1> QED BY <1>1, PutKeeps, CommitPutKeeps, ClearKeeps, KeysKeep DEF SettingsNext

\* For any number of editors and presets.
THEOREM SettingsAddUp == SettingsSpec => []SettingsTell
<1>1. SettingsInv => SettingsTell
  <2> SUFFICES ASSUME SettingsInv PROVE OnePreset /\ KeyIsFound BY DEF SettingsInv, SettingsTell
  <2>1. Overrides(saved) = NoOverride \/ RowOfFields(saved) BY DEF SettingsInv, Overrides
  <2>2. Together(Overrides(saved)) BY <2>1, NoOverrideTogether, ARowHasFields DEF RowOfFields
  <2>3. OnePreset BY <2>2 DEF OnePreset, Effective, Together, Spelled, Fields
  <2>4. KeyIsFound
    BY DEF SettingsInv, KeyIsFound, StoredUnder, LookedUpUnder, NoOverride, Fields
  <2> QED BY <2>3, <2>4
<1> QED BY SettingsInvInit, SettingsInvKept, <1>1, PTL DEF SettingsSpec

-----------------------------------------------------------------------------
(* Connections.                                                             *)

TokenRows == [grant : Grants, fresh : BOOLEAN, refresh : Nat, access : Nat]
BusyCallers == [at : {"reading", "posting", "storing", "sending"}, attempt : {0, 1},
                then : {"sending", "reading"}, row : {NotConnected} \cup TokenRows, disturbed : BOOLEAN]

ConnectionsTyped ==
    /\ rotates \in BOOLEAN
    /\ provider \in [Grants -> [refresh : Nat, oldest : Nat, newest : Nat]]
    /\ \A g \in Grants : provider[g].oldest <= provider[g].newest + 1
    /\ ~rotates => \A g \in Grants : provider[g].refresh = 0
    /\ credential \in {NotConnected} \cup TokenRows
    /\ caller \in [Callers -> {IdleCaller} \cup BusyCallers]
    /\ authorization = [g \in Grants |-> authorization[g]]

\* A row that is held is of a grant that was completed, and no newer than the provider's.
HeldRow(tok) ==
    tok \in TokenRows => /\ authorization[tok.grant] = "over"
                         /\ tok.refresh <= provider[tok.grant].refresh
                         /\ ~rotates => tok.refresh = 0

Newest(tok) == tok.refresh = provider[tok.grant].refresh

\* Where tokens rotate, whoever is about to store the newest one is alone with it.
Storing(c) == caller[c].at = "storing"
AloneWithIt(c) ==
    Storing(c) =>
        /\ Newest(caller[c].row)
        /\ rotates => /\ credential.grant = caller[c].row.grant => ~Newest(credential)
                      /\ \A d \in Callers \ {c} :
                            caller[d] # IdleCaller /\ caller[d].row.grant = caller[c].row.grant =>
                                ~Newest(caller[d].row)

\* A call nothing disturbed: nobody else stores, its refresh is taken, and at its second
\* attempt it is given a token that is good.
Undisturbed(c) ==
    caller[c] # IdleCaller /\ ~caller[c].disturbed =>
        /\ \A d \in Callers \ {c} : ~Storing(d)
        /\ lost = {} =>
            /\ caller[c].at = "posting" => Newest(caller[c].row)
            /\ caller[c].attempt = 1 =>
                /\ caller[c].at = "reading" /\ Connected(credential) => Good(credential)
                /\ caller[c].at = "posting" /\ caller[c].then = "sending" => Good(caller[c].row)
                /\ caller[c].at = "storing" => Good(caller[c].row)
                /\ caller[c].at = "sending" /\ Connected(caller[c].row) => Good(caller[c].row)

CallerInv(c) ==
    /\ caller[c] # IdleCaller => HeldRow(caller[c].row)
    /\ caller[c].at \in {"posting", "storing"} =>
           caller[c].row \in TokenRows /\ (overtaken \/ caller[c].row.grant = wanted)
    /\ AloneWithIt(c) /\ Undisturbed(c)

ConnectionsInv ==
    /\ ConnectionsTyped
    /\ HeldRow(credential)
    /\ \A c \in Callers : CallerInv(c)
    /\ RefreshTokenIsKept /\ LastSettingStands

\* The invariant holds before the first authorization.
LEMMA ConnectionsInvInit == ConnectionsInit => ConnectionsInv
<1> SUFFICES ASSUME ConnectionsInit PROVE ConnectionsInv OBVIOUS
<1>1. ConnectionsTyped BY DEF ConnectionsInit, ConnectionsTyped
<1>2. ~Connected(credential) /\ credential.grant = "none" /\ credential \notin TokenRows
  BY ConnectionsAssumption DEF ConnectionsInit, Connected, NotConnected, TokenRows
<1>3. \A c \in Callers : caller[c] = IdleCaller /\ caller[c].at = "resting"
  BY DEF ConnectionsInit, IdleCaller
<1>4. \A c \in Callers : CallerInv(c) BY <1>3 DEF CallerInv, AloneWithIt, Undisturbed, Storing
<1>5. HeldRow(credential) /\ RefreshTokenIsKept BY <1>2 DEF HeldRow, RefreshTokenIsKept
<1>6. LastSettingStands BY <1>2 DEF ConnectionsInit, LastSettingStands
<1> QED BY <1>1, <1>4, <1>5, <1>6 DEF ConnectionsInv

\* A row with tokens is not the absence of a connection, and has its fields.
LEMMA RowsConnected ==
    ASSUME NEW tok \in {NotConnected} \cup TokenRows
    PROVE  /\ tok \in TokenRows <=> Connected(tok)
           /\ ~Connected(tok) => tok.grant = "none"
           /\ tok \in TokenRows => tok.grant \in Grants /\ tok.refresh \in Nat /\ tok.access \in Nat
BY ConnectionsAssumption DEF TokenRows, NotConnected, Connected

\* A caller that is under way has its fields.
LEMMA BusyFields ==
    ASSUME ConnectionsInv, NEW c \in Callers, caller[c] # IdleCaller
    PROVE  /\ caller[c] \in BusyCallers
           /\ caller[c].row \in {NotConnected} \cup TokenRows
           /\ caller[c].disturbed \in BOOLEAN
BY DEF ConnectionsInv, ConnectionsTyped, BusyCallers

\* A caller that is not at rest is under way.
LEMMA AtIsBusy ==
    ASSUME NEW c \in Callers, caller[c].at # "resting" PROVE caller[c] # IdleCaller
BY DEF IdleCaller

-----------------------------------------------------------------------------
\* Steps that change one call only, and store nothing.
LEMMA OneCallerMoves ==
    ASSUME ConnectionsInv, NEW c \in Callers, NEW next \in {IdleCaller} \cup BusyCallers,
           caller' = [caller EXCEPT ![c] = next], next.at # "storing",
           UNCHANGED <<rotates, provider, credential, authorization, wanted, overtaken>>,
           \/ lost' = lost /\ caller[c].at # "storing"
           \/ lost' = lost \cup {caller[c].row.grant},
           CallerInv(c)',
           \A d \in Callers \ {c} : Storing(d) /\ rotates /\ next # IdleCaller
                /\ next.row.grant = caller[d].row.grant => ~Newest(next.row)
    PROVE  ConnectionsInv'
<1>1. /\ caller'[c] = next /\ \A d \in Callers \ {c} : caller'[d] = caller[d]
      /\ ConnectionsTyped'
  BY DEF ConnectionsInv, ConnectionsTyped
<1>2. HeldRow(credential)' /\ LastSettingStands'
  BY DEF ConnectionsInv, HeldRow, LastSettingStands
<1>3. RefreshTokenIsKept' BY <1>1 DEF ConnectionsInv, RefreshTokenIsKept, Connected, Busy
<1>4. ASSUME NEW d \in Callers \ {c} PROVE CallerInv(d)'
  <2>1. caller'[d] = caller[d] /\ CallerInv(d) BY <1>1 DEF ConnectionsInv
  <2>2. AloneWithIt(d)' BY <1>1, <2>1 DEF CallerInv, AloneWithIt, Storing, Newest
  <2>3. lost' = {} => lost = {} OBVIOUS
  <2>4. Undisturbed(d)'
    BY <1>1, <2>1, <2>3 DEF CallerInv, Undisturbed, Storing, Newest, Good, Connected
  <2> QED BY <2>1, <2>2, <2>4 DEF CallerInv, HeldRow
<1> QED BY <1>1, <1>2, <1>3, <1>4 DEF ConnectionsInv

\* Only what a busy call holds is seen by the others.
LEMMA RestKeeps ==
    ASSUME ConnectionsInv, NEW c \in Callers, caller' = [caller EXCEPT ![c] = IdleCaller],
           UNCHANGED <<rotates, provider, credential, authorization, wanted, overtaken>>,
           \/ lost' = lost /\ caller[c].at # "storing"
           \/ lost' = lost \cup {caller[c].row.grant}
    PROVE  ConnectionsInv'
<1>1. caller'[c] = IdleCaller /\ IdleCaller.at = "resting"
  BY DEF ConnectionsInv, ConnectionsTyped, IdleCaller
<1>2. CallerInv(c)' BY <1>1 DEF CallerInv, AloneWithIt, Undisturbed, Storing
<1> QED BY <1>1, <1>2, OneCallerMoves

\* A call that ends leaves the stored row alone.
LEMMA EndsKeep ==
    ASSUME ConnectionsInv, NEW c \in Callers, LoseAnswer(c) \/ ServedCall(c) \/ GiveUp(c)
    PROVE  ConnectionsInv'
BY RestKeeps DEF LoseAnswer, ServedCall, GiveUp, Refused

\* A call begins without a row of its own.
LEMMA BeginCallKeeps ==
    ASSUME ConnectionsInv, NEW c \in Callers, BeginCall(c) PROVE ConnectionsInv'
<1> DEFINE next == [at |-> "reading", attempt |-> 0, then |-> "sending", row |-> NotConnected,
                    disturbed |-> \E d \in Busy : caller[d].at = "storing"]
<1>1. /\ caller[c] = IdleCaller /\ caller' = [caller EXCEPT ![c] = next]
      /\ UNCHANGED <<rotates, provider, credential, authorization, wanted, overtaken, lost, lapses>>
  BY DEF BeginCall
<1>2. next \in BusyCallers BY DEF BusyCallers
<1>3. NotConnected \notin TokenRows /\ NotConnected.grant = "none" /\ ~Connected(NotConnected)
  BY ConnectionsAssumption DEF NotConnected, TokenRows, Connected
<1>4. caller'[c] = next /\ \A d \in Callers \ {c} : caller'[d] = caller[d]
  BY <1>1 DEF ConnectionsInv, ConnectionsTyped
<1>5. ~next.disturbed => \A d \in Callers : ~Storing(d) BY AtIsBusy DEF Storing, Busy
<1>6. /\ next.at = "reading" /\ next.row = NotConnected /\ next.attempt = 0
      /\ next.disturbed \in BOOLEAN
  OBVIOUS
<1>7. \A d \in Callers \ {c} : Storing(d) => caller[d].row.grant # "none"
  BY ConnectionsAssumption DEF ConnectionsInv, CallerInv, Storing, TokenRows
<1> HIDE DEF next
<1>8. CallerInv(c)'
  BY <1>3, <1>4, <1>5, <1>6 DEF CallerInv, HeldRow, AloneWithIt, Undisturbed, Storing
<1>9. next.at # "storing" /\ caller[c].at # "storing" BY <1>1, <1>6 DEF IdleCaller
<1>10. \A d \in Callers \ {c} : Storing(d) /\ rotates /\ next # IdleCaller
           /\ next.row.grant = caller[d].row.grant => ~Newest(next.row)
  BY <1>3, <1>6, <1>7
<1> QED BY <1>1, <1>2, <1>8, <1>9, <1>10, OneCallerMoves

\* A row read from the table is of the newest token only where nobody is about to store.
LEMMA RowReadKeeps ==
    ASSUME ConnectionsInv, NEW c \in Callers, caller[c].at \in {"reading", "sending"},
           NEW next \in BusyCallers, caller' = [caller EXCEPT ![c] = next], next.row = credential,
           next.disturbed = caller[c].disturbed,
           next.at = "posting" => Connected(credential), next.at # "storing",
           UNCHANGED <<rotates, provider, credential, authorization, wanted, overtaken, lost>>,
           ~next.disturbed /\ lost = {} /\ next.attempt = 1 =>
               /\ next.at = "reading" => ~Connected(credential)
               /\ (next.at = "posting" /\ next.then = "sending") \/ next.at = "sending" =>
                      (Connected(credential) => Good(credential))
    PROVE  ConnectionsInv'
<1>1. caller[c] # IdleCaller BY AtIsBusy
<1>2. next # IdleCaller BY DEF BusyCallers, IdleCaller
<1>3. caller'[c] = next /\ \A d \in Callers \ {c} : caller'[d] = caller[d]
  BY DEF ConnectionsInv, ConnectionsTyped
<1>4. credential \in {NotConnected} \cup TokenRows /\ HeldRow(credential)
  BY DEF ConnectionsInv, ConnectionsTyped
<1>5. next.at = "posting" => credential \in TokenRows BY <1>4, RowsConnected
<1>6. overtaken \/ credential.grant = wanted BY DEF ConnectionsInv, LastSettingStands
<1>7. ~next.disturbed => \A d \in Callers \ {c} : ~Storing(d)
  BY <1>1 DEF ConnectionsInv, CallerInv, Undisturbed
<1>8. ~next.disturbed /\ lost = {} /\ Connected(credential) => Newest(credential)
  BY <1>7 DEF ConnectionsInv, RefreshTokenIsKept, Newest, Busy, Storing
<1>9. Undisturbed(c)'
  BY <1>2, <1>3, <1>7, <1>8 DEF Undisturbed, Storing, Newest, Good, Connected
<1>10. CallerInv(c)'
  BY <1>2, <1>3, <1>4, <1>5, <1>6, <1>9 DEF CallerInv, HeldRow, AloneWithIt, Storing
<1>11. \A d \in Callers \ {c} : Storing(d) /\ rotates /\ next.row.grant = caller[d].row.grant => ~Newest(next.row)
  BY DEF ConnectionsInv, CallerInv, AloneWithIt
<1> QED BY <1>10, <1>11, OneCallerMoves

\* get_valid_token uses the access token or goes to refresh it.
LEMMA GetTokenKeeps ==
    ASSUME ConnectionsInv, NEW c \in Callers, GetToken(c) PROVE ConnectionsInv'
<1> DEFINE next == [caller[c] EXCEPT !.row = credential, !.then = "sending",
           !.at = IF Connected(credential) /\ ~credential.fresh THEN "posting" ELSE "sending"]
<1>1. /\ caller[c].at = "reading"
      /\ caller' = [caller EXCEPT ![c] = next]
      /\ UNCHANGED <<rotates, provider, credential, authorization, wanted, overtaken, lost, lapses>>
  BY DEF GetToken, ConnectionsInv, ConnectionsTyped
<1>2. caller[c] # IdleCaller BY <1>1, AtIsBusy
<1>3. caller[c] \in BusyCallers /\ credential \in {NotConnected} \cup TokenRows
  BY <1>2 DEF ConnectionsInv, ConnectionsTyped
<1>4. /\ next \in BusyCallers /\ next.row = credential /\ next.disturbed = caller[c].disturbed
      /\ next.at \in {"posting", "sending"} /\ (next.at = "posting" => Connected(credential))
      /\ next.attempt = caller[c].attempt
  BY <1>3 DEF BusyCallers
<1>5. ~caller[c].disturbed /\ lost = {} /\ caller[c].attempt = 1 => (Connected(credential) => Good(credential))
  BY <1>1, <1>2 DEF ConnectionsInv, CallerInv, Undisturbed
<1> HIDE DEF next
<1>6. ~next.disturbed /\ lost = {} /\ next.attempt = 1 =>
         /\ next.at = "reading" => ~Connected(credential)
         /\ (next.at = "posting" /\ next.then = "sending") \/ next.at = "sending" =>
                (Connected(credential) => Good(credential))
  BY <1>4, <1>5
<1>7. next.at # "storing" /\ caller[c].at \in {"reading", "sending"} BY <1>1, <1>4
<1> QED BY <1>1, <1>4, <1>6, <1>7, RowReadKeeps

\* A call that was refused goes back to read the row and refresh it.
LEMMA InvalidateKeeps ==
    ASSUME ConnectionsInv, NEW c \in Callers, Invalidate(c) PROVE ConnectionsInv'
<1> DEFINE next == ReadAndRefresh(c)
<1>1. /\ caller[c].at = "sending"
      /\ caller' = [caller EXCEPT ![c] = next]
      /\ UNCHANGED <<rotates, provider, credential, authorization, wanted, overtaken, lost, lapses>>
  BY DEF Invalidate
<1>2. caller[c] # IdleCaller BY <1>1, AtIsBusy
<1>3. caller[c] \in BusyCallers /\ credential \in {NotConnected} \cup TokenRows
  BY <1>2 DEF ConnectionsInv, ConnectionsTyped
<1>4. /\ next \in BusyCallers /\ next.row = credential /\ next.disturbed = caller[c].disturbed
      /\ next.at = IF Connected(credential) THEN "posting" ELSE "reading"
      /\ next.then = "reading"
  BY <1>3 DEF BusyCallers, ReadAndRefresh
<1> HIDE DEF next
<1> QED BY <1>1, <1>4, RowReadKeeps

\* A refused refresh leaves the row as it is.
LEMMA RefusedKeeps ==
    ASSUME ConnectionsInv, NEW c \in Callers, RefreshRefused(c) PROVE ConnectionsInv'
<1> DEFINE next == [caller[c] EXCEPT !.at = caller[c].then]
<1>1. /\ caller[c].at = "posting" /\ ~Newest(caller[c].row)
      /\ caller' = [caller EXCEPT ![c] = next]
      /\ UNCHANGED <<rotates, provider, credential, authorization, wanted, overtaken, lost, lapses>>
  BY DEF RefreshRefused, Answers, Newest, ConnectionsInv, ConnectionsTyped
<1>2. caller[c] # IdleCaller BY <1>1, AtIsBusy
<1>3. caller[c] \in BusyCallers BY <1>2 DEF ConnectionsInv, ConnectionsTyped
<1>4. /\ next \in BusyCallers /\ next.row = caller[c].row /\ next.disturbed = caller[c].disturbed
      /\ next.at \in {"sending", "reading"}
  BY <1>3 DEF BusyCallers
<1> HIDE DEF next
<1>5. caller'[c] = next /\ \A d \in Callers \ {c} : caller'[d] = caller[d]
  BY <1>1 DEF ConnectionsInv, ConnectionsTyped
<1>6. caller[c].disturbed \/ lost # {} BY <1>1, <1>2 DEF ConnectionsInv, CallerInv, Undisturbed
<1>7. next # IdleCaller BY <1>4 DEF BusyCallers, IdleCaller
<1>8. Undisturbed(c)'
  BY <1>1, <1>2, <1>4, <1>5, <1>6 DEF ConnectionsInv, CallerInv, Undisturbed, Storing
<1>9. CallerInv(c)'
  BY <1>1, <1>2, <1>4, <1>5, <1>8 DEF ConnectionsInv, CallerInv, HeldRow, AloneWithIt, Storing
<1>10. next.at # "storing" /\ caller[c].at # "storing" BY <1>1, <1>4
<1> QED BY <1>1, <1>4, <1>9, <1>10, OneCallerMoves

-----------------------------------------------------------------------------
\* A disturbed call is as it was, but for what it is told.
LEMMA AsBefore ==
    ASSUME ConnectionsInv, NEW d \in Callers
    PROVE  /\ caller[d] = IdleCaller => Disturbed(d) = IdleCaller
           /\ caller[d] # IdleCaller =>
                 /\ Disturbed(d) \in BusyCallers /\ Disturbed(d) # IdleCaller
                 /\ Disturbed(d).disturbed = TRUE
                 /\ Disturbed(d).row = caller[d].row
           /\ Disturbed(d).at = caller[d].at
<1>1. CASE caller[d] = IdleCaller BY <1>1 DEF Disturbed
<1>2. CASE caller[d] # IdleCaller BY <1>2, BusyFields DEF Disturbed, BusyCallers, IdleCaller
<1> QED BY <1>1, <1>2

\* A refresh that the provider answered stores the newest tokens, whoever else refreshes.
LEMMA PostKeeps ==
    ASSUME ConnectionsInv, NEW c \in Callers, PostRefresh(c) PROVE ConnectionsInv'
<1> DEFINE tok == caller[c].row
           g == tok.grant
           data == [provider[g] EXCEPT !.newest = @ + 1, !.refresh = IF rotates THEN @ + 1 ELSE @]
           next == [caller[c] EXCEPT !.at = "storing", !.row = Merged(tok, data)]
<1>1. /\ caller[c].at = "posting" /\ Newest(tok)
      /\ provider' = [provider EXCEPT ![g] = data]
      /\ caller' = [d \in Callers |-> IF d = c THEN next ELSE Disturbed(d)]
      /\ UNCHANGED <<rotates, credential, authorization, wanted, overtaken, lost, lapses>>
  BY DEF PostRefresh, Answers, Newest
<1>2. /\ caller[c] # IdleCaller /\ tok \in TokenRows /\ g \in Grants
      /\ HeldRow(tok) /\ (overtaken \/ g = wanted)
  BY <1>1, AtIsBusy DEF ConnectionsInv, CallerInv, TokenRows
<1>3. caller[c] \in BusyCallers BY <1>2, BusyFields
<1>4. /\ provider[g] \in [refresh : Nat, oldest : Nat, newest : Nat]
      /\ provider[g].oldest <= provider[g].newest + 1
      /\ rotates \in BOOLEAN
      /\ ~rotates => provider[g].refresh = 0
  BY <1>2 DEF ConnectionsInv, ConnectionsTyped
<1>5. /\ data \in [refresh : Nat, oldest : Nat, newest : Nat]
      /\ data.refresh = IF rotates THEN provider[g].refresh + 1 ELSE provider[g].refresh
      /\ data.oldest = provider[g].oldest /\ data.newest = provider[g].newest + 1
  <2> DEFINE p == provider[g]
  <2> HIDE DEF p
  <2>1. p \in [refresh : Nat, oldest : Nat, newest : Nat] /\ rotates \in BOOLEAN BY <1>4 DEF p
  <2>2. data = [p EXCEPT !.newest = @ + 1, !.refresh = IF rotates THEN @ + 1 ELSE @] BY DEF p
  <2> HIDE DEF data
  <2>3. /\ data.refresh = IF rotates THEN p.refresh + 1 ELSE p.refresh
        /\ data.oldest = p.oldest /\ data.newest = p.newest + 1
    BY <2>1, <2>2
  <2>4. data \in [refresh : Nat, oldest : Nat, newest : Nat]
    <3>1. data = [refresh |-> data.refresh, oldest |-> data.oldest, newest |-> data.newest]
      BY <2>1, <2>2
    <3>2. data.refresh \in Nat /\ data.oldest \in Nat /\ data.newest \in Nat BY <2>1, <2>3
    <3> QED BY <3>1, <3>2
  <2> QED BY <2>3, <2>4 DEF p
<1> DEFINE kept == Merged(tok, data)
<1>6. /\ kept \in TokenRows /\ kept.grant = g /\ kept.access = data.newest
      /\ kept.refresh = IF rotates THEN data.refresh ELSE tok.refresh
  <2> HIDE DEF data, tok
  <2> QED BY <1>2, <1>5 DEF Merged, TokenRows
<1>7. /\ next \in BusyCallers /\ next.at = "storing" /\ next.row = kept
      /\ next.disturbed = caller[c].disturbed
  <2> HIDE DEF kept
  <2> QED BY <1>3, <1>6 DEF BusyCallers, kept
<1>8. next # IdleCaller BY <1>7 DEF IdleCaller
<1> HIDE DEF data, kept, next, tok, g
<1>9. /\ caller'[c] = next
      /\ \A d \in Callers \ {c} : caller'[d] = Disturbed(d)
      /\ caller' \in [Callers -> {IdleCaller} \cup BusyCallers]
  BY <1>1, <1>7, AsBefore
<1>10. /\ provider'[g] = data /\ \A h \in Grants \ {g} : provider'[h] = provider[h]
       /\ provider' \in [Grants -> [refresh : Nat, oldest : Nat, newest : Nat]]
  BY <1>1, <1>2, <1>5 DEF ConnectionsInv, ConnectionsTyped
<1>11. ConnectionsTyped' BY <1>1, <1>4, <1>5, <1>9, <1>10 DEF ConnectionsInv, ConnectionsTyped
\* Who holds a row of this grant holds an older one now, where tokens rotate.
<1>12. ASSUME NEW held \in {NotConnected} \cup TokenRows, HeldRow(held)
       PROVE  /\ HeldRow(held)'
              /\ rotates /\ held.grant = g => held.refresh # provider'[g].refresh
              /\ held.grant # g /\ held \in TokenRows => provider'[held.grant] = provider[held.grant]
  <2>1. CASE held.grant = g
    BY <1>1, <1>2, <1>4, <1>5, <1>10, <1>12, <2>1, RowsConnected, ConnectionsAssumption DEF
       HeldRow, TokenRows
  <2>2. CASE held.grant # g BY <1>1, <1>10, <1>12, <2>2, RowsConnected DEF HeldRow
  <2> QED BY <2>1, <2>2
<1>13. HeldRow(credential)' /\ LastSettingStands'
  BY <1>1, <1>12 DEF ConnectionsInv, ConnectionsTyped, HeldRow, LastSettingStands
<1>14. kept.refresh = provider'[g].refresh /\ (~rotates => kept.refresh = 0) /\ kept.access >= provider'[g].oldest
  BY <1>1, <1>2, <1>4, <1>5, <1>6, <1>10 DEF Newest, tok, g
<1>15. ASSUME NEW d \in Callers \ {c} PROVE CallerInv(d)'
  <2>1. /\ caller'[d] = Disturbed(d) /\ caller'[d].at = caller[d].at
        /\ caller[d] = IdleCaller => caller'[d] = IdleCaller
        /\ caller[d] # IdleCaller => /\ caller'[d] \in BusyCallers /\ caller'[d].disturbed = TRUE
                                     /\ caller'[d].row = caller[d].row
    BY <1>9, AsBefore
  <2>2. CASE caller[d] = IdleCaller
    BY <2>1, <2>2 DEF CallerInv, AloneWithIt, Undisturbed, Storing, IdleCaller
  <2>3. CASE caller[d] # IdleCaller
    <3>1. /\ caller[d].row \in {NotConnected} \cup TokenRows /\ HeldRow(caller[d].row)
          /\ CallerInv(d)
      BY <2>3, BusyFields DEF ConnectionsInv, CallerInv
    <3>2. HeldRow(caller[d].row)' /\ caller'[d].row = caller[d].row
      BY <1>12, <2>1, <2>3, <3>1 DEF HeldRow
    <3>3. AloneWithIt(d)'
      <4> SUFFICES ASSUME caller[d].at = "storing" PROVE AloneWithIt(d)'
        BY <2>1 DEF AloneWithIt, Storing
      <4>1. /\ caller[d].row \in TokenRows /\ Newest(caller[d].row) /\ AloneWithIt(d) /\ Storing(d)
        BY <3>1 DEF CallerInv, AloneWithIt, Storing
      <4>2. rotates => caller[d].row.grant # g BY <1>1, <1>2, <4>1 DEF AloneWithIt, g, tok
      <4>3. Newest(caller[d].row)'
        BY <1>1, <1>4, <1>5, <1>10, <2>1, <2>3, <4>1, <4>2 DEF Newest, TokenRows
      <4>4. rotates => \A h \in Grants : h = caller[d].row.grant => provider'[h] = provider[h]
        BY <1>10, <4>2
      <4>5. rotates /\ credential.grant = caller[d].row.grant => ~Newest(credential)'
        BY <1>1, <4>1, <4>4 DEF AloneWithIt, Newest, TokenRows
      <4>6. rotates => \A e \in Callers \ {d} :
                caller'[e] # IdleCaller /\ caller'[e].row.grant = caller[d].row.grant => ~Newest(caller[e].row)'
        <5> SUFFICES ASSUME rotates, NEW e \in Callers \ {d}, caller'[e] # IdleCaller,
                            caller'[e].row.grant = caller[d].row.grant
                     PROVE  ~Newest(caller[e].row)'
          BY DEF Newest
        <5>1. e # c BY <1>6, <1>7, <1>9, <4>2
        <5>2. caller'[e].row = caller[e].row /\ caller[e] # IdleCaller BY <1>9, <5>1, AsBefore
        <5> QED BY <4>1, <4>4, <5>2 DEF AloneWithIt, Newest, TokenRows
      <4> QED BY <1>1, <2>1, <2>3, <4>3, <4>5, <4>6 DEF AloneWithIt
    <3>4. Undisturbed(d)' BY <2>1, <2>3 DEF Undisturbed
    <3> QED BY <1>1, <2>1, <2>3, <3>1, <3>2, <3>3, <3>4 DEF CallerInv, HeldRow
  <2> QED BY <2>2, <2>3
<1>16. CallerInv(c)'
  <2>1. AloneWithIt(c)'
    <3>1. rotates /\ credential.grant = g => ~Newest(credential)'
      BY <1>1, <1>12 DEF ConnectionsInv, ConnectionsTyped, Newest
    <3>2. \A d \in Callers \ {c} : rotates /\ caller'[d] # IdleCaller /\ caller'[d].row.grant = g =>
              ~Newest(caller[d].row)'
      <4> SUFFICES ASSUME NEW d \in Callers \ {c}, rotates, caller'[d] # IdleCaller, caller'[d].row.grant = g
                   PROVE  ~Newest(caller[d].row)'
        OBVIOUS
      <4>1. caller[d] # IdleCaller /\ caller'[d].row = caller[d].row BY <1>9, AsBefore
      <4>2. caller[d].row \in {NotConnected} \cup TokenRows /\ HeldRow(caller[d].row)
        BY <4>1, BusyFields DEF ConnectionsInv, CallerInv
      <4> QED BY <1>12, <4>1, <4>2 DEF Newest
    <3>3. Newest(caller[c].row)' /\ caller'[c].row.grant = g
      BY <1>6, <1>7, <1>9, <1>14 DEF Newest
    <3> QED BY <1>1, <3>1, <3>2, <3>3 DEF AloneWithIt
  <2>2. Undisturbed(c)'
    <3>1. caller'[c].at = "storing" /\ caller'[c].row = kept /\ Good(caller[c].row)'
      BY <1>2, <1>6, <1>7, <1>9, <1>14, RowsConnected DEF Good
    <3>2. ~caller'[c].disturbed => \A d \in Callers \ {c} : ~Storing(d)
      BY <1>2, <1>7, <1>9 DEF ConnectionsInv, CallerInv, Undisturbed
    <3>3. \A d \in Callers \ {c} : Storing(d)' <=> Storing(d) BY <1>9, AsBefore DEF Storing
    <3> QED BY <3>1, <3>2, <3>3 DEF Undisturbed
  <2>3. HeldRow(caller[c].row)'
    BY <1>1, <1>2, <1>5, <1>6, <1>7, <1>9, <1>10, <1>14 DEF HeldRow, g
  <2> QED BY <1>1, <1>2, <1>6, <1>7, <1>9, <2>1, <2>2, <2>3 DEF CallerInv
<1>17. RefreshTokenIsKept'
  <2> SUFFICES ASSUME Connected(credential), credential.grant \notin lost
               PROVE  \/ credential.refresh = provider'[credential.grant].refresh
                      \/ \E d \in Callers : /\ caller'[d] # IdleCaller /\ caller'[d].at = "storing"
                                            /\ caller'[d].row.grant = credential.grant
                                            /\ caller'[d].row.refresh = provider'[credential.grant].refresh
    BY <1>1 DEF RefreshTokenIsKept, Busy, Connected
  <2>1. CASE credential.grant = g BY <1>6, <1>7, <1>8, <1>9, <1>14, <2>1
  <2>2. CASE credential.grant # g
    <3>1. provider'[credential.grant] = provider[credential.grant]
      BY <1>10, <2>2, RowsConnected DEF ConnectionsInv, ConnectionsTyped, TokenRows
    <3>2. CASE credential.refresh = provider[credential.grant].refresh BY <3>1, <3>2
    <3>3. CASE credential.refresh # provider[credential.grant].refresh
      <4>1. PICK d \in Callers : /\ caller[d] # IdleCaller /\ caller[d].at = "storing"
                                 /\ caller[d].row.grant = credential.grant
                                 /\ caller[d].row.refresh = provider[credential.grant].refresh
        BY <3>3 DEF ConnectionsInv, RefreshTokenIsKept, Busy
      <4>2. d # c BY <1>1, <4>1
      <4> QED BY <1>9, <3>1, <4>1, <4>2, AsBefore
    <3> QED BY <3>2, <3>3
  <2> QED BY <2>1, <2>2
<1> QED BY <1>11, <1>13, <1>15, <1>16, <1>17 DEF ConnectionsInv

\* What is stored is the newest token, and the call that stored it reads it next.
LEMMA StoreKeeps ==
    ASSUME ConnectionsInv, NEW c \in Callers, StoreRefreshed(c) PROVE ConnectionsInv'
<1> DEFINE tok == caller[c].row
           next == [caller[c] EXCEPT !.at = caller[c].then]
<1>1. /\ Storing(c) /\ credential' = tok /\ caller' = [caller EXCEPT ![c] = next]
      /\ UNCHANGED <<rotates, provider, authorization, wanted, overtaken, lost, lapses>>
  BY DEF StoreRefreshed, Storing, ConnectionsInv, ConnectionsTyped
<1>2. /\ caller[c] # IdleCaller /\ CallerInv(c) /\ tok \in TokenRows /\ HeldRow(tok)
      /\ (overtaken \/ tok.grant = wanted) /\ AloneWithIt(c) /\ Newest(tok)
  BY <1>1, AtIsBusy DEF ConnectionsInv, CallerInv, Storing, AloneWithIt
<1>3. caller[c] \in BusyCallers BY <1>2, BusyFields
<1>4. /\ next \in BusyCallers /\ next.row = tok /\ next.disturbed = caller[c].disturbed
      /\ next.at \in {"sending", "reading"} /\ next.attempt = caller[c].attempt
  BY <1>3 DEF BusyCallers
<1>5. next # IdleCaller BY <1>4 DEF BusyCallers, IdleCaller
<1> HIDE DEF next, tok
<1>6. caller'[c] = next /\ \A d \in Callers \ {c} : caller'[d] = caller[d]
  BY <1>1 DEF ConnectionsInv, ConnectionsTyped
<1>7. ConnectionsTyped' BY <1>1, <1>2, <1>4 DEF ConnectionsInv, ConnectionsTyped
<1>8. HeldRow(credential)' /\ LastSettingStands' /\ RefreshTokenIsKept'
  BY <1>1, <1>2 DEF HeldRow, LastSettingStands, RefreshTokenIsKept, Newest
<1>9. \A d \in Callers \ {c} : CallerInv(d)'
  <2> SUFFICES ASSUME NEW d \in Callers \ {c} PROVE CallerInv(d)' OBVIOUS
  <2>1. caller'[d] = caller[d] /\ CallerInv(d) BY <1>6 DEF ConnectionsInv
  <2>2. AloneWithIt(d)'
    BY <1>1, <1>2, <1>4, <1>6, <2>1 DEF CallerInv, AloneWithIt, Storing, Newest, tok
  <2>3. caller[d] # IdleCaller => caller[d].disturbed BY <1>1, <2>1 DEF CallerInv, Undisturbed
  <2> QED BY <1>1, <2>1, <2>2, <2>3 DEF CallerInv, Undisturbed, HeldRow
<1>10. CallerInv(c)'
  BY <1>1, <1>2, <1>4, <1>5, <1>6 DEF CallerInv, Undisturbed, Storing, Good, Connected, tok,
     HeldRow, AloneWithIt
<1> QED BY <1>7, <1>8, <1>9, <1>10 DEF ConnectionsInv

-----------------------------------------------------------------------------
\* A step of the administrator or the provider that every call is told of.
LEMMA AllDisturbedKeeps ==
    ASSUME ConnectionsInv, caller' = [d \in Callers |-> Disturbed(d)],
           ConnectionsTyped', HeldRow(credential)', RefreshTokenIsKept', LastSettingStands',
           UNCHANGED <<rotates, authorization>>,
           \A g \in Grants : provider'[g].refresh = provider[g].refresh,
           \A c \in Callers : caller[c].at \in {"posting", "storing"} =>
               overtaken' \/ caller[c].row.grant = wanted',
           \A c \in Callers : Storing(c) /\ rotates /\ credential'.grant = caller[c].row.grant =>
               ~Newest(credential)'
    PROVE  ConnectionsInv'
<1> SUFFICES ASSUME NEW c \in Callers PROVE CallerInv(c)' BY DEF ConnectionsInv
<1>1. \A d \in Callers : caller'[d] = Disturbed(d) OBVIOUS
<1>2. CASE caller[c] = IdleCaller
  <2>1. caller'[c] = IdleCaller BY <1>1, <1>2, AsBefore
  <2>2. IdleCaller.at = "resting" BY DEF IdleCaller
  <2> QED BY <2>1, <2>2 DEF CallerInv, AloneWithIt, Undisturbed, Storing
<1>3. CASE caller[c] # IdleCaller
  <2>1. /\ caller'[c] # IdleCaller /\ caller'[c].disturbed = TRUE /\ caller'[c].row = caller[c].row
        /\ caller'[c].at = caller[c].at
    BY <1>1, <1>3, AsBefore
  <2>2. CallerInv(c) /\ caller[c].row \in {NotConnected} \cup TokenRows
    BY <1>3, BusyFields DEF ConnectionsInv
  <2>3. HeldRow(caller[c].row)' BY <1>3, <2>1, <2>2 DEF CallerInv, HeldRow, TokenRows
  <2>4. AloneWithIt(c)'
    <3> SUFFICES ASSUME Storing(c) PROVE AloneWithIt(c)' BY <2>1 DEF AloneWithIt, Storing
    <3>1. caller[c].row \in TokenRows /\ AloneWithIt(c) BY <2>2 DEF CallerInv, Storing
    <3>2. ASSUME NEW d \in Callers \ {c}, rotates, caller'[d] # IdleCaller, caller'[d].row.grant = caller[c].row.grant
          PROVE  ~Newest(caller[d].row)'
      <4>1. caller[d] # IdleCaller /\ caller'[d].row = caller[d].row BY <1>1, <3>2, AsBefore
      <4> QED BY <3>1, <3>2, <4>1 DEF AloneWithIt, Newest, TokenRows
    <3> QED BY <2>1, <3>1, <3>2 DEF AloneWithIt, Newest, TokenRows
  <2>5. Undisturbed(c)' BY <2>1 DEF Undisturbed
  <2>6. caller'[c].at \in {"posting", "storing"} =>
            caller'[c].row \in TokenRows /\ (overtaken' \/ caller'[c].row.grant = wanted')
    BY <2>1, <2>2 DEF CallerInv
  <2> QED BY <2>3, <2>4, <2>5, <2>6 DEF CallerInv
<1> QED BY <1>2, <1>3

\* Telling every caller that the row changed leaves its type.
LEMMA AllDisturbedTyped ==
    ASSUME ConnectionsInv, caller' = [d \in Callers |-> Disturbed(d)]
    PROVE  caller' \in [Callers -> {IdleCaller} \cup BusyCallers]
BY AsBefore

\* An administrator who disconnects disturbs every call under way.
LEMMA RemoveKeeps ==
    ASSUME ConnectionsInv, RemoveCredentials PROVE ConnectionsInv'
<1>1. /\ credential' = NotConnected /\ wanted' = "none"
      /\ overtaken' = \E c \in Busy : caller[c].at \in {"posting", "storing"}
      /\ caller' = [d \in Callers |-> Disturbed(d)]
      /\ UNCHANGED <<rotates, provider, authorization, lost, lapses>>
  BY DEF RemoveCredentials, Acts
<1>2. ConnectionsTyped' BY <1>1, AllDisturbedTyped DEF ConnectionsInv, ConnectionsTyped
<1>3. ~Connected(NotConnected) /\ NotConnected.grant = "none" /\ NotConnected \notin TokenRows
  BY ConnectionsAssumption DEF Connected, NotConnected, TokenRows
<1>4. HeldRow(credential)' /\ RefreshTokenIsKept' /\ LastSettingStands'
  BY <1>1, <1>3 DEF HeldRow, RefreshTokenIsKept, LastSettingStands, Connected
<1>5. \A c \in Callers : caller[c].at \in {"posting", "storing"} => overtaken'
  BY <1>1, AtIsBusy DEF Busy
<1>6. \A c \in Callers : Storing(c) => caller[c].row.grant # "none"
  BY ConnectionsAssumption DEF ConnectionsInv, CallerInv, Storing, TokenRows
<1>7. \A c \in Callers : Storing(c) /\ rotates /\ credential'.grant = caller[c].row.grant => ~Newest(credential)'
  BY <1>1, <1>3, <1>6
<1> QED BY <1>1, <1>2, <1>4, <1>5, <1>7, AllDisturbedKeeps

\* A grant the user revoked at the provider takes no further refresh.
LEMMA RevokeKeeps ==
    ASSUME ConnectionsInv, NEW g \in Grants, Revoke(g) PROVE ConnectionsInv'
<1>1. /\ provider' = [provider EXCEPT ![g].oldest = provider[g].newest + 1]
      /\ caller' = [d \in Callers |-> Disturbed(d)]
      /\ UNCHANGED <<rotates, credential, authorization, wanted, overtaken, lost>>
  BY DEF Revoke
<1>2. /\ provider' \in [Grants -> [refresh : Nat, oldest : Nat, newest : Nat]]
      /\ \A h \in Grants : provider'[h].refresh = provider[h].refresh /\ provider'[h].oldest <= provider'[h].newest + 1
  BY <1>1 DEF ConnectionsInv, ConnectionsTyped
<1>3. ConnectionsTyped' BY <1>1, <1>2, AllDisturbedTyped DEF ConnectionsInv, ConnectionsTyped
<1>4. \A d \in Callers : /\ caller'[d].at = caller[d].at
                         /\ caller[d] # IdleCaller => caller'[d] # IdleCaller /\ caller'[d].row = caller[d].row
  BY <1>1, AsBefore
<1>5. HeldRow(credential)' /\ LastSettingStands'
  BY <1>1, <1>2 DEF ConnectionsInv, HeldRow, LastSettingStands, TokenRows
<1>6. Connected(credential) => credential.grant \in Grants
  BY RowsConnected DEF ConnectionsInv, ConnectionsTyped
<1>7. RefreshTokenIsKept'
  BY <1>1, <1>2, <1>4, <1>6 DEF ConnectionsInv, RefreshTokenIsKept, Connected, Busy
<1>8. \A c \in Callers : caller[c].at \in {"posting", "storing"} => overtaken' \/ caller[c].row.grant = wanted'
  BY <1>1 DEF ConnectionsInv, CallerInv
<1>9. \A c \in Callers : Storing(c) /\ rotates /\ credential'.grant = caller[c].row.grant => ~Newest(credential)'
  <2> SUFFICES ASSUME NEW c \in Callers, Storing(c), rotates, credential.grant = caller[c].row.grant
               PROVE  ~Newest(credential)'
    BY <1>1
  <2>1. caller[c].row \in TokenRows /\ ~Newest(credential)
    BY DEF ConnectionsInv, CallerInv, AloneWithIt, Storing
  <2> QED BY <1>1, <1>2, <2>1 DEF Newest, TokenRows
<1> QED BY <1>1, <1>2, <1>3, <1>5, <1>7, <1>8, <1>9, AllDisturbedKeeps

\* A grant is completed once, so nobody holds a row of it yet.
LEMMA CompleteKeeps ==
    ASSUME ConnectionsInv, NEW g \in Grants, CompleteAuthorization(g) PROVE ConnectionsInv'
<1> DEFINE tok == [grant |-> g, fresh |-> TRUE, refresh |-> provider[g].refresh, access |-> provider[g].newest]
<1>1. /\ authorization[g] = "exchanging" /\ authorization' = [authorization EXCEPT ![g] = "over"]
      /\ credential' = tok
      /\ wanted' = g /\ overtaken' = \E c \in Busy : caller[c].at \in {"posting", "storing"}
      /\ caller' = [d \in Callers |-> Disturbed(d)]
      /\ UNCHANGED <<rotates, provider, lost, lapses>>
  BY DEF CompleteAuthorization, Acts
<1>2. /\ tok \in TokenRows /\ tok.grant = g /\ Newest(tok) /\ Connected(tok)
      /\ ~rotates => tok.refresh = 0
  BY ConnectionsAssumption DEF ConnectionsInv, ConnectionsTyped, TokenRows, Newest, Connected
<1> HIDE DEF tok
<1>3. /\ authorization' = [h \in Grants |-> authorization'[h]]
      /\ \A h \in Grants : authorization[h] = "over" => authorization'[h] = "over"
      /\ authorization'[g] = "over"
  BY <1>1 DEF ConnectionsInv, ConnectionsTyped
<1>4. ConnectionsTyped'
  BY <1>1, <1>2, <1>3, AllDisturbedTyped DEF ConnectionsInv, ConnectionsTyped
<1>5. ASSUME NEW c \in Callers, caller[c] # IdleCaller
      PROVE  caller[c].row \in TokenRows => caller[c].row.grant # g
  BY <1>1, <1>5 DEF ConnectionsInv, CallerInv, HeldRow
<1>6. provider[g].refresh \in Nat BY DEF ConnectionsInv, ConnectionsTyped
<1>7. HeldRow(credential)' /\ LastSettingStands' /\ RefreshTokenIsKept'
  BY <1>1, <1>2, <1>3, <1>6 DEF HeldRow, LastSettingStands, RefreshTokenIsKept, Newest
<1> SUFFICES ASSUME NEW c \in Callers PROVE CallerInv(c)' BY <1>4, <1>7 DEF ConnectionsInv
<1>8. \A d \in Callers : caller'[d] = Disturbed(d) BY <1>1
<1>9. CASE caller[c] = IdleCaller
  <2>1. caller'[c] = IdleCaller BY <1>8, <1>9, AsBefore
  <2>2. IdleCaller.at = "resting" BY DEF IdleCaller
  <2> QED BY <2>1, <2>2 DEF CallerInv, AloneWithIt, Undisturbed, Storing
<1>10. CASE caller[c] # IdleCaller
  <2>1. /\ caller'[c] # IdleCaller /\ caller'[c].disturbed = TRUE /\ caller'[c].row = caller[c].row
        /\ caller'[c].at = caller[c].at
    BY <1>8, <1>10, AsBefore
  <2>2. CallerInv(c) BY DEF ConnectionsInv
  <2>3. HeldRow(caller[c].row)'
    BY <1>1, <1>3, <1>10, <2>1, <2>2 DEF CallerInv, HeldRow, TokenRows
  <2>4. AloneWithIt(c)'
    <3> SUFFICES ASSUME Storing(c) PROVE AloneWithIt(c)' BY <2>1 DEF AloneWithIt, Storing
    <3>1. caller[c].row \in TokenRows /\ AloneWithIt(c) /\ caller[c].row.grant # g
      BY <1>5, <1>10, <2>2 DEF CallerInv, Storing
    <3>2. credential'.grant # caller'[c].row.grant BY <1>1, <1>2, <2>1, <3>1
    <3>3. ASSUME NEW d \in Callers \ {c}, rotates, caller'[d] # IdleCaller, caller'[d].row.grant = caller[c].row.grant
          PROVE  ~Newest(caller[d].row)'
      BY <1>1, <1>8, <3>1, <3>3, AsBefore DEF AloneWithIt, Newest
    <3> QED BY <1>1, <2>1, <3>1, <3>2, <3>3 DEF AloneWithIt, Newest
  <2>5. Undisturbed(c)' BY <2>1 DEF Undisturbed
  <2>6. caller'[c].at \in {"posting", "storing"} =>
            caller'[c].row \in TokenRows /\ (overtaken' \/ caller'[c].row.grant = wanted')
    BY <1>1, <1>10, <2>1, <2>2 DEF CallerInv, Busy
  <2> QED BY <2>3, <2>4, <2>5, <2>6 DEF CallerInv
<1> QED BY <1>9, <1>10

\* Steps that touch no call: an authorization that begins or fails, and time.
LEMMA AsideKeeps ==
    ASSUME ConnectionsInv,
           Expire \/ \E g \in Grants : StartAuthorization(g) \/ TakeState(g) \/ ExchangeFails(g)
    PROVE  ConnectionsInv'
<1>1. /\ UNCHANGED <<rotates, provider, caller, wanted, overtaken, lost>>
      /\ authorization' = [h \in Grants |-> authorization'[h]]
      /\ \A h \in Grants : authorization[h] = "over" => authorization'[h] = "over"
  BY DEF ConnectionsInv, ConnectionsTyped, Expire, StartAuthorization, TakeState, ExchangeFails
<1>2. /\ credential' \in {NotConnected} \cup TokenRows
      /\ credential' \in TokenRows <=> credential \in TokenRows
      /\ credential'.grant = credential.grant
      /\ credential \in TokenRows => credential'.refresh = credential.refresh /\ credential'.access = credential.access
  <2>1. CASE UNCHANGED credential BY <2>1 DEF ConnectionsInv, ConnectionsTyped
  <2>2. CASE Expire
    BY <2>2, RowsConnected DEF ConnectionsInv, ConnectionsTyped, Expire, TokenRows
  <2> QED BY <2>1, <2>2 DEF StartAuthorization, TakeState, ExchangeFails
<1>3. ConnectionsTyped' BY <1>1, <1>2 DEF ConnectionsInv, ConnectionsTyped
<1>4. /\ credential \in {NotConnected} \cup TokenRows
      /\ Connected(credential) => credential \in TokenRows
  BY RowsConnected DEF ConnectionsInv, ConnectionsTyped
<1>5. HeldRow(credential)' /\ LastSettingStands'
  BY <1>1, <1>2 DEF ConnectionsInv, HeldRow, LastSettingStands, TokenRows
<1>6. RefreshTokenIsKept'
  BY <1>1, <1>2, <1>4 DEF ConnectionsInv, RefreshTokenIsKept, Connected, Busy
<1>7. ASSUME NEW c \in Callers PROVE CallerInv(c)'
  <2>1. CallerInv(c) BY DEF ConnectionsInv
  <2>2. Storing(c) => caller[c].row \in TokenRows /\ caller[c].row.grant # "none"
    BY <2>1, ConnectionsAssumption DEF CallerInv, Storing, TokenRows
  <2>3. credential \notin TokenRows => credential.grant = "none" BY <1>4, RowsConnected
  <2>4. AloneWithIt(c)'
    BY <1>1, <1>2, <2>1, <2>2, <2>3 DEF CallerInv, AloneWithIt, Storing, Newest
  <2>5. Undisturbed(c)'
    BY <1>1, <1>2, <1>4, <2>1 DEF CallerInv, Undisturbed, Storing, Newest, Good, Connected
  <2>6. caller[c] # IdleCaller => HeldRow(caller[c].row)'
    BY <1>1, <2>1 DEF CallerInv, HeldRow, TokenRows
  <2> QED BY <1>1, <2>1, <2>4, <2>5, <2>6 DEF CallerInv
<1> QED BY <1>3, <1>5, <1>6, <1>7 DEF ConnectionsInv

-----------------------------------------------------------------------------
\* The invariant is inductive: one step per action.
LEMMA ConnectionsInvKept == ConnectionsInv /\ [ConnectionsNext]_connectionsVars => ConnectionsInv'
<1> SUFFICES ASSUME ConnectionsInv, [ConnectionsNext]_connectionsVars PROVE ConnectionsInv'
  OBVIOUS
<1>1. CASE UNCHANGED connectionsVars
  <2>1. \A c \in Callers : CallerInv(c)'
    BY <1>1 DEF connectionsVars, ConnectionsInv, CallerInv, HeldRow, AloneWithIt, Undisturbed, Storing,
                Newest, Good, Connected
  <2> QED BY <1>1, <2>1 DEF connectionsVars, ConnectionsInv, ConnectionsTyped, HeldRow, RefreshTokenIsKept,
                             LastSettingStands, Connected, Busy
<1> QED BY <1>1, BeginCallKeeps, GetTokenKeeps, PostKeeps, RefusedKeeps, StoreKeeps, EndsKeep,
            InvalidateKeeps, CompleteKeeps, RevokeKeeps, RemoveKeeps, AsideKeeps DEF ConnectionsNext

\* For any number of calls and grants, whether refresh tokens rotate or not.
THEOREM ConnectionsHold == ConnectionsSpec => []ConnectionsTell
<1>1. ConnectionsInv => ConnectionsTell
  <2> SUFFICES ASSUME ConnectionsInv, NEW c \in Callers, Refused(c), Connected(caller[c].row), lost = {}
               PROVE  caller[c].disturbed
    BY DEF ConnectionsInv, ConnectionsTell, RetryServes
  <2>1. caller[c] # IdleCaller BY AtIsBusy DEF Refused
  <2> QED BY <2>1, BusyFields DEF ConnectionsInv, CallerInv, Undisturbed, Refused
<1> QED BY ConnectionsInvInit, ConnectionsInvKept, <1>1, PTL DEF ConnectionsSpec

-----------------------------------------------------------------------------
(* Refused parameters.                                                      *)

NegotiationTyped ==
    /\ learned \subseteq refuses /\ refuses \subseteq Parameters
    /\ call = [c \in Calls |-> call[c]]
    /\ payload \in [Calls -> SUBSET Parameters] /\ named \in [Calls -> SUBSET Parameters]
    /\ knew \in [Calls -> SUBSET Parameters] /\ dropped \in [Calls -> SUBSET Parameters]
    /\ attempt \in [Calls -> Nat]

\* Posts are counted by what was dropped after each: nothing, one parameter, or both.
Counted(c) ==
    \/ attempt[c] = 1 /\ dropped[c] = {}
    \/ attempt[c] = 2 /\ \E p \in Parameters : dropped[c] = {p}
    \/ attempt[c] = 3 /\ dropped[c] = Parameters

CallInv(c) ==
    /\ named[c] \subseteq payload[c] \cap refuses
    /\ payload[c] \cap (knew[c] \cup dropped[c]) = {}
    /\ dropped[c] \cap knew[c] = {}
    /\ dropped[c] \subseteq refuses
    /\ call[c] = "idle" => dropped[c] = {} /\ named[c] = {}
    /\ call[c] \in {"completion", "degrading", "dropping"} => Counted(c) /\ attempt[c] <= Attempts
    /\ call[c] \in {"degrading", "refused"} => named[c] # {}
    /\ call[c] = "dropping" => \E p \in Parameters : named[c] = {p}
    /\ call[c] = "unsatisfied" => dropped[c] = Parameters /\ attempt[c] = Attempts
    /\ call[c] = "answered" => payload[c] \cap refuses = {}

NegotiationInv ==
    /\ NegotiationTyped
    /\ \A c \in Calls : CallInv(c)
    /\ \A p \in learned : \E d \in Calls : p \in dropped[d]

\* The invariant holds before the first call.
LEMMA NegotiationInvInit == NegotiationInit => NegotiationInv
BY DEF NegotiationInit, NegotiationInv, NegotiationTyped, CallInv

\* A step of one call leaves the others as they were.
LEMMA OneCallMoves ==
    ASSUME NegotiationInv, NEW c \in Calls, NegotiationTyped', CallInv(c)',
           \A d \in Calls \ {c} : UNCHANGED <<call[d], payload[d], named[d], attempt[d], knew[d], dropped[d]>>,
           refuses' = refuses, dropped[c] \subseteq dropped'[c],
           \A p \in learned' \ learned : p \in dropped'[c]
    PROVE  NegotiationInv'
BY DEF NegotiationInv, CallInv, Counted

\* A payload leaves out what the process has learned to leave out.
LEMMA BuildKeeps ==
    ASSUME NegotiationInv, NEW c \in Calls, NEW kind \in {"completion", "stream"},
           NEW held \in SUBSET Parameters, BuildPayload(c, kind, held)
    PROVE  NegotiationInv'
<1>1. NegotiationTyped' /\ refuses' = refuses /\ learned' = learned /\ dropped' = dropped
  BY DEF NegotiationInv, NegotiationTyped, BuildPayload, Offered
<1>2. \A d \in Calls \ {c} : UNCHANGED <<call[d], payload[d], named[d], attempt[d], knew[d], dropped[d]>>
  BY DEF NegotiationInv, NegotiationTyped, BuildPayload
<1>3. /\ call[c] = "idle" /\ call'[c] = kind /\ payload'[c] = held \ learned /\ knew'[c] = learned
      /\ attempt'[c] = 1 /\ named'[c] = named[c]
  BY DEF NegotiationInv, NegotiationTyped, BuildPayload, Offered
<1>4. dropped[c] = {} /\ named[c] = {} BY <1>3 DEF NegotiationInv, CallInv
<1>5. CallInv(c)' BY <1>1, <1>3, <1>4, NegotiationAssumption DEF CallInv, Counted
<1> QED BY <1>1, <1>2, <1>5, OneCallMoves

\* An accepted payload holds nothing the model refuses.
LEMMA SatisfiedKeeps ==
    ASSUME NegotiationInv, NEW c \in Calls, Satisfied(c) PROVE NegotiationInv'
<1>1. /\ NegotiationTyped' /\ UNCHANGED <<refuses, learned, payload, named, attempt, knew, dropped>>
      /\ call'[c] = "answered" /\ payload[c] \cap refuses = {}
      /\ \A d \in Calls \ {c} : call'[d] = call[d]
  BY DEF NegotiationInv, NegotiationTyped, Satisfied
<1>2. CallInv(c)' BY <1>1 DEF NegotiationInv, CallInv
<1> QED BY <1>1, <1>2, OneCallMoves

\* A 400 names a parameter that was sent and that the model refuses.
LEMMA Answer400Keeps ==
    ASSUME NegotiationInv, NEW c \in Calls, NEW names \in SUBSET Parameters, Answer400(c, names)
    PROVE  NegotiationInv'
<1>1. /\ NegotiationTyped' /\ UNCHANGED <<refuses, learned, payload, attempt, knew, dropped>>
      /\ call[c] \in {"completion", "stream"}
      /\ call'[c] = IF call[c] = "stream" THEN "refused" ELSE "degrading"
      /\ named'[c] = names /\ names # {} /\ names \subseteq payload[c] \cap refuses
      /\ \A d \in Calls \ {c} : call'[d] = call[d] /\ named'[d] = named[d]
  BY DEF NegotiationInv, NegotiationTyped, Answer400
<1>2. CallInv(c)' BY <1>1 DEF NegotiationInv, CallInv, Counted
<1> QED BY <1>1, <1>2, OneCallMoves

\* A call that was refused knows which named parameters the process has learned.
LEMMA LookUpKeeps ==
    ASSUME NegotiationInv, NEW c \in Calls, LookUp(c) PROVE NegotiationInv'
<1>1. /\ UNCHANGED <<refuses, learned, payload, attempt, knew, dropped>>
      /\ call[c] = "degrading" /\ named[c] \subseteq Parameters
  BY DEF NegotiationInv, NegotiationTyped, LookUp
<1>2. CASE New(named[c]) # {}
  <2> DEFINE p == Tried(New(named[c]))
  <2>1. p \in named[c] BY <1>1, <1>2 DEF New, Tried, Parameters
  <2>2. call' = [call EXCEPT ![c] = "dropping"] /\ named' = [named EXCEPT ![c] = {p}]
    BY <1>2 DEF LookUp
  <2> HIDE DEF p
  <2>3. NegotiationTyped' BY <1>1, <2>1, <2>2 DEF NegotiationInv, NegotiationTyped
  <2>4. /\ call'[c] = "dropping" /\ named'[c] = {p} /\ p \in Parameters
        /\ \A d \in Calls \ {c} : call'[d] = call[d] /\ named'[d] = named[d]
    BY <1>1, <2>1, <2>2 DEF NegotiationInv, NegotiationTyped
  <2>5. CallInv(c)' BY <1>1, <2>1, <2>4 DEF NegotiationInv, CallInv, Counted
  <2> QED BY <1>1, <2>3, <2>4, <2>5, OneCallMoves
<1>3. CASE New(named[c]) = {}
  BY <1>1, <1>3, OneCallMoves DEF NegotiationInv, NegotiationTyped, LookUp, CallInv
<1> QED BY <1>2, <1>3

\* A dropped parameter is learned, and the post repeated without it.
LEMMA DropKeeps ==
    ASSUME NegotiationInv, NEW c \in Calls, DropParameter(c) PROVE NegotiationInv'
<1>1. /\ call[c] = "dropping" /\ refuses' = refuses /\ knew' = knew
      /\ payload' = [payload EXCEPT ![c] = @ \ named[c]]
      /\ learned' = learned \cup named[c]
      /\ dropped' = [dropped EXCEPT ![c] = @ \cup named[c]]
      /\ named' = [named EXCEPT ![c] = {}]
  BY DEF DropParameter
<1>2. PICK p \in Parameters : named[c] = {p} BY <1>1 DEF NegotiationInv, CallInv
<1>3. Counted(c) /\ attempt[c] <= Attempts /\ p \in payload[c] /\ p \in refuses /\ p \notin dropped[c] /\ p \notin knew[c]
  BY <1>1, <1>2 DEF NegotiationInv, CallInv
<1>4. \/ attempt[c] < Attempts /\ attempt' = [attempt EXCEPT ![c] = @ + 1] /\ call' = [call EXCEPT ![c] = "completion"]
      \/ attempt[c] = Attempts /\ attempt' = attempt /\ call' = [call EXCEPT ![c] = "unsatisfied"]
  BY <1>3, NegotiationAssumption DEF NegotiationInv, NegotiationTyped, DropParameter
<1>5. NegotiationTyped' BY <1>1, <1>2, <1>3, <1>4 DEF NegotiationInv, NegotiationTyped
<1>6. /\ payload'[c] = payload[c] \ {p} /\ dropped'[c] = dropped[c] \cup {p} /\ named'[c] = {}
      /\ call'[c] = IF attempt[c] < Attempts THEN "completion" ELSE "unsatisfied"
      /\ attempt'[c] = IF attempt[c] < Attempts THEN attempt[c] + 1 ELSE attempt[c]
      /\ \A d \in Calls \ {c} : UNCHANGED <<call[d], payload[d], named[d], attempt[d], knew[d], dropped[d]>>
  BY <1>1, <1>2, <1>4 DEF NegotiationInv, NegotiationTyped
<1>7. \/ attempt[c] = 1 /\ dropped[c] = {}
      \/ attempt[c] = 2 /\ dropped'[c] = Parameters
  BY <1>2, <1>3, <1>6 DEF Counted, Parameters
<1>8. CallInv(c)'
  BY <1>1, <1>3, <1>6, <1>7, NegotiationAssumption DEF Counted, NegotiationInv, NegotiationTyped,
     CallInv
<1> QED BY <1>1, <1>2, <1>5, <1>6, <1>8, OneCallMoves

\* The invariant is inductive: one step per action.
LEMMA NegotiationInvKept == NegotiationInv /\ [NegotiationNext]_negotiationVars => NegotiationInv'
<1> SUFFICES ASSUME NegotiationInv, [NegotiationNext]_negotiationVars PROVE NegotiationInv'
  OBVIOUS
<1>1. CASE UNCHANGED negotiationVars
  BY <1>1 DEF negotiationVars, NegotiationInv, NegotiationTyped, CallInv, Counted
<1>2. {"temperature"} \in SUBSET Parameters /\ Parameters \in SUBSET Parameters
  BY DEF Parameters
<1> QED BY <1>1, <1>2, BuildKeeps, SatisfiedKeeps, Answer400Keeps, LookUpKeeps, DropKeeps DEF NegotiationNext

\* For any number of calls.
THEOREM NegotiationLearns == NegotiationSpec => []NegotiationTells
<1>1. NegotiationInv => NegotiationTells
  <2> SUFFICES ASSUME NegotiationInv PROVE NegotiationTells OBVIOUS
  <2>1. LostWhileLearning
    <3> SUFFICES ASSUME NEW c \in Calls, Lost(c) PROVE ~(refuses \subseteq knew[c])
      BY DEF LostWhileLearning, NegotiationInv, NegotiationTyped
    <3>1. CallInv(c) BY DEF NegotiationInv
    <3>2. CASE call[c] = "refused" BY <3>1, <3>2 DEF CallInv
    <3>3. CASE call[c] = "unsatisfied" BY <3>1, <3>3 DEF CallInv, Parameters
    <3> QED BY <3>2, <3>3 DEF Lost
  <2>2. LostBesideAnother BY DEF LostBesideAnother, NegotiationInv, CallInv
  <2>3. SomeoneTaught BY DEF SomeoneTaught, NegotiationInv
  <2> QED BY <2>1, <2>2, <2>3 DEF NegotiationTells
<1> QED BY NegotiationInvInit, NegotiationInvKept, <1>1, PTL DEF NegotiationSpec

-----------------------------------------------------------------------------
(* Recorded answers.                                                        *)

\* Every set of naturals that is not empty has a least element.
LEMMA LeastNatural ==
    ASSUME NEW T \in SUBSET Nat, T # {}
    PROVE  \E m \in T : \A t \in T : m <= t
<1>1. IsWellFoundedOn(OpToRel(<, Nat), Nat) BY NatLessThanWellFounded
<1>2. PICK m \in T : \A t \in T : ~(<<t, m>> \in OpToRel(<, Nat)) BY <1>1, WFMin
<1>3. \A t \in T : ~(t < m) BY <1>2 DEF OpToRel
<1> QED BY <1>3

\* A set of positions that is not empty has a greatest one.
LEMMA MaxOfSome ==
    ASSUME NEW n \in Nat, NEW T \in SUBSET (1..n), T # {}
    PROVE  Max(T) \in T /\ \A t \in T : t <= Max(T)
<1> DEFINE Below == {n - t : t \in T}
<1>1. Below \in SUBSET Nat /\ Below # {} OBVIOUS
<1> HIDE DEF Below
<1>2. PICK m \in Below : \A b \in Below : m <= b BY <1>1, LeastNatural
<1>3. PICK t \in T : m = n - t BY <1>2 DEF Below
<1>4. \A u \in T : t >= u
  <2>1. SUFFICES ASSUME NEW u \in T PROVE t >= u OBVIOUS
  <2>2. n - u \in Below BY DEF Below
  <2>3. n - t <= n - u BY <1>2, <1>3, <2>2
  <2> QED BY <2>3
<1>5. Max(T) \in T /\ \A u \in T : Max(T) >= u BY <1>4 DEF Max
<1> QED BY <1>5

TapeLine == [key : TapeKeys, text : TapeTexts, chunked : BOOLEAN]
TapeAnswer == [key : TapeKeys, text : TapeTexts]

CassetteTyped ==
    /\ tape \in Seq(TapeLine)
    /\ index = [c \in Clients |-> index[c]]
    /\ asking = [c \in Clients |-> asking[c]]
    /\ answers \in [Clients -> Seq(TapeAnswer)]

AnswerOf(line) == [key |-> line.key, text |-> line.text]

\* What a client knows are lines of the tape, and all it was told is among them; what it
\* asks for it does not know.
IndexTells(c) ==
    \/ index[c] = NotLoaded
    \/ /\ index[c] = [q \in TapeKeys |-> index[c][q]]
       /\ \A q \in TapeKeys : \/ index[c][q] = NoLine
                              \/ /\ index[c][q].key = q /\ index[c][q] \in TapeLine
                                 /\ \E i \in DOMAIN tape : tape[i] = index[c][q]

ClientKnows(c) ==
    /\ IndexTells(c)
    /\ \A i \in DOMAIN answers[c] :
        /\ index[c] # NotLoaded /\ index[c][answers[c][i].key] # NoLine
        /\ index[c][answers[c][i].key].text = answers[c][i].text
    /\ asking[c] = [step |-> asking[c].step, key |-> asking[c].key, how |-> asking[c].how,
                    heard |-> asking[c].heard]
    /\ asking[c].step = "asking" =>
        /\ c \in Recorders /\ index[c] # NotLoaded
        /\ asking[c].key \in TapeKeys /\ index[c][asking[c].key] = NoLine

ToldOf(q) == {c \in Recorders : \E i \in DOMAIN answers[c] : answers[c][i].key = q}

ToldSomeone(a) == \E r \in Recorders : \E k \in DOMAIN answers[r] : answers[r][k] = a

CassetteInv ==
    /\ CassetteTyped
    /\ \A c \in Clients : ClientKnows(c)
    /\ \A i \in DOMAIN tape : ToldSomeone(AnswerOf(tape[i]))
    /\ \A c \in Replayers : \A i \in DOMAIN answers[c] : ToldSomeone(answers[c][i])
    /\ \A q \in TapeKeys : Cardinality(LinesOf(q)) <= Cardinality(ToldOf(q))

\* A line has a text, no line has none.
LEMMA LineIsSome == \A line \in TapeLine : line # NoLine
BY CassetteAssumption DEF TapeLine, NoLine

\* A line of the tape has a key and a text.
LEMMA ElementOfTape ==
    ASSUME NEW S, NEW s \in Seq(S), NEW i \in DOMAIN s
    PROVE  s[i] \in S
OBVIOUS

\* An answer tells the key it was asked for.
LEMMA AnswerKeys ==
    ASSUME CassetteInv, NEW c \in Clients, NEW i \in DOMAIN answers[c]
    PROVE  answers[c][i] \in TapeAnswer /\ answers[c][i].key \in TapeKeys
<1>1. answers[c] \in Seq(TapeAnswer) BY DEF CassetteInv, CassetteTyped
<1>2. answers[c][i] \in TapeAnswer BY <1>1, ElementOfTape
<1> QED BY <1>2 DEF TapeAnswer

\* The lines of a key are finitely many.
LEMMA LinesFinite ==
    ASSUME CassetteInv, NEW q
    PROVE  IsFiniteSet(LinesOf(q)) /\ Cardinality(LinesOf(q)) \in Nat
<1>1. LinesOf(q) \in SUBSET (1..Len(tape)) /\ Len(tape) \in Nat
  BY DEF LinesOf, CassetteInv, CassetteTyped
<1>2. IsFiniteSet(1..Len(tape)) BY <1>1, FS_Interval
<1>3. IsFiniteSet(LinesOf(q)) BY <1>1, <1>2, FS_Subset
<1> QED BY <1>3, FS_CardinalityType

\* The invariant holds on the tape a run begins with.
LEMMA CassetteInvInit == CassetteInit => CassetteInv
<1> SUFFICES ASSUME CassetteInit PROVE CassetteInv OBVIOUS
<1>1. CassetteTyped BY DEF CassetteInit, CassetteTyped
<1>2. \A c \in Clients : ClientKnows(c) BY DEF CassetteInit, ClientKnows, IndexTells, NotAsking
<1>3. \A q \in TapeKeys : LinesOf(q) = {} /\ ToldOf(q) = {}
  BY DEF CassetteInit, LinesOf, ToldOf, Clients
<1>4. Cardinality({}) = 0 BY FS_EmptySet
<1>5. \A q \in TapeKeys : Cardinality(LinesOf(q)) <= Cardinality(ToldOf(q)) BY <1>3, <1>4
<1>6. /\ \A i \in DOMAIN tape : ToldSomeone(AnswerOf(tape[i]))
      /\ \A c \in Replayers : \A i \in DOMAIN answers[c] : ToldSomeone(answers[c][i])
  BY DEF CassetteInit, Clients
<1> QED BY <1>1, <1>2, <1>5, <1>6 DEF CassetteInv

\* Of the lines of a key the last is one of them.
LEMMA LineOfKey ==
    ASSUME tape \in Seq(TapeLine), NEW q \in TapeKeys
    PROVE  \/ LineOf(q) = NoLine
           \/ /\ LineOf(q).key = q /\ LineOf(q) \in TapeLine
              /\ \E i \in DOMAIN tape : tape[i] = LineOf(q)
<1>1. LinesOf(q) \in SUBSET (1..Len(tape)) /\ Len(tape) \in Nat BY DEF LinesOf
<1>2. CASE LinesOf(q) = {} BY <1>2 DEF LineOf
<1>3. CASE LinesOf(q) # {}
  <2>1. Max(LinesOf(q)) \in LinesOf(q) BY <1>1, <1>3, MaxOfSome
  <2>2. PICK m \in LinesOf(q) : LineOf(q) = tape[m] BY <1>3, <2>1 DEF LineOf
  <2>3. m \in DOMAIN tape /\ tape[m].key = q BY <2>2 DEF LinesOf
  <2>4. tape[m] \in TapeLine BY <2>3, ElementOfTape
  <2> QED BY <2>2, <2>3, <2>4
<1> QED BY <1>2, <1>3

\* While the tape stays and answers are only added, the others know what they knew.
LEMMA OthersKnow ==
    ASSUME CassetteInv, NEW c \in Clients, NEW d \in Clients \ {c},
           UNCHANGED <<index[d], asking[d], answers[d]>>,
           \A i \in DOMAIN tape : i \in DOMAIN tape' /\ tape'[i] = tape[i]
    PROVE  ClientKnows(d)'
BY DEF CassetteInv, ClientKnows, IndexTells

\* What somebody was told is told for good.
LEMMA ToldForGood ==
    ASSUME CassetteInv, NEW c \in Clients,
           \/ answers' = answers
           \/ \E a \in TapeAnswer : answers' = [answers EXCEPT ![c] = Append(@, a)]
    PROVE  /\ \A d \in Clients : \A i \in DOMAIN answers[d] :
                  i \in DOMAIN answers'[d] /\ answers'[d][i] = answers[d][i]
           /\ \A a : ToldSomeone(a) => ToldSomeone(a)'
           /\ \A q : ToldOf(q) \subseteq ToldOf(q)'
<1>1. \A d \in Clients : \A i \in DOMAIN answers[d] :
          i \in DOMAIN answers'[d] /\ answers'[d][i] = answers[d][i]
  <2>1. CASE answers' = answers BY <2>1
  <2>2. CASE \E a \in TapeAnswer : answers' = [answers EXCEPT ![c] = Append(@, a)]
    <3>1. PICK a \in TapeAnswer : answers' = [answers EXCEPT ![c] = Append(@, a)] BY <2>2
    <3>2. answers \in [Clients -> Seq(TapeAnswer)] BY DEF CassetteInv, CassetteTyped
    <3>3. answers'[c] = Append(answers[c], a) /\ \A d \in Clients \ {c} : answers'[d] = answers[d]
      BY <3>1, <3>2
    <3>4. \A i \in DOMAIN answers[c] : i \in DOMAIN answers'[c] /\ answers'[c][i] = answers[c][i]
      BY <3>2, <3>3
    <3> QED BY <3>3, <3>4
  <2> QED BY <2>1, <2>2
<1>2. \A d \in Recorders : d \in Clients BY DEF Clients
<1> QED BY <1>1, <1>2 DEF ToldSomeone, ToldOf

\* A step that leaves tape and answers alone.
LEMMA NothingTold ==
    ASSUME CassetteInv, NEW c \in Clients, UNCHANGED <<tape, answers>>,
           index' = [d \in Clients |-> index'[d]], asking' = [d \in Clients |-> asking'[d]],
           \A d \in Clients \ {c} : UNCHANGED <<index[d], asking[d]>>, ClientKnows(c)'
    PROVE  CassetteInv'
<1>1. CassetteTyped' BY DEF CassetteInv, CassetteTyped
<1>2. \A d \in Clients \ {c} : ClientKnows(d)' BY OthersKnow
<1>3. \A q \in TapeKeys : LinesOf(q)' = LinesOf(q) /\ ToldOf(q)' = ToldOf(q)
  BY DEF LinesOf, ToldOf
<1>4. \A a : ToldSomeone(a)' <=> ToldSomeone(a) BY DEF ToldSomeone
<1>5. /\ \A i \in DOMAIN tape' : ToldSomeone(AnswerOf(tape[i]))'
      /\ \A d \in Replayers : \A i \in DOMAIN answers'[d] : ToldSomeone(answers[d][i])'
  BY <1>4 DEF CassetteInv
<1>6. \A q \in TapeKeys : Cardinality(LinesOf(q)') <= Cardinality(ToldOf(q)')
  BY <1>3 DEF CassetteInv
<1> QED BY <1>1, <1>2, <1>5, <1>6 DEF CassetteInv

\* The index of a client that has asked is loaded.
LEMMA LoadedTells ==
    ASSUME CassetteInv, NEW c \in Clients, NEW q \in TapeKeys
    PROVE  /\ Loaded(c) = [k \in TapeKeys |-> Loaded(c)[k]]
           /\ \A k \in TapeKeys : \/ Loaded(c)[k] = NoLine
                                  \/ /\ Loaded(c)[k].key = k /\ Loaded(c)[k] \in TapeLine
                                     /\ \E i \in DOMAIN tape : tape[i] = Loaded(c)[k]
           /\ Loaded(c) # NotLoaded
           /\ index[c] # NotLoaded => Loaded(c) = index[c]
<1>1. ClientKnows(c) /\ tape \in Seq(TapeLine) BY DEF CassetteInv, CassetteTyped
<1>2. CASE index[c] = NotLoaded
  <2>1. Loaded(c) = [k \in TapeKeys |-> LineOf(k)] BY <1>2 DEF Loaded
  <2>2. \A k \in TapeKeys : Loaded(c)[k] = LineOf(k) BY <2>1
  <2>3. \A k \in TapeKeys : \/ LineOf(k) = NoLine
                            \/ /\ LineOf(k).key = k /\ LineOf(k) \in TapeLine
                               /\ \E i \in DOMAIN tape : tape[i] = LineOf(k)
    BY <1>1, LineOfKey
  <2>4. DOMAIN Loaded(c) = TapeKeys /\ DOMAIN NotLoaded = {} BY <2>1 DEF NotLoaded
  <2> HIDE DEF Loaded
  <2> QED BY <1>2, <2>1, <2>2, <2>3, <2>4
<1>3. CASE index[c] # NotLoaded BY <1>1, <1>3 DEF ClientKnows, IndexTells, Loaded
<1> QED BY <1>2, <1>3

\* A call is answered from the tape its client has read, or becomes a recording.
LEMMA AskTapeKeeps ==
    ASSUME CassetteInv, NEW c \in Clients, NEW q \in TapeKeys, NEW how, AskTape(c, q, how)
    PROVE  CassetteInv'
<1>1. tape' = tape /\ asking[c].step = "idle" BY DEF AskTape
<1>2. CASE UNCHANGED <<index, asking, answers>>
  <2>1. ClientKnows(c)' BY <1>1, <1>2 DEF CassetteInv, ClientKnows, IndexTells
  <2> QED BY <1>1, <1>2, <2>1, NothingTold DEF CassetteInv, CassetteTyped
<1> DEFINE L == Loaded(c)
<1>3. /\ L = [k \in TapeKeys |-> L[k]] /\ L # NotLoaded
      /\ \A k \in TapeKeys : \/ L[k] = NoLine
                             \/ /\ L[k].key = k /\ L[k] \in TapeLine
                                /\ \E i \in DOMAIN tape : tape[i] = L[k]
      /\ index[c] # NotLoaded => L = index[c]
  BY LoadedTells
<1>4. SUFFICES ASSUME ~UNCHANGED <<index, asking, answers>>
               PROVE  CassetteInv'
  BY <1>2
<1>5. index' = [index EXCEPT ![c] = L] BY <1>4 DEF AskTape
<1> HIDE DEF L
<1>6. index'[c] = L /\ index' = [d \in Clients |-> index'[d]] /\ \A d \in Clients \ {c} : index'[d] = index[d]
  BY <1>5 DEF CassetteInv, CassetteTyped
<1>7. IndexTells(c)' BY <1>1, <1>3, <1>6 DEF IndexTells
<1>8. \A i \in DOMAIN answers[c] : /\ L[answers[c][i].key] # NoLine
                                   /\ L[answers[c][i].key].text = answers[c][i].text
  <2>1. SUFFICES ASSUME NEW i \in DOMAIN answers[c]
                 PROVE  L[answers[c][i].key] # NoLine /\ L[answers[c][i].key].text = answers[c][i].text
    OBVIOUS
  <2>2. /\ index[c] # NotLoaded /\ index[c][answers[c][i].key] # NoLine
        /\ index[c][answers[c][i].key].text = answers[c][i].text
    BY DEF CassetteInv, ClientKnows
  <2> QED BY <1>3, <2>2
<1>9. asking[c] = [step |-> asking[c].step, key |-> asking[c].key, how |-> asking[c].how,
                    heard |-> asking[c].heard]
  BY DEF CassetteInv, ClientKnows
<1>10. CASE answers' = answers /\ asking' = asking
  BY <1>1, <1>3, <1>6, <1>7, <1>8, <1>9, <1>10, NothingTold DEF ClientKnows, CassetteInv,
     CassetteTyped
<1>11. CASE /\ L[q] = NoLine /\ c \in Recorders /\ answers' = answers
            /\ asking' = [asking EXCEPT ![c] =
                                [NotAsking EXCEPT !.step = "asking", !.key = q, !.how = how]]
  <2>1. /\ asking' = [d \in Clients |-> asking'[d]] /\ \A d \in Clients \ {c} : asking'[d] = asking[d]
        /\ asking'[c] = [step |-> "asking", key |-> q, how |-> how, heard |-> <<>>]
    BY <1>11 DEF CassetteInv, CassetteTyped, NotAsking
  <2>2. ClientKnows(c)'
    <3>1. asking'[c].key = q /\ c \in Recorders /\ index'[c] # NotLoaded /\ index'[c][q] = NoLine
      BY <1>3, <1>6, <1>11, <2>1
    <3>2. asking'[c] = [step |-> asking'[c].step, key |-> asking'[c].key, how |-> asking'[c].how,
                        heard |-> asking'[c].heard]
      BY <2>1
    <3>3. \A i \in DOMAIN answers'[c] :
            /\ index'[c] # NotLoaded /\ index'[c][answers'[c][i].key] # NoLine
            /\ index'[c][answers'[c][i].key].text = answers'[c][i].text
      BY <1>3, <1>6, <1>8, <1>11
    <3> QED BY <1>7, <3>1, <3>2, <3>3 DEF ClientKnows
  <2> QED BY <1>1, <1>6, <1>11, <2>1, <2>2, NothingTold
<1>12. CASE L[q] # NoLine /\ Told(c, q, L[q].text) /\ UNCHANGED asking
  <2> DEFINE a == [key |-> q, text |-> L[q].text]
  <2>1. L[q].key = q /\ L[q] \in TapeLine /\ \E i \in DOMAIN tape : tape[i] = L[q]
    BY <1>3, <1>12
  <2>2. a \in TapeAnswer /\ a = AnswerOf(L[q]) /\ ToldSomeone(a)
    BY <2>1 DEF TapeAnswer, TapeLine, AnswerOf, CassetteInv
  <2>3. answers' = [answers EXCEPT ![c] = Append(@, a)] BY <1>12 DEF Told
  <2>4. a.key = q /\ a.text = L[q].text OBVIOUS
  <2> HIDE DEF a
  <2>5. answers \in [Clients -> Seq(TapeAnswer)] BY DEF CassetteInv, CassetteTyped
  <2>6. /\ answers'[c] = Append(answers[c], a) /\ answers' \in [Clients -> Seq(TapeAnswer)]
        /\ \A d \in Clients \ {c} : answers'[d] = answers[d]
    BY <2>2, <2>3, <2>5
  <2>7. \A i \in DOMAIN answers'[c] : answers'[c][i] = a \/ (i \in DOMAIN answers[c] /\ answers'[c][i] = answers[c][i])
    BY <2>5, <2>6
  <2>8. ClientKnows(c)' BY <1>1, <1>3, <1>6, <1>7, <1>8, <1>9, <1>12, <2>4, <2>7 DEF ClientKnows
  <2>9. \A d \in Clients \ {c} : ClientKnows(d)' BY <1>1, <1>6, <1>12, <2>6, OthersKnow
  <2>10. /\ \A b : ToldSomeone(b) => ToldSomeone(b)'
         /\ \A k : ToldOf(k) \subseteq ToldOf(k)'
    BY <2>2, <2>3, ToldForGood
  <2>11. \A k \in TapeKeys : Cardinality(LinesOf(k)') <= Cardinality(ToldOf(k)')
    <3>1. SUFFICES ASSUME NEW k \in TapeKeys PROVE Cardinality(LinesOf(k)') <= Cardinality(ToldOf(k)')
      OBVIOUS
    <3>2. LinesOf(k)' = LinesOf(k) BY <1>1 DEF LinesOf
    <3>3. IsFiniteSet(ToldOf(k)') /\ ToldOf(k) \in SUBSET (ToldOf(k)')
      BY <2>10, CassetteAssumption, FS_Subset DEF ToldOf
    <3>4. Cardinality(ToldOf(k)) <= Cardinality(ToldOf(k)') /\ Cardinality(ToldOf(k)') \in Nat /\ Cardinality(ToldOf(k)) \in Nat
      BY <3>3, FS_Subset, FS_CardinalityType
    <3>6. Cardinality(LinesOf(k)) \in Nat BY LinesFinite
    <3> QED BY <3>2, <3>4, <3>6 DEF CassetteInv
  <2>12. \A d \in Replayers : \A i \in DOMAIN answers'[d] : ToldSomeone(answers[d][i])'
    <3>1. SUFFICES ASSUME NEW d \in Replayers, NEW i \in DOMAIN answers'[d]
                   PROVE  ToldSomeone(answers[d][i])'
      OBVIOUS
    <3>2. ToldSomeone(answers'[d][i])
      <4>1. CASE d = c BY <2>2, <2>7, <4>1 DEF CassetteInv
      <4>2. CASE d # c BY <2>6, <4>2 DEF CassetteInv, Clients
      <4> QED BY <4>1, <4>2
    <3> DEFINE b == answers'[d][i]
    <3>3. ToldSomeone(b) => \E r \in Recorders : \E k \in DOMAIN answers'[r] : answers'[r][k] = b
      <4> HIDE DEF b
      <4> QED BY <2>10 DEF ToldSomeone
    <3> QED BY <3>2, <3>3 DEF ToldSomeone
  <2>13. \A i \in DOMAIN tape' : ToldSomeone(AnswerOf(tape[i]))' BY <1>1, <2>10 DEF CassetteInv
  <2>14. CassetteTyped' BY <1>1, <1>6, <1>12, <2>6 DEF CassetteInv, CassetteTyped
  <2> QED BY <2>8, <2>9, <2>11, <2>12, <2>13, <2>14 DEF CassetteInv
<1> QED BY <1>4, <1>10, <1>11, <1>12 DEF AskTape, L

\* A client that stops asking, or has heard a little more.
LEMMA AsksNoMore ==
    ASSUME CassetteInv, NEW c \in Clients, UNCHANGED <<tape, index, answers>>,
           \/ asking' = [asking EXCEPT ![c] = NotAsking]
           \/ \E h : asking' = [asking EXCEPT ![c].heard = h]
    PROVE  CassetteInv'
<1>1. /\ asking = [d \in Clients |-> asking[d]] /\ index = [d \in Clients |-> index[d]] /\ ClientKnows(c)
  BY DEF CassetteInv, CassetteTyped
<1>2. asking[c] = [step |-> asking[c].step, key |-> asking[c].key, how |-> asking[c].how,
                    heard |-> asking[c].heard]
  BY <1>1 DEF ClientKnows
<1>3. /\ asking' = [d \in Clients |-> asking'[d]] /\ \A d \in Clients \ {c} : asking'[d] = asking[d]
  BY <1>1
<1>4. \/ asking'[c] = NotAsking
      \/ \E h : asking'[c] = [step |-> asking[c].step, key |-> asking[c].key, how |-> asking[c].how,
                              heard |-> h]
  BY <1>1, <1>2
<1>5. ClientKnows(c)' BY <1>1, <1>4 DEF ClientKnows, IndexTells, NotAsking
<1> QED BY <1>1, <1>3, <1>5, NothingTold

\* A recording adds one line, and its client answers by it from then on.
LEMMA AppendLineKeeps ==
    ASSUME CassetteInv, NEW c \in Clients, AppendLine(c)
    PROVE  CassetteInv'
<1> DEFINE q == asking[c].key
           line == LineAsked(c)
           a == [key |-> q, text |-> asking[c].heard]
<1>1. /\ ClientKnows(c) /\ tape \in Seq(TapeLine) /\ asking[c].step = "asking" /\ q \in TapeKeys
      /\ c \in Recorders /\ index[c] # NotLoaded /\ index[c][q] = NoLine
  BY DEF CassetteInv, CassetteTyped, ClientKnows, AppendLine
<1>2. /\ line \in TapeLine /\ line.key = q /\ AnswerOf(line) = a /\ a \in TapeAnswer
      /\ line.text = a.text /\ a.key = q
  BY <1>1 DEF AppendLine, Heard, LineAsked, TapeLine, AnswerOf, TapeAnswer
<1>3. line # NoLine BY <1>2, LineIsSome
<1>4. /\ tape' = Append(tape, line) /\ index' = [index EXCEPT ![c][q] = line]
      /\ answers' = [answers EXCEPT ![c] = Append(@, a)] /\ asking' = [asking EXCEPT ![c] = NotAsking]
  BY DEF AppendLine, Told
<1> HIDE DEF q, line, a
<1>5. /\ tape' \in Seq(TapeLine) /\ Len(tape') = Len(tape) + 1 /\ tape'[Len(tape) + 1] = line
      /\ Len(tape) \in Nat /\ DOMAIN tape = 1..Len(tape) /\ DOMAIN tape' = 1..(Len(tape) + 1)
      /\ \A i \in DOMAIN tape : i \in DOMAIN tape' /\ tape'[i] = tape[i]
  BY <1>1, <1>2, <1>4
<1>6. index[c] = [k \in TapeKeys |-> index[c][k]] BY <1>1 DEF ClientKnows, IndexTells
<1>7. /\ index'[c] = [k \in TapeKeys |-> IF k = q THEN line ELSE index[c][k]]
      /\ index' = [d \in Clients |-> index'[d]] /\ \A d \in Clients \ {c} : index'[d] = index[d]
  BY <1>4, <1>6 DEF CassetteInv, CassetteTyped
<1>8. answers \in [Clients -> Seq(TapeAnswer)] BY DEF CassetteInv, CassetteTyped
<1>9. /\ answers'[c] = Append(answers[c], a) /\ answers' \in [Clients -> Seq(TapeAnswer)]
      /\ \A d \in Clients \ {c} : answers'[d] = answers[d]
  BY <1>2, <1>4, <1>8
<1>10. /\ \A i \in DOMAIN answers'[c] : answers'[c][i] = a \/ (i \in DOMAIN answers[c] /\ answers'[c][i] = answers[c][i])
       /\ \E i \in DOMAIN answers'[c] : answers'[c][i] = a
  BY <1>2, <1>8, <1>9
<1>11. \A i \in DOMAIN answers[c] : answers[c][i].key # q BY <1>1 DEF ClientKnows
<1>12. asking' = [d \in Clients |-> asking'[d]] /\ asking'[c] = NotAsking /\ \A d \in Clients \ {c} : asking'[d] = asking[d]
  BY <1>4 DEF CassetteInv, CassetteTyped
<1>13. CassetteTyped' BY <1>5, <1>7, <1>9, <1>12 DEF CassetteTyped
<1>14. IndexTells(c)'
  <2>1. \A k \in TapeKeys : \/ index'[c][k] = NoLine
                            \/ /\ index'[c][k].key = k /\ index'[c][k] \in TapeLine
                               /\ \E i \in DOMAIN tape' : tape'[i] = index'[c][k]
    <3>1. SUFFICES ASSUME NEW k \in TapeKeys
                   PROVE  \/ index'[c][k] = NoLine
                          \/ /\ index'[c][k].key = k /\ index'[c][k] \in TapeLine
                             /\ \E i \in DOMAIN tape' : tape'[i] = index'[c][k]
      OBVIOUS
    <3>2. CASE k = q BY <1>2, <1>5, <1>7, <3>2
    <3>3. CASE k # q BY <1>1, <1>5, <1>7, <3>3 DEF ClientKnows, IndexTells
    <3> QED BY <3>2, <3>3
  <2>2. index'[c] = [k \in TapeKeys |-> index'[c][k]] BY <1>7
  <2> QED BY <2>1, <2>2 DEF IndexTells
<1>15. ClientKnows(c)'
  <2>1. DOMAIN index'[c] = TapeKeys /\ DOMAIN NotLoaded = {} BY <1>7 DEF NotLoaded
  <2>2. index'[c] # NotLoaded BY <1>1, <2>1
  <2>3. \A i \in DOMAIN answers'[c] : /\ index'[c][answers'[c][i].key] # NoLine
                                      /\ index'[c][answers'[c][i].key].text = answers'[c][i].text
    <3>1. SUFFICES ASSUME NEW i \in DOMAIN answers'[c]
                   PROVE  /\ index'[c][answers'[c][i].key] # NoLine
                          /\ index'[c][answers'[c][i].key].text = answers'[c][i].text
      OBVIOUS
    <3>2. CASE answers'[c][i] = a BY <1>1, <1>2, <1>3, <1>7, <3>2
    <3>3. CASE i \in DOMAIN answers[c] /\ answers'[c][i] = answers[c][i]
      BY <1>1, <1>7, <1>11, <3>3, AnswerKeys DEF ClientKnows
    <3> QED BY <1>10, <3>2, <3>3
  <2>4. asking'[c].step = "idle" /\ asking'[c] = [step |-> asking'[c].step, key |-> asking'[c].key, how |-> asking'[c].how,
                    heard |-> asking'[c].heard]
    BY <1>12 DEF NotAsking
  <2> QED BY <1>14, <2>2, <2>3, <2>4 DEF ClientKnows
<1>16. \A d \in Clients \ {c} : ClientKnows(d)' BY <1>5, <1>7, <1>9, <1>12, OthersKnow
<1>17. /\ \A b : ToldSomeone(b) => ToldSomeone(b)'
       /\ \A k : ToldOf(k) \subseteq ToldOf(k)'
  BY <1>2, <1>4, ToldForGood
<1>18. \A i \in DOMAIN tape' : ToldSomeone(AnswerOf(tape[i]))'
  <2>1. SUFFICES ASSUME NEW i \in DOMAIN tape' PROVE ToldSomeone(AnswerOf(tape[i]))' OBVIOUS
  <2>2. CASE i \in DOMAIN tape BY <1>5, <1>17, <2>2 DEF AnswerOf, CassetteInv, ToldSomeone
  <2>3. CASE i = Len(tape) + 1 BY <1>1, <1>2, <1>5, <1>10, <2>3 DEF ToldSomeone, AnswerOf
  <2> QED BY <1>5, <2>2, <2>3
<1>19. \A d \in Replayers : \A i \in DOMAIN answers'[d] : ToldSomeone(answers[d][i])'
  <2>1. SUFFICES ASSUME NEW d \in Replayers, NEW i \in DOMAIN answers'[d]
                 PROVE  ToldSomeone(answers'[d][i])
    BY <1>17 DEF ToldSomeone
  <2>2. d \in Clients \ {c} BY <1>1, CassetteAssumption DEF Clients
  <2> QED BY <1>9, <2>2 DEF CassetteInv
<1>20. \A k \in TapeKeys : Cardinality(LinesOf(k)') <= Cardinality(ToldOf(k)')
  <2>1. SUFFICES ASSUME NEW k \in TapeKeys PROVE Cardinality(LinesOf(k)') <= Cardinality(ToldOf(k)')
    OBVIOUS
  <2>2. IsFiniteSet(ToldOf(k)') /\ ToldOf(k) \in SUBSET (ToldOf(k)') /\ IsFiniteSet(ToldOf(k))
    BY <1>17, CassetteAssumption, FS_Subset DEF ToldOf
  <2>3. Cardinality(ToldOf(k)) <= Cardinality(ToldOf(k)') /\ Cardinality(ToldOf(k)') \in Nat /\ Cardinality(ToldOf(k)) \in Nat
    BY <2>2, FS_Subset, FS_CardinalityType
  <2>4. LinesOf(k) \in SUBSET (1..Len(tape)) BY <1>5 DEF LinesOf
  <2>5. IsFiniteSet(LinesOf(k)) /\ Cardinality(LinesOf(k)) \in Nat BY LinesFinite
  <2>6. Cardinality(LinesOf(k)) <= Cardinality(ToldOf(k)) BY DEF CassetteInv
  <2>7. CASE k # q
    <3>1. LinesOf(k)' = LinesOf(k) BY <1>2, <1>5, <2>7 DEF LinesOf
    <3> QED BY <2>3, <2>5, <2>6, <3>1
  <2>8. CASE k = q
    <3>1. LinesOf(k)' = LinesOf(k) \cup {Len(tape) + 1} BY <1>2, <1>5, <2>8 DEF LinesOf
    <3>2. Len(tape) + 1 \notin LinesOf(k) BY <1>5, <2>4
    <3>3. Cardinality(LinesOf(k)') = Cardinality(LinesOf(k)) + 1
      BY <2>5, <3>1, <3>2, FS_AddElement
    <3>4. c \notin ToldOf(k) /\ c \in ToldOf(k)' BY <1>1, <1>2, <1>10, <1>11, <2>8 DEF ToldOf
    <3>5. ToldOf(k) \cup {c} \in SUBSET (ToldOf(k)') BY <2>2, <3>4
    <3>6. Cardinality(ToldOf(k) \cup {c}) = Cardinality(ToldOf(k)) + 1
      BY <2>2, <3>4, FS_AddElement
    <3>7. Cardinality(ToldOf(k) \cup {c}) <= Cardinality(ToldOf(k)') BY <2>2, <3>5, FS_Subset
    <3> QED BY <2>3, <2>5, <2>6, <3>3, <3>6, <3>7
  <2> QED BY <2>7, <2>8
<1> QED BY <1>13, <1>15, <1>16, <1>18, <1>19, <1>20 DEF CassetteInv

\* The invariant is inductive: one step per action.
LEMMA CassetteStepKeeps == CassetteInv /\ [CassetteNext]_cassetteVars => CassetteInv'
<1> SUFFICES ASSUME CassetteInv, [CassetteNext]_cassetteVars PROVE CassetteInv' OBVIOUS
<1>1. CASE UNCHANGED cassetteVars
  <2>1. CassetteTyped' /\ \A c \in Clients : ClientKnows(c)'
    BY <1>1 DEF cassetteVars, CassetteInv, CassetteTyped, ClientKnows, IndexTells
  <2>2. \A q \in TapeKeys : LinesOf(q)' = LinesOf(q) /\ ToldOf(q)' = ToldOf(q)
    BY <1>1 DEF cassetteVars, LinesOf, ToldOf
  <2>3. \A q \in TapeKeys : Cardinality(LinesOf(q)') <= Cardinality(ToldOf(q)')
    BY <2>2 DEF CassetteInv
  <2>4. /\ \A i \in DOMAIN tape' : ToldSomeone(AnswerOf(tape[i]))'
        /\ \A c \in Replayers : \A i \in DOMAIN answers'[c] : ToldSomeone(answers[c][i])'
    BY <1>1 DEF cassetteVars, CassetteInv, ToldSomeone, AnswerOf
  <2> QED BY <2>1, <2>3, <2>4 DEF CassetteInv
<1>2. ASSUME NEW c \in Clients, NEW q \in TapeKeys, NEW how, AskTape(c, q, how) PROVE CassetteInv'
  BY <1>2, AskTapeKeeps
<1>3. ASSUME NEW c \in Clients, LetGo(c) \/ TearLine(c) PROVE CassetteInv'
  BY <1>3, AsksNoMore DEF LetGo, TearLine
<1>4. ASSUME NEW c \in Clients, Hear(c) PROVE CassetteInv' BY <1>4, AsksNoMore DEF Hear
<1>5. ASSUME NEW c \in Clients, AppendLine(c) PROVE CassetteInv' BY <1>5, AppendLineKeeps
<1> QED BY <1>1, <1>2, <1>3, <1>4, <1>5 DEF CassetteNext

\* The invariant is stronger than what the cassette promises.
LEMMA CassetteInvTells == CassetteInv => CassetteTells
<1> SUFFICES ASSUME CassetteInv PROVE CassetteTells OBVIOUS
<1>1. ToldTheSame
  <2>1. SUFFICES ASSUME NEW c \in Clients, NEW i \in DOMAIN answers[c], NEW k \in DOMAIN answers[c],
                        answers[c][i].key = answers[c][k].key
                 PROVE  answers[c][i].text = answers[c][k].text
    BY DEF ToldTheSame
  <2>2. ClientKnows(c) BY DEF CassetteInv
  <2>3. \A n \in DOMAIN answers[c] : index[c][answers[c][n].key].text = answers[c][n].text
    BY <2>2 DEF ClientKnows
  <2> QED BY <2>1, <2>3
<1>2. ReplayedInFull
  <2>1. \A i \in DOMAIN tape : tape[i].text \in TapeTexts
    <3>1. SUFFICES ASSUME NEW i \in DOMAIN tape PROVE tape[i].text \in TapeTexts OBVIOUS
    <3>2. tape[i] \in TapeLine BY ElementOfTape DEF CassetteInv, CassetteTyped
    <3> QED BY <3>2 DEF TapeLine
  <2>2. \A a : ToldSomeone(a) => \E r \in Recorders : a \in {answers[r][k] : k \in DOMAIN answers[r]}
    BY DEF ToldSomeone
  <2> QED BY <2>1, <2>2 DEF ReplayedInFull, ToSet, CassetteInv
<1>3. LinePerClient BY DEF CassetteInv, LinePerClient, ToldOf
<1> QED BY <1>1, <1>2, <1>3 DEF CassetteTells

\* For any number of recorders, replayers, keys and texts: a client gets one answer for a
\* key, a replayed answer is a recorded one, and a key has a line a recorder at most.
THEOREM CassetteHolds == CassetteSpec => []CassetteTells
<1>1. CassetteInit => CassetteInv BY CassetteInvInit
<1>2. CassetteInv /\ [CassetteNext]_cassetteVars => CassetteInv' BY CassetteStepKeeps
<1>3. CassetteInv => CassetteTells BY CassetteInvTells
<1> QED BY <1>1, <1>2, <1>3, PTL DEF CassetteSpec

-----------------------------------------------------------------------------
(* What of a reply is shown: functions defined by recursion on their arguments, *)

\* A set of numbers has a least one.
LEMMA LeastOf ==
    ASSUME NEW S \in SUBSET Nat, S # {}
    PROVE  Min(S) \in S /\ \A i \in S : Min(S) <= i
BY LeastNatural DEF Min

\* What holds of a number when it holds of all lesser ones holds of all numbers.
LEMMA UpFromZero ==
    ASSUME NEW P, \A n \in Nat : (\A m \in Nat : m < n => m \in P) => n \in P
    PROVE  \A n \in Nat : n \in P
<1> DEFINE bad == {n \in Nat : n \notin P}
<1> SUFFICES ASSUME bad # {} PROVE FALSE OBVIOUS
<1> DEFINE m == Min(bad)
<1>1. m \in bad /\ \A i \in bad : m <= i
  <2>1. bad \in SUBSET Nat OBVIOUS
  <2> HIDE DEF bad
  <2> QED BY <2>1, LeastOf
<1> HIDE DEF m
<1>2. m \in Nat BY <1>1
<1>3. \A i \in Nat : i < m => i \in P BY <1>1, <1>2
<1>4. m \in P BY <1>2, <1>3
<1> QED BY <1>1, <1>4

\* What holds of a thing when it holds of all smaller ones holds of all.
LEMMA UpBySize ==
    ASSUME NEW T, NEW size \in [T -> Nat], NEW P,
           \A t \in T : (\A u \in T : size[u] < size[t] => u \in P) => t \in P
    PROVE  \A t \in T : t \in P
<1> DEFINE Q == {n \in Nat : \A t \in T : size[t] = n => t \in P}
<1>1. ASSUME NEW n \in Nat, \A m \in Nat : m < n => m \in Q PROVE n \in Q
  <2> SUFFICES ASSUME NEW t \in T, size[t] = n PROVE t \in P OBVIOUS
  <2>1. ASSUME NEW u \in T, size[u] < size[t] PROVE u \in P BY <1>1, <2>1
  <2> QED BY <2>1
<1> HIDE DEF Q
<1>2. \A n \in Nat : n \in Q BY <1>1, UpFromZero
<1>3. \A t \in T : size[t] \in Q BY <1>2
<1> QED BY <1>3 DEF Q

\* The value of a function at each thing is told by its values at smaller ones, and
\* there is such a function.
Determined(T, size, V, g) ==
    \A t \in T : \A f, h \in [T -> V] :
        (\A u \in T : size[u] < size[t] => f[u] = h[u]) => g[<<t, f>>] = g[<<t, h>>]
Solved(T, V, g) == \E f \in [T -> V] : \A t \in T : f[t] = g[<<t, f>>]

LEMMA Recursed ==
    ASSUME NEW T, NEW size \in [T -> Nat], NEW V, NEW v \in V, NEW g \in [T \X [T -> V] -> V],
           Determined(T, size, V, g)
    PROVE  Solved(T, V, g)
<1>0. \A t \in T : \A f, h \in [T -> V] :
         (\A u \in T : size[u] < size[t] => f[u] = h[u]) => g[<<t, f>>] = g[<<t, h>>]
  BY DEF Determined
<1> DEFINE W == [T -> V]
           Upto(f, n) == \A t \in T : size[t] <= n => f[t] = g[<<t, f>>]
           P == {n \in Nat : \E f \in W : Upto(f, n)}
<1>1. ASSUME NEW n \in Nat, \A m \in Nat : m < n => m \in P PROVE n \in P
  <2>1. PICK f \in W : \A t \in T : size[t] < n => f[t] = g[<<t, f>>]
    <3>1. CASE n = 0
      <4>1. [t \in T |-> v] \in W /\ \A t \in T : ~(size[t] < 0) OBVIOUS
      <4> QED BY <3>1, <4>1
    <3>2. CASE n # 0
      <4>1. n - 1 \in Nat /\ n - 1 < n /\ \A t \in T : size[t] < n => size[t] <= n - 1 BY <3>2
      <4>2. PICK f \in W : Upto(f, n - 1) BY <1>1, <4>1
      <4> QED BY <4>1, <4>2
    <3> QED BY <3>1, <3>2
  <2> DEFINE h == [t \in T |-> g[<<t, f>>]]
  <2>2. h \in W /\ \A t \in T : h[t] = g[<<t, f>>] OBVIOUS
  <2> HIDE DEF h
  <2>3. ASSUME NEW t \in T, size[t] <= n PROVE h[t] = g[<<t, h>>]
    <3>1. ASSUME NEW u \in T, size[u] < size[t] PROVE f[u] = h[u]
      <4>1. size[u] < n BY <2>3, <3>1
      <4> QED BY <2>1, <2>2, <4>1
    <3>2. g[<<t, f>>] = g[<<t, h>>] BY <1>0, <2>2, <3>1
    <3> QED BY <2>2, <3>2
  <2> QED BY <2>2, <2>3
<1> HIDE DEF P
<1>2. \A n \in Nat : n \in P BY <1>1, UpFromZero
<1>3. \A n \in Nat : \E f \in W : Upto(f, n) BY <1>2 DEF P
\* Two of them agree as far as both go.
<1>4. ASSUME NEW f \in W, NEW h \in W, NEW n \in Nat, Upto(f, n), Upto(h, n)
      PROVE  \A t \in T : size[t] <= n => f[t] = h[t]
  <2> DEFINE Q == {t \in T : size[t] <= n => f[t] = h[t]}
  <2>1. ASSUME NEW t \in T, \A u \in T : size[u] < size[t] => u \in Q PROVE t \in Q
    <3> SUFFICES ASSUME size[t] <= n PROVE f[t] = h[t] OBVIOUS
    <3>1. ASSUME NEW u \in T, size[u] < size[t] PROVE f[u] = h[u] BY <2>1, <3>1
    <3>2. g[<<t, f>>] = g[<<t, h>>] BY <1>0, <3>1
    <3> QED BY <1>4, <3>2
  <2> HIDE DEF Q
  <2>2. \A t \in T : t \in Q BY <2>1, UpBySize
  <2> QED BY <2>2 DEF Q
<1> DEFINE some(n) == CHOOSE f \in W : Upto(f, n)
           F == [t \in T |-> some(size[t])[t]]
<1>5. \A n \in Nat : some(n) \in W /\ Upto(some(n), n)
  <2> TAKE n \in Nat
  <2>1. \E f \in W : Upto(f, n) BY <1>3
  <2> HIDE DEF W, Upto
  <2> QED BY <2>1
<1> HIDE DEF some
<1>6. F \in W BY <1>5
<1>7. ASSUME NEW t \in T PROVE F[t] = g[<<t, F>>]
  <2> DEFINE n == size[t]
             f == some(n)
  <2>1. n \in Nat /\ f \in W /\ Upto(f, n) BY <1>5
  <2>2. ASSUME NEW u \in T, size[u] < size[t] PROVE f[u] = F[u]
    <3> DEFINE h == some(size[u])
    <3>1. size[u] \in Nat /\ h \in W /\ Upto(h, size[u]) BY <1>5
    <3>2. Upto(f, size[u]) BY <2>1, <2>2, <3>1
    <3> HIDE DEF f, h, W, Upto
    <3>3. \A w \in T : size[w] <= size[u] => f[w] = h[w] BY <1>4, <2>1, <3>1, <3>2
    <3>4. f[u] = h[u] BY <3>1, <3>3
    <3> QED BY <3>4 DEF h
  <2>3. f[t] = g[<<t, f>>] /\ F[t] = f[t]
    <3>1. F[t] = f[t] OBVIOUS
    <3> HIDE DEF f, F
    <3> QED BY <2>1, <3>1
  <2> HIDE DEF f, F
  <2>4. g[<<t, f>>] = g[<<t, F>>] BY <1>0, <1>6, <2>1, <2>2
  <2> QED BY <2>3, <2>4
<1> HIDE DEF F
<1> QED BY <1>6, <1>7 DEF Solved

\* Every text has a length.
Length == [s \in ModelText |-> Len(s)]
LEMMA LengthIs == Length \in [ModelText -> Nat] /\ \A s \in ModelText : Length[s] = Len(s)
BY LenProperties DEF Length, ModelText

\* The end of a text.
LEMMA DropIs ==
    ASSUME NEW s \in ModelText, NEW k \in 0..Len(s)
    PROVE  /\ Drop(s, k) \in ModelText /\ Len(Drop(s, k)) = Len(s) - k
           /\ \A i \in 1..(Len(s) - k) : Drop(s, k)[i] = s[k + i]
<1>1. Len(s) \in Nat /\ k \in Nat BY LenProperties DEF ModelText
<1>2. \A i \in (k + 1)..Len(s) : s[i] \in STRING BY <1>1, ElementOfSeq DEF ModelText
<1>3. k + 1 \in Int /\ Len(s) \in Int BY <1>1
<1> DEFINE d == SubSeq(s, k + 1, Len(s))
<1>4. /\ d \in Seq(STRING) /\ Len(d) = IF k + 1 <= Len(s) THEN Len(s) - (k + 1) + 1 ELSE 0
      /\ \A i \in 1..(Len(s) - (k + 1) + 1) : d[i] = s[(k + 1) + i - 1]
  BY <1>2, <1>3, SubSeqProperties
<1> HIDE DEF d
<1>5. Len(d) = Len(s) - k BY <1>1, <1>4
<1>6. \A i \in 1..(Len(s) - k) : d[i] = s[k + i] BY <1>1, <1>4
<1> QED BY <1>4, <1>5, <1>6 DEF Drop, ModelText, d

\* Where a tag is.
LEMMA TagIs ==
    ASSUME NEW s \in ModelText, NEW i \in 1..Len(s)
    PROVE  /\ TagAt(OpenTag, s, i) <=> i + 2 <= Len(s) /\ s[i] = "<" /\ s[i + 1] = "t" /\ s[i + 2] = ">"
           /\ TagAt(CloseTag, s, i) <=> /\ i + 3 <= Len(s) /\ s[i] = "<" /\ s[i + 1] = "/"
                                        /\ s[i + 2] = "t" /\ s[i + 3] = ">"
           /\ Len(OpenTag) = 3 /\ Len(CloseTag) = 4
<1>1. Len(OpenTag) = 3 /\ Len(CloseTag) = 4 BY DEF OpenTag, CloseTag
<1>2. Len(s) \in Nat /\ i \in Nat \ {0} BY LenProperties DEF ModelText
<1>3. ASSUME NEW n \in {3, 4}, i + n - 1 <= Len(s)
      PROVE  LET c == SubSeq(s, i, i + n - 1)
             IN  c \in ModelText /\ Len(c) = n /\ \A j \in 1..n : c[j] = s[i + j - 1]
  <2> DEFINE c == SubSeq(s, i, i + n - 1)
  <2>1. \A j \in i..(i + n - 1) : j \in 1..Len(s) BY <1>2, <1>3
  <2>2. \A j \in i..(i + n - 1) : s[j] \in STRING BY <2>1, ElementOfSeq DEF ModelText
  <2>3. i \in Int /\ i + n - 1 \in Int BY <1>2
  <2>4. /\ c \in Seq(STRING) /\ Len(c) = IF i <= i + n - 1 THEN (i + n - 1) - i + 1 ELSE 0
        /\ \A j \in 1..((i + n - 1) - i + 1) : c[j] = s[i + j - 1]
    BY <2>2, <2>3, SubSeqProperties
  <2> HIDE DEF c
  <2>5. Len(c) = n /\ \A j \in 1..n : c[j] = s[i + j - 1] BY <1>2, <2>4
  <2> QED BY <2>4, <2>5 DEF ModelText, c
<1>4. ASSUME i + 2 <= Len(s)
      PROVE  TagAt(OpenTag, s, i) <=> s[i] = "<" /\ s[i + 1] = "t" /\ s[i + 2] = ">"
  <2> DEFINE c == SubSeq(s, i, i + 3 - 1)
  <2>1. c \in Seq(STRING) /\ Len(c) = 3 /\ \A j \in 1..3 : c[j] = s[i + j - 1]
    BY <1>2, <1>3, <1>4 DEF ModelText
  <2>2. TagAt(OpenTag, s, i) <=> c = <<"<", "t", ">">> BY <1>1, <1>2, <1>4 DEF TagAt, OpenTag
  <2> HIDE DEF c
  <2>3. c[1] = s[i] /\ c[2] = s[i + 1] /\ c[3] = s[i + 2] BY <1>2, <2>1
  <2>4. c[1] = "<" /\ c[2] = "t" /\ c[3] = ">" => c = <<"<", "t", ">">> BY <2>1
  <2> QED BY <2>2, <2>3, <2>4
<1>5. ASSUME i + 3 <= Len(s)
      PROVE  TagAt(CloseTag, s, i) <=> s[i] = "<" /\ s[i + 1] = "/" /\ s[i + 2] = "t" /\ s[i + 3] = ">"
  <2> DEFINE c == SubSeq(s, i, i + 4 - 1)
  <2>1. c \in Seq(STRING) /\ Len(c) = 4 /\ \A j \in 1..4 : c[j] = s[i + j - 1]
    BY <1>2, <1>3, <1>5 DEF ModelText
  <2>2. TagAt(CloseTag, s, i) <=> c = <<"<", "/", "t", ">">>
    BY <1>1, <1>2, <1>5 DEF TagAt, CloseTag
  <2> HIDE DEF c
  <2>3. c[1] = s[i] /\ c[2] = s[i + 1] /\ c[3] = s[i + 2] /\ c[4] = s[i + 3] BY <1>2, <2>1
  <2>4. c[1] = "<" /\ c[2] = "/" /\ c[3] = "t" /\ c[4] = ">" => c = <<"<", "/", "t", ">">>
    BY <2>1
  <2> QED BY <2>2, <2>3, <2>4
<1>6. /\ TagAt(OpenTag, s, i) => i + 2 <= Len(s)
      /\ TagAt(CloseTag, s, i) => i + 3 <= Len(s)
  BY <1>1, <1>2 DEF TagAt
<1> QED BY <1>1, <1>4, <1>5, <1>6

-----------------------------------------------------------------------------
\* A text that is shorter than another one.
Shorter(u, s) == u \in ModelText /\ Length[u] < Length[s]

\* What comes after some characters of a text is shorter.
LEMMA ShorterBehind ==
    ASSUME NEW s \in ModelText, NEW k \in 1..Len(s)
    PROVE  Shorter(Drop(s, k), s)
<1>1. Len(s) \in Nat BY LenProperties DEF ModelText
<1>2. k \in 0..Len(s) BY <1>1
<1>3. Drop(s, k) \in ModelText /\ Len(Drop(s, k)) = Len(s) - k BY <1>2, DropIs
<1>4. Length[s] = Len(s) /\ Length[Drop(s, k)] = Len(s) - k BY <1>3, LengthIs
<1>5. Len(s) - k < Len(s) BY <1>1
<1> QED BY <1>3, <1>4, <1>5 DEF Shorter

\* What comes after the first character of a text, and after a tag it begins with.
LEMMA FirstOf ==
    ASSUME NEW s \in ModelText, s # <<>>
    PROVE  /\ Len(s) \in Nat \ {0} /\ s[1] \in STRING /\ <<s[1]>> \in ModelText
           /\ Shorter(Drop(s, 1), s)
           /\ TagAt(OpenTag, s, 1) => Shorter(Drop(s, Len(OpenTag)), s)
           /\ TagAt(CloseTag, s, 1) => Shorter(Drop(s, Len(CloseTag)), s)
<1>1. Len(s) \in Nat \ {0} BY LenProperties, EmptySeq DEF ModelText
<1>2. 1 \in 1..Len(s) BY <1>1
<1>3. s[1] \in STRING BY <1>2, ElementOfSeq DEF ModelText
<1>4. <<s[1]>> \in ModelText BY <1>3 DEF ModelText
<1>5. \A k \in 1..Len(s) : Shorter(Drop(s, k), s) BY ShorterBehind
<1>6. /\ TagAt(OpenTag, s, 1) => 1 + 2 <= Len(s)
      /\ TagAt(CloseTag, s, 1) => 1 + 3 <= Len(s)
      /\ Len(OpenTag) = 3 /\ Len(CloseTag) = 4
  BY <1>2, TagIs
<1>7. /\ TagAt(OpenTag, s, 1) => Len(OpenTag) \in 1..Len(s)
      /\ TagAt(CloseTag, s, 1) => Len(CloseTag) \in 1..Len(s)
  BY <1>1, <1>6
<1> QED BY <1>1, <1>2, <1>3, <1>4, <1>5, <1>7

\* A text and a text behind it.
LEMMA Joined ==
    ASSUME NEW x \in ModelText, NEW y \in ModelText
    PROVE  x \o y \in ModelText
BY ConcatProperties DEF ModelText

LEMMA JoinedOn ==
    \A x, y, z \in ModelText : (x \o y) \o z = x \o (y \o z)
BY ConcatAssociative DEF ModelText

\* What defines the texts without blanks.
MarksOf(s, f) ==
    IF s = <<>> THEN <<>>
    ELSE IF s[1] \in Blanks THEN f[Drop(s, 1)] ELSE <<s[1]>> \o f[Drop(s, 1)]

LEMMA MarksIs ==
    \A s \in ModelText : Marks[s] = MarksOf(s, Marks) /\ Marks[s] \in ModelText
<1> DEFINE W == [ModelText -> ModelText]
           rec(f) == f = [s \in ModelText |-> MarksOf(s, f)]
           g == [p \in ModelText \X W |-> MarksOf(p[1], p[2])]
<1>1. ASSUME NEW s \in ModelText, NEW f, \A u \in ModelText : Length[u] < Length[s] => f[u] \in ModelText
      PROVE  MarksOf(s, f) \in ModelText
  <2>1. CASE s = <<>> BY <2>1 DEF MarksOf, ModelText
  <2>2. CASE s # <<>> BY <1>1, <2>2, FirstOf, Joined DEF Shorter, MarksOf
  <2> QED BY <2>1, <2>2
<1>2. ASSUME NEW s \in ModelText, NEW f, NEW h, \A u \in ModelText : Length[u] < Length[s] => f[u] = h[u]
      PROVE  MarksOf(s, f) = MarksOf(s, h)
  BY <1>2, FirstOf DEF Shorter, MarksOf
<1>3. g \in [ModelText \X W -> ModelText] /\ \A s \in ModelText, f \in W : g[<<s, f>>] = MarksOf(s, f)
  <2>1. \A s \in ModelText, f \in W : MarksOf(s, f) \in ModelText BY <1>1
  <2> HIDE DEF W
  <2> QED BY <2>1
<1> HIDE DEF g
<1>4. Determined(ModelText, Length, ModelText, g)
  <2> SUFFICES ASSUME NEW s \in ModelText, NEW f \in W, NEW h \in W,
                      \A u \in ModelText : Length[u] < Length[s] => f[u] = h[u]
               PROVE  g[<<s, f>>] = g[<<s, h>>]
    BY DEF Determined
  <2>1. MarksOf(s, f) = MarksOf(s, h)
    <3> HIDE DEF W
    <3> QED BY <1>2
  <2> QED BY <1>3, <2>1
<1>5. <<>> \in ModelText /\ Length \in [ModelText -> Nat] BY LengthIs DEF ModelText
<1>6. PICK f \in W : \A s \in ModelText : f[s] = g[<<s, f>>]
  <2>1. Solved(ModelText, ModelText, g) BY <1>3, <1>4, <1>5, Recursed
  <2> QED BY <2>1 DEF Solved
<1>7. \A s \in ModelText : f[s] = MarksOf(s, f) BY <1>3, <1>6
<1>8. rec(f)
  <2>1. f = [s \in ModelText |-> f[s]] BY <1>6
  <2> HIDE DEF W
  <2> QED BY <1>7, <2>1
<1>9. rec(CHOOSE c : rec(c)) BY <1>8
<1>10. Marks = CHOOSE c : rec(c) BY DEF Marks, MarksOf
<1>11. Marks = [s \in ModelText |-> MarksOf(s, Marks)] BY <1>9, <1>10
<1> HIDE DEF rec
<1>12. \A s \in ModelText : Marks[s] = MarksOf(s, Marks) BY <1>11
<1> DEFINE P == {s \in ModelText : Marks[s] \in ModelText}
<1>13. ASSUME NEW s \in ModelText, \A u \in ModelText : Length[u] < Length[s] => u \in P PROVE s \in P
  BY <1>1, <1>12, <1>13
<1> HIDE DEF P
<1>14. \A s \in ModelText : s \in P BY <1>5, <1>13, UpBySize
<1> QED BY <1>12, <1>14 DEF P

\* What defines the readings of a text.
Reading == [outside : ModelText, inside : ModelText]
ReadingsOf(s, f) ==
    LET next == f[Drop(s, 1)]
    IN  IF s = <<>> THEN [outside |-> <<>>, inside |-> <<>>]
        ELSE [outside |-> IF TagAt(OpenTag, s, 1) THEN f[Drop(s, Len(OpenTag))].inside
                          ELSE <<s[1]>> \o next.outside,
              inside |-> IF TagAt(CloseTag, s, 1) THEN f[Drop(s, Len(CloseTag))].outside
                         ELSE next.inside]

LEMMA ReadingsIs ==
    \A s \in ModelText : Readings[s] = ReadingsOf(s, Readings) /\ Readings[s] \in Reading
<1> DEFINE W == [ModelText -> Reading]
           rec(f) == f = [s \in ModelText |-> ReadingsOf(s, f)]
           g == [p \in ModelText \X W |-> ReadingsOf(p[1], p[2])]
<1>1. ASSUME NEW s \in ModelText, NEW f, \A u \in ModelText : Length[u] < Length[s] => f[u] \in Reading
      PROVE  ReadingsOf(s, f) \in Reading
  <2>1. CASE s = <<>> BY <2>1 DEF ReadingsOf, Reading, ModelText
  <2>2. CASE s # <<>>
    <3> DEFINE a == IF TagAt(OpenTag, s, 1) THEN f[Drop(s, Len(OpenTag))].inside
                    ELSE <<s[1]>> \o f[Drop(s, 1)].outside
               b == IF TagAt(CloseTag, s, 1) THEN f[Drop(s, Len(CloseTag))].outside
                    ELSE f[Drop(s, 1)].inside
    <3>1. /\ f[Drop(s, 1)] \in Reading /\ <<s[1]>> \in ModelText
          /\ TagAt(OpenTag, s, 1) => f[Drop(s, Len(OpenTag))] \in Reading
          /\ TagAt(CloseTag, s, 1) => f[Drop(s, Len(CloseTag))] \in Reading
      BY <1>1, <2>2, FirstOf DEF Shorter
    <3>2. <<s[1]>> \o f[Drop(s, 1)].outside \in ModelText BY <3>1, Joined DEF Reading
    <3>3. a \in ModelText /\ b \in ModelText BY <3>1, <3>2 DEF Reading
    <3>4. ReadingsOf(s, f) = [outside |-> a, inside |-> b] BY <2>2 DEF ReadingsOf
    <3> HIDE DEF a, b
    <3> QED BY <3>3, <3>4 DEF Reading
  <2> QED BY <2>1, <2>2
<1>2. ASSUME NEW s \in ModelText, NEW f, NEW h, \A u \in ModelText : Length[u] < Length[s] => f[u] = h[u]
      PROVE  ReadingsOf(s, f) = ReadingsOf(s, h)
  BY <1>2, FirstOf DEF Shorter, ReadingsOf
<1>3. g \in [ModelText \X W -> Reading] /\ \A s \in ModelText, f \in W : g[<<s, f>>] = ReadingsOf(s, f)
  <2>1. \A s \in ModelText, f \in W : ReadingsOf(s, f) \in Reading BY <1>1
  <2> HIDE DEF W
  <2> QED BY <2>1
<1> HIDE DEF g
<1>4. Determined(ModelText, Length, Reading, g)
  <2> SUFFICES ASSUME NEW s \in ModelText, NEW f \in W, NEW h \in W,
                      \A u \in ModelText : Length[u] < Length[s] => f[u] = h[u]
               PROVE  g[<<s, f>>] = g[<<s, h>>]
    BY DEF Determined
  <2>1. ReadingsOf(s, f) = ReadingsOf(s, h)
    <3> HIDE DEF W
    <3> QED BY <1>2
  <2> QED BY <1>3, <2>1
<1>5. [outside |-> <<>>, inside |-> <<>>] \in Reading /\ Length \in [ModelText -> Nat]
  BY LengthIs DEF Reading, ModelText
<1>6. PICK f \in W : \A s \in ModelText : f[s] = g[<<s, f>>]
  <2>1. Solved(ModelText, Reading, g) BY <1>3, <1>4, <1>5, Recursed
  <2> QED BY <2>1 DEF Solved
<1>7. \A s \in ModelText : f[s] = ReadingsOf(s, f) BY <1>3, <1>6
<1>8. rec(f)
  <2>1. f = [s \in ModelText |-> f[s]] BY <1>6
  <2> HIDE DEF W
  <2> QED BY <1>7, <2>1
<1>9. rec(CHOOSE c : rec(c)) BY <1>8
<1>10. Readings = CHOOSE c : rec(c) BY DEF Readings, ReadingsOf
<1>11. Readings = [s \in ModelText |-> ReadingsOf(s, Readings)] BY <1>9, <1>10
<1> HIDE DEF rec
<1>12. \A s \in ModelText : Readings[s] = ReadingsOf(s, Readings) BY <1>11
<1> DEFINE P == {s \in ModelText : Readings[s] \in Reading}
<1>13. ASSUME NEW s \in ModelText, \A u \in ModelText : Length[u] < Length[s] => u \in P PROVE s \in P
  BY <1>1, <1>12, <1>13
<1> HIDE DEF P
<1>14. \A s \in ModelText : s \in P BY <1>5, <1>13, UpBySize
<1> QED BY <1>12, <1>14 DEF P

\* A closing tag behind an opening one, and the first character behind it that is no blank.
ClosesOf(s) == {j \in PlacesOf(CloseTag, s) : Len(OpenTag) < j}
AfterOf(s) == Min(ClosesOf(s)) + Len(CloseTag)
OnOf(s) == Min({k \in AfterOf(s)..(Len(s) + 1) : k = Len(s) + 1 \/ s[k] \notin Blanks})
Taken(s) == TagAt(OpenTag, s, 1) /\ ClosesOf(s) # {}

LEMMA TakenIs ==
    ASSUME NEW s \in ModelText, s # <<>>, ClosesOf(s) # {}
    PROVE  /\ Min(ClosesOf(s)) \in ClosesOf(s) /\ \A j \in ClosesOf(s) : Min(ClosesOf(s)) <= j
           /\ AfterOf(s) \in 8..(Len(s) + 1) /\ AfterOf(s) = Min(ClosesOf(s)) + 4
           /\ OnOf(s) \in AfterOf(s)..(Len(s) + 1)
           /\ \A k \in AfterOf(s)..(OnOf(s) - 1) : s[k] \in Blanks
           /\ Shorter(Drop(s, OnOf(s) - 1), s)
<1> DEFINE C == ClosesOf(s)
           m == Min(C)
           K == {k \in AfterOf(s)..(Len(s) + 1) : k = Len(s) + 1 \/ s[k] \notin Blanks}
<1>1. Len(s) \in Nat \ {0} BY FirstOf
<1>2. \A j \in C : j \in 1..Len(s) /\ TagAt(CloseTag, s, j) /\ Len(OpenTag) < j
  BY <1>1 DEF ClosesOf, PlacesOf, ModelText
<1>3. \A j \in C : 3 < j /\ j + 3 <= Len(s) /\ Len(CloseTag) = 4
  <2> TAKE j \in C
  <2>1. j \in 1..Len(s) /\ TagAt(CloseTag, s, j) /\ Len(OpenTag) < j BY <1>2
  <2> HIDE DEF C
  <2> QED BY <2>1, TagIs
<1>4. C \in SUBSET Nat /\ C # {} BY <1>1, <1>2
<1>5. m \in C /\ \A j \in C : m <= j
  <2> HIDE DEF C
  <2> QED BY <1>4, LeastOf
<1>6. AfterOf(s) = m + 4 /\ AfterOf(s) \in 8..(Len(s) + 1) /\ m \in Nat
  <2>1. Len(CloseTag) = 4 /\ 3 < m /\ m + 3 <= Len(s) /\ m \in Nat BY <1>3, <1>4, <1>5
  <2>2. AfterOf(s) = m + 4 BY <2>1 DEF AfterOf
  <2> HIDE DEF m, C
  <2> QED BY <1>1, <2>1, <2>2
<1>7. K \in SUBSET Nat /\ Len(s) + 1 \in K BY <1>1, <1>6
<1>8. OnOf(s) \in K /\ \A k \in K : OnOf(s) <= k
  <2>1. OnOf(s) = Min(K) BY DEF OnOf
  <2> HIDE DEF K
  <2> QED BY <1>7, <2>1, LeastOf
<1>9. OnOf(s) \in AfterOf(s)..(Len(s) + 1) BY <1>8
<1>10. ASSUME NEW k \in AfterOf(s)..(OnOf(s) - 1) PROVE s[k] \in Blanks
  BY <1>1, <1>6, <1>8, <1>9
<1>11. OnOf(s) - 1 \in 1..Len(s) BY <1>1, <1>6, <1>9
<1>12. Shorter(Drop(s, OnOf(s) - 1), s) BY <1>11, ShorterBehind
<1> QED BY <1>5, <1>6, <1>9, <1>10, <1>12

\* What defines a text with its closed reasoning taken out.
SubOf(s, f) ==
    IF s = <<>> THEN <<>>
    ELSE IF Taken(s) THEN f[Drop(s, OnOf(s) - 1)]
    ELSE <<s[1]>> \o f[Drop(s, 1)]

LEMMA SubIs ==
    \A s \in ModelText : Sub[s] = SubOf(s, Sub) /\ Sub[s] \in ModelText
<1> DEFINE W == [ModelText -> ModelText]
           rec(f) == f = [s \in ModelText |-> SubOf(s, f)]
           g == [p \in ModelText \X W |-> SubOf(p[1], p[2])]
<1>1. ASSUME NEW s \in ModelText, NEW f, \A u \in ModelText : Length[u] < Length[s] => f[u] \in ModelText
      PROVE  SubOf(s, f) \in ModelText
  <2>1. CASE s = <<>> BY <2>1 DEF SubOf, ModelText
  <2>2. CASE s # <<>> BY <1>1, <2>2, FirstOf, Joined, TakenIs DEF Shorter, Taken, SubOf
  <2> QED BY <2>1, <2>2
<1>2. ASSUME NEW s \in ModelText, NEW f, NEW h, \A u \in ModelText : Length[u] < Length[s] => f[u] = h[u]
      PROVE  SubOf(s, f) = SubOf(s, h)
  BY <1>2, FirstOf, TakenIs DEF Shorter, Taken, SubOf
<1>3. g \in [ModelText \X W -> ModelText] /\ \A s \in ModelText, f \in W : g[<<s, f>>] = SubOf(s, f)
  <2>1. \A s \in ModelText, f \in W : SubOf(s, f) \in ModelText BY <1>1
  <2> HIDE DEF W
  <2> QED BY <2>1
<1> HIDE DEF g
<1>4. Determined(ModelText, Length, ModelText, g)
  <2> SUFFICES ASSUME NEW s \in ModelText, NEW f \in W, NEW h \in W,
                      \A u \in ModelText : Length[u] < Length[s] => f[u] = h[u]
               PROVE  g[<<s, f>>] = g[<<s, h>>]
    BY DEF Determined
  <2>1. SubOf(s, f) = SubOf(s, h)
    <3> HIDE DEF W
    <3> QED BY <1>2
  <2> QED BY <1>3, <2>1
<1>5. <<>> \in ModelText /\ Length \in [ModelText -> Nat] BY LengthIs DEF ModelText
<1>6. PICK f \in W : \A s \in ModelText : f[s] = g[<<s, f>>]
  <2>1. Solved(ModelText, ModelText, g) BY <1>3, <1>4, <1>5, Recursed
  <2> QED BY <2>1 DEF Solved
<1>7. \A s \in ModelText : f[s] = SubOf(s, f) BY <1>3, <1>6
<1>8. rec(f)
  <2>1. f = [s \in ModelText |-> f[s]] BY <1>6
  <2> HIDE DEF W
  <2> QED BY <1>7, <2>1
<1>9. rec(CHOOSE c : rec(c)) BY <1>8
<1>10. Sub = CHOOSE c : rec(c) BY DEF Sub, SubOf, Taken, OnOf, AfterOf, ClosesOf
<1>11. Sub = [s \in ModelText |-> SubOf(s, Sub)] BY <1>9, <1>10
<1> HIDE DEF rec
<1>12. \A s \in ModelText : Sub[s] = SubOf(s, Sub) BY <1>11
<1> DEFINE P == {s \in ModelText : Sub[s] \in ModelText}
<1>13. ASSUME NEW s \in ModelText, \A u \in ModelText : Length[u] < Length[s] => u \in P PROVE s \in P
  BY <1>1, <1>12, <1>13
<1> HIDE DEF P
<1>14. \A s \in ModelText : s \in P BY <1>5, <1>13, UpBySize
<1> QED BY <1>12, <1>14 DEF P

-----------------------------------------------------------------------------
\* The ends of a text, of what is before another text, and of ends.
LEMMA DropEnds ==
    ASSUME NEW s \in ModelText
    PROVE  Drop(s, 0) = s /\ Drop(s, Len(s)) = <<>>
BY LenProperties, SubSeqFull, SubSeqEmpty DEF ModelText, Drop

LEMMA DropOfDrop ==
    ASSUME NEW s \in ModelText, NEW k \in 0..Len(s), NEW j \in 0..(Len(s) - k)
    PROVE  k + j \in 0..Len(s) /\ Drop(Drop(s, k), j) = Drop(s, k + j)
<1> DEFINE d == Drop(s, k)
<1>1. Len(s) \in Nat BY LenProperties DEF ModelText
<1>2. d \in ModelText /\ Len(d) = Len(s) - k /\ \A i \in 1..(Len(s) - k) : d[i] = s[k + i]
  BY DropIs
<1> HIDE DEF d
<1>3. k + j \in 0..Len(s) /\ j \in 0..Len(d) BY <1>1, <1>2
<1> DEFINE a == Drop(d, j)
           b == Drop(s, k + j)
<1>4. a \in ModelText /\ Len(a) = Len(d) - j /\ \A i \in 1..(Len(d) - j) : a[i] = d[j + i]
  BY <1>2, <1>3, DropIs
<1>5. b \in ModelText /\ Len(b) = Len(s) - (k + j) /\ \A i \in 1..(Len(s) - (k + j)) : b[i] = s[(k + j) + i]
  BY <1>3, DropIs
<1> HIDE DEF a, b
<1>6. Len(a) = Len(b) /\ Len(a) = Len(s) - k - j BY <1>1, <1>2, <1>4, <1>5
<1>7. ASSUME NEW i \in 1..Len(a) PROVE a[i] = b[i] BY <1>1, <1>2, <1>4, <1>5, <1>6
<1>8. a = b BY <1>4, <1>5, <1>6, <1>7, SeqEqual DEF ModelText
<1> QED BY <1>3, <1>8 DEF a, b, d

LEMMA DropOfJoined ==
    ASSUME NEW s \in ModelText, NEW r \in ModelText, NEW k \in 0..Len(s)
    PROVE  k \in 0..Len(s \o r) /\ Drop(s \o r, k) = Drop(s, k) \o r
<1> DEFINE d == Drop(s, k)
           x == s \o r
<1>1. Len(s) \in Nat /\ Len(r) \in Nat BY LenProperties DEF ModelText
<1>2. /\ d \in ModelText /\ Len(d) = Len(s) - k /\ \A i \in 1..(Len(s) - k) : d[i] = s[k + i]
      /\ x \in ModelText /\ Len(x) = Len(s) + Len(r)
      /\ \A i \in 1..(Len(s) + Len(r)) : x[i] = IF i <= Len(s) THEN s[i] ELSE r[i - Len(s)]
  BY DropIs, ConcatProperties DEF ModelText
<1> HIDE DEF d, x
<1>3. k \in 0..Len(x) BY <1>1, <1>2
<1> DEFINE a == Drop(x, k)
           b == d \o r
<1>4. /\ a \in ModelText /\ Len(a) = Len(x) - k /\ \A i \in 1..(Len(x) - k) : a[i] = x[k + i]
  BY <1>2, <1>3, DropIs
<1>5. /\ b \in ModelText /\ Len(b) = Len(d) + Len(r)
      /\ \A i \in 1..(Len(d) + Len(r)) : b[i] = IF i <= Len(d) THEN d[i] ELSE r[i - Len(d)]
  <2>1. d \in Seq(STRING) /\ r \in Seq(STRING) BY <1>2 DEF ModelText
  <2>2. /\ d \o r \in Seq(STRING) /\ Len(d \o r) = Len(d) + Len(r)
        /\ \A i \in 1..(Len(d) + Len(r)) : (d \o r)[i] = IF i <= Len(d) THEN d[i] ELSE r[i - Len(d)]
    BY <2>1, ConcatProperties
  <2> QED BY <2>2 DEF ModelText
<1> HIDE DEF a, b
<1>6. Len(a) = Len(b) BY <1>1, <1>2, <1>4, <1>5
<1>7. ASSUME NEW i \in 1..Len(a) PROVE a[i] = b[i]
  <2>1. k + i \in 1..(Len(s) + Len(r)) /\ a[i] = x[k + i] BY <1>1, <1>2, <1>4
  <2>2. b[i] = IF i <= Len(d) THEN d[i] ELSE r[i - Len(d)] BY <1>5, <1>6
  <2>3. CASE i <= Len(d) BY <1>1, <1>2, <2>1, <2>2, <2>3
  <2>4. CASE ~(i <= Len(d)) BY <1>1, <1>2, <2>1, <2>2, <2>4
  <2> QED BY <2>3, <2>4
<1>8. a = b BY <1>4, <1>5, <1>6, <1>7, SeqEqual DEF ModelText
<1> QED BY <1>3, <1>8 DEF a, b, d, x

\* A tag in the end of a text is a tag in the text.
LEMMA TagInDrop ==
    ASSUME NEW s \in ModelText, NEW k \in 0..Len(s), NEW i \in 1..(Len(s) - k)
    PROVE  /\ k + i \in 1..Len(s) /\ i \in 1..Len(Drop(s, k)) /\ Drop(s, k) # <<>>
           /\ TagAt(OpenTag, Drop(s, k), i) <=> TagAt(OpenTag, s, k + i)
           /\ TagAt(CloseTag, Drop(s, k), i) <=> TagAt(CloseTag, s, k + i)
<1> DEFINE d == Drop(s, k)
<1>1. Len(s) \in Nat BY LenProperties DEF ModelText
<1>2. d \in ModelText /\ Len(d) = Len(s) - k /\ \A j \in 1..(Len(s) - k) : d[j] = s[k + j]
  BY DropIs
<1> HIDE DEF d
<1>3. k + i \in 1..Len(s) /\ i \in 1..Len(d) BY <1>1, <1>2
<1>4. d # <<>> BY <1>2, <1>3, EmptySeq
<1>5. /\ TagAt(OpenTag, d, i) <=> i + 2 <= Len(d) /\ d[i] = "<" /\ d[i + 1] = "t" /\ d[i + 2] = ">"
      /\ TagAt(CloseTag, d, i) <=> /\ i + 3 <= Len(d) /\ d[i] = "<" /\ d[i + 1] = "/"
                                   /\ d[i + 2] = "t" /\ d[i + 3] = ">"
  BY <1>2, <1>3, TagIs
<1> DEFINE n == k + i
<1>6. /\ TagAt(OpenTag, s, n) <=> n + 2 <= Len(s) /\ s[n] = "<" /\ s[n + 1] = "t" /\ s[n + 2] = ">"
      /\ TagAt(CloseTag, s, n) <=> /\ n + 3 <= Len(s) /\ s[n] = "<" /\ s[n + 1] = "/"
                                   /\ s[n + 2] = "t" /\ s[n + 3] = ">"
  BY <1>3, TagIs
<1>7. \A j \in 0..3 : /\ i + j <= Len(d) <=> n + j <= Len(s)
                      /\ i + j <= Len(d) => d[i + j] = s[n + j]
  <2> TAKE j \in 0..3
  <2>1. i + j <= Len(d) <=> n + j <= Len(s) BY <1>1, <1>2
  <2>2. i + j <= Len(d) => i + j \in 1..(Len(s) - k) /\ k + (i + j) = n + j BY <1>1, <1>2
  <2> QED BY <1>2, <2>1, <2>2
<1>8. /\ i + 2 <= Len(d) <=> n + 2 <= Len(s)
      /\ i + 3 <= Len(d) <=> n + 3 <= Len(s)
      /\ i + 2 <= Len(d) => d[i] = s[n] /\ d[i + 1] = s[n + 1] /\ d[i + 2] = s[n + 2]
      /\ i + 3 <= Len(d) => d[i] = s[n] /\ d[i + 1] = s[n + 1] /\ d[i + 2] = s[n + 2] /\ d[i + 3] = s[n + 3]
  <2>1. i + 0 = i /\ n + 0 = n /\ 0 \in 0..3 /\ 1 \in 0..3 /\ 2 \in 0..3 /\ 3 \in 0..3 BY <1>1
  <2>2. /\ i + 2 <= Len(d) => i + 0 <= Len(d) /\ i + 1 <= Len(d)
        /\ i + 3 <= Len(d) => i + 0 <= Len(d) /\ i + 1 <= Len(d) /\ i + 2 <= Len(d)
    BY <1>1, <1>2
  <2> HIDE DEF n
  <2> QED BY <1>7, <2>1, <2>2
<1>9. /\ TagAt(OpenTag, d, i) <=> TagAt(OpenTag, s, n)
      /\ TagAt(CloseTag, d, i) <=> TagAt(CloseTag, s, n)
  <2> HIDE DEF n
  <2> QED BY <1>5, <1>6, <1>8
<1> QED BY <1>3, <1>4, <1>9 DEF d

\* A text is its first character and the rest of it.
LEMMA FirstAndRest ==
    ASSUME NEW s \in ModelText, s # <<>>
    PROVE  s = <<s[1]>> \o Drop(s, 1)
BY FirstOf, SubSeqRecursiveFirst, SubSeqFull DEF ModelText, Drop

-----------------------------------------------------------------------------
\* What is read of a text from inside a tag, and from wherever the reader is.
Inside(s) == Readings[s].inside
Rest(inside, s) == IF inside THEN Inside(s) ELSE Outside(s)

LEMMA ReadIs ==
    ASSUME NEW s \in ModelText
    PROVE  /\ Outside(s) \in ModelText /\ Inside(s) \in ModelText
           /\ s = <<>> => Outside(s) = <<>> /\ Inside(s) = <<>>
           /\ s # <<>> =>
                /\ Outside(s) = IF TagAt(OpenTag, s, 1) THEN Inside(Drop(s, Len(OpenTag)))
                                ELSE <<s[1]>> \o Outside(Drop(s, 1))
                /\ Inside(s) = IF TagAt(CloseTag, s, 1) THEN Outside(Drop(s, Len(CloseTag)))
                               ELSE Inside(Drop(s, 1))
<1>1. Readings[s] = ReadingsOf(s, Readings) /\ Readings[s] \in Reading BY ReadingsIs
<1>2. Outside(s) \in ModelText /\ Inside(s) \in ModelText BY <1>1 DEF Reading, Outside, Inside
<1>3. s = <<>> => Outside(s) = <<>> /\ Inside(s) = <<>> BY <1>1 DEF ReadingsOf, Outside, Inside
<1>4. ASSUME s # <<>>
      PROVE  Readings[s] = [outside |-> IF TagAt(OpenTag, s, 1) THEN Readings[Drop(s, Len(OpenTag))].inside
                                        ELSE <<s[1]>> \o Readings[Drop(s, 1)].outside,
                            inside |-> IF TagAt(CloseTag, s, 1) THEN Readings[Drop(s, Len(CloseTag))].outside
                                       ELSE Readings[Drop(s, 1)].inside]
  BY <1>1, <1>4 DEF ReadingsOf
<1>5. ASSUME s # <<>>
      PROVE  /\ Outside(s) = IF TagAt(OpenTag, s, 1) THEN Inside(Drop(s, Len(OpenTag)))
                             ELSE <<s[1]>> \o Outside(Drop(s, 1))
             /\ Inside(s) = IF TagAt(CloseTag, s, 1) THEN Outside(Drop(s, Len(CloseTag)))
                            ELSE Inside(Drop(s, 1))
  <2> DEFINE a == IF TagAt(OpenTag, s, 1) THEN Readings[Drop(s, Len(OpenTag))].inside
                  ELSE <<s[1]>> \o Readings[Drop(s, 1)].outside
             b == IF TagAt(CloseTag, s, 1) THEN Readings[Drop(s, Len(CloseTag))].outside
                  ELSE Readings[Drop(s, 1)].inside
  <2>1. Readings[s] = [outside |-> a, inside |-> b] BY <1>4, <1>5
  <2> HIDE DEF a, b
  <2>2. Readings[s].outside = a /\ Readings[s].inside = b BY <2>1
  <2> QED BY <2>2 DEF Outside, Inside, a, b
<1> QED BY <1>2, <1>3, <1>5

\* From inside a tag, nothing is read of what comes before its end.
LEMMA SkipInside ==
    ASSUME NEW s \in ModelText, NEW k \in 0..Len(s), \A i \in 1..k : ~TagAt(CloseTag, s, i)
    PROVE  Inside(s) = Inside(Drop(s, k))
<1>0. Len(s) \in Nat BY LenProperties DEF ModelText
<1> DEFINE P == {n \in Nat : n <= k => Inside(s) = Inside(Drop(s, n))}
<1>1. ASSUME NEW n \in Nat, \A m \in Nat : m < n => m \in P PROVE n \in P
  <2> SUFFICES ASSUME n <= k PROVE Inside(s) = Inside(Drop(s, n)) OBVIOUS
  <2>1. CASE n = 0 BY <2>1, DropEnds
  <2>2. CASE n # 0
    <3> DEFINE d == Drop(s, n - 1)
    <3>1. n - 1 \in Nat /\ n - 1 < n /\ n - 1 <= k /\ n - 1 \in 0..Len(s) /\ n \in 1..k
          /\ 1 \in 1..(Len(s) - (n - 1)) /\ (n - 1) + 1 = n /\ 1 \in 0..(Len(s) - (n - 1))
      BY <1>0, <2>2
    <3>2. n - 1 \in P BY <1>1, <3>1
    <3>3. Inside(s) = Inside(d) BY <3>1, <3>2
    <3>4. d \in ModelText /\ d # <<>> /\ (TagAt(CloseTag, d, 1) <=> TagAt(CloseTag, s, n))
      BY <3>1, DropIs, TagInDrop
    <3>5. Drop(d, 1) = Drop(s, n) BY <3>1, DropOfDrop
    <3> HIDE DEF d
    <3>6. Inside(d) = Inside(Drop(d, 1)) BY <3>1, <3>4, ReadIs
    <3> QED BY <3>3, <3>5, <3>6
  <2> QED BY <2>1, <2>2
<1> HIDE DEF P
<1>2. \A n \in Nat : n \in P BY <1>1, UpFromZero
<1>3. k \in Nat /\ k <= k BY <1>0
<1>4. k \in P BY <1>2, <1>3
<1> QED BY <1>3, <1>4 DEF P

\* A text without an opening tag is read as it is.
LEMMA NoOpens ==
    ASSUME NEW s \in ModelText, PlacesOf(OpenTag, s) = {}
    PROVE  Outside(s) = s
<1> DEFINE P == {t \in ModelText : PlacesOf(OpenTag, t) = {} => Outside(t) = t}
<1>1. ASSUME NEW t \in ModelText, \A u \in ModelText : Length[u] < Length[t] => u \in P PROVE t \in P
  <2> SUFFICES ASSUME PlacesOf(OpenTag, t) = {} PROVE Outside(t) = t OBVIOUS
  <2>0. \A i \in 1..Len(t) : ~TagAt(OpenTag, t, i) BY LenProperties DEF PlacesOf, ModelText
  <2>1. CASE t = <<>> BY <2>1, ReadIs
  <2>2. CASE t # <<>>
    <3> DEFINE d == Drop(t, 1)
    <3>1. Len(t) \in Nat \ {0} /\ Shorter(d, t) BY <2>2, FirstOf
    <3>2. 1 \in 0..Len(t) /\ 1 \in 1..Len(t) /\ \A i \in 1..(Len(t) - 1) : 1 + i \in 1..Len(t)
      BY <3>1
    <3>3. \A i \in 1..(Len(t) - 1) : TagAt(OpenTag, d, i) <=> TagAt(OpenTag, t, 1 + i)
      BY <3>2, TagInDrop
    <3>4. d \in ModelText /\ Len(d) = Len(t) - 1 BY <3>2, DropIs
    <3>5. PlacesOf(OpenTag, d) = {}
      <4> HIDE DEF d
      <4>1. DOMAIN d = 1..(Len(t) - 1) BY <3>4, LenProperties DEF ModelText
      <4> QED BY <2>0, <3>2, <3>3, <4>1 DEF PlacesOf
    <3>6. d \in P BY <1>1, <3>1 DEF Shorter
    <3>7. Outside(d) = d BY <3>5, <3>6
    <3>8. Outside(t) = <<t[1]>> \o d BY <2>0, <2>2, <3>2, <3>7, ReadIs
    <3> QED BY <2>2, <3>8, FirstAndRest
  <2> QED BY <2>1, <2>2
<1> HIDE DEF P
<1>2. \A t \in ModelText : t \in P BY <1>1, LengthIs, UpBySize
<1> QED BY <1>2 DEF P

-----------------------------------------------------------------------------
\* A text whose characters are those a tag begins with is a beginning of the tag.
LEMMA PrefixIs ==
    ASSUME NEW S, NEW tag \in Seq(S), NEW d \in Seq(S), Len(d) <= Len(tag),
           \A j \in 1..Len(d) : d[j] = tag[j]
    PROVE  d = SubSeq(tag, 1, Len(d))
<1>1. Len(d) \in Nat /\ Len(tag) \in Nat BY LenProperties
<1> DEFINE n == Len(d)
           c == SubSeq(tag, 1, n)
<1>2. \A j \in 1..n : tag[j] \in S BY <1>1, ElementOfSeq
<1>3. 1 \in Int /\ n \in Int BY <1>1
<1>4. /\ c \in Seq(S) /\ Len(c) = IF 1 <= n THEN n - 1 + 1 ELSE 0
      /\ \A j \in 1..(n - 1 + 1) : c[j] = tag[1 + j - 1]
  BY <1>2, <1>3, SubSeqProperties
<1> HIDE DEF c
<1>5. Len(c) = n /\ \A j \in 1..n : c[j] = tag[j] BY <1>1, <1>4
<1>6. d = c BY <1>5, SeqEqual, <1>4
<1> QED BY <1>6 DEF c

\* The characters of texts and tags.
Chars == STRING \cup {"<", "/", "t", ">"}
LEMMA CharsIs ==
    /\ \A s \in ModelText : s \in Seq(Chars)
    /\ OpenTag \in Seq(Chars) /\ Len(OpenTag) = 3
    /\ OpenTag[1] = "<" /\ OpenTag[2] = "t" /\ OpenTag[3] = ">"
    /\ CloseTag \in Seq(Chars) /\ Len(CloseTag) = 4
    /\ CloseTag[1] = "<" /\ CloseTag[2] = "/" /\ CloseTag[3] = "t" /\ CloseTag[4] = ">"
<1>1. STRING \subseteq Chars /\ "<" \in Chars /\ "/" \in Chars /\ "t" \in Chars /\ ">" \in Chars
  BY DEF Chars
<1>2. \A s \in ModelText : s \in Seq(Chars) BY <1>1, SeqMonotonic DEF ModelText
<1> HIDE DEF Chars
<1>3. OpenTag \in Seq(Chars) /\ CloseTag \in Seq(Chars) BY <1>1 DEF OpenTag, CloseTag
<1> QED BY <1>2, <1>3 DEF OpenTag, CloseTag

\* A closing tag that a text and what comes behind it make begins in what is held back.
LEMMA HeldBackIs ==
    ASSUME NEW s \in ModelText, PlacesOf(CloseTag, s) = {}
    PROVE  \E k \in 0..Len(s) :
              /\ HeldBack(s) = Drop(s, k)
              /\ \A r \in ModelText : \A i \in 1..k : ~TagAt(CloseTag, s \o r, i)
<1> DEFINE ends == {n \in 1..(Len(CloseTag) - 1) :
                      n <= Len(s) /\ Drop(s, Len(s) - n) = SubSeq(CloseTag, 1, n)}
           k == IF ends = {} THEN Len(s) ELSE Len(s) - Max(ends)
<1>1. Len(s) \in Nat /\ Len(CloseTag) = 4 BY LenProperties, CharsIs DEF ModelText
<1>2. ends \in SUBSET (1..3) /\ \A n \in ends : n <= Len(s) BY <1>1
<1>3. \A n \in 1..3 : n <= Len(s) /\ Drop(s, Len(s) - n) = SubSeq(CloseTag, 1, n) => n \in ends
  BY <1>1
<1>4. HeldBack(s) = IF ends = {} THEN <<>> ELSE Drop(s, Len(s) - Max(ends)) BY DEF HeldBack
<1> HIDE DEF ends
<1>5. ends # {} => Max(ends) \in ends /\ \A n \in ends : n <= Max(ends) BY <1>2, MaxOfSome
<1>6. k \in 0..Len(s) /\ \A n \in ends : k <= Len(s) - n
  <2>1. CASE ends = {} BY <1>1, <2>1
  <2>2. CASE ends # {}
    <3>1. Max(ends) \in 1..3 /\ Max(ends) <= Len(s) /\ k = Len(s) - Max(ends)
      BY <1>2, <1>5, <2>2
    <3>2. \A n \in ends : n \in 1..3 /\ n <= Max(ends) BY <1>2, <1>5, <2>2
    <3> HIDE DEF k
    <3> QED BY <1>1, <3>1, <3>2
  <2> QED BY <2>1, <2>2
<1>7. HeldBack(s) = Drop(s, k) BY <1>4, DropEnds
<1> HIDE DEF k
<1>8. ASSUME NEW r \in ModelText, NEW i \in 1..k, TagAt(CloseTag, s \o r, i) PROVE FALSE
  <2> DEFINE x == s \o r
  <2>1. /\ x \in ModelText /\ Len(r) \in Nat /\ Len(x) = Len(s) + Len(r)
        /\ \A j \in 1..(Len(s) + Len(r)) : x[j] = IF j <= Len(s) THEN s[j] ELSE r[j - Len(s)]
    BY LenProperties, ConcatProperties DEF ModelText
  <2> HIDE DEF x
  <2>2. i \in 1..Len(x) /\ i \in 1..Len(s) BY <1>1, <1>6, <2>1
  <2>3. i + 3 <= Len(x) /\ x[i] = "<" /\ x[i + 1] = "/" /\ x[i + 2] = "t" /\ x[i + 3] = ">"
    BY <1>8, <2>1, <2>2, TagIs DEF x
  <2>4. \A j \in 1..4 : x[i + j - 1] = CloseTag[j]
    <3>1. i + 1 - 1 = i /\ i + 2 - 1 = i + 1 /\ i + 3 - 1 = i + 2 /\ i + 4 - 1 = i + 3 BY <2>2
    <3>2. \A j \in 1..4 : j = 1 \/ j = 2 \/ j = 3 \/ j = 4 OBVIOUS
    <3> QED BY <2>3, <3>1, <3>2, CharsIs
  <2>5. \A j \in 1..4 : i + j - 1 <= Len(s) => s[i + j - 1] = CloseTag[j]
    <3> TAKE j \in 1..4
    <3> HAVE i + j - 1 <= Len(s)
    <3>1. i + j - 1 \in 1..(Len(s) + Len(r)) BY <1>1, <2>1, <2>2
    <3> QED BY <2>1, <2>4, <3>1
  <2>6. CASE i + 3 <= Len(s)
    <3>1. i + 1 - 1 = i /\ i + 2 - 1 = i + 1 /\ i + 3 - 1 = i + 2 /\ i + 4 - 1 = i + 3 BY <2>2
    <3>2. i <= Len(s) /\ i + 1 <= Len(s) /\ i + 2 <= Len(s) BY <1>1, <2>2, <2>6
    <3>3. 1 \in 1..4 /\ 2 \in 1..4 /\ 3 \in 1..4 /\ 4 \in 1..4 OBVIOUS
    <3>4. s[i] = CloseTag[1] /\ s[i + 1] = CloseTag[2] /\ s[i + 2] = CloseTag[3] /\ s[i + 3] = CloseTag[4]
      BY <2>5, <2>6, <3>1, <3>2, <3>3
    <3>5. TagAt(CloseTag, s, i) BY <2>2, <2>6, <3>4, CharsIs, TagIs
    <3>6. i \in DOMAIN s BY <2>2, LenProperties DEF ModelText
    <3> QED BY <3>5, <3>6 DEF PlacesOf
  <2>7. CASE ~(i + 3 <= Len(s))
    <3> DEFINE n == Len(s) - i + 1
               d == Drop(s, Len(s) - n)
    <3>1. n \in 1..3 /\ n <= Len(s) /\ Len(s) - n = i - 1 /\ Len(s) - n \in 0..Len(s)
          /\ Len(s) - (Len(s) - n) = n
      BY <1>1, <2>2, <2>7
    <3> HIDE DEF n
    <3>2. d \in ModelText /\ Len(d) = n /\ \A j \in 1..n : d[j] = s[(Len(s) - n) + j]
      BY <3>1, DropIs
    <3>3. ASSUME NEW j \in 1..n PROVE d[j] = CloseTag[j]
      <4>1. (Len(s) - n) + j = i + j - 1 /\ i + j - 1 <= Len(s) /\ j \in 1..4
        BY <1>1, <2>2, <3>1
      <4> HIDE DEF d
      <4> QED BY <2>5, <3>2, <4>1
    <3> HIDE DEF d
    <3>4. d \in Seq(Chars) /\ CloseTag \in Seq(Chars) /\ Len(d) <= Len(CloseTag)
      BY <1>1, <3>1, <3>2, CharsIs
    <3>5. d = SubSeq(CloseTag, 1, Len(d)) BY <3>2, <3>3, <3>4, PrefixIs
    <3>6. n \in ends BY <1>3, <3>1, <3>2, <3>5 DEF d
    <3> QED BY <1>1, <1>6, <2>2, <3>1, <3>6
  <2> QED BY <2>6, <2>7
<1> QED BY <1>6, <1>7, <1>8

\* What may not become an opening tag does not.
LEMMA MayNotOpen ==
    ASSUME NEW s \in ModelText, s # <<>>, ~TagAt(OpenTag, s, 1), ~MayOpen(s), NEW r \in ModelText
    PROVE  ~TagAt(OpenTag, s \o r, 1)
<1> SUFFICES ASSUME TagAt(OpenTag, s \o r, 1) PROVE FALSE OBVIOUS
<1> DEFINE x == s \o r
<1>1. Len(s) \in Nat \ {0} BY FirstOf
<1>2. /\ x \in ModelText /\ Len(r) \in Nat /\ Len(x) = Len(s) + Len(r)
      /\ \A j \in 1..(Len(s) + Len(r)) : x[j] = IF j <= Len(s) THEN s[j] ELSE r[j - Len(s)]
  BY LenProperties, ConcatProperties DEF ModelText
<1>3. TagAt(OpenTag, x, 1) OBVIOUS
<1> HIDE DEF x
<1>4. 1 \in 1..Len(x) /\ 1 \in 1..Len(s) BY <1>1, <1>2
<1>5. 1 + 2 <= Len(x) /\ x[1] = "<" /\ x[2] = "t" /\ x[3] = ">" BY <1>2, <1>3, <1>4, TagIs
<1>6. \A j \in 1..3 : x[j] = OpenTag[j] BY <1>5, CharsIs
<1>7. \A j \in 1..3 : j <= Len(s) => s[j] = OpenTag[j] BY <1>1, <1>2, <1>6
<1>8. CASE 3 <= Len(s) BY <1>1, <1>4, <1>7, <1>8, CharsIs, TagIs
<1>9. CASE ~(3 <= Len(s))
  <2>1. Len(s) < 3 /\ \A j \in 1..Len(s) : j \in 1..3 /\ j <= Len(s) BY <1>1, <1>9
  <2>2. s \in Seq(Chars) /\ OpenTag \in Seq(Chars) /\ Len(OpenTag) = 3 BY CharsIs
  <2>3. s = SubSeq(OpenTag, 1, Len(s)) BY <1>1, <1>7, <2>1, <2>2, PrefixIs
  <2> QED BY <2>1, <2>2, <2>3 DEF MayOpen
<1> QED BY <1>8, <1>9

\* A text that goes on begins as it did.
LEMMA TagAndMore ==
    ASSUME NEW s \in ModelText, s # <<>>, NEW r \in ModelText
    PROVE  /\ s \o r \in ModelText /\ s \o r # <<>> /\ (s \o r)[1] = s[1]
           /\ TagAt(OpenTag, s, 1) => TagAt(OpenTag, s \o r, 1)
           /\ \A i \in 1..Len(s) :
                /\ i \in 1..Len(s \o r)
                /\ i + 3 <= Len(s) => (TagAt(CloseTag, s \o r, i) <=> TagAt(CloseTag, s, i))
<1> DEFINE x == s \o r
<1>1. Len(s) \in Nat \ {0} BY FirstOf
<1>2. /\ x \in ModelText /\ Len(r) \in Nat /\ Len(x) = Len(s) + Len(r)
      /\ \A j \in 1..(Len(s) + Len(r)) : x[j] = IF j <= Len(s) THEN s[j] ELSE r[j - Len(s)]
  BY LenProperties, ConcatProperties DEF ModelText
<1> HIDE DEF x
<1>3. \A i \in 1..Len(s) : i \in 1..Len(x) /\ x[i] = s[i]
  <2> TAKE i \in 1..Len(s)
  <2>1. i \in 1..(Len(s) + Len(r)) /\ i <= Len(s) /\ i \in 1..Len(x) BY <1>1, <1>2
  <2> QED BY <1>2, <2>1
<1>4. x # <<>> /\ 1 \in 1..Len(s) BY <1>1, <1>2, EmptySeq
<1>5. ASSUME TagAt(OpenTag, s, 1) PROVE TagAt(OpenTag, x, 1)
  <2>1. 1 + 2 <= Len(s) /\ s[1] = "<" /\ s[1 + 1] = "t" /\ s[1 + 2] = ">" BY <1>4, <1>5, TagIs
  <2>2. 1 + 1 \in 1..Len(s) /\ 1 + 2 \in 1..Len(s) /\ 1 + 2 <= Len(x) BY <1>1, <1>2, <2>1
  <2>3. x[1] = "<" /\ x[1 + 1] = "t" /\ x[1 + 2] = ">" BY <1>3, <1>4, <2>1, <2>2
  <2> QED BY <1>2, <1>3, <1>4, <2>2, <2>3, TagIs
<1>6. ASSUME NEW i \in 1..Len(s), i + 3 <= Len(s)
      PROVE  TagAt(CloseTag, x, i) <=> TagAt(CloseTag, s, i)
  <2>1. i + 1 \in 1..Len(s) /\ i + 2 \in 1..Len(s) /\ i + 3 \in 1..Len(s) /\ i + 3 <= Len(x)
    BY <1>1, <1>2, <1>6
  <2>2. x[i] = s[i] /\ x[i + 1] = s[i + 1] /\ x[i + 2] = s[i + 2] /\ x[i + 3] = s[i + 3]
    BY <1>3, <2>1
  <2>3. TagAt(CloseTag, x, i) <=> /\ i + 3 <= Len(x) /\ x[i] = "<" /\ x[i + 1] = "/"
                                  /\ x[i + 2] = "t" /\ x[i + 3] = ">"
    BY <1>2, <1>3, TagIs
  <2>4. TagAt(CloseTag, s, i) <=> /\ i + 3 <= Len(s) /\ s[i] = "<" /\ s[i + 1] = "/"
                                  /\ s[i + 2] = "t" /\ s[i + 3] = ">"
    BY TagIs
  <2> QED BY <1>6, <2>1, <2>2, <2>3, <2>4
<1> QED BY <1>2, <1>3, <1>4, <1>5, <1>6 DEF x

\* From inside a tag, what is read of a text is what is read from outside behind the
\* first place where the tag ends.
LEMMA CloseOf ==
    ASSUME NEW s \in ModelText, NEW m \in 1..Len(s), TagAt(CloseTag, s, m),
           \A i \in 1..(m - 1) : ~TagAt(CloseTag, s, i)
    PROVE  m + 3 \in 0..Len(s) /\ Inside(s) = Outside(Drop(s, m + 3))
<1>1. Len(s) \in Nat /\ m + 3 <= Len(s) /\ Len(CloseTag) = 4
  BY LenProperties, TagIs DEF ModelText
<1>2. m - 1 \in 0..Len(s) /\ 1 \in 1..(Len(s) - (m - 1)) /\ (m - 1) + 1 = m
      /\ 4 \in 0..(Len(s) - (m - 1)) /\ (m - 1) + 4 = m + 3 /\ m + 3 \in 0..Len(s)
  BY <1>1
<1> DEFINE d == Drop(s, m - 1)
<1>3. Inside(s) = Inside(d) BY <1>2, SkipInside
<1>4. d \in ModelText /\ d # <<>> /\ TagAt(CloseTag, d, 1) BY <1>2, DropIs, TagInDrop
<1>5. Drop(d, 4) = Drop(s, m + 3) BY <1>2, DropOfDrop
<1> HIDE DEF d
<1>6. Inside(d) = Outside(Drop(d, 4)) BY <1>1, <1>4, ReadIs
<1> QED BY <1>2, <1>3, <1>5, <1>6

LEMMA PastTheClose ==
    ASSUME NEW s \in ModelText, NEW r \in ModelText, NEW m \in 1..Len(s), TagAt(CloseTag, s, m),
           \A i \in 1..(m - 1) : ~TagAt(CloseTag, s, i)
    PROVE  Inside(s \o r) = Outside(Drop(s \o r, m + 3))
<1>1. Len(s) \in Nat /\ m + 3 <= Len(s) /\ s # <<>>
  BY LenProperties, EmptySeq, TagIs DEF ModelText
<1> DEFINE x == s \o r
<1>2. x \in ModelText /\ \A i \in 1..Len(s) :
                /\ i \in 1..Len(x)
                /\ i + 3 <= Len(s) => (TagAt(CloseTag, x, i) <=> TagAt(CloseTag, s, i))
  BY <1>1, TagAndMore
<1> HIDE DEF x
<1>3. m \in 1..Len(x) /\ TagAt(CloseTag, x, m) BY <1>1, <1>2
<1>4. \A i \in 1..(m - 1) : ~TagAt(CloseTag, x, i) BY <1>1, <1>2
<1>5. Inside(x) = Outside(Drop(x, m + 3)) BY <1>2, <1>3, <1>4, CloseOf
<1> QED BY <1>5 DEF x

-----------------------------------------------------------------------------
\* What a reader has and will have of what is still to come.
Reads(st, r) == st.out \o Rest(st.inside, st.buffer \o r)
Shown(st) == [inside |-> st.inside, size |-> Len(st.buffer)]

\* A turn keeps what is read of the buffer and of whatever comes behind it.
TurnKeeps(st, next) ==
    /\ next \in Strippers /\ \A r \in ModelText : Reads(next, r) = Reads(st, r)
    /\ next = st \/ Len(next.buffer) < Len(st.buffer)

\* The end of a buffer is no longer than the buffer.
LEMMA ShortBuffer ==
    ASSUME NEW s \in ModelText, NEW k \in 0..Len(s)
    PROVE  Drop(s, k) \in ModelText /\ (Drop(s, k) = s \/ Len(Drop(s, k)) < Len(s))
BY LenProperties, DropIs, DropEnds DEF ModelText

\* A stripper is what it is made of.
LEMMA StripperIs ==
    /\ \A st \in Strippers : /\ st.inside \in BOOLEAN /\ st.buffer \in ModelText /\ st.out \in ModelText
                             /\ st = Stripper(st.inside, st.buffer, st.out)
    /\ \A inside \in BOOLEAN, buffer, out \in ModelText :
          /\ Stripper(inside, buffer, out) \in Strippers
          /\ Stripper(inside, buffer, out).inside = inside
          /\ Stripper(inside, buffer, out).buffer = buffer
          /\ Stripper(inside, buffer, out).out = out
BY DEF Strippers, Stripper

LEMMA TurnIs ==
    ASSUME NEW st \in Strippers, st.buffer # <<>>
    PROVE  TurnKeeps(st, Turn(st))
<1> DEFINE s == st.buffer
           out == st.out
           closes == PlacesOf(CloseTag, s)
<1>1. s \in ModelText /\ out \in ModelText /\ s # <<>> /\ st.inside \in BOOLEAN /\ Len(s) \in Nat \ {0}
      /\ st = Stripper(st.inside, s, out)
  BY StripperIs, FirstOf
<1>2. Turn(st) = IF st.inside
                 THEN IF closes # {} THEN Stripper(FALSE, Drop(s, Min(closes) + Len(CloseTag) - 1), out)
                      ELSE Stripper(TRUE, HeldBack(s), out)
                 ELSE IF TagAt(OpenTag, s, 1) THEN Stripper(TRUE, Drop(s, Len(OpenTag)), out)
                 ELSE IF MayOpen(s) THEN st
                 ELSE Stripper(FALSE, Drop(s, 1), out \o <<s[1]>>)
  BY DEF Turn
<1>3. \A r \in ModelText : Reads(st, r) = out \o Rest(st.inside, s \o r) BY DEF Reads
<1> HIDE DEF s, out
\* What is before the end of the buffer that stays adds nothing.
<1>4. ASSUME NEW k \in 0..Len(s), NEW to \in BOOLEAN, Turn(st) = Stripper(to, Drop(s, k), out),
             k = 0 => st.inside = to,
             \A r \in ModelText : Rest(st.inside, s \o r) = Rest(to, Drop(s, k) \o r)
      PROVE  TurnKeeps(st, Turn(st))
  <2> DEFINE d == Drop(s, k)
  <2>1. d \in ModelText /\ (k = 0 => d = s) /\ (d = s \/ Len(d) < Len(s)) /\ Len(d) = Len(s) - k
    BY <1>1, ShortBuffer, DropEnds, DropIs
  <2>2. \A r \in ModelText : Rest(st.inside, s \o r) = Rest(to, d \o r) BY <1>4
  <2>3. Turn(st) = Stripper(to, d, out) BY <1>4
  <2> HIDE DEF d
  <2>4. Turn(st) \in Strippers /\ Turn(st).inside = to /\ Turn(st).buffer = d /\ Turn(st).out = out
    BY <1>1, <2>1, <2>3, StripperIs
  <2>5. \A r \in ModelText : Reads(Turn(st), r) = Reads(st, r) BY <1>3, <2>2, <2>4 DEF Reads
  <2>6. k = 0 => Turn(st) = st BY <1>1, <1>4, <2>1, <2>3
  <2>7. k # 0 => Len(Turn(st).buffer) < Len(st.buffer) BY <1>1, <2>1, <2>4 DEF s
  <2> QED BY <2>4, <2>5, <2>6, <2>7 DEF TurnKeeps
<1>5. CASE st.inside /\ closes # {}
  <2> DEFINE m == Min(closes)
             k == m + 3
  <2>1. closes \in SUBSET Nat /\ \A j \in closes : j \in 1..Len(s) /\ TagAt(CloseTag, s, j)
    BY <1>1, LenProperties DEF PlacesOf, ModelText
  <2>2. m \in closes /\ \A j \in closes : m <= j
    <3> HIDE DEF closes
    <3> QED BY <1>5, <2>1, LeastOf
  <2>3. \A j \in 1..Len(s) : TagAt(CloseTag, s, j) => j \in closes
    BY <1>1, LenProperties DEF PlacesOf, ModelText
  <2> HIDE DEF m, closes
  <2>4. m \in 1..Len(s) /\ TagAt(CloseTag, s, m) /\ m + 3 <= Len(s) /\ Len(CloseTag) = 4
    BY <1>1, <2>1, <2>2, TagIs
  <2>5. k \in 0..Len(s) /\ k # 0 /\ m + 4 - 1 = k /\ m - 1 \in 0..Len(s) BY <1>1, <2>4
  <2>6. Turn(st) = Stripper(FALSE, Drop(s, k), out)
    <3>1. Turn(st) = Stripper(FALSE, Drop(s, m + Len(CloseTag) - 1), out)
      BY <1>2, <1>5 DEF m, closes
    <3> HIDE DEF k
    <3> QED BY <2>4, <2>5, <3>1
  <2>7. ASSUME NEW r \in ModelText PROVE Rest(TRUE, s \o r) = Rest(FALSE, Drop(s, k) \o r)
    <3>1. \A i \in 1..(m - 1) : ~TagAt(CloseTag, s, i) BY <1>1, <2>2, <2>3, <2>4
    <3>2. Inside(s \o r) = Outside(Drop(s \o r, k)) BY <1>1, <2>4, <2>5, <3>1, PastTheClose
    <3>3. Drop(s \o r, k) = Drop(s, k) \o r BY <1>1, <2>5, DropOfJoined
    <3> QED BY <3>2, <3>3 DEF Rest
  <2>8. st.inside = TRUE BY <1>1, <1>5
  <2> HIDE DEF k
  <2> QED BY <1>4, <2>5, <2>6, <2>7, <2>8
<1>6. CASE st.inside /\ closes = {}
  <2>1. PICK k \in 0..Len(s) :
           /\ HeldBack(s) = Drop(s, k)
           /\ \A r \in ModelText : \A i \in 1..k : ~TagAt(CloseTag, s \o r, i)
    BY <1>1, <1>6, HeldBackIs
  <2>2. Turn(st) = Stripper(TRUE, Drop(s, k), out) /\ st.inside = TRUE BY <1>1, <1>2, <1>6, <2>1
  <2>3. ASSUME NEW r \in ModelText PROVE Rest(TRUE, s \o r) = Rest(TRUE, Drop(s, k) \o r)
    <3>1. k \in 0..Len(s \o r) /\ Drop(s \o r, k) = Drop(s, k) \o r BY <1>1, DropOfJoined
    <3>2. s \o r \in ModelText BY <1>1, Joined
    <3>3. Inside(s \o r) = Inside(Drop(s \o r, k)) BY <2>1, <3>1, <3>2, SkipInside
    <3> QED BY <3>1, <3>3 DEF Rest
  <2> QED BY <1>4, <2>2, <2>3
<1>7. CASE ~st.inside /\ TagAt(OpenTag, s, 1)
  <2>1. Len(OpenTag) = 3 /\ 3 \in 0..Len(s) /\ 1 + 2 <= Len(s) /\ 1 \in 1..Len(s)
    BY <1>1, <1>7, TagIs
  <2>2. Turn(st) = Stripper(TRUE, Drop(s, 3), out) /\ st.inside = FALSE
    BY <1>1, <1>2, <1>7, <2>1
  <2>3. ASSUME NEW r \in ModelText PROVE Rest(FALSE, s \o r) = Rest(TRUE, Drop(s, 3) \o r)
    <3>1. s \o r \in ModelText /\ s \o r # <<>> /\ TagAt(OpenTag, s \o r, 1)
      BY <1>1, <1>7, <2>1, TagAndMore
    <3>2. Drop(s \o r, 3) = Drop(s, 3) \o r BY <1>1, <2>1, DropOfJoined
    <3>3. Outside(s \o r) = Inside(Drop(s \o r, 3)) BY <2>1, <3>1, ReadIs
    <3> QED BY <3>2, <3>3 DEF Rest
  <2>4. 3 # 0 OBVIOUS
  <2> QED BY <1>4, <2>1, <2>2, <2>3, <2>4
<1>8. CASE ~st.inside /\ ~TagAt(OpenTag, s, 1) /\ MayOpen(s) BY <1>2, <1>8 DEF TurnKeeps
<1>9. CASE ~st.inside /\ ~TagAt(OpenTag, s, 1) /\ ~MayOpen(s)
  <2> DEFINE d == Drop(s, 1)
             more == out \o <<s[1]>>
  <2>1. <<s[1]>> \in ModelText /\ d \in ModelText /\ Len(d) = Len(s) - 1 /\ 1 \in 0..Len(s) /\ 1 \in 1..Len(s)
        /\ more \in ModelText
    BY <1>1, FirstOf, Joined, DropIs
  <2>2. Turn(st) = Stripper(FALSE, d, more) /\ st.inside = FALSE BY <1>1, <1>2, <1>9
  <2>3. ASSUME NEW r \in ModelText PROVE more \o Rest(FALSE, d \o r) = out \o Rest(FALSE, s \o r)
    <3>1. s \o r \in ModelText /\ s \o r # <<>> /\ (s \o r)[1] = s[1] BY <1>1, <2>1, TagAndMore
    <3>2. ~TagAt(OpenTag, s \o r, 1) BY <1>1, <1>9, MayNotOpen
    <3>3. Drop(s \o r, 1) = d \o r BY <1>1, <2>1, DropOfJoined
    <3>4. Outside(s \o r) = <<s[1]>> \o Outside(d \o r) BY <3>1, <3>2, <3>3, ReadIs
    <3>5. Outside(d \o r) \in ModelText BY <2>1, Joined, ReadIs
    <3> HIDE DEF d
    <3>6. (out \o <<s[1]>>) \o Outside(d \o r) = out \o (<<s[1]>> \o Outside(d \o r))
      <4>1. out \in ModelText /\ <<s[1]>> \in ModelText /\ Outside(d \o r) \in ModelText
        BY <1>1, <2>1, <3>5
      <4> QED BY <4>1, JoinedOn
    <3> QED BY <3>4, <3>6 DEF Rest
  <2> HIDE DEF d, more
  <2>4. Turn(st) \in Strippers /\ Turn(st).inside = FALSE /\ Turn(st).buffer = d /\ Turn(st).out = more
    BY <2>1, <2>2 DEF Stripper, Strippers
  <2>5. \A r \in ModelText : Reads(Turn(st), r) = Reads(st, r)
    BY <1>3, <2>2, <2>3, <2>4 DEF Reads
  <2>6. Len(Turn(st).buffer) < Len(st.buffer) BY <1>1, <2>1, <2>4 DEF s
  <2> QED BY <2>4, <2>5, <2>6 DEF TurnKeeps
<1> QED BY <1>1, <1>5, <1>6, <1>7, <1>8, <1>9

-----------------------------------------------------------------------------
\* What the loop leaves is settled and reads as what it was given.
BufferSize == [st \in Strippers |-> Len(st.buffer)]

\* A settled stripper holds all that is still to be read if nothing comes any more.
LEMMA SettledIs ==
    ASSUME NEW st \in Strippers, Settled(st)
    PROVE  Finish(st) \in ModelText /\ Rest(st.inside, st.buffer) = Finish(st)
<1> DEFINE s == st.buffer
<1>1. s \in ModelText /\ st.inside \in BOOLEAN BY StripperIs
<1>2. CASE s = <<>> BY <1>1, <1>2, ReadIs DEF Rest, Finish
<1>3. CASE s # <<>> /\ st.inside
  <2>1. Turn(st) = st BY <1>3 DEF Settled
  <2>2. PlacesOf(CloseTag, s) = {}
    <3> SUFFICES ASSUME PlacesOf(CloseTag, s) # {} PROVE FALSE OBVIOUS
    <3>1. Turn(st) = Stripper(FALSE, Drop(s, Min(PlacesOf(CloseTag, s)) + Len(CloseTag) - 1), st.out)
      BY <1>3 DEF Turn
    <3>2. Turn(st).inside = FALSE BY <3>1 DEF Stripper
    <3> QED BY <1>3, <2>1, <3>2
  <2>3. \A i \in 1..Len(s) : ~TagAt(CloseTag, s, i)
    BY <1>1, <2>2, LenProperties DEF PlacesOf, ModelText
  <2>4. Len(s) \in 0..Len(s) BY <1>1, LenProperties DEF ModelText
  <2>5. Inside(s) = Inside(Drop(s, Len(s))) BY <1>1, <2>3, <2>4, SkipInside
  <2>6. Drop(s, Len(s)) = <<>> /\ <<>> \in ModelText BY <1>1, DropEnds DEF ModelText
  <2>7. Inside(s) = <<>> BY <2>5, <2>6, ReadIs
  <2> QED BY <1>3, <2>6, <2>7 DEF Rest, Finish
<1>4. CASE s # <<>> /\ ~st.inside
  <2>1. Turn(st) = st /\ Len(s) \in Nat \ {0} BY <1>1, <1>4, FirstOf DEF Settled
  <2>2. MayOpen(s)
    <3> SUFFICES ASSUME ~MayOpen(s) PROVE FALSE OBVIOUS
    <3>1. CASE TagAt(OpenTag, s, 1) BY <1>4, <2>1, <3>1 DEF Turn, Stripper
    <3>2. CASE ~TagAt(OpenTag, s, 1) BY <1>1, <1>4, <2>1, <3>2, DropIs DEF Turn, Stripper
    <3> QED BY <3>1, <3>2
  <2>3. Len(s) < 3 BY <2>2, CharsIs DEF MayOpen
  <2>4. PlacesOf(OpenTag, s) = {}
    <3> SUFFICES ASSUME NEW i \in PlacesOf(OpenTag, s) PROVE FALSE OBVIOUS
    <3>1. i \in 1..Len(s) /\ TagAt(OpenTag, s, i) BY <1>1, LenProperties DEF PlacesOf, ModelText
    <3>2. i + 2 <= Len(s) BY <1>1, <3>1, TagIs
    <3> QED BY <2>1, <2>3, <3>1, <3>2
  <2>5. Outside(s) = s BY <1>1, <2>4, NoOpens
  <2> QED BY <1>1, <1>4, <2>5 DEF Rest, Finish
<1> QED BY <1>2, <1>3, <1>4

\* What defines the loop.
LoopedOf(st, f) == IF Settled(st) THEN st ELSE f[Turn(st)]

LEMMA TurnTakes ==
    ASSUME NEW st \in Strippers, ~Settled(st)
    PROVE  /\ Turn(st) \in Strippers /\ BufferSize[Turn(st)] < BufferSize[st]
           /\ \A r \in ModelText : Reads(Turn(st), r) = Reads(st, r)
BY TurnIs DEF Settled, TurnKeeps, BufferSize

LEMMA LoopedIs ==
    \A st \in Strippers : Looped[st] = LoopedOf(st, Looped) /\ Looped[st] \in Strippers
<1> DEFINE W == [Strippers -> Strippers]
           rec(f) == f = [st \in Strippers |-> LoopedOf(st, f)]
           g == [p \in Strippers \X W |-> LoopedOf(p[1], p[2])]
<1>1. ASSUME NEW st \in Strippers, NEW f, \A u \in Strippers : BufferSize[u] < BufferSize[st] => f[u] \in Strippers
      PROVE  LoopedOf(st, f) \in Strippers
  BY <1>1, TurnTakes DEF LoopedOf
<1>2. ASSUME NEW st \in Strippers, NEW f, NEW h, \A u \in Strippers : BufferSize[u] < BufferSize[st] => f[u] = h[u]
      PROVE  LoopedOf(st, f) = LoopedOf(st, h)
  BY <1>2, TurnTakes DEF LoopedOf
<1>3. g \in [Strippers \X W -> Strippers] /\ \A st \in Strippers, f \in W : g[<<st, f>>] = LoopedOf(st, f)
  <2>1. \A st \in Strippers, f \in W : LoopedOf(st, f) \in Strippers BY <1>1
  <2> HIDE DEF W
  <2> QED BY <2>1
<1> HIDE DEF g
<1>4. Determined(Strippers, BufferSize, Strippers, g)
  <2> SUFFICES ASSUME NEW st \in Strippers, NEW f \in W, NEW h \in W,
                      \A u \in Strippers : BufferSize[u] < BufferSize[st] => f[u] = h[u]
               PROVE  g[<<st, f>>] = g[<<st, h>>]
    BY DEF Determined
  <2>1. LoopedOf(st, f) = LoopedOf(st, h)
    <3> HIDE DEF W
    <3> QED BY <1>2
  <2> QED BY <1>3, <2>1
<1>5. NewStripper \in Strippers /\ BufferSize \in [Strippers -> Nat]
  BY StripperIs, LenProperties DEF BufferSize, ModelText, NewStripper, Stripper, Strippers
<1>6. PICK f \in W : \A st \in Strippers : f[st] = g[<<st, f>>]
  <2>1. Solved(Strippers, Strippers, g) BY <1>3, <1>4, <1>5, Recursed
  <2> QED BY <2>1 DEF Solved
<1>7. \A st \in Strippers : f[st] = LoopedOf(st, f) BY <1>3, <1>6
<1>8. rec(f)
  <2>1. f = [st \in Strippers |-> f[st]] BY <1>6
  <2> HIDE DEF W
  <2> QED BY <1>7, <2>1
<1>9. rec(CHOOSE c : rec(c)) BY <1>8
<1>10. Looped = CHOOSE c : rec(c) BY DEF Looped, LoopedOf
<1>11. Looped = [st \in Strippers |-> LoopedOf(st, Looped)] BY <1>9, <1>10
<1> HIDE DEF rec
<1>12. \A st \in Strippers : Looped[st] = LoopedOf(st, Looped) BY <1>11
<1> DEFINE P == {st \in Strippers : Looped[st] \in Strippers}
<1>13. ASSUME NEW st \in Strippers, \A u \in Strippers : BufferSize[u] < BufferSize[st] => u \in P PROVE st \in P
  BY <1>1, <1>12, <1>13
<1> HIDE DEF P
<1>14. \A st \in Strippers : st \in P BY <1>5, <1>13, UpBySize
<1> QED BY <1>12, <1>14 DEF P


\* What a stripper is fed is read as if it had been in its buffer, and it is settled.
LEMMA LoopedTells ==
    \A st \in Strippers : /\ Looped[st] \in Strippers /\ Settled(Looped[st])
                          /\ \A r \in ModelText : Reads(Looped[st], r) = Reads(st, r)
<1> DEFINE Fine(st) == /\ Settled(Looped[st])
                       /\ \A r \in ModelText : Reads(Looped[st], r) = Reads(st, r)
           P == {st \in Strippers : Fine(st)}
<1>1. ASSUME NEW st \in Strippers,
             \A u \in Strippers : BufferSize[u] < BufferSize[st] => u \in P
      PROVE  st \in P
  <2>1. Looped[st] = LoopedOf(st, Looped) BY LoopedIs
  <2>2. CASE Settled(st) BY <2>1, <2>2 DEF LoopedOf
  <2>3. CASE ~Settled(st) BY <1>1, <2>1, <2>3, TurnTakes DEF LoopedOf
  <2> QED BY <2>2, <2>3
<1> HIDE DEF P
<1>2. BufferSize \in [Strippers -> Nat] BY StripperIs, LenProperties DEF BufferSize, ModelText
<1>3. \A st \in Strippers : st \in P BY <1>1, <1>2, UpBySize
<1> QED BY <1>3, LoopedIs DEF P

LEMMA FeedIs ==
    ASSUME NEW st \in Strippers, NEW text \in ModelText
    PROVE  /\ Feed(st, text) \in Strippers /\ Settled(Feed(st, text))
           /\ \A r \in ModelText : Reads(Feed(st, text), r) = Rest(st.inside, st.buffer \o (text \o r))
<1> DEFINE b == st.buffer \o text
           begun == Stripper(st.inside, b, <<>>)
<1>1. st.inside \in BOOLEAN /\ st.buffer \in ModelText /\ b \in ModelText /\ <<>> \in ModelText
  BY StripperIs, Joined DEF ModelText
<1>2. begun \in Strippers /\ begun.inside = st.inside /\ begun.buffer = b /\ begun.out = <<>>
  <2> HIDE DEF b
  <2> QED BY <1>1 DEF Stripper, Strippers
<1>3. ASSUME NEW r \in ModelText PROVE Reads(begun, r) = Rest(st.inside, st.buffer \o (text \o r))
  <2>1. b \o r = st.buffer \o (text \o r) BY <1>1, JoinedOn
  <2>2. b \o r \in ModelText BY <1>1, Joined
  <2> HIDE DEF b
  <2>3. Rest(st.inside, b \o r) \in ModelText BY <2>2, ReadIs DEF Rest
  <2>4. <<>> \o Rest(st.inside, b \o r) = Rest(st.inside, b \o r)
    BY <2>3, ConcatEmptySeq DEF ModelText
  <2>5. Reads(begun, r) = <<>> \o Rest(st.inside, b \o r) BY <1>2 DEF Reads
  <2> QED BY <2>1, <2>4, <2>5
<1>4. Feed(st, text) = Looped[begun] BY DEF Feed
<1> HIDE DEF begun
<1> QED BY <1>2, <1>3, <1>4, LoopedTells

-----------------------------------------------------------------------------
(* What the reader of a stream has.                                         *)

\* What was shown and is still to come of what was given.
Follows(shown, st, given) ==
    /\ st \in Strippers /\ Settled(st) /\ shown \in ModelText /\ given \in ModelText
    /\ \A r \in ModelText : shown \o Rest(st.inside, st.buffer \o r) = Outside(given \o r)

LEMMA FollowsOn ==
    ASSUME NEW shown, NEW st, NEW given, Follows(shown, st, given), NEW text \in ModelText
    PROVE  /\ Follows(shown \o Feed(st, text).out, Feed(st, text), given \o text)
           /\ Feed(st, text).out \in ModelText
<1> DEFINE fed == Feed(st, text)
<1>1. st \in Strippers /\ shown \in ModelText /\ given \in ModelText BY DEF Follows
<1>2. /\ fed \in Strippers /\ Settled(fed)
      /\ \A r \in ModelText : Reads(fed, r) = Rest(st.inside, st.buffer \o (text \o r))
  BY <1>1, FeedIs
<1> HIDE DEF fed
<1>3. fed.out \in ModelText /\ fed.buffer \in ModelText /\ fed.inside \in BOOLEAN
  BY <1>2, StripperIs
<1>4. shown \o fed.out \in ModelText /\ given \o text \in ModelText BY <1>1, <1>3, Joined
<1>5. ASSUME NEW r \in ModelText
      PROVE  (shown \o fed.out) \o Rest(fed.inside, fed.buffer \o r) = Outside((given \o text) \o r)
  <2> DEFINE left == Rest(fed.inside, fed.buffer \o r)
  <2>1. left \in ModelText BY <1>3, Joined, ReadIs DEF Rest
  <2>2. Reads(fed, r) = fed.out \o left BY DEF Reads
  <2> HIDE DEF left
  <2>3. (shown \o fed.out) \o left = shown \o (fed.out \o left)
    <3>1. shown \in ModelText /\ fed.out \in ModelText /\ left \in ModelText BY <1>1, <1>3, <2>1
    <3> QED BY <3>1, JoinedOn
  <2>4. text \o r \in ModelText BY Joined
  <2>5. shown \o Rest(st.inside, st.buffer \o (text \o r)) = Outside(given \o (text \o r))
    BY <2>4 DEF Follows
  <2>6. given \o (text \o r) = (given \o text) \o r BY <1>1, JoinedOn
  <2> QED BY <1>2, <2>2, <2>3, <2>5, <2>6 DEF left
<1> QED BY <1>2, <1>3, <1>4, <1>5 DEF Follows, fed

\* With what is held at the end, all that is outside was shown.
LEMMA FollowsEnds ==
    ASSUME NEW shown, NEW st, NEW given, Follows(shown, st, given)
    PROVE  shown \o Finish(st) = Outside(given) /\ Finish(st) \in ModelText
<1>1. st \in Strippers /\ Settled(st) /\ shown \in ModelText /\ given \in ModelText /\ <<>> \in ModelText
  BY DEF Follows, ModelText
<1>2. shown \o Rest(st.inside, st.buffer \o <<>>) = Outside(given \o <<>>) BY <1>1 DEF Follows
<1>3. st.buffer \o <<>> = st.buffer /\ given \o <<>> = given
  BY <1>1, StripperIs, ConcatEmptySeq DEF ModelText
<1> QED BY <1>1, <1>2, <1>3, SettledIs

\* Of the provider's stripper comes what the client's is fed.
StreamTold(told) == Follows(told, inner, received) /\ Follows(read, outer, told)
StreamInv ==
    /\ received \in ModelText /\ pieces \in Nat
    /\ ~over => \E told \in ModelText : StreamTold(told)
    /\ pieces = 0 /\ ~over => received = <<>> /\ read = <<>>
    /\ over => read = Outside(Outside(received))

LEMMA NothingRead ==
    Outside(<<>>) = <<>> /\ <<>> \in ModelText /\ Follows(<<>>, NewStripper, <<>>)
<1>1. <<>> \in ModelText BY DEF ModelText
<1>2. Outside(<<>>) = <<>> BY <1>1, ReadIs
<1>3. /\ NewStripper \in Strippers /\ NewStripper.buffer = <<>> /\ NewStripper.inside = FALSE
  BY <1>1 DEF NewStripper, Stripper, Strippers
<1>4. Settled(NewStripper) BY <1>3 DEF Settled
<1>5. ASSUME NEW r \in ModelText
      PROVE  <<>> \o Rest(FALSE, <<>> \o r) = Outside(<<>> \o r)
  BY ConcatEmptySeq, ReadIs DEF ModelText, Rest
<1> QED BY <1>1, <1>2, <1>3, <1>4, <1>5 DEF Follows

LEMMA StreamInvInit == ThinkingInit => StreamInv
<1> SUFFICES ASSUME ThinkingInit PROVE StreamInv OBVIOUS
<1>1. received = <<>> /\ read = <<>> /\ over = FALSE /\ inner = NewStripper /\ outer = NewStripper
      /\ pieces = 0
  BY DEF ThinkingInit
<1>2. StreamTold(<<>>) /\ <<>> \in ModelText BY <1>1, NothingRead DEF StreamTold
<1> QED BY <1>1, <1>2 DEF StreamInv

LEMMA DeltaKeeps ==
    ASSUME StreamInv, NEW text \in ModelText, StreamDelta(text)
    PROVE  StreamInv'
<1> DEFINE first == Feed(inner, text)
           second == Feed(outer, first.out)
<1>1. /\ inner' = first /\ outer' = second /\ read' = read \o second.out
      /\ received' = received \o text /\ ~over /\ over' = over /\ pieces' = pieces + 1
      /\ pieces < MaxDeltas
  BY DEF StreamDelta
<1>2. PICK told \in ModelText : StreamTold(told) BY <1>1 DEF StreamInv
<1>3. /\ Follows(told \o first.out, first, received \o text) /\ first.out \in ModelText
  BY <1>2, FollowsOn DEF StreamTold
<1> HIDE DEF first
<1>4. Follows(read \o second.out, second, told \o first.out)
  BY <1>2, <1>3, FollowsOn DEF StreamTold
<1> HIDE DEF second
<1>5. told \o first.out \in ModelText /\ received \o text \in ModelText BY <1>3 DEF Follows
<1>6. Follows(told \o first.out, inner', received') /\ Follows(read', outer', told \o first.out)
  BY <1>1, <1>3, <1>4
<1>7. \E t \in ModelText : Follows(t, inner', received') /\ Follows(read', outer', t)
  BY <1>5, <1>6
<1>8. pieces' \in Nat /\ pieces' # 0 BY <1>1 DEF StreamInv
<1> QED BY <1>1, <1>5, <1>7, <1>8 DEF StreamInv, StreamTold

LEMMA EndKeeps ==
    ASSUME StreamInv, EndOfStream
    PROVE  StreamInv'
<1> DEFINE tail == Finish(inner)
           last == Feed(outer, tail)
<1>1. /\ read' = read \o last.out \o Finish(last) /\ over' = TRUE /\ ~over
      /\ received' = received /\ pieces' = pieces
  BY DEF EndOfStream
<1>2. PICK told \in ModelText : StreamTold(told) BY <1>1 DEF StreamInv
<1>3. told \o tail = Outside(received) /\ tail \in ModelText BY <1>2, FollowsEnds DEF StreamTold
<1> HIDE DEF tail
<1>4. Follows(read \o last.out, last, told \o tail) BY <1>2, <1>3, FollowsOn DEF StreamTold
<1> HIDE DEF last
<1>5. read' = Outside(Outside(received)) BY <1>1, <1>3, <1>4, FollowsEnds
<1> QED BY <1>1, <1>5 DEF StreamInv

-----------------------------------------------------------------------------
(* What a whole reply reads as.                                             *)

\* A character before a text.
LEMMA Lead ==
    ASSUME NEW c, <<c>> \in ModelText, NEW y \in ModelText
    PROVE  LET x == <<c>> \o y
           IN  /\ x \in ModelText /\ x # <<>> /\ Len(x) = Len(y) + 1 /\ x[1] = c /\ Drop(x, 1) = y
               /\ Len(y) \in Nat /\ \A i \in 1..Len(y) : x[1 + i] = y[i]
<1> DEFINE l == <<c>>
           x == l \o y
<1>1. l \in ModelText /\ Len(l) = 1 /\ l[1] = c /\ Len(y) \in Nat BY LenProperties DEF ModelText
<1> HIDE DEF l
<1>2. /\ x \in ModelText /\ Len(x) = 1 + Len(y)
      /\ \A i \in 1..(1 + Len(y)) : x[i] = IF i <= 1 THEN l[i] ELSE y[i - 1]
  <2>1. /\ x \in ModelText /\ Len(x) = Len(l) + Len(y)
        /\ \A i \in 1..(Len(l) + Len(y)) : x[i] = IF i <= Len(l) THEN l[i] ELSE y[i - Len(l)]
    BY <1>1, ConcatProperties DEF ModelText
  <2> HIDE DEF x
  <2> QED BY <1>1, <2>1
<1>3. x[1] = c BY <1>1, <1>2
<1>4. \A i \in 1..Len(y) : x[1 + i] = y[i]
  <2> TAKE i \in 1..Len(y)
  <2>1. 1 + i \in 1..(1 + Len(y)) /\ ~(1 + i <= 1) /\ (1 + i) - 1 = i BY <1>1
  <2> HIDE DEF x
  <2> QED BY <1>2, <2>1
<1>5. Drop(x, 1) = y
  <2>1. 1 \in 0..Len(l) BY <1>1
  <2>2. Drop(x, 1) = Drop(l, 1) \o y BY <1>1, <2>1, DropOfJoined
  <2>3. Drop(l, 1) = <<>> BY <1>1, DropEnds
  <2> QED BY <2>2, <2>3, ConcatEmptySeq DEF ModelText
<1>6. x # <<>> /\ Len(x) = Len(y) + 1
  <2> HIDE DEF x
  <2> QED BY <1>1, <1>2, EmptySeq
<1> QED BY <1>1, <1>2, <1>3, <1>4, <1>5, <1>6 DEF l

\* The marks of a text, told by its first character.
LEMMA MarksFirst ==
    ASSUME NEW c, <<c>> \in ModelText, NEW y \in ModelText
    PROVE  Marks[<<c>> \o y] = IF c \in Blanks THEN Marks[y] ELSE <<c>> \o Marks[y]
<1> DEFINE x == <<c>> \o y
<1>1. x \in ModelText /\ x # <<>> /\ x[1] = c /\ Drop(x, 1) = y BY Lead
<1> HIDE DEF x
<1>2. Marks[x] = MarksOf(x, Marks) BY <1>1, MarksIs
<1> QED BY <1>1, <1>2 DEF MarksOf, x

LEMMA MarksJoined ==
    ASSUME NEW y \in ModelText
    PROVE  \A x \in ModelText : Marks[x \o y] = Marks[x] \o Marks[y]
<1>0. Marks[y] \in ModelText /\ Marks[<<>>] = <<>> /\ <<>> \in ModelText
  <2>1. <<>> \in ModelText BY DEF ModelText
  <2> QED BY <2>1, MarksIs DEF MarksOf
<1> DEFINE P == {x \in ModelText : Marks[x \o y] = Marks[x] \o Marks[y]}
<1>1. ASSUME NEW x \in ModelText, \A u \in ModelText : Length[u] < Length[x] => u \in P PROVE x \in P
  <2>1. CASE x = <<>> BY <1>0, <2>1, ConcatEmptySeq DEF ModelText
  <2>2. CASE x # <<>>
    <3> DEFINE c == x[1]
               d == Drop(x, 1)
    <3>1. <<c>> \in ModelText /\ d \in ModelText /\ d \in P /\ x = <<c>> \o d
      BY <1>1, <2>2, FirstOf, FirstAndRest DEF Shorter
    <3> HIDE DEF c, d
    <3>2. Marks[d \o y] = Marks[d] \o Marks[y] /\ Marks[d] \in ModelText BY <3>1, MarksIs
    <3>3. x \o y = <<c>> \o (d \o y) /\ d \o y \in ModelText BY <3>1, JoinedOn, Joined
    <3>4. Marks[x \o y] = IF c \in Blanks THEN Marks[d \o y] ELSE <<c>> \o Marks[d \o y]
      BY <3>1, <3>3, MarksFirst
    <3>5. Marks[x] = IF c \in Blanks THEN Marks[d] ELSE <<c>> \o Marks[d] BY <3>1, MarksFirst
    <3>6. (<<c>> \o Marks[d]) \o Marks[y] = <<c>> \o (Marks[d] \o Marks[y])
      <4>1. <<c>> \in ModelText /\ Marks[d] \in ModelText /\ Marks[y] \in ModelText
        BY <1>0, <3>1, <3>2
      <4> QED BY <4>1, JoinedOn
    <3>7. CASE c \in Blanks BY <3>2, <3>4, <3>5, <3>7
    <3>8. CASE c \notin Blanks BY <3>2, <3>4, <3>5, <3>6, <3>8
    <3> QED BY <3>7, <3>8
  <2> QED BY <2>1, <2>2
<1> HIDE DEF P
<1>2. \A x \in ModelText : x \in P BY <1>1, LengthIs, UpBySize
<1> QED BY <1>2 DEF P

\* Blanks have no marks.
LEMMA BlanksOnly ==
    \A x \in ModelText : (\A i \in 1..Len(x) : x[i] \in Blanks) => Marks[x] = <<>>
<1> DEFINE P == {x \in ModelText : (\A i \in 1..Len(x) : x[i] \in Blanks) => Marks[x] = <<>>}
<1>1. ASSUME NEW x \in ModelText, \A u \in ModelText : Length[u] < Length[x] => u \in P PROVE x \in P
  <2> SUFFICES ASSUME \A i \in 1..Len(x) : x[i] \in Blanks PROVE Marks[x] = <<>> OBVIOUS
  <2>1. CASE x = <<>> BY <2>1, MarksIs DEF MarksOf
  <2>2. CASE x # <<>>
    <3> DEFINE d == Drop(x, 1)
    <3>1. Len(x) \in Nat \ {0} /\ d \in ModelText /\ d \in P BY <1>1, <2>2, FirstOf DEF Shorter
    <3>2. 1 \in 0..Len(x) /\ 1 \in 1..Len(x) /\ \A i \in 1..(Len(x) - 1) : 1 + i \in 1..Len(x)
      BY <3>1
    <3>3. Len(d) = Len(x) - 1 /\ \A i \in 1..(Len(x) - 1) : d[i] = x[1 + i] BY <3>2, DropIs
    <3>4. \A i \in 1..Len(d) : d[i] \in Blanks BY <3>2, <3>3
    <3>5. Marks[d] = <<>> BY <3>1, <3>4
    <3> HIDE DEF d
    <3> QED BY <2>2, <3>2, <3>5, MarksIs DEF MarksOf, d
  <2> QED BY <2>1, <2>2
<1> HIDE DEF P
<1>2. \A x \in ModelText : x \in P BY <1>1, LengthIs, UpBySize
<1> QED BY <1>2 DEF P

\* Taking the blanks off the ends of a text leaves its marks.
LEMMA MarksOfStripped ==
    ASSUME NEW s \in ModelText
    PROVE  Marks[StripReasoning(s)] = Marks[Sub[s]]
<1> DEFINE c == Sub[s]
           marks == {i \in DOMAIN c : c[i] \notin Blanks}
           a == Min(marks)
           b == Max(marks)
<1>1. c \in ModelText BY SubIs
<1>2. StripReasoning(s) = IF marks = {} THEN <<>> ELSE SubSeq(c, a, b) BY DEF StripReasoning
<1> HIDE DEF c
<1>3. Len(c) \in Nat BY <1>1, LenProperties DEF ModelText
<1>4. /\ marks \in SUBSET (1..Len(c)) /\ marks \in SUBSET Nat
      /\ \A i \in 1..Len(c) : i \notin marks => c[i] \in Blanks
  BY <1>1, <1>3, LenProperties DEF ModelText
<1>5. CASE marks = {}
  <2>1. \A i \in 1..Len(c) : c[i] \in Blanks BY <1>4, <1>5
  <2>2. Marks[c] = <<>> BY <1>1, <2>1, BlanksOnly
  <2>3. <<>> \in ModelText /\ Marks[<<>>] = <<>>
    <3>1. <<>> \in ModelText BY DEF ModelText
    <3> QED BY <3>1, MarksIs DEF MarksOf
  <2> QED BY <1>2, <1>5, <2>2, <2>3 DEF c
<1>6. CASE marks # {}
  <2> HIDE DEF marks
  <2>1. a \in marks /\ b \in marks /\ \A i \in marks : a <= i /\ i <= b
    BY <1>3, <1>4, <1>6, LeastOf, MaxOfSome
  <2> HIDE DEF a, b
  <2>2. a \in 1..Len(c) /\ b \in 1..Len(c) /\ a <= b BY <1>4, <2>1
  <2> DEFINE x == SubSeq(c, 1, a - 1)
             y == SubSeq(c, a, b)
             z == SubSeq(c, b + 1, Len(c))
  <2>3. \A i \in 1..Len(c) : c[i] \in STRING BY <1>1, ElementOfSeq DEF ModelText
  <2>4. x \in ModelText /\ \A i \in 1..Len(x) : x[i] \in Blanks
    <3>1. \A i \in 1..(a - 1) : i \in 1..Len(c) /\ ~(a <= i) /\ 1 + i - 1 = i BY <1>3, <2>2
    <3>2. 1 \in Int /\ a - 1 \in Int BY <2>2
    <3>3. \A i \in 1..(a - 1) : c[i] \in STRING BY <2>3, <3>1
    <3>4. /\ x \in Seq(STRING) /\ Len(x) = IF 1 <= a - 1 THEN (a - 1) - 1 + 1 ELSE 0
          /\ \A i \in 1..((a - 1) - 1 + 1) : x[i] = c[1 + i - 1]
      BY <3>2, <3>3, SubSeqProperties
    <3> HIDE DEF x
    <3>5. Len(x) = a - 1 /\ (a - 1) - 1 + 1 = a - 1 BY <2>2, <3>4
    <3>6. \A i \in 1..Len(x) : x[i] = c[i] /\ i \notin marks /\ i \in 1..Len(c)
      BY <2>1, <3>1, <3>4, <3>5
    <3> QED BY <1>4, <3>4, <3>6 DEF ModelText
  <2>5. z \in ModelText /\ \A i \in 1..Len(z) : z[i] \in Blanks
    <3>1. b + 1 \in Int /\ Len(c) \in Int BY <1>3, <2>2
    <3>2. \A i \in (b + 1)..Len(c) : c[i] \in STRING BY <2>2, <2>3
    <3>3. /\ z \in Seq(STRING) /\ Len(z) = IF b + 1 <= Len(c) THEN Len(c) - (b + 1) + 1 ELSE 0
          /\ \A i \in 1..(Len(c) - (b + 1) + 1) : z[i] = c[(b + 1) + i - 1]
      BY <3>1, <3>2, SubSeqProperties
    <3> HIDE DEF z
    <3>4. Len(z) = Len(c) - b /\ Len(c) - (b + 1) + 1 = Len(c) - b BY <1>3, <2>2, <3>3
    <3>5. \A i \in 1..Len(z) : (b + 1) + i - 1 \in 1..Len(c) /\ ~((b + 1) + i - 1 <= b)
      BY <1>3, <2>2, <3>4
    <3>6. \A i \in 1..Len(z) : z[i] = c[(b + 1) + i - 1] /\ (b + 1) + i - 1 \notin marks
      BY <2>1, <3>3, <3>4, <3>5
    <3> QED BY <1>4, <3>3, <3>5, <3>6 DEF ModelText
  <2>6. y \in ModelText
    <3>1. a \in Int /\ b \in Int BY <2>2
    <3>2. \A i \in a..b : c[i] \in STRING BY <2>2, <2>3
    <3> QED BY <3>1, <3>2, SubSeqProperties DEF ModelText
  <2>7. c = x \o (y \o z)
    <3>1. y \o z = SubSeq(c, a, Len(c))
      <4>1. a \in 1..(Len(c) + 1) /\ b \in (a - 1)..Len(c) /\ Len(c) \in b..Len(c) BY <1>3, <2>2
      <4> QED BY <1>1, <4>1, ConcatAdjacentSubSeq DEF ModelText
    <3>2. x \o SubSeq(c, (a - 1) + 1, Len(c)) = SubSeq(c, 1, Len(c))
      <4>1. 1 \in 1..(Len(c) + 1) /\ a - 1 \in (1 - 1)..Len(c) /\ Len(c) \in (a - 1)..Len(c)
        BY <1>3, <2>2
      <4> QED BY <1>1, <4>1, ConcatAdjacentSubSeq DEF ModelText
    <3>3. (a - 1) + 1 = a BY <2>2
    <3>4. SubSeq(c, 1, Len(c)) = c BY <1>1, SubSeqFull DEF ModelText
    <3> QED BY <3>1, <3>2, <3>3, <3>4
  <2> HIDE DEF x, y, z
  <2>8. Marks[c] = Marks[x] \o (Marks[y] \o Marks[z])
    <3>1. y \o z \in ModelText BY <2>5, <2>6, Joined
    <3>2. Marks[y \o z] = Marks[y] \o Marks[z] BY <2>5, <2>6, MarksJoined
    <3>3. Marks[x \o (y \o z)] = Marks[x] \o Marks[y \o z] BY <2>4, <3>1, MarksJoined
    <3> QED BY <2>7, <3>2, <3>3
  <2>9. Marks[x] = <<>> /\ Marks[z] = <<>> /\ Marks[y] \in ModelText
    BY <2>4, <2>5, <2>6, BlanksOnly, MarksIs
  <2>10. Marks[c] = Marks[y] BY <2>8, <2>9, ConcatEmptySeq DEF ModelText
  <2>11. StripReasoning(s) = y BY <1>2, <1>6 DEF marks, y, a, b
  <2> QED BY <2>10, <2>11 DEF c
<1> QED BY <1>5, <1>6

\* Blanks before a text leave the marks of what is read of it.
LEMMA SkipBlanks ==
    ASSUME NEW s \in ModelText, NEW k \in 0..Len(s), \A i \in 1..k : s[i] \in Blanks
    PROVE  Marks[Outside(s)] = Marks[Outside(Drop(s, k))]
<1>0. Len(s) \in Nat BY LenProperties DEF ModelText
<1> DEFINE P == {n \in Nat : n <= k => Marks[Outside(s)] = Marks[Outside(Drop(s, n))]}
<1>1. ASSUME NEW n \in Nat, \A m \in Nat : m < n => m \in P PROVE n \in P
  <2> SUFFICES ASSUME n <= k PROVE Marks[Outside(s)] = Marks[Outside(Drop(s, n))] OBVIOUS
  <2>1. CASE n = 0 BY <2>1, DropEnds
  <2>2. CASE n # 0
    <3> DEFINE d == Drop(s, n - 1)
               y == Outside(Drop(d, 1))
    <3>1. n - 1 \in Nat /\ n - 1 < n /\ n - 1 <= k /\ n - 1 \in 0..Len(s) /\ n \in 1..k
          /\ 1 \in 1..(Len(s) - (n - 1)) /\ (n - 1) + 1 = n /\ 1 \in 0..(Len(s) - (n - 1))
      BY <1>0, <2>2
    <3>2. n - 1 \in P BY <1>1, <3>1
    <3>3. Marks[Outside(s)] = Marks[Outside(d)] BY <3>1, <3>2
    <3>4. d \in ModelText /\ d # <<>> /\ d[1] = s[n] /\ 1 \in 1..Len(d)
      BY <3>1, DropIs, TagInDrop
    <3>5. Drop(d, 1) = Drop(s, n) BY <3>1, DropOfDrop
    <3> HIDE DEF d
    <3>6. d[1] \in Blanks BY <3>1, <3>4
    <3>7. ~TagAt(OpenTag, d, 1) BY <3>4, <3>6, TagIs DEF Blanks
    <3>8. Outside(d) = <<d[1]>> \o y BY <3>4, <3>7, ReadIs
    <3>9. <<d[1]>> \in ModelText /\ y \in ModelText BY <3>4, FirstOf, ReadIs DEF Shorter
    <3> HIDE DEF y
    <3>10. Marks[Outside(d)] = Marks[y] BY <3>6, <3>8, <3>9, MarksFirst
    <3> QED BY <3>3, <3>5, <3>10 DEF y
  <2> QED BY <2>1, <2>2
<1> HIDE DEF P
<1>2. \A n \in Nat : n \in P BY <1>1, UpFromZero
<1>3. k \in Nat /\ k <= k BY <1>0
<1>4. k \in P BY <1>2, <1>3
<1> QED BY <1>3, <1>4 DEF P

\* Where an opening tag is followed by a closing one, both readings go on behind them.
LEMMA TakenReads ==
    ASSUME NEW s \in ModelText, s # <<>>, Taken(s)
    PROVE  Marks[Outside(s)] = Marks[Outside(Drop(s, OnOf(s) - 1))]
<1> DEFINE C == ClosesOf(s)
           m == Min(C)
           d == Drop(s, 3)
           u == Drop(s, m + 3)
           k == OnOf(s) - AfterOf(s)
<1>1. TagAt(OpenTag, s, 1) /\ C # {} /\ Len(s) \in Nat \ {0} /\ 1 \in 1..Len(s)
  BY FirstOf DEF Taken
<1>2. /\ m \in C /\ \A j \in C : m <= j
      /\ AfterOf(s) \in 8..(Len(s) + 1) /\ AfterOf(s) = m + 4
      /\ OnOf(s) \in AfterOf(s)..(Len(s) + 1)
      /\ \A i \in AfterOf(s)..(OnOf(s) - 1) : s[i] \in Blanks
  BY <1>1, TakenIs
<1>3. \A j : j \in C <=> j \in 1..Len(s) /\ TagAt(CloseTag, s, j) /\ 3 < j
  BY LenProperties, CharsIs DEF ClosesOf, PlacesOf, ModelText
<1> HIDE DEF C
<1>4. m \in 1..Len(s) /\ 3 < m /\ TagAt(CloseTag, s, m) BY <1>2, <1>3
<1>5. m + 3 \in 0..Len(s) /\ 3 \in 0..Len(s)
  <2>1. m + 3 <= Len(s) BY <1>4, TagIs
  <2> HIDE DEF m
  <2> QED BY <1>1, <1>4, <2>1
<1> HIDE DEF m
<1>6. Outside(s) = Inside(d) BY <1>1, CharsIs, ReadIs
<1>7. d \in ModelText /\ Len(d) = Len(s) - 3 BY <1>5, DropIs
<1>8. m - 3 \in 1..Len(d) /\ m - 3 \in 1..(Len(s) - 3) /\ 3 + (m - 3) = m BY <1>1, <1>4, <1>7
<1>9. TagAt(CloseTag, d, m - 3) BY <1>4, <1>5, <1>8, TagInDrop
<1>10. \A i \in 1..(m - 3 - 1) : ~TagAt(CloseTag, d, i)
  <2> TAKE i \in 1..(m - 3 - 1)
  <2>1. i \in 1..(Len(s) - 3) /\ 3 + i \in 1..Len(s) /\ 3 < 3 + i /\ ~(m <= 3 + i)
    BY <1>1, <1>4, <1>8
  <2>2. TagAt(CloseTag, d, i) <=> TagAt(CloseTag, s, 3 + i) BY <1>5, <2>1, TagInDrop
  <2>3. ~TagAt(CloseTag, s, 3 + i) BY <1>2, <1>3, <2>1
  <2> QED BY <2>2, <2>3
<1>11. Drop(d, m - 3 + 3) = u BY <1>1, <1>4, <1>5, DropOfDrop
<1> HIDE DEF d
<1>12. Inside(d) = Outside(u) BY <1>7, <1>8, <1>9, <1>10, <1>11, CloseOf
<1>13. u \in ModelText /\ Len(u) = Len(s) - (m + 3) /\ \A i \in 1..(Len(s) - (m + 3)) : u[i] = s[(m + 3) + i]
  BY <1>5, DropIs
<1>14. k \in 0..Len(u) /\ k \in 0..(Len(s) - (m + 3)) /\ (m + 3) + k = OnOf(s) - 1
  <2> DEFINE on == OnOf(s)
             after == AfterOf(s)
  <2>1. m \in Nat /\ after = m + 4 /\ on \in after..(Len(s) + 1) /\ Len(u) = Len(s) - (m + 3)
    BY <1>2, <1>4, <1>13
  <2> HIDE DEF on, after, u
  <2> QED BY <1>1, <2>1 DEF on, after
<1>15. ASSUME NEW i \in 1..k PROVE u[i] \in Blanks
  <2>1. i \in 1..(Len(s) - (m + 3)) /\ (m + 3) + i \in AfterOf(s)..(OnOf(s) - 1)
    BY <1>2, <1>4, <1>14
  <2> QED BY <1>2, <1>13, <2>1
<1>16. Drop(u, k) = Drop(s, OnOf(s) - 1) BY <1>5, <1>14, DropOfDrop
<1> HIDE DEF u, k
<1>17. Marks[Outside(u)] = Marks[Outside(Drop(u, k))] BY <1>13, <1>14, <1>15, SkipBlanks
<1> QED BY <1>6, <1>12, <1>16, <1>17

\* An opening tag that is not closed stays in what the pattern leaves.
LEMMA OpenStays ==
    ASSUME NEW s \in ModelText, s # <<>>, TagAt(OpenTag, s, 1), ~Taken(s)
    PROVE  PlacesOf(OpenTag, Sub[s]) # {}
<1> DEFINE d == Drop(s, 1)
           e == Drop(d, 1)
           w == Sub[Drop(e, 1)]
           x == <<s[1]>> \o (<<d[1]>> \o (<<e[1]>> \o w))
<1>1. Len(s) \in Nat /\ 1 + 2 <= Len(s) /\ 1 \in 1..Len(s)
      /\ s[1] = "<" /\ s[1 + 1] = "t" /\ s[1 + 2] = ">"
  BY FirstOf, TagIs
<1>2. d \in ModelText /\ Len(d) = Len(s) - 1 /\ d[1] = s[1 + 1] /\ d[1 + 1] = s[1 + 2]
  <2>1. 1 \in 0..Len(s) /\ 1 \in 1..(Len(s) - 1) /\ 1 + 1 \in 1..(Len(s) - 1) /\ 1 + (1 + 1) = 1 + 2
    BY <1>1
  <2> QED BY <2>1, DropIs
<1> HIDE DEF d
<1>3. e \in ModelText /\ Len(e) = Len(d) - 1 /\ e[1] = d[1 + 1]
  <2>1. 1 \in 0..Len(d) /\ 1 \in 1..(Len(d) - 1) BY <1>1, <1>2
  <2> QED BY <1>2, <2>1, DropIs
<1> HIDE DEF e
<1>4. d # <<>> /\ e # <<>> /\ 1 \in 1..Len(d) /\ 1 \in 1..Len(e) BY <1>1, <1>2, <1>3, EmptySeq
<1>5. ~Taken(d) /\ ~Taken(e) BY <1>1, <1>2, <1>3, <1>4, TagIs DEF Taken
<1>6. Drop(e, 1) \in ModelText BY <1>3, <1>4, FirstOf DEF Shorter
<1>7. w \in ModelText /\ <<s[1]>> \in ModelText /\ <<d[1]>> \in ModelText /\ <<e[1]>> \in ModelText
  BY <1>2, <1>3, <1>4, <1>6, SubIs, FirstOf
<1>8. Sub[s] = <<s[1]>> \o Sub[d] /\ Sub[d] = <<d[1]>> \o Sub[e] /\ Sub[e] = <<e[1]>> \o w
  BY <1>2, <1>3, <1>4, <1>5, SubIs DEF SubOf, d, e
<1>9. Sub[s] = x BY <1>8
<1> HIDE DEF w
<1> DEFINE x1 == <<e[1]>> \o w
           x2 == <<d[1]>> \o x1
<1>10. x1 \in ModelText /\ x1[1] = e[1] /\ Len(x1) = Len(w) + 1 /\ Len(w) \in Nat BY <1>7, Lead
<1> HIDE DEF x1
<1>11. x2 \in ModelText /\ x2[1] = d[1] /\ x2[1 + 1] = e[1] /\ Len(x2) = Len(w) + 1 + 1
  BY <1>7, <1>10, Lead
<1>12. x = <<s[1]>> \o x2 BY DEF x1
<1> HIDE DEF x2, x
<1>13. x \in ModelText /\ x[1] = s[1] /\ x[1 + 1] = d[1] /\ x[1 + 2] = e[1] /\ Len(x) = Len(w) + 1 + 1 + 1
  BY <1>7, <1>10, <1>11, <1>12, Lead
<1>14. 1 \in 1..Len(x) /\ 1 + 2 <= Len(x) BY <1>10, <1>13
<1>15. TagAt(OpenTag, x, 1)
  <2>1. x[1] = "<" /\ x[1 + 1] = "t" /\ x[1 + 2] = ">" BY <1>1, <1>2, <1>3, <1>13
  <2> QED BY <1>13, <1>14, <2>1, TagIs
<1>16. 1 \in DOMAIN x BY <1>13, <1>14, LenProperties DEF ModelText
<1> QED BY <1>9, <1>15, <1>16 DEF PlacesOf

\* What the pattern leaves, if no tag is in it, is what is outside of tags but for blanks.
LEMMA ReadsAlike ==
    \A s \in ModelText : PlacesOf(OpenTag, Sub[s]) = {} => Marks[Outside(s)] = Marks[Sub[s]]
<1> DEFINE Alike(s) == PlacesOf(OpenTag, Sub[s]) = {} => Marks[Outside(s)] = Marks[Sub[s]]
           P == {s \in ModelText : Alike(s)}
<1>1. ASSUME NEW s \in ModelText, \A u \in ModelText : Length[u] < Length[s] => u \in P PROVE s \in P
  <2> SUFFICES ASSUME PlacesOf(OpenTag, Sub[s]) = {} PROVE Marks[Outside(s)] = Marks[Sub[s]]
    OBVIOUS
  <2>1. Sub[s] = SubOf(s, Sub) BY SubIs
  <2>2. CASE s = <<>> BY <2>1, <2>2, ReadIs DEF SubOf
  <2>3. CASE s # <<>> /\ Taken(s)
    <3> DEFINE v == Drop(s, OnOf(s) - 1)
    <3>1. Sub[s] = Sub[v] BY <2>1, <2>3 DEF SubOf
    <3>2. Shorter(v, s) BY <2>3, TakenIs DEF Taken
    <3>3. Marks[Outside(s)] = Marks[Outside(v)] BY <2>3, TakenReads
    <3> HIDE DEF v
    <3>4. v \in P BY <1>1, <3>2 DEF Shorter
    <3>5. Alike(v) BY <3>4
    <3> QED BY <3>1, <3>3, <3>5
  <2>4. CASE s # <<>> /\ ~Taken(s) /\ TagAt(OpenTag, s, 1) BY <2>4, OpenStays
  <2>5. CASE s # <<>> /\ ~Taken(s) /\ ~TagAt(OpenTag, s, 1)
    <3> DEFINE c == s[1]
               d == Drop(s, 1)
               y == Sub[d]
               o == Outside(d)
    <3>1. <<c>> \in ModelText /\ d \in ModelText /\ d \in P BY <1>1, <2>5, FirstOf DEF Shorter
    <3>2. Sub[s] = <<c>> \o y BY <2>1, <2>5 DEF SubOf
    <3>3. Outside(s) = <<c>> \o o BY <2>5, ReadIs
    <3>4. Alike(d) BY <3>1
    <3> HIDE DEF d, c
    <3>5. y \in ModelText /\ o \in ModelText BY <3>1, SubIs, ReadIs
    <3>6. PlacesOf(OpenTag, y) = {}
      <4> DEFINE x == <<c>> \o y
      <4> HIDE DEF y
      <4>1. x \in ModelText /\ Len(x) = Len(y) + 1 /\ Drop(x, 1) = y /\ Len(y) \in Nat
        BY <3>1, <3>5, Lead
      <4>2. PlacesOf(OpenTag, x) = {} BY <3>2
      <4> HIDE DEF x
      <4> SUFFICES ASSUME NEW i \in PlacesOf(OpenTag, y) PROVE FALSE OBVIOUS
      <4>3. i \in 1..Len(y) /\ TagAt(OpenTag, y, i)
        BY <3>5, LenProperties DEF PlacesOf, ModelText
      <4>4. 1 \in 0..Len(x) /\ i \in 1..(Len(x) - 1) /\ 1 + i \in 1..Len(x) BY <4>1, <4>3
      <4>5. TagAt(OpenTag, x, 1 + i) BY <4>1, <4>3, <4>4, TagInDrop
      <4>6. 1 + i \in DOMAIN x BY <4>1, <4>4, LenProperties DEF ModelText
      <4> QED BY <4>2, <4>5, <4>6 DEF PlacesOf
    <3>7. Marks[o] = Marks[y] BY <3>4, <3>6
    <3> HIDE DEF y, o
    <3>8. Marks[<<c>> \o o] = Marks[<<c>> \o y] BY <3>1, <3>5, <3>7, MarksFirst
    <3> QED BY <3>2, <3>3, <3>8
  <2> QED BY <2>2, <2>3, <2>4, <2>5
<1> HIDE DEF P
<1>2. \A s \in ModelText : s \in P BY <1>1, LengthIs, UpBySize
<1> QED BY <1>2 DEF P

\* A reply whose reasoning is closed reads the same streamed and whole.
LEMMA StreamTells ==
    ASSUME StreamInv
    PROVE  OutsideIsRead /\ StreamReadsAsWhole
<1>1. received \in ModelText /\ (over => read = Outside(Outside(received))) BY DEF StreamInv
<1>2. ASSUME over, PlacesOf(OpenTag, Sub[received]) = {}, PlacesOf(OpenTag, Outside(received)) = {}
      PROVE  Marks[read] = Marks[StripReasoning(received)]
  <2>1. Outside(received) \in ModelText BY <1>1, ReadIs
  <2>2. read = Outside(received) BY <1>1, <1>2, <2>1, NoOpens
  <2>3. Marks[Outside(received)] = Marks[Sub[received]] BY <1>1, <1>2, ReadsAlike
  <2>4. Marks[StripReasoning(received)] = Marks[Sub[received]] BY <1>1, MarksOfStripped
  <2> QED BY <2>2, <2>3, <2>4
<1> QED BY <1>1, <1>2 DEF OutsideIsRead, StreamReadsAsWhole

-----------------------------------------------------------------------------
(* The object of a whole reply.                                             *)

\* The braces before a place that are not in strings, and where they first balance.
BracesCounted(r, ch, n) == {i \in Min(Braces(r))..n : r.text[i] = ch /\ ~InString(r, i)}
Balanced(r, n) == Cardinality(BracesCounted(r, "{", n)) = Cardinality(BracesCounted(r, "}", n))
EndsOf(r) == {n \in Min(Braces(r))..Len(r.text) : Balanced(r, n)}

\* What a scan is, and what it makes of a character.
ScanState == [string : BOOLEAN, escaped : BOOLEAN, depth : Int, done : BOOLEAN]
ScanOf(s, first, i, f) == IF i = first - 1 THEN NewScan ELSE Scan(f[i - 1], s[i])
Scans(s, first) == CHOOSE scan : scan = [i \in (first - 1)..Len(s) |-> ScanOf(s, first, i, scan)]

LEMMA ScanIs ==
    ASSUME NEW scan \in ScanState, NEW ch
    PROVE  /\ Scan(scan, ch) \in ScanState
           /\ scan.done => Scan(scan, ch) = scan
           /\ ~scan.done /\ scan.string =>
                /\ ~Scan(scan, ch).done /\ Scan(scan, ch).depth = scan.depth
                /\ Scan(scan, ch).string <=> ~(ch = "quote" /\ ~scan.escaped)
                /\ Scan(scan, ch).escaped <=> ch = "\\" /\ ~scan.escaped
           /\ ~scan.done /\ ~scan.string =>
                /\ Scan(scan, ch).done <=> ch = "}" /\ scan.depth = 1
                /\ Scan(scan, ch).depth = IF ch = "{" THEN scan.depth + 1
                                          ELSE IF ch = "}" THEN scan.depth - 1 ELSE scan.depth
                /\ Scan(scan, ch).string <=> ch = "quote"
                /\ Scan(scan, ch).escaped = scan.escaped
<1>1. CASE scan.done BY <1>1 DEF Scan
<1>2. CASE ~scan.done /\ scan.string
  <2> DEFINE e == Escapes(scan, ch)
             q == ~(ch = "quote" /\ ~scan.escaped)
  <2>1. Scan(scan, ch) = [scan EXCEPT !.escaped = e, !.string = q] BY <1>2 DEF Scan
  <2>2. e \in BOOLEAN /\ q \in BOOLEAN /\ (e <=> ch = "\\" /\ ~scan.escaped) BY DEF Escapes
  <2> HIDE DEF e
  <2> HIDE DEF q
  <2>3. /\ Scan(scan, ch) \in ScanState /\ Scan(scan, ch).done = scan.done
        /\ Scan(scan, ch).depth = scan.depth
        /\ Scan(scan, ch).string = q /\ Scan(scan, ch).escaped = e
    BY <2>1, <2>2 DEF ScanState
  <2> QED BY <1>2, <2>2, <2>3 DEF q
<1>3. CASE ~scan.done /\ ~scan.string
  <2> DEFINE q == (ch = "quote")
             d == IF ch = "{" THEN scan.depth + 1 ELSE IF ch = "}" THEN scan.depth - 1 ELSE scan.depth
             o == (ch = "}" /\ scan.depth = 1)
  <2>1. Scan(scan, ch) = [scan EXCEPT !.string = q, !.depth = d, !.done = o] BY <1>3 DEF Scan
  <2>2. q \in BOOLEAN /\ d \in Int /\ o \in BOOLEAN
    <3>1. scan.depth \in Int BY DEF ScanState
    <3>2. scan.depth + 1 \in Int /\ scan.depth - 1 \in Int BY <3>1
    <3>3. d \in Int BY <3>1, <3>2
    <3> HIDE DEF d
    <3> QED BY <3>3
  <2> HIDE DEF q, d, o
  <2>3. /\ Scan(scan, ch) \in ScanState /\ Scan(scan, ch).done = o
        /\ Scan(scan, ch).depth = d
        /\ Scan(scan, ch).string = q /\ Scan(scan, ch).escaped = scan.escaped
    BY <2>1, <2>2 DEF ScanState
  <2> QED BY <1>3, <2>3 DEF q, d, o
<1> QED BY <1>1, <1>2, <1>3

LEMMA ScansIs ==
    ASSUME NEW s \in ModelText, NEW first \in 1..Len(s)
    PROVE  LET scan == Scans(s, first)
           IN  /\ \A i \in (first - 1)..Len(s) : scan[i] \in ScanState
               /\ scan[first - 1] = NewScan
               /\ \A i \in first..Len(s) : scan[i] = Scan(scan[i - 1], s[i])
<1> DEFINE N == Len(s)
           T == (first - 1)..N
           size == [i \in T |-> i - first + 1]
           V == ScanState
           W == [T -> V]
           rec(f) == f = [i \in T |-> ScanOf(s, first, i, f)]
           g == [p \in T \X W |-> ScanOf(s, first, p[1], p[2])]
<1>1. N \in Nat /\ first \in Nat \ {0} BY LenProperties DEF ModelText
<1>2. size \in [T -> Nat] /\ \A i \in T : i # first - 1 => i - 1 \in T /\ size[i - 1] < size[i]
  <2> HIDE DEF N
  <2> QED BY <1>1
<1>3. NewScan \in V BY DEF NewScan, ScanState
<1> HIDE DEF T, size, V
<1>4. ASSUME NEW i \in T, NEW f, \A u \in T : size[u] < size[i] => f[u] \in V
      PROVE  ScanOf(s, first, i, f) \in V
  <2>1. CASE i = first - 1 BY <1>3, <2>1 DEF ScanOf
  <2>2. CASE i # first - 1 BY <1>2, <1>4, <2>2, ScanIs DEF V, ScanOf
  <2> QED BY <2>1, <2>2
<1>5. ASSUME NEW i \in T, NEW f, NEW h, \A u \in T : size[u] < size[i] => f[u] = h[u]
      PROVE  ScanOf(s, first, i, f) = ScanOf(s, first, i, h)
  BY <1>2, <1>5 DEF ScanOf
<1>6. g \in [T \X W -> V] /\ \A i \in T, f \in W : g[<<i, f>>] = ScanOf(s, first, i, f)
  <2>1. \A i \in T, f \in W : ScanOf(s, first, i, f) \in V BY <1>4
  <2> HIDE DEF W
  <2> QED BY <2>1
<1> HIDE DEF g
<1>7. Determined(T, size, V, g)
  <2> SUFFICES ASSUME NEW i \in T, NEW f \in W, NEW h \in W,
                      \A u \in T : size[u] < size[i] => f[u] = h[u]
               PROVE  g[<<i, f>>] = g[<<i, h>>]
    BY DEF Determined
  <2>1. ScanOf(s, first, i, f) = ScanOf(s, first, i, h)
    <3> HIDE DEF W
    <3> QED BY <1>5
  <2> QED BY <1>6, <2>1
<1>8. PICK f \in W : \A i \in T : f[i] = g[<<i, f>>]
  <2>1. Solved(T, V, g) BY <1>2, <1>3, <1>6, <1>7, Recursed
  <2> QED BY <2>1 DEF Solved
<1>9. \A i \in T : f[i] = ScanOf(s, first, i, f) BY <1>6, <1>8
<1>10. rec(f)
  <2>1. f = [i \in T |-> f[i]] BY <1>8
  <2> HIDE DEF W
  <2> QED BY <1>9, <2>1
<1> DEFINE scan == CHOOSE c : rec(c)
<1>11. rec(scan) BY <1>10
<1>12. Scans(s, first) = scan BY DEF Scans, T
<1> HIDE DEF scan
<1>13. \A i \in T : scan[i] = ScanOf(s, first, i, scan)
  <2>1. scan = [i \in T |-> ScanOf(s, first, i, scan)] BY <1>11
  <2> HIDE DEF rec
  <2> QED BY <2>1
<1> DEFINE P == {i \in T : scan[i] \in V}
<1>14. ASSUME NEW i \in T, \A u \in T : size[u] < size[i] => u \in P PROVE i \in P
  BY <1>4, <1>13, <1>14
<1> HIDE DEF P
<1>15. \A i \in T : i \in P BY <1>2, <1>14, UpBySize
<1>16. first - 1 \in T /\ \A i \in first..Len(s) : i \in T /\ i # first - 1 BY <1>1 DEF T
<1>17. /\ \A i \in (first - 1)..Len(s) : scan[i] \in ScanState
       /\ scan[first - 1] = NewScan
       /\ \A i \in first..Len(s) : scan[i] = Scan(scan[i - 1], s[i])
  BY <1>13, <1>15, <1>16 DEF P, V, T, ScanOf
<1> QED BY <1>12, <1>17

\* One more place is counted or not.
LEMMA CountedOn ==
    ASSUME NEW r, NEW ch, NEW n \in Nat, Min(Braces(r)) \in 1..n
    PROVE  /\ Cardinality(BracesCounted(r, ch, n)) \in Nat
           /\ Cardinality(BracesCounted(r, ch, n)) =
                 IF r.text[n] = ch /\ ~InString(r, n) THEN Cardinality(BracesCounted(r, ch, n - 1)) + 1
                 ELSE Cardinality(BracesCounted(r, ch, n - 1))
<1> DEFINE first == Min(Braces(r))
           C == BracesCounted(r, ch, n)
           B == BracesCounted(r, ch, n - 1)
           in == r.text[n] = ch /\ ~InString(r, n)
<1>1. first \in Nat /\ first..(n - 1) \subseteq 1..n /\ first..n \subseteq 1..n /\ n - 1 \in Int
      /\ n \in first..n /\ n \notin first..(n - 1) /\ \A i : i \in first..n <=> i \in first..(n - 1) \/ i = n
  <2> HIDE DEF first
  <2>1. first \in 1..n BY DEF first
  <2> QED BY <2>1
<1>2. IsFiniteSet(1..n) BY FS_Interval
<1>3. /\ \A i : i \in C <=> i \in first..n /\ r.text[i] = ch /\ ~InString(r, i)
      /\ \A i : i \in B <=> i \in first..(n - 1) /\ r.text[i] = ch /\ ~InString(r, i)
  BY DEF BracesCounted
<1> HIDE DEF first, C, B
<1>4. C \subseteq 1..n /\ B \subseteq 1..n BY <1>1, <1>3
<1>5. IsFiniteSet(C) /\ IsFiniteSet(B) BY <1>2, <1>4, FS_Subset
<1>6. Cardinality(C) \in Nat /\ Cardinality(B) \in Nat BY <1>5, FS_CardinalityType
<1>7. CASE in BY <1>1, <1>3, <1>5, <1>6, <1>7, FS_AddElement DEF C, B
<1>8. CASE ~in BY <1>1, <1>3, <1>6, <1>8 DEF C, B
<1> QED BY <1>7, <1>8

\* Where a scan is: in the string the reply marks, and with as many braces open.
Within(r, n) == \E p \in r.strings : p[1] <= n /\ n < p[2]
Depth(r, n) == Cardinality(BracesCounted(r, "{", n)) - Cardinality(BracesCounted(r, "}", n))
Ended(r, n) == \E m \in Min(Braces(r))..n : Balanced(r, m)
ScanTells(r, n, scan) ==
    /\ scan.done <=> Ended(r, n)
    /\ ~scan.done => /\ scan.depth = Depth(r, n)
                     /\ scan.string <=> Within(r, n)
                     /\ scan.escaped <=> Within(r, n) /\ n + 1 \in r.escaped
                     /\ Min(Braces(r)) <= n => scan.depth >= 1

\* What the marks of a reply say of the next place.
LEMMA NextPlace ==
    ASSUME NEW r, IsReply(r), NEW n \in 1..Len(r.text), Min(Braces(r)) <= n,
           Min(Braces(r)) \in Braces(r), \A b \in Braces(r) : Min(Braces(r)) <= b
    PROVE  /\ Within(r, n - 1) =>
                /\ InString(r, n)
                /\ Within(r, n) <=> ~(r.text[n] = "quote" /\ n \notin r.escaped)
                /\ Within(r, n) => (n + 1 \in r.escaped <=> r.text[n] = "\\" /\ n \notin r.escaped)
           /\ ~Within(r, n - 1) =>
                /\ Within(r, n) <=> r.text[n] = "quote"
                /\ InString(r, n) <=> r.text[n] = "quote"
                /\ Within(r, n) => n + 1 \notin r.escaped
           /\ n = Min(Braces(r)) => r.text[n] = "{" /\ ~Within(r, n - 1) /\ ~InString(r, n)
<1> DEFINE first == Min(Braces(r))
           S == r.strings
<1>0. n \in Nat \ {0} /\ Len(r.text) \in Nat BY LenProperties DEF IsReply, ModelText
<1>1. \A p \in S : /\ p[1] \in 1..Len(r.text) /\ p[2] \in 1..(Len(r.text) + 1)
                   /\ p[1] < p[2] /\ r.text[p[1]] = "quote"
                   /\ \E b \in Braces(r) : b < p[1]
                   /\ \A i \in (p[1] + 1)..p[2] :
                         /\ i \in r.escaped <=> /\ p[1] + 1 < i
                                                /\ r.text[i - 1] = "\\" /\ i - 1 \notin r.escaped
                         /\ i <= Len(r.text) => (i = p[2] <=> r.text[i] = "quote" /\ i \notin r.escaped)
                   /\ \A q \in S : p # q => p[2] < q[1] \/ q[2] < p[1]
  BY LenProperties DEF IsReply, ModelText
<1>2. first \in 1..Len(r.text) /\ r.text[first] = "{"
  <2>1. DOMAIN r.text = 1..Len(r.text) BY LenProperties DEF IsReply, ModelText
  <2> QED BY <2>1 DEF Braces
<1>10. first \in Int /\ first <= n /\ n \in Int
  <2> HIDE DEF first
  <2>1. first \in 1..Len(r.text) BY <1>2
  <2>2. first <= n BY DEF first
  <2> QED BY <1>0, <2>1, <2>2
<1>3. \A p \in S : first < p[1]
  <2> TAKE p \in S
  <2>1. PICK b \in Braces(r) : b < p[1] BY <1>1
  <2>2. first <= b /\ b \in 1..Len(r.text)
    <3>1. DOMAIN r.text = 1..Len(r.text) BY LenProperties DEF IsReply, ModelText
    <3> QED BY <3>1 DEF Braces
  <2>3. p[1] \in Int /\ first \in Int /\ b \in Int BY <1>0, <1>1, <1>10, <2>2
  <2> HIDE DEF first, S
  <2> QED BY <2>1, <2>2, <2>3
<1>4. r.text[n] = "quote" => InString(r, n)
  <2> SUFFICES ASSUME r.text[n] = "quote" PROVE InString(r, n) OBVIOUS
  <2>1. first # n BY <1>2
  <2>2. first < n
    <3> HIDE DEF first
    <3> QED BY <1>10, <2>1
  <2>3. n \in DOMAIN r.text BY LenProperties DEF IsReply, ModelText
  <2> QED BY <2>2, <2>3 DEF IsReply
<1> HIDE DEF first, S
<1>5. ASSUME NEW p \in S, p[1] <= n - 1, n - 1 < p[2]
      PROVE  /\ InString(r, n)
             /\ Within(r, n) <=> ~(r.text[n] = "quote" /\ n \notin r.escaped)
             /\ Within(r, n) => (n + 1 \in r.escaped <=> r.text[n] = "\\" /\ n \notin r.escaped)
  <2>1. p[1] \in 1..Len(r.text) /\ p[2] \in 1..(Len(r.text) + 1) /\ p[1] < n /\ n <= p[2]
    BY <1>0, <1>1, <1>5
  <2>2. InString(r, n) BY <2>1 DEF InString, S
  <2>3. n \in (p[1] + 1)..p[2] BY <1>0, <2>1
  <2>4. n = p[2] <=> r.text[n] = "quote" /\ n \notin r.escaped BY <1>0, <1>1, <2>3
  <2>5. Within(r, n) <=> n # p[2]
    <3>1. n # p[2] => p[1] <= n /\ n < p[2] BY <1>0, <2>1
    <3>2. ASSUME n = p[2], NEW q \in S, q[1] <= n, n < q[2] PROVE FALSE
      <4>1. q # p BY <1>0, <2>1, <3>2
      <4>2. p[2] < q[1] \/ q[2] < p[1] BY <1>1, <4>1
      <4>3. q[1] \in Int /\ q[2] \in Int /\ p[1] \in Int /\ p[2] \in Int BY <1>1, <2>1
      <4> QED BY <1>0, <2>1, <3>2, <4>2, <4>3
    <3> QED BY <3>1, <3>2 DEF Within, S
  <2>6. n # p[2] => (n + 1 \in r.escaped <=> r.text[n] = "\\" /\ n \notin r.escaped)
    <3> SUFFICES ASSUME n # p[2] PROVE n + 1 \in r.escaped <=> r.text[n] = "\\" /\ n \notin r.escaped
      OBVIOUS
    <3>1. n + 1 \in (p[1] + 1)..p[2] /\ p[1] + 1 < n + 1 /\ (n + 1) - 1 = n BY <1>0, <2>1
    <3>2. n + 1 \in r.escaped <=> /\ p[1] + 1 < n + 1
                                  /\ r.text[(n + 1) - 1] = "\\" /\ (n + 1) - 1 \notin r.escaped
      BY <1>1, <3>1
    <3> QED BY <3>1, <3>2
  <2> QED BY <2>2, <2>4, <2>5, <2>6
<1>6. ASSUME ~Within(r, n - 1), NEW p \in S, p[1] <= n, n <= p[2]
      PROVE  p[1] = n /\ n < p[2] /\ r.text[n] = "quote" /\ n + 1 \notin r.escaped
  <2>1. p[1] \in 1..Len(r.text) /\ p[2] \in 1..(Len(r.text) + 1) /\ p[1] < p[2]
        /\ r.text[p[1]] = "quote"
    BY <1>1
  <2>2. ~(p[1] <= n - 1 /\ n - 1 < p[2]) BY <1>6 DEF Within, S
  <2>3. p[1] = n BY <1>0, <1>6, <2>1, <2>2
  <2>4. n + 1 \in (p[1] + 1)..p[2] /\ ~(p[1] + 1 < n + 1) BY <1>0, <2>1, <2>3
  <2>5. n + 1 \notin r.escaped BY <1>1, <2>4
  <2> QED BY <2>1, <2>3, <2>5
<1>7. ASSUME ~Within(r, n - 1)
      PROVE  /\ Within(r, n) <=> r.text[n] = "quote"
             /\ InString(r, n) <=> r.text[n] = "quote"
             /\ Within(r, n) => n + 1 \notin r.escaped
  <2>1. \A p \in S : p[1] <= n /\ n < p[2] => p[1] <= n /\ n <= p[2] BY <1>0, <1>1
  <2>2. Within(r, n) => InString(r, n) BY <2>1 DEF Within, InString, S
  <2>3. InString(r, n) => Within(r, n) /\ r.text[n] = "quote" /\ n + 1 \notin r.escaped
    <3> SUFFICES ASSUME InString(r, n) PROVE Within(r, n) /\ r.text[n] = "quote" /\ n + 1 \notin r.escaped
      OBVIOUS
    <3>1. PICK p \in S : p[1] <= n /\ n <= p[2] BY DEF InString, S
    <3>2. p[1] = n /\ n < p[2] /\ r.text[n] = "quote" /\ n + 1 \notin r.escaped
      BY <1>6, <1>7, <3>1
    <3>3. Within(r, n) BY <3>1, <3>2 DEF Within, S
    <3> QED BY <3>2, <3>3
  <2> QED BY <1>4, <2>2, <2>3
<1>8. ASSUME n = first PROVE r.text[n] = "{" /\ ~Within(r, n - 1) /\ ~InString(r, n)
  <2>1. \A p \in S : p[1] \in Int /\ ~(p[1] <= n) /\ ~(p[1] <= n - 1) BY <1>0, <1>1, <1>3, <1>8
  <2> QED BY <1>2, <1>8, <2>1 DEF Within, InString, S
<1>9. Within(r, n - 1) => \E p \in S : p[1] <= n - 1 /\ n - 1 < p[2] BY DEF Within, S
<1> QED BY <1>5, <1>7, <1>8, <1>9 DEF first

\* Braces are at places of the text.
LEMMA BracesIn ==
    ASSUME NEW r, IsReply(r)
    PROVE  Braces(r) \in SUBSET Nat /\ \A b \in Braces(r) : b \in 1..Len(r.text) /\ r.text[b] = "{"
<1>1. DOMAIN r.text = 1..Len(r.text) /\ Len(r.text) \in Nat
  BY LenProperties DEF IsReply, ModelText
<1>2. \A b \in Braces(r) : b \in DOMAIN r.text /\ r.text[b] = "{" BY DEF Braces
<1>3. \A b \in Braces(r) : b \in 1..Len(r.text) BY <1>1, <1>2
<1>4. \A b \in Braces(r) : b \in Nat BY <1>1, <1>3
<1> QED BY <1>2, <1>3, <1>4

\* A scan tells where it is.
LEMMA DepthIs ==
    ASSUME NEW r, NEW n, NEW o \in Int, NEW c \in Int,
           Cardinality(BracesCounted(r, "{", n)) = o, Cardinality(BracesCounted(r, "}", n)) = c
    PROVE  Depth(r, n) = o - c /\ (Balanced(r, n) <=> o = c)
BY DEF Depth, Balanced

\* What a place makes of the braces that have opened and closed.
LEMMA DepthOn ==
    ASSUME NEW o \in Int, NEW c \in Int, NEW p \in Int, NEW q \in Int, NEW d, NEW e, d = p - q
    PROVE  /\ o = p /\ c = q /\ d >= 1 => o # c /\ d = o - c
           /\ o = p + 1 /\ c = q /\ e = d + 1 /\ d >= 0 => e = o - c /\ o # c /\ e >= 1
           /\ o = p /\ c = q + 1 /\ e = d - 1 /\ d >= 1 =>
                 e = o - c /\ (d = 1 <=> o = c) /\ (o # c => e >= 1)
           /\ o = p /\ c = q /\ e = d /\ d >= 1 => e = o - c /\ o # c /\ e >= 1
OBVIOUS

LEMMA ScansTell ==
    ASSUME NEW r, IsReply(r), Braces(r) # {}
    PROVE  LET scan == Scans(r.text, Min(Braces(r)))
           IN  \A n \in (Min(Braces(r)) - 1)..Len(r.text) : ScanTells(r, n, scan[n])
<1> DEFINE first == Min(Braces(r))
           s == r.text
           scan == Scans(s, first)
<1>1. s \in ModelText /\ Len(s) \in Nat /\ DOMAIN s = 1..Len(s)
  BY LenProperties DEF IsReply, ModelText
<1>2. first \in Braces(r) /\ \A b \in Braces(r) : first <= b BY <1>1, BracesIn, LeastOf
<1>3. first \in 1..Len(s) BY <1>1, <1>2 DEF Braces
<1>4. /\ \A i \in (first - 1)..Len(s) : scan[i] \in ScanState
      /\ scan[first - 1] = NewScan
      /\ \A i \in first..Len(s) : scan[i] = Scan(scan[i - 1], s[i])
  BY <1>1, <1>3, ScansIs
<1> HIDE DEF scan, s, first
<1>5. \A n \in 1..Len(s) : first <= n =>
         /\ Within(r, n - 1) =>
              /\ InString(r, n)
              /\ Within(r, n) <=> ~(s[n] = "quote" /\ n \notin r.escaped)
              /\ Within(r, n) => (n + 1 \in r.escaped <=> s[n] = "\\" /\ n \notin r.escaped)
         /\ ~Within(r, n - 1) =>
              /\ Within(r, n) <=> s[n] = "quote"
              /\ InString(r, n) <=> s[n] = "quote"
              /\ Within(r, n) => n + 1 \notin r.escaped
         /\ n = first => s[n] = "{" /\ ~Within(r, n - 1) /\ ~InString(r, n)
  BY <1>2, NextPlace DEF first, s
<1>6. \A n \in Nat : first \in 1..n =>
         \A ch : /\ Cardinality(BracesCounted(r, ch, n)) \in Nat
                 /\ Cardinality(BracesCounted(r, ch, n)) =
                       IF s[n] = ch /\ ~InString(r, n) THEN Cardinality(BracesCounted(r, ch, n - 1)) + 1
                       ELSE Cardinality(BracesCounted(r, ch, n - 1))
  BY CountedOn DEF first, s
<1>7. \A ch : Cardinality(BracesCounted(r, ch, first - 1)) = 0
  <2> TAKE ch
  <2>1. BracesCounted(r, ch, first - 1) = {} BY <1>3 DEF BracesCounted, first
  <2> QED BY <2>1, FS_EmptySet
<1>8. \A n : ScanTells(r, n, scan[n]) <=>
         /\ scan[n].done <=> Ended(r, n)
         /\ ~scan[n].done => /\ scan[n].depth = Depth(r, n)
                             /\ scan[n].string <=> Within(r, n)
                             /\ scan[n].escaped <=> Within(r, n) /\ n + 1 \in r.escaped
                             /\ first <= n => scan[n].depth >= 1
  BY DEF ScanTells, first
<1>9. \A n \in Nat : Ended(r, n) <=> \E m \in first..n : Balanced(r, m) BY DEF Ended, first
<1> DEFINE P == {k \in Nat : first - 1 + k <= Len(s) => ScanTells(r, first - 1 + k, scan[first - 1 + k])}
<1>10. ASSUME NEW k \in Nat, \A m \in Nat : m < k => m \in P PROVE k \in P
  <2> DEFINE n == first - 1 + k
  <2> SUFFICES ASSUME n <= Len(s) PROVE ScanTells(r, n, scan[n]) OBVIOUS
  <2>1. CASE k = 0
    <3>1. n = first - 1 /\ scan[n] = NewScan /\ n \in Nat BY <1>3, <1>4, <2>1
    <3>2. ~scan[n].done /\ ~scan[n].string /\ ~scan[n].escaped /\ scan[n].depth = 0
      BY <3>1 DEF NewScan
    <3>3. ~Ended(r, n) BY <1>3, <1>9, <3>1
    <3>4. ~Within(r, n)
      <4>1. first \in 1..Len(s) /\ first <= first BY <1>3
      <4> QED BY <1>5, <3>1, <4>1
    <3>5. Depth(r, n) = 0
      <4>1. Cardinality(BracesCounted(r, "{", first - 1)) = 0 /\ Cardinality(BracesCounted(r, "}", first - 1)) = 0
        BY <1>7
      <4> DEFINE o == Cardinality(BracesCounted(r, "{", first - 1))
                 c == Cardinality(BracesCounted(r, "}", first - 1))
      <4>2. Depth(r, first - 1) = o - c BY DEF Depth
      <4>3. o = 0 /\ c = 0 BY <4>1
      <4> HIDE DEF n, o, c
      <4>4. o - c = 0 BY <4>3
      <4> QED BY <3>1, <4>2, <4>4
    <3>6. ~(first <= n) BY <1>3, <3>1
    <3> HIDE DEF n
    <3> QED BY <1>8, <3>2, <3>3, <3>4, <3>5, <3>6
  <2>2. CASE k # 0
    <3> DEFINE was == scan[n - 1]
               ch == s[n]
    <3>1. k - 1 \in Nat /\ k - 1 < k /\ first - 1 + (k - 1) = n - 1 /\ n - 1 <= Len(s)
          /\ n \in first..Len(s) /\ n \in Nat /\ n - 1 \in Nat /\ first \in 1..n /\ n \in 1..Len(s)
          /\ n - 1 \in (first - 1)..Len(s) /\ first <= n
      BY <1>1, <1>3, <2>2
    <3>2. k - 1 \in P BY <1>10, <3>1
    <3>3. ScanTells(r, n - 1, was) BY <3>1, <3>2
    <3>4. was \in ScanState /\ scan[n] = Scan(was, ch) BY <1>4, <3>1
    <3> HIDE DEF n
    <3>5. /\ was.done <=> Ended(r, n - 1)
          /\ ~was.done => /\ was.depth = Depth(r, n - 1)
                          /\ was.string <=> Within(r, n - 1)
                          /\ was.escaped <=> Within(r, n - 1) /\ n \in r.escaped
                          /\ first <= n - 1 => was.depth >= 1
      BY <1>8, <3>1, <3>3
    <3> DEFINE now == scan[n]
    <3>6. /\ was.done => now = was
          /\ ~was.done /\ was.string =>
                /\ ~now.done /\ now.depth = was.depth
                /\ now.string <=> ~(ch = "quote" /\ ~was.escaped)
                /\ now.escaped <=> ch = "\\" /\ ~was.escaped
          /\ ~was.done /\ ~was.string =>
                /\ now.done <=> ch = "}" /\ was.depth = 1
                /\ now.depth = IF ch = "{" THEN was.depth + 1
                               ELSE IF ch = "}" THEN was.depth - 1 ELSE was.depth
                /\ now.string <=> ch = "quote"
                /\ now.escaped = was.escaped
      <4> DEFINE then == Scan(was, ch)
      <4>1. now = then BY <3>4
      <4> HIDE DEF was, ch, now
      <4>2. /\ was.done => then = was
            /\ ~was.done /\ was.string =>
                  /\ ~then.done /\ then.depth = was.depth
                  /\ then.string <=> ~(ch = "quote" /\ ~was.escaped)
                  /\ then.escaped <=> ch = "\\" /\ ~was.escaped
            /\ ~was.done /\ ~was.string =>
                  /\ then.done <=> ch = "}" /\ was.depth = 1
                  /\ then.depth = IF ch = "{" THEN was.depth + 1
                                  ELSE IF ch = "}" THEN was.depth - 1 ELSE was.depth
                  /\ then.string <=> ch = "quote"
                  /\ then.escaped = was.escaped
        BY <3>4, ScanIs
      <4> HIDE DEF then
      <4> QED BY <4>1, <4>2
    <3>7. /\ Within(r, n - 1) =>
              /\ InString(r, n)
              /\ Within(r, n) <=> ~(ch = "quote" /\ n \notin r.escaped)
              /\ Within(r, n) => (n + 1 \in r.escaped <=> ch = "\\" /\ n \notin r.escaped)
          /\ ~Within(r, n - 1) =>
              /\ Within(r, n) <=> ch = "quote"
              /\ InString(r, n) <=> ch = "quote"
              /\ Within(r, n) => n + 1 \notin r.escaped
          /\ n = first => ch = "{" /\ ~Within(r, n - 1) /\ ~InString(r, n)
      BY <1>5, <3>1
    \* The braces counted, in all cases.
    <3> DEFINE o == Cardinality(BracesCounted(r, "{", n))
               c == Cardinality(BracesCounted(r, "}", n))
               p == Cardinality(BracesCounted(r, "{", n - 1))
               q == Cardinality(BracesCounted(r, "}", n - 1))
    <3>8. /\ o \in Nat /\ c \in Nat /\ p \in Nat /\ q \in Nat
          /\ o = IF ch = "{" /\ ~InString(r, n) THEN p + 1 ELSE p
          /\ c = IF ch = "}" /\ ~InString(r, n) THEN q + 1 ELSE q
      <4>1. \A h : /\ Cardinality(BracesCounted(r, h, n)) \in Nat
                   /\ Cardinality(BracesCounted(r, h, n)) =
                         IF ch = h /\ ~InString(r, n) THEN Cardinality(BracesCounted(r, h, n - 1)) + 1
                         ELSE Cardinality(BracesCounted(r, h, n - 1))
        BY <1>6, <3>1
      <4>2. \A h : Cardinality(BracesCounted(r, h, n - 1)) \in Nat
        <5>1. CASE first = n BY <1>7, <5>1
        <5>2. CASE first # n BY <1>6, <3>1, <5>2
        <5> QED BY <5>1, <5>2
      <4>3. /\ o \in Nat /\ o = IF ch = "{" /\ ~InString(r, n) THEN p + 1 ELSE p BY <4>1
      <4>4. /\ c \in Nat /\ c = IF ch = "}" /\ ~InString(r, n) THEN q + 1 ELSE q BY <4>1
      <4>5. p \in Nat /\ q \in Nat BY <4>2
      <4>6. /\ o \in Nat /\ o = IF ch = "{" /\ ~InString(r, n) THEN p + 1 ELSE p
            /\ c \in Nat /\ c = IF ch = "}" /\ ~InString(r, n) THEN q + 1 ELSE q
            /\ p \in Nat /\ q \in Nat
        BY <4>3, <4>4, <4>5
      <4> QED BY <4>6
    <3>9. /\ Depth(r, n) = o - c /\ Depth(r, n - 1) = p - q
          /\ Balanced(r, n) <=> o = c
          /\ n = first => p - q = 0
      <4>1. Depth(r, n) = o - c /\ Depth(r, n - 1) = p - q BY DEF Depth
      <4>2. Balanced(r, n) <=> o = c BY DEF Balanced
      <4>3. n = first => p = 0 /\ q = 0 BY <1>7
      <4> HIDE DEF o, c, p, q
      <4> QED BY <4>1, <4>2, <4>3
    <3>10. Ended(r, n) <=> Ended(r, n - 1) \/ Balanced(r, n) BY <1>3, <1>9, <3>1
    <3>11. first <= n - 1 \/ n = first BY <1>3, <3>1
    <3>20. o \in Int /\ c \in Int /\ p \in Int /\ q \in Int
      <4>1. o \in Nat /\ c \in Nat /\ p \in Nat /\ q \in Nat BY <3>8
      <4> HIDE DEF o, c, p, q
      <4> QED BY <4>1
    <3> HIDE DEF o, c, p, q
    <3> SUFFICES /\ now.done <=> Ended(r, n)
                 /\ ~now.done => /\ now.depth = Depth(r, n)
                                 /\ now.string <=> Within(r, n)
                                 /\ now.escaped <=> Within(r, n) /\ n + 1 \in r.escaped
                                 /\ first <= n => now.depth >= 1
      BY <1>8
    <3>12. CASE was.done BY <3>5, <3>6, <3>10, <3>12
    <3>13. CASE ~was.done /\ Within(r, n - 1)
      <4> HIDE DEF was, now, ch
      <4>1. o = p /\ c = q /\ first <= n - 1 BY <3>7, <3>8, <3>11, <3>13
      <4> DEFINE d == was.depth
      <4>6. d = p - q /\ d >= 1 BY <3>5, <3>9, <3>13, <4>1
      <4> HIDE DEF d
      <4>7. o # c BY <3>20, <4>1, <4>6, DepthOn
      <4>2. d = p - q /\ d >= 1 /\ ~Balanced(r, n) BY <3>9, <4>6, <4>7
      <4>3. ~now.done /\ ~Ended(r, n) /\ now.depth = Depth(r, n) /\ now.depth >= 1
        BY <3>5, <3>6, <3>9, <3>10, <3>13, <4>1, <4>2 DEF d
      <4>4. now.string <=> Within(r, n) BY <3>5, <3>6, <3>7, <3>13
      <4>5. now.escaped <=> Within(r, n) /\ n + 1 \in r.escaped
        <5>1. ch = "\\" => Within(r, n) BY <3>7, <3>13
        <5> QED BY <3>5, <3>6, <3>7, <3>13, <5>1
      <4> QED BY <4>3, <4>4, <4>5
    <3>14. CASE ~was.done /\ ~Within(r, n - 1)
      <4> HIDE DEF was, now, ch
      <4> DEFINE d == was.depth
                 e == now.depth
      <4>9. ~was.string /\ ~was.escaped /\ d = p - q /\ ~Ended(r, n - 1) BY <3>5, <3>9, <3>14
      <4>10. /\ now.done <=> ch = "}" /\ d = 1
             /\ e = IF ch = "{" THEN d + 1 ELSE IF ch = "}" THEN d - 1 ELSE d
        BY <3>6, <3>14, <4>9
      <4>11. first <= n - 1 => d >= 1 BY <3>5, <3>14
      <4>12. n = first => ch = "{" BY <3>7
      <4> HIDE DEF d, e
      <4>13. d = p - q /\ (n = first => p - q = 0) BY <3>9, <4>9
      <4>14. d \in Int BY <3>20, <4>13
      <4>1. d >= 0 BY <3>11, <4>11, <4>13, <4>14
      <4>2. now.string <=> Within(r, n) BY <3>6, <3>7, <3>14, <4>9
      <4>3. now.escaped <=> Within(r, n) /\ n + 1 \in r.escaped BY <3>6, <3>7, <3>14, <4>9
      <4>4. InString(r, n) <=> ch = "quote" BY <3>7, <3>14
      <4>5. /\ e = o - c
            /\ now.done <=> o = c
            /\ ~now.done => e >= 1
        <5>1. CASE ch = "{"
          <6>1. o = p + 1 /\ c = q /\ e = d + 1 /\ ~now.done BY <3>8, <4>4, <4>10, <5>1
          <6> QED BY <3>20, <4>1, <4>13, <6>1, DepthOn
        <5>2. CASE ch = "}"
          <6>1. o = p /\ c = q + 1 /\ e = d - 1 /\ (now.done <=> d = 1) /\ d >= 1
            BY <3>8, <3>11, <4>4, <4>10, <4>11, <4>12, <5>2
          <6> QED BY <3>20, <4>1, <4>13, <6>1, DepthOn
        <5>3. CASE ch # "{" /\ ch # "}"
          BY <3>8, <3>11, <3>20, <4>1, <4>10, <4>11, <4>12, <4>13, <5>3, DepthOn
        <5> QED BY <5>1, <5>2, <5>3
      <4>7. now.done <=> Ended(r, n) BY <3>9, <3>10, <4>5, <4>9
      <4>8. now.depth = Depth(r, n) /\ (~now.done => now.depth >= 1) BY <3>9, <4>5 DEF e
      <4> QED BY <4>2, <4>3, <4>7, <4>8
    <3> QED BY <3>12, <3>13, <3>14
  <2> QED BY <2>1, <2>2
<1> HIDE DEF P
<1>11. \A k \in Nat : k \in P BY <1>10, UpFromZero
<1>12. ASSUME NEW n \in (first - 1)..Len(s) PROVE ScanTells(r, n, scan[n])
  <2>1. n - (first - 1) \in Nat /\ first - 1 + (n - (first - 1)) = n /\ n <= Len(s)
    BY <1>1, <1>3
  <2>2. n - (first - 1) \in P BY <1>11, <2>1
  <2>3. first - 1 + (n - (first - 1)) <= Len(s) =>
           ScanTells(r, first - 1 + (n - (first - 1)), scan[first - 1 + (n - (first - 1))])
    BY <2>2 DEF P
  <2> QED BY <2>1, <2>3
<1> QED BY <1>12 DEF scan, s, first

\* The object of a reply.
ObjectOf(r) ==
    IF Braces(r) = {} \/ EndsOf(r) = {} THEN <<>>
    ELSE SubSeq(r.text, Min(Braces(r)), Min(EndsOf(r)))

LEMMA ExtractIs ==
    ASSUME NEW r, IsReply(r)
    PROVE  ExtractJson(r.text) = ObjectOf(r)
<1> DEFINE first == Min(Braces(r))
           s == r.text
           scan == Scans(s, first)
           ends == {i \in first..Len(s) : scan[i].done}
<1>1. ExtractJson(s) = IF Braces(r) = {} \/ ends = {} THEN <<>> ELSE SubSeq(s, first, Min(ends))
  BY DEF ExtractJson, Scans, ScanOf, Braces
<1>2. CASE Braces(r) = {} BY <1>1, <1>2 DEF ObjectOf
<1>3. CASE Braces(r) # {}
  <2>0. s \in ModelText /\ Len(s) \in Nat /\ DOMAIN s = 1..Len(s)
    BY LenProperties DEF IsReply, ModelText
  <2>1. first \in 1..Len(s) BY <1>3, BracesIn, LeastOf
  <2>2. \A n \in (first - 1)..Len(s) : ScanTells(r, n, scan[n]) BY <1>3, ScansTell
  <2> DEFINE E == EndsOf(r)
  <2>3. \A n : n \in E <=> n \in first..Len(s) /\ Balanced(r, n) BY DEF EndsOf
  <2>4. \A n \in first..Len(s) : scan[n].done <=> \E m \in first..n : Balanced(r, m)
    BY <2>0, <2>1, <2>2 DEF ScanTells, Ended
  <2> HIDE DEF scan, s, first, E
  <2>5. \A n : n \in ends <=> n \in first..Len(s) /\ \E m \in first..n : Balanced(r, m) BY <2>4
  <2> HIDE DEF ends
  <2>6. E \subseteq ends BY <2>0, <2>1, <2>3, <2>5
  <2>7. \A n \in ends : \E m \in E : m <= n
    <3> TAKE n \in ends
    <3>1. n \in first..Len(s) BY <2>5
    <3>2. PICK m \in first..n : Balanced(r, m) BY <2>5
    <3>3. m \in first..Len(s) /\ m <= n BY <2>0, <2>1, <3>1, <3>2
    <3> QED BY <2>3, <3>2, <3>3
  <2>8. ends = {} <=> E = {} BY <2>6, <2>7
  <2>9. E # {} => Min(ends) = Min(E)
    <3> SUFFICES ASSUME E # {} PROVE Min(ends) = Min(E) OBVIOUS
    <3>1. E \in SUBSET Nat /\ ends \in SUBSET Nat BY <2>0, <2>1, <2>3, <2>5
    <3> DEFINE a == Min(ends)
               b == Min(E)
    <3>2. a \in ends /\ \A i \in ends : a <= i BY <2>8, <3>1, LeastOf
    <3>3. b \in E /\ \A i \in E : b <= i BY <3>1, LeastOf
    <3> HIDE DEF a, b
    <3>4. a <= b BY <2>6, <3>2, <3>3
    <3>5. b <= a
      <4>1. PICK m \in E : m <= a BY <2>7, <3>2
      <4>2. b <= m /\ m \in Nat /\ a \in Nat /\ b \in Nat BY <3>1, <3>2, <3>3, <4>1
      <4> QED BY <4>1, <4>2
    <3>6. a = b BY <3>1, <3>2, <3>3, <3>4, <3>5
    <3> QED BY <3>6 DEF a, b
  <2> QED BY <1>1, <1>3, <2>8, <2>9 DEF ObjectOf, E, s, first
<1> QED BY <1>2, <1>3

-----------------------------------------------------------------------------
(* The steps.                                                               *)

\* What the invariant says of replies: of a stream that was given, and of a reply that
\* came whole, the object that is in it.
ThinkingInv == StreamInv /\ object = ObjectOf(reply)

LEMMA ThinkingInvInit == ThinkingInit => ThinkingInv
<1> SUFFICES ASSUME ThinkingInit PROVE ThinkingInv OBVIOUS
<1>1. reply = NoReply /\ object = <<>> BY DEF ThinkingInit
<1>2. Braces(NoReply) = {} BY DEF Braces, NoReply
<1> QED BY <1>1, <1>2, StreamInvInit DEF ThinkingInv, ObjectOf

\* A reply that came whole is the first thing that came.
LEMMA WholeKeeps ==
    ASSUME ThinkingInv, WholeReply
    PROVE  ThinkingInv'
<1>0. PICK r \in Replies : reply' = r /\ object' = ExtractJson(r.text) BY DEF WholeReply
<1>1. /\ ~over /\ pieces = 0 /\ over' = TRUE
      /\ received' = received /\ read' = read /\ pieces' = pieces
  BY DEF WholeReply
<1>2. StreamInv /\ received = <<>> /\ read = <<>> BY <1>1 DEF ThinkingInv, StreamInv
<1>3. read = Outside(Outside(received)) BY <1>2, NothingRead
<1>4. StreamInv' BY <1>1, <1>2, <1>3 DEF StreamInv
<1>5. ExtractJson(r.text) = ObjectOf(r) BY ThinkingAssumption, ExtractIs
<1>6. (object = ObjectOf(reply))' BY <1>0, <1>5
<1> QED BY <1>4, <1>6 DEF ThinkingInv

LEMMA ThinkingStepKeeps == ThinkingInv /\ [ThinkingNext]_thinkingVars => ThinkingInv'
<1> SUFFICES ASSUME ThinkingInv, [ThinkingNext]_thinkingVars PROVE ThinkingInv' OBVIOUS
<1>1. ASSUME NEW text \in StreamDeltas, StreamDelta(text) PROVE ThinkingInv'
  BY <1>1, ThinkingAssumption, DeltaKeeps DEF ThinkingInv, StreamDelta
<1>2. CASE EndOfStream BY <1>2, EndKeeps DEF ThinkingInv, EndOfStream
<1>3. CASE WholeReply BY <1>3, WholeKeeps
<1>4. CASE UNCHANGED thinkingVars BY <1>4 DEF thinkingVars, ThinkingInv, StreamInv, StreamTold
<1> QED BY <1>1, <1>2, <1>3, <1>4 DEF ThinkingNext

LEMMA ThinkingInvTells == ThinkingInv => RepliesTell
<1> SUFFICES ASSUME ThinkingInv PROVE RepliesTell OBVIOUS
<1>1. OutsideIsRead /\ StreamReadsAsWhole BY StreamTells DEF ThinkingInv
<1>2. object = ObjectOf(reply) BY DEF ThinkingInv
<1>3. ObjectIsFound BY <1>2 DEF ObjectIsFound, ObjectOf, EndsOf, Balanced, BracesCounted
<1> QED BY <1>1, <1>3 DEF RepliesTell

\* What is shown of a model's reply, and found in it: wherever the deltas of a stream are
\* cut, for any deltas and any number of them, its reader has what is outside of the tags;
\* a reply whose reasoning is closed reads the same streamed and whole but for white space;
\* and the object of any reply is found from its first brace to the one that balances it.
THEOREM RepliesHold == ThinkingSpec => []RepliesTell
<1>1. ThinkingInit => ThinkingInv BY ThinkingInvInit
<1>2. ThinkingInv /\ [ThinkingNext]_thinkingVars => ThinkingInv' BY ThinkingStepKeeps
<1>3. ThinkingInv => RepliesTell BY ThinkingInvTells
<1> QED BY <1>1, <1>2, <1>3, PTL DEF ThinkingSpec

-----------------------------------------------------------------------------
\* Whatever ticks fail, users change, handlers hold and claims come late, for every number
\* of each: the promises of jobs hold where their three parts run.
THEOREM BackgroundStands ==
    SchedulingSpec /\ JobRowsSpec /\ WatchingSpec => []JobsHold
BY SchedulesHold, RowsHold, WatchesTell, PTL DEF JobsHold

\* Whatever callers refresh, administrators edit or revoke and models refuse at the same
\* time, and wherever the deltas of replies are cut, for every number of them: the promises
\* before and behind a model call hold where the five parts run.
THEOREM ModelAccessStands ==
    ConnectionsSpec /\ SettingsSpec /\ NegotiationSpec /\ ThinkingSpec /\ CassetteSpec
        => []ModelHolds
BY ConnectionsHold, SettingsAddUp, NegotiationLearns, RepliesHold, CassetteHolds, PTL
   DEF ModelHolds
=============================================================================

--------------------------- MODULE JobQueueProofs ---------------------------
(* What JobQueue guarantees for every number of threads, processes, rows and  *)
(* keys: types, the lease, the debounce key, the attempt bound.               *)
EXTENDS JobQueue, FiniteSetTheorems, TLAPS

\* locked_by is set exactly while the job is running.
GoodRow(r) == r \in Row /\ (r.status = "running" <=> r.lockedBy # NoWorker)

\* An idle thread has let go of its job, a busy one has one, and a decision it is
\* about to write is one that fail or defer can take.
GoodThread(t) ==
    /\ t \in Thread
    /\ t.at \in Busy => t.job \in Jobs
    /\ t.at = "idle" => t = Idle
    /\ t.at = "failing" => t.verdict \in {"queued", "cancelled", "failed", "dead"}
    /\ t.at = "deferring" => t.verdict \in {"queued", "cancelled"}

Table == row \in [Jobs -> Row] /\ \A j \in Jobs : GoodRow(row[j])
Threads == thread \in [Workers -> Thread] /\ \A w \in Workers : GoodThread(thread[w])
Ledger ==
    /\ budget \in [{"crash", "lapse", "defer", "cancel", "retry"} -> Nat]
    /\ reaps \in [Jobs -> Nat]
    /\ effects \in [Jobs -> Nat]
    /\ owed \subseteq Keys
    /\ aware \subseteq Jobs

Basic == Table /\ Threads /\ Ledger

USE QueueAssumption

-----------------------------------------------------------------------------
(***************************************************************************)
(* Rows and threads as values.                                             *)
(***************************************************************************)
\* Giving a lease up keeps a row well formed, whatever status but running it gets.
LEMMA UnlockedGood ==
  ASSUME NEW r \in Row, NEW s \in Status \ {"running"}
  PROVE  /\ GoodRow(Unlocked(r, s))
         /\ Unlocked(r, s).status = s
         /\ Unlocked(r, s).key = r.key
         /\ Unlocked(r, s).attempts = r.attempts
         /\ Unlocked(r, s).cancel = r.cancel
  BY DEF GoodRow, Row, Status, Unlocked

\* Claiming a row makes it a running one of the claimant's.
LEMMA LockedGood ==
  ASSUME NEW r \in Row, NEW w \in Workers
  PROVE  /\ GoodRow(Locked(r, w))
         /\ Locked(r, w).status = "running"
         /\ Locked(r, w).lockedBy = w
         /\ Locked(r, w).key = r.key
         /\ Locked(r, w).attempts = r.attempts + 1
<1> DEFINE n == r.attempts + 1
<1>1. n \in Nat BY DEF Row
<1>2. Locked(r, w) = [r EXCEPT !.status = "running", !.lockedBy = w, !.fresh = TRUE, !.attempts = n]
  BY DEF Locked
<1> HIDE DEF n
<1>3. /\ GoodRow(Locked(r, w))
      /\ Locked(r, w).status = "running" /\ Locked(r, w).lockedBy = w
      /\ Locked(r, w).key = r.key /\ Locked(r, w).attempts = n
  BY <1>1, <1>2 DEF GoodRow, Row, Status
<1> QED BY <1>3 DEF n

\* A deferred row is an unlocked one with the attempt given back.
LEMMA DeferredGood ==
  ASSUME NEW r \in Row, NEW s \in Status \ {"running"}
  PROVE  /\ GoodRow(Deferred(r, s))
         /\ Deferred(r, s).status = s
         /\ Deferred(r, s).key = r.key
         /\ Deferred(r, s).attempts <= r.attempts
         /\ s = "queued" /\ r.attempts > 0 => Deferred(r, s).attempts < r.attempts
<1> DEFINE n == IF s = "queued" THEN GiveBack(r.attempts) ELSE r.attempts
           u == Unlocked(r, s)
<1>1. n \in Nat /\ n <= r.attempts /\ (s = "queued" /\ r.attempts > 0 => n < r.attempts)
  BY DEF GiveBack, Row
<1>2. Deferred(r, s) = [u EXCEPT !.attempts = n] BY DEF Deferred
<1>3. u \in Row /\ u.status = s /\ u.key = r.key /\ u.lockedBy = NoWorker
  BY UnlockedGood DEF GoodRow
<1> HIDE DEF n, u
<1> QED BY <1>1, <1>2, <1>3 DEF GoodRow, Row

\* Replacing one row leaves the others alone.
LEMMA PutRow ==
  ASSUME Table, NEW j \in Jobs, NEW r, GoodRow(r), row' = [row EXCEPT ![j] = r]
  PROVE  Table'
  BY DEF Table, GoodRow

\* Replacing what one thread does leaves the others alone.
LEMMA PutThread ==
  ASSUME Threads, NEW w \in Workers, NEW t, GoodThread(t), thread' = [thread EXCEPT ![w] = t]
  PROVE  Threads'
  BY DEF Threads, GoodThread

\* A thread that rests, or is dead, is well formed.
LEMMA IdleGood == GoodThread(Idle) /\ GoodThread(Down)
  BY DEF GoodThread, Idle, Down, Thread, Busy, Status

\* Letting a job go (the end of _run_one) keeps the threads well formed.
LEMMA RestGood == ASSUME Threads, NEW w \in Workers, Rest(w) PROVE Threads'
  BY IdleGood, PutThread DEF Rest

\* The UPDATE of a thread that lets its job go keeps the table well formed.
LEMMA ReleaseGood ==
  ASSUME Table, NEW w \in Workers, Job(w) \in Jobs,
         NEW s \in Status \ {"running"}, Release(w, s)
  PROVE  Table'
<1>1. CASE Holds(w) BY <1>1, UnlockedGood, PutRow DEF Table, Release
<1>2. CASE ~Holds(w) BY <1>2 DEF Release, Table
<1> QED BY <1>1, <1>2

\* A decision of fail or defer is one of the statuses a thread may write.
LEMMA DecideGood ==
  ASSUME Threads, NEW w \in Workers, thread[w].at \in Busy, NEW where, NEW s,
         \/ where = "failing" /\ s \in {"queued", "cancelled", "failed", "dead"}
         \/ where = "deferring" /\ s \in {"queued", "cancelled"},
         Decide(w, where, s)
  PROVE  Threads'
<1> DEFINE t == [thread[w] EXCEPT !.at = where, !.verdict = s]
<1>1. GoodThread(t) BY DEF Threads, GoodThread, Thread, Busy, Status
<1>2. thread' = [thread EXCEPT ![w] = t] BY DEF Decide
<1> QED BY <1>1, <1>2, PutThread

\* Every status that fail() can choose is one a failing thread may write.
LEMMA FailStatusGood ==
  ASSUME NEW j, NEW r \in BOOLEAN
  PROVE  FailStatus(j, r) \in {"queued", "cancelled", "failed", "dead"}
  BY DEF FailStatus, Requeued

-----------------------------------------------------------------------------
(***************************************************************************)
(* Types and the lease columns are inductive.                              *)
(***************************************************************************)
\* The empty table with idle threads is well formed.
LEMMA BasicInit == Init => Basic
<1> SUFFICES ASSUME Init PROVE Basic OBVIOUS
<1>1. GoodRow(EmptyRow) BY DEF GoodRow, EmptyRow, Row, Status
<1>2. Table BY <1>1 DEF Init, Table, GoodRow
<1>3. Threads BY IdleGood DEF Init, Threads, GoodThread
<1>4. Ledger BY DEF Init, Ledger
<1> QED BY <1>2, <1>3, <1>4 DEF Basic

\* Every step keeps the table well formed: each statement of queue.py and of the
\* API sets status and locked_by together.
LEMMA TableStep == Basic /\ [Next]_vars => Table'
<1> SUFFICES ASSUME Basic, [Next]_vars PROVE Table' OBVIOUS
<1>0. /\ Table
      /\ \A j \in Jobs : GoodRow(row[j]) /\ row[j] \in Row
      /\ \A w \in Workers : GoodThread(thread[w])
  BY DEF Basic, Table, Threads
<1>a. ASSUME NEW w \in Workers, thread[w].at \in Busy PROVE Job(w) \in Jobs
  BY <1>0, <1>a DEF GoodThread, Job
<1>1. ASSUME NEW k \in Keys \cup {NoKey}, Enqueue(k) PROVE Table'
  <2>1. ASSUME NEW j \in Jobs, row' = [row EXCEPT ![j] = [EmptyRow EXCEPT !.status = "queued", !.key = k]]
        PROVE  Table'
    BY <1>0, <2>1, PutRow DEF GoodRow, EmptyRow, Row, Status
  <2> QED BY <1>0, <1>1, <2>1 DEF Enqueue, Table
<1>2. ASSUME NEW j \in Jobs, Cancel(j) PROVE Table'
  <2> DEFINE r == CASE Queued(j)  -> [row[j] EXCEPT !.status = "cancelled"]
                    [] Running(j) -> [row[j] EXCEPT !.cancel = TRUE]
                    [] OTHER      -> row[j]
  <2>1. CASE Queued(j)
    BY <1>0, <1>2, <2>1, PutRow DEF GoodRow, Row, Status, Queued, Cancel, Running
  <2>2. CASE Running(j) BY <1>0, <1>2, <2>2, PutRow DEF GoodRow, Row, Cancel, Queued, Running
  <2>3. CASE ~Queued(j) /\ ~Running(j) BY <1>0, <1>2, <2>3, PutRow DEF Cancel
  <2> QED BY <2>1, <2>2, <2>3
<1>3. ASSUME NEW j \in Jobs, Retry(j) PROVE Table'
  BY <1>0, <1>3, PutRow DEF GoodRow, Row, Status, Retry
<1>4. ASSUME NEW j \in Jobs, GoStale(j) PROVE Table'
  BY <1>0, <1>4, PutRow DEF GoodRow, Row, GoStale
<1>5. ASSUME NEW w \in Workers, NEW j \in Jobs, Dequeue(w, j) PROVE Table'
  BY <1>0, <1>5, LockedGood, PutRow DEF Dequeue
<1>6. ASSUME NEW w \in Workers, Succeed(w) PROVE Table'
  BY <1>0, <1>6, <1>a, ReleaseGood DEF Succeed, At, Busy, Status
<1>7. ASSUME NEW w \in Workers, ObserveCancel(w) PROVE Table'
  BY <1>0, <1>7, <1>a, ReleaseGood DEF ObserveCancel, At, Busy, Status
<1>8. ASSUME NEW w \in Workers, NEW r \in BOOLEAN, FailRead(w, r) PROVE Table'
  BY <1>0, <1>8 DEF FailRead, Table
<1>9. ASSUME NEW w \in Workers, FailWrite(w) PROVE Table'
  BY <1>0, <1>9, <1>a, ReleaseGood DEF FailWrite, At, Busy, GoodThread, Status, Table
<1>10. ASSUME NEW w \in Workers, DeferRead(w) PROVE Table' BY <1>0, <1>10 DEF DeferRead, Table
<1>11. ASSUME NEW w \in Workers, DeferWrite(w) PROVE Table'
  <2> DEFINE s == thread[w].verdict
  <2>1. Job(w) \in Jobs /\ s \in Status \ {"running"}
    BY <1>0, <1>11, <1>a DEF DeferWrite, At, Busy, GoodThread, Status
  <2>2. GoodRow(Deferred(row[Job(w)], s)) BY <1>0, <2>1, DeferredGood
  <2> QED BY <1>0, <1>11, <2>1, <2>2, PutRow DEF DeferWrite, Table
<1>12. ASSUME NEW w \in Workers, DeferCollides(w) PROVE Table'
  BY <1>0, <1>12 DEF DeferCollides, Table
<1>13. ASSUME NEW p \in Procs, Heartbeat(p) PROVE Table'
  <2>1. \A j \in Jobs : GoodRow([row[j] EXCEPT !.fresh = TRUE]) BY <1>0 DEF GoodRow, Row
  <2>2. \A j \in Jobs : row'[j] = row[j] \/ row'[j] = [row[j] EXCEPT !.fresh = TRUE]
    BY <1>13 DEF Heartbeat
  <2>3. \A j \in Jobs : GoodRow(row'[j]) /\ row'[j] \in Row BY <1>0, <2>1, <2>2 DEF GoodRow
  <2>4. row' = [j \in Jobs |-> row'[j]] BY <1>13 DEF Heartbeat
  <2> QED BY <2>3, <2>4 DEF Table
<1>14. ASSUME NEW p \in Procs, Crash(p) PROVE Table' BY <1>0, <1>14 DEF Crash, Table
<1>15. CASE ReapStale
  BY <1>0, <1>15, UnlockedGood DEF ReapStale, Requeued, Status, GoodRow, Table
<1>16. CASE UNCHANGED vars BY <1>0, <1>16 DEF vars, Table
<1> QED BY <1>1, <1>2, <1>3, <1>4, <1>5, <1>6, <1>7, <1>8, <1>9, <1>10, <1>11, <1>12,
     <1>13, <1>14, <1>15, <1>16 DEF Next, ThreadStep

\* Every step keeps the threads well formed.
LEMMA ThreadsStep == Basic /\ [Next]_vars => Threads'
<1> SUFFICES ASSUME Basic, [Next]_vars PROVE Threads' OBVIOUS
<1>0. Threads /\ \A w \in Workers : GoodThread(thread[w]) /\ thread[w] \in Thread
  BY DEF Basic, Threads, GoodThread
<1>1. ASSUME thread' = thread PROVE Threads' BY <1>0, <1>1 DEF Threads
<1>2. ASSUME NEW w \in Workers, Rest(w) PROVE Threads' BY <1>0, <1>2, RestGood
<1>3. ASSUME NEW w \in Workers, NEW j \in Jobs, Dequeue(w, j) PROVE Threads'
  BY <1>0, <1>3, PutThread DEF GoodThread, Idle, Thread, Busy, Status, Dequeue
<1>4. ASSUME NEW w \in Workers, NEW r \in BOOLEAN, FailRead(w, r) PROVE Threads'
  BY <1>0, <1>4, DecideGood, FailStatusGood DEF FailRead, At, Busy
<1>5. ASSUME NEW w \in Workers, DeferRead(w) PROVE Threads'
  BY <1>0, <1>5, DecideGood DEF DeferRead, At, Busy, Requeued
<1>6. ASSUME NEW w \in Workers, DeferCollides(w) PROVE Threads'
  BY <1>0, <1>6, DecideGood, FailStatusGood DEF DeferCollides, At, Busy
<1>7. ASSUME NEW p \in Procs, Crash(p) PROVE Threads'
  BY <1>0, <1>7, IdleGood DEF Crash, Threads, GoodThread
<1> QED BY <1>1, <1>2, <1>3, <1>4, <1>5, <1>6, <1>7
  DEF Next, ThreadStep, Enqueue, Cancel, Retry, GoStale, Succeed, ObserveCancel, FailWrite,
      DeferWrite, Heartbeat, ReapStale, vars

\* Every step keeps the types of the budgets and of the histories.
LEMMA LedgerStep == Basic /\ [Next]_vars => Ledger'
<1> SUFFICES ASSUME Basic, [Next]_vars PROVE Ledger' OBVIOUS
<1>0. Ledger /\ \A w \in Workers : thread[w].at \in Busy => Job(w) \in Jobs
  BY DEF Basic, Threads, GoodThread, Job
<1>1. ASSUME UNCHANGED <<budget, history>> PROVE Ledger' BY <1>0, <1>1 DEF Ledger, history
<1>2. ASSUME NEW what \in {"crash", "lapse", "defer", "cancel", "retry"}, Spend(what)
      PROVE  budget' \in [{"crash", "lapse", "defer", "cancel", "retry"} -> Nat]
  BY <1>0, <1>2 DEF Ledger, Spend
<1>3. ASSUME NEW k \in Keys \cup {NoKey}, Enqueue(k) PROVE Ledger'
  BY <1>0, <1>3 DEF Enqueue, Ledger
<1>4. ASSUME NEW j \in Jobs, Cancel(j) PROVE Ledger' BY <1>0, <1>2, <1>4 DEF Cancel, Ledger
<1>5. ASSUME NEW j \in Jobs, Retry(j) PROVE Ledger'
  BY <1>0, <1>2, <1>5 DEF Retry, Ledger, history
<1>6. ASSUME NEW j \in Jobs, GoStale(j) PROVE Ledger'
  BY <1>0, <1>2, <1>6 DEF GoStale, Ledger, history
<1>7. ASSUME NEW w \in Workers, NEW j \in Jobs, Dequeue(w, j) PROVE Ledger'
  BY <1>0, <1>7 DEF Dequeue, Ledger
<1>8. ASSUME NEW w \in Workers, Succeed(w) PROVE Ledger'
  <2>0. Job(w) \in Jobs /\ effects \in [Jobs -> Nat] BY <1>0, <1>8 DEF Succeed, Ledger, At, Busy
  <2>1. effects' \in [Jobs -> Nat]
    <3>1. effects' = [effects EXCEPT ![Job(w)] = effects[Job(w)] + 1] BY <1>8 DEF Succeed
    <3>2. effects[Job(w)] \in Nat BY <2>0
    <3> QED BY <2>0, <3>1, <3>2
  <2>2. owed' = owed \/ owed' = owed \ {row[Job(w)].key} BY <1>8 DEF Succeed
  <2> QED BY <1>0, <1>8, <2>1, <2>2 DEF Succeed, Ledger
<1>9. ASSUME NEW w \in Workers, DeferRead(w) PROVE Ledger'
  BY <1>0, <1>2, <1>9 DEF DeferRead, Ledger, history
<1>10. ASSUME NEW p \in Procs, Crash(p) PROVE Ledger'
  BY <1>0, <1>2, <1>10 DEF Crash, Ledger, history
<1>11. CASE ReapStale BY <1>0, <1>11 DEF ReapStale, Ledger
<1> QED BY <1>1, <1>3, <1>4, <1>5, <1>6, <1>7, <1>8, <1>9, <1>10, <1>11
  DEF Next, ThreadStep, ObserveCancel, FailRead, FailWrite, DeferWrite, DeferCollides,
      Heartbeat, vars, history

\* The types and the lease columns hold in every reachable state.
LEMMA BasicInvariant == Spec => []Basic
<1>1. Basic /\ [Next]_vars => Basic' BY TableStep, ThreadsStep, LedgerStep DEF Basic
<1> QED BY BasicInit, <1>1, PTL DEF Spec

\* Every reachable state has the declared types: TypeOK of the runs, for any
\* number of threads, rows and keys.
THEOREM TypeCorrect == Spec => []TypeOK
<1>1. Basic => TypeOK BY DEF Basic, Table, Threads, Ledger, GoodThread, TypeOK, Job
<1> QED BY BasicInvariant, <1>1, PTL

-----------------------------------------------------------------------------
(***************************************************************************)
(* One queued row per dedupe key.                                          *)
(***************************************************************************)
\* What a thread's UPDATE does to the table: at most its own row changes.
LEMMA ReleaseEffect ==
  ASSUME Table, NEW w \in Workers, Job(w) \in Jobs,
         NEW s \in Status \ {"running"}, Release(w, s), NEW i \in Jobs
  PROVE  \/ row'[i] = row[i]
         \/ /\ i = Job(w) /\ Holds(w)
            /\ row'[i].status = s
            /\ row'[i].key = row[i].key
            /\ row'[i].attempts = row[i].attempts
<1>1. row[Job(w)] \in Row BY DEF Table
<1>2. CASE Holds(w) BY <1>1, <1>2, UnlockedGood DEF Release, Table
<1>3. CASE ~Holds(w) BY <1>3 DEF Release
<1> QED BY <1>2, <1>3

\* What the UPDATE of defer() does to the table: at most the thread's own row
\* changes, and only while it holds the lease.
LEMMA DeferEffect ==
  ASSUME Table, NEW w \in Workers, Job(w) \in Jobs, DeferWrite(w),
         thread[w].verdict \in Status \ {"running"}, NEW i \in Jobs
  PROVE  \/ row'[i] = row[i]
         \/ /\ i = Job(w) /\ Holds(w)
            /\ row'[i].status = thread[w].verdict
            /\ row'[i].key = row[i].key
            /\ row'[i].attempts <= row[i].attempts
            /\ thread[w].verdict = "queued" /\ row[i].attempts > 0
                  => row'[i].attempts < row[i].attempts
<1>1. row[Job(w)] \in Row BY DEF Table
<1>2. CASE Holds(w) BY <1>1, <1>2, DeferredGood DEF DeferWrite, Table
<1>3. CASE ~Holds(w) BY <1>3 DEF DeferWrite
<1> QED BY <1>2, <1>3

\* A busy thread has a job, and writes no decision that would make it running.
LEMMA BusyThread ==
  ASSUME Basic, NEW w \in Workers
  PROVE  /\ thread[w].at \in Busy => Job(w) \in Jobs
         /\ thread[w].at \in {"failing", "deferring"} =>
               thread[w].verdict \in Status \ {"running", "absent", "succeeded"}
  BY DEF Basic, Threads, GoodThread, Job, Status

\* A step that queues no row keeps the debounce rule.
LEMMA NoNewQueued ==
  ASSUME OneQueuedPerKey,
         \A i \in Jobs : row'[i].status = "queued" =>
                            row[i].status = "queued" /\ row'[i].key = row[i].key
  PROVE  OneQueuedPerKey'
  BY DEF OneQueuedPerKey, Queued

\* A step that queues one row, with no queued twin, keeps the debounce rule.
LEMMA OneNewQueued ==
  ASSUME OneQueuedPerKey, NEW x \in Jobs,
         \A i \in Jobs \ {x} : row'[i] = row[i],
         row'[x].key = NoKey \/ ~\E i \in Jobs \ {x} : Queued(i) /\ row[i].key = row'[x].key
  PROVE  OneQueuedPerKey'
  BY DEF OneQueuedPerKey, Queued

\* Every step keeps the debounce rule, the unique index where it has to.
LEMMA OneQueuedStep == Basic /\ OneQueuedPerKey /\ [Next]_vars => OneQueuedPerKey'
<1> SUFFICES ASSUME Basic, OneQueuedPerKey, [Next]_vars PROVE OneQueuedPerKey' OBVIOUS
<1>0. Table /\ \A j \in Jobs : row[j] \in Row BY DEF Basic, Table
<1>1. ASSUME row' = row PROVE OneQueuedPerKey' BY <1>1 DEF OneQueuedPerKey, Queued
<1>2. ASSUME NEW k \in Keys \cup {NoKey}, Enqueue(k) PROVE OneQueuedPerKey'
  <2>1. CASE k # NoKey /\ \E i \in Jobs : Queued(i) /\ row[i].key = k
    BY <1>1, <1>2, <2>1 DEF Enqueue
  <2>2. CASE ~(k # NoKey /\ \E i \in Jobs : Queued(i) /\ row[i].key = k)
    <3>1. PICK x \in Jobs : row' = [row EXCEPT ![x] = [EmptyRow EXCEPT !.status = "queued", !.key = k]]
      BY <1>2, <2>2 DEF Enqueue
    <3>2. row'[x].key = k /\ \A i \in Jobs \ {x} : row'[i] = row[i]
      BY <1>0, <3>1 DEF Table, EmptyRow
    <3> QED BY <2>2, <3>2, OneNewQueued
  <2> QED BY <2>1, <2>2
<1>3. ASSUME NEW j \in Jobs, Cancel(j) PROVE OneQueuedPerKey'
  BY <1>0, <1>3, NoNewQueued DEF Cancel, Table, Queued, Running, Row
<1>4. ASSUME NEW j \in Jobs, Retry(j) PROVE OneQueuedPerKey'
  BY <1>0, <1>4, OneNewQueued DEF Retry, Table, Row, TwinQueued
<1>5. ASSUME NEW j \in Jobs, GoStale(j) PROVE OneQueuedPerKey'
  BY <1>0, <1>5, NoNewQueued DEF GoStale, Table, Row, Running
<1>6. ASSUME NEW w \in Workers, NEW j \in Jobs, Dequeue(w, j) PROVE OneQueuedPerKey'
  BY <1>0, <1>6, LockedGood, NoNewQueued DEF Dequeue, Table
<1>7. ASSUME NEW w \in Workers, NEW s \in Status \ {"running", "queued"},
             Job(w) \in Jobs, Release(w, s)
      PROVE  OneQueuedPerKey'
  BY <1>0, <1>7, ReleaseEffect, NoNewQueued
<1>8. ASSUME NEW w \in Workers, Succeed(w) PROVE OneQueuedPerKey'
  BY <1>7, <1>8, BusyThread DEF Succeed, At, Busy, Status
<1>9. ASSUME NEW w \in Workers, ObserveCancel(w) PROVE OneQueuedPerKey'
  BY <1>7, <1>9, BusyThread DEF ObserveCancel, At, Busy, Status
<1>10. ASSUME NEW w \in Workers, FailWrite(w) PROVE OneQueuedPerKey'
  <2>1. Job(w) \in Jobs /\ thread[w].verdict \in Status \ {"running"}
    BY <1>10, BusyThread DEF FailWrite, At, Busy
  <2>2. CASE thread[w].verdict # "queued" BY <1>7, <1>10, <2>1, <2>2 DEF FailWrite, Collides
  <2>3. CASE thread[w].verdict = "queued" /\ Holds(w) /\ ~TwinQueued(Job(w))
    <3>1. /\ row'[Job(w)].key = row[Job(w)].key
          /\ \A i \in Jobs \ {Job(w)} : row'[i] = row[i]
      BY <1>0, <1>10, <2>1, <2>3, ReleaseEffect DEF FailWrite, Collides
    <3> QED BY <2>1, <2>3, <3>1, OneNewQueued DEF TwinQueued
  <2>4. CASE thread[w].verdict = "queued" /\ ~(Holds(w) /\ ~TwinQueued(Job(w)))
    BY <1>1, <1>10, <2>4 DEF FailWrite, Collides, Release
  <2> QED BY <2>2, <2>3, <2>4
<1>11. ASSUME NEW w \in Workers, DeferWrite(w) PROVE OneQueuedPerKey'
  <2>1. Job(w) \in Jobs /\ thread[w].verdict \in Status \ {"running"}
    BY <1>11, BusyThread DEF DeferWrite, At, Busy
  <2>2. CASE thread[w].verdict # "queued" BY <1>0, <1>11, <2>1, <2>2, DeferEffect, NoNewQueued
  <2>3. CASE thread[w].verdict = "queued" /\ Holds(w)
    <3>1. /\ row'[Job(w)].key = row[Job(w)].key
          /\ \A i \in Jobs \ {Job(w)} : row'[i] = row[i]
      BY <1>0, <1>11, <2>1, <2>3, DeferEffect
    <3>2. ~TwinQueued(Job(w)) BY <1>11, <2>3 DEF DeferWrite, Collides
    <3> QED BY <2>1, <3>1, <3>2, OneNewQueued DEF TwinQueued
  <2>4. CASE ~Holds(w) BY <1>1, <1>11, <2>4 DEF DeferWrite
  <2> QED BY <2>2, <2>3, <2>4
<1>12. ASSUME NEW p \in Procs, Heartbeat(p) PROVE OneQueuedPerKey'
  BY <1>0, <1>12, NoNewQueued DEF Heartbeat, Row
<1>13. CASE ReapStale
  <2> SUFFICES ASSUME NEW i \in Jobs, NEW j \in Jobs, i # j,
                      row'[i].status = "queued", row'[j].status = "queued",
                      row'[i].key = row'[j].key, row'[i].key # NoKey
               PROVE  FALSE
    BY DEF OneQueuedPerKey, Queued
  <2>1. ASSUME NEW x \in Jobs, row'[x].status = "queued"
        PROVE  /\ row'[x].key = row[x].key
               /\ \/ x \notin Stale /\ Queued(x)
                  \/ x \in Stale /\ Requeued(x) = "queued" /\ ~(TwinQueued(x))
    <3>1. CASE x \in Stale
      BY <1>0, <1>13, <2>1, <3>1, UnlockedGood DEF ReapStale, Requeued, Status
    <3>2. CASE x \notin Stale BY <1>13, <2>1, <3>2 DEF ReapStale, Queued
    <3> QED BY <3>1, <3>2
  <2>2. CASE i \notin Stale /\ j \notin Stale BY <2>1, <2>2 DEF OneQueuedPerKey
  <2>3. CASE i \in Stale /\ j \notin Stale BY <2>1, <2>3 DEF TwinQueued
  <2>4. CASE i \notin Stale /\ j \in Stale BY <2>1, <2>4 DEF TwinQueued
  <2>5. CASE i \in Stale /\ j \in Stale BY <1>13, <2>1, <2>5 DEF ReapStale, ReapCollides
  <2> QED BY <2>2, <2>3, <2>4, <2>5
<1> QED BY <1>1, <1>2, <1>3, <1>4, <1>5, <1>6, <1>8, <1>9, <1>10, <1>11, <1>12, <1>13
  DEF Next, ThreadStep, FailRead, DeferRead, DeferCollides, Crash, vars

\* A dedupe key never has two queued rows, so a burst of producers costs one run:
\* no path back into the queue (enqueue, retry, fail, defer, the reaper) breaks it.
THEOREM KeyQueuedOnce == Spec => []OneQueuedPerKey
<1>1. Init => OneQueuedPerKey BY DEF Init, OneQueuedPerKey, Queued, EmptyRow
<1> QED BY <1>1, BasicInvariant, OneQueuedStep, PTL DEF Spec

-----------------------------------------------------------------------------
(***************************************************************************)
(* The attempt bound.                                                      *)
(***************************************************************************)
\* AttemptsBounded is not inductive: a queued job needs room for one more run,
\* and a failing thread that still holds its lease has read how much is left.
AttemptRoom ==
    /\ \A j \in Jobs : /\ row[j].attempts <= MaxAttempts + reaps[j]
                       /\ Queued(j) => row[j].attempts < MaxAttempts + reaps[j]
    /\ \A w \in Workers : At(w, "failing") /\ thread[w].verdict = "queued" /\ Holds(w)
                            => row[Job(w)].attempts < MaxAttempts

\* What a step must show of each row, and of each thread that is failing.
RowRoom(j) ==
    \/ row'[j] = row[j] /\ reaps'[j] = reaps[j]
    \/ /\ reaps'[j] = reaps[j]
       /\ row'[j].attempts <= row[j].attempts
       /\ row'[j].status = "queued" => row[j].status = "queued"
    \/ /\ row'[j].attempts <= MaxAttempts + reaps'[j]
       /\ row'[j].status = "queued" => row'[j].attempts < MaxAttempts + reaps'[j]

ThreadRoom(w) ==
    thread'[w].at = "failing" /\ thread'[w].verdict = "queued" /\ Holds(w)'
       => row'[thread'[w].job].attempts < MaxAttempts

\* Bounding every row and every failing thread one by one gives AttemptRoom.
LEMMA RoomStep ==
  ASSUME Basic, Basic', AttemptRoom,
         \A j \in Jobs : RowRoom(j), \A w \in Workers : ThreadRoom(w)
  PROVE  AttemptRoom'
<1>1. ASSUME NEW j \in Jobs
      PROVE  /\ row[j].attempts \in Nat /\ row'[j].attempts \in Nat
             /\ reaps[j] \in Nat /\ reaps'[j] \in Nat
  BY DEF Basic, Table, Ledger, Row
<1>2. ASSUME NEW j \in Jobs
      PROVE  /\ row'[j].attempts <= MaxAttempts + reaps'[j]
             /\ row'[j].status = "queued" => row'[j].attempts < MaxAttempts + reaps'[j]
  BY <1>1 DEF AttemptRoom, Queued, RowRoom
<1> QED BY <1>2 DEF AttemptRoom, Queued, At, Job, ThreadRoom

\* A thread that a step leaves alone keeps its room when its row, while it holds
\* the lease, keeps its attempts.
LEMMA ThreadKeepsRoom ==
  ASSUME AttemptRoom, NEW w \in Workers, thread'[w] = thread[w],
         Holds(w)' => Holds(w) /\ row'[Job(w)].attempts = row[Job(w)].attempts
  PROVE  ThreadRoom(w)
  BY DEF AttemptRoom, ThreadRoom, Job, At

\* The UPDATE of a thread takes the lease of no other: rows other threads hold are as before.
LEMMA OthersKeepRoom ==
  ASSUME AttemptRoom, NEW w \in Workers, thread' = [thread EXCEPT ![w] = Idle],
         thread \in [Workers -> Thread],
         \A i \in Jobs : row'[i] = row[i] \/ row'[i].status # "running",
         Basic
  PROVE  \A v \in Workers : ThreadRoom(v)
<1> SUFFICES ASSUME NEW v \in Workers PROVE ThreadRoom(v) OBVIOUS
<1>1. CASE v = w BY <1>1 DEF ThreadRoom, Idle
<1>2. CASE v # w
  <2>1. thread'[v] = thread[v] BY <1>2
  <2>2. CASE thread[v].at \in Busy
    BY <2>1, <2>2, BusyThread, ThreadKeepsRoom DEF Holds, Running, Job
  <2>3. CASE thread[v].at \notin Busy BY <2>1, <2>3 DEF ThreadRoom, Busy
  <2> QED BY <2>2, <2>3
<1> QED BY <1>1, <1>2

\* Every step keeps the room for one more attempt.
LEMMA AttemptRoomStep == Basic /\ Basic' /\ AttemptRoom /\ [Next]_vars => AttemptRoom'
<1> SUFFICES ASSUME Basic, Basic', AttemptRoom, [Next]_vars PROVE AttemptRoom' OBVIOUS
<1>0. /\ Table /\ \A j \in Jobs : row[j] \in Row
      /\ thread \in [Workers -> Thread]
      /\ reaps \in [Jobs -> Nat]
      /\ \A j \in Jobs : row[j].attempts \in Nat
  BY DEF Basic, Table, Threads, Ledger, Row
<1>b. ASSUME NEW w \in Workers, At(w, "failing") PROVE Job(w) \in Jobs
  BY <1>b, BusyThread DEF At, Busy
<1>1. ASSUME UNCHANGED <<row, reaps>>,
             \A w \in Workers : thread'[w] = thread[w] \/ thread'[w].at # "failing"
                                \/ thread'[w].verdict # "queued"
                                \/ row[thread'[w].job].attempts < MaxAttempts
      PROVE  AttemptRoom'
  BY <1>1, RoomStep DEF AttemptRoom, ThreadRoom, Holds, Running, Job, At, RowRoom
<1>2. ASSUME NEW k \in Keys \cup {NoKey}, Enqueue(k) PROVE AttemptRoom'
  <2>1. CASE row' = row BY <1>1, <1>2, <2>1 DEF Enqueue
  <2>2. ASSUME NEW x \in Jobs, row[x].status = "absent",
               row' = [row EXCEPT ![x] = [EmptyRow EXCEPT !.status = "queued", !.key = k]]
        PROVE  AttemptRoom'
    <3>1. row'[x].status = "queued" /\ row'[x].attempts = 0 BY <1>0, <2>2 DEF Table, EmptyRow
    <3>2. \A i \in Jobs \ {x} : row'[i] = row[i] BY <1>0, <2>2 DEF Table
    <3>3. \A i \in Jobs : RowRoom(i) BY <1>0, <1>2, <3>1, <3>2 DEF RowRoom, Enqueue
    <3>4. \A w \in Workers : ThreadRoom(w) BY <1>0, <1>2, <1>b, <3>1, <3>2, ThreadKeepsRoom
      DEF Enqueue, ThreadRoom, Holds, Running, Job, At
    <3> QED BY <3>3, <3>4, RoomStep
  <2> QED BY <1>2, <2>1, <2>2 DEF Enqueue
<1>3. ASSUME NEW j \in Jobs, Cancel(j) PROVE AttemptRoom'
  BY <1>0, <1>3, <1>b, ThreadKeepsRoom, RoomStep DEF Cancel, Table, Queued, Running, Row,
     RowRoom, ThreadRoom, Holds, Job, At
<1>4. ASSUME NEW j \in Jobs, Retry(j) PROVE AttemptRoom'
  <2>1. \A i \in Jobs \ {j} : row'[i] = row[i] BY <1>0, <1>4 DEF Retry, Table
  <2>2. row'[j].attempts = 0 /\ row'[j].status = "queued" BY <1>0, <1>4 DEF Retry, Table, Row
  <2>3. \A i \in Jobs : RowRoom(i) BY <1>0, <1>4, <2>1, <2>2 DEF RowRoom, Retry, history
  <2>4. \A w \in Workers : ThreadRoom(w)
    BY <1>4, <1>b, <2>1, <2>2, ThreadKeepsRoom DEF Retry, ThreadRoom, Holds, Running, Job, At
  <2> QED BY <2>3, <2>4, RoomStep
<1>5. ASSUME NEW j \in Jobs, GoStale(j) PROVE AttemptRoom'
  BY <1>0, <1>5, <1>b, ThreadKeepsRoom, RoomStep DEF GoStale, Table, Row, RowRoom, history,
     ThreadRoom, Holds, Running, Job, At
<1>6. ASSUME NEW w \in Workers, NEW j \in Jobs, Dequeue(w, j) PROVE AttemptRoom'
  <2>1. /\ row'[j].attempts = row[j].attempts + 1
        /\ row'[j].status = "running" /\ row'[j].lockedBy = w
        /\ \A i \in Jobs \ {j} : row'[i] = row[i]
    BY <1>0, <1>6, LockedGood DEF Dequeue, Table
  <2>2. row[j].attempts < MaxAttempts + reaps[j] BY <1>6 DEF Dequeue, AttemptRoom
  <2>3. \A i \in Jobs : RowRoom(i) BY <1>0, <1>6, <2>1, <2>2 DEF RowRoom, Dequeue
  <2>4. \A v \in Workers : ThreadRoom(v)
    <3> SUFFICES ASSUME NEW v \in Workers PROVE ThreadRoom(v) OBVIOUS
    <3>1. CASE v = w BY <1>0, <1>6, <3>1 DEF Dequeue, ThreadRoom, Idle
    <3>2. CASE v # w BY <1>0, <1>6, <1>b, <2>1, <3>2, ThreadKeepsRoom
      DEF Dequeue, ThreadRoom, Holds, Running, Job, At
    <3> QED BY <3>1, <3>2
  <2> QED BY <2>3, <2>4, RoomStep
<1>7. ASSUME NEW w \in Workers, NEW s \in Status \ {"running", "queued"},
             Job(w) \in Jobs, Release(w, s), Rest(w), reaps' = reaps
      PROVE  AttemptRoom'
  <2>1. \A i \in Jobs : \/ row'[i] = row[i]
                        \/ row'[i].status = s /\ row'[i].attempts = row[i].attempts
    BY <1>0, <1>7, ReleaseEffect
  <2>2. \A i \in Jobs : RowRoom(i) BY <1>0, <1>7, <2>1 DEF RowRoom
  <2>3. \A v \in Workers : ThreadRoom(v) BY <1>0, <1>7, <2>1, OthersKeepRoom DEF Rest
  <2> QED BY <2>2, <2>3, RoomStep
<1>8. ASSUME NEW w \in Workers, Succeed(w) PROVE AttemptRoom'
  BY <1>7, <1>8, BusyThread DEF Succeed, At, Busy, Status
<1>9. ASSUME NEW w \in Workers, ObserveCancel(w) PROVE AttemptRoom'
  BY <1>7, <1>9, BusyThread DEF ObserveCancel, At, Busy, Status, history
<1>10. ASSUME NEW w \in Workers, NEW where, NEW s, thread[w].at \in Busy,
              Decide(w, where, s), UNCHANGED <<row, reaps>>,
              where = "failing" /\ s = "queued" => row[Job(w)].attempts < MaxAttempts
       PROVE  AttemptRoom'
  BY <1>0, <1>1, <1>10 DEF Decide, Thread, Job
<1>11. ASSUME NEW w \in Workers, NEW r \in BOOLEAN, FailRead(w, r) PROVE AttemptRoom'
  BY <1>10, <1>11 DEF FailStatus, FailRead, At, Busy, history
<1>12. ASSUME NEW w \in Workers, DeferRead(w) PROVE AttemptRoom'
  BY <1>10, <1>12 DEF DeferRead, At, Busy, history
<1>13. ASSUME NEW w \in Workers, DeferCollides(w) PROVE AttemptRoom'
  BY <1>10, <1>13 DEF FailStatus, DeferCollides, At, Busy, history
<1>14. ASSUME NEW w \in Workers, FailWrite(w) PROVE AttemptRoom'
  <2>1. Job(w) \in Jobs /\ thread[w].verdict \in Status \ {"running"}
    BY <1>14, BusyThread DEF FailWrite, At, Busy
  <2>2. \A i \in Jobs :
          \/ row'[i] = row[i]
          \/ /\ i = Job(w) /\ Holds(w) /\ row'[i].status = thread[w].verdict
             /\ row'[i].attempts = row[i].attempts
    <3> DEFINE s == thread[w].verdict
    <3> SUFFICES ASSUME NEW i \in Jobs
                 PROVE  \/ row'[i] = row[i]
                        \/ /\ i = Job(w) /\ Holds(w) /\ row'[i].status = s
                           /\ row'[i].attempts = row[i].attempts
      OBVIOUS
    <3>1. Table /\ Job(w) \in Jobs /\ s \in Status \ {"running"} BY <1>0, <2>1
    <3>2. row' = row \/ Release(w, s) BY <1>14 DEF FailWrite
    <3> HIDE DEF s
    <3> QED BY <3>1, <3>2, ReleaseEffect
  <2>3. thread[w].verdict = "queued" /\ Holds(w) => row[Job(w)].attempts < MaxAttempts
    BY <1>14 DEF AttemptRoom, FailWrite
  <2>4. ASSUME NEW i \in Jobs PROVE RowRoom(i)
    <3>1. reaps'[i] = reaps[i] /\ reaps[i] \in Nat /\ row[i].attempts \in Nat
      BY <1>0, <1>14 DEF FailWrite, history, Row
    <3> QED BY <2>2, <2>3, <3>1 DEF RowRoom
  <2>5. \A v \in Workers : ThreadRoom(v)
    BY <1>0, <1>14, <2>1, <2>2, OthersKeepRoom DEF FailWrite, Rest
  <2> QED BY <2>4, <2>5, RoomStep
<1>15. ASSUME NEW w \in Workers, DeferWrite(w) PROVE AttemptRoom'
  <2>1. Job(w) \in Jobs /\ thread[w].verdict \in Status \ {"running"}
    BY <1>15, BusyThread DEF DeferWrite, At, Busy
  <2>2. \A i \in Jobs :
          \/ row'[i] = row[i]
          \/ /\ row'[i].status = thread[w].verdict
             /\ row'[i].attempts <= row[i].attempts
             /\ thread[w].verdict = "queued" /\ row[i].attempts > 0
                  => row'[i].attempts < row[i].attempts
    BY <1>0, <1>15, <2>1, DeferEffect
  <2>3. \A i \in Jobs : row'[i].attempts \in Nat BY DEF Basic, Table, Row
  <2>4. \A i \in Jobs : RowRoom(i)
    BY <1>0, <1>15, <2>2, <2>3 DEF RowRoom, DeferWrite, history, AttemptRoom
  <2>5. \A v \in Workers : ThreadRoom(v)
    BY <1>0, <1>15, <2>1, <2>2, OthersKeepRoom DEF DeferWrite, Rest
  <2> QED BY <2>4, <2>5, RoomStep
<1>16. ASSUME NEW p \in Procs, Heartbeat(p) PROVE AttemptRoom'
  <2>1. \A i \in Jobs : /\ row'[i].attempts = row[i].attempts
                        /\ row'[i].status = row[i].status
                        /\ row'[i].lockedBy = row[i].lockedBy
    BY <1>0, <1>16 DEF Heartbeat, Row
  <2>2. \A i \in Jobs : RowRoom(i) BY <1>0, <1>16, <2>1 DEF RowRoom, Heartbeat, history
  <2>3. \A w \in Workers : ThreadRoom(w)
    <3> SUFFICES ASSUME NEW w \in Workers, thread[w].at = "failing" PROVE ThreadRoom(w)
      BY <1>16 DEF Heartbeat, ThreadRoom
    <3>1. Holds(w)' => Holds(w) BY <1>16, <1>b, <2>1 DEF Heartbeat, Holds, Running, Job, At
    <3> QED BY <1>16, <1>b, <2>1, <3>1, ThreadKeepsRoom DEF Heartbeat, At
  <2> QED BY <2>2, <2>3, RoomStep
<1>17. ASSUME NEW p \in Procs, Crash(p) PROVE AttemptRoom'
  BY <1>1, <1>17 DEF Crash, Down, history
<1>18. CASE ReapStale
  <2>1. \A i \in Jobs :
          \/ row'[i] = row[i] /\ reaps'[i] = reaps[i]
          \/ /\ reaps'[i] = reaps[i] + 1 /\ row'[i].attempts = row[i].attempts
             /\ row'[i].status # "running"
    <3> SUFFICES ASSUME NEW i \in Jobs
                 PROVE  \/ row'[i] = row[i] /\ reaps'[i] = reaps[i]
                        \/ /\ reaps'[i] = reaps[i] + 1 /\ row'[i].attempts = row[i].attempts
                           /\ row'[i].status # "running"
      OBVIOUS
    <3>1. CASE i \in Stale
      <4>1. Requeued(i) \in Status \ {"running"} BY DEF Requeued, Status
      <4>2. row'[i] = Unlocked(row[i], Requeued(i)) /\ reaps'[i] = reaps[i] + 1
        BY <1>18, <3>1 DEF ReapStale
      <4> QED BY <1>0, <4>1, <4>2, UnlockedGood
    <3>2. CASE i \notin Stale BY <1>18, <3>2 DEF ReapStale
    <3> QED BY <3>1, <3>2
  <2>2. \A i \in Jobs : RowRoom(i) BY <1>0, <2>1 DEF RowRoom, AttemptRoom
  <2>3. \A w \in Workers : ThreadRoom(w)
    <3> SUFFICES ASSUME NEW w \in Workers, thread[w].at = "failing" PROVE ThreadRoom(w)
      BY <1>18 DEF ReapStale, ThreadRoom
    <3>1. Holds(w)' => Holds(w) /\ row'[Job(w)] = row[Job(w)]
      BY <1>18, <1>b, <2>1 DEF ReapStale, Holds, Running, Job, At
    <3> QED BY <1>18, <3>1, ThreadKeepsRoom DEF ReapStale
  <2> QED BY <2>2, <2>3, RoomStep
<1>19. CASE UNCHANGED vars BY <1>1, <1>19 DEF vars
<1> QED BY <1>2, <1>3, <1>4, <1>5, <1>6, <1>8, <1>9, <1>11, <1>12, <1>13, <1>14, <1>15, <1>16,
     <1>17, <1>18, <1>19 DEF Next, ThreadStep

\* No job runs more often than max_attempts plus the times it was reaped.
THEOREM AttemptsWithinMax == Spec => []AttemptsBounded
<1>1. Init => AttemptRoom BY DEF Init, AttemptRoom, Queued, At, EmptyRow, Idle
<1>2. AttemptRoom => AttemptsBounded BY DEF AttemptRoom, AttemptsBounded
<1> QED BY <1>1, <1>2, BasicInvariant, AttemptRoomStep, PTL DEF Spec

-----------------------------------------------------------------------------
(***************************************************************************)
(* Leases and final statuses: what a step may do to a row.                 *)
(***************************************************************************)
LeaseEnd(j) ==
    Running(j) /\ ~(Running(j)' /\ row'[j].lockedBy = row[j].lockedBy) =>
       \/ reaps'[j] = reaps[j] + 1 /\ ~row[j].fresh
       \/ LET w == row[j].lockedBy IN Job(w) = j /\ thread'[w] = Idle

Settled(j) ==
    row[j].status \in Terminal /\ row'[j].status # row[j].status =>
       row[j].status \in {"failed", "dead"} /\ budget'["retry"] < budget["retry"]

\* A step that keeps a row, or only its status and owner, satisfies both.
LEMMA KeptRow ==
  ASSUME NEW j \in Jobs, row'[j].status = row[j].status, row'[j].lockedBy = row[j].lockedBy
  PROVE  LeaseEnd(j) /\ Settled(j)
  BY DEF LeaseEnd, Settled, Running

\* Every step ends a lease, and leaves a settled status, only as the rules allow.
LEMMA RowRules == Basic /\ [Next]_vars => \A j \in Jobs : LeaseEnd(j) /\ Settled(j)
<1> SUFFICES ASSUME Basic, [Next]_vars, NEW i \in Jobs PROVE LeaseEnd(i) /\ Settled(i) OBVIOUS
<1>0. /\ Table /\ \A j \in Jobs : row[j] \in Row
      /\ thread \in [Workers -> Thread]
  BY DEF Basic, Table, Threads
<1>1. ASSUME row'[i] = row[i] PROVE LeaseEnd(i) /\ Settled(i) BY <1>1, KeptRow
<1>2. ASSUME row[i].status \notin Terminal \cup {"running"} PROVE LeaseEnd(i) /\ Settled(i)
  BY <1>2 DEF LeaseEnd, Settled, Running
<1>3. ASSUME NEW w \in Workers, Rest(w), Job(w) = i, Holds(w) PROVE LeaseEnd(i) /\ Settled(i)
  BY <1>0, <1>3 DEF LeaseEnd, Settled, Rest, Holds, Running, Terminal
<1>4. ASSUME NEW k \in Keys \cup {NoKey}, Enqueue(k) PROVE LeaseEnd(i) /\ Settled(i)
  <2>1. CASE row[i].status = "absent" BY <1>2, <2>1 DEF Terminal
  <2>2. CASE row[i].status # "absent" BY <1>0, <1>1, <1>4, <2>2 DEF Enqueue, Table
  <2> QED BY <2>1, <2>2
<1>5. ASSUME NEW j \in Jobs, Cancel(j) PROVE LeaseEnd(i) /\ Settled(i)
  <2>1. CASE i # j BY <1>0, <1>1, <1>5, <2>1 DEF Cancel, Table
  <2>2. CASE i = j /\ Queued(j) BY <1>2, <2>2 DEF Queued, Terminal
  <2>3. CASE i = j /\ ~Queued(j)
    BY <1>0, <1>5, <2>3, KeptRow DEF Cancel, Table, Queued, Running, Row
  <2> QED BY <2>1, <2>2, <2>3
<1>6. ASSUME NEW j \in Jobs, Retry(j) PROVE LeaseEnd(i) /\ Settled(i)
  <2>1. CASE i # j BY <1>0, <1>1, <1>6, <2>1 DEF Retry, Table
  <2>2. CASE i = j
    <3>1. budget'["retry"] < budget["retry"] BY <1>6 DEF Basic, Ledger, Retry, Spend
    <3> QED BY <1>6, <2>2, <3>1 DEF Retry, LeaseEnd, Settled, Running
  <2> QED BY <2>1, <2>2
<1>7. ASSUME NEW j \in Jobs, GoStale(j) PROVE LeaseEnd(i) /\ Settled(i)
  BY <1>0, <1>7, KeptRow DEF GoStale, Table, Row
<1>8. ASSUME NEW w \in Workers, NEW j \in Jobs, Dequeue(w, j) PROVE LeaseEnd(i) /\ Settled(i)
  <2>1. CASE i # j BY <1>0, <1>1, <1>8, <2>1 DEF Dequeue, Table
  <2>2. CASE i = j BY <1>2, <1>8, <2>2 DEF Dequeue, Queued, Terminal
  <2> QED BY <2>1, <2>2
<1>9. ASSUME NEW w \in Workers, NEW s \in Status \ {"running"}, Job(w) \in Jobs,
             Release(w, s), Rest(w)
      PROVE  LeaseEnd(i) /\ Settled(i)
  BY <1>0, <1>1, <1>3, <1>9, ReleaseEffect
<1>10. ASSUME NEW w \in Workers, Succeed(w) PROVE LeaseEnd(i) /\ Settled(i)
  BY <1>9, <1>10, BusyThread DEF Succeed, At, Busy, Status
<1>11. ASSUME NEW w \in Workers, ObserveCancel(w) PROVE LeaseEnd(i) /\ Settled(i)
  BY <1>9, <1>11, BusyThread DEF ObserveCancel, At, Busy, Status
<1>12. ASSUME NEW w \in Workers, FailWrite(w) PROVE LeaseEnd(i) /\ Settled(i)
  BY <1>1, <1>9, <1>12, BusyThread DEF FailWrite, At, Busy
<1>13. ASSUME NEW w \in Workers, DeferWrite(w) PROVE LeaseEnd(i) /\ Settled(i)
  BY <1>0, <1>1, <1>3, <1>13, BusyThread, DeferEffect DEF DeferWrite, At, Busy
<1>14. ASSUME NEW p \in Procs, Heartbeat(p) PROVE LeaseEnd(i) /\ Settled(i)
  BY <1>0, <1>14, KeptRow DEF Heartbeat, Row
<1>15. CASE ReapStale
  <2>1. CASE i \in Stale
    BY <1>15, <2>1 DEF ReapStale, Stale, LeaseEnd, Settled, Running, Terminal
  <2>2. CASE i \notin Stale BY <1>1, <1>15, <2>2 DEF ReapStale
  <2> QED BY <2>1, <2>2
<1> QED BY <1>1, <1>4, <1>5, <1>6, <1>7, <1>8, <1>10, <1>11, <1>12, <1>13, <1>14, <1>15
  DEF Next, ThreadStep, FailRead, DeferRead, DeferCollides, Crash, vars

\* Fencing: a lease ends by the thread that holds it, or by the reaper once the
\* heartbeat is stale.  A thread that lost its lease never touches the row again.
THEOREM LeasesEndProperly == Spec => LeaseEndsProperly
<1>1. Basic /\ [Next]_vars => [\A j \in Jobs : LeaseEnd(j)]_vars BY RowRules
<1>2. (\A j \in Jobs : LeaseEnd(j)) <=>
        \A j \in Jobs : Running(j) /\ ~(Running(j)' /\ row'[j].lockedBy = row[j].lockedBy) =>
          \/ reaps'[j] = reaps[j] + 1 /\ ~row[j].fresh
          \/ LET w == row[j].lockedBy IN Job(w) = j /\ thread'[w] = Idle
  BY DEF LeaseEnd
<1> QED BY <1>1, <1>2, BasicInvariant, PTL DEF Spec, LeaseEndsProperly

\* Success and cancellation are final; a job that gave up returns only by retry.
THEOREM SettledJobsStay == Spec => SettledStays
<1>1. Basic /\ [Next]_vars => [\A j \in Jobs : Settled(j)]_vars BY RowRules
<1>2. (\A j \in Jobs : Settled(j)) <=>
        \A j \in Jobs : row[j].status \in Terminal /\ row'[j].status # row[j].status =>
          row[j].status \in {"failed", "dead"} /\ budget'["retry"] < budget["retry"]
  BY DEF Settled
<1> QED BY <1>1, <1>2, BasicInvariant, PTL DEF Spec, SettledStays

-----------------------------------------------------------------------------
(***************************************************************************)
(* A keyless job is never left to a thread that works on something else.   *)
(***************************************************************************)
\* What a step must show of each row and of each thread: no row starts running or
\* changes hands, and a thread lets go of a keyless row only with the row itself.
RowStays(i) ==
    row'[i].status = "running" =>
       /\ row[i].status = "running"
       /\ row'[i].key = row[i].key
       /\ row'[i].lockedBy = row[i].lockedBy

ThreadStays(v) ==
    \/ thread'[v] = thread[v]
    \/ thread'[v].at = "down"
    \/ thread[v].at \in Busy /\ thread'[v].at \in Busy /\ thread'[v].job = thread[v].job
    \/ \A i \in Jobs : ~(row'[i].status = "running" /\ row'[i].key = NoKey /\ row'[i].lockedBy = v)

\* Rows and threads that stay put, one by one, keep every keyless job attended.
LEMMA AttendedStep ==
  ASSUME Basic, KeylessNeverStranded,
         \A i \in Jobs : RowStays(i), \A v \in Workers : ThreadStays(v)
  PROVE  KeylessNeverStranded'
<1> SUFFICES ASSUME NEW j \in Jobs, row'[j].status = "running", row'[j].key = NoKey
             PROVE  LET w == row'[j].lockedBy
                    IN thread'[w].at = "down" \/ (thread'[w].at \in Busy /\ thread'[w].job = j)
  BY DEF KeylessNeverStranded, Running, At, Job
<1> DEFINE w == row[j].lockedBy
<1>1. row[j].status = "running" /\ row[j].key = NoKey /\ row'[j].lockedBy = w BY DEF RowStays
<1>2. w \in Workers BY <1>1 DEF Basic, Table, GoodRow, Row
<1>3. thread[w].at = "down" \/ (thread[w].at \in Busy /\ thread[w].job = j)
  BY <1>1 DEF KeylessNeverStranded, Running, At, Job
<1>4. ThreadStays(w) BY <1>2
<1> HIDE DEF w
<1> QED BY <1>1, <1>3, <1>4 DEF ThreadStays, Busy

\* A thread that rests has let go of its keyless job, or never held one.
LEMMA RestedKeepsNone ==
  ASSUME Basic, KeylessNeverStranded, NEW w \in Workers, thread[w].at \in Busy, Rest(w),
         \A i \in Jobs : row'[i] = row[i] \/ (i = Job(w) /\ row'[i].status # "running"),
         Holds(w) => row'[Job(w)].status # "running" \/ row[Job(w)].key # NoKey
  PROVE  KeylessNeverStranded'
<1>1. \A i \in Jobs : RowStays(i) BY DEF RowStays
<1>2. \A v \in Workers \ {w} : ThreadStays(v) BY DEF Rest, ThreadStays, Basic, Threads
<1>3. ASSUME NEW i \in Jobs, row'[i].status = "running", row'[i].key = NoKey, row'[i].lockedBy = w
      PROVE  FALSE
  BY <1>1, <1>3 DEF RowStays, KeylessNeverStranded, Running, At, Busy, Holds
<1> QED BY <1>1, <1>2, <1>3, AttendedStep DEF ThreadStays

\* Every step keeps keyless jobs attended: only a queued twin, which a keyless job
\* cannot have, makes a thread leave a row it could not put back.
LEMMA KeylessStep == Basic /\ KeylessNeverStranded /\ [Next]_vars => KeylessNeverStranded'
<1> SUFFICES ASSUME Basic, KeylessNeverStranded, [Next]_vars PROVE KeylessNeverStranded' OBVIOUS
<1>0. /\ Table /\ \A j \in Jobs : row[j] \in Row
      /\ thread \in [Workers -> Thread]
  BY DEF Basic, Table, Threads
<1>1. ASSUME thread' = thread, \A i \in Jobs : RowStays(i) PROVE KeylessNeverStranded'
  BY <1>1, AttendedStep DEF ThreadStays
<1>2. ASSUME row' = row, \A v \in Workers : ThreadStays(v) PROVE KeylessNeverStranded'
  BY <1>2, AttendedStep DEF RowStays
<1>3. ASSUME NEW k \in Keys \cup {NoKey}, Enqueue(k) PROVE KeylessNeverStranded'
  <2>1. CASE row' = row BY <1>1, <1>3, <2>1 DEF Enqueue, RowStays
  <2>2. ASSUME NEW x \in Jobs,
               row' = [row EXCEPT ![x] = [EmptyRow EXCEPT !.status = "queued", !.key = k]]
        PROVE  KeylessNeverStranded'
    BY <1>0, <1>1, <1>3, <2>2 DEF Table, EmptyRow, Enqueue, RowStays
  <2> QED BY <1>3, <2>1, <2>2 DEF Enqueue
<1>4. ASSUME NEW j \in Jobs, Cancel(j) PROVE KeylessNeverStranded'
  BY <1>0, <1>1, <1>4 DEF Cancel, Table, Queued, Running, Row, RowStays
<1>5. ASSUME NEW j \in Jobs, Retry(j) PROVE KeylessNeverStranded'
  BY <1>0, <1>1, <1>5 DEF Retry, Table, Row, RowStays
<1>6. ASSUME NEW j \in Jobs, GoStale(j) PROVE KeylessNeverStranded'
  BY <1>0, <1>1, <1>6 DEF GoStale, Table, Row, RowStays
<1>7. ASSUME NEW w \in Workers, NEW j \in Jobs, Dequeue(w, j) PROVE KeylessNeverStranded'
  <2>1. /\ row'[j].lockedBy = w
        /\ \A i \in Jobs \ {j} : row'[i] = row[i]
    BY <1>0, <1>7, LockedGood DEF Dequeue, Table
  <2>2. /\ thread'[w].at = "handling" /\ thread'[w].job = j
        /\ \A v \in Workers \ {w} : thread'[v] = thread[v]
    BY <1>0, <1>7 DEF Dequeue, Idle
  <2>3. SUFFICES ASSUME NEW i \in Jobs, row'[i].status = "running", row'[i].key = NoKey
                 PROVE  LET v == row'[i].lockedBy
                        IN thread'[v].at = "down" \/ (thread'[v].at \in Busy /\ thread'[v].job = i)
    BY DEF KeylessNeverStranded, Running, At, Job
  <2>4. CASE i = j BY <2>1, <2>2, <2>4 DEF Busy
  <2>5. CASE i # j
    <3> DEFINE v == row[i].lockedBy
    <3>1. row[i].status = "running" /\ row[i].key = NoKey /\ row'[i].lockedBy = v
      BY <2>1, <2>3, <2>5
    <3>2. v \in Workers BY <3>1 DEF Basic, Table, GoodRow, Row
    <3>3. thread[v].at = "down" \/ (thread[v].at \in Busy /\ thread[v].job = i)
      BY <3>1 DEF KeylessNeverStranded, Running, At, Job
    <3>4. thread[w].at = "idle" BY <1>7 DEF Dequeue, At
    <3> HIDE DEF v
    <3>5. v # w BY <3>3, <3>4 DEF Busy
    <3> QED BY <2>2, <3>1, <3>2, <3>3, <3>5
  <2> QED BY <2>4, <2>5
<1>8. ASSUME NEW w \in Workers, NEW s \in Status \ {"running"}, thread[w].at \in Busy,
             Release(w, s), Rest(w)
      PROVE  KeylessNeverStranded'
  <2>1. Job(w) \in Jobs BY <1>8, BusyThread
  <2>2. \A i \in Jobs : row'[i] = row[i] \/ (i = Job(w) /\ row'[i].status = s)
    BY <1>0, <1>8, <2>1, ReleaseEffect
  <2>3. Holds(w) => row'[Job(w)].status = s BY <1>0, <1>8, <2>1, UnlockedGood DEF Release, Table
  <2> QED BY <1>8, <2>2, <2>3, RestedKeepsNone
<1>9. ASSUME NEW w \in Workers, Succeed(w) PROVE KeylessNeverStranded'
  BY <1>8, <1>9 DEF Succeed, At, Busy, Status
<1>10. ASSUME NEW w \in Workers, ObserveCancel(w) PROVE KeylessNeverStranded'
  BY <1>8, <1>10 DEF ObserveCancel, At, Busy, Status
<1>11. ASSUME NEW w \in Workers, FailWrite(w) PROVE KeylessNeverStranded'
  <2>1. thread[w].at \in Busy /\ thread[w].verdict \in Status \ {"running"} /\ Rest(w)
    BY <1>11, BusyThread DEF FailWrite, At, Busy
  <2>2. CASE Collides(w)
    BY <1>11, <2>1, <2>2, RestedKeepsNone DEF FailWrite, Collides, TwinQueued
  <2>3. CASE ~Collides(w) BY <1>8, <1>11, <2>1, <2>3 DEF FailWrite
  <2> QED BY <2>2, <2>3
<1>12. ASSUME NEW w \in Workers, DeferWrite(w) PROVE KeylessNeverStranded'
  <2>1. thread[w].at \in Busy /\ thread[w].verdict \in Status \ {"running"} /\ Rest(w)
        /\ Job(w) \in Jobs
    BY <1>12, BusyThread DEF DeferWrite, At, Busy
  <2>2. \A i \in Jobs : row'[i] = row[i] \/ (i = Job(w) /\ row'[i].status = thread[w].verdict)
    BY <1>0, <1>12, <2>1, DeferEffect
  <2>3. Holds(w) => row'[Job(w)].status = thread[w].verdict
    BY <1>0, <1>12, <2>1, DeferredGood DEF DeferWrite, Table
  <2> QED BY <2>1, <2>2, <2>3, RestedKeepsNone
<1>13. ASSUME NEW w \in Workers, NEW where \in Busy, NEW s, thread[w].at \in Busy,
              Decide(w, where, s), row' = row
       PROVE  KeylessNeverStranded'
  BY <1>0, <1>2, <1>13 DEF Decide, Thread, ThreadStays
<1>14. ASSUME NEW w \in Workers, NEW r \in BOOLEAN, FailRead(w, r) PROVE KeylessNeverStranded'
  BY <1>13, <1>14 DEF FailRead, At, Busy
<1>15. ASSUME NEW w \in Workers, DeferRead(w) PROVE KeylessNeverStranded'
  BY <1>13, <1>15 DEF DeferRead, At, Busy
<1>16. ASSUME NEW w \in Workers, DeferCollides(w) PROVE KeylessNeverStranded'
  <2>1. /\ Decide(w, "failing", FailStatus(Job(w), TRUE))
        /\ thread[w].at \in Busy /\ row' = row
    BY <1>16 DEF DeferCollides, At, Busy
  <2>2. "failing" \in Busy BY DEF Busy
  <2> QED BY <1>13, <2>1, <2>2
<1>17. ASSUME NEW p \in Procs, Heartbeat(p) PROVE KeylessNeverStranded'
  BY <1>0, <1>1, <1>17 DEF Heartbeat, Row, RowStays
<1>18. ASSUME NEW p \in Procs, Crash(p) PROVE KeylessNeverStranded'
  BY <1>2, <1>18 DEF Crash, Down, ThreadStays
<1>19. CASE ReapStale
  <2>1. ASSUME NEW i \in Jobs PROVE RowStays(i)
    <3>1. CASE i \in Stale
      <4>1. row'[i] = Unlocked(row[i], Requeued(i)) /\ Requeued(i) \in Status \ {"running"}
        BY <1>19, <3>1 DEF ReapStale, Requeued, Status
      <4> DEFINE s == Requeued(i)
      <4>2. row[i] \in Row /\ s \in Status \ {"running"} BY <1>0, <4>1
      <4> HIDE DEF s
      <4>3. Unlocked(row[i], s).status # "running" BY <4>2, UnlockedGood
      <4> QED BY <4>1, <4>3 DEF RowStays, s
    <3>2. CASE i \notin Stale BY <1>19, <3>2 DEF ReapStale, RowStays
    <3> QED BY <3>1, <3>2
  <2> QED BY <1>1, <1>19, <2>1 DEF ReapStale
<1>20. CASE UNCHANGED vars BY <1>1, <1>20 DEF vars, RowStays
<1> QED BY <1>3, <1>4, <1>5, <1>6, <1>7, <1>9, <1>10, <1>11, <1>12, <1>14, <1>15, <1>16, <1>17,
     <1>18, <1>19, <1>20 DEF Next, ThreadStep

\* A running job without a dedupe key is always with the thread that holds it, or with
\* a dead process: fail and defer can always put it back, so no heartbeat of a thread
\* that went on to other work keeps it running for ever.
THEOREM KeylessJobsNeverStranded == Spec => []KeylessNeverStranded
<1>1. Init => KeylessNeverStranded BY DEF Init, KeylessNeverStranded, Running, EmptyRow
<1> QED BY <1>1, BasicInvariant, KeylessStep, PTL DEF Spec

-----------------------------------------------------------------------------
(***************************************************************************)
(* A handler commits once, and once more per reap.                         *)
(***************************************************************************)
\* OnceUnlessReaped is not inductive: a handler that is running may still commit, and
\* a job that is not settled may still be claimed.  Each counts for one commit.
Runs(j) == {w \in Workers : thread[w].at = "handling" /\ thread[w].job = j}

InHand(j) == row[j].status = "running" /\ row[j].lockedBy \in Runs(j)

Spare(j) == IF row[j].status \in {"succeeded", "cancelled"} \/ InHand(j) THEN 0 ELSE 1

CommitRoom ==
    \A j \in Jobs : /\ IsFiniteSet(Runs(j))
                    /\ effects[j] + Cardinality(Runs(j)) + Spare(j) <= 1 + reaps[j]

\* What a step must show of each job: its runs and its commits stay and its claim does
\* not grow; the reaper counts; a claim becomes a run; a run ends.
CommitStep(j) ==
    \/ /\ Runs(j)' = Runs(j) /\ effects'[j] = effects[j] /\ reaps'[j] = reaps[j]
       /\ Spare(j)' <= Spare(j)
    \/ Runs(j)' = Runs(j) /\ effects'[j] = effects[j] /\ reaps'[j] = reaps[j] + 1
    \/ /\ \E w \in Workers \ Runs(j) : Runs(j)' = Runs(j) \cup {w}
       /\ effects'[j] = effects[j] /\ reaps'[j] = reaps[j]
       /\ Spare(j) = 1 /\ Spare(j)' = 0
    \/ /\ Runs(j)' \subseteq Runs(j) /\ Runs(j)' # Runs(j)
       /\ effects'[j] + Spare(j)' <= effects[j] + Spare(j) + 1
       /\ reaps'[j] = reaps[j]

\* The room of one job survives a step of its own kind.
LEMMA RoomForOne ==
  ASSUME Basic, Basic', NEW j \in Jobs, IsFiniteSet(Runs(j)),
         effects[j] + Cardinality(Runs(j)) + Spare(j) <= 1 + reaps[j], CommitStep(j)
  PROVE  /\ IsFiniteSet(Runs(j)')
         /\ effects'[j] + Cardinality(Runs(j)') + Spare(j)' <= 1 + reaps'[j]
<1> DEFINE S == Runs(j)
           T == Runs(j)'
           s == Spare(j)
           t == Spare(j)'
<1>1. /\ effects[j] \in Nat /\ effects'[j] \in Nat /\ reaps[j] \in Nat /\ reaps'[j] \in Nat
      /\ s \in {0, 1} /\ t \in {0, 1}
  BY DEF Basic, Ledger, Spare
<1>2. IsFiniteSet(S) /\ Cardinality(S) \in Nat /\ effects[j] + Cardinality(S) + s <= 1 + reaps[j]
  BY FS_CardinalityType
<1>3. CASE T = S /\ effects'[j] = effects[j] /\ reaps'[j] = reaps[j] /\ t <= s
  <2> HIDE DEF S, T, s, t
  <2>1. IsFiniteSet(T) /\ Cardinality(T) = Cardinality(S) BY <1>2, <1>3
  <2>2. effects'[j] + Cardinality(T) + t <= 1 + reaps'[j] BY <1>1, <1>2, <1>3, <2>1
  <2> QED BY <2>1, <2>2 DEF T, t
<1>4. CASE T = S /\ effects'[j] = effects[j] /\ reaps'[j] = reaps[j] + 1
  <2> HIDE DEF S, T, s, t
  <2>1. IsFiniteSet(T) /\ Cardinality(T) = Cardinality(S) BY <1>2, <1>4
  <2>2. effects'[j] + Cardinality(T) + t <= 1 + reaps'[j] BY <1>1, <1>2, <1>4, <2>1
  <2> QED BY <2>1, <2>2 DEF T, t
<1>5. ASSUME NEW w \in Workers \ S, T = S \cup {w}, effects'[j] = effects[j],
             reaps'[j] = reaps[j], s = 1, t = 0
      PROVE  /\ IsFiniteSet(Runs(j)')
             /\ effects'[j] + Cardinality(Runs(j)') + Spare(j)' <= 1 + reaps'[j]
  <2> HIDE DEF S, T, s, t
  <2>1. IsFiniteSet(T) /\ Cardinality(T) = Cardinality(S) + 1 BY <1>2, <1>5, FS_AddElement
  <2>2. effects'[j] + Cardinality(T) + t <= 1 + reaps'[j] BY <1>1, <1>2, <1>5, <2>1
  <2> QED BY <2>1, <2>2 DEF T, t
<1>6. CASE /\ T \subseteq S /\ T # S /\ effects'[j] + t <= effects[j] + s + 1
           /\ reaps'[j] = reaps[j]
  <2> HIDE DEF S, T, s, t
  <2>1. /\ IsFiniteSet(T) /\ Cardinality(T) \in Nat
        /\ Cardinality(T) <= Cardinality(S) /\ Cardinality(T) # Cardinality(S)
    BY <1>2, <1>6, FS_Subset, FS_CardinalityType
  <2>2. effects'[j] + Cardinality(T) + t <= 1 + reaps'[j] BY <1>1, <1>2, <1>6, <2>1
  <2> QED BY <2>1, <2>2 DEF T, t
<1> QED BY <1>3, <1>4, <1>5, <1>6 DEF CommitStep

\* A job whose status and holder stay, that settles, or that was not running, claims no
\* more than before while its runs stay.
LEMMA ClaimStays ==
  ASSUME NEW j \in Jobs, Runs(j)' = Runs(j), effects'[j] = effects[j], reaps'[j] = reaps[j],
         \/ row'[j].status = row[j].status /\ row'[j].lockedBy = row[j].lockedBy
         \/ row'[j].status \in {"succeeded", "cancelled"}
         \/ row[j].status \notin {"succeeded", "cancelled", "running"}
         \/ row[j].status = "running" /\ row[j].lockedBy \notin Runs(j)
  PROVE  CommitStep(j)
  BY DEF CommitStep, Spare, InHand

\* The runs of a job change with its threads only.
LEMMA RunsStay ==
  ASSUME NEW j \in Jobs,
         \A v \in Workers : \/ thread'[v] = thread[v]
                            \/ /\ thread[v].at # "handling" \/ thread[v].job # j
                               /\ thread'[v].at # "handling" \/ thread'[v].job # j
  PROVE  Runs(j)' = Runs(j)
  BY DEF Runs

\* A handling thread that stops handling ends one run of its job and of no other.
LEMMA RunEnds ==
  ASSUME Basic, NEW w \in Workers, thread[w].at = "handling", NEW t, t.at # "handling",
         thread' = [thread EXCEPT ![w] = t], UNCHANGED reaps, NEW j \in Jobs, j = Job(w),
         \A i \in Jobs \ {j} : row'[i] = row[i] /\ effects'[i] = effects[i],
         effects'[j] + Spare(j)' <= effects[j] + Spare(j) + 1
  PROVE  \A i \in Jobs : CommitStep(i)
<1> SUFFICES ASSUME NEW i \in Jobs PROVE CommitStep(i) OBVIOUS
<1>1. thread'[w].at # "handling" /\ \A v \in Workers \ {w} : thread'[v] = thread[v]
  BY DEF Basic, Threads
<1>2. CASE i = j BY <1>1, <1>2 DEF Runs, Job, CommitStep
<1>3. CASE i # j
  <2>1. Runs(i)' = Runs(i) BY <1>1, <1>3 DEF Runs, Job
  <2> QED BY <1>3, <2>1, ClaimStays
<1> QED BY <1>2, <1>3

\* Every step leaves each job room for the commits it may still make.
LEMMA CommitRoomStep == Basic /\ Basic' /\ CommitRoom /\ [Next]_vars => CommitRoom'
<1> SUFFICES ASSUME Basic, Basic', CommitRoom, [Next]_vars PROVE CommitRoom' OBVIOUS
<1>0. /\ Table /\ \A j \in Jobs : row[j] \in Row
      /\ thread \in [Workers -> Thread]
      /\ effects \in [Jobs -> Nat] /\ reaps \in [Jobs -> Nat]
  BY DEF Basic, Table, Threads, Ledger
<1>k. ASSUME \A i \in Jobs : CommitStep(i) PROVE CommitRoom' BY <1>k, RoomForOne DEF CommitRoom
<1>r. ASSUME thread' = thread, NEW i \in Jobs PROVE Runs(i)' = Runs(i) BY <1>r, RunsStay
<1>1. ASSUME thread' = thread, effects' = effects, reaps' = reaps,
             NEW x \in Jobs, \A i \in Jobs \ {x} : row'[i] = row[i],
             \/ row'[x].status = row[x].status /\ row'[x].lockedBy = row[x].lockedBy
             \/ row[x].status \notin {"succeeded", "cancelled", "running"}
      PROVE  CommitRoom'
  BY <1>1, <1>k, <1>r, ClaimStays
<1>2. ASSUME NEW k \in Keys \cup {NoKey}, Enqueue(k) PROVE CommitRoom'
  <2>1. CASE row' = row BY <1>2, <1>k, <1>r, <2>1, ClaimStays DEF Enqueue
  <2>2. ASSUME NEW x \in Jobs, row[x].status = "absent",
               row' = [row EXCEPT ![x] = [EmptyRow EXCEPT !.status = "queued", !.key = k]]
        PROVE  CommitRoom'
    BY <1>0, <1>1, <1>2, <2>2 DEF Table, Enqueue
  <2> QED BY <1>2, <2>1, <2>2 DEF Enqueue
<1>3. ASSUME NEW j \in Jobs, Cancel(j) PROVE CommitRoom'
  BY <1>0, <1>1, <1>3 DEF Cancel, Table, Queued, Running, Row
<1>4. ASSUME NEW j \in Jobs, Retry(j) PROVE CommitRoom'
  BY <1>0, <1>1, <1>4 DEF Retry, Table, history
<1>5. ASSUME NEW j \in Jobs, GoStale(j) PROVE CommitRoom'
  BY <1>0, <1>1, <1>5 DEF GoStale, Table, Row, history
<1>6. ASSUME NEW w \in Workers, NEW j \in Jobs, Dequeue(w, j) PROVE CommitRoom'
  <2>1. /\ row'[j].status = "running" /\ row'[j].lockedBy = w
        /\ \A i \in Jobs \ {j} : row'[i] = row[i]
    BY <1>0, <1>6, LockedGood DEF Dequeue, Table
  <2>2. /\ thread[w].at = "idle"
        /\ thread'[w].at = "handling" /\ thread'[w].job = j
        /\ \A v \in Workers \ {w} : thread'[v] = thread[v]
    BY <1>0, <1>6 DEF Dequeue, Idle, At
  <2>3. ASSUME NEW i \in Jobs \ {j} PROVE CommitStep(i)
    BY <1>6, <2>1, <2>2, RunsStay, ClaimStays DEF Dequeue
  <2>4. CommitStep(j) BY <1>6, <2>1, <2>2 DEF Runs, Dequeue, Queued, Spare, InHand, CommitStep
  <2> QED BY <1>k, <2>3, <2>4
<1>7. ASSUME NEW w \in Workers, Succeed(w) PROVE CommitRoom'
  <2>1. Job(w) \in Jobs /\ thread[w].at = "handling" /\ Idle.at # "handling"
    BY <1>7, BusyThread DEF Succeed, At, Busy, Idle
  <2>j. PICK j \in Jobs : j = Job(w) BY <2>1
  <2>2. /\ effects'[j] = effects[j] + 1
        /\ \A i \in Jobs \ {j} : effects'[i] = effects[i]
    BY <1>0, <1>7, <2>j DEF Succeed
  <2>3. \A i \in Jobs \ {j} : row'[i] = row[i]
    BY <1>0, <1>7, <2>1, <2>j, ReleaseEffect DEF Succeed, Status
  <2>4. Spare(j)' <= Spare(j)
    <3>1. CASE Holds(w)
      BY <1>0, <1>7, <2>j, <3>1, UnlockedGood DEF Succeed, Release, Table, Status, Spare
    <3>2. CASE ~Holds(w)
      <4>1. row' = row BY <1>7, <3>2 DEF Succeed, Release
      <4>2. \A v \in Workers \ {w} : thread'[v] = thread[v] BY <1>0, <1>7 DEF Succeed, Rest
      <4>3. InHand(j) => row[j].lockedBy # w BY <2>j, <3>2 DEF InHand, Holds, Running
      <4>4. InHand(j) => row[j].lockedBy \in Runs(j)' BY <4>2, <4>3 DEF InHand, Runs
      <4>5. InHand(j) => InHand(j)' BY <4>1, <4>4 DEF InHand
      <4> QED BY <4>1, <4>5 DEF Spare
    <3> QED BY <3>1, <3>2
  <2>5. effects'[j] + Spare(j)' <= effects[j] + Spare(j) + 1 BY <1>0, <2>2, <2>4 DEF Spare
  <2>6. thread' = [thread EXCEPT ![w] = Idle] /\ reaps' = reaps BY <1>7 DEF Succeed, Rest
  <2> QED BY <1>k, <2>1, <2>2, <2>3, <2>5, <2>6, <2>j, RunEnds
<1>8. ASSUME NEW w \in Workers, thread[w].at = "handling", NEW t, t.at # "handling",
             thread' = [thread EXCEPT ![w] = t],
             \A i \in Jobs \ {Job(w)} : row'[i] = row[i], effects' = effects, reaps' = reaps
      PROVE  CommitRoom'
  <2>1. Job(w) \in Jobs BY <1>8, BusyThread DEF Busy
  <2>j. PICK j \in Jobs : j = Job(w) BY <2>1
  <2>2. effects'[j] + Spare(j)' <= effects[j] + Spare(j) + 1 BY <1>0, <1>8 DEF Spare
  <2> QED BY <1>8, <1>k, <2>j, <2>2, RunEnds
<1>9. ASSUME NEW w \in Workers, ObserveCancel(w) PROVE CommitRoom'
  <2>1. Job(w) \in Jobs /\ thread[w].at = "handling" /\ Idle.at # "handling"
    BY <1>9, BusyThread DEF ObserveCancel, At, Busy, Idle
  <2>2. \A i \in Jobs \ {Job(w)} : row'[i] = row[i]
    BY <1>0, <1>9, <2>1, ReleaseEffect DEF ObserveCancel, Status
  <2> QED BY <1>8, <1>9, <2>1, <2>2 DEF ObserveCancel, Rest, history
<1>10. ASSUME NEW w \in Workers, thread[w].at = "handling", NEW where, where # "handling", NEW s,
              Decide(w, where, s), UNCHANGED <<row, history>>
       PROVE  CommitRoom'
  <2> DEFINE t == [thread[w] EXCEPT !.at = where, !.verdict = s]
  <2>1. t.at # "handling" /\ thread' = [thread EXCEPT ![w] = t]
    BY <1>0, <1>10 DEF Decide, Thread
  <2> HIDE DEF t
  <2> QED BY <1>8, <1>10, <2>1 DEF history
<1>11. ASSUME NEW w \in Workers, NEW r \in BOOLEAN, FailRead(w, r) PROVE CommitRoom'
  BY <1>10, <1>11 DEF FailRead, At
<1>12. ASSUME NEW w \in Workers, DeferRead(w) PROVE CommitRoom'
  BY <1>10, <1>12 DEF DeferRead, At, history
<1>13. ASSUME NEW w \in Workers, thread[w].at \in {"failing", "deferring"}, Rest(w),
              \A i \in Jobs : row'[i] = row[i] \/ (i = Job(w) /\ Holds(w)), UNCHANGED history
       PROVE  CommitRoom'
  <2> SUFFICES ASSUME NEW i \in Jobs PROVE CommitStep(i) BY <1>k
  <2>1. thread'[w].at # "handling" /\ \A v \in Workers \ {w} : thread'[v] = thread[v]
    BY <1>0, <1>13 DEF Rest, Idle
  <2>2. Runs(i)' = Runs(i) BY <1>13, <2>1, RunsStay
  <2>3. CASE row'[i] = row[i] BY <1>13, <2>2, <2>3, ClaimStays DEF history
  <2>4. CASE i = Job(w) /\ Holds(w)
    BY <1>13, <2>2, <2>4, ClaimStays DEF Holds, Running, Runs, history
  <2> QED BY <1>13, <2>3, <2>4
<1>14. ASSUME NEW w \in Workers, FailWrite(w) PROVE CommitRoom'
  BY <1>0, <1>13, <1>14, BusyThread, ReleaseEffect DEF FailWrite, At, Busy
<1>15. ASSUME NEW w \in Workers, DeferWrite(w) PROVE CommitRoom'
  BY <1>0, <1>13, <1>15, BusyThread, DeferEffect DEF DeferWrite, At, Busy
<1>16. ASSUME NEW w \in Workers, DeferCollides(w) PROVE CommitRoom'
  BY <1>0, <1>k, <1>16, RunsStay, ClaimStays DEF DeferCollides, Decide, At, Thread, history
<1>17. ASSUME NEW p \in Procs, Heartbeat(p) PROVE CommitRoom'
  BY <1>0, <1>k, <1>r, <1>17, ClaimStays DEF Heartbeat, Row, history
<1>18. ASSUME NEW p \in Procs, Crash(p) PROVE CommitRoom'
  <2> SUFFICES ASSUME NEW i \in Jobs PROVE CommitStep(i) BY <1>k
  <2>1. Runs(i)' \subseteq Runs(i) BY <1>18 DEF Crash, Runs, Down
  <2>2. row' = row /\ effects' = effects /\ reaps' = reaps BY <1>18 DEF Crash, history
  <2>3. CASE Runs(i)' = Runs(i) BY <2>2, <2>3, ClaimStays
  <2>4. CASE Runs(i)' # Runs(i)
    <3>1. effects[i] \in Nat /\ Spare(i) \in {0, 1} /\ Spare(i)' \in {0, 1} BY <1>0 DEF Spare
    <3>2. effects'[i] + Spare(i)' <= effects[i] + Spare(i) + 1 BY <2>2, <3>1
    <3> QED BY <2>1, <2>2, <2>4, <3>2 DEF CommitStep
  <2> QED BY <2>3, <2>4
<1>19. CASE ReapStale
  <2> SUFFICES ASSUME NEW i \in Jobs PROVE CommitStep(i) BY <1>k
  <2>1. Runs(i)' = Runs(i) /\ effects' = effects BY <1>19, <1>r DEF ReapStale
  <2>2. CASE i \in Stale BY <1>19, <2>1, <2>2 DEF ReapStale, CommitStep
  <2>3. CASE i \notin Stale BY <1>19, <2>1, <2>3, ClaimStays DEF ReapStale
  <2> QED BY <2>2, <2>3
<1>20. CASE UNCHANGED vars BY <1>20, <1>k, <1>r, ClaimStays DEF vars
<1> QED BY <1>2, <1>3, <1>4, <1>5, <1>6, <1>7, <1>9, <1>11, <1>12, <1>14, <1>15, <1>16, <1>17,
     <1>18, <1>19, <1>20 DEF Next, ThreadStep

\* At least once is at most once for a job that was never reaped: its handler's writes
\* commit again only when the reaper took the lease from a thread that lived.
THEOREM CommitsOnceUnlessReaped == Spec => []OnceUnlessReaped
<1>1. Init => CommitRoom
  <2> SUFFICES ASSUME Init, NEW j \in Jobs
               PROVE  /\ IsFiniteSet(Runs(j))
                      /\ effects[j] + Cardinality(Runs(j)) + Spare(j) <= 1 + reaps[j]
    BY DEF CommitRoom
  <2>1. Runs(j) = {} BY DEF Init, Runs, Idle
  <2>2. Spare(j) \in {0, 1} /\ effects[j] = 0 /\ reaps[j] = 0 BY DEF Init, Spare
  <2> QED BY <2>1, <2>2, FS_EmptySet
<1>2. Basic /\ CommitRoom => OnceUnlessReaped
  <2> SUFFICES ASSUME Basic, CommitRoom, NEW j \in Jobs PROVE effects[j] <= 1 + reaps[j]
    BY DEF OnceUnlessReaped
  <2>1. Cardinality(Runs(j)) \in Nat /\ Spare(j) \in {0, 1}
    BY FS_CardinalityType DEF CommitRoom, Spare
  <2>2. effects[j] \in Nat /\ reaps[j] \in Nat BY DEF Basic, Ledger
  <2>3. effects[j] + Cardinality(Runs(j)) + Spare(j) <= 1 + reaps[j] BY DEF CommitRoom
  <2> QED BY <2>1, <2>2, <2>3
<1> QED BY <1>1, <1>2, BasicInvariant, CommitRoomStep, PTL DEF Spec

-----------------------------------------------------------------------------
(***************************************************************************)
(* A change is covered.                                                    *)
(***************************************************************************)
\* ChangeCovered is not inductive: fail and defer decide on "cancelled" because a twin
\* is queued, and write it when the twin may have run.  A row so doomed covers nothing.
Doomed(j) ==
    \E w \in Workers : /\ thread[w].at \in {"failing", "deferring"}
                       /\ thread[w].verdict = "cancelled"
                       /\ thread[w].job = j /\ row[j].lockedBy = w

Covers(j) ==
    \/ row[j].status = "queued"
    \/ j \in aware /\ row[j].status \in {"failed", "dead"}
    \/ j \in aware /\ row[j].status = "running" /\ ~Doomed(j)
    \/ row[j].cancel

AllCovered == \A k \in owed : \E j \in OfKey(k) : Covers(j)

\* What a step must show of each row that covers a key still owed a run: some row of
\* the key covers it afterwards.
CoverStep(i) ==
    row[i].status # "absent" /\ row[i].key \in owed' /\ Covers(i) =>
       \E x \in Jobs : row'[x].status # "absent" /\ row'[x].key = row[i].key /\ Covers(x)'

\* Showing it of every row covers every change.
LEMMA CoversAll ==
  ASSUME AllCovered, owed' \subseteq owed, \A i \in Jobs : CoverStep(i)
  PROVE  AllCovered'
<1> SUFFICES ASSUME NEW k \in owed' PROVE \E x \in Jobs : row'[x].key = k /\ row'[x].status # "absent" /\ Covers(x)'
  BY DEF AllCovered, OfKey
<1>1. PICK j \in Jobs : row[j].key = k /\ row[j].status # "absent" /\ Covers(j)
  BY DEF AllCovered, OfKey
<1> QED BY <1>1 DEF CoverStep

\* A row that keeps status, key, holder and flag, and is not newly doomed, covers what it did.
LEMMA CoverKept ==
  ASSUME NEW i \in Jobs, i \in aware => i \in aware',
         row'[i].status = row[i].status, row'[i].key = row[i].key,
         row[i].cancel => row'[i].cancel, Doomed(i)' => Doomed(i)
  PROVE  CoverStep(i)
  BY DEF CoverStep, Covers

\* A row that is queued, flagged, or known to have given up covers its key.
LEMMA CoverEnds ==
  ASSUME NEW i \in Jobs, row'[i].key = row[i].key, i \in aware => i \in aware',
         \/ row'[i].status = "queued"
         \/ row'[i].status # "absent" /\ row'[i].cancel
         \/ /\ row'[i].status \in {"failed", "dead"} /\ row[i].status = "running"
            /\ row[i].cancel => row'[i].cancel
  PROVE  CoverStep(i)
  BY DEF CoverStep, Covers

\* A row with a queued twin leaves its key covered by the twin.
LEMMA CoverByTwin ==
  ASSUME NEW i \in Jobs, TwinQueued(i),
         \A x \in Jobs \ {i} : row[x].status = "queued" =>
                                  row'[x].status = "queued" /\ row'[x].key = row[x].key
  PROVE  CoverStep(i)
  BY DEF CoverStep, Covers, TwinQueued, Queued

\* While no thread decides to write "cancelled", no row is newly doomed.
LEMMA NoNewDoom ==
  ASSUME NEW i \in Jobs, row'[i].lockedBy = row[i].lockedBy,
         \A v \in Workers : \/ thread'[v] = thread[v]
                            \/ thread'[v].at \notin {"failing", "deferring"}
                            \/ thread'[v].verdict # "cancelled"
                            \/ thread'[v].job # i
  PROVE  Doomed(i)' => Doomed(i)
  BY DEF Doomed

\* The UPDATE by which thread w lets its row go with status s keeps every change covered:
\* a row it cancels was doomed or flagged, one it completes is owed no more.
LEMMA CoverReleased ==
  ASSUME Basic, AllCovered, NEW w \in Workers, NEW j \in Jobs, j = Job(w), Rest(w),
         owed' \subseteq owed, aware' = aware,
         \A i \in Jobs \ {j} : row'[i] = row[i],
         \/ row'[j] = row[j]
         \/ /\ Holds(w)
            /\ row'[j].key = row[j].key /\ row'[j].cancel = row[j].cancel
            /\ \/ row'[j].status \in {"queued", "failed", "dead"}
               \/ row'[j].status = "cancelled" /\ (Doomed(j) \/ row[j].cancel)
               \/ row'[j].status = "succeeded" /\ (j \in aware => row[j].key \notin owed')
  PROVE  AllCovered'
<1>1. \A v \in Workers : thread'[v] = thread[v] \/ thread'[v].at = "idle"
  BY DEF Rest, Idle, Basic, Threads
<1>2. ASSUME NEW i \in Jobs, row'[i] = row[i] PROVE CoverStep(i)
  BY <1>1, <1>2, NoNewDoom, CoverKept
<1>3. ASSUME Holds(w), row'[j].key = row[j].key, row'[j].cancel = row[j].cancel,
             row'[j].status \in {"queued", "failed", "dead"}
      PROVE  CoverStep(j)
  BY <1>3, CoverEnds DEF Holds, Running
<1>4. ASSUME Holds(w), row'[j].key = row[j].key, row'[j].cancel = row[j].cancel,
             row'[j].status = "cancelled", Doomed(j) \/ row[j].cancel
      PROVE  CoverStep(j)
  BY <1>4 DEF CoverStep, Covers, Holds, Running
<1>5. ASSUME Holds(w), row'[j].key = row[j].key, row'[j].cancel = row[j].cancel,
             row'[j].status = "succeeded", j \in aware => row[j].key \notin owed'
      PROVE  CoverStep(j)
  BY <1>5 DEF CoverStep, Covers, Holds, Running
<1> QED BY <1>2, <1>3, <1>4, <1>5, CoversAll

\* A thread that decides what to write keeps every change covered: it decides on
\* "cancelled" only while a twin is queued.
LEMMA CoverDecided ==
  ASSUME Basic, AllCovered, NEW w \in Workers, thread[w].at \in Busy, NEW where, NEW s,
         Decide(w, where, s), s = "cancelled" => TwinQueued(Job(w)),
         UNCHANGED <<row, owed, aware>>
  PROVE  AllCovered'
<1>1. /\ thread'[w].verdict = s /\ thread'[w].job = Job(w)
      /\ \A v \in Workers \ {w} : thread'[v] = thread[v]
  BY DEF Basic, Threads, Decide, Thread, Job
<1>2. ASSUME NEW i \in Jobs PROVE CoverStep(i)
  <2>1. CASE i = Job(w) /\ s = "cancelled" BY <2>1, CoverByTwin
  <2>2. CASE ~(i = Job(w) /\ s = "cancelled") BY <1>1, <2>2, NoNewDoom, CoverKept
  <2> QED BY <2>1, <2>2
<1> QED BY <1>2, CoversAll

\* Every step keeps every change covered.
LEMMA AllCoveredStep == Basic /\ Basic' /\ AllCovered /\ [Next]_vars => AllCovered'
<1> SUFFICES ASSUME Basic, Basic', AllCovered, [Next]_vars PROVE AllCovered' OBVIOUS
<1>0. /\ Table /\ \A j \in Jobs : row[j] \in Row
      /\ thread \in [Workers -> Thread]
      /\ owed \subseteq Keys /\ aware \subseteq Jobs
  BY DEF Basic, Table, Threads, Ledger
<1>1. ASSUME NEW k \in Keys \cup {NoKey}, Enqueue(k) PROVE AllCovered'
  <2>1. PICK x \in Jobs : k # NoKey => /\ row'[x].status = "queued" /\ row'[x].key = k
    <3>1. CASE k # NoKey /\ \E i \in Jobs : Queued(i) /\ row[i].key = k
      BY <1>1, <3>1 DEF Enqueue, Queued
    <3>2. ASSUME NEW x \in Jobs,
                 row' = [row EXCEPT ![x] = [EmptyRow EXCEPT !.status = "queued", !.key = k]]
          PROVE  row'[x].status = "queued" /\ row'[x].key = k
      BY <1>0, <3>2 DEF Table, EmptyRow
    <3> QED BY <1>1, <3>1, <3>2 DEF Enqueue
  <2>2. \A i \in Jobs : row[i].status # "absent" => row'[i] = row[i]
    BY <1>0, <1>1 DEF Enqueue, Table
  <2>3. SUFFICES ASSUME NEW l \in owed'
                 PROVE  \E y \in Jobs : row'[y].key = l /\ row'[y].status # "absent" /\ Covers(y)'
    BY DEF AllCovered, OfKey
  <2>4. CASE l = k BY <1>0, <1>1, <2>1, <2>4 DEF Enqueue, Covers
  <2>5. CASE l # k
    <3>1. l \in owed BY <1>1, <2>5 DEF Enqueue
    <3>2. PICK y \in Jobs : row[y].key = l /\ row[y].status # "absent" /\ Covers(y)
      BY <3>1 DEF AllCovered, OfKey
    <3>3. row'[y] = row[y] /\ (y \in aware => y \in aware')
      BY <1>1, <2>2, <2>5, <3>2 DEF Enqueue, OfKey
    <3>4. Doomed(y)' => Doomed(y) BY <1>1, <3>3, NoNewDoom DEF Enqueue
    <3> QED BY <3>2, <3>3, <3>4 DEF Covers
  <2> QED BY <2>4, <2>5
<1>2. ASSUME NEW i \in Jobs, thread' = thread, row'[i] = row[i], i \in aware => i \in aware'
      PROVE  CoverStep(i)
  BY <1>2, NoNewDoom, CoverKept
<1>3. ASSUME NEW j \in Jobs, Cancel(j) PROVE AllCovered'
  <2>1. \A i \in Jobs \ {j} : row'[i] = row[i] BY <1>0, <1>3 DEF Cancel, Table
  <2>2. CoverStep(j)
    <3>1. CASE Queued(j) BY <1>3, <3>1 DEF Cancel, CoverStep
    <3>2. CASE Running(j) BY <1>3, <3>2 DEF Cancel, CoverStep
    <3>3. CASE ~Queued(j) /\ ~Running(j) BY <1>0, <1>2, <1>3, <3>3 DEF Cancel, Table
    <3> QED BY <3>1, <3>2, <3>3
  <2>3. owed' \subseteq owed BY <1>3 DEF Cancel
  <2> QED BY <1>2, <1>3, <2>1, <2>2, <2>3, CoversAll DEF Cancel
<1>4. ASSUME NEW j \in Jobs, Retry(j) PROVE AllCovered'
  BY <1>0, <1>2, <1>4, CoverEnds, CoversAll DEF Retry, Table, Row, history
<1>5. ASSUME NEW j \in Jobs, GoStale(j) PROVE AllCovered'
  BY <1>0, <1>2, <1>5, NoNewDoom, CoverKept, CoversAll DEF GoStale, Table, Row, history
<1>6. ASSUME NEW w \in Workers, NEW j \in Jobs, Dequeue(w, j) PROVE AllCovered'
  <2>1. /\ row'[j].status = "running" /\ row'[j].lockedBy = w /\ row'[j].key = row[j].key
        /\ \A i \in Jobs \ {j} : row'[i] = row[i]
    BY <1>0, <1>6, LockedGood DEF Dequeue, Table
  <2>2. /\ thread'[w].at = "handling"
        /\ \A v \in Workers \ {w} : thread'[v] = thread[v]
    BY <1>0, <1>6 DEF Dequeue, Idle
  <2>3. ~Doomed(j)' /\ j \in aware' BY <1>6, <2>1, <2>2 DEF Dequeue, Doomed
  <2>4. CoverStep(j) BY <2>1, <2>3 DEF CoverStep, Covers
  <2>5. ASSUME NEW i \in Jobs \ {j} PROVE CoverStep(i)
    BY <1>6, <2>1, <2>2, NoNewDoom, CoverKept DEF Dequeue
  <2> QED BY <1>6, <2>4, <2>5, CoversAll DEF Dequeue
<1>7. ASSUME NEW w \in Workers, Job(w) \in Jobs, NEW s \in Status \ {"running"}, Release(w, s)
      PROVE  /\ \A i \in Jobs \ {Job(w)} : row'[i] = row[i]
             /\ \/ row'[Job(w)] = row[Job(w)]
                \/ /\ Holds(w) /\ row'[Job(w)].status = s /\ row'[Job(w)].key = row[Job(w)].key
                   /\ row'[Job(w)].cancel = row[Job(w)].cancel
  <2>1. CASE Holds(w) BY <1>0, <1>7, <2>1, UnlockedGood DEF Release, Table
  <2>2. CASE ~Holds(w) BY <1>7, <2>2 DEF Release
  <2> QED BY <2>1, <2>2
<1>8. ASSUME NEW w \in Workers, Succeed(w) PROVE AllCovered'
  <2>1. PICK j \in Jobs : j = Job(w) BY <1>8, BusyThread DEF Succeed, At, Busy
  <2>2. /\ \A i \in Jobs \ {j} : row'[i] = row[i]
        /\ \/ row'[j] = row[j]
           \/ /\ Holds(w) /\ row'[j].status = "succeeded" /\ row'[j].key = row[j].key
              /\ row'[j].cancel = row[j].cancel
    BY <1>7, <1>8, <2>1 DEF Succeed, Status
  <2>3. /\ owed' \subseteq owed /\ aware' = aware /\ Rest(w)
        /\ Holds(w) /\ j \in aware => row[j].key \notin owed'
    BY <1>8, <2>1 DEF Succeed
  <2> QED BY <2>1, <2>2, <2>3, CoverReleased
<1>9. ASSUME NEW w \in Workers, ObserveCancel(w) PROVE AllCovered'
  <2>1. PICK j \in Jobs : j = Job(w) BY <1>9, BusyThread DEF ObserveCancel, At, Busy
  <2>2. /\ \A i \in Jobs \ {j} : row'[i] = row[i]
        /\ \/ row'[j] = row[j]
           \/ /\ Holds(w) /\ row'[j].status = "cancelled" /\ row'[j].key = row[j].key
              /\ row'[j].cancel = row[j].cancel
    BY <1>7, <1>9, <2>1 DEF ObserveCancel, Status
  <2>3. owed' \subseteq owed /\ aware' = aware /\ Rest(w) /\ row[j].cancel
    BY <1>9, <2>1 DEF ObserveCancel, history
  <2> QED BY <2>1, <2>2, <2>3, CoverReleased
<1>10. ASSUME NEW w \in Workers, NEW r \in BOOLEAN, FailRead(w, r) PROVE AllCovered'
  BY <1>10, CoverDecided DEF FailStatus, Requeued, FailRead, At, Busy, history
<1>11. ASSUME NEW w \in Workers, DeferRead(w) PROVE AllCovered'
  BY <1>11, CoverDecided DEF Requeued, DeferRead, At, Busy, history
<1>12. ASSUME NEW w \in Workers, DeferCollides(w) PROVE AllCovered'
  BY <1>12, CoverDecided DEF FailStatus, Requeued, DeferCollides, At, Busy, history
<1>13. ASSUME NEW w \in Workers, FailWrite(w) PROVE AllCovered'
  <2>1. PICK j \in Jobs : j = Job(w) BY <1>13, BusyThread DEF FailWrite, At, Busy
  <2>2. /\ thread[w].at = "failing" /\ Rest(w) /\ owed' = owed /\ aware' = aware
        /\ thread[w].verdict \in {"queued", "cancelled", "failed", "dead"}
        /\ thread[w].verdict \in Status \ {"running"}
    BY <1>13 DEF FailWrite, At, Basic, Threads, GoodThread, history, Status
  <2>3. /\ \A i \in Jobs \ {j} : row'[i] = row[i]
        /\ \/ row'[j] = row[j]
           \/ /\ Holds(w) /\ row'[j].status = thread[w].verdict /\ row'[j].key = row[j].key
              /\ row'[j].cancel = row[j].cancel
    BY <1>7, <1>13, <2>1, <2>2 DEF FailWrite
  <2>4. thread[w].verdict = "cancelled" /\ Holds(w) => Doomed(j)
    BY <2>1, <2>2 DEF Doomed, Holds, Job
  <2> QED BY <2>1, <2>2, <2>3, <2>4, CoverReleased
<1>14. ASSUME NEW w \in Workers, DeferWrite(w) PROVE AllCovered'
  <2>1. PICK j \in Jobs : j = Job(w) BY <1>14, BusyThread DEF DeferWrite, At, Busy
  <2>2. /\ thread[w].at = "deferring" /\ Rest(w) /\ owed' = owed /\ aware' = aware
        /\ thread[w].verdict \in {"queued", "cancelled"}
        /\ thread[w].verdict \in Status \ {"running"}
    BY <1>14 DEF DeferWrite, At, Basic, Threads, GoodThread, history, Status
  <2>3. /\ \A i \in Jobs \ {j} : row'[i] = row[i]
        /\ \/ row'[j] = row[j]
           \/ Holds(w) /\ row'[j] = Deferred(row[j], thread[w].verdict)
    BY <1>0, <1>14, <2>1 DEF DeferWrite, Table
  <2>4. /\ Deferred(row[j], thread[w].verdict).status = thread[w].verdict
        /\ Deferred(row[j], thread[w].verdict).key = row[j].key
        /\ Deferred(row[j], thread[w].verdict).cancel = row[j].cancel
    <3>1. row[j] \in Row BY <1>0
    <3>2. Deferred(row[j], thread[w].verdict).cancel = Unlocked(row[j], thread[w].verdict).cancel
      BY DEF Deferred, Unlocked
    <3> QED BY <2>2, <3>1, <3>2, DeferredGood, UnlockedGood
  <2>5. thread[w].verdict = "cancelled" /\ Holds(w) => Doomed(j)
    BY <2>1, <2>2 DEF Doomed, Holds, Job
  <2> QED BY <2>1, <2>2, <2>3, <2>4, <2>5, CoverReleased
<1>15. ASSUME NEW p \in Procs, Heartbeat(p) PROVE AllCovered'
  BY <1>0, <1>15, NoNewDoom, CoverKept, CoversAll DEF Heartbeat, Row, history
<1>16. ASSUME NEW p \in Procs, Crash(p) PROVE AllCovered'
  BY <1>16, NoNewDoom, CoverKept, CoversAll DEF Crash, Down, history
<1>17. CASE ReapStale
  <2> SUFFICES ASSUME NEW i \in Jobs PROVE CoverStep(i) BY <1>17, CoversAll DEF ReapStale
  <2>1. CASE i \in Stale
    <3>1. row'[i] = Unlocked(row[i], Requeued(i)) /\ Requeued(i) \in Status \ {"running"}
      BY <1>17, <2>1 DEF ReapStale, Requeued, Status
    <3>2. row'[i].status = Requeued(i) /\ row'[i].key = row[i].key BY <1>0, <3>1, UnlockedGood
    <3>3. CASE TwinQueued(i) BY <1>17, <3>3, CoverByTwin DEF ReapStale, Stale, Running
    <3>4. CASE ~TwinQueued(i) BY <1>17, <3>2, <3>4, CoverEnds DEF Requeued, ReapStale
    <3> QED BY <3>3, <3>4
  <2>2. CASE i \notin Stale BY <1>2, <1>17, <2>2 DEF ReapStale
  <2> QED BY <2>1, <2>2
<1>18. CASE UNCHANGED vars BY <1>2, <1>18, CoversAll DEF vars
<1> QED BY <1>1, <1>3, <1>4, <1>5, <1>6, <1>8, <1>9, <1>10, <1>11, <1>12, <1>13, <1>14, <1>15,
     <1>16, <1>17, <1>18 DEF Next, ThreadStep

\* A change a producer announced is never lost: until a handler that began after it
\* commits, a row of its key waits, runs, gave up in sight, or carries a cancel request.
THEOREM ChangesCovered == Spec => []ChangeCovered
<1>1. Init => AllCovered BY DEF Init, AllCovered
<1>2. AllCovered => ChangeCovered BY DEF AllCovered, Covers, ChangeCovered, Queued
<1> QED BY <1>1, <1>2, BasicInvariant, AllCoveredStep, PTL DEF Spec

-----------------------------------------------------------------------------
(***************************************************************************)
(* The queue implements the board.                                         *)
(***************************************************************************)
\* A row is read as a card, and the board's words are the table's.
LEMMA CardsRead ==
  ASSUME Table
  PROVE  /\ \A j \in Jobs : /\ cards[j] = Board!Card(Stands[row[j].status], row[j].key, row[j].lockedBy)
                            /\ cards[j].is = Stands[row[j].status]
                            /\ cards[j].key = row[j].key
                            /\ cards[j].by = row[j].lockedBy
         /\ \A j \in Jobs : Board!Waiting(j) <=> Queued(j)
         /\ \A j \in Jobs : Board!Held(j) <=> Running(j)
         /\ \A j \in Jobs : Board!Twin(j) <=> TwinQueued(j)
<1>1. \A j \in Jobs : cards[j] = CardOf(row[j]) BY DEF cards
<1>2. \A s \in Status : /\ Stands[s] = "waiting" <=> s = "queued"
                        /\ Stands[s] = "held" <=> s = "running"
  BY DEF Status, Stands
<1>3. \A j \in Jobs : row[j].status \in Status BY DEF Table, Row
<1>4. ASSUME NEW j \in Jobs
      PROVE  /\ cards[j] = Board!Card(Stands[row[j].status], row[j].key, row[j].lockedBy)
             /\ cards[j].is = Stands[row[j].status]
             /\ cards[j].key = row[j].key
             /\ cards[j].by = row[j].lockedBy
  <2>1. cards[j] = [is |-> Stands[row[j].status], key |-> row[j].key, by |-> row[j].lockedBy]
    BY <1>1 DEF CardOf
  <2> QED BY <2>1 DEF Board!Card
<1>5. ASSUME NEW j \in Jobs
      PROVE  (Board!Waiting(j) <=> Queued(j)) /\ (Board!Held(j) <=> Running(j))
  BY <1>2, <1>3, <1>4 DEF Board!Waiting, Board!Held, Queued, Running
<1>6. \A j \in Jobs : Board!Waiting(j) <=> Queued(j) BY <1>5
<1>7. \A j \in Jobs : Board!Twin(j) <=> TwinQueued(j) BY <1>4, <1>6 DEF Board!Twin, TwinQueued
<1> QED BY <1>4, <1>5, <1>6, <1>7

\* A step that changes one row turns one card.
LEMMA OneCard ==
  ASSUME NEW x \in Jobs, \A i \in Jobs \ {x} : row'[i] = row[i]
  PROVE  cards' = [cards EXCEPT ![x] = CardOf(row'[x])]
  BY DEF cards

\* A step that leaves status, key and holder of every row alone turns none.
LEMMA NoCard ==
  ASSUME \A i \in Jobs : /\ row'[i].status = row[i].status
                         /\ row'[i].key = row[i].key
                         /\ row'[i].lockedBy = row[i].lockedBy
  PROVE  cards' = cards
  BY DEF cards, CardOf

\* What the board sees of a row that leaves its status: its key, its place, its holder.
LEMMA OneTurn ==
  ASSUME Table, NEW x \in Jobs, \A i \in Jobs \ {x} : row'[i] = row[i],
         row'[x].key = row[x].key
  PROVE  Board!Turns(x, Stands[row'[x].status], row'[x].lockedBy)
<1>1. cards' = [cards EXCEPT ![x] = CardOf(row'[x])] BY OneCard
<1>2. cards[x].key = row[x].key BY CardsRead
<1> QED BY <1>1, <1>2 DEF Board!Turns, Board!Card, CardOf

\* Lease release of one thread: the card is settled, put back, or not touched.
LEMMA ReleaseTurns ==
  ASSUME Table, NEW w \in Workers, Job(w) \in Jobs,
         NEW s \in {"queued", "succeeded", "failed", "dead", "cancelled"},
         s = "queued" /\ Holds(w) => ~TwinQueued(Job(w)),
         \A i \in Jobs \ {Job(w)} : row'[i] = row[i],
         \/ row'[Job(w)] = row[Job(w)]
         \/ /\ Holds(w)
            /\ row'[Job(w)].status = s
            /\ row'[Job(w)].key = row[Job(w)].key
            /\ row'[Job(w)].lockedBy = NoWorker
  PROVE  Board!Move \/ cards' = cards
<1> DEFINE x == Job(w)
<1>1. CASE row'[x] = row[x] BY <1>1, NoCard
<1>2. CASE /\ Holds(w) /\ row'[x].status = s
           /\ row'[x].key = row[x].key /\ row'[x].lockedBy = NoWorker
  <2>1. Board!Held(x) /\ (Board!Twin(x) <=> TwinQueued(x)) BY <1>2, CardsRead DEF Holds
  <2>2. Board!Turns(x, Stands[s], NoWorker) BY <1>2, OneTurn
  <2>3. CASE s # "queued"
    <3>1. Stands[s] \in {"done", "givenUp", "cancelled"} BY <2>3 DEF Stands
    <3>2. Board!Settle(x) BY <2>1, <2>2, <3>1 DEF Board!Settle
    <3> QED BY <3>2 DEF Board!Move
  <2>4. CASE s = "queued"
    <3>1. ~Board!Twin(x) /\ Stands[s] = "waiting" BY <1>2, <2>1, <2>4 DEF Stands
    <3>2. cards' = [cards EXCEPT ![x] = Board!Card("waiting", cards[x].key, NoWorker)]
      BY <2>2, <3>1 DEF Board!Turns
    <3>3. cards' = [j \in Jobs |-> IF j \in {x}
                                   THEN Board!Card(IF Board!Twin(j) THEN "cancelled" ELSE "waiting",
                                                   cards[j].key, NoWorker)
                                   ELSE cards[j]]
      BY <3>1, <3>2 DEF cards
    <3>4. Board!PutBack({x}) /\ {x} \in SUBSET {j \in Jobs : Board!Held(j)}
      BY <2>1, <3>3 DEF Board!PutBack
    <3> QED BY <3>4 DEF Board!Move
  <2> QED BY <2>3, <2>4
<1> QED BY <1>1, <1>2

\* Every step of the queue makes a move of the board, or leaves it alone.
LEMMA MoveStep == Basic /\ [Next]_vars => [Board!Move]_cards
<1> SUFFICES ASSUME Basic, [Next]_vars PROVE Board!Move \/ cards' = cards OBVIOUS
<1>0. /\ Table
      /\ \A j \in Jobs : row[j] \in Row
      /\ \A w \in Workers : GoodThread(thread[w])
  BY DEF Basic, Table, Threads
<1>1. ASSUME row' = row PROVE cards' = cards BY <1>1 DEF cards
<1>2. ASSUME NEW k \in Keys \cup {NoKey}, Enqueue(k) PROVE Board!Move \/ cards' = cards
  <2>1. CASE row' = row BY <1>1, <2>1
  <2>2. ASSUME NEW x \in Jobs, row[x].status = "absent",
               k = NoKey \/ ~\E i \in Jobs : Queued(i) /\ row[i].key = k,
               row' = [row EXCEPT ![x] = [EmptyRow EXCEPT !.status = "queued", !.key = k]]
        PROVE  Board!Move
    <3>1. /\ row'[x].status = "queued" /\ row'[x].key = k /\ row'[x].lockedBy = NoWorker
          /\ \A i \in Jobs \ {x} : row'[i] = row[i]
      BY <1>0, <2>2 DEF Table, EmptyRow
    <3>2. CardOf(row'[x]) = Board!Card("waiting", k, NoWorker)
      BY <3>1 DEF CardOf, Board!Card, Stands
    <3>3. cards' = [cards EXCEPT ![x] = Board!Card("waiting", k, NoWorker)]
      BY <3>1, <3>2, OneCard
    <3>4. cards[x].is = "blank" BY <1>0, <2>2, CardsRead DEF Stands
    <3>5. k = NoKey \/ ~\E i \in Jobs : Board!Waiting(i) /\ cards[i].key = k
      BY <1>0, <2>2, CardsRead
    <3>6. Board!Post(x, k) BY <3>3, <3>4, <3>5 DEF Board!Post
    <3> QED BY <3>6 DEF Board!Move
  <2> QED BY <1>2, <2>1, <2>2 DEF Enqueue
<1>3. ASSUME NEW j \in Jobs, Cancel(j) PROVE Board!Move \/ cards' = cards
  <2>1. \A i \in Jobs \ {j} : row'[i] = row[i] BY <1>0, <1>3 DEF Cancel, Table
  <2>2. CASE Queued(j)
    BY <1>0, <1>3, <2>1, <2>2, OneTurn, CardsRead DEF Cancel, Table, GoodRow, Queued, Running,
       Row, Stands, Board!Withdraw, Board!Move
  <2>3. CASE ~Queued(j) BY <1>0, <1>3, <2>1, <2>3, NoCard DEF Cancel, Table, Row
  <2> QED BY <2>2, <2>3
<1>4. ASSUME NEW j \in Jobs, Retry(j) PROVE Board!Move
  <2>1. /\ row'[j].status = "queued" /\ row'[j].key = row[j].key /\ row'[j].lockedBy = NoWorker
        /\ \A i \in Jobs \ {j} : row'[i] = row[i]
    BY <1>0, <1>4 DEF Retry, Table, Row
  <2>2. Board!Turns(j, "waiting", NoWorker) BY <1>0, <2>1, OneTurn DEF Stands
  <2>3. cards[j].is = "givenUp" /\ ~Board!Twin(j) BY <1>0, <1>4, CardsRead DEF Retry, Stands
  <2>4. Board!Revive(j) BY <2>2, <2>3 DEF Board!Revive
  <2> QED BY <2>4 DEF Board!Move
<1>5. ASSUME NEW j \in Jobs, GoStale(j) PROVE cards' = cards
  BY <1>0, <1>5, NoCard DEF GoStale, Table, Row
<1>6. ASSUME NEW w \in Workers, NEW j \in Jobs, Dequeue(w, j) PROVE Board!Move
  <2>1. /\ row'[j].status = "running" /\ row'[j].key = row[j].key /\ row'[j].lockedBy = w
        /\ \A i \in Jobs \ {j} : row'[i] = row[i]
    BY <1>0, <1>6, LockedGood DEF Dequeue, Table
  <2>2. Board!Turns(j, "held", w) BY <1>0, <2>1, OneTurn DEF Stands
  <2>3. Board!Take(j, w) BY <1>0, <1>6, <2>2, CardsRead DEF Dequeue, Board!Take
  <2> QED BY <2>3 DEF Board!Move
<1>7. ASSUME NEW w \in Workers, Job(w) \in Jobs,
             NEW s \in {"queued", "succeeded", "failed", "dead", "cancelled"},
             s = "queued" /\ Holds(w) => ~TwinQueued(Job(w)), Release(w, s)
      PROVE  Board!Move \/ cards' = cards
  <2>1. \A i \in Jobs \ {Job(w)} : row'[i] = row[i] BY <1>0, <1>7 DEF Release, Table
  <2>2. CASE ~Holds(w) BY <1>1, <1>7, <2>2 DEF Release
  <2>3. CASE Holds(w) BY <1>0, <1>7, <2>1, <2>3, ReleaseTurns DEF Release, Table, Unlocked, Row
  <2> QED BY <2>2, <2>3
<1>8. ASSUME NEW w \in Workers, Succeed(w) PROVE Board!Move \/ cards' = cards
  BY <1>7, <1>8, BusyThread DEF Succeed, At, Busy
<1>9. ASSUME NEW w \in Workers, ObserveCancel(w) PROVE Board!Move \/ cards' = cards
  BY <1>7, <1>9, BusyThread DEF ObserveCancel, At, Busy
<1>10. ASSUME NEW w \in Workers, FailWrite(w) PROVE Board!Move \/ cards' = cards
  <2>1. Job(w) \in Jobs /\ thread[w].verdict \in {"queued", "cancelled", "failed", "dead"}
    BY <1>0, <1>10, BusyThread DEF FailWrite, GoodThread, At, Busy
  <2>2. CASE Collides(w) BY <1>1, <1>10, <2>2 DEF FailWrite
  <2>3. CASE ~Collides(w) BY <1>7, <1>10, <2>1, <2>3 DEF FailWrite, Collides
  <2> QED BY <2>2, <2>3
<1>11. ASSUME NEW w \in Workers, DeferWrite(w) PROVE Board!Move \/ cards' = cards
  <2>1. Job(w) \in Jobs /\ thread[w].verdict \in {"queued", "cancelled"}
    BY <1>0, <1>11, BusyThread DEF DeferWrite, GoodThread, At, Busy
  <2>2. thread[w].verdict = "queued" /\ Holds(w) => ~TwinQueued(Job(w))
    BY <1>11 DEF DeferWrite, Collides
  <2>3. CASE ~Holds(w) BY <1>1, <1>11, <2>3 DEF DeferWrite
  <2>4. CASE Holds(w)
    <3>1. /\ row'[Job(w)] = Deferred(row[Job(w)], thread[w].verdict)
          /\ \A i \in Jobs \ {Job(w)} : row'[i] = row[i]
      BY <1>0, <1>11, <2>1, <2>4 DEF DeferWrite, Table
    <3>2. thread[w].verdict \in Status \ {"running"} BY <2>1 DEF Status
    <3>3. GoodRow(row'[Job(w)]) /\ row'[Job(w)].status = thread[w].verdict
          /\ row'[Job(w)].key = row[Job(w)].key
      <4>1. row[Job(w)] \in Row BY <1>0, <2>1
      <4>2. /\ GoodRow(Deferred(row[Job(w)], thread[w].verdict))
            /\ Deferred(row[Job(w)], thread[w].verdict).status = thread[w].verdict
            /\ Deferred(row[Job(w)], thread[w].verdict).key = row[Job(w)].key
        BY <4>1, <3>2, DeferredGood
      <4> QED BY <3>1, <4>2
    <3>4. row'[Job(w)].lockedBy = NoWorker BY <3>2, <3>3 DEF GoodRow
    <3> QED BY <1>0, <2>1, <2>2, <2>4, <3>1, <3>3, <3>4, ReleaseTurns
  <2> QED BY <2>3, <2>4
<1>12. ASSUME NEW p \in Procs, Heartbeat(p) PROVE cards' = cards
  BY <1>0, <1>12, NoCard DEF Heartbeat, Row
<1>13. CASE ReapStale
  <2>1. \A j \in Stale : j \in Jobs /\ Running(j) BY DEF Stale
  <2>2. \A j \in Stale : row'[j] = Unlocked(row[j], Requeued(j)) BY <1>13, <2>1 DEF ReapStale
  <2>3. \A j \in Jobs \ Stale : row'[j] = row[j] BY <1>13 DEF ReapStale
  <2>4. ASSUME NEW j \in Stale
        PROVE  CardOf(row'[j]) = Board!Card(IF Board!Twin(j) THEN "cancelled" ELSE "waiting",
                                            cards[j].key, NoWorker)
    <3>1. /\ row'[j].status = Requeued(j) /\ row'[j].key = row[j].key
          /\ row'[j].lockedBy = NoWorker
      BY <1>0, <2>1, <2>2 DEF Unlocked, Row
    <3>2. Stands[Requeued(j)] = IF Board!Twin(j) THEN "cancelled" ELSE "waiting"
      BY <1>0, <2>1, CardsRead DEF Requeued, Stands
    <3> QED BY <1>0, <2>1, <3>1, <3>2, CardsRead DEF CardOf, Board!Card
  <2>5. cards' = [j \in Jobs |->
                    IF j \in Stale
                    THEN Board!Card(IF Board!Twin(j) THEN "cancelled" ELSE "waiting",
                                    cards[j].key, NoWorker)
                    ELSE cards[j]]
    BY <2>1, <2>3, <2>4 DEF cards
  <2>6. \A j \in Stale : Board!Held(j) BY <1>0, <2>1, CardsRead
  <2>7. \A i, j \in Stale : i # j /\ cards[i].key # NoKey /\ cards[i].key = cards[j].key
                              => Board!Twin(i)
    <3> SUFFICES ASSUME NEW i \in Stale, NEW j \in Stale, i # j,
                        row[i].key # NoKey, row[i].key = row[j].key
                 PROVE  TwinQueued(i)
      <4>1. \A j \in Stale : cards[j].key = row[j].key /\ (Board!Twin(j) <=> TwinQueued(j))
        BY <1>0, <2>1, CardsRead
      <4> HIDE DEF Board!Twin
      <4> QED BY <4>1
    <3>1. Requeued(i) # "queued" BY <1>13 DEF ReapStale, ReapCollides
    <3> QED BY <3>1 DEF Requeued
  <2>8. Board!PutBack(Stale) BY <1>13, <2>5, <2>6, <2>7 DEF Board!PutBack, ReapStale
  <2>9. Stale \in SUBSET {j \in Jobs : Board!Held(j)} BY <2>1, <2>6
  <2> QED BY <2>8, <2>9 DEF Board!Move
<1> QED BY <1>1, <1>2, <1>3, <1>4, <1>5, <1>6, <1>8, <1>9, <1>10, <1>11, <1>12, <1>13
  DEF Next, ThreadStep, FailRead, DeferRead, DeferCollides, Crash, vars

\* So it is a step of the board.
LEMMA BoardStep == Basic /\ [Next]_vars => [Board!BoardNext]_cards
  BY MoveStep DEF Board!BoardNext

\* Whoever posts work may think of the queue as the board: the table, its threads and
\* its reaper implement it, whatever their number.
THEOREM QueueIsABoard == Spec => ImplementsBoard
<1>1. Init => Board!BoardInit
  BY DEF Init, Board!BoardInit, Board!Card, cards, CardOf, EmptyRow, Stands
<1> QED BY <1>1, BasicInvariant, BoardStep, PTL DEF Spec, ImplementsBoard, Board!BoardSpec
=============================================================================

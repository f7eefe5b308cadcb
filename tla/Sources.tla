------------------------------ MODULE Sources ------------------------------
(* A source, the watches that keep it fresh and the ingests that read it      *)
(* (app/ingestion/sources.py, pipeline.py, app/temporal/watches.py and the    *)
(* scheduler's _tick_watch_sources).                                          *)
(*                                                                            *)
(* An ORM session writes the columns whose value differs from the one it      *)
(* loaded, whatever the row has become since (`Flushed`).  An ingest and the  *)
(* requests about a watch load the source in one step and commit in another;  *)
(* a failed ingest marks the source in a session of its own.                  *)
EXTENDS Integers, FiniteSets

CONSTANTS
    Runs,           \* workers that may ingest the source
    Watches,        \* ids of watch rows on the source
    NoTime,         \* next_refresh_at IS NULL
    Interval,       \* refresh_interval_minutes
    LastTime,       \* bound: the last moment
    SourceRequests, \* bound: the user's requests
    Faults          \* bound: ingests that fail

ASSUME SourcesAssumption ==
    /\ Interval \in Nat \ {0}
    /\ {LastTime, SourceRequests, Faults} \subseteq Nat
    /\ NoTime \in Int \ Nat

VARIABLES
    time,
    source,         \* the row of sources
    watchRow,       \* each watch: its row and the request at work on it
    ingests,        \* dedupe keys of queued ingest jobs
    run,            \* what each ingest loaded
    requestsLeft,
    faultsLeft,
    unpaused,       \* history: runs that had loaded the source before its last pause
    unwatched,      \* history: the user switched the flag off after the last watch
    overlapped      \* history: two requests about watches or the flag overlapped

sourcesVars == <<time, source, watchRow, ingests, run, requestsLeft, faultsLeft,
                 unpaused, unwatched, overlapped>>

Moments == 0..LastTime
Statuses == {"active", "paused", "failed"}

\* An ingest job's key names the slot a tick fired, or none: asked for by a request.
Asked == NoTime
Resting == [at |-> "idle"]

\* create_source: active, and not yet due unless it is created watched.
SourcesInit ==
    /\ time = 0
    /\ source = [kept |-> TRUE, status |-> "active", watch |-> FALSE, next |-> NoTime]
    /\ watchRow = [w \in Watches |-> [row |-> "none", at |-> "idle"]]
    /\ ingests = {}
    /\ run = [r \in Runs |-> Resting]
    /\ requestsLeft = SourceRequests
    /\ faultsLeft = Faults
    /\ unpaused = {}
    /\ unwatched = FALSE
    /\ overlapped = FALSE

Working == {r \in Runs : run[r] # Resting}
Asking == {w \in Watches : watchRow[w].at # "idle"}
KeptWatches == {w \in Watches : watchRow[w].row = "kept"}

\* What a flush leaves in a column that was loaded as `loaded` and set to `new`.
Flushed(column, loaded, new) == IF loaded = new THEN column ELSE new

-----------------------------------------------------------------------------
(***************************************************************************)
(* Requests about the source.                                              *)
(***************************************************************************)
UserAsks == source.kept /\ requestsLeft > 0 /\ requestsLeft' = requestsLeft - 1

PatchStatus(s) ==
    /\ UserAsks
    /\ source' = [source EXCEPT !.status = s]
    /\ unpaused' = IF s = "paused" THEN Working ELSE {}
    /\ UNCHANGED <<time, watchRow, ingests, run, faultsLeft, unwatched, overlapped>>

PatchWatch(on) ==
    /\ UserAsks
    /\ source' = [source EXCEPT !.watch = on,
                                !.next = IF ~on THEN NoTime
                                         ELSE IF source.next = NoTime THEN time ELSE source.next]
    /\ unwatched' = ~on
    /\ overlapped' = (overlapped \/ Asking # {})
    /\ UNCHANGED <<time, watchRow, ingests, run, faultsLeft, unpaused>>

DeleteSource ==
    /\ UserAsks
    /\ source' = [source EXCEPT !.kept = FALSE]
    /\ watchRow' = [w \in Watches |-> [watchRow[w] EXCEPT !.row = IF @ = "kept" THEN "gone" ELSE @]]
    /\ UNCHANGED <<time, ingests, run, faultsLeft, unpaused, unwatched, overlapped>>

\* A queued job of the key stands for another.
RefreshSource ==
    /\ UserAsks /\ Asked \notin ingests
    /\ ingests' = ingests \cup {Asked}
    /\ UNCHANGED <<time, source, watchRow, run, faultsLeft, unpaused, unwatched, overlapped>>

-----------------------------------------------------------------------------
(***************************************************************************)
(* create_watch and delete_watch for a source watch.                       *)
(***************************************************************************)
\* Variant: the other watches of the source are not looked for.
NoOthers(w) == {}

Others(w) == KeptWatches \ {w}

LoadForWatch(w, at) ==
    /\ UserAsks
    /\ watchRow' = [watchRow EXCEPT ![w] = [row |-> watchRow[w].row, at |-> at,
                                            watch |-> source.watch, last |-> Others(w) = {}]]
    /\ overlapped' = (overlapped \/ Asking # {})
    /\ UNCHANGED <<time, source, ingests, run, faultsLeft, unpaused, unwatched>>

CreateWatchReads(w) == watchRow[w].row = "none" /\ watchRow[w].at = "idle" /\ LoadForWatch(w, "create")
DeleteWatchReads(w) == watchRow[w].row = "kept" /\ watchRow[w].at = "idle" /\ LoadForWatch(w, "delete")

WatchRequestEnds(w, row) == watchRow' = [watchRow EXCEPT ![w] = [row |-> row, at |-> "idle"]]

CreateWatchCommits(w) ==
    /\ watchRow[w].at = "create" /\ source.kept
    /\ WatchRequestEnds(w, "kept")
    /\ source' = [source EXCEPT !.watch = Flushed(source.watch, watchRow[w].watch, TRUE), !.next = time]
    /\ unwatched' = (unwatched /\ ~source'.watch)
    /\ UNCHANGED <<time, ingests, run, requestsLeft, faultsLeft, unpaused, overlapped>>

DeleteWatchCommits(w) ==
    /\ watchRow[w].at = "delete" /\ watchRow[w].row = "kept"
    /\ WatchRequestEnds(w, "gone")
    /\ source' = [source EXCEPT !.watch = IF watchRow[w].last
                                          THEN Flushed(source.watch, watchRow[w].watch, FALSE)
                                          ELSE source.watch]
    /\ UNCHANGED <<time, ingests, run, requestsLeft, faultsLeft, unpaused, unwatched, overlapped>>

\* The source went meanwhile: a foreign key or a stale row ends the request.
WatchRequestFails(w) ==
    /\ watchRow[w].at # "idle" /\ ~source.kept
    /\ WatchRequestEnds(w, watchRow[w].row)
    /\ UNCHANGED <<time, source, ingests, run, requestsLeft, faultsLeft, unpaused, unwatched, overlapped>>

-----------------------------------------------------------------------------
(***************************************************************************)
(* The scheduler and the ingest jobs.                                      *)
(***************************************************************************)
PassTime ==
    /\ time < LastTime
    /\ time' = time + 1
    /\ UNCHANGED <<source, watchRow, ingests, run, requestsLeft, faultsLeft, unpaused, unwatched, overlapped>>

TickWatchSources ==
    /\ source.kept /\ source.watch /\ source.status = "active"
    /\ source.next # NoTime /\ source.next <= time
    /\ ingests' = ingests \cup {source.next}
    /\ source' = [source EXCEPT !.next = time + Interval]
    /\ UNCHANGED <<time, watchRow, run, requestsLeft, faultsLeft, unpaused, unwatched, overlapped>>

\* Variant: a paused source is read like any other.
MayIngestAnything == source.kept

MayIngest == source.kept /\ source.status # "paused"

StartIngest(r, k) ==
    /\ run[r] = Resting /\ k \in ingests
    /\ ingests' = ingests \ {k}
    /\ run' = IF MayIngest
              THEN [run EXCEPT ![r] = [at |-> "reading", key |-> k,
                                       status |-> source.status, watch |-> source.watch]]
              ELSE run
    /\ UNCHANGED <<time, source, watchRow, requestsLeft, faultsLeft, unpaused, unwatched, overlapped>>

EndIngest(r) ==
    /\ run' = [run EXCEPT ![r] = Resting]
    /\ unpaused' = unpaused \ {r}
    /\ UNCHANGED <<time, watchRow, requestsLeft, unwatched, overlapped>>

\* _record_failure loads the source afresh; only a FetchError is not tried again.
IngestFails(r, again) ==
    /\ run[r] # Resting /\ faultsLeft > 0
    /\ faultsLeft' = faultsLeft - 1
    /\ source' = [source EXCEPT !.status = IF source.kept THEN "failed" ELSE source.status]
    /\ ingests' = IF again THEN ingests \cup {run[r].key} ELSE ingests
    /\ EndIngest(r)

IngestSucceeds(r) ==
    /\ run[r] # Resting /\ source.kept
    /\ source' = [source EXCEPT !.status = Flushed(source.status, run[r].status, "active"),
                                !.next = IF run[r].watch THEN time + Interval ELSE source.next]
    /\ EndIngest(r)
    /\ UNCHANGED <<ingests, faultsLeft>>

\* The commit finds the source deleted: the job is tried again, and skipped.
IngestLost(r) ==
    /\ run[r] # Resting /\ ~source.kept
    /\ ingests' = ingests \cup {run[r].key}
    /\ EndIngest(r)
    /\ UNCHANGED <<source, faultsLeft>>

SourcesNext ==
    \/ \E s \in Statuses : PatchStatus(s)
    \/ \E on \in BOOLEAN : PatchWatch(on)
    \/ DeleteSource
    \/ RefreshSource
    \/ \E w \in Watches : \/ CreateWatchReads(w) \/ CreateWatchCommits(w)
                          \/ DeleteWatchReads(w) \/ DeleteWatchCommits(w)
                          \/ WatchRequestFails(w)
    \/ PassTime
    \/ TickWatchSources
    \/ \E r \in Runs : \/ \E k \in ingests : StartIngest(r, k)
                       \/ \E again \in BOOLEAN : IngestFails(r, again)
                       \/ IngestSucceeds(r)
                       \/ IngestLost(r)

SourcesSpec == SourcesInit /\ [][SourcesNext]_sourcesVars

-----------------------------------------------------------------------------
(***************************************************************************)
(* Properties.                                                             *)
(***************************************************************************)
SourcesTypeOK ==
    /\ time \in Moments
    /\ source \in [kept : BOOLEAN, status : Statuses, watch : BOOLEAN, next : Nat \cup {NoTime}]
    /\ \A w \in Watches : watchRow[w].row \in {"none", "kept", "gone"}
    /\ unpaused \subseteq Runs
    /\ Working \subseteq Runs

\* A pause ends by the user's request or by the end of an ingest that had loaded
\* the source before it: no ingest begun after the pause touches the source.
PauseHolds ==
    [][source.status = "paused" /\ source'.status # "paused" =>
         \/ \E s \in Statuses : PatchStatus(s)
         \/ \E r \in unpaused : run'[r] # run[r]]_sourcesVars

\* A source that has a watch is watched, unless the user switched its flag off or
\* requests about it overlapped.
WatchRowsWatch ==
    source.kept /\ KeptWatches # {} => source.watch \/ unwatched \/ overlapped
=============================================================================

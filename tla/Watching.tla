------------------------------ MODULE Watching ------------------------------
(* Standing questions: the query watches a scheduler tick evaluates           *)
(* (app/jobs/scheduler.py) and the belief diffs they store                    *)
(* (app/temporal/belief_diff.py, staleness.py).                               *)
(*                                                                            *)
(* A claim's `at` is world time, its source's date, so claims arrive in any   *)
(* order of `at`.  The ledger's own rules are in ClaimLedger: here claims are *)
(* asserted, end and come into conflict, and the events say so.  A tick takes *)
(* its timestamp first and reads the events later.                            *)
EXTENDS Integers, FiniteSets

CONSTANTS
    WatchedClaims,
    Similar,        \* claims within pair_sim of the query's embedding
    Notes,          \* claims of note and clip sources
    Echoes,         \* <<note, claim>> alike enough for staleness's first rule
    ClusterOf,      \* each claim's cluster
    TopClusters,    \* MAX_TOP_CLUSTERS
    LastDay         \* bound: the last day

ASSUME WatchingAssumption ==
    /\ IsFiniteSet(WatchedClaims)
    /\ Similar \subseteq WatchedClaims /\ Notes \subseteq WatchedClaims
    /\ Echoes \subseteq Notes \X (WatchedClaims \ Notes)
    /\ DOMAIN ClusterOf = WatchedClaims
    /\ TopClusters \in Nat \ {0}
    /\ LastDay \in Nat

VARIABLES
    today,
    standing,       \* claims.status
    dated,          \* claims.asserted_at
    log,            \* claim_events
    opposing,       \* claim_relations with relation = contradicts
    checked,        \* watches.last_checked_at
    check,          \* the tick's timestamp, once it has one
    diffs,          \* belief_diffs with scope watch
    arrived,        \* history: last_checked_at when each claim was stored
    ended           \* history: last_checked_at when each claim ended

watchingVars == <<today, standing, dated, log, opposing, checked, check, diffs, arrived, ended>>

DayNumbers == 0..LastDay
NotYet == -1

WatchingInit ==
    /\ today = 0
    /\ standing = [c \in WatchedClaims |-> "none"]
    /\ dated = [c \in WatchedClaims |-> NotYet]
    /\ log = {}
    /\ opposing = {}
    /\ checked = 0
    /\ check = NotYet
    /\ diffs = {}
    /\ arrived = [c \in WatchedClaims |-> NotYet]
    /\ ended = [c \in WatchedClaims |-> NotYet]

Event(c, kind, at, other) == [claim |-> c, event |-> kind, at |-> at, other |-> other]

-----------------------------------------------------------------------------
(***************************************************************************)
(* The ledger's transactions.                                              *)
(***************************************************************************)
\* record_assertion: the event carries the claim's own date.
AssertClaim(c, at) ==
    /\ standing[c] = "none"
    /\ standing' = [standing EXCEPT ![c] = "active"]
    /\ dated' = [dated EXCEPT ![c] = at]
    /\ log' = log \cup {Event(c, "asserted", at, c)}
    /\ arrived' = [arrived EXCEPT ![c] = checked]
    /\ UNCHANGED <<today, opposing, checked, check, diffs, ended>>

\* apply_supersede: notes are left alone.
EndBySuccessor(old, new) ==
    /\ old \notin Notes
    /\ standing[old] = "active" /\ standing[new] = "active"
    /\ dated[old] < dated[new]
    /\ standing' = [standing EXCEPT ![old] = "superseded"]
    /\ log' = log \cup {Event(old, "superseded", dated[new], new)}
    /\ ended' = [ended EXCEPT ![old] = checked]
    /\ UNCHANGED <<today, dated, opposing, checked, check, diffs, arrived>>

\* _open_conflict: both claims get the event.
Dispute(a, b) ==
    /\ a # b /\ {a, b} \notin opposing
    /\ standing[a] = "active" /\ standing[b] = "active"
    /\ opposing' = opposing \cup {{a, b}}
    /\ LET when == IF dated[a] > dated[b] THEN dated[a] ELSE dated[b] IN
       log' = log \cup {Event(a, "conflict_opened", when, b), Event(b, "conflict_opened", when, a)}
    /\ UNCHANGED <<today, standing, dated, checked, check, diffs, arrived, ended>>

PassDay ==
    /\ today < LastDay
    /\ today' = today + 1
    /\ UNCHANGED <<standing, dated, log, opposing, checked, check, diffs, arrived, ended>>

-----------------------------------------------------------------------------
(***************************************************************************)
(* detect_stale_notes.                                                     *)
(***************************************************************************)
AgreesWithOutdated(n) ==
    \E c \in WatchedClaims : <<n, c>> \in Echoes /\ standing[c] \in {"superseded", "retracted"}

OvertakenBy(n) == {c \in WatchedClaims \ Notes : {n, c} \in opposing /\ dated[c] > dated[n]}

\* The notes that are stale and were themselves asserted since then.
StaleNotes(since) ==
    {n \in Notes : /\ standing[n] = "active"
                   /\ AgreesWithOutdated(n) \/ OvertakenBy(n) # {}
                   /\ dated[n] >= since}

(***************************************************************************)
(* compute_belief_diff over [start, end).                                  *)
(***************************************************************************)
\* _scope_claim_ids for a query watch: active claims only.
Scoped == {c \in Similar : standing[c] = "active"}

\* Variant: the window is closed.
WindowClosed(start, end) == {e \in log : start <= e.at /\ e.at <= end}

Window(start, end) == {e \in log : start <= e.at /\ e.at < end}

Asserted(events) == {e.claim : e \in {x \in events : x.event = "asserted"}}

\* Which clusters rank highest is a matter of size, spread and conflicts.
Rankings(events) ==
    LET clusters == {ClusterOf[c] : c \in Asserted(events)} IN
    {top \in SUBSET clusters :
        Cardinality(top) = IF Cardinality(clusters) < TopClusters THEN Cardinality(clusters)
                           ELSE TopClusters}

Payload(start, end, events, top) ==
    [start |-> start, end |-> end,
     new_claims |-> {c \in Asserted(events) : ClusterOf[c] \in top},
     superseded |-> {<<e.claim, e.other>> : e \in {x \in events : x.event = "superseded"}},
     new_conflicts |-> {{e.claim, e.other} : e \in {x \in events : x.event = "conflict_opened"}},
     stale_notes |-> {n \in StaleNotes(start) :
                        n \in Scoped \/ OvertakenBy(n) \cap Scoped # {}}]

-----------------------------------------------------------------------------
(***************************************************************************)
(* A tick and its query watch.                                             *)
(***************************************************************************)
TickBegins ==
    /\ check = NotYet
    /\ check' = today
    /\ UNCHANGED <<today, standing, dated, log, opposing, checked, diffs, arrived, ended>>

\* Claims of any standing match, however far ahead they are dated.
Matching == {c \in Similar : standing[c] # "none" /\ dated[c] >= checked}

MarkChecked(at) == checked' = at

CheckWatch ==
    /\ check # NotYet
    /\ LET events == {e \in Window(checked, check) : e.claim \in Scoped} IN
       IF Matching = {} THEN UNCHANGED diffs
       ELSE \E top \in Rankings(events) :
               diffs' = diffs \cup {Payload(checked, check, events, top)}
    /\ MarkChecked(check)
    /\ check' = NotYet
    /\ UNCHANGED <<today, standing, dated, log, opposing, arrived, ended>>

\* Another part of the tick failed (Scheduling): nothing of it stays.
TickFails ==
    /\ check # NotYet
    /\ check' = NotYet
    /\ UNCHANGED <<today, standing, dated, log, opposing, checked, diffs, arrived, ended>>

WatchingNext ==
    \/ \E c \in WatchedClaims, at \in DayNumbers : AssertClaim(c, at)
    \/ \E a, b \in WatchedClaims : EndBySuccessor(a, b) \/ Dispute(a, b)
    \/ PassDay
    \/ TickBegins
    \/ CheckWatch
    \/ TickFails

WatchingSpec == WatchingInit /\ [][WatchingNext]_watchingVars

-----------------------------------------------------------------------------
(***************************************************************************)
(* Properties.                                                             *)
(***************************************************************************)
DiffRow == [start : DayNumbers, end : DayNumbers, new_claims : SUBSET WatchedClaims,
            superseded : SUBSET (WatchedClaims \X WatchedClaims), new_conflicts : SUBSET (SUBSET WatchedClaims),
            stale_notes : SUBSET Notes]

WatchingTypeOK ==
    /\ today \in DayNumbers
    /\ standing \in [WatchedClaims -> {"none", "active", "superseded"}]
    /\ dated \in [WatchedClaims -> DayNumbers \cup {NotYet}]
    /\ log \subseteq [claim : WatchedClaims, event : {"asserted", "superseded", "conflict_opened"},
                      at : DayNumbers, other : WatchedClaims]
    /\ opposing \subseteq SUBSET WatchedClaims
    /\ checked \in DayNumbers
    /\ check \in DayNumbers \cup {NotYet}
    /\ diffs \subseteq DiffRow
    /\ arrived \in [WatchedClaims -> DayNumbers \cup {NotYet}]
    /\ ended \in [WatchedClaims -> DayNumbers \cup {NotYet}]

Telling(c) == {d \in diffs : c \in d.new_claims}

\* A matching claim whose date a check has passed was told by it, unless the claim
\* came too late (dated before the last check there was when it was stored), ended
\* before that check, or was crowded out by larger clusters.
PassedIsTold ==
    \A c \in Similar : standing[c] # "none" /\ dated[c] < checked =>
        \/ Telling(c) # {}
        \/ dated[c] < arrived[c]
        \/ standing[c] # "active" /\ ended[c] <= dated[c]
        \/ \E d \in diffs : /\ d.start <= dated[c] /\ dated[c] < d.end
                            /\ Cardinality({ClusterOf[x] : x \in d.new_claims}) = TopClusters

\* Consecutive checks share no moment: no claim is news twice, and only a claim
\* dated in a diff's window is in it.
ToldOnce ==
    \A c \in WatchedClaims :
        /\ Cardinality(Telling(c)) <= 1
        /\ \A d \in Telling(c) : d.start <= dated[c] /\ dated[c] < d.end

\* What a standing question hears: everything once, with the named exceptions.
WatchTells == PassedIsTold /\ ToldOnce
=============================================================================

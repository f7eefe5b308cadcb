------------------------------ MODULE Timeline ------------------------------
(***************************************************************************)
(* The timeline read page by page (app/temporal/timeline.py, GET           *)
(* /v1/timeline): each page is a query of its own with an offset, while    *)
(* claims are observed, archived snapshots are filled in behind what was   *)
(* read, and documents are deleted.                                        *)
(***************************************************************************)
EXTENDS Integers, Sequences, FiniteSets, SequencesExt

CONSTANTS
    TimelineDocs,   \* documents the events' claims come from
    EventLimit,     \* bound: events ever observed
    LastObserved,   \* bound: instants of the clock, and of world time
    PageLimit,      \* entries of a page
    TimelinesAsked           \* the scopes asked for: [docs, start, end]

ASSUME TimelineAssumption ==
    /\ EventLimit \in Nat /\ {PageLimit, LastObserved} \subseteq Nat \ {0}
    /\ \A q \in TimelinesAsked : q.docs \subseteq TimelineDocs

VARIABLES
    claimEvents,    \* committed: [id, doc, at, observed]
    uncommitted,    \* the events of transactions that have not committed
    idsDrawn,       \* ids drawn so far
    observing,      \* the clock
    reading         \* [axis, scope, read, first, arrived, removed, overtaken, open]

timelineVars == <<claimEvents, uncommitted, idsDrawn, observing, reading>>

EveryDoc == [docs |-> TimelineDocs, start |-> 0, end |-> LastObserved + 1]
NotReading == [axis |-> "world", scope |-> EveryDoc, read |-> <<>>, first |-> {},
               arrived |-> {}, removed |-> FALSE, overtaken |-> FALSE, open |-> FALSE]

TimelineInit ==
    /\ claimEvents = {} /\ uncommitted = {} /\ idsDrawn = 0 /\ observing = 1
    /\ reading = NotReading

-----------------------------------------------------------------------------
\* Variant: always by world time.
KeyOfWorld(axis, e) == e.at
KeyOf(axis, e) == IF axis = "observed" THEN e.observed ELSE e.at

Precedes(axis, e, f) ==
    \/ KeyOf(axis, e) < KeyOf(axis, f)
    \/ KeyOf(axis, e) = KeyOf(axis, f) /\ e.id < f.id

\* The window is of the axis asked for, and does not have its end.
InScope(scope, axis, e) ==
    /\ e.doc \in scope.docs
    /\ scope.start <= KeyOf(axis, e) /\ KeyOf(axis, e) < scope.end

TimelineEntries(scope, axis) == {e \in claimEvents : InScope(scope, axis, e)}

\* ORDER BY: an entry's place is told by how many come before it.
ComesAfter(entries, axis, e) == Cardinality({f \in entries : Precedes(axis, f, e)})
EntryAt(entries, axis, n) == CHOOSE e \in entries : ComesAfter(entries, axis, e) = n - 1

\* OFFSET and LIMIT.
EndOfPage(offset, length) == IF offset + PageLimit < length THEN offset + PageLimit ELSE length

PageFrom(scope, axis, offset) ==
    LET all == TimelineEntries(scope, axis) IN
    [i \in 1..(EndOfPage(offset, Cardinality(all)) - offset) |-> EntryAt(all, axis, offset + i)]

\* get_timeline with no offset: a scope and an axis.
OpenTimeline(q, axis) ==
    /\ ~reading.open
    /\ reading' = [NotReading EXCEPT !.axis = axis, !.scope = q, !.open = TRUE,
                                       !.first = TimelineEntries(q, axis)]
    /\ UNCHANGED <<claimEvents, uncommitted, idsDrawn, observing>>

\* The next page; the reader that gets none is through.
ReadPage ==
    /\ reading.open
    /\ LET page == PageFrom(reading.scope, reading.axis, Len(reading.read)) IN
        reading' = [reading EXCEPT !.read = @ \o page, !.open = page # <<>>]
    /\ UNCHANGED <<claimEvents, uncommitted, idsDrawn, observing>>

-----------------------------------------------------------------------------
(***************************************************************************)
(* What goes on between the pages.                                         *)
(***************************************************************************)
\* A reconcile or an extraction records an event: when it happened, and now.
Observe(d, at) ==
    /\ idsDrawn < EventLimit /\ at <= observing
    /\ uncommitted' = uncommitted \cup
            {[id |-> idsDrawn + 1, doc |-> d, at |-> at, observed |-> observing]}
    /\ idsDrawn' = idsDrawn + 1
    /\ UNCHANGED <<claimEvents, observing, reading>>

CommitEvent(e) ==
    /\ uncommitted' = uncommitted \ {e}
    /\ claimEvents' = claimEvents \cup {e}
    /\ reading' = [reading EXCEPT !.arrived = IF reading.open THEN @ \cup {e} ELSE @,
            !.overtaken = \/ @
                         \/ (reading.open /\ \E f \in claimEvents : Precedes("observed", e, f))]
    /\ UNCHANGED <<idsDrawn, observing>>

\* A document goes with its claims and their events.
RemoveDoc(d) ==
    /\ \E e \in claimEvents : e.doc = d
    /\ claimEvents' = {e \in claimEvents : e.doc # d}
    /\ reading' = [reading EXCEPT !.removed = (@ \/ reading.open)]
    /\ UNCHANGED <<uncommitted, idsDrawn, observing>>

TimelineTick ==
    /\ observing < LastObserved
    /\ observing' = observing + 1
    /\ UNCHANGED <<claimEvents, uncommitted, idsDrawn, reading>>

TimelineNext ==
    \/ \E q \in TimelinesAsked, axis \in {"world", "observed"} : OpenTimeline(q, axis)
    \/ ReadPage
    \/ \E d \in TimelineDocs, at \in 1..LastObserved : Observe(d, at)
    \/ \E e \in uncommitted : CommitEvent(e)
    \/ TimelineTick
    \/ \E d \in TimelineDocs : RemoveDoc(d)

TimelineSpec == TimelineInit /\ [][TimelineNext]_timelineVars

-----------------------------------------------------------------------------
HasRead(e) == e \in ToSet(reading.read)
Through == ~reading.open /\ (reading.read # <<>> \/ reading.first # {})

\* Whatever arrives, the events that were there at the first page are read by the last;
\* only a deletion moves one to a page that has been read.
NothingOldIsMissed ==
    Through /\ ~reading.removed => \A e \in reading.first : HasRead(e)

\* Of what was observed once: an entry comes twice only when one arrived before it.
TwiceForAnArrival ==
    ~reading.removed => \A i, k \in DOMAIN reading.read :
        i < k /\ reading.read[i] = reading.read[k] =>
            \E e \in reading.arrived : Precedes(reading.axis, e, reading.read[i])

\* By the time of observation nothing arrives before what was read: each entry once, in
\* order, and what arrived meanwhile at the end, but for an event that commits after a
\* later one.
ObservedOnce ==
    reading.axis = "observed" /\ ~reading.removed /\ ~reading.overtaken =>
        \A i, k \in DOMAIN reading.read : i < k => reading.read[i].id < reading.read[k].id

\* temporal/timeline.py: what a reader who pages through a timeline can rely on.
TimelineTells == NothingOldIsMissed /\ TwiceForAnArrival /\ ObservedOnce
=============================================================================

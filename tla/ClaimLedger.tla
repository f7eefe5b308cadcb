----------------------------- MODULE ClaimLedger -----------------------------
(* The claim ledger over versioned documents: extraction and relation judging  *)
(* (app/claims), reconciliation of a document's claims (app/temporal), and the *)
(* jobs that carry a new version through them (app/ingestion/pipeline.py).     *)
(*                                                                              *)
(* A claim is what a version says on a topic.  Statements, embeddings and       *)
(* similarity are abstracted to that: two claims are comparable when they are   *)
(* on one topic, and they conflict when they say different things on it.        *)
(*                                                                              *)
(* extract_claims runs under the user's advisory lock; its judging of one pair  *)
(* is a step, and nothing else happens until its transaction ends (`judging`).  *)
(* reconcile_document takes no lock: it reads in one step and writes in another *)
(* what differs from what it read (sessions do not autoflush).                  *)
EXTENDS DocumentVersions, Bags

CONSTANTS
    Threads,        \* worker threads
    Topics,
    Silent,         \* a text says nothing on a topic
    Says,           \* what each text says on each topic
    Announces,      \* texts whose statements signal an update ("postponed to ...")
    Stubs,          \* texts less than 30% as long as the others (a soft 404)
    ManyClaims,     \* so many claims that vanish together are suspect (5)
    MaxLabels       \* bound: labels a user sets

ASSUME LedgerAssumption ==
    /\ DOMAIN Says = Texts
    /\ \A x \in Texts : DOMAIN Says[x] = Topics
    /\ Announces \subseteq Texts
    /\ Stubs \subseteq Texts
    /\ ManyClaims \in Nat \ {0}
    /\ MaxLabels \in Nat
    /\ IsFiniteSet(Topics)

VARIABLES
    ledger,         \* the claims: status and superseded_by
    extracted,      \* versions with claims, in the order their claims were inserted
    opposed,        \* claim_relations with relation = contradicts: pairs of claims
    resolved,       \* those with resolved_at
    label,          \* their user_label
    events,         \* claim_events: what reconcile records, and conflict_resolved
    judging,        \* pairs the running extraction has not judged yet
    pending,        \* queued jobs, one per dedupe key
    busy,           \* what each thread's reconcile has read and decided to write
    labels,         \* labels a user may still set
    dirty,          \* history: documents changed since a reconcile last read them
    muted,          \* history: versions whose extraction found nothing
    reopened        \* history: relations rejected while a reconcile was to open them

relationVars == <<opposed, resolved, label>>
workVars == <<pending, busy, labels>>
historyVars == <<dirty, muted, reopened>>
vars == <<versionVars, ledger, extracted, relationVars, events, judging, workVars, historyVars>>

(***************************************************************************)
(* Claims.                                                                 *)
(***************************************************************************)
Claim == (1..MaxVersions) \X Topics
NoClaim == <<0, "none">>
Doc(c) == version[c[1]].doc
Asserted(c) == At(c[1])
Value(c) == Says[version[c[1]].text][c[2]]

Entry(s, n) == [status |-> s, by |-> n]
Unmade == Entry("none", NoClaim)
Made(c) == ledger[c] # Unmade

ClaimsOf(v) == {c \in Claim : c[1] = v /\ Made(c)}
Own(d) == {c \in Claim : Made(c) /\ Doc(c) = d}

Live(L, c) == L[c].status \in {"active", "carried"}

\* superseded_by names a claim of another document.
External(c) == Made(c) /\ ledger[c].by # NoClaim /\ Doc(ledger[c].by) # Doc(c)

\* Claim ids grow with insertion: the smaller id of a pair is its a_claim_id.
Rank(c) == CHOOSE i \in DOMAIN extracted : extracted[i] = c[1]
First(p) == CHOOSE c \in p : \A e \in p : Rank(c) <= Rank(e)
Other(p, c) == CHOOSE e \in p : e # c

ExtractJob(v) == [kind |-> "extract", of |-> v]
ReconcileJob(d) == [kind |-> "reconcile", of |-> d]

Labels == {"none", "confirmed", "rejected"}
Idle == [doc |-> "none"]
SomeThreadFree == \E t \in Threads : busy[t] = Idle

LedgerTypeOK ==
    /\ VersionsTypeOK
    /\ ledger \in [Claim -> [status : {"none", "active", "carried", "superseded", "retracted"},
                             by : Claim \cup {NoClaim}]]
    /\ extracted \in Seq(DOMAIN version)
    /\ \A p \in opposed : p \subseteq Claim /\ Cardinality(p) = 2 /\ \A c \in p : Made(c)
    /\ resolved \subseteq opposed
    /\ label \in [opposed -> Labels]
    /\ judging \subseteq Claim \X Claim
    /\ pending \subseteq {ExtractJob(v) : v \in DOMAIN version} \cup {ReconcileJob(d) : d \in Docs}
    /\ dirty \subseteq Docs
    /\ muted \subseteq DOMAIN version
    /\ reopened \subseteq opposed

Init ==
    /\ VersionsInit
    /\ ledger = [c \in Claim |-> Unmade]
    /\ extracted = <<>>
    /\ opposed = {} /\ resolved = {} /\ label = <<>>
    /\ events = EmptyBag
    /\ judging = {}
    /\ pending = {}
    /\ busy = [t \in Threads |-> Idle]
    /\ labels = MaxLabels
    /\ dirty = {} /\ muted = {} /\ reopened = {}

-----------------------------------------------------------------------------
(***************************************************************************)
(* ingest_source and wayback_backfill: a new version queues its indexing   *)
(* and extraction, and a backfill the document's reconcile as well.        *)
(***************************************************************************)
Inserted == {v \in DOMAIN version' : v > Len(version)}

IngestSource(d, x, published) ==
    /\ judging = {}
    /\ SomeThreadFree
    /\ Fetch(d, x, published)
    /\ pending' = pending \cup {ExtractJob(v) : v \in Inserted}
    /\ dirty' = dirty \cup {version'[v].doc : v \in Inserted}
    /\ UNCHANGED <<ledger, extracted, relationVars, events, judging, busy, labels, muted, reopened>>

\* A snapshot that is stored already queues a reconcile only when an earlier
\* document of the same job got a version: the count the code tests is the job's.
WaybackBackfill(d, x, at, counted) ==
    /\ judging = {}
    /\ SomeThreadFree
    /\ Backfill(d, x, at)
    /\ pending' = pending \cup {ExtractJob(v) : v \in Inserted}
                          \cup (IF counted \/ Inserted # {} THEN {ReconcileJob(d)} ELSE {})
    /\ dirty' = dirty \cup {version'[v].doc : v \in Inserted}
    /\ UNCHANGED <<ledger, extracted, relationVars, events, judging, busy, labels, muted, reopened>>

-----------------------------------------------------------------------------
(***************************************************************************)
(* extract_claims.                                                         *)
(***************************************************************************)
Said(v) == {c \in Claim : c[1] = v /\ Value(c) # Silent}

\* candidate_pairs: live claims of other documents, comparable with this one.
Candidates(c) == {o \in Claim : Live(ledger, o) /\ Doc(o) # Doc(c) /\ o[2] = c[2]}

\* Variant: only a document that has changed is reconciled.
FollowUpOfRevision(v) ==
    IF Cardinality(Of(version[v].doc)) > 1 THEN {ReconcileJob(version[v].doc)} ELSE {}

\* What extraction queues when it found claims.
FollowUp(v) == {ReconcileJob(version[v].doc)}

Extract(v) ==
    /\ judging = {}
    /\ SomeThreadFree
    /\ ExtractJob(v) \in pending
    /\ Said(v) # {}
    /\ ledger' = [c \in Claim |-> IF c \in Said(v) THEN Entry("active", NoClaim) ELSE ledger[c]]
    /\ extracted' = Append(extracted, v)
    /\ judging' = UNION {{c} \X Candidates(c) : c \in Said(v)}
    /\ pending' = (pending \ {ExtractJob(v)}) \cup FollowUp(v)
    /\ dirty' = dirty \cup {version[v].doc}
    /\ UNCHANGED <<versionVars, relationVars, events, busy, labels, muted, reopened>>

\* Nothing was found: the job returns before it queues anything.
ExtractNothing(v) ==
    /\ judging = {}
    /\ SomeThreadFree
    /\ ExtractJob(v) \in pending
    /\ Said(v) = {}
    /\ pending' = pending \ {ExtractJob(v)}
    /\ muted' = muted \cup {v}
    /\ UNCHANGED <<versionVars, ledger, extracted, relationVars, events, judging, busy, labels, dirty,
                   reopened>>

\* Variant: a statement that signals an update always wins.
SupersedesByCue(n, o) ==
    /\ Value(n) # Value(o)
    /\ version[n[1]].text \in Announces

\* heuristic_relation of two claims that differ: the newer supersedes the older
\* when its statement signals an update, and otherwise they contradict each other.
Supersedes(n, o) ==
    /\ Value(n) # Value(o)
    /\ Asserted(n) > Asserted(o)
    /\ version[n[1]].text \in Announces

Contradicts(c, o) == Value(c) # Value(o) /\ ~Supersedes(c, o) /\ ~Supersedes(o, c)

Resolution(p, owner) ==
    [event |-> "conflict_resolved", claim |-> owner, other |-> Other(p, owner), version |-> 0]

\* Variant: a user's note is no exception.
SupersedeAny(older, newer) ==
    IF ledger[older].status = "superseded"
    THEN UNCHANGED <<ledger, resolved, events>>
    ELSE LET closed == {p \in opposed \ resolved : older \in p}
         IN /\ ledger' = [ledger EXCEPT ![older] = Entry("superseded", newer)]
            /\ resolved' = resolved \cup closed
            /\ events' = events (+) SetToBag({Resolution(p, older) : p \in closed})

\* apply_supersede, but never of a user's note; and resolve_conflicts_for.
Supersede(older, newer) ==
    IF ledger[older].status = "superseded" \/ Doc(older) \in Notes
    THEN UNCHANGED <<ledger, resolved, events>>
    ELSE LET closed == {p \in opposed \ resolved : older \in p}
         IN /\ ledger' = [ledger EXCEPT ![older] = Entry("superseded", newer)]
            /\ resolved' = resolved \cup closed
            /\ events' = events (+) SetToBag({Resolution(p, older) : p \in closed})

\* One round of judge_relations: the relation found, and its side effects.
Judge(c, o) ==
    /\ <<c, o>> \in judging
    /\ judging' = judging \ {<<c, o>>}
    /\ IF Contradicts(c, o)
       THEN /\ opposed' = opposed \cup {{c, o}}
            /\ label' = [p \in opposed' |-> IF p = {c, o} THEN "none" ELSE label[p]]
            /\ UNCHANGED <<ledger, resolved, events>>
       ELSE /\ UNCHANGED <<opposed, label>>
            /\ IF Supersedes(c, o) THEN Supersede(o, c)
               ELSE IF Supersedes(o, c) THEN Supersede(c, o)
               ELSE UNCHANGED <<ledger, resolved, events>>
    /\ UNCHANGED <<versionVars, extracted, workVars, historyVars>>

-----------------------------------------------------------------------------
(***************************************************************************)
(* reconcile_document.                                                     *)
(***************************************************************************)
\* Variant: versions in order of insertion.
LaterInserted(v) == {u \in Of(version[v].doc) : u > v}

\* _versions_of: in order of world time.
Later(v) == {u \in Of(version[v].doc) : At(u) > At(v)}
Successor(v) == CHOOSE u \in Later(v) : \A w \in Later(v) : At(u) <= At(w)

\* The next version is a fragment of this one, or lost all of its many claims.
Suspect(v) ==
    LET n == Successor(v)
    IN \/ version[n].text \in Stubs /\ version[v].text \notin Stubs
       \/ /\ Cardinality({c \in ClaimsOf(v) : ~External(c)}) >= ManyClaims
          /\ ClaimsOf(n) = {}

\* What becomes of a claim in the next version of its document.
Outcome(c) ==
    LET s == <<Successor(c[1]), c[2]>>
    IN IF Later(c[1]) = {} THEN Entry("active", NoClaim)
       ELSE IF Made(s) THEN Entry(IF Value(s) = Value(c) THEN "carried" ELSE "superseded", s)
       ELSE IF Suspect(c[1]) THEN Entry("active", NoClaim)
       ELSE Entry("retracted", NoClaim)

\* Variant: claims another document superseded are recomputed too.
RecomputedAll(d) == [c \in Claim |-> IF c \in Own(d) THEN Outcome(c) ELSE ledger[c]]

Recomputed(d) == [c \in Claim |-> IF c \in Own(d) /\ ~External(c) THEN Outcome(c) ELSE ledger[c]]

\* The superseded and retracted events a document's claims should have.
LifecycleEvents(d, L) ==
    {[event |-> L[c].status, claim |-> c, other |-> L[c].by, version |-> Successor(c[1])] :
        c \in {e \in Own(d) : ~External(e) /\ L[e].status \in {"superseded", "retracted"}}}

\* Variant: only the contradictions whose first claim is this document's.
TouchingFirst(d) == {p \in opposed : label[p] # "rejected" /\ First(p) \in Own(d)}

Touching(d) == {p \in opposed : label[p] # "rejected" /\ p \cap Own(d) # {}}
StillOpen(p, L) == \A c \in p : Live(L, c)

\* The side a closed contradiction is put down to.
Inactive(p, L) == IF Live(L, First(p)) THEN Other(p, First(p)) ELSE First(p)

\* Variant: events that no longer apply are left.
NoStaleEvents(d, wanted) == {}

\* reconcile finds the events of this document's own claims only.
Loaded(d) == {e \in BagToSet(events) : e.claim \in Own(d)}
StaleEvents(d, wanted) == Loaded(d) \ wanted

\* Everything reconcile_document reads, and what it will write.
Plan(d) ==
    LET L == Recomputed(d)
        closed == {p \in Touching(d) : ~StillOpen(p, L)}
        wanted == LifecycleEvents(d, L) \cup {Resolution(p, Inactive(p, L)) : p \in closed}
    IN [doc |-> d,
        read |-> [c \in Own(d) |-> ledger[c]],
        write |-> [c \in Own(d) |-> L[c]],
        open |-> (Touching(d) \ closed) \cap resolved,
        close |-> closed \ resolved,
        drop |-> StaleEvents(d, wanted),
        add |-> wanted \ Loaded(d)]

BeginReconcile(t, d) ==
    /\ judging = {}
    /\ busy[t] = Idle
    /\ ReconcileJob(d) \in pending
    /\ busy' = [busy EXCEPT ![t] = Plan(d)]
    /\ pending' = pending \ {ReconcileJob(d)}
    /\ dirty' = dirty \ {d}
    /\ reopened' = reopened \ Touching(d)
    /\ UNCHANGED <<versionVars, ledger, extracted, relationVars, events, judging, labels, muted>>

\* A flush writes the columns that differ from what was read.
Written(was, new, cur) ==
    Entry(IF new.status = was.status THEN cur.status ELSE new.status,
          IF new.by = was.by THEN cur.by ELSE new.by)

CommitReconcile(t) ==
    /\ judging = {}
    /\ busy[t] # Idle
    /\ LET r == busy[t]
       IN /\ ledger' = [c \in Claim |->
                          IF c \in DOMAIN r.read THEN Written(r.read[c], r.write[c], ledger[c])
                          ELSE ledger[c]]
          /\ resolved' = (resolved \ r.open) \cup r.close
          /\ events' = (events (-) SetToBag(r.drop)) (+) SetToBag(r.add)
    /\ busy' = [busy EXCEPT ![t] = Idle]
    /\ UNCHANGED <<versionVars, extracted, opposed, label, judging, pending, labels, historyVars>>

\* The handler failed or its process died: rolled back, and queued again (as often
\* as that may be: the attempts of a job are JobQueue's).
AbandonReconcile(t) ==
    /\ judging = {}
    /\ busy[t] # Idle
    /\ pending' = pending \cup {ReconcileJob(busy[t].doc)}
    /\ dirty' = dirty \cup {busy[t].doc}
    /\ busy' = [busy EXCEPT ![t] = Idle]
    /\ UNCHANGED <<versionVars, ledger, extracted, relationVars, events, judging, labels, muted,
                   reopened>>

\* A reconcile has read that the relation is to be open again.
ToBeOpened(p) == \E t \in Threads : busy[t] # Idle /\ p \in busy[t].open

\* PATCH /relations/{id}: a rejected relation stops counting straight away.
PatchRelation(p, l) ==
    /\ judging = {}
    /\ p \in opposed
    /\ labels > 0 /\ labels' = labels - 1
    /\ label' = [label EXCEPT ![p] = l]
    /\ resolved' = IF l = "rejected" THEN resolved \cup {p} ELSE resolved
    /\ reopened' = IF l # "rejected" THEN reopened
                   ELSE IF ToBeOpened(p) THEN reopened \cup {p} ELSE reopened \ {p}
    /\ UNCHANGED <<versionVars, ledger, extracted, opposed, events, judging, pending, busy, dirty, muted>>

Clock ==
    /\ judging = {}
    /\ Tick
    /\ UNCHANGED <<ledger, extracted, relationVars, events, judging, workVars, historyVars>>

Next ==
    \/ \E d \in Docs, x \in Texts, p \in Instants \cup {Undated} : IngestSource(d, x, p)
    \/ \E d \in Docs, x \in Texts, at \in Instants, counted \in BOOLEAN :
         WaybackBackfill(d, x, at, counted)
    \/ \E v \in DOMAIN version : Extract(v) \/ ExtractNothing(v)
    \/ \E pair \in judging : Judge(pair[1], pair[2])
    \/ \E t \in Threads : (\E d \in Docs : BeginReconcile(t, d)) \/ CommitReconcile(t)
                          \/ AbandonReconcile(t)
    \/ \E p \in opposed, l \in {"confirmed", "rejected"} : PatchRelation(p, l)
    \/ Clock

Spec == Init /\ [][Next]_vars

-----------------------------------------------------------------------------
(***************************************************************************)
(* Properties.                                                             *)
(***************************************************************************)
Committed == judging = {}
Clean(d) == d \notin dirty /\ \A t \in Threads : busy[t] # Idle => busy[t].doc # d
Quiet == Committed /\ pending = {} /\ \A t \in Threads : busy[t] = Idle

\* A next version reconcile may distrust: whether it does depends on how many of the
\* claims another document has superseded by then.
LooksSuspect(v) ==
    LET n == Successor(v)
    IN \/ version[n].text \in Stubs /\ version[v].text \notin Stubs
       \/ Cardinality(ClaimsOf(v)) >= ManyClaims /\ ClaimsOf(n) = {}

\* Execution order is irrelevant: once a reconcile has read what there is, the
\* claims that stand are those of the version with the greatest world time,
\* whatever order versions were inserted, extracted and reconciled in.
StandingIsLatest ==
    \A d \in Docs : Committed /\ Clean(d) /\ (\A v \in Of(d) : Later(v) # {} => ~LooksSuspect(v)) =>
        \A c \in Own(d) : ~External(c) => (ledger[c].status = "active" <=> c[1] = Latest(d))

\* The timeline tells what the ledger says: a reconciled document has one
\* superseded or retracted event for each claim with that end, and no other.
TimelineMatchesLedger ==
    \A d \in Docs : Committed /\ Clean(d) =>
        LET ends == {e \in BagToSet(events) : e.claim \in Own(d) /\ e.event # "conflict_resolved"}
        IN ends = LifecycleEvents(d, ledger) /\ \A e \in ends : events[e] = 1

\* reconcile.py: "A contradiction only stands while both sides are live statements":
\* and while they are, it stands, unless a user rejected it (or confirmed it after
\* that, which leaves it closed until the next reconcile).  What a user rejects is
\* closed and stays so, but for a reconcile that had read it as one to open.
ConflictsMatchLedger ==
    \A p \in opposed \ reopened : Committed /\ (\A c \in p : Clean(Doc(c))) =>
        IF label[p] = "rejected" THEN p \in resolved
        ELSE (p \notin resolved <=> StillOpen(p, ledger)) \/ (label[p] = "confirmed" /\ p \in resolved)

\* A claim's successor asserts later, across documents too: chains of
\* superseded_by lead forward in world time and end.
SuccessorIsLater ==
    \A c \in Claim : ledger[c].by # NoClaim => Asserted(ledger[c].by) > Asserted(c)

\* What another document superseded stays superseded, by that claim.
ExternalStands ==
    [][\A c \in Claim : External(c) => ledger'[c] = ledger[c]]_vars

\* A user's note is flagged, never superseded.
NotesKeepTheirStanding ==
    \A c \in Claim : Made(c) /\ Doc(c) \in Notes => ledger[c].status # "superseded"

\* When no job is left every document is reconciled with all of its claims; the
\* exception is a version that no claim was found in, which queues no reconcile.
OnlySilenceGoesUnnoticed ==
    Quiet => \A d \in dirty : Of(d) \cap muted # {}

\* The times an event is recorded.
Recorded(e) == IF e \in DOMAIN events THEN events[e] ELSE 0

\* ARCHITECTURE.md: "Handlers are idempotent. Re-running one must not duplicate rows":
\* that a contradiction was resolved is recorded once, by one side or the other.
ResolvedOnce ==
    \A p \in opposed : \A c \in p :
        Recorded(Resolution(p, c)) + Recorded(Resolution(p, Other(p, c))) <= 1
=============================================================================

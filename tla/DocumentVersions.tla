-------------------------- MODULE DocumentVersions --------------------------
(* A document and its versions (app/ingestion/versions.py): a live fetch and a *)
(* Wayback backfill both end in upsert_document_version, which stores a text   *)
(* once, gives each version a world time of its own, and decides which version *)
(* is current.  A version's id is its position in `version`.                   *)
EXTENDS Integers, Sequences, FiniteSets

CONSTANTS
    Docs,           \* document identities
    Notes,          \* those identified by their content (notes): one version only
    Texts,          \* contents a document may have
    MaxTime,        \* bound: instants of the clock
    MaxVersions     \* bound: versions stored

ASSUME VersionsAssumption ==
    /\ Notes \subseteq Docs
    /\ MaxTime \in Nat \ {0}
    /\ MaxVersions \in Nat

VARIABLES
    version,        \* rows of document_versions, in order of insertion
    current,        \* documents.current_version_id, 0 when there is none
    now,            \* the clock
    shown           \* history: the version a live fetch of the document last saw

versionVars == <<version, current, now, shown>>

Undated == 0                    \* published_at IS NULL
Instants == 1..MaxTime

Of(d) == {v \in DOMAIN version : version[v].doc = d}
At(v) == version[v].at

\* max(versions, key=effective_at)
Latest(d) == CHOOSE v \in Of(d) : \A u \in Of(d) : At(u) <= At(v)

VersionsTypeOK ==
    /\ version \in Seq([doc : Docs, text : Texts, at : Nat \ {0}])
    /\ current \in [Docs -> {0} \cup DOMAIN version]
    /\ shown \in [Docs -> {0} \cup DOMAIN version]
    /\ now \in Instants

VersionsInit ==
    /\ version = <<>>
    /\ current = [d \in Docs |-> 0]
    /\ now = 1
    /\ shown = [d \in Docs |-> 0]

Free(d, t) == \A v \in Of(d) : At(v) # t

\* Variant: an instant that is taken is used again.
NudgeNot(d, at) == {at}

\* _bump: from an instant that is taken to the next one; when that is taken as well,
\* by a second, a minute or a day, which may go past other versions.
Nudge(d, at) ==
    IF Free(d, at) THEN {at}
    ELSE IF Free(d, at + 1) THEN {at + 1}
    ELSE {t \in (at + 2)..(at + 2 + Len(version)) : Free(d, t)}

\* Variant: a first version without a publication date is not given the clock's.
EffectiveUndated(d, published) ==
    IF Of(d) = {} \/ published > At(Latest(d)) THEN published ELSE now

\* The world time of a live version: when it was published, if that is news.
Effective(d, published) ==
    IF published # Undated /\ (Of(d) = {} \/ published > At(Latest(d)))
    THEN published
    ELSE now

\* A text the document never had: insert it, and let world time choose the
\* current version.
Store(d, x, at) ==
    /\ Len(version) < MaxVersions
    /\ \E t \in Nudge(d, at) :
         /\ version' = Append(version, [doc |-> d, text |-> x, at |-> t])
         /\ current' = [current EXCEPT ![d] =
                          IF \E v \in Of(d) : At(v) > t THEN Latest(d) ELSE Len(version) + 1]

\* Variant: a text that is stored already is unchanged, and that is all.
RevertNot(d, v) ==
    /\ version[v].doc = d
    /\ UNCHANGED <<version, current>>

\* A text that is stored already becomes current again, whatever its age.
Revert(d, v) ==
    /\ version[v].doc = d
    /\ version' = version
    /\ current' = [current EXCEPT ![d] = v]

Stored(d, x) == {v \in Of(d) : version[v].text = x}

Upsert(d, x, at) ==
    IF Stored(d, x) = {} THEN Store(d, x, at) ELSE \E v \in Stored(d, x) : Revert(d, v)

\* ingest_source: the live page now reads x.  A note is another document when it
\* reads otherwise, and it comes without a date (captures, imports, MCP).
Fetch(d, x, published) ==
    /\ d \in Notes => Stored(d, x) = Of(d) /\ published = Undated
    /\ Upsert(d, x, Effective(d, published))
    /\ \E v \in DOMAIN version' :
         version'[v].doc = d /\ version'[v].text = x /\ shown' = [shown EXCEPT ![d] = v]
    /\ now' = now

\* wayback_backfill: a snapshot archived at `at`, in the past, read x.
Backfill(d, x, at) ==
    /\ Of(d) # {}
    /\ d \notin Notes
    /\ at <= now
    /\ Upsert(d, x, at)
    /\ UNCHANGED <<now, shown>>

Tick ==
    /\ now < MaxTime
    /\ now' = now + 1
    /\ UNCHANGED <<version, current, shown>>

VersionsNext ==
    \/ \E d \in Docs, x \in Texts, p \in Instants \cup {Undated} : Fetch(d, x, p)
    \/ \E d \in Docs, x \in Texts, t \in Instants : Backfill(d, x, t)
    \/ Tick

VersionsSpec == VersionsInit /\ [][VersionsNext]_versionVars

-----------------------------------------------------------------------------
\* World time orders a document's versions: no two share an instant, whatever
\* dates pages, archives and the clock report.
InstantsDistinct ==
    \A u, v \in DOMAIN version :
        version[u].doc = version[v].doc /\ At(u) = At(v) => u = v

\* What a fetch saw is what the document shows, be it new, changed, or a text it
\* went back to; only a version that claims a later instant goes before it.
LiveIsCurrent ==
    [][\A d \in Docs :
         shown'[d] # shown[d] =>
            current'[d] = shown'[d] \/ version'[current'[d]].at > now]_versionVars
=============================================================================

------------------------------- MODULE Intake --------------------------------
(* What users bring in and keep, each part with its own state: their        *)
(* accounts, the sources they watch, the shelves and flags of their library,*)
(* the texts that captures and imports store, what is fetched for them, and *)
(* the demo's corpus.                                                       *)
EXTENDS Accounts, Sources, Library, Captures, Fetching, Seeding

\* auth.py, sources.py, watches.py, library.py, imports.py, fetch.py, demo: only a path that
\* takes no lock makes a second owner; a source with a watch is watched, unless
\* the user switched that off or requests about it overlapped; a flag stands until one sets
\* it anew and shelves keep apart; a URL has one source row unless requests crossed, a
\* stored text its index job unless its request died; requests to a host keep apart and
\* are repeated for a reason, and no entry of a feed that says something is lost; a corpus
\* file other than the first has one source, each version one index job, and a kept answer
\* is found.
IntakeHolds ==
    /\ AccountsTell
    /\ SourcesTypeOK /\ WatchRowsWatch
    /\ LibraryTells
    /\ CapturesTell
    /\ FetchTells
    /\ SeedingTells
=============================================================================

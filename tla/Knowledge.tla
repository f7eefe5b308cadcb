------------------------------ MODULE Knowledge ------------------------------
(* What the system knows of its sources and finds in it, each part with its *)
(* own state: the claims that are extracted, how pairs of them are judged   *)
(* and clustered, the camps that clusters split into, how a text is chunked,*)
(* and what a search, a verification, a streamed answer and a page tell.    *)
EXTENDS Chunking, Extraction, Judging, Clusters, Camps, PageBody, Retrieval, Verifying,
        Answering

\* app/claims: no two runs of extraction hold one claim, and a version without a model
\* has the heuristic's claims; a pair is judged alike both ways round and no repetition
\* contradicts itself; a cluster counts its own claims, and those that are strongly
\* related share one; its camps split it exactly when it can be split.
ClaimsHold ==
    /\ ExtractionTells
    /\ JudgingTells
    /\ ClustersTell
    /\ CampsSplit

\* chunking.py, hybrid.py, app/verify, app/wiki: chunks cover a text and keep its sentences;
\* a search compares vectors of one space, ranks by both legs and misses no current text;
\* a verdict is backed by the evidence its rules name; an answer shows, stores and places
\* the sentences its text is later split into; a page says only what its claims do, and
\* shows one number for one claim wherever it is shown.
ReadingHolds ==
    /\ ChunksTell
    /\ SearchTells
    /\ VerdictsTell
    /\ AnswersTell
    /\ PageTells
=============================================================================

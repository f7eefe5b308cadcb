----------------------------- MODULE Extraction ----------------------------
(* Claims out of a version (app/claims/extract.py, align.py,                    *)
(* heuristic_extract.py): runs over the same version at once, each in one        *)
(* transaction, chunk by chunk; a chunk's drafts come from the model or, where   *)
(* it fails, from the sentences themselves. Chunks overlap, and sentences recur. *)
EXTENDS Integers, Sequences, FiniteSets, FiniteSetsExt, SequencesExt

CONSTANTS
    ExtractRuns,    \* extract_claims jobs of one version
    Wording,        \* the version's sentences, in order
    SentenceSpans,  \* the first and last sentence of each chunk
    Traits,         \* what the heuristic sees in each sentence
    Altered,        \* quotes a model changed slightly: the sentence each is of
    ModelDrafts,    \* what a model may answer for a chunk: sequences of drafts
    MaxClaims       \* MAX_CLAIMS

ASSUME ExtractionAssumption ==
    /\ MaxClaims \in Nat
    /\ Wording \in Seq(Range(Wording))
    /\ SentenceSpans \in Seq((1..Len(Wording)) \X (1..Len(Wording)))
    /\ \A drafts \in ModelDrafts : drafts \in Seq(Range(drafts))

VARIABLES
    claims,         \* the committed claims: statement and place
    extraction,     \* each job's place in its chunks, and its transaction
    heuristicOnly   \* history: no committed run has used a model's drafts

extractionVars == <<claims, extraction, heuristicOnly>>

Places == DOMAIN Wording
ChunkNumbers == DOMAIN SentenceSpans
Queued == [at |-> "queued"]

ExtractionInit ==
    /\ claims = {}
    /\ extraction = [r \in ExtractRuns |-> Queued]
    /\ heuristicOnly = TRUE

-----------------------------------------------------------------------------
\* is_claim_sentence: the bounds come after the quantity, except the upper one.
IsClaimSentence(s) ==
    LET t == Traits[s]
    IN  /\ ~t.question /\ ~t.boilerplate /\ t.length # "long"
        /\ \/ t.quantity
           \/ t.date /\ (t.verb \/ t.event)
           \/ t.length # "short" /\ t.verb

ClaimPlaces(k) == {i \in SentenceSpans[k][1]..SentenceSpans[k][2] : IsClaimSentence(Wording[i])}

\* A draft for the sentence at each of the places, in order.
NthOf(places, n) == CHOOSE i \in places : Cardinality({j \in places : j < i}) = n - 1
DraftsAt(places) ==
    [n \in 1..Cardinality(places) |-> [statement |-> Wording[NthOf(places, n)],
                                       quote |-> Wording[NthOf(places, n)]]]

\* Variant: of the first MAX_CLAIMS sentences, those that are claims.
LimitFirst(k) == DraftsAt({i \in ClaimPlaces(k) : i < SentenceSpans[k][1] + MaxClaims})

\* heuristic_claims: a chunk's claim sentences, the first MAX_CLAIMS of them.
HeuristicDrafts(k) ==
    DraftsAt({i \in ClaimPlaces(k) : Cardinality({j \in ClaimPlaces(k) : j <= i}) <= MaxClaims})

\* align_quote: the first place that reads so, else the first that reads so but
\* for spacing, quotation marks, case or a typo.
AlignIn(quote, from, to) ==
    LET exact == {i \in from..to : Wording[i] = quote}
        near == {i \in from..to : quote \in DOMAIN Altered /\ Wording[i] = Altered[quote]}
    IN  IF exact # {} THEN {Min(exact)} ELSE IF near # {} THEN {Min(near)} ELSE {}

\* In the chunk, else anywhere in the version, else the draft is rejected.
Align(quote, k) ==
    LET inChunk == AlignIn(quote, SentenceSpans[k][1], SentenceSpans[k][2])
    IN  IF inChunk # {} THEN inChunk ELSE AlignIn(quote, 1, Len(Wording))

\* One claim or none.
ClaimsOf(d, k) == {[statement |-> d.statement, place |-> p] : p \in Align(d.quote, k)}

ExpectedClaims ==
    UNION {UNION {ClaimsOf(d, k) : d \in Range(HeuristicDrafts(k))} : k \in ChunkNumbers}

-----------------------------------------------------------------------------
BeginExtraction(r) ==
    /\ extraction[r].at \in {"queued", "done"}
    /\ extraction' = [extraction EXCEPT ![r] = [at |-> "chunk", chunk |-> 1, drafts |-> << >>,
                                  added |-> {}, model |-> FALSE]]
    /\ UNCHANGED <<claims, heuristicOnly>>

\* _drafts_for
DraftChunk(r) ==
    /\ extraction[r].at = "chunk" /\ extraction[r].chunk \in ChunkNumbers
    /\ \/ extraction' = [extraction EXCEPT ![r].at = "drafts", ![r].drafts = HeuristicDrafts(extraction[r].chunk)]
       \/ \E drafts \in ModelDrafts :
              extraction' = [extraction EXCEPT ![r].at = "drafts", ![r].drafts = drafts, ![r].model = TRUE]
    /\ UNCHANGED <<claims, heuristicOnly>>

NextDraft(r) == ClaimsOf(Head(extraction[r].drafts), extraction[r].chunk)
Uncommitted(r) == UNION {extraction[o].added : o \in {o \in ExtractRuns \ {r} :
                                                   extraction[o].at \in {"chunk", "drafts"}}}

\* _persist: what is there already is left alone, and so is what another run
\* commits first: the unique index waits for that run, and the savepoint is undone.
PersistDraft(r) ==
    /\ extraction[r].at = "drafts" /\ extraction[r].drafts # << >>
    /\ NextDraft(r) \cap Uncommitted(r) = {}
    /\ extraction' = [extraction EXCEPT ![r].drafts = Tail(@),
                          ![r].added = @ \cup (NextDraft(r) \ claims)]
    /\ UNCHANGED <<claims, heuristicOnly>>

ChunkDone(r) ==
    /\ extraction[r].at = "drafts" /\ extraction[r].drafts = << >>
    /\ extraction' = [extraction EXCEPT ![r].at = "chunk", ![r].chunk = @ + 1]
    /\ UNCHANGED <<claims, heuristicOnly>>

\* The job's transaction commits; the document may be extracted again.
CommitExtraction(r) ==
    /\ extraction[r].at = "chunk" /\ extraction[r].chunk \notin ChunkNumbers
    /\ claims' = claims \cup extraction[r].added
    /\ heuristicOnly' = (heuristicOnly /\ ~extraction[r].model)
    /\ extraction' = [extraction EXCEPT ![r] = [at |-> "done"]]

\* A crash, an error, or a deadlock of two runs that wait for each other's claims:
\* nothing of the transaction stays, and the queue tries the job again.
ExtractionFails(r) ==
    /\ extraction[r].at \in {"chunk", "drafts"}
    /\ extraction' = [extraction EXCEPT ![r] = Queued]
    /\ UNCHANGED <<claims, heuristicOnly>>

ExtractionNext ==
    \E r \in ExtractRuns :
        \/ BeginExtraction(r) \/ DraftChunk(r) \/ PersistDraft(r) \/ ChunkDone(r) \/ CommitExtraction(r) \/ ExtractionFails(r)

ExtractionSpec == ExtractionInit /\ [][ExtractionNext]_extractionVars

-----------------------------------------------------------------------------
\* However runs interleave, fail and repeat, the heuristic's claims of a version
\* are always the same ones: none twice, none lost.
RunsAgree ==
    heuristicOnly /\ (\E r \in ExtractRuns : extraction[r].at = "done") => claims = ExpectedClaims

\* Each sentence worth a claim has one, at its own place or at the first place in
\* a chunk of it that reads the same.
NoSentenceIsLost ==
    heuristicOnly /\ (\E r \in ExtractRuns : extraction[r].at = "done") =>
        \A k \in ChunkNumbers : \A i \in SentenceSpans[k][1]..SentenceSpans[k][2] :
            IsClaimSentence(Wording[i])
                /\ Cardinality({j \in SentenceSpans[k][1]..i : IsClaimSentence(Wording[j])}) <= MaxClaims
            => \E j \in SentenceSpans[k][1]..i : [statement |-> Wording[i], place |-> j] \in claims

\* No two runs ever hold the same new claim, model's or heuristic's.
OneClaimOnce ==
    \A r \in ExtractRuns :
        extraction[r].at \in {"chunk", "drafts"} => extraction[r].added \cap Uncommitted(r) = {}

\* claims/extract.py: runs over one version that fail, repeat and interleave store the
\* claims that one would have stored.
ExtractionTells == RunsAgree /\ NoSentenceIsLost /\ OneClaimOnce
=============================================================================

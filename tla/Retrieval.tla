----------------------------- MODULE Retrieval -----------------------------
(* The chunks of a document's versions and what their vectors were made with    *)
(* (app/indexing/indexer.py, embeddings.py), and the search that fuses the      *)
(* full-text and the vector ranking over them (app/retrieval).                  *)
EXTENDS Integers, FiniteSets, SequencesExt

CONSTANTS
    Processes,      \* API and worker processes, each with an embedder of its own
    ChunksOf,       \* the chunks of each version in order; versions are 1, 2, ...
    LexicalOrder,   \* the chunks by ts_rank_cd, best first
    VectorOrder,    \* the chunks by distance to the query, nearest first
    CrossScore,     \* what the cross-encoder says of each chunk
    RRFK,           \* rrf_k
    Candidates,     \* retrieval_candidates
    Limit           \* k

\* A chunk without a row, and a row without a vector; fastembed or its fallback.
NoChunk == [row |-> FALSE]
NoSpace == "none"
Embedders == {"hashing", "fastembed"}

Chunks == UNION {Range(ChunksOf[v]) : v \in DOMAIN ChunksOf}
VersionWith(c) == CHOOSE v \in DOMAIN ChunksOf : c \in Range(ChunksOf[v])

\* Every chunk once.
OrdersChunks(order) == /\ order \in Seq(Chunks) /\ Range(order) = Chunks
                       /\ Len(order) = Cardinality(Chunks)

ASSUME RetrievalAssumption ==
    /\ OrdersChunks(LexicalOrder) /\ OrdersChunks(VectorOrder)
    /\ Chunks \subseteq Nat /\ CrossScore \in [Chunks -> Int]
    /\ {RRFK, Candidates, Limit} \subseteq Nat \ {0}

\* space is what a vector really is, which no column holds; model is the column.
VARIABLES
    embedder,       \* _embedder of each process
    current,        \* the document's current version
    chunk,
    claimSpace,     \* per chunk, the space its claim's vector is in
    found           \* the last search

retrievalVars == <<embedder, current, chunk, claimSpace, found>>

NotSearched == [by |-> NoSpace]

RetrievalInit ==
    /\ embedder = [p \in Processes |-> NoSpace]
    /\ current = 1
    /\ chunk = [c \in Chunks |-> NoChunk]
    /\ claimSpace = [c \in Chunks |-> NoSpace]
    /\ found = NotSearched

Quiet == found = NotSearched

-----------------------------------------------------------------------------
\* get_embedder: fastembed where it loads, hashing where it does not. The choice
\* is the process's, and lasts as long as it does.
LoadEmbedder(p) ==
    /\ Quiet /\ embedder[p] = NoSpace
    /\ \E e \in Embedders : embedder' = [embedder EXCEPT ![p] = e]
    /\ UNCHANGED <<current, chunk, claimSpace, found>>

Restart(p) ==
    /\ Quiet /\ embedder[p] # NoSpace
    /\ embedder' = [embedder EXCEPT ![p] = NoSpace]
    /\ UNCHANGED <<current, chunk, claimSpace, found>>

StoreVersion ==
    /\ Quiet /\ current + 1 \in DOMAIN ChunksOf
    /\ current' = current + 1
    /\ UNCHANGED <<embedder, chunk, claimSpace, found>>

\* _embed_chunks: those that have no vector, and no others. A row made with
\* another embedder is counted stale by _fill_missing_embeddings, and kept here.
EmbedChunks(rows, cs, e) ==
    [c \in Chunks |-> IF c \in cs /\ rows[c].space = NoSpace
                      THEN [rows[c] EXCEPT !.space = e, !.model = e] ELSE rows[c]]

Bare == [row |-> TRUE, space |-> NoSpace, model |-> NoSpace]
Stale(cs, e) == {c \in cs : chunk[c].space = NoSpace \/ chunk[c].model # e}

\* index_version: a version that has chunks is filled in; one that has none, or
\* whose chunks force deletes, gets them all.
IndexVersion(p, v, force) ==
    LET its == Range(ChunksOf[v])
        present == {c \in its : chunk[c].row}
    IN  /\ Quiet /\ embedder[p] # NoSpace /\ v <= current
        /\ chunk' = IF present # {} /\ ~force
                    THEN EmbedChunks(chunk, Stale(present, embedder[p]), embedder[p])
                    ELSE EmbedChunks([c \in Chunks |-> IF c \in its THEN Bare ELSE chunk[c]],
                                     its, embedder[p])
        /\ UNCHANGED <<embedder, current, claimSpace, found>>

\* _persist: the claims of a version are embedded by the process that finds them.
ExtractVersion(p, v) ==
    /\ Quiet /\ embedder[p] # NoSpace /\ v <= current
    /\ claimSpace' = [c \in Chunks |-> IF VersionWith(c) = v /\ chunk[c].row /\ claimSpace[c] = NoSpace
                                       THEN embedder[p] ELSE claimSpace[c]]
    /\ UNCHANGED <<embedder, current, chunk, found>>

\* reindex_embeddings: every chunk whose model is another, and claims that have
\* no vector: a claim has no column to tell by.
ReindexEmbeddings(p) ==
    /\ Quiet /\ embedder[p] # NoSpace
    /\ chunk' = [c \in Chunks |->
                    IF chunk[c].row /\ (chunk[c].space = NoSpace \/ chunk[c].model # embedder[p])
                    THEN [chunk[c] EXCEPT !.space = embedder[p], !.model = embedder[p]]
                    ELSE chunk[c]]
    /\ UNCHANGED <<embedder, current, claimSpace, found>>

-----------------------------------------------------------------------------
\* _apply_filters: superseded versions only for who asks for them.
Eligible(old) ==
    {c \in Chunks : chunk[c].row /\ (old \/ VersionWith(c) = current)}

\* What is sorted by a strict order of it, what is first of it, and a place in it.
SortedBy(S, before) ==
    [n \in 1..Cardinality(S) |->
        CHOOSE c \in S : Cardinality({d \in S : <<d, c>> \in before}) = n - 1]
FirstOf(s, n) == SubSeq(s, 1, IF Len(s) < n THEN Len(s) ELSE n)
RankIn(s, c) == CHOOSE i \in DOMAIN s : s[i] = c

\* _lexical_leg over the chunks that match; _vector_leg over those of this model.
Ranked(order, cs) ==
    FirstOf(SortedBy(cs, {p \in cs \X cs : RankIn(order, p[1]) < RankIn(order, p[2])}), Candidates)
LexicalLeg(matching, old) == Ranked(LexicalOrder, matching \cap Eligible(old))
VectorLeg(e, old) ==
    Ranked(VectorOrder, {c \in Eligible(old) : chunk[c].space # NoSpace /\ chunk[c].model = e})

\* reciprocal_rank_fusion: the sum of 1/(k + rank) over the legs, a fraction.
Plus(x, y) == <<x[1] * y[2] + y[1] * x[2], x[2] * y[2]>>
Share(leg, c) == IF c \in Range(leg) THEN <<1, RRFK + RankIn(leg, c)>> ELSE <<0, 1>>
Fused(lex, vec, c) == Plus(Share(lex, c), Share(vec, c))
\* Variant: sorted by the score as it is.
BeatsAscending(lex, vec, c, d) ==
    LET x == Fused(lex, vec, c) y == Fused(lex, vec, d)
    IN  x[1] * y[2] < y[1] * x[2] \/ (x[1] * y[2] = y[1] * x[2] /\ c < d)

Beats(lex, vec, c, d) ==
    LET x == Fused(lex, vec, c) y == Fused(lex, vec, d)
    IN  x[1] * y[2] > y[1] * x[2] \/ (x[1] * y[2] = y[1] * x[2] /\ c < d)

\* _apply_rerank: a stable sort by the cross-encoder's score, where 0 is taken
\* for no score and counts as -1.
Reranking(c) == IF CrossScore[c] = 0 THEN -1 ELSE CrossScore[c]
Reranked(hits) ==
    SortedBy(Range(hits), {p \in Range(hits) \X Range(hits) :
        \/ Reranking(p[1]) > Reranking(p[2])
        \/ Reranking(p[1]) = Reranking(p[2]) /\ RankIn(hits, p[1]) < RankIn(hits, p[2])})

Fusion(lex, vec) ==
    LET both == Range(lex) \cup Range(vec)
    IN  FirstOf(SortedBy(both, {p \in both \X both : Beats(lex, vec, p[1], p[2])}), Candidates)

\* hybrid_search: mode says which legs to run; reranks are "off" or "on".
Search(p, mode, matching, old, reranks) ==
    LET lex == IF mode = "vector" THEN << >> ELSE LexicalLeg(matching, old)
        vec == IF mode = "lexical" THEN << >> ELSE VectorLeg(embedder[p], old)
        hits == IF reranks THEN Reranked(Fusion(lex, vec)) ELSE Fusion(lex, vec)
    IN  /\ Quiet /\ embedder[p] # NoSpace
        /\ found' = [by |-> embedder[p], mode |-> mode, lex |-> lex, vec |-> vec, old |-> old,
                     matching |-> matching, reranks |-> reranks,
                     effective |-> CASE lex = << >> /\ vec = << >> -> "empty"
                                     [] lex = << >> -> "vector"
                                     [] vec = << >> -> "lexical"
                                     [] OTHER -> mode,
                     hits |-> FirstOf(hits, Limit)]
        /\ UNCHANGED <<embedder, current, chunk, claimSpace>>

RetrievalNext ==
    \/ \E p \in Processes :
        \/ LoadEmbedder(p) \/ Restart(p) \/ ReindexEmbeddings(p)
        \/ \E v \in DOMAIN ChunksOf : ExtractVersion(p, v)
        \/ \E v \in DOMAIN ChunksOf, force \in BOOLEAN : IndexVersion(p, v, force)
        \/ \E mode \in {"hybrid", "lexical", "vector"}, matching \in SUBSET Chunks,
              old, reranks \in BOOLEAN : Search(p, mode, matching, old, reranks)
    \/ StoreVersion

RetrievalSpec == RetrievalInit /\ [][RetrievalNext]_retrievalVars

-----------------------------------------------------------------------------
\* The model column of a chunk is the space of its vector, so the vector leg
\* compares the query with vectors of the process's own embedder only, whichever
\* process fell back to hashing, indexed again or reindexed before.
OneSpace ==
    /\ \A c \in Chunks : chunk[c].row => chunk[c].model = chunk[c].space
    /\ found # NotSearched => \A c \in Range(found.vec) : chunk[c].space = found.by

\* A search finds nothing of a superseded version unless asked, and misses no
\* match of the lexical leg but for want of room (candidates, and then k).
FindsCurrent ==
    found # NotSearched =>
        /\ \A c \in Range(found.hits) : chunk[c].row /\ (found.old \/ VersionWith(c) = current)
        /\ (found.mode # "vector" /\ Cardinality(Chunks) <= Candidates /\ Cardinality(Chunks) <= Limit)
              => found.matching \cap Eligible(found.old) \subseteq Range(found.hits)

\* Reciprocal rank fusion: a hit is never below one that no leg ranks higher and
\* some leg lower; not to be in a leg is to be below all that are.
Above(leg, c, d) ==
    c \in Range(leg) /\ (d \in Range(leg) => \E i, j \in DOMAIN leg : leg[i] = c /\ leg[j] = d /\ i < j)
Level(leg, c, d) == {c, d} \cap Range(leg) = {}
FusionRanks ==
    found # NotSearched =>
        found.reranks \/ \A i, j \in DOMAIN found.hits :
            LET c == found.hits[i]
                d == found.hits[j]
            IN  /\ \E leg \in {found.lex, found.vec} : Above(leg, c, d)
                /\ \A leg \in {found.lex, found.vec} : Above(leg, c, d) \/ Level(leg, c, d)
                => i < j

SearchTells == OneSpace /\ FindsCurrent /\ FusionRanks
=============================================================================

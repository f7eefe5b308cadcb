----------------------------- MODULE PagesProofs -----------------------------
(* Proofs about the way from a text to what is shown of it: the claims that *)
(* runs of extraction store (Extraction), the pages that are planned and    *)
(* compiled from claims (WikiPages), the timeline that is read in pages     *)
(* (Timeline), and the links and briefs that leave the system (Publishing). *)
EXTENDS WikiPages, Extraction, Timeline, Publishing, FunctionTheorems, SequenceTheorems,
        FiniteSetTheorems, WellFoundedInduction, TLAPS

-----------------------------------------------------------------------------
(* Strict orders, and the places of a sequence.                             *)

StrictlyOrders(R, S) ==
    /\ \A x \in S : <<x, x>> \notin R
    /\ \A x, y, z \in S : <<x, y>> \in R /\ <<y, z>> \in R => <<x, z>> \in R
    /\ \A x, y \in S : x = y \/ <<x, y>> \in R \/ <<y, x>> \in R

Below(R, S, x) == {y \in S : <<y, x>> \in R}

\* In a finite strict order elements are told apart by how many come before them, and every
\* number below the size is such a number.
LEMMA Ranks ==
    ASSUME NEW S, IsFiniteSet(S), NEW R, StrictlyOrders(R, S)
    PROVE  /\ Cardinality(S) \in Nat
           /\ \A x \in S : /\ IsFiniteSet(Below(R, S, x))
                           /\ Cardinality(Below(R, S, x)) \in 0..(Cardinality(S) - 1)
           /\ \A x, y \in S :
                <<x, y>> \in R <=> Cardinality(Below(R, S, x)) < Cardinality(Below(R, S, y))
           /\ \A x, y \in S : Cardinality(Below(R, S, x)) = Cardinality(Below(R, S, y)) => x = y
           /\ \A n \in 1..Cardinality(S) : \E x \in S : Cardinality(Below(R, S, x)) = n - 1
<1> DEFINE rank(x) == Cardinality(Below(R, S, x))
           c == Cardinality(S)
<1>1. c \in Nat BY FS_CardinalityType
<1>2. ASSUME NEW x \in S PROVE IsFiniteSet(Below(R, S, x)) /\ rank(x) \in 0..(c - 1)
  <2>1. /\ IsFiniteSet(S \ {x}) /\ Cardinality(S \ {x}) = c - 1 BY FS_RemoveElement
  <2>2. Below(R, S, x) \in SUBSET (S \ {x}) BY DEF Below, StrictlyOrders
  <2>3. /\ IsFiniteSet(Below(R, S, x)) /\ rank(x) <= c - 1 BY <2>1, <2>2, FS_Subset
  <2>4. rank(x) \in Nat BY <2>3, FS_CardinalityType
  <2> QED BY <1>1, <2>3, <2>4
<1>3. ASSUME NEW x \in S, NEW y \in S, <<x, y>> \in R PROVE rank(x) < rank(y)
  <2>1. Below(R, S, x) \in SUBSET Below(R, S, y) BY <1>3 DEF Below, StrictlyOrders
  <2>2. Below(R, S, x) # Below(R, S, y) BY <1>3 DEF Below, StrictlyOrders
  <2>3. IsFiniteSet(Below(R, S, y)) /\ rank(x) \in Nat /\ rank(y) \in Nat BY <1>1, <1>2
  <2>4. rank(x) <= rank(y) /\ rank(x) # rank(y) BY <2>1, <2>2, <2>3, FS_Subset
  <2> QED BY <2>3, <2>4
<1>4. \A x, y \in S : <<x, y>> \in R <=> rank(x) < rank(y)
  <2> SUFFICES ASSUME NEW x \in S, NEW y \in S, rank(x) < rank(y) PROVE <<x, y>> \in R BY <1>3
  <2>1. rank(x) \in Nat /\ rank(y) \in Nat BY <1>1, <1>2
  <2>2. x # y /\ ~(rank(y) < rank(x)) BY <2>1
  <2>3. <<y, x>> \notin R BY <1>3, <2>2
  <2> QED BY <2>2, <2>3 DEF StrictlyOrders
<1>5. \A x, y \in S : rank(x) = rank(y) => x = y
  <2> SUFFICES ASSUME NEW x \in S, NEW y \in S, rank(x) = rank(y) PROVE x = y OBVIOUS
  <2>1. rank(x) \in Nat /\ rank(y) \in Nat BY <1>1, <1>2
  <2>2. ~(rank(x) < rank(y)) /\ ~(rank(y) < rank(x)) BY <2>1
  <2> QED BY <1>3, <2>2 DEF StrictlyOrders
<1>6. ASSUME NEW n \in 1..c PROVE \E x \in S : rank(x) = n - 1
  <2> DEFINE T == 0..(c - 1)
             f == [x \in S |-> rank(x)]
  <2>1. IsFiniteSet(T) /\ Cardinality(T) = c
    <3>1. 0 \in Int /\ c - 1 \in Int /\ c >= 1 BY <1>1
    <3>2. /\ IsFiniteSet(0..(c - 1))
          /\ Cardinality(0..(c - 1)) = IF 0 > c - 1 THEN 0 ELSE (c - 1) - 0 + 1
      BY <3>1, FS_Interval
    <3> QED BY <1>1, <3>1, <3>2
  <2>2. f \in [S -> T] BY <1>2
  <2>3. \A x, y \in S : f[x] = f[y] => x = y BY <1>5
  <2>4. f \in Injection(S, T) BY <2>2, <2>3 DEF Injection, IsInjective
  <2>5. f \in Surjection(S, T) BY <2>1, <2>4, FS_Injection
  <2>6. n - 1 \in T BY <1>1
  <2>7. \E x \in S : f[x] = n - 1 BY <2>5, <2>6 DEF Surjection
  <2> QED BY <2>7
<1> QED BY <1>1, <1>2, <1>4, <1>5, <1>6

\* Of these, that each place is taken.
LEMMA RankTaken ==
    ASSUME NEW S, IsFiniteSet(S), NEW R, StrictlyOrders(R, S)
    PROVE  \A n \in 1..Cardinality(S) : \E x \in S : Cardinality(Below(R, S, x)) = n - 1
BY Ranks

\* The places of a finite set are counted through, each once.
LEMMA PlacesRanked ==
    ASSUME NEW S \in SUBSET Nat, IsFiniteSet(S)
    PROVE  /\ Cardinality(S) \in Nat
           /\ \A n \in 1..Cardinality(S) : NthOf(S, n) \in S
           /\ \A i \in S : \E n \in 1..Cardinality(S) : NthOf(S, n) = i
<1> DEFINE R == {p \in S \X S : p[1] < p[2]}
<1>1. \A i, j \in S : <<i, j>> \in R <=> i < j OBVIOUS
<1> HIDE DEF R
<1>2. StrictlyOrders(R, S) BY <1>1 DEF StrictlyOrders
<1>3. \A i \in S : Below(R, S, i) = {j \in S : j < i} BY <1>1 DEF Below
<1> DEFINE rank(i) == Cardinality({j \in S : j < i})
<1>4. \A i \in S : Cardinality(Below(R, S, i)) = rank(i) BY <1>3
<1>5. Cardinality(S) \in Nat BY FS_CardinalityType
<1>6. \A i \in S : rank(i) \in 0..(Cardinality(S) - 1) BY <1>2, <1>4, Ranks
<1>7. ASSUME NEW n \in 1..Cardinality(S) PROVE \E i \in S : rank(i) = n - 1
  <2>1. \A m \in 1..Cardinality(S) : \E i \in S : Cardinality(Below(R, S, i)) = m - 1
    <3> HIDE DEF rank
    <3> QED BY <1>2, RankTaken
  <2>2. PICK i \in S : Cardinality(Below(R, S, i)) = n - 1 BY <2>1
  <2> QED BY <1>4, <2>2
<1>8. \A i, j \in S : rank(i) = rank(j) => i = j
  <2> SUFFICES ASSUME NEW i \in S, NEW j \in S, rank(i) = rank(j) PROVE i = j OBVIOUS
  <2>1. Cardinality(Below(R, S, i)) = Cardinality(Below(R, S, j)) BY <1>4
  <2> QED BY <1>2, <2>1, Ranks
<1>9. \A n \in 1..Cardinality(S) : NthOf(S, n) \in S /\ rank(NthOf(S, n)) = n - 1
  BY <1>7 DEF NthOf
<1> HIDE DEF rank
<1>10. ASSUME NEW i \in S PROVE \E n \in 1..Cardinality(S) : NthOf(S, n) = i
  <2> DEFINE n == rank(i) + 1
             c == Cardinality(S)
  <2>1. rank(i) \in 0..(c - 1) /\ c \in Nat BY <1>5, <1>6
  <2> HIDE DEF c
  <2>2. n \in 1..c /\ n - 1 = rank(i) BY <2>1
  <2>3. NthOf(S, n) \in S /\ rank(NthOf(S, n)) = rank(i) BY <1>9, <2>2 DEF c
  <2>4. NthOf(S, n) = i BY <1>8, <2>3
  <2> QED BY <2>2, <2>4 DEF c
<1> QED BY <1>5, <1>9, <1>10

\* A set of naturals that is not empty has a first.
LEMMA EarliestOf ==
    ASSUME NEW T \in SUBSET Nat, T # {}
    PROVE  Min(T) \in T /\ \A i \in T : Min(T) <= i
<1>1. IsWellFoundedOn(OpToRel(<, Nat), Nat) BY NatLessThanWellFounded
<1>2. PICK m \in T : \A t \in T : ~(<<t, m>> \in OpToRel(<, Nat)) BY <1>1, WFMin
<1>3. \A t \in T : ~(t < m) BY <1>2 DEF OpToRel
<1>4. \A t \in T : m =< t BY <1>3
<1> QED BY <1>4 DEF Min

\* A function on 1..n is a sequence of that length.
LEMMA LengthOf ==
    ASSUME NEW S, NEW n \in Nat, NEW f \in [1..n -> S]
    PROVE  f \in Seq(S) /\ Len(f) = n
<1>1. f \in Seq(S) BY SeqDef
<1> DEFINE l == Len(f)
<1>2. 1..n = 1..l /\ l \in Nat BY <1>1, LenProperties
<1> HIDE DEF l
<1>3. n >= 1 => n \in 1..n OBVIOUS
<1>4. l >= 1 => l \in 1..l BY <1>2
<1>5. n >= 1 => n <= l /\ 1 <= n BY <1>2, <1>3
<1>6. l >= 1 => l <= n BY <1>2, <1>4
<1>7. l = n BY <1>2, <1>5, <1>6
<1> QED BY <1>1, <1>7 DEF l

-----------------------------------------------------------------------------
(* Extraction.                                                              *)

-----------------------------------------------------------------------------
SentenceDrafts == {[statement |-> s, quote |-> s] : s \in Range(Wording)}
AnyDraft == SentenceDrafts \cup UNION {Range(drafts) : drafts \in ModelDrafts}
AnyClaim == UNION {UNION {ClaimsOf(d, k) : d \in AnyDraft} : k \in ChunkNumbers}
Done == [at |-> "done"]
Working == [at : {"chunk", "drafts"}, chunk : 1..(Len(SentenceSpans) + 1),
            drafts : Seq(AnyDraft), added : SUBSET AnyClaim, model : BOOLEAN]

ExtractionTyped ==
    /\ claims \subseteq AnyClaim
    /\ heuristicOnly \in BOOLEAN
    /\ extraction \in [ExtractRuns -> {Queued, Done} \cup Working]
    /\ \A r \in ExtractRuns : extraction[r].at = "drafts" => extraction[r].chunk \in ChunkNumbers

\* What a run without a model has found: claims of the heuristic only, and all of the
\* chunks and drafts behind it.
RunOnCourse(run, held) ==
    /\ run.added \subseteq ExpectedClaims
    /\ \A k \in ChunkNumbers : k < run.chunk =>
            \A d \in Range(HeuristicDrafts(k)) : ClaimsOf(d, k) \subseteq held \cup run.added
    /\ run.at = "drafts" =>
            /\ Range(run.drafts) \subseteq Range(HeuristicDrafts(run.chunk))
            /\ \A d \in Range(HeuristicDrafts(run.chunk)) :
                    d \in Range(run.drafts) \/ ClaimsOf(d, run.chunk) \subseteq held \cup run.added

ExtractionInv ==
    /\ ExtractionTyped
    /\ OneClaimOnce
    /\ \A r \in ExtractRuns :
            extraction[r].at \in {"chunk", "drafts"} /\ ~extraction[r].model =>
                RunOnCourse(extraction[r], claims)
    /\ heuristicOnly => claims \subseteq ExpectedClaims
    /\ RunsAgree

-----------------------------------------------------------------------------
\* A chunk's sentences are sentences of the text.
LEMMA ChunkFacts ==
    /\ DOMAIN Wording = 1..Len(Wording) /\ Len(Wording) \in Nat
    /\ ChunkNumbers = 1..Len(SentenceSpans) /\ Len(SentenceSpans) \in Nat
    /\ \A k \in ChunkNumbers : SentenceSpans[k][1] \in 1..Len(Wording) /\ SentenceSpans[k][2] \in 1..Len(Wording)
<1>1. DOMAIN Wording = 1..Len(Wording) /\ Len(Wording) \in Nat BY ExtractionAssumption
<1>2. ChunkNumbers = 1..Len(SentenceSpans) /\ Len(SentenceSpans) \in Nat
  BY ExtractionAssumption DEF ChunkNumbers
<1>3. ASSUME NEW k \in ChunkNumbers PROVE SentenceSpans[k] \in (1..Len(Wording)) \X (1..Len(Wording))
  BY <1>2, ExtractionAssumption, ElementOfSeq
<1>4. \A k \in ChunkNumbers : SentenceSpans[k][1] \in 1..Len(Wording) /\ SentenceSpans[k][2] \in 1..Len(Wording)
  BY <1>3
<1> QED BY <1>1, <1>2, <1>4

\* The places of claims are places of the text.
LEMMA ClaimPlacesIn ==
    ASSUME NEW k \in ChunkNumbers
    PROVE  /\ ClaimPlaces(k) \subseteq SentenceSpans[k][1]..SentenceSpans[k][2]
           /\ ClaimPlaces(k) \subseteq 1..Len(Wording)
<1>1. ClaimPlaces(k) \subseteq SentenceSpans[k][1]..SentenceSpans[k][2] BY DEF ClaimPlaces
<1>2. SentenceSpans[k][1]..SentenceSpans[k][2] \subseteq 1..Len(Wording)
  <2> DEFINE a == SentenceSpans[k][1]
             b == SentenceSpans[k][2]
             m == Len(Wording)
  <2>1. a \in 1..m /\ b \in 1..m /\ m \in Nat BY ChunkFacts
  <2> HIDE DEF a, b, m
  <2>2. a..b \subseteq 1..m BY <2>1
  <2> QED BY <2>2 DEF a, b, m
<1> QED BY <1>1, <1>2

DraftOf(i) == [statement |-> Wording[i], quote |-> Wording[i]]

\* The drafts at some places are those of each.
LEMMA DraftsOfPlaces ==
    ASSUME NEW S \in SUBSET (1..Len(Wording))
    PROVE  /\ DraftsAt(S) \in Seq(AnyDraft)
           /\ Range(DraftsAt(S)) = {DraftOf(i) : i \in S}
<1> DEFINE c == Cardinality(S)
<1>1. S \in SUBSET Nat /\ IsFiniteSet(S)
  <2>1. IsFiniteSet(1..Len(Wording)) BY ChunkFacts, FS_Interval
  <2>2. IsFiniteSet(S) BY <2>1, FS_Subset
  <2>3. 1..Len(Wording) \subseteq Nat BY ChunkFacts
  <2> QED BY <2>2, <2>3
<1>2. /\ c \in Nat /\ \A n \in 1..c : NthOf(S, n) \in S
      /\ \A i \in S : \E n \in 1..c : NthOf(S, n) = i
  BY <1>1, PlacesRanked
<1>3. DraftsAt(S) = [n \in 1..c |-> DraftOf(NthOf(S, n))] BY DEF DraftsAt, DraftOf
<1> HIDE DEF c
<1>4. \A i \in 1..Len(Wording) : DraftOf(i) \in AnyDraft
  <2>1. \A i \in 1..Len(Wording) : Wording[i] \in Range(Wording) BY ChunkFacts DEF Range
  <2>2. \A w \in Range(Wording) : [statement |-> w, quote |-> w] \in AnyDraft
    BY DEF AnyDraft, SentenceDrafts
  <2> QED BY <2>1, <2>2 DEF DraftOf
<1>5. DraftsAt(S) \in [1..c -> AnyDraft] BY <1>2, <1>3, <1>4
<1>6. DraftsAt(S) \in Seq(AnyDraft) BY <1>2, <1>5, SeqDef
<1>7. Range(DraftsAt(S)) = {DraftOf(NthOf(S, n)) : n \in 1..c} BY <1>3 DEF Range
<1>8. {DraftOf(NthOf(S, n)) : n \in 1..c} = {DraftOf(i) : i \in S} BY <1>2
<1> QED BY <1>6, <1>7, <1>8

FirstPlaces(k) == {i \in ClaimPlaces(k) : Cardinality({j \in ClaimPlaces(k) : j <= i}) <= MaxClaims}

\* The heuristic drafts are of sentences, and are sentence drafts.
LEMMA HeuristicFacts ==
    ASSUME NEW k \in ChunkNumbers
    PROVE  /\ HeuristicDrafts(k) \in Seq(AnyDraft)
           /\ Range(HeuristicDrafts(k)) = {DraftOf(i) : i \in FirstPlaces(k)}
           /\ Range(HeuristicDrafts(k)) \subseteq AnyDraft
<1>1. FirstPlaces(k) \in SUBSET (1..Len(Wording)) BY ClaimPlacesIn DEF FirstPlaces
<1>2. HeuristicDrafts(k) = DraftsAt(FirstPlaces(k)) BY DEF HeuristicDrafts, FirstPlaces
<1>3. HeuristicDrafts(k) \in Seq(AnyDraft) BY <1>1, <1>2, DraftsOfPlaces
<1>4. Range(HeuristicDrafts(k)) \subseteq AnyDraft BY <1>3 DEF Range
<1> QED BY <1>1, <1>2, <1>3, <1>4, DraftsOfPlaces

\* What is expected are claims of some draft and chunk.
LEMMA ExpectedFacts ==
    /\ ExpectedClaims \subseteq AnyClaim
    /\ \A k \in ChunkNumbers : \A d \in AnyDraft : ClaimsOf(d, k) \subseteq AnyClaim
    /\ \A k \in ChunkNumbers : \A d \in Range(HeuristicDrafts(k)) : ClaimsOf(d, k) \subseteq ExpectedClaims
BY HeuristicFacts DEF AnyClaim, ExpectedClaims

\* A sequence that is not empty has what its head is and what its tail has.
LEMMA FirstAndRest ==
    ASSUME NEW S, NEW s \in Seq(S), s # <<>>
    PROVE  /\ Head(s) \in S /\ Head(s) \in Range(s) /\ Tail(s) \in Seq(S)
           /\ Range(Tail(s)) \subseteq Range(s)
           /\ \A d \in Range(s) : d = Head(s) \/ d \in Range(Tail(s))
<1>1. /\ Len(s) \in Nat \ {0} /\ DOMAIN s = 1..Len(s) /\ Head(s) = s[1]
      /\ Tail(s) \in Seq(S) /\ Len(Tail(s)) = Len(s) - 1
      /\ \A i \in 1..Len(Tail(s)) : Tail(s)[i] = s[i + 1]
  BY EmptySeq, LenProperties, HeadTailProperties
<1> DEFINE t == Tail(s)
           m == Len(s)
<1>2. DOMAIN t = 1..(m - 1) /\ m \in Nat \ {0} BY <1>1, LenProperties
<1> HIDE DEF t, m
<1>3. 1 \in 1..m /\ \A i \in 1..(m - 1) : i + 1 \in 1..m BY <1>2
<1>4. \A i \in 1..m : i = 1 \/ (i - 1 \in 1..(m - 1) /\ (i - 1) + 1 = i) BY <1>2
<1>5. DOMAIN s = 1..m /\ \A i \in 1..(m - 1) : t[i] = s[i + 1] BY <1>1 DEF t, m
<1>6. Head(s) \in S /\ Head(s) \in Range(s) BY <1>1, <1>3, <1>5, ElementOfSeq DEF Range, m
<1>7. Range(t) \subseteq Range(s) BY <1>2, <1>3, <1>5 DEF Range
<1>8. ASSUME NEW d \in Range(s) PROVE d = Head(s) \/ d \in Range(t)
  <2>1. PICK i \in 1..m : d = s[i] BY <1>5 DEF Range
  <2>2. CASE i = 1 BY <1>1, <2>1, <2>2
  <2>3. CASE i - 1 \in 1..(m - 1) /\ (i - 1) + 1 = i BY <1>2, <1>5, <2>1, <2>3 DEF Range
  <2> QED BY <1>4, <2>2, <2>3
<1> QED BY <1>1, <1>6, <1>7, <1>8 DEF t

-----------------------------------------------------------------------------
InTransaction(run) == run.at \in {"chunk", "drafts"}

\* The fields of a run.
LEMMA RunFacts ==
    ASSUME NEW run \in {Queued, Done} \cup Working
    PROVE  /\ run.at \in {"queued", "done", "chunk", "drafts"}
           /\ InTransaction(run) => run \in Working
           /\ run.at = "done" => run = Done
<1>1. CASE run = Queued BY <1>1 DEF Queued, InTransaction
<1>2. CASE run = Done BY <1>2 DEF Done, InTransaction
<1>3. CASE run \in Working BY <1>3 DEF Working, InTransaction
<1> QED BY <1>1, <1>2, <1>3

\* More that is held takes nothing from a run.
LEMMA HeldMore ==
    ASSUME NEW run, NEW held, NEW more, held \subseteq more, RunOnCourse(run, held)
    PROVE  RunOnCourse(run, more)
BY DEF RunOnCourse

\* What two runs hold uncommitted has nothing in common.
LEMMA DisjointRuns ==
    OneClaimOnce <=> \A r, o \in ExtractRuns :
        r # o /\ InTransaction(extraction[r]) /\ InTransaction(extraction[o]) =>
            extraction[r].added \cap extraction[o].added = {}
BY DEF OneClaimOnce, Uncommitted, InTransaction

\* One run moves, and commits nothing.
LEMMA RunMoves ==
    ASSUME ExtractionInv, NEW r \in ExtractRuns, NEW run \in {Queued, Done} \cup Working,
           extraction' = [extraction EXCEPT ![r] = run], UNCHANGED <<claims, heuristicOnly>>,
           run.at = "drafts" => run.chunk \in ChunkNumbers,
           InTransaction(run) => run.added \cap Uncommitted(r) = {},
           InTransaction(run) /\ ~run.model => RunOnCourse(run, claims),
           run.at # "done"
    PROVE  ExtractionInv'
<1>1. ExtractionTyped /\ OneClaimOnce BY DEF ExtractionInv
<1>2. extraction' \in [ExtractRuns -> {Queued, Done} \cup Working] BY <1>1 DEF ExtractionTyped
<1>3. extraction'[r] = run /\ \A o \in ExtractRuns \ {r} : extraction'[o] = extraction[o]
  BY <1>1 DEF ExtractionTyped
<1>4. ExtractionTyped' BY <1>1, <1>2, <1>3 DEF ExtractionTyped
<1>5. OneClaimOnce'
  <2>1. \A o \in ExtractRuns \ {r} : InTransaction(run) /\ InTransaction(extraction[o]) =>
            run.added \cap extraction[o].added = {}
    BY DEF Uncommitted, InTransaction
  <2>2. ASSUME NEW p \in ExtractRuns, NEW o \in ExtractRuns, p # o,
               InTransaction(extraction'[p]), InTransaction(extraction'[o])
        PROVE  extraction'[p].added \cap extraction'[o].added = {}
    <3>1. CASE p = r BY <1>3, <2>1, <2>2, <3>1
    <3>2. CASE o = r BY <1>3, <2>1, <2>2, <3>2
    <3>3. CASE p # r /\ o # r BY <1>1, <1>3, <2>2, <3>3, DisjointRuns
    <3> QED BY <3>1, <3>2, <3>3
  <2> QED BY <2>2 DEF OneClaimOnce, Uncommitted, InTransaction
<1>6. \A o \in ExtractRuns : extraction'[o].at \in {"chunk", "drafts"} /\ ~extraction'[o].model =>
            RunOnCourse(extraction'[o], claims')
  BY <1>3 DEF ExtractionInv, InTransaction
<1>7. (heuristicOnly => claims \subseteq ExpectedClaims)' BY DEF ExtractionInv
<1>8. RunsAgree' BY <1>3 DEF ExtractionInv, RunsAgree
<1> QED BY <1>4, <1>5, <1>6, <1>7, <1>8 DEF ExtractionInv

\* The invariant holds before the first run.
LEMMA ExtractionInvInit == ExtractionInit => ExtractionInv
<1> SUFFICES ASSUME ExtractionInit PROVE ExtractionInv OBVIOUS
<1>1. /\ claims = {} /\ extraction = [r \in ExtractRuns |-> Queued] /\ heuristicOnly = TRUE
  BY DEF ExtractionInit
<1>2. \A r \in ExtractRuns : extraction[r].at = "queued" BY <1>1 DEF Queued
<1>3. ExtractionTyped BY <1>1, <1>2 DEF ExtractionTyped
<1>4. OneClaimOnce /\ RunsAgree BY <1>2 DEF OneClaimOnce, RunsAgree
<1> QED BY <1>1, <1>2, <1>3, <1>4 DEF ExtractionInv

\* A run begins with nothing of its own.
LEMMA BeginExtractionKeeps ==
    ASSUME ExtractionInv, NEW r \in ExtractRuns, BeginExtraction(r) PROVE ExtractionInv'
<1> DEFINE run == [at |-> "chunk", chunk |-> 1, drafts |-> << >>, added |-> {}, model |-> FALSE]
<1>1. extraction' = [extraction EXCEPT ![r] = run] /\ UNCHANGED <<claims, heuristicOnly>>
  BY DEF BeginExtraction
<1>2. 1 \in 1..(Len(SentenceSpans) + 1) BY ChunkFacts
<1>3. run \in Working BY <1>2 DEF Working
<1>4. run.at = "chunk" /\ run.chunk = 1 /\ run.added = {} /\ run.model = FALSE OBVIOUS
<1> HIDE DEF run
<1>5. \A k \in ChunkNumbers : ~(k < 1) BY ChunkFacts
<1>6. RunOnCourse(run, claims) BY <1>4, <1>5 DEF RunOnCourse
<1> QED BY <1>1, <1>3, <1>4, <1>6, RunMoves

\* A run at work has its chunk, its drafts and what it stored so far.
LEMMA AtWork ==
    ASSUME ExtractionInv, NEW r \in ExtractRuns, InTransaction(extraction[r])
    PROVE  /\ extraction[r] \in Working
           /\ extraction[r].at = "drafts" => extraction[r].chunk \in ChunkNumbers
           /\ extraction[r].added \cap Uncommitted(r) = {}
           /\ ~extraction[r].model => RunOnCourse(extraction[r], claims)
BY RunFacts DEF ExtractionInv, ExtractionTyped, OneClaimOnce, InTransaction

\* The drafts of a chunk are the model's or the heuristic's.
LEMMA DraftChunkKeeps ==
    ASSUME ExtractionInv, NEW r \in ExtractRuns, DraftChunk(r) PROVE ExtractionInv'
<1> DEFINE old == extraction[r]
<1>1. /\ old.at = "chunk" /\ old.chunk \in ChunkNumbers /\ UNCHANGED <<claims, heuristicOnly>>
  BY DEF DraftChunk
<1>2. /\ old \in Working /\ old.added \cap Uncommitted(r) = {}
      /\ ~old.model => RunOnCourse(old, claims)
  BY <1>1, AtWork DEF InTransaction
<1>3. extraction = [o \in ExtractRuns |-> extraction[o]] BY DEF ExtractionInv, ExtractionTyped
<1>4. CASE extraction' = [extraction EXCEPT ![r].at = "drafts", ![r].drafts = HeuristicDrafts(old.chunk)]
  <2> DEFINE run == [old EXCEPT !.at = "drafts", !.drafts = HeuristicDrafts(old.chunk)]
  <2>1. extraction' = [extraction EXCEPT ![r] = run] BY <1>3, <1>4
  <2>2. HeuristicDrafts(old.chunk) \in Seq(AnyDraft) BY <1>1, HeuristicFacts
  <2>3. run \in Working BY <1>2, <2>2 DEF Working
  <2>4. /\ run.at = "drafts" /\ run.drafts = HeuristicDrafts(old.chunk) /\ run.chunk = old.chunk
        /\ run.added = old.added /\ run.model = old.model
    BY <1>2 DEF Working
  <2> HIDE DEF run
  <2>5. ~run.model => RunOnCourse(run, claims) BY <1>2, <2>4 DEF RunOnCourse
  <2> QED BY <1>1, <1>2, <2>1, <2>3, <2>4, <2>5, RunMoves
<1>5. ASSUME NEW drafts \in ModelDrafts,
             extraction' = [extraction EXCEPT ![r].at = "drafts", ![r].drafts = drafts, ![r].model = TRUE]
      PROVE  ExtractionInv'
  <2> DEFINE run == [old EXCEPT !.at = "drafts", !.drafts = drafts, !.model = TRUE]
  <2>1. extraction' = [extraction EXCEPT ![r] = run] BY <1>3, <1>5
  <2>2. drafts \in Seq(AnyDraft) BY ExtractionAssumption, SeqMonotonic DEF AnyDraft
  <2>3. run \in Working BY <1>2, <2>2 DEF Working
  <2>4. /\ run.at = "drafts" /\ run.chunk = old.chunk /\ run.added = old.added /\ run.model = TRUE
    BY <1>2 DEF Working
  <2> HIDE DEF run
  <2> QED BY <1>1, <1>2, <2>1, <2>3, <2>4, RunMoves
<1> QED BY <1>4, <1>5 DEF DraftChunk

\* A draft that aligns and is not stored is held, one that is stored is passed.
LEMMA PersistDraftKeeps ==
    ASSUME ExtractionInv, NEW r \in ExtractRuns, PersistDraft(r) PROVE ExtractionInv'
<1> DEFINE old == extraction[r]
           new == NextDraft(r)
           run == [old EXCEPT !.drafts = Tail(old.drafts), !.added = old.added \cup (new \ claims)]
<1>1. /\ old.at = "drafts" /\ old.drafts # << >> /\ new \cap Uncommitted(r) = {}
      /\ UNCHANGED <<claims, heuristicOnly>>
  BY DEF PersistDraft
<1>2. /\ old \in Working /\ old.added \cap Uncommitted(r) = {} /\ old.chunk \in ChunkNumbers
      /\ ~old.model => RunOnCourse(old, claims)
  BY <1>1, AtWork DEF InTransaction
<1>3. extraction' = [extraction EXCEPT ![r] = run]
  BY DEF ExtractionInv, ExtractionTyped, PersistDraft
<1>4. old.drafts \in Seq(AnyDraft) /\ old.added \subseteq AnyClaim BY <1>2 DEF Working
<1>5. /\ Head(old.drafts) \in AnyDraft /\ Head(old.drafts) \in Range(old.drafts)
      /\ Tail(old.drafts) \in Seq(AnyDraft) /\ Range(Tail(old.drafts)) \subseteq Range(old.drafts)
      /\ \A d \in Range(old.drafts) : d = Head(old.drafts) \/ d \in Range(Tail(old.drafts))
  BY <1>1, <1>4, FirstAndRest
<1>6. new = ClaimsOf(Head(old.drafts), old.chunk) BY DEF NextDraft
<1>7. new \subseteq AnyClaim BY <1>2, <1>5, <1>6, ExpectedFacts
<1> HIDE DEF new
<1>8. run \in Working BY <1>2, <1>4, <1>5, <1>7 DEF Working
<1>9. /\ run.at = "drafts" /\ run.chunk = old.chunk /\ run.model = old.model
      /\ run.drafts = Tail(old.drafts) /\ run.added = old.added \cup (new \ claims)
  BY <1>1, <1>2 DEF Working
<1> HIDE DEF run
<1>10. run.added \cap Uncommitted(r) = {} BY <1>1, <1>2, <1>9
<1>11. ASSUME ~run.model PROVE RunOnCourse(run, claims)
  <2>1. RunOnCourse(old, claims) BY <1>2, <1>9, <1>11
  <2>2. Head(old.drafts) \in Range(HeuristicDrafts(old.chunk))
    BY <1>1, <1>5, <2>1 DEF RunOnCourse
  <2>3. new \subseteq ExpectedClaims BY <1>2, <1>6, <2>2, ExpectedFacts
  <2>4. run.added \subseteq ExpectedClaims /\ claims \cup old.added \subseteq claims \cup run.added
        /\ new \subseteq claims \cup run.added
    BY <1>9, <2>1, <2>3 DEF RunOnCourse
  <2>5. \A k \in ChunkNumbers : k < run.chunk =>
            \A d \in Range(HeuristicDrafts(k)) : ClaimsOf(d, k) \subseteq claims \cup run.added
    BY <1>9, <2>1, <2>4 DEF RunOnCourse
  <2>6. Range(run.drafts) \subseteq Range(HeuristicDrafts(run.chunk))
    BY <1>1, <1>5, <1>9, <2>1 DEF RunOnCourse
  <2>7. ASSUME NEW d \in Range(HeuristicDrafts(run.chunk)), d \notin Range(run.drafts)
        PROVE  ClaimsOf(d, run.chunk) \subseteq claims \cup run.added
    BY <1>1, <1>5, <1>6, <1>9, <2>1, <2>4, <2>7 DEF RunOnCourse
  <2> QED BY <2>4, <2>5, <2>6, <2>7 DEF RunOnCourse
<1> QED BY <1>1, <1>2, <1>3, <1>8, <1>9, <1>10, <1>11, RunMoves

\* A run leaves a chunk when each of its drafts was passed.
LEMMA ChunkDoneKeeps ==
    ASSUME ExtractionInv, NEW r \in ExtractRuns, ChunkDone(r) PROVE ExtractionInv'
<1> DEFINE old == extraction[r]
           run == [old EXCEPT !.at = "chunk", !.chunk = old.chunk + 1]
<1>1. old.at = "drafts" /\ old.drafts = << >> /\ UNCHANGED <<claims, heuristicOnly>>
  BY DEF ChunkDone
<1>2. /\ old \in Working /\ old.added \cap Uncommitted(r) = {} /\ old.chunk \in ChunkNumbers
      /\ ~old.model => RunOnCourse(old, claims)
  BY <1>1, AtWork DEF InTransaction
<1>3. extraction' = [extraction EXCEPT ![r] = run]
  BY DEF ExtractionInv, ExtractionTyped, ChunkDone
<1>4. /\ old.chunk + 1 \in 1..(Len(SentenceSpans) + 1)
      /\ \A k \in ChunkNumbers : k < old.chunk + 1 => k < old.chunk \/ k = old.chunk
  <2> DEFINE c == old.chunk
             n == Len(SentenceSpans)
  <2>1. c \in 1..n /\ n \in Nat /\ ChunkNumbers = 1..n BY <1>2, ChunkFacts
  <2> HIDE DEF c, n
  <2>2. c + 1 \in 1..(n + 1) /\ \A k \in ChunkNumbers : k < c + 1 => k < c \/ k = c BY <2>1
  <2> QED BY <2>2 DEF c, n
<1>5. run \in Working BY <1>2, <1>4 DEF Working
<1>6. run.at = "chunk" /\ run.chunk = old.chunk + 1 /\ run.added = old.added /\ run.model = old.model
  BY <1>2 DEF Working
<1> HIDE DEF run
<1>7. ASSUME ~run.model PROVE RunOnCourse(run, claims)
  <2>1. RunOnCourse(old, claims) /\ Range(old.drafts) = {} BY <1>1, <1>2, <1>6, <1>7 DEF Range
  <2>2. ASSUME NEW k \in ChunkNumbers, k < run.chunk, NEW d \in Range(HeuristicDrafts(k))
        PROVE  ClaimsOf(d, k) \subseteq claims \cup run.added
    BY <1>1, <1>4, <1>6, <2>1, <2>2 DEF RunOnCourse
  <2> QED BY <1>6, <2>1, <2>2 DEF RunOnCourse
<1> QED BY <1>1, <1>2, <1>3, <1>5, <1>6, <1>7, RunMoves

\* A run that fails takes what it held with it.
LEMMA ExtractionFailsKeeps ==
    ASSUME ExtractionInv, NEW r \in ExtractRuns, ExtractionFails(r) PROVE ExtractionInv'
<1>1. extraction' = [extraction EXCEPT ![r] = Queued] /\ UNCHANGED <<claims, heuristicOnly>>
  BY DEF ExtractionFails
<1>2. Queued.at = "queued" BY DEF Queued
<1> QED BY <1>1, <1>2, RunMoves DEF InTransaction

\* A commit adds what the run held, which nobody stored.
LEMMA CommitExtractionKeeps ==
    ASSUME ExtractionInv, NEW r \in ExtractRuns, CommitExtraction(r) PROVE ExtractionInv'
<1> DEFINE old == extraction[r]
<1>1. /\ old.at = "chunk" /\ old.chunk \notin ChunkNumbers
      /\ claims' = claims \cup old.added /\ heuristicOnly' = (heuristicOnly /\ ~old.model)
      /\ extraction' = [extraction EXCEPT ![r] = Done]
  BY DEF CommitExtraction, Done
<1>2. old \in Working /\ (~old.model => RunOnCourse(old, claims))
  BY <1>1, AtWork DEF InTransaction
<1>3. ExtractionTyped /\ OneClaimOnce BY DEF ExtractionInv
<1>4. /\ extraction'[r] = Done /\ Done.at = "done"
      /\ \A o \in ExtractRuns \ {r} : extraction'[o] = extraction[o]
  BY <1>1, <1>3 DEF ExtractionTyped, Done
<1>5. ExtractionTyped' BY <1>1, <1>2, <1>3, <1>4 DEF ExtractionTyped, Working
<1>6. OneClaimOnce'
  <2>1. ~InTransaction(extraction'[r]) BY <1>4 DEF InTransaction
  <2>2. ASSUME NEW p \in ExtractRuns, NEW o \in ExtractRuns, p # o,
               InTransaction(extraction'[p]), InTransaction(extraction'[o])
        PROVE  extraction'[p].added \cap extraction'[o].added = {}
    BY <1>3, <1>4, <2>1, <2>2, DisjointRuns
  <2> QED BY <2>2 DEF OneClaimOnce, Uncommitted, InTransaction
<1>7. ASSUME NEW o \in ExtractRuns, extraction'[o].at \in {"chunk", "drafts"}, ~extraction'[o].model
      PROVE  RunOnCourse(extraction'[o], claims')
  BY <1>1, <1>4, <1>7, HeldMore DEF ExtractionInv
<1>8. heuristicOnly' => claims' \subseteq ExpectedClaims
  BY <1>1, <1>2 DEF ExtractionInv, RunOnCourse
<1>9. ASSUME heuristicOnly' PROVE ExpectedClaims \subseteq claims'
  <2>1. RunOnCourse(old, claims) BY <1>1, <1>2, <1>9
  <2>2. \A k \in ChunkNumbers : k < old.chunk
    <3> DEFINE c == old.chunk
               n == Len(SentenceSpans)
    <3>1. c \in 1..(n + 1) /\ n \in Nat /\ ChunkNumbers = 1..n /\ c \notin 1..n
      BY <1>1, <1>2, ChunkFacts DEF Working
    <3> HIDE DEF c, n
    <3>2. \A k \in 1..n : k < c BY <3>1
    <3> QED BY <3>1, <3>2 DEF c
  <2>3. \A k \in ChunkNumbers : \A d \in Range(HeuristicDrafts(k)) : ClaimsOf(d, k) \subseteq claims'
    BY <1>1, <2>1, <2>2 DEF RunOnCourse
  <2> QED BY <2>3 DEF ExpectedClaims
<1>10. RunsAgree' BY <1>8, <1>9 DEF RunsAgree
<1> QED BY <1>5, <1>6, <1>7, <1>8, <1>10 DEF ExtractionInv

\* The invariant is inductive.
LEMMA ExtractionInvStep == ExtractionInv /\ [ExtractionNext]_extractionVars => ExtractionInv'
<1> SUFFICES ASSUME ExtractionInv, [ExtractionNext]_extractionVars PROVE ExtractionInv' OBVIOUS
<1>1. ASSUME NEW r \in ExtractRuns,
             \/ BeginExtraction(r) \/ DraftChunk(r) \/ PersistDraft(r)
             \/ ChunkDone(r) \/ CommitExtraction(r) \/ ExtractionFails(r)
      PROVE  ExtractionInv'
  BY <1>1, BeginExtractionKeeps, DraftChunkKeeps, PersistDraftKeeps, ChunkDoneKeeps,
     CommitExtractionKeeps, ExtractionFailsKeeps
<1>2. CASE UNCHANGED extractionVars
  BY <1>2 DEF extractionVars, ExtractionInv, ExtractionTyped, OneClaimOnce, Uncommitted, RunsAgree
<1> QED BY <1>1, <1>2 DEF ExtractionNext

\* A sentence worth a claim is drafted in its chunk, and aligned there at its first place.
LEMMA AlignedInTheChunk ==
    ASSUME NEW k \in ChunkNumbers, NEW i \in FirstPlaces(k)
    PROVE  \E j \in SentenceSpans[k][1]..i : [statement |-> Wording[i], place |-> j] \in ExpectedClaims
<1> DEFINE a == SentenceSpans[k][1]
           b == SentenceSpans[k][2]
           exact == {j \in a..b : Wording[j] = Wording[i]}
           j == Min(exact)
<1>1. i \in a..b /\ a \in Nat BY ClaimPlacesIn, ChunkFacts DEF FirstPlaces
<1>2. exact \in SUBSET Nat /\ i \in exact BY <1>1
<1>3. j \in exact /\ j <= i
  <2> HIDE DEF exact
  <2> QED BY <1>2, EarliestOf
<1>4. AlignIn(Wording[i], a, b) = {j} BY <1>2 DEF AlignIn
<1>5. Align(Wording[i], k) = {j}
  <2> HIDE DEF j
  <2> QED BY <1>4 DEF Align
<1>6. [statement |-> Wording[i], place |-> j] \in ClaimsOf(DraftOf(i), k)
  <2> HIDE DEF j
  <2> QED BY <1>5 DEF ClaimsOf, DraftOf
<1>7. DraftOf(i) \in Range(HeuristicDrafts(k)) BY HeuristicFacts
<1>8. j \in a..i
  <2> HIDE DEF j
  <2> QED BY <1>1, <1>3
<1> HIDE DEF j
<1> QED BY <1>6, <1>7, <1>8, ExpectedFacts

\* Where a run of the heuristic has ended, what was expected is stored.
LEMMA NothingLost == RunsAgree => NoSentenceIsLost
<1> SUFFICES ASSUME RunsAgree, heuristicOnly, \E r \in ExtractRuns : extraction[r].at = "done",
                    NEW k \in ChunkNumbers, NEW i \in SentenceSpans[k][1]..SentenceSpans[k][2],
                    IsClaimSentence(Wording[i]),
                    Cardinality({j \in SentenceSpans[k][1]..i : IsClaimSentence(Wording[j])}) <= MaxClaims
             PROVE  \E j \in SentenceSpans[k][1]..i : [statement |-> Wording[i], place |-> j] \in claims
  BY DEF NoSentenceIsLost
<1>1. claims = ExpectedClaims BY DEF RunsAgree
<1>2. {j \in SentenceSpans[k][1]..i : IsClaimSentence(Wording[j])} = {j \in ClaimPlaces(k) : j <= i}
  <2> DEFINE a == SentenceSpans[k][1]
             b == SentenceSpans[k][2]
  <2>1. a \in Nat /\ b \in Nat /\ i \in a..b BY ChunkFacts
  <2> HIDE DEF a, b
  <2>2. \A j : j \in a..i <=> j \in a..b /\ j <= i BY <2>1
  <2> QED BY <2>2 DEF a, b, ClaimPlaces
<1>3. i \in FirstPlaces(k) BY <1>2 DEF FirstPlaces, ClaimPlaces
<1> QED BY <1>1, <1>3, AlignedInTheChunk

\* For any number of runs over one version, and any chunks, sentences and drafts: no two
\* runs hold one new claim, and once a run is done, where no model was used, the claims
\* are the heuristic's and each sentence worth a claim has one.
THEOREM ExtractionStands == ExtractionSpec => []ExtractionTells
<1>1. ExtractionInit => ExtractionInv BY ExtractionInvInit
<1>2. ExtractionInv /\ [ExtractionNext]_extractionVars => ExtractionInv' BY ExtractionInvStep
<1>3. ExtractionInv => ExtractionTells BY NothingLost DEF ExtractionInv, ExtractionTells
<1> QED BY <1>1, <1>2, <1>3, PTL DEF ExtractionSpec

-----------------------------------------------------------------------------
(* Wiki pages.                                                              *)

\* The types of the plan and the compiles in progress.
PlannerState == [at : {"idle", "decided"}, assigned : [Clusters -> Topics \cup {NoTopic}],
                 marks : SUBSET Topics, read : SUBSET Topics, made : SUBSET Topics, covered : SUBSET Topics]
CompilerState == [at : {"idle", "loaded", "read"}, page : Topics \cup {NoTopic},
                  seen : Page, inputs : SUBSET Input, crossed : BOOLEAN]

\* Who compiles; what a page would be compiled from now; whether a change of its clusters
\* is one no plan has read; and whether a plan still has to look at it, or never does.
Going(a) == ~CompilesAt(a, "idle")
Current(t) == PageInputs(t, topicOf)
Unread(t) == ClustersOf(t, topicOf) \cap unplanned # {}
Excused(t) == PlanPending \/ Unread(t) \/ t \notin ensured
CompilesOn(w, t) == w \in Compilers /\ Going(w) /\ Target(w) = t

\* A compile is of a page, and what it loaded is stored still, unless another crossed it.
AgentsKnow ==
    \A a \in Agents :
        /\ CompilesAt(a, "idle") => Target(a) = NoTopic
        /\ Going(a) => Target(a) \in Topics
        /\ Going(a) /\ ~Crossed(a) => Seen(a) = page[Target(a)]

\* A dirty page has its job, or had it used up, or a job that loaded it dirty is at work.
DirtyIsSeen ==
    \A t \in Topics : page[t].status = "dirty" =>
        t \in wikiQueue.compile \cup gaveUp \/ \E w \in Compilers : CompilesOn(w, t) /\ Seen(w).status = "dirty"

\* A page's hash is of what it was compiled from.
HashTellsInputs == \A t \in Topics : page[t].hash.of = page[t].compiled \/ t \in raced

\* Why a compile may write what is no longer so: its write will be known to have crossed
\* another, a plan is to come, or the page is dirty once more for another job to compile.
StaleRead(a) ==
    LET t == Target(a) IN
    \/ Crossed(a)
    \/ Excused(t)
    \/ /\ page[t].status = "dirty"
       /\ \/ t \in wikiQueue.compile \cup gaveUp
          \/ \E w \in Compilers \ {a} : CompilesOn(w, t) /\ Seen(w).status = "dirty"

\* What a compile has read is still so, or one of these.
ReadsStand ==
    \A a \in Agents : CompilesAt(a, "read") /\ Reads(a) # Current(Target(a)) => StaleRead(a)

\* A clean page is current or has an excuse; that a job compiles it now is one only while
\* that job has not read the page as clean behind a commit.
CleanStands ==
    \A t \in Topics : page[t].status = "clean" /\ page[t].compiled # Current(t) =>
        \/ Excused(t)
        \/ t \in raced \cup wikiQueue.compile \cup gaveUp
        \/ \E w \in Compilers : CompilesOn(w, t) /\ (~Crossed(w) \/ Seen(w).status # "clean")

\* The pages whose hash the plan under way has compared.
Compared == {t \in planner.covered \ planner.made :
                ClustersOf(t, topicOf) = ClustersOf(t, planner.assigned)}

\* What the plan under way decided: of the pages it compared those it does not mark are
\* current, dirty already, or changed since by what queues no plan; and so is what compiles
\* have read of them.
PlanStands ==
    planner.at = "decided" => \A t \in Compared :
        /\ \/ t \in planner.marks \cup planner.read \cup raced
           \/ Unread(t)
           \/ page[t].status = "clean" => page[t].compiled = Current(t)
        /\ \A a \in Agents : CompilesAt(a, "read") /\ Target(a) = t =>
              \/ Crossed(a) \/ Unread(t) \/ t \in planner.marks
              \/ Reads(a) = Current(t)
              \/ t \in planner.read /\ page[t].status = "dirty"

\* The inductive invariant.
WikiInv == /\ WikiTypeOK /\ AgentsKnow /\ DirtyIsSeen /\ RevisionsTellTheBody /\ CitesItsClaims
           /\ HashTellsInputs /\ ReadsStand /\ CleanStands /\ PlanStands

-----------------------------------------------------------------------------
\* What a page is compiled from are claims with their standing.
LEMMA InputsAreInputs ==
    ASSUME WikiTypeOK, NEW t, NEW assigned PROVE PageInputs(t, assigned) \in SUBSET Input
BY DEF PageInputs, Input, WikiTypeOK, WikiClaim

\* No page, no compile and no plan are of the types of pages, compiles and plans.
LEMMA EmptyPages ==
    /\ NoPage \in Page /\ NotCompiling \in CompilerState
    /\ WikiTypeOK => NotPlanning \in PlannerState
BY DEF NoPage, NoHash, Page, PageStatus, NotCompiling, CompilerState, NotPlanning, PlannerState, WikiTypeOK

\* A page has its five fields.
LEMMA FieldsOfAPage ==
    ASSUME NEW p \in Page
    PROVE  /\ p = [status |-> p.status, hash |-> p.hash, compiled |-> p.compiled,
                   body |-> p.body, revision |-> p.revision]
           /\ p.status \in PageStatus /\ p.compiled \in SUBSET Input /\ p.body \in SUBSET SUBSET Claims
           /\ p.hash \in [by : Models \cup {"nobody"}, of : SUBSET Input]
           /\ p.revision \in Nat
           /\ DOMAIN p = {"status", "hash", "compiled", "body", "revision"}
BY DEF Page

\* A flush writes the fields that changed since the row was loaded.
LEMMA WrittenFields ==
    ASSUME WikiTypeOK, NEW a, NEW new \in Page, Target(a) \in Topics, Seen(a) \in Page
    PROVE  LET p == page[Target(a)] IN
           Written(a, new) = [status |-> new.status,
                 hash |-> IF new.hash = Seen(a).hash THEN p.hash ELSE new.hash,
                 compiled |-> IF new.compiled = Seen(a).compiled THEN p.compiled ELSE new.compiled,
                 body |-> IF new.body = Seen(a).body THEN p.body ELSE new.body,
                 revision |-> IF new.revision = Seen(a).revision THEN p.revision ELSE new.revision]
BY FieldsOfAPage DEF Written

\* What a flush leaves is a page.
LEMMA WrittenIsAPage ==
    ASSUME WikiTypeOK, NEW a, NEW new \in Page, Target(a) \in Topics, Seen(a) \in Page
    PROVE  Written(a, new) \in Page
<1> DEFINE p == page[Target(a)]
<1>1. p \in Page BY DEF WikiTypeOK
<1>2. p.hash \in [by : Models \cup {"nobody"}, of : SUBSET Input] /\ p.compiled \in SUBSET Input
      /\ p.body \in SUBSET SUBSET Claims /\ p.revision \in Nat
  BY <1>1, FieldsOfAPage
<1>3. new.hash \in [by : Models \cup {"nobody"}, of : SUBSET Input] /\ new.compiled \in SUBSET Input
      /\ new.body \in SUBSET SUBSET Claims /\ new.revision \in Nat /\ new.status \in PageStatus
  BY FieldsOfAPage
<1> QED BY <1>2, <1>3, WrittenFields DEF Page

\* A flush that crossed no other leaves what it composed.
LEMMA WrittenUncrossed ==
    ASSUME WikiTypeOK, NEW a, NEW new \in Page, Target(a) \in Topics, Seen(a) = page[Target(a)]
    PROVE  Written(a, new) = new
BY WrittenFields, FieldsOfAPage DEF WikiTypeOK

\* A composed text cites only claims it was composed from.
LEMMA BodiesCiteTheirInputs ==
    ASSUME NEW inputs \in SUBSET Input, NEW text \in Composed(inputs)
    PROVE  text \subseteq Ids(inputs) /\ text \in SUBSET Claims
BY DEF Composed, ValidBody, Ids, Input

\* A compile has its five fields.
LEMMA CompilerFields ==
    ASSUME NEW c \in CompilerState
    PROVE  /\ c = [at |-> c.at, page |-> c.page, seen |-> c.seen, inputs |-> c.inputs, crossed |-> c.crossed]
           /\ c.at \in {"idle", "loaded", "read"} /\ c.page \in Topics \cup {NoTopic}
           /\ c.seen \in Page /\ c.inputs \in SUBSET Input /\ c.crossed \in BOOLEAN
BY DEF CompilerState

\* Compiles are functions of the agents.
LEMMA CompilersAre == WikiTypeOK => compiler \in [Agents -> CompilerState]
BY DEF WikiTypeOK, CompilerState

\* A compile that was crossed is a compile.
LEMMA CrossedState ==
    ASSUME NEW c \in CompilerState
    PROVE  LET d == [c EXCEPT !.crossed = TRUE] IN
           /\ d \in CompilerState /\ d.at = c.at /\ d.page = c.page /\ d.seen = c.seen
           /\ d.inputs = c.inputs /\ d.crossed
BY DEF CompilerState

\* A commit that crosses others changes nothing else of them.
LEMMA CrossingKeeps ==
    ASSUME WikiTypeOK, NEW pages
    PROVE  LET cs == Crossing(pages) IN
           /\ cs \in [Agents -> CompilerState]
           /\ \A b \in Agents :
                /\ cs[b].at = compiler[b].at /\ cs[b].page = compiler[b].page
                /\ cs[b].seen = compiler[b].seen /\ cs[b].inputs = compiler[b].inputs
                /\ cs[b].crossed <=> compiler[b].crossed \/ compiler[b].page \in pages
<1>1. \A b \in Agents : compiler[b] \in CompilerState BY CompilersAre
<1>2. \A b \in Agents : Crossing(pages)[b] = IF compiler[b].page \in pages
                   THEN [compiler[b] EXCEPT !.crossed = TRUE] ELSE compiler[b]
  BY DEF Crossing
<1>3. \A b \in Agents : Crossing(pages)[b] \in CompilerState BY <1>1, <1>2, CrossedState
<1>4. Crossing(pages) = [b \in Agents |-> Crossing(pages)[b]] BY DEF Crossing
<1>5. \A b \in Agents : compiler[b].crossed \in BOOLEAN BY <1>1, CompilerFields
<1>6. ASSUME NEW b \in Agents
      PROVE  /\ Crossing(pages)[b].at = compiler[b].at /\ Crossing(pages)[b].page = compiler[b].page
             /\ Crossing(pages)[b].seen = compiler[b].seen /\ Crossing(pages)[b].inputs = compiler[b].inputs
             /\ Crossing(pages)[b].crossed <=> compiler[b].crossed \/ compiler[b].page \in pages
  <2>1. CASE compiler[b].page \in pages BY <2>1, <1>1, <1>2, CrossedState
  <2>2. CASE compiler[b].page \notin pages BY <2>2, <1>1, <1>2
  <2> QED BY <2>1, <2>2
<1> QED BY <1>3, <1>4, <1>6

\* Who wrote is at rest, and the others stand, crossed or not.
LEMMA WroteKeeps ==
    ASSUME WikiTypeOK, NEW a \in Agents, Wrote(a)
    PROVE  /\ compiler' \in [Agents -> CompilerState]
           /\ compiler'[a] = NotCompiling
           /\ \A b \in Agents \ {a} :
                 /\ compiler'[b].at = compiler[b].at /\ compiler'[b].page = compiler[b].page
                 /\ compiler'[b].seen = compiler[b].seen /\ compiler'[b].inputs = compiler[b].inputs
                 /\ compiler'[b].crossed <=> compiler[b].crossed \/ compiler[b].page = Target(a)
<1> DEFINE T == {Target(a)}
           cs == Crossing(T)
<1>1. compiler' = [cs EXCEPT ![a] = NotCompiling] BY DEF Wrote
<1> HIDE DEF T
<1>2. cs \in [Agents -> CompilerState] BY CrossingKeeps
<1>6. \A b \in Agents :
         /\ cs[b].at = compiler[b].at /\ cs[b].page = compiler[b].page
         /\ cs[b].seen = compiler[b].seen /\ cs[b].inputs = compiler[b].inputs
         /\ cs[b].crossed <=> compiler[b].crossed \/ compiler[b].page \in T
  BY CrossingKeeps
<1>8. \A b \in Agents : compiler[b].page \in T <=> compiler[b].page = Target(a) BY DEF T
<1> HIDE DEF cs
<1>3. NotCompiling \in CompilerState BY EmptyPages
<1>4. compiler' \in [Agents -> CompilerState] /\ compiler'[a] = NotCompiling BY <1>1, <1>2, <1>3
<1>5. \A b \in Agents \ {a} : compiler'[b] = cs[b] BY <1>1, <1>2
<1>7. ASSUME NEW b \in Agents \ {a}
      PROVE  /\ compiler'[b].at = compiler[b].at /\ compiler'[b].page = compiler[b].page
             /\ compiler'[b].seen = compiler[b].seen /\ compiler'[b].inputs = compiler[b].inputs
             /\ compiler'[b].crossed <=> compiler[b].crossed \/ compiler[b].page = Target(a)
  BY <1>5, <1>6, <1>8
<1> QED BY <1>4, <1>7

\* Who ends without writing is at rest, and the others stand.
LEMMA RestKeeps ==
    ASSUME WikiTypeOK, NEW a \in Agents, CompileRest(a)
    PROVE  /\ compiler' \in [Agents -> CompilerState]
           /\ compiler'[a] = NotCompiling
           /\ \A b \in Agents \ {a} : compiler'[b] = compiler[b]
BY EmptyPages, CompilersAre DEF CompileRest

\* What a committing compile writes is a page.
LEMMA EmptyIsAPage ==
    ASSUME WikiTypeOK, NEW a \in Agents
    PROVE  LET new == [Seen(a) EXCEPT !.status = "clean", !.hash = Digest(a), !.compiled = {},
                                      !.revision = Seen(a).revision + 1] IN
           /\ new \in Page /\ new.status = "clean" /\ new.hash = Digest(a) /\ new.compiled = {}
           /\ new.body = Seen(a).body /\ new.revision = Seen(a).revision + 1
<1> DEFINE d == Digest(a)
           n == Seen(a).revision + 1
           new == [Seen(a) EXCEPT !.status = "clean", !.hash = d, !.compiled = {}, !.revision = n]
<1>1. Seen(a) \in Page /\ Reads(a) \in SUBSET Input BY CompilersAre, CompilerFields DEF Seen, Reads
<1>2. d \in [by : Models \cup {"nobody"}, of : SUBSET Input] BY <1>1 DEF Digest, WikiTypeOK
<1>3. n \in Nat BY <1>1, FieldsOfAPage
<1>4. "clean" \in PageStatus BY DEF PageStatus
<1> HIDE DEF d, n
<1>5. /\ new \in Page /\ new.status = "clean" /\ new.hash = d /\ new.compiled = {}
      /\ new.body = Seen(a).body /\ new.revision = n
  BY <1>1, <1>2, <1>3, <1>4 DEF Page
<1> QED BY <1>5 DEF d, n

\* A page whose compile failed is a page.
LEMMA FailedIsAPage ==
    ASSUME WikiTypeOK, NEW a \in Agents
    PROVE  LET new == [Seen(a) EXCEPT !.status = "failed"] IN
           /\ new \in Page /\ new.status = "failed" /\ new.hash = Seen(a).hash
           /\ new.compiled = Seen(a).compiled /\ new.body = Seen(a).body /\ new.revision = Seen(a).revision
<1>1. Seen(a) \in Page BY CompilersAre, CompilerFields DEF Seen
<1>2. "failed" \in PageStatus BY DEF PageStatus
<1> QED BY <1>1, <1>2 DEF Page

\* A page whose compile succeeded is a page.
LEMMA CommitIsAPage ==
    ASSUME WikiTypeOK, NEW a \in Agents, NEW text \in Composed(Reads(a)), NEW changed \in BOOLEAN
    PROVE  [status |-> "clean", hash |-> Digest(a), compiled |-> Reads(a), body |-> {text},
            revision |-> Seen(a).revision + (IF changed THEN 1 ELSE 0)] \in Page
<1>1. Seen(a) \in Page /\ Reads(a) \in SUBSET Input BY CompilersAre, CompilerFields DEF Seen, Reads
<1>2. Digest(a) \in [by : Models \cup {"nobody"}, of : SUBSET Input]
  BY <1>1 DEF Digest, WikiTypeOK
<1>3. {text} \in SUBSET SUBSET Claims BY <1>1, BodiesCiteTheirInputs
<1>4. Seen(a).revision + (IF changed THEN 1 ELSE 0) \in Nat BY <1>1, FieldsOfAPage
<1> HIDE DEF Digest
<1> QED BY <1>1, <1>2, <1>3, <1>4 DEF Page, PageStatus

TypesOf == /\ planner \in PlannerState
           /\ compiler \in [Agents -> CompilerState]

Rest == /\ claim \in [Claims -> WikiClaim]
        /\ alike \subseteq SUBSET Clusters
        /\ topicOf \in [Clusters -> Topics \cup {NoTopic}]
        /\ page \in [Topics -> Page]
        /\ revisions \in [Topics -> SUBSET (Nat \X SUBSET Claims)]
        /\ wikiQueue \in [plan : BOOLEAN, compile : SUBSET Topics]
        /\ model \in Models
        /\ wikiLeft \in Nat
        /\ gaveUp \subseteq Topics
        /\ unplanned \subseteq Clusters
        /\ ensured \subseteq Topics
        /\ raced \subseteq Topics
        /\ setBack \subseteq Topics

\* The type invariant by its parts.
LEMMA TypeSplits == (WikiTypeOK => TypesOf /\ Rest) /\ (TypesOf' /\ Rest' => WikiTypeOK')
BY DEF WikiTypeOK, TypesOf, Rest, PlannerState, CompilerState

\* Clusters, claims and topics keep their types.
LEMMA AtomsTyped ==
    ASSUME WikiTypeOK, NEW a \in Agents
    PROVE  Seen(a) \in Page /\ Reads(a) \in SUBSET Input /\ Target(a) \in Topics \cup {NoTopic}
           /\ Crossed(a) \in BOOLEAN /\ compiler[a].at \in {"idle", "loaded", "read"}
BY CompilersAre, CompilerFields DEF Seen, Reads, Target, Crossed

\* A claim's move leaves the others.
LEMMA ClaimMoves ==
    ASSUME NEW cs \in [Claims -> WikiClaim], NEW c \in Claims
    PROVE  /\ \A b \in BOOLEAN : [cs EXCEPT ![c].disputed = b] \in [Claims -> WikiClaim]
           /\ \A as \in {"superseded", "retracted"} : [cs EXCEPT ![c].status = as] \in [Claims -> WikiClaim]
BY DEF WikiClaim

\* Claims that move keep the types.
LEMMA ClaimsKeepType ==
    ASSUME WikiTypeOK
    PROVE  /\ \A c \in Claims : ExtractClaim(c) => WikiTypeOK'
           /\ \A c, d \in Claims : ChangeRelation(c, d) => WikiTypeOK'
           /\ \A c \in Claims, as \in {"superseded", "retracted"} : RetireClaim(c, as) => WikiTypeOK'
           /\ (ChangeModel => WikiTypeOK')
           /\ (AskPlan => WikiTypeOK')
<1> USE DEF wikiHistory, WikiSpend, TypesOf
<1>0. TypesOf /\ Rest BY TypeSplits
<1>1. ASSUME NEW c \in Claims, ExtractClaim(c) PROVE WikiTypeOK'
  <2>1. PICK k \in Clusters : \E near \in SUBSET (Clusters \ {k}) :
           /\ claim' = [claim EXCEPT ![c] = [status |-> "active", cluster |-> k, disputed |-> FALSE]]
           /\ alike' = alike \cup {{k, o} : o \in near}
    BY <1>1 DEF ExtractClaim
  <2>2. [status |-> "active", cluster |-> k, disputed |-> FALSE] \in WikiClaim BY DEF WikiClaim
  <2>3. claim' \in [Claims -> WikiClaim] /\ alike' \subseteq SUBSET Clusters BY <1>0, <2>1, <2>2 DEF Rest
  <2> QED BY <1>0, TypeSplits, <1>1, <2>3 DEF ExtractClaim, Rest
<1>2. ASSUME NEW c \in Claims, NEW d \in Claims, ChangeRelation(c, d) PROVE WikiTypeOK'
  <2>1. claim' = [claim EXCEPT ![c].disputed = ~claim[c].disputed, ![d].disputed = ~claim[c].disputed]
    BY <1>2 DEF ChangeRelation
  <2> DEFINE one == [claim EXCEPT ![c].disputed = ~claim[c].disputed]
  <2>4. one \in [Claims -> WikiClaim] BY <1>0, ClaimMoves DEF Rest
  <2>5. claim' = [one EXCEPT ![d].disputed = ~claim[c].disputed] BY <2>1
  <2>2. claim' \in [Claims -> WikiClaim]
    <3> HIDE DEF one
    <3> QED BY <2>4, <2>5, ClaimMoves
  <2>3. claim[c].cluster \in Clusters BY <1>0 DEF Rest, WikiClaim
  <2> QED BY <1>0, TypeSplits, <1>2, <2>2, <2>3 DEF ChangeRelation, Rest
<1>3. ASSUME NEW c \in Claims, NEW as \in {"superseded", "retracted"}, RetireClaim(c, as) PROVE WikiTypeOK'
  <2>1. claim' = [claim EXCEPT ![c].status = as] BY <1>3 DEF RetireClaim
  <2>2. claim' \in [Claims -> WikiClaim] BY <1>0, <2>1, ClaimMoves DEF Rest
  <2>3. claim[c].cluster \in Clusters BY <1>0 DEF Rest, WikiClaim
  <2> QED BY <1>0, TypeSplits, <1>3, <2>2, <2>3 DEF RetireClaim, Rest
<1>4. ChangeModel => WikiTypeOK' BY <1>0, TypeSplits DEF ChangeModel, Rest
<1>5. ASSUME AskPlan PROVE WikiTypeOK'
  <2>1. wikiQueue' = [wikiQueue EXCEPT !.plan = TRUE] BY <1>5 DEF AskPlan
  <2>2. wikiQueue' \in [plan : BOOLEAN, compile : SUBSET Topics] BY <1>0, <2>1 DEF Rest
  <2>3. wikiLeft' \in Nat BY <1>0, <1>5 DEF AskPlan, Rest
  <2> QED BY <1>0, TypeSplits, <1>5, <2>2, <2>3 DEF AskPlan, Rest
<1> QED BY <1>1, <1>2, <1>3, <1>4, <1>5

\* A plan assigns topics to clusters.
LEMMA AssignsTopics ==
    ASSUME WikiTypeOK, NEW f \in Picks, NEW Gs \in SUBSET DOMAIN f
    PROVE  Assign(f, Gs) \in [Clusters -> Topics \cup {NoTopic}]
<1>1. f \in [{G \in Groups : Substantial(G)} -> Topics] BY DEF Picks
<1>2. ASSUME NEW k \in Clusters, \E G \in Gs : k \in G PROVE (CHOOSE G \in Gs : k \in G) \in Gs
  BY <1>2
<1> QED BY <1>1, <1>2 DEF Assign, WikiTypeOK

\* Plans keep the types.
LEMMA PlansKeepType ==
    ASSUME WikiTypeOK
    PROVE  /\ (PlanRead => WikiTypeOK')
           /\ (PlanCommit => WikiTypeOK')
           /\ (PlanFault => WikiTypeOK')
<1>0. TypesOf /\ Rest BY TypeSplits
<1>1. ASSUME PlanRead PROVE WikiTypeOK'
  <2>1. PICK f \in Picks :
       LET covered == {f[G] : G \in DOMAIN f}
           moved == {t \in covered : Exists(t) /\ Moved(f, t)} IN
       /\ planner' = [at |-> "decided", assigned |-> Assign(f, DOMAIN f),
                      marks |-> moved \ Dirty(page), read |-> moved \cap Dirty(page),
                      made |-> Makes(f), covered |-> covered]
       /\ compiler' = [a \in Agents |->
            IF compiler[a].at = "read" /\ compiler[a].page \in covered \ moved
            THEN [compiler[a] EXCEPT !.crossed = TRUE] ELSE compiler[a]]
    BY <1>1 DEF PlanRead
  <2>2. f \in [{G \in Groups : Substantial(G)} -> Topics] BY DEF Picks
  <2>3. {f[G] : G \in DOMAIN f} \subseteq Topics BY <2>2
  <2>4. Makes(f) \subseteq Topics BY DEF Makes
  <2>5. Assign(f, DOMAIN f) \in [Clusters -> Topics \cup {NoTopic}] BY AssignsTopics
  <2>6. planner' \in PlannerState BY <1>0, <2>1, <2>3, <2>4, <2>5 DEF PlannerState
  <2>7. \A a \in Agents : compiler[a] \in CompilerState /\ [compiler[a] EXCEPT !.crossed = TRUE] \in CompilerState
    BY <1>0, CrossedState DEF TypesOf
  <2>8. compiler' \in [Agents -> CompilerState] BY <2>1, <2>7
  <2>9. wikiQueue' = [wikiQueue EXCEPT !.plan = FALSE] BY <1>1 DEF PlanRead
  <2>10. wikiQueue' \in [plan : BOOLEAN, compile : SUBSET Topics] BY <1>0, <2>9 DEF Rest
  <2>11. UNCHANGED <<claim, alike, topicOf, page, revisions, model, wikiLeft, gaveUp, ensured, raced, setBack>>
         /\ unplanned' = {}
    BY <1>1 DEF PlanRead
  <2> QED BY <1>0, TypeSplits, <2>6, <2>8, <2>10, <2>11 DEF Rest, TypesOf
<1>2. ASSUME PlanCommit PROVE WikiTypeOK'
  <2>1. /\ planner.assigned \in [Clusters -> Topics \cup {NoTopic}] /\ planner.marks \subseteq Topics
        /\ planner.made \subseteq Topics /\ planner.covered \subseteq Topics /\ planner.read \subseteq Topics
    BY <1>0 DEF TypesOf, PlannerState
  <2>2. planner' \in PlannerState BY <1>0, <1>2, <2>1 DEF PlanCommit, PlannerState
  <2>3. compiler' \in [Agents -> CompilerState] BY <1>2, CrossingKeeps DEF PlanCommit
  <2>4. ASSUME NEW t \in Topics
        PROVE [NoPage EXCEPT !.status = "dirty"] \in Page /\ [page[t] EXCEPT !.status = "dirty"] \in Page /\ page[t] \in Page
    <3>1. NoPage \in Page /\ page[t] \in Page BY <1>0, EmptyPages DEF Rest
    <3>2. "dirty" \in PageStatus BY DEF PageStatus
    <3> QED BY <3>1, <3>2 DEF Page
  <2>5. page' \in [Topics -> Page] BY <1>2, <2>4 DEF PlanCommit
  <2>6. QueuedByPlan(page') \subseteq Topics BY DEF QueuedByPlan, Dirty
  <2>7. wikiQueue' \in [plan : BOOLEAN, compile : SUBSET Topics] /\ gaveUp' \subseteq Topics
    BY <1>0, <1>2, <2>6 DEF PlanCommit, Rest
  <2> QED BY <1>0, TypeSplits, <1>2, <2>1, <2>2, <2>3, <2>5, <2>7 DEF PlanCommit, Rest, TypesOf
<1>3. ASSUME PlanFault PROVE WikiTypeOK'
  <2>1. wikiQueue' = [wikiQueue EXCEPT !.plan = TRUE] BY <1>3 DEF PlanFault
  <2>2. wikiQueue' \in [plan : BOOLEAN, compile : SUBSET Topics] BY <1>0, <2>1 DEF Rest
  <2>3. wikiLeft' \in Nat BY <1>0, <1>3 DEF PlanFault, Rest, WikiSpend
  <2>4. planner' \in PlannerState BY <1>3, EmptyPages DEF PlanFault
  <2> QED BY <1>0, TypeSplits, <1>3, <2>2, <2>3, <2>4 DEF PlanFault, Rest, TypesOf, wikiHistory
<1> QED BY <1>1, <1>2, <1>3

\* Compiles that begin or read keep the types.
LEMMA CompilesKeepType ==
    ASSUME WikiTypeOK, AgentsKnow, NEW a \in Agents
    PROVE  /\ (a \in Compilers => \A t \in Topics : LoadPage(a, t) => WikiTypeOK')
           /\ (a \in Compilers /\ (DeferCompile(a) \/ ReadInputs(a) \/ CompileLost(a)) => WikiTypeOK')
           /\ \A t \in Topics : ForceCompile(t) => WikiTypeOK'
           /\ SkipCompile(a) \/ CompileRefused(a) => WikiTypeOK'
<1>0. TypesOf /\ Rest BY TypeSplits
<1>q. /\ \A qs \in SUBSET Topics : [wikiQueue EXCEPT !.compile = qs] \in [plan : BOOLEAN, compile : SUBSET Topics]
      /\ wikiQueue.compile \in SUBSET Topics
  BY <1>0 DEF Rest
<1>t. Going(a) => Target(a) \in Topics BY DEF AgentsKnow
<1>1. ASSUME a \in Compilers, NEW t \in Topics, LoadPage(a, t) PROVE WikiTypeOK'
  <2> DEFINE c == [NotCompiling EXCEPT !.at = "loaded", !.page = t, !.seen = page[t]]
  <2>1. c \in CompilerState BY <1>0, EmptyPages DEF Rest, CompilerState
  <2>2. compiler' = [compiler EXCEPT ![a] = c] BY <1>1 DEF LoadPage
  <2> HIDE DEF c
  <2>3. compiler' \in [Agents -> CompilerState] BY <1>0, <2>1, <2>2 DEF TypesOf
  <2>4. wikiQueue' = [wikiQueue EXCEPT !.compile = wikiQueue.compile \ {t}] BY <1>1 DEF LoadPage
  <2>5. wikiQueue' \in [plan : BOOLEAN, compile : SUBSET Topics] BY <1>q, <2>4
  <2> QED BY <1>0, TypeSplits, <1>1, <2>3, <2>5 DEF LoadPage, wikiHistory, TypesOf, Rest
<1>2. ASSUME a \in Compilers, DeferCompile(a) PROVE WikiTypeOK'
  BY <1>0, <1>2, <1>q, <1>t, RestKeeps, TypeSplits DEF DeferCompile, CompilesAt, Going,
     wikiHistory, TypesOf, Rest
<1>3. ASSUME a \in Compilers, ReadInputs(a) PROVE WikiTypeOK'
  <2> DEFINE i == PageInputs(Target(a), topicOf)
             c == [[compiler[a] EXCEPT !.at = "read"] EXCEPT !.inputs = i]
  <2>1. i \in SUBSET Input BY InputsAreInputs
  <2>2. compiler' = [[compiler EXCEPT ![a].at = "read"] EXCEPT ![a].inputs = i] BY <1>3 DEF ReadInputs
  <2> HIDE DEF i
  <2>3. c \in CompilerState BY <1>0, <2>1 DEF TypesOf, CompilerState
  <2>4. compiler' \in [Agents -> CompilerState] BY <1>0, <2>2, <2>3 DEF TypesOf
  <2> QED BY <1>0, TypeSplits, <1>3, <2>4 DEF ReadInputs, wikiHistory, TypesOf, Rest
<1>4. ASSUME a \in Compilers, CompileLost(a) PROVE WikiTypeOK'
  <2>1. compiler' \in [Agents -> CompilerState] BY <1>4, RestKeeps DEF CompileLost
  <2>2. Target(a) \in Topics BY <1>t, <1>4 DEF CompileLost, Going
  <2>3. \/ wikiQueue' = [wikiQueue EXCEPT !.compile = wikiQueue.compile \cup {Target(a)}] /\ gaveUp' = gaveUp
        \/ gaveUp' = gaveUp \cup {Target(a)} /\ wikiQueue' = wikiQueue
    BY <1>4 DEF CompileLost
  <2>4. wikiQueue' \in [plan : BOOLEAN, compile : SUBSET Topics] BY <1>0, <1>q, <2>2, <2>3 DEF Rest
  <2>5. gaveUp' \subseteq Topics BY <1>0, <2>2, <2>3 DEF Rest
  <2>6. wikiLeft' \in Nat BY <1>0, <1>4 DEF CompileLost, WikiSpend, Rest
  <2> QED BY <1>0, TypeSplits, <1>4, <2>1, <2>4, <2>5, <2>6 DEF CompileLost, TypesOf, Rest
<1>5. ASSUME NEW t \in Topics, ForceCompile(t) PROVE WikiTypeOK'
  <2> DEFINE i == PageInputs(t, topicOf)
             c == [at |-> "read", page |-> t, seen |-> page[t], inputs |-> i, crossed |-> FALSE]
  <2>1. i \in SUBSET Input BY InputsAreInputs
  <2>2. compiler' = [compiler EXCEPT ![Http] = c] BY <1>5 DEF ForceCompile
  <2> HIDE DEF i
  <2>3. c \in CompilerState BY <1>0, <2>1 DEF Rest, CompilerState
  <2> HIDE DEF c
  <2>4. compiler' \in [Agents -> CompilerState] BY <1>0, <2>2, <2>3 DEF TypesOf, Agents
  <2>6. wikiLeft' \in Nat BY <1>0, <1>5 DEF ForceCompile, WikiSpend, Rest
  <2> QED BY <1>0, TypeSplits, <1>5, <2>4, <2>6 DEF ForceCompile, wikiHistory, TypesOf, Rest
<1>6. ASSUME SkipCompile(a) PROVE WikiTypeOK'
  BY <1>0, <1>6, RestKeeps, TypeSplits DEF SkipCompile, wikiHistory, TypesOf, Rest
<1>7. ASSUME CompileRefused(a) PROVE WikiTypeOK'
  <2>1. compiler' \in [Agents -> CompilerState] BY <1>7, RestKeeps DEF CompileRefused
  <2> DEFINE back == {Target(a)} \cap IF a = Http THEN {} ELSE Topics
  <2>2. back \subseteq Topics OBVIOUS
  <2>4. wikiQueue' = [wikiQueue EXCEPT !.compile = wikiQueue.compile \cup back] BY <1>7 DEF CompileRefused
  <2> HIDE DEF back
  <2>5. wikiQueue' \in [plan : BOOLEAN, compile : SUBSET Topics] BY <1>q, <2>4, <2>2
  <2> QED BY <1>0, TypeSplits, <1>7, <2>1, <2>5 DEF CompileRefused, wikiHistory, TypesOf, Rest
<1> QED BY <1>1, <1>2, <1>3, <1>4, <1>5, <1>6, <1>7

\* A write of a page keeps what holds of its text and revisions.
LEMMA WriteKeeps ==
    ASSUME WikiTypeOK, NEW a \in Agents, Target(a) \in Topics, NEW new \in Page, Write(a, new)
    PROVE  LET t == Target(a)
               p == page[t] IN
           /\ page' \in [Topics -> Page]
           /\ \A u \in Topics \ {t} : page'[u] = page[u]
           /\ page'[t].status = new.status
           /\ page'[t].hash = IF new.hash = Seen(a).hash THEN p.hash ELSE new.hash
           /\ page'[t].compiled = IF new.compiled = Seen(a).compiled THEN p.compiled ELSE new.compiled
           /\ page'[t].body = IF new.body = Seen(a).body THEN p.body ELSE new.body
           /\ page'[t].revision = IF new.revision = Seen(a).revision THEN p.revision ELSE new.revision
           /\ Seen(a) = p => page'[t].hash = new.hash /\ page'[t].compiled = new.compiled
<1>1. Seen(a) \in Page BY AtomsTyped
<1> DEFINE w == Written(a, new)
<1>2. w \in Page BY <1>1, WrittenIsAPage
<1>3. page \in [Topics -> Page] BY DEF WikiTypeOK
<1>4. page' = [page EXCEPT ![Target(a)] = w] BY DEF Write
<1>5. LET p == page[Target(a)] IN
      /\ w.status = new.status
      /\ w.hash = IF new.hash = Seen(a).hash THEN p.hash ELSE new.hash
      /\ w.compiled = IF new.compiled = Seen(a).compiled THEN p.compiled ELSE new.compiled
      /\ w.body = IF new.body = Seen(a).body THEN p.body ELSE new.body
      /\ w.revision = IF new.revision = Seen(a).revision THEN p.revision ELSE new.revision
  BY <1>1, WrittenFields
<1> HIDE DEF w
<1>6. page' \in [Topics -> Page] /\ page'[Target(a)] = w /\ \A u \in Topics \ {Target(a)} : page'[u] = page[u]
  BY <1>2, <1>3, <1>4
<1> QED BY <1>5, <1>6

\* A compile that finds no claim keeps the text.
LEMMA EmptyWrites ==
    ASSUME WikiTypeOK, NEW a \in Agents, Target(a) \in Topics, CompileEmpty(a)
    PROVE  LET t == Target(a) IN
           /\ page' \in [Topics -> Page]
           /\ \A u \in Topics \ {t} : page'[u] = page[u]
           /\ page'[t].status = "clean"
           /\ page'[t].body = page[t].body
           /\ page'[t].revision = Seen(a).revision + 1
           /\ Seen(a) = page[t] => page'[t].hash.of = Reads(a) /\ page'[t].compiled = Reads(a)
           /\ Reads(a) = {}
           /\ revisions' = revisions
<1> DEFINE new == [Seen(a) EXCEPT !.status = "clean", !.hash = Digest(a), !.compiled = {},
                                  !.revision = Seen(a).revision + 1]
<1>1. new \in Page /\ new.status = "clean" /\ new.hash = Digest(a) /\ new.compiled = {}
      /\ new.body = Seen(a).body /\ new.revision = Seen(a).revision + 1
  BY EmptyIsAPage
<1>2. Write(a, new) /\ Reads(a) = {} /\ revisions' = revisions BY DEF CompileEmpty
<1>3. Seen(a).revision \in Nat BY AtomsTyped, FieldsOfAPage
<1>4. new.revision # Seen(a).revision BY <1>1, <1>3
<1> HIDE DEF new
<1>5. /\ page' \in [Topics -> Page]
      /\ \A u \in Topics \ {Target(a)} : page'[u] = page[u]
      /\ page'[Target(a)].status = "clean"
      /\ page'[Target(a)].body = page[Target(a)].body
      /\ page'[Target(a)].revision = Seen(a).revision + 1
      /\ Seen(a) = page[Target(a)] => page'[Target(a)].hash = Digest(a) /\ page'[Target(a)].compiled = {}
  BY <1>1, <1>2, <1>4, WriteKeeps
<1>6. Digest(a).of = Reads(a) BY DEF Digest
<1> QED BY <1>2, <1>5, <1>6

\* A compile that fails keeps the text.
LEMMA FailWrites ==
    ASSUME WikiTypeOK, NEW a \in Agents, Target(a) \in Topics, CompileFails(a)
    PROVE  LET t == Target(a) IN
           /\ page' \in [Topics -> Page]
           /\ \A u \in Topics \ {t} : page'[u] = page[u]
           /\ page'[t].status = "failed"
           /\ page'[t].body = page[t].body /\ page'[t].revision = page[t].revision
           /\ page'[t].hash = page[t].hash /\ page'[t].compiled = page[t].compiled
           /\ revisions' = revisions
<1> DEFINE new == [Seen(a) EXCEPT !.status = "failed"]
<1>1. new \in Page /\ new.status = "failed" /\ new.hash = Seen(a).hash /\ new.compiled = Seen(a).compiled
      /\ new.body = Seen(a).body /\ new.revision = Seen(a).revision
  BY FailedIsAPage
<1>2. Write(a, new) /\ revisions' = revisions BY DEF CompileFails
<1> HIDE DEF new
<1> QED BY <1>1, <1>2, WriteKeeps

\* A compile that succeeds stores a revision of the text it shows.
LEMMA CommitWrites ==
    ASSUME WikiTypeOK, NEW a \in Agents, Target(a) \in Topics, CompileCommit(a)
    PROVE  LET t == Target(a) IN
           \E text \in Composed(Reads(a)) :
           /\ page' \in [Topics -> Page]
           /\ \A u \in Topics \ {t} : page'[u] = page[u]
           /\ page'[t].status = "clean"
           /\ Seen(a) = page[t] => page'[t].hash.of = Reads(a) /\ page'[t].compiled = Reads(a)
                                   /\ page'[t].body = {text}
           /\ \/ /\ page'[t].body = page[t].body /\ page'[t].revision = page[t].revision
                 /\ revisions' = revisions /\ setBack' = setBack
              \/ /\ page'[t].body = {text} /\ page'[t].revision = Seen(a).revision + 1
                 /\ revisions' = [revisions EXCEPT ![t] = @ \cup {<<Seen(a).revision + 1, text>>}]
                 /\ ~RevisionTaken(a) /\ setBack' = setBack \ {t}
<1> DEFINE changed(text) == Seen(a).body # {text}
           new(text) == [status |-> "clean", hash |-> Digest(a), compiled |-> Reads(a), body |-> {text},
                         revision |-> Seen(a).revision + (IF changed(text) THEN 1 ELSE 0)]
<1>1. PICK text \in Composed(Reads(a)) :
         /\ changed(text) => ~RevisionTaken(a)
         /\ Write(a, new(text))
         /\ StoreRevision(a, text)
         /\ setBack' = IF changed(text) THEN setBack \ {Target(a)} ELSE setBack
  BY DEF CompileCommit
<1> DEFINE n == new(text)
           c == changed(text)
<1>2. n \in Page
  <2>1. c \in BOOLEAN OBVIOUS
  <2>2. [status |-> "clean", hash |-> Digest(a), compiled |-> Reads(a), body |-> {text},
         revision |-> Seen(a).revision + (IF c THEN 1 ELSE 0)] \in Page
    <3> HIDE DEF c
    <3> QED BY <2>1, CommitIsAPage
  <2> QED BY <2>2
<1>3. n.status = "clean" /\ n.hash = Digest(a) /\ n.compiled = Reads(a) /\ n.body = {text}
      /\ n.revision = Seen(a).revision + (IF c THEN 1 ELSE 0)
  OBVIOUS
<1>4. Seen(a).revision \in Nat BY AtomsTyped, FieldsOfAPage
<1>5. Digest(a).of = Reads(a) BY DEF Digest
<1>6. Write(a, n) BY <1>1
<1> HIDE DEF new, n
<1>7. /\ page' \in [Topics -> Page]
      /\ \A u \in Topics \ {Target(a)} : page'[u] = page[u]
      /\ page'[Target(a)].status = n.status
      /\ page'[Target(a)].body = IF n.body = Seen(a).body THEN page[Target(a)].body ELSE n.body
      /\ page'[Target(a)].revision = IF n.revision = Seen(a).revision THEN page[Target(a)].revision ELSE n.revision
      /\ Seen(a) = page[Target(a)] => page'[Target(a)].hash = n.hash /\ page'[Target(a)].compiled = n.compiled
  BY <1>2, <1>6, WriteKeeps
<1>8. Seen(a) = page[Target(a)] =>
        /\ page'[Target(a)].hash.of = Reads(a) /\ page'[Target(a)].compiled = Reads(a)
        /\ page'[Target(a)].body = {text}
  BY <1>3, <1>5, <1>7
<1>9. CASE c
  <2>1. page'[Target(a)].body = {text} /\ page'[Target(a)].revision = Seen(a).revision + 1
    BY <1>3, <1>4, <1>7, <1>9
  <2>2. revisions' = [revisions EXCEPT ![Target(a)] = @ \cup {<<Seen(a).revision + 1, text>>}]
        /\ ~RevisionTaken(a) /\ setBack' = setBack \ {Target(a)}
    BY <1>1, <1>9 DEF StoreRevision
  <2> QED BY <1>3, <1>7, <1>8, <2>1, <2>2
<1>10. CASE ~c BY <1>1, <1>3, <1>4, <1>7, <1>8, <1>10 DEF StoreRevision
<1> QED BY <1>9, <1>10

Writes(a) == CompileEmpty(a) \/ CompileFails(a) \/ CompileCommit(a)

\* No write of a page shows a text that is not a stored revision.
LEMMA WritesTell ==
    ASSUME WikiTypeOK, AgentsKnow, NEW a \in Agents, Writes(a)
    PROVE  LET t == Target(a) IN
           /\ t \in Topics /\ CompilesAt(a, "read") /\ Wrote(a) /\ ~UpToDate(a)
           /\ page' \in [Topics -> Page] /\ \A u \in Topics \ {t} : page'[u] = page[u]
           /\ page'[t].status \in {"clean", "failed"}
           /\ UNCHANGED <<claim, alike, topicOf, wikiQueue, planner, model, gaveUp, unplanned, ensured>>
           /\ \A u \in Topics \ {t} : u \in raced <=> u \in raced'
           /\ raced' \subseteq Topics /\ setBack' \subseteq Topics /\ wikiLeft' \in Nat
           /\ Crossed(a) => t \in raced'
           /\ ~Crossed(a) =>
                 \/ page'[t].status = "clean" /\ page'[t].compiled = Reads(a) /\ page'[t].hash.of = Reads(a)
                 \/ /\ page'[t].status = "failed" /\ raced' = raced
                    /\ page'[t].compiled = page[t].compiled /\ page'[t].hash = page[t].hash
<1>1. CompilesAt(a, "read") /\ Wrote(a) /\ ~UpToDate(a)
      /\ UNCHANGED <<claim, alike, topicOf, wikiQueue, planner, model, gaveUp, unplanned, ensured>>
  BY DEF Writes, CompileEmpty, CompileFails, CompileCommit
<1>2. Target(a) \in Topics /\ (~Crossed(a) => Seen(a) = page[Target(a)])
  BY <1>1 DEF AgentsKnow, Going, CompilesAt
<1>3. raced \subseteq Topics /\ setBack \subseteq Topics /\ wikiLeft \in Nat BY DEF WikiTypeOK
<1>4. CASE CompileEmpty(a) BY <1>1, <1>2, <1>3, <1>4, EmptyWrites DEF CompileEmpty, Race
<1>5. CASE CompileFails(a)
  BY <1>1, <1>2, <1>3, <1>5, FailWrites DEF CompileFails, WikiSpend, Race
<1>6. CASE CompileCommit(a) BY <1>1, <1>2, <1>3, <1>6, CommitWrites DEF CompileCommit, Race
<1> QED BY <1>4, <1>5, <1>6 DEF Writes

\* Writes of pages keep the types.
LEMMA WritesKeepType ==
    ASSUME WikiTypeOK, AgentsKnow, NEW a \in Agents, Writes(a) PROVE WikiTypeOK'
<1>0. TypesOf /\ Rest BY TypeSplits
<1>1. compiler' \in [Agents -> CompilerState] BY WritesTell, WroteKeeps
<1>2. revisions' \in [Topics -> SUBSET (Nat \X SUBSET Claims)]
  <2>1. Target(a) \in Topics BY WritesTell
  <2>2. CASE CompileEmpty(a) \/ CompileFails(a) BY <1>0, <2>2, <2>1, EmptyWrites, FailWrites DEF Rest
  <2>3. CASE CompileCommit(a)
    <3>1. \A text \in Composed(Reads(a)) : text \in SUBSET Claims BY AtomsTyped, BodiesCiteTheirInputs
    <3>2. Seen(a).revision + 1 \in Nat BY AtomsTyped, FieldsOfAPage
    <3>3. PICK text \in Composed(Reads(a)) : \/ revisions' = revisions
             \/ revisions' = [revisions EXCEPT ![Target(a)] = @ \cup {<<Seen(a).revision + 1, text>>}]
      BY <2>1, <2>3, CommitWrites
    <3>4. <<Seen(a).revision + 1, text>> \in Nat \X SUBSET Claims BY <3>1, <3>2
    <3> QED BY <1>0, <3>3, <3>4 DEF Rest
  <2> QED BY <2>2, <2>3 DEF Writes
<1> QED BY <1>0, <1>1, <1>2, TypeSplits, WritesTell DEF TypesOf, Rest

\* What a committing compile leaves on the page it wrote.
LEMMA WritesKeepBodies ==
    ASSUME WikiTypeOK, AgentsKnow, RevisionsTellTheBody, CitesItsClaims, HashTellsInputs, NEW a \in Agents, Writes(a)
    PROVE  RevisionsTellTheBody' /\ CitesItsClaims' /\ HashTellsInputs'
<1> DEFINE t == Target(a)
<1>1. t \in Topics /\ (~Crossed(a) => Seen(a) = page[t]) /\ Seen(a).revision \in Nat /\ page[t].revision \in Nat
  BY WritesTell, AtomsTyped, FieldsOfAPage DEF AgentsKnow, Going, CompilesAt, WikiTypeOK
<1>2. /\ \A u \in Topics \ {t} : page'[u] = page[u]
      /\ \A u \in Topics \ {t} : u \in raced <=> u \in raced'
      /\ Crossed(a) => t \in raced'
  BY WritesTell
<1>3. ASSUME NEW u \in Topics PROVE page[u].hash.of = page[u].compiled \/ u \in raced
  BY DEF HashTellsInputs
<1>4. ASSUME NEW u \in Topics, NEW text \in page[u].body
      PROVE  text \subseteq Ids(page[u].compiled) \/ page[u].compiled = {} \/ u \in raced
  BY DEF CitesItsClaims
<1>5. ASSUME NEW u \in Topics
      PROVE  /\ \A text \in page[u].body : \E r \in revisions[u] : r[2] = text /\ (r[1] <= page[u].revision \/ u \in setBack)
             /\ \A r, q \in revisions[u] : r[1] = q[1] => r = q
  BY DEF RevisionsTellTheBody
<1>7. /\ revisions \in [Topics -> SUBSET (Nat \X SUBSET Claims)]
      /\ \A r \in revisions[t] : r[1] \in Nat
  BY <1>1 DEF WikiTypeOK
<1> HIDE DEF t
<1>6. (page'[t].hash.of = page'[t].compiled \/ t \in raced')
  BY <1>1, <1>2, <1>3, WritesTell DEF t
<1>8. HashTellsInputs' BY <1>2, <1>3, <1>6 DEF HashTellsInputs
<1>9. CASE CompileEmpty(a)
  <2>1. /\ page'[t].body = page[t].body /\ page'[t].revision = Seen(a).revision + 1
        /\ Seen(a) = page[t] => page'[t].compiled = Reads(a)
        /\ Reads(a) = {} /\ revisions' = revisions
    BY <1>1, <1>9, EmptyWrites DEF t
  <2>2. setBack' = IF Crossed(a) THEN setBack \cup {t} ELSE setBack BY <1>9 DEF CompileEmpty, t
  <2>3. CitesItsClaims' BY <1>1, <1>2, <1>4, <2>1 DEF CitesItsClaims
  <2>4. ASSUME NEW text \in page'[t].body
        PROVE \E r \in revisions'[t] : r[2] = text /\ (r[1] <= page'[t].revision \/ t \in setBack')
    <3>1. PICK r \in revisions[t] : r[2] = text /\ (r[1] <= page[t].revision \/ t \in setBack)
      BY <1>1, <1>5, <2>1
    <3>2. r[1] <= page'[t].revision \/ t \in setBack' BY <1>1, <1>7, <2>1, <2>2, <3>1
    <3> QED BY <2>1, <3>1, <3>2
  <2>5. RevisionsTellTheBody' BY <1>2, <1>5, <2>1, <2>2, <2>4 DEF RevisionsTellTheBody
  <2> QED BY <1>8, <2>3, <2>5
<1>10. CASE CompileFails(a)
  BY <1>1, <1>2, <1>4, <1>5, <1>8, <1>10, FailWrites DEF t, CompileFails, Race, CitesItsClaims,
     RevisionsTellTheBody
<1>11. CASE CompileCommit(a)
  <2>1. PICK text \in Composed(Reads(a)) :
         /\ Seen(a) = page[t] => page'[t].compiled = Reads(a) /\ page'[t].body = {text}
         /\ \/ /\ page'[t].body = page[t].body /\ page'[t].revision = page[t].revision
               /\ revisions' = revisions /\ setBack' = setBack
            \/ /\ page'[t].body = {text} /\ page'[t].revision = Seen(a).revision + 1
               /\ revisions' = [revisions EXCEPT ![t] = @ \cup {<<Seen(a).revision + 1, text>>}]
               /\ ~RevisionTaken(a) /\ setBack' = setBack \ {t}
    BY <1>1, <1>11, CommitWrites DEF t
  <2>2. text \subseteq Ids(Reads(a)) BY AtomsTyped, BodiesCiteTheirInputs
  <2>3. CitesItsClaims' BY <1>1, <1>2, <1>4, <2>1, <2>2 DEF CitesItsClaims
  <2>4. CASE /\ page'[t].body = page[t].body /\ page'[t].revision = page[t].revision
             /\ revisions' = revisions /\ setBack' = setBack
    BY <1>2, <1>5, <1>8, <2>3, <2>4 DEF RevisionsTellTheBody
  <2>5. CASE /\ page'[t].body = {text} /\ page'[t].revision = Seen(a).revision + 1
             /\ revisions' = [revisions EXCEPT ![t] = @ \cup {<<Seen(a).revision + 1, text>>}]
             /\ ~RevisionTaken(a) /\ setBack' = setBack \ {t}
    <3> DEFINE new == <<Seen(a).revision + 1, text>>
    <3>1. revisions'[t] = revisions[t] \cup {new} /\ \A u \in Topics \ {t} : revisions'[u] = revisions[u]
      BY <1>1, <1>7, <2>5
    <3>2. \A r \in revisions[t] : r[1] # Seen(a).revision + 1 BY <2>5 DEF RevisionTaken, t
    <3>3. new[1] = Seen(a).revision + 1 /\ new[2] = text OBVIOUS
    <3>4. new[1] <= page'[t].revision BY <1>1, <2>5, <3>3
    <3> HIDE DEF new
    <3>5. \A r, q \in revisions'[t] : r[1] = q[1] => r = q BY <1>1, <1>5, <3>1, <3>2, <3>3
    <3>6. \A b \in page'[t].body : \E r \in revisions'[t] : r[2] = b /\ (r[1] <= page'[t].revision \/ t \in setBack')
      BY <2>5, <3>1, <3>3, <3>4
    <3>7. \A u \in Topics \ {t} : u \in setBack' <=> u \in setBack BY <2>5
    <3>8. RevisionsTellTheBody' BY <1>2, <1>5, <3>1, <3>5, <3>6, <3>7 DEF RevisionsTellTheBody
    <3> QED BY <1>8, <2>3, <3>8
  <2> QED BY <2>1, <2>4, <2>5
<1> QED BY <1>9, <1>10, <1>11 DEF Writes

\* A committing compile crosses whoever else had loaded the page.
LEMMA WritesKeepAgents ==
    ASSUME WikiTypeOK, AgentsKnow, DirtyIsSeen, NEW a \in Agents, Writes(a)
    PROVE  AgentsKnow' /\ DirtyIsSeen'
<1> DEFINE t == Target(a)
<1>1. /\ compiler'[a] = NotCompiling
      /\ \A b \in Agents \ {a} :
               /\ compiler'[b].at = compiler[b].at /\ compiler'[b].page = compiler[b].page
               /\ compiler'[b].seen = compiler[b].seen
               /\ compiler'[b].crossed <=> compiler[b].crossed \/ compiler[b].page = t
  BY WritesTell, WroteKeeps
<1>2. /\ t \in Topics
      /\ \A u \in Topics \ {t} : page'[u] = page[u]
      /\ page'[t].status \in {"clean", "failed"}
      /\ UNCHANGED <<wikiQueue, gaveUp>>
  BY WritesTell
<1>3. NotCompiling.at = "idle" /\ NotCompiling.page = NoTopic BY DEF NotCompiling
<1> HIDE DEF t
<1>4. AgentsKnow' BY <1>1, <1>2, <1>3 DEF AgentsKnow, Going, CompilesAt, Target, Crossed, Seen
<1>5. ASSUME NEW u \in Topics, page'[u].status = "dirty"
      PROVE  u \in wikiQueue'.compile \cup gaveUp' \/ \E w \in Compilers : (CompilesOn(w, u) /\ Seen(w).status = "dirty")'
  <2>1. u # t /\ page[u].status = "dirty" BY <1>2, <1>5
  <2>2. CASE u \in wikiQueue.compile \cup gaveUp BY <1>2, <2>2
  <2>3. ASSUME NEW w \in Compilers, CompilesOn(w, u), Seen(w).status = "dirty"
        PROVE  (CompilesOn(w, u) /\ Seen(w).status = "dirty")'
    BY <1>1, <2>1, <2>3 DEF CompilesOn, t, Going, CompilesAt, Target, Seen, Agents
  <2> QED BY <2>1, <2>2, <2>3 DEF DirtyIsSeen
<1>6. DirtyIsSeen' BY <1>5 DEF DirtyIsSeen
<1> QED BY <1>4, <1>6

-----------------------------------------------------------------------------
\* Reads that stand, pages that stand and the plan that stands, across a write.
LEMMA WritesKeepReads ==
    ASSUME WikiTypeOK, AgentsKnow, HashTellsInputs, ReadsStand, CleanStands, PlanStands,
           NEW a \in Agents, Writes(a)
    PROVE  ReadsStand' /\ CleanStands' /\ PlanStands'
<1> DEFINE t == Target(a)
<1>1. /\ compiler'[a] = NotCompiling
      /\ \A b \in Agents \ {a} :
               /\ compiler'[b].at = compiler[b].at /\ compiler'[b].page = compiler[b].page
               /\ compiler'[b].seen = compiler[b].seen /\ compiler'[b].inputs = compiler[b].inputs
               /\ compiler'[b].crossed <=> compiler[b].crossed \/ compiler[b].page = t
  BY WritesTell, WroteKeeps
<1>2. /\ t \in Topics /\ CompilesAt(a, "read")
      /\ \A u \in Topics \ {t} : page'[u] = page[u]
      /\ page'[t].status \in {"clean", "failed"}
      /\ UNCHANGED <<claim, topicOf, wikiQueue, planner, gaveUp, unplanned, ensured>>
      /\ \A u \in Topics \ {t} : u \in raced <=> u \in raced'
      /\ Crossed(a) => t \in raced'
      /\ ~Crossed(a) =>
               \/ page'[t].status = "clean" /\ page'[t].compiled = Reads(a)
               \/ page'[t].status = "failed" /\ raced' = raced
  BY WritesTell
<1>3. NotCompiling.at = "idle" BY DEF NotCompiling
<1> HIDE DEF t
<1>4. \A u : Current(u)' = Current(u) /\ (Unread(u)' <=> Unread(u)) /\ (Excused(u)' <=> Excused(u))
  BY <1>2 DEF Current, PageInputs, Unread, ClustersOf, Excused, PlanPending
<1>5. ASSUME NEW b \in Agents, CompilesAt(b, "read")', Reads(b)' # Current(Target(b))'
      PROVE  StaleRead(b)'
  <2>1. b # a /\ CompilesAt(b, "read") /\ Reads(b) = Reads(b)' /\ Target(b)' = Target(b)
        /\ (Crossed(b)' <=> Crossed(b) \/ Target(b) = t)
    BY <1>1, <1>3, <1>5 DEF CompilesAt, Reads, Target, Crossed
  <2>2. Target(b) \in Topics BY <2>1 DEF AgentsKnow, Going, CompilesAt
  <2>3. CASE Target(b) = t BY <2>1, <2>3 DEF StaleRead
  <2>4. CASE Target(b) # t
    <3>1. StaleRead(b) BY <1>4, <1>5, <2>1 DEF ReadsStand
    <3>2. page'[Target(b)] = page[Target(b)] BY <1>2, <2>2, <2>4
    <3>3. ASSUME NEW w \in Compilers \ {b}, CompilesOn(w, Target(b)), Seen(w).status = "dirty"
          PROVE  CompilesOn(w, Target(b))' /\ (Seen(w).status = "dirty")'
      BY <1>1, <2>1, <2>4, <3>3 DEF CompilesOn, t, Going, CompilesAt, Target, Seen, Agents
    <3>4. CASE Crossed(b) \/ Excused(Target(b)) BY <1>4, <2>1, <3>4 DEF StaleRead
    <3>5. CASE /\ page[Target(b)].status = "dirty"
               /\ Target(b) \in wikiQueue.compile \cup gaveUp
      BY <1>2, <2>1, <3>2, <3>5 DEF StaleRead
    <3>6. CASE /\ page[Target(b)].status = "dirty"
               /\ \E w \in Compilers \ {b} : CompilesOn(w, Target(b)) /\ Seen(w).status = "dirty"
      BY <1>2, <2>1, <3>2, <3>3, <3>6 DEF StaleRead
    <3> QED BY <3>1, <3>4, <3>5, <3>6 DEF StaleRead
  <2> QED BY <2>3, <2>4
<1>6. ASSUME NEW u \in Topics, page'[u].status = "clean", page'[u].compiled # Current(u)'
      PROVE  \/ Excused(u)'
             \/ u \in raced' \cup wikiQueue'.compile \cup gaveUp'
             \/ \E w \in Compilers : (CompilesOn(w, u) /\ (~Crossed(w) \/ Seen(w).status # "clean"))'
  <2>1. CASE u = t
    <3>1. CASE Crossed(a) BY <1>2, <2>1, <3>1
    <3>2. CASE ~Crossed(a)
      <4>1. Reads(a) # Current(t) BY <1>2, <1>4, <1>6, <2>1, <3>2
      <4>2. StaleRead(a) BY <1>2, <4>1 DEF ReadsStand, t
      <4>3. CASE Excused(t) BY <1>4, <2>1, <4>3
      <4>4. CASE t \in wikiQueue.compile \cup gaveUp BY <1>2, <2>1, <4>4
      <4>5. ASSUME NEW w \in Compilers \ {a}, CompilesOn(w, u), Seen(w).status = "dirty"
            PROVE  (CompilesOn(w, u) /\ Seen(w).status # "clean")'
        BY <1>1, <4>5 DEF CompilesOn, Going, CompilesAt, Target, Seen, Agents
      <4> QED BY <2>1, <3>2, <4>2, <4>3, <4>4, <4>5 DEF StaleRead, t
    <3> QED BY <3>1, <3>2
  <2>2. CASE u # t
    <3>1. page[u].status = "clean" /\ page[u].compiled # Current(u) BY <1>2, <1>4, <1>6, <2>2
    <3>2. ASSUME NEW w \in Compilers, CompilesOn(w, u), ~Crossed(w) \/ Seen(w).status # "clean"
          PROVE  (CompilesOn(w, u) /\ (~Crossed(w) \/ Seen(w).status # "clean"))'
      BY <1>1, <2>2, <3>2 DEF CompilesOn, t, Target, Going, CompilesAt, Seen, Agents, Crossed
    <3>3. CASE Excused(u) BY <1>4, <3>3
    <3>4. CASE u \in raced \cup wikiQueue.compile \cup gaveUp BY <1>2, <2>2, <3>4
    <3> QED BY <3>1, <3>2, <3>3, <3>4 DEF CleanStands
  <2> QED BY <2>1, <2>2
<1>7. ASSUME planner'.at = "decided", NEW u \in Compared'
      PROVE  /\ \/ u \in planner'.marks \cup planner'.read \cup raced'
                \/ Unread(u)'
                \/ page'[u].status = "clean" => page'[u].compiled = Current(u)'
             /\ \A b \in Agents : CompilesAt(b, "read")' /\ Target(b)' = u =>
                   \/ Crossed(b)' \/ Unread(u)' \/ u \in planner'.marks
                   \/ Reads(b)' = Current(u)'
                   \/ u \in planner'.read /\ page'[u].status = "dirty"
  <2>1. planner.at = "decided" /\ u \in Compared /\ u \in Topics
    BY <1>2, <1>7 DEF Compared, ClustersOf, WikiTypeOK
  <2>2. /\ \/ u \in planner.marks \cup planner.read \cup raced
           \/ Unread(u)
           \/ page[u].status = "clean" => page[u].compiled = Current(u)
        /\ \A b \in Agents : CompilesAt(b, "read") /\ Target(b) = u =>
              \/ Crossed(b) \/ Unread(u) \/ u \in planner.marks
              \/ Reads(b) = Current(u)
              \/ u \in planner.read /\ page[u].status = "dirty"
    BY <2>1 DEF PlanStands
  <2>3. ASSUME NEW b \in Agents, CompilesAt(b, "read")', Target(b)' = u
        PROVE  b # a /\ CompilesAt(b, "read") /\ Reads(b) = Reads(b)' /\ Target(b) = u
               /\ (Crossed(b)' <=> Crossed(b) \/ Target(b) = t)
    BY <1>1, <1>3, <2>3 DEF CompilesAt, Reads, Target, Crossed
  <2>4. CASE u # t
    <3>1. page'[u] = page[u] /\ (u \in raced <=> u \in raced') BY <1>2, <2>1, <2>4
    <3>2. \/ u \in planner'.marks \cup planner'.read \cup raced'
          \/ Unread(u)'
          \/ page'[u].status = "clean" => page'[u].compiled = Current(u)'
      BY <1>2, <1>4, <2>2, <3>1
    <3>3. ASSUME NEW b \in Agents, CompilesAt(b, "read")', Target(b)' = u
          PROVE  \/ Crossed(b)' \/ Unread(u)' \/ u \in planner'.marks
                 \/ Reads(b)' = Current(u)'
                 \/ u \in planner'.read /\ page'[u].status = "dirty"
      BY <1>2, <1>4, <2>2, <2>3, <3>1, <3>3
    <3> QED BY <3>2, <3>3
  <2>5. CASE u = t
    <3>1. \/ Crossed(a) \/ Unread(u) \/ u \in planner.marks
          \/ Reads(a) = Current(u)
          \/ u \in planner.read /\ page[u].status = "dirty"
      BY <1>2, <2>2, <2>5 DEF t
    <3>2. \/ u \in planner'.marks \cup planner'.read \cup raced'
          \/ Unread(u)'
          \/ page'[u].status = "clean" => page'[u].compiled = Current(u)'
      BY <1>2, <1>4, <2>5, <3>1
    <3>3. ASSUME NEW b \in Agents, CompilesAt(b, "read")', Target(b)' = u
          PROVE  Crossed(b)'
      BY <2>3, <2>5, <3>3
    <3> QED BY <3>2, <3>3
  <2> QED BY <2>4, <2>5
<1> QED BY <1>5, <1>6, <1>7 DEF ReadsStand, CleanStands, PlanStands

-----------------------------------------------------------------------------
\* What holds of pages is kept where pages, compiles and topics stay.
LEMMA PagesStay ==
    ASSUME RevisionsTellTheBody, CitesItsClaims, HashTellsInputs, UNCHANGED <<page, revisions, raced, setBack>>
    PROVE  RevisionsTellTheBody' /\ CitesItsClaims' /\ HashTellsInputs'
BY DEF RevisionsTellTheBody, CitesItsClaims, HashTellsInputs

\* What holds of agents is kept where agents stay.
LEMMA NobodyMoves ==
    ASSUME AgentsKnow, DirtyIsSeen, UNCHANGED <<page, compiler, gaveUp>>, wikiQueue'.compile = wikiQueue.compile
    PROVE  AgentsKnow' /\ DirtyIsSeen'
BY DEF AgentsKnow, DirtyIsSeen, Going, CompilesAt, Target, Crossed, Seen, CompilesOn

\* While a plan is pending every page may wait for it.
LEMMA PendingExcuses ==
    ASSUME PlanPending', planner'.at = "idle"
    PROVE  ReadsStand' /\ CleanStands' /\ PlanStands'
BY DEF Excused, ReadsStand, StaleRead, CleanStands, PlanStands

\* Whatever moves a page's inputs leaves it to a plan, or marks its cluster unread.
LEMMA InputsMove ==
    ASSUME WikiTypeOK, AgentsKnow, ReadsStand, CleanStands, PlanStands,
           UNCHANGED <<page, topicOf, planner, compiler, gaveUp, ensured, raced>>,
           wikiQueue'.compile = wikiQueue.compile, wikiQueue.plan => wikiQueue'.plan,
           \A t \in Topics : Unread(t)' \/ (Current(t)' = Current(t) /\ (Unread(t) => Unread(t)'))
    PROVE  ReadsStand' /\ CleanStands' /\ PlanStands'
<1>1. PlanPending => PlanPending' BY DEF PlanPending
<1>2. \A t \in Topics : Excused(t) => Excused(t)' BY <1>1 DEF Excused
<1>3. \A a, t : (CompilesOn(a, t)' <=> CompilesOn(a, t)) /\ Seen(a)' = Seen(a) /\ (Crossed(a)' <=> Crossed(a))
                /\ Reads(a)' = Reads(a) /\ Target(a)' = Target(a) /\ (CompilesAt(a, "read")' <=> CompilesAt(a, "read"))
  BY DEF CompilesOn, Going, CompilesAt, Seen, Crossed, Reads, Target
<1>4. ASSUME NEW b \in Agents, CompilesAt(b, "read")', Reads(b)' # Current(Target(b))'
      PROVE  StaleRead(b)'
  <2>1. Target(b) \in Topics /\ CompilesAt(b, "read") BY <1>3, <1>4 DEF AgentsKnow, Going, CompilesAt
  <2>4. PICK t \in Topics : t = Target(b) /\ t = Target(b)' BY <1>3, <2>1
  <2>2. CASE Unread(t)' BY <1>3, <2>4, <2>2 DEF StaleRead, Excused
  <2>3. CASE Current(t)' = Current(t) /\ (Unread(t) => Unread(t)')
    <3>1. StaleRead(b) BY <1>3, <1>4, <2>1, <2>4, <2>3 DEF ReadsStand
    <3>2. CASE Crossed(b) BY <1>3, <2>4, <3>2 DEF StaleRead
    <3>3. CASE Excused(t) BY <1>2, <1>3, <2>1, <2>4, <3>3 DEF StaleRead
    <3>4. CASE /\ page[t].status = "dirty"
               /\ \/ t \in wikiQueue.compile \cup gaveUp
                  \/ \E w \in Compilers \ {b} : CompilesOn(w, t) /\ Seen(w).status = "dirty"
      BY <1>3, <2>4, <3>4 DEF StaleRead
    <3> QED BY <2>4, <3>1, <3>2, <3>3, <3>4 DEF StaleRead
  <2> QED BY <2>2, <2>3
<1>5. ASSUME NEW u \in Topics, page'[u].status = "clean", page'[u].compiled # Current(u)'
      PROVE  \/ Excused(u)'
             \/ u \in raced' \cup wikiQueue'.compile \cup gaveUp'
             \/ \E w \in Compilers : (CompilesOn(w, u) /\ (~Crossed(w) \/ Seen(w).status # "clean"))'
  <2>2. CASE Unread(u)' BY <2>2 DEF Excused
  <2>3. CASE Current(u)' = Current(u) /\ (Unread(u) => Unread(u)')
    BY <1>2, <1>3, <1>5, <2>3 DEF CleanStands
  <2> QED BY <2>2, <2>3
<1>6. ASSUME planner'.at = "decided", NEW u \in Compared'
      PROVE  /\ \/ u \in planner'.marks \cup planner'.read \cup raced'
                \/ Unread(u)'
                \/ page'[u].status = "clean" => page'[u].compiled = Current(u)'
             /\ \A b \in Agents : CompilesAt(b, "read")' /\ Target(b)' = u =>
                   \/ Crossed(b)' \/ Unread(u)' \/ u \in planner'.marks
                   \/ Reads(b)' = Current(u)'
                   \/ u \in planner'.read /\ page'[u].status = "dirty"
  <2>1. planner.at = "decided" /\ u \in Compared /\ u \in Topics
    BY <1>6 DEF Compared, ClustersOf, WikiTypeOK
  <2>2. /\ \/ u \in planner.marks \cup planner.read \cup raced
           \/ Unread(u)
           \/ page[u].status = "clean" => page[u].compiled = Current(u)
        /\ \A b \in Agents : CompilesAt(b, "read") /\ Target(b) = u =>
              \/ Crossed(b) \/ Unread(u) \/ u \in planner.marks
              \/ Reads(b) = Current(u)
              \/ u \in planner.read /\ page[u].status = "dirty"
    BY <2>1 DEF PlanStands
  <2>3. CASE Unread(u)' BY <2>3
  <2>4. CASE Current(u)' = Current(u) /\ (Unread(u) => Unread(u)') BY <1>3, <2>2, <2>4
  <2> QED BY <2>1, <2>3, <2>4
<1> QED BY <1>4, <1>5, <1>6 DEF ReadsStand, CleanStands, PlanStands

\* A change of a claim that queues no plan reaches only the pages of its cluster.
LEMMA OtherClusters ==
    ASSUME WikiTypeOK, NEW k \in Clusters, UNCHANGED topicOf, unplanned' = unplanned \cup {k},
           \A c \in Claims : claim'[c].cluster = claim[c].cluster,
           \A c \in Claims : claim[c].cluster # k => claim'[c] = claim[c]
    PROVE  \A t \in Topics : Unread(t)' \/ (Current(t)' = Current(t) /\ (Unread(t) => Unread(t)'))
<1> SUFFICES ASSUME NEW t \in Topics, ~Unread(t)'
             PROVE  Current(t)' = Current(t) /\ (Unread(t) => Unread(t)')
  OBVIOUS
<1>1. topicOf[k] # t BY DEF Unread, ClustersOf
<1>2. Unread(t) => Unread(t)' BY DEF Unread, ClustersOf
<1>3. \A c \in Claims : topicOf[claim'[c].cluster] = t \/ topicOf[claim[c].cluster] = t => claim'[c] = claim[c]
  BY <1>1
<1>4. Current(t)' = Current(t) BY <1>3 DEF Current, PageInputs
<1> QED BY <1>2, <1>4

\* One compile takes a step that writes no page.
LEMMA AgentMoves ==
    ASSUME WikiTypeOK, AgentsKnow, DirtyIsSeen, ReadsStand, CleanStands, PlanStands, NEW a \in Agents,
           UNCHANGED <<claim, topicOf, page, planner, unplanned, ensured, raced>>,
           wikiQueue'.plan = wikiQueue.plan,
           \A b \in Agents \ {a} : compiler'[b] = compiler[b],
           CompilesAt(a, "idle")' => Target(a)' = NoTopic,
           Going(a)' => Target(a)' \in Topics,
           Going(a)' /\ ~Crossed(a)' => Seen(a)' = page[Target(a)'],
           CompilesAt(a, "read")' => Reads(a)' = Current(Target(a)'),
           \A t \in Topics : t \in wikiQueue.compile \cup gaveUp =>
               \/ t \in wikiQueue'.compile \cup gaveUp'
               \/ CompilesOn(a, t)' /\ ~Crossed(a)',
           \A t \in Topics : CompilesOn(a, t) =>
               \/ t \in wikiQueue'.compile \cup gaveUp'
               \/ CompilesOn(a, t)' /\ Seen(a)' = Seen(a) /\ Crossed(a)' = Crossed(a)
               \/ /\ Seen(a).status = "clean"
                  /\ \/ Crossed(a)
                     \/ page[t].status = "clean" /\ page[t].compiled # Current(t) =>
                            Excused(t) \/ t \in raced
    PROVE  AgentsKnow' /\ DirtyIsSeen' /\ ReadsStand' /\ CleanStands' /\ PlanStands'
<1>1. \A b \in Agents \ {a} :
          /\ \A t : CompilesOn(b, t)' <=> CompilesOn(b, t)
          /\ (CompilesAt(b, "idle")' <=> CompilesAt(b, "idle")) /\ (CompilesAt(b, "read")' <=> CompilesAt(b, "read"))
          /\ (Going(b)' <=> Going(b)) /\ Target(b)' = Target(b) /\ Seen(b)' = Seen(b) /\ Reads(b)' = Reads(b)
          /\ (Crossed(b)' <=> Crossed(b))
  BY DEF CompilesOn, CompilesAt, Going, Target, Seen, Reads, Crossed
<1>2. \A t : Current(t)' = Current(t) /\ (Unread(t)' <=> Unread(t)) /\ (Excused(t)' <=> Excused(t))
  BY DEF Current, PageInputs, Unread, ClustersOf, Excused, PlanPending
<1>3. Compilers \subseteq Agents BY DEF Agents
<1>4. AgentsKnow' BY <1>1 DEF AgentsKnow
<1>5. ASSUME NEW u \in Topics, page[u].status = "dirty", u \in wikiQueue.compile \cup gaveUp
      PROVE  u \in wikiQueue'.compile \cup gaveUp' \/ (CompilesOn(a, u) /\ Seen(a).status = "dirty")'
  <2>1. CASE CompilesOn(a, u)' /\ ~Crossed(a)' BY <1>5, <2>1 DEF CompilesOn
  <2> QED BY <1>5, <2>1
<1>6. ASSUME NEW u \in Topics, NEW w \in Compilers, CompilesOn(w, u), Seen(w).status = "dirty"
      PROVE  u \in wikiQueue'.compile \cup gaveUp' \/ (CompilesOn(w, u) /\ Seen(w).status = "dirty")'
  <2>1. CASE w = a BY <1>6, <2>1
  <2>2. CASE w # a BY <1>1, <1>3, <1>6, <2>2
  <2> QED BY <2>1, <2>2
<1>12. a \in Compilers \/ \A u : ~CompilesOn(a, u)' BY DEF CompilesOn
<1>7. DirtyIsSeen'
  <2> SUFFICES ASSUME NEW u \in Topics, page'[u].status = "dirty"
               PROVE  \/ u \in wikiQueue'.compile \cup gaveUp'
                      \/ \E w \in Compilers : (CompilesOn(w, u) /\ Seen(w).status = "dirty")'
    BY DEF DirtyIsSeen
  <2>1. u \in wikiQueue.compile \cup gaveUp \/ \E w \in Compilers : CompilesOn(w, u) /\ Seen(w).status = "dirty"
    BY DEF DirtyIsSeen
  <2> QED BY <1>5, <1>6, <1>12, <2>1
<1>8. ASSUME NEW b \in Agents, CompilesAt(b, "read")', Reads(b)' # Current(Target(b))'
      PROVE  StaleRead(b)'
  <2>1. b # a BY <1>2, <1>8
  <2>2. CompilesAt(b, "read") /\ Target(b)' = Target(b) /\ Reads(b) # Current(Target(b)) /\ Target(b) \in Topics
    BY <1>1, <1>2, <1>8, <2>1 DEF AgentsKnow, Going, CompilesAt
  <2>3. StaleRead(b) BY <2>2 DEF ReadsStand
  <2>4. CASE Crossed(b) BY <1>1, <2>1, <2>4 DEF StaleRead
  <2>5. CASE Excused(Target(b)) BY <1>2, <2>2, <2>5 DEF StaleRead
  <2>6. CASE page[Target(b)].status = "dirty" /\ Target(b) \in wikiQueue.compile \cup gaveUp
    <3>1. \/ Target(b) \in wikiQueue'.compile \cup gaveUp'
          \/ CompilesOn(a, Target(b))' /\ (Seen(a).status = "dirty")'
      <4> DEFINE u == Target(b)
      <4>1. u \in Topics BY <2>2
      <4>2. \A v \in Topics : v = u =>
               v \in wikiQueue'.compile \cup gaveUp' \/ (CompilesOn(a, v) /\ Seen(a).status = "dirty")'
        BY <1>5, <2>6
      <4> QED BY <2>2, <4>1, <4>2
    <3> QED BY <1>12, <2>1, <2>2, <2>6, <3>1 DEF StaleRead
  <2>7. ASSUME page[Target(b)].status = "dirty", NEW w \in Compilers \ {b}, CompilesOn(w, Target(b)), Seen(w).status = "dirty"
        PROVE  StaleRead(b)'
    BY <1>6, <2>2, <2>7 DEF StaleRead
  <2> QED BY <2>3, <2>4, <2>5, <2>6, <2>7 DEF StaleRead
<1>9. ASSUME NEW u \in Topics, page'[u].status = "clean", page'[u].compiled # Current(u)'
      PROVE  \/ Excused(u)'
             \/ u \in raced' \cup wikiQueue'.compile \cup gaveUp'
             \/ \E w \in Compilers : (CompilesOn(w, u) /\ (~Crossed(w) \/ Seen(w).status # "clean"))'
  <2>1. page[u].status = "clean" /\ page[u].compiled # Current(u) BY <1>2, <1>9
  <2>2. CASE Excused(u) \/ u \in raced BY <1>2, <2>2
  <2>3. CASE u \in wikiQueue.compile \cup gaveUp BY <1>12, <2>3
  <2>4. ASSUME NEW w \in Compilers, CompilesOn(w, u), ~Crossed(w) \/ Seen(w).status # "clean"
        PROVE  \/ Excused(u)'
               \/ u \in raced' \cup wikiQueue'.compile \cup gaveUp'
               \/ (CompilesOn(w, u) /\ (~Crossed(w) \/ Seen(w).status # "clean"))'
    <3>1. CASE w = a BY <1>2, <2>1, <2>4, <3>1
    <3>2. CASE w # a BY <1>1, <1>3, <2>4, <3>2
    <3> QED BY <3>1, <3>2
  <2> QED BY <2>1, <2>2, <2>3, <2>4 DEF CleanStands
<1>10. ASSUME planner'.at = "decided", NEW u \in Compared'
      PROVE  /\ \/ u \in planner'.marks \cup planner'.read \cup raced'
                \/ Unread(u)'
                \/ page'[u].status = "clean" => page'[u].compiled = Current(u)'
             /\ \A b \in Agents : CompilesAt(b, "read")' /\ Target(b)' = u =>
                   \/ Crossed(b)' \/ Unread(u)' \/ u \in planner'.marks
                   \/ Reads(b)' = Current(u)'
                   \/ u \in planner'.read /\ page'[u].status = "dirty"
  <2>1. planner.at = "decided" /\ u \in Compared /\ u \in Topics
    BY <1>10 DEF Compared, ClustersOf, WikiTypeOK
  <2>2. /\ \/ u \in planner.marks \cup planner.read \cup raced
           \/ Unread(u)
           \/ page[u].status = "clean" => page[u].compiled = Current(u)
        /\ \A b \in Agents : CompilesAt(b, "read") /\ Target(b) = u =>
              \/ Crossed(b) \/ Unread(u) \/ u \in planner.marks
              \/ Reads(b) = Current(u)
              \/ u \in planner.read /\ page[u].status = "dirty"
    BY <2>1 DEF PlanStands
  <2>3. ASSUME NEW b \in Agents, CompilesAt(b, "read")', Target(b)' = u
        PROVE  \/ Crossed(b)' \/ Unread(u)' \/ u \in planner'.marks
               \/ Reads(b)' = Current(u)'
               \/ u \in planner'.read /\ page'[u].status = "dirty"
    <3>1. CASE b = a BY <1>2, <2>3, <3>1
    <3>2. CASE b # a BY <1>1, <1>2, <2>2, <2>3, <3>2
    <3> QED BY <3>1, <3>2
  <2> QED BY <1>2, <2>2, <2>3
<1> QED BY <1>4, <1>7, <1>8, <1>9, <1>10 DEF ReadsStand, CleanStands, PlanStands

\* A claim that moves queues a plan, or is remembered as unplanned.
LEMMA ClaimsKeep ==
    ASSUME WikiInv
    PROVE  /\ \A c \in Claims : ExtractClaim(c) => WikiInv'
           /\ \A c, d \in Claims : ChangeRelation(c, d) => WikiInv'
           /\ \A c \in Claims, as \in {"superseded", "retracted"} : RetireClaim(c, as) => WikiInv'
           /\ (ChangeModel => WikiInv')
           /\ (AskPlan => WikiInv')
           /\ (PlanFault => WikiInv')
<1> USE DEF WikiInv
<1>0. wikiQueue \in [plan : BOOLEAN, compile : SUBSET Topics] /\ claim \in [Claims -> WikiClaim]
  BY DEF WikiTypeOK
<1>1. ASSUME NEW c \in Claims, ExtractClaim(c) PROVE WikiInv'
  BY <1>0, <1>1, ClaimsKeepType, PagesStay, NobodyMoves, PendingExcuses DEF ExtractClaim,
     wikiHistory, PlanPending
<1>2. ASSUME NEW c \in Claims, NEW d \in Claims, ChangeRelation(c, d) PROVE WikiInv'
  BY <1>0, <1>2, OtherClusters, ClaimsKeepType, PagesStay, NobodyMoves, InputsMove DEF
     ChangeRelation, WikiClaim
<1>3. ASSUME NEW c \in Claims, NEW as \in {"superseded", "retracted"}, RetireClaim(c, as) PROVE WikiInv'
  BY <1>0, <1>3, OtherClusters, ClaimsKeepType, PagesStay, NobodyMoves, InputsMove DEF
     RetireClaim, WikiClaim
<1>4. ASSUME UNCHANGED <<claim, page, revisions, raced, setBack, compiler, gaveUp, planner, topicOf, ensured, unplanned>>,
             wikiQueue'.compile = wikiQueue.compile, wikiQueue.plan => wikiQueue'.plan, WikiTypeOK'
      PROVE  WikiInv'
  BY <1>4, PagesStay, NobodyMoves, InputsMove DEF Unread, Current, PageInputs, ClustersOf
<1>5. ASSUME ChangeModel PROVE WikiInv'
  <2> QED BY <1>4, <1>5, ClaimsKeepType DEF ChangeModel, wikiHistory
<1>6. ASSUME AskPlan PROVE WikiInv' BY <1>0, <1>4, <1>6, ClaimsKeepType DEF AskPlan, wikiHistory
<1>7. ASSUME PlanFault PROVE WikiInv'
  BY <1>0, <1>7, PlansKeepType, PagesStay, NobodyMoves, PendingExcuses DEF PlanFault,
     wikiHistory, PlanPending, NotPlanning
<1> QED BY <1>1, <1>2, <1>3, <1>5, <1>6, <1>7

\* A compile that writes a page leaves it clean and current, or remembered.
LEMMA WritesKeep ==
    ASSUME WikiInv, NEW a \in Agents, Writes(a) PROVE WikiInv'
BY WritesKeepType, WritesKeepBodies, WritesKeepAgents, WritesKeepReads DEF WikiInv

\* Of a step that gives up, defers or skips: what the compile leaves behind.
LEMMA AgentRests ==
    ASSUME WikiInv, NEW a \in Agents, CompileRest(a), WikiTypeOK',
           UNCHANGED <<claim, topicOf, page, revisions, planner, unplanned, ensured, raced, setBack>>,
           wikiQueue'.plan = wikiQueue.plan,
           wikiQueue.compile \cup gaveUp \subseteq wikiQueue'.compile \cup gaveUp',
           \A t \in Topics : CompilesOn(a, t) =>
               \/ t \in wikiQueue'.compile \cup gaveUp'
               \/ /\ Seen(a).status = "clean"
                  /\ \/ Crossed(a)
                     \/ page[t].status = "clean" /\ page[t].compiled # Current(t) =>
                            Excused(t) \/ t \in raced
    PROVE  WikiInv'
<1>1. compiler'[a] = NotCompiling /\ \A b \in Agents \ {a} : compiler'[b] = compiler[b]
  BY RestKeeps DEF WikiInv
<1>2. NotCompiling.at = "idle" /\ NotCompiling.page = NoTopic BY DEF NotCompiling
<1>3. CompilesAt(a, "idle")' /\ ~CompilesAt(a, "read")' /\ ~Going(a)' /\ Target(a)' = NoTopic
  BY <1>1, <1>2 DEF CompilesAt, Going, Target
<1>4. AgentsKnow' /\ DirtyIsSeen' /\ ReadsStand' /\ CleanStands' /\ PlanStands'
  BY <1>1, <1>3, AgentMoves DEF WikiInv
<1>5. RevisionsTellTheBody' /\ CitesItsClaims' /\ HashTellsInputs' BY PagesStay DEF WikiInv
<1> QED BY <1>4, <1>5 DEF WikiInv

\* A compile that begins or reads leaves every page as it was.
LEMMA CompilesKeep ==
    ASSUME WikiInv, NEW a \in Agents
    PROVE  /\ (a \in Compilers => \A t \in Topics : LoadPage(a, t) => WikiInv')
           /\ (a \in Compilers /\ (DeferCompile(a) \/ ReadInputs(a) \/ CompileLost(a)) => WikiInv')
           /\ \A t \in Topics : ForceCompile(t) => WikiInv'
           /\ SkipCompile(a) \/ CompileRefused(a) => WikiInv'
<1>0. WikiTypeOK /\ AgentsKnow BY DEF WikiInv
<1>c. compiler \in [Agents -> CompilerState] BY <1>0, CompilersAre
<1>q. wikiQueue \in [plan : BOOLEAN, compile : SUBSET Topics] BY <1>0 DEF WikiTypeOK
<1>t. Going(a) => Target(a) \in Topics BY <1>0 DEF AgentsKnow
<1>1. ASSUME a \in Compilers, NEW t \in Topics, LoadPage(a, t) PROVE WikiInv'
  <2> DEFINE c == [NotCompiling EXCEPT !.at = "loaded", !.page = t, !.seen = page[t]]
  <2>1. c.at = "loaded" /\ c.page = t /\ c.seen = page[t] /\ c.crossed = FALSE BY DEF NotCompiling
  <2>2. compiler' = [compiler EXCEPT ![a] = c] /\ compiler[a].at = "idle" BY <1>1 DEF LoadPage, CompilesAt
  <2> HIDE DEF c
  <2>3. compiler'[a] = c /\ \A b \in Agents \ {a} : compiler'[b] = compiler[b] BY <1>c, <2>2
  <2>4. wikiQueue' = [wikiQueue EXCEPT !.compile = wikiQueue.compile \ {t}] BY <1>1 DEF LoadPage
  <2>5. wikiQueue'.plan = wikiQueue.plan /\ wikiQueue'.compile = wikiQueue.compile \ {t} BY <1>q, <2>4
  <2>6. UNCHANGED <<claim, topicOf, page, revisions, planner, unplanned, ensured, raced, setBack, gaveUp>>
    BY <1>1 DEF LoadPage, wikiHistory
  <2>7. ~CompilesAt(a, "idle")' /\ ~CompilesAt(a, "read")' /\ Target(a)' = t /\ Seen(a)' = page[t] /\ ~Crossed(a)'
    BY <2>1, <2>3 DEF CompilesAt, Target, Seen, Crossed
  <2>8. CompilesOn(a, t)' BY <1>1, <2>7 DEF CompilesOn, Going
  <2>9. \A u : ~CompilesOn(a, u) BY <2>2 DEF CompilesOn, Going, CompilesAt
  <2>10. \A u \in Topics : u \in wikiQueue.compile \cup gaveUp =>
             \/ u \in wikiQueue'.compile \cup gaveUp'
             \/ CompilesOn(a, u)' /\ ~Crossed(a)'
    BY <2>5, <2>6, <2>7, <2>8
  <2>11. AgentsKnow' /\ DirtyIsSeen' /\ ReadsStand' /\ CleanStands' /\ PlanStands'
    BY <2>3, <2>5, <2>6, <2>7, <2>9, <2>10, AgentMoves DEF WikiInv
  <2> QED BY <1>0, <1>1, <2>6, <2>11, CompilesKeepType, PagesStay DEF WikiInv
<1>2. ASSUME a \in Compilers, DeferCompile(a) PROVE WikiInv'
  BY <1>0, <1>2, <1>q, CompilesKeepType, AgentRests DEF DeferCompile, wikiHistory, CompilesOn
<1>3. ASSUME a \in Compilers, ReadInputs(a) PROVE WikiInv'
  <2> DEFINE i == PageInputs(Target(a), topicOf)
  <2>1. compiler' = [[compiler EXCEPT ![a].at = "read"] EXCEPT ![a].inputs = i] /\ compiler[a].at = "loaded"
    BY <1>3 DEF ReadInputs, CompilesAt
  <2> HIDE DEF i
  <2>2. compiler[a] \in CompilerState BY <1>c
  <2>3. compiler'[a].at = "read" /\ compiler'[a].inputs = i /\ compiler'[a].page = compiler[a].page
        /\ compiler'[a].seen = compiler[a].seen /\ compiler'[a].crossed = compiler[a].crossed
        /\ \A b \in Agents \ {a} : compiler'[b] = compiler[b]
    BY <1>c, <2>1, <2>2 DEF CompilerState
  <2>4. UNCHANGED <<claim, topicOf, page, revisions, planner, unplanned, ensured, raced, setBack, gaveUp, wikiQueue>>
    BY <1>3 DEF ReadInputs, wikiHistory
  <2>5. /\ ~CompilesAt(a, "idle")' /\ Target(a)' = Target(a) /\ Seen(a)' = Seen(a) /\ Crossed(a)' = Crossed(a)
        /\ Reads(a)' = i /\ Going(a) /\ Going(a)'
    BY <2>1, <2>3 DEF CompilesAt, Target, Seen, Crossed, Reads, Going
  <2>6. Reads(a)' = Current(Target(a)') BY <2>4, <2>5 DEF i, Current, PageInputs
  <2>7. Target(a) \in Topics /\ (~Crossed(a) => Seen(a) = page[Target(a)]) BY <1>0, <2>5 DEF AgentsKnow
  <2>8. \A u : CompilesOn(a, u) => CompilesOn(a, u)' BY <2>5 DEF CompilesOn
  <2>9. AgentsKnow' /\ DirtyIsSeen' /\ ReadsStand' /\ CleanStands' /\ PlanStands'
    BY <2>3, <2>4, <2>5, <2>6, <2>7, <2>8, AgentMoves DEF WikiInv
  <2> QED BY <1>0, <1>3, <2>4, <2>9, CompilesKeepType, PagesStay DEF WikiInv
<1>4. ASSUME a \in Compilers, CompileLost(a) PROVE WikiInv'
  BY <1>0, <1>4, <1>q, CompilesKeepType, AgentRests DEF CompileLost, CompilesOn
<1>5. ASSUME NEW t \in Topics, ForceCompile(t) PROVE WikiInv'
  <2> DEFINE i == PageInputs(t, topicOf)
             c == [at |-> "read", page |-> t, seen |-> page[t], inputs |-> i, crossed |-> FALSE]
  <2>1. compiler' = [compiler EXCEPT ![Http] = c] /\ Http \in Agents BY <1>5 DEF ForceCompile, Agents
  <2>2. c.at = "read" /\ c.page = t /\ c.seen = page[t] /\ c.inputs = i /\ c.crossed = FALSE OBVIOUS
  <2> HIDE DEF c, i
  <2>3. compiler'[Http] = c /\ \A b \in Agents \ {Http} : compiler'[b] = compiler[b] BY <1>c, <2>1
  <2>4. UNCHANGED <<claim, topicOf, page, revisions, planner, unplanned, ensured, raced, setBack, gaveUp, wikiQueue>>
    BY <1>5 DEF ForceCompile, wikiHistory
  <2>5. /\ ~CompilesAt(Http, "idle")' /\ Target(Http)' = t /\ Seen(Http)' = page[t] /\ ~Crossed(Http)'
        /\ Reads(Http)' = i
    BY <2>2, <2>3 DEF CompilesAt, Target, Seen, Crossed, Reads
  <2>6. Reads(Http)' = Current(Target(Http)') BY <2>4, <2>5 DEF i, Current, PageInputs
  <2>7. \A u : ~CompilesOn(Http, u) BY WikiAssumption DEF CompilesOn
  <2>8. AgentsKnow' /\ DirtyIsSeen' /\ ReadsStand' /\ CleanStands' /\ PlanStands'
    BY <2>1, <2>3, <2>4, <2>5, <2>6, <2>7, AgentMoves DEF WikiInv
  <2> QED BY <1>0, <1>5, <2>4, <2>8, CompilesKeepType, PagesStay DEF WikiInv
<1>6. ASSUME SkipCompile(a) PROVE WikiInv'
  <2>1. CompileRest(a) /\ CompilesAt(a, "read")
        /\ UNCHANGED <<claim, topicOf, page, revisions, planner, unplanned, ensured, raced, setBack, gaveUp, wikiQueue>>
        /\ Digest(a) = Seen(a).hash /\ Seen(a).status = "clean"
    BY <1>6 DEF SkipCompile, wikiHistory, UpToDate
  <2>2. Seen(a).hash.of = Reads(a) BY <2>1 DEF Digest
  <2>3. ASSUME NEW t \in Topics, CompilesOn(a, t), ~Crossed(a), page[t].compiled # Current(t), page[t].status = "clean"
        PROVE  Excused(t) \/ t \in raced
    <3>1. t = Target(a) /\ Seen(a) = page[t] BY <1>0, <2>3 DEF CompilesOn, AgentsKnow
    <3>2. page[t].compiled = Reads(a) \/ t \in raced BY <2>2, <3>1 DEF WikiInv, HashTellsInputs
    <3>3. CASE page[t].compiled = Reads(a)
      BY <2>1, <2>3, <3>1, <3>3 DEF WikiInv, ReadsStand, StaleRead
    <3> QED BY <3>2, <3>3
  <2> QED BY <1>0, <1>6, <2>1, <2>3, CompilesKeepType, AgentRests
<1>7. ASSUME CompileRefused(a) PROVE WikiInv'
  <2> DEFINE back == {Target(a)} \cap IF a = Http THEN {} ELSE Topics
  <2>1. CompileRest(a) /\ UNCHANGED <<claim, topicOf, page, revisions, planner, unplanned, ensured, raced, setBack, gaveUp>>
        /\ wikiQueue' = [wikiQueue EXCEPT !.compile = wikiQueue.compile \cup back]
    BY <1>7 DEF CompileRefused, wikiHistory
  <2>2. \A t \in Topics : CompilesOn(a, t) => t \in back BY WikiAssumption DEF CompilesOn
  <2> HIDE DEF back
  <2>3. wikiQueue'.plan = wikiQueue.plan /\ wikiQueue'.compile = wikiQueue.compile \cup back BY <1>q, <2>1
  <2> QED BY <1>0, <1>7, <2>1, <2>2, <2>3, CompilesKeepType, AgentRests
<1> QED BY <1>1, <1>2, <1>3, <1>4, <1>5, <1>6, <1>7

\* A plan that assigns nothing changes no page.
LEMMA AssignNothing ==
    ASSUME WikiTypeOK, NEW f PROVE Assign(f, {}) = topicOf
BY DEF Assign, WikiTypeOK

\* A page the plan compares and does not mark is compiled from what it holds now.
LEMMA UnmovedIsCurrent ==
    ASSUME WikiTypeOK, NEW f \in Picks, NEW G \in DOMAIN f, ~Moved(f, f[G])
    PROVE  page[f[G]].hash.of = Current(f[G])
BY AssignNothing DEF Visible, Moved, PlanHash, Current

\* A plan decides to mark every page it compares whose claims moved.
LEMMA PlanReadKeeps ==
    ASSUME WikiInv, PlanRead PROVE WikiInv'
<1>0. WikiTypeOK /\ AgentsKnow BY DEF WikiInv
<1>1. PICK f \in Picks :
       LET covered == {f[G] : G \in DOMAIN f}
           moved == {t \in covered : Exists(t) /\ Moved(f, t)} IN
       /\ planner' = [at |-> "decided", assigned |-> Assign(f, DOMAIN f),
                      marks |-> moved \ Dirty(page), read |-> moved \cap Dirty(page),
                      made |-> Makes(f), covered |-> covered]
       /\ compiler' = [a \in Agents |->
            IF compiler[a].at = "read" /\ compiler[a].page \in covered \ moved
            THEN [compiler[a] EXCEPT !.crossed = TRUE] ELSE compiler[a]]
  BY DEF PlanRead
<1> DEFINE covered == {f[G] : G \in DOMAIN f}
           moved == {t \in covered : Exists(t) /\ Moved(f, t)}
<1>2. f \in [{G \in Groups : Substantial(G)} -> Topics] BY DEF Picks
<1>3. covered \subseteq Topics BY <1>2
<1>4. /\ planner'.at = "decided" /\ planner'.marks = moved \ Dirty(page) /\ planner'.read = moved \cap Dirty(page)
      /\ planner'.made = Makes(f) /\ planner'.covered = covered
  BY <1>1
<1>5. /\ UNCHANGED <<claim, topicOf, page, revisions, gaveUp, ensured, raced, setBack>>
      /\ wikiQueue' = [wikiQueue EXCEPT !.plan = FALSE]
  BY DEF PlanRead
<1>6. wikiQueue'.compile = wikiQueue.compile BY <1>0, <1>5 DEF WikiTypeOK
<1>13. \A t : t \in covered /\ t \notin Makes(f) => Exists(t) BY <1>3 DEF Makes
<1>14. \A t \in covered \ moved : Exists(t) => page[t].hash.of = Current(t)
  BY <1>0, UnmovedIsCurrent
<1>15. \A t \in moved : t \in Dirty(page) <=> page[t].status = "dirty" BY <1>3 DEF Dirty
<1> HIDE DEF covered, moved
<1>7. \A b \in Agents : compiler[b] \in CompilerState BY <1>0, CompilersAre
<1>8. ASSUME NEW b \in Agents
      PROVE  /\ compiler'[b].at = compiler[b].at /\ compiler'[b].page = compiler[b].page
             /\ compiler'[b].seen = compiler[b].seen /\ compiler'[b].inputs = compiler[b].inputs
             /\ compiler[b].crossed => compiler'[b].crossed
             /\ compiler[b].at = "read" /\ compiler[b].page \in covered \ moved => compiler'[b].crossed
  <2>1. CASE compiler[b].at = "read" /\ compiler[b].page \in covered \ moved
    BY <1>1, <1>7, <2>1, CrossedState DEF covered, moved
  <2>2. CASE ~(compiler[b].at = "read" /\ compiler[b].page \in covered \ moved)
    BY <1>1, <2>2 DEF covered, moved
  <2> QED BY <2>1, <2>2
<1>9. \A b \in Agents :
          /\ \A t : CompilesOn(b, t)' <=> CompilesOn(b, t)
          /\ (CompilesAt(b, "idle")' <=> CompilesAt(b, "idle")) /\ (CompilesAt(b, "read")' <=> CompilesAt(b, "read"))
          /\ (Going(b)' <=> Going(b)) /\ Target(b)' = Target(b) /\ Seen(b)' = Seen(b) /\ Reads(b)' = Reads(b)
          /\ (Crossed(b) => Crossed(b)')
          /\ (CompilesAt(b, "read") /\ Target(b) \in covered \ moved => Crossed(b)')
  BY <1>8 DEF CompilesOn, CompilesAt, Going, Target, Seen, Reads, Crossed
<1>10. AgentsKnow' BY <1>0, <1>5, <1>9 DEF AgentsKnow
<1>11. DirtyIsSeen' BY <1>5, <1>6, <1>9 DEF WikiInv, DirtyIsSeen, Agents
<1>12. ReadsStand' /\ CleanStands'
  BY <1>4 DEF PlanPending, Excused, ReadsStand, CleanStands, StaleRead
<1>16. PlanStands'
  <2> SUFFICES ASSUME NEW u \in Compared'
      PROVE  /\ \/ u \in planner'.marks \cup planner'.read \cup raced'
                \/ Unread(u)'
                \/ page'[u].status = "clean" => page'[u].compiled = Current(u)'
             /\ \A b \in Agents : CompilesAt(b, "read")' /\ Target(b)' = u =>
                   \/ Crossed(b)' \/ Unread(u)' \/ u \in planner'.marks
                   \/ Reads(b)' = Current(u)'
                   \/ u \in planner'.read /\ page'[u].status = "dirty"
    BY DEF PlanStands
  <2>1. u \in covered /\ u \notin Makes(f) /\ u \in Topics BY <1>3, <1>4 DEF Compared
  <2>2. Current(u)' = Current(u) BY <1>5 DEF Current, PageInputs
  <2>3. CASE u \in moved BY <1>4, <1>5, <1>15, <2>3
  <2>4. CASE u \notin moved
    BY <1>5, <1>9, <1>13, <1>14, <2>1, <2>2, <2>4 DEF WikiInv, HashTellsInputs
  <2> QED BY <2>3, <2>4
<1>17. RevisionsTellTheBody' /\ CitesItsClaims' /\ HashTellsInputs' BY <1>5, PagesStay DEF WikiInv
<1>18. WikiTypeOK' BY <1>0, PlansKeepType
<1> QED BY <1>10, <1>11, <1>12, <1>16, <1>17, <1>18 DEF WikiInv

\* A plan's commit dirties and queues the pages it decided to mark.
LEMMA PlanCommitKeeps ==
    ASSUME WikiInv, PlanCommit PROVE WikiInv'
<1>0. WikiTypeOK /\ AgentsKnow BY DEF WikiInv
<1>1. planner \in PlannerState BY <1>0, TypeSplits DEF TypesOf
<1>2. /\ planner.marks \subseteq Topics /\ planner.made \subseteq Topics /\ planner.covered \subseteq Topics
      /\ planner.assigned \in [Clusters -> Topics \cup {NoTopic}] /\ planner.at = "decided"
  BY <1>1 DEF PlannerState, PlanCommit
<1>3. /\ topicOf' = planner.assigned
      /\ UNCHANGED <<claim, revisions, unplanned, setBack>>
      /\ wikiQueue' = [wikiQueue EXCEPT !.compile = wikiQueue.compile \cup QueuedByPlan(page')]
      /\ gaveUp' = gaveUp \ QueuedByPlan(page')
      /\ ensured' = {t \in planner.covered : ClustersOf(t, topicOf) = ClustersOf(t, planner.assigned)
                                         \/ t \in planner.made}
      /\ raced' = raced \cup (planner.read \ Dirty(page'))
      /\ planner'.at = "idle"
      /\ compiler' = Crossing(planner.made \cup planner.marks)
  BY DEF PlanCommit
<1>4. ASSUME NEW t \in Topics
      PROVE  /\ t \in planner.made => page'[t].status = "dirty" /\ page'[t].body = {} /\ page'[t].hash.of = page'[t].compiled
             /\ t \notin planner.made => /\ page'[t].hash = page[t].hash /\ page'[t].compiled = page[t].compiled
                                         /\ page'[t].body = page[t].body /\ page'[t].revision = page[t].revision
             /\ t \notin planner.made /\ t \in planner.marks => page'[t].status = "dirty"
             /\ t \notin planner.made \cup planner.marks => page'[t] = page[t]
  <2>1. page'[t] = IF t \in planner.made THEN [NoPage EXCEPT !.status = "dirty"]
                   ELSE IF t \in planner.marks THEN [page[t] EXCEPT !.status = "dirty"] ELSE page[t]
    BY DEF PlanCommit
  <2>2. LET p == [NoPage EXCEPT !.status = "dirty"] IN p.status = "dirty" /\ p.body = {} /\ p.hash.of = p.compiled
    BY DEF NoPage, NoHash
  <2>3. LET p == [page[t] EXCEPT !.status = "dirty"] IN
        p.status = "dirty" /\ p.hash = page[t].hash /\ p.compiled = page[t].compiled /\ p.body = page[t].body
        /\ p.revision = page[t].revision
    BY <1>0 DEF WikiTypeOK, Page
  <2> QED BY <2>1, <2>2, <2>3
<1>5. QueuedByPlan(page') = {t \in Topics : page'[t].status = "dirty"} /\ Dirty(page') = {t \in Topics : page'[t].status = "dirty"}
  BY DEF QueuedByPlan, Dirty
<1>6. wikiQueue'.compile = wikiQueue.compile \cup QueuedByPlan(page') BY <1>0, <1>3 DEF WikiTypeOK
<1>7. \A t \in Topics : page'[t].status = "dirty" => t \in wikiQueue'.compile BY <1>5, <1>6
<1>8. \A b \in Agents :
          /\ \A t : CompilesOn(b, t)' <=> CompilesOn(b, t)
          /\ (CompilesAt(b, "idle")' <=> CompilesAt(b, "idle")) /\ (CompilesAt(b, "read")' <=> CompilesAt(b, "read"))
          /\ (Going(b)' <=> Going(b)) /\ Target(b)' = Target(b) /\ Seen(b)' = Seen(b) /\ Reads(b)' = Reads(b)
          /\ (Crossed(b)' <=> Crossed(b) \/ Target(b) \in planner.made \cup planner.marks)
  BY <1>0, <1>3, CrossingKeeps DEF CompilesOn, CompilesAt, Going, Target, Seen, Reads, Crossed
<1>9. AgentsKnow' BY <1>0, <1>4, <1>8 DEF AgentsKnow
<1>10. DirtyIsSeen' BY <1>7 DEF DirtyIsSeen
<1>11. \A t : t \in raced => t \in raced' BY <1>3
<1>12. RevisionsTellTheBody' BY <1>3, <1>4 DEF WikiInv, RevisionsTellTheBody
<1>13. CitesItsClaims' BY <1>4, <1>11 DEF WikiInv, CitesItsClaims
<1>14. HashTellsInputs' BY <1>4, <1>11 DEF WikiInv, HashTellsInputs
<1>15. ASSUME NEW t \in Topics, t \in ensured', ~Unread(t)', t \notin wikiQueue'.compile
       PROVE  /\ t \in Compared /\ ~Unread(t) /\ t \notin planner.made /\ t \notin planner.marks
              /\ page'[t] = page[t] /\ page[t].status # "dirty"
              /\ Current(t)' = Current(t)
  <2>1. page'[t].status # "dirty" BY <1>7, <1>15
  <2>2. t \notin planner.made /\ t \notin planner.marks BY <1>4, <2>1
  <2>3. t \in Compared BY <1>3, <1>15, <2>2 DEF Compared
  <2>4. ClustersOf(t, topicOf)' = ClustersOf(t, topicOf) BY <1>3, <2>3 DEF Compared, ClustersOf
  <2>5. ~Unread(t) BY <1>3, <1>15, <2>4 DEF Unread
  <2>6. Current(t)' = Current(t)
    BY <1>0, <1>3, <2>4 DEF ClustersOf, WikiTypeOK, WikiClaim, Current, PageInputs
  <2> QED BY <1>4, <2>1, <2>2, <2>3, <2>5, <2>6
<1>16. ASSUME NEW b \in Agents, CompilesAt(b, "read")', Reads(b)' # Current(Target(b))'
       PROVE  StaleRead(b)'
  <2>1. PICK t \in Topics : t = Target(b) /\ t = Target(b)' BY <1>0, <1>8, <1>16 DEF AgentsKnow, Going, CompilesAt
  <2>2. CASE page'[t].status = "dirty" BY <1>7, <2>1, <2>2 DEF StaleRead
  <2>3. CASE t \notin ensured' \/ Unread(t)' BY <2>1, <2>3 DEF StaleRead, Excused
  <2>4. ASSUME page'[t].status # "dirty", t \in ensured', ~Unread(t)', t \notin wikiQueue'.compile
        PROVE  StaleRead(b)'
    BY <1>2, <1>8, <1>15, <1>16, <2>1, <2>4 DEF WikiInv, PlanStands, StaleRead
  <2>5. CASE page'[t].status # "dirty" /\ t \in ensured' /\ ~Unread(t)' /\ t \in wikiQueue'.compile
    <3>1. t \notin planner.made /\ t \notin planner.marks BY <1>4, <2>5
    <3>3. ClustersOf(t, topicOf)' = ClustersOf(t, topicOf) /\ t \in Compared BY <1>3, <2>5, <3>1 DEF Compared, ClustersOf
    <3>4. ~Unread(t) BY <1>3, <2>5, <3>3 DEF Unread
    <3>5. Current(t)' = Current(t)
      BY <1>0, <1>3, <3>3 DEF ClustersOf, WikiTypeOK, WikiClaim, Current, PageInputs
    <3>6. page[t].status # "dirty" BY <1>4, <2>5, <3>1
    <3>7. Reads(b) # Current(t) BY <1>8, <1>16, <2>1, <3>5
    <3>8. Crossed(b) BY <1>2, <1>8, <1>16, <2>1, <3>1, <3>3, <3>4, <3>6, <3>7 DEF WikiInv, PlanStands
    <3> QED BY <1>8, <3>8 DEF StaleRead
  <2> QED BY <2>2, <2>3, <2>4, <2>5
<1>17. ASSUME NEW u \in Topics, page'[u].status = "clean", page'[u].compiled # Current(u)',
              u \notin wikiQueue'.compile, u \in ensured', ~Unread(u)'
       PROVE  u \in raced'
  BY <1>2, <1>3, <1>5, <1>15, <1>17 DEF WikiInv, PlanStands
<1>18. ReadsStand' BY <1>16 DEF ReadsStand
<1>19. CleanStands' BY <1>17 DEF CleanStands, Excused
<1>20. PlanStands' BY <1>3 DEF PlanStands
<1>21. WikiTypeOK' BY <1>0, PlansKeepType
<1> QED BY <1>9, <1>10, <1>12, <1>13, <1>14, <1>18, <1>19, <1>20, <1>21 DEF WikiInv

\* The invariant holds before the first plan.
LEMMA WikiStarts == WikiInit => WikiInv
<1> SUFFICES ASSUME WikiInit PROVE WikiInv OBVIOUS
<1>1. \A a \in Agents : compiler[a] = NotCompiling BY DEF WikiInit
<1>2. NotCompiling.at = "idle" /\ NotCompiling.page = NoTopic BY DEF NotCompiling
<1>3. \A a \in Agents : CompilesAt(a, "idle") /\ ~Going(a) /\ ~CompilesAt(a, "read") /\ Target(a) = NoTopic
  BY <1>1, <1>2 DEF CompilesAt, Going, Target
<1>4. \A t \in Topics : page[t] = NoPage BY DEF WikiInit
<1>5. NoPage.status = "absent" /\ NoPage.body = {} /\ NoPage.hash.of = {} /\ NoPage.compiled = {}
  BY DEF NoPage, NoHash
<1>6. planner.at = "idle" /\ revisions = [t \in Topics |-> {}] BY DEF WikiInit, NotPlanning
<1>7. WikiTypeOK
  <2>1. (CHOOSE k \in Clusters : TRUE) \in Clusters BY WikiAssumption
  <2>2. claim \in [Claims -> WikiClaim]
    <3> DEFINE k == CHOOSE x \in Clusters : TRUE
    <3>1. k \in Clusters BY <2>1
    <3>2. claim = [c \in Claims |-> [status |-> "absent", cluster |-> k, disputed |-> FALSE]] BY DEF WikiInit
    <3> HIDE DEF k
    <3> QED BY <3>1, <3>2 DEF WikiClaim
  <2>3. compiler \in [Agents -> CompilerState] BY EmptyPages DEF WikiInit
  <2>4. topicOf \in [Clusters -> Topics \cup {NoTopic}] BY DEF WikiInit
  <2>5. planner \in PlannerState BY <2>4 DEF WikiInit, NotPlanning, PlannerState
  <2>6. page \in [Topics -> Page] BY EmptyPages DEF WikiInit
  <2>7. wikiQueue \in [plan : BOOLEAN, compile : SUBSET Topics] /\ model \in Models /\ wikiLeft \in Nat
    BY WikiAssumption DEF WikiInit, Models
  <2>8. revisions \in [Topics -> SUBSET (Nat \X SUBSET Claims)] BY <1>6
  <2>9. alike \subseteq SUBSET Clusters /\ gaveUp \subseteq Topics /\ unplanned \subseteq Clusters
        /\ ensured \subseteq Topics /\ raced \subseteq Topics /\ setBack \subseteq Topics
    BY DEF WikiInit
  <2> QED BY <2>2, <2>3, <2>4, <2>5, <2>6, <2>7, <2>8, <2>9 DEF WikiTypeOK, PlannerState, CompilerState
<1>8. AgentsKnow BY <1>3 DEF AgentsKnow
<1>9. DirtyIsSeen /\ HashTellsInputs /\ CitesItsClaims /\ CleanStands
  BY <1>4, <1>5 DEF DirtyIsSeen, HashTellsInputs, CitesItsClaims, CleanStands
<1>10. RevisionsTellTheBody BY <1>4, <1>5, <1>6 DEF RevisionsTellTheBody
<1>11. ReadsStand BY <1>3 DEF ReadsStand
<1>12. PlanStands BY <1>6 DEF PlanStands
<1> QED BY <1>7, <1>8, <1>9, <1>10, <1>11, <1>12 DEF WikiInv

\* The invariant is inductive: one lemma per kind of step.
LEMMA WikiMoves == WikiInv /\ [WikiNext]_wikiVars => WikiInv'
<1> SUFFICES ASSUME WikiInv, [WikiNext]_wikiVars PROVE WikiInv' OBVIOUS
<1>1. ASSUME NEW c \in Claims, ExtractClaim(c) PROVE WikiInv' BY <1>1, ClaimsKeep
<1>2. ASSUME NEW c \in Claims, NEW d \in Claims, ChangeRelation(c, d) PROVE WikiInv' BY <1>2, ClaimsKeep
<1>3. ASSUME NEW c \in Claims, NEW as \in {"superseded", "retracted"}, RetireClaim(c, as) PROVE WikiInv'
  BY <1>3, ClaimsKeep
<1>4. CASE ChangeModel BY <1>4, ClaimsKeep
<1>5. CASE AskPlan BY <1>5, ClaimsKeep
<1>6. CASE PlanRead BY <1>6, PlanReadKeeps
<1>7. CASE PlanCommit BY <1>7, PlanCommitKeeps
<1>8. CASE PlanFault BY <1>8, ClaimsKeep
<1>9. Compilers \subseteq Agents BY DEF Agents
<1>10. ASSUME NEW w \in Compilers, NEW t \in Topics, LoadPage(w, t) PROVE WikiInv' BY <1>9, <1>10, CompilesKeep
<1>11. ASSUME NEW w \in Compilers, DeferCompile(w) \/ ReadInputs(w) \/ CompileLost(w) PROVE WikiInv'
  BY <1>9, <1>11, CompilesKeep
<1>12. ASSUME NEW t \in Topics, ForceCompile(t) PROVE WikiInv' BY <1>12, CompilesKeep DEF Agents
<1>13. ASSUME NEW a \in Agents, SkipCompile(a) \/ CompileRefused(a) PROVE WikiInv' BY <1>13, CompilesKeep
<1>14. ASSUME NEW a \in Agents, CompileEmpty(a) \/ CompileFails(a) \/ CompileCommit(a) PROVE WikiInv'
  BY <1>14, WritesKeep DEF Writes
<1>15. CASE UNCHANGED wikiVars
  <2>1. UNCHANGED <<claim, alike, topicOf, page, revisions, wikiQueue, planner, compiler,
            model, wikiLeft, gaveUp, unplanned, ensured, raced, setBack>>
    BY <1>15 DEF wikiVars
  <2>2. WikiTypeOK' BY <2>1 DEF WikiInv, WikiTypeOK
  <2>3. RevisionsTellTheBody' /\ CitesItsClaims' /\ HashTellsInputs' BY <2>1, PagesStay DEF WikiInv
  <2>4. AgentsKnow' /\ DirtyIsSeen' BY <2>1, NobodyMoves DEF WikiInv
  <2>5. \A t \in Topics : Unread(t)' \/ (Current(t)' = Current(t) /\ (Unread(t) => Unread(t)'))
    BY <2>1 DEF Unread, Current, PageInputs, ClustersOf
  <2>6. ReadsStand' /\ CleanStands' /\ PlanStands' BY <2>1, <2>5, InputsMove DEF WikiInv
  <2> QED BY <2>2, <2>3, <2>4, <2>6 DEF WikiInv
<1> QED BY <1>1, <1>2, <1>3, <1>4, <1>5, <1>6, <1>7, <1>8, <1>10, <1>11, <1>12, <1>13, <1>14, <1>15 DEF WikiNext

\* The invariant is stronger than what the wiki promises.
LEMMA WikiInvTells == WikiInv => WikiTypeOK /\ WikiTells
<1> SUFFICES ASSUME WikiInv PROVE WikiTypeOK /\ WikiTells OBVIOUS
<1>1. DirtyIsQueued BY DEF WikiInv, DirtyIsSeen, DirtyIsQueued, CompilingNow, CompilesOn, Going
<1>2. OnlyKnownStaleness
  BY DEF WikiInv, CleanStands, OnlyKnownStaleness, CompilingNow, CompilesOn, Going, Current, Excused, Unread
<1> QED BY <1>1, <1>2 DEF WikiInv, WikiTells

\* For any number of claims, clusters, topics and compilers, and any number of moves: a
\* dirty page has a job or a compile, a shown text is a stored revision and cites what its
\* page was compiled from, and a clean page is stale only in the ways the code leaves open.
THEOREM WikiStands == WikiSpec => []WikiHolds
<1>1. WikiInit => WikiInv BY WikiStarts
<1>2. WikiInv /\ [WikiNext]_wikiVars => WikiInv' BY WikiMoves
<1>3. WikiInv => WikiHolds BY WikiInvTells DEF WikiHolds
<1> QED BY <1>1, <1>2, <1>3, PTL DEF WikiSpec

-----------------------------------------------------------------------------
(* The timeline.                                                            *)

EventRec == [id : Nat, doc : TimelineDocs, at : Nat, observed : Nat]
ReadingRec == [axis : {"world", "observed"}, scope : TimelinesAsked \cup {EveryDoc},
               read : Seq(EventRec), first : SUBSET EventRec, arrived : SUBSET EventRec,
               removed : BOOLEAN, overtaken : BOOLEAN, open : BOOLEAN]

\* Events of which later ones have larger ids.
InOrderOfIds(events) ==
    /\ events \subseteq EventRec
    /\ \A e, f \in events : /\ e.id = f.id => e = f
                            /\ e.id < f.id => e.observed <= f.observed

TimelineTyped ==
    /\ InOrderOfIds(claimEvents \cup uncommitted) /\ IsFiniteSet(claimEvents)
    /\ \A e \in claimEvents \cup uncommitted : e.id <= idsDrawn /\ e.observed <= observing
    /\ idsDrawn \in Nat /\ observing \in Nat
    /\ reading \in ReadingRec

\* While nothing was removed: what was there at first and is not read has as many before
\* it as were read, and what was read has as many before it as when it was read, unless
\* an arrival precedes it.
Entries(events, q) == {e \in events : InScope(q.scope, q.axis, e)}
ReadWell(events, q) ==
    LET all == Entries(events, q) IN
    /\ q.first \subseteq all /\ \A i \in DOMAIN q.read : q.read[i] \in all
    /\ \A e \in q.first : e \in ToSet(q.read) \/ Len(q.read) <= ComesAfter(all, q.axis, e)
    /\ \A i \in DOMAIN q.read :
            (\A a \in q.arrived : ~Precedes(q.axis, a, q.read[i])) =>
                ComesAfter(all, q.axis, q.read[i]) = i - 1
    /\ q.axis = "observed" /\ ~q.overtaken =>
            \A i \in DOMAIN q.read : ComesAfter(all, q.axis, q.read[i]) = i - 1

TimelineInv ==
    /\ TimelineTyped
    /\ reading.open /\ ~reading.removed => ReadWell(claimEvents, reading)
    /\ NothingOldIsMissed
    /\ TwiceForAnArrival
    /\ ObservedOnce
\* The fields of a reader.
LEMMA ReadingFields ==
    ASSUME TimelineTyped
    PROVE  /\ reading.axis \in {"world", "observed"} /\ reading.read \in Seq(EventRec)
           /\ reading.first \subseteq EventRec /\ reading.arrived \subseteq EventRec
           /\ reading.removed \in BOOLEAN /\ reading.overtaken \in BOOLEAN /\ reading.open \in BOOLEAN
           /\ Len(reading.read) \in Nat /\ DOMAIN reading.read = 1..Len(reading.read)
BY DEF TimelineTyped, ReadingRec

\* Events are ordered by naturals.
LEMMA KeysAreNat ==
    ASSUME NEW axis, NEW e \in EventRec
    PROVE  KeyOf(axis, e) \in Nat /\ e.id \in Nat /\ e.observed \in Nat
BY DEF KeyOf, EventRec

\* The entries of a timeline are counted through by its order.
LEMMA EventsRanked ==
    ASSUME NEW events, InOrderOfIds(events), NEW axis, NEW S \in SUBSET events, IsFiniteSet(S)
    PROVE  /\ Cardinality(S) \in Nat
           /\ \A e \in S : /\ ComesAfter(S, axis, e) \in 0..(Cardinality(S) - 1)
                           /\ IsFiniteSet({f \in S : Precedes(axis, f, e)})
           /\ \A e, f \in S :
                Precedes(axis, e, f) <=> ComesAfter(S, axis, e) < ComesAfter(S, axis, f)
           /\ \A e, f \in S : ComesAfter(S, axis, e) = ComesAfter(S, axis, f) => e = f
           /\ \A n \in 1..Cardinality(S) : EntryAt(S, axis, n) \in S
                                           /\ ComesAfter(S, axis, EntryAt(S, axis, n)) = n - 1
<1> DEFINE R == {p \in S \X S : Precedes(axis, p[1], p[2])}
<1>1. \A e, f \in S : <<e, f>> \in R <=> Precedes(axis, e, f) OBVIOUS
<1>2. \A e \in S : KeyOf(axis, e) \in Nat /\ e.id \in Nat BY KeysAreNat DEF InOrderOfIds
<1>3. \A e, f \in S : e.id = f.id => e = f BY DEF InOrderOfIds
<1> HIDE DEF R
<1>4. StrictlyOrders(R, S)
  <2>1. \A e \in S : <<e, e>> \notin R BY <1>1, <1>2 DEF Precedes
  <2>2. \A e, f, g \in S : <<e, f>> \in R /\ <<f, g>> \in R => <<e, g>> \in R
    BY <1>1, <1>2 DEF Precedes
  <2>3. ASSUME NEW e \in S, NEW f \in S PROVE e = f \/ <<e, f>> \in R \/ <<f, e>> \in R
    <3> DEFINE k == KeyOf(axis, e)
               l == KeyOf(axis, f)
    <3>1. k \in Nat /\ l \in Nat /\ e.id \in Nat /\ f.id \in Nat BY <1>2
    <3>2. \/ k < l \/ l < k
          \/ (k = l /\ e.id < f.id) \/ (l = k /\ f.id < e.id) \/ e.id = f.id
      <4> HIDE DEF k, l
      <4> QED BY <3>1
    <3>3. Precedes(axis, e, f) \/ Precedes(axis, f, e) \/ e.id = f.id BY <3>2 DEF Precedes
    <3> QED BY <1>1, <1>3, <3>3
  <2> QED BY <2>1, <2>2, <2>3 DEF StrictlyOrders
<1>5. \A e \in S : Below(R, S, e) = {f \in S : Precedes(axis, f, e)} BY <1>1 DEF Below
<1>6. \A e \in S : Cardinality(Below(R, S, e)) = ComesAfter(S, axis, e) BY <1>5 DEF ComesAfter
<1>7. \A n \in 1..Cardinality(S) : \E e \in S : ComesAfter(S, axis, e) = n - 1
  BY <1>4, <1>6, Ranks
<1>8. \A n \in 1..Cardinality(S) : EntryAt(S, axis, n) \in S
                                   /\ ComesAfter(S, axis, EntryAt(S, axis, n)) = n - 1
  BY <1>7 DEF EntryAt
<1>9. Cardinality(S) \in Nat BY FS_CardinalityType
<1>10. ASSUME NEW e \in S
       PROVE  /\ ComesAfter(S, axis, e) \in 0..(Cardinality(S) - 1)
              /\ IsFiniteSet({f \in S : Precedes(axis, f, e)})
  <2>1. IsFiniteSet(Below(R, S, e)) /\ Cardinality(Below(R, S, e)) \in 0..(Cardinality(S) - 1)
    BY <1>4, Ranks
  <2>2. Below(R, S, e) = {f \in S : Precedes(axis, f, e)} BY <1>5
  <2> QED BY <2>1, <2>2 DEF ComesAfter
<1>11. ASSUME NEW e \in S, NEW f \in S
       PROVE  Precedes(axis, e, f) <=> ComesAfter(S, axis, e) < ComesAfter(S, axis, f)
  <2>1. <<e, f>> \in R <=> Cardinality(Below(R, S, e)) < Cardinality(Below(R, S, f))
    BY <1>4, Ranks
  <2> QED BY <1>1, <1>6, <2>1
<1>12. \A e, f \in S : ComesAfter(S, axis, e) = ComesAfter(S, axis, f) => e = f
  BY <1>4, <1>6, Ranks
<1> QED BY <1>8, <1>9, <1>10, <1>11, <1>12

\* What was read is in order where nothing arrived before it.
LEMMA ReadInOrder ==
    ASSUME NEW events, InOrderOfIds(events), IsFiniteSet(events), NEW q \in ReadingRec,
           ReadWell(events, q)
    PROVE  /\ \A i, k \in DOMAIN q.read :
                i < k /\ q.read[i] = q.read[k] =>
                    \E e \in q.arrived : Precedes(q.axis, e, q.read[i])
           /\ q.axis = "observed" /\ ~q.overtaken =>
                \A i, k \in DOMAIN q.read : i < k => q.read[i].id < q.read[k].id
<1> DEFINE all == Entries(events, q)
           r == q.read
<1>1. all \in SUBSET events /\ IsFiniteSet(all) /\ all \subseteq EventRec
  BY FS_Subset DEF Entries, InOrderOfIds
<1>2. \A e, f \in all : Precedes(q.axis, e, f) <=> ComesAfter(all, q.axis, e) < ComesAfter(all, q.axis, f)
  BY <1>1, EventsRanked
<1>3. DOMAIN r = 1..Len(r) /\ Len(r) \in Nat BY DEF ReadingRec
<1>4. \A i \in DOMAIN r : r[i] \in all BY DEF ReadWell
<1>5. ASSUME NEW i \in DOMAIN r, NEW k \in DOMAIN r, i < k, r[i] = r[k],
             \A a \in q.arrived : ~Precedes(q.axis, a, r[i])
      PROVE  FALSE
  BY <1>3, <1>5 DEF ReadWell
<1>6. ASSUME q.axis = "observed", ~q.overtaken, NEW i \in DOMAIN r, NEW k \in DOMAIN r, i < k
      PROVE  r[i].id < r[k].id
  <2>1. ComesAfter(all, q.axis, r[i]) = i - 1 /\ ComesAfter(all, q.axis, r[k]) = k - 1
    BY <1>6 DEF ReadWell
  <2>2. i - 1 < k - 1 BY <1>3, <1>6
  <2>3. Precedes("observed", r[i], r[k]) BY <1>2, <1>4, <1>6, <2>1, <2>2
  <2>4. /\ r[i] \in events /\ r[k] \in events
        /\ r[i].id \in Nat /\ r[k].id \in Nat /\ r[i].observed \in Nat /\ r[k].observed \in Nat
    BY <1>1, <1>4, KeysAreNat
  <2>5. r[i].observed < r[k].observed \/ r[i].id < r[k].id BY <2>3 DEF Precedes, KeyOf
  <2>6. r[k].id < r[i].id => r[k].observed <= r[i].observed BY <2>4 DEF InOrderOfIds
  <2>7. r[k].id = r[i].id => r[k].observed = r[i].observed BY <2>4 DEF InOrderOfIds
  <2> QED BY <2>4, <2>5, <2>6, <2>7
<1> QED BY <1>5, <1>6

\* A reader that is through, or whose timeline something was removed from, is told no more.
LEMMA SameReading ==
    ASSUME TimelineInv,
           reading'.axis = reading.axis, reading'.read = reading.read, reading'.first = reading.first,
           reading'.arrived = reading.arrived, reading'.removed = reading.removed,
           reading'.overtaken = reading.overtaken, reading'.open = reading.open
    PROVE  NothingOldIsMissed' /\ TwiceForAnArrival' /\ ObservedOnce'
BY DEF TimelineInv, NothingOldIsMissed, TwiceForAnArrival, ObservedOnce, Through, HasRead

\* The invariant holds before the first event.
LEMMA TimelineInvInit == TimelineInit => TimelineInv
<1> SUFFICES ASSUME TimelineInit PROVE TimelineInv OBVIOUS
<1>1. NotReading \in ReadingRec BY DEF NotReading, ReadingRec
<1>2. TimelineTyped BY <1>1, FS_EmptySet DEF TimelineInit, TimelineTyped, InOrderOfIds
<1>4. ~reading.open /\ reading.read = <<>> /\ reading.first = {} BY DEF TimelineInit, NotReading
<1>5. NothingOldIsMissed /\ TwiceForAnArrival /\ ObservedOnce
  BY <1>4 DEF NothingOldIsMissed, TwiceForAnArrival, ObservedOnce, Through
<1> QED BY <1>2, <1>4, <1>5 DEF TimelineInv

\* A reader begins with what is there.
LEMMA OpenTimelineKeeps ==
    ASSUME TimelineInv, NEW q \in TimelinesAsked, NEW axis \in {"world", "observed"},
           OpenTimeline(q, axis)
    PROVE  TimelineInv'
<1>1. /\ reading' = [NotReading EXCEPT !.axis = axis, !.scope = q, !.open = TRUE,
                                       !.first = TimelineEntries(q, axis)]
      /\ UNCHANGED <<claimEvents, uncommitted, idsDrawn, observing>>
  BY DEF OpenTimeline
<1>2. /\ reading'.axis = axis /\ reading'.scope = q /\ reading'.open /\ reading'.read = <<>>
      /\ reading'.first = TimelineEntries(q, axis) /\ reading'.arrived = {}
      /\ reading'.removed = FALSE /\ reading'.overtaken = FALSE
  BY <1>1 DEF NotReading
<1>3. TimelineEntries(q, axis) \subseteq EventRec
  BY DEF TimelineEntries, TimelineInv, TimelineTyped, InOrderOfIds
<1>4. reading' \in ReadingRec
  <2>1. NotReading \in ReadingRec BY DEF NotReading, ReadingRec
  <2> QED BY <1>1, <1>3, <2>1 DEF ReadingRec
<1>5. TimelineTyped' BY <1>1, <1>4 DEF TimelineInv, TimelineTyped, InOrderOfIds
<1>6. ReadWell(claimEvents', reading')
  <2>1. Entries(claimEvents', reading') = TimelineEntries(q, axis)
    BY <1>1, <1>2 DEF Entries, TimelineEntries
  <2>2. TimelineEntries(q, axis) \in SUBSET (claimEvents \cup uncommitted)
        /\ IsFiniteSet(TimelineEntries(q, axis))
    BY FS_Subset DEF TimelineEntries, TimelineInv, TimelineTyped
  <2>3. \A e \in TimelineEntries(q, axis) : 0 <= ComesAfter(TimelineEntries(q, axis), axis, e)
    <3> DEFINE S == TimelineEntries(q, axis)
               events == claimEvents \cup uncommitted
    <3>1. S \in SUBSET events /\ IsFiniteSet(S) /\ InOrderOfIds(events)
      BY <2>2 DEF TimelineInv, TimelineTyped
    <3> HIDE DEF S, events
    <3>2. \A e \in S : ComesAfter(S, axis, e) \in 0..(Cardinality(S) - 1) /\ Cardinality(S) \in Nat
      BY <3>1, EventsRanked
    <3>3. \A e \in S : 0 <= ComesAfter(S, axis, e) BY <3>2
    <3> QED BY <3>3 DEF S
  <2> QED BY <1>2, <2>1, <2>3 DEF ReadWell
<1>7. NothingOldIsMissed' /\ TwiceForAnArrival' /\ ObservedOnce'
  BY <1>2 DEF NothingOldIsMissed, TwiceForAnArrival, ObservedOnce, Through
<1> QED BY <1>5, <1>6, <1>7 DEF TimelineInv

\* A page goes on where the reader was, and is empty only at the end.
RestOf(s, c, g) == [i \in 1..(EndOfPage(Len(s), c) - Len(s)) |-> g[Len(s) + i]]
GoesOn(s, r, c, g) ==
    /\ Len(r) \in Nat /\ DOMAIN r = 1..Len(r) /\ Len(s) <= Len(r)
    /\ \A i \in 1..Len(s) : i \in DOMAIN r /\ r[i] = s[i]
    /\ \A i \in DOMAIN r : i > Len(s) => i \in 1..c /\ r[i] = g[i]
\* A page that is read goes on from what was read.
LEMMA PageAppended ==
    ASSUME NEW S, NEW s \in Seq(S), NEW c \in Nat, NEW g \in [1..c -> S]
    PROVE  /\ s \o RestOf(s, c, g) \in Seq(S)
           /\ GoesOn(s, s \o RestOf(s, c, g), c, g)
           /\ RestOf(s, c, g) = <<>> => c <= Len(s) /\ s \o RestOf(s, c, g) = s
<1> DEFINE m == Len(s)
           onPage == RestOf(s, c, g)
           n == EndOfPage(m, c) - m
           k == IF n > 0 THEN n ELSE 0
           r == s \o onPage
<1>1. m \in Nat /\ DOMAIN s = 1..m OBVIOUS
<1> HIDE DEF m
<1>2. n \in Int /\ k \in Nat /\ 1..n = 1..k /\ \A i \in 1..k : m + i \in 1..c
  BY <1>1, TimelineAssumption DEF EndOfPage
<1>3. k = 0 => c <= m BY <1>1, TimelineAssumption DEF EndOfPage
<1>4. onPage = [i \in 1..k |-> g[m + i]] BY <1>2 DEF m, RestOf
<1> HIDE DEF n, k, onPage
<1>5. onPage \in [1..k -> S] BY <1>2, <1>4
<1>6. onPage \in Seq(S) /\ Len(onPage) = k
  <2> HIDE DEF r
  <2> QED BY <1>2, <1>5, LengthOf
<1>7. /\ r \in Seq(S) /\ Len(r) = m + k
      /\ \A i \in 1..(m + k) : r[i] = IF i <= m THEN s[i] ELSE onPage[i - m]
  BY <1>1, <1>6, ConcatProperties DEF m
<1> HIDE DEF r
<1>8. Len(r) \in Nat /\ DOMAIN r = 1..Len(r) /\ m <= Len(r) BY <1>1, <1>2, <1>7
<1>9. ASSUME NEW i \in 1..m PROVE i \in DOMAIN r /\ r[i] = s[i] BY <1>1, <1>2, <1>7, <1>8
<1>10. ASSUME NEW i \in DOMAIN r, i > m PROVE i \in 1..c /\ r[i] = g[i]
  <2>1. i \in 1..(m + k) /\ ~(i <= m) /\ i - m \in 1..k /\ m + (i - m) = i
    BY <1>1, <1>2, <1>7, <1>8, <1>10
  <2>2. r[i] = onPage[i - m] BY <1>7, <2>1
  <2>3. onPage[i - m] = g[m + (i - m)] /\ m + (i - m) \in 1..c BY <1>2, <1>4, <2>1
  <2> QED BY <2>1, <2>2, <2>3
<1>11. ASSUME onPage = <<>> PROVE c <= m /\ r = s
  <2>1. k = 0 BY <1>6, <1>11
  <2>2. r = s BY <1>11, ConcatEmptySeq DEF r
  <2> QED BY <1>3, <2>1, <2>2
<1>12. GoesOn(s, r, c, g) BY <1>8, <1>9, <1>10 DEF m, GoesOn
<1> QED BY <1>7, <1>11, <1>12 DEF m, r, onPage

\* A page has the entries that come after as many as were read.
LEMMA ReadPageKeeps == ASSUME TimelineInv, ReadPage PROVE TimelineInv'
<1> DEFINE all == Entries(claimEvents, reading)
           m == Len(reading.read)
           c == Cardinality(all)
           n == EndOfPage(m, c) - m
           onPage == [i \in 1..n |-> EntryAt(all, reading.axis, m + i)]
<1>1. /\ reading.open
      /\ reading' = [reading EXCEPT !.read = reading.read \o onPage, !.open = onPage # <<>>]
      /\ UNCHANGED <<claimEvents, uncommitted, idsDrawn, observing>>
  BY DEF ReadPage, PageFrom, TimelineEntries, Entries
<1>2. TimelineTyped /\ InOrderOfIds(claimEvents \cup uncommitted)
  BY DEF TimelineInv, TimelineTyped
<1>3. all \in SUBSET (claimEvents \cup uncommitted) /\ IsFiniteSet(all) /\ all \subseteq EventRec
  BY <1>2, FS_Subset DEF Entries, TimelineTyped, InOrderOfIds
<1>4. /\ c \in Nat
      /\ \A e \in all : ComesAfter(all, reading.axis, e) \in 0..(c - 1)
      /\ \A k \in 1..c : EntryAt(all, reading.axis, k) \in all
                         /\ ComesAfter(all, reading.axis, EntryAt(all, reading.axis, k)) = k - 1
  <2> DEFINE events == claimEvents \cup uncommitted
             axis == reading.axis
  <2>1. InOrderOfIds(events) /\ all \in SUBSET events /\ IsFiniteSet(all) BY <1>2, <1>3
  <2> HIDE DEF events, all, axis
  <2>2. Cardinality(all) \in Nat BY <2>1, EventsRanked
  <2>3. \A e \in all : ComesAfter(all, axis, e) \in 0..(Cardinality(all) - 1)
    BY <2>1, EventsRanked
  <2>4. \A k \in 1..Cardinality(all) : EntryAt(all, axis, k) \in all
                                       /\ ComesAfter(all, axis, EntryAt(all, axis, k)) = k - 1
    BY <2>1, EventsRanked
  <2> QED BY <2>2, <2>3, <2>4 DEF axis
<1>5. m \in Nat /\ DOMAIN reading.read = 1..m /\ reading.read \in Seq(EventRec)
  BY <1>2, ReadingFields
<1> DEFINE r == reading.read \o onPage
           g == [k \in 1..c |-> EntryAt(all, reading.axis, k)]
<1>6. /\ r \in Seq(EventRec) /\ Len(r) \in Nat /\ DOMAIN r = 1..Len(r) /\ m <= Len(r)
      /\ \A i \in 1..m : i \in DOMAIN r /\ r[i] = reading.read[i]
      /\ \A i \in DOMAIN r : i > m => i \in 1..c /\ r[i] = g[i]
      /\ onPage = <<>> => c <= m /\ r = reading.read
  <2>1. g \in [1..c -> EventRec] BY <1>3, <1>4
  <2>2. onPage = [i \in 1..n |-> g[m + i]]
    <3>1. \A i \in 1..n : m + i \in 1..c
      <4> HIDE DEF c, m
      <4> QED BY <1>4, <1>5, TimelineAssumption DEF EndOfPage
    <3> HIDE DEF n, c, m, all
    <3> QED BY <3>1
  <2> DEFINE s == reading.read
  <2>3. onPage = RestOf(s, c, g) BY <2>2 DEF RestOf
  <2>4. s \in Seq(EventRec) /\ c \in Nat /\ Len(s) = m BY <1>4, <1>5
  <2> HIDE DEF g, onPage, c, all, m, s
  <2>5. /\ s \o onPage \in Seq(EventRec) /\ GoesOn(s, s \o onPage, c, g)
        /\ onPage = <<>> => c <= Len(s) /\ s \o onPage = s
    BY <2>1, <2>3, <2>4, PageAppended
  <2> HIDE DEF r
  <2>6. r = s \o onPage BY DEF r, s
  <2> QED BY <2>4, <2>5, <2>6 DEF s, GoesOn
<1> HIDE DEF c, m, all, onPage
<1>10. \A i \in DOMAIN r : \/ i \in 1..m /\ r[i] = reading.read[i]
                           \/ i \in 1..c /\ i > m /\ r[i] = EntryAt(all, reading.axis, i)
  <2> HIDE DEF r
  <2> SUFFICES ASSUME NEW i \in DOMAIN r
               PROVE  \/ i \in 1..m /\ r[i] = reading.read[i]
                      \/ i \in 1..c /\ i > m /\ r[i] = EntryAt(all, reading.axis, i)
    OBVIOUS
  <2>1. CASE i > m BY <1>6, <2>1
  <2>2. CASE ~(i > m) BY <1>5, <1>6, <2>2
  <2> QED BY <2>1, <2>2
<1> HIDE DEF r, g
<1>12. /\ reading'.read = r /\ reading'.axis = reading.axis /\ reading'.scope = reading.scope
       /\ reading'.first = reading.first /\ reading'.arrived = reading.arrived
       /\ reading'.removed = reading.removed /\ reading'.overtaken = reading.overtaken
       /\ reading'.open = (onPage # <<>>)
  BY <1>1, <1>2 DEF r, TimelineTyped, ReadingRec
<1>13. reading' \in ReadingRec BY <1>1, <1>2, <1>6 DEF r, TimelineTyped, ReadingRec
<1>14. TimelineTyped' BY <1>1, <1>2, <1>13 DEF TimelineTyped, InOrderOfIds
<1>15. ASSUME ~reading.removed
       PROVE  /\ ReadWell(claimEvents', reading')
              /\ c <= m => \A e \in reading.first : e \in ToSet(reading.read)
  <2>1. ReadWell(claimEvents, reading) BY <1>1, <1>15 DEF TimelineInv
  <2>2. Entries(claimEvents', reading') = all BY <1>1, <1>12 DEF Entries, all
  <2>3. /\ reading.first \subseteq all /\ \A i \in 1..m : reading.read[i] \in all
        /\ \A e \in reading.first : e \in ToSet(reading.read) \/ m <= ComesAfter(all, reading.axis, e)
    BY <1>5, <2>1 DEF ReadWell, all, m
  <2>4. \A i \in DOMAIN r : r[i] \in all /\ (i > m => ComesAfter(all, reading.axis, r[i]) = i - 1)
    <3> TAKE i \in DOMAIN r
    <3>1. CASE i \in 1..m /\ r[i] = reading.read[i] BY <1>5, <2>3, <3>1
    <3>2. CASE i \in 1..c /\ i > m /\ r[i] = EntryAt(all, reading.axis, i) BY <1>4, <3>2
    <3> QED BY <1>10, <3>1, <3>2
  <2>5. \A e \in reading.first : e \in ToSet(r) \/ Len(r) <= ComesAfter(all, reading.axis, e)
    <3> SUFFICES ASSUME NEW e \in reading.first, ~(Len(r) <= ComesAfter(all, reading.axis, e))
                 PROVE  e \in ToSet(r)
      OBVIOUS
    <3>1. CASE e \in ToSet(reading.read) BY <1>5, <1>6, <3>1 DEF ToSet
    <3>2. CASE m <= ComesAfter(all, reading.axis, e)
      <4> DEFINE k == ComesAfter(all, reading.axis, e) + 1
      <4>1. e \in all /\ k \in 1..Len(r) /\ k > m /\ k - 1 = ComesAfter(all, reading.axis, e)
        BY <1>4, <1>5, <1>6, <2>3, <3>2
      <4> HIDE DEF k
      <4>2. r[k] \in all /\ ComesAfter(all, reading.axis, r[k]) = ComesAfter(all, reading.axis, e)
        BY <1>6, <2>4, <4>1
      <4>3. r[k] = e BY <1>2, <1>3, <4>1, <4>2, EventsRanked
      <4> QED BY <1>6, <4>1, <4>3 DEF ToSet
    <3> QED BY <2>3, <3>1, <3>2
  <2>6. \A i \in DOMAIN r : (\A a \in reading.arrived : ~Precedes(reading.axis, a, r[i])) =>
                                ComesAfter(all, reading.axis, r[i]) = i - 1
    <3> SUFFICES ASSUME NEW i \in DOMAIN r, \A a \in reading.arrived : ~Precedes(reading.axis, a, r[i])
                 PROVE  ComesAfter(all, reading.axis, r[i]) = i - 1
      OBVIOUS
    <3>1. CASE i \in 1..m /\ r[i] = reading.read[i] BY <1>5, <2>1, <3>1 DEF ReadWell, all
    <3>2. CASE i > m BY <2>4, <3>2
    <3> QED BY <1>4, <1>5, <1>10, <3>1, <3>2
  <2>7. reading.axis = "observed" /\ ~reading.overtaken =>
            \A i \in DOMAIN r : ComesAfter(all, reading.axis, r[i]) = i - 1
    <3> SUFFICES ASSUME reading.axis = "observed" /\ ~reading.overtaken, NEW i \in DOMAIN r
                 PROVE  ComesAfter(all, reading.axis, r[i]) = i - 1
      OBVIOUS
    <3>1. CASE i \in 1..m /\ r[i] = reading.read[i] BY <1>5, <2>1, <3>1 DEF ReadWell, all
    <3>2. CASE i > m BY <2>4, <3>2
    <3> QED BY <1>4, <1>5, <1>10, <3>1, <3>2
  <2>8. ReadWell(claimEvents', reading')
    BY <1>12, <2>2, <2>3, <2>4, <2>5, <2>6, <2>7 DEF ReadWell
  <2>9. c <= m => \A e \in reading.first : e \in ToSet(reading.read) BY <1>4, <1>5, <2>3
  <2> QED BY <2>8, <2>9
<1>16. TwiceForAnArrival' /\ ObservedOnce'
  <2>1. CASE reading.removed BY <1>12, <2>1 DEF TwiceForAnArrival, ObservedOnce
  <2>2. CASE ~reading.removed
    BY <1>13, <1>14, <1>15, <2>2, ReadInOrder DEF TimelineTyped, InOrderOfIds, TwiceForAnArrival,
       ObservedOnce
  <2> QED BY <2>1, <2>2
<1>17. NothingOldIsMissed'
  <2> SUFFICES ASSUME ~reading'.open, ~reading'.removed, NEW e \in reading'.first
               PROVE  e \in ToSet(reading'.read)
    BY DEF NothingOldIsMissed, Through, HasRead
  <2>1. onPage = <<>> BY <1>12
  <2>2. c <= m /\ r = reading.read BY <1>6, <2>1
  <2> QED BY <1>12, <1>15, <2>2
<1> QED BY <1>12, <1>14, <1>15, <1>16, <1>17 DEF TimelineInv
\* The clock, what is observed and not committed, and nothing at all: no entry moves.
LEMMA EntriesStayed ==
    ASSUME TimelineInv, UNCHANGED <<claimEvents, reading>>, TimelineTyped'
    PROVE  TimelineInv'
BY SameReading DEF TimelineInv

\* An event that is not committed is in no timeline.
LEMMA ObserveKeeps ==
    ASSUME TimelineInv, NEW d \in TimelineDocs, NEW at \in 1..LastObserved, Observe(d, at)
    PROVE  TimelineInv'
<1> DEFINE e == [id |-> idsDrawn + 1, doc |-> d, at |-> at, observed |-> observing]
           events == claimEvents \cup uncommitted
<1>1. /\ uncommitted' = uncommitted \cup {e} /\ idsDrawn' = idsDrawn + 1
      /\ UNCHANGED <<claimEvents, observing, reading>>
  BY DEF Observe
<1>2. TimelineTyped BY DEF TimelineInv
<1>3. /\ idsDrawn + 1 \in Nat /\ at \in Nat /\ observing \in Nat
  BY <1>2, TimelineAssumption DEF TimelineTyped
<1>4. e \in EventRec /\ e.id = idsDrawn + 1 /\ e.observed = observing BY <1>3 DEF EventRec
<1> HIDE DEF e
<1>5. \A f \in events : f.id \in Nat /\ f.id <= idsDrawn /\ f.observed <= observing
  BY <1>2, KeysAreNat DEF TimelineTyped, InOrderOfIds
<1>6. \A f \in events : f.id # e.id /\ ~(e.id < f.id) BY <1>2, <1>4, <1>5 DEF TimelineTyped
<1>7. InOrderOfIds(events \cup {e})
  <2>1. events \cup {e} \subseteq EventRec BY <1>2, <1>4 DEF TimelineTyped, InOrderOfIds
  <2>2. ASSUME NEW f \in events \cup {e}, NEW g \in events \cup {e}
        PROVE  (f.id = g.id => f = g) /\ (f.id < g.id => f.observed <= g.observed)
    <3>1. CASE f = e /\ g = e BY <1>3, <1>4, <3>1
    <3>2. CASE f = e /\ g \in events BY <1>6, <3>2
    <3>3. CASE f \in events /\ g = e BY <1>4, <1>5, <1>6, <3>3
    <3>4. CASE f \in events /\ g \in events BY <1>2, <3>4 DEF TimelineTyped, InOrderOfIds
    <3> QED BY <3>1, <3>2, <3>3, <3>4
  <2> QED BY <2>1, <2>2 DEF InOrderOfIds
<1>8. (claimEvents \cup uncommitted)' = events \cup {e} BY <1>1
<1>9. \A f \in events \cup {e} : f.id <= idsDrawn + 1 /\ f.observed <= observing
  BY <1>2, <1>3, <1>4, <1>5 DEF TimelineTyped
<1>10. TimelineTyped' BY <1>1, <1>2, <1>3, <1>7, <1>8, <1>9 DEF TimelineTyped
<1> QED BY <1>1, <1>10, EntriesStayed

\* An arrival moves what it precedes one place on, and nothing else.
LEMMA Arrives ==
    ASSUME NEW events, InOrderOfIds(events), NEW S \in SUBSET events, IsFiniteSet(S),
           NEW e \in events, NEW axis, NEW f \in S
    PROVE  /\ ComesAfter(S, axis, f) <= ComesAfter(S \cup {e}, axis, f)
           /\ ~Precedes(axis, e, f) => ComesAfter(S \cup {e}, axis, f) = ComesAfter(S, axis, f)
<1> DEFINE A == {g \in S : Precedes(axis, g, f)}
           B == {g \in S \cup {e} : Precedes(axis, g, f)}
<1>1. IsFiniteSet(S \cup {e}) /\ S \cup {e} \in SUBSET events BY FS_AddElement
<1>2. IsFiniteSet(B) BY <1>1, FS_Subset
<1>3. A \in SUBSET B OBVIOUS
<1>4. Cardinality(A) <= Cardinality(B)
  <2> HIDE DEF A, B
  <2> QED BY <1>2, <1>3, FS_Subset
<1>5. ~Precedes(axis, e, f) => A = B OBVIOUS
<1> QED BY <1>4, <1>5 DEF ComesAfter

\* An event that arrives comes after those that are there, on the axis of observation.
LEMMA CommitEventKeeps ==
    ASSUME TimelineInv, NEW e \in uncommitted, CommitEvent(e) PROVE TimelineInv'
<1> DEFINE events == claimEvents \cup uncommitted
           all == Entries(claimEvents, reading)
           overtaken == reading.overtaken
                        \/ (reading.open /\ \E f \in claimEvents : Precedes("observed", e, f))
           arrived == IF reading.open THEN reading.arrived \cup {e} ELSE reading.arrived
<1>1. /\ uncommitted' = uncommitted \ {e} /\ claimEvents' = claimEvents \cup {e}
      /\ reading' = [reading EXCEPT !.arrived = arrived, !.overtaken = overtaken]
      /\ UNCHANGED <<idsDrawn, observing>>
  BY DEF CommitEvent
<1>2. TimelineTyped /\ InOrderOfIds(events) /\ e \in events /\ e \in EventRec
  BY DEF TimelineInv, TimelineTyped, InOrderOfIds
<1>3. (claimEvents \cup uncommitted)' = events BY <1>1
<1> HIDE DEF events, arrived, overtaken
<1>4. /\ reading'.read = reading.read /\ reading'.axis = reading.axis /\ reading'.scope = reading.scope
      /\ reading'.first = reading.first /\ reading'.arrived = arrived
      /\ reading'.removed = reading.removed /\ reading'.overtaken = overtaken
      /\ reading'.open = reading.open
  BY <1>1, <1>2 DEF TimelineTyped, ReadingRec
<1>5. reading' \in ReadingRec
  BY <1>1, <1>2, ReadingFields DEF arrived, overtaken, TimelineTyped, ReadingRec
<1>6. TimelineTyped' BY <1>1, <1>2, <1>3, <1>5, FS_AddElement DEF TimelineTyped, events
<1>7. CASE ~reading.open
  BY <1>2, <1>4, <1>6, <1>7, ReadingFields, SameReading DEF arrived, overtaken, TimelineInv
<1>8. CASE reading.open /\ reading.removed
  BY <1>4, <1>6, <1>8 DEF NothingOldIsMissed, TwiceForAnArrival, ObservedOnce, TimelineInv
<1>9. CASE reading.open /\ ~reading.removed
  <2>1. ReadWell(claimEvents, reading) BY <1>9 DEF TimelineInv
  <2>2. all \in SUBSET events /\ all \subseteq claimEvents /\ IsFiniteSet(all) /\ all \subseteq EventRec
    BY <1>2, FS_Subset DEF Entries, TimelineTyped, InOrderOfIds, events
  <2> DEFINE new == Entries(claimEvents', reading')
  <2>3. new = all \/ new = all \cup {e} BY <1>1, <1>4 DEF Entries
  <2>4. all \subseteq new BY <2>3
  <2> HIDE DEF new, all
  <2>5. ASSUME NEW f \in all
        PROVE  /\ ComesAfter(all, reading.axis, f) <= ComesAfter(new, reading.axis, f)
               /\ ~Precedes(reading.axis, e, f) =>
                        ComesAfter(new, reading.axis, f) = ComesAfter(all, reading.axis, f)
    <3>1. CASE new = all
      <4>1. ComesAfter(all, reading.axis, f) \in 0..(Cardinality(all) - 1) /\ Cardinality(all) \in Nat
        BY <1>2, <2>2, EventsRanked
      <4> QED BY <3>1, <4>1
    <3>2. CASE new = all \cup {e} BY <1>2, <2>2, <3>2, Arrives
    <3> QED BY <2>3, <3>1, <3>2
  <2>6. /\ reading.first \subseteq all /\ \A i \in DOMAIN reading.read : reading.read[i] \in all
        /\ \A f \in reading.first :
                f \in ToSet(reading.read) \/ Len(reading.read) <= ComesAfter(all, reading.axis, f)
    BY <2>1 DEF ReadWell, all
  <2>7. \A f \in reading.first :
            f \in ToSet(reading.read) \/ Len(reading.read) <= ComesAfter(new, reading.axis, f)
    <3> SUFFICES ASSUME NEW f \in reading.first, f \notin ToSet(reading.read)
                 PROVE  Len(reading.read) <= ComesAfter(new, reading.axis, f)
      OBVIOUS
    <3>1. f \in all /\ f \in new BY <2>4, <2>6
    <3>2. ComesAfter(all, reading.axis, f) \in Nat /\ Len(reading.read) \in Nat
      <4>1. ComesAfter(all, reading.axis, f) \in 0..(Cardinality(all) - 1) /\ Cardinality(all) \in Nat
        BY <1>2, <2>2, <3>1, EventsRanked
      <4> QED BY <1>2, <4>1, ReadingFields
    <3>3. ComesAfter(new, reading.axis, f) \in Nat
      <4>1. new \in SUBSET events /\ IsFiniteSet(new) BY <1>2, <2>2, <2>3, FS_AddElement
      <4>2. ComesAfter(new, reading.axis, f) \in 0..(Cardinality(new) - 1) /\ Cardinality(new) \in Nat
        BY <1>2, <3>1, <4>1, EventsRanked
      <4> QED BY <4>2
    <3> QED BY <2>5, <2>6, <3>1, <3>2, <3>3
  <2>8. ASSUME NEW i \in DOMAIN reading.read, \A a \in arrived : ~Precedes(reading.axis, a, reading.read[i])
        PROVE  ComesAfter(new, reading.axis, reading.read[i]) = i - 1
    BY <1>9, <2>1, <2>5, <2>6, <2>8 DEF arrived, ReadWell, all
  <2>9. ASSUME reading.axis = "observed", ~overtaken, NEW i \in DOMAIN reading.read
        PROVE  ComesAfter(new, reading.axis, reading.read[i]) = i - 1
    BY <1>9, <2>1, <2>2, <2>5, <2>6, <2>9 DEF overtaken, ReadWell, all
  <2>10. ReadWell(claimEvents', reading')
    BY <1>4, <2>4, <2>6, <2>7, <2>8, <2>9 DEF ReadWell, new
  <2>11. TwiceForAnArrival' /\ ObservedOnce'
    BY <1>5, <1>6, <2>10, ReadInOrder DEF TimelineTyped, InOrderOfIds, TwiceForAnArrival,
       ObservedOnce
  <2>12. NothingOldIsMissed' BY <1>4, <1>9 DEF NothingOldIsMissed, Through
  <2> QED BY <1>6, <2>10, <2>11, <2>12 DEF TimelineInv
<1> QED BY <1>7, <1>8, <1>9

\* A removal while the timeline is read ends what can be said of it.
LEMMA RemoveDocKeeps ==
    ASSUME TimelineInv, NEW d \in TimelineDocs, RemoveDoc(d) PROVE TimelineInv'
<1> DEFINE removed == reading.removed \/ reading.open
<1>1. /\ claimEvents' = {e \in claimEvents : e.doc # d}
      /\ reading' = [reading EXCEPT !.removed = removed]
      /\ UNCHANGED <<uncommitted, idsDrawn, observing>>
  BY DEF RemoveDoc
<1>2. TimelineTyped BY DEF TimelineInv
<1> HIDE DEF removed
<1>3. /\ reading'.read = reading.read /\ reading'.axis = reading.axis
      /\ reading'.first = reading.first /\ reading'.arrived = reading.arrived
      /\ reading'.removed = removed /\ reading'.overtaken = reading.overtaken
      /\ reading'.open = reading.open
  BY <1>1, <1>2 DEF TimelineTyped, ReadingRec
<1>4. reading' \in ReadingRec
  BY <1>1, <1>2, ReadingFields DEF removed, TimelineTyped, ReadingRec
<1>5. TimelineTyped' BY <1>1, <1>2, <1>4, FS_Subset DEF TimelineTyped, InOrderOfIds
<1>6. CASE reading.open
  BY <1>3, <1>5, <1>6 DEF removed, NothingOldIsMissed, TwiceForAnArrival, ObservedOnce,
     TimelineInv
<1>7. CASE ~reading.open
  BY <1>2, <1>3, <1>5, <1>7, ReadingFields, SameReading DEF removed, TimelineInv
<1> QED BY <1>6, <1>7

\* Time goes on.
LEMMA TimelineTickKeeps == ASSUME TimelineInv, TimelineTick PROVE TimelineInv'
<1>1. /\ observing' = observing + 1 /\ UNCHANGED <<claimEvents, uncommitted, idsDrawn, reading>>
      /\ TimelineTyped
  BY DEF TimelineTick, TimelineInv
<1>2. \A e \in claimEvents \cup uncommitted : e.observed <= observing + 1
  BY <1>1, KeysAreNat DEF TimelineTyped, InOrderOfIds
<1>3. observing + 1 \in Nat BY <1>1 DEF TimelineTyped
<1>4. TimelineTyped' BY <1>1, <1>2, <1>3 DEF TimelineTyped, InOrderOfIds
<1> QED BY <1>1, <1>4, EntriesStayed

\* The invariant is inductive.
LEMMA TimelineInvKept == TimelineInv /\ [TimelineNext]_timelineVars => TimelineInv'
<1> SUFFICES ASSUME TimelineInv, [TimelineNext]_timelineVars PROVE TimelineInv' OBVIOUS
<1>1. CASE UNCHANGED timelineVars
  BY <1>1, EntriesStayed DEF timelineVars, TimelineInv, TimelineTyped, InOrderOfIds
<1> QED BY <1>1, OpenTimelineKeeps, ReadPageKeeps, ObserveKeeps, CommitEventKeeps,
            TimelineTickKeeps, RemoveDocKeeps DEF TimelineNext

\* For any events, pages and order of arrivals, unless something is deleted: an event that
\* was there when the timeline was opened is read by its last page, one comes twice only
\* when another arrived before it, and by time of observation each comes once, in order,
\* unless a later one committed first.
THEOREM TimelineStands == TimelineSpec => []TimelineTells
<1>1. TimelineInv => TimelineTells BY DEF TimelineInv, TimelineTells
<1> QED BY <1>1, TimelineInvInit, TimelineInvKept, PTL DEF TimelineSpec

-----------------------------------------------------------------------------
(* Links and briefs.                                                        *)

\* What holds of zero and, with a number, of the next, holds up to any bound.
LEMMA CountsUpTo ==
    ASSUME NEW N \in Nat, NEW P, 0 \in P, \A n \in 1..N : n - 1 \in P => n \in P
    PROVE  \A n \in 0..N : n \in P
<1> DEFINE bad == {n \in 0..N : n \notin P}
<1> SUFFICES ASSUME bad # {} PROVE FALSE OBVIOUS
<1> DEFINE m == Min(bad)
<1>1. m \in bad /\ \A i \in bad : m <= i
  <2>1. bad \in SUBSET Nat OBVIOUS
  <2> HIDE DEF bad
  <2> QED BY <2>1, EarliestOf
<1> HIDE DEF m
<1>2. m \in 1..N /\ m - 1 \in 0..N /\ ~(m <= m - 1) BY <1>1
<1>3. m - 1 \notin bad BY <1>1, <1>2
<1>4. m - 1 \in P BY <1>2, <1>3
<1> QED BY <1>1, <1>2, <1>4

\* What counts up from a base by one step after another is defined.
Iterates(f, N, T, base, g) ==
    f \in [0..N -> T] /\ f[0] = base /\ \A n \in 1..N : f[n] = g[<<n, f[n - 1]>>]
\* A function that is defined step by step exists.
LEMMA Iterated ==
    ASSUME NEW N \in Nat, NEW T, NEW base \in T, NEW g \in [(1..N) \X T -> T]
    PROVE  \E f : Iterates(f, N, T, base, g)
<1> DEFINE Upto(m, f) == f[0] = base /\ \A n \in 1..m : f[n] = g[<<n, f[n - 1]>>]
           P == {m \in 0..N : \E f \in [0..m -> T] : Upto(m, f)}
<1>1. 0 \in P
  <2> DEFINE f == [n \in 0..0 |-> base]
  <2>1. f \in [0..0 -> T] /\ f[0] = base OBVIOUS
  <2>2. \A n \in 1..0 : FALSE OBVIOUS
  <2> HIDE DEF f
  <2> QED BY <2>1, <2>2
<1>2. ASSUME NEW m \in 1..N, m - 1 \in P PROVE m \in P
  <2>1. PICK f \in [0..(m - 1) -> T] : Upto(m - 1, f) BY <1>2
  <2> DEFINE h == [n \in 0..m |-> IF n = m THEN g[<<m, f[m - 1]>>] ELSE f[n]]
  <2>2. f[m - 1] \in T OBVIOUS
  <2>3. g[<<m, f[m - 1]>>] \in T BY <2>2
  <2>4. \A n \in 0..m : n # m => n \in 0..(m - 1) OBVIOUS
  <2>5. h \in [0..m -> T] BY <2>3, <2>4
  <2>6. h[0] = base BY <2>1
  <2>7. ASSUME NEW n \in 1..m PROVE h[n] = g[<<n, h[n - 1]>>]
    <3>1. n - 1 \in 0..m /\ n - 1 # m /\ n \in 0..m OBVIOUS
    <3>2. h[n - 1] = f[n - 1] BY <3>1
    <3>3. CASE n = m BY <3>1, <3>2, <3>3
    <3>4. CASE n # m BY <2>1, <3>1, <3>2, <3>4
    <3> QED BY <3>3, <3>4
  <2> HIDE DEF h
  <2> QED BY <2>5, <2>6, <2>7
<1> HIDE DEF P
<1>3. \A n \in 0..N : n \in P BY <1>1, <1>2, CountsUpTo
<1>4. N \in P BY <1>3
<1> QED BY <1>4 DEF P, Iterates

-----------------------------------------------------------------------------
\* Notes of the first n that are used: each once, in the order of first use.
NotedTo(cited, n, notes, S) ==
    /\ notes \in Seq(S)
    /\ \A i, j \in DOMAIN notes : notes[i] = notes[j] => i = j
    /\ \A i \in DOMAIN notes : \E j \in 1..n : notes[i] = cited[j]
    /\ \A j \in 1..n : \E i \in DOMAIN notes : notes[i] = cited[j]
    /\ \A j \in 1..n, m \in DOMAIN notes : notes[m] = cited[j] =>
            \A k \in 1..(m - 1) : \E i \in 1..j : cited[i] = notes[k]

\* Noting what has no note yet.
LEMMA NoteMore ==
    ASSUME NEW S, NEW cited \in Seq(S), NEW n \in 1..Len(cited), NEW notes,
           NotedTo(cited, n - 1, notes, S), ~Contains(notes, cited[n])
    PROVE  NotedTo(cited, n, Append(notes, cited[n]), S)
<1> DEFINE x == cited[n]
           more == Append(notes, x)
           l == Len(notes)
<1>1. x \in S /\ notes \in Seq(S) /\ l \in Nat /\ DOMAIN notes = 1..l /\ n \in Nat
  BY ElementOfSeq DEF NotedTo
<1>2. \A i \in 1..l : notes[i] # x BY DEF Contains
<1>3. /\ more \in Seq(S) /\ DOMAIN more = 1..(l + 1)
      /\ more[l + 1] = x /\ \A i \in 1..l : more[i] = notes[i]
  BY <1>1
<1> HIDE DEF more, l, x
<1>4. /\ \A i \in 1..(l + 1) : i \in 1..l \/ i = l + 1
      /\ \A i \in 1..l : i \in 1..(l + 1) /\ i # l + 1
      /\ l + 1 \in 1..(l + 1) /\ n \in 1..n
      /\ \A j \in 1..n : j \in 1..(n - 1) \/ j = n
      /\ \A j \in 1..(n - 1) : j \in 1..n
  BY <1>1
<1>5. /\ \A i, j \in 1..l : notes[i] = notes[j] => i = j
      /\ \A i \in 1..l : \E j \in 1..(n - 1) : notes[i] = cited[j]
      /\ \A j \in 1..(n - 1) : \E i \in 1..l : notes[i] = cited[j]
      /\ \A j \in 1..(n - 1), m \in 1..l : notes[m] = cited[j] =>
            \A k \in 1..(m - 1) : \E i \in 1..j : cited[i] = notes[k]
  BY <1>1 DEF NotedTo
<1>6. ASSUME NEW i \in DOMAIN more, NEW j \in DOMAIN more, more[i] = more[j] PROVE i = j
  <2>1. CASE i \in 1..l /\ j \in 1..l BY <1>3, <1>5, <1>6, <2>1
  <2>2. CASE i = l + 1 \/ j = l + 1 BY <1>2, <1>3, <1>4, <1>6, <2>2
  <2> QED BY <1>3, <1>4, <2>1, <2>2
<1>7. ASSUME NEW i \in DOMAIN more PROVE \E j \in 1..n : more[i] = cited[j]
  <2>1. CASE i \in 1..l
    <3>1. PICK j \in 1..(n - 1) : notes[i] = cited[j] BY <1>5, <2>1
    <3> QED BY <1>3, <1>4, <2>1, <3>1
  <2>2. CASE i = l + 1 BY <1>3, <1>4, <2>2 DEF x
  <2> QED BY <1>3, <1>4, <2>1, <2>2
<1>8. ASSUME NEW j \in 1..n PROVE \E i \in DOMAIN more : more[i] = cited[j]
  <2>1. CASE j \in 1..(n - 1)
    <3>1. PICK i \in 1..l : notes[i] = cited[j] BY <1>5, <2>1
    <3> QED BY <1>3, <1>4, <3>1
  <2>2. CASE j = n BY <1>3, <1>4, <2>2 DEF x
  <2> QED BY <1>4, <2>1, <2>2
<1>9. ASSUME NEW j \in 1..n, NEW m \in DOMAIN more, more[m] = cited[j], NEW k \in 1..(m - 1)
      PROVE  \E i \in 1..j : cited[i] = more[k]
  <2>1. k \in 1..l /\ more[k] = notes[k] BY <1>1, <1>3
  <2>2. CASE j \in 1..(n - 1) /\ m \in 1..l
    <3>1. notes[m] = cited[j] BY <1>3, <1>9, <2>2
    <3>2. PICK i \in 1..j : cited[i] = notes[k] BY <1>5, <2>2, <3>1
    <3> QED BY <2>1, <3>2
  <2>3. CASE j = n
    <3>1. PICK i \in 1..(n - 1) : notes[k] = cited[i] BY <1>5, <2>1
    <3> QED BY <1>4, <2>1, <2>3, <3>1
  <2>4. CASE j \in 1..(n - 1) /\ m = l + 1
    <3>1. PICK i \in 1..l : notes[i] = cited[j] BY <1>5, <2>4
    <3> QED BY <1>2, <1>3, <1>9, <2>4, <3>1
  <2> QED BY <1>3, <1>4, <2>2, <2>3, <2>4
<1> QED BY <1>3, <1>6, <1>7, <1>8, <1>9 DEF NotedTo, more, x

\* Noting what has a note.
LEMMA NoteSame ==
    ASSUME NEW S, NEW cited \in Seq(S), NEW n \in 1..Len(cited), NEW notes,
           NotedTo(cited, n - 1, notes, S), Contains(notes, cited[n])
    PROVE  NotedTo(cited, n, notes, S)
<1>1. notes \in Seq(S) /\ Len(notes) \in Nat /\ DOMAIN notes = 1..Len(notes) /\ n \in Nat
  BY DEF NotedTo
<1>2. PICK p \in DOMAIN notes : notes[p] = cited[n] BY <1>1 DEF Contains
<1>3. PICK q \in 1..(n - 1) : notes[p] = cited[q] BY DEF NotedTo
<1>4. /\ n \in 1..n /\ \A j \in 1..n : j \in 1..(n - 1) \/ j = n
      /\ \A j \in 1..(n - 1) : j \in 1..n
      /\ \A i \in 1..q : i \in 1..n
  BY <1>1
<1> DEFINE before == 1..(n - 1)
<1>6. \A j \in before, m \in DOMAIN notes : notes[m] = cited[j] =>
            \A k \in 1..(m - 1) : \E i \in 1..j : cited[i] = notes[k]
  BY DEF NotedTo
<1>5. ASSUME NEW j \in 1..n, NEW m \in DOMAIN notes, notes[m] = cited[j], NEW k \in 1..(m - 1)
      PROVE  \E i \in 1..j : cited[i] = notes[k]
  <2> HIDE DEF before
  <2>1. CASE j \in before BY <1>5, <1>6, <2>1
  <2>2. CASE j = n
    <3>1. notes[m] = cited[q] BY <1>2, <1>3, <1>5, <2>2
    <3>2. q \in before BY <1>3 DEF before
    <3>3. PICK i \in 1..q : cited[i] = notes[k] BY <1>6, <3>1, <3>2
    <3> QED BY <1>4, <2>2, <3>3
  <2> QED BY <1>4, <2>1, <2>2 DEF before
<1>7. /\ \A i \in DOMAIN notes : \E j \in before : notes[i] = cited[j]
      /\ \A j \in before : \E i \in DOMAIN notes : notes[i] = cited[j]
      /\ \A i, j \in DOMAIN notes : notes[i] = notes[j] => i = j
  BY DEF NotedTo
<1>8. \A j \in before : j \in 1..n BY <1>4
<1>9. \A j \in 1..n : j \in before \/ j = n BY <1>4
<1> HIDE DEF before
<1>10. \A i \in DOMAIN notes : \E j \in 1..n : notes[i] = cited[j] BY <1>7, <1>8
<1>11. \A j \in 1..n : \E i \in DOMAIN notes : notes[i] = cited[j] BY <1>2, <1>7, <1>9
<1> QED BY <1>1, <1>5, <1>7, <1>10, <1>11 DEF NotedTo

\* Each that is used has one note, and the notes are in the order of first use.
LEMMA InOrderOfUseFacts ==
    ASSUME NEW S, NEW cited \in Seq(S)
    PROVE  NotedTo(cited, Len(cited), InOrderOfUse(cited), S)
<1> DEFINE N == Len(cited)
           T == Seq(S)
           next(n, notes) == Noted(notes, cited[n])
           g == [p \in (1..N) \X T |-> next(p[1], p[2])]
<1>1. N \in Nat /\ <<>> \in T /\ \A n \in 1..N : cited[n] \in S BY ElementOfSeq
<1>2. ASSUME NEW n \in 1..N, NEW notes \in T PROVE next(n, notes) \in T BY <1>1 DEF Noted
<1>3. g \in [(1..N) \X T -> T] BY <1>2
<1>4. \A n \in 1..N, notes \in T : g[<<n, notes>>] = next(n, notes) OBVIOUS
<1> HIDE DEF g, T
<1>5. PICK f \in [0..N -> T] : f[0] = <<>> /\ \A n \in 1..N : f[n] = g[<<n, f[n - 1]>>]
  <2> DEFINE base == <<>>
  <2>1. N \in Nat /\ base \in T /\ g \in [(1..N) \X T -> T] BY <1>1, <1>3
  <2> HIDE DEF N, base
  <2>2. \E f : Iterates(f, N, T, base, g) BY <2>1, Iterated
  <2> QED BY <2>2 DEF base, Iterates
<1> DEFINE Is(h) == h = [n \in 0..N |-> IF n = 0 THEN <<>> ELSE next(n, h[n - 1])]
<1>6. Is(f)
  <2>1. \A n \in 0..N : n # 0 => n \in 1..N /\ n - 1 \in 0..N BY <1>1
  <2>2. \A n \in 0..N : n # 0 => f[n] = next(n, f[n - 1]) BY <1>4, <1>5, <2>1
  <2>3. \A n \in 0..N : f[n] = IF n = 0 THEN <<>> ELSE next(n, f[n - 1]) BY <1>5, <2>2
  <2> HIDE DEF next, N
  <2> QED BY <1>5, <2>3
<1> DEFINE noted == CHOOSE h : Is(h)
<1>7. Is(noted)
  <2> HIDE DEF Is
  <2> QED BY <1>6
<1>8. InOrderOfUse(cited) = noted[N] BY DEF InOrderOfUse
<1> HIDE DEF noted
<1>9. /\ noted[0] = <<>>
      /\ \A n \in 1..N : noted[n] = next(n, noted[n - 1])
  <2>1. 0 \in 0..N /\ \A n \in 1..N : n \in 0..N /\ n # 0 BY <1>1
  <2> HIDE DEF next, N
  <2> QED BY <1>7, <2>1
<1> DEFINE P == {n \in 0..N : NotedTo(cited, n, noted[n], S)}
<1>10. 0 \in P
  <2>1. NotedTo(cited, 0, <<>>, S) BY DEF NotedTo
  <2> QED BY <1>1, <1>9, <2>1
<1>11. ASSUME NEW n \in 1..N, n - 1 \in P PROVE n \in P
  <2>1. NotedTo(cited, n - 1, noted[n - 1], S) BY <1>11
  <2>2. CASE Contains(noted[n - 1], cited[n]) BY <1>9, <2>1, <2>2, NoteSame DEF Noted
  <2>3. CASE ~Contains(noted[n - 1], cited[n]) BY <1>9, <2>1, <2>3, NoteMore DEF Noted
  <2> QED BY <2>2, <2>3
<1> HIDE DEF P
<1>12. N \in P
  <2> HIDE DEF N
  <2>1. \A n \in 0..N : n \in P BY <1>1, <1>10, <1>11, CountsUpTo
  <2> QED BY <1>1, <2>1
<1> QED BY <1>8, <1>12 DEF P

-----------------------------------------------------------------------------
\* A flattened sequence is joined from the left.
Joins(lines, f, S) ==
    /\ f \in [0..Len(lines) -> Seq(S)] /\ f[0] = <<>>
    /\ \A n \in 1..Len(lines) : f[n] = f[n - 1] \o lines[n]
    /\ FlattenSeq(lines) = f[Len(lines)]

\* A flattened sequence is what its parts make one after another.
LEMMA FlattenJoins ==
    ASSUME NEW S, NEW lines \in Seq(Seq(S))
    PROVE  \E f : Joins(lines, f, S)
<1> DEFINE N == Len(lines)
           T == Seq(S)
           g == [p \in (1..N) \X T |-> p[2] \o lines[p[1]]]
<1>1. N \in Nat /\ DOMAIN lines = 1..N /\ \A n \in 1..N : lines[n] \in T
  BY ElementOfSeq, LenProperties
<1>2. <<>> \in T /\ \A s \in T : <<>> \o s = s BY EmptySeq, ConcatEmptySeq
<1>3. g \in [(1..N) \X T -> T]
  <2>1. \A n \in 1..N, s \in T : s \o lines[n] \in T BY <1>1, ConcatProperties
  <2> HIDE DEF T
  <2> QED BY <2>1
<1>4. \A n \in 1..N, s \in T : g[<<n, s>>] = s \o lines[n] OBVIOUS
<1> HIDE DEF g, T, N
<1>5. PICK e : Iterates(e, N, T, <<>>, g)
  <2> DEFINE base == <<>>
  <2>1. base \in T BY <1>2
  <2> HIDE DEF base
  <2>2. \E e : Iterates(e, N, T, base, g) BY <1>1, <1>3, <2>1, Iterated
  <2> QED BY <2>2 DEF base
<1>6. /\ e \in [0..N -> T] /\ e[0] = <<>>
      /\ \A n \in 1..N : n \in 0..N /\ n - 1 \in 0..N /\ e[n] = e[n - 1] \o lines[n]
  <2>1. \A n \in 1..N : n \in 0..N /\ n - 1 \in 0..N BY <1>1
  <2> QED BY <1>4, <1>5, <2>1 DEF Iterates
<1>7. FlattenSeq(lines) = e[N]
  <2>1. CASE N = 0 BY <1>6, <2>1, EmptySeq DEF N, FlattenSeq
  <2>2. CASE N # 0
    <3> DEFINE Is(h) == h = [i \in 1..N |-> IF i = 1 THEN lines[i] ELSE h[i - 1] \o lines[i]]
               d == [i \in 1..N |-> e[i]]
    <3>1. \A i \in 1..N : IF i = 1 THEN d[i] = lines[i] ELSE d[i] = d[i - 1] \o lines[i]
      <4> SUFFICES ASSUME NEW i \in 1..N
                   PROVE  IF i = 1 THEN d[i] = lines[i] ELSE d[i] = d[i - 1] \o lines[i]
        OBVIOUS
      <4>1. CASE i = 1
        <5>1. 1 - 1 = 0 /\ 1 \in 1..N BY <4>1
        <5>2. e[1] = e[0] \o lines[1] BY <1>6, <5>1
        <5> QED BY <1>1, <1>2, <1>6, <4>1, <5>1, <5>2
      <4>2. CASE i # 1
        <5>1. i - 1 \in 1..N BY <1>1, <4>2
        <5> QED BY <1>6, <4>2, <5>1
      <4> QED BY <4>1, <4>2
    <3>2. Is(d)
      <4> DEFINE c == [i \in 1..N |-> IF i = 1 THEN lines[i] ELSE d[i - 1] \o lines[i]]
      <4>1. \A i \in 1..N : d[i] = c[i]
        <5> HIDE DEF d
        <5> QED BY <3>1
      <4>2. DOMAIN d = 1..N /\ DOMAIN c = 1..N OBVIOUS
      <4>3. d = [i \in 1..N |-> d[i]] /\ c = [i \in 1..N |-> c[i]] OBVIOUS
      <4>4. d = c
        <5> HIDE DEF c, d
        <5> QED BY <4>1, <4>3
      <4> QED BY <4>4
    <3> DEFINE flatten == CHOOSE h : Is(h)
    <3>3. Is(flatten)
      <4> HIDE DEF Is, d
      <4> QED BY <3>2
    <3>4. FlattenSeq(lines) = flatten[N] BY <2>2 DEF FlattenSeq, N
    <3> HIDE DEF flatten
    <3>5. \A i \in 1..N : flatten[i] = IF i = 1 THEN lines[i] ELSE flatten[i - 1] \o lines[i]
      BY <3>3
    <3> DEFINE Q == {n \in 0..N : n = 0 \/ flatten[n] = e[n]}
    <3>6. 0 \in Q BY <1>1
    <3>7. ASSUME NEW n \in 1..N, n - 1 \in Q PROVE n \in Q
      <4>1. CASE n = 1
        <5>1. 1 - 1 = 0 /\ 1 \in 1..N BY <4>1
        <5>2. e[1] = e[0] \o lines[1] BY <1>6, <5>1
        <5> QED BY <1>1, <1>2, <1>6, <3>5, <4>1, <5>1, <5>2
      <4>2. CASE n # 1
        <5>1. n - 1 # 0 BY <1>1, <4>2
        <5>2. flatten[n - 1] = e[n - 1] BY <3>7, <5>1
        <5> QED BY <1>6, <3>5, <4>2, <5>2
      <4> QED BY <4>1, <4>2
    <3> HIDE DEF Q
    <3>8. \A n \in 0..N : n \in Q BY <1>1, <3>6, <3>7, CountsUpTo
    <3>9. N \in Q /\ N # 0 BY <1>1, <2>2, <3>8
    <3> QED BY <3>4, <3>9 DEF Q
  <2> QED BY <2>1, <2>2
<1> QED BY <1>6, <1>7 DEF Joins, T, N

HasBoth(t, s, l) ==
    /\ \A i \in DOMAIN t : (\E k \in DOMAIN s : t[i] = s[k]) \/ \E k \in DOMAIN l : t[i] = l[k]
    /\ \A k \in DOMAIN s : \E i \in DOMAIN t : t[i] = s[k]
    /\ \A k \in DOMAIN l : \E i \in DOMAIN t : t[i] = l[k]

\* Two joined sequences have what either has.
LEMMA JoinedFacts ==
    ASSUME NEW S, NEW s \in Seq(S), NEW l \in Seq(S)
    PROVE  HasBoth(s \o l, s, l)
<1> DEFINE t == s \o l
           m == Len(s)
           n == Len(l)
<1>1. /\ m \in Nat /\ n \in Nat /\ DOMAIN s = 1..m /\ DOMAIN l = 1..n
      /\ t \in Seq(S) /\ Len(t) = m + n /\ DOMAIN t = 1..Len(t)
      /\ \A i \in 1..(m + n) : t[i] = IF i <= m THEN s[i] ELSE l[i - m]
  BY LenProperties, ConcatProperties
<1> HIDE DEF t, m, n
<1>2. /\ \A i \in 1..(m + n) : (i \in 1..m /\ i <= m) \/ (i - m \in 1..n /\ ~(i <= m))
      /\ \A k \in 1..m : k \in 1..(m + n) /\ k <= m
      /\ \A k \in 1..n : m + k \in 1..(m + n) /\ ~(m + k <= m) /\ (m + k) - m = k
  BY <1>1
<1>3. \A i \in DOMAIN t : (\E k \in DOMAIN s : t[i] = s[k]) \/ \E k \in DOMAIN l : t[i] = l[k]
  BY <1>1, <1>2
<1>4. \A k \in DOMAIN s : t[k] = s[k] /\ k \in DOMAIN t BY <1>1, <1>2
<1>5. \A k \in DOMAIN l : t[m + k] = l[k] /\ m + k \in DOMAIN t BY <1>1, <1>2
<1>6. HasBoth(t, s, l) BY <1>3, <1>4, <1>5 DEF HasBoth
<1> QED BY <1>6 DEF t

HasAll(flat, lines) ==
    /\ \A i \in DOMAIN flat : \E p \in DOMAIN lines : \E q \in DOMAIN lines[p] :
            flat[i] = lines[p][q]
    /\ \A p \in DOMAIN lines : \A q \in DOMAIN lines[p] : \E i \in DOMAIN flat :
            flat[i] = lines[p][q]

\* A flattened sequence has what its parts have.
LEMMA FlattenFacts ==
    ASSUME NEW S, NEW lines \in Seq(Seq(S))
    PROVE  FlattenSeq(lines) \in Seq(S) /\ HasAll(FlattenSeq(lines), lines)
<1> DEFINE N == Len(lines)
           Upto(s, n) == /\ \A i \in DOMAIN s : \E p \in 1..n : \E q \in DOMAIN lines[p] :
                                s[i] = lines[p][q]
                         /\ \A p \in 1..n : \A q \in DOMAIN lines[p] : \E i \in DOMAIN s :
                                s[i] = lines[p][q]
<1>1. PICK f : Joins(lines, f, S) BY FlattenJoins
<1>2. /\ N \in Nat /\ DOMAIN lines = 1..N
      /\ \A n \in 1..N : lines[n] \in Seq(S) /\ n \in 0..N /\ n - 1 \in 0..N
  BY ElementOfSeq, LenProperties
<1>3. /\ f \in [0..N -> Seq(S)] /\ f[0] = <<>> /\ \A n \in 1..N : f[n] = f[n - 1] \o lines[n]
      /\ FlattenSeq(lines) = f[N]
  BY <1>1 DEF Joins
<1> HIDE DEF N
<1> DEFINE P == {n \in 0..N : Upto(f[n], n)}
<1>4. 0 \in P BY <1>2, <1>3
<1>5. ASSUME NEW n \in 1..N, n - 1 \in P PROVE n \in P
  <2> DEFINE s == f[n - 1]
             l == lines[n]
             t == f[n]
  <2>1. s \in Seq(S) /\ l \in Seq(S) /\ t = s \o l BY <1>2, <1>3
  <2>2. Upto(s, n - 1) BY <1>5
  <2> HIDE DEF s, t
  <2>3. /\ \A i \in DOMAIN t : (\E k \in DOMAIN s : t[i] = s[k]) \/ \E k \in DOMAIN l : t[i] = l[k]
        /\ \A k \in DOMAIN s : \E i \in DOMAIN t : t[i] = s[k]
        /\ \A k \in DOMAIN l : \E i \in DOMAIN t : t[i] = l[k]
    <3> HIDE DEF l
    <3>1. HasBoth(t, s, l) BY <2>1, JoinedFacts
    <3> QED BY <3>1 DEF HasBoth
  <2>4. /\ n \in 1..n /\ \A p \in 1..n : p \in 1..(n - 1) \/ p = n
        /\ \A p \in 1..(n - 1) : p \in 1..n
    BY <1>2
  <2>5. Upto(t, n)
    <3>1. ASSUME NEW i \in DOMAIN t PROVE \E p \in 1..n : \E q \in DOMAIN lines[p] : t[i] = lines[p][q]
      <4>1. CASE \E k \in DOMAIN s : t[i] = s[k]
        <5>1. PICK k \in DOMAIN s : t[i] = s[k] BY <4>1
        <5>2. PICK p \in 1..(n - 1) : \E q \in DOMAIN lines[p] : s[k] = lines[p][q] BY <2>2
        <5> QED BY <2>4, <5>1, <5>2
      <4>2. CASE \E k \in DOMAIN l : t[i] = l[k] BY <2>4, <4>2
      <4> QED BY <2>3, <4>1, <4>2
    <3>2. ASSUME NEW p \in 1..n, NEW q \in DOMAIN lines[p] PROVE \E i \in DOMAIN t : t[i] = lines[p][q]
      <4>1. CASE p \in 1..(n - 1)
        <5>1. PICK k \in DOMAIN s : s[k] = lines[p][q] BY <2>2, <4>1
        <5> QED BY <2>3, <5>1
      <4>2. CASE p = n BY <2>3, <4>2
      <4> QED BY <2>4, <4>1, <4>2
    <3> QED BY <3>1, <3>2
  <2> HIDE DEF Upto
  <2> QED BY <1>2, <2>5 DEF t
<1> HIDE DEF P
<1>6. N \in P
  <2>1. \A n \in 0..N : n \in P BY <1>2, <1>4, <1>5, CountsUpTo
  <2> QED BY <1>2, <2>1
<1>7. Upto(f[N], N) /\ f[N] \in Seq(S)
  <2>1. N \in 0..N BY <1>2
  <2> HIDE DEF Upto
  <2> QED BY <1>3, <1>6, <2>1 DEF P
<1> DEFINE flat == f[N]
<1>8. flat \in Seq(S) /\ Upto(flat, N)
  <2> HIDE DEF Upto
  <2> QED BY <1>7
<1>9. FlattenSeq(lines) = flat BY <1>3
<1> HIDE DEF flat
<1>10. HasAll(flat, lines) BY <1>2, <1>8 DEF HasAll
<1> QED BY <1>8, <1>9, <1>10

\* Flattening sequences that are alike, place by place.
AsMarks(lines, g) == [i \in DOMAIN lines |-> [j \in DOMAIN lines[i] |-> g[lines[i][j]]]]
AlikeUnder(s, t, g) == Len(s) = Len(t) /\ \A i \in 1..Len(t) : s[i] = g[t[i]]

\* AlikeUnder parts are alike when joined.
LEMMA JoinedAlike ==
    ASSUME NEW S, NEW T, NEW g \in [S -> T], NEW s \in Seq(S), NEW l \in Seq(S),
           NEW u \in Seq(T), NEW v \in Seq(T), AlikeUnder(u, s, g), AlikeUnder(v, l, g)
    PROVE  AlikeUnder(u \o v, s \o l, g)
<1> DEFINE m == Len(s)
           n == Len(l)
           a == s \o l
           b == u \o v
<1>1. m \in Nat /\ n \in Nat BY LenProperties
<1>2. /\ Len(u) = m /\ Len(v) = n
      /\ \A i \in 1..m : u[i] = g[s[i]]
      /\ \A i \in 1..n : v[i] = g[l[i]]
  BY DEF AlikeUnder
<1>3. /\ Len(a) = m + n
      /\ \A i \in 1..(m + n) : a[i] = IF i <= m THEN s[i] ELSE l[i - m]
  BY ConcatProperties
<1>4. /\ Len(b) = Len(u) + Len(v)
      /\ \A i \in 1..(Len(u) + Len(v)) : b[i] = IF i <= Len(u) THEN u[i] ELSE v[i - Len(u)]
  BY ConcatProperties
<1> HIDE DEF m, n, a, b
<1>5. /\ Len(b) = m + n
      /\ \A i \in 1..(m + n) : b[i] = IF i <= m THEN u[i] ELSE v[i - m]
  BY <1>2, <1>4
<1>6. \A i \in 1..(m + n) : (i \in 1..m /\ i <= m) \/ (i - m \in 1..n /\ ~(i <= m)) BY <1>1
<1>7. ASSUME NEW i \in 1..(m + n) PROVE b[i] = g[a[i]]
  <2>1. CASE i \in 1..m /\ i <= m BY <1>2, <1>3, <1>5, <2>1
  <2>2. CASE i - m \in 1..n /\ ~(i <= m)
    <3> DEFINE k == i - m
    <3>1. k \in 1..n /\ b[i] = v[k] /\ a[i] = l[k] BY <1>3, <1>5, <2>2
    <3> HIDE DEF k
    <3> QED BY <1>2, <3>1
  <2> QED BY <1>6, <2>1, <2>2
<1>8. AlikeUnder(b, a, g) BY <1>3, <1>5, <1>7 DEF AlikeUnder
<1> QED BY <1>8 DEF a, b

\* AlikeUnder parts are alike when flattened.
LEMMA FlattenAlike ==
    ASSUME NEW S, NEW T, NEW g \in [S -> T], NEW lines \in Seq(Seq(S))
    PROVE  /\ AsMarks(lines, g) \in Seq(Seq(T))
           /\ AlikeUnder(FlattenSeq(AsMarks(lines, g)), FlattenSeq(lines), g)
<1> DEFINE N == Len(lines)
           marks == AsMarks(lines, g)
<1>1. /\ N \in Nat /\ DOMAIN lines = 1..N
      /\ \A n \in 1..N : lines[n] \in Seq(S) /\ n \in 0..N /\ n - 1 \in 0..N
  BY ElementOfSeq, LenProperties
<1>2. ASSUME NEW n \in 1..N PROVE marks[n] \in Seq(T) /\ AlikeUnder(marks[n], lines[n], g)
  <2> DEFINE l == lines[n]
             v == [j \in 1..Len(l) |-> g[l[j]]]
  <2>1. l \in Seq(S) /\ Len(l) \in Nat /\ DOMAIN l = 1..Len(l) /\ \A j \in 1..Len(l) : l[j] \in S
    BY <1>1, ElementOfSeq, LenProperties
  <2> HIDE DEF l
  <2>2. v \in [1..Len(l) -> T] BY <2>1
  <2>3. v \in Seq(T) /\ Len(v) = Len(l) BY <2>1, <2>2, LengthOf
  <2>4. marks[n] = v BY <1>1, <2>1 DEF AsMarks, l
  <2>5. AlikeUnder(v, l, g) BY <2>3 DEF AlikeUnder
  <2> HIDE DEF v, marks
  <2> QED BY <2>3, <2>4, <2>5 DEF l
<1>3. marks \in Seq(Seq(T)) /\ Len(marks) = N
  <2>1. marks = [n \in 1..N |-> marks[n]] BY <1>1 DEF AsMarks
  <2> HIDE DEF marks, N
  <2>2. marks \in [1..N -> Seq(T)] BY <1>2, <2>1
  <2> QED BY <1>1, <2>2, LengthOf
<1> HIDE DEF marks
<1>4. PICK f : Joins(lines, f, S) BY FlattenJoins
<1>5. PICK h : Joins(marks, h, T) BY <1>3, FlattenJoins
<1> HIDE DEF N
<1>6. /\ f \in [0..N -> Seq(S)] /\ f[0] = <<>> /\ \A n \in 1..N : f[n] = f[n - 1] \o lines[n]
      /\ FlattenSeq(lines) = f[N]
  BY <1>4 DEF Joins, N
<1>7. /\ h \in [0..N -> Seq(T)] /\ h[0] = <<>> /\ \A n \in 1..N : h[n] = h[n - 1] \o marks[n]
      /\ FlattenSeq(marks) = h[N]
  BY <1>3, <1>5 DEF Joins
<1> DEFINE P == {n \in 0..N : AlikeUnder(h[n], f[n], g)}
<1>8. 0 \in P
  <2>1. AlikeUnder(<<>>, <<>>, g) BY DEF AlikeUnder
  <2> QED BY <1>1, <1>6, <1>7, <2>1
<1>9. ASSUME NEW n \in 1..N, n - 1 \in P PROVE n \in P
  <2>1. AlikeUnder(h[n - 1] \o marks[n], f[n - 1] \o lines[n], g)
    <3> DEFINE s == f[n - 1]
               u == h[n - 1]
               l == lines[n]
               v == marks[n]
    <3>1. /\ s \in Seq(S) /\ l \in Seq(S) /\ u \in Seq(T) /\ v \in Seq(T)
          /\ AlikeUnder(u, s, g) /\ AlikeUnder(v, l, g)
      BY <1>1, <1>2, <1>6, <1>7, <1>9
    <3> HIDE DEF s, u, l, v
    <3>2. AlikeUnder(u \o v, s \o l, g) BY <3>1, JoinedAlike
    <3> QED BY <3>2 DEF s, u, l, v
  <2> QED BY <1>1, <1>6, <1>7, <2>1
<1> HIDE DEF P
<1>10. N \in P
  <2>1. \A n \in 0..N : n \in P BY <1>1, <1>8, <1>9, CountsUpTo
  <2> QED BY <1>1, <2>1
<1>11. AlikeUnder(h[N], f[N], g) BY <1>10 DEF P
<1> QED BY <1>3, <1>6, <1>7, <1>11 DEF marks

-----------------------------------------------------------------------------
\* What render_brief numbers.
Numbered(md, brief, S) ==
    LET used == FlattenSeq(md.marks)
        given == FlattenSeq(brief)
    IN  /\ md.definitions \in Seq(S)
        /\ {used[i] : i \in DOMAIN used} = DOMAIN md.definitions
        /\ \A i \in DOMAIN used, j \in DOMAIN used : used[i] = used[j] <=> given[i] = given[j]
        /\ \A i \in DOMAIN used : \A n \in 1..(used[i] - 1) : \E j \in 1..i : used[j] = n

\* The number of what is used is that of its note.
LEMMA NumberOfNoted ==
    ASSUME NEW S, NEW cited \in Seq(S), NEW notes, NotedTo(cited, Len(cited), notes, S)
    PROVE  /\ \A i \in DOMAIN cited : /\ NumberOf(notes, cited[i]) \in DOMAIN notes
                                      /\ notes[NumberOf(notes, cited[i])] = cited[i]
           /\ \A n \in DOMAIN notes : NumberOf(notes, notes[n]) = n
BY LenProperties DEF NotedTo, NumberOf

\* Marks and definitions of a brief agree, whatever its lines are.
LEMMA RenderFacts ==
    ASSUME NEW S, NEW brief \in Seq(Seq(S))
    PROVE  Numbered(RenderBrief(brief), brief, S)
<1> DEFINE given == FlattenSeq(brief)
           notes == InOrderOfUse(given)
           T == {NumberOf(notes, x) : x \in S}
           g == [x \in S |-> NumberOf(notes, x)]
           marks == AsMarks(brief, g)
           used == FlattenSeq(marks)
           N == Len(given)
           md == RenderBrief(brief)
<1>1. given \in Seq(S) BY FlattenFacts
<1>2. NotedTo(given, N, notes, S)
  <2> HIDE DEF given, notes
  <2>1. NotedTo(given, N, InOrderOfUse(given), S) BY <1>1, InOrderOfUseFacts
  <2> QED BY <2>1 DEF notes
<1>3. g \in [S -> T] OBVIOUS
<1>4. \A x \in S : g[x] = NumberOf(notes, x) OBVIOUS
<1>5. md.marks = marks /\ md.definitions = notes
  <2>1. /\ Len(brief) \in Nat /\ DOMAIN brief = 1..Len(brief)
        /\ \A i \in DOMAIN brief : \A j \in DOMAIN brief[i] : brief[i][j] \in S
    BY ElementOfSeq, LenProperties
  <2>2. md.marks = [i \in DOMAIN brief |-> [j \in DOMAIN brief[i] |-> NumberOf(notes, brief[i][j])]]
    BY DEF RenderBrief, BriefNotes
  <2>3. md.definitions = notes BY DEF RenderBrief, BriefNotes
  <2> HIDE DEF g, notes, md
  <2>4. [i \in DOMAIN brief |-> [j \in DOMAIN brief[i] |-> NumberOf(notes, brief[i][j])]] = marks
    BY <1>4, <2>1 DEF AsMarks
  <2> QED BY <2>2, <2>3, <2>4
<1> HIDE DEF notes, g, T, given
<1>6. marks \in Seq(Seq(T)) /\ AlikeUnder(used, given, g) BY <1>3, FlattenAlike DEF given
<1>7. used \in Seq(T)
  <2> HIDE DEF marks
  <2> QED BY <1>6, FlattenFacts
<1> HIDE DEF marks, used, md
<1>8. N \in Nat /\ DOMAIN given = 1..N /\ DOMAIN used = 1..N /\ \A i \in 1..N : given[i] \in S
  BY <1>1, <1>6, <1>7, LenProperties, ElementOfSeq DEF AlikeUnder
<1>9. \A i \in 1..N : used[i] = NumberOf(notes, given[i]) BY <1>4, <1>6, <1>8 DEF AlikeUnder
<1>10. /\ \A i \in 1..N : used[i] \in DOMAIN notes /\ notes[used[i]] = given[i]
       /\ \A n \in DOMAIN notes : NumberOf(notes, notes[n]) = n
  BY <1>1, <1>2, <1>8, <1>9, NumberOfNoted
<1>11. /\ notes \in Seq(S)
       /\ \A n \in DOMAIN notes : \E j \in 1..N : notes[n] = given[j]
       /\ \A j \in 1..N, m \in DOMAIN notes : notes[m] = given[j] =>
            \A k \in 1..(m - 1) : \E i \in 1..j : given[i] = notes[k]
  BY <1>2 DEF NotedTo
<1>12. Len(notes) \in Nat /\ DOMAIN notes = 1..Len(notes) BY <1>11, LenProperties
<1> HIDE DEF N
<1>13. {used[i] : i \in 1..N} = DOMAIN notes
  <2>1. \A i \in 1..N : used[i] \in DOMAIN notes BY <1>10
  <2>2. \A n \in DOMAIN notes : \E j \in 1..N : used[j] = n
    <3> SUFFICES ASSUME NEW n \in DOMAIN notes PROVE \E j \in 1..N : used[j] = n OBVIOUS
    <3>1. PICK j \in 1..N : notes[n] = given[j] BY <1>11
    <3>2. NumberOf(notes, notes[n]) = n BY <1>10
    <3> QED BY <1>9, <3>1, <3>2
  <2> QED BY <2>1, <2>2
<1>14. \A i \in 1..N, j \in 1..N : used[i] = used[j] <=> given[i] = given[j] BY <1>9, <1>10
<1>15. ASSUME NEW i \in 1..N, NEW n \in 1..(used[i] - 1) PROVE \E j \in 1..i : used[j] = n
  <2> DEFINE m == used[i]
  <2>1. m \in DOMAIN notes /\ notes[m] = given[i] BY <1>10
  <2> HIDE DEF m
  <2>2. \A k \in 1..(m - 1) : \E j \in 1..i : given[j] = notes[k] BY <1>11, <2>1
  <2>3. n \in 1..(m - 1) BY DEF m
  <2>4. PICK j \in 1..i : given[j] = notes[n] BY <2>2, <2>3
  <2>5. n \in DOMAIN notes /\ j \in 1..N BY <1>8, <1>12, <2>1, <2>3
  <2>6. NumberOf(notes, notes[n]) = n BY <1>10, <2>5
  <2>7. used[j] = NumberOf(notes, given[j]) BY <1>9, <2>5
  <2> QED BY <2>4, <2>6, <2>7
<1>16. FlattenSeq(md.marks) = used /\ FlattenSeq(brief) = given BY <1>5 DEF used, given
<1>17. /\ {used[i] : i \in DOMAIN used} = DOMAIN md.definitions
       /\ md.definitions \in Seq(S)
       /\ \A i \in DOMAIN used, j \in DOMAIN used : used[i] = used[j] <=> given[i] = given[j]
       /\ \A i \in DOMAIN used : \A n \in 1..(used[i] - 1) : \E j \in 1..i : used[j] = n
  BY <1>5, <1>8, <1>11, <1>13, <1>14, <1>15
<1>18. Numbered(md, brief, S) BY <1>16, <1>17 DEF Numbered
<1> QED BY <1>18 DEF md


-----------------------------------------------------------------------------
Claimed == DOMAIN Cited
BodyShape(b) ==
    /\ b.summary \in Seq(Seq(Claimed))
    /\ b.sections \in Seq([order : Nat, lines : Seq(Seq(Claimed))])

\* Bodies have lines of claims.
LEMMA BodiesShaped ==
    ASSUME NEW b \in Bodies
    PROVE  BodyShape(b)
BY PublishingAssumption DEF CitingLines, BodyShape, Claimed

\* The summary, and the order and lines of each section.
LEMMA BodyFields ==
    ASSUME NEW b, BodyShape(b)
    PROVE  /\ b.summary \in Seq(Seq(Claimed))
           /\ Len(b.sections) \in Nat /\ DOMAIN b.sections = 1..Len(b.sections)
           /\ \A i \in DOMAIN b.sections :
                b.sections[i].order \in Nat /\ b.sections[i].lines \in Seq(Seq(Claimed))
<1> DEFINE T == [order : Nat, lines : Seq(Seq(Claimed))]
           s == b.sections
<1>1. b.summary \in Seq(Seq(Claimed)) /\ s \in Seq(T) BY DEF BodyShape
<1>2. \A t \in T : t.order \in Nat /\ t.lines \in Seq(Seq(Claimed)) OBVIOUS
<1> HIDE DEF T, s
<1>3. Len(s) \in Nat /\ DOMAIN s = 1..Len(s) /\ \A i \in DOMAIN s : s[i] \in T
  BY <1>1, LenProperties, ElementOfSeq
<1>4. \A i \in DOMAIN s : s[i].order \in Nat /\ s[i].lines \in Seq(Seq(Claimed)) BY <1>2, <1>3
<1> QED BY <1>1, <1>3, <1>4 DEF s

\* Every section is shown at one place.
LEMMA SectionsShown ==
    ASSUME NEW b, BodyShape(b)
    PROVE  /\ \A n \in DOMAIN b.sections : ShownAt(b, n) \in DOMAIN b.sections
           /\ \A i \in DOMAIN b.sections : \E n \in DOMAIN b.sections : ShownAt(b, n) = i
<1> DEFINE S == DOMAIN b.sections
           N == Len(b.sections)
           R == {p \in S \X S : ShownBefore(b, p[1], p[2])}
           rank(i) == Cardinality({j \in S : ShownBefore(b, j, i)})
<1>1. /\ N \in Nat /\ S = 1..N /\ \A i \in S : b.sections[i].order \in Nat BY BodyFields
<1>2. IsFiniteSet(S) /\ Cardinality(S) = N
  <2>1. IsFiniteSet(1..N) /\ Cardinality(1..N) = IF 1 > N THEN 0 ELSE N - 1 + 1
    <3> HIDE DEF N
    <3> QED BY <1>1, FS_Interval
  <2> HIDE DEF N
  <2> QED BY <1>1, <2>1
<1>3. \A i, j \in S : <<i, j>> \in R <=> ShownBefore(b, i, j) OBVIOUS
<1> HIDE DEF R
<1>4. StrictlyOrders(R, S)
  <2> DEFINE ord(i) == b.sections[i].order
  <2>1. \A i \in S : i \in Int /\ ord(i) \in Int BY <1>1
  <2>2. \A i, j \in S : <<i, j>> \in R <=> (ord(i) < ord(j) \/ (ord(i) = ord(j) /\ i < j))
    BY <1>3 DEF ShownBefore
  <2> HIDE DEF ord, S
  <2>3. \A i \in S : <<i, i>> \notin R BY <2>1, <2>2
  <2>4. \A i, j, k \in S : <<i, j>> \in R /\ <<j, k>> \in R => <<i, k>> \in R BY <2>1, <2>2
  <2>5. ASSUME NEW i \in S, NEW j \in S, i # j PROVE <<i, j>> \in R \/ <<j, i>> \in R
    BY <2>1, <2>2, <2>5
  <2> QED BY <2>3, <2>4, <2>5 DEF StrictlyOrders
<1>5. \A i \in S : Cardinality(Below(R, S, i)) = rank(i) BY <1>3 DEF Below
<1>6. \A i \in S : rank(i) \in 0..(N - 1)
  <2>1. \A i \in S : Cardinality(Below(R, S, i)) \in 0..(Cardinality(S) - 1)
    <3> HIDE DEF S
    <3> QED BY <1>2, <1>4, Ranks
  <2> HIDE DEF N, rank, S
  <2> QED BY <1>2, <1>5, <2>1
<1>7. ASSUME NEW n \in S PROVE \E i \in S : rank(i) = n - 1
  <2>1. \A m \in 1..Cardinality(S) : \E i \in S : Cardinality(Below(R, S, i)) = m - 1
    <3> HIDE DEF rank, S
    <3> QED BY <1>2, <1>4, RankTaken
  <2>2. n \in 1..Cardinality(S) BY <1>1, <1>2
  <2>3. PICK i \in S : Cardinality(Below(R, S, i)) = n - 1 BY <2>1, <2>2
  <2> QED BY <1>5, <2>3
<1>8. \A i, j \in S : rank(i) = rank(j) => i = j
  <2> SUFFICES ASSUME NEW i \in S, NEW j \in S, rank(i) = rank(j) PROVE i = j OBVIOUS
  <2>1. Cardinality(Below(R, S, i)) = Cardinality(Below(R, S, j)) BY <1>5
  <2> QED BY <1>2, <1>4, <2>1, Ranks
<1>9. \A n \in S : ShownAt(b, n) \in S /\ rank(ShownAt(b, n)) = n - 1 BY <1>7 DEF ShownAt
<1> HIDE DEF rank
<1>10. ASSUME NEW i \in S PROVE \E n \in S : ShownAt(b, n) = i
  <2> DEFINE n == rank(i) + 1
  <2>1. rank(i) \in 0..(N - 1) /\ N \in Nat /\ S = 1..N BY <1>1, <1>6
  <2> HIDE DEF N, S
  <2>2. n \in S /\ n - 1 = rank(i) BY <2>1
  <2>3. ShownAt(b, n) = i BY <1>8, <1>9, <2>2
  <2> QED BY <2>2, <2>3
<1> QED BY <1>9, <1>10

\* Every mark of a page has its footnote.
NotedMarks(shown) ==
    \A i \in DOMAIN shown.marks : \A j \in DOMAIN shown.marks[i] :
        shown.marks[i][j] \in DOMAIN shown.notes

\* The snapshot of a page is its owner's, and its marks have notes.
LEMMA PageNoted ==
    ASSUME NEW o, BodyShape(body[o])
    PROVE  WikiSnapshot(o).owner = o /\ NotedMarks(WikiSnapshot(o))
<1> DEFINE b == body[o]
           L == Seq(Claimed)
           stored == [i \in DOMAIN b.sections |-> b.sections[i].lines]
           shown == [n \in DOMAIN b.sections |-> b.sections[ShownAt(b, n)].lines]
           lines == b.summary \o FlattenSeq(stored)
           all == b.summary \o FlattenSeq(shown)
           flat == FlattenSeq(all)
           notes == InOrderOfUse(flat)
           snap == WikiSnapshot(o)
<1>1. /\ b.summary \in Seq(L) /\ DOMAIN b.sections = 1..Len(b.sections) /\ Len(b.sections) \in Nat
      /\ \A i \in DOMAIN b.sections : b.sections[i].lines \in Seq(L)
  <2> HIDE DEF b
  <2> QED BY BodyFields DEF b, L
<1>2. /\ \A n \in DOMAIN b.sections : ShownAt(b, n) \in DOMAIN b.sections
      /\ \A i \in DOMAIN b.sections : \E n \in DOMAIN b.sections : ShownAt(b, n) = i
  <2> HIDE DEF b
  <2> QED BY SectionsShown DEF b
<1>3. stored \in Seq(Seq(L)) /\ shown \in Seq(Seq(L))
  <2>1. stored \in [1..Len(b.sections) -> Seq(L)] /\ shown \in [1..Len(b.sections) -> Seq(L)]
    <3> HIDE DEF L, b
    <3> QED BY <1>1, <1>2
  <2> DEFINE n == Len(b.sections)
             T == Seq(L)
  <2>2. n \in Nat /\ stored \in [1..n -> T] /\ shown \in [1..n -> T] BY <1>1, <2>1
  <2> HIDE DEF n, T, stored, shown
  <2>3. stored \in Seq(T) /\ shown \in Seq(T) BY <2>2, LengthOf
  <2> QED BY <2>3 DEF T
<1>4. /\ FlattenSeq(stored) \in Seq(L) /\ HasAll(FlattenSeq(stored), stored)
      /\ FlattenSeq(shown) \in Seq(L) /\ HasAll(FlattenSeq(shown), shown)
  <2> HIDE DEF L, stored, shown
  <2> QED BY <1>3, FlattenFacts
<1>5. /\ lines \in Seq(L) /\ HasBoth(lines, b.summary, FlattenSeq(stored))
      /\ all \in Seq(L) /\ HasBoth(all, b.summary, FlattenSeq(shown))
  <2> DEFINE s == b.summary
             u == FlattenSeq(stored)
             v == FlattenSeq(shown)
  <2>1. s \in Seq(L) /\ u \in Seq(L) /\ v \in Seq(L) BY <1>1, <1>4
  <2> HIDE DEF s, u, v, L
  <2>2. /\ s \o u \in Seq(L) /\ HasBoth(s \o u, s, u)
        /\ s \o v \in Seq(L) /\ HasBoth(s \o v, s, v)
    BY <2>1, JoinedFacts, ConcatProperties
  <2> QED BY <2>2 DEF s, u, v
<1>6. flat \in Seq(Claimed) /\ HasAll(flat, all)
  <2> HIDE DEF all
  <2> QED BY <1>5, FlattenFacts
<1>7. NotedTo(flat, Len(flat), notes, Claimed)
  <2> HIDE DEF flat
  <2> QED BY <1>6, InOrderOfUseFacts
<1>8. \A m \in DOMAIN flat : NumberOf(notes, flat[m]) \in DOMAIN notes
  <2> HIDE DEF flat, notes
  <2> QED BY <1>6, <1>7, NumberOfNoted
<1>9. ASSUME NEW i \in DOMAIN lines PROVE \E k \in DOMAIN all : all[k] = lines[i]
  <2> HIDE DEF lines, all
  <2>1. CASE \E k \in DOMAIN b.summary : lines[i] = b.summary[k] BY <1>5, <2>1 DEF HasBoth
  <2>2. CASE \E k \in DOMAIN FlattenSeq(stored) : lines[i] = FlattenSeq(stored)[k]
    <3>1. PICK p \in DOMAIN stored : \E q \in DOMAIN stored[p] : lines[i] = stored[p][q]
      <4> HIDE DEF stored
      <4> QED BY <1>4, <2>2 DEF HasAll
    <3>2. PICK n \in DOMAIN shown : ShownAt(b, n) = p BY <1>2
    <3>3. shown[n] = stored[p] BY <3>2
    <3>4. \E k \in DOMAIN FlattenSeq(shown) : FlattenSeq(shown)[k] = lines[i]
      <4> HIDE DEF shown, stored
      <4> QED BY <1>4, <3>1, <3>3 DEF HasAll
    <3> HIDE DEF shown
    <3> QED BY <1>5, <3>4 DEF HasBoth
  <2> QED BY <1>5, <2>1, <2>2 DEF HasBoth
<1>10. /\ snap.owner = o
       /\ DOMAIN snap.notes = DOMAIN notes
       /\ snap.marks = [i \in DOMAIN lines |-> [j \in DOMAIN lines[i] |-> NumberOf(notes, lines[i][j])]]
  BY DEF WikiSnapshot, Footnotes
<1> HIDE DEF snap, notes, lines
<1>11. ASSUME NEW i \in DOMAIN lines, NEW j \in DOMAIN lines[i]
       PROVE  NumberOf(notes, lines[i][j]) \in DOMAIN notes
  <2>1. PICK k \in DOMAIN all : all[k] = lines[i] BY <1>9
  <2> HIDE DEF all, flat
  <2>2. PICK m \in DOMAIN flat : flat[m] = all[k][j] BY <1>6, <2>1 DEF HasAll
  <2> QED BY <1>8, <2>1, <2>2
<1>12. NotedMarks(snap) BY <1>10, <1>11 DEF NotedMarks
<1> QED BY <1>10, <1>12 DEF snap


-----------------------------------------------------------------------------
\* What is picked of a line is of the set it is picked by.
LEMMA AmongFacts ==
    ASSUME NEW T, NEW line \in Seq(T), NEW S
    PROVE  /\ Among(line, S) \in Seq(S)
           /\ \A i \in DOMAIN Among(line, S) : Among(line, S)[i] \in S
<1> DEFINE places == {i \in DOMAIN line : line[i] \in S}
           n == Cardinality(places)
           told == Among(line, S)
<1>1. places \in SUBSET Nat /\ IsFiniteSet(places)
  <2>1. Len(line) \in Nat /\ DOMAIN line = 1..Len(line) BY LenProperties
  <2>2. IsFiniteSet(1..Len(line)) BY <2>1, FS_Interval
  <2>3. places \in SUBSET (1..Len(line)) /\ 1..Len(line) \subseteq Nat BY <2>1
  <2> HIDE DEF places
  <2> QED BY <2>2, <2>3, FS_Subset
<1>2. told = [k \in 1..n |-> line[NthOf(places, k)]] BY DEF Among, NthOf
<1>3. \A i \in places : line[i] \in S OBVIOUS
<1> HIDE DEF places, told
<1>4. n \in Nat /\ \A k \in 1..n : NthOf(places, k) \in places BY <1>1, PlacesRanked
<1>5. told \in [1..n -> S] BY <1>2, <1>3, <1>4
<1> HIDE DEF n
<1>6. told \in Seq(S) /\ DOMAIN told = 1..n /\ \A i \in 1..n : told[i] \in S
  BY <1>4, <1>5, LengthOf
<1> QED BY <1>6 DEF told

\* The evidence that a brief of o may tell of.
Slices(o) ==
    {SourceIn(o, Answer[o].citations[n].version, Answer[o].citations[n].quote) :
        n \in DOMAIN Answer[o].citations}
    \cup {SourceIn(o, Cited[c].version, Cited[c].quote) : c \in DOMAIN Cited}

\* The sources of a line are slices for its owner.
LEMMA SourcesSliced ==
    ASSUME NEW o
    PROVE  /\ \A line \in Seq(Nat) : CitationSources(o, line) \in Seq(Slices(o))
           /\ \A line \in Seq(Claimed) : ClaimSources(o, line) \in Seq(Slices(o))
<1> DEFINE D == DOMAIN Answer[o].citations
           E == OwnClaims(o)
           src(n) == SourceIn(o, Answer[o].citations[n].version, Answer[o].citations[n].quote)
           tells(c) == SourceIn(o, Cited[c].version, Cited[c].quote)
<1>1. /\ \A n \in D : src(n) \in Slices(o)
      /\ \A c \in E : tells(c) \in Slices(o)
  BY DEF Slices, OwnClaims
<1>2. ASSUME NEW line \in Seq(Nat) PROVE CitationSources(o, line) \in Seq(Slices(o))
  <2> DEFINE cited == Among(line, D)
             n == Len(cited)
  <2>1. CitationSources(o, line) = [i \in DOMAIN cited |-> src(cited[i])] BY DEF CitationSources
  <2> HIDE DEF D, src
  <2>2. cited \in Seq(D) /\ \A i \in DOMAIN cited : cited[i] \in D BY AmongFacts
  <2> HIDE DEF cited
  <2>3. n \in Nat /\ DOMAIN cited = 1..n BY <2>2, LenProperties
  <2> HIDE DEF n
  <2>4. [i \in DOMAIN cited |-> src(cited[i])] \in [1..n -> Slices(o)] BY <1>1, <2>2, <2>3
  <2> QED BY <2>1, <2>3, <2>4, SeqDef
<1>3. ASSUME NEW line \in Seq(Claimed) PROVE ClaimSources(o, line) \in Seq(Slices(o))
  <2> DEFINE told == Among(line, E)
             n == Len(told)
  <2>1. ClaimSources(o, line) = [i \in DOMAIN told |-> tells(told[i])] BY DEF ClaimSources
  <2> HIDE DEF E, tells
  <2>2. told \in Seq(E) /\ \A i \in DOMAIN told : told[i] \in E BY AmongFacts
  <2> HIDE DEF told
  <2>3. n \in Nat /\ DOMAIN told = 1..n BY <2>2, LenProperties
  <2> HIDE DEF n
  <2>4. [i \in DOMAIN told |-> tells(told[i])] \in [1..n -> Slices(o)] BY <1>1, <2>2, <2>3
  <2> QED BY <2>1, <2>3, <2>4, SeqDef
<1> QED BY <1>2, <1>3

\* A slice with a quote is of a stored text of its owner.
LEMMA OwnText ==
    ASSUME NEW o, NEW s \in Slices(o), s.quote # Unavailable
    PROVE  \E v \in storedTexts :
                TextVersions[v].owner = o /\ TextVersions[v].document = s.document
<1>1. PICK v, q : s = SourceIn(o, v, q) BY DEF Slices
<1> QED BY <1>1 DEF SourceIn

\* The lines of an answer's brief are slices.
LEMMA AnswerBriefSliced ==
    ASSUME NEW o \in Owners
    PROVE  AnswerBrief(o) \in Seq(Seq(Slices(o)))
<1> DEFINE said == Answer[o].sentences
           n == Len(said)
<1>1. said \in Seq(Seq(Nat)) BY PublishingAssumption DEF CitingLines
<1> HIDE DEF said
<1>2. n \in Nat /\ DOMAIN said = 1..n /\ \A i \in 1..n : said[i] \in Seq(Nat)
  BY <1>1, LenProperties, ElementOfSeq
<1> HIDE DEF n
<1>3. [i \in DOMAIN said |-> CitationSources(o, said[i])] \in [1..n -> Seq(Slices(o))]
  BY <1>2, SourcesSliced
<1>4. AnswerBrief(o) = [i \in DOMAIN said |-> CitationSources(o, said[i])]
  BY DEF AnswerBrief, said
<1> QED BY <1>2, <1>3, <1>4, SeqDef

\* The lines of a topic's brief are slices.
LEMMA TopicBriefSliced ==
    ASSUME NEW o \in Owners, BodyShape(body[o])
    PROVE  TopicBrief(o) \in Seq(Seq(Slices(o)))
<1> DEFINE L == Seq(Claimed)
           b == body[o]
           first == [i \in DOMAIN b.sections |->
                        IF b.sections[i].order = 1 THEN b.sections[i].lines ELSE <<>>]
           overview == b.summary \o FlattenSeq(first)
           camps == Among(TopicChanges.camps, OwnClaims(o))
           held == [i \in DOMAIN camps |-> <<camps[i]>>]
           told == overview \o held \o TopicChanges.new \o TopicChanges.changed \o TopicChanges.disputed
           n == Len(told)
<1>1. /\ b.summary \in Seq(L) /\ Len(b.sections) \in Nat /\ DOMAIN b.sections = 1..Len(b.sections)
      /\ \A i \in DOMAIN b.sections : b.sections[i].lines \in Seq(L)
  <2> HIDE DEF b
  <2> QED BY BodyFields DEF b, L
<1>2. first \in Seq(Seq(L))
  <2> DEFINE empty == <<>>
             lead == [i \in DOMAIN b.sections |->
                        IF b.sections[i].order = 1 THEN b.sections[i].lines ELSE empty]
  <2>1. empty \in Seq(L) OBVIOUS
  <2> HIDE DEF empty, L, b
  <2>2. lead \in [1..Len(b.sections) -> Seq(L)] BY <1>1, <2>1
  <2>3. lead \in Seq(Seq(L))
    <3> HIDE DEF lead
    <3> QED BY <1>1, <2>2, SeqDef
  <2> QED BY <2>3 DEF empty, b
<1>3. overview \in Seq(L)
  <2>1. FlattenSeq(first) \in Seq(L)
    <3> HIDE DEF first, L
    <3> QED BY <1>2, FlattenFacts
  <2> HIDE DEF first, L
  <2> QED BY <1>1, <2>1, ConcatProperties
<1>4. held \in Seq(L)
  <2> DEFINE E == OwnClaims(o)
  <2>1. TopicChanges.camps \in Seq(Claimed) /\ E \subseteq Claimed
    BY PublishingAssumption DEF Claimed, OwnClaims
  <2> HIDE DEF E
  <2>2. Among(TopicChanges.camps, E) \in Seq(E)
        /\ \A i \in DOMAIN Among(TopicChanges.camps, E) : Among(TopicChanges.camps, E)[i] \in E
    BY <2>1, AmongFacts
  <2>3. camps \in Seq(E) /\ \A i \in DOMAIN camps : camps[i] \in E BY <2>2 DEF E
  <2> HIDE DEF camps
  <2>4. Len(camps) \in Nat /\ DOMAIN camps = 1..Len(camps) BY <2>3, LenProperties
  <2>5. \A i \in DOMAIN camps : <<camps[i]>> \in L BY <2>1, <2>3
  <2> HIDE DEF L
  <2>6. held \in [1..Len(camps) -> L] BY <2>4, <2>5
  <2> HIDE DEF held
  <2> QED BY <2>4, <2>6, SeqDef
<1>5. TopicChanges.new \in Seq(L) /\ TopicChanges.changed \in Seq(L) /\ TopicChanges.disputed \in Seq(L)
  BY PublishingAssumption DEF CitingLines, Claimed
<1>6. told \in Seq(L)
  <2> DEFINE u == TopicChanges.new
             v == TopicChanges.changed
             w == TopicChanges.disputed
  <2>1. overview \in Seq(L) /\ held \in Seq(L) /\ u \in Seq(L) /\ v \in Seq(L) /\ w \in Seq(L)
    BY <1>3, <1>4, <1>5
  <2> HIDE DEF overview, held, u, v, w, L
  <2>2. overview \o held \in Seq(L) BY <2>1, ConcatProperties
  <2>3. overview \o held \o u \in Seq(L) BY <2>1, <2>2, ConcatProperties
  <2>4. overview \o held \o u \o v \in Seq(L) BY <2>1, <2>3, ConcatProperties
  <2>5. overview \o held \o u \o v \o w \in Seq(L) BY <2>1, <2>4, ConcatProperties
  <2> QED BY <2>5 DEF u, v, w
<1>7. TopicBrief(o) = [i \in DOMAIN told |-> ClaimSources(o, told[i])] BY DEF TopicBrief
<1> HIDE DEF told
<1>8. n \in Nat /\ DOMAIN told = 1..n /\ \A i \in 1..n : told[i] \in Seq(Claimed)
  BY <1>6, LenProperties, ElementOfSeq
<1> HIDE DEF n
<1>9. [i \in DOMAIN told |-> ClaimSources(o, told[i])] \in [1..n -> Seq(Slices(o))]
  BY <1>8, SourcesSliced
<1> QED BY <1>7, <1>8, <1>9, SeqDef

\* Briefs hold of every page with a body of the right shape.
LEMMA BriefsRendered ==
    ASSUME \A o \in Owners : BodyShape(body[o])
    PROVE  BriefsHold
<1> SUFFICES ASSUME NEW o \in Owners, NEW brief \in {AnswerBrief(o), TopicBrief(o)}
             PROVE  LET md == RenderBrief(brief)
                        used == FlattenSeq(md.marks)
                        given == FlattenSeq(brief)
                    IN  /\ {used[i] : i \in DOMAIN used} = DOMAIN md.definitions
                        /\ \A i \in DOMAIN used, j \in DOMAIN used : used[i] = used[j] <=> given[i] = given[j]
                        /\ \A i \in DOMAIN used : \A n \in 1..(used[i] - 1) : \E j \in 1..i : used[j] = n
                        /\ \A n \in DOMAIN md.definitions : md.definitions[n].quote # Unavailable =>
                                \E v \in storedTexts :
                                    TextVersions[v].owner = o /\ TextVersions[v].document = md.definitions[n].document
  BY DEF BriefsHold
<1> DEFINE S == Slices(o)
           md == RenderBrief(brief)
<1>1. brief \in Seq(Seq(S)) BY AnswerBriefSliced, TopicBriefSliced
<1>2. \A s \in S : s.quote # Unavailable =>
        \E v \in storedTexts : TextVersions[v].owner = o /\ TextVersions[v].document = s.document
  BY OwnText
<1> HIDE DEF S
<1>3. Numbered(md, brief, S) BY <1>1, RenderFacts
<1> HIDE DEF md
<1>4. \A n \in DOMAIN md.definitions : md.definitions[n] \in S
  BY <1>3, ElementOfSeq, LenProperties DEF Numbered
<1> QED BY <1>2, <1>3, <1>4 DEF Numbered, md


-----------------------------------------------------------------------------
Shares == [owner : Owners, kind : {"wiki_page", "answer"}, until : Nat, revoked : Nat]

PublishingTypes ==
    /\ date \in Nat \ {0}
    /\ links \in Seq(Shares)
    /\ body \in [Owners -> Bodies]
    /\ reader = [r \in Readers |-> [doing |-> reader[r].doing, link |-> reader[r].link,
                                    since |-> reader[r].since, shown |-> reader[r].shown]]

\* A link that is read was made, and it was looked up by today.
ReadersFound ==
    \A r \in Readers : reader[r].doing # "idle" =>
        reader[r].link \in DOMAIN links /\ reader[r].since \in Nat /\ reader[r].since <= date

PublishingInv == PublishingTypes /\ ReadersFound /\ ServedWhileLive /\ MarksHaveNotes

\* The invariant holds before the first link.
LEMMA PublishingInvInit ==
    PublishingInit => PublishingInv
<1> SUFFICES ASSUME PublishingInit PROVE PublishingInv OBVIOUS
<1>1. \A r \in Readers : reader[r] = IdleReader BY DEF PublishingInit
<1>2. \A r \in Readers : reader[r].doing = "idle" BY <1>1 DEF IdleReader
<1>3. reader = [r \in Readers |-> [doing |-> reader[r].doing, link |-> reader[r].link,
                                   since |-> reader[r].since, shown |-> reader[r].shown]]
  BY <1>1 DEF IdleReader, PublishingInit
<1>4. PublishingTypes BY <1>3 DEF PublishingInit, PublishingTypes
<1> QED BY <1>2, <1>4 DEF PublishingInv, ReadersFound, ServedWhileLive, MarksHaveNotes

\* The fields of a link.
LEMMA LinksListed ==
    ASSUME PublishingTypes
    PROVE  /\ Len(links) \in Nat /\ DOMAIN links = 1..Len(links)
           /\ \A i \in DOMAIN links :
                /\ links[i] \in Shares /\ links[i].until \in Nat /\ links[i].revoked \in Nat
<1>1. links \in Seq(Shares) BY DEF PublishingTypes
<1>2. Len(links) \in Nat /\ DOMAIN links = 1..Len(links) /\ \A i \in DOMAIN links : links[i] \in Shares
  BY <1>1, LenProperties, ElementOfSeq
<1>3. \A l \in Shares : l.until \in Nat /\ l.revoked \in Nat BY DEF Shares
<1> QED BY <1>2, <1>3

\* A new link changes none that is read.
LEMMA CreateShareKeeps ==
    ASSUME PublishingInv, NEW o \in Owners, NEW kind \in {"wiki_page", "answer"}, NEW days \in {0, 1},
           CreateShare(o, kind, days)
    PROVE  PublishingInv'
<1> DEFINE l == [owner |-> o, kind |-> kind, revoked |-> 0,
                 until |-> IF days = 0 THEN 0 ELSE date + days]
<1>1. l \in Shares BY DEF PublishingInv, PublishingTypes, Shares
<1>2. /\ links' = Append(links, l)
      /\ UNCHANGED <<date, body, storedTexts, reader>>
  BY DEF CreateShare
<1> HIDE DEF l
<1>3. links' \in Seq(Shares) /\ DOMAIN links \subseteq DOMAIN links' /\ \A i \in DOMAIN links : links'[i] = links[i]
  BY <1>1, <1>2, AppendProperties DEF PublishingInv, PublishingTypes
<1>4. PublishingTypes' BY <1>2, <1>3 DEF PublishingInv, PublishingTypes
<1>5. \A r \in Readers : reader[r].doing # "idle" => reader[r].link \in DOMAIN links
  BY DEF PublishingInv, ReadersFound
<1>6. ReadersFound' BY <1>2, <1>3 DEF PublishingInv, ReadersFound
<1>7. ServedWhileLive' BY <1>2, <1>3, <1>5 DEF PublishingInv, ServedWhileLive
<1>8. MarksHaveNotes' BY <1>2, <1>3, <1>5 DEF PublishingInv, MarksHaveNotes
<1> QED BY <1>4, <1>6, <1>7, <1>8 DEF PublishingInv

\* A link is revoked today, so not before a reader found it.
LEMMA RevokeShareKeeps ==
    ASSUME PublishingInv, NEW o \in Owners, NEW i \in DOMAIN links, RevokeShare(o, i)
    PROVE  PublishingInv'
<1> DEFINE l == Revoked(links[i])
<1>1. /\ links' = [links EXCEPT ![i] = l]
      /\ UNCHANGED <<date, body, storedTexts, reader>>
  BY DEF RevokeShare
<1>2. /\ links \in Seq(Shares) /\ links[i] \in Shares /\ date \in Nat \ {0}
      /\ links[i].until \in Nat /\ links[i].revoked \in Nat
  BY LinksListed DEF PublishingInv, PublishingTypes
<1>3. /\ l \in Shares /\ l.owner = links[i].owner /\ l.kind = links[i].kind /\ l.until = links[i].until
      /\ l.revoked = IF links[i].revoked = 0 THEN date ELSE links[i].revoked
  BY <1>2 DEF Revoked, Shares
<1> HIDE DEF l
<1>4. links' \in Seq(Shares) /\ DOMAIN links' = DOMAIN links BY <1>1, <1>2, <1>3, ExceptSeq
<1>5. \A k \in DOMAIN links : links'[k] = IF k = i THEN l ELSE links[k] BY <1>1
<1>6. \A k \in DOMAIN links : /\ links'[k].owner = links[k].owner /\ links'[k].kind = links[k].kind
                              /\ links'[k].until = links[k].until
                              /\ links'[k].revoked = links[k].revoked \/ links'[k].revoked = date
  BY <1>3, <1>5
<1>7. PublishingTypes' BY <1>1, <1>4 DEF PublishingInv, PublishingTypes
<1>8. /\ ReadersFound' /\ reader' = reader
      /\ \A r \in Readers : reader[r].doing # "idle" => reader[r].link \in DOMAIN links
      /\ \A r \in Readers : reader[r].doing # "idle" => reader[r].since \in Nat /\ reader[r].since <= date
  BY <1>1, <1>4 DEF PublishingInv, ReadersFound
<1>9. ServedWhileLive'
  <2> SUFFICES ASSUME NEW r \in Readers, reader[r].doing # "idle"
               PROVE  LET link == links'[reader[r].link] IN
                      /\ link.revoked # 0 => link.revoked >= reader[r].since
                      /\ link.until # 0 => link.until > reader[r].since
                      /\ reader[r].doing = "served" => reader[r].shown.owner = link.owner
    BY <1>8 DEF ServedWhileLive
  <2> DEFINE k == reader[r].link
             s == reader[r].since
  <2>1. k \in DOMAIN links /\ s \in Nat /\ s <= date BY <1>8
  <2>2. /\ links[k].revoked # 0 => links[k].revoked >= s
        /\ links[k].until # 0 => links[k].until > s
        /\ reader[r].doing = "served" => reader[r].shown.owner = links[k].owner
    BY DEF PublishingInv, ServedWhileLive
  <2> HIDE DEF k, s
  <2>3. /\ links'[k].revoked # 0 => links'[k].revoked >= s
        /\ links'[k].until # 0 => links'[k].until > s
        /\ reader[r].doing = "served" => reader[r].shown.owner = links'[k].owner
    BY <1>2, <1>6, <2>1, <2>2
  <2> QED BY <2>3 DEF k, s
<1>10. MarksHaveNotes' BY <1>6, <1>8 DEF PublishingInv, MarksHaveNotes
<1> QED BY <1>7, <1>8, <1>9, <1>10 DEF PublishingInv

\* One reader goes on.
LEMMA ReaderMoves ==
    ASSUME PublishingInv, NEW r \in Readers, NEW doing, NEW link, NEW since, NEW shown,
           reader' = [reader EXCEPT ![r] = [doing |-> doing, link |-> link, since |-> since, shown |-> shown]],
           UNCHANGED <<date, links, body, storedTexts>>,
           doing # "idle" =>
                /\ link \in DOMAIN links /\ since \in Nat /\ since <= date
                /\ links[link].revoked # 0 => links[link].revoked >= since
                /\ links[link].until # 0 => links[link].until > since
                /\ doing = "served" => shown.owner = links[link].owner
                /\ doing = "served" /\ links[link].kind = "wiki_page" => NotedMarks(shown)
    PROVE  PublishingInv'
<1> DEFINE new == [doing |-> doing, link |-> link, since |-> since, shown |-> shown]
<1>1. reader = [q \in Readers |-> [doing |-> reader[q].doing, link |-> reader[q].link,
                                   since |-> reader[q].since, shown |-> reader[q].shown]]
  BY DEF PublishingInv, PublishingTypes
<1>2. /\ new.doing = doing /\ new.link = link /\ new.since = since /\ new.shown = shown
      /\ new = [doing |-> new.doing, link |-> new.link, since |-> new.since, shown |-> new.shown]
  OBVIOUS
<1>3. reader' = [q \in Readers |-> IF q = r THEN new ELSE reader[q]]
  <2> DEFINE shape(q) == [doing |-> reader[q].doing, link |-> reader[q].link,
                          since |-> reader[q].since, shown |-> reader[q].shown]
  <2>1. reader = [q \in Readers |-> shape(q)] BY <1>1
  <2>2. DOMAIN reader = Readers BY <2>1
  <2>3. reader' = [reader EXCEPT ![r] = new] OBVIOUS
  <2> HIDE DEF new, shape
  <2> QED BY <2>2, <2>3
<1> HIDE DEF new
<1>4. reader'[r] = new /\ \A q \in Readers : q # r => reader'[q] = reader[q] BY <1>3
<1>5. PublishingTypes' BY <1>1, <1>2, <1>3, <1>4 DEF PublishingInv, PublishingTypes
<1>6. ReadersFound' BY <1>2, <1>4 DEF PublishingInv, ReadersFound
<1>7. ServedWhileLive' BY <1>2, <1>4 DEF PublishingInv, ServedWhileLive
<1>8. MarksHaveNotes' BY <1>2, <1>4 DEF PublishingInv, MarksHaveNotes, NotedMarks
<1> QED BY <1>5, <1>6, <1>7, <1>8 DEF PublishingInv

\* A link that is found is live.
LEMMA FindLiveShareKeeps ==
    ASSUME PublishingInv, NEW r \in Readers, NEW i \in DOMAIN links, FindLiveShare(r, i)
    PROVE  PublishingInv'
<1> DEFINE none == NothingShown
<1>1. [IdleReader EXCEPT !.doing = "found", !.link = i, !.since = date]
        = [doing |-> "found", link |-> i, since |-> date, shown |-> none]
  <2>1. IdleReader = [doing |-> "idle", link |-> 0, since |-> 0, shown |-> none]
    BY DEF IdleReader
  <2> HIDE DEF none
  <2>2. [IdleReader EXCEPT !.doing = "found"] = [doing |-> "found", link |-> 0, since |-> 0, shown |-> none]
    BY <2>1
  <2>3. [IdleReader EXCEPT !.doing = "found", !.link = i]
            = [doing |-> "found", link |-> i, since |-> 0, shown |-> none]
    <3> DEFINE was == [IdleReader EXCEPT !.doing = "found"]
    <3>1. was = [doing |-> "found", link |-> 0, since |-> 0, shown |-> none] BY <2>2
    <3>2. [was EXCEPT !.link = i] = [doing |-> "found", link |-> i, since |-> 0, shown |-> none]
      <4> HIDE DEF was
      <4> QED BY <3>1
    <3> QED BY <3>2
  <2> DEFINE was == [IdleReader EXCEPT !.doing = "found", !.link = i]
  <2>4. was = [doing |-> "found", link |-> i, since |-> 0, shown |-> none] BY <2>3
  <2>5. [was EXCEPT !.since = date] = [doing |-> "found", link |-> i, since |-> date, shown |-> none]
    <3> HIDE DEF was
    <3> QED BY <2>4
  <2> QED BY <2>5
<1> HIDE DEF none
<1>2. /\ reader' = [reader EXCEPT ![r] = [doing |-> "found", link |-> i, since |-> date, shown |-> none]]
      /\ UNCHANGED <<date, links, body, storedTexts>>
  BY <1>1 DEF FindLiveShare
<1>3. /\ date \in Nat /\ date <= date
      /\ links[i].revoked = 0
      /\ links[i].until # 0 => links[i].until > date
  BY DEF FindLiveShare, Live, PublishingInv, PublishingTypes
<1> QED BY <1>2, <1>3, ReaderMoves

\* A snapshot is of the link that was found, and its marks have notes.
LEMMA PublicSnapshotKeeps ==
    ASSUME PublishingInv, NEW r \in Readers, PublicSnapshot(r)
    PROVE  PublishingInv'
<1> DEFINE k == reader[r].link
           s == reader[r].since
           o == links[k].owner
           shown == IF links[k].kind = "wiki_page" THEN WikiSnapshot(o) ELSE AnswerSnapshot(o)
<1>1. reader[r].doing = "found" /\ UNCHANGED <<date, links, body, storedTexts>>
  BY DEF PublicSnapshot
<1>2. /\ k \in DOMAIN links /\ s \in Nat /\ s <= date
      /\ links[k].revoked # 0 => links[k].revoked >= s
      /\ links[k].until # 0 => links[k].until > s
  BY <1>1 DEF PublishingInv, ReadersFound, ServedWhileLive
<1>3. links[k] \in Shares BY <1>2, LinksListed DEF PublishingInv
<1>4. o \in Owners BY <1>3 DEF Shares
<1>5. WikiSnapshot(o).owner = o /\ NotedMarks(WikiSnapshot(o))
  <2> HIDE DEF o
  <2>1. body[o] \in Bodies BY <1>4 DEF PublishingInv, PublishingTypes
  <2>2. BodyShape(body[o]) BY <2>1, BodiesShaped
  <2> QED BY <2>2, PageNoted
<1>6. AnswerSnapshot(o).owner = o BY DEF AnswerSnapshot
<1>7. shown.owner = o /\ (links[k].kind = "wiki_page" => NotedMarks(shown))
  <2> HIDE DEF o
  <2> QED BY <1>5, <1>6
<1>8. reader' = [reader EXCEPT ![r] = [doing |-> "served", link |-> k, since |-> s, shown |-> shown]]
  <2>1. reader[r] = [doing |-> reader[r].doing, link |-> k, since |-> s, shown |-> reader[r].shown]
    BY DEF PublishingInv, PublishingTypes
  <2>2. reader' = [reader EXCEPT ![r].doing = "served", ![r].shown = shown]
    BY DEF PublicSnapshot
  <2>3. DOMAIN reader = Readers BY DEF PublishingInv, PublishingTypes
  <2> DEFINE was == reader[r]
             first == [reader EXCEPT ![r] = [was EXCEPT !.doing = "served"]]
  <2>4. [was EXCEPT !.doing = "served"] = [doing |-> "served", link |-> k, since |-> s, shown |-> was.shown]
    <3> HIDE DEF k, s, was
    <3> QED BY <2>1 DEF was
  <2>5. reader' = [first EXCEPT ![r].shown = shown] BY <2>2
  <2> HIDE DEF shown, k, s, was
  <2>6. first[r] = [doing |-> "served", link |-> k, since |-> s, shown |-> was.shown] /\ DOMAIN first = Readers
    BY <2>3, <2>4
  <2>7. [first[r] EXCEPT !.shown = shown] = [doing |-> "served", link |-> k, since |-> s, shown |-> shown]
    <3> HIDE DEF first
    <3> QED BY <2>6
  <2>8. reader' = [first EXCEPT ![r] = [doing |-> "served", link |-> k, since |-> s, shown |-> shown]]
    <3> HIDE DEF first
    <3> QED BY <2>5, <2>7
  <2> QED BY <2>3, <2>8
<1> HIDE DEF shown, k, s
<1>9. "served" # "idle" OBVIOUS
<1> QED BY <1>1, <1>2, <1>7, <1>8, ReaderMoves DEF o

\* A reader that is done reads nothing.
LEMMA NextReaderKeeps ==
    ASSUME PublishingInv, NEW r \in Readers, NextReader(r)
    PROVE  PublishingInv'
<1> DEFINE none == NothingShown
<1>1. IdleReader = [doing |-> "idle", link |-> 0, since |-> 0, shown |-> none] BY DEF IdleReader
<1> HIDE DEF none
<1>2. /\ reader' = [reader EXCEPT ![r] = [doing |-> "idle", link |-> 0, since |-> 0, shown |-> none]]
      /\ UNCHANGED <<date, links, body, storedTexts>>
  BY <1>1 DEF NextReader
<1> QED BY <1>2, ReaderMoves

\* The invariant is inductive.
LEMMA PublishingInvStep ==
    PublishingInv /\ [PublishingNext]_publishingVars => PublishingInv'
<1> SUFFICES ASSUME PublishingInv, [PublishingNext]_publishingVars PROVE PublishingInv' OBVIOUS
<1>1. CASE UNCHANGED <<links, reader>> /\ date' \in Nat \ {0} /\ date <= date' /\ body' \in [Owners -> Bodies]
  <2>1. PublishingTypes' BY <1>1 DEF PublishingInv, PublishingTypes
  <2>2. ReadersFound' BY <1>1 DEF PublishingInv, PublishingTypes, ReadersFound
  <2>3. ServedWhileLive' /\ MarksHaveNotes'
    BY <1>1 DEF PublishingInv, ServedWhileLive, MarksHaveNotes
  <2> QED BY <2>1, <2>2, <2>3 DEF PublishingInv
<1>2. date \in Nat \ {0} /\ date <= date /\ body \in [Owners -> Bodies]
  BY DEF PublishingInv, PublishingTypes
<1>3. CASE UNCHANGED publishingVars BY <1>1, <1>2, <1>3 DEF publishingVars
<1>4. CASE NextDate BY <1>1, <1>2, <1>4 DEF NextDate
<1>5. ASSUME NEW o \in Owners, NEW kind \in {"wiki_page", "answer"}, NEW days \in {0, 1}, CreateShare(o, kind, days)
      PROVE  PublishingInv'
  BY <1>5, CreateShareKeeps
<1>6. ASSUME NEW o \in Owners, NEW i \in DOMAIN links, RevokeShare(o, i) PROVE PublishingInv'
  BY <1>6, RevokeShareKeeps
<1>7. ASSUME NEW r \in Readers, NEW i \in DOMAIN links, FindLiveShare(r, i) PROVE PublishingInv'
  BY <1>7, FindLiveShareKeeps
<1>8. ASSUME NEW r \in Readers, PublicSnapshot(r) \/ NextReader(r) PROVE PublishingInv'
  BY <1>8, PublicSnapshotKeeps, NextReaderKeeps
<1>9. ASSUME NEW o \in Owners, NEW b \in Bodies, CompilePage(o, b) PROVE PublishingInv'
  BY <1>1, <1>2, <1>9 DEF CompilePage
<1>10. ASSUME NEW v \in DOMAIN TextVersions, DeleteText(v) PROVE PublishingInv'
  BY <1>1, <1>2, <1>10 DEF DeleteText
<1> QED BY <1>3, <1>4, <1>5, <1>6, <1>7, <1>8, <1>9, <1>10 DEF PublishingNext

\* The invariant is stronger than what is promised of links and briefs.
LEMMA PublishedRight ==
    PublishingInv => PublishingTells
<1> SUFFICES ASSUME PublishingInv PROVE PublishingTells OBVIOUS
<1>1. \A o \in Owners : body[o] \in Bodies BY DEF PublishingInv, PublishingTypes
<1>2. BriefsHold BY <1>1, BodiesShaped, BriefsRendered
<1> QED BY <1>2 DEF PublishingInv, PublishingTells

\* For any number of owners, links, readers, pages and evidence: a link shows its owner's
\* page only if it was live when it was looked up, every mark of a page has its note, and a
\* brief numbers its evidence in order of use, each piece once, from the owner's own text.
THEOREM PublishingStands ==
    PublishingSpec => []PublishingTells
BY PublishingInvInit, PublishingInvStep, PublishedRight, PTL DEF PublishingSpec
=============================================================================

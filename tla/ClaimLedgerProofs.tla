-------------------------- MODULE ClaimLedgerProofs --------------------------
(* Proofs about ClaimLedger and the DocumentVersions it is built on: that   *)
(* world time orders the versions of every document, that the ledger uses   *)
(* versions only as DocumentVersions allows, its types, that claims are     *)
(* superseded forward in world time and notes never, that only a silent     *)
(* version leaves a document unreconciled, and, with one worker thread,     *)
(* which claims, contradictions and events stand.                           *)
EXTENDS ClaimLedger, FiniteSetTheorems, WellFoundedInduction, SequenceTheorems,
        TLAPS

-----------------------------------------------------------------------------
(* Versions.                                                                *)

\* Every set of naturals that is not empty has a least element.
LEMMA LeastNatural ==
    ASSUME NEW T \in SUBSET Nat, T # {}
    PROVE  \E m \in T : \A t \in T : m <= t
<1>1. IsWellFoundedOn(OpToRel(<, Nat), Nat) BY NatLessThanWellFounded
<1>2. PICK m \in T : \A t \in T : ~(<<t, m>> \in OpToRel(<, Nat)) BY <1>1, WFMin
<1>3. \A t \in T : ~(t < m) BY <1>2 DEF OpToRel
<1> QED BY <1>3

\* n values leave one of any n + 1 consecutive instants free.
LEMMA OneIsFree ==
    ASSUME NEW f, NEW n \in Nat, NEW a \in Nat
    PROVE  \E t \in a..(a + n) : \A i \in 1..n : f[i] # t
<1> DEFINE Taken == {f[i] : i \in 1..n}
           g == [i \in 1..n |-> f[i]]
<1>1. g \in Surjection(1..n, Taken) BY DEF Surjection
<1>2. IsFiniteSet(1..n) /\ Cardinality(1..n) = n BY FS_Interval
<1>3. IsFiniteSet(Taken) /\ Cardinality(Taken) <= n BY <1>1, <1>2, FS_Surjection
<1>4. SUFFICES ASSUME \A t \in a..(a + n) : \E i \in 1..n : f[i] = t
               PROVE  FALSE
  OBVIOUS
<1>5. a..(a + n) \in SUBSET Taken BY <1>4
<1>6. Cardinality(a..(a + n)) <= Cardinality(Taken) BY <1>3, <1>5, FS_Subset
<1>7. Cardinality(a..(a + n)) = n + 1 BY FS_Interval
<1>8. Cardinality(Taken) \in Nat BY <1>3, FS_CardinalityType
<1> QED BY <1>3, <1>6, <1>7, <1>8

VersionRow == [doc : Docs, text : Texts, at : Nat \ {0}]

\* Every version has a world time.
LEMMA RowTimes ==
    ASSUME version \in Seq(VersionRow)
    PROVE  \A v \in DOMAIN version : version[v].at \in Nat \ {0}
<1>1. ASSUME NEW v \in DOMAIN version
      PROVE  version[v] \in VersionRow
  <2>1. v \in 1..Len(version) BY DEF VersionRow
  <2> HIDE DEF VersionRow
  <2> QED BY <2>1, ElementOfSeq
<1> QED BY <1>1 DEF VersionRow

\* _bump ends, and on an instant, no earlier than the one asked for, that the document
\* does not use.
LEMMA NudgeIsFree ==
    ASSUME version \in Seq(VersionRow), NEW d \in Docs, NEW at \in Nat \ {0}
    PROVE  /\ Nudge(d, at) # {}
           /\ \A t \in Nudge(d, at) : t \in Nat \ {0} /\ at <= t /\ Free(d, t)
<1> DEFINE n == Len(version)
           ats == [i \in 1..n |-> version[i].at]
<1>1. n \in Nat /\ DOMAIN version = 1..n OBVIOUS
<1>2. PICK t \in (at + 2)..(at + 2 + n) : \A i \in 1..n : ats[i] # t
  <2>1. at + 2 \in Nat OBVIOUS
  <2> HIDE DEF n, ats
  <2> QED BY <1>1, <2>1, OneIsFree
<1>3. Free(d, t) BY <1>1, <1>2 DEF Free, Of, At
<1>4. Nudge(d, at) # {} BY <1>1, <1>2, <1>3 DEF Nudge
<1>5. \A u \in Nudge(d, at) : u \in Nat \ {0} /\ at <= u /\ Free(d, u) BY <1>1 DEF Nudge
<1> QED BY <1>4, <1>5

Bounded == \E b \in Nat : \A v \in DOMAIN version : At(v) <= b

\* max(versions, key=effective_at) is the document's version with the greatest world time.
LEMMA LatestIsGreatest ==
    ASSUME version \in Seq(VersionRow), Bounded, NEW d \in Docs, Of(d) # {}
    PROVE  Latest(d) \in Of(d) /\ \A u \in Of(d) : At(u) <= At(Latest(d))
<1> DEFINE U == {b \in Nat : \A v \in Of(d) : At(v) <= b}
<1>1. \A v \in Of(d) : At(v) \in Nat \ {0} BY RowTimes DEF Of, At
<1>2. U \in SUBSET Nat /\ U # {} BY DEF Bounded, Of
<1>3. PICK m \in U : \A b \in U : m <= b
  <2> HIDE DEF U
  <2> QED BY <1>2, LeastNatural
<1>4. \E v \in Of(d) : At(v) = m
  <2>1. SUFFICES ASSUME \A v \in Of(d) : At(v) # m
                 PROVE  FALSE
    OBVIOUS
  <2>2. \A v \in Of(d) : At(v) <= m - 1 BY <1>1, <1>3, <2>1
  <2>3. m - 1 \in U BY <1>1, <1>3, <2>2
  <2> QED BY <1>3, <2>3
<1>5. \E v \in Of(d) : \A u \in Of(d) : At(u) <= At(v) BY <1>3, <1>4
<1> QED BY <1>5 DEF Latest

-----------------------------------------------------------------------------
\* uq_document_versions_hash: a document has a text once.
TextsDistinct ==
    \A u, v \in DOMAIN version :
        version[u].doc = version[v].doc /\ version[u].text = version[v].text => u = v

\* A note's identity is its content: it has one version.
NotesAreSingle ==
    \A u, v \in DOMAIN version :
        version[u].doc = version[v].doc /\ version[u].doc \in Notes => u = v

VersionsInv ==
    /\ VersionsTypeOK
    /\ Bounded
    /\ InstantsDistinct
    /\ TextsDistinct
    /\ NotesAreSingle
    /\ Len(version) <= MaxVersions

\* A text the document never had becomes its newest row, at a free instant, and is
\* current unless a version at a later instant is.
LEMMA StoreAppends ==
    ASSUME VersionsInv, NEW d \in Docs, NEW x \in Texts, NEW at \in Nat \ {0},
           Stored(d, x) = {}, Store(d, x, at)
    PROVE  /\ version' \in Seq(VersionRow)
           /\ Len(version') = Len(version) + 1 /\ Len(version') <= MaxVersions
           /\ \A i \in DOMAIN version : version'[i] = version[i]
           /\ version'[Len(version) + 1].doc = d
           /\ version'[Len(version) + 1].text = x
           /\ current' \in [Docs -> {0} \cup DOMAIN version']
           /\ \/ current'[d] = Len(version) + 1
              \/ /\ current'[d] \in Of(d) /\ \A u \in Of(d) : At(u) <= At(current'[d])
                 /\ \E u \in Of(d) : At(u) > at
           /\ Bounded' /\ InstantsDistinct' /\ TextsDistinct'
<1>1. version \in Seq(VersionRow) /\ current \in [Docs -> {0} \cup DOMAIN version]
  BY DEF VersionsInv, VersionsTypeOK, VersionRow
<1>2. PICK t \in Nudge(d, at) :
        /\ version' = Append(version, [doc |-> d, text |-> x, at |-> t])
        /\ current' = [current EXCEPT ![d] =
                         IF \E v \in Of(d) : At(v) > t THEN Latest(d) ELSE Len(version) + 1]
  BY DEF Store
<1>3. t \in Nat \ {0} /\ at <= t /\ \A v \in Of(d) : At(v) # t BY <1>1, NudgeIsFree DEF Free
<1> DEFINE r == [doc |-> d, text |-> x, at |-> t]
<1>4. r \in VersionRow BY <1>3 DEF VersionRow
<1>5. /\ version' \in Seq(VersionRow)
      /\ Len(version') = Len(version) + 1
      /\ \A i \in 1..Len(version) : version'[i] = version[i]
      /\ version'[Len(version) + 1] = r
  <2>1. version' = Append(version, r) BY <1>2
  <2> HIDE DEF r
  <2> QED BY <1>1, <1>4, <2>1, AppendProperties
<1>6. DOMAIN version = 1..Len(version) /\ DOMAIN version' = 1..(Len(version) + 1) /\ Len(version) \in Nat
  BY <1>1, <1>5
<1>7. Of(d) # {} => Latest(d) \in Of(d) /\ \A u \in Of(d) : At(u) <= At(Latest(d))
  BY <1>1, LatestIsGreatest DEF VersionsInv
<1>8. \A v \in DOMAIN version : version[v].at \in Nat \ {0} BY <1>1, RowTimes
<1>9. current'[d] = IF \E v \in Of(d) : At(v) > t THEN Latest(d) ELSE Len(version) + 1
  BY <1>1, <1>2
<1>10. current' \in [Docs -> {0} \cup DOMAIN version'] BY <1>1, <1>2, <1>6, <1>7 DEF Of
<1>11. \/ current'[d] = Len(version) + 1
       \/ /\ current'[d] \in Of(d) /\ \A u \in Of(d) : At(u) <= At(current'[d])
          /\ \E u \in Of(d) : At(u) > at
  <2>1. ASSUME NEW v \in Of(d), At(v) > t
        PROVE  At(v) > at
    BY <1>3, <1>8, <2>1 DEF Of, At
  <2> QED BY <1>7, <1>9, <2>1
<1>12. Bounded'
  <2>1. PICK b \in Nat : \A v \in DOMAIN version : At(v) <= b BY DEF VersionsInv, Bounded
  <2>2. \A v \in DOMAIN version' : version'[v].at <= b + t
    BY <1>3, <1>5, <1>6, <1>8, <2>1 DEF At
  <2>3. b + t \in Nat BY <1>3, <2>1
  <2> QED BY <2>2, <2>3 DEF Bounded, At
<1>13. InstantsDistinct' BY <1>3, <1>5, <1>6 DEF Of, At, InstantsDistinct, VersionsInv
<1>14. TextsDistinct' BY <1>5, <1>6 DEF Stored, Of, TextsDistinct, VersionsInv
<1>15. Len(version') <= MaxVersions BY <1>5, <1>6, VersionsAssumption DEF Store
<1> QED BY <1>5, <1>6, <1>10, <1>11, <1>12, <1>13, <1>14, <1>15

\* The world time chosen for a live version is an instant, and later than every other
\* version of the document unless it is the clock's.
LEMMA EffectiveTime ==
    ASSUME VersionsInv, NEW d \in Docs, NEW p \in Instants \cup {Undated}
    PROVE  /\ Effective(d, p) \in Nat \ {0}
           /\ Effective(d, p) # now => \A v \in Of(d) : At(v) < Effective(d, p)
<1>1. version \in Seq(VersionRow) /\ now \in Nat \ {0} /\ p \in Nat
  BY VersionsAssumption DEF VersionsInv, VersionsTypeOK, VersionRow, Instants, Undated
<1>2. Of(d) # {} => \A u \in Of(d) : At(u) <= At(Latest(d)) /\ At(u) \in Nat /\ At(Latest(d)) \in Nat
  BY <1>1, LatestIsGreatest, RowTimes DEF VersionsInv, Of, At
<1> QED BY <1>1, <1>2 DEF Effective, Undated

\* Storing a text or finding it keeps the types, the bound on world time and what is
\* distinct, and changes no row there was.
LEMMA UpsertKeeps ==
    ASSUME VersionsInv, NEW d \in Docs, NEW x \in Texts, NEW at \in Nat \ {0}, Upsert(d, x, at),
           d \in Notes => Stored(d, x) = Of(d)
    PROVE  /\ version' \in Seq(VersionRow) /\ Len(version') <= MaxVersions
           /\ current' \in [Docs -> {0} \cup DOMAIN version']
           /\ DOMAIN version \subseteq DOMAIN version'
           /\ \A v \in DOMAIN version : version'[v] = version[v]
           /\ Bounded' /\ InstantsDistinct' /\ TextsDistinct' /\ NotesAreSingle'
<1>1. /\ version \in Seq(VersionRow) /\ Len(version) <= MaxVersions
      /\ current \in [Docs -> {0} \cup DOMAIN version]
      /\ Bounded /\ InstantsDistinct /\ TextsDistinct /\ NotesAreSingle
  BY DEF VersionsInv, VersionsTypeOK, VersionRow
<1>2. CASE Stored(d, x) = {} /\ Store(d, x, at)
  <2>1. /\ version' \in Seq(VersionRow)
        /\ Len(version') = Len(version) + 1 /\ Len(version') <= MaxVersions
        /\ \A i \in DOMAIN version : version'[i] = version[i]
        /\ version'[Len(version) + 1].doc = d
        /\ current' \in [Docs -> {0} \cup DOMAIN version']
        /\ Bounded' /\ InstantsDistinct' /\ TextsDistinct'
    BY <1>2, StoreAppends
  <2>2. DOMAIN version = 1..Len(version) /\ Len(version) \in Nat BY <1>1
  <2>3. DOMAIN version' = 1..(Len(version) + 1) BY <2>1, <2>2
  <2>4. NotesAreSingle' BY <1>1, <1>2, <2>1, <2>2, <2>3 DEF Of, NotesAreSingle
  <2> QED BY <2>1, <2>2, <2>3, <2>4
<1>3. CASE \E v \in Stored(d, x) : Revert(d, v)
  <2>1. PICK v \in DOMAIN version : Revert(d, v) BY <1>3 DEF Stored, Of
  <2> QED BY <1>1, <2>1 DEF Revert, Bounded, InstantsDistinct, TextsDistinct, NotesAreSingle, At
<1> QED BY <1>2, <1>3 DEF Upsert

\* Every step keeps the invariant, and changes no row there was.
LEMMA StepKeepsInv ==
    ASSUME VersionsInv, [VersionsNext]_versionVars
    PROVE  /\ VersionsInv'
           /\ DOMAIN version \subseteq DOMAIN version'
           /\ \A v \in DOMAIN version : version'[v] = version[v]
<1> DEFINE Rows == /\ DOMAIN version \subseteq DOMAIN version'
                   /\ \A v \in DOMAIN version : version'[v] = version[v]
<1>1. /\ version \in Seq(VersionRow) /\ Len(version) <= MaxVersions
      /\ current \in [Docs -> {0} \cup DOMAIN version]
      /\ shown \in [Docs -> {0} \cup DOMAIN version]
      /\ now \in Instants
      /\ Bounded /\ InstantsDistinct /\ TextsDistinct /\ NotesAreSingle
  BY DEF VersionsInv, VersionsTypeOK, VersionRow
<1>2. ASSUME NEW d \in Docs, NEW x \in Texts, NEW p \in Instants \cup {Undated}, Fetch(d, x, p)
      PROVE  VersionsInv' /\ Rows
  BY <1>1, <1>2, EffectiveTime, UpsertKeeps DEF Fetch, VersionsInv, VersionsTypeOK, VersionRow
<1>3. ASSUME NEW d \in Docs, NEW x \in Texts, NEW t \in Instants, Backfill(d, x, t)
      PROVE  VersionsInv' /\ Rows
  <2>1. t \in Nat \ {0} /\ Upsert(d, x, t) /\ d \notin Notes /\ now' = now /\ shown' = shown
    BY <1>3, VersionsAssumption DEF Backfill, Instants
  <2>2. /\ version' \in Seq(VersionRow) /\ Len(version') <= MaxVersions
        /\ current' \in [Docs -> {0} \cup DOMAIN version']
        /\ Bounded' /\ InstantsDistinct' /\ TextsDistinct' /\ NotesAreSingle' /\ Rows
    BY <2>1, UpsertKeeps
  <2> QED BY <1>1, <2>1, <2>2 DEF VersionsInv, VersionsTypeOK, VersionRow
<1>4. ASSUME Tick
      PROVE  VersionsInv' /\ Rows
  <2>1. version' = version /\ current' = current /\ shown' = shown BY <1>4 DEF Tick
  <2>2. now' \in Instants BY <1>1, <1>4, VersionsAssumption DEF Tick, Instants
  <2>3. Bounded' /\ InstantsDistinct' /\ TextsDistinct' /\ NotesAreSingle'
    BY <1>1, <2>1 DEF Bounded, InstantsDistinct, TextsDistinct, NotesAreSingle, At
  <2> QED BY <1>1, <2>1, <2>2, <2>3 DEF VersionsInv, VersionsTypeOK, VersionRow
<1>5. ASSUME UNCHANGED versionVars
      PROVE  VersionsInv' /\ Rows
  BY <1>1, <1>5 DEF versionVars, VersionsInv, VersionsTypeOK, VersionRow, Bounded,
                    InstantsDistinct, TextsDistinct, NotesAreSingle, At
<1> QED BY <1>2, <1>3, <1>4, <1>5 DEF VersionsNext

\* The invariant holds initially.
LEMMA InitInv == VersionsInit => VersionsInv
<1> SUFFICES ASSUME VersionsInit PROVE VersionsInv OBVIOUS
<1>1. version = <<>> /\ now \in Instants BY VersionsAssumption DEF VersionsInit, Instants
<1>2. version \in Seq(VersionRow) /\ DOMAIN version = {} BY <1>1
<1>3. VersionsTypeOK BY <1>1, <1>2 DEF VersionsInit, VersionsTypeOK, VersionRow
<1>4. Bounded /\ InstantsDistinct /\ TextsDistinct /\ NotesAreSingle
  BY <1>2 DEF Bounded, InstantsDistinct, TextsDistinct, NotesAreSingle
<1>5. Len(version) <= MaxVersions BY <1>1, VersionsAssumption
<1> QED BY <1>3, <1>4, <1>5 DEF VersionsInv

\* World time orders the versions of every document, for any number of documents,
\* texts, versions and instants.
THEOREM WorldTimeOrders == VersionsSpec => []InstantsDistinct
<1>1. VersionsInv /\ [VersionsNext]_versionVars => VersionsInv' BY StepKeepsInv
<1>2. VersionsInv => InstantsDistinct BY DEF VersionsInv
<1> QED BY InitInv, <1>1, <1>2, PTL DEF VersionsSpec

\* What a fetch saw is current, unless a version of a later instant is.
LEMMA FetchIsShown ==
    ASSUME VersionsInv, NEW d \in Docs, NEW x \in Texts, NEW p \in Instants \cup {Undated},
           Fetch(d, x, p)
    PROVE  current'[d] = shown'[d] \/ version'[current'[d]].at > now
<1>1. /\ version \in Seq(VersionRow) /\ shown \in [Docs -> {0} \cup DOMAIN version]
      /\ current \in [Docs -> {0} \cup DOMAIN version] /\ now \in Nat \ {0}
  BY VersionsAssumption DEF VersionsInv, VersionsTypeOK, VersionRow, Instants
<1>2. PICK v \in DOMAIN version' :
        version'[v].doc = d /\ version'[v].text = x /\ shown' = [shown EXCEPT ![d] = v]
  BY DEF Fetch
<1>3. shown'[d] = v BY <1>1, <1>2
<1> DEFINE e == Effective(d, p)
<1>4. e \in Nat \ {0} /\ Upsert(d, x, e) /\ (e # now => \A u \in Of(d) : At(u) < e)
  BY EffectiveTime DEF Fetch
<1>5. CASE Stored(d, x) = {}
  <2>1. Store(d, x, e) BY <1>4, <1>5 DEF Upsert
  <2>2. /\ Len(version') = Len(version) + 1 /\ version' \in Seq(VersionRow)
        /\ \A i \in DOMAIN version : version'[i] = version[i]
        /\ \/ current'[d] = Len(version) + 1
           \/ /\ current'[d] \in Of(d) /\ \A u \in Of(d) : At(u) <= At(current'[d])
              /\ \E u \in Of(d) : At(u) > e
    <3> HIDE DEF e
    <3> QED BY <1>4, <1>5, <2>1, StoreAppends
  <2>3. DOMAIN version' = 1..(Len(version) + 1) /\ DOMAIN version = 1..Len(version) /\ Len(version) \in Nat
    BY <1>1, <2>2
  <2>4. v = Len(version) + 1 BY <1>2, <1>5, <2>2, <2>3 DEF Stored, Of
  <2>5. \A u \in Of(d) : At(u) \in Nat BY <1>1, RowTimes DEF Of, At
  <2>6. ASSUME current'[d] \in Of(d), \A u \in Of(d) : At(u) <= At(current'[d]),
               NEW u \in Of(d), At(u) > e
        PROVE  version'[current'[d]].at > now
    <3>1. e = now BY <1>4, <2>5, <2>6
    <3>2. At(current'[d]) > now BY <1>1, <2>5, <2>6, <3>1
    <3> QED BY <2>2, <2>6, <3>2 DEF Of, At
  <2> QED BY <1>3, <2>2, <2>4, <2>6
<1>6. CASE Stored(d, x) # {}
  <2>1. PICK u \in Stored(d, x) : Revert(d, u) BY <1>4, <1>6 DEF Upsert
  <2>2. version' = version /\ current'[d] = u BY <1>1, <2>1 DEF Revert
  <2>3. u = v BY <1>2, <2>1, <2>2 DEF Stored, Of, VersionsInv, TextsDistinct
  <2> QED BY <1>3, <2>2, <2>3
<1> QED BY <1>5, <1>6

\* A live fetch is never hidden by an archived version: whatever dates and archives
\* say, the document shows what the fetch saw, or a version of a later instant.
THEOREM LiveShown == VersionsSpec => LiveIsCurrent
<1>1. VersionsInv /\ [VersionsNext]_versionVars
        => [\A d \in Docs :
              shown'[d] # shown[d] =>
                current'[d] = shown'[d] \/ version'[current'[d]].at > now]_versionVars
  <2> SUFFICES ASSUME VersionsInv, VersionsNext, NEW d \in Docs, shown'[d] # shown[d]
               PROVE  current'[d] = shown'[d] \/ version'[current'[d]].at > now
    OBVIOUS
  <2>1. PICK f \in Docs, x \in Texts, p \in Instants \cup {Undated} : Fetch(f, x, p)
    BY DEF VersionsNext, Backfill, Tick
  <2>2. shown \in [Docs -> {0} \cup DOMAIN version] BY DEF VersionsInv, VersionsTypeOK
  <2>3. f = d BY <2>1, <2>2 DEF Fetch
  <2> QED BY <2>1, <2>3, FetchIsShown
<1>2. VersionsInv /\ [VersionsNext]_versionVars => VersionsInv' BY StepKeepsInv
<1> QED BY InitInv, <1>1, <1>2, PTL DEF VersionsSpec, LiveIsCurrent

-----------------------------------------------------------------------------
(* The ledger implements its versions, and supersedes forward.              *)

\* Every job is, to the versions, a fetch, a backfill, the clock, or nothing.
LEMMA StepsAreVersionSteps == [Next]_vars => [VersionsNext]_versionVars
<1> SUFFICES ASSUME [Next]_vars PROVE [VersionsNext]_versionVars OBVIOUS
<1>1. CASE \E d \in Docs, x \in Texts, p \in Instants \cup {Undated} : IngestSource(d, x, p)
  BY <1>1 DEF IngestSource, VersionsNext
<1>2. CASE \E d \in Docs, x \in Texts, at \in Instants, counted \in BOOLEAN :
             WaybackBackfill(d, x, at, counted)
  BY <1>2 DEF WaybackBackfill, VersionsNext
<1>3. CASE \E v \in DOMAIN version : Extract(v) \/ ExtractNothing(v)
  BY <1>3 DEF Extract, ExtractNothing
<1>4. CASE \E pair \in judging : Judge(pair[1], pair[2]) BY <1>4 DEF Judge
<1>5. CASE \E t \in Threads : (\E d \in Docs : BeginReconcile(t, d)) \/ CommitReconcile(t)
                              \/ AbandonReconcile(t)
  BY <1>5 DEF BeginReconcile, CommitReconcile, AbandonReconcile
<1>6. CASE \E p \in opposed, l \in {"confirmed", "rejected"} : PatchRelation(p, l)
  BY <1>6 DEF PatchRelation
<1>7. CASE Clock BY <1>7 DEF Clock, VersionsNext
<1>8. CASE UNCHANGED vars BY <1>8 DEF vars
<1> QED BY <1>1, <1>2, <1>3, <1>4, <1>5, <1>6, <1>7, <1>8 DEF Next

\* The ledger refines its document versions: whatever extraction, judging and
\* reconciling do, versions behave as upsert_document_version alone would have them.
THEOREM VersionsImplemented == Spec => VersionsSpec
<1>1. Init => VersionsInit BY DEF Init
<1> QED BY <1>1, StepsAreVersionSteps, PTL DEF Spec, VersionsSpec

\* In the ledger too, a fetched text is current unless a later instant's is.
THEOREM LedgerLiveShown == Spec => LiveIsCurrent
BY VersionsImplemented, LiveShown, PTL

-----------------------------------------------------------------------------
Known == {c \in Claim : c[1] \in DOMAIN version}
EntryType == [status : {"none", "active", "carried", "superseded", "retracted"},
              by : Claim \cup {NoClaim}]

Forward(n, c) == n \in Known /\ c \in Known /\ At(n[1]) > At(c[1])

\* What every entry a claim has, or is about to get, satisfies.
Sound(c, e) ==
    /\ e \in EntryType
    /\ e.by # NoClaim => Forward(e.by, c)
    /\ c \in Known /\ Doc(c) \in Notes => e.status # "superseded"

LedgerSound ==
    /\ DOMAIN ledger = Claim
    /\ \A c \in Claim : Sound(c, ledger[c]) /\ (Made(c) => c \in Known)

JudgingSound == judging \subseteq Known \X Known

PlanSound(r) == \A c \in DOMAIN r.read : c \in Known /\ Sound(c, r.write[c])

BusySound ==
    /\ busy = [t \in Threads |-> busy[t]]
    /\ \A t \in Threads : busy[t] # Idle => PlanSound(busy[t])

LedgerInv == VersionsInv /\ LedgerSound /\ JudgingSound /\ BusySound

\* A version row stands for good, and so does what was known of a claim.
LEMMA KnownStays ==
    ASSUME VersionsInv, [VersionsNext]_versionVars
    PROVE  /\ Known \subseteq Known'
           /\ \A n, c : Forward(n, c) => Forward(n, c)'
           /\ \A c \in Known : Doc(c)' = Doc(c)
           /\ \A c \in Known : \A e : Sound(c, e) => Sound(c, e)'
<1>1. /\ DOMAIN version \subseteq DOMAIN version'
      /\ \A v \in DOMAIN version : version'[v] = version[v]
  BY StepKeepsInv
<1>2. Known \subseteq Known' BY <1>1 DEF Known
<1>3. \A n, c : Forward(n, c) => Forward(n, c)' BY <1>1, <1>2 DEF Forward, Known, At
<1>4. \A c \in Known : Doc(c)' = Doc(c) BY <1>1 DEF Known, Doc
<1>5. \A c \in Known : \A e : Sound(c, e) => Sound(c, e)' BY <1>2, <1>3, <1>4 DEF Sound
<1> QED BY <1>2, <1>3, <1>4, <1>5

\* Steps that leave the ledger alone keep it sound.
LEMMA QuietStepsKeep ==
    ASSUME LedgerInv, [VersionsNext]_versionVars, UNCHANGED <<ledger, judging, busy>>
    PROVE  LedgerInv'
<1>1. VersionsInv' BY StepKeepsInv DEF LedgerInv
<1>2. /\ Known \subseteq Known'
      /\ \A c \in Known : \A e : Sound(c, e) => Sound(c, e)'
  BY KnownStays DEF LedgerInv
<1>3. LedgerSound'
  <2> SUFFICES ASSUME NEW c \in Claim
               PROVE  Sound(c, ledger[c])' /\ (Made(c) => c \in Known)'
    BY DEF LedgerInv, LedgerSound
  <2>1. Sound(c, ledger[c]) /\ (Made(c) => c \in Known) BY DEF LedgerInv, LedgerSound
  <2>2. CASE c \in Known BY <1>2, <2>1, <2>2
  <2>3. CASE c \notin Known BY <2>1, <2>3 DEF Made, Sound, Unmade, Entry, EntryType
  <2> QED BY <2>2, <2>3
<1>4. JudgingSound' BY <1>2 DEF LedgerInv, JudgingSound
<1>5. BusySound'
  <2> SUFFICES ASSUME NEW t \in Threads, busy[t] # Idle, NEW c \in DOMAIN busy[t].read
               PROVE  (c \in Known /\ Sound(c, busy[t].write[c]))'
    BY DEF LedgerInv, BusySound, PlanSound
  <2>1. c \in Known /\ Sound(c, busy[t].write[c]) BY DEF LedgerInv, BusySound, PlanSound
  <2> QED BY <1>2, <2>1
<1> QED BY <1>1, <1>3, <1>4, <1>5 DEF LedgerInv

\* While versions stay as they are, so does everything said in terms of them.
LEMMA SameVersions ==
    ASSUME UNCHANGED versionVars, VersionsInv
    PROVE  /\ Known' = Known
           /\ \A c, e : Sound(c, e)' <=> Sound(c, e)
           /\ VersionsInv'
BY StepKeepsInv DEF versionVars, Known, Sound, Forward, Doc, At

\* Claims are inserted active, and judged against claims there are.
LEMMA ExtractKeeps ==
    ASSUME LedgerInv, NEW v \in DOMAIN version, Extract(v)
    PROVE  LedgerInv'
<1>1. UNCHANGED versionVars /\ busy' = busy BY DEF Extract
<1>2. /\ Known' = Known /\ VersionsInv'
      /\ \A c, e : Sound(c, e)' <=> Sound(c, e)
  BY <1>1, SameVersions DEF LedgerInv
<1>3. Said(v) \subseteq Known BY DEF Said, Known
<1>4. LedgerSound'
  <2>1. ledger' = [c \in Claim |-> IF c \in Said(v) THEN Entry("active", NoClaim) ELSE ledger[c]]
    BY DEF Extract
  <2>2. \A c \in Claim : Sound(c, Entry("active", NoClaim)) BY DEF Sound, Entry, EntryType
  <2>3. ASSUME NEW c \in Claim
        PROVE  Sound(c, ledger'[c]) /\ (ledger'[c] # Unmade => c \in Known)
    BY <1>3, <2>1, <2>2 DEF LedgerInv, LedgerSound, Made
  <2> QED BY <1>2, <2>1, <2>3 DEF LedgerSound, Made
<1>5. JudgingSound'
  BY <1>2, <1>3 DEF Candidates, Live, LedgerInv, LedgerSound, Made, Unmade, Entry, Extract,
     Known, JudgingSound
<1>6. BusySound' BY <1>1, <1>2 DEF LedgerInv, BusySound, PlanSound
<1> QED BY <1>2, <1>4, <1>5, <1>6 DEF LedgerInv

\* A supersession follows assertion time, and passes over notes.
LEMMA JudgeKeeps ==
    ASSUME LedgerInv, NEW c, NEW o, Judge(c, o)
    PROVE  LedgerInv'
<1>1. UNCHANGED versionVars /\ busy' = busy /\ judging' \subseteq judging BY DEF Judge, workVars
<1>2. /\ Known' = Known /\ VersionsInv'
      /\ \A e, n : Sound(e, n)' <=> Sound(e, n)
  BY <1>1, SameVersions DEF LedgerInv
<1>3. c \in Known /\ o \in Known BY DEF Judge, LedgerInv, JudgingSound
<1>4. ASSUME NEW older \in Known, NEW newer \in Known, Supersedes(newer, older),
             Supersede(older, newer)
      PROVE  LedgerSound'
  <2>1. CASE ledger' = ledger BY <1>2, <2>1 DEF LedgerInv, LedgerSound, Made
  <2>2. CASE /\ Doc(older) \notin Notes
             /\ ledger' = [ledger EXCEPT ![older] = Entry("superseded", newer)]
    <3>1. At(newer[1]) > At(older[1]) BY <1>4 DEF Supersedes, Asserted
    <3>2. older \in Claim /\ newer \in Claim BY DEF Known
    <3>3. Sound(older, Entry("superseded", newer))
      BY <2>2, <3>1, <3>2 DEF Sound, Entry, EntryType, Forward
    <3>4. DOMAIN ledger' = Claim BY <2>2 DEF LedgerInv, LedgerSound
    <3>5. ASSUME NEW e \in Claim
          PROVE  Sound(e, ledger'[e]) /\ (ledger'[e] # Unmade => e \in Known)
      BY <2>2, <3>3 DEF LedgerInv, LedgerSound, Made
    <3> QED BY <1>2, <3>4, <3>5 DEF LedgerSound, Made
  <2> QED BY <1>4, <2>1, <2>2 DEF Supersede
<1>5. LedgerSound'
  <2>1. CASE ledger' = ledger BY <1>2, <2>1 DEF LedgerInv, LedgerSound, Made
  <2>2. CASE Supersedes(c, o) /\ Supersede(o, c) BY <1>3, <1>4, <2>2
  <2>3. CASE Supersedes(o, c) /\ Supersede(c, o) BY <1>3, <1>4, <2>3
  <2> QED BY <2>1, <2>2, <2>3 DEF Judge
<1>6. JudgingSound' BY <1>1, <1>2 DEF LedgerInv, JudgingSound
<1>7. BusySound' BY <1>1, <1>2 DEF LedgerInv, BusySound, PlanSound
<1> QED BY <1>2, <1>5, <1>6, <1>7 DEF LedgerInv

-----------------------------------------------------------------------------
\* A version that is not the last has a next one in world time.
LEMMA SuccessorIsNext ==
    ASSUME VersionsInv, NEW v \in DOMAIN version, Later(v) # {}
    PROVE  Successor(v) \in Later(v)
<1> DEFINE T == {At(u) : u \in Later(v)}
<1>1. \A u \in DOMAIN version : At(u) \in Nat \ {0}
  BY RowTimes DEF VersionsInv, VersionsTypeOK, VersionRow, At
<1>2. T \in SUBSET Nat /\ T # {} BY <1>1 DEF Later, Of
<1>3. PICK m \in T : \A t \in T : m <= t
  <2> HIDE DEF T
  <2> QED BY <1>2, LeastNatural
<1>4. \E u \in Later(v) : \A w \in Later(v) : At(u) <= At(w) BY <1>3
<1> QED BY <1>4 DEF Successor

\* What reconcile decides of a claim: a successor is in a later version, and a note,
\* which has no later version, stays active.
LEMMA OutcomeSound ==
    ASSUME LedgerInv, NEW c \in Known
    PROVE  Sound(c, Outcome(c))
<1> DEFINE s == <<Successor(c[1]), c[2]>>
<1>1. c \in Claim /\ c[1] \in DOMAIN version /\ VersionsInv BY DEF Known, LedgerInv
<1>2. CASE Later(c[1]) = {} BY <1>2 DEF Outcome, Sound, Entry, EntryType
<1>3. CASE Later(c[1]) # {}
  <2>1. /\ Successor(c[1]) \in DOMAIN version
        /\ At(Successor(c[1])) > At(c[1])
        /\ version[Successor(c[1])].doc = version[c[1]].doc
    BY <1>1, <1>3, SuccessorIsNext DEF Later, Of
  <2>2. Successor(c[1]) \in 1..MaxVersions
    BY <1>1, <2>1, VersionsAssumption DEF VersionsInv, VersionsTypeOK
  <2>3. s \in Known BY <1>1, <2>1, <2>2 DEF Known, Claim
  <2>4. Doc(c) \notin Notes
    <3>1. Successor(c[1]) # c[1]
      BY <1>1, <2>1, RowTimes DEF VersionsInv, VersionsTypeOK, VersionRow, At
    <3> QED BY <1>1, <2>1, <3>1 DEF VersionsInv, NotesAreSingle, Doc
  <2>5. Forward(s, c) BY <2>1, <2>3 DEF Forward
  <2>6. s \in Claim BY <2>3 DEF Known
  <2>7. \A status \in {"active", "carried", "superseded", "retracted"} :
          Sound(c, Entry(status, s)) /\ Sound(c, Entry(status, NoClaim))
    <3> HIDE DEF s
    <3> QED BY <2>4, <2>5, <2>6 DEF Sound, Entry, EntryType
  <2> QED BY <1>3, <2>7 DEF Outcome
<1> QED BY <1>2, <1>3

\* A reconcile plans nothing unsound.
LEMMA BeginReconcileKeeps ==
    ASSUME LedgerInv, NEW t \in Threads, NEW d \in Docs, BeginReconcile(t, d)
    PROVE  LedgerInv'
<1>1. UNCHANGED versionVars /\ ledger' = ledger /\ judging' = judging BY DEF BeginReconcile
<1>2. /\ Known' = Known /\ VersionsInv'
      /\ \A c, e : Sound(c, e)' <=> Sound(c, e)
  BY <1>1, SameVersions DEF LedgerInv
<1>3. Own(d) \subseteq Known BY DEF Own, LedgerInv, LedgerSound
<1>4. /\ Plan(d).read = [c \in Own(d) |-> ledger[c]]
      /\ Plan(d).write = [c \in Own(d) |-> Recomputed(d)[c]]
  BY DEF Plan
<1>5. \A c \in Own(d) : Sound(c, Recomputed(d)[c])
  BY <1>3, OutcomeSound DEF Known, LedgerInv, LedgerSound, Recomputed
<1>6. PlanSound(Plan(d)) BY <1>3, <1>4, <1>5 DEF PlanSound
<1>7. BusySound' BY <1>2, <1>6 DEF BeginReconcile, LedgerInv, BusySound, PlanSound
<1>8. LedgerSound' /\ JudgingSound' BY <1>1, <1>2 DEF LedgerInv, LedgerSound, JudgingSound, Made
<1> QED BY <1>2, <1>7, <1>8 DEF LedgerInv

\* A flush leaves each claim with a status and a successor that are sound, whichever of
\* them it wrote.
LEMMA CommitReconcileKeeps ==
    ASSUME LedgerInv, NEW t \in Threads, CommitReconcile(t)
    PROVE  LedgerInv'
<1>1. /\ UNCHANGED versionVars /\ judging' = judging /\ busy[t] # Idle
      /\ busy' = [busy EXCEPT ![t] = Idle]
  BY DEF CommitReconcile
<1>2. /\ Known' = Known /\ VersionsInv'
      /\ \A c, e : Sound(c, e)' <=> Sound(c, e)
  BY <1>1, SameVersions DEF LedgerInv
<1> DEFINE r == busy[t]
<1>3. ledger' = [c \in Claim |->
                   IF c \in DOMAIN r.read THEN Written(r.read[c], r.write[c], ledger[c])
                   ELSE ledger[c]]
  BY DEF CommitReconcile
<1>4. \A c \in DOMAIN r.read : c \in Known /\ Sound(c, r.write[c])
  BY <1>1 DEF LedgerInv, BusySound, PlanSound
<1>5. ASSUME NEW c, NEW was, NEW new, NEW cur, Sound(c, new), Sound(c, cur)
      PROVE  Sound(c, Written(was, new, cur))
  BY <1>5 DEF Sound, Written, Entry, EntryType
<1>6. LedgerSound'
  <2> HIDE DEF r
  <2>1. ASSUME NEW c \in Claim
        PROVE  Sound(c, ledger'[c]) /\ (ledger'[c] # Unmade => c \in Known)
    BY <1>3, <1>4, <1>5 DEF LedgerInv, LedgerSound, Made
  <2>2. DOMAIN ledger' = Claim BY <1>3
  <2> QED BY <1>2, <2>1, <2>2 DEF LedgerSound, Made
<1>7. BusySound' BY <1>1, <1>2 DEF LedgerInv, BusySound, PlanSound
<1>8. JudgingSound' BY <1>1, <1>2 DEF LedgerInv, JudgingSound
<1> QED BY <1>2, <1>6, <1>7, <1>8 DEF LedgerInv

LEMMA AbandonReconcileKeeps ==
    ASSUME LedgerInv, NEW t \in Threads, AbandonReconcile(t)
    PROVE  LedgerInv'
<1>1. /\ UNCHANGED versionVars /\ ledger' = ledger /\ judging' = judging
      /\ busy' = [busy EXCEPT ![t] = Idle]
  BY DEF AbandonReconcile
<1>2. /\ Known' = Known /\ VersionsInv'
      /\ \A c, e : Sound(c, e)' <=> Sound(c, e)
  BY <1>1, SameVersions DEF LedgerInv
<1>3. BusySound' BY <1>1, <1>2 DEF LedgerInv, BusySound, PlanSound
<1>4. LedgerSound' /\ JudgingSound' BY <1>1, <1>2 DEF LedgerInv, LedgerSound, JudgingSound, Made
<1> QED BY <1>2, <1>3, <1>4 DEF LedgerInv

-----------------------------------------------------------------------------
LEMMA LedgerInvInit == Init => LedgerInv
<1> SUFFICES ASSUME Init PROVE LedgerInv OBVIOUS
<1>1. VersionsInv BY InitInv DEF Init
<1>2. LedgerSound BY DEF Init, LedgerSound, Sound, Made, Unmade, Entry, EntryType
<1>3. JudgingSound BY DEF Init, JudgingSound
<1>4. BusySound BY DEF Init, BusySound
<1> QED BY <1>1, <1>2, <1>3, <1>4 DEF LedgerInv

LEMMA LedgerInvKept ==
    ASSUME LedgerInv, [Next]_vars
    PROVE  LedgerInv'
<1>1. [VersionsNext]_versionVars BY StepsAreVersionSteps
<1>2. CASE UNCHANGED <<ledger, judging, busy>> BY <1>1, <1>2, QuietStepsKeep
<1>3. CASE \E v \in DOMAIN version : Extract(v) BY <1>3, ExtractKeeps
<1>4. CASE \E pair \in judging : Judge(pair[1], pair[2]) BY <1>4, JudgeKeeps
<1>5. CASE \E t \in Threads, d \in Docs : BeginReconcile(t, d) BY <1>5, BeginReconcileKeeps
<1>6. CASE \E t \in Threads : CommitReconcile(t) BY <1>6, CommitReconcileKeeps
<1>7. CASE \E t \in Threads : AbandonReconcile(t) BY <1>7, AbandonReconcileKeeps
<1>8. ASSUME \/ \E d \in Docs, x \in Texts, p \in Instants \cup {Undated} : IngestSource(d, x, p)
             \/ \E d \in Docs, x \in Texts, at \in Instants, counted \in BOOLEAN :
                  WaybackBackfill(d, x, at, counted)
             \/ \E v \in DOMAIN version : ExtractNothing(v)
             \/ \E p \in opposed, l \in {"confirmed", "rejected"} : PatchRelation(p, l)
             \/ Clock
             \/ UNCHANGED vars
      PROVE  UNCHANGED <<ledger, judging, busy>>
  BY <1>8 DEF IngestSource, WaybackBackfill, ExtractNothing, PatchRelation, Clock, vars, workVars
<1> QED BY <1>2, <1>3, <1>4, <1>5, <1>6, <1>7, <1>8 DEF Next

\* Whatever order versions are extracted, judged and reconciled in, and whatever a
\* second thread overwrites, superseded_by leads to a later assertion: its chains end.
THEOREM SupersededForward == Spec => []SuccessorIsLater
<1>1. LedgerInv => SuccessorIsLater
  BY DEF LedgerInv, LedgerSound, SuccessorIsLater, Sound, Forward, Asserted
<1>2. LedgerInv /\ [Next]_vars => LedgerInv' BY LedgerInvKept
<1> QED BY LedgerInvInit, <1>1, <1>2, PTL DEF Spec

\* Neither relation judging nor a reconcile ever supersedes a user's note.
THEOREM NotesStand == Spec => []NotesKeepTheirStanding
<1>1. LedgerInv => NotesKeepTheirStanding
  BY DEF LedgerInv, LedgerSound, NotesKeepTheirStanding, Sound
<1>2. LedgerInv /\ [Next]_vars => LedgerInv' BY LedgerInvKept
<1> QED BY LedgerInvInit, <1>1, <1>2, PTL DEF Spec

-----------------------------------------------------------------------------
(* Its types, and the documents that silence leaves unreconciled.           *)

\* A version's row is never changed or removed, and a document keeps its versions.
LEMMA RowsStay ==
    ASSUME VersionsInv, [Next]_vars
    PROVE  /\ VersionsInv'
           /\ DOMAIN version \subseteq DOMAIN version'
           /\ \A v \in DOMAIN version : version'[v] = version[v] /\ At(v)' = At(v)
           /\ \A d : Of(d) \subseteq Of(d)'
BY StepsAreVersionSteps, StepKeepsInv DEF At, Of

\* Versions are numbered in order of insertion.
LEMMA Numbered ==
    ASSUME VersionsInv
    PROVE  Len(version) \in Nat /\ DOMAIN version = 1..Len(version)
BY DEF VersionsInv, VersionsTypeOK

-----------------------------------------------------------------------------
\* A document changed since its last reconcile has a job that will lead to the next, or
\* a version no claim was found in.
Followed ==
    \A d \in dirty : \/ ReconcileJob(d) \in pending
                     \/ \E v \in Of(d) : ExtractJob(v) \in pending \/ v \in muted

LEMMA JobsDiffer ==
    /\ \A u, v : ExtractJob(u) = ExtractJob(v) => u = v
    /\ \A d, e : ReconcileJob(d) = ReconcileJob(e) => d = e
    /\ \A v, d : ExtractJob(v) # ReconcileJob(d)
BY DEF ExtractJob, ReconcileJob

LEMMA FollowedKept ==
    ASSUME VersionsInv, Followed, [Next]_vars
    PROVE  Followed'
<1>1. \A d : Of(d) \subseteq Of(d)' BY RowsStay
<1> DEFINE New == {version'[v].doc : v \in Inserted}
<1>2. ASSUME \A v \in Inserted : ExtractJob(v) \in pending', pending \subseteq pending',
             dirty' = dirty \cup New, muted' = muted
      PROVE  Followed'
  <2> SUFFICES ASSUME NEW d \in dirty'
               PROVE  \/ ReconcileJob(d) \in pending'
                      \/ \E v \in Of(d)' : ExtractJob(v) \in pending' \/ v \in muted'
    BY DEF Followed
  <2>1. CASE d \in dirty BY <1>1, <1>2, <2>1 DEF Followed
  <2>2. CASE d \notin dirty
    <3>1. PICK v \in Inserted : version'[v].doc = d BY <1>2, <2>2
    <3>2. v \in Of(d)' BY <3>1 DEF Of, Inserted
    <3> QED BY <1>2, <3>2
  <2> QED BY <2>1, <2>2
<1>3. CASE \E d \in Docs, x \in Texts, p \in Instants \cup {Undated} : IngestSource(d, x, p)
  BY <1>2, <1>3 DEF IngestSource
<1>4. CASE \E d \in Docs, x \in Texts, at \in Instants, counted \in BOOLEAN :
             WaybackBackfill(d, x, at, counted)
  BY <1>2, <1>4 DEF WaybackBackfill
<1>5. ASSUME NEW u \in DOMAIN version, Extract(u)
      PROVE  Followed'
  <2>1. /\ pending' = (pending \ {ExtractJob(u)}) \cup {ReconcileJob(version[u].doc)}
        /\ dirty' = dirty \cup {version[u].doc} /\ muted' = muted /\ version' = version
    BY <1>5 DEF Extract, FollowUp, versionVars
  <2> SUFFICES ASSUME NEW d \in dirty', d # version[u].doc
               PROVE  \/ ReconcileJob(d) \in pending'
                      \/ \E v \in Of(d)' : ExtractJob(v) \in pending' \/ v \in muted'
    BY <2>1 DEF Followed
  <2>2. d \in dirty BY <2>1
  <2>3. CASE ReconcileJob(d) \in pending BY <2>1, <2>3, JobsDiffer
  <2>4. ASSUME NEW v \in Of(d), ExtractJob(v) \in pending \/ v \in muted
        PROVE  v \in Of(d)' /\ (ExtractJob(v) \in pending' \/ v \in muted')
    BY <1>1, <2>1, <2>4, JobsDiffer DEF Of
  <2> QED BY <2>2, <2>3, <2>4 DEF Followed
<1>6. ASSUME NEW u \in DOMAIN version, ExtractNothing(u)
      PROVE  Followed'
  <2>1. /\ pending' = pending \ {ExtractJob(u)} /\ muted' = muted \cup {u} /\ dirty' = dirty
    BY <1>6 DEF ExtractNothing
  <2> SUFFICES ASSUME NEW d \in dirty
               PROVE  \/ ReconcileJob(d) \in pending'
                      \/ \E v \in Of(d)' : ExtractJob(v) \in pending' \/ v \in muted'
    BY <2>1 DEF Followed
  <2>2. CASE ReconcileJob(d) \in pending BY <2>1, <2>2, JobsDiffer
  <2>3. ASSUME NEW v \in Of(d), ExtractJob(v) \in pending \/ v \in muted
        PROVE  v \in Of(d)' /\ (ExtractJob(v) \in pending' \/ v \in muted')
    BY <1>1, <2>1, <2>3, JobsDiffer
  <2> QED BY <2>2, <2>3 DEF Followed
<1>7. ASSUME NEW t \in Threads, NEW e \in Docs, BeginReconcile(t, e)
      PROVE  Followed'
  <2>1. /\ pending' = pending \ {ReconcileJob(e)} /\ dirty' = dirty \ {e} /\ muted' = muted
    BY <1>7 DEF BeginReconcile
  <2> SUFFICES ASSUME NEW d \in dirty, d # e
               PROVE  \/ ReconcileJob(d) \in pending'
                      \/ \E v \in Of(d)' : ExtractJob(v) \in pending' \/ v \in muted'
    BY <2>1 DEF Followed
  <2>2. CASE ReconcileJob(d) \in pending BY <2>1, <2>2, JobsDiffer
  <2>3. ASSUME NEW v \in Of(d), ExtractJob(v) \in pending \/ v \in muted
        PROVE  v \in Of(d)' /\ (ExtractJob(v) \in pending' \/ v \in muted')
    BY <1>1, <2>1, <2>3, JobsDiffer
  <2> QED BY <2>2, <2>3 DEF Followed
<1>8. ASSUME NEW t \in Threads, AbandonReconcile(t)
      PROVE  Followed'
  BY <1>1, <1>8 DEF AbandonReconcile, Followed
<1>9. ASSUME pending' = pending, dirty' = dirty, muted' = muted
      PROVE  Followed'
  BY <1>1, <1>9 DEF Followed
<1>10. ASSUME \/ \E pair \in judging : Judge(pair[1], pair[2])
              \/ \E t \in Threads : CommitReconcile(t)
              \/ \E p \in opposed, l \in {"confirmed", "rejected"} : PatchRelation(p, l)
              \/ Clock
              \/ UNCHANGED vars
       PROVE  Followed'
  BY <1>9, <1>10 DEF Judge, CommitReconcile, PatchRelation, Clock, vars, workVars, historyVars
<1> QED BY <1>3, <1>4, <1>5, <1>6, <1>7, <1>8, <1>10 DEF Next

\* Whatever jobs fail or run in whichever order, a document that is left unreconciled
\* when no work remains has a version extract_claims found nothing in and returned early.
THEOREM SilenceAlone == Spec => []OnlySilenceGoesUnnoticed
<1>1. Init => VersionsInv /\ Followed BY LedgerInvInit DEF Init, Followed, LedgerInv
<1>2. VersionsInv /\ Followed /\ [Next]_vars => VersionsInv' /\ Followed'
  BY RowsStay, FollowedKept
<1>3. VersionsInv /\ Followed => OnlySilenceGoesUnnoticed
  BY DEF Followed, OnlySilenceGoesUnnoticed, Quiet
<1> QED BY <1>1, <1>2, <1>3, PTL DEF Spec

-----------------------------------------------------------------------------
\* What a job has in hand is about claims that are made, and once made a claim stays so.
JudgedMade ==
    \A pair \in judging : Made(pair[1]) /\ Made(pair[2]) /\ Doc(pair[1]) # Doc(pair[2])

Told == \A c \in Claim : Made(c) => ledger[c].status # "none"

PlanTyped(r) ==
    /\ r.doc \in Docs
    /\ r.close \subseteq opposed
    /\ \A c \in DOMAIN r.read : Made(c) /\ r.write[c].status # "none"

WorkTyped == \A t \in Threads : busy[t] # Idle => PlanTyped(busy[t])

TypeInv == LedgerInv /\ LedgerTypeOK /\ JudgedMade /\ Told /\ WorkTyped

\* An outcome is one of the four standings.
LEMMA OutcomeTold ==
    ASSUME NEW c
    PROVE  Outcome(c).status # "none"
BY DEF Outcome, Entry

\* What the types say of everything but the versions.
Parts ==
    /\ ledger \in [Claim -> EntryType]
    /\ extracted \in Seq(DOMAIN version)
    /\ \A p \in opposed : p \subseteq Claim /\ Cardinality(p) = 2 /\ \A c \in p : Made(c)
    /\ resolved \subseteq opposed
    /\ label \in [opposed -> Labels]
    /\ judging \subseteq Claim \X Claim
    /\ pending \subseteq {ExtractJob(v) : v \in DOMAIN version} \cup {ReconcileJob(d) : d \in Docs}
    /\ dirty \subseteq Docs
    /\ muted \subseteq DOMAIN version
    /\ reopened \subseteq opposed

LEMMA TypesByParts == LedgerTypeOK <=> VersionsTypeOK /\ Parts
BY DEF LedgerTypeOK, Parts, EntryType

\* The documents of versions are documents.
LEMMA DocsOfVersions ==
    ASSUME VersionsInv
    PROVE  \A v \in DOMAIN version : version[v].doc \in Docs
<1> SUFFICES ASSUME NEW v \in DOMAIN version PROVE version[v].doc \in Docs OBVIOUS
<1>1. version \in Seq(VersionRow) BY DEF VersionsInv, VersionsTypeOK, VersionRow
<1>2. v \in 1..Len(version) BY Numbered
<1>3. version[v] \in VersionRow
  <2> HIDE DEF VersionRow
  <2> QED BY <1>1, <1>2, ElementOfSeq
<1> QED BY <1>3 DEF VersionRow

\* Steps that leave the claims and what is done with them alone.
LEMMA TypesOfVersionSteps ==
    ASSUME TypeInv, [Next]_vars,
           UNCHANGED <<ledger, extracted, relationVars, judging, busy, reopened>>,
           pending' \subseteq pending \cup {ExtractJob(v) : v \in DOMAIN version'}
                              \cup {ReconcileJob(d) : d \in Docs},
           dirty' \subseteq Docs,
           muted' \subseteq DOMAIN version'
    PROVE  Parts' /\ JudgedMade' /\ Told' /\ WorkTyped'
<1>1. /\ DOMAIN version \subseteq DOMAIN version'
      /\ \A v \in DOMAIN version : version'[v] = version[v]
  BY RowsStay DEF TypeInv, LedgerInv
<1>2. Parts BY TypesByParts DEF TypeInv
<1>3. extracted' \in Seq(DOMAIN version')
  <2>1. extracted \in Seq(DOMAIN version) BY <1>2 DEF Parts
  <2>2. extracted \in Seq(DOMAIN version')
    <3> DEFINE S == DOMAIN version
               T == DOMAIN version'
    <3>1. extracted \in Seq(S) /\ S \subseteq T BY <1>1, <2>1
    <3> HIDE DEF S, T
    <3>2. extracted \in Seq(T) BY <3>1
    <3> QED BY <3>2 DEF T
  <2> QED BY <2>2
<1>4. pending' \subseteq {ExtractJob(v) : v \in DOMAIN version'} \cup {ReconcileJob(d) : d \in Docs}
  BY <1>1, <1>2 DEF Parts
<1>5. Parts' BY <1>2, <1>3, <1>4 DEF Parts, relationVars, Made
<1>6. JudgedMade'
  <2>1. ASSUME NEW pair \in judging
        PROVE  Doc(pair[1])' # Doc(pair[2])'
    BY <1>1 DEF TypeInv, LedgerInv, JudgingSound, JudgedMade, Known, Doc
  <2> QED BY <2>1 DEF TypeInv, JudgedMade, Made
<1>7. Told' /\ WorkTyped' BY DEF TypeInv, Told, WorkTyped, PlanTyped, Made, relationVars
<1> QED BY <1>5, <1>6, <1>7

LEMMA TypesOfInsertion ==
    ASSUME TypeInv, [Next]_vars,
           UNCHANGED <<ledger, extracted, relationVars, judging, busy, muted, reopened>>,
           pending' \subseteq pending \cup {ExtractJob(v) : v \in Inserted}
                              \cup {ReconcileJob(d) : d \in Docs},
           dirty' = dirty \cup {version'[v].doc : v \in Inserted}
    PROVE  Parts' /\ JudgedMade' /\ Told' /\ WorkTyped'
<1>1. VersionsInv' /\ DOMAIN version \subseteq DOMAIN version'
  BY RowsStay DEF TypeInv, LedgerInv
<1>2. \A v \in DOMAIN version' : version'[v].doc \in Docs
  <2>1. version' \in Seq(VersionRow) BY <1>1 DEF VersionsInv, VersionsTypeOK, VersionRow
  <2> SUFFICES ASSUME NEW v \in DOMAIN version' PROVE version'[v].doc \in Docs OBVIOUS
  <2>2. v \in 1..Len(version') BY <2>1 DEF VersionRow
  <2>3. version'[v] \in VersionRow
    <3> HIDE DEF VersionRow
    <3> QED BY <2>1, <2>2, ElementOfSeq
  <2> QED BY <2>3 DEF VersionRow
<1>3. Parts BY TypesByParts DEF TypeInv
<1>4. dirty' \subseteq Docs /\ muted' \subseteq DOMAIN version'
  BY <1>1, <1>2, <1>3 DEF Parts, Inserted
<1>5. pending' \subseteq pending \cup {ExtractJob(v) : v \in DOMAIN version'}
                         \cup {ReconcileJob(d) : d \in Docs}
  BY DEF Inserted
<1> QED BY <1>4, <1>5, TypesOfVersionSteps

LEMMA TypesOfExtract ==
    ASSUME TypeInv, NEW v \in DOMAIN version, Extract(v)
    PROVE  Parts' /\ JudgedMade' /\ Told' /\ WorkTyped'
<1>1. /\ version' = version /\ busy' = busy /\ muted' = muted /\ reopened' = reopened
      /\ opposed' = opposed /\ resolved' = resolved /\ label' = label
      /\ ledger' = [c \in Claim |-> IF c \in Said(v) THEN Entry("active", NoClaim) ELSE ledger[c]]
      /\ extracted' = Append(extracted, v)
      /\ judging' = UNION {{c} \X Candidates(c) : c \in Said(v)}
      /\ pending' = (pending \ {ExtractJob(v)}) \cup {ReconcileJob(version[v].doc)}
      /\ dirty' = dirty \cup {version[v].doc}
  BY DEF Extract, FollowUp, relationVars, versionVars
<1>2. Parts BY TypesByParts DEF TypeInv
<1>3. version[v].doc \in Docs BY DocsOfVersions DEF TypeInv, LedgerInv
<1>4. \A c \in Claim : Made(c) \/ c \in Said(v) => Made(c)' /\ ledger'[c].status # "none"
  BY <1>1 DEF TypeInv, Told, Made, Unmade, Entry
<1>6. Entry("active", NoClaim) \in EntryType BY DEF Entry, EntryType
<1>7. ledger' \in [Claim -> EntryType] BY <1>1, <1>2, <1>6 DEF Parts
<1>8. \A c \in Claim : Candidates(c) \subseteq {o \in Claim : Made(o)}
  BY DEF Candidates, Live, Made, Unmade, Entry
<1>9. \A p \in opposed : \A c \in p : Made(c)' BY <1>2, <1>4 DEF Parts
<1>10. judging' \subseteq Claim \X Claim BY <1>1 DEF Said, Candidates
<1>11. extracted' \in Seq(DOMAIN version') BY <1>1, <1>2 DEF Parts
<1>12. Parts' BY <1>1, <1>2, <1>3, <1>7, <1>9, <1>10, <1>11 DEF Parts
<1>13. JudgedMade'
  <2>1. ASSUME NEW pair \in judging'
        PROVE  /\ Made(pair[1])' /\ Made(pair[2])'
               /\ Doc(pair[1]) # Doc(pair[2])
    <3>1. PICK c \in Said(v) : pair \in {c} \X Candidates(c) BY <1>1
    <3>2. pair[1] = c /\ pair[2] \in Candidates(c) /\ c \in Claim BY <3>1 DEF Said
    <3>3. Doc(pair[2]) # Doc(c) /\ pair[2] \in Claim /\ Made(pair[2])
      BY <1>8, <3>2 DEF Candidates
    <3> QED BY <1>4, <3>2, <3>3
  <2> QED BY <1>1, <2>1 DEF JudgedMade, Doc
<1>14. Told' BY <1>1, <1>4 DEF Told, TypeInv, Made
<1>15. WorkTyped'
  <2>1. ASSUME NEW t \in Threads, busy[t] # Idle, NEW c \in DOMAIN busy[t].read
        PROVE  Made(c)'
    BY <1>4, <2>1 DEF TypeInv, WorkTyped, PlanTyped, LedgerInv, BusySound, PlanSound, Known
  <2> QED BY <1>1, <2>1 DEF TypeInv, WorkTyped, PlanTyped
<1> QED BY <1>12, <1>13, <1>14, <1>15

LEMMA PairHasTwo ==
    ASSUME NEW c, NEW o, c # o
    PROVE  Cardinality({c, o}) = 2
<1>1. IsFiniteSet({c}) /\ Cardinality({c}) = 1 BY FS_Singleton
<1>2. Cardinality({c} \cup {o}) = Cardinality({c}) + 1 BY <1>1, FS_AddElement
<1>3. {c} \cup {o} = {c, o} OBVIOUS
<1> QED BY <1>1, <1>2, <1>3

LEMMA TypesOfJudge ==
    ASSUME TypeInv, NEW c, NEW o, Judge(c, o)
    PROVE  Parts' /\ JudgedMade' /\ Told' /\ WorkTyped'
<1>1. /\ <<c, o>> \in judging /\ judging' = judging \ {<<c, o>>}
      /\ version' = version /\ extracted' = extracted
      /\ pending' = pending /\ busy' = busy /\ dirty' = dirty /\ muted' = muted
      /\ reopened' = reopened
  BY DEF Judge, versionVars, workVars, historyVars
<1>2. Parts BY TypesByParts DEF TypeInv
<1>3. /\ c \in Claim /\ o \in Claim /\ Made(c) /\ Made(o) /\ Doc(c) # Doc(o)
  BY <1>1, <1>2 DEF TypeInv, JudgedMade, Parts
<1>4. c # o BY <1>3
<1>5. \/ ledger' = ledger
      \/ \E older, newer \in {c, o} : ledger' = [ledger EXCEPT ![older] = Entry("superseded", newer)]
  BY DEF Judge, Supersede
<1>6. ledger' \in [Claim -> EntryType] BY <1>2, <1>3, <1>5 DEF Entry, EntryType, Parts
<1>7. \A e \in Claim : Made(e) => Made(e)' /\ ledger'[e].status # "none"
  BY <1>2, <1>5 DEF Parts, TypeInv, Told, Made, Unmade, Entry
<1>8. \A e \in Claim : Made(e)' => Made(e) BY <1>2, <1>3, <1>5 DEF Unmade, Entry, Parts, Made
<1>9. /\ opposed' = opposed \/ opposed' = opposed \cup {{c, o}}
      /\ resolved' = resolved \/ (opposed' = opposed /\ resolved' \subseteq resolved \cup opposed)
      /\ \/ label' = label /\ opposed' = opposed
         \/ label' = [p \in opposed' |-> IF p = {c, o} THEN "none" ELSE label[p]]
  BY DEF Judge, Supersede
<1>10. \A p \in opposed' : p \subseteq Claim /\ Cardinality(p) = 2 /\ \A e \in p : Made(e)'
  <2>1. ASSUME NEW p \in opposed
        PROVE  p \subseteq Claim /\ Cardinality(p) = 2 /\ \A e \in p : Made(e)'
    BY <1>2, <1>7, <2>1 DEF Parts
  <2>2. {c, o} \subseteq Claim /\ Cardinality({c, o}) = 2 /\ \A e \in {c, o} : Made(e)'
    BY <1>3, <1>4, <1>7, PairHasTwo
  <2> QED BY <1>9, <2>1, <2>2
<1>11. resolved' \subseteq opposed' BY <1>2, <1>9 DEF Parts
<1>12. label' \in [opposed' -> Labels]
  <2>1. CASE label' = label /\ opposed' = opposed BY <1>2, <2>1 DEF Parts
  <2>2. CASE label' = [p \in opposed' |-> IF p = {c, o} THEN "none" ELSE label[p]]
    BY <1>2, <1>9, <2>2 DEF Parts, Labels
  <2> QED BY <1>9, <2>1, <2>2
<1>13. Parts' BY <1>1, <1>2, <1>6, <1>9, <1>10, <1>11, <1>12 DEF Parts
<1>14. JudgedMade'
  <2>1. ASSUME NEW pair \in judging
        PROVE  Made(pair[1])' /\ Made(pair[2])' /\ Doc(pair[1]) # Doc(pair[2])
    BY <1>2, <1>7 DEF Parts, TypeInv, JudgedMade
  <2> QED BY <1>1, <2>1 DEF JudgedMade, Doc
<1>15. Told' BY <1>7, <1>8 DEF Told
<1>16. WorkTyped'
  <2>1. ASSUME NEW t \in Threads, busy[t] # Idle, NEW e \in DOMAIN busy[t].read
        PROVE  Made(e)'
    BY <1>7, <2>1 DEF TypeInv, WorkTyped, PlanTyped, LedgerInv, BusySound, PlanSound, Known
  <2> QED BY <1>1, <1>9, <2>1 DEF TypeInv, WorkTyped, PlanTyped
<1> QED BY <1>13, <1>14, <1>15, <1>16

LEMMA TypesOfBegin ==
    ASSUME TypeInv, NEW t \in Threads, NEW d \in Docs, BeginReconcile(t, d)
    PROVE  Parts' /\ JudgedMade' /\ Told' /\ WorkTyped'
<1>1. /\ version' = version /\ ledger' = ledger /\ extracted' = extracted /\ judging' = judging
      /\ opposed' = opposed /\ resolved' = resolved /\ label' = label /\ muted' = muted
      /\ pending' = pending \ {ReconcileJob(d)} /\ dirty' = dirty \ {d}
      /\ reopened' \subseteq reopened
      /\ busy' = [busy EXCEPT ![t] = Plan(d)]
  BY DEF BeginReconcile, versionVars, relationVars
<1>2. Parts BY TypesByParts DEF TypeInv
<1>3. Parts' /\ JudgedMade' /\ Told'
  BY <1>1, <1>2 DEF Parts, TypeInv, JudgedMade, Told, Made, Doc
<1>4. /\ Plan(d).doc = d
      /\ Plan(d).read = [c \in Own(d) |-> ledger[c]]
      /\ Plan(d).write = [c \in Own(d) |-> Recomputed(d)[c]]
      /\ Plan(d).close \subseteq Touching(d)
  BY DEF Plan
<1>5. \A c \in Own(d) : Made(c) /\ Recomputed(d)[c].status # "none"
  BY OutcomeTold DEF TypeInv, Told, Own, Recomputed
<1>6. PlanTyped(Plan(d)) BY <1>4, <1>5 DEF PlanTyped, Touching
<1>7. busy' = [u \in Threads |-> IF u = t THEN Plan(d) ELSE busy[u]]
  BY <1>1 DEF TypeInv, LedgerInv, BusySound
<1>8. \A r : PlanTyped(r) => PlanTyped(r)' BY <1>1 DEF PlanTyped, Made
<1>9. WorkTyped' BY <1>6, <1>7, <1>8 DEF TypeInv, WorkTyped
<1> QED BY <1>3, <1>9

LEMMA TypesOfCommit ==
    ASSUME TypeInv, NEW t \in Threads, CommitReconcile(t)
    PROVE  Parts' /\ JudgedMade' /\ Told' /\ WorkTyped'
<1> DEFINE r == busy[t]
<1>1. /\ version' = version /\ extracted' = extracted /\ judging' = judging
      /\ opposed' = opposed /\ label' = label /\ pending' = pending
      /\ dirty' = dirty /\ muted' = muted /\ reopened' = reopened /\ r # Idle
      /\ resolved' = (resolved \ r.open) \cup r.close
      /\ busy' = [busy EXCEPT ![t] = Idle]
      /\ ledger' = [c \in Claim |->
                      IF c \in DOMAIN r.read THEN Written(r.read[c], r.write[c], ledger[c])
                      ELSE ledger[c]]
  BY DEF CommitReconcile, versionVars, historyVars
<1>2. Parts BY TypesByParts DEF TypeInv
<1>3. PlanTyped(r) /\ PlanSound(r) BY <1>1 DEF TypeInv, WorkTyped, LedgerInv, BusySound
<1> HIDE DEF r
<1>4. \A c \in Claim : Made(c) => Made(c)' /\ ledger'[c].status # "none"
  <2> SUFFICES ASSUME NEW c \in Claim, Made(c)
               PROVE  ledger'[c].status # "none"
    BY DEF Made, Unmade, Entry
  <2>1. ledger[c].status # "none" BY DEF TypeInv, Told
  <2>2. c \in DOMAIN r.read => r.write[c].status # "none" BY <1>3 DEF PlanTyped
  <2> QED BY <1>1, <2>1, <2>2 DEF Written, Entry
<1>5. \A c \in Claim : Made(c)' => Made(c) BY <1>1, <1>3 DEF Made, PlanTyped
<1>6. ledger' \in [Claim -> EntryType]
  <2>1. ASSUME NEW c \in Claim, c \in DOMAIN r.read
        PROVE  Written(r.read[c], r.write[c], ledger[c]) \in EntryType
    BY <1>2, <1>3, <2>1 DEF Parts, PlanSound, Sound, Written, Entry, EntryType
  <2> QED BY <1>1, <1>2, <2>1 DEF Parts
<1>7. \A p \in opposed : \A c \in p : Made(c)' BY <1>2, <1>4 DEF Parts
<1>8. resolved' \subseteq opposed BY <1>1, <1>2, <1>3 DEF Parts, PlanTyped
<1>9. Parts' BY <1>1, <1>2, <1>6, <1>7, <1>8 DEF Parts
<1>10. JudgedMade'
  <2>1. ASSUME NEW pair \in judging
        PROVE  Made(pair[1])' /\ Made(pair[2])' /\ Doc(pair[1]) # Doc(pair[2])
    BY <1>2, <1>4 DEF Parts, TypeInv, JudgedMade
  <2> QED BY <1>1, <2>1 DEF JudgedMade, Doc
<1>11. Told' BY <1>4, <1>5 DEF Told
<1>12. WorkTyped'
  <2>1. busy' = [u \in Threads |-> IF u = t THEN Idle ELSE busy[u]]
    BY <1>1 DEF TypeInv, LedgerInv, BusySound
  <2>2. ASSUME NEW u \in Threads, busy[u] # Idle, NEW c \in DOMAIN busy[u].read
        PROVE  Made(c)'
    BY <1>4, <2>2 DEF TypeInv, WorkTyped, PlanTyped, LedgerInv, BusySound, PlanSound, Known
  <2> QED BY <1>1, <2>1, <2>2 DEF TypeInv, WorkTyped, PlanTyped
<1> QED BY <1>9, <1>10, <1>11, <1>12

LEMMA TypeInvKept ==
    ASSUME TypeInv, [Next]_vars
    PROVE  TypeInv'
<1>1. LedgerInv' /\ VersionsTypeOK' BY LedgerInvKept DEF TypeInv, LedgerInv, VersionsInv
<1>2. Parts BY TypesByParts DEF TypeInv
<1>3. Parts' /\ JudgedMade' /\ Told' /\ WorkTyped'
  <2>1. CASE \E d \in Docs, x \in Texts, p \in Instants \cup {Undated} : IngestSource(d, x, p)
    BY <2>1, TypesOfInsertion DEF IngestSource
  <2>2. CASE \E d \in Docs, x \in Texts, at \in Instants, counted \in BOOLEAN :
               WaybackBackfill(d, x, at, counted)
    BY <2>2, TypesOfInsertion DEF WaybackBackfill
  <2>3. CASE \E v \in DOMAIN version : Extract(v) BY <2>3, TypesOfExtract
  <2>4. ASSUME NEW v \in DOMAIN version, ExtractNothing(v)
        PROVE  Parts' /\ JudgedMade' /\ Told' /\ WorkTyped'
    BY <1>2, <2>4, TypesOfVersionSteps DEF ExtractNothing, versionVars, Parts
  <2>5. CASE \E pair \in judging : Judge(pair[1], pair[2]) BY <2>5, TypesOfJudge
  <2>6. CASE \E t \in Threads, d \in Docs : BeginReconcile(t, d) BY <2>6, TypesOfBegin
  <2>7. CASE \E t \in Threads : CommitReconcile(t) BY <2>7, TypesOfCommit
  <2>8. ASSUME NEW t \in Threads, AbandonReconcile(t)
        PROVE  Parts' /\ JudgedMade' /\ Told' /\ WorkTyped'
    <3>1. /\ version' = version /\ ledger' = ledger /\ extracted' = extracted
          /\ judging' = judging /\ opposed' = opposed /\ resolved' = resolved
          /\ label' = label /\ muted' = muted /\ reopened' = reopened
          /\ busy' = [busy EXCEPT ![t] = Idle]
          /\ pending' = pending \cup {ReconcileJob(busy[t].doc)}
          /\ dirty' = dirty \cup {busy[t].doc}
      BY <2>8 DEF AbandonReconcile, versionVars, relationVars
    <3>2. busy[t].doc \in Docs BY <2>8 DEF AbandonReconcile, TypeInv, WorkTyped, PlanTyped
    <3>3. Parts' /\ JudgedMade' /\ Told'
      BY <1>2, <3>1, <3>2 DEF Parts, TypeInv, JudgedMade, Told, Made, Doc
    <3>4. busy' = [u \in Threads |-> IF u = t THEN Idle ELSE busy[u]]
      BY <3>1 DEF TypeInv, LedgerInv, BusySound
    <3>5. \A r : PlanTyped(r) => PlanTyped(r)' BY <3>1 DEF PlanTyped, Made
    <3> QED BY <3>3, <3>4, <3>5 DEF TypeInv, WorkTyped
  <2>9. ASSUME NEW p \in opposed, NEW l \in {"confirmed", "rejected"}, PatchRelation(p, l)
        PROVE  Parts' /\ JudgedMade' /\ Told' /\ WorkTyped'
    BY <1>2, <2>9 DEF PatchRelation, versionVars, historyVars, Parts, Labels, TypeInv,
       JudgedMade, Told, WorkTyped, PlanTyped, Made, Doc
  <2>10. CASE Clock \/ UNCHANGED vars
    BY <1>2, <2>10, TypesOfVersionSteps DEF Clock, Tick, vars, versionVars, workVars,
       historyVars, Parts
  <2> QED BY <2>1, <2>2, <2>3, <2>4, <2>5, <2>6, <2>7, <2>8, <2>9, <2>10 DEF Next
<1>4. LedgerTypeOK' BY <1>1, <1>3 DEF LedgerTypeOK, Parts, EntryType
<1> QED BY <1>1, <1>3, <1>4 DEF TypeInv

LEMMA TypeInvInit == Init => TypeInv
<1> SUFFICES ASSUME Init PROVE TypeInv OBVIOUS
<1>1. LedgerInv /\ VersionsTypeOK BY LedgerInvInit DEF LedgerInv, VersionsInv
<1>2. Parts BY DEF Unmade, Entry, EntryType, Init, VersionsInit, Parts
<1>3. JudgedMade /\ Told /\ WorkTyped BY DEF Init, JudgedMade, Told, WorkTyped, Made
<1> QED BY <1>1, <1>2, <1>3, TypesByParts DEF TypeInv

\* Every component of the ledger keeps its type: contradictions are between two claims
\* that are made, and only they are labelled or resolved.
THEOREM LedgerTyped == Spec => []LedgerTypeOK
<1>1. TypeInv /\ [Next]_vars => TypeInv' BY TypeInvKept
<1>2. TypeInv => LedgerTypeOK BY DEF TypeInv
<1> QED BY TypeInvInit, <1>1, <1>2, PTL DEF Spec

-----------------------------------------------------------------------------
(* With the one worker thread that keeps a reconcile's reads and its flush  *)
(* together: the claims that stand are those of the latest version, and what*)
(* another document superseded stays superseded (with two threads the second*)
(* is false).                                                               *)

OneWorker == \A t, u \in Threads : t = u

\* A document whose versions all look whole.
Trusted(d) == \A v \in Of(d) : Later(v) # {} => ~LooksSuspect(v)

Stands(e, c) == e.status = "active" <=> Later(c[1]) = {}

\* What a reconcile of d may write of a claim of d.
Decided(d, c, e) ==
    IF External(c) THEN e = ledger[c]
    ELSE /\ e.by # NoClaim => Doc(e.by) = d
         /\ Trusted(d) => Stands(e, c)

\* A version is extracted once.
FreshJobs == \A c \in Claim : ExtractJob(c[1]) \in pending => ~Made(c)

EndedByOther == \A c \in Claim : External(c) => ledger[c].status = "superseded"

\* What a reconcile has read is still so.
StillSo(r) ==
    /\ judging = {}
    /\ r.read = [c \in Own(r.doc) |-> ledger[c]]
    /\ \A c \in Own(r.doc) : Decided(r.doc, c, r.write[c])

ReadStill == \A t \in Threads : busy[t] # Idle => StillSo(busy[t])

Standing ==
    \A d \in Docs : Clean(d) /\ Trusted(d) => \A c \in Own(d) : ~External(c) => Stands(ledger[c], c)

WorkInv == TypeInv /\ FreshJobs /\ EndedByOther /\ ReadStill /\ Standing

-----------------------------------------------------------------------------
\* The successor of a version is the least of the later ones, and the only such.
LEMMA SuccessorIsLeast ==
    ASSUME VersionsInv, NEW v \in DOMAIN version, Later(v) # {}
    PROVE  Successor(v) \in Later(v) /\ \A w \in Later(v) : At(Successor(v)) <= At(w)
<1> DEFINE T == {At(u) : u \in Later(v)}
<1>1. \A u \in DOMAIN version : At(u) \in Nat \ {0}
  BY RowTimes DEF VersionsInv, VersionsTypeOK, VersionRow, At
<1>2. T \in SUBSET Nat /\ T # {} BY <1>1 DEF Later, Of
<1>3. PICK m \in T : \A t \in T : m <= t
  <2> HIDE DEF T
  <2> QED BY <1>2, LeastNatural
<1>4. \E u \in Later(v) : \A w \in Later(v) : At(u) <= At(w) BY <1>3
<1> QED BY <1>4 DEF Successor

LEMMA LeastOfTimes ==
    ASSUME NEW S, S # {}, NEW at, \A u \in S : at[u] \in Nat
    PROVE  \E u \in S : \A w \in S : at[u] <= at[w]
<1> DEFINE T == {at[u] : u \in S}
<1>1. T \in SUBSET Nat /\ T # {} OBVIOUS
<1>2. PICK m \in T : \A t \in T : m <= t
  <2> HIDE DEF T
  <2> QED BY <1>1, LeastNatural
<1> QED BY <1>2

\* While a document gets no version, its versions keep what comes after them.
LEMMA LaterStays ==
    ASSUME VersionsInv, [Next]_vars, NEW d, Of(d)' = Of(d), NEW v \in Of(d)
    PROVE  /\ Later(v)' = Later(v)
           /\ Later(v) # {} => Successor(v)' = Successor(v) /\ Successor(v) \in Of(d)
<1>1. /\ VersionsInv'
      /\ \A u \in DOMAIN version : u \in DOMAIN version' /\ version'[u] = version[u]
  BY RowsStay
<1>2. v \in DOMAIN version /\ version[v].doc = d BY DEF Of
<1>3. \A u \in Of(d) : At(u)' = At(u) /\ u \in DOMAIN version /\ At(u) \in Nat
  BY <1>1, RowTimes DEF Of, At, VersionsInv, VersionsTypeOK, VersionRow
<1>4. Later(v) = {u \in Of(d) : At(u) > At(v)} BY <1>2 DEF Later
<1>5. Later(v)' = {u \in Of(d) : At(u)' > At(v)'} BY <1>1, <1>2 DEF Later
<1>6. Later(v)' = Later(v) BY <1>3, <1>4, <1>5
<1>7. ASSUME Later(v) # {}
      PROVE  Successor(v)' = Successor(v) /\ Successor(v) \in Of(d)
  <2> DEFINE L == Later(v)
             s == Successor(v)
             r == Successor(v)'
  <2>1. s \in L /\ \A w \in L : At(s) <= At(w) BY <1>2, <1>7, SuccessorIsLeast
  <2>2. \E u \in Later(v)' : \A w \in Later(v)' : At(u)' <= At(w)'
    <3>1. L # {} /\ \A u \in L : version'[u].at \in Nat BY <1>3, <1>4, <1>7 DEF At
    <3>2. \E u \in L : \A w \in L : [x \in L |-> version'[x].at][u] <= [x \in L |-> version'[x].at][w]
      <4> HIDE DEF L
      <4> QED BY <3>1, LeastOfTimes
    <3>3. \E u \in L : \A w \in L : version'[u].at <= version'[w].at BY <3>2
    <3> QED BY <1>6, <3>3 DEF At
  <2>3. r \in Later(v)' /\ \A w \in Later(v)' : (version'[r].at <= version'[w].at)
    BY <2>2 DEF Successor, At
  <2>4. r \in L /\ \A w \in L : version'[r].at <= version'[w].at BY <1>6, <2>3
  <2>5. s \in Of(d) /\ r \in Of(d) BY <1>4, <2>1, <2>4
  <2>6. version'[r].at = At(r) /\ version'[s].at = At(s) /\ At(r) \in Nat /\ At(s) \in Nat
    BY <1>3, <2>5 DEF At
  <2>7. At(r) = At(s)
    <3>1. At(s) <= At(r) BY <2>1, <2>4
    <3>2. At(r) <= At(s) BY <2>1, <2>4, <2>6
    <3> HIDE DEF r, s
    <3> QED BY <3>1, <3>2, <2>6
  <2>8. r = s
    <3> HIDE DEF r, s
    <3> QED BY <2>5, <2>7 DEF VersionsInv, InstantsDistinct, Of
  <2> QED BY <2>5, <2>8
<1> QED BY <1>6, <1>7

\* Looking whole is more than being taken for whole.
LEMMA ClaimsFinite ==
    ASSUME NEW v
    PROVE  IsFiniteSet(ClaimsOf(v))
<1>1. IsFiniteSet({v} \X Topics) BY FS_Singleton, LedgerAssumption, FS_Product
<1>2. ClaimsOf(v) \subseteq {v} \X Topics BY DEF ClaimsOf, Claim
<1> QED BY <1>1, <1>2, FS_Subset

LEMMA SuspectLooksIt ==
    ASSUME NEW v, Suspect(v)
    PROVE  LooksSuspect(v)
<1> DEFINE X == {c \in ClaimsOf(v) : ~External(c)}
<1>1. /\ IsFiniteSet(X) /\ Cardinality(X) <= Cardinality(ClaimsOf(v))
      /\ Cardinality(X) \in Nat /\ Cardinality(ClaimsOf(v)) \in Nat
  <2>1. X \subseteq ClaimsOf(v) OBVIOUS
  <2>2. IsFiniteSet(ClaimsOf(v)) BY ClaimsFinite
  <2> HIDE DEF X
  <2> QED BY <2>1, <2>2, FS_Subset, FS_CardinalityType
<1>2. Cardinality(X) >= ManyClaims => Cardinality(ClaimsOf(v)) >= ManyClaims
  BY <1>1, LedgerAssumption
<1> QED BY <1>2 DEF Suspect, LooksSuspect

\* What reconcile decides of a claim of the document.
LEMMA DecisionMade ==
    ASSUME TypeInv, NEW d \in Docs, NEW c \in Own(d)
    PROVE  Decided(d, c, Recomputed(d)[c])
<1>1. c \in Claim /\ Made(c) /\ c \in Known /\ Doc(c) = d /\ VersionsInv
  BY DEF Own, TypeInv, LedgerInv, LedgerSound
<1>2. c[1] \in DOMAIN version /\ c[1] \in Of(d) BY <1>1 DEF Known, Of, Doc
<1>3. CASE External(c) BY <1>1, <1>3 DEF Decided, Recomputed
<1>4. CASE ~External(c)
  <2>1. Recomputed(d)[c] = Outcome(c) BY <1>1, <1>4 DEF Recomputed
  <2>2. CASE Later(c[1]) = {} BY <1>4, <2>1, <2>2 DEF Decided, Outcome, Entry, Stands
  <2>3. CASE Later(c[1]) # {}
    <3> DEFINE s == <<Successor(c[1]), c[2]>>
    <3>1. Successor(c[1]) \in Later(c[1]) BY <1>1, <1>2, <2>3, SuccessorIsNext
    <3>2. Doc(s) = d BY <1>2, <3>1 DEF Later, Of, Doc
    <3>3. CASE Made(s) BY <1>4, <2>1, <2>3, <3>2, <3>3 DEF Outcome, Entry, Decided, Stands
    <3>4. CASE ~Made(s) /\ Suspect(c[1])
      BY <1>2, <1>4, <2>1, <2>3, <3>4, SuspectLooksIt DEF Trusted, Outcome, Entry, Decided
    <3>5. CASE ~Made(s) /\ ~Suspect(c[1])
      BY <1>4, <2>1, <2>3, <3>5 DEF Decided, Outcome, Entry, Stands
    <3> QED BY <3>3, <3>4, <3>5
  <2> QED BY <2>2, <2>3
<1> QED BY <1>3, <1>4

-----------------------------------------------------------------------------
\* Without a new version of d, and with its claims as they were, d is as trusted as it
\* was, and no claim of it comes to stand or to end.
LEMMA DocumentStays ==
    ASSUME TypeInv, [Next]_vars, NEW d \in Docs, Of(d)' = Of(d),
           \A c \in Claim : c[1] \in Of(d) => (Made(c)' <=> Made(c))
    PROVE  /\ Trusted(d)' <=> Trusted(d)
           /\ Own(d)' = Own(d)
           /\ \A c \in Own(d) : (Later(c[1]) = {})' <=> Later(c[1]) = {}
<1>1. VersionsInv /\ \A c \in Claim : Made(c) => c \in Known
  BY DEF TypeInv, LedgerInv, LedgerSound
<1>2. /\ VersionsInv'
      /\ \A u \in DOMAIN version : u \in DOMAIN version' /\ version'[u] = version[u]
  BY <1>1, RowsStay
<1>3. (\A c \in Claim : Made(c) => c \in Known)'
  BY TypeInvKept DEF TypeInv, LedgerInv, LedgerSound
<1>4. \A v \in Of(d) : ClaimsOf(v)' = ClaimsOf(v) BY DEF ClaimsOf
<1>5. \A c \in Claim : c \in Known => (c[1] \in Of(d) <=> Doc(c) = d) BY DEF Known, Of, Doc
<1>6. \A c \in Claim : (c \in Known)' => (c[1] \in Of(d) <=> Doc(c)' = d) BY DEF Known, Of, Doc
<1>7. Own(d)' = Own(d) BY <1>1, <1>3, <1>5, <1>6 DEF Own
<1>8. \A v \in Of(d) : /\ Later(v)' = Later(v)
                       /\ Later(v) # {} => Successor(v)' = Successor(v) /\ Successor(v) \in Of(d)
  BY <1>1, LaterStays
<1>9. ASSUME NEW v \in Of(d), Later(v) # {}
      PROVE  LooksSuspect(v)' <=> LooksSuspect(v)
  <2> DEFINE n == Successor(v)
  <2>1. Successor(v)' = n /\ n \in Of(d) BY <1>8, <1>9
  <2>2. version'[n] = version[n] /\ version'[v] = version[v] BY <1>2, <2>1 DEF Of
  <2>3. ClaimsOf(v)' = ClaimsOf(v) BY <1>4
  <2>4. ClaimsOf(n)' = ClaimsOf(n) BY <1>4, <2>1
  <2>5. ClaimsOf(Successor(v))' = ClaimsOf(n) BY <2>1, <2>4 DEF ClaimsOf
  <2> HIDE DEF n
  <2>6. LooksSuspect(v) <=> \/ version[n].text \in Stubs /\ version[v].text \notin Stubs
                            \/ Cardinality(ClaimsOf(v)) >= ManyClaims /\ ClaimsOf(n) = {}
    BY DEF LooksSuspect, n
  <2>7. LooksSuspect(v)' <=>
           \/ version'[n].text \in Stubs /\ version'[v].text \notin Stubs
           \/ Cardinality(ClaimsOf(v)') >= ManyClaims /\ ClaimsOf(Successor(v))' = {}
    BY <2>1 DEF LooksSuspect
  <2> QED BY <2>2, <2>3, <2>5, <2>6, <2>7
<1>10. Trusted(d)' <=> Trusted(d) BY <1>8, <1>9 DEF Trusted
<1>11. \A c \in Own(d) : c[1] \in Of(d) BY <1>1, <1>5 DEF Own
<1> QED BY <1>7, <1>8, <1>10, <1>11

\* Whose claim ended a claim does not change while the claim's entry does not.
LEMMA ExternalStays ==
    ASSUME TypeInv, [Next]_vars, NEW c \in Claim, ledger'[c] = ledger[c]
    PROVE  External(c)' <=> External(c)
<1>1. /\ VersionsInv
      /\ Made(c) => c \in Known
      /\ ledger[c].by # NoClaim => ledger[c].by \in Known /\ c \in Known
  BY DEF TypeInv, LedgerInv, LedgerSound, Sound, Forward
<1>2. \A u \in DOMAIN version : version'[u] = version[u] BY <1>1, RowsStay
<1>3. \A e \in Known : Doc(e)' = Doc(e) BY <1>2 DEF Known, Doc
<1>4. Made(c)' <=> Made(c) BY DEF Made
<1>5. CASE ledger[c].by = NoClaim BY <1>5 DEF External
<1>6. CASE ledger[c].by # NoClaim
  <2>1. PICK b : b = ledger[c].by OBVIOUS
  <2>2. version'[b[1]] = version[b[1]] /\ version'[c[1]] = version[c[1]]
    BY <1>1, <1>2, <1>6, <2>1 DEF Known
  <2>3. External(c) <=> Made(c) /\ b # NoClaim /\ version[b[1]].doc # version[c[1]].doc
    BY <2>1 DEF External, Doc
  <2>4. External(c)' <=> Made(c)' /\ b # NoClaim /\ version'[b[1]].doc # version'[c[1]].doc
    BY <2>1 DEF External, Doc
  <2> QED BY <1>4, <2>2, <2>3, <2>4
<1> QED BY <1>5, <1>6

\* With one worker, nothing is at work on another document while one is reconciled, and
\* jobs that need a thread wait.
LEMMA NobodyElse ==
    ASSUME OneWorker, NEW t \in Threads
    PROVE  /\ SomeThreadFree <=> busy[t] = Idle
           /\ SomeThreadFree => \A u \in Threads : busy[u] = Idle
BY DEF OneWorker, SomeThreadFree

\* A step that changes no claim and no judging, that no thread begins or ends, and that
\* makes every document it adds a version to dirty.
LEMMA ClaimsUntouched ==
    ASSUME WorkInv, [Next]_vars,
           UNCHANGED <<ledger, judging, busy>>,
           dirty \subseteq dirty',
           \A v \in Inserted : version'[v].doc \in dirty',
           (\E t \in Threads : busy[t] # Idle) => version' = version,
           pending' \subseteq pending \cup {ExtractJob(v) : v \in Inserted}
                              \cup {ReconcileJob(d) : d \in Docs}
    PROVE  FreshJobs' /\ EndedByOther' /\ ReadStill' /\ Standing'
<1>1. /\ TypeInv /\ VersionsInv
      /\ \A c \in Claim : Made(c) => c \in Known
  BY DEF WorkInv, TypeInv, LedgerInv, LedgerSound
<1>2. \A c : Made(c)' <=> Made(c) BY DEF Made
<1>3. \A c \in Claim : External(c)' <=> External(c) BY <1>1, ExternalStays
<1>4. FreshJobs'
  <2> SUFFICES ASSUME NEW c \in Claim, ExtractJob(c[1]) \in pending'
               PROVE  ~Made(c)
    BY <1>2 DEF FreshJobs
  <2>1. CASE ExtractJob(c[1]) \in pending BY <2>1 DEF WorkInv, FreshJobs
  <2>2. CASE ExtractJob(c[1]) \notin pending
    BY <1>1, <2>2, JobsDiffer, Numbered DEF Inserted, Known
  <2> QED BY <2>1, <2>2
<1>5. EndedByOther' BY <1>3 DEF WorkInv, EndedByOther
<1>6. ASSUME NEW d \in Docs, Of(d)' = Of(d)
      PROVE  /\ Trusted(d)' <=> Trusted(d)
             /\ Own(d)' = Own(d)
             /\ \A c \in Own(d) : (Later(c[1]) = {})' <=> Later(c[1]) = {}
  BY <1>1, <1>2, <1>6, DocumentStays
<1>7. ReadStill'
  <2> SUFFICES ASSUME version' = version, NEW r, StillSo(r), r.doc \in Docs
               PROVE  StillSo(r)'
    BY <1>1 DEF WorkInv, ReadStill, TypeInv, WorkTyped, PlanTyped
  <2>1. PICK d \in Docs : d = r.doc OBVIOUS
  <2>2. Of(d)' = Of(d) BY DEF Of
  <2>3. /\ Trusted(d)' <=> Trusted(d)
        /\ Own(d)' = Own(d)
        /\ \A c \in Own(d) : (Later(c[1]) = {})' <=> Later(c[1]) = {}
    BY <1>6, <2>2
  <2>4. ASSUME NEW c \in Own(d), NEW e, Decided(d, c, e)
        PROVE  Decided(d, c, e)'
    <3>1. c \in Claim BY DEF Own
    <3>2. Doc(e.by)' = Doc(e.by) BY DEF Doc
    <3>3. External(c)' <=> External(c) BY <1>3, <3>1
    <3>4. Stands(e, c)' <=> Stands(e, c) BY <2>3 DEF Stands
    <3>5. CASE External(c) BY <2>4, <3>3, <3>5 DEF Decided
    <3>6. CASE ~External(c) BY <2>3, <2>4, <3>2, <3>3, <3>4, <3>6 DEF Decided
    <3> QED BY <3>5, <3>6
  <2> QED BY <2>1, <2>3, <2>4 DEF StillSo
<1>8. Standing'
  <2> SUFFICES ASSUME NEW d \in Docs, Clean(d)', Trusted(d)', NEW c \in Own(d)', ~External(c)'
               PROVE  Stands(ledger[c], c)'
    BY DEF Standing
  <2>1. d \notin dirty' BY DEF Clean
  <2>2. Of(d)' = Of(d)
    <3>1. \A v \in DOMAIN version' : v \notin DOMAIN version => v \in Inserted
      BY <1>1, RowsStay, Numbered DEF VersionsInv, VersionsTypeOK, Inserted
    <3>2. \A v \in Of(d)' : v \in Of(d)
      <4> SUFFICES ASSUME NEW v \in Of(d)' PROVE v \in Of(d) OBVIOUS
      <4>1. v \in DOMAIN version' /\ version'[v].doc = d BY DEF Of
      <4>2. v \in DOMAIN version BY <2>1, <3>1, <4>1
      <4> QED BY <1>1, <4>1, <4>2, RowsStay DEF Of
    <3> QED BY <1>1, <3>2, RowsStay
  <2>3. Clean(d) BY <2>1 DEF Clean
  <2>4. /\ Trusted(d) /\ c \in Own(d)
        /\ (Later(c[1]) = {})' <=> Later(c[1]) = {}
    BY <1>6, <2>2
  <2>5. ~External(c) BY <1>3, <2>4 DEF Own
  <2>6. Stands(ledger[c], c) BY <2>3, <2>4, <2>5 DEF WorkInv, Standing
  <2> QED BY <2>4, <2>6 DEF Stands
<1> QED BY <1>4, <1>5, <1>7, <1>8

\* What a step does to a claim another document ended, apart from the work in hand.
Kept == FreshJobs' /\ EndedByOther' /\ ReadStill' /\ Standing'
Untouched == \A c \in Claim : External(c) => ledger'[c] = ledger[c]

LEMMA ExtractStands ==
    ASSUME OneWorker, WorkInv, [Next]_vars, NEW v \in DOMAIN version, Extract(v)
    PROVE  Kept /\ Untouched
<1>1. /\ TypeInv /\ VersionsInv
      /\ \A c \in Claim : Made(c) => c \in Known
  BY DEF WorkInv, TypeInv, LedgerInv, LedgerSound
<1>2. /\ version' = version /\ busy' = busy
      /\ ledger' = [c \in Claim |-> IF c \in Said(v) THEN Entry("active", NoClaim) ELSE ledger[c]]
      /\ pending' = (pending \ {ExtractJob(v)}) \cup {ReconcileJob(version[v].doc)}
      /\ dirty' = dirty \cup {version[v].doc}
      /\ ExtractJob(v) \in pending
  BY DEF Extract, FollowUp, versionVars
<1>3. \A c \in Claim : c[1] = v => ~Made(c) BY <1>2 DEF WorkInv, FreshJobs
<1>4. \A c \in Claim : c[1] # v => ledger'[c] = ledger[c] /\ (Made(c)' <=> Made(c))
  BY <1>2 DEF Said, Made
<1>5. Untouched BY <1>3, <1>4 DEF Untouched, External
<1>6. \A t \in Threads : busy[t] = Idle BY NobodyElse DEF Extract, SomeThreadFree
<1>7. ReadStill' BY <1>2, <1>6 DEF ReadStill
<1>8. FreshJobs'
  <2> SUFFICES ASSUME NEW c \in Claim, ExtractJob(c[1]) \in pending'
               PROVE  ~Made(c)'
    BY DEF FreshJobs
  <2>1. ExtractJob(c[1]) \in pending /\ c[1] # v BY <1>2, JobsDiffer
  <2> QED BY <1>4, <2>1 DEF WorkInv, FreshJobs
<1>9. \A c \in Claim : External(c)' => c[1] # v /\ External(c)
  <2> SUFFICES ASSUME NEW c \in Claim, External(c)'
               PROVE  c[1] # v /\ External(c)
    OBVIOUS
  <2>1. ledger'[c].by # NoClaim /\ ledger'[c] # Unmade BY DEF External, Made
  <2>2. c[1] # v BY <1>2, <1>3, <2>1 DEF Entry, Made
  <2> QED BY <1>1, <1>4, <2>2, ExternalStays
<1>10. EndedByOther' BY <1>4, <1>9 DEF WorkInv, EndedByOther
<1>11. Standing'
  <2> SUFFICES ASSUME NEW d \in Docs, Clean(d)', Trusted(d)', NEW c \in Own(d)', ~External(c)'
               PROVE  Stands(ledger[c], c)'
    BY DEF Standing
  <2>1. d # version[v].doc /\ Clean(d) /\ Of(d)' = Of(d) BY <1>2 DEF Clean, Of
  <2>2. v \notin Of(d) BY <2>1 DEF Of
  <2>3. \A e \in Claim : e[1] \in Of(d) => (Made(e)' <=> Made(e)) BY <1>4, <2>2
  <2>4. /\ Trusted(d) /\ c \in Own(d)
        /\ (Later(c[1]) = {})' <=> Later(c[1]) = {}
    BY <1>1, <2>1, <2>3, DocumentStays
  <2>5. c \in Claim /\ c[1] # v BY <2>1, <2>4 DEF Own, Doc
  <2>6. ledger'[c] = ledger[c] /\ ~External(c) BY <1>1, <1>4, <2>5, ExternalStays
  <2> QED BY <2>1, <2>4, <2>6 DEF WorkInv, Standing, Stands
<1> QED BY <1>5, <1>7, <1>8, <1>10, <1>11 DEF Kept

LEMMA JudgeStands ==
    ASSUME OneWorker, WorkInv, [Next]_vars, NEW a, NEW o, Judge(a, o)
    PROVE  Kept /\ Untouched
<1>1. /\ TypeInv /\ VersionsInv
      /\ \A c \in Claim : Made(c) => c \in Known
  BY DEF WorkInv, TypeInv, LedgerInv, LedgerSound
<1>2. /\ version' = version /\ busy' = busy /\ pending' = pending /\ dirty' = dirty
      /\ <<a, o>> \in judging
  BY DEF Judge, versionVars, workVars, historyVars
<1>3. /\ a \in Claim /\ o \in Claim /\ Made(a) /\ Made(o) /\ Doc(a) # Doc(o)
      /\ ledger \in [Claim -> EntryType]
  BY <1>1, <1>2, TypesByParts DEF TypeInv, JudgedMade, Parts
<1>4. \/ ledger' = ledger
      \/ \E older, newer \in {a, o} :
           /\ Doc(older) # Doc(newer) /\ ledger[older].status # "superseded"
           /\ ledger' = [ledger EXCEPT ![older] = Entry("superseded", newer)]
  BY <1>3 DEF Judge, Supersede
<1>5. \A t \in Threads : busy[t] = Idle BY <1>2 DEF WorkInv, ReadStill, StillSo
<1>6. ReadStill' BY <1>2, <1>5 DEF ReadStill
<1>7. \A c \in Claim : \/ ledger'[c] = ledger[c] /\ (External(c)' <=> External(c))
                       \/ /\ External(c)' /\ ledger'[c].status = "superseded"
                          /\ ledger[c].status # "superseded" /\ Made(c) /\ Made(c)'
  <2> SUFFICES ASSUME NEW c \in Claim, ledger'[c] # ledger[c]
               PROVE  /\ External(c)' /\ ledger'[c].status = "superseded"
                      /\ ledger[c].status # "superseded" /\ Made(c) /\ Made(c)'
    BY <1>1, ExternalStays
  <2>1. PICK newer \in {a, o} : /\ c \in {a, o} /\ Doc(c) # Doc(newer)
                                /\ ledger[c].status # "superseded"
                                /\ ledger'[c] = Entry("superseded", newer)
    BY <1>3, <1>4
  <2>2. Made(c) /\ Made(c)' /\ ledger'[c].by = newer /\ ledger'[c].status = "superseded"
    BY <1>3, <2>1 DEF Made, Unmade, Entry
  <2>3. newer # NoClaim BY <1>3 DEF NoClaim, Claim
  <2>4. External(c)' BY <1>2, <2>1, <2>2, <2>3 DEF External, Doc
  <2> QED BY <2>1, <2>2, <2>4
<1>8. Untouched BY <1>7 DEF Untouched, WorkInv, EndedByOther
<1>9. \A c \in Claim : Made(c)' <=> Made(c) BY <1>7 DEF Made
<1>10. FreshJobs' BY <1>2, <1>9 DEF WorkInv, FreshJobs
<1>11. EndedByOther' BY <1>7 DEF WorkInv, EndedByOther
<1>12. Standing'
  <2> SUFFICES ASSUME NEW d \in Docs, Clean(d)', Trusted(d)', NEW c \in Own(d)', ~External(c)'
               PROVE  Stands(ledger[c], c)'
    BY DEF Standing
  <2>1. Clean(d) /\ Of(d)' = Of(d) BY <1>2 DEF Clean, Of
  <2>2. /\ Trusted(d) /\ c \in Own(d)
        /\ (Later(c[1]) = {})' <=> Later(c[1]) = {}
    BY <1>1, <1>9, <2>1, DocumentStays
  <2>3. ledger'[c] = ledger[c] /\ ~External(c) BY <1>7, <2>2 DEF Own
  <2> QED BY <2>1, <2>2, <2>3 DEF WorkInv, Standing, Stands
<1> QED BY <1>6, <1>8, <1>10, <1>11, <1>12 DEF Kept

LEMMA BeginStands ==
    ASSUME OneWorker, WorkInv, [Next]_vars, NEW t \in Threads, NEW d \in Docs, BeginReconcile(t, d)
    PROVE  Kept /\ Untouched
<1>1. TypeInv /\ VersionsInv BY DEF WorkInv, TypeInv, LedgerInv
<1>2. /\ version' = version /\ ledger' = ledger /\ judging' = judging /\ judging = {}
      /\ pending' = pending \ {ReconcileJob(d)} /\ dirty' = dirty \ {d}
      /\ busy' = [busy EXCEPT ![t] = Plan(d)]
  BY DEF BeginReconcile, versionVars
<1>3. busy' = [u \in Threads |-> Plan(d)]
  BY <1>1, <1>2 DEF OneWorker, TypeInv, LedgerInv, BusySound
<1>4. \A c : (Made(c)' <=> Made(c)) /\ (External(c)' <=> External(c)) /\ Doc(c)' = Doc(c)
  BY <1>2 DEF Made, External, Doc
<1>5. \A e \in Docs : /\ Trusted(e)' <=> Trusted(e)
                      /\ Own(e)' = Own(e)
                      /\ \A c \in Own(e) : (Later(c[1]) = {})' <=> Later(c[1]) = {}
  BY <1>1, <1>2, <1>4, DocumentStays DEF Of
<1>6. /\ Plan(d).doc = d
      /\ Plan(d).read = [c \in Own(d) |-> ledger[c]]
      /\ Plan(d).write = [c \in Own(d) |-> Recomputed(d)[c]]
  BY DEF Plan
<1>7. \A c \in Own(d) : Decided(d, c, Plan(d).write[c]) BY <1>1, <1>6, DecisionMade
<1>8. \A c \in Own(d) : \A e : Decided(d, c, e) => Decided(d, c, e)'
  BY <1>2, <1>4, <1>5 DEF Decided, Stands
<1>9. PICK r : r = Plan(d) OBVIOUS
<1>10. StillSo(r)' BY <1>2, <1>5, <1>6, <1>7, <1>8, <1>9 DEF StillSo
<1>11. ReadStill' BY <1>3, <1>9, <1>10 DEF ReadStill
<1>12. FreshJobs' /\ EndedByOther' BY <1>2, <1>4 DEF WorkInv, FreshJobs, EndedByOther
<1>13. Standing'
  <2> SUFFICES ASSUME NEW e \in Docs, Clean(e)', Trusted(e)', NEW c \in Own(e)', ~External(c)'
               PROVE  Stands(ledger[c], c)'
    BY DEF Standing
  <2>1. e # d
    <3>1. busy'[t].doc = d /\ busy'[t] # Idle BY <1>3, <1>6 DEF Plan, Idle
    <3> QED BY <3>1 DEF Clean
  <2>2. Clean(e) BY <1>2, <2>1 DEF BeginReconcile, OneWorker, Clean
  <2>3. Trusted(e) /\ c \in Own(e) /\ ~External(c) /\ ((Later(c[1]) = {})' <=> Later(c[1]) = {})
    BY <1>4, <1>5
  <2> QED BY <1>2, <2>2, <2>3 DEF WorkInv, Standing, Stands
<1>14. Untouched BY <1>2 DEF Untouched
<1> QED BY <1>11, <1>12, <1>13, <1>14 DEF Kept

LEMMA CommitStands ==
    ASSUME OneWorker, WorkInv, [Next]_vars, NEW t \in Threads, CommitReconcile(t)
    PROVE  Kept /\ Untouched
<1>1. TypeInv /\ VersionsInv /\ \A c \in Claim : Made(c) => c \in Known
  BY DEF WorkInv, TypeInv, LedgerInv, LedgerSound
<1>2. PICK r : r = busy[t] OBVIOUS
<1>3. PICK d : d = r.doc OBVIOUS
<1>4. /\ version' = version /\ judging' = judging /\ pending' = pending /\ dirty' = dirty
      /\ r # Idle
      /\ busy' = [busy EXCEPT ![t] = Idle]
      /\ ledger' = [c \in Claim |->
                      IF c \in DOMAIN r.read THEN Written(r.read[c], r.write[c], ledger[c])
                      ELSE ledger[c]]
  BY <1>2 DEF CommitReconcile, versionVars, historyVars
<1>5. /\ d \in Docs
      /\ \A c \in DOMAIN r.read : Made(c) /\ r.write[c].status # "none" /\ Sound(c, r.write[c])
  BY <1>1, <1>2, <1>3, <1>4 DEF TypeInv, WorkTyped, PlanTyped, LedgerInv, BusySound, PlanSound
<1>6. /\ r.read = [c \in Own(d) |-> ledger[c]]
      /\ \A c \in Own(d) : Decided(d, c, r.write[c])
  BY <1>2, <1>3, <1>4 DEF WorkInv, ReadStill, StillSo
<1>7. \A c \in Own(d) : ledger'[c] = r.write[c] /\ r.write[c] \in EntryType /\ r.write[c].status # "none"
  <2> SUFFICES ASSUME NEW c \in Own(d)
               PROVE  ledger'[c] = r.write[c] /\ r.write[c] \in EntryType /\ r.write[c].status # "none"
    OBVIOUS
  <2>1. c \in Claim /\ c \in DOMAIN r.read /\ r.read[c] = ledger[c] BY <1>6 DEF Own
  <2>2. r.write[c] \in EntryType /\ r.write[c].status # "none" BY <1>5, <2>1 DEF Sound
  <2>3. ledger'[c] = Written(ledger[c], r.write[c], ledger[c]) BY <1>4, <2>1
  <2>4. Written(ledger[c], r.write[c], ledger[c]) = r.write[c]
    BY <2>2 DEF Written, Entry, EntryType
  <2> QED BY <2>2, <2>3, <2>4
<1>8. \A c \in Claim : c \notin Own(d) => ledger'[c] = ledger[c] BY <1>4, <1>6
<1>9. \A c \in Claim : Made(c)' <=> Made(c) BY <1>7, <1>8 DEF Made, Unmade, Entry, Own
<1>10. Untouched BY <1>6, <1>7, <1>8 DEF Decided, Untouched
<1>11. \A c \in Claim : External(c)' <=> External(c)
  <2> SUFFICES ASSUME NEW c \in Claim, ledger'[c] # ledger[c]
               PROVE  ~External(c)' /\ ~External(c)
    BY <1>1, ExternalStays
  <2>1. c \in Own(d) /\ ~External(c) BY <1>8, <1>10 DEF Untouched
  <2>2. /\ ledger'[c] = r.write[c]
        /\ r.write[c].by # NoClaim => Doc(r.write[c].by) = d
    BY <1>6, <1>7, <2>1 DEF Decided
  <2>3. Doc(c)' = d BY <1>4, <2>1 DEF Own, Doc
  <2>4. ~External(c)' BY <1>4, <2>2, <2>3 DEF External, Doc
  <2> QED BY <2>1, <2>4
<1>12. \A u \in Threads : busy'[u] = Idle /\ u = t
  BY <1>1, <1>4 DEF OneWorker, TypeInv, LedgerInv, BusySound
<1>13. ReadStill' /\ FreshJobs' /\ EndedByOther'
  BY <1>4, <1>9, <1>10, <1>11, <1>12 DEF ReadStill, WorkInv, FreshJobs, EndedByOther, Untouched
<1>14. Standing'
  <2> SUFFICES ASSUME NEW e \in Docs, Clean(e)', Trusted(e)', NEW c \in Own(e)', ~External(c)'
               PROVE  Stands(ledger[c], c)'
    BY DEF Standing
  <2>1. Of(e)' = Of(e) BY <1>4 DEF Of
  <2>2. Trusted(e) /\ c \in Own(e) /\ ((Later(c[1]) = {})' <=> Later(c[1]) = {})
    BY <1>1, <1>9, <2>1, DocumentStays
  <2>3. ~External(c) /\ c \in Claim /\ Doc(c) = e BY <1>11, <2>2 DEF Own
  <2>4. CASE e = d BY <1>6, <1>7, <2>2, <2>3, <2>4 DEF Decided, Stands
  <2>5. CASE e # d
    BY <1>2, <1>3, <1>4, <1>8, <1>12, <2>2, <2>3, <2>5 DEF Clean, Own, WorkInv, Standing, Stands
  <2> QED BY <2>4, <2>5
<1> QED BY <1>10, <1>13, <1>14 DEF Kept

LEMMA AbandonStands ==
    ASSUME OneWorker, WorkInv, [Next]_vars, NEW t \in Threads, AbandonReconcile(t)
    PROVE  Kept /\ Untouched
<1>1. TypeInv /\ VersionsInv BY DEF WorkInv, TypeInv, LedgerInv
<1>2. /\ version' = version /\ ledger' = ledger
      /\ pending' = pending \cup {ReconcileJob(busy[t].doc)}
      /\ dirty' = dirty \cup {busy[t].doc}
      /\ busy' = [busy EXCEPT ![t] = Idle]
  BY DEF AbandonReconcile, versionVars
<1>3. \A u \in Threads : busy'[u] = Idle /\ u = t
  BY <1>1, <1>2 DEF OneWorker, TypeInv, LedgerInv, BusySound
<1>4. \A c : (Made(c)' <=> Made(c)) /\ (External(c)' <=> External(c))
  BY <1>2 DEF Made, External, Doc
<1>5. FreshJobs' /\ EndedByOther' /\ ReadStill'
  BY <1>2, <1>3, <1>4, JobsDiffer DEF WorkInv, FreshJobs, EndedByOther, ReadStill
<1>6. Standing'
  <2> SUFFICES ASSUME NEW e \in Docs, Clean(e)', Trusted(e)', NEW c \in Own(e)', ~External(c)'
               PROVE  Stands(ledger[c], c)'
    BY DEF Standing
  <2>1. Clean(e) BY <1>2, <1>3 DEF Clean
  <2>2. Of(e)' = Of(e) BY <1>2 DEF Of
  <2>3. Trusted(e) /\ c \in Own(e) /\ ((Later(c[1]) = {})' <=> Later(c[1]) = {})
    BY <1>1, <1>4, <2>2, DocumentStays
  <2> QED BY <1>2, <1>4, <2>1, <2>3 DEF WorkInv, Standing, Stands
<1>7. Untouched BY <1>2 DEF Untouched
<1> QED BY <1>5, <1>6, <1>7 DEF Kept

-----------------------------------------------------------------------------
LEMMA WorkInvInit == Init => WorkInv
<1> SUFFICES ASSUME Init PROVE WorkInv OBVIOUS
<1>1. \A c \in Claim : ~Made(c) BY DEF Init, Made
<1>2. FreshJobs /\ EndedByOther /\ ReadStill /\ Standing
  BY <1>1 DEF Init, FreshJobs, EndedByOther, External, ReadStill, Standing, Own
<1> QED BY <1>2, TypeInvInit DEF WorkInv

LEMMA WorkInvKept ==
    ASSUME OneWorker, WorkInv, [Next]_vars
    PROVE  WorkInv' /\ Untouched
<1>1. TypeInv /\ TypeInv' BY TypeInvKept DEF WorkInv
<1> SUFFICES Kept /\ Untouched BY <1>1 DEF Kept, WorkInv
<1>2. ASSUME UNCHANGED <<ledger, judging, busy>>,
             dirty \subseteq dirty',
             \A v \in Inserted : version'[v].doc \in dirty',
             (\E t \in Threads : busy[t] # Idle) => version' = version,
             pending' \subseteq pending \cup {ExtractJob(v) : v \in Inserted}
                                \cup {ReconcileJob(d) : d \in Docs}
      PROVE  Kept /\ Untouched
  BY <1>2, ClaimsUntouched DEF Kept, Untouched
<1>3. SomeThreadFree => ~\E t \in Threads : busy[t] # Idle BY NobodyElse DEF SomeThreadFree
<1>4. version' = version => Inserted = {} BY <1>1, Numbered DEF TypeInv, LedgerInv, Inserted
<1>5. CASE \E d \in Docs, x \in Texts, p \in Instants \cup {Undated} : IngestSource(d, x, p)
  BY <1>2, <1>3, <1>5 DEF IngestSource
<1>6. CASE \E d \in Docs, x \in Texts, at \in Instants, counted \in BOOLEAN :
             WaybackBackfill(d, x, at, counted)
  BY <1>2, <1>3, <1>6 DEF WaybackBackfill
<1>7. CASE \E v \in DOMAIN version : Extract(v) BY <1>7, ExtractStands
<1>8. CASE \E pair \in judging : Judge(pair[1], pair[2]) BY <1>8, JudgeStands
<1>9. CASE \E t \in Threads, d \in Docs : BeginReconcile(t, d) BY <1>9, BeginStands
<1>10. CASE \E t \in Threads : CommitReconcile(t) BY <1>10, CommitStands
<1>11. CASE \E t \in Threads : AbandonReconcile(t) BY <1>11, AbandonStands
<1>12. CASE \/ \E v \in DOMAIN version : ExtractNothing(v)
            \/ \E p \in opposed, l \in {"confirmed", "rejected"} : PatchRelation(p, l)
            \/ Clock
            \/ UNCHANGED vars
  BY <1>2, <1>4, <1>12 DEF ExtractNothing, PatchRelation, Clock, Tick, vars, versionVars,
     workVars, historyVars
<1> QED BY <1>5, <1>6, <1>7, <1>8, <1>9, <1>10, <1>11, <1>12 DEF Next

\* The versions with none later are the latest of their documents.
LEMMA LatestHasNoLater ==
    ASSUME VersionsInv, NEW d \in Docs, NEW v \in Of(d)
    PROVE  Later(v) = {} <=> v = Latest(d)
<1>1. Latest(d) \in Of(d) /\ \A u \in Of(d) : At(u) <= At(Latest(d))
  BY LatestIsGreatest DEF VersionsInv, VersionsTypeOK, VersionRow
<1>2. \A u \in Of(d) : At(u) \in Nat
  BY RowTimes DEF VersionsInv, VersionsTypeOK, VersionRow, Of, At
<1>3. Later(v) = {u \in Of(d) : At(u) > At(v)} BY DEF Later, Of
<1> DEFINE l == Latest(d)
<1> HIDE DEF l
<1>4. l \in Of(d) /\ \A u \in Of(d) : At(u) <= At(l) BY <1>1 DEF l
<1>5. ASSUME Later(v) = {}
      PROVE  v = l
  BY <1>2, <1>3, <1>4, <1>5 DEF VersionsInv, InstantsDistinct, Of
<1>6. ASSUME v = l
      PROVE  Later(v) = {}
  BY <1>2, <1>3, <1>4, <1>6
<1> QED BY <1>5, <1>6 DEF l

\* With one worker thread the order of jobs is irrelevant: in a document that no job has
\* still to reconcile, the claims that stand are those of the version latest in world
\* time, for any documents, texts, topics and number of versions.
THEOREM LatestStands ==
    ASSUME OneWorker
    PROVE  Spec => []StandingIsLatest
<1>1. WorkInv => StandingIsLatest
  <2> SUFFICES ASSUME WorkInv, NEW d \in Docs, Clean(d), Trusted(d), NEW c \in Own(d), ~External(c)
               PROVE  ledger[c].status = "active" <=> c[1] = Latest(d)
    BY DEF StandingIsLatest, Trusted
  <2>1. VersionsInv /\ c \in Known /\ Doc(c) = d
    BY DEF WorkInv, TypeInv, LedgerInv, LedgerSound, Own
  <2>2. c[1] \in Of(d) BY <2>1 DEF Known, Of, Doc
  <2>3. Stands(ledger[c], c) BY DEF WorkInv, Standing
  <2> QED BY <2>1, <2>2, <2>3, LatestHasNoLater DEF Stands
<1>2. WorkInv /\ [Next]_vars => WorkInv' BY WorkInvKept
<1> QED BY WorkInvInit, <1>1, <1>2, PTL DEF Spec

\* With one worker thread no extraction, judging or reconcile takes a claim back that
\* another document superseded.
THEOREM OthersSupersessionsStand ==
    ASSUME OneWorker
    PROVE  Spec => ExternalStands
<1>1. WorkInv /\ [Next]_vars => WorkInv' BY WorkInvKept
<1>2. WorkInv /\ [Next]_vars => [\A c \in Claim : External(c) => ledger'[c] = ledger[c]]_vars
  BY WorkInvKept DEF Untouched
<1> QED BY WorkInvInit, <1>1, <1>2, PTL DEF Spec, ExternalStands

-----------------------------------------------------------------------------
(* With one worker thread, contradictions and the timeline: the open        *)
(* contradictions are those between claims that stand, and the events are   *)
(* the ends that the claims of a document have come to.                     *)

\* What a contradiction's row should say, for a label.
Agrees(p, res, open) ==
    IF label[p] = "rejected" THEN res
    ELSE (~res <=> open) \/ (label[p] = "confirmed" /\ res)

Touches(p, d) == p \cap Own(d) # {}

\* What the flush of a plan will leave.
WillResolve(r, p) == p \in (resolved \ r.open) \cup r.close
WillBeOpen(r, p) ==
    \A c \in p : (IF c \in Own(r.doc) THEN r.write[c].status ELSE ledger[c].status) \in {"active", "carried"}

PlanAgrees(r) ==
    \A p \in opposed :
        IF Touches(p, r.doc)
        THEN p \notin reopened => /\ label[p] = "rejected" => p \notin r.open
                                  /\ Agrees(p, WillResolve(r, p), WillBeOpen(r, p))
        ELSE p \notin r.open /\ p \notin r.close

RejectedClosed == \A p \in opposed \ reopened : label[p] = "rejected" => p \in resolved

CleanAgrees ==
    \A p \in opposed \ reopened :
        (\A c \in p : Clean(Doc(c))) => Agrees(p, p \in resolved, StillOpen(p, ledger))

PlansAgree == \A t \in Threads : busy[t] # Idle => PlanAgrees(busy[t])

JudgedDirty == \A pair \in judging : Doc(pair[1]) \in dirty

ConflictInv == RejectedClosed /\ CleanAgrees /\ PlansAgree /\ JudgedDirty

\* Both sides of a contradiction are claims that are made, in versions there are.
LEMMA OpposedMade ==
    ASSUME TypeInv, NEW p \in opposed, NEW c \in p
    PROVE  c \in Claim /\ Made(c) /\ c \in Known
BY TypesByParts DEF TypeInv, Parts, LedgerInv, LedgerSound

\* Steps that leave claims, contradictions and the work in hand alone.
LEMMA ConflictsUntouched ==
    ASSUME WorkInv, ConflictInv, [Next]_vars,
           UNCHANGED <<ledger, relationVars, busy, reopened>>,
           dirty \subseteq dirty',
           judging' = judging,
           (\E t \in Threads : busy[t] # Idle) => version' = version
    PROVE  ConflictInv'
<1>1. TypeInv /\ VersionsInv /\ opposed' = opposed /\ resolved' = resolved /\ label' = label
  BY DEF WorkInv, TypeInv, LedgerInv, relationVars
<1>2. \A c \in Known : Doc(c)' = Doc(c) BY <1>1, RowsStay DEF Known, Doc
<1>3. \A d : Clean(d)' => Clean(d) BY DEF Clean
<1>4. \A p, a, b : Agrees(p, a, b)' <=> Agrees(p, a, b) BY <1>1 DEF Agrees
<1>5. RejectedClosed' BY <1>1 DEF ConflictInv, RejectedClosed
<1>6. CleanAgrees'
  <2> SUFFICES ASSUME NEW p \in opposed \ reopened, \A c \in p : Clean(Doc(c))'
               PROVE  Agrees(p, p \in resolved, StillOpen(p, ledger))'
    BY <1>1 DEF CleanAgrees
  <2>1. \A c \in p : Clean(Doc(c))
    <3> SUFFICES ASSUME NEW c \in p PROVE Clean(Doc(c)) OBVIOUS
    <3>1. PICK d : d = Doc(c) OBVIOUS
    <3>2. Doc(c)' = d BY <1>1, <1>2, <3>1, OpposedMade
    <3>3. Clean(d)' BY <3>2 DEF Clean
    <3> QED BY <1>3, <3>1, <3>3
  <2>2. Agrees(p, p \in resolved, StillOpen(p, ledger)) BY <2>1 DEF ConflictInv, CleanAgrees
  <2> QED BY <1>1, <2>2 DEF Agrees, StillOpen, Live
<1>7. PlansAgree'
  <2> SUFFICES ASSUME version' = version, NEW r, PlanAgrees(r)
               PROVE  PlanAgrees(r)'
    BY DEF ConflictInv, PlansAgree
  <2>1. \A d : Own(d)' = Own(d) BY DEF Own, Made, Doc
  <2> QED BY <1>1, <2>1 DEF PlanAgrees, Touches, Agrees, WillResolve, WillBeOpen
<1>8. JudgedDirty'
  <2> SUFFICES ASSUME NEW pair \in judging PROVE Doc(pair[1])' \in dirty' BY DEF JudgedDirty
  <2>1. Doc(pair[1]) \in dirty /\ pair[1] \in Known
    BY <1>1 DEF ConflictInv, JudgedDirty, TypeInv, LedgerInv, JudgingSound
  <2> QED BY <1>2, <2>1
<1> QED BY <1>5, <1>6, <1>7, <1>8 DEF ConflictInv

LEMMA ConflictsOfExtract ==
    ASSUME OneWorker, WorkInv, ConflictInv, [Next]_vars, NEW v \in DOMAIN version, Extract(v)
    PROVE  ConflictInv'
<1>1. TypeInv BY DEF WorkInv
<1>2. /\ version' = version /\ busy' = busy /\ reopened' = reopened
      /\ opposed' = opposed /\ resolved' = resolved /\ label' = label
      /\ ledger' = [c \in Claim |-> IF c \in Said(v) THEN Entry("active", NoClaim) ELSE ledger[c]]
      /\ dirty' = dirty \cup {version[v].doc}
      /\ judging' = UNION {{c} \X Candidates(c) : c \in Said(v)}
      /\ ExtractJob(v) \in pending
  BY DEF Extract, versionVars, relationVars
<1>3. \A p \in opposed : \A c \in p : ledger'[c] = ledger[c] /\ Doc(c)' = Doc(c)
  <2> SUFFICES ASSUME NEW p \in opposed, NEW c \in p
               PROVE  ledger'[c] = ledger[c] /\ Doc(c)' = Doc(c)
    OBVIOUS
  <2>1. c \in Claim /\ Made(c) BY <1>1, OpposedMade
  <2>2. c \notin Said(v) BY <1>2, <2>1 DEF WorkInv, FreshJobs, Said
  <2> QED BY <1>2, <2>1, <2>2 DEF Doc
<1>4. RejectedClosed' BY <1>2 DEF ConflictInv, RejectedClosed
<1>5. CleanAgrees'
  <2> SUFFICES ASSUME NEW p \in opposed \ reopened, \A c \in p : Clean(Doc(c))'
               PROVE  Agrees(p, p \in resolved, StillOpen(p, ledger))'
    BY <1>2 DEF CleanAgrees
  <2>1. \A c \in p : Clean(Doc(c)) BY <1>2, <1>3 DEF Clean, Doc
  <2>2. Agrees(p, p \in resolved, StillOpen(p, ledger)) BY <2>1 DEF ConflictInv, CleanAgrees
  <2> QED BY <1>2, <1>3, <2>2 DEF Agrees, StillOpen, Live
<1>6. PlansAgree' BY <1>2, NobodyElse DEF Extract, SomeThreadFree, PlansAgree
<1>7. JudgedDirty'
  <2> SUFFICES ASSUME NEW pair \in judging' PROVE Doc(pair[1])' \in dirty' BY DEF JudgedDirty
  <2>1. PICK c \in Said(v) : pair \in {c} \X Candidates(c) BY <1>2
  <2> QED BY <1>2, <2>1 DEF Said, Doc
<1> QED BY <1>4, <1>5, <1>6, <1>7 DEF ConflictInv

LEMMA ConflictsOfJudge ==
    ASSUME OneWorker, WorkInv, ConflictInv, [Next]_vars, NEW a, NEW o, Judge(a, o)
    PROVE  ConflictInv'
<1>1. TypeInv BY DEF WorkInv
<1>2. /\ version' = version /\ busy' = busy /\ dirty' = dirty /\ reopened' = reopened
      /\ <<a, o>> \in judging /\ judging' \subseteq judging
  BY DEF Judge, versionVars, workVars, historyVars
<1>3. a \in Claim /\ o \in Claim /\ ledger \in [Claim -> EntryType] /\ label \in [opposed -> Labels]
  BY <1>1, <1>2, TypesByParts DEF TypeInv, Parts
<1>4. \A d : (Clean(d)' <=> Clean(d)) BY <1>2 DEF Clean
<1>5. Doc(a) \in dirty BY <1>2 DEF ConflictInv, JudgedDirty
<1>6. \A t \in Threads : busy[t] = Idle BY <1>2 DEF WorkInv, ReadStill, StillSo
<1>7. PlansAgree' /\ JudgedDirty' BY <1>2, <1>6 DEF ConflictInv, PlansAgree, JudgedDirty, Doc
<1>8. CASE /\ opposed' = opposed \cup {{a, o}}
           /\ label' = [p \in opposed' |-> IF p = {a, o} THEN "none" ELSE label[p]]
           /\ UNCHANGED <<ledger, resolved>>
  <2>1. RejectedClosed' BY <1>2, <1>8 DEF ConflictInv, RejectedClosed
  <2>2. CleanAgrees'
    <3> SUFFICES ASSUME NEW p \in opposed' \ reopened, \A c \in p : Clean(Doc(c))'
                 PROVE  Agrees(p, p \in resolved, StillOpen(p, ledger))'
      BY <1>2 DEF CleanAgrees
    <3>1. \A c \in p : Clean(Doc(c)) BY <1>2 DEF Clean, Doc
    <3>2. p # {a, o} BY <1>5, <3>1 DEF Clean
    <3>3. p \in opposed /\ label'[p] = label[p] BY <1>8, <3>2
    <3>4. Agrees(p, p \in resolved, StillOpen(p, ledger))
      BY <3>1, <3>3 DEF ConflictInv, CleanAgrees
    <3> QED BY <1>8, <3>3, <3>4 DEF Agrees, StillOpen, Live
  <2> QED BY <1>7, <2>1, <2>2 DEF ConflictInv
<1>9. CASE /\ UNCHANGED <<opposed, label>>
           /\ \/ UNCHANGED <<ledger, resolved>>
              \/ \E older, newer \in {a, o} :
                   /\ ledger' = [ledger EXCEPT ![older] = Entry("superseded", newer)]
                   /\ resolved' = resolved \cup {p \in opposed \ resolved : older \in p}
  <2>1. RejectedClosed' BY <1>2, <1>9 DEF ConflictInv, RejectedClosed
  <2>2. CleanAgrees'
    <3> SUFFICES ASSUME NEW p \in opposed \ reopened, \A c \in p : Clean(Doc(c))'
                 PROVE  Agrees(p, p \in resolved, StillOpen(p, ledger))'
      BY <1>2, <1>9 DEF CleanAgrees
    <3>1. \A c \in p : Clean(Doc(c)) BY <1>2 DEF Clean, Doc
    <3>2. Agrees(p, p \in resolved, StillOpen(p, ledger)) BY <3>1 DEF ConflictInv, CleanAgrees
    <3>3. CASE UNCHANGED <<ledger, resolved>> BY <1>9, <3>2, <3>3 DEF Agrees, StillOpen, Live
    <3>4. ASSUME NEW older \in {a, o}, NEW newer \in {a, o},
                 ledger' = [ledger EXCEPT ![older] = Entry("superseded", newer)],
                 resolved' = resolved \cup {q \in opposed \ resolved : older \in q}
          PROVE  Agrees(p, p \in resolved, StillOpen(p, ledger))'
      <4>1. CASE older \in p BY <1>3, <3>4, <4>1 DEF Entry, StillOpen, Live, Agrees
      <4>2. CASE older \notin p
        BY <1>1, <1>3, <1>9, <3>2, <3>4, <4>2, OpposedMade DEF StillOpen, Live, Agrees
      <4> QED BY <4>1, <4>2
    <3> QED BY <1>9, <3>3, <3>4
  <2> QED BY <1>7, <2>1, <2>2 DEF ConflictInv
<1> QED BY <1>8, <1>9 DEF Judge, Supersede

LEMMA ConflictsOfBegin ==
    ASSUME OneWorker, WorkInv, ConflictInv, [Next]_vars, NEW t \in Threads, NEW d \in Docs,
           BeginReconcile(t, d)
    PROVE  ConflictInv'
<1>1. TypeInv BY DEF WorkInv
<1>2. /\ version' = version /\ ledger' = ledger /\ judging = {} /\ judging' = {}
      /\ opposed' = opposed /\ resolved' = resolved /\ label' = label
      /\ dirty' = dirty \ {d} /\ reopened' = reopened \ Touching(d)
  BY DEF BeginReconcile, versionVars, relationVars
<1>3. PICK r : r = Plan(d) OBVIOUS
<1>4. /\ r.doc = d /\ r # Idle
      /\ r.write = [c \in Own(d) |-> Recomputed(d)[c]]
      /\ \A p : p \in r.open <=> p \in Touching(d) /\ StillOpen(p, Recomputed(d)) /\ p \in resolved
      /\ \A p : p \in r.close <=> p \in Touching(d) /\ ~StillOpen(p, Recomputed(d)) /\ p \notin resolved
  BY <1>3 DEF Plan, Idle
<1>5. \A u \in Threads : busy[u] = Idle /\ busy'[u] = r
  BY <1>1, <1>3 DEF BeginReconcile, OneWorker, TypeInv, LedgerInv, BusySound
<1>6. \A p \in opposed : p \in Touching(d) <=> label[p] # "rejected" /\ Touches(p, d)
  BY DEF Touching, Touches
<1>7. RejectedClosed'
  <2> SUFFICES ASSUME NEW p \in opposed, p \notin reopened', label[p] = "rejected"
               PROVE  p \in resolved
    BY <1>2 DEF RejectedClosed
  <2> QED BY <1>2, <1>6 DEF ConflictInv, RejectedClosed
<1>8. CleanAgrees'
  <2> SUFFICES ASSUME NEW p \in opposed, p \notin reopened', \A c \in p : Clean(Doc(c))'
               PROVE  Agrees(p, p \in resolved, StillOpen(p, ledger))'
    BY <1>2 DEF CleanAgrees
  <2>1. \A c \in p : Clean(Doc(c)) /\ Doc(c) # d
    <3> SUFFICES ASSUME NEW c \in p PROVE Clean(Doc(c)) /\ Doc(c) # d OBVIOUS
    <3>1. PICK e : e = Doc(c) OBVIOUS
    <3>2. Doc(c)' = e BY <1>2, <3>1 DEF Doc
    <3>3. Clean(e)' BY <3>2 DEF Clean
    <3>4. e # d BY <1>4, <1>5, <3>3 DEF Clean
    <3> QED BY <1>2, <1>5, <3>1, <3>3, <3>4 DEF Clean
  <2>2. p \notin Touching(d) BY <1>6, <2>1 DEF Touches, Own
  <2>3. Agrees(p, p \in resolved, StillOpen(p, ledger))
    BY <1>2, <2>1, <2>2 DEF ConflictInv, CleanAgrees
  <2> QED BY <1>2, <2>3 DEF Agrees, StillOpen, Live
<1>9. PlanAgrees(r)'
  <2>1. \A e : Own(e)' = Own(e) BY <1>2 DEF Own, Made, Doc
  <2> SUFFICES ASSUME NEW p \in opposed
               PROVE  IF Touches(p, d)
                      THEN p \notin reopened' => /\ label[p] = "rejected" => p \notin r.open
                                                 /\ Agrees(p, WillResolve(r, p), WillBeOpen(r, p))
                      ELSE p \notin r.open /\ p \notin r.close
    BY <1>2, <1>4, <2>1 DEF PlanAgrees, Touches, Agrees, WillResolve, WillBeOpen
  <2>2. CASE ~Touches(p, d) BY <1>4, <1>6, <2>2
  <2>3. CASE Touches(p, d) /\ label[p] = "rejected"
    <3> SUFFICES ASSUME p \notin reopened'
                 PROVE  p \notin r.open /\ Agrees(p, WillResolve(r, p), WillBeOpen(r, p))
      BY <2>3
    <3>1. p \notin Touching(d) BY <1>6, <2>3
    <3>2. p \in resolved BY <1>2, <2>3, <3>1 DEF ConflictInv, RejectedClosed
    <3> QED BY <1>4, <2>3, <3>1, <3>2 DEF Agrees, WillResolve
  <2>4. CASE Touches(p, d) /\ label[p] # "rejected"
    <3>1. WillResolve(r, p) <=> ~StillOpen(p, Recomputed(d)) BY <1>4, <1>6, <2>4 DEF WillResolve
    <3>2. WillBeOpen(r, p) <=> StillOpen(p, Recomputed(d))
      <4>1. ASSUME NEW c \in p
            PROVE  Recomputed(d)[c] = IF c \in Own(r.doc) THEN r.write[c] ELSE ledger[c]
        BY <1>1, <1>4, OpposedMade DEF Recomputed
      <4> QED BY <4>1 DEF WillBeOpen, StillOpen, Live
    <3> QED BY <2>4, <3>1, <3>2 DEF Agrees
  <2> QED BY <2>2, <2>3, <2>4
<1>10. PlansAgree' /\ JudgedDirty'
  <2>1. JudgedDirty' BY <1>2 DEF JudgedDirty
  <2>2. PlansAgree'
    <3> SUFFICES ASSUME NEW u \in Threads PROVE PlanAgrees(busy[u])' BY DEF PlansAgree
    <3>1. busy'[u] = r BY <1>5
    <3> QED BY <1>9, <3>1 DEF PlanAgrees, Touches, Agrees, WillResolve, WillBeOpen
  <2> QED BY <2>1, <2>2
<1> QED BY <1>7, <1>8, <1>10 DEF ConflictInv

\* With one worker a flush leaves a document's claims exactly as the plan had them.
LEMMA FlushAsPlanned ==
    ASSUME WorkInv, NEW t \in Threads, CommitReconcile(t)
    PROVE  \A c \in Claim : ledger'[c] = IF c \in Own(busy[t].doc) THEN busy[t].write[c] ELSE ledger[c]
<1>1. PICK r : r = busy[t] OBVIOUS
<1>2. /\ r # Idle /\ r.read = [c \in Own(r.doc) |-> ledger[c]]
      /\ ledger' = [c \in Claim |->
                      IF c \in DOMAIN r.read THEN Written(r.read[c], r.write[c], ledger[c])
                      ELSE ledger[c]]
  BY <1>1 DEF CommitReconcile, WorkInv, ReadStill, StillSo
<1>3. \A c \in Own(r.doc) : r.write[c] \in EntryType
  BY <1>1, <1>2 DEF WorkInv, TypeInv, LedgerInv, BusySound, PlanSound, Sound
<1>4. \A c \in Own(r.doc) : Written(ledger[c], r.write[c], ledger[c]) = r.write[c]
  <2> SUFFICES ASSUME NEW c \in Own(r.doc)
               PROVE  Written(ledger[c], r.write[c], ledger[c]) = r.write[c]
    OBVIOUS
  <2>1. Written(ledger[c], r.write[c], ledger[c]) = Entry(r.write[c].status, r.write[c].by)
    BY DEF Written
  <2> QED BY <1>3, <2>1 DEF Entry, EntryType
<1> QED BY <1>1, <1>2, <1>4

LEMMA ConflictsOfCommit ==
    ASSUME OneWorker, WorkInv, ConflictInv, [Next]_vars, NEW t \in Threads, CommitReconcile(t)
    PROVE  ConflictInv'
<1>1. TypeInv BY DEF WorkInv
<1>2. PICK r : r = busy[t] OBVIOUS
<1>3. /\ version' = version /\ judging' = {} /\ dirty' = dirty /\ reopened' = reopened
      /\ opposed' = opposed /\ label' = label
      /\ \A p : p \in resolved' <=> WillResolve(r, p)
      /\ r # Idle /\ PlanAgrees(r)
  BY <1>2 DEF CommitReconcile, versionVars, historyVars, WillResolve, ConflictInv, PlansAgree
<1>4. \A u \in Threads : busy'[u] = Idle /\ u = t
  BY <1>1 DEF CommitReconcile, OneWorker, TypeInv, LedgerInv, BusySound
<1>5. \A c \in Claim : ledger'[c] = IF c \in Own(r.doc) THEN r.write[c] ELSE ledger[c]
  BY <1>2, FlushAsPlanned
<1>6. RejectedClosed'
  <2> SUFFICES ASSUME NEW p \in opposed \ reopened, label[p] = "rejected"
               PROVE  WillResolve(r, p)
    BY <1>3 DEF RejectedClosed
  <2>1. p \in resolved BY DEF ConflictInv, RejectedClosed
  <2>2. p \notin r.open BY <1>3 DEF PlanAgrees
  <2> QED BY <2>1, <2>2 DEF WillResolve
<1>7. CleanAgrees'
  <2> SUFFICES ASSUME NEW p \in opposed \ reopened, \A c \in p : Clean(Doc(c))'
               PROVE  Agrees(p, p \in resolved, StillOpen(p, ledger))'
    BY <1>3 DEF CleanAgrees
  <2>1. StillOpen(p, ledger)' <=> WillBeOpen(r, p)
    BY <1>1, <1>5, OpposedMade DEF StillOpen, Live, WillBeOpen
  <2>2. Agrees(p, WillResolve(r, p), WillBeOpen(r, p))
    <3>1. CASE Touches(p, r.doc) BY <1>3, <3>1 DEF PlanAgrees
    <3>2. CASE ~Touches(p, r.doc)
      <4>1. WillResolve(r, p) <=> p \in resolved BY <1>3, <3>2 DEF PlanAgrees, WillResolve
      <4>2. WillBeOpen(r, p) <=> StillOpen(p, ledger)
        BY <3>2 DEF WillBeOpen, StillOpen, Live, Touches
      <4>3. \A c \in p : Clean(Doc(c))
        <5> SUFFICES ASSUME NEW c \in p PROVE Clean(Doc(c)) OBVIOUS
        <5>1. PICK e : e = Doc(c) OBVIOUS
        <5>2. e # r.doc BY <1>1, <3>2, <5>1, OpposedMade DEF Touches, Own
        <5>3. Doc(c)' = e BY <1>3, <5>1 DEF Doc
        <5>4. Clean(e)' BY <5>3 DEF Clean
        <5>5. busy[t].doc # e BY <1>2, <5>2
        <5> QED BY <1>3, <1>4, <5>1, <5>4, <5>5 DEF Clean
      <4> QED BY <4>1, <4>2, <4>3 DEF ConflictInv, CleanAgrees, Agrees
    <3> QED BY <3>1, <3>2
  <2>3. p \in resolved' <=> WillResolve(r, p) BY <1>3
  <2> QED BY <1>3, <2>1, <2>2, <2>3 DEF Agrees
<1>8. PlansAgree' /\ JudgedDirty' BY <1>3, <1>4 DEF PlansAgree, JudgedDirty
<1> QED BY <1>6, <1>7, <1>8 DEF ConflictInv

LEMMA ConflictsOfAbandon ==
    ASSUME OneWorker, WorkInv, ConflictInv, NEW t \in Threads, AbandonReconcile(t)
    PROVE  ConflictInv'
<1>1. /\ version' = version /\ ledger' = ledger /\ judging = {} /\ judging' = {}
      /\ opposed' = opposed /\ resolved' = resolved /\ label' = label /\ reopened' = reopened
      /\ dirty' = dirty \cup {busy[t].doc}
  BY DEF AbandonReconcile, versionVars, relationVars
<1>2. \A u \in Threads : busy'[u] = Idle /\ u = t
  BY DEF AbandonReconcile, OneWorker, WorkInv, TypeInv, LedgerInv, BusySound
<1>3. RejectedClosed' /\ PlansAgree' /\ JudgedDirty'
  BY <1>1, <1>2 DEF ConflictInv, RejectedClosed, PlansAgree, JudgedDirty
<1>4. CleanAgrees'
  <2> SUFFICES ASSUME NEW p \in opposed \ reopened, \A c \in p : Clean(Doc(c))'
               PROVE  Agrees(p, p \in resolved, StillOpen(p, ledger))'
    BY <1>1 DEF CleanAgrees
  <2>1. \A c \in p : Clean(Doc(c))
    <3> SUFFICES ASSUME NEW c \in p PROVE Clean(Doc(c)) OBVIOUS
    <3>1. PICK e : e = Doc(c) OBVIOUS
    <3>2. Doc(c)' = e BY <1>1, <3>1 DEF Doc
    <3>3. Clean(e)' BY <3>2 DEF Clean
    <3> QED BY <1>1, <1>2, <3>1, <3>3 DEF Clean
  <2>2. Agrees(p, p \in resolved, StillOpen(p, ledger)) BY <2>1 DEF ConflictInv, CleanAgrees
  <2> QED BY <1>1, <2>2 DEF Agrees, StillOpen, Live
<1> QED BY <1>3, <1>4 DEF ConflictInv

LEMMA ConflictsOfPatch ==
    ASSUME WorkInv, ConflictInv, NEW q \in opposed, NEW l \in {"confirmed", "rejected"},
           PatchRelation(q, l)
    PROVE  ConflictInv'
<1>1. /\ version' = version /\ ledger' = ledger /\ judging' = {} /\ busy' = busy
      /\ opposed' = opposed /\ dirty' = dirty
      /\ resolved' = IF l = "rejected" THEN resolved \cup {q} ELSE resolved
      /\ reopened' = IF l # "rejected" THEN reopened
                     ELSE IF ToBeOpened(q) THEN reopened \cup {q} ELSE reopened \ {q}
  BY DEF PatchRelation, versionVars
<1>2. \A p \in opposed : label'[p] = IF p = q THEN l ELSE label[p]
  BY TypesByParts DEF PatchRelation, WorkInv, TypeInv, Parts
<1>3. RejectedClosed'
  <2> SUFFICES ASSUME NEW p \in opposed, p \notin reopened', label'[p] = "rejected"
               PROVE  p \in resolved'
    BY <1>1 DEF RejectedClosed
  <2>1. CASE p = q BY <1>1, <1>2, <2>1
  <2>2. CASE p # q BY <1>1, <1>2, <2>2 DEF ConflictInv, RejectedClosed
  <2> QED BY <2>1, <2>2
<1>4. CleanAgrees'
  <2> SUFFICES ASSUME NEW p \in opposed, p \notin reopened', \A c \in p : Clean(Doc(c))'
               PROVE  Agrees(p, p \in resolved, StillOpen(p, ledger))'
    BY <1>1 DEF CleanAgrees
  <2>1. CASE p = q /\ l = "rejected" BY <1>1, <1>2, <2>1 DEF Agrees
  <2>2. CASE ~(p = q /\ l = "rejected")
    <3>1. p \notin reopened /\ (p \in resolved' <=> p \in resolved) BY <1>1, <2>2
    <3>2. \A c \in p : Clean(Doc(c)) BY <1>1 DEF Clean, Doc
    <3>3. Agrees(p, p \in resolved, StillOpen(p, ledger))
      BY <3>1, <3>2 DEF ConflictInv, CleanAgrees
    <3>4. StillOpen(p, ledger)' <=> StillOpen(p, ledger) BY <1>1 DEF StillOpen, Live
    <3>5. label'[p] = label[p] \/ label'[p] = "confirmed" BY <1>2, <2>2
    <3> QED BY <3>1, <3>3, <3>4, <3>5 DEF Agrees
  <2> QED BY <2>1, <2>2
<1>5. PlansAgree'
  <2> SUFFICES ASSUME NEW u \in Threads, busy[u] # Idle
               PROVE  PlanAgrees(busy[u])'
    BY <1>1 DEF PlansAgree
  <2>1. PICK r : r = busy[u] OBVIOUS
  <2>2. PlanAgrees(r) BY <2>1 DEF ConflictInv, PlansAgree
  <2>3. \A e : Own(e)' = Own(e) BY <1>1 DEF Own, Made, Doc
  <2>4. \A p : (WillBeOpen(r, p)' <=> WillBeOpen(r, p)) /\ (Touches(p, r.doc)' <=> Touches(p, r.doc))
    BY <1>1, <2>3 DEF WillBeOpen, Touches
  <2>5. ASSUME NEW p \in opposed
        PROVE  (IF Touches(p, r.doc)
                THEN p \notin reopened => /\ label[p] = "rejected" => p \notin r.open
                                          /\ Agrees(p, WillResolve(r, p), WillBeOpen(r, p))
                ELSE p \notin r.open /\ p \notin r.close)'
    <3>1. CASE ~Touches(p, r.doc) BY <2>2, <2>4, <3>1 DEF PlanAgrees
    <3> SUFFICES ASSUME Touches(p, r.doc), p \notin reopened'
                 PROVE  /\ label'[p] = "rejected" => p \notin r.open
                        /\ Agrees(p, WillResolve(r, p), WillBeOpen(r, p))'
      BY <2>4, <3>1
    <3>2. CASE p = q /\ l = "rejected"
      BY <1>1, <1>2, <2>1, <3>2 DEF ToBeOpened, Agrees, WillResolve
    <3>3. CASE ~(p = q /\ l = "rejected")
      BY <1>1, <1>2, <2>2, <2>4, <3>3 DEF PlanAgrees, WillResolve, Agrees
    <3> QED BY <3>2, <3>3
  <2>6. PlanAgrees(r)' BY <1>1, <2>5 DEF PlanAgrees
  <2> QED BY <1>1, <2>1, <2>6 DEF PlanAgrees, Touches, Agrees, WillResolve, WillBeOpen
<1>6. JudgedDirty' BY <1>1 DEF JudgedDirty
<1> QED BY <1>3, <1>4, <1>5, <1>6 DEF ConflictInv

-----------------------------------------------------------------------------
LEMMA ConflictInvInit == Init => ConflictInv
BY DEF Init, ConflictInv, RejectedClosed, CleanAgrees, PlansAgree, JudgedDirty

LEMMA ConflictInvKept ==
    ASSUME OneWorker, WorkInv, ConflictInv, [Next]_vars
    PROVE  ConflictInv'
<1>1. SomeThreadFree => ~\E t \in Threads : busy[t] # Idle BY NobodyElse DEF SomeThreadFree
<1>2. CASE \E d \in Docs, x \in Texts, p \in Instants \cup {Undated} : IngestSource(d, x, p)
  BY <1>1, <1>2, ConflictsUntouched DEF IngestSource
<1>3. CASE \E d \in Docs, x \in Texts, at \in Instants, counted \in BOOLEAN :
             WaybackBackfill(d, x, at, counted)
  BY <1>1, <1>3, ConflictsUntouched DEF WaybackBackfill
<1>4. CASE \E v \in DOMAIN version : Extract(v) BY <1>4, ConflictsOfExtract
<1>5. CASE \E pair \in judging : Judge(pair[1], pair[2]) BY <1>5, ConflictsOfJudge
<1>6. CASE \E t \in Threads, d \in Docs : BeginReconcile(t, d) BY <1>6, ConflictsOfBegin
<1>7. CASE \E t \in Threads : CommitReconcile(t) BY <1>7, ConflictsOfCommit
<1>8. CASE \E t \in Threads : AbandonReconcile(t) BY <1>8, ConflictsOfAbandon
<1>9. CASE \E p \in opposed, l \in {"confirmed", "rejected"} : PatchRelation(p, l)
  BY <1>9, ConflictsOfPatch
<1>10. CASE (\E v \in DOMAIN version : ExtractNothing(v)) \/ Clock \/ UNCHANGED vars
  BY <1>10, ConflictsUntouched DEF ExtractNothing, Clock, Tick, vars, versionVars, workVars,
     historyVars, relationVars
<1> QED BY <1>2, <1>3, <1>4, <1>5, <1>6, <1>7, <1>8, <1>9, <1>10 DEF Next

\* With one worker thread, between claims of documents no job has still to reconcile, a
\* contradiction is open when both sides stand and closed when one does not, and what a
\* user rejected is closed, whatever was judged, superseded, labelled and reconciled, in
\* whatever order.
THEOREM ConflictsFollow ==
    ASSUME OneWorker
    PROVE  Spec => []ConflictsMatchLedger
<1> DEFINE Inv == WorkInv /\ ConflictInv
<1>1. Init => Inv BY WorkInvInit, ConflictInvInit
<1>2. Inv /\ [Next]_vars => Inv' BY WorkInvKept, ConflictInvKept
<1>3. Inv => ConflictsMatchLedger BY DEF ConflictInv, CleanAgrees, Agrees, ConflictsMatchLedger
<1> HIDE DEF Inv
<1> QED BY <1>1, <1>2, <1>3, PTL DEF Spec

-----------------------------------------------------------------------------
\* The timeline.  Events other than conflict_resolved tell how a claim ended.
Ending(e) == e.event # "conflict_resolved"
EndedIn(L, c) == ~External(c) /\ L[c].status \in {"superseded", "retracted"}

\* The events in S tell the ends of d's claims that L has, each with a next version.
EndsAre(d, S, L) ==
    /\ \A e : Ending(e) /\ e.claim \in Own(d) => (e \in S <=> e \in LifecycleEvents(d, L))
    /\ \A c \in Own(d) : EndedIn(L, c) => Later(c[1]) # {}

Single == \A e \in DOMAIN events : Ending(e) => events[e] = 1

EndsTold == \A d \in Docs : Clean(d) => EndsAre(d, DOMAIN events, ledger)

\* While pairs are judged, only superseding has changed their claims.
JudgedLive ==
    \A pair \in judging : \A c \in {pair[1], pair[2]} : ledger[c].status \in {"active", "carried", "superseded"}

PlanTells(r) ==
    /\ \A e \in r.drop : e.claim \in Own(r.doc)
    /\ \A e \in r.add : Ending(e) => e \notin DOMAIN events /\ e.claim \in Own(r.doc)
    /\ EndsAre(r.doc, (DOMAIN events \ r.drop) \cup r.add, r.write)

PlansTell == \A t \in Threads : busy[t] # Idle => PlanTells(busy[t])

TimelineInv == Single /\ EndsTold /\ JudgedLive /\ PlansTell

\* Adding and dropping sets of events that are there once, or not at all.
LEMMA EventsAdded ==
    ASSUME NEW B, NEW A, NEW e, e \notin A, e \in DOMAIN B => B[e] = 1
    PROVE  /\ e \in DOMAIN (B (+) SetToBag(A)) <=> e \in DOMAIN B
           /\ e \in DOMAIN B => (B (+) SetToBag(A))[e] = 1
BY DEF (+), SetToBag

LEMMA EventsFlushed ==
    ASSUME NEW B, NEW D, NEW A, NEW e, e \in DOMAIN B => B[e] = 1, e \in A => e \notin DOMAIN B,
           NEW N, N = (B (-) SetToBag(D)) (+) SetToBag(A)
    PROVE  /\ e \in DOMAIN N <=> e \in (DOMAIN B \ D) \cup A
           /\ e \in DOMAIN N => N[e] = 1
<1> DEFINE K == B (-) SetToBag(D)
<1>1. (e \in DOMAIN K <=> e \in DOMAIN B \ D) /\ (e \in DOMAIN K => K[e] = 1)
  BY DEF (-), SetToBag
<1>2. N = K (+) SetToBag(A) OBVIOUS
<1> HIDE DEF K
<1> QED BY <1>1, <1>2 DEF (+), SetToBag

\* A document without a new version, in which the same claims have ended, and as before,
\* should have the events it should have had.
LEMMA EndsStay ==
    ASSUME TypeInv, [Next]_vars, NEW d \in Docs, Of(d)' = Of(d),
           \A c \in Claim : c[1] \in Of(d) => (Made(c)' <=> Made(c)),
           \A c \in Own(d) : /\ EndedIn(ledger, c)' <=> EndedIn(ledger, c)
                             /\ EndedIn(ledger, c) => ledger'[c] = ledger[c] /\ Later(c[1]) # {}
    PROVE  /\ Own(d)' = Own(d)
           /\ LifecycleEvents(d, ledger)' = LifecycleEvents(d, ledger)
           /\ \A c \in Own(d) : EndedIn(ledger, c)' => (Later(c[1]) # {})'
<1>1. VersionsInv /\ \A c \in Own(d) : c[1] \in Of(d)
  BY DEF TypeInv, LedgerInv, LedgerSound, Own, Known, Of, Doc
<1>2. Own(d)' = Own(d) /\ \A c \in Own(d) : (Later(c[1]) = {})' <=> Later(c[1]) = {}
  BY DocumentStays
<1>3. \A c \in Own(d) : EndedIn(ledger, c) => Successor(c[1])' = Successor(c[1])
  BY <1>1, LaterStays
<1>4. LifecycleEvents(d, ledger) =
        {[event |-> ledger[c].status, claim |-> c, other |-> ledger[c].by, version |-> Successor(c[1])] :
            c \in {e \in Own(d) : EndedIn(ledger, e)}}
  BY DEF LifecycleEvents, EndedIn
<1>5. LifecycleEvents(d, ledger)' =
        {[event |-> ledger'[c].status, claim |-> c, other |-> ledger'[c].by,
          version |-> Successor(c[1])'] : c \in {e \in Own(d) : EndedIn(ledger, e)'}}
  BY <1>2 DEF LifecycleEvents, EndedIn
<1>6. {e \in Own(d) : EndedIn(ledger, e)'} = {e \in Own(d) : EndedIn(ledger, e)} OBVIOUS
<1>7. LifecycleEvents(d, ledger)' = LifecycleEvents(d, ledger) BY <1>3, <1>4, <1>5, <1>6
<1> QED BY <1>2, <1>7

\* Steps that leave claims, events and the work in hand alone.
LEMMA TimelineUntouched ==
    ASSUME WorkInv, TimelineInv, [Next]_vars,
           UNCHANGED <<ledger, events, judging, busy>>,
           dirty \subseteq dirty',
           \A v \in Inserted : version'[v].doc \in dirty',
           (\E t \in Threads : busy[t] # Idle) => version' = version
    PROVE  TimelineInv'
<1>1. TypeInv /\ VersionsInv BY DEF WorkInv, TypeInv, LedgerInv
<1>2. Single' /\ JudgedLive' BY DEF TimelineInv, Single, Ending, JudgedLive
<1>3. EndsTold'
  <2> SUFFICES ASSUME NEW d \in Docs, Clean(d)'
               PROVE  EndsAre(d, DOMAIN events, ledger)'
    BY DEF EndsTold
  <2>1. d \notin dirty' /\ Clean(d) BY DEF Clean
  <2>2. Of(d)' = Of(d)
    <3>1. \A v \in DOMAIN version' : v \notin DOMAIN version => v \in Inserted
      BY <1>1, RowsStay, Numbered DEF VersionsInv, VersionsTypeOK, Inserted
    <3>2. \A v \in Of(d)' : v \in Of(d)
      <4> SUFFICES ASSUME NEW v \in Of(d)' PROVE v \in Of(d) OBVIOUS
      <4>1. v \in DOMAIN version' /\ version'[v].doc = d BY DEF Of
      <4>2. v \in DOMAIN version BY <2>1, <3>1, <4>1
      <4> QED BY <1>1, <4>1, <4>2, RowsStay DEF Of
    <3> QED BY <1>1, <3>2, RowsStay
  <2>3. EndsAre(d, DOMAIN events, ledger) BY <2>1 DEF TimelineInv, EndsTold
  <2>4. \A c \in Claim : (Made(c)' <=> Made(c)) /\ (External(c)' <=> External(c))
    BY <1>1, ExternalStays DEF Made
  <2>5. /\ Own(d)' = Own(d)
        /\ LifecycleEvents(d, ledger)' = LifecycleEvents(d, ledger)
        /\ \A c \in Own(d) : EndedIn(ledger, c)' => (Later(c[1]) # {})'
    BY <1>1, <2>2, <2>3, <2>4, EndsStay DEF EndedIn, EndsAre, Own
  <2> QED BY <2>3, <2>5 DEF EndsAre
<1>4. PlansTell'
  <2> SUFFICES ASSUME version' = version, NEW r, PlanTells(r)
               PROVE  PlanTells(r)'
    BY DEF TimelineInv, PlansTell
  <2>1. \A c : /\ Made(c)' <=> Made(c)
               /\ Doc(c)' = Doc(c)
               /\ External(c)' <=> External(c)
    BY DEF Made, Doc, External
  <2>2. \A d : Own(d)' = Own(d) BY <2>1 DEF Own
  <2>3. \A v : Later(v)' = Later(v) /\ Successor(v)' = Successor(v)
    BY DEF Later, Successor, Of, At
  <2>4. LifecycleEvents(r.doc, r.write)' = LifecycleEvents(r.doc, r.write)
    BY <2>1, <2>2, <2>3 DEF LifecycleEvents
  <2>5. \A c : EndedIn(r.write, c)' <=> EndedIn(r.write, c) BY <2>1 DEF EndedIn
  <2> QED BY <2>2, <2>3, <2>4, <2>5 DEF PlanTells, EndsAre
<1> QED BY <1>2, <1>3, <1>4 DEF TimelineInv

LEMMA TimelineOfExtract ==
    ASSUME OneWorker, WorkInv, TimelineInv, [Next]_vars, NEW v \in DOMAIN version, Extract(v)
    PROVE  TimelineInv'
<1>1. /\ TypeInv /\ \A c \in Claim : Made(c) => c \in Known
  BY DEF WorkInv, TypeInv, LedgerInv, LedgerSound
<1>2. /\ version' = version /\ busy' = busy /\ events' = events
      /\ ledger' = [c \in Claim |-> IF c \in Said(v) THEN Entry("active", NoClaim) ELSE ledger[c]]
      /\ dirty' = dirty \cup {version[v].doc}
      /\ judging' = UNION {{c} \X Candidates(c) : c \in Said(v)}
      /\ ExtractJob(v) \in pending
  BY DEF Extract, versionVars
<1>3. \A c \in Claim : c[1] = v => ~Made(c) BY <1>2 DEF WorkInv, FreshJobs
<1>4. \A c \in Claim : c[1] # v => ledger'[c] = ledger[c] /\ (Made(c)' <=> Made(c))
  BY <1>2 DEF Said, Made
<1>5. PlansTell' BY <1>2, NobodyElse DEF Extract, SomeThreadFree, PlansTell
<1>6. Single' BY <1>2 DEF TimelineInv, Single, Ending
<1>7. JudgedLive'
  <2> SUFFICES ASSUME NEW pair \in judging', NEW c \in {pair[1], pair[2]}
               PROVE  ledger'[c].status \in {"active", "carried", "superseded"}
    BY DEF JudgedLive
  <2>1. PICK a \in Said(v) : pair \in {a} \X Candidates(a) BY <1>2
  <2>2. CASE c \in Said(v) BY <1>2, <2>2 DEF Said, Entry
  <2>3. CASE c \notin Said(v) BY <1>2, <2>1, <2>3 DEF Candidates, Live
  <2> QED BY <2>2, <2>3
<1>8. EndsTold'
  <2> SUFFICES ASSUME NEW d \in Docs, Clean(d)'
               PROVE  EndsAre(d, DOMAIN events, ledger)'
    BY DEF EndsTold
  <2>1. d # version[v].doc /\ Clean(d) /\ Of(d)' = Of(d) BY <1>2 DEF Clean, Of
  <2>2. v \notin Of(d) BY <2>1 DEF Of
  <2>3. \A c \in Claim : c[1] \in Of(d) => (Made(c)' <=> Made(c)) BY <1>4, <2>2
  <2>4. EndsAre(d, DOMAIN events, ledger) BY <2>1 DEF TimelineInv, EndsTold
  <2>5. \A c \in Own(d) : /\ EndedIn(ledger, c)' <=> EndedIn(ledger, c)
                          /\ EndedIn(ledger, c) => ledger'[c] = ledger[c] /\ Later(c[1]) # {}
    <3> SUFFICES ASSUME NEW c \in Own(d)
                 PROVE  /\ EndedIn(ledger, c)' <=> EndedIn(ledger, c)
                        /\ EndedIn(ledger, c) => ledger'[c] = ledger[c] /\ Later(c[1]) # {}
      OBVIOUS
    <3>1. c \in Claim /\ c[1] # v BY <1>3 DEF Own
    <3>2. ledger'[c] = ledger[c] /\ (External(c)' <=> External(c))
      BY <1>1, <1>4, <3>1, ExternalStays
    <3> QED BY <2>4, <3>2 DEF EndedIn, EndsAre
  <2>6. /\ Own(d)' = Own(d)
        /\ LifecycleEvents(d, ledger)' = LifecycleEvents(d, ledger)
        /\ \A c \in Own(d) : EndedIn(ledger, c)' => (Later(c[1]) # {})'
    BY <1>1, <2>1, <2>3, <2>5, EndsStay
  <2> QED BY <1>2, <2>4, <2>6 DEF EndsAre
<1> QED BY <1>5, <1>6, <1>7, <1>8 DEF TimelineInv

LEMMA TimelineOfJudge ==
    ASSUME OneWorker, WorkInv, TimelineInv, [Next]_vars, NEW a, NEW o, Judge(a, o)
    PROVE  TimelineInv'
<1>1. TypeInv BY DEF WorkInv
<1>2. /\ version' = version /\ busy' = busy /\ dirty' = dirty
      /\ <<a, o>> \in judging /\ judging' \subseteq judging
  BY DEF Judge, versionVars, workVars, historyVars
<1>3. /\ a \in Claim /\ o \in Claim /\ Made(a) /\ Made(o) /\ Doc(a) # Doc(o)
      /\ ledger \in [Claim -> EntryType]
      /\ \A c \in {a, o} : ledger[c].status \in {"active", "carried", "superseded"}
  BY <1>1, <1>2, TypesByParts DEF TimelineInv, JudgedLive, TypeInv, JudgedMade, Parts
<1>4. PICK A : /\ \A e \in A : ~Ending(e)
               /\ events' = events \/ events' = events (+) SetToBag(A)
               /\ \/ ledger' = ledger
                  \/ \E older, newer \in {a, o} :
                       /\ Doc(older) # Doc(newer) /\ ledger[older].status # "superseded"
                       /\ ledger' = [ledger EXCEPT ![older] = Entry("superseded", newer)]
  <2>1. \A older : \A e \in {Resolution(p, older) : p \in {q \in opposed \ resolved : older \in q}} :
           ~Ending(e)
    BY DEF Resolution, Ending
  <2>2. CASE ledger' = ledger /\ events' = events
    <3> WITNESS {}
    <3> QED BY <2>2
  <2>3. ASSUME NEW older \in {a, o}, NEW newer \in {a, o}, Doc(older) # Doc(newer), Supersede(older, newer)
        PROVE  \E A : /\ \A e \in A : ~Ending(e)
                      /\ events' = events \/ events' = events (+) SetToBag(A)
                      /\ \/ ledger' = ledger
                         \/ /\ ledger[older].status # "superseded"
                            /\ ledger' = [ledger EXCEPT ![older] = Entry("superseded", newer)]
    BY <2>1, <2>3 DEF Supersede
  <2>4. (ledger' = ledger /\ events' = events) \/ Supersede(o, a) \/ Supersede(a, o)
    BY DEF Judge
  <2>5. CASE Supersede(o, a) BY <1>3, <2>3, <2>5
  <2>6. CASE Supersede(a, o) BY <1>3, <2>3, <2>6
  <2> QED BY <2>2, <2>4, <2>5, <2>6
<1>5. \A e : Ending(e) => e \notin A BY <1>4
<1>6. \A e : Ending(e) => /\ e \in DOMAIN events' <=> e \in DOMAIN events
                          /\ e \in DOMAIN events => events'[e] = 1
  <2> SUFFICES ASSUME NEW e, Ending(e)
               PROVE  /\ e \in DOMAIN events' <=> e \in DOMAIN events
                      /\ e \in DOMAIN events => events'[e] = 1
    OBVIOUS
  <2>1. e \notin A /\ (e \in DOMAIN events => events[e] = 1) BY <1>5 DEF TimelineInv, Single
  <2> QED BY <1>4, <2>1, EventsAdded
<1>7. Single' BY <1>6 DEF Single, Ending
<1>8. PlansTell' BY <1>2 DEF WorkInv, ReadStill, StillSo, PlansTell
<1>9. \A c \in Claim : \/ ledger'[c] = ledger[c] /\ (External(c)' <=> External(c))
                       \/ /\ External(c)' /\ ledger'[c].status = "superseded"
                          /\ c \in {a, o} /\ ledger[c].status # "superseded"
  <2> SUFFICES ASSUME NEW c \in Claim, ledger'[c] # ledger[c]
               PROVE  /\ External(c)' /\ ledger'[c].status = "superseded"
                      /\ c \in {a, o} /\ ledger[c].status # "superseded"
    BY <1>1, ExternalStays
  <2>1. PICK newer \in {a, o} : /\ c \in {a, o} /\ Doc(c) # Doc(newer)
                                /\ ledger[c].status # "superseded"
                                /\ ledger'[c] = Entry("superseded", newer)
    BY <1>3, <1>4
  <2>2. Made(c)' /\ ledger'[c].by = newer /\ ledger'[c].status = "superseded"
    BY <1>3, <2>1 DEF Made, Unmade, Entry
  <2>3. newer # NoClaim BY <1>3 DEF NoClaim, Claim
  <2>4. External(c)' BY <1>2, <2>1, <2>2, <2>3 DEF External, Doc
  <2> QED BY <2>1, <2>2, <2>4
<1>10. JudgedLive'
  <2> SUFFICES ASSUME NEW pair \in judging, NEW c \in {pair[1], pair[2]}
               PROVE  ledger'[c].status \in {"active", "carried", "superseded"}
    BY <1>2 DEF JudgedLive
  <2>1. c \in Claim /\ ledger[c].status \in {"active", "carried", "superseded"}
    BY <1>1, TypesByParts DEF TypeInv, Parts, TimelineInv, JudgedLive
  <2> QED BY <1>9, <2>1
<1>11. EndsTold'
  <2> SUFFICES ASSUME NEW d \in Docs, Clean(d)'
               PROVE  EndsAre(d, DOMAIN events, ledger)'
    BY DEF EndsTold
  <2>1. Clean(d) /\ Of(d)' = Of(d) BY <1>2 DEF Clean, Of
  <2>2. \A c \in Claim : Made(c)' <=> Made(c) BY <1>3, <1>9 DEF External, Made
  <2>3. EndsAre(d, DOMAIN events, ledger) BY <2>1 DEF TimelineInv, EndsTold
  <2>4. \A c \in Own(d) : /\ EndedIn(ledger, c)' <=> EndedIn(ledger, c)
                          /\ EndedIn(ledger, c) => ledger'[c] = ledger[c] /\ Later(c[1]) # {}
    <3> SUFFICES ASSUME NEW c \in Own(d)
                 PROVE  /\ EndedIn(ledger, c)' <=> EndedIn(ledger, c)
                        /\ EndedIn(ledger, c) => ledger'[c] = ledger[c] /\ Later(c[1]) # {}
      OBVIOUS
    <3>1. c \in Claim BY DEF Own
    <3>2. CASE ledger'[c] = ledger[c] /\ (External(c)' <=> External(c))
      BY <2>3, <3>2 DEF EndedIn, EndsAre
    <3>3. CASE /\ External(c)' /\ ledger'[c].status = "superseded"
               /\ c \in {a, o} /\ ledger[c].status # "superseded"
      BY <1>3, <3>3 DEF EndedIn
    <3> QED BY <1>9, <3>1, <3>2, <3>3
  <2>5. /\ Own(d)' = Own(d)
        /\ LifecycleEvents(d, ledger)' = LifecycleEvents(d, ledger)
        /\ \A c \in Own(d) : EndedIn(ledger, c)' => (Later(c[1]) # {})'
    BY <1>1, <2>1, <2>2, <2>4, EndsStay
  <2> QED BY <1>6, <2>3, <2>5 DEF EndsAre
<1> QED BY <1>7, <1>8, <1>10, <1>11 DEF TimelineInv

\* Only a claim with a next version of its document gets an end.
LEMMA EndsHaveNext ==
    ASSUME NEW d, NEW c \in Own(d), EndedIn(Recomputed(d), c)
    PROVE  Later(c[1]) # {}
BY DEF EndedIn, Recomputed, Outcome, Entry, Own

LEMMA TimelineOfBegin ==
    ASSUME OneWorker, WorkInv, TimelineInv, [Next]_vars, NEW t \in Threads, NEW d \in Docs,
           BeginReconcile(t, d)
    PROVE  TimelineInv'
<1>1. TypeInv BY DEF WorkInv
<1>2. /\ version' = version /\ ledger' = ledger /\ events' = events /\ judging' = {}
      /\ dirty' = dirty \ {d}
  BY DEF BeginReconcile, versionVars
<1>3. PICK r : r = Plan(d) OBVIOUS
<1>4. PICK L : L = Recomputed(d) OBVIOUS
<1>5. \A u \in Threads : busy[u] = Idle /\ busy'[u] = r
  BY <1>1, <1>3 DEF BeginReconcile, OneWorker, TypeInv, LedgerInv, BusySound
<1>6. PICK R : /\ \A e \in R : ~Ending(e)
               /\ r.doc = d /\ r # Idle
               /\ r.write = [c \in Own(d) |-> L[c]]
               /\ r.drop = Loaded(d) \ (LifecycleEvents(d, L) \cup R)
               /\ r.add = (LifecycleEvents(d, L) \cup R) \ Loaded(d)
  <2> DEFINE closed == {p \in Touching(d) : ~StillOpen(p, L)}
             R == {Resolution(p, Inactive(p, L)) : p \in closed}
  <2>1. \A e \in R : ~Ending(e) BY DEF Resolution, Ending
  <2>2. /\ r.doc = d /\ r # Idle
        /\ r.write = [c \in Own(d) |-> L[c]]
        /\ r.drop = Loaded(d) \ (LifecycleEvents(d, L) \cup R)
        /\ r.add = (LifecycleEvents(d, L) \cup R) \ Loaded(d)
    BY <1>3, <1>4 DEF Plan, Idle, StaleEvents
  <2> HIDE DEF R
  <2> QED BY <2>1, <2>2
<1>7. LifecycleEvents(d, r.write) = LifecycleEvents(d, L) BY <1>6 DEF LifecycleEvents
<1>8. /\ \A e \in LifecycleEvents(d, L) : e.claim \in Own(d) /\ Ending(e)
      /\ \A e : e \in Loaded(d) <=> e \in DOMAIN events /\ e.claim \in Own(d)
  BY DEF LifecycleEvents, Ending, Loaded, BagToSet
<1>9. PlanTells(r) BY <1>4, <1>6, <1>7, <1>8, EndsHaveNext DEF EndedIn, PlanTells, EndsAre
<1>10. \A c : /\ Made(c)' <=> Made(c)
              /\ Doc(c)' = Doc(c)
              /\ External(c)' <=> External(c)
  BY <1>2 DEF Made, Doc, External
<1>11. \A e : Own(e)' = Own(e) BY <1>10 DEF Own
<1>12. \A v : Later(v)' = Later(v) /\ Successor(v)' = Successor(v)
  BY <1>2 DEF Later, Successor, Of, At
<1>13. PlansTell'
  <2>1. LifecycleEvents(r.doc, r.write)' = LifecycleEvents(r.doc, r.write)
    BY <1>10, <1>11, <1>12 DEF LifecycleEvents
  <2>2. \A c : EndedIn(r.write, c)' <=> EndedIn(r.write, c) BY <1>10 DEF EndedIn
  <2>3. PlanTells(r)' BY <1>2, <1>9, <1>11, <1>12, <2>1, <2>2 DEF PlanTells, EndsAre
  <2> SUFFICES ASSUME NEW u \in Threads PROVE PlanTells(busy[u])' BY DEF PlansTell
  <2>4. busy'[u] = r BY <1>5
  <2> QED BY <2>3, <2>4 DEF PlanTells, EndsAre, EndedIn, LifecycleEvents
<1>14. EndsTold'
  <2> SUFFICES ASSUME NEW e \in Docs, Clean(e)'
               PROVE  EndsAre(e, DOMAIN events, ledger)'
    BY DEF EndsTold
  <2>1. e # d BY <1>5, <1>6 DEF Clean
  <2>2. Clean(e) BY <1>2, <1>5, <2>1 DEF Clean
  <2>3. EndsAre(e, DOMAIN events, ledger) BY <2>2 DEF TimelineInv, EndsTold
  <2>4. LifecycleEvents(e, ledger)' = LifecycleEvents(e, ledger)
    BY <1>2, <1>10, <1>11, <1>12 DEF LifecycleEvents
  <2> QED BY <1>2, <1>10, <1>11, <1>12, <2>3, <2>4 DEF EndsAre, EndedIn
<1>15. Single' /\ JudgedLive' BY <1>2 DEF TimelineInv, Single, Ending, JudgedLive
<1> QED BY <1>13, <1>14, <1>15 DEF TimelineInv

LEMMA TimelineOfCommit ==
    ASSUME OneWorker, WorkInv, TimelineInv, [Next]_vars, NEW t \in Threads, CommitReconcile(t)
    PROVE  TimelineInv'
<1>1. TypeInv BY DEF WorkInv
<1>2. PICK r : r = busy[t] OBVIOUS
<1>3. /\ version' = version /\ judging' = {} /\ dirty' = dirty
      /\ events' = (events (-) SetToBag(r.drop)) (+) SetToBag(r.add)
      /\ r # Idle /\ PlanTells(r)
  BY <1>2 DEF CommitReconcile, versionVars, historyVars, TimelineInv, PlansTell
<1>4. \A u \in Threads : busy'[u] = Idle /\ u = t
  BY <1>1 DEF CommitReconcile, OneWorker, TypeInv, LedgerInv, BusySound
<1>5. \A c \in Claim : ledger'[c] = IF c \in Own(r.doc) THEN r.write[c] ELSE ledger[c]
  BY <1>2, FlushAsPlanned
<1>6. \A e : Ending(e) => /\ e \in DOMAIN events' <=> e \in (DOMAIN events \ r.drop) \cup r.add
                          /\ e \in DOMAIN events' => events'[e] = 1
  <2> SUFFICES ASSUME NEW e, Ending(e)
               PROVE  /\ e \in DOMAIN events' <=> e \in (DOMAIN events \ r.drop) \cup r.add
                      /\ e \in DOMAIN events' => events'[e] = 1
    OBVIOUS
  <2>1. /\ e \in DOMAIN events => events[e] = 1
        /\ e \in r.add => e \notin DOMAIN events
    BY <1>3 DEF TimelineInv, Single, PlanTells
  <2> QED BY <1>3, <2>1, EventsFlushed
<1>7. Single' /\ PlansTell' /\ JudgedLive'
  BY <1>3, <1>4, <1>6 DEF Single, Ending, PlansTell, JudgedLive
<1>8. /\ \A c \in Claim : Made(c)' <=> Made(c)
      /\ \A c \in Claim : External(c)' <=> External(c)
  <2>1. \A c \in Own(r.doc) : Made(c) /\ r.write[c] # Unmade /\ Decided(r.doc, c, r.write[c])
    <3>1. r.read = [c \in Own(r.doc) |-> ledger[c]] /\ \A c \in Own(r.doc) : Decided(r.doc, c, r.write[c])
      BY <1>2, <1>3 DEF WorkInv, ReadStill, StillSo
    <3>2. \A c \in DOMAIN r.read : r.write[c].status # "none"
      BY <1>1, <1>2, <1>3 DEF TypeInv, WorkTyped, PlanTyped
    <3> QED BY <3>1, <3>2 DEF Own, Unmade, Entry
  <2>2. \A c \in Claim : Made(c)' <=> Made(c) BY <1>5, <2>1 DEF Made
  <2>3. ASSUME NEW c \in Claim
        PROVE  External(c)' <=> External(c)
    <3>1. CASE ledger'[c] = ledger[c] BY <1>1, <3>1, ExternalStays
    <3>2. CASE ledger'[c] # ledger[c] BY <1>3, <1>5, <2>1, <3>2 DEF Decided, Own, Doc, External
    <3> QED BY <3>1, <3>2
  <2> QED BY <2>2, <2>3
<1>9. \A e : Own(e)' = Own(e) BY <1>3, <1>8 DEF Own, Doc
<1>10. \A v : Later(v)' = Later(v) /\ Successor(v)' = Successor(v)
  BY <1>3 DEF Later, Successor, Of, At
<1>11. ASSUME NEW d \in Docs, Clean(d)'
       PROVE  EndsAre(d, DOMAIN events, ledger)'
  <2>1. CASE d = r.doc
    <3>1. \A c \in Own(d) : c \in Claim /\ ledger'[c] = r.write[c] /\ (External(c)' <=> External(c))
      BY <1>5, <1>8, <2>1 DEF Own
    <3>2. {e \in Own(d) : ~External(e) /\ r.write[e].status \in {"superseded", "retracted"}}
            = {e \in Own(d)' : ~External(e)' /\ ledger'[e].status \in {"superseded", "retracted"}}
      BY <1>9, <3>1
    <3>3. LifecycleEvents(d, ledger)' = LifecycleEvents(d, r.write)
      BY <1>10, <3>1, <3>2 DEF LifecycleEvents
    <3>4. \A c \in Own(d) : EndedIn(ledger, c)' <=> EndedIn(r.write, c) BY <3>1 DEF EndedIn
    <3>5. EndsAre(d, (DOMAIN events \ r.drop) \cup r.add, r.write) BY <1>3, <2>1 DEF PlanTells
    <3> QED BY <1>6, <1>9, <1>10, <3>3, <3>4, <3>5 DEF EndsAre
  <2>2. CASE d # r.doc
    <3>1. Clean(d) BY <1>2, <1>3, <1>4, <1>11, <2>2 DEF Clean
    <3>2. EndsAre(d, DOMAIN events, ledger) BY <3>1 DEF TimelineInv, EndsTold
    <3>3. \A c \in Own(d) : c \in Claim /\ c \notin Own(r.doc) /\ ledger'[c] = ledger[c]
      BY <1>5, <2>2 DEF Own
    <3>4. \A e : Ending(e) /\ e.claim \in Own(d) => (e \in DOMAIN events' <=> e \in DOMAIN events)
      BY <1>3, <1>6, <3>3 DEF PlanTells
    <3>5. {e \in Own(d) : ~External(e) /\ ledger[e].status \in {"superseded", "retracted"}}
            = {e \in Own(d)' : ~External(e)' /\ ledger'[e].status \in {"superseded", "retracted"}}
      BY <1>8, <1>9, <3>3
    <3>6. LifecycleEvents(d, ledger)' = LifecycleEvents(d, ledger)
      BY <1>10, <3>3, <3>5 DEF LifecycleEvents
    <3>7. \A c \in Own(d) : EndedIn(ledger, c)' <=> EndedIn(ledger, c) BY <1>8, <3>3 DEF EndedIn
    <3> QED BY <1>9, <1>10, <3>2, <3>4, <3>6, <3>7 DEF EndsAre
  <2> QED BY <2>1, <2>2
<1> QED BY <1>7, <1>11 DEF TimelineInv, EndsTold

LEMMA TimelineOfAbandon ==
    ASSUME OneWorker, WorkInv, TimelineInv, NEW t \in Threads, AbandonReconcile(t)
    PROVE  TimelineInv'
<1>1. /\ version' = version /\ ledger' = ledger /\ events' = events /\ judging' = {}
      /\ dirty' = dirty \cup {busy[t].doc}
  BY DEF AbandonReconcile, versionVars
<1>2. \A u \in Threads : busy'[u] = Idle /\ u = t
  BY DEF AbandonReconcile, OneWorker, WorkInv, TypeInv, LedgerInv, BusySound
<1>3. Single' /\ JudgedLive' /\ PlansTell'
  BY <1>1, <1>2 DEF TimelineInv, Single, Ending, JudgedLive, PlansTell
<1>4. EndsTold'
  <2> SUFFICES ASSUME NEW d \in Docs, Clean(d)'
               PROVE  EndsAre(d, DOMAIN events, ledger)'
    BY DEF EndsTold
  <2>1. Clean(d) BY <1>1, <1>2 DEF Clean
  <2>2. EndsAre(d, DOMAIN events, ledger) BY <2>1 DEF TimelineInv, EndsTold
  <2>3. \A c : External(c)' <=> External(c) BY <1>1 DEF Made, Doc, External
  <2>4. Own(d)' = Own(d) BY <1>1 DEF Own, Made, Doc
  <2>5. \A v : Later(v)' = Later(v) /\ Successor(v)' = Successor(v)
    BY <1>1 DEF Later, Successor, Of, At
  <2>6. LifecycleEvents(d, ledger)' = LifecycleEvents(d, ledger)
    BY <1>1, <2>3, <2>4, <2>5 DEF LifecycleEvents
  <2> QED BY <1>1, <2>2, <2>3, <2>4, <2>5, <2>6 DEF EndsAre, EndedIn
<1> QED BY <1>3, <1>4 DEF TimelineInv

-----------------------------------------------------------------------------
LEMMA TimelineInvInit == Init => TimelineInv
<1> SUFFICES ASSUME Init PROVE TimelineInv OBVIOUS
<1>1. \A d : Own(d) = {} /\ DOMAIN events = {} BY DEF Init, Own, Made, EmptyBag, SetToBag
<1> QED BY <1>1 DEF Init, TimelineInv, Single, EndsTold, EndsAre, JudgedLive, PlansTell

LEMMA TimelineInvKept ==
    ASSUME OneWorker, WorkInv, TimelineInv, [Next]_vars
    PROVE  TimelineInv'
<1>1. SomeThreadFree => ~\E t \in Threads : busy[t] # Idle BY NobodyElse DEF SomeThreadFree
<1>2. CASE \E d \in Docs, x \in Texts, p \in Instants \cup {Undated} : IngestSource(d, x, p)
  BY <1>1, <1>2, TimelineUntouched DEF IngestSource
<1>3. CASE \E d \in Docs, x \in Texts, at \in Instants, counted \in BOOLEAN :
             WaybackBackfill(d, x, at, counted)
  BY <1>1, <1>3, TimelineUntouched DEF WaybackBackfill
<1>4. CASE \E v \in DOMAIN version : Extract(v) BY <1>4, TimelineOfExtract
<1>5. CASE \E pair \in judging : Judge(pair[1], pair[2]) BY <1>5, TimelineOfJudge
<1>6. CASE \E t \in Threads, d \in Docs : BeginReconcile(t, d) BY <1>6, TimelineOfBegin
<1>7. CASE \E t \in Threads : CommitReconcile(t) BY <1>7, TimelineOfCommit
<1>8. CASE \E t \in Threads : AbandonReconcile(t) BY <1>8, TimelineOfAbandon
<1>9. CASE \/ \E v \in DOMAIN version : ExtractNothing(v)
           \/ \E p \in opposed, l \in {"confirmed", "rejected"} : PatchRelation(p, l)
           \/ Clock
           \/ UNCHANGED vars
  <2>1. UNCHANGED <<ledger, events, judging, busy>> /\ dirty' = dirty /\ version' = version
    BY <1>9 DEF ExtractNothing, PatchRelation, Clock, Tick, vars, versionVars, workVars, historyVars
  <2>2. Inserted = {} BY <2>1, Numbered DEF WorkInv, TypeInv, LedgerInv, Inserted
  <2> QED BY <2>1, <2>2, TimelineUntouched
<1> QED BY <1>2, <1>3, <1>4, <1>5, <1>6, <1>7, <1>8, <1>9 DEF Next

\* With one worker thread the timeline says what the ledger says: a document no job has
\* still to reconcile has one superseded or retracted event for each of its claims that
\* came to that end, and no other.
THEOREM TimelineFollows ==
    ASSUME OneWorker
    PROVE  Spec => []TimelineMatchesLedger
<1> DEFINE Inv == WorkInv /\ TimelineInv
<1>1. Init => Inv BY WorkInvInit, TimelineInvInit
<1>2. Inv /\ [Next]_vars => Inv' BY WorkInvKept, TimelineInvKept
<1>3. Inv => TimelineMatchesLedger
  <2> SUFFICES ASSUME TimelineInv, NEW d \in Docs, Clean(d)
               PROVE  LET ends == {e \in BagToSet(events) :
                                     e.claim \in Own(d) /\ e.event # "conflict_resolved"}
                      IN ends = LifecycleEvents(d, ledger) /\ \A e \in ends : events[e] = 1
    BY DEF TimelineMatchesLedger
  <2>1. EndsAre(d, DOMAIN events, ledger) BY DEF TimelineInv, EndsTold
  <2>2. \A e \in LifecycleEvents(d, ledger) : e.claim \in Own(d) /\ Ending(e)
    BY DEF LifecycleEvents, Ending
  <2> QED BY <2>1, <2>2 DEF EndsAre, Ending, BagToSet, TimelineInv, Single
<1> HIDE DEF Inv
<1> QED BY <1>1, <1>2, <1>3, PTL DEF Spec
=============================================================================

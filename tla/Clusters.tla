------------------------------ MODULE Clusters ------------------------------
(* Claim clusters: assignment by nearest centroid (app/claims/cluster.py), the  *)
(* merges and conflict counts that judging relations brings (claims/relate.py), *)
(* and what later changes of the claims do to the numbers a cluster keeps.      *)
(* An embedding is a place on a line and similarity the closeness of places.    *)
EXTENDS Integers, FiniteSets, SequencesExt

CONSTANTS
    Members,        \* claims, numbered in the order they are extracted
    PlaceOf,        \* where the embedding of a claim lies
    VersionOf,      \* the document a claim is from
    Reach,          \* cluster_sim, as the farthest a centroid may be
    Reconciles      \* bound: runs of the reconcile job

ASSUME ClustersAssumption ==
    /\ IsFiniteSet(Members) /\ Members = 1..Cardinality(Members)
    /\ PlaceOf \in [Members -> Int] /\ VersionOf \in [Members -> Nat]
    /\ Reach \in Nat /\ Reconciles \in Nat

\* What the judge may say of a new claim and another: a contradiction found by
\* the heuristic, too weak to merge clusters, or by the model once the pairs the
\* heuristic decides are done; that the new claim supersedes the other, or the
\* other way round (order_by_asserted_at).
Verdicts == {"unrelated", "weak", "strong", "supersedes", "outdated"}

\* ledger: status, cluster and contradictions of the claims, rows of clusters.
\* A cluster's mean is the sum of its places and their number, none if NULL.
\* miscounts and missized are history: clusters of which something has changed
\* that their conflict_count, or their size, has not been taken after.
VARIABLES
    ledger,
    strong,         \* history: pairs related strongly enough to merge
    reconciled

clustersVars == <<ledger, strong, reconciled>>

ClustersInit ==
    /\ ledger = [status |-> << >>, home |-> << >>, row |-> << >>, next |-> 1, open |-> {},
                 closed |-> {}, rejected |-> {}, missized |-> {}, miscounted |-> {}]
    /\ strong = {} /\ reconciled = 0

\* A function that is given one more value, for each of some arguments.
Given(f, S, e) == [x \in DOMAIN f \cup S |-> IF x \in S THEN e ELSE f[x]]

Rated(l) == DOMAIN l.status
ActiveIn(l, k) == {c \in Rated(l) : l.home[c] = k /\ l.status[c] = "active"}
Placed(C) ==
    LET upto[n \in 0..Cardinality(Members)] ==
            IF n = 0 THEN 0 ELSE upto[n - 1] + (IF n \in C THEN PlaceOf[n] ELSE 0)
    IN upto[Cardinality(Members)]

-----------------------------------------------------------------------------
(***************************************************************************)
(* _recompute: size, documents and centroid from the active members; the   *)
(* centroid of a cluster with none is left.                                *)
(***************************************************************************)
Recomputed(l, k) ==
    LET in == ActiveIn(l, k)
    IN  [size |-> Cardinality(in), docs |-> Cardinality({VersionOf[c] : c \in in}),
         conflicts |-> l.row[k].conflicts,
         mean |-> IF in = {} THEN l.row[k].mean ELSE <<Placed(in), Cardinality(in)>>]
Recompute(l, k) == [l EXCEPT !.row[k] = Recomputed(l, k), !.missized = @ \ {k}]

\* recount_conflicts: open contradictions of an active member with anyone.
Conflicts(l, k) == {p \in l.open : p \cap ActiveIn(l, k) # {}}
Recount(l, ks) ==
    [l EXCEPT !.row = [k \in DOMAIN @ |->
        IF k \in ks THEN [@[k] EXCEPT !.conflicts = Cardinality(Conflicts(l, k))] ELSE @[k]],
              !.miscounted = @ \ ks]

\* How far a centroid is, times the number of its claims, and the nearest in reach.
Farness(l, c, k) == LET at == PlaceOf[c] * l.row[k].mean[2] - l.row[k].mean[1]
                    IN  IF at < 0 THEN -at ELSE at
InReach(l, c) == {k \in DOMAIN l.row : /\ l.row[k].mean # <<>>
                                       /\ Farness(l, c, k) <= Reach * l.row[k].mean[2]}
Nearest(l, c) ==
    CHOOSE k \in InReach(l, c) : \A j \in InReach(l, c) :
        Farness(l, c, k) * l.row[j].mean[2] <= Farness(l, c, j) * l.row[k].mean[2]

\* assign_cluster: the nearest cluster in reach, or a new one. The cluster a
\* claim leaves is recomputed in the first case only.
AssignCluster(l, c) ==
    IF InReach(l, c) # {}
    THEN LET k == Nearest(l, c)
             moved == Recompute([l EXCEPT !.home[c] = k], k)
         IN  IF l.home[c] \in DOMAIN l.row \ {k} THEN Recompute(moved, l.home[c]) ELSE moved
    ELSE [l EXCEPT !.home[c] = l.next, !.next = @ + 1,
                   !.row = Given(@, {l.next}, [size |-> 1, docs |-> 1, conflicts |-> 0,
                                               mean |-> <<PlaceOf[c], 1>>]),
                   !.missized = @ \cup ({l.home[c]} \ {0})]

\* assign_clusters: the batch in the order of extraction, and once more.
InOrder(C) ==
    [n \in 1..Cardinality(C) |-> CHOOSE c \in C : Cardinality({d \in C : d < c}) = n - 1]
AssignEach(l, order) ==
    LET after[n \in 0..Len(order)] == IF n = 0 THEN l ELSE AssignCluster(after[n - 1], order[n])
    IN  after[Len(order)]
AssignClusters(l, batch) == AssignEach(l, InOrder(batch) \o InOrder(batch))

-----------------------------------------------------------------------------

\* _open_conflict: both clusters are counted once the relation is stored.
OpenConflict(l, a, b) ==
    Recount([l EXCEPT !.open = @ \cup {{a, b}}], {l.home[a], l.home[b]})

\* apply_supersede, resolve_conflicts_for: the older claim's contradictions are
\* closed, but the count that follows is read before they are written.
HomesOf(l, pairs) == {l.home[c] : c \in UNION pairs}

Supersede(l, older) ==
    IF l.status[older] = "superseded" THEN l
    ELSE LET its == {p \in l.open : older \in p}
             told == Recount([l EXCEPT !.status[older] = "superseded"], {l.home[older]})
         IN  [told EXCEPT !.open = @ \ its, !.closed = @ \cup its,
                          !.missized = @ \cup {l.home[older]},
                          !.miscounted = @ \cup HomesOf(l, its)]

\* Variants: a merge that moves the active members only, and a conflict counted
\* in the cluster of the new claim only.
MergeActive(l, keep, drop) ==
    LET moved == [l EXCEPT !.home = [c \in DOMAIN @ |->
                      IF @[c] = drop /\ l.status[c] = "active" THEN keep ELSE @[c]],
                           !.miscounted = @ \cup {keep}]
    IN  [Recompute(moved, keep) EXCEPT !.row = [k \in DOMAIN @ \ {drop} |-> @[k]],
                                       !.missized = @ \ {drop}, !.miscounted = @ \ {drop}]

\* merge_clusters: every member of the newer cluster moves to the older one, of
\* which the conflicts are not counted.
MergeClusters(l, keep, drop) ==
    LET moved == [l EXCEPT !.home = [c \in DOMAIN @ |-> IF @[c] = drop THEN keep ELSE @[c]],
                           !.miscounted = @ \cup {keep}]
    IN  [Recompute(moved, keep) EXCEPT !.row = [k \in DOMAIN @ \ {drop} |-> @[k]],
                                       !.missized = @ \ {drop}, !.miscounted = @ \ {drop}]

MergeAcross(l, pair) ==
    LET ks == {l.home[c] : c \in pair}
    IN  IF Cardinality(ks) = 1 THEN l ELSE MergeClusters(l, Min(ks), Max(ks))

\* judge_relations: each new claim in order with those of other documents that
\* are current then (candidate_pairs), each pair once.
Pairs(l, batch) ==
    LET others(c) == InOrder({d \in Rated(l) : VersionOf[d] # VersionOf[c] /\ ~(d \in batch /\ d < c)})
        of(c) == [i \in DOMAIN others(c) |-> <<c, others(c)[i]>>]
    IN  FlattenSeq([i \in DOMAIN InOrder(batch) |-> of(InOrder(batch)[i])])

JudgePair(j, pair, verdict) ==
    IF verdict = "unrelated" \/ j.l.status[pair[2]] = "superseded" THEN j
    ELSE CASE verdict = "weak" -> [j EXCEPT !.l = OpenConflict(j.l, pair[1], pair[2])]
           [] verdict = "strong" -> [j EXCEPT !.deferred = Append(@, pair)]
           [] verdict = "supersedes" -> [j EXCEPT !.l = Supersede(j.l, pair[2])]
           [] verdict = "outdated" -> [j EXCEPT !.l = Supersede(j.l, pair[1])]

\* The pairs the heuristic decides, then the conflicts the model finds, then the
\* merges those bring.
JudgedEach(l, pairs, says) ==
    LET after[n \in 0..Len(pairs)] == IF n = 0 THEN [l |-> l, deferred |-> << >>]
                                      ELSE JudgePair(after[n - 1], pairs[n], says[n])
    IN  after[Len(pairs)]
OpenedEach(l, pairs) ==
    LET after[n \in 0..Len(pairs)] ==
            IF n = 0 THEN l ELSE OpenConflict(after[n - 1], pairs[n][1], pairs[n][2])
    IN  after[Len(pairs)]
MergedEach(l, pairs) ==
    LET after[n \in 0..Len(pairs)] ==
            IF n = 0 THEN l ELSE MergeAcross(after[n - 1], {pairs[n][1], pairs[n][2]})
    IN  after[Len(pairs)]

JudgeRelations(l, pairs, says) ==
    LET decided == JudgedEach(l, pairs, says)
    IN  [l |-> MergedEach(OpenedEach(decided.l, decided.deferred), decided.deferred),
         strong |-> {{pair[1], pair[2]} : pair \in Range(decided.deferred)}]

-----------------------------------------------------------------------------
\* extract_claims_job: extraction, clustering, judging and merging, in one
\* transaction under the user's claims lock. A batch is the next claims of one
\* document.
Batches ==
    {B \in SUBSET (Members \ Rated(ledger)) :
        /\ B # {} /\ \A c \in B : 1..c \subseteq Rated(ledger) \cup B
        /\ \A c, d \in B : VersionOf[c] = VersionOf[d]}

ExtractClaims ==
    /\ \E batch \in Batches :
       LET stored == [ledger EXCEPT !.status = Given(@, batch, "active"),
                                    !.home = Given(@, batch, 0)]
           pairs == Pairs(stored, batch)
       IN  \E says \in [DOMAIN pairs -> Verdicts] :
           LET out == JudgeRelations(AssignClusters(stored, batch), pairs, says)
           IN  ledger' = out.l /\ strong' = strong \cup out.strong
    /\ UNCHANGED reconciled

(***************************************************************************)
(* reconcile_document: the document's claims are active, carried or ended  *)
(* by its versions, unless a claim of another document ended them (read    *)
(* here off the strength of the status alone); its contradictions stand    *)
(* while both sides are current; then the clusters of its claims are       *)
(* counted.                                                                *)
(***************************************************************************)
OfDocument(d) == {c \in Rated(ledger) : VersionOf[c] = d}

ReconcileDocument(d) ==
    /\ reconciled < Reconciles /\ OfDocument(d) # {}
    /\ \E ends \in [{c \in OfDocument(d) : ledger.status[c] # "superseded"}
                        -> {"active", "carried", "retracted"}] :
       LET status == [c \in DOMAIN ledger.status |->
                        IF c \in DOMAIN ends THEN ends[c] ELSE ledger.status[c]]
           its == {p \in (ledger.open \cup ledger.closed) \ ledger.rejected :
                     p \cap OfDocument(d) # {}}
           stands == {p \in its : \A c \in p : status[c] \in {"active", "carried"}}
           turned == ((its \cap ledger.open) \ stands) \cup (stands \ ledger.open)
           told == [ledger EXCEPT
                      !.status = status,
                      !.open = (@ \ its) \cup stands, !.closed = (@ \ stands) \cup (its \ stands),
                      !.missized = @ \cup {ledger.home[c] : c \in
                                        {e \in DOMAIN ends : ends[e] # ledger.status[e]}},
                      !.miscounted = @ \cup HomesOf(ledger, turned)]
       IN  ledger' = Recount(told, {ledger.home[c] : c \in OfDocument(d)})
    /\ reconciled' = reconciled + 1
    /\ UNCHANGED strong

\* PATCH /relations: a rejected contradiction is resolved, and not counted.
RejectRelation ==
    /\ \E p \in (ledger.open \cup ledger.closed) \ ledger.rejected :
           ledger' = [ledger EXCEPT !.open = @ \ {p}, !.closed = @ \cup {p},
                                    !.rejected = @ \cup {p},
                                    !.miscounted = @ \cup HomesOf(ledger, {p} \cap ledger.open)]
    /\ UNCHANGED <<strong, reconciled>>

\* reindex_embeddings: every cluster is recomputed, and one without
\* an active claim has no centroid any more.
Reindex ==
    /\ ledger.row # << >>
    /\ ledger' = [ledger EXCEPT
                      !.row = [k \in DOMAIN @ |->
                                  IF ActiveIn(ledger, k) = {}
                                  THEN [Recomputed(ledger, k) EXCEPT !.mean = << >>]
                                  ELSE Recomputed(ledger, k)],
                      !.missized = @ \ DOMAIN ledger.row]
    /\ UNCHANGED <<strong, reconciled>>

ClustersNext ==
    \/ ExtractClaims
    \/ \E d \in {VersionOf[c] : c \in Members} : ReconcileDocument(d)
    \/ RejectRelation
    \/ Reindex

ClustersSpec == ClustersInit /\ [][ClustersNext]_clustersVars

-----------------------------------------------------------------------------
\* Two claims that the model found to disagree are in one cluster, whichever
\* clusters were merged into which before and after: otherwise no cluster shows
\* both sides (_merge_across_clusters).
SidesShareACluster == \A p \in strong : Cardinality({ledger.home[c] : c \in p}) = 1

\* A claim is in a cluster that there is, and a cluster's size and documents are
\* those of its active claims, unless one ended or left it since it was last
\* recomputed.
SizesTell ==
    /\ \A c \in Rated(ledger) : ledger.home[c] \in DOMAIN ledger.row
    /\ \A k \in DOMAIN ledger.row \ ledger.missized :
          LET in == ActiveIn(ledger, k)
          IN  /\ ledger.row[k].size = Cardinality(in)
              /\ ledger.row[k].docs = Cardinality({VersionOf[c] : c \in in})

\* conflict_count is the number of contradictions the cluster's active claims
\* are party to, unless one was settled or clusters merged since the last count.
ConflictCountsTell ==
    \A k \in DOMAIN ledger.row \ ledger.miscounted :
        ledger.row[k].conflicts = Cardinality(Conflicts(ledger, k))

ClustersTell == SidesShareACluster /\ SizesTell /\ ConflictCountsTell
=============================================================================

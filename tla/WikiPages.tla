----------------------------- MODULE WikiPages -----------------------------
(* The wiki of app/wiki: pages compiled from claims.  A plan groups clusters  *)
(* into topics and marks the pages whose inputs moved; a compile job rewrites *)
(* a page from the claims it read; a user may force a compile at any time.    *)
(*                                                                            *)
(* One action is one read or one commit: what a session read before it takes  *)
(* a row lock is kept in its snapshot, and the ORM writes only the columns it  *)
(* changed since then.  A claim is its status, its cluster and whether it     *)
(* stands on a side of a dispute; a body is the set of claims it cites outside *)
(* its history section.                                                       *)
EXTENDS Integers, FiniteSets

CONSTANTS
    Claims,         \* ids of claims, in the order they are stored
    DocumentOf,     \* the document each claim was extracted from
    Clusters, Topics, NoTopic,
    Compilers,      \* worker threads that run compile_wiki_page
    Http,           \* the request POST /wiki/pages/{slug}/compile
    MinClaims,      \* MIN_CLAIMS_PER_TOPIC
    MinDocuments,   \* MIN_DOCUMENTS_PER_TOPIC
    MaxOverview,    \* sentences of the Overview section (6)
    MaxSummary,     \* sentences of the heuristic summary (2)
    WikiEvents      \* bound: forced runs, faults, changes of relations, of claims'
                    \* standing and of the model, taken together

ASSUME WikiAssumption ==
    /\ Claims \subseteq Nat
    /\ NoTopic \notin Topics
    /\ Http \notin Compilers
    /\ Clusters # {}
    /\ WikiEvents \in Nat

VARIABLES
    claim,          \* the claims table
    alike,          \* pairs of clusters that share an entity or a centroid
    topicOf,        \* claim_clusters.topic_id
    page,           \* wiki_pages, one per topic
    revisions,      \* wiki_page_revisions: <<revision, body>> of each page
    wikiQueue,      \* queued jobs: a plan, compiles by page
    planner,        \* the plan in progress, with what it decided
    compiler,       \* compiles in progress, with what they read
    model,          \* which generator get_llm() answers with
    wikiLeft,       \* how many of the bounded events are left
    gaveUp,         \* history: pages whose compile job used up its attempts
    unplanned,      \* history: clusters changed since a plan last read them by
                    \* something that queues no plan
    ensured,        \* history: topics whose page the last plan compared or made
    raced,          \* history: pages last written by a compile that had loaded the
                    \* row before another commit wrote it or a plan found it
                    \* current, or that fell between a plan's read and its commit
    setBack         \* history: pages whose number such a compile set back, and no
                    \* body has been stored since

wikiVars == <<claim, alike, topicOf, page, revisions, wikiQueue, planner, compiler,
              model, wikiLeft, gaveUp, unplanned, ensured, raced, setBack>>
wikiHistory == <<gaveUp, unplanned, ensured, raced, setBack>>

Agents == Compilers \cup {Http}
Models == {"heuristic", "live"}
PageStatus == {"absent", "dirty", "clean", "failed"}

\* A page's fingerprint covers who compiles and the claims compiled.
NoHash == [by |-> "nobody", of |-> {}]
NoPage == [status |-> "absent", hash |-> NoHash, compiled |-> {}, body |-> {}, revision |-> 0]
Exists(t) == page[t].status # "absent"

WikiSpend == wikiLeft > 0 /\ wikiLeft' = wikiLeft - 1

ClustersOf(t, assigned) == {k \in Clusters : assigned[k] = t}
MembersOf(ks) == {c \in Claims : claim[c].status = "active" /\ claim[c].cluster \in ks}

\* page_inputs: active and superseded claims of the topic's clusters, with what
\* relations say of them.
PageInputs(t, assigned) ==
    {[id |-> c, status |-> claim[c].status, disputed |-> claim[c].disputed] :
        c \in {d \in Claims : /\ claim[d].status \in {"active", "superseded"}
                              /\ assigned[claim[d].cluster] = t}}
Ids(inputs) == {i.id : i \in inputs}

NotPlanning == [at |-> "idle", assigned |-> topicOf, marks |-> {}, read |-> {}, made |-> {}, covered |-> {}]
NotCompiling == [at |-> "idle", page |-> NoTopic, seen |-> NoPage, inputs |-> {},
                 crossed |-> FALSE]

WikiInit ==
    /\ claim = [c \in Claims |-> [status |-> "absent", cluster |-> CHOOSE k \in Clusters : TRUE,
                                  disputed |-> FALSE]]
    /\ alike = {}
    /\ topicOf = [k \in Clusters |-> NoTopic]
    /\ page = [t \in Topics |-> NoPage]
    /\ revisions = [t \in Topics |-> {}]
    /\ wikiQueue = [plan |-> FALSE, compile |-> {}]
    /\ planner = NotPlanning
    /\ compiler = [a \in Agents |-> NotCompiling]
    /\ model = "heuristic"
    /\ wikiLeft = WikiEvents
    /\ gaveUp = {} /\ unplanned = {} /\ ensured = {} /\ raced = {} /\ setBack = {}

-----------------------------------------------------------------------------
(***************************************************************************)
(* What moves a page's inputs.                                             *)
(***************************************************************************)
\* extract_claims under claims:<user>: a claim joins a cluster, which may then
\* share an entity with others, and a plan is queued.
ExtractClaim(c) ==
    /\ claim[c].status = "absent"
    /\ planner.at = "idle"
    /\ \E k \in Clusters : \E near \in SUBSET (Clusters \ {k}) :
         /\ claim' = [claim EXCEPT ![c] = [status |-> "active", cluster |-> k, disputed |-> FALSE]]
         /\ alike' = alike \cup {{k, o} : o \in near}
    /\ wikiQueue' = [wikiQueue EXCEPT !.plan = TRUE]
    /\ UNCHANGED <<topicOf, page, revisions, planner, compiler, model, wikiLeft, wikiHistory>>

\* A relation of two claims is judged disputed by a late answer, or labelled,
\* rejected or resolved by its owner: no plan is queued.
ChangeRelation(c, d) ==
    /\ WikiSpend
    /\ c # d /\ claim[c].cluster = claim[d].cluster
    /\ {claim[c].status, claim[d].status} \subseteq {"active", "superseded"}
    /\ claim' = [claim EXCEPT ![c].disputed = ~claim[c].disputed,
                              ![d].disputed = ~claim[c].disputed]
    /\ unplanned' = unplanned \cup {claim[c].cluster}
    /\ UNCHANGED <<alike, topicOf, page, revisions, wikiQueue, planner, compiler, model,
                   gaveUp, ensured, raced, setBack>>

\* reconcile_document supersedes or retracts a claim: no plan is queued.
RetireClaim(c, as) ==
    /\ WikiSpend
    /\ claim[c].status = "active"
    /\ claim' = [claim EXCEPT ![c].status = as]
    /\ unplanned' = unplanned \cup {claim[c].cluster}
    /\ UNCHANGED <<alike, topicOf, page, revisions, wikiQueue, planner, compiler, model,
                   gaveUp, ensured, raced, setBack>>

\* PUT /settings/llm: another generator answers from now on.
ChangeModel ==
    /\ WikiSpend
    /\ model' \in Models \ {model}
    /\ UNCHANGED <<claim, alike, topicOf, page, revisions, wikiQueue, planner, compiler, wikiHistory>>

\* POST /wiki/plan, or a schedule.
AskPlan ==
    /\ ~wikiQueue.plan
    /\ WikiSpend
    /\ wikiQueue' = [wikiQueue EXCEPT !.plan = TRUE]
    /\ UNCHANGED <<claim, alike, topicOf, page, revisions, planner, compiler, model, wikiHistory>>

-----------------------------------------------------------------------------
(***************************************************************************)
(* plan_topics.                                                            *)
(***************************************************************************)
Dirty(pages) == {t \in Topics : pages[t].status = "dirty"}

\* claim_clusters.size > 0: counted when a claim is assigned, never when one is retired.
Sized == {k \in Clusters : \E c \in Claims : claim[c].status # "absent" /\ claim[c].cluster = k}

\* _group_clusters: the connected components of "alike".
Joined(G, H) == \E g \in G, h \in H : {g, h} \in alike
Groups == {G \in SUBSET Sized \ {{}} :
             /\ ~Joined(G, Sized \ G)
             /\ \A H \in SUBSET G \ {{}, G} : Joined(H, G \ H)}

Substantial(G) ==
    /\ Cardinality(MembersOf(G)) >= MinClaims
    /\ Cardinality({DocumentOf[c] : c \in MembersOf(G)}) >= MinDocuments

\* A group may reuse a topic when its Jaccard overlap with some topic is at least
\* one half; it then takes the topic it shares most clusters with.
Shared(G, t) == Cardinality(G \cap ClustersOf(t, topicOf))
Overlaps(G, t) == 2 * Shared(G, t) >= Cardinality(G \cup ClustersOf(t, topicOf))
TopicFor(G, t) ==
    IF \E o \in Topics : ClustersOf(o, topicOf) # {} /\ Overlaps(G, o)
    THEN \A o \in Topics : Shared(G, t) >= Shared(G, o)
    ELSE ~Exists(t)

Picks == {f \in [{G \in Groups : Substantial(G)} -> Topics] :
            /\ \A G \in DOMAIN f : TopicFor(G, f[G])
            /\ \A G, H \in DOMAIN f : G # H /\ f[G] = f[H] => Exists(f[G])}

\* The session does not autoflush: the planner hashes a page with the assignments
\* the database holds, its own among them only when making a topic flushed them.
Assign(f, Gs) == [k \in Clusters |-> IF \E G \in Gs : k \in G
                                     THEN f[CHOOSE G \in Gs : k \in G] ELSE topicOf[k]]
Makes(f) == {f[G] : G \in DOMAIN f} \cap {t \in Topics : ~Exists(t)}
Visible(f, G) == IF Makes(f) = {} THEN {{}} ELSE SUBSET (DOMAIN f \ {G})

\* The planner always hashes as the heuristic generator does.
PlanHash(t, assigned) == [by |-> "heuristic", of |-> PageInputs(t, assigned)]

\* _ensure_page: the page exists and its hash is not the one it was compiled under.
Moved(f, t) ==
    \E G \in DOMAIN f : /\ f[G] = t
                        /\ \E Gs \in Visible(f, G) : PlanHash(t, Assign(f, Gs)) # page[t].hash

\* The job takes claims:<user>, reads and decides.  A page it read as dirty needs
\* no write, so a compile that commits it clean meanwhile wins.
PlanRead ==
    /\ planner.at = "idle"
    /\ wikiQueue.plan
    /\ wikiQueue' = [wikiQueue EXCEPT !.plan = FALSE]
    /\ \E f \in Picks :
         LET covered == {f[G] : G \in DOMAIN f}
             moved == {t \in covered : Exists(t) /\ Moved(f, t)} IN
         /\ planner' = [at |-> "decided", assigned |-> Assign(f, DOMAIN f),
                        marks |-> moved \ Dirty(page), read |-> moved \cap Dirty(page),
                        made |-> Makes(f), covered |-> covered]
         /\ compiler' = [a \in Agents |->
              IF compiler[a].at = "read" /\ compiler[a].page \in covered \ moved
              THEN [compiler[a] EXCEPT !.crossed = TRUE] ELSE compiler[a]]
    /\ unplanned' = {}
    /\ UNCHANGED <<claim, alike, topicOf, page, revisions, model, wikiLeft, gaveUp, ensured, raced, setBack>>

\* Whoever had loaded one of these pages no longer has the row that is stored.
Crossing(pages) == [a \in Agents |-> IF compiler[a].page \in pages
                                     THEN [compiler[a] EXCEPT !.crossed = TRUE] ELSE compiler[a]]

\* Variant: only the pages this plan marked are queued.
QueuedByMarks(pages) == Dirty(pages) \cap planner.marks

\* Every page that is dirty, whoever marked it.
QueuedByPlan(pages) == Dirty(pages)

PlanCommit ==
    /\ planner.at = "decided"
    /\ topicOf' = planner.assigned
    /\ page' = [t \in Topics |->
                  IF t \in planner.made THEN [NoPage EXCEPT !.status = "dirty"]
                  ELSE IF t \in planner.marks THEN [page[t] EXCEPT !.status = "dirty"] ELSE page[t]]
    /\ wikiQueue' = [wikiQueue EXCEPT !.compile = @ \cup QueuedByPlan(page')]
    /\ gaveUp' = gaveUp \ QueuedByPlan(page')
    \* A topic that gained or lost a cluster was compared by its old clusters.
    /\ ensured' = {t \in planner.covered : ClustersOf(t, topicOf) = ClustersOf(t, planner.assigned)
                                           \/ t \in planner.made}
    /\ raced' = raced \cup (planner.read \ Dirty(page'))
    /\ planner' = [at |-> "idle", assigned |-> planner.assigned, marks |-> {}, read |-> {},
                   made |-> {}, covered |-> {}]
    /\ compiler' = Crossing(planner.made \cup planner.marks)
    /\ UNCHANGED <<claim, alike, revisions, model, wikiLeft, unplanned, setBack>>

\* The worker dies or the handler raises: nothing it decided is written.
PlanFault ==
    /\ planner.at = "decided"
    /\ WikiSpend
    /\ planner' = NotPlanning
    /\ wikiQueue' = [wikiQueue EXCEPT !.plan = TRUE]
    /\ UNCHANGED <<claim, alike, topicOf, page, revisions, compiler, model, wikiHistory>>

-----------------------------------------------------------------------------
(***************************************************************************)
(* compile_wiki_page and the forced compile.                               *)
(***************************************************************************)
CompilesAt(a, where) == compiler[a].at = where
Target(a) == compiler[a].page
Seen(a) == compiler[a].seen
Reads(a) == compiler[a].inputs
WikiLocked == \E w \in Compilers : CompilesAt(w, "read")
CompileRest(a) == compiler' = [compiler EXCEPT ![a] = NotCompiling]

\* The job loads its page before it tries wiki:<user>.
LoadPage(w, t) ==
    /\ CompilesAt(w, "idle")
    /\ t \in wikiQueue.compile
    /\ wikiQueue' = [wikiQueue EXCEPT !.compile = @ \ {t}]
    /\ compiler' = [compiler EXCEPT ![w] = [NotCompiling EXCEPT !.at = "loaded", !.page = t, !.seen = page[t]]]
    /\ UNCHANGED <<claim, alike, topicOf, page, revisions, planner, model, wikiLeft, wikiHistory>>

\* Variant: a job that finds the lock taken is dropped.
DeferDropped(w) ==
    /\ CompilesAt(w, "loaded") /\ WikiLocked
    /\ CompileRest(w)
    /\ UNCHANGED <<claim, alike, topicOf, page, revisions, wikiQueue, planner, model, wikiLeft, wikiHistory>>

\* JobDeferred: back to the queue, to load the page again.
DeferCompile(w) ==
    /\ CompilesAt(w, "loaded") /\ WikiLocked
    /\ CompileRest(w)
    /\ wikiQueue' = [wikiQueue EXCEPT !.compile = @ \cup {Target(w)}]
    /\ UNCHANGED <<claim, alike, topicOf, page, revisions, planner, model, wikiLeft, wikiHistory>>

\* With the lock, page_inputs.
ReadInputs(w) ==
    /\ CompilesAt(w, "loaded") /\ ~WikiLocked
    /\ compiler' = [compiler EXCEPT ![w].at = "read", ![w].inputs = PageInputs(Target(w), topicOf)]
    /\ UNCHANGED <<claim, alike, topicOf, page, revisions, wikiQueue, planner, model, wikiLeft, wikiHistory>>

\* POST /wiki/pages/{slug}/compile takes no lock.
ForceCompile(t) ==
    /\ CompilesAt(Http, "idle") /\ Exists(t)
    /\ WikiSpend
    /\ compiler' = [compiler EXCEPT ![Http] =
                      [at |-> "read", page |-> t, seen |-> page[t], inputs |-> PageInputs(t, topicOf),
                       crossed |-> FALSE]]
    /\ UNCHANGED <<claim, alike, topicOf, page, revisions, wikiQueue, planner, model, wikiHistory>>

Digest(a) == [by |-> model, of |-> Reads(a)]
UpToDate(a) == a # Http /\ Digest(a) = Seen(a).hash /\ Seen(a).status = "clean"

SkipCompile(a) ==
    /\ CompilesAt(a, "read") /\ UpToDate(a)
    /\ CompileRest(a)
    /\ UNCHANGED <<claim, alike, topicOf, page, revisions, wikiQueue, planner, model, wikiLeft, wikiHistory>>

First(n, S) == {c \in S : Cardinality({d \in S : d < c}) < n}
ActiveIds(inputs) == Ids({i \in inputs : i.status = "active"})

\* heuristic_body: summary and overview quote active claims, the disputed section
\* whatever stands on a side.
HeuristicBody(inputs) ==
    LET active == ActiveIds(inputs) IN
    First(MaxSummary, IF active = {} THEN Ids(inputs) ELSE active)
        \cup First(MaxOverview, active)
        \cup Ids({i \in inputs : i.disputed})

\* validate_body: a sentence that cites a claim the page was not given is dropped.
ValidBody(raw, inputs) == raw \cap Ids(inputs)

\* _compose: a live model may write anything, or be replaced by the heuristic.
Composed(inputs) ==
    {ValidBody(raw, inputs) : raw \in {HeuristicBody(inputs)}
                                      \cup (IF model = "live" THEN SUBSET Claims ELSE {})}

\* The columns that differ from what the session loaded; "compiling" was flushed
\* first, so the status is always among them.
Written(a, new) ==
    [f \in DOMAIN new |-> IF f # "status" /\ new[f] = Seen(a)[f] THEN page[Target(a)][f] ELSE new[f]]

Write(a, new) == page' = [page EXCEPT ![Target(a)] = Written(a, new)]
Crossed(a) == compiler[a].crossed
Wrote(a) == compiler' = [Crossing({Target(a)}) EXCEPT ![a] = NotCompiling]
Race(a, mends) == raced' = IF Crossed(a) THEN raced \cup {Target(a)}
                           ELSE IF mends THEN raced \ {Target(a)} ELSE raced

\* No claim left: clean, one revision more, and the old body stays.
CompileEmpty(a) ==
    /\ CompilesAt(a, "read") /\ ~UpToDate(a)
    /\ Reads(a) = {}
    /\ Write(a, [Seen(a) EXCEPT !.status = "clean", !.hash = Digest(a), !.compiled = {},
                                !.revision = Seen(a).revision + 1])
    /\ Race(a, FALSE)
    /\ setBack' = IF Crossed(a) THEN setBack \cup {Target(a)} ELSE setBack
    /\ Wrote(a)
    /\ UNCHANGED <<claim, alike, topicOf, revisions, wikiQueue, planner, model, wikiLeft,
                   gaveUp, unplanned, ensured>>

\* _compose raises: the page is marked, the job succeeds.
CompileFails(a) ==
    /\ CompilesAt(a, "read") /\ ~UpToDate(a)
    /\ Reads(a) # {}
    /\ WikiSpend
    /\ Write(a, [Seen(a) EXCEPT !.status = "failed"])
    /\ Race(a, FALSE)
    /\ Wrote(a)
    /\ UNCHANGED <<claim, alike, topicOf, revisions, wikiQueue, planner, model,
                   gaveUp, unplanned, ensured, setBack>>

\* uq_wiki_revisions refuses a second row of the revision this compile would store.
RevisionTaken(a) == \E r \in revisions[Target(a)] : r[1] = Seen(a).revision + 1

StoreRevision(a, body) ==
    revisions' = IF Seen(a).body = {body} THEN revisions
                 ELSE [revisions EXCEPT ![Target(a)] = @ \cup {<<Seen(a).revision + 1, body>>}]

CompileCommit(a) ==
    /\ CompilesAt(a, "read") /\ ~UpToDate(a)
    /\ Reads(a) # {}
    /\ \E body \in Composed(Reads(a)) :
         LET changed == Seen(a).body # {body} IN
         /\ changed => ~RevisionTaken(a)
         /\ Write(a, [status |-> "clean", hash |-> Digest(a), compiled |-> Reads(a), body |-> {body},
                      revision |-> Seen(a).revision + (IF changed THEN 1 ELSE 0)])
         /\ StoreRevision(a, body)
         /\ setBack' = IF changed THEN setBack \ {Target(a)} ELSE setBack
    /\ Race(a, TRUE)
    /\ Wrote(a)
    /\ UNCHANGED <<claim, alike, topicOf, wikiQueue, planner, model, wikiLeft,
                   gaveUp, unplanned, ensured>>

\* The index refuses the row: the transaction rolls back, a request fails, a job
\* is retried.
CompileRefused(a) ==
    /\ CompilesAt(a, "read") /\ ~UpToDate(a)
    /\ Reads(a) # {}
    /\ RevisionTaken(a) /\ \E body \in Composed(Reads(a)) : Seen(a).body # {body}
    /\ CompileRest(a)
    /\ wikiQueue' = [wikiQueue EXCEPT !.compile = @ \cup ({Target(a)} \cap IF a = Http THEN {} ELSE Topics)]
    /\ UNCHANGED <<claim, alike, topicOf, page, revisions, planner, model, wikiLeft, wikiHistory>>

\* A worker dies or its job fails: it is retried, or has used up its attempts.
CompileLost(w) ==
    /\ ~CompilesAt(w, "idle")
    /\ WikiSpend
    /\ CompileRest(w)
    /\ \/ /\ wikiQueue' = [wikiQueue EXCEPT !.compile = @ \cup {Target(w)}]
          /\ UNCHANGED gaveUp
       \/ /\ gaveUp' = gaveUp \cup {Target(w)}
          /\ UNCHANGED wikiQueue
    /\ UNCHANGED <<claim, alike, topicOf, page, revisions, planner, model, unplanned, ensured, raced, setBack>>

WikiNext ==
    \/ \E c \in Claims : ExtractClaim(c)
    \/ \E c, d \in Claims : ChangeRelation(c, d)
    \/ \E c \in Claims, as \in {"superseded", "retracted"} : RetireClaim(c, as)
    \/ ChangeModel
    \/ AskPlan
    \/ PlanRead
    \/ PlanCommit
    \/ PlanFault
    \/ \E w \in Compilers, t \in Topics : LoadPage(w, t)
    \/ \E w \in Compilers : DeferCompile(w)
    \/ \E w \in Compilers : ReadInputs(w)
    \/ \E t \in Topics : ForceCompile(t)
    \/ \E a \in Agents : SkipCompile(a)
    \/ \E a \in Agents : CompileEmpty(a)
    \/ \E a \in Agents : CompileFails(a)
    \/ \E a \in Agents : CompileCommit(a)
    \/ \E a \in Agents : CompileRefused(a)
    \/ \E w \in Compilers : CompileLost(w)

\* The queue hands out every job that stays queued, and a handler that has started
\* runs to its end: leases and retries see to that, and losses are bounded.
Finishes(a) == SkipCompile(a) \/ CompileEmpty(a) \/ CompileCommit(a) \/ CompileRefused(a)

WikiFairness ==
    /\ WF_wikiVars(PlanRead)
    /\ WF_wikiVars(PlanCommit)
    /\ \A t \in Topics : WF_wikiVars(\E w \in Compilers : LoadPage(w, t))
    /\ \A w \in Compilers : WF_wikiVars(ReadInputs(w) \/ DeferCompile(w))
    /\ \A a \in Agents : WF_wikiVars(Finishes(a))

WikiSpec == WikiInit /\ [][WikiNext]_wikiVars /\ WikiFairness

-----------------------------------------------------------------------------
(***************************************************************************)
(* Properties.                                                             *)
(***************************************************************************)
WikiClaim == [status : {"absent", "active", "superseded", "retracted"}, cluster : Clusters,
              disputed : BOOLEAN]
Input == [id : Claims, status : {"active", "superseded"}, disputed : BOOLEAN]
Page == [status : PageStatus,
         hash : [by : Models \cup {"nobody"}, of : SUBSET Input],
         compiled : SUBSET Input,
         body : SUBSET (SUBSET Claims),
         revision : Nat]

\* The state is well formed; in particular no committed page is ever "compiling".
WikiTypeOK ==
    /\ claim \in [Claims -> WikiClaim]
    /\ alike \subseteq SUBSET Clusters
    /\ topicOf \in [Clusters -> Topics \cup {NoTopic}]
    /\ page \in [Topics -> Page]
    /\ revisions \in [Topics -> SUBSET (Nat \X SUBSET Claims)]
    /\ wikiQueue \in [plan : BOOLEAN, compile : SUBSET Topics]
    /\ planner \in [at : {"idle", "decided"}, assigned : [Clusters -> Topics \cup {NoTopic}],
                    marks : SUBSET Topics, read : SUBSET Topics, made : SUBSET Topics, covered : SUBSET Topics]
    /\ compiler \in [Agents -> [at : {"idle", "loaded", "read"}, page : Topics \cup {NoTopic},
                                seen : Page, inputs : SUBSET Input, crossed : BOOLEAN]]
    /\ model \in Models
    /\ wikiLeft \in Nat
    /\ gaveUp \subseteq Topics
    /\ unplanned \subseteq Clusters
    /\ ensured \subseteq Topics
    /\ raced \subseteq Topics
    /\ setBack \subseteq Topics

CompilingNow(t) == \E w \in Compilers : ~CompilesAt(w, "idle") /\ Target(w) = t

\* A page marked dirty has a compile job, queued or running, unless its job used
\* up its attempts: a plan may mark a page while an older compile of it runs, or
\* read it dirty and leave it as it is just before that compile commits it clean.
DirtyIsQueued ==
    \A t \in Topics : page[t].status = "dirty" => t \in wikiQueue.compile \/ CompilingNow(t) \/ t \in gaveUp

\* The body a reader sees is a stored revision, and no revision is stored twice,
\* though a forced compile and a job may both have loaded the page before either
\* wrote it.  Only a compile that crossed another can set the page's number back
\* behind that revision (it finds no claim, and counts from the row it loaded).
RevisionsTellTheBody ==
    \A t \in Topics :
        /\ \A body \in page[t].body : \E r \in revisions[t] :
               r[2] = body /\ (r[1] <= page[t].revision \/ t \in setBack)
        /\ \A r, q \in revisions[t] : r[1] = q[1] => r = q

\* What lint calls unknown_claim_reference: a body cites only claims the page was
\* compiled from.  It fails only where the last compile found no claim and kept
\* the body, or wrote from a row it had loaded before another commit.
CitesItsClaims ==
    \A t \in Topics : \A body \in page[t].body :
        body \subseteq Ids(page[t].compiled) \/ page[t].compiled = {} \/ t \in raced

PlanPending == wikiQueue.plan \/ planner.at # "idle"

\* A clean page whose claims moved is about to be planned or compiled, except in
\* the ways the code leaves open: the change was one that queues no plan; the last
\* plan did not compare the page (its group fell below the minimum, or gained or
\* lost a cluster in that plan); two transactions crossed on it; or its job gave up.
OnlyKnownStaleness ==
    \A t \in Topics :
        page[t].status = "clean" /\ page[t].compiled # PageInputs(t, topicOf) =>
            \/ PlanPending
            \/ t \in wikiQueue.compile \/ CompilingNow(t)
            \/ ClustersOf(t, topicOf) \cap unplanned # {}
            \/ t \notin ensured
            \/ t \in raced \cup gaveUp

\* What holds of every page in every state.
WikiTells == DirtyIsQueued /\ RevisionsTellTheBody /\ CitesItsClaims /\ OnlyKnownStaleness

\* app/wiki, for the runs: a dirty page has a job, a shown body is a stored revision, and
\* a clean page whose claims moved is about to be planned or is in a gap the code leaves.
WikiHolds == WikiTypeOK /\ WikiTells

\* Every dirty page is compiled, or its job gives up.
DirtyIsCompiled ==
    \A t \in Topics : page[t].status = "dirty" ~> page[t].status # "dirty" \/ t \in gaveUp
=============================================================================

-------------------------------- MODULE Camps --------------------------------
(* The camps of a cluster (app/claims/camps.py): the signed graph of its claims *)
(* and their relations, two-coloured component by component in breadth-first    *)
(* order, against what a split is: a colouring that every edge agrees with.     *)
EXTENDS Integers, Sequences, FiniteSets, FiniteSetsExt

CONSTANTS
    CampClaims,     \* claim ids
    Home,           \* those of the cluster the map is drawn for
    Successor,      \* superseded_by of a claim that is carried
    Judged,         \* pairs of claims that may have a relation, in row order
    Rulings         \* what a row of claim_relations may say

\* No row, or one with its kind, whether it is resolved and the user's label.
NoRow == [relation |-> "none"]

ASSUME CampsAssumption ==
    /\ CampClaims \subseteq Nat \ {0} /\ IsFiniteSet(CampClaims)
    /\ Home \subseteq CampClaims
    /\ DOMAIN Successor \subseteq CampClaims
    /\ \A c \in DOMAIN Successor : Successor[c] \in CampClaims \ {c}
    /\ Judged \in Seq(CampClaims \X CampClaims)

VARIABLES
    carried,        \* claims with status carried; the others are active
    ruling,         \* the row of each judged pair
    drawn           \* the input is complete

campsVars == <<carried, ruling, drawn>>

CampsInit ==
    /\ carried = {}
    /\ ruling = [i \in DOMAIN Judged |-> NoRow]
    /\ drawn = FALSE

\* A cluster whose claims and relations are any there may be.
DrawMap ==
    /\ ~drawn
    /\ carried' \in SUBSET DOMAIN Successor
    /\ ruling' \in [DOMAIN Judged -> Rulings]
    /\ drawn' = TRUE

CampsNext == DrawMap
CampsSpec == CampsInit /\ [][CampsNext]_campsVars

Alive == CampClaims \ carried
Row(i) == [a |-> Judged[i][1], b |-> Judged[i][2], is |-> ruling[i]]
EndsOf(r) == {r.a, r.b}

-----------------------------------------------------------------------------
(***************************************************************************)
(* cluster_camp_inputs: the cluster's claims, those they are related to,   *)
(* and the relations, each of which follows a carried claim one step along *)
(* superseded_by if that leads to an active claim (follow_carried).        *)
(***************************************************************************)
MovedTo(c, claims) == IF c \in carried /\ Successor[c] \in claims THEN Successor[c] ELSE c

Followed(touching, claims) ==
    LET moved(r) == [r EXCEPT !.a = MovedTo(@, claims), !.b = MovedTo(@, claims)]
        kept == {i \in touching : /\ moved(Row(i)).a # moved(Row(i)).b
                                  /\ EndsOf(moved(Row(i))) \subseteq claims}
    IN  [i \in kept |-> moved(Row(i))]

Touching == {i \in DOMAIN Judged : ruling[i] # NoRow /\ EndsOf(Row(i)) \cap Home # {}}

CampInputs ==
    LET endpoints == UNION {EndsOf(Row(i)) : i \in Touching}
        wanted == endpoints \cup {Successor[c] : c \in endpoints \cap carried}
        claims == (Home \cup wanted) \cap Alive
    IN  [claims |-> claims, relations |-> Followed(Touching, claims)]

(***************************************************************************)
(* _edges: what a row says once the user's label is read with it.          *)
(***************************************************************************)
Agreeing == {"supports", "duplicate", "refines"}
Opposing == {"contradicts"}

Kind(r) == IF r.is.label \in {"none", "confirmed"} THEN r.is.relation ELSE r.is.label
Sign(r) == IF Kind(r) \in Agreeing THEN 1 ELSE -1

\* Variant: a resolved contradiction still counts.
CountsResolved(r) == r.is.label # "rejected" /\ Kind(r) \in Agreeing \cup Opposing

Counts(r) == ~r.is.resolved /\ r.is.label # "rejected" /\ Kind(r) \in Agreeing \cup Opposing

\* The signed graph: rows by their ids, and those that are edges between two of the claims.
Graph(claims, relations) ==
    [claims |-> claims, rows |-> relations,
     edges |-> {i \in DOMAIN relations : Counts(relations[i]) /\ EndsOf(relations[i]) \subseteq claims}]

-----------------------------------------------------------------------------
(***************************************************************************)
(* compute_camps.                                                          *)
(***************************************************************************)
Expected(colour, sign) == colour * sign

\* One neighbour of claim n: coloured and queued, or compared with the colour it has.
See(n, to, sign, state) ==
    LET expected == Expected(state.colour[n], sign) IN
    IF to \notin DOMAIN state.colour
    THEN [state EXCEPT !.colour = [c \in DOMAIN @ \cup {to} |-> IF c = to THEN expected ELSE @[c]],
                       !.queue = Append(@, to)]
    ELSE IF state.colour[to] = expected THEN state
    ELSE [state EXCEPT !.frustrated = @ \cup {{n, to}}]

\* What row i says at claim n, if it is an edge of it.
Meet(graph, n, i, state) ==
    LET row == graph.rows[i] IN
    IF i \in graph.edges /\ n \in EndsOf(row)
    THEN See(n, IF row.a = n THEN row.b ELSE row.a, Sign(row), state) ELSE state

LastOf(ids) == Max({0} \cup ids)

\* The claim at the head of the queue, and its neighbours by row.
Visit(graph, state) ==
    LET n == Head(state.queue)
        met[i \in 0..LastOf(graph.edges)] ==
            IF i = 0 THEN [state EXCEPT !.queue = Tail(@)] ELSE Meet(graph, n, i, met[i - 1])
    IN  met[LastOf(graph.edges)]

\* Until the queue is empty: each claim is queued once.
Start(n) == [queue |-> <<n>>, colour |-> [c \in {n} |-> 1], frustrated |-> {}]
Colour(graph, n) ==
    LET turn[k \in 0..Cardinality(graph.claims)] ==
            IF k = 0 THEN Start(n)
            ELSE IF turn[k - 1].queue = <<>> THEN turn[k - 1] ELSE Visit(graph, turn[k - 1])
    IN  turn[Cardinality(graph.claims)]

\* The smallest claim of a component is in camp A. Claims without an edge are in no
\* camp (unaligned).
Component(found) ==
    LET of(v) == {c \in DOMAIN found.colour : found.colour[c] = v}
    IN  [a |-> of(1), b |-> of(-1), frustrated |-> found.frustrated]

Linked(graph, n) == \E i \in graph.edges : n \in EndsOf(graph.rows[i])

\* One claim of the outer loop: passed over if it has no edge or was visited.
From(graph, n, state) ==
    IF n \in graph.claims \ state.visited /\ Linked(graph, n)
    THEN LET found == Colour(graph, n)
         IN  [visited |-> state.visited \cup DOMAIN found.colour,
              components |-> state.components \cup {Component(found)}]
    ELSE state

CampsOf(graph) ==
    LET upto[n \in 0..LastOf(graph.claims)] ==
            IF n = 0 THEN [visited |-> {}, components |-> {}] ELSE From(graph, n, upto[n - 1])
    IN  upto[LastOf(graph.claims)].components

ComputeCamps(claims, relations) == CampsOf(Graph(claims, relations))

-----------------------------------------------------------------------------
(***************************************************************************)
(* What the camps should be.                                               *)
(***************************************************************************)
\* The claim a carried claim's relations are about now, if it was carried once.
StandsFor(c) == IF c \in carried THEN Successor[c] ELSE c
TwiceCarried == \E c \in carried : Successor[c] \in carried

\* The open rows of these kinds that are about two claims, and the pairs of active
\* claims that those of the cluster say it of.
About(i) == {StandsFor(Judged[i][1]), StandsFor(Judged[i][2])}
OpenRows(kinds) ==
    {i \in DOMAIN Judged : /\ ruling[i] # NoRow /\ ~ruling[i].resolved
                           /\ ruling[i].label # "rejected" /\ Kind(Row(i)) \in kinds
                           /\ StandsFor(Judged[i][1]) # StandsFor(Judged[i][2])}
Elsewhere(i) == EndsOf(Row(i)) \cap Home = {}
Said(kinds) == {About(i) : i \in {i \in OpenRows(kinds) : ~Elsewhere(i)}}

Separates(a, b, agree, disagree) ==
    /\ \A p \in disagree : ~(p \subseteq a \/ p \subseteq b)
    /\ \A p \in agree : ~(p \cap a # {} /\ p \cap b # {})

Within(pairs, k) == {p \in pairs : p \subseteq k.a \cup k.b}

\* A balanced component's camps separate those who disagree and nobody else; an
\* unbalanced one has no such split at all.
SplitRightly(k, agree, disagree) ==
    LET split(a, b) == Separates(a, b, Within(agree, k), Within(disagree, k))
    IN  /\ k.a # {} /\ k.a \cap k.b = {}
        /\ k.frustrated \subseteq Within(agree \cup disagree, k)
        /\ k.frustrated = {} => split(k.a, k.b)
        /\ k.frustrated # {} => \A a \in SUBSET (k.a \cup k.b) : ~split(a, (k.a \cup k.b) \ a)

\* Every open relation is in one component, but for those recorded on claims of other
\* clusters only, which a claim of this one has succeeded since, and those carried twice.
CampsSplit ==
    drawn /\ ~TwiceCarried =>
    LET components == ComputeCamps(CampInputs.claims, CampInputs.relations) IN
    /\ \A k \in components : SplitRightly(k, Said(Agreeing), Said(Opposing))
    /\ \A k, l \in components : k = l \/ (k.a \cup k.b) \cap (l.a \cup l.b) = {}
    /\ \A i \in OpenRows(Agreeing \cup Opposing) :
          Elsewhere(i) \/ \E k \in components : About(i) \subseteq k.a \cup k.b
=============================================================================

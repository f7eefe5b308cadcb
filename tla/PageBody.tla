------------------------------ MODULE PageBody ------------------------------
(***************************************************************************)
(* What a wiki page says (app/wiki): the body a compile composes, by a     *)
(* model in full, by a patch of the sections a change touched, or offline  *)
(* from the claims; the validator that every body goes through; the        *)
(* numbering of its footnotes wherever the page is shown; and lint, which  *)
(* looks again later. WikiPages has the planning, queueing and locking of  *)
(* compiles: here one page is compiled at a time, from claims that change. *)
(*                                                                         *)
(* A sentence is the claims it cites, in order, and whether its words are  *)
(* theirs: its quantities and dates are in the claims and it shares enough *)
(* of their vocabulary (sentence_is_supported, rules 2 and 3).             *)
(***************************************************************************)
EXTENDS Camps, SequencesExt

CONSTANTS PageClaims,       \* the claims of the page's topic
          PageRelations,    \* claim_relations between them, as rows of Camps
          Drafts,           \* bodies a model may write
          Patches,          \* patches a model may write
          PatchPercent,     \* MAX_PATCH_FRACTION, of a hundred
          PageEvents        \* bound: changes of claims

PageKinds == {"overview", "consensus", "disputed", "history", "details"}
PageSentences == [cites : Seq(Int), sound : BOOLEAN]
PageSections == [id : Int, kind : PageKinds, sentences : Seq(PageSentences)]
PageBodies == [summary : Seq(PageSentences), sections : Seq(PageSections)]

ASSUME PageBodyAssumption ==
    /\ PageClaims \subseteq CampClaims
    /\ DOMAIN PageRelations \subseteq Nat \ {0} /\ IsFiniteSet(DOMAIN PageRelations)
    /\ Drafts \subseteq PageBodies
    /\ Patches \subseteq [incoming : Seq(PageSections), removed : SUBSET Int]
    /\ \A p \in Patches : \A i, j \in DOMAIN p.incoming : p.incoming[i].id = p.incoming[j].id => i = j

VARIABLES claimStanding,   \* a claim is active, superseded, or away from the topic
          heir,       \* superseded_by; 0 for none
          resolvedRows,  \* relations with resolved_at, by index
          wikiPage,   \* the row of wiki_pages
          open,       \* open lint findings: kind, and the claims it names
          events      \* changes of claims made

pageVars == <<claimStanding, heir, resolvedRows, wikiPage, open, events>>

Says(cites, sound) == [cites |-> cites, sound |-> sound]
Section(id, kind, sentences) == [id |-> id, kind |-> kind, sentences |-> sentences]
EmptyBody == [summary |-> <<>>, sections |-> <<>>]

PageInit ==
    /\ claimStanding = [c \in PageClaims |-> "active"]
    /\ heir = [c \in PageClaims |-> 0]
    /\ resolvedRows = {}
    /\ wikiPage = [clean |-> FALSE, inputs |-> <<>>, by |-> "none", body |-> EmptyBody,
                   dropped |-> <<>>, live |-> FALSE]
    /\ open = {}
    /\ events = 0

-----------------------------------------------------------------------------
(* The claims of a page, and the sides they take. *)

OnPage == {c \in PageClaims : claimStanding[c] # "away"}

\* The members of S by an order R of them; claims by their ids; and what a line holds at
\* these places, in its order.
InLine(S, R) ==
    [n \in 1..Cardinality(S) |-> CHOOSE x \in S : Cardinality({y \in S : <<y, x>> \in R}) = n - 1]
ById(ids) == InLine(ids, {p \in ids \X ids : p[1] < p[2]})
Kept(line, places) == LET kept == ById(places) IN [n \in DOMAIN kept |-> line[kept[n]]]

RowsNow == [i \in DOMAIN PageRelations |->
              [PageRelations[i] EXCEPT !.is.resolved = i \in resolvedRows]]

\* page_inputs: a claim with its status and the relations that touch it.
PageInputsNow ==
    [c \in OnPage |-> [status |-> claimStanding[c],
                       rows |-> {RowsNow[i] : i \in {i \in DOMAIN RowsNow : c \in {RowsNow[i].a, RowsNow[i].b}}}]]

\* _camp_map: the camps of all the page's claims, superseded ones too, by component; each
\* has a camp A and may have a camp B, and with fewer than two camps in all nobody is on
\* a side. The page's claims are of one cluster.
SidesOf(ids) ==
    LET found == ComputeCamps(ids, RowsNow)
        line == InLine(found, {p \in found \X found : Min(p[1].a) < Min(p[2].a)})
        sides == FlattenSeq([n \in DOMAIN line |->
                     <<line[n].a>> \o (IF line[n].b = {} THEN <<>> ELSE <<line[n].b>>)])
    IN  IF Len(sides) < 2 THEN <<>> ELSE sides
CampByCamp(sides) == FlattenSeq([n \in DOMAIN sides |-> ById(sides[n])])

-----------------------------------------------------------------------------
(* Composing a body. *)

\* heuristic_body. The first two active claims are the summary, the first six the
\* overview, claims on a side the disputed section, camp by camp, and a superseded
\* claim is told with its successor under history.
HeuristicPage ==
    LET ids == ById(OnPage)
        active == ById({c \in OnPage : claimStanding[c] = "active"})
        past == ById({c \in OnPage : heir[c] # 0})
        first(n, line) == SubSeq(line, 1, IF Len(line) < n THEN Len(line) ELSE n)
        quote(line) == [i \in DOMAIN line |-> Says(<<line[i]>>, TRUE)]
        told == [i \in DOMAIN past |-> Says(<<past[i], heir[past[i]]>>, TRUE)]
        section(id, kind, said) == IF said = <<>> THEN <<>> ELSE <<Section(id, kind, said)>>
    IN [summary |-> quote(first(2, IF active = <<>> THEN ids ELSE active)),
        sections |-> section(1, "overview", quote(first(6, active)))
                     \o section(2, "disputed", quote(CampByCamp(SidesOf(OnPage))))
                     \o section(3, "history", told)]

\* validate_body: what is not supported is dropped, and a section left empty.
Supported(s, ids) == s.cites # <<>> /\ ToSet(s.cites) \subseteq ids /\ s.sound

Upheld(sentences, ids) == Kept(sentences, {i \in DOMAIN sentences : Supported(sentences[i], ids)})
Validated(body, ids) ==
    LET checked == [i \in DOMAIN body.sections |->
                      [body.sections[i] EXCEPT !.sentences = Upheld(@, ids)]]
    IN [summary |-> Upheld(body.summary, ids),
        sections |-> Kept(checked, {i \in DOMAIN checked : checked[i].sentences # <<>>})]

SentencesOf(body) ==
    body.summary \o FlattenSeq([i \in DOMAIN body.sections |-> body.sections[i].sentences])
DroppedFrom(body, ids) ==
    LET said == SentencesOf(body)
    IN  Kept(said, {i \in DOMAIN said : ~Supported(said[i], ids)})

\* merge_patch: replaced in place, removed, or new at the end; the summary is not
\* a section and stays.
MergePatch(body, patch) ==
    LET kept == Kept(body.sections, {i \in DOMAIN body.sections : body.sections[i].id \notin patch.removed})
        placed == {kept[i].id : i \in DOMAIN kept}
        of(id) == {i \in DOMAIN patch.incoming : patch.incoming[i].id = id}
        fresh == {i \in DOMAIN patch.incoming : patch.incoming[i].id \notin placed \cup patch.removed}
    IN [body EXCEPT !.sections =
          [i \in DOMAIN kept |-> IF of(kept[i].id) = {} THEN kept[i]
                                 ELSE patch.incoming[CHOOSE n \in of(kept[i].id) : TRUE]]
          \o Kept(patch.incoming, fresh)]

\* changed_inputs, within_budget.
ChangedInputs(old, new) ==
    (DOMAIN new \ DOMAIN old) \cup (DOMAIN old \ DOMAIN new)
    \cup {c \in DOMAIN old \cap DOMAIN new : old[c] # new[c]}
WithinBudget(old, new) ==
    LET total == Cardinality(ChangedInputs(old, new))
    IN 0 < total /\ 100 * total <= PatchPercent * Cardinality(DOMAIN new)

\* Variant: a patch is taken however many of its sentences the validator drops.
AnyPatch(merged, ids) == TRUE

PatchStands(merged, ids) == DroppedFrom(merged, ids) = <<>>

\* _llm_patch: a live model, a page with a body and inputs, few changes, and a
\* patch the validator has nothing against.
PatchedBodies(live, force) ==
    IF live /\ ~force /\ wikiPage.by # "none" /\ wikiPage.inputs # <<>>
       /\ WithinBudget(wikiPage.inputs, PageInputsNow)
    THEN {b \in {MergePatch(wikiPage.body, p) : p \in Patches} : PatchStands(b, OnPage)}
    ELSE {}

\* _compose: a patch if there is one, the model, or the claims themselves when
\* there is no model or its answer cannot be used.
Compositions(live, force) ==
    [patch |-> PatchedBodies(live, force),
     llm |-> IF live THEN Drafts ELSE {},
     heuristic |-> {HeuristicPage}]

StoredPage(body, by, live) ==
    [clean |-> TRUE, inputs |-> PageInputsNow, by |-> by, body |-> Validated(body, OnPage),
     dropped |-> DroppedFrom(body, OnPage), live |-> live]

Compile(live, force) ==
    /\ force \/ ~(wikiPage.clean /\ wikiPage.inputs = PageInputsNow /\ wikiPage.live = live)
    /\ OnPage # {}
    /\ \E by \in {"patch", "llm", "heuristic"} : \E body \in Compositions(live, force)[by] :
          wikiPage' = StoredPage(body, by, live)
    /\ UNCHANGED <<claimStanding, heir, resolvedRows, open, events>>

\* With no claim left the page is clean, and its body stays as it was.
CompileNothing(live) ==
    /\ OnPage = {}
    /\ wikiPage' = [wikiPage EXCEPT !.clean = TRUE, !.inputs = <<>>, !.live = live]
    /\ UNCHANGED <<claimStanding, heir, resolvedRows, open, events>>

-----------------------------------------------------------------------------
(* Footnotes. *)

Rank(kind) == CHOOSE i \in 1..5 :
    <<"overview", "consensus", "disputed", "history", "details">>[i] = kind
OrderSections(body) ==
    LET rank(i) == Rank(body.sections[i].kind)
        before(i, j) == \/ rank(i) < rank(j)
                        \/ rank(i) = rank(j) /\ body.sections[i].id < body.sections[j].id
                        \/ rank(i) = rank(j) /\ body.sections[i].id = body.sections[j].id /\ i < j
        places == DOMAIN body.sections
        line == InLine(places, {p \in places \X places : before(p[1], p[2])})
    IN  [n \in DOMAIN line |-> body.sections[line[n]]]
Ordered(body) == [body EXCEPT !.sections = OrderSections(body)]

\* A claim is numbered when it is first cited.
Mark(seen, claim) == IF Contains(seen, claim) THEN seen ELSE Append(seen, claim)
MarkAll(seen, cites) ==
    LET upto[n \in 0..Len(cites)] == IF n = 0 THEN seen ELSE Mark(upto[n - 1], cites[n])
    IN  upto[Len(cites)]
MarkOf(seen, claim) == CHOOSE n \in DOMAIN seen : seen[n] = claim

\* The list under a shared page and one's own (extract_footnotes), the numbers of
\* the shared sentences, which come in the order of the stored body
\* (_wiki_snapshot), and those of the Markdown, as it is written out.
ExtractFootnotes(body) ==
    LET said == SentencesOf(Ordered(body))
        seen[n \in 0..Len(said)] == IF n = 0 THEN <<>> ELSE MarkAll(seen[n - 1], said[n].cites)
    IN  seen[Len(said)]
SnapshotNumbers(body) ==
    LET notes == ExtractFootnotes(body) IN [c \in ToSet(notes) |-> MarkOf(notes, c)]

MarkedLine(state, cites) ==
    LET seen == MarkAll(state.seen, cites)
    IN  [seen |-> seen, marks |-> Append(state.marks, [i \in DOMAIN cites |-> MarkOf(seen, cites[i])])]
RenderMarkdown(body) ==
    LET said == SentencesOf(Ordered(body))
        written[n \in 0..Len(said)] ==
            IF n = 0 THEN [seen |-> <<>>, marks |-> <<>>] ELSE MarkedLine(written[n - 1], said[n].cites)
    IN  written[Len(said)]

-----------------------------------------------------------------------------
(* Lint, and the claims that change under it. *)

OutsideHistory(body) ==
    [body EXCEPT !.sections = Kept(@, {i \in DOMAIN @ : @[i].kind # "history"})]
CitedBy(sentences) == UNION {ToSet(sentences[i].cites) : i \in DOMAIN sentences}
CoversDispute(body, sides) ==
    \/ sides = <<>>
    \/ \E i \in DOMAIN SentencesOf(body) : \E m, n \in DOMAIN sides :
          m # n /\ \A side \in {sides[m], sides[n]} : side \cap ToSet(SentencesOf(body)[i].cites) # {}

\* _check_page. A claim that is away may have been retracted.
LintKinds ==
    LET body == wikiPage.body
        all == SentencesOf(body)
        members == DOMAIN wikiPage.inputs
    IN {k \in {"uncited_sentence", "unknown_claim_reference", "stale_claim_cited",
               "dropped_sentence", "dispute_not_covered"} :
        CASE k = "uncited_sentence" -> \E i \in DOMAIN all : all[i].cites = <<>>
          [] k = "unknown_claim_reference" -> ~(CitedBy(all) \subseteq members)
          [] k = "stale_claim_cited" ->
                wikiPage.clean /\ \E c \in CitedBy(SentencesOf(OutsideHistory(body))) \cap PageClaims :
                                     claimStanding[c] = "superseded"
          [] k = "dropped_sentence" -> wikiPage.dropped # <<>>
          [] k = "dispute_not_covered" -> ~CoversDispute(body, SidesOf(members))}

\* lint_wiki and _persist: what does not reproduce is closed.
LintWiki ==
    /\ open' = LintKinds
    /\ UNCHANGED <<claimStanding, heir, resolvedRows, wikiPage, events>>

Changed == events < PageEvents /\ events' = events + 1

SupersedeOnPage(c, d) ==
    /\ Changed
    /\ claimStanding[c] = "active" /\ claimStanding[d] = "active" /\ c # d
    /\ claimStanding' = [claimStanding EXCEPT ![c] = "superseded"]
    /\ heir' = [heir EXCEPT ![c] = d]
    /\ resolvedRows' = resolvedRows \cup
         {i \in DOMAIN PageRelations : c \in {PageRelations[i].a, PageRelations[i].b}
                                       /\ PageRelations[i].is.relation = "contradicts"}
    /\ UNCHANGED <<wikiPage, open>>

\* Its cluster went to another topic, or it was retracted.
TakeAway(c) ==
    /\ Changed
    /\ claimStanding[c] # "away"
    /\ claimStanding' = [claimStanding EXCEPT ![c] = "away"]
    /\ UNCHANGED <<heir, resolvedRows, wikiPage, open>>

PageNext ==
    \/ \E live, force \in BOOLEAN : Compile(live, force)
    \/ \E live \in BOOLEAN : CompileNothing(live)
    \/ LintWiki
    \/ \E c, d \in PageClaims : SupersedeOnPage(c, d)
    \/ \E c \in PageClaims : TakeAway(c)

PageSpec == PageInit /\ [][PageNext]_pageVars

-----------------------------------------------------------------------------
\* Every sentence a reader sees cites claims the page was compiled from, and
\* nothing they do not say, whoever wrote it (validator.py: the last gate before a
\* sentence reaches a reader). A page whose last claim went away is the exception.
PageIsDefensible ==
    wikiPage.inputs # <<>> =>
        \A i \in DOMAIN SentencesOf(wikiPage.body) :
            Supported(SentencesOf(wikiPage.body)[i], DOMAIN wikiPage.inputs)

\* A patch loses no sentence of the sections it leaves alone: if one of them no
\* longer stands, the page is compiled in full (_llm_patch).
PatchLosesNothing == wikiPage.by = "patch" => wikiPage.dropped = <<>>

\* One claim has one number, in the Markdown, in the list of footnotes and on the
\* shared page, from 1 on (extract_footnotes: "matching render_markdown").
NumbersAgree ==
    LET md == RenderMarkdown(wikiPage.body)
        shown == SentencesOf(Ordered(wikiPage.body))
        numbers == SnapshotNumbers(wikiPage.body)
    IN /\ md.seen = ExtractFootnotes(wikiPage.body)
       /\ \A i \in DOMAIN shown : \A j \in DOMAIN shown[i].cites :
             md.marks[i][j] = numbers[shown[i].cites[j]]

\* Lint never finds a sentence without a claim, and a claim that is not the page's
\* only on a page whose claims have all gone (lint.py: "structurally impossible").
LintStaysQuiet ==
    /\ "uncited_sentence" \notin open
    /\ "unknown_claim_reference" \in LintKinds => wikiPage.inputs = <<>>

\* The offline compiler states what is superseded only as history, or as the side
\* of a dispute, while an active claim is left.
OfflinePageIsCurrent ==
    LET then == wikiPage.inputs
        body == wikiPage.body
        told(kinds) == UNION {CitedBy(body.sections[i].sentences) :
                                i \in {i \in DOMAIN body.sections : body.sections[i].kind \notin kinds}}
    IN  wikiPage.by = "heuristic" /\ (\E c \in DOMAIN then : then[c].status = "active") =>
            \A c \in CitedBy(body.summary) \cup told({"history", "disputed"}) : then[c].status = "active"

PageTells ==
    PageIsDefensible /\ PatchLosesNothing /\ NumbersAgree /\ LintStaysQuiet /\ OfflinePageIsCurrent
=============================================================================

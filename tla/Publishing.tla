----------------------------- MODULE Publishing -----------------------------
(***************************************************************************)
(* What leaves the system: share links, each a token to a page or an       *)
(* answer that anyone may read while the link is live (app/sharing), and   *)
(* evidence briefs, an answer or a topic with a numbered footnote to each  *)
(* piece of evidence, sliced from the stored text (app/briefs). A share of *)
(* a page shows the page as it is when it is read; a read looks the link   *)
(* up and then the target, and the two are not one transaction.            *)
(***************************************************************************)
EXTENDS Integers, Sequences, FiniteSets, FiniteSetsExt, SequencesExt

CONSTANTS
    Owners,         \* users; each has a page at the one slug they all use
    Bodies,         \* bodies a page may have: [summary, sections], a section [order, lines]
    Answer,         \* of each owner: [sentences, citations]
    Cited,          \* claims: each [owner, version, quote]
    TextVersions,   \* versions: each [owner, document]
    TopicChanges,   \* what compute_camps and compute_belief_diff find
    Readers,
    MaxLinks, LastDate  \* bounds: links made, dates

CitingLines(S) == Seq(Seq(S))
ASSUME PublishingAssumption ==
    /\ MaxLinks \in Nat /\ LastDate \in Nat
    /\ \A c \in DOMAIN Cited : Cited[c].version \in DOMAIN TextVersions
    /\ \A b \in Bodies :
            /\ b.summary \in CitingLines(DOMAIN Cited)
            /\ b.sections \in Seq([order : Nat, lines : CitingLines(DOMAIN Cited)])
    /\ \A o \in Owners :
            /\ Answer[o].sentences \in CitingLines(Nat)
            /\ \A n \in DOMAIN Answer[o].citations :
                    Answer[o].citations[n].version \in DOMAIN TextVersions
    /\ TopicChanges.camps \in Seq(DOMAIN Cited)
    /\ {TopicChanges.new, TopicChanges.changed, TopicChanges.disputed}
            \subseteq CitingLines(DOMAIN Cited)

VARIABLES
    date,
    links,          \* share_links: [owner, kind, until, revoked]; 0: never
    body,           \* the body of each owner's page at the slug
    storedTexts,    \* versions that are stored
    reader          \* [doing, link, since, shown]

publishingVars == <<date, links, body, storedTexts, reader>>

NothingShown == [owner |-> "nobody", notes |-> <<>>, marks |-> <<>>]
IdleReader == [doing |-> "idle", link |-> 0, since |-> 0, shown |-> NothingShown]

PublishingInit ==
    /\ date = 1 /\ links = <<>>
    /\ body \in [Owners -> Bodies]
    /\ storedTexts \in SUBSET (DOMAIN TextVersions)
    /\ reader = [r \in Readers |-> IdleReader]

-----------------------------------------------------------------------------
(***************************************************************************)
(* Footnotes.                                                              *)
(***************************************************************************)
\* _Notes.mark, extract_footnotes: one more for what has none yet.
Noted(notes, x) == IF Contains(notes, x) THEN notes ELSE Append(notes, x)
InOrderOfUse(cited) ==
    LET noted[n \in 0..Len(cited)] ==
            IF n = 0 THEN <<>> ELSE Noted(noted[n - 1], cited[n])
    IN  noted[Len(cited)]
NumberOf(notes, x) == CHOOSE n \in DOMAIN notes : notes[n] = x

\* extract_footnotes goes by order_sections, the snapshot by the stored order.
ShownBefore(b, i, j) ==
    \/ b.sections[i].order < b.sections[j].order
    \/ b.sections[i].order = b.sections[j].order /\ i < j
ShownAt(b, n) == CHOOSE i \in DOMAIN b.sections :
    Cardinality({j \in DOMAIN b.sections : ShownBefore(b, j, i)}) = n - 1
Footnotes(b) ==
    InOrderOfUse(FlattenSeq(b.summary
                            \o FlattenSeq([n \in DOMAIN b.sections |->
                                               b.sections[ShownAt(b, n)].lines])))
OfStoredText(c) == Cited[c].version \in storedTexts

\* _wiki_snapshot, of the page at the slug of the link's owner. A claim that is gone
\* leaves a footnote with nothing in it.
Quoted(c) == IF OfStoredText(c) THEN Cited[c].quote ELSE "gone"

WikiSnapshot(o) ==
    LET b == body[o]
        noted == Footnotes(b)
        marked(line) == [i \in DOMAIN line |-> NumberOf(noted, line[i])]
        lines == b.summary \o FlattenSeq([i \in DOMAIN b.sections |-> b.sections[i].lines])
    IN  [owner |-> o, notes |-> [n \in DOMAIN noted |-> Quoted(noted[n])],
         marks |-> [i \in DOMAIN lines |-> marked(lines[i])]]

\* _answer_snapshot: the answer as it was stored.
AnswerSnapshot(o) ==
    [owner |-> o, notes |-> [n \in DOMAIN Answer[o].citations |-> Answer[o].citations[n].quote],
     marks |-> Answer[o].sentences]

-----------------------------------------------------------------------------
\* Variant: a link may be read on the day it ends.
LiveThatDay(link) == link.revoked = 0 /\ (link.until = 0 \/ link.until >= date)
Live(link) == link.revoked = 0 /\ (link.until = 0 \/ link.until > date)

CreateShare(o, kind, days) ==
    /\ Len(links) < MaxLinks
    /\ links' = Append(links, [owner |-> o, kind |-> kind, revoked |-> 0,
                               until |-> IF days = 0 THEN 0 ELSE date + days])
    /\ UNCHANGED <<date, body, storedTexts, reader>>

Revoked(link) == IF link.revoked = 0 THEN [link EXCEPT !.revoked = date] ELSE link

\* revoke_share, of a link of one's own.
RevokeShare(o, i) ==
    /\ links[i].owner = o
    /\ links' = [links EXCEPT ![i] = Revoked(@)]
    /\ UNCHANGED <<date, body, storedTexts, reader>>

\* find_live_share, and then public_snapshot.
FindLiveShare(r, i) ==
    /\ reader[r].doing = "idle"
    /\ Live(links[i])
    /\ reader' = [reader EXCEPT ![r] =
                    [IdleReader EXCEPT !.doing = "found", !.link = i, !.since = date]]
    /\ UNCHANGED <<date, links, body, storedTexts>>

PublicSnapshot(r) ==
    /\ reader[r].doing = "found"
    /\ LET link == links[reader[r].link]
       IN  reader' = [reader EXCEPT
                ![r].doing = "served",
                ![r].shown = IF link.kind = "wiki_page" THEN WikiSnapshot(link.owner)
                                                        ELSE AnswerSnapshot(link.owner)]
    /\ UNCHANGED <<date, links, body, storedTexts>>

NextReader(r) ==
    /\ reader[r].doing = "served"
    /\ reader' = [reader EXCEPT ![r] = IdleReader]
    /\ UNCHANGED <<date, links, body, storedTexts>>

\* Elsewhere: a page is compiled, a document and its versions are deleted, time passes.
CompilePage(o, b) ==
    /\ b # body[o]
    /\ body' = [body EXCEPT ![o] = b]
    /\ UNCHANGED <<date, links, storedTexts, reader>>

DeleteText(v) ==
    /\ v \in storedTexts
    /\ storedTexts' = {w \in storedTexts : TextVersions[w].document # TextVersions[v].document}
    /\ UNCHANGED <<date, links, body, reader>>

NextDate ==
    /\ date < LastDate
    /\ date' = date + 1
    /\ UNCHANGED <<links, body, storedTexts, reader>>

PublishingNext ==
    \/ NextDate
    \/ \E o \in Owners, kind \in {"wiki_page", "answer"}, days \in {0, 1} :
            CreateShare(o, kind, days)
    \/ \E o \in Owners, i \in DOMAIN links : RevokeShare(o, i)
    \/ \E r \in Readers, i \in DOMAIN links : FindLiveShare(r, i)
    \/ \E r \in Readers : PublicSnapshot(r) \/ NextReader(r)
    \/ \E o \in Owners, b \in Bodies : CompilePage(o, b)
    \/ \E v \in DOMAIN TextVersions : DeleteText(v)

PublishingSpec == PublishingInit /\ [][PublishingNext]_publishingVars

-----------------------------------------------------------------------------
(***************************************************************************)
(* Briefs: lines of sources, of which render_brief numbers the distinct.   *)
(***************************************************************************)
Unavailable == "(source text unavailable)"

\* _source: only the owner's text is sliced.
SourceIn(o, v, quote) ==
    [document |-> TextVersions[v].document,
     quote |-> IF v \in storedTexts /\ TextVersions[v].owner = o THEN quote ELSE Unavailable]

\* The members of S in a line, in its order.
Among(line, S) ==
    LET places == {i \in DOMAIN line : line[i] \in S}
    IN  [n \in 1..Cardinality(places) |->
            line[CHOOSE i \in places : Cardinality({j \in places : j < i}) = n - 1]]

CitationSources(o, line) ==
    LET cited == Among(line, DOMAIN Answer[o].citations)
    IN  [i \in DOMAIN cited |-> SourceIn(o, Answer[o].citations[cited[i]].version,
                                            Answer[o].citations[cited[i]].quote)]

\* _claim_source: none of a claim that is gone, or of another's.
OwnClaims(o) == {c \in DOMAIN Cited : OfStoredText(c) /\ Cited[c].owner = o}
ClaimSources(o, line) ==
    LET told == Among(line, OwnClaims(o))
    IN  [i \in DOMAIN told |-> SourceIn(o, Cited[told[i]].version, Cited[told[i]].quote)]

AnswerBrief(o) == [i \in DOMAIN Answer[o].sentences |-> CitationSources(o, Answer[o].sentences[i])]

\* Overview sentences, then the camps, of which a line needs its claim, then what is
\* new, what is superseded and what is disputed.
TopicBrief(o) ==
    LET b == body[o]
        overview == b.summary \o FlattenSeq([i \in DOMAIN b.sections |->
                        IF b.sections[i].order = 1 THEN b.sections[i].lines ELSE <<>>])
        camps == Among(TopicChanges.camps, OwnClaims(o))
        told == overview \o [i \in DOMAIN camps |-> <<camps[i]>>]
                \o TopicChanges.new \o TopicChanges.changed \o TopicChanges.disputed
    IN  [i \in DOMAIN told |-> ClaimSources(o, told[i])]

BriefNotes(brief) == InOrderOfUse(FlattenSeq(brief))

\* _line_markdown and _Notes: the marks of each line, and the definitions.
RenderBrief(brief) ==
    LET notes == BriefNotes(brief)
    IN  [marks |-> [i \in DOMAIN brief |->
                        [j \in DOMAIN brief[i] |-> NumberOf(notes, brief[i][j])]],
         definitions |-> notes]

-----------------------------------------------------------------------------
\* What a link shows is its owner's, of a link that was live when the read began: one
\* revoked or expired before that shows nothing, however old the token.
ServedWhileLive ==
    \A r \in Readers : reader[r].doing # "idle" =>
        LET link == links[reader[r].link] IN
        /\ link.revoked # 0 => link.revoked >= reader[r].since
        /\ link.until # 0 => link.until > reader[r].since
        /\ reader[r].doing = "served" => reader[r].shown.owner = link.owner

\* Every mark of a page that is shown has its footnote, whatever was deleted or compiled
\* between the page and its reader; the numbers of an answer are its model's own, and one
\* may be of no evidence.
MarksHaveNotes ==
    \A r \in Readers : LET shown == reader[r].shown IN
        reader[r].doing = "served" /\ links[reader[r].link].kind = "wiki_page" =>
        \A i \in DOMAIN shown.marks : \A j \in DOMAIN shown.marks[i] :
            shown.marks[i][j] \in DOMAIN shown.notes

\* In a brief the marks are defined, count up in the order of first use, and are the
\* same for the same evidence only; its quotes are slices of the owner's own text.
BriefsHold ==
    \A o \in Owners : \A brief \in {AnswerBrief(o), TopicBrief(o)} :
        LET md == RenderBrief(brief)
            used == FlattenSeq(md.marks)
            given == FlattenSeq(brief)
        IN  /\ {used[i] : i \in DOMAIN used} = DOMAIN md.definitions
            /\ \A i \in DOMAIN used, j \in DOMAIN used : used[i] = used[j] <=> given[i] = given[j]
            /\ \A i \in DOMAIN used : \A n \in 1..(used[i] - 1) : \E j \in 1..i : used[j] = n
            /\ \A n \in DOMAIN md.definitions : md.definitions[n].quote # Unavailable =>
                    \E v \in storedTexts :
                        TextVersions[v].owner = o /\ TextVersions[v].document = md.definitions[n].document

\* sharing, briefs: who has a link reads what its owner shares while they share it, and
\* every footnote leads to the evidence it was made for.
PublishingTells == ServedWhileLive /\ MarksHaveNotes /\ BriefsHold
=============================================================================

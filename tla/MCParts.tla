------------------------------ MODULE MCParts ------------------------------
(***************************************************************************)
(* The parts of the system that share no state with the queue, the claim   *)
(* ledger or the model calls, one behaviour each: `part` says which of     *)
(* them moves, and the others stay as they began. No step of one part      *)
(* touches another, so the run explores each as if it were alone.          *)
(***************************************************************************)
EXTENDS Background, Intake, Knowledge, WikiPages, Publishing, Timeline

CONSTANT Parts  \* the parts a run lets move

VARIABLE part

\* Where a part may begin in several ways, it does so in its own behaviours.
PartsInit ==
    /\ part \in Parts
    /\ SchedulingInit /\ WatchingInit /\ SourcesInit /\ WikiInit /\ CampsInit
    /\ PageInit /\ ClustersInit /\ JudgingInit /\ ExtractionInit /\ ChunkingInit
    /\ RetrievalInit /\ AnsweringInit /\ CapturesInit /\ SeedingInit /\ JobRowsInit
    /\ AccountsInit /\ LibraryInit /\ TimelineInit /\ ThinkingInit /\ CassetteInit
    /\ VerifyingInit
    /\ part # "verifying" => cites = {}
    /\ FetchingInit
    /\ part # "fetching" => \A h \in Hosts : "b" \notin robots[h]
    /\ PublishingInit
    /\ part # "publishing" => body = [o \in Owners |-> CHOOSE b \in Bodies : TRUE]
    /\ part # "publishing" => storedTexts = {}
    /\ ConnectionsInit
    /\ part # "connections" => rotates = FALSE
    /\ SettingsInit
    /\ part # "settings" => envPreset = "none"
    /\ NegotiationInit
    /\ part # "negotiation" => refuses = {}

PartsNext ==
    /\ UNCHANGED part
    /\ IF part = "scheduling" THEN SchedulingNext ELSE UNCHANGED schedulingVars
    /\ IF part = "watching" THEN WatchingNext ELSE UNCHANGED watchingVars
    /\ IF part = "sources" THEN SourcesNext ELSE UNCHANGED sourcesVars
    /\ IF part = "wiki" THEN WikiNext ELSE UNCHANGED wikiVars
    /\ IF part = "camps" THEN CampsNext ELSE UNCHANGED campsVars
    /\ IF part = "page" THEN PageNext ELSE UNCHANGED pageVars
    /\ IF part = "clusters" THEN ClustersNext ELSE UNCHANGED clustersVars
    /\ IF part = "judging" THEN JudgingNext ELSE UNCHANGED judgingVars
    /\ IF part = "extraction" THEN ExtractionNext ELSE UNCHANGED extractionVars
    /\ IF part = "chunking" THEN ChunkingNext ELSE UNCHANGED chunkingVars
    /\ IF part = "retrieval" THEN RetrievalNext ELSE UNCHANGED retrievalVars
    /\ IF part = "verifying" THEN VerifyingNext ELSE UNCHANGED verifyingVars
    /\ IF part = "answering" THEN AnsweringNext ELSE UNCHANGED answeringVars
    /\ IF part = "fetching" THEN FetchingNext ELSE UNCHANGED fetchingVars
    /\ IF part = "captures" THEN CapturesNext ELSE UNCHANGED capturesVars
    /\ IF part = "seeding" THEN SeedingNext ELSE UNCHANGED seedingVars
    /\ IF part = "rows" THEN JobRowsNext ELSE UNCHANGED rowsVars
    /\ IF part = "accounts" THEN AccountsNext ELSE UNCHANGED accountsVars
    /\ IF part = "library" THEN LibraryNext ELSE UNCHANGED libraryVars
    /\ IF part = "publishing" THEN PublishingNext ELSE UNCHANGED publishingVars
    /\ IF part = "timeline" THEN TimelineNext ELSE UNCHANGED timelineVars
    /\ IF part = "connections" THEN ConnectionsNext ELSE UNCHANGED connectionsVars
    /\ IF part = "settings" THEN SettingsNext ELSE UNCHANGED settingsVars
    /\ IF part = "thinking" THEN ThinkingNext ELSE UNCHANGED thinkingVars
    /\ IF part = "negotiation" THEN NegotiationNext ELSE UNCHANGED negotiationVars
    /\ IF part = "cassette" THEN CassetteNext ELSE UNCHANGED cassetteVars

partsVars == <<part, schedulingVars, watchingVars, sourcesVars, wikiVars, campsVars,
               pageVars, clustersVars, judgingVars, extractionVars, chunkingVars,
               retrievalVars, verifyingVars, answeringVars, fetchingVars, capturesVars,
               seedingVars, rowsVars, accountsVars, libraryVars, publishingVars,
               timelineVars, connectionsVars, settingsVars, thinkingVars,
               negotiationVars, cassetteVars>>

\* What a part's code justifies is asked of that part only.
PartsSpec ==
    /\ PartsInit /\ [][PartsNext]_partsVars
    /\ WF_schedulingVars(part = "scheduling" /\ \E p \in Schedulers : TickStart(p))
    /\ WF_schedulingVars(part = "scheduling" /\ (TickCommit \/ TickRollback))
    /\ WikiFairness
    /\ \A j \in RunningJobs : /\ SF_rowsVars(part = "rows" /\ HandlerStep(j))
                             /\ SF_rowsVars(part = "rows" /\ CancelReturns(j))
    /\ WF_rowsVars(part = "rows" /\ BeatSteps) /\ WF_rowsVars(part = "rows" /\ Reaps)

-----------------------------------------------------------------------------
(***************************************************************************)
(* Values of the constants.                                                *)
(***************************************************************************)
MCNone == -1

\* Watching: two claims in clusters of their own; the second is a note that
\* echoes the first.
MCClusters == [c \in WatchedClaims |-> c]
MCEchoes == {<<2, 1>>}

\* WikiPages: each claim from a document of its own.
MCDocuments == [c \in Claims |-> c]

\* Camps: the first two claims may have been carried, the second by the third; the first
\* and the fifth are of other clusters.
MCRow(k, r, l) == [relation |-> k, resolved |-> r, label |-> l]
MCRulings == {NoRow, MCRow("supports", FALSE, "none"), MCRow("contradicts", FALSE, "none"),
              MCRow("contradicts", TRUE, "confirmed")}
MCSuccessor == [c \in {1, 2} |-> c + 1]
MCJudged == <<<<1, 5>>, <<2, 4>>, <<2, 5>>, <<3, 4>>, <<3, 5>>, <<4, 5>>>>

\* Clusters: a claim out of reach of two that are near, of a second document.
MCPlaces == <<0, 6, 5>>
MCVersions == <<1, 2, 2>>

\* Retrieval: two versions, the first of two chunks.
MCChunks == <<<<1, 2>>, <<3>>>>
MCLexical == <<1, 2, 3>>
MCVector == <<3, 2, 1>>
MCCross == <<0, -1, 1>>

\* Chunking: sentences of one word and of more, below and above the limit, dense at their
\* beginning or not, with spaces a split may cut at or not; texts of some of them, one or two
\* blanks apart.
MCSaid(words, dense, breaks) == [words |-> words, dense |-> dense, breaks |-> breaks]
MCShort == {MCSaid(<<1>>, 0, TRUE), MCSaid(<<4>>, 0, TRUE), MCSaid(<<3, 2>>, 3, TRUE)}
MCLong == {MCSaid(<<5, 8>>, 0, TRUE), MCSaid(<<5, 8>>, 0, FALSE), MCSaid(<<20>>, 20, TRUE),
           MCSaid(<<12, 30>>, 12, TRUE), MCSaid(<<5, 0, 0, 0, 0, 0, 0, 0, 0, 0, 0, 0, 0, 8>>, 0, TRUE)}
MCTextOf(said) ==
    LET total(line) == FoldLeft(+, 0, line)
        long(s) == total(s.words) + Len(s.words) - 1
        start(i) == 1 + total([j \in 1..(i - 1) |-> long(said[j]) + 1 + (j % 2)])
        span(i) == <<start(i), start(i) + long(said[i])>>
        gaps(i) == {start(i) + total(SubSeq(said[i].words, 1, j)) + j - 1 : j \in 1..(Len(said[i].words) - 1)}
        length == start(Len(said) + 1)
        spans == [i \in DOMAIN said |-> span(i)]
        breaks == UNION {gaps(i) : i \in DOMAIN said}
    IN  [length |-> length,
         spaces |-> breaks \cup ((0..(length - 1)) \ UNION {Inside(spans[i]) : i \in DOMAIN said}),
         breaks |-> UNION {gaps(i) : i \in {i \in DOMAIN said : said[i].breaks}},
         dense |-> UNION {start(i)..(start(i) + said[i].dense - 1) : i \in DOMAIN said},
         sentences |-> spans]
MCTexts == {MCTextOf(said) : said \in UNION {[1..n -> MCShort \cup MCLong] : n \in 1..3}
                                      \cup UNION {[1..n -> MCShort] : n \in 4..5}}

\* PageBody: a conflict and a support between claims of the page.
MCPageRelations == << [a |-> 1, b |-> 2, is |-> MCRow("contradicts", FALSE, "none")],
                      [a |-> 1, b |-> 3, is |-> MCRow("supports", FALSE, "none")] >>
MCDrafts == {[summary |-> <<Says(<<1, 2>>, TRUE)>>,
              sections |-> <<Section(4, "details", <<Says(<<3>>, TRUE), Says(<<>>, TRUE)>>),
                             Section(1, "overview", <<Says(<<2>>, TRUE), Says(<<1>>, FALSE)>>)>>]}
MCPatches == {[incoming |-> <<Section(1, "overview", <<Says(<<3, 2>>, TRUE)>>)>>, removed |-> {}],
              [incoming |-> <<Section(5, "consensus", <<Says(<<9>>, TRUE)>>)>>, removed |-> {4}],
              [incoming |-> <<Section(5, "consensus", <<Says(<<2>>, TRUE)>>)>>, removed |-> {1}]}

\* Judging: a statement's quantities and dates, with the stretch of text each is read
\* from: plain, one value, two, a range, spelled out, of a year, of a quarter, negated.
MCQ(u, d, h, lo, hi) == [unit |-> u, dimension |-> d, head |-> h, low |-> lo, high |-> hi]
MCPct(n) == MCQ("%", "percentage", "", n, n)
MCCount(h, n) == MCQ("", "count", h, n, n)
MCAt(f, u, r, q) == [from |-> f, upto |-> u, reach |-> r, reads |-> <<q>>]
MCDay(f, u, y, m, d) == [from |-> f, upto |-> u, reach |-> u,
     reads |-> <<[year |-> y, month |-> m, day |-> d, quarter |-> FALSE]>>]
MCPlain == [percentages |-> <<>>, ranges |-> <<>>, spelledOut |-> <<>>, numbers |-> <<>>,
    quarters |-> <<>>, monthsOfYears |-> <<>>, fullDates |-> <<>>, months |-> <<>>,
    years |-> <<>>, event |-> FALSE, negated |-> FALSE, words |-> <<"w", "x">>,
    cue |-> FALSE, tags |-> {}, subject |-> "", predicate |-> "", slot |-> {}]
MCDated == [MCPlain EXCEPT !.event = TRUE]
MCQuarter == [MCDay(5, 7, 2, 7, 0) EXCEPT !.reads[1].quarter = TRUE]
MCStatements == {MCPlain,
   [MCPlain EXCEPT !.percentages = <<MCAt(3, 4, 4, MCPct(10))>>],
   [MCPlain EXCEPT !.numbers = <<MCAt(3, 4, 4, MCPct(10)), MCAt(6, 7, 7, MCPct(20))>>,
                   !.cue = TRUE],
   [MCPlain EXCEPT !.ranges = <<MCAt(3, 6, 6, MCQ("%", "percentage", "", 12, 20))>>,
                   !.numbers = <<MCAt(2, 3, 5, MCCount("room", 12))>>, !.words = <<"w", "w", "y">>],
   [MCPlain EXCEPT !.spelledOut = <<MCAt(3, 4, 5, MCCount("room", 0)),
                                    MCAt(5, 6, 6, MCQ("", "dimensionless", "", 40, 40))>>],
   [MCPlain EXCEPT !.numbers = <<MCAt(3, 4, 5, MCCount("bath", 40))>>, !.subject = "hotel"],
   [MCDated EXCEPT !.cue = TRUE, !.monthsOfYears = <<MCDay(3, 5, 2, 7, 0)>>,
                   !.years = <<MCDay(3, 4, 2, 0, 0)>>],
   [MCDated EXCEPT !.months = <<MCDay(3, 5, 0, 7, 0)>>],
   [MCDated EXCEPT !.fullDates = <<MCDay(3, 5, 2, 7, 4), MCDay(7, 8, 2, 9, 0),
                                  MCDay(9, 10, 2, 9, 0)>>],
   [MCDated EXCEPT !.numbers = <<MCAt(3, 4, 4, MCPct(10))>>, !.quarters = <<MCQuarter>>,
                   !.years = <<MCDay(3, 4, 1, 0, 0)>>],
   [MCPlain EXCEPT !.negated = TRUE],
   [MCPlain EXCEPT !.negated = TRUE, !.words = <<"z">>, !.slot = {"p", "q"}],
   [MCPlain EXCEPT !.slot = {"q", "r"}, !.tags = {"year"}]}
MCYearOf == <<1, 2>>

\* Extraction: a sentence twice, one that asks, in two chunks that overlap.
MCReads(asks, len, n, d, v, e) ==
    [question |-> asks, boilerplate |-> FALSE, length |-> len,
     quantity |-> n, date |-> d, verb |-> v, event |-> e]
MCTraits ==
    [a |-> MCReads(FALSE, "short", TRUE, FALSE, FALSE, FALSE),
     b |-> MCReads(FALSE, "usual", FALSE, FALSE, TRUE, FALSE),
     c |-> MCReads(FALSE, "usual", FALSE, TRUE, FALSE, TRUE),
     ask |-> MCReads(TRUE, "usual", TRUE, FALSE, TRUE, FALSE)]
MCWording == <<"a", "ask", "b", "a", "c">>
MCSpans == <<<<1, 4>>, <<4, 5>>>>
MCAltered == [bb |-> "b"]
MCDraft(s, q) == [statement |-> s, quote |-> q]
MCModelDrafts == {<<MCDraft("m", "bb"), MCDraft("a", "a")>>,
                  <<MCDraft("a", "a"), MCDraft("m", "bb")>>, <<MCDraft("m", "invented")>>}

\* Verifying: evidence that supports, contradicts, both, neither.
MCFound(f, n, d, t, g) == [f1 |-> f, numbers |-> n, differ |-> d, dates |-> t, negation |-> g]
MCEvidence == LET supports == MCFound("high", "unknown", FALSE, FALSE, FALSE)
                  contradicts == MCFound("mid", "conflict", TRUE, FALSE, FALSE)
                  both == MCFound("mid", "agree", FALSE, TRUE, FALSE)
                  neither == MCFound("low", "agree", FALSE, FALSE, TRUE) IN
    {<<>>, <<supports>>, <<contradicts>>, <<both>>, <<neither, supports>>,
     <<contradicts, supports>>}
MCAnswerIds == {{}, {1}, {3}}

\* Answering: what a model's deltas may bring, and quotes with and without an end.
MCPieces == {<<"word">>, <<"Word">>, <<".">>, <<" ">>, <<"newline">>, <<"[1]">>, <<".", " ">>}
MCQuotes == {<<"Word", ".">>, <<"word", ".">>, <<"Word", "newline", "word">>,
             <<"word", "full-width ;">>,
             <<"word", ".", ".">>, <<"Word", ".", " ", ".">>}

\* Fetching: a dated entry and one that is not, one without a link; one too many.
MCEntry(l, s, d) == [link |-> l, summary |-> s, dated |-> d]
MCEntries == <<MCEntry("b", TRUE, FALSE), MCEntry("c", FALSE, TRUE), MCEntry("none", TRUE, TRUE),
               MCEntry("b", TRUE, TRUE)>>
MCAddresses == {"a", "b", "c", "i"}
MCHostOf == [u \in MCAddresses |-> IF u = "a" THEN "h1" ELSE "h2"]
MCRobots == {{"none"}, {"b"}}
MCPageShapes == {[article |-> "prose", paragraphs |-> TRUE, dated |-> TRUE],
                 [article |-> "chrome", paragraphs |-> TRUE, dated |-> TRUE],
                 [article |-> "none", paragraphs |-> FALSE, dated |-> FALSE]}

\* Seeding: of three files one is always refused and one always fails.
MCCorpus == <<"p", "q", "z">>
MCTextsOf == [p |-> 2, q |-> 1, z |-> 1]

\* JobRows: the reaper goes through the rows the other way round.
MCThreadJobs == <<"j1", "j2">>
MCScanOrder == <<"j2", "j1">>
MCMaxTold == [j1 |-> 2, j2 |-> 0]

\* Library: a document of each user.
MCOwnerOf == [d \in {1, 2} |-> d]

\* Publishing: a section that is shown before an earlier one; the third claim is another's,
\* and the fourth citation of an answer its model made up.
MCBody(s, a, b) == [summary |-> <<s>>,
                    sections |-> <<[order |-> 3, lines |-> <<a>>], [order |-> 1, lines |-> <<b>>]>>]
MCBodyOne == MCBody(<<1>>, <<2>>, <<2, 1>>)
MCBodies == {MCBodyOne, MCBody(<<2>>, <<3, 1>>, <<3>>)}
MCCitedClaims == << [owner |-> "o1", version |-> 1, quote |-> "q1"],
                    [owner |-> "o1", version |-> 2, quote |-> "q2"],
                    [owner |-> "o2", version |-> 3, quote |-> "q1"] >>
MCTextVersions == <<[owner |-> "o1", document |-> 1], [owner |-> "o1", document |-> 1],
                    [owner |-> "o2", document |-> 2]>>
MCCitation(v, q) == [version |-> v, quote |-> q]
MCAnswer == [o \in {"o1", "o2"} |->
    IF o = "o1"
    THEN [sentences |-> <<<<2>>, <<1, 4>>, <<3, 2>>>>,
          citations |-> <<MCCitation(1, "q1"), MCCitation(2, "q2"), MCCitation(1, "q3")>>]
    ELSE [sentences |-> <<<<1>>>>, citations |-> <<MCCitation(3, "q1")>>]]
MCChanges == [camps |-> <<2, 1>>, new |-> <<<<3>>>>, changed |-> <<<<1, 2>>>>, disputed |-> <<>>]

\* Timeline: everything there is.
MCTimelines == {[docs |-> {"d1"}, start |-> 0, end |-> 3]}

\* Thinking: deltas that cut the tags; replies of every text of few characters, and of some
\* longer ones, with the strings in them.
MCStreamDeltas == {<<"<">>, <<"t">>, <<">", "x">>, <<"<", "t", ">">>, <<"<", "/">>,
                   <<"t", ">", " ">>, <<"<", "/", "t", ">">>}
MCQuote == "quote"
MCJson == UNION {[1..n -> {"{", "}", MCQuote, "\\", "x"}] : n \in 0..5}
          \cup { <<"x", "}", "{", MCQuote, "}", "\\", MCQuote, "{", MCQuote, "{", MCQuote, "a",
                   MCQuote, "}", "}", "}">>,
                 <<"{", MCQuote, "\\", "\\", MCQuote, "}", "{", "}">> }
MCReplyOf(chars) ==
    LET n == Len(chars)
        slashes(p, i) == {j \in (p + 1)..(i - 1) : \A k \in j..(i - 1) : chars[k] = "\\"}
        escaped(p) == {i \in (p + 1)..(n + 1) : Cardinality(slashes(p, i)) % 2 = 1}
        end(p) == Min({i \in (p + 1)..(n + 1) : i <= n => chars[i] = MCQuote /\ i \notin escaped(p)})
        strings[i \in 1..(n + 2)] ==
            IF i > n THEN {}
            ELSE IF chars[i] # MCQuote THEN strings[i + 1]
            ELSE {<<i, end(i)>>} \cup strings[end(i) + 1]
        opens == {i \in 1..n : chars[i] = "{"}
        marked == IF opens = {} THEN {} ELSE strings[Min(opens)]
    IN  [text |-> chars, strings |-> marked,
         escaped |-> UNION {escaped(p[1]) \cap ((p[1] + 1)..p[2]) : p \in marked}]
MCReplies == {MCReplyOf(chars) : chars \in MCJson}

\* Cassette: a stream of one delta and one of two.
MCTapeTexts == {<<"no">>, <<"yes", "but">>}
=============================================================================

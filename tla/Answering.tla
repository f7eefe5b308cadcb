----------------------------- MODULE Answering -----------------------------
(* A streamed answer (app/verify/answer.py answer_stream, over                  *)
(* app/ingestion/segment.py): the model's text arrives in pieces, each sentence *)
(* is checked and shown as soon as it is whole, and where the model fails the    *)
(* answer is built anew from the evidence. A text is a sequence of tokens of the *)
(* kinds the splitter tells apart.                                               *)
EXTENDS Integers, Sequences, FiniteSets, FiniteSetsExt, SequencesExt

CONSTANTS
    Pieces,         \* what one delta of the model may hold
    Deltas,         \* bound: deltas of one answer
    Quotes          \* what the best sentences of two hits may be

VARIABLES
    stage,          \* "asked", "model", "failed", "extract", "whole", "stored", "left"
    prose,          \* what has arrived
    deltas,
    emitted,        \* how many of its spans _emit_new_sentences has passed
    sentences,      \* answer.sentences
    shown,          \* the sentence events the reader has had of this answer
    method,         \* answer.method: who wrote the text
    stored          \* the sentences of the answers row

answeringVars == <<stage, prose, deltas, emitted, sentences, shown, method, stored>>

Lower == "word"
Upper == "Word"
Dot == "."
Semicolon == "full-width ;"     \* and the ellipsis: they end a sentence wherever they stand
Space == " "
Line == "newline"
Cites == {"[1]", "[2]"}
AnswerTokens == {Lower, Upper, Dot, Semicolon, Space, Line} \cup Cites
NoAnswer == << >>

-----------------------------------------------------------------------------
(***************************************************************************)
(* split_sentences                                                         *)
(***************************************************************************)
Blank(t, i) == t[i] \in {Space, Line}

\* What follows the white space after i, if anything does.
NextMark(t, i) == {j \in (i + 1)..Len(t) : ~Blank(t, j) /\ \A k \in (i + 1)..(j - 1) : Blank(t, k)}

\* _closes_sentence: a full stop needs white space after it, and then no lower case.
Closes(t, i) ==
    \/ t[i] = Semicolon
    \/ /\ t[i] = Dot
       /\ \/ i = Len(t)
          \/ /\ Blank(t, i + 1)
             /\ \A j \in NextMark(t, i) : t[j] \in {Upper} \cup Cites

\* A paragraph break is a boundary whatever stands before it.
Cuts(t) == {i \in 1..Len(t) : \/ Closes(t, i)
                              \/ i < Len(t) /\ t[i] = Line /\ t[i + 1] = Line}

\* A span starts at what follows a boundary, and ends at what stands before one, but for
\* white space.
StartsAt(t, m) == \E a \in Cuts(t) \cup {0} : a < m /\ \A i \in (a + 1)..(m - 1) : Blank(t, i)
EndsAt(t, n) == \E b \in Cuts(t) \cup {Len(t)} : n <= b /\ \A i \in (n + 1)..b : Blank(t, i)

\* The spans between the boundaries, trimmed, without the empty ones.
SpansIn(t) ==
    {p \in (1..Len(t)) \X (1..Len(t)) :
        /\ p[1] <= p[2] /\ ~Blank(t, p[1]) /\ ~Blank(t, p[2])
        /\ StartsAt(t, p[1]) /\ EndsAt(t, p[2])
        /\ \A i \in p[1]..(p[2] - 1) : i \notin Cuts(t)}

InTextOrder(S) ==
    [n \in 1..Cardinality(S) |-> CHOOSE p \in S : Cardinality({q \in S : q[1] < p[1]}) = n - 1]

Spans(t) == InTextOrder(SpansIn(t))

\* parse_citations: the numbers, and whether anything is left without them.
CitedIn(t, span) == {t[i] : i \in span[1]..span[2]} \cap Cites
SaysSomething(t, span) == \E i \in span[1]..span[2] : t[i] \notin Cites /\ ~Blank(t, i)

Sentence(t, span, number) == [index |-> number, span |-> span, cited |-> CitedIn(t, span)]

\* The sentences that spans are, after so many others; spans that are only citations are
\* passed over.
SentencesAt(t, spans, told) ==
    LET said == InTextOrder({p \in spans : SaysSomething(t, p)})
    IN  [i \in DOMAIN said |-> Sentence(t, said[i], told + i)]

\* What the best sentence of a hit may be: one that split_sentences returned, of ten
\* characters at least.
ASSUME AnsweringAssumption ==
    /\ Deltas \in Nat
    /\ Pieces \subseteq Seq(AnswerTokens)
    /\ Quotes \subseteq {q \in Seq(AnswerTokens) : SpansIn(q) = {<<1, Len(q)>>} /\ q # <<Dot>>}

-----------------------------------------------------------------------------
AnsweringInit ==
    /\ stage = "asked"
    /\ prose = << >> /\ deltas = 0 /\ emitted = 0
    /\ sentences = << >> /\ shown = << >>
    /\ method = "none"
    /\ stored = NoAnswer

\* hybrid_search and related_disputes are done; the model is asked, or there is none.
Ask ==
    /\ stage = "asked"
    /\ stage' \in {"model", "extract"}
    /\ method' = stage'
    /\ UNCHANGED <<prose, deltas, emitted, sentences, shown, stored>>

\* _emit_new_sentences from the first span not passed yet.
EmitFrom(t, spans) ==
    LET fresh == SentencesAt(t, {spans[i] : i \in (emitted + 1)..Len(spans)}, Len(sentences))
    IN  /\ sentences' = sentences \o fresh
        /\ shown' = shown \o fresh
        /\ emitted' = IF Len(spans) > emitted THEN Len(spans) ELSE emitted

\* The last span may still grow.
Complete(spans) == IF spans = << >> THEN spans ELSE Front(spans)

Delta(piece) ==
    /\ stage = "model" /\ deltas < Deltas
    /\ LET t == prose \o piece
       IN  /\ prose' = t
           /\ EmitFrom(t, Complete(Spans(t)))
    /\ deltas' = deltas + 1
    /\ UNCHANGED <<stage, method, stored>>

ModelEnds ==
    /\ stage = "model"
    /\ EmitFrom(prose, Spans(prose))
    /\ stage' = "whole"
    /\ UNCHANGED <<prose, deltas, method, stored>>

\* The reader is told, and the answer begins again from nothing.
ModelFails ==
    /\ stage = "model"
    /\ stage' = "extract" /\ method' = "extract"
    /\ prose' = << >> /\ deltas' = 0 /\ emitted' = 0
    /\ sentences' = << >> /\ shown' = << >>
    /\ UNCHANGED <<stored>>

CitationAtTheEnd(quote, cite) == quote \o <<Space, cite>>

\* with_citation: before the last full stop and the white space before that, after
\* anything else.
WithCitation(quote, cite) ==
    IF Last(quote) # Dot THEN quote \o <<Space, cite>>
    ELSE LET kept == CHOOSE e \in 0..(Len(quote) - 1) :
                        /\ e = 0 \/ ~Blank(quote, e)
                        /\ \A i \in (e + 1)..(Len(quote) - 1) : Blank(quote, i)
         IN  SubSeq(quote, 1, kept) \o <<Space, cite, Dot>>

\* _extractive_stream over the text _extractive_answer joins with spaces. Each
\* sentence is placed after the lengths of those before it.
LengthOfSpan(span) == span[2] - span[1] + 1
Offsets(spans) ==
    LET offset[i \in 0..Len(spans)] ==
            IF i = 0 THEN 0 ELSE offset[i - 1] + LengthOfSpan(spans[i]) + 1
    IN  offset
PlacedCitations(t, spans, offsets) ==
    [i \in DOMAIN spans |->
        Sentence(t, <<offsets[i - 1] + 1, offsets[i - 1] + LengthOfSpan(spans[i])>>, i)]
Answered(t) == PlacedCitations(t, Spans(t), Offsets(Spans(t)))

\* _extractive_answer of two hits.
TextOf(first, second) == WithCitation(first, "[1]") \o <<Space>> \o WithCitation(second, "[2]")

Extract(first, second) ==
    /\ stage = "extract"
    /\ prose' = TextOf(first, second)
    /\ sentences' = Answered(TextOf(first, second))
    /\ shown' = Answered(TextOf(first, second))
    /\ stage' = "whole"
    /\ UNCHANGED <<deltas, emitted, method, stored>>

\* _persist, and the event that ends the stream.
Persist ==
    /\ stage = "whole"
    /\ stored' = sentences
    /\ stage' = "stored"
    /\ UNCHANGED <<prose, deltas, emitted, sentences, shown, method>>

\* The connection closes at one of the events: what follows is never run.
ReaderLeaves ==
    /\ stage \in {"asked", "model", "extract", "whole"}
    /\ stage' = "left"
    /\ UNCHANGED <<prose, deltas, emitted, sentences, shown, method, stored>>

AnsweringNext ==
    \/ Ask \/ ModelEnds \/ ModelFails \/ Persist \/ ReaderLeaves
    \/ \E piece \in Pieces : Delta(piece)
    \/ \E first, second \in Quotes : Extract(first, second)

AnsweringSpec == AnsweringInit /\ [][AnsweringNext]_answeringVars

-----------------------------------------------------------------------------
\* However the text was cut into deltas, the stored sentences are those of the
\* whole text, in order: a sentence shown early is never one that later text would
\* have joined to the next. Of a model's text the bare citations are left out.
StoredIsTheWhole ==
    stage = "stored" =>
        /\ [i \in DOMAIN stored |-> stored[i].span] =
               InTextOrder({p \in SpansIn(prose) : method = "extract" \/ SaysSomething(prose, p)})
        /\ \A i \in DOMAIN stored : stored[i].index = i

\* The reader was shown exactly what is stored, since the last error at least.
ShownIsStored == stage = "stored" => shown = stored

\* Every place recorded for a sentence is where it stands, and what it cites there.
PlacesAreRight ==
    \A i \in DOMAIN sentences :
        /\ sentences[i].span \in SpansIn(prose)
        /\ sentences[i].cited = CitedIn(prose, sentences[i].span)

\* A quote that ended in two full stops: with_citation moves behind the last of them only.
StopsTwice(t) == \E i \in 1..(Len(t) - 3) :
    t[i] = Dot /\ t[i + 1] = Space /\ t[i + 2] \in Cites /\ t[i + 3] = Dot

\* What with_citation is for: in an answer built from the evidence every sentence
\* cites what it came from. Not so after a semicolon or an ellipsis, which end a
\* sentence for the splitter but not for with_citation, nor between two full stops.
EverySentenceCites ==
    stage = "stored" /\ method = "extract"
      /\ Semicolon \notin {prose[i] : i \in DOMAIN prose} /\ ~StopsTwice(prose) =>
        \A i \in DOMAIN stored : stored[i].cited # {}

AnswersTell == StoredIsTheWhole /\ ShownIsStored /\ PlacesAreRight /\ EverySentenceCites
=============================================================================

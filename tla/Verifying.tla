----------------------------- MODULE Verifying -----------------------------
(* The sentence verifier (app/verify/verifier.py, evidence.py) and the check of  *)
(* one generated sentence (answer.py check_sentence): a verdict from the signals *)
(* each piece of evidence gives, then the model's second opinion on the hard     *)
(* ones, batch by batch, which may fail half way.                                *)
EXTENDS Integers, Sequences, FiniteSets, SequencesExt

CONSTANTS
    SentencesIn,    \* sentences of the text to verify
    EvidenceLists,  \* evidence a sentence may meet: sequences of signal records
    AnswerIds,      \* sets of evidence numbers a model may cite, wrong ones too
    BatchSize       \* LLM_BATCH_SIZE

ASSUME VerifyingAssumption == SentencesIn \in Nat /\ BatchSize \in Nat \ {0}

VARIABLES
    evidence,       \* what gather_evidence found for each sentence
    cites,          \* sentences that name their evidence; the others are not looked for
    rows,           \* SentenceVerdict of each, << >> before _decide
    judged,         \* how many of the targets the model has been asked about
    targets,        \* the sentences _llm_pass chose
    outcome,        \* "none", then "heuristic", "llm" or "fallback"
    answered        \* history: sentences whose verdict the model gave

verifyingVars == <<evidence, cites, rows, judged, targets, outcome, answered>>

SidesOfPair == 1..SentencesIn

-----------------------------------------------------------------------------
(***************************************************************************)
(* judge_sentence_against. `f1` is where the overlap stands to the bars:    *)
(* below both, at least 0.35, at least 0.50.                                *)
(***************************************************************************)
Supports(s) ==
    /\ ~s.differ
    /\ \/ s.f1 = "high" /\ s.numbers # "conflict" /\ ~s.dates /\ ~s.negation
       \/ s.f1 \in {"mid", "high"} /\ s.numbers = "agree"

Contradicts(s) ==
    /\ s.f1 \in {"mid", "high"}
    /\ s.numbers = "conflict" \/ s.differ \/ s.dates \/ s.negation

Verdict(supported, contradicted) ==
    IF supported /\ contradicted THEN "disputed"
    ELSE IF supported THEN "supported"
    ELSE IF contradicted THEN "contradicted" ELSE "unsupported"

Supporting(list) == {n \in DOMAIN list : Supports(list[n])}
Contradicting(list) == {n \in DOMAIN list : Contradicts(list[n])}

\* _decide; a sentence that cites nothing it may use in cited mode skips it.
Decide(list) ==
    [verdict |-> Verdict(Supporting(list) # {}, Contradicting(list) # {}),
     sup |-> Supporting(list), con |-> Contradicting(list), method |-> "heuristic"]

\* check_sentence: support from what is cited, contradiction from every hit.
CheckSentence(list, cited) ==
    LET support == IF cited = {} THEN Supporting(list) ELSE Supporting(list) \cap cited
    IN  Verdict(support # {}, Contradicting(list) # {})

-----------------------------------------------------------------------------
VerifyingInit ==
    /\ cites \in SUBSET SidesOfPair
    /\ evidence \in [SidesOfPair -> EvidenceLists]
    /\ \A s \in SidesOfPair \ cites : evidence[s] = << >>
    /\ rows = << >>
    /\ judged = 0 /\ targets = << >> /\ outcome = "none" /\ answered = {}

DecideAll ==
    /\ rows = << >>
    /\ rows' = [s \in SidesOfPair |-> Decide(evidence[s])]
    /\ targets' = SelectSeq([s \in SidesOfPair |-> s], LAMBDA s : rows'[s].verdict # "supported")
    /\ outcome' = IF targets' = << >> THEN "heuristic" ELSE "none"
    /\ UNCHANGED <<evidence, cites, judged, answered>>

Batch == SubSeq(targets, judged + 1, IF judged + BatchSize < Len(targets)
                                     THEN judged + BatchSize ELSE Len(targets))

AnyId(ids, list) == ids
InRange(ids, list) == ids \cap DOMAIN list

\* _apply_llm_results, one item: verdicts without evidence the model was shown are
\* not taken.
Applied(row, list, item) ==
    LET sup == InRange(item.sup, list)
        con == InRange(item.con, list)
        backed == CASE item.verdict = "supported" -> sup # {}
                    [] item.verdict = "contradicted" -> con # {}
                    [] item.verdict = "disputed" -> sup # {} /\ con # {}
                    [] OTHER -> TRUE
    IN  IF ~backed THEN row
        ELSE [verdict |-> item.verdict, method |-> "llm",
              sup |-> IF item.verdict \in {"supported", "disputed"} THEN sup ELSE {},
              con |-> IF item.verdict \in {"contradicted", "disputed"} THEN con ELSE {}]

Items == [position : 0..(BatchSize + 1), sup : AnswerIds, con : AnswerIds,
          verdict : {"supported", "contradicted", "disputed", "unsupported"}]

\* judge_verify_batch and what is taken of its answer: one item here, or none; an
\* item for a sentence outside the batch is passed over.
JudgeBatch(item) ==
    /\ outcome = "none" /\ rows # << >>
    /\ IF item.position \in DOMAIN Batch
       THEN LET s == Batch[item.position]
                row == Applied(rows[s], evidence[s], item)
            IN  /\ rows' = [rows EXCEPT ![s] = row]
                /\ answered' = IF row = rows[s] THEN answered ELSE answered \cup {s}
       ELSE UNCHANGED <<rows, answered>>
    /\ judged' = judged + Len(Batch)
    /\ outcome' = IF judged' = Len(targets) THEN "llm" ELSE "none"
    /\ UNCHANGED <<evidence, cites, targets>>

\* Any failure but a stale cassette: the rest stays heuristic, and every target is
\* labelled as a fallback, those the model has judged too.
FailBatch ==
    /\ outcome = "none" /\ rows # << >>
    /\ rows' = [s \in SidesOfPair |-> IF s \in Range(targets)
                                THEN [rows[s] EXCEPT !.method = "fallback"] ELSE rows[s]]
    /\ outcome' = "fallback"
    /\ UNCHANGED <<evidence, cites, judged, targets, answered>>

VerifyingNext == DecideAll \/ FailBatch \/ \E item \in Items : JudgeBatch(item)

VerifyingSpec == VerifyingInit /\ [][VerifyingNext]_verifyingVars

-----------------------------------------------------------------------------
\* Whoever gave it, a verdict rests on evidence of its own kind: support where it
\* says supported, contradiction where it says contradicted, both where disputed.
VerdictIsBacked ==
    \A s \in DOMAIN rows :
        rows[s].verdict = Verdict(rows[s].sup # {}, rows[s].con # {})

\* In cited mode a sentence that cites nothing stays unsupported: no model talks it
\* up with evidence it was not shown.
CitelessStaysUnsupported ==
    \A s \in DOMAIN rows : s \notin cites => rows[s].verdict = "unsupported"

\* What is labelled heuristic is what the heuristic said, and the model is never
\* asked again about a sentence it found supported.
LabelTells ==
    \A s \in DOMAIN rows :
        rows[s].method = "heuristic" => rows[s] = Decide(evidence[s])
            /\ s \notin answered

\* Ask and verify agree on a sentence that cites all of its evidence; evidence it
\* does not cite can take support away, never give it.
AskAgreesWithVerify ==
    \A s \in DOMAIN rows :
        LET list == evidence[s]
        IN  /\ CheckSentence(list, DOMAIN list) = Decide(list).verdict
            /\ \A cited \in SUBSET DOMAIN list :
                   cited # {} /\ CheckSentence(list, cited) \in {"supported", "disputed"} =>
                       cited \cap Supporting(list) # {}

VerdictsTell ==
    VerdictIsBacked /\ CitelessStaysUnsupported /\ LabelTells /\ AskAgreesWithVerify
=============================================================================

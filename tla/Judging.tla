------------------------------ MODULE Judging ------------------------------
(***************************************************************************)
(* What two claims are to each other, from their words alone               *)
(* (claims/numbers.py, claims/signals.py, heuristic_relation): the         *)
(* quantities and dates each states, whether they can be compared, whether *)
(* they agree, and the relation that follows, or none, which leaves the    *)
(* pair to the model.                                                      *)
(*                                                                         *)
(* What a pattern matches in a text is data: a candidate with the places   *)
(* it starts and ends, and what it reads as. Which candidates become       *)
(* quantities and dates, in which order the passes take them, is the code. *)
(***************************************************************************)
EXTENDS Integers, SequencesExt, FiniteSetsExt

CONSTANTS Statements,   \* claims, each as what its text and fields show
          AssertedAt,      \* asserted_at of a claim; 0 for none
          YearOf,       \* the year of a moment
          Similarities, \* cosine similarity, of a hundred
          DupSim,       \* the embedder's dup_sim, of a hundred
          MinF1         \* MIN_F1_FOR_RELATION, of a hundred

\* What a pattern may read: of a range the lower end first, as extract_quantities
\* orders them; and the dates that extract_dates lets by, 0 for no month or day.
QuantitiesRead ==
    {q \in [unit : STRING, dimension : STRING, head : STRING, low : Int, high : Int] :
        q.low <= q.high}
DatesRead == [year : Nat, month : 0..12, day : 0..31, quarter : BOOLEAN]
MatchOf(Read) == [from : Nat, upto : Nat, reach : Nat, reads : Seq(Read)]
MatchesOf(Read) == Seq(MatchOf(Read))

ASSUME JudgingAssumption ==
    /\ \A s \in Statements :
          /\ {s.percentages, s.ranges, s.spelledOut, s.numbers} \subseteq MatchesOf(QuantitiesRead)
          /\ {s.quarters, s.monthsOfYears, s.fullDates, s.months, s.years} \subseteq MatchesOf(DatesRead)
          /\ \A i \in DOMAIN s.months : s.months[i].reads # <<>>
          /\ {s.event, s.negated, s.cue} \subseteq BOOLEAN
          /\ s.words \in Seq(STRING)
    /\ AssertedAt \subseteq Nat /\ YearOf \in [AssertedAt \ {0} -> Nat]
    /\ Similarities \subseteq Nat /\ DupSim \in Nat /\ MinF1 \in Nat

VARIABLES pair,     \* the two claims, their ids and moments, and how near they are
          draft     \* the relation the heuristic found

judgingVars == <<pair, draft>>

Magnitude(n) == IF n < 0 THEN -n ELSE n
Larger(a, b) == IF a < b THEN b ELSE a
Smaller(a, b) == IF a < b THEN a ELSE b

-----------------------------------------------------------------------------
(* extract_quantities, extract_dates. *)

Free(taken, from, upto) == \A t \in taken : ~(from < t.upto /\ t.from < upto)

\* A number is taken when nothing before it holds its place, nor the place its
\* unit or noun reaches to; a match that reads as nothing takes no place.
FreeToItsEnd(taken, c) == Free(taken, c.from, c.reach)

\* Variant: only the place of the digits is looked at.
FreeAtItsStart(taken, c) == Free(taken, c.from, c.upto)

Fits(taken, c) == FreeAtItsStart(taken, c) /\ FreeToItsEnd(taken, c)

Take(found, c) ==
    IF c.reads # <<>> /\ Fits(ToSet(found), c)
    THEN Append(found, [from |-> c.from, upto |-> c.reach, is |-> c.reads[1]]) ELSE found

ReadAfter(found, candidates) ==
    LET to[n \in 0..Len(candidates)] ==
            IF n = 0 THEN found ELSE Take(to[n - 1], candidates[n])
    IN to[Len(candidates)]

\* A stable sort: each has its place by how many come before it.
StartsBefore(found) ==
    {p \in (DOMAIN found) \X (DOMAIN found) :
        found[p[1]].from < found[p[2]].from \/ (found[p[1]].from = found[p[2]].from /\ p[1] < p[2])}
ByStart(found) ==
    [n \in DOMAIN found |->
        found[CHOOSE i \in DOMAIN found :
                Cardinality({j \in DOMAIN found : <<j, i>> \in StartsBefore(found)}) = n - 1]]

\* Four passes, each over its own pattern: what an earlier one took is not read
\* again. Percentages written out, ranges, numbers written out, digits.
PercentagesRead(s) == s.percentages
RangesRead(s) == PercentagesRead(s) \o s.ranges
WordsRead(s) == RangesRead(s) \o s.spelledOut
NumbersRead(s) == WordsRead(s) \o s.numbers

FoundQuantities(s) == ByStart(ReadAfter(<<>>, NumbersRead(s)))
QuantitiesOf(s) == {f.is : f \in ToSet(FoundQuantities(s))}

\* Quarters, months with a year, full dates; a month alone is of the year it was
\* asserted in, and a year alone counts beside a word for an event, where no other
\* date holds its place. Quantities hold theirs.
DatedRead(s) == s.quarters \o s.monthsOfYears \o s.fullDates
MonthsRead(s, at) ==
    DatedRead(s) \o IF at = 0 THEN <<>>
                    ELSE [i \in DOMAIN s.months |-> [s.months[i] EXCEPT !.reads[1].year = YearOf[at]]]
YearsRead(s, at) == MonthsRead(s, at) \o IF s.event THEN s.years ELSE <<>>

DatesBeside(quantities, dates) ==
    LET read == ReadAfter(quantities, dates)
    IN ByStart(SubSeq(read, Len(quantities) + 1, Len(read)))
FoundDates(s, at) == DatesBeside(FoundQuantities(s), YearsRead(s, at))
ReadingsOf(found) == [i \in DOMAIN found |-> found[i].is]
DatesOf(s, at) == ReadingsOf(FoundDates(s, at))

-----------------------------------------------------------------------------
(* Quantities. *)

HeadsCompatible(x, y) == x.head = "" \/ y.head = "" \/ x.head = y.head
SameDimension(x, y) == x.dimension = "" \/ y.dimension = "" \/ x.dimension = y.dimension

Comparable(x, y) ==
    /\ SameDimension(x, y)
    /\ x.unit = y.unit
    /\ x.unit = "" => HeadsCompatible(x, y)

IsInterval(q) == q.low # q.high

\* Within a twentieth of the larger; ranges match when they meet or nearly do.
WithinTolerance(a, b) == 20 * Magnitude(a - b) <= Larger(Magnitude(a), Magnitude(b))

ValuesMatch(x, y) ==
    IF IsInterval(x) \/ IsInterval(y)
    THEN LET low == Larger(x.low, y.low)
             high == Smaller(x.high, y.high)
         IN low <= high \/ WithinTolerance(low, high)
    ELSE WithinTolerance(x.low, y.low)

Matched(x, others) == \E y \in others : Comparable(x, y) /\ ValuesMatch(x, y)

ComparableAmong(these, others) == {x \in these : \E y \in others : Comparable(x, y)}

\* Variant: only the first statement's quantities have to be matched.
UnmatchedOneWay(these, others) == \E x \in these : ~Matched(x, others)

Unmatched(these, others) ==
    UnmatchedOneWay(these, others) \/ \E y \in others : ~Matched(y, these)

\* "conflict", "agree", or "none" when nothing can be compared.
NumbersConflict(these, others) ==
    LET left == ComparableAmong(these, others)
        right == ComparableAmong(others, these)
    IN IF left \cup right = {} THEN "none"
       ELSE IF Unmatched(left, right) THEN "conflict" ELSE "agree"

Generic == {"", "count", "dimensionless", "measurement"}
Alike(x, y) ==
    /\ SameDimension(x, y) \/ x.dimension \in Generic \/ y.dimension \in Generic
    /\ x.unit = "" \/ y.unit = "" \/ x.unit = y.unit
    /\ HeadsCompatible(x, y)

NumbersDiffer(these, others) ==
    \/ NumbersConflict(these, others) = "conflict"
    \/ /\ NumbersConflict(these, others) = "none"
       /\ \E x \in these, y \in others : Alike(x, y)
       /\ \A x \in these, y \in others : Alike(x, y) => ~ValuesMatch(x, y)

-----------------------------------------------------------------------------
(* Dates. *)

Months(d) ==
    IF d.month = 0 THEN 1..12
    ELSE IF d.quarter THEN LET q == (d.month - 1) \div 3 IN (3 * q + 1)..(3 * q + 3)
    ELSE {d.month}

Encloses(broad, narrow) ==
    /\ broad.year = narrow.year
    /\ Months(narrow) \subseteq Months(broad)
    /\ broad.day # 0 => narrow.day = broad.day
Compatible(d, e) == Encloses(d, e) \/ Encloses(e, d)

Occurs(s, w) == Cardinality({i \in DOMAIN s : s[i] = w})

\* What is left of each side once the dates both give are struck out, one for one.
Unstruck(these, others) == {d \in ToSet(these) : Occurs(these, d) > Occurs(others, d)}

LeaveIncompatible(left, right) ==
    \E d \in Unstruck(left, right), e \in Unstruck(right, left) : ~Compatible(d, e)

DatesConflict(a, b, atA, atB) ==
    a.event /\ b.event /\ LeaveIncompatible(DatesOf(a, atA), DatesOf(b, atB))

-----------------------------------------------------------------------------
(* The relation. *)

NegationAsymmetry(a, b) == a.negated # b.negated /\ ToSet(a.words) \cap ToSet(b.words) # {}

\* Each of the words both have, as often as both have it.
SharedWords(a, b) ==
    Cardinality({p \in (ToSet(a) \cap ToSet(b)) \X (1..Smaller(Len(a), Len(b))) :
                    p[2] <= Smaller(Occurs(a, p[1]), Occurs(b, p[1]))})
OverlapsBy(a, b, percent) ==
    LET shared == SharedWords(a.words, b.words) IN
    shared # 0 /\ 200 * shared >= percent * (Len(a.words) + Len(b.words))

FirstHead(counts) == IF counts = <<>> THEN "" ELSE counts[1].is.head
CountHead(s) ==
    FirstHead(SelectSeq(FoundQuantities(s), LAMBDA f : f.is.dimension = "count" /\ f.is.head # ""))

NamedApart(x, y) == x # "" /\ y # "" /\ x # y

\* About different things, or only one of them qualified: for the model.
DeferToLLM(a, b) ==
    \/ NamedApart(a.subject, b.subject)
    \/ NamedApart(a.predicate, b.predicate)
    \/ a.tags # b.tags
    \/ /\ a.subject = "" \/ b.subject = ""
       /\ \/ NamedApart(CountHead(a), CountHead(b))
          \/ a.slot \ b.slot # {} /\ b.slot \ a.slot # {}

None == [relation |-> "none", newer |-> 0, fired |-> 0]

\* order_by_asserted_at: the id breaks a tie.
NewerOf(p) == IF p.atA > p.atB \/ (p.atA = p.atB /\ p.idA >= p.idB) THEN "a" ELSE "b"

\* The draft of a pair, given which of the three signals fired.
RelationOf(p, differ, dates, negation) ==
    LET a == p.a
        b == p.b
        newer == NewerOf(p)
        cue == IF newer = "a" THEN a.cue ELSE b.cue
        fired == {f \in {"number", "date", "negation"} :
                    CASE f = "number" -> differ [] f = "date" -> dates [] f = "negation" -> negation}
        found(kind, id) == [relation |-> kind, newer |-> id, fired |-> Cardinality(fired)]
    IN IF DeferToLLM(a, b) THEN None
       ELSE IF fired # {} /\ OverlapsBy(a, b, MinF1)
       THEN IF p.atA # 0 /\ p.atB # 0 /\ p.atA # p.atB /\ (dates \/ differ) /\ cue
            THEN found("supersedes", IF newer = "a" THEN p.idA ELSE p.idB)
            ELSE found("contradicts", 0)
       ELSE IF p.similarity >= DupSim /\ ~differ THEN found("duplicate", 0)
       ELSE IF OverlapsBy(a, b, 50) /\ fired = {} THEN found("supports", 0)
       ELSE None

HeuristicRelation(p) ==
    RelationOf(p, NumbersDiffer(QuantitiesOf(p.a), QuantitiesOf(p.b)),
               DatesConflict(p.a, p.b, p.atA, p.atB), NegationAsymmetry(p.a, p.b))

JudgingInit == pair = <<>> /\ draft = None

JudgePairOf ==
    /\ pair = <<>>
    /\ \E a, b \in Statements, atA, atB \in AssertedAt, s \in Similarities :
          /\ pair' = <<[a |-> a, b |-> b, idA |-> 1, idB |-> 2, atA |-> atA, atB |-> atB, similarity |-> s]>>
          /\ draft' = HeuristicRelation(pair'[1])

JudgingNext == JudgePairOf
JudgingSpec == JudgingInit /\ [][JudgingNext]_judgingVars

-----------------------------------------------------------------------------
Mirrored(p) == [a |-> p.b, b |-> p.a, idA |-> p.idB, idB |-> p.idA,
                atA |-> p.atB, atB |-> p.atA, similarity |-> p.similarity]

\* Which claim was met first decides nothing: the pair judged the other way round
\* has the same relation and the same newer claim (heuristic_relation).
JudgedAlikeBothWays == pair # <<>> => HeuristicRelation(Mirrored(pair[1])) = draft

\* A claim never contradicts its own words said again in the same year, and is
\* never called an update of them (numbers_conflict, date_conflict).
RepeatedIsNoConflict ==
    pair # <<>> /\ pair[1].a = pair[1].b /\ pair[1].atA = pair[1].atB =>
        draft.relation \in {"duplicate", "supports", "none"}

\* Nothing agrees that differs: two claims with a pair of quantities that can be
\* compared and no match for one of them are not support nor duplicates
\* (numbers_differ: "to guard against false-positive matches").
AgreementAgrees ==
    pair # <<>> /\ draft.relation \in {"supports", "duplicate"} =>
        LET qa == QuantitiesOf(pair[1].a)
            qb == QuantitiesOf(pair[1].b)
        IN \A x \in qa : (\E y \in qb : Comparable(x, y)) => Matched(x, qb)

\* No part of a text is read twice, as two quantities or as a quantity and a date.
ReadOnce ==
    pair # <<>> =>
        \A s \in {pair[1].a, pair[1].b} : \A at \in AssertedAt :
            LET read == FoundQuantities(s) \o FoundDates(s, at) IN
            \A i, j \in DOMAIN read : i # j => Free({read[i]}, read[j].from, read[j].upto)

JudgingTells == JudgedAlikeBothWays /\ RepeatedIsNoConflict /\ AgreementAgrees /\ ReadOnce
=============================================================================

---------------------------- MODULE ClaimsProofs -----------------------------
(* Proofs about claims: that a pair is judged alike both ways round         *)
(* (Judging), that clusters count what they hold and keep strongly related  *)
(* claims together (Clusters), and that their camps split them as their     *)
(* relations say (Camps); those about what extraction stores are in         *)
(* PagesProofs.                                                             *)
EXTENDS PagesProofs, Judging, Clusters, Camps

-----------------------------------------------------------------------------
(* Fractions, compared by cross-multiplication.                             *)

\* Both sides of a comparison may be multiplied by a positive number.
LEMMA Multiplied ==
    ASSUME NEW x \in Int, NEW y \in Int, NEW z \in Nat \ {0}
    PROVE  /\ x <= y <=> x * z <= y * z
           /\ x < y <=> x * z < y * z
<1>1. ASSUME NEW u \in Int, NEW v \in Int, u <= v PROVE u * z <= v * z
  <2>1. PICK d \in Nat : v = u + d BY <1>1
  <2>2. v * z = u * z + d * z BY <2>1
  <2>3. d * z \in Nat /\ u * z \in Int OBVIOUS
  <2> QED BY <2>2, <2>3
<1>2. ASSUME NEW u \in Int, NEW v \in Int, u < v PROVE u * z < v * z BY <1>1, <1>2
<1>3. x * z \in Int /\ y * z \in Int OBVIOUS
<1>4. x <= y => x * z <= y * z BY <1>1
<1>5. y < x => y * z < x * z BY <1>2
<1>6. x < y => x * z < y * z BY <1>2
<1>7. y <= x => y * z <= x * z BY <1>1
<1> QED BY <1>3, <1>4, <1>5, <1>6, <1>7

\* Fractions compared by cross-multiplication are ordered.
LEMMA FractionsTransitive ==
    ASSUME NEW a \in Nat, NEW b \in Nat \ {0}, NEW c \in Nat, NEW d \in Nat \ {0},
           NEW e \in Nat, NEW g \in Nat \ {0}, a * d <= c * b, c * g <= e * d
    PROVE  a * g <= e * b
<1>1. /\ a * d \in Int /\ c * b \in Int /\ c * g \in Int /\ e * d \in Int
      /\ a * g \in Int /\ e * b \in Int
  OBVIOUS
<1>2. (a * d) * g <= (c * b) * g BY <1>1, Multiplied
<1>3. (c * g) * b <= (e * d) * b BY <1>1, Multiplied
<1>4. (a * d) * g = (a * g) * d /\ (c * b) * g = (c * g) * b /\ (e * d) * b = (e * b) * d
  OBVIOUS
<1>5. (a * g) * d \in Int /\ (c * g) * b \in Int /\ (e * b) * d \in Int OBVIOUS
<1>6. (a * g) * d <= (e * b) * d
  <2> DEFINE x == (a * g) * d
             y == (c * g) * b
             z == (e * b) * d
  <2>1. x <= y /\ y <= z /\ x \in Int /\ y \in Int /\ z \in Int BY <1>2, <1>3, <1>4, <1>5
  <2> HIDE DEF x, y, z
  <2>2. x <= z BY <2>1
  <2> QED BY <2>2 DEF x, z
<1> QED BY <1>1, <1>6, Multiplied

\* Of finitely many fractions one is the least.
LEMMA LeastFraction ==
    ASSUME NEW n \in Nat, NEW K \in SUBSET (0..n), K # {},
           NEW f \in [K -> Nat], NEW m \in [K -> Nat \ {0}]
    PROVE  \E k \in K : \A j \in K : f[k] * m[j] <= f[j] * m[k]
<1> DEFINE Least(k, i) == k \in K /\ k <= i /\ \A j \in K : j <= i => f[k] * m[j] <= f[j] * m[k]
           P == {i \in 0..n : (\A j \in K : ~(j <= i)) \/ \E k \in K : Least(k, i)}
<1>1. \A k \in K : f[k] \in Nat /\ m[k] \in Nat \ {0} /\ k \in 0..n OBVIOUS
<1>2. \A k \in K : f[k] * m[k] <= f[k] * m[k]
  <2> TAKE k \in K
  <2>1. f[k] * m[k] \in Int BY <1>1
  <2> QED BY <2>1
<1>3. 0 \in P
  <2>1. CASE 0 \in K BY <1>1, <1>2, <2>1
  <2>2. CASE 0 \notin K BY <1>1, <2>2
  <2> QED BY <2>1, <2>2
<1>4. ASSUME NEW i \in 1..n, i - 1 \in P PROVE i \in P
  <2>0. \A j \in K : (j <= i <=> j <= i - 1 \/ j = i) /\ (j <= i - 1 => j # i) BY <1>1
  <2>1. CASE i \notin K
    <3>1. \A j \in K : j <= i <=> j <= i - 1 BY <2>0, <2>1
    <3>2. (\A j \in K : ~(j <= i - 1)) \/ \E k \in K : Least(k, i - 1) BY <1>4
    <3>3. CASE \A j \in K : ~(j <= i - 1) BY <3>1, <3>3
    <3>4. ASSUME NEW k \in K, Least(k, i - 1) PROVE i \in P BY <3>1, <3>4
    <3> QED BY <3>2, <3>3, <3>4
  <2>2. CASE i \in K /\ \A j \in K : ~(j <= i - 1) BY <1>2, <2>0, <2>2
  <2>3. ASSUME i \in K, NEW k \in K, Least(k, i - 1) PROVE i \in P
    <3>1. CASE f[k] * m[i] <= f[i] * m[k] BY <2>0, <2>3, <3>1
    <3>2. CASE ~(f[k] * m[i] <= f[i] * m[k])
      <4>1. f[i] * m[k] <= f[k] * m[i] BY <1>1, <2>3, <3>2
      <4>2. ASSUME NEW j \in K, j <= i PROVE f[i] * m[j] <= f[j] * m[i]
        <5>1. CASE j = i BY <1>2, <2>3, <5>1
        <5>2. CASE j # i BY <1>1, <2>0, <2>3, <4>1, <4>2, <5>2, FractionsTransitive
        <5> QED BY <5>1, <5>2
      <4>3. Least(i, i) BY <2>3, <4>2
      <4> QED BY <2>3, <4>3
    <3> QED BY <3>1, <3>2
  <2>4. (\A j \in K : ~(j <= i - 1)) \/ \E k \in K : Least(k, i - 1) BY <1>4
  <2> QED BY <2>1, <2>2, <2>3, <2>4
<1> HIDE DEF P
<1>5. \A i \in 0..n : i \in P BY <1>3, <1>4, CountsUpTo
<1>6. n \in P BY <1>5
<1>7. \E j \in K : j <= n
  <2>1. PICK j : j \in K OBVIOUS
  <2>2. j \in 0..n BY <2>1, <1>1
  <2> QED BY <2>1, <2>2
<1>8. \E k \in K : Least(k, n)
  <2> HIDE DEF Least
  <2> QED BY <1>6, <1>7 DEF P
<1>9. PICK k \in K : Least(k, n) BY <1>8
<1> QED BY <1>1, <1>9

-----------------------------------------------------------------------------
(* Judging a pair: what is read.                                            *)

\* What a reading is, of the matches that found it.
FoundOf(Read) == [from : Nat, upto : Nat, is : Read]

Apart(x, y) == ~(y.from < x.upto /\ x.from < y.upto)
ReadApart(found) == \A i, j \in DOMAIN found : i # j => Apart(found[i], found[j])

\* Sequences are what their elements are.
LEMMA SeqIn ==
    ASSUME NEW S, NEW s \in Seq(S)
    PROVE  Len(s) \in Nat /\ DOMAIN s = 1..Len(s) /\ s \in [1..Len(s) -> S]
           /\ \A i \in DOMAIN s : s[i] \in S
BY LenProperties

\* A match is taken at the end of those found, and only apart from all of them.
LEMMA TakeKeeps ==
    ASSUME NEW Read, NEW T, FoundOf(Read) \subseteq T,
           NEW c \in MatchOf(Read),
           NEW found \in Seq(T), ReadApart(found)
    PROVE  /\ Take(found, c) \in Seq(T)
           /\ ReadApart(Take(found, c))
           /\ Len(found) <= Len(Take(found, c))
           /\ \A i \in 1..Len(found) : Take(found, c)[i] = found[i]
<1> DEFINE next == Take(found, c)
           new == [from |-> c.from, upto |-> c.reach, is |-> c.reads[1]]
<1>1. /\ Len(found) \in Nat /\ DOMAIN found = 1..Len(found)
      /\ \A i \in DOMAIN found : found[i] \in T
  BY SeqIn
<1>2. CASE next = found BY <1>1, <1>2
<1>3. CASE next # found
  <2>1. c.reads # <<>> /\ Fits(ToSet(found), c) /\ next = Append(found, new) BY <1>3 DEF Take
  <2>2. c.reads[1] \in Read BY <2>1 DEF MatchOf
  <2>3. new \in T BY <2>2 DEF FoundOf, MatchOf
  <2> HIDE DEF new, next
  <2>4. /\ next \in Seq(T) /\ Len(next) = Len(found) + 1
        /\ \A i \in 1..Len(found) : next[i] = found[i]
        /\ next[Len(found) + 1] = new
    BY <2>1, <2>3
  <2>5. DOMAIN next = 1..(Len(found) + 1) BY <2>4
  <2>6. ASSUME NEW i \in 1..Len(found) PROVE Apart(found[i], new) /\ Apart(new, found[i])
    BY <1>1, <2>1 DEF ToSet, Fits, FreeToItsEnd, Free, Apart, new
  <2>7. ReadApart(next)
    <3> SUFFICES ASSUME NEW i \in 1..(Len(found) + 1), NEW j \in 1..(Len(found) + 1), i # j
                 PROVE  Apart(next[i], next[j])
      BY <2>5 DEF ReadApart
    <3>1. CASE i \in 1..Len(found) /\ j \in 1..Len(found) BY <1>1, <2>4, <3>1 DEF ReadApart
    <3>2. CASE i = Len(found) + 1 BY <1>1, <2>4, <2>6, <3>2
    <3>3. CASE j = Len(found) + 1 BY <1>1, <2>4, <2>6, <3>3
    <3> QED BY <1>1, <3>1, <3>2, <3>3
  <2> QED BY <1>1, <2>4, <2>7 DEF next
<1> QED BY <1>2, <1>3

\* The readings of all matches: those before stay as they were, and no two overlap.
LEMMA ReadAfterFacts ==
    ASSUME NEW Read, NEW T, FoundOf(Read) \subseteq T, NEW cs \in MatchesOf(Read),
           NEW found \in Seq(T), ReadApart(found)
    PROVE  /\ ReadAfter(found, cs) \in Seq(T)
           /\ ReadApart(ReadAfter(found, cs))
           /\ Len(found) <= Len(ReadAfter(found, cs))
           /\ \A i \in 1..Len(found) : ReadAfter(found, cs)[i] = found[i]
<1> DEFINE N == Len(cs)
           Whole(f) == f = [n \in 0..N |-> IF n = 0 THEN found ELSE Take(f[n - 1], cs[n])]
           g == [p \in (1..N) \X {f \in Seq(T) : ReadApart(f)} |-> Take(p[2], cs[p[1]])]
           R == {f \in Seq(T) : ReadApart(f)}
<1>1. N \in Nat /\ \A n \in 1..N : cs[n] \in MatchOf(Read) BY SeqIn DEF MatchesOf
<1>2. g \in [(1..N) \X R -> R] BY <1>1, TakeKeeps
<1> HIDE DEF N
<1>3. found \in R OBVIOUS
<1>4. PICK f : Iterates(f, N, R, found, g)
  <2> HIDE DEF g, R
  <2> QED BY <1>1, <1>2, <1>3, Iterated
<1>5. f \in [0..N -> R] /\ f[0] = found /\ \A n \in 1..N : f[n] = Take(f[n - 1], cs[n])
  <2>1. f \in [0..N -> R] /\ f[0] = found /\ \A n \in 1..N : f[n] = g[<<n, f[n - 1]>>]
    <3> HIDE DEF g, R
    <3> QED BY <1>4 DEF Iterates
  <2>2. \A n \in 1..N : f[n - 1] \in R
    <3> HIDE DEF g, R
    <3> QED BY <1>1, <2>1
  <2>3. \A n \in 1..N : f[n] = Take(f[n - 1], cs[n]) BY <2>1, <2>2
  <2> QED BY <2>1, <2>3
<1>6. Whole(f)
  <2> HIDE DEF g, R
  <2>1. \A n \in 0..N : f[n] = IF n = 0 THEN found ELSE Take(f[n - 1], cs[n]) BY <1>1, <1>5
  <2> QED BY <1>5, <2>1
<1> DEFINE to == CHOOSE h : Whole(h)
<1>7. Whole(to)
  <2> HIDE DEF Whole
  <2> QED BY <1>6
<1>8. to = [n \in 0..N |-> IF n = 0 THEN found ELSE Take(to[n - 1], cs[n])]
  <2> HIDE DEF to
  <2> QED BY <1>7
<1>9. ReadAfter(found, cs) = to[N] BY DEF ReadAfter, N
<1> HIDE DEF to, Whole, g
<1> DEFINE Good(h) == /\ h \in R /\ Len(found) <= Len(h)
                      /\ \A i \in 1..Len(found) : h[i] = found[i]
           P == {n \in 0..N : Good(to[n])}
<1>10. 0 \in P BY <1>1, <1>3, <1>8, SeqIn
<1>11. ASSUME NEW n \in 1..N, n - 1 \in P PROVE n \in P
  <2>1. Good(to[n - 1]) BY <1>11
  <2>2. to[n] = Take(to[n - 1], cs[n]) BY <1>1, <1>8
  <2> DEFINE was == to[n - 1]
             now == to[n]
  <2>3. now = Take(was, cs[n]) /\ was \in Seq(T) /\ ReadApart(was) /\ Len(found) <= Len(was)
        /\ \A i \in 1..Len(found) : was[i] = found[i]
    BY <2>1, <2>2
  <2> HIDE DEF was, now, P
  <2> DEFINE c == cs[n]
  <2>7. c \in MatchOf(Read) BY <1>1
  <2>8. now = Take(was, c) BY <2>3
  <2> HIDE DEF c
  <2>9. FoundOf(Read) \subseteq T OBVIOUS
  <2>4. /\ now \in Seq(T) /\ ReadApart(now) /\ Len(was) <= Len(now)
        /\ \A i \in 1..Len(was) : now[i] = was[i]
    <3>1. was \in Seq(T) /\ ReadApart(was) BY <2>3
    <3>2. /\ Take(was, c) \in Seq(T) /\ ReadApart(Take(was, c))
          /\ Len(was) <= Len(Take(was, c)) /\ \A i \in 1..Len(was) : Take(was, c)[i] = was[i]
      BY <2>7, <2>9, <3>1, TakeKeeps
    <3> QED BY <2>8, <3>2
  <2>5. Len(found) \in Nat /\ Len(was) \in Nat /\ Len(now) \in Nat BY <2>3, <2>4, SeqIn
  <2>6. Good(now) BY <2>3, <2>4, <2>5
  <2> QED BY <1>1, <2>6 DEF P, now
<1> HIDE DEF P
<1>12. \A n \in 0..N : n \in P BY <1>1, <1>10, <1>11, CountsUpTo
<1>13. Good(to[N]) BY <1>1, <1>12 DEF P
<1> QED BY <1>9, <1>13

\* Sorted by where they start, no reading is lost and none shown twice.
LEMMA ByStartFacts ==
    ASSUME NEW T, NEW found \in Seq(T), \A i \in DOMAIN found : found[i].from \in Nat
    PROVE  /\ ByStart(found) \in Seq(T) /\ Len(ByStart(found)) = Len(found)
           /\ \E p \in [1..Len(found) -> 1..Len(found)] :
                 /\ \A i \in 1..Len(found) : ByStart(found)[i] = found[p[i]]
                 /\ \A i, j \in 1..Len(found) : i # j => p[i] # p[j]
<1> DEFINE N == Len(found)
           S == 1..N
           R == StartsBefore(found)
           at(n) == CHOOSE i \in DOMAIN found :
                Cardinality({j \in DOMAIN found : <<j, i>> \in R}) = n - 1
           p == [n \in S |-> at(n)]
<1>1. N \in Nat /\ DOMAIN found = S /\ \A i \in S : found[i] \in T /\ found[i].from \in Nat
  BY SeqIn
<1>2. StrictlyOrders(R, S)
  <2>1. \A i, j \in S : <<i, j>> \in R <=>
            (found[i].from < found[j].from \/ (found[i].from = found[j].from /\ i < j))
    BY <1>1 DEF StartsBefore
  <2> HIDE DEF R
  <2>2. \A x \in S : <<x, x>> \notin R BY <1>1, <2>1
  <2>3. \A x, y, z \in S : <<x, y>> \in R /\ <<y, z>> \in R => <<x, z>> \in R BY <1>1, <2>1
  <2>4. ASSUME NEW x \in S, NEW y \in S PROVE x = y \/ <<x, y>> \in R \/ <<y, x>> \in R
    <3>1. x \in Int /\ y \in Int /\ found[x].from \in Int /\ found[y].from \in Int BY <1>1
    <3> QED BY <2>1, <3>1
  <2> QED BY <2>2, <2>3, <2>4 DEF StrictlyOrders
<1>3. IsFiniteSet(S) /\ Cardinality(S) = N
  <2> HIDE DEF N, R, at
  <2>1. IsFiniteSet(1..N) /\ Cardinality(1..N) = IF 1 > N THEN 0 ELSE N - 1 + 1
    BY <1>1, FS_Interval
  <2> QED BY <1>1, <2>1
<1>4. \A i \in S : Below(R, S, i) = {j \in DOMAIN found : <<j, i>> \in R} BY <1>1 DEF Below
<1> HIDE DEF R, S
<1>5. \A n \in 1..N : \E i \in S : Cardinality(Below(R, S, i)) = n - 1 BY <1>2, <1>3, RankTaken
<1>6. ASSUME NEW n \in S
      PROVE  at(n) \in S /\ Cardinality(Below(R, S, at(n))) = n - 1
  BY <1>1, <1>4, <1>5 DEF S
<1> HIDE DEF at
<1>7. p \in [S -> S] /\ \A n \in S : p[n] = at(n) BY <1>6
<1>8. \A i, j \in S : i # j => p[i] # p[j]
  <2> SUFFICES ASSUME NEW i \in S, NEW j \in S, p[i] = p[j] PROVE i = j OBVIOUS
  <2>1. i - 1 = j - 1 BY <1>6, <1>7
  <2> QED BY <1>1, <2>1 DEF S
<1>9. ByStart(found) = [n \in S |-> found[at(n)]] BY <1>1 DEF ByStart, at, R
<1>10. \A n \in S : found[at(n)] \in T BY <1>1, <1>6
<1> HIDE DEF p
<1>11. ByStart(found) \in [S -> T] BY <1>9, <1>10
<1>12. ByStart(found) \in Seq(T) /\ Len(ByStart(found)) = N BY <1>1, <1>11, LengthOf DEF S
<1>13. \A i \in S : ByStart(found)[i] = found[p[i]] BY <1>7, <1>9
<1> QED BY <1>7, <1>8, <1>12, <1>13 DEF S

\* What the patterns match in a claim, quantities and dates.
LEMMA MatchesTyped ==
    ASSUME NEW s \in Statements, NEW at \in AssertedAt
    PROVE  /\ NumbersRead(s) \in MatchesOf(QuantitiesRead)
           /\ YearsRead(s, at) \in MatchesOf(DatesRead)
<1>1. /\ \A m \in {s.percentages, s.ranges, s.spelledOut, s.numbers} : m \in MatchesOf(QuantitiesRead)
      /\ \A m \in {s.quarters, s.monthsOfYears, s.fullDates, s.months, s.years} :
            m \in MatchesOf(DatesRead)
      /\ \A i \in DOMAIN s.months : s.months[i].reads # <<>>
  BY JudgingAssumption
<1> DEFINE Q == MatchOf(QuantitiesRead)
           D == MatchOf(DatesRead)
           months == [i \in DOMAIN s.months |-> [s.months[i] EXCEPT !.reads[1].year = YearOf[at]]]
<1>2. NumbersRead(s) \in MatchesOf(QuantitiesRead)
  <2>1. /\ s.percentages \in Seq(Q) /\ s.ranges \in Seq(Q) /\ s.spelledOut \in Seq(Q)
        /\ s.numbers \in Seq(Q)
    BY <1>1 DEF MatchesOf
  <2> HIDE DEF Q
  <2>2. ((s.percentages \o s.ranges) \o s.spelledOut) \o s.numbers \in Seq(Q) BY <2>1
  <2> QED BY <2>2 DEF NumbersRead, WordsRead, RangesRead, PercentagesRead, MatchesOf, Q
<1>3. /\ s.quarters \in Seq(D) /\ s.monthsOfYears \in Seq(D) /\ s.fullDates \in Seq(D)
      /\ s.years \in Seq(D) /\ s.months \in Seq(D)
  BY <1>1 DEF MatchesOf
<1>4. ASSUME at # 0 PROVE months \in Seq(D)
  <2>1. YearOf[at] \in Nat BY <1>4, JudgingAssumption
  <2>2. ASSUME NEW i \in DOMAIN s.months PROVE months[i] \in D
    <3> DEFINE c == s.months[i]
               d == c.reads[1]
               e == [d EXCEPT !.year = YearOf[at]]
               r == [c.reads EXCEPT ![1] = e]
    <3>1. c \in D
      <4> HIDE DEF D
      <4> QED BY <1>3, SeqIn
    <3>2. c.reads \in Seq(DatesRead) /\ c.reads # <<>> BY <1>1, <3>1 DEF MatchOf
    <3>3. d \in DatesRead /\ 1 \in DOMAIN c.reads BY <3>2
    <3>4. e \in DatesRead BY <2>1, <3>3 DEF DatesRead
    <3>5. r \in Seq(DatesRead)
      <4> HIDE DEF e, c
      <4> QED BY <3>2, <3>3, <3>4
    <3>6. months[i] = [c EXCEPT !.reads = r] OBVIOUS
    <3> HIDE DEF r
    <3>7. [c EXCEPT !.reads = r] \in D BY <3>1, <3>5 DEF MatchOf
    <3> QED BY <3>6, <3>7
  <2>3. DOMAIN s.months = 1..Len(s.months) /\ Len(s.months) \in Nat BY <1>3, SeqIn
  <2>4. months \in [1..Len(s.months) -> D]
    <3>1. DOMAIN months = 1..Len(s.months) BY <2>3
    <3> HIDE DEF D
    <3> QED BY <2>2, <2>3
  <2> HIDE DEF months, D
  <2> QED BY <2>3, <2>4, LengthOf
<1>5. YearsRead(s, at) \in MatchesOf(DatesRead)
  <2> HIDE DEF D, months
  <2>1. DatedRead(s) \in Seq(D) BY <1>3 DEF DatedRead
  <2>2. MonthsRead(s, at) \in Seq(D)
    <3>1. CASE at = 0 BY <2>1, <3>1 DEF MonthsRead
    <3>2. CASE at # 0 BY <1>4, <2>1, <3>2 DEF MonthsRead, months
    <3> QED BY <3>1, <3>2
  <2>3. YearsRead(s, at) \in Seq(D)
    <3>1. CASE s.event BY <1>3, <2>2, <3>1 DEF YearsRead
    <3>2. CASE ~s.event BY <2>2, <3>2 DEF YearsRead
    <3> QED BY <3>1, <3>2
  <2> QED BY <2>3 DEF MatchesOf, D
<1> QED BY <1>2, <1>5

\* Sorting keeps readings apart.
LEMMA SortedApart ==
    ASSUME NEW T, NEW found \in Seq(T), \A i \in DOMAIN found : found[i].from \in Nat,
           ReadApart(found)
    PROVE  ReadApart(ByStart(found))
<1>1. DOMAIN found = 1..Len(found) BY SeqIn
<1>2. ByStart(found) \in Seq(T) /\ Len(ByStart(found)) = Len(found) BY ByStartFacts
<1>3. DOMAIN ByStart(found) = 1..Len(found) BY <1>2, SeqIn
<1>4. PICK p \in [1..Len(found) -> 1..Len(found)] :
        /\ \A i \in 1..Len(found) : ByStart(found)[i] = found[p[i]]
        /\ \A i, j \in 1..Len(found) : i # j => p[i] # p[j]
  BY ByStartFacts
<1> SUFFICES ASSUME NEW i \in 1..Len(found), NEW j \in 1..Len(found), i # j
             PROVE  Apart(ByStart(found)[i], ByStart(found)[j])
  BY <1>3 DEF ReadApart
<1>5. p[i] \in DOMAIN found /\ p[j] \in DOMAIN found /\ p[i] # p[j] BY <1>1, <1>4
<1>6. Apart(found[p[i]], found[p[j]]) BY <1>5 DEF ReadApart
<1> QED BY <1>4, <1>6

\* The quantities and the dates of a claim, and that no two of them overlap.
LEMMA Readings ==
    ASSUME NEW s \in Statements, NEW at \in AssertedAt
    PROVE  /\ FoundQuantities(s) \in Seq(FoundOf(QuantitiesRead))
           /\ FoundDates(s, at) \in Seq(FoundOf(QuantitiesRead) \cup FoundOf(DatesRead))
           /\ ReadApart(FoundQuantities(s) \o FoundDates(s, at))
<1> DEFINE A == FoundOf(QuantitiesRead)
           B == FoundOf(QuantitiesRead) \cup FoundOf(DatesRead)
           q == FoundQuantities(s)
           read == ReadAfter(<<>>, NumbersRead(s))
           all == ReadAfter(q, YearsRead(s, at))
           rest == SubSeq(all, Len(q) + 1, Len(all))
           d == FoundDates(s, at)
<1>1. NumbersRead(s) \in MatchesOf(QuantitiesRead) /\ YearsRead(s, at) \in MatchesOf(DatesRead)
  BY MatchesTyped
<1>2. \A x \in B : x.from \in Nat BY DEF FoundOf
<1>3. q = ByStart(read) /\ d = ByStart(rest) BY DEF FoundQuantities, FoundDates, DatesBeside
<1>4. read \in Seq(A) /\ ReadApart(read)
  <2>1. <<>> \in Seq(A) /\ ReadApart(<<>>) /\ FoundOf(QuantitiesRead) \subseteq A
    BY DEF ReadApart
  <2> HIDE DEF A, read
  <2> QED BY <1>1, <2>1, ReadAfterFacts DEF read
<1> HIDE DEF A, B, q, d, read, all
<1>5. q \in Seq(A) /\ ReadApart(q)
  <2>1. \A i \in DOMAIN read : read[i].from \in Nat BY <1>2, <1>4, SeqIn DEF A, B
  <2> QED BY <1>3, <1>4, <2>1, ByStartFacts, SortedApart
<1>6. /\ all \in Seq(B) /\ ReadApart(all) /\ Len(q) <= Len(all)
      /\ \A i \in 1..Len(q) : all[i] = q[i]
  <2>1. q \in Seq(B) /\ FoundOf(DatesRead) \subseteq B BY <1>5 DEF A, B
  <2> QED BY <1>1, <1>5, <2>1, ReadAfterFacts DEF all
<1>7. /\ Len(q) \in Nat /\ DOMAIN q = 1..Len(q) /\ Len(all) \in Nat /\ DOMAIN all = 1..Len(all)
      /\ \A i \in DOMAIN all : all[i] \in B
  BY <1>5, <1>6, SeqIn
<1> DEFINE n == Len(q)
           m == Len(all) - Len(q)
<1>8. m \in Nat /\ rest \in Seq(B) /\ Len(rest) = m /\ \A i \in 1..m : rest[i] = all[n + i]
  <2>1. n \in Nat /\ Len(all) \in Nat /\ n <= Len(all) BY <1>6, <1>7
  <2>2. n + 1 \in 1..(Len(all) + 1) /\ Len(all) \in (n + 1 - 1)..Len(all) BY <2>1
  <2>3. /\ rest \in Seq(B) /\ Len(rest) = Len(all) - (n + 1) + 1
        /\ \A i \in 1..(Len(all) - (n + 1) + 1) : rest[i] = all[(n + 1) + i - 1]
    <3> HIDE DEF n
    <3> QED BY <1>6, <2>2, SubSeqProperties DEF n
  <2>4. m \in Nat /\ Len(all) - (n + 1) + 1 = m BY <2>1
  <2>5. \A i \in 1..m : (n + 1) + i - 1 = n + i BY <2>1, <2>4
  <2> HIDE DEF n, m, rest
  <2> QED BY <2>3, <2>4, <2>5
<1> HIDE DEF rest
<1>9. DOMAIN rest = 1..m BY <1>8, SeqIn
<1> HIDE DEF n, m
<1>10. \A i \in 1..m : n + i \in 1..Len(all) /\ n + i > n /\ rest[i] = all[n + i]
  BY <1>6, <1>7, <1>8 DEF n, m
<1>11. \A i \in DOMAIN rest : rest[i].from \in Nat BY <1>2, <1>7, <1>9, <1>10
<1>12. d \in Seq(B) /\ Len(d) = m BY <1>3, <1>8, <1>11, ByStartFacts
<1>13. PICK p \in [1..m -> 1..m] : /\ \A i \in 1..m : d[i] = rest[p[i]]
                                   /\ \A i, j \in 1..m : i # j => p[i] # p[j]
  <2>1. \E p \in [1..Len(rest) -> 1..Len(rest)] :
            /\ \A i \in 1..Len(rest) : ByStart(rest)[i] = rest[p[i]]
            /\ \A i, j \in 1..Len(rest) : i # j => p[i] # p[j]
    <3>1. rest \in Seq(B) /\ \A i \in DOMAIN rest : rest[i].from \in Nat BY <1>8, <1>11
    <3> QED BY <3>1, ByStartFacts
  <2> QED BY <1>3, <1>8, <2>1
<1> DEFINE both == q \o d
<1>14. /\ n \in Nat /\ m \in Nat /\ DOMAIN both = 1..(n + m)
       /\ \A i \in 1..(n + m) : both[i] = IF i <= n THEN q[i] ELSE d[i - n]
  <2>1. q \in Seq(B) BY <1>5 DEF A, B
  <2>2. n \in Nat /\ m \in Nat /\ Len(q) = n /\ Len(d) = m BY <1>7, <1>8, <1>12 DEF n
  <2>3. /\ Len(both) = n + m
        /\ \A i \in 1..(n + m) : both[i] = IF i <= n THEN q[i] ELSE d[i - n]
    <3>1. /\ Len(q \o d) = Len(q) + Len(d)
          /\ \A i \in 1..(Len(q) + Len(d)) : (q \o d)[i] = IF i <= Len(q) THEN q[i] ELSE d[i - Len(q)]
      BY <1>12, <2>1, ConcatProperties
    <3> QED BY <2>2, <3>1 DEF both
  <2>4. both \in Seq(B) BY <1>12, <2>1
  <2> QED BY <2>2, <2>3, <2>4, SeqIn
<1> HIDE DEF both
<1> DEFINE place(i) == IF i <= n THEN i ELSE n + p[i - n]
<1>15. ASSUME NEW i \in 1..(n + m)
       PROVE  /\ place(i) \in DOMAIN all /\ both[i] = all[place(i)]
              /\ i <= n <=> place(i) <= n
  <2>1. CASE i <= n BY <1>6, <1>7, <1>14, <2>1 DEF n
  <2>2. CASE ~(i <= n)
    <3>1. i - n \in 1..m BY <1>14, <2>2
    <3>2. p[i - n] \in 1..m BY <1>13, <3>1
    <3>3. both[i] = d[i - n] /\ d[i - n] = rest[p[i - n]] /\ rest[p[i - n]] = all[n + p[i - n]]
      BY <1>10, <1>13, <1>14, <2>2, <3>1, <3>2
    <3>4. n + p[i - n] \in 1..Len(all) /\ ~(n + p[i - n] <= n)
      <4> DEFINE k == p[i - n]
      <4> HIDE DEF k
      <4>1. k \in 1..m BY <3>2 DEF k
      <4>2. n + k \in 1..Len(all) /\ n + k > n BY <1>10, <4>1
      <4>3. ~(n + k <= n) BY <1>14, <4>1
      <4> QED BY <4>2, <4>3 DEF k
    <3> QED BY <1>7, <2>2, <3>3, <3>4
  <2> QED BY <2>1, <2>2
<1>16. ASSUME NEW i \in 1..(n + m), NEW j \in 1..(n + m), i # j PROVE place(i) # place(j)
  <2>1. CASE i <= n \/ j <= n BY <1>15, <1>16, <2>1
  <2>2. CASE ~(i <= n) /\ ~(j <= n) BY <1>13, <1>14, <1>16, <2>2
  <2> QED BY <2>1, <2>2
<1> HIDE DEF place
<1>17. ReadApart(both)
  <2> SUFFICES ASSUME NEW i \in 1..(n + m), NEW j \in 1..(n + m), i # j
               PROVE  Apart(both[i], both[j])
    BY <1>14 DEF ReadApart
  <2>1. Apart(all[place(i)], all[place(j)]) BY <1>6, <1>15, <1>16 DEF ReadApart
  <2> QED BY <1>15, <2>1
<1> QED BY <1>5, <1>12, <1>17 DEF A, B, q, d, both

-----------------------------------------------------------------------------
(* What is compared.                                                        *)

\* Quantities of a claim are quantities, and its dates a sequence.
LEMMA ReadingsTyped ==
    ASSUME NEW s \in Statements, NEW at \in AssertedAt
    PROVE  /\ QuantitiesOf(s) \subseteq QuantitiesRead
           /\ \E S : DatesOf(s, at) \in Seq(S)
<1>1. /\ FoundQuantities(s) \in Seq(FoundOf(QuantitiesRead))
      /\ FoundDates(s, at) \in Seq(FoundOf(QuantitiesRead) \cup FoundOf(DatesRead))
  BY Readings
<1>2. QuantitiesOf(s) \subseteq QuantitiesRead
  <2> SUFFICES ASSUME NEW f \in ToSet(FoundQuantities(s)) PROVE f.is \in QuantitiesRead
    BY DEF QuantitiesOf
  <2>1. PICK i \in DOMAIN FoundQuantities(s) : f = FoundQuantities(s)[i] BY DEF ToSet
  <2>2. f \in FoundOf(QuantitiesRead) BY <1>1, <2>1, SeqIn
  <2> QED BY <2>2 DEF FoundOf
<1>3. \E S : DatesOf(s, at) \in Seq(S)
  <2> DEFINE found == FoundDates(s, at)
             T == FoundOf(QuantitiesRead) \cup FoundOf(DatesRead)
             S == QuantitiesRead \cup DatesRead
  <2>1. Len(found) \in Nat /\ DOMAIN found = 1..Len(found) /\ \A i \in DOMAIN found : found[i] \in T
    BY <1>1, SeqIn
  <2>2. \A i \in DOMAIN found : found[i].is \in S BY <2>1 DEF FoundOf
  <2>3. DatesOf(s, at) = [i \in 1..Len(found) |-> found[i].is] BY <2>1 DEF DatesOf, ReadingsOf
  <2> HIDE DEF found, S
  <2>4. DatesOf(s, at) \in [1..Len(found) -> S] BY <2>1, <2>2, <2>3
  <2> QED BY <2>1, <2>4, LengthOf
<1> QED BY <1>2, <1>3

\* Comparing does not ask which side is first.
LEMMA ComparedBothWays ==
    ASSUME NEW x \in QuantitiesRead, NEW y \in QuantitiesRead
    PROVE  /\ Comparable(x, y) <=> Comparable(y, x)
           /\ Alike(x, y) <=> Alike(y, x)
           /\ ValuesMatch(x, y) <=> ValuesMatch(y, x)
<1>1. x.low \in Int /\ x.high \in Int /\ y.low \in Int /\ y.high \in Int BY DEF QuantitiesRead
<1>2. Comparable(x, y) <=> Comparable(y, x) BY DEF Comparable, SameDimension, HeadsCompatible
<1>3. Alike(x, y) <=> Alike(y, x) BY DEF Alike, SameDimension, HeadsCompatible
<1>4. Larger(x.low, y.low) = Larger(y.low, x.low) /\ Smaller(x.high, y.high) = Smaller(y.high, x.high)
  BY <1>1 DEF Larger, Smaller
<1>5. \A a, b \in Int : WithinTolerance(a, b) <=> WithinTolerance(b, a)
  BY DEF WithinTolerance, Magnitude, Larger
<1>6. ValuesMatch(x, y) <=> ValuesMatch(y, x)
  <2> DEFINE low == Larger(x.low, y.low)
             high == Smaller(x.high, y.high)
  <2>1. ValuesMatch(x, y) <=> IF IsInterval(x) \/ IsInterval(y)
                              THEN low <= high \/ WithinTolerance(low, high)
                              ELSE WithinTolerance(x.low, y.low)
    BY DEF ValuesMatch
  <2>2. ValuesMatch(y, x) <=> IF IsInterval(y) \/ IsInterval(x)
                              THEN low <= high \/ WithinTolerance(low, high)
                              ELSE WithinTolerance(y.low, x.low)
    BY <1>4 DEF ValuesMatch
  <2>3. WithinTolerance(x.low, y.low) <=> WithinTolerance(y.low, x.low) BY <1>1, <1>5
  <2> QED BY <2>1, <2>2, <2>3
<1> QED BY <1>2, <1>3, <1>6

\* A quantity is its own match.
LEMMA MatchesItself ==
    ASSUME NEW x \in QuantitiesRead
    PROVE  Comparable(x, x) /\ ValuesMatch(x, x)
<1>1. x.low \in Int /\ x.high \in Int /\ x.low <= x.high BY DEF QuantitiesRead
<1>2. Comparable(x, x) BY DEF Comparable, SameDimension, HeadsCompatible
<1>3. Larger(x.low, x.low) = x.low /\ Smaller(x.high, x.high) = x.high BY DEF Larger, Smaller
<1>4. WithinTolerance(x.low, x.low) BY <1>1 DEF WithinTolerance, Magnitude, Larger
<1>5. ValuesMatch(x, x) BY <1>1, <1>3, <1>4 DEF ValuesMatch
<1> QED BY <1>2, <1>5

\* Two sets of quantities conflict whichever is named first.
LEMMA ConflictBothWays ==
    ASSUME NEW A \in SUBSET QuantitiesRead, NEW B \in SUBSET QuantitiesRead
    PROVE  NumbersConflict(A, B) = NumbersConflict(B, A)
<1>1. ComparableAmong(A, B) \cup ComparableAmong(B, A) = ComparableAmong(B, A) \cup ComparableAmong(A, B)
  OBVIOUS
<1>2. \A X, Y : Unmatched(X, Y) <=> Unmatched(Y, X) BY DEF Unmatched, UnmatchedOneWay
<1> DEFINE left == ComparableAmong(A, B)
           right == ComparableAmong(B, A)
<1>3. NumbersConflict(A, B) = IF left \cup right = {} THEN "none"
                              ELSE IF Unmatched(left, right) THEN "conflict" ELSE "agree"
  BY DEF NumbersConflict
<1>4. NumbersConflict(B, A) = IF right \cup left = {} THEN "none"
                              ELSE IF Unmatched(right, left) THEN "conflict" ELSE "agree"
  BY DEF NumbersConflict
<1> HIDE DEF left, right
<1> QED BY <1>1, <1>2, <1>3, <1>4

\* Two sets of quantities differ whichever is named first.
LEMMA DifferBothWays ==
    ASSUME NEW A \in SUBSET QuantitiesRead, NEW B \in SUBSET QuantitiesRead
    PROVE  NumbersDiffer(A, B) <=> NumbersDiffer(B, A)
BY ConflictBothWays, ComparedBothWays DEF NumbersDiffer

\* No set of quantities differs from itself.
LEMMA SameDiffersNot ==
    ASSUME NEW A \in SUBSET QuantitiesRead
    PROVE  ~NumbersDiffer(A, A)
<1>1. \A x \in A : Comparable(x, x) /\ ValuesMatch(x, x) BY MatchesItself
<1>2. ~Unmatched(ComparableAmong(A, A), ComparableAmong(A, A))
  BY <1>1 DEF ComparableAmong, Matched, Unmatched, UnmatchedOneWay
<1>3. NumbersConflict(A, A) # "conflict" BY <1>2 DEF NumbersConflict
<1>4. ASSUME NEW x \in A, NEW y \in A, Alike(x, y)
      PROVE  Alike(x, x)
  BY DEF Alike, SameDimension, HeadsCompatible
<1>5. ~(\E x \in A, y \in A : Alike(x, y)) \/ ~(\A x \in A, y \in A : Alike(x, y) => ~ValuesMatch(x, y))
  BY <1>1, <1>4
<1> QED BY <1>3, <1>5 DEF NumbersDiffer

\* Dates conflict whichever statement is named first.
LEMMA DatesBothWays ==
    ASSUME NEW a, NEW b, NEW s, NEW t
    PROVE  DatesConflict(a, b, s, t) <=> DatesConflict(b, a, t, s)
BY DEF DatesConflict, LeaveIncompatible, Compatible

\* A word occurs a number of times.
LEMMA OccursOften ==
    ASSUME NEW S, NEW s \in Seq(S), NEW w
    PROVE  Occurs(s, w) \in Nat
<1>1. DOMAIN s = 1..Len(s) /\ Len(s) \in Nat BY SeqIn
<1>2. IsFiniteSet(1..Len(s)) BY <1>1, FS_Interval
<1>3. IsFiniteSet({i \in DOMAIN s : s[i] = w}) BY <1>1, <1>2, FS_Subset
<1> QED BY <1>3, FS_CardinalityType DEF Occurs

\* A statement's dates do not conflict with those of its repetition at the same time.
LEMMA SameDatesConflictNot ==
    ASSUME NEW a \in Statements, NEW at \in AssertedAt
    PROVE  ~DatesConflict(a, a, at, at)
<1>1. PICK S : DatesOf(a, at) \in Seq(S) BY ReadingsTyped
<1>2. \A d : ~(Occurs(DatesOf(a, at), d) > Occurs(DatesOf(a, at), d))
  <2> TAKE d
  <2>1. Occurs(DatesOf(a, at), d) \in Nat BY <1>1, OccursOften
  <2> QED BY <2>1
<1>3. Unstruck(DatesOf(a, at), DatesOf(a, at)) = {} BY <1>2 DEF Unstruck
<1> QED BY <1>3 DEF DatesConflict, LeaveIncompatible

\* Two texts share the words they share, whichever is first.
LEMMA OverlapBothWays ==
    ASSUME NEW a \in Statements, NEW b \in Statements, NEW percent \in Nat
    PROVE  OverlapsBy(a, b, percent) <=> OverlapsBy(b, a, percent)
<1> DEFINE v == a.words
           w == b.words
<1>1. v \in Seq(STRING) /\ w \in Seq(STRING) BY JudgingAssumption
<1>2. Len(v) \in Nat /\ Len(w) \in Nat BY <1>1
<1>3. \A x : Occurs(v, x) \in Nat /\ Occurs(w, x) \in Nat BY <1>1, OccursOften
<1> HIDE DEF v, w
<1>4. SharedWords(v, w) = SharedWords(w, v)
  <2>1. Smaller(Len(v), Len(w)) = Smaller(Len(w), Len(v)) BY <1>2 DEF Smaller
  <2>2. \A x : Smaller(Occurs(v, x), Occurs(w, x)) = Smaller(Occurs(w, x), Occurs(v, x))
    BY <1>3 DEF Smaller
  <2>3. ToSet(v) \cap ToSet(w) = ToSet(w) \cap ToSet(v) OBVIOUS
  <2>4. {p \in (ToSet(v) \cap ToSet(w)) \X (1..Smaller(Len(v), Len(w))) :
             p[2] <= Smaller(Occurs(v, p[1]), Occurs(w, p[1]))}
        = {p \in (ToSet(w) \cap ToSet(v)) \X (1..Smaller(Len(w), Len(v))) :
             p[2] <= Smaller(Occurs(w, p[1]), Occurs(v, p[1]))}
    BY <2>1, <2>2, <2>3
  <2> QED BY <2>4 DEF SharedWords
<1>5. Len(v) + Len(w) = Len(w) + Len(v) BY <1>2
<1> QED BY <1>4, <1>5 DEF OverlapsBy, v, w

-----------------------------------------------------------------------------
(* What follows.                                                            *)

Pair == [a : Statements, b : Statements, idA : {1, 2}, idB : {1, 2}, atA : AssertedAt,
         atB : AssertedAt, similarity : Similarities]

\* Which side is first does not matter once the signals are the same.
LEMMA RelatedBothWays ==
    ASSUME NEW p \in Pair, p.idA # p.idB, NEW differ \in BOOLEAN, NEW dates \in BOOLEAN,
           NEW negation \in BOOLEAN
    PROVE  RelationOf(Mirrored(p), differ, dates, negation) = RelationOf(p, differ, dates, negation)
<1> DEFINE m == Mirrored(p)
           fired == {f \in {"number", "date", "negation"} :
                    CASE f = "number" -> differ [] f = "date" -> dates [] f = "negation" -> negation}
           n == Cardinality(fired)
           found(kind, id) == [relation |-> kind, newer |-> id, fired |-> n]
           Way(deferred, related, half, ordered, cue, similar, id) ==
             IF deferred THEN None
             ELSE IF fired # {} /\ related
             THEN IF ordered /\ (dates \/ differ) /\ cue
                  THEN found("supersedes", id)
                  ELSE found("contradicts", 0)
             ELSE IF similar /\ ~differ THEN found("duplicate", 0)
             ELSE IF half /\ fired = {} THEN found("supports", 0)
             ELSE None
           cueOf(q) == IF NewerOf(q) = "a" THEN q.a.cue ELSE q.b.cue
           idOf(q) == IF NewerOf(q) = "a" THEN q.idA ELSE q.idB
           orderedOf(q) == q.atA # 0 /\ q.atB # 0 /\ q.atA # q.atB
<1>1. /\ m.a = p.b /\ m.b = p.a /\ m.idA = p.idB /\ m.idB = p.idA /\ m.atA = p.atB /\ m.atB = p.atA
      /\ m.similarity = p.similarity
  BY DEF Mirrored
<1>2. /\ p.a \in Statements /\ p.b \in Statements /\ p.idA \in {1, 2} /\ p.idB \in {1, 2}
      /\ p.atA \in Nat /\ p.atB \in Nat
  BY JudgingAssumption DEF Pair
<1> HIDE DEF m
<1>3. RelationOf(p, differ, dates, negation) =
        Way(DeferToLLM(p.a, p.b), OverlapsBy(p.a, p.b, MinF1), OverlapsBy(p.a, p.b, 50), orderedOf(p),
            cueOf(p), p.similarity >= DupSim, idOf(p))
  BY DEF RelationOf
<1>4. RelationOf(m, differ, dates, negation) =
        Way(DeferToLLM(m.a, m.b), OverlapsBy(m.a, m.b, MinF1), OverlapsBy(m.a, m.b, 50), orderedOf(m),
            cueOf(m), m.similarity >= DupSim, idOf(m))
  BY DEF RelationOf
<1>5. DeferToLLM(p.a, p.b) <=> DeferToLLM(m.a, m.b) BY <1>1 DEF DeferToLLM, NamedApart
<1>6. OverlapsBy(p.a, p.b, MinF1) <=> OverlapsBy(m.a, m.b, MinF1)
  BY <1>1, <1>2, OverlapBothWays, JudgingAssumption
<1>7. OverlapsBy(p.a, p.b, 50) <=> OverlapsBy(m.a, m.b, 50) BY <1>1, <1>2, OverlapBothWays
<1>8. NewerOf(m) = IF NewerOf(p) = "a" THEN "b" ELSE "a" BY <1>1, <1>2 DEF NewerOf
<1>9. NewerOf(p) \in {"a", "b"} BY DEF NewerOf
<1>10. cueOf(m) = cueOf(p) /\ idOf(m) = idOf(p) BY <1>1, <1>8, <1>9
<1>11. orderedOf(m) <=> orderedOf(p) BY <1>1
<1>12. m.similarity >= DupSim <=> p.similarity >= DupSim BY <1>1
<1> HIDE DEF cueOf, idOf, orderedOf, found, fired, n
<1> QED BY <1>3, <1>4, <1>5, <1>6, <1>7, <1>10, <1>11, <1>12 DEF m

\* The heuristic judges a pair as it judges its mirror image.
LEMMA JudgedBothWays ==
    ASSUME NEW p \in Pair, p.idA # p.idB
    PROVE  HeuristicRelation(Mirrored(p)) = HeuristicRelation(p)
<1> DEFINE differ == NumbersDiffer(QuantitiesOf(p.a), QuantitiesOf(p.b))
           dates == DatesConflict(p.a, p.b, p.atA, p.atB)
           negation == NegationAsymmetry(p.a, p.b)
           m == Mirrored(p)
<1>1. /\ m.a = p.b /\ m.b = p.a /\ m.atA = p.atB /\ m.atB = p.atA BY DEF Mirrored
<1>2. p.a \in Statements /\ p.b \in Statements /\ p.atA \in AssertedAt /\ p.atB \in AssertedAt
  BY DEF Pair
<1>3. QuantitiesOf(p.a) \in SUBSET QuantitiesRead /\ QuantitiesOf(p.b) \in SUBSET QuantitiesRead
  BY <1>2, ReadingsTyped
<1> HIDE DEF m
<1>4. differ <=> NumbersDiffer(QuantitiesOf(m.a), QuantitiesOf(m.b))
  BY <1>1, <1>3, DifferBothWays
<1>5. dates <=> DatesConflict(m.a, m.b, m.atA, m.atB) BY <1>1, DatesBothWays
<1>6. negation <=> NegationAsymmetry(m.a, m.b) BY <1>1 DEF NegationAsymmetry
<1>7. differ \in BOOLEAN /\ dates \in BOOLEAN /\ negation \in BOOLEAN
  BY DEF NumbersDiffer, DatesConflict, NegationAsymmetry
<1>8. HeuristicRelation(p) = RelationOf(p, differ, dates, negation) BY DEF HeuristicRelation
<1>9. HeuristicRelation(m) = RelationOf(m, differ, dates, negation)
  BY <1>4, <1>5, <1>6 DEF HeuristicRelation, NumbersDiffer, DatesConflict, NegationAsymmetry
<1> HIDE DEF differ, dates, negation
<1>10. RelationOf(m, differ, dates, negation) = RelationOf(p, differ, dates, negation)
  BY <1>7, RelatedBothWays DEF m
<1> QED BY <1>8, <1>9, <1>10 DEF m

\* What a relation says of the signals.
LEMMA RelationSays ==
    ASSUME NEW p \in Pair, NEW differ \in BOOLEAN, NEW dates \in BOOLEAN, NEW negation \in BOOLEAN
    PROVE  LET r == RelationOf(p, differ, dates, negation).relation IN
           /\ r \in {"none", "supersedes", "contradicts", "duplicate", "supports"}
           /\ r \in {"supersedes", "contradicts"} => differ \/ dates \/ negation
           /\ r \in {"supports", "duplicate"} => ~differ
BY DEF RelationOf, None

JudgingInv == \/ pair = <<>> /\ draft = None
              \/ \E p \in Pair : /\ p.idA # p.idB /\ pair = <<p>>
                                 /\ draft = HeuristicRelation(p)

\* Every pair that was judged is judged alike both ways, and no repetition contradicts.
LEMMA JudgingInvTells ==
    ASSUME JudgingInv PROVE JudgingTells
<1>1. CASE pair = <<>>
  BY <1>1 DEF JudgingTells, JudgedAlikeBothWays, RepeatedIsNoConflict, AgreementAgrees, ReadOnce
<1>2. CASE pair # <<>>
  <2>1. PICK p \in Pair : p.idA # p.idB /\ pair = <<p>> /\ draft = HeuristicRelation(p)
    BY <1>2 DEF JudgingInv
  <2>2. pair[1] = p BY <2>1
  <2> DEFINE differ == NumbersDiffer(QuantitiesOf(p.a), QuantitiesOf(p.b))
             dates == DatesConflict(p.a, p.b, p.atA, p.atB)
             negation == NegationAsymmetry(p.a, p.b)
  <2>3. differ \in BOOLEAN /\ dates \in BOOLEAN /\ negation \in BOOLEAN
    BY DEF NumbersDiffer, DatesConflict, NegationAsymmetry
  <2>4. draft = RelationOf(p, differ, dates, negation) BY <2>1 DEF HeuristicRelation
  <2>5. p.a \in Statements /\ p.b \in Statements /\ p.atA \in AssertedAt /\ p.atB \in AssertedAt
    BY DEF Pair
  <2>6. /\ draft.relation \in {"none", "supersedes", "contradicts", "duplicate", "supports"}
        /\ draft.relation \in {"supersedes", "contradicts"} => differ \/ dates \/ negation
        /\ draft.relation \in {"supports", "duplicate"} => ~differ
    <3> HIDE DEF differ, dates, negation
    <3> QED BY <2>3, <2>4, RelationSays
  <2>7. JudgedAlikeBothWays BY <2>1, <2>2, JudgedBothWays DEF JudgedAlikeBothWays
  <2>8. RepeatedIsNoConflict
    <3> SUFFICES ASSUME p.a = p.b, p.atA = p.atB
                 PROVE  draft.relation \in {"duplicate", "supports", "none"}
      BY <2>2 DEF RepeatedIsNoConflict
    <3>1. ~differ BY <2>5, ReadingsTyped, SameDiffersNot
    <3>2. ~dates BY <2>5, SameDatesConflictNot
    <3>3. ~negation BY DEF NegationAsymmetry
    <3> QED BY <2>6, <3>1, <3>2, <3>3
  <2>9. AgreementAgrees
    <3> DEFINE A == QuantitiesOf(p.a)
               B == QuantitiesOf(p.b)
    <3> SUFFICES ASSUME ~differ, NEW x \in A, \E y \in B : Comparable(x, y)
                 PROVE  Matched(x, B)
      BY <2>2, <2>6 DEF AgreementAgrees
    <3>1. NumbersConflict(A, B) # "conflict" BY DEF NumbersDiffer
    <3>2. x \in ComparableAmong(A, B) BY DEF ComparableAmong
    <3> HIDE DEF A, B
    <3>3. ~Unmatched(ComparableAmong(A, B), ComparableAmong(B, A))
      BY <3>1, <3>2 DEF NumbersConflict
    <3>4. Matched(x, ComparableAmong(B, A)) BY <3>2, <3>3 DEF Unmatched, UnmatchedOneWay
    <3>5. ComparableAmong(B, A) \subseteq B BY DEF ComparableAmong
    <3> QED BY <3>4, <3>5 DEF Matched
  <2>10. ReadOnce
    <3> SUFFICES ASSUME NEW s \in {p.a, p.b}, NEW at \in AssertedAt
                 PROVE  LET read == FoundQuantities(s) \o FoundDates(s, at) IN
                        \A i, j \in DOMAIN read : i # j => Free({read[i]}, read[j].from, read[j].upto)
      BY <2>2 DEF ReadOnce
    <3>1. ReadApart(FoundQuantities(s) \o FoundDates(s, at)) BY <2>5, Readings
    <3> QED BY <3>1 DEF ReadApart, Apart, Free
  <2> QED BY <2>7, <2>8, <2>9, <2>10 DEF JudgingTells
<1> QED BY <1>1, <1>2


\* For any statements, times, distances and limits: whatever pair is judged, the verdict is
\* the same with its sides exchanged, and no statement contradicts its own repetition.
THEOREM JudgingStands == JudgingSpec => []JudgingTells
<1>1. JudgingInit => JudgingInv BY DEF JudgingInit, JudgingInv
<1>2. JudgingInv /\ [JudgingNext]_judgingVars => JudgingInv'
  <2>1. ASSUME JudgingInv, JudgePairOf PROVE JudgingInv'
    <3>1. PICK a \in Statements, b \in Statements, atA \in AssertedAt, atB \in AssertedAt,
               s \in Similarities :
            /\ pair' = <<[a |-> a, b |-> b, idA |-> 1, idB |-> 2, atA |-> atA, atB |-> atB,
                          similarity |-> s]>>
            /\ draft' = HeuristicRelation(pair'[1])
      BY <2>1 DEF JudgePairOf
    <3> DEFINE p == [a |-> a, b |-> b, idA |-> 1, idB |-> 2, atA |-> atA, atB |-> atB,
                     similarity |-> s]
    <3>2. p \in Pair /\ p.idA # p.idB BY DEF Pair
    <3> HIDE DEF p
    <3>3. pair' = <<p>> BY <3>1 DEF p
    <3>4. draft' = HeuristicRelation(p) BY <3>1, <3>3
    <3> QED BY <3>2, <3>3, <3>4 DEF JudgingInv
  <2>2. ASSUME JudgingInv, UNCHANGED judgingVars PROVE JudgingInv'
    BY <2>2 DEF JudgingInv, judgingVars
  <2> QED BY <2>1, <2>2 DEF JudgingNext
<1> QED BY <1>1, <1>2, JudgingInvTells, PTL DEF JudgingSpec

-----------------------------------------------------------------------------
(* Clusters: ledgers.                                                       *)

Partial(U, T) == UNION {[S -> T] : S \in SUBSET U}

Standings == {"active", "carried", "retracted", "superseded"}
Means == {<< >>} \cup (Int \X (Nat \ {0}))
Tally == [size : Nat, docs : Nat, conflicts : Nat, mean : Means]
Ledger == [status : Partial(Members, Standings), home : Partial(Members, Nat),
           row : Partial(Nat \ {0}, Tally), next : Nat \ {0},
           open : SUBSET (SUBSET Members), closed : SUBSET (SUBSET Members),
           rejected : SUBSET (SUBSET Members), missized : SUBSET Nat, miscounted : SUBSET Nat]

SizeRight(l, k) == /\ l.row[k].size = Cardinality(ActiveIn(l, k))
                   /\ l.row[k].docs = Cardinality({VersionOf[c] : c \in ActiveIn(l, k)})
CountRight(l, k) == l.row[k].conflicts = Cardinality(Conflicts(l, k))

\* A ledger of which the sizes, but for those of Bs, and the counts, but for those of Cs, are right.
Sound(l, Bs, Cs) ==
    /\ l \in Ledger
    /\ DOMAIN l.home = Rated(l)
    /\ \A k \in DOMAIN l.row : k < l.next
    /\ \A c \in Rated(l) : l.home[c] \in DOMAIN l.row \cup {0}
    /\ \A p \in l.open \cup l.closed : p \subseteq Rated(l)
    /\ \A k \in DOMAIN l.row \ (l.missized \cup Bs) : SizeRight(l, k)
    /\ \A k \in DOMAIN l.row \ (l.miscounted \cup Cs) : CountRight(l, k)

Housed(l) == \A c \in Rated(l) : l.home[c] # 0

\* A partial function has a domain within its own set.
LEMMA PartialFacts ==
    ASSUME NEW U, NEW T
    PROVE  /\ \A f \in Partial(U, T) : f \in [DOMAIN f -> T] /\ DOMAIN f \subseteq U
           /\ \A S \in SUBSET U : \A f \in [S -> T] : f \in Partial(U, T)
BY DEF Partial

\* What each field of a ledger is.
LEMMA LedgerFields ==
    ASSUME NEW l \in Ledger
    PROVE  /\ l.status \in [Rated(l) -> Standings] /\ Rated(l) \subseteq Members
           /\ l.home \in [DOMAIN l.home -> Nat] /\ DOMAIN l.home \subseteq Members
           /\ l.row \in [DOMAIN l.row -> Tally] /\ DOMAIN l.row \subseteq Nat \ {0}
           /\ l.next \in Nat \ {0}
           /\ l.open \subseteq SUBSET Members /\ l.closed \subseteq SUBSET Members
           /\ l.rejected \subseteq SUBSET Members
           /\ l.missized \subseteq Nat /\ l.miscounted \subseteq Nat
BY PartialFacts DEF Ledger, Rated

\* Claims and their versions are finitely many.
LEMMA ManyAtMost ==
    ASSUME NEW S \in SUBSET Members
    PROVE  /\ IsFiniteSet(S) /\ Cardinality(S) \in Nat
           /\ IsFiniteSet({VersionOf[c] : c \in S})
           /\ Cardinality({VersionOf[c] : c \in S}) \in Nat
           /\ (S # {} => Cardinality(S) \in Nat \ {0})
<1>1. IsFiniteSet(S) BY ClustersAssumption, FS_Subset
<1>2. IsFiniteSet({VersionOf[c] : c \in S})
  <2> DEFINE T == {VersionOf[c] : c \in S}
             g == [c \in S |-> VersionOf[c]]
  <2>1. g \in [S -> T] /\ \A v \in T : \E c \in S : g[c] = v OBVIOUS
  <2>2. g \in Surjection(S, T)
    <3> HIDE DEF g, T
    <3> QED BY <2>1 DEF Surjection
  <2>3. IsFiniteSet(T)
    <3> HIDE DEF g, T
    <3> QED BY <1>1, <2>2, FS_Surjection
  <2> QED BY <2>3
<1> QED BY <1>1, <1>2, FS_CardinalityType, FS_EmptySet

\* The active claims of a cluster, their versions and conflicts are counted.
LEMMA ActiveFacts ==
    ASSUME NEW l \in Ledger, NEW k
    PROVE  /\ ActiveIn(l, k) \subseteq Rated(l) /\ ActiveIn(l, k) \in SUBSET Members
           /\ Cardinality(ActiveIn(l, k)) \in Nat
           /\ Cardinality({VersionOf[c] : c \in ActiveIn(l, k)}) \in Nat
           /\ Cardinality(Conflicts(l, k)) \in Nat
<1>1. ActiveIn(l, k) \subseteq Rated(l) /\ ActiveIn(l, k) \in SUBSET Members
  BY LedgerFields DEF ActiveIn
<1>2. IsFiniteSet(SUBSET Members) BY ClustersAssumption, FS_SUBSET
<1>3. Conflicts(l, k) \subseteq SUBSET Members BY LedgerFields DEF Conflicts
<1>4. IsFiniteSet(Conflicts(l, k)) BY <1>2, <1>3, FS_Subset
<1> HIDE DEF Ledger
<1> QED BY <1>1, <1>4, ManyAtMost, FS_CardinalityType

-----------------------------------------------------------------------------
(* Where claims lie.                                                        *)

\* The sum of places is a number, whatever claims are summed.
LEMMA PlacedIsInt == ASSUME NEW C PROVE Placed(C) \in Int
<1> DEFINE N == Cardinality(Members)
           Whole(f) == f = [n \in 0..N |->
                                IF n = 0 THEN 0 ELSE f[n - 1] + (IF n \in C THEN PlaceOf[n] ELSE 0)]
           g == [p \in (1..N) \X Int |-> p[2] + (IF p[1] \in C THEN PlaceOf[p[1]] ELSE 0)]
<1>1. N \in Nat /\ Members = 1..N BY ClustersAssumption, FS_CardinalityType
<1> HIDE DEF N
<1>2. g \in [(1..N) \X Int -> Int] BY <1>1, ClustersAssumption
<1>3. PICK f : Iterates(f, N, Int, 0, g)
  <2> HIDE DEF g
  <2>1. 0 \in Int OBVIOUS
  <2> QED BY <1>1, <1>2, <2>1, Iterated
<1>4. /\ f \in [0..N -> Int] /\ f[0] = 0
      /\ \A n \in 1..N : f[n] = f[n - 1] + (IF n \in C THEN PlaceOf[n] ELSE 0)
  <2>1. f \in [0..N -> Int] /\ f[0] = 0 /\ \A n \in 1..N : f[n] = g[<<n, f[n - 1]>>]
    <3> HIDE DEF g
    <3> QED BY <1>3 DEF Iterates
  <2>2. \A n \in 1..N : f[n - 1] \in Int
    <3> HIDE DEF g
    <3> QED BY <1>1, <2>1
  <2> QED BY <2>1, <2>2
<1>5. Whole(f) BY <1>1, <1>4
<1> DEFINE to == CHOOSE h : Whole(h)
<1>6. Whole(to)
  <2> HIDE DEF Whole
  <2> QED BY <1>5
<1>7. /\ to = [n \in 0..N |-> IF n = 0 THEN 0 ELSE to[n - 1] + (IF n \in C THEN PlaceOf[n] ELSE 0)]
  <2> HIDE DEF to
  <2> QED BY <1>6
<1>8. Placed(C) = to[N] BY DEF Placed, N
<1> HIDE DEF to, Whole, g
<1> DEFINE P == {n \in 0..N : to[n] \in Int}
<1>9. 0 \in P BY <1>1, <1>7
<1>10. ASSUME NEW n \in 1..N, n - 1 \in P PROVE n \in P
  <2>1. to[n] = to[n - 1] + (IF n \in C THEN PlaceOf[n] ELSE 0) BY <1>1, <1>7
  <2>2. (IF n \in C THEN PlaceOf[n] ELSE 0) \in Int BY <1>1, ClustersAssumption
  <2> QED BY <1>10, <2>1, <2>2
<1> HIDE DEF P
<1>11. N \in P BY <1>1, <1>9, <1>10, CountsUpTo
<1> QED BY <1>8, <1>11 DEF P

-----------------------------------------------------------------------------
(* What is taken again.                                                     *)

\* Two ledgers that have the same claims in the same clusters.
SamePlaces(n, l) == /\ n.status = l.status /\ n.home = l.home /\ n.next = l.next
                    /\ n.open = l.open /\ n.closed = l.closed /\ n.rejected = l.rejected
                    /\ DOMAIN n.row = DOMAIN l.row

\* Ledgers with the same homes and standings have the same active claims in a cluster.
LEMMA SameActive ==
    ASSUME NEW n, NEW l, n.status = l.status, n.home = l.home, NEW k
    PROVE  ActiveIn(n, k) = ActiveIn(l, k)
BY DEF ActiveIn, Rated

\* And with the same open conflicts the same conflicts in it.
LEMMA SameConflicts ==
    ASSUME NEW n, NEW l, n.status = l.status, n.home = l.home, n.open = l.open, NEW k
    PROVE  Conflicts(n, k) = Conflicts(l, k)
BY SameActive DEF Conflicts

\* recompute_cluster makes the sizes of its cluster right, and moves nobody.
LEMMA RecomputeKeeps ==
    ASSUME NEW l, NEW Bs, NEW Cs, Sound(l, Bs, Cs), NEW k \in DOMAIN l.row
    PROVE  /\ Sound(Recompute(l, k), Bs \ {k}, Cs)
           /\ SamePlaces(Recompute(l, k), l)
<1> DEFINE n == Recompute(l, k)
           r == Recomputed(l, k)
<1>1. l \in Ledger BY DEF Sound
<1>2. r \in Tally
  <2>1. l.row[k] \in Tally BY <1>1, LedgerFields
  <2>2. l.row[k].conflicts \in Nat /\ l.row[k].mean \in Means BY <2>1 DEF Tally
  <2>3. ActiveIn(l, k) # {} => <<Placed(ActiveIn(l, k)), Cardinality(ActiveIn(l, k))>> \in Means
    BY <1>1, ActiveFacts, ManyAtMost, PlacedIsInt DEF Means
  <2> DEFINE m == IF ActiveIn(l, k) = {} THEN l.row[k].mean
                  ELSE <<Placed(ActiveIn(l, k)), Cardinality(ActiveIn(l, k))>>
  <2>4. m \in Means BY <2>2, <2>3
  <2>5. r = [size |-> Cardinality(ActiveIn(l, k)),
             docs |-> Cardinality({VersionOf[c] : c \in ActiveIn(l, k)}),
             conflicts |-> l.row[k].conflicts, mean |-> m]
    BY DEF Recomputed
  <2> HIDE DEF m, r
  <2> QED BY <1>1, <2>2, <2>4, <2>5, ActiveFacts DEF Tally
<1>3. r.size = Cardinality(ActiveIn(l, k)) /\ r.conflicts = l.row[k].conflicts
      /\ r.docs = Cardinality({VersionOf[c] : c \in ActiveIn(l, k)})
  BY DEF Recomputed
<1>4. n = [l EXCEPT !.row = [l.row EXCEPT ![k] = r], !.missized = l.missized \ {k}]
  BY <1>1 DEF Recompute, Ledger
<1> HIDE DEF n, r
<1>5. l.row \in [DOMAIN l.row -> Tally] /\ DOMAIN l.row \subseteq Nat \ {0} /\ l.missized \subseteq Nat
  BY <1>1, LedgerFields
<1> DEFINE ro == [l.row EXCEPT ![k] = r]
<1>6. /\ ro \in [DOMAIN l.row -> Tally] /\ DOMAIN ro = DOMAIN l.row /\ ro[k] = r
      /\ \A j \in DOMAIN l.row \ {k} : ro[j] = l.row[j]
  BY <1>2, <1>5
<1>7. ro \in Partial(Nat \ {0}, Tally) BY <1>5, <1>6, PartialFacts
<1> HIDE DEF ro
<1>8. /\ n.row = ro /\ n.missized = l.missized \ {k} /\ n.miscounted = l.miscounted
      /\ n.status = l.status /\ n.home = l.home /\ n.next = l.next
      /\ n.open = l.open /\ n.closed = l.closed /\ n.rejected = l.rejected
      /\ n \in Ledger
  BY <1>1, <1>4, <1>7 DEF ro, Ledger
<1>9. SamePlaces(n, l) BY <1>6, <1>8 DEF SamePlaces
<1>10. \A j : ActiveIn(n, j) = ActiveIn(l, j) /\ Conflicts(n, j) = Conflicts(l, j)
  BY <1>8, SameActive, SameConflicts
<1>11. ASSUME NEW j \in DOMAIN n.row \ (n.missized \cup (Bs \ {k})) PROVE SizeRight(n, j)
  <2>1. CASE j = k BY <1>3, <1>6, <1>8, <1>10, <2>1 DEF SizeRight
  <2>2. CASE j # k BY <1>6, <1>8, <1>10, <1>11, <2>2 DEF Sound, SizeRight
  <2> QED BY <2>1, <2>2
<1>12. ASSUME NEW j \in DOMAIN n.row \ (n.miscounted \cup Cs) PROVE CountRight(n, j)
  BY <1>3, <1>6, <1>8, <1>10, <1>12 DEF Sound, CountRight
<1>13. Sound(n, Bs \ {k}, Cs) BY <1>6, <1>8, <1>11, <1>12 DEF Sound, Rated
<1> QED BY <1>9, <1>13 DEF n

\* recount makes the conflicts of its clusters right, and moves nobody.
LEMMA RecountKeeps ==
    ASSUME NEW l, NEW Bs, NEW Cs, Sound(l, Bs, Cs), NEW ks
    PROVE  /\ Sound(Recount(l, ks), Bs, Cs \ ks)
           /\ SamePlaces(Recount(l, ks), l)
<1> DEFINE n == Recount(l, ks)
           ro == [k \in DOMAIN l.row |->
                    IF k \in ks THEN [l.row[k] EXCEPT !.conflicts = Cardinality(Conflicts(l, k))]
                    ELSE l.row[k]]
<1>1. l \in Ledger BY DEF Sound
<1>2. l.row \in [DOMAIN l.row -> Tally] /\ DOMAIN l.row \subseteq Nat \ {0} /\ l.miscounted \subseteq Nat
  BY <1>1, LedgerFields
<1>3. ASSUME NEW k \in DOMAIN l.row
      PROVE  /\ ro[k] \in Tally /\ ro[k].size = l.row[k].size /\ ro[k].docs = l.row[k].docs
             /\ ro[k].conflicts = IF k \in ks THEN Cardinality(Conflicts(l, k))
                                  ELSE l.row[k].conflicts
  BY <1>1, <1>2, ActiveFacts DEF Tally
<1>4. n = [l EXCEPT !.row = ro, !.miscounted = l.miscounted \ ks] BY DEF Recount
<1>5. DOMAIN ro = DOMAIN l.row OBVIOUS
<1>6. ro \in [DOMAIN l.row -> Tally] BY <1>3
<1> HIDE DEF n, ro
<1>7. ro \in Partial(Nat \ {0}, Tally) BY <1>2, <1>6, PartialFacts
<1>8. /\ n.row = ro /\ n.missized = l.missized /\ n.miscounted = l.miscounted \ ks
      /\ n.status = l.status /\ n.home = l.home /\ n.next = l.next
      /\ n.open = l.open /\ n.closed = l.closed /\ n.rejected = l.rejected
      /\ n \in Ledger
  BY <1>1, <1>4, <1>7 DEF Ledger
<1>9. SamePlaces(n, l) BY <1>5, <1>8 DEF SamePlaces
<1>10. \A j : ActiveIn(n, j) = ActiveIn(l, j) /\ Conflicts(n, j) = Conflicts(l, j)
  BY <1>8, SameActive, SameConflicts
<1>11. ASSUME NEW j \in DOMAIN n.row \ (n.missized \cup Bs) PROVE SizeRight(n, j)
  BY <1>3, <1>5, <1>8, <1>10, <1>11 DEF Sound, SizeRight
<1>12. ASSUME NEW j \in DOMAIN n.row \ (n.miscounted \cup (Cs \ ks)) PROVE CountRight(n, j)
  <2>1. CASE j \in ks BY <1>3, <1>5, <1>8, <1>10, <1>12, <2>1 DEF CountRight
  <2>2. CASE j \notin ks BY <1>3, <1>5, <1>8, <1>10, <1>12, <2>2 DEF Sound, CountRight
  <2> QED BY <2>1, <2>2
<1>13. Sound(n, Bs, Cs \ ks) BY <1>5, <1>8, <1>11, <1>12 DEF Sound, Rated
<1> QED BY <1>9, <1>13 DEF n

-----------------------------------------------------------------------------
(* Assignment.                                                              *)

\* Some cluster in reach is the nearest.
LEMMA NearestFacts ==
    ASSUME NEW l \in Ledger, NEW c \in Members, InReach(l, c) # {},
           \A k \in DOMAIN l.row : k < l.next
    PROVE  Nearest(l, c) \in InReach(l, c)
<1> DEFINE K == InReach(l, c)
           f == [k \in K |-> Farness(l, c, k)]
           m == [k \in K |-> l.row[k].mean[2]]
           n == l.next
<1>1. l.row \in [DOMAIN l.row -> Tally] /\ DOMAIN l.row \subseteq Nat \ {0} /\ n \in Nat
  BY LedgerFields
<1>2. K \in SUBSET (0..n) /\ K \subseteq DOMAIN l.row BY <1>1 DEF InReach
<1>3. ASSUME NEW k \in K PROVE l.row[k].mean[1] \in Int /\ l.row[k].mean[2] \in Nat \ {0}
  BY <1>1 DEF InReach, Tally, Means
<1>4. PlaceOf[c] \in Int BY ClustersAssumption
<1>5. f \in [K -> Nat] /\ m \in [K -> Nat \ {0}]
  <2>1. ASSUME NEW k \in K PROVE Farness(l, c, k) \in Nat
    <3> DEFINE at == PlaceOf[c] * l.row[k].mean[2] - l.row[k].mean[1]
    <3>1. at \in Int BY <1>3, <1>4
    <3> HIDE DEF at
    <3>2. (IF at < 0 THEN -at ELSE at) \in Nat BY <3>1
    <3> QED BY <3>2 DEF Farness, at
  <2> QED BY <1>3, <2>1
<1>6. /\ \A k \in K : f[k] = Farness(l, c, k) /\ m[k] = l.row[k].mean[2]
      /\ K # {}
  OBVIOUS
<1> DEFINE Near(k) == \A j \in InReach(l, c) :
               Farness(l, c, k) * l.row[j].mean[2] <= Farness(l, c, j) * l.row[k].mean[2]
<1>7. \E k \in K : \A j \in K : f[k] * m[j] <= f[j] * m[k]
  <2> HIDE DEF K, f, m, n
  <2> QED BY <1>1, <1>2, <1>5, <1>6, LeastFraction
<1>8. \E k \in InReach(l, c) : Near(k) BY <1>6, <1>7
<1>9. Nearest(l, c) = CHOOSE k \in InReach(l, c) : Near(k) BY DEF Nearest
<1> HIDE DEF Near
<1> QED BY <1>8, <1>9

\* A claim of which the cluster is another.
LEMMA MoveKeeps ==
    ASSUME NEW l, NEW Bs, NEW Cs, Sound(l, Bs, Cs), NEW c \in Rated(l), NEW k \in DOMAIN l.row,
           \A p \in l.open : c \notin p
    PROVE  LET n == [l EXCEPT !.home[c] = k]
           IN  /\ Sound(n, Bs \cup {k, l.home[c]}, Cs)
               /\ n = [l EXCEPT !.home = n.home] /\ n.row = l.row
               /\ n.home[c] = k /\ \A d \in Rated(l) \ {c} : n.home[d] = l.home[d]
<1> DEFINE n == [l EXCEPT !.home[c] = k]
           ho == [l.home EXCEPT ![c] = k]
<1>1. l \in Ledger /\ DOMAIN l.home = Rated(l) /\ Rated(l) \subseteq Members
  BY LedgerFields DEF Sound
<1>2. l.home \in [Rated(l) -> Nat] /\ k \in Nat BY <1>1, LedgerFields
<1>3. n = [l EXCEPT !.home = ho] OBVIOUS
<1>4. /\ ho \in [Rated(l) -> Nat] /\ DOMAIN ho = Rated(l) /\ ho[c] = k
      /\ \A d \in Rated(l) \ {c} : ho[d] = l.home[d]
  BY <1>1, <1>2
<1> HIDE DEF n, ho
<1>5. ho \in Partial(Members, Nat) BY <1>1, <1>4, PartialFacts
<1>6. /\ n.home = ho /\ n.row = l.row /\ n.missized = l.missized /\ n.miscounted = l.miscounted
      /\ n.status = l.status /\ n.next = l.next
      /\ n.open = l.open /\ n.closed = l.closed /\ n.rejected = l.rejected
      /\ n \in Ledger
  BY <1>1, <1>3, <1>5 DEF Ledger
<1>7. Rated(n) = Rated(l) BY <1>6 DEF Rated
<1>8. ASSUME NEW j, j \notin {k, l.home[c]} PROVE ActiveIn(n, j) = ActiveIn(l, j)
  BY <1>4, <1>6, <1>7, <1>8 DEF ActiveIn
<1>9. ASSUME NEW j PROVE Conflicts(n, j) = Conflicts(l, j)
  BY <1>4, <1>6, <1>7 DEF ActiveIn, Conflicts
<1>10. \A j \in DOMAIN n.row \ (n.missized \cup (Bs \cup {k, l.home[c]})) : SizeRight(n, j)
  <2> TAKE j \in DOMAIN n.row \ (n.missized \cup (Bs \cup {k, l.home[c]}))
  <2>1. SizeRight(l, j) /\ j \notin {k, l.home[c]} BY <1>6 DEF Sound
  <2> QED BY <1>6, <1>8, <2>1 DEF SizeRight
<1>11. \A j \in DOMAIN n.row \ (n.miscounted \cup Cs) : CountRight(n, j)
  BY <1>6, <1>9 DEF Sound, CountRight
<1>12. \A d \in Rated(n) : n.home[d] \in DOMAIN n.row \cup {0}
  <2> TAKE d \in Rated(n)
  <2>1. CASE d = c BY <1>4, <1>6, <2>1
  <2>2. CASE d # c BY <1>4, <1>6, <1>7, <2>2 DEF Sound
  <2> QED BY <2>1, <2>2
<1>13. Sound(n, Bs \cup {k, l.home[c]}, Cs) BY <1>4, <1>6, <1>7, <1>10, <1>11, <1>12 DEF Sound
<1>14. n = [l EXCEPT !.home = n.home] BY <1>3, <1>6
<1> QED BY <1>4, <1>6, <1>13, <1>14 DEF n

\* A claim of which the cluster is a new one.
LEMMA NewClusterKeeps ==
    ASSUME NEW l, Sound(l, {}, {}), NEW c \in Rated(l), l.status[c] = "active",
           \A p \in l.open : c \notin p, InReach(l, c) = {}
    PROVE  /\ Sound(AssignCluster(l, c), {}, {})
           /\ AssignCluster(l, c).status = l.status /\ AssignCluster(l, c).open = l.open
           /\ AssignCluster(l, c).closed = l.closed /\ AssignCluster(l, c).home[c] # 0
           /\ \A d \in Rated(l) \ {c} : AssignCluster(l, c).home[d] = l.home[d]
<1> DEFINE n == AssignCluster(l, c)
           k == l.next
           r == [size |-> 1, docs |-> 1, conflicts |-> 0, mean |-> <<PlaceOf[c], 1>>]
           ho == [l.home EXCEPT ![c] = k]
           ro == Given(l.row, {k}, r)
           mi == l.missized \cup ({l.home[c]} \ {0})
<1>1. l \in Ledger /\ DOMAIN l.home = Rated(l) /\ Rated(l) \subseteq Members
  BY LedgerFields DEF Sound
<1>2. /\ l.home \in [Rated(l) -> Nat] /\ k \in Nat \ {0} /\ k + 1 \in Nat \ {0}
      /\ l.row \in [DOMAIN l.row -> Tally] /\ DOMAIN l.row \subseteq Nat \ {0}
      /\ l.missized \subseteq Nat
  BY <1>1, LedgerFields
<1>3. r \in Tally BY <1>1, ClustersAssumption DEF Tally, Means
<1>4. n = [l EXCEPT !.home = ho, !.next = k + 1, !.row = ro, !.missized = mi]
  BY DEF AssignCluster
<1>5. /\ ho \in [Rated(l) -> Nat] /\ DOMAIN ho = Rated(l) /\ ho[c] = k
      /\ \A d \in Rated(l) \ {c} : ho[d] = l.home[d]
  BY <1>1, <1>2
<1>6. /\ DOMAIN ro = DOMAIN l.row \cup {k} /\ ro[k] = r
      /\ \A j \in DOMAIN l.row : j # k => ro[j] = l.row[j]
  BY DEF Given
<1>7. \A j \in DOMAIN l.row : j < k BY DEF Sound
<1>8. k \notin DOMAIN l.row BY <1>2, <1>7
<1>9. ro \in [DOMAIN l.row \cup {k} -> Tally]
  <2>1. \A j \in DOMAIN l.row \cup {k} : ro[j] \in Tally BY <1>2, <1>3, <1>6
  <2>2. ro = [j \in DOMAIN l.row \cup {k} |-> ro[j]] BY DEF Given
  <2> HIDE DEF ro
  <2> QED BY <2>1, <2>2
<1>10. mi \subseteq Nat BY <1>2
<1>11. r.size = 1 /\ r.docs = 1 /\ r.conflicts = 0 OBVIOUS
<1> HIDE DEF n, ho, ro, mi, k, r
<1>12. ho \in Partial(Members, Nat) /\ ro \in Partial(Nat \ {0}, Tally)
  <2>1. DOMAIN l.row \cup {k} \in SUBSET (Nat \ {0}) BY <1>2
  <2> QED BY <1>1, <1>5, <1>9, <2>1, PartialFacts
<1>13. /\ n.home = ho /\ n.row = ro /\ n.missized = mi /\ n.miscounted = l.miscounted
       /\ n.status = l.status /\ n.next = k + 1
       /\ n.open = l.open /\ n.closed = l.closed /\ n.rejected = l.rejected
       /\ n \in Ledger
  BY <1>1, <1>2, <1>4, <1>10, <1>12 DEF Ledger
<1>14. Rated(n) = Rated(l) BY <1>13 DEF Rated
<1>15. l.home[c] # k /\ \A d \in Rated(l) : l.home[d] # k BY <1>2, <1>8 DEF Sound
<1>16. ActiveIn(n, k) = {c} BY <1>5, <1>13, <1>14, <1>15 DEF ActiveIn
<1>17. ASSUME NEW j, j \notin {k, l.home[c]} PROVE ActiveIn(n, j) = ActiveIn(l, j)
  BY <1>5, <1>13, <1>14, <1>17 DEF ActiveIn
<1>18. ASSUME NEW j, j # k PROVE Conflicts(n, j) = Conflicts(l, j)
  BY <1>5, <1>13, <1>14 DEF ActiveIn, Conflicts
<1>19. Conflicts(n, k) = {} BY <1>13, <1>16 DEF Conflicts
<1>20. \A j \in DOMAIN n.row \ (n.missized \cup {}) : SizeRight(n, j)
  <2> TAKE j \in DOMAIN n.row \ (n.missized \cup {})
  <2>1. CASE j = k
    <3>1. {VersionOf[d] : d \in {c}} = {VersionOf[c]} OBVIOUS
    <3>2. {VersionOf[d] : d \in ActiveIn(n, k)} = {VersionOf[c]} BY <1>16, <3>1
    <3>3. Cardinality({VersionOf[c]}) = 1 /\ Cardinality({c}) = 1 BY FS_Singleton
    <3>4. n.row[k].size = 1 /\ n.row[k].docs = 1 BY <1>6, <1>11, <1>13
    <3> QED BY <1>16, <2>1, <3>2, <3>3, <3>4 DEF SizeRight
  <2>2. CASE j # k BY <1>2, <1>6, <1>13, <1>17, <2>2 DEF Sound, mi, SizeRight
  <2> QED BY <2>1, <2>2
<1>21. \A j \in DOMAIN n.row \ (n.miscounted \cup {}) : CountRight(n, j)
  <2> TAKE j \in DOMAIN n.row \ (n.miscounted \cup {})
  <2>1. CASE j = k BY <1>6, <1>11, <1>13, <1>19, <2>1, FS_EmptySet DEF CountRight
  <2>2. CASE j # k BY <1>6, <1>13, <1>18, <2>2 DEF Sound, CountRight
  <2> QED BY <2>1, <2>2
<1>22. \A d \in Rated(n) : n.home[d] \in DOMAIN n.row \cup {0}
  <2> TAKE d \in Rated(n)
  <2>1. CASE d = c BY <1>5, <1>6, <1>13, <2>1
  <2>2. CASE d # c BY <1>5, <1>6, <1>13, <1>14, <2>2 DEF Sound
  <2> QED BY <2>1, <2>2
<1>23. \A j \in DOMAIN n.row : j < n.next BY <1>2, <1>6, <1>7, <1>13
<1>24. Sound(n, {}, {}) BY <1>5, <1>13, <1>14, <1>20, <1>21, <1>22, <1>23 DEF Sound
<1> QED BY <1>2, <1>5, <1>13, <1>24 DEF n

\* assign_cluster houses its claim, moves no other, and leaves every count right.
LEMMA AssignKeeps ==
    ASSUME NEW l, Sound(l, {}, {}), NEW c \in Rated(l), l.status[c] = "active",
           \A p \in l.open : c \notin p
    PROVE  /\ Sound(AssignCluster(l, c), {}, {})
           /\ AssignCluster(l, c).status = l.status /\ AssignCluster(l, c).open = l.open
           /\ AssignCluster(l, c).closed = l.closed /\ AssignCluster(l, c).home[c] # 0
           /\ \A d \in Rated(l) \ {c} : AssignCluster(l, c).home[d] = l.home[d]
<1>1. CASE InReach(l, c) = {} BY <1>1, NewClusterKeeps
<1>2. CASE InReach(l, c) # {}
  <2> DEFINE k == Nearest(l, c)
             m == [l EXCEPT !.home[c] = k]
             moved == Recompute(m, k)
             was == l.home[c]
             n == AssignCluster(l, c)
  <2>1. l \in Ledger /\ DOMAIN l.home = Rated(l) /\ Rated(l) \subseteq Members
        /\ \A j \in DOMAIN l.row : j < l.next
    BY LedgerFields DEF Sound
  <2>2. k \in InReach(l, c) BY <1>2, <2>1, NearestFacts
  <2>3. k \in DOMAIN l.row /\ k # 0 BY <2>1, <2>2, LedgerFields DEF InReach
  <2>4. n = IF was \in DOMAIN l.row \ {k} THEN Recompute(moved, was) ELSE moved
    BY <1>2 DEF AssignCluster
  <2> HIDE DEF n, k
  <2>5. /\ Sound(m, {k, was}, {}) /\ m = [l EXCEPT !.home = m.home] /\ m.row = l.row
        /\ m.home[c] = k /\ \A d \in Rated(l) \ {c} : m.home[d] = l.home[d]
    <3>1. {} \cup {k, was} = {k, was} OBVIOUS
    <3> HIDE DEF was
    <3>2. LET x == [l EXCEPT !.home[c] = k]
          IN  /\ Sound(x, {} \cup {k, l.home[c]}, {})
              /\ x = [l EXCEPT !.home = x.home] /\ x.row = l.row
              /\ x.home[c] = k /\ \A d \in Rated(l) \ {c} : x.home[d] = l.home[d]
      BY <2>3, MoveKeeps
    <3> QED BY <3>1, <3>2 DEF was
  <2>6. m.status = l.status /\ m.open = l.open /\ m.closed = l.closed
    <3> DEFINE h == m.home
    <3>1. m = [l EXCEPT !.home = h] BY <2>5
    <3> HIDE DEF m, h
    <3> QED BY <2>1, <3>1 DEF Ledger
  <2> HIDE DEF m, was
  <2>7. Sound(moved, {k, was} \ {k}, {}) /\ SamePlaces(moved, m) BY <2>3, <2>5, RecomputeKeeps
  <2> HIDE DEF moved
  <2>8. CASE was \in DOMAIN l.row \ {k}
    <3>1. was \in DOMAIN moved.row BY <2>5, <2>7, <2>8 DEF SamePlaces
    <3>2. Sound(n, ({k, was} \ {k}) \ {was}, {}) /\ SamePlaces(n, moved)
      BY <2>4, <2>7, <2>8, <3>1, RecomputeKeeps
    <3>3. ({k, was} \ {k}) \ {was} = {} OBVIOUS
    <3>4. Sound(n, {}, {}) BY <3>2, <3>3
    <3>5. n.status = l.status /\ n.home = m.home /\ n.open = l.open /\ n.closed = l.closed
      BY <2>6, <2>7, <3>2 DEF SamePlaces
    <3> QED BY <2>3, <2>5, <3>4, <3>5 DEF n
  <2>9. CASE ~(was \in DOMAIN l.row \ {k})
    <3>1. n = moved BY <2>4, <2>9
    <3>2. DOMAIN moved.row = DOMAIN l.row BY <2>5, <2>7 DEF SamePlaces
    <3>3. \A j \in DOMAIN moved.row \ (moved.missized \cup {}) :
              j \in DOMAIN moved.row \ (moved.missized \cup ({k, was} \ {k}))
      BY <2>9, <3>2
    <3>4. Sound(moved, {}, {}) BY <2>7, <3>3 DEF Sound
    <3>5. n.status = l.status /\ n.home = m.home /\ n.open = l.open /\ n.closed = l.closed
      BY <2>6, <2>7, <3>1 DEF SamePlaces
    <3> QED BY <2>3, <2>5, <3>1, <3>4, <3>5 DEF n
  <2> QED BY <2>8, <2>9
<1> QED BY <1>1, <1>2

-----------------------------------------------------------------------------
(* What judging does.                                                       *)

\* Sides of the pairs, and what they may be.
Sides(R) == R \X R

\* A conflict that is opened is counted where both its claims live.
LEMMA OpenKeeps ==
    ASSUME NEW l, Sound(l, {}, {}), NEW a \in Rated(l), NEW b \in Rated(l)
    PROVE  /\ Sound(OpenConflict(l, a, b), {}, {})
           /\ OpenConflict(l, a, b).home = l.home /\ Rated(OpenConflict(l, a, b)) = Rated(l)
<1> DEFINE m == [l EXCEPT !.open = @ \cup {{a, b}}]
           ks == {l.home[a], l.home[b]}
           n == Recount(m, ks)
<1>1. l \in Ledger /\ DOMAIN l.home = Rated(l) /\ Rated(l) \subseteq Members
  BY LedgerFields DEF Sound
<1>2. l.open \subseteq SUBSET Members BY <1>1, LedgerFields
<1>3. /\ m.open = l.open \cup {{a, b}}
      /\ m.home = l.home /\ m.row = l.row /\ m.missized = l.missized
      /\ m.miscounted = l.miscounted /\ m.status = l.status /\ m.next = l.next
      /\ m.closed = l.closed /\ m.rejected = l.rejected /\ m \in Ledger
  BY <1>1, <1>2 DEF Ledger
<1>4. OpenConflict(l, a, b) = n BY DEF OpenConflict
<1> HIDE DEF m
<1>5. Rated(m) = Rated(l) /\ \A k : ActiveIn(m, k) = ActiveIn(l, k)
  BY <1>3, SameActive DEF Rated
<1>6. ASSUME NEW k, k \notin ks PROVE Conflicts(m, k) = Conflicts(l, k)
  BY <1>3, <1>5, <1>6 DEF ActiveIn, Conflicts
<1>7. \A k \in DOMAIN m.row \ (m.missized \cup {}) : SizeRight(m, k)
  BY <1>3, <1>5 DEF Sound, SizeRight
<1>8. \A k \in DOMAIN m.row \ (m.miscounted \cup ks) : CountRight(m, k)
  BY <1>3, <1>6 DEF Sound, CountRight
<1>9. \A p \in m.open \cup m.closed : p \subseteq Rated(m) BY <1>3, <1>5 DEF Sound
<1>10. Sound(m, {}, ks) BY <1>3, <1>5, <1>7, <1>8, <1>9 DEF Sound
<1> HIDE DEF n
<1>11. Sound(n, {}, ks \ ks) /\ SamePlaces(n, m) BY <1>10, RecountKeeps DEF n
<1>12. ks \ ks = {} OBVIOUS
<1> HIDE DEF ks
<1>13. n.home = l.home /\ Rated(n) = Rated(l) BY <1>3, <1>5, <1>11 DEF SamePlaces, Rated
<1>14. Sound(n, {}, {}) BY <1>11, <1>12
<1> QED BY <1>4, <1>13, <1>14

\* A superseded claim leaves its cluster's counts right behind it.
LEMMA SupersedeKeeps ==
    ASSUME NEW l, Sound(l, {}, {}), NEW older \in Rated(l)
    PROVE  /\ Sound(Supersede(l, older), {}, {})
           /\ Supersede(l, older).home = l.home /\ Rated(Supersede(l, older)) = Rated(l)
<1>1. CASE l.status[older] = "superseded" BY <1>1 DEF Supersede
<1>2. CASE l.status[older] # "superseded"
  <2> DEFINE its == {p \in l.open : older \in p}
             k == l.home[older]
             st == [l.status EXCEPT ![older] = "superseded"]
             m == [l EXCEPT !.status[older] = "superseded"]
             told == Recount(m, {k})
             n == Supersede(l, older)
  <2>1. l \in Ledger /\ DOMAIN l.home = Rated(l) /\ Rated(l) \subseteq Members
    BY LedgerFields DEF Sound
  <2>2. l.status \in [Rated(l) -> Standings] /\ l.home \in [Rated(l) -> Nat]
    BY <2>1, LedgerFields
  <2>3. /\ st \in [Rated(l) -> Standings] /\ st[older] = "superseded"
        /\ DOMAIN st = Rated(l) /\ \A c \in Rated(l) \ {older} : st[c] = l.status[c]
    BY <2>2 DEF Standings
  <2>4. m = [l EXCEPT !.status = st] OBVIOUS
  <2>5. n = [told EXCEPT !.open = told.open \ its, !.closed = told.closed \cup its,
                         !.missized = told.missized \cup {k},
                         !.miscounted = told.miscounted \cup HomesOf(l, its)]
    BY <1>2 DEF Supersede
  <2> HIDE DEF n, told, m, st
  <2>6. st \in Partial(Members, Standings) BY <2>1, <2>3, PartialFacts
  <2>7. /\ m.status = st /\ m.home = l.home /\ m.row = l.row /\ m.missized = l.missized
        /\ m.miscounted = l.miscounted /\ m.next = l.next /\ m.open = l.open
        /\ m.closed = l.closed /\ m.rejected = l.rejected /\ m \in Ledger
    BY <2>1, <2>4, <2>6 DEF Ledger
  <2>8. Rated(m) = Rated(l) BY <2>3, <2>7 DEF Rated
  <2>9. ASSUME NEW j, j # k PROVE ActiveIn(m, j) = ActiveIn(l, j)
    BY <2>3, <2>7, <2>8, <2>9 DEF ActiveIn
  <2>10. ASSUME NEW j, j # k PROVE Conflicts(m, j) = Conflicts(l, j)
    BY <2>7, <2>9, <2>10 DEF Conflicts
  <2>11. Sound(m, {k}, {k}) BY <2>1, <2>7, <2>8, <2>9, <2>10 DEF Sound, SizeRight, CountRight
  <2>12. Sound(told, {k}, {}) /\ SamePlaces(told, m) BY <2>11, RecountKeeps DEF told
  <2>13. /\ told \in Ledger /\ told.open = l.open /\ told.closed = l.closed
         /\ told.home = l.home /\ Rated(told) = Rated(l) /\ told.status = st
    BY <2>7, <2>8, <2>12 DEF Sound, SamePlaces, Rated
  <2>14. its \subseteq l.open /\ k \in Nat /\ HomesOf(l, its) \subseteq Nat
    BY <2>2 DEF Sound, HomesOf
  <2>15. /\ told.open \subseteq SUBSET Members /\ told.closed \subseteq SUBSET Members
         /\ told.missized \subseteq Nat /\ told.miscounted \subseteq Nat
    BY <2>13, LedgerFields
  <2> DEFINE op == told.open \ its
             cl == told.closed \cup its
             si == told.missized \cup {k}
             co == told.miscounted \cup HomesOf(l, its)
  <2>16. op \subseteq SUBSET Members /\ cl \subseteq SUBSET Members /\ si \subseteq Nat /\ co \subseteq Nat
    BY <2>13, <2>14, <2>15
  <2>17. n = [told EXCEPT !.open = op, !.closed = cl, !.missized = si, !.miscounted = co]
    BY <2>5
  <2> HIDE DEF op, cl, si, co
  <2>18. /\ n.open = op /\ n.closed = cl /\ n.missized = si /\ n.miscounted = co
         /\ n.status = told.status /\ n.home = told.home /\ n.row = told.row
         /\ n.next = told.next /\ n \in Ledger
    BY <2>13, <2>16, <2>17 DEF Ledger
  <2>19. \A j : ActiveIn(n, j) = ActiveIn(told, j) BY <2>18, SameActive
  <2>20. \A j \in DOMAIN n.row \ (n.missized \cup {}) : SizeRight(n, j)
    BY <2>12, <2>18, <2>19 DEF Sound, SizeRight, si
  <2>21. ASSUME NEW j, j \notin HomesOf(l, its) PROVE Conflicts(n, j) = Conflicts(told, j)
    <3>1. \A p \in its : p \cap ActiveIn(told, j) = {}
      <4> SUFFICES ASSUME NEW p \in its, NEW c \in p, c \in ActiveIn(told, j) PROVE FALSE
        OBVIOUS
      <4>1. l.home[c] = j BY <2>13 DEF ActiveIn
      <4>2. l.home[c] \in HomesOf(l, its) BY DEF HomesOf
      <4> QED BY <2>21, <4>1, <4>2
    <3>2. n.open = l.open \ its /\ told.open = l.open BY <2>13, <2>18 DEF op
    <3> HIDE DEF its
    <3> QED BY <2>14, <2>19, <3>1, <3>2 DEF Conflicts
  <2>22. \A j \in DOMAIN n.row \ (n.miscounted \cup {}) : CountRight(n, j)
    BY <2>12, <2>18, <2>21 DEF Sound, CountRight, co
  <2>23. \A p \in n.open \cup n.closed : p \subseteq Rated(n)
    BY <2>13, <2>14, <2>18 DEF Sound, op, cl, Rated
  <2>24. Rated(n) = Rated(told) BY <2>18 DEF Rated
  <2>25. Sound(n, {}, {}) BY <2>12, <2>18, <2>20, <2>22, <2>23, <2>24 DEF Sound
  <2> QED BY <2>13, <2>18, <2>24, <2>25 DEF n
<1> QED BY <1>1, <1>2

\* Of two numbers one is the smaller.
LEMMA TwoEnds ==
    ASSUME NEW x \in Nat, NEW y \in Nat, x # y
    PROVE  /\ Cardinality({x, y}) # 1
           /\ Min({x, y}) \in {x, y} /\ Max({x, y}) \in {x, y} /\ Min({x, y}) # Max({x, y})
           /\ {x, y} = {Min({x, y}), Max({x, y})}
<1> DEFINE S == {x, y}
<1>1. Cardinality(S) # 1
  <2>1. IsFiniteSet({x}) /\ IsFiniteSet({y}) /\ IsFiniteSet(S)
    <3>1. IsFiniteSet({x}) BY FS_Singleton
    <3>2. {x} \cup {y} = S OBVIOUS
    <3>3. IsFiniteSet({x} \cup {y}) BY <3>1, FS_AddElement
    <3> QED BY <3>2, <3>3, FS_Singleton
  <2>2. ~ \E z : S = {z} OBVIOUS
  <2> HIDE DEF S
  <2> QED BY <2>1, <2>2, FS_Singleton
<1>2. \E z \in S : \A w \in S : z >= w
  <2>1. CASE x > y BY <2>1
  <2>2. CASE ~(x > y) BY <2>2
  <2> QED BY <2>1, <2>2
<1>3. Max(S) \in S /\ \A w \in S : Max(S) >= w
  <2> DEFINE Top(z) == \A w \in S : z >= w
  <2>1. \E z \in S : Top(z) BY <1>2
  <2>2. Max(S) = CHOOSE z \in S : Top(z) BY DEF Max
  <2> HIDE DEF Top, S
  <2>3. Max(S) \in S /\ Top(Max(S)) BY <2>1, <2>2
  <2> QED BY <2>3 DEF Top
<1>4. Min(S) \in S /\ \A w \in S : Min(S) <= w
  <2>1. S \in SUBSET Nat /\ S # {} OBVIOUS
  <2> HIDE DEF S
  <2> QED BY <2>1, EarliestOf
<1> DEFINE lo == Min(S)
           hi == Max(S)
<1>5. lo \in {x, y} /\ hi \in {x, y} /\ lo <= x /\ lo <= y /\ hi >= x /\ hi >= y BY <1>3, <1>4
<1> HIDE DEF lo, hi
<1>6. lo # hi /\ {x, y} = {lo, hi} BY <1>5
<1> QED BY <1>1, <1>5, <1>6 DEF lo, hi

\* What is in the cluster that is dropped is in the one that is kept.
LEMMA MergeKeeps ==
    ASSUME NEW l, Sound(l, {}, {}), NEW keep \in DOMAIN l.row, NEW drop \in DOMAIN l.row, keep # drop
    PROVE  /\ Sound(MergeClusters(l, keep, drop), {}, {})
           /\ Rated(MergeClusters(l, keep, drop)) = Rated(l)
           /\ \A c \in Rated(l) : MergeClusters(l, keep, drop).home[c] =
                                    IF l.home[c] = drop THEN keep ELSE l.home[c]
<1> DEFINE ho == [c \in DOMAIN l.home |-> IF l.home[c] = drop THEN keep ELSE l.home[c]]
           m == [l EXCEPT !.home = ho, !.miscounted = l.miscounted \cup {keep}]
           told == Recompute(m, keep)
           n == MergeClusters(l, keep, drop)
<1>1. l \in Ledger /\ DOMAIN l.home = Rated(l) /\ Rated(l) \subseteq Members
  BY LedgerFields DEF Sound
<1>2. /\ l.home \in [Rated(l) -> Nat] /\ DOMAIN l.row \subseteq Nat \ {0} /\ l.miscounted \subseteq Nat
  BY <1>1, LedgerFields
<1>3. /\ ho \in [Rated(l) -> Nat] /\ DOMAIN ho = Rated(l)
      /\ \A c \in Rated(l) : ho[c] = IF l.home[c] = drop THEN keep ELSE l.home[c]
  BY <1>1, <1>2
<1>4. n = [told EXCEPT !.row = [k \in DOMAIN told.row \ {drop} |-> told.row[k]],
                       !.missized = told.missized \ {drop},
                       !.miscounted = told.miscounted \ {drop}]
  BY DEF MergeClusters
<1> HIDE DEF n, told, ho
<1>5. ho \in Partial(Members, Nat) BY <1>1, <1>3, PartialFacts
<1>6. /\ m.status = l.status /\ m.home = ho /\ m.row = l.row /\ m.missized = l.missized
      /\ m.miscounted = l.miscounted \cup {keep} /\ m.next = l.next /\ m.open = l.open
      /\ m.closed = l.closed /\ m.rejected = l.rejected /\ m \in Ledger
  BY <1>1, <1>2, <1>5 DEF Ledger
<1> HIDE DEF m
<1>7. Rated(m) = Rated(l) BY <1>6 DEF Rated
<1>8. ASSUME NEW j, j # keep, j # drop PROVE ActiveIn(m, j) = ActiveIn(l, j)
  BY <1>3, <1>6, <1>7, <1>8 DEF ActiveIn
<1>9. ASSUME NEW j, j # keep, j # drop PROVE Conflicts(m, j) = Conflicts(l, j)
  BY <1>6, <1>8, <1>9 DEF Conflicts
<1>10. Sound(m, {keep, drop}, {drop})
  BY <1>1, <1>3, <1>6, <1>7, <1>8, <1>9 DEF Sound, SizeRight, CountRight
<1>11. Sound(told, {drop}, {drop}) /\ SamePlaces(told, m)
  BY <1>6, <1>10, RecomputeKeeps DEF told
<1>12. told \in Ledger BY <1>11 DEF Sound
<1>13. /\ told.row \in [DOMAIN told.row -> Tally] /\ DOMAIN told.row \subseteq Nat \ {0}
       /\ told.missized \subseteq Nat /\ told.miscounted \subseteq Nat
  BY <1>12, LedgerFields
<1> DEFINE ro == [k \in DOMAIN told.row \ {drop} |-> told.row[k]]
           si == told.missized \ {drop}
           co == told.miscounted \ {drop}
<1>14. /\ ro \in [DOMAIN told.row \ {drop} -> Tally] /\ DOMAIN ro = DOMAIN told.row \ {drop}
       /\ \A k \in DOMAIN told.row \ {drop} : ro[k] = told.row[k]
       /\ si \subseteq Nat /\ co \subseteq Nat
  BY <1>13
<1>15. n = [told EXCEPT !.row = ro, !.missized = si, !.miscounted = co] BY <1>4
<1> HIDE DEF ro, si, co
<1>16. ro \in Partial(Nat \ {0}, Tally) BY <1>13, <1>14, PartialFacts
<1>17. /\ n.row = ro /\ n.missized = si /\ n.miscounted = co
       /\ n.status = told.status /\ n.home = told.home /\ n.next = told.next
       /\ n.open = told.open /\ n.closed = told.closed /\ n \in Ledger
  BY <1>12, <1>14, <1>15, <1>16 DEF Ledger
<1>18. Rated(n) = Rated(told) BY <1>17 DEF Rated
<1>19. \A j : ActiveIn(n, j) = ActiveIn(told, j) /\ Conflicts(n, j) = Conflicts(told, j)
  BY <1>17, SameActive, SameConflicts
<1>20. \A j \in DOMAIN n.row \ (n.missized \cup {}) : SizeRight(n, j)
  BY <1>11, <1>14, <1>17, <1>19 DEF Sound, SizeRight, si
<1>21. \A j \in DOMAIN n.row \ (n.miscounted \cup {}) : CountRight(n, j)
  BY <1>11, <1>14, <1>17, <1>19 DEF Sound, CountRight, co
<1>22. \A c \in Rated(n) : n.home[c] \in DOMAIN n.row \cup {0}
  BY <1>3, <1>6, <1>7, <1>11, <1>14, <1>17, <1>18 DEF SamePlaces, Rated, Sound
<1>23. Sound(n, {}, {}) BY <1>11, <1>14, <1>17, <1>18, <1>20, <1>21, <1>22 DEF Sound
<1>24. n.home = ho /\ Rated(n) = Rated(l)
  BY <1>6, <1>7, <1>11, <1>17, <1>18 DEF SamePlaces, Rated
<1> QED BY <1>3, <1>23, <1>24 DEF n

\* Claims that are in one cluster stay so, and the two sides come to be.
Together(n, l) == \A c, d \in Rated(l) : l.home[c] = l.home[d] => n.home[c] = n.home[d]

\* Claims that are merged across share a cluster after, and who shared one still does.
LEMMA AcrossKeeps ==
    ASSUME NEW l, Sound(l, {}, {}), Housed(l), NEW a \in Rated(l), NEW b \in Rated(l)
    PROVE  LET n == MergeAcross(l, {a, b})
           IN  /\ Sound(n, {}, {}) /\ Housed(n) /\ Rated(n) = Rated(l)
               /\ n.home[a] = n.home[b] /\ Together(n, l)
<1> DEFINE x == l.home[a]
           y == l.home[b]
           n == MergeAcross(l, {a, b})
<1>1. {l.home[c] : c \in {a, b}} = {x, y} OBVIOUS
<1>2. n = IF Cardinality({x, y}) = 1 THEN l ELSE MergeClusters(l, Min({x, y}), Max({x, y}))
  BY <1>1 DEF MergeAcross
<1>3. l \in Ledger /\ x \in DOMAIN l.row /\ y \in DOMAIN l.row /\ DOMAIN l.row \subseteq Nat \ {0}
  BY LedgerFields DEF Sound, Housed
<1>4. CASE x = y
  <2>1. Cardinality({x, y}) = 1
    <3>1. {x, y} = {x} BY <1>4
    <3> QED BY <3>1, FS_Singleton
  <2>2. n = l BY <1>2, <2>1
  <2>3. n.home[a] = n.home[b] BY <1>4, <2>2
  <2>4. Together(n, l) BY <2>2 DEF Together
  <2> HIDE DEF n
  <2> QED BY <2>2, <2>3, <2>4 DEF n
<1>5. CASE x # y
  <2> DEFINE keep == Min({x, y})
             drop == Max({x, y})
  <2>1. x \in Nat /\ y \in Nat BY <1>3
  <2> HIDE DEF x, y
  <2>2. /\ Cardinality({x, y}) # 1 /\ keep \in {x, y} /\ drop \in {x, y} /\ keep # drop
        /\ {x, y} = {keep, drop}
    BY <1>5, <2>1, TwoEnds
  <2>3. n = MergeClusters(l, keep, drop) BY <1>2, <2>2
  <2> HIDE DEF keep, drop, n
  <2>4. keep \in DOMAIN l.row /\ drop \in DOMAIN l.row BY <1>3, <2>2
  <2>5. /\ Sound(n, {}, {}) /\ Rated(n) = Rated(l)
        /\ \A c \in Rated(l) : n.home[c] = IF l.home[c] = drop THEN keep ELSE l.home[c]
    BY <2>2, <2>3, <2>4, MergeKeeps
  <2>6. keep # 0 BY <1>3, <2>4
  <2>7. Housed(n) BY <2>5, <2>6 DEF Housed
  <2>8. Together(n, l) BY <2>5 DEF Together
  <2>9. n.home[a] = keep /\ n.home[b] = keep BY <2>2, <2>5 DEF x, y
  <2> QED BY <2>5, <2>7, <2>8, <2>9 DEF n
<1> QED BY <1>4, <1>5

\* What has been judged of a ledger: who is where is as it was.
ClusterJudged(l) == {j \in [l : Ledger, deferred : Seq(Sides(Rated(l)))] :
                 Sound(j.l, {}, {}) /\ j.l.home = l.home /\ Rated(j.l) = Rated(l)}

\* A verdict on one two keeps the counts, and defers only pairs of claims.
LEMMA JudgePairKeeps ==
    ASSUME NEW l, NEW j \in ClusterJudged(l), NEW two \in Sides(Rated(l)), NEW verdict \in Verdicts
    PROVE  JudgePair(j, two, verdict) \in ClusterJudged(l)
<1>1. /\ j \in [l : Ledger, deferred : Seq(Sides(Rated(l)))]
      /\ Sound(j.l, {}, {}) /\ j.l.home = l.home /\ Rated(j.l) = Rated(l)
      /\ two[1] \in Rated(j.l) /\ two[2] \in Rated(j.l)
  BY DEF ClusterJudged, Sides
<1>2. ASSUME NEW m, Sound(m, {}, {}), m.home = l.home, Rated(m) = Rated(l)
      PROVE  [j EXCEPT !.l = m] \in ClusterJudged(l)
  BY <1>1, <1>2 DEF Sound, ClusterJudged
<1>3. CASE verdict = "unrelated" \/ j.l.status[two[2]] = "superseded" BY <1>3 DEF JudgePair
<1>4. CASE ~(verdict = "unrelated" \/ j.l.status[two[2]] = "superseded")
  <2>1. CASE verdict = "weak"
    <3> DEFINE m == OpenConflict(j.l, two[1], two[2])
    <3>1. JudgePair(j, two, verdict) = [j EXCEPT !.l = m] BY <1>4, <2>1 DEF JudgePair
    <3> HIDE DEF m
    <3>2. Sound(m, {}, {}) /\ m.home = l.home /\ Rated(m) = Rated(l) BY <1>1, OpenKeeps DEF m
    <3> QED BY <1>2, <3>1, <3>2
  <2>2. CASE verdict = "strong"
    <3>1. JudgePair(j, two, verdict) = [j EXCEPT !.deferred = Append(j.deferred, two)]
      BY <1>4, <2>2 DEF JudgePair
    <3>2. Append(j.deferred, two) \in Seq(Sides(Rated(l))) BY <1>1
    <3> DEFINE n == [j EXCEPT !.deferred = Append(j.deferred, two)]
    <3>3. n \in [l : Ledger, deferred : Seq(Sides(Rated(l)))] /\ n.l = j.l BY <1>1, <3>2
    <3> QED BY <1>1, <3>1, <3>3 DEF ClusterJudged
  <2>3. CASE verdict = "supersedes"
    <3> DEFINE m == Supersede(j.l, two[2])
    <3>1. JudgePair(j, two, verdict) = [j EXCEPT !.l = m] BY <1>4, <2>3 DEF JudgePair
    <3> HIDE DEF m
    <3>2. Sound(m, {}, {}) /\ m.home = l.home /\ Rated(m) = Rated(l)
      BY <1>1, SupersedeKeeps DEF m
    <3> QED BY <1>2, <3>1, <3>2
  <2>4. CASE verdict = "outdated"
    <3> DEFINE m == Supersede(j.l, two[1])
    <3>1. JudgePair(j, two, verdict) = [j EXCEPT !.l = m] BY <1>4, <2>4 DEF JudgePair
    <3> HIDE DEF m
    <3>2. Sound(m, {}, {}) /\ m.home = l.home /\ Rated(m) = Rated(l)
      BY <1>1, SupersedeKeeps DEF m
    <3> QED BY <1>2, <3>1, <3>2
  <2> QED BY <1>4, <2>1, <2>2, <2>3, <2>4 DEF Verdicts
<1> QED BY <1>3, <1>4

-----------------------------------------------------------------------------
(* Claims one by one, and pairs.                                            *)

\* A sequence is what its elements are.
LEMMA SeqIs ==
    ASSUME NEW S, NEW s \in Seq(S)
    PROVE  Len(s) \in Nat /\ DOMAIN s = 1..Len(s) /\ \A i \in 1..Len(s) : s[i] \in S
BY LenProperties

\* Claims in order are each of them once.
LEMMA InOrderFacts ==
    ASSUME NEW C \in SUBSET Members
    PROVE  /\ InOrder(C) \in Seq(C) /\ Len(InOrder(C)) = Cardinality(C) /\ Cardinality(C) \in Nat
           /\ \A n \in 1..Cardinality(C) : InOrder(C)[n] \in C
           /\ \A c \in C : \E n \in DOMAIN InOrder(C) : InOrder(C)[n] = c
<1>1. C \in SUBSET Nat /\ IsFiniteSet(C)
  <2>1. Cardinality(Members) \in Nat BY ClustersAssumption, FS_CardinalityType
  <2>2. Members \subseteq Nat BY <2>1, ClustersAssumption
  <2> QED BY <2>2, ManyAtMost
<1>2. /\ Cardinality(C) \in Nat
      /\ \A n \in 1..Cardinality(C) : NthOf(C, n) \in C
      /\ \A c \in C : \E n \in 1..Cardinality(C) : NthOf(C, n) = c
  BY <1>1, PlacesRanked
<1>3. InOrder(C) = [n \in 1..Cardinality(C) |-> NthOf(C, n)] BY DEF InOrder, NthOf
<1>4. InOrder(C) \in [1..Cardinality(C) -> C]
  <2> HIDE DEF InOrder
  <2> QED BY <1>2, <1>3
<1> HIDE DEF InOrder
<1>5. InOrder(C) \in Seq(C) /\ Len(InOrder(C)) = Cardinality(C) BY <1>2, <1>4, LengthOf
<1> QED BY <1>2, <1>3, <1>5

\* Ledgers in which the claims of the batch may have moved, and no other.
MovedOf(l, batch) ==
    {n \in Ledger : /\ Sound(n, {}, {}) /\ n.status = l.status /\ n.open = l.open
                    /\ n.closed = l.closed
                    /\ \A d \in Rated(l) \ batch : n.home[d] = l.home[d]}

\* A batch of claims is assigned one by one: each has a home, and no other moved.
LEMMA AssignEachKeeps ==
    ASSUME NEW l, Sound(l, {}, {}), NEW batch \in SUBSET Rated(l),
           \A c \in batch : l.status[c] = "active", \A p \in l.open : p \cap batch = {},
           NEW order \in Seq(batch)
    PROVE  /\ AssignEach(l, order) \in MovedOf(l, batch)
           /\ \A i \in DOMAIN order : AssignEach(l, order).home[order[i]] # 0
<1> DEFINE N == Len(order)
           T == MovedOf(l, batch)
<1>1. N \in Nat /\ DOMAIN order = 1..N /\ \A n \in 1..N : order[n] \in batch BY SeqIs
<1>2. l \in T BY DEF MovedOf, Sound
<1>3. \A n \in 1..N : \A m \in T : AssignCluster(m, order[n]) \in T
  <2> SUFFICES ASSUME NEW n \in 1..N, NEW m \in T PROVE AssignCluster(m, order[n]) \in T OBVIOUS
  <2> DEFINE c == order[n]
             k == AssignCluster(m, c)
  <2>1. /\ Sound(m, {}, {}) /\ m.status = l.status /\ m.open = l.open /\ m.closed = l.closed
        /\ \A d \in Rated(l) \ batch : m.home[d] = l.home[d]
    BY DEF MovedOf
  <2>2. c \in batch /\ Rated(m) = Rated(l) BY <1>1, <2>1 DEF Rated
  <2> HIDE DEF c, k
  <2>3. c \in Rated(m) /\ m.status[c] = "active" /\ \A p \in m.open : c \notin p BY <2>1, <2>2
  <2>4. /\ Sound(k, {}, {}) /\ k.status = m.status /\ k.open = m.open /\ k.closed = m.closed
        /\ \A d \in Rated(m) \ {c} : k.home[d] = m.home[d]
    BY <2>1, <2>3, AssignKeeps DEF k
  <2>5. k \in Ledger BY <2>4 DEF Sound
  <2>6. \A d \in Rated(l) \ batch : k.home[d] = l.home[d] BY <2>1, <2>2, <2>4
  <2>7. k \in T BY <2>1, <2>4, <2>5, <2>6 DEF MovedOf
  <2> QED BY <2>7 DEF c, k
<1>4. \A p \in (1..N) \X T : p[1] \in 1..N /\ p[2] \in T OBVIOUS
<1> HIDE DEF N, T
<1> DEFINE Whole(f) == f = [n \in 0..N |-> IF n = 0 THEN l ELSE AssignCluster(f[n - 1], order[n])]
           g == [p \in (1..N) \X T |-> AssignCluster(p[2], order[p[1]])]
<1>5. g \in [(1..N) \X T -> T] BY <1>3, <1>4
<1>6. PICK f : Iterates(f, N, T, l, g)
  <2> HIDE DEF g
  <2> QED BY <1>1, <1>2, <1>5, Iterated
<1>7. f \in [0..N -> T] /\ f[0] = l /\ \A n \in 1..N : f[n] = AssignCluster(f[n - 1], order[n])
  <2>1. f \in [0..N -> T] /\ f[0] = l /\ \A n \in 1..N : f[n] = g[<<n, f[n - 1]>>]
    <3> HIDE DEF g
    <3> QED BY <1>6 DEF Iterates
  <2>2. \A n \in 1..N : f[n - 1] \in T
    <3> HIDE DEF g
    <3> QED BY <1>1, <2>1
  <2> QED BY <2>1, <2>2
<1>8. Whole(f)
  <2> HIDE DEF g
  <2>1. \A n \in 0..N : f[n] = IF n = 0 THEN l ELSE AssignCluster(f[n - 1], order[n])
    BY <1>1, <1>7
  <2> QED BY <1>7, <2>1
<1> DEFINE to == CHOOSE h : Whole(h)
<1>9. Whole(to)
  <2> HIDE DEF Whole
  <2> QED BY <1>8
<1>10. to = [n \in 0..N |-> IF n = 0 THEN l ELSE AssignCluster(to[n - 1], order[n])]
  <2> HIDE DEF to
  <2> QED BY <1>9
<1>11. AssignEach(l, order) = to[N] BY DEF AssignEach, N
<1> HIDE DEF to, Whole, g
<1>12. to[0] = l /\ \A n \in 1..N : to[n] = AssignCluster(to[n - 1], order[n]) BY <1>1, <1>10
<1> DEFINE P == {n \in 0..N : to[n] \in T /\ \A i \in 1..n : to[n].home[order[i]] # 0}
<1>13. 0 \in P BY <1>1, <1>2, <1>12
<1>14. ASSUME NEW n \in 1..N, n - 1 \in P PROVE n \in P
  <2> DEFINE m == to[n - 1]
             k == to[n]
             c == order[n]
  <2>1. m \in T /\ \A i \in 1..(n - 1) : m.home[order[i]] # 0 BY <1>14
  <2>2. k = AssignCluster(m, c) /\ k \in T /\ c \in batch BY <1>1, <1>3, <1>12, <2>1
  <2> HIDE DEF m, k, P
  <2>3. Sound(m, {}, {}) /\ m.status = l.status /\ m.open = l.open /\ Rated(m) = Rated(l)
    BY <2>1 DEF MovedOf, T, Rated
  <2>4. c \in Rated(m) /\ m.status[c] = "active" /\ \A p \in m.open : c \notin p
    <3> HIDE DEF c
    <3> QED BY <2>2, <2>3
  <2>5. k.home[c] # 0 /\ \A d \in Rated(m) \ {c} : k.home[d] = m.home[d]
    <3> HIDE DEF c
    <3> QED BY <2>2, <2>3, <2>4, AssignKeeps
  <2>6. ASSUME NEW i \in 1..n PROVE k.home[order[i]] # 0
    <3>1. CASE order[i] = c BY <2>5, <3>1
    <3>2. CASE order[i] # c BY <1>1, <2>1, <2>3, <2>5, <3>2 DEF c
    <3> QED BY <3>1, <3>2
  <2>7. n \in 0..N BY <1>1
  <2> QED BY <2>2, <2>6, <2>7 DEF P, k
<1> HIDE DEF P
<1>15. N \in P
  <2>1. N \in Nat BY <1>1
  <2>2. \A n \in 1..N : n - 1 \in P => n \in P BY <1>14
  <2>3. \A n \in 0..N : n \in P BY <1>13, <2>1, <2>2, CountsUpTo
  <2> QED BY <2>1, <2>3
<1>16. to[N] \in T /\ \A i \in 1..N : to[N].home[order[i]] # 0 BY <1>15 DEF P
<1> QED BY <1>1, <1>11, <1>16 DEF T

\* Pairs judged one by one leave a ledger that is sound after each.
LEMMA JudgedEachKeeps ==
    ASSUME NEW l, Sound(l, {}, {}), NEW pairs \in Seq(Sides(Rated(l))),
           NEW says \in [DOMAIN pairs -> Verdicts]
    PROVE  JudgedEach(l, pairs, says) \in ClusterJudged(l)
<1> DEFINE N == Len(pairs)
           T == ClusterJudged(l)
           none == [l |-> l, deferred |-> << >>]
<1>1. N \in Nat /\ DOMAIN pairs = 1..N /\ \A n \in 1..N : pairs[n] \in Sides(Rated(l)) BY SeqIs
<1>2. none \in T BY DEF Sound, ClusterJudged
<1>3. \A n \in 1..N : \A m \in T : JudgePair(m, pairs[n], says[n]) \in T BY <1>1, JudgePairKeeps
<1>4. \A p \in (1..N) \X T : p[1] \in 1..N /\ p[2] \in T OBVIOUS
<1> HIDE DEF N, T, none
<1> DEFINE Whole(f) == f = [n \in 0..N |-> IF n = 0 THEN none ELSE JudgePair(f[n - 1], pairs[n], says[n])]
           g == [p \in (1..N) \X T |-> JudgePair(p[2], pairs[p[1]], says[p[1]])]
<1>5. g \in [(1..N) \X T -> T] BY <1>3, <1>4
<1>6. PICK f : Iterates(f, N, T, none, g)
  <2> HIDE DEF g
  <2> QED BY <1>1, <1>2, <1>5, Iterated
<1>7. f \in [0..N -> T] /\ f[0] = none /\ \A n \in 1..N : f[n] = JudgePair(f[n - 1], pairs[n], says[n])
  <2>1. f \in [0..N -> T] /\ f[0] = none /\ \A n \in 1..N : f[n] = g[<<n, f[n - 1]>>]
    <3> HIDE DEF g
    <3> QED BY <1>6 DEF Iterates
  <2>2. \A n \in 1..N : f[n - 1] \in T
    <3> HIDE DEF g
    <3> QED BY <1>1, <2>1
  <2> QED BY <2>1, <2>2
<1>8. Whole(f)
  <2> HIDE DEF g
  <2>1. \A n \in 0..N : f[n] = IF n = 0 THEN none ELSE JudgePair(f[n - 1], pairs[n], says[n])
    BY <1>1, <1>7
  <2> QED BY <1>7, <2>1
<1> DEFINE to == CHOOSE h : Whole(h)
<1>9. Whole(to)
  <2> HIDE DEF Whole
  <2> QED BY <1>8
<1>10. to = [n \in 0..N |-> IF n = 0 THEN none ELSE JudgePair(to[n - 1], pairs[n], says[n])]
  <2> HIDE DEF to
  <2> QED BY <1>9
<1>11. JudgedEach(l, pairs, says) = to[N] BY DEF JudgedEach, N, none
<1> HIDE DEF to, Whole, g
<1>12. to[0] = none /\ \A n \in 1..N : to[n] = JudgePair(to[n - 1], pairs[n], says[n])
  BY <1>1, <1>10
<1> DEFINE P == {n \in 0..N : to[n] \in T}
<1>13. 0 \in P BY <1>1, <1>2, <1>12
<1>14. ASSUME NEW n \in 1..N, n - 1 \in P PROVE n \in P BY <1>1, <1>3, <1>12, <1>14
<1> HIDE DEF P
<1>15. N \in P BY <1>1, <1>13, <1>14, CountsUpTo
<1> QED BY <1>11, <1>15 DEF P, T

\* Ledgers in which every claim is where it was.
StayedOf(l) == {n \in Ledger : Sound(n, {}, {}) /\ n.home = l.home /\ Rated(n) = Rated(l)}

\* Conflicts opened one by one leave a sound ledger with nobody moved.
LEMMA OpenedEachKeeps ==
    ASSUME NEW l, Sound(l, {}, {}), NEW pairs \in Seq(Sides(Rated(l)))
    PROVE  OpenedEach(l, pairs) \in StayedOf(l)
<1> DEFINE N == Len(pairs)
           T == StayedOf(l)
<1>1. N \in Nat /\ DOMAIN pairs = 1..N /\ \A n \in 1..N : pairs[n] \in Sides(Rated(l)) BY SeqIs
<1>2. l \in T BY DEF StayedOf, Sound
<1>3. \A n \in 1..N : \A m \in T : OpenConflict(m, pairs[n][1], pairs[n][2]) \in T
  <2> SUFFICES ASSUME NEW n \in 1..N, NEW m \in T
               PROVE  OpenConflict(m, pairs[n][1], pairs[n][2]) \in T
    OBVIOUS
  <2> DEFINE k == OpenConflict(m, pairs[n][1], pairs[n][2])
  <2>1. Sound(m, {}, {}) /\ m.home = l.home /\ Rated(m) = Rated(l) BY DEF StayedOf
  <2>2. pairs[n][1] \in Rated(m) /\ pairs[n][2] \in Rated(m) BY <1>1, <2>1 DEF Sides
  <2>3. Sound(k, {}, {}) /\ k.home = m.home /\ Rated(k) = Rated(m) BY <2>1, <2>2, OpenKeeps
  <2> HIDE DEF k
  <2>4. k \in T BY <2>1, <2>3 DEF StayedOf, Sound
  <2> QED BY <2>4 DEF k
<1>4. \A p \in (1..N) \X T : p[1] \in 1..N /\ p[2] \in T OBVIOUS
<1> HIDE DEF N, T
<1> DEFINE Whole(f) == f = [n \in 0..N |-> IF n = 0 THEN l ELSE OpenConflict(f[n - 1], pairs[n][1], pairs[n][2])]
           g == [p \in (1..N) \X T |-> OpenConflict(p[2], pairs[p[1]][1], pairs[p[1]][2])]
<1>5. g \in [(1..N) \X T -> T] BY <1>3, <1>4
<1>6. PICK f : Iterates(f, N, T, l, g)
  <2> HIDE DEF g
  <2> QED BY <1>1, <1>2, <1>5, Iterated
<1>7. f \in [0..N -> T] /\ f[0] = l /\ \A n \in 1..N : f[n] = OpenConflict(f[n - 1], pairs[n][1], pairs[n][2])
  <2>1. f \in [0..N -> T] /\ f[0] = l /\ \A n \in 1..N : f[n] = g[<<n, f[n - 1]>>]
    <3> HIDE DEF g
    <3> QED BY <1>6 DEF Iterates
  <2>2. \A n \in 1..N : f[n - 1] \in T
    <3> HIDE DEF g
    <3> QED BY <1>1, <2>1
  <2> QED BY <2>1, <2>2
<1>8. Whole(f)
  <2> HIDE DEF g
  <2>1. \A n \in 0..N : f[n] = IF n = 0 THEN l ELSE OpenConflict(f[n - 1], pairs[n][1], pairs[n][2])
    BY <1>1, <1>7
  <2> QED BY <1>7, <2>1
<1> DEFINE to == CHOOSE h : Whole(h)
<1>9. Whole(to)
  <2> HIDE DEF Whole
  <2> QED BY <1>8
<1>10. to = [n \in 0..N |-> IF n = 0 THEN l ELSE OpenConflict(to[n - 1], pairs[n][1], pairs[n][2])]
  <2> HIDE DEF to
  <2> QED BY <1>9
<1>11. OpenedEach(l, pairs) = to[N] BY DEF OpenedEach, N
<1> HIDE DEF to, Whole, g
<1>12. to[0] = l /\ \A n \in 1..N : to[n] = OpenConflict(to[n - 1], pairs[n][1], pairs[n][2])
  BY <1>1, <1>10
<1> DEFINE P == {n \in 0..N : to[n] \in T}
<1>13. 0 \in P BY <1>1, <1>2, <1>12
<1>14. ASSUME NEW n \in 1..N, n - 1 \in P PROVE n \in P BY <1>1, <1>3, <1>12, <1>14
<1> HIDE DEF P
<1>15. N \in P BY <1>1, <1>13, <1>14, CountsUpTo
<1> QED BY <1>11, <1>15 DEF P, T

\* Ledgers in which clusters may have come together.
MergedOf(l) == {n \in Ledger : /\ Sound(n, {}, {}) /\ Housed(n) /\ Rated(n) = Rated(l)
                               /\ Together(n, l)}

\* Pairs merged one by one each share a cluster at the end: no later merge parts them.
LEMMA MergedEachKeeps ==
    ASSUME NEW l, Sound(l, {}, {}), Housed(l), NEW pairs \in Seq(Sides(Rated(l)))
    PROVE  /\ MergedEach(l, pairs) \in MergedOf(l)
           /\ \A i \in DOMAIN pairs :
                MergedEach(l, pairs).home[pairs[i][1]] = MergedEach(l, pairs).home[pairs[i][2]]
<1> DEFINE N == Len(pairs)
           T == MergedOf(l)
<1>1. /\ N \in Nat /\ DOMAIN pairs = 1..N
      /\ \A n \in 1..N : pairs[n][1] \in Rated(l) /\ pairs[n][2] \in Rated(l)
  BY SeqIs DEF Sides
<1>2. l \in T BY DEF MergedOf, Sound, Together
<1>3. \A n \in 1..N : \A m \in T : MergeAcross(m, {pairs[n][1], pairs[n][2]}) \in T
  <2> SUFFICES ASSUME NEW n \in 1..N, NEW m \in T
               PROVE  MergeAcross(m, {pairs[n][1], pairs[n][2]}) \in T
    OBVIOUS
  <2> DEFINE k == MergeAcross(m, {pairs[n][1], pairs[n][2]})
  <2>1. Sound(m, {}, {}) /\ Housed(m) /\ Rated(m) = Rated(l) /\ Together(m, l) BY DEF MergedOf
  <2>2. pairs[n][1] \in Rated(m) /\ pairs[n][2] \in Rated(m) BY <1>1, <2>1
  <2>3. Sound(k, {}, {}) /\ Housed(k) /\ Rated(k) = Rated(m) /\ Together(k, m)
    BY <2>1, <2>2, AcrossKeeps
  <2> HIDE DEF k
  <2>4. Together(k, l) BY <2>1, <2>3 DEF Together
  <2>5. k \in T BY <2>1, <2>3, <2>4 DEF MergedOf, Sound
  <2> QED BY <2>5 DEF k
<1>4. \A p \in (1..N) \X T : p[1] \in 1..N /\ p[2] \in T OBVIOUS
<1> HIDE DEF N, T
<1> DEFINE Whole(f) == f = [n \in 0..N |-> IF n = 0 THEN l ELSE MergeAcross(f[n - 1], {pairs[n][1], pairs[n][2]})]
           g == [p \in (1..N) \X T |-> MergeAcross(p[2], {pairs[p[1]][1], pairs[p[1]][2]})]
<1>5. g \in [(1..N) \X T -> T] BY <1>3, <1>4
<1>6. PICK f : Iterates(f, N, T, l, g)
  <2> HIDE DEF g
  <2> QED BY <1>1, <1>2, <1>5, Iterated
<1>7. f \in [0..N -> T] /\ f[0] = l /\ \A n \in 1..N : f[n] = MergeAcross(f[n - 1], {pairs[n][1], pairs[n][2]})
  <2>1. f \in [0..N -> T] /\ f[0] = l /\ \A n \in 1..N : f[n] = g[<<n, f[n - 1]>>]
    <3> HIDE DEF g
    <3> QED BY <1>6 DEF Iterates
  <2>2. \A n \in 1..N : f[n - 1] \in T
    <3> HIDE DEF g
    <3> QED BY <1>1, <2>1
  <2> QED BY <2>1, <2>2
<1>8. Whole(f)
  <2> HIDE DEF g
  <2>1. \A n \in 0..N : f[n] = IF n = 0 THEN l ELSE MergeAcross(f[n - 1], {pairs[n][1], pairs[n][2]})
    BY <1>1, <1>7
  <2> QED BY <1>7, <2>1
<1> DEFINE to == CHOOSE h : Whole(h)
<1>9. Whole(to)
  <2> HIDE DEF Whole
  <2> QED BY <1>8
<1>10. to = [n \in 0..N |-> IF n = 0 THEN l ELSE MergeAcross(to[n - 1], {pairs[n][1], pairs[n][2]})]
  <2> HIDE DEF to
  <2> QED BY <1>9
<1>11. MergedEach(l, pairs) = to[N] BY DEF MergedEach, N
<1> HIDE DEF to, Whole, g
<1>12. to[0] = l /\ \A n \in 1..N : to[n] = MergeAcross(to[n - 1], {pairs[n][1], pairs[n][2]})
  BY <1>1, <1>10
<1> DEFINE P == {n \in 0..N : to[n] \in T /\ \A i \in 1..n : to[n].home[pairs[i][1]] = to[n].home[pairs[i][2]]}
<1>13. 0 \in P BY <1>1, <1>2, <1>12
<1>14. ASSUME NEW n \in 1..N, n - 1 \in P PROVE n \in P
  <2> DEFINE m == to[n - 1]
             k == to[n]
             a == pairs[n][1]
             b == pairs[n][2]
  <2>1. m \in T /\ \A i \in 1..(n - 1) : m.home[pairs[i][1]] = m.home[pairs[i][2]] BY <1>14
  <2>2. k = MergeAcross(m, {a, b}) /\ k \in T /\ a \in Rated(l) /\ b \in Rated(l)
    BY <1>1, <1>3, <1>12, <2>1
  <2> HIDE DEF m, k, P
  <2>3. Sound(m, {}, {}) /\ Housed(m) /\ Rated(m) = Rated(l) BY <2>1 DEF MergedOf, T
  <2>4. k.home[a] = k.home[b] /\ Together(k, m)
    <3> HIDE DEF a, b
    <3> QED BY <2>2, <2>3, AcrossKeeps
  <2>5. ASSUME NEW i \in 1..n PROVE k.home[pairs[i][1]] = k.home[pairs[i][2]]
    <3>1. CASE i = n BY <2>4, <3>1
    <3>2. CASE i # n BY <1>1, <2>1, <2>3, <2>4, <3>2 DEF Together
    <3> QED BY <3>1, <3>2
  <2>6. n \in 0..N BY <1>1
  <2> QED BY <2>2, <2>5, <2>6 DEF P, k
<1> HIDE DEF P
<1>15. N \in P
  <2>1. N \in Nat BY <1>1
  <2>2. \A n \in 1..N : n - 1 \in P => n \in P BY <1>14
  <2>3. \A n \in 0..N : n \in P BY <1>13, <2>1, <2>2, CountsUpTo
  <2> QED BY <2>1, <2>3
<1>16. to[N] \in T /\ \A i \in 1..N : to[N].home[pairs[i][1]] = to[N].home[pairs[i][2]]
  BY <1>15 DEF P
<1> QED BY <1>1, <1>11, <1>16 DEF T

\* The pairs to be judged are pairs of claims.
LEMMA PairsAreSides ==
    ASSUME NEW l \in Ledger, NEW batch \in SUBSET Rated(l)
    PROVE  Pairs(l, batch) \in Seq(Sides(Rated(l)))
<1> DEFINE Others(c) == {d \in Rated(l) : VersionOf[d] # VersionOf[c] /\ ~(d \in batch /\ d < c)}
           of(c) == [i \in DOMAIN InOrder(Others(c)) |-> <<c, InOrder(Others(c))[i]>>]
           lines == [i \in DOMAIN InOrder(batch) |-> of(InOrder(batch)[i])]
           S == Sides(Rated(l))
<1>1. Rated(l) \subseteq Members BY LedgerFields
<1>2. ASSUME NEW c \in batch PROVE of(c) \in Seq(S)
  <2> DEFINE C == Others(c)
             n == Cardinality(C)
  <2>1. C \in SUBSET Members /\ C \subseteq Rated(l) BY <1>1
  <2>2. /\ InOrder(C) \in Seq(C) /\ n \in Nat /\ Len(InOrder(C)) = n
        /\ \A i \in 1..n : InOrder(C)[i] \in C
    <3> HIDE DEF C
    <3> QED BY <2>1, InOrderFacts
  <2>3. DOMAIN InOrder(C) = 1..n
    <3> HIDE DEF C
    <3> QED BY <2>2, SeqIs
  <2>4. of(c) = [i \in 1..n |-> <<c, InOrder(C)[i]>>] BY <2>3
  <2> HIDE DEF C, of
  <2>5. of(c) \in [1..n -> S] BY <2>1, <2>2, <2>4 DEF Sides
  <2> QED BY <2>2, <2>5, LengthOf
<1>3. lines \in Seq(Seq(S))
  <2> DEFINE n == Cardinality(batch)
  <2>1. batch \in SUBSET Members BY <1>1
  <2>2. /\ InOrder(batch) \in Seq(batch) /\ n \in Nat /\ Len(InOrder(batch)) = n
        /\ \A i \in 1..n : InOrder(batch)[i] \in batch
    BY <2>1, InOrderFacts
  <2>3. DOMAIN InOrder(batch) = 1..n BY <2>2, SeqIs
  <2>4. lines = [i \in 1..n |-> of(InOrder(batch)[i])] BY <2>3
  <2> HIDE DEF of, lines, S
  <2>5. lines \in [1..n -> Seq(S)] BY <1>2, <2>2, <2>4
  <2> QED BY <2>2, <2>5, LengthOf
<1>4. Pairs(l, batch) = FlattenSeq(lines) BY DEF Pairs
<1> HIDE DEF lines, S
<1>5. Pairs(l, batch) \in Seq(S) BY <1>3, <1>4, FlattenFacts
<1> QED BY <1>5 DEF S

\* Sides that are in one cluster.
SharesHome(l, p) == p # {} /\ p \subseteq Rated(l) /\ \A c, d \in p : l.home[c] = l.home[d]

\* judge_relations leaves a sound ledger in which strongly related claims share a cluster.
LEMMA JudgingKeeps ==
    ASSUME NEW l, Sound(l, {}, {}), Housed(l), NEW pairs \in Seq(Sides(Rated(l))),
           NEW says \in [DOMAIN pairs -> Verdicts]
    PROVE  LET out == JudgeRelations(l, pairs, says)
           IN  /\ Sound(out.l, {}, {}) /\ Housed(out.l) /\ Rated(out.l) = Rated(l)
               /\ Together(out.l, l)
               /\ \A p \in out.strong : SharesHome(out.l, p)
<1> DEFINE decided == JudgedEach(l, pairs, says)
           opened == OpenedEach(decided.l, decided.deferred)
           merged == MergedEach(opened, decided.deferred)
           R == Rated(l)
           ds == decided.deferred
<1>1. decided \in ClusterJudged(l) BY JudgedEachKeeps
<1>2. JudgeRelations(l, pairs, says) =
        [l |-> merged, strong |-> {{two[1], two[2]} : two \in Range(ds)}]
  BY DEF JudgeRelations
<1> HIDE DEF decided
<1>3. /\ Sound(decided.l, {}, {}) /\ decided.l.home = l.home /\ Rated(decided.l) = R
      /\ ds \in Seq(Sides(R))
  BY <1>1 DEF ClusterJudged
<1>4. opened \in StayedOf(decided.l) BY <1>3, OpenedEachKeeps
<1> HIDE DEF opened, ds, R
<1>5. Sound(opened, {}, {}) /\ opened.home = l.home /\ Rated(opened) = R
  BY <1>3, <1>4 DEF StayedOf
<1>6. Housed(opened) BY <1>5 DEF Housed, R
<1>7. /\ merged \in MergedOf(opened)
      /\ \A i \in DOMAIN ds : merged.home[ds[i][1]] = merged.home[ds[i][2]]
  BY <1>3, <1>5, <1>6, MergedEachKeeps DEF ds
<1> HIDE DEF merged
<1>8. /\ Sound(merged, {}, {}) /\ Housed(merged) /\ Rated(merged) = R /\ Together(merged, opened)
  BY <1>5, <1>7 DEF MergedOf
<1>9. Together(merged, l) BY <1>5, <1>8 DEF Together, R
<1>10. ASSUME NEW i \in DOMAIN ds PROVE SharesHome(merged, {ds[i][1], ds[i][2]})
  BY <1>3, <1>7, <1>8, SeqIs DEF Sides, SharesHome
<1>11. \A p \in {{two[1], two[2]} : two \in Range(ds)} : SharesHome(merged, p)
  BY <1>10 DEF Range
<1> HIDE DEF JudgeRelations
<1> QED BY <1>2, <1>8, <1>9, <1>11 DEF R

-----------------------------------------------------------------------------
(* Clusters: what every step keeps.                                         *)

ClustersInv ==
    /\ Sound(ledger, {}, {}) /\ Housed(ledger)
    /\ \A p \in strong : SharesHome(ledger, p)

\* The invariant holds before the first document.
LEMMA ClustersInvInit == ClustersInit => ClustersInv
<1> SUFFICES ASSUME ClustersInit PROVE ClustersInv OBVIOUS
<1>1. /\ ledger.status = << >> /\ ledger.home = << >> /\ ledger.row = << >> /\ ledger.next = 1
      /\ ledger.open = {} /\ ledger.closed = {} /\ strong = {}
  BY DEF ClustersInit
<1>2. DOMAIN ledger.status = {} /\ DOMAIN ledger.home = {} /\ DOMAIN ledger.row = {} BY <1>1
<1>3. << >> \in Partial(Members, Standings) /\ << >> \in Partial(Members, Nat)
      /\ << >> \in Partial(Nat \ {0}, Tally)
  <2>1. \A T : << >> \in [{} -> T] OBVIOUS
  <2> QED BY <2>1, PartialFacts
<1>4. ledger \in Ledger BY <1>3 DEF ClustersInit, Ledger
<1> QED BY <1>1, <1>2, <1>4 DEF ClustersInv, Sound, Housed, Rated

\* Extraction assigns and judges its claims, and the ledger stays sound.
LEMMA ExtractKeeps ==
    ASSUME ClustersInv, ExtractClaims
    PROVE  ClustersInv'
<1> DEFINE Stored(batch) == [ledger EXCEPT !.status = Given(@, batch, "active"),
                                           !.home = Given(@, batch, 0)]
<1>1. PICK batch \in Batches :
        \E says \in [DOMAIN Pairs(Stored(batch), batch) -> Verdicts] :
           LET out == JudgeRelations(AssignClusters(Stored(batch), batch),
                                     Pairs(Stored(batch), batch), says)
           IN  ledger' = out.l /\ strong' = strong \cup out.strong
  BY DEF ExtractClaims
<1> DEFINE l == ledger
           st == Given(l.status, batch, "active")
           ho == Given(l.home, batch, 0)
           m == Stored(batch)
           a == AssignClusters(m, batch)
           pairs == Pairs(m, batch)
<1>2. PICK says \in [DOMAIN pairs -> Verdicts] :
        LET out == JudgeRelations(a, pairs, says)
        IN  ledger' = out.l /\ strong' = strong \cup out.strong
  BY <1>1
<1>3. l \in Ledger /\ DOMAIN l.home = Rated(l) /\ Rated(l) \subseteq Members
      /\ Sound(l, {}, {}) /\ Housed(l)
  BY LedgerFields DEF ClustersInv, Sound
<1>4. l.status \in [Rated(l) -> Standings] /\ l.home \in [Rated(l) -> Nat]
      /\ DOMAIN l.row \subseteq Nat \ {0}
  BY <1>3, LedgerFields
<1>5. batch \subseteq Members /\ batch \cap Rated(l) = {} BY DEF Batches
<1>6. m = [l EXCEPT !.status = st, !.home = ho] OBVIOUS
<1> DEFINE R == Rated(l) \cup batch
<1>7. /\ DOMAIN st = R /\ DOMAIN ho = R
      /\ \A c \in batch : st[c] = "active" /\ ho[c] = 0
      /\ \A c \in Rated(l) : st[c] = l.status[c] /\ ho[c] = l.home[c]
  BY <1>3, <1>5 DEF Given, Rated
<1>8. st \in [R -> Standings] /\ ho \in [R -> Nat]
  <2>1. \A c \in R : st[c] \in Standings /\ ho[c] \in Nat BY <1>4, <1>7 DEF Standings
  <2>2. st = [c \in R |-> st[c]] /\ ho = [c \in R |-> ho[c]] BY <1>7 DEF Given
  <2> HIDE DEF st, ho
  <2> QED BY <2>1, <2>2
<1> HIDE DEF m, st, ho, a, pairs, Stored
<1>9. st \in Partial(Members, Standings) /\ ho \in Partial(Members, Nat)
  BY <1>3, <1>5, <1>8, PartialFacts
<1>10. /\ m.status = st /\ m.home = ho /\ m.row = l.row /\ m.missized = l.missized
       /\ m.miscounted = l.miscounted /\ m.next = l.next /\ m.open = l.open
       /\ m.closed = l.closed /\ m.rejected = l.rejected /\ m \in Ledger
  BY <1>3, <1>6, <1>9 DEF Ledger
<1>11. Rated(m) = R BY <1>7, <1>10 DEF Rated
<1>12. ASSUME NEW k \in DOMAIN l.row
       PROVE  ActiveIn(m, k) = ActiveIn(l, k) /\ Conflicts(m, k) = Conflicts(l, k)
  BY <1>4, <1>7, <1>10, <1>11 DEF ActiveIn, Conflicts
<1>13. Sound(m, {}, {}) BY <1>3, <1>7, <1>10, <1>11, <1>12 DEF Sound, SizeRight, CountRight
<1> DEFINE order == InOrder(batch) \o InOrder(batch)
<1>14. order \in Seq(batch) /\ \A c \in batch : \E i \in DOMAIN order : order[i] = c
  <2> DEFINE o == InOrder(batch)
  <2>1. batch \in SUBSET Members BY <1>5
  <2>2. o \in Seq(batch) /\ \A c \in batch : \E i \in DOMAIN o : o[i] = c BY <2>1, InOrderFacts
  <2> HIDE DEF o
  <2>3. /\ o \o o \in Seq(batch) /\ Len(o) \in Nat /\ Len(o \o o) = Len(o) + Len(o)
        /\ \A i \in 1..Len(o) : (o \o o)[i] = o[i]
    BY <2>2, SeqIs, ConcatProperties
  <2>4. DOMAIN o = 1..Len(o) /\ DOMAIN (o \o o) = 1..(Len(o) + Len(o)) BY <2>2, <2>3, SeqIs
  <2>5. \A i \in DOMAIN o : i \in DOMAIN (o \o o) /\ (o \o o)[i] = o[i] BY <2>3, <2>4
  <2>6. o \o o \in Seq(batch) /\ \A c \in batch : \E i \in DOMAIN (o \o o) : (o \o o)[i] = c
    BY <2>2, <2>3, <2>5
  <2> QED BY <2>6 DEF o
<1>15. a = AssignEach(m, order) BY DEF AssignClusters, a
<1> HIDE DEF order
<1>16. /\ a \in MovedOf(m, batch)
       /\ \A i \in DOMAIN order : a.home[order[i]] # 0
  <2>1. batch \in SUBSET Rated(m) BY <1>11
  <2>2. \A c \in batch : m.status[c] = "active" BY <1>7, <1>10
  <2>3. \A p \in m.open : p \cap batch = {} BY <1>3, <1>5, <1>10 DEF Sound
  <2> QED BY <1>13, <1>14, <1>15, <2>1, <2>2, <2>3, AssignEachKeeps
<1>17. /\ Sound(a, {}, {}) /\ Rated(a) = R /\ \A c \in batch : a.home[c] # 0
       /\ \A d \in Rated(l) : a.home[d] = l.home[d]
  BY <1>5, <1>7, <1>10, <1>11, <1>14, <1>16 DEF MovedOf, Rated
<1>18. Housed(a) BY <1>3, <1>17 DEF Housed
<1>19. pairs \in Seq(Sides(Rated(a))) BY <1>10, <1>11, <1>17, PairsAreSides DEF pairs
<1> DEFINE out == JudgeRelations(a, pairs, says)
<1>20. /\ Sound(out.l, {}, {}) /\ Housed(out.l) /\ Rated(out.l) = Rated(a) /\ Together(out.l, a)
       /\ \A p \in out.strong : SharesHome(out.l, p)
  BY <1>17, <1>18, <1>19, JudgingKeeps
<1>21. ledger' = out.l /\ strong' = strong \cup out.strong BY <1>2
<1> HIDE DEF out
<1>22. ASSUME NEW p \in strong PROVE SharesHome(out.l, p)
  BY <1>17, <1>20 DEF ClustersInv, SharesHome, Together
<1> QED BY <1>20, <1>21, <1>22 DEF ClustersInv

\* A reconcile carries, supersedes or retracts claims, and the ledger stays sound.
LEMMA ReconcileKeeps ==
    ASSUME ClustersInv, NEW d, ReconcileDocument(d)
    PROVE  ClustersInv'
<1> DEFINE l == ledger
           Ends == {c \in OfDocument(d) : l.status[c] # "superseded"}
<1>1. PICK ends \in [Ends -> {"active", "carried", "retracted"}] :
        LET status == [c \in DOMAIN l.status |->
                          IF c \in DOMAIN ends THEN ends[c] ELSE l.status[c]]
            its == {p \in (l.open \cup l.closed) \ l.rejected : p \cap OfDocument(d) # {}}
            stands == {p \in its : \A c \in p : status[c] \in {"active", "carried"}}
            turned == ((its \cap l.open) \ stands) \cup (stands \ l.open)
            told == [l EXCEPT
                       !.status = status,
                       !.open = (@ \ its) \cup stands, !.closed = (@ \ stands) \cup (its \ stands),
                       !.missized = @ \cup {l.home[c] : c \in
                                         {e \in DOMAIN ends : ends[e] # l.status[e]}},
                       !.miscounted = @ \cup HomesOf(l, turned)]
        IN  ledger' = Recount(told, {l.home[c] : c \in OfDocument(d)})
  BY DEF ReconcileDocument
<1> DEFINE st == [c \in DOMAIN l.status |-> IF c \in DOMAIN ends THEN ends[c] ELSE l.status[c]]
           its == {p \in (l.open \cup l.closed) \ l.rejected : p \cap OfDocument(d) # {}}
           stands == {p \in its : \A c \in p : st[c] \in {"active", "carried"}}
           turned == ((its \cap l.open) \ stands) \cup (stands \ l.open)
           Changed == {e \in DOMAIN ends : ends[e] # l.status[e]}
           op == (l.open \ its) \cup stands
           cl == (l.closed \ stands) \cup (its \ stands)
           si == l.missized \cup {l.home[c] : c \in Changed}
           co == l.miscounted \cup HomesOf(l, turned)
           m == [l EXCEPT !.status = st, !.open = op, !.closed = cl, !.missized = si,
                          !.miscounted = co]
           ks == {l.home[c] : c \in OfDocument(d)}
           n == Recount(m, ks)
<1>2. ledger' = n /\ strong' = strong BY <1>1 DEF ReconcileDocument
<1>3. /\ l \in Ledger /\ DOMAIN l.home = Rated(l) /\ Rated(l) \subseteq Members
      /\ Sound(l, {}, {}) /\ Housed(l)
  BY LedgerFields DEF ClustersInv, Sound
<1>4. /\ l.status \in [Rated(l) -> Standings] /\ l.home \in [Rated(l) -> Nat]
      /\ l.open \subseteq SUBSET Members /\ l.closed \subseteq SUBSET Members
      /\ l.missized \subseteq Nat /\ l.miscounted \subseteq Nat
  BY <1>3, LedgerFields
<1>5. OfDocument(d) \subseteq Rated(l) /\ DOMAIN ends = Ends /\ Ends \subseteq OfDocument(d)
  BY DEF OfDocument
<1>6. /\ st \in [Rated(l) -> Standings] /\ DOMAIN st = Rated(l)
      /\ \A c \in Rated(l) : (c \notin Ends => st[c] = l.status[c])
                             /\ (c \in Ends => st[c] = ends[c])
  <2>1. DOMAIN l.status = Rated(l) BY DEF Rated
  <2>2. \A c \in Rated(l) : st[c] \in Standings BY <1>4, <1>5, <2>1 DEF Standings
  <2> HIDE DEF Ends
  <2>3. DOMAIN st = Rated(l) /\ \A c \in Rated(l) : (c \notin Ends => st[c] = l.status[c])
                             /\ (c \in Ends => st[c] = ends[c])
    BY <1>5, <2>1
  <2>4. st = [c \in Rated(l) |-> st[c]] BY <2>1
  <2> HIDE DEF st
  <2> QED BY <2>2, <2>3, <2>4
<1>7. its \subseteq l.open \cup l.closed /\ stands \subseteq its /\ turned \subseteq its OBVIOUS
<1>8. \A p \in its : p \subseteq Rated(l) BY <1>3, <1>7 DEF Sound
<1>9. Changed \subseteq Rated(l) /\ \A c \in Rated(l) : c \notin Changed => st[c] = l.status[c]
  <2> HIDE DEF st, its, stands, turned, op, cl, si, co, m, ks, n
  <2> QED BY <1>5, <1>6
<1> HIDE DEF st, Ends, m, n
<1>10. /\ op \subseteq SUBSET Members /\ cl \subseteq SUBSET Members
       /\ \A p \in op \cup cl : p \subseteq Rated(l)
  BY <1>3, <1>4, <1>7, <1>8 DEF Sound
<1>11. si \subseteq Nat /\ co \subseteq Nat BY <1>4, <1>7, <1>8, <1>9 DEF HomesOf
<1>12. \A p \in turned : \A c \in p : l.home[c] \in co BY DEF HomesOf
<1>13. \A c \in Changed : l.home[c] \in si OBVIOUS
<1>14. \A p : p \notin turned => (p \in op <=> p \in l.open) BY <1>7
<1>15. l.missized \subseteq si /\ l.miscounted \subseteq co OBVIOUS
<1> HIDE DEF its, stands, op, cl, si, co, Changed, turned
<1>16. st \in Partial(Members, Standings) BY <1>3, <1>6, PartialFacts
<1>17. /\ m.status = st /\ m.home = l.home /\ m.row = l.row /\ m.missized = si
       /\ m.miscounted = co /\ m.next = l.next /\ m.open = op /\ m.closed = cl
       /\ m.rejected = l.rejected /\ m \in Ledger
  BY <1>3, <1>10, <1>11, <1>16 DEF Ledger, m
<1>18. Rated(m) = Rated(l) BY <1>6, <1>17 DEF Rated
<1>19. ASSUME NEW k, k \notin si PROVE ActiveIn(m, k) = ActiveIn(l, k)
  BY <1>9, <1>13, <1>17, <1>18, <1>19 DEF ActiveIn
<1>20. ASSUME NEW k, k \notin ks, k \notin co PROVE Conflicts(m, k) = Conflicts(l, k)
  <2>1. \A c \in Rated(l) : l.home[c] = k => st[c] = l.status[c] BY <1>5, <1>6, <1>20
  <2>2. ActiveIn(m, k) = ActiveIn(l, k) BY <1>17, <1>18, <2>1 DEF ActiveIn
  <2>3. \A p \in turned : p \cap ActiveIn(l, k) = {}
    <3> SUFFICES ASSUME NEW p \in turned, NEW c \in p, c \in ActiveIn(l, k) PROVE FALSE OBVIOUS
    <3> QED BY <1>12, <1>20 DEF ActiveIn
  <2> QED BY <1>14, <1>17, <2>2, <2>3 DEF Conflicts
<1>21. Sound(m, {}, ks)
  <2>1. \A k \in DOMAIN m.row \ (m.missized \cup {}) : SizeRight(m, k)
    BY <1>3, <1>15, <1>17, <1>19 DEF Sound, SizeRight
  <2>2. \A k \in DOMAIN m.row \ (m.miscounted \cup ks) : CountRight(m, k)
    <3> HIDE DEF ks
    <3> QED BY <1>3, <1>15, <1>17, <1>20 DEF Sound, CountRight
  <2>3. \A p \in m.open \cup m.closed : p \subseteq Rated(m) BY <1>10, <1>17, <1>18
  <2> HIDE DEF ks
  <2> QED BY <1>3, <1>17, <1>18, <2>1, <2>2, <2>3 DEF Sound
<1> HIDE DEF ks
<1>22. Sound(n, {}, ks \ ks) /\ SamePlaces(n, m) BY <1>21, RecountKeeps DEF n
<1>23. ks \ ks = {} OBVIOUS
<1>24. Sound(n, {}, {}) BY <1>22, <1>23
<1>25. n.home = l.home /\ Rated(n) = Rated(l) BY <1>17, <1>18, <1>22 DEF SamePlaces, Rated
<1>26. Housed(n) /\ \A p \in strong : SharesHome(n, p)
  BY <1>3, <1>25 DEF Housed, ClustersInv, SharesHome
<1> QED BY <1>2, <1>24, <1>26 DEF ClustersInv

\* A rejected relation closes its conflict and is no longer counted.
LEMMA RejectKeeps ==
    ASSUME ClustersInv, RejectRelation
    PROVE  ClustersInv'
<1> DEFINE l == ledger
<1>1. PICK p \in (l.open \cup l.closed) \ l.rejected :
           ledger' = [l EXCEPT !.open = @ \ {p}, !.closed = @ \cup {p},
                               !.rejected = @ \cup {p},
                               !.miscounted = @ \cup HomesOf(l, {p} \cap l.open)]
  BY DEF RejectRelation
<1> DEFINE op == l.open \ {p}
           cl == l.closed \cup {p}
           re == l.rejected \cup {p}
           co == l.miscounted \cup HomesOf(l, {p} \cap l.open)
           n == [l EXCEPT !.open = op, !.closed = cl, !.rejected = re, !.miscounted = co]
<1>2. ledger' = n /\ strong' = strong BY <1>1 DEF RejectRelation
<1>3. /\ l \in Ledger /\ DOMAIN l.home = Rated(l) /\ Rated(l) \subseteq Members
      /\ Sound(l, {}, {}) /\ Housed(l)
  BY LedgerFields DEF ClustersInv, Sound
<1>4. /\ l.home \in [Rated(l) -> Nat] /\ l.miscounted \subseteq Nat
      /\ l.open \subseteq SUBSET Members /\ l.closed \subseteq SUBSET Members
      /\ l.rejected \subseteq SUBSET Members
  BY <1>3, LedgerFields
<1>5. p \subseteq Rated(l) BY <1>3 DEF Sound
<1>6. co \subseteq Nat /\ l.miscounted \subseteq co /\ (p \in l.open => \A c \in p : l.home[c] \in co)
  BY <1>4, <1>5 DEF HomesOf
<1>7. op \subseteq SUBSET Members /\ cl \subseteq SUBSET Members /\ re \subseteq SUBSET Members
  BY <1>3, <1>4, <1>5
<1>8. \A q \in op \cup cl : q \subseteq Rated(l) BY <1>3, <1>5 DEF Sound
<1>9. \A q : q # p => (q \in op <=> q \in l.open) OBVIOUS
<1>10. op \subseteq l.open OBVIOUS
<1> HIDE DEF op, cl, re, co
<1>11. /\ n.status = l.status /\ n.home = l.home /\ n.row = l.row /\ n.missized = l.missized
       /\ n.miscounted = co /\ n.next = l.next /\ n.open = op /\ n.closed = cl /\ n \in Ledger
  BY <1>3, <1>6, <1>7 DEF Ledger
<1> HIDE DEF n
<1>12. Rated(n) = Rated(l) /\ \A k : ActiveIn(n, k) = ActiveIn(l, k)
  BY <1>11, SameActive DEF Rated
<1>13. ASSUME NEW k, k \notin co PROVE Conflicts(n, k) = Conflicts(l, k)
  BY <1>6, <1>9, <1>10, <1>11, <1>12, <1>13 DEF ActiveIn, Conflicts
<1>14. Sound(n, {}, {})
  BY <1>3, <1>6, <1>8, <1>11, <1>12, <1>13 DEF Sound, SizeRight, CountRight
<1>15. Housed(n) /\ \A q \in strong : SharesHome(n, q)
  BY <1>3, <1>11, <1>12 DEF Housed, ClustersInv, SharesHome
<1> QED BY <1>2, <1>14, <1>15 DEF ClustersInv

\* Means computed anew leave the counts as they are.
LEMMA ReindexKeeps ==
    ASSUME ClustersInv, Reindex
    PROVE  ClustersInv'
<1> DEFINE l == ledger
           ro == [k \in DOMAIN l.row |-> IF ActiveIn(l, k) = {}
                                         THEN [Recomputed(l, k) EXCEPT !.mean = << >>]
                                         ELSE Recomputed(l, k)]
           si == l.missized \ DOMAIN l.row
           n == [l EXCEPT !.row = ro, !.missized = si]
<1>1. ledger' = n /\ strong' = strong BY DEF Reindex
<1>2. /\ l \in Ledger /\ DOMAIN l.home = Rated(l) /\ Rated(l) \subseteq Members
      /\ Sound(l, {}, {}) /\ Housed(l)
  BY LedgerFields DEF ClustersInv, Sound
<1>3. /\ l.row \in [DOMAIN l.row -> Tally] /\ DOMAIN l.row \subseteq Nat \ {0}
      /\ l.missized \subseteq Nat
  BY <1>2, LedgerFields
<1>4. ASSUME NEW k \in DOMAIN l.row
      PROVE  /\ ro[k] \in Tally /\ ro[k].size = Cardinality(ActiveIn(l, k))
             /\ ro[k].docs = Cardinality({VersionOf[c] : c \in ActiveIn(l, k)})
             /\ ro[k].conflicts = l.row[k].conflicts
  <2> DEFINE in == ActiveIn(l, k)
             mean == IF in = {} THEN << >> ELSE <<Placed(in), Cardinality(in)>>
             docs == Cardinality({VersionOf[c] : c \in in})
  <2>1. mean \in Means BY <1>2, ActiveFacts, ManyAtMost, PlacedIsInt DEF Means
  <2>2. ro[k] = [size |-> Cardinality(in), docs |-> docs, conflicts |-> l.row[k].conflicts,
                 mean |-> mean]
    BY DEF Recomputed
  <2>3. l.row[k].conflicts \in Nat BY <1>3 DEF Tally
  <2>4. Cardinality(in) \in Nat /\ docs \in Nat BY <1>2, ActiveFacts
  <2> HIDE DEF ro, mean, docs, in
  <2>5. ro[k] \in Tally /\ ro[k].size = Cardinality(in) /\ ro[k].docs = docs
        /\ ro[k].conflicts = l.row[k].conflicts
    BY <2>1, <2>2, <2>3, <2>4 DEF Tally
  <2> QED BY <2>5 DEF docs, in
<1>5. DOMAIN ro = DOMAIN l.row /\ ro = [k \in DOMAIN l.row |-> ro[k]] /\ si \subseteq Nat
  BY <1>3
<1>6. si \cap DOMAIN l.row = {} OBVIOUS
<1> HIDE DEF ro, si
<1>7. ro \in [DOMAIN l.row -> Tally] BY <1>4, <1>5
<1>8. ro \in Partial(Nat \ {0}, Tally) BY <1>3, <1>7, PartialFacts
<1>9. /\ n.status = l.status /\ n.home = l.home /\ n.row = ro /\ n.missized = si
      /\ n.miscounted = l.miscounted /\ n.next = l.next /\ n.open = l.open
      /\ n.closed = l.closed /\ n \in Ledger
  BY <1>2, <1>5, <1>8 DEF Ledger
<1> HIDE DEF n
<1>10. /\ Rated(n) = Rated(l)
       /\ \A k : ActiveIn(n, k) = ActiveIn(l, k) /\ Conflicts(n, k) = Conflicts(l, k)
  BY <1>9, SameActive, SameConflicts DEF Rated
<1>11. Sound(n, {}, {})
  <2>1. \A k \in DOMAIN n.row \ (n.missized \cup {}) : SizeRight(n, k)
    BY <1>4, <1>5, <1>9, <1>10 DEF SizeRight
  <2>2. \A k \in DOMAIN n.row \ (n.miscounted \cup {}) : CountRight(n, k)
    BY <1>2, <1>4, <1>5, <1>9, <1>10 DEF Sound, CountRight
  <2> QED BY <1>2, <1>5, <1>9, <1>10, <2>1, <2>2 DEF Sound
<1>12. Housed(n) /\ \A p \in strong : SharesHome(n, p)
  BY <1>2, <1>9, <1>10 DEF Housed, ClustersInv, SharesHome
<1> QED BY <1>1, <1>11, <1>12 DEF ClustersInv

\* The invariant is inductive: one step per action.
LEMMA ClustersInvStep == ClustersInv /\ [ClustersNext]_clustersVars => ClustersInv'
<1> SUFFICES ASSUME ClustersInv, [ClustersNext]_clustersVars PROVE ClustersInv' OBVIOUS
<1>1. CASE ExtractClaims BY <1>1, ExtractKeeps
<1>2. ASSUME NEW d \in {VersionOf[c] : c \in Members}, ReconcileDocument(d) PROVE ClustersInv'
  BY <1>2, ReconcileKeeps
<1>3. CASE RejectRelation BY <1>3, RejectKeeps
<1>4. CASE Reindex BY <1>4, ReindexKeeps
<1>5. CASE UNCHANGED clustersVars BY <1>5 DEF clustersVars, ClustersInv
<1> QED BY <1>1, <1>2, <1>3, <1>4, <1>5 DEF ClustersNext

\* In a sound ledger the clusters tell.
LEMMA ClustersInvTells == ClustersInv => ClustersTell
<1> SUFFICES ASSUME ClustersInv PROVE ClustersTell OBVIOUS
<1>1. SidesShareACluster
  <2> SUFFICES ASSUME NEW p \in strong PROVE Cardinality({ledger.home[c] : c \in p}) = 1
    BY DEF SidesShareACluster
  <2>1. p # {} /\ \A c, d \in p : ledger.home[c] = ledger.home[d] BY DEF ClustersInv, SharesHome
  <2>2. PICK a : a \in p BY <2>1
  <2>3. {ledger.home[c] : c \in p} = {ledger.home[a]} BY <2>1, <2>2
  <2> QED BY <2>3, FS_Singleton
<1>2. SizesTell BY DEF ClustersInv, Housed, Sound, SizesTell, SizeRight
<1>3. ConflictCountsTell BY DEF ClustersInv, Sound, CountRight, ConflictCountsTell
<1> QED BY <1>1, <1>2, <1>3 DEF ClustersTell

\* For any claims, places, versions, reach and number of documents, in any order of extraction,
\* reconciliation, rejection and reindexing: a cluster's row counts its own active claims and
\* conflicts, but where the code leaves them, and strongly related claims share a cluster.
THEOREM ClustersStand == ClustersSpec => []ClustersTell
<1>1. ClustersInv /\ [ClustersNext]_clustersVars => ClustersInv' BY ClustersInvStep
<1>2. ClustersInit => ClustersInv BY ClustersInvInit
<1>3. ClustersInv => ClustersTell BY ClustersInvTells
<1> QED BY <1>1, <1>2, <1>3, PTL DEF ClustersSpec

-----------------------------------------------------------------------------
(* Camps.                                                                   *)

\* The greatest of some numbers, as LastOf tells it.
LEMMA LastIsLast ==
    ASSUME NEW S \in SUBSET Nat, IsFiniteSet(S)
    PROVE  LastOf(S) \in Nat /\ \A n \in S : n <= LastOf(S)
<1> DEFINE T == {0} \cup S
           R == {p \in T \X T : p[1] < p[2]}
<1>1. T \in SUBSET Nat /\ T # {} OBVIOUS
<1>2. IsFiniteSet(T) BY FS_AddElement
<1>3. \A x, y \in T : <<x, y>> \in R <=> x < y OBVIOUS
<1>4. StrictlyOrders(R, T)
  <2> HIDE DEF T, R
  <2>1. \A x \in T : ~(x < x) BY <1>1
  <2>2. \A x, y, z \in T : x < y /\ y < z => x < z BY <1>1
  <2>3. \A x, y \in T : x = y \/ x < y \/ y < x BY <1>1
  <2> QED BY <1>3, <2>1, <2>2, <2>3 DEF StrictlyOrders
<1> HIDE DEF T, R
<1>5. /\ Cardinality(T) \in Nat
      /\ \A x \in T : Cardinality(Below(R, T, x)) \in 0..(Cardinality(T) - 1)
      /\ \A x, y \in T : <<x, y>> \in R <=> Cardinality(Below(R, T, x)) < Cardinality(Below(R, T, y))
      /\ \A n \in 1..Cardinality(T) : \E x \in T : Cardinality(Below(R, T, x)) = n - 1
  BY <1>2, <1>4, Ranks
<1>6. Cardinality(T) # 0 BY <1>1, <1>2, FS_EmptySet
<1>7. PICK x \in T : Cardinality(Below(R, T, x)) = Cardinality(T) - 1 BY <1>5, <1>6
<1>8. \A y \in T : y <= x
  <2> SUFFICES ASSUME NEW y \in T, ~(y <= x) PROVE FALSE OBVIOUS
  <2>1. x < y BY <1>1
  <2>2. Cardinality(Below(R, T, x)) < Cardinality(Below(R, T, y)) BY <2>1, <1>3, <1>5
  <2>3. Cardinality(Below(R, T, y)) \in 0..(Cardinality(T) - 1) BY <1>5
  <2> QED BY <2>2, <2>3, <1>5, <1>7
<1>9. \A y \in T : x >= y BY <1>8, <1>1
<1>10. Max(T) \in T /\ \A y \in T : Max(T) >= y BY <1>9 DEF Max
<1>11. LastOf(S) = Max(T) BY DEF LastOf, T
<1>12. S \subseteq T BY DEF T
<1> QED BY <1>10, <1>11, <1>12, <1>1

Signs == {1, -1}

\* Two signs: going over an edge twice changes nothing.
LEMMA SignFacts ==
    /\ \A c, s \in Signs : Expected(c, s) \in Signs
    /\ \A c \in Signs : Expected(c, 1) = c /\ Expected(c, -1) # c
    /\ \A c \in Signs : Expected(1, c) = c
    /\ \A c, d, s \in Signs : d = Expected(c, s) <=> c = Expected(d, s)
    /\ \A c, s, d \in Signs : Expected(Expected(c, s), d) = Expected(Expected(c, d), s)
    /\ \A c, d, e \in Signs : c # d /\ e # d => c = e
    /\ \A c, d, e \in Signs : Expected(c, e) = Expected(d, e) => c = d
BY DEF Signs, Expected

\* A relation agrees or opposes.
LEMMA SignIsOne == \A r : Sign(r) \in Signs
BY DEF Sign, Signs

\* What is assumed of a graph: finitely many claims and edges, between claims.
IsGraph(g) ==
    /\ g.claims \subseteq Nat \ {0} /\ IsFiniteSet(g.claims)
    /\ g.edges \subseteq Nat \ {0} /\ IsFiniteSet(g.edges)
    /\ \A i \in g.edges : g.rows[i].a \in g.claims /\ g.rows[i].b \in g.claims

At(g, i) == EndsOf(g.rows[i])
Agrees(g, i, f) == f[g.rows[i].b] = Expected(f[g.rows[i].a], Sign(g.rows[i]))
ClosedIn(g, C) == \A i \in g.edges : At(g, i) \cap C # {} => At(g, i) \subseteq C

\* The colour of an end tells that of the other.
Across(g, i, n) == IF g.rows[i].a = n THEN g.rows[i].b ELSE g.rows[i].a

\* The two ends of an edge, seen from one of them.
LEMMA AcrossFacts ==
    ASSUME NEW g, IsGraph(g), NEW i \in g.edges, NEW n \in At(g, i)
    PROVE  /\ At(g, i) = {n, Across(g, i, n)}
           /\ At(g, i) \subseteq g.claims
           /\ \A f : f[g.rows[i].a] \in Signs /\ f[g.rows[i].b] \in Signs =>
                (Agrees(g, i, f) <=> f[Across(g, i, n)] = Expected(f[n], Sign(g.rows[i])))
<1> DEFINE r == g.rows[i]
<1>1. Sign(r) \in Signs BY SignIsOne
<1>2. n = r.a \/ n = r.b BY DEF At, EndsOf
<1>3. r.a \in g.claims /\ r.b \in g.claims BY DEF IsGraph
<1>4. CASE r.a = n BY <1>3, <1>4 DEF Across, At, EndsOf, Agrees
<1>5. CASE r.a # n
  <2>1. Across(g, i, n) = r.a /\ n = r.b BY <1>5, <1>2 DEF Across
  <2>2. ASSUME NEW f, f[r.a] \in Signs, f[r.b] \in Signs
        PROVE  Agrees(g, i, f) <=> f[r.a] = Expected(f[r.b], Sign(r))
    <3> DEFINE x == f[r.a]
               y == f[r.b]
               s == Sign(r)
    <3>1. x \in Signs /\ y \in Signs /\ s \in Signs BY <2>2, <1>1
    <3>2. Agrees(g, i, f) <=> y = Expected(x, s) BY DEF Agrees
    <3> HIDE DEF x, y, s
    <3>3. y = Expected(x, s) <=> x = Expected(y, s) BY <3>1, SignFacts
    <3> QED BY <3>2, <3>3 DEF x, y, s
  <2>3. At(g, i) = {n, Across(g, i, n)} /\ At(g, i) \subseteq g.claims
    BY <2>1, <1>3 DEF At, EndsOf
  <2> QED BY <2>1, <2>2, <2>3
<1> QED BY <1>4, <1>5
\* What the colouring of a component may hold, begun at a claim.
Colourings(g) == UNION {[D -> Signs] : D \in SUBSET g.claims}
States(g) == [queue : Seq(g.claims), colour : Colourings(g), frustrated : SUBSET SUBSET g.claims]
Waits(st, c) == \E q \in DOMAIN st.queue : st.queue[q] = c

Shapely(g, m, st) ==
    /\ st \in States(g)
    /\ m \in DOMAIN st.colour /\ st.colour[m] = 1
    /\ \A q \in DOMAIN st.queue : st.queue[q] \in DOMAIN st.colour

\* Any split that fits all the edges seen gives each claim the colour it has, or each the other.
Forced(g, m, st) ==
    \A f \in [g.claims -> Signs] :
        (\A i \in g.edges : At(g, i) \subseteq DOMAIN st.colour => Agrees(g, i, f)) =>
            \A c \in DOMAIN st.colour : f[c] = Expected(st.colour[c], f[m])

\* Nothing is coloured that the first claim is not joined to.
Confined(g, m, st) ==
    \A C \in SUBSET g.claims : ClosedIn(g, C) /\ m \notin C => DOMAIN st.colour \cap C = {}

\* A frustrated pair is an edge that the colouring does not fit.
Frustrates(g, st) ==
    \A p \in st.frustrated : \E i \in g.edges :
        p = At(g, i) /\ p \subseteq DOMAIN st.colour /\ ~Agrees(g, i, st.colour)

Fitting(g, m, st) == Shapely(g, m, st) /\ Forced(g, m, st) /\ Confined(g, m, st) /\ Frustrates(g, st)

Settled(g, st, i) ==
    At(g, i) \subseteq DOMAIN st.colour /\ (Agrees(g, i, st.colour) \/ At(g, i) \in st.frustrated)

\* What one state keeps of an earlier one.
Keeps(st, t) ==
    /\ DOMAIN st.colour \subseteq DOMAIN t.colour
    /\ \A c \in DOMAIN st.colour : t.colour[c] = st.colour[c]
    /\ st.frustrated \subseteq t.frustrated
    /\ \A c : Waits(st, c) => Waits(t, c)
    /\ \A c \in DOMAIN t.colour : c \in DOMAIN st.colour \/ Waits(t, c)
    /\ Cardinality(DOMAIN t.colour) + Len(st.queue) = Cardinality(DOMAIN st.colour) + Len(t.queue)

\* The parts of a state of the colouring, each with its type.
LEMMA ShapelyParts ==
    ASSUME NEW g, IsGraph(g), NEW m, NEW st, Shapely(g, m, st)
    PROVE  /\ st.queue \in Seq(g.claims) /\ Len(st.queue) \in Nat /\ DOMAIN st.queue = 1..Len(st.queue)
           /\ DOMAIN st.colour \subseteq g.claims /\ IsFiniteSet(DOMAIN st.colour)
           /\ Cardinality(DOMAIN st.colour) \in Nat
           /\ \A c \in DOMAIN st.colour : st.colour[c] \in Signs
           /\ st.frustrated \subseteq SUBSET g.claims
           /\ st = [queue |-> st.queue, colour |-> st.colour, frustrated |-> st.frustrated]
<1>1. st \in States(g) BY DEF Shapely
<1>2. /\ st.queue \in Seq(g.claims) /\ st.colour \in Colourings(g) /\ st.frustrated \subseteq SUBSET g.claims
      /\ st = [queue |-> st.queue, colour |-> st.colour, frustrated |-> st.frustrated]
  BY <1>1 DEF States
<1>3. PICK D \in SUBSET g.claims : st.colour \in [D -> Signs] BY <1>2 DEF Colourings
<1>4. IsFiniteSet(g.claims) BY DEF IsGraph
<1>5. IsFiniteSet(D) /\ Cardinality(D) \in Nat BY <1>3, <1>4, FS_Subset, FS_CardinalityType
<1>6. DOMAIN st.colour = D /\ \A c \in D : st.colour[c] \in Signs BY <1>3
<1>7. Len(st.queue) \in Nat /\ DOMAIN st.queue = 1..Len(st.queue) BY <1>2, LenProperties
<1> QED BY <1>2, <1>3, <1>5, <1>6, <1>7

\* Colouring and queueing a claim that an edge leads to.
LEMMA ColoursNext ==
    ASSUME NEW g, IsGraph(g), NEW m, NEW st, Fitting(g, m, st),
           NEW n \in DOMAIN st.colour, NEW i \in g.edges, n \in At(g, i),
           NEW to, to = Across(g, i, n), to \notin DOMAIN st.colour,
           NEW e, e = Expected(st.colour[n], Sign(g.rows[i])),
           NEW t, t = [queue |-> Append(st.queue, to),
                       colour |-> [c \in DOMAIN st.colour \cup {to} |-> IF c = to THEN e ELSE st.colour[c]],
                       frustrated |-> st.frustrated]
    PROVE  Fitting(g, m, t) /\ Keeps(st, t) /\ Settled(g, t, i)
<1> DEFINE D == DOMAIN st.colour
           E == D \cup {to}
<1>1. /\ st.queue \in Seq(g.claims) /\ Len(st.queue) \in Nat /\ DOMAIN st.queue = 1..Len(st.queue)
      /\ D \subseteq g.claims /\ IsFiniteSet(D) /\ Cardinality(D) \in Nat
      /\ \A c \in D : st.colour[c] \in Signs
      /\ st.frustrated \subseteq SUBSET g.claims
  BY ShapelyParts DEF Fitting
<1>2. /\ At(g, i) = {n, to} /\ At(g, i) \subseteq g.claims
      /\ \A f : f[g.rows[i].a] \in Signs /\ f[g.rows[i].b] \in Signs =>
              (Agrees(g, i, f) <=> f[to] = Expected(f[n], Sign(g.rows[i])))
  BY AcrossFacts
<1>3. to \in g.claims /\ E \subseteq g.claims BY <1>1, <1>2
<1>4. e \in Signs BY <1>1, SignFacts, SignIsOne
<1>5. /\ t.queue = Append(st.queue, to) /\ t.frustrated = st.frustrated
      /\ t.colour = [c \in E |-> IF c = to THEN e ELSE st.colour[c]]
  OBVIOUS
<1>6. /\ DOMAIN t.colour = E /\ t.colour \in [E -> Signs] /\ t.colour[to] = e
      /\ \A c \in D : t.colour[c] = st.colour[c]
  BY <1>1, <1>4, <1>5
<1>7. /\ Append(st.queue, to) \in Seq(g.claims) /\ Len(Append(st.queue, to)) = Len(st.queue) + 1
      /\ \A q \in 1..Len(st.queue) : Append(st.queue, to)[q] = st.queue[q]
      /\ Append(st.queue, to)[Len(st.queue) + 1] = to
  <2> DEFINE q == st.queue
  <2>1. q \in Seq(g.claims) /\ to \in g.claims BY <1>1, <1>3
  <2> HIDE DEF q
  <2>2. /\ Append(q, to) \in Seq(g.claims) /\ Len(Append(q, to)) = Len(q) + 1
        /\ \A j \in 1..Len(q) : Append(q, to)[j] = q[j]
        /\ Append(q, to)[Len(q) + 1] = to
    BY <2>1, AppendProperties
  <2> QED BY <2>2 DEF q
<1>8. DOMAIN Append(st.queue, to) = 1..(Len(st.queue) + 1) BY <1>7, LenProperties
<1>9. /\ m \in D /\ st.colour[m] = 1 /\ \A q \in 1..Len(st.queue) : st.queue[q] \in D
  BY <1>1 DEF Fitting, Shapely
<1> HIDE DEF D
<1>10. Shapely(g, m, t)
  <2>1. t \in States(g)
    <3>1. t.colour \in Colourings(g) BY <1>6, <1>3 DEF Colourings
    <3>2. [queue |-> t.queue, colour |-> t.colour, frustrated |-> t.frustrated] \in States(g)
      BY <3>1, <1>5, <1>7, <1>1 DEF States
    <3> QED BY <3>2, <1>5
  <2>2. m \in DOMAIN t.colour /\ t.colour[m] = 1 BY <1>6, <1>9
  <2>3. ASSUME NEW q \in DOMAIN t.queue PROVE t.queue[q] \in DOMAIN t.colour
    <3>1. q \in 1..(Len(st.queue) + 1) BY <1>5, <1>8
    <3>2. CASE q = Len(st.queue) + 1 BY <3>2, <1>5, <1>6, <1>7
    <3>3. CASE q \in 1..Len(st.queue) BY <3>3, <1>5, <1>6, <1>7, <1>9
    <3> QED BY <3>1, <3>2, <3>3, <1>1
  <2> QED BY <2>1, <2>2, <2>3 DEF Shapely
<1>11. Forced(g, m, t)
  <2> SUFFICES ASSUME NEW f \in [g.claims -> Signs],
                      \A j \in g.edges : At(g, j) \subseteq E => Agrees(g, j, f),
                      NEW c \in E
               PROVE  f[c] = Expected(t.colour[c], f[m])
    BY <1>6 DEF Forced
  <2>1. \A d \in D : f[d] = Expected(st.colour[d], f[m]) BY DEF Fitting, Forced, D
  <2>2. CASE c \in D BY <2>1, <2>2, <1>6
  <2>3. CASE c = to
    <3>1. Agrees(g, i, f) BY <1>2 DEF D
    <3>2. g.rows[i].a \in g.claims /\ g.rows[i].b \in g.claims BY DEF IsGraph
    <3>3. f[to] = Expected(f[n], Sign(g.rows[i])) BY <1>2, <3>1, <3>2
    <3>4. f[n] = Expected(st.colour[n], f[m]) BY <2>1 DEF D
    <3> DEFINE x == st.colour[n]
               s == Sign(g.rows[i])
               y == f[m]
    <3>5. x \in Signs /\ s \in Signs /\ y \in Signs BY <1>1, <1>9, SignIsOne DEF D
    <3>6. f[to] = Expected(Expected(x, y), s) /\ e = Expected(x, s) BY <3>3, <3>4
    <3> HIDE DEF x, s, y
    <3>7. f[to] = Expected(e, y) BY <3>5, <3>6, SignFacts
    <3> QED BY <3>7, <2>3, <1>6 DEF y
  <2> QED BY <2>2, <2>3
<1>12. Confined(g, m, t)
  <2> SUFFICES ASSUME NEW C \in SUBSET g.claims, ClosedIn(g, C), m \notin C
               PROVE  E \cap C = {}
    BY <1>6 DEF Confined
  <2>1. D \cap C = {} BY DEF Fitting, Confined, D
  <2>2. n \notin C BY <2>1 DEF D
  <2>3. At(g, i) \cap C = {} BY <2>2, <1>2 DEF ClosedIn
  <2> QED BY <2>1, <2>3, <1>2
<1>13. Frustrates(g, t)
  <2> SUFFICES ASSUME NEW p \in st.frustrated
               PROVE  \E j \in g.edges : p = At(g, j) /\ p \subseteq E /\ ~Agrees(g, j, t.colour)
    BY <1>5, <1>6 DEF Frustrates
  <2>1. PICK j \in g.edges : p = At(g, j) /\ p \subseteq D /\ ~Agrees(g, j, st.colour)
    BY DEF Fitting, Frustrates, D
  <2>2. g.rows[j].a \in D /\ g.rows[j].b \in D BY <2>1 DEF At, EndsOf
  <2>3. ~Agrees(g, j, t.colour) BY <2>1, <2>2, <1>6 DEF Agrees
  <2> QED BY <2>1, <2>3
<1>14. Settled(g, t, i)
  <2>1. At(g, i) \subseteq E BY <1>2 DEF D
  <2>2. g.rows[i].a \in E /\ g.rows[i].b \in E BY <2>1 DEF At, EndsOf
  <2>3. t.colour[g.rows[i].a] \in Signs /\ t.colour[g.rows[i].b] \in Signs BY <2>2, <1>6
  <2>4. t.colour[n] = st.colour[n] BY <1>6 DEF D
  <2>5. Agrees(g, i, t.colour) BY <1>2, <2>3, <2>4, <1>6
  <2> QED BY <2>1, <2>5, <1>6 DEF Settled
<1>15. Keeps(st, t)
  <2>1. \A c : Waits(st, c) => Waits(t, c)
    <3> SUFFICES ASSUME NEW c, NEW q \in 1..Len(st.queue), st.queue[q] = c
                 PROVE  Waits(t, c)
      BY <1>1 DEF Waits
    <3>1. q \in DOMAIN t.queue /\ t.queue[q] = c BY <1>5, <1>7, <1>8, <1>1
    <3> QED BY <3>1 DEF Waits
  <2>2. Waits(t, to) BY <1>1, <1>5, <1>7, <1>8 DEF Waits
  <2>3. Cardinality(E) = Cardinality(D) + 1
    <3>1. to \notin D BY DEF D
    <3>2. IsFiniteSet(D) BY <1>1
    <3> QED BY <3>1, <3>2, FS_AddElement
  <2>4. Cardinality(DOMAIN t.colour) + Len(st.queue) = Cardinality(D) + Len(t.queue)
    <3> DEFINE x == Cardinality(D)
               y == Len(st.queue)
    <3>1. x \in Nat /\ y \in Nat BY <1>1
    <3>2. Cardinality(DOMAIN t.colour) = x + 1 /\ Len(t.queue) = y + 1 BY <2>3, <1>5, <1>6, <1>7
    <3> HIDE DEF x, y
    <3>3. x + 1 + y = x + (y + 1) BY <3>1
    <3> QED BY <3>2, <3>3 DEF x, y
  <2> QED BY <2>1, <2>2, <2>4, <1>5, <1>6 DEF Keeps, D
<1> QED BY <1>10, <1>11, <1>12, <1>13, <1>14, <1>15 DEF Fitting
\* An edge whose other end has its colour already.
LEMMA SeesColoured ==
    ASSUME NEW g, IsGraph(g), NEW m, NEW st, Fitting(g, m, st),
           NEW n \in DOMAIN st.colour, NEW i \in g.edges, n \in At(g, i),
           NEW to, to = Across(g, i, n), to \in DOMAIN st.colour,
           NEW t, t = IF st.colour[to] = Expected(st.colour[n], Sign(g.rows[i])) THEN st
                      ELSE [queue |-> st.queue, colour |-> st.colour,
                            frustrated |-> st.frustrated \cup {{n, to}}]
    PROVE  Fitting(g, m, t) /\ Keeps(st, t) /\ Settled(g, t, i)
<1>1. /\ DOMAIN st.colour \subseteq g.claims
      /\ \A c \in DOMAIN st.colour : st.colour[c] \in Signs
      /\ st.frustrated \subseteq SUBSET g.claims /\ st.queue \in Seq(g.claims)
      /\ Len(st.queue) \in Nat /\ Cardinality(DOMAIN st.colour) \in Nat
  BY ShapelyParts DEF Fitting
<1>2. /\ At(g, i) = {n, to}
      /\ \A f : f[g.rows[i].a] \in Signs /\ f[g.rows[i].b] \in Signs =>
              (Agrees(g, i, f) <=> f[to] = Expected(f[n], Sign(g.rows[i])))
  BY AcrossFacts
<1>3. At(g, i) \subseteq DOMAIN st.colour BY <1>2
<1>4. Agrees(g, i, st.colour) <=> st.colour[to] = Expected(st.colour[n], Sign(g.rows[i]))
  BY <1>1, <1>2, <1>3 DEF At, EndsOf
<1>5. CASE Agrees(g, i, st.colour) BY <1>3, <1>4, <1>5 DEF Keeps, Settled
<1>6. CASE ~Agrees(g, i, st.colour)
  <2>1. t = [queue |-> st.queue, colour |-> st.colour, frustrated |-> st.frustrated \cup {{n, to}}]
    BY <1>4, <1>6
  <2>2. t.queue = st.queue /\ t.colour = st.colour /\ t.frustrated = st.frustrated \cup {At(g, i)}
    BY <2>1, <1>2
  <2>3. t \in States(g) BY <1>1, <1>3, <2>1, <2>2 DEF Fitting, Shapely, States
  <2>4. Shapely(g, m, t) BY <2>2, <2>3 DEF Fitting, Shapely
  <2>5. Forced(g, m, t) /\ Confined(g, m, t) BY <2>2 DEF Fitting, Forced, Confined
  <2>6. Frustrates(g, t)
    <3> SUFFICES ASSUME NEW p \in t.frustrated
                 PROVE  \E j \in g.edges : p = At(g, j) /\ p \subseteq DOMAIN st.colour /\ ~Agrees(g, j, st.colour)
      BY <2>2 DEF Frustrates
    <3>1. CASE p \in st.frustrated BY <3>1 DEF Fitting, Frustrates
    <3>2. CASE p = At(g, i) BY <3>2, <1>3, <1>6
    <3> QED BY <3>1, <3>2, <2>2
  <2>7. Keeps(st, t) BY <2>2 DEF Waits, Keeps
  <2>8. Settled(g, t, i) BY <2>2, <1>3 DEF Settled
  <2> QED BY <2>4, <2>5, <2>6, <2>7, <2>8 DEF Fitting
<1> QED BY <1>5, <1>6

\* Meeting a neighbour settles the edge it is met by.
LEMMA MeetsOne ==
    ASSUME NEW g, IsGraph(g), NEW m, NEW st, Fitting(g, m, st),
           NEW n \in DOMAIN st.colour, NEW i, NEW t, t = Meet(g, n, i, st)
    PROVE  /\ Fitting(g, m, t) /\ Keeps(st, t)
           /\ i \in g.edges /\ n \in At(g, i) => Settled(g, t, i)
<1>1. CASE ~(i \in g.edges /\ n \in At(g, i)) BY <1>1 DEF Meet, At, Keeps
<1>2. CASE i \in g.edges /\ n \in At(g, i)
  <2> DEFINE to == Across(g, i, n)
             e == Expected(st.colour[n], Sign(g.rows[i]))
  <2>1. t = See(n, to, Sign(g.rows[i]), st) BY <1>2 DEF Meet, At, Across
  <2>2. st = [queue |-> st.queue, colour |-> st.colour, frustrated |-> st.frustrated]
    BY ShapelyParts DEF Fitting
  <2> HIDE DEF to
  <2>3. CASE to \notin DOMAIN st.colour
    <3>1. t = [st EXCEPT !.colour = [c \in DOMAIN st.colour \cup {to} |-> IF c = to THEN e ELSE st.colour[c]],
                         !.queue = Append(st.queue, to)]
      BY <2>1, <2>3 DEF See
    <3>2. t = [queue |-> Append(st.queue, to),
               colour |-> [c \in DOMAIN st.colour \cup {to} |-> IF c = to THEN e ELSE st.colour[c]],
               frustrated |-> st.frustrated]
      <4> DEFINE x == [c \in DOMAIN st.colour \cup {to} |-> IF c = to THEN e ELSE st.colour[c]]
                 y == Append(st.queue, to)
                 u == st.queue
                 v == st.colour
                 w == st.frustrated
      <4>1. t = [st EXCEPT !.colour = x, !.queue = y] /\ st = [queue |-> u, colour |-> v, frustrated |-> w]
        BY <3>1, <2>2
      <4> HIDE DEF x, y, u, v, w
      <4>2. t = [queue |-> y, colour |-> x, frustrated |-> w] BY <4>1
      <4> QED BY <4>2 DEF x, y, w
    <3>3. to = Across(g, i, n) /\ i \in g.edges /\ n \in At(g, i) BY <1>2 DEF to
    <3>4. e = Expected(st.colour[n], Sign(g.rows[i])) OBVIOUS
    <3> HIDE DEF e
    <3>5. Fitting(g, m, t) /\ Keeps(st, t) /\ Settled(g, t, i)
      BY <3>2, <3>3, <3>4, <2>3, ColoursNext
    <3> QED BY <3>5
  <2>4. CASE to \in DOMAIN st.colour
    <3>1. t = IF st.colour[to] = e THEN st ELSE [st EXCEPT !.frustrated = st.frustrated \cup {{n, to}}]
      BY <2>1, <2>4 DEF See
    <3>2. t = IF st.colour[to] = e THEN st
              ELSE [queue |-> st.queue, colour |-> st.colour, frustrated |-> st.frustrated \cup {{n, to}}]
      <4> DEFINE x == st.frustrated \cup {{n, to}}
                 u == st.queue
                 v == st.colour
                 w == st.frustrated
      <4>1. st = [queue |-> u, colour |-> v, frustrated |-> w] BY <2>2
      <4> HIDE DEF x, u, v, w
      <4>2. [st EXCEPT !.frustrated = x] = [queue |-> u, colour |-> v, frustrated |-> x] BY <4>1
      <4> QED BY <4>2, <3>1 DEF x, u, v
    <3>3. to = Across(g, i, n) /\ i \in g.edges /\ n \in At(g, i) BY <1>2 DEF to
    <3>4. Fitting(g, m, t) /\ Keeps(st, t) /\ Settled(g, t, i) BY <3>2, <3>3, <2>4, SeesColoured
    <3> QED BY <3>4
  <2> QED BY <2>3, <2>4
<1> QED BY <1>1, <1>2

\* What stands through one part of a turn and through the next stands through both.
LEMMA KeepsOn ==
    ASSUME NEW g, IsGraph(g), NEW m, NEW r, NEW s, NEW t,
           Shapely(g, m, r), Shapely(g, m, s), Shapely(g, m, t), Keeps(r, s), Keeps(s, t)
    PROVE  Keeps(r, t)
<1>1. /\ Len(r.queue) \in Nat /\ Len(s.queue) \in Nat /\ Len(t.queue) \in Nat
      /\ Cardinality(DOMAIN r.colour) \in Nat /\ Cardinality(DOMAIN s.colour) \in Nat
      /\ Cardinality(DOMAIN t.colour) \in Nat
  BY ShapelyParts
<1>2. Cardinality(DOMAIN t.colour) + Len(r.queue) = Cardinality(DOMAIN r.colour) + Len(t.queue)
  <2> DEFINE a == Len(r.queue)
             b == Len(s.queue)
             c == Len(t.queue)
             x == Cardinality(DOMAIN r.colour)
             y == Cardinality(DOMAIN s.colour)
             z == Cardinality(DOMAIN t.colour)
  <2>1. y + a = x + b /\ z + b = y + c BY DEF Keeps
  <2>2. a \in Nat /\ b \in Nat /\ c \in Nat /\ x \in Nat /\ y \in Nat /\ z \in Nat BY <1>1
  <2> HIDE DEF a, b, c, x, y, z
  <2>3. z + a = x + c BY <2>1, <2>2
  <2> QED BY <2>3 DEF a, c, x, z
<1>3. /\ DOMAIN r.colour \subseteq DOMAIN t.colour
      /\ \A c \in DOMAIN r.colour : t.colour[c] = r.colour[c]
      /\ r.frustrated \subseteq t.frustrated
      /\ \A c : Waits(r, c) => Waits(t, c)
  BY DEF Keeps
<1>4. \A c \in DOMAIN t.colour : c \in DOMAIN r.colour \/ Waits(t, c) BY DEF Keeps
<1> QED BY <1>2, <1>3, <1>4 DEF Keeps

\* An edge that is settled stays so.
LEMMA StaysSettled ==
    ASSUME NEW g, NEW s, NEW t, Keeps(s, t), NEW i, Settled(g, s, i)
    PROVE  Settled(g, t, i)
BY DEF Settled, Keeps, At, EndsOf, Agrees

\* The head of the queue taken off.
LEMMA TakesHead ==
    ASSUME NEW g, IsGraph(g), NEW m, NEW st, Fitting(g, m, st), st.queue # <<>>,
           NEW s, s = [st EXCEPT !.queue = Tail(@)]
    PROVE  /\ Fitting(g, m, s) /\ Head(st.queue) \in DOMAIN s.colour
           /\ s.colour = st.colour /\ s.frustrated = st.frustrated
           /\ Len(s.queue) = Len(st.queue) - 1
           /\ \A c : Waits(st, c) => c = Head(st.queue) \/ Waits(s, c)
<1> DEFINE q == st.queue
<1>1. /\ q \in Seq(g.claims) /\ Len(q) \in Nat /\ DOMAIN q = 1..Len(q)
      /\ st = [queue |-> q, colour |-> st.colour, frustrated |-> st.frustrated]
  BY ShapelyParts DEF Fitting
<1>2. q # <<>> OBVIOUS
<1>3. s = [queue |-> Tail(q), colour |-> st.colour, frustrated |-> st.frustrated]
  <2> DEFINE v == st.colour
             w == st.frustrated
             x == Tail(q)
  <2>1. st = [queue |-> q, colour |-> v, frustrated |-> w] /\ s = [st EXCEPT !.queue = x]
    BY <1>1
  <2> HIDE DEF q, v, w, x
  <2>2. s = [queue |-> x, colour |-> v, frustrated |-> w] BY <2>1
  <2> QED BY <2>2 DEF v, w, x
<1>4. \A j \in DOMAIN q : q[j] \in DOMAIN st.colour BY DEF Fitting, Shapely
<1>5. s.queue = Tail(q) /\ s.colour = st.colour /\ s.frustrated = st.frustrated BY <1>3
<1>6. st.colour \in Colourings(g) /\ st.frustrated \in SUBSET SUBSET g.claims
  BY DEF Fitting, Shapely, States
<1>7. m \in DOMAIN st.colour /\ st.colour[m] = 1 BY DEF Fitting, Shapely
<1>8. \A c : Waits(st, c) <=> \E j \in DOMAIN q : q[j] = c BY DEF Waits
<1>9. \A c : Waits(s, c) <=> \E j \in DOMAIN Tail(q) : Tail(q)[j] = c BY <1>5 DEF Waits
<1> HIDE DEF q
<1>10. /\ Tail(q) \in Seq(g.claims) /\ Len(Tail(q)) = Len(q) - 1
       /\ \A j \in 1..Len(Tail(q)) : Tail(q)[j] = q[j + 1]
  BY <1>1, <1>2, HeadTailProperties
<1>11. Head(q) = q[1] /\ Len(q) # 0 BY <1>1, <1>2, EmptySeq
<1>12. DOMAIN Tail(q) = 1..(Len(q) - 1) BY <1>10, LenProperties
<1>13. Shapely(g, m, s)
  <2>1. s \in States(g)
    <3> DEFINE x == Tail(q)
               v == st.colour
               w == st.frustrated
    <3>1. s = [queue |-> x, colour |-> v, frustrated |-> w] BY <1>3
    <3>2. x \in Seq(g.claims) /\ v \in Colourings(g) /\ w \in SUBSET SUBSET g.claims
      BY <1>6, <1>10
    <3> HIDE DEF x, v, w
    <3>3. [queue |-> x, colour |-> v, frustrated |-> w] \in States(g) BY <3>2 DEF States
    <3> QED BY <3>1, <3>3
  <2>2. ASSUME NEW j \in DOMAIN s.queue PROVE s.queue[j] \in DOMAIN s.colour
    BY <1>1, <1>4, <1>5, <1>10, <1>12
  <2> QED BY <2>1, <2>2, <1>5, <1>7 DEF Shapely
<1>14. Forced(g, m, s) /\ Confined(g, m, s) /\ Frustrates(g, s)
  BY <1>5 DEF Fitting, Forced, Confined, Frustrates
<1>15. \A c : Waits(st, c) => c = Head(q) \/ Waits(s, c)
  <2> SUFFICES ASSUME NEW c, NEW j \in DOMAIN q, q[j] = c, c # Head(q) PROVE Waits(s, c) BY <1>8
  <2>1. j \in 1..Len(q) /\ j # 1 BY <1>1, <1>11
  <2>2. j - 1 \in 1..(Len(q) - 1) /\ (j - 1) + 1 = j BY <2>1, <1>1
  <2>3. Tail(q)[j - 1] = c BY <2>2, <1>10
  <2> QED BY <2>2, <2>3, <1>9, <1>12
<1>16. Head(q) \in DOMAIN s.colour BY <1>1, <1>4, <1>5, <1>11
<1>17. Len(s.queue) = Len(q) - 1 BY <1>5, <1>10
<1> QED BY <1>5, <1>13, <1>14, <1>15, <1>16, <1>17 DEF Fitting, q
\* Every claim coloured so far waits, or has all its edges settled.
Told(g, st) ==
    \A c \in DOMAIN st.colour :
        Waits(st, c) \/ \A i \in g.edges : c \in At(g, i) => Settled(g, st, i)

\* A visit to the head of the queue settles its edges and leaves the others settled.
LEMMA Visited ==
    ASSUME NEW g, IsGraph(g), NEW m, NEW st, Fitting(g, m, st), Told(g, st), st.queue # <<>>,
           NEW t, t = Visit(g, st)
    PROVE  /\ Fitting(g, m, t) /\ Told(g, t)
           /\ Cardinality(DOMAIN t.colour) + (Len(st.queue) - 1) = Cardinality(DOMAIN st.colour) + Len(t.queue)
<1> DEFINE n == Head(st.queue)
           N == LastOf(g.edges)
           base == [st EXCEPT !.queue = Tail(@)]
<1>1. N \in Nat /\ \A i \in g.edges : i <= N /\ i \in Nat \ {0} BY LastIsLast DEF IsGraph
<1>2. /\ Fitting(g, m, base) /\ n \in DOMAIN base.colour
      /\ base.colour = st.colour /\ base.frustrated = st.frustrated
      /\ Len(base.queue) = Len(st.queue) - 1
      /\ \A c : Waits(st, c) => c = n \/ Waits(base, c)
  BY TakesHead
<1> HIDE DEF base, N
<1> DEFINE T == {s \in States(g) : Fitting(g, m, s) /\ Keeps(base, s)}
           h == [x \in (1..N) \X T |-> Meet(g, n, x[1], x[2])]
<1>3. base \in T BY <1>2 DEF Keeps, Fitting, Shapely
<1>4. ASSUME NEW i, NEW s \in T
      PROVE  /\ Meet(g, n, i, s) \in T
             /\ Keeps(s, Meet(g, n, i, s))
             /\ i \in g.edges /\ n \in At(g, i) => Settled(g, Meet(g, n, i, s), i)
  <2>1. Fitting(g, m, s) /\ Keeps(base, s) OBVIOUS
  <2>2. n \in DOMAIN s.colour BY <2>1, <1>2 DEF Keeps
  <2> DEFINE r == Meet(g, n, i, s)
  <2> HIDE DEF T, n
  <2>3. /\ Fitting(g, m, r) /\ Keeps(s, r)
        /\ i \in g.edges /\ n \in At(g, i) => Settled(g, r, i)
    BY <2>1, <2>2, MeetsOne
  <2> HIDE DEF r
  <2>4. Keeps(base, r) BY <2>1, <2>3, <1>2, KeepsOn DEF Fitting
  <2>5. r \in T BY <2>3, <2>4 DEF T, Fitting, Shapely
  <2> QED BY <2>3, <2>5 DEF r
<1>5. h \in [(1..N) \X T -> T]
  <2> SUFFICES ASSUME NEW x \in (1..N) \X T PROVE Meet(g, n, x[1], x[2]) \in T OBVIOUS
  <2>1. x[2] \in T OBVIOUS
  <2> HIDE DEF T, n
  <2> QED BY <2>1, <1>4
<1> HIDE DEF T, n
<1>6. PICK k : Iterates(k, N, T, base, h)
  <2> HIDE DEF h
  <2> QED BY <1>1, <1>3, <1>5, Iterated
<1>7. k \in [0..N -> T] /\ k[0] = base /\ \A i \in 1..N : k[i] = Meet(g, n, i, k[i - 1])
  <2>1. k \in [0..N -> T] /\ k[0] = base /\ \A i \in 1..N : k[i] = h[<<i, k[i - 1]>>]
    BY <1>6 DEF Iterates
  <2>2. ASSUME NEW i \in 1..N PROVE k[i] = Meet(g, n, i, k[i - 1])
    <3>1. i - 1 \in 0..N BY <1>1
    <3>2. k[i - 1] \in T BY <3>1, <2>1
    <3>3. <<i, k[i - 1]>> \in (1..N) \X T BY <3>2
    <3>4. h[<<i, k[i - 1]>>] = Meet(g, n, i, k[i - 1]) BY <3>3
    <3> QED BY <3>4, <2>1
  <2> QED BY <2>1, <2>2
<1> DEFINE Is(f) == f = [i \in 0..N |-> IF i = 0 THEN base ELSE Meet(g, n, i, f[i - 1])]
           met == CHOOSE f : Is(f)
<1>8. t = met[N] BY DEF Visit, n, N, base
<1>9. Is(k)
  <2>1. ASSUME NEW i \in 0..N PROVE k[i] = IF i = 0 THEN base ELSE Meet(g, n, i, k[i - 1])
    BY <1>1, <1>7
  <2>2. k = [i \in 0..N |-> k[i]] BY <1>7
  <2> QED BY <2>1, <2>2
<1>10. Is(met)
  <2> HIDE DEF Is
  <2> QED BY <1>9
<1> HIDE DEF met
<1>11. met[0] = base /\ \A i \in 1..N : met[i] = Meet(g, n, i, met[i - 1]) BY <1>1, <1>10
<1> HIDE DEF Is
<1> DEFINE SettledTo(i, s) == \A j \in g.edges : j <= i /\ n \in At(g, j) => Settled(g, s, j)
           P == {i \in 0..N : met[i] \in T /\ SettledTo(i, met[i])}
<1>12. 0 \in P
  <2>1. SettledTo(0, met[0]) BY <1>1
  <2> HIDE DEF SettledTo
  <2> QED BY <2>1, <1>1, <1>3, <1>11
<1>13. ASSUME NEW i \in 1..N, i - 1 \in P PROVE i \in P
  <2> DEFINE s == met[i - 1]
             r == Meet(g, n, i, s)
  <2>1. s \in T /\ SettledTo(i - 1, s) /\ met[i] = r BY <1>11, <1>13
  <2> HIDE DEF s, SettledTo
  <2>2. r \in T /\ Keeps(s, r) /\ (i \in g.edges /\ n \in At(g, i) => Settled(g, r, i))
    BY <2>1, <1>4
  <2> HIDE DEF r
  <2>3. SettledTo(i, r)
    <3> SUFFICES ASSUME NEW j \in g.edges, j <= i, n \in At(g, j) PROVE Settled(g, r, j)
      BY DEF SettledTo
    <3>1. CASE j = i BY <3>1, <2>2
    <3>2. CASE j # i BY <1>1, <2>1, <2>2, <3>2, StaysSettled DEF SettledTo
    <3> QED BY <3>1, <3>2
  <2>4. i \in 0..N BY <1>1
  <2> QED BY <2>1, <2>2, <2>3, <2>4
<1>14. N \in P
  <2> HIDE DEF P
  <2>1. \A i \in 0..N : i \in P BY <1>1, <1>12, <1>13, CountsUpTo
  <2> QED BY <2>1, <1>1
<1>15. t \in T /\ \A j \in g.edges : n \in At(g, j) => Settled(g, t, j) BY <1>1, <1>8, <1>14
<1>16. Fitting(g, m, t) /\ Keeps(base, t) BY <1>15 DEF T
<1>17. Told(g, t)
  <2> SUFFICES ASSUME NEW c \in DOMAIN t.colour, ~Waits(t, c), NEW i \in g.edges, c \in At(g, i)
               PROVE  Settled(g, t, i)
    BY DEF Told
  <2>1. c \in DOMAIN base.colour /\ ~Waits(base, c) BY <1>16 DEF Keeps
  <2>2. CASE c = n BY <2>2, <1>15
  <2>3. CASE c # n BY <1>2, <1>16, <2>1, <2>3, StaysSettled DEF Told, Settled
  <2> QED BY <2>2, <2>3
<1>18. Cardinality(DOMAIN t.colour) + (Len(st.queue) - 1) = Cardinality(DOMAIN st.colour) + Len(t.queue)
  BY <1>16, <1>2 DEF Keeps
<1> QED BY <1>16, <1>17, <1>18

\* The colouring of one claim only.
LEMMA StartsSound ==
    ASSUME NEW g, IsGraph(g), NEW m \in g.claims
    PROVE  /\ Fitting(g, m, Start(m)) /\ Told(g, Start(m))
           /\ Len(Start(m).queue) = 1 /\ Cardinality(DOMAIN Start(m).colour) = 1
<1> DEFINE st == Start(m)
<1>1. /\ st = [queue |-> <<m>>, colour |-> [c \in {m} |-> 1], frustrated |-> {}]
      /\ st.queue = <<m>> /\ st.colour = [c \in {m} |-> 1] /\ st.frustrated = {}
  BY DEF Start
<1>2. DOMAIN st.colour = {m} /\ st.colour[m] = 1 /\ DOMAIN st.queue = 1..1 /\ st.queue[1] = m
      /\ Len(st.queue) = 1 /\ st.queue \in Seq(g.claims)
  <2> DEFINE q == <<m>>
  <2>1. DOMAIN q = 1..1 /\ q[1] = m /\ Len(q) = 1 /\ q \in Seq(g.claims)
    <3>1. q[1] = m /\ Len(q) = 1 OBVIOUS
    <3>2. q \in Seq(g.claims)
      <4> DEFINE S == g.claims
      <4>1. m \in S OBVIOUS
      <4> HIDE DEF S
      <4>2. <<m>> \in Seq(S) BY <4>1
      <4> QED BY <4>2 DEF S
    <3> HIDE DEF q
    <3>3. DOMAIN q = 1..1 BY <3>1, <3>2, LenProperties
    <3> QED BY <3>1, <3>2, <3>3
  <2>2. st.queue = q /\ DOMAIN st.colour = {m} /\ st.colour[m] = 1 BY <1>1
  <2> HIDE DEF q, st
  <2> QED BY <2>1, <2>2
<1>3. st.colour \in Colourings(g) BY <1>1 DEF Signs, Colourings
<1>4. st \in States(g) BY <1>1, <1>2, <1>3 DEF States
<1> HIDE DEF st
<1>5. Shapely(g, m, st) BY <1>2, <1>4 DEF Shapely
<1>6. Forced(g, m, st)
  <2>1. ASSUME NEW f \in [g.claims -> Signs] PROVE f[m] = Expected(st.colour[m], f[m])
    BY <1>2, SignFacts
  <2> QED BY <2>1, <1>2 DEF Forced
<1>7. Confined(g, m, st) /\ Frustrates(g, st) BY <1>1, <1>2 DEF Confined, Frustrates
<1>8. Told(g, st) BY <1>2 DEF Told, Waits
<1>9. Cardinality(DOMAIN st.colour) = 1 BY <1>2, FS_Singleton
<1> QED BY <1>2, <1>5, <1>6, <1>7, <1>8, <1>9 DEF Fitting, st

\* compute_camps colours a component to its end: the queue is empty after as many turns as
\* there are claims.
LEMMA Coloured ==
    ASSUME NEW g, IsGraph(g), NEW m \in g.claims
    PROVE  LET st == Colour(g, m)
           IN  Fitting(g, m, st) /\ \A c \in DOMAIN st.colour : \A i \in g.edges :
                    c \in At(g, i) => Settled(g, st, i)
<1> DEFINE N == Cardinality(g.claims)
           Turn(st) == IF st.queue = <<>> THEN st ELSE Visit(g, st)
           T == {s \in States(g) : Fitting(g, m, s) /\ Told(g, s)}
           h == [x \in (1..N) \X T |-> Turn(x[2])]
<1>1. N \in Nat /\ IsFiniteSet(g.claims) BY FS_CardinalityType DEF IsGraph
<1> HIDE DEF N
<1>2. /\ Start(m) \in T
      /\ Len(Start(m).queue) = 1 /\ Cardinality(DOMAIN Start(m).colour) = 1
  BY StartsSound DEF Fitting, Shapely
<1>3. ASSUME NEW s \in T
      PROVE  /\ Turn(s) \in T
             /\ s.queue # <<>> => Cardinality(DOMAIN Turn(s).colour) + (Len(s.queue) - 1)
                                      = Cardinality(DOMAIN s.colour) + Len(Turn(s).queue)
  <2>1. CASE s.queue = <<>> BY <2>1
  <2>2. CASE s.queue # <<>>
    <3>1. Turn(s) = Visit(g, s) BY <2>2
    <3>2. Fitting(g, m, s) /\ Told(g, s) OBVIOUS
    <3> DEFINE t == Visit(g, s)
    <3> HIDE DEF t
    <3>3. /\ Fitting(g, m, t) /\ Told(g, t)
          /\ Cardinality(DOMAIN t.colour) + (Len(s.queue) - 1) = Cardinality(DOMAIN s.colour) + Len(t.queue)
      BY <2>2, <3>2, Visited DEF t
    <3>4. t \in States(g) BY <3>3 DEF Fitting, Shapely
    <3>5. Turn(s) = t BY <3>1 DEF t
    <3> QED BY <3>3, <3>4, <3>5
  <2> QED BY <2>1, <2>2
<1> HIDE DEF Turn
<1>4. h \in [(1..N) \X T -> T]
  <2> SUFFICES ASSUME NEW x \in (1..N) \X T PROVE Turn(x[2]) \in T OBVIOUS
  <2>1. x[2] \in T OBVIOUS
  <2> HIDE DEF T
  <2> QED BY <2>1, <1>3
<1> HIDE DEF T
<1>5. PICK k : Iterates(k, N, T, Start(m), h)
  <2> HIDE DEF h
  <2> QED BY <1>1, <1>2, <1>4, Iterated
<1>6. k \in [0..N -> T] /\ k[0] = Start(m) /\ \A i \in 1..N : k[i] = Turn(k[i - 1])
  <2>1. k \in [0..N -> T] /\ k[0] = Start(m) /\ \A i \in 1..N : k[i] = h[<<i, k[i - 1]>>]
    BY <1>5 DEF Iterates
  <2>2. ASSUME NEW i \in 1..N PROVE k[i] = Turn(k[i - 1])
    <3>1. i - 1 \in 0..N BY <1>1
    <3>2. k[i - 1] \in T BY <3>1, <2>1
    <3>3. <<i, k[i - 1]>> \in (1..N) \X T BY <3>2
    <3>4. h[<<i, k[i - 1]>>] = Turn(k[i - 1]) BY <3>3
    <3> QED BY <3>4, <2>1
  <2> QED BY <2>1, <2>2
<1> DEFINE Is(f) == f = [i \in 0..N |-> IF i = 0 THEN Start(m)
                                        ELSE IF f[i - 1].queue = <<>> THEN f[i - 1] ELSE Visit(g, f[i - 1])]
           turn == CHOOSE f : Is(f)
<1>7. Colour(g, m) = turn[N] BY DEF Colour, N
<1>8. \A f : Is(f) <=> f = [i \in 0..N |-> IF i = 0 THEN Start(m) ELSE Turn(f[i - 1])]
  BY DEF Turn
<1>9. Is(k)
  <2>1. ASSUME NEW i \in 0..N PROVE k[i] = IF i = 0 THEN Start(m) ELSE Turn(k[i - 1])
    BY <1>1, <1>6
  <2>2. k = [i \in 0..N |-> k[i]] BY <1>6
  <2>3. k = [i \in 0..N |-> IF i = 0 THEN Start(m) ELSE Turn(k[i - 1])] BY <2>1, <2>2
  <2> HIDE DEF Is
  <2> QED BY <2>3, <1>8
<1>10. Is(turn)
  <2> HIDE DEF Is
  <2> QED BY <1>9
<1>11. turn = [i \in 0..N |-> IF i = 0 THEN Start(m) ELSE Turn(turn[i - 1])]
  <2> HIDE DEF Is, turn
  <2> QED BY <1>8, <1>10
<1> HIDE DEF turn, Is
<1>12. turn[0] = Start(m) /\ \A i \in 1..N : turn[i] = Turn(turn[i - 1]) BY <1>1, <1>11
<1>13. ASSUME NEW s \in T
       PROVE  /\ Len(s.queue) \in Nat /\ Cardinality(DOMAIN s.colour) \in Nat
              /\ DOMAIN s.colour \subseteq g.claims /\ (s.queue # <<>> => Len(s.queue) # 0)
  <2>1. Shapely(g, m, s) BY DEF T, Fitting
  <2> DEFINE q == s.queue
  <2>2. /\ q \in Seq(g.claims) /\ Len(q) \in Nat /\ Cardinality(DOMAIN s.colour) \in Nat
        /\ DOMAIN s.colour \subseteq g.claims
    BY <2>1, ShapelyParts
  <2> HIDE DEF q
  <2>3. q # <<>> => Len(q) # 0 BY <2>2, EmptySeq
  <2> QED BY <2>2, <2>3 DEF q
<1> DEFINE Counted(i, s) == s.queue = <<>> \/ Cardinality(DOMAIN s.colour) = i + Len(s.queue)
           P == {i \in 0..N : turn[i] \in T /\ Counted(i, turn[i])}
<1>14. 0 \in P
  <2>1. Counted(0, Start(m)) BY <1>2
  <2> HIDE DEF Counted
  <2> QED BY <2>1, <1>1, <1>2, <1>12
<1>15. ASSUME NEW i \in 1..N, i - 1 \in P PROVE i \in P
  <2> DEFINE s == turn[i - 1]
             r == Turn(s)
  <2>1. s \in T /\ Counted(i - 1, s) /\ turn[i] = r BY <1>12, <1>15
  <2> HIDE DEF s
  <2>2. r \in T BY <2>1, <1>3
  <2>3. Counted(i, r)
    <3>1. CASE s.queue = <<>> BY <3>1 DEF Turn
    <3>2. CASE s.queue # <<>>
      <4> DEFINE a == Cardinality(DOMAIN r.colour)
                 b == Len(r.queue)
                 x == Cardinality(DOMAIN s.colour)
                 y == Len(s.queue)
      <4>1. a + (y - 1) = x + b BY <3>2, <2>1, <1>3
      <4>2. x = (i - 1) + y BY <3>2, <2>1
      <4>3. a \in Nat /\ b \in Nat /\ x \in Nat /\ y \in Nat BY <2>1, <2>2, <1>13
      <4> HIDE DEF a, b, x, y
      <4>4. a = i + b BY <4>1, <4>2, <4>3
      <4> QED BY <4>4 DEF a, b
    <3> QED BY <3>1, <3>2
  <2>4. i \in 0..N BY <1>1
  <2> HIDE DEF r, Counted
  <2> QED BY <2>1, <2>2, <2>3, <2>4
<1>16. N \in P
  <2> HIDE DEF P
  <2>1. \A i \in 0..N : i \in P BY <1>1, <1>14, <1>15, CountsUpTo
  <2> QED BY <2>1, <1>1
<1> DEFINE st == turn[N]
<1>17. st \in T /\ Counted(N, st) BY <1>16
<1> HIDE DEF st
<1>18. st.queue = <<>>
  <2> SUFFICES ASSUME st.queue # <<>> PROVE FALSE OBVIOUS
  <2> DEFINE a == Cardinality(DOMAIN st.colour)
             y == Len(st.queue)
  <2>1. a = N + y BY <1>17
  <2>2. a \in Nat /\ y \in Nat /\ y # 0 /\ DOMAIN st.colour \subseteq g.claims BY <1>13, <1>17
  <2>3. a <= N BY <2>2, <1>1, FS_Subset DEF N
  <2> HIDE DEF a, y
  <2> QED BY <2>1, <2>2, <2>3, <1>1
<1>19. Fitting(g, m, st) /\ Told(g, st) BY <1>17 DEF T
<1>20. \A c : ~Waits(st, c) BY <1>18 DEF Waits
<1>21. \A c \in DOMAIN st.colour : \A i \in g.edges : c \in At(g, i) => Settled(g, st, i)
  BY <1>19, <1>20 DEF Told
<1>22. Colour(g, m) = st BY <1>7 DEF st
<1> QED BY <1>19, <1>21, <1>22
\* A split of the claims D fits an edge if it parts its ends just when they disagree.
Divides(g, D, a, b) ==
    \A i \in g.edges : At(g, i) \subseteq D =>
        IF Sign(g.rows[i]) = 1 THEN ~(At(g, i) \cap a # {} /\ At(g, i) \cap b # {})
        ELSE ~(At(g, i) \subseteq a \/ At(g, i) \subseteq b)

\* A split is a choice of signs that agrees with the edges.
LEMMA DividesAgrees ==
    ASSUME NEW g, IsGraph(g), NEW D \in SUBSET g.claims, NEW f, \A c \in D : f[c] \in Signs,
           NEW a, a = {c \in D : f[c] = 1}, NEW b, b = D \ a
    PROVE  Divides(g, D, a, b) <=> \A i \in g.edges : At(g, i) \subseteq D => Agrees(g, i, f)
<1> SUFFICES ASSUME NEW i \in g.edges, At(g, i) \subseteq D
             PROVE  Agrees(g, i, f) <=> (IF Sign(g.rows[i]) = 1 THEN ~(At(g, i) \cap a # {} /\ At(g, i) \cap b # {})
                                         ELSE ~(At(g, i) \subseteq a \/ At(g, i) \subseteq b))
  BY DEF Divides
<1> DEFINE x == g.rows[i].a
           y == g.rows[i].b
           s == Sign(g.rows[i])
<1>1. At(g, i) = {x, y} /\ x \in D /\ y \in D BY DEF At, EndsOf
<1>2. Agrees(g, i, f) <=> f[y] = Expected(f[x], s) BY DEF Agrees
<1>3. s \in Signs /\ f[x] \in Signs /\ f[y] \in Signs BY <1>1, SignIsOne
<1>4. (x \in a <=> f[x] = 1) /\ (y \in a <=> f[y] = 1) /\ (x \in b <=> f[x] # 1) /\ (y \in b <=> f[y] # 1)
  BY <1>1
<1> HIDE DEF x, y, s
<1>5. CASE s = 1 BY <1>1, <1>2, <1>3, <1>4, <1>5, SignFacts DEF Signs, s
<1>6. CASE s # 1
  <2>1. s = -1 BY <1>3, <1>6 DEF Signs
  <2>2. f[x] # Expected(f[x], s) /\ Expected(f[x], s) \in Signs BY <2>1, <1>3, SignFacts
  <2>3. Agrees(g, i, f) <=> f[y] # f[x]
    <3> DEFINE e == Expected(f[x], s)
               u == f[x]
               v == f[y]
    <3>1. e \in Signs /\ u \in Signs /\ v \in Signs /\ u # e /\ (Agrees(g, i, f) <=> v = e)
      BY <2>2, <1>2, <1>3
    <3> HIDE DEF e, u, v
    <3>2. v = e <=> v # u BY <3>1 DEF Signs
    <3> QED BY <3>1, <3>2 DEF u, v
  <2>4. ~(At(g, i) \subseteq a \/ At(g, i) \subseteq b) <=> ~(f[x] = 1 <=> f[y] = 1)
    BY <1>1, <1>4
  <2>5. (f[x] = 1 <=> f[y] = 1) <=> f[y] = f[x] BY <1>3 DEF Signs
  <2> QED BY <2>3, <2>4, <2>5, <1>6 DEF s
<1> QED BY <1>5, <1>6

Both(k) == k.a \cup k.b

\* What a component is: it splits its claims as its edges do, or its edges admit no split.
SplitsWell(g, k) ==
    /\ Both(k) \subseteq g.claims /\ ClosedIn(g, Both(k))
    /\ k.a # {} /\ k.a \cap k.b = {}
    /\ \A p \in k.frustrated : \E i \in g.edges : p = At(g, i) /\ p \subseteq Both(k)
    /\ k.frustrated = {} => Divides(g, Both(k), k.a, k.b)
    /\ k.frustrated # {} => \A a \in SUBSET Both(k) : ~Divides(g, Both(k), a, Both(k) \ a)

\* The component that a colouring from one claim comes to.
LEMMA ComponentIs ==
    ASSUME NEW g, IsGraph(g), NEW m \in g.claims, NEW k, k = Component(Colour(g, m))
    PROVE  /\ SplitsWell(g, k) /\ m \in Both(k) /\ DOMAIN Colour(g, m).colour = Both(k)
           /\ \A C \in SUBSET g.claims : ClosedIn(g, C) /\ m \notin C => Both(k) \cap C = {}
           /\ k \in [a : SUBSET g.claims, b : SUBSET g.claims, frustrated : SUBSET SUBSET g.claims]
<1> DEFINE st == Colour(g, m)
           f == st.colour
           D == DOMAIN f
<1>1. /\ Fitting(g, m, st)
      /\ \A c \in D : \A i \in g.edges : c \in At(g, i) => Settled(g, st, i)
  BY Coloured
<1>2. k = [a |-> {c \in D : f[c] = 1}, b |-> {c \in D : f[c] = -1}, frustrated |-> st.frustrated]
  BY DEF Component
<1> HIDE DEF st
<1>3. D \subseteq g.claims /\ (\A c \in D : f[c] \in Signs) /\ st.frustrated \in SUBSET SUBSET g.claims
  BY <1>1, ShapelyParts DEF Fitting
<1>4. m \in D /\ f[m] = 1 BY <1>1 DEF Fitting, Shapely
<1> HIDE DEF f
<1>5. k.a = {c \in D : f[c] = 1} /\ k.b = {c \in D : f[c] = -1} /\ k.frustrated = st.frustrated
  BY <1>2
<1>6. k.b = D \ k.a /\ Both(k) = D
  <2>1. \A c \in D : (f[c] = -1 <=> f[c] # 1) BY <1>3 DEF Signs
  <2> HIDE DEF D
  <2>2. k.b = D \ k.a BY <2>1, <1>5
  <2> QED BY <2>2, <1>5 DEF Both
<1>7. k.a # {} /\ k.a \cap k.b = {} BY <1>4, <1>5, <1>6
<1>8. ClosedIn(g, D)
  <2> SUFFICES ASSUME NEW i \in g.edges, NEW c \in At(g, i), c \in D PROVE At(g, i) \subseteq D
    BY DEF ClosedIn
  <2> QED BY <1>1 DEF Settled, f
<1>9. \A p \in k.frustrated : \E i \in g.edges : p = At(g, i) /\ p \subseteq D /\ ~Agrees(g, i, f)
  BY <1>1, <1>5 DEF Fitting, Frustrates, f
<1>10. Divides(g, D, k.a, k.b) <=> \A i \in g.edges : At(g, i) \subseteq D => Agrees(g, i, f)
  BY <1>3, <1>5, <1>6, DividesAgrees
<1>11. k.frustrated = {} => Divides(g, D, k.a, k.b)
  <2> SUFFICES ASSUME k.frustrated = {}, NEW i \in g.edges, At(g, i) \subseteq D PROVE Agrees(g, i, f)
    BY <1>10
  <2>1. g.rows[i].a \in At(g, i) BY DEF At, EndsOf
  <2>2. Settled(g, st, i) BY <2>1, <1>1
  <2> QED BY <2>2, <1>5 DEF Settled, f
<1>12. ASSUME NEW p \in k.frustrated, NEW a \in SUBSET D, Divides(g, D, a, D \ a) PROVE FALSE
  <2> DEFINE h == [c \in g.claims |-> IF c \in a THEN 1 ELSE -1]
  <2>1. h \in [g.claims -> Signs] /\ (\A c \in D : h[c] \in Signs) /\ a = {c \in D : h[c] = 1}
    BY <1>3 DEF Signs
  <2> HIDE DEF h
  <2>2. \A i \in g.edges : At(g, i) \subseteq D => Agrees(g, i, h)
    BY <2>1, <1>3, <1>12, DividesAgrees
  <2>3. \A c \in D : h[c] = Expected(f[c], h[m]) BY <1>1, <2>1, <2>2 DEF Fitting, Forced, f
  <2>4. PICK i \in g.edges : At(g, i) \subseteq D /\ ~Agrees(g, i, f) BY <1>9, <1>12
  <2> DEFINE x == g.rows[i].a
             y == g.rows[i].b
             s == Sign(g.rows[i])
  <2>5. x \in D /\ y \in D BY <2>4 DEF At, EndsOf
  <2>6. h[y] = Expected(h[x], s) BY <2>2, <2>4 DEF Agrees
  <2>7. f[y] # Expected(f[x], s) BY <2>4 DEF Agrees
  <2>8. s \in Signs /\ f[x] \in Signs /\ f[y] \in Signs /\ h[m] \in Signs
    BY <2>1, <2>5, <1>3, <1>4, SignIsOne
  <2>9. h[x] = Expected(f[x], h[m]) /\ h[y] = Expected(f[y], h[m]) BY <2>3, <2>5
  <2> DEFINE u == f[x]
             v == f[y]
             w == h[m]
  <2>10. Expected(v, w) = Expected(Expected(u, w), s) BY <2>6, <2>9
  <2>11. u \in Signs /\ v \in Signs /\ w \in Signs /\ v # Expected(u, s) BY <2>7, <2>8
  <2> HIDE DEF u, v, w, s
  <2>12. Expected(v, w) = Expected(Expected(u, s), w) BY <2>8, <2>10, <2>11, SignFacts
  <2>13. Expected(u, s) \in Signs BY <2>8, <2>11, SignFacts
  <2> QED BY <2>11, <2>12, <2>13, SignFacts
<1>13. \A C \in SUBSET g.claims : ClosedIn(g, C) /\ m \notin C => D \cap C = {}
  BY <1>1 DEF Fitting, Confined, f
<1>14. k \in [a : SUBSET g.claims, b : SUBSET g.claims, frustrated : SUBSET SUBSET g.claims]
  <2> HIDE DEF D
  <2>1. {c \in D : f[c] = 1} \in SUBSET g.claims /\ {c \in D : f[c] = -1} \in SUBSET g.claims
    BY <1>3
  <2> QED BY <2>1, <1>2, <1>3
<1>15. DOMAIN Colour(g, m).colour = D BY DEF D, f, st
<1> HIDE DEF D
<1>16. SplitsWell(g, k) BY <1>3, <1>6, <1>7, <1>8, <1>9, <1>11, <1>12 DEF SplitsWell
<1> QED BY <1>16, <1>4, <1>6, <1>13, <1>14, <1>15

\* What the outer loop has after it met some of the claims.
Components(g) ==
    {k \in [a : SUBSET g.claims, b : SUBSET g.claims, frustrated : SUBSET SUBSET g.claims] : SplitsWell(g, k)}
Meetings(g) == [visited : SUBSET g.claims, components : SUBSET Components(g)]
KeptApart(g, st) ==
    /\ st.visited = UNION {Both(k) : k \in st.components}
    /\ \A k, l \in st.components : k = l \/ Both(k) \cap Both(l) = {}

\* One claim of the outer loop.
LEMMA FromOne ==
    ASSUME NEW g, IsGraph(g), NEW n, NEW st \in Meetings(g), KeptApart(g, st), NEW t, t = From(g, n, st)
    PROVE  /\ t \in Meetings(g) /\ KeptApart(g, t) /\ st.visited \subseteq t.visited
           /\ n \in g.claims /\ Linked(g, n) => n \in t.visited
<1>1. CASE ~(n \in g.claims \ st.visited /\ Linked(g, n)) BY <1>1 DEF From
<1>2. CASE n \in g.claims \ st.visited /\ Linked(g, n)
  <2> DEFINE k == Component(Colour(g, n))
             D == DOMAIN Colour(g, n).colour
  <2>1. /\ SplitsWell(g, k) /\ n \in Both(k) /\ D = Both(k)
        /\ \A C \in SUBSET g.claims : ClosedIn(g, C) /\ n \notin C => Both(k) \cap C = {}
        /\ k \in [a : SUBSET g.claims, b : SUBSET g.claims, frustrated : SUBSET SUBSET g.claims]
    BY <1>2, ComponentIs
  <2>2. t = [visited |-> st.visited \cup D, components |-> st.components \cup {k}]
    BY <1>2 DEF From
  <2> HIDE DEF k, D
  <2>3. t.visited = st.visited \cup Both(k) /\ t.components = st.components \cup {k}
    BY <2>1, <2>2
  <2>4. st.visited \subseteq g.claims /\ st.components \subseteq Components(g) BY DEF Meetings
  <2>5. Both(k) \subseteq g.claims BY <2>1 DEF SplitsWell
  <2>6. ClosedIn(g, st.visited)
    <3> SUFFICES ASSUME NEW i \in g.edges, NEW c \in At(g, i), c \in st.visited
                 PROVE  At(g, i) \subseteq st.visited
      BY DEF ClosedIn
    <3>1. PICK l \in st.components : c \in Both(l) BY DEF KeptApart
    <3>2. ClosedIn(g, Both(l)) BY <2>4 DEF Components, SplitsWell
    <3>3. At(g, i) \subseteq Both(l) BY <3>1, <3>2 DEF ClosedIn
    <3> QED BY <3>3 DEF KeptApart
  <2>7. Both(k) \cap st.visited = {} BY <2>1, <2>4, <2>6, <1>2
  <2>8. k \in Components(g) BY <2>1 DEF Components
  <2>9. t \in Meetings(g)
    <3> DEFINE v == st.visited \cup D
               w == st.components \cup {k}
    <3>1. v \in SUBSET g.claims /\ w \in SUBSET Components(g) /\ t = [visited |-> v, components |-> w]
      BY <2>1, <2>2, <2>4, <2>5, <2>8
    <3> HIDE DEF v, w
    <3> QED BY <3>1 DEF Meetings
  <2>10. KeptApart(g, t) BY <2>3, <2>7 DEF KeptApart
  <2> QED BY <2>1, <2>3, <2>9, <2>10
<1> QED BY <1>1, <1>2

\* compute_camps: the components are apart, each splits well, and no linked claim is left out.
LEMMA CampsAre ==
    ASSUME NEW g, IsGraph(g)
    PROVE  LET camps == CampsOf(g)
           IN  /\ \A k \in camps : SplitsWell(g, k)
               /\ \A k, l \in camps : k = l \/ Both(k) \cap Both(l) = {}
               /\ \A n \in g.claims : Linked(g, n) => \E k \in camps : n \in Both(k)
<1> DEFINE N == LastOf(g.claims)
           start == [visited |-> {}, components |-> {}]
           T == {s \in Meetings(g) : KeptApart(g, s)}
           h == [x \in (1..N) \X T |-> From(g, x[1], x[2])]
<1>1. N \in Nat /\ g.claims \subseteq Nat /\ \A n \in g.claims : n \in 1..N
  <2>1. g.claims \subseteq Nat \ {0} /\ IsFiniteSet(g.claims) BY DEF IsGraph
  <2>2. N \in Nat /\ \A n \in g.claims : n <= N BY <2>1, LastIsLast
  <2> HIDE DEF N
  <2> QED BY <2>1, <2>2
<1> HIDE DEF N
<1>2. start \in T BY DEF Meetings, KeptApart
<1>3. ASSUME NEW n, NEW s \in T
      PROVE  /\ From(g, n, s) \in T /\ s.visited \subseteq From(g, n, s).visited
             /\ n \in g.claims /\ Linked(g, n) => n \in From(g, n, s).visited
  BY FromOne
<1>4. h \in [(1..N) \X T -> T]
  <2> SUFFICES ASSUME NEW x \in (1..N) \X T PROVE From(g, x[1], x[2]) \in T OBVIOUS
  <2>1. x[2] \in T OBVIOUS
  <2> HIDE DEF T
  <2> QED BY <2>1, <1>3
<1> HIDE DEF T, start
<1>5. PICK k : Iterates(k, N, T, start, h)
  <2> HIDE DEF h
  <2> QED BY <1>1, <1>2, <1>4, Iterated
<1>6. k \in [0..N -> T] /\ k[0] = start /\ \A i \in 1..N : k[i] = From(g, i, k[i - 1])
  <2>1. k \in [0..N -> T] /\ k[0] = start /\ \A i \in 1..N : k[i] = h[<<i, k[i - 1]>>]
    BY <1>5 DEF Iterates
  <2>2. ASSUME NEW i \in 1..N PROVE k[i] = From(g, i, k[i - 1])
    <3>1. i - 1 \in 0..N BY <1>1
    <3>2. k[i - 1] \in T BY <3>1, <2>1
    <3>3. <<i, k[i - 1]>> \in (1..N) \X T BY <3>2
    <3>4. h[<<i, k[i - 1]>>] = From(g, i, k[i - 1]) BY <3>3
    <3> QED BY <3>4, <2>1
  <2> QED BY <2>1, <2>2
<1> DEFINE Is(f) == f = [n \in 0..N |-> IF n = 0 THEN start ELSE From(g, n, f[n - 1])]
           upto == CHOOSE f : Is(f)
<1>7. CampsOf(g) = upto[N].components BY DEF CampsOf, N, start
<1>8. Is(k)
  <2>1. ASSUME NEW i \in 0..N PROVE k[i] = IF i = 0 THEN start ELSE From(g, i, k[i - 1])
    BY <1>1, <1>6
  <2>2. k = [i \in 0..N |-> k[i]] BY <1>6
  <2> QED BY <2>1, <2>2
<1>9. Is(upto)
  <2> HIDE DEF Is
  <2> QED BY <1>8
<1> HIDE DEF upto
<1>10. upto[0] = start /\ \A i \in 1..N : upto[i] = From(g, i, upto[i - 1]) BY <1>1, <1>9
<1> HIDE DEF Is
<1> DEFINE Met(i, s) == \A n \in g.claims : n <= i /\ Linked(g, n) => n \in s.visited
           P == {i \in 0..N : upto[i] \in T /\ Met(i, upto[i])}
<1>11. 0 \in P
  <2>1. Met(0, start) BY <1>1
  <2> HIDE DEF Met
  <2> QED BY <2>1, <1>1, <1>2, <1>10
<1>12. ASSUME NEW i \in 1..N, i - 1 \in P PROVE i \in P
  <2> DEFINE s == upto[i - 1]
             r == From(g, i, s)
  <2>1. s \in T /\ Met(i - 1, s) /\ upto[i] = r BY <1>10, <1>12
  <2> HIDE DEF s, Met
  <2>2. r \in T /\ s.visited \subseteq r.visited /\ (i \in g.claims /\ Linked(g, i) => i \in r.visited)
    BY <2>1, <1>3
  <2> HIDE DEF r
  <2>3. Met(i, r)
    <3> SUFFICES ASSUME NEW n \in g.claims, n <= i, Linked(g, n) PROVE n \in r.visited
      BY DEF Met
    <3>1. n = i \/ n <= i - 1 BY <1>1
    <3>2. n <= i - 1 => n \in s.visited BY <2>1 DEF Met
    <3> QED BY <3>1, <3>2, <2>2
  <2>4. i \in 0..N BY <1>1
  <2> QED BY <2>1, <2>2, <2>3, <2>4
<1>13. N \in P
  <2> HIDE DEF P
  <2>1. \A i \in 0..N : i \in P BY <1>1, <1>11, <1>12, CountsUpTo
  <2> QED BY <2>1, <1>1
<1> DEFINE s == upto[N]
<1>14. s \in T /\ Met(N, s) BY <1>13
<1> HIDE DEF s
<1>15. s.components \subseteq Components(g) /\ KeptApart(g, s) BY <1>14 DEF T, Meetings
<1>16. \A n \in g.claims : Linked(g, n) => n \in s.visited BY <1>14, <1>1
<1>17. \A k1 \in s.components : SplitsWell(g, k1) BY <1>15 DEF Components
<1>18. \A n \in s.visited : \E k1 \in s.components : n \in Both(k1) BY <1>15 DEF KeptApart
<1>19. \A k1, k2 \in s.components : k1 = k2 \/ Both(k1) \cap Both(k2) = {}
  BY <1>15 DEF KeptApart
<1>20. CampsOf(g) = s.components BY <1>7 DEF s
<1> QED BY <1>16, <1>17, <1>18, <1>19, <1>20
\* The graph of some claims and rows.
LEMMA GraphIs ==
    ASSUME NEW nodes, nodes \subseteq Nat \ {0}, IsFiniteSet(nodes),
           NEW rows, DOMAIN rows \subseteq Nat \ {0}, IsFiniteSet(DOMAIN rows)
    PROVE  /\ IsGraph(Graph(nodes, rows))
           /\ Graph(nodes, rows).claims = nodes /\ Graph(nodes, rows).rows = rows
           /\ Graph(nodes, rows).edges =
                {i \in DOMAIN rows : Counts(rows[i]) /\ EndsOf(rows[i]) \subseteq nodes}
<1> DEFINE g == Graph(nodes, rows)
           E == {i \in DOMAIN rows : Counts(rows[i]) /\ EndsOf(rows[i]) \subseteq nodes}
<1>1. g.claims = nodes /\ g.rows = rows /\ g.edges = E BY DEF Graph
<1>2. E \subseteq Nat \ {0} /\ IsFiniteSet(E) BY FS_Subset
<1>3. \A i \in E : rows[i].a \in nodes /\ rows[i].b \in nodes BY DEF EndsOf
<1> HIDE DEF g, E
<1>4. IsGraph(g) BY <1>1, <1>2, <1>3 DEF IsGraph
<1> QED BY <1>1, <1>4 DEF g, E

\* follow_carried: what the relations of the cluster's claims are about now is among the claims
\* the map is drawn from, where none was carried twice.
LEMMA FollowedAre ==
    ASSUME carried \subseteq DOMAIN Successor, ~TwiceCarried
    PROVE  LET nodes == CampInputs.claims
               rows == CampInputs.relations
           IN  /\ nodes \subseteq CampClaims
               /\ DOMAIN rows = {i \in Touching : StandsFor(Judged[i][1]) # StandsFor(Judged[i][2])}
               /\ \A i \in DOMAIN rows :
                    /\ rows[i] = [a |-> StandsFor(Judged[i][1]), b |-> StandsFor(Judged[i][2]), is |-> ruling[i]]
                    /\ EndsOf(rows[i]) = About(i) /\ About(i) \subseteq nodes
<1> DEFINE endpoints == UNION {EndsOf(Row(i)) : i \in Touching}
           wanted == endpoints \cup {Successor[c] : c \in endpoints \cap carried}
           nodes == (Home \cup wanted) \cap Alive
           moved(r) == [r EXCEPT !.a = MovedTo(@, nodes), !.b = MovedTo(@, nodes)]
           kept == {i \in Touching : /\ moved(Row(i)).a # moved(Row(i)).b
                                     /\ EndsOf(moved(Row(i))) \subseteq nodes}
           rows == [i \in kept |-> moved(Row(i))]
<1>1. CampInputs.claims = nodes /\ CampInputs.relations = rows BY DEF CampInputs, Followed
<1>2. \A i \in Touching : Judged[i][1] \in CampClaims /\ Judged[i][2] \in CampClaims
  BY CampsAssumption DEF Touching
<1>3. \A i \in Touching : Judged[i][1] \in endpoints /\ Judged[i][2] \in endpoints
  BY DEF Row, EndsOf
<1>4. \A c \in endpoints : c \in CampClaims BY <1>2 DEF Row, EndsOf
<1> HIDE DEF endpoints
<1>5. ASSUME NEW c \in endpoints
      PROVE  MovedTo(c, nodes) = StandsFor(c) /\ StandsFor(c) \in nodes
  <2>1. CASE c \in carried BY <2>1, CampsAssumption DEF TwiceCarried, Alive, MovedTo, StandsFor
  <2>2. CASE c \notin carried BY <1>4, <2>2 DEF Alive, MovedTo, StandsFor
  <2> QED BY <2>1, <2>2
<1> HIDE DEF nodes
<1>6. ASSUME NEW i \in Touching
      PROVE  /\ moved(Row(i)) = [a |-> StandsFor(Judged[i][1]), b |-> StandsFor(Judged[i][2]), is |-> ruling[i]]
             /\ EndsOf(moved(Row(i))) = About(i) /\ About(i) \subseteq nodes
  <2>1. moved(Row(i)) = [a |-> MovedTo(Judged[i][1], nodes), b |-> MovedTo(Judged[i][2], nodes), is |-> ruling[i]]
    <3> DEFINE x == Judged[i][1]
               y == Judged[i][2]
               z == ruling[i]
               p == MovedTo(x, nodes)
               q == MovedTo(y, nodes)
               r == Row(i)
    <3>1. r = [a |-> x, b |-> y, is |-> z] BY DEF Row
    <3>2. r.a = x /\ r.b = y BY <3>1
    <3>3. moved(r) = [r EXCEPT !.a = MovedTo(r.a, nodes), !.b = MovedTo(r.b, nodes)] BY <3>1
    <3>4. moved(r) = [r EXCEPT !.a = p, !.b = q]
      <4> HIDE DEF r, x, y
      <4> QED BY <3>2, <3>3
    <3> HIDE DEF x, y, z, p, q, r, moved
    <3>5. [r EXCEPT !.a = p, !.b = q] = [a |-> p, b |-> q, is |-> z]
      <4>1. [r EXCEPT !.a = p, !.b = q] = [[r EXCEPT !.a = p] EXCEPT !.b = q] BY <3>1
      <4>2. [r EXCEPT !.a = p] = [a |-> p, b |-> y, is |-> z] BY <3>1
      <4>3. [[a |-> p, b |-> y, is |-> z] EXCEPT !.b = q] = [a |-> p, b |-> q, is |-> z] OBVIOUS
      <4> QED BY <4>1, <4>2, <4>3
    <3>6. moved(r) = [a |-> p, b |-> q, is |-> z] BY <3>4, <3>5
    <3> QED BY <3>6 DEF x, y, z, p, q, r
  <2>2. /\ MovedTo(Judged[i][1], nodes) = StandsFor(Judged[i][1]) /\ StandsFor(Judged[i][1]) \in nodes
        /\ MovedTo(Judged[i][2], nodes) = StandsFor(Judged[i][2]) /\ StandsFor(Judged[i][2]) \in nodes
    BY <1>3, <1>5
  <2> QED BY <2>1, <2>2 DEF EndsOf, About
<1> HIDE DEF moved
<1>7. ASSUME NEW i \in Touching
      PROVE  /\ moved(Row(i)).a = StandsFor(Judged[i][1]) /\ moved(Row(i)).b = StandsFor(Judged[i][2])
             /\ EndsOf(moved(Row(i))) \subseteq nodes
  BY <1>6
<1>8. kept = {i \in Touching : StandsFor(Judged[i][1]) # StandsFor(Judged[i][2])} BY <1>7
<1>9. DOMAIN rows = kept /\ \A i \in kept : rows[i] = moved(Row(i)) /\ i \in Touching OBVIOUS
<1>10. nodes \subseteq CampClaims BY DEF nodes, Alive
<1> HIDE DEF rows, kept
<1>11. \A i \in kept :
          /\ rows[i] = [a |-> StandsFor(Judged[i][1]), b |-> StandsFor(Judged[i][2]), is |-> ruling[i]]
          /\ EndsOf(rows[i]) = About(i) /\ About(i) \subseteq nodes
  BY <1>6, <1>9
<1> QED BY <1>1, <1>8, <1>9, <1>10, <1>11

\* A cluster's camps split it as its open relations do, whatever was carried once.
LEMMA CampsSplitRightly ==
    ASSUME carried \subseteq DOMAIN Successor, ~TwiceCarried
    PROVE  LET components == ComputeCamps(CampInputs.claims, CampInputs.relations) IN
           /\ \A k \in components : SplitRightly(k, Said(Agreeing), Said(Opposing))
           /\ \A k, l \in components : k = l \/ (k.a \cup k.b) \cap (l.a \cup l.b) = {}
           /\ \A i \in OpenRows(Agreeing \cup Opposing) :
                Elsewhere(i) \/ \E k \in components : About(i) \subseteq k.a \cup k.b
<1> DEFINE nodes == CampInputs.claims
           rows == CampInputs.relations
           g == Graph(nodes, rows)
           camps == CampsOf(g)
           S == {i \in OpenRows(Agreeing \cup Opposing) : ~Elsewhere(i)}
<1>1. /\ nodes \subseteq CampClaims
      /\ DOMAIN rows = {i \in Touching : StandsFor(Judged[i][1]) # StandsFor(Judged[i][2])}
      /\ \A i \in DOMAIN rows :
            /\ rows[i] = [a |-> StandsFor(Judged[i][1]), b |-> StandsFor(Judged[i][2]), is |-> ruling[i]]
            /\ EndsOf(rows[i]) = About(i) /\ About(i) \subseteq nodes
  BY FollowedAre
<1>2. ComputeCamps(nodes, rows) = camps BY DEF ComputeCamps
<1> HIDE DEF nodes, rows
<1>3. DOMAIN Judged = 1..Len(Judged) /\ Len(Judged) \in Nat BY CampsAssumption, LenProperties
<1>4. DOMAIN rows \subseteq Nat \ {0} /\ IsFiniteSet(DOMAIN rows)
  BY <1>1, <1>3, FS_Interval, FS_Subset DEF Touching
<1>5. nodes \subseteq Nat \ {0} /\ IsFiniteSet(nodes) BY <1>1, CampsAssumption, FS_Subset
<1>6. /\ IsGraph(g) /\ g.claims = nodes /\ g.rows = rows
      /\ g.edges = {i \in DOMAIN rows : Counts(rows[i]) /\ EndsOf(rows[i]) \subseteq nodes}
  <2>1. /\ nodes \subseteq Nat \ {0} /\ IsFiniteSet(nodes)
        /\ DOMAIN rows \subseteq Nat \ {0} /\ IsFiniteSet(DOMAIN rows)
    BY <1>4, <1>5
  <2> HIDE DEF g, camps
  <2>2. IsGraph(Graph(nodes, rows)) BY <2>1, GraphIs
  <2>3. Graph(nodes, rows).claims = nodes /\ Graph(nodes, rows).rows = rows BY <2>1, GraphIs
  <2>4. Graph(nodes, rows).edges =
              {i \in DOMAIN rows : Counts(rows[i]) /\ EndsOf(rows[i]) \subseteq nodes}
    BY DEF Graph
  <2> QED BY <2>2, <2>3, <2>4 DEF g
<1> HIDE DEF g
<1>7. \A i \in DOMAIN rows : /\ rows[i].is = ruling[i] /\ Kind(rows[i]) = Kind(Row(i))
                             /\ Counts(rows[i]) <=> ~ruling[i].resolved /\ ruling[i].label # "rejected"
                                                    /\ Kind(Row(i)) \in Agreeing \cup Opposing
  <2> SUFFICES ASSUME NEW i \in DOMAIN rows
               PROVE  /\ rows[i].is = ruling[i] /\ Kind(rows[i]) = Kind(Row(i))
                      /\ Counts(rows[i]) <=> ~ruling[i].resolved /\ ruling[i].label # "rejected"
                                             /\ Kind(Row(i)) \in Agreeing \cup Opposing
    OBVIOUS
  <2>1. rows[i].is = ruling[i] /\ Row(i).is = ruling[i] BY <1>1 DEF Row
  <2>2. Kind(rows[i]) = Kind(Row(i)) BY <2>1 DEF Kind
  <2> QED BY <2>1, <2>2 DEF Counts
<1>8. g.edges = S
  <2>1. \A i : i \in S <=> /\ i \in DOMAIN rows /\ ~ruling[i].resolved /\ ruling[i].label # "rejected"
                           /\ Kind(Row(i)) \in Agreeing \cup Opposing
    BY <1>1 DEF OpenRows, Touching, Elsewhere
  <2>2. \A i : i \in g.edges <=> i \in DOMAIN rows /\ Counts(rows[i]) BY <1>1, <1>6
  <2> HIDE DEF S
  <2>3. \A i : i \in g.edges <=> i \in S BY <2>1, <2>2, <1>7
  <2> QED BY <2>3
<1>9. \A i \in S : At(g, i) = About(i) /\ (Sign(g.rows[i]) = 1 <=> Kind(Row(i)) \in Agreeing)
  <2> SUFFICES ASSUME NEW i \in S
               PROVE  At(g, i) = About(i) /\ (Sign(g.rows[i]) = 1 <=> Kind(Row(i)) \in Agreeing)
    OBVIOUS
  <2>1. i \in DOMAIN rows BY <1>6, <1>8
  <2>2. At(g, i) = About(i) BY <2>1, <1>1, <1>6 DEF At
  <2>3. Sign(g.rows[i]) = 1 <=> Kind(Row(i)) \in Agreeing BY <2>1, <1>6, <1>7 DEF Sign
  <2> QED BY <2>2, <2>3
<1> DEFINE agree == Said(Agreeing)
           disagree == Said(Opposing)
<1>10. \A p : p \in agree <=> \E i \in S : p = About(i) /\ Sign(g.rows[i]) = 1
  <2>1. \A i : i \in OpenRows(Agreeing) <=> i \in OpenRows(Agreeing \cup Opposing) /\ Kind(Row(i)) \in Agreeing
    BY DEF OpenRows
  <2>2. \A i : (i \in OpenRows(Agreeing) /\ ~Elsewhere(i)) <=> (i \in S /\ Sign(g.rows[i]) = 1)
    BY <2>1, <1>9
  <2> HIDE DEF S
  <2> QED BY <2>2 DEF Said
<1>11. \A p : p \in disagree <=> \E i \in S : p = About(i) /\ Sign(g.rows[i]) # 1
  <2>1. \A i : i \in OpenRows(Opposing) <=> i \in OpenRows(Agreeing \cup Opposing) /\ Kind(Row(i)) \notin Agreeing
    BY DEF OpenRows, Agreeing, Opposing
  <2>2. \A i : (i \in OpenRows(Opposing) /\ ~Elsewhere(i)) <=> (i \in S /\ Sign(g.rows[i]) # 1)
    BY <2>1, <1>9
  <2> HIDE DEF S
  <2> QED BY <2>2 DEF Said
<1> HIDE DEF agree, disagree
<1>12. /\ \A k \in camps : SplitsWell(g, k)
       /\ \A k, l \in camps : k = l \/ Both(k) \cap Both(l) = {}
       /\ \A n \in g.claims : Linked(g, n) => \E k \in camps : n \in Both(k)
  BY <1>6, CampsAre
<1> HIDE DEF camps, S
<1>13. ASSUME NEW k, NEW a, NEW b
       PROVE  Separates(a, b, Within(agree, k), Within(disagree, k)) <=> Divides(g, Both(k), a, b)
  <2>1. Separates(a, b, Within(agree, k), Within(disagree, k)) <=>
          /\ \A i \in S : Sign(g.rows[i]) # 1 /\ About(i) \subseteq Both(k) => ~(About(i) \subseteq a \/ About(i) \subseteq b)
          /\ \A i \in S : Sign(g.rows[i]) = 1 /\ About(i) \subseteq Both(k) => ~(About(i) \cap a # {} /\ About(i) \cap b # {})
    BY <1>10, <1>11 DEF Within, Both, Separates
  <2>2. Divides(g, Both(k), a, b) <=>
          \A i \in S : About(i) \subseteq Both(k) =>
             IF Sign(g.rows[i]) = 1 THEN ~(About(i) \cap a # {} /\ About(i) \cap b # {})
             ELSE ~(About(i) \subseteq a \/ About(i) \subseteq b)
    BY <1>8, <1>9 DEF Divides
  <2> QED BY <2>1, <2>2
<1>14. ASSUME NEW k \in camps PROVE SplitRightly(k, agree, disagree)
  <2>1. SplitsWell(g, k) BY <1>12
  <2>2. k.frustrated \subseteq Within(agree \cup disagree, k)
    <3> SUFFICES ASSUME NEW p \in k.frustrated PROVE p \in agree \cup disagree /\ p \subseteq k.a \cup k.b
      BY DEF Within
    <3>1. PICK i \in g.edges : p = At(g, i) /\ p \subseteq Both(k) BY <2>1 DEF SplitsWell
    <3>2. i \in S /\ p = About(i) BY <3>1, <1>8, <1>9
    <3> QED BY <3>1, <3>2, <1>10, <1>11 DEF Both
  <2>3. k.frustrated = {} => Separates(k.a, k.b, Within(agree, k), Within(disagree, k))
    BY <2>1, <1>13 DEF SplitsWell
  <2>4. k.frustrated # {} => \A a \in SUBSET (k.a \cup k.b) :
            ~Separates(a, (k.a \cup k.b) \ a, Within(agree, k), Within(disagree, k))
    BY <2>1, <1>13 DEF SplitsWell, Both
  <2> QED BY <2>1, <2>2, <2>3, <2>4 DEF SplitRightly, SplitsWell
<1>15. \A k, l \in camps : k = l \/ (k.a \cup k.b) \cap (l.a \cup l.b) = {} BY <1>12 DEF Both
<1>16. ASSUME NEW i \in OpenRows(Agreeing \cup Opposing), ~Elsewhere(i)
       PROVE  \E k \in camps : About(i) \subseteq k.a \cup k.b
  <2>1. i \in g.edges /\ At(g, i) = About(i) BY <1>8, <1>9, <1>16 DEF S
  <2> DEFINE n == g.rows[i].a
  <2>2. n \in g.claims /\ n \in At(g, i) /\ Linked(g, n)
    BY <2>1, <1>6 DEF IsGraph, At, EndsOf, Linked
  <2>3. PICK k \in camps : n \in Both(k) BY <2>2, <1>12
  <2>4. At(g, i) \subseteq Both(k) BY <2>1, <2>2, <2>3, <1>12 DEF SplitsWell, ClosedIn
  <2> QED BY <2>1, <2>4 DEF Both
<1> QED BY <1>2, <1>14, <1>15, <1>16 DEF agree, disagree, nodes, rows


\* For any claims, rows and successors: a component of a cluster that can be split is split
\* as its open relations say, one that cannot is said to be unbalanced, and every open
\* relation recorded on the cluster's claims is in one, unless it was carried twice.
THEOREM CampsStand == CampsSpec => []CampsSplit
<1> DEFINE Inv == carried \subseteq DOMAIN Successor
<1>1. CampsInit => Inv BY DEF CampsInit
<1>2. Inv /\ [CampsNext]_campsVars => Inv' BY DEF CampsNext, DrawMap, campsVars
<1>3. Inv => CampsSplit BY CampsSplitRightly DEF CampsSplit
<1> QED BY <1>1, <1>2, <1>3, PTL DEF CampsSpec
=============================================================================

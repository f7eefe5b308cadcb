---------------------------- MODULE ReadingProofs ----------------------------
(* Proofs about what is found and told: that the chunks of a text cover it  *)
(* and keep its sentences (Chunking), that a search compares like with like *)
(* and misses nothing current (Retrieval), that verdicts are backed by their*)
(* evidence (Verifying), that a streamed answer is the one its whole text   *)
(* makes (Answering), and that a page says only what its claims do          *)
(* (PageBody).                                                              *)
EXTENDS ClaimsProofs, Knowledge

-----------------------------------------------------------------------------
(* Chunks.                                                                  *)

-----------------------------------------------------------------------------
(* Spans, and what they count.                                              *)

\* The greatest of some numbers up to a bound.
LEMMA LatestOf ==
    ASSUME NEW N \in Int, NEW T, T \subseteq Int, T # {}, \A i \in T : i <= N
    PROVE  Max(T) \in T /\ \A i \in T : i <= Max(T)
<1> DEFINE U == {N - i : i \in T}
<1>1. U \in SUBSET Nat /\ U # {}
  <2>1. \A i \in T : N - i \in Nat OBVIOUS
  <2> QED BY <2>1
<1>2. PICK m \in U : \A u \in U : m <= u
  <2> HIDE DEF U
  <2>1. Min(U) \in U /\ \A u \in U : Min(U) <= u BY <1>1, EarliestOf
  <2> QED BY <2>1
<1>3. PICK x \in T : m = N - x BY <1>2
<1>4. \A i \in T : i <= x BY <1>2, <1>3
<1>5. \E y \in T : \A i \in T : y >= i BY <1>3, <1>4
<1>6. Max(T) \in T /\ \A i \in T : Max(T) >= i BY <1>5 DEF Max
<1> QED BY <1>6

\* The offsets inside a span.
LEMMA InsideIs ==
    ASSUME NEW a \in Int, NEW b \in Int, a <= b
    PROVE  /\ IsFiniteSet(Inside(<<a, b>>)) /\ Cardinality(Inside(<<a, b>>)) = b - a
           /\ \A i : i \in Inside(<<a, b>>) <=> i \in Int /\ a <= i /\ i < b
<1>1. Inside(<<a, b>>) = a..(b - 1) BY DEF Inside
<1>2. IsFiniteSet(a..(b - 1)) /\ Cardinality(a..(b - 1)) = IF a > b - 1 THEN 0 ELSE (b - 1) - a + 1
  BY FS_Interval
<1> QED BY <1>1, <1>2

\* Some characters between two offsets, counted.
Some(D, a, b) == Cardinality(D \cap Inside(<<a, b>>))

\* They are as many as those up to an offset in between and those from there.
LEMMA SomeAdds ==
    ASSUME NEW D, NEW a \in Int, NEW b \in Int, NEW c \in Int, a <= b, b <= c
    PROVE  /\ Some(D, a, c) \in Nat /\ Some(D, a, b) \in Nat /\ Some(D, b, c) \in Nat
           /\ Some(D, a, c) = Some(D, a, b) + Some(D, b, c)
           /\ Some(D, a, b) <= b - a
<1> DEFINE L == D \cap Inside(<<a, b>>)
           R == D \cap Inside(<<b, c>>)
           W == D \cap Inside(<<a, c>>)
<1>1. W = L \cup R /\ L \cap R = {}
  <2>1. /\ \A i : i \in Inside(<<a, b>>) <=> i \in Int /\ a <= i /\ i < b
        /\ \A i : i \in Inside(<<b, c>>) <=> i \in Int /\ b <= i /\ i < c
        /\ \A i : i \in Inside(<<a, c>>) <=> i \in Int /\ a <= i /\ i < c
    <3>1. a <= c OBVIOUS
    <3>2. \A i : i \in Inside(<<a, b>>) <=> i \in Int /\ a <= i /\ i < b BY InsideIs
    <3>3. \A i : i \in Inside(<<b, c>>) <=> i \in Int /\ b <= i /\ i < c BY InsideIs
    <3>4. \A i : i \in Inside(<<a, c>>) <=> i \in Int /\ a <= i /\ i < c BY <3>1, InsideIs
    <3> QED BY <3>2, <3>3, <3>4
  <2>2. \A i \in Int : (a <= i /\ i < c) <=> (a <= i /\ i < b) \/ (b <= i /\ i < c) OBVIOUS
  <2>3. \A i \in Int : ~((a <= i /\ i < b) /\ (b <= i /\ i < c)) OBVIOUS
  <2>4. \A i : i \in Inside(<<a, c>>) <=> i \in Inside(<<a, b>>) \/ i \in Inside(<<b, c>>)
    BY <2>1, <2>2
  <2>5. \A i : ~(i \in Inside(<<a, b>>) /\ i \in Inside(<<b, c>>)) BY <2>1, <2>3
  <2> QED BY <2>4, <2>5
<1>2. /\ IsFiniteSet(L) /\ Cardinality(L) <= b - a
      /\ IsFiniteSet(R)
  <2>1. /\ IsFiniteSet(Inside(<<a, b>>)) /\ Cardinality(Inside(<<a, b>>)) = b - a
        /\ IsFiniteSet(Inside(<<b, c>>))
    BY InsideIs
  <2>2. L \subseteq Inside(<<a, b>>) /\ R \subseteq Inside(<<b, c>>) OBVIOUS
  <2> HIDE DEF L, R
  <2> QED BY <2>1, <2>2, FS_Subset
<1> HIDE DEF L, R, W
<1>3. Cardinality(L) \in Nat /\ Cardinality(R) \in Nat BY <1>2, FS_CardinalityType
<1>4. Cardinality(L \cup R) = Cardinality(L) + Cardinality(R) - Cardinality(L \cap R)
  BY <1>2, FS_Union
<1>5. Cardinality({}) = 0 BY FS_EmptySet
<1>6. Cardinality(W) = Cardinality(L) + Cardinality(R)
  <2>1. Cardinality(L \cap R) = 0 BY <1>1, <1>5
  <2>2. Cardinality(W) = Cardinality(L \cup R) BY <1>1
  <2> QED BY <2>1, <2>2, <1>3, <1>4
<1>7. Some(D, a, b) = Cardinality(L) /\ Some(D, b, c) = Cardinality(R) /\ Some(D, a, c) = Cardinality(W)
  BY DEF L, R, W, Some
<1> QED BY <1>2, <1>3, <1>6, <1>7

\* Whole numbers of a divisor, and what is left.
LEMMA Quotients ==
    ASSUME NEW p \in Nat \ {0}, NEW n \in Nat
    PROVE  /\ n \div p \in Nat /\ n \div p <= n
           /\ p * (n \div p) <= n /\ n <= p * (n \div p) + (p - 1)
<1>1. n \div p \in Int /\ n = p * (n \div p) + (n % p) /\ n % p \in 0..(p - 1) OBVIOUS
<1> DEFINE q == n \div p
<1>2. q \in Int /\ p * q <= n /\ n <= p * q + (p - 1) BY <1>1
<1> HIDE DEF q
<1>3. q >= 0
  <2> SUFFICES ASSUME q <= -1 PROVE FALSE BY <1>2
  <2>1. p * q <= p * (-1) BY <1>2
  <2> QED BY <1>2, <2>1
<1>4. q <= n BY <1>2, <1>3
<1> QED BY <1>2, <1>3, <1>4 DEF q

\* Where the first factor is positive, a product is not below the second.
LEMMA ProductAtLeast ==
    ASSUME NEW a \in Nat \ {0}, NEW b \in Nat
    PROVE  a * b \in Nat /\ a * b >= b
OBVIOUS

\* A span's characters, counted as tokens.
LEMMA TokensAre ==
    ASSUME NEW t, NEW a \in Int, NEW b \in Int, a <= b
    PROVE  LET d == Some(t.dense, a, b)
           IN  /\ d \in Nat /\ d <= b - a
               /\ Dense(t, <<a, b>>) = d /\ Length(<<a, b>>) = b - a
               /\ Tokens(t, <<a, b>>) = d + ((b - a) - d) \div PerToken
               /\ Tokens(t, <<a, b>>) \in Nat /\ Tokens(t, <<a, b>>) <= b - a
<1> DEFINE d == Some(t.dense, a, b)
           q == ((b - a) - d) \div PerToken
<1>1. d \in Nat /\ d <= b - a
  <2>1. a \in Int /\ b \in Int /\ a <= b /\ b <= b OBVIOUS
  <2> QED BY <2>1, SomeAdds
<1>2. Dense(t, <<a, b>>) = d /\ Length(<<a, b>>) = b - a BY DEF Dense, Length, Some
<1>3. Tokens(t, <<a, b>>) = d + q BY <1>2 DEF Tokens
<1>4. (b - a) - d \in Nat BY <1>1
<1> HIDE DEF d
<1>5. q \in Nat /\ q <= (b - a) - d BY <1>4, ChunkingAssumption, Quotients
<1> QED BY <1>1, <1>2, <1>3, <1>5 DEF d

-----------------------------------------------------------------------------
(* Splitting a sentence.                                                    *)

\* Spans in line: in order, apart, each with a character that is not white space, and no
\* such character between two offsets outside of them.
Lined(t, line, a, b) ==
    /\ line \in Seq(TextSpans)
    /\ \A i \in DOMAIN line : a <= line[i][1] /\ line[i][2] <= b /\ ~(Inside(line[i]) \subseteq t.spaces)
    /\ \A i, j \in DOMAIN line : i < j => line[i][2] <= line[j][1]
    /\ Inside(<<a, b>>) \ t.spaces \subseteq UNION {Inside(line[i]) : i \in DOMAIN line}

\* A span is a pair of numbers.
LEMMA SpanIs ==
    ASSUME NEW s \in TextSpans
    PROVE  s = <<s[1], s[2]>> /\ s[1] \in Nat /\ s[2] \in Nat /\ s[1] < s[2]
BY DEF TextSpans

\* One span is a line.
LEMMA OneInLine ==
    ASSUME NEW t, NEW a \in Nat, NEW b \in Nat, a < b, ~(Inside(<<a, b>>) \subseteq t.spaces)
    PROVE  Lined(t, <<<<a, b>>>>, a, b)
<1> DEFINE line == <<<<a, b>>>>
<1>1. <<a, b>> \in TextSpans BY DEF TextSpans
<1>2. line \in Seq(TextSpans) /\ DOMAIN line = {1} /\ line[1] = <<a, b>> BY <1>1, LenProperties
<1> HIDE DEF line
<1>3. /\ \A i \in DOMAIN line : i = 1 /\ line[i] = <<a, b>>
      /\ \A i \in DOMAIN line : line[i][1] = a /\ line[i][2] = b
  BY <1>2
<1>4. UNION {Inside(line[i]) : i \in DOMAIN line} = Inside(<<a, b>>) BY <1>2
<1>5. \A i, j \in DOMAIN line : ~(i < j) BY <1>2
<1>6. \A i \in DOMAIN line : a <= line[i][1] /\ line[i][2] <= b /\ ~(Inside(line[i]) \subseteq t.spaces)
  BY <1>3
<1>7. Lined(t, line, a, b) BY <1>2, <1>4, <1>5, <1>6 DEF Lined
<1> QED BY <1>7 DEF line

\* White space after a line leaves it one, and so does white space before.
LEMMA BlankAfter ==
    ASSUME NEW t, NEW line, NEW a \in Nat, NEW b \in Nat, NEW c \in Nat, a <= b, b <= c,
           Lined(t, line, a, b), Inside(<<b, c>>) \subseteq t.spaces
    PROVE  Lined(t, line, a, c)
<1>1. \A i \in DOMAIN line : line[i][1] \in Nat /\ line[i][2] \in Nat
  BY ElementOfSeq, LenProperties, SpanIs DEF Lined
<1>2. \A i \in DOMAIN line : a <= line[i][1] /\ line[i][2] <= c /\ ~(Inside(line[i]) \subseteq t.spaces)
  BY <1>1 DEF Lined
<1>3. Inside(<<a, c>>) \subseteq Inside(<<a, b>>) \cup Inside(<<b, c>>) BY DEF Inside
<1>4. Inside(<<a, c>>) \ t.spaces \subseteq UNION {Inside(line[i]) : i \in DOMAIN line}
  BY <1>3 DEF Lined
<1> QED BY <1>2, <1>4 DEF Lined

\* Two lines, one after the other, are one.
LEMMA LinesJoin ==
    ASSUME NEW t, NEW s, NEW u, NEW a \in Nat, NEW b \in Nat, NEW c \in Nat, a <= b, b <= c,
           Lined(t, s, a, b), Lined(t, u, b, c)
    PROVE  Lined(t, s \o u, a, c)
<1> DEFINE w == s \o u
           m == Len(s)
           n == Len(u)
<1>1. /\ m \in Nat /\ DOMAIN s = 1..m /\ n \in Nat /\ DOMAIN u = 1..n
      /\ w \in Seq(TextSpans) /\ Len(w) = m + n /\ DOMAIN w = 1..(m + n)
      /\ \A i \in 1..(m + n) : w[i] = IF i <= m THEN s[i] ELSE u[i - m]
  BY ConcatProperties, LenProperties DEF Lined
<1>2. \A i \in 1..m : /\ s[i][1] \in Nat /\ s[i][2] \in Nat
                      /\ a <= s[i][1] /\ s[i][2] <= b /\ ~(Inside(s[i]) \subseteq t.spaces)
  BY <1>1, ElementOfSeq, SpanIs DEF Lined
<1>3. \A i \in 1..n : /\ u[i][1] \in Nat /\ u[i][2] \in Nat
                      /\ b <= u[i][1] /\ u[i][2] <= c /\ ~(Inside(u[i]) \subseteq t.spaces)
  BY <1>1, ElementOfSeq, SpanIs DEF Lined
<1>4. \A i \in 1..(m + n) : \/ i \in 1..m /\ w[i] = s[i]
                            \/ i > m /\ i - m \in 1..n /\ w[i] = u[i - m]
  BY <1>1
<1>5. (\A i \in 1..m : w[i] = s[i]) /\ \A i \in 1..n : i + m \in 1..(m + n) /\ w[i + m] = u[i]
  BY <1>1
<1>6. Inside(<<a, c>>) \subseteq Inside(<<a, b>>) \cup Inside(<<b, c>>) BY DEF Inside
<1> HIDE DEF w, m, n
<1>7. \A i \in DOMAIN w : a <= w[i][1] /\ w[i][2] <= c /\ ~(Inside(w[i]) \subseteq t.spaces)
  BY <1>1, <1>2, <1>3, <1>4
<1>8. ASSUME NEW i \in DOMAIN w, NEW j \in DOMAIN w, i < j PROVE w[i][2] <= w[j][1]
  <2>1. CASE i \in 1..m /\ j \in 1..m BY <2>1, <1>1, <1>5, <1>8 DEF Lined
  <2>2. CASE i \in 1..m /\ ~(j \in 1..m)
    <3>1. w[i] = s[i] /\ w[j] = u[j - m] /\ j - m \in 1..n BY <2>2, <1>1, <1>4
    <3> QED BY <2>2, <3>1, <1>2, <1>3
  <2>3. CASE ~(i \in 1..m)
    <3>1. /\ w[i] = u[i - m] /\ i - m \in 1..n /\ w[j] = u[j - m] /\ j - m \in 1..n
      BY <2>3, <1>1, <1>4, <1>8
    <3>2. i - m < j - m BY <1>1, <1>8
    <3> QED BY <3>1, <3>2, <1>1 DEF Lined
  <2> QED BY <2>1, <2>2, <2>3
<1>9. Inside(<<a, c>>) \ t.spaces \subseteq UNION {Inside(w[i]) : i \in DOMAIN w}
  <2> SUFFICES ASSUME NEW p \in Inside(<<a, c>>), p \notin t.spaces
               PROVE  \E i \in DOMAIN w : p \in Inside(w[i])
    OBVIOUS
  <2>1. CASE p \in Inside(<<a, b>>)
    <3>1. PICK i \in DOMAIN s : p \in Inside(s[i]) BY <2>1 DEF Lined
    <3>2. i \in 1..(m + n) /\ w[i] = s[i] BY <1>1, <1>5, <3>1
    <3> QED BY <1>1, <3>1, <3>2
  <2>2. CASE p \in Inside(<<b, c>>)
    <3>1. PICK i \in DOMAIN u : p \in Inside(u[i]) BY <2>2 DEF Lined
    <3>2. i + m \in 1..(m + n) /\ w[i + m] = u[i] BY <1>1, <1>5, <3>1
    <3> QED BY <1>1, <3>1, <3>2
  <2> QED BY <1>6, <2>1, <2>2
<1>10. Lined(t, w, a, c) BY <1>1, <1>7, <1>8, <1>9 DEF Lined
<1> QED BY <1>10 DEF w

\* An empty line, up to where there is only white space.
LEMMA NoneInLine ==
    ASSUME NEW t, NEW a \in Nat, NEW b \in Nat, Inside(<<a, b>>) \subseteq t.spaces
    PROVE  Lined(t, <<>>, a, b)
BY DEF Lined

\* The parts of a text.
LEMMA TextParts ==
    ASSUME NEW t, IsText(t)
    PROVE  /\ t.length \in Nat /\ t.sentences \in Seq(TextSpans)
           /\ Len(t.sentences) \in Nat /\ DOMAIN t.sentences = 1..Len(t.sentences)
           /\ \A i \in 1..Len(t.sentences) :
                /\ t.sentences[i] \in TextSpans
                /\ t.sentences[i] = <<t.sentences[i][1], t.sentences[i][2]>>
                /\ t.sentences[i][1] \in Nat /\ t.sentences[i][2] \in Nat
                /\ t.sentences[i][1] < t.sentences[i][2] /\ t.sentences[i][2] <= t.length
                /\ t.sentences[i][1] \notin t.spaces /\ t.sentences[i][2] - 1 \notin t.spaces
                /\ \A j \in 1..Len(t.sentences) : i < j => t.sentences[i][2] <= t.sentences[j][1]
           /\ Inside(<<0, t.length>>) \ t.spaces \subseteq UNION {Inside(t.sentences[i]) : i \in 1..Len(t.sentences)}
<1> DEFINE line == t.sentences
<1>1. line \in Seq(TextSpans) /\ Len(line) \in Nat /\ DOMAIN line = 1..Len(line)
  BY LenProperties DEF IsText
<1>2. \A i \in 1..Len(line) : line[i] \in TextSpans BY <1>1, ElementOfSeq
<1>3. \A i \in 1..Len(line) :
        /\ line[i] = <<line[i][1], line[i][2]>>
        /\ line[i][1] \in Nat /\ line[i][2] \in Nat /\ line[i][1] < line[i][2]
  BY <1>2, SpanIs
<1>4. \A i \in DOMAIN line :
        /\ line[i][2] <= t.length
        /\ {line[i][1], line[i][2] - 1} \cap t.spaces = {}
        /\ \A j \in DOMAIN line : i < j => line[i][2] <= line[j][1]
  BY DEF IsText
<1>5. t.length \in Nat /\ (0..(t.length - 1)) \ t.spaces \subseteq UNION {Inside(line[i]) : i \in DOMAIN line}
  BY DEF IsText
<1>6. Inside(<<0, t.length>>) = 0..(t.length - 1) BY DEF Inside
<1>7. \A i \in 1..Len(line) : line[i][1] \notin t.spaces /\ line[i][2] - 1 \notin t.spaces
  BY <1>1, <1>4
<1> QED BY <1>1, <1>2, <1>3, <1>4, <1>5, <1>6, <1>7

\* A budget is at least one character.
LEMMA BudgetIs ==
    ASSUME NEW t, NEW a \in Nat, NEW b \in Nat, a < b
    PROVE  Budget(t, <<a, b>>) \in Nat \ {0}
<1> DEFINE k == Tokens(t, <<a, b>>)
           n == b - a
<1>1. k \in Nat /\ k <= n /\ Length(<<a, b>>) = n /\ n \in Nat /\ n > 0 BY TokensAre
<1>2. MaxTokens \in Nat \ {0} /\ PerToken \in Nat \ {0} BY ChunkingAssumption
<1>3. CASE k = 0 BY <1>2, <1>3, ProductAtLeast DEF Budget
<1>4. CASE k # 0
  <2> DEFINE m == MaxTokens * n
             q == m \div k
  <2>1. Budget(t, <<a, b>>) = q BY <1>1, <1>4 DEF Budget
  <2> HIDE DEF k, n
  <2>2. m \in Nat /\ m >= n BY <1>1, <1>2, ProductAtLeast
  <2>3. k \in Nat \ {0} BY <1>1, <1>4
  <2> HIDE DEF m
  <2>4. q \in Nat /\ m <= k * q + (k - 1) BY <2>2, <2>3, Quotients
  <2>5. q # 0
    <3> SUFFICES ASSUME q = 0 PROVE FALSE OBVIOUS
    <3>1. m <= k - 1 BY <2>4, <2>3
    <3> QED BY <3>1, <2>2, <2>3, <1>1
  <2> QED BY <2>1, <2>4, <2>5
<1> QED BY <1>3, <1>4

\* A piece ends after it begins, in its sentence and within the budget.
LEMMA PieceIs ==
    ASSUME NEW t, IsText(t), NEW a \in Nat, NEW b \in Nat, NEW c \in Nat, a <= c, c < b
    PROVE  LET e == PieceEnd(t, <<a, b>>, c)
           IN  e \in Nat /\ c < e /\ e <= b /\ e - c <= Budget(t, <<a, b>>)
<1> DEFINE u == Budget(t, <<a, b>>)
           w == c + u
           at == {i \in t.breaks : c < i /\ i < w}
           e == PieceEnd(t, <<a, b>>, c)
<1>1. u \in Nat \ {0} BY BudgetIs
<1>2. e = IF w < b THEN Cut(t, c, w) ELSE b BY DEF PieceEnd
<1>3. Cut(t, c, w) = IF at = {} THEN w ELSE Max(at) BY DEF Cut
<1> HIDE DEF u, e
<1>4. w \in Nat /\ c < w BY <1>1
<1>5. at # {} => Max(at) \in at
  <2> SUFFICES ASSUME at # {} PROVE Max(at) \in at OBVIOUS
  <2>1. at \subseteq Int BY DEF IsText
  <2>2. \A i \in at : i <= w BY <2>1, <1>4
  <2>3. w \in Int BY <1>4
  <2> HIDE DEF at, w
  <2> QED BY <2>1, <2>2, <2>3, LatestOf
<1>6. at # {} => Max(at) \in Nat /\ c < Max(at) /\ Max(at) < w BY <1>5 DEF IsText
<1> HIDE DEF at
<1> QED BY <1>1, <1>2, <1>3, <1>4, <1>6 DEF e, u

\* Pieces of a sentence as a loop has cut them.
Cutting(t, a, b, loop) ==
    /\ loop = [cursor |-> loop.cursor, out |-> loop.out]
    /\ loop.cursor \in Nat /\ a <= loop.cursor /\ loop.cursor <= b
    /\ Lined(t, loop.out, a, loop.cursor)
    /\ \A i \in DOMAIN loop.out : loop.out[i][2] - loop.out[i][1] <= Budget(t, <<a, b>>)
Cuttings(t, a, b) == {loop \in [cursor : a..b, out : Seq(TextSpans)] : Cutting(t, a, b, loop)}

\* One more piece.
LEMMA NextPieceIs ==
    ASSUME NEW t, IsText(t), NEW a \in Nat, NEW b \in Nat, a < b, NEW loop \in Cuttings(t, a, b)
    PROVE  /\ NextPiece(t, <<a, b>>, loop) \in Cuttings(t, a, b)
           /\ loop.cursor = b => NextPiece(t, <<a, b>>, loop).cursor = b
           /\ loop.cursor < b => loop.cursor < NextPiece(t, <<a, b>>, loop).cursor
<1> DEFINE c == loop.cursor
           e == PieceEnd(t, <<a, b>>, c)
           piece == <<c, e>>
           more == IF Inside(piece) \subseteq t.spaces THEN loop.out ELSE Append(loop.out, piece)
           new == NextPiece(t, <<a, b>>, loop)
<1>1. c \in Nat /\ a <= c /\ c <= b /\ Cutting(t, a, b, loop) BY DEF Cuttings, Cutting
<1>2. CASE c = b BY <1>1, <1>2 DEF NextPiece
<1>3. CASE c < b
  <2>1. new = [cursor |-> e, out |-> more] BY <1>1, <1>3 DEF NextPiece
  <2>2. e \in Nat /\ c < e /\ e <= b /\ e - c <= Budget(t, <<a, b>>)
    <3> HIDE DEF c
    <3> QED BY <1>1, <1>3, PieceIs
  <2> HIDE DEF e, c, new
  <2>3. Lined(t, loop.out, a, c) /\ \A i \in DOMAIN loop.out : loop.out[i][2] - loop.out[i][1] <= Budget(t, <<a, b>>)
    BY <1>1 DEF Cutting, c
  <2>4. Lined(t, more, a, e) /\ \A i \in DOMAIN more : more[i][2] - more[i][1] <= Budget(t, <<a, b>>)
    <3>1. CASE Inside(piece) \subseteq t.spaces BY <1>1, <2>2, <2>3, <3>1, BlankAfter
    <3>2. CASE ~(Inside(piece) \subseteq t.spaces)
      <4>1. more = loop.out \o <<piece>> BY <2>3, <3>2 DEF Lined
      <4>2. Lined(t, <<piece>>, c, e) BY <1>1, <2>2, <3>2, OneInLine
      <4>3. Lined(t, loop.out \o <<piece>>, a, e)
        <5>1. c <= e BY <1>1, <2>2
        <5> HIDE DEF piece
        <5> QED BY <1>1, <2>2, <2>3, <4>2, <5>1, LinesJoin
      <4>4. ASSUME NEW i \in DOMAIN more PROVE more[i][2] - more[i][1] <= Budget(t, <<a, b>>)
        <5>1. loop.out \in Seq(TextSpans) BY <2>3 DEF Lined
        <5>2. more = Append(loop.out, piece) BY <3>2
        <5>3. /\ Len(loop.out) \in Nat /\ DOMAIN loop.out = 1..Len(loop.out)
              /\ DOMAIN Append(loop.out, piece) = 1..(Len(loop.out) + 1)
              /\ \A k \in 1..Len(loop.out) : Append(loop.out, piece)[k] = loop.out[k]
              /\ Append(loop.out, piece)[Len(loop.out) + 1] = piece
          <6>1. piece \in TextSpans BY <1>1, <2>2 DEF TextSpans
          <6> HIDE DEF piece
          <6> QED BY <5>1, <6>1, AppendProperties, LenProperties
        <5>4. i = Len(loop.out) + 1 \/ i \in 1..Len(loop.out) BY <5>2, <5>3
        <5>5. CASE i = Len(loop.out) + 1
          <6>1. more[i] = piece BY <5>2, <5>3, <5>5
          <6> QED BY <6>1, <2>2
        <5>6. CASE i \in 1..Len(loop.out) BY <2>3, <5>2, <5>3, <5>6
        <5> QED BY <5>4, <5>5, <5>6
      <4> QED BY <4>1, <4>3, <4>4
    <3> QED BY <3>1, <3>2
  <2> HIDE DEF more
  <2>5. more \in Seq(TextSpans) BY <2>4 DEF Lined
  <2>6. new.cursor = e /\ new.out = more /\ new = [cursor |-> new.cursor, out |-> new.out]
    BY <2>1
  <2>7. e \in a..b BY <1>1, <2>2
  <2>8. new \in [cursor : a..b, out : Seq(TextSpans)] BY <2>1, <2>5, <2>7
  <2>9. Cutting(t, a, b, new) BY <1>1, <2>2, <2>4, <2>6, <2>7 DEF Cutting
  <2>10. new \in Cuttings(t, a, b) BY <2>8, <2>9 DEF Cuttings
  <2> QED BY <1>3, <2>2, <2>6, <2>10 DEF new, c
<1> QED BY <1>1, <1>2, <1>3

\* The pieces of a sentence cover it, each within the budget.
LEMMA PiecesAre ==
    ASSUME NEW t, IsText(t), NEW a \in Nat, NEW b \in Nat, a < b
    PROVE  /\ Lined(t, HardSplit(t, <<a, b>>), a, b)
           /\ \A i \in DOMAIN HardSplit(t, <<a, b>>) :
                HardSplit(t, <<a, b>>)[i][2] - HardSplit(t, <<a, b>>)[i][1] <= Budget(t, <<a, b>>)
<1> DEFINE N == b - a
           S == Cuttings(t, a, b)
           base == [cursor |-> a, out |-> <<>>]
           g == [p \in (1..N) \X S |-> NextPiece(t, <<a, b>>, p[2])]
           rec(f) == f = [n \in 0..N |-> IF n = 0 THEN base ELSE NextPiece(t, <<a, b>>, f[n - 1])]
<1>1. N \in Nat /\ N > 0 OBVIOUS
<1>2. HardSplit(t, <<a, b>>) = (CHOOSE f : rec(f))[N].out BY DEF HardSplit, Length
<1>3. base \in S
  <2>1. Inside(<<a, a>>) \subseteq t.spaces BY DEF Inside
  <2>2. Lined(t, <<>>, a, a) BY <2>1, NoneInLine
  <2>3. base.cursor = a /\ base.out = <<>> /\ base = [cursor |-> base.cursor, out |-> base.out]
    OBVIOUS
  <2>4. \A i \in DOMAIN base.out : FALSE BY <2>3
  <2>5. a \in a..b /\ <<>> \in Seq(TextSpans) OBVIOUS
  <2>6. base \in [cursor : a..b, out : Seq(TextSpans)] BY <2>5
  <2> HIDE DEF base
  <2>7. Cutting(t, a, b, base) BY <2>2, <2>3, <2>4 DEF Cutting
  <2> QED BY <2>6, <2>7 DEF Cuttings
<1> HIDE DEF base
<1>4. \A u \in S : NextPiece(t, <<a, b>>, u) \in S
  <2> SUFFICES ASSUME NEW u \in S PROVE NextPiece(t, <<a, b>>, u) \in S OBVIOUS
  <2> QED BY NextPieceIs
<1>5. g \in [(1..N) \X S -> S]
  <2> HIDE DEF S
  <2> QED BY <1>4
<1>6. PICK h : Iterates(h, N, S, base, g)
  <2> HIDE DEF g, N, S
  <2> QED BY <1>1, <1>3, <1>5, Iterated
<1>7. h \in [0..N -> S] /\ h[0] = base /\ \A n \in 1..N : h[n] = NextPiece(t, <<a, b>>, h[n - 1])
  <2>1. h \in [0..N -> S] /\ h[0] = base /\ \A n \in 1..N : h[n] = g[<<n, h[n - 1]>>]
    BY <1>6 DEF Iterates
  <2>2. \A n \in 1..N : n - 1 \in 0..N BY <1>1
  <2> HIDE DEF S, N
  <2> QED BY <2>1, <2>2
<1>8. rec(h)
  <2>1. \A n \in 0..N : n = 0 \/ n \in 1..N BY <1>1
  <2> HIDE DEF S, N
  <2>2. h = [n \in 0..N |-> h[n]] BY <1>7
  <2> QED BY <1>7, <2>1, <2>2
<1> DEFINE f == CHOOSE f : rec(f)
<1>9. rec(f) BY <1>8
<1> HIDE DEF f
<1>10. f[0] = base /\ \A n \in 1..N : f[n] = NextPiece(t, <<a, b>>, f[n - 1])
  <2>1. f = [n \in 0..N |-> IF n = 0 THEN base ELSE NextPiece(t, <<a, b>>, f[n - 1])] BY <1>9
  <2> HIDE DEF rec, N
  <2>2. \A n \in 0..N : f[n] = IF n = 0 THEN base ELSE NextPiece(t, <<a, b>>, f[n - 1]) BY <2>1
  <2>3. 0 \in 0..N /\ \A n \in 1..N : n \in 0..N /\ n # 0 BY <1>1
  <2> QED BY <2>2, <2>3
<1> HIDE DEF rec
<1>11. HardSplit(t, <<a, b>>) = f[N].out BY <1>2 DEF f
<1> DEFINE P == {n \in 0..N : f[n] \in S /\ (f[n].cursor = b \/ f[n].cursor >= a + n)}
<1>12. 0 \in P BY <1>1, <1>3, <1>10 DEF base
<1>13. ASSUME NEW n \in 1..N, n - 1 \in P PROVE n \in P
  <2> DEFINE u == f[n - 1]
             v == f[n]
  <2>1. v = NextPiece(t, <<a, b>>, u) /\ u \in S /\ (u.cursor = b \/ u.cursor >= a + (n - 1)) /\ n \in 0..N
    BY <1>10, <1>13
  <2> HIDE DEF u, v
  <2>2. v \in S /\ (u.cursor = b => v.cursor = b) /\ (u.cursor < b => u.cursor < v.cursor)
    BY <2>1, NextPieceIs
  <2>3. u.cursor \in Nat /\ u.cursor <= b /\ v.cursor \in Nat
    BY <2>1, <2>2 DEF Cuttings, Cutting
  <2>4. v.cursor = b \/ v.cursor >= a + n BY <2>1, <2>2, <2>3
  <2> QED BY <2>1, <2>2, <2>4 DEF v
<1> HIDE DEF P
<1>14. \A n \in 0..N : n \in P
  <2> HIDE DEF N
  <2> QED BY <1>1, <1>12, <1>13, CountsUpTo
<1>15. f[N] \in S /\ (f[N].cursor = b \/ f[N].cursor >= a + N) BY <1>1, <1>14 DEF P
<1> DEFINE z == f[N]
<1>16. z.cursor = b /\ Lined(t, z.out, a, z.cursor)
       /\ \A i \in DOMAIN z.out : z.out[i][2] - z.out[i][1] <= Budget(t, <<a, b>>)
  <2>1. z \in S /\ (z.cursor = b \/ z.cursor >= a + N) BY <1>15
  <2> HIDE DEF z
  <2>2. Cutting(t, a, b, z) BY <2>1 DEF Cuttings
  <2>3. z.cursor = b BY <2>1, <2>2 DEF Cutting
  <2> QED BY <2>2, <2>3 DEF Cutting
<1>17. HardSplit(t, <<a, b>>) = z.out BY <1>11
<1> HIDE DEF z
<1> QED BY <1>16, <1>17

\* The characters of a sentence are not all of one kind.
Mixed(t, s) == t.dense \cap Inside(s) \notin {{}, Inside(s)}

\* A piece of the budget is within the limit, where its sentence is not mixed.
LEMMA PieceFits ==
    ASSUME NEW t, NEW a \in Nat, NEW b \in Nat, NEW c \in Nat, NEW e \in Nat,
           a <= c, c < e, e <= b, e - c <= Budget(t, <<a, b>>),
           Tokens(t, <<a, b>>) > MaxTokens, ~Mixed(t, <<a, b>>)
    PROVE  Tokens(t, <<c, e>>) <= MaxTokens
<1> DEFINE k == Tokens(t, <<a, b>>)
           n == b - a
           l == e - c
           q == (MaxTokens * n) \div k
           d == Some(t.dense, a, b)
           s == Some(t.dense, c, e)
<1>1. MaxTokens \in Nat \ {0} /\ PerToken \in Nat \ {0} BY ChunkingAssumption
<1>2. /\ d \in Nat /\ d <= n /\ Length(<<a, b>>) = n /\ k = d + (n - d) \div PerToken /\ k \in Nat
      /\ n \in Nat
  BY TokensAre
<1>3. /\ s \in Nat /\ s <= l /\ Tokens(t, <<c, e>>) = s + (l - s) \div PerToken /\ l \in Nat
  BY TokensAre
<1>4. l <= q BY <1>1, <1>2 DEF Budget
<1>5. q * k <= MaxTokens * n /\ q \in Nat
  <2>1. MaxTokens * n \in Nat BY <1>1, <1>2, ProductAtLeast
  <2>2. k \in Nat \ {0} BY <1>1, <1>2
  <2> DEFINE m == MaxTokens * n
  <2> HIDE DEF m, k
  <2>3. m \div k \in Nat /\ k * (m \div k) <= m BY <2>1, <2>2, Quotients DEF m
  <2>4. q = m \div k BY DEF m
  <2> HIDE DEF q
  <2>5. q * k = k * q BY <2>2, <2>3, <2>4
  <2> QED BY <2>3, <2>4, <2>5 DEF m
<1>6. Inside(<<c, e>>) \subseteq Inside(<<a, b>>) BY DEF Inside
<1>7. CASE t.dense \cap Inside(<<a, b>>) = {}
  <2>1. d = 0 /\ s = 0 BY <1>6, <1>7, FS_EmptySet DEF Some
  <2>2. k = n \div PerToken /\ Tokens(t, <<c, e>>) = l \div PerToken
    <3> HIDE DEF q, k, n, l, d, s
    <3>1. n - d = n /\ l - s = l BY <1>2, <1>3, <2>1
    <3>2. n \div PerToken \in Nat /\ l \div PerToken \in Nat BY <1>1, <1>2, <1>3, Quotients
    <3> QED BY <1>2, <1>3, <2>1, <3>1, <3>2
  <2> HIDE DEF q, k, n, l, d, s
  <2> DEFINE p == PerToken
             x == l \div p
  <2>3. x \in Nat /\ p * x <= l /\ n <= p * k + (p - 1) /\ k \in Nat
    BY <1>1, <1>2, <1>3, <2>2, Quotients
  <2> DEFINE M == MaxTokens
  <2>4. M < k /\ p \in Nat \ {0} /\ M \in Nat \ {0} BY <1>1 DEF k
  <2> HIDE DEF x, p, M
  <2>5. x <= M
    <3> SUFFICES ASSUME x >= M + 1 PROVE FALSE BY <2>3, <2>4
    <3>1. p * (M + 1) <= p * x BY <2>3, <2>4
    <3>2. p * M + p <= q BY <1>3, <1>4, <1>5, <2>3, <2>4, <3>1
    <3>3. (p * M + p) * k <= q * k BY <3>2, <2>3, <2>4, <1>5
    <3>4. M * n <= M * (p * k + (p - 1)) BY <2>3, <2>4, <1>2
    <3>5. (p * M + p) * k = M * (p * k) + p * k BY <2>3, <2>4
    <3>6. M * (p * k + (p - 1)) = M * (p * k) + M * (p - 1) BY <2>3, <2>4
    <3>7. /\ p * k \in Nat /\ M * (p * k) \in Nat /\ M * (p - 1) \in Nat /\ M * n \in Nat
      BY <2>3, <2>4, <1>2
    <3>8. p * k <= M * (p - 1) BY <1>5, <2>3, <3>3, <3>4, <3>5, <3>6, <3>7 DEF M
    <3>9. M * (p - 1) <= M * p BY <2>4
    <3>10. M * p <= (k - 1) * p BY <2>3, <2>4
    <3>11. (k - 1) * p = p * k - p BY <2>3, <2>4
    <3> QED BY <3>7, <3>8, <3>9, <3>10, <3>11, <2>4
  <2> QED BY <2>2, <2>5 DEF x, p, M
<1>8. CASE t.dense \cap Inside(<<a, b>>) = Inside(<<a, b>>)
  <2>1. d = n /\ s = l
    <3>1. t.dense \cap Inside(<<c, e>>) = Inside(<<c, e>>) BY <1>6, <1>8
    <3>2. Cardinality(Inside(<<a, b>>)) = b - a BY InsideIs
    <3>3. Cardinality(Inside(<<c, e>>)) = e - c BY InsideIs
    <3> QED BY <1>8, <3>1, <3>2, <3>3 DEF Some
  <2>2. k = n /\ Tokens(t, <<c, e>>) = l BY <1>1, <1>2, <1>3, <2>1
  <2>3. q <= MaxTokens
    <3> HIDE DEF q, k, n
    <3>1. q * n <= MaxTokens * n /\ n > 0 BY <1>1, <1>2, <1>5, <2>2 DEF k
    <3> SUFFICES ASSUME q >= MaxTokens + 1 PROVE FALSE BY <1>1, <1>5
    <3>2. (MaxTokens + 1) * n <= q * n BY <1>1, <1>2, <1>5
    <3>3. (MaxTokens + 1) * n = MaxTokens * n + n /\ MaxTokens * n \in Nat BY <1>1, <1>2
    <3> QED BY <1>2, <1>5, <3>1, <3>2, <3>3
  <2> HIDE DEF q, l
  <2> QED BY <1>1, <1>3, <1>4, <1>5, <2>2, <2>3
<1> QED BY <1>7, <1>8 DEF Mixed

-----------------------------------------------------------------------------
(* The units of a text.                                                     *)

\* A unit is within the limit, or is a piece of a mixed sentence.
Fit(t, u) ==
    \/ Tokens(t, u) <= MaxTokens
    \/ \E n \in DOMAIN t.sentences : Mixed(t, t.sentences[n]) /\ Inside(u) \subseteq Inside(t.sentences[n])

\* What a sentence is exploded into.
LEMMA ExplodedIs ==
    ASSUME NEW t, IsText(t), NEW m \in 1..Len(t.sentences)
    PROVE  LET s == t.sentences[m]
               out == Exploded(t, s)
           IN  /\ Lined(t, out, s[1], s[2])
               /\ \A i \in DOMAIN out : Fit(t, out[i])
               /\ Tokens(t, s) <= MaxTokens => out = <<s>>
<1> DEFINE s == t.sentences[m]
           out == Exploded(t, s)
           a == s[1]
           b == s[2]
<1> SUFFICES /\ Lined(t, out, a, b)
             /\ \A i \in DOMAIN out : Fit(t, out[i])
             /\ Tokens(t, s) <= MaxTokens => out = <<s>>
  OBVIOUS
<1>1. /\ a \in Nat /\ b \in Nat /\ a < b /\ s = <<a, b>> /\ s \in TextSpans /\ a \notin t.spaces
      /\ m \in DOMAIN t.sentences
  BY TextParts
<1>2. Tokens(t, <<a, b>>) \in Nat /\ MaxTokens \in Nat
  <2>1. a \in Int /\ b \in Int /\ a <= b BY <1>1
  <2> HIDE DEF a, b
  <2> QED BY <2>1, TokensAre, ChunkingAssumption
<1>3. CASE Tokens(t, s) <= MaxTokens
  <2>1. out = <<s>> BY <1>1, <1>2, <1>3 DEF Exploded
  <2>2. a \in Inside(<<a, b>>) BY <1>1 DEF Inside
  <2>3. Lined(t, <<<<a, b>>>>, a, b)
    <3> HIDE DEF a, b
    <3> QED BY <1>1, <2>2, OneInLine
  <2>4. Lined(t, out, a, b) BY <1>1, <2>1, <2>3
  <2>5. ASSUME NEW i \in DOMAIN out PROVE Fit(t, out[i])
    <3>1. out[i] = s BY <2>1
    <3> HIDE DEF out
    <3> QED BY <1>3, <3>1 DEF Fit
  <2> QED BY <2>1, <2>4, <2>5
<1>4. CASE Tokens(t, s) > MaxTokens
  <2>1. out = HardSplit(t, <<a, b>>) BY <1>1, <1>2, <1>4 DEF Exploded
  <2>2. /\ Lined(t, out, a, b)
        /\ \A i \in DOMAIN out : out[i][2] - out[i][1] <= Budget(t, <<a, b>>)
    <3>1. /\ Lined(t, HardSplit(t, <<a, b>>), a, b)
          /\ \A i \in DOMAIN HardSplit(t, <<a, b>>) :
               HardSplit(t, <<a, b>>)[i][2] - HardSplit(t, <<a, b>>)[i][1] <= Budget(t, <<a, b>>)
      <4> HIDE DEF a, b
      <4> QED BY <1>1, PiecesAre
    <3> QED BY <2>1, <3>1
  <2> HIDE DEF out
  <2>3. ASSUME NEW i \in DOMAIN out PROVE Fit(t, out[i])
    <3> DEFINE c == out[i][1]
               e == out[i][2]
    <3>1. out[i] \in TextSpans BY <2>2, ElementOfSeq, LenProperties DEF Lined
    <3>2. out[i] = <<c, e>> /\ c \in Nat /\ e \in Nat /\ c < e BY <3>1, SpanIs
    <3>3. a <= c /\ e <= b /\ e - c <= Budget(t, <<a, b>>) BY <2>2 DEF Lined
    <3>4. CASE Mixed(t, <<a, b>>)
      <4>1. Inside(<<c, e>>) \subseteq Inside(<<a, b>>)
        <5> HIDE DEF a, b, c, e
        <5> QED BY <1>1, <3>2, <3>3 DEF Inside
      <4>2. Mixed(t, t.sentences[m]) /\ Inside(out[i]) \subseteq Inside(t.sentences[m])
        BY <1>1, <3>2, <3>4, <4>1
      <4> QED BY <1>1, <4>2 DEF Fit
    <3>5. CASE ~Mixed(t, <<a, b>>)
      <4>1. Tokens(t, <<a, b>>) > MaxTokens BY <1>1, <1>4
      <4>2. Tokens(t, <<c, e>>) <= MaxTokens
        <5> HIDE DEF a, b, c, e
        <5> QED BY <1>1, <3>2, <3>3, <3>5, <4>1, PieceFits
      <4>3. Tokens(t, out[i]) <= MaxTokens BY <3>2, <4>2
      <4> QED BY <4>3 DEF Fit
    <3> QED BY <3>4, <3>5
  <2>4. ~(Tokens(t, s) <= MaxTokens) BY <1>1, <1>2, <1>4
  <2> QED BY <2>2, <2>3, <2>4
<1>5. Tokens(t, s) <= MaxTokens \/ Tokens(t, s) > MaxTokens BY <1>1, <1>2
<1> HIDE DEF out, a, b, s
<1> QED BY <1>3, <1>4, <1>5

\* Where the first n sentences end.
EndOf(t, n) == IF n = 0 THEN 0 ELSE t.sentences[n][2]

\* Between sentences there is only white space.
LEMMA BetweenSentences ==
    ASSUME NEW t, IsText(t)
    PROVE  LET N == Len(t.sentences)
           IN  /\ \A n \in 0..N : EndOf(t, n) \in Nat /\ EndOf(t, n) <= t.length
               /\ \A n \in 1..N : /\ EndOf(t, n - 1) <= t.sentences[n][1]
                                  /\ Inside(<<EndOf(t, n - 1), t.sentences[n][1]>>) \subseteq t.spaces
               /\ Inside(<<EndOf(t, N), t.length>>) \subseteq t.spaces
<1> DEFINE N == Len(t.sentences)
           s(i) == t.sentences[i]
<1>1. /\ t.length \in Nat /\ N \in Nat
      /\ \A i \in 1..N : /\ s(i)[1] \in Nat /\ s(i)[2] \in Nat /\ s(i)[1] < s(i)[2] /\ s(i)[2] <= t.length
                         /\ s(i) = <<s(i)[1], s(i)[2]>>
                         /\ \A j \in 1..N : i < j => s(i)[2] <= s(j)[1]
      /\ Inside(<<0, t.length>>) \ t.spaces \subseteq UNION {Inside(s(i)) : i \in 1..N}
  BY TextParts
<1>2. /\ \A n \in 1..N : EndOf(t, n) = s(n)[2]
      /\ EndOf(t, 0) = 0
  BY DEF EndOf
<1> HIDE DEF N, s
<1>3. \A n \in 0..N : EndOf(t, n) \in Nat /\ EndOf(t, n) <= t.length BY <1>1, <1>2
<1>4. \A n \in 1..N : EndOf(t, n - 1) <= s(n)[1]
  <2> SUFFICES ASSUME NEW n \in 1..N PROVE EndOf(t, n - 1) <= s(n)[1] OBVIOUS
  <2>1. n - 1 = 0 \/ (n - 1 \in 1..N /\ n - 1 < n) BY <1>1
  <2>2. CASE n - 1 = 0 BY <1>1, <1>2, <2>2
  <2>3. CASE n - 1 \in 1..N /\ n - 1 < n BY <1>1, <1>2, <2>3
  <2> QED BY <2>1, <2>2, <2>3
\* A character inside sentence i is before where the first n end, or after sentence n begins.
<1>5. ASSUME NEW n \in 0..N, NEW i \in 1..N, NEW p \in Inside(s(i))
      PROVE  /\ p \in Int
             /\ i <= n => p < EndOf(t, n)
             /\ i > n => n + 1 \in 1..N /\ s(n + 1)[1] <= p
  <2>1. p \in Int /\ s(i)[1] <= p /\ p < s(i)[2] BY <1>1, <1>5 DEF Inside
  <2>2. ASSUME i <= n PROVE p < EndOf(t, n) BY <1>1, <1>2, <2>1, <2>2
  <2>3. ASSUME i > n PROVE n + 1 \in 1..N /\ s(n + 1)[1] <= p BY <1>1, <2>1, <2>3
  <2> QED BY <2>1, <2>2, <2>3
<1>6. ASSUME NEW n \in 1..N PROVE Inside(<<EndOf(t, n - 1), s(n)[1]>>) \subseteq t.spaces
  <2> SUFFICES ASSUME NEW p \in Inside(<<EndOf(t, n - 1), s(n)[1]>>), p \notin t.spaces PROVE FALSE
    OBVIOUS
  <2>1. n - 1 \in 0..N /\ (n - 1) + 1 = n BY <1>1
  <2>2. p \in Int /\ EndOf(t, n - 1) <= p /\ p < s(n)[1] /\ p \in Inside(<<0, t.length>>)
    BY <1>1, <1>3, <2>1 DEF Inside
  <2>3. PICK i \in 1..N : p \in Inside(s(i)) BY <1>1, <2>2
  <2>4. i <= n - 1 \/ i > n - 1 BY <1>1
  <2> QED BY <1>1, <1>3, <1>5, <2>1, <2>2, <2>3, <2>4
<1>7. Inside(<<EndOf(t, N), t.length>>) \subseteq t.spaces
  <2> SUFFICES ASSUME NEW p \in Inside(<<EndOf(t, N), t.length>>), p \notin t.spaces PROVE FALSE
    OBVIOUS
  <2>1. N \in 0..N /\ ~(N + 1 \in 1..N) BY <1>1
  <2>2. p \in Int /\ EndOf(t, N) <= p /\ p \in Inside(<<0, t.length>>)
    BY <1>1, <1>3, <2>1 DEF Inside
  <2>3. PICK i \in 1..N : p \in Inside(s(i)) BY <1>1, <2>2
  <2>4. i <= N \/ i > N BY <1>1
  <2> QED BY <1>1, <1>3, <1>5, <2>1, <2>2, <2>3, <2>4
<1> QED BY <1>3, <1>4, <1>6, <1>7 DEF N, s

\* The units of a text cover it, and a sentence within the limit is one.
LEMMA UnitsAre ==
    ASSUME NEW t, IsText(t)
    PROVE  /\ Lined(t, UnitsOf(t), 0, t.length)
           /\ \A k \in DOMAIN UnitsOf(t) : Fit(t, UnitsOf(t)[k])
           /\ \A m \in 1..Len(t.sentences) : Tokens(t, t.sentences[m]) <= MaxTokens =>
                \E k \in DOMAIN UnitsOf(t) : UnitsOf(t)[k] = t.sentences[m]
<1> DEFINE N == Len(t.sentences)
           S == Seq(TextSpans)
           s(i) == t.sentences[i]
           x(i) == Exploded(t, s(i))
           g == [p \in (1..N) \X S |-> p[2] \o x(p[1])]
           rec(f) == f = [n \in 0..N |-> IF n = 0 THEN <<>> ELSE f[n - 1] \o x(n)]
<1>1. N \in Nat /\ t.length \in Nat /\ <<>> \in S
  <2>1. N \in Nat /\ t.length \in Nat BY TextParts
  <2>2. <<>> \in Seq(TextSpans) OBVIOUS
  <2> QED BY <2>1, <2>2
<1>2. UnitsOf(t) = (CHOOSE f : rec(f))[N] BY DEF UnitsOf
<1>3. \A i \in 1..N : /\ Lined(t, x(i), s(i)[1], s(i)[2])
                      /\ \A k \in DOMAIN x(i) : Fit(t, x(i)[k])
                      /\ Tokens(t, s(i)) <= MaxTokens => x(i) = <<s(i)>>
                      /\ x(i) \in S
  <2> SUFFICES ASSUME NEW i \in 1..N
               PROVE  /\ Lined(t, x(i), s(i)[1], s(i)[2])
                      /\ \A k \in DOMAIN x(i) : Fit(t, x(i)[k])
                      /\ Tokens(t, s(i)) <= MaxTokens => x(i) = <<s(i)>>
                      /\ x(i) \in S
    OBVIOUS
  <2>1. /\ Lined(t, x(i), s(i)[1], s(i)[2])
        /\ \A k \in DOMAIN x(i) : Fit(t, x(i)[k])
        /\ Tokens(t, s(i)) <= MaxTokens => x(i) = <<s(i)>>
    BY ExplodedIs
  <2> HIDE DEF x
  <2> QED BY <2>1 DEF Lined
<1>4. /\ \A i \in 1..N : s(i)[1] \in Nat /\ s(i)[2] \in Nat /\ s(i)[1] < s(i)[2]
      /\ \A n \in 0..N : EndOf(t, n) \in Nat /\ EndOf(t, n) <= t.length
      /\ \A n \in 1..N : /\ EndOf(t, n - 1) <= s(n)[1]
                         /\ Inside(<<EndOf(t, n - 1), s(n)[1]>>) \subseteq t.spaces
      /\ Inside(<<EndOf(t, N), t.length>>) \subseteq t.spaces
  BY TextParts, BetweenSentences
<1>5. (\A n \in 1..N : EndOf(t, n) = s(n)[2]) /\ EndOf(t, 0) = 0 BY DEF EndOf
<1> HIDE DEF x, s
<1>6. g \in [(1..N) \X S -> S]
  <2>1. \A p \in (1..N) \X S : p[2] \in Seq(TextSpans) /\ x(p[1]) \in Seq(TextSpans) BY <1>3
  <2>2. \A u \in Seq(TextSpans), w \in Seq(TextSpans) : u \o w \in Seq(TextSpans)
    BY ConcatProperties
  <2>3. \A p \in (1..N) \X S : p[2] \o x(p[1]) \in S BY <2>1, <2>2
  <2> HIDE DEF S, N
  <2> QED BY <2>3
<1>7. PICK h : Iterates(h, N, S, <<>>, g)
  <2> HIDE DEF g, N, S
  <2> QED BY <1>1, <1>6, Iterated
<1>8. h \in [0..N -> S] /\ h[0] = <<>> /\ \A n \in 1..N : h[n] = h[n - 1] \o x(n)
  <2>1. h \in [0..N -> S] /\ h[0] = <<>> /\ \A n \in 1..N : h[n] = g[<<n, h[n - 1]>>]
    BY <1>7 DEF Iterates
  <2>2. \A n \in 1..N : n - 1 \in 0..N BY <1>1
  <2> HIDE DEF S, N
  <2> QED BY <2>1, <2>2
<1>9. rec(h)
  <2>1. \A n \in 0..N : n = 0 \/ n \in 1..N BY <1>1
  <2> HIDE DEF S, N
  <2>2. h = [n \in 0..N |-> h[n]] BY <1>8
  <2> QED BY <1>8, <2>1, <2>2
<1> DEFINE f == CHOOSE f : rec(f)
<1>10. rec(f) BY <1>9
<1> HIDE DEF f
<1>11. f[0] = <<>> /\ \A n \in 1..N : f[n] = f[n - 1] \o x(n)
  <2>1. f = [n \in 0..N |-> IF n = 0 THEN <<>> ELSE f[n - 1] \o x(n)] BY <1>10
  <2> HIDE DEF rec, N
  <2>2. \A n \in 0..N : f[n] = IF n = 0 THEN <<>> ELSE f[n - 1] \o x(n) BY <2>1
  <2>3. 0 \in 0..N /\ \A n \in 1..N : n \in 0..N /\ n # 0 BY <1>1
  <2> QED BY <2>2, <2>3
<1> HIDE DEF rec
<1>12. UnitsOf(t) = f[N] BY <1>2 DEF f
<1> DEFINE Good(n) == /\ Lined(t, f[n], 0, EndOf(t, n))
                      /\ \A k \in DOMAIN f[n] : Fit(t, f[n][k])
                      /\ \A m \in 1..n : Tokens(t, s(m)) <= MaxTokens => \E k \in DOMAIN f[n] : f[n][k] = s(m)
           P == {n \in 0..N : Good(n)}
<1>13. 0 \in P BY <1>1, <1>5, <1>11, NoneInLine DEF Inside
<1>14. ASSUME NEW n \in 1..N, n - 1 \in P PROVE n \in P
  <2> DEFINE u == f[n - 1]
             w == x(n)
             v == f[n]
             e == EndOf(t, n - 1)
             a == s(n)[1]
             b == s(n)[2]
  <2>1. Good(n - 1) BY <1>14
  <2>2. Lined(t, u, 0, e) /\ \A k \in DOMAIN u : Fit(t, u[k]) BY <2>1
  <2>3. Lined(t, w, a, b) /\ \A k \in DOMAIN w : Fit(t, w[k]) BY <1>3
  <2>4. /\ e \in Nat /\ a \in Nat /\ b \in Nat /\ e <= a /\ a <= b
        /\ Inside(<<e, a>>) \subseteq t.spaces /\ EndOf(t, n) = b
    BY <1>1, <1>4, <1>5
  <2>5. v = u \o w BY <1>11
  <2>6. \A m \in 1..n : Tokens(t, s(m)) <= MaxTokens =>
          (\E k \in DOMAIN u : u[k] = s(m)) \/ (\E k \in DOMAIN w : w[k] = s(m))
    <3> SUFFICES ASSUME NEW m \in 1..n, Tokens(t, s(m)) <= MaxTokens
                 PROVE  (\E k \in DOMAIN u : u[k] = s(m)) \/ (\E k \in DOMAIN w : w[k] = s(m))
      OBVIOUS
    <3>1. m = n \/ m \in 1..(n - 1) BY <1>1
    <3>2. CASE m = n BY <1>3, <3>2
    <3>3. CASE m \in 1..(n - 1) BY <2>1, <3>3
    <3> QED BY <3>1, <3>2, <3>3
  <2> HIDE DEF Good, u, w, v, e, a, b
  <2>7. Lined(t, u, 0, a) BY <2>2, <2>4, BlankAfter
  <2>8. Lined(t, v, 0, b) BY <2>3, <2>4, <2>5, <2>7, LinesJoin
  <2>9. /\ \A k \in DOMAIN v : (\E i \in DOMAIN u : v[k] = u[i]) \/ (\E i \in DOMAIN w : v[k] = w[i])
        /\ \A i \in DOMAIN u : \E k \in DOMAIN v : v[k] = u[i]
        /\ \A i \in DOMAIN w : \E k \in DOMAIN v : v[k] = w[i]
    <3>1. u \in Seq(TextSpans) /\ w \in Seq(TextSpans) BY <2>2, <2>3 DEF Lined
    <3>2. HasBoth(u \o w, u, w) BY <3>1, JoinedFacts
    <3> QED BY <2>5, <3>2 DEF HasBoth
  <2>10. \A k \in DOMAIN v : Fit(t, v[k]) BY <2>2, <2>3, <2>9
  <2>11. \A m \in 1..n : Tokens(t, s(m)) <= MaxTokens => \E k \in DOMAIN v : v[k] = s(m)
    <3> SUFFICES ASSUME NEW m \in 1..n, Tokens(t, s(m)) <= MaxTokens PROVE \E k \in DOMAIN v : v[k] = s(m)
      OBVIOUS
    <3>1. (\E k \in DOMAIN u : u[k] = s(m)) \/ (\E k \in DOMAIN w : w[k] = s(m)) BY <2>6
    <3> QED BY <2>9, <3>1
  <2>12. n \in 0..N BY <1>1
  <2>13. Good(n) BY <2>4, <2>8, <2>10, <2>11 DEF Good, v
  <2> QED BY <2>12, <2>13
<1> HIDE DEF P
<1>15. \A n \in 0..N : n \in P
  <2> HIDE DEF N
  <2> QED BY <1>1, <1>13, <1>14, CountsUpTo
<1>16. Good(N) BY <1>1, <1>15 DEF P
<1> DEFINE z == f[N]
<1>17. Lined(t, z, 0, t.length)
  <2>1. Lined(t, z, 0, EndOf(t, N)) BY <1>16
  <2>2. EndOf(t, N) \in Nat /\ EndOf(t, N) <= t.length /\ 0 \in Nat /\ 0 <= EndOf(t, N)
    BY <1>1, <1>4
  <2> HIDE DEF z, N
  <2> QED BY <1>1, <1>4, <2>1, <2>2, BlankAfter
<1> QED BY <1>12, <1>16, <1>17 DEF s

-----------------------------------------------------------------------------
(* The tokens of the first units.                                           *)

\* They are summed up unit by unit.
LEMMA SumsAre ==
    ASSUME NEW t, NEW units \in Seq(TextSpans), NEW sum, sum = TokensUpTo(t, units)
    PROVE  /\ \A n \in 0..Len(units) : sum[n] \in Nat
           /\ sum[0] = 0
           /\ \A n \in 1..Len(units) : sum[n] = sum[n - 1] + Tokens(t, units[n]) /\ Tokens(t, units[n]) \in Nat
<1> DEFINE N == Len(units)
           w(n) == Tokens(t, units[n])
           g == [p \in (1..N) \X Nat |-> p[2] + w(p[1])]
           rec(f) == f = [n \in 0..N |-> IF n = 0 THEN 0 ELSE f[n - 1] + w(n)]
<1>1. N \in Nat BY LenProperties
<1>2. sum = CHOOSE f : rec(f) BY DEF TokensUpTo
<1>3. \A n \in 1..N : w(n) \in Nat
  <2> SUFFICES ASSUME NEW n \in 1..N PROVE w(n) \in Nat OBVIOUS
  <2>1. units[n] \in TextSpans BY ElementOfSeq
  <2>2. units[n] = <<units[n][1], units[n][2]>> /\ units[n][1] \in Int /\ units[n][2] \in Int /\ units[n][1] <= units[n][2]
    BY <2>1, SpanIs
  <2> DEFINE a == units[n][1]
             b == units[n][2]
  <2> HIDE DEF a, b
  <2>3. a \in Int /\ b \in Int /\ a <= b /\ units[n] = <<a, b>> BY <2>2 DEF a, b
  <2>4. Tokens(t, <<a, b>>) \in Nat BY <2>3, TokensAre
  <2> QED BY <2>3, <2>4
<1> HIDE DEF w
<1>4. g \in [(1..N) \X Nat -> Nat]
  <2>1. \A p \in (1..N) \X Nat : p[2] + w(p[1]) \in Nat BY <1>3
  <2> HIDE DEF N
  <2> QED BY <2>1
<1>5. PICK h : Iterates(h, N, Nat, 0, g)
  <2>1. 0 \in Nat OBVIOUS
  <2> HIDE DEF g, N
  <2> QED BY <1>1, <1>4, <2>1, Iterated
<1>6. h \in [0..N -> Nat] /\ h[0] = 0 /\ \A n \in 1..N : h[n] = h[n - 1] + w(n)
  <2>1. h \in [0..N -> Nat] /\ h[0] = 0 /\ \A n \in 1..N : h[n] = g[<<n, h[n - 1]>>]
    BY <1>5 DEF Iterates
  <2>2. \A n \in 1..N : n - 1 \in 0..N BY <1>1
  <2> HIDE DEF N
  <2> QED BY <2>1, <2>2
<1>7. rec(h)
  <2>1. \A n \in 0..N : n = 0 \/ n \in 1..N BY <1>1
  <2> HIDE DEF N
  <2>2. h = [n \in 0..N |-> h[n]] BY <1>6
  <2> QED BY <1>6, <2>1, <2>2
<1>8. rec(sum) BY <1>2, <1>7
<1>9. sum[0] = 0 /\ \A n \in 1..N : sum[n] = sum[n - 1] + w(n)
  <2>1. sum = [n \in 0..N |-> IF n = 0 THEN 0 ELSE sum[n - 1] + w(n)] BY <1>8
  <2> HIDE DEF rec, N
  <2>2. \A n \in 0..N : sum[n] = IF n = 0 THEN 0 ELSE sum[n - 1] + w(n) BY <2>1
  <2>3. 0 \in 0..N /\ \A n \in 1..N : n \in 0..N /\ n # 0 BY <1>1
  <2> QED BY <2>2, <2>3
<1> DEFINE P == {n \in 0..N : sum[n] \in Nat}
<1>10. 0 \in P BY <1>1, <1>9
<1>11. ASSUME NEW n \in 1..N, n - 1 \in P PROVE n \in P BY <1>1, <1>3, <1>9, <1>11
<1> HIDE DEF P
<1>12. \A n \in 0..N : n \in P
  <2> HIDE DEF N
  <2> QED BY <1>1, <1>10, <1>11, CountsUpTo
<1> QED BY <1>3, <1>9, <1>12 DEF P, w

-----------------------------------------------------------------------------
(* Packing the units.                                                       *)

\* Groups of the first n units, in a chain: the first one begins with unit 1 and the last
\* one ends with unit n, each is one unit or within the limit, and each begins after the
\* one before it has, ends later, and shares the overlap with it at most.
Chained(sum, g, n) ==
    /\ g \in Seq((1..n) \X (1..n)) /\ Len(g) > 0
    /\ g[1][1] = 1 /\ g[Len(g)][2] = n
    /\ \A i \in 1..Len(g) : /\ g[i][1] <= g[i][2]
                            /\ g[i][1] = g[i][2] \/ sum[g[i][2]] - sum[g[i][1] - 1] <= MaxTokens
    /\ \A i \in 2..Len(g) : /\ g[i - 1][1] <= g[i][1] /\ g[i][1] <= g[i - 1][2] + 1
                            /\ g[i - 1][2] < g[i][2] /\ g[i - 1][2] - g[i][1] < Overlap

\* One more element of a sequence.
LEMMA OneMore ==
    ASSUME NEW S, NEW s \in Seq(S), NEW e \in S
    PROVE  /\ Append(s, e) \in Seq(S) /\ Len(s) \in Nat /\ Len(Append(s, e)) = Len(s) + 1
           /\ Append(s, e)[Len(s) + 1] = e
           /\ \A i \in 1..Len(s) : Append(s, e)[i] = s[i]
           /\ DOMAIN s = 1..Len(s) /\ DOMAIN Append(s, e) = 1..(Len(s) + 1)
BY AppendProperties, LenProperties

\* The unit that the open group begins with, when the last one was closed.
LEMMA CarriedIs ==
    ASSUME NEW N \in Nat, NEW sum, \A n \in 0..N : sum[n] \in Nat,
           NEW n \in 1..N, NEW first \in 1..n
    PROVE  LET c == CarriedFrom(sum, first, n)
           IN  /\ c \in first..n
               /\ c = n \/ (n - c <= Overlap /\ sum[n] - sum[c - 1] <= MaxTokens)
<1> DEFINE c == CarriedFrom(sum, first, n)
           T == {i \in first..n : i = n \/ (n - i <= Overlap /\ sum[n] - sum[i - 1] <= MaxTokens)}
<1>1. c = IF sum[n] - sum[first - 1] > MaxTokens THEN n ELSE Min(T) BY DEF CarriedFrom
<1>2. T \in SUBSET Nat /\ n \in T OBVIOUS
<1>3. Min(T) \in T
  <2> HIDE DEF T
  <2> QED BY <1>2, EarliestOf
<1> HIDE DEF c
<1>4. c \in T BY <1>1, <1>2, <1>3
<1> QED BY <1>4 DEF c

\* The last group goes on to the next unit.
LEMMA ChainStretches ==
    ASSUME NEW N \in Nat, NEW sum, \A n \in 0..N : sum[n] \in Nat,
           NEW m \in Nat \ {0}, m + 1 <= N,
           NEW groups \in Seq((1..N) \X (1..N)), NEW first \in 1..m,
           Chained(sum, Append(groups, <<first, m>>), m),
           sum[m + 1] - sum[first - 1] <= MaxTokens
    PROVE  Chained(sum, Append(groups, <<first, m + 1>>), m + 1)
<1> DEFINE n == m + 1
           k == Len(groups)
           g == Append(groups, <<first, m>>)
           h == Append(groups, <<first, n>>)
           P == (1..N) \X (1..N)
<1>1. n \in 1..N /\ m \in 1..N /\ first \in 1..N /\ first <= n OBVIOUS
<1>2. /\ k \in Nat /\ g \in Seq(P) /\ Len(g) = k + 1 /\ g[k + 1] = <<first, m>>
      /\ \A i \in 1..k : g[i] = groups[i]
  <2>1. <<first, m>> \in P /\ groups \in Seq(P) BY <1>1
  <2> HIDE DEF P
  <2> QED BY <2>1, OneMore
<1>3. /\ h \in Seq(P) /\ Len(h) = k + 1 /\ h[k + 1] = <<first, n>>
      /\ \A i \in 1..k : h[i] = groups[i]
  <2>1. <<first, n>> \in P /\ groups \in Seq(P) BY <1>1
  <2> HIDE DEF P, n
  <2> QED BY <2>1, OneMore
<1>4. Chained(sum, g, m) OBVIOUS
<1> HIDE DEF g, h, k, P
<1>5. /\ g \in Seq((1..m) \X (1..m)) /\ g[1][1] = 1 /\ g[k + 1][2] = m
      /\ \A i \in 1..(k + 1) :
           /\ g[i][1] <= g[i][2]
           /\ g[i][1] = g[i][2] \/ sum[g[i][2]] - sum[g[i][1] - 1] <= MaxTokens
      /\ \A i \in 2..(k + 1) :
           /\ g[i - 1][1] <= g[i][1] /\ g[i][1] <= g[i - 1][2] + 1
           /\ g[i - 1][2] < g[i][2] /\ g[i - 1][2] - g[i][1] < Overlap
  BY <1>2, <1>4 DEF Chained
<1>6. \A i \in 1..k : h[i] = g[i] BY <1>2, <1>3
<1>7. h[k + 1][1] = first /\ h[k + 1][2] = n /\ g[k + 1][1] = first /\ g[k + 1][2] = m
  BY <1>2, <1>3
<1>8. \A i \in 1..(k + 1) : g[i] \in (1..m) \X (1..m) /\ g[i][1] \in 1..m /\ g[i][2] \in 1..m
  <2>1. \A i \in 1..(k + 1) : g[i] \in (1..m) \X (1..m) BY <1>2, <1>5, ElementOfSeq
  <2> QED BY <2>1
<1>9. \A i \in 1..(k + 1) : i \in 1..k \/ i = k + 1 BY <1>2
<1>10. h \in Seq((1..n) \X (1..n))
  <2>1. \A i \in 1..(k + 1) : h[i] \in (1..n) \X (1..n)
    <3>1. (1..m) \X (1..m) \subseteq (1..n) \X (1..n) OBVIOUS
    <3>2. <<first, n>> \in (1..n) \X (1..n) BY <1>1
    <3> QED BY <1>3, <1>6, <1>8, <1>9, <3>1, <3>2
  <2>2. h = [i \in 1..(k + 1) |-> h[i]]
    <3> HIDE DEF n
    <3> QED BY <1>3
  <2>3. h \in [1..(k + 1) -> (1..n) \X (1..n)]
    <3> HIDE DEF n
    <3> QED BY <2>1, <2>2
  <2>4. k + 1 \in Nat BY <1>2
  <2> HIDE DEF n
  <2> QED BY <2>3, <2>4, LengthOf
<1>11. h[1][1] = 1
  <2>1. 1 \in 1..k \/ (k = 0 /\ 1 = k + 1) BY <1>2
  <2> QED BY <1>5, <1>6, <1>7, <2>1
<1>12. \A i \in 1..(k + 1) :
         /\ h[i][1] <= h[i][2]
         /\ h[i][1] = h[i][2] \/ sum[h[i][2]] - sum[h[i][1] - 1] <= MaxTokens
  BY <1>1, <1>5, <1>6, <1>7, <1>9
<1>13. \A i \in 2..(k + 1) :
         /\ h[i - 1][1] <= h[i][1] /\ h[i][1] <= h[i - 1][2] + 1
         /\ h[i - 1][2] < h[i][2] /\ h[i - 1][2] - h[i][1] < Overlap
  <2> SUFFICES ASSUME NEW i \in 2..(k + 1)
               PROVE  /\ h[i - 1][1] <= h[i][1] /\ h[i][1] <= h[i - 1][2] + 1
                      /\ h[i - 1][2] < h[i][2] /\ h[i - 1][2] - h[i][1] < Overlap
    OBVIOUS
  <2>1. i - 1 \in 1..k /\ h[i - 1] = g[i - 1] BY <1>2, <1>6
  <2>2. h[i][1] = g[i][1] /\ (h[i][2] = g[i][2] \/ h[i][2] = g[i][2] + 1)
    <3>1. i \in 1..k \/ i = k + 1 BY <1>2
    <3> QED BY <1>6, <1>7, <3>1
  <2>3. /\ g[i - 1][1] <= g[i][1] /\ g[i][1] <= g[i - 1][2] + 1
        /\ g[i - 1][2] < g[i][2] /\ g[i - 1][2] - g[i][1] < Overlap
    BY <1>5
  <2>4. g[i][2] \in Int /\ g[i - 1][2] \in Int
    <3>1. i \in 1..(k + 1) /\ i - 1 \in 1..(k + 1) BY <1>2
    <3>2. g[i][2] \in 1..m /\ g[i - 1][2] \in 1..m BY <1>8, <3>1
    <3> HIDE DEF g, h
    <3> QED BY <3>2
  <2> QED BY <2>1, <2>2, <2>3, <2>4
<1>14. Len(h) > 0 /\ h[Len(h)][2] = n BY <1>2, <1>3, <1>7
<1>15. Chained(sum, h, n) BY <1>3, <1>10, <1>11, <1>12, <1>13, <1>14 DEF Chained
<1> QED BY <1>15 DEF h

\* The last group is closed, and one more is open.
LEMMA ChainGrows ==
    ASSUME NEW N \in Nat, NEW sum, \A n \in 0..N : sum[n] \in Nat,
           NEW m \in Nat \ {0}, m + 1 <= N,
           NEW g \in Seq((1..N) \X (1..N)), Chained(sum, g, m),
           NEW c \in g[Len(g)][1]..(m + 1),
           c = m + 1 \/ (m + 1 - c <= Overlap /\ sum[m + 1] - sum[c - 1] <= MaxTokens)
    PROVE  Chained(sum, Append(g, <<c, m + 1>>), m + 1)
<1> DEFINE n == m + 1
           k == Len(g)
           h == Append(g, <<c, n>>)
           P == (1..N) \X (1..N)
<1>1. /\ g \in Seq((1..m) \X (1..m)) /\ k \in Nat /\ k > 0 /\ g[1][1] = 1 /\ g[k][2] = m
      /\ \A i \in 1..k : /\ g[i][1] <= g[i][2]
                         /\ g[i][1] = g[i][2] \/ sum[g[i][2]] - sum[g[i][1] - 1] <= MaxTokens
      /\ \A i \in 2..k : /\ g[i - 1][1] <= g[i][1] /\ g[i][1] <= g[i - 1][2] + 1
                         /\ g[i - 1][2] < g[i][2] /\ g[i - 1][2] - g[i][1] < Overlap
  BY LenProperties DEF Chained
<1>2. \A i \in 1..k : g[i] \in (1..m) \X (1..m) /\ g[i][1] \in 1..m /\ g[i][2] \in 1..m
  BY <1>1, ElementOfSeq
<1>3. n \in 1..N /\ c \in 1..n /\ g[k][1] <= c /\ c <= n BY <1>1, <1>2
<1>4. /\ h \in Seq(P) /\ Len(h) = k + 1 /\ h[k + 1] = <<c, n>> /\ \A i \in 1..k : h[i] = g[i]
  <2>1. <<c, n>> \in P /\ g \in Seq(P) BY <1>3
  <2> HIDE DEF P, n
  <2> QED BY <2>1, OneMore
<1> HIDE DEF h, k, P
<1>5. h[k + 1][1] = c /\ h[k + 1][2] = n BY <1>4
<1>6. \A i \in 1..(k + 1) : i \in 1..k \/ i = k + 1 BY <1>1
<1>7. h \in Seq((1..n) \X (1..n))
  <2>1. \A i \in 1..(k + 1) : h[i] \in (1..n) \X (1..n)
    <3>1. (1..m) \X (1..m) \subseteq (1..n) \X (1..n) OBVIOUS
    <3>2. <<c, n>> \in (1..n) \X (1..n) BY <1>3
    <3> QED BY <1>2, <1>4, <1>6, <3>1, <3>2
  <2>2. h = [i \in 1..(k + 1) |-> h[i]]
    <3> HIDE DEF n
    <3> QED BY <1>4
  <2>3. h \in [1..(k + 1) -> (1..n) \X (1..n)]
    <3> HIDE DEF n
    <3> QED BY <2>1, <2>2
  <2>4. k + 1 \in Nat BY <1>1
  <2> HIDE DEF n
  <2> QED BY <2>3, <2>4, LengthOf
<1>8. h[1][1] = 1 BY <1>1, <1>4
<1>9. \A i \in 1..(k + 1) :
         /\ h[i][1] <= h[i][2]
         /\ h[i][1] = h[i][2] \/ sum[h[i][2]] - sum[h[i][1] - 1] <= MaxTokens
  BY <1>1, <1>3, <1>4, <1>5, <1>6
<1>10. \A i \in 2..(k + 1) :
         /\ h[i - 1][1] <= h[i][1] /\ h[i][1] <= h[i - 1][2] + 1
         /\ h[i - 1][2] < h[i][2] /\ h[i - 1][2] - h[i][1] < Overlap
  <2> SUFFICES ASSUME NEW i \in 2..(k + 1)
               PROVE  /\ h[i - 1][1] <= h[i][1] /\ h[i][1] <= h[i - 1][2] + 1
                      /\ h[i - 1][2] < h[i][2] /\ h[i - 1][2] - h[i][1] < Overlap
    OBVIOUS
  <2>1. i - 1 \in 1..k /\ h[i - 1] = g[i - 1] BY <1>1, <1>4
  <2>2. CASE i = k + 1
    <3>1. i - 1 = k BY <1>1, <2>2
    <3>2. h[i - 1][1] = g[k][1] /\ h[i - 1][2] = m /\ h[i][1] = c /\ h[i][2] = n
      BY <1>1, <1>5, <2>1, <2>2, <3>1
    <3>3. m - c < Overlap BY <1>3, ChunkingAssumption
    <3> QED BY <1>3, <3>2, <3>3
  <2>3. CASE i \in 2..k
    <3>1. h[i] = g[i] BY <1>4, <2>3
    <3> QED BY <1>1, <2>1, <2>3, <3>1
  <2>4. i = k + 1 \/ i \in 2..k BY <1>1
  <2> QED BY <2>2, <2>3, <2>4
<1>11. Len(h) > 0 /\ h[Len(h)][2] = n BY <1>1, <1>4, <1>5
<1>12. Chained(sum, h, n) BY <1>4, <1>7, <1>8, <1>9, <1>10, <1>11 DEF Chained
<1> QED BY <1>12 DEF h

\* The groups of units are a chain.
LEMMA GroupsAre ==
    ASSUME NEW N \in Nat \ {0}, NEW sum, \A n \in 0..N : sum[n] \in Nat
    PROVE  Chained(sum, GroupsOf(sum, N), N)
<1> DEFINE base == [groups |-> <<>>, first |-> 1]
           P == (1..N) \X (1..N)
           S == [groups : Seq(P), first : 1..N]
           \* Where unit n is in the open group.
           opened(u, n) == u.first \in 1..n /\ Chained(sum, Append(u.groups, <<u.first, n>>), n)
           rec(f) == f = [n \in 0..N |-> IF n = 0 THEN base ELSE Pack(sum, f[n - 1], n)]
           step(u, n) == IF u.first <= n THEN Pack(sum, u, n) ELSE base
           g == [p \in (1..N) \X S |-> step(p[2], p[1])]
<1> DEFINE last == CHOOSE f : rec(f)
<1>1. GroupsOf(sum, N) = Append(last[N].groups, <<last[N].first, N>>) BY DEF GroupsOf
<1>2. base \in S /\ base.first = 1 /\ base.groups = <<>>
  <2>1. <<>> \in Seq(P) /\ 1 \in 1..N OBVIOUS
  <2> HIDE DEF P
  <2> QED BY <2>1
<1>3. ASSUME NEW u \in S, NEW n \in 1..N, u.first <= n PROVE Pack(sum, u, n) \in S
  <2>1. /\ u.first \in 1..n /\ u.groups \in Seq(P)
        /\ Pack(sum, u, n) = IF u.first = n \/ sum[n] - sum[u.first - 1] <= TargetTokens THEN u
                             ELSE [groups |-> Append(u.groups, <<u.first, n - 1>>),
                                   first |-> CarriedFrom(sum, u.first, n)]
    BY <1>3 DEF Pack
  <2>2. CASE u.first = n \/ sum[n] - sum[u.first - 1] <= TargetTokens BY <2>1, <2>2
  <2>3. CASE ~(u.first = n \/ sum[n] - sum[u.first - 1] <= TargetTokens)
    <3> DEFINE c == CarriedFrom(sum, u.first, n)
               e == <<u.first, n - 1>>
    <3>1. c \in u.first..n
      <4> DEFINE first == u.first
      <4> HIDE DEF first
      <4>1. first \in 1..n BY <2>1 DEF first
      <4>2. CarriedFrom(sum, first, n) \in first..n BY <4>1, CarriedIs
      <4> QED BY <4>2 DEF first
    <3>2. c \in 1..N /\ e \in P
      <4> DEFINE first == u.first
      <4>1. first \in 1..n /\ first # n /\ c \in first..n BY <2>1, <2>3, <3>1
      <4> HIDE DEF first, c
      <4>2. first \in 1..N /\ n - 1 \in 1..N /\ c \in 1..N BY <4>1
      <4>3. <<first, n - 1>> \in (1..N) \X (1..N) BY <4>2
      <4> QED BY <4>2, <4>3 DEF first
    <3> HIDE DEF c, P, e
    <3>3. Append(u.groups, e) \in Seq(P) BY <2>1, <3>2, OneMore
    <3> QED BY <2>1, <2>3, <3>2, <3>3 DEF c, e
  <2> QED BY <2>2, <2>3
<1>4. g \in [(1..N) \X S -> S]
  <2>1. ASSUME NEW p \in (1..N) \X S PROVE step(p[2], p[1]) \in S
    <3>1. p[1] \in 1..N /\ p[2] \in S OBVIOUS
    <3> HIDE DEF S, base
    <3>2. CASE p[2].first <= p[1] BY <1>3, <3>1, <3>2
    <3>3. CASE ~(p[2].first <= p[1]) BY <1>2, <3>3
    <3> QED BY <3>2, <3>3
  <2> HIDE DEF S, step
  <2> QED BY <2>1
<1> HIDE DEF base
<1>5. PICK h : Iterates(h, N, S, base, g)
  <2> HIDE DEF g, S
  <2> QED BY <1>2, <1>4, Iterated
<1>6. h \in [0..N -> S] /\ h[0] = base /\ \A n \in 1..N : h[n] = step(h[n - 1], n)
  <2>1. h \in [0..N -> S] /\ h[0] = base /\ \A n \in 1..N : h[n] = g[<<n, h[n - 1]>>]
    BY <1>5 DEF Iterates
  <2>2. \A n \in 1..N : n - 1 \in 0..N OBVIOUS
  <2>3. \A n \in 1..N : h[n - 1] \in S
    <3> HIDE DEF S
    <3> QED BY <2>1, <2>2
  <2> HIDE DEF S, step
  <2> QED BY <2>1, <2>3
\* It never begins past the unit at hand, so the loop is the code's.
<1>7. \A n \in 1..N : h[n - 1] \in S /\ h[n - 1].first <= n
  <2> DEFINE Q == {n \in 0..N : h[n] \in S /\ h[n].first <= (IF n = 0 THEN 1 ELSE n)}
  <2>1. 0 \in Q
    <3> HIDE DEF S
    <3> QED BY <1>2, <1>6
  <2>2. ASSUME NEW n \in 1..N, n - 1 \in Q PROVE n \in Q
    <3> DEFINE u == h[n - 1]
    <3>1. u \in S /\ u.first <= n BY <2>2
    <3>2. h[n] = Pack(sum, u, n)
      <4> HIDE DEF S, u
      <4>1. step(u, n) = Pack(sum, u, n) BY <3>1
      <4> QED BY <1>6, <4>1 DEF u
    <3>3. h[n] \in S /\ n \in 0..N
      <4> HIDE DEF S
      <4> QED BY <1>6
    <3> DEFINE first == u.first
    <3>4. Pack(sum, u, n).first <= n
      <4>1. first \in 1..n BY <3>1
      <4>2. Pack(sum, u, n).first = first \/ Pack(sum, u, n).first = CarriedFrom(sum, first, n)
        BY DEF Pack
      <4> HIDE DEF first
      <4>3. CarriedFrom(sum, first, n) \in first..n BY <4>1, CarriedIs
      <4> QED BY <4>1, <4>2, <4>3
    <3> HIDE DEF S, u
    <3> QED BY <3>2, <3>3, <3>4
  <2> HIDE DEF Q
  <2>3. \A n \in 0..N : n \in Q BY <2>1, <2>2, CountsUpTo
  <2>4. \A n \in 1..N : n - 1 \in Q /\ (IF n - 1 = 0 THEN 1 ELSE n - 1) <= n BY <2>3
  <2>5. \A n \in 1..N : h[n - 1] \in S /\ h[n - 1].first <= (IF n - 1 = 0 THEN 1 ELSE n - 1)
    <3> HIDE DEF S
    <3> QED BY <2>4 DEF Q
  <2> QED BY <2>4, <2>5
<1>8. \A n \in 1..N : h[n] = Pack(sum, h[n - 1], n)
  <2> HIDE DEF S
  <2> QED BY <1>6, <1>7
<1>9. rec(h)
  <2>1. \A n \in 0..N : n = 0 \/ n \in 1..N OBVIOUS
  <2> HIDE DEF S, g
  <2>2. h = [n \in 0..N |-> h[n]] BY <1>6
  <2> QED BY <1>6, <1>8, <2>1, <2>2
<1>10. rec(last) BY <1>9
<1> HIDE DEF last
<1>11. last[0] = base /\ \A n \in 1..N : last[n] = Pack(sum, last[n - 1], n)
  <2>1. last = [n \in 0..N |-> IF n = 0 THEN base ELSE Pack(sum, last[n - 1], n)] BY <1>10
  <2> HIDE DEF rec, S, g
  <2>2. \A n \in 0..N : last[n] = IF n = 0 THEN base ELSE Pack(sum, last[n - 1], n) BY <2>1
  <2>3. 0 \in 0..N /\ \A n \in 1..N : n \in 0..N /\ n # 0 OBVIOUS
  <2> QED BY <2>2, <2>3
<1> HIDE DEF rec, g
<1> DEFINE Q == {n \in 0..N : last[n] \in S /\ (n = 0 => last[n] = base) /\ (n > 0 => opened(last[n], n))}
<1>12. 0 \in Q
  <2> HIDE DEF S, opened
  <2> QED BY <1>2, <1>11
<1>13. ASSUME NEW n \in 1..N, n - 1 \in Q PROVE n \in Q
  <2> DEFINE u == last[n - 1]
             v == last[n]
             first == u.first
             groups == u.groups
  <2>1. v = Pack(sum, u, n) /\ u \in S /\ (n = 1 => u = base) /\ (n > 1 => opened(u, n - 1)) /\ n \in 0..N
    <3>1. n - 1 = 0 <=> n = 1 OBVIOUS
    <3>2. n - 1 > 0 <=> n > 1 OBVIOUS
    <3> HIDE DEF S, opened
    <3> QED BY <1>11, <1>13, <3>1, <3>2
  <2>2. CASE n = 1
    <3>1. v = base BY <1>2, <2>1, <2>2 DEF Pack
    <3>2. opened(base, 1)
      <4>1. base.first = 1 /\ Append(base.groups, <<base.first, 1>>) = <<<<1, 1>>>> BY <1>2
      <4> DEFINE one == <<<<1, 1>>>>
      <4>2. one \in Seq((1..1) \X (1..1)) /\ Len(one) = 1 /\ one[1] = <<1, 1>> OBVIOUS
      <4> HIDE DEF one
      <4>3. /\ Len(one) > 0 /\ one[1][1] = 1 /\ one[Len(one)][2] = 1
            /\ \A i \in 1..Len(one) : i = 1 /\ one[i][1] = one[i][2] /\ one[i][1] <= one[i][2]
            /\ \A i \in 2..Len(one) : FALSE
        BY <4>2
      <4>4. Chained(sum, one, 1) BY <4>2, <4>3 DEF Chained
      <4>5. Append(base.groups, <<base.first, 1>>) = one /\ base.first \in 1..1 BY <4>1 DEF one
      <4>6. Chained(sum, Append(base.groups, <<base.first, 1>>), 1) BY <4>4, <4>5
      <4> QED BY <4>5, <4>6
    <3> HIDE DEF opened, S
    <3> QED BY <1>2, <2>1, <2>2, <3>1, <3>2
  <2>3. CASE n > 1
    <3> DEFINE m == n - 1
    <3>1. m \in Nat \ {0} /\ m + 1 <= N /\ m + 1 = n /\ m \in 1..N BY <2>3
    <3>2. first \in 1..m /\ Chained(sum, Append(groups, <<first, m>>), m) /\ groups \in Seq(P)
      BY <2>1, <2>3
    <3>3. first # n BY <3>2
    <3>4. v = IF sum[n] - sum[first - 1] <= TargetTokens THEN u
              ELSE [groups |-> Append(groups, <<first, m>>), first |-> CarriedFrom(sum, first, n)]
      BY <2>1, <3>3 DEF Pack
    <3>5. v \in S
      <4>1. u.first <= n
        <5>1. first <= n
          <6> HIDE DEF m, first
          <6> QED BY <3>1, <3>2
        <5> QED BY <5>1
      <4> HIDE DEF S, u, v
      <4> QED BY <1>3, <2>1, <4>1
    <3>6. CASE sum[n] - sum[first - 1] <= TargetTokens
      <4>1. v = u BY <3>4, <3>6
      <4>2. sum[m + 1] - sum[first - 1] <= MaxTokens
        <5>1. sum[n] \in Nat /\ sum[first - 1] \in Nat BY <3>1, <3>2
        <5> HIDE DEF m, first
        <5> QED BY <3>1, <3>6, <5>1, ChunkingAssumption
      <4>3. Chained(sum, Append(groups, <<first, m + 1>>), m + 1)
        <5> HIDE DEF m, first, groups
        <5> QED BY <3>1, <3>2, <4>2, ChainStretches
      <4>4. first \in 1..n BY <3>1, <3>2
      <4>5. opened(v, n) BY <3>1, <4>1, <4>3, <4>4
      <4> HIDE DEF opened, S
      <4> QED BY <2>1, <2>3, <3>5, <4>5
    <3>7. CASE ~(sum[n] - sum[first - 1] <= TargetTokens)
      <4> DEFINE c == CarriedFrom(sum, first, n)
                 s == Append(groups, <<first, m>>)
      <4>1. v.groups = s /\ v.first = c BY <3>4, <3>7
      <4>2. c \in first..n /\ (c = n \/ (n - c <= Overlap /\ sum[n] - sum[c - 1] <= MaxTokens))
        <5>1. first \in 1..n BY <3>1, <3>2
        <5> HIDE DEF first
        <5> QED BY <5>1, CarriedIs
      <4>3. s \in Seq(P) /\ s[Len(s)] = <<first, m>>
        <5>1. <<first, m>> \in P
          <6> HIDE DEF m, first, groups
          <6>1. first \in 1..N /\ m \in 1..N BY <3>1, <3>2
          <6> QED BY <6>1
        <5> HIDE DEF P, m, first, groups
        <5> QED BY <3>2, <5>1, OneMore
      <4>4. s[Len(s)][1] = first /\ Chained(sum, s, m) BY <3>2, <4>3
      <4>5. Chained(sum, Append(s, <<c, m + 1>>), m + 1)
        <5> HIDE DEF m, first, groups, s, c
        <5>1. c \in s[Len(s)][1]..(m + 1) BY <3>1, <4>2, <4>4
        <5>2. c = m + 1 \/ (m + 1 - c <= Overlap /\ sum[m + 1] - sum[c - 1] <= MaxTokens)
          BY <3>1, <4>2
        <5> QED BY <3>1, <4>3, <4>4, <5>1, <5>2, ChainGrows
      <4>6. c \in 1..n
        <5> HIDE DEF c
        <5> QED BY <3>1, <3>2, <4>2
      <4>7. opened(v, n)
        <5> HIDE DEF c, s
        <5> QED BY <3>1, <4>1, <4>5, <4>6
      <4> HIDE DEF opened, S
      <4> QED BY <2>1, <2>3, <3>5, <4>7
    <3> QED BY <3>6, <3>7
  <2> QED BY <2>2, <2>3
<1> HIDE DEF Q
<1>14. \A n \in 0..N : n \in Q BY <1>12, <1>13, CountsUpTo
<1>15. opened(last[N], N)
  <2>1. N \in Q BY <1>14
  <2> HIDE DEF opened
  <2> QED BY <2>1 DEF Q
<1> QED BY <1>1, <1>15

\* Every unit is in a group.
LEMMA EveryUnitIsIn ==
    ASSUME NEW sum, NEW g, NEW n \in Nat \ {0}, Chained(sum, g, n), NEW k \in 1..n
    PROVE  \E i \in 1..Len(g) : g[i][1] <= k /\ k <= g[i][2]
<1> DEFINE T == {i \in 1..Len(g) : k <= g[i][2]}
<1>1. /\ g \in Seq((1..n) \X (1..n)) /\ Len(g) \in Nat /\ Len(g) > 0 /\ g[1][1] = 1 /\ g[Len(g)][2] = n
      /\ \A i \in 2..Len(g) : g[i][1] <= g[i - 1][2] + 1
  BY LenProperties DEF Chained
<1>2. \A i \in 1..Len(g) : g[i][1] \in Nat /\ g[i][2] \in Nat BY <1>1, ElementOfSeq
<1>3. Len(g) \in T /\ T \in SUBSET Nat BY <1>1
<1>4. Min(T) \in T /\ \A i \in T : Min(T) <= i
  <2> HIDE DEF T
  <2> QED BY <1>3, EarliestOf
<1> DEFINE i == Min(T)
<1>5. i \in 1..Len(g) /\ k <= g[i][2] BY <1>4
<1>6. g[i][1] <= k
  <2>1. CASE i = 1 BY <1>1, <2>1
  <2>2. CASE i # 1
    <3>1. i \in 2..Len(g) /\ i - 1 \in 1..Len(g)
      <4> HIDE DEF i
      <4> QED BY <1>1, <1>5, <2>2
    <3>2. i - 1 \notin T
      <4> HIDE DEF T
      <4> QED BY <1>4, <1>5
    <3>3. ~(k <= g[i - 1][2]) BY <3>1, <3>2
    <3>4. g[i][1] <= g[i - 1][2] + 1 /\ g[i - 1][2] \in Nat /\ g[i][1] \in Nat
      <4> HIDE DEF i, T
      <4>1. g[i][1] <= g[i - 1][2] + 1 BY <1>1, <3>1
      <4> QED BY <1>2, <3>1, <4>1
    <3> HIDE DEF i
    <3> QED BY <3>3, <3>4
  <2> QED BY <2>1, <2>2
<1> HIDE DEF i
<1> QED BY <1>5, <1>6

-----------------------------------------------------------------------------
(* The chunks.                                                              *)

\* A span between two offsets without the white space at its ends, where it has a
\* character that is not white space.
LEMMA TrimmedIs ==
    ASSUME NEW t, NEW a \in Nat, NEW b \in Nat, NEW x \in Inside(<<a, b>>), x \notin t.spaces
    PROVE  LET s == Trimmed(t, <<a, b>>)
           IN  /\ s = <<s[1], s[2]>> /\ s[1] \in Nat /\ s[2] \in Nat
               /\ a <= s[1] /\ s[1] < s[2] /\ s[2] <= b
               /\ s[1] \notin t.spaces /\ s[2] - 1 \notin t.spaces
               /\ \A p \in Inside(<<a, b>>) : p \notin t.spaces => s[1] <= p /\ p <= s[2] - 1
<1> DEFINE ink == Inside(<<a, b>>) \ t.spaces
           s == Trimmed(t, <<a, b>>)
<1>1. \A i : i \in ink <=> i \in Int /\ a <= i /\ i < b /\ i \notin t.spaces BY DEF Inside
<1>2. ink \in SUBSET Nat /\ ink # {} /\ ink \subseteq Int /\ \A i \in ink : i <= b BY <1>1
<1>3. s = <<Min(ink), Max(ink) + 1>> BY DEF Trimmed
<1> HIDE DEF s, ink
<1>4. Min(ink) \in ink /\ \A i \in ink : Min(ink) <= i BY <1>2, EarliestOf
<1>5. Max(ink) \in ink /\ \A i \in ink : i <= Max(ink)
  <2>1. b \in Int OBVIOUS
  <2> QED BY <1>2, <2>1, LatestOf
<1>6. s[1] = Min(ink) /\ s[2] = Max(ink) + 1 /\ s = <<s[1], s[2]>> BY <1>3
<1>7. s[1] \in ink /\ s[2] - 1 \in ink /\ s[1] \in Nat /\ s[2] \in Nat /\ s[1] < s[2]
  <2> DEFINE lo == Min(ink)
             hi == Max(ink)
  <2>1. lo \in Nat /\ hi \in Nat /\ lo <= hi BY <1>2, <1>4, <1>5
  <2> HIDE DEF lo, hi
  <2>2. (hi + 1) - 1 = hi /\ hi + 1 \in Nat /\ lo < hi + 1 BY <2>1
  <2> QED BY <1>4, <1>5, <1>6, <2>1, <2>2 DEF lo, hi
<1>8. \A p \in ink : s[1] <= p /\ p <= s[2] - 1
  <2>1. Max(ink) \in Int BY <1>2, <1>5
  <2> HIDE DEF s
  <2> QED BY <1>4, <1>5, <1>6, <2>1
<1>9. \A p \in Inside(<<a, b>>) : p \notin t.spaces => p \in ink BY DEF ink
<1>10. a <= s[1] /\ s[2] <= b /\ s[1] \notin t.spaces /\ s[2] - 1 \notin t.spaces BY <1>1, <1>7
<1> QED BY <1>6, <1>7, <1>8, <1>9, <1>10 DEF s

\* Where the units of a line are.
LEMMA UnitsLie ==
    ASSUME NEW t, NEW units, NEW L \in Nat, Lined(t, units, 0, L)
    PROVE  /\ Len(units) \in Nat /\ DOMAIN units = 1..Len(units)
           /\ \A k \in 1..Len(units) :
                /\ units[k] = <<units[k][1], units[k][2]>> /\ units[k][1] \in Nat /\ units[k][2] \in Nat
                /\ units[k][1] < units[k][2] /\ units[k][2] <= L
                /\ \E x \in Inside(units[k]) : x \notin t.spaces
                /\ \A x : x \in Inside(units[k]) <=> x \in Int /\ units[k][1] <= x /\ x < units[k][2]
           /\ \A j, k \in 1..Len(units) :
                /\ j < k => units[j][2] <= units[k][1]
                /\ j <= k => units[j][1] <= units[k][1] /\ units[j][2] <= units[k][2]
<1>1. units \in Seq(TextSpans) /\ Len(units) \in Nat /\ DOMAIN units = 1..Len(units)
  BY LenProperties DEF Lined
<1>2. \A k \in 1..Len(units) :
        /\ units[k] = <<units[k][1], units[k][2]>> /\ units[k][1] \in Nat /\ units[k][2] \in Nat
        /\ units[k][1] < units[k][2]
  BY <1>1, ElementOfSeq, SpanIs
<1>3. \A k \in 1..Len(units) : units[k][2] <= L /\ \E x \in Inside(units[k]) : x \notin t.spaces
  BY <1>1 DEF Lined
<1>4. \A k \in 1..Len(units) : \A x : x \in Inside(units[k]) <=> x \in Int /\ units[k][1] <= x /\ x < units[k][2]
  <2> SUFFICES ASSUME NEW k \in 1..Len(units)
               PROVE  \A x : x \in Inside(units[k]) <=> x \in Int /\ units[k][1] <= x /\ x < units[k][2]
    OBVIOUS
  <2> DEFINE a == units[k][1]
             b == units[k][2]
  <2>1. units[k] = <<a, b>> /\ a \in Int /\ b \in Int /\ a <= b BY <1>2
  <2> HIDE DEF a, b
  <2>2. \A x : x \in Inside(<<a, b>>) <=> x \in Int /\ a <= x /\ x < b BY <2>1, InsideIs
  <2> QED BY <2>1, <2>2 DEF a, b
<1>5. \A j, k \in 1..Len(units) : j < k => units[j][2] <= units[k][1] BY <1>1 DEF Lined
<1>6. ASSUME NEW j \in 1..Len(units), NEW k \in 1..Len(units), j <= k
      PROVE  units[j][1] <= units[k][1] /\ units[j][2] <= units[k][2]
  <2>1. j = k \/ j < k BY <1>6
  <2>2. CASE j = k BY <1>2, <2>2
  <2>3. CASE j < k BY <1>2, <1>5, <2>3
  <2> QED BY <2>1, <2>2, <2>3
<1> QED BY <1>1, <1>2, <1>3, <1>4, <1>5, <1>6

\* The chunk of some units begins in the first one and ends in the last one, and has
\* every character of theirs that is not white space.
LEMMA ChunkIs ==
    ASSUME NEW t, NEW units, NEW L \in Nat, Lined(t, units, 0, L),
           NEW f \in 1..Len(units), NEW l \in 1..Len(units), f <= l
    PROVE  LET c == ChunkOf(t, units, <<f, l>>)
               s == c.span
           IN  /\ s = <<s[1], s[2]>> /\ s[1] \in Nat /\ s[2] \in Nat /\ s[1] < s[2]
               /\ s[1] \in Inside(units[f]) /\ s[2] - 1 \in Inside(units[l])
               /\ s[1] \notin t.spaces /\ s[2] - 1 \notin t.spaces
               /\ s[1] \in Inside(<<0, L>>) /\ s[2] - 1 \in Inside(<<0, L>>)
               /\ \A k \in f..l : \A p \in Inside(units[k]) : p \notin t.spaces => s[1] <= p /\ p < s[2]
               /\ c.units = <<f, l>> /\ c.tokens = Tokens(t, s)
<1> DEFINE a == units[f][1]
           b == units[l][2]
           s == Trimmed(t, <<a, b>>)
           c == ChunkOf(t, units, <<f, l>>)
<1>1. c.span = s /\ c.units = <<f, l>> /\ c.tokens = Tokens(t, s) BY DEF ChunkOf
<1>2. /\ a \in Nat /\ b \in Nat /\ b <= L
      /\ units[f][2] \in Nat /\ units[l][1] \in Nat
      /\ units[f][2] <= b /\ a <= units[l][1] /\ a < units[f][2] /\ units[l][1] < b
  BY UnitsLie
<1>3. \A k \in f..l : \A p \in Inside(units[k]) : p \in Inside(<<a, b>>)
  <2> SUFFICES ASSUME NEW k \in f..l, NEW p \in Inside(units[k]) PROVE p \in Inside(<<a, b>>)
    OBVIOUS
  <2>1. k \in 1..Len(units) /\ f <= k /\ k <= l BY UnitsLie
  <2>2. /\ a <= units[k][1] /\ units[k][2] <= b /\ p \in Int /\ units[k][1] <= p /\ p < units[k][2]
        /\ units[k][1] \in Nat /\ units[k][2] \in Nat
    BY <2>1, UnitsLie
  <2> HIDE DEF a, b
  <2> QED BY <1>2, <2>2 DEF Inside
<1>4. PICK x \in Inside(units[f]) : x \notin t.spaces BY UnitsLie
<1>5. PICK y \in Inside(units[l]) : y \notin t.spaces BY UnitsLie
<1>6. f \in f..l /\ l \in f..l OBVIOUS
<1>7. x \in Inside(<<a, b>>) /\ y \in Inside(<<a, b>>) BY <1>3, <1>4, <1>5, <1>6
<1> HIDE DEF a, b
<1>8. /\ s = <<s[1], s[2]>> /\ s[1] \in Nat /\ s[2] \in Nat
      /\ a <= s[1] /\ s[1] < s[2] /\ s[2] <= b
      /\ s[1] \notin t.spaces /\ s[2] - 1 \notin t.spaces
      /\ \A p \in Inside(<<a, b>>) : p \notin t.spaces => s[1] <= p /\ p <= s[2] - 1
  BY <1>2, <1>4, <1>7, TrimmedIs
<1> HIDE DEF s, c
<1>9. s[1] \in Inside(units[f])
  <2>1. s[1] <= x BY <1>4, <1>7, <1>8
  <2>2. x \in Int /\ x < units[f][2] BY <1>4, UnitsLie
  <2>3. s[1] \in Int /\ units[f][1] <= s[1] /\ s[1] < units[f][2]
    BY <1>2, <1>8, <2>1, <2>2 DEF a
  <2> QED BY <2>3, UnitsLie
<1>10. s[2] - 1 \in Inside(units[l])
  <2>1. y <= s[2] - 1 BY <1>5, <1>7, <1>8
  <2>2. y \in Int /\ units[l][1] <= y BY <1>5, UnitsLie
  <2>3. s[2] - 1 \in Int /\ units[l][1] <= s[2] - 1 /\ s[2] - 1 < units[l][2]
    BY <1>2, <1>8, <2>1, <2>2 DEF b
  <2> QED BY <2>3, UnitsLie
<1>11. s[1] \in Inside(<<0, L>>) /\ s[2] - 1 \in Inside(<<0, L>>)
  <2>1. 0 <= s[1] /\ s[1] <= L - 1 /\ 0 <= s[2] - 1 /\ s[2] - 1 <= L - 1 BY <1>2, <1>8
  <2> QED BY <1>8, <2>1 DEF Inside
<1>12. \A k \in f..l : \A p \in Inside(units[k]) : p \notin t.spaces => s[1] <= p /\ p < s[2]
  <2> SUFFICES ASSUME NEW k \in f..l, NEW p \in Inside(units[k]), p \notin t.spaces
               PROVE  s[1] <= p /\ p < s[2]
    OBVIOUS
  <2>1. s[1] <= p /\ p <= s[2] - 1 BY <1>3, <1>8
  <2>2. p \in Int BY <1>3, <1>2 DEF Inside
  <2> QED BY <1>8, <2>1, <2>2
<1> QED BY <1>1, <1>8, <1>9, <1>10, <1>11, <1>12 DEF s, c

\* What the chunks of a text are.
LEMMA ChunksAre ==
    ASSUME NEW t, IsText(t)
    PROVE  LET units == UnitsOf(t)
               N == Len(units)
               sum == TokensUpTo(t, units)
               g == GroupsOf(sum, N)
               out == ChunkSpans(t)
           IN  /\ N \in Nat /\ Lined(t, units, 0, t.length) /\ t.length \in Nat
               /\ DOMAIN out = DOMAIN g
               /\ \A i \in DOMAIN g : out[i] = ChunkOf(t, units, g[i])
               /\ N = 0 => DOMAIN g = {}
               /\ N > 0 => /\ Chained(sum, g, N) /\ DOMAIN g = 1..Len(g)
                           /\ \A i \in 1..Len(g) :
                                /\ g[i] = <<g[i][1], g[i][2]>>
                                /\ g[i][1] \in 1..N /\ g[i][2] \in 1..N /\ g[i][1] <= g[i][2]
<1> DEFINE units == UnitsOf(t)
           N == Len(units)
           sum == TokensUpTo(t, units)
           g == GroupsOf(sum, N)
           out == ChunkSpans(t)
<1>1. Lined(t, units, 0, t.length) /\ t.length \in Nat BY UnitsAre, TextParts
<1>2. out = [i \in DOMAIN g |-> ChunkOf(t, units, g[i])] BY DEF ChunkSpans
<1> HIDE DEF units
<1>3. units \in Seq(TextSpans) /\ N \in Nat BY <1>1, LenProperties DEF Lined
<1>4. N = 0 => g = <<>> BY DEF GroupsOf
<1>5. \A n \in 0..N : sum[n] \in Nat
  <2> DEFINE z == sum
  <2>1. z = TokensUpTo(t, units) OBVIOUS
  <2> HIDE DEF z
  <2>2. \A n \in 0..Len(units) : z[n] \in Nat BY <1>3, <2>1, SumsAre
  <2> QED BY <2>2 DEF z
<1>6. N > 0 => Chained(sum, g, N)
  <2> DEFINE n == N
             z == sum
  <2> SUFFICES ASSUME n > 0 PROVE Chained(z, GroupsOf(z, n), n) OBVIOUS
  <2>1. n \in Nat \ {0} /\ \A i \in 0..n : z[i] \in Nat BY <1>3, <1>5
  <2> HIDE DEF n, z
  <2> QED BY <2>1, GroupsAre
<1> HIDE DEF g, N, sum, out
<1>7. ASSUME N > 0
      PROVE  /\ DOMAIN g = 1..Len(g)
             /\ \A i \in 1..Len(g) :
                  /\ g[i] = <<g[i][1], g[i][2]>>
                  /\ g[i][1] \in 1..N /\ g[i][2] \in 1..N /\ g[i][1] <= g[i][2]
  <2>1. g \in Seq((1..N) \X (1..N)) /\ \A i \in 1..Len(g) : g[i][1] <= g[i][2]
    BY <1>6, <1>7 DEF Chained
  <2>2. DOMAIN g = 1..Len(g) /\ \A i \in 1..Len(g) : g[i] \in (1..N) \X (1..N)
    BY <2>1, LenProperties, ElementOfSeq
  <2> QED BY <2>1, <2>2
<1>8. DOMAIN out = DOMAIN g /\ \A i \in DOMAIN g : out[i] = ChunkOf(t, units, g[i]) BY <1>2
<1>9. N = 0 => DOMAIN g = {} BY <1>4
<1> QED BY <1>1, <1>3, <1>6, <1>7, <1>8, <1>9 DEF g, N, sum, out, units

\* The chunks cover the text, and come in order.
LEMMA ChunksCover ==
    ASSUME IsText(text), chunks = ChunkSpans(text)
    PROVE  CoversTheText
<1> DEFINE t == text
           L == t.length
           units == UnitsOf(t)
           N == Len(units)
           sum == TokensUpTo(t, units)
           g == GroupsOf(sum, N)
           span(i) == chunks[i].span
           ink == (0..(L - 1)) \ t.spaces
<1>1. /\ N \in Nat /\ Lined(t, units, 0, L) /\ L \in Nat
      /\ DOMAIN chunks = DOMAIN g
      /\ \A i \in DOMAIN g : chunks[i] = ChunkOf(t, units, g[i])
      /\ N = 0 => DOMAIN g = {}
      /\ N > 0 => /\ Chained(sum, g, N) /\ DOMAIN g = 1..Len(g)
                  /\ \A i \in 1..Len(g) :
                       /\ g[i] = <<g[i][1], g[i][2]>>
                       /\ g[i][1] \in 1..N /\ g[i][2] \in 1..N /\ g[i][1] <= g[i][2]
  BY ChunksAre
<1>2. Inside(<<0, L>>) = 0..(L - 1) BY DEF Inside
<1> HIDE DEF units, sum, g, L
<1>3. ASSUME NEW i \in DOMAIN g
      PROVE  /\ span(i)[1] \in Nat /\ span(i)[2] \in Nat /\ span(i)[1] < span(i)[2]
             /\ span(i) = <<span(i)[1], span(i)[2]>>
             /\ span(i)[1] \in Inside(units[g[i][1]]) /\ span(i)[2] - 1 \in Inside(units[g[i][2]])
             /\ span(i)[1] \in ink /\ span(i)[2] - 1 \in ink
             /\ \A k \in g[i][1]..g[i][2] : \A p \in Inside(units[k]) :
                    p \notin t.spaces => span(i)[1] <= p /\ p < span(i)[2]
             /\ chunks[i].units = g[i]
  <2> DEFINE f == g[i][1]
             l == g[i][2]
             c == ChunkOf(t, units, <<f, l>>)
  <2>1. N > 0 /\ f \in 1..N /\ l \in 1..N /\ f <= l /\ g[i] = <<f, l>> /\ chunks[i] = c
    <3>1. N # 0 BY <1>1, <1>3
    <3>2. i \in 1..Len(g) BY <1>1, <1>3, <3>1
    <3> QED BY <1>1, <1>3, <3>1, <3>2
  <2> HIDE DEF f, l
  <2>2. LET s == c.span
        IN  /\ s = <<s[1], s[2]>> /\ s[1] \in Nat /\ s[2] \in Nat /\ s[1] < s[2]
            /\ s[1] \in Inside(units[f]) /\ s[2] - 1 \in Inside(units[l])
            /\ s[1] \notin t.spaces /\ s[2] - 1 \notin t.spaces
            /\ s[1] \in Inside(<<0, L>>) /\ s[2] - 1 \in Inside(<<0, L>>)
            /\ \A k \in f..l : \A p \in Inside(units[k]) : p \notin t.spaces => s[1] <= p /\ p < s[2]
            /\ c.units = <<f, l>>
    <3>1. Lined(t, units, 0, L) /\ L \in Nat /\ f \in 1..Len(units) /\ l \in 1..Len(units) /\ f <= l
      BY <1>1, <2>1
    <3> HIDE DEF N
    <3> QED BY <3>1, ChunkIs
  <2> HIDE DEF c
  <2> QED BY <1>2, <2>1, <2>2 DEF f, l
<1>4. ASSUME N > 0
      PROVE  /\ DOMAIN g = 1..Len(g) /\ Len(g) \in Nat
             /\ \A i \in 1..Len(g) : g[i][1] \in 1..N /\ g[i][2] \in 1..N
             /\ \A i \in 2..Len(g) :
                  /\ g[i - 1][1] <= g[i][1] /\ g[i][1] <= g[i - 1][2] + 1
                  /\ g[i - 1][2] < g[i][2] /\ g[i - 1][2] - g[i][1] < Overlap
  BY <1>1, <1>4, LenProperties DEF Chained
<1>5. ink \subseteq UNION {Inside(span(i)) : i \in DOMAIN chunks}
  <2> SUFFICES ASSUME NEW x \in ink PROVE \E i \in DOMAIN g : x \in Inside(span(i)) BY <1>1
  <2>1. PICK k \in DOMAIN units : x \in Inside(units[k]) BY <1>1, <1>2 DEF Lined
  <2>2. k \in 1..N BY <1>1, <2>1, UnitsLie
  <2>3. N \in Nat \ {0} BY <1>1, <2>2
  <2>4. PICK i \in 1..Len(g) : g[i][1] <= k /\ k <= g[i][2]
    <3> DEFINE n == N
    <3>1. n \in Nat \ {0} /\ k \in 1..n /\ Chained(sum, g, n) BY <1>1, <2>2, <2>3
    <3> HIDE DEF n
    <3> QED BY <3>1, EveryUnitIsIn
  <2>5. i \in DOMAIN g /\ k \in g[i][1]..g[i][2] BY <1>4, <2>2, <2>3, <2>4
  <2>6. span(i)[1] <= x /\ x < span(i)[2] /\ span(i) = <<span(i)[1], span(i)[2]>>
        /\ span(i)[1] \in Nat /\ span(i)[2] \in Nat
    BY <1>3, <2>1, <2>5
  <2>7. x \in Inside(span(i)) BY <2>6 DEF Inside
  <2> QED BY <2>5, <2>7
<1>6. \A i \in DOMAIN chunks : {span(i)[1], span(i)[2] - 1} \subseteq ink BY <1>1, <1>3
<1>7. ASSUME NEW i \in DOMAIN chunks \ {1}
      PROVE  /\ span(i - 1)[1] <= span(i)[1] /\ span(i - 1)[2] < span(i)[2]
             /\ chunks[i].units[1] <= chunks[i - 1].units[2] + 1
             /\ chunks[i - 1].units[2] - chunks[i].units[1] < Overlap
  <2>1. N > 0 BY <1>1, <1>7
  <2>2. i \in 2..Len(g) /\ i \in DOMAIN g /\ i - 1 \in DOMAIN g /\ i \in 1..Len(g) /\ i - 1 \in 1..Len(g)
    BY <1>1, <1>4, <1>7, <2>1
  <2> DEFINE f == g[i - 1][1]
             l == g[i - 1][2]
             a == g[i][1]
             b == g[i][2]
             p == span(i - 1)
             q == span(i)
  <2>3. /\ f \in 1..N /\ l \in 1..N /\ a \in 1..N /\ b \in 1..N
        /\ f <= a /\ a <= l + 1 /\ l < b /\ l - a < Overlap /\ f <= l
    BY <1>1, <1>4, <2>1, <2>2
  <2>4. chunks[i].units = g[i] /\ chunks[i - 1].units = g[i - 1] BY <1>3, <2>2
  <2>5. /\ p[1] \in Nat /\ p[2] \in Nat /\ p[1] \in Inside(units[f]) /\ p[2] - 1 \in Inside(units[l])
        /\ \A k \in f..l : \A x \in Inside(units[k]) : x \notin t.spaces => p[1] <= x /\ x < p[2]
    BY <1>3, <2>2
  <2>6. /\ q[1] \in Nat /\ q[2] \in Nat /\ q[1] \in Inside(units[a]) /\ q[2] - 1 \in Inside(units[b])
        /\ q[1] \in ink
    BY <1>3, <2>2
  <2> HIDE DEF p, q, f, l, a, b, span
  <2>7. p[1] <= q[1]
    <3>1. CASE a \in f..l BY <2>5, <2>6, <3>1
    <3>2. CASE ~(a \in f..l)
      <4>2. f < a BY <2>3, <3>2
      <4>3. units[f][2] <= units[a][1] /\ units[f][2] \in Nat /\ units[a][1] \in Nat
        BY <1>1, <2>3, <4>2, UnitsLie
      <4>4. p[1] < units[f][2] /\ units[a][1] <= q[1] BY <1>1, <2>3, <2>5, <2>6, UnitsLie
      <4> QED BY <2>5, <2>6, <4>3, <4>4
    <3> QED BY <3>1, <3>2
  <2>8. p[2] < q[2]
    <3>1. units[l][2] <= units[b][1] /\ units[l][2] \in Nat /\ units[b][1] \in Nat
      BY <1>1, <2>3, UnitsLie
    <3>2. p[2] - 1 < units[l][2] /\ units[b][1] <= q[2] - 1 BY <1>1, <2>3, <2>5, <2>6, UnitsLie
    <3> QED BY <2>5, <2>6, <3>1, <3>2
  <2> QED BY <2>3, <2>4, <2>7, <2>8 DEF p, q, f, l, a, b
<1> HIDE DEF ink
<1> QED BY <1>5, <1>6, <1>7 DEF CoversTheText, ink, L

\* A sentence within the limit is in one chunk.
LEMMA ChunksKeep ==
    ASSUME IsText(text), chunks = ChunkSpans(text)
    PROVE  KeepsSentences
<1> DEFINE t == text
           L == t.length
           units == UnitsOf(t)
           N == Len(units)
           sum == TokensUpTo(t, units)
           g == GroupsOf(sum, N)
           z(m) == t.sentences[m]
<1>1. /\ N \in Nat /\ Lined(t, units, 0, L) /\ L \in Nat
      /\ DOMAIN chunks = DOMAIN g
      /\ \A i \in DOMAIN g : chunks[i] = ChunkOf(t, units, g[i])
      /\ N > 0 => /\ Chained(sum, g, N) /\ DOMAIN g = 1..Len(g)
                  /\ \A i \in 1..Len(g) :
                       /\ g[i] = <<g[i][1], g[i][2]>>
                       /\ g[i][1] \in 1..N /\ g[i][2] \in 1..N /\ g[i][1] <= g[i][2]
  BY ChunksAre
<1>2. \A m \in 1..Len(t.sentences) : Tokens(t, z(m)) <= MaxTokens => \E k \in DOMAIN units : units[k] = z(m)
  BY UnitsAre
<1>3. /\ DOMAIN t.sentences = 1..Len(t.sentences)
      /\ \A m \in 1..Len(t.sentences) : /\ z(m)[1] \in Nat /\ z(m)[2] \in Nat /\ z(m)[1] < z(m)[2]
                                        /\ z(m)[1] \notin t.spaces /\ z(m)[2] - 1 \notin t.spaces
  BY TextParts
<1> HIDE DEF units, sum, g, L
<1>4. ASSUME NEW m \in DOMAIN t.sentences, Tokens(t, z(m)) <= MaxTokens
      PROVE  \E j \in DOMAIN chunks : chunks[j].span[1] <= z(m)[1] /\ z(m)[2] <= chunks[j].span[2]
  <2> DEFINE s == z(m)
  <2>1. PICK k \in DOMAIN units : units[k] = s BY <1>2, <1>3, <1>4
  <2>2. k \in 1..N /\ N \in Nat \ {0} BY <1>1, <2>1, UnitsLie
  <2>3. PICK i \in 1..Len(g) : g[i][1] <= k /\ k <= g[i][2]
    <3> DEFINE n == N
    <3>1. n \in Nat \ {0} /\ k \in 1..n /\ Chained(sum, g, n) BY <1>1, <2>2
    <3> HIDE DEF n
    <3> QED BY <3>1, EveryUnitIsIn
  <2> DEFINE f == g[i][1]
             l == g[i][2]
             c == ChunkOf(t, units, <<f, l>>)
  <2>4. /\ f \in 1..N /\ l \in 1..N /\ f <= l /\ chunks[i] = c /\ i \in DOMAIN chunks /\ k \in f..l
    <3>1. f \in 1..N /\ l \in 1..N /\ f <= l /\ g[i] = <<f, l>> /\ i \in DOMAIN g
      BY <1>1, <2>2, <2>3
    <3>2. f <= k /\ k <= l BY <2>3
    <3> HIDE DEF f, l
    <3>3. k \in f..l BY <2>2, <3>1, <3>2
    <3>4. chunks[i] = c /\ i \in DOMAIN chunks BY <1>1, <3>1
    <3> QED BY <3>1, <3>3, <3>4
  <2> HIDE DEF f, l
  <2>5. LET w == c.span
        IN  /\ w[1] \in Nat /\ w[2] \in Nat
            /\ \A k_1 \in f..l : \A p \in Inside(units[k_1]) : p \notin t.spaces => w[1] <= p /\ p < w[2]
    BY <1>1, <2>4, ChunkIs
  <2> HIDE DEF c
  <2>6. /\ s[1] \in Nat /\ s[2] \in Nat /\ s[1] < s[2] /\ s[1] \notin t.spaces /\ s[2] - 1 \notin t.spaces
    BY <1>3, <1>4
  <2> HIDE DEF s
  <2>7. \A x : x \in Inside(units[k]) <=> x \in Int /\ s[1] <= x /\ x < s[2]
    BY <2>1, <2>6 DEF Inside
  <2>8. s[1] \in Inside(units[k]) /\ s[2] - 1 \in Inside(units[k]) BY <2>6, <2>7
  <2>9. c.span[1] <= s[1] /\ s[2] - 1 < c.span[2] BY <2>4, <2>5, <2>6, <2>8
  <2>10. s[2] <= c.span[2] BY <2>5, <2>6, <2>9
  <2> QED BY <2>4, <2>9, <2>10 DEF s
<1> QED BY <1>4 DEF KeepsSentences

\* Some characters, a dense one counted PerToken times.
Weight(D, X) == Cardinality(X) + (PerToken - 1) * Cardinality(D \cap X)

\* Characters of two sets weigh no more than those of each.
LEMMA WeightOfBoth ==
    ASSUME NEW D, NEW X, IsFiniteSet(X), NEW Y, IsFiniteSet(Y)
    PROVE  /\ Weight(D, X) \in Nat /\ Weight(D, Y) \in Nat /\ Weight(D, X \cup Y) \in Nat
           /\ IsFiniteSet(X \cup Y)
           /\ Weight(D, X \cup Y) <= Weight(D, X) + Weight(D, Y)
<1> DEFINE A == D \cap X
           B == D \cap Y
           x == Cardinality(X)
           y == Cardinality(Y)
           z == Cardinality(X \cup Y)
           a == Cardinality(A)
           b == Cardinality(B)
           c == Cardinality(A \cup B)
           p == PerToken - 1
<1>1. IsFiniteSet(A) /\ IsFiniteSet(B)
  <2>1. A \subseteq X /\ B \subseteq Y OBVIOUS
  <2> HIDE DEF A, B
  <2> QED BY <2>1, FS_Subset
<1>2. IsFiniteSet(X \cup Y) /\ z = x + y - Cardinality(X \cap Y) BY FS_Union
<1> HIDE DEF A, B
<1>3. IsFiniteSet(A \cup B) /\ c = a + b - Cardinality(A \cap B) BY <1>1, FS_Union
<1>4. IsFiniteSet(X \cap Y) /\ IsFiniteSet(A \cap B) BY <1>1, FS_Subset
<1>5. x \in Nat /\ y \in Nat /\ Cardinality(X \cap Y) \in Nat BY <1>4, FS_CardinalityType
<1>6. a \in Nat /\ b \in Nat /\ c \in Nat /\ Cardinality(A \cap B) \in Nat
  BY <1>1, <1>3, <1>4, FS_CardinalityType
<1>7. z \in Nat BY <1>2, FS_CardinalityType
<1>8. D \cap (X \cup Y) = A \cup B BY DEF A, B
<1>9. Weight(D, X) = x + p * a /\ Weight(D, Y) = y + p * b /\ Weight(D, X \cup Y) = z + p * c
  BY <1>8 DEF Weight, A, B
<1> HIDE DEF x, y, z, a, b, c
<1>10. p \in Nat BY ChunkingAssumption
<1> HIDE DEF p
<1>11. z <= x + y /\ c <= a + b BY <1>2, <1>3, <1>5, <1>6
<1>12. p * c <= p * (a + b) /\ p * (a + b) = p * a + p * b BY <1>6, <1>10, <1>11
<1>13. p * a \in Nat /\ p * b \in Nat /\ p * c \in Nat BY <1>6, <1>10
<1> QED BY <1>2, <1>5, <1>6, <1>7, <1>9, <1>11, <1>12, <1>13

\* And one set no more than another that it is part of.
LEMMA WeightOfPart ==
    ASSUME NEW D, NEW Y, IsFiniteSet(Y), NEW X, X \subseteq Y
    PROVE  IsFiniteSet(X) /\ Weight(D, X) \in Nat /\ Weight(D, Y) \in Nat /\ Weight(D, X) <= Weight(D, Y)
<1> DEFINE A == D \cap X
           B == D \cap Y
           p == PerToken - 1
<1>1. IsFiniteSet(X) /\ Cardinality(X) <= Cardinality(Y) BY FS_Subset
<1>2. IsFiniteSet(B)
  <2>1. B \subseteq Y OBVIOUS
  <2> HIDE DEF B
  <2> QED BY <2>1, FS_Subset
<1>3. A \subseteq B OBVIOUS
<1>4. Weight(D, X) = Cardinality(X) + p * Cardinality(A) /\ Weight(D, Y) = Cardinality(Y) + p * Cardinality(B)
  BY DEF Weight
<1> HIDE DEF A, B
<1>5. IsFiniteSet(A) /\ Cardinality(A) <= Cardinality(B) BY <1>2, <1>3, FS_Subset
<1>6. Cardinality(X) \in Nat /\ Cardinality(Y) \in Nat /\ Cardinality(A) \in Nat /\ Cardinality(B) \in Nat
  BY <1>1, <1>2, <1>5, FS_CardinalityType
<1>7. p \in Nat BY ChunkingAssumption
<1> DEFINE a == Cardinality(A)
           b == Cardinality(B)
<1> HIDE DEF a, b, p
<1>8. p * a \in Nat /\ p * b \in Nat /\ p * a <= p * b BY <1>5, <1>6, <1>7 DEF a, b
<1> QED BY <1>1, <1>4, <1>6, <1>8 DEF a, b

\* The tokens of a span are its weight, but for what rounding hides.
LEMMA TokensWeigh ==
    ASSUME NEW t, NEW a \in Int, NEW b \in Int, a <= b
    PROVE  LET w == Weight(t.dense, Inside(<<a, b>>))
               k == PerToken * Tokens(t, <<a, b>>)
           IN  w \in Nat /\ k \in Nat /\ k <= w /\ w <= k + (PerToken - 1)
<1> DEFINE d == Some(t.dense, a, b)
           n == b - a
           q == (n - d) \div PerToken
           p == PerToken
<1>1. d \in Nat /\ d <= n /\ Tokens(t, <<a, b>>) = d + q BY TokensAre
<1>2. Cardinality(Inside(<<a, b>>)) = n BY InsideIs
<1>3. Weight(t.dense, Inside(<<a, b>>)) = n + (p - 1) * d BY <1>2 DEF Weight, Some
<1>4. p \in Nat \ {0} /\ n - d \in Nat /\ n \in Nat BY <1>1, ChunkingAssumption
<1> HIDE DEF d, n
<1>5. q \in Nat /\ p * q <= n - d /\ n - d <= p * q + (p - 1) BY <1>4, Quotients
<1> HIDE DEF p, q
<1>6. p * (d + q) = p * d + p * q /\ (p - 1) * d = p * d - d BY <1>1, <1>4, <1>5
<1>7. p * d \in Nat /\ p * q \in Nat BY <1>1, <1>4, <1>5
<1>8. p * d >= d BY <1>1, <1>4, ProductAtLeast
<1> QED BY <1>1, <1>3, <1>4, <1>5, <1>6, <1>7, <1>8 DEF p

\* The units from one to another weigh what their tokens say, but for what rounding hides
\* of each.
LEMMA UnitsWeigh ==
    ASSUME NEW t, NEW units \in Seq(TextSpans), NEW sum, sum = TokensUpTo(t, units),
           NEW f \in 1..Len(units), NEW l \in 1..Len(units), f <= l
    PROVE  LET X == UNION {Inside(units[k]) : k \in f..l}
           IN  /\ IsFiniteSet(X) /\ Weight(t.dense, X) \in Nat
               /\ Weight(t.dense, X) <= PerToken * (sum[l] - sum[f - 1]) + (l - f + 1) * (PerToken - 1)
<1> DEFINE p == PerToken
           N == Len(units)
           X(j) == UNION {Inside(units[k]) : k \in f..j}
           good(j) == /\ IsFiniteSet(X(j)) /\ Weight(t.dense, X(j)) \in Nat
                      /\ Weight(t.dense, X(j)) <= p * (sum[j] - sum[f - 1]) + (j - f + 1) * (p - 1)
           P == {n \in 0..(l - f) : good(f + n)}
<1>1. /\ N \in Nat
      /\ \A n \in 0..N : sum[n] \in Nat
      /\ \A n \in 1..N : sum[n] = sum[n - 1] + Tokens(t, units[n]) /\ Tokens(t, units[n]) \in Nat
  BY SumsAre, LenProperties
<1>2. p \in Nat \ {0} BY ChunkingAssumption
<1>3. \A j \in 1..N : LET w == Weight(t.dense, Inside(units[j]))
                      IN  w \in Nat /\ w <= p * Tokens(t, units[j]) + (p - 1) /\ IsFiniteSet(Inside(units[j]))
  <2> SUFFICES ASSUME NEW j \in 1..N
               PROVE  LET w == Weight(t.dense, Inside(units[j]))
                      IN  w \in Nat /\ w <= p * Tokens(t, units[j]) + (p - 1) /\ IsFiniteSet(Inside(units[j]))
    OBVIOUS
  <2> DEFINE a == units[j][1]
             b == units[j][2]
  <2>1. units[j] \in TextSpans BY ElementOfSeq
  <2>2. units[j] = <<a, b>> /\ a \in Int /\ b \in Int /\ a <= b BY <2>1, SpanIs
  <2> HIDE DEF a, b
  <2>3. LET w == Weight(t.dense, Inside(<<a, b>>))
        IN  w \in Nat /\ w <= PerToken * Tokens(t, <<a, b>>) + (PerToken - 1)
    BY <2>2, TokensWeigh
  <2>4. IsFiniteSet(Inside(<<a, b>>)) BY <2>2, InsideIs
  <2> QED BY <2>2, <2>3, <2>4
<1> HIDE DEF p
<1>4. 0 \in P
  <2>1. X(f) = Inside(units[f]) OBVIOUS
  <2>2. sum[f] = sum[f - 1] + Tokens(t, units[f]) /\ sum[f - 1] \in Nat /\ Tokens(t, units[f]) \in Nat
    BY <1>1
  <2> DEFINE x == sum[f - 1]
             y == sum[f]
             k == Tokens(t, units[f])
  <2>3. y - x = k
    <3>1. y = x + k /\ x \in Nat /\ k \in Nat BY <2>2
    <3> HIDE DEF x, y, k
    <3> QED BY <3>1
  <2>4. good(f)
    <3>1. LET w == Weight(t.dense, Inside(units[f]))
          IN  w \in Nat /\ w <= p * k + (p - 1) /\ IsFiniteSet(Inside(units[f]))
      BY <1>3
    <3>2. (f - f + 1) * (p - 1) = p - 1 BY <1>2
    <3> HIDE DEF x, y, k, X
    <3>3. Weight(t.dense, X(f)) <= p * (y - x) + (f - f + 1) * (p - 1) BY <2>1, <2>3, <3>1, <3>2
    <3> QED BY <2>1, <3>1, <3>3 DEF x, y
  <2>5. f + 0 = f /\ 0 \in 0..(l - f) OBVIOUS
  <2> HIDE DEF good
  <2> QED BY <2>4, <2>5
<1>5. ASSUME NEW n \in 1..(l - f), n - 1 \in P PROVE n \in P
  <2> DEFINE i == f + (n - 1)
             j == f + n
             D == t.dense
             U == Inside(units[j])
             x == sum[f - 1]
             y == sum[i]
             z == sum[j]
             k == Tokens(t, units[j])
  <2>1. i \in 1..N /\ j \in 1..N /\ i = j - 1 /\ f <= i /\ good(i) BY <1>5
  <2>2. X(j) = X(i) \cup U
    <3>1. f..j = (f..i) \cup {j} BY <2>1
    <3> HIDE DEF i, j
    <3> QED BY <3>1
  <2>3. IsFiniteSet(X(i)) /\ Weight(D, X(i)) \in Nat
        /\ Weight(D, X(i)) <= p * (y - x) + (i - f + 1) * (p - 1)
    BY <2>1
  <2>4. Weight(D, U) \in Nat /\ Weight(D, U) <= p * k + (p - 1) /\ IsFiniteSet(U)
    <3>1. j \in 1..N BY <2>1
    <3> HIDE DEF j
    <3> QED BY <1>3, <3>1
  <2>5. z = y + k /\ k \in Nat /\ x \in Nat /\ y \in Nat
    <3>1. i \in 0..N /\ f - 1 \in 0..N /\ j \in 1..N /\ i = j - 1 BY <1>1, <2>1
    <3> HIDE DEF i, j
    <3> QED BY <1>1, <3>1
  <2>6. i \in Nat /\ j = i + 1 /\ f \in Nat /\ f <= i BY <2>1
  <2> HIDE DEF X, U, D, i, j, x, y, z, k
  <2>7. /\ Weight(D, X(i) \cup U) \in Nat /\ IsFiniteSet(X(i) \cup U)
        /\ Weight(D, X(i) \cup U) <= Weight(D, X(i)) + Weight(D, U)
    BY <2>3, <2>4, WeightOfBoth
  <2>8. p * (z - x) = p * (y - x) + p * k BY <1>2, <2>5
  <2>9. (j - f + 1) * (p - 1) = (i - f + 1) * (p - 1) + (p - 1) BY <1>2, <2>6
  <2>10. p * (y - x) \in Int /\ p * k \in Int /\ (i - f + 1) * (p - 1) \in Int
    BY <1>2, <2>5, <2>6
  <2>11. Weight(D, X(j)) <= p * (z - x) + (j - f + 1) * (p - 1)
    BY <1>2, <2>2, <2>3, <2>4, <2>7, <2>8, <2>9, <2>10
  <2>12. good(j) BY <2>2, <2>7, <2>11 DEF D, x, z
  <2>13. n \in 0..(l - f) OBVIOUS
  <2> HIDE DEF good
  <2> QED BY <2>12, <2>13 DEF j
<1> HIDE DEF P
<1>6. \A n \in 0..(l - f) : n \in P
  <2> DEFINE m == l - f
  <2>1. m \in Nat OBVIOUS
  <2> HIDE DEF m
  <2>2. \A n \in 1..m : n - 1 \in P => n \in P BY <1>5 DEF m
  <2>3. \A n \in 0..m : n \in P BY <1>4, <2>1, <2>2, CountsUpTo
  <2> QED BY <2>3 DEF m
<1>7. good(l)
  <2>1. l - f \in 0..(l - f) /\ f + (l - f) = l OBVIOUS
  <2>2. l - f \in P BY <1>6, <2>1
  <2> HIDE DEF good
  <2>3. good(f + (l - f)) BY <2>2 DEF P
  <2> QED BY <2>1, <2>3
<1> QED BY <1>7 DEF p

\* A chunk of units that are within the limit together is over it by no more than rounding
\* hides and the white space between them.
LEMMA ChunkWithin ==
    ASSUME NEW t, IsText(t), NEW units, NEW L \in Nat, L = t.length, Lined(t, units, 0, L),
           NEW sum, sum = TokensUpTo(t, units),
           NEW f \in 1..Len(units), NEW l \in 1..Len(units), f <= l,
           sum[l] - sum[f - 1] <= MaxTokens,
           NEW c, c = ChunkOf(t, units, <<f, l>>)
    PROVE  PerToken * c.tokens
             <= PerToken * MaxTokens + Cardinality(f..l) * (PerToken - 1)
                + Cardinality(Inside(c.span) \ UNION {Inside(units[k]) : k \in f..l})
<1> DEFINE X == UNION {Inside(units[k]) : k \in f..l}
           s == c.span
           D == t.dense
           Y == Inside(s) \ X
           p == PerToken
<1>1. /\ s = <<s[1], s[2]>> /\ s[1] \in Nat /\ s[2] \in Nat /\ s[1] < s[2]
      /\ s[1] \in Inside(units[f]) /\ s[2] - 1 \in Inside(units[l])
      /\ s[1] \in Inside(<<0, L>>) /\ s[2] - 1 \in Inside(<<0, L>>)
      /\ c.tokens = Tokens(t, s)
  BY ChunkIs
<1>2. units \in Seq(TextSpans) /\ Len(units) \in Nat BY UnitsLie DEF Lined
<1>3. /\ IsFiniteSet(X) /\ Weight(D, X) \in Nat
      /\ Weight(D, X) <= PerToken * (sum[l] - sum[f - 1]) + (l - f + 1) * (PerToken - 1)
  BY <1>2, UnitsWeigh
<1>4. /\ \A x : x \in Inside(s) <=> x \in Int /\ s[1] <= x /\ x < s[2]
      /\ IsFiniteSet(Inside(s))
      /\ LET w == Weight(D, Inside(s))
             k == PerToken * Tokens(t, s)
         IN  w \in Nat /\ k \in Nat /\ k <= w
  <2> DEFINE a == s[1]
             b == s[2]
  <2>1. s = <<a, b>> /\ a \in Int /\ b \in Int /\ a <= b BY <1>1
  <2> HIDE DEF a, b, s
  <2>2. LET w == Weight(t.dense, Inside(<<a, b>>))
            k == PerToken * Tokens(t, <<a, b>>)
        IN  w \in Nat /\ k \in Nat /\ k <= w
    BY <2>1, TokensWeigh
  <2>3. /\ \A x : x \in Inside(<<a, b>>) <=> x \in Int /\ a <= x /\ x < b
        /\ IsFiniteSet(Inside(<<a, b>>))
    BY <2>1, InsideIs
  <2> QED BY <2>1, <2>2, <2>3 DEF a, b
\* Between the units there is only white space, which is not dense.
<1>5. D \cap Y = {}
  <2> SUFFICES ASSUME NEW x \in Inside(s), x \in D, x \notin X PROVE FALSE OBVIOUS
  <2>1. x \notin t.spaces BY DEF IsText
  <2>2. x \in Int /\ s[1] <= x /\ x < s[2] BY <1>4
  <2>3. x \in Inside(<<0, L>>)
    <3>1. s[1] \in 0..(L - 1) /\ s[2] - 1 \in 0..(L - 1) BY <1>1 DEF Inside
    <3> HIDE DEF s
    <3>2. x \in 0..(L - 1) BY <1>1, <2>2, <3>1
    <3> QED BY <3>2 DEF Inside
  <2>4. PICK k \in DOMAIN units : x \in Inside(units[k]) BY <2>1, <2>3 DEF Lined
  <2>5. k \in 1..Len(units) BY <2>4, UnitsLie
  <2>6. ~(k \in f..l) BY <2>4
  <2>7. units[k][1] <= x /\ x < units[k][2] /\ units[k][1] \in Nat /\ units[k][2] \in Nat
    BY <2>4, <2>5, UnitsLie
  <2>8. CASE k < f
    <3>1. units[k][2] <= units[f][1] /\ units[f][1] \in Nat BY <2>5, <2>8, UnitsLie
    <3>2. units[f][1] <= s[1] BY <1>1, UnitsLie
    <3> HIDE DEF s
    <3> QED BY <1>1, <2>2, <2>7, <3>1, <3>2
  <2>9. CASE l < k
    <3>1. units[l][2] <= units[k][1] /\ units[l][2] \in Nat BY <2>5, <2>9, UnitsLie
    <3>2. s[2] - 1 < units[l][2] BY <1>1, UnitsLie
    <3> HIDE DEF s
    <3> QED BY <1>1, <2>2, <2>7, <3>1, <3>2
  <2>10. k < f \/ l < k BY <2>5, <2>6
  <2> QED BY <2>8, <2>9, <2>10
<1>6. IsFiniteSet(Y) /\ Cardinality(Y) \in Nat /\ Weight(D, Y) = Cardinality(Y)
  <2>1. Y \subseteq Inside(s) OBVIOUS
  <2>2. IsFiniteSet(Inside(s)) BY <1>4
  <2> HIDE DEF Y
  <2>3. IsFiniteSet(Y) BY <2>1, <2>2, FS_Subset
  <2>4. Cardinality(Y) \in Nat BY <2>3, FS_CardinalityType
  <2>5. Cardinality(D \cap Y) = 0 BY <1>5, FS_EmptySet
  <2>6. PerToken - 1 \in Int BY ChunkingAssumption
  <2> QED BY <2>3, <2>4, <2>5, <2>6 DEF Weight
<1>7. Inside(s) \subseteq X \cup Y OBVIOUS
<1>8. Cardinality(f..l) = l - f + 1 BY FS_Interval
<1> HIDE DEF X, Y
<1>9. /\ Weight(D, X \cup Y) \in Nat /\ IsFiniteSet(X \cup Y)
      /\ Weight(D, X \cup Y) <= Weight(D, X) + Weight(D, Y)
  BY <1>3, <1>6, WeightOfBoth
<1>10. Weight(D, Inside(s)) <= Weight(D, X \cup Y) BY <1>7, <1>9, WeightOfPart
<1>11. sum[l] \in Nat /\ sum[f - 1] \in Nat BY <1>2, SumsAre
<1>12. p * (sum[l] - sum[f - 1]) <= p * MaxTokens /\ p \in Nat /\ p * MaxTokens \in Nat
       /\ p * (sum[l] - sum[f - 1]) \in Int /\ (l - f + 1) * (p - 1) \in Int
  <2> DEFINE z == sum[l] - sum[f - 1]
             n == l - f + 1
             m == MaxTokens
  <2>1. p \in Nat /\ m \in Nat BY ChunkingAssumption
  <2>2. z \in Int /\ z <= m /\ n \in Int BY <1>2, <1>11
  <2> HIDE DEF z, n, m, p
  <2>3. p * z <= p * m /\ p * m \in Nat /\ p * z \in Int /\ n * (p - 1) \in Int BY <2>1, <2>2
  <2> QED BY <2>1, <2>3 DEF z, n, m
<1>13. p * c.tokens = p * Tokens(t, s) BY <1>1
<1> HIDE DEF s, D, p
<1>14. p * c.tokens <= p * MaxTokens + (l - f + 1) * (p - 1) + Cardinality(Y)
  <2> DEFINE w == Weight(D, Inside(s))
             v == Weight(D, X \cup Y)
             x == Weight(D, X)
             y == Cardinality(Y)
             k == p * Tokens(t, s)
             m == p * (sum[l] - sum[f - 1])
             r == (l - f + 1) * (p - 1)
             M == p * MaxTokens
  <2>1. k \in Nat /\ w \in Nat /\ v \in Nat /\ x \in Nat /\ y \in Nat /\ m \in Int /\ r \in Int /\ M \in Nat
    BY <1>3, <1>4, <1>6, <1>9, <1>12 DEF p
  <2>2. k <= w /\ w <= v /\ v <= x + y /\ x <= m + r /\ m <= M
    BY <1>3, <1>4, <1>6, <1>9, <1>10, <1>12 DEF p
  <2>3. p * c.tokens = k BY <1>13
  <2> HIDE DEF w, v, x, y, k, m, r, M
  <2>4. k <= M + r + y BY <2>1, <2>2
  <2> QED BY <2>3, <2>4 DEF M, r, y
<1> QED BY <1>8, <1>14 DEF p, X, Y, s

\* A chunk begins in its first unit and ends in its last one.
LEMMA ChunkEnds ==
    ASSUME NEW t, NEW units, NEW L \in Nat, Lined(t, units, 0, L),
           NEW f \in 1..Len(units), NEW l \in 1..Len(units), f <= l,
           NEW c, c = ChunkOf(t, units, <<f, l>>)
    PROVE  /\ c.span = <<c.span[1], c.span[2]>> /\ c.span[1] \in Nat /\ c.span[2] \in Nat
           /\ c.span[1] \in Inside(units[f]) /\ c.span[2] - 1 \in Inside(units[l])
<1> DEFINE s == c.span
<1>1. /\ s = <<s[1], s[2]>> /\ s[1] \in Nat /\ s[2] \in Nat /\ s[1] < s[2]
      /\ s[1] \in Inside(units[f]) /\ s[2] - 1 \in Inside(units[l])
      /\ s[1] \in Inside(<<0, L>>) /\ s[2] - 1 \in Inside(<<0, L>>)
      /\ c.tokens = Tokens(t, s)
  BY ChunkIs
<1> QED BY <1>1

\* No chunk is over the limit by more, but for pieces of mixed sentences.
LEMMA ChunksWithin ==
    ASSUME IsText(text), chunks = ChunkSpans(text)
    PROVE  KeepsTheLimit
<1> DEFINE t == text
           L == t.length
           units == UnitsOf(t)
           N == Len(units)
           sum == TokensUpTo(t, units)
           g == GroupsOf(sum, N)
           of(c) == c.units[1]..c.units[2]
           between(c) == Inside(c.span) \ UNION {Inside(units[k]) : k \in of(c)}
           within(c) == PerToken * c.tokens
                          <= PerToken * MaxTokens + Cardinality(of(c)) * (PerToken - 1)
                             + Cardinality(between(c))
           mixed(s) == text.dense \cap Inside(s) \notin {{}, Inside(s)}
           piece(c) == /\ Cardinality(of(c)) = 1
                       /\ \E n \in DOMAIN text.sentences :
                            mixed(text.sentences[n]) /\ Inside(c.span) \subseteq Inside(text.sentences[n])
<1>1. /\ N \in Nat /\ Lined(t, units, 0, L) /\ L \in Nat
      /\ DOMAIN chunks = DOMAIN g
      /\ \A i \in DOMAIN g : chunks[i] = ChunkOf(t, units, g[i])
      /\ N = 0 => DOMAIN g = {}
      /\ N > 0 => /\ Chained(sum, g, N) /\ DOMAIN g = 1..Len(g)
                  /\ \A i \in 1..Len(g) :
                       /\ g[i] = <<g[i][1], g[i][2]>>
                       /\ g[i][1] \in 1..N /\ g[i][2] \in 1..N /\ g[i][1] <= g[i][2]
  BY ChunksAre
<1>2. \A k \in DOMAIN units : Fit(t, units[k]) BY UnitsAre
<1> HIDE DEF g
<1>3. ASSUME NEW i \in DOMAIN chunks PROVE within(chunks[i]) \/ piece(chunks[i])
  <2> DEFINE f == g[i][1]
             l == g[i][2]
             c == chunks[i]
  <2>1. /\ f \in 1..N /\ l \in 1..N /\ f <= l /\ c = ChunkOf(t, units, <<f, l>>)
        /\ f = l \/ sum[l] - sum[f - 1] <= MaxTokens
    <3>1. N > 0 /\ i \in DOMAIN g BY <1>1, <1>3
    <3>2. i \in 1..Len(g) BY <1>1, <3>1
    <3>3. f \in 1..N /\ l \in 1..N /\ f <= l /\ g[i] = <<f, l>> BY <1>1, <3>1, <3>2
    <3>4. f = l \/ sum[l] - sum[f - 1] <= MaxTokens BY <1>1, <3>1, <3>2 DEF Chained
    <3> QED BY <1>1, <3>1, <3>3, <3>4
  <2> HIDE DEF f, l, c
  <2>2. c.units = <<f, l>> BY <2>1 DEF ChunkOf
  <2>3. of(c) = f..l BY <2>2
  <2> HIDE DEF units, L
  <2>4. /\ c.span = <<c.span[1], c.span[2]>> /\ c.span[1] \in Nat /\ c.span[2] \in Nat
        /\ c.span[1] \in Inside(units[f]) /\ c.span[2] - 1 \in Inside(units[l])
    <3>1. Lined(t, units, 0, L) /\ L \in Nat /\ f \in 1..Len(units) /\ l \in 1..Len(units) /\ f <= l
          /\ c = ChunkOf(t, units, <<f, l>>)
      BY <1>1, <2>1
    <3> HIDE DEF N
    <3> QED BY <3>1, ChunkEnds
  <2>5. CASE sum[l] - sum[f - 1] <= MaxTokens
    <3>1. Lined(t, units, 0, L) /\ L \in Nat /\ L = t.length /\ f \in 1..Len(units) /\ l \in 1..Len(units) /\ f <= l
      BY <1>1, <2>1 DEF L
    <3> DEFINE z == sum
    <3>2. z = TokensUpTo(t, units) /\ z[l] - z[f - 1] <= MaxTokens /\ c = ChunkOf(t, units, <<f, l>>)
      BY <2>1, <2>5
    <3> HIDE DEF z
    <3>3. PerToken * c.tokens
             <= PerToken * MaxTokens + Cardinality(f..l) * (PerToken - 1)
                + Cardinality(Inside(c.span) \ UNION {Inside(units[k]) : k \in f..l})
      BY <3>1, <3>2, ChunkWithin
    <3>4. within(c) BY <2>3, <3>3
    <3> QED BY <3>4 DEF c
  <2>6. CASE ~(sum[l] - sum[f - 1] <= MaxTokens)
    <3>1. f = l BY <2>1, <2>6
    <3>2. Cardinality(of(c)) = 1
      <4>1. f..f = {f} BY <2>1
      <4>2. Cardinality({f}) = 1 BY FS_Singleton
      <4> QED BY <2>3, <3>1, <4>1, <4>2
    <3>3. ~(Tokens(t, units[f]) <= MaxTokens)
      <4> DEFINE z == sum
      <4>1. z = TokensUpTo(t, units) /\ units \in Seq(TextSpans) /\ f \in 1..Len(units)
        BY <1>1, <2>1 DEF Lined
      <4>2. ~(z[f] - z[f - 1] <= MaxTokens) BY <2>6, <3>1
      <4> HIDE DEF z
      <4>3. z[f] = z[f - 1] + Tokens(t, units[f]) /\ Tokens(t, units[f]) \in Nat
        BY <4>1, SumsAre
      <4>4. z[f - 1] \in Nat BY <4>1, SumsAre
      <4> DEFINE x == z[f - 1]
                 y == z[f]
                 k == Tokens(t, units[f])
      <4>5. y = x + k /\ k \in Nat /\ x \in Nat /\ ~(y - x <= MaxTokens) BY <4>2, <4>3, <4>4
      <4> HIDE DEF x, y, k
      <4>6. ~(k <= MaxTokens) BY <4>5
      <4> QED BY <4>6 DEF k
    <3>4. f \in DOMAIN units BY <1>1, <2>1, UnitsLie
    <3>5. PICK n \in DOMAIN t.sentences : Mixed(t, t.sentences[n]) /\ Inside(units[f]) \subseteq Inside(t.sentences[n])
      BY <1>2, <3>3, <3>4 DEF Fit
    <3> DEFINE s == c.span
    <3>6. /\ s = <<s[1], s[2]>> /\ s[1] \in Nat /\ s[2] \in Nat
          /\ s[1] \in Inside(units[f]) /\ s[2] - 1 \in Inside(units[f])
      BY <2>4, <3>1
    <3>7. Inside(s) \subseteq Inside(units[f])
      <4>1. \A x : x \in Inside(units[f]) <=> x \in Int /\ units[f][1] <= x /\ x < units[f][2]
        BY <1>1, <2>1, UnitsLie
      <4>2. units[f][1] \in Nat /\ units[f][2] \in Nat BY <1>1, <2>1, UnitsLie
      <4> HIDE DEF s
      <4>3. units[f][1] <= s[1] /\ s[2] - 1 < units[f][2] BY <3>6, <4>1
      <4>4. ASSUME NEW x \in s[1]..(s[2] - 1) PROVE x \in Int /\ units[f][1] <= x /\ x < units[f][2]
        BY <3>6, <4>2, <4>3
      <4>5. Inside(s) = s[1]..(s[2] - 1) BY DEF Inside
      <4> QED BY <4>1, <4>4, <4>5
    <3>8. Inside(s) \subseteq Inside(t.sentences[n]) /\ mixed(t.sentences[n])
      BY <3>5, <3>7 DEF Mixed
    <3>9. piece(c) BY <3>2, <3>8
    <3> QED BY <3>9 DEF c
  <2> QED BY <2>5, <2>6
<1> HIDE DEF within, piece
<1>4. \A i \in DOMAIN chunks : within(chunks[i]) \/ piece(chunks[i]) BY <1>3
<1> QED BY <1>4 DEF within, piece, KeepsTheLimit

\* A text is chunked once.
ChunkingInv ==
    \/ text = EmptyText /\ chunks = <<>>
    \/ text \in TextsToChunk /\ chunks = ChunkSpans(text)

\* Nothing is told of the empty text.
LEMMA NothingToChunk ==
    ASSUME text = EmptyText, chunks = <<>>
    PROVE  ChunksTell
BY DEF EmptyText, CoversTheText, KeepsSentences, KeepsTheLimit, ChunksTell

\* For any texts, limits and overlaps: the chunks of a text cover it in order, no sentence
\* within the limit is split, and no chunk is over the limit by more than rounding hides
\* and the white space between its units, unless it is a piece of a mixed sentence.
THEOREM ChunksStand == ChunkingSpec => []ChunksTell
<1>1. ChunkingInit => ChunkingInv BY DEF ChunkingInit, ChunkingInv
<1>2. ChunkingInv /\ [ChunkingNext]_chunkingVars => ChunkingInv'
  BY DEF ChunkingInv, ChunkingNext, ChunkText, chunkingVars
<1>3. ChunkingInv => ChunksTell
  <2> SUFFICES ASSUME ChunkingInv PROVE ChunksTell OBVIOUS
  <2>1. CASE text = EmptyText /\ chunks = <<>> BY <2>1, NothingToChunk
  <2>2. CASE text \in TextsToChunk /\ chunks = ChunkSpans(text)
    BY <2>2, TextsAssumption, ChunksCover, ChunksKeep, ChunksWithin DEF ChunksTell
  <2> QED BY <2>1, <2>2 DEF ChunkingInv
<1> QED BY <1>1, <1>2, <1>3, PTL DEF ChunkingSpec

-----------------------------------------------------------------------------
(* Searches: sequences.                                                     *)

Distinct(s) == \A i, j \in DOMAIN s : s[i] = s[j] => i = j

\* A sequence is what its elements are, and its range what it has.
LEMMA ElementsIn ==
    ASSUME NEW S, NEW s \in Seq(S)
    PROVE  /\ Len(s) \in Nat /\ DOMAIN s = 1..Len(s) /\ s \in [1..Len(s) -> S]
           /\ \A i \in 1..Len(s) : s[i] \in S
           /\ Range(s) \subseteq S /\ \A c \in Range(s) : \E i \in 1..Len(s) : s[i] = c
BY LenProperties DEF Range

\* A finite set is sorted by a strict order: each element once, none before one that goes before it.
LEMMA SortedFacts ==
    ASSUME NEW S, IsFiniteSet(S), NEW before, StrictlyOrders(before, S)
    PROVE  LET s == SortedBy(S, before)
           IN  /\ s \in Seq(S) /\ Len(s) = Cardinality(S) /\ Cardinality(S) \in Nat
               /\ Distinct(s) /\ Range(s) = S
               /\ \A i, j \in DOMAIN s : <<s[i], s[j]>> \in before => i < j
<1> DEFINE s == SortedBy(S, before)
           n == Cardinality(S)
           Here(c, i) == Cardinality({d \in S : <<d, c>> \in before}) = i - 1
<1>1. /\ n \in Nat
      /\ \A x \in S : Cardinality(Below(before, S, x)) \in 0..(n - 1)
      /\ \A x, y \in S :
           <<x, y>> \in before <=> Cardinality(Below(before, S, x)) < Cardinality(Below(before, S, y))
      /\ \A x, y \in S : Cardinality(Below(before, S, x)) = Cardinality(Below(before, S, y)) => x = y
      /\ \A i \in 1..n : \E x \in S : Cardinality(Below(before, S, x)) = i - 1
  BY Ranks
<1>2. \A x \in S : \A i \in 1..n : Here(x, i) <=> Cardinality(Below(before, S, x)) = i - 1
  BY DEF Below
<1>3. s = [i \in 1..n |-> CHOOSE c \in S : Here(c, i)] BY DEF SortedBy
<1> HIDE DEF Here, s
<1>4. \A i \in 1..n : s[i] \in S /\ Cardinality(Below(before, S, s[i])) = i - 1
  <2> TAKE i \in 1..n
  <2>1. \E c \in S : Here(c, i) BY <1>1, <1>2
  <2>2. s[i] = CHOOSE c \in S : Here(c, i) BY <1>3
  <2> QED BY <1>2, <2>1, <2>2
<1>5. s \in [1..n -> S] BY <1>3, <1>4
<1> HIDE DEF n
<1>6. s \in Seq(S) /\ Len(s) = n /\ DOMAIN s = 1..n BY <1>1, <1>3, <1>5, LengthOf
<1>7. Distinct(s)
  <2> SUFFICES ASSUME NEW i \in 1..n, NEW j \in 1..n, s[i] = s[j] PROVE i = j
    BY <1>6 DEF Distinct
  <2>1. i - 1 = j - 1 BY <1>4
  <2> QED BY <2>1
<1>8. Range(s) = S
  <2>1. \A x \in S : \E i \in 1..n : s[i] = x
    <3> TAKE x \in S
    <3> DEFINE i == Cardinality(Below(before, S, x)) + 1
    <3>1. i \in 1..n /\ i - 1 = Cardinality(Below(before, S, x)) BY <1>1
    <3>2. s[i] \in S /\ Cardinality(Below(before, S, s[i])) = i - 1 BY <1>4, <3>1
    <3>3. s[i] = x BY <1>1, <3>1, <3>2
    <3> QED BY <3>1, <3>3
  <2> QED BY <1>4, <1>6, <2>1 DEF Range
<1>9. \A i, j \in DOMAIN s : <<s[i], s[j]>> \in before => i < j
  <2> SUFFICES ASSUME NEW i \in 1..n, NEW j \in 1..n, <<s[i], s[j]>> \in before PROVE i < j
    BY <1>6
  <2>1. s[i] \in S /\ s[j] \in S BY <1>4
  <2>2. Cardinality(Below(before, S, s[i])) < Cardinality(Below(before, S, s[j])) BY <1>1, <2>1
  <2>3. i - 1 < j - 1 BY <1>4, <2>2
  <2> QED BY <2>3
<1> QED BY <1>1, <1>6, <1>7, <1>8, <1>9 DEF s, n

\* The first of a sequence are as they stand in it, and all of them if there are no more.
LEMMA FirstFacts ==
    ASSUME NEW S, NEW s \in Seq(S), NEW n \in Nat
    PROVE  LET f == FirstOf(s, n)
           IN  /\ f \in Seq(S) /\ Len(f) <= Len(s)
               /\ \A i \in DOMAIN f : i \in DOMAIN s /\ f[i] = s[i]
               /\ Len(s) <= n => Range(f) = Range(s)
               /\ Range(f) \subseteq Range(s)
<1> DEFINE m == IF Len(s) < n THEN Len(s) ELSE n
           f == FirstOf(s, n)
<1>1. Len(s) \in Nat /\ DOMAIN s = 1..Len(s) /\ \A i \in 1..Len(s) : s[i] \in S BY ElementsIn
<1>2. m \in Nat /\ m <= Len(s) /\ (Len(s) <= n => m = Len(s))
  <2> DEFINE k == Len(s)
  <2>1. k \in Nat BY <1>1
  <2>2. m = IF k < n THEN k ELSE n OBVIOUS
  <2> HIDE DEF k, m
  <2>3. m \in Nat /\ m <= k /\ (k <= n => m = k) BY <2>1, <2>2
  <2> QED BY <2>3 DEF k
<1>3. f = SubSeq(s, 1, m) BY DEF FirstOf
<1> HIDE DEF m, f
<1>4. \A i \in 1..m : i \in 1..Len(s) /\ s[i] \in S
  <2> TAKE i \in 1..m
  <2> DEFINE k == Len(s)
  <2>1. k \in Nat /\ m \in Nat /\ m <= k BY <1>1, <1>2
  <2> HIDE DEF k
  <2>2. i \in 1..k BY <2>1
  <2>3. i \in 1..Len(s) BY <2>2 DEF k
  <2> QED BY <1>1, <2>3
<1>5. f \in Seq(S) /\ Len(f) = m /\ \A i \in 1..m : f[i] = s[i]
  <2>1. /\ SubSeq(s, 1, m) \in Seq(S)
        /\ Len(SubSeq(s, 1, m)) = IF 1 <= m THEN m - 1 + 1 ELSE 0
        /\ \A i \in 1..(m - 1 + 1) : SubSeq(s, 1, m)[i] = s[1 + i - 1]
    BY <1>2, <1>4, SubSeqProperties
  <2>2. m - 1 + 1 = m /\ (~(1 <= m) => m = 0) /\ \A i \in 1..m : 1 + i - 1 = i BY <1>2
  <2> QED BY <1>3, <2>1, <2>2
<1>6. DOMAIN f = 1..m BY <1>5, ElementsIn
<1>7. \A i \in DOMAIN f : i \in DOMAIN s /\ f[i] = s[i] BY <1>1, <1>4, <1>5, <1>6
<1>8. Len(s) <= n => Range(f) = Range(s) BY <1>1, <1>2, <1>6, <1>7 DEF Range
<1>9. Range(f) \subseteq Range(s) BY <1>7 DEF Range
<1> QED BY <1>2, <1>5, <1>7, <1>8, <1>9 DEF f

\* What a sequence holds is found at its rank.
LEMMA RankFacts ==
    ASSUME NEW S, NEW s \in Seq(S), NEW c \in Range(s)
    PROVE  RankIn(s, c) \in 1..Len(s) /\ s[RankIn(s, c)] = c
BY ElementsIn DEF Range, RankIn

\* Chunks are finitely many, and so are those a filter leaves.
LEMMA ChunksFinite ==
    /\ IsFiniteSet(Chunks) /\ Cardinality(Chunks) \in Nat
    /\ \A cs \in SUBSET Chunks : /\ IsFiniteSet(cs) /\ Cardinality(cs) \in Nat
                                 /\ Cardinality(cs) <= Cardinality(Chunks)
<1>1. IsFiniteSet(Chunks)
  <2> DEFINE s == LexicalOrder
  <2>1. s \in Seq(Chunks) /\ Range(s) = Chunks BY RetrievalAssumption DEF OrdersChunks
  <2>2. Len(s) \in Nat /\ s \in [1..Len(s) -> Chunks] /\ \A c \in Chunks : \E i \in 1..Len(s) : s[i] = c
    <3> HIDE DEF s
    <3> QED BY <2>1, ElementsIn
  <2> HIDE DEF s
  <2>3. s \in Surjection(1..Len(s), Chunks) BY <2>2 DEF Surjection
  <2>4. IsFiniteSet(1..Len(s)) BY <2>2, FS_Interval
  <2> QED BY <2>3, <2>4, FS_Surjection
<1> QED BY <1>1, FS_Subset, FS_CardinalityType

-----------------------------------------------------------------------------
(* Fractions.                                                               *)

Fraction == Nat \X (Nat \ {0})
AtMost(x, y) == x[1] * y[2] <= y[1] * x[2]
More(x, y) == x[1] * y[2] > y[1] * x[2]

\* Of two fractions one is at most the other, and they are equal if each is.
LEMMA FractionsCompare ==
    ASSUME NEW x \in Fraction, NEW y \in Fraction
    PROVE  /\ x[1] * y[2] \in Int /\ y[1] * x[2] \in Int
           /\ AtMost(x, x) /\ (More(x, y) <=> ~AtMost(x, y)) /\ (AtMost(x, y) \/ AtMost(y, x))
           /\ (x[1] * y[2] = y[1] * x[2] <=> AtMost(x, y) /\ AtMost(y, x))
<1> DEFINE u == x[1] * y[2]
           v == y[1] * x[2]
           w == x[1] * x[2]
<1>1. u \in Int /\ v \in Int /\ w \in Int BY DEF Fraction
<1>2. (AtMost(x, y) <=> u <= v) /\ (AtMost(y, x) <=> v <= u) /\ (More(x, y) <=> u > v)
      /\ (AtMost(x, x) <=> w <= w)
  BY DEF AtMost, More
<1> HIDE DEF u, v, w
<1> QED BY <1>1, <1>2 DEF u, v

\* Fractions are ordered.
LEMMA AtMostTransitive ==
    ASSUME NEW x \in Fraction, NEW y \in Fraction, NEW z \in Fraction, AtMost(x, y), AtMost(y, z)
    PROVE  AtMost(x, z)
<1>1. /\ x[1] \in Nat /\ x[2] \in Nat \ {0} /\ y[1] \in Nat /\ y[2] \in Nat \ {0}
      /\ z[1] \in Nat /\ z[2] \in Nat \ {0}
  BY DEF Fraction
<1>2. x[1] * y[2] <= y[1] * x[2] /\ y[1] * z[2] <= z[1] * y[2] BY DEF AtMost
<1> DEFINE a == x[1]
           b == x[2]
           c == y[1]
           d == y[2]
           e == z[1]
           g == z[2]
<1>3. /\ a \in Nat /\ b \in Nat \ {0} /\ c \in Nat /\ d \in Nat \ {0} /\ e \in Nat
      /\ g \in Nat \ {0} /\ a * d <= c * b /\ c * g <= e * d
  BY <1>1, <1>2
<1> HIDE DEF a, b, c, d, e, g
<1>4. a * g <= e * b BY <1>3, FractionsTransitive
<1> QED BY <1>4 DEF AtMost, a, b, e, g

\* Sums are as what is summed.
LEMMA SumsCompare ==
    ASSUME NEW a \in Fraction, NEW b \in Fraction, NEW c \in Fraction, NEW d \in Fraction,
           AtMost(c, a), AtMost(d, b), More(a, c) \/ More(b, d)
    PROVE  More(Plus(a, b), Plus(c, d))
<1> DEFINE u == c[1] * a[2]
           U == a[1] * c[2]
           v == d[1] * b[2]
           V == b[1] * d[2]
           w == b[2] * d[2]
           z == a[2] * c[2]
<1>1. /\ a[1] \in Nat /\ a[2] \in Nat \ {0} /\ b[1] \in Nat /\ b[2] \in Nat \ {0}
      /\ c[1] \in Nat /\ c[2] \in Nat \ {0} /\ d[1] \in Nat /\ d[2] \in Nat \ {0}
  BY DEF Fraction
<1>2. /\ u \in Int /\ U \in Int /\ v \in Int /\ V \in Int /\ w \in Nat \ {0} /\ z \in Nat \ {0}
  BY <1>1
<1>3. u <= U /\ v <= V /\ (u < U \/ v < V)
  <2>1. u <= U /\ v <= V /\ (U > u \/ V > v) BY DEF AtMost, More
  <2> HIDE DEF u, U, v, V
  <2> QED BY <1>2, <2>1
<1>4. (c[1] * d[2] + d[1] * c[2]) * (a[2] * b[2]) = u * w + v * z BY <1>1
<1>5. (a[1] * b[2] + b[1] * a[2]) * (c[2] * d[2]) = U * w + V * z BY <1>1
<1> HIDE DEF u, U, v, V, w, z
<1>6. /\ u * w <= U * w /\ v * z <= V * z /\ (u < U => u * w < U * w) /\ (v < V => v * z < V * z)
      /\ u * w \in Int /\ U * w \in Int /\ v * z \in Int /\ V * z \in Int
  BY <1>2, <1>3, Multiplied
<1>7. U * w + V * z > u * w + v * z BY <1>3, <1>6
<1>8. /\ Plus(a, b)[1] = a[1] * b[2] + b[1] * a[2] /\ Plus(a, b)[2] = a[2] * b[2]
      /\ Plus(c, d)[1] = c[1] * d[2] + d[1] * c[2] /\ Plus(c, d)[2] = c[2] * d[2]
  BY DEF Plus
<1> QED BY <1>4, <1>5, <1>7, <1>8 DEF More

\* The sum of two fractions is one.
LEMMA SumIsFraction ==
    ASSUME NEW x \in Fraction, NEW y \in Fraction
    PROVE  Plus(x, y) \in Fraction
BY DEF Fraction, Plus

-----------------------------------------------------------------------------
(* Legs, and what they are fused to.                                        *)

\* A leg ranks filtered chunks, each once, and all of them if it keeps as many candidates.
LEMMA LegFacts ==
    ASSUME NEW order, OrdersChunks(order), NEW cs \in SUBSET Chunks
    PROVE  LET leg == Ranked(order, cs)
           IN  /\ leg \in Seq(Chunks) /\ Distinct(leg) /\ Range(leg) \subseteq cs
               /\ Cardinality(Chunks) <= Candidates => Range(leg) = cs
<1> DEFINE before == {p \in cs \X cs : RankIn(order, p[1]) < RankIn(order, p[2])}
           s == SortedBy(cs, before)
           leg == Ranked(order, cs)
<1>1. order \in Seq(Chunks) /\ Range(order) = Chunks /\ Candidates \in Nat
  BY RetrievalAssumption DEF OrdersChunks
<1>2. \A c \in cs : RankIn(order, c) \in Nat /\ order[RankIn(order, c)] = c
  BY <1>1, ElementsIn, RankFacts
<1>3. StrictlyOrders(before, cs)
  <2>1. \A x, y \in cs : <<x, y>> \in before <=> RankIn(order, x) < RankIn(order, y) OBVIOUS
  <2> HIDE DEF before
  <2>2. \A x \in cs : <<x, x>> \notin before BY <1>2, <2>1
  <2>3. \A x, y, z \in cs : <<x, y>> \in before /\ <<y, z>> \in before => <<x, z>> \in before
    BY <1>2, <2>1
  <2>4. \A x, y \in cs : RankIn(order, x) = RankIn(order, y) => x = y BY <1>2
  <2>5. \A x, y \in cs : \/ RankIn(order, x) = RankIn(order, y)
                          \/ RankIn(order, x) < RankIn(order, y)
                          \/ RankIn(order, y) < RankIn(order, x)
    BY <1>2
  <2>6. \A x, y \in cs : x = y \/ <<x, y>> \in before \/ <<y, x>> \in before BY <2>1, <2>4, <2>5
  <2> QED BY <2>2, <2>3, <2>6 DEF StrictlyOrders
<1>4. leg = FirstOf(s, Candidates) BY DEF Ranked
<1> HIDE DEF before, leg
<1>5. /\ IsFiniteSet(cs) /\ Cardinality(cs) \in Nat /\ Cardinality(cs) <= Cardinality(Chunks)
      /\ Cardinality(Chunks) \in Nat
  BY ChunksFinite
<1>6. s \in Seq(cs) /\ Len(s) = Cardinality(cs) /\ Distinct(s) /\ Range(s) = cs
  BY <1>3, <1>5, SortedFacts
<1> HIDE DEF s
<1>7. /\ leg \in Seq(cs)
      /\ \A i \in DOMAIN leg : i \in DOMAIN s /\ leg[i] = s[i]
      /\ Len(s) <= Candidates => Range(leg) = Range(s)
      /\ Range(leg) \subseteq Range(s)
  BY <1>1, <1>4, <1>6, FirstFacts
<1>8. Distinct(leg) BY <1>6, <1>7 DEF Distinct
<1>9. leg \in Seq(Chunks) BY <1>7, ElementsIn, LengthOf
<1>10. Cardinality(Chunks) <= Candidates => Range(leg) = cs BY <1>1, <1>5, <1>6, <1>7
<1> QED BY <1>6, <1>7, <1>8, <1>9, <1>10 DEF leg

\* A leg gives a chunk it lacks nothing, and another one over its rank.
LEMMA ShareFacts ==
    ASSUME NEW leg \in Seq(Chunks), NEW c
    PROVE  /\ Share(leg, c) \in Fraction
           /\ c \notin Range(leg) => Share(leg, c)[1] = 0 /\ Share(leg, c)[2] = 1
           /\ c \in Range(leg) => /\ RankIn(leg, c) \in Nat /\ RankIn(leg, c) \in DOMAIN leg
                                  /\ Share(leg, c)[1] = 1
                                  /\ Share(leg, c)[2] = RRFK + RankIn(leg, c)
<1>1. RRFK \in Nat \ {0} BY RetrievalAssumption
<1>2. CASE c \notin Range(leg) BY <1>2 DEF Share, Fraction
<1>3. CASE c \in Range(leg)
  <2> DEFINE r == RankIn(leg, c)
  <2>1. r \in 1..Len(leg) /\ Len(leg) \in Nat /\ DOMAIN leg = 1..Len(leg)
    BY <1>3, RankFacts, ElementsIn
  <2>2. r \in Nat /\ r \in DOMAIN leg BY <2>1
  <2>3. Share(leg, c) = <<1, RRFK + r>> BY <1>3 DEF Share
  <2> HIDE DEF r
  <2>4. RRFK + r \in Nat \ {0} BY <1>1, <2>2
  <2> QED BY <1>3, <2>2, <2>3, <2>4 DEF Fraction, r
<1> QED BY <1>2, <1>3

\* A fused score is a fraction.
LEMMA FusedIsFraction ==
    ASSUME NEW lex \in Seq(Chunks), NEW vec \in Seq(Chunks), NEW c
    PROVE  Fused(lex, vec, c) \in Fraction
BY ShareFacts, SumIsFraction DEF Fused

\* To beat another is a strict order of chunks, as ties are broken by the id.
LEMMA BeatsOrders ==
    ASSUME NEW lex \in Seq(Chunks), NEW vec \in Seq(Chunks), NEW S \in SUBSET Chunks
    PROVE  StrictlyOrders({p \in S \X S : Beats(lex, vec, p[1], p[2])}, S)
<1> DEFINE before == {p \in S \X S : Beats(lex, vec, p[1], p[2])}
           F(c) == Fused(lex, vec, c)
<1>1. S \subseteq Nat BY RetrievalAssumption
<1>2. \A c \in S : F(c) \in Fraction BY FusedIsFraction
<1>3. \A c, d \in S : <<c, d>> \in before <=>
         More(F(c), F(d)) \/ (F(c)[1] * F(d)[2] = F(d)[1] * F(c)[2] /\ c < d)
  BY DEF Beats, More
<1> HIDE DEF before, F
<1>4. \A c, d \in S : <<c, d>> \in before <=>
         ~AtMost(F(c), F(d)) \/ (AtMost(F(c), F(d)) /\ AtMost(F(d), F(c)) /\ c < d)
  <2> TAKE c, d \in S
  <2>1. /\ More(F(c), F(d)) <=> ~AtMost(F(c), F(d))
        /\ F(c)[1] * F(d)[2] = F(d)[1] * F(c)[2] <=> AtMost(F(c), F(d)) /\ AtMost(F(d), F(c))
    BY <1>2, FractionsCompare
  <2> QED BY <1>3, <2>1
<1>5. \A c, d \in S : AtMost(F(c), F(d)) \/ AtMost(F(d), F(c)) BY <1>2, FractionsCompare
<1>6. \A c \in S : AtMost(F(c), F(c)) BY <1>2, FractionsCompare
<1>7. \A c, d, e \in S : AtMost(F(c), F(d)) /\ AtMost(F(d), F(e)) => AtMost(F(c), F(e))
  BY <1>2, AtMostTransitive
<1>8. \A c \in S : ~(c < c) BY <1>1
<1>9. \A c, d, e \in S : c < d /\ d < e => c < e BY <1>1
<1>10. \A c, d \in S : c = d \/ c < d \/ d < c BY <1>1
<1>11. \A c \in S : <<c, c>> \notin before BY <1>4, <1>6, <1>8
<1>12. \A c, d, e \in S : <<c, d>> \in before /\ <<d, e>> \in before => <<c, e>> \in before
  BY <1>4, <1>5, <1>7, <1>9
<1>13. \A c, d \in S : c = d \/ <<c, d>> \in before \/ <<d, c>> \in before BY <1>4, <1>5, <1>10
<1>14. StrictlyOrders(before, S) BY <1>11, <1>12, <1>13 DEF StrictlyOrders
<1> QED BY <1>14 DEF before

\* Of two chunks the one that is above in a leg has the greater share of it.
LEMMA AboveHasMore ==
    ASSUME NEW leg \in Seq(Chunks), Distinct(leg), NEW c, NEW d
    PROVE  /\ Above(leg, c, d) => More(Share(leg, c), Share(leg, d))
           /\ Above(leg, c, d) \/ Level(leg, c, d) => AtMost(Share(leg, d), Share(leg, c))
<1>1. Share(leg, c) \in Fraction /\ Share(leg, d) \in Fraction /\ RRFK \in Nat \ {0}
  BY ShareFacts, RetrievalAssumption
<1> DEFINE x == Share(leg, c)
           y == Share(leg, d)
           m == RankIn(leg, c)
           n == RankIn(leg, d)
<1>2. ASSUME Above(leg, c, d) PROVE More(x, y)
  <2>1. c \in Range(leg) /\ m \in Nat /\ x[1] = 1 /\ x[2] = RRFK + m
    BY <1>2, ShareFacts DEF Above
  <2>2. CASE d \notin Range(leg)
    <3>1. y[1] = 0 /\ y[2] = 1 BY <2>2, ShareFacts
    <3> HIDE DEF x, y, m, n
    <3>2. x[1] * y[2] = 1 /\ y[1] * x[2] = 0 BY <1>1, <2>1, <3>1
    <3> QED BY <3>2 DEF More
  <2>3. CASE d \in Range(leg)
    <3>1. n \in Nat /\ n \in DOMAIN leg /\ m \in DOMAIN leg /\ y[1] = 1 /\ y[2] = RRFK + n
      BY <2>1, <2>3, ShareFacts
    <3>2. leg[m] = c /\ leg[n] = d BY <2>1, <2>3, RankFacts
    <3>3. PICK i, j \in DOMAIN leg : leg[i] = c /\ leg[j] = d /\ i < j BY <1>2, <2>3 DEF Above
    <3>4. m = i /\ n = j BY <3>1, <3>2, <3>3 DEF Distinct
    <3>5. m < n BY <3>3, <3>4
    <3> HIDE DEF x, y, m, n
    <3>6. x[1] * y[2] = RRFK + n /\ y[1] * x[2] = RRFK + m BY <1>1, <2>1, <3>1
    <3>7. RRFK + n > RRFK + m BY <1>1, <2>1, <3>1, <3>5
    <3> QED BY <3>6, <3>7 DEF More
  <2> QED BY <2>2, <2>3
<1>3. Above(leg, c, d) => AtMost(y, x) BY <1>1, <1>2, FractionsCompare
<1>4. ASSUME Level(leg, c, d) PROVE AtMost(y, x) BY <1>4, ShareFacts DEF Level, AtMost
<1> QED BY <1>2, <1>3, <1>4

\* A chunk that no leg ranks lower and some leg higher beats the other.
LEMMA AboveBeats ==
    ASSUME NEW lex \in Seq(Chunks), NEW vec \in Seq(Chunks), Distinct(lex), Distinct(vec),
           NEW c, NEW d,
           \E leg \in {lex, vec} : Above(leg, c, d),
           \A leg \in {lex, vec} : Above(leg, c, d) \/ Level(leg, c, d)
    PROVE  Beats(lex, vec, c, d)
<1> DEFINE a == Share(lex, c)
           b == Share(vec, c)
           x == Share(lex, d)
           y == Share(vec, d)
<1>1. a \in Fraction /\ b \in Fraction /\ x \in Fraction /\ y \in Fraction BY ShareFacts
<1>2. AtMost(x, a) /\ AtMost(y, b) BY AboveHasMore
<1>3. More(a, x) \/ More(b, y) BY AboveHasMore
<1>4. Fused(lex, vec, c) = Plus(a, b) /\ Fused(lex, vec, d) = Plus(x, y) BY DEF Fused
<1> HIDE DEF a, b, x, y
<1>5. More(Plus(a, b), Plus(x, y)) BY <1>1, <1>2, <1>3, SumsCompare
<1> QED BY <1>4, <1>5 DEF Beats, More

\* The fusion holds what the legs hold, each once, the better before the worse.
LEMMA FusionFacts ==
    ASSUME NEW lex \in Seq(Chunks), NEW vec \in Seq(Chunks), Distinct(lex), Distinct(vec)
    PROVE  LET s == Fusion(lex, vec)
           IN  /\ s \in Seq(Chunks) /\ Distinct(s) /\ Range(s) \subseteq Range(lex) \cup Range(vec)
               /\ Cardinality(Chunks) <= Candidates => Range(s) = Range(lex) \cup Range(vec)
               /\ \A i, j \in DOMAIN s : Beats(lex, vec, s[i], s[j]) => i < j
<1> DEFINE both == Range(lex) \cup Range(vec)
           before == {p \in both \X both : Beats(lex, vec, p[1], p[2])}
           o == SortedBy(both, before)
           s == Fusion(lex, vec)
<1>1. both \in SUBSET Chunks /\ Candidates \in Nat BY ElementsIn, RetrievalAssumption
<1>2. s = FirstOf(o, Candidates) BY DEF Fusion
<1>3. \A c, d \in both : Beats(lex, vec, c, d) => <<c, d>> \in before OBVIOUS
<1> HIDE DEF both, s
<1>4. StrictlyOrders(before, both) BY <1>1, BeatsOrders
<1> HIDE DEF before
<1>5. /\ IsFiniteSet(both) /\ Cardinality(both) \in Nat /\ Cardinality(both) <= Cardinality(Chunks)
      /\ Cardinality(Chunks) \in Nat
  BY <1>1, ChunksFinite
<1>6. /\ o \in Seq(both) /\ Len(o) = Cardinality(both) /\ Distinct(o) /\ Range(o) = both
      /\ \A i, j \in DOMAIN o : <<o[i], o[j]>> \in before => i < j
  BY <1>4, <1>5, SortedFacts
<1> HIDE DEF o
<1>7. /\ s \in Seq(both)
      /\ \A i \in DOMAIN s : i \in DOMAIN o /\ s[i] = o[i]
      /\ Len(o) <= Candidates => Range(s) = Range(o)
      /\ Range(s) \subseteq Range(o)
  BY <1>1, <1>2, <1>6, FirstFacts
<1>8. Distinct(s) BY <1>6, <1>7 DEF Distinct
<1>9. s \in Seq(Chunks) BY <1>1, <1>7, ElementsIn, LengthOf
<1>10. Cardinality(Chunks) <= Candidates => Range(s) = both BY <1>1, <1>5, <1>6, <1>7
<1>11. ASSUME NEW i \in DOMAIN s, NEW j \in DOMAIN s, Beats(lex, vec, s[i], s[j]) PROVE i < j
  <2>1. s[i] \in both /\ s[j] \in both BY <1>6, <1>7 DEF Range
  <2>2. <<s[i], s[j]>> \in before BY <1>3, <1>11, <2>1
  <2> QED BY <1>6, <1>7, <2>2
<1> QED BY <1>6, <1>7, <1>8, <1>9, <1>10, <1>11 DEF s, both

\* The reranker changes the order only.
LEMMA RerankedFacts ==
    ASSUME NEW s \in Seq(Chunks)
    PROVE  /\ Reranked(s) \in Seq(Chunks) /\ Range(Reranked(s)) = Range(s)
           /\ Len(Reranked(s)) = Cardinality(Range(s))
<1> DEFINE S == Range(s)
           before == {p \in S \X S :
                        \/ Reranking(p[1]) > Reranking(p[2])
                        \/ Reranking(p[1]) = Reranking(p[2]) /\ RankIn(s, p[1]) < RankIn(s, p[2])}
           o == SortedBy(S, before)
<1>1. S \in SUBSET Chunks BY ElementsIn
<1>2. Reranked(s) = o BY DEF Reranked
<1>3. \A c, d \in S : <<c, d>> \in before <=>
          \/ Reranking(c) > Reranking(d)
          \/ Reranking(c) = Reranking(d) /\ RankIn(s, c) < RankIn(s, d)
  OBVIOUS
<1>4. \A c \in S : RankIn(s, c) \in Nat /\ s[RankIn(s, c)] = c /\ Reranking(c) \in Int
  <2>1. \A c \in S : RankIn(s, c) \in Nat /\ s[RankIn(s, c)] = c BY ElementsIn, RankFacts
  <2>2. \A c \in S : Reranking(c) \in Int
    <3> TAKE c \in S
    <3> DEFINE x == CrossScore[c]
    <3>1. x \in Int BY <1>1, RetrievalAssumption
    <3>2. Reranking(c) = IF x = 0 THEN -1 ELSE x BY DEF Reranking
    <3> HIDE DEF x
    <3>3. -1 \in Int OBVIOUS
    <3> QED BY <3>1, <3>2, <3>3
  <2> QED BY <2>1, <2>2
<1> HIDE DEF before, S
<1>5. \A x, y \in S : RankIn(s, x) = RankIn(s, y) => x = y BY <1>4
<1>6. StrictlyOrders(before, S)
  <2>1. \A x \in S : <<x, x>> \notin before BY <1>3, <1>4
  <2>2. \A x, y, z \in S : <<x, y>> \in before /\ <<y, z>> \in before => <<x, z>> \in before
    BY <1>3, <1>4
  <2>3. ASSUME NEW x \in S, NEW y \in S
        PROVE  x = y \/ <<x, y>> \in before \/ <<y, x>> \in before
    <3> DEFINE a == Reranking(x)
               b == Reranking(y)
               m == RankIn(s, x)
               n == RankIn(s, y)
    <3>1. a \in Int /\ b \in Int /\ m \in Nat /\ n \in Nat BY <1>4
    <3>2. /\ <<x, y>> \in before <=> a > b \/ (a = b /\ m < n)
          /\ <<y, x>> \in before <=> b > a \/ (b = a /\ n < m)
      BY <1>3
    <3>3. m = n => x = y BY <1>5
    <3> HIDE DEF a, b, m, n
    <3> QED BY <3>1, <3>2, <3>3
  <2> QED BY <2>1, <2>2, <2>3 DEF StrictlyOrders
<1>7. IsFiniteSet(S) BY <1>1, ChunksFinite
<1>8. o \in Seq(S) /\ Len(o) = Cardinality(S) /\ Range(o) = S BY <1>6, <1>7, SortedFacts
<1> HIDE DEF o
<1>9. o \in Seq(Chunks) BY <1>1, <1>8, ElementsIn, LengthOf
<1> QED BY <1>2, <1>8, <1>9 DEF S

\* No more is found than there is.
LEMMA FoundLength ==
    ASSUME NEW s \in Seq(Chunks), Distinct(s)
    PROVE  Len(s) <= Cardinality(Chunks)
<1>1. s \in [1..Len(s) -> Chunks] /\ DOMAIN s = 1..Len(s) /\ Len(s) \in Nat BY ElementsIn
<1>2. s \in Injection(1..Len(s), Chunks) BY <1>1 DEF Distinct, Injection, IsInjective
<1>3. Cardinality(1..Len(s)) <= Cardinality(Chunks) BY <1>2, ChunksFinite, FS_Injection
<1>4. Cardinality(1..Len(s)) = Len(s)
  <2> DEFINE n == Len(s)
  <2>1. n \in Nat BY <1>1
  <2> HIDE DEF n
  <2>2. Cardinality(1..n) = IF 1 > n THEN 0 ELSE n - 1 + 1 BY <2>1, FS_Interval
  <2>3. Cardinality(1..n) = n BY <2>1, <2>2
  <2> QED BY <2>3 DEF n
<1> QED BY <1>3, <1>4

-----------------------------------------------------------------------------
(* The index, and what a search makes of it.                                *)

VectorRow == {r \in [row : {TRUE}, space : Embedders \cup {NoSpace}, model : Embedders \cup {NoSpace}] :
            r.model = r.space}

RetrievalTyped == /\ embedder \in [Processes -> Embedders \cup {NoSpace}]
                  /\ chunk \in [Chunks -> {NoChunk} \cup VectorRow]

RetrievalInv == RetrievalTyped /\ SearchTells

\* A stored vector names the embedder that made it.
LEMMA RowFacts ==
    ASSUME RetrievalTyped, NEW c \in Chunks
    PROVE  /\ chunk[c].row \in BOOLEAN
           /\ chunk[c].row => chunk[c] \in VectorRow
           /\ chunk[c].row => chunk[c].model = chunk[c].space
<1>1. chunk[c] = NoChunk \/ chunk[c] \in VectorRow BY DEF RetrievalTyped
<1>2. NoChunk.row = FALSE /\ \A r \in VectorRow : r.row = TRUE /\ r.model = r.space
  BY DEF VectorRow, NoChunk
<1> QED BY <1>1, <1>2

\* Where nothing was searched nothing is claimed of it.
LEMMA TypedTellsNothing ==
    ASSUME RetrievalTyped, Quiet
    PROVE  SearchTells
BY RowFacts DEF Quiet, OneSpace, SearchTells, FindsCurrent, FusionRanks

\* Nor by a step that searches nothing.
LEMMA TypedTellsNothingNext ==
    ASSUME RetrievalTyped', Quiet, found' = found
    PROVE  SearchTells'
<1>1. found' = NotSearched BY DEF Quiet
<1>2. \A c \in Chunks : chunk'[c].row => chunk'[c].model = chunk'[c].space
  <2> TAKE c \in Chunks
  <2>1. chunk'[c] = NoChunk \/ chunk'[c] \in VectorRow BY DEF RetrievalTyped
  <2>2. NoChunk.row = FALSE /\ \A r \in VectorRow : r.row = TRUE /\ r.model = r.space
    BY DEF VectorRow, NoChunk
  <2> QED BY <2>1, <2>2
<1>3. OneSpace' BY <1>1, <1>2 DEF OneSpace
<1> QED BY <1>1, <1>3 DEF SearchTells, FindsCurrent, FusionRanks

\* Embedding writes rows of its own embedder.
LEMMA EmbeddedTyped ==
    ASSUME NEW made \in [Chunks -> {NoChunk} \cup VectorRow], NEW cs \in SUBSET Chunks,
           \A c \in cs : made[c] \in VectorRow, NEW e \in Embedders
    PROVE  EmbedChunks(made, cs, e) \in [Chunks -> {NoChunk} \cup VectorRow]
BY DEF VectorRow, EmbedChunks

\* Indexing a version keeps the types.
LEMMA IndexKeepsType ==
    ASSUME RetrievalTyped, NEW p \in Processes, NEW v \in DOMAIN ChunksOf, NEW force \in BOOLEAN,
           IndexVersion(p, v, force)
    PROVE  RetrievalTyped'
<1> DEFINE its == Range(ChunksOf[v])
           present == {c \in its : chunk[c].row}
           bare == [c \in Chunks |-> IF c \in its THEN Bare ELSE chunk[c]]
           e == embedder[p]
<1>1. its \subseteq Chunks /\ e \in Embedders
  BY DEF Chunks, IndexVersion, RetrievalTyped, Embedders, NoSpace
<1>2. CASE present # {} /\ ~force
  <2>1. chunk' = EmbedChunks(chunk, Stale(present, e), e) BY <1>2 DEF IndexVersion
  <2>2. Stale(present, e) \subseteq Chunks /\ \A c \in Stale(present, e) : chunk[c] \in VectorRow
    BY <1>1, RowFacts DEF Stale
  <2>3. chunk \in [Chunks -> {NoChunk} \cup VectorRow] BY DEF RetrievalTyped
  <2>4. EmbedChunks(chunk, Stale(present, e), e) \in [Chunks -> {NoChunk} \cup VectorRow]
    <3> HIDE DEF present, e
    <3> QED BY <1>1, <2>2, <2>3, EmbeddedTyped
  <2> QED BY <2>1, <2>4 DEF RetrievalTyped, IndexVersion
<1>3. CASE ~(present # {} /\ ~force)
  <2>1. chunk' = EmbedChunks(bare, its, e) BY <1>3 DEF IndexVersion
  <2>2. bare \in [Chunks -> {NoChunk} \cup VectorRow] /\ \A c \in its : bare[c] \in VectorRow
    BY <1>1 DEF Bare, VectorRow, NoSpace, RetrievalTyped
  <2>3. EmbedChunks(bare, its, e) \in [Chunks -> {NoChunk} \cup VectorRow]
    <3> HIDE DEF bare, its, e
    <3> QED BY <1>1, <2>2, EmbeddedTyped
  <2> QED BY <2>1, <2>3 DEF RetrievalTyped, IndexVersion
<1> QED BY <1>2, <1>3

\* A reindex keeps the types.
LEMMA ReindexKeepsType ==
    ASSUME RetrievalTyped, NEW p \in Processes, ReindexEmbeddings(p)
    PROVE  RetrievalTyped'
<1> DEFINE e == embedder[p]
           Gets(c) == chunk[c].row /\ (chunk[c].space = NoSpace \/ chunk[c].model # e)
<1>1. e \in Embedders BY DEF ReindexEmbeddings, RetrievalTyped, Embedders, NoSpace
<1>2. chunk' = [c \in Chunks |-> IF Gets(c) THEN [chunk[c] EXCEPT !.space = e, !.model = e]
                                ELSE chunk[c]]
  BY DEF ReindexEmbeddings
<1>3. \A c \in Chunks : Gets(c) => chunk[c] \in VectorRow BY RowFacts
<1> HIDE DEF Gets, e
<1>4. \A c \in Chunks : Gets(c) => [chunk[c] EXCEPT !.space = e, !.model = e] \in VectorRow
  BY <1>1, <1>3 DEF VectorRow
<1>5. chunk' \in [Chunks -> {NoChunk} \cup VectorRow] BY <1>2, <1>4 DEF RetrievalTyped
<1> QED BY <1>5 DEF RetrievalTyped, ReindexEmbeddings

\* What a search finds it tells, in every mode and whatever the filter leaves.
LEMMA SearchKeeps ==
    ASSUME RetrievalInv, NEW p \in Processes, NEW mode \in {"hybrid", "lexical", "vector"},
           NEW matching \in SUBSET Chunks, NEW old \in BOOLEAN, NEW reranks \in BOOLEAN,
           Search(p, mode, matching, old, reranks)
    PROVE  RetrievalInv'
<1> DEFINE lex == IF mode = "vector" THEN << >> ELSE LexicalLeg(matching, old)
           vec == IF mode = "lexical" THEN << >> ELSE VectorLeg(embedder[p], old)
           both == Fusion(lex, vec)
           sorted == IF reranks THEN Reranked(both) ELSE both
           hits == FirstOf(sorted, Limit)
           matched == matching \cap Eligible(old)
           embedded == {c \in Eligible(old) : chunk[c].space # NoSpace /\ chunk[c].model = embedder[p]}
<1>1. /\ Quiet /\ embedder[p] # NoSpace
      /\ UNCHANGED <<embedder, current, chunk, claimSpace>>
      /\ found'.by = embedder[p] /\ found'.mode = mode /\ found'.lex = lex /\ found'.vec = vec
      /\ found'.old = old /\ found'.matching = matching /\ found'.reranks = reranks
      /\ found'.hits = hits
  BY DEF Search
<1>2. RetrievalTyped' BY <1>1 DEF RetrievalInv, RetrievalTyped
<1>3. matched \in SUBSET Chunks /\ embedded \in SUBSET Chunks /\ Eligible(old) \subseteq Chunks
  BY DEF Eligible
<1>4. << >> \in Seq(Chunks) /\ Distinct(<< >>) /\ Range(<< >>) = {} BY DEF Distinct, Range
<1>5. /\ lex \in Seq(Chunks) /\ Distinct(lex) /\ Range(lex) \subseteq matched
      /\ (mode # "vector" /\ Cardinality(Chunks) <= Candidates => Range(lex) = matched)
  <2>1. CASE mode = "vector" BY <1>4, <2>1
  <2>2. CASE mode # "vector"
    <3>1. lex = Ranked(LexicalOrder, matched) /\ OrdersChunks(LexicalOrder)
      BY <2>2, RetrievalAssumption DEF LexicalLeg
    <3> HIDE DEF lex, matched
    <3> QED BY <1>3, <3>1, LegFacts
  <2> QED BY <2>1, <2>2
<1>6. vec \in Seq(Chunks) /\ Distinct(vec) /\ Range(vec) \subseteq embedded
  <2>1. CASE mode = "lexical" BY <1>4, <2>1
  <2>2. CASE mode # "lexical"
    <3>1. vec = Ranked(VectorOrder, embedded) /\ OrdersChunks(VectorOrder)
      BY <2>2, RetrievalAssumption DEF VectorLeg
    <3> HIDE DEF vec, embedded
    <3> QED BY <1>3, <3>1, LegFacts
  <2> QED BY <2>1, <2>2
<1> HIDE DEF lex, vec
<1>7. /\ both \in Seq(Chunks) /\ Distinct(both) /\ Range(both) \subseteq Range(lex) \cup Range(vec)
      /\ Cardinality(Chunks) <= Candidates => Range(both) = Range(lex) \cup Range(vec)
      /\ \A i, j \in DOMAIN both : Beats(lex, vec, both[i], both[j]) => i < j
  BY <1>5, <1>6, FusionFacts
<1> HIDE DEF both
<1>8. /\ sorted \in Seq(Chunks) /\ Range(sorted) = Range(both)
      /\ Len(sorted) <= Cardinality(Chunks)
  <2>1. CASE reranks BY <1>7, <2>1, ElementsIn, RerankedFacts, ChunksFinite
  <2>2. CASE ~reranks BY <1>7, <2>2, FoundLength
  <2> QED BY <2>1, <2>2
<1>9. Limit \in Nat /\ Cardinality(Chunks) \in Nat /\ Len(sorted) \in Nat
  BY <1>8, ElementsIn, RetrievalAssumption, ChunksFinite
<1>10. /\ \A i \in DOMAIN hits : i \in DOMAIN sorted /\ hits[i] = sorted[i]
       /\ Len(sorted) <= Limit => Range(hits) = Range(sorted)
       /\ Range(hits) \subseteq Range(sorted)
  <2> HIDE DEF sorted
  <2> QED BY <1>8, <1>9, FirstFacts
<1>11. \A c \in Chunks : chunk[c].row => chunk[c].model = chunk[c].space
  BY RowFacts DEF RetrievalInv
<1>12. OneSpace' BY <1>1, <1>6, <1>11 DEF Eligible, OneSpace
<1>13. \A c \in Range(hits) : chunk[c].row /\ (old \/ VersionWith(c) = current)
  BY <1>5, <1>6, <1>7, <1>8, <1>10 DEF Eligible
<1>14. ASSUME mode # "vector", Cardinality(Chunks) <= Candidates, Cardinality(Chunks) <= Limit
       PROVE  matched \subseteq Range(hits)
  <2>1. Len(sorted) <= Limit
    <3> DEFINE a == Len(sorted)
               b == Cardinality(Chunks)
    <3>1. a \in Nat /\ b \in Nat /\ a <= b /\ b <= Limit /\ Limit \in Nat BY <1>8, <1>9, <1>14
    <3> HIDE DEF a, b
    <3>2. a <= Limit BY <3>1
    <3> QED BY <3>2 DEF a
  <2>2. Range(hits) = Range(both) BY <1>8, <1>10, <2>1
  <2> QED BY <1>5, <1>7, <1>14, <2>2
<1>15. FindsCurrent'
  <2>1. Eligible(old)' = Eligible(old) BY <1>1 DEF Eligible
  <2>2. (Eligible(found.old))' = Eligible(old) BY <1>1 DEF Eligible
  <2> HIDE DEF hits
  <2>3. \A c \in Range(found'.hits) : chunk'[c].row /\ (found'.old \/ VersionWith(c) = current')
    BY <1>1, <1>13
  <2>4. (found'.mode # "vector" /\ Cardinality(Chunks) <= Candidates /\ Cardinality(Chunks) <= Limit)
          => found'.matching \cap (Eligible(found.old))' \subseteq Range(found'.hits)
    BY <1>1, <1>14, <2>2
  <2> QED BY <2>3, <2>4 DEF FindsCurrent
<1>16. FusionRanks'
  <2>1. ASSUME ~reranks, NEW i \in DOMAIN hits, NEW j \in DOMAIN hits,
               \E leg \in {lex, vec} : Above(leg, hits[i], hits[j]),
               \A leg \in {lex, vec} : Above(leg, hits[i], hits[j]) \/ Level(leg, hits[i], hits[j])
        PROVE  i < j
    <3>1. sorted = both /\ i \in DOMAIN both /\ j \in DOMAIN both /\ hits[i] = both[i] /\ hits[j] = both[j]
      BY <1>10, <2>1
    <3>2. Beats(lex, vec, hits[i], hits[j])
      <4> DEFINE c == hits[i]
                 d == hits[j]
      <4>1. /\ \E leg \in {lex, vec} : Above(leg, c, d)
            /\ \A leg \in {lex, vec} : Above(leg, c, d) \/ Level(leg, c, d)
        BY <2>1
      <4> HIDE DEF c, d
      <4>2. Beats(lex, vec, c, d) BY <1>5, <1>6, <4>1, AboveBeats
      <4> QED BY <4>2 DEF c, d
    <3> QED BY <1>7, <3>1, <3>2
  <2> HIDE DEF hits
  <2> QED BY <1>1, <2>1 DEF FusionRanks
<1> QED BY <1>2, <1>12, <1>15, <1>16 DEF RetrievalInv, SearchTells

\* The invariant holds before anything is indexed.
LEMMA RetrievalInvInit == RetrievalInit => RetrievalInv
<1> SUFFICES ASSUME RetrievalInit PROVE RetrievalInv OBVIOUS
<1>1. RetrievalTyped /\ Quiet BY DEF RetrievalInit, RetrievalTyped, Quiet
<1> QED BY <1>1, TypedTellsNothing DEF RetrievalInv

\* The invariant is inductive: indexing, reindexing and searching.
LEMMA RetrievalInvStep == RetrievalInv /\ [RetrievalNext]_retrievalVars => RetrievalInv'
<1> SUFFICES ASSUME RetrievalInv, [RetrievalNext]_retrievalVars PROVE RetrievalInv' OBVIOUS
<1>1. RetrievalTyped BY DEF RetrievalInv
<1>2. ASSUME RetrievalTyped', Quiet, found' = found PROVE RetrievalInv'
  BY <1>2, TypedTellsNothingNext DEF RetrievalInv
<1>3. ASSUME NEW p \in Processes, LoadEmbedder(p) \/ Restart(p) PROVE RetrievalInv'
  BY <1>1, <1>2, <1>3 DEF LoadEmbedder, Restart, RetrievalTyped
<1>4. ASSUME NEW p \in Processes, ReindexEmbeddings(p) PROVE RetrievalInv'
  BY <1>1, <1>2, <1>4, ReindexKeepsType DEF ReindexEmbeddings
<1>5. ASSUME NEW p \in Processes, NEW v \in DOMAIN ChunksOf, ExtractVersion(p, v) PROVE RetrievalInv'
  BY <1>1, <1>2, <1>5 DEF ExtractVersion, RetrievalTyped
<1>6. ASSUME NEW p \in Processes, NEW v \in DOMAIN ChunksOf, NEW force \in BOOLEAN,
             IndexVersion(p, v, force)
      PROVE  RetrievalInv'
  BY <1>1, <1>2, <1>6, IndexKeepsType DEF IndexVersion
<1>7. ASSUME NEW p \in Processes, NEW mode \in {"hybrid", "lexical", "vector"},
             NEW matching \in SUBSET Chunks, NEW old \in BOOLEAN, NEW reranks \in BOOLEAN,
             Search(p, mode, matching, old, reranks)
      PROVE  RetrievalInv'
  BY <1>7, SearchKeeps
<1>8. CASE StoreVersion BY <1>1, <1>2, <1>8 DEF StoreVersion, RetrievalTyped
<1>9. CASE UNCHANGED retrievalVars
  BY <1>9 DEF retrievalVars, RetrievalInv, RetrievalTyped, SearchTells, OneSpace, FindsCurrent,
              FusionRanks, Eligible
<1> QED BY <1>3, <1>4, <1>5, <1>6, <1>7, <1>8, <1>9 DEF RetrievalNext

\* For any processes, versions, chunks and rankings, in any order of indexing and searches:
\* a search compares vectors of one space only, ranks what both legs find above what one
\* finds further down, and finds all that is current where there are candidates enough.
THEOREM RetrievalStands == RetrievalSpec => []SearchTells
<1>1. RetrievalInv => SearchTells BY DEF RetrievalInv
<1> QED BY <1>1, RetrievalInvInit, RetrievalInvStep, PTL DEF RetrievalSpec

-----------------------------------------------------------------------------
(* Verdicts.                                                                *)

\* What holds of the verdict of one sentence: it is a row, it is backed by its evidence,
\* it is unsupported where the sentence cites nothing, and what is labelled heuristic is
\* what the heuristic said of a sentence that the model has not judged.
GoodRow(r, s, ev, of, told) ==
    /\ r = [verdict |-> r.verdict, sup |-> r.sup, con |-> r.con, method |-> r.method]
    /\ r.verdict = Verdict(r.sup # {}, r.con # {})
    /\ s \notin of => r.verdict = "unsupported"
    /\ r.method = "heuristic" => r = Decide(ev[s]) /\ s \notin told

VerifyingInv ==
    /\ \A s \in SidesOfPair \ cites : evidence[s] = <<>>
    /\ rows = <<>> => answered = {}
    /\ rows # <<>> => rows = [s \in SidesOfPair |-> rows[s]]
    /\ \A s \in DOMAIN rows : GoodRow(rows[s], s, evidence, cites, answered)

\* No evidence neither supports nor contradicts.
LEMMA EmptyListsTellNothing == Supporting(<<>>) = {} /\ Contradicting(<<>>) = {}
BY DEF Supporting, Contradicting

\* Without sentences there are no verdicts.
LEMMA EmptyVerdicts == rows = [s \in SidesOfPair |-> rows[s]] /\ SidesOfPair = {} => rows = <<>>
<1> SUFFICES ASSUME rows = [s \in SidesOfPair |-> rows[s]], SidesOfPair = {} PROVE rows = <<>>
  OBVIOUS
<1>1. 0 \in Nat /\ 1..0 = {} OBVIOUS
<1>2. rows \in [1..0 -> {1}] BY <1>1
<1>3. rows \in Seq({1}) /\ Len(rows) = 0 BY <1>2, LengthOf
<1> QED BY <1>3, EmptySeq

\* decide's verdict is what its supporting and contradicting evidence say.
LEMMA DecideIsBacked ==
    ASSUME NEW list
    PROVE  LET r == Decide(list) IN
           /\ r = [verdict |-> r.verdict, sup |-> r.sup, con |-> r.con, method |-> r.method]
           /\ r.verdict = Verdict(r.sup # {}, r.con # {})
           /\ list = <<>> => r.verdict = "unsupported"
BY EmptyListsTellNothing DEF Decide, Verdict

\* An item of the model's answer that is taken brings its own evidence.
LEMMA AppliedIsBacked ==
    ASSUME NEW r, NEW s, NEW item \in Items, NEW told, GoodRow(r, s, evidence, cites, told),
           s \in SidesOfPair, \A t \in SidesOfPair \ cites : evidence[t] = <<>>
    PROVE  \/ Applied(r, evidence[s], item) = r
           \/ LET now == Applied(r, evidence[s], item) IN
              /\ now = [verdict |-> now.verdict, sup |-> now.sup, con |-> now.con,
                        method |-> "llm"]
              /\ now.verdict = Verdict(now.sup # {}, now.con # {})
              /\ s \notin cites => now.verdict = "unsupported"
<1> DEFINE list == evidence[s]
           sup == InRange(item.sup, list)
           con == InRange(item.con, list)
           backed == CASE item.verdict = "supported" -> sup # {}
                       [] item.verdict = "contradicted" -> con # {}
                       [] item.verdict = "disputed" -> sup # {} /\ con # {}
                       [] OTHER -> TRUE
           new == [verdict |-> item.verdict, method |-> "llm",
                   sup |-> IF item.verdict \in {"supported", "disputed"} THEN sup ELSE {},
                   con |-> IF item.verdict \in {"contradicted", "disputed"} THEN con ELSE {}]
<1>1. Applied(r, list, item) = IF ~backed THEN r ELSE new BY DEF Applied
<1>2. item.verdict \in {"supported", "contradicted", "disputed", "unsupported"} BY DEF Items
<1>3. s \notin cites => sup = {} /\ con = {} BY DEF InRange
<1> HIDE DEF sup, con
<1>4. CASE backed
  <2>1. Applied(r, list, item) = new BY <1>1, <1>4
  <2>2. new.verdict = Verdict(new.sup # {}, new.con # {}) BY <1>2, <1>4 DEF Verdict
  <2>3. s \notin cites => new.verdict = "unsupported" BY <1>2, <1>3, <1>4
  <2>4. new = [verdict |-> new.verdict, sup |-> new.sup, con |-> new.con, method |-> "llm"]
    OBVIOUS
  <2> HIDE DEF new, list
  <2> QED BY <2>1, <2>2, <2>3, <2>4 DEF list
<1>5. CASE ~backed BY <1>1, <1>5
<1> QED BY <1>4, <1>5

\* The rules decide each sentence from its own evidence.
LEMMA DecideAllKeeps == ASSUME VerifyingInv, DecideAll PROVE VerifyingInv'
<1>1. /\ rows = <<>> /\ rows' = [s \in SidesOfPair |-> Decide(evidence[s])]
      /\ evidence' = evidence /\ cites' = cites /\ answered' = answered
  BY DEF DecideAll
<1>2. answered = {} /\ \A s \in SidesOfPair \ cites : evidence[s] = <<>>
  BY <1>1 DEF VerifyingInv
<1>3. ASSUME NEW s \in SidesOfPair
      PROVE  GoodRow(rows'[s], s, evidence', cites', answered')
  <2>1. rows'[s] = Decide(evidence[s]) BY <1>1
  <2> DEFINE r == Decide(evidence[s])
  <2>2. /\ r = [verdict |-> r.verdict, sup |-> r.sup, con |-> r.con, method |-> r.method]
        /\ r.verdict = Verdict(r.sup # {}, r.con # {})
        /\ evidence[s] = <<>> => r.verdict = "unsupported"
    BY DecideIsBacked
  <2>3. s \notin cites => evidence[s] = <<>> BY <1>2
  <2> HIDE DEF r
  <2> QED BY <1>1, <1>2, <2>1, <2>2, <2>3 DEF GoodRow, r
<1>4. DOMAIN rows' = SidesOfPair /\ rows' = [s \in SidesOfPair |-> rows'[s]] BY <1>1
<1>5. rows' = <<>> => answered' = {} BY <1>1, <1>2
<1> HIDE DEF DecideAll
<1> QED BY <1>1, <1>2, <1>3, <1>4, <1>5 DEF VerifyingInv

\* A batch that fails leaves the verdicts of the rules.
LEMMA FailBatchKeeps == ASSUME VerifyingInv, FailBatch PROVE VerifyingInv'
<1>1. /\ rows # <<>>
      /\ rows' = [s \in SidesOfPair |-> IF s \in Range(targets)
                                THEN [rows[s] EXCEPT !.method = "fallback"] ELSE rows[s]]
      /\ evidence' = evidence /\ cites' = cites /\ answered' = answered
  BY DEF FailBatch
<1>2. /\ \A s \in SidesOfPair \ cites : evidence[s] = <<>>
      /\ DOMAIN rows = SidesOfPair /\ rows = [s \in SidesOfPair |-> rows[s]]
      /\ \A s \in DOMAIN rows : GoodRow(rows[s], s, evidence, cites, answered)
  BY <1>1 DEF VerifyingInv
<1>3. ASSUME NEW s \in SidesOfPair
      PROVE  GoodRow(rows'[s], s, evidence', cites', answered')
  <2>1. GoodRow(rows[s], s, evidence, cites, answered) BY <1>2
  <2>2. CASE s \in Range(targets)
    <3> DEFINE r == rows[s]
               v == r.verdict
               a == r.sup
               b == r.con
    <3>1. r = [verdict |-> v, sup |-> a, con |-> b, method |-> r.method] BY <2>1 DEF GoodRow
    <3>2. rows'[s] = [r EXCEPT !.method = "fallback"] BY <1>1, <2>2
    <3>3. v = Verdict(a # {}, b # {}) /\ (s \notin cites => v = "unsupported")
      BY <2>1 DEF GoodRow
    <3> HIDE DEF r, v, a, b
    <3>4. rows'[s] = [verdict |-> v, sup |-> a, con |-> b, method |-> "fallback"] BY <3>1, <3>2
    <3> QED BY <1>1, <3>3, <3>4 DEF GoodRow
  <2>3. CASE s \notin Range(targets) BY <1>1, <2>1, <2>3
  <2> QED BY <2>2, <2>3
<1>4. DOMAIN rows' = SidesOfPair /\ rows' = [s \in SidesOfPair |-> rows'[s]] BY <1>1
<1>5. rows' # <<>> BY <1>1, <1>2, <1>4, EmptyVerdicts
<1> QED BY <1>1, <1>2, <1>3, <1>4, <1>5 DEF VerifyingInv

\* A batch that the model judged changes only its own sentences, and with evidence it was shown.
LEMMA JudgeBatchKeeps ==
    ASSUME VerifyingInv, NEW item \in Items, JudgeBatch(item) PROVE VerifyingInv'
<1>1. rows # <<>> /\ evidence' = evidence /\ cites' = cites BY DEF JudgeBatch
<1>2. /\ \A s \in SidesOfPair \ cites : evidence[s] = <<>>
      /\ DOMAIN rows = SidesOfPair /\ rows = [s \in SidesOfPair |-> rows[s]]
      /\ \A s \in DOMAIN rows : GoodRow(rows[s], s, evidence, cites, answered)
  BY <1>1 DEF VerifyingInv
<1>3. CASE rows' = rows /\ answered' = answered BY <1>1, <1>2, <1>3 DEF VerifyingInv
<1>4. CASE ~(rows' = rows /\ answered' = answered)
  <2> DEFINE t == Batch[item.position]
             row == Applied(rows[t], evidence[t], item)
  <2>1. /\ rows' = [rows EXCEPT ![t] = row]
        /\ answered' = IF row = rows[t] THEN answered ELSE answered \cup {t}
    BY <1>4 DEF JudgeBatch
  <2>2. row # rows[t]
    <3> SUFFICES ASSUME row = rows[t] PROVE FALSE OBVIOUS
    <3> HIDE DEF row, t
    <3> QED BY <1>2, <1>4, <2>1
  <2>3. answered' = answered \cup {t} BY <2>1, <2>2
  <2>4. DOMAIN rows' = SidesOfPair /\ rows' = [s \in SidesOfPair |-> rows'[s]]
    <3> HIDE DEF t, row
    <3> QED BY <1>2, <2>1
  <2>5. rows' # <<>> BY <1>1, <1>2, <2>4, EmptyVerdicts
  <2>6. ASSUME NEW s \in SidesOfPair
        PROVE  GoodRow(rows'[s], s, evidence', cites', answered')
    <3>1. GoodRow(rows[s], s, evidence, cites, answered) BY <1>2
    <3>2. CASE s # t
      <4>1. rows'[s] = rows[s] BY <1>2, <2>1, <3>2
      <4>2. s \in answered' <=> s \in answered BY <2>3, <3>2
      <4> HIDE DEF t, row
      <4> QED BY <1>1, <3>1, <4>1, <4>2 DEF GoodRow
    <3>3. CASE s = t
      <4>1. rows'[s] = Applied(rows[s], evidence[s], item) BY <1>2, <2>1, <3>3
      <4> DEFINE now == Applied(rows[s], evidence[s], item)
      <4>2. now # rows[s] BY <2>2, <3>3
      <4>3. /\ now = [verdict |-> now.verdict, sup |-> now.sup, con |-> now.con,
                      method |-> "llm"]
            /\ now.verdict = Verdict(now.sup # {}, now.con # {})
            /\ s \notin cites => now.verdict = "unsupported"
        BY <1>2, <3>1, <4>2, AppliedIsBacked
      <4> HIDE DEF now, t, row
      <4>4. now.method = "llm" BY <4>3
      <4> QED BY <1>1, <4>1, <4>3, <4>4 DEF GoodRow, now
    <3> QED BY <3>2, <3>3
  <2> HIDE DEF t, row
  <2> QED BY <1>1, <1>2, <2>4, <2>5, <2>6 DEF VerifyingInv
<1> QED BY <1>3, <1>4

\* Asking and verifying agree, and support comes from what is cited.
LEMMA AskAgrees ==
    ASSUME NEW list
    PROVE  /\ CheckSentence(list, DOMAIN list) = Decide(list).verdict
           /\ \A cited \in SUBSET DOMAIN list :
                  cited # {} /\ CheckSentence(list, cited) \in {"supported", "disputed"} =>
                      cited \cap Supporting(list) # {}
<1>1. Supporting(list) \subseteq DOMAIN list BY DEF Supporting
<1>2. CheckSentence(list, DOMAIN list) = Verdict(Supporting(list) # {}, Contradicting(list) # {})
  BY <1>1 DEF CheckSentence
<1>3. Decide(list).verdict = Verdict(Supporting(list) # {}, Contradicting(list) # {})
  BY DEF Decide
<1>4. ASSUME NEW cited \in SUBSET DOMAIN list, cited # {},
             CheckSentence(list, cited) \in {"supported", "disputed"}
      PROVE  cited \cap Supporting(list) # {}
  BY <1>4 DEF CheckSentence, Verdict
<1> QED BY <1>2, <1>3, <1>4

\* Rows that are backed tell.
LEMMA VerifyingInvTells == ASSUME VerifyingInv PROVE VerdictsTell
<1>1. \A s \in DOMAIN rows : GoodRow(rows[s], s, evidence, cites, answered) BY DEF VerifyingInv
<1>2. VerdictIsBacked BY <1>1 DEF VerdictIsBacked, GoodRow
<1>3. CitelessStaysUnsupported BY <1>1 DEF CitelessStaysUnsupported, GoodRow
<1>4. LabelTells BY <1>1 DEF LabelTells, GoodRow
<1>5. AskAgreesWithVerify BY AskAgrees DEF AskAgreesWithVerify
<1> QED BY <1>2, <1>3, <1>4, <1>5 DEF VerdictsTell


\* For any sentences, evidence, batches and answers of a model: a verdict is what the
\* evidence it names says, and a model's word never changes a sentence it was not asked about.
THEOREM VerifyingStands == VerifyingSpec => []VerdictsTell
<1>1. VerifyingInit => VerifyingInv BY DEF VerifyingInit, VerifyingInv
<1>2. VerifyingInv /\ [VerifyingNext]_verifyingVars => VerifyingInv'
  <2>1. ASSUME VerifyingInv, UNCHANGED verifyingVars PROVE VerifyingInv'
    BY <2>1 DEF VerifyingInv, verifyingVars
  <2> QED BY <2>1, DecideAllKeeps, FailBatchKeeps, JudgeBatchKeeps DEF VerifyingNext
<1> QED BY <1>1, <1>2, VerifyingInvTells, PTL DEF VerifyingSpec

-----------------------------------------------------------------------------
(* Streamed answers.                                                        *)

\* Finitely many spans, no two of which start at one place.
StartApart(S) ==
    /\ IsFiniteSet(S)
    /\ \A p \in S : p[1] \in Nat
    /\ \A p, q \in S : p[1] = q[1] => p = q

\* Spans in order are each of them once, the earlier before the later.
LEMMA InOrderOfText ==
    ASSUME NEW S, StartApart(S)
    PROVE  LET s == InTextOrder(S)
           IN  /\ Cardinality(S) \in Nat /\ s \in Seq(S) /\ Len(s) = Cardinality(S)
               /\ \A n \in 1..Cardinality(S) : /\ s[n] \in S
                                               /\ Cardinality({q \in S : q[1] < s[n][1]}) = n - 1
               /\ \A p \in S : \E n \in 1..Cardinality(S) : s[n] = p
               /\ \A i, j \in 1..Cardinality(S) : i < j <=> s[i][1] < s[j][1]
               /\ \A p \in S : \A n \in 1..Cardinality(S) :
                    Cardinality({q \in S : q[1] < p[1]}) = n - 1 => s[n] = p
<1> DEFINE s == InTextOrder(S)
           before == {r \in S \X S : r[1][1] < r[2][1]}
           N == Cardinality(S)
<1>1. StrictlyOrders(before, S) BY DEF StartApart, StrictlyOrders
<1>2. \A p \in S : Below(before, S, p) = {q \in S : q[1] < p[1]} BY DEF Below
<1> HIDE DEF before
<1>3. IsFiniteSet(S) BY DEF StartApart
<1>4. /\ N \in Nat
      /\ \A x \in S : Cardinality(Below(before, S, x)) \in 0..(N - 1)
      /\ \A x, y \in S : <<x, y>> \in before <=> Cardinality(Below(before, S, x)) < Cardinality(Below(before, S, y))
      /\ \A x, y \in S : Cardinality(Below(before, S, x)) = Cardinality(Below(before, S, y)) => x = y
      /\ \A n \in 1..N : \E x \in S : Cardinality(Below(before, S, x)) = n - 1
  BY <1>1, <1>3, Ranks
<1> DEFINE rank(p) == Cardinality({q \in S : q[1] < p[1]})
<1>5. /\ \A p \in S : rank(p) \in 0..(N - 1)
      /\ \A p, q \in S : p[1] < q[1] <=> rank(p) < rank(q)
      /\ \A p, q \in S : rank(p) = rank(q) => p = q
      /\ \A n \in 1..N : \E p \in S : rank(p) = n - 1
  <2>1. \A p \in S : rank(p) = Cardinality(Below(before, S, p)) BY <1>2
  <2>2. \A p, q \in S : <<p, q>> \in before <=> p[1] < q[1] BY DEF before
  <2> HIDE DEF rank, N
  <2>3. \A p \in S : rank(p) \in 0..(N - 1) BY <2>1, <1>4
  <2>4. \A p, q \in S : p[1] < q[1] <=> rank(p) < rank(q) BY <1>4, <2>1, <2>2
  <2>5. \A p, q \in S : rank(p) = rank(q) => p = q BY <2>1, <1>4
  <2>6. \A n \in 1..N : \E p \in S : rank(p) = n - 1 BY <2>1, <1>4
  <2> QED BY <2>3, <2>4, <2>5, <2>6
<1>6. s = [n \in 1..N |-> CHOOSE p \in S : rank(p) = n - 1] BY DEF InTextOrder
<1> HIDE DEF rank, N, s
<1>7. \A n \in 1..N : s[n] \in S /\ rank(s[n]) = n - 1 BY <1>5, <1>6
<1>8. s \in Seq(S) /\ Len(s) = N BY <1>4, <1>6, <1>7, LengthOf
<1>9. \A p \in S : \A n \in 1..N : rank(p) = n - 1 => s[n] = p BY <1>5, <1>7
<1>10. \A p \in S : \E n \in 1..N : s[n] = p
  <2> SUFFICES ASSUME NEW p \in S PROVE \E n \in 1..N : s[n] = p OBVIOUS
  <2>1. rank(p) + 1 \in 1..N /\ rank(p) = (rank(p) + 1) - 1 BY <1>4, <1>5
  <2> QED BY <2>1, <1>9
<1>11. \A i, j \in 1..N : i < j <=> s[i][1] < s[j][1]
  <2> SUFFICES ASSUME NEW i \in 1..N, NEW j \in 1..N PROVE i < j <=> s[i][1] < s[j][1] OBVIOUS
  <2>1. s[i] \in S /\ s[j] \in S /\ rank(s[i]) = i - 1 /\ rank(s[j]) = j - 1 BY <1>7
  <2>2. s[i][1] < s[j][1] <=> rank(s[i]) < rank(s[j]) BY <2>1, <1>5
  <2>3. i \in Int /\ j \in Int BY <1>4
  <2> QED BY <2>1, <2>2, <2>3
<1> QED BY <1>4, <1>7, <1>8, <1>9, <1>10, <1>11 DEF rank, N, s

\* A part of such spans is such spans.
LEMMA PartsApart ==
    ASSUME NEW S, StartApart(S), NEW A \in SUBSET S
    PROVE  StartApart(A)
BY FS_Subset DEF StartApart

\* Those that come after others come after them in order.
LEMMA InOrderJoined ==
    ASSUME NEW A, NEW B, StartApart(A \cup B), \A p \in A : \A q \in B : p[1] < q[1]
    PROVE  /\ InTextOrder(A \cup B) = InTextOrder(A) \o InTextOrder(B)
           /\ Cardinality(A \cup B) = Cardinality(A) + Cardinality(B)
<1> DEFINE S == A \cup B
           a == InTextOrder(A)
           b == InTextOrder(B)
           s == InTextOrder(S)
<1>1. StartApart(A) /\ StartApart(B) BY PartsApart
<1>2. A \cap B = {} BY <1>1 DEF StartApart
<1>3. Cardinality(S) = Cardinality(A) + Cardinality(B)
  <2>1. IsFiniteSet(A) /\ IsFiniteSet(B) BY <1>1 DEF StartApart
  <2>2. Cardinality(A \cup B) = Cardinality(A) + Cardinality(B) - Cardinality(A \cap B)
    BY <2>1, FS_Union
  <2>3. Cardinality(A \cap B) = 0 BY <1>2, FS_EmptySet
  <2>4. Cardinality(A) \in Nat /\ Cardinality(B) \in Nat BY <2>1, FS_CardinalityType
  <2> QED BY <2>2, <2>3, <2>4
<1>4. /\ Cardinality(A) \in Nat /\ a \in Seq(A) /\ Len(a) = Cardinality(A)
      /\ \A n \in 1..Cardinality(A) : /\ a[n] \in A
                                      /\ Cardinality({q \in A : q[1] < a[n][1]}) = n - 1
  BY <1>1, InOrderOfText
<1>5. /\ Cardinality(B) \in Nat /\ b \in Seq(B) /\ Len(b) = Cardinality(B)
      /\ \A n \in 1..Cardinality(B) : /\ b[n] \in B
                                      /\ Cardinality({q \in B : q[1] < b[n][1]}) = n - 1
  BY <1>1, InOrderOfText
<1>6. /\ Cardinality(S) \in Nat /\ s \in Seq(S) /\ Len(s) = Cardinality(S)
      /\ \A p \in S : \A n \in 1..Cardinality(S) :
            Cardinality({q \in S : q[1] < p[1]}) = n - 1 => s[n] = p
  BY InOrderOfText
<1>7. /\ \A p \in S : p[1] \in Nat
      /\ IsFiniteSet(A) /\ IsFiniteSet(B)
  BY <1>1 DEF StartApart
<1> HIDE DEF a, b, s
<1>8. \A n \in 1..Cardinality(A) : s[n] = a[n]
  <2> SUFFICES ASSUME NEW n \in 1..Cardinality(A) PROVE s[n] = a[n] OBVIOUS
  <2>1. a[n] \in A /\ Cardinality({q \in A : q[1] < a[n][1]}) = n - 1 BY <1>4
  <2>2. {q \in S : q[1] < a[n][1]} = {q \in A : q[1] < a[n][1]} BY <1>7, <2>1
  <2>3. n \in 1..Cardinality(S) BY <1>3, <1>4, <1>5
  <2>4. a[n] \in S /\ Cardinality({q \in S : q[1] < a[n][1]}) = n - 1 BY <2>1, <2>2
  <2> QED BY <2>3, <2>4, <1>6
<1>9. \A n \in 1..Cardinality(B) : s[Cardinality(A) + n] = b[n]
  <2> SUFFICES ASSUME NEW n \in 1..Cardinality(B) PROVE s[Cardinality(A) + n] = b[n] OBVIOUS
  <2> DEFINE early == {q \in B : q[1] < b[n][1]}
  <2>1. b[n] \in B /\ Cardinality(early) = n - 1 BY <1>5
  <2>2. {q \in S : q[1] < b[n][1]} = A \cup early BY <2>1
  <2>3. Cardinality(A \cup early) = Cardinality(A) + (n - 1)
    <3>1. IsFiniteSet(early) /\ A \cap early = {} BY <1>2, <1>7, FS_Subset
    <3>2. Cardinality(A \cup early) = Cardinality(A) + Cardinality(early) - Cardinality(A \cap early)
      BY <3>1, <1>7, FS_Union
    <3>3. Cardinality(A \cap early) = 0 BY <3>1, FS_EmptySet
    <3> HIDE DEF early
    <3> QED BY <3>2, <3>3, <2>1, <1>4
  <2>4. Cardinality(A) + n \in 1..Cardinality(S) /\ Cardinality(A) + (n - 1) = (Cardinality(A) + n) - 1
    BY <1>3, <1>4, <1>5
  <2>5. b[n] \in S /\ Cardinality({q \in S : q[1] < b[n][1]}) = (Cardinality(A) + n) - 1
    BY <2>1, <2>2, <2>3, <2>4
  <2> QED BY <2>4, <2>5, <1>6
<1>10. s = a \o b
  <2>1. a \in Seq(S) /\ b \in Seq(S) BY <1>4, <1>5
  <2>2. a \o b \in Seq(S) /\ Len(a \o b) = Len(a) + Len(b)
        /\ \A i \in 1..(Len(a) + Len(b)) : (a \o b)[i] = IF i <= Len(a) THEN a[i] ELSE b[i - Len(a)]
    BY <2>1, ConcatProperties
  <2>3. \A i \in 1..Len(s) : s[i] = (a \o b)[i]
    <3> SUFFICES ASSUME NEW i \in 1..Len(s) PROVE s[i] = (a \o b)[i] OBVIOUS
    <3>1. i \in 1..(Len(a) + Len(b)) /\ i \in Nat BY <1>3, <1>4, <1>5, <1>6
    <3>2. CASE i <= Len(a) BY <1>4, <1>8, <2>2, <3>1, <3>2
    <3>3. CASE ~(i <= Len(a)) BY <1>4, <1>5, <1>9, <2>2, <3>1, <3>3
    <3> QED BY <3>2, <3>3
  <2>4. Len(s) = Len(a \o b) BY <2>2, <1>3, <1>4, <1>5, <1>6
  <2> QED BY <2>2, <2>3, <2>4, <1>6, SeqEqual
<1> QED BY <1>3, <1>10 DEF a, b, s

\* All but the last span, where there is one.
LEMMA CompleteIsAllButLast ==
    ASSUME NEW S, StartApart(S), S # {}
    PROVE  \E last \in S : /\ \A p \in S \ {last} : p[1] < last[1]
                           /\ Complete(InTextOrder(S)) = InTextOrder(S \ {last})
                           /\ Cardinality(S) = Cardinality(S \ {last}) + 1
<1> DEFINE s == InTextOrder(S)
           N == Cardinality(S)
<1>1. /\ N \in Nat /\ s \in Seq(S) /\ Len(s) = N
      /\ \A n \in 1..N : s[n] \in S
      /\ \A p \in S : \E n \in 1..N : s[n] = p
      /\ \A i, j \in 1..N : i < j <=> s[i][1] < s[j][1]
  BY InOrderOfText
<1>2. N >= 1
  <2>1. PICK p \in S : TRUE OBVIOUS
  <2> QED BY <2>1, <1>1
<1> DEFINE last == s[N]
           A == S \ {last}
<1>3. last \in S BY <1>1, <1>2
<1>4. \A p \in A : p[1] < last[1]
  <2> SUFFICES ASSUME NEW p \in A PROVE p[1] < last[1] OBVIOUS
  <2> HIDE DEF s, N
  <2>1. PICK n \in 1..N : s[n] = p BY <1>1
  <2>2. n # N /\ N \in 1..N /\ n < N BY <2>1, <1>1, <1>2
  <2> QED BY <2>1, <2>2, <1>1
<1>5. InTextOrder(A \cup {last}) = InTextOrder(A) \o InTextOrder({last})
      /\ Cardinality(A \cup {last}) = Cardinality(A) + Cardinality({last})
  <2>1. A \cup {last} = S BY <1>3
  <2> DEFINE B == {last}
  <2>2. \A p \in A : \A q \in B : p[1] < q[1] BY <1>4
  <2>3. StartApart(A \cup B) BY <2>1
  <2> HIDE DEF A, B
  <2>4. InTextOrder(A \cup B) = InTextOrder(A) \o InTextOrder(B) /\ Cardinality(A \cup B) = Cardinality(A) + Cardinality(B)
    BY <2>2, <2>3, InOrderJoined
  <2> QED BY <2>4 DEF B
<1>6. A \cup {last} = S BY <1>3
<1>7. StartApart({last}) /\ StartApart(A) BY <1>3, PartsApart
<1>8. Cardinality({last}) = 1 BY FS_Singleton
<1>9. InTextOrder({last}) \in Seq({last}) /\ Len(InTextOrder({last})) = 1
  <2> DEFINE B == {last}
  <2>1. StartApart(B) /\ Cardinality(B) = 1 BY <1>7, <1>8
  <2> HIDE DEF B
  <2>2. InTextOrder(B) \in Seq(B) /\ Len(InTextOrder(B)) = Cardinality(B) BY <2>1, InOrderOfText
  <2> QED BY <2>1, <2>2 DEF B
<1>10. InTextOrder(A) \in Seq(A) /\ Len(InTextOrder(A)) = Cardinality(A) /\ Cardinality(A) \in Nat
  <2> HIDE DEF A
  <2> QED BY <1>7, InOrderOfText
<1> DEFINE a == InTextOrder(A)
           b == InTextOrder({last})
<1>11. s = a \o b BY <1>5, <1>6
<1>12. Front(s) = a
  <2> HIDE DEF s, last, A, a, b, N
  <2>1. a \in Seq(S) /\ b \in Seq(S) /\ Len(b) = 1 BY <1>3, <1>9, <1>10 DEF A, a, b
  <2>2. Len(s) = Len(a) + 1 /\ \A i \in 1..Len(a) : s[i] = a[i]
    <3>1. /\ Len(a \o b) = Len(a) + Len(b)
          /\ \A i \in 1..(Len(a) + Len(b)) : (a \o b)[i] = IF i <= Len(a) THEN a[i] ELSE b[i - Len(a)]
      BY <2>1, ConcatProperties
    <3>2. Len(a) \in Nat BY <2>1, LenProperties
    <3> QED BY <2>1, <3>1, <3>2, <1>11
  <2>3. Len(a) \in Nat /\ \A i \in 1..Len(a) : s[i] \in S
    BY <2>1, <2>2, LenProperties, ElementOfSeq
  <2>4. SubSeq(s, 1, Len(a)) \in Seq(S) /\ Len(SubSeq(s, 1, Len(a))) = Len(a)
        /\ \A i \in 1..Len(a) : SubSeq(s, 1, Len(a))[i] = s[i]
    <3>1. /\ SubSeq(s, 1, Len(a)) \in Seq(S)
          /\ Len(SubSeq(s, 1, Len(a))) = IF 1 <= Len(a) THEN Len(a) - 1 + 1 ELSE 0
          /\ \A i \in 1..(Len(a) - 1 + 1) : SubSeq(s, 1, Len(a))[i] = s[1 + i - 1]
      BY <2>3, SubSeqProperties, 1 \in Int, Len(a) \in Int
    <3> QED BY <3>1, <2>3
  <2>5. SubSeq(s, 1, Len(a)) = a BY <2>1, <2>2, <2>4, SeqEqual
  <2>6. Len(s) - 1 = Len(a) BY <2>2, <2>3
  <2> QED BY <2>5, <2>6 DEF Front
<1>13. s # << >> BY <1>1, <1>2
<1>14. Complete(s) = a BY <1>12, <1>13 DEF Complete
<1>15. Cardinality(S) = Cardinality(A) + 1 BY <1>5, <1>6, <1>8
<1> QED BY <1>3, <1>4, <1>14, <1>15

-----------------------------------------------------------------------------
(* Texts that agree up to a mark.                                           *)

\* Up to a mark that two texts share, they are cut at the same places.
LEMMA CutsAgree ==
    ASSUME NEW t \in Seq(AnswerTokens), NEW u \in Seq(AnswerTokens), NEW k \in 1..Len(t), k <= Len(u),
           \A i \in 1..k : u[i] = t[i], ~Blank(t, k)
    PROVE  \A i \in 1..(k - 1) : i \in Cuts(t) <=> i \in Cuts(u)
<1> SUFFICES ASSUME NEW i \in 1..(k - 1) PROVE i \in Cuts(t) <=> i \in Cuts(u) OBVIOUS
<1>1. Len(t) \in Nat /\ Len(u) \in Nat /\ k \in Nat /\ i \in Nat /\ i + 1 \in 1..k /\ i \in 1..k
  BY LenProperties
<1>2. i \in 1..Len(t) /\ i \in 1..Len(u) /\ i < Len(t) /\ i < Len(u) BY <1>1
<1>3. t[i] = u[i] /\ t[i + 1] = u[i + 1] /\ \A j \in 1..k : Blank(t, j) <=> Blank(u, j)
  BY <1>1 DEF Blank
<1>4. \A j \in NextMark(t, i) : j <= k
  <2> SUFFICES ASSUME NEW j \in NextMark(t, i), k < j PROVE FALSE BY <1>1 DEF NextMark
  <2>1. k \in (i + 1)..(j - 1) BY <1>1 DEF NextMark
  <2> QED BY <2>1 DEF NextMark
<1>5. \A j \in NextMark(u, i) : j <= k
  <2> SUFFICES ASSUME NEW j \in NextMark(u, i), k < j PROVE FALSE BY <1>1 DEF NextMark
  <2>1. k \in (i + 1)..(j - 1) BY <1>1 DEF NextMark
  <2>2. Blank(u, k) BY <2>1 DEF NextMark
  <2> QED BY <2>2, <1>3
<1>6. \A j \in (i + 1)..k : (\A l \in (i + 1)..(j - 1) : Blank(t, l)) <=> (\A l \in (i + 1)..(j - 1) : Blank(u, l))
  <2> SUFFICES ASSUME NEW j \in (i + 1)..k, NEW l \in (i + 1)..(j - 1) PROVE Blank(t, l) <=> Blank(u, l)
    OBVIOUS
  <2>1. l \in 1..k BY <1>1
  <2> QED BY <2>1, <1>3
<1>7. \A j \in (i + 1)..k : j \in NextMark(t, i) <=> j \in NextMark(u, i)
  <2> SUFFICES ASSUME NEW j \in (i + 1)..k PROVE j \in NextMark(t, i) <=> j \in NextMark(u, i)
    OBVIOUS
  <2>1. j \in (i + 1)..Len(t) /\ j \in (i + 1)..Len(u) /\ j \in 1..k BY <1>1
  <2> QED BY <2>1, <1>3, <1>6 DEF NextMark
<1>8. NextMark(t, i) = NextMark(u, i) /\ \A j \in NextMark(t, i) : t[j] = u[j]
  <2>1. NextMark(t, i) \subseteq (i + 1)..k /\ NextMark(u, i) \subseteq (i + 1)..k
    BY <1>1, <1>4, <1>5 DEF NextMark
  <2>2. \A j \in (i + 1)..k : j \in 1..k BY <1>1
  <2> QED BY <2>1, <2>2, <1>7
<1>9. Closes(t, i) <=> Closes(u, i) BY <1>1, <1>2, <1>3, <1>8 DEF Closes
<1> QED BY <1>2, <1>3, <1>9 DEF Cuts

\* No two spans of a text start at one place.
LEMMA SpansApart ==
    ASSUME NEW t \in Seq(AnswerTokens)
    PROVE  StartApart(SpansIn(t))
<1>1. Len(t) \in Nat BY LenProperties
<1>2. IsFiniteSet(SpansIn(t))
  <2>1. IsFiniteSet(1..Len(t)) BY <1>1, FS_Interval
  <2>2. IsFiniteSet((1..Len(t)) \X (1..Len(t))) BY <2>1, FS_Product
  <2>3. SpansIn(t) \subseteq (1..Len(t)) \X (1..Len(t)) BY DEF SpansIn
  <2> QED BY <2>2, <2>3, FS_Subset
<1>3. \A p \in SpansIn(t) : p[1] \in Nat BY <1>1 DEF SpansIn
<1>4. ASSUME NEW p \in SpansIn(t), NEW q \in SpansIn(t), p[1] = q[1], p[2] < q[2]
      PROVE  FALSE
  <2>1. /\ p[2] \in Nat /\ q[2] \in Nat /\ q[2] <= Len(t) /\ p[1] \in Nat /\ p[1] <= p[2]
        /\ ~Blank(t, q[2]) /\ EndsAt(t, p[2])
        /\ \A i \in q[1]..(q[2] - 1) : i \notin Cuts(t)
    BY <1>1 DEF SpansIn
  <2>2. PICK b \in Cuts(t) \cup {Len(t)} : p[2] <= b /\ \A i \in (p[2] + 1)..b : Blank(t, i)
    BY <2>1 DEF EndsAt
  <2>3. b \in Nat BY <1>1 DEF Cuts
  <2>4. ~(q[2] <= b)
    <3> SUFFICES ASSUME q[2] <= b PROVE FALSE OBVIOUS
    <3>1. q[2] \in (p[2] + 1)..b BY <1>4, <2>1, <2>3
    <3> QED BY <3>1, <2>1, <2>2
  <2>5. b \in Cuts(t) /\ b \in q[1]..(q[2] - 1) BY <1>1, <1>4, <2>1, <2>2, <2>3, <2>4
  <2> QED BY <2>1, <2>5
<1>5. ASSUME NEW p \in SpansIn(t), NEW q \in SpansIn(t), p[1] = q[1]
      PROVE  p = q
  <2>1. p[2] = q[2] BY <1>1, <1>4, <1>5 DEF SpansIn
  <2>2. p = <<p[1], p[2]>> /\ q = <<q[1], q[2]>> BY DEF SpansIn
  <2> QED BY <2>1, <2>2, <1>5
<1> QED BY <1>2, <1>3, <1>5 DEF StartApart

\* A span ends before the place where a later one starts.
LEMMA EndsBeforeTheNext ==
    ASSUME NEW t \in Seq(AnswerTokens), NEW p \in SpansIn(t), NEW m \in 1..Len(t),
           ~Blank(t, m), StartsAt(t, m), p[1] < m
    PROVE  \E a \in Cuts(t) : p[2] <= a /\ a < m /\ \A i \in (a + 1)..(m - 1) : Blank(t, i)
<1>1. Len(t) \in Nat /\ m \in Nat BY LenProperties
<1>2. /\ p[1] \in Nat /\ p[1] >= 1 /\ p[2] \in Nat /\ ~Blank(t, p[1])
      /\ \A i \in p[1]..(p[2] - 1) : i \notin Cuts(t)
  BY <1>1 DEF SpansIn
<1>3. PICK a \in Cuts(t) \cup {0} : a < m /\ \A i \in (a + 1)..(m - 1) : Blank(t, i)
  BY DEF StartsAt
<1>4. a \in Nat BY <1>1 DEF Cuts
<1>5. p[1] <= a
  <2> SUFFICES ASSUME a < p[1] PROVE FALSE BY <1>2, <1>4
  <2>1. p[1] \in (a + 1)..(m - 1) BY <1>1, <1>2, <1>4
  <2> QED BY <2>1, <1>2, <1>3
<1>6. a \in Cuts(t) BY <1>2, <1>3, <1>4, <1>5
<1>7. p[2] <= a
  <2> SUFFICES ASSUME a < p[2] PROVE FALSE BY <1>2, <1>4
  <2>1. a \in p[1]..(p[2] - 1) BY <1>2, <1>4, <1>5
  <2> QED BY <2>1, <1>2, <1>6
<1> QED BY <1>3, <1>6, <1>7

\* Where a span may start, one does.
LEMMA SpanStarting ==
    ASSUME NEW t \in Seq(AnswerTokens), NEW m \in 1..Len(t), ~Blank(t, m), StartsAt(t, m)
    PROVE  \E p \in SpansIn(t) : p[1] = m
<1>1. Len(t) \in Nat /\ m \in Nat BY LenProperties
<1> DEFINE bounds == {b \in Cuts(t) \cup {Len(t)} : m <= b}
           b == Min(bounds)
<1>2. bounds \in SUBSET Nat /\ bounds # {} BY <1>1 DEF Cuts
<1>3. b \in bounds /\ \A i \in bounds : b <= i
  <2> HIDE DEF bounds
  <2> QED BY <1>2, EarliestOf
<1>4. b \in Cuts(t) \cup {Len(t)} /\ m <= b /\ b \in Nat /\ b <= Len(t)
  BY <1>1, <1>2, <1>3 DEF Cuts
<1> DEFINE back == {d \in 0..(b - m) : ~Blank(t, b - d)}
           d == Min(back)
<1> HIDE DEF b
<1>5. back \in SUBSET Nat /\ back # {}
  <2>1. b - m \in 0..(b - m) /\ b - (b - m) = m BY <1>1, <1>4
  <2>2. b - m \in back BY <2>1
  <2> QED BY <2>2, <1>1, <1>4
<1>6. d \in back /\ \A i \in back : d <= i
  <2> HIDE DEF back
  <2> QED BY <1>5, EarliestOf
<1> DEFINE n == b - d
<1>7. d \in 0..(b - m) /\ ~Blank(t, n) BY <1>6
<1> HIDE DEF d
<1>8. n \in Nat /\ m <= n /\ n <= b /\ n \in 1..Len(t) BY <1>1, <1>4, <1>7
<1>9. \A i \in (n + 1)..b : Blank(t, i)
  <2> SUFFICES ASSUME NEW i \in (n + 1)..b, ~Blank(t, i) PROVE FALSE OBVIOUS
  <2>1. b - i \in 0..(b - m) /\ b - (b - i) = i /\ b - i < d BY <1>1, <1>4, <1>7, <1>8
  <2>2. b - i \in back BY <2>1
  <2>3. d <= b - i BY <2>2, <1>6
  <2> QED BY <2>1, <2>3, <1>1, <1>4, <1>7
<1> HIDE DEF n
<1>10. EndsAt(t, n) BY <1>4, <1>8, <1>9 DEF EndsAt
<1>11. \A i \in m..(n - 1) : i \notin Cuts(t)
  <2> SUFFICES ASSUME NEW i \in m..(n - 1), i \in Cuts(t) PROVE FALSE OBVIOUS
  <2>1. i \in bounds BY <1>1
  <2>2. b <= i BY <2>1, <1>3 DEF b
  <2> QED BY <2>2, <1>1, <1>4, <1>8
<1>12. <<m, n>> \in SpansIn(t) BY <1>7, <1>8, <1>10, <1>11 DEF SpansIn, n
<1>13. <<m, n>>[1] = m OBVIOUS
<1> QED BY <1>12, <1>13

\* Up to a mark where a span starts, texts that agree have the same spans.
LEMMA SpansAgree ==
    ASSUME NEW t \in Seq(AnswerTokens), NEW u \in Seq(AnswerTokens), NEW k \in 1..Len(t), k <= Len(u),
           \A i \in 1..k : u[i] = t[i], ~Blank(t, k), StartsAt(t, k)
    PROVE  /\ StartsAt(u, k) /\ ~Blank(u, k)
           /\ \A p \in SpansIn(t) : p[1] < k => p \in SpansIn(u) /\ p[2] < k
<1>1. Len(t) \in Nat /\ Len(u) \in Nat /\ k \in Nat /\ k \in 1..Len(u) BY LenProperties
<1>2. \A i \in 1..(k - 1) : i \in Cuts(t) <=> i \in Cuts(u) BY CutsAgree
<1>3. \A i \in 1..k : Blank(t, i) <=> Blank(u, i) BY DEF Blank
<1>4. \A m \in 1..k : StartsAt(t, m) => StartsAt(u, m)
  <2> SUFFICES ASSUME NEW m \in 1..k, StartsAt(t, m) PROVE StartsAt(u, m) OBVIOUS
  <2>1. PICK a \in Cuts(t) \cup {0} : a < m /\ \A i \in (a + 1)..(m - 1) : Blank(t, i)
    BY DEF StartsAt
  <2>2. a \in Nat BY <1>1 DEF Cuts
  <2>3. a \in Cuts(u) \cup {0}
    <3>1. CASE a = 0 BY <3>1
    <3>2. CASE a # 0 BY <1>1, <1>2, <2>1, <2>2, <3>2
    <3> QED BY <3>1, <3>2
  <2>4. \A i \in (a + 1)..(m - 1) : Blank(u, i)
    <3> SUFFICES ASSUME NEW i \in (a + 1)..(m - 1) PROVE Blank(u, i) OBVIOUS
    <3>1. i \in 1..k BY <2>2, <1>1
    <3> QED BY <3>1, <2>1, <1>3
  <2> QED BY <2>1, <2>3, <2>4 DEF StartsAt
<1>5. ASSUME NEW p \in SpansIn(t), p[1] < k
      PROVE  p \in SpansIn(u) /\ p[2] < k
  <2>1. /\ p \in Nat \X Nat /\ p[1] \in 1..Len(t) /\ p[2] \in 1..Len(t) /\ p[1] <= p[2]
        /\ ~Blank(t, p[1]) /\ ~Blank(t, p[2]) /\ StartsAt(t, p[1]) /\ EndsAt(t, p[2])
        /\ \A i \in p[1]..(p[2] - 1) : i \notin Cuts(t)
    BY <1>1 DEF SpansIn
  <2>2. PICK a \in Cuts(t) : p[2] <= a /\ a < k /\ \A i \in (a + 1)..(k - 1) : Blank(t, i)
    BY <1>5, EndsBeforeTheNext
  <2>3. p[2] < k BY <1>1, <2>1, <2>2 DEF Cuts
  <2>4. p[1] \in 1..k /\ p[2] \in 1..k /\ p \in (1..Len(u)) \X (1..Len(u)) BY <2>1, <2>3, <1>1
  <2>5. ~Blank(u, p[1]) /\ ~Blank(u, p[2]) /\ StartsAt(u, p[1]) BY <2>1, <2>4, <1>3, <1>4
  <2>6. EndsAt(u, p[2])
    <3>1. PICK b \in Cuts(t) \cup {Len(t)} : p[2] <= b /\ \A i \in (p[2] + 1)..b : Blank(t, i)
      BY <2>1 DEF EndsAt
    <3>2. b \in Nat BY <1>1 DEF Cuts
    <3>3. b < k
      <4> SUFFICES ASSUME k <= b PROVE FALSE BY <3>2, <1>1
      <4>1. k \in (p[2] + 1)..b BY <3>2, <2>1, <2>3, <1>1
      <4> QED BY <4>1, <3>1
    <3>4. b \in 1..(k - 1) /\ b \in Cuts(t) BY <3>1, <3>2, <3>3, <2>1, <1>1
    <3>5. b \in Cuts(u) BY <3>4, <1>2
    <3>6. \A i \in (p[2] + 1)..b : Blank(u, i)
      <4> SUFFICES ASSUME NEW i \in (p[2] + 1)..b PROVE Blank(u, i) OBVIOUS
      <4>1. i \in 1..k BY <3>3, <3>2, <2>1, <1>1
      <4> QED BY <4>1, <3>1, <1>3
    <3> QED BY <3>1, <3>5, <3>6 DEF EndsAt
  <2>7. \A i \in p[1]..(p[2] - 1) : i \notin Cuts(u)
    <3> SUFFICES ASSUME NEW i \in p[1]..(p[2] - 1) PROVE i \notin Cuts(u) OBVIOUS
    <3>1. i \in 1..(k - 1) BY <2>1, <2>3, <1>1
    <3> QED BY <3>1, <2>1, <1>2
  <2> QED BY <2>1, <2>3, <2>4, <2>5, <2>6, <2>7 DEF SpansIn
<1>6. StartsAt(u, k) /\ ~Blank(u, k) BY <1>1, <1>3, <1>4
<1> QED BY <1>5, <1>6

\* What follows a text changes none of its spans but the last, which starts where it did.
LEMMA SpansExtended ==
    ASSUME NEW t \in Seq(AnswerTokens), NEW u \in Seq(AnswerTokens), Len(t) <= Len(u),
           \A i \in 1..Len(t) : u[i] = t[i],
           NEW last \in SpansIn(t), \A p \in SpansIn(t) \ {last} : p[1] < last[1]
    PROVE  /\ {p \in SpansIn(u) : p[1] < last[1]} = SpansIn(t) \ {last}
           /\ \E p \in SpansIn(u) : p[1] = last[1]
<1> DEFINE k == last[1]
<1>1. /\ k \in 1..Len(t) /\ ~Blank(t, k) /\ StartsAt(t, k) /\ Len(t) \in Nat /\ Len(u) \in Nat
      /\ k \in 1..Len(u) /\ k <= Len(u)
  BY LenProperties DEF SpansIn
<1> HIDE DEF k
<1>2. \A i \in 1..k : u[i] = t[i] /\ t[i] = u[i] BY <1>1
<1>3. /\ StartsAt(u, k) /\ ~Blank(u, k)
      /\ \A p \in SpansIn(t) : p[1] < k => p \in SpansIn(u) /\ p[2] < k
  BY <1>1, <1>2, SpansAgree
<1>4. \A p \in SpansIn(u) : p[1] < k => p \in SpansIn(t) /\ p[2] < k
  BY <1>1, <1>2, <1>3, SpansAgree
<1>5. \E p \in SpansIn(u) : p[1] = k BY <1>1, <1>3, SpanStarting
<1>6. {p \in SpansIn(u) : p[1] < k} = SpansIn(t) \ {last}
  <2>1. \A p \in SpansIn(u) : p[1] < k => p \in SpansIn(t) \ {last} BY <1>1, <1>4 DEF k
  <2>2. \A p \in SpansIn(t) \ {last} : p \in SpansIn(u) /\ p[1] < k BY <1>3 DEF k
  <2> QED BY <2>1, <2>2
<1> QED BY <1>5, <1>6 DEF k
-----------------------------------------------------------------------------
(* Sentences of spans.                                                      *)

AnswerSentences == [index : Nat, span : Nat \X Nat, cited : SUBSET Cites]

Saying(t, S) == {p \in S : SaysSomething(t, p)}

\* The sentences of spans are numbered on, one for each that says something.
LEMMA SentencesAre ==
    ASSUME NEW t, NEW S \in SUBSET (Nat \X Nat), StartApart(S), NEW told \in Nat
    PROVE  LET said == InTextOrder(Saying(t, S))
               s == SentencesAt(t, S, told)
           IN  /\ said \in Seq(S) /\ s \in Seq(AnswerSentences) /\ Len(s) = Len(said)
               /\ \A i \in 1..Len(s) : said[i] \in S /\ s[i] = Sentence(t, said[i], told + i)
<1> DEFINE A == Saying(t, S)
           said == InTextOrder(A)
           s == SentencesAt(t, S, told)
<1>1. A \subseteq S /\ StartApart(A) BY PartsApart DEF Saying
<1>2. s = [i \in DOMAIN said |-> Sentence(t, said[i], told + i)] BY DEF SentencesAt, Saying
<1> HIDE DEF A, s
<1>3. said \in Seq(A) /\ Len(said) = Cardinality(A) /\ Cardinality(A) \in Nat
      /\ \A n \in 1..Cardinality(A) : said[n] \in A
  BY <1>1, InOrderOfText
<1>4. said \in Seq(S) /\ DOMAIN said = 1..Len(said) /\ Len(said) \in Nat BY <1>1, <1>3
<1> HIDE DEF said
<1>5. \A i \in 1..Len(said) : said[i] \in Nat \X Nat /\ said[i] \in S BY <1>1, <1>3
<1>6. \A i \in 1..Len(said) : Sentence(t, said[i], told + i) \in AnswerSentences
  <2> SUFFICES ASSUME NEW i \in 1..Len(said) PROVE Sentence(t, said[i], told + i) \in AnswerSentences
    OBVIOUS
  <2>1. CitedIn(t, said[i]) \in SUBSET Cites /\ told + i \in Nat /\ said[i] \in Nat \X Nat
    BY <1>4, <1>5 DEF CitedIn
  <2> QED BY <2>1 DEF Sentence, AnswerSentences
<1>7. s \in [1..Len(said) -> AnswerSentences] BY <1>2, <1>4, <1>6
<1>8. s \in Seq(AnswerSentences) /\ Len(s) = Len(said) BY <1>4, <1>7, LengthOf
<1>9. \A i \in 1..Len(s) : said[i] \in S /\ s[i] = Sentence(t, said[i], told + i)
  BY <1>2, <1>4, <1>5, <1>8
<1> QED BY <1>4, <1>8, <1>9 DEF s, said, A

\* Where two texts agree on spans, the sentences are the same.
LEMMA SentencesSame ==
    ASSUME NEW t, NEW u, NEW S \in SUBSET (Nat \X Nat), StartApart(S), NEW told \in Nat,
           \A p \in S : \A i \in p[1]..p[2] : t[i] = u[i]
    PROVE  SentencesAt(t, S, told) = SentencesAt(u, S, told)
<1>1. \A p \in S : SaysSomething(t, p) <=> SaysSomething(u, p) BY DEF SaysSomething, Blank
<1>2. Saying(t, S) = Saying(u, S) BY <1>1 DEF Saying
<1>3. \A p \in S : CitedIn(t, p) = CitedIn(u, p)
  <2> SUFFICES ASSUME NEW p \in S PROVE CitedIn(t, p) = CitedIn(u, p) OBVIOUS
  <2>1. \A i \in p[1]..p[2] : t[i] = u[i] OBVIOUS
  <2> QED BY <2>1 DEF CitedIn
<1> DEFINE said == InTextOrder(Saying(t, S))
           s == SentencesAt(t, S, told)
           v == SentencesAt(u, S, told)
<1>4. s \in Seq(AnswerSentences) /\ Len(s) = Len(said)
      /\ \A i \in 1..Len(s) : said[i] \in S /\ s[i] = Sentence(t, said[i], told + i)
  BY SentencesAre
<1>5. v \in Seq(AnswerSentences) /\ Len(v) = Len(said)
      /\ \A i \in 1..Len(v) : said[i] \in S /\ v[i] = Sentence(u, said[i], told + i)
  <2> DEFINE here == InTextOrder(Saying(u, S))
  <2>1. v \in Seq(AnswerSentences) /\ Len(v) = Len(here)
        /\ \A i \in 1..Len(v) : here[i] \in S /\ v[i] = Sentence(u, here[i], told + i)
    BY SentencesAre
  <2>2. here = said BY <1>2
  <2> QED BY <2>1, <2>2
<1> HIDE DEF s, v, said
<1>6. \A i \in 1..Len(s) : s[i] = v[i] BY <1>3, <1>4, <1>5 DEF Sentence
<1>7. s = v BY <1>4, <1>5, <1>6, SeqEqual
<1> QED BY <1>7 DEF s, v

\* The sentences of spans that come after others come after theirs.
LEMMA SentencesJoined ==
    ASSUME NEW t, NEW A \in SUBSET (Nat \X Nat), NEW B \in SUBSET (Nat \X Nat),
           StartApart(A \cup B), \A p \in A : \A q \in B : p[1] < q[1]
    PROVE  LET a == SentencesAt(t, A, 0)
           IN  SentencesAt(t, A \cup B, 0) = a \o SentencesAt(t, B, Len(a))
<1> DEFINE S == A \cup B
           a == SentencesAt(t, A, 0)
           b == SentencesAt(t, B, Len(a))
           s == SentencesAt(t, S, 0)
           x == InTextOrder(Saying(t, A))
           y == InTextOrder(Saying(t, B))
           z == InTextOrder(Saying(t, S))
<1>1. StartApart(A) /\ StartApart(B) /\ S \in SUBSET (Nat \X Nat) BY PartsApart
<1>2. x \in Seq(A) /\ a \in Seq(AnswerSentences) /\ Len(a) = Len(x) /\ Len(a) \in Nat
      /\ \A i \in 1..Len(a) : a[i] = Sentence(t, x[i], 0 + i)
  <2>1. 0 \in Nat OBVIOUS
  <2>2. x \in Seq(A) /\ a \in Seq(AnswerSentences) /\ Len(a) = Len(x)
        /\ \A i \in 1..Len(a) : a[i] = Sentence(t, x[i], 0 + i)
    BY <1>1, <2>1, SentencesAre
  <2> HIDE DEF a, x
  <2> QED BY <2>2, LenProperties
<1> HIDE DEF a, x
<1>3. y \in Seq(B) /\ b \in Seq(AnswerSentences) /\ Len(b) = Len(y)
      /\ \A i \in 1..Len(b) : b[i] = Sentence(t, y[i], Len(a) + i)
  <2> DEFINE n == Len(a)
  <2>1. n \in Nat /\ B \in SUBSET (Nat \X Nat) /\ StartApart(B) BY <1>1, <1>2
  <2>2. b = SentencesAt(t, B, n) OBVIOUS
  <2> HIDE DEF n, b
  <2>3. y \in Seq(B) /\ b \in Seq(AnswerSentences) /\ Len(b) = Len(y)
        /\ \A i \in 1..Len(b) : b[i] = Sentence(t, y[i], n + i)
    BY <2>1, <2>2, SentencesAre
  <2> QED BY <2>3 DEF n
<1>4. z \in Seq(S) /\ s \in Seq(AnswerSentences) /\ Len(s) = Len(z)
      /\ \A i \in 1..Len(s) : s[i] = Sentence(t, z[i], 0 + i)
  <2> HIDE DEF S
  <2>1. 0 \in Nat /\ StartApart(S) BY DEF S
  <2> QED BY <1>1, <2>1, SentencesAre
<1>5. z = x \o y
  <2> DEFINE P == Saying(t, A)
             Q == Saying(t, B)
  <2>1. Saying(t, S) = P \cup Q BY DEF Saying
  <2>2. P \cup Q \subseteq A \cup B /\ \A p \in P : \A q \in Q : p[1] < q[1] BY DEF Saying
  <2>3. StartApart(P \cup Q) BY <2>2, PartsApart
  <2> HIDE DEF P, Q
  <2>4. InTextOrder(P \cup Q) = InTextOrder(P) \o InTextOrder(Q) BY <2>2, <2>3, InOrderJoined
  <2> QED BY <2>1, <2>4 DEF P, Q, x
<1> HIDE DEF b, s, y, z, S
<1>6. Len(b) \in Nat /\ Len(s) \in Nat BY <1>3, <1>4, LenProperties
<1>7. x \in Seq(S) /\ y \in Seq(S) BY <1>2, <1>3 DEF S
<1>8. Len(z) = Len(a) + Len(b)
      /\ \A i \in 1..(Len(a) + Len(b)) : z[i] = IF i <= Len(a) THEN x[i] ELSE y[i - Len(a)]
  BY <1>2, <1>3, <1>5, <1>7, ConcatProperties
<1>9. a \o b \in Seq(AnswerSentences) /\ Len(a \o b) = Len(a) + Len(b)
      /\ \A i \in 1..(Len(a) + Len(b)) : (a \o b)[i] = IF i <= Len(a) THEN a[i] ELSE b[i - Len(a)]
  BY <1>2, <1>3, ConcatProperties
<1>10. ASSUME NEW i \in 1..Len(s) PROVE s[i] = (a \o b)[i]
  <2>1. i \in 1..(Len(a) + Len(b)) /\ i \in Nat BY <1>4, <1>6, <1>8
  <2>2. CASE i <= Len(a) BY <1>2, <1>4, <1>8, <1>9, <2>1, <2>2
  <2>3. CASE ~(i <= Len(a))
    <3>1. i - Len(a) \in 1..Len(b) /\ z[i] = y[i - Len(a)] /\ (a \o b)[i] = b[i - Len(a)]
      BY <2>1, <2>3, <1>2, <1>6, <1>8, <1>9
    <3>2. Len(a) + (i - Len(a)) = 0 + i BY <2>1, <1>2
    <3>3. b[i - Len(a)] = Sentence(t, y[i - Len(a)], 0 + i) BY <3>1, <3>2, <1>3
    <3> QED BY <3>1, <3>3, <1>4
  <2> QED BY <2>2, <2>3
<1>11. s = a \o b BY <1>4, <1>8, <1>9, <1>10, SeqEqual
<1> QED BY <1>11 DEF s, a, b, S

-----------------------------------------------------------------------------
(* What _emit_new_sentences has passed.                                     *)

\* All the spans of a text but the last.
Passed(t, A) ==
    \/ SpansIn(t) = {} /\ A = {}
    \/ \E last \in SpansIn(t) : /\ A = SpansIn(t) \ {last}
                                /\ \A p \in A : p[1] < last[1]

\* From the first span not passed yet the sentences are those still missing.
LEMMA EmittedAre ==
    ASSUME NEW t, NEW S \in SUBSET (Nat \X Nat), StartApart(S), NEW A \in SUBSET S,
           \A p \in A : \A q \in S \ A : p[1] < q[1]
    PROVE  LET spans == InTextOrder(S)
               n == Cardinality(A)
           IN  /\ {spans[i] : i \in (n + 1)..Len(spans)} = S \ A
               /\ Len(spans) = Cardinality(S) /\ n <= Len(spans) /\ n \in Nat /\ Len(spans) \in Nat
<1> DEFINE B == S \ A
           s == InTextOrder(S)
           x == InTextOrder(A)
           y == InTextOrder(B)
           n == Cardinality(A)
           m == Cardinality(B)
<1>1. A \cup B = S /\ A \in SUBSET (Nat \X Nat) /\ B \in SUBSET (Nat \X Nat) OBVIOUS
<1>2. \A p \in A : \A q \in B : p[1] < q[1] OBVIOUS
<1>3. B \in SUBSET S OBVIOUS
<1> HIDE DEF B
<1>4. StartApart(A) /\ StartApart(B) /\ StartApart(A \cup B) BY <1>1, <1>3, PartsApart
<1>5. s = x \o y /\ Cardinality(S) = n + m BY <1>1, <1>2, <1>4, InOrderJoined
<1>6. x \in Seq(A) /\ Len(x) = n /\ n \in Nat BY <1>4, InOrderOfText
<1>7. y \in Seq(B) /\ Len(y) = m /\ m \in Nat /\ (\A i \in 1..m : y[i] \in B)
      /\ \A p \in B : \E i \in 1..m : y[i] = p
  BY <1>4, InOrderOfText
<1> HIDE DEF s, x, y, n, m
<1>8. Len(s) = n + m /\ \A i \in 1..(n + m) : s[i] = IF i <= n THEN x[i] ELSE y[i - n]
  <2>1. x \in Seq(S) /\ y \in Seq(S) BY <1>3, <1>6, <1>7
  <2>2. /\ Len(x \o y) = Len(x) + Len(y)
        /\ \A i \in 1..(Len(x) + Len(y)) : (x \o y)[i] = IF i <= Len(x) THEN x[i] ELSE y[i - Len(x)]
    BY <2>1, ConcatProperties
  <2> QED BY <2>2, <1>5, <1>6, <1>7
<1>9. {s[i] : i \in (n + 1)..Len(s)} = B
  <2>1. ASSUME NEW i \in (n + 1)..Len(s) PROVE s[i] \in B
    <3>1. i \in 1..(n + m) /\ ~(i <= n) /\ i - n \in 1..m BY <1>6, <1>7, <1>8
    <3> QED BY <3>1, <1>7, <1>8
  <2>2. ASSUME NEW p \in B PROVE \E i \in (n + 1)..Len(s) : s[i] = p
    <3>1. PICK i \in 1..m : y[i] = p BY <1>7
    <3>2. n + i \in (n + 1)..Len(s) /\ n + i \in 1..(n + m) /\ ~(n + i <= n) /\ (n + i) - n = i
      BY <1>6, <1>7, <1>8
    <3> QED BY <3>1, <3>2, <1>8
  <2> QED BY <2>1, <2>2
<1>10. Len(s) = Cardinality(S) /\ n <= Len(s) /\ Len(s) \in Nat BY <1>5, <1>6, <1>7, <1>8
<1> QED BY <1>6, <1>9, <1>10 DEF s, n, B

\* The spans of a text are places in it.
LEMMA SpansArePlaces ==
    ASSUME NEW t \in Seq(AnswerTokens)
    PROVE  SpansIn(t) \in SUBSET (Nat \X Nat)
           /\ \A p \in SpansIn(t) : p[1] \in 1..Len(t) /\ p[2] \in 1..Len(t)
BY LenProperties DEF SpansIn

\* What was passed of a text is passed of a longer one, and the rest of that comes after.
LEMMA PassedStays ==
    ASSUME NEW t \in Seq(AnswerTokens), NEW u \in Seq(AnswerTokens), Len(t) <= Len(u),
           \A i \in 1..Len(t) : u[i] = t[i], NEW A, Passed(t, A)
    PROVE  \E S \in SUBSET SpansIn(u) :
              /\ Passed(u, S)
              /\ Complete(Spans(u)) = InTextOrder(S)
              /\ A \in SUBSET S /\ \A p \in A : \A q \in S \ A : p[1] < q[1]
              /\ SentencesAt(u, A, 0) = SentencesAt(t, A, 0)
<1>1. StartApart(SpansIn(t)) /\ StartApart(SpansIn(u)) BY SpansApart
<1>2. /\ SpansIn(t) \in SUBSET (Nat \X Nat)
      /\ \A p \in SpansIn(t) : p[1] \in 1..Len(t) /\ p[2] \in 1..Len(t)
      /\ SpansIn(u) \in SUBSET (Nat \X Nat)
  BY SpansArePlaces
<1>3. A \in SUBSET SpansIn(t) BY DEF Passed
<1>4. SentencesAt(u, A, 0) = SentencesAt(t, A, 0)
  <2>1. StartApart(A) /\ A \in SUBSET (Nat \X Nat) /\ 0 \in Nat BY <1>1, <1>2, <1>3, PartsApart
  <2>2. \A p \in A : \A i \in p[1]..p[2] : u[i] = t[i] BY <1>2, <1>3, LenProperties
  <2> QED BY <2>1, <2>2, SentencesSame
<1>5. CASE SpansIn(u) = {}
  <2>1. SpansIn(t) = {}
    <3> SUFFICES ASSUME SpansIn(t) # {} PROVE FALSE OBVIOUS
    <3>1. \E last \in SpansIn(t) : \A p \in SpansIn(t) \ {last} : p[1] < last[1]
      BY <1>1, CompleteIsAllButLast
    <3> QED BY <3>1, <1>5, SpansExtended
  <2>2. A = {} BY <2>1, <1>3
  <2>3. Complete(Spans(u)) = InTextOrder({})
    <3> DEFINE E == {}
    <3>1. StartApart(E) /\ Cardinality(E) = 0 BY FS_EmptySet DEF StartApart
    <3> HIDE DEF E
    <3>2. InTextOrder(E) \in Seq(E) /\ Len(InTextOrder(E)) = 0 BY <3>1, InOrderOfText
    <3>3. InTextOrder(E) = << >> BY <3>2, EmptySeq
    <3>4. Spans(u) = InTextOrder(E) BY <1>5 DEF Spans, E
    <3> QED BY <3>3, <3>4 DEF Complete, E
  <2>4. Passed(u, {}) BY <1>5 DEF Passed
  <2> QED BY <1>4, <2>2, <2>3, <2>4
<1>6. CASE SpansIn(u) # {}
  <2> DEFINE Su == SpansIn(u)
  <2>1. PICK end \in Su : /\ \A p \in Su \ {end} : p[1] < end[1]
                          /\ Complete(InTextOrder(Su)) = InTextOrder(Su \ {end})
    <3> HIDE DEF Su
    <3>1. StartApart(Su) /\ Su # {} BY <1>1, <1>6 DEF Su
    <3> QED BY <3>1, CompleteIsAllButLast
  <2> DEFINE S == Su \ {end}
  <2>2. Passed(u, S) /\ Complete(Spans(u)) = InTextOrder(S) BY <2>1 DEF Passed, Spans
  <2>3. A \in SUBSET S /\ \A p \in A : \A q \in S \ A : p[1] < q[1]
    <3>1. CASE A = {} BY <3>1
    <3>2. CASE A # {}
      <4>1. PICK last \in SpansIn(t) : A = SpansIn(t) \ {last} /\ \A p \in A : p[1] < last[1]
        BY <3>2 DEF Passed
      <4>2. /\ {p \in Su : p[1] < last[1]} = A
            /\ \E p \in Su : p[1] = last[1]
        BY <4>1, SpansExtended
      <4>3. PICK next \in Su : next[1] = last[1] BY <4>2
      <4>4. \A p \in Su : p[1] \in Nat BY <1>2
      <4>5. last[1] <= end[1] BY <4>3, <4>4, <2>1
      <4>6. end \notin A BY <4>1, <4>4, <4>5, <4>3
      <4>7. A \subseteq Su BY <4>2
      <4>8. \A q \in S \ A : ~(q[1] < last[1]) BY <4>2
      <4>9. \A p \in A : \A q \in S \ A : p[1] < q[1] BY <4>1, <4>3, <4>4, <4>7, <4>8
      <4> QED BY <4>6, <4>7, <4>9
    <3> QED BY <3>1, <3>2
  <2> QED BY <1>4, <2>2, <2>3
<1> QED BY <1>5, <1>6

-----------------------------------------------------------------------------
(* Texts built from the evidence.                                           *)

\* A text cut only where one white space stands between two marks.
OneApart(t) ==
    /\ t \in Seq(AnswerTokens) /\ Len(t) >= 1
    /\ ~Blank(t, 1) /\ ~Blank(t, Len(t))
    /\ \A c \in Cuts(t) : c < Len(t) =>
            /\ ~Blank(t, c) /\ t[c + 1] = Space
            /\ c + 2 <= Len(t) /\ ~Blank(t, c + 2)

\* Its citation stands last, but for a full stop.
EndsCited(t) == \/ t[Len(t)] \in Cites
                \/ Len(t) >= 2 /\ t[Len(t) - 1] \in Cites

\* A quote with its citation.
Tidy(t) ==
    /\ OneApart(t) /\ EndsCited(t)
    /\ \A c \in Cuts(t) : c < Len(t) =>
            \/ t[c] = Semicolon
            \/ t[c] = Dot /\ c + 3 <= Len(t) /\ t[c + 1] = Space /\ t[c + 2] \in Cites /\ t[c + 3] = Dot

\* A text is cut where its ending is.
LEMMA CutsOfEnding ==
    ASSUME NEW u \in Seq(AnswerTokens), NEW w \in Seq(AnswerTokens), NEW n \in Nat, Len(u) = n + Len(w),
           \A i \in 1..Len(w) : u[n + i] = w[i]
    PROVE  \A i \in 1..Len(w) : n + i \in Cuts(u) <=> i \in Cuts(w)
<1> SUFFICES ASSUME NEW i \in 1..Len(w) PROVE n + i \in Cuts(u) <=> i \in Cuts(w) OBVIOUS
<1>1. Len(w) \in Nat /\ Len(u) \in Nat /\ i \in Nat /\ n + i \in 1..Len(u)
      /\ (n + i = Len(u) <=> i = Len(w)) /\ (n + i < Len(u) <=> i < Len(w))
  BY LenProperties
<1>2. \A j \in 1..Len(w) : Blank(u, n + j) <=> Blank(w, j) BY DEF Blank
<1>3. \A j \in (i + 1)..Len(w) :
        (\A k \in (n + i + 1)..(n + j - 1) : Blank(u, k)) <=> (\A k \in (i + 1)..(j - 1) : Blank(w, k))
  <2> SUFFICES ASSUME NEW j \in (i + 1)..Len(w)
               PROVE  (\A k \in (n + i + 1)..(n + j - 1) : Blank(u, k)) <=>
                            (\A k \in (i + 1)..(j - 1) : Blank(w, k))
    OBVIOUS
  <2>1. ASSUME \A k \in (n + i + 1)..(n + j - 1) : Blank(u, k), NEW k \in (i + 1)..(j - 1)
        PROVE  Blank(w, k)
    BY <1>1, <1>2, <2>1
  <2>2. ASSUME \A k \in (i + 1)..(j - 1) : Blank(w, k), NEW k \in (n + i + 1)..(n + j - 1)
        PROVE  Blank(u, k)
    <3>1. k - n \in (i + 1)..(j - 1) /\ k - n \in 1..Len(w) /\ n + (k - n) = k BY <1>1
    <3>2. Blank(u, n + (k - n)) BY <3>1, <2>2, <1>2
    <3> QED BY <3>1, <3>2
  <2> QED BY <2>1, <2>2
<1>4. \A j \in (i + 1)..Len(w) : n + j \in NextMark(u, n + i) <=> j \in NextMark(w, i)
  <2> SUFFICES ASSUME NEW j \in (i + 1)..Len(w)
               PROVE  n + j \in NextMark(u, n + i) <=> j \in NextMark(w, i)
    OBVIOUS
  <2>1. n + j \in (n + i + 1)..Len(u) /\ j \in 1..Len(w) BY <1>1
  <2> QED BY <2>1, <1>2, <1>3 DEF NextMark
<1>5. (\A j \in NextMark(u, n + i) : u[j] \in {Upper} \cup Cites) <=>
            (\A j \in NextMark(w, i) : w[j] \in {Upper} \cup Cites)
  <2>1. ASSUME \A j \in NextMark(u, n + i) : u[j] \in {Upper} \cup Cites, NEW j \in NextMark(w, i)
        PROVE  w[j] \in {Upper} \cup Cites
    <3>1. j \in (i + 1)..Len(w) /\ j \in 1..Len(w) BY <1>1 DEF NextMark
    <3> QED BY <3>1, <2>1, <1>4
  <2>2. ASSUME \A j \in NextMark(w, i) : w[j] \in {Upper} \cup Cites, NEW j \in NextMark(u, n + i)
        PROVE  u[j] \in {Upper} \cup Cites
    <3>1. j \in (n + i + 1)..Len(u) BY DEF NextMark
    <3>2. j - n \in (i + 1)..Len(w) /\ j - n \in 1..Len(w) /\ n + (j - n) = j BY <3>1, <1>1
    <3>3. u[n + (j - n)] = w[j - n] /\ j - n \in NextMark(w, i) BY <3>2, <1>4
    <3> QED BY <3>2, <3>3, <2>2
  <2> QED BY <2>1, <2>2
<1>6. i < Len(w) => /\ i + 1 \in 1..Len(w) /\ n + i + 1 = n + (i + 1)
                    /\ u[n + i + 1] = w[i + 1] /\ (Blank(u, n + i + 1) <=> Blank(w, i + 1))
  BY <1>1, <1>2
<1>7. Closes(u, n + i) <=> Closes(w, i)
  <2>1. u[n + i] = w[i] OBVIOUS
  <2>2. CASE i = Len(w) BY <2>1, <2>2, <1>1 DEF Closes
  <2>3. CASE i # Len(w) BY <1>1, <1>5, <1>6, <2>1, <2>3 DEF Closes
  <2> QED BY <2>2, <2>3
<1>8. (n + i < Len(u) /\ u[n + i] = Line /\ u[n + i + 1] = Line) <=> (i < Len(w) /\ w[i] = Line /\ w[i + 1] = Line)
  BY <1>1, <1>6
<1> QED BY <1>1, <1>7, <1>8 DEF Cuts

\* with_citation leaves the quote as it was up to the last of its words.
LEMMA CitationPlaced ==
    ASSUME NEW q \in Quotes, NEW cite \in Cites
    PROVE  LET w == WithCitation(q, cite)
           IN  /\ w \in Seq(AnswerTokens) /\ q \in Seq(AnswerTokens)
               /\ \E n \in 1..Len(q) :
                    /\ \A i \in 1..n : w[i] = q[i]
                    /\ ~Blank(q, n) /\ w[n + 1] = Space /\ w[n + 2] = cite
                    /\ \/ Len(w) = n + 2 /\ q[n] # Dot
                       \/ Len(w) = n + 3 /\ w[n + 3] = Dot
<1> DEFINE w == WithCitation(q, cite)
<1>1. /\ q \in Seq(AnswerTokens) /\ SpansIn(q) = {<<1, Len(q)>>} /\ q # <<Dot>>
  BY AnsweringAssumption
<1>2. <<1, Len(q)>> \in SpansIn(q) BY <1>1
<1>3. Len(q) \in Nat /\ Len(q) >= 1 /\ ~Blank(q, 1) /\ ~Blank(q, Len(q)) /\ \A i \in 1..Len(q) : q[i] \in AnswerTokens
  BY <1>1, <1>2, LenProperties, ElementOfSeq DEF SpansIn
<1>4. Last(q) = q[Len(q)] BY DEF Last
<1>5. cite \in AnswerTokens /\ Space \in AnswerTokens /\ Dot \in AnswerTokens
  BY DEF AnswerTokens
<1>6. CASE Last(q) # Dot
  <2>1. w = q \o <<Space, cite>> BY <1>6 DEF WithCitation
  <2> DEFINE v == <<Space, cite>>
  <2>2. v \in Seq(AnswerTokens) /\ Len(v) = 2 /\ v[1] = Space /\ v[2] = cite BY <1>5
  <2> HIDE DEF v
  <2>3. w \in Seq(AnswerTokens) /\ Len(w) = Len(q) + 2
        /\ \A i \in 1..(Len(q) + 2) : w[i] = IF i <= Len(q) THEN q[i] ELSE v[i - Len(q)]
    BY <1>1, <2>1, <2>2, ConcatProperties DEF v
  <2> HIDE DEF w
  <2>4. \A i \in 1..Len(q) : w[i] = q[i] BY <2>3, <1>3
  <2>5. w[Len(q) + 1] = Space /\ w[Len(q) + 2] = cite BY <1>3, <2>2, <2>3
  <2>6. Len(q) \in 1..Len(q) /\ q[Len(q)] # Dot BY <1>3, <1>4, <1>6
  <2> QED BY <1>1, <1>3, <2>3, <2>4, <2>5, <2>6 DEF w
<1>7. CASE Last(q) = Dot
  <2> DEFINE UpTo(e) == /\ e = 0 \/ ~Blank(q, e)
                        /\ \A i \in (e + 1)..(Len(q) - 1) : Blank(q, i)
             kept == CHOOSE e \in 0..(Len(q) - 1) : UpTo(e)
  <2>1. w = SubSeq(q, 1, kept) \o <<Space, cite, Dot>> BY <1>7 DEF WithCitation
  <2>2. Len(q) >= 2
    <3> HIDE DEF w, kept, UpTo
    <3>1. ASSUME Len(q) = 1 PROVE FALSE
      <4> DEFINE d == <<Dot>>
      <4>1. d \in Seq(AnswerTokens) /\ Len(d) = 1 /\ d[1] = Dot BY <1>5
      <4> HIDE DEF d
      <4>2. q[1] = Dot BY <3>1, <1>4, <1>7
      <4>3. \A i \in 1..Len(q) : q[i] = d[i] BY <3>1, <4>1, <4>2
      <4>4. q = d BY <3>1, <4>1, <4>3, <1>1, SeqEqual
      <4> QED BY <4>4, <1>1 DEF d
    <3> DEFINE m == Len(q)
    <3>2. m \in Nat /\ m >= 1 BY <1>3
    <3>3. m # 1 BY <3>1
    <3> HIDE DEF m
    <3>4. m >= 2 BY <3>2, <3>3
    <3> QED BY <3>4 DEF m
  <2> DEFINE back == {d \in 0..(Len(q) - 2) : ~Blank(q, Len(q) - 1 - d)}
             b == Min(back)
  <2>3. back \in SUBSET Nat /\ back # {}
    <3> HIDE DEF w, kept, UpTo
    <3>1. Len(q) - 2 \in 0..(Len(q) - 2) /\ Len(q) - 1 - (Len(q) - 2) = 1 BY <1>3, <2>2
    <3>2. Len(q) - 2 \in back BY <3>1, <1>3
    <3>3. \A d \in back : d \in Nat BY <1>3
    <3> QED BY <3>2, <3>3
  <2>4. b \in back /\ \A i \in back : b <= i
    <3> HIDE DEF back
    <3> QED BY <2>3, EarliestOf
  <2>5. b \in 0..(Len(q) - 2) /\ ~Blank(q, Len(q) - 1 - b) BY <2>4
  <2> HIDE DEF b
  <2> DEFINE e == Len(q) - 1 - b
  <2>6. e \in 1..(Len(q) - 1) /\ ~Blank(q, e) /\ e \in 0..(Len(q) - 1) BY <1>3, <2>5
  <2>7. \A i \in (e + 1)..(Len(q) - 1) : Blank(q, i)
    <3> SUFFICES ASSUME NEW i \in (e + 1)..(Len(q) - 1), ~Blank(q, i) PROVE FALSE OBVIOUS
    <3>1. Len(q) - 1 - i \in 0..(Len(q) - 2) /\ Len(q) - 1 - (Len(q) - 1 - i) = i /\ Len(q) - 1 - i < b
      BY <1>3, <2>5, <2>6
    <3>2. Len(q) - 1 - i \in back BY <3>1
    <3>3. b <= Len(q) - 1 - i BY <3>2, <2>4
    <3> QED BY <3>1, <3>3, <1>3, <2>5
  <2> HIDE DEF e
  <2>8. UpTo(e) BY <2>6, <2>7
  <2>9. kept \in 0..(Len(q) - 1) /\ UpTo(kept)
    <3> HIDE DEF UpTo
    <3> QED BY <2>6, <2>8
  <2> HIDE DEF kept
  <2>10. kept \in 1..(Len(q) - 1) /\ ~Blank(q, kept)
    <3>1. kept # 0
      <4> SUFFICES ASSUME kept = 0 PROVE FALSE OBVIOUS
      <4>1. 1 \in (kept + 1)..(Len(q) - 1) BY <1>3, <2>2
      <4>2. \A i \in (kept + 1)..(Len(q) - 1) : Blank(q, i) BY <2>9
      <4> QED BY <4>1, <4>2, <1>3
    <3> QED BY <3>1, <2>9, <1>3
  <2> HIDE DEF UpTo
  <2> DEFINE v == <<Space, cite, Dot>>
             h == SubSeq(q, 1, kept)
  <2>11. v \in Seq(AnswerTokens) /\ Len(v) = 3 /\ v[1] = Space /\ v[2] = cite /\ v[3] = Dot
    BY <1>5
  <2>12. h \in Seq(AnswerTokens) /\ Len(h) = kept /\ \A i \in 1..kept : h[i] = q[i]
    BY <1>3, <2>10, SubSeqProperties
  <2>13. w = h \o v BY <2>1
  <2> HIDE DEF v, h, w
  <2>14. w \in Seq(AnswerTokens) /\ Len(w) = kept + 3
        /\ \A i \in 1..(kept + 3) : w[i] = IF i <= kept THEN h[i] ELSE v[i - kept]
    <3>1. Len(h \o v) = Len(h) + Len(v) /\ h \o v \in Seq(AnswerTokens)
          /\ \A i \in 1..(Len(h) + Len(v)) : (h \o v)[i] = IF i <= Len(h) THEN h[i] ELSE v[i - Len(h)]
      BY <2>11, <2>12, ConcatProperties
    <3> QED BY <3>1, <2>11, <2>12, <2>13
  <2>15. \A i \in 1..kept : w[i] = q[i] BY <2>12, <2>14, <2>10, <1>3
  <2>16. w[kept + 1] = Space /\ w[kept + 2] = cite /\ w[kept + 3] = Dot
    BY <1>3, <2>10, <2>11, <2>14
  <2>17. kept \in 1..Len(q) BY <1>3, <2>10
  <2> QED BY <1>1, <2>10, <2>14, <2>15, <2>16, <2>17 DEF w
<1> QED BY <1>6, <1>7

\* A text is cut at a stop or at a line end.
LEMMA CutAtAStop ==
    ASSUME NEW t, NEW c \in Cuts(t)
    PROVE  c \in 1..Len(t) /\ t[c] \in {Semicolon, Dot, Line}
BY DEF Cuts, Closes

\* with_citation leaves a text that is cut where it was built, if anywhere.
LEMMA CitationTidy ==
    ASSUME NEW q \in Quotes, NEW cite \in Cites
    PROVE  Tidy(WithCitation(q, cite))
<1> DEFINE w == WithCitation(q, cite)
<1>1. /\ w \in Seq(AnswerTokens) /\ q \in Seq(AnswerTokens)
      /\ \E n \in 1..Len(q) :
            /\ \A i \in 1..n : w[i] = q[i]
            /\ ~Blank(q, n) /\ w[n + 1] = Space /\ w[n + 2] = cite
            /\ \/ Len(w) = n + 2 /\ q[n] # Dot
               \/ Len(w) = n + 3 /\ w[n + 3] = Dot
  BY CitationPlaced
<1> HIDE DEF w
<1>2. PICK n \in 1..Len(q) : /\ \A i \in 1..n : w[i] = q[i]
                             /\ ~Blank(q, n) /\ w[n + 1] = Space /\ w[n + 2] = cite
                             /\ \/ Len(w) = n + 2 /\ q[n] # Dot
                                \/ Len(w) = n + 3 /\ w[n + 3] = Dot
  BY <1>1
<1>3. Len(q) \in Nat /\ Len(w) \in Nat /\ n \in Nat /\ n >= 1 /\ n <= Len(w) /\ n + 2 <= Len(w)
  BY <1>1, <1>2, LenProperties
<1>4. \A i \in 1..(n - 1) : i \notin Cuts(w)
  <2>1. SpansIn(q) = {<<1, Len(q)>>} BY AnsweringAssumption
  <2>2. <<1, Len(q)>> \in SpansIn(q) BY <2>1
  <2>3. \A i \in 1..(Len(q) - 1) : i \notin Cuts(q) BY <2>2 DEF SpansIn
  <2>4. \A i \in 1..(n - 1) : i \in Cuts(q) <=> i \in Cuts(w) BY <1>1, <1>2, <1>3, CutsAgree
  <2>5. \A i \in 1..(n - 1) : i \in 1..(Len(q) - 1) BY <1>3
  <2> QED BY <2>3, <2>4, <2>5
<1>5. cite \notin {Semicolon, Dot, Line, Space} /\ Space \notin {Semicolon, Dot, Line}
  BY DEF Cites, Semicolon, Dot, Line, Space
<1>6. ASSUME NEW c \in Cuts(w), c < Len(w) PROVE c = n
  <2>1. c \in 1..Len(w) /\ w[c] \in {Semicolon, Dot, Line} BY CutAtAStop
  <2>2. c # n + 1 /\ c # n + 2 BY <2>1, <1>2, <1>5
  <2>3. ~(c < n)
    <3> SUFFICES ASSUME c < n PROVE FALSE OBVIOUS
    <3>1. c \in 1..(n - 1) BY <2>1, <1>3
    <3> QED BY <3>1, <1>4
  <2>4. Len(w) = n + 2 \/ Len(w) = n + 3 BY <1>2
  <2> QED BY <2>1, <2>2, <2>3, <2>4, <1>3, <1>6
<1>7. ~Blank(w, n) /\ ~Blank(w, n + 2) /\ w[n] = q[n] BY <1>2, <1>3, <1>5 DEF Blank
<1>8. ~Blank(w, 1)
  <2>1. <<1, Len(q)>> \in SpansIn(q) BY AnsweringAssumption
  <2>2. ~Blank(q, 1) BY <2>1 DEF SpansIn
  <2>3. w[1] = q[1] BY <1>2, <1>3
  <2> QED BY <2>2, <2>3 DEF Blank
<1>9. ~Blank(w, Len(w)) /\ EndsCited(w)
  <2>1. CASE Len(w) = n + 2 BY <1>2, <1>7, <2>1 DEF EndsCited
  <2>2. CASE Len(w) = n + 3
    <3>1. w[Len(w)] = Dot /\ Len(w) - 1 = n + 2 /\ Len(w) >= 2 BY <2>2, <1>2, <1>3
    <3>2. w[Len(w) - 1] = cite BY <3>1, <1>2
    <3>3. Dot \notin {Space, Line} BY DEF Dot, Space, Line
    <3> QED BY <3>1, <3>2, <3>3 DEF EndsCited, Blank
  <2> QED BY <2>1, <2>2, <1>2
<1>10. OneApart(w)
  <2>1. \A c \in Cuts(w) : c < Len(w) =>
            /\ ~Blank(w, c) /\ w[c + 1] = Space
            /\ c + 2 <= Len(w) /\ ~Blank(w, c + 2)
    BY <1>2, <1>3, <1>6, <1>7
  <2> QED BY <2>1, <1>1, <1>3, <1>8, <1>9 DEF OneApart
<1>11. ASSUME NEW c \in Cuts(w), c < Len(w)
       PROVE  \/ w[c] = Semicolon
              \/ w[c] = Dot /\ c + 3 <= Len(w) /\ w[c + 1] = Space /\ w[c + 2] \in Cites /\ w[c + 3] = Dot
  <2>1. c = n /\ w[n] \in {Semicolon, Dot, Line} BY <1>6, <1>11, CutAtAStop
  <2>2. w[n] # Line BY <1>7 DEF Blank
  <2>3. w[n] = Dot => Len(w) = n + 3 /\ w[n + 3] = Dot BY <1>2, <1>7
  <2>4. w[n] = Dot => n + 3 <= Len(w) BY <2>3, <1>3
  <2> QED BY <2>1, <2>2, <2>3, <2>4, <1>2
<1> QED BY <1>9, <1>10, <1>11 DEF Tidy, w

\* Where each part ends, it cites what it came from.
CitedStops(t) == \A e \in Cuts(t) \cup {Len(t)} : \E j \in {e - 1, e} : j >= 1 /\ t[j] \in Cites

SemicolonIn(t) == Semicolon \in {t[i] : i \in DOMAIN t}

\* Alone, a quote with its citation is cut only where it is built with a stop it had.
LEMMA TidyStops ==
    ASSUME NEW w, Tidy(w), ~SemicolonIn(w), ~StopsTwice(w)
    PROVE  \A c \in Cuts(w) : c = Len(w)
<1> SUFFICES ASSUME NEW c \in Cuts(w), c # Len(w) PROVE FALSE OBVIOUS
<1>1. Len(w) \in Nat /\ DOMAIN w = 1..Len(w) /\ c \in 1..Len(w) /\ c < Len(w)
  BY CutAtAStop, LenProperties DEF Tidy, OneApart
<1>2. w[c] # Semicolon BY <1>1 DEF SemicolonIn
<1>3. w[c] = Dot /\ c + 3 <= Len(w) /\ w[c + 1] = Space /\ w[c + 2] \in Cites /\ w[c + 3] = Dot
  BY <1>1, <1>2 DEF Tidy
<1>4. c \in 1..(Len(w) - 3)
  <2> DEFINE m == Len(w)
  <2>1. m \in Nat /\ c \in 1..m /\ c + 3 <= m BY <1>1, <1>3
  <2> HIDE DEF m
  <2>2. c \in 1..(m - 3) BY <2>1
  <2> QED BY <2>2 DEF m
<1> QED BY <1>3, <1>4 DEF StopsTwice

\* Two of them with one white space between are cut in the same way.
LEMMA TwoJoined ==
    ASSUME NEW a, NEW b, Tidy(a), Tidy(b)
    PROVE  LET t == a \o <<Space>> \o b
           IN  /\ OneApart(t)
               /\ ~SemicolonIn(t) /\ ~StopsTwice(t) => CitedStops(t)
<1> DEFINE s == <<Space>>
           h == a \o s
           t == h \o b
           m == Len(a)
           n == Len(b)
<1>1. a \in Seq(AnswerTokens) /\ b \in Seq(AnswerTokens) /\ m \in Nat /\ n \in Nat /\ m >= 1 /\ n >= 1
      /\ DOMAIN a = 1..m /\ DOMAIN b = 1..n
  BY LenProperties DEF Tidy, OneApart
<1>2. s \in Seq(AnswerTokens) /\ Len(s) = 1 /\ s[1] = Space BY DEF AnswerTokens
<1> HIDE DEF s
<1>3. h \in Seq(AnswerTokens) /\ Len(h) = m + 1
      /\ \A i \in 1..(m + 1) : h[i] = IF i <= m THEN a[i] ELSE s[i - m]
  <2>1. h \in Seq(AnswerTokens) /\ Len(h) = Len(a) + Len(s)
        /\ \A i \in 1..(Len(a) + Len(s)) : h[i] = IF i <= Len(a) THEN a[i] ELSE s[i - Len(a)]
    BY <1>1, <1>2, ConcatProperties
  <2> HIDE DEF h
  <2> QED BY <2>1, <1>2
<1>4. (\A i \in 1..m : h[i] = a[i]) /\ h[m + 1] = Space BY <1>1, <1>2, <1>3
<1> HIDE DEF h
<1>5. t \in Seq(AnswerTokens) /\ Len(t) = m + 1 + n
      /\ \A i \in 1..(m + 1 + n) : t[i] = IF i <= m + 1 THEN h[i] ELSE b[i - (m + 1)]
  <2>1. t \in Seq(AnswerTokens) /\ Len(t) = Len(h) + Len(b)
        /\ \A i \in 1..(Len(h) + Len(b)) : t[i] = IF i <= Len(h) THEN h[i] ELSE b[i - Len(h)]
    <3>1. h \in Seq(AnswerTokens) /\ b \in Seq(AnswerTokens) BY <1>1, <1>3
    <3> QED BY <3>1, ConcatProperties
  <2> HIDE DEF t
  <2> QED BY <2>1, <1>3
<1> HIDE DEF t, m, n
<1>6. (\A i \in 1..m : t[i] = a[i]) /\ t[m + 1] = Space BY <1>1, <1>4, <1>5
<1>7. \A i \in 1..n : t[(m + 1) + i] = b[i]
  <2> SUFFICES ASSUME NEW i \in 1..n PROVE t[(m + 1) + i] = b[i] OBVIOUS
  <2>1. (m + 1) + i \in 1..(m + 1 + n) /\ ~((m + 1) + i <= m + 1) /\ ((m + 1) + i) - (m + 1) = i
    BY <1>1
  <2> QED BY <2>1, <1>5
<1>8. ~Blank(t, m) /\ ~Blank(t, 1) /\ ~Blank(t, m + 2) /\ ~Blank(t, m + 1 + n) /\ Blank(t, m + 1)
  BY <1>1, <1>6, <1>7 DEF Tidy, OneApart, m, n, Blank
<1>9. \A i \in 1..(m - 1) : i \in Cuts(a) <=> i \in Cuts(t)
  <2>1. m \in 1..Len(a) /\ m <= Len(t) /\ ~Blank(a, m) /\ \A i \in 1..m : t[i] = a[i]
    BY <1>1, <1>5, <1>6 DEF Tidy, OneApart, m
  <2> QED BY <2>1, <1>1, <1>5, CutsAgree
<1>10. \A i \in 1..n : (m + 1) + i \in Cuts(t) <=> i \in Cuts(b)
  <2>1. m + 1 \in Nat /\ Len(t) = (m + 1) + Len(b) /\ \A i \in 1..Len(b) : t[(m + 1) + i] = b[i]
    BY <1>1, <1>5, <1>7 DEF n
  <2>2. \A i \in 1..Len(b) : (m + 1) + i \in Cuts(t) <=> i \in Cuts(b)
    BY <2>1, <1>1, <1>5, CutsOfEnding
  <2> QED BY <2>2 DEF n
<1>11. m + 1 \notin Cuts(t) BY <1>6, CutAtAStop DEF Space, Semicolon, Dot, Line
<1>12. ASSUME NEW c \in Cuts(t)
       PROVE  \/ c \in 1..(m - 1) /\ c \in Cuts(a)
              \/ c = m
              \/ c - (m + 1) \in 1..n /\ c - (m + 1) \in Cuts(b)
  <2>1. c \in 1..(m + 1 + n) /\ c # m + 1 BY <1>5, <1>11, CutAtAStop
  <2>2. CASE c < m BY <1>1, <1>9, <2>1, <2>2
  <2>3. CASE c > m + 1 BY <1>1, <1>10, <2>1, <2>3
  <2> QED BY <2>1, <2>2, <2>3, <1>1
<1>13. OneApart(t)
  <2>1. ASSUME NEW c \in Cuts(t), c < Len(t)
        PROVE  ~Blank(t, c) /\ t[c + 1] = Space /\ c + 2 <= Len(t) /\ ~Blank(t, c + 2)
    <3>1. CASE c \in 1..(m - 1) /\ c \in Cuts(a)
      <4>1. ~Blank(a, c) /\ a[c + 1] = Space /\ c + 2 <= m /\ ~Blank(a, c + 2)
        BY <3>1, <1>1 DEF Tidy, OneApart, m
      <4>2. c \in 1..m /\ c + 1 \in 1..m /\ c + 2 \in 1..m /\ c + 2 <= Len(t)
        BY <3>1, <4>1, <1>1, <1>5
      <4>3. t[c] = a[c] /\ t[c + 1] = a[c + 1] /\ t[c + 2] = a[c + 2] BY <4>2, <1>6
      <4> QED BY <4>1, <4>2, <4>3 DEF Blank
    <3>2. CASE c = m BY <1>1, <1>5, <1>6, <1>8, <3>2
    <3>3. CASE c - (m + 1) \in 1..n /\ c - (m + 1) \in Cuts(b)
      <4> DEFINE d == c - (m + 1)
      <4>1. d \in 1..n /\ d \in Cuts(b) /\ c = (m + 1) + d
        <5>1. c \in Int BY <2>1, CutAtAStop
        <5> QED BY <5>1, <3>3, <1>1
      <4> HIDE DEF d
      <4>2. d < n BY <4>1, <2>1, <1>1, <1>5
      <4>3. ~Blank(b, d) /\ b[d + 1] = Space /\ d + 2 <= n /\ ~Blank(b, d + 2)
        BY <4>1, <4>2 DEF Tidy, OneApart, n
      <4>4. d + 1 \in 1..n /\ d + 2 \in 1..n /\ c + 2 <= Len(t)
            /\ c + 1 = (m + 1) + (d + 1) /\ c + 2 = (m + 1) + (d + 2)
        BY <4>1, <4>2, <4>3, <1>1, <1>5
      <4>5. t[c] = b[d] /\ t[c + 1] = b[d + 1] /\ t[c + 2] = b[d + 2] BY <4>1, <4>4, <1>7
      <4> QED BY <4>3, <4>4, <4>5 DEF Blank
    <3> QED BY <3>1, <3>2, <3>3, <1>12
  <2>2. Len(t) >= 1 BY <1>1, <1>5
  <2> QED BY <2>1, <2>2, <1>5, <1>8 DEF OneApart
<1>14. ASSUME ~SemicolonIn(t), ~StopsTwice(t) PROVE CitedStops(t)
  <2>1. DOMAIN t = 1..(m + 1 + n) BY <1>5, LenProperties
  <2>2. ~SemicolonIn(a) /\ ~StopsTwice(a)
    <3>1. ~SemicolonIn(a) BY <1>1, <1>6, <1>14, <2>1 DEF SemicolonIn
    <3>2. ASSUME StopsTwice(a) PROVE FALSE
      <4>1. PICK i \in 1..(m - 3) :
                a[i] = Dot /\ a[i + 1] = Space /\ a[i + 2] \in Cites /\ a[i + 3] = Dot
        BY <3>2 DEF StopsTwice, m
      <4>2. i \in 1..m /\ i + 1 \in 1..m /\ i + 2 \in 1..m /\ i + 3 \in 1..m /\ i \in 1..(Len(t) - 3)
        BY <1>1, <1>5
      <4>3. t[i] = Dot /\ t[i + 1] = Space /\ t[i + 2] \in Cites /\ t[i + 3] = Dot
        BY <4>1, <4>2, <1>6
      <4> QED BY <4>2, <4>3, <1>14 DEF StopsTwice
    <3> QED BY <3>1, <3>2
  <2>3. ~SemicolonIn(b) /\ ~StopsTwice(b)
    <3>1. ~SemicolonIn(b)
      <4>1. \A i \in 1..n : (m + 1) + i \in DOMAIN t /\ t[(m + 1) + i] = b[i]
        BY <2>1, <1>1, <1>7
      <4> QED BY <4>1, <1>1, <1>14 DEF SemicolonIn
    <3>2. ASSUME StopsTwice(b) PROVE FALSE
      <4>1. PICK i \in 1..(n - 3) :
                b[i] = Dot /\ b[i + 1] = Space /\ b[i + 2] \in Cites /\ b[i + 3] = Dot
        BY <3>2 DEF StopsTwice, n
      <4> DEFINE k == (m + 1) + i
      <4>2. i \in 1..n /\ i + 1 \in 1..n /\ i + 2 \in 1..n /\ i + 3 \in 1..n /\ k \in 1..(Len(t) - 3)
            /\ k + 1 = (m + 1) + (i + 1) /\ k + 2 = (m + 1) + (i + 2) /\ k + 3 = (m + 1) + (i + 3)
        BY <1>1, <1>5
      <4>3. t[k] = Dot /\ t[k + 1] = Space /\ t[k + 2] \in Cites /\ t[k + 3] = Dot
        BY <4>1, <4>2, <1>7
      <4> HIDE DEF k
      <4> QED BY <4>2, <4>3, <1>14 DEF StopsTwice
    <3> QED BY <3>1, <3>2
  <2>4. (\A c \in Cuts(a) : c = m) /\ (\A c \in Cuts(b) : c = n)
    BY <2>2, <2>3, TidyStops DEF m, n
  <2>5. \A e \in Cuts(t) \cup {Len(t)} : e = m \/ e = m + 1 + n
    <3> SUFFICES ASSUME NEW e \in Cuts(t) PROVE e = m \/ e = m + 1 + n BY <1>5
    <3>1. e \in Int BY CutAtAStop
    <3>2. CASE e \in 1..(m - 1) /\ e \in Cuts(a) BY <3>2, <2>4, <1>1
    <3>3. CASE e - (m + 1) \in 1..n /\ e - (m + 1) \in Cuts(b) BY <1>1, <2>4, <3>1, <3>3
    <3> QED BY <3>2, <3>3, <1>12
  <2>6. \E j \in {m - 1, m} : j >= 1 /\ t[j] \in Cites
    <3>1. CASE a[m] \in Cites BY <3>1, <1>1, <1>6
    <3>2. CASE m >= 2 /\ a[m - 1] \in Cites BY <1>1, <1>6, <3>2
    <3> QED BY <3>1, <3>2 DEF Tidy, EndsCited, m
  <2>7. \E j \in {(m + 1 + n) - 1, m + 1 + n} : j >= 1 /\ t[j] \in Cites
    <3>1. CASE b[n] \in Cites BY <1>1, <1>7, <3>1
    <3>2. CASE n >= 2 /\ b[n - 1] \in Cites BY <1>1, <1>7, <3>2
    <3> QED BY <3>1, <3>2 DEF Tidy, EndsCited, n
  <2> QED BY <2>5, <2>6, <2>7 DEF CitedStops
<1> QED BY <1>13, <1>14 DEF t, h, s

\* A span of such a text ends where the text is cut, or at its end.
LEMMA SpansEndAtCuts ==
    ASSUME NEW t, OneApart(t), NEW p \in SpansIn(t)
    PROVE  p[2] \in Cuts(t) \cup {Len(t)}
<1>1. Len(t) \in Nat /\ p[2] \in 1..Len(t) /\ EndsAt(t, p[2])
  BY LenProperties DEF OneApart, SpansIn
<1>2. PICK b \in Cuts(t) \cup {Len(t)} : p[2] <= b /\ \A i \in (p[2] + 1)..b : Blank(t, i)
  BY <1>1 DEF EndsAt
<1>3. b \in Nat /\ b <= Len(t) BY <1>1, CutAtAStop
<1>4. ~Blank(t, b) BY <1>1, <1>2, <1>3 DEF OneApart
<1>5. ~(p[2] < b)
  <2> SUFFICES ASSUME p[2] < b PROVE FALSE OBVIOUS
  <2>1. b \in (p[2] + 1)..b BY <1>1, <1>3
  <2> QED BY <2>1, <1>2, <1>4
<1>6. p[2] = b BY <1>1, <1>2, <1>3, <1>5
<1> QED BY <1>6

\* A span that does not begin the text stands after a white space.
LEMMA SpansStartAfterSpace ==
    ASSUME NEW t, OneApart(t), NEW p \in SpansIn(t), p[1] # 1
    PROVE  Blank(t, p[1] - 1)
<1>1. Len(t) \in Nat /\ p[1] \in 1..Len(t) /\ StartsAt(t, p[1]) /\ ~Blank(t, p[1])
  BY LenProperties DEF OneApart, SpansIn
<1>2. PICK a \in Cuts(t) \cup {0} : a < p[1] /\ \A i \in (a + 1)..(p[1] - 1) : Blank(t, i)
  BY <1>1 DEF StartsAt
<1>3. a \in Nat BY <1>1, CutAtAStop
<1>4. a # p[1] - 1
  <2> SUFFICES ASSUME a = p[1] - 1 PROVE FALSE OBVIOUS
  <2>1. a \in Cuts(t) /\ a < Len(t) /\ a + 1 = p[1] BY <1>1, <1>2
  <2>2. t[p[1]] = Space BY <2>1 DEF OneApart
  <2> QED BY <2>2, <1>1 DEF Blank
<1>5. p[1] - 1 \in (a + 1)..(p[1] - 1) BY <1>1, <1>2, <1>3, <1>4
<1> QED BY <1>2, <1>5

\* Where every part ends with a citation, every span has one.
LEMMA SpansCite ==
    ASSUME NEW t, OneApart(t), CitedStops(t), NEW p \in SpansIn(t)
    PROVE  CitedIn(t, p) # {}
<1>1. Len(t) \in Nat /\ p[1] \in 1..Len(t) /\ p[2] \in 1..Len(t) /\ p[1] <= p[2]
  BY LenProperties DEF OneApart, SpansIn
<1>2. p[2] \in Cuts(t) \cup {Len(t)} BY SpansEndAtCuts
<1>3. PICK j \in {p[2] - 1, p[2]} : j >= 1 /\ t[j] \in Cites BY <1>2 DEF CitedStops
<1>4. j \in p[1]..p[2]
  <2>1. CASE j = p[2] BY <2>1, <1>1
  <2>2. CASE j = p[2] - 1 /\ p[1] # p[2] BY <2>2, <1>1
  <2>3. CASE j = p[2] - 1 /\ p[1] = p[2]
    <3>1. p[1] # 1 BY <2>3, <1>1, <1>3
    <3>2. Blank(t, j) BY <3>1, <2>3, SpansStartAfterSpace
    <3>3. \A c \in Cites : c # Space /\ c # Line BY DEF Cites, Space, Line
    <3> QED BY <3>2, <3>3, <1>3 DEF Blank
  <2> QED BY <2>1, <2>2, <2>3
<1> QED BY <1>3, <1>4 DEF CitedIn

\* The first span begins the text, and each other one stands one white space after the
\* one before it.
LEMMA SpansFollow ==
    ASSUME NEW t, OneApart(t)
    PROVE  LET s == Spans(t)
           IN  /\ s \in Seq(SpansIn(t)) /\ Len(s) \in Nat /\ \A i \in 1..Len(s) : s[i] \in SpansIn(t)
               /\ \A i \in 1..Len(s) : s[i][1] = IF i = 1 THEN 1 ELSE s[i - 1][2] + 2
<1> DEFINE S == SpansIn(t)
           s == Spans(t)
           N == Len(s)
<1>1. t \in Seq(AnswerTokens) /\ Len(t) \in Nat /\ Len(t) >= 1 /\ ~Blank(t, 1)
  BY LenProperties DEF OneApart
<1>2. StartApart(S) BY <1>1, SpansApart
<1>3. /\ N \in Nat /\ s \in Seq(S)
      /\ \A i \in 1..N : s[i] \in S
      /\ \A p \in S : \E i \in 1..N : s[i] = p
      /\ \A i, j \in 1..N : i < j <=> s[i][1] < s[j][1]
  <2> DEFINE x == InTextOrder(S)
  <2>1. s = x BY DEF Spans
  <2> HIDE DEF S, s
  <2>2. /\ Cardinality(S) \in Nat /\ x \in Seq(S) /\ Len(x) = Cardinality(S)
        /\ \A i \in 1..Cardinality(S) : x[i] \in S
        /\ \A p \in S : \E i \in 1..Cardinality(S) : x[i] = p
        /\ \A i, j \in 1..Cardinality(S) : i < j <=> x[i][1] < x[j][1]
    BY <1>2, InOrderOfText
  <2> HIDE DEF x
  <2> QED BY <2>1, <2>2
<1>4. \A p \in S : /\ p[1] \in 1..Len(t) /\ p[2] \in 1..Len(t) /\ p[1] <= p[2]
                   /\ ~Blank(t, p[1]) /\ StartsAt(t, p[1])
  BY DEF SpansIn
<1> HIDE DEF S, s
<1>5. ASSUME NEW i \in 1..N, i = 1 PROVE s[i][1] = 1
  <2>1. StartsAt(t, 1) BY DEF StartsAt
  <2>2. PICK p \in S : p[1] = 1 BY <1>1, <2>1, SpanStarting DEF S
  <2>3. PICK j \in 1..N : s[j] = p BY <1>3
  <2>4. ~(s[j][1] < s[i][1])
    <3>1. ~(j < i) BY <1>3, <1>5
    <3> QED BY <3>1, <1>3
  <2>5. s[i][1] \in 1..Len(t) BY <1>3, <1>4
  <2> QED BY <2>2, <2>3, <2>4, <2>5, <1>1
<1>6. ASSUME NEW i \in 1..N, i # 1 PROVE s[i][1] = s[i - 1][2] + 2
  <2> DEFINE p == s[i - 1]
             m == s[i][1]
  <2>1. i - 1 \in 1..N /\ i - 1 < i /\ i \in Nat BY <1>3, <1>6
  <2>2. p \in S /\ s[i] \in S /\ p[1] < m BY <1>3, <2>1
  <2>3. /\ m \in 1..Len(t) /\ ~Blank(t, m) /\ StartsAt(t, m)
        /\ p[1] \in 1..Len(t) /\ p[2] \in 1..Len(t) /\ p[1] <= p[2]
    BY <1>4, <2>2
  <2> HIDE DEF p, m
  <2>4. PICK a \in Cuts(t) : p[2] <= a /\ a < m /\ \A k \in (a + 1)..(m - 1) : Blank(t, k)
    BY <1>1, <2>2, <2>3, EndsBeforeTheNext DEF S
  <2>5. a \in 1..Len(t) BY CutAtAStop
  <2>6. p[2] < m /\ p[2] < Len(t) BY <2>3, <2>4, <2>5, <1>1
  <2>7. p[2] \in Cuts(t) BY <2>2, <2>6, SpansEndAtCuts DEF S
  <2>8. t[p[2] + 1] = Space /\ p[2] + 2 <= Len(t) /\ ~Blank(t, p[2] + 2)
    BY <2>6, <2>7 DEF OneApart
  <2>9. m # p[2] + 1 BY <2>3, <2>8 DEF Blank
  <2>10. StartsAt(t, p[2] + 2)
    <3> DEFINE c == p[2]
               d == c + 2
    <3>1. c \in Nat /\ c \in Cuts(t) \cup {0} /\ Blank(t, c + 1) BY <2>3, <2>7, <2>8 DEF Blank
    <3>2. d \in Nat /\ d = c + 2 BY <3>1
    <3> HIDE DEF c, d
    <3>3. c < d BY <3>1, <3>2
    <3>4. \A k \in (c + 1)..(d - 1) : k = c + 1 BY <3>1, <3>2
    <3>5. \A k \in (c + 1)..(d - 1) : Blank(t, k) BY <3>1, <3>4
    <3>6. StartsAt(t, d) BY <3>1, <3>3, <3>5 DEF StartsAt
    <3> QED BY <3>6 DEF c, d
  <2>11. PICK r \in S : r[1] = p[2] + 2 BY <1>1, <2>3, <2>8, <2>10, SpanStarting DEF S
  <2>12. PICK j \in 1..N : s[j] = r BY <1>3
  <2>13. ~(m > p[2] + 2)
    <3> SUFFICES ASSUME m > p[2] + 2 PROVE FALSE OBVIOUS
    <3>1. s[j][1] < s[i][1] BY <2>3, <2>11, <2>12, <1>1 DEF m
    <3>2. j < i BY <3>1, <1>3
    <3>3. p[1] < s[j][1] BY <2>3, <2>11, <2>12, <1>1
    <3>4. i - 1 < j BY <3>3, <2>1, <1>3 DEF p
    <3> QED BY <3>2, <3>4, <2>1, <1>3
  <2>14. m = p[2] + 2 BY <2>3, <2>6, <2>9, <2>13, <1>1
  <2> QED BY <2>14 DEF m, p
<1> QED BY <1>3, <1>5, <1>6 DEF s, S

\* _extractive_stream places every sentence where it stands.
LEMMA AnsweredAre ==
    ASSUME NEW t, OneApart(t)
    PROVE  LET s == Spans(t)
           IN  /\ Answered(t) \in Seq(AnswerSentences) /\ Len(Answered(t)) = Len(s)
               /\ \A i \in 1..Len(s) : s[i] \in SpansIn(t) /\ Answered(t)[i] = Sentence(t, s[i], i)
<1> DEFINE s == Spans(t)
           N == Len(s)
<1>1. /\ s \in Seq(SpansIn(t)) /\ N \in Nat /\ (\A i \in 1..N : s[i] \in SpansIn(t))
      /\ \A i \in 1..N : s[i][1] = IF i = 1 THEN 1 ELSE s[i - 1][2] + 2
  BY SpansFollow
<1>2. DOMAIN s = 1..N BY <1>1, LenProperties
<1>3. \A i \in 1..N : s[i] \in Nat \X Nat /\ s[i][1] <= s[i][2]
  BY <1>1, LenProperties DEF SpansIn, OneApart
<1> DEFINE Is(h) == h = [i \in 0..N |-> IF i = 0 THEN 0 ELSE h[i - 1] + LengthOfSpan(s[i]) + 1]
           f == [i \in 0..N |-> IF i = 0 THEN 0 ELSE s[i][2] + 1]
           o == Offsets(s)
<1>4. o = CHOOSE h : Is(h) BY DEF Offsets
<1> HIDE DEF s
<1>5. \A i \in 1..N : f[i] = f[i - 1] + LengthOfSpan(s[i]) + 1
  <2> SUFFICES ASSUME NEW i \in 1..N PROVE f[i] = f[i - 1] + LengthOfSpan(s[i]) + 1 OBVIOUS
  <2>1. i \in 0..N /\ i # 0 /\ i - 1 \in 0..N BY <1>1
  <2>2. f[i] = s[i][2] + 1 BY <2>1
  <2>3. s[i][1] \in Nat /\ s[i][2] \in Nat BY <1>3
  <2>4. CASE i = 1 BY <1>1, <2>1, <2>2, <2>3, <2>4 DEF LengthOfSpan
  <2>5. CASE i # 1
    <3>1. f[i - 1] = s[i - 1][2] + 1 /\ s[i][1] = s[i - 1][2] + 2 BY <2>1, <2>5, <1>1
    <3>2. s[i - 1][2] \in Nat BY <1>1, <1>3, <2>1, <2>5
    <3>3. LengthOfSpan(s[i]) = s[i][2] - s[i][1] + 1 BY DEF LengthOfSpan
    <3> DEFINE x == s[i][1]
               y == s[i][2]
               z == s[i - 1][2]
               n == LengthOfSpan(s[i])
    <3>4. /\ x \in Nat /\ y \in Nat /\ z \in Nat /\ x = z + 2 /\ n = y - x + 1
          /\ f[i - 1] = z + 1 /\ f[i] = y + 1
      BY <3>1, <3>2, <3>3, <2>2, <2>3
    <3> HIDE DEF f, x, y, z, n
    <3>5. f[i] = f[i - 1] + n + 1 BY <3>4
    <3> QED BY <3>5 DEF n
  <2> QED BY <2>4, <2>5
<1>6. Is(f)
  <2>1. \A i \in 0..N : f[i] = IF i = 0 THEN 0 ELSE f[i - 1] + LengthOfSpan(s[i]) + 1
    <3>1. \A i \in 0..N : i # 0 => i \in 1..N BY <1>1
    <3>2. f[0] = 0 BY <1>1
    <3> HIDE DEF f
    <3> QED BY <3>1, <3>2, <1>5
  <2>2. f = [i \in 0..N |-> f[i]] OBVIOUS
  <2> HIDE DEF f, N
  <2> QED BY <2>1, <2>2
<1>7. Is(o)
  <2> HIDE DEF Is, f
  <2> QED BY <1>4, <1>6
<1> HIDE DEF o, f
<1>8. \A i \in 0..N : o[i] = IF i = 0 THEN 0 ELSE s[i][2] + 1
  <2> DEFINE P == {i \in 0..N : o[i] = IF i = 0 THEN 0 ELSE s[i][2] + 1}
  <2>1. \A i \in 0..N : o[i] = IF i = 0 THEN 0 ELSE o[i - 1] + LengthOfSpan(s[i]) + 1
    <3> HIDE DEF N
    <3> QED BY <1>7
  <2>2. 0 \in P BY <2>1, <1>1
  <2>3. ASSUME NEW i \in 1..N, i - 1 \in P PROVE i \in P
    <3>1. i \in 0..N /\ i # 0 /\ i - 1 \in 0..N BY <1>1
    <3>2. o[i] = o[i - 1] + LengthOfSpan(s[i]) + 1 BY <2>1, <3>1
    <3>3. o[i - 1] = IF i - 1 = 0 THEN 0 ELSE s[i - 1][2] + 1 BY <2>3
    <3>4. s[i][1] \in Nat /\ s[i][2] \in Nat BY <1>3
    <3>5. o[i] = s[i][2] + 1
      <4>1. CASE i = 1 BY <1>1, <3>2, <3>3, <3>4, <4>1 DEF LengthOfSpan
      <4>2. CASE i # 1
        <5>1. i - 1 \in 1..N /\ i - 1 # 0 BY <3>1, <4>2, <1>1
        <5>2. o[i - 1] = s[i - 1][2] + 1 /\ s[i][1] = s[i - 1][2] + 2 /\ s[i - 1][2] \in Nat
          BY <3>3, <4>2, <5>1, <1>1, <1>3
        <5> DEFINE x == s[i][1]
                   y == s[i][2]
                   z == s[i - 1][2]
        <5>3. /\ x \in Nat /\ y \in Nat /\ z \in Nat /\ x = z + 2 /\ o[i - 1] = z + 1
              /\ o[i] = o[i - 1] + (y - x + 1) + 1
          BY <5>2, <3>2, <3>4 DEF LengthOfSpan
        <5> HIDE DEF x, y, z
        <5>4. o[i] = y + 1 BY <5>3
        <5> QED BY <5>4 DEF y
      <4> QED BY <4>1, <4>2
    <3> QED BY <3>1, <3>5
  <2> HIDE DEF P
  <2>4. \A i \in 1..N : i - 1 \in P => i \in P BY <2>3
  <2> HIDE DEF N
  <2>5. \A i \in 0..N : i \in P BY <1>1, <2>2, <2>4, CountsUpTo
  <2> QED BY <2>5 DEF P
<1>9. \A i \in 1..N : <<o[i - 1] + 1, o[i - 1] + LengthOfSpan(s[i])>> = s[i]
  <2> SUFFICES ASSUME NEW i \in 1..N
               PROVE  <<o[i - 1] + 1, o[i - 1] + LengthOfSpan(s[i])>> = s[i]
    OBVIOUS
  <2>1. s[i][1] \in Nat /\ s[i][2] \in Nat /\ s[i] = <<s[i][1], s[i][2]>> /\ i - 1 \in 0..N
    BY <1>1, <1>3
  <2>2. o[i - 1] = s[i][1] - 1
    <3>1. o[i - 1] = IF i - 1 = 0 THEN 0 ELSE s[i - 1][2] + 1 BY <2>1, <1>8
    <3>2. CASE i = 1 BY <3>1, <3>2, <1>1
    <3>3. CASE i # 1 BY <1>1, <1>3, <3>1, <3>3
    <3> QED BY <3>2, <3>3
  <2>3. o[i - 1] + 1 = s[i][1] /\ o[i - 1] + LengthOfSpan(s[i]) = s[i][2]
    <3> DEFINE x == s[i][1]
               y == s[i][2]
    <3>1. x \in Nat /\ y \in Nat /\ o[i - 1] = x - 1 /\ LengthOfSpan(s[i]) = y - x + 1
      BY <2>1, <2>2 DEF LengthOfSpan
    <3> HIDE DEF x, y
    <3>2. o[i - 1] + 1 = x /\ o[i - 1] + LengthOfSpan(s[i]) = y BY <3>1
    <3> QED BY <3>2 DEF x, y
  <2> QED BY <2>1, <2>3
<1> DEFINE v == Answered(t)
<1>10. v = [i \in 1..N |-> Sentence(t, <<o[i - 1] + 1, o[i - 1] + LengthOfSpan(s[i])>>, i)]
  BY <1>2 DEF Answered, PlacedCitations, o, s
<1> HIDE DEF v
<1>11. \A i \in 1..N : v[i] = Sentence(t, s[i], i) /\ v[i] \in AnswerSentences
  <2> SUFFICES ASSUME NEW i \in 1..N PROVE v[i] = Sentence(t, s[i], i) /\ v[i] \in AnswerSentences
    OBVIOUS
  <2>1. v[i] = Sentence(t, s[i], i) BY <1>9, <1>10
  <2>2. CitedIn(t, s[i]) \in SUBSET Cites /\ i \in Nat /\ s[i] \in Nat \X Nat
    BY <1>1, <1>3 DEF CitedIn
  <2> QED BY <2>1, <2>2 DEF Sentence, AnswerSentences
<1>12. v \in [1..N -> AnswerSentences] BY <1>10, <1>11
<1>13. v \in Seq(AnswerSentences) /\ Len(v) = N
  <2> HIDE DEF N
  <2> QED BY <1>1, <1>12, LengthOf
<1> QED BY <1>1, <1>11, <1>13 DEF v, s

-----------------------------------------------------------------------------
(* The answer.                                                              *)

\* A whole text and the sentences of it.
AnsweredWhole ==
    \/ method = "model" /\ sentences = SentencesAt(prose, SpansIn(prose), 0)
    \/ /\ method = "extract"
       /\ \E first, second \in Quotes : prose = TextOf(first, second)
       /\ sentences = Answered(prose)

AnsweringInv ==
    /\ prose \in Seq(AnswerTokens) /\ sentences \in Seq(AnswerSentences) /\ shown = sentences
    /\ stage \in {"asked", "extract"} => prose = << >> /\ emitted = 0 /\ sentences = << >>
    /\ stage = "extract" => method = "extract"
    /\ stage = "model" =>
            /\ method = "model"
            /\ \E A \in SUBSET SpansIn(prose) :
                    /\ Passed(prose, A)
                    /\ emitted = Cardinality(A)
                    /\ sentences = SentencesAt(prose, A, 0)
    /\ stage \in {"whole", "stored"} => AnsweredWhole
    /\ stage = "stored" => stored = sentences
    /\ PlacesAreRight

\* Where nothing is to be said, nothing is.
LEMMA NoSentences ==
    ASSUME NEW t
    PROVE  SentencesAt(t, {}, 0) = << >> /\ Cardinality({}) = 0
<1> DEFINE E == {}
           v == SentencesAt(t, E, 0)
           x == InTextOrder(Saying(t, E))
<1>1. StartApart(E) /\ E \in SUBSET (Nat \X Nat) /\ Cardinality(E) = 0
  BY FS_EmptySet DEF StartApart
<1>2. Saying(t, E) = E BY DEF Saying
<1> HIDE DEF E
<1>3. v \in Seq(AnswerSentences) /\ Len(v) = Len(x) BY <1>1, SentencesAre
<1>4. Len(InTextOrder(E)) = 0 BY <1>1, InOrderOfText
<1>5. v = << >>
  <2> HIDE DEF v
  <2> QED BY <1>2, <1>3, <1>4, EmptySeq
<1> QED BY <1>1, <1>5 DEF E

\* The empty text has no spans.
LEMMA NoSpans == SpansIn(<< >>) = {} /\ Passed(<< >>, {})
BY DEF SpansIn, Passed

\* Sentences of a text's spans have their places in it.
LEMMA SentencesHavePlaces ==
    ASSUME NEW t \in Seq(AnswerTokens), NEW A \in SUBSET SpansIn(t)
    PROVE  LET s == SentencesAt(t, A, 0)
           IN  /\ s \in Seq(AnswerSentences)
               /\ \A i \in DOMAIN s : s[i].span \in SpansIn(t) /\ s[i].cited = CitedIn(t, s[i].span)
<1> DEFINE s == SentencesAt(t, A, 0)
           x == InTextOrder(Saying(t, A))
<1>1. StartApart(A) /\ A \in SUBSET (Nat \X Nat) /\ 0 \in Nat
  BY SpansApart, PartsApart, SpansArePlaces
<1>2. s \in Seq(AnswerSentences) /\ \A i \in 1..Len(s) : x[i] \in A /\ s[i] = Sentence(t, x[i], 0 + i)
  BY <1>1, SentencesAre
<1> HIDE DEF s, x
<1>3. \A i \in DOMAIN s : x[i] \in SpansIn(t) /\ s[i] = Sentence(t, x[i], 0 + i)
  BY <1>2, LenProperties
<1>4. \A i \in DOMAIN s : s[i].span = x[i] /\ s[i].cited = CitedIn(t, x[i]) BY <1>3 DEF Sentence
<1>5. \A i \in DOMAIN s : s[i].span \in SpansIn(t) /\ s[i].cited = CitedIn(t, s[i].span)
  BY <1>3, <1>4
<1> QED BY <1>2, <1>5 DEF s

\* _emit_new_sentences shows what is still missing, and records it.
LEMMA EmitsTheRest ==
    ASSUME NEW t, NEW S \in SUBSET (Nat \X Nat), StartApart(S), NEW A \in SUBSET S,
           \A p \in A : \A q \in S \ A : p[1] < q[1],
           emitted = Cardinality(A), sentences = SentencesAt(t, A, 0), shown = sentences,
           EmitFrom(t, InTextOrder(S))
    PROVE  emitted' = Cardinality(S) /\ sentences' = SentencesAt(t, S, 0) /\ shown' = sentences'
<1> DEFINE spans == InTextOrder(S)
           n == Cardinality(A)
           a == SentencesAt(t, A, 0)
           fresh == SentencesAt(t, {spans[i] : i \in (emitted + 1)..Len(spans)}, Len(sentences))
<1>1. /\ {spans[i] : i \in (n + 1)..Len(spans)} = S \ A
      /\ Len(spans) = Cardinality(S) /\ n <= Len(spans) /\ n \in Nat /\ Len(spans) \in Nat
      /\ SentencesAt(t, S, 0) = a \o SentencesAt(t, S \ A, Len(a))
  <2>1. /\ S \in SUBSET (Nat \X Nat) /\ StartApart(S) /\ A \in SUBSET S
        /\ \A p \in A : \A q \in S \ A : p[1] < q[1]
    OBVIOUS
  <2>2. /\ {spans[i] : i \in (n + 1)..Len(spans)} = S \ A
        /\ Len(spans) = Cardinality(S) /\ n <= Len(spans) /\ n \in Nat /\ Len(spans) \in Nat
    BY <2>1, EmittedAre
  <2>3. SentencesAt(t, S, 0) = a \o SentencesAt(t, S \ A, Len(a))
    <3> DEFINE B == S \ A
    <3>1. A \cup B = S /\ A \in SUBSET (Nat \X Nat) /\ B \in SUBSET (Nat \X Nat) BY <2>1
    <3>2. (\A p \in A : \A q \in B : p[1] < q[1]) /\ StartApart(A \cup B) BY <2>1, <3>1
    <3> HIDE DEF B
    <3>3. SentencesAt(t, A \cup B, 0) = SentencesAt(t, A, 0) \o SentencesAt(t, B, Len(SentencesAt(t, A, 0)))
      BY <3>1, <3>2, SentencesJoined
    <3> QED BY <3>1, <3>3 DEF B
  <2> QED BY <2>2, <2>3
<1>2. /\ sentences' = sentences \o fresh /\ shown' = shown \o fresh
      /\ emitted' = IF Len(spans) > emitted THEN Len(spans) ELSE emitted
  BY DEF EmitFrom
<1>3. fresh = SentencesAt(t, S \ A, Len(a)) BY <1>1
<1> HIDE DEF spans, fresh, a, n
<1>4. emitted = n /\ sentences = a BY DEF n, a
<1>5. emitted' = Cardinality(S) BY <1>1, <1>2, <1>4
<1> QED BY <1>1, <1>2, <1>3, <1>4, <1>5

\* A text of two quotes is one that is cut where it was built.
LEMMA TextIsTidy ==
    ASSUME NEW first \in Quotes, NEW second \in Quotes
    PROVE  LET t == TextOf(first, second)
           IN  /\ OneApart(t) /\ t \in Seq(AnswerTokens)
               /\ ~SemicolonIn(t) /\ ~StopsTwice(t) => CitedStops(t)
<1> DEFINE a == WithCitation(first, "[1]")
           b == WithCitation(second, "[2]")
<1>1. "[1]" \in Cites /\ "[2]" \in Cites BY DEF Cites
<1>2. Tidy(a) /\ Tidy(b) BY <1>1, CitationTidy
<1>3. TextOf(first, second) = a \o <<Space>> \o b BY DEF TextOf
<1> HIDE DEF a, b
<1> DEFINE t == a \o <<Space>> \o b
<1>4. OneApart(t) /\ (~SemicolonIn(t) /\ ~StopsTwice(t) => CitedStops(t)) BY <1>2, TwoJoined
<1> HIDE DEF t
<1>5. t \in Seq(AnswerTokens) BY <1>4 DEF OneApart
<1>6. TextOf(first, second) = t BY <1>3 DEF t
<1> QED BY <1>4, <1>5, <1>6

\* The answer begins with nothing said.
LEMMA AnsweringStarts ==
    ASSUME AnsweringInit PROVE AnsweringInv
<1>1. << >> \in Seq(AnswerTokens) /\ << >> \in Seq(AnswerSentences) /\ DOMAIN << >> = {}
  BY EmptySeq
<1>2. stage = "asked" /\ prose = << >> /\ emitted = 0 /\ sentences = << >> /\ shown = << >>
  BY DEF AnsweringInit
<1>3. PlacesAreRight BY <1>1, <1>2 DEF PlacesAreRight
<1> QED BY <1>1, <1>2, <1>3 DEF AnsweringInv

\* An arriving piece keeps the answer in order.
LEMMA DeltaKeeps ==
    ASSUME AnsweringInv, NEW piece \in Pieces, Delta(piece)
    PROVE  AnsweringInv'
<1> DEFINE u == prose \o piece
<1>1. /\ stage = "model" /\ stage' = "model" /\ method' = method /\ prose' = u
      /\ EmitFrom(u, Complete(Spans(u)))
  BY DEF Delta
<1>2. /\ prose \in Seq(AnswerTokens) /\ sentences \in Seq(AnswerSentences) /\ shown = sentences /\ method = "model"
  BY <1>1 DEF AnsweringInv
<1>3. PICK A \in SUBSET SpansIn(prose) : /\ Passed(prose, A)
                                         /\ emitted = Cardinality(A)
                                         /\ sentences = SentencesAt(prose, A, 0)
  BY <1>1 DEF AnsweringInv
<1>4. u \in Seq(AnswerTokens) /\ Len(prose) <= Len(u) /\ \A i \in 1..Len(prose) : u[i] = prose[i]
  <2>1. piece \in Seq(AnswerTokens) BY AnsweringAssumption
  <2>2. Len(prose) \in Nat /\ Len(piece) \in Nat BY <1>2, <2>1, LenProperties
  <2>3. u \in Seq(AnswerTokens) /\ Len(u) = Len(prose) + Len(piece)
        /\ \A i \in 1..(Len(prose) + Len(piece)) :
                u[i] = IF i <= Len(prose) THEN prose[i] ELSE piece[i - Len(prose)]
    BY <1>2, <2>1, ConcatProperties
  <2> HIDE DEF u
  <2>4. \A i \in 1..Len(prose) : i \in 1..(Len(prose) + Len(piece)) /\ i <= Len(prose) BY <2>2
  <2> QED BY <2>2, <2>3, <2>4
<1> HIDE DEF u
<1>5. PICK S \in SUBSET SpansIn(u) :
              /\ Passed(u, S)
              /\ Complete(Spans(u)) = InTextOrder(S)
              /\ A \in SUBSET S /\ \A p \in A : \A q \in S \ A : p[1] < q[1]
              /\ SentencesAt(u, A, 0) = SentencesAt(prose, A, 0)
  BY <1>2, <1>3, <1>4, PassedStays
<1>6. StartApart(S) /\ S \in SUBSET (Nat \X Nat) BY <1>4, SpansApart, PartsApart, SpansArePlaces
<1>7. emitted' = Cardinality(S) /\ sentences' = SentencesAt(u, S, 0) /\ shown' = sentences'
  BY <1>1, <1>2, <1>3, <1>5, <1>6, EmitsTheRest
<1>8. /\ sentences' \in Seq(AnswerSentences)
      /\ \A i \in DOMAIN sentences' :
            /\ sentences'[i].span \in SpansIn(u)
            /\ sentences'[i].cited = CitedIn(u, sentences'[i].span)
  BY <1>4, <1>7, SentencesHavePlaces
<1>9. PlacesAreRight' BY <1>1, <1>8 DEF PlacesAreRight
<1> QED BY <1>1, <1>2, <1>4, <1>5, <1>7, <1>8, <1>9 DEF AnsweringInv

\* The end of the text says what is left of it.
LEMMA EndKeeps ==
    ASSUME AnsweringInv, ModelEnds
    PROVE  AnsweringInv'
<1>1. /\ stage = "model" /\ stage' = "whole" /\ method' = method /\ prose' = prose
      /\ EmitFrom(prose, Spans(prose))
  BY DEF ModelEnds
<1>2. /\ prose \in Seq(AnswerTokens) /\ sentences \in Seq(AnswerSentences) /\ shown = sentences /\ method = "model"
  BY <1>1 DEF AnsweringInv
<1>3. PICK A \in SUBSET SpansIn(prose) : /\ Passed(prose, A)
                                         /\ emitted = Cardinality(A)
                                         /\ sentences = SentencesAt(prose, A, 0)
  BY <1>1 DEF AnsweringInv
<1> DEFINE S == SpansIn(prose)
<1>4. StartApart(S) /\ S \in SUBSET (Nat \X Nat) BY <1>2, SpansApart, SpansArePlaces
<1>5. \A p \in A : \A q \in S \ A : p[1] < q[1]
  <2>1. CASE A = {} BY <2>1
  <2>2. CASE A # {}
    <3>1. PICK last \in S : A = S \ {last} /\ \A p \in A : p[1] < last[1]
      BY <2>2, <1>3 DEF Passed
    <3>2. S \ A = {last} BY <3>1
    <3> QED BY <3>1, <3>2
  <2> QED BY <2>1, <2>2
<1>6. EmitFrom(prose, InTextOrder(S)) /\ A \in SUBSET S BY <1>1 DEF Spans
<1> HIDE DEF S
<1>7. sentences' = SentencesAt(prose, S, 0) /\ shown' = sentences'
  BY <1>2, <1>3, <1>4, <1>5, <1>6, EmitsTheRest
<1>8. /\ sentences' \in Seq(AnswerSentences)
      /\ \A i \in DOMAIN sentences' :
            /\ sentences'[i].span \in SpansIn(prose)
            /\ sentences'[i].cited = CitedIn(prose, sentences'[i].span)
  BY <1>2, <1>7, SentencesHavePlaces DEF S
<1>9. PlacesAreRight' BY <1>1, <1>8 DEF PlacesAreRight
<1>10. AnsweredWhole' BY <1>1, <1>2, <1>7 DEF AnsweredWhole, S
<1> QED BY <1>1, <1>2, <1>7, <1>8, <1>9, <1>10 DEF AnsweringInv

\* An answer from the evidence is whole at once.
LEMMA ExtractiveKeeps ==
    ASSUME AnsweringInv, NEW first \in Quotes, NEW second \in Quotes, Extract(first, second)
    PROVE  AnsweringInv'
<1> DEFINE t == TextOf(first, second)
           v == Answered(t)
           s == Spans(t)
<1>1. /\ stage = "extract" /\ stage' = "whole" /\ method' = method
      /\ prose' = t /\ sentences' = v /\ shown' = v
  BY DEF Extract
<1>2. method = "extract" BY <1>1 DEF AnsweringInv
<1>3. OneApart(t) /\ t \in Seq(AnswerTokens) BY TextIsTidy
<1>4. prose' = TextOf(first, second) BY <1>1
<1> HIDE DEF t
<1>5. /\ v \in Seq(AnswerSentences) /\ Len(v) = Len(s)
      /\ \A i \in 1..Len(s) : s[i] \in SpansIn(t) /\ v[i] = Sentence(t, s[i], i)
  BY <1>3, AnsweredAre
<1> HIDE DEF s
<1>6. AnsweredWhole' BY <1>1, <1>2, <1>4 DEF AnsweredWhole
<1> HIDE DEF v
<1>7. \A i \in DOMAIN v : v[i].span \in SpansIn(t) /\ v[i].cited = CitedIn(t, v[i].span)
  <2> SUFFICES ASSUME NEW i \in DOMAIN v
               PROVE  v[i].span \in SpansIn(t) /\ v[i].cited = CitedIn(t, v[i].span)
    OBVIOUS
  <2>1. s[i] \in SpansIn(t) /\ v[i] = Sentence(t, s[i], i) BY <1>5, LenProperties
  <2> QED BY <2>1 DEF Sentence
<1>8. PlacesAreRight' BY <1>1, <1>7 DEF PlacesAreRight
<1> QED BY <1>1, <1>3, <1>5, <1>6, <1>8 DEF AnsweringInv

\* What a whole answer says is what its text does.
LEMMA WholeTells ==
    ASSUME AnsweringInv PROVE AnswersTell
<1>1. prose \in Seq(AnswerTokens) /\ sentences \in Seq(AnswerSentences) /\ shown = sentences /\ PlacesAreRight
  BY DEF AnsweringInv
<1>2. CASE stage # "stored"
  BY <1>1, <1>2 DEF AnswersTell, StoredIsTheWhole, ShownIsStored, EverySentenceCites
<1>3. CASE stage = "stored"
  <2>1. stored = sentences /\ AnsweredWhole BY <1>3 DEF AnsweringInv
  <2> DEFINE S == {p \in SpansIn(prose) : method = "extract" \/ SaysSomething(prose, p)}
             x == InTextOrder(S)
  <2>2. /\ x \in Seq(SpansIn(prose)) /\ Len(stored) = Len(x)
        /\ \A i \in 1..Len(stored) : stored[i] = Sentence(prose, x[i], i)
    <3>1. CASE method = "model" /\ sentences = SentencesAt(prose, SpansIn(prose), 0)
      <4> DEFINE A == SpansIn(prose)
                 y == InTextOrder(Saying(prose, A))
      <4>1. StartApart(A) /\ A \in SUBSET (Nat \X Nat) /\ 0 \in Nat
        BY <1>1, SpansApart, SpansArePlaces
      <4>2. S = Saying(prose, A) BY <3>1 DEF Saying
      <4> HIDE DEF A
      <4>3. /\ y \in Seq(A) /\ SentencesAt(prose, A, 0) \in Seq(AnswerSentences)
            /\ Len(SentencesAt(prose, A, 0)) = Len(y)
            /\ \A i \in 1..Len(SentencesAt(prose, A, 0)) :
                    SentencesAt(prose, A, 0)[i] = Sentence(prose, y[i], 0 + i)
        BY <4>1, SentencesAre
      <4>4. x = y /\ stored = SentencesAt(prose, A, 0) BY <2>1, <3>1, <4>2 DEF A
      <4> HIDE DEF x, y
      <4>5. \A i \in 1..Len(stored) : 0 + i = i BY <4>3, <4>4, LenProperties
      <4> QED BY <4>3, <4>4, <4>5 DEF A
    <3>2. CASE method = "extract" /\ sentences = Answered(prose)
               /\ \E first, second \in Quotes : prose = TextOf(first, second)
      <4>1. OneApart(prose) BY <3>2, TextIsTidy
      <4> DEFINE s == Spans(prose)
      <4>2. /\ Len(Answered(prose)) = Len(s)
            /\ \A i \in 1..Len(s) : Answered(prose)[i] = Sentence(prose, s[i], i)
        BY <4>1, AnsweredAre
      <4>3. s \in Seq(SpansIn(prose)) BY <4>1, SpansFollow
      <4>4. S = SpansIn(prose) BY <3>2
      <4>5. x = s BY <4>4 DEF Spans
      <4> HIDE DEF s, x
      <4> QED BY <2>1, <3>2, <4>2, <4>3, <4>5
    <3> QED BY <2>1, <3>1, <3>2 DEF AnsweredWhole
  <2> HIDE DEF x
  <2>3. Len(stored) \in Nat /\ DOMAIN stored = 1..Len(stored) BY <1>1, <2>1, LenProperties
  <2>4. \A i \in DOMAIN stored :
            stored[i].span = x[i] /\ stored[i].index = i /\ stored[i].cited = CitedIn(prose, x[i])
    BY <2>2, <2>3 DEF Sentence
  <2>5. \A i \in 1..Len(stored) : x[i] \in SpansIn(prose) BY <2>2, ElementOfSeq
  <2>6. [i \in DOMAIN stored |-> stored[i].span] = x
    <3> DEFINE f == [i \in 1..Len(stored) |-> stored[i].span]
    <3>1. f \in [1..Len(stored) -> SpansIn(prose)] /\ \A i \in 1..Len(stored) : f[i] = x[i]
      BY <2>3, <2>4, <2>5
    <3>2. f = [i \in DOMAIN stored |-> stored[i].span] BY <2>3
    <3> HIDE DEF f
    <3>3. f \in Seq(SpansIn(prose)) /\ Len(f) = Len(stored) BY <2>3, <3>1, LengthOf
    <3>4. f = x BY <2>2, <3>1, <3>3, SeqEqual
    <3> QED BY <3>2, <3>4
  <2>7. StoredIsTheWhole BY <2>4, <2>6 DEF StoredIsTheWhole, x
  <2>8. ShownIsStored BY <1>1, <2>1 DEF ShownIsStored
  <2>9. EverySentenceCites
    <3> SUFFICES ASSUME method = "extract",
                        Semicolon \notin {prose[i] : i \in DOMAIN prose}, ~StopsTwice(prose),
                        NEW i \in DOMAIN stored
                 PROVE  stored[i].cited # {}
      BY DEF EverySentenceCites
    <3>1. PICK first \in Quotes, second \in Quotes : prose = TextOf(first, second)
      BY <2>1 DEF AnsweredWhole
    <3>2. OneApart(prose) /\ CitedStops(prose) BY <3>1, TextIsTidy DEF SemicolonIn
    <3>3. x[i] \in SpansIn(prose) /\ stored[i].cited = CitedIn(prose, x[i]) BY <2>3, <2>4, <2>5
    <3> QED BY <3>2, <3>3, SpansCite
  <2> QED BY <1>1, <2>7, <2>8, <2>9 DEF AnswersTell
<1> QED BY <1>2, <1>3

\* However a model's text is cut into deltas, and whatever it stops at, the sentences that
\* are shown and stored are those of the whole text, in order and in their places; of an
\* answer built from the evidence each one cites (verify/answer.py).
THEOREM AnsweringStands == AnsweringSpec => []AnswersTell
<1>1. AnsweringInit => AnsweringInv BY AnsweringStarts
<1>2. AnsweringInv /\ [AnsweringNext]_answeringVars => AnsweringInv'
  <2> SUFFICES ASSUME AnsweringInv, [AnsweringNext]_answeringVars PROVE AnsweringInv' OBVIOUS
  <2>1. << >> \in Seq(AnswerTokens) /\ << >> \in Seq(AnswerSentences) /\ DOMAIN << >> = {}
    BY EmptySeq
  <2>2. CASE Ask BY <2>2, NoSpans, NoSentences DEF Ask, AnsweringInv, PlacesAreRight
  <2>3. CASE ModelEnds BY <2>3, EndKeeps
  <2>4. CASE ModelFails
    <3>1. /\ stage' = "extract" /\ method' = "extract" /\ prose' = << >> /\ emitted' = 0
          /\ sentences' = << >> /\ shown' = << >>
      BY <2>4 DEF ModelFails
    <3>2. PlacesAreRight' BY <2>1, <3>1 DEF PlacesAreRight
    <3> QED BY <3>1, <3>2, <2>1 DEF AnsweringInv
  <2>5. CASE Persist BY <2>5 DEF Persist, AnsweringInv, PlacesAreRight, AnsweredWhole
  <2>6. CASE ReaderLeaves BY <2>6 DEF ReaderLeaves, AnsweringInv, PlacesAreRight
  <2>7. ASSUME NEW piece \in Pieces, Delta(piece) PROVE AnsweringInv' BY <2>7, DeltaKeeps
  <2>8. ASSUME NEW first \in Quotes, NEW second \in Quotes, Extract(first, second) PROVE AnsweringInv'
    BY <2>8, ExtractiveKeeps
  <2>9. CASE UNCHANGED answeringVars
    BY <2>9 DEF answeringVars, AnsweringInv, PlacesAreRight, AnsweredWhole
  <2> QED BY <2>2, <2>3, <2>4, <2>5, <2>6, <2>7, <2>8, <2>9 DEF AnsweringNext
<1>3. AnsweringInv => AnswersTell BY WholeTells
<1> QED BY <1>1, <1>2, <1>3, PTL DEF AnsweringSpec

-----------------------------------------------------------------------------
(* Page bodies.                                                             *)

\* A set in order, as a sequence of all its members.
LEMMA InLineFacts ==
    ASSUME NEW S, IsFiniteSet(S), NEW R, StrictlyOrders(R, S)
    PROVE  /\ Cardinality(S) \in Nat /\ InLine(S, R) \in Seq(S) /\ Len(InLine(S, R)) = Cardinality(S)
           /\ DOMAIN InLine(S, R) = 1..Cardinality(S)
           /\ \A n \in DOMAIN InLine(S, R) : InLine(S, R)[n] \in S
           /\ \A x \in S : \E n \in DOMAIN InLine(S, R) : InLine(S, R)[n] = x
<1> DEFINE N == Cardinality(S)
           rank(x) == Cardinality(Below(R, S, x))
           line == InLine(S, R)
<1>1. /\ N \in Nat /\ \A x \in S : rank(x) \in 0..(N - 1)
      /\ \A x, y \in S : rank(x) = rank(y) => x = y
      /\ \A n \in 1..N : \E x \in S : rank(x) = n - 1
  BY Ranks
<1>2. line = [n \in 1..N |-> CHOOSE x \in S : rank(x) = n - 1] BY DEF InLine, Below
<1> HIDE DEF N, rank
<1>3. \A n \in 1..N : line[n] \in S /\ rank(line[n]) = n - 1 BY <1>1, <1>2
<1>4. line \in [1..N -> S] BY <1>2, <1>3
<1> HIDE DEF line
<1>5. line \in Seq(S) /\ Len(line) = N /\ DOMAIN line = 1..N BY <1>1, <1>4, LengthOf
<1>6. ASSUME NEW x \in S PROVE \E n \in 1..N : line[n] = x
  <2> DEFINE n == rank(x) + 1
  <2>1. rank(x) \in 0..(N - 1) /\ N \in Nat BY <1>1
  <2>2. n \in 1..N /\ n - 1 = rank(x) BY <2>1
  <2> HIDE DEF n
  <2>3. line[n] = x BY <1>1, <1>3, <2>2
  <2> QED BY <2>2, <2>3
<1> QED BY <1>1, <1>3, <1>5, <1>6 DEF N, line

\* Numbers in order.
LEMMA ByIdFacts ==
    ASSUME NEW ids \in SUBSET Int, IsFiniteSet(ids)
    PROVE  /\ Cardinality(ids) \in Nat /\ ById(ids) \in Seq(ids) /\ DOMAIN ById(ids) = 1..Cardinality(ids)
           /\ \A n \in DOMAIN ById(ids) : ById(ids)[n] \in ids
           /\ \A i \in ids : \E n \in DOMAIN ById(ids) : ById(ids)[n] = i
<1> DEFINE R == {p \in ids \X ids : p[1] < p[2]}
<1>1. \A i, j \in ids : <<i, j>> \in R <=> i < j OBVIOUS
<1>2. \A i, j, k \in ids : (i < j /\ j < k => i < k) /\ ~(i < i) /\ (i = j \/ i < j \/ j < i)
  OBVIOUS
<1>3. ById(ids) = InLine(ids, R) BY DEF ById
<1> HIDE DEF R
<1>4. StrictlyOrders(R, ids) BY <1>1, <1>2 DEF StrictlyOrders
<1> QED BY <1>3, <1>4, InLineFacts

\* What is kept of a line is what it holds at the places.
LEMMA KeptFacts ==
    ASSUME NEW T, NEW line \in Seq(T), NEW places \in SUBSET (DOMAIN line), NEW left, left = Kept(line, places)
    PROVE  /\ left \in Seq(T)
           /\ \A n \in DOMAIN left : \E i \in places : left[n] = line[i]
           /\ \A i \in places : \E n \in DOMAIN left : left[n] = line[i]
           /\ left = <<>> <=> places = {}
<1> DEFINE ids == ById(places)
           N == Cardinality(places)
<1>1. DOMAIN line = 1..Len(line) /\ Len(line) \in Nat /\ \A i \in DOMAIN line : line[i] \in T
  BY LenProperties, ElementOfSeq
<1>2. places \in SUBSET Int /\ IsFiniteSet(places)
  <2>1. IsFiniteSet(DOMAIN line) BY <1>1, FS_Interval
  <2> QED BY <1>1, <2>1, FS_Subset
<1>3. /\ N \in Nat /\ DOMAIN ids = 1..N
      /\ \A n \in 1..N : ids[n] \in places
      /\ \A i \in places : \E n \in 1..N : ids[n] = i
  BY <1>2, ByIdFacts
<1>4. left = [n \in DOMAIN ids |-> line[ids[n]]] BY DEF Kept
<1> HIDE DEF ids, N
<1>5. left \in [1..N -> T] /\ \A n \in 1..N : left[n] = line[ids[n]] BY <1>1, <1>3, <1>4
<1>6. left \in Seq(T) /\ Len(left) = N /\ DOMAIN left = 1..N BY <1>3, <1>5, LengthOf
<1>7. left = <<>> <=> places = {} BY <1>2, <1>3, <1>6, EmptySeq, FS_EmptySet DEF N
<1>8. \A n \in DOMAIN left : \E i \in places : left[n] = line[i] BY <1>3, <1>5, <1>6
<1>9. \A i \in places : \E n \in DOMAIN left : left[n] = line[i]
  <2> TAKE i \in places
  <2>1. PICK n \in 1..N : ids[n] = i BY <1>3
  <2>2. n \in DOMAIN left BY <1>6
  <2> WITNESS n \in DOMAIN left
  <2> QED BY <1>5, <1>6, <2>1
<1> QED BY <1>6, <1>7, <1>8, <1>9

-----------------------------------------------------------------------------
(* The sides of a page.                                                     *)

\* The claims that are on the page are claims of the page.
LEMMA ClaimsOfPages ==
    /\ PageClaims \subseteq Nat \ {0} /\ PageClaims \subseteq Int /\ IsFiniteSet(PageClaims)
    /\ OnPage \subseteq PageClaims
<1>1. PageClaims \subseteq Nat \ {0} /\ IsFiniteSet(PageClaims)
  BY PageBodyAssumption, CampsAssumption, FS_Subset
<1> QED BY <1>1 DEF OnPage

\* The camps of a page's claims are apart, and each has a first claim.
LEMMA CampsOfPage ==
    ASSUME NEW ids \in SUBSET PageClaims
    PROVE  LET split == ComputeCamps(ids, RowsNow)
           IN  /\ \A k \in split : k.a \subseteq ids /\ k.b \subseteq ids /\ k.a # {}
               /\ \A k, l \in split : k = l \/ k.a \cap l.a = {}
<1> DEFINE g == Graph(ids, RowsNow)
           split == CampsOf(g)
<1>1. ids \subseteq Nat \ {0} /\ IsFiniteSet(ids) BY ClaimsOfPages, FS_Subset
<1>2. DOMAIN RowsNow \subseteq Nat \ {0} /\ IsFiniteSet(DOMAIN RowsNow)
  BY PageBodyAssumption DEF RowsNow
<1>3. IsGraph(g) /\ g.claims = ids
  <2> HIDE DEF RowsNow
  <2> QED BY <1>1, <1>2, GraphIs
<1>4. split = ComputeCamps(ids, RowsNow) BY DEF ComputeCamps
<1> HIDE DEF g
<1>5. /\ \A k \in split : SplitsWell(g, k)
      /\ \A k, l \in split : k = l \/ Both(k) \cap Both(l) = {}
  BY <1>3, CampsAre
<1> HIDE DEF split
<1>6. \A k \in split : k.a \subseteq ids /\ k.b \subseteq ids /\ k.a # {}
  BY <1>3, <1>5 DEF SplitsWell, Both
<1>7. \A k, l \in split : k = l \/ k.a \cap l.a = {} BY <1>5 DEF Both
<1> QED BY <1>4, <1>6, <1>7

\* The sides are camps, each of claims of the page.
LEMMA SidesAre ==
    ASSUME NEW ids \in SUBSET PageClaims
    PROVE  SidesOf(ids) \in Seq(SUBSET ids)
<1> DEFINE split == ComputeCamps(ids, RowsNow)
           R == {p \in split \X split : Min(p[1].a) < Min(p[2].a)}
           line == InLine(split, R)
           twoSides(n) == <<line[n].a>> \o (IF line[n].b = {} THEN <<>> ELSE <<line[n].b>>)
           lines == [n \in DOMAIN line |-> twoSides(n)]
           sides == FlattenSeq(lines)
<1>1. /\ \A k \in split : k.a \subseteq ids /\ k.b \subseteq ids /\ k.a # {}
      /\ \A k, l \in split : k = l \/ k.a \cap l.a = {}
  BY CampsOfPage
<1>2. SidesOf(ids) = IF Len(sides) < 2 THEN <<>> ELSE sides BY DEF SidesOf
<1> HIDE DEF split
<1>3. ids \subseteq Nat /\ IsFiniteSet(ids) BY ClaimsOfPages, FS_Subset
<1>4. /\ \A k \in split : Min(k.a) \in k.a /\ Min(k.a) \in ids
      /\ \A k, l \in split : Min(k.a) = Min(l.a) => k = l
  <2>1. ASSUME NEW k \in split PROVE Min(k.a) \in k.a
    <3> DEFINE T == k.a
    <3>1. T \in SUBSET Nat /\ T # {} BY <1>1, <1>3
    <3> HIDE DEF T
    <3>2. Min(T) \in T BY <3>1, EarliestOf
    <3> QED BY <3>2 DEF T
  <2> QED BY <1>1, <2>1
<1>5. IsFiniteSet(split)
  <2> DEFINE f == [k \in split |-> Min(k.a)]
  <2>1. f \in Injection(split, ids) BY <1>4, Fun_IsInj
  <2> HIDE DEF f
  <2> QED BY <1>3, <2>1, FS_Injection
<1>6. StrictlyOrders(R, split)
  <2> DEFINE m(k) == Min(k.a)
  <2>1. /\ \A k \in split : m(k) \in Nat
        /\ \A k, l \in split : m(k) = m(l) => k = l
        /\ \A k, l \in split : <<k, l>> \in R <=> m(k) < m(l)
    BY <1>3, <1>4
  <2> HIDE DEF m, R
  <2> QED BY <2>1 DEF StrictlyOrders
<1> HIDE DEF R
<1>7. /\ Cardinality(split) \in Nat /\ DOMAIN line = 1..Cardinality(split)
      /\ \A n \in DOMAIN line : line[n] \in split
  BY <1>5, <1>6, InLineFacts
<1> HIDE DEF line
<1>8. \A n \in DOMAIN line : twoSides(n) \in Seq(SUBSET ids)
  <2> TAKE n \in DOMAIN line
  <2>1. line[n].a \in SUBSET ids /\ line[n].b \in SUBSET ids BY <1>1, <1>7
  <2> DEFINE T == SUBSET ids
             a == line[n].a
             b == line[n].b
  <2>2. a \in T /\ b \in T BY <2>1
  <2> HIDE DEF T, a, b
  <2>3. <<a>> \in Seq(T) /\ (IF b = {} THEN <<>> ELSE <<b>>) \in Seq(T) BY <2>2
  <2>4. <<a>> \o (IF b = {} THEN <<>> ELSE <<b>>) \in Seq(T) BY <2>3, ConcatProperties
  <2> QED BY <2>4 DEF T, a, b
<1> HIDE DEF twoSides
<1>9. lines \in Seq(Seq(SUBSET ids)) BY <1>7, <1>8, LengthOf
<1> HIDE DEF lines
<1>10. sides \in Seq(SUBSET ids) BY <1>9, FlattenFacts
<1> HIDE DEF sides
<1> QED BY <1>2, <1>10

\* Told camp by camp, the sides are claims of the page.
LEMMA CampByCampIs ==
    ASSUME NEW ids \in SUBSET PageClaims
    PROVE  CampByCamp(SidesOf(ids)) \in Seq(ids)
<1> DEFINE sides == SidesOf(ids)
           lines == [n \in DOMAIN sides |-> ById(sides[n])]
<1>1. sides \in Seq(SUBSET ids) BY SidesAre
<1>2. CampByCamp(SidesOf(ids)) = FlattenSeq(lines) BY DEF CampByCamp
<1>3. ids \subseteq Int /\ IsFiniteSet(ids) BY ClaimsOfPages, FS_Subset
<1> HIDE DEF sides
<1>4. DOMAIN sides = 1..Len(sides) /\ Len(sides) \in Nat /\ \A n \in DOMAIN sides : sides[n] \in SUBSET ids
  BY <1>1, LenProperties, ElementOfSeq
<1>5. \A n \in DOMAIN sides : ById(sides[n]) \in Seq(ids)
  <2> TAKE n \in DOMAIN sides
  <2> DEFINE S == sides[n]
  <2>1. S \in SUBSET ids BY <1>4
  <2>2. S \in SUBSET Int /\ IsFiniteSet(S) BY <1>3, <2>1, FS_Subset
  <2> HIDE DEF S
  <2>3. ById(S) \in Seq(S) BY <2>2, ByIdFacts
  <2>4. Seq(S) \subseteq Seq(ids) BY <2>1, SeqMonotonic
  <2> QED BY <2>3, <2>4 DEF S
<1>6. lines \in Seq(Seq(ids)) BY <1>4, <1>5, LengthOf
<1> HIDE DEF lines
<1>7. FlattenSeq(lines) \in Seq(ids) BY <1>6, FlattenFacts
<1> QED BY <1>2, <1>7

-----------------------------------------------------------------------------
(* Bodies.                                                                  *)

CitingOnly(T) == {s \in PageSentences : ToSet(s.cites) \subseteq T}

\* The parts of a body.
LEMMA PartsOfBody ==
    ASSUME NEW written \in PageBodies
    PROVE  /\ written.summary \in Seq(PageSentences) /\ written.sections \in Seq(PageSections)
           /\ DOMAIN written.sections = 1..Len(written.sections) /\ Len(written.sections) \in Nat
           /\ \A i \in DOMAIN written.sections :
                /\ written.sections[i] \in PageSections
                /\ written.sections[i].id \in Int /\ written.sections[i].kind \in PageKinds
                /\ written.sections[i].sentences \in Seq(PageSentences)
<1>1. written.summary \in Seq(PageSentences) /\ written.sections \in Seq(PageSections)
  BY DEF PageBodies
<1> DEFINE line == written.sections
<1>2. DOMAIN line = 1..Len(line) /\ Len(line) \in Nat /\ \A i \in DOMAIN line : line[i] \in PageSections
  <2> HIDE DEF line
  <2>1. line \in Seq(PageSections) BY <1>1 DEF line
  <2> QED BY <2>1, LenProperties, ElementOfSeq
<1>3. \A s \in PageSections : s.id \in Int /\ s.kind \in PageKinds /\ s.sentences \in Seq(PageSentences)
  BY DEF PageSections
<1> QED BY <1>1, <1>2, <1>3

\* The sentences of a body are those of its summary and of its sections.
LEMMA SentencesOfBody ==
    ASSUME NEW written \in PageBodies, NEW said, said = SentencesOf(written)
    PROVE  /\ said \in Seq(PageSentences)
           /\ \A i \in DOMAIN said :
                \/ \E j \in DOMAIN written.summary : said[i] = written.summary[j]
                \/ \E n \in DOMAIN written.sections : \E j \in DOMAIN written.sections[n].sentences :
                       said[i] = written.sections[n].sentences[j]
           /\ \A j \in DOMAIN written.summary : \E i \in DOMAIN said : said[i] = written.summary[j]
           /\ \A n \in DOMAIN written.sections : \A j \in DOMAIN written.sections[n].sentences :
                \E i \in DOMAIN said : said[i] = written.sections[n].sentences[j]
<1> DEFINE top == written.summary
           lines == [i \in DOMAIN written.sections |-> written.sections[i].sentences]
           flat == FlattenSeq(lines)
           S == PageSentences
<1>1. top \in Seq(S) /\ lines \in Seq(Seq(S)) BY PartsOfBody, LengthOf
<1>2. DOMAIN lines = DOMAIN written.sections /\ \A n \in DOMAIN lines : lines[n] = written.sections[n].sentences
  OBVIOUS
<1>3. said = top \o flat BY DEF SentencesOf
<1> HIDE DEF top, lines, S
<1>4. flat \in Seq(S) /\ HasAll(flat, lines) BY <1>1, FlattenFacts
<1> HIDE DEF flat
<1>5. said \in Seq(S) /\ HasBoth(said, top, flat)
  BY <1>1, <1>3, <1>4, JoinedFacts, ConcatProperties
<1>6. \A i \in DOMAIN said : \/ \E j \in DOMAIN top : said[i] = top[j]
                             \/ \E n \in DOMAIN lines : \E j \in DOMAIN lines[n] : said[i] = lines[n][j]
  BY <1>4, <1>5 DEF HasAll, HasBoth
<1>7. \A j \in DOMAIN top : \E i \in DOMAIN said : said[i] = top[j] BY <1>5 DEF HasBoth
<1>8. \A n \in DOMAIN lines : \A j \in DOMAIN lines[n] : \E i \in DOMAIN said : said[i] = lines[n][j]
  BY <1>4, <1>5 DEF HasAll, HasBoth
<1> QED BY <1>2, <1>5, <1>6, <1>7, <1>8 DEF top, S

\* What is upheld of some sentences is the supported ones.
LEMMA UpheldAre ==
    ASSUME NEW line \in Seq(PageSentences), NEW ids, NEW left, left = Upheld(line, ids)
    PROVE  /\ left \in Seq(PageSentences)
           /\ \A n \in DOMAIN left : Supported(left[n], ids) /\ \E i \in DOMAIN line : left[n] = line[i]
<1> DEFINE places == {i \in DOMAIN line : Supported(line[i], ids)}
<1>1. left = Kept(line, places) /\ places \in SUBSET (DOMAIN line) BY DEF Upheld
<1>2. /\ left \in Seq(PageSentences)
      /\ \A n \in DOMAIN left : \E i \in places : left[n] = line[i]
  <2> HIDE DEF places
  <2> QED BY <1>1, KeptFacts
<1> QED BY <1>2

\* A validated body is made of the supported sentences of the body.
LEMMA ValidatedIs ==
    ASSUME NEW written \in PageBodies, NEW ids, NEW out, out = Validated(written, ids)
    PROVE  /\ out \in PageBodies
           /\ \A n \in DOMAIN out.summary :
                Supported(out.summary[n], ids) /\ \E i \in DOMAIN written.summary : out.summary[n] = written.summary[i]
           /\ \A n \in DOMAIN out.sections : \E i \in DOMAIN written.sections :
                /\ out.sections[n].kind = written.sections[i].kind
                /\ \A j \in DOMAIN out.sections[n].sentences :
                     /\ Supported(out.sections[n].sentences[j], ids)
                     /\ \E m \in DOMAIN written.sections[i].sentences :
                          out.sections[n].sentences[j] = written.sections[i].sentences[m]
<1> DEFINE line == written.sections
           checked == [i \in DOMAIN line |-> [line[i] EXCEPT !.sentences = Upheld(@, ids)]]
           places == {i \in DOMAIN checked : checked[i].sentences # <<>>}
           top == Upheld(written.summary, ids)
           left == Kept(checked, places)
<1>1. out = [summary |-> top, sections |-> left] BY DEF Validated
<1>2. /\ line \in Seq(PageSections) /\ DOMAIN line = 1..Len(line) /\ Len(line) \in Nat
      /\ written.summary \in Seq(PageSentences)
      /\ \A i \in DOMAIN line : line[i] \in PageSections /\ line[i].sentences \in Seq(PageSentences)
  BY PartsOfBody
<1>3. /\ top \in Seq(PageSentences)
      /\ \A n \in DOMAIN top : Supported(top[n], ids) /\ \E i \in DOMAIN written.summary : top[n] = written.summary[i]
  <2> DEFINE s == written.summary
  <2>1. s \in Seq(PageSentences) BY <1>2
  <2> HIDE DEF s
  <2>2. /\ Upheld(s, ids) \in Seq(PageSentences)
        /\ \A n \in DOMAIN Upheld(s, ids) :
              Supported(Upheld(s, ids)[n], ids) /\ \E i \in DOMAIN s : Upheld(s, ids)[n] = s[i]
    BY <2>1, UpheldAre
  <2> QED BY <2>2 DEF s
<1> HIDE DEF top
<1>4. \A i \in DOMAIN line :
        /\ checked[i] \in PageSections /\ checked[i].kind = line[i].kind
        /\ \A j \in DOMAIN checked[i].sentences :
             /\ Supported(checked[i].sentences[j], ids)
             /\ \E m \in DOMAIN line[i].sentences : checked[i].sentences[j] = line[i].sentences[m]
  <2> TAKE i \in DOMAIN line
  <2> DEFINE s == line[i].sentences
             u == Upheld(s, ids)
             c == checked[i]
  <2>1. c = [line[i] EXCEPT !.sentences = u] /\ line[i] \in PageSections /\ s \in Seq(PageSentences)
    BY <1>2
  <2> HIDE DEF checked
  <2>2. /\ u \in Seq(PageSentences)
        /\ \A n \in DOMAIN u : Supported(u[n], ids) /\ \E m \in DOMAIN s : u[n] = s[m]
    <3> HIDE DEF s
    <3> QED BY <2>1, UpheldAre
  <2> HIDE DEF u, c
  <2>3. c \in PageSections /\ c.kind = line[i].kind /\ c.sentences = u
    BY <2>1, <2>2 DEF PageSections
  <2> QED BY <2>2, <2>3 DEF c
<1>5. checked \in Seq(PageSections) /\ DOMAIN checked = DOMAIN line
  <2>1. DOMAIN checked = 1..Len(line) /\ \A i \in 1..Len(line) : checked[i] \in PageSections
    BY <1>2, <1>4
  <2>2. checked = [i \in 1..Len(line) |-> checked[i]] BY <1>2
  <2> HIDE DEF checked
  <2> QED BY <1>2, <2>1, <2>2, LengthOf
<1> HIDE DEF checked
<1>6. /\ left \in Seq(PageSections)
      /\ \A n \in DOMAIN left : \E i \in places : left[n] = checked[i]
  <2>1. places \in SUBSET (DOMAIN checked) OBVIOUS
  <2> HIDE DEF places
  <2> QED BY <1>5, <2>1, KeptFacts
<1>7. \A n \in DOMAIN left : \E i \in DOMAIN line : left[n] = checked[i] BY <1>5, <1>6
<1> HIDE DEF left
<1>8. out \in PageBodies BY <1>1, <1>3, <1>6 DEF PageBodies
<1>9. \A n \in DOMAIN left : \E i \in DOMAIN line :
        /\ left[n].kind = line[i].kind
        /\ \A j \in DOMAIN left[n].sentences :
             /\ Supported(left[n].sentences[j], ids)
             /\ \E m \in DOMAIN line[i].sentences : left[n].sentences[j] = line[i].sentences[m]
  <2> TAKE n \in DOMAIN left
  <2>1. PICK i \in DOMAIN line : left[n] = checked[i] BY <1>7
  <2> WITNESS i \in DOMAIN line
  <2> QED BY <1>4, <2>1
<1> QED BY <1>1, <1>3, <1>8, <1>9

\* Every sentence of a validated body is supported.
LEMMA ValidatedIsSupported ==
    ASSUME NEW written \in PageBodies, NEW ids
    PROVE  \A i \in DOMAIN SentencesOf(Validated(written, ids)) : Supported(SentencesOf(Validated(written, ids))[i], ids)
<1> DEFINE out == Validated(written, ids)
           said == SentencesOf(out)
<1>1. /\ out \in PageBodies
      /\ \A n \in DOMAIN out.summary : Supported(out.summary[n], ids)
      /\ \A n \in DOMAIN out.sections : \A j \in DOMAIN out.sections[n].sentences :
            Supported(out.sections[n].sentences[j], ids)
  <2> HIDE DEF out
  <2>1. out = Validated(written, ids) BY DEF out
  <2> QED BY <2>1, ValidatedIs
<1> HIDE DEF out
<1>2. \A i \in DOMAIN said :
        \/ \E j \in DOMAIN out.summary : said[i] = out.summary[j]
        \/ \E n \in DOMAIN out.sections : \E j \in DOMAIN out.sections[n].sentences :
               said[i] = out.sections[n].sentences[j]
  BY <1>1, SentencesOfBody
<1>3. \A i \in DOMAIN said : Supported(said[i], ids) BY <1>1, <1>2
<1> QED BY <1>3 DEF out

-----------------------------------------------------------------------------
(* What is composed.                                                        *)

\* Claims that are quoted one by one are what the sentences cite.
LEMMA QuotesAre ==
    ASSUME NEW T \in SUBSET Int, NEW line \in Seq(T)
    PROVE  [i \in DOMAIN line |-> Says(<<line[i]>>, TRUE)] \in Seq(CitingOnly(T))
<1>1. DOMAIN line = 1..Len(line) /\ Len(line) \in Nat /\ \A i \in DOMAIN line : line[i] \in T
  BY LenProperties, ElementOfSeq
<1>2. ASSUME NEW c \in T PROVE Says(<<c>>, TRUE) \in CitingOnly(T)
  <2>1. <<c>> \in Seq(Int) /\ ToSet(<<c>>) = {c} BY DEF ToSet
  <2>2. Says(<<c>>, TRUE) \in PageSentences BY <2>1 DEF Says, PageSentences
  <2> QED BY <2>1, <2>2 DEF CitingOnly, Says
<1>3. \A i \in 1..Len(line) : Says(<<line[i]>>, TRUE) \in CitingOnly(T) BY <1>1, <1>2
<1> QED BY <1>1, <1>3, LengthOf

\* The first few of a line.
LEMMA FirstFew ==
    ASSUME NEW T, NEW line \in Seq(T), NEW n \in Nat
    PROVE  SubSeq(line, 1, IF Len(line) < n THEN Len(line) ELSE n) \in Seq(T)
<1>1. Len(line) \in Nat /\ \A i \in 1..Len(line) : line[i] \in T BY LenProperties, ElementOfSeq
<1> DEFINE m == IF Len(line) < n THEN Len(line) ELSE n
<1>2. m \in 0..Len(line) BY <1>1
<1> HIDE DEF m
<1>3. SubSeq(line, 1, m) \in Seq(T) BY <1>1, <1>2, SubSeqProperties
<1> QED BY <1>3 DEF m

OfflineKinds == {"overview", "disputed", "history"}

\* Without a model the page tells of active claims, if there are any, but for disputes and
\* history.
LEMMA OfflineIs ==
    ASSUME claimStanding \in [PageClaims -> {"active", "superseded", "away"}],
           heir \in [PageClaims -> PageClaims \cup {0}],
           NEW actives, actives = {c \in OnPage : claimStanding[c] = "active"},
           NEW offline, offline = HeuristicPage
    PROVE  /\ offline \in PageBodies
           /\ actives # {} => offline.summary \in Seq(CitingOnly(actives))
           /\ actives # {} => \A n \in DOMAIN offline.sections :
                offline.sections[n].kind \in {"history", "disputed"}
                \/ offline.sections[n].sentences \in Seq(CitingOnly(actives))
<1> DEFINE ids == ById(OnPage)
           active == ById(actives)
           gone == {c \in OnPage : heir[c] # 0}
           past == ById(gone)
           first(n, line) == SubSeq(line, 1, IF Len(line) < n THEN Len(line) ELSE n)
           quote(line) == [i \in DOMAIN line |-> Says(<<line[i]>>, TRUE)]
           told == [i \in DOMAIN past |-> Says(<<past[i], heir[past[i]]>>, TRUE)]
           section(id, kind, said) == IF said = <<>> THEN <<>> ELSE <<Section(id, kind, said)>>
           sides == CampByCamp(SidesOf(OnPage))
           top == quote(first(2, IF active = <<>> THEN ids ELSE active))
           overview == quote(first(6, active))
           disputed == quote(sides)
           S == {s \in PageSections : s.kind \in {"history", "disputed"} \/ s.sentences \in Seq(CitingOnly(actives))}
<1>1. offline = [summary |-> top,
              sections |-> section(1, "overview", overview) \o section(2, "disputed", disputed)
                           \o section(3, "history", told)]
  BY DEF HeuristicPage
<1>2. /\ OnPage \subseteq Int /\ OnPage \subseteq PageClaims /\ IsFiniteSet(OnPage)
      /\ actives \subseteq Int /\ IsFiniteSet(actives) /\ gone \subseteq Int /\ IsFiniteSet(gone)
      /\ gone \subseteq PageClaims
  BY ClaimsOfPages, FS_Subset
<1>3. ids \in Seq(Int) /\ active \in Seq(actives) /\ (active = <<>> => actives = {})
  <2>1. ids \in Seq(OnPage) BY <1>2, ByIdFacts
  <2>0. actives \in SUBSET Int /\ IsFiniteSet(actives) BY <1>2
  <2>2. /\ active \in Seq(actives)
        /\ \A i \in actives : \E n \in DOMAIN active : active[n] = i
    BY <2>0, ByIdFacts
  <2> HIDE DEF ids, active
  <2>3. ids \in Seq(Int) BY <1>2, <2>1, SeqMonotonic
  <2>4. ASSUME active = <<>> PROVE actives = {} BY <2>2, <2>4
  <2> QED BY <2>2, <2>3, <2>4
<1>4. past \in Seq(gone)
  <2> HIDE DEF gone
  <2> QED BY <1>2, ByIdFacts
<1>5. sides \in Seq(Int) BY <1>2, CampByCampIs, SeqMonotonic
<1> HIDE DEF ids, active, past, sides
<1>6. \A T \in SUBSET Int : \A line \in Seq(T) : quote(line) \in Seq(CitingOnly(T)) BY QuotesAre
<1>7. \A T : \A line \in Seq(T) : \A n \in Nat : first(n, line) \in Seq(T) BY FirstFew
<1> HIDE DEF first, quote
<1>8. \A T \in SUBSET Int : Seq(CitingOnly(T)) \subseteq Seq(PageSentences)
  BY SeqMonotonic DEF CitingOnly
<1>9. overview \in Seq(CitingOnly(actives)) /\ overview \in Seq(PageSentences)
  BY <1>2, <1>3, <1>6, <1>7, <1>8
<1>10. disputed \in Seq(PageSentences) BY <1>5, <1>6, <1>8
<1>11. told \in Seq(PageSentences)
  <2>1. DOMAIN past = 1..Len(past) /\ Len(past) \in Nat /\ \A i \in DOMAIN past : past[i] \in gone
    BY <1>4, LenProperties, ElementOfSeq
  <2>2. \A i \in DOMAIN past : past[i] \in Int /\ heir[past[i]] \in Int
    BY <1>2, <2>1, ClaimsOfPages
  <2>3. \A c, d \in Int : Says(<<c, d>>, TRUE) \in PageSentences BY DEF Says, PageSentences
  <2>4. \A i \in 1..Len(past) : Says(<<past[i], heir[past[i]]>>, TRUE) \in PageSentences
    BY <2>1, <2>2, <2>3
  <2> QED BY <2>1, <2>4, LengthOf
<1>12. top \in Seq(PageSentences) /\ (actives # {} => top \in Seq(CitingOnly(actives)))
  <2>1. CASE actives = {}
    <3> DEFINE line == IF active = <<>> THEN ids ELSE active
    <3>1. line \in Seq(Int) BY <1>2, <1>3, SeqMonotonic
    <3>2. Int \in SUBSET Int /\ 2 \in Nat OBVIOUS
    <3> HIDE DEF line
    <3>3. first(2, line) \in Seq(Int) BY <1>7, <3>1, <3>2
    <3>4. quote(first(2, line)) \in Seq(PageSentences) BY <1>6, <1>8, <3>2, <3>3
    <3> QED BY <2>1, <3>4 DEF line
  <2>2. CASE actives # {} BY <1>2, <1>3, <1>6, <1>7, <1>8, <2>2
  <2> QED BY <2>1, <2>2
<1> HIDE DEF top, overview, disputed, told
<1>13. ASSUME NEW id \in Int, NEW kind \in OfflineKinds, NEW said \in Seq(PageSentences),
              kind \in {"history", "disputed"} \/ said \in Seq(CitingOnly(actives))
       PROVE  section(id, kind, said) \in Seq(S)
  <2> DEFINE s == Section(id, kind, said)
  <2>1. kind \in PageKinds BY DEF OfflineKinds, PageKinds
  <2>2. s \in PageSections /\ s.kind = kind /\ s.sentences = said
    BY <2>1 DEF Section, PageSections
  <2>3. s \in S BY <1>13, <2>2
  <2> HIDE DEF s, S
  <2>4. <<s>> \in Seq(S) /\ <<>> \in Seq(S) BY <2>3
  <2> QED BY <2>4 DEF s
<1> HIDE DEF S
<1>14. /\ section(1, "overview", overview) \in Seq(S)
       /\ section(2, "disputed", disputed) \in Seq(S)
       /\ section(3, "history", told) \in Seq(S)
  <2>1. /\ "overview" \in OfflineKinds /\ "disputed" \in OfflineKinds /\ "history" \in OfflineKinds
        /\ "disputed" \in {"history", "disputed"} /\ "history" \in {"history", "disputed"}
        /\ 1 \in Int /\ 2 \in Int /\ 3 \in Int
    BY DEF OfflineKinds
  <2> HIDE DEF section
  <2>2. section(1, "overview", overview) \in Seq(S) BY <1>9, <1>13, <2>1
  <2>3. section(2, "disputed", disputed) \in Seq(S) BY <1>10, <1>13, <2>1
  <2>4. section(3, "history", told) \in Seq(S) BY <1>11, <1>13, <2>1
  <2> QED BY <2>2, <2>3, <2>4
<1> DEFINE line == section(1, "overview", overview) \o section(2, "disputed", disputed)
                   \o section(3, "history", told)
<1> HIDE DEF section
<1>15. line \in Seq(S) BY <1>14, ConcatProperties
<1> HIDE DEF line
<1>16. offline.summary = top /\ offline.sections = line BY <1>1 DEF line
<1>17. line \in Seq(PageSections) /\ \A n \in DOMAIN line : line[n] \in S
  <2>1. S \subseteq PageSections BY DEF S
  <2>2. line \in Seq(PageSections) BY <1>15, <2>1, SeqMonotonic
  <2>3. DOMAIN line = 1..Len(line) /\ \A n \in 1..Len(line) : line[n] \in S
    BY <1>15, LenProperties, ElementOfSeq
  <2> QED BY <2>2, <2>3
<1>18. offline \in PageBodies BY <1>1, <1>12, <1>17 DEF PageBodies, line
<1> QED BY <1>12, <1>16, <1>17, <1>18 DEF S

\* A merged patch leaves a body.
LEMMA MergedIs ==
    ASSUME NEW written \in PageBodies, NEW patch \in Patches
    PROVE  MergePatch(written, patch) \in PageBodies
<1> DEFINE line == written.sections
           places == {i \in DOMAIN line : line[i].id \notin patch.removed}
           kept == Kept(line, places)
           placed == {kept[i].id : i \in DOMAIN kept}
           brought == patch.incoming
           of(id) == {i \in DOMAIN brought : brought[i].id = id}
           fresh == {i \in DOMAIN brought : brought[i].id \notin placed \cup patch.removed}
           first == [i \in DOMAIN kept |-> IF of(kept[i].id) = {} THEN kept[i]
                                           ELSE brought[CHOOSE n \in of(kept[i].id) : TRUE]]
           then == Kept(brought, fresh)
           S == PageSections
<1>1. MergePatch(written, patch) = [written EXCEPT !.sections = first \o then] BY DEF MergePatch
<1>2. line \in Seq(S) /\ brought \in Seq(S) BY PartsOfBody, PageBodyAssumption
<1>3. kept \in Seq(S)
  <2>1. places \in SUBSET (DOMAIN line) OBVIOUS
  <2> HIDE DEF places, line, S
  <2> QED BY <1>2, <2>1, KeptFacts
<1>4. then \in Seq(S)
  <2>1. fresh \in SUBSET (DOMAIN brought) OBVIOUS
  <2> HIDE DEF fresh, brought, S
  <2> QED BY <1>2, <2>1, KeptFacts
<1> HIDE DEF kept, then, line, S
<1>5. /\ DOMAIN kept = 1..Len(kept) /\ Len(kept) \in Nat /\ \A i \in DOMAIN kept : kept[i] \in S
      /\ \A i \in DOMAIN brought : brought[i] \in S
  <2> HIDE DEF brought
  <2> QED BY <1>2, <1>3, LenProperties, ElementOfSeq
<1>6. \A i \in 1..Len(kept) : first[i] \in S
  <2> TAKE i \in 1..Len(kept)
  <2>1. CASE of(kept[i].id) = {} BY <1>5, <2>1
  <2>2. CASE of(kept[i].id) # {}
    <3> DEFINE n == CHOOSE n \in of(kept[i].id) : TRUE
    <3>1. n \in DOMAIN brought BY <2>2
    <3>2. first[i] = brought[n] BY <1>5, <2>2
    <3> QED BY <1>5, <3>1, <3>2
  <2> QED BY <2>1, <2>2
<1>7. first = [i \in 1..Len(kept) |-> first[i]] BY <1>5
<1> HIDE DEF first
<1>8. first \in Seq(S) BY <1>5, <1>6, <1>7, LengthOf
<1>9. first \o then \in Seq(S) BY <1>4, <1>8, ConcatProperties
<1> HIDE DEF brought
<1> DEFINE joined == first \o then
<1> HIDE DEF joined
<1>10. joined \in Seq(PageSections) BY <1>9 DEF joined, S
<1>11. [written EXCEPT !.sections = joined] \in PageBodies BY <1>10 DEF PageBodies
<1> QED BY <1>1, <1>11 DEF joined

\* Whoever composes it, what is composed is a body.
LEMMA CompositionsAre ==
    ASSUME claimStanding \in [PageClaims -> {"active", "superseded", "away"}],
           heir \in [PageClaims -> PageClaims \cup {0}], wikiPage.body \in PageBodies,
           NEW live \in BOOLEAN, NEW force \in BOOLEAN, NEW by \in {"patch", "llm", "heuristic"},
           NEW written \in Compositions(live, force)[by]
    PROVE  /\ written \in PageBodies
           /\ by = "patch" => PatchStands(written, OnPage)
           /\ by = "heuristic" => written = HeuristicPage
<1>1. CASE by = "patch"
  <2>1. written \in PatchedBodies(live, force) BY <1>1 DEF Compositions
  <2>2. PICK p \in Patches : written = MergePatch(wikiPage.body, p) BY <2>1 DEF PatchedBodies
  <2>3. PatchStands(written, OnPage) BY <2>1 DEF PatchedBodies
  <2> QED BY <1>1, <2>2, <2>3, MergedIs
<1>2. CASE by = "llm" BY <1>2, PageBodyAssumption DEF Compositions
<1>3. CASE by = "heuristic" BY <1>3, OfflineIs DEF Compositions
<1> QED BY <1>1, <1>2, <1>3

-----------------------------------------------------------------------------
(* The invariant: what is stored is a body of cited sentences, whatever the page *)
(* was compiled from, and what its composer owes.                                *)

PageFields == [clean |-> wikiPage.clean, inputs |-> wikiPage.inputs, by |-> wikiPage.by,
               body |-> wikiPage.body, dropped |-> wikiPage.dropped, live |-> wikiPage.live]
PageTyped ==
    /\ claimStanding \in [PageClaims -> {"active", "superseded", "away"}]
    /\ heir \in [PageClaims -> PageClaims \cup {0}]
    /\ wikiPage = PageFields
    /\ wikiPage.body \in PageBodies
EverythingCites ==
    \A i \in DOMAIN SentencesOf(wikiPage.body) : SentencesOf(wikiPage.body)[i].cites # <<>>
PageInv ==
    /\ PageTyped
    /\ EverythingCites
    /\ PageIsDefensible
    /\ PatchLosesNothing
    /\ OfflinePageIsCurrent
    /\ "uncited_sentence" \notin open

\* The invariant holds of a page that was never compiled.
LEMMA PageInvInit == PageInit => PageInv
<1> SUFFICES ASSUME PageInit PROVE PageInv OBVIOUS
<1>1. PageTyped BY DEF PageInit, PageTyped, PageFields, PageBodies, EmptyBody
<1>2. SentencesOf(EmptyBody) = <<>> /\ DOMAIN SentencesOf(EmptyBody) = {}
  <2> DEFINE said == SentencesOf(EmptyBody)
  <2>1. EmptyBody \in PageBodies /\ DOMAIN EmptyBody.summary = {} /\ DOMAIN EmptyBody.sections = {}
    BY DEF PageBodies, EmptyBody
  <2>2. said = SentencesOf(EmptyBody) OBVIOUS
  <2> HIDE DEF said
  <2>3. said \in Seq(PageSentences) /\ \A i \in DOMAIN said : FALSE
    BY <2>1, <2>2, SentencesOfBody
  <2>4. Len(said) \in Nat /\ DOMAIN said = 1..Len(said) /\ ~(1 \in DOMAIN said)
    BY <2>3, LenProperties
  <2>5. Len(said) = 0 BY <2>4
  <2>6. said = <<>> BY <2>3, <2>5, EmptySeq
  <2> QED BY <2>2, <2>3, <2>6
<1>3. wikiPage.body = EmptyBody /\ wikiPage.by = "none" BY DEF PageInit
<1> QED BY <1>1, <1>2, <1>3 DEF PageInv, EverythingCites, PageIsDefensible, PatchLosesNothing,
            OfflinePageIsCurrent, PageInit

\* Changes of claims leave the page as it is.
LEMMA PageRests ==
    ASSUME PageInv, wikiPage' = wikiPage, open' = open,
           claimStanding' \in [PageClaims -> {"active", "superseded", "away"}],
           heir' \in [PageClaims -> PageClaims \cup {0}]
    PROVE  PageInv'
BY DEF PageInv, PageTyped, PageFields, EverythingCites, PageIsDefensible, PatchLosesNothing,
       OfflinePageIsCurrent

\* A compile stores what the validator leaves of what was composed.
LEMMA CompileKeeps ==
    ASSUME PageInv, NEW live \in BOOLEAN, NEW force \in BOOLEAN, Compile(live, force)
    PROVE  PageInv'
<1>1. /\ claimStanding \in [PageClaims -> {"active", "superseded", "away"}]
      /\ heir \in [PageClaims -> PageClaims \cup {0}] /\ wikiPage.body \in PageBodies
  BY DEF PageInv, PageTyped
<1>0. PICK by \in {"patch", "llm", "heuristic"} :
         \E written \in Compositions(live, force)[by] : wikiPage' = StoredPage(written, by, live)
  BY DEF Compile
<1>2. PICK written \in Compositions(live, force)[by] : wikiPage' = StoredPage(written, by, live)
  BY <1>0
<1>3. claimStanding' = claimStanding /\ heir' = heir /\ open' = open BY DEF Compile
<1>4. /\ written \in PageBodies
      /\ by = "patch" => PatchStands(written, OnPage)
      /\ by = "heuristic" => written = HeuristicPage
  BY <1>1, CompositionsAre
<1> DEFINE out == Validated(written, OnPage)
           dropped == DroppedFrom(written, OnPage)
           inputs == PageInputsNow
<1>5. wikiPage' = [clean |-> TRUE, inputs |-> inputs, by |-> by, body |-> out, dropped |-> dropped, live |-> live]
  BY <1>2 DEF StoredPage
<1>6. /\ out \in PageBodies
      /\ \A n \in DOMAIN out.summary : \E i \in DOMAIN written.summary : out.summary[n] = written.summary[i]
      /\ \A n \in DOMAIN out.sections : \E i \in DOMAIN written.sections :
            /\ out.sections[n].kind = written.sections[i].kind
            /\ \A j \in DOMAIN out.sections[n].sentences : \E m \in DOMAIN written.sections[i].sentences :
                  out.sections[n].sentences[j] = written.sections[i].sentences[m]
  <2> HIDE DEF out
  <2>1. out = Validated(written, OnPage) BY DEF out
  <2> QED BY <1>4, <2>1, ValidatedIs
<1>7. \A i \in DOMAIN SentencesOf(out) : Supported(SentencesOf(out)[i], OnPage)
  BY <1>4, ValidatedIsSupported
<1>8. DOMAIN inputs = OnPage /\ \A c \in OnPage : inputs[c].status = claimStanding[c]
  BY DEF PageInputsNow
<1> HIDE DEF out, inputs, dropped
<1>9. /\ wikiPage'.body = out /\ wikiPage'.inputs = inputs /\ wikiPage'.by = by /\ wikiPage'.dropped = dropped
      /\ wikiPage'.clean = TRUE /\ wikiPage'.live = live
  BY <1>5
<1>10. PageTyped' BY <1>1, <1>3, <1>5, <1>6, <1>9 DEF PageFields, PageTyped
<1>11. EverythingCites' BY <1>7, <1>9 DEF EverythingCites, Supported
<1>12. PageIsDefensible' BY <1>7, <1>8, <1>9 DEF PageIsDefensible
<1>13. PatchLosesNothing' BY <1>4, <1>9 DEF PatchLosesNothing, PatchStands, dropped
<1>14. OfflinePageIsCurrent'
  <2> DEFINE kinds == {"history", "disputed"}
             telling == {i \in DOMAIN out.sections : out.sections[i].kind \notin kinds}
             actives == {c \in OnPage : claimStanding[c] = "active"}
  <2> SUFFICES ASSUME by = "heuristic", NEW d \in DOMAIN inputs, inputs[d].status = "active",
                      NEW c \in CitedBy(out.summary) \cup UNION {CitedBy(out.sections[i].sentences) : i \in telling}
               PROVE  inputs[c].status = "active"
    BY <1>9 DEF OfflinePageIsCurrent
  <2>1. actives # {} BY <1>8
  <2>2. /\ written.summary \in Seq(CitingOnly(actives))
        /\ \A n \in DOMAIN written.sections :
             written.sections[n].kind \in kinds \/ written.sections[n].sentences \in Seq(CitingOnly(actives))
    <3> HIDE DEF actives
    <3>1. actives = {x \in OnPage : claimStanding[x] = "active"} BY DEF actives
    <3>2. written = HeuristicPage BY <1>4
    <3> QED BY <1>1, <2>1, <3>1, <3>2, OfflineIs
  <2>3. ASSUME NEW line \in Seq(CitingOnly(actives)), NEW i \in DOMAIN line PROVE ToSet(line[i].cites) \subseteq actives
    <3> HIDE DEF actives
    <3>1. line[i] \in CitingOnly(actives) BY LenProperties, ElementOfSeq
    <3> QED BY <3>1 DEF CitingOnly
  <2>4. c \in actives
    <3> HIDE DEF actives
    <3>1. CASE c \in CitedBy(out.summary)
      <4>1. PICK n \in DOMAIN out.summary : c \in ToSet(out.summary[n].cites)
        BY <3>1 DEF CitedBy
      <4>2. PICK i \in DOMAIN written.summary : out.summary[n] = written.summary[i] BY <1>6
      <4> QED BY <2>2, <2>3, <4>1, <4>2
    <3>2. CASE c \in UNION {CitedBy(out.sections[i].sentences) : i \in telling}
      <4>1. PICK n \in telling : c \in CitedBy(out.sections[n].sentences) BY <3>2
      <4>2. PICK j \in DOMAIN out.sections[n].sentences : c \in ToSet(out.sections[n].sentences[j].cites)
        BY <4>1 DEF CitedBy
      <4>3. PICK i \in DOMAIN written.sections :
              /\ out.sections[n].kind = written.sections[i].kind
              /\ \A k \in DOMAIN out.sections[n].sentences : \E m \in DOMAIN written.sections[i].sentences :
                    out.sections[n].sentences[k] = written.sections[i].sentences[m]
        BY <1>6
      <4>4. PICK m \in DOMAIN written.sections[i].sentences :
              out.sections[n].sentences[j] = written.sections[i].sentences[m]
        BY <4>3
      <4>5. written.sections[i].sentences \in Seq(CitingOnly(actives)) BY <2>2, <4>3
      <4> DEFINE line == written.sections[i].sentences
      <4>6. line \in Seq(CitingOnly(actives)) /\ m \in DOMAIN line /\ c \in ToSet(line[m].cites)
        BY <4>2, <4>4, <4>5
      <4> HIDE DEF line
      <4> QED BY <2>3, <4>6
    <3> QED BY <3>1, <3>2
  <2> QED BY <1>8, <2>4
<1> QED BY <1>3, <1>10, <1>11, <1>12, <1>13, <1>14 DEF PageInv

\* With no claim left the body stays, and is compiled from nothing.
LEMMA CompileNothingKeeps ==
    ASSUME PageInv, NEW live \in BOOLEAN, CompileNothing(live)
    PROVE  PageInv'
<1>1. wikiPage = PageFields /\ wikiPage' = [wikiPage EXCEPT !.clean = TRUE, !.inputs = <<>>, !.live = live]
  BY DEF PageInv, PageTyped, CompileNothing
<1>2. wikiPage' = [clean |-> TRUE, inputs |-> <<>>, by |-> wikiPage.by, body |-> wikiPage.body,
                   dropped |-> wikiPage.dropped, live |-> live]
  BY <1>1 DEF PageFields
<1>3. claimStanding' = claimStanding /\ heir' = heir /\ open' = open BY DEF CompileNothing
<1>4. /\ wikiPage'.body = wikiPage.body /\ wikiPage'.inputs = <<>> /\ wikiPage'.by = wikiPage.by
      /\ wikiPage'.dropped = wikiPage.dropped /\ wikiPage' = PageFields'
  BY <1>2 DEF PageFields
<1>5. PageTyped' /\ EverythingCites' /\ PatchLosesNothing'
  BY <1>3, <1>4 DEF PageInv, PageTyped, EverythingCites, PatchLosesNothing
<1>6. PageIsDefensible' BY <1>4 DEF PageIsDefensible
<1>7. OfflinePageIsCurrent' BY <1>4 DEF OfflinePageIsCurrent
<1> QED BY <1>3, <1>5, <1>6, <1>7 DEF PageInv

\* Lint has no sentence without a claim to find.
LEMMA LintKeeps == ASSUME PageInv, LintWiki PROVE PageInv'
BY DEF LintWiki, PageInv, EverythingCites, LintKinds, PageTyped, PageFields, PageIsDefensible,
   PatchLosesNothing, OfflinePageIsCurrent

\* The invariant is inductive: compiles, lint, and the changes of claims between them.
LEMMA PageInvStep == PageInv /\ [PageNext]_pageVars => PageInv'
<1> SUFFICES ASSUME PageInv, [PageNext]_pageVars PROVE PageInv' OBVIOUS
<1>1. ASSUME NEW live \in BOOLEAN, NEW force \in BOOLEAN, Compile(live, force) PROVE PageInv'
  BY <1>1, CompileKeeps
<1>2. ASSUME NEW live \in BOOLEAN, CompileNothing(live) PROVE PageInv'
  BY <1>2, CompileNothingKeeps
<1>3. CASE LintWiki BY <1>3, LintKeeps
<1>4. ASSUME NEW c \in PageClaims, NEW d \in PageClaims, SupersedeOnPage(c, d) PROVE PageInv'
  BY <1>4, PageRests DEF SupersedeOnPage, PageInv, PageTyped
<1>5. ASSUME NEW c \in PageClaims, TakeAway(c) PROVE PageInv'
  BY <1>5, PageRests DEF TakeAway, PageInv, PageTyped
<1>6. CASE UNCHANGED pageVars BY <1>6, PageRests DEF pageVars, PageInv, PageTyped
<1> QED BY <1>1, <1>2, <1>3, <1>4, <1>5, <1>6 DEF PageNext

-----------------------------------------------------------------------------
(* Numbers.                                                                 *)

\* Marks that are all different, and more of them with the first ones as before.
Marks == {s \in Seq(Int) : \A i, j \in DOMAIN s : s[i] = s[j] => i = j}
Extends(s, t) == Len(s) <= Len(t) /\ \A i \in DOMAIN s : i \in DOMAIN t /\ t[i] = s[i]

\* A number once given stays.
LEMMA MarksStay ==
    ASSUME NEW s \in Marks, NEW t \in Marks, Extends(s, t), NEW c \in ToSet(s)
    PROVE  c \in ToSet(t) /\ MarkOf(s, c) = MarkOf(t, c)
<1>1. PICK i \in DOMAIN s : s[i] = c BY DEF ToSet
<1>2. i \in DOMAIN t /\ t[i] = c BY <1>1 DEF Extends
<1>3. MarkOf(s, c) = i BY <1>1 DEF MarkOf, Marks
<1>4. MarkOf(t, c) = i BY <1>2 DEF MarkOf, Marks
<1> QED BY <1>2, <1>3, <1>4 DEF ToSet

\* What extends what extends.
LEMMA ExtendsMore ==
    ASSUME NEW s \in Marks, NEW t \in Marks, NEW u \in Marks, Extends(s, t), Extends(t, u)
    PROVE  Extends(s, u)
BY LenProperties DEF Marks, Extends

\* One more mark.
LEMMA MarkIs ==
    ASSUME NEW s \in Marks, NEW c \in Int
    PROVE  Mark(s, c) \in Marks /\ Extends(s, Mark(s, c)) /\ c \in ToSet(Mark(s, c))
<1> DEFINE t == Mark(s, c)
           N == Len(s)
<1>1. s \in Seq(Int) /\ N \in Nat /\ DOMAIN s = 1..N /\ \A i, j \in DOMAIN s : s[i] = s[j] => i = j
  BY LenProperties DEF Marks
<1>2. CASE c \in ToSet(s) BY <1>1, <1>2 DEF Mark, Contains, ToSet, Extends
<1>3. CASE c \notin ToSet(s)
  <2>1. t = Append(s, c) BY <1>3 DEF Mark, Contains, ToSet
  <2> HIDE DEF t
  <2>2. /\ t \in Seq(Int) /\ Len(t) = N + 1 /\ DOMAIN t = 1..(N + 1) /\ t[N + 1] = c
        /\ \A i \in 1..N : t[i] = s[i]
    BY <1>1, <2>1, AppendProperties, LenProperties
  <2>3. \A i \in DOMAIN s : s[i] # c BY <1>3 DEF ToSet
  <2>4. \A i \in 1..(N + 1) : i \in 1..N \/ i = N + 1 BY <1>1
  <2>5. t \in Marks BY <1>1, <2>2, <2>3, <2>4 DEF Marks
  <2>6. Extends(s, t) BY <1>1, <2>2 DEF Extends
  <2>7. N + 1 \in DOMAIN t BY <1>1, <2>2
  <2>8. c \in ToSet(t) BY <2>2, <2>7 DEF ToSet
  <2> QED BY <2>5, <2>6, <2>8 DEF t
<1> QED BY <1>2, <1>3

\* A sentence's marks: each claim it cites has one, and none has another than before.
LEMMA MarkAllIs ==
    ASSUME NEW s \in Marks, NEW citing \in Seq(Int), NEW t, t = MarkAll(s, citing)
    PROVE  t \in Marks /\ Extends(s, t) /\ ToSet(citing) \subseteq ToSet(t)
<1> DEFINE N == Len(citing)
           g == [p \in (1..N) \X Marks |-> Mark(p[2], citing[p[1]])]
           rec(f) == f = [n \in 0..N |-> IF n = 0 THEN s ELSE Mark(f[n - 1], citing[n])]
<1>1. N \in Nat /\ DOMAIN citing = 1..N /\ \A n \in 1..N : citing[n] \in Int
  BY LenProperties, ElementOfSeq
<1>2. t = (CHOOSE f : rec(f))[N] BY DEF MarkAll
<1>3. g \in [(1..N) \X Marks -> Marks] BY <1>1, MarkIs
<1>4. PICK h : Iterates(h, N, Marks, s, g)
  <2> HIDE DEF g, N
  <2> QED BY <1>1, <1>3, Iterated
<1>5. h \in [0..N -> Marks] /\ h[0] = s /\ \A n \in 1..N : h[n] = Mark(h[n - 1], citing[n])
  <2>1. h \in [0..N -> Marks] /\ h[0] = s /\ \A n \in 1..N : h[n] = g[<<n, h[n - 1]>>]
    BY <1>4 DEF Iterates
  <2>2. \A n \in 1..N : n - 1 \in 0..N BY <1>1
  <2> QED BY <2>1, <2>2
<1>6. rec(h) BY <1>1, <1>5
<1> DEFINE f == CHOOSE f : rec(f)
<1>7. rec(f) BY <1>6
<1> HIDE DEF f
<1>8. f[0] = s /\ \A n \in 1..N : f[n] = Mark(f[n - 1], citing[n])
  <2>1. f = [n \in 0..N |-> IF n = 0 THEN s ELSE Mark(f[n - 1], citing[n])] BY <1>7
  <2> HIDE DEF rec
  <2>2. \A n \in 0..N : f[n] = IF n = 0 THEN s ELSE Mark(f[n - 1], citing[n]) BY <2>1
  <2>3. 0 \in 0..N /\ \A n \in 1..N : n \in 0..N /\ n # 0 BY <1>1
  <2> QED BY <2>2, <2>3
<1>9. t = f[N] BY <1>2 DEF f
<1> HIDE DEF rec
<1> DEFINE Good(n) == /\ f[n] \in Marks /\ Extends(s, f[n])
                      /\ \A k \in 1..n : citing[k] \in ToSet(f[n])
           P == {n \in 0..N : Good(n)}
<1>10. 0 \in P BY <1>1, <1>8, LenProperties DEF Extends, Marks
<1>11. ASSUME NEW n \in 1..N, n - 1 \in P PROVE n \in P
  <2> DEFINE u == f[n - 1]
             v == f[n]
  <2>1. u \in Marks /\ Extends(s, u) /\ \A k \in 1..(n - 1) : citing[k] \in ToSet(u) BY <1>11
  <2>2. v = Mark(u, citing[n]) /\ citing[n] \in Int BY <1>1, <1>8
  <2> HIDE DEF u, v
  <2>3. v \in Marks /\ Extends(u, v) /\ citing[n] \in ToSet(v) BY <2>1, <2>2, MarkIs
  <2>4. Extends(s, v) BY <2>1, <2>3, ExtendsMore
  <2>5. \A k \in 1..n : k = n \/ k \in 1..(n - 1) BY <1>1
  <2>6. \A k \in 1..(n - 1) : citing[k] \in ToSet(v) BY <2>1, <2>3, MarksStay
  <2>7. n \in 0..N BY <1>1
  <2> QED BY <2>3, <2>4, <2>5, <2>6, <2>7 DEF v
<1> HIDE DEF P
<1>12. \A n \in 0..N : n \in P BY <1>1, <1>10, <1>11, CountsUpTo
<1>13. N \in P BY <1>1, <1>12
<1>14. t \in Marks /\ Extends(s, t) /\ \A k \in 1..N : citing[k] \in ToSet(t)
  BY <1>9, <1>13 DEF P
<1>15. ToSet(citing) \subseteq ToSet(t) BY <1>1, <1>14 DEF ToSet
<1> QED BY <1>14, <1>15

\* Sections in the order they are shown are the body's sections.
LEMMA OrderedIs ==
    ASSUME NEW written \in PageBodies
    PROVE  Ordered(written) \in PageBodies
<1> DEFINE line == written.sections
           rank(i) == Rank(line[i].kind)
           before(i, j) == \/ rank(i) < rank(j)
                           \/ rank(i) = rank(j) /\ line[i].id < line[j].id
                           \/ rank(i) = rank(j) /\ line[i].id = line[j].id /\ i < j
           places == DOMAIN line
           R == {p \in places \X places : before(p[1], p[2])}
           order == InLine(places, R)
           sections == [n \in DOMAIN order |-> line[order[n]]]
<1>1. /\ line \in Seq(PageSections) /\ DOMAIN line = 1..Len(line) /\ Len(line) \in Nat
      /\ \A i \in places : line[i] \in PageSections /\ line[i].id \in Int /\ line[i].kind \in PageKinds
  BY PartsOfBody
<1>2. Ordered(written) = [written EXCEPT !.sections = sections] BY DEF Ordered, OrderSections
<1>3. \A k \in PageKinds : Rank(k) \in 1..5
  <2>1. \A k \in PageKinds : \E i \in 1..5 :
            <<"overview", "consensus", "disputed", "history", "details">>[i] = k
    BY DEF PageKinds
  <2> QED BY <2>1 DEF Rank
<1>4. IsFiniteSet(places) BY <1>1, FS_Interval
<1>5. \A i \in places : rank(i) \in Int /\ line[i].id \in Int /\ i \in Int BY <1>1, <1>3
<1> HIDE DEF rank, line
<1>6. StrictlyOrders(R, places)
  <2>1. \A i, j \in places : <<i, j>> \in R <=> before(i, j) OBVIOUS
  <2>2. \A i \in places : ~before(i, i) BY <1>5
  <2>3. \A i, j, k \in places : before(i, j) /\ before(j, k) => before(i, k) BY <1>5
  <2>4. \A i, j \in places : i = j \/ before(i, j) \/ before(j, i) BY <1>5
  <2> HIDE DEF R, before
  <2> QED BY <2>1, <2>2, <2>3, <2>4 DEF StrictlyOrders
<1> HIDE DEF R, places
<1>7. /\ Cardinality(places) \in Nat /\ DOMAIN order = 1..Cardinality(places)
      /\ \A n \in DOMAIN order : order[n] \in places
  BY <1>4, <1>6, InLineFacts
<1> HIDE DEF order
<1>8. sections \in Seq(PageSections) BY <1>1, <1>7, LengthOf DEF line, places
<1> HIDE DEF sections
<1>9. [written EXCEPT !.sections = sections] \in PageBodies BY <1>8 DEF PageBodies
<1> QED BY <1>2, <1>9

Rendered == [seen : Marks, marks : Seq(Seq(Int))]

\* One sentence is written with its marks.
LEMMA MarkedLineIs ==
    ASSUME NEW state \in Rendered, NEW citing \in Seq(Int)
    PROVE  /\ MarkedLine(state, citing) \in Rendered
           /\ MarkedLine(state, citing).seen = MarkAll(state.seen, citing)
           /\ MarkedLine(state, citing).marks =
                Append(state.marks, [i \in DOMAIN citing |-> MarkOf(MarkAll(state.seen, citing), citing[i])])
<1> DEFINE s == MarkAll(state.seen, citing)
           marked == [i \in DOMAIN citing |-> MarkOf(s, citing[i])]
<1>1. state.seen \in Marks /\ state.marks \in Seq(Seq(Int)) BY DEF Rendered
<1>2. s \in Marks /\ ToSet(citing) \subseteq ToSet(s) BY <1>1, MarkAllIs
<1> HIDE DEF s
<1>3. DOMAIN citing = 1..Len(citing) /\ Len(citing) \in Nat /\ \A i \in DOMAIN citing : citing[i] \in ToSet(s)
  BY <1>2, LenProperties DEF ToSet
<1>4. DOMAIN s \subseteq Int BY <1>2, LenProperties DEF Marks
<1>5. \A i \in 1..Len(citing) : MarkOf(s, citing[i]) \in Int BY <1>3, <1>4 DEF ToSet, MarkOf
<1>6. marked \in Seq(Int) BY <1>3, <1>5, LengthOf
<1> HIDE DEF marked
<1>7. Append(state.marks, marked) \in Seq(Seq(Int)) BY <1>1, <1>6, AppendProperties
<1>8. MarkedLine(state, citing) = [seen |-> s, marks |-> Append(state.marks, marked)]
  BY DEF MarkedLine, s, marked
<1> QED BY <1>2, <1>7, <1>8 DEF Rendered, s, marked

\* A recursion over the sentences is the one that is chosen.
LEMMA NotesUpTo ==
    ASSUME NEW said \in Seq(PageSentences)
    PROVE  \E seen : /\ seen \in [0..Len(said) -> Marks] /\ seen[0] = <<>>
                     /\ \A n \in 1..Len(said) : seen[n] = MarkAll(seen[n - 1], said[n].cites)
<1> DEFINE N == Len(said)
           g == [p \in (1..N) \X Marks |-> MarkAll(p[2], said[p[1]].cites)]
<1>1. N \in Nat /\ \A n \in 1..N : said[n].cites \in Seq(Int)
  <2>1. N \in Nat /\ \A n \in 1..N : said[n] \in PageSentences BY LenProperties, ElementOfSeq
  <2> QED BY <2>1 DEF PageSentences
<1> HIDE DEF N
<1>2. <<>> \in Marks BY DEF Marks
<1>3. g \in [(1..N) \X Marks -> Marks] BY <1>1, MarkAllIs
<1>4. PICK h : Iterates(h, N, Marks, <<>>, g)
  <2> HIDE DEF g
  <2> QED BY <1>1, <1>2, <1>3, Iterated
<1>5. h \in [0..N -> Marks] /\ h[0] = <<>> /\ \A n \in 1..N : h[n] = MarkAll(h[n - 1], said[n].cites)
  <2>1. h \in [0..N -> Marks] /\ h[0] = <<>> /\ \A n \in 1..N : h[n] = g[<<n, h[n - 1]>>]
    BY <1>4 DEF Iterates
  <2>2. \A n \in 1..N : n - 1 \in 0..N BY <1>1
  <2> QED BY <2>1, <2>2
<1> QED BY <1>5 DEF N

\* What a line says up to a place depends on nothing after it.
LEMMA LinesUpTo ==
    ASSUME NEW said \in Seq(PageSentences)
    PROVE  \E w : /\ w \in [0..Len(said) -> Rendered] /\ w[0] = [seen |-> <<>>, marks |-> <<>>]
                  /\ \A n \in 1..Len(said) : w[n] = MarkedLine(w[n - 1], said[n].cites)
<1> DEFINE N == Len(said)
           g == [p \in (1..N) \X Rendered |-> MarkedLine(p[2], said[p[1]].cites)]
           nothing == [seen |-> <<>>, marks |-> <<>>]
<1>1. N \in Nat /\ \A n \in 1..N : said[n].cites \in Seq(Int)
  <2>1. N \in Nat /\ \A n \in 1..N : said[n] \in PageSentences BY LenProperties, ElementOfSeq
  <2> QED BY <2>1 DEF PageSentences
<1> HIDE DEF N
<1>2. nothing \in Rendered BY DEF Rendered, Marks
<1>3. g \in [(1..N) \X Rendered -> Rendered] BY <1>1, MarkedLineIs
<1> HIDE DEF nothing
<1>4. PICK h : Iterates(h, N, Rendered, nothing, g)
  <2> HIDE DEF g
  <2> QED BY <1>1, <1>2, <1>3, Iterated
<1>5. h \in [0..N -> Rendered] /\ h[0] = nothing /\ \A n \in 1..N : h[n] = MarkedLine(h[n - 1], said[n].cites)
  <2>1. h \in [0..N -> Rendered] /\ h[0] = nothing /\ \A n \in 1..N : h[n] = g[<<n, h[n - 1]>>]
    BY <1>4 DEF Iterates
  <2>2. \A n \in 1..N : n - 1 \in 0..N BY <1>1
  <2> QED BY <2>1, <2>2
<1> QED BY <1>5 DEF N, nothing

\* The footnotes of a body, after each of its sentences.
LEMMA FootnotesAre ==
    ASSUME NEW written \in PageBodies, NEW said, said = SentencesOf(Ordered(written))
    PROVE  \E seen : /\ seen[0] = <<>>
                     /\ \A n \in 1..Len(said) : seen[n] = MarkAll(seen[n - 1], said[n].cites)
                     /\ ExtractFootnotes(written) = seen[Len(said)]
<1> DEFINE N == Len(said)
           rec(f) == f = [n \in 0..N |-> IF n = 0 THEN <<>> ELSE MarkAll(f[n - 1], said[n].cites)]
           f == CHOOSE f : rec(f)
<1>1. ExtractFootnotes(written) = f[N] BY DEF ExtractFootnotes
<1>2. said \in Seq(PageSentences) /\ N \in Nat BY OrderedIs, SentencesOfBody, LenProperties
<1>3. PICK h : /\ h \in [0..N -> Marks] /\ h[0] = <<>>
               /\ \A n \in 1..N : h[n] = MarkAll(h[n - 1], said[n].cites)
  BY <1>2, NotesUpTo
<1> HIDE DEF N
<1>4. rec(h) BY <1>2, <1>3
<1>5. rec(f) BY <1>4
<1> HIDE DEF f
<1>6. f[0] = <<>> /\ \A n \in 1..N : f[n] = MarkAll(f[n - 1], said[n].cites)
  <2>1. f = [n \in 0..N |-> IF n = 0 THEN <<>> ELSE MarkAll(f[n - 1], said[n].cites)] BY <1>5
  <2> HIDE DEF rec
  <2>2. \A n \in 0..N : f[n] = IF n = 0 THEN <<>> ELSE MarkAll(f[n - 1], said[n].cites) BY <2>1
  <2>3. 0 \in 0..N /\ \A n \in 1..N : n \in 0..N /\ n # 0 BY <1>2
  <2> QED BY <2>2, <2>3
<1> QED BY <1>1, <1>6 DEF N

\* The Markdown of a body, after each of its sentences.
LEMMA MarkdownIs ==
    ASSUME NEW written \in PageBodies, NEW said, said = SentencesOf(Ordered(written))
    PROVE  \E w : /\ w[0] = [seen |-> <<>>, marks |-> <<>>]
                  /\ \A n \in 1..Len(said) : w[n] = MarkedLine(w[n - 1], said[n].cites)
                  /\ RenderMarkdown(written) = w[Len(said)]
<1> DEFINE N == Len(said)
           nothing == [seen |-> <<>>, marks |-> <<>>]
           rec(f) == f = [n \in 0..N |-> IF n = 0 THEN nothing ELSE MarkedLine(f[n - 1], said[n].cites)]
           f == CHOOSE f : rec(f)
<1>1. RenderMarkdown(written) = f[N] BY DEF RenderMarkdown
<1>2. said \in Seq(PageSentences) /\ N \in Nat BY OrderedIs, SentencesOfBody, LenProperties
<1>3. PICK h : /\ h \in [0..N -> Rendered] /\ h[0] = nothing
               /\ \A n \in 1..N : h[n] = MarkedLine(h[n - 1], said[n].cites)
  BY <1>2, LinesUpTo
<1> HIDE DEF N, nothing
<1>4. rec(h) BY <1>2, <1>3
<1>5. rec(f) BY <1>4
<1> HIDE DEF f
<1>6. f[0] = nothing /\ \A n \in 1..N : f[n] = MarkedLine(f[n - 1], said[n].cites)
  <2>1. f = [n \in 0..N |-> IF n = 0 THEN nothing ELSE MarkedLine(f[n - 1], said[n].cites)]
    BY <1>5
  <2> HIDE DEF rec
  <2>2. \A n \in 0..N : f[n] = IF n = 0 THEN nothing ELSE MarkedLine(f[n - 1], said[n].cites)
    BY <2>1
  <2>3. 0 \in 0..N /\ \A n \in 1..N : n \in 0..N /\ n # 0 BY <1>2
  <2> QED BY <2>2, <2>3
<1> QED BY <1>1, <1>6 DEF N, nothing

\* The list of footnotes, the Markdown and the shared page number alike.
LEMMA NumbersAre ==
    ASSUME wikiPage.body \in PageBodies
    PROVE  NumbersAgree
<1> DEFINE written == wikiPage.body
           said == SentencesOf(Ordered(written))
           N == Len(said)
           md == RenderMarkdown(written)
           notes == ExtractFootnotes(written)
           cited(i) == said[i].cites
<1>1. said \in Seq(PageSentences) BY OrderedIs, SentencesOfBody
<1>2. PICK seen : /\ seen[0] = <<>>
                  /\ \A n \in 1..N : seen[n] = MarkAll(seen[n - 1], cited(n))
                  /\ notes = seen[N]
  <2> HIDE DEF written
  <2>1. written \in PageBodies BY DEF written
  <2> QED BY <2>1, FootnotesAre
<1>3. PICK w : /\ w[0] = [seen |-> <<>>, marks |-> <<>>]
               /\ \A n \in 1..N : w[n] = MarkedLine(w[n - 1], cited(n))
               /\ md = w[N]
  <2> HIDE DEF written
  <2>1. written \in PageBodies BY DEF written
  <2> QED BY <2>1, MarkdownIs
<1> HIDE DEF md, notes
<1>4. /\ N \in Nat /\ DOMAIN said = 1..N
      /\ \A n \in 1..N : cited(n) \in Seq(Int)
  <2> HIDE DEF said
  <2>1. N \in Nat /\ DOMAIN said = 1..N /\ \A n \in 1..N : said[n] \in PageSentences
    BY <1>1, LenProperties, ElementOfSeq
  <2> QED BY <2>1 DEF PageSentences
<1> HIDE DEF N
<1> DEFINE MarkedAlike(n, i) == \A j \in DOMAIN cited(i) :
                /\ cited(i)[j] \in ToSet(seen[n])
                /\ w[n].marks[i][j] = MarkOf(seen[n], cited(i)[j])
           Good(n) == /\ seen[n] \in Marks /\ w[n] \in Rendered /\ w[n].seen = seen[n]
                      /\ Len(w[n].marks) = n /\ \A i \in 1..n : MarkedAlike(n, i)
           P == {n \in 0..N : Good(n)}
<1> HIDE DEF said
<1>5. 0 \in P
  <2>1. w[0].marks = <<>> /\ w[0].seen = <<>> /\ seen[0] \in Marks /\ w[0] \in Rendered
    BY <1>2, <1>3 DEF Rendered, Marks
  <2> QED BY <1>2, <1>4, <2>1
<1>6. ASSUME NEW n \in 1..N, n - 1 \in P PROVE n \in P
  <2> DEFINE s == seen[n - 1]
             t == seen[n]
             v == w[n - 1]
             u == w[n]
             c == cited(n)
             line == [i \in DOMAIN c |-> MarkOf(t, c[i])]
  <2>1. /\ s \in Marks /\ v \in Rendered /\ v.seen = s /\ Len(v.marks) = n - 1
        /\ \A i \in 1..(n - 1) : MarkedAlike(n - 1, i)
    BY <1>6
  <2>2. c \in Seq(Int) /\ n \in 1..N /\ n \in 0..N /\ n \in Nat BY <1>4
  <2>3. t = MarkAll(s, c) /\ u = MarkedLine(v, c) BY <1>2, <1>3
  <2>4. t \in Marks /\ Extends(s, t) /\ ToSet(c) \subseteq ToSet(t)
    <3> HIDE DEF s, t, c
    <3> QED BY <2>1, <2>2, <2>3, MarkAllIs
  <2>5. /\ u \in Rendered /\ u.seen = t
        /\ u.marks = Append(v.marks, line)
    <3>1. /\ u \in Rendered /\ u.seen = MarkAll(s, c)
          /\ u.marks = Append(v.marks, [i \in DOMAIN c |-> MarkOf(MarkAll(s, c), c[i])])
      <4> HIDE DEF s, t, c, v, u
      <4> QED BY <2>1, <2>2, <2>3, MarkedLineIs
    <3> QED BY <2>3, <3>1
  <2>6. line \in Seq(Int) /\ v.marks \in Seq(Seq(Int))
    <3>1. v.marks \in Seq(Seq(Int)) BY <2>1 DEF Rendered
    <3>2. u.marks \in Seq(Seq(Int)) BY <2>5 DEF Rendered
    <3>3. DOMAIN c = 1..Len(c) /\ Len(c) \in Nat BY <2>2, LenProperties
    <3>4. \A x \in ToSet(t) : MarkOf(t, x) \in Int
      BY <2>4, LenProperties DEF ToSet, Marks, MarkOf
    <3>5. \A k \in 1..Len(c) : c[k] \in ToSet(t) BY <2>4, <3>3 DEF ToSet
    <3>6. \A k \in 1..Len(c) : MarkOf(t, c[k]) \in Int BY <3>4, <3>5
    <3> QED BY <3>1, <3>3, <3>6, LengthOf
  <2> HIDE DEF line
  <2>7. /\ Len(u.marks) = n /\ u.marks[n] = line
        /\ \A i \in 1..(n - 1) : u.marks[i] = v.marks[i]
    <3> DEFINE m == v.marks
    <3>1. m \in Seq(Seq(Int)) /\ Len(m) = n - 1 /\ line \in Seq(Int) BY <2>1, <2>6
    <3> HIDE DEF m, v, u
    <3>2. u.marks = Append(m, line) BY <2>5 DEF m
    <3>3. /\ Len(Append(m, line)) = Len(m) + 1
          /\ \A i \in 1..Len(m) : Append(m, line)[i] = m[i]
          /\ Append(m, line)[Len(m) + 1] = line
      BY <3>1, AppendProperties
    <3> QED BY <2>2, <3>1, <3>2, <3>3 DEF m
  <2>8. \A i \in 1..n : i = n \/ i \in 1..(n - 1) BY <2>2
  <2>9. MarkedAlike(n, n) BY <2>4, <2>7 DEF ToSet, line
  <2>10. \A i \in 1..(n - 1) : MarkedAlike(n, i)
    <3> TAKE i \in 1..(n - 1)
    <3>1. \A j \in DOMAIN cited(i) :
            cited(i)[j] \in ToSet(s) /\ v.marks[i][j] = MarkOf(s, cited(i)[j])
      BY <2>1
    <3>2. \A x \in ToSet(s) : x \in ToSet(t) /\ MarkOf(s, x) = MarkOf(t, x)
      <4> HIDE DEF s, t
      <4> QED BY <2>1, <2>4, MarksStay
    <3> QED BY <2>7, <3>1, <3>2
  <2>11. \A i \in 1..n : MarkedAlike(n, i) BY <2>8, <2>9, <2>10
  <2> HIDE DEF MarkedAlike
  <2>12. Good(n) BY <2>4, <2>5, <2>7, <2>11
  <2> HIDE DEF Good
  <2> QED BY <2>2, <2>12
<1> HIDE DEF P
<1>7. \A n \in 0..N : n \in P BY <1>4, <1>5, <1>6, CountsUpTo
<1>8. N \in 0..N BY <1>4
<1>9. Good(N) BY <1>7, <1>8 DEF P
<1>10. md.seen = notes BY <1>2, <1>3, <1>9
<1>11. \A i \in 1..N : \A j \in DOMAIN cited(i) :
          cited(i)[j] \in ToSet(notes) /\ md.marks[i][j] = MarkOf(notes, cited(i)[j])
  BY <1>2, <1>3, <1>9
<1>12. SnapshotNumbers(written) = [c \in ToSet(notes) |-> MarkOf(notes, c)]
  BY DEF SnapshotNumbers, notes
<1>13. \A i \in DOMAIN said : \A j \in DOMAIN said[i].cites :
          md.marks[i][j] = SnapshotNumbers(written)[said[i].cites[j]]
  BY <1>4, <1>11, <1>12
<1> QED BY <1>10, <1>13 DEF NumbersAgree, md, notes, said

\* Whatever the claims, their relations, the drafts and patches a model may write, and
\* however claims change: every sentence a page shows is supported by claims it was compiled
\* from, a patch loses nothing, and a claim has one number wherever the page is shown.
THEOREM PagesStand == PageSpec => []PageTells
<1>1. PageInv => PageTells
  <2> SUFFICES ASSUME PageInv PROVE PageTells OBVIOUS
  <2>1. NumbersAgree BY NumbersAre DEF PageInv, PageTyped
  <2>2. LintStaysQuiet
    <3>1. ASSUME wikiPage.inputs # <<>> PROVE "unknown_claim_reference" \notin LintKinds
      BY <3>1 DEF PageInv, PageIsDefensible, Supported, CitedBy, LintKinds
    <3> QED BY <3>1 DEF PageInv, LintStaysQuiet
  <2> QED BY <2>1, <2>2 DEF PageInv, PageTells
<1> QED BY <1>1, PageInvInit, PageInvStep, PTL DEF PageSpec

-----------------------------------------------------------------------------
\* Whatever runs, reconciles and edits come in whatever order, for every number of claims:
\* the promises of app/claims hold where its four parts run.
THEOREM ClaimsStand ==
    ExtractionSpec /\ JudgingSpec /\ ClustersSpec /\ CampsSpec => []ClaimsHold
BY ExtractionStands, JudgingStands, ClustersStand, CampsStand, PTL DEF ClaimsHold

\* Whatever is chunked, indexed, searched, judged, answered and compiled in whatever order,
\* for every number of sentences, chunks, deltas and drafts: the promises of Knowledge to
\* its readers hold where its parts run.
THEOREM ReadingStands ==
    ChunkingSpec /\ RetrievalSpec /\ VerifyingSpec /\ AnsweringSpec /\ PageSpec => []ReadingHolds
BY ChunksStand, RetrievalStands, VerifyingStands, AnsweringStands, PagesStand, PTL DEF ReadingHolds
=============================================================================

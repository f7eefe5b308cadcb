------------------------------ MODULE Chunking ------------------------------
(***************************************************************************)
(* chunk_spans (app/ingestion/chunking.py): the sentences of a text packed *)
(* into overlapping chunks, an oversized one split at its spaces. A text   *)
(* is where its white space is, which of that a split may cut at (only     *)
(* " "), which characters count as a token each (Chinese ones; the others  *)
(* count in fours) and the sentences that split_sentences found in it. A   *)
(* span is a pair of offsets, of its first character and after its last.   *)
(***************************************************************************)
EXTENDS Integers, FiniteSets, FiniteSetsExt, SequencesExt

CONSTANTS
    TextsToChunk,
    PerToken,       \* characters to a token (4), where each is not one
    TargetTokens,
    MaxTokens,
    Overlap         \* overlap_sentences

TextSpans == {s \in Nat \X Nat : s[1] < s[2]}
Inside(span) == span[1]..(span[2] - 1)

ASSUME ChunkingAssumption ==
    /\ {PerToken, TargetTokens, MaxTokens} \subseteq Nat \ {0} /\ Overlap \in Nat
    /\ TargetTokens <= MaxTokens

\* What split_sentences promises (test_sentence_spans_are_trimmed_and_cover_the_text):
\* sentences in order, apart, without white space around them, and no text outside of them.
IsText(t) ==
    /\ t.length \in Nat /\ t.spaces \subseteq 0..(t.length - 1) /\ t.breaks \subseteq t.spaces
    /\ t.dense \subseteq 0..(t.length - 1) /\ t.dense \cap t.spaces = {}
    /\ t.sentences \in Seq(TextSpans)
    /\ \A i \in DOMAIN t.sentences :
          /\ t.sentences[i][2] <= t.length
          /\ {t.sentences[i][1], t.sentences[i][2] - 1} \cap t.spaces = {}
          /\ \A j \in DOMAIN t.sentences : i < j => t.sentences[i][2] <= t.sentences[j][1]
    /\ (0..(t.length - 1)) \ t.spaces \subseteq UNION {Inside(t.sentences[i]) : i \in DOMAIN t.sentences}

ASSUME TextsAssumption == \A t \in TextsToChunk : IsText(t)

VARIABLES
    text,
    chunks

chunkingVars == <<text, chunks>>

EmptyText == [length |-> 0, spaces |-> {}, breaks |-> {}, dense |-> {}, sentences |-> <<>>]

ChunkingInit == text = EmptyText /\ chunks = <<>>

-----------------------------------------------------------------------------
\* estimate_tokens
Dense(t, span) == Cardinality(t.dense \cap Inside(span))
Length(span) == span[2] - span[1]
Tokens(t, span) == Dense(t, span) + (Length(span) - Dense(t, span)) \div PerToken

\* _hard_split: pieces of one budget, by the density of the whole sentence, each cut at
\* its last space if it has one; a piece that is only white space is left out. A piece
\* may begin with the space that the last one was cut at.
Budget(t, span) ==
    IF Tokens(t, span) = 0 THEN MaxTokens * PerToken
    ELSE (MaxTokens * Length(span)) \div Tokens(t, span)
Cut(t, cursor, window) ==
    LET at == {i \in t.breaks : cursor < i /\ i < window}
    IN  IF at = {} THEN window ELSE Max(at)
PieceEnd(t, span, cursor) ==
    LET window == cursor + Budget(t, span)
    IN  IF window < span[2] THEN Cut(t, cursor, window) ELSE span[2]

\* Variant: the rest of a sentence is lost after its first piece.
HardSplitOnce(t, span) == <<<<span[1], PieceEnd(t, span, span[1])>>>>

NextPiece(t, span, loop) ==
    LET piece == <<loop.cursor, PieceEnd(t, span, loop.cursor)>>
    IN  IF loop.cursor = span[2] THEN loop
        ELSE [cursor |-> piece[2],
              out |-> IF Inside(piece) \subseteq t.spaces THEN loop.out ELSE Append(loop.out, piece)]
HardSplit(t, span) ==
    LET loop[n \in 0..Length(span)] ==
            IF n = 0 THEN [cursor |-> span[1], out |-> <<>>] ELSE NextPiece(t, span, loop[n - 1])
    IN  loop[Length(span)].out

Exploded(t, span) == IF Tokens(t, span) > MaxTokens THEN HardSplit(t, span) ELSE <<span>>
UnitsOf(t) ==
    LET units[n \in 0..Len(t.sentences)] ==
            IF n = 0 THEN <<>> ELSE units[n - 1] \o Exploded(t, t.sentences[n])
    IN  units[Len(t.sentences)]

-----------------------------------------------------------------------------
(* The groups of units, by the places of their first and last one: `first` *)
(* is where the open one begins, and each unit in turn joins it or closes  *)
(* it. Tokens are summed unit by unit.                                     *)

TokensUpTo(t, units) ==
    LET sum[n \in 0..Len(units)] == IF n = 0 THEN 0 ELSE sum[n - 1] + Tokens(t, units[n])
    IN  sum

\* Closing on the soft boundary carries the last units over, as many of them as leave
\* room for the next one, and closing on the hard limit none.
CarriedFrom(sum, first, n) ==
    IF sum[n] - sum[first - 1] > MaxTokens THEN n
    ELSE Min({i \in first..n : i = n \/ (n - i <= Overlap /\ sum[n] - sum[i - 1] <= MaxTokens)})

Pack(sum, packed, n) ==
    IF packed.first = n \/ sum[n] - sum[packed.first - 1] <= TargetTokens THEN packed
    ELSE [groups |-> Append(packed.groups, <<packed.first, n - 1>>),
          first |-> CarriedFrom(sum, packed.first, n)]

GroupsOf(sum, count) ==
    LET packed[n \in 0..count] ==
            IF n = 0 THEN [groups |-> <<>>, first |-> 1] ELSE Pack(sum, packed[n - 1], n)
        last == packed[count]
    IN  IF count = 0 THEN <<>> ELSE Append(last.groups, <<last.first, count>>)

\* A chunk is the text of its group, without the white space at its ends; as each unit
\* has a character, no chunk is left out for having none.
Trimmed(t, span) == LET ink == Inside(span) \ t.spaces IN <<Min(ink), Max(ink) + 1>>

ChunkOf(t, units, group) ==
    LET span == Trimmed(t, <<units[group[1]][1], units[group[2]][2]>>)
    IN  [span |-> span, units |-> group, tokens |-> Tokens(t, span)]
ChunkSpans(t) ==
    LET units == UnitsOf(t)
        groups == GroupsOf(TokensUpTo(t, units), Len(units))
    IN  [i \in DOMAIN groups |-> ChunkOf(t, units, groups[i])]

ChunkText(t) ==
    /\ text' = t
    /\ chunks' = ChunkSpans(t)

ChunkingNext == text = EmptyText /\ \E t \in TextsToChunk : ChunkText(t)
ChunkingSpec == ChunkingInit /\ [][ChunkingNext]_chunkingVars

-----------------------------------------------------------------------------
\* The chunks cover every character that is not white space, begin and end with one, and
\* come in order (the invariants of the module's docstring); each ends after the one
\* before it, and shares the overlap with it at most.
CoversTheText ==
    LET ink == (0..(text.length - 1)) \ text.spaces
    IN  /\ ink \subseteq UNION {Inside(chunks[i].span) : i \in DOMAIN chunks}
        /\ \A i \in DOMAIN chunks : {chunks[i].span[1], chunks[i].span[2] - 1} \subseteq ink
        /\ \A i \in DOMAIN chunks \ {1} :
              /\ chunks[i - 1].span[1] <= chunks[i].span[1]
              /\ chunks[i - 1].span[2] < chunks[i].span[2]
              /\ chunks[i].units[1] <= chunks[i - 1].units[2] + 1
              /\ chunks[i - 1].units[2] - chunks[i].units[1] < Overlap

\* A sentence within the limit is in one chunk whole ("never split across two chunks").
KeepsSentences ==
    \A i \in DOMAIN text.sentences : Tokens(text, text.sentences[i]) <= MaxTokens =>
        \E j \in DOMAIN chunks : /\ chunks[j].span[1] <= text.sentences[i][1]
                                 /\ text.sentences[i][2] <= chunks[j].span[2]

\* No chunk is over the limit by more than the rounding of its units has hidden, less than
\* a token for each, and the white space between them; but for a piece of a sentence whose
\* characters are not all of one kind, as the budget of a piece is the whole sentence's.
KeepsTheLimit ==
    LET units == UnitsOf(text)
        of(c) == c.units[1]..c.units[2]
        between(c) == Inside(c.span) \ UNION {Inside(units[k]) : k \in of(c)}
        mixed(s) == text.dense \cap Inside(s) \notin {{}, Inside(s)}
    IN  \A i \in DOMAIN chunks :
            \/ PerToken * chunks[i].tokens
                 <= PerToken * MaxTokens + Cardinality(of(chunks[i])) * (PerToken - 1)
                    + Cardinality(between(chunks[i]))
            \/ /\ Cardinality(of(chunks[i])) = 1
               /\ \E n \in DOMAIN text.sentences :
                     /\ mixed(text.sentences[n])
                     /\ Inside(chunks[i].span) \subseteq Inside(text.sentences[n])

ChunksTell == CoversTheText /\ KeepsSentences /\ KeepsTheLimit
=============================================================================

------------------------------ MODULE Thinking ------------------------------
(***************************************************************************)
(* What of a model's reply is the answer (app/llm/providers/base.py): the  *)
(* reasoning between <think> and </think> is taken out, of a whole reply   *)
(* by a pattern (strip_reasoning), of a stream piece by piece, wherever    *)
(* the deltas are cut (StreamingThinkStripper), once by the provider and   *)
(* once more by the client; and of a reply around JSON the object is found *)
(* (extract_json). A text is a sequence of characters, and a tag is        *)
(* shortened to one letter, so that it is still cut in every way.          *)
(***************************************************************************)
EXTENDS Integers, Sequences, FiniteSets, FiniteSetsExt, SequencesExt

CONSTANTS
    StreamDeltas,   \* what one delta may hold
    MaxDeltas,      \* bound: deltas of a reply
    Replies         \* replies around JSON, with what of them is in strings

\* A text of a model.
ModelText == Seq(STRING)

\* A reply around JSON is a text, where the strings after its first brace are, each from its
\* quote to the quote that ends it (or to the end), and which places of theirs are escaped.
InString(r, i) == \E p \in r.strings : p[1] <= i /\ i <= p[2]
Braces(r) == {i \in DOMAIN r.text : r.text[i] = "{"}
IsReply(r) ==
    /\ r.text \in ModelText
    /\ r.strings \subseteq (DOMAIN r.text) \X (1..(Len(r.text) + 1))
    /\ \A p \in r.strings :
          /\ p[1] < p[2] /\ r.text[p[1]] = "quote"
          /\ \E b \in Braces(r) : b < p[1]
          /\ \A i \in (p[1] + 1)..p[2] :
                /\ i \in r.escaped <=> /\ p[1] + 1 < i
                                       /\ r.text[i - 1] = "\\" /\ i - 1 \notin r.escaped
                /\ i <= Len(r.text) =>
                      (i = p[2] <=> r.text[i] = "quote" /\ i \notin r.escaped)
          /\ \A q \in r.strings : p # q => p[2] < q[1] \/ q[2] < p[1]
    /\ \A b \in Braces(r), i \in DOMAIN r.text :
          b < i /\ r.text[i] = "quote" => InString(r, i)

ASSUME ThinkingAssumption ==
    /\ MaxDeltas \in Nat /\ StreamDeltas \subseteq ModelText
    /\ \A r \in Replies : IsReply(r)

VARIABLES
    received,       \* history: the deltas of the endpoint, joined
    inner,          \* the stripper of the provider
    outer,          \* the stripper of the client, fed by the inner one
    read,           \* what the reader was shown
    over,           \* the reply has ended
    pieces,         \* deltas so far
    reply,          \* the whole reply that was asked for an object, and
    object          \* the one found in it

thinkingVars == <<received, inner, outer, read, over, pieces, reply, object>>

OpenTag == <<"<", "t", ">">>
CloseTag == <<"<", "/", "t", ">">>
Blanks == {" "}

Drop(s, n) == SubSeq(s, n + 1, Len(s))
TagAt(tag, s, i) == i + Len(tag) - 1 <= Len(s) /\ SubSeq(s, i, i + Len(tag) - 1) = tag
PlacesOf(tag, s) == {i \in DOMAIN s : TagAt(tag, s, i)}

-----------------------------------------------------------------------------
(***************************************************************************)
(* StreamingThinkStripper.feed, as what is left once it has looped over    *)
(* its buffer, and what has come out of it.                                *)
(***************************************************************************)
Stripper(inside, buffer, out) == [inside |-> inside, buffer |-> buffer, out |-> out]
NewStripper == Stripper(FALSE, <<>>, <<>>)

\* The longest end of the buffer that may be the beginning of a closing tag.
HeldBack(s) ==
    LET ends == {n \in 1..(Len(CloseTag) - 1) :
                    n <= Len(s) /\ Drop(s, Len(s) - n) = SubSeq(CloseTag, 1, n)}
    IN  IF ends = {} THEN <<>> ELSE Drop(s, Len(s) - Max(ends))

\* Variant: what may be the beginning of an opening tag is let out at once.
HoldsNothing(s) == FALSE
MayOpen(s) == Len(s) < Len(OpenTag) /\ s = SubSeq(OpenTag, 1, Len(s))

\* One turn of the loop over what is left of a buffer.
Turn(st) ==
    LET s == st.buffer
        closes == PlacesOf(CloseTag, s)
    IN  IF st.inside
        THEN IF closes # {}
             THEN Stripper(FALSE, Drop(s, Min(closes) + Len(CloseTag) - 1), st.out)
             ELSE Stripper(TRUE, HeldBack(s), st.out)
        ELSE IF TagAt(OpenTag, s, 1) THEN Stripper(TRUE, Drop(s, Len(OpenTag)), st.out)
        ELSE IF MayOpen(s) THEN st
        ELSE Stripper(FALSE, Drop(s, 1), st.out \o <<s[1]>>)

\* The loop: a turn that takes nothing from the buffer is the last.
Strippers == [inside : BOOLEAN, buffer : ModelText, out : ModelText]
Settled(st) == st.buffer = <<>> \/ Turn(st) = st
Looped[st \in Strippers] == IF Settled(st) THEN st ELSE Looped[Turn(st)]

Feed(st, text) == Looped[Stripper(st.inside, st.buffer \o text, <<>>)]

Finish(st) == IF st.inside THEN <<>> ELSE st.buffer

-----------------------------------------------------------------------------
(***************************************************************************)
(* strip_reasoning: from the left, from an opening tag to the next closing *)
(* one and the space after it; an opening tag that is never closed stays.  *)
(***************************************************************************)
Sub[s \in ModelText] ==
    LET closes == {j \in PlacesOf(CloseTag, s) : Len(OpenTag) < j}
        after == Min(closes) + Len(CloseTag)
        on == Min({k \in after..(Len(s) + 1) : k = Len(s) + 1 \/ s[k] \notin Blanks})
    IN  IF s = <<>> THEN <<>>
        ELSE IF TagAt(OpenTag, s, 1) /\ closes # {} THEN Sub[Drop(s, on - 1)]
        ELSE <<s[1]>> \o Sub[Drop(s, 1)]

StripReasoning(s) ==
    LET cleaned == Sub[s]
        marks == {i \in DOMAIN cleaned : cleaned[i] \notin Blanks}
    IN  IF marks = {} THEN <<>> ELSE SubSeq(cleaned, Min(marks), Max(marks))

-----------------------------------------------------------------------------
(***************************************************************************)
(* extract_json, of what has no tag and no fence and is not JSON as it     *)
(* stands: the first brace opens the object, and the brace that closes it  *)
(* is found by counting, outside of strings.                               *)
(***************************************************************************)
NewScan == [string |-> FALSE, escaped |-> FALSE, depth |-> 0, done |-> FALSE]

\* Variant: an escaped backslash escapes what comes after it.
EscapesOn(scan, ch) == ch = "\\"
Escapes(scan, ch) == ch = "\\" /\ ~scan.escaped

Scan(scan, ch) ==
    IF scan.done THEN scan
    ELSE IF scan.string
    THEN [scan EXCEPT !.escaped = Escapes(scan, ch),
                      !.string = ~(ch = "quote" /\ ~scan.escaped)]
    ELSE [scan EXCEPT !.string = (ch = "quote"),
                      !.depth = IF ch = "{" THEN @ + 1 ELSE IF ch = "}" THEN @ - 1 ELSE @,
                      !.done = (ch = "}" /\ scan.depth = 1)]

ExtractJson(s) ==
    LET opens == {i \in DOMAIN s : s[i] = "{"}
        first == Min(opens)
        scan[i \in (first - 1)..Len(s)] ==
            IF i = first - 1 THEN NewScan ELSE Scan(scan[i - 1], s[i])
        ends == {i \in first..Len(s) : scan[i].done}
    IN  IF opens = {} \/ ends = {} THEN <<>> ELSE SubSeq(s, first, Min(ends))

-----------------------------------------------------------------------------
NoReply == [text |-> <<>>, strings |-> {}, escaped |-> {}]

ThinkingInit ==
    /\ received = <<>> /\ read = <<>> /\ pieces = 0 /\ over = FALSE
    /\ inner = NewStripper /\ outer = NewStripper
    /\ reply = NoReply /\ object = <<>>

\* strip_thinking_stream around strip_thinking_stream, delta by delta.
StreamDelta(text) ==
    /\ ~over /\ pieces < MaxDeltas
    /\ LET first == Feed(inner, text)
           second == Feed(outer, first.out)
       IN  /\ inner' = first /\ outer' = second
           /\ read' = read \o second.out
    /\ received' = received \o text
    /\ pieces' = pieces + 1
    /\ UNCHANGED <<over, reply, object>>

EndOfStream ==
    /\ ~over
    /\ LET last == Feed(outer, Finish(inner))
       IN  read' = read \o last.out \o Finish(last)
    /\ over' = TRUE
    /\ UNCHANGED <<received, inner, outer, pieces, reply, object>>

\* A reply that came whole, to a call that wants an object.
WholeReply ==
    /\ ~over /\ pieces = 0
    /\ \E r \in Replies : reply' = r /\ object' = ExtractJson(r.text)
    /\ over' = TRUE
    /\ UNCHANGED <<received, inner, outer, read, pieces>>

ThinkingNext ==
    \/ \E text \in StreamDeltas : StreamDelta(text)
    \/ EndOfStream
    \/ WholeReply

ThinkingSpec == ThinkingInit /\ [][ThinkingNext]_thinkingVars

-----------------------------------------------------------------------------
\* What of a text is outside of tags, for who reads it from outside and for who reads it
\* from inside: a tag decides how the text behind it is read.
Readings[s \in ModelText] ==
    LET next == Readings[Drop(s, 1)]
    IN  IF s = <<>> THEN [outside |-> <<>>, inside |-> <<>>]
        ELSE [outside |-> IF TagAt(OpenTag, s, 1) THEN Readings[Drop(s, Len(OpenTag))].inside
                          ELSE <<s[1]>> \o next.outside,
              inside |-> IF TagAt(CloseTag, s, 1) THEN Readings[Drop(s, Len(CloseTag))].outside
                         ELSE next.inside]
Outside(s) == Readings[s].outside

\* However the deltas were cut, the reader has what is outside of the tags of the reply,
\* and of those that joined when the provider took the first ones out.
OutsideIsRead == over => read = Outside(Outside(received))

\* A text without its blanks.
Marks[s \in ModelText] ==
    IF s = <<>> THEN <<>>
    ELSE IF s[1] \in Blanks THEN Marks[Drop(s, 1)] ELSE <<s[1]>> \o Marks[Drop(s, 1)]

\* A reply whose reasoning is closed reads the same streamed and whole, but for white
\* space, unless taking the reasoning out makes a tag of what was around it.
StreamReadsAsWhole ==
    over /\ PlacesOf(OpenTag, Sub[received]) = {} /\ PlacesOf(OpenTag, Outside(received)) = {} =>
        Marks[read] = Marks[StripReasoning(received)]

\* The object found is the text of the reply from its first brace to where as many braces
\* have closed as have opened, not counting those in strings.
ObjectIsFound ==
    LET first == Min(Braces(reply))
        counted(ch, n) == {i \in first..n : reply.text[i] = ch /\ ~InString(reply, i)}
        ends == {n \in first..Len(reply.text) :
                    Cardinality(counted("{", n)) = Cardinality(counted("}", n))}
    IN  object = IF Braces(reply) = {} \/ ends = {} THEN <<>>
                ELSE SubSeq(reply.text, first, Min(ends))

RepliesTell == OutsideIsRead /\ StreamReadsAsWhole /\ ObjectIsFound
=============================================================================

------------------------------ MODULE Cassette ------------------------------
(***************************************************************************)
(* The cassette (app/llm/providers/cassette.py): answers recorded in a     *)
(* file by some runs and replayed by others. Each client wraps its own     *)
(* provider, so each reads the file once, at its first request, and knows  *)
(* of later lines only those it wrote itself.                              *)
(***************************************************************************)
EXTENDS Integers, Sequences, FiniteSets, SequencesExt

CONSTANTS
    Recorders,      \* clients of processes that record
    Replayers,      \* clients of processes that replay
    TapeKeys,       \* what cassette_key tells apart
    TapeTexts,      \* texts a model may answer with, as the deltas of a stream
    MaxAsked        \* bound: requests each client makes

Clients == Recorders \cup Replayers

ASSUME CassetteAssumption ==
    /\ Recorders \cap Replayers = {} /\ IsFiniteSet(Recorders) /\ MaxAsked \in Nat
    /\ \A text \in TapeTexts : text # <<>>

VARIABLES
    tape,           \* the lines of the file: [key, text, chunked]
    torn,           \* a process died in the middle of a line
    index,          \* of each client: a line or none for each request, once it is loaded
    asking,         \* [step, key, how, heard]
    asked,          \* how many requests each client has made
    answers         \* history: what each client was told, in order: [key, text]

cassetteVars == <<tape, torn, index, asking, asked, answers>>

NoLine == [key |-> "none", text |-> <<>>, chunked |-> FALSE]
NotAsking == [step |-> "idle", key |-> "none", how |-> "complete", heard |-> <<>>]
NotLoaded == [q \in {} |-> NoLine]

CassetteInit ==
    /\ tape = <<>> /\ torn = FALSE
    /\ index = [c \in Clients |-> NotLoaded]
    /\ asking = [c \in Clients |-> NotAsking]
    /\ asked = [c \in Clients |-> 0]
    /\ answers = [c \in Clients |-> <<>>]

LinesOf(q) == {i \in DOMAIN tape : tape[i].key = q}

\* _rows: of the lines of a key the last is kept.
LineOf(q) == IF LinesOf(q) = {} THEN NoLine ELSE tape[Max(LinesOf(q))]

\* Read at the first request, and never again.
Loaded(c) == IF index[c] = NotLoaded THEN [q \in TapeKeys |-> LineOf(q)] ELSE index[c]

Told(c, q, text) == answers' = [answers EXCEPT ![c] = Append(@, [key |-> q, text |-> text])]

-----------------------------------------------------------------------------
(***************************************************************************)
(* complete and stream, up to the wrapped provider.                        *)
(***************************************************************************)
\* A line of the key is the answer, of a complete or a stream whichever wrote it; a
\* replay without one raises, and a recorder asks. A torn line fails each load.
AskTape(c, q, how) ==
    /\ asking[c].step = "idle" /\ asked[c] < MaxAsked
    /\ asked' = [asked EXCEPT ![c] = @ + 1]
    /\ \/ /\ torn /\ index[c] = NotLoaded
          /\ UNCHANGED <<index, asking, answers>>
       \/ /\ ~torn \/ index[c] # NotLoaded
          /\ index' = [index EXCEPT ![c] = Loaded(c)]
          /\ \/ /\ Loaded(c)[q] # NoLine
                /\ Told(c, q, Loaded(c)[q].text) /\ UNCHANGED asking
             \/ /\ Loaded(c)[q] = NoLine /\ c \in Recorders
                /\ asking' = [asking EXCEPT ![c] =
                                [NotAsking EXCEPT !.step = "asking", !.key = q, !.how = how]]
                /\ UNCHANGED answers
             \/ /\ Loaded(c)[q] = NoLine /\ c \in Replayers
                /\ UNCHANGED <<asking, answers>>
    /\ UNCHANGED <<tape, torn>>

\* The wrapped provider fails, or whoever reads the stream lets it go: nothing is kept.
LetGo(c) ==
    /\ asking[c].step = "asking"
    /\ asking' = [asking EXCEPT ![c] = NotAsking]
    /\ UNCHANGED <<tape, torn, index, asked, answers>>

\* A stream is read delta by delta, a complete is answered at once.
Hear(c) ==
    /\ asking[c].step = "asking"
    /\ \E text \in TapeTexts :
        /\ IsPrefix(asking[c].heard, text) /\ asking[c].heard # text
        /\ asking' = [asking EXCEPT ![c].heard =
                        IF asking[c].how = "stream" THEN Append(@, text[Len(@) + 1]) ELSE text]
    /\ UNCHANGED <<tape, torn, index, asked, answers>>

\* Variant: a stream is written when its first delta has come.
EndsEarly(c) == asking[c].heard # <<>>
Heard(c) == asking[c].heard \in TapeTexts

LineAsked(c) == [key |-> asking[c].key, text |-> asking[c].heard,
                 chunked |-> asking[c].how = "stream"]

\* _append: a line more, whatever other clients have written, and the client's own index.
AppendLine(c) ==
    /\ asking[c].step = "asking" /\ Heard(c)
    /\ tape' = Append(tape, LineAsked(c))
    /\ index' = [index EXCEPT ![c][asking[c].key] = LineAsked(c)]
    /\ Told(c, asking[c].key, asking[c].heard)
    /\ asking' = [asking EXCEPT ![c] = NotAsking]
    /\ UNCHANGED <<torn, asked>>

\* The process dies while it writes.
TearLine(c) ==
    /\ asking[c].step = "asking" /\ Heard(c) /\ ~torn
    /\ torn' = TRUE
    /\ asking' = [asking EXCEPT ![c] = NotAsking]
    /\ UNCHANGED <<tape, index, asked, answers>>

CassetteNext ==
    \E c \in Clients :
        \/ \E q \in TapeKeys, how \in {"complete", "stream"} : AskTape(c, q, how)
        \/ LetGo(c) \/ Hear(c) \/ AppendLine(c) \/ TearLine(c)

CassetteSpec == CassetteInit /\ [][CassetteNext]_cassetteVars

-----------------------------------------------------------------------------
\* A client is told the same each time it asks the same.
ToldTheSame ==
    \A c \in Clients : \A i, k \in DOMAIN answers[c] :
        answers[c][i].key = answers[c][k].key => answers[c][i].text = answers[c][k].text

\* A replay tells what a recorder was told, in full: no answer that broke off, and none
\* that nobody recorded.
ReplayedInFull ==
    /\ \A i \in DOMAIN tape : tape[i].text \in TapeTexts
    /\ \A c \in Replayers : \A i \in DOMAIN answers[c] :
        \E r \in Recorders : answers[c][i] \in ToSet(answers[r])

\* A request has a line for each client that had read the file before any was written: the
\* replay tells what the last of them was told, and two replays that read at different
\* times may differ.
LinePerClient ==
    \A q \in TapeKeys : Cardinality(LinesOf(q)) <= Cardinality(
        {c \in Recorders : \E i \in DOMAIN answers[c] : answers[c][i].key = q})

CassetteTells == ToldTheSame /\ ReplayedInFull /\ LinePerClient
=============================================================================

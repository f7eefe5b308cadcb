----------------------------- MODULE Negotiation -----------------------------
(***************************************************************************)
(* What a model's endpoint will not take (app/llm/providers): a call is    *)
(* built with every parameter the process has not seen refused; on a 400   *)
(* that names one it is sent once more without it (_degrade), and the      *)
(* process remembers. A stream is sent once. The memory is of one provider *)
(* and model, and shared by the threads of the process.                    *)
(***************************************************************************)
EXTENDS Integers, FiniteSets

CONSTANTS
    Calls,          \* calls of the process
    Attempts        \* posts of one call: range(2)

ASSUME NegotiationAssumption == IsFiniteSet(Calls) /\ Attempts \in Nat \ {0, 1}

\* The parameters that are dropped, in the order _degrade tries them: "format" is
\* response_format or text, and the Anthropic protocol has none.
Parameters == {"format", "temperature"}

VARIABLES
    refuses,        \* what the endpoint will not take
    learned,        \* _disabled_json_mode, _disabled_temperature
    call,           \* what each call is doing
    payload,        \* the parameters in the payload of each
    named,          \* what the 400 each call looks at names
    attempt,        \* posts of each
    knew,           \* history: what was learned when its payload was built
    dropped         \* history: what each call taught the process

negotiationVars == <<refuses, learned, call, payload, named, attempt, knew, dropped>>

NegotiationInit ==
    /\ refuses \in SUBSET Parameters
    /\ learned = {}
    /\ call = [c \in Calls |-> "idle"]
    /\ payload = [c \in Calls |-> {}] /\ named = [c \in Calls |-> {}]
    /\ attempt = [c \in Calls |-> 0]
    /\ knew = [c \in Calls |-> {}] /\ dropped = [c \in Calls |-> {}]

-----------------------------------------------------------------------------
\* Variant: a payload has every parameter the caller asked for.
Everything(wanted) == wanted
Offered(wanted) == wanted \ learned

\* _payload, of a completion or of a stream, in JSON mode or not.
BuildPayload(c, kind, wanted) ==
    /\ call[c] = "idle"
    /\ call' = [call EXCEPT ![c] = kind]
    /\ payload' = [payload EXCEPT ![c] = Offered(wanted)]
    /\ knew' = [knew EXCEPT ![c] = learned]
    /\ attempt' = [attempt EXCEPT ![c] = 1]
    /\ UNCHANGED <<refuses, learned, named, dropped>>

\* The endpoint takes what it was sent.
Satisfied(c) ==
    /\ call[c] \in {"completion", "stream"}
    /\ payload[c] \cap refuses = {}
    /\ call' = [call EXCEPT ![c] = "answered"]
    /\ UNCHANGED <<refuses, learned, payload, named, attempt, knew, dropped>>

\* It answers 400, naming one or more of the parameters; a stream ends there.
Answer400(c, names) ==
    /\ call[c] \in {"completion", "stream"}
    /\ names # {} /\ names \subseteq payload[c] \cap refuses
    /\ call' = [call EXCEPT ![c] = IF @ = "stream" THEN "refused" ELSE "degrading"]
    /\ named' = [named EXCEPT ![c] = names]
    /\ UNCHANGED <<refuses, learned, payload, attempt, knew, dropped>>

New(names) == names \ learned
Tried(names) == IF "format" \in names THEN "format" ELSE "temperature"

\* _degrade looks at the memory: the first parameter named that it does not know of.
LookUp(c) ==
    /\ call[c] = "degrading"
    /\ IF New(named[c]) # {}
       THEN /\ call' = [call EXCEPT ![c] = "dropping"]
            /\ named' = [named EXCEPT ![c] = {Tried(New(@))}]
       ELSE call' = [call EXCEPT ![c] = "refused"] /\ UNCHANGED named
    /\ UNCHANGED <<refuses, learned, payload, attempt, knew, dropped>>

\* It takes the parameter out, remembers it and the call is posted again, unless it
\* has been posted as often as it may.
DropParameter(c) ==
    /\ call[c] = "dropping"
    /\ payload' = [payload EXCEPT ![c] = @ \ named[c]]
    /\ learned' = learned \cup named[c]
    /\ dropped' = [dropped EXCEPT ![c] = @ \cup named[c]]
    /\ IF attempt[c] < Attempts
       THEN /\ attempt' = [attempt EXCEPT ![c] = @ + 1]
            /\ call' = [call EXCEPT ![c] = "completion"]
       ELSE call' = [call EXCEPT ![c] = "unsatisfied"] /\ UNCHANGED attempt
    /\ named' = [named EXCEPT ![c] = {}]
    /\ UNCHANGED <<refuses, knew>>

NegotiationNext == \E c \in Calls :
    \/ \E kind \in {"completion", "stream"}, wanted \in {{"temperature"}, Parameters} :
            BuildPayload(c, kind, wanted)
    \/ Satisfied(c) \/ LookUp(c) \/ DropParameter(c)
    \/ \E names \in SUBSET Parameters : Answer400(c, names)

NegotiationSpec == NegotiationInit /\ [][NegotiationNext]_negotiationVars

-----------------------------------------------------------------------------
Lost(c) == call[c] \in {"refused", "unsatisfied"}

\* The process learns only what the endpoint refuses, and only once everything of it
\* is learned do all calls get through: one built after that is never lost.
LostWhileLearning == /\ learned \subseteq refuses
                     /\ \A c \in Calls : Lost(c) => ~(refuses \subseteq knew[c])

\* A completion is refused only for what another call taught the process after its
\* payload was built, and the endpoint refuses two things when it runs out of posts.
LostBesideAnother ==
    \A c \in Calls :
        /\ call[c] = "refused" /\ dropped[c] = {} /\ named[c] \subseteq learned =>
            \A p \in named[c] \cap learned : p \notin knew[c]
        /\ call[c] = "unsatisfied" => dropped[c] = Parameters /\ attempt[c] = Attempts
        /\ call[c] = "answered" => payload[c] \cap refuses = {}

\* What a completion was refused for, a completion taught: a stream teaches nothing.
SomeoneTaught ==
    \A c \in Calls : call[c] = "refused" /\ named[c] \subseteq learned =>
        \A p \in named[c] : \E d \in Calls : p \in dropped[d]

NegotiationTells == LostWhileLearning /\ LostBesideAnother /\ SomeoneTaught
=============================================================================

---------------------------- MODULE Connections ----------------------------
(* A connected model provider (app/llm/credentials/sources.py, oauth_pkce.py,   *)
(* store.py; the 401 path of app/llm/client.py): one row holds the tokens, model *)
(* calls refresh it, each on a thread or in a process of its own, and an         *)
(* administrator connects and disconnects. Every attempt builds a new token      *)
(* source (client.py _config), so the lock inside one keeps no other call out.   *)
EXTENDS Integers, FiniteSets

CONSTANTS
    Callers,        \* model calls being made at once
    Grants,         \* authorizations the administrator may complete
    Refreshes,      \* bound: refreshes of a grant
    Lapses          \* bound: access tokens that expire or are revoked

ASSUME ConnectionsAssumption ==
    Refreshes \in Nat /\ Lapses \in Nat /\ "none" \notin Grants

VARIABLES
    rotates,        \* external: a refresh also replaces the refresh token
    provider,       \* external: by grant, its refresh token and its good access tokens
    credential,     \* the provider_credentials row of kind "oauth"
    authorization,  \* oauth_states, and the callback that exchanges a code
    caller,
    wanted,         \* history: what the administrator did last: a grant, or "none"
    overtaken,      \* history: a refresh was under way when they did it
    lost,           \* history: grants of which an answer never arrived
    lapses

connectionsVars == <<rotates, provider, credential, authorization, caller, wanted, overtaken,
                     lost, lapses>>

NotConnected == [grant |-> "none"]
IdleCaller == [at |-> "resting"]

ConnectionsInit ==
    /\ rotates \in BOOLEAN
    /\ provider = [g \in Grants |-> [refresh |-> 0, oldest |-> 0, newest |-> 0]]
    /\ credential = NotConnected
    /\ authorization = [g \in Grants |-> "none"]
    /\ caller = [c \in Callers |-> IdleCaller]
    /\ wanted = "none"
    /\ overtaken = FALSE
    /\ lost = {}
    /\ lapses = 0

Connected(row) == row.grant # "none"
Busy == {c \in Callers : caller[c] # IdleCaller}

-----------------------------------------------------------------------------
(***************************************************************************)
(* A call: its attempt, the row it last read, where it goes on once it has *)
(* refreshed, and whether something else changed the connection meanwhile. *)
(***************************************************************************)
BeginCall(c) ==
    /\ caller[c] = IdleCaller
    /\ caller' = [caller EXCEPT ![c] = [at |-> "reading", attempt |-> 0, then |-> "sending",
                                        row |-> NotConnected,
                    disturbed |-> \E d \in Busy : caller[d].at = "storing"]]
    /\ UNCHANGED <<rotates, provider, credential, authorization, wanted, overtaken, lost, lapses>>

\* get_token: the stored token while it is fresh, else a refresh of the row read.
GetToken(c) ==
    /\ caller[c].at = "reading"
    /\ caller' = [caller EXCEPT ![c].row = credential, ![c].then = "sending",
           ![c].at = IF Connected(credential) /\ ~credential.fresh THEN "posting" ELSE "sending"]
    /\ UNCHANGED <<rotates, provider, credential, authorization, wanted, overtaken, lost, lapses>>

Answers(c) == caller[c].row.refresh = provider[caller[c].row.grant].refresh

MergedTheOtherWay(payload, data) == [payload EXCEPT !.fresh = TRUE, !.access = data.newest]

\* {**payload, **data}: what the answer names replaces what was read.
Merged(payload, data) == [payload EXCEPT !.fresh = TRUE, !.access = data.newest,
                                         !.refresh = IF rotates THEN data.refresh ELSE @]

Disturbed(d) == IF caller[d] = IdleCaller THEN IdleCaller ELSE [caller[d] EXCEPT !.disturbed = TRUE]

PostRefresh(c) ==
    /\ caller[c].at = "posting" /\ Answers(c)
    /\ LET g == caller[c].row.grant
           data == [provider[g] EXCEPT !.newest = @ + 1, !.refresh = IF rotates THEN @ + 1 ELSE @]
       IN  /\ provider[g].newest < Refreshes
           /\ provider' = [provider EXCEPT ![g] = data]
           /\ caller' = [d \in Callers |->
                  IF d = c THEN [caller[c] EXCEPT !.at = "storing",
                                                  !.row = Merged(caller[c].row, data)]
                           ELSE Disturbed(d)]
    /\ UNCHANGED <<rotates, credential, authorization, wanted, overtaken, lost, lapses>>

\* A refused refresh is logged, and the call goes on with the token it had.
RefreshRefused(c) ==
    /\ caller[c].at = "posting" /\ ~Answers(c)
    /\ caller' = [caller EXCEPT ![c].at = caller[c].then]
    /\ UNCHANGED <<rotates, provider, credential, authorization, wanted, overtaken, lost, lapses>>

\* save_credential: whatever the row is by now, inserted or replaced.
StoreRefreshed(c) ==
    /\ caller[c].at = "storing"
    /\ credential' = caller[c].row
    /\ caller' = [caller EXCEPT ![c].at = caller[c].then]
    /\ UNCHANGED <<rotates, provider, authorization, wanted, overtaken, lost, lapses>>

\* The process stops with an answer it has not stored.
LoseAnswer(c) ==
    /\ caller[c].at = "storing"
    /\ caller' = [caller EXCEPT ![c] = IdleCaller]
    /\ lost' = lost \cup {caller[c].row.grant}
    /\ UNCHANGED <<rotates, provider, credential, authorization, wanted, overtaken, lapses>>

Good(row) == Connected(row) /\ row.access >= provider[row.grant].oldest

ServedCall(c) ==
    /\ caller[c].at = "sending" /\ Good(caller[c].row)
    /\ caller' = [caller EXCEPT ![c] = IdleCaller]
    /\ UNCHANGED <<rotates, provider, credential, authorization, wanted, overtaken, lost, lapses>>

\* The first 401 invalidates the token source: read again, and refresh what is
\* there. The second one ends the call.
ReadAndRefresh(c) ==
    [caller[c] EXCEPT !.attempt = 1, !.row = credential, !.then = "reading",
                      !.at = IF Connected(credential) THEN "posting" ELSE "reading"]

Invalidate(c) ==
    /\ caller[c].at = "sending" /\ ~Good(caller[c].row) /\ caller[c].attempt = 0
    /\ caller' = [caller EXCEPT ![c] = ReadAndRefresh(c)]
    /\ UNCHANGED <<rotates, provider, credential, authorization, wanted, overtaken, lost, lapses>>

Refused(c) == caller[c].at = "sending" /\ ~Good(caller[c].row) /\ caller[c].attempt = 1

GiveUp(c) ==
    /\ Refused(c)
    /\ caller' = [caller EXCEPT ![c] = IdleCaller]
    /\ UNCHANGED <<rotates, provider, credential, authorization, wanted, overtaken, lost, lapses>>

-----------------------------------------------------------------------------
(***************************************************************************)
(* The administrator, whose callback the browser makes.                    *)
(***************************************************************************)
StartAuthorization(g) ==
    /\ authorization[g] = "none"
    /\ authorization' = [authorization EXCEPT ![g] = "offered"]
    /\ UNCHANGED <<rotates, provider, credential, caller, wanted, overtaken, lost, lapses>>

\* The state row goes before the code is exchanged; an old one is only removed.
TakeState(g) ==
    /\ authorization[g] = "offered"
    /\ \E stage \in {"exchanging", "over"} :
           authorization' = [authorization EXCEPT ![g] = stage]
    /\ UNCHANGED <<rotates, provider, credential, caller, wanted, overtaken, lost, lapses>>

Acts(g) ==
    /\ wanted' = g
    /\ overtaken' = \E c \in Busy : caller[c].at \in {"posting", "storing"}
    /\ caller' = [d \in Callers |-> Disturbed(d)]

CompleteAuthorization(g) ==
    /\ authorization[g] = "exchanging"
    /\ authorization' = [authorization EXCEPT ![g] = "over"]
    /\ credential' = [grant |-> g, fresh |-> TRUE, refresh |-> provider[g].refresh,
                      access |-> provider[g].newest]
    /\ Acts(g)
    /\ UNCHANGED <<rotates, provider, lost, lapses>>

ExchangeFails(g) ==
    /\ authorization[g] = "exchanging"
    /\ authorization' = [authorization EXCEPT ![g] = "over"]
    /\ UNCHANGED <<rotates, provider, credential, caller, wanted, overtaken, lost, lapses>>

\* delete_credential: of the kind named, or of every kind when none is.
RemoveCredentials ==
    /\ Connected(credential)
    /\ credential' = NotConnected
    /\ Acts("none")
    /\ UNCHANGED <<rotates, provider, authorization, lost, lapses>>

-----------------------------------------------------------------------------
(***************************************************************************)
(* The provider, and time.                                                 *)
(***************************************************************************)
\* An access token nears its hour: it stays good for EXPIRY_MARGIN_SECONDS.
Expire ==
    /\ lapses < Lapses /\ Connected(credential) /\ credential.fresh
    /\ credential' = [credential EXCEPT !.fresh = FALSE]
    /\ lapses' = lapses + 1
    /\ UNCHANGED <<rotates, provider, authorization, caller, wanted, overtaken, lost>>

\* The provider stops taking the access tokens it has issued, early or at last.
Revoke(g) ==
    /\ lapses < Lapses /\ provider[g].oldest <= provider[g].newest
    /\ provider' = [provider EXCEPT ![g].oldest = provider[g].newest + 1]
    /\ lapses' = lapses + 1
    /\ caller' = [d \in Callers |-> Disturbed(d)]
    /\ UNCHANGED <<rotates, credential, authorization, wanted, overtaken, lost>>

ConnectionsNext ==
    \/ \E c \in Callers :
        \/ BeginCall(c) \/ GetToken(c) \/ PostRefresh(c) \/ RefreshRefused(c)
        \/ StoreRefreshed(c) \/ LoseAnswer(c) \/ ServedCall(c) \/ Invalidate(c) \/ GiveUp(c)
    \/ \E g \in Grants :
        \/ StartAuthorization(g) \/ TakeState(g) \/ CompleteAuthorization(g)
        \/ ExchangeFails(g) \/ Revoke(g)
    \/ RemoveCredentials \/ Expire

ConnectionsSpec == ConnectionsInit /\ [][ConnectionsNext]_connectionsVars

-----------------------------------------------------------------------------
\* However refreshes interleave, the stored refresh token is the one the provider
\* takes, or a call holds its successor and is about to store it; only a process
\* that stopped with an answer in hand leaves a connection that cannot refresh.
RefreshTokenIsKept ==
    Connected(credential) /\ credential.grant \notin lost =>
        \/ credential.refresh = provider[credential.grant].refresh
        \/ \E c \in Busy : /\ caller[c].at = "storing" /\ caller[c].row.grant = credential.grant
                           /\ caller[c].row.refresh = provider[credential.grant].refresh

\* The row is of the connection the administrator made last, or gone as they left
\* it, unless a refresh was under way then: it stores its answer over what they did.
LastSettingStands == overtaken \/ credential.grant = wanted

\* A call of a connected provider fails at its second attempt only if something
\* else changed the connection meanwhile: a refresh another call made, a token
\* revoked since it began, or the administrator.
RetryServes ==
    \A c \in Callers :
        Refused(c) /\ Connected(caller[c].row) /\ lost = {} => caller[c].disturbed

ConnectionsTell == RefreshTokenIsKept /\ LastSettingStands /\ RetryServes
=============================================================================

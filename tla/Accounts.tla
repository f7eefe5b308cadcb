------------------------------ MODULE Accounts ------------------------------
(* Local accounts (app/api/routers/auth.py, api/deps.py): concurrent requests   *)
(* that register, sign in and sign out everywhere, and the one account that     *)
(* owns the instance. The limit on calls only refuses some, and is left out.    *)
EXTENDS Integers, FiniteSets

CONSTANTS
    Requests,       \* requests being served at once
    Emails,
    Logouts         \* bound: POST /auth/logout-all

ASSUME AccountsAssumption == Logouts \in Nat /\ "nobody" \notin Requests

VARIABLES
    users,          \* the committed accounts: email to owner flag and token_version
    request,        \* what each request has done and read so far
    firstAdminLock, \* who holds the advisory lock 'first-admin'
    issued,         \* JWTs: the email and the token_version they carry
    owners,         \* history: accounts that registration made owner
    provisioned     \* history: ensure_user has run

accountsVars == <<users, request, firstAdminLock, issued, owners, provisioned>>

Idle == [at |-> "idle"]
Nobody == "nobody"

AccountsInit ==
    /\ users = << >>
    /\ request = [r \in Requests |-> Idle]
    /\ firstAdminLock = Nobody
    /\ issued = {}
    /\ owners = {}
    /\ provisioned = FALSE

Register(r, e) ==
    /\ request[r] = Idle
    /\ e \notin DOMAIN users
    /\ request' = [request EXCEPT ![r] = [at |-> "looked", email |-> e]]
    /\ UNCHANGED <<users, firstAdminLock, issued, owners, provisioned>>

\* pg_advisory_xact_lock: waits for the lock, and only then looks for an owner.
NoLock(r) == request[r].at = "looked"
FreeLock(r) == firstAdminLock = Nobody

LockFirstAdmin(r) ==
    /\ request[r].at = "looked" /\ FreeLock(r)
    /\ firstAdminLock' = r
    /\ request' = [request EXCEPT ![r] = [at |-> "locked", email |-> @.email,
                                          first |-> \A e \in DOMAIN users : ~users[e].admin]]
    /\ UNCHANGED <<users, issued, owners, provisioned>>

\* The commit gives the lock back; the unique email refuses the later of two.
CommitRegistration(r) ==
    /\ request[r].at = "locked"
    /\ LET e == request[r].email
       IN  IF e \in DOMAIN users
           THEN UNCHANGED <<users, issued, owners>>
           ELSE /\ users' = [x \in DOMAIN users \cup {e} |->
                        IF x = e THEN [admin |-> request[r].first, version |-> 0] ELSE users[x]]
                /\ issued' = issued \cup {<<e, 0>>}
                /\ owners' = IF request[r].first THEN owners \cup {e} ELSE owners
    /\ request' = [request EXCEPT ![r] = Idle]
    /\ firstAdminLock' = IF firstAdminLock = r THEN Nobody ELSE firstAdminLock
    /\ UNCHANGED <<provisioned>>

\* The process stops, or the connection is lost: the transaction and its lock go.
LoseRequest(r) ==
    /\ request[r] # Idle
    /\ request' = [request EXCEPT ![r] = Idle]
    /\ firstAdminLock' = IF firstAdminLock = r THEN Nobody ELSE firstAdminLock
    /\ UNCHANGED <<users, issued, owners, provisioned>>

\* ensure_user (the demo seed): the same question without the lock, here in one
\* step; it runs while no owner is being made.
EnsureUser(e) ==
    /\ ~provisioned /\ e \notin DOMAIN users
    /\ users' = [x \in DOMAIN users \cup {e} |->
            IF x = e THEN [admin |-> \A y \in DOMAIN users : ~users[y].admin, version |-> 0]
            ELSE users[x]]
    /\ provisioned' = TRUE
    /\ UNCHANGED <<request, firstAdminLock, issued, owners>>

\* login: a token carries the version read with the row.
Login(r, e) ==
    /\ request[r] = Idle
    /\ e \in DOMAIN users
    /\ request' = [request EXCEPT ![r] = [at |-> "verified", email |-> e,
                                          version |-> users[e].version]]
    /\ UNCHANGED <<users, firstAdminLock, issued, owners, provisioned>>

IssueToken(r) ==
    /\ request[r].at = "verified"
    /\ issued' = issued \cup {<<request[r].email, request[r].version>>}
    /\ request' = [request EXCEPT ![r] = Idle]
    /\ UNCHANGED <<users, firstAdminLock, owners, provisioned>>

\* get_current_user takes a JWT of the user's present version; logout_all with it
\* raises the version in the database.
Accepts(t) == t[1] \in DOMAIN users /\ users[t[1]].version = t[2]
LogoutAll(t) ==
    /\ Accepts(t) /\ users[t[1]].version < Logouts
    /\ users' = [users EXCEPT ![t[1]].version = @ + 1]
    /\ UNCHANGED <<request, firstAdminLock, issued, owners, provisioned>>

AccountsNext ==
    \/ \E r \in Requests :
        \/ \E e \in Emails : Register(r, e) \/ Login(r, e)
        \/ LockFirstAdmin(r) \/ CommitRegistration(r) \/ LoseRequest(r) \/ IssueToken(r)
    \/ \E e \in Emails : EnsureUser(e)
    \/ \E t \in issued : LogoutAll(t)

AccountsSpec == AccountsInit /\ [][AccountsNext]_accountsVars

-----------------------------------------------------------------------------
\* However registrations interleave, one of them at most makes an owner, and only
\* where there was none: an account provisioned meanwhile is the one exception.
OneOwner ==
    /\ \A e, f \in owners : e = f
    /\ ~provisioned => {e \in DOMAIN users : users[e].admin} = owners
    /\ ~provisioned /\ users # << >> => \E e \in DOMAIN users : users[e].admin

\* A token never carries a version its user has not reached.
TokensAreOfTheirTime == \A t \in issued : t[1] \in DOMAIN users /\ t[2] <= users[t[1]].version

AccountsTell == OneOwner /\ TokensAreOfTheirTime
=============================================================================

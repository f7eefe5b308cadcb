---------------------------- MODULE IntakeProofs -----------------------------
(* Proofs about what users bring in: one owner at most and tokens of        *)
(* versions their users have reached (Accounts), watched and paused sources *)
(* (Sources), shelves and flags (Library), sources and texts that requests  *)
(* and imports store (Captures), what threads fetch for them (Fetching), and*)
(* the demo corpus with its notes (Seeding).                                *)
EXTENDS Intake, SequenceTheorems, FiniteSetTheorems,
        WellFoundedInduction, TLAPS

-----------------------------------------------------------------------------
(* Accounts.                                                                *)

Admins == {e \in DOMAIN users : users[e].admin}

AccountsTyped ==
    /\ \A e \in DOMAIN users : users[e] \in [admin : BOOLEAN, version : Nat]
    /\ users = [e \in DOMAIN users |-> users[e]]
    /\ request = [r \in Requests |-> request[r]]
    /\ \A t \in issued : t[2] \in Nat
    /\ \A r \in Requests : request[r].at = "locked" => request[r].first \in BOOLEAN
    /\ \A r \in Requests : request[r].at = "verified" => request[r].version \in Nat

\* Whoever may be about to make an owner holds the lock.
Locked == \A r \in Requests : request[r].at = "locked" => firstAdminLock = r

\* What the holder found when it got the lock is still so, but for ensure_user.
FindingStands ==
    \A r \in Requests : request[r].at = "locked" =>
        IF request[r].first THEN owners = {} /\ (~provisioned => Admins = {})
        ELSE Admins # {}

Owned ==
    /\ \A e, f \in owners : e = f
    /\ owners \subseteq Admins
    /\ ~provisioned => Admins \subseteq owners /\ (users = << >> \/ Admins # {})

\* A sign-in has read a version its user has reached.
SignInsAreOfTheirTime ==
    \A r \in Requests : request[r].at = "verified" =>
        request[r].email \in DOMAIN users /\ request[r].version <= users[request[r].email].version

AccountsInv ==
    AccountsTyped /\ Locked /\ FindingStands /\ Owned /\ SignInsAreOfTheirTime /\ TokensAreOfTheirTime

-----------------------------------------------------------------------------
\* The invariant holds before the first user.
LEMMA AccountsInvInit == AccountsInit => AccountsInv
BY DEF AccountsInit, AccountsInv, AccountsTyped, Locked, FindingStands, Owned, Admins,
       SignInsAreOfTheirTime, TokensAreOfTheirTime, Idle

\* A registration asks for the lock.
LEMMA RegisterKeeps ==
    ASSUME AccountsInv, NEW r \in Requests, NEW e \in Emails, Register(r, e)
    PROVE  AccountsInv'
<1>1. /\ request' = [request EXCEPT ![r] = [at |-> "looked", email |-> e]]
      /\ UNCHANGED <<users, firstAdminLock, issued, owners, provisioned>>
      /\ Admins' = Admins
  BY DEF Register, Admins
<1>2. \A q \in Requests : q # r => request'[q] = request[q]
  BY <1>1 DEF AccountsInv, AccountsTyped
<1>3. request'[r].at = "looked" BY <1>1 DEF AccountsInv, AccountsTyped
<1>4. AccountsTyped' BY <1>1, <1>2, <1>3 DEF AccountsInv, AccountsTyped
<1>5. Locked' /\ FindingStands' /\ SignInsAreOfTheirTime'
  BY <1>1, <1>2, <1>3 DEF AccountsInv, Locked, FindingStands, SignInsAreOfTheirTime
<1>6. Owned' /\ TokensAreOfTheirTime' BY <1>1 DEF AccountsInv, Owned, TokensAreOfTheirTime
<1> QED BY <1>4, <1>5, <1>6 DEF AccountsInv

\* Under the lock a registration finds whether there is an owner.
LEMMA LockKeeps ==
    ASSUME AccountsInv, NEW r \in Requests, LockFirstAdmin(r)
    PROVE  AccountsInv'
<1>1. /\ request' = [request EXCEPT ![r] = [at |-> "locked", email |-> request[r].email,
                                            first |-> \A e \in DOMAIN users : ~users[e].admin]]
      /\ firstAdminLock = Nobody /\ firstAdminLock' = r
      /\ UNCHANGED <<users, issued, owners, provisioned>>
      /\ Admins' = Admins
  BY DEF LockFirstAdmin, FreeLock, Admins
<1>2. \A q \in Requests : q # r => request'[q] = request[q]
  BY <1>1 DEF AccountsInv, AccountsTyped
<1>3. request'[r].at = "locked" /\ (request'[r].first <=> Admins = {})
  BY <1>1 DEF AccountsInv, AccountsTyped, Admins
<1>4. \A q \in Requests : request[q].at # "locked"
  BY <1>1, AccountsAssumption DEF AccountsInv, Locked, Nobody
<1>5. AccountsTyped' BY <1>1, <1>2, <1>3 DEF AccountsInv, AccountsTyped
<1>6. Locked' /\ SignInsAreOfTheirTime'
  BY <1>1, <1>2, <1>3, <1>4 DEF AccountsInv, Locked, SignInsAreOfTheirTime
<1>7. FindingStands' BY <1>1, <1>2, <1>3, <1>4 DEF AccountsInv, Owned, FindingStands
<1>8. Owned' /\ TokensAreOfTheirTime' BY <1>1 DEF AccountsInv, Owned, TokensAreOfTheirTime
<1> QED BY <1>5, <1>6, <1>7, <1>8 DEF AccountsInv

\* A request that ends takes nothing of the others with it.
LEMMA AccountRequestEnds ==
    ASSUME AccountsInv, NEW r \in Requests, request' = [request EXCEPT ![r] = Idle]
    PROVE  /\ request' = [q \in Requests |-> request'[q]]
           /\ request'[r].at = "idle"
           /\ \A q \in Requests : q # r => request'[q] = request[q]
BY DEF AccountsInv, AccountsTyped, Idle

\* A registration that dies lets go of the lock.
LEMMA LoseRequestKeeps ==
    ASSUME AccountsInv, NEW r \in Requests, LoseRequest(r)
    PROVE  AccountsInv'
<1>1. /\ request' = [request EXCEPT ![r] = Idle]
      /\ firstAdminLock' = IF firstAdminLock = r THEN Nobody ELSE firstAdminLock
      /\ UNCHANGED <<users, issued, owners, provisioned>>
      /\ Admins' = Admins
  BY DEF LoseRequest, Admins
<1>2. /\ request' = [q \in Requests |-> request'[q]]
      /\ request'[r].at = "idle"
      /\ \A q \in Requests : q # r => request'[q] = request[q]
  BY <1>1, AccountRequestEnds
<1>3. AccountsTyped' BY <1>1, <1>2 DEF AccountsInv, AccountsTyped
<1>4. Locked' /\ FindingStands' /\ SignInsAreOfTheirTime'
  BY <1>1, <1>2 DEF AccountsInv, Locked, FindingStands, SignInsAreOfTheirTime
<1>5. Owned' /\ TokensAreOfTheirTime' BY <1>1 DEF AccountsInv, Owned, TokensAreOfTheirTime
<1> QED BY <1>3, <1>4, <1>5 DEF AccountsInv

\* A commit makes the owner the lock's holder found missing.
LEMMA CommitRegistrationKeeps ==
    ASSUME AccountsInv, NEW r \in Requests, CommitRegistration(r)
    PROVE  AccountsInv'
<1>1. /\ request[r].at = "locked" /\ firstAdminLock = r
      /\ request' = [request EXCEPT ![r] = Idle]
      /\ firstAdminLock' = Nobody /\ provisioned' = provisioned
  BY DEF CommitRegistration, AccountsInv, Locked
<1>2. /\ request' = [q \in Requests |-> request'[q]]
      /\ request'[r].at = "idle"
      /\ \A q \in Requests : q # r => request'[q] = request[q]
  BY <1>1, AccountRequestEnds
<1>3. \A q \in Requests : q # r => request[q].at # "locked" BY <1>1 DEF AccountsInv, Locked
<1>4. Locked' /\ FindingStands' BY <1>2, <1>3 DEF Locked, FindingStands
<1> DEFINE e == request[r].email
<1>5. CASE e \in DOMAIN users
  BY <1>1, <1>2, <1>4, <1>5 DEF CommitRegistration, Admins, AccountsInv, AccountsTyped,
     SignInsAreOfTheirTime, Owned, TokensAreOfTheirTime
<1>6. CASE e \notin DOMAIN users
  <2>1. /\ users' = [x \in DOMAIN users \cup {e} |->
              IF x = e THEN [admin |-> request[r].first, version |-> 0] ELSE users[x]]
        /\ issued' = issued \cup {<<e, 0>>}
        /\ owners' = IF request[r].first THEN owners \cup {e} ELSE owners
    BY <1>6 DEF CommitRegistration
  <2> HIDE DEF e
  <2>2. /\ DOMAIN users' = DOMAIN users \cup {e}
        /\ \A x \in DOMAIN users : users'[x] = users[x]
        /\ users'[e] = [admin |-> request[r].first, version |-> 0]
    BY <1>6, <2>1
  <2>3. Admins' = IF request[r].first THEN Admins \cup {e} ELSE Admins BY <1>6, <2>2 DEF Admins
  <2>4. AccountsTyped' /\ SignInsAreOfTheirTime'
    <3>1. request[r].first \in BOOLEAN BY <1>1 DEF AccountsInv, AccountsTyped
    <3>2. \A x \in DOMAIN users' : users'[x] \in [admin : BOOLEAN, version : Nat]
      BY <2>2, <3>1 DEF AccountsInv, AccountsTyped
    <3>3. users' = [x \in DOMAIN users' |-> users'[x]] BY <2>1, <2>2
    <3>4. AccountsTyped'
      <4>1. \A t \in issued' : t[2] \in Nat BY <2>1 DEF AccountsInv, AccountsTyped
      <4>2. \A q \in Requests : /\ request'[q].at = "locked" => request'[q].first \in BOOLEAN
                                /\ request'[q].at = "verified" => request'[q].version \in Nat
        BY <1>2 DEF AccountsInv, AccountsTyped
      <4> QED BY <1>2, <3>2, <3>3, <4>1, <4>2 DEF AccountsTyped
    <3>5. SignInsAreOfTheirTime' BY <1>2, <2>2 DEF AccountsInv, SignInsAreOfTheirTime
    <3> QED BY <3>4, <3>5
  <2>5. TokensAreOfTheirTime' BY <1>6, <2>1, <2>2 DEF AccountsInv, TokensAreOfTheirTime
  <2>6. Owned'
    <3>1. CASE request[r].first BY <1>1, <2>1, <2>3, <3>1 DEF AccountsInv, FindingStands, Owned
    <3>2. CASE ~request[r].first BY <1>1, <2>1, <2>3, <3>2 DEF AccountsInv, FindingStands, Owned
    <3> QED BY <3>1, <3>2
  <2> QED BY <1>4, <2>4, <2>5, <2>6 DEF AccountsInv
<1> QED BY <1>5, <1>6

\* ensure_user makes an owner without the lock, and is remembered.
LEMMA EnsureKeeps ==
    ASSUME AccountsInv, NEW e \in Emails, EnsureUser(e)
    PROVE  AccountsInv'
<1>1. /\ e \notin DOMAIN users /\ provisioned'
      /\ UNCHANGED <<request, firstAdminLock, issued, owners>>
      /\ users' = [x \in DOMAIN users \cup {e} |->
            IF x = e THEN [admin |-> \A y \in DOMAIN users : ~users[y].admin, version |-> 0]
            ELSE users[x]]
  BY DEF EnsureUser
<1>2. /\ DOMAIN users' = DOMAIN users \cup {e}
      /\ \A x \in DOMAIN users : users'[x] = users[x]
      /\ users'[e].version = 0
  BY <1>1
<1>3. Admins \subseteq Admins' BY <1>2 DEF Admins
<1>4. AccountsTyped' /\ SignInsAreOfTheirTime'
  BY <1>1, <1>2 DEF AccountsInv, AccountsTyped, SignInsAreOfTheirTime
<1>5. Locked' /\ FindingStands' /\ Owned'
  BY <1>1, <1>3 DEF AccountsInv, Locked, FindingStands, Owned
<1>6. TokensAreOfTheirTime' BY <1>1, <1>2 DEF AccountsInv, TokensAreOfTheirTime
<1> QED BY <1>4, <1>5, <1>6 DEF AccountsInv

\* A sign-in reads the version its user has.
LEMMA LoginKeeps ==
    ASSUME AccountsInv, NEW r \in Requests, NEW e \in Emails, Login(r, e)
    PROVE  AccountsInv'
<1>1. /\ e \in DOMAIN users
      /\ request' = [request EXCEPT ![r] = [at |-> "verified", email |-> e,
                                            version |-> users[e].version]]
      /\ UNCHANGED <<users, firstAdminLock, issued, owners, provisioned>>
      /\ Admins' = Admins
  BY DEF Login, Admins
<1>2. /\ \A q \in Requests : q # r => request'[q] = request[q]
      /\ request'[r].at = "verified" /\ request'[r].email = e
      /\ request'[r].version = users[e].version
  BY <1>1 DEF AccountsInv, AccountsTyped
<1>3. users[e].version \in Nat BY <1>1 DEF AccountsInv, AccountsTyped
<1>4. AccountsTyped' BY <1>1, <1>2, <1>3 DEF AccountsInv, AccountsTyped
<1>5. Locked' /\ FindingStands' BY <1>1, <1>2 DEF AccountsInv, Locked, FindingStands
<1>6. SignInsAreOfTheirTime' BY <1>1, <1>2, <1>3 DEF AccountsInv, SignInsAreOfTheirTime
<1>7. Owned' /\ TokensAreOfTheirTime' BY <1>1 DEF AccountsInv, Owned, TokensAreOfTheirTime
<1> QED BY <1>4, <1>5, <1>6, <1>7 DEF AccountsInv

\* A token carries the version that was read.
LEMMA IssueKeeps ==
    ASSUME AccountsInv, NEW r \in Requests, IssueToken(r)
    PROVE  AccountsInv'
<1>1. /\ request[r].at = "verified"
      /\ issued' = issued \cup {<<request[r].email, request[r].version>>}
      /\ request' = [request EXCEPT ![r] = Idle]
      /\ UNCHANGED <<users, firstAdminLock, owners, provisioned>>
      /\ Admins' = Admins
  BY DEF IssueToken, Admins
<1>2. /\ request' = [q \in Requests |-> request'[q]]
      /\ request'[r].at = "idle"
      /\ \A q \in Requests : q # r => request'[q] = request[q]
  BY <1>1, AccountRequestEnds
<1>3. AccountsTyped' BY <1>1, <1>2 DEF AccountsInv, AccountsTyped
<1>4. Locked' /\ FindingStands' /\ SignInsAreOfTheirTime'
  BY <1>1, <1>2 DEF AccountsInv, Locked, FindingStands, SignInsAreOfTheirTime
<1>5. TokensAreOfTheirTime' BY <1>1 DEF AccountsInv, SignInsAreOfTheirTime, TokensAreOfTheirTime
<1>6. Owned' BY <1>1 DEF AccountsInv, Owned
<1> QED BY <1>3, <1>4, <1>5, <1>6 DEF AccountsInv

\* A logout raises the version.
LEMMA LogoutKeeps ==
    ASSUME AccountsInv, NEW t \in issued, LogoutAll(t)
    PROVE  AccountsInv'
<1> DEFINE e == t[1]
<1>1. /\ e \in DOMAIN users
      /\ users' = [users EXCEPT ![e].version = users[e].version + 1]
      /\ UNCHANGED <<request, firstAdminLock, issued, owners, provisioned>>
  BY DEF LogoutAll, Accepts
<1> HIDE DEF e
<1>2. /\ DOMAIN users' = DOMAIN users
      /\ \A x \in DOMAIN users : /\ users'[x].admin = users[x].admin
                                 /\ users'[x].version \in Nat
                                 /\ users[x].version <= users'[x].version
  BY <1>1 DEF AccountsInv, AccountsTyped
<1>3. Admins' = Admins BY <1>2 DEF Admins
<1>4. AccountsTyped' BY <1>1, <1>2 DEF AccountsInv, AccountsTyped
<1>5. Locked' /\ FindingStands' BY <1>1, <1>3 DEF AccountsInv, Locked, FindingStands
<1>6. SignInsAreOfTheirTime' /\ TokensAreOfTheirTime'
  BY <1>1, <1>2 DEF AccountsInv, AccountsTyped, SignInsAreOfTheirTime, TokensAreOfTheirTime
<1>7. Owned' BY <1>1, <1>2, <1>3 DEF AccountsInv, Owned
<1> QED BY <1>4, <1>5, <1>6, <1>7 DEF AccountsInv

\* The invariant is inductive: one step per action.
LEMMA AccountsInvKept == AccountsInv /\ [AccountsNext]_accountsVars => AccountsInv'
<1> SUFFICES ASSUME AccountsInv, [AccountsNext]_accountsVars PROVE AccountsInv' OBVIOUS
<1>1. CASE UNCHANGED accountsVars
  BY <1>1 DEF accountsVars, AccountsInv, AccountsTyped, Locked, FindingStands, Owned, Admins,
              SignInsAreOfTheirTime, TokensAreOfTheirTime
<1> QED BY <1>1, RegisterKeeps, LockKeeps, LoseRequestKeeps, CommitRegistrationKeeps, EnsureKeeps, LoginKeeps,
            IssueKeeps, LogoutKeeps DEF AccountsNext

\* For any number of requests and emails: registrations make one owner at most, who is
\* the only one unless ensure_user ran, and every token is of a version its user reached.
THEOREM OneOwnerOnly == AccountsSpec => []AccountsTell
<1>1. AccountsInv => AccountsTell BY DEF AccountsInv, Owned, Admins, AccountsTell, OneOwner
<1> QED BY AccountsInvInit, AccountsInvKept, <1>1, PTL DEF AccountsSpec

-----------------------------------------------------------------------------
(* Sources and their watches.                                               *)

\* Unless requests overlapped there is one at most, and what it loaded is still so.
WatchRequests ==
    \A w \in Watches :
        watchRow[w].at # "idle" /\ source.kept /\ ~overlapped =>
            /\ \A o \in Watches \ {w} : watchRow[o].at = "idle"
            /\ watchRow[w].watch = source.watch
            /\ watchRow[w].last = (Others(w) = {})

\* Whoever reads a source that is paused had loaded it before.
PausedUnread == source.status = "paused" => Working \subseteq unpaused

SourcesInv ==
    /\ watchRow = [w \in Watches |-> watchRow[w]]
    /\ run = [r \in Runs |-> run[r]]
    /\ \A w \in Watches : "row" \in DOMAIN watchRow[w]
    /\ SourcesTypeOK /\ WatchRequests /\ WatchRowsWatch /\ PausedUnread

\* The invariant holds before the first request.
LEMMA SourcesInvInit == SourcesInit => SourcesInv
<1> SUFFICES ASSUME SourcesInit PROVE SourcesInv OBVIOUS
<1>1. SourcesTypeOK
  BY SourcesAssumption DEF SourcesInit, SourcesTypeOK, Moments, Statuses, Working
<1>2. WatchRequests /\ WatchRowsWatch /\ PausedUnread
  BY DEF SourcesInit, WatchRequests, WatchRowsWatch, PausedUnread, KeptWatches
<1> QED BY <1>1, <1>2 DEF SourcesInit, SourcesInv

\* Steps that leave the watches and their requests alone.
LEMMA ApartFromWatches ==
    ASSUME SourcesInv, UNCHANGED <<watchRow, unwatched, overlapped>>,
           source'.watch = source.watch, source'.kept = source.kept
    PROVE  WatchRequests' /\ WatchRowsWatch'
BY DEF SourcesInv, WatchRequests, WatchRowsWatch, KeptWatches, Others

\* A source has its fields.
LEMMA SourceFields ==
    ASSUME SourcesInv
    PROVE  /\ source = [kept |-> source.kept, status |-> source.status, watch |-> source.watch,
                        next |-> source.next]
           /\ source.kept \in BOOLEAN /\ source.status \in Statuses /\ source.watch \in BOOLEAN
           /\ source.next \in Nat \cup {NoTime} /\ time \in Nat /\ time + Interval \in Nat
BY SourcesAssumption DEF SourcesInv, SourcesTypeOK, Moments

\* A user pauses or resumes.
LEMMA PatchStatusKeeps ==
    ASSUME SourcesInv, NEW s \in Statuses, PatchStatus(s) PROVE SourcesInv'
<1>1. /\ source' = [source EXCEPT !.status = s]
      /\ unpaused' = IF s = "paused" THEN Working ELSE {}
      /\ UNCHANGED <<time, watchRow, ingests, run, faultsLeft, unwatched, overlapped>>
  BY DEF PatchStatus
<1>2. /\ source'.watch = source.watch /\ source'.kept = source.kept /\ source'.next = source.next
      /\ source'.status = s
      /\ source' \in [kept : BOOLEAN, status : Statuses, watch : BOOLEAN, next : Nat \cup {NoTime}]
  BY <1>1, SourceFields
<1>3. WatchRequests' /\ WatchRowsWatch' BY <1>1, <1>2, ApartFromWatches
<1>4. SourcesTypeOK' BY <1>1, <1>2 DEF SourcesInv, SourcesTypeOK, Working
<1>5. PausedUnread' BY <1>1, <1>2 DEF PausedUnread, Working
<1> QED BY <1>1, <1>3, <1>4, <1>5 DEF SourcesInv

\* A user switches the watching off or on.
LEMMA PatchWatchKeeps ==
    ASSUME SourcesInv, NEW on \in BOOLEAN, PatchWatch(on) PROVE SourcesInv'
<1>1. /\ source' = [source EXCEPT !.watch = on,
                                  !.next = IF ~on THEN NoTime
                                           ELSE IF source.next = NoTime THEN time ELSE source.next]
      /\ unwatched' = ~on
      /\ overlapped' = (overlapped \/ Asking # {})
      /\ UNCHANGED <<time, watchRow, ingests, run, faultsLeft, unpaused>>
  BY DEF PatchWatch
<1>2. /\ source'.watch = on /\ source'.kept = source.kept /\ source'.status = source.status
      /\ source' \in [kept : BOOLEAN, status : Statuses, watch : BOOLEAN, next : Nat \cup {NoTime}]
  BY <1>1, SourceFields
<1>3. WatchRequests' /\ WatchRowsWatch' BY <1>1, <1>2 DEF WatchRequests, WatchRowsWatch, Asking
<1>4. SourcesTypeOK' BY <1>1, <1>2 DEF SourcesInv, SourcesTypeOK, Working
<1>5. PausedUnread' BY <1>1, <1>2 DEF SourcesInv, PausedUnread, Working
<1> QED BY <1>1, <1>3, <1>4, <1>5 DEF SourcesInv

\* A source that is deleted takes its watches with it.
LEMMA DeleteSourceKeeps ==
    ASSUME SourcesInv, DeleteSource PROVE SourcesInv'
<1>1. /\ source' = [source EXCEPT !.kept = FALSE]
      /\ watchRow' = [w \in Watches |-> [watchRow[w] EXCEPT !.row = IF @ = "kept" THEN "gone" ELSE @]]
      /\ UNCHANGED <<time, ingests, run, faultsLeft, unpaused, unwatched, overlapped>>
  BY DEF DeleteSource
<1>2. /\ source'.kept = FALSE /\ source'.status = source.status
      /\ source' \in [kept : BOOLEAN, status : Statuses, watch : BOOLEAN, next : Nat \cup {NoTime}]
  BY <1>1, SourceFields
<1>3. WatchRequests' /\ WatchRowsWatch' BY <1>2 DEF WatchRequests, WatchRowsWatch
<1>4. \A w \in Watches : /\ watchRow'[w].row \in {"none", "kept", "gone"}
                         /\ "row" \in DOMAIN watchRow'[w]
  BY <1>1 DEF SourcesInv, SourcesTypeOK
<1>5. SourcesTypeOK' BY <1>1, <1>2, <1>4 DEF SourcesInv, SourcesTypeOK, Working
<1>6. PausedUnread' BY <1>1, <1>2 DEF SourcesInv, PausedUnread, Working
<1> QED BY <1>1, <1>3, <1>4, <1>5, <1>6 DEF SourcesInv

\* RefreshSource and the clock touch no row.
LEMMA AsideKeeps ==
    ASSUME SourcesInv, RefreshSource \/ PassTime PROVE SourcesInv'
BY SourcesAssumption, ApartFromWatches DEF RefreshSource, PassTime, SourcesInv, SourcesTypeOK,
   Moments, PausedUnread, Working

\* A request about a watch loads the source it will write.
LEMMA LoadForWatchKeeps ==
    ASSUME SourcesInv, NEW w \in Watches, CreateWatchReads(w) \/ DeleteWatchReads(w) PROVE SourcesInv'
<1>1. PICK at \in {"create", "delete"} :
        /\ watchRow' = [watchRow EXCEPT ![w] = [row |-> watchRow[w].row, at |-> at,
                                                watch |-> source.watch, last |-> Others(w) = {}]]
        /\ overlapped' = (overlapped \/ Asking # {})
        /\ UNCHANGED <<time, source, ingests, run, faultsLeft, unpaused, unwatched>>
  BY DEF CreateWatchReads, DeleteWatchReads, LoadForWatch
<1>2. /\ watchRow' = [o \in Watches |-> watchRow'[o]]
      /\ watchRow'[w] = [row |-> watchRow[w].row, at |-> at, watch |-> source.watch, last |-> Others(w) = {}]
      /\ \A o \in Watches \ {w} : watchRow'[o] = watchRow[o]
  BY <1>1 DEF SourcesInv
<1>3. \A o \in Watches : watchRow'[o].row = watchRow[o].row BY <1>2
<1>4. KeptWatches' = KeptWatches BY <1>3 DEF KeptWatches
<1>5. WatchRequests' BY <1>1, <1>2, <1>4 DEF WatchRequests, Others, Asking
<1>6. WatchRowsWatch' BY <1>1, <1>4 DEF SourcesInv, WatchRowsWatch
<1>7. SourcesTypeOK' /\ PausedUnread'
  BY <1>1, <1>3 DEF SourcesInv, SourcesTypeOK, PausedUnread, Working
<1>8. \A o \in Watches : "row" \in DOMAIN watchRow'[o] BY <1>2 DEF SourcesInv
<1> QED BY <1>1, <1>2, <1>5, <1>6, <1>7, <1>8 DEF SourcesInv

\* A request about a watch that ends.
LEMMA EndOfRequest ==
    ASSUME SourcesInv, NEW w \in Watches, NEW row \in {"none", "kept", "gone"}, WatchRequestEnds(w, row)
    PROVE  /\ watchRow' = [o \in Watches |-> watchRow'[o]]
           /\ watchRow'[w] = [row |-> row, at |-> "idle"]
           /\ \A o \in Watches \ {w} : watchRow'[o] = watchRow[o]
           /\ \A o \in Watches : /\ watchRow'[o].row \in {"none", "kept", "gone"}
                                 /\ "row" \in DOMAIN watchRow'[o]
           /\ KeptWatches' = IF row = "kept" THEN KeptWatches \cup {w} ELSE KeptWatches \ {w}
BY DEF SourcesInv, WatchRequestEnds, SourcesTypeOK, KeptWatches

\* A watch that is stored makes its source watched.
LEMMA CreateCommitKeeps ==
    ASSUME SourcesInv, NEW w \in Watches, CreateWatchCommits(w) PROVE SourcesInv'
<1>1. /\ watchRow[w].at = "create" /\ source.kept
      /\ WatchRequestEnds(w, "kept")
      /\ source' = [source EXCEPT !.watch = Flushed(source.watch, watchRow[w].watch, TRUE), !.next = time]
      /\ unwatched' = (unwatched /\ ~source'.watch)
      /\ UNCHANGED <<time, ingests, run, unpaused, overlapped>>
  BY DEF CreateWatchCommits
<1>2. /\ source'.watch = Flushed(source.watch, watchRow[w].watch, TRUE) /\ source'.kept = source.kept
      /\ source'.status = source.status
      /\ source' \in [kept : BOOLEAN, status : Statuses, watch : BOOLEAN, next : Nat \cup {NoTime}]
  BY <1>1, SourceFields DEF Flushed
<1>3. /\ watchRow' = [o \in Watches |-> watchRow'[o]]
      /\ watchRow'[w] = [row |-> "kept", at |-> "idle"]
      /\ \A o \in Watches \ {w} : watchRow'[o] = watchRow[o]
      /\ \A o \in Watches : /\ watchRow'[o].row \in {"none", "kept", "gone"}
                            /\ "row" \in DOMAIN watchRow'[o]
  BY <1>1, EndOfRequest
<1>4. ~overlapped => /\ source'.watch = TRUE
                     /\ \A o \in Watches : watchRow'[o].at = "idle"
  BY <1>1, <1>2, <1>3, SourceFields DEF SourcesInv, WatchRequests, Flushed
<1>5. WatchRequests' /\ WatchRowsWatch' BY <1>1, <1>4 DEF WatchRequests, WatchRowsWatch
<1>6. SourcesTypeOK' /\ PausedUnread'
  BY <1>1, <1>2, <1>3 DEF SourcesInv, SourcesTypeOK, PausedUnread, Working
<1> QED BY <1>1, <1>3, <1>5, <1>6 DEF SourcesInv

\* The last watch that goes leaves its source unwatched.
LEMMA DeleteCommitKeeps ==
    ASSUME SourcesInv, NEW w \in Watches, DeleteWatchCommits(w) PROVE SourcesInv'
<1>1. /\ watchRow[w].at = "delete"
      /\ WatchRequestEnds(w, "gone")
      /\ source' = [source EXCEPT !.watch = IF watchRow[w].last
                                            THEN Flushed(source.watch, watchRow[w].watch, FALSE)
                                            ELSE source.watch]
      /\ UNCHANGED <<time, ingests, run, unpaused, unwatched, overlapped>>
  BY DEF DeleteWatchCommits
<1>2. /\ ~watchRow[w].last => source'.watch = source.watch
      /\ source'.kept = source.kept /\ source'.status = source.status
      /\ source' \in [kept : BOOLEAN, status : Statuses, watch : BOOLEAN, next : Nat \cup {NoTime}]
  BY <1>1, SourceFields DEF Flushed
<1>3. /\ watchRow' = [o \in Watches |-> watchRow'[o]]
      /\ watchRow'[w] = [row |-> "gone", at |-> "idle"]
      /\ \A o \in Watches \ {w} : watchRow'[o] = watchRow[o]
      /\ \A o \in Watches : /\ watchRow'[o].row \in {"none", "kept", "gone"}
                            /\ "row" \in DOMAIN watchRow'[o]
      /\ KeptWatches' = KeptWatches \ {w}
  BY <1>1, EndOfRequest
<1>4. WatchRequests' BY <1>1, <1>2, <1>3 DEF SourcesInv, WatchRequests
<1>5. WatchRowsWatch' BY <1>1, <1>2, <1>3 DEF SourcesInv, WatchRequests, Others, WatchRowsWatch
<1>6. SourcesTypeOK' /\ PausedUnread'
  BY <1>1, <1>2, <1>3 DEF SourcesInv, SourcesTypeOK, PausedUnread, Working
<1> QED BY <1>1, <1>3, <1>4, <1>5, <1>6 DEF SourcesInv

\* A request that dies stores nothing.
LEMMA RequestFailsKeeps ==
    ASSUME SourcesInv, NEW w \in Watches, WatchRequestFails(w) PROVE SourcesInv'
BY EndOfRequest DEF WatchRequestFails, SourcesInv, SourcesTypeOK, WatchRequests, WatchRowsWatch,
   PausedUnread, Working

\* A tick that queues a check leaves the source's watching and its pause alone.
LEMMA TickKeeps ==
    ASSUME SourcesInv, TickWatchSources PROVE SourcesInv'
BY SourceFields, ApartFromWatches DEF TickWatchSources, SourcesInv, SourcesTypeOK, PausedUnread,
   Working

\* A check begins with a source it found active.
LEMMA StartKeeps ==
    ASSUME SourcesInv, NEW r \in Runs, NEW k \in ingests, StartIngest(r, k) PROVE SourcesInv'
<1>1. UNCHANGED <<time, source, watchRow, unpaused, unwatched, overlapped>> BY DEF StartIngest
<1>2. run' = [x \in Runs |-> run'[x]] BY DEF StartIngest, SourcesInv
<1>3. source.status = "paused" => run' = run BY DEF StartIngest, MayIngest
<1>4. WatchRequests' /\ WatchRowsWatch' BY <1>1, ApartFromWatches
<1>5. SourcesTypeOK' /\ PausedUnread'
  BY <1>1, <1>3 DEF SourcesInv, SourcesTypeOK, PausedUnread, Working
<1> QED BY <1>1, <1>2, <1>4, <1>5 DEF SourcesInv

\* A check that ends leaves its source as its user would find it.
LEMMA EndIngestKeeps ==
    ASSUME SourcesInv, NEW r \in Runs,
           (\E again \in BOOLEAN : IngestFails(r, again)) \/ IngestSucceeds(r) \/ IngestLost(r)
    PROVE  SourcesInv'
<1>1. EndIngest(r) BY DEF IngestFails, IngestSucceeds, IngestLost
<1>2. /\ run' = [run EXCEPT ![r] = Resting] /\ unpaused' = unpaused \ {r}
      /\ UNCHANGED <<time, watchRow, unwatched, overlapped>>
  BY <1>1 DEF EndIngest
<1>3. /\ source'.watch = source.watch /\ source'.kept = source.kept
      /\ source'.status = "paused" => source.status = "paused"
      /\ source' \in [kept : BOOLEAN, status : Statuses, watch : BOOLEAN, next : Nat \cup {NoTime}]
  <2>1. CASE \E again \in BOOLEAN : IngestFails(r, again)
    BY <2>1, SourceFields DEF IngestFails, Statuses
  <2>2. CASE IngestSucceeds(r) BY <2>2, SourceFields DEF IngestSucceeds, Flushed, Statuses
  <2>3. CASE IngestLost(r) BY <2>3, SourceFields DEF IngestLost
  <2> QED BY <2>1, <2>2, <2>3
<1>4. WatchRequests' /\ WatchRowsWatch' BY <1>2, <1>3, ApartFromWatches
<1>5. run' = [x \in Runs |-> run'[x]] /\ Working' = Working \ {r}
  BY <1>2 DEF SourcesInv, Working
<1>6. SourcesTypeOK' /\ PausedUnread'
  BY <1>2, <1>3, <1>5 DEF SourcesInv, SourcesTypeOK, PausedUnread, Working
<1> QED BY <1>2, <1>4, <1>5, <1>6 DEF SourcesInv

\* The invariant is inductive: one step per action.
LEMMA SourcesInvKept == SourcesInv /\ [SourcesNext]_sourcesVars => SourcesInv'
<1> SUFFICES ASSUME SourcesInv, [SourcesNext]_sourcesVars PROVE SourcesInv' OBVIOUS
<1>1. CASE UNCHANGED sourcesVars
  BY <1>1 DEF sourcesVars, SourcesInv, SourcesTypeOK, WatchRequests, WatchRowsWatch, PausedUnread,
              Working, KeptWatches, Others
<1> QED BY <1>1, PatchStatusKeeps, PatchWatchKeeps, DeleteSourceKeeps, AsideKeeps, LoadForWatchKeeps,
            CreateCommitKeeps, DeleteCommitKeeps, RequestFailsKeeps, TickKeeps, StartKeeps, EndIngestKeeps
         DEF SourcesNext

\* For any number of requests and checks: a source with a watch is watched, unless its
\* user switched that off or requests about it overlapped.
THEOREM SourcesHold == SourcesSpec => [](SourcesTypeOK /\ WatchRowsWatch)
<1>1. SourcesInv => SourcesTypeOK /\ WatchRowsWatch BY DEF SourcesInv
<1> QED BY SourcesInvInit, SourcesInvKept, <1>1, PTL DEF SourcesSpec

\* A paused source is resumed by its user, or by a check that had loaded it before.
LEMMA PauseStep ==
    ASSUME SourcesInv, [SourcesNext]_sourcesVars, source.status = "paused", source'.status # "paused"
    PROVE  \/ \E s \in Statuses : PatchStatus(s)
           \/ \E r \in unpaused : run'[r] # run[r]
<1>1. CASE \E s \in Statuses : PatchStatus(s) BY <1>1
<1>2. CASE \E r \in Runs : (\E again \in BOOLEAN : IngestFails(r, again)) \/ IngestSucceeds(r) \/ IngestLost(r)
  <2>1. PICK r \in Runs : run[r] # Resting /\ EndIngest(r)
    BY <1>2 DEF IngestFails, IngestSucceeds, IngestLost
  <2>2. r \in unpaused BY <2>1 DEF SourcesInv, PausedUnread, Working
  <2>3. run'[r] = Resting BY <2>1 DEF EndIngest, SourcesInv
  <2> QED BY <2>1, <2>2, <2>3
<1>3. CASE UNCHANGED source BY <1>3
<1>4. CASE \/ \E on \in BOOLEAN : PatchWatch(on)
           \/ DeleteSource \/ TickWatchSources
           \/ \E w \in Watches : CreateWatchCommits(w) \/ DeleteWatchCommits(w)
  BY <1>4, SourceFields DEF PatchWatch, DeleteSource, TickWatchSources, CreateWatchCommits, DeleteWatchCommits
<1> QED BY <1>1, <1>2, <1>3, <1>4
         DEF SourcesNext, sourcesVars, RefreshSource, CreateWatchReads, DeleteWatchReads, LoadForWatch,
             WatchRequestFails, PassTime, StartIngest

\* A paused source is resumed by its user, or by a check that had loaded it before it was
\* paused, and by no other step, for any number of requests and checks.
THEOREM PauseStands == SourcesSpec => PauseHolds
<1>1. SourcesInv /\ [SourcesNext]_sourcesVars =>
        [source.status = "paused" /\ source'.status # "paused" =>
         \/ \E s \in Statuses : PatchStatus(s)
         \/ \E r \in unpaused : run'[r] # run[r]]_sourcesVars
  BY PauseStep
<1> QED BY SourcesInvInit, SourcesInvKept, <1>1, PTL DEF SourcesSpec, PauseHolds

-----------------------------------------------------------------------------
(* Shelves and flags.                                                       *)

\* What a request about shelves was allowed to do it may still do, where its shelf stands.
ShelfRequest(r) ==
    /\ r.op = "rename" => /\ r.shelf \in Shelves /\ shelves[r.shelf] # NoShelf
                          /\ r.shelf \in Standing => shelves[r.shelf].owner = <<r.user>>
    /\ r.op = "pair" => /\ r.shelf \in Shelves /\ shelves[r.shelf] # NoShelf
                        /\ r.doc \in Books
                        /\ r.shelf \in Standing => shelves[r.shelf].owner = <<OwnerOf[r.doc]>>

\* A request about flags loaded what the row still holds, and found no row only if
\* there still is none, but for the flags that were set meanwhile.
FlagRequest(r) ==
    r.op = "flags" =>
        /\ r.doc \in Books /\ r.sent \subseteq Flags /\ r.value \in BOOLEAN
        /\ r.row = 0 => /\ r.loaded = NoFlags
                        /\ flagRows[r.doc] = <<>> \/ racedFlags[r.doc] = Flags
        /\ r.row # 0 => /\ r.row \in DOMAIN flagRows[r.doc]
                        /\ \A f \in r.sent \ racedFlags[r.doc] :
                               flagRows[r.doc][r.row][f] = r.loaded[f]

ShelvesHold ==
    /\ shelves = [s \in Shelves |-> shelves[s]]
    /\ \A b \in shelved : b[1] \in Shelves
    /\ ShelvesApart

\* All rows of a document say of a flag what was last answered, and where there are
\* several rows every flag was raced for.
RowsHold(d) ==
    /\ \A i \in DOMAIN flagRows[d] : \A f \in Flags \ racedFlags[d] :
           flagRows[d][i][f] = answeredFlags[d][f]
    /\ flagRows[d] = <<>> => answeredFlags[d] = NoFlags
    /\ Len(flagRows[d]) > 1 => racedFlags[d] = Flags

FlagsTyped ==
    /\ flagRows \in [Books -> Seq([Flags -> BOOLEAN])]
    /\ answeredFlags \in [Books -> [Flags -> BOOLEAN]]
    /\ racedFlags \in [Books -> SUBSET Flags]

LibraryInv ==
    /\ patron = [p \in Patrons |-> patron[p]]
    /\ FlagsTyped /\ ShelvesHold
    /\ \A d \in Books : RowsHold(d)
    /\ \A p \in Patrons : ShelfRequest(patron[p]) /\ FlagRequest(patron[p])

\* The invariant holds on empty shelves.
LEMMA LibraryInvInit == LibraryInit => LibraryInv
<1> SUFFICES ASSUME LibraryInit PROVE LibraryInv OBVIOUS
<1>1. FlagsTyped /\ \A d \in Books : RowsHold(d)
  BY DEF LibraryInit, FlagsTyped, RowsHold, NoFlags, Flags
<1>2. ShelvesHold BY DEF LibraryInit, ShelvesHold, ShelvesApart, Standing, NoShelf
<1> QED BY <1>1, <1>2 DEF LibraryInit, LibraryInv, ShelfRequest, FlagRequest, NoRequest

\* A request begins, or ends.
LEMMA TurnKeeps ==
    ASSUME LibraryInv, NEW p \in Patrons, NEW asks, patron' = [patron EXCEPT ![p] = asks],
           ShelfRequest(asks), FlagRequest(asks),
           UNCHANGED <<shelves, shelved, flagRows, answeredFlags, racedFlags>>
    PROVE  LibraryInv'
<1>1. /\ patron' = [q \in Patrons |-> patron'[q]]
      /\ \A q \in Patrons : patron'[q] = IF q = p THEN asks ELSE patron[q]
  BY DEF LibraryInv
<1>2. FlagsTyped' /\ ShelvesHold' /\ \A d \in Books : RowsHold(d)'
  BY DEF LibraryInv, FlagsTyped, ShelvesHold, ShelvesApart, Standing, RowsHold
<1>3. \A q \in Patrons : ShelfRequest(patron[q])' /\ FlagRequest(patron[q])'
  <2> SUFFICES ASSUME NEW q \in Patrons PROVE ShelfRequest(patron[q])' /\ FlagRequest(patron[q])'
    OBVIOUS
  <2>1. patron'[q] = asks \/ patron'[q] = patron[q] BY <1>1
  <2>2. ShelfRequest(patron[q]) /\ FlagRequest(patron[q]) BY DEF LibraryInv
  <2> QED BY <2>1, <2>2 DEF ShelfRequest, FlagRequest, Standing
<1> QED BY <1>1, <1>2, <1>3 DEF LibraryInv

\* What a request about shelves may do is so when it looks it up.
LEMMA LookUpsKeep ==
    ASSUME LibraryInv, NEW p \in Patrons,
           LookUpName(p) \/ LookUpRename(p) \/ LookUpPair(p)
    PROVE  LibraryInv'
<1>1. UNCHANGED <<shelves, shelved, flagRows, answeredFlags, racedFlags>>
  BY DEF LookUpName, LookUpRename, LookUpPair
<1>2. CASE LookUpName(p)
  <2>1. PICK u \in Users, n \in Names :
            patron' = [patron EXCEPT ![p] = [op |-> "name", user |-> u, name |-> n]]
    BY <1>2 DEF LookUpName, Begin
  <2> QED BY <1>1, <2>1, TurnKeeps DEF ShelfRequest, FlagRequest
<1>3. CASE LookUpRename(p)
  <2>1. PICK u \in Users, n \in Names, s \in Shelves :
            /\ s \in OwnedShelf(u)
            /\ patron' = [patron EXCEPT ![p] = [op |-> "rename", shelf |-> s, user |-> u, name |-> n]]
    BY <1>3 DEF LookUpRename, Begin, OwnedShelf, Standing
  <2>2. ShelfRequest([op |-> "rename", shelf |-> s, user |-> u, name |-> n])
    BY <2>1 DEF ShelfRequest, OwnedShelf, Standing, NoShelf
  <2> QED BY <1>1, <2>1, <2>2, TurnKeeps DEF FlagRequest
<1>4. CASE LookUpPair(p)
  <2>1. PICK u \in Users, s \in Shelves, d \in Books :
            /\ MayShelve(u, s, d)
            /\ patron' = [patron EXCEPT ![p] = [op |-> "pair", shelf |-> s, doc |-> d]]
    BY <1>4 DEF LookUpPair, Begin
  <2>2. ShelfRequest([op |-> "pair", shelf |-> s, doc |-> d])
    BY <2>1 DEF ShelfRequest, MayShelve, OwnedShelf, OwnedDocument, Standing, NoShelf
  <2> QED BY <1>1, <2>1, <2>2, TurnKeeps DEF FlagRequest
<1> QED BY <1>2, <1>3, <1>4

\* A request about flags loads the first row of its document.
LEMMA LookUpFlagsKeeps ==
    ASSUME LibraryInv, NEW p \in Patrons, LookUpFlags(p) PROVE LibraryInv'
<1>1. PICK d \in Books, sent \in (SUBSET Flags) \ {{}}, v \in BOOLEAN,
           i \in Nat :
        /\ i \in IF flagRows[d] = <<>> THEN {0} ELSE DOMAIN flagRows[d]
        /\ patron' = [patron EXCEPT ![p] =
            [op |-> "flags", doc |-> d, row |-> i, sent |-> sent, value |-> v,
             loaded |-> IF i = 0 THEN NoFlags ELSE flagRows[d][i]]]
  <2>1. \A d \in Books : DOMAIN flagRows[d] \subseteq Nat BY DEF LibraryInv, FlagsTyped
  <2> QED BY <2>1 DEF LookUpFlags, Begin
<1>2. i = 0 => flagRows[d] = <<>> BY <1>1 DEF LibraryInv, FlagsTyped
<1>3. i # 0 => i \in DOMAIN flagRows[d] BY <1>1
<1> QED BY <1>1, <1>2, <1>3, TurnKeeps DEF LookUpFlags, ShelfRequest, FlagRequest

\* A request that dies writes nothing.
LEMMA LosePatronKeeps ==
    ASSUME LibraryInv, NEW p \in Patrons, LosePatron(p) PROVE LibraryInv'
BY TurnKeeps DEF LosePatron, Rest, ShelfRequest, FlagRequest, NoRequest

-----------------------------------------------------------------------------
\* A request that ends leaves the others.
LEMMA PatronRests ==
    ASSUME LibraryInv, NEW p \in Patrons, patron' = [patron EXCEPT ![p] = NoRequest]
    PROVE  /\ patron' = [q \in Patrons |-> patron'[q]]
           /\ patron'[p] = NoRequest /\ \A q \in Patrons \ {p} : patron'[q] = patron[q]
BY DEF LibraryInv

\* What a request about shelves writes leaves the flags as they were, and a request
\* that ends needs nothing.
LEMMA ShelfWriteKeeps ==
    ASSUME LibraryInv, NEW p \in Patrons, patron' = [patron EXCEPT ![p] = NoRequest],
           UNCHANGED <<flagRows, answeredFlags, racedFlags>>,
           ShelvesHold', \A q \in Patrons \ {p} : ShelfRequest(patron[q]) => ShelfRequest(patron[q])'
    PROVE  LibraryInv'
<1>1. /\ patron' = [q \in Patrons |-> patron'[q]]
      /\ patron'[p] = NoRequest /\ \A q \in Patrons \ {p} : patron'[q] = patron[q]
  BY PatronRests
<1>2. FlagsTyped' /\ \A d \in Books : RowsHold(d)' BY DEF LibraryInv, FlagsTyped, RowsHold
<1>3. \A q \in Patrons : FlagRequest(patron[q])' BY <1>1 DEF LibraryInv, FlagRequest, NoRequest
<1>4. \A q \in Patrons : ShelfRequest(patron[q])'
  <2> SUFFICES ASSUME NEW q \in Patrons PROVE ShelfRequest(patron[q])' OBVIOUS
  <2>1. CASE q = p BY <1>1, <2>1 DEF ShelfRequest, NoRequest
  <2>2. CASE q # p BY <1>1, <2>2 DEF LibraryInv
  <2> QED BY <2>1, <2>2
<1> QED BY <1>1, <1>2, <1>3, <1>4 DEF LibraryInv

\* A shelf that is stored has one owner, and its name but for a race.
LEMMA WriteNameKeeps ==
    ASSUME LibraryInv, NEW p \in Patrons, WriteName(p) PROVE LibraryInv'
<1>1. PICK s \in Shelves :
        /\ shelves[s] = NoShelf
        /\ shelves' = IF NameFree(patron[p].user, patron[p].name, {})
                      THEN [shelves EXCEPT ![s] = ShelfRow(patron[p].user, patron[p].name)]
                      ELSE shelves
        /\ shelved' = shelved
  BY DEF WriteName
<1>2. /\ patron' = [patron EXCEPT ![p] = NoRequest]
      /\ UNCHANGED <<flagRows, answeredFlags, racedFlags>>
  BY DEF WriteName, Rest
<1> DEFINE row == ShelfRow(patron[p].user, patron[p].name)
<1>3. CASE shelves' = shelves
  BY <1>1, <1>2, <1>3, TurnKeeps DEF ShelfRequest, FlagRequest, NoRequest
<1>4. CASE shelves' # shelves
  <2>1. /\ NameFree(patron[p].user, patron[p].name, {})
        /\ shelves' = [shelves EXCEPT ![s] = row]
    BY <1>1, <1>4
  <2>2. /\ shelves' = [t \in Shelves |-> shelves'[t]]
        /\ \A t \in Shelves : shelves'[t] = IF t = s THEN row ELSE shelves[t]
    BY <2>1 DEF LibraryInv, ShelvesHold
  <2>3. shelves[s].owner = <<>> BY <1>1 DEF NoShelf
  <2>4. \A t \in Standing : shelves[t] # row BY <2>1 DEF NameFree, OwnedShelf, ShelfRow
  <2>5. \A b \in shelved : b[1] \in Shelves /\ b[1] # s
    BY <2>3 DEF LibraryInv, ShelvesHold, ShelvesApart
  <2>6. ShelvesHold'
    BY <1>1, <2>2, <2>4, <2>5 DEF LibraryInv, ShelvesHold, ShelvesApart, Standing
  <2>7. \A q \in Patrons \ {p} : ShelfRequest(patron[q]) => ShelfRequest(patron[q])'
    BY <1>1, <1>2, <2>2, PatronRests DEF ShelfRequest, Standing, NoShelf, ShelfRow
  <2> QED BY <1>2, <2>6, <2>7, ShelfWriteKeeps
<1> QED BY <1>3, <1>4

\* A rename writes the shelf its request was allowed to.
LEMMA WriteRenameKeeps ==
    ASSUME LibraryInv, NEW p \in Patrons, WriteRename(p) PROVE LibraryInv'
<1> DEFINE r == patron[p]
           row == ShelfRow(r.user, r.name)
<1>1. /\ r.op = "rename"
      /\ shelves' = IF r.shelf \in Standing /\ NameFree(r.user, r.name, {r.shelf})
                    THEN [shelves EXCEPT ![r.shelf] = row] ELSE shelves
      /\ patron' = [patron EXCEPT ![p] = NoRequest]
      /\ UNCHANGED <<shelved, flagRows, answeredFlags, racedFlags>>
  BY DEF WriteRename, Rest
<1>2. CASE shelves' = shelves BY <1>1, <1>2, TurnKeeps DEF ShelfRequest, FlagRequest, NoRequest
<1>3. CASE shelves' # shelves
  <2>1. /\ r.shelf \in Standing /\ NameFree(r.user, r.name, {r.shelf})
        /\ shelves' = [shelves EXCEPT ![r.shelf] = row]
    BY <1>1, <1>3
  <2>2. r.shelf \in Shelves /\ shelves[r.shelf].owner = <<r.user>>
    BY <1>1, <2>1 DEF LibraryInv, ShelfRequest
  <2> DEFINE s == r.shelf
  <2> HIDE DEF r, s
  <2>3. /\ shelves' = [t \in Shelves |-> shelves'[t]]
        /\ \A t \in Shelves : shelves'[t] = IF t = s THEN row ELSE shelves[t]
    BY <2>1 DEF LibraryInv, ShelvesHold, s
  <2>4. s \in Shelves /\ shelves[s].owner = <<r.user>> /\ row.owner = <<r.user>> /\ row # NoShelf
    BY <2>2 DEF s, ShelfRow, NoShelf
  <2>5. \A t \in Standing : t # s => shelves[t] # row
    BY <2>1 DEF NameFree, OwnedShelf, ShelfRow, s
  <2>6. Standing' = Standing BY <2>3, <2>4 DEF Standing
  <2>7. \A t \in Shelves : shelves'[t].owner = shelves[t].owner BY <2>3, <2>4
  <2>8. ShelvesHold'
    <3>1. \A b \in shelved' : b[1] \in Shelves /\ shelves'[b[1]].owner = <<OwnerOf[b[2]]>>
      BY <1>1, <2>7 DEF LibraryInv, ShelvesHold, ShelvesApart
    <3>2. \A t, u \in Standing' : shelves'[t] = shelves'[u] => t = u
      BY <2>3, <2>5, <2>6 DEF LibraryInv, ShelvesHold, ShelvesApart, Standing
    <3> QED BY <2>3, <3>1, <3>2 DEF ShelvesHold, ShelvesApart
  <2>9. \A q \in Patrons \ {p} : ShelfRequest(patron[q]) => ShelfRequest(patron[q])'
    BY <1>1, <2>3, <2>4, <2>6, <2>7, PatronRests DEF ShelfRequest, Standing
  <2> QED BY <1>1, <2>8, <2>9, ShelfWriteKeeps
<1> QED BY <1>2, <1>3

\* A deleted shelf takes its documents with it.
LEMMA DeleteKeeps ==
    ASSUME LibraryInv, NEW p \in Patrons, DeleteShelf(p) PROVE LibraryInv'
<1>1. PICK u \in Users, s \in Shelves :
        /\ s \in Standing
        /\ patron' = [patron EXCEPT ![p] = NoRequest]
        /\ shelves' = [shelves EXCEPT ![s] = GoneShelf]
        /\ shelved' = {b \in shelved : b[1] # s}
        /\ UNCHANGED <<flagRows, answeredFlags, racedFlags>>
  BY DEF DeleteShelf, Begin, OwnedShelf, Standing
<1>2. /\ shelves' = [t \in Shelves |-> shelves'[t]]
      /\ \A t \in Shelves : shelves'[t] = IF t = s THEN GoneShelf ELSE shelves[t]
  BY <1>1 DEF LibraryInv, ShelvesHold
<1>3. GoneShelf.owner = <<>> /\ GoneShelf # NoShelf BY DEF GoneShelf, NoShelf
<1>4. \A t \in Standing' : t \in Standing /\ t # s BY <1>2, <1>3 DEF Standing
<1>5. ShelvesHold' BY <1>1, <1>2, <1>4 DEF LibraryInv, ShelvesHold, ShelvesApart, Standing
<1>6. \A q \in Patrons \ {p} : ShelfRequest(patron[q]) => ShelfRequest(patron[q])'
  BY <1>1, <1>2, <1>3, <1>4, PatronRests DEF ShelfRequest, Standing
<1> QED BY <1>1, <1>5, <1>6, ShelfWriteKeeps

\* A document is put on a shelf of its own user.
LEMMA PairsKeep ==
    ASSUME LibraryInv, NEW p \in Patrons, WritePair(p) \/ RemovePair(p) PROVE LibraryInv'
<1>1. /\ patron' = [patron EXCEPT ![p] = NoRequest]
      /\ UNCHANGED <<shelves, flagRows, answeredFlags, racedFlags>>
  BY DEF WritePair, RemovePair, Rest, Begin
<1>2. \A b \in shelved' : b \in shelved \/ (/\ b = <<patron[p].shelf, patron[p].doc>>
                                          /\ patron[p].op = "pair" /\ patron[p].shelf \in Standing)
  BY DEF WritePair, RemovePair
<1>3. patron[p].op = "pair" /\ patron[p].shelf \in Standing =>
          /\ patron[p].shelf \in Shelves
          /\ shelves[patron[p].shelf].owner = <<OwnerOf[patron[p].doc]>>
  BY DEF LibraryInv, ShelfRequest
<1>4. \A b \in shelved' : b[1] \in Shelves /\ shelves[b[1]].owner = <<OwnerOf[b[2]]>>
  BY <1>2, <1>3 DEF LibraryInv, ShelvesHold, ShelvesApart
<1>5. ShelvesHold' BY <1>1, <1>4 DEF LibraryInv, ShelvesHold, ShelvesApart, Standing
<1>6. \A q \in Patrons \ {p} : ShelfRequest(patron[q]) => ShelfRequest(patron[q])'
  BY <1>1, PatronRests DEF ShelfRequest, Standing
<1> QED BY <1>1, <1>5, <1>6, ShelfWriteKeeps

-----------------------------------------------------------------------------
\* Writing a row of a sequence leaves the others.
LEMMA RowReplaced ==
    ASSUME NEW rows \in Seq([Flags -> BOOLEAN]), NEW i \in DOMAIN rows, NEW row \in [Flags -> BOOLEAN]
    PROVE  /\ [rows EXCEPT ![i] = row] \in Seq([Flags -> BOOLEAN])
           /\ Len([rows EXCEPT ![i] = row]) = Len(rows)
BY ExceptSeq

\* A write of flags changes those it was sent, and overwrites what was raced.
LEMMA WriteFlagsKeeps ==
    ASSUME LibraryInv, NEW p \in Patrons, WriteFlags(p) PROVE LibraryInv'
<1> DEFINE r == patron[p]
           d == r.doc
           rivals == Overlapping(p, d)
<1>1. /\ r.op = "flags"
      /\ flagRows' = [flagRows EXCEPT ![d] =
             IF r.row = 0 THEN Append(@, WrittenRow(NoFlags, r))
             ELSE [flagRows[d] EXCEPT ![r.row] = WrittenRow(@, r)]]
      /\ answeredFlags' = [answeredFlags EXCEPT ![d] =
             [f \in Flags |-> IF f \in r.sent THEN r.value ELSE @[f]]]
      /\ racedFlags' = [racedFlags EXCEPT ![d] = @ \cup
             IF r.row = 0 /\ rivals # {} THEN Flags
             ELSE r.sent \cap UNION {patron[o].sent : o \in rivals}]
      /\ patron' = [patron EXCEPT ![p] = NoRequest]
      /\ UNCHANGED <<shelves, shelved>>
  BY DEF WriteFlags, Rest
<1>2. FlagRequest(r) /\ d \in Books /\ r.sent \subseteq Flags /\ r.value \in BOOLEAN
  BY <1>1 DEF LibraryInv, FlagRequest
<1>3. /\ patron' = [q \in Patrons |-> patron'[q]]
      /\ \A q \in Patrons : patron'[q] = IF q = p THEN NoRequest ELSE patron[q]
  BY <1>1 DEF LibraryInv
<1>4. ShelvesHold' /\ \A q \in Patrons : ShelfRequest(patron[q])'
  BY <1>1, <1>3 DEF LibraryInv, ShelvesHold, ShelvesApart, Standing, ShelfRequest, NoRequest
<1> DEFINE old == flagRows[d]
           rows == flagRows'[d]
           was == racedFlags[d]
           races == racedFlags'[d]
           said == answeredFlags'[d]
<1>5. \A b \in Books \ {d} : /\ flagRows'[b] = flagRows[b] /\ racedFlags'[b] = racedFlags[b]
                             /\ answeredFlags'[b] = answeredFlags[b]
  BY <1>1, <1>2 DEF LibraryInv, FlagsTyped
<1>6. /\ old \in Seq([Flags -> BOOLEAN]) /\ was \subseteq Flags
      /\ answeredFlags[d] \in [Flags -> BOOLEAN]
      /\ RowsHold(d)
  BY <1>2 DEF LibraryInv, FlagsTyped
<1>7. said = [f \in Flags |-> IF f \in r.sent THEN r.value ELSE answeredFlags[d][f]]
  BY <1>1, <1>2 DEF LibraryInv, FlagsTyped
<1>8. /\ was \subseteq races /\ races \subseteq Flags
      /\ r.row = 0 /\ rivals # {} => races = Flags
      /\ \A o \in rivals : r.sent \cap patron[o].sent \subseteq races
  BY <1>1, <1>2 DEF LibraryInv, FlagsTyped
<1>9. r.row = 0 => rows = Append(old, WrittenRow(NoFlags, r))
  BY <1>1, <1>2 DEF LibraryInv, FlagsTyped
<1>10. r.row # 0 => /\ r.row \in DOMAIN old
                    /\ rows = [old EXCEPT ![r.row] = WrittenRow(old[r.row], r)]
  BY <1>1, <1>2 DEF FlagRequest, LibraryInv, FlagsTyped
<1>11. FlagsTyped'
  <2>1. \A row \in [Flags -> BOOLEAN] : WrittenRow(row, r) \in [Flags -> BOOLEAN]
    BY <1>2 DEF WrittenRow, ChangedColumns
  <2>2. NoFlags \in [Flags -> BOOLEAN] BY DEF NoFlags
  <2>3. rows \in Seq([Flags -> BOOLEAN])
    <3>1. CASE r.row = 0
      <4>1. rows = Append(old, WrittenRow(NoFlags, r)) /\ WrittenRow(NoFlags, r) \in [Flags -> BOOLEAN]
        BY <1>9, <2>1, <2>2, <3>1
      <4> HIDE DEF old, rows, r
      <4> QED BY <1>6, <4>1
    <3>2. CASE r.row # 0
      <4>1. /\ r.row \in DOMAIN old /\ rows = [old EXCEPT ![r.row] = WrittenRow(old[r.row], r)]
        BY <1>10, <3>2
      <4>2. WrittenRow(old[r.row], r) \in [Flags -> BOOLEAN] BY <1>6, <2>1, <4>1
      <4> HIDE DEF old, rows, r
      <4> QED BY <1>6, <4>1, <4>2, RowReplaced
    <3> QED BY <3>1, <3>2
  <2>4. said \in [Flags -> BOOLEAN] BY <1>2, <1>6, <1>7
  <2>5. /\ flagRows' = [b \in Books |-> flagRows'[b]]
        /\ answeredFlags' = [b \in Books |-> answeredFlags'[b]]
        /\ racedFlags' = [b \in Books |-> racedFlags'[b]]
    BY <1>1 DEF LibraryInv, FlagsTyped
  <2>6. /\ \A b \in Books : flagRows'[b] \in Seq([Flags -> BOOLEAN])
        /\ \A b \in Books : answeredFlags'[b] \in [Flags -> BOOLEAN]
        /\ \A b \in Books : racedFlags'[b] \in SUBSET Flags
    <3> SUFFICES ASSUME NEW b \in Books
                 PROVE  /\ flagRows'[b] \in Seq([Flags -> BOOLEAN])
                        /\ answeredFlags'[b] \in [Flags -> BOOLEAN]
                        /\ racedFlags'[b] \in SUBSET Flags
      OBVIOUS
    <3>1. CASE b = d BY <1>8, <2>3, <2>4, <3>1
    <3>2. CASE b # d BY <1>5, <3>2 DEF LibraryInv, FlagsTyped
    <3> QED BY <3>1, <3>2
  <2> QED BY <2>5, <2>6 DEF FlagsTyped
\* A flag that is not raced for was set by this request alone, or not at all.
<1>12. \A i \in DOMAIN rows : \A f \in Flags \ races : rows[i][f] = said[f]
  <2> SUFFICES ASSUME NEW i \in DOMAIN rows, NEW f \in Flags \ races PROVE rows[i][f] = said[f]
    OBVIOUS
  <2>0. f \notin was /\ f \in Flags BY <1>8
  <2>1. Len(old) <= 1 BY <1>6, <2>0 DEF RowsHold
  <2>2. \A j \in DOMAIN old : old[j][f] = answeredFlags[d][f] BY <1>6, <2>0 DEF RowsHold
  <2>3. said[f] = IF f \in r.sent THEN r.value ELSE answeredFlags[d][f] BY <1>7
  <2>4. CASE r.row = 0
    <3>1. old = <<>> /\ r.loaded = NoFlags BY <1>2, <2>0, <1>1, <2>4 DEF FlagRequest
    <3>2. answeredFlags[d] = NoFlags BY <1>6, <3>1 DEF RowsHold
    <3>3. i = 1 /\ rows[i] = WrittenRow(NoFlags, r) BY <1>9, <2>4, <3>1
    <3> HIDE DEF rows, old, said, r
    <3> QED BY <1>2, <2>3, <3>1, <3>2, <3>3 DEF WrittenRow, ChangedColumns, NoFlags
  <2>5. CASE r.row # 0
    <3>1. /\ r.row \in DOMAIN old /\ rows = [old EXCEPT ![r.row] = WrittenRow(old[r.row], r)]
      BY <1>10, <2>5
    <3>2. f \in r.sent => old[r.row][f] = r.loaded[f] BY <1>1, <1>2, <2>0, <2>5 DEF FlagRequest
    <3>3. i = r.row /\ rows[i] = WrittenRow(old[i], r)
      <4>1. DOMAIN rows = DOMAIN old /\ DOMAIN old = 1..Len(old) BY <1>6, <3>1
      <4>2. Len(old) \in Nat BY <1>6
      <4>3. i = 1 /\ r.row = 1 BY <2>1, <3>1, <4>1, <4>2
      <4> HIDE DEF rows, old, r
      <4> QED BY <3>1, <4>1, <4>3
    <3> HIDE DEF rows, old, said, r
    <3> QED BY <1>2, <2>2, <2>3, <3>1, <3>2, <3>3 DEF WrittenRow, ChangedColumns
  <2> QED BY <2>4, <2>5
<1>13. rows # <<>> /\ (Len(rows) > 1 => races = Flags)
  <2>1. CASE r.row = 0
    <3>1. rows = Append(old, WrittenRow(NoFlags, r)) /\ (old = <<>> \/ was = Flags)
      BY <1>1, <1>2, <1>9, <2>1 DEF FlagRequest
    <3>2. was = Flags => races = Flags BY <1>8
    <3> HIDE DEF rows, old, r, races, was
    <3>3. Len(rows) = Len(old) + 1 /\ rows # <<>> BY <1>6, <3>1
    <3>4. old = <<>> => Len(rows) = 1 BY <3>3
    <3> QED BY <3>1, <3>2, <3>3, <3>4
  <2>2. CASE r.row # 0
    <3>1. /\ r.row \in DOMAIN old /\ rows = [old EXCEPT ![r.row] = WrittenRow(old[r.row], r)]
      BY <1>10, <2>2
    <3>2. Len(old) > 1 => was = Flags BY <1>6 DEF RowsHold
    <3>3. WrittenRow(old[r.row], r) \in [Flags -> BOOLEAN]
      BY <1>2, <1>6, <3>1 DEF WrittenRow, ChangedColumns
    <3> HIDE DEF rows, old, r, races, was
    <3>4. Len(rows) = Len(old) BY <1>6, <3>1, <3>3, RowReplaced
    <3>5. rows # <<>> BY <1>6, <3>1
    <3>6. was = Flags => races = Flags BY <1>8
    <3> QED BY <3>2, <3>4, <3>5, <3>6
  <2> QED BY <2>1, <2>2
<1>14. \A b \in Books : RowsHold(b)'
  <2> SUFFICES ASSUME NEW b \in Books PROVE RowsHold(b)' OBVIOUS
  <2>1. CASE b = d BY <1>12, <1>13, <2>1 DEF RowsHold
  <2>2. CASE b # d BY <1>5, <2>2 DEF LibraryInv, RowsHold
  <2> QED BY <2>1, <2>2
<1>15. \A q \in Patrons : FlagRequest(patron[q])'
  <2> SUFFICES ASSUME NEW q \in Patrons, q # p, patron[q].op = "flags"
               PROVE  FlagRequest(patron[q])'
    BY <1>3 DEF FlagRequest, NoRequest
  <2> DEFINE o == patron[q]
  <2>1. patron'[q] = o /\ FlagRequest(o) BY <1>3 DEF LibraryInv
  <2>2. CASE o.doc # d BY <1>5, <2>1, <2>2 DEF FlagRequest
  <2>3. CASE o.doc = d
    <3>1. q \in rivals BY <2>3 DEF Overlapping
    <3>2. r.sent \cap o.sent \subseteq races /\ (r.row = 0 => races = Flags) BY <1>8, <3>1
    <3>3. o.row = 0 => races = Flags
      <4>1. CASE r.row # 0 /\ o.row = 0
        <5>1. old # <<>> BY <1>10, <4>1
        <5> QED BY <1>8, <2>1, <2>3, <4>1, <5>1 DEF FlagRequest
      <4> QED BY <3>2, <4>1
    <3>4. o.row # 0 => /\ o.row \in DOMAIN rows
                       /\ \A f \in o.sent \ races : rows[o.row][f] = o.loaded[f]
      <4> SUFFICES ASSUME o.row # 0
                   PROVE  /\ o.row \in DOMAIN rows
                          /\ \A f \in o.sent \ races : rows[o.row][f] = o.loaded[f]
        OBVIOUS
      <4>1. /\ o.row \in DOMAIN old /\ o.sent \subseteq Flags
            /\ \A f \in o.sent \ was : old[o.row][f] = o.loaded[f]
        BY <2>1, <2>3 DEF FlagRequest
      <4>2. CASE r.row = 0
        <5>1. races = Flags /\ rows = Append(old, WrittenRow(NoFlags, r)) BY <1>9, <3>2, <4>2
        <5> HIDE DEF rows, old, r, o
        <5> QED BY <1>6, <4>1, <5>1
      <4>3. CASE r.row # 0
        <5>1. /\ r.row \in DOMAIN old /\ rows = [old EXCEPT ![r.row] = WrittenRow(old[r.row], r)]
          BY <1>10, <4>3
        <5>2. \A f \in o.sent \ races : f \notin r.sent /\ f \notin was /\ f \in Flags
          BY <1>8, <3>2, <4>1
        <5> HIDE DEF rows, old, r, o
        <5> QED BY <1>6, <4>1, <5>1, <5>2 DEF WrittenRow, ChangedColumns
      <4> QED BY <4>2, <4>3
    <3> HIDE DEF rows, races
    <3> QED BY <2>1, <2>3, <3>3, <3>4 DEF FlagRequest, rows, races
  <2> QED BY <2>2, <2>3
<1> QED BY <1>3, <1>4, <1>11, <1>14, <1>15 DEF LibraryInv

-----------------------------------------------------------------------------
\* The invariant is inductive: one step per action.
LEMMA LibraryInvKept == LibraryInv /\ [LibraryNext]_libraryVars => LibraryInv'
<1> SUFFICES ASSUME LibraryInv, [LibraryNext]_libraryVars PROVE LibraryInv' OBVIOUS
<1>1. CASE UNCHANGED libraryVars
  <2>1. FlagsTyped' /\ \A d \in Books : RowsHold(d)'
    BY <1>1 DEF libraryVars, LibraryInv, FlagsTyped, RowsHold
  <2>2. ShelvesHold' BY <1>1 DEF libraryVars, LibraryInv, ShelvesHold, ShelvesApart, Standing
  <2>3. \A p \in Patrons : ShelfRequest(patron[p])' /\ FlagRequest(patron[p])'
    BY <1>1 DEF libraryVars, LibraryInv, ShelfRequest, FlagRequest, Standing
  <2> QED BY <1>1, <2>1, <2>2, <2>3 DEF libraryVars, LibraryInv
<1> QED BY <1>1, LookUpsKeep, LookUpFlagsKeeps, LosePatronKeeps, WriteNameKeeps, WriteRenameKeeps,
            DeleteKeeps, PairsKeep, WriteFlagsKeeps DEF LibraryNext

\* For any number of requests, users, documents and shelves.
THEOREM LibraryStands == LibrarySpec => []LibraryTells
<1>1. LibraryInv => LibraryTells
  <2> SUFFICES ASSUME LibraryInv, NEW d \in Books, NEW f \in Flags \ racedFlags[d]
               PROVE  InDetail(d, f) = {answeredFlags[d][f]} /\ InList(d, f) = answeredFlags[d][f]
    BY DEF LibraryInv, LibraryTells, FlagsStand, ShelvesHold
  <2>1. /\ flagRows[d] \in Seq([Flags -> BOOLEAN]) /\ answeredFlags[d] \in [Flags -> BOOLEAN]
        /\ RowsHold(d)
    BY DEF LibraryInv, FlagsTyped
  <2>2. CASE flagRows[d] = <<>> BY <2>1, <2>2 DEF RowsHold, InDetail, InList, NoFlags
  <2>3. CASE flagRows[d] # <<>>
    <3>1. 1 \in DOMAIN flagRows[d] BY <2>1, <2>3
    <3>2. \A i \in DOMAIN flagRows[d] : flagRows[d][i][f] = answeredFlags[d][f]
      BY <2>1 DEF RowsHold
    <3>3. InDetail(d, f) = {answeredFlags[d][f]} BY <2>3, <3>1, <3>2 DEF InDetail
    <3>4. InList(d, f) <=> answeredFlags[d][f] BY <3>1, <3>2 DEF InList
    <3>5. InList(d, f) \in BOOLEAN /\ answeredFlags[d][f] \in BOOLEAN BY <2>1 DEF InList
    <3> QED BY <3>3, <3>4, <3>5
  <2> QED BY <2>2, <2>3
<1> QED BY LibraryInvInit, LibraryInvKept, <1>1, PTL DEF LibrarySpec

-----------------------------------------------------------------------------
(* Captured texts.                                                          *)

RunningRequests == [at : {"note", "look", "new", "queue", "stored"}, kind : Kinds,
             url : Urls \cup {NoUrl}, todo : SUBSET Texts, doc : (Kinds \X Texts) \cup {NoText}]

CapturesTyped ==
    /\ rowsOf \in [Urls -> Nat] /\ fetched \in [Urls -> Nat]
    /\ captor \in [Captors -> {AtRest} \cup RunningRequests]
    /\ \A r \in Captors : captor[r].at \in {"look", "new", "queue"} => captor[r].url \in Urls
    /\ \A u \in Urls : fetched[u] <= rowsOf[u]
    /\ documents \subseteq Kinds \X Texts

\* Who found no row of a URL still finds none, unless it is crossed.
FoundNone ==
    \A r \in Captors : captor[r].at = "new" /\ captor[r].url \notin crossedUrls =>
        rowsOf[captor[r].url] = 0

CapturesInv == CapturesTyped /\ FoundNone /\ CapturesTell

\* The invariant holds before the first capture.
LEMMA CapturesInvInit == CapturesInit => CapturesInv
BY DEF CapturesInit, CapturesInv, CapturesTyped, FoundNone, CapturesTell, StoredIsIndexed, OneRowPerUrl,
       RowsAreFetched, AtRest

\* What a step of one request leaves of the others.
LEMMA OneMoves ==
    ASSUME CapturesInv, NEW r \in Captors, NEW asks, captor' = [captor EXCEPT ![r] = asks]
    PROVE  captor'[r] = asks /\ \A x \in Captors \ {r} : captor'[x] = captor[x]
BY DEF CapturesInv, CapturesTyped

\* A request that moves on keeps what it is about.
LEMMA OneGoes ==
    ASSUME CapturesInv, NEW r \in Captors, NEW step, Goes(r, step), captor[r] # AtRest
    PROVE  /\ captor' = [captor EXCEPT ![r] = [captor[r] EXCEPT !.at = step]]
           /\ captor'[r].at = step /\ captor'[r].url = captor[r].url
           /\ captor'[r].doc = captor[r].doc
           /\ step \in {"note", "look", "new", "queue", "stored"} => captor'[r] \in RunningRequests
           /\ \A x \in Captors \ {r} : captor'[x] = captor[x]
BY DEF CapturesInv, CapturesTyped, Goes, RunningRequests

\* A request begins with the text it was sent.
LEMMA BeginKeeps ==
    ASSUME CapturesInv, NEW r \in Captors, NEW kind \in Kinds, NEW u \in Urls \cup {NoUrl},
           NEW todo \in SUBSET Texts, BeginCapture(r, kind, u, todo)
    PROVE  CapturesInv'
<1> DEFINE asks == [at |-> IF u = NoUrl THEN "note" ELSE "look", kind |-> kind, url |-> u,
                       todo |-> todo, doc |-> NoText]
<1>1. /\ captor[r] = AtRest /\ captor' = [captor EXCEPT ![r] = asks]
      /\ UNCHANGED <<rowsOf, fetched, documents, indexing, crossedUrls, stranded>>
  BY DEF BeginCapture
<1>2. captor'[r] = asks /\ \A x \in Captors \ {r} : captor'[x] = captor[x] BY <1>1, OneMoves
<1>3. asks \in RunningRequests /\ asks.at \in {"note", "look"}
      /\ (asks.at = "look" => asks.url \in Urls)
  BY DEF RunningRequests
<1> HIDE DEF asks
<1>4. CapturesTyped' BY <1>1, <1>2, <1>3 DEF CapturesInv, CapturesTyped
<1>5. FoundNone' BY <1>1, <1>2, <1>3 DEF CapturesInv, FoundNone
<1>6. CapturesTell'
  BY <1>1, <1>2, <1>3 DEF CapturesInv, CapturesTell, StoredIsIndexed, OneRowPerUrl, RowsAreFetched, AtRest
<1> QED BY <1>4, <1>5, <1>6 DEF CapturesInv

\* A request looks for the row of its URL.
LEMMA LookKeeps ==
    ASSUME CapturesInv, NEW r \in Captors, LookForSource(r) PROVE CapturesInv'
<1>1. /\ captor[r].at = "look" /\ captor[r].url \in Urls
      /\ UNCHANGED <<rowsOf, fetched, documents, indexing, crossedUrls, stranded>>
  BY DEF LookForSource, CapturesInv, CapturesTyped
<1>2. captor[r] # AtRest BY <1>1 DEF AtRest
<1>3. \/ rowsOf[captor[r].url] = 0 /\ Goes(r, "new")
      \/ rowsOf[captor[r].url] # 0 /\ Goes(r, "queue")
      \/ Rests(r)
  BY DEF LookForSource
<1>4. CASE Rests(r)
  BY <1>1, <1>4, OneMoves DEF Rests, CapturesInv, CapturesTyped, AtRest, FoundNone, CapturesTell,
     StoredIsIndexed, OneRowPerUrl, RowsAreFetched
<1>5. ASSUME NEW step \in {"new", "queue"}, Goes(r, step), step = "new" => rowsOf[captor[r].url] = 0
      PROVE  CapturesInv'
  BY <1>1, <1>2, <1>5, OneGoes DEF CapturesInv, CapturesTyped, FoundNone, CapturesTell,
     StoredIsIndexed, OneRowPerUrl, RowsAreFetched
<1> QED BY <1>3, <1>4, <1>5

\* A source that is new has one row, but for a race.
LEMMA InsertKeeps ==
    ASSUME CapturesInv, NEW r \in Captors, InsertSource(r) PROVE CapturesInv'
<1> DEFINE u == captor[r].url
<1>1. /\ captor[r].at = "new" /\ u \in Urls
      /\ rowsOf' = [rowsOf EXCEPT ![u] = @ + 1]
      /\ crossedUrls' = IF Rivals(r, u) # {} THEN crossedUrls \cup {u} ELSE crossedUrls
      /\ UNCHANGED <<fetched, documents, indexing, stranded>>
  BY DEF InsertSource, CapturesInv, CapturesTyped
<1>2. captor[r] # AtRest BY <1>1 DEF AtRest
<1>3. /\ captor' = [captor EXCEPT ![r] = [captor[r] EXCEPT !.at = "queue"]]
      /\ captor'[r].at = "queue" /\ captor'[r].url = u
      /\ captor'[r] \in RunningRequests
      /\ \A x \in Captors \ {r} : captor'[x] = captor[x]
  BY <1>2, OneGoes DEF InsertSource
<1> HIDE DEF u
<1>4. /\ rowsOf' \in [Urls -> Nat] /\ rowsOf'[u] = rowsOf[u] + 1 /\ rowsOf[u] \in Nat
      /\ \A v \in Urls \ {u} : rowsOf'[v] = rowsOf[v]
  BY <1>1 DEF CapturesInv, CapturesTyped
<1>5. CapturesTyped' BY <1>1, <1>3, <1>4 DEF CapturesInv, CapturesTyped
<1>6. u \notin crossedUrls' => rowsOf[u] = 0 /\ \A x \in Captors \ {r} : captor[x].at = "new" => captor[x].url # u
  BY <1>1 DEF CapturesInv, FoundNone, Rivals, u
<1>7. FoundNone' BY <1>1, <1>3, <1>4, <1>6 DEF CapturesInv, CapturesTyped, FoundNone
<1>8. CapturesTell'
  BY <1>1, <1>3, <1>4, <1>6 DEF CapturesInv, CapturesTell, StoredIsIndexed, OneRowPerUrl,
     RowsAreFetched
<1> QED BY <1>5, <1>7, <1>8 DEF CapturesInv

\* Ingestions are queued for rows there are.
LEMMA QueueIngestKeeps ==
    ASSUME CapturesInv, NEW r \in Captors, QueueIngest(r) PROVE CapturesInv'
<1> DEFINE u == captor[r].url
<1>1. /\ captor[r].at = "queue" /\ u \in Urls
      /\ UNCHANGED <<rowsOf, documents, indexing, crossedUrls>>
  BY DEF QueueIngest, CapturesInv, CapturesTyped
<1>2. captor[r] # AtRest BY <1>1 DEF AtRest
<1>3. /\ captor' \in [Captors -> {AtRest} \cup RunningRequests]
      /\ captor'[r].at \in {"rest", "note"}
      /\ \A x \in Captors \ {r} : captor'[x] = captor[x]
  <2>1. CASE Rests(r) BY <2>1, OneMoves DEF CapturesInv, CapturesTyped, Rests, AtRest
  <2>2. CASE Goes(r, "note") BY <1>2, <2>2, OneGoes DEF CapturesInv, CapturesTyped
  <2> QED BY <2>1, <2>2 DEF QueueIngest
<1>4. /\ \/ /\ stranded' = IF fetched[u] < rowsOf[u] THEN stranded \cup {u} ELSE stranded
            /\ fetched' = fetched
         \/ /\ fetched' = [fetched EXCEPT ![u] = IF @ < rowsOf[u] THEN @ + 1 ELSE @]
            /\ stranded' = IF fetched'[u] = rowsOf[u] THEN stranded \ {u} ELSE stranded
  BY DEF QueueIngest
<1> HIDE DEF u
<1>5. /\ fetched' \in [Urls -> Nat] /\ fetched'[u] <= rowsOf[u]
      /\ \A v \in Urls \ {u} : fetched'[v] = fetched[v]
  BY <1>1, <1>4 DEF CapturesInv, CapturesTyped
<1>6. CapturesTyped' BY <1>1, <1>3, <1>5 DEF CapturesInv, CapturesTyped
<1>7. FoundNone' BY <1>1, <1>3 DEF CapturesInv, FoundNone
<1>8. u \notin crossedUrls \cup stranded' => fetched'[u] = rowsOf[u]
  BY <1>1, <1>4 DEF CapturesInv, CapturesTyped, CapturesTell, OneRowPerUrl
<1>9. \A v : v # u => (v \in stranded <=> v \in stranded') BY <1>4
<1>10. CapturesTell'
  <2>1. StoredIsIndexed'
    BY <1>1, <1>3, <1>9, CapturesAssumption DEF CapturesInv, CapturesTyped, CapturesTell,
       StoredIsIndexed
  <2>2. OneRowPerUrl' BY <1>1 DEF CapturesInv, CapturesTell, OneRowPerUrl
  <2>3. RowsAreFetched'
    <3> SUFFICES ASSUME NEW v \in Urls, v \notin crossedUrls', v \notin stranded', rowsOf'[v] > fetched'[v]
                 PROVE  \E x \in Captors : captor'[x].at = "queue" /\ captor'[x].url = v
      BY DEF RowsAreFetched
    <3>1. v # u BY <1>1, <1>5, <1>8 DEF CapturesInv, CapturesTyped
    <3>2. PICK x \in Captors : captor[x].at = "queue" /\ captor[x].url = v
      BY <1>1, <1>5, <1>9, <3>1 DEF CapturesInv, CapturesTell, RowsAreFetched
    <3>3. x # r BY <3>1, <3>2 DEF u
    <3> QED BY <1>3, <3>2, <3>3
  <2> QED BY <2>1, <2>2, <2>3 DEF CapturesTell
<1> QED BY <1>6, <1>7, <1>10 DEF CapturesInv

\* A note's text is stored before its index job is queued.
LEMMA StoreKeeps ==
    ASSUME CapturesInv, NEW r \in Captors, StoreNote(r) PROVE CapturesInv'
<1>1. /\ captor[r].at = "note"
      /\ UNCHANGED <<rowsOf, fetched, indexing, crossedUrls, stranded>>
  BY DEF StoreNote
<1>2. PICK t \in captor[r].todo :
        LET doc == <<captor[r].kind, t>>
            left == captor[r].todo \ {t}
        IN  IF doc \in documents
            THEN /\ captor' = [captor EXCEPT ![r] = IF left = {} THEN AtRest ELSE [captor[r] EXCEPT !.todo = left]]
                 /\ documents' = documents
            ELSE /\ captor' = [captor EXCEPT ![r] = [captor[r] EXCEPT !.at = "stored", !.todo = left, !.doc = doc]]
                 /\ documents' = documents \cup {doc}
  BY DEF StoreNote
<1> DEFINE doc == <<captor[r].kind, t>>
           left == captor[r].todo \ {t}
<1>3. captor[r] \in RunningRequests /\ doc \in Kinds \X Texts /\ left \in SUBSET Texts
  BY <1>1 DEF CapturesInv, CapturesTyped, RunningRequests, AtRest
<1>4. /\ captor' \in [Captors -> {AtRest} \cup RunningRequests]
      /\ captor'[r].at \in {"rest", "note", "stored"}
      /\ \A x \in Captors \ {r} : captor'[x] = captor[x]
      /\ documents' \subseteq Kinds \X Texts
      /\ \A d \in documents' \ documents : captor'[r].at = "stored" /\ captor'[r].doc = d
  <2>1. CASE doc \in documents
    BY <1>1, <1>2, <1>3, <2>1 DEF CapturesInv, CapturesTyped, RunningRequests, AtRest
  <2>2. CASE doc \notin documents
    <3> DEFINE next == [captor[r] EXCEPT !.at = "stored", !.todo = left, !.doc = doc]
    <3>1. captor' = [captor EXCEPT ![r] = next] /\ documents' = documents \cup {doc}
      BY <1>2, <2>2
    <3>2. next \in RunningRequests /\ next.at = "stored" /\ next.doc = doc
      BY <1>3 DEF RunningRequests
    <3> HIDE DEF next, doc
    <3> QED BY <1>3, <3>1, <3>2 DEF CapturesInv, CapturesTyped
  <2> QED BY <2>1, <2>2
<1>5. CapturesTyped' BY <1>1, <1>4 DEF CapturesInv, CapturesTyped
<1>6. FoundNone' BY <1>1, <1>4 DEF CapturesInv, FoundNone
<1>7. CapturesTell'
  BY <1>1, <1>4 DEF CapturesInv, CapturesTell, StoredIsIndexed, OneRowPerUrl, RowsAreFetched
<1> QED BY <1>5, <1>6, <1>7 DEF CapturesInv

\* A text whose index job is queued is stored.
LEMMA QueueIndexKeeps ==
    ASSUME CapturesInv, NEW r \in Captors, QueueIndex(r) PROVE CapturesInv'
<1>1. /\ captor[r].at = "stored" /\ indexing' = indexing \cup {captor[r].doc}
      /\ UNCHANGED <<rowsOf, fetched, documents, crossedUrls, stranded>>
  BY DEF QueueIndex
<1>2. captor[r] # AtRest BY <1>1 DEF AtRest
<1>3. /\ captor' \in [Captors -> {AtRest} \cup RunningRequests]
      /\ captor'[r].at \in {"rest", "note"}
      /\ \A x \in Captors \ {r} : captor'[x] = captor[x]
  <2>1. CASE Rests(r) BY <2>1, OneMoves DEF CapturesInv, CapturesTyped, Rests, AtRest
  <2>2. CASE Goes(r, "note") BY <1>2, <2>2, OneGoes DEF CapturesInv, CapturesTyped
  <2> QED BY <2>1, <2>2 DEF QueueIndex
<1>4. CapturesTyped' BY <1>1, <1>3 DEF CapturesInv, CapturesTyped
<1>5. FoundNone' BY <1>1, <1>3 DEF CapturesInv, FoundNone
<1>6. CapturesTell'
  BY <1>1, <1>3 DEF CapturesInv, CapturesTell, StoredIsIndexed, OneRowPerUrl, RowsAreFetched
<1> QED BY <1>4, <1>5, <1>6 DEF CapturesInv

\* A request that dies between two commits is remembered.
LEMMA LoseCaptureKeeps ==
    ASSUME CapturesInv, NEW r \in Captors, LoseCapture(r) PROVE CapturesInv'
<1>1. /\ stranded' = stranded \cup (IF captor[r].at = "stored" THEN {captor[r].doc} ELSE {})
                              \cup (IF captor[r].at = "queue" THEN {captor[r].url} ELSE {})
      /\ UNCHANGED <<rowsOf, fetched, documents, indexing, crossedUrls>>
  BY DEF LoseCapture
<1>2. captor'[r] = AtRest /\ \A x \in Captors \ {r} : captor'[x] = captor[x]
  BY OneMoves DEF LoseCapture, Rests
<1>3. CapturesTyped' BY <1>1, <1>2 DEF CapturesInv, CapturesTyped, LoseCapture, Rests, AtRest
<1>4. FoundNone' BY <1>1, <1>2 DEF CapturesInv, FoundNone, AtRest
<1>5. CapturesTell'
  BY <1>1, <1>2 DEF CapturesInv, CapturesTell, StoredIsIndexed, OneRowPerUrl, RowsAreFetched
<1> QED BY <1>3, <1>4, <1>5 DEF CapturesInv

\* The invariant is inductive: one step per action.
LEMMA CapturesInvKept == CapturesInv /\ [CapturesNext]_capturesVars => CapturesInv'
<1> SUFFICES ASSUME CapturesInv, [CapturesNext]_capturesVars PROVE CapturesInv' OBVIOUS
<1>1. CASE UNCHANGED capturesVars
  BY <1>1 DEF capturesVars, CapturesInv, CapturesTyped, FoundNone, CapturesTell, StoredIsIndexed,
              OneRowPerUrl, RowsAreFetched
<1>2. CASE CapturesNext
  <2> PICK r \in Captors :
        \/ \E u \in Urls \cup {NoUrl}, todo \in {{}} \cup {{t} : t \in Texts} : BeginCapture(r, "note", u, todo)
        \/ \E todo \in SUBSET Texts : BeginCapture(r, "highlight", NoUrl, todo)
        \/ \E u \in Urls : BeginCapture(r, "listed", u, {})
        \/ LookForSource(r) \/ InsertSource(r) \/ QueueIngest(r)
        \/ StoreNote(r) \/ QueueIndex(r) \/ LoseCapture(r)
    BY <1>2 DEF CapturesNext
  <2>1. \A todo \in {{}} \cup {{t} : t \in Texts} : todo \in SUBSET Texts OBVIOUS
  <2>2. CASE \E u \in Urls \cup {NoUrl}, todo \in {{}} \cup {{t} : t \in Texts} : BeginCapture(r, "note", u, todo)
    BY <2>1, <2>2, BeginKeeps DEF Kinds
  <2>3. CASE \E todo \in SUBSET Texts : BeginCapture(r, "highlight", NoUrl, todo)
    BY <2>3, BeginKeeps DEF Kinds
  <2>4. CASE \E u \in Urls : BeginCapture(r, "listed", u, {}) BY <2>4, BeginKeeps DEF Kinds
  <2> QED BY <2>2, <2>3, <2>4, LookKeeps, InsertKeeps, QueueIngestKeeps, StoreKeeps, QueueIndexKeeps,
              LoseCaptureKeeps
<1> QED BY <1>1, <1>2

\* For any number of requests, URLs and texts: a stored text has its index job unless its
\* request died, and a URL one source row unless requests crossed.
THEOREM CapturesHold == CapturesSpec => []CapturesTell
<1>1. CapturesInv => CapturesTell BY DEF CapturesInv
<1> QED BY CapturesInvInit, CapturesInvKept, <1>1, PTL DEF CapturesSpec

-----------------------------------------------------------------------------
(* Fetches.                                                                 *)

Endings == {"http_5xx", "transport", "nowhere"}
ReadVerdict == [known : BOOLEAN, forbids : RobotsFiles \cup {NoFile, {}}, at : Nat]
FetcherRec ==
    [doing : {"idle", "consulting", "reading", "allowed", "requesting", "resting"},
     entry : {0} \cup DOMAIN Taken, url : Addresses, at : Addresses,
     attempt : 0..FetchAttempts, hops : 0..MaxRedirects, until : Nat, since : Nat,
     used : ReadVerdict, last : Endings \cup {"none"}]

FetchTyped ==
    /\ second \in Nat
    /\ slots \in [Hosts -> Seq(Nat)]
    /\ verdicts \in [Hosts -> ReadVerdict]
    /\ robots \in [Hosts -> RobotsFiles]
    /\ fetcher \in [Threads -> FetcherRec]
    /\ gathering = [i \in DOMAIN Taken |-> gathering[i]]

\* What a thread holds at each point of a fetch, and has checked by then.
FetcherStands(f) ==
    /\ f.doing \in {"idle", "consulting", "reading", "allowed"} => f.attempt = 0
    /\ f.doing \in {"reading", "allowed", "requesting", "resting"} => f.url \notin Internal
    /\ f.doing \in {"allowed", "requesting", "resting"} =>
            /\ f.used.known /\ f.url \notin f.used.forbids
            /\ f.since - f.used.at < RobotsTTL
    /\ f.doing = "requesting" => f.at \notin Internal
    /\ f.doing = "requesting" /\ f.attempt > 1 => f.last \in Endings
    /\ f.doing = "resting" => f.last \in Endings /\ f.attempt < FetchAttempts

FetchInv ==
    /\ FetchTyped
    /\ \A w \in Threads : FetcherStands(fetcher[w])
    /\ SlotsApart
    /\ EntriesKept

\* A set of naturals that is not empty has a least one.
LEMMA LeastOf ==
    ASSUME NEW T \in SUBSET Nat, T # {}
    PROVE  Min(T) \in T
<1>1. IsWellFoundedOn(OpToRel(<, Nat), Nat) BY NatLessThanWellFounded
<1>2. PICK m \in T : \A t \in T : ~(<<t, m>> \in OpToRel(<, Nat)) BY <1>1, WFMin
<1>3. \A t \in T : ~(t < m) BY <1>2 DEF OpToRel
<1>4. \A t \in T : m =< t BY <1>3
<1> QED BY <1>4 DEF Min

\* The entries a gather takes are entries of the feed.
LEMMA TakenEntries ==
    /\ DOMAIN Taken \subseteq Nat \ {0}
    /\ \A i \in DOMAIN Taken :
            Taken[i] \in [link : Addresses \cup {NoAddress}, summary : BOOLEAN, dated : BOOLEAN]
<1> DEFINE Entry == [link : Addresses \cup {NoAddress}, summary : BOOLEAN, dated : BOOLEAN]
           m == Min({FeedLimit, Len(Entries)})
<1>1. Entries \in Seq(Entry) /\ Len(Entries) \in Nat /\ FeedLimit \in Nat BY FetchingAssumption
<1> HIDE DEF Entry
<1>2. m \in {FeedLimit, Len(Entries)} /\ m =< Len(Entries) BY <1>1 DEF Min
<1> HIDE DEF m
<1>3. /\ SubSeq(Entries, 1, m) \in Seq(Entry)
      /\ DOMAIN SubSeq(Entries, 1, m) \subseteq Nat \ {0}
  BY <1>1, <1>2
<1>4. Taken = SubSeq(Entries, 1, m) BY DEF Taken, m
<1>5. \A i \in DOMAIN Taken : Taken[i] \in Entry BY <1>3, <1>4
<1> QED BY <1>3, <1>4, <1>5 DEF Entry

\* A thread at rest is a thread, and has checked nothing.
LEMMA IdleStands == IdleFetcher \in FetcherRec /\ FetcherStands(IdleFetcher)
BY FetchingAssumption DEF NoVerdict, ReadVerdict, IdleFetcher, FetcherRec, FetcherStands

\* The invariant holds before the first request.
LEMMA FetchInvInit == FetchingInit => FetchInv
<1> SUFFICES ASSUME FetchingInit PROVE FetchInv OBVIOUS
<1>1. NoVerdict \in ReadVerdict BY DEF NoVerdict, ReadVerdict
<1>2. FetchTyped BY <1>1, IdleStands DEF FetchingInit, FetchTyped
<1>3. \A w \in Threads : FetcherStands(fetcher[w]) BY IdleStands DEF FetchingInit
<1>4. SlotsApart BY DEF FetchingInit, SlotsApart
<1>5. EntriesKept BY DEF FetchingInit, EntriesKept, Pending, NoDocument
<1> QED BY <1>2, <1>3, <1>4, <1>5 DEF FetchInv

\* A thread that moves leaves the others where they were.
LEMMA OneFetcherMoves ==
    ASSUME FetchInv, NEW w \in Threads, NEW f \in FetcherRec, FetcherStands(f), Becomes(w, f)
    PROVE  /\ fetcher' \in [Threads -> FetcherRec]
           /\ \A x \in Threads : FetcherStands(fetcher[x])'
BY DEF Becomes, FetchInv, FetchTyped, FetcherStands

\* A slot given is apart from the one before.
LEMMA ThrottledKeeps ==
    ASSUME FetchInv, NEW h \in Hosts, Throttled(h)
    PROVE  slots' \in [Hosts -> Seq(Nat)] /\ SlotsApart' /\ NextSlot(h) \in Nat
<1>1. /\ slots \in [Hosts -> Seq(Nat)] /\ second \in Nat /\ Apart \in Nat
      /\ slots' = [slots EXCEPT ![h] = Append(slots[h], NextSlot(h))]
  BY FetchingAssumption DEF FetchInv, FetchTyped, Throttled
<1>2. /\ NextSlot(h) \in Nat
      /\ slots[h] # <<>> => NextSlot(h) - slots[h][Len(slots[h])] >= Apart
  <2>1. CASE slots[h] = <<>> BY <1>1, <2>1 DEF NextSlot
  <2>2. CASE slots[h] # <<>>
    <3> DEFINE l == slots[h][Len(slots[h])]
               S == {second, l + Apart}
    <3>1. l \in Nat /\ Last(slots[h]) = l BY <1>1, <2>2 DEF Last
    <3>2. \E x \in S : \A y \in S : x >= y BY <1>1, <3>1
    <3>3. Max(S) \in S /\ \A y \in S : Max(S) >= y BY <3>2 DEF Max
    <3>4. NextSlot(h) = Max(S) BY <2>2, <3>1 DEF NextSlot
    <3> HIDE DEF l
    <3>5. Max(S) \in Nat /\ Max(S) - l >= Apart BY <1>1, <3>1, <3>3
    <3> QED BY <3>4, <3>5 DEF l
  <2> QED BY <2>1, <2>2
<1> DEFINE n == NextSlot(h)
           s == slots[h]
<1>3. n \in Nat /\ s \in Seq(Nat) /\ (s # <<>> => n - s[Len(s)] >= Apart) BY <1>1, <1>2
<1>4. slots' = [slots EXCEPT ![h] = Append(s, n)] BY <1>1
<1> HIDE DEF n, s
<1>5. Append(s, n) \in Seq(Nat) BY <1>3
<1>6. \A i \in 1..(Len(s) - 1) : s[i + 1] - s[i] >= Apart BY DEF FetchInv, SlotsApart, s
<1>7. \A i \in 1..(Len(Append(s, n)) - 1) : Append(s, n)[i + 1] - Append(s, n)[i] >= Apart
  <2> TAKE i \in 1..(Len(Append(s, n)) - 1)
  <2>1. Len(Append(s, n)) = Len(s) + 1 /\ Len(s) \in Nat /\ i \in 1..Len(s) /\ Append(s, n)[i] = s[i]
    BY <1>3
  <2>2. CASE i = Len(s) BY <1>3, <2>1, <2>2
  <2>3. CASE i # Len(s) BY <1>3, <1>6, <2>1, <2>3
  <2> QED BY <2>2, <2>3
<1>8. slots' \in [Hosts -> Seq(Nat)] BY <1>1, <1>4, <1>5
<1>9. \A g \in Hosts : slots'[g] = IF g = h THEN Append(s, n) ELSE slots[g] BY <1>1, <1>4
<1>10. SlotsApart'
  <2> SUFFICES ASSUME NEW g \in Hosts
               PROVE  \A i \in 1..(Len(slots'[g]) - 1) : slots'[g][i + 1] - slots'[g][i] >= Apart
    BY DEF SlotsApart
  <2>1. CASE g = h BY <1>7, <1>9, <2>1
  <2>2. CASE g # h BY <1>9, <2>2 DEF FetchInv, SlotsApart
  <2> QED BY <2>1, <2>2
<1> QED BY <1>2, <1>8, <1>10

\* An entry ends kept with what it says, or dropped for having nothing to say.
Got(got) == got = NothingFetched \/ \E page \in PageShapes : got = ExtractWebpage(page)

\* What a fetch got is kept with its date, or the entry has nothing to say.
LEMMA EntryKept ==
    ASSUME FetchInv, NEW i, NEW got, Got(got),
           gathering' = [gathering EXCEPT ![i] = EntryDocument(Taken[i], got)]
    PROVE  gathering' = [j \in DOMAIN Taken |-> gathering'[j]] /\ EntriesKept'
<1>1. gathering = [j \in DOMAIN Taken |-> gathering[j]] /\ EntriesKept
  BY DEF FetchInv, FetchTyped
<1>2. gathering' = [j \in DOMAIN Taken |-> IF j = i THEN EntryDocument(Taken[i], got) ELSE gathering[j]]
  BY <1>1
<1>3. got.dated => got.text
  <2>1. CASE got = NothingFetched BY <2>1 DEF NothingFetched
  <2>2. CASE \E page \in PageShapes : got = ExtractWebpage(page)
    <3> PICK page \in PageShapes : got = ExtractWebpage(page) BY <2>2
    <3>1. CASE page.article = "prose" BY <3>1 DEF ExtractWebpage
    <3>2. CASE page.article # "prose" BY <3>2 DEF ExtractWebpage
    <3> QED BY <3>1, <3>2
  <2> QED BY <2>1, <2>2 DEF Got
<1>4. ASSUME i \in DOMAIN Taken, NEW d, d = EntryDocument(Taken[i], got)
      PROVE  /\ d.kind = "none" => ~Taken[i].summary
             /\ d.kind = "kept" => /\ Taken[i].dated <=> d.date = "feed"
                                   /\ d.date = "markup" => d.text = "page"
  <2> DEFINE kept == [kind |-> "kept", text |-> IF got.text THEN "page" ELSE "summary",
                      date |-> PublishedAt(Taken[i], got)]
  <2>1. CASE ~got.text /\ ~Taken[i].summary BY <1>4, <2>1 DEF EntryDocument, NoDocument
  <2>2. CASE got.text \/ Taken[i].summary
    <3>1. d = kept BY <1>4, <2>2 DEF EntryDocument
    <3>2. kept.kind = "kept" /\ kept.date = PublishedAt(Taken[i], got)
          /\ kept.text = IF got.text THEN "page" ELSE "summary"
      OBVIOUS
    <3>3. Taken[i].dated <=> PublishedAt(Taken[i], got) = "feed" BY DEF PublishedAt
    <3>4. PublishedAt(Taken[i], got) = "markup" => got.dated BY DEF PublishedAt
    <3> HIDE DEF kept
    <3> QED BY <1>3, <3>1, <3>2, <3>3, <3>4
  <2> QED BY <2>1, <2>2
<1>5. EntriesKept'
  <2> SUFFICES ASSUME NEW j \in DOMAIN Taken
               PROVE  /\ gathering'[j].kind = "none" => ~Taken[j].summary
                      /\ gathering'[j].kind = "kept" =>
                            /\ Taken[j].dated <=> gathering'[j].date = "feed"
                            /\ gathering'[j].date = "markup" => gathering'[j].text = "page"
    BY DEF EntriesKept, Taken
  <2>1. CASE j = i BY <1>2, <1>4, <2>1
  <2>2. CASE j # i BY <1>1, <1>2, <2>2 DEF EntriesKept
  <2> QED BY <2>1, <2>2
<1> QED BY <1>2, <1>5

\* A thread whose fetch ends is at rest, and its entry kept or dropped.
LEMMA EndsKeeps ==
    ASSUME FetchInv, NEW w \in Threads, NEW outcome, NEW got, Got(got), Ends(w, outcome, got)
    PROVE  /\ fetcher' \in [Threads -> FetcherRec]
           /\ \A x \in Threads : FetcherStands(fetcher[x])'
           /\ gathering' = [j \in DOMAIN Taken |-> gathering'[j]] /\ EntriesKept'
<1>1. Becomes(w, IdleFetcher) BY DEF Ends
<1>2. /\ fetcher' \in [Threads -> FetcherRec]
      /\ \A x \in Threads : FetcherStands(fetcher[x])'
  BY <1>1, IdleStands, OneFetcherMoves
<1>3. gathering' = [j \in DOMAIN Taken |-> gathering'[j]] /\ EntriesKept'
  <2>1. CASE fetcher[w].entry = 0 BY <2>1 DEF Ends, FetchInv, FetchTyped, EntriesKept
  <2>2. CASE fetcher[w].entry # 0
    <3> DEFINE i == fetcher[w].entry
    <3>1. gathering' = [gathering EXCEPT ![i] = EntryDocument(Taken[i], got)] BY <2>2 DEF Ends
    <3> QED BY <3>1, EntryKept
  <2> QED BY <2>1, <2>2
<1> QED BY <1>2, <1>3

\* What a step leaves alone stays as it was.
LEMMA GatheringStays ==
    ASSUME FetchInv, UNCHANGED gathering
    PROVE  gathering' = [j \in DOMAIN Taken |-> gathering'[j]] /\ EntriesKept'
BY DEF FetchInv, FetchTyped, EntriesKept

\* Threads that do not move stand.
LEMMA FetchersStay ==
    ASSUME FetchInv, UNCHANGED fetcher
    PROVE  /\ fetcher' \in [Threads -> FetcherRec]
           /\ \A x \in Threads : FetcherStands(fetcher[x])'
BY DEF FetchInv, FetchTyped, FetcherStands

\* Slots that are not given keep apart.
LEMMA SlotsStay ==
    ASSUME FetchInv, UNCHANGED slots
    PROVE  slots' \in [Hosts -> Seq(Nat)] /\ SlotsApart'
BY DEF FetchInv, FetchTyped, SlotsApart

\* A thread is at an address of some host.
LEMMA ThreadTyped ==
    ASSUME FetchInv, NEW w \in Threads
    PROVE  /\ fetcher[w] \in FetcherRec /\ FetcherStands(fetcher[w])
           /\ HostOf[fetcher[w].url] \in Hosts
BY DEF FetchInv, FetchTyped, FetcherRec, Hosts

\* A thread that will ask for the feed has checked nothing yet.
LEMMA AskForFeedKeeps ==
    ASSUME FetchInv, NEW w \in Threads, AskForFeed(w) PROVE FetchInv'
<1> DEFINE f == [IdleFetcher EXCEPT !.doing = "consulting"]
<1>1. f \in FetcherRec /\ FetcherStands(f)
  BY IdleStands DEF FetcherRec, FetcherStands, IdleFetcher
<1>2. Becomes(w, f) /\ UNCHANGED <<second, slots, verdicts, robots, gathering>>
  BY DEF AskForFeed
<1> HIDE DEF f
<1>3. fetcher' \in [Threads -> FetcherRec] /\ \A x \in Threads : FetcherStands(fetcher[x])'
  BY <1>1, <1>2, OneFetcherMoves
<1> QED BY <1>2, <1>3, GatheringStays, SlotsStay DEF FetchInv, FetchTyped

\* A thread takes an entry with a link, or the entry is settled without one.
LEMMA TakeEntryKeeps ==
    ASSUME FetchInv, NEW w \in Threads, TakeEntry(w) PROVE FetchInv'
<1> DEFINE waiting == {i \in DOMAIN Taken : gathering[i] = Pending /\ \A v \in Threads :
                            ~(fetcher[v].doing # "idle" /\ fetcher[v].entry = i)}
           i == Min(waiting)
           f == [IdleFetcher EXCEPT !.doing = "consulting", !.entry = i,
                                    !.url = Taken[i].link, !.at = Taken[i].link]
<1>1. /\ waiting # {}
      /\ IF Taken[i].link = NoAddress
         THEN /\ gathering' = [gathering EXCEPT ![i] = EntryDocument(Taken[i], NothingFetched)]
              /\ UNCHANGED fetcher
         ELSE Becomes(w, f) /\ UNCHANGED gathering
      /\ UNCHANGED <<second, slots, verdicts, robots, feed>>
  BY DEF TakeEntry
<1>2. i \in DOMAIN Taken BY <1>1, LeastOf, TakenEntries
<1> HIDE DEF i
<1>3. CASE Taken[i].link = NoAddress
  BY <1>1, <1>3, EntryKept, FetchersStay, SlotsStay DEF Got, FetchInv, FetchTyped
<1>4. CASE Taken[i].link # NoAddress
  <2>1. Taken[i].link \in Addresses BY <1>2, <1>4, TakenEntries
  <2>2. f \in FetcherRec /\ FetcherStands(f)
    BY <1>2, <2>1, IdleStands DEF FetcherRec, FetcherStands, IdleFetcher
  <2>3. Becomes(w, f) /\ UNCHANGED gathering BY <1>1, <1>4
  <2> HIDE DEF f
  <2>4. fetcher' \in [Threads -> FetcherRec] /\ \A x \in Threads : FetcherStands(fetcher[x])'
    BY <2>2, <2>3, OneFetcherMoves
  <2> QED BY <1>1, <2>3, <2>4, GatheringStays, SlotsStay DEF FetchInv, FetchTyped
<1> QED BY <1>3, <1>4

\* Robots.txt is asked of the host that will be asked, and fresh verdicts are used.
LEMMA ConsultKeeps ==
    ASSUME FetchInv, NEW w \in Threads, Consult(w) PROVE FetchInv'
<1> DEFINE f == fetcher[w]
           h == HostOf[f.url]
           v == verdicts[h]
           reads == [f EXCEPT !.doing = "reading", !.since = second, !.until = NextSlot(h)]
           goes == [f EXCEPT !.doing = "allowed", !.since = second, !.used = v]
<1>1. f \in FetcherRec /\ FetcherStands(f) /\ h \in Hosts BY ThreadTyped
<1>2. f.doing = "consulting" /\ UNCHANGED <<second, verdicts, robots>> BY DEF Consult, Doing
<1>3. v \in ReadVerdict /\ second \in Nat BY <1>1 DEF FetchInv, FetchTyped
<1>4. \/ /\ f.url \in Internal
         /\ Ends(w, "blocked", NothingFetched) /\ UNCHANGED slots
      \/ /\ f.url \notin Internal
         /\ Becomes(w, reads) /\ Throttled(h) /\ UNCHANGED <<feed, gathering>>
      \/ Ends(w, "disallowed", NothingFetched) /\ UNCHANGED slots
      \/ /\ f.url \notin Internal /\ FreshVerdict(v, second) /\ f.url \notin v.forbids
         /\ Becomes(w, goes) /\ UNCHANGED <<slots, feed, gathering>>
  BY DEF Consult
<1> HIDE DEF f, h, v
<1>5. ASSUME NEW outcome, Ends(w, outcome, NothingFetched), UNCHANGED slots PROVE FetchInv'
  BY <1>2, <1>5, EndsKeeps, SlotsStay DEF Got, FetchInv, FetchTyped
<1>6. CASE /\ f.url \notin Internal
           /\ Becomes(w, reads) /\ Throttled(h) /\ UNCHANGED <<feed, gathering>>
  <2>1. NextSlot(h) \in Nat /\ slots' \in [Hosts -> Seq(Nat)] /\ SlotsApart'
    BY <1>1, <1>6, ThrottledKeeps
  <2>2. reads \in FetcherRec BY <1>1, <1>3, <2>1 DEF FetcherRec
  <2>3. FetcherStands(reads) BY <1>1, <1>2, <1>6 DEF FetcherStands, FetcherRec
  <2>4. fetcher' \in [Threads -> FetcherRec] /\ \A x \in Threads : FetcherStands(fetcher[x])'
    BY <1>6, <2>2, <2>3, OneFetcherMoves
  <2> QED BY <1>2, <1>6, <2>1, <2>4, GatheringStays DEF FetchInv, FetchTyped
<1>7. CASE /\ f.url \notin Internal /\ FreshVerdict(v, second) /\ f.url \notin v.forbids
           /\ Becomes(w, goes) /\ UNCHANGED <<slots, feed, gathering>>
  <2>1. v.known /\ second - v.at < RobotsTTL BY <1>7 DEF FreshVerdict
  <2>2. goes \in FetcherRec BY <1>1, <1>3 DEF FetcherRec
  <2>3. FetcherStands(goes) BY <1>1, <1>2, <1>7, <2>1 DEF FetcherStands, FetcherRec
  <2>4. fetcher' \in [Threads -> FetcherRec] /\ \A x \in Threads : FetcherStands(fetcher[x])'
    BY <1>7, <2>2, <2>3, OneFetcherMoves
  <2> QED BY <1>2, <1>7, <2>4, GatheringStays, SlotsStay DEF FetchInv, FetchTyped
<1> QED BY <1>4, <1>5, <1>6, <1>7

\* A verdict that was just read is fresh.
LEMMA ReadRobotsKeeps ==
    ASSUME FetchInv, NEW w \in Threads, NEW file \in RobotsFiles, ReadRobots(w, file) PROVE FetchInv'
<1> DEFINE f == fetcher[w]
           v == [known |-> TRUE, forbids |-> file, at |-> f.since]
           goes == [f EXCEPT !.doing = "allowed", !.used = v]
<1>1. f \in FetcherRec /\ FetcherStands(f) /\ HostOf[f.url] \in Hosts BY ThreadTyped
<1>2. f.doing = "reading" /\ UNCHANGED <<second, slots, robots>> BY DEF ReadRobots, Doing
<1>3. f.since \in Nat BY <1>1 DEF FetcherRec
<1>4. v \in ReadVerdict /\ v.known /\ v.forbids = file /\ v.at = f.since BY <1>3 DEF ReadVerdict
<1>5. verdicts' = [verdicts EXCEPT ![HostOf[f.url]] = v] BY DEF ReadRobots
<1>6. IF f.url \in file THEN Ends(w, "disallowed", NothingFetched)
      ELSE Becomes(w, goes) /\ UNCHANGED <<feed, gathering>>
  BY DEF ReadRobots
<1> HIDE DEF f, v
<1>7. verdicts' \in [Hosts -> ReadVerdict] BY <1>1, <1>4, <1>5 DEF FetchInv, FetchTyped
<1>8. CASE f.url \in file
  BY <1>2, <1>6, <1>7, <1>8, EndsKeeps, SlotsStay DEF Got, FetchInv, FetchTyped
<1>9. CASE f.url \notin file
  <2>1. goes \in FetcherRec BY <1>1, <1>4 DEF FetcherRec
  <2>2. v.at \in Nat /\ f.since - v.at < RobotsTTL BY <1>3, <1>4, FetchingAssumption
  <2>3. FetcherStands(goes) BY <1>1, <1>2, <1>4, <1>9, <2>2 DEF FetcherStands, FetcherRec
  <2>4. fetcher' \in [Threads -> FetcherRec] /\ \A x \in Threads : FetcherStands(fetcher[x])'
    BY <1>6, <1>9, <2>1, <2>3, OneFetcherMoves
  <2> QED BY <1>2, <1>6, <1>7, <1>9, <2>4, GatheringStays, SlotsStay DEF FetchInv, FetchTyped
<1> QED BY <1>8, <1>9

\* An attempt begins at an address that was allowed, in a slot of its own.
LEMMA BeginAttemptKeeps ==
    ASSUME FetchInv, NEW w \in Threads, BeginAttempt(w) PROVE FetchInv'
<1> DEFINE f == fetcher[w]
           h == HostOf[f.url]
           begins == [f EXCEPT !.doing = "requesting", !.at = f.url, !.hops = 0,
                               !.attempt = f.attempt + 1, !.until = NextSlot(h)]
<1>1. f \in FetcherRec /\ FetcherStands(f) /\ h \in Hosts BY ThreadTyped
<1>2. f.doing \in {"allowed", "resting"} /\ UNCHANGED <<second, verdicts, robots, feed, gathering>>
  BY DEF BeginAttempt, Doing
<1>3. Becomes(w, begins) /\ Throttled(h) BY DEF BeginAttempt
<1> HIDE DEF f, h
<1>4. NextSlot(h) \in Nat /\ slots' \in [Hosts -> Seq(Nat)] /\ SlotsApart'
  BY <1>1, <1>3, ThrottledKeeps
<1>5. f.attempt + 1 \in 0..FetchAttempts /\ f.url \in Addresses
  BY <1>1, <1>2, FetchingAssumption DEF FetcherRec, FetcherStands
<1>6. begins \in FetcherRec
  <2> DEFINE n == f.attempt + 1
             m == NextSlot(h)
  <2>1. n \in 0..FetchAttempts /\ m \in Nat /\ 0 \in 0..MaxRedirects
    BY <1>4, <1>5, FetchingAssumption
  <2> HIDE DEF n, m
  <2>2. [f EXCEPT !.doing = "requesting", !.at = f.url, !.hops = 0, !.attempt = n,
                  !.until = m] \in FetcherRec
    BY <1>1, <1>5, <2>1 DEF FetcherRec
  <2> QED BY <2>2 DEF n, m
<1>7. FetcherStands(begins) BY <1>1, <1>2, FetchingAssumption DEF FetcherStands, FetcherRec
<1>8. fetcher' \in [Threads -> FetcherRec] /\ \A x \in Threads : FetcherStands(fetcher[x])'
  BY <1>3, <1>6, <1>7, OneFetcherMoves
<1> QED BY <1>2, <1>4, <1>8, GatheringStays DEF FetchInv, FetchTyped

\* Whatever a request ends with, the thread ends its fetch.
LEMMA EndedKeeps ==
    ASSUME FetchInv, NEW w \in Threads, NEW outcome, NEW got, Got(got), Ends(w, outcome, got),
           UNCHANGED <<second, slots, verdicts, robots>>
    PROVE  FetchInv'
BY EndsKeeps, SlotsStay DEF FetchInv, FetchTyped

\* A redirect leads to no internal address, and takes a slot there.
LEMMA RedirectedKeeps ==
    ASSUME FetchInv, NEW w \in Threads, NEW to \in Addresses, Redirected(w, to) PROVE FetchInv'
<1> DEFINE f == fetcher[w]
           goes == [f EXCEPT !.at = to, !.hops = f.hops + 1]
<1>1. f \in FetcherRec /\ FetcherStands(f) BY ThreadTyped
<1>2. f.doing = "requesting" /\ UNCHANGED <<second, slots, verdicts, robots>>
  BY DEF Redirected, Doing
<1>3. \/ Ends(w, "too_many", NothingFetched)
      \/ Ends(w, "blocked", NothingFetched)
      \/ f.hops # MaxRedirects /\ to \notin Internal /\ Becomes(w, goes) /\ UNCHANGED <<feed, gathering>>
  BY DEF Redirected
<1>4. Got(NothingFetched) BY DEF Got
<1> HIDE DEF f
<1>5. CASE f.hops # MaxRedirects /\ to \notin Internal /\ Becomes(w, goes) /\ UNCHANGED <<feed, gathering>>
  <2>1. f.hops + 1 \in 0..MaxRedirects BY <1>1, <1>5, FetchingAssumption DEF FetcherRec
  <2>2. goes \in FetcherRec BY <1>1, <2>1 DEF FetcherRec
  <2>3. FetcherStands(goes) BY <1>1, <1>2, <1>5 DEF FetcherStands, FetcherRec
  <2>4. fetcher' \in [Threads -> FetcherRec] /\ \A x \in Threads : FetcherStands(fetcher[x])'
    BY <1>5, <2>2, <2>3, OneFetcherMoves
  <2> QED BY <1>2, <1>5, <2>4, GatheringStays, SlotsStay DEF FetchInv, FetchTyped
<1> QED BY <1>2, <1>3, <1>4, <1>5, EndedKeeps

\* A failed attempt has a reason and is followed by a rest, or is the last.
LEMMA FailedKeeps ==
    ASSUME FetchInv, NEW w \in Threads, NEW answer \in Endings, Failed(w, answer) PROVE FetchInv'
<1> DEFINE f == fetcher[w]
           rests == [f EXCEPT !.doing = "resting", !.until = second + PauseFor(answer), !.last = answer]
<1>1. f \in FetcherRec /\ FetcherStands(f) BY ThreadTyped
<1>2. f.doing = "requesting" /\ UNCHANGED <<second, slots, verdicts, robots>>
  BY DEF Failed, Doing
<1>3. \/ Ends(w, answer, NothingFetched)
      \/ f.attempt # FetchAttempts /\ Becomes(w, rests) /\ UNCHANGED <<feed, gathering>>
  BY DEF Failed
<1>4. Got(NothingFetched) BY DEF Got
<1>5. second + PauseFor(answer) \in Nat BY DEF FetchInv, FetchTyped, PauseFor
<1> HIDE DEF f
<1>6. CASE f.attempt # FetchAttempts /\ Becomes(w, rests) /\ UNCHANGED <<feed, gathering>>
  <2>1. f.attempt < FetchAttempts BY <1>1, <1>6, FetchingAssumption DEF FetcherRec
  <2>2. rests \in FetcherRec BY <1>1, <1>5 DEF FetcherRec
  <2>3. FetcherStands(rests) BY <1>1, <1>2, <2>1 DEF FetcherStands, FetcherRec
  <2>4. fetcher' \in [Threads -> FetcherRec] /\ \A x \in Threads : FetcherStands(fetcher[x])'
    BY <1>6, <2>2, <2>3, OneFetcherMoves
  <2> QED BY <1>2, <1>6, <2>4, GatheringStays, SlotsStay DEF FetchInv, FetchTyped
<1> QED BY <1>2, <1>3, <1>4, <1>6, EndedKeeps

\* A page that came ends the fetch.
LEMMA DeliveredKeeps ==
    ASSUME FetchInv, NEW w \in Threads, NEW page \in PageShapes, Delivered(w, page) PROVE FetchInv'
BY EndedKeeps DEF Delivered, Got

\* An error that is final ends the fetch.
LEMMA FinalErrorKeeps ==
    ASSUME FetchInv, NEW w \in Threads, NEW code, FinalError(w, code) PROVE FetchInv'
BY EndedKeeps DEF FinalError, Got

\* The invariant is inductive: one lemma per step.
LEMMA FetchStepKeeps == FetchInv /\ [FetchingNext]_fetchingVars => FetchInv'
<1> SUFFICES ASSUME FetchInv, [FetchingNext]_fetchingVars PROVE FetchInv' OBVIOUS
<1>1. ASSUME UNCHANGED <<slots, verdicts, fetcher, gathering>>, second' \in Nat,
             robots' \in [Hosts -> RobotsFiles]
      PROVE  FetchInv'
  BY <1>1, FetchersStay, SlotsStay, GatheringStays DEF FetchInv, FetchTyped
<1>2. CASE UNCHANGED fetchingVars BY <1>1, <1>2 DEF fetchingVars, FetchInv, FetchTyped
<1>3. CASE Passes BY <1>1, <1>3 DEF Passes, FetchInv, FetchTyped
<1>4. CASE \E h \in Hosts, file \in RobotsFiles : ChangeRobots(h, file)
  BY <1>1, <1>4 DEF ChangeRobots, FetchInv, FetchTyped
<1>5. ASSUME NEW w \in Threads,
             \/ AskForFeed(w) \/ TakeEntry(w) \/ Consult(w) \/ BeginAttempt(w)
             \/ \E file \in RobotsFiles : ReadRobots(w, file)
             \/ \E page \in PageShapes : Delivered(w, page)
             \/ \E code \in {"http_4xx", "too_large"} : FinalError(w, code)
             \/ \E to \in Addresses : Redirected(w, to)
             \/ \E answer \in {"http_5xx", "transport", "nowhere"} : Failed(w, answer)
      PROVE  FetchInv'
  BY <1>5, AskForFeedKeeps, TakeEntryKeeps, ConsultKeeps, BeginAttemptKeeps, ReadRobotsKeeps,
     DeliveredKeeps, FinalErrorKeeps, RedirectedKeeps, FailedKeeps DEF Endings
<1> QED BY <1>2, <1>3, <1>4, <1>5 DEF FetchingNext

\* The invariant is stronger than what the fetches promise.
LEMMA FetchInvTells == FetchInv => FetchTells
<1> SUFFICES ASSUME FetchInv PROVE FetchTells OBVIOUS
<1>1. AskedWithinTheHour BY DEF FetchInv, FetcherStands, AskedWithinTheHour
<1>2. RetriedForAReason
  <2> SUFFICES ASSUME NEW w \in Threads
               PROVE  LET f == fetcher[w] IN
                      /\ f.attempt > 1 /\ f.doing # "idle" => f.last \in Endings
                      /\ f.doing = "requesting" => f.at \notin Internal
                      /\ f.attempt <= FetchAttempts /\ f.hops <= MaxRedirects
    BY DEF RetriedForAReason, Endings
  <2>1. fetcher[w] \in FetcherRec /\ FetcherStands(fetcher[w]) BY ThreadTyped
  <2> QED BY <2>1, FetchingAssumption DEF FetcherRec, FetcherStands
<1> QED BY <1>1, <1>2 DEF FetchTells, FetchInv

\* For any number of threads, hosts and entries: requests to a host keep apart, nothing is
\* asked without a fresh verdict, nothing again without a reason, and no entry that says
\* something is lost.
THEOREM FetchesHold == FetchingSpec => []FetchTells
BY FetchInvInit, FetchStepKeeps, FetchInvTells, PTL DEF FetchingSpec

-----------------------------------------------------------------------------
(* The demo corpus.                                                         *)

VersionsOf(files) == UNION {{<<f, n>> : n \in 1..TextsOf[f]} : f \in files}
SeederRec == [at : 1..(Len(Corpus) + 1), made : SUBSET CorpusFiles, wrote : Seq(VersionsOf(CorpusFiles)),
              step : {"source", "document", "insert", "unchanged", "seeded", "failed"}]
IndexRec == [of : VersionsOf(CorpusFiles), status : {"queued", "succeeded", "failed", "dead"},
             attempts : Nat, due : Nat]
DrainerRec == [step : {"idle", "looking", "running", "done"}, job : Nat, processed : Nat,
               ran : Seq(Nat)]

FilesTo(k) == {Corpus[i] : i \in 1..(k - 1)}
FoundBy(q) == FilesTo(q.at) \cup (IF q.step \in {"document", "insert"} THEN {Corpus[q.at]} ELSE {})
Over(q) == q.step \in {"seeded", "failed"}

SeederTyped(q) ==
    /\ q \in SeederRec
    /\ q.at > Len(Corpus) => q.step = "source"
    /\ Over(q) => q.at = 1 /\ q.made = {} /\ q.wrote = <<>>

\* Until a transaction commits, each has made and stored what it has passed, and holds it.
SeederBefore(q) ==
    /\ q.step \notin {"seeded", "unchanged"}
    /\ q.made = FoundBy(q)
    /\ IsInjective(q.wrote) /\ ToSet(q.wrote) = VersionsOf(FilesTo(q.at))

\* After that none stores anything, and what they had made is the first source at most.
SeederAfter(q) == q.made \subseteq {Corpus[1]} /\ q.wrote = <<>>

SeedTyped ==
    /\ corpusSources \in [CorpusFiles -> Nat]
    /\ docHeld = [f \in CorpusFiles |-> docHeld[f]]
    /\ seeder = [s \in Seeders |-> seeder[s]]
    /\ \A s \in Seeders : SeederTyped(seeder[s])

BeforeTheFirst ==
    /\ corpusRows = {} /\ indexJobs = <<>>
    /\ \A f \in CorpusFiles : corpusSources[f] = 0
    /\ \A s \in Seeders : /\ SeederBefore(seeder[s])
                          /\ \A f \in FilesTo(seeder[s].at) : docHeld[f] = s

AfterTheFirst ==
    /\ corpusRows = CorpusFiles
    /\ \A f \in CorpusFiles : corpusSources[f] > 0
    /\ \A s \in Seeders : SeederAfter(seeder[s])

SeedInv ==
    /\ SeedTyped
    /\ BeforeTheFirst \/ AfterTheFirst
    /\ SourcesNearlyOnce
    /\ IndexedOnce

\* What each index job has come to in the drain, and how often it was run.
Drained(j) ==
    /\ indexJobs[j].of[1] \in AlwaysFails => indexJobs[j].status = "queued" /\ indexJobs[j].attempts = 0
    /\ indexJobs[j].of[1] \notin AlwaysFails =>
        /\ drainer.ran[j] <= 1
        /\ indexJobs[j].status = "queued" /\ ~(drainer.step = "running" /\ drainer.job = j) =>
                drainer.ran[j] = 0

DrainInv ==
    /\ indexJobs \in Seq(IndexRec)
    /\ drainer \in DrainerRec /\ Len(drainer.ran) = Len(indexJobs)
    /\ drainer.step # "idle" => \A s \in Seeders : Over(seeder[s])
    /\ drainer.step = "running" =>
            drainer.job \in DOMAIN indexJobs /\ indexJobs[drainer.job].status = "queued"
    /\ \A j \in DOMAIN indexJobs : Drained(j)
    /\ drainer.step = "done" => QueuedIndexes = {} \/ drainer.processed = MaxDrainJobs

NoteJobRec == [holds : BOOLEAN, status : {"queued", "done"}]
SaverRec == [holds : BOOLEAN, swallowed : BOOLEAN,
             step : {"source", "insert", "unchanged", "enqueue", "answered", "died", "failed"}]

NoteInv ==
    /\ note \in [sources : Nat, stored : BOOLEAN, indexed : BOOLEAN]
    /\ saver \in [Savers -> SaverRec]
    /\ noteJobs \in Seq(NoteJobRec)
    /\ \A r \in Savers : saver[r].holds => saver[r].step \in {"enqueue", "answered", "died"}
    /\ NoteFound

\* The corpus is a sequence of at least one file, without repetition.
LEMMA CorpusFacts ==
    /\ Corpus \in Seq(CorpusFiles) /\ Len(Corpus) \in Nat /\ Len(Corpus) >= 1
    /\ CorpusFiles = {Corpus[i] : i \in 1..Len(Corpus)}
    /\ \A i, j \in 1..Len(Corpus) : Corpus[i] = Corpus[j] => i = j
    /\ \A f \in CorpusFiles : TextsOf[f] \in Nat \ {0}
BY SeedingAssumption DEF CorpusFiles, ToSet, IsInjective

\* From a file of the corpus the next place is a file or the end.
LEMMA OneFileOn == \A k \in 1..Len(Corpus) : k + 1 \in 1..(Len(Corpus) + 1)
BY CorpusFacts

\* What a seeder has passed is no file, then one more at each, then all of them.
LEMMA FilesFacts ==
    /\ FilesTo(1) = {} /\ FilesTo(Len(Corpus) + 1) = CorpusFiles
    /\ \A k \in 1..(Len(Corpus) + 1) : /\ FilesTo(k) \subseteq CorpusFiles
                                       /\ k > 1 => Corpus[1] \in FilesTo(k)
    /\ \A k \in 1..Len(Corpus) : /\ FilesTo(k + 1) = FilesTo(k) \cup {Corpus[k]}
                                 /\ Corpus[k] \in CorpusFiles \ FilesTo(k)
<1>1. FilesTo(1) = {} BY DEF FilesTo
<1>2. FilesTo(Len(Corpus) + 1) = CorpusFiles BY CorpusFacts DEF FilesTo
<1>3. \A k \in 1..(Len(Corpus) + 1) : FilesTo(k) \subseteq CorpusFiles /\ (k > 1 => Corpus[1] \in FilesTo(k))
  <2> TAKE k \in 1..(Len(Corpus) + 1)
  <2>1. k \in Nat /\ 1..(k - 1) \subseteq 1..Len(Corpus) BY CorpusFacts
  <2>2. k > 1 => 1 \in 1..(k - 1) BY <2>1
  <2> QED BY <2>1, <2>2, CorpusFacts DEF FilesTo
<1>4. \A k \in 1..Len(Corpus) : FilesTo(k + 1) = FilesTo(k) \cup {Corpus[k]} /\ Corpus[k] \in CorpusFiles \ FilesTo(k)
  <2> TAKE k \in 1..Len(Corpus)
  <2>1. k \in Nat \ {0} /\ 1..((k + 1) - 1) = (1..(k - 1)) \cup {k} /\ k \notin 1..(k - 1)
        /\ 1..(k - 1) \subseteq 1..Len(Corpus)
    BY CorpusFacts
  <2>2. FilesTo(k + 1) = FilesTo(k) \cup {Corpus[k]} BY <2>1 DEF FilesTo
  <2>3. Corpus[k] \notin FilesTo(k) BY <2>1, CorpusFacts DEF FilesTo
  <2> QED BY <2>2, <2>3, CorpusFacts
<1> QED BY <1>1, <1>2, <1>3, <1>4

\* The versions of some files are those of each, and tell their files.
LEMMA VersionFacts ==
    /\ VersionsOf({}) = {}
    /\ \A A, f : VersionsOf(A \cup {f}) = VersionsOf(A) \cup {<<f, n>> : n \in 1..TextsOf[f]}
    /\ \A A, f, n : <<f, n>> \in VersionsOf(A) => f \in A
    /\ \A A \in SUBSET CorpusFiles : {v[1] : v \in VersionsOf(A)} = A
<1>1. VersionsOf({}) = {} BY DEF VersionsOf
<1>2. \A A, f : VersionsOf(A \cup {f}) = VersionsOf(A) \cup {<<f, n>> : n \in 1..TextsOf[f]}
  BY DEF VersionsOf
<1>3. \A A, v : v \in VersionsOf(A) => \E f \in A : \E n \in 1..TextsOf[f] : v = <<f, n>>
  BY DEF VersionsOf
<1>4. \A A \in SUBSET CorpusFiles : {v[1] : v \in VersionsOf(A)} = A
  <2> TAKE A \in SUBSET CorpusFiles
  <2>1. \A v \in VersionsOf(A) : v[1] \in A BY <1>3
  <2>2. ASSUME NEW f \in A PROVE \E v \in VersionsOf(A) : v[1] = f
    <3>1. 1 \in 1..TextsOf[f] BY CorpusFacts
    <3>2. <<f, 1>> \in VersionsOf(A) BY <3>1 DEF VersionsOf
    <3> QED BY <3>2
  <2> QED BY <2>1, <2>2
<1>5. \A A, f, n : <<f, n>> \in VersionsOf(A) => f \in A
  <2> SUFFICES ASSUME NEW A, NEW f, NEW n, <<f, n>> \in VersionsOf(A) PROVE f \in A OBVIOUS
  <2>1. PICK g \in A : \E m \in 1..TextsOf[g] : <<f, n>> = <<g, m>> BY <1>3
  <2> QED BY <2>1
<1> QED BY <1>1, <1>2, <1>4, <1>5

\* A transaction that begins, and one that ended, holds and has made nothing.
LEMMA NewSeederTyped ==
    \A step \in {"source", "failed", "seeded"} :
        LET q == [NewSeeder EXCEPT !.step = step] IN
        /\ SeederTyped(q) /\ SeederAfter(q)
        /\ step # "seeded" => SeederBefore(q)
        /\ q.step = step /\ FilesTo(q.at) = {}
<1> TAKE step \in {"source", "failed", "seeded"}
<1> DEFINE q == [NewSeeder EXCEPT !.step = step]
<1>2. q.at = 1 /\ q.step = step /\ q.made = {} /\ q.wrote = <<>> BY DEF NewSeeder
<1>3. q \in SeederRec
  <2>1. 1 \in 1..(Len(Corpus) + 1) /\ <<>> \in Seq(VersionsOf(CorpusFiles)) BY CorpusFacts
  <2>2. NewSeeder \in SeederRec BY <2>1 DEF SeederRec, NewSeeder
  <2> QED BY <2>2 DEF SeederRec
<1> HIDE DEF q
<1>4. SeederTyped(q) BY <1>2, <1>3, CorpusFacts DEF SeederTyped
<1>5. FilesTo(q.at) = {} BY <1>2, FilesFacts
<1>6. ASSUME step # "seeded" PROVE SeederBefore(q)
  <2>1. IsInjective(q.wrote) /\ ToSet(q.wrote) = {} BY <1>2 DEF IsInjective, ToSet
  <2>2. FoundBy(q) = {} BY <1>2, <1>5 DEF FoundBy
  <2> QED BY <1>2, <1>5, <1>6, <2>1, <2>2, VersionFacts DEF SeederBefore
<1>7. SeederAfter(q) BY <1>2 DEF SeederAfter
<1> QED BY <1>2, <1>4, <1>5, <1>6, <1>7 DEF q

\* The invariant holds before the corpus is seeded.
LEMMA SeedInvInit == SeedingInit => SeedInv
<1> SUFFICES ASSUME SeedingInit PROVE SeedInv OBVIOUS
<1>1. NewSeeder = [NewSeeder EXCEPT !.step = "source"] BY DEF NewSeeder
<1>2. SeederTyped(NewSeeder) /\ SeederBefore(NewSeeder) /\ FilesTo(NewSeeder.at) = {}
  BY <1>1, NewSeederTyped
<1>3. SeedTyped BY <1>2 DEF SeedingInit, SeedTyped
<1>4. BeforeTheFirst BY <1>2 DEF SeedingInit, BeforeTheFirst
<1>5. SourcesNearlyOnce BY DEF SeedingInit, SourcesNearlyOnce
<1>6. IndexedOnce BY DEF SeedingInit, IndexedOnce
<1> QED BY <1>3, <1>4, <1>5, <1>6 DEF SeedInv

\* A transaction that moves leaves the others and what is committed.
LEMMA SeederMoves ==
    ASSUME SeedInv, NEW s \in Seeders, NEW q, SeederTyped(q), seeder' = [seeder EXCEPT ![s] = q],
           UNCHANGED <<corpusSources, corpusRows, indexJobs>>,
           docHeld' = [f \in CorpusFiles |-> docHeld'[f]],
           BeforeTheFirst => /\ SeederBefore(q) /\ \A f \in FilesTo(q.at) : docHeld'[f] = s
                             /\ \A x \in Seeders \ {s}, f \in CorpusFiles : docHeld[f] = x => docHeld'[f] = x,
           AfterTheFirst => SeederAfter(q),
           seeder[s].step # "seeded", q.step # "seeded"
    PROVE  SeedInv'
<1>1. seeder' = [x \in Seeders |-> IF x = s THEN q ELSE seeder[x]] BY DEF SeedInv, SeedTyped
<1>2. \A x \in Seeders : seeder'[x] = IF x = s THEN q ELSE seeder[x] BY <1>1
<1>3. SeedTyped' BY <1>1, <1>2 DEF SeedInv, SeedTyped, SeederTyped
<1>4. BeforeTheFirst => BeforeTheFirst'
  <2> SUFFICES ASSUME BeforeTheFirst PROVE BeforeTheFirst' OBVIOUS
  <2>1. ASSUME NEW x \in Seeders
        PROVE  SeederBefore(seeder'[x]) /\ \A f \in FilesTo(seeder'[x].at) : docHeld'[f] = x
    <3>1. CASE x = s BY <1>2, <3>1
    <3>2. CASE x # s
      BY <1>2, <3>2, FilesFacts DEF BeforeTheFirst, SeedInv, SeedTyped, SeederTyped, SeederRec
    <3> QED BY <3>1, <3>2
  <2> QED BY <2>1 DEF BeforeTheFirst, SeederBefore, FilesTo, FoundBy
<1>5. AfterTheFirst => AfterTheFirst'
  <2> SUFFICES ASSUME AfterTheFirst PROVE AfterTheFirst' OBVIOUS
  <2>1. \A x \in Seeders : SeederAfter(seeder'[x]) BY <1>2 DEF AfterTheFirst
  <2> QED BY <2>1 DEF AfterTheFirst, SeederAfter
<1>6. SourcesNearlyOnce'
  <2>1. {x \in Seeders : seeder'[x].step = "seeded"} = {x \in Seeders : seeder[x].step = "seeded"}
    BY <1>2
  <2> QED BY <2>1 DEF SeedInv, SourcesNearlyOnce
<1>7. IndexedOnce' BY DEF SeedInv, IndexedOnce
<1> QED BY <1>3, <1>4, <1>5, <1>6, <1>7 DEF SeedInv

\* A transaction that fails gives up what it held.
LEMMA EndSeederKeeps ==
    ASSUME SeedInv, NEW s \in Seeders, EndSeeder(s, "failed"), seeder[s].step # "seeded",
           UNCHANGED <<corpusSources, corpusRows, indexJobs>>
    PROVE  SeedInv'
<1> DEFINE q == [NewSeeder EXCEPT !.step = "failed"]
<1>1. SeederTyped(q) /\ SeederAfter(q) /\ SeederBefore(q) /\ q.step = "failed" /\ FilesTo(q.at) = {}
  BY NewSeederTyped
<1>2. seeder' = [seeder EXCEPT ![s] = q] BY DEF EndSeeder
<1>3. docHeld' = [f \in CorpusFiles |-> IF docHeld[f] = s THEN "none" ELSE docHeld[f]]
  BY DEF EndSeeder
<1> HIDE DEF q
<1>4. docHeld' = [f \in CorpusFiles |-> docHeld'[f]] BY <1>3
<1>5. \A x \in Seeders \ {s}, f \in CorpusFiles : docHeld[f] = x => docHeld'[f] = x BY <1>3
<1> QED BY <1>1, <1>2, <1>4, <1>5, SeederMoves

\* Where a transaction is in the corpus, and what it has made and stored.
LEMMA SeederFacts ==
    ASSUME SeedInv, NEW s \in Seeders
    PROVE  /\ SeederTyped(seeder[s]) /\ seeder[s] \in SeederRec
           /\ seeder[s].at \in 1..(Len(Corpus) + 1)
           /\ seeder[s].made \subseteq CorpusFiles
           /\ seeder[s].wrote \in Seq(VersionsOf(CorpusFiles))
           /\ seeder[s].at <= Len(Corpus) => seeder[s].at \in 1..Len(Corpus) /\ FileOf(s) \in CorpusFiles
<1>1. SeederTyped(seeder[s]) /\ seeder[s] \in SeederRec BY DEF SeedInv, SeedTyped, SeederTyped
<1>2. seeder[s].at \in 1..(Len(Corpus) + 1) BY <1>1 DEF SeederRec
<1>3. seeder[s].at <= Len(Corpus) => seeder[s].at \in 1..Len(Corpus) BY <1>2, CorpusFacts
<1>4. seeder[s].at <= Len(Corpus) => FileOf(s) \in CorpusFiles BY <1>3, CorpusFacts DEF FileOf
<1>5. seeder[s].made \subseteq CorpusFiles /\ seeder[s].wrote \in Seq(VersionsOf(CorpusFiles))
  BY <1>1 DEF SeederRec
<1> QED BY <1>1, <1>2, <1>3, <1>4, <1>5

\* A source is found, or made if none is seen; several are an error.
LEMMA SourceForKeeps ==
    ASSUME SeedInv, NEW s \in Seeders, SourceFor(s) PROVE SeedInv'
<1> DEFINE f == FileOf(s)
           made == IF FindSource(s, f) = "no source" THEN seeder[s].made \cup {f} ELSE seeder[s].made
           q == [seeder[s] EXCEPT !.step = "document", !.made = made]
<1>1. seeder[s].step = "source" /\ seeder[s].at <= Len(Corpus) /\ seeder[s].at \in 1..Len(Corpus)
      /\ f \in CorpusFiles /\ f = Corpus[seeder[s].at]
  BY SeederFacts DEF SourceFor, Before, FileOf
<1>2. UNCHANGED <<corpusSources, corpusRows, indexJobs>> BY DEF SourceFor
<1>3. CASE FindSource(s, f) = "several" /\ EndSeeder(s, "failed")
  BY <1>1, <1>2, <1>3, EndSeederKeeps
<1>4. CASE ~(FindSource(s, f) = "several" /\ EndSeeder(s, "failed"))
  <2>1. seeder' = [seeder EXCEPT ![s].step = "document", ![s].made =
                IF FindSource(s, f) = "no source" THEN @ \cup {f} ELSE @] /\ UNCHANGED docHeld
    BY <1>4 DEF SourceFor
  <2>2. seeder' = [seeder EXCEPT ![s] = q] BY <2>1 DEF SeedInv, SeedTyped
  <2>3. made \subseteq CorpusFiles BY <1>1, SeederFacts
  <2> HIDE DEF made
  <2>4. /\ q.at = seeder[s].at /\ q.step = "document" /\ q.made = made /\ q.wrote = seeder[s].wrote
        /\ q \in SeederRec
    BY <2>3, SeederFacts DEF SeederRec
  <2> HIDE DEF q
  <2>5. SeederTyped(q) BY <1>1, <2>4 DEF SeederTyped, Over
  <2>6. ASSUME BeforeTheFirst
        PROVE  SeederBefore(q) /\ \A g \in FilesTo(q.at) : docHeld'[g] = s
    <3>1. SeederBefore(seeder[s]) /\ \A g \in FilesTo(seeder[s].at) : docHeld[g] = s
      BY <2>6 DEF BeforeTheFirst
    <3>2. seeder[s].made = FilesTo(seeder[s].at) /\ f \notin FilesTo(seeder[s].at)
      BY <1>1, <3>1, FilesFacts DEF SeederBefore, FoundBy
    <3>3. corpusSources[f] = 0 BY <1>1, <2>6 DEF BeforeTheFirst
    <3>4. FindSource(s, f) = "no source" BY <3>2, <3>3 DEF FindSource, SeesSources
    <3>5. q.made = FoundBy(q) BY <1>1, <2>4, <3>2, <3>4 DEF FoundBy, made
    <3> QED BY <2>1, <2>4, <3>1, <3>5 DEF SeederBefore
  <2>7. ASSUME AfterTheFirst PROVE SeederAfter(q)
    BY <1>1, <2>4, <2>7 DEF AfterTheFirst, SeedInv, SeedTyped, SeesSources, FindSource, made,
       SeederAfter
  <2>8. docHeld' = [g \in CorpusFiles |-> docHeld'[g]] BY <2>1 DEF SeedInv, SeedTyped
  <2> QED BY <1>1, <1>2, <2>1, <2>2, <2>4, <2>5, <2>6, <2>7, <2>8, SeederMoves
<1> QED BY <1>3, <1>4

\* A document that is stored is held; one that is not is to be inserted.
LEMMA FindDocumentKeeps ==
    ASSUME SeedInv, NEW s \in Seeders, FindDocument(s) PROVE SeedInv'
<1> DEFINE f == FileOf(s)
<1>1. seeder[s].step = "document" /\ seeder[s].at <= Len(Corpus)
      /\ UNCHANGED <<corpusSources, corpusRows, indexJobs>>
  BY DEF FindDocument, Before
<1>2. f \in CorpusFiles BY <1>1, SeederFacts
<1>3. CASE f \in corpusRows
  <2> DEFINE q == [seeder[s] EXCEPT !.step = "unchanged"]
  <2>1. docHeld' = [docHeld EXCEPT ![f] = s] /\ seeder' = [seeder EXCEPT ![s].step = "unchanged"]
    BY <1>3 DEF FindDocument
  <2>2. seeder' = [seeder EXCEPT ![s] = q] BY <2>1 DEF SeedInv, SeedTyped
  <2>3. /\ q.at = seeder[s].at /\ q.step = "unchanged" /\ q.made = seeder[s].made
        /\ q.wrote = seeder[s].wrote /\ q \in SeederRec
    BY SeederFacts DEF SeederRec
  <2> HIDE DEF q
  <2>4. SeederTyped(q) BY <1>1, <2>3, SeederFacts, CorpusFacts DEF SeederTyped, Over
  <2>5. ~BeforeTheFirst BY <1>3 DEF BeforeTheFirst
  <2>6. ASSUME AfterTheFirst PROVE SeederAfter(q) BY <2>3, <2>6 DEF AfterTheFirst, SeederAfter
  <2>7. docHeld' = [g \in CorpusFiles |-> docHeld'[g]] BY <2>1 DEF SeedInv, SeedTyped
  <2> QED BY <1>1, <2>2, <2>3, <2>4, <2>5, <2>6, <2>7, SeederMoves
<1>4. CASE f \notin corpusRows
  <2> DEFINE q == [seeder[s] EXCEPT !.step = "insert"]
  <2>1. seeder' = [seeder EXCEPT ![s].step = "insert"] /\ UNCHANGED docHeld
    BY <1>4 DEF FindDocument
  <2>2. seeder' = [seeder EXCEPT ![s] = q] BY <2>1 DEF SeedInv, SeedTyped
  <2>3. /\ q.at = seeder[s].at /\ q.step = "insert" /\ q.made = seeder[s].made
        /\ q.wrote = seeder[s].wrote /\ q \in SeederRec
    BY SeederFacts DEF SeederRec
  <2> HIDE DEF q
  <2>4. SeederTyped(q) BY <1>1, <2>3, SeederFacts, CorpusFacts DEF SeederTyped, Over
  <2>5. ~AfterTheFirst BY <1>2, <1>4 DEF AfterTheFirst
  <2>6. ASSUME BeforeTheFirst
        PROVE  SeederBefore(q) /\ \A g \in FilesTo(q.at) : docHeld'[g] = s
    BY <1>1, <2>1, <2>3, <2>6 DEF BeforeTheFirst, SeederBefore, FoundBy
  <2>7. docHeld' = [g \in CorpusFiles |-> docHeld'[g]] BY <2>1 DEF SeedInv, SeedTyped
  <2> QED BY <1>1, <2>1, <2>2, <2>3, <2>4, <2>5, <2>6, <2>7, SeederMoves
<1> QED BY <1>3, <1>4

\* Two sequences without repetition, and nothing in common, joined.
LEMMA Joined ==
    ASSUME NEW S, NEW a \in Seq(S), NEW b \in Seq(S), IsInjective(a), IsInjective(b),
           \A x \in ToSet(a) : x \notin ToSet(b)
    PROVE  /\ a \o b \in Seq(S) /\ IsInjective(a \o b)
           /\ ToSet(a \o b) = ToSet(a) \cup ToSet(b)
<1> DEFINE c == a \o b
<1>1. /\ c \in Seq(S) /\ Len(c) = Len(a) + Len(b) /\ Len(a) \in Nat /\ Len(b) \in Nat
      /\ DOMAIN a = 1..Len(a) /\ DOMAIN b = 1..Len(b) /\ DOMAIN c = 1..Len(c)
      /\ \A i \in 1..Len(c) : c[i] = IF i <= Len(a) THEN a[i] ELSE b[i - Len(a)]
  OBVIOUS
<1> HIDE DEF c
<1>2. /\ \A i \in 1..Len(a) : i \in 1..Len(c) /\ c[i] = a[i]
      /\ \A j \in 1..Len(b) : Len(a) + j \in 1..Len(c) /\ c[Len(a) + j] = b[j]
      /\ \A i \in 1..Len(c) : i \in 1..Len(a) \/ (i - Len(a) \in 1..Len(b) /\ i > Len(a))
  <2> DEFINE m == Len(a)
             n == Len(b)
  <2>1. m \in Nat /\ n \in Nat /\ Len(c) = m + n BY <1>1
  <2> HIDE DEF m, n
  <2>2. \A j \in 1..n : m + j \in 1..Len(c) /\ (m + j) - m = j /\ ~(m + j <= m) BY <2>1
  <2>3. \A i \in 1..m : i \in 1..Len(c) /\ i <= m BY <2>1
  <2>4. \A i \in 1..Len(c) : i \in 1..m \/ (i - m \in 1..n /\ i > m) BY <2>1
  <2>5. \A i \in 1..Len(c) : c[i] = IF i <= m THEN a[i] ELSE b[i - m] BY <1>1 DEF m
  <2>6. \A j \in 1..n : c[m + j] = b[j] BY <2>2, <2>5
  <2>7. \A i \in 1..m : c[i] = a[i] BY <2>3, <2>5
  <2> QED BY <2>2, <2>3, <2>4, <2>6, <2>7 DEF m, n
<1>3. \A i \in 1..Len(c) : i > Len(a) => c[i] = b[i - Len(a)] BY <1>1
<1>4. ToSet(c) = ToSet(a) \cup ToSet(b)
  <2>1. ToSet(c) \subseteq ToSet(a) \cup ToSet(b)
    <3> SUFFICES ASSUME NEW i \in 1..Len(c) PROVE c[i] \in ToSet(a) \cup ToSet(b)
      BY <1>1 DEF ToSet
    <3>1. CASE i \in 1..Len(a) BY <1>1, <1>2, <3>1 DEF ToSet
    <3>2. CASE i - Len(a) \in 1..Len(b) /\ i > Len(a) BY <1>1, <1>3, <3>2 DEF ToSet
    <3> QED BY <1>2, <3>1, <3>2
  <2>2. ToSet(a) \subseteq ToSet(c) BY <1>1, <1>2 DEF ToSet
  <2>3. ToSet(b) \subseteq ToSet(c) BY <1>1, <1>2 DEF ToSet
  <2> QED BY <2>1, <2>2, <2>3
<1>5. IsInjective(c)
  <2> SUFFICES ASSUME NEW i \in 1..Len(c), NEW j \in 1..Len(c), c[i] = c[j] PROVE i = j
    BY <1>1 DEF IsInjective
  <2>1. CASE i \in 1..Len(a) /\ j \in 1..Len(a) BY <1>1, <1>2, <2>1 DEF IsInjective
  <2>2. CASE i \notin 1..Len(a) /\ j \notin 1..Len(a)
    <3>1. i - Len(a) \in 1..Len(b) /\ j - Len(a) \in 1..Len(b) /\ b[i - Len(a)] = b[j - Len(a)]
      BY <1>2, <1>3, <2>2
    <3>2. i - Len(a) = j - Len(a) BY <1>1, <3>1 DEF IsInjective
    <3> QED BY <1>1, <3>2
  <2>3. ASSUME NEW x \in 1..Len(c), NEW y \in 1..Len(c), x \in 1..Len(a), y \notin 1..Len(a) PROVE c[x] # c[y]
    <3>1. c[x] \in ToSet(a) BY <1>1, <1>2, <2>3 DEF ToSet
    <3>2. c[y] \in ToSet(b) BY <1>1, <1>2, <1>3, <2>3 DEF ToSet
    <3> QED BY <3>1, <3>2
  <2> QED BY <2>1, <2>2, <2>3
<1> QED BY <1>1, <1>4, <1>5 DEF c

\* A document is inserted with its versions, or another's came first.
LEMMA InsertDocumentKeeps ==
    ASSUME SeedInv, NEW s \in Seeders, InsertDocument(s) PROVE SeedInv'
<1> DEFINE f == FileOf(s)
           more == [n \in 1..TextsOf[f] |-> <<f, n>>]
           q == [seeder[s] EXCEPT !.at = seeder[s].at + 1, !.step = "source", !.wrote = seeder[s].wrote \o more]
<1>1. /\ seeder[s].step = "insert" /\ seeder[s].at <= Len(Corpus) /\ seeder[s].at \in 1..Len(Corpus)
      /\ f \in CorpusFiles /\ f = Corpus[seeder[s].at] /\ docHeld[f] = "none"
      /\ UNCHANGED <<corpusSources, corpusRows, indexJobs>>
  BY SeederFacts DEF InsertDocument, Before, FileOf
<1>2. CASE ~MayInsert(f) BY <1>1, <1>2, EndSeederKeeps DEF InsertDocument
<1>3. CASE MayInsert(f)
  <2>1. /\ docHeld' = [docHeld EXCEPT ![f] = s]
        /\ seeder' = [seeder EXCEPT ![s].at = @ + 1, ![s].step = "source", ![s].wrote = @ \o more]
    BY <1>3 DEF InsertDocument
  <2>2. seeder' = [seeder EXCEPT ![s] = q] BY <2>1 DEF SeedInv, SeedTyped
  <2>3. ~AfterTheFirst /\ BeforeTheFirst BY <1>1, <1>3 DEF AfterTheFirst, MayInsert, SeedInv
  <2>4. SeederBefore(seeder[s]) /\ \A g \in FilesTo(seeder[s].at) : docHeld[g] = s
    BY <2>3 DEF BeforeTheFirst
  <2>5. /\ more \in Seq(VersionsOf(CorpusFiles)) /\ IsInjective(more)
        /\ ToSet(more) = {<<f, n>> : n \in 1..TextsOf[f]}
    <3>1. TextsOf[f] \in Nat BY <1>1, CorpusFacts
    <3>2. \A n \in 1..TextsOf[f] : <<f, n>> \in VersionsOf(CorpusFiles) BY <1>1 DEF VersionsOf
    <3> HIDE DEF f
    <3>3. more \in Seq(VersionsOf(CorpusFiles)) BY <3>1, <3>2
    <3> QED BY <3>3 DEF IsInjective, ToSet
  <2>6. seeder[s].wrote \in Seq(VersionsOf(CorpusFiles)) /\ IsInjective(seeder[s].wrote)
        /\ ToSet(seeder[s].wrote) = VersionsOf(FilesTo(seeder[s].at))
    BY <2>4, SeederFacts DEF SeederBefore
  <2>7. FilesTo(seeder[s].at + 1) = FilesTo(seeder[s].at) \cup {f} /\ f \notin FilesTo(seeder[s].at)
    BY <1>1, FilesFacts
  <2>8. \A x \in ToSet(seeder[s].wrote) : x \notin ToSet(more) BY <2>5, <2>6, <2>7, VersionFacts
  <2> HIDE DEF more
  <2> DEFINE wrote == seeder[s].wrote \o more
  <2>9. wrote \in Seq(VersionsOf(CorpusFiles)) /\ IsInjective(wrote)
        /\ ToSet(wrote) = VersionsOf(FilesTo(seeder[s].at + 1))
    <3>1. wrote \in Seq(VersionsOf(CorpusFiles)) /\ IsInjective(wrote)
          /\ ToSet(wrote) = ToSet(seeder[s].wrote) \cup ToSet(more)
      BY <2>5, <2>6, <2>8, Joined
    <3>2. VersionsOf(FilesTo(seeder[s].at + 1))
            = VersionsOf(FilesTo(seeder[s].at)) \cup {<<f, n>> : n \in 1..TextsOf[f]}
      <4>1. \A A, g : VersionsOf(A \cup {g}) = VersionsOf(A) \cup {<<g, n>> : n \in 1..TextsOf[g]}
        BY VersionFacts
      <4> HIDE DEF f
      <4>2. VersionsOf(FilesTo(seeder[s].at) \cup {f})
              = VersionsOf(FilesTo(seeder[s].at)) \cup {<<f, n>> : n \in 1..TextsOf[f]}
        BY <4>1
      <4> QED BY <2>7, <4>2
    <3> QED BY <2>5, <2>6, <3>1, <3>2
  <2> HIDE DEF wrote
  <2>10. seeder[s].at + 1 \in 1..(Len(Corpus) + 1) BY <1>1, OneFileOn
  <2>11. /\ q.at = seeder[s].at + 1 /\ q.step = "source" /\ q.made = seeder[s].made /\ q.wrote = wrote
         /\ q \in SeederRec
    BY <2>9, <2>10, SeederFacts DEF SeederRec, wrote
  <2> HIDE DEF q
  <2>12. SeederTyped(q) BY <2>11 DEF SeederTyped, Over
  <2>13. q.made = FoundBy(q) BY <1>1, <2>4, <2>7, <2>11 DEF SeederBefore, FoundBy
  <2>14. SeederBefore(q) BY <2>9, <2>11, <2>13 DEF SeederBefore
  <2>15. docHeld' = [g \in CorpusFiles |-> IF g = f THEN s ELSE docHeld[g]]
    BY <2>1 DEF SeedInv, SeedTyped
  <2>16. \A g \in FilesTo(q.at) : docHeld'[g] = s BY <2>4, <2>7, <2>10, <2>11, <2>15, FilesFacts
  <2>17. \A x \in Seeders \ {s}, g \in CorpusFiles : docHeld[g] = x => docHeld'[g] = x
    BY <1>1, <2>15, SeedingAssumption
  <2>18. docHeld' = [g \in CorpusFiles |-> docHeld'[g]] BY <2>15
  <2> HIDE DEF f
  <2> QED BY <1>1, <2>2, <2>3, <2>11, <2>12, <2>14, <2>16, <2>17, <2>18, SeederMoves
<1> QED BY <1>2, <1>3

\* A version of before is passed.
LEMMA UnchangedKeeps ==
    ASSUME SeedInv, NEW s \in Seeders, Unchanged(s) PROVE SeedInv'
<1> DEFINE q == [seeder[s] EXCEPT !.at = seeder[s].at + 1, !.step = "source"]
<1>1. /\ seeder[s].step = "unchanged" /\ seeder[s].at <= Len(Corpus) /\ seeder[s].at \in 1..Len(Corpus)
      /\ UNCHANGED <<corpusSources, corpusRows, indexJobs, docHeld>>
  BY SeederFacts DEF Unchanged, Before
<1>2. seeder' = [seeder EXCEPT ![s] = q] BY DEF Unchanged, SeedInv, SeedTyped
<1>3. seeder[s].at + 1 \in 1..(Len(Corpus) + 1) BY <1>1, OneFileOn
<1>4. /\ q.step = "source" /\ q.made = seeder[s].made /\ q.wrote = seeder[s].wrote /\ q \in SeederRec
  BY <1>3, SeederFacts DEF SeederRec
<1> HIDE DEF q
<1>5. SeederTyped(q) BY <1>4 DEF SeederTyped, Over
<1>6. ~BeforeTheFirst BY <1>1 DEF BeforeTheFirst, SeederBefore
<1>7. ASSUME AfterTheFirst PROVE SeederAfter(q) BY <1>4, <1>7 DEF AfterTheFirst, SeederAfter
<1>8. docHeld' = [g \in CorpusFiles |-> docHeld'[g]] BY <1>1 DEF SeedInv, SeedTyped
<1> QED BY <1>1, <1>2, <1>4, <1>5, <1>6, <1>7, <1>8, SeederMoves

\* A transaction that failed may begin again.
LEMMA SeedAgainKeeps ==
    ASSUME SeedInv, NEW s \in Seeders, SeedAgain(s) PROVE SeedInv'
<1> DEFINE q == [NewSeeder EXCEPT !.step = "source"]
<1>1. SeederTyped(q) /\ SeederAfter(q) /\ SeederBefore(q) /\ q.step = "source" /\ FilesTo(q.at) = {}
  BY NewSeederTyped
<1>2. NewSeeder = q BY DEF NewSeeder
<1>3. /\ seeder[s].step = "failed" /\ seeder' = [seeder EXCEPT ![s] = q]
      /\ UNCHANGED <<corpusSources, corpusRows, indexJobs, docHeld>>
  BY <1>2 DEF SeedAgain
<1> HIDE DEF q
<1>4. docHeld' = [g \in CorpusFiles |-> docHeld'[g]] BY <1>3 DEF SeedInv, SeedTyped
<1> QED BY <1>1, <1>3, <1>4, SeederMoves

\* The jobs of a sequence of versions, in its order.
LEMMA JobsOfVersions ==
    ASSUME NEW w \in Seq(VersionsOf(CorpusFiles))
    PROVE  LET jobs == [i \in DOMAIN w |-> IndexJob(w[i])] IN
           /\ jobs \in Seq(IndexRec) /\ DOMAIN jobs = DOMAIN w /\ Len(jobs) = Len(w)
           /\ \A i \in DOMAIN w : /\ jobs[i].of = w[i] /\ jobs[i].status = "queued"
                                  /\ jobs[i].attempts = 0
<1> DEFINE jobs == [i \in DOMAIN w |-> IndexJob(w[i])]
<1>1. DOMAIN w = 1..Len(w) /\ Len(w) \in Nat /\ \A i \in 1..Len(w) : w[i] \in VersionsOf(CorpusFiles)
  OBVIOUS
<1>2. \A v \in VersionsOf(CorpusFiles) : /\ IndexJob(v) \in IndexRec /\ IndexJob(v).of = v
                                         /\ IndexJob(v).status = "queued" /\ IndexJob(v).attempts = 0
  BY DEF IndexJob, IndexRec
<1>3. jobs = [i \in 1..Len(w) |-> IndexJob(w[i])] BY <1>1
<1>4. jobs \in Seq(IndexRec) /\ Len(jobs) = Len(w) BY <1>1, <1>2, <1>3
<1> QED BY <1>1, <1>2, <1>4

\* A commit stores the whole corpus, or a second source of its first file.
LEMMA CommitSeedKeeps ==
    ASSUME SeedInv, indexJobs \in Seq(IndexRec), NEW s \in Seeders, CommitSeed(s) PROVE SeedInv'
<1> DEFINE q == [NewSeeder EXCEPT !.step = "seeded"]
           w == seeder[s].wrote
           jobs == [i \in DOMAIN w |-> IndexJob(w[i])]
           done == {x \in Seeders : seeder[x].step = "seeded"}
<1>1. /\ seeder[s].at > Len(Corpus) /\ seeder[s].at = Len(Corpus) + 1 /\ seeder[s].step = "source"
      /\ w \in Seq(VersionsOf(CorpusFiles))
  <2>1. seeder[s].at > Len(Corpus) BY DEF CommitSeed
  <2>2. seeder[s].at \in 1..(Len(Corpus) + 1) /\ w \in Seq(VersionsOf(CorpusFiles)) /\ SeederTyped(seeder[s])
    BY SeederFacts
  <2>3. seeder[s].at = Len(Corpus) + 1 BY <2>1, <2>2, CorpusFacts
  <2> QED BY <2>1, <2>2, <2>3 DEF SeederTyped
<1>2. /\ corpusSources' = [f \in CorpusFiles |-> corpusSources[f] + (IF f \in seeder[s].made THEN 1 ELSE 0)]
      /\ corpusRows' = corpusRows \cup {v[1] : v \in ToSet(w)}
      /\ indexJobs' = indexJobs \o jobs
      /\ seeder' = [seeder EXCEPT ![s] = q]
      /\ docHeld' = [f \in CorpusFiles |-> IF docHeld[f] = s THEN "none" ELSE docHeld[f]]
  BY DEF CommitSeed, EndSeeder
<1>3. SeederTyped(q) /\ SeederAfter(q) /\ q.step = "seeded" BY NewSeederTyped
<1> HIDE DEF q
<1>4. seeder' = [x \in Seeders |-> IF x = s THEN q ELSE seeder[x]]
  BY <1>2 DEF SeedInv, SeedTyped
<1>5. SeedTyped'
  <2>1. corpusSources' \in [CorpusFiles -> Nat] BY <1>2 DEF SeedInv, SeedTyped
  <2>2. docHeld' = [f \in CorpusFiles |-> docHeld'[f]] BY <1>2
  <2>3. \A x \in Seeders : SeederTyped(seeder'[x]) BY <1>3, <1>4 DEF SeedInv, SeedTyped
  <2>4. seeder' = [x \in Seeders |-> seeder'[x]] BY <1>4
  <2> QED BY <2>1, <2>2, <2>3, <2>4 DEF SeedTyped, SeederTyped
<1>6. /\ {x \in Seeders : seeder'[x].step = "seeded"} = done \cup {s} /\ s \notin done
      /\ Cardinality(done \cup {s}) = Cardinality(done) + 1 /\ Cardinality(done) \in Nat
  <2>1. {x \in Seeders : seeder'[x].step = "seeded"} = done \cup {s} /\ s \notin done
    BY <1>1, <1>3, <1>4
  <2>2. IsFiniteSet(done) BY SeedingAssumption, FS_Subset
  <2> QED BY <2>1, <2>2, FS_AddElement, FS_CardinalityType
<1>7. CASE BeforeTheFirst
  <2>1. FilesTo(seeder[s].at) = CorpusFiles BY <1>1, FilesFacts
  <2>2. /\ seeder[s].made = CorpusFiles /\ IsInjective(w) /\ ToSet(w) = VersionsOf(CorpusFiles)
        /\ \A f \in CorpusFiles : docHeld[f] = s
    BY <1>1, <1>7, <2>1 DEF BeforeTheFirst, SeederBefore, FoundBy
  <2>3. \A f \in CorpusFiles : corpusSources'[f] = 1 BY <1>2, <1>7, <2>2 DEF BeforeTheFirst
  <2>4. corpusRows' = CorpusFiles BY <1>2, <1>7, <2>2, VersionFacts DEF BeforeTheFirst
  <2>5. indexJobs' = jobs
    <3>1. jobs \in Seq(IndexRec) BY <1>1, JobsOfVersions
    <3> HIDE DEF jobs
    <3> QED BY <1>2, <1>7, <3>1 DEF BeforeTheFirst
  <2>6. ASSUME NEW x \in Seeders PROVE SeederAfter(seeder'[x])
    <3>1. CASE x = s BY <1>3, <1>4, <3>1
    <3>2. CASE x # s
      <4>1. SeederBefore(seeder[x]) /\ \A f \in FilesTo(seeder[x].at) : docHeld[f] = x
        BY <1>7 DEF BeforeTheFirst
      <4>2. seeder[x].at \in 1..(Len(Corpus) + 1) /\ Corpus[1] \in CorpusFiles
        <5>1. seeder[x].at \in 1..(Len(Corpus) + 1) BY SeederFacts
        <5>2. 1 \in 1..Len(Corpus) BY CorpusFacts
        <5> QED BY <5>1, <5>2, CorpusFacts
      <4>3. ~(seeder[x].at > 1) BY <2>2, <3>2, <4>1, <4>2, FilesFacts
      <4>4. seeder[x].at = 1
        <5> DEFINE at == seeder[x].at
                   n == Len(Corpus)
        <5>1. at \in 1..(n + 1) /\ n \in Nat /\ ~(at > 1) BY <4>2, <4>3, CorpusFacts
        <5> HIDE DEF at, n
        <5>2. at = 1 BY <5>1
        <5> QED BY <5>2 DEF at
      <4>5. FilesTo(seeder[x].at) = {} BY <4>4, FilesFacts
      <4>6. ToSet(seeder[x].wrote) = {} /\ seeder[x].wrote \in Seq(VersionsOf(CorpusFiles))
        BY <4>1, <4>5, VersionFacts, SeederFacts DEF SeederBefore
      <4>7. seeder[x].wrote = <<>>
        <5> DEFINE u == seeder[x].wrote
        <5>1. u \in Seq(VersionsOf(CorpusFiles)) /\ \A i \in DOMAIN u : FALSE BY <4>6 DEF ToSet
        <5> HIDE DEF u
        <5>2. Len(u) \in Nat /\ DOMAIN u = 1..Len(u) BY <5>1
        <5>3. ~(1 \in 1..Len(u)) BY <5>1, <5>2
        <5>4. Len(u) = 0 BY <5>2, <5>3
        <5> QED BY <5>1, <5>4 DEF u
      <4>8. seeder[x].made \subseteq {Corpus[1]} BY <4>1, <4>4, <4>5 DEF SeederBefore, FoundBy
      <4> QED BY <1>4, <3>2, <4>7, <4>8 DEF SeederAfter
    <3> QED BY <3>1, <3>2
  <2>7. AfterTheFirst' BY <2>3, <2>4, <2>6 DEF AfterTheFirst, SeederAfter
  <2>8. SourcesNearlyOnce'
    <3>1. Corpus[1] \in CorpusFiles BY CorpusFacts
    <3> HIDE DEF done
    <3>2. corpusSources'[Corpus[1]] <= Cardinality({x \in Seeders : seeder'[x].step = "seeded"})
      <4> DEFINE n == Cardinality({x \in Seeders : seeder'[x].step = "seeded"})
                 m == Cardinality(done)
      <4>1. n = m + 1 /\ m \in Nat BY <1>6
      <4>2. corpusSources'[Corpus[1]] = 1 BY <2>3, <3>1
      <4> HIDE DEF n, m
      <4>3. 1 <= n BY <4>1
      <4> QED BY <4>2, <4>3 DEF n
    <3>3. \A f \in CorpusFiles : corpusSources'[f] > 0 <=> f \in corpusRows' BY <2>3, <2>4
    <3>4. \A f \in CorpusFiles \ {Corpus[1]} : corpusSources'[f] <= 1 BY <2>3
    <3> QED BY <3>2, <3>3, <3>4 DEF SourcesNearlyOnce
  <2>9. IndexedOnce'
    <3>1. DOMAIN jobs = DOMAIN w /\ \A i \in DOMAIN w : jobs[i].of = w[i]
      BY <1>1, JobsOfVersions
    <3> HIDE DEF jobs, w
    <3>2. \A i, j \in DOMAIN jobs : jobs[i].of = jobs[j].of => i = j
      BY <2>2, <3>1 DEF IsInjective
    <3>3. {jobs[j].of : j \in DOMAIN jobs} = ToSet(w) BY <3>1 DEF ToSet
    <3>4. ToSet(w) = UNION {{<<f, n>> : n \in 1..TextsOf[f]} : f \in CorpusFiles}
      BY <2>2 DEF VersionsOf
    <3> QED BY <2>4, <2>5, <3>2, <3>3, <3>4 DEF IndexedOnce
  <2> QED BY <1>5, <2>7, <2>8, <2>9 DEF SeedInv
<1>8. CASE AfterTheFirst
  <2>1. seeder[s].made \subseteq {Corpus[1]} /\ w = <<>> BY <1>8 DEF AfterTheFirst, SeederAfter
  <2>2. corpusRows' = corpusRows BY <1>2, <2>1 DEF ToSet
  <2>3. indexJobs' = indexJobs
    <3>1. jobs \in Seq(IndexRec) /\ Len(jobs) = 0 BY <1>1, <2>1, JobsOfVersions
    <3> HIDE DEF jobs
    <3>2. jobs = <<>> BY <3>1
    <3> QED BY <1>2, <3>2
  <2>4. \A f \in CorpusFiles : /\ corpusSources[f] \in Nat /\ corpusSources[f] > 0
                               /\ corpusSources'[f] > 0
                               /\ f # Corpus[1] => corpusSources'[f] = corpusSources[f]
                               /\ corpusSources'[f] <= corpusSources[f] + 1
    BY <1>2, <1>8, <2>1 DEF AfterTheFirst, SeedInv, SeedTyped
  <2>5. \A x \in Seeders : SeederAfter(seeder'[x]) BY <1>3, <1>4, <1>8 DEF AfterTheFirst
  <2>6. AfterTheFirst' BY <1>8, <2>2, <2>4, <2>5 DEF AfterTheFirst, SeederAfter
  <2>7. SourcesNearlyOnce'
    <3>1. Corpus[1] \in CorpusFiles /\ corpusRows = CorpusFiles /\ corpusRows # {}
      BY <1>8, CorpusFacts DEF AfterTheFirst
    <3>2. corpusSources[Corpus[1]] <= Cardinality(done) BY <3>1 DEF SeedInv, SourcesNearlyOnce
    <3>3. \A f \in CorpusFiles \ {Corpus[1]} : corpusSources[f] <= 1
      BY DEF SeedInv, SourcesNearlyOnce
    <3> HIDE DEF done
    <3>4. corpusSources'[Corpus[1]] \in Nat /\ corpusSources'[Corpus[1]] <= Cardinality(done) + 1
      BY <1>5, <1>6, <2>4, <3>1, <3>2 DEF SeedTyped
    <3> QED BY <1>6, <2>2, <2>4, <3>1, <3>3, <3>4 DEF SourcesNearlyOnce
  <2>8. IndexedOnce' BY <2>2, <2>3 DEF SeedInv, IndexedOnce
  <2> QED BY <1>5, <2>6, <2>7, <2>8 DEF SeedInv
<1> QED BY <1>7, <1>8 DEF SeedInv

\* What the drain and the notes do leaves what the seeders stored.
LEMMA OthersKeepSeeds ==
    ASSUME SeedInv, UNCHANGED seedRows, DOMAIN indexJobs' = DOMAIN indexJobs,
           indexJobs = <<>> => indexJobs' = <<>>,
           \A j \in DOMAIN indexJobs : indexJobs'[j].of = indexJobs[j].of
    PROVE  SeedInv'
<1>1. SeedTyped' BY DEF SeedInv, SeedTyped, seedRows
<1>2. BeforeTheFirst => BeforeTheFirst' BY DEF BeforeTheFirst, seedRows
<1>3. AfterTheFirst => AfterTheFirst' BY DEF AfterTheFirst, seedRows
<1>4. SourcesNearlyOnce' BY DEF SeedInv, SourcesNearlyOnce, seedRows
<1>5. IndexedOnce' BY DEF SeedInv, IndexedOnce, seedRows
<1> QED BY <1>1, <1>2, <1>3, <1>4, <1>5 DEF SeedInv

-----------------------------------------------------------------------------
\* The drain has not begun.
LEMMA DrainInvInit == SeedingInit => DrainInv
<1> SUFFICES ASSUME SeedingInit PROVE DrainInv OBVIOUS
<1>1. indexJobs = <<>> /\ drainer = [step |-> "idle", job |-> 0, processed |-> 0, ran |-> <<>>]
  BY DEF SeedingInit
<1>2. drainer \in DrainerRec /\ drainer.step = "idle" /\ drainer.ran = <<>>
  BY <1>1 DEF DrainerRec
<1> QED BY <1>1, <1>2 DEF DrainInv

\* The drain has not begun while a seeder is at work, so that nothing of it moves.
LEMMA SeedersBeforeDrain ==
    ASSUME DrainInv, UNCHANGED <<indexJobs, drainer>>, drainer.step = "idle"
    PROVE  DrainInv'
BY DEF DrainInv, Drained, QueuedIndexes

\* While a transaction seeds, the drain has not begun.
LEMMA SeederAtWork ==
    ASSUME DrainInv, NEW s \in Seeders, ~Over(seeder[s])
    PROVE  drainer.step = "idle"
BY DEF DrainInv

\* What notes do leaves the drain.
LEMMA SameDrain ==
    ASSUME DrainInv, UNCHANGED <<seedRows, indexJobs, drainer>>
    PROVE  DrainInv'
BY DEF DrainInv, Drained, QueuedIndexes, seedRows, Over

\* New jobs at the end are queued and were never run.
LEMMA Appended ==
    ASSUME NEW a \in Seq(IndexRec), NEW b \in Seq(IndexRec), NEW c \in Seq(Nat), NEW d \in Seq(Nat),
           Len(c) = Len(a), Len(b) = Len(d),
           \A i \in 1..Len(d) : b[i].status = "queued" /\ b[i].attempts = 0 /\ d[i] = 0
    PROVE  /\ a \o b \in Seq(IndexRec) /\ c \o d \in Seq(Nat) /\ Len(c \o d) = Len(a \o b)
           /\ DOMAIN (a \o b) = 1..Len(a \o b)
           /\ \A j \in DOMAIN (a \o b) :
                IF j \in DOMAIN a THEN (a \o b)[j] = a[j] /\ (c \o d)[j] = c[j]
                ELSE /\ (a \o b)[j].status = "queued" /\ (a \o b)[j].attempts = 0
                     /\ (c \o d)[j] = 0
<1> DEFINE n == Len(a)
           m == Len(b)
<1>1. n \in Nat /\ m \in Nat /\ DOMAIN a = 1..n /\ a \o b \in Seq(IndexRec) /\ c \o d \in Seq(Nat)
  OBVIOUS
<1>2. Len(a \o b) = n + m /\ DOMAIN (a \o b) = 1..(n + m)
  <2>1. Len(a \o b) = n + m BY ConcatProperties
  <2> QED BY <1>1, <2>1
<1>8. Len(c) = n /\ Len(d) = m OBVIOUS
<1>9. Len(c \o d) = n + m
  <2>1. Len(c \o d) = Len(c) + Len(d) BY ConcatProperties
  <2> QED BY <1>8, <2>1
<1>3. \A j \in 1..(n + m) : (a \o b)[j] = IF j <= n THEN a[j] ELSE b[j - n] OBVIOUS
<1>4. \A j \in 1..(n + m) : (c \o d)[j] = IF j <= n THEN c[j] ELSE d[j - n]
  <2>1. \A j \in 1..(Len(c) + Len(d)) : (c \o d)[j] = IF j <= Len(c) THEN c[j] ELSE d[j - Len(c)]
    BY ConcatProperties
  <2> QED BY <1>8, <2>1
<1>5. \A i \in 1..m : b[i].status = "queued" /\ b[i].attempts = 0 /\ d[i] = 0 OBVIOUS
<1> HIDE DEF n, m
<1>6. ASSUME NEW j \in 1..(n + m), j \in 1..n PROVE (a \o b)[j] = a[j] /\ (c \o d)[j] = c[j]
  BY <1>1, <1>3, <1>4, <1>6
<1>7. ASSUME NEW j \in 1..(n + m), j \notin 1..n
      PROVE  (a \o b)[j].status = "queued" /\ (a \o b)[j].attempts = 0 /\ (c \o d)[j] = 0
  <2>1. ~(j <= n) /\ j - n \in 1..m BY <1>1, <1>7
  <2> QED BY <1>3, <1>4, <1>5, <2>1
<1> QED BY <1>1, <1>2, <1>6, <1>7, <1>9

\* A commit adds jobs that were never run.
LEMMA CommitDrainKeeps ==
    ASSUME SeedInv, DrainInv, NEW s \in Seeders, CommitSeed(s) PROVE DrainInv'
<1> DEFINE w == seeder[s].wrote
           jobs == [i \in DOMAIN w |-> IndexJob(w[i])]
           zeros == [i \in DOMAIN w |-> 0]
<1>1. w \in Seq(VersionsOf(CorpusFiles)) /\ SeederTyped(seeder[s]) BY SeederFacts
<1>2. drainer.step = "idle" BY <1>1, SeederAtWork DEF CommitSeed, SeederTyped, Over
<1>3. indexJobs' = indexJobs \o jobs /\ drainer' = [drainer EXCEPT !.ran = drainer.ran \o zeros]
  BY DEF CommitSeed
<1>4. /\ jobs \in Seq(IndexRec) /\ Len(jobs) = Len(w)
      /\ \A i \in 1..Len(w) : jobs[i].status = "queued" /\ jobs[i].attempts = 0
  BY <1>1, JobsOfVersions
<1>5. zeros \in Seq(Nat) /\ Len(zeros) = Len(w) /\ \A i \in 1..Len(w) : zeros[i] = 0 BY <1>1
<1>6. /\ indexJobs \in Seq(IndexRec) /\ drainer \in DrainerRec /\ drainer.ran \in Seq(Nat)
      /\ Len(drainer.ran) = Len(indexJobs)
  BY DEF DrainInv, DrainerRec
<1> HIDE DEF jobs, zeros, w
<1> DEFINE ran == drainer.ran \o zeros
           all == indexJobs \o jobs
<1>7. /\ all \in Seq(IndexRec) /\ ran \in Seq(Nat) /\ Len(ran) = Len(all)
      /\ DOMAIN all = 1..Len(all)
      /\ \A j \in DOMAIN all :
            IF j \in DOMAIN indexJobs THEN all[j] = indexJobs[j] /\ ran[j] = drainer.ran[j]
            ELSE all[j].status = "queued" /\ all[j].attempts = 0 /\ ran[j] = 0
  <2>1. Len(jobs) = Len(zeros) /\ \A i \in 1..Len(zeros) :
            jobs[i].status = "queued" /\ jobs[i].attempts = 0 /\ zeros[i] = 0
    BY <1>4, <1>5
  <2> QED BY <1>4, <1>5, <1>6, <2>1, Appended
<1>8. drainer' \in DrainerRec /\ drainer'.ran = ran /\ drainer'.step = "idle"
  BY <1>2, <1>3, <1>6, <1>7 DEF DrainerRec
<1>9. indexJobs' = all BY <1>3
<1> HIDE DEF ran, all
<1>10. ASSUME NEW j \in DOMAIN indexJobs' PROVE Drained(j)'
  <2>1. CASE j \in DOMAIN indexJobs BY <1>2, <1>7, <1>8, <1>9, <2>1 DEF DrainInv, Drained
  <2>2. CASE j \notin DOMAIN indexJobs BY <1>7, <1>8, <1>9, <2>2 DEF Drained
  <2> QED BY <2>1, <2>2
<1> QED BY <1>7, <1>8, <1>9, <1>10 DEF DrainInv

\* The drain at a job: every other stays as it was.
LEMMA DrainStartKeeps ==
    ASSUME DrainInv, DrainStart PROVE DrainInv'
BY DEF DrainStart, Over, DrainInv, DrainerRec, Drained, seedRows

\* A job that was run once and is not one that always fails is no longer queued.
LEMMA DrainClaimKeeps ==
    ASSUME DrainInv, DrainClaim PROVE DrainInv'
<1>1. PICK j \in QueuedIndexes : drainer' = [drainer EXCEPT !.step = "running", !.job = j, !.ran[j] = @ + 1]
  BY DEF DrainClaim
<1>2. drainer.step = "looking" /\ UNCHANGED <<seedRows, indexJobs>> BY DEF DrainClaim
<1>3. /\ j \in DOMAIN indexJobs /\ indexJobs[j].status = "queued" /\ j \in Nat /\ j \in DOMAIN drainer.ran
      /\ drainer.ran \in Seq(Nat) /\ drainer \in DrainerRec
  BY DEF QueuedIndexes, DrainInv, DrainerRec
<1> DEFINE ran == [drainer.ran EXCEPT ![j] = @ + 1]
<1>4. ran \in Seq(Nat) /\ Len(ran) = Len(drainer.ran)
      /\ \A i \in DOMAIN drainer.ran : ran[i] = IF i = j THEN drainer.ran[j] + 1 ELSE drainer.ran[i]
  BY <1>3, ExceptSeq
<1>5. drainer' = [drainer EXCEPT !.step = "running", !.job = j, !.ran = ran]
  BY <1>1, <1>3 DEF DrainerRec
<1> HIDE DEF ran
<1>6. drainer' \in DrainerRec /\ drainer'.step = "running" /\ drainer'.job = j /\ drainer'.ran = ran
  BY <1>3, <1>4, <1>5 DEF DrainerRec
<1>7. ASSUME NEW i \in DOMAIN indexJobs PROVE Drained(i)'
  <2>1. Drained(i) /\ i \in DOMAIN drainer.ran BY DEF DrainInv, DrainerRec
  <2>2. CASE i = j BY <1>2, <1>3, <1>4, <1>6, <2>1, <2>2 DEF Drained
  <2>3. CASE i # j BY <1>2, <1>4, <1>6, <2>1, <2>3 DEF Drained
  <2> QED BY <2>2, <2>3
<1> QED BY <1>2, <1>3, <1>4, <1>6, <1>7 DEF DrainInv, seedRows, Over

\* The drain ends when nothing is queued or at its limit.
LEMMA DrainDoneKeeps ==
    ASSUME DrainInv, DrainDone PROVE DrainInv'
BY DEF DrainDone, DrainInv, DrainerRec, Drained, seedRows, Over, QueuedIndexes

\* A job that was run has its end, and the drain looks for the next.
LEMMA RunEnds ==
    ASSUME DrainInv, drainer.step = "running", DrainNext, UNCHANGED seedRows,
           NEW job \in IndexRec, indexJobs' = [indexJobs EXCEPT ![drainer.job] = job],
           job.of = indexJobs[drainer.job].of,
           job.of[1] \in AlwaysFails => job.status = "queued" /\ job.attempts = 0,
           job.of[1] \notin AlwaysFails => job.status # "queued"
    PROVE  DrainInv'
<1> DEFINE j == drainer.job
<1>1. j \in DOMAIN indexJobs /\ indexJobs \in Seq(IndexRec) /\ drainer \in DrainerRec
  BY DEF DrainInv
<1>2. /\ indexJobs' \in Seq(IndexRec) /\ Len(indexJobs') = Len(indexJobs)
      /\ DOMAIN indexJobs' = DOMAIN indexJobs
      /\ \A i \in DOMAIN indexJobs : indexJobs'[i] = IF i = j THEN job ELSE indexJobs[i]
  BY <1>1, ExceptSeq
<1>3. /\ drainer' \in DrainerRec /\ drainer'.step = "looking" /\ drainer'.ran = drainer.ran
  <2>1. drainer.processed + 1 \in Nat BY <1>1 DEF DrainerRec
  <2>2. drainer' = [drainer EXCEPT !.step = "looking", !.processed = drainer.processed + 1]
    BY DEF DrainNext
  <2> QED BY <1>1, <2>1, <2>2 DEF DrainerRec
<1> HIDE DEF j
<1>4. ASSUME NEW i \in DOMAIN indexJobs PROVE Drained(i)'
  <2>1. Drained(i) BY DEF DrainInv
  <2>2. CASE i = j BY <1>2, <1>3, <2>1, <2>2 DEF Drained, j
  <2>3. CASE i # j BY <1>2, <1>3, <2>1, <2>3 DEF j, Drained
  <2> QED BY <2>2, <2>3
<1> QED BY <1>2, <1>3, <1>4 DEF DrainInv, seedRows, Over

\* A job that succeeded is not queued again.
LEMMA DrainCompleteKeeps ==
    ASSUME DrainInv, DrainComplete PROVE DrainInv' /\ DOMAIN indexJobs' = DOMAIN indexJobs
            /\ \A i \in DOMAIN indexJobs : indexJobs'[i].of = indexJobs[i].of
<1> DEFINE j == drainer.job
           job == [indexJobs[j] EXCEPT !.status = "succeeded", !.attempts = indexJobs[j].attempts + 1]
<1>1. j \in DOMAIN indexJobs /\ indexJobs \in Seq(IndexRec) /\ indexJobs[j] \in IndexRec
  BY DEF DrainInv, DrainComplete
<1>2. job \in IndexRec /\ job.of = indexJobs[j].of /\ job.status = "succeeded"
  <2>1. indexJobs[j].attempts + 1 \in Nat BY <1>1 DEF IndexRec
  <2> QED BY <1>1, <2>1 DEF IndexRec
<1>3. indexJobs' = [indexJobs EXCEPT ![j] = job] BY <1>1 DEF DrainComplete
<1>4. indexJobs[j].of[1] \notin AlwaysFails /\ drainer.step = "running" /\ DrainNext /\ UNCHANGED seedRows
  BY DEF DrainComplete
<1> HIDE DEF job
<1>5. DrainInv' BY <1>2, <1>3, <1>4, RunEnds
<1>6. DOMAIN indexJobs' = DOMAIN indexJobs /\ \A i \in DOMAIN indexJobs : indexJobs'[i].of = indexJobs[i].of
  BY <1>1, <1>2, <1>3
<1> QED BY <1>5, <1>6

\* A job that always fails is queued with the attempts it had, a refused one has failed.
LEMMA DrainFailKeeps ==
    ASSUME DrainInv, DrainFail PROVE DrainInv' /\ DOMAIN indexJobs' = DOMAIN indexJobs
            /\ \A i \in DOMAIN indexJobs : indexJobs'[i].of = indexJobs[i].of
<1> DEFINE j == drainer.job
           st == IF DrainRetries(j) THEN "queued"
                 ELSE IF indexJobs[j].of[1] \in AlwaysRefused THEN "failed" ELSE "dead"
           due == drainer.processed + 1
           job == [indexJobs[j] EXCEPT !.status = st, !.due = due]
<1>1. /\ j \in DOMAIN indexJobs /\ indexJobs \in Seq(IndexRec) /\ indexJobs[j] \in IndexRec
      /\ drainer.processed \in Nat /\ Drained(j)
  BY DEF DrainInv, DrainFail, DrainerRec
<1>2. /\ indexJobs[j].of[1] \in AlwaysFails \cup AlwaysRefused /\ drainer.step = "running"
      /\ DrainNext /\ UNCHANGED seedRows
      /\ indexJobs' = [indexJobs EXCEPT ![j].status = st, ![j].due = due]
  BY DEF DrainFail
<1>3. st \in {"queued", "failed", "dead"} /\ due \in Nat BY <1>1
<1>4. indexJobs[j].of[1] \in AlwaysFails => st = "queued" /\ indexJobs[j].attempts = 0
  BY <1>1, SeedingAssumption DEF Drained, DrainRetries
<1>5. indexJobs[j].of[1] \notin AlwaysFails => st = "failed" BY <1>2 DEF DrainRetries
<1> HIDE DEF st, due
<1>6. job \in IndexRec /\ job.of = indexJobs[j].of /\ job.status = st /\ job.attempts = indexJobs[j].attempts
  BY <1>1, <1>3 DEF IndexRec
<1>7. indexJobs' = [indexJobs EXCEPT ![j] = job] BY <1>1, <1>2
<1> HIDE DEF job
<1>8. DrainInv' BY <1>2, <1>4, <1>5, <1>6, <1>7, RunEnds
<1>9. DOMAIN indexJobs' = DOMAIN indexJobs /\ \A i \in DOMAIN indexJobs : indexJobs'[i].of = indexJobs[i].of
  BY <1>1, <1>6, <1>7
<1> QED BY <1>8, <1>9

-----------------------------------------------------------------------------
NamesIt == [holds |-> TRUE, status |-> "queued"]
NamesNone == [holds |-> FALSE, status |-> "queued"]

\* A request that will have its note found, by what became of its job.
Answers(q) == q.holds /\ (q.step \in {"enqueue", "died"} \/ q.swallowed)

\* A stored note is indexed, will be, or a request answers for it.
LEMMA FoundBecause ==
    ASSUME NoteInv
    PROVE  note.stored => note.indexed \/ NamesIt \in ToSet(noteJobs) \/ \E r \in Savers : Answers(saver[r])
BY DEF NoteInv, NoteFound, NamesIt, Answers

\* No note is kept at first.
LEMMA NoteInvInit == SeedingInit => NoteInv
<1> SUFFICES ASSUME SeedingInit PROVE NoteInv OBVIOUS
<1>1. note = [sources |-> 0, stored |-> FALSE, indexed |-> FALSE] /\ noteJobs = <<>>
      /\ saver = [r \in Savers |-> [step |-> "source", holds |-> FALSE, swallowed |-> FALSE]]
  BY DEF SeedingInit
<1>2. saver \in [Savers -> SaverRec] /\ \A r \in Savers : ~saver[r].holds BY <1>1 DEF SaverRec
<1>3. ~note.stored /\ note \in [sources : Nat, stored : BOOLEAN, indexed : BOOLEAN] BY <1>1
<1> QED BY <1>1, <1>2, <1>3 DEF NoteInv, NoteFound

\* One request moves, and whoever answered for the note still does.
LEMMA OneSaverMoves ==
    ASSUME NoteInv, NEW r \in Savers, NEW q \in SaverRec, saver' = [saver EXCEPT ![r] = q],
           q.holds => q.step \in {"enqueue", "answered", "died"},
           note' \in [sources : Nat, stored : BOOLEAN, indexed : BOOLEAN],
           noteJobs' \in Seq(NoteJobRec),
           note.indexed => note'.indexed,
           NamesIt \in ToSet(noteJobs) => NamesIt \in ToSet(noteJobs'),
           note'.stored => note.stored \/ Answers(q),
           Answers(saver[r]) => Answers(q) \/ NamesIt \in ToSet(noteJobs')
    PROVE  NoteInv'
BY FoundBecause DEF NoteInv, NoteFound, NamesIt, Answers

\* A request has its three fields, and holds what it stored.
LEMMA SaverFields ==
    ASSUME NoteInv, NEW r \in Savers
    PROVE  /\ saver[r] \in SaverRec /\ saver[r].holds \in BOOLEAN /\ saver[r].swallowed \in BOOLEAN
           /\ saver[r].holds => saver[r].step \in {"enqueue", "answered", "died"}
BY DEF NoteInv, SaverRec

\* A note's source changes nothing of the note.
LEMMA NoteSourceKeeps ==
    ASSUME NoteInv, NEW r \in Savers, NoteSource(r) PROVE NoteInv'
<1> DEFINE st == IF note.stored THEN "unchanged" ELSE "insert"
           q == [saver[r] EXCEPT !.step = st]
<1>1. /\ saver[r].step = "source" /\ note' = [note EXCEPT !.sources = note.sources + 1]
      /\ saver' = [saver EXCEPT ![r].step = st] /\ UNCHANGED noteJobs
  BY DEF NoteSource, SaverAt
<1>2. saver' = [saver EXCEPT ![r] = q] BY <1>1 DEF NoteInv
<1>3. st \in {"unchanged", "insert"} OBVIOUS
<1> HIDE DEF st
<1>4. q \in SaverRec /\ q.step = st /\ q.holds = saver[r].holds
  BY <1>3, SaverFields DEF SaverRec
<1>5. ~saver[r].holds BY <1>1, SaverFields
<1>6. /\ note' \in [sources : Nat, stored : BOOLEAN, indexed : BOOLEAN]
      /\ note'.stored = note.stored /\ note'.indexed = note.indexed
  BY <1>1 DEF NoteInv
<1> HIDE DEF q
<1>7. ~Answers(saver[r]) BY <1>5 DEF Answers
<1>8. noteJobs' \in Seq(NoteJobRec) /\ ToSet(noteJobs') = ToSet(noteJobs) BY <1>1 DEF NoteInv
<1> QED BY <1>2, <1>4, <1>5, <1>6, <1>7, <1>8, OneSaverMoves

\* Who stores the note holds its version until its job is queued.
LEMMA NoteVersionKeeps ==
    ASSUME NoteInv, NEW r \in Savers, NoteVersion(r) PROVE NoteInv'
<1>1. saver[r].step \in {"insert", "unchanged"} /\ noteJobs' = noteJobs BY DEF NoteVersion
<1>2. ~saver[r].holds BY <1>1, SaverFields
<1>3. ~Answers(saver[r]) BY <1>2 DEF Answers
<1>4. noteJobs' \in Seq(NoteJobRec) /\ ToSet(noteJobs') = ToSet(noteJobs) BY <1>1 DEF NoteInv
<1>5. CASE SaverAt(r, "insert") /\ ~note.stored /\ note' = [note EXCEPT !.stored = TRUE]
           /\ saver' = [saver EXCEPT ![r].step = "enqueue", ![r].holds = TRUE]
  <2> DEFINE q == [saver[r] EXCEPT !.step = "enqueue", !.holds = TRUE]
  <2>1. saver' = [saver EXCEPT ![r] = q] BY <1>5 DEF NoteInv
  <2>2. q \in SaverRec /\ q.step = "enqueue" /\ q.holds BY SaverFields DEF SaverRec
  <2>3. note' \in [sources : Nat, stored : BOOLEAN, indexed : BOOLEAN] /\ note'.indexed = note.indexed
    BY <1>5 DEF NoteInv
  <2> HIDE DEF q
  <2>4. Answers(q) BY <2>2 DEF Answers
  <2> QED BY <1>3, <1>4, <2>1, <2>2, <2>3, <2>4, OneSaverMoves
<1>6. CASE note.stored /\ UNCHANGED note
           /\ saver' = [saver EXCEPT ![r].step = IF @ = "insert" THEN "failed" ELSE "enqueue"]
  <2> DEFINE st == IF saver[r].step = "insert" THEN "failed" ELSE "enqueue"
             q == [saver[r] EXCEPT !.step = st]
  <2>1. saver' = [saver EXCEPT ![r] = q] BY <1>6 DEF NoteInv
  <2>2. st \in {"failed", "enqueue"} OBVIOUS
  <2> HIDE DEF st
  <2>3. q \in SaverRec /\ q.holds = saver[r].holds BY <2>2, SaverFields DEF SaverRec
  <2> HIDE DEF q
  <2>4. note' \in [sources : Nat, stored : BOOLEAN, indexed : BOOLEAN] BY <1>6 DEF NoteInv
  <2> QED BY <1>2, <1>3, <1>4, <1>6, <2>1, <2>3, <2>4, OneSaverMoves
<1> QED BY <1>5, <1>6 DEF NoteVersion

\* The job is queued, one that names the note is there, or one that names none is.
LEMMA EnqueueNoteKeeps ==
    ASSUME NoteInv, NEW r \in Savers, EnqueueNote(r) PROVE NoteInv'
<1> DEFINE job == [holds |-> saver[r].holds, status |-> "queued"]
           swallowed == saver[r].holds /\ NamesNone \in ToSet(noteJobs)
           q == [saver[r] EXCEPT !.step = "answered", !.swallowed = swallowed]
<1>1. /\ saver[r].step = "enqueue" /\ UNCHANGED note
      /\ noteJobs' = IF InTheWay # {} THEN noteJobs ELSE Append(noteJobs, job)
      /\ saver' = [saver EXCEPT ![r].step = "answered", ![r].swallowed = swallowed]
  BY DEF EnqueueNote, SaverAt, NamesNone
<1>2. saver' = [saver EXCEPT ![r] = q] BY <1>1 DEF NoteInv
<1>3. swallowed \in BOOLEAN BY SaverFields
<1>4. noteJobs \in Seq(NoteJobRec) /\ job \in NoteJobRec BY SaverFields DEF NoteInv, NoteJobRec
<1> HIDE DEF job
<1>5. noteJobs' \in Seq(NoteJobRec) BY <1>1, <1>4
<1>6. ToSet(noteJobs) \subseteq ToSet(noteJobs') /\ (InTheWay = {} => job \in ToSet(noteJobs'))
  <2>1. CASE InTheWay # {} BY <1>1, <2>1
  <2>2. CASE InTheWay = {} BY <1>1, <1>4, <2>2 DEF ToSet
  <2> QED BY <2>1, <2>2
<1>7. ASSUME saver[r].holds, ~swallowed PROVE NamesIt \in ToSet(noteJobs')
  <2>1. CASE InTheWay = {} BY <1>6, <1>7, <2>1, SaverFields DEF job, NamesIt
  <2>2. CASE InTheWay # {}
    <3>1. PICK j \in DOMAIN noteJobs : noteJobs[j].status = "queued" BY <2>2 DEF InTheWay
    <3>2. noteJobs[j] \in NoteJobRec /\ noteJobs[j] \in ToSet(noteJobs) BY <1>4 DEF ToSet
    <3>3. noteJobs[j] \in {NamesIt, NamesNone} BY <3>1, <3>2 DEF NoteJobRec, NamesIt, NamesNone
    <3>4. noteJobs[j] = NamesIt BY <1>7, <3>2, <3>3
    <3> QED BY <1>6, <3>2, <3>4
  <2> QED BY <2>1, <2>2
<1> HIDE DEF swallowed
<1>8. q \in SaverRec /\ q.step = "answered" /\ q.holds = saver[r].holds /\ q.swallowed = swallowed
  BY <1>3, SaverFields DEF SaverRec
<1> HIDE DEF q
<1>9. Answers(saver[r]) => Answers(q) \/ NamesIt \in ToSet(noteJobs') BY <1>7, <1>8 DEF Answers
<1>10. note' \in [sources : Nat, stored : BOOLEAN, indexed : BOOLEAN] BY <1>1 DEF NoteInv
<1> QED BY <1>1, <1>2, <1>5, <1>6, <1>8, <1>9, <1>10, OneSaverMoves

\* A job that names the note leaves it indexed.
LEMMA IndexNoteKeeps ==
    ASSUME NoteInv, NEW j \in DOMAIN noteJobs, IndexNote(j) PROVE NoteInv'
<1> DEFINE indexed == note.indexed \/ noteJobs[j].holds
           job == [noteJobs[j] EXCEPT !.status = "done"]
<1>1. /\ noteJobs' = [noteJobs EXCEPT ![j].status = "done"] /\ UNCHANGED saver
      /\ note' = [note EXCEPT !.indexed = indexed]
  BY DEF IndexNote
<1>2. /\ noteJobs \in Seq(NoteJobRec) /\ noteJobs[j] \in NoteJobRec /\ job \in NoteJobRec
      /\ note \in [sources : Nat, stored : BOOLEAN, indexed : BOOLEAN]
  <2>1. noteJobs \in Seq(NoteJobRec) /\ note \in [sources : Nat, stored : BOOLEAN, indexed : BOOLEAN]
    BY DEF NoteInv
  <2>2. noteJobs[j] \in NoteJobRec BY <2>1
  <2>3. job \in NoteJobRec BY <2>2 DEF NoteJobRec
  <2> QED BY <2>1, <2>2, <2>3
<1>3. noteJobs' = [noteJobs EXCEPT ![j] = job] BY <1>1, <1>2
<1>4. /\ noteJobs' \in Seq(NoteJobRec) /\ DOMAIN noteJobs' = DOMAIN noteJobs
      /\ \A i \in DOMAIN noteJobs \ {j} : noteJobs'[i] = noteJobs[i]
  <2> HIDE DEF job
  <2> QED BY <1>2, <1>3
<1>5. indexed \in BOOLEAN BY <1>2 DEF NoteJobRec
<1>6. NamesIt \in ToSet(noteJobs) => NamesIt \in ToSet(noteJobs') \/ noteJobs[j].holds
  <2> SUFFICES ASSUME NamesIt \in ToSet(noteJobs), ~noteJobs[j].holds PROVE NamesIt \in ToSet(noteJobs')
    OBVIOUS
  <2>1. PICK i \in DOMAIN noteJobs : noteJobs[i] = NamesIt BY DEF ToSet
  <2>2. i # j BY <2>1 DEF NamesIt
  <2> QED BY <1>4, <2>1, <2>2 DEF ToSet
<1>7. noteJobs[j].holds => indexed OBVIOUS
<1>8. note.indexed => indexed OBVIOUS
<1> HIDE DEF indexed, job
<1>9. /\ note' \in [sources : Nat, stored : BOOLEAN, indexed : BOOLEAN]
      /\ note'.stored = note.stored /\ note'.indexed = indexed
  BY <1>1, <1>2, <1>5
<1>10. NoteFound' BY <1>1, <1>6, <1>7, <1>8, <1>9, FoundBecause DEF NoteFound, NamesIt, Answers
<1> QED BY <1>1, <1>4, <1>9, <1>10 DEF NoteInv

\* A request that died holding the note still answers for it.
LEMMA DieSavingKeeps ==
    ASSUME NoteInv, NEW r \in Savers, DieSaving(r) PROVE NoteInv'
<1> DEFINE q == [saver[r] EXCEPT !.step = "died"]
<1>1. saver' = [saver EXCEPT ![r] = q] /\ UNCHANGED <<note, noteJobs>> BY DEF DieSaving, NoteInv
<1>2. q \in SaverRec /\ q.step = "died" /\ q.holds = saver[r].holds /\ q.swallowed = saver[r].swallowed
  BY SaverFields DEF SaverRec
<1> HIDE DEF q
<1>3. Answers(saver[r]) => Answers(q) BY <1>2 DEF Answers
<1>4. note' \in [sources : Nat, stored : BOOLEAN, indexed : BOOLEAN] /\ noteJobs' \in Seq(NoteJobRec)
      /\ ToSet(noteJobs') = ToSet(noteJobs)
  BY <1>1 DEF NoteInv
<1> QED BY <1>1, <1>2, <1>3, <1>4, OneSaverMoves

\* What seeders and the drain do leaves the note.
LEMMA SameNote == ASSUME NoteInv, UNCHANGED noteVars PROVE NoteInv'
BY DEF NoteInv, NoteFound, noteVars

-----------------------------------------------------------------------------
CorpusInv == SeedInv /\ DrainInv /\ NoteInv

\* Each step of a seeder keeps the invariant.
LEMMA SeederStepKeeps ==
    ASSUME CorpusInv, NEW s \in Seeders,
           \/ SourceFor(s) \/ FindDocument(s) \/ InsertDocument(s) \/ Unchanged(s)
           \/ CommitSeed(s) \/ SeedAgain(s) \/ DieSeeding(s)
    PROVE  CorpusInv'
<1>1. UNCHANGED noteVars
  BY DEF SourceFor, FindDocument, InsertDocument, Unchanged, CommitSeed, SeedAgain, DieSeeding
<1>2. SeedInv /\ DrainInv /\ NoteInv' /\ indexJobs \in Seq(IndexRec)
  BY <1>1, SameNote DEF CorpusInv, DrainInv
<1>3. CASE CommitSeed(s) BY <1>2, <1>3, CommitSeedKeeps, CommitDrainKeeps DEF CorpusInv
<1>4. CASE ~CommitSeed(s)
  <2>1. UNCHANGED <<indexJobs, drainer>> /\ (~Over(seeder[s]) \/ drainer.step = "idle")
    BY <1>4 DEF SourceFor, FindDocument, InsertDocument, Unchanged, SeedAgain, DieSeeding, Before, Over
  <2>2. DrainInv' BY <1>2, <2>1, SeederAtWork, SeedersBeforeDrain
  <2>3. CASE DieSeeding(s) BY <1>2, <2>2, <2>3, EndSeederKeeps DEF DieSeeding, CorpusInv
  <2> QED BY <1>2, <1>4, <2>2, <2>3, SourceForKeeps, FindDocumentKeeps, InsertDocumentKeeps,
              UnchangedKeeps, SeedAgainKeeps DEF CorpusInv
<1> QED BY <1>3, <1>4

\* Each step of the drain keeps it.
LEMMA DrainStepKeeps ==
    ASSUME CorpusInv, DrainStart \/ DrainClaim \/ DrainDone \/ DrainComplete \/ DrainFail
    PROVE  CorpusInv'
<1>1. UNCHANGED <<seedRows, noteVars>> /\ SeedInv /\ DrainInv /\ NoteInv'
  BY SameNote DEF CorpusInv, DrainStart, DrainClaim, DrainDone, DrainComplete, DrainFail
<1>2. CASE DrainComplete \/ DrainFail
  BY <1>1, <1>2, DrainCompleteKeeps, DrainFailKeeps, OthersKeepSeeds DEF DrainInv, DrainComplete,
     DrainFail, CorpusInv
<1>3. CASE DrainStart \/ DrainClaim \/ DrainDone
  BY <1>1, <1>3, OthersKeepSeeds, DrainStartKeeps, DrainClaimKeeps, DrainDoneKeeps DEF
     DrainStart, DrainClaim, DrainDone, CorpusInv
<1> QED BY <1>2, <1>3

\* Each step of a request keeps it.
LEMMA NoteStepKeeps ==
    ASSUME CorpusInv,
           \/ \E r \in Savers : NoteSource(r) \/ NoteVersion(r) \/ EnqueueNote(r) \/ DieSaving(r)
           \/ \E j \in DOMAIN noteJobs : IndexNote(j)
    PROVE  CorpusInv'
<1>1. UNCHANGED <<seedRows, indexJobs, drainer>>
  BY DEF NoteSource, NoteVersion, EnqueueNote, DieSaving, IndexNote, NoteUnchanged
<1>2. SeedInv' /\ DrainInv' BY <1>1, OthersKeepSeeds, SameDrain DEF CorpusInv
<1>3. NoteInv'
  BY NoteSourceKeeps, NoteVersionKeeps, EnqueueNoteKeeps, DieSavingKeeps, IndexNoteKeeps DEF CorpusInv
<1> QED BY <1>2, <1>3 DEF CorpusInv

\* The invariant is inductive.
LEMMA CorpusInvKept == CorpusInv /\ [SeedingNext]_seedingVars => CorpusInv'
<1> SUFFICES ASSUME CorpusInv, [SeedingNext]_seedingVars PROVE CorpusInv' OBVIOUS
<1>1. CASE UNCHANGED seedingVars
  BY <1>1, OthersKeepSeeds, SameDrain, SameNote DEF seedingVars, seedRows, noteVars, CorpusInv
<1> QED BY <1>1, SeederStepKeeps, DrainStepKeeps, NoteStepKeeps DEF SeedingNext

\* The invariant is stronger than what the demo promises.
LEMMA CorpusInvTells == CorpusInv => SeedingTells
<1> SUFFICES ASSUME CorpusInv PROVE SeedingTells OBVIOUS
<1>1. DrainTells
  <2>1. ASSUME NEW j \in DOMAIN indexJobs, drainer.ran[j] > 1
        PROVE  indexJobs[j].of[1] \in AlwaysFails /\ indexJobs[j].status = "queued"
    BY <2>1 DEF CorpusInv, DrainInv, DrainerRec, Drained
  <2> QED BY <2>1 DEF DrainTells, CorpusInv, DrainInv
<1> QED BY <1>1 DEF CorpusInv, SeedInv, NoteInv, SeedingTells

\* For any number of seeders, files, versions, jobs and requests: only the first file of the
\* corpus may have a second source, each version is indexed once, the drain repeats only
\* what always fails, and a kept answer is found unless its request died.
THEOREM SeedsStand == SeedingSpec => []SeedingTells
<1>1. SeedingInit => CorpusInv BY SeedInvInit, DrainInvInit, NoteInvInit DEF CorpusInv
<1> QED BY <1>1, CorpusInvKept, CorpusInvTells, PTL DEF SeedingSpec

-----------------------------------------------------------------------------
\* What users bring in, and what is fetched and seeded for them, stays told, whatever
\* requests overlap or die and threads meet, for every number of them: the promises of
\* Intake hold where its six parts run.
THEOREM IntakeStands ==
    AccountsSpec /\ SourcesSpec /\ LibrarySpec /\ CapturesSpec /\ FetchingSpec /\ SeedingSpec
        => []IntakeHolds
BY OneOwnerOnly, SourcesHold, LibraryStands, CapturesHold, FetchesHold, SeedsStand, PTL DEF IntakeHolds
=============================================================================

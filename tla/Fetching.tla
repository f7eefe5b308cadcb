------------------------------ MODULE Fetching ------------------------------
(***************************************************************************)
(* Fetching a feed and the pages it names (app/ingestion/fetch.py, rss.py, *)
(* webpage.py). The entries of a feed are fetched by a pool of threads,    *)
(* which share the slots of each host, the verdicts of its robots.txt and  *)
(* nothing else. A fetch consults robots.txt for the address it was given, *)
(* follows redirects, and begins again at that address after a server      *)
(* error, a transport error or a redirect that leads nowhere.              *)
(***************************************************************************)
EXTENDS Integers, Sequences, FiniteSets, FiniteSetsExt, SequencesExt

CONSTANTS
    Threads,        \* of the pool: MAX_WORKERS
    Entries,        \* of the feed, in order: [link, summary, dated]
    FeedLimit,      \* extract_feed's limit
    FeedUrl,
    Addresses, HostOf,
    Internal,       \* addresses netguard blocks
    NoAddress,      \* an entry without a link
    RobotsFiles,    \* what robots.txt may forbid
    PageShapes,     \* [article, paragraphs, dated]: what a page may be
    Apart,          \* per_host_min_interval_seconds
    RobotsTTL,
    FetchAttempts,  \* len(RETRY_BACKOFF) + 1
    MaxRedirects,
    LastSecond      \* bound of the clock

ASSUME FetchingAssumption ==
    /\ Apart \in Nat /\ RobotsTTL \in Nat \ {0} /\ FetchAttempts \in Nat \ {0}
    /\ MaxRedirects \in Nat /\ LastSecond \in Nat /\ FeedLimit \in Nat
    /\ FeedUrl \in Addresses \ Internal /\ NoAddress \notin Addresses
    /\ Entries \in Seq([link : Addresses \cup {NoAddress}, summary : BOOLEAN, dated : BOOLEAN])

VARIABLES
    second,         \* time.monotonic()
    slots,          \* history of _hosts: the slots each host was given, in order
    verdicts,       \* _robots: what was read of each host, and when
    robots,         \* what each host's robots.txt forbids now; {NoAddress}: none to read
    fetcher,        \* what each thread is doing
    feed,           \* "unread", "asked", "read" or "lost"
    gathering       \* extract_feed's documents

fetchingVars == <<second, slots, verdicts, robots, fetcher, feed, gathering>>

Hosts == {HostOf[u] : u \in Addresses}
NoFile == {NoAddress}
NoVerdict == [known |-> FALSE, forbids |-> {}, at |-> 0]
IdleFetcher == [doing |-> "idle", entry |-> 0, url |-> FeedUrl, at |-> FeedUrl, attempt |-> 0,
                hops |-> 0, until |-> 0, since |-> 0, used |-> NoVerdict, last |-> "none"]
NoDocument == [kind |-> "none", text |-> "none", date |-> "none"]
Pending == [NoDocument EXCEPT !.kind = "pending"]
Taken == SubSeq(Entries, 1, Min({FeedLimit, Len(Entries)}))

FetchingInit ==
    /\ second = 0
    /\ slots = [h \in Hosts |-> <<>>]
    /\ verdicts = [h \in Hosts |-> NoVerdict]
    /\ robots \in [Hosts -> RobotsFiles]
    /\ fetcher = [w \in Threads |-> IdleFetcher]
    /\ feed = "unread"
    /\ gathering = [i \in DOMAIN Taken |-> Pending]

-----------------------------------------------------------------------------
(***************************************************************************)
(* _throttle: the next slot of the host, apart from the last one given.    *)
(***************************************************************************)
\* Variant: the slot given is not what is remembered, but the time it was asked for.
SlotFromNow(h) == IF slots[h] = <<>> THEN second
                  ELSE Max({second, Min({second, Last(slots[h])}) + Apart})
NextSlot(h) == IF slots[h] = <<>> THEN second ELSE Max({second, Last(slots[h]) + Apart})
Throttled(h) == slots' = [slots EXCEPT ![h] = Append(@, NextSlot(h))]

FreshVerdict(v, now) == v.known /\ now - v.at < RobotsTTL

\* Threads do not sleep past the end of their sleep, and the clock may go on.
Passes ==
    /\ second < LastSecond
    /\ second' = second + 1
    /\ UNCHANGED <<slots, verdicts, robots, fetcher, feed, gathering>>

Doing(w, what) == fetcher[w].doing = what
Woken(w) == second >= fetcher[w].until
Becomes(w, f) == fetcher' = [fetcher EXCEPT ![w] = f]

-----------------------------------------------------------------------------
(***************************************************************************)
(* extract_webpage and _entry_document.                                    *)
(***************************************************************************)
\* Prose is taken with the date in the markup, chrome is left for the paragraphs.
ExtractWebpage(page) ==
    IF page.article = "prose" THEN [text |-> TRUE, dated |-> page.dated]
                              ELSE [text |-> page.paragraphs, dated |-> FALSE]
NothingFetched == [text |-> FALSE, dated |-> FALSE]

PublishedAt(entry, got) == IF entry.dated THEN "feed" ELSE IF got.dated THEN "markup" ELSE "none"

EntryDocument(entry, got) ==
    IF ~got.text /\ ~entry.summary THEN NoDocument
    ELSE [kind |-> "kept", text |-> IF got.text THEN "page" ELSE "summary",
          date |-> PublishedAt(entry, got)]

\* What a fetch ends with goes to the feed or to its entry, and the thread is free.
Ends(w, outcome, got) ==
    LET i == fetcher[w].entry IN
    /\ Becomes(w, IdleFetcher)
    /\ IF i = 0 THEN feed' = (IF outcome = "ok" THEN "read" ELSE "lost") /\ UNCHANGED gathering
                ELSE /\ gathering' = [gathering EXCEPT ![i] = EntryDocument(Taken[i], got)]
                     /\ UNCHANGED feed

-----------------------------------------------------------------------------
\* extract_feed fetches the feed.
AskForFeed(w) ==
    /\ feed = "unread"
    /\ feed' = "asked"
    /\ Becomes(w, [IdleFetcher EXCEPT !.doing = "consulting"])
    /\ UNCHANGED <<second, slots, verdicts, robots, gathering>>

\* A thread of the pool takes the next entry; one without a link is not fetched.
TakeEntry(w) ==
    /\ feed = "read" /\ Doing(w, "idle")
    /\ LET waiting == {i \in DOMAIN Taken : gathering[i] = Pending /\ \A v \in Threads :
                            ~(fetcher[v].doing # "idle" /\ fetcher[v].entry = i)}
           i == Min(waiting)
       IN  /\ waiting # {}
           /\ IF Taken[i].link = NoAddress
              THEN /\ gathering' = [gathering EXCEPT ![i] = EntryDocument(Taken[i], NothingFetched)]
                   /\ UNCHANGED fetcher
              ELSE /\ Becomes(w, [IdleFetcher EXCEPT !.doing = "consulting", !.entry = i,
                                      !.url = Taken[i].link, !.at = Taken[i].link])
                   /\ UNCHANGED gathering
    /\ UNCHANGED <<second, slots, verdicts, robots, feed>>

\* fetch and _robots_allows: an address inside is refused; a verdict of the last hour
\* is used, unless there was no file to read; or else robots.txt is asked for in a slot
\* of its own.
Consult(w) ==
    LET f == fetcher[w]
        h == HostOf[f.url]
        v == verdicts[h]
    IN  /\ Doing(w, "consulting")
        /\ IF f.url \in Internal THEN Ends(w, "blocked", NothingFetched) /\ UNCHANGED slots
           ELSE IF ~(FreshVerdict(v, second) /\ v.forbids # NoFile)
           THEN /\ Becomes(w, [f EXCEPT !.doing = "reading", !.since = second,
                                !.until = NextSlot(h)])
                /\ Throttled(h) /\ UNCHANGED <<feed, gathering>>
           ELSE IF f.url \in v.forbids THEN Ends(w, "disallowed", NothingFetched) /\ UNCHANGED slots
           ELSE /\ Becomes(w, [f EXCEPT !.doing = "allowed", !.since = second, !.used = v])
                /\ UNCHANGED <<slots, feed, gathering>>
        /\ UNCHANGED <<second, verdicts, robots>>

\* robots.txt answers, or cannot be read, which allows everything; the verdict is
\* dated when it was looked up, before the wait.
ReadRobots(w, file) ==
    LET f == fetcher[w]
        v == [known |-> TRUE, forbids |-> file, at |-> f.since]
    IN  /\ Doing(w, "reading") /\ Woken(w)
        /\ file \in {robots[HostOf[f.url]], NoFile}
        /\ verdicts' = [verdicts EXCEPT ![HostOf[f.url]] = v]
        /\ IF f.url \in file THEN Ends(w, "disallowed", NothingFetched)
           ELSE Becomes(w, [f EXCEPT !.doing = "allowed", !.used = v]) /\ UNCHANGED <<feed, gathering>>
        /\ UNCHANGED <<second, slots, robots>>

\* An attempt begins, at the address the fetch was given, in a slot of its host.
BeginAttempt(w) ==
    LET f == fetcher[w] IN
    /\ Doing(w, "allowed") \/ (Doing(w, "resting") /\ Woken(w))
    /\ Throttled(HostOf[f.url])
    /\ Becomes(w, [f EXCEPT !.doing = "requesting", !.at = f.url, !.hops = 0, !.attempt = @ + 1,
                            !.until = NextSlot(HostOf[f.url])])
    /\ UNCHANGED <<second, verdicts, robots, feed, gathering>>

\* A page, of any shape, or one larger than the limit, or a 4xx: the fetch ends.
Delivered(w, page) ==
    /\ Doing(w, "requesting") /\ Woken(w)
    /\ Ends(w, "ok", ExtractWebpage(page))
    /\ UNCHANGED <<second, slots, verdicts, robots>>

FinalError(w, code) ==
    /\ Doing(w, "requesting") /\ Woken(w)
    /\ Ends(w, code, NothingFetched)
    /\ UNCHANGED <<second, slots, verdicts, robots>>

\* A redirect, of which each hop is validated, not throttled and not consulted about.
Redirected(w, to) ==
    LET f == fetcher[w] IN
    /\ Doing(w, "requesting") /\ Woken(w)
    /\ IF f.hops = MaxRedirects THEN Ends(w, "too_many", NothingFetched)
       ELSE IF to \in Internal THEN Ends(w, "blocked", NothingFetched)
       ELSE Becomes(w, [f EXCEPT !.at = to, !.hops = @ + 1]) /\ UNCHANGED <<feed, gathering>>
    /\ UNCHANGED <<second, slots, verdicts, robots>>

\* A 5xx or a transport error rests before the next attempt, a redirect without a
\* Location does not; the last attempt is the end.
PauseFor(answer) == IF answer = "nowhere" THEN 0 ELSE 1
Failed(w, answer) ==
    LET f == fetcher[w] IN
    /\ Doing(w, "requesting") /\ Woken(w)
    /\ answer = "nowhere" => f.hops < MaxRedirects
    /\ IF f.attempt = FetchAttempts THEN Ends(w, answer, NothingFetched)
       ELSE /\ Becomes(w, [f EXCEPT !.doing = "resting", !.until = second + PauseFor(answer),
                                !.last = answer])
            /\ UNCHANGED <<feed, gathering>>
    /\ UNCHANGED <<second, slots, verdicts, robots>>

\* The site changes its robots.txt.
ChangeRobots(h, file) ==
    /\ robots[h] # file
    /\ robots' = [robots EXCEPT ![h] = file]
    /\ UNCHANGED <<second, slots, verdicts, fetcher, feed, gathering>>

FetchingNext ==
    \/ Passes
    \/ \E h \in Hosts, file \in RobotsFiles : ChangeRobots(h, file)
    \/ \E w \in Threads :
        \/ AskForFeed(w) \/ TakeEntry(w) \/ Consult(w) \/ BeginAttempt(w)
        \/ \E file \in RobotsFiles : ReadRobots(w, file)
        \/ \E page \in PageShapes : Delivered(w, page)
        \/ \E code \in {"http_4xx", "too_large"} : FinalError(w, code)
        \/ \E to \in Addresses : Redirected(w, to)
        \/ \E answer \in {"http_5xx", "transport", "nowhere"} : Failed(w, answer)

FetchingSpec == FetchingInit /\ [][FetchingNext]_fetchingVars

-----------------------------------------------------------------------------
\* No two slots of a host are nearer than the interval, whoever they were given to
\* and however long each waits for its own.
SlotsApart == \A h \in Hosts : \A i \in 1..(Len(slots[h]) - 1) : slots[h][i + 1] - slots[h][i] >= Apart

\* A page is asked for only under a verdict on its own address, read within the
\* hour before the fetch looked, and that does not forbid it.
AskedWithinTheHour ==
    \A w \in Threads : fetcher[w].doing \in {"allowed", "requesting", "resting"} =>
        LET f == fetcher[w]
        IN  f.used.known /\ f.url \notin f.used.forbids /\ f.since - f.used.at < RobotsTTL

\* A fetch begins again only after what another attempt may mend.
RetriedForAReason ==
    \A w \in Threads :
        LET f == fetcher[w] IN
        /\ f.attempt > 1 /\ f.doing # "idle" => f.last \in {"http_5xx", "transport", "nowhere"}
        /\ f.doing = "requesting" => f.at \notin Internal
        /\ f.attempt <= FetchAttempts /\ f.hops <= MaxRedirects

\* An entry is dropped only when it has neither a page nor a summary; it is dated by
\* the feed before the page, and never by a page that was read for its paragraphs.
EntriesKept ==
    \A i \in DOMAIN Taken :
        /\ gathering[i].kind = "none" => ~Taken[i].summary
        /\ gathering[i].kind = "kept" => /\ Taken[i].dated <=> gathering[i].date = "feed"
                                         /\ gathering[i].date = "markup" => gathering[i].text = "page"

FetchTells == SlotsApart /\ AskedWithinTheHour /\ RetriedForAReason /\ EntriesKept
=============================================================================

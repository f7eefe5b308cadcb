------------------------------ MODULE Captures ------------------------------
(* How a source and a note come in by hand (app/api/routers/sources.py,         *)
(* ingestion/sources.py, imports/): captures of a URL with an excerpt, uploads, *)
(* OPML and highlight imports. Each is several commits in a row, any number of  *)
(* them run at once, and any of them may be the last.                           *)
EXTENDS Integers, FiniteSets

CONSTANTS
    Captors,        \* requests being served at once
    Urls,           \* canonical URLs of one source type
    Texts,          \* what is captured, or highlighted
    Served          \* bound: requests begun

NoUrl == "no url"
NoText == "no text"
\* What a document's key is made of: a captured note or a highlight; a listed URL has none.
Kinds == {"note", "highlight", "listed"}

\* Sources and documents are rows of two tables.
ASSUME CapturesAssumption ==
    Served \in Nat /\ NoUrl \notin Urls /\ Urls \cap (Kinds \X Texts) = {}

VARIABLES
    rowsOf,         \* sources: how many rows there are of each URL
    fetched,        \* how many of them have had an ingest_source job queued
    documents,      \* the notes that are stored, by the kind of their key
    indexing,       \* those for which index_version was queued
    captor,         \* where each request is
    served,
    crossedUrls,    \* history: URLs looked up by two requests before either wrote
    stranded        \* history: notes and rows whose request ended before its job, or had none

capturesVars == <<rowsOf, fetched, documents, indexing, captor, served, crossedUrls, stranded>>

AtRest == [at |-> "rest"]

CapturesInit ==
    /\ rowsOf = [u \in Urls |-> 0] /\ fetched = [u \in Urls |-> 0]
    /\ documents = {} /\ indexing = {}
    /\ captor = [r \in Captors |-> AtRest]
    /\ served = 0
    /\ crossedUrls = {} /\ stranded = {}

Goes(r, step) == captor' = [captor EXCEPT ![r].at = step]
Rests(r) == captor' = [captor EXCEPT ![r] = AtRest]
Rivals(r, u) == {x \in Captors \ {r} : captor[x].at = "new" /\ captor[x].url = u}

-----------------------------------------------------------------------------
\* post_capture: a URL, a note or both; import_highlights: a set of highlights,
\* which have a key of their own; post_source and import_opml list a URL.
BeginCapture(r, kind, u, todo) ==
    /\ captor[r] = AtRest /\ served < Served
    /\ u # NoUrl \/ todo # {}
    /\ captor' = [captor EXCEPT ![r] = [at |-> IF u = NoUrl THEN "note" ELSE "look", kind |-> kind,
                                        url |-> u, todo |-> todo, doc |-> NoText]]
    /\ served' = served + 1
    /\ UNCHANGED <<rowsOf, fetched, documents, indexing, crossedUrls, stranded>>

\* Variant: the query taken out, a row for each capture.
LookForNothing(r) ==
    /\ captor[r].at = "look" /\ Goes(r, "new")
    /\ UNCHANGED <<rowsOf, fetched, documents, indexing, served, crossedUrls, stranded>>

\* create_source: a row of the same URL is taken as it is; of two the query makes
\* an error, and the request ends with nothing written.
LookForSource(r) ==
    /\ captor[r].at = "look"
    /\ LET n == rowsOf[captor[r].url]
       IN  CASE n = 0 -> Goes(r, "new")
             [] n = 1 -> Goes(r, "queue")
             [] OTHER -> Rests(r)
    /\ UNCHANGED <<rowsOf, fetched, documents, indexing, served, crossedUrls, stranded>>

InsertSource(r) ==
    /\ captor[r].at = "new"
    /\ LET u == captor[r].url
       IN  /\ rowsOf' = [rowsOf EXCEPT ![u] = @ + 1]
           /\ crossedUrls' = IF Rivals(r, u) # {} THEN crossedUrls \cup {u} ELSE crossedUrls
    /\ Goes(r, "queue")
    /\ UNCHANGED <<fetched, documents, indexing, served, stranded>>

\* The ingest job is deduplicated by source. A URL that is only listed waits for
\* its watch or for a refresh (module Sources).
QueueIngest(r) ==
    /\ captor[r].at = "queue"
    /\ LET u == captor[r].url
       IN  IF captor[r].kind = "listed"
           THEN /\ stranded' = IF fetched[u] < rowsOf[u] THEN stranded \cup {u} ELSE stranded
                /\ UNCHANGED fetched
           ELSE /\ fetched' = [fetched EXCEPT ![u] = IF @ < rowsOf[u] THEN @ + 1 ELSE @]
                /\ stranded' = IF fetched'[u] = rowsOf[u] THEN stranded \ {u} ELSE stranded
    /\ IF captor[r].todo = {} THEN Rests(r) ELSE Goes(r, "note")
    /\ UNCHANGED <<rowsOf, documents, indexing, served, crossedUrls>>

\* upsert_document_version and the commit after it: a text that is stored already
\* is unchanged and brings no version (two at once meet at the unique key).
StoreNote(r) ==
    /\ captor[r].at = "note"
    /\ \E t \in captor[r].todo :
        LET doc == <<captor[r].kind, t>>
            left == captor[r].todo \ {t}
        IN  IF doc \in documents
            THEN /\ captor' = [captor EXCEPT ![r] = IF left = {} THEN AtRest ELSE [@ EXCEPT !.todo = left]]
                 /\ UNCHANGED documents
            ELSE /\ captor' = [captor EXCEPT ![r] = [@ EXCEPT !.at = "stored", !.todo = left, !.doc = doc]]
                 /\ documents' = documents \cup {doc}
    /\ UNCHANGED <<rowsOf, fetched, indexing, served, crossedUrls, stranded>>

QueueIndex(r) ==
    /\ captor[r].at = "stored"
    /\ indexing' = indexing \cup {captor[r].doc}
    /\ IF captor[r].todo = {} THEN Rests(r) ELSE Goes(r, "note")
    /\ UNCHANGED <<rowsOf, fetched, documents, served, crossedUrls, stranded>>

\* The process stops, or a statement fails: what was committed stays.
LoseCapture(r) ==
    /\ captor[r] # AtRest
    /\ Rests(r)
    /\ stranded' = stranded \cup (IF captor[r].at = "stored" THEN {captor[r].doc} ELSE {})
                            \cup (IF captor[r].at = "queue" THEN {captor[r].url} ELSE {})
    /\ UNCHANGED <<rowsOf, fetched, documents, indexing, served, crossedUrls>>

CapturesNext ==
    \E r \in Captors :
        \/ \E u \in Urls \cup {NoUrl}, todo \in {{}} \cup {{t} : t \in Texts} : BeginCapture(r, "note", u, todo)
        \/ \E todo \in SUBSET Texts : BeginCapture(r, "highlight", NoUrl, todo)
        \/ \E u \in Urls : BeginCapture(r, "listed", u, {})
        \/ LookForSource(r) \/ InsertSource(r) \/ QueueIngest(r)
        \/ StoreNote(r) \/ QueueIndex(r) \/ LoseCapture(r)

CapturesSpec == CapturesInit /\ [][CapturesNext]_capturesVars

-----------------------------------------------------------------------------
\* A note that is stored is indexed, or about to be, unless the request that
\* stored it ended in between: then no later capture or import brings it back,
\* for the text is unchanged to them.
StoredIsIndexed ==
    \A doc \in documents :
        \/ doc \in indexing
        \/ \E r \in Captors : captor[r].at = "stored" /\ captor[r].doc = doc
        \/ doc \in stranded

\* A URL has one row, unless two requests looked for it before either wrote: no
\* constraint stands between them, and from then on no capture of it succeeds.
OneRowPerUrl == \A u \in Urls \ crossedUrls : rowsOf[u] <= 1

\* A row has had its first fetch queued, or is about to, unless a request ended,
\* two raced for it, or it was only listed.
RowsAreFetched ==
    \A u \in Urls \ (crossedUrls \cup stranded) :
        rowsOf[u] > fetched[u] => \E r \in Captors : captor[r].at = "queue" /\ captor[r].url = u

CapturesTell == StoredIsIndexed /\ OneRowPerUrl /\ RowsAreFetched
=============================================================================

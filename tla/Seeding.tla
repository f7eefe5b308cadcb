------------------------------ MODULE Seeding ------------------------------
(***************************************************************************)
(* The demo corpus (app/demo/seed.py, app/jobs/handlers/wiki.py) and an    *)
(* answer kept as a note (app/api/routers/demo.py): who else may be at the *)
(* same rows, what a row that is there already stops, and the drain, which *)
(* runs the queue in the seeding process and in one session.               *)
(***************************************************************************)
EXTENDS Integers, Sequences, FiniteSets, FiniteSetsExt, SequencesExt

CONSTANTS
    Corpus,         \* the corpus files, in order
    TextsOf,        \* how many versions each has
    Seeders,        \* transactions that seed: the command's, and those of seed_demo_corpus jobs
    AlwaysFails,    \* files whose index job raises every time
    AlwaysRefused,        \* and those it refuses for good (NonRetryableJobError)
    MaxDrainJobs,   \* _MAX_DRAIN_JOBS
    IndexAttempts,  \* jobs.max_attempts
    Savers          \* requests that keep the one answer as a note

CorpusFiles == ToSet(Corpus)

ASSUME SeedingAssumption ==
    /\ Corpus \in Seq(CorpusFiles) /\ Corpus # <<>> /\ IsInjective(Corpus)
    /\ TextsOf \in [CorpusFiles -> Nat \ {0}]
    /\ AlwaysFails \cup AlwaysRefused \subseteq CorpusFiles /\ AlwaysFails \cap AlwaysRefused = {}
    /\ {MaxDrainJobs, IndexAttempts} \subseteq Nat \ {0}
    /\ "none" \notin Seeders /\ IsFiniteSet(Seeders)

VARIABLES
    corpusSources,  \* committed: how many sources each corpus file has
    corpusRows,     \* committed: the files that have a document, with its versions
    docHeld,        \* the transaction that holds, or has inserted, each document
    seeder,         \* [at, step, made, wrote]
    indexJobs,      \* committed: the index jobs, in the order of their ids
    drainer,        \* [step, job, processed, ran]: ran is a history
    note,           \* the answer's note: [sources, stored, indexed]
    noteJobs,       \* its index jobs: [holds, status], holds is whether it names the version
    saver           \* [step, holds, swallowed]; swallowed is a history

seedingVars == <<corpusSources, corpusRows, docHeld, seeder, indexJobs, drainer,
                 note, noteJobs, saver>>
seedRows == <<corpusSources, corpusRows, docHeld, seeder>>
noteVars == <<note, noteJobs, saver>>

NewSeeder == [at |-> 1, step |-> "source", made |-> {}, wrote |-> <<>>]

SeedingInit ==
    /\ corpusSources = [f \in CorpusFiles |-> 0] /\ corpusRows = {}
    /\ docHeld = [f \in CorpusFiles |-> "none"]
    /\ seeder = [s \in Seeders |-> NewSeeder]
    /\ indexJobs = <<>>
    /\ drainer = [step |-> "idle", job |-> 0, processed |-> 0, ran |-> <<>>]
    /\ note = [sources |-> 0, stored |-> FALSE, indexed |-> FALSE] /\ noteJobs = <<>>
    /\ saver = [r \in Savers |-> [step |-> "source", holds |-> FALSE, swallowed |-> FALSE]]

-----------------------------------------------------------------------------
(***************************************************************************)
(* seed_demo, a transaction.                                               *)
(***************************************************************************)
Before(s, step) == seeder[s].step = step /\ seeder[s].at <= Len(Corpus)
FileOf(s) == Corpus[seeder[s].at]
SeesSources(s, f) == corpusSources[f] + (IF f \in seeder[s].made THEN 1 ELSE 0)

\* The transaction ends, and what it held is free.
EndSeeder(s, step) ==
    /\ seeder' = [seeder EXCEPT ![s] = [NewSeeder EXCEPT !.step = step]]
    /\ docHeld' = [f \in CorpusFiles |-> IF docHeld[f] = s THEN "none" ELSE docHeld[f]]

\* _source_for looks by the corpus id, and may find more than it can use.
FindSource(s, f) ==
    CASE SeesSources(s, f) = 0 -> "no source"
      [] SeesSources(s, f) = 1 -> "source"
      [] OTHER -> "several"

SourceFor(s) ==
    /\ Before(s, "source")
    /\ \/ /\ FindSource(s, FileOf(s)) # "several"
          /\ seeder' = [seeder EXCEPT ![s].step = "document", ![s].made =
                IF FindSource(s, FileOf(s)) = "no source" THEN @ \cup {FileOf(s)} ELSE @]
          /\ UNCHANGED docHeld
       \/ FindSource(s, FileOf(s)) = "several" /\ EndSeeder(s, "failed")
    /\ UNCHANGED <<corpusSources, corpusRows, indexJobs, drainer, noteVars>>

\* upsert_document_version: the row that is there is waited for and held; one that is
\* not, and one that another transaction is inserting, is not seen.
FindDocument(s) ==
    /\ Before(s, "document")
    /\ LET f == FileOf(s) IN
        \/ /\ f \in corpusRows /\ docHeld[f] = "none"
           /\ docHeld' = [docHeld EXCEPT ![f] = s]
           /\ seeder' = [seeder EXCEPT ![s].step = "unchanged"]
        \/ /\ f \notin corpusRows
           /\ seeder' = [seeder EXCEPT ![s].step = "insert"]
           /\ UNCHANGED docHeld
    /\ UNCHANGED <<corpusSources, corpusRows, indexJobs, drainer, noteVars>>

MayInsert(f) == f \notin corpusRows

\* The insert waits for one of the same document, and fails when that is committed:
\* the whole transaction with it. A version that is new is stored and its index queued.
InsertDocument(s) ==
    /\ Before(s, "insert")
    /\ LET f == FileOf(s) IN
        /\ docHeld[f] = "none"
        /\ \/ /\ MayInsert(f)
              /\ docHeld' = [docHeld EXCEPT ![f] = s]
              /\ seeder' = [seeder EXCEPT ![s].at = @ + 1, ![s].step = "source", ![s].wrote =
                    @ \o [n \in 1..TextsOf[f] |-> <<f, n>>]]
           \/ ~MayInsert(f) /\ EndSeeder(s, "failed")
    /\ UNCHANGED <<corpusSources, corpusRows, indexJobs, drainer, noteVars>>

\* Versions of before are stored already.
Unchanged(s) ==
    /\ Before(s, "unchanged")
    /\ seeder' = [seeder EXCEPT ![s].at = @ + 1, ![s].step = "source"]
    /\ UNCHANGED <<corpusSources, corpusRows, docHeld, indexJobs, drainer, noteVars>>

IndexJob(v) == [of |-> v, status |-> "queued", attempts |-> 0, due |-> 0]

CommitSeed(s) ==
    /\ seeder[s].at > Len(Corpus)
    /\ corpusSources' = [f \in CorpusFiles |->
                            corpusSources[f] + (IF f \in seeder[s].made THEN 1 ELSE 0)]
    /\ corpusRows' = corpusRows \cup {v[1] : v \in ToSet(seeder[s].wrote)}
    /\ indexJobs' = indexJobs \o [i \in DOMAIN seeder[s].wrote |-> IndexJob(seeder[s].wrote[i])]
    /\ drainer' = [drainer EXCEPT !.ran = @ \o [i \in DOMAIN seeder[s].wrote |-> 0]]
    /\ EndSeeder(s, "seeded")
    /\ UNCHANGED noteVars

\* A job that failed is retried, and a user may ask for the corpus again; a process that
\* dies takes its transaction with it.
SeedAgain(s) ==
    /\ seeder[s].step = "failed" /\ drainer.step = "idle"
    /\ seeder' = [seeder EXCEPT ![s] = NewSeeder]
    /\ UNCHANGED <<corpusSources, corpusRows, docHeld, indexJobs, drainer, noteVars>>

DieSeeding(s) ==
    /\ seeder[s].step \notin {"seeded", "failed"}
    /\ EndSeeder(s, "failed")
    /\ UNCHANGED <<corpusSources, corpusRows, indexJobs, drainer, noteVars>>

-----------------------------------------------------------------------------
(***************************************************************************)
(* drain: claim, run and complete in one transaction, whatever run_after.  *)
(***************************************************************************)
QueuedIndexes == {j \in DOMAIN indexJobs : indexJobs[j].status = "queued"}
Comes(i, j) == \/ indexJobs[i].due < indexJobs[j].due
               \/ indexJobs[i].due = indexJobs[j].due /\ i <= j

\* In the process that seeded, when no other transaction seeds.
DrainStart ==
    /\ drainer.step = "idle"
    /\ \A s \in Seeders : seeder[s].step \in {"seeded", "failed"}
    /\ drainer' = [drainer EXCEPT !.step = "looking"]
    /\ UNCHANGED <<seedRows, indexJobs, noteVars>>

DrainClaim ==
    /\ drainer.step = "looking" /\ drainer.processed < MaxDrainJobs
    /\ \E j \in QueuedIndexes :
        /\ \A i \in QueuedIndexes : Comes(j, i)
        /\ drainer' = [drainer EXCEPT !.step = "running", !.job = j, !.ran[j] = @ + 1]
    /\ UNCHANGED <<seedRows, indexJobs, noteVars>>

DrainDone ==
    /\ drainer.step = "looking"
    /\ drainer.processed = MaxDrainJobs \/ QueuedIndexes = {}
    /\ drainer' = [drainer EXCEPT !.step = "done", !.job = 0]
    /\ UNCHANGED <<seedRows, indexJobs, noteVars>>

DrainNext == drainer' = [drainer EXCEPT !.step = "looking", !.processed = @ + 1]

DrainComplete ==
    /\ drainer.step = "running"
    /\ indexJobs[drainer.job].of[1] \notin AlwaysFails \cup AlwaysRefused
    /\ indexJobs' = [indexJobs EXCEPT ![drainer.job].status = "succeeded",
                                      ![drainer.job].attempts = @ + 1]
    /\ DrainNext
    /\ UNCHANGED <<seedRows, noteVars>>

\* Variant: a refusal is tried again.
RetriesAll(j) == indexJobs[j].attempts < IndexAttempts
DrainRetries(j) ==
    indexJobs[j].of[1] \notin AlwaysRefused /\ indexJobs[j].attempts < IndexAttempts

\* Anything raised: the rollback takes the claim back as well, and fail() reads the
\* attempts of before it.
DrainFail ==
    /\ drainer.step = "running"
    /\ LET j == drainer.job IN
        /\ indexJobs[j].of[1] \in AlwaysFails \cup AlwaysRefused
        /\ indexJobs' = [indexJobs EXCEPT
              ![j].status = IF DrainRetries(j) THEN "queued"
                            ELSE IF indexJobs[j].of[1] \in AlwaysRefused THEN "failed" ELSE "dead",
              ![j].due = drainer.processed + 1]
    /\ DrainNext
    /\ UNCHANGED <<seedRows, noteVars>>

-----------------------------------------------------------------------------
(***************************************************************************)
(* save_note, three transactions; a request may die after each.            *)
(***************************************************************************)
SaverAt(r, step) == saver[r].step = step
NoteUnchanged == UNCHANGED <<seedRows, indexJobs, drainer>>

\* create_source: a note has no url, and nothing of before is matched.
NoteSource(r) ==
    /\ SaverAt(r, "source")
    /\ note' = [note EXCEPT !.sources = @ + 1]
    /\ saver' = [saver EXCEPT ![r].step = IF note.stored THEN "unchanged" ELSE "insert"]
    /\ NoteUnchanged /\ UNCHANGED noteJobs

\* The text is the note's identity. Of a version that is stored the result names none;
\* an insert that another request's came before fails.
NoteVersion(r) ==
    /\ saver[r].step \in {"insert", "unchanged"}
    /\ \/ /\ SaverAt(r, "insert") /\ ~note.stored
          /\ note' = [note EXCEPT !.stored = TRUE]
          /\ saver' = [saver EXCEPT ![r].step = "enqueue", ![r].holds = TRUE]
       \/ /\ note.stored /\ UNCHANGED note
          /\ saver' = [saver EXCEPT ![r].step = IF @ = "insert" THEN "failed" ELSE "enqueue"]
    /\ NoteUnchanged /\ UNCHANGED noteJobs

InTheWay == {j \in DOMAIN noteJobs : noteJobs[j].status = "queued"}

\* One queued job of the answer's key at a time, whatever it names.
EnqueueNote(r) ==
    /\ SaverAt(r, "enqueue")
    /\ noteJobs' = IF InTheWay # {} THEN noteJobs
                   ELSE Append(noteJobs, [holds |-> saver[r].holds, status |-> "queued"])
    /\ saver' = [saver EXCEPT ![r].step = "answered", ![r].swallowed =
            saver[r].holds /\ [holds |-> FALSE, status |-> "queued"] \in ToSet(noteJobs)]
    /\ NoteUnchanged /\ UNCHANGED note

\* index_version: of a job that names no version nothing is done.
IndexNote(j) ==
    /\ noteJobs[j].status = "queued"
    /\ noteJobs' = [noteJobs EXCEPT ![j].status = "done"]
    /\ note' = [note EXCEPT !.indexed = (@ \/ noteJobs[j].holds)]
    /\ NoteUnchanged /\ UNCHANGED saver

DieSaving(r) ==
    /\ saver[r].step \in {"insert", "unchanged", "enqueue"}
    /\ saver' = [saver EXCEPT ![r].step = "died"]
    /\ NoteUnchanged /\ UNCHANGED <<note, noteJobs>>

SeedingNext ==
    \/ \E s \in Seeders : \/ SourceFor(s) \/ FindDocument(s) \/ InsertDocument(s) \/ Unchanged(s)
                          \/ CommitSeed(s) \/ SeedAgain(s) \/ DieSeeding(s)
    \/ DrainStart \/ DrainClaim \/ DrainDone \/ DrainComplete \/ DrainFail
    \/ \E r \in Savers : NoteSource(r) \/ NoteVersion(r) \/ EnqueueNote(r) \/ DieSaving(r)
    \/ \E j \in DOMAIN noteJobs : IndexNote(j)

SeedingSpec == SeedingInit /\ [][SeedingNext]_seedingVars

-----------------------------------------------------------------------------
\* A corpus file that is stored has a source, and the first may have more: a transaction
\* that looked for the source before another committed, and for the document after, adds
\* a second. The first to commit adds none, and the others find every other source.
SourcesNearlyOnce ==
    /\ \A f \in CorpusFiles : corpusSources[f] > 0 <=> f \in corpusRows
    /\ \A f \in CorpusFiles \ {Corpus[1]} : corpusSources[f] <= 1
    /\ corpusRows # {} =>
            corpusSources[Corpus[1]] <= Cardinality({s \in Seeders : seeder[s].step = "seeded"})

\* Each version is queued for its index once, by the transaction that stored it.
IndexedOnce ==
    /\ \A i, j \in DOMAIN indexJobs : indexJobs[i].of = indexJobs[j].of => i = j
    /\ {indexJobs[j].of : j \in DOMAIN indexJobs}
            = UNION {{<<f, n>> : n \in 1..TextsOf[f]} : f \in corpusRows}

\* The drain leaves nothing queued, but for jobs that fail each time: those it runs until
\* it has processed its most, since their attempts are never counted. It runs no other
\* job twice.
DrainTells ==
    /\ \A j \in DOMAIN indexJobs : drainer.ran[j] > 1 =>
            indexJobs[j].of[1] \in AlwaysFails /\ indexJobs[j].status = "queued"
    /\ drainer.step = "done" =>
            \/ QueuedIndexes = {}
            \/ drainer.processed = MaxDrainJobs

\* A kept answer that will never be found again is one whose request died, or one whose
\* index job met a job of the same answer that names no version.
NoteFound ==
    note.stored =>
        \/ note.indexed
        \/ [holds |-> TRUE, status |-> "queued"] \in ToSet(noteJobs)
        \/ \E r \in Savers : /\ saver[r].holds
                             /\ saver[r].step \in {"enqueue", "died"} \/ saver[r].swallowed

SeedingTells == SourcesNearlyOnce /\ IndexedOnce /\ DrainTells /\ NoteFound
=============================================================================

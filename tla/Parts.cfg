SPECIFICATION PartsSpec
CONSTANTS
    Parts = {"scheduling", "watching", "sources", "camps", "page",
             "clusters", "judging", "extraction", "chunking", "retrieval", "verifying",
             "answering", "fetching", "captures", "seeding", "rows", "accounts",
             "library", "publishing", "timeline", "connections", "settings", "thinking",
             "negotiation", "cassette"}
    HoursPerDay = 2
    DaysPerWeek = 2
    EveryDay <- MCNone
    NoSlot <- MCNone
    Schedulers = {p1}
    MaintenanceGap = 2
    MaxTime = 4
    TickHours = 0
    ScheduleEvents = 2
    WatchedClaims = {1, 2}
    Similar = {1, 2}
    Notes = {2}
    Echoes <- MCEchoes
    ClusterOf <- MCClusters
    TopClusters = 1
    LastDay = 2
    Runs = {r1, r2}
    Watches = {w1, w2}
    NoTime <- MCNone
    Interval = 1
    LastTime = 1
    SourceRequests = 3
    Faults = 1
    Claims = {1, 2}
    DocumentOf <- MCDocuments
    Clusters = {k1, k2}
    Topics = {t1, t2}
    NoTopic = none
    Compilers = {c1, c2}
    Http = http
    MinClaims = 1
    MinDocuments = 1
    MaxOverview = 2
    MaxSummary = 1
    WikiEvents = 1
    CampClaims = {1, 2, 3, 4, 5}
    Home = {2, 3, 4}
    Successor <- MCSuccessor
    Judged <- MCJudged
    Rulings <- MCRulings
    Members = {1, 2, 3}
    PlaceOf <- MCPlaces
    VersionOf <- MCVersions
    Reach = 2
    Reconciles = 2
    Processes = {p1, p2}
    ChunksOf <- MCChunks
    LexicalOrder <- MCLexical
    VectorOrder <- MCVector
    CrossScore <- MCCross
    RRFK = 2
    Candidates = 3
    Limit = 3
    TextsToChunk <- MCTexts
    PerToken = 2
    TargetTokens = 3
    MaxTokens = 5
    Overlap = 2
    Requests = {q1, q2}
    Emails = {e1, e2}
    Logouts = 2
    Captors = {r1, r2}
    Urls = {u1}
    Texts = {x1, x2}
    Served = 3
    PageClaims = {1, 2, 3}
    PageRelations <- MCPageRelations
    Drafts <- MCDrafts
    Patches <- MCPatches
    PatchPercent = 50
    PageEvents = 3
    Statements <- MCStatements
    AssertedAt = {0, 1, 2}
    YearOf <- MCYearOf
    Similarities = {30, 95}
    DupSim = 90
    MinF1 = 20
    ExtractRuns = {r1, r2}
    Wording <- MCWording
    SentenceSpans <- MCSpans
    Traits <- MCTraits
    Altered <- MCAltered
    ModelDrafts <- MCModelDrafts
    MaxClaims = 2
    SentencesIn = 2
    EvidenceLists <- MCEvidence
    AnswerIds <- MCAnswerIds
    BatchSize = 1
    Pieces <- MCPieces
    Deltas = 4
    Quotes <- MCQuotes
    Threads = {f1, f2}
    Entries <- MCEntries
    FeedLimit = 3
    FeedUrl = "a"
    Addresses <- MCAddresses
    HostOf <- MCHostOf
    Internal = {"i"}
    NoAddress = "none"
    RobotsFiles <- MCRobots
    PageShapes <- MCPageShapes
    Apart = 1
    RobotsTTL = 1
    FetchAttempts = 2
    MaxRedirects = 1
    LastSecond = 2
    Corpus <- MCCorpus
    TextsOf <- MCTextsOf
    Seeders = {"s1", "s2"}
    AlwaysFails = {"p"}
    AlwaysRefused = {"z"}
    MaxDrainJobs = 7
    IndexAttempts = 2
    Savers = {"r1", "r2"}
    ThreadJobs <- MCThreadJobs
    ScanOrder <- MCScanOrder
    MaxTold <- MCMaxTold
    Patrons = {a1, a2}
    Users = {1, 2}
    Books = {1, 2}
    OwnerOf <- MCOwnerOf
    Shelves = {s1, s2}
    Names = {n1, n2}
    ShelfRequests = 3
    Owners = {"o1", "o2"}
    Bodies <- MCBodies
    Answer <- MCAnswer
    Cited <- MCCitedClaims
    TextVersions <- MCTextVersions
    TopicChanges <- MCChanges
    Readers = {v1}
    MaxLinks = 1
    LastDate = 2
    TimelineDocs = {"d1"}
    EventLimit = 2
    LastObserved = 2
    PageLimit = 1
    TimelinesAsked <- MCTimelines
    Callers = {c1, c2}
    Grants = {g1}
    Refreshes = 1
    Lapses = 1
    Editors = {d1, d2}
    Presets = {"openrouter", "openai"}
    BareOf = {"openai"}
    Edits = 3
    StreamDeltas <- MCStreamDeltas
    MaxDeltas = 4
    Replies <- MCReplies
    Calls = {m1, m2}
    Attempts = 2
    Recorders = {"w1", "w2"}
    Replayers = {"v1"}
    TapeKeys = {"q1"}
    TapeTexts <- MCTapeTexts
    MaxAsked = 2
INVARIANTS     PublishingTells ClaimsHold
           
PROPERTIES PauseHolds
CHECK_DEADLOCK FALSE

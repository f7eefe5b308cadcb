SPECIFICATION Spec
CONSTANTS
    Docs = {"A", "B"}
    Notes = {"B"}
    Texts <- Contents
    MaxTime = 2
    MaxVersions = 3
    Threads = {t1}
    Topics <- Subjects
    Silent = "silent"
    Says <- Opinions
    Announces <- Updates
    Stubs <- Fragments
    ManyClaims = 2
    MaxLabels = 3
CHECK_DEADLOCK FALSE
INVARIANTS
    LedgerTypeOK
    InstantsDistinct
    StandingIsLatest
    TimelineMatchesLedger
    ConflictsMatchLedger
    SuccessorIsLater
    NotesKeepTheirStanding
    OnlySilenceGoesUnnoticed
PROPERTIES
    LiveIsCurrent
    ExternalStands

SPECIFICATION Spec
CONSTANTS
    Docs = {"A", "B"}
    Notes = {}
    Texts <- TwoContents
    MaxTime = 2
    MaxVersions = 3
    Threads = {t1, t2}
    Topics <- OneSubject
    Silent = "silent"
    Says <- TwoOpinions
    Announces <- NewUpdates
    Stubs = {}
    ManyClaims = 2
    MaxLabels = 0
CHECK_DEADLOCK FALSE
PROPERTIES
    ExternalStands

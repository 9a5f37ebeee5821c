SPECIFICATION ServicesSpec
CONSTANTS
    Hooks = {"h1"}
    Submissions = {"s1"}
    MaxRetries = 1
    Senders = {"w1", "w2"}
    MaxSignals = 2
    MaxRequests = 1
    MaxExports = 1
    MaxMade = 2
    MaxRemovals = 1
    Names = {"a"}
    Hashes = {1, 2}
    MaxUploads = 2
    MaxDirect = 1
    MaxSyncs = 2
    Requests = {"p1", "p2"}
    Contents = {"c1", "c2"}
    MaxVersions = 3
    MaxBegun = 3
    FieldOrder <- MCFieldOrder
    Texts = {"short", "long"}
    LongTexts = {"long"}
    Edits <- MCEdits
    Posters = {"q1", "q2"}
    MaxPosts = 3
    MaxOperations = 3
    Instances = {"s1", "s2", "s3"}
    FirstAnswer <- MCFirstAnswer
    Answers = {"x", "y"}
    Queried = {"x"}
    Chosen = {{"s1", "s2"}}
    PartialRights <- MCPartialRights
    Clients = {"k1", "k2"}
    MaxCalls = 2
    MaxChanges = 1
    Questions = {"f", "g", "h"}
    FieldLists = {{}, {"f"}, {"g"}, {"f", "g"}}
    Visitors = {"v1", "v2"}
    MaxLinks = 1
    MaxVisits = 3
    MaxShared = 1
INVARIANTS
    ServicesTypeOK
    SuccessMeansAccepted
    GivesUpLate
    QuietMeansSettled
    CompleteHasFile
    LimitIsKept
    MirrorsWhenAlone
    PublishedIsVersioned
    AgreeWhenSerial
    TranscriptsAreKept
    SlotsAreTrue
    AuditMatchesDeletions
    ChangesAreMeant
    CacheFollowsLink
PROPERTIES
    PendingIsRetriable
    CompleteIsFinal
    ExportsEnd
    DirectFilesStay
CHECK_DEADLOCK FALSE

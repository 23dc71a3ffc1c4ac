\* Two requests at a time, syncs, webhooks, sweeps, transcodes and restarts;
\* and each of the clients.
SPECIFICATION MCSpec
CONSTANTS
    Handler = {h1, h2}
    Video = {v1, v2}
    None = none
    MaxJobs = 2
    Allowed = {"crash", "deaf"}
    MaxSessions = 2
    MaxAttempts = 2
    Text = {"a", "b"}
    Art = {"p", "q"}
    NoText = ""
    MaxRequests = 2
    MaxQueued = 2
    Name = {"n1", "n2"}
    Part = {"p1", "p2"}
    Master = "p1"
    Workers = 2
    Player = {"page", "app"}
    App = {"app"}
    MaxPosition = 2
    MaxRecoveries = 1
SYMMETRY Symmetry
CONSTRAINTS
    UntilMisplaced
    UntilSpoilt
    UntilSignedOut
    WhileItSpeaks

INVARIANTS
    ReadyHoldsVideo
    PendingIsEmpty
    NoOrphan
    LoginStands
    ShownIsStored
    ChoiceStands
    ListedOnceAndPlays
    ServedIsWhole
    BookmarkStands

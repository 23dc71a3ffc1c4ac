\* Two requests at a time about each component.
SPECIFICATION MCSpec
CONSTANTS
    Session = {s1, s2, s3}
    Handler = {h1, h2}
    Caps = {1}
    MaxAge = 5
    Allowed = {"lost", "crash"}
    Pins = {"p1", "p2"}
    PinLimit = 3
    Admin = {"a1", "a2"}
    MasterLimit = 2
    MaxCodes = 2
    BypassLimit = 3
    BypassCap = 4
    User = {"u1"}
    Subscribers = {"u1"}
    Handset = {"d1"}
    PushAudience = "subscribers"
    MaxRestarts = 1
    Gateway = {"routemobile", "bulksms", "twilio", "custom", "africastalking"}
    MaxChanges = 1
    Call = {"r1", "r2", "r3"}
    Value = {"a", "b"}
    NoValue = "none"
    MaxPayments = 2
    Poll = {1, 2}
    MaxTries = 1
SYMMETRY Symmetry

CONSTRAINTS
    ChangesOnce
    SettledByRestart
    OneLost

INVARIANTS
    OvershootBounded
    ActiveLooksActive
    GuessesPerLock
    GuessesPerCode
    BypassGuessesBounded
    PanelShowsALiveCode
    AnnouncementsBounded
    PushedMayOpen
    OneCatalogue
    AnswerTells
    CacheCurrent
    ScreenTells

\* An account may be left alone for good.
CHECK_DEADLOCK FALSE

\* Two requests at a time about one number, two codes, a third for the limits.
SPECIFICATION Spec
CONSTANTS
    MaxCodes = 3
    Handler = {h1, h2}
    MaxAttempts = 1
    Cooldown = TRUE
    PerHour = 1
    PerDay = 1
    OtpTtl = 1
    RecoveryTtl = 1
    Hour = 2
    Day = 2
    Routes = {"first", "last"}
    MaxPeople = 1
    None = none
SYMMETRY Symmetry
CONSTRAINTS ThirdCodeOnlyAsking OneWayMetered

INVARIANTS
    SignInsBounded
    GuessesBounded
    OtpLimitsHold
PROPERTY KeepsPromise

\* A number with no codes left in the bounded pool may be left alone.
CHECK_DEADLOCK FALSE

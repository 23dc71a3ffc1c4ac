\* Liveness.
SPECIFICATION FairSpec
CONSTANTS
    Session = {s1, s2}
    Handler = {h1}
    Limits = {0, 1}
    Nobody = nobody

PROPERTIES
    EvictedSlotReturns
    PatientViewerGetsIn

\* Every session of the bounded pool may have been signed out for good.
CHECK_DEADLOCK FALSE

\* One tab, every call served or lost as a whole; the grace may lapse.
SPECIFICATION FairSpec
CONSTANTS
    Tab = {tab1}
    Request = {r1}
    Token = {k1, k2, k3, k4}
    LegacyToken = legacy
    None = none
    Refused = refused
    Allowed = {"lapse"}

INVARIANTS
    NeverMistakenForReplay
    ClientNotStranded
PROPERTY
    RefreshSucceeds

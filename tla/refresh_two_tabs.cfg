\* Two tabs sharing localStorage refresh at the same time.
SPECIFICATION Spec
CONSTANTS
    Tab = {tab1, tab2}
    Request = {r1, r2}
    Token = {k1, k2, k3, k4, k5, k6}
    LegacyToken = legacy
    None = none
    Refused = refused
    Allowed = {}
SYMMETRY Symmetry
INVARIANT NeverMistakenForReplay

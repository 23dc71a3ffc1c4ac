\* Two play calls served at once.
SPECIFICATION Spec
CONSTANTS
    Session = {s1, s2, s3}
    Handler = {h1, h2}
    Limits = {1}
    Nobody = nobody
SYMMETRY Symmetry
VIEW WithoutHistory
CONSTRAINTS OneBeat OneRevoked

INVARIANTS
    OvershootBounded

\* Every session of the bounded pool may have been signed out for good.
CHECK_DEADLOCK FALSE

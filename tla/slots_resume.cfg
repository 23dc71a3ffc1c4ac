\* A device reports again after its lease went stale.
SPECIFICATION Spec
CONSTANTS
    Session = {s1, s2}
    Handler = {h1}
    Limits = {1}
    Nobody = nobody
SYMMETRY Symmetry

INVARIANT WithinLimit

\* Every session of the bounded pool may have been signed out for good.
CHECK_DEADLOCK FALSE

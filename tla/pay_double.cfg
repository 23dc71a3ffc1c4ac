\* Two polls, or a poll and a notification, served together.
SPECIFICATION Spec
CONSTANTS
    Providers = {"stripe"}
    Handler = {h1, h2}
    MaxGrants = 2
    Allowed = {}

INVARIANT GrantOnce

\* A payment may be left alone for good.
CHECK_DEADLOCK FALSE

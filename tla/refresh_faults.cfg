\* One tab, every fault; a call the client gave up on is still served.
SPECIFICATION FairSpec
CONSTANTS
    Tab = {tab1}
    Request = {r1}
    Token = {k1, k2, k3, k4}
    LegacyToken = legacy
    None = none
    Refused = refused
    Allowed = {"late", "lapse", "purge", "legacy"}

PROPERTIES
    RevocationIsFinal
    RefreshSettles

SPECIFICATION LinksSpec
CONSTANTS
    Links = {l1}
    Asks = {a1, a2, a3, a4}
    NoLink = NoLink
    Limits = {0, 1, 2}
SYMMETRY Symmetry
INVARIANTS
    UsesCounted
    OneFilePerUploadLink
PROPERTIES
    RevokedStaysUnused
    KeepsPromise
CHECK_DEADLOCK FALSE

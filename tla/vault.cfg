SPECIFICATION VaultSpec
CONSTANTS
    Cabinets = {c1, c2}
    Folders = {f1, f2, f3}
    Entries = {e1}
    Names = {n1, n2}
    Users = {super}
    Role <- MCRoleOf
    op = op
    admin = admin
    super = super
    None = None
    Workers = {w1, w2}
    Plans <- MCPlans
SYMMETRY Symmetry
INVARIANTS
    EntriesHaveCabinet
    TreesApart
    NoLooseFolder
CHECK_DEADLOCK FALSE

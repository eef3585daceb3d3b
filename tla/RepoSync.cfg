SPECIFICATION SyncSpec
CONSTANTS
    Repos = {r1, r2}
    Names = {n1, n2}
    Users = {u1, u2}
    Syncs = {s1, s2}
    NoName = NoName
    MaxChanges = 1
SYMMETRY Alike
INVARIANTS
    LinksWereListed
PROPERTY
    SoleSyncAgrees

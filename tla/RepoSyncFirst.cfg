SPECIFICATION SyncSpec
CONSTANTS
    Repos = {r1}
    Names = {n1}
    Users = {u1}
    Syncs = {s1, s2}
    NoName = NoName
    MaxChanges = 0
INVARIANT
    FirstPageIsAList
